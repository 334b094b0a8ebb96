-------------------------- MODULE StreamableProofs --------------------------
(***************************************************************************)
(* Proofs about the Streamable HTTP transport and the session manager      *)
(* below it, for any number of requests, streams, broadcasts and ids.      *)
(*                                                                         *)
(* EmitToLive rests on Locking: who is in writeSSE owns the session's      *)
(* mutex, and what its loop still holds is registered on that session.     *)
(* NoEventAfterDelete rests on RangeHoldsLock: the read lock is held for   *)
(* the whole range loop.  The properties of ids rest on Issued: no id in   *)
(* use anywhere can be drawn again.  WaitsDescend rests on Holding: where  *)
(* a goroutine is tells which locks it has.                                *)
(*                                                                         *)
(* BroadcastReaches rests on Reaching: between the filtering of a list and *)
(* its replacement no open stream falls out of it.  The refinement of      *)
(* EventStreams rests on Logged: the last entry of a log is the event that *)
(* is being written.  GaplessFeed is what EventStreamsProofs shows, taken  *)
(* over through the refinement.  SendsKeepOrder adds that a Send that has  *)
(* returned enters no log.                                                 *)
(***************************************************************************)
EXTENDS Streamable, TLAPS

-----------------------------------------------------------------------------
(* The inductive invariants.                                               *)

\* s.mu belongs to the goroutine that writes to the session.
LockOwner ==
  \A p \in Sender, s \in Sid : mu[s] = p <=> pc[p] = "write" /\ sess[p] = s

\* What the loop of writeSSE works on is registered; the writer it is writing
\* to is open.
InLoop ==
  \A p \in Sender :
    /\ pc[p] = "write" => /\ sess[p] \in Sid
                          /\ left[p] \cup kept[p] \subseteq writers[sess[p]]
    /\ out[p] # None => /\ pc[p] = "write"
                        /\ out[p] \in writers[sess[p]]
                        /\ ~closed[out[p]]

\* A registered writer belongs to a handler that is there, or is closed.
Registered ==
  \A s \in Sid : \A w \in writers[s] :
    /\ sess[w] = s
    /\ pc[w] \in {"streaming", "cleanup", "returned"}
    /\ pc[w] = "returned" => closed[w]

Locking == LockOwner /\ InLoop /\ Registered

\* Broadcast keeps the sessions it goes over in the map.
RangeHoldsLock ==
  \A p \in Sender : pc[p] \in {"range", "write"} =>
    /\ p \in readers
    /\ todo[p] \subseteq sessions
    /\ pc[p] = "write" => sess[p] \in sessions

\* Every id in anybody's hands has been used, or was never the server's.
Issued ==
  /\ \A p \in Proc : /\ sess[p] \in used \cup {None}
                     /\ hdr[p] \in used \cup {Stale, None}
  /\ \A p \in Post : /\ given[p] \in {None, sess[p]}
                     /\ pc[p] # "returned" => given[p] = None
                     /\ pc[p] \in {"idle", "lookup"} => sess[p] = None

\* What a DELETE has taken out of the map stays out.
Removed ==
  \A d \in Deleter :
    /\ pc[d] \in {"sweep", "reply"} \/ status[d] = "204" => hdr[d] \notin sessions
    /\ pc[d] # "returned" => status[d] = None
    /\ pc[d] = "sweep" => hdr[d] \in used

\* A POST gets another session than the one it asked for only if that one was
\* not there, and then nobody else has the one it gets.
Replaced ==
  /\ \A p \in Post :
       pc[p] \in {"create", "insert"} \/ sess[p] \notin {None, hdr[p]} =>
         hdr[p] \notin sessions
  /\ \A p, q \in Post :
       p # q /\ sess[p] # None /\ sess[p] = sess[q] => sess[p] \in {hdr[p], hdr[q]}

\* done is closed for registered writers of removed sessions.
DoneRegistered ==
  \A w \in Stream : done[w] =>
    closed[w] /\ sess[w] \notin sessions /\ pc[w] \notin {"idle", "lookup"}

Ids == Issued /\ Removed /\ Replaced /\ DoneRegistered

IInv == TypeOK /\ Locking /\ RangeHoldsLock /\ Ids

-----------------------------------------------------------------------------
(* Types.                                                                  *)

\* The kinds of goroutines share no goroutine.
LEMMA Kinds ==
  /\ Post \subseteq Proc /\ Stream \subseteq Proc
  /\ Deleter \subseteq Proc /\ Sender \subseteq Proc
  /\ \A p \in Post : p \notin Stream /\ p \notin Deleter /\ p \notin Sender
  /\ \A g \in Stream : g \notin Deleter /\ g \notin Sender
  /\ \A d \in Deleter : d \notin Sender
BY StreamableAssumption

\* The transport starts with every variable of its type.
LEMMA InitType == Init => TypeOK
<1> SUFFICES ASSUME Init PROVE TypeOK
  OBVIOUS
<1>1. \A p \in Proc : pc[p] = "idle"
  BY DEF Init, NewSessionManager
<1>2. pc \in [Proc -> PostAt \cup GetAt \cup DeleteAt \cup SendAt]
  BY DEF Init, NewSessionManager, PostAt
<1>3. /\ \A p \in Post : pc[p] \in PostAt
      /\ \A g \in Stream : pc[g] \in GetAt
      /\ \A d \in Deleter : pc[d] \in DeleteAt
      /\ \A p \in Sender : pc[p] \in SendAt
  BY <1>1, Kinds DEF PostAt, GetAt, DeleteAt, SendAt
<1>4. ctxDone \in BOOLEAN /\ closed \in [Stream -> BOOLEAN] /\ done \in [Stream -> BOOLEAN]
  BY DEF Init, NewSessionManager
<1>5. sent \in [Stream -> Seq(Proc)] /\ hist \in [Sid -> Seq(Proc)]
  BY DEF Init, NewSessionManager
<1> QED
  BY <1>2, <1>3, <1>4, <1>5 DEF Init, NewSessionManager, TypeOK, Status

\* A goroutine moves on; what else it changes has its type.
LEMMA MoveType ==
  ASSUME TypeOK, NEW p \in Proc, NEW to,
         pc' = [pc EXCEPT ![p] = to],
         \/ p \in Post /\ to \in PostAt
         \/ p \in Stream /\ to \in GetAt
         \/ p \in Deleter /\ to \in DeleteAt
         \/ p \in Sender /\ to \in SendAt
  PROVE  /\ pc' \in [Proc -> PostAt \cup GetAt \cup DeleteAt \cup SendAt]
         /\ \A q \in Post : pc'[q] \in PostAt
         /\ \A g \in Stream : pc'[g] \in GetAt
         /\ \A d \in Deleter : pc'[d] \in DeleteAt
         /\ \A q \in Sender : pc'[q] \in SendAt
BY Kinds DEF TypeOK

\* An id a client presents is of the type of headers.
LEMMA PresentableType == TypeOK => Presentable \cup {None} \subseteq Sid \cup {Stale, None}
BY Kinds DEF TypeOK, Presentable, Known

\* Requests arrive.
LEMMA ArrivesType == TypeOK /\ Arrives => TypeOK'
<1> SUFFICES ASSUME TypeOK, Arrives PROVE TypeOK'
  OBVIOUS
<1>1. ASSUME NEW p \in Proc, NEW code \in Status, Refuse(p, "idle", code)
      PROVE  TypeOK'
  <2>1. pc' = [pc EXCEPT ![p] = "returned"]
    BY <1>1 DEF Refuse, Goto
  <2>2. p \in Post \/ p \in Stream \/ p \in Deleter \/ p \in Sender
    BY StreamableAssumption
  <2>3. "returned" \in PostAt \cap GetAt \cap DeleteAt \cap SendAt
    BY DEF PostAt, GetAt, DeleteAt, SendAt
  <2> QED
    BY <1>1, <2>1, <2>2, <2>3, MoveType
    DEF TypeOK, Refuse, mapVars, sessVars, writeVars
<1>2. ASSUME NEW p \in Post \cup Stream \cup Deleter,
             NEW id \in Presentable \cup {None}, Accept(p, id)
      PROVE  TypeOK'
  <2>1. pc' = [pc EXCEPT ![p] = "lookup"] /\ p \in Proc
    BY <1>2, Kinds DEF Accept, Goto
  <2>2. "lookup" \in PostAt \cap GetAt \cap DeleteAt /\ id \in Sid \cup {Stale, None}
    BY PresentableType DEF PostAt, GetAt, DeleteAt
  <2> QED
    BY <1>2, <2>1, <2>2, MoveType
    DEF TypeOK, Accept, mapVars, sessVars, writeVars
<1>3. ASSUME NEW p \in Sender, SendCalled(p) PROVE TypeOK'
  <2>1. pc' = [pc EXCEPT ![p] = "send"] /\ "send" \in SendAt
    BY <1>3 DEF SendCalled, Goto, SendAt
  <2> QED
    BY <1>3, <2>1, MoveType, Kinds
    DEF TypeOK, SendCalled, mapVars, sessVars, writeVars, httpVars
<1>4. {"401", "400"} \subseteq Status
  BY DEF Status
<1> QED
  BY <1>1, <1>2, <1>3, <1>4, Kinds DEF Arrives, PostArrives, GetArrives, DeleteArrives

\* The steps of a POST.
LEMMA PostType == ASSUME NEW p \in Post PROVE TypeOK /\ PostStep(p) => TypeOK'
<1> SUFFICES ASSUME TypeOK, PostStep(p) PROVE TypeOK'
  OBVIOUS
<1> USE Kinds
<1>1. {"create", "handle", "insert", "returned"} \subseteq PostAt
  BY DEF PostAt
<1>2. CASE PostLookup(p)
  <2>1. GetSession(hdr[p]) \in Sid \cup {None}
    BY DEF GetSession, TypeOK
  <2>2. pc' = [pc EXCEPT ![p] = IF sess'[p] = None THEN "create" ELSE "handle"]
    BY <1>2 DEF PostLookup, Goto
  <2> QED
    BY <1>1, <1>2, <2>1, <2>2, MoveType
    DEF TypeOK, PostLookup, mapVars, sessVars, writeVars, httpVars
<1>3. CASE PostCreate(p)
  BY <1>1, <1>3, MoveType
  DEF TypeOK, PostCreate, MapLock, Goto, sessVars, writeVars, httpVars
<1>4. CASE PostInsert(p)
  BY <1>1, <1>4, MoveType
  DEF TypeOK, PostInsert, CreateInsert, FreshIds, Goto, sessVars, writeVars, httpVars
<1>5. CASE PostRespond(p)
  <2>1. {"200", "202"} \subseteq Status
    BY DEF Status
  <2> QED
    BY <1>1, <1>5, <2>1, MoveType
    DEF TypeOK, PostRespond, Goto, mapVars, sessVars, writeVars
<1> QED  BY <1>2, <1>3, <1>4, <1>5 DEF PostStep

\* The steps of an event stream.
LEMMA GetType == ASSUME NEW g \in Stream PROVE TypeOK /\ GetStep(g) => TypeOK'
<1> SUFFICES ASSUME TypeOK, GetStep(g) PROVE TypeOK'
  OBVIOUS
<1> USE Kinds
<1>1. GetAt = {"idle", "lookup", "found", "opened", "streaming", "cleanup", "returned"}
  BY DEF GetAt
<1>2. CASE GetLookup(g)
  <2>1. hdr[g] \in Sid
    BY <1>2 DEF GetLookup, GetSession, TypeOK
  <2> QED
    BY <1>1, <1>2, <2>1, MoveType
    DEF TypeOK, GetLookup, Goto, mapVars, sessVars, writeVars, httpVars
<1>3. CASE GetUnknown(g) \/ GetNoFlusher(g)
  <2>1. {"404", "500"} \subseteq Status
    BY DEF Status
  <2>2. PICK code \in Status : \E from : Refuse(g, from, code)
    BY <1>3, <2>1 DEF GetUnknown, GetNoFlusher
  <2> QED
    BY <1>1, <2>2, MoveType DEF TypeOK, Refuse, Goto, mapVars, sessVars, writeVars
<1>4. CASE GetOpen(g)
  <2>1. "200" \in Status
    BY DEF Status
  <2> QED
    BY <1>1, <1>4, <2>1, MoveType
    DEF TypeOK, GetOpen, Goto, mapVars, sessVars, writeVars
<1>5. CASE GetAddWriter(g)
  <2>1. writers' = [writers EXCEPT ![sess[g]] = @ \cup {g}]
    BY <1>5 DEF GetAddWriter, AddWriter
  <2>2. writers' \in [Sid -> SUBSET Stream]
    <3> SUFFICES ASSUME NEW s \in Sid PROVE writers'[s] \subseteq Stream
      BY <2>1 DEF TypeOK
    <3> QED  BY <2>1 DEF TypeOK
  <2> QED
    BY <1>1, <1>5, <2>2, MoveType
    DEF TypeOK, GetAddWriter, AddWriter, Goto, mapVars, writeVars, httpVars
<1>6. CASE GetWake(g)
  BY <1>1, <1>6, MoveType
  DEF TypeOK, GetWake, Goto, mapVars, sessVars, writeVars, httpVars
<1>7. CASE GetCleanup(g)
  BY <1>1, <1>7, MoveType
  DEF TypeOK, GetCleanup, Cleanup, Goto, mapVars, writeVars, httpVars
<1> QED  BY <1>2, <1>3, <1>4, <1>5, <1>6, <1>7 DEF GetStep

\* The steps of a DELETE.
LEMMA DeleteType == ASSUME NEW d \in Deleter PROVE TypeOK /\ DeleteStep(d) => TypeOK'
<1> SUFFICES ASSUME TypeOK, DeleteStep(d) PROVE TypeOK'
  OBVIOUS
<1> USE Kinds
<1>1. DeleteAt = {"idle", "lookup", "delete", "remove", "sweep", "reply", "returned"}
  BY DEF DeleteAt
<1>2. CASE DeleteLookup(d)
  BY <1>1, <1>2, MoveType
  DEF TypeOK, DeleteLookup, Goto, mapVars, sessVars, writeVars, httpVars
<1>3. CASE DeleteUnknown(d) \/ DeleteReply(d)
  <2>1. {"404", "204"} \subseteq Status
    BY DEF Status
  <2>2. PICK code \in Status : \E from : Refuse(d, from, code)
    BY <1>3, <2>1 DEF DeleteUnknown, DeleteReply
  <2> QED
    BY <1>1, <2>2, MoveType DEF TypeOK, Refuse, Goto, mapVars, sessVars, writeVars
<1>4. CASE DeleteLock(d)
  BY <1>1, <1>4, MoveType
  DEF TypeOK, DeleteLock, MapLock, Goto, sessVars, writeVars, httpVars
<1>5. CASE DeleteFromMap(d)
  BY <1>1, <1>5, MoveType
  DEF TypeOK, DeleteFromMap, DeleteRemove, Goto, sessVars, writeVars, httpVars
<1>6. CASE DeleteWriters(d)
  BY <1>1, <1>6, MoveType
  DEF TypeOK, DeleteWriters, DeleteSweep, Goto, mapVars, writeVars, httpVars
<1> QED  BY <1>2, <1>3, <1>4, <1>5, <1>6 DEF DeleteStep

\* The steps of a Send.
LEMMA SendType == ASSUME NEW p \in Sender PROVE TypeOK /\ SendStep(p) => TypeOK'
<1> SUFFICES ASSUME TypeOK, SendStep(p) PROVE TypeOK'
  OBVIOUS
<1> USE Kinds
<1>1. SendAt = {"idle", "send", "range", "write", "returned"}
  BY DEF SendAt
<1>2. CASE BroadcastBegin(p, "send")
  BY <1>1, <1>2, MoveType
  DEF TypeOK, SendStep, BroadcastBegin, RLocked, ActiveStreams, Goto, sessVars,
      writeVars, httpVars
<1>3. CASE BroadcastSession(p)
  <2>1. PICK s \in todo[p] : WriteLock(p, s, "range")
    BY <1>3 DEF BroadcastSession
  <2>2. s \in Sid
    BY DEF TypeOK
  <2>3. hist' \in [Sid -> Seq(Proc)]
    BY <2>1, <2>2 DEF TypeOK, WriteLock
  <2> QED
    BY <1>1, <2>1, <2>2, <2>3, MoveType
    DEF TypeOK, SendStep, WriteLock, Goto, mapVars, httpVars
<1>4. CASE WriteNext(p)
  BY <1>4 DEF TypeOK, SendStep, WriteNext, mapVars, sessVars, httpVars
<1>5. CASE WriteOk(p)
  <2>1. sent' \in [Stream -> Seq(Proc)]
    BY <1>5 DEF TypeOK, WriteOk
  <2> QED
    BY <1>5, <2>1 DEF TypeOK, SendStep, WriteOk, mapVars, sessVars, httpVars
<1>6. CASE WriteFail(p, gone)
  BY <1>6 DEF TypeOK, SendStep, WriteFail, mapVars, httpVars
<1>7. CASE WriteUnlock(p, "range")
  BY <1>1, <1>7, MoveType
  DEF TypeOK, SendStep, WriteUnlock, Filtered, Goto, mapVars, writeVars, httpVars
<1>8. CASE BroadcastEnd(p, "returned")
  BY <1>1, <1>8, MoveType
  DEF TypeOK, SendStep, BroadcastEnd, Goto, sessVars, writeVars, httpVars
<1> QED  BY <1>2, <1>3, <1>4, <1>5, <1>6, <1>7, <1>8 DEF SendStep

\* TypeOK is preserved by every step.
LEMMA NextType == TypeOK /\ [Next]_vars => TypeOK'
<1> SUFFICES ASSUME TypeOK, [Next]_vars PROVE TypeOK'
  OBVIOUS
<1>1. ASSUME NEW g \in Stream, Disconnect(g) PROVE TypeOK'
  BY <1>1 DEF TypeOK, Disconnect, mapVars, sessVars, writeVars
<1>2. CASE Cancel
  BY <1>2 DEF TypeOK, Cancel, mapVars, sessVars, writeVars
<1>3. CASE UNCHANGED vars
  BY <1>3 DEF TypeOK, vars, mapVars, sessVars, writeVars, httpVars
<1> QED
  BY ArrivesType, PostType, GetType, DeleteType, SendType, <1>1, <1>2, <1>3
  DEF Next, Terminated

\* Every variable of the transport keeps its type.
THEOREM TypeCorrect == Spec => []TypeOK
BY InitType, NextType, PTL DEF Spec

-----------------------------------------------------------------------------
(* Locking: s.mu, the list of writers and the loop of writeSSE.            *)

\* Nothing is locked or registered before the first request.
LEMMA InitLocking == Init => Locking /\ RangeHoldsLock
<1> SUFFICES ASSUME Init PROVE Locking /\ RangeHoldsLock
  OBVIOUS
<1>1. /\ \A s \in Sid : mu[s] = None /\ writers[s] = {}
      /\ \A p \in Proc : pc[p] = "idle" /\ out[p] = None
  BY DEF Init, NewSessionManager
<1> QED
  BY <1>1, Kinds, SessionsAssumption
  DEF Locking, LockOwner, InLoop, Registered, RangeHoldsLock

\* A step outside of writeSSE, addWriter, cleanup and Delete's second half.
LEMMA CalmStep ==
  ASSUME TypeOK, Locking,
         UNCHANGED <<mu, writers, closed, left, kept, out>>,
         \A p \in Sender : \/ pc'[p] = pc[p] /\ sess'[p] = sess[p]
                           \/ "write" \notin {pc[p], pc'[p]},
         \A w \in Stream : \/ sess'[w] = sess[w] /\ pc'[w] \in {pc[w], "cleanup"}
                           \/ pc[w] \notin {"streaming", "cleanup", "returned"}
  PROVE  Locking'
<1>1. LockOwner'
  BY SessionsAssumption DEF Locking, LockOwner
<1>2. InLoop'
  BY DEF Locking, InLoop
<1>3. Registered'
  <2> SUFFICES ASSUME NEW s \in Sid, NEW w \in writers[s]
               PROVE  /\ sess'[w] = s
                      /\ pc'[w] \in {"streaming", "cleanup", "returned"}
                      /\ pc'[w] = "returned" => closed[w]
    BY DEF Registered
  <2>1. w \in Stream
    BY DEF TypeOK
  <2>2. /\ sess[w] = s
        /\ pc[w] \in {"streaming", "cleanup", "returned"}
        /\ pc[w] = "returned" => closed[w]
    BY DEF Locking, Registered
  <2>3. sess'[w] = sess[w] /\ pc'[w] \in {pc[w], "cleanup"}
    BY <2>1, <2>2
  <2> QED  BY <2>2, <2>3
<1> QED  BY <1>1, <1>2, <1>3 DEF Locking

\* A step in which no Send enters or leaves the range loop and no session is
\* removed.
LEMMA CalmRange ==
  ASSUME TypeOK, RangeHoldsLock,
         UNCHANGED <<readers, todo>>,
         sessions \subseteq sessions',
         \A p \in Sender : \/ pc'[p] = pc[p] /\ sess'[p] = sess[p]
                           \/ pc'[p] \notin {"range", "write"}
  PROVE  RangeHoldsLock'
BY DEF RangeHoldsLock

\* Nobody is writing to a session whose mutex is free, nor to its streams.
LEMMA NobodyWrites ==
  ASSUME TypeOK, Locking, NEW s \in Sid, SessionLockFree(s), NEW p \in Sender
  PROVE  /\ ~(pc[p] = "write" /\ sess[p] = s)
         /\ out[p] = None \/ sess[out[p]] # s
<1>1. mu[s] # p
  BY SessionsAssumption, Kinds DEF SessionLockFree
<1>2. ~(pc[p] = "write" /\ sess[p] = s)
  BY <1>1 DEF Locking, LockOwner
<1> QED  BY <1>2 DEF Locking, InLoop, Registered, TypeOK

\* The writers two Sends are writing to are different.
LEMMA DistinctOut ==
  ASSUME TypeOK, Locking, NEW p \in Sender, NEW q \in Sender, p # q, out[p] # None
  PROVE  out[q] # out[p] /\ (pc[q] = "write" => sess[q] # sess[p])
<1>1. pc[p] = "write" /\ sess[p] \in Sid /\ mu[sess[p]] = p
  BY DEF Locking, LockOwner, InLoop
<1>2. pc[q] = "write" => sess[q] # sess[p]
  BY <1>1 DEF Locking, LockOwner
<1>3. out[p] \in Stream /\ sess[out[p]] = sess[p]
  BY <1>1 DEF Locking, InLoop, Registered, TypeOK
<1>4. out[q] # None => sess[out[q]] = sess[q] /\ pc[q] = "write"
  BY DEF Locking, InLoop, Registered, TypeOK
<1> QED  BY <1>2, <1>3, <1>4

\* Arrivals and the steps of a POST lock nothing.
LEMMA PostLocking ==
  ASSUME NEW p \in Post
  PROVE  IInv /\ PostStep(p) => Locking' /\ RangeHoldsLock'
<1> SUFFICES ASSUME IInv, PostStep(p) PROVE Locking' /\ RangeHoldsLock'
  OBVIOUS
<1>1. /\ UNCHANGED <<sessVars, writeVars, readers, todo>>
      /\ sessions \subseteq sessions'
      /\ \A q \in Proc : q # p => pc'[q] = pc[q] /\ sess'[q] = sess[q]
  <2>1. CASE PostLookup(p)
    BY <2>1 DEF PostLookup, Goto, mapVars, IInv, TypeOK
  <2>2. CASE PostCreate(p)
    BY <2>2 DEF PostCreate, MapLock, Goto, IInv, TypeOK
  <2>3. CASE PostInsert(p)
    BY <2>3 DEF PostInsert, CreateInsert, Goto, IInv, TypeOK
  <2>4. CASE PostRespond(p)
    BY <2>4 DEF PostRespond, Goto, mapVars, IInv, TypeOK
  <2> QED  BY <2>1, <2>2, <2>3, <2>4 DEF PostStep
<1>2. \A q \in Sender \cup Stream : pc'[q] = pc[q] /\ sess'[q] = sess[q]
  BY <1>1, Kinds
<1>3. Locking'
  BY <1>1, <1>2, CalmStep DEF IInv, sessVars, writeVars
<1>4. RangeHoldsLock'
  BY <1>1, <1>2, CalmRange DEF IInv
<1> QED  BY <1>3, <1>4

\* Nor do arrivals, disconnects and the cancellation.
LEMMA EnvironmentLocking ==
  IInv /\ (Arrives \/ Cancel \/ \E g \in Stream : Disconnect(g))
    => Locking' /\ RangeHoldsLock'
<1> SUFFICES ASSUME IInv, Arrives \/ Cancel \/ \E g \in Stream : Disconnect(g)
             PROVE  Locking' /\ RangeHoldsLock'
  OBVIOUS
<1>1. /\ UNCHANGED <<sess, mapVars, sessVars, writeVars, todo>>
      /\ \A q \in Proc : \/ pc'[q] = pc[q]
                         \/ pc[q] = "idle" /\ pc'[q] \in {"returned", "lookup", "send"}
  <2>1. CASE \E q \in Proc : \E code : Refuse(q, "idle", code)
    BY <2>1 DEF Refuse, Goto, IInv, TypeOK
  <2>2. CASE \E q \in Proc : \E id : Accept(q, id)
    BY <2>2 DEF Accept, Goto, IInv, TypeOK
  <2>3. CASE \E q \in Proc : SendCalled(q)
    BY <2>3 DEF SendCalled, Goto, IInv, TypeOK
  <2>4. CASE Cancel \/ \E g \in Stream : Disconnect(g)
    BY <2>4 DEF Cancel, Disconnect
  <2> QED
    BY <2>1, <2>2, <2>3, <2>4, Kinds
    DEF Arrives, PostArrives, GetArrives, DeleteArrives
<1>2. Locking'
  BY <1>1, CalmStep, Kinds DEF IInv, sessVars, writeVars
<1>3. RangeHoldsLock'
  BY <1>1, CalmRange, Kinds DEF IInv, mapVars
<1> QED  BY <1>2, <1>3

\* addWriter registers a stream under its own session; cleanup closes it
\* before the handler returns, when nobody is writing to it.
LEMMA GetLocking ==
  ASSUME NEW g \in Stream
  PROVE  IInv /\ GetStep(g) => Locking' /\ RangeHoldsLock'
<1> SUFFICES ASSUME IInv, GetStep(g) PROVE Locking' /\ RangeHoldsLock'
  OBVIOUS
<1> USE Kinds
<1>1. CASE GetLookup(g) \/ GetUnknown(g) \/ GetNoFlusher(g) \/ GetOpen(g) \/ GetWake(g)
  <2>1. /\ UNCHANGED <<mapVars, sessVars, writeVars, todo>>
        /\ \A q \in Proc : q # g => pc'[q] = pc[q] /\ sess'[q] = sess[q]
        /\ \/ sess' = sess /\ pc'[g] = "cleanup"
           \/ pc[g] \notin {"streaming", "cleanup", "returned"}
    <3>1. CASE GetLookup(g)
      BY <3>1 DEF GetLookup, Goto, IInv, TypeOK
    <3>2. CASE GetUnknown(g) \/ GetNoFlusher(g)
      BY <3>2 DEF GetUnknown, GetNoFlusher, Refuse, Goto, IInv, TypeOK
    <3>3. CASE GetOpen(g)
      BY <3>3 DEF GetOpen, Goto, IInv, TypeOK
    <3>4. CASE GetWake(g)
      BY <3>4 DEF GetWake, Goto, IInv, TypeOK
    <3> QED  BY <1>1, <3>1, <3>2, <3>3, <3>4
  <2>2. \A q \in Sender : pc'[q] = pc[q] /\ sess'[q] = sess[q]
    BY <2>1
  <2>3. Locking'
    BY <2>1, <2>2, CalmStep DEF IInv, sessVars, writeVars
  <2>4. RangeHoldsLock'
    BY <2>1, <2>2, CalmRange DEF IInv, mapVars
  <2> QED  BY <2>3, <2>4
<1>2. CASE GetAddWriter(g)
  <2>1. /\ pc[g] = "opened" /\ pc' = [pc EXCEPT ![g] = "streaming"]
        /\ SessionLockFree(sess[g])
        /\ writers' = [writers EXCEPT ![sess[g]] = @ \cup {g}]
        /\ UNCHANGED <<sess, todo, mu, closed, mapVars, writeVars>>
    BY <1>2 DEF GetAddWriter, AddWriter, AddReady, Goto
  <2>2. \A q \in Sender : pc'[q] = pc[q]
    BY <2>1 DEF IInv, TypeOK
  <2>3. \A s \in Sid : writers'[s] = IF s = sess[g] THEN writers[s] \cup {g} ELSE writers[s]
    BY <2>1 DEF IInv, TypeOK
  <2>4. LockOwner'
    BY <2>1, <2>2 DEF IInv, Locking, LockOwner
  <2>5. InLoop'
    BY <2>1, <2>2, <2>3 DEF IInv, Locking, InLoop, writeVars
  <2>6. Registered'
    BY <2>1, <2>3 DEF IInv, TypeOK, Locking, Registered
  <2>7. RangeHoldsLock'
    BY <2>1, <2>2, CalmRange DEF IInv, mapVars
  <2> QED  BY <2>4, <2>5, <2>6, <2>7 DEF Locking
<1>3. CASE GetCleanup(g)
  <2>1. /\ pc[g] = "cleanup" /\ pc' = [pc EXCEPT ![g] = "returned"]
        /\ SessionLockFree(sess[g])
        /\ closed' = [closed EXCEPT ![g] = TRUE]
        /\ UNCHANGED <<sess, todo, writers, mu, mapVars, writeVars>>
    BY <1>3 DEF GetCleanup, Cleanup, CleanupReady, Goto
  <2>2. \A q \in Sender : pc'[q] = pc[q]
    BY <2>1 DEF IInv, TypeOK
  <2>3. ASSUME NEW p \in Sender, out[p] = g PROVE FALSE
    <3>1. pc[p] = "write" /\ sess[p] \in Sid /\ sess[g] = sess[p] /\ mu[sess[p]] = p
      BY <2>3, SessionsAssumption DEF IInv, Locking, LockOwner, InLoop, Registered
    <3> QED  BY <2>1, <3>1, NobodyWrites DEF IInv
  <2>4. LockOwner'
    BY <2>1, <2>2 DEF IInv, Locking, LockOwner
  <2>5. InLoop'
    BY <2>1, <2>2, <2>3 DEF IInv, TypeOK, Locking, InLoop, writeVars
  <2>6. Registered'
    BY <2>1 DEF IInv, TypeOK, Locking, Registered
  <2>7. RangeHoldsLock'
    BY <2>1, <2>2, CalmRange DEF IInv, mapVars
  <2> QED  BY <2>4, <2>5, <2>6, <2>7 DEF Locking
<1> QED  BY <1>1, <1>2, <1>3 DEF GetStep

\* Delete waits for every Broadcast before it takes the session out, and for
\* the writer inside before it closes the session's streams.
LEMMA DeleteLocking ==
  ASSUME NEW d \in Deleter
  PROVE  IInv /\ DeleteStep(d) => Locking' /\ RangeHoldsLock'
<1> SUFFICES ASSUME IInv, DeleteStep(d) PROVE Locking' /\ RangeHoldsLock'
  OBVIOUS
<1> USE Kinds
<1>1. CASE DeleteLookup(d) \/ DeleteUnknown(d) \/ DeleteLock(d) \/ DeleteReply(d)
  <2>1. /\ UNCHANGED <<sess, todo, sessions, readers, sessVars, writeVars>>
        /\ \A q \in Proc : q # d => pc'[q] = pc[q]
    <3>1. CASE DeleteLookup(d)
      BY <3>1 DEF DeleteLookup, Goto, IInv, TypeOK, mapVars
    <3>2. CASE DeleteUnknown(d) \/ DeleteReply(d)
      BY <3>2 DEF DeleteUnknown, DeleteReply, Refuse, Goto, IInv, TypeOK, mapVars
    <3>3. CASE DeleteLock(d)
      BY <3>3 DEF DeleteLock, MapLock, Goto, IInv, TypeOK
    <3> QED  BY <1>1, <3>1, <3>2, <3>3
  <2>2. \A q \in Sender \cup Stream : pc'[q] = pc[q] /\ sess'[q] = sess[q]
    BY <2>1
  <2>3. Locking'
    BY <2>1, <2>2, CalmStep DEF IInv, sessVars, writeVars
  <2>4. RangeHoldsLock'
    BY <2>1, <2>2, CalmRange DEF IInv
  <2> QED  BY <2>3, <2>4
<1>2. CASE DeleteFromMap(d)
  <2>1. /\ UNCHANGED <<sess, todo, readers, sessVars, writeVars>>
        /\ \A q \in Proc : q # d => pc'[q] = pc[q]
        /\ readers = {}
    BY <1>2 DEF DeleteFromMap, DeleteRemove, MapLocked, Goto, IInv, TypeOK
  <2>2. \A q \in Sender \cup Stream : pc'[q] = pc[q] /\ sess'[q] = sess[q]
    BY <2>1
  <2>3. Locking'
    BY <2>1, <2>2, CalmStep DEF IInv, sessVars, writeVars
  <2>4. RangeHoldsLock'
    BY <2>1, <2>2 DEF IInv, RangeHoldsLock
  <2> QED  BY <2>3, <2>4
<1>3. CASE DeleteWriters(d)
  <2> DEFINE id == hdr[d]
  <2>1. /\ pc' = [pc EXCEPT ![d] = "reply"]
        /\ SessionLockFree(id)
        /\ closed' = [w \in Stream |-> closed[w] \/ w \in writers[id]]
        /\ UNCHANGED <<sess, todo, writers, mu, mapVars, writeVars>>
    BY <1>3 DEF DeleteWriters, DeleteSweep, SweptBy, Goto
  <2>2. \A q \in Sender \cup Stream : pc'[q] = pc[q]
    BY <2>1 DEF IInv, TypeOK
  <2>3. id \in Sid
    BY <1>3 DEF DeleteWriters, DeleteSweep, Goto, IInv, TypeOK, Ids, Removed
  <2> HIDE DEF id
  <2>4. ASSUME NEW p \in Sender, out[p] # None
        PROVE  out[p] \in Stream /\ out[p] \notin writers[id]
    BY <2>1, <2>3, <2>4, NobodyWrites DEF IInv, TypeOK, Locking, Registered
  <2>5. LockOwner'
    BY <2>1, <2>2 DEF IInv, Locking, LockOwner
  <2>6. InLoop'
    BY <2>1, <2>2, <2>4 DEF IInv, TypeOK, Locking, InLoop, writeVars
  <2>7. Registered'
    BY <2>1, <2>2 DEF IInv, TypeOK, Locking, Registered
  <2>8. RangeHoldsLock'
    BY <2>1, <2>2, CalmRange DEF IInv, mapVars
  <2> QED  BY <2>5, <2>6, <2>7, <2>8 DEF Locking
<1> QED  BY <1>1, <1>2, <1>3 DEF DeleteStep

\* Send: the range loop of Broadcast, and in it the loop of writeSSE.
LEMMA SendLocking ==
  ASSUME NEW p \in Sender
  PROVE  IInv /\ SendStep(p) => Locking' /\ RangeHoldsLock'
<1> SUFFICES ASSUME IInv, SendStep(p) PROVE Locking' /\ RangeHoldsLock'
  OBVIOUS
<1> USE Kinds
<1>1. CASE BroadcastBegin(p, "send") \/ BroadcastEnd(p, "returned")
  <2>1. /\ UNCHANGED <<sess, sessions, sessVars, writeVars>>
        /\ "write" \notin {pc[p], pc'[p]}
        /\ \A q \in Proc : q # p => pc'[q] = pc[q] /\ todo'[q] = todo[q]
                                    /\ (q \in readers => q \in readers')
        /\ pc'[p] = "range" => p \in readers' /\ todo'[p] = sessions
    <3>1. CASE BroadcastBegin(p, "send")
      BY <3>1 DEF BroadcastBegin, RLocked, Goto, IInv, TypeOK
    <3>2. CASE BroadcastEnd(p, "returned")
      BY <3>2 DEF BroadcastEnd, Goto, IInv, TypeOK
    <3> QED  BY <1>1, <3>1, <3>2
  <2>2. Locking'
    BY <2>1, CalmStep DEF IInv, sessVars, writeVars
  <2>3. RangeHoldsLock'
    <3>1. pc'[p] \in {"range", "returned"}
      BY <1>1 DEF BroadcastBegin, BroadcastEnd, Goto, IInv, TypeOK
    <3> QED  BY <2>1, <3>1 DEF IInv, TypeOK, RangeHoldsLock
  <2> QED  BY <2>2, <2>3
<1>2. CASE BroadcastSession(p)
  <2>1. PICK s \in todo[p] : WriteLock(p, s, "range")
    BY <1>2 DEF BroadcastSession
  <2>2. s \in Sid /\ p \in readers /\ s \in sessions
    BY <2>1 DEF IInv, TypeOK, RangeHoldsLock, WriteLock, Goto
  <2>3. /\ pc[p] = "range" /\ pc' = [pc EXCEPT ![p] = "write"]
        /\ mu[s] = None /\ mu' = [mu EXCEPT ![s] = p]
        /\ sess' = [sess EXCEPT ![p] = s]
        /\ left' = [left EXCEPT ![p] = writers[s]]
        /\ kept' = [kept EXCEPT ![p] = {}]
        /\ todo' = [todo EXCEPT ![p] = @ \ {s}]
        /\ UNCHANGED <<writers, closed, out, mapVars>>
    BY <2>1 DEF WriteLock, SessionLockFree, Goto
  <2>4. \A q \in Proc : q # p => /\ pc'[q] = pc[q] /\ sess'[q] = sess[q]
                                 /\ left'[q] = left[q] /\ kept'[q] = kept[q]
    BY <2>3 DEF IInv, TypeOK
  <2>5. /\ pc'[p] = "write" /\ sess'[p] = s
        /\ left'[p] = writers[s] /\ kept'[p] = {} /\ out[p] = None
    BY <2>3 DEF IInv, TypeOK, Locking, InLoop
  <2>6. LockOwner'
    BY <2>2, <2>3, <2>4, <2>5, SessionsAssumption DEF IInv, TypeOK, Locking, LockOwner
  <2>7. InLoop'
    BY <2>2, <2>3, <2>4, <2>5 DEF IInv, Locking, InLoop
  <2>8. Registered'
    BY <2>3, <2>4 DEF IInv, TypeOK, Locking, Registered
  <2>9. RangeHoldsLock'
    BY <2>2, <2>3, <2>4, <2>5 DEF IInv, TypeOK, RangeHoldsLock, mapVars
  <2> QED  BY <2>6, <2>7, <2>8, <2>9 DEF Locking
<1>3. CASE WriteNext(p)
  <2>1. PICK w \in left[p] :
          /\ left' = [left EXCEPT ![p] = @ \ {w}]
          /\ out' = IF IsActive(w) THEN [out EXCEPT ![p] = w] ELSE out
    BY <1>3 DEF WriteNext
  <2>2. pc[p] = "write" /\ UNCHANGED <<pc, sess, todo, kept, mapVars, sessVars>>
    BY <1>3 DEF WriteNext
  <2>3. w \in writers[sess[p]] /\ left'[p] \subseteq left[p]
    BY <2>1, <2>2 DEF IInv, TypeOK, Locking, InLoop
  <2>4. LockOwner' /\ Registered'
    BY <2>2 DEF IInv, Locking, LockOwner, Registered, sessVars
  <2>5. InLoop'
    BY <2>1, <2>2, <2>3 DEF IInv, TypeOK, Locking, InLoop, IsActive, sessVars
  <2>6. RangeHoldsLock'
    BY <2>2, CalmRange DEF IInv, mapVars
  <2> QED  BY <2>4, <2>5, <2>6 DEF Locking
<1>4. CASE WriteOk(p)
  <2>1. /\ pc[p] = "write" /\ out[p] # None
        /\ kept' = [kept EXCEPT ![p] = @ \cup {out[p]}]
        /\ out' = [out EXCEPT ![p] = None]
        /\ UNCHANGED <<pc, sess, todo, left, mapVars, sessVars>>
    BY <1>4 DEF WriteOk
  <2>2. LockOwner' /\ Registered'
    BY <2>1 DEF IInv, Locking, LockOwner, Registered, sessVars
  <2>3. InLoop'
    BY <2>1 DEF IInv, TypeOK, Locking, InLoop, sessVars
  <2>4. RangeHoldsLock'
    BY <2>1, CalmRange DEF IInv, mapVars
  <2> QED  BY <2>2, <2>3, <2>4 DEF Locking
<1>5. CASE WriteFail(p, gone)
  <2>1. /\ pc[p] = "write" /\ out[p] \in gone
        /\ closed' = [closed EXCEPT ![out[p]] = TRUE]
        /\ out' = [out EXCEPT ![p] = None]
        /\ UNCHANGED <<pc, sess, todo, left, kept, writers, mu, mapVars>>
    BY <1>5 DEF WriteFail
  <2>2. out[p] \in Stream /\ out[p] # None
    BY <2>1, SessionsAssumption DEF IInv, TypeOK
  <2>3. \A q \in Sender : q # p => out[q] # out[p]
    BY <2>2, DistinctOut DEF IInv
  <2>4. LockOwner' /\ Registered'
    BY <2>1 DEF IInv, TypeOK, Locking, LockOwner, Registered
  <2>5. InLoop'
    BY <2>1, <2>2, <2>3 DEF IInv, TypeOK, Locking, InLoop
  <2>6. RangeHoldsLock'
    BY <2>1, CalmRange DEF IInv, mapVars
  <2> QED  BY <2>4, <2>5, <2>6 DEF Locking
<1>6. CASE WriteUnlock(p, "range")
  <2> DEFINE s == sess[p]
  <2>1. /\ pc[p] = "write" /\ pc' = [pc EXCEPT ![p] = "range"]
        /\ out[p] = None
        /\ writers' = [writers EXCEPT ![s] = kept[p]]
        /\ mu' = [mu EXCEPT ![s] = None]
        /\ UNCHANGED <<sess, todo, closed, mapVars, writeVars>>
    BY <1>6 DEF WriteUnlock, Filtered, Goto
  <2>2. s \in Sid /\ mu[s] = p /\ kept[p] \subseteq writers[s]
    BY <2>1 DEF IInv, Locking, LockOwner, InLoop
  <2>3. \A q \in Sender : q # p => ~(pc[q] = "write" /\ sess[q] = s)
    BY <2>2 DEF IInv, Locking, LockOwner
  <2> HIDE DEF s
  <2>4. /\ \A q \in Proc : q # p => pc'[q] = pc[q]
        /\ pc'[p] = "range"
        /\ writers'[s] = kept[p] /\ mu'[s] = None
        /\ \A t \in Sid : t # s => writers'[t] = writers[t] /\ mu'[t] = mu[t]
    BY <2>1, <2>2 DEF IInv, TypeOK
  <2>5. LockOwner'
    BY <2>1, <2>2, <2>3, <2>4, SessionsAssumption DEF s, IInv, TypeOK, Locking, LockOwner
  <2>6. InLoop'
    BY <2>1, <2>2, <2>3, <2>4 DEF IInv, TypeOK, Locking, InLoop, writeVars
  <2>7. Registered'
    BY <2>1, <2>2, <2>4 DEF IInv, TypeOK, Locking, Registered
  <2>8. RangeHoldsLock'
    BY <2>1, <2>4 DEF IInv, RangeHoldsLock, mapVars
  <2> QED  BY <2>5, <2>6, <2>7, <2>8 DEF Locking
<1> QED  BY <1>1, <1>2, <1>3, <1>4, <1>5, <1>6 DEF SendStep

-----------------------------------------------------------------------------
(* Ids: what is drawn, presented, given out and removed.                   *)

\* No id is in anybody's hands at first.
LEMMA InitIds == Init => Ids
<1> SUFFICES ASSUME Init PROVE Ids
  OBVIOUS
<1>1. /\ \A q \in Proc : /\ sess[q] = None /\ hdr[q] = None /\ status[q] = None
                         /\ given[q] = None /\ pc[q] = "idle"
      /\ \A w \in Stream : ~done[w]
      /\ sessions = {}
  BY DEF Init, NewSessionManager
<1> QED
  BY <1>1, Kinds, StreamableAssumption DEF Ids, Issued, Removed, Replaced, DoneRegistered

\* None and Stale name no session.
LEMMA NotSessions == TypeOK => None \notin sessions /\ Stale \notin sessions
BY SessionsAssumption, StreamableAssumption DEF TypeOK

\* A step that touches no id, beyond goroutines other than POSTs taking hold
\* of a session of the map and sessions being removed.
LEMMA CalmIds ==
  ASSUME TypeOK, Ids,
         UNCHANGED <<used, hdr, given, done>>,
         sessions' \subseteq sessions,
         \A q \in Post : sess'[q] = sess[q],
         \A q \in Post : \/ pc'[q] = pc[q]
                         \/ pc[q] # "returned" /\ pc'[q] \notin {"idle", "lookup", "create"}
                            /\ (pc'[q] = "insert" => pc[q] = "create"),
         \A q \in Proc : sess'[q] \in used \cup {None},
         \A d \in Deleter : \/ pc'[d] = pc[d] /\ status'[d] = status[d]
                            \/ pc[d] # "returned" /\ pc'[d] = "returned"
                               /\ (status'[d] = "204" => pc[d] = "reply")
                            \/ pc[d] # "returned" /\ pc'[d] \in {"lookup", "delete", "remove"}
                               /\ status'[d] = status[d],
         \A w \in Stream : /\ closed[w] => closed'[w]
                           /\ done[w] => sess'[w] = sess[w]
                           /\ pc[w] \notin {"idle", "lookup"} => pc'[w] \notin {"idle", "lookup"}
  PROVE  Ids'
<1>1. Issued'
  BY DEF Ids, Issued
<1>2. Removed'
  BY DEF Ids, Removed
<1>3. Replaced'
  BY DEF Ids, Replaced
<1>4. DoneRegistered'
  BY DEF Ids, DoneRegistered
<1> QED  BY <1>1, <1>2, <1>3, <1>4 DEF Ids

\* What a client presents was given to one, or is not the server's.
LEMMA PresentableIssued == TypeOK /\ Ids => Presentable \subseteq used \cup {Stale}
BY Kinds DEF Ids, Issued, Presentable, Known, TypeOK

\* Arrivals bring only ids that were issued.
LEMMA EnvironmentIds ==
  IInv /\ (Arrives \/ Cancel \/ \E g \in Stream : Disconnect(g)) => Ids'
<1> SUFFICES ASSUME IInv, Arrives \/ Cancel \/ \E g \in Stream : Disconnect(g)
             PROVE  Ids'
  OBVIOUS
<1> USE Kinds
<1>1. ASSUME NEW q \in Proc, NEW code \in {"401", "400"}, Refuse(q, "idle", code)
      PROVE  Ids'
  <2>1. /\ pc[q] = "idle" /\ pc' = [pc EXCEPT ![q] = "returned"]
        /\ status' = [status EXCEPT ![q] = code]
        /\ UNCHANGED <<sess, hdr, given, sessions, used, closed, done>>
    BY <1>1 DEF Refuse, Goto, mapVars, sessVars
  <2>2. /\ \A r \in Proc : r # q => pc'[r] = pc[r] /\ status'[r] = status[r]
        /\ pc'[q] = "returned" /\ status'[q] # "204"
    BY <2>1 DEF IInv, TypeOK
  <2>3. \A r \in Proc : sess'[r] \in used \cup {None}
    BY <2>1 DEF IInv, Ids, Issued
  <2> QED  BY <2>1, <2>2, <2>3, CalmIds DEF IInv
<1>2. ASSUME NEW q \in Post \cup Stream \cup Deleter,
             NEW id \in Presentable \cup {None}, Accept(q, id)
      PROVE  Ids'
  <2>1. /\ pc[q] = "idle" /\ pc' = [pc EXCEPT ![q] = "lookup"]
        /\ hdr' = [hdr EXCEPT ![q] = id]
        /\ UNCHANGED <<sess, status, given, sessions, used, closed, done>>
    BY <1>2 DEF Accept, Goto, mapVars, sessVars
  <2>2. id \in used \cup {Stale, None} /\ q \in Proc
    BY PresentableIssued DEF IInv
  <2>3. /\ \A r \in Proc : r # q => pc'[r] = pc[r] /\ hdr'[r] = hdr[r]
        /\ pc'[q] = "lookup" /\ hdr'[q] = id
    BY <2>1, <2>2 DEF IInv, TypeOK
  <2>4. Issued'
    BY <2>1, <2>2, <2>3 DEF IInv, Ids, Issued
  <2>5. Removed'
    BY <2>1, <2>2, <2>3, StreamableAssumption DEF IInv, Ids, Removed
  <2>6. Replaced'
    BY <2>1, <2>2, <2>3 DEF IInv, Ids, Issued, Replaced
  <2>7. DoneRegistered'
    BY <2>1, <2>2, <2>3 DEF IInv, Ids, DoneRegistered
  <2> QED  BY <2>4, <2>5, <2>6, <2>7 DEF Ids
<1>3. ASSUME NEW q \in Sender, SendCalled(q) PROVE Ids'
  <2>1. /\ pc' = [pc EXCEPT ![q] = "send"]
        /\ UNCHANGED <<sess, hdr, status, given, sessions, used, closed, done>>
    BY <1>3 DEF SendCalled, Goto, mapVars, sessVars, httpVars
  <2>2. \A r \in Proc : r # q => pc'[r] = pc[r]
    BY <2>1 DEF IInv, TypeOK
  <2>3. \A r \in Proc : sess'[r] \in used \cup {None}
    BY <2>1 DEF IInv, Ids, Issued
  <2> QED  BY <2>1, <2>2, <2>3, CalmIds DEF IInv
<1>4. CASE Cancel \/ \E g \in Stream : Disconnect(g)
  <2>1. UNCHANGED <<pc, sess, hdr, status, given, sessions, used, closed, done>>
    BY <1>4 DEF Cancel, Disconnect, mapVars, sessVars
  <2> QED
    BY <2>1 DEF IInv, Ids, Issued, Removed, Replaced, DoneRegistered
<1> QED
  BY <1>1, <1>2, <1>3, <1>4 DEF Arrives, PostArrives, GetArrives, DeleteArrives

\* A POST finds the session it asks for or draws an id nobody has.
LEMMA PostIds == ASSUME NEW p \in Post PROVE IInv /\ PostStep(p) => Ids'
<1> SUFFICES ASSUME IInv, PostStep(p) PROVE Ids'
  OBVIOUS
<1> USE Kinds, NotSessions
<1>1. CASE PostLookup(p)
  <2> DEFINE s == GetSession(hdr[p])
  <2>1. /\ pc[p] = "lookup"
        /\ sess' = [sess EXCEPT ![p] = s]
        /\ pc' = [pc EXCEPT ![p] = IF sess'[p] = None THEN "create" ELSE "handle"]
        /\ UNCHANGED <<hdr, status, given, sessions, used, closed, done>>
    BY <1>1 DEF PostLookup, Goto, mapVars, sessVars, httpVars
  <2>2. /\ s = None => hdr[p] \notin sessions
        /\ s # None => s = hdr[p] /\ s \in used
    BY DEF GetSession, IInv, TypeOK
  <2> HIDE DEF s
  <2>3. /\ \A q \in Proc : q # p => pc'[q] = pc[q] /\ sess'[q] = sess[q]
        /\ sess'[p] = s /\ pc'[p] = IF s = None THEN "create" ELSE "handle"
    BY <2>1 DEF IInv, TypeOK
  <2>4. Issued'
    BY <2>1, <2>2, <2>3 DEF IInv, Ids, Issued
  <2>5. Removed' /\ DoneRegistered'
    BY <2>1, <2>3 DEF IInv, Ids, Removed, DoneRegistered
  <2>6. Replaced'
    BY <2>1, <2>2, <2>3 DEF IInv, Ids, Replaced
  <2> QED  BY <2>4, <2>5, <2>6 DEF Ids
<1>2. CASE PostCreate(p)
  <2>1. /\ pc[p] = "create" /\ pc' = [pc EXCEPT ![p] = "insert"]
        /\ UNCHANGED <<sess, hdr, status, given, sessions, used, closed, done>>
    BY <1>2 DEF PostCreate, MapLock, Goto, sessVars, httpVars
  <2>2. \A q \in Proc : q # p => pc'[q] = pc[q]
    BY <2>1 DEF IInv, TypeOK
  <2>3. pc'[p] = "insert"
    BY <2>1 DEF IInv, TypeOK
  <2>4. \A q \in Proc : sess'[q] \in used \cup {None}
    BY <2>1 DEF IInv, Ids, Issued
  <2> QED  BY <2>1, <2>2, <2>3, <2>4, CalmIds DEF IInv
<1>3. CASE PostInsert(p)
  <2>1. PICK s \in Sid \ used : /\ sessions' = sessions \cup {s}
                                /\ used' = used \cup {s}
                                /\ sess' = [sess EXCEPT ![p] = s]
    BY <1>3 DEF PostInsert, CreateInsert, FreshIds
  <2>2. /\ pc[p] = "insert" /\ pc' = [pc EXCEPT ![p] = "handle"]
        /\ UNCHANGED <<hdr, status, given, closed, done>>
    BY <1>3 DEF PostInsert, CreateInsert, Goto, sessVars, httpVars
  <2>3. /\ \A q \in Proc : q # p => pc'[q] = pc[q] /\ sess'[q] = sess[q]
        /\ pc'[p] = "handle" /\ sess'[p] = s
    BY <2>1, <2>2 DEF IInv, TypeOK
  <2>4. s # Stale /\ s # None /\ \A q \in Proc : hdr[q] # s /\ sess[q] # s
    BY SessionsAssumption, StreamableAssumption DEF IInv, Ids, Issued
  <2>5. Issued'
    BY <2>1, <2>2, <2>3 DEF IInv, Ids, Issued
  <2>6. Removed'
    BY <2>1, <2>2, <2>3, <2>4 DEF IInv, Ids, Removed
  <2>7. Replaced'
    BY <2>1, <2>2, <2>3, <2>4 DEF IInv, Ids, Replaced
  <2>8. DoneRegistered'
    BY <2>1, <2>2, <2>3, <2>4 DEF IInv, Ids, DoneRegistered
  <2> QED  BY <2>5, <2>6, <2>7, <2>8 DEF Ids
<1>4. CASE PostRespond(p)
  <2>1. /\ pc[p] = "handle" /\ pc' = [pc EXCEPT ![p] = "returned"]
        /\ given' = [given EXCEPT ![p] = sess[p]]
        /\ UNCHANGED <<sess, hdr, sessions, used, closed, done>>
        /\ \A d \in Deleter : status'[d] = status[d]
    BY <1>4 DEF PostRespond, Goto, mapVars, sessVars, IInv, TypeOK
  <2>2. /\ \A q \in Proc : q # p => pc'[q] = pc[q] /\ given'[q] = given[q]
        /\ pc'[p] = "returned" /\ given'[p] = sess[p]
    BY <2>1 DEF IInv, TypeOK
  <2> QED
    BY <2>1, <2>2 DEF IInv, Ids, Issued, Removed, Replaced, DoneRegistered
<1> QED  BY <1>1, <1>2, <1>3, <1>4 DEF PostStep

\* An event stream takes the id it was given, and only if it is in the map.
LEMMA GetIds == ASSUME NEW g \in Stream PROVE IInv /\ GetStep(g) => Ids'
<1> SUFFICES ASSUME IInv, GetStep(g) PROVE Ids'
  OBVIOUS
<1> USE Kinds
<1>1. CASE GetLookup(g)
  <2>1. /\ pc[g] = "lookup" /\ pc' = [pc EXCEPT ![g] = "found"]
        /\ sess' = [sess EXCEPT ![g] = hdr[g]] /\ hdr[g] \in used
        /\ UNCHANGED <<hdr, status, given, sessions, used, closed, done>>
    BY <1>1 DEF GetLookup, GetSession, Goto, mapVars, sessVars, httpVars, IInv, TypeOK
  <2>2. /\ \A q \in Proc : q # g => pc'[q] = pc[q] /\ sess'[q] = sess[q]
        /\ pc'[g] = "found" /\ sess'[g] \in used /\ ~done[g]
    BY <2>1 DEF IInv, TypeOK, Ids, DoneRegistered
  <2>3. \A q \in Proc : sess'[q] \in used \cup {None}
    BY <2>2 DEF IInv, Ids, Issued
  <2> QED  BY <2>1, <2>2, <2>3, CalmIds DEF IInv
<1>2. CASE ~GetLookup(g)
  <2>1. /\ UNCHANGED <<sess, hdr, given, sessions, used, done>>
        /\ \A q \in Proc : q # g => pc'[q] = pc[q] /\ status'[q] = status[q]
        /\ pc'[g] \notin {"idle", "lookup"}
        /\ \A w \in Stream : closed[w] => closed'[w]
    <3>1. CASE GetUnknown(g) \/ GetNoFlusher(g)
      BY <3>1 DEF GetUnknown, GetNoFlusher, Refuse, Goto, IInv, TypeOK, mapVars, sessVars
    <3>2. CASE GetOpen(g)
      BY <3>2 DEF GetOpen, Goto, IInv, TypeOK, mapVars, sessVars
    <3>3. CASE GetWake(g)
      BY <3>3 DEF GetWake, Goto, IInv, TypeOK, mapVars, sessVars, httpVars
    <3>4. CASE GetAddWriter(g)
      BY <3>4 DEF GetAddWriter, AddWriter, Goto, IInv, TypeOK, mapVars, httpVars
    <3>5. CASE GetCleanup(g)
      BY <3>5 DEF GetCleanup, Cleanup, Goto, IInv, TypeOK, mapVars, httpVars
    <3> QED  BY <1>2, <3>1, <3>2, <3>3, <3>4, <3>5 DEF GetStep
  <2>2. \A q \in Proc : sess'[q] \in used \cup {None}
    BY <2>1 DEF IInv, Ids, Issued
  <2> QED  BY <2>1, <2>2, CalmIds DEF IInv
<1> QED  BY <1>1, <1>2

\* A DELETE removes the id it presents, and only then closes done.
LEMMA DeleteIds == ASSUME NEW d \in Deleter PROVE IInv /\ DeleteStep(d) => Ids'
<1> SUFFICES ASSUME IInv, DeleteStep(d) PROVE Ids'
  OBVIOUS
<1> USE Kinds
<1>1. \A q \in Proc : sess[q] \in used \cup {None}
  BY DEF IInv, Ids, Issued
<1>2. CASE DeleteLookup(d) \/ DeleteLock(d)
  <2>1. /\ UNCHANGED <<sess, hdr, status, given, sessions, used, closed, done>>
        /\ \A q \in Proc : q # d => pc'[q] = pc[q]
        /\ pc[d] # "returned" /\ pc'[d] \in {"delete", "remove"}
    <3>1. CASE DeleteLookup(d)
      BY <3>1 DEF DeleteLookup, Goto, IInv, TypeOK, mapVars, sessVars, httpVars
    <3>2. CASE DeleteLock(d)
      BY <3>2 DEF DeleteLock, MapLock, Goto, IInv, TypeOK, sessVars, httpVars
    <3> QED  BY <1>2, <3>1, <3>2
  <2> QED  BY <1>1, <2>1, CalmIds DEF IInv
<1>3. CASE DeleteUnknown(d) \/ DeleteReply(d)
  <2>1. /\ UNCHANGED <<sess, hdr, given, sessions, used, closed, done>>
        /\ \A q \in Proc : q # d => pc'[q] = pc[q] /\ status'[q] = status[q]
        /\ pc[d] # "returned" /\ pc'[d] = "returned"
        /\ status'[d] = "204" => pc[d] = "reply"
    BY <1>3
    DEF DeleteUnknown, DeleteReply, Refuse, Goto, IInv, TypeOK, mapVars, sessVars
  <2> QED  BY <1>1, <2>1, CalmIds DEF IInv
<1>4. CASE DeleteFromMap(d)
  <2>1. /\ pc[d] = "remove"
        /\ pc' = [pc EXCEPT ![d] = IF hdr[d] \in sessions THEN "sweep" ELSE "reply"]
        /\ sessions' = sessions \ {hdr[d]}
        /\ UNCHANGED <<sess, hdr, status, given, used, closed, done>>
    BY <1>4 DEF DeleteFromMap, DeleteRemove, Goto, sessVars, httpVars
  <2>2. /\ \A q \in Proc : q # d => pc'[q] = pc[q]
        /\ pc'[d] \in {"sweep", "reply"}
        /\ pc'[d] = "sweep" => hdr[d] \in used
    BY <2>1 DEF IInv, TypeOK
  <2>3. Issued' /\ Replaced' /\ DoneRegistered'
    BY <2>1, <2>2 DEF IInv, Ids, Issued, Replaced, DoneRegistered
  <2>4. Removed'
    BY <2>1, <2>2 DEF IInv, Ids, Removed
  <2> QED  BY <2>3, <2>4 DEF Ids
<1>5. CASE DeleteWriters(d)
  <2>1. /\ pc[d] = "sweep" /\ pc' = [pc EXCEPT ![d] = "reply"]
        /\ closed' = [w \in Stream |-> closed[w] \/ w \in writers[hdr[d]]]
        /\ done' = [w \in Stream |-> done[w] \/ w \in writers[hdr[d]]]
        /\ UNCHANGED <<sess, hdr, status, given, sessions, used>>
    BY <1>5 DEF DeleteWriters, DeleteSweep, SweptBy, Goto, mapVars, httpVars
  <2>2. hdr[d] \in Sid /\ hdr[d] \notin sessions
    BY <2>1 DEF IInv, TypeOK, Ids, Removed
  <2>3. /\ \A q \in Proc : q # d => pc'[q] = pc[q]
        /\ pc'[d] = "reply"
    BY <2>1 DEF IInv, TypeOK
  <2>4. Issued' /\ Removed' /\ Replaced'
    BY <2>1, <2>2, <2>3 DEF IInv, Ids, Issued, Removed, Replaced
  <2>5. ASSUME NEW w \in Stream, done'[w]
        PROVE  closed'[w] /\ sess[w] \notin sessions /\ pc'[w] \notin {"idle", "lookup"}
    <3>1. w # d /\ pc'[w] = pc[w]
      BY <2>3, Kinds
    <3>2. CASE done[w]
      BY <2>1, <3>1, <3>2 DEF IInv, Ids, DoneRegistered
    <3>3. CASE w \in writers[hdr[d]]
      <4>1. sess[w] = hdr[d] /\ pc[w] \in {"streaming", "cleanup", "returned"}
        BY <2>2, <3>3 DEF IInv, Locking, Registered
      <4>2. closed'[w]
        BY <2>1, <3>3
      <4> QED  BY <2>2, <3>1, <4>1, <4>2
    <3> QED  BY <2>1, <2>5, <3>2, <3>3
  <2>6. DoneRegistered'
    BY <2>1, <2>5 DEF DoneRegistered
  <2> QED  BY <2>4, <2>6 DEF Ids
<1> QED  BY <1>2, <1>3, <1>4, <1>5 DEF DeleteStep

\* A Broadcast works on sessions of the map.
LEMMA SendIds == ASSUME NEW p \in Sender PROVE IInv /\ SendStep(p) => Ids'
<1> SUFFICES ASSUME IInv, SendStep(p) PROVE Ids'
  OBVIOUS
<1> USE Kinds
<1>1. /\ UNCHANGED <<hdr, status, given, sessions, used, done>>
      /\ \A q \in Proc : q # p => pc'[q] = pc[q] /\ sess'[q] = sess[q]
      /\ \/ sess'[p] = sess[p]
         \/ sess'[p] \in todo[p] /\ pc[p] = "range"
      /\ \A w \in Stream : closed[w] => closed'[w]
  <2>1. UNCHANGED <<hdr, status, given>>
    BY DEF SendStep, httpVars
  <2>2. CASE BroadcastBegin(p, "send")
    BY <2>1, <2>2 DEF BroadcastBegin, Goto, IInv, TypeOK, sessVars
  <2>3. CASE BroadcastSession(p)
    BY <2>1, <2>3 DEF BroadcastSession, WriteLock, Goto, IInv, TypeOK, mapVars
  <2>4. CASE WriteNext(p) \/ WriteOk(p)
    BY <2>1, <2>4 DEF WriteNext, WriteOk, mapVars, sessVars
  <2>5. CASE WriteFail(p, gone)
    BY <2>1, <2>5 DEF WriteFail, IInv, TypeOK, mapVars
  <2>6. CASE WriteUnlock(p, "range")
    BY <2>1, <2>6 DEF WriteUnlock, Goto, IInv, TypeOK, mapVars
  <2>7. CASE BroadcastEnd(p, "returned")
    BY <2>1, <2>7 DEF BroadcastEnd, Goto, IInv, TypeOK, sessVars
  <2> QED  BY <2>2, <2>3, <2>4, <2>5, <2>6, <2>7 DEF SendStep
<1>2. \A q \in Proc : sess'[q] \in used \cup {None}
  BY <1>1 DEF IInv, TypeOK, RangeHoldsLock, Ids, Issued
<1> QED  BY <1>1, <1>2, CalmIds DEF IInv

-----------------------------------------------------------------------------

\* IInv holds in every state of the transport.
THEOREM Invariance == Spec => []IInv
<1>1. Init => IInv
  BY InitType, InitLocking, InitIds DEF IInv
<1>2. IInv /\ [Next]_vars => IInv'
  <2> SUFFICES ASSUME IInv, [Next]_vars PROVE IInv'
    OBVIOUS
  <2>1. TypeOK'
    BY NextType DEF IInv
  <2>2. CASE Arrives \/ Cancel \/ \E g \in Stream : Disconnect(g)
    BY <2>1, <2>2, EnvironmentLocking, EnvironmentIds DEF IInv
  <2>3. CASE \E p \in Post : PostStep(p)
    BY <2>1, <2>3, PostLocking, PostIds DEF IInv
  <2>4. CASE \E g \in Stream : GetStep(g)
    BY <2>1, <2>4, GetLocking, GetIds DEF IInv
  <2>5. CASE \E d \in Deleter : DeleteStep(d)
    BY <2>1, <2>5, DeleteLocking, DeleteIds DEF IInv
  <2>6. CASE \E p \in Sender : SendStep(p)
    BY <2>1, <2>6, SendLocking, SendIds DEF IInv
  <2>7. CASE UNCHANGED vars
    BY <2>7
    DEF vars, mapVars, sessVars, writeVars, httpVars, IInv, TypeOK, Locking, LockOwner,
        InLoop, Registered, RangeHoldsLock, Ids, Issued, Removed, Replaced, DoneRegistered
  <2> QED  BY <2>2, <2>3, <2>4, <2>5, <2>6, <2>7 DEF Next, Terminated
<1> QED  BY <1>1, <1>2, PTL DEF Spec

\* No write to a connection is in progress once its handler has returned.
THEOREM NoWriteAfterReturn == Spec => []EmitToLive
<1>1. IInv => EmitToLive
  BY DEF IInv, TypeOK, Locking, InLoop, Registered, EmitToLive
<1> QED  BY Invariance, <1>1, PTL

\* No event goes to a stream of a session that is out of the map.
THEOREM DeleteSilences == Spec => []NoEventAfterDelete
<1>1. IInv => NoEventAfterDelete
  BY DEF IInv, Locking, InLoop, RangeHoldsLock, NoEventAfterDelete
<1> QED  BY Invariance, <1>1, PTL

\* What a DELETE answered 204 for never comes back.
THEOREM DeleteIsFinal == Spec => []TerminatedIsGone
<1>1. IInv => TerminatedIsGone
  BY DEF IInv, Ids, Removed, TerminatedIsGone
<1> QED  BY Invariance, <1>1, PTL

\* A client keeps its session while it is there.
THEOREM SessionsStick == Spec => []StickySession
<1>1. IInv => StickySession
  BY DEF IInv, Ids, Issued, Replaced, StickySession
<1> QED  BY Invariance, <1>1, PTL

\* A client shares its session with nobody it has not told the id.
THEOREM SessionsArePrivate == Spec => []PrivateSession
<1>1. IInv => PrivateSession
  BY DEF IInv, Ids, Issued, Replaced, PrivateSession
<1> QED  BY Invariance, <1>1, PTL

\* done is closed only for streams whose session has been removed.
THEOREM DoneIsDeletion == Spec => []DoneMeansDeleted
<1>1. IInv => DoneMeansDeleted
  BY DEF IInv, Ids, DoneRegistered, DoneMeansDeleted
<1> QED  BY Invariance, <1>1, PTL

-----------------------------------------------------------------------------
(* Who waits for whom.                                                     *)

\* The writer's side of sm.mu belongs to the goroutine between the two steps of
\* Lock.
MapOwner == \A p \in Proc : pending = p <=> pc[p] \in {"insert", "remove"}

\* The read lock is held in the range loop and nowhere else.
Inside == \A p \in readers : pc[p] \in {"range", "write"}

\* A stream that was not refused has found its session.
Accepted == {"found", "opened", "streaming", "cleanup"}
Found == \A g \in Stream : pc[g] \in Accepted => sess[g] \in Sid

Holding == MapOwner /\ Inside /\ Found

\* Before the first request nobody holds or wants the map's lock.
LEMMA InitHolding == Init => Holding
<1> SUFFICES ASSUME Init PROVE Holding
  OBVIOUS
<1>1. pending = None /\ readers = {} /\ \A p \in Proc : pc[p] = "idle"
  BY DEF Init, NewSessionManager
<1> QED
  BY <1>1, Kinds, SessionsAssumption DEF Holding, MapOwner, Inside, Found, Accepted

\* A step that leaves the map's lock alone.
LEMMA CalmHolding ==
  ASSUME Holding, TypeOK,
         UNCHANGED <<pending, readers>>,
         \A p \in Proc : /\ pc'[p] \in {"insert", "remove"} <=> pc[p] \in {"insert", "remove"}
                         /\ pc[p] \in {"range", "write"} => pc'[p] \in {"range", "write"},
         \A g \in Stream : pc'[g] \in Accepted =>
           sess'[g] \in Sid \/ (pc[g] \in Accepted /\ sess'[g] = sess[g])
  PROVE  Holding'
<1>1. MapOwner'
  BY DEF Holding, MapOwner
<1>2. Inside'
  BY Kinds DEF Holding, Inside, TypeOK
<1>3. Found'
  BY DEF Holding, Found
<1> QED  BY <1>1, <1>2, <1>3 DEF Holding

\* A step of one goroutine from one place to another.
LEMMA MoveHolding ==
  ASSUME Holding, TypeOK, NEW p \in Proc, NEW to,
         UNCHANGED <<pending, readers>>,
         pc' = [pc EXCEPT ![p] = to],
         {pc[p], to} \cap {"insert", "remove"} = {},
         pc[p] \in {"range", "write"} => to \in {"range", "write"},
         sess' = sess \/ (p \notin Stream /\ \A q \in Proc : q # p => sess'[q] = sess[q]),
         p \in Stream => to \notin Accepted \/ pc[p] \in Accepted
  PROVE  Holding'
<1>1. pc'[p] = to /\ \A q \in Proc : q # p => pc'[q] = pc[q]
  BY DEF TypeOK
<1>2. \A g \in Stream : sess'[g] = sess[g]
  BY Kinds
<1>3. \A g \in Stream : pc'[g] \in Accepted => pc[g] \in Accepted
  BY <1>1, Kinds
<1>4. \A q \in Proc : /\ pc'[q] \in {"insert", "remove"} <=> pc[q] \in {"insert", "remove"}
                      /\ pc[q] \in {"range", "write"} => pc'[q] \in {"range", "write"}
  BY <1>1
<1> QED  BY <1>2, <1>3, <1>4, CalmHolding

\* A goroutine claims the map's lock, or gives it back.
LEMMA MapHolding ==
  ASSUME Holding, TypeOK, NEW p \in Proc \ Stream, NEW to,
         UNCHANGED readers,
         pc' = [pc EXCEPT ![p] = to],
         to \notin {"range", "write"},
         pc[p] \notin {"range", "write"},
         \A q \in Proc : q # p => sess'[q] = sess[q],
         \/ pending = None /\ pending' = p /\ to \in {"insert", "remove"}
         \/ pending = p /\ pending' = None /\ to \notin {"insert", "remove"}
  PROVE  Holding'
<1>1. pc'[p] = to /\ \A q \in Proc : q # p => pc'[q] = pc[q]
  BY DEF TypeOK
<1>2. MapOwner'
  BY <1>1, SessionsAssumption DEF Holding, MapOwner
<1>3. Inside'
  BY <1>1, Kinds DEF Holding, Inside, TypeOK
<1>4. Found'
  BY <1>1, Kinds DEF Holding, Found
<1> QED  BY <1>2, <1>3, <1>4 DEF Holding

\* A POST.
LEMMA PostHolding ==
  ASSUME NEW p \in Post, TypeOK, Holding, PostStep(p)
  PROVE  Holding'
<1> USE Kinds
<1> p \in Proc \ Stream
  OBVIOUS
<1>1. CASE PostLookup(p)
  <2>1. /\ pc[p] = "lookup" /\ UNCHANGED <<pending, readers>>
        /\ \E to \in {"create", "handle"} : pc' = [pc EXCEPT ![p] = to]
        /\ \A q \in Proc : q # p => sess'[q] = sess[q]
    BY <1>1 DEF PostLookup, Goto, mapVars, TypeOK
  <2> QED  BY <2>1, MoveHolding
<1>2. CASE PostCreate(p)
  <2>1. /\ pc[p] = "create" /\ pc' = [pc EXCEPT ![p] = "insert"]
        /\ pending = None /\ pending' = p /\ UNCHANGED <<readers, sess>>
    BY <1>2 DEF PostCreate, MapLock, Goto
  <2> QED  BY <2>1, MapHolding
<1>3. CASE PostInsert(p)
  <2>1. /\ pc[p] = "insert" /\ pc' = [pc EXCEPT ![p] = "handle"]
        /\ pending = p /\ pending' = None /\ UNCHANGED readers
        /\ \A q \in Proc : q # p => sess'[q] = sess[q]
    BY <1>3 DEF PostInsert, CreateInsert, MapLocked, Goto, TypeOK
  <2> QED  BY <2>1, MapHolding
<1>4. CASE PostRespond(p)
  <2>1. /\ pc[p] = "handle" /\ pc' = [pc EXCEPT ![p] = "returned"]
        /\ UNCHANGED <<pending, readers, sess>>
    BY <1>4 DEF PostRespond, Goto, mapVars
  <2> QED  BY <2>1, MoveHolding
<1> QED  BY <1>1, <1>2, <1>3, <1>4 DEF PostStep

\* A GET, which only reads the map.
LEMMA GetHolding ==
  ASSUME NEW g \in Stream, TypeOK, Holding, GetStep(g)
  PROVE  Holding'
<1> USE Kinds
<1>1. CASE GetLookup(g)
  <2>1. /\ pc[g] = "lookup" /\ pc' = [pc EXCEPT ![g] = "found"]
        /\ sess' = [sess EXCEPT ![g] = hdr[g]] /\ hdr[g] \in sessions
        /\ UNCHANGED <<pending, readers>>
    BY <1>1 DEF GetLookup, GetSession, Goto, mapVars
  <2>2. /\ pc'[g] = "found" /\ \A q \in Proc : q # g => pc'[q] = pc[q]
        /\ sess'[g] \in Sid /\ \A q \in Proc : q # g => sess'[q] = sess[q]
    BY <2>1 DEF TypeOK
  <2>3. \A q \in Proc : /\ pc'[q] \in {"insert", "remove"} <=> pc[q] \in {"insert", "remove"}
                        /\ pc[q] \in {"range", "write"} => pc'[q] \in {"range", "write"}
    BY <2>1, <2>2
  <2>4. \A w \in Stream : pc'[w] \in Accepted =>
          sess'[w] \in Sid \/ (pc[w] \in Accepted /\ sess'[w] = sess[w])
    BY <2>2
  <2> QED  BY <2>1, <2>3, <2>4, CalmHolding
<1>2. CASE ~GetLookup(g)
  <2>1. /\ UNCHANGED <<pending, readers, sess>>
        /\ \E to \in {"returned", "opened", "streaming", "cleanup"} :
             /\ pc' = [pc EXCEPT ![g] = to]
             /\ pc[g] \notin {"insert", "remove", "range", "write"}
             /\ to # "returned" => pc[g] \in {"found", "opened", "streaming"}
    BY <1>2
    DEF GetStep, GetUnknown, GetNoFlusher, Refuse, GetOpen, GetAddWriter, AddWriter, GetWake,
        GetCleanup, Cleanup, Goto, mapVars
  <2>2. PICK to :
          /\ pc' = [pc EXCEPT ![g] = to]
          /\ to \in {"returned", "opened", "streaming", "cleanup"}
          /\ to \notin Accepted \/ pc[g] \in Accepted
          /\ {pc[g], to} \cap {"insert", "remove"} = {}
          /\ pc[g] \notin {"range", "write"}
    BY <2>1 DEF Accepted
  <2>3. g \in Proc
    OBVIOUS
  <2> QED  BY <2>1, <2>2, <2>3, MoveHolding
<1> QED  BY <1>1, <1>2

\* A DELETE.
LEMMA DeleteHolding ==
  ASSUME NEW d \in Deleter, TypeOK, Holding, DeleteStep(d)
  PROVE  Holding'
<1> USE Kinds
<1> d \in Proc \ Stream
  OBVIOUS
<1>1. CASE DeleteLock(d)
  <2>1. /\ pc[d] = "delete" /\ pc' = [pc EXCEPT ![d] = "remove"]
        /\ pending = None /\ pending' = d /\ UNCHANGED <<readers, sess>>
    BY <1>1 DEF DeleteLock, MapLock, Goto
  <2> QED  BY <2>1, MapHolding
<1>2. CASE DeleteFromMap(d)
  <2>1. /\ pc[d] = "remove"
        /\ \E to \in {"sweep", "reply"} : pc' = [pc EXCEPT ![d] = to]
        /\ pending = d /\ pending' = None /\ UNCHANGED <<readers, sess>>
    BY <1>2 DEF DeleteFromMap, DeleteRemove, MapLocked, Goto
  <2> QED  BY <2>1, MapHolding
<1>3. CASE DeleteLookup(d) \/ DeleteUnknown(d) \/ DeleteWriters(d) \/ DeleteReply(d)
  <2>1. /\ UNCHANGED <<pending, readers, sess>>
        /\ pc[d] \in {"lookup", "sweep", "reply"}
        /\ \E to \in {"returned", "delete", "reply"} : pc' = [pc EXCEPT ![d] = to]
    BY <1>3 DEF DeleteLookup, DeleteUnknown, DeleteWriters, DeleteSweep, DeleteReply, Refuse,
                Goto, mapVars
  <2> QED  BY <2>1, MoveHolding
<1> QED  BY <1>1, <1>2, <1>3 DEF DeleteStep

\* A Send holds the read lock from its first session to its last.
LEMMA SendHolding ==
  ASSUME NEW p \in Sender, TypeOK, Holding, SendStep(p)
  PROVE  Holding'
<1> USE Kinds
<1> p \in Proc /\ p \notin Stream
  OBVIOUS
<1>1. CASE BroadcastBegin(p, "send") \/ BroadcastEnd(p, "returned")
  <2>1. /\ UNCHANGED <<pending, sess>>
        /\ \/ pc' = [pc EXCEPT ![p] = "range"] /\ pc[p] = "send" /\ readers' = readers \cup {p}
           \/ pc' = [pc EXCEPT ![p] = "returned"] /\ pc[p] = "range" /\ readers' = readers \ {p}
    BY <1>1 DEF BroadcastBegin, BroadcastEnd, RLocked, Goto
  <2>2. /\ pc'[p] \in {"range", "returned"} /\ \A q \in Proc : q # p => pc'[q] = pc[q]
        /\ p \in readers' => pc'[p] = "range"
        /\ readers' \subseteq readers \cup {p}
    BY <2>1 DEF TypeOK
  <2>3. MapOwner'
    BY <2>1, <2>2 DEF Holding, MapOwner
  <2>4. Inside'
    BY <2>2 DEF Holding, Inside, TypeOK
  <2>5. Found'
    BY <2>1, <2>2 DEF Holding, Found
  <2> QED  BY <2>3, <2>4, <2>5 DEF Holding
<1>2. CASE BroadcastSession(p)
  <2>1. /\ pc[p] = "range" /\ pc' = [pc EXCEPT ![p] = "write"]
        /\ UNCHANGED <<pending, readers>>
        /\ \A q \in Proc : q # p => sess'[q] = sess[q]
    BY <1>2 DEF BroadcastSession, WriteLock, Goto, mapVars, TypeOK
  <2> QED  BY <2>1, MoveHolding
<1>3. CASE WriteNext(p) \/ WriteOk(p) \/ WriteFail(p, gone)
  <2>1. UNCHANGED <<pending, readers, pc, sess>>
    BY <1>3 DEF WriteNext, WriteOk, WriteFail, mapVars
  <2> QED  BY <2>1, CalmHolding
<1>4. CASE WriteUnlock(p, "range")
  <2>1. /\ pc[p] = "write" /\ pc' = [pc EXCEPT ![p] = "range"]
        /\ UNCHANGED <<pending, readers, sess>>
    BY <1>4 DEF WriteUnlock, Goto, mapVars
  <2> QED  BY <2>1, MoveHolding
<1> QED  BY <1>1, <1>2, <1>3, <1>4 DEF SendStep

\* What happens outside touches no lock.
LEMMA OutsideHolding ==
  ASSUME TypeOK, Holding,
         Arrives \/ Cancel \/ (\E g \in Stream : Disconnect(g)) \/ UNCHANGED vars
  PROVE  Holding'
<1> USE Kinds
<1>1. CASE Arrives
  <2>1. PICK p \in Proc :
          /\ pc[p] = "idle" /\ UNCHANGED <<pending, readers, sess>>
          /\ \E to \in {"returned", "lookup", "send"} : pc' = [pc EXCEPT ![p] = to]
    BY <1>1 DEF Arrives, PostArrives, GetArrives, DeleteArrives, SendCalled, Refuse, Accept,
                Goto, mapVars
  <2> QED  BY <2>1, MoveHolding DEF Accepted
<1>2. CASE ~Arrives
  <2>1. UNCHANGED <<pending, readers, pc, sess>>
    BY <1>2 DEF Cancel, Disconnect, vars, mapVars
  <2> QED  BY <2>1, CalmHolding
<1> QED  BY <1>1, <1>2

\* Holding holds in every state of the transport.
THEOREM LocksHeld == Spec => []Holding
<1>1. TypeOK /\ Holding /\ [Next]_vars => Holding'
  BY PostHolding, GetHolding, DeleteHolding, SendHolding, OutsideHolding
  DEF Next, Terminated
<1> QED  BY TypeCorrect, InitHolding, <1>1, PTL DEF Spec

\* Whoever is waited for runs, and is nearer to the network.
LEMMA WaitsBelow ==
  ASSUME IInv, Holding, NEW p \in Proc, NEW q \in WaitsFor(p)
  PROVE  q \in Proc /\ Height(q) < Height(p)
<1> USE Kinds
<1>0. ASSUME NEW s \in Sid, mu[s] # None PROVE mu[s] \in Proc /\ pc[mu[s]] = "write"
  BY <1>0 DEF IInv, TypeOK, Locking, LockOwner
<1>1. CASE pc[p] \in {"lookup", "create", "delete", "send"}
  <2>1. q = pending /\ q # None
    BY <1>1 DEF WaitsFor
  <2>2. q \in Proc /\ pc[q] \in {"insert", "remove"}
    BY <2>1 DEF IInv, TypeOK, Holding, MapOwner
  <2>3. Height(q) = 2 /\ Height(p) = 3
    BY <1>1, <2>2 DEF Height
  <2> QED  BY <2>2, <2>3
<1>2. CASE pc[p] \in {"insert", "remove"}
  <2>1. q \in readers
    BY <1>2 DEF WaitsFor
  <2>2. q \in Proc /\ pc[q] \in {"range", "write"}
    BY <2>1 DEF IInv, TypeOK, Holding, Inside
  <2>3. Height(q) \in {0, 1} /\ Height(p) = 2
    BY <1>2, <2>2 DEF Height
  <2> QED  BY <2>2, <2>3
<1>3. CASE pc[p] \in {"opened", "cleanup"}
  <2>1. q = mu[sess[p]] /\ q # None
    BY <1>3 DEF WaitsFor
  <2>2. p \in Stream
    BY <1>3, StreamableAssumption
    DEF IInv, TypeOK, PostAt, DeleteAt, SendAt
  <2>3. sess[p] \in Sid
    BY <1>3, <2>2 DEF Holding, Found, Accepted
  <2>4. q \in Proc /\ pc[q] = "write"
    BY <1>0, <2>1, <2>3
  <2>5. Height(q) = 0 /\ Height(p) = 1
    BY <1>3, <2>4 DEF Height
  <2> QED  BY <2>4, <2>5
<1>4. CASE pc[p] = "sweep"
  <2>1. q = mu[hdr[p]] /\ q # None
    BY <1>4 DEF WaitsFor
  <2>2. p \in Deleter
    BY <1>4, StreamableAssumption
    DEF IInv, TypeOK, PostAt, GetAt, SendAt
  <2>3. hdr[p] \in Sid
    BY <1>4, <2>2 DEF IInv, TypeOK, Ids, Removed
  <2>4. q \in Proc /\ pc[q] = "write"
    BY <1>0, <2>1, <2>3
  <2>5. Height(q) = 0 /\ Height(p) = 1
    BY <1>4, <2>4 DEF Height
  <2> QED  BY <2>4, <2>5
<1>5. CASE pc[p] = "range"
  <2>1. PICK s \in todo[p] : q = mu[s] /\ q # None
    BY <1>5 DEF WaitsFor
  <2>2. s \in Sid
    BY <2>1 DEF IInv, TypeOK
  <2>3. q \in Proc /\ pc[q] = "write"
    BY <1>0, <2>1, <2>2
  <2>4. Height(q) = 0 /\ Height(p) = 1
    BY <1>5, <2>3 DEF Height
  <2> QED  BY <2>3, <2>4
<1> QED  BY <1>1, <1>2, <1>3, <1>4, <1>5 DEF WaitsFor

\* However many requests, streams and Sends there are, those that wait for a
\* lock wait, over at most two others, for a write in progress or for one that
\* can go on: they never wait in a circle.
THEOREM NoCircularWait == Spec => []WaitsDescend
<1>1. IInv /\ Holding => WaitsDescend
  BY WaitsBelow DEF WaitsDescend, Holding, MapOwner
<1> QED  BY Invariance, LocksHeld, <1>1, PTL

\* p holds a lock and can take its next step: it has all of the map's lock, it is
\* in the range loop of Broadcast and the mutex of a session ahead of it is free,
\* or it is in writeSSE, where only a client can keep it.
Advances(p) ==
  \/ pc[p] \in {"insert", "remove"} /\ MapLocked(p)
  \/ pc[p] = "range" /\ (todo[p] = {} \/ \E s \in todo[p] : SessionLockFree(s))
  \/ pc[p] = "write"

\* Who waits for a lock waits, over at most two others, for one that can go on.
NeverStuck ==
  \A p \in Proc : WaitsFor(p) # {} =>
    \E q \in Proc :
      /\ Advances(q)
      /\ \/ q \in WaitsFor(p)
         \/ \E r \in WaitsFor(p) :
              q \in WaitsFor(r) \/ \E t \in WaitsFor(r) : q \in WaitsFor(t)

\* A Broadcast with the read lock can go on, or waits for a write that can.
LEMMA ReaderAdvances ==
  ASSUME IInv, Holding, NEW r \in readers
  PROVE  r \in Proc /\ (Advances(r) \/ \E q \in WaitsFor(r) : q \in Proc /\ Advances(q))
<1>1. r \in Proc /\ pc[r] \in {"range", "write"}
  BY Kinds DEF IInv, TypeOK, Holding, Inside
<1>2. CASE pc[r] = "range" /\ ~Advances(r)
  <2>1. PICK s \in todo[r] : mu[s] # None
    BY <1>2 DEF Advances, SessionLockFree
  <2>2. mu[s] \in WaitsFor(r)
    BY <1>2, <2>1 DEF WaitsFor
  <2>3. mu[s] \in Proc /\ pc[mu[s]] = "write"
    BY <1>1, <2>1, Kinds DEF IInv, TypeOK, Locking, LockOwner
  <2> QED  BY <1>1, <2>2, <2>3 DEF Advances
<1> QED  BY <1>1, <1>2 DEF Advances

\* The goroutine that claimed the map's lock can go on, or waits for a reader.
LEMMA ClaimAdvances ==
  ASSUME IInv, Holding, NEW r \in Proc, pc[r] \in {"insert", "remove"}
  PROVE  \/ Advances(r)
         \/ \E t \in WaitsFor(r) :
              t \in Proc /\ (Advances(t) \/ \E q \in WaitsFor(t) : q \in Proc /\ Advances(q))
<1>1. pending = r
  BY DEF Holding, MapOwner
<1>2. WaitsFor(r) = readers
  BY DEF WaitsFor
<1>3. CASE readers = {}
  BY <1>1, <1>3 DEF Advances, MapLocked
<1>4. CASE readers # {}
  BY <1>2, <1>4, ReaderAdvances
<1> QED  BY <1>3, <1>4

\* The locks never bring the transport to a halt, whatever the number of
\* requests, streams and Sends: behind every goroutine that waits for one there is
\* a goroutine that holds one and waits for nobody but its client.
THEOREM SomebodyAdvances == Spec => []NeverStuck
<1>1. IInv /\ Holding => NeverStuck
  <2> SUFFICES ASSUME IInv, Holding, NEW p \in Proc, NEW r \in WaitsFor(p)
               PROVE  \E q \in Proc :
                        /\ Advances(q)
                        /\ \/ q \in WaitsFor(p)
                           \/ \E u \in WaitsFor(p) :
                                \/ q \in WaitsFor(u)
                                \/ \E t \in WaitsFor(u) : q \in WaitsFor(t)
    BY DEF NeverStuck
  <2>1. r \in Proc /\ Height(r) < Height(p)
    BY WaitsBelow
  <2>2. CASE pc[p] \in {"insert", "remove"}
    <3>1. r \in readers
      BY <2>2 DEF WaitsFor
    <3> QED  BY <2>1, <3>1, ReaderAdvances
  <2>3. CASE pc[p] \in {"lookup", "create", "delete", "send"}
    <3>1. pc[r] \in {"insert", "remove"}
      BY <2>1, <2>3 DEF WaitsFor, Holding, MapOwner
    <3>2. Advances(r) \/ \E t \in WaitsFor(r) :
            t \in Proc /\ (Advances(t) \/ \E q \in WaitsFor(t) : q \in Proc /\ Advances(q))
      BY <2>1, <3>1, ClaimAdvances
    <3> QED  BY <2>1, <3>2
  <2>4. CASE pc[p] \in {"opened", "cleanup", "sweep", "range"}
    <3>1. Height(p) = 1
      BY <2>4 DEF Height
    <3>2. pc[r] = "write"
      BY <2>1, <3>1 DEF Height
    <3> QED  BY <2>1, <3>2 DEF Advances
  <2> QED  BY <2>2, <2>3, <2>4 DEF WaitsFor
<1> QED  BY Invariance, LocksHeld, <1>1, PTL

-----------------------------------------------------------------------------
(* What reaches the event streams: the invariants.                         *)

\* e is among the events of s.
Has(s, e) == \E i \in 1..Len(s) : s[i] = e

\* A stream is open from addWriter to cleanup.
Open(w) == pc[w] \in {"streaming", "cleanup"}

\* A stream has its session before it is open, and no event.
Seated ==
  \A w \in Stream :
    /\ pc[w] \in {"found", "opened", "streaming", "cleanup"} => sess[w] \in Sid
    /\ pc[w] \in {"idle", "lookup", "found", "opened"} => ~closed[w] /\ sent[w] = <<>>
    /\ closed[w] \/ sent[w] # <<>> => sess[w] \in Sid

\* The last entry of a log is the event that is being written, and a stream
\* that is written to is not written to again.
Logged ==
  \A p \in Sender :
    /\ pc[p] = "write" => /\ Len(hist[sess[p]]) > 0
                          /\ hist[sess[p]][Len(hist[sess[p]])] = p
    /\ out[p] # None => out[p] \notin left[p]

\* An open stream is registered until it is closed.
OpenRegistered ==
  \A w \in Stream : Open(w) => closed[w] \/ w \in writers[sess[w]]

\* The loop of writeSSE has every registered writer ahead of it, in its hands
\* or in its new list, but for the closed ones; the new list has the event.
LoopKeeps ==
  \A p \in Sender : pc[p] = "write" =>
    /\ \A w \in writers[sess[p]] : closed[w] \/ w \in left[p] \cup kept[p] \/ out[p] = w
    /\ \A w \in kept[p] : Has(sent[w], p)

\* The session of w is still ahead of p.
Ahead(p, w) ==
  \/ pc[p] \in {"range", "write"} /\ sess[w] \in todo[p]
  \/ pc[p] = "write" /\ sess[w] = sess[p]

\* A stream that p owes its event has it or will.
Owed ==
  \A p \in Sender :
    /\ pc[p] \in {"idle", "send"} => due[p] = {}
    /\ \A w \in due[p] : closed[w] \/ Has(sent[w], p) \/ (Open(w) /\ Ahead(p, w))

Reaching == OpenRegistered /\ LoopKeeps /\ Owed

\* Only a Send enters a session's log, and it has no session ahead of it whose
\* log it has entered.
Visited ==
  \A s \in Sid, p \in Proc : Has(hist[s], p) =>
    p \in Sender /\ pc[p] \in {"range", "write", "returned"} /\ s \notin todo[p]

SInv == IInv /\ Seated /\ Logged /\ Reaching /\ Visited

-----------------------------------------------------------------------------
(* What the steps do, as the invariants need to know it.                   *)

\* The steps that leave writers, mutexes and connections alone.
Quiet ==
  \/ Arrives \/ Cancel \/ UNCHANGED vars
  \/ \E p \in Post : PostStep(p)
  \/ \E g \in Stream : \/ Disconnect(g) \/ GetLookup(g) \/ GetUnknown(g)
                       \/ GetNoFlusher(g) \/ GetOpen(g) \/ GetWake(g)
  \/ \E d \in Deleter : \/ DeleteLookup(d) \/ DeleteUnknown(d) \/ DeleteLock(d)
                        \/ DeleteFromMap(d) \/ DeleteReply(d)

\* How a stream can move in such a step.
GetMoves(g) ==
  \/ pc'[g] = pc[g] /\ sess'[g] = sess[g]
  \/ pc[g] = "idle" /\ pc'[g] \in {"lookup", "returned"} /\ sess'[g] = sess[g]
  \/ pc[g] = "lookup" /\ pc'[g] = "found" /\ sess'[g] \in Sid
  \/ pc[g] \in {"lookup", "found"} /\ pc'[g] = "returned" /\ sess'[g] = sess[g]
  \/ pc[g] = "found" /\ pc'[g] = "opened" /\ sess'[g] = sess[g]
  \/ pc[g] = "streaming" /\ pc'[g] = "cleanup" /\ sess'[g] = sess[g]

\* A Send does not move in such a step, but for its call.
SendMoves(p) ==
  /\ sess'[p] = sess[p]
  /\ \/ pc'[p] = pc[p]
     \/ /\ pc[p] = "idle"
        /\ pc'[p] = "send"

\* A quiet step moves its own goroutine only.
LEMMA QuietEffect ==
  ASSUME IInv, Quiet
  PROVE  /\ UNCHANGED <<todo, due, sessVars, writeVars>>
         /\ \A g \in Stream : GetMoves(g)
         /\ \A p \in Sender : SendMoves(p)
<1> USE Kinds DEF GetMoves, SendMoves
<1>1. CASE Arrives
  <2>1. CASE \E q \in Post \cup Stream \cup Deleter : \E code : Refuse(q, "idle", code)
    BY <2>1 DEF Refuse, Goto, IInv, TypeOK
  <2>2. CASE \E q \in Post \cup Stream \cup Deleter : \E id : Accept(q, id)
    BY <2>2 DEF Accept, Goto, IInv, TypeOK
  <2>3. CASE \E q \in Sender : SendCalled(q)
    BY <2>3 DEF SendCalled, Goto, IInv, TypeOK
  <2> QED
    BY <1>1, <2>1, <2>2, <2>3 DEF Arrives, PostArrives, GetArrives, DeleteArrives
<1>2. CASE Cancel \/ UNCHANGED vars \/ \E g \in Stream : Disconnect(g)
  BY <1>2 DEF Cancel, vars, Disconnect, mapVars, sessVars, writeVars
<1>3. ASSUME NEW p \in Post, PostStep(p)
      PROVE  /\ UNCHANGED <<todo, due, sessVars, writeVars>>
             /\ \A q \in Proc : q # p => pc'[q] = pc[q] /\ sess'[q] = sess[q]
  <2>1. CASE PostLookup(p)
    BY <2>1 DEF PostLookup, Goto, IInv, TypeOK
  <2>2. CASE PostCreate(p)
    BY <2>2 DEF PostCreate, MapLock, Goto, IInv, TypeOK
  <2>3. CASE PostInsert(p)
    BY <2>3 DEF PostInsert, CreateInsert, Goto, IInv, TypeOK
  <2>4. CASE PostRespond(p)
    BY <2>4 DEF PostRespond, Goto, IInv, TypeOK
  <2> QED  BY <1>3, <2>1, <2>2, <2>3, <2>4 DEF PostStep
<1>4. ASSUME NEW g \in Stream,
             GetLookup(g) \/ GetUnknown(g) \/ GetNoFlusher(g) \/ GetOpen(g) \/ GetWake(g)
      PROVE  /\ UNCHANGED <<todo, due, sessVars, writeVars>>
             /\ \A q \in Proc : q # g => pc'[q] = pc[q] /\ sess'[q] = sess[q]
             /\ GetMoves(g)
  <2>1. CASE GetLookup(g)
    BY <2>1 DEF GetLookup, GetSession, Goto, IInv, TypeOK
  <2>2. CASE GetUnknown(g)
    BY <2>2 DEF GetUnknown, Refuse, Goto, IInv, TypeOK
  <2>3. CASE GetNoFlusher(g)
    BY <2>3 DEF GetNoFlusher, Refuse, Goto, IInv, TypeOK
  <2>4. CASE GetOpen(g)
    BY <2>4 DEF GetOpen, Goto, IInv, TypeOK
  <2>5. CASE GetWake(g)
    BY <2>5 DEF GetWake, Goto, IInv, TypeOK
  <2> QED  BY <1>4, <2>1, <2>2, <2>3, <2>4, <2>5
<1>5. ASSUME NEW d \in Deleter,
             \/ DeleteLookup(d) \/ DeleteUnknown(d) \/ DeleteLock(d)
             \/ DeleteFromMap(d) \/ DeleteReply(d)
      PROVE  /\ UNCHANGED <<sess, todo, due, sessVars, writeVars>>
             /\ \A q \in Proc : q # d => pc'[q] = pc[q]
  <2>1. CASE DeleteLookup(d)
    BY <2>1 DEF DeleteLookup, Goto, IInv, TypeOK
  <2>2. CASE DeleteUnknown(d) \/ DeleteReply(d)
    BY <2>2 DEF DeleteUnknown, DeleteReply, Refuse, Goto, IInv, TypeOK
  <2>3. CASE DeleteLock(d)
    BY <2>3 DEF DeleteLock, MapLock, Goto, IInv, TypeOK
  <2>4. CASE DeleteFromMap(d)
    BY <2>4 DEF DeleteFromMap, DeleteRemove, Goto, IInv, TypeOK
  <2> QED  BY <1>5, <2>1, <2>2, <2>3, <2>4
<1>6. CASE \E p \in Post : PostStep(p)
  BY <1>3, <1>6
<1>7. CASE \E g \in Stream : GetLookup(g) \/ GetUnknown(g) \/ GetNoFlusher(g)
                             \/ GetOpen(g) \/ GetWake(g)
  BY <1>4, <1>7
<1>8. CASE \E d \in Deleter : \/ DeleteLookup(d) \/ DeleteUnknown(d) \/ DeleteLock(d)
                              \/ DeleteFromMap(d) \/ DeleteReply(d)
  BY <1>5, <1>8
<1> QED  BY <1>1, <1>2, <1>6, <1>7, <1>8 DEF Quiet

\* addWriter waits for s.mu and registers the stream on its session.
LEMMA AddEffect ==
  ASSUME NEW g \in Stream, IInv, GetAddWriter(g)
  PROVE  /\ UNCHANGED <<sess, todo, due, mu, closed, mapVars, writeVars>>
         /\ \A q \in Proc : q # g => pc'[q] = pc[q]
         /\ pc[g] = "opened" /\ pc'[g] = "streaming"
         /\ SessionLockFree(sess[g])
         /\ \A s \in Sid : writers'[s] = IF s = sess[g] THEN writers[s] \cup {g}
                                                        ELSE writers[s]
<1>1. /\ pc[g] = "opened" /\ pc' = [pc EXCEPT ![g] = "streaming"]
      /\ SessionLockFree(sess[g])
      /\ writers' = [writers EXCEPT ![sess[g]] = @ \cup {g}]
      /\ UNCHANGED <<sess, todo, due, mu, closed, mapVars, writeVars>>
  BY DEF GetAddWriter, AddWriter, AddReady, Goto
<1> QED  BY <1>1, Kinds DEF IInv, TypeOK

\* The steps that close streams: cleanup, and a DELETE of their session.
Closes(W) ==
  \/ \E g \in Stream : W = {g} /\ GetCleanup(g)
  \/ \E d \in Deleter : W = writers[hdr[d]] /\ DeleteWriters(d)

\* What they close was open once, and nobody is writing to it.
LEMMA ClosesEffect ==
  ASSUME NEW W, SInv, Closes(W)
  PROVE  /\ UNCHANGED <<sess, todo, due, writers, mu, mapVars, writeVars>>
         /\ \A p \in Sender : pc'[p] = pc[p]
         /\ \A w \in Stream : \/ pc'[w] = pc[w]
                              \/ w \in W /\ pc[w] = "cleanup" /\ pc'[w] = "returned"
         /\ W \subseteq Stream
         /\ \A w \in W : pc[w] \in {"streaming", "cleanup", "returned"} /\ sess[w] \in Sid
         /\ \A w \in W : closed[w] \/ w \in writers[sess[w]]
         /\ \A w \in Stream : closed'[w] = (w \in W \/ closed[w])
<1> USE Kinds
<1>1. CASE \E g \in Stream : W = {g} /\ GetCleanup(g)
  <2>1. PICK g \in Stream : W = {g} /\ GetCleanup(g)
    BY <1>1
  <2>2. /\ pc[g] = "cleanup" /\ pc' = [pc EXCEPT ![g] = "returned"]
        /\ closed' = [closed EXCEPT ![g] = TRUE]
        /\ UNCHANGED <<sess, todo, due, writers, mu, mapVars, writeVars>>
    BY <2>1 DEF GetCleanup, Cleanup, Goto
  <2>3. /\ \A q \in Proc : q # g => pc'[q] = pc[q]
        /\ pc'[g] = "returned"
        /\ \A w \in Stream : closed'[w] = (w = g \/ closed[w])
    BY <2>2 DEF SInv, IInv, TypeOK
  <2>4. sess[g] \in Sid /\ (closed[g] \/ g \in writers[sess[g]])
    BY <2>2 DEF SInv, Seated, Reaching, OpenRegistered, Open
  <2>5. \A p \in Sender : pc'[p] = pc[p]
    BY <2>3
  <2>6. \A w \in Stream : \/ pc'[w] = pc[w]
                          \/ w \in W /\ pc[w] = "cleanup" /\ pc'[w] = "returned"
    <3>1. g \in W
      BY <2>1
    <3>2. \A w \in Stream : w # g => pc'[w] = pc[w]
      BY <2>3
    <3>3. pc[g] = "cleanup" /\ pc'[g] = "returned"
      BY <2>2, <2>3
    <3> QED  BY <3>1, <3>2, <3>3
  <2>7. \A w \in W : w = g
    BY <2>1
  <2>8. W \subseteq Stream /\ \A w \in Stream : closed'[w] = (w \in W \/ closed[w])
    BY <2>1, <2>3
  <2> QED  BY <2>2, <2>4, <2>5, <2>6, <2>7, <2>8
<1>2. CASE \E d \in Deleter : W = writers[hdr[d]] /\ DeleteWriters(d)
  <2>1. PICK d \in Deleter : W = writers[hdr[d]] /\ DeleteWriters(d)
    BY <1>2
  <2>2. /\ pc[d] = "sweep" /\ pc' = [pc EXCEPT ![d] = "reply"]
        /\ closed' = [w \in Stream |-> closed[w] \/ w \in W]
        /\ UNCHANGED <<sess, todo, due, writers, mu, mapVars, writeVars>>
    BY <2>1 DEF DeleteWriters, DeleteSweep, SweptBy, Goto
  <2>3. hdr[d] \in Sid /\ W \subseteq Stream
    BY <2>1, <2>2 DEF SInv, IInv, TypeOK, Ids, Removed
  <2>4. \A w \in W : /\ pc[w] \in {"streaming", "cleanup", "returned"}
                     /\ sess[w] = hdr[d]
    BY <2>1, <2>3 DEF SInv, IInv, Locking, Registered
  <2>5. \A q \in Proc : q # d => pc'[q] = pc[q]
    BY <2>2 DEF SInv, IInv, TypeOK
  <2>6. \A w \in W : sess[w] \in Sid /\ w \in writers[sess[w]]
    BY <2>1, <2>3, <2>4
  <2> QED  BY <2>2, <2>3, <2>4, <2>5, <2>6
<1> QED  BY <1>1, <1>2 DEF Closes

\* Broadcast takes and releases the read lock.
LEMMA BroadcastEffect ==
  ASSUME NEW p \in Sender, IInv,
         BroadcastBegin(p, "send") \/ BroadcastEnd(p, "returned")
  PROVE  /\ UNCHANGED <<sess, sessVars, writeVars>>
         /\ \A q \in Proc : q # p => pc'[q] = pc[q] /\ todo'[q] = todo[q] /\ due'[q] = due[q]
         /\ \/ /\ pc[p] = "send" /\ pc'[p] = "range"
               /\ todo'[p] = sessions /\ due'[p] = ActiveStreams(sessions)
            \/ /\ pc[p] = "range" /\ pc'[p] = "returned" /\ todo[p] = {}
               /\ todo'[p] = todo[p] /\ due'[p] = due[p]
<1> USE Kinds
<1>1. CASE BroadcastBegin(p, "send")
  BY <1>1 DEF BroadcastBegin, Goto, IInv, TypeOK
<1>2. CASE BroadcastEnd(p, "returned")
  BY <1>2 DEF BroadcastEnd, Goto, IInv, TypeOK
<1> QED  BY <1>1, <1>2

\* writeSSE begins on a session of the map whose mutex is free.
LEMMA LocksEffect ==
  ASSUME NEW p \in Sender, IInv, BroadcastSession(p)
  PROVE  \E s \in Sid :
           /\ pc[p] = "range" /\ s \in todo[p]
           /\ pc' = [pc EXCEPT ![p] = "write"]
           /\ mu[s] = None
           /\ sess' = [sess EXCEPT ![p] = s]
           /\ left' = [left EXCEPT ![p] = writers[s]]
           /\ kept' = [kept EXCEPT ![p] = {}]
           /\ todo' = [todo EXCEPT ![p] = @ \ {s}]
           /\ hist' = [hist EXCEPT ![s] = Append(@, p)]
           /\ UNCHANGED <<due, writers, closed, out, sent>>
<1>1. PICK s \in todo[p] : WriteLock(p, s, "range")
  BY DEF BroadcastSession
<1>2. s \in Sid
  BY Kinds DEF IInv, TypeOK
<1> QED  BY <1>1, <1>2 DEF WriteLock, SessionLockFree, Goto

\* writeSSE ends: the list it built replaces the old one.
LEMMA UnlocksEffect ==
  ASSUME NEW p \in Sender, IInv, WriteUnlock(p, "range")
  PROVE  \E s \in Sid :
           /\ pc[p] = "write" /\ s = sess[p]
           /\ mu[s] = p /\ kept[p] \subseteq writers[s]
           /\ left[p] = {} /\ out[p] = None
           /\ pc'[p] = "range"
           /\ \A q \in Proc : q # p => pc'[q] = pc[q]
           /\ \A t \in Sid : writers'[t] = IF t = s THEN kept[p] ELSE writers[t]
           /\ UNCHANGED <<sess, todo, due, closed, writeVars>>
<1>1. /\ pc[p] = "write" /\ pc' = [pc EXCEPT ![p] = "range"]
      /\ left[p] = {} /\ out[p] = None
      /\ writers' = [writers EXCEPT ![sess[p]] = kept[p]]
      /\ UNCHANGED <<sess, todo, due, closed, writeVars>>
  BY DEF WriteUnlock, Filtered, Goto
<1>2. sess[p] \in Sid /\ mu[sess[p]] = p /\ kept[p] \subseteq writers[sess[p]]
  BY <1>1 DEF IInv, Locking, LockOwner, InLoop
<1>3. \A t \in Sid : writers'[t] = IF t = sess[p] THEN kept[p] ELSE writers[t]
  BY <1>1, <1>2 DEF IInv, TypeOK
<1>4. pc'[p] = "range" /\ \A q \in Proc : q # p => pc'[q] = pc[q]
  BY <1>1, Kinds DEF IInv, TypeOK
<1> QED  BY <1>1, <1>2, <1>3, <1>4

\* Append adds an event and nothing else.
LEMMA AppendHas ==
  ASSUME NEW S, NEW s \in Seq(S), NEW e \in S
  PROVE  /\ \A x : Has(Append(s, e), x) <=> Has(s, x) \/ x = e
         /\ Append(s, e) # <<>>
         /\ Len(Append(s, e)) = Len(s) + 1 /\ Append(s, e)[Len(s) + 1] = e
         /\ Len(s) \in Nat
<1>1. /\ Append(s, e) \in Seq(S) /\ Len(Append(s, e)) = Len(s) + 1
      /\ \A i \in 1..Len(s) : Append(s, e)[i] = s[i]
      /\ Append(s, e)[Len(s) + 1] = e
      /\ Len(s) \in Nat
  OBVIOUS
<1>2. ASSUME NEW x PROVE Has(Append(s, e), x) <=> Has(s, x) \/ x = e
  <2>1. Has(Append(s, e), x) => Has(s, x) \/ x = e
    BY <1>1 DEF Has
  <2>2. Has(s, x) => Has(Append(s, e), x)
    BY <1>1 DEF Has
  <2>3. Has(Append(s, e), e)
    <3>1. Len(s) + 1 \in 1..Len(Append(s, e))
      BY <1>1
    <3> QED  BY <1>1, <3>1 DEF Has
  <2> QED  BY <2>1, <2>2, <2>3
<1>3. Append(s, e) # <<>>
  BY <1>1
<1> QED  BY <1>1, <1>2, <1>3

\* What WriteOk appends to: an open stream of the session.
LEMMA WriteOkEffect ==
  ASSUME NEW p \in Sender, IInv, WriteOk(p)
  PROVE  \E w \in Stream :
           /\ pc[p] = "write" /\ w = out[p] /\ w \in writers[sess[p]]
           /\ sess[p] \in Sid /\ sess[w] = sess[p]
           /\ Open(w) /\ ~closed[w]
           /\ sent[w] \in Seq(Proc) /\ sent'[w] = Append(sent[w], p)
           /\ \A v \in Stream : v # w => sent'[v] = sent[v]
           /\ \A v \in Stream : \A e : Has(sent[v], e) => Has(sent'[v], e)
           /\ Has(sent'[w], p)
           /\ kept' = [kept EXCEPT ![p] = @ \cup {w}]
           /\ out' = [out EXCEPT ![p] = None]
           /\ UNCHANGED <<pc, sess, todo, due, left, hist, sessVars>>
<1> DEFINE w == out[p]
<1>1. /\ pc[p] = "write" /\ w # None
      /\ sent' = [sent EXCEPT ![w] = Append(@, p)]
      /\ kept' = [kept EXCEPT ![p] = @ \cup {w}]
      /\ out' = [out EXCEPT ![p] = None]
      /\ UNCHANGED <<pc, sess, todo, due, left, hist, sessVars>>
  BY DEF WriteOk
<1>2. w \in Stream /\ sess[p] \in Sid /\ w \in writers[sess[p]] /\ ~closed[w]
  BY <1>1, Kinds DEF IInv, TypeOK, Locking, InLoop
<1>3. sess[w] = sess[p] /\ Open(w)
  BY <1>2 DEF IInv, Locking, Registered, Open
<1>4. /\ sent[w] \in Seq(Proc) /\ p \in Proc
      /\ sent'[w] = Append(sent[w], p)
      /\ \A v \in Stream : v # w => sent'[v] = sent[v]
  BY <1>1, <1>2, Kinds DEF IInv, TypeOK
<1> HIDE DEF w
<1>5. \A e : Has(sent'[w], e) <=> Has(sent[w], e) \/ e = p
  BY <1>4, AppendHas
<1> QED  BY <1>1, <1>2, <1>3, <1>4, <1>5 DEF w

-----------------------------------------------------------------------------
(* The invariants hold.                                                    *)

\* They hold at the start.
LEMMA InitS == Init => Seated /\ Logged /\ Reaching
<1> SUFFICES ASSUME Init PROVE Seated /\ Logged /\ Reaching
  OBVIOUS
<1>1. /\ \A p \in Proc : pc[p] = "idle" /\ due[p] = {} /\ out[p] = None
      /\ \A w \in Stream : ~closed[w] /\ sent[w] = <<>>
  BY DEF Init, NewSessionManager
<1> QED
  BY <1>1, Kinds DEF Seated, Logged, Reaching, OpenRegistered, LoopKeeps, Owed, Open

\* A step in which streams only close and get events, and a Send stays where
\* it is, leaves what that Send owes in order.
LEMMA OwedStays ==
  ASSUME SInv, NEW p \in Sender,
         pc'[p] = pc[p], sess'[p] = sess[p], due'[p] = due[p], todo'[p] = todo[p],
         \A w \in Stream : /\ closed[w] => closed'[w]
                           /\ Has(sent[w], p) => Has(sent'[w], p)
                           /\ Open(w) => Open(w)' \/ closed'[w]
                           /\ Open(w) => sess'[w] = sess[w]
  PROVE  /\ pc'[p] \in {"idle", "send"} => due'[p] = {}
         /\ \A w \in due'[p] : closed'[w] \/ Has(sent'[w], p) \/ (Open(w)' /\ Ahead(p, w)')
<1>1. due[p] \subseteq Stream
  BY Kinds DEF SInv, IInv, TypeOK
<1>2. \A w \in Stream : Open(w) /\ Ahead(p, w) => Ahead(p, w)'
  BY DEF Ahead
<1> QED  BY <1>1, <1>2 DEF SInv, Reaching, Owed

\* A quiet step.
LEMMA QuietS == ASSUME SInv, Quiet PROVE Seated' /\ Logged' /\ Reaching'
<1> USE Kinds
<1>1. /\ UNCHANGED <<todo, due, sessVars, writeVars>>
      /\ \A g \in Stream : GetMoves(g)
      /\ \A p \in Sender : SendMoves(p)
  BY QuietEffect DEF SInv
<1>2. UNCHANGED <<todo, due, writers, mu, closed, left, kept, out, sent, hist>>
  BY <1>1 DEF sessVars, writeVars
<1>3. Seated'
  BY <1>1, <1>2 DEF SInv, Seated, GetMoves
<1>4. Logged'
  BY <1>1, <1>2 DEF SInv, Logged, SendMoves
<1>5. \A w \in Stream : (Open(w)' <=> Open(w)) /\ (Open(w) => sess'[w] = sess[w])
  BY <1>1 DEF Open, GetMoves
<1>6. OpenRegistered'
  BY <1>2, <1>5 DEF SInv, Reaching, OpenRegistered
<1>7. LoopKeeps'
  BY <1>1, <1>2 DEF SInv, Reaching, LoopKeeps, SendMoves, Has
<1>8. ASSUME NEW p \in Sender
      PROVE  /\ pc'[p] \in {"idle", "send"} => due'[p] = {}
             /\ \A w \in due'[p] : closed'[w] \/ Has(sent'[w], p) \/ (Open(w)' /\ Ahead(p, w)')
  <2>1. CASE pc'[p] = pc[p]
    BY <1>1, <1>2, <1>5, <2>1, OwedStays DEF SendMoves, Has
  <2>2. CASE pc[p] = "idle"
    BY <1>2, <2>2 DEF SInv, Reaching, Owed
  <2> QED  BY <1>1, <2>1, <2>2 DEF SendMoves
<1>9. Owed'
  BY <1>8 DEF Owed, Has
<1> QED  BY <1>3, <1>4, <1>6, <1>7, <1>9 DEF Reaching

\* addWriter waits until nobody filters the list.
LEMMA AddS == ASSUME NEW g \in Stream, SInv, GetAddWriter(g) PROVE Seated' /\ Logged' /\ Reaching'
<1> USE Kinds
<1>1. /\ UNCHANGED <<sess, todo, due, closed, left, kept, out, sent, hist>>
      /\ \A q \in Proc : q # g => pc'[q] = pc[q]
      /\ pc[g] = "opened" /\ pc'[g] = "streaming"
      /\ SessionLockFree(sess[g])
      /\ \A s \in Sid : writers'[s] = IF s = sess[g] THEN writers[s] \cup {g}
                                                     ELSE writers[s]
  BY AddEffect DEF writeVars, SInv
<1>2. \A w \in Stream : Open(w)' <=> Open(w) \/ w = g
  BY <1>1 DEF Open
<1>3. sess[g] \in Sid
  BY <1>1 DEF SInv, Seated
<1>4. Seated'
  BY <1>1, <1>3 DEF SInv, Seated
<1>5. Logged'
  BY <1>1 DEF SInv, Logged
<1>6. \A w \in Stream : Open(w) => sess[w] \in Sid
  BY DEF SInv, Seated, Open
<1>7. OpenRegistered'
  BY <1>1, <1>2, <1>3, <1>6 DEF SInv, Reaching, OpenRegistered
<1>8. ASSUME NEW p \in Sender, pc'[p] = "write"
      PROVE  /\ \A w \in writers'[sess'[p]] :
                  closed'[w] \/ w \in left'[p] \cup kept'[p] \/ out'[p] = w
             /\ \A w \in kept'[p] : Has(sent'[w], p)
  <2>1. pc[p] = "write" /\ sess[p] \in Sid
    BY <1>1, <1>8 DEF SInv, IInv, Locking, InLoop
  <2>2. sess[p] # sess[g]
    BY <1>1, <1>3, <2>1, NobodyWrites DEF SInv, IInv
  <2> QED  BY <1>1, <2>1, <2>2 DEF SInv, Reaching, LoopKeeps
<1>9. LoopKeeps'
  BY <1>8 DEF LoopKeeps, Has
<1>10. Owed'
  BY <1>1, <1>2, OwedStays DEF Owed, Has
<1> QED  BY <1>4, <1>5, <1>7, <1>9, <1>10 DEF Reaching

\* cleanup and Delete close streams.
LEMMA ClosesS == ASSUME NEW W, SInv, Closes(W) PROVE Seated' /\ Logged' /\ Reaching'
<1> USE Kinds
<1>1. /\ UNCHANGED <<sess, todo, due, writers, left, kept, out, sent, hist>>
      /\ \A p \in Sender : pc'[p] = pc[p]
      /\ \A w \in Stream : \/ pc'[w] = pc[w]
                           \/ w \in W /\ pc[w] = "cleanup" /\ pc'[w] = "returned"
      /\ \A w \in W : pc[w] \in {"streaming", "cleanup", "returned"} /\ sess[w] \in Sid
      /\ \A w \in Stream : closed'[w] = (w \in W \/ closed[w])
  BY ClosesEffect DEF writeVars
<1>2. \A w \in Stream : Open(w)' => Open(w)
  BY <1>1 DEF Open
<1>3. \A w \in Stream : Open(w) => Open(w)' \/ closed'[w]
  BY <1>1 DEF Open
<1>4. Seated'
  BY <1>1 DEF SInv, Seated
<1>5. Logged'
  BY <1>1 DEF SInv, Logged
<1>6. OpenRegistered'
  BY <1>1, <1>2 DEF SInv, Reaching, OpenRegistered
<1>7. ASSUME NEW p \in Sender, pc'[p] = "write"
      PROVE  /\ \A w \in writers'[sess'[p]] :
                  closed'[w] \/ w \in left'[p] \cup kept'[p] \/ out'[p] = w
             /\ \A w \in kept'[p] : Has(sent'[w], p)
  <2>1. pc[p] = "write" /\ sess[p] \in Sid /\ writers[sess[p]] \subseteq Stream
    BY <1>1, <1>7 DEF SInv, IInv, TypeOK, Locking, InLoop
  <2> QED  BY <1>1, <2>1 DEF SInv, Reaching, LoopKeeps
<1>8. LoopKeeps'
  BY <1>7 DEF LoopKeeps, Has
<1>9. Owed'
  BY <1>1, <1>3, OwedStays DEF Owed, Has
<1> QED  BY <1>4, <1>5, <1>6, <1>8, <1>9 DEF Reaching

\* The sessions of a broadcast are all ahead, and none is left at its end.
LEMMA BroadcastS ==
  ASSUME NEW p \in Sender, SInv,
         BroadcastBegin(p, "send") \/ BroadcastEnd(p, "returned")
  PROVE  Seated' /\ Logged' /\ Reaching'
<1> USE Kinds
<1>1. /\ UNCHANGED <<sess, closed, writers, left, kept, out, sent, hist>>
      /\ \A q \in Proc : q # p => pc'[q] = pc[q] /\ todo'[q] = todo[q] /\ due'[q] = due[q]
      /\ \/ /\ pc[p] = "send" /\ pc'[p] = "range"
            /\ todo'[p] = sessions /\ due'[p] = ActiveStreams(sessions)
         \/ /\ pc[p] = "range" /\ pc'[p] = "returned" /\ todo[p] = {}
            /\ todo'[p] = todo[p] /\ due'[p] = due[p]
  BY BroadcastEffect DEF sessVars, writeVars, SInv
<1>2. \A w \in Stream : (Open(w) <=> Open(w)') /\ pc'[w] = pc[w]
  BY <1>1 DEF Open
<1>3. Seated'
  BY <1>1, <1>2 DEF SInv, Seated
<1>4. Logged'
  BY <1>1 DEF SInv, Logged
<1>5. OpenRegistered'
  BY <1>1, <1>2 DEF SInv, Reaching, OpenRegistered
<1>6. LoopKeeps'
  BY <1>1 DEF SInv, Reaching, LoopKeeps, Has
<1>7. ASSUME NEW q \in Sender
      PROVE  /\ pc'[q] \in {"idle", "send"} => due'[q] = {}
             /\ \A w \in due'[q] : closed'[w] \/ Has(sent'[w], q) \/ (Open(w)' /\ Ahead(q, w)')
  <2>1. CASE q # p
    BY <1>1, <1>2, <2>1, OwedStays DEF Has
  <2>2. CASE q = p /\ pc'[p] = "range"
    <3>1. \A w \in due'[p] : Open(w)' /\ sess'[w] \in todo'[p]
      BY <1>1, <2>2 DEF ActiveStreams, Open
    <3> QED  BY <2>2, <3>1 DEF Ahead
  <2>3. CASE q = p /\ pc'[p] = "returned"
    <3>1. \A w \in due[p] : ~Ahead(p, w)
      BY <1>1, <2>3 DEF Ahead
    <3>2. \A w \in due[p] : closed[w] \/ Has(sent[w], p)
      BY <3>1 DEF SInv, Reaching, Owed
    <3> QED  BY <1>1, <2>3, <3>2 DEF Has
  <2> QED  BY <1>1, <2>1, <2>2, <2>3
<1>8. Owed'
  BY <1>7 DEF Owed, Has
<1> QED  BY <1>3, <1>4, <1>5, <1>6, <1>8 DEF Reaching

\* writeSSE enters the log and has the whole list ahead of it.
LEMMA LocksS ==
  ASSUME NEW p \in Sender, SInv, BroadcastSession(p) PROVE Seated' /\ Logged' /\ Reaching'
<1> USE Kinds
<1>1. PICK s \in Sid :
        /\ pc[p] = "range" /\ s \in todo[p]
        /\ pc' = [pc EXCEPT ![p] = "write"]
        /\ mu[s] = None
        /\ sess' = [sess EXCEPT ![p] = s]
        /\ left' = [left EXCEPT ![p] = writers[s]]
        /\ kept' = [kept EXCEPT ![p] = {}]
        /\ todo' = [todo EXCEPT ![p] = @ \ {s}]
        /\ hist' = [hist EXCEPT ![s] = Append(@, p)]
        /\ UNCHANGED <<due, writers, closed, out, sent>>
  BY LocksEffect DEF SInv
<1>2. /\ \A q \in Proc : q # p => /\ pc'[q] = pc[q] /\ sess'[q] = sess[q]
                                  /\ left'[q] = left[q] /\ kept'[q] = kept[q]
                                  /\ todo'[q] = todo[q]
      /\ pc'[p] = "write" /\ sess'[p] = s /\ left'[p] = writers[s] /\ kept'[p] = {}
      /\ todo'[p] = todo[p] \ {s}
      /\ out[p] = None
  BY <1>1 DEF SInv, IInv, TypeOK, Locking, InLoop
<1>3. /\ hist'[s] = Append(hist[s], p) /\ hist[s] \in Seq(Proc) /\ p \in Proc
      /\ \A t \in Sid : t # s => hist'[t] = hist[t]
  BY <1>1 DEF SInv, IInv, TypeOK
<1>4. \A w \in Stream : (Open(w) <=> Open(w)') /\ sess'[w] = sess[w] /\ pc'[w] = pc[w]
  BY <1>2 DEF Open
<1>5. Seated'
  BY <1>1, <1>4 DEF SInv, Seated
<1>6. Len(hist'[s]) > 0 /\ hist'[s][Len(hist'[s])] = p
  BY <1>3, AppendHas
<1>7. ASSUME NEW q \in Sender, pc'[q] = "write", q # p
      PROVE  pc[q] = "write" /\ sess[q] \in Sid /\ sess[q] # s
  <2>1. pc[q] = "write" /\ sess[q] \in Sid /\ mu[sess[q]] = q
    BY <1>2, <1>7 DEF SInv, IInv, Locking, LockOwner, InLoop
  <2> QED  BY <1>1, <2>1, SessionsAssumption
<1>8. Logged'
  <2> SUFFICES ASSUME NEW q \in Sender
               PROVE  /\ pc'[q] = "write" => /\ Len(hist'[sess'[q]]) > 0
                                             /\ hist'[sess'[q]][Len(hist'[sess'[q]])] = q
                      /\ out'[q] # None => out'[q] \notin left'[q]
    BY DEF Logged
  <2>1. CASE q = p
    BY <1>1, <1>2, <1>6, <2>1
  <2>2. CASE q # p
    BY <1>1, <1>2, <1>3, <1>7, <2>2 DEF SInv, Logged
  <2> QED  BY <2>1, <2>2
<1>9. OpenRegistered'
  BY <1>1, <1>4 DEF SInv, Reaching, OpenRegistered
<1>10. LoopKeeps'
  BY <1>1, <1>2 DEF SInv, Reaching, LoopKeeps, Has
<1>11. ASSUME NEW q \in Sender
       PROVE  /\ pc'[q] \in {"idle", "send"} => due'[q] = {}
              /\ \A w \in due'[q] : closed'[w] \/ Has(sent'[w], q) \/ (Open(w)' /\ Ahead(q, w)')
  <2>1. CASE q # p
    BY <1>1, <1>2, <1>4, <2>1, OwedStays DEF Has
  <2>2. CASE q = p
    <3>1. due[p] \subseteq Stream
      BY DEF SInv, IInv, TypeOK
    <3>2. \A w \in Stream : Ahead(p, w) => Ahead(p, w)'
      BY <1>1, <1>2, <1>4 DEF Ahead
    <3> QED  BY <1>1, <1>2, <1>4, <2>2, <3>1, <3>2 DEF SInv, Reaching, Owed
  <2> QED  BY <2>1, <2>2
<1>12. Owed'
  BY <1>11 DEF Owed, Has
<1> QED  BY <1>5, <1>8, <1>9, <1>10, <1>12 DEF Reaching

\* The loop takes a writer, and passes it, closes it or keeps it.
LEMMA LoopS ==
  ASSUME NEW p \in Sender, SInv, WriteNext(p) \/ WriteOk(p) \/ WriteFail(p, gone)
  PROVE  Seated' /\ Logged' /\ Reaching'
<1> USE Kinds
<1>1. CASE WriteNext(p)
  <2>1. PICK w \in left[p] :
          /\ left' = [left EXCEPT ![p] = @ \ {w}]
          /\ out' = IF ~closed[w] THEN [out EXCEPT ![p] = w] ELSE out
          /\ out[p] = None
          /\ UNCHANGED <<pc, sess, todo, due, kept, sent, writers, closed, hist>>
    BY <1>1 DEF WriteNext, IsActive, sessVars
  <2>2. /\ \A q \in Sender : q # p => left'[q] = left[q] /\ out'[q] = out[q]
        /\ left'[p] = left[p] \ {w} /\ (closed[w] \/ out'[p] = w)
        /\ out'[p] \in {w, None}
    BY <2>1 DEF SInv, IInv, TypeOK
  <2>3. \A v \in Stream : Open(v) <=> Open(v)'
    BY <2>1 DEF Open
  <2>4. Seated'
    BY <2>1 DEF SInv, Seated
  <2>5. Logged'
    BY <2>1, <2>2 DEF SInv, Logged
  <2>6. OpenRegistered'
    BY <2>1, <2>3 DEF SInv, Reaching, OpenRegistered
  <2>7. \A v \in writers[sess[p]] : pc[p] = "write" => v # None
    BY SessionsAssumption DEF SInv, IInv, TypeOK, Locking, InLoop
  <2>8. LoopKeeps'
    BY <2>1, <2>2, <2>7 DEF SInv, Reaching, LoopKeeps, Has
  <2>9. Owed'
    BY <2>1, <2>3, OwedStays DEF Owed, Has
  <2> QED  BY <2>4, <2>5, <2>6, <2>8, <2>9 DEF Reaching
<1>2. CASE WriteOk(p)
  <2>1. PICK w \in Stream :
          /\ pc[p] = "write" /\ w = out[p] /\ w \in writers[sess[p]]
          /\ sess[p] \in Sid /\ sess[w] = sess[p]
          /\ sent[w] \in Seq(Proc) /\ sent'[w] = Append(sent[w], p)
          /\ Open(w)
          /\ \A v \in Stream : v # w => sent'[v] = sent[v]
          /\ \A v \in Stream : \A e : Has(sent[v], e) => Has(sent'[v], e)
          /\ Has(sent'[w], p)
          /\ kept' = [kept EXCEPT ![p] = @ \cup {w}]
          /\ out' = [out EXCEPT ![p] = None]
          /\ UNCHANGED <<pc, sess, todo, due, left, hist, writers, closed>>
    BY <1>2, WriteOkEffect DEF sessVars, SInv
  <2>2. /\ \A q \in Sender : q # p => kept'[q] = kept[q] /\ out'[q] = out[q]
        /\ kept'[p] = kept[p] \cup {w} /\ out'[p] = None
    BY <2>1 DEF SInv, IInv, TypeOK
  <2>3. \A v \in Stream : Open(v) <=> Open(v)'
    BY <2>1 DEF Open
  <2>4. Seated'
    BY <2>1 DEF SInv, Seated, Open
  <2>5. Logged'
    BY <2>1, <2>2 DEF SInv, Logged
  <2>6. OpenRegistered'
    BY <2>1, <2>3 DEF SInv, Reaching, OpenRegistered
  <2>7. ASSUME NEW q \in Sender, pc'[q] = "write"
        PROVE  /\ \A v \in writers'[sess'[q]] :
                    closed'[v] \/ v \in left'[q] \cup kept'[q] \/ out'[q] = v
               /\ \A v \in kept'[q] : Has(sent'[v], q)
    <3>1. pc[q] = "write" /\ kept[q] \subseteq Stream
      BY <2>1, <2>7 DEF SInv, IInv, TypeOK
    <3>2. /\ \A v \in writers[sess[q]] :
                closed[v] \/ v \in left[q] \cup kept[q] \/ out[q] = v
          /\ \A v \in kept[q] : Has(sent[v], q)
      BY <3>1 DEF SInv, Reaching, LoopKeeps
    <3>3. \A v \in kept[q] : Has(sent'[v], q)
      BY <2>1, <3>1, <3>2
    <3>4. CASE q = p
      BY <2>1, <2>2, <3>2, <3>3, <3>4
    <3>5. CASE q # p
      BY <2>1, <2>2, <3>2, <3>3, <3>5
    <3> QED  BY <3>4, <3>5
  <2>8. LoopKeeps'
    BY <2>7 DEF LoopKeeps, Has
  <2>9. ASSUME NEW q \in Sender
        PROVE  /\ pc'[q] \in {"idle", "send"} => due'[q] = {}
               /\ \A v \in due'[q] : closed'[v] \/ Has(sent'[v], q) \/ (Open(v)' /\ Ahead(q, v)')
    BY <2>1, <2>3, OwedStays
  <2>10. Owed'
    BY <2>9 DEF Owed, Has
  <2> QED  BY <2>4, <2>5, <2>6, <2>8, <2>10 DEF Reaching
<1>3. CASE WriteFail(p, gone)
  <2>1. /\ closed' = [closed EXCEPT ![out[p]] = TRUE]
        /\ out' = [out EXCEPT ![p] = None]
        /\ out[p] \in Stream /\ out[p] # None
        /\ UNCHANGED <<pc, sess, todo, due, left, kept, sent, writers, hist>>
    BY <1>3, SessionsAssumption DEF WriteFail, SInv, IInv, TypeOK
  <2>2. /\ \A v \in Stream : closed'[v] = (v = out[p] \/ closed[v])
        /\ \A q \in Sender : q # p => out'[q] = out[q]
        /\ out'[p] = None
    BY <2>1 DEF SInv, IInv, TypeOK
  <2>3. \A v \in Stream : Open(v) <=> Open(v)'
    BY <2>1 DEF Open
  <2>4. pc[out[p]] \in {"streaming", "cleanup", "returned"} /\ sess[out[p]] \in Sid
    BY <2>1 DEF SInv, IInv, Locking, InLoop, Registered
  <2>5. Seated'
    BY <2>1, <2>2, <2>4 DEF SInv, Seated
  <2>6. Logged'
    BY <2>1, <2>2 DEF SInv, Logged
  <2>7. OpenRegistered'
    BY <2>1, <2>2, <2>3 DEF SInv, Reaching, OpenRegistered
  <2>8. ASSUME NEW q \in Sender, pc'[q] = "write"
        PROVE  /\ \A v \in writers'[sess'[q]] :
                    closed'[v] \/ v \in left'[q] \cup kept'[q] \/ out'[q] = v
               /\ \A v \in kept'[q] : Has(sent'[v], q)
    <3>1. pc[q] = "write" /\ writers[sess[q]] \subseteq Stream
      BY <2>1, <2>8 DEF SInv, IInv, TypeOK, Locking, InLoop
    <3> QED  BY <2>1, <2>2, <3>1 DEF SInv, Reaching, LoopKeeps
  <2>9. LoopKeeps'
    BY <2>8 DEF LoopKeeps, Has
  <2>10. Owed'
    BY <2>1, <2>2, <2>3, OwedStays DEF Owed, Has
  <2> QED  BY <2>5, <2>6, <2>7, <2>9, <2>10 DEF Reaching
<1> QED  BY <1>1, <1>2, <1>3

\* The new list has every open stream of the session, and all of them have
\* the event.
LEMMA UnlocksS ==
  ASSUME NEW p \in Sender, SInv, WriteUnlock(p, "range")
  PROVE  Seated' /\ Logged' /\ Reaching'
<1> USE Kinds
<1>1. PICK s \in Sid :
        /\ pc[p] = "write" /\ s = sess[p]
        /\ mu[s] = p
        /\ left[p] = {} /\ out[p] = None
        /\ pc'[p] = "range"
        /\ \A q \in Proc : q # p => pc'[q] = pc[q]
        /\ \A t \in Sid : writers'[t] = IF t = s THEN kept[p] ELSE writers[t]
        /\ UNCHANGED <<sess, todo, due, closed, left, kept, out, sent, hist>>
  BY UnlocksEffect DEF writeVars, SInv
<1>2. \A w \in Stream : (Open(w) <=> Open(w)') /\ pc'[w] = pc[w]
  BY <1>1 DEF Open
<1>3. \A w \in Stream : Open(w) /\ sess[w] = s => closed[w] \/ w \in kept[p]
  BY <1>1, SessionsAssumption DEF SInv, Reaching, OpenRegistered, LoopKeeps
<1>4. Seated'
  BY <1>1, <1>2 DEF SInv, Seated
<1>5. Logged'
  BY <1>1 DEF SInv, Logged
<1>6. \A w \in Stream : Open(w) => sess[w] \in Sid
  BY DEF SInv, Seated, Open
<1>7. OpenRegistered'
  BY <1>1, <1>2, <1>3, <1>6 DEF SInv, Reaching, OpenRegistered
<1>8. ASSUME NEW q \in Sender, pc'[q] = "write"
      PROVE  /\ \A w \in writers'[sess'[q]] :
                  closed'[w] \/ w \in left'[q] \cup kept'[q] \/ out'[q] = w
             /\ \A w \in kept'[q] : Has(sent'[w], q)
  <2>1. q # p /\ pc[q] = "write"
    BY <1>1, <1>8
  <2>2. sess[q] \in Sid /\ sess[q] # s
    BY <1>1, <2>1 DEF SInv, IInv, Locking, LockOwner, InLoop
  <2> QED  BY <1>1, <2>1, <2>2 DEF SInv, Reaching, LoopKeeps
<1>9. LoopKeeps'
  BY <1>8 DEF LoopKeeps, Has
<1>10. ASSUME NEW q \in Sender
       PROVE  /\ pc'[q] \in {"idle", "send"} => due'[q] = {}
              /\ \A w \in due'[q] : closed'[w] \/ Has(sent'[w], q) \/ (Open(w)' /\ Ahead(q, w)')
  <2>1. CASE q # p
    BY <1>1, <1>2, <2>1, OwedStays DEF Has
  <2>2. CASE q = p
    <3>1. due[p] \subseteq Stream
      BY DEF SInv, IInv, TypeOK
    <3>2. ASSUME NEW w \in due[p]
          PROVE  closed[w] \/ Has(sent[w], p) \/ (Open(w)' /\ Ahead(p, w)')
      <4>1. closed[w] \/ Has(sent[w], p) \/ (Open(w) /\ Ahead(p, w))
        BY DEF SInv, Reaching, Owed
      <4>2. CASE Open(w) /\ sess[w] = s
        BY <1>1, <1>3, <3>1, <4>2 DEF SInv, Reaching, LoopKeeps
      <4>3. CASE Open(w) /\ sess[w] # s /\ Ahead(p, w)
        <5>1. sess[w] \in todo[p]
          BY <1>1, <4>3 DEF Ahead
        <5>2. pc'[p] = "range" /\ sess'[w] = sess[w] /\ todo'[p] = todo[p]
          BY <1>1
        <5>3. Ahead(p, w)'
          BY <5>1, <5>2 DEF Ahead
        <5> QED  BY <1>2, <3>1, <4>3, <5>3
      <4> QED  BY <4>1, <4>2, <4>3
    <3> QED  BY <1>1, <2>2, <3>2
  <2> QED  BY <2>1, <2>2
<1>11. Owed'
  BY <1>10 DEF Owed, Has
<1> QED  BY <1>4, <1>5, <1>7, <1>9, <1>11 DEF Reaching

\* The steps of the transport, by what they do to the session manager.
LEMMA Steps ==
  ASSUME [Next]_vars
  PROVE  \/ Quiet
         \/ \E g \in Stream : GetAddWriter(g)
         \/ \E W : Closes(W)
         \/ \E p \in Sender : /\ SendStep(p)
                              /\ \/ BroadcastBegin(p, "send") \/ BroadcastEnd(p, "returned")
                                 \/ BroadcastSession(p)
                                 \/ WriteNext(p) \/ WriteOk(p) \/ WriteFail(p, gone)
                                 \/ WriteUnlock(p, "range")
<1>1. CASE \E g \in Stream : GetStep(g)
  <2>1. CASE \E g \in Stream : GetCleanup(g)
    <3>1. PICK g \in Stream : GetCleanup(g)
      BY <2>1
    <3>2. Closes({g})
      BY <3>1 DEF Closes
    <3> QED  BY <3>2
  <2> QED  BY <1>1, <2>1 DEF GetStep, Quiet
<1>2. CASE \E d \in Deleter : DeleteStep(d)
  <2>1. CASE \E d \in Deleter : DeleteWriters(d)
    <3>1. PICK d \in Deleter : DeleteWriters(d)
      BY <2>1
    <3>2. Closes(writers[hdr[d]])
      BY <3>1 DEF Closes
    <3> QED  BY <3>2
  <2> QED  BY <1>2, <2>1 DEF DeleteStep, Quiet
<1>3. CASE \E p \in Sender : SendStep(p)
  BY <1>3 DEF SendStep
<1>4. CASE Arrives \/ Cancel \/ UNCHANGED vars \/ (\E p \in Post : PostStep(p))
           \/ (\E g \in Stream : Disconnect(g))
  BY <1>4 DEF Quiet
<1> QED  BY <1>1, <1>2, <1>3, <1>4 DEF Next, Terminated

\* A step that enters no log leaves every Send where it is or moves it on.
LEMMA VisitedStays ==
  ASSUME SInv, hist' = hist,
         \A p \in Sender :
           /\ pc'[p] = pc[p] \/ pc[p] \in {"idle", "send"}
                \/ pc'[p] \in {"range", "write", "returned"}
           /\ todo'[p] = todo[p] \/ pc[p] = "send"
  PROVE  Visited'
<1> SUFFICES ASSUME NEW s \in Sid, NEW p \in Proc, Has(hist[s], p)
             PROVE  /\ p \in Sender /\ pc'[p] \in {"range", "write", "returned"}
                    /\ s \notin todo'[p]
  BY DEF Visited, Has
<1> QED  BY DEF SInv, Visited

\* Broadcast takes each session it enters off the list of those ahead.
LEMMA NextVisited == ASSUME SInv, [Next]_vars PROVE Visited'
<1> USE Kinds
<1>1. CASE Quiet
  <2>1. /\ hist' = hist /\ todo' = todo
        /\ \A p \in Sender : SendMoves(p)
    BY <1>1, QuietEffect DEF SInv, writeVars
  <2> QED  BY <2>1, VisitedStays DEF SendMoves
<1>2. ASSUME NEW g \in Stream, GetAddWriter(g) PROVE Visited'
  <2>1. hist' = hist /\ todo' = todo /\ \A p \in Sender : pc'[p] = pc[p]
    BY <1>2, AddEffect DEF SInv, writeVars
  <2> QED  BY <2>1, VisitedStays
<1>3. ASSUME NEW W, Closes(W) PROVE Visited'
  <2>1. hist' = hist /\ todo' = todo /\ \A p \in Sender : pc'[p] = pc[p]
    BY <1>3, ClosesEffect DEF writeVars
  <2> QED  BY <2>1, VisitedStays
<1>4. ASSUME NEW p \in Sender, BroadcastBegin(p, "send") \/ BroadcastEnd(p, "returned")
      PROVE  Visited'
  <2>1. /\ hist' = hist
        /\ \A q \in Proc : q # p => pc'[q] = pc[q] /\ todo'[q] = todo[q]
        /\ \/ pc[p] = "send"
           \/ pc'[p] = "returned" /\ todo'[p] = todo[p]
    BY <1>4, BroadcastEffect DEF SInv, writeVars
  <2> QED  BY <2>1, VisitedStays
<1>5. ASSUME NEW p \in Sender, BroadcastSession(p) PROVE Visited'
  <2>1. PICK s \in Sid :
          /\ pc' = [pc EXCEPT ![p] = "write"]
          /\ todo' = [todo EXCEPT ![p] = @ \ {s}]
          /\ hist' = [hist EXCEPT ![s] = Append(@, p)]
    BY <1>5, LocksEffect DEF SInv
  <2>2. /\ pc'[p] = "write" /\ todo'[p] = todo[p] \ {s}
        /\ \A q \in Proc : q # p => pc'[q] = pc[q] /\ todo'[q] = todo[q]
        /\ hist'[s] = Append(hist[s], p) /\ hist[s] \in Seq(Proc)
        /\ \A t \in Sid : t # s => hist'[t] = hist[t]
    BY <2>1 DEF SInv, IInv, TypeOK
  <2>3. \A q : Has(hist'[s], q) <=> Has(hist[s], q) \/ q = p
    BY <2>2, AppendHas
  <2>4. ASSUME NEW t \in Sid, NEW q \in Proc, Has(hist'[t], q)
        PROVE  /\ q \in Sender /\ pc'[q] \in {"range", "write", "returned"}
               /\ t \notin todo'[q]
    <3>1. CASE Has(hist[t], q)
      BY <2>2, <3>1 DEF SInv, Visited
    <3>2. CASE ~Has(hist[t], q)
      <4>1. t = s /\ q = p
        BY <2>2, <2>3, <2>4, <3>2
      <4> QED  BY <2>2, <4>1
    <3> QED  BY <3>1, <3>2
  <2> QED  BY <2>4 DEF Visited, Has
<1>6. ASSUME NEW p \in Sender, WriteNext(p) \/ WriteOk(p) \/ WriteFail(p, gone)
      PROVE  Visited'
  <2>1. UNCHANGED <<pc, todo, hist>>
    BY <1>6 DEF WriteNext, WriteOk, WriteFail
  <2> QED  BY <2>1, VisitedStays
<1>7. ASSUME NEW p \in Sender, WriteUnlock(p, "range") PROVE Visited'
  <2>1. /\ hist' = hist /\ todo' = todo /\ pc'[p] = "range"
        /\ \A q \in Proc : q # p => pc'[q] = pc[q]
    BY <1>7, UnlocksEffect DEF SInv, writeVars
  <2> QED  BY <2>1, VisitedStays
<1> QED  BY Steps, <1>1, <1>2, <1>3, <1>4, <1>5, <1>6, <1>7

\* SInv holds in every state of the transport.
THEOREM FeedInvariance == Spec => []SInv
<1>1. Init => Seated /\ Logged /\ Reaching /\ Visited
  <2>1. Init => Visited
    BY DEF Init, NewSessionManager, Visited, Has
  <2> QED  BY <2>1, InitS
<1>2. IInv /\ IInv' /\ Seated /\ Logged /\ Reaching /\ Visited /\ [Next]_vars
        => Seated' /\ Logged' /\ Reaching' /\ Visited'
  <2> SUFFICES ASSUME SInv, [Next]_vars PROVE Seated' /\ Logged' /\ Reaching' /\ Visited'
    BY DEF SInv
  <2>1. Seated' /\ Logged' /\ Reaching'
    BY Steps, QuietS, AddS, ClosesS, BroadcastS, LocksS, LoopS, UnlocksS
  <2> QED  BY <2>1, NextVisited
<1> QED  BY Invariance, <1>1, <1>2, PTL DEF Spec, SInv

\* When Send returns, each stream that was open when it took the read lock has
\* the message, unless it is closed.
THEOREM BroadcastReachesAll == Spec => []BroadcastReaches
<1>1. SInv => BroadcastReaches
  <2> SUFFICES ASSUME SInv, NEW p \in Sender, pc[p] = "returned", NEW w \in due[p]
               PROVE  closed[w] \/ Has(sent[w], p)
    BY DEF BroadcastReaches, Has
  <2>1. ~Ahead(p, w)
    BY DEF Ahead
  <2> QED  BY <2>1 DEF SInv, Reaching, Owed
<1> QED  BY FeedInvariance, <1>1, PTL

-----------------------------------------------------------------------------
(* The refinement of EventStreams.                                         *)

\* The session manager as a client sees it, per stream.
SameView(w) ==
  RoomOf(w)' = RoomOf(w) /\ NextOf(w)' = NextOf(w) /\ sent'[w] = sent[w]

\* The streams of one session were detached.
Detached(W) ==
  /\ hist' = hist
  /\ \A w \in W : RoomOf(w) # None /\ RoomOf(w)' = RoomOf(w) /\ NextOf(w)' = 0
                  /\ sent'[w] = sent[w]
  /\ \A w \in Stream \ W : SameView(w)

\* Two feeds with the same value for every stream are the same.
LEMMA SameFeeds ==
  ASSUME TypeOK, TypeOK', \A w \in Stream : sent'[w] = sent[w]
  PROVE  sent' = sent
BY DEF TypeOK

\* Nothing happened that a client sees.
LEMMA Stutters ==
  ASSUME TypeOK, TypeOK', hist' = hist, \A w \in Stream : SameView(w)
  PROVE  UNCHANGED Abstract!vars
<1>1. sent' = sent
  BY SameFeeds DEF SameView
<1> QED  BY <1>1 DEF SameView, Abstract!vars

\* An event entered the log of a session.
LEMMA Publishes ==
  ASSUME TypeOK, TypeOK', NEW p \in Sender, NEW s \in Sid, ~Has(hist[s], p),
         hist' = [hist EXCEPT ![s] = Append(@, p)], \A w \in Stream : SameView(w)
  PROVE  Abstract!Next
<1>1. sent' = sent
  BY SameFeeds DEF SameView
<1>2. Abstract!Publish(p, s)
  BY <1>1 DEF SameView, Has, Abstract!Publish
<1> QED  BY <1>2 DEF Abstract!Next

\* A stream attached to the end of a log.
LEMMA Attaches ==
  ASSUME NEW g \in Stream, NEW s \in Sid, hist' = hist, sent' = sent,
         \A w \in Stream : w # g => SameView(w),
         RoomOf(g) = None, RoomOf(g)' = s, NextOf(g)' = Len(hist[s]) + 1
  PROVE  Abstract!Next
<1> DEFINE room == [w \in Stream |-> RoomOf(w)]
           next == [w \in Stream |-> NextOf(w)]
<1>1. room' = [room EXCEPT ![g] = s]
  BY DEF SameView
<1>2. next' = [next EXCEPT ![g] = Len(hist[s]) + 1]
  BY DEF SameView
<1>3. Abstract!Attach(g, s)
  BY <1>1, <1>2 DEF Abstract!Attach
<1> QED  BY <1>3 DEF Abstract!Next

\* A client read the entry it was to read next.
LEMMA Reads ==
  ASSUME NEW g \in Stream, NEW s \in Sid, hist' = hist,
         \A w \in Stream : w # g => SameView(w),
         RoomOf(g) = s, RoomOf(g)' = s,
         NextOf(g) = Len(hist[s]), NextOf(g) # 0, NextOf(g)' = NextOf(g) + 1,
         sent' = [sent EXCEPT ![g] = Append(@, hist[s][NextOf(g)])],
         Len(hist[s]) \in Nat
  PROVE  Abstract!Next
<1> DEFINE room == [w \in Stream |-> RoomOf(w)]
           next == [w \in Stream |-> NextOf(w)]
<1>1. room' = room
  BY DEF SameView
<1>2. next' = [next EXCEPT ![g] = @ + 1]
  BY DEF SameView
<1>3. sent' = [sent EXCEPT ![g] = Append(@, hist[room[g]][next[g]])]
  OBVIOUS
<1>4. next[g] # 0 /\ next[g] <= Len(hist[room[g]])
  OBVIOUS
<1>5. Abstract!Read(g)
  BY <1>1, <1>2, <1>3, <1>4 DEF Abstract!Read
<1> QED  BY <1>5 DEF Abstract!Next

\* Streams detached.
LEMMA Detaches ==
  ASSUME TypeOK, TypeOK', NEW W, W \subseteq Stream, Detached(W)
  PROVE  Abstract!Next
<1> DEFINE room == [w \in Stream |-> RoomOf(w)]
           next == [w \in Stream |-> NextOf(w)]
<1>1. sent' = sent
  BY SameFeeds DEF SameView, Detached
<1>2. room' = room
  BY DEF SameView, Detached
<1>3. next' = [w \in Stream |-> IF w \in W THEN 0 ELSE next[w]]
  BY DEF SameView, Detached
<1>4. Abstract!Detach(W)
  BY <1>1, <1>2, <1>3 DEF Abstract!Detach, Detached
<1>5. W \in SUBSET {w \in Stream : room[w] # None}
  BY DEF Detached
<1> QED  BY <1>4, <1>5 DEF Abstract!Next

\* What a stream's view depends on.
LEMMA ViewStays ==
  ASSUME NEW w \in Stream,
         Attached(w)' <=> Attached(w),
         Attached(w) => /\ sess'[w] = sess[w]
                        /\ closed'[w] <=> closed[w]
                        /\ ~closed[w] => /\ hist'[sess[w]] = hist[sess[w]]
                                         /\ Awaits(w)' <=> Awaits(w),
         sent'[w] = sent[w]
  PROVE  SameView(w)
<1>1. RoomOf(w)' = RoomOf(w)
  BY DEF RoomOf
<1>2. NextOf(w)' = NextOf(w)
  BY DEF NextOf
<1> QED  BY <1>1, <1>2 DEF SameView

\* Only calls of Send are in writeSSE.
LEMMA WhoWrites == ASSUME TypeOK, NEW p \in Proc, pc[p] = "write" PROVE p \in Sender
<1>1. /\ p \in Post => pc[p] \in PostAt
      /\ p \in Stream => pc[p] \in GetAt
      /\ p \in Deleter => pc[p] \in DeleteAt
  BY DEF TypeOK
<1> QED  BY <1>1, StreamableAssumption DEF PostAt, GetAt, DeleteAt

\* A quiet step is invisible.
LEMMA QuietView ==
  ASSUME SInv, SInv', Quiet PROVE UNCHANGED Abstract!vars
<1> USE Kinds
<1>1. /\ UNCHANGED <<writers, closed, left, out, hist, sent>>
      /\ \A g \in Stream : GetMoves(g)
      /\ \A p \in Sender : SendMoves(p)
  BY QuietEffect DEF SInv, sessVars, writeVars
<1>2. \A p \in Sender : (pc'[p] = "write" <=> pc[p] = "write") /\ sess'[p] = sess[p]
  BY <1>1 DEF SendMoves
<1>3. \A p \in Proc : /\ pc'[p] = "write" <=> pc[p] = "write"
                      /\ pc[p] = "write" => sess'[p] = sess[p]
  <2> SUFFICES ASSUME NEW p \in Proc
               PROVE  /\ pc'[p] = "write" <=> pc[p] = "write"
                      /\ pc[p] = "write" => sess'[p] = sess[p]
    OBVIOUS
  <2>1. p \notin Sender => pc[p] # "write"
    BY WhoWrites DEF SInv, IInv
  <2>2. p \notin Sender => pc'[p] # "write"
    <3>1. TypeOK'
      BY DEF SInv, IInv
    <3>2. /\ p \in Post => pc'[p] \in PostAt
          /\ p \in Stream => pc'[p] \in GetAt
          /\ p \in Deleter => pc'[p] \in DeleteAt
      BY <3>1 DEF TypeOK
    <3> QED  BY <3>2, StreamableAssumption DEF PostAt, GetAt, DeleteAt
  <2> QED  BY <1>2, <2>1, <2>2
<1>4. ASSUME NEW w \in Stream PROVE SameView(w)
  <2>1. CASE sess'[w] = sess[w]
    <3>1. Attached(w)' <=> Attached(w)
      BY <1>1, <2>1 DEF Attached
    <3>2. Awaits(w)' <=> Awaits(w)
      BY <1>1, <1>3, <2>1 DEF Awaits
    <3> QED  BY <1>1, <2>1, <3>1, <3>2, ViewStays
  <2>2. CASE pc[w] = "lookup" /\ sess'[w] \in Sid
    <3>1. ~closed[w] /\ \A s \in Sid : w \notin writers[s]
      BY <2>2 DEF SInv, Seated, IInv, Locking, Registered
    <3>2. sess[w] \in Sid \cup {None}
      BY DEF SInv, IInv, TypeOK
    <3>3. ~Attached(w) /\ ~Attached(w)'
      BY <1>1, <2>2, <3>1, <3>2 DEF Attached
    <3> QED  BY <1>1, <3>3, ViewStays
  <2> QED  BY <1>1, <2>1, <2>2 DEF GetMoves
<1>5. TypeOK /\ TypeOK'
  BY DEF SInv, IInv
<1> QED  BY <1>1, <1>4, <1>5, Stutters

\* Broadcast's read lock is invisible.
LEMMA BroadcastView ==
  ASSUME NEW p \in Sender, SInv, SInv',
         BroadcastBegin(p, "send") \/ BroadcastEnd(p, "returned")
  PROVE  UNCHANGED Abstract!vars
<1> USE Kinds
<1>1. /\ UNCHANGED <<sess, writers, closed, left, out, hist, sent>>
      /\ \A q \in Proc : q # p => pc'[q] = pc[q]
      /\ pc[p] # "write" /\ pc'[p] # "write"
  BY BroadcastEffect DEF SInv, sessVars, writeVars
<1>2. \A q \in Proc : pc'[q] = "write" <=> pc[q] = "write"
  BY <1>1
<1>3. ASSUME NEW w \in Stream PROVE SameView(w)
  <2>1. (Attached(w)' <=> Attached(w)) /\ (Awaits(w)' <=> Awaits(w))
    BY <1>1, <1>2 DEF Attached, Awaits
  <2> QED  BY <1>1, <2>1, ViewStays
<1>4. TypeOK /\ TypeOK'
  BY DEF SInv, IInv
<1> QED  BY <1>1, <1>3, <1>4, Stutters

\* addWriter attaches.
LEMMA AddView == ASSUME NEW g \in Stream, SInv, GetAddWriter(g) PROVE Abstract!Next
<1> USE Kinds
<1> DEFINE s == sess[g]
<1>1. /\ UNCHANGED <<sess, closed, left, out, hist, sent>>
      /\ \A q \in Proc : q # g => pc'[q] = pc[q]
      /\ pc[g] = "opened" /\ pc'[g] = "streaming"
      /\ SessionLockFree(s)
      /\ \A t \in Sid : writers'[t] = IF t = s THEN writers[t] \cup {g} ELSE writers[t]
  BY AddEffect DEF writeVars, SInv
<1>2. s \in Sid
  BY <1>1 DEF SInv, Seated
<1>3. ~closed[g] /\ g \notin writers[s]
  BY <1>1, <1>2 DEF SInv, Seated, IInv, Locking, Registered
<1>4. \A p \in Sender : ~(pc[p] = "write" /\ sess[p] = s)
  BY <1>1, <1>2, NobodyWrites DEF SInv, IInv
<1>5. ~Attached(g) /\ Attached(g)'
  BY <1>1, <1>2, <1>3, SessionsAssumption DEF Attached
<1>6. \A p \in Proc : pc'[p] = "write" <=> pc[p] = "write"
  BY <1>1
<1>7. ~Awaits(g)'
  <2>1. \A p \in Proc : ~(pc'[p] = "write" /\ sess'[p] = sess'[g])
    BY <1>1, <1>4, <1>6, WhoWrites DEF SInv, IInv
  <2> QED  BY <2>1 DEF Awaits
<1>8. RoomOf(g) = None /\ RoomOf(g)' = s
  BY <1>1, <1>5 DEF RoomOf
<1>9. NextOf(g)' = Len(hist[s]) + 1
  BY <1>1, <1>3, <1>5, <1>7 DEF NextOf
<1>10. ASSUME NEW w \in Stream, w # g PROVE SameView(w)
  <2>1. \A t \in Sid : w \in writers'[t] <=> w \in writers[t]
    <3>1. \A t \in Sid : writers'[t] = writers[t] \cup {g} \/ writers'[t] = writers[t]
      BY <1>1
    <3> QED  BY <1>10, <3>1
  <2>2. sess[w] \in Sid \cup {None}
    BY DEF SInv, IInv, TypeOK
  <2>3. Attached(w)' <=> Attached(w)
    BY <1>1, <2>1, <2>2 DEF Attached
  <2>4. Awaits(w)' <=> Awaits(w)
    BY <1>1, <1>6 DEF Awaits
  <2> QED  BY <1>1, <2>3, <2>4, ViewStays
<1> QED  BY <1>1, <1>2, <1>8, <1>9, <1>10, Attaches

\* Streams that close detach.
LEMMA CloseView ==
  ASSUME SInv, SInv', NEW W, W \subseteq Stream,
         \A w \in W : sess[w] \in Sid /\ (closed[w] \/ w \in writers[sess[w]]),
         \A w \in Stream : closed'[w] = (w \in W \/ closed[w]),
         UNCHANGED <<sess, writers, left, hist, sent>>,
         \A p \in Proc : /\ pc'[p] = "write" <=> pc[p] = "write"
                         /\ out'[p] = out[p] \/ (out[p] \in W /\ out'[p] = None)
  PROVE  Abstract!Next
<1>1. ASSUME NEW w \in W
      PROVE  RoomOf(w) # None /\ RoomOf(w)' = RoomOf(w) /\ NextOf(w)' = 0
  <2>1. w \in Stream /\ Attached(w) /\ Attached(w)' /\ closed'[w]
    BY SessionsAssumption DEF Attached
  <2> QED  BY <2>1, SessionsAssumption DEF RoomOf, NextOf
<1>2. ASSUME NEW w \in Stream \ W PROVE SameView(w)
  <2>1. closed'[w] <=> closed[w]
    OBVIOUS
  <2>2. Attached(w)' <=> Attached(w)
    BY <2>1 DEF Attached
  <2>3. w # None
    BY SessionsAssumption
  <2>4. \A p \in Proc : out'[p] = w <=> out[p] = w
    BY <2>3
  <2>5. Awaits(w)' <=> Awaits(w)
    BY <2>4 DEF Awaits
  <2> QED  BY <2>1, <2>2, <2>5, ViewStays
<1>3. Detached(W)
  BY <1>1, <1>2 DEF Detached
<1> QED  BY <1>3, Detaches DEF SInv, IInv

\* cleanup and Delete detach.
LEMMA ClosesView == ASSUME NEW W, SInv, SInv', Closes(W) PROVE Abstract!Next
<1> USE Kinds
<1>1. /\ UNCHANGED <<sess, writers, left, hist, sent, out>>
      /\ \A p \in Sender : pc'[p] = pc[p]
      /\ W \subseteq Stream
      /\ \A w \in W : sess[w] \in Sid /\ (closed[w] \/ w \in writers[sess[w]])
      /\ \A w \in Stream : closed'[w] = (w \in W \/ closed[w])
  BY ClosesEffect DEF writeVars
<1>2. ASSUME NEW p \in Proc, p \notin Sender PROVE pc[p] # "write" /\ pc'[p] # "write"
  <2>1. /\ p \in Post => pc[p] \in PostAt /\ pc'[p] \in PostAt
        /\ p \in Stream => pc[p] \in GetAt /\ pc'[p] \in GetAt
        /\ p \in Deleter => pc[p] \in DeleteAt /\ pc'[p] \in DeleteAt
    BY DEF SInv, IInv, TypeOK
  <2> QED  BY <1>2, <2>1, StreamableAssumption DEF PostAt, GetAt, DeleteAt
<1>3. \A p \in Proc : pc'[p] = "write" <=> pc[p] = "write"
  BY <1>1, <1>2
<1> QED  BY <1>1, <1>3, CloseView

\* writeSSE publishes its event when it has the mutex.
LEMMA LocksView ==
  ASSUME NEW p \in Sender, SInv, SInv', BroadcastSession(p) PROVE Abstract!Next
<1> USE Kinds
<1>1. PICK s \in Sid :
        /\ pc[p] = "range" /\ s \in todo[p]
        /\ pc' = [pc EXCEPT ![p] = "write"]
        /\ mu[s] = None
        /\ sess' = [sess EXCEPT ![p] = s]
        /\ left' = [left EXCEPT ![p] = writers[s]]
        /\ hist' = [hist EXCEPT ![s] = Append(@, p)]
        /\ UNCHANGED <<writers, closed, out, sent>>
  BY LocksEffect DEF SInv
<1>2. /\ \A q \in Proc : q # p => pc'[q] = pc[q] /\ sess'[q] = sess[q] /\ left'[q] = left[q]
      /\ sess'[p] = s /\ left'[p] = writers[s] /\ pc'[p] = "write"
      /\ hist'[s] = Append(hist[s], p)
      /\ \A t \in Sid : t # s => hist'[t] = hist[t]
      /\ hist[s] \in Seq(Proc) /\ p \in Proc
      /\ out[p] = None
  BY <1>1 DEF SInv, IInv, TypeOK, Locking, InLoop
<1>3. \A q \in Proc : ~(pc[q] = "write" /\ sess[q] = s)
  BY <1>1, NobodyWrites, WhoWrites DEF SInv, IInv, SessionLockFree
<1>4. ASSUME NEW w \in Stream PROVE SameView(w)
  <2>1. sess'[w] = sess[w] /\ sess[w] \in Sid \cup {None} /\ w # None
    BY <1>2, SessionsAssumption DEF SInv, IInv, TypeOK
  <2>2. Attached(w)' <=> Attached(w)
    BY <1>1, <2>1 DEF Attached
  <2>3. CASE sess[w] # s
    <3>1. Awaits(w)' <=> Awaits(w)
      BY <1>1, <1>2, <2>1, <2>3 DEF Awaits
    <3>2. Attached(w) => hist'[sess[w]] = hist[sess[w]]
      BY <1>2, <2>1, <2>3 DEF Attached
    <3> QED  BY <1>1, <2>1, <2>2, <3>1, <3>2, ViewStays
  <2>4. CASE sess[w] = s /\ Attached(w) /\ ~closed[w]
    <3>1. w \in writers[s]
      BY <2>4 DEF Attached
    <3>2. ~Awaits(w)
      BY <1>3, <2>4 DEF Awaits
    <3>3. Awaits(w)'
      BY <1>2, <2>1, <2>4, <3>1 DEF Awaits
    <3>4. NextOf(w)' = NextOf(w)
      <4>1. NextOf(w) = Len(hist[s]) + 1
        BY <2>4, <3>2 DEF NextOf
      <4>2. NextOf(w)' = Len(Append(hist[s], p)) + 0
        BY <1>1, <1>2, <2>1, <2>2, <2>4, <3>3 DEF NextOf
      <4> QED  BY <1>2, <4>1, <4>2, AppendHas
    <3>5. RoomOf(w)' = RoomOf(w)
      BY <2>1, <2>2 DEF RoomOf
    <3> QED  BY <1>1, <3>4, <3>5 DEF SameView
  <2>5. CASE ~Attached(w) \/ closed[w]
    BY <1>1, <2>1, <2>2, <2>5, ViewStays
  <2> QED  BY <2>3, <2>4, <2>5
<1>5. ~Has(hist[s], p)
  BY <1>1 DEF SInv, Visited
<1> QED  BY <1>1, <1>4, <1>5, Publishes DEF SInv, IInv

\* writeSSE replaces the list by one that lacks only closed streams.
LEMMA UnlocksView ==
  ASSUME NEW p \in Sender, SInv, SInv', WriteUnlock(p, "range")
  PROVE  UNCHANGED Abstract!vars
<1> USE Kinds
<1>1. PICK s \in Sid :
        /\ pc[p] = "write" /\ s = sess[p]
        /\ left[p] = {} /\ out[p] = None
        /\ kept[p] \subseteq writers[s]
        /\ pc'[p] # "write"
        /\ \A q \in Proc : q # p => pc'[q] = pc[q]
        /\ \A t \in Sid : writers'[t] = IF t = s THEN kept[p] ELSE writers[t]
        /\ UNCHANGED <<sess, closed, left, out, sent, hist>>
  BY UnlocksEffect DEF writeVars, SInv
<1>2. ASSUME NEW w \in Stream PROVE SameView(w)
  <2>1. sess[w] \in Sid \cup {None} /\ w # None
    BY SessionsAssumption DEF SInv, IInv, TypeOK
  <2>2. w \in writers[s] => closed[w] \/ w \in kept[p]
    BY <1>1, <2>1 DEF SInv, Reaching, LoopKeeps
  <2>3. Attached(w)' <=> Attached(w)
    BY <1>1, <2>1, <2>2 DEF Attached
  <2>4. Awaits(w)' <=> Awaits(w)
    BY <1>1, <2>1 DEF Awaits
  <2> QED  BY <1>1, <2>3, <2>4, ViewStays
<1> QED  BY <1>1, <1>2, Stutters DEF SInv, IInv

\* A write that succeeds is read; one that fails detaches.
LEMMA LoopView ==
  ASSUME NEW p \in Sender, SInv, SInv', WriteNext(p) \/ WriteOk(p) \/ WriteFail(p, gone)
  PROVE  Abstract!Next \/ UNCHANGED Abstract!vars
<1> USE Kinds
<1>1. CASE WriteNext(p)
  <2>1. PICK w \in left[p] :
          /\ left' = [left EXCEPT ![p] = @ \ {w}]
          /\ out' = IF ~closed[w] THEN [out EXCEPT ![p] = w] ELSE out
          /\ out[p] = None
          /\ UNCHANGED <<pc, sess, writers, closed, hist, sent>>
    BY <1>1 DEF WriteNext, IsActive, sessVars
  <2>2. /\ \A q \in Proc : q # p => left'[q] = left[q] /\ out'[q] = out[q]
        /\ left'[p] = left[p] \ {w} /\ out'[p] = IF ~closed[w] THEN w ELSE None
    BY <2>1 DEF SInv, IInv, TypeOK
  <2>3. ASSUME NEW v \in Stream PROVE SameView(v)
    <3>1. v # None
      BY SessionsAssumption
    <3>2. ~closed[v] => (Awaits(v)' <=> Awaits(v))
      <4>1. ASSUME NEW q \in Proc, ~closed[v]
            PROVE  (v \in left'[q] \/ out'[q] = v) <=> (v \in left[q] \/ out[q] = v)
        BY <2>1, <2>2, <3>1, <4>1
      <4> QED  BY <2>1, <4>1 DEF Awaits
    <3>3. Attached(v)' <=> Attached(v)
      BY <2>1 DEF Attached
    <3> QED  BY <2>1, <3>2, <3>3, ViewStays
  <2> QED  BY <2>1, <2>3, Stutters DEF SInv, IInv
<1>2. CASE WriteFail(p, gone)
  <2> DEFINE g == out[p]
  <2>1. /\ closed' = [closed EXCEPT ![g] = TRUE]
        /\ out' = [out EXCEPT ![p] = None]
        /\ g \in Stream /\ g # None
        /\ UNCHANGED <<pc, sess, writers, left, hist, sent>>
    BY <1>2, SessionsAssumption DEF WriteFail, SInv, IInv, TypeOK
  <2>2. sess[g] \in Sid /\ g \in writers[sess[g]]
    BY <2>1 DEF SInv, IInv, Locking, InLoop, Registered
  <2>3. \A q \in Proc : out'[q] = out[q] \/ (out[q] = g /\ out'[q] = None)
    BY <2>1 DEF SInv, IInv, TypeOK
  <2> closed \in [Stream -> BOOLEAN]
    BY DEF SInv, IInv, TypeOK
  <2> HIDE DEF g
  <2>4. /\ {g} \subseteq Stream
        /\ \A w \in {g} : sess[w] \in Sid /\ (closed[w] \/ w \in writers[sess[w]])
    BY <2>1, <2>2
  <2>5. \A q \in Proc : /\ pc'[q] = "write" <=> pc[q] = "write"
                        /\ out'[q] = out[q] \/ (out[q] \in {g} /\ out'[q] = None)
    BY <2>1, <2>3
  <2>6. ASSUME NEW w \in Stream PROVE closed'[w] = (w \in {g} \/ closed[w])
    <3>1. CASE w = g
      BY <2>1, <3>1
    <3>2. CASE w # g
      BY <2>1, <3>2
    <3> QED  BY <3>1, <3>2
  <2>7. UNCHANGED <<sess, writers, left, hist, sent>>
    BY <2>1
  <2> QED  BY <2>4, <2>5, <2>6, <2>7, CloseView
<1>3. CASE WriteOk(p)
  <2>1. PICK w \in Stream :
          /\ pc[p] = "write" /\ w = out[p] /\ w \in writers[sess[p]]
          /\ sess[p] \in Sid /\ sess[w] = sess[p]
          /\ ~closed[w]
          /\ out' = [out EXCEPT ![p] = None]
          /\ UNCHANGED <<pc, sess, left, hist, writers, closed>>
    BY <1>3, WriteOkEffect DEF sessVars, SInv
  <2>2. sent' = [sent EXCEPT ![w] = Append(@, p)]
    BY <1>3, <2>1 DEF WriteOk
  <2> DEFINE s == sess[p]
  <2>3. /\ Len(hist[s]) > 0 /\ hist[s][Len(hist[s])] = p /\ w \notin left[p]
        /\ Len(hist[s]) \in Nat
    BY <2>1, SessionsAssumption DEF SInv, Logged, IInv, TypeOK
  <2>4. \A q \in Proc : out'[q] = IF q = p THEN None ELSE out[q]
    BY <2>1 DEF SInv, IInv, TypeOK
  <2>5. Attached(w) /\ Attached(w)'
    BY <2>1, SessionsAssumption DEF Attached
  <2>6. Awaits(w)
    BY <2>1 DEF Awaits
  <2>7. ~Awaits(w)'
    <3>1. \A q \in Proc : pc[q] = "write" => q \in Sender
      BY WhoWrites DEF SInv, IInv
    <3>2. \A q \in Proc : q # p => ~(pc[q] = "write" /\ sess[q] = s)
      BY <2>1, <3>1 DEF SInv, IInv, Locking, LockOwner
    <3> QED  BY <2>1, <2>3, <2>4, <3>2, SessionsAssumption DEF Awaits
  <2>8. RoomOf(w) = s /\ RoomOf(w)' = s
    BY <2>1, <2>5 DEF RoomOf
  <2>9. NextOf(w) = Len(hist[s]) /\ NextOf(w)' = Len(hist[s]) + 1
    BY <2>1, <2>3, <2>5, <2>6, <2>7 DEF NextOf
  <2>10. sent' = [sent EXCEPT ![w] = Append(@, hist[s][NextOf(w)])]
    BY <2>2, <2>3, <2>9
  <2>11. ASSUME NEW v \in Stream, v # w PROVE SameView(v)
    <3>1. v # None
      BY SessionsAssumption
    <3>2. Awaits(v)' <=> Awaits(v)
      BY <2>1, <2>4, <2>11, <3>1 DEF Awaits
    <3>3. Attached(v)' <=> Attached(v)
      BY <2>1 DEF Attached
    <3>4. sent'[v] = sent[v]
      BY <2>2, <2>11
    <3> QED  BY <2>1, <2>11, <3>2, <3>3, <3>4, ViewStays
  <2>12. s \in Sid /\ hist' = hist /\ NextOf(w) # 0 /\ NextOf(w)' = NextOf(w) + 1
    BY <2>1, <2>3, <2>9
  <2> HIDE DEF s
  <2> QED  BY <2>3, <2>8, <2>9, <2>10, <2>11, <2>12, Reads
<1> QED  BY <1>1, <1>2, <1>3

\* Every step of the transport is a step of EventStreams or is invisible.
LEMMA StepRefines ==
  ASSUME SInv, SInv', [Next]_vars PROVE [Abstract!Next]_(Abstract!vars)
BY Steps, QuietView, AddView, ClosesView, BroadcastView, LocksView, LoopView, UnlocksView

\* The transport starts as EventStreams does.
LEMMA InitRefines == Init => Abstract!Init
<1> SUFFICES ASSUME Init PROVE Abstract!Init
  OBVIOUS
<1>1. /\ \A p \in Proc : pc[p] = "idle" /\ sess[p] = None
      /\ sent = [w \in Stream |-> <<>>]
      /\ hist = [s \in Sid |-> <<>>]
  BY DEF Init, NewSessionManager
<1>2. \A w \in Stream : RoomOf(w) = None /\ NextOf(w) = 0
  BY <1>1, Kinds DEF RoomOf, NextOf, Attached
<1> QED  BY <1>1, <1>2 DEF Abstract!Init

\* The Streamable transport implements EventStreams: each stream reads the log
\* of its session from where it attached, without gaps, until it detaches for
\* good, through every DELETE, disconnect and overlapping Send.
THEOREM Refinement == Spec => ImplementsEventStreams
<1>1. Init => Abstract!Init
  BY InitRefines
<1>2. SInv /\ SInv' /\ [Next]_vars => [Abstract!Next]_(Abstract!vars)
  BY StepRefines
<1> QED
  BY FeedInvariance, <1>1, <1>2, PTL DEF Spec, ImplementsEventStreams, Abstract!Spec

-----------------------------------------------------------------------------
(* What follows from the refinement.                                       *)

\* EventStreams as Abstract has it, with what is proved about it.
Streams ==
  INSTANCE EventStreamsProofs WITH
    Event <- Sender,
    log <- hist,
    room <- [w \in Stream |-> RoomOf(w)],
    next <- [w \in Stream |-> NextOf(w)],
    feed <- sent

\* The two instances are of the same specification.
LEMMA SameSpec == Abstract!Spec => Streams!Spec
<1>1. Abstract!Init => Streams!Init
  BY DEF Abstract!Init, Streams!Init
<1>2. [Abstract!Next]_(Abstract!vars) => [Streams!Next]_(Streams!vars)
  BY DEF Abstract!Next, Abstract!vars, Abstract!Publish, Abstract!Attach, Abstract!Read,
         Abstract!Detach, Streams!Next, Streams!vars, Streams!Publish, Streams!Attach,
         Streams!Read, Streams!Detach
<1> QED  BY <1>1, <1>2, PTL DEF Abstract!Spec, Streams!Spec

\* A stream is in the room of its session.
LEMMA InRoom ==
  ASSUME TypeOK, NEW w \in Stream, RoomOf(w) # None
  PROVE  Attached(w) /\ RoomOf(w) = sess[w] /\ sess[w] \in Sid
<1>1. sess[w] \in Sid \cup {None}
  BY Kinds DEF TypeOK
<1> QED  BY <1>1 DEF RoomOf, Attached

\* A stream that is closed has left its log; one that is attached and open has
\* not.
LEMMA ClosedView ==
  ASSUME SInv, NEW w \in Stream
  PROVE  closed[w] <=> RoomOf(w) # None /\ NextOf(w) = 0
<1>1. ASSUME closed[w] PROVE RoomOf(w) # None /\ NextOf(w) = 0
  <2>1. sess[w] \in Sid /\ Attached(w)
    BY <1>1, SessionsAssumption DEF SInv, Seated, Attached
  <2> QED  BY <1>1, <2>1, SessionsAssumption DEF RoomOf, NextOf
<1>2. ASSUME ~closed[w], RoomOf(w) # None PROVE NextOf(w) # 0
  <2>1. Attached(w) /\ sess[w] \in Sid
    BY <1>2, InRoom DEF SInv, IInv
  <2>2. Len(hist[sess[w]]) \in Nat
    BY <2>1 DEF SInv, IInv, TypeOK
  <2>3. Awaits(w) => Len(hist[sess[w]]) > 0
    BY WhoWrites DEF SInv, IInv, Logged, Awaits
  <2>4. NextOf(w) = Len(hist[sess[w]]) + (IF Awaits(w) THEN 0 ELSE 1)
    BY <1>2, <2>1 DEF NextOf
  <2>5. CASE Awaits(w)
    BY <2>2, <2>3, <2>4, <2>5
  <2>6. CASE ~Awaits(w)
    BY <2>2, <2>4, <2>6
  <2> QED  BY <2>5, <2>6
<1> QED  BY <1>1, <1>2

\* What a client has read is a gapless run of what was sent to its session.
THEOREM FeedsHaveNoGaps == Spec => []GaplessFeed
<1>1. None \notin Sid
  BY SessionsAssumption
<1>2. SInv /\ Streams!Gapless /\ Streams!ReadOnce => GaplessFeed
  <2> SUFFICES ASSUME SInv, Streams!Gapless, Streams!ReadOnce, NEW w \in Stream
               PROVE  /\ sent[w] # <<>> =>
                           \E i, j \in 1..Len(hist[sess[w]]) :
                             sent[w] = SubSeq(hist[sess[w]], i, j)
                      /\ \A i, j \in 1..Len(sent[w]) : sent[w][i] = sent[w][j] => i = j
    BY DEF GaplessFeed
  <2>1. ASSUME sent[w] # <<>>
        PROVE  \E i, j \in 1..Len(hist[sess[w]]) : sent[w] = SubSeq(hist[sess[w]], i, j)
    <3>1. RoomOf(w) # None /\ Streams!Run(sent[w], hist[RoomOf(w)], NextOf(w))
      BY <2>1 DEF Streams!Gapless
    <3>2. RoomOf(w) = sess[w] /\ sess[w] \in Sid
      BY <3>1, InRoom DEF SInv, IInv
    <3>3. \E i \in 1..Len(hist[sess[w]]) : \E j \in i..Len(hist[sess[w]]) :
            sent[w] = SubSeq(hist[sess[w]], i, j)
      BY <3>1, <3>2 DEF Streams!Run
    <3>4. Len(hist[sess[w]]) \in Nat
      BY <3>2 DEF SInv, IInv, TypeOK
    <3> QED  BY <3>3, <3>4
  <2>2. \A i, j \in 1..Len(sent[w]) : sent[w][i] = sent[w][j] => i = j
    BY DEF Streams!ReadOnce, Streams!Distinct
  <2> QED  BY <2>1, <2>2
<1> QED  BY FeedInvariance, Refinement, SameSpec, Streams!NoGaps, Streams!AtMostOnce,
            <1>1, <1>2, PTL
         DEF ImplementsEventStreams

\* Two streams of a session have what both have been sent in the same order, with
\* the same number of events in between.
StreamsAgree ==
  \A v, w \in Stream : sess[v] = sess[w] =>
    \A i, j \in 1..Len(sent[v]), k, m \in 1..Len(sent[w]) :
      sent[v][i] = sent[w][k] /\ sent[v][j] = sent[w][m] => i + m = j + k

\* No client learns of two messages in an order that another client of its session
\* would dispute: Sends that overlap are ordered once per session, by its mutex.
THEOREM OneOrderPerSession == Spec => []StreamsAgree
<1>1. None \notin Sid
  BY SessionsAssumption
<1>2. ASSUME SInv, Streams!Gapless, Streams!SameOrder
      PROVE  StreamsAgree
  <2>1. ASSUME NEW v \in Stream, NEW w \in Stream, sess[v] = sess[w]
        PROVE  \A i, j \in 1..Len(sent[v]), k, m \in 1..Len(sent[w]) :
                 sent[v][i] = sent[w][k] /\ sent[v][j] = sent[w][m] => i + m = j + k
    <3>1. CASE sent[v] = <<>> \/ sent[w] = <<>>
      BY <3>1
    <3>2. CASE sent[v] # <<>> /\ sent[w] # <<>>
      <4>1. RoomOf(v) # None /\ RoomOf(w) # None
        BY <1>2, <3>2 DEF Streams!Gapless
      <4>2. RoomOf(v) = sess[v] /\ RoomOf(w) = sess[w]
        BY <1>2, <4>1, InRoom DEF SInv, IInv
      <4>3. [x \in Stream |-> RoomOf(x)][v] = [x \in Stream |-> RoomOf(x)][w]
        BY <2>1, <4>2
      <4> QED  BY <1>2, <4>3 DEF Streams!SameOrder
    <3> QED  BY <3>1, <3>2
  <2> QED  BY <2>1 DEF StreamsAgree
<1> QED  BY FeedInvariance, Refinement, SameSpec, Streams!NoGaps, Streams!AtMostOnce,
            <1>1, <1>2, PTL
         DEF ImplementsEventStreams

\* A stream that was closed, by its own cleanup, a DELETE or a failed write, stays
\* closed, and nothing more is sent to its client.
THEOREM ClosedForGood ==
  Spec => [][\A w \in Stream : closed[w] => closed'[w] /\ sent'[w] = sent[w]]_vars
<1> DEFINE Seen == \A w \in Stream : closed[w] <=> RoomOf(w) # None /\ NextOf(w) = 0
           Silent == \A w \in Stream : closed[w] => closed'[w] /\ sent'[w] = sent[w]
<1>1. SInv => Seen
  BY ClosedView
<1>2. Seen /\ Seen' /\ [Streams!StaysDetached]_(Streams!vars) => Silent
  <2> SUFFICES ASSUME Seen, Seen', [Streams!StaysDetached]_(Streams!vars),
                      NEW w \in Stream, closed[w]
               PROVE  closed'[w] /\ sent'[w] = sent[w]
    OBVIOUS
  <2>1. RoomOf(w) # None /\ NextOf(w) = 0
    OBVIOUS
  <2>2. NextOf(w)' = 0 /\ RoomOf(w)' = RoomOf(w) /\ sent'[w] = sent[w]
    <3>1. CASE Streams!StaysDetached
      BY <2>1, <3>1 DEF Streams!StaysDetached
    <3>2. CASE UNCHANGED Streams!vars
      <4>1. /\ [v \in Stream |-> RoomOf(v)]' = [v \in Stream |-> RoomOf(v)]
            /\ [v \in Stream |-> NextOf(v)]' = [v \in Stream |-> NextOf(v)]
            /\ sent' = sent
        BY <3>2 DEF Streams!vars
      <4>2. /\ [v \in Stream |-> RoomOf(v)]'[w] = RoomOf(w)'
            /\ [v \in Stream |-> NextOf(v)]'[w] = NextOf(w)'
        OBVIOUS
      <4> QED  BY <2>1, <4>1, <4>2
    <3> QED  BY <3>1, <3>2
  <2> QED  BY <2>1, <2>2
<1> HIDE DEF Seen, Silent
<1>3. Spec => [][Silent]_vars
  BY FeedInvariance, Refinement, SameSpec, Streams!DetachedForGood, <1>1, <1>2, PTL
  DEF ImplementsEventStreams
<1> QED  BY <1>3 DEF Silent

-----------------------------------------------------------------------------
(* The order of Sends, and what a DELETE ends.                             *)

\* In every log the entry of p comes before the one of q.
LogsInOrder(p, q) ==
  \A s \in Sid : \A i, j \in 1..Len(hist[s]) : hist[s][i] = p /\ hist[s][j] = q => i < j

\* On every stream that has both the message of p comes before the one of q.
SentInOrder(p, q) ==
  \A w \in Stream : \A i, j \in 1..Len(sent[w]) : sent[w][i] = p /\ sent[w][j] = q => i < j

\* Only a Send that has sessions ahead of it enters a log; one that has returned
\* is not called again.
LEMMA LogsGrow ==
  ASSUME SInv, [Next]_vars
  PROVE  /\ \A p \in Sender : pc[p] = "returned" => pc'[p] = "returned"
         /\ \/ hist' = hist
            \/ \E r \in Sender, s \in Sid :
                 pc[r] = "range" /\ hist' = [hist EXCEPT ![s] = Append(@, r)]
<1> USE Kinds
<1>1. CASE Quiet
  BY <1>1, QuietEffect DEF SInv, SendMoves, writeVars
<1>2. ASSUME NEW g \in Stream, GetAddWriter(g)
      PROVE  hist' = hist /\ \A p \in Sender : pc'[p] = pc[p]
  BY <1>2, AddEffect DEF SInv, writeVars
<1>3. ASSUME NEW W, Closes(W)
      PROVE  hist' = hist /\ \A p \in Sender : pc'[p] = pc[p]
  BY <1>3, ClosesEffect DEF writeVars
<1>4. ASSUME NEW p \in Sender, BroadcastBegin(p, "send") \/ BroadcastEnd(p, "returned")
      PROVE  /\ hist' = hist /\ pc[p] # "returned"
             /\ \A q \in Proc : q # p => pc'[q] = pc[q]
  BY <1>4, BroadcastEffect DEF SInv, writeVars
<1>5. ASSUME NEW p \in Sender, BroadcastSession(p)
      PROVE  /\ \E s \in Sid : hist' = [hist EXCEPT ![s] = Append(@, p)]
             /\ pc[p] = "range"
             /\ \A q \in Proc : q # p => pc'[q] = pc[q]
  <2>1. PICK s \in Sid :
          /\ pc[p] = "range" /\ pc' = [pc EXCEPT ![p] = "write"]
          /\ hist' = [hist EXCEPT ![s] = Append(@, p)]
    BY <1>5, LocksEffect DEF SInv
  <2> QED  BY <2>1 DEF SInv, IInv, TypeOK
<1>6. ASSUME NEW p \in Sender, WriteNext(p) \/ WriteOk(p) \/ WriteFail(p, gone)
      PROVE  hist' = hist /\ pc' = pc
  BY <1>6 DEF WriteNext, WriteOk, WriteFail
<1>7. ASSUME NEW p \in Sender, WriteUnlock(p, "range")
      PROVE  /\ hist' = hist /\ pc[p] = "write"
             /\ \A q \in Proc : q # p => pc'[q] = pc[q]
  BY <1>7, UnlocksEffect DEF SInv, writeVars
<1> QED  BY Steps, <1>1, <1>2, <1>3, <1>4, <1>5, <1>6, <1>7

\* A log in which p comes before q stays so once p has returned: p enters no log
\* any more, and q only at the end.
LEMMA OrderStays ==
  ASSUME SInv, [Next]_vars, NEW p \in Sender, NEW q \in Sender,
         pc[p] = "returned", LogsInOrder(p, q)
  PROVE  pc'[p] = "returned" /\ LogsInOrder(p, q)'
<1>1. pc'[p] = "returned"
  BY LogsGrow
<1>2. ASSUME hist' = hist PROVE LogsInOrder(p, q)'
  BY <1>2 DEF LogsInOrder
<1>3. ASSUME NEW r \in Sender, NEW s \in Sid, pc[r] = "range",
             hist' = [hist EXCEPT ![s] = Append(@, r)]
      PROVE  LogsInOrder(p, q)'
  <2>1. r # p /\ r \in Proc
    BY <1>3, Kinds
  <2>2. /\ hist[s] \in Seq(Proc) /\ hist'[s] = Append(hist[s], r)
        /\ \A t \in Sid : t # s => hist'[t] = hist[t]
    BY <1>3 DEF SInv, IInv, TypeOK
  <2>3. /\ Len(hist'[s]) = Len(hist[s]) + 1 /\ Len(hist[s]) \in Nat
        /\ hist'[s][Len(hist[s]) + 1] = r
        /\ \A i \in 1..Len(hist[s]) : hist'[s][i] = hist[s][i]
    BY <2>1, <2>2
  <2>4. ASSUME NEW i \in 1..Len(hist'[s]), NEW j \in 1..Len(hist'[s]),
               hist'[s][i] = p, hist'[s][j] = q
        PROVE  i < j
    <3>1. i \in 1..Len(hist[s]) /\ hist[s][i] = p
      BY <2>1, <2>3, <2>4
    <3>2. CASE j \in 1..Len(hist[s])
      BY <2>3, <2>4, <3>1, <3>2 DEF LogsInOrder
    <3>3. CASE j = Len(hist[s]) + 1
      BY <2>3, <3>1, <3>3
    <3> QED  BY <2>3, <3>2, <3>3
  <2>5. ASSUME NEW t \in Sid, NEW i \in 1..Len(hist'[t]), NEW j \in 1..Len(hist'[t]),
               hist'[t][i] = p, hist'[t][j] = q
        PROVE  i < j
    <3>1. CASE t = s
      BY <2>4, <2>5, <3>1
    <3>2. CASE t # s
      <4>1. hist'[t] = hist[t]
        BY <2>2, <3>2
      <4> QED  BY <2>5, <4>1 DEF LogsInOrder
    <3> QED  BY <3>1, <3>2
  <2> QED  BY <2>5 DEF LogsInOrder
<1>4. CASE hist' = hist
  BY <1>1, <1>2, <1>4
<1>5. CASE \E r \in Sender, s \in Sid :
             pc[r] = "range" /\ hist' = [hist EXCEPT ![s] = Append(@, r)]
  BY <1>1, <1>3, <1>5
<1> QED  BY LogsGrow, <1>4, <1>5

\* A run of a log has its order.
LEMMA RunsKeepOrder ==
  ASSUME SInv, Streams!Gapless, NEW p, NEW q, LogsInOrder(p, q)
  PROVE  SentInOrder(p, q)
<1> SUFFICES ASSUME NEW w \in Stream, NEW i \in 1..Len(sent[w]), NEW j \in 1..Len(sent[w]),
                    sent[w][i] = p, sent[w][j] = q
             PROVE  i < j
  BY DEF SentInOrder
<1>1. sent[w] # <<>> /\ sent[w] \in Seq(Proc)
  BY DEF SInv, IInv, TypeOK
<1>2. RoomOf(w) # None /\ Streams!Run(sent[w], hist[RoomOf(w)], NextOf(w))
  BY <1>1 DEF Streams!Gapless
<1>3. PICK s \in Sid : s = RoomOf(w)
  BY <1>2, InRoom DEF SInv, IInv
<1>4. hist[s] \in Seq(Proc) /\ Len(hist[s]) \in Nat
  BY DEF SInv, IInv, TypeOK
<1>5. PICK a \in 1..Len(hist[s]), b \in 1..Len(hist[s]) : sent[w] = SubSeq(hist[s], a, b)
  <2>1. \E a \in 1..Len(hist[s]) : \E b \in a..Len(hist[s]) : sent[w] = SubSeq(hist[s], a, b)
    BY <1>2, <1>3 DEF Streams!Run
  <2> QED  BY <1>4, <2>1
<1>6. \A k \in 1..Len(sent[w]) :
        a + k - 1 \in 1..Len(hist[s]) /\ sent[w][k] = hist[s][a + k - 1]
  BY <1>4, <1>5
<1>7. a + i - 1 < a + j - 1
  BY <1>6 DEF LogsInOrder
<1> QED  BY <1>1, <1>5, <1>7

\* A Send that was called after another had returned comes after it on every
\* stream, for good: clients learn of messages in the order in which they were
\* sent, as far as the server could tell it.
THEOREM SendsKeepOrder ==
  ASSUME NEW p \in Sender, NEW q \in Sender
  PROVE  Spec => [](pc[p] = "returned" /\ pc[q] = "idle" => []SentInOrder(p, q))
<1> DEFINE I == pc[p] = "returned" /\ LogsInOrder(p, q)
<1>1. None \notin Sid
  BY SessionsAssumption
<1>2. SInv /\ pc[p] = "returned" /\ pc[q] = "idle" => I
  <2> SUFFICES ASSUME SInv, pc[p] = "returned", pc[q] = "idle",
                      NEW s \in Sid, NEW j \in 1..Len(hist[s]), hist[s][j] = q
               PROVE  FALSE
    BY DEF LogsInOrder
  <2> QED  BY Kinds DEF SInv, Visited, Has
<1>3. SInv /\ I /\ [Next]_vars => I'
  BY OrderStays
<1>4. SInv /\ Streams!Gapless /\ I => SentInOrder(p, q)
  BY RunsKeepOrder
<1> HIDE DEF I
<1> QED  BY FeedInvariance, Refinement, SameSpec, Streams!NoGaps, <1>1, <1>2, <1>3, <1>4, PTL
         DEF ImplementsEventStreams, Spec

\* Once a DELETE of an id was answered 204 nothing more is sent to any stream of
\* that session, not even to one that registered after the DELETE.
THEOREM DeletedIsSilent ==
  Spec => [][\A d \in Deleter, w \in Stream :
               status[d] = "204" /\ sess[w] = hdr[d] => sent'[w] = sent[w]]_vars
<1> DEFINE Silent == \A d \in Deleter, w \in Stream :
                       status[d] = "204" /\ sess[w] = hdr[d] => sent'[w] = sent[w]
<1>1. ASSUME SInv, NoEventAfterDelete, TerminatedIsGone, [Next]_vars PROVE Silent
  <2>1. CASE \E p \in Sender : WriteOk(p)
    <3>1. PICK p \in Sender :
            out[p] # None /\ sent' = [sent EXCEPT ![out[p]] = Append(@, p)]
      BY <2>1 DEF WriteOk
    <3>2. /\ out[p] \in writers[sess[p]] /\ sess[p] \in Sid
          /\ sess[out[p]] = sess[p] /\ sess[p] \in sessions
      BY <1>1, <3>1 DEF SInv, IInv, Locking, InLoop, Registered, NoEventAfterDelete
    <3>3. ASSUME NEW d \in Deleter, NEW w \in Stream, status[d] = "204", sess[w] = hdr[d]
          PROVE  sent'[w] = sent[w]
      <4>1. w # out[p]
        BY <1>1, <3>2, <3>3 DEF TerminatedIsGone
      <4> QED  BY <1>1, <3>1, <4>1 DEF SInv, IInv, TypeOK
    <3> QED  BY <3>3
  <2>2. CASE ~\E p \in Sender : WriteOk(p)
    <3>1. sent' = sent
      BY <1>1, <2>2, Steps, QuietEffect, AddEffect, ClosesEffect, BroadcastEffect,
         LocksEffect, UnlocksEffect
      DEF SInv, writeVars, WriteNext, WriteFail
    <3> QED  BY <3>1
  <2> QED  BY <2>1, <2>2
<1> HIDE DEF Silent
<1>2. Spec => [][Silent]_vars
  BY FeedInvariance, DeleteSilences, DeleteIsFinal, <1>1, PTL DEF Spec
<1> QED  BY <1>2 DEF Silent

=============================================================================
