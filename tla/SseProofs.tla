----------------------------- MODULE SseProofs ------------------------------
(***************************************************************************)
(* Proofs about the SSE transport and the session manager below it, for    *)
(* any number of requests, streams, broadcasts and ids.                    *)
(*                                                                         *)
(* EmitToLive rests on Locking: who is in writeSSE owns the session's      *)
(* mutex, and what its loop still holds is registered on that session.     *)
(* EndpointFirst and ReplyIsPrivate rest on Feeds: a stream is registered  *)
(* only after its endpoint event, and only on an id nobody else has.       *)
(* EventReaches rests on Reaching: between the filtering of a list and its *)
(* replacement no open stream falls out of it.  Refinement needs Logged    *)
(* besides (the event that is being written is the last one of its log)    *)
(* and Visited (nobody enters a log twice).                                *)
(* GaplessFeed is what EventStreamsProofs shows, taken over through the    *)
(* refinement.  WaitsDescend rests on Holding: where a goroutine is tells  *)
(* which locks it has.                                                     *)
(***************************************************************************)
EXTENDS Sse, TLAPS

-----------------------------------------------------------------------------
(* The inductive invariants.                                               *)

\* s.mu belongs to the goroutine that writes to the session.
LockOwner ==
  \A p \in Writer, s \in Sid : mu[s] = p <=> pc[p] = "write" /\ sess[p] = s

\* What the loop of writeSSE works on is registered; the writer it is writing
\* to is open.
InLoop ==
  \A p \in Writer :
    /\ pc[p] = "write" => /\ sess[p] \in Sid
                          /\ left[p] \cup kept[p] \subseteq writers[sess[p]]
    /\ out[p] # None => /\ pc[p] = "write"
                        /\ out[p] \in writers[sess[p]]
                        /\ ~closed[out[p]]

\* A registered writer belongs to a handler that is there, or is closed.
Registered ==
  \A s \in Sid : \A w \in writers[s] :
    /\ sess[w] = s
    /\ pc[w] \in {"streaming", "cleanup", "returned"}
    /\ pc[w] = "returned" => closed[w]

Locking == LockOwner /\ InLoop /\ Registered

\* e is among the events of s.
Has(s, e) == \E i \in 1..Len(s) : s[i] = e

\* The states of a stream before its endpoint event and before its writer.
Ungreeted == {"idle", "create", "insert", "greet"}

\* A stream has its endpoint before anything else, unless its client is gone.
Opened ==
  \A w \in Stream :
    /\ pc[w] \in Ungreeted => sent[w] = <<>>
    /\ pc[w] \notin Ungreeted \cup {"returned"} => Greeted(w) \/ w \in gone
    /\ sent[w] # <<>> => Greeted(w) \/ w \in gone

\* A POST works on the session it named.
Named ==
  \A p \in Post : pc[p] \in {"read", "deliver", "write", "reply"} =>
    sess[p] = query[p] /\ query[p] \in Sid

\* No two streams have the same session.
Distinct ==
  /\ \A w \in Stream : sess[w] \in used \cup {None}
  /\ \A w \in Stream : pc[w] \in {"greet", "opened"} => sess[w] # None
  /\ \A v, w \in Stream : v # w /\ sess[v] # None => sess[v] # sess[w]

\* A response is on the stream of the session its POST named.
Delivered ==
  \A p \in Post, w \in Stream : Has(sent[w], p) =>
    /\ pc[p] \in {"write", "reply", "returned"}
    /\ sess[w] = query[p] /\ query[p] \in Sid

Feeds == Opened /\ Named /\ Distinct /\ Delivered

\* A stream is open from addWriter to cleanup.
Open(w) == pc[w] \in {"streaming", "cleanup"}

\* An open stream is registered until it is closed.
OpenRegistered ==
  \A w \in Stream : Open(w) =>
    sess[w] \in Sid /\ (closed[w] \/ w \in writers[sess[w]])

\* The loop of writeSSE has every registered writer ahead of it, in its hands
\* or in its new list, but for the closed ones; the new list has the event.
LoopKeeps ==
  \A p \in Writer : pc[p] = "write" =>
    /\ \A w \in writers[sess[p]] : closed[w] \/ w \in left[p] \cup kept[p] \/ out[p] = w
    /\ \A w \in kept[p] : Has(sent[w], p)

\* The session of w is still ahead of p.
Ahead(p, w) ==
  \/ p \in Sender /\ pc[p] \in {"range", "write"} /\ sess[w] \in todo[p]
  \/ pc[p] \in {"deliver", "write"} /\ sess[w] = sess[p]

\* A stream that p owes its event has it or will.
Owed ==
  \A p \in Writer :
    /\ pc[p] \in {"idle", "lookup", "read", "send"} => due[p] = {}
    /\ \A w \in due[p] : closed[w] \/ Has(sent[w], p) \/ (Open(w) /\ Ahead(p, w))

Reaching == OpenRegistered /\ LoopKeeps /\ Owed

IInv == TypeOK /\ Locking /\ Feeds /\ Reaching

-----------------------------------------------------------------------------
(* Types.                                                                  *)

\* The kinds of goroutines share no goroutine.
LEMMA Kinds ==
  /\ Post \subseteq Proc /\ Stream \subseteq Proc /\ Sender \subseteq Proc
  /\ Writer \subseteq Proc
  /\ \A p \in Post : p \notin Stream /\ p \notin Sender /\ p \in Writer
  /\ \A g \in Stream : g \notin Sender /\ g \notin Writer
  /\ \A p \in Sender : p \in Writer
BY SseAssumption DEF Writer

\* The transport starts with every variable of its type.
LEMMA InitType == Init => TypeOK
<1> SUFFICES ASSUME Init PROVE TypeOK
  OBVIOUS
<1>1. \A p \in Proc : pc[p] = "idle"
  BY DEF Init, NewSessionManager
<1>2. pc \in [Proc -> PostAt \cup GetAt \cup SendAt]
  BY DEF Init, NewSessionManager, PostAt
<1>3. /\ \A p \in Post : pc[p] \in PostAt
      /\ \A g \in Stream : pc[g] \in GetAt
      /\ \A p \in Sender : pc[p] \in SendAt
  BY <1>1, Kinds DEF PostAt, GetAt, SendAt
<1>4. ctxDone \in BOOLEAN /\ closed \in [Stream -> BOOLEAN]
  BY DEF Init, NewSessionManager
<1>5. sent \in [Stream -> Seq(Proc)] /\ hist \in [Sid -> Seq(Proc)]
  BY DEF Init, NewSessionManager
<1> QED
  BY <1>2, <1>3, <1>4, <1>5 DEF Init, NewSessionManager, TypeOK, Status

\* A goroutine moves on; what else it changes has its type.
LEMMA MoveType ==
  ASSUME TypeOK, NEW p \in Proc, NEW to,
         pc' = [pc EXCEPT ![p] = to],
         \/ p \in Post /\ to \in PostAt
         \/ p \in Stream /\ to \in GetAt
         \/ p \in Sender /\ to \in SendAt
  PROVE  /\ pc' \in [Proc -> PostAt \cup GetAt \cup SendAt]
         /\ \A q \in Post : pc'[q] \in PostAt
         /\ \A g \in Stream : pc'[g] \in GetAt
         /\ \A q \in Sender : pc'[q] \in SendAt
BY Kinds DEF TypeOK

\* A handler that returns leaves every variable of its type.
LEMMA RefuseType ==
  ASSUME TypeOK, NEW p \in Proc, NEW from, NEW code \in Status, Refuse(p, from, code)
  PROVE  TypeOK'
<1>1. pc' = [pc EXCEPT ![p] = "returned"]
  BY DEF Refuse, Goto
<1>2. p \in Post \/ p \in Stream \/ p \in Sender
  BY SseAssumption
<1>3. "returned" \in PostAt \cap GetAt \cap SendAt
  BY DEF PostAt, GetAt, SendAt
<1> QED
  BY <1>1, <1>2, <1>3, MoveType DEF TypeOK, Refuse, mapVars, sessVars, writeVars

\* The codes of the handlers.
LEMMA Codes == {"200", "202", "400", "401", "404", "500"} \subseteq Status
BY DEF Status

\* Requests arrive.
LEMMA ArrivesType == TypeOK /\ Arrives => TypeOK'
<1> SUFFICES ASSUME TypeOK, Arrives PROVE TypeOK'
  OBVIOUS
<1> USE Kinds
<1>1. CASE \E p \in Proc : \E code \in Status : Refuse(p, "idle", code)
  BY <1>1, RefuseType
<1>2. ASSUME NEW p \in Post, NEW id \in Presentable,
             Goto(p, "idle", "lookup"), query' = [query EXCEPT ![p] = id],
             UNCHANGED <<sess, todo, due, status, gone, ctxDone, mapVars, sessVars, writeVars>>
      PROVE  TypeOK'
  <2>1. pc' = [pc EXCEPT ![p] = "lookup"] /\ "lookup" \in PostAt
    BY <1>2 DEF Goto, PostAt
  <2>2. id \in Sid \cup {Stale, None}
    BY DEF Presentable, TypeOK
  <2> QED
    BY <1>2, <2>1, <2>2, MoveType DEF TypeOK, mapVars, sessVars, writeVars
<1>3. ASSUME NEW g \in Stream, Goto(g, "idle", "create"),
             UNCHANGED <<sess, todo, due, mapVars, sessVars, writeVars, httpVars>>
      PROVE  TypeOK'
  <2>1. pc' = [pc EXCEPT ![g] = "create"] /\ "create" \in GetAt
    BY <1>3 DEF Goto, GetAt
  <2> QED
    BY <1>3, <2>1, MoveType DEF TypeOK, mapVars, sessVars, writeVars, httpVars
<1>4. ASSUME NEW p \in Sender, SendCalled(p) PROVE TypeOK'
  <2>1. pc' = [pc EXCEPT ![p] = "send"] /\ "send" \in SendAt
    BY <1>4 DEF SendCalled, Goto, SendAt
  <2> QED
    BY <1>4, <2>1, MoveType DEF TypeOK, SendCalled, mapVars, sessVars, writeVars, httpVars
<1> QED
  BY <1>1, <1>2, <1>3, <1>4, Codes DEF Arrives, PostArrives, GetArrives

\* The steps of an event stream.
LEMMA GetType == ASSUME NEW g \in Stream PROVE TypeOK /\ GetStep(g) => TypeOK'
<1> SUFFICES ASSUME TypeOK, GetStep(g) PROVE TypeOK'
  OBVIOUS
<1> USE Kinds
<1>1. GetAt = {"idle", "create", "insert", "greet", "opened", "streaming", "cleanup",
               "returned"}
  BY DEF GetAt
<1>2. CASE GetCreate(g)
  BY <1>1, <1>2, MoveType
  DEF TypeOK, GetCreate, MapLock, Goto, sessVars, writeVars, httpVars
<1>3. CASE GetInsert(g)
  BY <1>1, <1>3, MoveType
  DEF TypeOK, GetInsert, CreateInsert, FreshIds, Goto, sessVars, writeVars, httpVars
<1>4. CASE GetGreet(g)
  <2>1. sent' = [sent EXCEPT ![g] = Append(@, g)] \/ sent' = sent
    BY <1>4 DEF GetGreet, Greet
  <2>2. sent' \in [Stream -> Seq(Proc)]
    <3>1. sent \in [Stream -> Seq(Proc)] /\ Append(sent[g], g) \in Seq(Proc)
      BY DEF TypeOK
    <3> QED  BY <2>1, <3>1
  <2> QED
    BY <1>1, <1>4, <2>2, MoveType, Codes
    DEF TypeOK, GetGreet, Greet, Goto, mapVars, sessVars
<1>5. CASE GetAddWriter(g)
  <2>1. writers' = [writers EXCEPT ![sess[g]] = @ \cup {g}]
    BY <1>5 DEF GetAddWriter, AddWriter
  <2>2. writers' \in [Sid -> SUBSET Stream]
    <3> SUFFICES ASSUME NEW s \in Sid PROVE writers'[s] \subseteq Stream
      BY <2>1 DEF TypeOK
    <3> QED  BY <2>1 DEF TypeOK
  <2> QED
    BY <1>1, <1>5, <2>2, MoveType
    DEF TypeOK, GetAddWriter, AddWriter, Goto, mapVars, writeVars, httpVars
<1>6. CASE GetWake(g)
  BY <1>1, <1>6, MoveType
  DEF TypeOK, GetWake, Goto, mapVars, sessVars, writeVars, httpVars
<1>7. CASE GetCleanup(g)
  BY <1>1, <1>7, MoveType
  DEF TypeOK, GetCleanup, Cleanup, Goto, mapVars, writeVars, httpVars
<1> QED  BY <1>2, <1>3, <1>4, <1>5, <1>6, <1>7 DEF GetStep

\* writeSSE begins.
LEMMA LockType ==
  ASSUME TypeOK, NEW p \in Writer, NEW s \in Sid, NEW from, WriteLock(p, s, from),
         UNCHANGED httpVars
  PROVE  TypeOK'
<1>1. hist' \in [Sid -> Seq(Proc)]
  BY Kinds DEF TypeOK, WriteLock
<1>2. pc' = [pc EXCEPT ![p] = "write"] /\ "write" \in PostAt \cap SendAt
  BY DEF WriteLock, Goto, PostAt, SendAt
<1>3. p \in Post \/ p \in Sender
  BY DEF Writer
<1> QED
  BY <1>1, <1>2, <1>3, Kinds, MoveType DEF TypeOK, WriteLock, mapVars, httpVars

\* The loop of writeSSE.
LEMMA LoopType ==
  ASSUME TypeOK, NEW p \in Writer, Writing(p), UNCHANGED httpVars
  PROVE  TypeOK'
<1> USE Kinds
<1>1. CASE WriteNext(p)
  BY <1>1 DEF TypeOK, WriteNext, mapVars, sessVars, httpVars
<1>2. CASE WriteOk(p)
  <2>1. sent' \in [Stream -> Seq(Proc)]
    BY <1>2 DEF TypeOK, WriteOk
  <2> QED
    BY <1>2, <2>1 DEF TypeOK, WriteOk, mapVars, sessVars, httpVars
<1>3. CASE WriteFail(p, gone)
  BY <1>3 DEF TypeOK, WriteFail, mapVars, httpVars
<1> QED  BY <1>1, <1>2, <1>3 DEF Writing

\* writeSSE ends and its caller goes on.
Unlocks(p) ==
  \/ p \in Post /\ WriteUnlock(p, "reply")
  \/ p \in Sender /\ WriteUnlock(p, "range")

\* The end of writeSSE.
LEMMA UnlockType ==
  ASSUME TypeOK, NEW p \in Writer, Unlocks(p), UNCHANGED httpVars
  PROVE  TypeOK'
<1>1. PICK to \in {"reply", "range"} :
        /\ WriteUnlock(p, to)
        /\ \/ p \in Post /\ to = "reply"
           \/ p \in Sender /\ to = "range"
  BY DEF Unlocks
<1>2. pc' = [pc EXCEPT ![p] = to] /\ "reply" \in PostAt /\ "range" \in SendAt
  BY <1>1 DEF WriteUnlock, Goto, PostAt, SendAt
<1> QED
  BY <1>1, <1>2, Kinds, MoveType
  DEF TypeOK, WriteUnlock, Filtered, mapVars, writeVars, httpVars

\* The steps of a POST.
LEMMA PostType ==
  ASSUME NEW p \in Post
  PROVE  TypeOK /\ PostStep(p) /\ (pc[p] = "deliver" => sess[p] \in Sid) => TypeOK'
<1> SUFFICES ASSUME TypeOK, PostStep(p), pc[p] = "deliver" => sess[p] \in Sid
             PROVE  TypeOK'
  OBVIOUS
<1> USE Kinds
<1>1. PostAt = {"idle", "lookup", "read", "deliver", "write", "reply", "returned"}
  BY DEF PostAt
<1>2. CASE PostLookup(p)
  <2>1. query[p] \in Sid
    BY <1>2 DEF PostLookup, GetSession, TypeOK
  <2> QED
    BY <1>1, <1>2, <2>1, MoveType
    DEF TypeOK, PostLookup, Goto, mapVars, sessVars, writeVars, httpVars
<1>3. CASE PostUnknown(p) \/ PostBadBody(p) \/ PostReply(p)
  BY <1>3, RefuseType, Codes DEF PostUnknown, PostBadBody, PostReply
<1>4. CASE PostHandle(p)
  <2>1. /\ \E to \in {"deliver", "reply"} : pc' = [pc EXCEPT ![p] = to]
        /\ due' = [due EXCEPT ![p] = ActiveStreams({sess[p]})] \/ due' = due
        /\ UNCHANGED <<sess, todo, mapVars, sessVars, writeVars, httpVars>>
    BY <1>4 DEF PostHandle, Goto
  <2>2. ActiveStreams({sess[p]}) \subseteq Stream
    BY DEF ActiveStreams
  <2>3. due' \in [Proc -> SUBSET Stream]
    <3>1. due \in [Proc -> SUBSET Stream]
      BY DEF TypeOK
    <3> QED  BY <2>1, <2>2, <3>1
  <2> QED
    BY <1>1, <2>1, <2>3, MoveType DEF TypeOK, mapVars, sessVars, writeVars, httpVars
<1>5. CASE PostDeliver(p)
  BY <1>5, LockType DEF PostDeliver, WriteLock, Goto
<1>6. CASE PostWrite(p)
  <2>1. p \in Writer /\ UNCHANGED httpVars
    BY <1>6 DEF PostWrite
  <2>2. CASE Writing(p)
    BY <2>1, <2>2, LoopType
  <2>3. CASE WriteUnlock(p, "reply")
    BY <2>1, <2>3, UnlockType DEF Unlocks
  <2> QED  BY <1>6, <2>2, <2>3 DEF PostWrite
<1> QED  BY <1>2, <1>3, <1>4, <1>5, <1>6 DEF PostStep

\* The steps of a Send.
LEMMA SendType == ASSUME NEW p \in Sender PROVE TypeOK /\ SendStep(p) => TypeOK'
<1> SUFFICES ASSUME TypeOK, SendStep(p) PROVE TypeOK'
  OBVIOUS
<1> USE Kinds
<1>1. SendAt = {"idle", "send", "range", "write", "returned"}
  BY DEF SendAt
<1>2. CASE BroadcastBegin(p, "send")
  BY <1>1, <1>2, MoveType
  DEF TypeOK, SendStep, BroadcastBegin, RLocked, ActiveStreams, Goto, sessVars,
      writeVars, httpVars
<1>3. CASE BroadcastSession(p)
  BY <1>3, LockType DEF BroadcastSession, SendStep, TypeOK
<1>4. CASE Writing(p)
  BY <1>4, LoopType DEF SendStep
<1>5. CASE WriteUnlock(p, "range")
  BY <1>5, UnlockType DEF SendStep, Unlocks
<1>6. CASE BroadcastEnd(p, "returned")
  BY <1>1, <1>6, MoveType
  DEF TypeOK, SendStep, BroadcastEnd, Goto, sessVars, writeVars, httpVars
<1> QED  BY <1>2, <1>3, <1>4, <1>5, <1>6 DEF SendStep

\* Neither clients that leave nor the cancellation change a type.
LEMMA OutsideType ==
  TypeOK /\ (Cancel \/ (\E g \in Stream : Disconnect(g)) \/ UNCHANGED vars) => TypeOK'
<1> SUFFICES ASSUME TypeOK,
                    Cancel \/ (\E g \in Stream : Disconnect(g)) \/ UNCHANGED vars
             PROVE  TypeOK'
  OBVIOUS
<1>1. ASSUME NEW g \in Stream, Disconnect(g) PROVE TypeOK'
  BY <1>1 DEF TypeOK, Disconnect, mapVars, sessVars, writeVars
<1>2. CASE Cancel
  BY <1>2 DEF TypeOK, Cancel, mapVars, sessVars, writeVars
<1>3. CASE UNCHANGED vars
  BY <1>3 DEF TypeOK, vars, mapVars, sessVars, writeVars, httpVars
<1> QED  BY <1>1, <1>2, <1>3

-----------------------------------------------------------------------------
(* What the steps outside of writeSSE do, as all three parts of the        *)
(* invariant need to know it.                                              *)

\* A request arrives: one idle goroutine starts.
LEMMA ArrivesEffect ==
  IInv /\ Arrives =>
    /\ UNCHANGED <<sess, todo, due, gone, mapVars, sessVars, writeVars>>
    /\ \A q \in Proc : \/ pc'[q] = pc[q] /\ (q \in Post => query'[q] = query[q])
                       \/ /\ pc[q] = "idle"
                          /\ q \in Post => \/ pc'[q] = "lookup"
                                           \/ pc'[q] = "returned" /\ query'[q] = query[q]
                          /\ q \in Stream => pc'[q] \in {"create", "returned"}
                          /\ q \in Sender => pc'[q] = "send"
<1> SUFFICES ASSUME IInv, Arrives
             PROVE  /\ UNCHANGED <<sess, todo, due, gone, mapVars, sessVars, writeVars>>
                    /\ \A q \in Proc :
                         \/ pc'[q] = pc[q] /\ (q \in Post => query'[q] = query[q])
                         \/ /\ pc[q] = "idle"
                            /\ q \in Post => \/ pc'[q] = "lookup"
                                             \/ /\ pc'[q] = "returned"
                                                /\ query'[q] = query[q]
                            /\ q \in Stream => pc'[q] \in {"create", "returned"}
                            /\ q \in Sender => pc'[q] = "send"
  OBVIOUS
<1> USE Kinds
<1>1. CASE \E p \in Post \cup Stream : \E code : Refuse(p, "idle", code)
  BY <1>1 DEF Refuse, Goto, IInv, TypeOK
<1>2. CASE \E p \in Post : PostArrives(p) /\ ~\E code : Refuse(p, "idle", code)
  BY <1>2 DEF PostArrives, Goto, IInv, TypeOK
<1>3. CASE \E g \in Stream : GetArrives(g) /\ ~\E code : Refuse(g, "idle", code)
  BY <1>3 DEF GetArrives, Goto, IInv, TypeOK, httpVars
<1>4. CASE \E p \in Sender : SendCalled(p)
  BY <1>4 DEF SendCalled, Goto, IInv, TypeOK, httpVars
<1> QED  BY <1>1, <1>2, <1>3, <1>4 DEF Arrives

\* The steps of a POST outside of writeSSE but for the lookup and the message
\* handler: the POST is answered.
PostAnswers(p) == PostUnknown(p) \/ PostBadBody(p) \/ PostReply(p)

\* A POST that is answered leaves the session manager alone.
LEMMA AnswersEffect ==
  ASSUME NEW p \in Post, IInv, PostAnswers(p)
  PROVE  /\ UNCHANGED <<sess, todo, due, query, gone, mapVars, sessVars, writeVars>>
         /\ \A q \in Proc : q # p => pc'[q] = pc[q]
         /\ pc[p] \in {"lookup", "read", "reply"} /\ pc'[p] = "returned"
<1> USE Kinds
<1>1. CASE PostUnknown(p)
  BY <1>1 DEF PostUnknown, Refuse, Goto, IInv, TypeOK
<1>2. CASE PostBadBody(p)
  BY <1>2 DEF PostBadBody, Refuse, Goto, IInv, TypeOK
<1>3. CASE PostReply(p)
  BY <1>3 DEF PostReply, Refuse, Goto, IInv, TypeOK
<1> QED  BY <1>1, <1>2, <1>3 DEF PostAnswers

\* The lookup finds the session.
LEMMA LookupEffect ==
  ASSUME NEW p \in Post, IInv, PostLookup(p)
  PROVE  /\ UNCHANGED <<todo, due, query, gone, mapVars, sessVars, writeVars>>
         /\ \A q \in Proc : q # p => pc'[q] = pc[q] /\ sess'[q] = sess[q]
         /\ pc[p] = "lookup" /\ pc'[p] = "read"
         /\ sess'[p] = query[p] /\ query[p] \in Sid
BY Kinds DEF PostLookup, GetSession, Goto, IInv, TypeOK, httpVars

\* The message handler has run.
LEMMA HandleEffect ==
  ASSUME NEW p \in Post, IInv, PostHandle(p)
  PROVE  /\ UNCHANGED <<sess, todo, query, gone, mapVars, sessVars, writeVars>>
         /\ \A q \in Proc : q # p => pc'[q] = pc[q] /\ due'[q] = due[q]
         /\ pc[p] = "read"
         /\ \/ pc'[p] = "deliver" /\ due'[p] = ActiveStreams({sess[p]})
            \/ pc'[p] = "reply" /\ due'[p] = due[p]
<1> USE Kinds
<1>1. /\ pc[p] = "read"
      /\ \/ /\ pc' = [pc EXCEPT ![p] = "deliver"]
            /\ due' = [due EXCEPT ![p] = ActiveStreams({sess[p]})]
         \/ pc' = [pc EXCEPT ![p] = "reply"] /\ due' = due
      /\ UNCHANGED <<sess, todo, query, gone, mapVars, sessVars, writeVars>>
  BY DEF PostHandle, Goto, httpVars
<1> QED  BY <1>1 DEF IInv, TypeOK

\* The steps of a GET outside of addWriter, cleanup and the endpoint event.
GetMoves(g) == GetCreate(g) \/ GetInsert(g) \/ GetWake(g)

\* A GET that moves on; the id it inserts is new.
LEMMA MovesEffect ==
  ASSUME NEW g \in Stream, IInv, GetMoves(g)
  PROVE  /\ UNCHANGED <<readers, todo, due, query, gone, sessVars, writeVars>>
         /\ \A q \in Proc : q # g => pc'[q] = pc[q] /\ sess'[q] = sess[q]
         /\ \/ pc[g] = "create" /\ pc'[g] = "insert" /\ UNCHANGED <<sess, used>>
            \/ /\ pc[g] = "insert" /\ pc'[g] = "greet"
               /\ \E s \in Sid \ used : sess'[g] = s /\ used' = used \cup {s}
            \/ pc[g] = "streaming" /\ pc'[g] = "cleanup" /\ UNCHANGED <<sess, used>>
<1> USE Kinds
<1>1. CASE GetCreate(g)
  BY <1>1 DEF GetCreate, MapLock, Goto, IInv, TypeOK, httpVars
<1>2. CASE GetInsert(g)
  BY <1>2 DEF GetInsert, CreateInsert, FreshIds, Goto, IInv, TypeOK, httpVars
<1>3. CASE GetWake(g)
  BY <1>3 DEF GetWake, Goto, IInv, TypeOK, mapVars, httpVars
<1> QED  BY <1>1, <1>2, <1>3 DEF GetMoves

\* The endpoint event is written, or the client is gone.
LEMMA GreetEffect ==
  ASSUME NEW g \in Stream, IInv, GetGreet(g)
  PROVE  /\ UNCHANGED <<sess, todo, due, left, kept, out, query, gone, mapVars, sessVars>>
         /\ \A q \in Proc : q # g => pc'[q] = pc[q]
         /\ pc[g] = "greet" /\ pc'[g] = "opened"
         /\ \/ sent' = [sent EXCEPT ![g] = Append(@, g)]
            \/ g \in gone /\ sent' = sent
BY Kinds DEF GetGreet, Greet, Goto, IInv, TypeOK

\* addWriter waits for s.mu and registers the stream on its session.
LEMMA AddEffect ==
  ASSUME NEW g \in Stream, IInv, GetAddWriter(g)
  PROVE  /\ UNCHANGED <<sess, todo, due, mu, closed, query, gone, mapVars, writeVars>>
         /\ \A q \in Proc : q # g => pc'[q] = pc[q]
         /\ pc[g] = "opened" /\ pc'[g] = "streaming"
         /\ SessionLockFree(sess[g])
         /\ \A s \in Sid : writers'[s] = IF s = sess[g] THEN writers[s] \cup {g}
                                                        ELSE writers[s]
<1>1. /\ pc[g] = "opened" /\ pc' = [pc EXCEPT ![g] = "streaming"]
      /\ SessionLockFree(sess[g])
      /\ writers' = [writers EXCEPT ![sess[g]] = @ \cup {g}]
      /\ UNCHANGED <<sess, todo, due, mu, closed, query, gone, mapVars, writeVars>>
  BY DEF GetAddWriter, AddWriter, AddReady, Goto, httpVars
<1> QED  BY <1>1, Kinds DEF IInv, TypeOK

\* cleanup waits for s.mu and closes the writer.
LEMMA CleanupEffect ==
  ASSUME NEW g \in Stream, IInv, GetCleanup(g)
  PROVE  /\ UNCHANGED <<sess, todo, due, writers, mu, query, gone, mapVars, writeVars>>
         /\ \A q \in Proc : q # g => pc'[q] = pc[q]
         /\ pc[g] = "cleanup" /\ pc'[g] = "returned"
         /\ SessionLockFree(sess[g])
         /\ closed' = [closed EXCEPT ![g] = TRUE]
         /\ \A w \in Stream : closed'[w] = (w = g \/ closed[w])
<1>1. /\ UNCHANGED <<sess, todo, due, writers, mu, query, gone, mapVars, writeVars>>
      /\ \A q \in Proc : q # g => pc'[q] = pc[q]
      /\ pc[g] = "cleanup" /\ pc'[g] = "returned"
      /\ SessionLockFree(sess[g])
      /\ closed' = [closed EXCEPT ![g] = TRUE]
  BY Kinds DEF GetCleanup, Cleanup, CleanupReady, Goto, IInv, TypeOK, httpVars
<1>2. closed \in [Stream -> BOOLEAN]
  BY DEF IInv, TypeOK
<1>3. ASSUME NEW w \in Stream PROVE closed'[w] = (w = g \/ closed[w])
  <2>1. CASE w = g
    BY <1>1, <1>2, <2>1
  <2>2. CASE w # g
    BY <1>1, <1>2, <2>2
  <2> QED  BY <2>1, <2>2
<1> QED  BY <1>1, <1>3

\* Broadcast takes and releases the read lock.
LEMMA BroadcastEffect ==
  ASSUME NEW p \in Sender, IInv, UNCHANGED httpVars,
         BroadcastBegin(p, "send") \/ BroadcastEnd(p, "returned")
  PROVE  /\ UNCHANGED <<sess, sessions, used, query, gone, sessVars, writeVars>>
         /\ \A q \in Proc : q # p => pc'[q] = pc[q] /\ todo'[q] = todo[q] /\ due'[q] = due[q]
         /\ \/ /\ pc[p] = "send" /\ pc'[p] = "range"
               /\ todo'[p] = sessions /\ due'[p] = ActiveStreams(sessions)
            \/ /\ pc[p] = "range" /\ pc'[p] = "returned" /\ todo[p] = {}
               /\ todo'[p] = todo[p] /\ due'[p] = due[p]
<1> USE Kinds
<1>1. CASE BroadcastBegin(p, "send")
  BY <1>1 DEF BroadcastBegin, Goto, IInv, TypeOK, httpVars
<1>2. CASE BroadcastEnd(p, "returned")
  BY <1>2 DEF BroadcastEnd, Goto, IInv, TypeOK, httpVars
<1> QED  BY <1>1, <1>2

\* writeSSE begins: for a response on the session of its POST, for a broadcast
\* on a session of the map.
Locks(p) ==
  \/ p \in Post /\ PostDeliver(p)
  \/ p \in Sender /\ BroadcastSession(p) /\ UNCHANGED httpVars

\* The loop starts on a session whose mutex was free.
LEMMA LocksEffect ==
  ASSUME NEW p \in Writer, IInv, Locks(p)
  PROVE  \E s \in Sid :
           /\ \/ p \in Post /\ pc[p] = "deliver" /\ s = sess[p]
              \/ p \in Sender /\ pc[p] = "range" /\ s \in todo[p]
           /\ pc' = [pc EXCEPT ![p] = "write"]
           /\ mu[s] = None /\ mu' = [mu EXCEPT ![s] = p]
           /\ sess' = [sess EXCEPT ![p] = s]
           /\ left' = [left EXCEPT ![p] = writers[s]]
           /\ kept' = [kept EXCEPT ![p] = {}]
           /\ todo' = [todo EXCEPT ![p] = @ \ {s}]
           /\ hist' = [hist EXCEPT ![s] = Append(@, p)]
           /\ UNCHANGED <<due, writers, closed, out, sent, mapVars, httpVars>>
<1>1. CASE p \in Post /\ PostDeliver(p)
  <2>1. sess[p] \in Sid
    BY <1>1 DEF PostDeliver, WriteLock, Goto, IInv, Feeds, Named
  <2> QED
    BY <1>1, <2>1 DEF PostDeliver, WriteLock, SessionLockFree, Goto
<1>2. CASE p \in Sender /\ BroadcastSession(p) /\ UNCHANGED httpVars
  <2>1. PICK s \in todo[p] : WriteLock(p, s, "range")
    BY <1>2 DEF BroadcastSession
  <2>2. s \in Sid
    BY Kinds DEF IInv, TypeOK
  <2> QED
    BY <1>2, <2>1, <2>2 DEF WriteLock, SessionLockFree, Goto
<1> QED  BY <1>1, <1>2 DEF Locks

\* writeSSE ends: the list it built replaces the old one.
LEMMA UnlocksEffect ==
  ASSUME NEW p \in Writer, IInv, Unlocks(p), UNCHANGED httpVars
  PROVE  \E s \in Sid :
           /\ pc[p] = "write" /\ s = sess[p]
           /\ mu[s] = p /\ kept[p] \subseteq writers[s]
           /\ left[p] = {} /\ out[p] = None
           /\ \/ p \in Post /\ pc'[p] = "reply"
              \/ p \in Sender /\ pc'[p] = "range"
           /\ \A q \in Proc : q # p => pc'[q] = pc[q]
           /\ \A t \in Sid : /\ writers'[t] = IF t = s THEN kept[p] ELSE writers[t]
                             /\ mu'[t] = IF t = s THEN None ELSE mu[t]
           /\ UNCHANGED <<sess, todo, due, closed, mapVars, writeVars>>
<1>1. PICK to \in {"reply", "range"} :
        /\ WriteUnlock(p, to)
        /\ \/ p \in Post /\ to = "reply"
           \/ p \in Sender /\ to = "range"
  BY DEF Unlocks
<1>2. /\ pc[p] = "write" /\ pc' = [pc EXCEPT ![p] = to]
      /\ left[p] = {} /\ out[p] = None
      /\ writers' = [writers EXCEPT ![sess[p]] = kept[p]]
      /\ mu' = [mu EXCEPT ![sess[p]] = None]
      /\ UNCHANGED <<sess, todo, due, closed, mapVars, writeVars>>
  BY <1>1 DEF WriteUnlock, Filtered, Goto
<1>3. sess[p] \in Sid /\ mu[sess[p]] = p /\ kept[p] \subseteq writers[sess[p]]
  BY <1>2 DEF IInv, Locking, LockOwner, InLoop
<1>4. \A t \in Sid : /\ writers'[t] = IF t = sess[p] THEN kept[p] ELSE writers[t]
                     /\ mu'[t] = IF t = sess[p] THEN None ELSE mu[t]
  BY <1>2, <1>3 DEF IInv, TypeOK
<1>5. pc'[p] = to /\ \A q \in Proc : q # p => pc'[q] = pc[q]
  BY <1>2, Kinds DEF IInv, TypeOK
<1> QED  BY <1>1, <1>2, <1>3, <1>4, <1>5

-----------------------------------------------------------------------------
(* Locking: s.mu, the list of writers and the loop of writeSSE.            *)

\* Nothing is locked or registered before the first request.
LEMMA InitLocking == Init => Locking
<1> SUFFICES ASSUME Init PROVE Locking
  OBVIOUS
<1>1. /\ \A s \in Sid : mu[s] = None /\ writers[s] = {}
      /\ \A p \in Proc : pc[p] = "idle" /\ out[p] = None
  BY DEF Init, NewSessionManager
<1> QED
  BY <1>1, Kinds, SessionsAssumption DEF Locking, LockOwner, InLoop, Registered

\* A step outside of writeSSE, addWriter and cleanup.
LEMMA CalmLocking ==
  ASSUME TypeOK, Locking,
         UNCHANGED <<mu, writers, closed, left, kept, out>>,
         \A p \in Writer : \/ pc'[p] = pc[p] /\ sess'[p] = sess[p]
                           \/ "write" \notin {pc[p], pc'[p]},
         \A w \in Stream : \/ sess'[w] = sess[w] /\ pc'[w] \in {pc[w], "cleanup"}
                           \/ pc[w] \notin {"streaming", "cleanup", "returned"}
  PROVE  Locking'
<1>1. LockOwner'
  BY SessionsAssumption DEF Locking, LockOwner
<1>2. InLoop'
  BY DEF Locking, InLoop
<1>3. Registered'
  BY DEF Locking, Registered, TypeOK
<1> QED  BY <1>1, <1>2, <1>3 DEF Locking

\* Nobody is writing to a session whose mutex is free, nor to its streams.
LEMMA NobodyWrites ==
  ASSUME TypeOK, Locking, NEW s \in Sid, SessionLockFree(s), NEW p \in Writer
  PROVE  /\ ~(pc[p] = "write" /\ sess[p] = s)
         /\ out[p] = None \/ sess[out[p]] # s
<1>1. mu[s] # p
  BY SessionsAssumption, Kinds DEF SessionLockFree
<1>2. ~(pc[p] = "write" /\ sess[p] = s)
  BY <1>1 DEF Locking, LockOwner
<1> QED  BY <1>2 DEF Locking, InLoop, Registered, TypeOK

\* The writers two goroutines are writing to are different.
LEMMA DistinctOut ==
  ASSUME TypeOK, Locking, NEW p \in Writer, NEW q \in Writer, p # q, out[p] # None
  PROVE  out[q] # out[p]
<1>1. pc[p] = "write" /\ sess[p] \in Sid /\ mu[sess[p]] = p
  BY DEF Locking, LockOwner, InLoop
<1>2. pc[q] = "write" => sess[q] # sess[p]
  BY <1>1 DEF Locking, LockOwner
<1>3. out[p] \in Stream /\ sess[out[p]] = sess[p]
  BY <1>1 DEF Locking, InLoop, Registered, TypeOK
<1>4. out[q] # None => sess[out[q]] = sess[q] /\ pc[q] = "write"
  BY DEF Locking, InLoop, Registered, TypeOK
<1> QED  BY <1>2, <1>3, <1>4

\* The steps that do not touch the locks of the sessions.
LEMMA QuietLocking ==
  ASSUME IInv,
         \/ Arrives
         \/ \E p \in Post : PostLookup(p) \/ PostHandle(p) \/ PostAnswers(p)
         \/ \E g \in Stream : GetMoves(g) \/ GetGreet(g) \/ Disconnect(g)
         \/ Cancel
  PROVE  Locking'
<1> USE Kinds
<1>1. CASE Arrives
  <2>1. "idle" \notin {"streaming", "cleanup", "returned", "write"}
    OBVIOUS
  <2>2. \A p \in Writer : \/ pc'[p] = pc[p] /\ sess'[p] = sess[p]
                          \/ "write" \notin {pc[p], pc'[p]}
    BY <1>1, ArrivesEffect DEF Writer
  <2>3. \A w \in Stream : \/ sess'[w] = sess[w] /\ pc'[w] \in {pc[w], "cleanup"}
                          \/ pc[w] \notin {"streaming", "cleanup", "returned"}
    BY <1>1, ArrivesEffect
  <2> QED
    BY <1>1, <2>2, <2>3, ArrivesEffect, CalmLocking DEF IInv, sessVars, writeVars
<1>2. ASSUME NEW p \in Post, PostLookup(p) PROVE Locking'
  BY <1>2, LookupEffect, CalmLocking DEF IInv, sessVars, writeVars
<1>3. ASSUME NEW p \in Post, PostHandle(p) PROVE Locking'
  BY <1>3, HandleEffect, CalmLocking DEF IInv, sessVars, writeVars
<1>4. ASSUME NEW p \in Post, PostAnswers(p) PROVE Locking'
  BY <1>4, AnswersEffect, CalmLocking DEF IInv, sessVars, writeVars
<1>5. ASSUME NEW g \in Stream, GetMoves(g) PROVE Locking'
  BY <1>5, MovesEffect, CalmLocking DEF IInv, sessVars, writeVars
<1>6. ASSUME NEW g \in Stream, GetGreet(g) PROVE Locking'
  BY <1>6, GreetEffect, CalmLocking DEF IInv, sessVars
<1>7. ASSUME Cancel \/ \E g \in Stream : Disconnect(g) PROVE Locking'
  BY <1>7, CalmLocking DEF IInv, Cancel, Disconnect, sessVars, writeVars
<1> QED  BY <1>1, <1>2, <1>3, <1>4, <1>5, <1>6, <1>7

\* addWriter registers a stream under its own session.
LEMMA AddLocking == ASSUME NEW g \in Stream, IInv, GetAddWriter(g) PROVE Locking'
<1> USE Kinds
<1>1. /\ UNCHANGED <<sess, mu, closed, left, kept, out>>
      /\ \A q \in Proc : q # g => pc'[q] = pc[q]
      /\ pc'[g] = "streaming"
      /\ \A s \in Sid : writers'[s] = IF s = sess[g] THEN writers[s] \cup {g}
                                                     ELSE writers[s]
  BY AddEffect DEF writeVars
<1>2. /\ \A q \in Writer : pc'[q] = pc[q]
      /\ \A s \in Sid : writers[s] \subseteq writers'[s]
  BY <1>1
<1>3. LockOwner'
  BY <1>1, <1>2 DEF IInv, Locking, LockOwner
<1>4. InLoop'
  BY <1>1, <1>2 DEF IInv, Locking, InLoop
<1>5. ASSUME NEW s \in Sid, NEW w \in writers'[s]
      PROVE  /\ sess'[w] = s
             /\ pc'[w] \in {"streaming", "cleanup", "returned"}
             /\ pc'[w] = "returned" => closed'[w]
  <2>1. CASE w = g
    <3>1. g \in writers[s] => sess[g] = s
      BY DEF IInv, Locking, Registered
    <3> QED  BY <1>1, <2>1, <3>1
  <2>2. CASE w # g
    <3>1. w \in writers[s]
      <4>1. writers'[s] = writers[s] \cup {g} \/ writers'[s] = writers[s]
        BY <1>1
      <4> QED  BY <2>2, <4>1
    <3>2. writers[s] \subseteq Proc
      BY DEF IInv, TypeOK
    <3>3. pc'[w] = pc[w] /\ sess'[w] = sess[w] /\ closed'[w] = closed[w]
      BY <1>1, <2>2, <3>1, <3>2
    <3> QED  BY <3>1, <3>3 DEF IInv, Locking, Registered
  <2> QED  BY <2>1, <2>2
<1> QED  BY <1>3, <1>4, <1>5 DEF Locking, Registered

\* cleanup closes the stream before the handler returns, when nobody is
\* writing to it.
LEMMA CleanupLocking == ASSUME NEW g \in Stream, IInv, GetCleanup(g) PROVE Locking'
<1> USE Kinds
<1>1. /\ UNCHANGED <<sess, writers, mu, left, kept, out>>
      /\ \A q \in Proc : q # g => pc'[q] = pc[q]
      /\ pc'[g] = "returned"
      /\ SessionLockFree(sess[g])
      /\ closed' = [closed EXCEPT ![g] = TRUE]
  BY CleanupEffect DEF writeVars
<1>2. ASSUME NEW p \in Writer, out[p] = g PROVE FALSE
  <2>1. pc[p] = "write" /\ sess[p] \in Sid /\ sess[g] = sess[p]
    BY <1>2, SessionsAssumption DEF IInv, Locking, InLoop, Registered
  <2> QED  BY <1>1, <1>2, <2>1, NobodyWrites DEF IInv
<1>3. /\ \A q \in Writer : pc'[q] = pc[q]
      /\ \A w \in Stream : closed'[w] = (w = g \/ closed[w])
  BY <1>1 DEF IInv, TypeOK
<1>4. LockOwner'
  BY <1>1, <1>3 DEF IInv, Locking, LockOwner
<1>5. InLoop'
  BY <1>1, <1>2, <1>3 DEF IInv, TypeOK, Locking, InLoop
<1>6. Registered'
  BY <1>1, <1>3 DEF IInv, TypeOK, Locking, Registered
<1> QED  BY <1>4, <1>5, <1>6 DEF Locking

\* Broadcast takes and releases the read lock.
LEMMA BroadcastLocking ==
  ASSUME NEW p \in Sender, IInv, UNCHANGED httpVars,
         BroadcastBegin(p, "send") \/ BroadcastEnd(p, "returned")
  PROVE  Locking'
BY BroadcastEffect, Kinds, CalmLocking DEF IInv, sessVars, writeVars

\* writeSSE begins.
LEMMA LocksLocking == ASSUME NEW p \in Writer, IInv, Locks(p) PROVE Locking'
<1> USE Kinds
<1>1. PICK s \in Sid :
        /\ pc[p] # "write" /\ pc' = [pc EXCEPT ![p] = "write"]
        /\ mu[s] = None /\ mu' = [mu EXCEPT ![s] = p]
        /\ sess' = [sess EXCEPT ![p] = s]
        /\ left' = [left EXCEPT ![p] = writers[s]]
        /\ kept' = [kept EXCEPT ![p] = {}]
        /\ UNCHANGED <<writers, closed, out>>
  BY LocksEffect
<1>2. \A q \in Proc : q # p => /\ pc'[q] = pc[q] /\ sess'[q] = sess[q]
                               /\ left'[q] = left[q] /\ kept'[q] = kept[q]
  BY <1>1 DEF IInv, TypeOK
<1>3. /\ pc'[p] = "write" /\ sess'[p] = s
      /\ left'[p] = writers[s] /\ kept'[p] = {} /\ out[p] = None
  BY <1>1 DEF IInv, TypeOK, Locking, InLoop
<1>4. LockOwner'
  BY <1>1, <1>2, <1>3, SessionsAssumption DEF IInv, TypeOK, Locking, LockOwner
<1>5. InLoop'
  BY <1>1, <1>2, <1>3 DEF IInv, Locking, InLoop
<1>6. Registered'
  BY <1>1, <1>2 DEF IInv, TypeOK, Locking, Registered
<1> QED  BY <1>4, <1>5, <1>6 DEF Locking

\* The loop of writeSSE.
LEMMA LoopLocking == ASSUME NEW p \in Writer, IInv, Writing(p) PROVE Locking'
<1> USE Kinds
<1>1. CASE WriteNext(p)
  <2>1. PICK w \in left[p] :
          /\ left' = [left EXCEPT ![p] = @ \ {w}]
          /\ out' = IF IsActive(w) THEN [out EXCEPT ![p] = w] ELSE out
    BY <1>1 DEF WriteNext
  <2>2. pc[p] = "write" /\ UNCHANGED <<pc, sess, kept, sessVars>>
    BY <1>1 DEF WriteNext
  <2>3. w \in writers[sess[p]] /\ left'[p] \subseteq left[p]
    BY <2>1, <2>2 DEF IInv, TypeOK, Locking, InLoop
  <2>4. LockOwner' /\ Registered'
    BY <2>2 DEF IInv, Locking, LockOwner, Registered, sessVars
  <2>5. InLoop'
    BY <2>1, <2>2, <2>3 DEF IInv, TypeOK, Locking, InLoop, IsActive, sessVars
  <2> QED  BY <2>4, <2>5 DEF Locking
<1>2. CASE WriteOk(p)
  <2>1. /\ pc[p] = "write" /\ out[p] # None
        /\ kept' = [kept EXCEPT ![p] = @ \cup {out[p]}]
        /\ out' = [out EXCEPT ![p] = None]
        /\ UNCHANGED <<pc, sess, left, sessVars>>
    BY <1>2 DEF WriteOk
  <2>2. LockOwner' /\ Registered'
    BY <2>1 DEF IInv, Locking, LockOwner, Registered, sessVars
  <2>3. InLoop'
    BY <2>1 DEF IInv, TypeOK, Locking, InLoop, sessVars
  <2> QED  BY <2>2, <2>3 DEF Locking
<1>3. CASE WriteFail(p, gone)
  <2>1. /\ pc[p] = "write" /\ out[p] \in gone
        /\ closed' = [closed EXCEPT ![out[p]] = TRUE]
        /\ out' = [out EXCEPT ![p] = None]
        /\ UNCHANGED <<pc, sess, left, kept, writers, mu>>
    BY <1>3 DEF WriteFail
  <2>2. out[p] \in Stream /\ out[p] # None
    BY <2>1, SessionsAssumption DEF IInv, TypeOK
  <2>3. \A q \in Writer : q # p => out[q] # out[p]
    BY <2>2, DistinctOut DEF IInv
  <2>4. LockOwner' /\ Registered'
    BY <2>1 DEF IInv, TypeOK, Locking, LockOwner, Registered
  <2>5. InLoop'
    BY <2>1, <2>2, <2>3 DEF IInv, TypeOK, Locking, InLoop
  <2> QED  BY <2>4, <2>5 DEF Locking
<1> QED  BY <1>1, <1>2, <1>3 DEF Writing

\* writeSSE ends.
LEMMA UnlocksLocking ==
  ASSUME NEW p \in Writer, IInv, Unlocks(p), UNCHANGED httpVars
  PROVE  Locking'
<1> USE Kinds
<1>1. PICK s \in Sid :
        /\ pc[p] = "write" /\ s = sess[p]
        /\ mu[s] = p /\ kept[p] \subseteq writers[s]
        /\ out[p] = None
        /\ pc'[p] # "write"
        /\ \A q \in Proc : q # p => pc'[q] = pc[q]
        /\ \A t \in Sid : /\ writers'[t] = IF t = s THEN kept[p] ELSE writers[t]
                          /\ mu'[t] = IF t = s THEN None ELSE mu[t]
        /\ UNCHANGED <<sess, closed, writeVars>>
  BY UnlocksEffect
<1>2. \A q \in Writer : q # p => ~(pc[q] = "write" /\ sess[q] = s)
  BY <1>1 DEF IInv, Locking, LockOwner
<1>3. LockOwner'
  BY <1>1, <1>2, SessionsAssumption DEF IInv, TypeOK, Locking, LockOwner
<1>4. InLoop'
  BY <1>1, <1>2 DEF IInv, TypeOK, Locking, InLoop, writeVars
<1>5. \A t \in Sid : writers'[t] \subseteq writers[t] /\ writers[t] \subseteq Stream
  BY <1>1 DEF IInv, TypeOK
<1>6. \A w \in Stream : pc'[w] = pc[w] /\ sess'[w] = sess[w] /\ closed'[w] = closed[w]
  BY <1>1
<1>7. Registered'
  BY <1>5, <1>6 DEF IInv, Locking, Registered
<1> QED  BY <1>3, <1>4, <1>7 DEF Locking

-----------------------------------------------------------------------------
(* Feeds: what is written on which stream.                                 *)

\* No session, no event, before the first request.
LEMMA InitFeeds == Init => Feeds
<1> SUFFICES ASSUME Init PROVE Feeds
  OBVIOUS
<1>1. /\ \A p \in Proc : pc[p] = "idle" /\ sess[p] = None
      /\ \A w \in Stream : sent[w] = <<>>
  BY DEF Init, NewSessionManager
<1>2. \A w \in Stream, e \in Proc : ~Has(sent[w], e)
  BY <1>1 DEF Has
<1> QED
  BY <1>1, <1>2, Kinds DEF Feeds, Opened, Named, Distinct, Delivered, Ungreeted

\* Append adds an event and nothing else.
LEMMA AppendHas ==
  ASSUME NEW S, NEW s \in Seq(S), NEW e \in S
  PROVE  /\ \A x : Has(Append(s, e), x) <=> Has(s, x) \/ x = e
         /\ Append(s, e) # <<>>
         /\ s # <<>> => Append(s, e)[1] = s[1]
         /\ s = <<>> => Append(s, e)[1] = e
<1>1. /\ Append(s, e) \in Seq(S) /\ Len(Append(s, e)) = Len(s) + 1
      /\ \A i \in 1..Len(s) : Append(s, e)[i] = s[i]
      /\ Append(s, e)[Len(s) + 1] = e
      /\ Len(s) \in Nat
      /\ s = <<>> <=> Len(s) = 0
  OBVIOUS
<1>2. ASSUME NEW x PROVE Has(Append(s, e), x) <=> Has(s, x) \/ x = e
  <2>1. Has(Append(s, e), x) => Has(s, x) \/ x = e
    BY <1>1 DEF Has
  <2>2. Has(s, x) => Has(Append(s, e), x)
    BY <1>1 DEF Has
  <2>3. Has(Append(s, e), e)
    <3>1. Len(s) + 1 \in 1..Len(Append(s, e))
      BY <1>1
    <3> QED  BY <1>1, <3>1 DEF Has
  <2> QED  BY <2>1, <2>2, <2>3
<1>3. Append(s, e) # <<>>
  BY <1>1
<1>4. s # <<>> => Append(s, e)[1] = s[1]
  BY <1>1
<1>5. s = <<>> => Append(s, e)[1] = e
  BY <1>1
<1> QED  BY <1>2, <1>3, <1>4, <1>5

\* A step that writes no event; a stream passes its greeting only in GetGreet.
LEMMA OpenedStays ==
  ASSUME Opened, UNCHANGED sent, gone \subseteq gone',
         \A w \in Stream :
           \/ pc'[w] = pc[w]
           \/ pc[w] \in Ungreeted /\ pc'[w] \in Ungreeted \cup {"returned"}
           \/ pc[w] \notin Ungreeted \cup {"returned"} /\ pc'[w] \notin Ungreeted
  PROVE  Opened'
BY DEF Opened, Greeted, Ungreeted

\* A step that gives no stream a session.
LEMMA DistinctStays ==
  ASSUME Distinct, used \subseteq used', \A w \in Stream : sess'[w] = sess[w],
         \A w \in Stream : \/ pc'[w] = pc[w]
                           \/ pc'[w] \notin {"greet", "opened"}
                           \/ pc[w] = "greet"
  PROVE  Distinct'
BY DEF Distinct

\* A step that writes no response and takes the POSTs along their way.
LEMMA PostsStay ==
  ASSUME Named, Delivered, UNCHANGED sent,
         \A w \in Stream : sess'[w] = sess[w],
         \A p \in Post :
           \/ /\ sess'[p] = sess[p] /\ query'[p] = query[p]
              /\ \/ pc'[p] \in {pc[p], "returned"}
                 \/ pc[p] = "read" /\ pc'[p] \in {"deliver", "reply"}
                 \/ pc[p] = "deliver" /\ pc'[p] = "write"
                 \/ pc[p] = "write" /\ pc'[p] = "reply"
           \/ /\ pc[p] \in {"idle", "lookup"}
              /\ \/ pc'[p] = "lookup"
                 \/ pc'[p] = "read" /\ sess'[p] = query'[p] /\ query'[p] \in Sid
  PROVE  Named' /\ Delivered'
<1>1. Named'
  BY DEF Named
<1>2. Delivered'
  <2> SUFFICES ASSUME NEW p \in Post, NEW w \in Stream, Has(sent[w], p)
               PROVE  /\ pc'[p] \in {"write", "reply", "returned"}
                      /\ sess'[w] = query'[p] /\ query'[p] \in Sid
    BY DEF Delivered, Has
  <2>1. pc[p] \in {"write", "reply", "returned"} /\ sess[w] = query[p] /\ query[p] \in Sid
    BY DEF Delivered
  <2> QED  BY <2>1
<1> QED  BY <1>1, <1>2

\* The steps that write no event and insert no id.
LEMMA QuietFeeds ==
  ASSUME IInv,
         \/ Arrives
         \/ \E p \in Post : PostLookup(p) \/ PostHandle(p) \/ PostAnswers(p)
         \/ \E g \in Stream : GetAddWriter(g) \/ GetCleanup(g) \/ Disconnect(g)
         \/ \E p \in Sender : /\ BroadcastBegin(p, "send") \/ BroadcastEnd(p, "returned")
                              /\ UNCHANGED httpVars
         \/ Cancel
  PROVE  Feeds'
<1> USE Kinds
<1>1. CASE Arrives
  <2>1. /\ UNCHANGED <<sess, sent, used, gone>>
        /\ \A w \in Stream : \/ pc'[w] = pc[w]
                             \/ pc[w] = "idle" /\ pc'[w] \in {"create", "returned"}
        /\ \A p \in Post : \/ pc'[p] = pc[p] /\ query'[p] = query[p]
                           \/ /\ pc[p] = "idle"
                              /\ \/ pc'[p] = "lookup"
                                 \/ pc'[p] = "returned" /\ query'[p] = query[p]
    BY <1>1, ArrivesEffect DEF mapVars, writeVars
  <2>2. Opened'
    BY <2>1, OpenedStays DEF IInv, Feeds, Ungreeted
  <2>3. Named' /\ Delivered'
    BY <2>1, PostsStay DEF IInv, Feeds
  <2> QED  BY <2>1, <2>2, <2>3, DistinctStays DEF IInv, Feeds
<1>2. ASSUME NEW p \in Post, PostLookup(p) \/ PostHandle(p) \/ PostAnswers(p)
      PROVE  Feeds'
  <2>1. /\ UNCHANGED <<sent, used, gone, query>>
        /\ \A q \in Proc : q # p => pc'[q] = pc[q] /\ sess'[q] = sess[q]
        /\ \/ /\ pc[p] = "lookup" /\ pc'[p] = "read"
              /\ sess'[p] = query[p] /\ query[p] \in Sid
           \/ sess'[p] = sess[p] /\ pc[p] = "read" /\ pc'[p] \in {"deliver", "reply"}
           \/ sess'[p] = sess[p] /\ pc'[p] = "returned"
    BY <1>2, LookupEffect, HandleEffect, AnswersEffect DEF mapVars, writeVars
  <2>2. \A w \in Stream : pc'[w] = pc[w] /\ sess'[w] = sess[w]
    BY <2>1
  <2>3. Opened' /\ Distinct'
    BY <2>1, <2>2, OpenedStays, DistinctStays DEF IInv, Feeds
  <2>4. Named' /\ Delivered'
    BY <2>1, <2>2, PostsStay DEF IInv, Feeds
  <2> QED  BY <2>3, <2>4 DEF Feeds
<1>3. ASSUME NEW g \in Stream, GetAddWriter(g) \/ GetCleanup(g) PROVE Feeds'
  <2>1. /\ UNCHANGED <<sess, sent, used, gone, query>>
        /\ \A q \in Proc : q # g => pc'[q] = pc[q]
        /\ \/ pc[g] = "opened" /\ pc'[g] = "streaming"
           \/ pc[g] = "cleanup" /\ pc'[g] = "returned"
    BY <1>3, AddEffect, CleanupEffect DEF mapVars, writeVars
  <2>2. Opened' /\ Distinct'
    BY <2>1, OpenedStays, DistinctStays DEF IInv, Feeds, Ungreeted
  <2>3. Named' /\ Delivered'
    BY <2>1, PostsStay DEF IInv, Feeds
  <2> QED  BY <2>2, <2>3 DEF Feeds
<1>4. ASSUME NEW p \in Sender, UNCHANGED httpVars,
             BroadcastBegin(p, "send") \/ BroadcastEnd(p, "returned")
      PROVE  Feeds'
  <2>1. /\ UNCHANGED <<sess, sent, used, gone, query>>
        /\ \A q \in Post \cup Stream : pc'[q] = pc[q]
    BY <1>4, BroadcastEffect DEF writeVars
  <2>2. Opened' /\ Distinct'
    BY <2>1, OpenedStays, DistinctStays DEF IInv, Feeds
  <2>3. Named' /\ Delivered'
    BY <2>1, PostsStay DEF IInv, Feeds
  <2> QED  BY <2>2, <2>3 DEF Feeds
<1>5. ASSUME Cancel \/ \E g \in Stream : Disconnect(g) PROVE Feeds'
  <2>1. UNCHANGED <<pc, sess, sent, used, query>> /\ gone \subseteq gone'
    BY <1>5 DEF Cancel, Disconnect, mapVars, writeVars
  <2>2. Opened' /\ Distinct'
    BY <2>1, OpenedStays, DistinctStays DEF IInv, Feeds
  <2>3. Named' /\ Delivered'
    BY <2>1, PostsStay DEF IInv, Feeds
  <2> QED  BY <2>2, <2>3 DEF Feeds
<1> QED  BY <1>1, <1>2, <1>3, <1>4, <1>5

\* A GET inserts an id nobody has.
LEMMA MovesFeeds == ASSUME NEW g \in Stream, IInv, GetMoves(g) PROVE Feeds'
<1> USE Kinds
<1>1. /\ UNCHANGED <<sent, gone, query>>
      /\ \A q \in Proc : q # g => pc'[q] = pc[q] /\ sess'[q] = sess[q]
      /\ \/ pc[g] = "create" /\ pc'[g] = "insert"
         \/ pc[g] = "insert" /\ pc'[g] = "greet"
         \/ pc[g] = "streaming" /\ pc'[g] = "cleanup"
      /\ pc[g] # "insert" => UNCHANGED <<sess, used>>
  BY MovesEffect DEF writeVars
<1>2. pc[g] = "insert" => \E s \in Sid \ used : sess'[g] = s /\ used' = used \cup {s}
  BY MovesEffect
<1>3. Opened'
  BY <1>1, OpenedStays DEF IInv, Feeds, Ungreeted
<1>4. Named'
  BY <1>1 DEF IInv, Feeds, Named
<1>5. CASE pc[g] # "insert"
  BY <1>1, <1>3, <1>4, <1>5, PostsStay, DistinctStays DEF IInv, Feeds
<1>6. CASE pc[g] = "insert"
  <2>1. PICK s \in Sid \ used : sess'[g] = s /\ used' = used \cup {s}
    BY <1>2, <1>6
  <2>2. \A v \in Stream : v # g => sess'[v] \in used \cup {None} /\ sess'[v] = sess[v]
    BY <1>1 DEF IInv, Feeds, Distinct
  <2>3. Distinct'
    BY <1>1, <2>1, <2>2, SessionsAssumption DEF IInv, Feeds, Distinct
  <2>4. sent[g] = <<>>
    BY <1>6 DEF IInv, Feeds, Opened, Ungreeted
  <2>5. Delivered'
    <3> SUFFICES ASSUME NEW p \in Post, NEW w \in Stream, Has(sent[w], p)
                 PROVE  /\ pc'[p] \in {"write", "reply", "returned"}
                        /\ sess'[w] = query'[p] /\ query'[p] \in Sid
      BY <1>1 DEF Delivered, Has
    <3>1. w # g
      BY <2>4 DEF Has
    <3>2. pc[p] \in {"write", "reply", "returned"} /\ sess[w] = query[p] /\ query[p] \in Sid
      BY DEF IInv, Feeds, Delivered
    <3> QED  BY <1>1, <3>1, <3>2
  <2> QED  BY <1>3, <1>4, <2>3, <2>5 DEF Feeds
<1> QED  BY <1>5, <1>6

\* The endpoint event is the first.
LEMMA GreetFeeds == ASSUME NEW g \in Stream, IInv, GetGreet(g) PROVE Feeds'
<1> USE Kinds
<1>1. /\ UNCHANGED <<sess, query, gone, used>>
      /\ \A q \in Proc : q # g => pc'[q] = pc[q]
      /\ pc[g] = "greet" /\ pc'[g] = "opened"
      /\ \/ sent' = [sent EXCEPT ![g] = Append(@, g)]
         \/ g \in gone /\ sent' = sent
  BY GreetEffect DEF mapVars
<1>2. sent[g] = <<>> /\ sent[g] \in Seq(Proc)
  BY <1>1 DEF IInv, TypeOK, Feeds, Opened, Ungreeted
<1>3. \A w \in Stream : w # g => sent'[w] = sent[w]
  BY <1>1 DEF IInv, TypeOK
<1>4. \/ sent'[g] = Append(sent[g], g)
      \/ g \in gone /\ sent'[g] = sent[g]
  BY <1>1 DEF IInv, TypeOK
<1>5. \/ /\ sent'[g] # <<>> /\ sent'[g][1] = g
         /\ \A x : Has(sent'[g], x) => Has(sent[g], x) \/ x = g
      \/ g \in gone /\ sent'[g] = sent[g]
  <2>1. /\ Append(sent[g], g) # <<>>
        /\ sent[g] = <<>> => Append(sent[g], g)[1] = g
        /\ \A x : Has(Append(sent[g], g), x) <=> Has(sent[g], x) \/ x = g
    <3>1. sent[g] \in Seq(Proc) /\ g \in Proc
      BY <1>2
    <3> QED  BY <3>1, AppendHas
  <2> QED  BY <1>2, <1>4, <2>1
<1>6. Opened'
  BY <1>1, <1>3, <1>5 DEF IInv, Feeds, Opened, Greeted, Ungreeted
<1>7. Named' /\ Distinct'
  BY <1>1, DistinctStays DEF IInv, Feeds, Named
<1>8. Delivered'
  <2> SUFFICES ASSUME NEW p \in Post, NEW w \in Stream, Has(sent'[w], p)
               PROVE  /\ pc'[p] \in {"write", "reply", "returned"}
                      /\ sess'[w] = query'[p] /\ query'[p] \in Sid
    BY DEF Delivered, Has
  <2>1. Has(sent[w], p) /\ p # g
    BY <1>3, <1>5 DEF Has
  <2> QED  BY <1>1, <2>1 DEF IInv, Feeds, Delivered
<1> QED  BY <1>6, <1>7, <1>8 DEF Feeds

\* writeSSE begins and ends.
LEMMA LocksFeeds ==
  ASSUME NEW p \in Writer, IInv, Locks(p) \/ (Unlocks(p) /\ UNCHANGED httpVars)
  PROVE  Feeds'
<1> USE Kinds
<1>1. CASE Locks(p)
  <2>1. PICK s \in Sid :
          /\ \/ p \in Post /\ pc[p] = "deliver" /\ s = sess[p]
             \/ p \in Sender
          /\ pc' = [pc EXCEPT ![p] = "write"]
          /\ sess' = [sess EXCEPT ![p] = s]
          /\ UNCHANGED <<sent, used, gone, query>>
    BY <1>1, LocksEffect DEF mapVars, httpVars
  <2>2. /\ \A q \in Proc : q # p => pc'[q] = pc[q] /\ sess'[q] = sess[q]
        /\ pc'[p] = "write" /\ sess'[p] = s
    BY <2>1 DEF IInv, TypeOK
  <2>3. Opened' /\ Distinct'
    BY <2>1, <2>2, OpenedStays, DistinctStays DEF IInv, Feeds
  <2>4. Named' /\ Delivered'
    BY <2>1, <2>2, PostsStay DEF IInv, Feeds
  <2> QED  BY <2>3, <2>4 DEF Feeds
<1>2. CASE Unlocks(p) /\ UNCHANGED httpVars
  <2>1. /\ pc[p] = "write"
        /\ \/ p \in Post /\ pc'[p] = "reply"
           \/ p \in Sender
        /\ \A q \in Proc : q # p => pc'[q] = pc[q]
        /\ UNCHANGED <<sess, sent, used, gone, query>>
    BY <1>2, UnlocksEffect DEF mapVars, writeVars, httpVars
  <2>2. Opened' /\ Distinct'
    BY <2>1, OpenedStays, DistinctStays DEF IInv, Feeds
  <2>3. Named' /\ Delivered'
    BY <2>1, PostsStay DEF IInv, Feeds
  <2> QED  BY <2>2, <2>3 DEF Feeds
<1> QED  BY <1>1, <1>2

\* What WriteOk appends to: an open stream of the session.
LEMMA WriteOkEffect ==
  ASSUME NEW p \in Writer, IInv, WriteOk(p)
  PROVE  \E w \in Stream :
           /\ pc[p] = "write" /\ w = out[p] /\ w \in writers[sess[p]]
           /\ sess[p] \in Sid /\ sess[w] = sess[p]
           /\ Open(w) /\ ~closed[w]
           /\ sent'[w] # <<>>
           /\ \A e : Has(sent'[w], e) <=> Has(sent[w], e) \/ e = p
           /\ sent[w] # <<>> => sent'[w][1] = sent[w][1]
           /\ \A v \in Stream : v # w => sent'[v] = sent[v]
           /\ kept' = [kept EXCEPT ![p] = @ \cup {w}]
           /\ out' = [out EXCEPT ![p] = None]
           /\ UNCHANGED <<pc, sess, todo, due, left, mapVars, sessVars>>
<1> DEFINE w == out[p]
<1>1. /\ pc[p] = "write" /\ w # None
      /\ sent' = [sent EXCEPT ![w] = Append(@, p)]
      /\ kept' = [kept EXCEPT ![p] = @ \cup {w}]
      /\ out' = [out EXCEPT ![p] = None]
      /\ UNCHANGED <<pc, sess, todo, due, left, mapVars, sessVars>>
  BY DEF WriteOk
<1>2. w \in Stream /\ sess[p] \in Sid /\ w \in writers[sess[p]] /\ ~closed[w]
  BY <1>1, Kinds DEF IInv, TypeOK, Locking, InLoop
<1>3. sess[w] = sess[p] /\ Open(w)
  BY <1>2 DEF IInv, Locking, Registered, Open
<1>4. /\ sent[w] \in Seq(Proc) /\ p \in Proc
      /\ sent'[w] = Append(sent[w], p)
      /\ \A v \in Stream : v # w => sent'[v] = sent[v]
  BY <1>1, <1>2, Kinds DEF IInv, TypeOK
<1> HIDE DEF w
<1>5. /\ sent'[w] # <<>>
      /\ \A e : Has(sent'[w], e) <=> Has(sent[w], e) \/ e = p
      /\ sent[w] # <<>> => sent'[w][1] = sent[w][1]
  BY <1>4, AppendHas
<1> QED  BY <1>1, <1>2, <1>3, <1>4, <1>5 DEF w

\* The loop of writeSSE writes to streams of its own session only.
LEMMA LoopFeeds ==
  ASSUME NEW p \in Writer, IInv, Writing(p), UNCHANGED httpVars
  PROVE  Feeds'
<1> USE Kinds
<1>1. CASE WriteNext(p) \/ WriteFail(p, gone)
  <2>1. UNCHANGED <<pc, sess, sent, used, gone, query>>
    BY <1>1 DEF WriteNext, WriteFail, mapVars, httpVars
  <2>2. Opened' /\ Distinct'
    BY <2>1, OpenedStays, DistinctStays DEF IInv, Feeds
  <2>3. Named' /\ Delivered'
    BY <2>1, PostsStay DEF IInv, Feeds
  <2> QED  BY <2>2, <2>3 DEF Feeds
<1>2. CASE WriteOk(p)
  <2>1. PICK w \in Stream :
          /\ pc[p] = "write" /\ sess[w] = sess[p] /\ Open(w)
          /\ sent'[w] # <<>>
          /\ \A e : Has(sent'[w], e) <=> Has(sent[w], e) \/ e = p
          /\ sent[w] # <<>> => sent'[w][1] = sent[w][1]
          /\ \A v \in Stream : v # w => sent'[v] = sent[v]
          /\ UNCHANGED <<pc, sess, used>>
    BY <1>2, WriteOkEffect DEF mapVars
  <2>2. UNCHANGED <<query, gone>>
    BY DEF httpVars
  <2>3. Opened'
    BY <2>1, <2>2 DEF IInv, Feeds, Opened, Greeted, Ungreeted, Open
  <2>4. Named' /\ Distinct'
    BY <2>1, <2>2 DEF IInv, Feeds, Named, Distinct
  <2>5. Delivered'
    <3> SUFFICES ASSUME NEW q \in Post, NEW v \in Stream, Has(sent'[v], q)
                 PROVE  /\ pc[q] \in {"write", "reply", "returned"}
                        /\ sess[v] = query[q] /\ query[q] \in Sid
      BY <2>1, <2>2 DEF Delivered, Has
    <3>1. CASE Has(sent[v], q)
      BY <3>1 DEF IInv, Feeds, Delivered
    <3>2. CASE v = w /\ q = p
      BY <2>1, <3>2 DEF IInv, Feeds, Named
    <3> QED  BY <2>1, <3>1, <3>2
  <2> QED  BY <2>3, <2>4, <2>5 DEF Feeds
<1> QED  BY <1>1, <1>2 DEF Writing

-----------------------------------------------------------------------------
(* Reaching: no open stream is forgotten.                                  *)

\* No stream is open before the first request, and nothing is owed.
LEMMA InitReaching == Init => Reaching
<1> SUFFICES ASSUME Init PROVE Reaching
  OBVIOUS
<1>1. \A p \in Proc : pc[p] = "idle" /\ due[p] = {}
  BY DEF Init, NewSessionManager
<1> QED
  BY <1>1, Kinds DEF Reaching, OpenRegistered, LoopKeeps, Owed, Open

\* A step that writes nothing, registers nothing and closes nothing.
LEMMA CalmReaching ==
  ASSUME TypeOK, Reaching,
         UNCHANGED <<writers, closed, left, kept, out, sent, todo>>,
         \A p \in Writer :
           \/ pc'[p] = pc[p] /\ sess'[p] = sess[p] /\ due'[p] = due[p]
           \/ /\ due'[p] = due[p] /\ "write" \notin {pc[p], pc'[p]}
              /\ pc'[p] \in {"idle", "lookup", "read", "send"} => due[p] = {}
              /\ \A w \in due[p] : ~Ahead(p, w),
         \A w \in Stream : \/ sess'[w] = sess[w] /\ (Open(w) <=> Open(w)')
                           \/ ~Open(w) /\ ~Open(w)'
  PROVE  Reaching'
<1>1. OpenRegistered'
  BY DEF Reaching, OpenRegistered, Open
<1>2. LoopKeeps'
  BY DEF Reaching, LoopKeeps, Has
<1>3. ASSUME NEW p \in Writer
      PROVE  pc'[p] \in {"idle", "lookup", "read", "send"} => due'[p] = {}
  BY DEF Reaching, Owed
<1>4. ASSUME NEW p \in Writer, NEW w \in due'[p]
      PROVE  closed'[w] \/ Has(sent'[w], p) \/ (Open(w)' /\ Ahead(p, w)')
  <2>1. /\ w \in due[p] /\ w \in Stream
        /\ closed[w] \/ Has(sent[w], p) \/ (Open(w) /\ Ahead(p, w))
    BY <1>4, Kinds DEF Reaching, Owed, TypeOK
  <2>2. CASE closed[w] \/ Has(sent[w], p)
    BY <2>2 DEF Has
  <2>3. CASE Open(w) /\ Ahead(p, w)
    <3>1. pc'[p] = pc[p] /\ sess'[p] = sess[p] /\ sess'[w] = sess[w] /\ Open(w)'
      BY <2>1, <2>3
    <3> QED  BY <2>3, <3>1 DEF Ahead
  <2> QED  BY <2>1, <2>2, <2>3
<1>5. Owed'
  BY <1>3, <1>4 DEF Owed, Has
<1> QED  BY <1>1, <1>2, <1>5 DEF Reaching

\* The steps outside of writeSSE that nobody owes an event for.
LEMMA QuietReaching ==
  ASSUME IInv,
         \/ Arrives
         \/ \E p \in Post : PostLookup(p) \/ PostAnswers(p)
         \/ \E g \in Stream : GetMoves(g) \/ GetGreet(g) \/ Disconnect(g)
         \/ Cancel
  PROVE  Reaching'
<1> USE Kinds
<1>1. CASE Arrives
  <2>1. /\ UNCHANGED <<sess, due, todo, sessVars, writeVars>>
        /\ \A p \in Writer : \/ pc'[p] = pc[p]
                             \/ pc[p] = "idle" /\ pc'[p] \in {"lookup", "returned", "send"}
        /\ \A w \in Stream : \/ pc'[w] = pc[w]
                             \/ pc[w] = "idle" /\ pc'[w] \in {"create", "returned"}
    BY <1>1, ArrivesEffect DEF Writer
  <2>2. \A p \in Writer : pc[p] = "idle" => due[p] = {}
    BY DEF IInv, Reaching, Owed
  <2>3. \A w \in Stream : Open(w) <=> Open(w)'
    BY <2>1 DEF Open
  <2> QED  BY <2>1, <2>2, <2>3, CalmReaching DEF IInv, sessVars, writeVars
<1>2. ASSUME NEW p \in Post, PostLookup(p) PROVE Reaching'
  <2>1. /\ UNCHANGED <<due, todo, sessVars, writeVars>>
        /\ \A q \in Proc : q # p => pc'[q] = pc[q] /\ sess'[q] = sess[q]
        /\ pc[p] = "lookup" /\ pc'[p] = "read"
    BY <1>2, LookupEffect
  <2>2. due[p] = {}
    BY <2>1 DEF IInv, Reaching, Owed
  <2>3. \A w \in Stream : sess'[w] = sess[w] /\ (Open(w) <=> Open(w)')
    BY <2>1 DEF Open
  <2> QED  BY <2>1, <2>2, <2>3, CalmReaching DEF IInv, sessVars, writeVars
<1>3. ASSUME NEW p \in Post, PostAnswers(p) PROVE Reaching'
  <2>1. /\ UNCHANGED <<sess, due, todo, sessVars, writeVars>>
        /\ \A q \in Proc : q # p => pc'[q] = pc[q]
        /\ pc[p] \in {"lookup", "read", "reply"} /\ pc'[p] = "returned"
    BY <1>3, AnswersEffect
  <2>2. \A w \in due[p] : ~Ahead(p, w)
    BY <2>1 DEF Ahead
  <2>3. \A w \in Stream : sess'[w] = sess[w] /\ (Open(w) <=> Open(w)')
    BY <2>1 DEF Open
  <2> QED  BY <2>1, <2>2, <2>3, CalmReaching DEF IInv, sessVars, writeVars
<1>4. ASSUME NEW g \in Stream, GetMoves(g) PROVE Reaching'
  <2>1. /\ UNCHANGED <<due, todo, sessVars, writeVars>>
        /\ \A q \in Proc : q # g => pc'[q] = pc[q] /\ sess'[q] = sess[q]
        /\ \/ pc[g] = "create" /\ pc'[g] = "insert"
           \/ pc[g] = "insert" /\ pc'[g] = "greet"
           \/ pc[g] = "streaming" /\ pc'[g] = "cleanup" /\ UNCHANGED sess
    BY <1>4, MovesEffect
  <2>2. \A w \in Stream : \/ sess'[w] = sess[w] /\ (Open(w) <=> Open(w)')
                          \/ ~Open(w) /\ ~Open(w)'
    BY <2>1 DEF Open
  <2> QED  BY <2>1, <2>2, CalmReaching DEF IInv, sessVars, writeVars
<1>5. ASSUME Cancel \/ \E g \in Stream : Disconnect(g) PROVE Reaching'
  <2>1. UNCHANGED <<pc, sess, due, todo, sessVars, writeVars>>
    BY <1>5 DEF Cancel, Disconnect
  <2>2. \A w \in Stream : Open(w) <=> Open(w)'
    BY <2>1 DEF Open
  <2> QED  BY <2>1, <2>2, CalmReaching DEF IInv, sessVars, writeVars
<1>6. ASSUME NEW g \in Stream, GetGreet(g) PROVE Reaching'
  <2>1. /\ UNCHANGED <<sess, due, todo, left, kept, out, writers, closed>>
        /\ \A q \in Proc : q # g => pc'[q] = pc[q]
        /\ pc[g] = "greet" /\ pc'[g] = "opened"
        /\ sent' = [sent EXCEPT ![g] = Append(@, g)] \/ sent' = sent
    BY <1>6, GreetEffect DEF sessVars
  <2>2. \A w \in Stream, e \in Proc : Has(sent[w], e) => Has(sent'[w], e)
    <3> SUFFICES ASSUME NEW w \in Stream, NEW e \in Proc, Has(sent[w], e)
                 PROVE  Has(sent'[w], e)
      OBVIOUS
    <3>1. sent[w] \in Seq(Proc) /\ (sent'[w] = sent[w] \/ sent'[w] = Append(sent[w], g))
      BY <2>1 DEF IInv, TypeOK
    <3>2. Has(Append(sent[w], g), e)
      BY <3>1, AppendHas
    <3> QED  BY <3>1, <3>2
  <2>3. OpenRegistered'
    BY <2>1 DEF IInv, Reaching, OpenRegistered, Open
  <2>4. ASSUME NEW p \in Writer, pc'[p] = "write"
        PROVE  /\ \A w \in writers'[sess'[p]] :
                    closed'[w] \/ w \in left'[p] \cup kept'[p] \/ out'[p] = w
               /\ \A w \in kept'[p] : Has(sent'[w], p)
    <3>1. pc[p] = "write" /\ kept[p] \subseteq Stream
      BY <2>1, <2>4 DEF IInv, TypeOK
    <3> QED  BY <2>1, <2>2, <3>1 DEF IInv, Reaching, LoopKeeps
  <2>5. ASSUME NEW p \in Writer
        PROVE  /\ pc'[p] \in {"idle", "lookup", "read", "send"} => due'[p] = {}
               /\ \A w \in due'[p] : closed'[w] \/ Has(sent'[w], p) \/ (Open(w)' /\ Ahead(p, w)')
    <3>1. due[p] \subseteq Stream /\ pc'[p] = pc[p]
      BY <2>1 DEF IInv, TypeOK
    <3>2. \A w \in Stream : Open(w) => Open(w)'
      BY <2>1 DEF Open
    <3>3. \A w \in Stream : Ahead(p, w) => Ahead(p, w)'
      BY <2>1, <3>1 DEF Ahead
    <3> QED  BY <2>1, <2>2, <3>1, <3>2, <3>3 DEF IInv, Reaching, Owed
  <2>6. LoopKeeps' /\ Owed'
    BY <2>4, <2>5 DEF LoopKeeps, Owed, Has
  <2> QED  BY <2>3, <2>6 DEF Reaching
<1> QED  BY <1>1, <1>2, <1>3, <1>4, <1>5, <1>6

\* A step in which streams only close and get events, and a writer stays
\* where it is, leaves what that writer owes in order.
LEMMA OwedStays ==
  ASSUME IInv, NEW p \in Writer,
         pc'[p] = pc[p], sess'[p] = sess[p], due'[p] = due[p], todo'[p] = todo[p],
         \A w \in Stream : /\ closed[w] => closed'[w]
                           /\ Has(sent[w], p) => Has(sent'[w], p)
                           /\ Open(w) => Open(w)' \/ closed'[w]
                           /\ Open(w) => sess'[w] = sess[w]
  PROVE  /\ pc'[p] \in {"idle", "lookup", "read", "send"} => due'[p] = {}
         /\ \A w \in due'[p] : closed'[w] \/ Has(sent'[w], p) \/ (Open(w)' /\ Ahead(p, w)')
<1>1. due[p] \subseteq Stream
  BY Kinds DEF IInv, TypeOK
<1>2. \A w \in Stream : Open(w) /\ Ahead(p, w) => Ahead(p, w)'
  BY DEF Ahead
<1> QED  BY <1>1, <1>2 DEF IInv, Reaching, Owed

\* The response is ready: its stream, if open, is ahead.
LEMMA HandleReaching == ASSUME NEW p \in Post, IInv, PostHandle(p) PROVE Reaching'
<1> USE Kinds
<1>1. /\ UNCHANGED <<sess, todo, closed, writers, left, kept, out, sent>>
      /\ \A q \in Proc : q # p => pc'[q] = pc[q] /\ due'[q] = due[q]
      /\ pc[p] = "read"
      /\ \/ pc'[p] = "deliver" /\ due'[p] = ActiveStreams({sess[p]})
         \/ pc'[p] = "reply" /\ due'[p] = due[p]
  BY HandleEffect DEF sessVars, writeVars
<1>2. \A w \in Stream : (Open(w) <=> Open(w)')
  BY <1>1 DEF Open
<1>3. OpenRegistered'
  BY <1>1, <1>2 DEF IInv, Reaching, OpenRegistered
<1>4. LoopKeeps'
  BY <1>1 DEF IInv, Reaching, LoopKeeps, Has
<1>5. ASSUME NEW q \in Writer
      PROVE  /\ pc'[q] \in {"idle", "lookup", "read", "send"} => due'[q] = {}
             /\ \A w \in due'[q] : closed'[w] \/ Has(sent'[w], q) \/ (Open(w)' /\ Ahead(q, w)')
  <2>1. CASE q # p
    BY <1>1, <1>2, <2>1, OwedStays DEF Has
  <2>2. CASE q = p /\ pc'[p] = "deliver"
    <3>1. \A w \in due'[p] : Open(w)' /\ sess'[w] = sess'[p]
      BY <1>1, <2>2 DEF ActiveStreams, Open
    <3> QED  BY <2>2, <3>1 DEF Ahead
  <2>3. CASE q = p /\ pc'[p] = "reply"
    <3>1. due'[p] = {}
      BY <1>1, <2>3 DEF IInv, Reaching, Owed
    <3> QED  BY <2>3, <3>1
  <2> QED  BY <1>1, <2>1, <2>2, <2>3
<1>6. Owed'
  BY <1>5 DEF Owed, Has
<1> QED  BY <1>3, <1>4, <1>6 DEF Reaching

\* The sessions of a broadcast are all ahead, and none is left at its end.
LEMMA BroadcastReaching ==
  ASSUME NEW p \in Sender, IInv, UNCHANGED httpVars,
         BroadcastBegin(p, "send") \/ BroadcastEnd(p, "returned")
  PROVE  Reaching'
<1> USE Kinds
<1>1. /\ UNCHANGED <<sess, closed, writers, left, kept, out, sent>>
      /\ \A q \in Proc : q # p => pc'[q] = pc[q] /\ todo'[q] = todo[q] /\ due'[q] = due[q]
      /\ \/ /\ pc[p] = "send" /\ pc'[p] = "range"
            /\ todo'[p] = sessions /\ due'[p] = ActiveStreams(sessions)
         \/ /\ pc[p] = "range" /\ pc'[p] = "returned" /\ todo[p] = {}
            /\ todo'[p] = todo[p] /\ due'[p] = due[p]
  BY BroadcastEffect DEF sessVars, writeVars
<1>2. \A w \in Stream : (Open(w) <=> Open(w)')
  BY <1>1 DEF Open
<1>3. OpenRegistered'
  BY <1>1, <1>2 DEF IInv, Reaching, OpenRegistered
<1>4. LoopKeeps'
  BY <1>1 DEF IInv, Reaching, LoopKeeps, Has
<1>5. ASSUME NEW q \in Writer
      PROVE  /\ pc'[q] \in {"idle", "lookup", "read", "send"} => due'[q] = {}
             /\ \A w \in due'[q] : closed'[w] \/ Has(sent'[w], q) \/ (Open(w)' /\ Ahead(q, w)')
  <2>1. CASE q # p
    BY <1>1, <1>2, <2>1, OwedStays DEF Has
  <2>2. CASE q = p /\ pc'[p] = "range"
    <3>1. \A w \in due'[p] : Open(w)' /\ sess'[w] \in todo'[p]
      BY <1>1, <2>2 DEF ActiveStreams, Open
    <3> QED  BY <2>2, <3>1 DEF Ahead
  <2>3. CASE q = p /\ pc'[p] = "returned"
    <3>1. \A w \in due[p] : ~Ahead(p, w)
      BY <1>1, <2>3 DEF Ahead
    <3>2. \A w \in due[p] : closed[w] \/ Has(sent[w], p)
      BY <3>1 DEF IInv, Reaching, Owed
    <3> QED  BY <1>1, <2>3, <3>2 DEF Has
  <2> QED  BY <1>1, <2>1, <2>2, <2>3
<1>6. Owed'
  BY <1>5 DEF Owed, Has
<1> QED  BY <1>3, <1>4, <1>6 DEF Reaching

\* addWriter waits until nobody filters the list.
LEMMA AddReaching == ASSUME NEW g \in Stream, IInv, GetAddWriter(g) PROVE Reaching'
<1> USE Kinds
<1>1. /\ UNCHANGED <<sess, todo, due, closed, left, kept, out, sent>>
      /\ \A q \in Proc : q # g => pc'[q] = pc[q]
      /\ pc[g] = "opened" /\ pc'[g] = "streaming"
      /\ SessionLockFree(sess[g])
      /\ \A s \in Sid : writers'[s] = IF s = sess[g] THEN writers[s] \cup {g}
                                                     ELSE writers[s]
  BY AddEffect DEF writeVars
<1>2. \A w \in Stream : Open(w)' <=> Open(w) \/ w = g
  BY <1>1 DEF Open
<1>3. sess[g] \in Sid
  BY <1>1 DEF IInv, TypeOK, Feeds, Distinct
<1>4. OpenRegistered'
  BY <1>1, <1>2, <1>3 DEF IInv, Reaching, OpenRegistered
<1>5. ASSUME NEW p \in Writer, pc'[p] = "write"
      PROVE  /\ \A w \in writers'[sess'[p]] :
                  closed'[w] \/ w \in left'[p] \cup kept'[p] \/ out'[p] = w
             /\ \A w \in kept'[p] : Has(sent'[w], p)
  <2>1. pc[p] = "write" /\ sess[p] \in Sid
    BY <1>1, <1>5 DEF IInv, Locking, InLoop
  <2>2. sess[p] # sess[g]
    BY <1>1, <1>3, <2>1, NobodyWrites DEF IInv
  <2> QED  BY <1>1, <2>1, <2>2 DEF IInv, Reaching, LoopKeeps
<1>6. LoopKeeps'
  BY <1>5 DEF LoopKeeps, Has
<1>7. Owed'
  BY <1>1, <1>2, OwedStays DEF Owed, Has
<1> QED  BY <1>4, <1>6, <1>7 DEF Reaching

\* cleanup closes the stream it ends.
LEMMA CleanupReaching == ASSUME NEW g \in Stream, IInv, GetCleanup(g) PROVE Reaching'
<1> USE Kinds
<1>1. /\ UNCHANGED <<sess, todo, due, writers, left, kept, out, sent>>
      /\ \A q \in Proc : q # g => pc'[q] = pc[q]
      /\ pc'[g] = "returned"
      /\ \A w \in Stream : closed'[w] = (w = g \/ closed[w])
  BY CleanupEffect DEF writeVars
<1>2. \A w \in Stream : Open(w)' <=> Open(w) /\ w # g
  BY <1>1 DEF Open
<1>3. OpenRegistered'
  BY <1>1, <1>2 DEF IInv, Reaching, OpenRegistered
<1>4. ASSUME NEW p \in Writer, pc'[p] = "write"
      PROVE  /\ \A w \in writers'[sess'[p]] :
                  closed'[w] \/ w \in left'[p] \cup kept'[p] \/ out'[p] = w
             /\ \A w \in kept'[p] : Has(sent'[w], p)
  <2>1. pc[p] = "write" /\ sess[p] \in Sid /\ writers[sess[p]] \subseteq Stream
    BY <1>1, <1>4 DEF IInv, TypeOK, Locking, InLoop
  <2> QED  BY <1>1, <2>1 DEF IInv, Reaching, LoopKeeps
<1>5. LoopKeeps'
  BY <1>4 DEF LoopKeeps, Has
<1>6. Owed'
  BY <1>1, <1>2, OwedStays DEF Owed, Has
<1> QED  BY <1>3, <1>5, <1>6 DEF Reaching

\* writeSSE starts with the whole list ahead of it.
LEMMA LocksReaching == ASSUME NEW p \in Writer, IInv, Locks(p) PROVE Reaching'
<1> USE Kinds
<1>1. PICK s \in Sid :
        /\ \/ p \in Post /\ pc[p] = "deliver" /\ s = sess[p]
           \/ p \in Sender /\ pc[p] = "range" /\ s \in todo[p]
        /\ pc' = [pc EXCEPT ![p] = "write"]
        /\ sess' = [sess EXCEPT ![p] = s]
        /\ left' = [left EXCEPT ![p] = writers[s]]
        /\ kept' = [kept EXCEPT ![p] = {}]
        /\ todo' = [todo EXCEPT ![p] = @ \ {s}]
        /\ UNCHANGED <<due, writers, closed, out, sent>>
  BY LocksEffect
<1>2. /\ \A q \in Proc : q # p => /\ pc'[q] = pc[q] /\ sess'[q] = sess[q]
                                  /\ left'[q] = left[q] /\ kept'[q] = kept[q]
                                  /\ todo'[q] = todo[q]
      /\ pc'[p] = "write" /\ sess'[p] = s /\ left'[p] = writers[s] /\ kept'[p] = {}
      /\ todo'[p] = todo[p] \ {s}
  BY <1>1 DEF IInv, TypeOK
<1>3. \A w \in Stream : (Open(w) <=> Open(w)') /\ sess'[w] = sess[w]
  BY <1>2 DEF Open
<1>4. OpenRegistered'
  BY <1>1, <1>3 DEF IInv, Reaching, OpenRegistered
<1>5. LoopKeeps'
  BY <1>1, <1>2 DEF IInv, Reaching, LoopKeeps, Has
<1>6. ASSUME NEW q \in Writer
      PROVE  /\ pc'[q] \in {"idle", "lookup", "read", "send"} => due'[q] = {}
             /\ \A w \in due'[q] : closed'[w] \/ Has(sent'[w], q) \/ (Open(w)' /\ Ahead(q, w)')
  <2>1. CASE q # p
    BY <1>1, <1>2, <1>3, <2>1, OwedStays DEF Has
  <2>2. CASE q = p
    <3>1. due[p] \subseteq Stream
      BY DEF IInv, TypeOK
    <3>2. \A w \in Stream : Ahead(p, w) => Ahead(p, w)'
      BY <1>1, <1>2, <1>3 DEF Ahead
    <3> QED  BY <1>1, <1>2, <1>3, <2>2, <3>1, <3>2 DEF IInv, Reaching, Owed
  <2> QED  BY <2>1, <2>2
<1>7. Owed'
  BY <1>6 DEF Owed, Has
<1> QED  BY <1>4, <1>5, <1>7 DEF Reaching

\* The loop takes a writer, and passes it, closes it or keeps it.
LEMMA LoopReaching ==
  ASSUME NEW p \in Writer, IInv, Writing(p), UNCHANGED httpVars
  PROVE  Reaching'
<1> USE Kinds
<1>1. CASE WriteNext(p)
  <2>1. PICK w \in left[p] :
          /\ left' = [left EXCEPT ![p] = @ \ {w}]
          /\ out' = IF ~closed[w] THEN [out EXCEPT ![p] = w] ELSE out
          /\ out[p] = None
          /\ UNCHANGED <<pc, sess, todo, due, kept, sent, writers, closed>>
    BY <1>1 DEF WriteNext, IsActive, sessVars
  <2>2. /\ \A q \in Writer : q # p => left'[q] = left[q] /\ out'[q] = out[q]
        /\ left'[p] = left[p] \ {w} /\ (closed[w] \/ out'[p] = w)
    BY <2>1 DEF IInv, TypeOK
  <2>3. \A v \in Stream : Open(v) <=> Open(v)'
    BY <2>1 DEF Open
  <2>4. OpenRegistered'
    BY <2>1, <2>3 DEF IInv, Reaching, OpenRegistered
  <2>5. \A v \in writers[sess[p]] : pc[p] = "write" => v # None
    BY SessionsAssumption DEF IInv, TypeOK, Locking, InLoop
  <2>6. LoopKeeps'
    BY <2>1, <2>2, <2>5 DEF IInv, Reaching, LoopKeeps, Has
  <2>7. Owed'
    BY <2>1, <2>3, OwedStays DEF Owed, Has
  <2> QED  BY <2>4, <2>6, <2>7 DEF Reaching
<1>2. CASE WriteOk(p)
  <2>1. PICK w \in Stream :
          /\ w = out[p]
          /\ \A e : Has(sent'[w], e) <=> Has(sent[w], e) \/ e = p
          /\ \A v \in Stream : v # w => sent'[v] = sent[v]
          /\ kept' = [kept EXCEPT ![p] = @ \cup {w}]
          /\ out' = [out EXCEPT ![p] = None]
          /\ UNCHANGED <<pc, sess, todo, due, left, writers, closed>>
    BY <1>2, WriteOkEffect DEF sessVars
  <2>2. /\ \A q \in Writer : q # p => kept'[q] = kept[q] /\ out'[q] = out[q]
        /\ kept'[p] = kept[p] \cup {w} /\ out'[p] = None
    BY <2>1 DEF IInv, TypeOK
  <2>3. \A v \in Stream : Open(v) <=> Open(v)'
    BY <2>1 DEF Open
  <2>4. \A v \in Stream : \A e : Has(sent[v], e) => Has(sent'[v], e)
    BY <2>1
  <2>5. OpenRegistered'
    BY <2>1, <2>3 DEF IInv, Reaching, OpenRegistered
  <2>6. ASSUME NEW q \in Writer, pc'[q] = "write"
        PROVE  /\ \A v \in writers'[sess'[q]] :
                    closed'[v] \/ v \in left'[q] \cup kept'[q] \/ out'[q] = v
               /\ \A v \in kept'[q] : Has(sent'[v], q)
    <3>1. pc[q] = "write" /\ kept[q] \subseteq Stream
      BY <2>1, <2>6 DEF IInv, TypeOK
    <3> QED  BY <2>1, <2>2, <2>4, <3>1 DEF IInv, Reaching, LoopKeeps
  <2>7. LoopKeeps'
    BY <2>6 DEF LoopKeeps, Has
  <2>8. Owed'
    BY <2>1, <2>3, <2>4, OwedStays DEF Owed, Has
  <2> QED  BY <2>5, <2>7, <2>8 DEF Reaching
<1>3. CASE WriteFail(p, gone)
  <2>1. /\ closed' = [closed EXCEPT ![out[p]] = TRUE]
        /\ out' = [out EXCEPT ![p] = None]
        /\ out[p] \in Stream
        /\ UNCHANGED <<pc, sess, todo, due, left, kept, sent, writers>>
    BY <1>3 DEF WriteFail, IInv, TypeOK
  <2>2. /\ \A v \in Stream : closed'[v] = (v = out[p] \/ closed[v])
        /\ \A q \in Writer : q # p => out'[q] = out[q]
    BY <2>1 DEF IInv, TypeOK
  <2>3. \A v \in Stream : Open(v) <=> Open(v)'
    BY <2>1 DEF Open
  <2>4. OpenRegistered'
    BY <2>1, <2>2, <2>3 DEF IInv, Reaching, OpenRegistered
  <2>5. ASSUME NEW q \in Writer, pc'[q] = "write"
        PROVE  /\ \A v \in writers'[sess'[q]] :
                    closed'[v] \/ v \in left'[q] \cup kept'[q] \/ out'[q] = v
               /\ \A v \in kept'[q] : Has(sent'[v], q)
    <3>1. pc[q] = "write" /\ writers[sess[q]] \subseteq Stream
      BY <2>1, <2>5 DEF IInv, TypeOK, Locking, InLoop
    <3> QED  BY <2>1, <2>2, <3>1 DEF IInv, Reaching, LoopKeeps
  <2>6. LoopKeeps'
    BY <2>5 DEF LoopKeeps, Has
  <2>7. Owed'
    BY <2>1, <2>2, <2>3, OwedStays DEF Owed, Has
  <2> QED  BY <2>4, <2>6, <2>7 DEF Reaching
<1> QED  BY <1>1, <1>2, <1>3 DEF Writing

\* The new list has every open stream of the session, and all of them have
\* the event.
LEMMA UnlocksReaching ==
  ASSUME NEW p \in Writer, IInv, Unlocks(p), UNCHANGED httpVars
  PROVE  Reaching'
<1> USE Kinds
<1>1. PICK s \in Sid :
        /\ pc[p] = "write" /\ s = sess[p]
        /\ mu[s] = p
        /\ left[p] = {} /\ out[p] = None
        /\ \/ p \in Post /\ pc'[p] = "reply"
           \/ p \in Sender /\ pc'[p] = "range"
        /\ \A q \in Proc : q # p => pc'[q] = pc[q]
        /\ \A t \in Sid : writers'[t] = IF t = s THEN kept[p] ELSE writers[t]
        /\ UNCHANGED <<sess, todo, due, closed, left, kept, out, sent>>
  BY UnlocksEffect DEF writeVars
<1>2. \A w \in Stream : Open(w) <=> Open(w)'
  BY <1>1 DEF Open
<1>3. \A w \in Stream : Open(w) /\ sess[w] = s => closed[w] \/ w \in kept[p]
  BY <1>1, SessionsAssumption DEF IInv, Reaching, OpenRegistered, LoopKeeps
<1>4. OpenRegistered'
  BY <1>1, <1>2, <1>3 DEF IInv, Reaching, OpenRegistered
<1>5. ASSUME NEW q \in Writer, pc'[q] = "write"
      PROVE  /\ \A w \in writers'[sess'[q]] :
                  closed'[w] \/ w \in left'[q] \cup kept'[q] \/ out'[q] = w
             /\ \A w \in kept'[q] : Has(sent'[w], q)
  <2>1. q # p /\ pc[q] = "write"
    BY <1>1, <1>5
  <2>2. sess[q] \in Sid /\ sess[q] # s
    BY <1>1, <2>1 DEF IInv, Locking, LockOwner, InLoop
  <2> QED  BY <1>1, <2>1, <2>2 DEF IInv, Reaching, LoopKeeps
<1>6. LoopKeeps'
  BY <1>5 DEF LoopKeeps, Has
<1>7. ASSUME NEW q \in Writer
      PROVE  /\ pc'[q] \in {"idle", "lookup", "read", "send"} => due'[q] = {}
             /\ \A w \in due'[q] : closed'[w] \/ Has(sent'[w], q) \/ (Open(w)' /\ Ahead(q, w)')
  <2>1. CASE q # p
    BY <1>1, <1>2, <2>1, OwedStays DEF Has
  <2>2. CASE q = p
    <3>1. due[p] \subseteq Stream
      BY DEF IInv, TypeOK
    <3>2. ASSUME NEW w \in due[p]
          PROVE  closed[w] \/ Has(sent[w], p) \/ (Open(w)' /\ Ahead(p, w)')
      <4>1. closed[w] \/ Has(sent[w], p) \/ (Open(w) /\ Ahead(p, w))
        BY DEF IInv, Reaching, Owed
      <4>2. CASE Open(w) /\ sess[w] = s
        BY <1>1, <1>3, <3>1, <4>2 DEF IInv, Reaching, LoopKeeps
      <4>3. CASE Open(w) /\ sess[w] # s /\ Ahead(p, w)
        <5>1. p \in Sender /\ sess[w] \in todo[p]
          BY <1>1, <4>3 DEF Ahead
        <5>2. pc'[p] = "range" /\ sess'[w] = sess[w] /\ todo'[p] = todo[p]
          BY <1>1, <5>1
        <5>3. Ahead(p, w)'
          BY <5>1, <5>2 DEF Ahead
        <5> QED  BY <1>2, <3>1, <4>3, <5>3
      <4> QED  BY <4>1, <4>2, <4>3
    <3> QED  BY <1>1, <2>2, <3>2
  <2> QED  BY <2>1, <2>2
<1>8. Owed'
  BY <1>7 DEF Owed, Has
<1> QED  BY <1>4, <1>6, <1>8 DEF Reaching

-----------------------------------------------------------------------------
(* The invariant, and what follows from it.                                *)

\* A POST keeps the invariant.
LEMMA PostInv == ASSUME NEW p \in Post, IInv, PostStep(p) PROVE IInv'
<1> USE Kinds
<1>1. TypeOK'
  BY PostType DEF IInv, Feeds, Named
<1>2. CASE PostLookup(p) \/ PostAnswers(p)
  BY <1>1, <1>2, QuietLocking, QuietFeeds, QuietReaching DEF IInv
<1>3. CASE PostHandle(p)
  BY <1>1, <1>3, QuietLocking, QuietFeeds, HandleReaching DEF IInv
<1>4. CASE PostDeliver(p)
  <2>1. Locks(p)
    BY <1>4 DEF Locks
  <2> QED  BY <1>1, <2>1, LocksLocking, LocksFeeds, LocksReaching DEF IInv
<1>5. CASE PostWrite(p)
  <2>1. UNCHANGED httpVars /\ (Writing(p) \/ Unlocks(p))
    BY <1>5 DEF PostWrite, Unlocks
  <2>2. CASE Writing(p)
    BY <1>1, <2>1, <2>2, LoopLocking, LoopFeeds, LoopReaching DEF IInv
  <2>3. CASE Unlocks(p)
    BY <1>1, <2>1, <2>3, UnlocksLocking, LocksFeeds, UnlocksReaching DEF IInv
  <2> QED  BY <2>1, <2>2, <2>3
<1> QED  BY <1>2, <1>3, <1>4, <1>5 DEF PostStep, PostAnswers

\* A GET keeps the invariant.
LEMMA GetInv == ASSUME NEW g \in Stream, IInv, GetStep(g) PROVE IInv'
<1> USE Kinds
<1>1. TypeOK'
  BY GetType DEF IInv
<1>2. CASE GetMoves(g)
  BY <1>1, <1>2, QuietLocking, MovesFeeds, QuietReaching DEF IInv
<1>3. CASE GetGreet(g)
  BY <1>1, <1>3, QuietLocking, GreetFeeds, QuietReaching DEF IInv
<1>4. CASE GetAddWriter(g)
  BY <1>1, <1>4, AddLocking, QuietFeeds, AddReaching DEF IInv
<1>5. CASE GetCleanup(g)
  BY <1>1, <1>5, CleanupLocking, QuietFeeds, CleanupReaching DEF IInv
<1> QED  BY <1>2, <1>3, <1>4, <1>5 DEF GetStep, GetMoves

\* A Send keeps the invariant.
LEMMA SendInv == ASSUME NEW p \in Sender, IInv, SendStep(p) PROVE IInv'
<1> USE Kinds
<1>1. TypeOK' /\ UNCHANGED httpVars
  BY SendType DEF IInv, SendStep
<1>2. CASE BroadcastBegin(p, "send") \/ BroadcastEnd(p, "returned")
  BY <1>1, <1>2, BroadcastLocking, QuietFeeds, BroadcastReaching DEF IInv
<1>3. CASE BroadcastSession(p)
  <2>1. Locks(p)
    BY <1>1, <1>3 DEF Locks
  <2> QED  BY <1>1, <2>1, LocksLocking, LocksFeeds, LocksReaching DEF IInv
<1>4. CASE Writing(p)
  BY <1>1, <1>4, LoopLocking, LoopFeeds, LoopReaching DEF IInv
<1>5. CASE WriteUnlock(p, "range")
  <2>1. Unlocks(p)
    BY <1>5 DEF Unlocks
  <2> QED  BY <1>1, <2>1, UnlocksLocking, LocksFeeds, UnlocksReaching DEF IInv
<1> QED  BY <1>2, <1>3, <1>4, <1>5 DEF SendStep

\* The steps of the environment, and none, keep the invariant.
LEMMA OutsideInv ==
  ASSUME IInv, Arrives \/ Cancel \/ (\E g \in Stream : Disconnect(g)) \/ UNCHANGED vars
  PROVE  IInv'
<1>1. CASE Arrives
  BY <1>1, ArrivesType, QuietLocking, QuietFeeds, QuietReaching DEF IInv
<1>2. CASE Cancel \/ \E g \in Stream : Disconnect(g)
  BY <1>2, OutsideType, QuietLocking, QuietFeeds, QuietReaching DEF IInv
<1>3. CASE UNCHANGED vars
  <2>1. TypeOK'
    BY <1>3, OutsideType DEF IInv
  <2>2. Locking'
    BY <1>3
    DEF vars, mapVars, sessVars, writeVars, IInv, Locking, LockOwner, InLoop, Registered
  <2>3. Feeds'
    BY <1>3
    DEF vars, mapVars, sessVars, writeVars, httpVars, IInv, Feeds, Opened, Named,
        Distinct, Delivered, Greeted, Has
  <2>4. Reaching'
    BY <1>3
    DEF vars, mapVars, sessVars, writeVars, httpVars, IInv, Reaching, OpenRegistered,
        LoopKeeps, Owed, Open, Ahead, Has
  <2> QED  BY <2>1, <2>2, <2>3, <2>4 DEF IInv
<1> QED  BY <1>1, <1>2, <1>3

\* IInv is inductive.
LEMMA NextInv == IInv /\ [Next]_vars => IInv'
BY PostInv, GetInv, SendInv, OutsideInv DEF Next, Terminated

\* IInv holds in every state of the transport.
THEOREM Invariance == Spec => []IInv
<1>1. Init => IInv
  BY InitType, InitLocking, InitFeeds, InitReaching DEF IInv
<1> QED  BY <1>1, NextInv, PTL DEF Spec

\* Every variable of the transport keeps its type.
THEOREM TypeCorrect == Spec => []TypeOK
<1>1. IInv => TypeOK
  BY DEF IInv
<1> QED  BY Invariance, <1>1, PTL

\* No other goroutine writes to a connection before its handler is through
\* with its own writes, nor after it has returned.
THEOREM WritesToOpen == Spec => []EmitToLive
<1>1. IInv => EmitToLive
  <2> SUFFICES ASSUME IInv, NEW p \in Writer, out[p] # None
               PROVE  pc[out[p]] \in {"streaming", "cleanup"}
    BY DEF EmitToLive
  <2>1. sess[p] \in Sid /\ out[p] \in writers[sess[p]] /\ ~closed[out[p]]
    BY DEF IInv, Locking, InLoop
  <2> QED  BY <2>1 DEF IInv, Locking, Registered
<1> QED  BY Invariance, <1>1, PTL

\* The endpoint event comes first on every connection.
THEOREM EndpointComesFirst == Spec => []EndpointFirst
<1>1. IInv => EndpointFirst
  BY DEF IInv, Feeds, Opened, EndpointFirst
<1> QED  BY Invariance, <1>1, PTL

\* A response reaches the stream whose session the POST named, and no other.
THEOREM ResponsesArePrivate == Spec => []ReplyIsPrivate
<1>1. IInv => ReplyIsPrivate
  <2> SUFFICES ASSUME IInv, NEW p \in Post, NEW w \in Stream, Has(sent[w], p),
                      NEW v \in Stream
               PROVE  sess[v] = query[p] <=> v = w
    BY DEF ReplyIsPrivate, Has
  <2>1. sess[w] = query[p] /\ query[p] \in Sid
    BY DEF IInv, Feeds, Delivered
  <2> QED  BY <2>1, SessionsAssumption DEF IInv, Feeds, Distinct
<1> QED  BY Invariance, <1>1, PTL

\* Streams that were open have the response before the POST is answered, and
\* the broadcast before Send returns, or they broke or closed.
THEOREM OpenStreamsServed == Spec => []EventReaches
<1>1. IInv => EventReaches
  <2> SUFFICES ASSUME IInv, NEW p \in Writer, pc[p] = "returned", NEW w \in due[p]
               PROVE  closed[w] \/ Has(sent[w], p)
    BY DEF EventReaches, Has
  <2>1. ~Ahead(p, w)
    BY DEF Ahead
  <2> QED  BY <2>1 DEF IInv, Reaching, Owed
<1> QED  BY Invariance, <1>1, PTL

-----------------------------------------------------------------------------
(* The refinement of EventStreams.                                         *)

\* What the log and the loop have in common: only a stream that was attached
\* closes, the last entry of a log is the event that is being written, and a
\* stream that is written to is not written to again.
Logged ==
  /\ \A w \in Stream : closed[w] => /\ pc[w] \in {"streaming", "cleanup", "returned"}
                                    /\ sess[w] \in Sid
  /\ \A p \in Writer :
       /\ pc[p] = "write" => /\ Len(hist[sess[p]]) > 0
                             /\ hist[sess[p]][Len(hist[sess[p]])] = p
       /\ out[p] # None => out[p] \notin left[p]

\* A step that closes nothing and does not touch the loop.
LEMMA CalmLogged ==
  ASSUME Logged, UNCHANGED <<closed, left, out, hist>>,
         \A p \in Writer : (pc'[p] = pc[p] /\ sess'[p] = sess[p]) \/ pc'[p] # "write",
         \A w \in Stream : \/ pc'[w] \in {pc[w], "cleanup", "streaming"} /\ sess'[w] = sess[w]
                           \/ pc[w] \notin {"streaming", "cleanup", "returned"}
  PROVE  Logged'
BY DEF Logged

\* A log that grows by one event.
LEMMA Grows ==
  ASSUME NEW S, NEW l \in Seq(S), NEW e \in S
  PROVE  /\ Len(Append(l, e)) = Len(l) + 1 /\ Append(l, e)[Len(l) + 1] = e
         /\ Len(l) \in Nat
OBVIOUS

\* writeSSE enters the log when it has the mutex.
LEMMA LocksLogged == ASSUME NEW p \in Writer, IInv, Logged, Locks(p) PROVE Logged'
<1> USE Kinds
<1>1. PICK s \in Sid :
        /\ pc' = [pc EXCEPT ![p] = "write"]
        /\ pc[p] # "write" /\ mu[s] = None
        /\ sess' = [sess EXCEPT ![p] = s]
        /\ left' = [left EXCEPT ![p] = writers[s]]
        /\ hist' = [hist EXCEPT ![s] = Append(@, p)]
        /\ UNCHANGED <<closed, out>>
  BY LocksEffect
<1>2. /\ \A q \in Proc : q # p => pc'[q] = pc[q] /\ sess'[q] = sess[q] /\ left'[q] = left[q]
      /\ sess'[p] = s
      /\ hist'[s] = Append(hist[s], p)
      /\ \A t \in Sid : t # s => hist'[t] = hist[t]
      /\ hist[s] \in Seq(Proc) /\ p \in Proc
      /\ out[p] = None
  BY <1>1 DEF IInv, TypeOK, Locking, InLoop
<1>3. Len(hist'[s]) > 0 /\ hist'[s][Len(hist'[s])] = p
  BY <1>2, Grows
<1>4. ASSUME NEW q \in Writer, pc'[q] = "write", q # p PROVE sess[q] \in Sid /\ sess[q] # s
  <2>1. pc[q] = "write" /\ sess[q] \in Sid /\ mu[sess[q]] = q
    BY <1>2, <1>4 DEF IInv, Locking, LockOwner, InLoop
  <2> QED  BY <1>1, <2>1, SessionsAssumption
<1>5. \A w \in Stream : pc'[w] = pc[w] /\ sess'[w] = sess[w]
  BY <1>2
<1> QED  BY <1>1, <1>2, <1>3, <1>4, <1>5 DEF Logged

\* The loop goes through its list once, and closes only what is attached.
LEMMA LoopLogged == ASSUME NEW p \in Writer, IInv, Logged, Writing(p) PROVE Logged'
<1> USE Kinds
<1>1. CASE WriteNext(p)
  <2>1. PICK w \in left[p] :
          /\ left' = [left EXCEPT ![p] = @ \ {w}]
          /\ out' = IF ~closed[w] THEN [out EXCEPT ![p] = w] ELSE out
          /\ out[p] = None
          /\ UNCHANGED <<pc, sess, hist, closed>>
    BY <1>1 DEF WriteNext, IsActive, sessVars
  <2>2. /\ \A q \in Writer : q # p => left'[q] = left[q] /\ out'[q] = out[q]
        /\ left'[p] = left[p] \ {w} /\ out'[p] \in {w, None}
    BY <2>1 DEF IInv, TypeOK
  <2> QED  BY <2>1, <2>2 DEF Logged
<1>2. CASE WriteOk(p)
  <2>1. UNCHANGED <<pc, sess, left, hist, closed>> /\ out' = [out EXCEPT ![p] = None]
    BY <1>2 DEF WriteOk, sessVars
  <2>2. \A q \in Writer : out'[q] \in {out[q], None}
    BY <2>1 DEF IInv, TypeOK
  <2> QED  BY <2>1, <2>2 DEF Logged
<1>3. CASE WriteFail(p, gone)
  <2>1. /\ closed' = [closed EXCEPT ![out[p]] = TRUE]
        /\ out' = [out EXCEPT ![p] = None]
        /\ out[p] \in Stream /\ out[p] # None
        /\ UNCHANGED <<pc, sess, left, hist>>
    BY <1>3, SessionsAssumption DEF WriteFail, IInv, TypeOK
  <2>2. /\ \A q \in Writer : out'[q] \in {out[q], None}
        /\ \A v \in Stream : closed'[v] = (v = out[p] \/ closed[v])
    BY <2>1 DEF IInv, TypeOK
  <2>3. pc[out[p]] \in {"streaming", "cleanup", "returned"} /\ sess[out[p]] \in Sid
    BY <2>1 DEF IInv, Locking, InLoop, Registered
  <2> QED  BY <2>1, <2>2, <2>3 DEF Logged
<1> QED  BY <1>1, <1>2, <1>3 DEF Writing

\* Only a response or a broadcast enters a log, and it does so once: a POST that
\* has entered one delivers nothing more, and a Send has ahead of it only sessions
\* whose logs it has not entered.
Visited ==
  \A s \in Sid, p \in Proc : Has(hist[s], p) =>
    /\ p \in Writer
    /\ p \in Post => pc[p] \in {"write", "reply", "returned"}
    /\ p \in Sender => pc[p] \in {"range", "write", "returned"} /\ s \notin todo[p]

\* A step that enters no log leaves every Post and Send where it is or moves it
\* on.
LEMMA VisitedStays ==
  ASSUME Visited, hist' = hist,
         \A p \in Post : \/ pc'[p] = pc[p]
                         \/ pc[p] \in {"idle", "lookup", "read"}
                         \/ pc'[p] \in {"reply", "returned"},
         \A p \in Sender :
           /\ \/ pc'[p] = pc[p]
              \/ pc[p] \in {"idle", "send"}
              \/ pc'[p] \in {"range", "returned"}
           /\ todo'[p] = todo[p] \/ pc[p] = "send"
  PROVE  Visited'
<1> SUFFICES ASSUME NEW s \in Sid, NEW p \in Proc, Has(hist[s], p)
             PROVE  /\ p \in Writer
                    /\ p \in Post => pc'[p] \in {"write", "reply", "returned"}
                    /\ p \in Sender => /\ pc'[p] \in {"range", "write", "returned"}
                                       /\ s \notin todo'[p]
  BY DEF Visited, Has
<1> QED  BY DEF Visited

\* Who enters the log of s has not been there.
LEMMA NotVisited ==
  ASSUME Visited, NEW p \in Writer, NEW s \in Sid,
         \/ p \in Post /\ pc[p] = "deliver"
         \/ p \in Sender /\ pc[p] = "range" /\ s \in todo[p]
  PROVE  ~Has(hist[s], p)
BY Kinds DEF Visited

\* The session whose log a goroutine enters is not ahead of it any more.
LEMMA LocksVisited == ASSUME NEW p \in Writer, IInv, Visited, Locks(p) PROVE Visited'
<1> USE Kinds
<1>1. PICK s \in Sid :
        /\ pc' = [pc EXCEPT ![p] = "write"]
        /\ todo' = [todo EXCEPT ![p] = @ \ {s}]
        /\ hist' = [hist EXCEPT ![s] = Append(@, p)]
  BY LocksEffect
<1>2. /\ pc'[p] = "write" /\ todo'[p] = todo[p] \ {s}
      /\ \A q \in Proc : q # p => pc'[q] = pc[q] /\ todo'[q] = todo[q]
      /\ hist'[s] = Append(hist[s], p) /\ hist[s] \in Seq(Proc)
      /\ \A t \in Sid : t # s => hist'[t] = hist[t]
  BY <1>1 DEF IInv, TypeOK
<1>3. \A q : Has(hist'[s], q) <=> Has(hist[s], q) \/ q = p
  BY <1>2, AppendHas
<1>4. ASSUME NEW t \in Sid, NEW q \in Proc, Has(hist'[t], q)
      PROVE  /\ q \in Writer
             /\ q \in Post => pc'[q] \in {"write", "reply", "returned"}
             /\ q \in Sender => /\ pc'[q] \in {"range", "write", "returned"}
                                /\ t \notin todo'[q]
  <2>1. CASE Has(hist[t], q)
    BY <1>2, <2>1 DEF Visited
  <2>2. CASE ~Has(hist[t], q)
    <3>1. t = s /\ q = p
      BY <1>2, <1>3, <1>4, <2>2
    <3> QED  BY <1>2, <3>1
  <2> QED  BY <2>1, <2>2
<1> QED  BY <1>4 DEF Visited, Has

\* Nobody enters a log twice.
LEMMA NextVisited == ASSUME IInv, Visited, [Next]_vars PROVE Visited'
<1> USE Kinds
<1>1. CASE Arrives
  <2>1. /\ hist' = hist /\ todo' = todo
        /\ \A q \in Proc : pc'[q] = pc[q] \/ pc[q] = "idle"
    BY <1>1, ArrivesEffect DEF writeVars
  <2> QED  BY <2>1, VisitedStays
<1>2. ASSUME NEW p \in Post, PostLookup(p) \/ PostHandle(p) \/ PostAnswers(p)
      PROVE  Visited'
  <2>1. /\ hist' = hist /\ todo' = todo
        /\ \A q \in Proc : q # p => pc'[q] = pc[q]
        /\ pc[p] \in {"lookup", "read"} \/ pc'[p] \in {"reply", "returned"}
    BY <1>2, LookupEffect, HandleEffect, AnswersEffect DEF writeVars
  <2> QED  BY <2>1, VisitedStays
<1>3. ASSUME NEW g \in Stream, GetStep(g) PROVE Visited'
  <2>1. /\ hist' = hist /\ todo' = todo
        /\ \A q \in Proc : q # g => pc'[q] = pc[q]
    BY <1>3, MovesEffect, GreetEffect, AddEffect, CleanupEffect
    DEF GetStep, GetMoves, GetGreet, Greet, writeVars
  <2> QED  BY <2>1, VisitedStays
<1>4. ASSUME NEW p \in Sender, UNCHANGED httpVars,
             BroadcastBegin(p, "send") \/ BroadcastEnd(p, "returned")
      PROVE  Visited'
  <2>1. /\ hist' = hist
        /\ \A q \in Proc : q # p => pc'[q] = pc[q] /\ todo'[q] = todo[q]
        /\ \/ pc[p] = "send"
           \/ pc'[p] = "returned" /\ todo'[p] = todo[p]
    BY <1>4, BroadcastEffect DEF writeVars
  <2> QED  BY <2>1, VisitedStays
<1>5. ASSUME NEW p \in Writer, Writing(p) PROVE Visited'
  <2>1. UNCHANGED <<pc, todo, hist>>
    BY <1>5 DEF Writing, WriteNext, WriteOk, WriteFail
  <2> QED  BY <2>1, VisitedStays
<1>6. ASSUME NEW p \in Writer, Unlocks(p), UNCHANGED httpVars PROVE Visited'
  <2>1. /\ hist' = hist /\ todo' = todo
        /\ \A q \in Proc : q # p => pc'[q] = pc[q]
        /\ \/ p \in Post /\ pc'[p] = "reply"
           \/ p \in Sender /\ pc'[p] = "range"
    BY <1>6, UnlocksEffect DEF writeVars
  <2> QED  BY <2>1, VisitedStays
<1>7. CASE Cancel \/ (\E g \in Stream : Disconnect(g)) \/ UNCHANGED vars
  <2>1. UNCHANGED <<pc, todo, hist>>
    BY <1>7 DEF Cancel, Disconnect, vars, writeVars
  <2> QED  BY <2>1, VisitedStays
<1>8. ASSUME NEW p \in Post, PostStep(p) PROVE Visited'
  BY <1>2, <1>5, <1>6, <1>8, LocksVisited
  DEF PostStep, PostAnswers, PostWrite, Locks, Unlocks
<1>9. ASSUME NEW p \in Sender, SendStep(p) PROVE Visited'
  BY <1>4, <1>5, <1>6, <1>9, LocksVisited DEF SendStep, Locks, Unlocks
<1> QED  BY <1>1, <1>3, <1>7, <1>8, <1>9 DEF Next, Terminated

\* Logged is preserved by every step.
LEMMA NextLogged == ASSUME IInv, Logged, [Next]_vars PROVE Logged'
<1> USE Kinds
<1>1. CASE Arrives
  <2>1. /\ UNCHANGED <<sess, closed, left, out, hist>>
        /\ \A p \in Writer : pc'[p] = pc[p] \/ pc'[p] # "write"
        /\ \A w \in Stream : pc'[w] = pc[w] \/ pc[w] = "idle"
    BY <1>1, ArrivesEffect DEF Writer, sessVars, writeVars
  <2> QED  BY <2>1, CalmLogged
<1>2. ASSUME NEW p \in Post, PostLookup(p) \/ PostHandle(p) \/ PostAnswers(p) PROVE Logged'
  <2>1. /\ UNCHANGED <<closed, left, out, hist>>
        /\ \A q \in Proc : q # p => pc'[q] = pc[q] /\ sess'[q] = sess[q]
        /\ pc'[p] # "write"
    BY <1>2, LookupEffect, HandleEffect, AnswersEffect DEF sessVars, writeVars
  <2>2. \A w \in Stream : pc'[w] = pc[w] /\ sess'[w] = sess[w]
    BY <2>1
  <2> QED  BY <2>1, <2>2, CalmLogged
<1>3. ASSUME NEW g \in Stream, GetMoves(g) \/ GetGreet(g) \/ GetAddWriter(g) PROVE Logged'
  <2>1. /\ UNCHANGED <<closed, left, out, hist>>
        /\ \A q \in Proc : q # g => pc'[q] = pc[q] /\ sess'[q] = sess[q]
        /\ \/ pc[g] \in {"create", "insert", "greet", "opened"}
           \/ pc'[g] = "cleanup" /\ sess' = sess
    <3>1. CASE GetMoves(g)
      BY <3>1, MovesEffect DEF sessVars, writeVars
    <3>2. CASE GetGreet(g)
      <4>1. UNCHANGED <<sess, left, out, sessVars>> /\ UNCHANGED hist
        BY <3>2 DEF GetGreet, Greet
      <4> QED  BY <3>2, <4>1, GreetEffect DEF sessVars
    <3>3. CASE GetAddWriter(g)
      BY <3>3, AddEffect DEF writeVars
    <3> QED  BY <1>3, <3>1, <3>2, <3>3
  <2>2. \A q \in Writer : pc'[q] = pc[q] /\ sess'[q] = sess[q]
    BY <2>1
  <2> QED  BY <2>1, <2>2, CalmLogged
<1>4. ASSUME NEW g \in Stream, GetCleanup(g) PROVE Logged'
  <2>1. /\ UNCHANGED <<sess, left, out, hist>>
        /\ \A q \in Proc : q # g => pc'[q] = pc[q]
        /\ pc[g] = "cleanup" /\ pc'[g] = "returned"
        /\ \A w \in Stream : closed'[w] = (w = g \/ closed[w])
    BY <1>4, CleanupEffect DEF writeVars
  <2>2. sess[g] \in Sid
    BY <2>1 DEF IInv, Reaching, OpenRegistered, Open
  <2> QED  BY <2>1, <2>2 DEF Logged
<1>5. ASSUME NEW p \in Sender, UNCHANGED httpVars,
             BroadcastBegin(p, "send") \/ BroadcastEnd(p, "returned")
      PROVE  Logged'
  <2>1. /\ UNCHANGED <<sess, closed, left, out, hist>>
        /\ \A q \in Proc : q # p => pc'[q] = pc[q]
        /\ pc'[p] # "write"
    BY <1>5, BroadcastEffect DEF sessVars, writeVars
  <2> QED  BY <2>1, CalmLogged
<1>6. ASSUME NEW p \in Writer, Unlocks(p), UNCHANGED httpVars PROVE Logged'
  <2>1. /\ UNCHANGED <<sess, closed, left, out, hist>>
        /\ \A q \in Proc : q # p => pc'[q] = pc[q]
        /\ pc'[p] # "write"
    BY <1>6, UnlocksEffect DEF writeVars
  <2> QED  BY <2>1, CalmLogged
<1>7. CASE Cancel \/ (\E g \in Stream : Disconnect(g)) \/ UNCHANGED vars
  <2>1. UNCHANGED <<pc, sess, closed, left, out, hist>>
    BY <1>7 DEF Cancel, Disconnect, vars, sessVars, writeVars
  <2> QED  BY <2>1, CalmLogged
<1>8. ASSUME NEW p \in Post, PostStep(p) PROVE Logged'
  BY <1>2, <1>6, <1>8, LocksLogged, LoopLogged
  DEF PostStep, PostAnswers, PostWrite, Locks, Unlocks
<1>9. ASSUME NEW p \in Sender, SendStep(p) PROVE Logged'
  BY <1>5, <1>6, <1>9, LocksLogged, LoopLogged DEF SendStep, Locks, Unlocks
<1>10. ASSUME NEW g \in Stream, GetStep(g) PROVE Logged'
  BY <1>3, <1>4, <1>10 DEF GetStep, GetMoves
<1> QED  BY <1>1, <1>7, <1>8, <1>9, <1>10 DEF Next, Terminated

\* The session manager as a client sees it, per stream.
SameView(w) ==
  /\ RoomOf(w)' = RoomOf(w) /\ NextOf(w)' = NextOf(w) /\ Feed(w)' = Feed(w)

\* Nothing happened that a client sees.
LEMMA Stutters ==
  ASSUME hist' = hist, \A w \in Stream : SameView(w)
  PROVE  UNCHANGED Abstract!vars
BY DEF SameView, Abstract!vars

\* An event entered the log of a session.
LEMMA Publishes ==
  ASSUME NEW p \in Writer, NEW s \in Sid,
         ~Has(hist[s], p), hist' = [hist EXCEPT ![s] = Append(@, p)],
         \A w \in Stream : SameView(w)
  PROVE  Abstract!Next
<1>1. Abstract!Publish(p, s)
  BY DEF SameView, Has, Abstract!Publish
<1> QED  BY <1>1 DEF Abstract!Next

\* A stream attached to the end of a log.
LEMMA Attaches ==
  ASSUME NEW g \in Stream, NEW s \in Sid, hist' = hist,
         \A w \in Stream : w # g => SameView(w),
         RoomOf(g) = None, RoomOf(g)' = s, NextOf(g)' = Len(hist[s]) + 1,
         Feed(g)' = Feed(g)
  PROVE  Abstract!Next
<1> DEFINE room == [w \in Stream |-> RoomOf(w)]
           next == [w \in Stream |-> NextOf(w)]
<1>1. room' = [room EXCEPT ![g] = s]
  BY DEF SameView
<1>2. next' = [next EXCEPT ![g] = Len(hist[s]) + 1]
  BY DEF SameView
<1>3. [w \in Stream |-> Feed(w)]' = [w \in Stream |-> Feed(w)]
  BY DEF SameView
<1>4. Abstract!Attach(g, s)
  BY <1>1, <1>2, <1>3 DEF Abstract!Attach
<1> QED  BY <1>4 DEF Abstract!Next

\* A client read the entry it was to read next.
LEMMA Reads ==
  ASSUME NEW g \in Stream, NEW s \in Sid, hist' = hist,
         \A w \in Stream : w # g => SameView(w),
         RoomOf(g) = s, RoomOf(g)' = s,
         NextOf(g) = Len(hist[s]), NextOf(g) # 0, NextOf(g)' = NextOf(g) + 1,
         Feed(g)' = Append(Feed(g), hist[s][NextOf(g)]),
         Len(hist[s]) \in Nat
  PROVE  Abstract!Next
<1> DEFINE room == [w \in Stream |-> RoomOf(w)]
           next == [w \in Stream |-> NextOf(w)]
           feed == [w \in Stream |-> Feed(w)]
<1>1. room' = room
  BY DEF SameView
<1>2. next' = [next EXCEPT ![g] = @ + 1]
  BY DEF SameView
<1>3. feed' = [feed EXCEPT ![g] = Append(@, hist[room[g]][next[g]])]
  BY DEF SameView
<1>4. next[g] # 0 /\ next[g] <= Len(hist[room[g]])
  OBVIOUS
<1>5. Abstract!Read(g)
  BY <1>1, <1>2, <1>3, <1>4 DEF Abstract!Read
<1> QED  BY <1>5 DEF Abstract!Next

\* A stream detached.
LEMMA Detaches ==
  ASSUME NEW g \in Stream, hist' = hist,
         \A w \in Stream : w # g => SameView(w),
         RoomOf(g) # None, RoomOf(g)' = RoomOf(g), NextOf(g)' = 0, Feed(g)' = Feed(g)
  PROVE  Abstract!Next
<1> DEFINE room == [w \in Stream |-> RoomOf(w)]
           next == [w \in Stream |-> NextOf(w)]
           feed == [w \in Stream |-> Feed(w)]
<1>1. room' = room /\ feed' = feed
  BY DEF SameView
<1>2. next' = [w \in Stream |-> IF w \in {g} THEN 0 ELSE next[w]]
  BY DEF SameView
<1>3. Abstract!Detach({g})
  BY <1>1, <1>2 DEF Abstract!Detach
<1>4. {g} \in SUBSET {w \in Stream : room[w] # None}
  OBVIOUS
<1> QED  BY <1>3, <1>4 DEF Abstract!Next

\* What a stream's view depends on.
LEMMA ViewStays ==
  ASSUME NEW w \in Stream,
         Attached(w)' <=> Attached(w),
         Attached(w) => /\ sess'[w] = sess[w]
                        /\ closed'[w] <=> closed[w]
                        /\ ~closed[w] => /\ hist'[sess[w]] = hist[sess[w]]
                                         /\ Awaits(w)' <=> Awaits(w),
         sent'[w] = sent[w]
  PROVE  SameView(w)
<1>1. RoomOf(w)' = RoomOf(w)
  BY DEF RoomOf
<1>2. NextOf(w)' = NextOf(w)
  BY DEF NextOf
<1>3. Feed(w)' = Feed(w)
  BY DEF Feed, Greeted
<1> QED  BY <1>1, <1>2, <1>3 DEF SameView

\* Only goroutines in writeSSE make a stream wait.
LEMMA WhoWrites ==
  ASSUME TypeOK, NEW w \in Stream
  PROVE  Awaits(w) <=> \E p \in Writer : /\ pc[p] = "write" /\ sess[p] = sess[w]
                                         /\ w \in left[p] \/ out[p] = w
<1>1. \A p \in Proc : pc[p] = "write" => p \in Writer
  <2>1. \A g \in Stream : pc[g] # "write"
    BY DEF TypeOK, GetAt
  <2> QED  BY <2>1, SseAssumption DEF Writer
<1> QED  BY <1>1, Kinds DEF Awaits

\* A step outside of writeSSE, addWriter and cleanup changes no stream's view.
LEMMA CalmView ==
  ASSUME IInv, Logged, NEW w \in Stream,
         UNCHANGED <<writers, closed, left, out, hist>>, sent'[w] = sent[w],
         \A p \in Proc : \/ pc'[p] = pc[p] /\ sess'[p] = sess[p]
                         \/ "write" \notin {pc[p], pc'[p]},
         \/ sess'[w] = sess[w]
         \/ pc[w] = "insert" /\ sess'[w] \in Sid
  PROVE  SameView(w)
<1>1. CASE sess'[w] = sess[w]
  <2>1. Attached(w)' <=> Attached(w)
    BY <1>1 DEF Attached
  <2>2. Awaits(w)' <=> Awaits(w)
    BY <1>1 DEF Awaits
  <2> QED  BY <1>1, <2>1, <2>2, ViewStays
<1>2. CASE pc[w] = "insert" /\ sess'[w] \in Sid
  <2>1. ~closed[w] /\ \A s \in Sid : w \notin writers[s]
    BY <1>2 DEF Logged, IInv, Locking, Registered
  <2>2. sess[w] \in Sid \cup {None}
    BY Kinds DEF IInv, TypeOK
  <2>3. ~Attached(w)
    BY <2>1, <2>2 DEF Attached
  <2>4. ~Attached(w)'
    BY <1>2, <2>1 DEF Attached
  <2> QED  BY <2>3, <2>4, ViewStays
<1> QED  BY <1>1, <1>2

\* Arrivals, the map, the endpoint event and Broadcast's read lock are
\* invisible.
LEMMA QuietView ==
  ASSUME IInv, Logged,
         \/ Arrives
         \/ \E p \in Post : PostLookup(p) \/ PostHandle(p) \/ PostAnswers(p)
         \/ \E g \in Stream : GetMoves(g) \/ GetGreet(g) \/ Disconnect(g)
         \/ \E p \in Sender : /\ BroadcastBegin(p, "send") \/ BroadcastEnd(p, "returned")
                              /\ UNCHANGED httpVars
         \/ Cancel
         \/ UNCHANGED vars
  PROVE  UNCHANGED Abstract!vars
<1> USE Kinds
<1>1. CASE Arrives
  <2>1. /\ UNCHANGED <<sess, writers, closed, left, out, hist, sent>>
        /\ \A p \in Proc : \/ pc'[p] = pc[p]
                           \/ "write" \notin {pc[p], pc'[p]}
    <3>1. \A p \in Proc : p \in Post \/ p \in Stream \/ p \in Sender
      BY SseAssumption
    <3> QED  BY <1>1, <3>1, ArrivesEffect DEF sessVars, writeVars
  <2>2. \A w \in Stream : SameView(w)
    BY <2>1, CalmView
  <2> QED  BY <2>1, <2>2, Stutters
<1>2. ASSUME NEW p \in Post, PostLookup(p) \/ PostHandle(p) \/ PostAnswers(p)
      PROVE  UNCHANGED Abstract!vars
  <2>1. /\ UNCHANGED <<writers, closed, left, out, hist, sent>>
        /\ \A q \in Proc : q # p => pc'[q] = pc[q] /\ sess'[q] = sess[q]
        /\ "write" \notin {pc[p], pc'[p]}
    BY <1>2, LookupEffect, HandleEffect, AnswersEffect DEF sessVars, writeVars
  <2>2. \A w \in Stream : SameView(w)
    BY <2>1, CalmView
  <2> QED  BY <2>1, <2>2, Stutters
<1>3. ASSUME NEW g \in Stream, GetMoves(g) PROVE UNCHANGED Abstract!vars
  <2>1. /\ UNCHANGED <<writers, closed, left, out, hist, sent>>
        /\ \A q \in Proc : q # g => pc'[q] = pc[q] /\ sess'[q] = sess[q]
        /\ "write" \notin {pc[g], pc'[g]}
        /\ sess'[g] = sess[g] \/ (pc[g] = "insert" /\ sess'[g] \in Sid)
    BY <1>3, MovesEffect DEF sessVars, writeVars
  <2>2. \A w \in Stream : SameView(w)
    BY <2>1, CalmView
  <2> QED  BY <2>1, <2>2, Stutters
<1>4. ASSUME NEW p \in Sender, UNCHANGED httpVars,
             BroadcastBegin(p, "send") \/ BroadcastEnd(p, "returned")
      PROVE  UNCHANGED Abstract!vars
  <2>1. /\ UNCHANGED <<sess, writers, closed, left, out, hist, sent>>
        /\ \A q \in Proc : q # p => pc'[q] = pc[q]
        /\ "write" \notin {pc[p], pc'[p]}
    BY <1>4, BroadcastEffect DEF sessVars, writeVars
  <2>2. \A w \in Stream : SameView(w)
    BY <2>1, CalmView
  <2> QED  BY <2>1, <2>2, Stutters
<1>5. CASE Cancel \/ (\E g \in Stream : Disconnect(g)) \/ UNCHANGED vars
  <2>1. UNCHANGED <<pc, sess, writers, closed, left, out, hist, sent>>
    BY <1>5 DEF Cancel, Disconnect, vars, sessVars, writeVars
  <2>2. \A w \in Stream : SameView(w)
    BY <2>1, CalmView
  <2> QED  BY <2>1, <2>2, Stutters
<1>6. ASSUME NEW g \in Stream, GetGreet(g) PROVE UNCHANGED Abstract!vars
  <2>1. /\ UNCHANGED <<sess, writers, closed, left, out>>
        /\ \A q \in Proc : q # g => pc'[q] = pc[q]
        /\ pc[g] = "greet" /\ pc'[g] = "opened"
        /\ sent' = [sent EXCEPT ![g] = Append(@, g)] \/ sent' = sent
    BY <1>6, GreetEffect DEF sessVars
  <2>2. hist' = hist
    BY <1>6 DEF GetGreet, Greet
  <2>3. sent[g] = <<>> /\ \A w \in Stream : w # g => sent'[w] = sent[w]
    BY <2>1 DEF IInv, TypeOK, Feeds, Opened, Ungreeted
  <2>4. sent'[g] = <<>> \/ sent'[g] = <<g>>
    BY <2>1, <2>3 DEF IInv, TypeOK
  <2>5. Feed(g) = <<>> /\ Feed(g)' = <<>>
    <3>1. Feed(g) = <<>>
      BY <2>3 DEF Feed, Greeted
    <3>2. sent'[g] = <<g>> => Feed(g)' = <<>>
      <4>1. Tail(<<g>>) = <<>> /\ <<g>> # <<>> /\ <<g>>[1] = g
        OBVIOUS
      <4> QED  BY <4>1 DEF Feed, Greeted
    <3>3. sent'[g] = <<>> => Feed(g)' = <<>>
      BY DEF Feed, Greeted
    <3> QED  BY <2>4, <3>1, <3>2, <3>3
  <2>6. ~closed[g] /\ \A s \in Sid : g \notin writers[s]
    BY <2>1 DEF Logged, IInv, Locking, Registered
  <2>7. sess[g] \in Sid \cup {None}
    BY DEF IInv, TypeOK
  <2>8. ~Attached(g) /\ ~Attached(g)'
    BY <2>1, <2>6, <2>7 DEF Attached
  <2>9. SameView(g)
    BY <2>5, <2>8 DEF SameView, RoomOf, NextOf
  <2>10. \A w \in Stream : w # g => SameView(w)
    BY <2>1, <2>2, <2>3, CalmView
  <2> QED  BY <2>2, <2>9, <2>10, Stutters
<1> QED  BY <1>1, <1>2, <1>3, <1>4, <1>5, <1>6

\* addWriter attaches.
LEMMA AddView == ASSUME NEW g \in Stream, IInv, Logged, GetAddWriter(g) PROVE Abstract!Next
<1> USE Kinds
<1> DEFINE s == sess[g]
<1>1. /\ UNCHANGED <<sess, closed, left, out, hist, sent>>
      /\ \A q \in Proc : q # g => pc'[q] = pc[q]
      /\ pc[g] = "opened" /\ pc'[g] = "streaming"
      /\ SessionLockFree(s)
      /\ \A t \in Sid : writers'[t] = IF t = s THEN writers[t] \cup {g} ELSE writers[t]
  BY AddEffect DEF writeVars
<1>2. s \in Sid
  BY <1>1 DEF IInv, TypeOK, Feeds, Distinct
<1>3. ~closed[g] /\ g \notin writers[s]
  BY <1>1, <1>2 DEF Logged, IInv, Locking, Registered
<1>4. \A p \in Writer : ~(pc[p] = "write" /\ sess[p] = s)
  BY <1>1, <1>2, NobodyWrites DEF IInv
<1>5. ~Attached(g) /\ Attached(g)'
  BY <1>1, <1>2, <1>3, SessionsAssumption DEF Attached
<1>6. ~Awaits(g)'
  <2>1. \A p \in Proc : ~(pc'[p] = "write" /\ sess'[p] = sess'[g])
    <3>1. \A p \in Stream : pc'[p] # "write"
      BY <1>1 DEF IInv, TypeOK, GetAt
    <3>2. \A p \in Writer : pc'[p] = pc[p]
      BY <1>1
    <3>3. \A p \in Proc : p \in Writer \/ p \in Stream
      BY SseAssumption DEF Writer
    <3> QED  BY <1>1, <1>4, <3>1, <3>2, <3>3
  <2> QED  BY <2>1 DEF Awaits
<1>7. RoomOf(g) = None /\ RoomOf(g)' = s /\ Feed(g)' = Feed(g)
  BY <1>1, <1>5 DEF RoomOf, Feed, Greeted
<1>8. NextOf(g)' = Len(hist[s]) + 1
  BY <1>1, <1>3, <1>5, <1>6 DEF NextOf
<1>9. ASSUME NEW w \in Stream, w # g PROVE SameView(w)
  <2>1. \A t \in Sid : w \in writers'[t] <=> w \in writers[t]
    <3>1. \A t \in Sid : writers'[t] = writers[t] \cup {g} \/ writers'[t] = writers[t]
      BY <1>1
    <3> QED  BY <1>9, <3>1
  <2>2. sess[w] \in Sid \cup {None}
    BY DEF IInv, TypeOK
  <2>3. Attached(w)' <=> Attached(w)
    BY <1>1, <2>1, <2>2 DEF Attached
  <2>4. \A p \in Proc : pc'[p] = "write" <=> pc[p] = "write"
    BY <1>1
  <2>5. Awaits(w)' <=> Awaits(w)
    BY <1>1, <2>4 DEF Awaits
  <2> QED  BY <1>1, <2>3, <2>5, ViewStays
<1> QED  BY <1>1, <1>2, <1>7, <1>8, <1>9, Attaches

\* A step in which one stream of several is closed.
LEMMA CloseView ==
  ASSUME IInv, Logged, NEW g \in Stream, sess[g] \in Sid,
         closed[g] \/ g \in writers[sess[g]],
         \A w \in Stream : closed'[w] = (w = g \/ closed[w]),
         UNCHANGED <<sess, writers, left, hist, sent>>,
         \A p \in Proc : /\ pc'[p] = "write" <=> pc[p] = "write"
                         /\ out'[p] = out[p] \/ (out[p] = g /\ out'[p] = None)
  PROVE  Abstract!Next
<1>1. Attached(g) /\ Attached(g)'
  BY SessionsAssumption DEF Attached
<1>2. RoomOf(g) # None /\ RoomOf(g)' = RoomOf(g) /\ Feed(g)' = Feed(g)
  BY <1>1, SessionsAssumption DEF RoomOf, Feed, Greeted
<1>3. NextOf(g)' = 0
  BY DEF NextOf
<1>4. ASSUME NEW w \in Stream, w # g PROVE SameView(w)
  <2>1. closed'[w] <=> closed[w]
    BY <1>4
  <2>2. Attached(w)' <=> Attached(w)
    BY <2>1 DEF Attached
  <2>3. w # None
    BY SessionsAssumption
  <2>4. \A p \in Proc : out'[p] = w <=> out[p] = w
    BY <1>4, <2>3
  <2>5. Awaits(w)' <=> Awaits(w)
    BY <2>4 DEF Awaits
  <2> QED  BY <2>1, <2>2, <2>5, ViewStays
<1> QED  BY <1>2, <1>3, <1>4, Detaches

\* cleanup detaches.
LEMMA CleanupView ==
  ASSUME NEW g \in Stream, IInv, Logged, GetCleanup(g) PROVE Abstract!Next
<1> USE Kinds
<1>1. /\ UNCHANGED <<sess, writers, left, hist, sent, out>>
      /\ \A q \in Proc : q # g => pc'[q] = pc[q]
      /\ pc[g] = "cleanup" /\ pc'[g] = "returned"
      /\ \A w \in Stream : closed'[w] = (w = g \/ closed[w])
  BY CleanupEffect DEF writeVars
<1>2. sess[g] \in Sid /\ (closed[g] \/ g \in writers[sess[g]])
  BY <1>1 DEF IInv, Reaching, OpenRegistered, Open
<1>3. \A p \in Proc : pc'[p] = "write" <=> pc[p] = "write"
  BY <1>1
<1> QED  BY <1>1, <1>2, <1>3, CloseView

\* writeSSE publishes its event when it has the mutex.
LEMMA LocksView ==
  ASSUME NEW p \in Writer, IInv, Logged, Visited, Locks(p) PROVE Abstract!Next
<1> USE Kinds
<1>1. PICK s \in Sid :
        /\ \/ p \in Post /\ pc[p] = "deliver"
           \/ p \in Sender /\ pc[p] = "range" /\ s \in todo[p]
        /\ pc' = [pc EXCEPT ![p] = "write"]
        /\ mu[s] = None
        /\ sess' = [sess EXCEPT ![p] = s]
        /\ left' = [left EXCEPT ![p] = writers[s]]
        /\ hist' = [hist EXCEPT ![s] = Append(@, p)]
        /\ UNCHANGED <<writers, closed, out, sent>>
  BY LocksEffect
<1>2. /\ \A q \in Proc : q # p => pc'[q] = pc[q] /\ sess'[q] = sess[q] /\ left'[q] = left[q]
      /\ sess'[p] = s /\ left'[p] = writers[s] /\ pc'[p] = "write"
      /\ hist'[s] = Append(hist[s], p)
      /\ \A t \in Sid : t # s => hist'[t] = hist[t]
      /\ hist[s] \in Seq(Proc) /\ p \in Proc
      /\ out[p] = None
  BY <1>1 DEF IInv, TypeOK, Locking, InLoop
<1>3. \A q \in Writer : ~(pc[q] = "write" /\ sess[q] = s)
  BY <1>1, NobodyWrites DEF IInv, SessionLockFree
<1>4. ASSUME NEW w \in Stream PROVE SameView(w)
  <2>1. sess'[w] = sess[w] /\ sess[w] \in Sid \cup {None} /\ w # None
    BY <1>2, SessionsAssumption DEF IInv, TypeOK
  <2>2. Attached(w)' <=> Attached(w)
    BY <1>1, <2>1 DEF Attached
  <2>3. CASE sess[w] # s
    <3>1. Awaits(w)' <=> Awaits(w)
      BY <1>1, <1>2, <2>1, <2>3 DEF Awaits
    <3>2. Attached(w) => hist'[sess[w]] = hist[sess[w]]
      BY <1>2, <2>1, <2>3 DEF Attached
    <3> QED  BY <1>1, <2>1, <2>2, <3>1, <3>2, ViewStays
  <2>4. CASE sess[w] = s /\ Attached(w) /\ ~closed[w]
    <3>1. w \in writers[s]
      BY <2>4 DEF Attached
    <3>2. ~Awaits(w)
      BY <1>3, <2>4, WhoWrites DEF IInv
    <3>3. Awaits(w)'
      BY <1>2, <2>1, <2>4, <3>1 DEF Awaits
    <3>4. NextOf(w)' = NextOf(w)
      <4>1. NextOf(w) = Len(hist[s]) + 1
        BY <2>4, <3>2 DEF NextOf
      <4>2. NextOf(w)' = Len(Append(hist[s], p)) + 0
        BY <1>1, <1>2, <2>1, <2>2, <2>4, <3>3 DEF NextOf
      <4> QED  BY <1>2, <4>1, <4>2, Grows
    <3>5. RoomOf(w)' = RoomOf(w) /\ Feed(w)' = Feed(w)
      BY <1>1, <2>1, <2>2 DEF RoomOf, Feed, Greeted
    <3> QED  BY <3>4, <3>5 DEF SameView
  <2>5. CASE ~Attached(w) \/ closed[w]
    BY <1>1, <2>1, <2>2, <2>5, ViewStays
  <2> QED  BY <2>3, <2>4, <2>5
<1>5. ~Has(hist[s], p)
  BY <1>1, NotVisited
<1> QED  BY <1>1, <1>4, <1>5, Publishes

\* writeSSE replaces the list by one that lacks only closed streams.
LEMMA UnlocksView ==
  ASSUME NEW p \in Writer, IInv, Logged, Unlocks(p), UNCHANGED httpVars
  PROVE  UNCHANGED Abstract!vars
<1> USE Kinds
<1>1. PICK s \in Sid :
        /\ pc[p] = "write" /\ s = sess[p]
        /\ kept[p] \subseteq writers[s]
        /\ left[p] = {} /\ out[p] = None
        /\ pc'[p] # "write"
        /\ \A q \in Proc : q # p => pc'[q] = pc[q]
        /\ \A t \in Sid : writers'[t] = IF t = s THEN kept[p] ELSE writers[t]
        /\ UNCHANGED <<sess, closed, left, out, sent, hist>>
  BY UnlocksEffect DEF writeVars
<1>2. ASSUME NEW w \in Stream PROVE SameView(w)
  <2>1. sess[w] \in Sid \cup {None} /\ w # None
    BY SessionsAssumption DEF IInv, TypeOK
  <2>2. w \in writers[s] => closed[w] \/ w \in kept[p]
    BY <1>1, <2>1 DEF IInv, Reaching, LoopKeeps
  <2>3. Attached(w)' <=> Attached(w)
    BY <1>1, <2>1, <2>2 DEF Attached
  <2>4. Awaits(w)' <=> Awaits(w)
    BY <1>1, <2>1 DEF Awaits
  <2> QED  BY <1>1, <2>3, <2>4, ViewStays
<1> QED  BY <1>1, <1>2, Stutters

\* What follows the endpoint event is what others sent.
LEMMA FeedGrows ==
  ASSUME NEW w \in Stream, NEW p \in Proc, w # p, sent[w] \in Seq(Proc),
         sent'[w] = Append(sent[w], p)
  PROVE  Feed(w)' = Append(Feed(w), p)
<1>1. CASE sent[w] = <<>>
  <2>1. sent'[w] = <<p>>
    BY <1>1
  <2> QED  BY <1>1, <2>1 DEF Feed, Greeted
<1>2. CASE sent[w] # <<>>
  <2>1. sent'[w] # <<>> /\ sent'[w][1] = sent[w][1]
    BY <1>2, AppendHas
  <2>2. Greeted(w)' <=> Greeted(w)
    BY <1>2, <2>1 DEF Greeted
  <2>3. Tail(Append(sent[w], p)) = Append(Tail(sent[w]), p)
    BY <1>2
  <2> QED  BY <2>2, <2>3 DEF Feed
<1> QED  BY <1>1, <1>2

\* A write that succeeds is read; one that fails detaches.
LEMMA LoopView ==
  ASSUME NEW p \in Writer, IInv, Logged, Writing(p), UNCHANGED httpVars
  PROVE  Abstract!Next \/ UNCHANGED Abstract!vars
<1> USE Kinds
<1>1. CASE WriteNext(p)
  <2>1. PICK w \in left[p] :
          /\ left' = [left EXCEPT ![p] = @ \ {w}]
          /\ out' = IF ~closed[w] THEN [out EXCEPT ![p] = w] ELSE out
          /\ out[p] = None
          /\ UNCHANGED <<pc, sess, writers, closed, hist, sent>>
    BY <1>1 DEF WriteNext, IsActive, sessVars
  <2>2. /\ \A q \in Proc : q # p => left'[q] = left[q] /\ out'[q] = out[q]
        /\ left'[p] = left[p] \ {w} /\ out'[p] = IF ~closed[w] THEN w ELSE None
    BY <2>1 DEF IInv, TypeOK
  <2>3. ASSUME NEW v \in Stream PROVE SameView(v)
    <3>1. v # None
      BY SessionsAssumption
    <3>2. ~closed[v] => (Awaits(v)' <=> Awaits(v))
      <4>1. ASSUME NEW q \in Proc, ~closed[v]
            PROVE  (v \in left'[q] \/ out'[q] = v) <=> (v \in left[q] \/ out[q] = v)
        BY <2>1, <2>2, <3>1, <4>1
      <4> QED  BY <2>1, <4>1 DEF Awaits
    <3>3. Attached(v)' <=> Attached(v)
      BY <2>1 DEF Attached
    <3> QED  BY <2>1, <3>2, <3>3, ViewStays
  <2> QED  BY <2>1, <2>3, Stutters
<1>2. CASE WriteFail(p, gone)
  <2> DEFINE g == out[p]
  <2>1. /\ closed' = [closed EXCEPT ![g] = TRUE]
        /\ out' = [out EXCEPT ![p] = None]
        /\ g \in Stream /\ g # None
        /\ UNCHANGED <<pc, sess, writers, left, hist, sent>>
    BY <1>2, SessionsAssumption DEF WriteFail, IInv, TypeOK
  <2>2. sess[g] \in Sid /\ g \in writers[sess[g]]
    BY <2>1 DEF IInv, Locking, InLoop, Registered
  <2>3. /\ \A q \in Proc : out'[q] = out[q] \/ (out[q] = g /\ out'[q] = None)
        /\ \A w \in Stream : closed'[w] = (w = g \/ closed[w])
    BY <2>1 DEF IInv, TypeOK
  <2> HIDE DEF g
  <2> QED  BY <2>1, <2>2, <2>3, CloseView
<1>3. CASE WriteOk(p)
  <2>1. PICK w \in Stream :
          /\ pc[p] = "write" /\ w = out[p] /\ w \in writers[sess[p]]
          /\ sess[p] \in Sid /\ sess[w] = sess[p]
          /\ ~closed[w]
          /\ \A v \in Stream : v # w => sent'[v] = sent[v]
          /\ out' = [out EXCEPT ![p] = None]
          /\ UNCHANGED <<pc, sess, left, writers, closed>>
    BY <1>3, WriteOkEffect DEF sessVars
  <2>2. hist' = hist /\ sent'[w] = Append(sent[w], p) /\ sent[w] \in Seq(Proc)
    BY <1>3, <2>1 DEF WriteOk, IInv, TypeOK
  <2> DEFINE s == sess[p]
  <2>3. /\ Len(hist[s]) > 0 /\ hist[s][Len(hist[s])] = p /\ w \notin left[p]
        /\ Len(hist[s]) \in Nat
    BY <2>1, SessionsAssumption DEF Logged, IInv, TypeOK
  <2>4. \A q \in Proc : out'[q] = IF q = p THEN None ELSE out[q]
    BY <2>1 DEF IInv, TypeOK
  <2>5. Attached(w) /\ Attached(w)'
    BY <2>1, SessionsAssumption DEF Attached
  <2>6. Awaits(w)
    BY <2>1 DEF Awaits
  <2>7. ~Awaits(w)'
    <3>1. \A q \in Writer : q # p => ~(pc[q] = "write" /\ sess[q] = s)
      BY <2>1 DEF IInv, Locking, LockOwner
    <3>2. \A q \in Proc : pc[q] = "write" => q \in Writer
      <4>1. \A q \in Stream : pc[q] # "write"
        BY DEF IInv, TypeOK, GetAt
      <4> QED  BY <4>1, SseAssumption DEF Writer
    <3> QED  BY <2>1, <2>3, <2>4, <3>1, <3>2, SessionsAssumption DEF Awaits
  <2>8. RoomOf(w) = s /\ RoomOf(w)' = s
    BY <2>1, <2>5 DEF RoomOf
  <2>9. NextOf(w) = Len(hist[s]) /\ NextOf(w)' = Len(hist[s]) + 1
    BY <2>1, <2>2, <2>3, <2>5, <2>6, <2>7 DEF NextOf
  <2>10. Feed(w)' = Append(Feed(w), p)
    BY <2>2, FeedGrows
  <2>11. ASSUME NEW v \in Stream, v # w PROVE SameView(v)
    <3>1. v # None
      BY SessionsAssumption
    <3>2. Awaits(v)' <=> Awaits(v)
      BY <2>1, <2>4, <2>11, <3>1 DEF Awaits
    <3>3. Attached(v)' <=> Attached(v)
      BY <2>1 DEF Attached
    <3> QED  BY <2>1, <2>2, <2>11, <3>2, <3>3, ViewStays
  <2> HIDE DEF s
  <2> QED  BY <2>1, <2>2, <2>3, <2>8, <2>9, <2>10, <2>11, Reads DEF s
<1> QED  BY <1>1, <1>2, <1>3 DEF Writing

\* Every step of the transport is a step of EventStreams or is invisible.
LEMMA StepRefines ==
  ASSUME IInv, Logged, Visited, [Next]_vars PROVE [Abstract!Next]_(Abstract!vars)
<1>1. ASSUME NEW p \in Writer, Unlocks(p), UNCHANGED httpVars
      PROVE  UNCHANGED Abstract!vars
  BY <1>1, UnlocksView
<1>2. ASSUME NEW p \in Post, PostStep(p) PROVE [Abstract!Next]_(Abstract!vars)
  <2>1. p \in Writer
    BY Kinds
  <2>2. CASE PostLookup(p) \/ PostHandle(p) \/ PostAnswers(p)
    BY <2>2, QuietView
  <2>3. CASE PostDeliver(p)
    BY <2>1, <2>3, LocksView DEF Locks
  <2>4. CASE PostWrite(p)
    BY <1>1, <2>1, <2>4, LoopView DEF PostWrite, Unlocks
  <2> QED  BY <1>2, <2>2, <2>3, <2>4 DEF PostStep, PostAnswers
<1>3. ASSUME NEW g \in Stream, GetStep(g) PROVE [Abstract!Next]_(Abstract!vars)
  <2>1. CASE GetMoves(g) \/ GetGreet(g)
    BY <2>1, QuietView
  <2>2. CASE GetAddWriter(g) \/ GetCleanup(g)
    BY <2>2, AddView, CleanupView
  <2> QED  BY <1>3, <2>1, <2>2 DEF GetStep, GetMoves
<1>4. ASSUME NEW p \in Sender, SendStep(p) PROVE [Abstract!Next]_(Abstract!vars)
  <2>1. p \in Writer /\ UNCHANGED httpVars
    BY <1>4, Kinds DEF SendStep
  <2>2. CASE BroadcastBegin(p, "send") \/ BroadcastEnd(p, "returned")
    BY <2>1, <2>2, QuietView
  <2>3. CASE BroadcastSession(p)
    BY <2>1, <2>3, LocksView DEF Locks
  <2>4. CASE Writing(p)
    BY <2>1, <2>4, LoopView
  <2>5. CASE WriteUnlock(p, "range")
    BY <1>1, <2>1, <2>5 DEF Unlocks
  <2> QED  BY <1>4, <2>2, <2>3, <2>4, <2>5 DEF SendStep
<1>5. CASE Arrives \/ Cancel \/ (\E g \in Stream : Disconnect(g)) \/ UNCHANGED vars
  BY <1>5, QuietView
<1> QED  BY <1>2, <1>3, <1>4, <1>5 DEF Next, Terminated

\* The transport starts as EventStreams does.
LEMMA InitRefines == Init => Logged /\ Visited /\ Abstract!Init
<1> SUFFICES ASSUME Init PROVE Logged /\ Visited /\ Abstract!Init
  OBVIOUS
<1>1. /\ \A p \in Proc : pc[p] = "idle" /\ sess[p] = None /\ out[p] = None
      /\ \A w \in Stream : ~closed[w] /\ sent[w] = <<>>
      /\ hist = [s \in Sid |-> <<>>]
  BY DEF Init, NewSessionManager
<1>2. Logged
  BY <1>1, Kinds DEF Logged
<1>3. \A w \in Stream : RoomOf(w) = None /\ NextOf(w) = 0 /\ Feed(w) = <<>>
  BY <1>1, Kinds DEF RoomOf, NextOf, Attached, Feed, Greeted
<1>4. Visited
  BY <1>1 DEF Visited, Has
<1> QED  BY <1>1, <1>2, <1>3, <1>4 DEF Abstract!Init

SInv == IInv /\ Logged /\ Visited

\* SInv holds in every state of the transport.
THEOREM FeedInvariance == Spec => []SInv
<1>1. Init => SInv
  BY InitType, InitLocking, InitFeeds, InitReaching, InitRefines DEF IInv, SInv
<1>2. SInv /\ [Next]_vars => SInv'
  BY NextInv, NextLogged, NextVisited DEF SInv
<1> QED  BY <1>1, <1>2, PTL DEF Spec

\* The SSE transport implements EventStreams: each stream reads the log of its
\* session from where it attached, without gaps, until it detaches for good.
THEOREM Refinement == Spec => ImplementsEventStreams
<1>1. Init => Abstract!Init
  BY InitRefines
<1>2. SInv /\ [Next]_vars => [Abstract!Next]_(Abstract!vars)
  BY StepRefines DEF SInv
<1> QED  BY FeedInvariance, <1>1, <1>2, PTL DEF Spec, ImplementsEventStreams, Abstract!Spec

-----------------------------------------------------------------------------
(* What follows from the refinement.                                       *)

\* EventStreams as Abstract has it, with what is proved about it.
Streams ==
  INSTANCE EventStreamsProofs WITH
    Event <- Writer,
    log <- hist,
    room <- [w \in Stream |-> RoomOf(w)],
    next <- [w \in Stream |-> NextOf(w)],
    feed <- [w \in Stream |-> Feed(w)]

\* The two instances are of the same specification.
LEMMA SameSpec == Abstract!Spec => Streams!Spec
<1>1. Abstract!Init => Streams!Init
  BY DEF Abstract!Init, Streams!Init
<1>2. [Abstract!Next]_(Abstract!vars) => [Streams!Next]_(Streams!vars)
  BY DEF Abstract!Next, Abstract!vars, Abstract!Publish, Abstract!Attach, Abstract!Read,
         Abstract!Detach, Streams!Next, Streams!vars, Streams!Publish, Streams!Attach,
         Streams!Read, Streams!Detach
<1> QED  BY <1>1, <1>2, PTL DEF Abstract!Spec, Streams!Spec

\* A stream is in the room of its session.
LEMMA InRoom ==
  ASSUME TypeOK, NEW w \in Stream, RoomOf(w) # None
  PROVE  Attached(w) /\ RoomOf(w) = sess[w] /\ sess[w] \in Sid
<1>1. sess[w] \in Sid \cup {None}
  BY Kinds DEF TypeOK
<1> QED  BY <1>1 DEF RoomOf, Attached

\* A stream that is closed has left its log; one that is attached and open has
\* not.
LEMMA ClosedView ==
  ASSUME SInv, NEW w \in Stream
  PROVE  closed[w] <=> RoomOf(w) # None /\ NextOf(w) = 0
<1>1. ASSUME closed[w] PROVE RoomOf(w) # None /\ NextOf(w) = 0
  <2>1. sess[w] \in Sid /\ Attached(w)
    BY <1>1, SessionsAssumption DEF SInv, Logged, Attached
  <2> QED  BY <1>1, <2>1, SessionsAssumption DEF RoomOf, NextOf
<1>2. ASSUME ~closed[w], RoomOf(w) # None PROVE NextOf(w) # 0
  <2>1. Attached(w) /\ sess[w] \in Sid
    BY <1>2, InRoom DEF SInv, IInv
  <2>2. Len(hist[sess[w]]) \in Nat
    BY <2>1 DEF SInv, IInv, TypeOK
  <2>3. Awaits(w) => Len(hist[sess[w]]) > 0
    BY WhoWrites DEF SInv, IInv, Logged, Awaits
  <2>4. NextOf(w) = Len(hist[sess[w]]) + (IF Awaits(w) THEN 0 ELSE 1)
    BY <1>2, <2>1 DEF NextOf
  <2>5. CASE Awaits(w)
    BY <2>2, <2>3, <2>4, <2>5
  <2>6. CASE ~Awaits(w)
    BY <2>2, <2>4, <2>6
  <2> QED  BY <2>5, <2>6
<1> QED  BY <1>1, <1>2

\* What other goroutines sent to a stream is a gapless run of what was sent to its
\* session, as on the Streamable transport, and no event is in it twice.
GaplessFeed ==
  \A w \in Stream :
    /\ Feed(w) # <<>> =>
         \E i, j \in 1..Len(hist[sess[w]]) : Feed(w) = SubSeq(hist[sess[w]], i, j)
    /\ \A i, j \in 1..Len(Feed(w)) : Feed(w)[i] = Feed(w)[j] => i = j

\* No broadcast or response that a stream was registered for is missing between
\* two that its client has read, and none is read twice.
THEOREM FeedsHaveNoGaps == Spec => []GaplessFeed
<1>1. None \notin Sid
  BY SessionsAssumption
<1>2. SInv /\ Streams!Gapless /\ Streams!ReadOnce => GaplessFeed
  <2> SUFFICES ASSUME SInv, Streams!Gapless, Streams!ReadOnce, NEW w \in Stream
               PROVE  /\ Feed(w) # <<>> =>
                           \E i, j \in 1..Len(hist[sess[w]]) :
                             Feed(w) = SubSeq(hist[sess[w]], i, j)
                      /\ \A i, j \in 1..Len(Feed(w)) : Feed(w)[i] = Feed(w)[j] => i = j
    BY DEF GaplessFeed
  <2>1. ASSUME Feed(w) # <<>>
        PROVE  \E i, j \in 1..Len(hist[sess[w]]) : Feed(w) = SubSeq(hist[sess[w]], i, j)
    <3>1. RoomOf(w) # None /\ Streams!Run(Feed(w), hist[RoomOf(w)], NextOf(w))
      BY <2>1 DEF Streams!Gapless
    <3>2. RoomOf(w) = sess[w] /\ sess[w] \in Sid
      BY <3>1, InRoom DEF SInv, IInv
    <3>3. \E i \in 1..Len(hist[sess[w]]) : \E j \in i..Len(hist[sess[w]]) :
            Feed(w) = SubSeq(hist[sess[w]], i, j)
      BY <3>1, <3>2 DEF Streams!Run
    <3>4. Len(hist[sess[w]]) \in Nat
      BY <3>2 DEF SInv, IInv, TypeOK
    <3> QED  BY <3>3, <3>4
  <2>2. \A i, j \in 1..Len(Feed(w)) : Feed(w)[i] = Feed(w)[j] => i = j
    BY DEF Streams!ReadOnce, Streams!Distinct
  <2> QED  BY <2>1, <2>2
<1> QED  BY FeedInvariance, Refinement, SameSpec, Streams!NoGaps, Streams!AtMostOnce,
            <1>1, <1>2, PTL
         DEF ImplementsEventStreams

\* A stream that was closed, by its own cleanup or a failed write, stays closed,
\* and no other goroutine sends anything more to its client.
THEOREM ClosedForGood ==
  Spec => [][\A w \in Stream : closed[w] => closed'[w] /\ Feed(w)' = Feed(w)]_vars
<1> DEFINE Seen == \A w \in Stream : closed[w] <=> RoomOf(w) # None /\ NextOf(w) = 0
           Silent == \A w \in Stream : closed[w] => closed'[w] /\ Feed(w)' = Feed(w)
<1>1. SInv => Seen
  BY ClosedView
<1>2. Seen /\ Seen' /\ [Streams!StaysDetached]_(Streams!vars) => Silent
  <2> SUFFICES ASSUME Seen, Seen', [Streams!StaysDetached]_(Streams!vars),
                      NEW w \in Stream, closed[w]
               PROVE  closed'[w] /\ Feed(w)' = Feed(w)
    OBVIOUS
  <2>1. RoomOf(w) # None /\ NextOf(w) = 0
    OBVIOUS
  <2>2. NextOf(w)' = 0 /\ RoomOf(w)' = RoomOf(w) /\ Feed(w)' = Feed(w)
    <3>1. CASE Streams!StaysDetached
      BY <2>1, <3>1 DEF Streams!StaysDetached
    <3>2. CASE UNCHANGED Streams!vars
      <4>1. /\ [v \in Stream |-> RoomOf(v)]' = [v \in Stream |-> RoomOf(v)]
            /\ [v \in Stream |-> NextOf(v)]' = [v \in Stream |-> NextOf(v)]
            /\ [v \in Stream |-> Feed(v)]' = [v \in Stream |-> Feed(v)]
        BY <3>2 DEF Streams!vars
      <4>2. /\ [v \in Stream |-> RoomOf(v)]'[w] = RoomOf(w)'
            /\ [v \in Stream |-> NextOf(v)]'[w] = NextOf(w)'
            /\ [v \in Stream |-> Feed(v)]'[w] = Feed(w)'
        OBVIOUS
      <4> QED  BY <2>1, <4>1, <4>2
    <3> QED  BY <3>1, <3>2
  <2> QED  BY <2>1, <2>2
<1> HIDE DEF Seen, Silent
<1>3. Spec => [][Silent]_vars
  BY FeedInvariance, Refinement, SameSpec, Streams!DetachedForGood, <1>1, <1>2, PTL
  DEF ImplementsEventStreams
<1> QED  BY <1>3 DEF Silent

-----------------------------------------------------------------------------
(* Who waits for whom.                                                     *)

\* The writer's side of sm.mu belongs to the goroutine between the two steps of
\* Lock.
MapOwner == \A p \in Proc : pending = p <=> pc[p] = "insert"

\* The read lock is held in the range loop and nowhere else.
Inside == \A p \in readers : pc[p] \in {"range", "write"}

Holding == MapOwner /\ Inside

\* Before the first request nobody holds or wants the map's lock.
LEMMA InitHolding == Init => Holding
<1> SUFFICES ASSUME Init PROVE Holding
  OBVIOUS
<1>1. pending = None /\ readers = {} /\ \A p \in Proc : pc[p] = "idle"
  BY DEF Init, NewSessionManager
<1> QED
  BY <1>1, SessionsAssumption DEF Holding, MapOwner, Inside

\* A step of one goroutine from one place to another that leaves the map's lock
\* alone.
LEMMA MoveHolding ==
  ASSUME Holding, TypeOK, NEW p \in Proc, NEW to,
         UNCHANGED <<pending, readers>>,
         pc' = [pc EXCEPT ![p] = to],
         pc[p] # "insert" /\ to # "insert",
         pc[p] \in {"range", "write"} => to \in {"range", "write"} \/ p \notin Sender
  PROVE  Holding'
<1>1. pc'[p] = to /\ \A q \in Proc : q # p => pc'[q] = pc[q]
  BY DEF TypeOK
<1>2. MapOwner'
  BY <1>1 DEF Holding, MapOwner
<1>3. Inside'
  BY <1>1, Kinds DEF Holding, Inside, TypeOK
<1> QED  BY <1>2, <1>3 DEF Holding

\* A step inside a loop, or outside the server.
LEMMA StillHolding ==
  ASSUME Holding, UNCHANGED <<pending, readers, pc>> PROVE Holding'
BY DEF Holding, MapOwner, Inside

\* A POST only reads the map.
LEMMA PostHolding ==
  ASSUME NEW p \in Post, TypeOK, Holding, PostStep(p)
  PROVE  Holding'
<1> USE Kinds
<1>1. CASE Writing(p)
  <2>1. UNCHANGED <<pending, readers, pc>>
    BY <1>1 DEF Writing, WriteNext, WriteOk, WriteFail, mapVars
  <2> QED  BY <2>1, StillHolding
<1>2. CASE ~Writing(p)
  <2>1. /\ UNCHANGED <<pending, readers>>
        /\ pc[p] \in {"lookup", "read", "deliver", "write", "reply"}
        /\ \E to \in {"read", "deliver", "write", "reply", "returned"} :
             pc' = [pc EXCEPT ![p] = to]
    BY <1>2
    DEF PostStep, PostLookup, PostUnknown, PostBadBody, PostHandle, PostDeliver, WriteLock,
        PostWrite, WriteUnlock, PostReply, Refuse, Goto, mapVars
  <2> QED  BY <2>1, MoveHolding
<1> QED  BY <1>1, <1>2

\* A GET claims the map's lock to create its session.
LEMMA GetHolding ==
  ASSUME NEW g \in Stream, TypeOK, Holding, GetStep(g)
  PROVE  Holding'
<1> USE Kinds
<1>1. CASE GetCreate(g) \/ GetInsert(g)
  <2>1. /\ UNCHANGED readers
        /\ \/ pc' = [pc EXCEPT ![g] = "insert"] /\ pc[g] = "create" /\ pending' = g /\ pending = None
           \/ pc' = [pc EXCEPT ![g] = "greet"] /\ pc[g] = "insert" /\ pending' = None /\ pending = g
    BY <1>1 DEF GetCreate, MapLock, GetInsert, CreateInsert, MapLocked, Goto
  <2>2. /\ \/ pc'[g] = "insert" /\ pending' = g /\ pending = None
           \/ pc'[g] = "greet" /\ pending' = None /\ pending = g
        /\ pc[g] \notin {"range", "write"}
        /\ \A q \in Proc : q # g => pc'[q] = pc[q]
    BY <2>1 DEF TypeOK
  <2>3. MapOwner'
    BY <2>2, SessionsAssumption DEF Holding, MapOwner
  <2>4. Inside'
    BY <2>1, <2>2 DEF Holding, Inside, TypeOK
  <2> QED  BY <2>3, <2>4 DEF Holding
<1>2. CASE ~(GetCreate(g) \/ GetInsert(g))
  <2>1. /\ UNCHANGED <<pending, readers>>
        /\ pc[g] \in {"greet", "opened", "streaming", "cleanup"}
        /\ \E to \in {"opened", "streaming", "cleanup", "returned"} : pc' = [pc EXCEPT ![g] = to]
    BY <1>2 DEF GetStep, GetGreet, Greet, GetAddWriter, AddWriter, GetWake, GetCleanup, Cleanup,
                Goto, mapVars
  <2> QED  BY <2>1, MoveHolding
<1> QED  BY <1>1, <1>2

\* A Send holds the read lock from its first session to its last.
LEMMA SendHolding ==
  ASSUME NEW p \in Sender, TypeOK, Holding, SendStep(p)
  PROVE  Holding'
<1> USE Kinds
<1>1. CASE BroadcastBegin(p, "send") \/ BroadcastEnd(p, "returned")
  <2>1. /\ UNCHANGED pending
        /\ \/ pc' = [pc EXCEPT ![p] = "range"] /\ pc[p] = "send" /\ readers' = readers \cup {p}
           \/ pc' = [pc EXCEPT ![p] = "returned"] /\ pc[p] = "range" /\ readers' = readers \ {p}
    BY <1>1 DEF BroadcastBegin, BroadcastEnd, RLocked, Goto
  <2>2. /\ pc'[p] \in {"range", "returned"} /\ pc[p] # "insert"
        /\ \A q \in Proc : q # p => pc'[q] = pc[q]
        /\ p \in readers' => pc'[p] = "range"
        /\ readers' \subseteq readers \cup {p}
    BY <2>1 DEF TypeOK
  <2>3. MapOwner'
    BY <2>1, <2>2 DEF Holding, MapOwner
  <2>4. Inside'
    BY <2>2 DEF Holding, Inside, TypeOK
  <2> QED  BY <2>3, <2>4 DEF Holding
<1>2. CASE BroadcastSession(p) \/ WriteUnlock(p, "range")
  <2>1. /\ UNCHANGED <<pending, readers>>
        /\ pc[p] \in {"range", "write"}
        /\ \E to \in {"range", "write"} : pc' = [pc EXCEPT ![p] = to]
    BY <1>2 DEF BroadcastSession, WriteLock, WriteUnlock, Goto, mapVars
  <2> QED  BY <2>1, MoveHolding
<1>3. CASE Writing(p)
  <2>1. UNCHANGED <<pending, readers, pc>>
    BY <1>3 DEF Writing, WriteNext, WriteOk, WriteFail, mapVars
  <2> QED  BY <2>1, StillHolding
<1> QED  BY <1>1, <1>2, <1>3 DEF SendStep

\* What happens outside touches no lock.
LEMMA OutsideHolding ==
  ASSUME TypeOK, Holding,
         Arrives \/ Cancel \/ (\E g \in Stream : Disconnect(g)) \/ UNCHANGED vars
  PROVE  Holding'
<1> USE Kinds
<1>1. CASE Arrives
  <2>1. PICK p \in Proc :
          /\ pc[p] = "idle" /\ UNCHANGED <<pending, readers>>
          /\ \E to \in {"returned", "create", "lookup", "send"} : pc' = [pc EXCEPT ![p] = to]
    BY <1>1 DEF Arrives, PostArrives, GetArrives, SendCalled, Refuse, Goto, mapVars
  <2> QED  BY <2>1, MoveHolding
<1>2. CASE ~Arrives
  <2>1. UNCHANGED <<pending, readers, pc>>
    BY <1>2 DEF Cancel, Disconnect, vars, mapVars
  <2> QED  BY <2>1, StillHolding
<1> QED  BY <1>1, <1>2

\* Holding holds in every state of the transport.
THEOREM LocksHeld == Spec => []Holding
<1>1. TypeOK /\ Holding /\ [Next]_vars => Holding'
  BY PostHolding, GetHolding, SendHolding, OutsideHolding DEF Next, Terminated
<1> QED  BY TypeCorrect, InitHolding, <1>1, PTL DEF Spec

\* Whoever is waited for runs, and is nearer to the network.
LEMMA WaitsBelow ==
  ASSUME IInv, Holding, NEW p \in Proc, NEW q \in WaitsFor(p)
  PROVE  q \in Proc /\ Height(q) < Height(p)
<1> USE Kinds
<1>0. ASSUME NEW s \in Sid, mu[s] # None PROVE mu[s] \in Proc /\ pc[mu[s]] = "write"
  BY <1>0 DEF IInv, TypeOK, Locking, LockOwner
<1>1. CASE pc[p] \in {"lookup", "create", "send"}
  <2>1. q = pending /\ q # None
    BY <1>1 DEF WaitsFor
  <2>2. q \in Proc /\ pc[q] = "insert"
    BY <2>1 DEF IInv, TypeOK, Holding, MapOwner
  <2>3. Height(q) = 2 /\ Height(p) = 3
    BY <1>1, <2>2 DEF Height
  <2> QED  BY <2>2, <2>3
<1>2. CASE pc[p] = "insert"
  <2>1. q \in readers
    BY <1>2 DEF WaitsFor
  <2>2. q \in Proc /\ pc[q] \in {"range", "write"}
    BY <2>1 DEF IInv, TypeOK, Holding, Inside
  <2>3. Height(q) \in {0, 1} /\ Height(p) = 2
    BY <1>2, <2>2 DEF Height
  <2> QED  BY <2>2, <2>3
<1>3. CASE pc[p] \in {"opened", "cleanup", "deliver"}
  <2>1. q = mu[sess[p]] /\ q # None
    BY <1>3 DEF WaitsFor
  <2>2. p \in Stream => sess[p] \in Sid
    <3>1. pc[p] = "deliver" => p \notin Stream
      BY DEF IInv, TypeOK, GetAt
    <3>2. p \in Stream /\ pc[p] = "opened" => sess[p] \in Sid
      BY DEF IInv, TypeOK, Feeds, Distinct
    <3>3. p \in Stream /\ pc[p] = "cleanup" => sess[p] \in Sid
      BY DEF IInv, Reaching, OpenRegistered, Open
    <3> QED  BY <1>3, <3>1, <3>2, <3>3
  <2>3. p \in Post => sess[p] \in Sid
    BY <1>3 DEF IInv, TypeOK, PostAt, Feeds, Named
  <2>4. p \notin Sender
    BY <1>3 DEF IInv, TypeOK, SendAt
  <2>5. sess[p] \in Sid
    BY <2>2, <2>3, <2>4, SseAssumption
  <2>6. q \in Proc /\ pc[q] = "write"
    BY <1>0, <2>1, <2>5
  <2>7. Height(q) = 0 /\ Height(p) = 1
    BY <1>3, <2>6 DEF Height
  <2> QED  BY <2>6, <2>7
<1>4. CASE pc[p] = "range"
  <2>1. PICK s \in todo[p] : q = mu[s] /\ q # None
    BY <1>4 DEF WaitsFor
  <2>2. s \in Sid
    BY <2>1 DEF IInv, TypeOK
  <2>3. q \in Proc /\ pc[q] = "write"
    BY <1>0, <2>1, <2>2
  <2>4. Height(q) = 0 /\ Height(p) = 1
    BY <1>4, <2>3 DEF Height
  <2> QED  BY <2>3, <2>4
<1> QED  BY <1>1, <1>2, <1>3, <1>4 DEF WaitsFor

\* However many requests, streams and Sends there are, those that wait for a
\* lock wait, over at most two others, for a write in progress or for one that
\* can go on: they never wait in a circle.
THEOREM NoCircularWait == Spec => []WaitsDescend
<1>1. IInv /\ Holding => WaitsDescend
  BY WaitsBelow DEF WaitsDescend, Holding, MapOwner
<1> QED  BY Invariance, LocksHeld, <1>1, PTL

\* p holds a lock and can take its next step: it has all of the map's lock, it is
\* in the range loop of Broadcast and the mutex of a session ahead of it is free,
\* or it is in writeSSE, where only a client can keep it.
Advances(p) ==
  \/ pc[p] \in {"insert"} /\ MapLocked(p)
  \/ pc[p] = "range" /\ (todo[p] = {} \/ \E s \in todo[p] : SessionLockFree(s))
  \/ pc[p] = "write"

\* Who waits for a lock waits, over at most two others, for one that can go on.
NeverStuck ==
  \A p \in Proc : WaitsFor(p) # {} =>
    \E q \in Proc :
      /\ Advances(q)
      /\ \/ q \in WaitsFor(p)
         \/ \E r \in WaitsFor(p) :
              q \in WaitsFor(r) \/ \E t \in WaitsFor(r) : q \in WaitsFor(t)

\* A Broadcast with the read lock can go on, or waits for a write that can.
LEMMA ReaderAdvances ==
  ASSUME IInv, Holding, NEW r \in readers
  PROVE  r \in Proc /\ (Advances(r) \/ \E q \in WaitsFor(r) : q \in Proc /\ Advances(q))
<1>1. r \in Proc /\ pc[r] \in {"range", "write"}
  BY Kinds DEF IInv, TypeOK, Holding, Inside
<1>2. CASE pc[r] = "range" /\ ~Advances(r)
  <2>1. PICK s \in todo[r] : mu[s] # None
    BY <1>2 DEF Advances, SessionLockFree
  <2>2. mu[s] \in WaitsFor(r)
    BY <1>2, <2>1 DEF WaitsFor
  <2>3. mu[s] \in Proc /\ pc[mu[s]] = "write"
    BY <1>1, <2>1, Kinds DEF IInv, TypeOK, Locking, LockOwner
  <2> QED  BY <1>1, <2>2, <2>3 DEF Advances
<1> QED  BY <1>1, <1>2 DEF Advances

\* The goroutine that claimed the map's lock can go on, or waits for a reader.
LEMMA ClaimAdvances ==
  ASSUME IInv, Holding, NEW r \in Proc, pc[r] \in {"insert"}
  PROVE  \/ Advances(r)
         \/ \E t \in WaitsFor(r) :
              t \in Proc /\ (Advances(t) \/ \E q \in WaitsFor(t) : q \in Proc /\ Advances(q))
<1>1. pending = r
  BY DEF Holding, MapOwner
<1>2. WaitsFor(r) = readers
  BY DEF WaitsFor
<1>3. CASE readers = {}
  BY <1>1, <1>3 DEF Advances, MapLocked
<1>4. CASE readers # {}
  BY <1>2, <1>4, ReaderAdvances
<1> QED  BY <1>3, <1>4

\* The locks never bring the transport to a halt, whatever the number of
\* requests, streams and Sends: behind every goroutine that waits for one there is
\* a goroutine that holds one and waits for nobody but its client.
THEOREM SomebodyAdvances == Spec => []NeverStuck
<1>1. IInv /\ Holding => NeverStuck
  <2> SUFFICES ASSUME IInv, Holding, NEW p \in Proc, NEW r \in WaitsFor(p)
               PROVE  \E q \in Proc :
                        /\ Advances(q)
                        /\ \/ q \in WaitsFor(p)
                           \/ \E u \in WaitsFor(p) :
                                \/ q \in WaitsFor(u)
                                \/ \E t \in WaitsFor(u) : q \in WaitsFor(t)
    BY DEF NeverStuck
  <2>1. r \in Proc /\ Height(r) < Height(p)
    BY WaitsBelow
  <2>2. CASE pc[p] \in {"insert"}
    <3>1. r \in readers
      BY <2>2 DEF WaitsFor
    <3> QED  BY <2>1, <3>1, ReaderAdvances
  <2>3. CASE pc[p] \in {"lookup", "create", "send"}
    <3>1. pc[r] \in {"insert"}
      BY <2>1, <2>3 DEF WaitsFor, Holding, MapOwner
    <3>2. Advances(r) \/ \E t \in WaitsFor(r) :
            t \in Proc /\ (Advances(t) \/ \E q \in WaitsFor(t) : q \in Proc /\ Advances(q))
      BY <2>1, <3>1, ClaimAdvances
    <3> QED  BY <2>1, <3>2
  <2>4. CASE pc[p] \in {"opened", "cleanup", "deliver", "range"}
    <3>1. Height(p) = 1
      BY <2>4 DEF Height
    <3>2. pc[r] = "write"
      BY <2>1, <3>1 DEF Height
    <3> QED  BY <2>1, <3>2 DEF Advances
  <2> QED  BY <2>2, <2>3, <2>4 DEF WaitsFor
<1> QED  BY Invariance, LocksHeld, <1>1, PTL

-----------------------------------------------------------------------------
(* The order of what goroutines send.                                      *)

\* In every log the entry of p comes before the one of q.
LogsInOrder(p, q) ==
  \A s \in Sid : \A i, j \in 1..Len(hist[s]) : hist[s][i] = p /\ hist[s][j] = q => i < j

\* On every stream that has both the event of p comes before the one of q.
SentInOrder(p, q) ==
  \A w \in Stream : \A i, j \in 1..Len(Feed(w)) : Feed(w)[i] = p /\ Feed(w)[j] = q => i < j

\* Nobody who has returned enters a log, or is called again.
LEMMA LogsGrow ==
  ASSUME SInv, [Next]_vars
  PROVE  /\ \A p \in Writer : pc[p] = "returned" => pc'[p] = "returned"
         /\ \/ hist' = hist
            \/ \E r \in Writer, s \in Sid :
                 pc[r] # "returned" /\ hist' = [hist EXCEPT ![s] = Append(@, r)]
<1> USE Kinds
<1> DEFINE Calm == /\ hist' = hist
                   /\ \A q \in Writer : pc[q] = "returned" => pc'[q] = "returned"
           Log == \E r \in Writer, s \in Sid :
                    pc[r] # "returned" /\ hist' = [hist EXCEPT ![s] = Append(@, r)]
<1>1. ASSUME Arrives PROVE Calm
  <2>1. hist' = hist /\ \A q \in Proc : pc'[q] = pc[q] \/ pc[q] = "idle"
    BY <1>1, ArrivesEffect DEF SInv, writeVars
  <2> QED  BY <2>1
<1>2. ASSUME NEW p \in Post, PostLookup(p) \/ PostHandle(p) \/ PostAnswers(p)
      PROVE  Calm
  <2>1. hist' = hist /\ pc[p] # "returned" /\ \A q \in Proc : q # p => pc'[q] = pc[q]
    BY <1>2, LookupEffect, HandleEffect, AnswersEffect DEF SInv, writeVars
  <2> QED  BY <2>1
<1>3. ASSUME NEW g \in Stream, GetStep(g) PROVE Calm
  <2>1. hist' = hist /\ \A q \in Proc : q # g => pc'[q] = pc[q]
    BY <1>3, MovesEffect, GreetEffect, AddEffect, CleanupEffect
    DEF SInv, GetStep, GetMoves, GetGreet, Greet, writeVars
  <2> QED  BY <2>1
<1>4. ASSUME NEW p \in Sender, UNCHANGED httpVars,
             BroadcastBegin(p, "send") \/ BroadcastEnd(p, "returned")
      PROVE  Calm
  <2>1. hist' = hist /\ pc[p] # "returned" /\ \A q \in Proc : q # p => pc'[q] = pc[q]
    BY <1>4, BroadcastEffect DEF SInv, writeVars
  <2> QED  BY <2>1
<1>5. ASSUME NEW p \in Writer, Writing(p) PROVE Calm
  BY <1>5 DEF Writing, WriteNext, WriteOk, WriteFail
<1>6. ASSUME NEW p \in Writer, Unlocks(p), UNCHANGED httpVars PROVE Calm
  <2>1. hist' = hist /\ pc[p] = "write" /\ \A q \in Proc : q # p => pc'[q] = pc[q]
    BY <1>6, UnlocksEffect DEF SInv, writeVars
  <2> QED  BY <2>1
<1>7. ASSUME NEW p \in Writer, Locks(p)
      PROVE  Log /\ \A q \in Writer : pc[q] = "returned" => pc'[q] = "returned"
  <2>1. PICK s \in Sid :
          /\ pc[p] \in {"deliver", "range"} /\ pc' = [pc EXCEPT ![p] = "write"]
          /\ hist' = [hist EXCEPT ![s] = Append(@, p)]
    BY <1>7, LocksEffect DEF SInv
  <2>2. \A q \in Proc : q # p => pc'[q] = pc[q]
    BY <2>1 DEF SInv, IInv, TypeOK
  <2> QED  BY <2>1, <2>2
<1>8. ASSUME Cancel \/ (\E g \in Stream : Disconnect(g)) \/ UNCHANGED vars PROVE Calm
  BY <1>8 DEF Cancel, Disconnect, vars, writeVars
<1> HIDE DEF Calm, Log
<1>9. (Calm \/ Log) /\ \A q \in Writer : pc[q] = "returned" => pc'[q] = "returned"
  <2>1. ASSUME NEW p \in Post, PostStep(p)
        PROVE  Calm \/ (Log /\ \A q \in Writer : pc[q] = "returned" => pc'[q] = "returned")
    BY <1>2, <1>5, <1>6, <1>7, <2>1 DEF PostStep, PostAnswers, PostWrite, Locks, Unlocks
  <2>2. ASSUME NEW p \in Sender, SendStep(p)
        PROVE  Calm \/ (Log /\ \A q \in Writer : pc[q] = "returned" => pc'[q] = "returned")
    BY <1>4, <1>5, <1>6, <1>7, <2>2 DEF SendStep, Locks, Unlocks
  <2> QED  BY <1>1, <1>3, <1>8, <2>1, <2>2 DEF Next, Terminated, Calm
<1> QED  BY <1>9 DEF Calm, Log

\* A log in which p comes before q stays so once p has returned: p enters no log
\* any more, and q only at the end.
LEMMA OrderStays ==
  ASSUME SInv, [Next]_vars, NEW p \in Writer, NEW q \in Writer,
         pc[p] = "returned", LogsInOrder(p, q)
  PROVE  pc'[p] = "returned" /\ LogsInOrder(p, q)'
<1>1. pc'[p] = "returned"
  BY LogsGrow
<1>2. ASSUME hist' = hist PROVE LogsInOrder(p, q)'
  BY <1>2 DEF LogsInOrder
<1>3. ASSUME NEW r \in Writer, NEW s \in Sid, pc[r] # "returned",
             hist' = [hist EXCEPT ![s] = Append(@, r)]
      PROVE  LogsInOrder(p, q)'
  <2>1. r # p /\ r \in Proc
    BY <1>3, Kinds
  <2>2. /\ hist[s] \in Seq(Proc) /\ hist'[s] = Append(hist[s], r)
        /\ \A t \in Sid : t # s => hist'[t] = hist[t]
    BY <1>3 DEF SInv, IInv, TypeOK
  <2>3. /\ Len(hist'[s]) = Len(hist[s]) + 1 /\ Len(hist[s]) \in Nat
        /\ hist'[s][Len(hist[s]) + 1] = r
        /\ \A i \in 1..Len(hist[s]) : hist'[s][i] = hist[s][i]
    BY <2>1, <2>2
  <2>4. ASSUME NEW i \in 1..Len(hist'[s]), NEW j \in 1..Len(hist'[s]),
               hist'[s][i] = p, hist'[s][j] = q
        PROVE  i < j
    <3>1. i \in 1..Len(hist[s]) /\ hist[s][i] = p
      BY <2>1, <2>3, <2>4
    <3>2. CASE j \in 1..Len(hist[s])
      BY <2>3, <2>4, <3>1, <3>2 DEF LogsInOrder
    <3>3. CASE j = Len(hist[s]) + 1
      BY <2>3, <3>1, <3>3
    <3> QED  BY <2>3, <3>2, <3>3
  <2>5. ASSUME NEW t \in Sid, NEW i \in 1..Len(hist'[t]), NEW j \in 1..Len(hist'[t]),
               hist'[t][i] = p, hist'[t][j] = q
        PROVE  i < j
    <3>1. CASE t = s
      BY <2>4, <2>5, <3>1
    <3>2. CASE t # s
      <4>1. hist'[t] = hist[t]
        BY <2>2, <3>2
      <4> QED  BY <2>5, <4>1 DEF LogsInOrder
    <3> QED  BY <3>1, <3>2
  <2> QED  BY <2>5 DEF LogsInOrder
<1>4. CASE hist' = hist
  BY <1>1, <1>2, <1>4
<1>5. CASE \E r \in Writer, s \in Sid :
             pc[r] # "returned" /\ hist' = [hist EXCEPT ![s] = Append(@, r)]
  BY <1>1, <1>3, <1>5
<1> QED  BY LogsGrow, <1>4, <1>5

\* A run of a log has its order.
LEMMA RunsKeepOrder ==
  ASSUME SInv, Streams!Gapless, NEW p, NEW q, LogsInOrder(p, q)
  PROVE  SentInOrder(p, q)
<1> SUFFICES ASSUME NEW w \in Stream, NEW i \in 1..Len(Feed(w)), NEW j \in 1..Len(Feed(w)),
                    Feed(w)[i] = p, Feed(w)[j] = q
             PROVE  i < j
  BY DEF SentInOrder
<1>1. Feed(w) # <<>> /\ Feed(w) \in Seq(Proc)
  <2>1. sent[w] \in Seq(Proc)
    BY DEF SInv, IInv, TypeOK
  <2>2. CASE Greeted(w)
    <3>1. Tail(sent[w]) \in Seq(Proc)
      BY <2>1, <2>2 DEF Greeted
    <3> QED  BY <2>2, <3>1 DEF Feed
  <2>3. CASE ~Greeted(w)
    BY <2>1, <2>3 DEF Feed
  <2> QED  BY <2>2, <2>3
<1>2. RoomOf(w) # None /\ Streams!Run(Feed(w), hist[RoomOf(w)], NextOf(w))
  BY <1>1 DEF Streams!Gapless
<1>3. PICK s \in Sid : s = RoomOf(w)
  BY <1>2, InRoom DEF SInv, IInv
<1>4. hist[s] \in Seq(Proc) /\ Len(hist[s]) \in Nat
  BY DEF SInv, IInv, TypeOK
<1>5. PICK a \in 1..Len(hist[s]), b \in 1..Len(hist[s]) : Feed(w) = SubSeq(hist[s], a, b)
  <2>1. \E a \in 1..Len(hist[s]) : \E b \in a..Len(hist[s]) : Feed(w) = SubSeq(hist[s], a, b)
    BY <1>2, <1>3 DEF Streams!Run
  <2> QED  BY <1>4, <2>1
<1>6. \A k \in 1..Len(Feed(w)) :
        a + k - 1 \in 1..Len(hist[s]) /\ Feed(w)[k] = hist[s][a + k - 1]
  BY <1>4, <1>5
<1>7. a + i - 1 < a + j - 1
  BY <1>6 DEF LogsInOrder
<1> QED  BY <1>1, <1>5, <1>7

\* A response or a Send that began after another had returned comes after it on
\* every stream, for good: a client that has the 202 of one POST before it sends
\* the next one reads the two responses in that order.
THEOREM WritesKeepOrder ==
  ASSUME NEW p \in Writer, NEW q \in Writer
  PROVE  Spec => [](pc[p] = "returned" /\ pc[q] = "idle" => []SentInOrder(p, q))
<1> DEFINE I == pc[p] = "returned" /\ LogsInOrder(p, q)
<1>1. None \notin Sid
  BY SessionsAssumption
<1>2. SInv /\ pc[p] = "returned" /\ pc[q] = "idle" => I
  <2> SUFFICES ASSUME SInv, pc[p] = "returned", pc[q] = "idle",
                      NEW s \in Sid, NEW j \in 1..Len(hist[s]), hist[s][j] = q
               PROVE  FALSE
    BY DEF LogsInOrder
  <2>1. q \in Post \/ q \in Sender
    BY DEF Writer
  <2> QED  BY <2>1, Kinds DEF SInv, Visited, Has
<1>3. SInv /\ I /\ [Next]_vars => I'
  BY OrderStays
<1>4. SInv /\ Streams!Gapless /\ I => SentInOrder(p, q)
  BY RunsKeepOrder
<1> HIDE DEF I
<1> QED  BY FeedInvariance, Refinement, SameSpec, Streams!NoGaps, <1>1, <1>2, <1>3, <1>4, PTL
         DEF ImplementsEventStreams, Spec

=============================================================================
