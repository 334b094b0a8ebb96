----------------------------- MODULE Streamable -----------------------------
(***************************************************************************)
(* The Streamable HTTP transport (framework/transport/streamable.go): the  *)
(* handlers of POST, GET and DELETE on the MCP endpoint and Send, each run *)
(* by its own goroutine, over the session manager of Sessions.             *)
(*                                                                         *)
(* A POST, DELETE or Send goroutine is one request.  A GET goroutine is    *)
(* one event stream, and also names its sseWriter.  The message handler    *)
(* that a POST calls is atomic here: what it computes is not the           *)
(* transport's business.                                                   *)
(***************************************************************************)
EXTENDS Sessions

CONSTANTS
  Post,     \* POST requests
  Deleter,  \* DELETE requests
  Sender,   \* calls of Send
  Stale     \* an id this server never issued

ASSUME StreamableAssumption ==
  /\ Proc = Post \cup Stream \cup Deleter \cup Sender
  /\ Post \cap Stream = {} /\ Post \cap Deleter = {} /\ Post \cap Sender = {}
  /\ Stream \cap Deleter = {} /\ Stream \cap Sender = {}
  /\ Deleter \cap Sender = {}
  /\ Stale \notin Sid
  /\ Stale # None
  /\ None # "204"

VARIABLES
  hdr,      \* the Mcp-Session-Id of the request, None when it is absent
  status,   \* the status line written, None before
  given,    \* the Mcp-Session-Id of a POST's response
  gone,     \* streams whose client has disconnected (r.Context() done)
  ctxDone   \* the context given to Start is cancelled

httpVars == <<hdr, status, given, gone, ctxDone>>
vars == <<pc, sess, todo, due, mapVars, sessVars, writeVars, httpVars>>

Init ==
  /\ NewSessionManager
  /\ hdr = [p \in Proc |-> None]
  /\ status = [p \in Proc |-> None]
  /\ given = [p \in Proc |-> None]
  /\ gone = {}
  /\ ctxDone = FALSE

\* The ids a client can present: those in the responses so far, and one that
\* is not the server's (mistyped, or from before a restart).
Known == {given[p] : p \in Post} \ {None}
Presentable == Known \cup {Stale}

\* A handler returns without having touched the session manager.
Refuse(p, from, code) ==
  /\ Goto(p, from, "returned")
  /\ status' = [status EXCEPT ![p] = code]
  /\ UNCHANGED <<sess, todo, due, hdr, given, gone, ctxDone, mapVars, sessVars, writeVars>>

\* A request arrives; those that must be authenticated are.
Accept(p, id) ==
  /\ Goto(p, "idle", "lookup")
  /\ hdr' = [hdr EXCEPT ![p] = id]
  /\ UNCHANGED <<sess, todo, due, status, given, gone, ctxDone, mapVars, sessVars, writeVars>>

-----------------------------------------------------------------------------
(* POST                                                                    *)

\* 401 from authenticate, 400 when the body cannot be read.
PostArrives(p) ==
  \/ Refuse(p, "idle", "401")
  \/ Refuse(p, "idle", "400")
  \/ \E id \in Presentable \cup {None} : Accept(p, id)

PostLookup(p) ==
  /\ CanRLock \/ hdr[p] = None
  /\ sess' = [sess EXCEPT ![p] = GetSession(hdr[p])]
  /\ Goto(p, "lookup", IF sess'[p] = None THEN "create" ELSE "handle")
  /\ UNCHANGED <<todo, due, mapVars, sessVars, writeVars, httpVars>>

PostCreate(p) == MapLock(p, "create", "insert") /\ UNCHANGED httpVars

PostInsert(p) == CreateInsert(p, "insert", "handle") /\ UNCHANGED httpVars

\* The handler has run; the response carries the session's id.
PostRespond(p) ==
  /\ Goto(p, "handle", "returned")
  /\ given' = [given EXCEPT ![p] = sess[p]]
  /\ \E code \in {"200", "202"} : status' = [status EXCEPT ![p] = code]
  /\ UNCHANGED <<sess, todo, due, hdr, gone, ctxDone, mapVars, sessVars, writeVars>>

PostStep(p) == PostLookup(p) \/ PostCreate(p) \/ PostInsert(p) \/ PostRespond(p)

-----------------------------------------------------------------------------
(* GET                                                                     *)

GetArrives(g) ==
  \/ Refuse(g, "idle", "401")
  \/ Refuse(g, "idle", "400")
  \/ \E id \in Presentable : Accept(g, id)

GetLookup(g) ==
  /\ CanRLock
  /\ GetSession(hdr[g]) # None
  /\ Goto(g, "lookup", "found")
  /\ sess' = [sess EXCEPT ![g] = hdr[g]]
  /\ UNCHANGED <<todo, due, mapVars, sessVars, writeVars, httpVars>>

GetUnknown(g) ==
  /\ CanRLock
  /\ GetSession(hdr[g]) = None
  /\ Refuse(g, "lookup", "404")

\* The ResponseWriter is not a Flusher.
GetNoFlusher(g) == Refuse(g, "found", "500")

\* The headers go out: the client sees an open stream.
GetOpen(g) ==
  /\ Goto(g, "found", "opened")
  /\ status' = [status EXCEPT ![g] = "200"]
  /\ UNCHANGED <<sess, todo, due, hdr, given, gone, ctxDone, mapVars, sessVars, writeVars>>

GetAddWriter(g) == AddWriter(g, "opened", "streaming") /\ UNCHANGED httpVars

\* Mutant: the handler does not wait for ctx.
StreamIgnoresCancel(g) == done[g] \/ g \in gone

\* Mutant: the handler does not wait for done.
StreamIgnoresDone(g) == g \in gone \/ ctxDone

\* The conditions of the select on which the handler sleeps.
StreamEnds(g) == done[g] \/ g \in gone \/ ctxDone

GetWake(g) ==
  /\ StreamEnds(g)
  /\ Goto(g, "streaming", "cleanup")
  /\ UNCHANGED <<sess, todo, due, mapVars, sessVars, writeVars, httpVars>>

\* The deferred cleanup; then net/http takes the connection back.
GetCleanup(g) == Cleanup(g, "cleanup", "returned") /\ UNCHANGED httpVars

GetStep(g) ==
  \/ GetLookup(g) \/ GetUnknown(g) \/ GetNoFlusher(g)
  \/ GetOpen(g) \/ GetAddWriter(g) \/ GetWake(g) \/ GetCleanup(g)

-----------------------------------------------------------------------------
(* DELETE.  handleDelete does not authenticate.                            *)

DeleteArrives(d) ==
  \/ Refuse(d, "idle", "400")
  \/ \E id \in Presentable : Accept(d, id)

DeleteLookup(d) ==
  /\ CanRLock
  /\ GetSession(hdr[d]) # None
  /\ Goto(d, "lookup", "delete")
  /\ UNCHANGED <<sess, todo, due, mapVars, sessVars, writeVars, httpVars>>

DeleteUnknown(d) ==
  /\ CanRLock
  /\ GetSession(hdr[d]) = None
  /\ Refuse(d, "lookup", "404")

DeleteLock(d) == MapLock(d, "delete", "remove") /\ UNCHANGED httpVars

DeleteFromMap(d) ==
  DeleteRemove(d, hdr[d], "remove", "sweep", "reply") /\ UNCHANGED httpVars

DeleteWriters(d) == DeleteSweep(d, hdr[d], "sweep", "reply") /\ UNCHANGED httpVars

DeleteReply(d) == Refuse(d, "reply", "204")

DeleteStep(d) ==
  \/ DeleteLookup(d) \/ DeleteUnknown(d) \/ DeleteLock(d)
  \/ DeleteFromMap(d) \/ DeleteWriters(d) \/ DeleteReply(d)

-----------------------------------------------------------------------------
(* Send                                                                    *)

SendCalled(p) ==
  /\ Goto(p, "idle", "send")
  /\ UNCHANGED <<sess, todo, due, mapVars, sessVars, writeVars, httpVars>>

SendStep(p) ==
  /\ \/ BroadcastBegin(p, "send") \/ BroadcastSession(p)
     \/ WriteNext(p) \/ WriteOk(p) \/ WriteFail(p, gone) \/ WriteUnlock(p, "range")
     \/ BroadcastEnd(p, "returned")
  /\ UNCHANGED httpVars

-----------------------------------------------------------------------------
(* The environment and the whole system.                                   *)

\* The client of an open stream goes away.
Disconnect(g) ==
  /\ pc[g] \notin {"idle", "returned"}
  /\ g \notin gone
  /\ gone' = gone \cup {g}
  /\ UNCHANGED <<pc, sess, todo, due, hdr, status, given, ctxDone, mapVars, sessVars,
                 writeVars>>

\* The context given to Start is cancelled.
Cancel ==
  /\ ~ctxDone
  /\ ctxDone' = TRUE
  /\ UNCHANGED <<pc, sess, todo, due, hdr, status, given, gone, mapVars, sessVars, writeVars>>

\* Every request has been served.
Terminated ==
  /\ \A p \in Proc : pc[p] = "returned"
  /\ UNCHANGED vars

\* What clients and callers start.
Arrives ==
  \/ \E p \in Post : PostArrives(p)
  \/ \E g \in Stream : GetArrives(g)
  \/ \E d \in Deleter : DeleteArrives(d)
  \/ \E p \in Sender : SendCalled(p)

Next ==
  \/ Arrives
  \/ \E p \in Post : PostStep(p)
  \/ \E g \in Stream : GetStep(g) \/ Disconnect(g)
  \/ \E d \in Deleter : DeleteStep(d)
  \/ \E p \in Sender : SendStep(p)
  \/ Cancel
  \/ Terminated

Spec == Init /\ [][Next]_vars

\* The scheduler runs every goroutine; nothing forces a client to act.
Fairness ==
  /\ \A p \in Post : WF_vars(PostStep(p))
  /\ \A g \in Stream : WF_vars(GetStep(g))
  /\ \A d \in Deleter : WF_vars(DeleteStep(d))
  /\ \A p \in Sender : WF_vars(SendStep(p))

FairSpec == Spec /\ Fairness

-----------------------------------------------------------------------------
(* What the transport promises.                                            *)

PostAt == {"idle", "lookup", "create", "insert", "handle", "returned"}
GetAt == {"idle", "lookup", "found", "opened", "streaming", "cleanup", "returned"}
DeleteAt == {"idle", "lookup", "delete", "remove", "sweep", "reply", "returned"}
SendAt == {"idle", "send", "range", "write", "returned"}
Status == {None, "200", "202", "204", "400", "401", "404", "500"}

\* Every variable has its type.
TypeOK ==
  /\ pc \in [Proc -> PostAt \cup GetAt \cup DeleteAt \cup SendAt]
  /\ \A p \in Post : pc[p] \in PostAt
  /\ \A g \in Stream : pc[g] \in GetAt
  /\ \A d \in Deleter : pc[d] \in DeleteAt
  /\ \A p \in Sender : pc[p] \in SendAt
  /\ sess \in [Proc -> Sid \cup {None}]
  /\ sessions \subseteq used
  /\ used \subseteq Sid
  /\ pending \in Proc \cup {None}
  /\ readers \subseteq Sender
  /\ writers \in [Sid -> SUBSET Stream]
  /\ mu \in [Sid -> Sender \cup {None}]
  /\ closed \in [Stream -> BOOLEAN]
  /\ done \in [Stream -> BOOLEAN]
  /\ todo \in [Proc -> SUBSET Sid]
  /\ left \in [Proc -> SUBSET Stream]
  /\ kept \in [Proc -> SUBSET Stream]
  /\ out \in [Proc -> Stream \cup {None}]
  /\ sent \in [Stream -> Seq(Proc)]
  /\ hist \in [Sid -> Seq(Proc)]
  /\ due \in [Proc -> SUBSET Stream]
  /\ hdr \in [Proc -> Sid \cup {Stale, None}]
  /\ status \in [Proc -> Status]
  /\ given \in [Proc -> Sid \cup {None}]
  /\ gone \subseteq Stream
  /\ ctxDone \in BOOLEAN

\* No write to a ResponseWriter is in progress once the handler that owns it
\* has returned: the purpose of addWriter's cleanup (session.go:50).  A
\* Broadcast holds s.mu across the write, cleanup waits for it, and what it
\* sets is read before the next write.
EmitToLive ==
  \A p \in Sender : out[p] # None => pc[out[p]] \in {"streaming", "cleanup"}

\* What a client has read from an event stream is a gapless run of what was
\* sent to its session, in the one order all streams of the session share, and
\* has no event twice, however broadcasts, disconnects and DELETEs overlap.
GaplessFeed ==
  \A w \in Stream :
    /\ sent[w] # <<>> =>
         \E i, j \in 1..Len(hist[sess[w]]) : sent[w] = SubSeq(hist[sess[w]], i, j)
    /\ \A i, j \in 1..Len(sent[w]) : sent[w][i] = sent[w][j] => i = j

\* When Send has returned, each stream that was active when it took the read
\* lock has been sent the message, unless the stream broke or closed under it.
BroadcastReaches ==
  \A p \in Sender : pc[p] = "returned" =>
    \A w \in due[p] : closed[w] \/ \E i \in 1..Len(sent[w]) : sent[w][i] = p

\* Once some DELETE of an id was answered 204, no request finds the id again,
\* neither one in flight nor a later POST that presents it.
TerminatedIsGone ==
  \A d \in Deleter : status[d] = "204" => hdr[d] \notin sessions

\* A response names the session the client presented, unless that session was
\* not there to be found: a client never loses a live session.
StickySession ==
  \A p \in Post : given[p] # None /\ given[p] # hdr[p] => hdr[p] \notin sessions

\* Two clients share a session only if one presented the other's id.
PrivateSession ==
  \A p, q \in Post :
    p # q /\ given[p] # None /\ given[p] = given[q] => given[p] \in {hdr[p], hdr[q]}

\* Only deletion of its session ends a stream from the server's side while
\* the server runs: done is closed for no stream of a session still in the
\* map, so no client sees its stream end although its id still works.
DoneMeansDeleted ==
  \A w \in Stream : done[w] => closed[w] /\ sess[w] \notin sessions

\* Once a session is out of the map no event is written to its streams: the
\* read lock that Broadcast holds keeps every Delete out until it is through.
NoEventAfterDelete ==
  \A p \in Sender : out[p] # None => sess[p] \in sessions

\* Whom a goroutine waits for: at the map's lock the writer that is pending, and
\* that writer the readers inside; at a session's mutex its owner.
WaitsFor(p) ==
  CASE pc[p] \in {"lookup", "create", "delete", "send"} -> {pending} \ {None}
    [] pc[p] \in {"insert", "remove"} -> readers
    [] pc[p] \in {"opened", "cleanup"} -> {mu[sess[p]]} \ {None}
    [] pc[p] = "sweep" -> {mu[hdr[p]]} \ {None}
    [] pc[p] = "range" -> {mu[s] : s \in todo[p]} \ {None}
    [] OTHER -> {}

\* How far from the network: a write waits only for its client, and nobody may
\* wait for a goroutine that sleeps, runs a handler or has returned.
Height(p) ==
  CASE pc[p] = "write" -> 0
    [] pc[p] \in {"opened", "cleanup", "sweep", "range"} -> 1
    [] pc[p] \in {"insert", "remove"} -> 2
    [] pc[p] \in {"lookup", "create", "delete", "send"} -> 3
    [] OTHER -> 4

\* The two levels of locks are taken in one order and given back: every chain
\* of goroutines that wait for each other descends to a write that is in
\* progress, so that they never wait in a circle, nor for one that is gone.
WaitsDescend ==
  /\ \A p \in Proc : pc[p] \in {"insert", "remove"} => pending = p
  /\ \A p \in Proc : \A q \in WaitsFor(p) : Height(q) < Height(p)

\* Every request is answered and every Send returns.
AllReturn ==
  \A p \in Post \cup Deleter \cup Sender : pc[p] # "idle" ~> pc[p] = "returned"

\* Cancelling the context given to Start ends every event stream.
ShutdownEndsStreams ==
  \A g \in Stream : ctxDone /\ pc[g] # "idle" ~> pc[g] = "returned"

\* A DELETE ends each stream registered when it reaches the session, also
\* when a Broadcast is writing to the session at that time.
DeleteEndsStreams ==
  \A d \in Deleter, w \in Stream :
    pc[d] = "sweep" /\ w \in writers[hdr[d]] ~> pc[w] = "returned"

\* What the comment on addWriter says of done, session.go:48: "closed when the
\* session is deleted".  It is not for a stream that GET looked up before a
\* DELETE and registered after it.
StreamsEndWithSession ==
  \A g \in Stream :
    pc[g] = "streaming" /\ sess[g] \notin sessions ~> pc[g] = "returned"

\* The transport implements EventStreams: a message is in a session's log from
\* the moment writeSSE has the session's mutex.
Abstract ==
  INSTANCE EventStreams WITH
    Event <- Sender,
    log <- hist,
    room <- [w \in Stream |-> RoomOf(w)],
    next <- [w \in Stream |-> NextOf(w)],
    feed <- sent

ImplementsEventStreams == Abstract!Spec

=============================================================================
