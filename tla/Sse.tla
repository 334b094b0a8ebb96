-------------------------------- MODULE Sse ---------------------------------
(***************************************************************************)
(* The legacy SSE transport (framework/transport/sse.go): GET creates a    *)
(* session and streams its events, POST answers on the stream of the       *)
(* session it names, Send broadcasts; each by its own goroutine, over the  *)
(* session manager of Sessions.  No handler of this transport deletes a    *)
(* session.                                                                *)
(*                                                                         *)
(* The event that a stream writes for itself, its endpoint, has the name   *)
(* of the stream; a response has the name of its POST.                     *)
(***************************************************************************)
EXTENDS Sessions

CONSTANTS
  Post,     \* POST requests
  Sender,   \* calls of Send
  Stale     \* an id this server never issued

ASSUME SseAssumption ==
  /\ Proc = Post \cup Stream \cup Sender
  /\ Post \cap Stream = {} /\ Post \cap Sender = {} /\ Stream \cap Sender = {}
  /\ Stale \notin Sid
  /\ Stale # None

VARIABLES
  query,    \* the sessionId of a POST's URL
  status,   \* the status line written, None before
  gone,     \* streams whose client has disconnected (r.Context() done)
  ctxDone   \* the context given to Start is cancelled

httpVars == <<query, status, gone, ctxDone>>
vars == <<pc, sess, todo, due, mapVars, sessVars, writeVars, httpVars>>

Init ==
  /\ NewSessionManager
  /\ query = [p \in Post |-> None]
  /\ status = [p \in Proc |-> None]
  /\ gone = {}
  /\ ctxDone = FALSE

\* w has written its endpoint event.
Greeted(w) == sent[w] # <<>> /\ sent[w][1] = w

\* A client learns an id from an endpoint event.
Presentable == {sess[w] : w \in {v \in Stream : Greeted(v)}} \cup {Stale}

\* A handler returns without having touched the session manager.
Refuse(p, from, code) ==
  /\ Goto(p, from, "returned")
  /\ status' = [status EXCEPT ![p] = code]
  /\ UNCHANGED <<sess, todo, due, query, gone, ctxDone, mapVars, sessVars, writeVars>>

-----------------------------------------------------------------------------
(* handleSSE                                                               *)

\* 401 from authenticate, 500 when the ResponseWriter is not a Flusher.
GetArrives(g) ==
  \/ Refuse(g, "idle", "401")
  \/ Refuse(g, "idle", "500")
  \/ /\ Goto(g, "idle", "create")
     /\ UNCHANGED <<sess, todo, due, mapVars, sessVars, writeVars, httpVars>>

GetCreate(g) == MapLock(g, "create", "insert") /\ UNCHANGED httpVars

GetInsert(g) == CreateInsert(g, "insert", "greet") /\ UNCHANGED httpVars

\* The headers and the endpoint event, written without s.mu.  The handler does
\* not look at the error of Fprintf.
Greet(g, from, to) ==
  /\ Goto(g, from, to)
  /\ status' = [status EXCEPT ![g] = "200"]
  /\ \/ sent' = [sent EXCEPT ![g] = Append(@, g)]
     \/ g \in gone /\ UNCHANGED sent
  /\ UNCHANGED <<sess, todo, due, left, kept, out, hist, query, gone, ctxDone,
                 mapVars, sessVars>>

GetGreet(g) == Greet(g, "greet", "opened")

GetAddWriter(g) == AddWriter(g, "opened", "streaming") /\ UNCHANGED httpVars

\* The conditions of the select on which the handler sleeps.
StreamEnds(g) == done[g] \/ g \in gone \/ ctxDone

GetWake(g) ==
  /\ StreamEnds(g)
  /\ Goto(g, "streaming", "cleanup")
  /\ UNCHANGED <<sess, todo, due, mapVars, sessVars, writeVars, httpVars>>

GetCleanup(g) == Cleanup(g, "cleanup", "returned") /\ UNCHANGED httpVars

\* Mutant: the writer is registered before the endpoint event.
GetRegistersFirst(g) ==
  \/ GetCreate(g) \/ GetInsert(g) \/ GetWake(g) \/ GetCleanup(g)
  \/ AddWriter(g, "greet", "opened") /\ UNCHANGED httpVars
  \/ Greet(g, "opened", "streaming")

GetStep(g) ==
  \/ GetCreate(g) \/ GetInsert(g) \/ GetGreet(g)
  \/ GetAddWriter(g) \/ GetWake(g) \/ GetCleanup(g)

-----------------------------------------------------------------------------
(* handleMessages                                                          *)

\* 401 from authenticate, 400 without a sessionId.
PostArrives(p) ==
  \/ Refuse(p, "idle", "401")
  \/ Refuse(p, "idle", "400")
  \/ \E id \in Presentable :
       /\ Goto(p, "idle", "lookup")
       /\ query' = [query EXCEPT ![p] = id]
       /\ UNCHANGED <<sess, todo, due, status, gone, ctxDone, mapVars, sessVars, writeVars>>

PostLookup(p) ==
  /\ CanRLock
  /\ GetSession(query[p]) # None
  /\ Goto(p, "lookup", "read")
  /\ sess' = [sess EXCEPT ![p] = query[p]]
  /\ UNCHANGED <<todo, due, mapVars, sessVars, writeVars, httpVars>>

PostUnknown(p) ==
  /\ CanRLock
  /\ GetSession(query[p]) = None
  /\ Refuse(p, "lookup", "404")

\* 400 when the body cannot be read.
PostBadBody(p) == Refuse(p, "read", "400")

\* The handler has run: a response goes to the stream, nil to nobody.
PostHandle(p) ==
  /\ \/ /\ Goto(p, "read", "deliver")
        /\ due' = [due EXCEPT ![p] = ActiveStreams({sess[p]})]
     \/ Goto(p, "read", "reply") /\ UNCHANGED due
  /\ UNCHANGED <<sess, todo, mapVars, sessVars, writeVars, httpVars>>

\* Mutant: the response goes to some session.
DeliverAnywhere(p) ==
  \E s \in sessions : WriteLock(p, s, "deliver") /\ UNCHANGED httpVars

PostDeliver(p) == WriteLock(p, sess[p], "deliver") /\ UNCHANGED httpVars

\* The loop of writeSSE.
Writing(p) == WriteNext(p) \/ WriteOk(p) \/ WriteFail(p, gone)

PostWrite(p) == (Writing(p) \/ WriteUnlock(p, "reply")) /\ UNCHANGED httpVars

PostReply(p) == Refuse(p, "reply", "202")

PostStep(p) ==
  \/ PostLookup(p) \/ PostUnknown(p) \/ PostBadBody(p) \/ PostHandle(p)
  \/ PostDeliver(p) \/ PostWrite(p) \/ PostReply(p)

-----------------------------------------------------------------------------
(* Send                                                                    *)

SendCalled(p) ==
  /\ Goto(p, "idle", "send")
  /\ UNCHANGED <<sess, todo, due, mapVars, sessVars, writeVars, httpVars>>

SendStep(p) ==
  /\ \/ BroadcastBegin(p, "send") \/ BroadcastSession(p)
     \/ Writing(p) \/ WriteUnlock(p, "range")
     \/ BroadcastEnd(p, "returned")
  /\ UNCHANGED httpVars

-----------------------------------------------------------------------------
(* The environment and the whole system.                                   *)

Disconnect(g) ==
  /\ pc[g] \notin {"idle", "returned"}
  /\ g \notin gone
  /\ gone' = gone \cup {g}
  /\ UNCHANGED <<pc, sess, todo, due, query, status, ctxDone, mapVars, sessVars, writeVars>>

\* The context given to Start is cancelled.
Cancel ==
  /\ ~ctxDone
  /\ ctxDone' = TRUE
  /\ UNCHANGED <<pc, sess, todo, due, query, status, gone, mapVars, sessVars, writeVars>>

\* Every request has been served.
Terminated ==
  /\ \A p \in Proc : pc[p] = "returned"
  /\ UNCHANGED vars

\* What clients and callers start.
Arrives ==
  \/ \E p \in Post : PostArrives(p)
  \/ \E g \in Stream : GetArrives(g)
  \/ \E p \in Sender : SendCalled(p)

Next ==
  \/ Arrives
  \/ \E p \in Post : PostStep(p)
  \/ \E g \in Stream : GetStep(g) \/ Disconnect(g)
  \/ \E p \in Sender : SendStep(p)
  \/ Cancel
  \/ Terminated

Spec == Init /\ [][Next]_vars

-----------------------------------------------------------------------------
(* What the transport promises.                                            *)

PostAt == {"idle", "lookup", "read", "deliver", "write", "reply", "returned"}
GetAt == {"idle", "create", "insert", "greet", "opened", "streaming", "cleanup", "returned"}
SendAt == {"idle", "send", "range", "write", "returned"}
Status == {None, "200", "202", "400", "401", "404", "500"}

\* The goroutines that call writeSSE.
Writer == Post \cup Sender

\* Every variable has its type.
TypeOK ==
  /\ pc \in [Proc -> PostAt \cup GetAt \cup SendAt]
  /\ \A p \in Post : pc[p] \in PostAt
  /\ \A g \in Stream : pc[g] \in GetAt
  /\ \A p \in Sender : pc[p] \in SendAt
  /\ sess \in [Proc -> Sid \cup {None}]
  /\ sessions = used
  /\ used \subseteq Sid
  /\ pending \in Stream \cup {None}
  /\ readers \subseteq Sender
  /\ writers \in [Sid -> SUBSET Stream]
  /\ mu \in [Sid -> Writer \cup {None}]
  /\ closed \in [Stream -> BOOLEAN]
  /\ done = [w \in Stream |-> FALSE]
  /\ todo \in [Proc -> SUBSET Sid]
  /\ left \in [Proc -> SUBSET Stream]
  /\ kept \in [Proc -> SUBSET Stream]
  /\ out \in [Proc -> Stream \cup {None}]
  /\ sent \in [Stream -> Seq(Proc)]
  /\ hist \in [Sid -> Seq(Proc)]
  /\ due \in [Proc -> SUBSET Stream]
  /\ query \in [Post -> Sid \cup {Stale, None}]
  /\ status \in [Proc -> Status]
  /\ gone \subseteq Stream
  /\ ctxDone \in BOOLEAN

\* No write to a ResponseWriter by another goroutine is in progress once the
\* handler that owns it has returned (session.go:50), nor before the handler
\* is through with its own writes (sse.go:207).
EmitToLive ==
  \A p \in Writer : out[p] # None => pc[out[p]] \in {"streaming", "cleanup"}

\* The first event on a connection is its endpoint, whoever sends meanwhile.
EndpointFirst ==
  \A w \in Stream : sent[w] # <<>> => Greeted(w) \/ w \in gone

\* What reaches the client of a stream from other goroutines, in order.
Feed(w) == IF Greeted(w) THEN Tail(sent[w]) ELSE sent[w]

\* A response enters the log of no session but the one its POST named, and no
\* other stream shares that session.
ReplyIsPrivate ==
  \A p \in Post, w \in Stream :
    (\E i \in 1..Len(sent[w]) : sent[w][i] = p) =>
      \A v \in Stream : sess[v] = query[p] <=> v = w

\* The stream that was open when the response or the broadcast was ready has
\* it before the POST is answered or Send returns, unless it broke or closed.
EventReaches ==
  \A p \in Writer : pc[p] = "returned" =>
    \A w \in due[p] : closed[w] \/ \E i \in 1..Len(sent[w]) : sent[w][i] = p

\* Whom a goroutine waits for: at the map's lock the writer that is pending, and
\* that writer the readers inside; at a session's mutex its owner.
WaitsFor(p) ==
  CASE pc[p] \in {"lookup", "create", "send"} -> {pending} \ {None}
    [] pc[p] = "insert" -> readers
    [] pc[p] \in {"opened", "cleanup", "deliver"} -> {mu[sess[p]]} \ {None}
    [] pc[p] = "range" -> {mu[s] : s \in todo[p]} \ {None}
    [] OTHER -> {}

\* How far from the network: a write waits only for its client, and nobody may
\* wait for a goroutine that sleeps, runs a handler or has returned.
Height(p) ==
  CASE pc[p] = "write" -> 0
    [] pc[p] \in {"opened", "cleanup", "deliver", "range"} -> 1
    [] pc[p] = "insert" -> 2
    [] pc[p] \in {"lookup", "create", "send"} -> 3
    [] OTHER -> 4

\* The two levels of locks are taken in one order and given back: every chain
\* of goroutines that wait for each other descends to a write that is in
\* progress, so that they never wait in a circle, nor for one that is gone.
WaitsDescend ==
  /\ \A p \in Proc : pc[p] = "insert" => pending = p
  /\ \A p \in Proc : \A q \in WaitsFor(p) : Height(q) < Height(p)

\* Every POST is answered and every Send returns.
AllReturn == \A p \in Writer : pc[p] # "idle" ~> pc[p] = "returned"

\* What the comment at sse.go:246 says of a response: "Write response as SSE
\* event on the session's SSE writer".  For a client that posts as soon as it
\* has read the endpoint, the writer may not be registered yet: the response
\* is written to nobody and the POST still answered 202.
ReplyOnStream ==
  \A p \in Post : status[p] = "202" =>
    \A w \in Stream :
      sess[w] = sess[p] /\ (\E i \in 1..Len(hist[sess[p]]) : hist[sess[p]][i] = p) =>
        \/ w \in gone \/ ctxDone
        \/ \E i \in 1..Len(sent[w]) : sent[w][i] = p

\* The transport implements EventStreams: what other goroutines send to a
\* stream obeys the same specification as in the Streamable transport.
Abstract ==
  INSTANCE EventStreams WITH
    Event <- Writer,
    log <- hist,
    room <- [w \in Stream |-> RoomOf(w)],
    next <- [w \in Stream |-> NextOf(w)],
    feed <- [w \in Stream |-> Feed(w)]

ImplementsEventStreams == Abstract!Spec

=============================================================================
