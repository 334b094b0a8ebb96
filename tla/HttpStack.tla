----------------------------- MODULE HttpStack ------------------------------
(***************************************************************************)
(* A request on its way through the HTTP middleware (framework/middleware  *)
(* cors.go, ratelimit.go, metrics.go), the mux of the Streamable transport *)
(* and the authenticator (framework/auth/bearer.go), and its answer on the *)
(* way back, next to other requests.  The middleware is any arrangement of *)
(* the three; RateLimit has the limiter's detail, here it refuses freely.  *)
(*                                                                         *)
(* An atomic counter is the set of the requests that have added one to it; *)
(* its value is the set's cardinality.                                     *)
(***************************************************************************)
EXTENDS Naturals, Sequences, FiniteSets

CONSTANTS
  Request,
  Token,    \* bearer tokens and API keys
  Outcome,  \* the statuses of the handlers, as many as an instance tells apart
  None      \* no token, an empty variable, no status yet

Middleware == {"cors", "limit", "metrics"}
Stacks ==
  UNION {{q \in [1..n -> Middleware] : \A i, j \in 1..n : q[i] = q[j] => i = j} : n \in 0..3}

\* Requests by what the code tells apart: OPTIONS; GET of the metrics' path;
\* POST and GET, which need a token; what the mux answers without one (the
\* health path, unknown paths, other methods, DELETE).
Kind == {"preflight", "scrape", "post", "get", "open"}
Code == Outcome \cup {"200", "204", "401", "429", "500"}

ASSUME HttpAssumption == None \notin Token \cup Code

VARIABLES
  stack,    \* the middleware, outermost first
  tokens,   \* the fixed tokens of BearerWithTokens; empty for Bearer
  env,      \* the environment variable that Bearer reads
  pc, depth, kind, status,   \* per request; depth: how many frames it is in
  token,    \* the token a request was let in with
  total, timed, stored, codes,   \* the collector; stored: the keys of statusCodes
  snap,     \* per request, what its snapshot has read
  by, before,      \* history: the frame that answered; the requests recorded
                   \* when a snapshot began
  retired, old     \* history: the former values of env, now and when a request came

config == <<stack, tokens>>
counters == <<total, timed, stored, codes>>
history == <<before, retired, old>>
vars == <<config, env, pc, depth, kind, status, token, counters, snap, by, history>>

NoSnap == [total |-> {}, timed |-> {}, codes |-> {}, keys |-> {}, read |-> {}]

Init ==
  /\ stack \in Stacks
  /\ tokens \in {{}} \cup {{t} : t \in Token}   \* bound: at most one fixed token
  /\ env \in Token \cup {None}
  /\ pc = [r \in Request |-> "idle"]
  /\ depth = [r \in Request |-> 0]
  /\ kind = [r \in Request |-> "post"]
  /\ status = [r \in Request |-> None]
  /\ token = [r \in Request |-> None]
  /\ total = {} /\ timed = {} /\ stored = {}
  /\ codes = [c \in Code |-> {}]
  /\ snap = [r \in Request |-> NoSnap]
  /\ by = [r \in Request |-> 0]
  /\ before = [r \in Request |-> {}]
  /\ retired = {}
  /\ old = [r \in Request |-> {}]

Goto(r, from, to) ==
  /\ pc[r] = from
  /\ pc' = [pc EXCEPT ![r] = to]

Arrive(r) ==
  /\ Goto(r, "idle", "down")
  /\ \E k \in Kind : kind' = [kind EXCEPT ![r] = k]
  /\ old' = [old EXCEPT ![r] = retired]
  /\ UNCHANGED <<config, env, depth, status, token, counters, snap, by, before, retired>>

\* The operator rotates the token; a value once replaced does not come back.
Rotate ==
  /\ env' \in (Token \cup {None}) \ (retired \cup {env})
  /\ retired' = retired \cup ({env} \ {None})
  /\ UNCHANGED <<config, pc, depth, kind, status, token, counters, snap, by, before, old>>

-----------------------------------------------------------------------------
(* The way in.                                                             *)

\* The frame that handles r next; the mux is behind the last one.
Frame(r) == IF depth[r] < Len(stack) THEN stack[depth[r] + 1] ELSE "mux"

\* The current frame answers and returns to those around it.
Answer(r, from, code) ==
  /\ Goto(r, from, "up")
  /\ status' = [status EXCEPT ![r] = code]
  /\ by' = [by EXCEPT ![r] = depth[r] + 1]
  /\ UNCHANGED <<config, env, depth, kind, counters, snap, history>>

\* The current frame calls the next.
Call(r) ==
  /\ pc[r] = "down"
  /\ depth' = [depth EXCEPT ![r] = @ + 1]
  /\ UNCHANGED <<config, env, pc, kind, status, token, counters, snap, by, history>>

Preflight(r) == Answer(r, "down", "204") /\ UNCHANGED token

Cors(r) ==
  /\ Frame(r) = "cors"
  /\ IF kind[r] = "preflight" THEN Preflight(r) ELSE Call(r)

Limit(r) ==
  /\ Frame(r) = "limit"
  /\ \/ Answer(r, "down", "429") /\ UNCHANGED token
     \/ Call(r)

\* Mutant: the request is counted before it is served.
CountOnEntry(r) ==
  /\ Frame(r) = "metrics" /\ kind[r] # "scrape"
  /\ pc[r] = "down"
  /\ depth' = [depth EXCEPT ![r] = @ + 1]
  /\ total' = total \cup {r}
  /\ UNCHANGED <<config, env, pc, kind, status, token, timed, stored, codes, snap, by, history>>

\* Metrics wraps the ResponseWriter and calls the next frame.
CallMetrics(r) == Frame(r) = "metrics" /\ kind[r] # "scrape" /\ Call(r)

\* The mux answers 404 or 405, or calls a handler that asks for no token.
Mux(r) ==
  /\ Frame(r) = "mux"
  /\ kind[r] \notin {"post", "get"}
  /\ \E c \in Outcome : Answer(r, "down", c)
  /\ UNCHANGED token

\* extractToken: a Bearer header, even a blank one, goes before X-API-Key;
\* another scheme does not.
Extract(authorization, apiKey) ==
  IF authorization \in {"absent", "other"} THEN apiKey
  ELSE IF authorization = "blank" THEN None ELSE authorization

\* Mutant: the environment counts next to the fixed tokens.
ValidEverywhere == tokens \cup ({env} \ {None})

ValidTokens == IF tokens # {} THEN tokens ELSE {env} \ {None}

\* What Authenticate lets through.
Accepted ==
  {t \in {Extract(a, k) : a \in {"absent", "other", "blank"} \cup Token,
                          k \in Token \cup {None}} : t \in ValidTokens}

Unauthorized(r) ==
  /\ Frame(r) = "mux"
  /\ kind[r] \in {"post", "get"}
  /\ Answer(r, "down", "401") /\ UNCHANGED token

\* Whether the ResponseWriter that the handler gets is a Flusher: that of
\* net/http is, statusRecorder is not.
Flusher(r) == \A i \in 1..Len(stack) : stack[i] # "metrics"

\* What POST and GET answer a client that they have let in; a GET that finds
\* no Flusher does not get to its stream.
Handled(r) == Outcome \cup (IF kind[r] = "get" /\ ~Flusher(r) THEN {"500"} ELSE {})

Authorized(r) ==
  /\ Frame(r) = "mux"
  /\ kind[r] \in {"post", "get"}
  /\ \E t \in Accepted : token' = [token EXCEPT ![r] = t]
  /\ \E c \in Handled(r) : Answer(r, "down", c)

\* An event stream: its handler sends 200 and stays until the stream ends.
Stream(r) ==
  /\ Frame(r) = "mux"
  /\ kind[r] = "get"
  /\ Flusher(r)
  /\ \E t \in Accepted : token' = [token EXCEPT ![r] = t]
  /\ Goto(r, "down", "streaming")
  /\ status' = [status EXCEPT ![r] = "200"]
  /\ by' = [by EXCEPT ![r] = depth[r] + 1]
  /\ UNCHANGED <<config, env, depth, kind, counters, snap, history>>

StreamEnds(r) ==
  /\ Goto(r, "streaming", "up")
  /\ UNCHANGED <<config, env, depth, kind, status, token, counters, snap, by, history>>

\* The message handler panics; net/http recovers and drops the connection.
Panic(r) ==
  /\ Frame(r) = "mux"
  /\ kind[r] = "post"
  /\ \E t \in Accepted : token' = [token EXCEPT ![r] = t]
  /\ Goto(r, "down", "aborted")
  /\ UNCHANGED <<config, env, depth, kind, status, counters, snap, by, history>>

-----------------------------------------------------------------------------
(* The way back, and Metrics.                                              *)

Leave(r) ==
  /\ depth[r] > 0 /\ stack[depth[r]] # "metrics"
  /\ pc[r] = "up"
  /\ depth' = [depth EXCEPT ![r] = @ - 1]
  /\ UNCHANGED <<config, env, pc, kind, status, token, counters, snap, by, history>>

Finish(r) ==
  /\ depth[r] = 0
  /\ Goto(r, "up", "answered")
  /\ UNCHANGED <<config, env, depth, kind, status, token, counters, snap, by, history>>

\* record, one atomic operation after the other.
RecordTotal(r) ==
  /\ depth[r] > 0 /\ stack[depth[r]] = "metrics"
  /\ Goto(r, "up", "time")
  /\ total' = total \cup {r}
  /\ UNCHANGED <<config, env, depth, kind, status, token, timed, stored, codes, snap, by,
                 history>>

RecordTime(r) ==
  /\ Goto(r, "time", "store")
  /\ timed' = timed \cup {r}
  /\ UNCHANGED <<config, env, depth, kind, status, token, total, stored, codes, snap, by,
                 history>>

\* Mutant: a Store in place of LoadOrStore.
StoresAlways(c) == TRUE

\* LoadOrStore stores its new counter only for a code without one.
Stores(c) == c \notin stored

RecordStore(r) ==
  /\ Goto(r, "store", "count")
  /\ stored' = stored \cup {status[r]}
  /\ codes' = IF Stores(status[r]) THEN [codes EXCEPT ![status[r]] = {}] ELSE codes
  /\ UNCHANGED <<config, env, depth, kind, status, token, total, timed, snap, by, history>>

RecordCount(r) ==
  /\ Goto(r, "count", "up")
  /\ codes' = [codes EXCEPT ![status[r]] = @ \cup {r}]
  /\ depth' = [depth EXCEPT ![r] = @ - 1]
  /\ UNCHANGED <<config, env, kind, status, token, total, timed, stored, snap, by, history>>

Record(r) == RecordTotal(r) \/ RecordTime(r) \/ RecordStore(r) \/ RecordCount(r)

\* The requests on which record has returned.
Recorded == {r \in total : \E c \in Code : r \in codes[c]}

\* snapshot: the total, then Range over the codes, then the durations.
SnapTotal(r) ==
  /\ Frame(r) = "metrics" /\ kind[r] = "scrape"
  /\ Goto(r, "down", "range")
  /\ snap' = [snap EXCEPT ![r] = [@ EXCEPT !.total = total, !.keys = stored]]
  /\ before' = [before EXCEPT ![r] = Recorded]
  /\ UNCHANGED <<config, env, depth, kind, status, token, counters, by, retired, old>>

\* Range loads one counter after the other.
SnapCode(r) ==
  /\ pc[r] = "range"
  /\ \E c \in stored \ snap[r].read :
       snap' = [snap EXCEPT ![r] = [@ EXCEPT !.read = snap[r].read \cup {c},
                                             !.codes = snap[r].codes \cup codes[c]]]
  /\ UNCHANGED <<config, env, pc, depth, kind, status, token, counters, by, history>>

\* Range meets at least the codes that were stored before it began.
SnapTime(r) ==
  /\ snap[r].keys \subseteq snap[r].read
  /\ Goto(r, "range", "encode")
  /\ snap' = [snap EXCEPT ![r] = [@ EXCEPT !.timed = timed]]
  /\ UNCHANGED <<config, env, depth, kind, status, token, counters, by, history>>

Scraped(r) == Answer(r, "encode", "200") /\ UNCHANGED token

Snapshot(r) == SnapTotal(r) \/ SnapCode(r) \/ SnapTime(r) \/ Scraped(r)

-----------------------------------------------------------------------------

Down(r) ==
  /\ pc[r] = "down"
  /\ \/ Cors(r) \/ Limit(r) \/ CallMetrics(r)
     \/ Mux(r) \/ Unauthorized(r) \/ Authorized(r) \/ Stream(r) \/ Panic(r)

Up(r) == StreamEnds(r) \/ Leave(r) \/ Finish(r)

\* Every request has been served.
Terminated ==
  /\ \A r \in Request : pc[r] \in {"answered", "aborted"}
  /\ UNCHANGED vars

Next ==
  \/ \E r \in Request : Arrive(r) \/ Down(r) \/ Up(r) \/ Record(r) \/ Snapshot(r)
  \/ Rotate
  \/ Terminated

Spec == Init /\ [][Next]_vars

-----------------------------------------------------------------------------
(* What the stack promises.                                                *)

\* Where Metrics is, and whether r got through it.
MetricsAt == {i \in 1..Len(stack) : stack[i] = "metrics"}
Passed(r) == \E i \in MetricsAt : i < by[r]

\* The metrics count each request that came as far as Metrics once, under the
\* status its client got, from the moment Metrics returns, and nothing else:
\* neither what an outer frame answered, nor a scrape, nor a handler that
\* panicked.  No first request of a status makes another's count disappear.
CountedOnce ==
  \A r \in Request :
    /\ pc[r] = "answered" =>
         \A c \in Code : r \in codes[c] <=> Passed(r) /\ c = status[r]
    /\ pc[r] \in {"answered", "aborted"} => (r \in total <=> by[r] # 0 /\ Passed(r))

\* A snapshot has every request whose record had returned when it began, in
\* all three figures, and none that has not got its answer yet.
SnapshotBrackets ==
  \A r \in Request : pc[r] = "encode" =>
    LET s == snap[r] IN
    /\ before[r] \subseteq s.total \cap s.codes \cap s.timed
    /\ \A q \in s.total \cup s.codes \cup s.timed : status[q] # None /\ pc[q] # "streaming"

\* After a rotation the old token lets nobody in who comes later, without a
\* restart, as Bearer's comment has it (bearer.go:19); and where there are fixed
\* tokens the environment lets nobody in.
AcceptIsCurrent ==
  \A r \in Request : token[r] # None =>
    IF tokens # {} THEN token[r] \in tokens ELSE token[r] \notin old[r]

=============================================================================
