# TLA+ models and proofs for the MCP framework

The repository is a Go framework for MCP servers (JSON-RPC 2.0 over stdio or
HTTP) and one server built with it. This directory holds a model of its
concurrent and failure-prone parts, the configurations that check it with TLC,
and TLAPS proofs of its main invariants. Paths below are relative to
`src/framework/` unless they say otherwise.

    tlc -config Streamable_feed.cfg MCStreamable     one run; see "Runs"
    tlapm StreamableProofs.tla                       one proof module

## 1. The system

| component | state it keeps | operations | interacts with |
|---|---|---|---|
| session manager `transport/session.go` | map id -> session under a `sync.RWMutex`; per session a list of SSE writers under a `sync.Mutex`; per writer `closed` and a `done` channel | Create, Get, Delete, Broadcast, addWriter and its cleanup, writeSSE | called by every HTTP handler goroutine and by Send |
| Streamable HTTP transport `transport/streamable.go` | the session manager; server life cycle | POST, GET (event stream), DELETE, Send, Start, Close | net/http, authenticator, message handler |
| SSE transport `transport/sse.go` | the session manager; server life cycle | GET (creates a session, streams), POST (answers on the stream), Send, Start, Close | as above |
| stdio transport `transport/stdio.go` | output mutex; the scanner | Start's loop, Send, writeLine | the peer's pipes, message handler |
| server `server/server.go` | registries, `initialized` | Run (builds the chain), dispatch, one handler per method | transports, middleware, registry |
| message middleware `middleware/{middleware,recovery,logging}.go` | none | Chain, Recovery, Logging | wraps dispatch |
| rate limiter `middleware/ratelimit.go` | `sync.Map` of token buckets, each under a mutex | LoadOrStore, allow | wraps the HTTP handlers |
| metrics `middleware/metrics.go` | atomic counters, one per status in a `sync.Map` | record, snapshot | wraps the HTTP handlers and their ResponseWriter |
| CORS `middleware/cors.go` | none | sets headers, answers OPTIONS | wraps the HTTP handlers |
| authentication `auth/` | fixed tokens, or an environment variable read on each call | Authenticate | called by POST and GET |
| protocol `protocol/` | none | ParseMessage, responses and errors | used by the server |
| registry `registry/` | maps of tools, resources, prompts | Register*, lookups, the typed wrapper | filled before Run, read by requests |
| schema `schema/` | none | Go type -> JSON schema by reflection | called by RegisterTool |
| cloudflare server `src/cmd/servers/cloudflare/` | configuration | main | builds a server |

Behaviours that are hard to test, and what makes each component correct:

* **Session manager and HTTP transports.** Handlers run concurrently. Broadcast
  holds the map's read lock over network writes, and writeSSE holds a session's
  mutex over network writes. A stream's handler may wake up and return, a DELETE may arrive, a
  connection may break and another broadcast may start, all while a write is
  in progress. Correct means: no write reaches a connection whose handler has
  returned; every stream of a session sees a gapless run of one common order;
  a broadcast reaches every stream that was active; deletion silences and ends
  streams and is final; a session is shared only by clients that told each other
  its id; nothing waits for ever on the two levels of locks.
* **Life cycle of the HTTP transports.** Start waits for its context and for
  the goroutine that listens, which may fail before, during or after a shutdown; another
  goroutine may call Close; Shutdown waits for the handlers and gives up after
  30 s; the event streams end by the same context. Correct means: a return
  without an error cut nobody off, and a cancellation ends Start, the
  listening goroutine and every stream.
* **stdio.** Responses and server-initiated messages share the output, and a
  message and its newline are two Write calls, either of which can fail.
  Correct means: lines are whole, responses come once and in order, the end of
  the input loses nothing, cancellation stops the loop.
* **Dispatch.** A panic can start in a registered handler, in the marshalling
  of its result, or in user middleware. Correct means: every request is answered
  under its id, notifications are not answered, the process survives.
* **Typed tools.** The schema a tool is listed with and the decoder its wrapper
  uses read the same Go type by different rules. Correct means: arguments that
  follow the listing decode, and a listed property is the field it fills.
* **Rate limiter.** First requests of a client race for the bucket, and the
  refill and comparison have boundaries. Correct means: no window exceeds the
  limit and nobody is refused within the burst.
* **Metrics, authentication.** Counters are updated and read one by one by
  concurrent requests that any frame may have answered; tokens are rotated
  while requests are on their way. Correct means: each request that reached
  Metrics is counted once under the status its client got, a snapshot has all
  that was over and nothing that is not, a replaced token lets nobody in.

`PROJECT.json` lists each hazard at its line with the properties that would
catch it, and a reason where no property does.

## 2. Modules

    EventStreams            abstract: what event streams promise
         ^      ^
    Streamable  Sse         handlers of the two HTTP transports
         \      / \
         Sessions  \        session manager: state and steps
                 SseServer  the SSE transport as a whole
                   /
         Lifecycle          Start, Close and the goroutine that listens
    HttpStack               HTTP middleware, mux, authenticator, metrics
    TokenBucket             abstract: what a rate limiter promises
         ^
    RateLimit               token buckets
    LineServer              abstract: what a stdio server promises
         ^
    Stdio                   stdio transport
    Dispatch                middleware chain + dispatch + request handlers
         \
         ToolCalls          dispatch of typed tools
         /
    Schema                  schema generation and encoding/json
    MC...                   instances and symmetry sets for TLC

    EventStreamsProofs                               theorems about EventStreams
    StreamableProofs, SseProofs  <-  SseServerProofs   and its implementations
    StdioProofs, RateLimitProofs, DispatchProofs, HttpStackProofs

**Sessions** has the session manager's state and one operator per critical
section. `Streamable` and `Sse` EXTEND it and are the handlers that take these
steps; `pc[p]` is the place a goroutine `p` is in. How the code maps to steps:

* A critical section in which the code cannot block is one step: `CreateInsert`,
  `GetSession` (inside a lookup step), `DeleteRemove`, `DeleteSweep`,
  `AddWriter`, `Cleanup`.
* `RWMutex.Lock` is two steps, because a waiting writer shuts out new readers:
  `MapLock` sets `pending`, and the critical section is enabled only when
  `readers` is empty. `RLock` is enabled only while nobody is `pending`.
* `writeSSE` keeps `s.mu` across network writes: `WriteLock`, then per writer
  `WriteNext` (the closed check), then `WriteOk` or `WriteFail`, then
  `WriteUnlock`, which stores the filtered list. `BroadcastBegin/End` hold the
  read lock around it.
* `hist` and `due` are history variables: the order in which writeSSE calls
  entered each session, and the streams open when a Broadcast began. `used`
  records the ids drawn; that `crypto/rand` never repeats one is an assumption
  (`FreshIds`).

Over-approximations: the writers of a session are a set, not a list, so the loop
takes them in any order (which order is not observable); authentication, body
reading and the Flusher check may succeed or fail freely; requests may arrive
after cancellation (SseServer has the listener that stops them); the message handler
called by a POST is atomic, since it does not touch the transport.
A write fails only on a connection whose client has gone.

**Streamable** is POST (lookup, create on a missing or unknown id, handle,
respond), GET (lookup, 404, flusher check, headers, register, sleep in the
select, cleanup), DELETE (lookup, 404, Delete's two critical sections, 204) and
Send. **Sse** is GET (create, endpoint event without the lock, register, sleep,
cleanup), POST (lookup, 404, body, handler, writeSSE of the response, 202) and
Send. Clients present only ids that the server has already put in a response,
or one (`Stale`) that it never issued. The health endpoint and 405 answers are
in HttpStack.

**Lifecycle** is Start and Close, the same lines in `streamable.go` and
`sse.go`: `start` is where Start is or how it returned, `listener` where its
goroutine is, `errCh` the channel with its buffer, `down` that Shutdown was
called, `closer` a Close by another goroutine. While a Shutdown waits, its
deadline may pass at any moment. **SseServer** puts it around `Sse`: requests
arrive only while the server serves, the context that Start selects on is
the one that wakes the streams, and Shutdown waits for the handlers (`Busy`).
The Streamable transport has the same life cycle around other handlers and is
not composed with it a second time.

**EventStreams** is the abstract specification: each session has a log, which an
event enters at most once, a stream attaches to the log's end, reads without
gaps and may detach for good. Both
transports refine it (`ImplementsEventStreams`): the log is `hist`, and a
stream's position is derived from whether the current writeSSE still has it
ahead (`Awaits`).

**Stdio** is the loop of Start (select, scan, handle, respond) and concurrent
Sends through writeLine. A line of the input is a request, a notification, a
blank, or a place at which the scanner fails for good ("huge": a line too long for its
buffer, or a read error, which takes the same branch of Start). A Write succeeds, fails having written nothing, or
fails having written a part (`Torn`).

**LineServer** is the abstract specification: lines are served one by one in the
order they arrived, a message goes out in one step as a whole line or is lost,
and the server stops when told to, at the end of the input once all of it has
been served, or where the input cannot be read. Stdio implements it (`ImplementsLineServer`):
a message is on the abstract output when its writeLine is over (`Lines`), a line
is served when the loop is through with it (`Served`).

**Dispatch** follows one message from the transport into the chain Recovery,
Logging, user middleware, through dispatch and the request handlers, and back,
with every outcome registered code can have: a result, an error, an
`*RPCError`, a nil `*RPCError`, bad arguments, an unmarshalable result or error
data, a panic. Messages are the cases the code tells apart.

**Schema** has `Generate`, the walk of `schema/generate.go` over a Go type, a
record with its kind and its element type or fields; and, as the reference,
which JSON values `encoding/json` decodes into the type (`Decodes`), which field
it takes for a key (`JsonFields`) and which values are valid against a schema
(`Conforms`). A number has a width, a sign and a notation, since a schema says
less of these than a Go type does. **ToolCalls** EXTENDS Dispatch and Schema: a
call of a typed tool fails as "badargs" exactly when its arguments do not decode.
Known differences are named operators that the properties except, some about
types (`OddEmbedding`, `Dashed`, `Misplaced`, `Loose`, `Picky`), some about arguments
(`Modest`, `Spelled`): section 4 lists them. That the properties hold says that
the types and arguments of the instance show no others, and without any one of
these exceptions `ListedArgumentsDecode` fails on it. It says nothing of what the
instance leaves out (section 6).

**HttpStack** follows requests through any arrangement of CORS, rate limiter
and metrics (`stack`, with `depth` the frames a request is in), the mux, and
the authenticator, and back. A frame answers (`Answer`) or calls the next
(`Call`). `record` and `snapshot` are one step per atomic operation. A counter
is the set of requests that have added to it. `Rotate` changes the environment
variable that `Bearer` reads. The limiter refuses freely; RateLimit has its
detail.

**RateLimit** counts time in ticks and tokens in `Unit` parts, a tick refilling
`Rate` parts, so that any rational rate is exact; the rounding of float64 is the
one thing it abstracts. `Build` is the evaluation of LoadOrStore's argument
(which reads the clock), `LoadOrStore` the atomic map operation, `Allow`/`Deny`
the critical section of `allow`. `mark`/`base` are an observer who starts
counting at any time.

**TokenBucket** is the abstract specification: every client has a full bucket
from the start, the clock refills all of them, and a request is decided by what
its client's holds. RateLimit implements it (`ImplementsTokenBucket`): the level
of a client without a bucket is full, otherwise it is what `allow` would find
after refilling (`Refilled`), so that nobody can tell that buckets are made on
demand and refilled only when they are asked.

## 3. Runs

Each run takes at most two minutes with two workers. "v" marks runs that exhibit
a disagreement (section 4). Symmetry is used only where no liveness property is
checked.

| run | instance | shows |
|---|---|---|
| `Streamable_feed` | 1 id, 1 POST, 2 streams, 1 DELETE, 2 Sends | `WaitsDescend`, `EmitToLive`, `GaplessFeed`, `BroadcastReaches`, `NoEventAfterDelete` |
| `Streamable_sessions` | 2 ids, 2 POSTs, 1 stream, 2 DELETEs | `TerminatedIsGone`, `StickySession`, `PrivateSession`, `DoneMeansDeleted` |
| `Streamable_live` | 1 id, 1 POST, 1 stream, 1 DELETE, 2 Sends, fair | `AllReturn`, `ShutdownEndsStreams`, `DeleteEndsStreams`, `ImplementsEventStreams` |
| `Streamable_late` v | 1 id, 1 POST, 1 stream, 1 DELETE, fair | `StreamsEndWithSession` fails |
| `Sse_safety` | 2 ids, 1 POST, 2 streams, 1 Send | `EmitToLive`, `WaitsDescend`, `EndpointFirst`, `ReplyIsPrivate`, `EventReaches`, `ImplementsEventStreams` |
| `Sse_server` | 1 id, 1 POST, 1 stream, 1 Send, Start and a second Close, fair | `DrainedOnReturn`, `AllReturn`, `ShutdownCompletes` |
| `Sse_reply` v | 1 id, 1 POST, 1 stream | `ReplyOnStream` fails |
| `Stdio` | 2 lines of any kind, 2 Sends, failing writes, fair | `LineStarts`, `AnswersInOrder`, `EndDrains`, `OneAfterCancel`, `SendReturns`, `EndReturns`, `ImplementsLineServer` |
| `Stdio_cancel` v | 1 line, no Send, fair | `CancelReturns` fails |
| `RateLimit` | 5 requests of a client, rate 2/3, burst 2, 3 ticks | `WindowBound`, `BurstGranted`, `ImplementsTokenBucket` |
| `ToolCalls` | every message shape; Go types up to depth 3, structs of 1 or 2 fields with any tags and embedding; arguments to match, with numbers of every width and notation | `RequestAnswered`, `SilentOnNotification`, `ResultMeansOk`, `ListedArgumentsDecode`, `SchemaMatchesDecoder` |
| `HttpStack` | 2 requests of any kind, all 16 arrangements, 2 tokens, fixed or in the environment | `CountedOnce`, `SnapshotBrackets`, `AcceptIsCurrent` |

Why these bounds are enough to meet the hazards. All interactions in the session
manager go through one session's mutex or through the map's lock, pairwise: two
broadcasts exercise ordering and the exclusion of their loops, two streams
exercise "one stream misses or reorders", one DELETE with a broadcast exercises
the gap between Delete's two critical sections. Two ids and two DELETEs exercise
reuse, double deletion and the creation of a session in place of a deleted one.
In Sse_server one request of each sort is what a Shutdown can find in flight, and
what distinguishes its outcomes. In Stdio two Sends and two lines give three
concurrent writers at the mutex, the second line showing what a failure of the
first leaves behind. In RateLimit five requests are more than burst plus what any
two ticks refill, and 2/3 is a rate at which a refill ends between whole tokens.
In ToolCalls one id differs from the null that Recovery or a parse error could
put in its place; the walk and the decoder go field by field, and two fields in
both orders, one of them embedded, renamed or hidden, show how two meet; of
numbers there is one for every width that tells two Go types apart and one beyond
all, and one each that is negative, written with a point, and no integer. In
HttpStack two requests race for the counter of one status, and one
can be a scrape while the other is recorded; two tokens are a rotation, and a
third value, none, is the variable unset. For the invariants that are proved (section 5) the bounds do not matter.

Deadlock is checked in every run: the only states without a further step are
those named `Terminated` or `Over`, in which every request has returned (in
Stdio: Start and all Sends; in SseServer: Start and all handlers). They stutter
there.

**Fairness.** `FairSpec` has weak fairness for each goroutine's steps: Go's
scheduler runs every runnable goroutine, and `sync.Mutex`/`RWMutex` do not
starve a waiter for ever (here, waiters are finite in number and each takes
finitely many steps, so weak fairness is enough). It includes `WriteOk`/`WriteFail`: every
network write completes or fails. The code sets no write deadline, so this is
an assumption about clients, not a consequence of the code: a client that stops
reading without closing blocks a Broadcast, then the next Create or Delete, then
every lookup. `ServerSpec` adds the steps of Start (time passes, so a Shutdown
ends by its deadline at the latest) and of the goroutine that listens;
that listening fails is never forced, nor that another goroutine calls Close.
Nothing is fair about clients, callers of Send, disconnects, cancellation or the
input.

## 4. Where code and text disagree

Exhibited by a run:

* `Streamable_late`: a GET that looks up its session before a DELETE and
  registers its writer after it (`transport/streamable.go:233` and `:251`) is
  never swept; its `done` channel stays open although `transport/session.go:48`
  says it is "closed when the session is deleted".
* `Sse_reply`: the endpoint event goes out before the writer is registered
  (`transport/sse.go:204-209`). A POST in between is answered 202 and its
  response is written to nobody, against the comment at `transport/sse.go:246`.
* `Stdio_cancel`: `transport/stdio.go:57` says Start blocks until the context
  is cancelled; a cancellation has no effect while Scan waits for input.

Met while modelling, part of the models but without a run of their own:

* a nil `*RPCError` returned as an error gives a response with neither result
  nor error (`server/server.go:209`; excepted in `RequestAnswered`);
* arguments of a registered tool that do not decode are answered with -32603,
  though -32602 exists for invalid parameters (`protocol/errors.go:18`);
* an object with an id and an ill-typed field is answered under id null;
* a panic of user middleware on a notification is answered, though
  `transport/transport.go:11` says notifications have no response (excepted in
  `SilentOnNotification`);
* after a failed Write the next stdio message is glued to the torn line while
  its own writeLine returns nil (`LineStarts` holds only while no Write failed);
* a POST whose session is deleted while its handler runs still carries the dead
  id in its response;
* `middleware/logging.go:22` says Logging "logs each JSON-RPC request"; one
  whose handler panics unwinds the frame before it logs;
* a Close by another goroutine makes Start return nil at once, while handlers
  run and streams stay open until the context is cancelled; a Close that comes
  before Start has set its server is lost (`DrainedOnReturn` says when nil means
  drained);
* `schema/generate.go:15` says "The json tag controls the property name"; an
  embedded struct is flattened whatever its tag, where `encoding/json` nests it
  under the tag's name or, for "-", skips it; one of an unexported type is left
  out, though `encoding/json` fills its fields (`OddEmbedding`);
* of two fields with one key the schema describes the one met last,
  `encoding/json` fills the least nested, or neither (`Misplaced`);
* numbers are listed without bounds, so that 300 for an `int8`, -1 for a `uint`, or
  1e39 for a `float32` is valid and refused, and so is 1.0 or 1e3 for any Go
  integer; a text that is no date is valid for a `time.Time`, as `format` only
  annotates (`Picky`, `Modest`);
* arrays are listed as strings, maps whose keys are not strings like those whose
  keys are, fields with the `,string` option like those without it (`Loose`);
  a field tagged "-," is not listed, though `encoding/json` names it "-" (`Dashed`);
* a tool whose type is a slice or a map is listed as a string; a field of
  `json.RawMessage` gets the schema `{"type": ""}`, which is not valid JSON Schema;
* the wrapper of a typed tool does not look at what its schema requires:
  missing arguments are zero values;
* members whose names differ from the listed ones in case alone fill the listed
  fields all the same (`Spelled`);
* a float default of NaN cannot be marshalled, so that RegisterTool panics;
  enum values are listed as strings whatever the field's type;
* a type that contains itself makes `schemaFromType` recurse without end;
* behind Metrics no event stream opens: its ResponseWriter is no
  `http.Flusher`, and GET is answered 500 (`Flusher`);
* a snapshot's average divides durations and a total read at different moments;
* `middleware/cors.go:9` says that without origins CORS is "a no-op
  pass-through"; it still answers every OPTIONS itself;
* `server/options.go` documents WithAuthenticator, WithHTTPMiddleware, WithTLS,
  WithAddress and WithGracefulShutdown, whose fields Run never reads: a
  transport takes options of its own, and the cloudflare server, which uses the
  server's WithAuthenticator, does not give its transport one.

## 5. What is proved

The theorems hold for all values of the constants that satisfy the named
assumptions (`SessionsAssumption`, `StreamableAssumption`, `SseAssumption`,
`StdioAssumption`, `RateLimitAssumption`, `DispatchAssumption`, `HttpAssumption`):
the kinds of goroutines are disjoint, and the values that stand for "nothing",
newlines and status lines differ from data. The
argument is the same throughout: an invariant `IInv`, stronger than what is
wanted, holds initially and is preserved by each action (one lemma per action
or group of actions).

* **EventStreamsProofs.** Three theorems of the abstract specification, which
  know of no locks: `NoGaps`, what a client has read is a run of the log up to
  where it reads on; `AtMostOnce`, no client reads an event twice, and of two
  clients of a session both have read the same events in the same order and
  equally far apart (two runs of one log in which no entry is repeated); and
  `DetachedForGood`, the action property that a stream that has detached never
  reads again. StreamableProofs and SseProofs instantiate the module (`Streams`)
  with their refinement mapping and cite the theorems.
* **StreamableProofs.** `TypeCorrect` comes first, on its own. `IInv` adds:
  - `Locking`: `mu[s] = p` exactly when `p` is in writeSSE for `s`; what `p`'s
    loop still holds is registered on `s`, and the writer it is writing to is open; a registered
    writer belongs to a handler that has not returned, or is closed. Cleanup and
    Delete's sweep need `s.mu`, so they never close a writer under a write:
    `NoWriteAfterReturn` (`EmitToLive`) follows. `EmitToLive` alone is not
    inductive, as it says neither who owns the mutex nor what is registered.
  - `RangeHoldsLock`: a Send inside its range loop is among `readers`, and its
    sessions are in the map. Delete removes only when `readers` is empty, hence
    `DeleteSilences` (`NoEventAfterDelete`).
  - `Ids`: an id in any goroutine's hands or request was drawn before, so
    Create cannot draw it again; a DELETE past its first critical section has
    its id out of the map; a POST that got another session than it asked for
    asked for one that is gone; `done` is closed only for registered writers of
    removed sessions. Hence `DeleteIsFinal`, `SessionsStick`,
    `SessionsArePrivate`, `DoneIsDeletion`.
  - `Holding`: the writer's side of the map's lock belongs to the goroutine
    between the two steps of Lock, the read lock to goroutines in the range
    loop, and a stream that was accepted has a session. With `Locking` it says
    of each lock where its owner is, so that every wait goes down: for the map's
    lock to a Create or Delete in progress, from there to a range loop, from
    there to a write, which waits for its client alone: `NoCircularWait`
    (`WaitsDescend`). At the lower end of the descent is a goroutine that has a
    lock and whose next step is possible (`Advances`: the guards of its steps,
    since the prover does not know ENABLED), so that the locks never halt the
    transport: `SomebodyAdvances`. This is the part of freedom from deadlock
    that needs no fairness.

  On the event streams, `SInv` adds `Reaching`: an open stream stays registered,
  through the filtering and storing back of the list too (`LoopKeeps`), and a
  stream that was open when a Broadcast began has its event, is closed, or is
  still ahead of the loop (`Owed`). Hence `BroadcastReachesAll`. With `Logged`
  (the last entry of a session's log is the event being written) and `Visited` (a
  Send has ahead of it only sessions whose logs it has not entered, so it enters
  none twice) each step maps to a step of EventStreams or to none: `Refinement`.
  What EventStreamsProofs shows is then a fact about the transport:
  `FeedsHaveNoGaps` (`GaplessFeed`), `OneOrderPerSession`, that no two streams of
  a session dispute the order of messages both have, and `ClosedForGood`, that
  a closed stream stays closed and nothing more is sent to its client.
  `SendsKeepOrder` relates the feeds to the order of calls: a Send called after
  another had returned comes after it on every stream, for good. Logs are only
  appended to, a Send that has returned enters none, one that is idle is in none
  (`Visited`), and a run of a log keeps its order. `DeletedIsSilent` follows from
  `DeleteSilences`, `DeleteIsFinal` and `Locking`: once a DELETE was answered
  204, no stream of its session is sent anything more, one that registered late
  included.
* **SseProofs.** `Locking` and `Reaching` as above, for the lock discipline of the
  same Sessions under other handlers: `WritesToOpen` (`EmitToLive`),
  `OpenStreamsServed` (`EventReaches`). `Feeds` adds that a stream is
  registered only after its endpoint event, on an id that no other stream has,
  and that a response is delivered only to the id its POST named:
  `EndpointComesFirst`, `ResponsesArePrivate`. `Refinement`, `FeedsHaveNoGaps` (of
  what follows the endpoint event), `ClosedForGood`, `NoCircularWait` and
  `SomebodyAdvances` as above; here a POST too waits for a session's mutex and
  enters a log (`Visited`: once, before it is past its delivery). A session has
  one stream, so there is no second one to agree with. `WritesKeepOrder` is
  `SendsKeepOrder` for responses too: a client that has the 202 of one POST before
  it sends the next reads the two responses in that order.
* **SseServerProofs.** `ServerIsTransport`: every behaviour of the server is a
  behaviour of Sse, so that the life cycle invalidates none of the above.
  `ShutdownDrains` (`DrainedOnReturn`) rests on `Draining`: Start closes only
  when it was cancelled, a listener that ended without an error was shut down,
  and once the server is down no handler starts, so that a drained one stays
  drained. `SilentAfterShutdown` puts it together with `WritesToOpen`: what other
  goroutines write, they write to streams whose handlers run, so that after a
  shutdown that reported success no client reads anything more, although Send
  may still be called.
* **StdioProofs.** `IInv` adds `Mutex` (inside writeLine means owning `t.mu`),
  `NothingTorn`, `StopsAfterOne`, and `Accounted`: a request that has arrived is
  in the input, in the reader's hands, on the output, or failed. Proved:
  `WholeLines` (`LineEnds`, which no run repeats), `LinesApart` (`LineStarts`), `NothingUnanswered`
  (`EndDrains`), `AtMostOneLate`, types. `Order` adds what the order of answers
  rests on, which none of these says: the input is the rest of what arrived (`Queue`), no
  line arrives twice, the line in the reader's hands is the last one scanned,
  answers on the output belong to scanned lines and come in their order, and
  whoever is between its two Writes has just written the end of the output
  (`Halfway`). Hence `AnswersKeepOrder` (`AnswersInOrder`) and `Refinement`: the
  step that ends a writeLine is the abstract `Serve` or `Push`, the steps inside it are
  invisible.
* **RateLimitProofs.** `WindowBound` says nothing about saved tokens. `IInv` adds:
  `PaidFor`, if the bucket was refilled since the observer's mark, what was
  let through plus what is left is at most the burst plus the refill up to the
  last refill; `QuietSince`, if not, nothing was let through since; and
  `NothingLost`, tokens plus what was spent never fall below the burst.
  `RefillIsPaidFor` restates them for the bucket as `allow` sees it after
  refilling, from which `Allow` and `Deny` follow. Proved: `LimitHolds`,
  `BurstIsGranted`, types. `Refinement` (`ImplementsTokenBucket`) needs the types and
  `Untouched` (a client without a bucket has a full one):
  capping after every tick gives what capping once after all of them does
  (`TickRefills`), a bucket that LoadOrStore stores late, with the time of an
  earlier clock reading, is as full as one that was always there, and a decision
  stamps its bucket with the present, so that no interval is refilled twice. The
  bound `MaxTime` plays no part.
* **DispatchProofs.** `Carried` says what a reply that travels back, or a
  panic that unwinds, may be: on the way up the reply answers the message, a panic is below
  Recovery, and a handler's panic is a request's. Proved: `EveryRequestAnswered`,
  `NothingElseAnswered`, `ResultsAreHonest`, types.
* **HttpStackProofs.** `Position` ties the depth of a request to the frame that
  answered it; `Counts` says which counters have it at which point of record,
  `Snapshots` what a snapshot has read by then, and that no counter shrinks
  under it because a stored counter is never replaced. Proved:
  `RequestsCountedOnce`, `SnapshotsBracket`, `RetiredTokensFail`.

Only model-checked: all liveness properties, which are beyond this prover since
they need fairness and ENABLED; and what ToolCalls says of Schema
(`ListedArgumentsDecode`, `SchemaMatchesDecoder`), since a walk over a type is
recursive and what it computes for every type needs induction over data. Every
other property of the runs is proved. The type invariants are part of the proofs
and no run repeats them.

## 6. Not modelled, and why

* Server options and the cloudflare server: setters, configuration and stub
  handlers; no state that changes while requests run.
* Registration while requests run: the comment in `registry/registry.go:16`
  excludes it and no code in the repository does it.
* How long a network write takes: a client that does not read is assumed to
  break in the end (section 3).
* Growth without bound: sessions of the SSE transport, sessions that no client
  deletes, buckets of the limiter. Nothing in the repository bounds them, so
  there is nothing to check.
* The length at which a line is too long for the scanner, the rounding of
  float64 in the limiter, the arithmetic of the metrics' average.
* The jsonschema tag, json tags that `encoding/json` finds invalid, Go types that
  contain themselves or decode themselves (other than `time.Time` and
  `json.RawMessage`), kinds such as channels and functions that neither side can
  use, texts that hold base64 or a scalar.
* Contents of results, wording of errors, headers other than the session id,
  logging.

## 7. Plan

Done, in this order: Sessions with Streamable; EventStreams and the refinement;
Sse; Stdio; RateLimit; Dispatch; Lifecycle with SseServer; HttpStack; Schema with
ToolCalls; the proofs above, with the refinements of EventStreams, LineServer and
TokenBucket, the order of waiting and at-most-once delivery last.

Left, most important first:

1. Lifecycle around Streamable, where DELETE competes with a Shutdown for the
   streams.
2. The part of `Locking` and `Reaching` that speaks of Sessions alone in a module
   of its own, to be used by both transports' proofs.
