--------------------------- MODULE HttpStackProofs --------------------------
(***************************************************************************)
(* Proofs about HttpStack, for any requests, tokens and statuses, and any  *)
(* arrangement of the middleware.                                          *)
(*                                                                         *)
(* CountedOnce rests on Position, where each request is between the        *)
(* frames, and on Counts, which says for every position which counters     *)
(* have the request.  SnapshotBrackets rests on the counters never         *)
(* shrinking, which Counts shows too.                                      *)
(***************************************************************************)
EXTENDS HttpStack, SequenceTheorems, TLAPS

-----------------------------------------------------------------------------
(* The inductive invariant.                                                *)

Served == {"streaming", "up", "time", "store", "count", "answered"}
Place == Served \cup {"idle", "down", "range", "encode", "aborted"}

Snap == [total : SUBSET Request, timed : SUBSET Request, codes : SUBSET Request,
         keys : SUBSET Code, read : SUBSET Code]

\* Every variable has its type.
TypeOK ==
  /\ stack \in Stacks
  /\ tokens \subseteq Token
  /\ env \in Token \cup {None}
  /\ pc \in [Request -> Place]
  /\ depth \in [Request -> 0..Len(stack)]
  /\ kind \in [Request -> Kind]
  /\ status \in [Request -> Code \cup {None}]
  /\ token \in [Request -> Token \cup {None}]
  /\ total \subseteq Request /\ timed \subseteq Request
  /\ stored \subseteq Code
  /\ codes \in [Code -> SUBSET Request]
  /\ snap \in [Request -> Snap]
  /\ by \in [Request -> 0..(Len(stack) + 1)]
  /\ before \in [Request -> SUBSET Request]
  /\ retired \subseteq Token
  /\ old \in [Request -> SUBSET Token]

\* Which frames a request is in, and which one answered it.
Position ==
  \A r \in Request :
    /\ pc[r] \notin Served => by[r] = 0
    /\ pc[r] \in Served => by[r] > depth[r] /\ status[r] \in Code
    /\ pc[r] = "streaming" => by[r] = depth[r] + 1
    /\ pc[r] = "answered" => depth[r] = 0
    /\ pc[r] \in {"time", "store", "count"} => depth[r] \in MetricsAt
    /\ pc[r] \in {"range", "encode"} => depth[r] + 1 \in MetricsAt

\* Metrics has recorded r and returned.
Behind(r) ==
  /\ pc[r] \in {"up", "answered"}
  /\ \E m \in MetricsAt : depth[r] < m /\ m < by[r]

\* Which counters have r.
Counts ==
  \A r \in Request :
    /\ \A c \in Code : r \in codes[c] <=> c = status[r] /\ Behind(r)
    /\ r \in timed <=> Behind(r) \/ pc[r] \in {"store", "count"}
    /\ r \in total <=> Behind(r) \/ pc[r] \in {"time", "store", "count"}
    /\ Behind(r) \/ pc[r] = "count" => status[r] \in stored

\* What a snapshot has read.
Snapshots ==
  \A r \in Request :
    LET s == snap[r] IN
    /\ pc[r] \in {"idle", "down"} => s = NoSnap
    /\ \A q \in s.total \cup s.codes \cup s.timed : pc[q] \in Served \ {"streaming"}
    /\ pc[r] = "range" =>
         \A q \in before[r] :
           /\ q \in s.total
           /\ \E c \in s.keys : q \in codes[c] /\ (c \in s.read => q \in s.codes)
    /\ pc[r] = "encode" => before[r] \subseteq s.total \cap s.codes \cap s.timed

\* The token that env has now has not been retired, and what a request was let
\* in with had not been when it came.
Current ==
  /\ env \notin retired
  /\ \A r \in Request :
       /\ old[r] \subseteq retired
       /\ pc[r] = "idle" => token[r] = None
       /\ token[r] # None =>
            IF tokens # {} THEN token[r] \in tokens ELSE token[r] \notin old[r]

IInv == TypeOK /\ Position /\ Counts /\ Snapshots

\* Metrics is in the stack at most once.
LEMMA OneMetrics ==
  ASSUME stack \in Stacks
  PROVE  /\ Len(stack) \in Nat
         /\ MetricsAt \subseteq 1..Len(stack)
         /\ \A i, j \in MetricsAt : i = j
<1>1. PICK n \in 0..3 : /\ stack \in [1..n -> Middleware]
                        /\ \A i, j \in 1..n : stack[i] = stack[j] => i = j
  BY DEF Stacks
<1>2. stack \in Seq(Middleware)
  BY <1>1, SeqDef
<1>3. Len(stack) = n
  BY <1>1, <1>2, LenProperties
<1> QED  BY <1>1, <1>3 DEF MetricsAt

-----------------------------------------------------------------------------
(* Types.                                                                  *)

\* What an answer of the current frame changes.
LEMMA AnswerType ==
  ASSUME TypeOK, NEW r \in Request, NEW from, NEW code \in Code, Answer(r, from, code),
         token' \in [Request -> Token \cup {None}]
  PROVE  TypeOK'
<1>1. Len(stack) \in Nat /\ depth[r] + 1 \in 0..(Len(stack) + 1)
  BY OneMetrics DEF TypeOK
<1>2. pc' \in [Request -> Place]
  BY DEF Answer, Goto, TypeOK, Place, Served
<1>3. by' \in [Request -> 0..(Len(stack) + 1)]
  BY <1>1 DEF Answer, TypeOK
<1> QED
  BY <1>2, <1>3 DEF TypeOK, Answer, config, counters, history

\* The way in.
LEMMA DownType == ASSUME TypeOK, NEW r \in Request, Down(r) PROVE TypeOK'
<1>1. {"200", "204", "401", "429", "500"} \cup Outcome \subseteq Code
  BY DEF Code
<1>2. \A t \in Accepted : t \in Token
  BY DEF Accepted, ValidTokens, TypeOK
<1>3. depth[r] \in 0..Len(stack) /\ Len(stack) \in Nat
  BY OneMetrics DEF TypeOK
<1>4. ASSUME NEW code \in Code, Answer(r, "down", code),
             \/ UNCHANGED token
             \/ \E t \in Accepted : token' = [token EXCEPT ![r] = t]
      PROVE  TypeOK'
  <2>1. token' \in [Request -> Token \cup {None}]
    BY <1>2, <1>4 DEF TypeOK
  <2> QED  BY <1>4, <2>1, AnswerType
<1>5. ASSUME Call(r), depth[r] < Len(stack) PROVE TypeOK'
  <2>1. depth' \in [Request -> 0..Len(stack)]
    BY <1>3, <1>5 DEF Call, TypeOK
  <2> QED  BY <1>5, <2>1 DEF TypeOK, Call, config, counters, history
<1>6. CASE Cors(r) \/ Limit(r) \/ CallMetrics(r)
  <2>1. depth[r] < Len(stack)
    BY <1>6 DEF Cors, Limit, CallMetrics, Frame
  <2> QED
    BY <1>1, <1>4, <1>5, <1>6, <2>1 DEF Cors, Preflight, Limit, CallMetrics
<1>7. CASE Mux(r) \/ Unauthorized(r) \/ Authorized(r)
  <2>1. Handled(r) \subseteq Code
    BY <1>1 DEF Handled
  <2> QED
    BY <1>1, <1>4, <1>7, <2>1 DEF Mux, Unauthorized, Authorized
<1>8. CASE Stream(r)
  <2>1. by' \in [Request -> 0..(Len(stack) + 1)]
    BY <1>3, <1>8 DEF Stream, TypeOK
  <2>2. pc' \in [Request -> Place] /\ status' \in [Request -> Code \cup {None}]
    BY <1>1, <1>8 DEF Stream, Goto, TypeOK, Place, Served
  <2>3. token' \in [Request -> Token \cup {None}]
    BY <1>2, <1>8 DEF Stream, TypeOK
  <2> QED
    BY <1>8, <2>1, <2>2, <2>3 DEF TypeOK, Stream, config, counters, history
<1>9. CASE Panic(r)
  <2>1. pc' \in [Request -> Place] /\ token' \in [Request -> Token \cup {None}]
    BY <1>2, <1>9 DEF Panic, Goto, TypeOK, Place, Served
  <2> QED
    BY <1>9, <2>1 DEF TypeOK, Panic, config, counters, history
<1> QED  BY <1>6, <1>7, <1>8, <1>9 DEF Down

\* The way back and the recording.
LEMMA UpType ==
  ASSUME TypeOK, Position, NEW r \in Request, Up(r) \/ Record(r)
  PROVE  TypeOK'
<1>1. \A d \in 1..Len(stack) : d - 1 \in 0..Len(stack)
  BY OneMetrics DEF TypeOK
<1>2. depth[r] \in 0..Len(stack) /\ Len(stack) \in Nat
  BY OneMetrics DEF TypeOK
<1>3. ASSUME NEW to \in Place, pc' = [pc EXCEPT ![r] = to] PROVE pc' \in [Request -> Place]
  BY <1>3 DEF TypeOK
<1>4. {"up", "answered", "time", "store", "count"} \subseteq Place
  BY DEF Place, Served
<1>5. CASE StreamEnds(r) \/ Finish(r)
  BY <1>3, <1>4, <1>5 DEF StreamEnds, Finish, Goto, TypeOK, config, counters, history
<1>6. CASE Leave(r)
  <2>1. depth' \in [Request -> 0..Len(stack)]
    BY <1>1, <1>2, <1>6 DEF Leave, TypeOK
  <2> QED  BY <1>6, <2>1 DEF Leave, TypeOK, config, counters, history
<1>7. CASE RecordTotal(r) \/ RecordTime(r)
  BY <1>3, <1>4, <1>7 DEF RecordTotal, RecordTime, Goto, TypeOK, config, history
<1>8. CASE RecordStore(r)
  <2>1. pc[r] = "store" /\ pc' \in [Request -> Place] /\ UNCHANGED status
    BY <1>3, <1>4, <1>8 DEF RecordStore, Goto
  <2>2. codes' \in [Code -> SUBSET Request]
    BY <1>8 DEF RecordStore, TypeOK
  <2>3. status[r] \in Code
    BY <2>1 DEF Position, Served
  <2> QED
    BY <1>8, <2>1, <2>2, <2>3 DEF RecordStore, TypeOK, config, history
<1>9. CASE RecordCount(r)
  <2>1. pc' \in [Request -> Place] /\ depth[r] \in MetricsAt
    BY <1>3, <1>4, <1>9 DEF RecordCount, Goto, Position
  <2>2. depth' \in [Request -> 0..Len(stack)]
    BY <1>1, <1>9, <2>1 DEF RecordCount, TypeOK, MetricsAt
  <2>3. codes' \in [Code -> SUBSET Request]
    BY <1>9 DEF RecordCount, TypeOK
  <2> QED
    BY <1>9, <2>1, <2>2, <2>3 DEF RecordCount, TypeOK, config, history
<1> QED  BY <1>5, <1>6, <1>7, <1>8, <1>9 DEF Up, Record

\* A snapshot reads a set of requests and the keys of some codes.
LEMMA SnapReads ==
  ASSUME NEW s \in Snap, NEW R \in SUBSET Request, NEW K \in SUBSET Code
  PROVE  /\ [s EXCEPT !.total = R, !.keys = K] \in Snap
         /\ [s EXCEPT !.read = K, !.codes = R] \in Snap
         /\ [s EXCEPT !.timed = R] \in Snap
BY DEF Snap

\* Snapshots.
LEMMA SnapshotType == ASSUME TypeOK, NEW r \in Request, Snapshot(r) PROVE TypeOK'
<1>1. {"range", "encode"} \subseteq Place /\ "200" \in Code
  BY DEF Place, Code
<1>2. Recorded \subseteq Request
  BY DEF Recorded, TypeOK
<1>3. CASE SnapTotal(r)
  <2> DEFINE s == [snap[r] EXCEPT !.total = total, !.keys = stored]
  <2>0. s \in Snap
    BY SnapReads DEF TypeOK
  <2>1. snap' \in [Request -> Snap]
    BY <1>3, <2>0 DEF SnapTotal, TypeOK
  <2>2. pc' \in [Request -> Place] /\ before' \in [Request -> SUBSET Request]
    BY <1>1, <1>2, <1>3 DEF SnapTotal, Goto, TypeOK
  <2> QED
    BY <1>3, <2>1, <2>2 DEF SnapTotal, TypeOK, config, counters
<1>4. CASE SnapCode(r)
  <2>1. PICK c \in stored \ snap[r].read :
          snap' = [snap EXCEPT ![r] = [@ EXCEPT !.read = snap[r].read \cup {c},
                                                !.codes = snap[r].codes \cup codes[c]]]
    BY <1>4 DEF SnapCode
  <2>2. c \in Code /\ codes[c] \subseteq Request
    BY DEF TypeOK
  <2> DEFINE s == [snap[r] EXCEPT !.read = snap[r].read \cup {c},
                                 !.codes = snap[r].codes \cup codes[c]]
  <2>0. s \in Snap
    <3>1. snap[r] \in Snap /\ snap[r].read \cup {c} \in SUBSET Code
      BY <2>2 DEF TypeOK, Snap
    <3>2. snap[r].codes \cup codes[c] \in SUBSET Request
      BY <2>2, <3>1 DEF Snap
    <3> QED  BY <3>1, <3>2, SnapReads
  <2>3. snap' = [snap EXCEPT ![r] = s]
    BY <2>1
  <2> HIDE DEF s
  <2>4. snap' \in [Request -> Snap]
    BY <2>0, <2>3 DEF TypeOK
  <2> QED
    BY <1>4, <2>4 DEF SnapCode, TypeOK, config, counters, history
<1>5. CASE SnapTime(r)
  <2> DEFINE s == [snap[r] EXCEPT !.timed = timed]
  <2>0. s \in Snap
    BY SnapReads DEF TypeOK
  <2>1. snap' \in [Request -> Snap]
    BY <1>5, <2>0 DEF SnapTime, TypeOK
  <2>2. pc' \in [Request -> Place]
    BY <1>1, <1>5 DEF SnapTime, Goto, TypeOK
  <2> QED
    BY <1>5, <2>1, <2>2 DEF SnapTime, TypeOK, config, counters, history
<1>6. CASE Scraped(r)
  BY <1>1, <1>6, AnswerType DEF Scraped, TypeOK
<1> QED  BY <1>3, <1>4, <1>5, <1>6 DEF Snapshot

\* Requests arrive, tokens are rotated.
LEMMA OutsideType ==
  ASSUME TypeOK, Rotate \/ \E r \in Request : Arrive(r) PROVE TypeOK'
<1>1. CASE Rotate
  BY <1>1 DEF Rotate, TypeOK, config, counters
<1>2. ASSUME NEW r \in Request, Arrive(r) PROVE TypeOK'
  <2>1. pc' \in [Request -> Place] /\ kind' \in [Request -> Kind]
    BY <1>2 DEF Arrive, Goto, TypeOK, Place
  <2> QED
    BY <1>2, <2>1 DEF Arrive, TypeOK, config, counters
<1> QED  BY <1>1, <1>2

-----------------------------------------------------------------------------
(* Where requests are, and what is counted.                                *)

\* Nothing but the position of r changes.
Moves(r) ==
  /\ UNCHANGED <<stack, counters, snap, before>>
  /\ \A q \in Request \ {r} :
       /\ pc'[q] = pc[q] /\ depth'[q] = depth[q]
       /\ by'[q] = by[q] /\ status'[q] = status[q]

\* r moves: it is counted afterwards as it was before.
LEMMA MoveCounts ==
  ASSUME IInv, NEW r \in Request, Moves(r),
         Behind(r)' <=> Behind(r), Behind(r) => status'[r] = status[r],
         pc[r] \notin {"time", "store", "count"},
         pc'[r] \notin {"time", "store", "count", "range", "encode"},
         pc[r] \in Served \ {"streaming"} => pc'[r] \in Served \ {"streaming"},
         pc'[r] \in {"idle", "down"} => pc[r] \in {"idle", "down"}
  PROVE  Counts' /\ Snapshots'
<1>1. \A q \in Request : Behind(q)' <=> Behind(q)
  BY DEF Moves, Behind, MetricsAt
<1>2. ASSUME NEW q \in Request
      PROVE  /\ \A c \in Code : q \in codes'[c] <=> c = status'[q] /\ Behind(q)'
             /\ q \in timed' <=> Behind(q)' \/ pc'[q] \in {"store", "count"}
             /\ q \in total' <=> Behind(q)' \/ pc'[q] \in {"time", "store", "count"}
             /\ Behind(q)' \/ pc'[q] = "count" => status'[q] \in stored'
  <2>1. CASE q = r
    BY <1>1, <2>1 DEF Moves, IInv, Counts, counters
  <2>2. CASE q # r
    BY <1>1, <2>2 DEF Moves, IInv, Counts, counters
  <2> QED  BY <2>1, <2>2
<1>3. Counts'
  BY <1>2 DEF Counts
<1>4. \A q \in Request : pc[q] \in Served \ {"streaming"} => pc'[q] \in Served \ {"streaming"}
  BY DEF Moves
<1>5. \A q \in Request : pc'[q] \in {"idle", "down"} => pc[q] \in {"idle", "down"}
  BY DEF Moves
<1>6. \A q \in Request : pc'[q] \in {"range", "encode"} => pc'[q] = pc[q]
  BY DEF Moves
<1>7. \A q \in Request : /\ snap[q].total \subseteq Request
                         /\ snap[q].codes \subseteq Request
                         /\ snap[q].timed \subseteq Request
  BY DEF IInv, TypeOK, Snap
<1>8. Snapshots'
  BY <1>4, <1>5, <1>6, <1>7 DEF IInv, Snapshots, Moves, counters
<1> QED  BY <1>3, <1>8

\* The current frame answers.
LEMMA AnswerInv ==
  ASSUME IInv, NEW r \in Request, NEW from \in {"down", "encode"}, NEW code \in Code,
         Answer(r, from, code)
  PROVE  Position' /\ Counts' /\ Snapshots'
<1>1. /\ pc[r] = from /\ pc' = [pc EXCEPT ![r] = "up"]
      /\ status' = [status EXCEPT ![r] = code] /\ by' = [by EXCEPT ![r] = depth[r] + 1]
      /\ UNCHANGED <<depth, stack, counters, snap, before>>
  BY DEF Answer, Goto, config, history
<1>2. /\ pc'[r] = "up" /\ by'[r] = depth[r] + 1 /\ status'[r] = code
      /\ depth'[r] = depth[r] /\ Moves(r)
  BY <1>1 DEF IInv, TypeOK, Moves
<1>3. depth[r] \in Nat /\ MetricsAt \subseteq Nat /\ MetricsAt' = MetricsAt
  BY <1>1, OneMetrics DEF IInv, TypeOK, MetricsAt
<1>4. Position'
  BY <1>2, <1>3 DEF IInv, Position, Moves, Served
<1>5. ~Behind(r) /\ ~Behind(r)'
  BY <1>1, <1>2, <1>3 DEF Behind
<1>6. Counts' /\ Snapshots'
  BY <1>1, <1>2, <1>5, MoveCounts DEF Served
<1> QED  BY <1>4, <1>6

\* The way in, the end of a stream, the way back.
LEMMA MoveInv ==
  ASSUME IInv, NEW r \in Request, Down(r) \/ Up(r) \/ Arrive(r)
  PROVE  Position' /\ Counts' /\ Snapshots'
<1>1. /\ depth[r] \in Nat /\ by[r] \in Nat /\ MetricsAt \subseteq Nat
      /\ \A m \in MetricsAt : m \in Nat
  BY OneMetrics DEF IInv, TypeOK
<1>2. {"200", "204", "401", "429", "500"} \cup Outcome \subseteq Code
  BY DEF Code
<1>3. ASSUME NEW code \in Code, Answer(r, "down", code)
      PROVE  Position' /\ Counts' /\ Snapshots'
  BY <1>3, AnswerInv
<1>4. ASSUME Moves(r), pc'[r] \notin Served, pc[r] \notin Served, by'[r] = by[r],
             pc'[r] \notin {"range", "encode"},
             pc'[r] \in {"idle", "down"} => pc[r] \in {"idle", "down"}
      PROVE  Position' /\ Counts' /\ Snapshots'
  <2>1. Position'
    BY <1>4 DEF IInv, Position, Moves, MetricsAt, Served
  <2>2. ~Behind(r) /\ ~Behind(r)'
    BY <1>4 DEF Behind, Served
  <2> QED  BY <1>4, <2>1, <2>2, MoveCounts DEF Served
<1>5. CASE Arrive(r)
  BY <1>4, <1>5 DEF Arrive, Goto, Moves, Served, config, IInv, TypeOK
<1>6. CASE Down(r)
  <2>1. ASSUME Call(r) PROVE Position' /\ Counts' /\ Snapshots'
    BY <1>4, <2>1 DEF Call, Moves, Served, config, history, IInv, TypeOK
  <2>2. Handled(r) \subseteq Code
    BY <1>2 DEF Handled
  <2>3. CASE Cors(r) \/ Limit(r) \/ CallMetrics(r)
    BY <1>2, <1>3, <2>1, <2>3 DEF Cors, Preflight, Limit, CallMetrics
  <2>4. CASE Mux(r) \/ Unauthorized(r) \/ Authorized(r)
    BY <1>2, <1>3, <2>2, <2>4 DEF Mux, Unauthorized, Authorized
  <2>5. CASE Panic(r)
    BY <1>4, <2>5 DEF Panic, Goto, Moves, Served, config, history, IInv, TypeOK
  <2>6. CASE Stream(r)
    <3>1. /\ pc[r] = "down" /\ pc'[r] = "streaming" /\ by'[r] = depth[r] + 1
          /\ status'[r] = "200" /\ depth' = depth /\ Moves(r)
      BY <2>6 DEF Stream, Goto, Moves, config, history, IInv, TypeOK
    <3>2. Position'
      BY <1>1, <1>2, <3>1 DEF IInv, Position, Moves, MetricsAt, Served
    <3>3. ~Behind(r) /\ ~Behind(r)'
      BY <3>1 DEF Behind
    <3> QED  BY <3>1, <3>2, <3>3, MoveCounts DEF Served
  <2> QED  BY <1>6, <2>3, <2>4, <2>5, <2>6 DEF Down
<1>7. CASE Up(r)
  <2>1. CASE StreamEnds(r)
    <3>1. /\ pc[r] = "streaming" /\ pc'[r] = "up"
          /\ UNCHANGED <<by, depth, status>> /\ Moves(r)
      BY <2>1 DEF StreamEnds, Goto, Moves, config, history, IInv, TypeOK
    <3>2. Position'
      BY <3>1 DEF IInv, Position, Moves, MetricsAt, Served
    <3>3. by[r] = depth[r] + 1
      BY <3>1 DEF IInv, Position
    <3>4. ~Behind(r) /\ ~Behind(r)'
      BY <1>1, <3>1, <3>3 DEF Behind, Moves, MetricsAt
    <3> QED  BY <3>1, <3>2, <3>4, MoveCounts DEF Served
  <2>2. CASE Leave(r)
    <3>1. /\ pc[r] = "up" /\ pc'[r] = "up" /\ depth[r] \in 1..Len(stack)
          /\ depth'[r] = depth[r] - 1 /\ stack[depth[r]] # "metrics"
          /\ UNCHANGED <<by, status>> /\ Moves(r)
      BY <2>2 DEF Leave, Moves, config, history, IInv, TypeOK
    <3>2. Position'
      BY <1>1, <3>1 DEF IInv, Position, Moves, MetricsAt, Served
    <3>3. /\ depth[r] \notin MetricsAt /\ MetricsAt' = MetricsAt
          /\ depth'[r] = depth[r] - 1
      BY <3>1 DEF MetricsAt, Moves
    <3>4. ASSUME NEW m \in MetricsAt PROVE depth'[r] < m <=> depth[r] < m
      <4>1. m \in Nat /\ depth[r] \in Nat /\ m # depth[r]
        BY <1>1, <3>3
      <4> QED  BY <3>3, <4>1
    <3>5. Behind(r)' <=> Behind(r)
      BY <3>1, <3>3, <3>4 DEF Behind
    <3> QED  BY <3>1, <3>2, <3>5, MoveCounts DEF Served
  <2>3. CASE Finish(r)
    <3>1. /\ pc[r] = "up" /\ pc'[r] = "answered" /\ depth[r] = 0
          /\ UNCHANGED <<by, depth, status>> /\ Moves(r)
      BY <2>3 DEF Finish, Goto, Moves, config, history, IInv, TypeOK
    <3>2. Position'
      BY <3>1 DEF IInv, Position, Moves, MetricsAt, Served
    <3>3. Behind(r)' <=> Behind(r)
      BY <3>1 DEF Behind, Moves, MetricsAt
    <3> QED  BY <3>1, <3>2, <3>3, MoveCounts DEF Served
  <2> QED  BY <1>7, <2>1, <2>2, <2>3 DEF Up
<1> QED  BY <1>5, <1>6, <1>7

\* record takes one of its steps: the counters grow, and snapshots stay right.
LEMMA RecordSnapshots ==
  ASSUME IInv, NEW r \in Request, Record(r), \A c \in Code : codes[c] \subseteq codes'[c]
  PROVE  Snapshots'
<1>1. /\ pc[r] \in Served \ {"streaming"} /\ pc'[r] \in Served \ {"streaming"}
      /\ \A q \in Request \ {r} : pc'[q] = pc[q]
      /\ UNCHANGED <<snap, before>>
  <2>1. CASE RecordTotal(r) \/ RecordTime(r)
    BY <2>1 DEF RecordTotal, RecordTime, Goto, Served, history, IInv, TypeOK
  <2>2. CASE RecordStore(r) \/ RecordCount(r)
    BY <2>2 DEF RecordStore, RecordCount, Goto, Served, history, IInv, TypeOK
  <2> QED  BY <2>1, <2>2 DEF Record
<1>2. \A q \in Request : pc[q] \in Served \ {"streaming"} => pc'[q] \in Served \ {"streaming"}
  BY <1>1
<1>3. \A q \in Request : pc'[q] \in {"idle", "down", "range", "encode"} => pc'[q] = pc[q]
  BY <1>1 DEF Served
<1>4. \A q \in Request : snap[q] \in Snap
  BY DEF IInv, TypeOK
<1>5. ASSUME NEW q \in Request
      PROVE  LET s == snap'[q] IN
             /\ pc'[q] \in {"idle", "down"} => s = NoSnap
             /\ \A x \in s.total \cup s.codes \cup s.timed : pc'[x] \in Served \ {"streaming"}
             /\ pc'[q] = "encode" => before'[q] \subseteq s.total \cap s.codes \cap s.timed
  BY <1>1, <1>2, <1>3, <1>4 DEF IInv, Snapshots, Snap
<1>6. ASSUME NEW q \in Request, pc'[q] = "range", NEW x \in before'[q]
      PROVE  LET s == snap'[q] IN
             /\ x \in s.total
             /\ \E c \in s.keys : x \in codes'[c] /\ (c \in s.read => x \in s.codes)
  <2>1. pc[q] = "range" /\ x \in before[q] /\ snap'[q] = snap[q]
    BY <1>1, <1>3, <1>6
  <2>2. PICK c \in snap[q].keys : x \in codes[c] /\ (c \in snap[q].read => x \in snap[q].codes)
    BY <2>1 DEF IInv, Snapshots
  <2>3. x \in codes'[c]
    BY <1>4, <2>2 DEF Snap
  <2> QED  BY <2>1, <2>2, <2>3 DEF IInv, Snapshots
<1> QED  BY <1>5, <1>6 DEF Snapshots

\* record counts r in the position it has, and nobody else.
LEMMA RecordInv ==
  ASSUME IInv, NEW r \in Request, Record(r)
  PROVE  Position' /\ Counts' /\ Snapshots'
<1> DEFINE m == depth[r]
<1>1. /\ depth[r] \in Nat /\ by[r] \in Nat /\ MetricsAt \subseteq Nat
      /\ \A i \in MetricsAt : i \in Nat
      /\ \A i, j \in MetricsAt : i = j
  BY OneMetrics DEF IInv, TypeOK
<1>2. pc[r] \in Served /\ by[r] > m /\ status[r] \in Code
  BY DEF IInv, Position, Record, RecordTotal, RecordTime, RecordStore, RecordCount, Goto, Served
<1>3. \A q \in Request \ {r} : /\ pc'[q] = pc[q] /\ depth'[q] = depth[q]
                               /\ by'[q] = by[q] /\ status'[q] = status[q]
  <2>1. CASE RecordTotal(r) \/ RecordTime(r)
    BY <2>1 DEF RecordTotal, RecordTime, Goto, IInv, TypeOK
  <2>2. CASE RecordStore(r) \/ RecordCount(r)
    BY <2>2 DEF RecordStore, RecordCount, Goto, IInv, TypeOK
  <2> QED  BY <2>1, <2>2 DEF Record
<1>4. MetricsAt' = MetricsAt /\ UNCHANGED <<by, status>>
  BY DEF Record, RecordTotal, RecordTime, RecordStore, RecordCount, MetricsAt, config
<1>5. \A q \in Request \ {r} : Behind(q)' <=> Behind(q)
  BY <1>3, <1>4 DEF Behind
<1>6. ASSUME Position', \A c \in Code : codes[c] \subseteq codes'[c],
             \A q \in Request \ {r} : /\ \A c \in Code : q \in codes'[c] <=> q \in codes[c]
                                      /\ q \in timed' <=> q \in timed
                                      /\ q \in total' <=> q \in total,
             stored \subseteq stored',
             \A c \in Code : r \in codes'[c] <=> c = status[r] /\ Behind(r)',
             r \in timed' <=> Behind(r)' \/ pc'[r] \in {"store", "count"},
             r \in total' <=> Behind(r)' \/ pc'[r] \in {"time", "store", "count"},
             Behind(r)' \/ pc'[r] = "count" => status[r] \in stored'
      PROVE  Position' /\ Counts' /\ Snapshots'
  <2>1. Counts'
    <3>1. \A q \in Request \ {r} :
            /\ \A c \in Code : q \in codes'[c] <=> c = status'[q] /\ Behind(q)'
            /\ q \in timed' <=> Behind(q)' \/ pc'[q] \in {"store", "count"}
            /\ q \in total' <=> Behind(q)' \/ pc'[q] \in {"time", "store", "count"}
            /\ Behind(q)' \/ pc'[q] = "count" => status'[q] \in stored'
      BY <1>3, <1>5, <1>6 DEF IInv, Counts
    <3> QED  BY <1>4, <1>6, <3>1 DEF Counts
  <2> QED  BY <1>6, <2>1, RecordSnapshots
<1>7. CASE RecordTotal(r)
  <2>1. /\ pc[r] = "up" /\ pc'[r] = "time" /\ m \in MetricsAt /\ depth' = depth
        /\ total' = total \cup {r} /\ UNCHANGED <<timed, stored, codes>>
    BY <1>7 DEF RecordTotal, Goto, MetricsAt, IInv, TypeOK
  <2>2. ~Behind(r) /\ ~Behind(r)'
    BY <1>1, <2>1 DEF Behind
  <2>3. Position'
    BY <1>2, <1>3, <1>4, <2>1 DEF IInv, Position, Served
  <2> QED  BY <1>6, <2>1, <2>2, <2>3 DEF IInv, Counts
<1>8. CASE RecordTime(r)
  <2>1. /\ pc[r] = "time" /\ pc'[r] = "store" /\ m \in MetricsAt /\ depth' = depth
        /\ timed' = timed \cup {r} /\ UNCHANGED <<total, stored, codes>>
    BY <1>8 DEF RecordTime, Goto, IInv, Position, TypeOK
  <2>2. ~Behind(r) /\ ~Behind(r)'
    BY <2>1 DEF Behind
  <2>3. Position'
    BY <1>2, <1>3, <1>4, <2>1 DEF IInv, Position, Served
  <2> QED  BY <1>6, <2>1, <2>2, <2>3 DEF IInv, Counts
<1>9. CASE RecordStore(r)
  <2>1. /\ pc[r] = "store" /\ pc'[r] = "count" /\ m \in MetricsAt /\ depth' = depth
        /\ stored' = stored \cup {status[r]} /\ UNCHANGED <<total, timed>>
    BY <1>9 DEF RecordStore, Goto, IInv, Position, TypeOK
  <2>2. ~Behind(r) /\ ~Behind(r)'
    BY <2>1 DEF Behind
  <2>3. Position'
    BY <1>2, <1>3, <1>4, <2>1 DEF IInv, Position, Served
  <2>4. \A c \in Code \ stored : codes[c] = {}
    BY DEF IInv, Counts, TypeOK
  <2>5. codes' = codes
    <3>1. CASE Stores(status[r])
      BY <1>2, <1>9, <2>4, <3>1 DEF RecordStore, Stores, IInv, TypeOK
    <3>2. CASE ~Stores(status[r])
      BY <1>9, <3>2 DEF RecordStore
    <3> QED  BY <3>1, <3>2
  <2> QED  BY <1>6, <2>1, <2>2, <2>3, <2>5 DEF IInv, Counts
<1>10. CASE RecordCount(r)
  <2>1. /\ pc[r] = "count" /\ pc'[r] = "up" /\ m \in MetricsAt /\ depth'[r] = m - 1
        /\ codes' = [codes EXCEPT ![status[r]] = @ \cup {r}]
        /\ UNCHANGED <<total, timed, stored>>
    BY <1>10 DEF RecordCount, Goto, IInv, Position, TypeOK
  <2>2. Behind(r)' /\ ~Behind(r)
    BY <1>1, <1>2, <1>4, <2>1 DEF Behind
  <2>3. Position'
    BY <1>1, <1>2, <1>3, <1>4, <2>1 DEF IInv, Position, Served
  <2>4. \A c \in Code : codes'[c] = IF c = status[r] THEN codes[c] \cup {r} ELSE codes[c]
    BY <1>2, <2>1 DEF IInv, TypeOK
  <2> QED  BY <1>6, <2>1, <2>2, <2>3, <2>4 DEF IInv, Counts
<1> QED  BY <1>7, <1>8, <1>9, <1>10 DEF Record

\* A snapshot moves nobody else and counts nothing.
LEMMA SnapshotInv ==
  ASSUME IInv, NEW r \in Request, Snapshot(r)
  PROVE  Position' /\ Counts' /\ Snapshots'
<1>1. CASE Scraped(r)
  BY <1>1, AnswerInv DEF Scraped, Code
<1>2. ASSUME /\ UNCHANGED <<stack, depth, by, status, counters>>
             /\ \A q \in Request \ {r} : pc'[q] = pc[q]
             /\ pc[r] \in {"down", "range"} /\ pc'[r] \in {"range", "encode"}
             /\ depth[r] + 1 \in MetricsAt
      PROVE  Position' /\ Counts'
  <2>1. Position'
    BY <1>2 DEF IInv, Position, MetricsAt, Served
  <2>2. \A q \in Request : Behind(q)' <=> Behind(q)
    BY <1>2 DEF Behind, MetricsAt
  <2> QED  BY <1>2, <2>1, <2>2 DEF IInv, Counts, counters
<1>3. ASSUME /\ UNCHANGED codes
             /\ \A q \in Request \ {r} :
                  pc'[q] = pc[q] /\ snap'[q] = snap[q] /\ before'[q] = before[q]
             /\ pc[r] \in {"down", "range"} /\ pc'[r] \in {"range", "encode"},
             LET s == snap'[r] IN
             /\ s.total \cup s.codes \cup s.timed \subseteq
                   snap[r].total \cup snap[r].codes \cup snap[r].timed
                     \cup total \cup timed \cup UNION {codes[c] : c \in Code}
             /\ pc'[r] = "range" =>
                  \A q \in before'[r] :
                    /\ q \in s.total
                    /\ \E c \in s.keys : q \in codes[c] /\ (c \in s.read => q \in s.codes)
             /\ pc'[r] = "encode" => before'[r] \subseteq s.total \cap s.codes \cap s.timed
      PROVE  Snapshots'
  <2>1. \A q \in Request : pc[q] \in Served \ {"streaming"} => pc'[q] \in Served \ {"streaming"}
    BY <1>3 DEF Served
  <2>2. \A q \in total \cup timed \cup UNION {codes[c] : c \in Code} :
          q \in Request /\ pc[q] \in Served \ {"streaming"}
    BY DEF IInv, TypeOK, Counts, Behind, Served
  <2>3. \A q \in Request : snap[q] \in Snap
    BY DEF IInv, TypeOK
  <2>4. \A q \in snap[r].total \cup snap[r].codes \cup snap[r].timed :
          q \in Request /\ pc[q] \in Served \ {"streaming"}
    BY <2>3 DEF IInv, Snapshots, Snap
  <2>5. \A q \in snap'[r].total \cup snap'[r].codes \cup snap'[r].timed :
          pc'[q] \in Served \ {"streaming"}
    BY <1>3, <2>1, <2>2, <2>4
  <2>6. ASSUME NEW q \in Request, q # r
        PROVE  LET s == snap'[q] IN
               /\ pc'[q] \in {"idle", "down"} => s = NoSnap
               /\ \A x \in s.total \cup s.codes \cup s.timed : pc'[x] \in Served \ {"streaming"}
               /\ pc'[q] = "range" =>
                    \A x \in before'[q] :
                      /\ x \in s.total
                      /\ \E c \in s.keys : x \in codes'[c] /\ (c \in s.read => x \in s.codes)
               /\ pc'[q] = "encode" => before'[q] \subseteq s.total \cap s.codes \cap s.timed
    BY <1>3, <2>1, <2>3, <2>6 DEF IInv, Snapshots, Snap
  <2>7. pc'[r] \notin {"idle", "down"}
    BY <1>3
  <2> QED  BY <1>3, <2>5, <2>6, <2>7 DEF Snapshots
<1>4. snap[r] \in Snap
  BY DEF IInv, TypeOK
<1>5. CASE SnapTotal(r)
  <2> DEFINE s == [snap[r] EXCEPT !.total = total, !.keys = stored]
  <2>1. /\ pc[r] = "down" /\ pc'[r] = "range" /\ snap'[r] = s /\ before'[r] = Recorded
        /\ UNCHANGED <<stack, depth, by, status, counters>>
        /\ \A q \in Request \ {r} :
             pc'[q] = pc[q] /\ snap'[q] = snap[q] /\ before'[q] = before[q]
    BY <1>5 DEF SnapTotal, Goto, config, IInv, TypeOK
  <2>2. depth[r] + 1 \in MetricsAt
    <3>1. depth[r] \in Nat /\ Len(stack) \in Nat
      BY OneMetrics DEF IInv, TypeOK
    <3> QED  BY <1>5, <3>1 DEF SnapTotal, Frame, MetricsAt
  <2>3. snap[r] = NoSnap
    BY <2>1 DEF IInv, Snapshots
  <2>4. /\ s.total = total /\ s.keys = stored /\ s.read = {} /\ s.codes = {} /\ s.timed = {}
    BY <2>3 DEF NoSnap
  <2>5. \A q \in Recorded : q \in total /\ \E c \in stored : q \in codes[c]
    BY DEF Recorded, IInv, Counts, TypeOK
  <2>6. UNCHANGED codes
    BY <2>1 DEF counters
  <2> HIDE DEF s
  <2>7. Snapshots'
    BY <1>3, <2>1, <2>4, <2>5, <2>6
  <2> QED  BY <1>2, <2>1, <2>2, <2>7
<1>6. CASE SnapCode(r)
  <2>1. PICK c \in stored \ snap[r].read :
          snap' = [snap EXCEPT ![r] = [@ EXCEPT !.read = snap[r].read \cup {c},
                                                !.codes = snap[r].codes \cup codes[c]]]
    BY <1>6 DEF SnapCode
  <2>2. /\ pc[r] = "range" /\ UNCHANGED <<pc, stack, depth, by, status, counters, before>>
        /\ depth[r] + 1 \in MetricsAt /\ c \in Code
    BY <1>6 DEF SnapCode, config, history, IInv, Position, TypeOK
  <2>3. /\ snap'[r].total = snap[r].total /\ snap'[r].keys = snap[r].keys
        /\ snap'[r].read = snap[r].read \cup {c} /\ snap'[r].codes = snap[r].codes \cup codes[c]
        /\ snap'[r].timed = snap[r].timed
        /\ \A q \in Request \ {r} : snap'[q] = snap[q]
    BY <1>4, <2>1 DEF IInv, TypeOK, Snap
  <2>4. \A q \in before[r] :
          /\ q \in snap[r].total
          /\ \E k \in snap[r].keys : q \in codes[k] /\ (k \in snap[r].read => q \in snap[r].codes)
    BY <2>2 DEF IInv, Snapshots
  <2>5. \A q \in before[r] :
          /\ q \in snap'[r].total
          /\ \E k \in snap'[r].keys : q \in codes[k] /\ (k \in snap'[r].read => q \in snap'[r].codes)
    BY <2>3, <2>4
  <2>6. Snapshots'
    BY <1>3, <2>2, <2>3, <2>5 DEF counters
  <2> QED  BY <1>2, <2>2, <2>6
<1>7. CASE SnapTime(r)
  <2>1. /\ pc[r] = "range" /\ pc'[r] = "encode" /\ snap[r].keys \subseteq snap[r].read
        /\ UNCHANGED <<stack, depth, by, status, counters, before>>
        /\ \A q \in Request \ {r} : pc'[q] = pc[q] /\ snap'[q] = snap[q]
        /\ depth[r] + 1 \in MetricsAt
    BY <1>7 DEF SnapTime, Goto, config, history, IInv, Position, TypeOK
  <2>2. /\ snap'[r].total = snap[r].total /\ snap'[r].codes = snap[r].codes
        /\ snap'[r].timed = timed
    BY <1>4, <1>7 DEF SnapTime, IInv, TypeOK, Snap
  <2>3. \A q \in before[r] : /\ q \in snap[r].total /\ q \in snap[r].codes
                             /\ \E c \in Code : q \in codes[c]
    BY <1>4, <2>1 DEF IInv, Snapshots, Snap
  <2>4. \A q \in before[r] : q \in timed
    BY <2>3 DEF IInv, Counts, TypeOK
  <2>5. Snapshots'
    BY <1>3, <2>1, <2>2, <2>3, <2>4 DEF counters
  <2> QED  BY <1>2, <2>1, <2>5
<1> QED  BY <1>1, <1>5, <1>6, <1>7 DEF Snapshot

-----------------------------------------------------------------------------
(* The theorems.                                                           *)

\* Nothing is counted before the first request.
LEMMA InitInv == Init => IInv
<1> SUFFICES ASSUME Init PROVE IInv
  OBVIOUS
<1>1. TypeOK
  <2>1. Len(stack) \in Nat
    BY OneMetrics DEF Init
  <2>2. snap \in [Request -> Snap]
    BY DEF Init, Snap, NoSnap
  <2>3. depth \in [Request -> 0..Len(stack)] /\ by \in [Request -> 0..(Len(stack) + 1)]
    BY <2>1 DEF Init
  <2> QED  BY <2>2, <2>3 DEF Init, TypeOK, Place, Kind
<1>2. Position /\ Counts
  BY DEF Init, Position, Counts, Behind, Served
<1>3. Snapshots
  BY DEF Init, Snapshots, NoSnap
<1> QED  BY <1>1, <1>2, <1>3 DEF IInv

\* IInv is preserved by every step.
LEMMA NextInv == IInv /\ [Next]_vars => IInv'
<1> SUFFICES ASSUME IInv, [Next]_vars PROVE IInv'
  OBVIOUS
<1>1. CASE Rotate
  <2>1. TypeOK'
    BY <1>1, OutsideType DEF IInv
  <2>2. UNCHANGED <<stack, pc, depth, by, status, counters, snap, before>>
    BY <1>1 DEF Rotate, config
  <2> QED
    BY <2>1, <2>2 DEF IInv, Position, Counts, Snapshots, Behind, MetricsAt, counters
<1>2. CASE UNCHANGED vars
  <2>1. UNCHANGED <<stack, pc, depth, by, status, counters, snap, before>>
    BY <1>2 DEF vars, config, history
  <2>2. TypeOK'
    BY <1>2 DEF IInv, TypeOK, vars, config, counters, history
  <2> QED
    BY <2>1, <2>2 DEF IInv, Position, Counts, Snapshots, Behind, MetricsAt, counters
<1>3. ASSUME NEW r \in Request, Arrive(r) \/ Down(r) \/ Up(r) \/ Record(r) \/ Snapshot(r)
      PROVE  IInv'
  <2>1. TypeOK'
    BY <1>3, OutsideType, DownType, UpType, SnapshotType DEF IInv
  <2>2. Position' /\ Counts' /\ Snapshots'
    BY <1>3, MoveInv, RecordInv, SnapshotInv
  <2> QED  BY <2>1, <2>2 DEF IInv
<1> QED  BY <1>1, <1>2, <1>3 DEF Next, Terminated

LEMMA Invariant == Spec => []IInv
BY InitInv, NextInv, PTL DEF Spec

\* The metrics count every request that was recorded once, under its status.
THEOREM RequestsCountedOnce == Spec => []CountedOnce
<1>1. IInv => CountedOnce
  <2> SUFFICES ASSUME IInv, NEW r \in Request
               PROVE  /\ pc[r] = "answered" =>
                           \A c \in Code : r \in codes[c] <=> Passed(r) /\ c = status[r]
                      /\ pc[r] \in {"answered", "aborted"} =>
                           (r \in total <=> by[r] # 0 /\ Passed(r))
    BY DEF CountedOnce
  <2>1. \A m \in MetricsAt : m \in Nat /\ m > 0
    BY OneMetrics DEF IInv, TypeOK
  <2>2. by[r] \in Nat
    BY OneMetrics DEF IInv, TypeOK
  <2>3. CASE pc[r] = "answered"
    <3>1. Behind(r) <=> Passed(r)
      BY <2>1, <2>3 DEF IInv, Position, Behind, Passed
    <3>2. by[r] # 0
      BY <2>3 DEF IInv, Position, Served
    <3> QED  BY <2>3, <3>1, <3>2 DEF IInv, Counts
  <2>4. CASE pc[r] = "aborted"
    BY <2>4 DEF IInv, Position, Counts, Behind, Served
  <2> QED  BY <2>3, <2>4
<1> QED  BY <1>1, Invariant, PTL

\* A snapshot lies between what was recorded when it began and what was served
\* when it ended.
THEOREM SnapshotsBracket == Spec => []SnapshotBrackets
<1>1. IInv => SnapshotBrackets
  <2> SUFFICES ASSUME IInv, NEW r \in Request, pc[r] = "encode"
               PROVE  LET s == snap[r] IN
                      /\ before[r] \subseteq s.total \cap s.codes \cap s.timed
                      /\ \A q \in s.total \cup s.codes \cup s.timed :
                           status[q] # None /\ pc[q] # "streaming"
    BY DEF SnapshotBrackets
  <2>1. snap[r] \in Snap
    BY DEF IInv, TypeOK
  <2>2. ASSUME NEW q \in snap[r].total \cup snap[r].codes \cup snap[r].timed
        PROVE  status[q] # None /\ pc[q] # "streaming"
    <3>1. q \in Request /\ pc[q] \in Served \ {"streaming"}
      BY <2>1 DEF Snap, IInv, Snapshots
    <3> QED  BY <3>1, HttpAssumption DEF IInv, Position
  <2> QED  BY <2>2 DEF IInv, Snapshots
<1> QED  BY <1>1, Invariant, PTL

\* A token that has been replaced lets in nobody who comes after that.
THEOREM RetiredTokensFail == Spec => []AcceptIsCurrent
<1>1. Init => Current
  BY HttpAssumption DEF Init, Current
<1>2. IInv /\ Current /\ [Next]_vars => Current'
  <2> SUFFICES ASSUME IInv, Current, [Next]_vars PROVE Current'
    OBVIOUS
  <2>1. CASE Rotate
    BY <2>1, HttpAssumption DEF Rotate, Current, IInv, TypeOK, config
  <2>2. CASE UNCHANGED <<tokens, env, retired, old, token>>
             /\ \A r \in Request : pc'[r] = "idle" => pc[r] = "idle"
    BY <2>2 DEF Current
  <2>3. ASSUME NEW r \in Request, Arrive(r) PROVE Current'
    BY <2>3 DEF Arrive, Goto, Current, IInv, TypeOK, config
  <2>4. ASSUME NEW r \in Request, NEW t \in Accepted, token' = [token EXCEPT ![r] = t],
               UNCHANGED <<tokens, env, retired, old>>,
               pc'[r] # "idle", \A q \in Request \ {r} : pc'[q] = pc[q]
        PROVE  Current'
    <3>1. t \in ValidTokens
      BY DEF Accepted
    <3>2. IF tokens # {} THEN t \in tokens ELSE t \notin old[r]
      BY <3>1 DEF ValidTokens, Current
    <3> QED  BY <2>4, <3>2 DEF Current, IInv, TypeOK
  <2>5. ASSUME NEW r \in Request, Down(r) PROVE Current'
    <3>1. UNCHANGED <<tokens, env, retired, old>>
      BY <2>5 DEF Down, Cors, Preflight, Limit, CallMetrics, Mux, Unauthorized, Authorized,
                  Stream, Panic, Answer, Call, config, history
    <3>2. pc'[r] # "idle" /\ \A q \in Request \ {r} : pc'[q] = pc[q]
      BY <2>5 DEF Down, Cors, Preflight, Limit, CallMetrics, Mux, Unauthorized, Authorized,
                  Stream, Panic, Answer, Call, Goto, IInv, TypeOK
    <3>3. UNCHANGED token \/ \E t \in Accepted : token' = [token EXCEPT ![r] = t]
      BY <2>5 DEF Down, Cors, Preflight, Limit, CallMetrics, Mux, Unauthorized, Authorized,
                  Stream, Panic, Answer, Call
    <3> QED  BY <2>2, <2>4, <3>1, <3>2, <3>3
  <2>6. ASSUME NEW r \in Request, Up(r) \/ Record(r) \/ Snapshot(r) PROVE Current'
    <3>1. UNCHANGED <<tokens, env, retired, old, token>>
      BY <2>6 DEF Up, StreamEnds, Leave, Finish, Record, RecordTotal, RecordTime, RecordStore,
                  RecordCount, Snapshot, SnapTotal, SnapCode, SnapTime, Scraped, Answer,
                  config, history
    <3>2. \A q \in Request : pc'[q] = "idle" => pc[q] = "idle"
      BY <2>6 DEF Up, StreamEnds, Leave, Finish, Record, RecordTotal, RecordTime, RecordStore,
                  RecordCount, Snapshot, SnapTotal, SnapCode, SnapTime, Scraped, Answer, Goto,
                  IInv, TypeOK
    <3> QED  BY <2>2, <3>1, <3>2
  <2>7. CASE UNCHANGED vars
    BY <2>2, <2>7 DEF vars, config, history
  <2> QED  BY <2>1, <2>3, <2>5, <2>6, <2>7 DEF Next, Terminated
<1>3. Current => AcceptIsCurrent
  BY DEF Current, AcceptIsCurrent
<1> QED  BY <1>1, <1>2, <1>3, Invariant, PTL DEF Spec

=============================================================================
