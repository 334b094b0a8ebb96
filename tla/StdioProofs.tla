----------------------------- MODULE StdioProofs -----------------------------
(***************************************************************************)
(* Proofs about the stdio transport, for any input and any number of       *)
(* concurrent Sends.                                                       *)
(*                                                                         *)
(* LineEnds and LineStarts rest on Mutex: between the two Write calls of a *)
(* writeLine nobody else writes.  EndDrains rests on Accounted: a request  *)
(* that has arrived is at every moment somewhere on its way.               *)
(* AnswersInOrder and the refinement of LineServer rest on Order: what was *)
(* scanned is a prefix of what arrived, and only the last line scanned can *)
(* still be answered.                                                      *)
(***************************************************************************)
EXTENDS Stdio, SequenceTheorems, TLAPS

\* Whoever is inside writeLine owns t.mu.
Mutex == \A p \in Proc : pc[p] \in {"body", "newline"} <=> mu = p

\* A torn message implies a failed Write.
NothingTorn == failed = {} => \A i \in 1..Len(output) : output[i] # Torn

\* A line handled after the cancellation was the last one.
StopsAfterOne == late > 0 => ctxDone /\ pc[Reader] \notin {"scan", "handle"}

IsIn(l, s) == \E i \in 1..Len(s) : s[i] = l

\* A request is waiting in the input, in the reader's hands, or answered.
Accounted ==
  \A l \in DOMAIN kind : kind[l] = "request" =>
    \/ l \in failed
    \/ IsIn(l, output)
    \/ IsIn(l, input)
    \/ current = l /\ pc[Reader] \in {"handle", "lock", "body"}

\* Without a cancellation Start returns nil only at the end of the input.
NilMeansEnd == result = "nil" /\ ~ctxDone => input = <<>> /\ eof

IInv ==
  /\ TypeOK /\ Mutex
  /\ LineEnds /\ LineStarts /\ NothingTorn
  /\ StopsAfterOne /\ OneAfterCancel
  /\ Accounted /\ NilMeansEnd

-----------------------------------------------------------------------------
(* IInv is inductive.                                                      *)

\* Before Start has read anything nothing is owed to anybody.
LEMMA InitHolds == Init => IInv
<1> SUFFICES ASSUME Init PROVE IInv
  OBVIOUS
<1>1. TypeOK
  <2>1. DOMAIN kind = {} /\ kind \in [DOMAIN kind -> Kind]
    BY DEF Init
  <2>2. /\ pc \in [Proc -> At]
        /\ \A p \in Sender : pc[p] = "idle"
        /\ pc[Reader] = "select"
    BY StdioAssumption DEF Init, Proc, At, Message
  <2>3. /\ input \in Seq(DOMAIN kind) /\ fed \in Seq(DOMAIN kind)
        /\ output \in Seq(Message \cup {NL, Torn})
    BY DEF Init
  <2>4. ctxDone \in BOOLEAN /\ eof \in BOOLEAN
    BY DEF Init
  <2> QED  BY <2>1, <2>2, <2>3, <2>4 DEF Init, TypeOK
<1>2. Mutex
  BY StdioAssumption DEF Init, Mutex, Proc, Message
<1> QED
  BY <1>1, <1>2 DEF Init, IInv, LineEnds, LineStarts, NothingTorn, StopsAfterOne,
                    OneAfterCancel, Accounted, NilMeansEnd

\* A step that writes nothing, enters and leaves no critical section and
\* keeps the line in the reader's hands away from writeLine.
LEMMA QuietStep ==
  ASSUME IInv, TypeOK',
         UNCHANGED outVars,
         \A p \in Proc : pc'[p] = pc[p] \/ {pc[p], pc'[p]} \cap {"body", "newline"} = {},
         current' = current \/ pc[Reader] # "newline"
  PROVE  Mutex' /\ LineEnds' /\ LineStarts' /\ NothingTorn'
<1>1. Mutex'
  BY DEF IInv, Mutex, outVars
<1>2. LineEnds'
  <2>1. \A p \in Proc : pc[p] = "newline" => pc'[p] = "newline" /\ Text(p)' = Text(p)
    BY DEF Text
  <2> QED  BY <2>1 DEF IInv, LineEnds, outVars
<1>3. LineStarts' /\ NothingTorn'
  BY DEF IInv, LineStarts, NothingTorn, outVars
<1> QED  BY <1>1, <1>2, <1>3

\* The head of the loop.
LEMMA SelectHolds == IInv /\ Select => IInv'
<1> SUFFICES ASSUME IInv, Select PROVE IInv'
  OBVIOUS
<1> USE StdioAssumption
<1>1. /\ pc[Reader] = "select" /\ Reader \in Proc
      /\ UNCHANGED <<inVars, ctxDone, current, outVars, late>>
      /\ \/ ctxDone /\ pc' = [pc EXCEPT ![Reader] = "returned"] /\ result' = "nil"
         \/ pc' = [pc EXCEPT ![Reader] = "scan"] /\ result' = result /\ ~ctxDone
  BY DEF Select, Stopping, Return, Goto, Proc
<1>2. TypeOK'
  <2>1. pc' = [pc EXCEPT ![Reader] = "returned"] /\ result' = "nil" => TypeOK'
    BY <1>1 DEF IInv, TypeOK, inVars, outVars, At, Message
  <2>2. pc' = [pc EXCEPT ![Reader] = "scan"] /\ result' = result => TypeOK'
    BY <1>1 DEF IInv, TypeOK, inVars, outVars, At, Message
  <2> QED  BY <1>1, <2>1, <2>2
<1>3. Mutex' /\ LineEnds' /\ LineStarts' /\ NothingTorn'
  BY <1>1, <1>2, QuietStep DEF IInv, TypeOK
<1>4. StopsAfterOne' /\ OneAfterCancel' /\ NilMeansEnd'
  BY <1>1 DEF IInv, TypeOK, StopsAfterOne, OneAfterCancel, NilMeansEnd, inVars
<1>5. Accounted'
  BY <1>1 DEF IInv, TypeOK, Accounted, IsIn, inVars, outVars
<1> QED  BY <1>2, <1>3, <1>4, <1>5 DEF IInv

\* The line taken from the input is the one the reader has in hand.
LEMMA ScanLineHolds == IInv /\ ScanLine => IInv'
<1> SUFFICES ASSUME IInv, ScanLine PROVE IInv'
  OBVIOUS
<1> USE StdioAssumption
<1> DEFINE to == IF kind[Head(input)] = "blank" THEN "select" ELSE "handle"
<1>1. /\ pc[Reader] = "scan" /\ Reader \in Proc /\ input # <<>>
      /\ pc' = [pc EXCEPT ![Reader] = to]
      /\ current' = Head(input) /\ input' = Tail(input)
      /\ UNCHANGED <<eof, kind, fed, ctxDone, outVars, result, late>>
  BY DEF ScanLine, Goto, Rest, Proc
<1>2. /\ input \in Seq(DOMAIN kind) /\ Head(input) \in DOMAIN kind
      /\ Tail(input) \in Seq(DOMAIN kind)
  BY <1>1 DEF IInv, TypeOK
<1>3. TypeOK'
  BY <1>1, <1>2 DEF IInv, TypeOK, outVars, At, Message
<1>4. Mutex' /\ LineEnds' /\ LineStarts' /\ NothingTorn'
  BY <1>1, <1>3, QuietStep DEF IInv, TypeOK
<1>5. StopsAfterOne' /\ OneAfterCancel' /\ NilMeansEnd'
  BY <1>1 DEF IInv, TypeOK, StopsAfterOne, OneAfterCancel, NilMeansEnd
<1>6. Accounted'
  <2> SUFFICES ASSUME NEW l \in DOMAIN kind, kind[l] = "request"
               PROVE  \/ l \in failed
                      \/ IsIn(l, output)
                      \/ IsIn(l, Tail(input))
                      \/ Head(input) = l /\ to = "handle"
    BY <1>1 DEF Accounted, IsIn, outVars, IInv, TypeOK
  <2>1. CASE IsIn(l, input)
    <3>1. PICK i \in 1..Len(input) : input[i] = l
      BY <2>1 DEF IsIn
    <3>2. CASE i = 1
      BY <1>1, <1>2, <3>1, <3>2
    <3>3. CASE i # 1
      <4>1. i - 1 \in 1..Len(Tail(input)) /\ Tail(input)[i - 1] = l
        BY <1>1, <1>2, <3>1, <3>3
      <4> QED  BY <4>1 DEF IsIn
    <3> QED  BY <3>2, <3>3
  <2>2. CASE ~IsIn(l, input)
    BY <1>1, <2>2 DEF IInv, Accounted
  <2> QED  BY <2>1, <2>2
<1> QED  BY <1>3, <1>4, <1>5, <1>6 DEF IInv

\* The end of the input, and a line that does not fit into the buffer.
LEMMA ScanStopsHolds == IInv /\ (ScanEnd \/ ScanTooLong) => IInv'
<1> SUFFICES ASSUME IInv, ScanEnd \/ ScanTooLong PROVE IInv'
  OBVIOUS
<1> USE StdioAssumption
<1>1. /\ pc[Reader] = "scan" /\ Reader \in Proc
      /\ pc' = [pc EXCEPT ![Reader] = "returned"]
      /\ result' \in {"nil", "error"}
      /\ result' = "nil" => ctxDone \/ (input = <<>> /\ eof)
      /\ UNCHANGED <<inVars, ctxDone, current, outVars, late>>
  BY DEF ScanEnd, ScanTooLong, AtEnd, Return, Proc
<1>2. TypeOK'
  BY <1>1 DEF IInv, TypeOK, inVars, outVars, At, Message
<1>3. Mutex' /\ LineEnds' /\ LineStarts' /\ NothingTorn'
  BY <1>1, <1>2, QuietStep DEF IInv, TypeOK
<1>4. StopsAfterOne' /\ OneAfterCancel' /\ NilMeansEnd'
  BY <1>1 DEF IInv, TypeOK, StopsAfterOne, OneAfterCancel, NilMeansEnd, inVars
<1>5. Accounted'
  BY <1>1 DEF IInv, TypeOK, Accounted, IsIn, inVars, outVars
<1> QED  BY <1>2, <1>3, <1>4, <1>5 DEF IInv

\* A request goes on to writeLine, whatever else does not.
LEMMA HandleHolds == IInv /\ Handle => IInv'
<1> SUFFICES ASSUME IInv, Handle PROVE IInv'
  OBVIOUS
<1> USE StdioAssumption
<1>1. /\ pc[Reader] = "handle" /\ Reader \in Proc
      /\ pc' = [pc EXCEPT ![Reader] = IF kind[current] = "request"
                                        THEN "lock" ELSE "select"]
      /\ late' = IF ctxDone THEN late + 1 ELSE late
      /\ UNCHANGED <<inVars, ctxDone, current, outVars, result>>
  BY DEF Handle, Goto, Proc
<1>2. TypeOK'
  BY <1>1 DEF IInv, TypeOK, inVars, outVars, At, Message
<1>3. Mutex' /\ LineEnds' /\ LineStarts' /\ NothingTorn'
  BY <1>1, <1>2, QuietStep DEF IInv, TypeOK
<1>4. StopsAfterOne' /\ OneAfterCancel' /\ NilMeansEnd'
  BY <1>1 DEF IInv, TypeOK, StopsAfterOne, OneAfterCancel, NilMeansEnd, inVars
<1>5. Accounted'
  BY <1>1 DEF IInv, TypeOK, Accounted, IsIn, inVars, outVars
<1> QED  BY <1>2, <1>3, <1>4, <1>5 DEF IInv

-----------------------------------------------------------------------------
(* writeLine.                                                              *)

\* What is appended to the output leaves the rest of it where it is.
LEMMA AppendedTo ==
  ASSUME TypeOK, NEW x \in Message \cup {NL, Torn}, output' = Append(output, x)
  PROVE  /\ output' \in Seq(Message \cup {NL, Torn})
         /\ Len(output) \in Nat
         /\ Len(output') = Len(output) + 1
         /\ \A i \in 1..Len(output) : output'[i] = output[i]
         /\ output'[Len(output) + 1] = x
BY DEF TypeOK

\* Nobody is inside while the mutex is free.
LEMMA LockHolds == ASSUME NEW p \in Proc PROVE IInv /\ Lock(p) => IInv'
<1> SUFFICES ASSUME IInv, Lock(p) PROVE IInv'
  OBVIOUS
<1> USE StdioAssumption
<1>1. /\ mu = None /\ mu' = p /\ pc[p] = "lock"
      /\ pc' = [pc EXCEPT ![p] = "body"]
      /\ UNCHANGED <<inVars, ctxDone, current, output, failed, result, late>>
  BY DEF Lock, LockFree, Goto
<1>2. TypeOK'
  BY <1>1 DEF IInv, TypeOK, inVars, At, Proc, Message
<1>3. \A q \in Proc : pc[q] \notin {"body", "newline"}
  BY <1>1 DEF IInv, Mutex, Proc, Message
<1>4. Mutex'
  BY <1>1, <1>3 DEF IInv, TypeOK, Mutex
<1>5. LineEnds' /\ LineStarts' /\ NothingTorn'
  BY <1>1, <1>3 DEF IInv, LineEnds, LineStarts, NothingTorn
<1>6. StopsAfterOne' /\ OneAfterCancel' /\ NilMeansEnd'
  BY <1>1 DEF IInv, TypeOK, StopsAfterOne, OneAfterCancel, NilMeansEnd, inVars
<1>7. Accounted'
  BY <1>1 DEF IInv, TypeOK, Accounted, IsIn, inVars
<1> QED  BY <1>2, <1>4, <1>5, <1>6, <1>7 DEF IInv

\* The message starts on a line of its own, and its request is answered.
LEMMA WriteBodyHolds == ASSUME NEW p \in Proc PROVE IInv /\ WriteBody(p) => IInv'
<1> SUFFICES ASSUME IInv, WriteBody(p) PROVE IInv'
  OBVIOUS
<1> USE StdioAssumption
<1>1. /\ pc[p] = "body" /\ pc' = [pc EXCEPT ![p] = "newline"]
      /\ output' = Append(output, Text(p))
      /\ UNCHANGED <<inVars, ctxDone, current, mu, failed, result, late>>
  BY DEF WriteBody, Goto
<1>2. Text(p) \in Message /\ Text(p)' = Text(p)
  BY <1>1 DEF Text, IInv, TypeOK, Proc, Message
<1>3. /\ output' \in Seq(Message \cup {NL, Torn})
      /\ Len(output) \in Nat /\ Len(output') = Len(output) + 1
      /\ \A i \in 1..Len(output) : output'[i] = output[i]
      /\ output'[Len(output) + 1] = Text(p)
  BY <1>1, <1>2, AppendedTo DEF IInv
<1>4. \A q \in Proc : pc[q] # "newline"
  BY <1>1 DEF IInv, Mutex
<1>5. TypeOK'
  BY <1>1, <1>3 DEF IInv, TypeOK, inVars, At, Proc
<1>6. Mutex'
  BY <1>1 DEF IInv, TypeOK, Mutex
<1>7. LineEnds'
  <2> SUFFICES ASSUME NEW i \in 1..Len(output'), output'[i] \in Message
               PROVE  \/ i < Len(output') /\ output'[i + 1] = NL
                      \/ i = Len(output') /\ \E q \in Proc : /\ pc'[q] = "newline"
                                                             /\ Text(q)' = output'[i]
                      \/ output'[i] \in failed
    BY <1>1 DEF LineEnds
  <2>1. CASE i <= Len(output)
    BY <1>3, <1>4, <2>1 DEF IInv, LineEnds
  <2>2. CASE i = Len(output) + 1
    BY <1>1, <1>2, <1>3, <2>2 DEF IInv, TypeOK
  <2> QED  BY <1>3, <2>1, <2>2
<1>8. LineStarts' /\ NothingTorn'
  <2> SUFFICES ASSUME failed = {} PROVE LineStarts' /\ NothingTorn'
    BY <1>1 DEF LineStarts, NothingTorn
  <2>1. output # <<>> => output[Len(output)] = NL
    <3> SUFFICES ASSUME output # <<>> PROVE output[Len(output)] = NL
      OBVIOUS
    <3>1. Len(output) \in 1..Len(output)
      BY <1>3 DEF IInv, TypeOK
    <3>2. output[Len(output)] \in Message \cup {NL, Torn}
      BY <3>1 DEF IInv, TypeOK
    <3>3. output[Len(output)] # Torn
      BY <3>1 DEF IInv, NothingTorn
    <3>4. output[Len(output)] \notin Message
      BY <1>3, <1>4, <3>1 DEF IInv, LineEnds
    <3> QED  BY <3>2, <3>3, <3>4
  <2>2. LineStarts'
    <3> SUFFICES ASSUME NEW i \in 2..Len(output'), output'[i] \in Message
                 PROVE  output'[i - 1] = NL
      BY DEF LineStarts
    <3>1. CASE i <= Len(output)
      BY <1>3, <3>1 DEF IInv, LineStarts
    <3>2. CASE i = Len(output) + 1
      BY <1>3, <2>1, <3>2
    <3> QED  BY <1>3, <3>1, <3>2
  <2>3. NothingTorn'
    BY <1>1, <1>2, <1>3 DEF IInv, NothingTorn
  <2> QED  BY <2>2, <2>3
<1>9. StopsAfterOne' /\ OneAfterCancel' /\ NilMeansEnd'
  BY <1>1 DEF IInv, TypeOK, StopsAfterOne, OneAfterCancel, NilMeansEnd, inVars
<1>10. Accounted'
  <2>1. /\ \A l : IsIn(l, output) => IsIn(l, output')
        /\ IsIn(Text(p), output')
    BY <1>3 DEF IsIn
  <2> QED
    BY <1>1, <2>1 DEF IInv, TypeOK, Accounted, Text, inVars
<1> QED  BY <1>5, <1>6, <1>7, <1>8, <1>9, <1>10 DEF IInv

\* The line is complete.
LEMMA WriteNewlineHolds ==
  ASSUME NEW p \in Proc PROVE IInv /\ WriteNewline(p) => IInv'
<1> SUFFICES ASSUME IInv, WriteNewline(p) PROVE IInv'
  OBVIOUS
<1> USE StdioAssumption
<1>1. /\ pc[p] = "newline" /\ pc' = [pc EXCEPT ![p] = After(p)]
      /\ output' = Append(output, NL) /\ mu' = None
      /\ UNCHANGED <<inVars, ctxDone, current, failed, result, late>>
  BY DEF WriteNewline, Goto
<1>2. After(p) = IF p = Reader THEN "select" ELSE "returned"
  BY DEF After
<1>3. /\ output' \in Seq(Message \cup {NL, Torn})
      /\ Len(output) \in Nat /\ Len(output') = Len(output) + 1
      /\ \A i \in 1..Len(output) : output'[i] = output[i]
      /\ output'[Len(output) + 1] = NL
  BY <1>1, AppendedTo DEF IInv
<1>4. TypeOK'
  <2>1. CASE p = Reader
    BY <1>1, <1>2, <1>3, <2>1 DEF IInv, TypeOK, inVars, At, Proc, Message
  <2>2. CASE p \in Sender /\ p # Reader
    BY <1>1, <1>2, <1>3, <2>2 DEF IInv, TypeOK, inVars, At, Proc
  <2> QED  BY <2>1, <2>2 DEF Proc
<1>5. Mutex'
  BY <1>1, <1>2 DEF IInv, TypeOK, Mutex, Proc, Message
<1>6. LineEnds'
  <2> SUFFICES ASSUME NEW i \in 1..Len(output'), output'[i] \in Message
               PROVE  \/ i < Len(output') /\ output'[i + 1] = NL
                      \/ output'[i] \in failed
    BY <1>1 DEF LineEnds
  <2>1. i # Len(output) + 1
    BY <1>3
  <2>2. CASE i = Len(output)
    BY <1>3, <2>2
  <2>3. CASE i < Len(output)
    <3>1. output[i] \in Message /\ i \in 1..Len(output) /\ i + 1 \in 1..Len(output)
      BY <1>3, <2>3
    <3> QED  BY <1>3, <2>3, <3>1 DEF IInv, LineEnds
  <2> QED  BY <1>3, <2>1, <2>2, <2>3
<1>7. LineStarts' /\ NothingTorn'
  BY <1>1, <1>3 DEF IInv, LineStarts, NothingTorn
<1>8. StopsAfterOne' /\ OneAfterCancel' /\ NilMeansEnd'
  BY <1>1, <1>2 DEF IInv, TypeOK, StopsAfterOne, OneAfterCancel, NilMeansEnd, inVars
<1>9. Accounted'
  <2>1. \A l : IsIn(l, output) => IsIn(l, output')
    BY <1>3 DEF IsIn
  <2> QED
    BY <1>1, <2>1 DEF IInv, TypeOK, Accounted, inVars
<1> QED  BY <1>4, <1>5, <1>6, <1>7, <1>8, <1>9 DEF IInv

\* A failed Write leaves the mutex free and at most a torn message behind.
LEMMA FailureHolds ==
  ASSUME NEW p \in Proc PROVE IInv /\ (BodyFails(p) \/ NewlineFails(p)) => IInv'
<1> SUFFICES ASSUME IInv, BodyFails(p) \/ NewlineFails(p) PROVE IInv'
  OBVIOUS
<1> USE StdioAssumption
<1>1. /\ pc[p] \in {"body", "newline"}
      /\ pc' = [pc EXCEPT ![p] = IF p = Reader THEN "select" ELSE "returned"]
      /\ \/ output' = output
         \/ output' = Append(output, Torn) /\ pc[p] = "body"
      /\ failed' = failed \cup {Text(p)} /\ mu' = None
      /\ UNCHANGED <<inVars, ctxDone, current, result, late>>
  BY DEF BodyFails, NewlineFails, Goto, AfterError, After
<1>2. Text(p) \in Message
  BY <1>1 DEF Text, IInv, TypeOK, Proc, Message
<1>3. /\ output' \in Seq(Message \cup {NL, Torn})
      /\ Len(output) \in Nat /\ Len(output') >= Len(output) /\ Len(output') \in Nat
      /\ \A i \in 1..Len(output) : output'[i] = output[i]
      /\ \A i \in 1..Len(output') : i > Len(output) => output'[i] = Torn
      /\ Len(output') # Len(output) => pc[p] = "body"
  <2>1. CASE output' = output
    BY <2>1 DEF IInv, TypeOK
  <2>2. CASE output' = Append(output, Torn) /\ pc[p] = "body"
    <3>1. /\ output' \in Seq(Message \cup {NL, Torn})
          /\ Len(output) \in Nat /\ Len(output') = Len(output) + 1
          /\ \A i \in 1..Len(output) : output'[i] = output[i]
          /\ output'[Len(output) + 1] = Torn
      BY <2>2, AppendedTo DEF IInv
    <3> QED  BY <2>2, <3>1
  <2> QED  BY <1>1, <2>1, <2>2
<1>4. \A q \in Proc : q # p => pc[q] \notin {"body", "newline"}
  BY <1>1 DEF IInv, Mutex
<1>5. TypeOK'
  <2>1. CASE p = Reader
    BY <1>1, <1>2, <1>3, <2>1 DEF IInv, TypeOK, inVars, At, Proc, Message
  <2>2. CASE p \in Sender /\ p # Reader
    BY <1>1, <1>2, <1>3, <2>2 DEF IInv, TypeOK, inVars, At, Proc
  <2> QED  BY <2>1, <2>2 DEF Proc
<1>6. Mutex'
  BY <1>1, <1>4 DEF IInv, TypeOK, Mutex, Proc, Message
<1>7. LineEnds'
  <2> SUFFICES ASSUME NEW i \in 1..Len(output'), output'[i] \in Message
               PROVE  \/ i < Len(output') /\ output'[i + 1] = NL
                      \/ output'[i] \in failed'
    BY DEF LineEnds
  <2>1. i \in 1..Len(output) /\ output[i] = output'[i]
    BY <1>3
  <2>2. CASE i < Len(output) /\ output[i + 1] = NL
    BY <1>3, <2>1, <2>2
  <2>3. CASE i = Len(output) /\ \E q \in Proc : pc[q] = "newline" /\ Text(q) = output[i]
    BY <1>1, <1>4, <2>1, <2>3
  <2>4. CASE output[i] \in failed
    BY <1>1, <2>1, <2>4
  <2> QED  BY <2>1, <2>2, <2>3, <2>4 DEF IInv, LineEnds
<1>8. LineStarts' /\ NothingTorn'
  BY <1>1 DEF LineStarts, NothingTorn
<1>9. StopsAfterOne' /\ OneAfterCancel' /\ NilMeansEnd'
  BY <1>1 DEF IInv, TypeOK, StopsAfterOne, OneAfterCancel, NilMeansEnd, inVars
<1>10. Accounted'
  <2>1. \A l : IsIn(l, output) => IsIn(l, output')
    BY <1>3 DEF IsIn
  <2> QED
    BY <1>1, <2>1 DEF IInv, TypeOK, Accounted, Text, inVars
<1> QED  BY <1>5, <1>6, <1>7, <1>8, <1>9, <1>10 DEF IInv

-----------------------------------------------------------------------------
(* The environment.                                                        *)

\* A new line is the last one waiting.
LEMMA FeedHolds ==
  ASSUME NEW l \in Line, NEW k \in Kind PROVE IInv /\ Feed(l, k) => IInv'
<1> SUFFICES ASSUME IInv, Feed(l, k) PROVE IInv'
  OBVIOUS
<1> USE StdioAssumption
<1> DEFINE K == DOMAIN kind \cup {l}
<1>1. /\ ~eof /\ l \notin DOMAIN kind
      /\ input' = Append(input, l) /\ fed' = Append(fed, l)
      /\ kind' = [m \in K |-> IF m = l THEN k ELSE kind[m]]
      /\ UNCHANGED <<pc, eof, ctxDone, current, outVars, result, late>>
  BY DEF Feed
<1>2. /\ DOMAIN kind' = K /\ kind' \in [K -> Kind]
      /\ \A m \in DOMAIN kind : kind'[m] = kind[m]
  BY <1>1 DEF IInv, TypeOK
<1>3. input \in Seq(K) /\ fed \in Seq(K)
  BY SeqMonotonic DEF IInv, TypeOK
<1> HIDE DEF K
<1>4. input' \in Seq(K) /\ fed' \in Seq(K) /\ l \in K /\ K \subseteq Line
  BY <1>1, <1>3 DEF K, IInv, TypeOK
<1>5. TypeOK'
  BY <1>1, <1>2, <1>4 DEF K, IInv, TypeOK, outVars
<1>6. Mutex' /\ LineEnds' /\ LineStarts' /\ NothingTorn'
  BY <1>1, <1>5, QuietStep DEF IInv
<1>7. StopsAfterOne' /\ OneAfterCancel' /\ NilMeansEnd'
  BY <1>1 DEF IInv, TypeOK, StopsAfterOne, OneAfterCancel, NilMeansEnd
<1>8. Accounted'
  <2>1. /\ Len(input) \in Nat /\ Len(input') = Len(input) + 1
        /\ input'[Len(input) + 1] = l
        /\ \A i \in 1..Len(input) : input'[i] = input[i]
    BY <1>1, <1>3, <1>4
  <2>2. IsIn(l, input') /\ \A m : IsIn(m, input) => IsIn(m, input')
    BY <2>1 DEF IsIn
  <2> QED
    BY <1>1, <1>2, <2>2 DEF K, IInv, Accounted, IsIn, outVars
<1> QED  BY <1>5, <1>6, <1>7, <1>8 DEF IInv

\* The end of the input, a cancellation and a new Send disturb nothing.
LEMMA OthersHold ==
  IInv /\ (CloseInput \/ Cancel \/ \E p \in Sender : SendCalled(p)) => IInv'
<1> SUFFICES ASSUME IInv, CloseInput \/ Cancel \/ \E p \in Sender : SendCalled(p)
             PROVE  IInv'
  OBVIOUS
<1> USE StdioAssumption
<1>1. CASE CloseInput
  <2>1. /\ eof' = TRUE
        /\ UNCHANGED <<pc, input, kind, fed, ctxDone, current, outVars, result, late>>
    BY <1>1 DEF CloseInput
  <2>2. TypeOK'
    BY <2>1 DEF IInv, TypeOK, outVars
  <2>3. Mutex' /\ LineEnds' /\ LineStarts' /\ NothingTorn'
    BY <2>1, <2>2, QuietStep DEF IInv
  <2>4. StopsAfterOne' /\ OneAfterCancel' /\ NilMeansEnd'
    BY <2>1 DEF IInv, StopsAfterOne, OneAfterCancel, NilMeansEnd
  <2>5. Accounted'
    BY <2>1 DEF IInv, Accounted, IsIn, outVars
  <2> QED  BY <2>2, <2>3, <2>4, <2>5 DEF IInv
<1>2. CASE Cancel
  <2>1. /\ ctxDone' = TRUE
        /\ UNCHANGED <<pc, input, kind, fed, eof, current, outVars, result, late>>
    BY <1>2 DEF Cancel, inVars
  <2>2. TypeOK'
    BY <2>1 DEF IInv, TypeOK, outVars
  <2>3. Mutex' /\ LineEnds' /\ LineStarts' /\ NothingTorn'
    BY <2>1, <2>2, QuietStep DEF IInv
  <2>4. StopsAfterOne' /\ OneAfterCancel' /\ NilMeansEnd'
    BY <2>1 DEF IInv, StopsAfterOne, OneAfterCancel, NilMeansEnd
  <2>5. Accounted'
    BY <2>1 DEF IInv, Accounted, IsIn, outVars
  <2> QED  BY <2>2, <2>3, <2>4, <2>5 DEF IInv
<1>3. ASSUME NEW p \in Sender, SendCalled(p) PROVE IInv'
  <2>1. /\ pc[p] = "idle" /\ pc' = [pc EXCEPT ![p] = "lock"] /\ p # Reader /\ p \in Proc
        /\ UNCHANGED <<inVars, ctxDone, current, outVars, result, late>>
    BY <1>3 DEF SendCalled, Goto, Message, Proc
  <2>2. TypeOK'
    BY <2>1 DEF IInv, TypeOK, inVars, outVars, At, Proc
  <2>3. Mutex' /\ LineEnds' /\ LineStarts' /\ NothingTorn'
    BY <2>1, <2>2, QuietStep DEF IInv, TypeOK
  <2>4. StopsAfterOne' /\ OneAfterCancel' /\ NilMeansEnd'
    BY <2>1 DEF IInv, TypeOK, StopsAfterOne, OneAfterCancel, NilMeansEnd, inVars
  <2>5. Accounted'
    BY <2>1 DEF IInv, TypeOK, Accounted, IsIn, inVars, outVars
  <2> QED  BY <2>2, <2>3, <2>4, <2>5 DEF IInv
<1> QED  BY <1>1, <1>2, <1>3

\* IInv holds in every state of the transport.
THEOREM Invariance == Spec => []IInv
<1>1. IInv /\ [Next]_vars => IInv'
  <2> SUFFICES ASSUME IInv, [Next]_vars PROVE IInv'
    OBVIOUS
  <2>1. ASSUME NEW p \in Proc, WriteLine(p) PROVE IInv'
    BY <2>1, LockHolds, WriteBodyHolds, WriteNewlineHolds, FailureHolds DEF WriteLine
  <2>2. CASE ReaderStep
    BY <2>1, <2>2, SelectHolds, ScanLineHolds, ScanStopsHolds, HandleHolds
    DEF ReaderStep, Proc
  <2>3. CASE \E p \in Sender : SendCalled(p) \/ WriteLine(p)
    BY <2>1, <2>3, OthersHold DEF Proc
  <2>4. CASE (\E l \in Line, k \in Kind : Feed(l, k)) \/ CloseInput \/ Cancel
    BY <2>4, FeedHolds, OthersHold
  <2>5. CASE UNCHANGED vars
    BY <2>5
    DEF vars, inVars, outVars, IInv, TypeOK, Mutex, LineEnds, LineStarts, NothingTorn,
        StopsAfterOne, OneAfterCancel, Accounted, IsIn, NilMeansEnd, Text
  <2> QED  BY <2>2, <2>3, <2>4, <2>5 DEF Next, Terminated
<1> QED  BY InitHolds, <1>1, PTL DEF Spec

-----------------------------------------------------------------------------
(* The order of the answers.                                               *)

\* The reader takes the lines in the order of their arrival.
Queue ==
  /\ Len(input) <= Len(fed)
  /\ \A i \in 1..Len(input) : input[i] = fed[Scanned + i]

\* Every line arrives once.
FedOnce == \A a, b \in 1..Len(fed) : fed[a] = fed[b] => a = b

\* The line in the reader's hands is the last one scanned.
InTurn == current # None => Scanned > 0 /\ current = fed[Scanned]

\* Only a request gets as far as writeLine.
Asked == pc[Reader] \in {"lock", "body", "newline"} => kind[current] = "request"

\* Scan does not return a line at which it fails.
Fits == InHand => kind[current] # "huge"

\* An answer on the output is one to a line scanned before the one for which
\* the reader has not written yet.
Settled ==
  \A i \in 1..Len(output) : output[i] \in Line =>
    /\ kind[output[i]] = "request"
    /\ \E a \in 1..Scanned : /\ fed[a] = output[i]
                             /\ pc[Reader] \in {"handle", "lock", "body"} => a < Scanned

Ascending ==
  \A i, j \in 1..Len(output), a, b \in 1..Len(fed) :
    i < j /\ output[i] = fed[a] /\ output[j] = fed[b] => a < b

\* A half-written message is the last thing on the output.
Halfway ==
  \A p \in Proc : pc[p] = "newline" =>
    output # <<>> /\ output[Len(output)] = Text(p)

Order ==
  Queue /\ FedOnce /\ InTurn /\ Asked /\ Fits /\ Settled /\ Ascending /\ Halfway

\* The facts about sequences that the steps below rest on.
LEMMA Lengths ==
  ASSUME TypeOK
  PROVE  /\ input \in Seq(Line) /\ fed \in Seq(Line) /\ output \in Seq(Message \cup {NL, Torn})
         /\ Len(input) \in Nat /\ Len(fed) \in Nat /\ Len(output) \in Nat
         /\ Scanned \in Int
         /\ \A a \in 1..Len(fed) : fed[a] \in DOMAIN kind /\ fed[a] \in Line
<1>1. input \in Seq(Line) /\ fed \in Seq(Line)
  BY SeqMonotonic DEF TypeOK
<1>2. output \in Seq(Message \cup {NL, Torn}) /\ fed \in Seq(DOMAIN kind)
  BY DEF TypeOK
<1> QED  BY <1>1, <1>2 DEF Scanned

\* Before the first line there is no order to keep.
LEMMA InitOrder == Init => Order
<1> SUFFICES ASSUME Init PROVE Order
  OBVIOUS
<1>1. /\ Len(input) = 0 /\ Len(fed) = 0 /\ Len(output) = 0 /\ current = None
      /\ \A p \in Proc : pc[p] \in {"select", "idle"}
      /\ pc[Reader] = "select"
  BY DEF Init, Proc
<1> QED
  BY <1>1 DEF Order, Queue, FedOnce, InTurn, Asked, Fits, InHand, Settled, Ascending,
             Halfway

\* A step that reads, writes and receives nothing.
LEMMA CalmOrder ==
  ASSUME IInv, Order,
         UNCHANGED <<input, fed, kind, current, output>>,
         \A p \in Proc : pc'[p] = "newline" => pc[p] = "newline",
         pc'[Reader] \in {"lock", "body", "newline"} =>
           pc[Reader] \in {"lock", "body", "newline"} \/ kind[current] = "request",
         pc'[Reader] \in {"handle", "lock", "body"} => pc[Reader] \in {"handle", "lock", "body"}
  PROVE  Order'
<1>1. Scanned' = Scanned
  BY DEF Scanned
<1>2. Queue' /\ FedOnce' /\ InTurn' /\ Ascending'
  BY <1>1 DEF Order, Queue, FedOnce, InTurn, Ascending
<1>3. Asked' /\ Fits'
  BY DEF Order, Asked, Fits, InHand
<1>4. Settled'
  BY <1>1 DEF Order, Settled
<1>5. Halfway'
  BY DEF Order, Halfway, Text
<1> QED  BY <1>2, <1>3, <1>4, <1>5 DEF Order

\* A newline or a torn message is no answer.
LEMMA FillOrder ==
  ASSUME IInv, Order, NEW x \in {NL, Torn},
         output' = Append(output, x),
         UNCHANGED <<input, fed, kind, current>>,
         \A p \in Proc : pc'[p] # "newline",
         pc'[Reader] \in {"lock", "body", "newline"} => pc'[Reader] = pc[Reader],
         pc'[Reader] \in {"handle", "lock", "body"} => pc'[Reader] = pc[Reader]
  PROVE  Order'
<1> USE StdioAssumption
<1>1. /\ Len(output) \in Nat /\ Len(output') = Len(output) + 1
      /\ \A i \in 1..Len(output) : output'[i] = output[i]
      /\ output'[Len(output) + 1] \notin Line
  BY AppendedTo DEF IInv, Message
<1>2. ASSUME NEW i \in 1..Len(output'), output'[i] \in Line
      PROVE  i \in 1..Len(output) /\ output'[i] = output[i]
  BY <1>1, <1>2
<1>3. Scanned' = Scanned
  BY DEF Scanned
<1>4. Queue' /\ FedOnce' /\ InTurn'
  BY <1>3 DEF Order, Queue, FedOnce, InTurn
<1>5. Asked' /\ Fits' /\ Halfway'
  BY DEF Order, Asked, Fits, InHand, Halfway
<1>6. Settled'
  BY <1>2, <1>3 DEF Order, Settled
<1>7. Ascending'
  <2>1. \A a \in 1..Len(fed) : fed[a] \in Line
    BY Lengths DEF IInv
  <2>2. ASSUME NEW i \in 1..Len(output'), NEW j \in 1..Len(output'),
               NEW a \in 1..Len(fed), NEW b \in 1..Len(fed),
               i < j, output'[i] = fed[a], output'[j] = fed[b]
        PROVE  a < b
    <3>1. /\ i \in 1..Len(output) /\ output[i] = fed[a]
          /\ j \in 1..Len(output) /\ output[j] = fed[b]
      BY <1>2, <2>1, <2>2
    <3> QED  BY <2>2, <3>1 DEF Order, Ascending
  <2> QED  BY <2>2 DEF Ascending
<1> QED  BY <1>4, <1>5, <1>6, <1>7 DEF Order

\* The answer to the last line scanned comes after all the others.
LEMMA WriteBodyOrder ==
  ASSUME NEW p \in Proc, IInv, Order, WriteBody(p)
  PROVE  Order'
<1> USE StdioAssumption
<1>1. /\ pc[p] = "body" /\ pc' = [pc EXCEPT ![p] = "newline"]
      /\ output' = Append(output, Text(p))
      /\ UNCHANGED <<input, fed, kind, current>>
  BY DEF WriteBody, Goto, inVars
<1>2. /\ Text(p) \in Message /\ Text(p)' = Text(p)
      /\ \A q \in Proc : q # p => pc'[q] = pc[q]
      /\ pc'[p] = "newline"
  BY <1>1 DEF Text, IInv, TypeOK, Proc, Message
<1>3. /\ Len(output) \in Nat /\ Len(output') = Len(output) + 1
      /\ \A i \in 1..Len(output) : output'[i] = output[i]
      /\ output'[Len(output) + 1] = Text(p)
      /\ output' # <<>>
  BY <1>1, <1>2, AppendedTo DEF IInv
<1>4. Scanned' = Scanned
  BY <1>1 DEF Scanned
<1>5. Queue' /\ FedOnce' /\ InTurn'
  BY <1>1, <1>4 DEF Order, Queue, FedOnce, InTurn
<1>6. Asked' /\ Fits'
  BY <1>1, <1>2 DEF Order, Asked, Fits, InHand, Proc
<1>7. Halfway'
  <2>1. \A q \in Proc : pc[q] # "newline"
    BY <1>1 DEF IInv, Mutex
  <2> QED  BY <1>2, <1>3, <2>1 DEF Halfway
<1>8. /\ Scanned \in Int /\ Len(fed) \in Nat /\ Len(input) \in Nat
      /\ \A a \in 1..Len(fed) : fed[a] \in Line
  BY Lengths DEF IInv
<1>9. CASE p = Reader
  <2>1. /\ current # None /\ Text(p) = current
        /\ kind[current] = "request"
        /\ Scanned > 0 /\ Scanned <= Len(fed) /\ current = fed[Scanned]
    BY <1>1, <1>8, <1>9 DEF IInv, TypeOK, Order, Asked, InTurn, Queue, Scanned, Text
  <2>2. ASSUME NEW i \in 1..Len(output), output[i] \in Line
        PROVE  \E a \in 1..Scanned : fed[a] = output[i] /\ a < Scanned
    BY <1>1, <1>9, <2>2 DEF Order, Settled
  <2>3. Settled'
    <3> SUFFICES ASSUME NEW i \in 1..Len(output'), output'[i] \in Line
                 PROVE  /\ kind[output'[i]] = "request"
                        /\ \E a \in 1..Scanned : fed[a] = output'[i]
      BY <1>1, <1>2, <1>4, <1>9 DEF Settled
    <3>1. CASE i = Len(output) + 1
      BY <1>3, <1>8, <2>1, <3>1
    <3>2. CASE i # Len(output) + 1
      BY <1>3, <2>2, <3>2 DEF Order, Settled
    <3> QED  BY <3>1, <3>2
  <2>4. Ascending'
    <3> SUFFICES ASSUME NEW i \in 1..Len(output'), NEW j \in 1..Len(output'),
                        NEW a \in 1..Len(fed), NEW b \in 1..Len(fed),
                        i < j, output'[i] = fed[a], output'[j] = fed[b]
                 PROVE  a < b
      <4>1. fed' = fed
        BY <1>1
      <4> QED  BY <4>1, Zenon DEF Ascending
    <3>1. i \in 1..Len(output) /\ output[i] = fed[a]
      BY <1>3
    <3>2. CASE j = Len(output) + 1
      <4>1. fed[b] = fed[Scanned] /\ Scanned \in 1..Len(fed)
        BY <1>3, <1>8, <2>1, <3>2
      <4>2. b = Scanned
        BY <4>1 DEF Order, FedOnce
      <4>3. PICK c \in 1..Scanned : fed[c] = output[i] /\ c < Scanned
        BY <1>8, <2>2, <3>1
      <4>4. c \in 1..Len(fed)
        BY <1>8, <2>1
      <4>5. c = a
        BY <3>1, <4>3, <4>4 DEF Order, FedOnce
      <4> QED  BY <4>2, <4>3, <4>5
    <3>3. CASE j # Len(output) + 1
      <4>1. j \in 1..Len(output) /\ output[j] = fed[b]
        BY <1>3, <3>3
      <4> QED  BY <3>1, <4>1 DEF Order, Ascending
    <3> QED  BY <3>2, <3>3
  <2> QED  BY <1>5, <1>6, <1>7, <2>3, <2>4 DEF Order
<1>10. CASE p # Reader
  <2>1. Text(p) = p /\ Text(p) \notin Line
    BY <1>10 DEF Text, Proc
  <2>2. ASSUME NEW i \in 1..Len(output'), output'[i] \in Line
        PROVE  i \in 1..Len(output) /\ output'[i] = output[i]
    BY <1>3, <2>1, <2>2
  <2>3. pc'[Reader] = pc[Reader]
    BY <1>2, <1>10 DEF Proc
  <2>4. Settled'
    BY <1>1, <1>4, <2>2, <2>3 DEF Order, Settled
  <2>5. Ascending'
    <3> SUFFICES ASSUME NEW i \in 1..Len(output'), NEW j \in 1..Len(output'),
                        NEW a \in 1..Len(fed), NEW b \in 1..Len(fed),
                        i < j, output'[i] = fed[a], output'[j] = fed[b]
                 PROVE  a < b
      <4>1. fed' = fed
        BY <1>1
      <4> QED  BY <4>1, Zenon DEF Ascending
    <3>1. /\ i \in 1..Len(output) /\ output[i] = fed[a]
          /\ j \in 1..Len(output) /\ output[j] = fed[b]
      BY <1>8, <2>2
    <3> QED  BY <3>1 DEF Order, Ascending
  <2> QED  BY <1>5, <1>6, <1>7, <2>4, <2>5 DEF Order
<1> QED  BY <1>9, <1>10

\* The line taken by Scan is the next one in order of arrival.
LEMMA ScanLineOrder ==
  ASSUME IInv, Order, ScanLine
  PROVE  Order'
<1> USE StdioAssumption
<1>1. /\ pc[Reader] = "scan" /\ Reader \in Proc /\ input # <<>>
      /\ kind[Head(input)] # "huge"
      /\ pc' = [pc EXCEPT ![Reader] = IF kind[Head(input)] = "blank"
                                        THEN "select" ELSE "handle"]
      /\ current' = Head(input) /\ input' = Tail(input)
      /\ UNCHANGED <<kind, fed, output>>
  BY DEF ScanLine, Goto, Rest, Proc, outVars
<1>2. /\ Len(input) \in Nat /\ Len(fed) \in Nat /\ Scanned \in Int
      /\ input \in Seq(Line)
  BY Lengths DEF IInv
<1>3. /\ Len(input) > 0 /\ Len(Tail(input)) = Len(input) - 1
      /\ Head(input) = input[1]
      /\ \A i \in 1..Len(Tail(input)) : Tail(input)[i] = input[i + 1]
  BY <1>1, <1>2
<1>4. Scanned' = Scanned + 1
  BY <1>1, <1>2, <1>3 DEF Scanned
<1>5. Scanned \in Nat /\ Scanned' <= Len(fed) /\ Scanned = Len(fed) - Len(input)
  BY <1>2, <1>3, <1>4 DEF Order, Queue, Scanned
<1>6. pc'[Reader] \in {"select", "handle"} /\ \A q \in Proc : q # Reader => pc'[q] = pc[q]
  BY <1>1 DEF IInv, TypeOK
<1>7. Queue'
  <2>1. Len(input') <= Len(fed')
    BY <1>1, <1>2, <1>3 DEF Order, Queue
  <2>2. ASSUME NEW i \in 1..Len(input') PROVE input'[i] = fed[Scanned' + i]
    <3>1. i + 1 \in 1..Len(input) /\ input'[i] = input[i + 1]
      BY <1>1, <1>2, <1>3
    <3>2. input[i + 1] = fed[Scanned + (i + 1)]
      BY <3>1 DEF Order, Queue
    <3>3. Scanned + (i + 1) = Scanned' + i
      BY <1>2, <1>3, <1>4, <2>2
    <3> QED  BY <3>1, <3>2, <3>3
  <2> QED  BY <1>1, <2>1, <2>2 DEF Queue
<1>8. InTurn'
  <2>1. input[1] = fed[Scanned + 1]
    BY <1>2, <1>3 DEF Order, Queue
  <2> QED  BY <1>1, <1>3, <1>4, <1>5, <2>1 DEF InTurn
<1>9. FedOnce' /\ Ascending' /\ Asked' /\ Fits'
  BY <1>1, <1>6 DEF Order, FedOnce, Ascending, Asked, Fits
<1>10. Settled'
  <2> SUFFICES ASSUME NEW i \in 1..Len(output), output[i] \in Line
               PROVE  /\ kind[output[i]] = "request"
                      /\ \E a \in 1..Scanned' : fed[a] = output[i] /\ a < Scanned'
    BY <1>1 DEF Settled
  <2>1. PICK a \in 1..Scanned : fed[a] = output[i]
    BY DEF Order, Settled
  <2>2. a \in 1..Scanned' /\ a < Scanned'
    BY <1>4, <1>5
  <2> QED  BY <2>1, <2>2 DEF Order, Settled
<1>11. Halfway'
  <2>1. ASSUME NEW q \in Proc, pc'[q] = "newline" PROVE q # Reader /\ pc[q] = "newline"
    BY <1>6, <2>1
  <2> QED  BY <1>1, <2>1 DEF Order, Halfway, Text
<1> QED  BY <1>7, <1>8, <1>9, <1>10, <1>11 DEF Order

\* A new line differs from all that have arrived before it.
LEMMA FeedOrder ==
  ASSUME NEW l \in Line, NEW k \in Kind, IInv, Order, Feed(l, k)
  PROVE  Order'
<1>1. /\ l \notin DOMAIN kind
      /\ input' = Append(input, l) /\ fed' = Append(fed, l)
      /\ kind' = [m \in DOMAIN kind \cup {l} |-> IF m = l THEN k ELSE kind[m]]
      /\ UNCHANGED <<pc, current, output>>
  BY DEF Feed, outVars
<1>2. /\ Len(input) \in Nat /\ Len(fed) \in Nat /\ Scanned \in Int
      /\ input \in Seq(Line) /\ fed \in Seq(Line)
      /\ \A a \in 1..Len(fed) : fed[a] \in DOMAIN kind
  BY Lengths DEF IInv
<1>3. /\ Len(input') = Len(input) + 1 /\ input'[Len(input) + 1] = l
      /\ \A i \in 1..Len(input) : input'[i] = input[i]
  BY <1>1, <1>2
<1>4. /\ Len(fed') = Len(fed) + 1 /\ fed'[Len(fed) + 1] = l
      /\ \A a \in 1..Len(fed) : fed'[a] = fed[a]
  BY <1>1, <1>2
<1>5. /\ Scanned' = Scanned /\ Scanned = Len(fed) - Len(input)
      /\ Len(input) <= Len(fed)
  BY <1>2, <1>3, <1>4 DEF Scanned, Order, Queue
<1>6. \A m \in DOMAIN kind : kind'[m] = kind[m]
  BY <1>1
<1>7. Queue'
  <2>1. ASSUME NEW i \in 1..Len(input') PROVE input'[i] = fed'[Scanned + i]
    <3>1. CASE i = Len(input) + 1
      <4>1. Scanned + i = Len(fed) + 1
        BY <1>2, <1>5, <3>1
      <4> QED  BY <1>3, <1>4, <3>1, <4>1
    <3>2. CASE i \in 1..Len(input)
      <4>1. input[i] = fed[Scanned + i] /\ Scanned + i \in 1..Len(fed)
        BY <1>2, <1>5, <3>2 DEF Order, Queue
      <4> QED  BY <1>3, <1>4, <3>2, <4>1
    <3> QED  BY <1>2, <1>3, <3>1, <3>2
  <2> QED  BY <1>2, <1>3, <1>4, <1>5, <2>1 DEF Queue
<1>8. FedOnce'
  <2> SUFFICES ASSUME NEW a \in 1..Len(fed'), NEW b \in 1..Len(fed'), fed'[a] = fed'[b]
               PROVE  a = b
    BY DEF FedOnce
  <2>1. \A c \in 1..Len(fed') : c = Len(fed) + 1 \/ c \in 1..Len(fed)
    BY <1>2, <1>4
  <2>2. CASE a \in 1..Len(fed) /\ b \in 1..Len(fed)
    BY <1>4, <2>2 DEF Order, FedOnce
  <2>3. CASE a = Len(fed) + 1 \/ b = Len(fed) + 1
    BY <1>1, <1>2, <1>4, <2>1, <2>3
  <2> QED  BY <2>1, <2>2, <2>3
<1>9. InTurn'
  <2>1. CASE current # None
    <3>1. Scanned > 0 /\ Scanned \in 1..Len(fed) /\ current = fed[Scanned]
      BY <1>2, <1>5, <2>1 DEF Order, InTurn
    <3> QED  BY <1>1, <1>4, <1>5, <3>1 DEF InTurn
  <2>2. CASE current = None
    BY <1>1, <2>2 DEF InTurn
  <2> QED  BY <2>1, <2>2
<1>10. Asked' /\ Fits'
  BY <1>1, <1>6 DEF IInv, TypeOK, Order, Asked, Fits, InHand
<1>11. ASSUME NEW i \in 1..Len(output), output[i] \in Line
       PROVE  /\ output[i] \in DOMAIN kind /\ kind'[output[i]] = "request"
              /\ \E a \in 1..Scanned :
                   /\ fed'[a] = output[i]
                   /\ pc[Reader] \in {"handle", "lock", "body"} => a < Scanned
  <2>1. PICK a \in 1..Scanned :
          /\ fed[a] = output[i]
          /\ pc[Reader] \in {"handle", "lock", "body"} => a < Scanned
    BY <1>11 DEF Order, Settled
  <2>2. a \in 1..Len(fed)
    BY <1>2, <1>5
  <2>3. fed'[a] = output[i] /\ output[i] \in DOMAIN kind
    BY <1>2, <1>4, <2>1, <2>2
  <2>4. kind[output[i]] = "request"
    BY <1>11 DEF Order, Settled
  <2> QED  BY <1>6, <2>1, <2>3, <2>4
<1>12. Settled'
  BY <1>1, <1>5, <1>11 DEF Settled
<1>13. Ascending'
  <2> SUFFICES ASSUME NEW i \in 1..Len(output), NEW j \in 1..Len(output),
                      NEW a \in 1..Len(fed'), NEW b \in 1..Len(fed'),
                      i < j, output[i] = fed'[a], output[j] = fed'[b]
               PROVE  a < b
    <3>1. output' = output
      BY <1>1
    <3> QED  BY <3>1, Zenon DEF Ascending
  <2>1. ASSUME NEW c \in 1..Len(fed'), NEW n \in 1..Len(output), output[n] = fed'[c]
        PROVE  c \in 1..Len(fed)
    <3>1. CASE c = Len(fed) + 1
      BY <1>1, <1>4, <1>11, <2>1, <3>1
    <3> QED  BY <1>2, <1>4, <3>1
  <2>2. a \in 1..Len(fed) /\ b \in 1..Len(fed)
    BY <2>1
  <2> QED  BY <1>4, <2>2 DEF Order, Ascending
<1>14. Halfway'
  BY <1>1 DEF Order, Halfway, Text
<1> QED  BY <1>7, <1>8, <1>9, <1>10, <1>12, <1>13, <1>14 DEF Order

\* writeLine adds to the output only at its end, one writer at a time.
LEMMA WriteLineOrder ==
  ASSUME NEW p \in Proc, IInv, Order, WriteLine(p)
  PROVE  Order'
<1> USE StdioAssumption
<1>1. /\ \A q \in Proc : q # p => pc'[q] = pc[q]
      /\ UNCHANGED <<input, fed, kind, current>>
  BY DEF WriteLine, Lock, WriteBody, WriteNewline, BodyFails, NewlineFails, Goto, inVars,
         IInv, TypeOK
<1>2. CASE Lock(p)
  <2>1. pc[p] = "lock" /\ pc'[p] = "body" /\ output' = output
    BY <1>2 DEF Lock, Goto, IInv, TypeOK
  <2> QED  BY <1>1, <2>1, CalmOrder DEF Proc
<1>3. CASE WriteBody(p)
  BY <1>3, WriteBodyOrder
<1>4. CASE WriteNewline(p) \/ BodyFails(p) \/ NewlineFails(p)
  <2>1. /\ pc[p] \in {"body", "newline"} /\ pc'[p] \in {"select", "returned"}
        /\ output' = output \/ \E x \in {NL, Torn} : output' = Append(output, x)
    BY <1>4 DEF WriteNewline, BodyFails, NewlineFails, Goto, After, AfterError, IInv, TypeOK
  <2>2. \A q \in Proc : q # p => pc[q] \notin {"body", "newline"}
    BY <2>1 DEF IInv, Mutex
  <2>3. /\ \A q \in Proc : pc'[q] # "newline"
        /\ pc'[Reader] = pc[Reader] \/ pc'[Reader] \in {"select", "returned"}
    BY <1>1, <2>1, <2>2 DEF Proc
  <2>4. CASE output' = output
    BY <1>1, <2>3, <2>4, CalmOrder
  <2>5. CASE \E x \in {NL, Torn} : output' = Append(output, x)
    BY <1>1, <2>3, <2>5, FillOrder
  <2> QED  BY <2>1, <2>4, <2>5
<1> QED  BY <1>2, <1>3, <1>4 DEF WriteLine

\* Order holds in every state of the transport.
THEOREM OrderInvariance == Spec => []Order
<1>1. IInv /\ Order /\ [Next]_vars => Order'
  <2> SUFFICES ASSUME IInv, Order, [Next]_vars PROVE Order'
    OBVIOUS
  <2> USE StdioAssumption
  <2>1. ASSUME NEW p \in Proc, WriteLine(p) PROVE Order'
    BY <2>1, WriteLineOrder
  <2>2. CASE Select \/ ScanEnd \/ ScanTooLong \/ Handle
    <3>1. /\ \A q \in Proc : q # Reader => pc'[q] = pc[q]
          /\ pc'[Reader] \in {"scan", "returned", "lock", "select"}
          /\ pc'[Reader] = "lock" => pc[Reader] = "handle" /\ kind[current] = "request"
          /\ UNCHANGED <<input, fed, kind, current, output>>
      BY <2>2
      DEF Select, ScanEnd, ScanTooLong, Handle, Return, Goto, inVars, outVars, IInv, TypeOK, Proc
    <3> QED  BY <3>1, CalmOrder
  <2>3. CASE \E p \in Sender : SendCalled(p)
    <3>1. PICK p \in Sender : SendCalled(p)
      BY <2>3
    <3>2. /\ pc' = [pc EXCEPT ![p] = "lock"] /\ pc \in [Proc -> At]
          /\ UNCHANGED <<input, fed, kind, current, output>>
      BY <3>1 DEF SendCalled, Goto, inVars, outVars, IInv, TypeOK
    <3>3. p # Reader /\ p \in Proc
      BY DEF Message, Proc
    <3>4. pc'[Reader] = pc[Reader] /\ \A q \in Proc : pc'[q] \in {pc[q], "lock"}
      BY <3>2, <3>3 DEF Proc
    <3> QED  BY <3>2, <3>4, CalmOrder
  <2>4. CASE CloseInput \/ Cancel \/ UNCHANGED vars
    <3>1. UNCHANGED <<pc, input, fed, kind, current, output>>
      BY <2>4 DEF CloseInput, Cancel, vars, inVars, outVars
    <3> QED  BY <3>1, CalmOrder
  <2>5. CASE \E l \in Line, k \in Kind : Feed(l, k)
    BY <2>5, FeedOrder
  <2> QED
    BY <2>1, <2>2, <2>3, <2>4, <2>5, ScanLineOrder DEF Next, ReaderStep, Terminated, Proc
<1> QED  BY InitOrder, Invariance, <1>1, PTL DEF Spec

-----------------------------------------------------------------------------
(* The transport implements LineServer.                                    *)

\* Cutting a sequence before its last element.
LEMMA CutLast ==
  ASSUME NEW S, NEW s \in Seq(S), s # <<>>
  PROVE  s = Append(SubSeq(s, 1, Len(s) - 1), s[Len(s)])
<1> DEFINE f == SubSeq(s, 1, Len(s) - 1)
<1>1. Len(s) \in Nat /\ Len(s) >= 1
  OBVIOUS
<1>2. f \in Seq(S) /\ Len(f) = Len(s) - 1 /\ \A i \in 1..Len(f) : f[i] = s[i]
  BY <1>1
<1>3. s[Len(s)] \in S
  BY <1>1
<1> HIDE DEF f
<1>4. /\ Append(f, s[Len(s)]) \in Seq(S) /\ Len(Append(f, s[Len(s)])) = Len(s)
      /\ \A i \in 1..Len(s) : Append(f, s[Len(s)])[i] = s[i]
  BY <1>1, <1>2, <1>3
<1>5. Append(f, s[Len(s)]) = s
  BY <1>4
<1> QED  BY <1>5 DEF f

\* What is added is cut off again.
LEMMA CutAdded ==
  ASSUME NEW S, NEW s \in Seq(S), NEW x \in S
  PROVE  SubSeq(Append(s, x), 1, Len(Append(s, x)) - 1) = s
<1> DEFINE t == Append(s, x)
           f == SubSeq(t, 1, Len(t) - 1)
<1>1. /\ t \in Seq(S) /\ Len(t) = Len(s) + 1 /\ Len(s) \in Nat
      /\ \A i \in 1..Len(s) : t[i] = s[i]
  OBVIOUS
<1> HIDE DEF t
<1>2. f \in Seq(S) /\ Len(f) = Len(s) /\ \A i \in 1..Len(s) : f[i] = t[i]
  BY <1>1
<1> HIDE DEF f
<1>3. f = s
  BY <1>1, <1>2
<1> QED  BY <1>3 DEF f, t

\* How many lines count as served.
LEMMA ServedFacts ==
  ASSUME IInv, Order
  PROVE  /\ Len(fed) \in Nat /\ Len(input) \in Nat
         /\ Scanned = Len(fed) - Len(input) /\ Scanned \in Nat
         /\ input # <<>> => /\ Scanned + 1 <= Len(fed) /\ Head(input) = fed[Scanned + 1]
         /\ input = <<>> => Scanned = Len(fed)
         /\ InHand => /\ Scanned > 0 /\ Scanned <= Len(fed) /\ Served = Scanned - 1
                      /\ fed[Served + 1] = current /\ Served < Len(fed)
         /\ ~InHand => Served = Scanned
<1>1. /\ Len(fed) \in Nat /\ Len(input) \in Nat /\ input \in Seq(Line)
      /\ Scanned = Len(fed) - Len(input) /\ Scanned \in Nat
  BY Lengths DEF IInv, Order, Queue, Scanned
<1>2. ASSUME input # <<>>
      PROVE  Scanned + 1 <= Len(fed) /\ Head(input) = fed[Scanned + 1]
  <2>1. Len(input) >= 1 /\ Head(input) = input[1]
    BY <1>1, <1>2
  <2> QED  BY <1>1, <2>1 DEF Order, Queue
<1>3. input = <<>> => Scanned = Len(fed)
  BY <1>1
<1>4. ASSUME InHand
      PROVE  /\ Scanned > 0 /\ Scanned <= Len(fed) /\ Served = Scanned - 1
             /\ fed[Served + 1] = current /\ Served < Len(fed)
  <2>1. current # None
    BY <1>4 DEF InHand, IInv, TypeOK
  <2>2. Scanned > 0 /\ current = fed[Scanned]
    BY <2>1 DEF Order, InTurn
  <2>3. Served = Scanned - 1 /\ Served + 1 = Scanned
    BY <1>1, <1>4 DEF Served
  <2> QED  BY <1>1, <2>2, <2>3
<1>5. ~InHand => Served = Scanned
  BY DEF Served
<1> QED  BY <1>1, <1>2, <1>3, <1>4, <1>5

\* A step of which an observer of whole lines sees nothing.
LEMMA Unseen ==
  ASSUME UNCHANGED <<fed, kind, eof, ctxDone, result, failed>>,
         Served' = Served, Pushed' = Pushed, Lines' = Lines
  PROVE  UNCHANGED Abstract!vars
BY DEF Abstract!vars

\* The goroutine's writeLine ends: its message is out, or lost.
LEMMA EmitStep ==
  ASSUME NEW p \in Proc, IInv, Order,
         WriteNewline(p) \/ BodyFails(p) \/ NewlineFails(p)
  PROVE  /\ Abstract!Emit(Text(p))
         /\ pc[p] \in {"body", "newline"}
         /\ pc'[p] = IF p = Reader THEN "select" ELSE "returned"
         /\ \A q \in Proc : q # p => pc'[q] = pc[q]
         /\ UNCHANGED <<fed, input, kind, eof, ctxDone, result>>
<1>1. /\ pc[p] \in {"body", "newline"}
      /\ pc'[p] = IF p = Reader THEN "select" ELSE "returned"
      /\ \A q \in Proc : q # p => pc'[q] = pc[q]
      /\ UNCHANGED <<fed, input, kind, eof, ctxDone, result>>
  BY DEF WriteNewline, BodyFails, NewlineFails, Goto, After, AfterError, inVars, IInv, TypeOK
<1>2. \A q \in Proc : q # p => pc[q] \notin {"body", "newline"}
  BY <1>1 DEF IInv, Mutex
<1>3. ~HalfWritten' /\ Lines' = output'
  BY <1>1, <1>2 DEF HalfWritten, Lines
<1>4. CASE pc[p] = "body"
  <2>1. ~HalfWritten /\ Lines = output
    BY <1>2, <1>4 DEF HalfWritten, Lines
  <2>2. /\ Faulty /\ output' \in {output, Append(output, Torn)}
        /\ failed' = failed \cup {Text(p)}
    BY <1>4 DEF WriteNewline, BodyFails, NewlineFails, Goto
  <2> QED  BY <1>1, <1>3, <2>1, <2>2 DEF Abstract!Emit
<1>5. CASE pc[p] = "newline"
  <2>1. HalfWritten /\ output # <<>> /\ output[Len(output)] = Text(p)
    BY <1>5 DEF HalfWritten, Order, Halfway
  <2>2. output = Append(Lines, Text(p))
    BY <2>1, CutLast DEF Lines, IInv, TypeOK
  <2>3. \/ output' = Append(output, NL) /\ failed' = failed
        \/ Faulty /\ output' = output /\ failed' = failed \cup {Text(p)}
    BY <1>5 DEF WriteNewline, BodyFails, NewlineFails, Goto
  <2> QED  BY <1>1, <1>3, <2>2, <2>3 DEF Abstract!Emit
<1> QED  BY <1>1, <1>4, <1>5

\* The reader's writeLine serves a line, that of a Send pushes its message.
LEMMA EndOfWriteLine ==
  ASSUME NEW p \in Proc, IInv, Order,
         WriteNewline(p) \/ BodyFails(p) \/ NewlineFails(p)
  PROVE  Abstract!Next
<1> USE StdioAssumption
<1>1. /\ Abstract!Emit(Text(p))
      /\ pc[p] \in {"body", "newline"}
      /\ pc'[p] = IF p = Reader THEN "select" ELSE "returned"
      /\ \A q \in Proc : q # p => pc'[q] = pc[q]
      /\ UNCHANGED <<fed, input, kind, eof, ctxDone, result>>
  BY EmitStep
<1>2. Scanned' = Scanned
  BY <1>1 DEF Scanned
<1>3. CASE p = Reader
  <2>1. InHand /\ ~InHand' /\ Text(p) = current /\ result = "running"
    BY <1>1, <1>3 DEF InHand, Text, IInv, TypeOK
  <2>2. /\ Served < Len(fed) /\ fed[Served + 1] = current
        /\ Served' = Served + 1
    BY <1>2, <2>1, ServedFacts DEF Served
  <2>3. kind[current] = "request"
    BY <1>1, <1>3 DEF Order, Asked
  <2>4. Pushed' = Pushed
    BY <1>1, <1>3 DEF Pushed, Proc, Message
  <2>5. Abstract!Serve
    BY <1>1, <2>1, <2>2, <2>3, <2>4 DEF Abstract!Serve, Abstract!Turn
  <2> QED  BY <2>5 DEF Abstract!Next
<1>4. CASE p # Reader
  <2>1. p \in Sender /\ Text(p) = p
    BY <1>4 DEF Proc, Text
  <2>2. Served' = Served
    BY <1>1, <1>2, <1>4 DEF Served, InHand, Proc
  <2>3. p \notin Pushed /\ Pushed' = Pushed \cup {p}
    BY <1>1, <1>4, <2>1 DEF Pushed, Proc
  <2>4. Abstract!Push(p)
    BY <1>1, <2>1, <2>2, <2>3 DEF Abstract!Push
  <2> QED  BY <2>1, <2>4 DEF Abstract!Next
<1> QED  BY <1>3, <1>4

\* Until its newline is written a message does not count as sent.
LEMMA HiddenWrites ==
  ASSUME NEW p \in Proc, IInv, Order, Lock(p) \/ WriteBody(p)
  PROVE  UNCHANGED Abstract!vars
<1> USE StdioAssumption
<1>1. /\ pc[p] \in {"lock", "body"}
      /\ pc'[p] = IF pc[p] = "lock" THEN "body" ELSE "newline"
      /\ \A q \in Proc : q # p => pc'[q] = pc[q]
      /\ UNCHANGED <<fed, input, kind, eof, ctxDone, result, failed>>
  BY DEF Lock, WriteBody, Goto, inVars, IInv, TypeOK
<1>2. Served' = Served
  BY <1>1 DEF Served, InHand, Scanned, Proc
<1>3. Pushed' = Pushed
  BY <1>1 DEF Pushed, Proc
<1>4. Lines' = Lines
  <2>1. CASE Lock(p)
    <3>1. /\ output' = output
          /\ \A q \in Proc : pc'[q] = "newline" <=> pc[q] = "newline"
      BY <1>1, <2>1 DEF Lock, Goto
    <3> QED  BY <3>1 DEF Lines, HalfWritten
  <2>2. CASE WriteBody(p)
    <3>1. pc[p] = "body" /\ output' = Append(output, Text(p))
      BY <2>2 DEF WriteBody, Goto
    <3>2. \A q \in Proc : pc[q] # "newline"
      BY <3>1 DEF IInv, Mutex
    <3>3. Text(p) \in Message
      BY <3>1 DEF Text, IInv, TypeOK, Proc, Message
    <3>4. ~HalfWritten /\ HalfWritten'
      BY <1>1, <3>1, <3>2 DEF HalfWritten
    <3>5. SubSeq(output', 1, Len(output') - 1) = output
      BY <3>1, <3>3, CutAdded DEF IInv, TypeOK
    <3> QED  BY <3>4, <3>5 DEF Lines
  <2> QED  BY <2>1, <2>2
<1> QED  BY <1>1, <1>2, <1>3, <1>4, Unseen

\* A step of the reader outside of writeLine changes no output, and counts a
\* line as served if it was the last thing to be done for it.
LEMMA ReaderMoves ==
  ASSUME IInv, Order,
         \A q \in Proc : q # Reader => pc'[q] = pc[q],
         pc[Reader] \notin {"body", "newline"}, pc'[Reader] \notin {"body", "newline"},
         UNCHANGED <<output, failed>>
  PROVE  /\ Pushed' = Pushed /\ Lines' = Lines
         /\ InHand <=> pc[Reader] \in {"handle", "lock"}
         /\ InHand' <=> pc'[Reader] \in {"handle", "lock"}
<1> USE StdioAssumption
<1>1. \A q \in Proc : pc'[q] = "newline" <=> pc[q] = "newline"
  OBVIOUS
<1>2. Lines' = Lines
  BY <1>1 DEF Lines, HalfWritten
<1>3. Pushed' = Pushed
  BY DEF Pushed, Proc, Message
<1> QED  BY <1>2, <1>3 DEF InHand

\* Scan takes the next line, which is done with if it is blank.
LEMMA ScanLineRefines ==
  ASSUME IInv, Order, ScanLine
  PROVE  [Abstract!Next]_(Abstract!vars)
<1> USE StdioAssumption
<1>1. /\ pc[Reader] = "scan" /\ input # <<>>
      /\ kind[Head(input)] # "huge"
      /\ pc'[Reader] = IF kind[Head(input)] = "blank" THEN "select" ELSE "handle"
      /\ \A q \in Proc : q # Reader => pc'[q] = pc[q]
      /\ input' = Tail(input)
      /\ UNCHANGED <<eof, kind, fed, ctxDone, result, output, failed>>
  BY DEF ScanLine, Goto, Rest, Proc, outVars, IInv, TypeOK
<1>2. /\ Pushed' = Pushed /\ Lines' = Lines
      /\ ~InHand
      /\ InHand' <=> kind[Head(input)] # "blank"
  BY <1>1, ReaderMoves
<1>3. /\ Scanned \in Nat /\ Scanned + 1 <= Len(fed)
      /\ Head(input) = fed[Scanned + 1] /\ Served = Scanned
  BY <1>1, <1>2, ServedFacts
<1>4. Scanned' = Scanned + 1
  <2>1. Len(Tail(input)) = Len(input) - 1 /\ Len(input) \in Nat /\ Len(fed) \in Nat
    BY <1>1, Lengths DEF IInv
  <2> QED  BY <1>1, <2>1 DEF Scanned
<1>5. CASE kind[Head(input)] = "blank"
  <2>1. Served' = Served + 1
    BY <1>2, <1>3, <1>4, <1>5 DEF Served
  <2>2. result = "running"
    BY <1>1 DEF IInv, TypeOK
  <2>3. Served < Len(fed) /\ fed[Served + 1] = Head(input)
    BY <1>3, Lengths DEF IInv
  <2>4. Abstract!Serve
    BY <1>1, <1>2, <1>5, <2>1, <2>2, <2>3 DEF Abstract!Serve, Abstract!Turn
  <2> QED  BY <2>4 DEF Abstract!Next
<1>6. CASE kind[Head(input)] # "blank"
  <2>1. Served' = Served
    BY <1>2, <1>3, <1>4, <1>6 DEF Served
  <2> QED  BY <1>1, <1>2, <2>1, Unseen
<1> QED  BY <1>5, <1>6

\* A notification is done with when its handler has run.
LEMMA HandleRefines ==
  ASSUME IInv, Order, Handle
  PROVE  [Abstract!Next]_(Abstract!vars)
<1> USE StdioAssumption
<1>1. /\ pc[Reader] = "handle"
      /\ pc'[Reader] = IF kind[current] = "request" THEN "lock" ELSE "select"
      /\ \A q \in Proc : q # Reader => pc'[q] = pc[q]
      /\ UNCHANGED <<eof, kind, fed, input, ctxDone, result, output, failed>>
  BY DEF Handle, Goto, Proc, inVars, outVars, IInv, TypeOK
<1>2. /\ Pushed' = Pushed /\ Lines' = Lines
      /\ InHand
      /\ InHand' <=> kind[current] = "request"
  BY <1>1, ReaderMoves
<1>3. /\ Scanned' = Scanned /\ Served = Scanned - 1 /\ Scanned \in Nat
      /\ Served < Len(fed) /\ fed[Served + 1] = current
      /\ kind[current] # "huge"
  BY <1>1, <1>2, ServedFacts DEF Scanned, Order, Fits
<1>4. CASE kind[current] = "request"
  <2>1. Served' = Served
    BY <1>2, <1>3, <1>4 DEF Served
  <2> QED  BY <1>1, <1>2, <2>1, Unseen
<1>5. CASE kind[current] # "request"
  <2>1. Served' = Served + 1
    BY <1>2, <1>3, <1>5 DEF Served
  <2>2. result = "running"
    BY <1>1 DEF IInv, TypeOK
  <2>3. Abstract!Serve
    BY <1>1, <1>2, <1>3, <1>5, <2>1, <2>2 DEF Abstract!Serve, Abstract!Turn
  <2> QED  BY <2>3 DEF Abstract!Next
<1> QED  BY <1>4, <1>5

\* Start goes on, or returns for a reason that LineServer knows.
LEMMA LoopRefines ==
  ASSUME IInv, Order, Select \/ ScanEnd \/ ScanTooLong
  PROVE  [Abstract!Next]_(Abstract!vars)
<1> USE StdioAssumption
<1>1. /\ pc[Reader] \in {"select", "scan"} /\ pc'[Reader] \in {"scan", "returned"}
      /\ \A q \in Proc : q # Reader => pc'[q] = pc[q]
      /\ UNCHANGED <<eof, kind, fed, input, ctxDone, output, failed>>
  BY DEF Select, ScanEnd, ScanTooLong, Return, Goto, Proc, inVars, outVars, IInv, TypeOK
<1>2. Pushed' = Pushed /\ Lines' = Lines /\ ~InHand /\ ~InHand'
  BY <1>1, ReaderMoves
<1>3. Served' = Served /\ Served = Scanned
  BY <1>1, <1>2 DEF Served, Scanned
<1>4. result = "running"
  BY <1>1 DEF IInv, TypeOK
<1>5. CASE result' = result
  BY <1>1, <1>2, <1>3, <1>5, Unseen
<1>6. CASE result' # result
  <2>1. \/ result' = "nil" /\ (ctxDone \/ (eof /\ input = <<>>))
        \/ result' = "error" /\ ~ctxDone /\ input # <<>> /\ kind[Head(input)] = "huge"
    BY <1>6 DEF Select, Stopping, ScanEnd, AtEnd, ScanTooLong, Return
  <2>2. input = <<>> => Served = Len(fed)
    BY <1>3, ServedFacts
  <2>3. input # <<>> => Served < Len(fed) /\ fed[Served + 1] = Head(input)
    BY <1>3, ServedFacts
  <2>4. Abstract!Stop
    BY <1>1, <1>2, <1>3, <1>4, <2>1, <2>2, <2>3 DEF Abstract!Stop, Abstract!Turn
  <2> QED  BY <2>4 DEF Abstract!Next
<1> QED  BY <1>5, <1>6

\* What the peer and the callers do.
LEMMA OutsideRefines ==
  ASSUME IInv, Order,
         \/ \E l \in Line, k \in Kind : Feed(l, k)
         \/ CloseInput \/ Cancel
         \/ \E p \in Sender : SendCalled(p)
  PROVE  [Abstract!Next]_(Abstract!vars)
<1> USE StdioAssumption
<1>1. CASE \E l \in Line, k \in Kind : Feed(l, k)
  <2>1. PICK l \in Line, k \in Kind : Feed(l, k)
    BY <1>1
  <2>2. UNCHANGED <<pc, current, output, eof, ctxDone, result, failed>>
    BY <2>1 DEF Feed, outVars
  <2>3. Pushed' = Pushed /\ Lines' = Lines
    BY <2>2 DEF Pushed, Lines, HalfWritten
  <2>4. Served' = Served
    <3>1. Len(fed') = Len(fed) + 1 /\ Len(input') = Len(input) + 1
      BY <2>1, Lengths DEF Feed, IInv
    <3>2. Scanned' = Scanned
      BY <3>1, Lengths DEF Scanned, IInv
    <3> QED  BY <2>2, <3>2 DEF Served, InHand
  <2>5. Abstract!Arrive(l, k)
    BY <2>1, <2>2, <2>3, <2>4 DEF Abstract!Arrive, Feed
  <2> QED  BY <2>5 DEF Abstract!Next, Kind
<1>2. CASE CloseInput \/ Cancel
  <2>1. UNCHANGED <<pc, input, kind, fed, current, output, result, failed>>
    BY <1>2 DEF CloseInput, Cancel, inVars, outVars
  <2>2. Pushed' = Pushed /\ Lines' = Lines /\ Served' = Served
    BY <2>1 DEF Pushed, Lines, HalfWritten, Served, InHand, Scanned
  <2>3. Abstract!End \/ Abstract!Cancel
    BY <1>2, <2>1, <2>2 DEF CloseInput, Cancel, inVars, Abstract!End, Abstract!Cancel
  <2> QED  BY <2>3 DEF Abstract!Next
<1>3. CASE \E p \in Sender : SendCalled(p)
  <2>1. PICK p \in Sender : SendCalled(p)
    BY <1>3
  <2>2. /\ pc[p] = "idle" /\ pc'[p] = "lock" /\ p # Reader
        /\ \A q \in Proc : q # p => pc'[q] = pc[q]
        /\ UNCHANGED <<eof, kind, fed, input, ctxDone, result, output, failed>>
    BY <2>1 DEF SendCalled, Goto, Proc, Message, inVars, outVars, IInv, TypeOK
  <2>3. \A q \in Proc : /\ pc'[q] = "newline" <=> pc[q] = "newline"
                        /\ pc'[q] = "returned" <=> pc[q] = "returned"
    BY <2>2
  <2>4. Pushed' = Pushed /\ Lines' = Lines
    BY <2>2, <2>3 DEF Pushed, Lines, HalfWritten, Proc
  <2>5. Served' = Served
    BY <2>2 DEF Served, InHand, Scanned, Proc
  <2> QED  BY <2>2, <2>4, <2>5, Unseen
<1> QED  BY <1>1, <1>2, <1>3

\* The transport starts where LineServer starts.
LEMMA InitRefines == Init => Abstract!Init
<1> SUFFICES ASSUME Init PROVE Abstract!Init
  OBVIOUS
<1>1. /\ \A p \in Proc : pc[p] \in {"select", "idle"}
      /\ pc[Reader] = "select" /\ Len(fed) = 0 /\ Len(input) = 0
  BY DEF Init, Proc
<1>2. Served = 0 /\ Pushed = {} /\ Lines = <<>>
  BY <1>1 DEF Init, Served, Scanned, InHand, Pushed, Lines, HalfWritten, Proc
<1> QED  BY <1>2 DEF Init, Abstract!Init

\* Every step of the transport is one of LineServer, or none: the goroutines,
\* the mutex and the two Write calls of a message cannot be told from a server
\* that serves its lines one by one and sends each message whole.
THEOREM Refinement == Spec => ImplementsLineServer
<1>1. IInv /\ Order /\ [Next]_vars => [Abstract!Next]_(Abstract!vars)
  <2> SUFFICES ASSUME IInv, Order, [Next]_vars PROVE [Abstract!Next]_(Abstract!vars)
    OBVIOUS
  <2>1. ASSUME NEW p \in Proc, WriteLine(p) PROVE [Abstract!Next]_(Abstract!vars)
    BY <2>1, HiddenWrites, EndOfWriteLine DEF WriteLine
  <2>2. CASE ReaderStep
    BY <2>1, <2>2, ScanLineRefines, HandleRefines, LoopRefines DEF ReaderStep, Proc
  <2>3. CASE \E p \in Sender : SendCalled(p) \/ WriteLine(p)
    BY <2>1, <2>3, OutsideRefines DEF Proc
  <2>4. CASE (\E l \in Line, k \in Kind : Feed(l, k)) \/ CloseInput \/ Cancel
    BY <2>4, OutsideRefines
  <2>5. CASE UNCHANGED vars
    <3>1. UNCHANGED <<pc, input, eof, kind, fed, ctxDone, current, output, failed, result>>
      BY <2>5 DEF vars, inVars, outVars
    <3>2. Pushed' = Pushed /\ Lines' = Lines /\ Served' = Served
      BY <3>1 DEF Pushed, Lines, HalfWritten, Served, InHand, Scanned
    <3> QED  BY <3>1, <3>2, Unseen
  <2> QED  BY <2>2, <2>3, <2>4, <2>5 DEF Next, Terminated
<1> QED
  BY InitRefines, Invariance, OrderInvariance, <1>1, PTL
  DEF Spec, ImplementsLineServer, Abstract!Spec

-----------------------------------------------------------------------------

\* Every variable keeps its type, so Start never answers without a line in
\* hand.
THEOREM TypeCorrect == Spec => []TypeOK
<1>1. IInv => TypeOK
  BY DEF IInv
<1> QED  BY Invariance, <1>1, PTL

\* However many Sends run, each message is followed by its own newline.
THEOREM WholeLines == Spec => []LineEnds
<1>1. IInv => LineEnds
  BY DEF IInv
<1> QED  BY Invariance, <1>1, PTL

\* However many Sends run, each message begins a line unless a Write has failed.
THEOREM LinesApart == Spec => []LineStarts
<1>1. IInv => LineStarts
  BY DEF IInv
<1> QED  BY Invariance, <1>1, PTL

\* Start does not return at the end of the input before it has answered.
THEOREM NothingUnanswered == Spec => []EndDrains
<1>1. IInv => EndDrains
  BY DEF IInv, TypeOK, EndDrains, Accounted, NilMeansEnd, IsIn
<1> QED  BY Invariance, <1>1, PTL

\* A cancellation lets at most one more line through to the handler.
THEOREM AtMostOneLate == Spec => []OneAfterCancel
<1>1. IInv => OneAfterCancel
  BY DEF IInv
<1> QED  BY Invariance, <1>1, PTL

\* However long handlers take and writes fail, the answers come in the order of
\* their requests, one for each at most and none for anything else.
THEOREM AnswersKeepOrder == Spec => []AnswersInOrder
<1>1. IInv /\ Order => AnswersInOrder
  <2> SUFFICES ASSUME IInv, Order PROVE AnswersInOrder
    OBVIOUS
  <2>1. Scanned <= Len(fed) /\ Scanned \in Int /\ Len(fed) \in Nat
    BY Lengths DEF IInv, Order, Queue, Scanned, TypeOK
  <2>2. ASSUME NEW i \in 1..Len(output), output[i] \in Line
        PROVE  (\E a \in 1..Len(fed) : fed[a] = output[i]) /\ kind[output[i]] = "request"
    BY <2>1, <2>2 DEF Order, Settled
  <2> QED  BY <2>2 DEF Order, Ascending, AnswersInOrder
<1> QED  BY Invariance, OrderInvariance, <1>1, PTL

=============================================================================
