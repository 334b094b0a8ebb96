-------------------------------- MODULE Stdio -------------------------------
(***************************************************************************)
(* The stdio transport (framework/transport/stdio.go).  Start is one       *)
(* goroutine, Reader, that takes a line from the input, has it handled and *)
(* writes the response; calls of Send write from goroutines of their own.  *)
(* writeLine serialises them with a mutex.                                 *)
(*                                                                         *)
(* A message is named by its origin: a response by the input line it       *)
(* answers, a server-initiated message by its Send.                        *)
(***************************************************************************)
EXTENDS Naturals, Sequences

CONSTANTS
  Line,    \* the lines of the input
  Sender,  \* calls of Send
  Reader,  \* the goroutine in Start
  NL,      \* "\n" on the output
  Torn,    \* a proper prefix of a message on the output
  None,
  Faulty   \* whether a Write on the output can fail

Message == Line \cup Sender
Proc == Sender \cup {Reader}

ASSUME StdioAssumption ==
  /\ Line \cap Sender = {}
  /\ Reader \notin Message
  /\ NL \notin Message /\ Torn \notin Message /\ None \notin Message
  /\ None # Reader
  /\ NL # Torn
  /\ Faulty \in BOOLEAN

\* What a line of the input can be: the handler responds to a request and not
\* to a notification; a huge one is where the scanner fails: a line that does not
\* fit into its buffer, or a read error of the input.
Kind == {"request", "notification", "blank", "huge"}

VARIABLES
  pc,       \* where each goroutine is
  input,    \* the lines that arrived and were not scanned yet
  eof,      \* the input has ended
  ctxDone,  \* the context given to Start is cancelled
  current,  \* raw, the line in hand
  mu,       \* t.mu: its owner
  output,   \* what was written to t.out
  result,   \* what Start returned
  kind,     \* the kind of each line that has arrived
  fed,      \* history: all lines that arrived, in order
  failed,   \* history: the messages whose writeLine returned an error
  late      \* history: lines handed to the handler after the cancellation

inVars == <<input, eof, kind, fed>>
outVars == <<mu, output, failed>>
vars == <<pc, inVars, ctxDone, current, outVars, result, late>>

Init ==
  /\ pc = [p \in Proc |-> IF p = Reader THEN "select" ELSE "idle"]
  /\ input = <<>>
  /\ eof = FALSE
  /\ ctxDone = FALSE
  /\ current = None
  /\ mu = None
  /\ output = <<>>
  /\ result = "running"
  /\ kind = [l \in {} |-> "blank"]
  /\ fed = <<>>
  /\ failed = {}
  /\ late = 0

Goto(p, from, to) ==
  /\ pc[p] = from
  /\ pc' = [pc EXCEPT ![p] = to]

-----------------------------------------------------------------------------
(* Start                                                                   *)

Return(r) ==
  /\ pc' = [pc EXCEPT ![Reader] = "returned"]
  /\ result' = r
  /\ UNCHANGED <<inVars, ctxDone, current, outVars, late>>

\* Mutant: the loop does not look at ctx.
NeverStopping == FALSE

\* The select at the head of the loop.
Stopping == ctxDone

Select ==
  /\ pc[Reader] = "select"
  /\ IF Stopping
       THEN Return("nil")
       ELSE /\ Goto(Reader, "select", "scan")
            /\ UNCHANGED <<inVars, ctxDone, current, outVars, result, late>>

\* What Scan leaves in its buffer when it returns the first line.
Rest == Tail(input)

\* Scan blocks until a line or the end of the input is there.
ScanLine ==
  /\ input # <<>>
  /\ kind[Head(input)] # "huge"
  /\ Goto(Reader, "scan", IF kind[Head(input)] = "blank" THEN "select" ELSE "handle")
  /\ current' = Head(input)
  /\ input' = Rest
  /\ UNCHANGED <<eof, kind, fed, ctxDone, outVars, result, late>>

\* Mutant: the end of the input overtakes the lines before it.
EofAtOnce == eof

\* Scan reports the end of the input.
AtEnd == input = <<>> /\ eof

ScanEnd ==
  /\ pc[Reader] = "scan"
  /\ AtEnd
  /\ Return("nil")

\* bufio.ErrTooLong or the error of a read: the scanner stops for good.
ScanTooLong ==
  /\ pc[Reader] = "scan"
  /\ input # <<>>
  /\ kind[Head(input)] = "huge"
  /\ Return(IF ctxDone THEN "nil" ELSE "error")

\* The message handler runs.
Handle ==
  /\ Goto(Reader, "handle", IF kind[current] = "request" THEN "lock" ELSE "select")
  /\ late' = IF ctxDone THEN late + 1 ELSE late
  /\ UNCHANGED <<inVars, ctxDone, current, outVars, result>>

-----------------------------------------------------------------------------
(* writeLine                                                               *)

Text(p) == IF p = Reader THEN current ELSE p

\* Mutant: a message is written again after an error.
ErrorRetries(p) == "lock"

\* Where the goroutine goes on after writeLine, whether it failed or not.
After(p) == IF p = Reader THEN "select" ELSE "returned"

AfterError(p) == After(p)

\* Mutant: writeLine does not lock.
Unlocked == TRUE

LockFree == mu = None

Lock(p) ==
  /\ LockFree
  /\ Goto(p, "lock", "body")
  /\ mu' = p
  /\ UNCHANGED <<inVars, ctxDone, current, output, failed, result, late>>

WriteBody(p) ==
  /\ Goto(p, "body", "newline")
  /\ output' = Append(output, Text(p))
  /\ UNCHANGED <<inVars, ctxDone, current, mu, failed, result, late>>

WriteNewline(p) ==
  /\ Goto(p, "newline", After(p))
  /\ output' = Append(output, NL)
  /\ mu' = None
  /\ UNCHANGED <<inVars, ctxDone, current, failed, result, late>>

\* Mutant: no Unlock on the error path.
BodyFailsLocked(p) ==
  /\ Faulty
  /\ Goto(p, "body", AfterError(p))
  /\ output' \in {output, Append(output, Torn)}
  /\ failed' = failed \cup {Text(p)}
  /\ UNCHANGED <<inVars, ctxDone, current, mu, result, late>>

\* Write fails, having written part of the message or nothing; writeLine
\* returns the error, which Start logs.
BodyFails(p) ==
  /\ Faulty
  /\ Goto(p, "body", AfterError(p))
  /\ output' \in {output, Append(output, Torn)}
  /\ failed' = failed \cup {Text(p)}
  /\ mu' = None
  /\ UNCHANGED <<inVars, ctxDone, current, result, late>>

NewlineFails(p) ==
  /\ Faulty
  /\ Goto(p, "newline", AfterError(p))
  /\ failed' = failed \cup {Text(p)}
  /\ mu' = None
  /\ UNCHANGED <<inVars, ctxDone, current, output, result, late>>

WriteLine(p) ==
  Lock(p) \/ WriteBody(p) \/ WriteNewline(p) \/ BodyFails(p) \/ NewlineFails(p)

ReaderStep ==
  Select \/ ScanLine \/ ScanEnd \/ ScanTooLong \/ Handle \/ WriteLine(Reader)

-----------------------------------------------------------------------------
(* The environment and the whole system.                                   *)

\* The peer writes a line.
Feed(l, k) ==
  /\ ~eof
  /\ l \notin DOMAIN kind
  /\ input' = Append(input, l)
  /\ fed' = Append(fed, l)
  /\ kind' = [m \in DOMAIN kind \cup {l} |-> IF m = l THEN k ELSE kind[m]]
  /\ UNCHANGED <<pc, eof, ctxDone, current, outVars, result, late>>

\* The peer closes the input.
CloseInput ==
  /\ ~eof
  /\ eof' = TRUE
  /\ UNCHANGED <<pc, input, kind, fed, ctxDone, current, outVars, result, late>>

Cancel ==
  /\ ~ctxDone
  /\ ctxDone' = TRUE
  /\ UNCHANGED <<pc, inVars, current, outVars, result, late>>

SendCalled(p) ==
  /\ Goto(p, "idle", "lock")
  /\ UNCHANGED <<inVars, ctxDone, current, outVars, result, late>>

\* Start and every Send have returned and the peer has closed the input.
Terminated ==
  /\ \A p \in Proc : pc[p] = "returned"
  /\ eof
  /\ UNCHANGED vars

Next ==
  \/ ReaderStep
  \/ \E p \in Sender : SendCalled(p) \/ WriteLine(p)
  \/ \E l \in Line, k \in Kind : Feed(l, k)
  \/ CloseInput
  \/ Cancel
  \/ Terminated

Spec == Init /\ [][Next]_vars

\* Goroutines are scheduled; the peer and the callers are free.
Fairness ==
  /\ WF_vars(ReaderStep)
  /\ \A p \in Sender : WF_vars(WriteLine(p))

FairSpec == Spec /\ Fairness

-----------------------------------------------------------------------------
(* What the transport promises.                                            *)

At == {"idle", "select", "scan", "handle", "lock", "body", "newline", "returned"}

\* Every variable has its type.
TypeOK ==
  /\ pc \in [Proc -> At]
  /\ \A p \in Sender : pc[p] \notin {"select", "scan", "handle"}
  /\ DOMAIN kind \subseteq Line
  /\ kind \in [DOMAIN kind -> Kind]
  /\ input \in Seq(DOMAIN kind)
  /\ fed \in Seq(DOMAIN kind)
  /\ eof \in BOOLEAN
  /\ ctxDone \in BOOLEAN
  /\ current \in DOMAIN kind \cup {None}
  /\ pc[Reader] \in {"handle", "lock", "body", "newline"} => current # None
  /\ mu \in Proc \cup {None}
  /\ output \in Seq(Message \cup {NL, Torn})
  /\ result \in {"running", "nil", "error"}
  /\ pc[Reader] = "returned" <=> result # "running"
  /\ failed \subseteq Message
  /\ late \in Nat

\* A message on the output is directly followed by its newline, except the one
\* being written now and those whose newline could not be written: no other
\* writer ever gets between the two Write calls of writeLine.
LineEnds ==
  \A i \in 1..Len(output) : output[i] \in Message =>
    \/ i < Len(output) /\ output[i + 1] = NL
    \/ i = Len(output) /\ \E p \in Proc : pc[p] = "newline" /\ Text(p) = output[i]
    \/ output[i] \in failed

\* As long as no Write has failed, a message starts on a line of its own.  (A
\* failed Write spoils the next message: it is glued to what was left of the
\* line, although its own writeLine returns nil.)
LineStarts ==
  failed = {} =>
    \A i \in 2..Len(output) : output[i] \in Message => output[i - 1] = NL

\* Responses appear in the order of the requests they answer, at most one for
\* each and none for any other line.
AnswersInOrder ==
  /\ \A i \in 1..Len(output) : output[i] \in Line =>
       (\E a \in 1..Len(fed) : fed[a] = output[i]) /\ kind[output[i]] = "request"
  /\ \A i, j \in 1..Len(output), a, b \in 1..Len(fed) :
       i < j /\ output[i] = fed[a] /\ output[j] = fed[b] => a < b

\* When Start returns at the end of the input, every request in it has been
\* answered, unless writing the answer failed or the context was cancelled.
EndDrains ==
  result = "nil" /\ ~ctxDone =>
    \A l \in DOMAIN kind : kind[l] = "request" =>
      l \in failed \/ \E i \in 1..Len(output) : output[i] = l

\* After the cancellation at most one line still goes to the handler: the one
\* the loop was already waiting for.
OneAfterCancel == late <= 1

\* Every Send returns.
SendReturns == \A p \in Sender : pc[p] = "lock" ~> pc[p] = "returned"

\* Start returns once the input has ended, with or without a cancellation.
EndReturns == eof ~> result # "running"

\* What the comment on Start says, stdio.go:57: "It blocks until ctx is
\* canceled or the input stream ends".
CancelReturns == ctxDone ~> result # "running"

\* The lines that the reader has in hand, or is through with.
Scanned == Len(fed) - Len(input)

InHand == pc[Reader] \in {"handle", "lock", "body", "newline"}

\* A message has been written and its newline not yet.
HalfWritten == \E p \in Proc : pc[p] = "newline"

Served == IF InHand THEN Scanned - 1 ELSE Scanned

Pushed == {p \in Sender : pc[p] = "returned"}

\* The output without a message whose fate is still open.
Lines == IF HalfWritten THEN SubSeq(output, 1, Len(output) - 1) ELSE output

\* The transport implements LineServer: a message is sent, as a whole, when its
\* newline is written, and lost when its writeLine fails.
Abstract ==
  INSTANCE LineServer WITH
    served <- Served, pushed <- Pushed, out <- Lines, lost <- failed

ImplementsLineServer == Abstract!Spec

=============================================================================
