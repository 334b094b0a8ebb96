------------------------------ MODULE LineServer -----------------------------
(***************************************************************************)
(* What the stdio transport promises, without goroutines, buffers or a     *)
(* mutex: the lines of the input are served one by one as they arrived,    *)
(* and each message goes out in one step as a whole line, or is lost.      *)
(***************************************************************************)
EXTENDS Naturals, Sequences

CONSTANTS
  Line,    \* the lines of the input
  Sender,  \* messages that the server sends by itself
  NL,      \* the end of a line
  Torn,    \* a part of a message
  Faulty   \* whether messages can be lost

VARIABLES
  fed,      \* the lines that have arrived, in order
  kind,     \* the kind of each
  eof,      \* no more will arrive
  served,   \* how many of them have been served
  ctxDone,  \* the server is to stop
  result,   \* "running", or how it stopped
  pushed,   \* the messages sent by itself so far
  out,      \* the output
  lost      \* the messages that were lost

vars == <<fed, kind, eof, served, ctxDone, result, pushed, out, lost>>

Init ==
  /\ fed = <<>>
  /\ kind = [l \in {} |-> "blank"]
  /\ eof = FALSE
  /\ served = 0
  /\ ctxDone = FALSE
  /\ result = "running"
  /\ pushed = {}
  /\ out = <<>>
  /\ lost = {}

\* A lost message may leave a part of itself on the output, or all but its end.
Emit(m) ==
  \/ out' = Append(Append(out, m), NL) /\ UNCHANGED lost
  \/ /\ Faulty
     /\ out' \in {out, Append(out, Torn), Append(out, m)}
     /\ lost' = lost \cup {m}

Arrive(l, k) ==
  /\ ~eof
  /\ l \notin DOMAIN kind
  /\ fed' = Append(fed, l)
  /\ kind' = [m \in DOMAIN kind \cup {l} |-> IF m = l THEN k ELSE kind[m]]
  /\ UNCHANGED <<eof, served, ctxDone, result, pushed, out, lost>>

End ==
  /\ ~eof
  /\ eof' = TRUE
  /\ UNCHANGED <<fed, kind, served, ctxDone, result, pushed, out, lost>>

Cancel ==
  /\ ~ctxDone
  /\ ctxDone' = TRUE
  /\ UNCHANGED <<fed, kind, eof, served, result, pushed, out, lost>>

\* The line whose turn it is.
Turn == fed[served + 1]

\* A request is answered, any other line is passed over.
Serve ==
  /\ result = "running"
  /\ served < Len(fed)
  /\ kind[Turn] # "huge"
  /\ served' = served + 1
  /\ IF kind[Turn] = "request" THEN Emit(Turn) ELSE UNCHANGED <<out, lost>>
  /\ UNCHANGED <<fed, kind, eof, ctxDone, result, pushed>>

Push(b) ==
  /\ b \notin pushed
  /\ pushed' = pushed \cup {b}
  /\ Emit(b)
  /\ UNCHANGED <<fed, kind, eof, served, ctxDone, result>>

\* The server stops when it is told to, when all has been served, or at a line
\* that it cannot take.
Stop ==
  /\ result = "running"
  /\ \/ result' = "nil" /\ (ctxDone \/ (eof /\ served = Len(fed)))
     \/ result' = "error" /\ ~ctxDone /\ served < Len(fed) /\ kind[Turn] = "huge"
  /\ UNCHANGED <<fed, kind, eof, served, ctxDone, pushed, out, lost>>

Next ==
  \/ \E l \in Line, k \in {"request", "notification", "blank", "huge"} : Arrive(l, k)
  \/ End \/ Cancel \/ Serve \/ Stop
  \/ \E b \in Sender : Push(b)

Spec == Init /\ [][Next]_vars

=============================================================================
