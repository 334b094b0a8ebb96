----------------------------- MODULE Lifecycle ------------------------------
(***************************************************************************)
(* The life cycle of an HTTP transport, the same code in streamable.go     *)
(* and sse.go: Start hands an http.Server to a goroutine of its own and    *)
(* selects on its context and on that goroutine's error channel; Close, by *)
(* Start or by anyone else, shuts the server down and waits for the        *)
(* requests in progress, at most 30 s.                                     *)
(*                                                                         *)
(* The module has the state and the steps; SseServer composes them with    *)
(* the handlers.  The clock is not modelled: while a Shutdown waits its    *)
(* deadline may pass.                                                      *)
(***************************************************************************)
EXTENDS Sequences

VARIABLES
  start,       \* where Start is, or how it returned
  httpServer,  \* t.httpServer is set
  listener,    \* the goroutine in ListenAndServe; "exited" has closed errCh
  errCh,       \* what is buffered in errCh
  down,        \* Shutdown was called on the server: it accepts nothing more
  closer       \* another goroutine that calls Close, or how its Close returned

lifeVars == <<start, httpServer, listener, errCh, down, closer>>

NotStarted ==
  /\ start = "building"
  /\ httpServer = FALSE
  /\ listener = "none"
  /\ errCh = <<>>
  /\ down = FALSE
  /\ closer = "idle"

\* How Start returns: no error, the error of the listener, the deadline.
Returned == {"nil", "fatal", "deadline"}

\* New requests get through.
Serving == listener = "open" /\ ~down

-----------------------------------------------------------------------------
(* The goroutine that listens.                                             *)

\* ListenAndServe fails: the address is taken, a certificate cannot be read, or
\* later Accept fails for good.
ListenFails ==
  /\ listener \in {"listen", "open"} /\ ~down
  /\ listener' = "failed"
  /\ UNCHANGED <<start, httpServer, errCh, down, closer>>

ListenOpens ==
  /\ listener = "listen" /\ ~down
  /\ listener' = "open"
  /\ UNCHANGED <<start, httpServer, errCh, down, closer>>

\* It returns ErrServerClosed, at once when Shutdown came first.
ListenStops ==
  /\ listener \in {"listen", "open"} /\ down
  /\ listener' = "ended"
  /\ UNCHANGED <<start, httpServer, errCh, down, closer>>

\* Mutant: errCh has no buffer.
Unbuffered == start = "select"

\* Whether errCh <- err can go on: its buffer holds one error.
Sendable == errCh = <<>>

ReportError ==
  /\ listener = "failed"
  /\ Sendable
  /\ errCh' = Append(errCh, "error")
  /\ listener' = "ended"
  /\ UNCHANGED <<start, httpServer, down, closer>>

CloseErrCh ==
  /\ listener = "ended"
  /\ listener' = "exited"
  /\ UNCHANGED <<start, httpServer, errCh, down, closer>>

\* What the goroutine does unless the network or the file system fails it.
ListenStep == ListenOpens \/ ListenStops \/ ReportError \/ CloseErrCh

-----------------------------------------------------------------------------
(* Start and Close.  `cancelled`: Start's context is done.  `busy`: a      *)
(* handler is running.                                                     *)

StartServes ==
  /\ start = "building"
  /\ start' = "select"
  /\ httpServer' = TRUE
  /\ listener' = "listen"
  /\ UNCHANGED <<errCh, down, closer>>

\* The two cases of the select; when both are ready, either is taken.
SelectCancel(cancelled) ==
  /\ start = "select"
  /\ cancelled
  /\ start' = "closing"
  /\ down' = TRUE
  /\ UNCHANGED <<httpServer, listener, errCh, closer>>

SelectError ==
  /\ start = "select"
  /\ \/ /\ errCh # <<>>
        /\ start' = "fatal"
        /\ errCh' = Tail(errCh)
     \/ /\ errCh = <<>> /\ listener = "exited"
        /\ start' = "nil"
        /\ UNCHANGED errCh
  /\ UNCHANGED <<httpServer, listener, down, closer>>

\* Mutant: Close does not wait for the handlers, as http.Server.Close does not.
DrainsAtOnce(busy) == TRUE

\* Shutdown has seen every connection idle.
Drained(busy) == ~busy

CloseReturns(busy) ==
  /\ start = "closing"
  /\ start' \in {"deadline"} \cup (IF Drained(busy) THEN {"nil"} ELSE {})
  /\ UNCHANGED <<httpServer, listener, errCh, down, closer>>

StartStep(cancelled, busy) ==
  StartServes \/ SelectCancel(cancelled) \/ SelectError \/ CloseReturns(busy)

\* Close by another goroutine; before Start has set the server it returns at
\* once and leaves no trace.
CloseCalled ==
  /\ closer = "idle"
  /\ httpServer
  /\ closer' = "closing"
  /\ down' = TRUE
  /\ UNCHANGED <<start, httpServer, listener, errCh>>

CloserReturns(busy) ==
  /\ closer = "closing"
  /\ closer' \in {"deadline"} \cup (IF Drained(busy) THEN {"nil"} ELSE {})
  /\ UNCHANGED <<start, httpServer, listener, errCh, down>>

LifeStep(cancelled, busy) ==
  \/ ListenStep \/ ListenFails
  \/ StartStep(cancelled, busy)
  \/ CloseCalled \/ CloserReturns(busy)

=============================================================================
