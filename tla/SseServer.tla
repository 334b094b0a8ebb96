----------------------------- MODULE SseServer ------------------------------
(***************************************************************************)
(* The whole SSE transport: the life cycle of Lifecycle around the         *)
(* handlers of Sse.  Requests arrive only while the server accepts them,   *)
(* the context that Start waits for is the one that ends the streams, and  *)
(* Shutdown waits for the handlers.  Send may be called at any time.       *)
(***************************************************************************)
EXTENDS Sse, Lifecycle

serverVars == <<vars, lifeVars>>

ServerInit == Init /\ NotStarted

\* Shutdown waits for the connections whose handler has not returned.
Busy == \E p \in Post \cup Stream : pc[p] \notin {"idle", "returned"}

\* net/http starts the handler of a request.
Receive ==
  /\ Serving
  /\ \/ \E p \in Post : PostArrives(p)
     \/ \E g \in Stream : GetArrives(g)
  /\ UNCHANGED lifeVars

\* The goroutines that run already, and the environment.
Proceed ==
  /\ \/ \E p \in Post : PostStep(p)
     \/ \E g \in Stream : GetStep(g) \/ Disconnect(g)
     \/ \E p \in Sender : SendCalled(p) \/ SendStep(p)
     \/ Cancel
  /\ UNCHANGED lifeVars

Live == LifeStep(ctxDone, Busy) /\ UNCHANGED vars

\* Start has returned, nothing runs, and nothing is going to arrive.
Over ==
  /\ start \in Returned
  /\ ~Busy
  /\ UNCHANGED serverVars

ServerNext == Receive \/ Proceed \/ Live \/ Over

\* The scheduler runs every goroutine of the transport, time passes while a
\* Shutdown waits, and nothing forces clients, callers or a cancellation.
ServerSpec ==
  /\ ServerInit /\ [][ServerNext]_serverVars
  /\ \A p \in Post : WF_serverVars(PostStep(p) /\ UNCHANGED lifeVars)
  /\ \A g \in Stream : WF_serverVars(GetStep(g) /\ UNCHANGED lifeVars)
  /\ \A p \in Sender : WF_serverVars(SendStep(p) /\ UNCHANGED lifeVars)
  /\ WF_serverVars(ListenStep /\ UNCHANGED vars)
  /\ WF_serverVars(StartStep(ctxDone, Busy) /\ UNCHANGED vars)

-----------------------------------------------------------------------------
(* What the server promises.                                               *)

LifeTypeOK ==
  /\ start \in {"building", "select", "closing"} \cup Returned
  /\ httpServer = (start # "building")
  /\ listener \in {"none", "listen", "open", "failed", "ended", "exited"}
  /\ errCh \in {<<>>, <<"error">>}
  /\ down \in BOOLEAN
  /\ closer \in {"idle", "closing", "nil", "deadline"}

\* A shutdown that reports success cut nobody off.  When Start returns nil and
\* no other goroutine shut the server down, its context was cancelled and no
\* handler is running, nor will one: a main that exits then breaks no response.
\* Neither does one that exits after a Close of its own has returned nil.
DrainedOnReturn ==
  /\ start = "nil" /\ closer = "idle" => ctxDone /\ ~Busy
  /\ closer = "nil" => ~Busy

\* A cancellation ends everything: Start returns, the goroutine that listens
\* has ended even when its error came too late for Start, and every event
\* stream has ended.
ShutdownCompletes ==
  ctxDone ~> /\ start \in Returned
             /\ listener = "exited"
             /\ \A g \in Stream : pc[g] \in {"idle", "returned"}

=============================================================================
