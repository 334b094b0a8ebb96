--------------------------- MODULE SseServerProofs ---------------------------
(***************************************************************************)
(* Proofs about the SSE transport with its life cycle.  Every behaviour of *)
(* the server is one of the transport of Sse, so what SseProofs shows      *)
(* holds under every start and shutdown; and a shutdown that reports       *)
(* success has waited for every handler, because nothing is accepted after *)
(* Shutdown was called and a handler that has returned does not come back. *)
(***************************************************************************)
EXTENDS SseServer, SseProofs

\* Start is cancelled when it closes; whoever closes has shut the server down;
\* a listener that ended without an error to report was shut down; and what
\* reported success was drained.
Draining ==
  /\ start = "closing" => ctxDone /\ down
  /\ closer # "idle" => down
  /\ down /\ start = "select" => closer # "idle"
  /\ listener \in {"ended", "exited"} /\ errCh = <<>> /\ start = "select" => down
  /\ start = "building" => ~down /\ listener = "none"
  /\ start = "nil" => down
  /\ DrainedOnReturn

\* A step of the server is a step of the transport or leaves it alone.
LEMMA ServerSteps == [ServerNext]_serverVars => [Next]_vars
BY DEF ServerNext, Receive, Proceed, Live, Over, serverVars, Next, Arrives

\* The server is the transport of Sse under a life cycle.
THEOREM ServerIsTransport == ServerSpec => Spec
<1>1. ServerInit => Init
  BY DEF ServerInit
<1> QED  BY <1>1, ServerSteps, PTL DEF ServerSpec, Spec

\* A handler that does not run takes no step.
LEMMA NoHandlerSteps ==
  ASSUME ~Busy
  PROVE  /\ \A p \in Post : ~PostStep(p)
         /\ \A g \in Stream : ~GetStep(g)
<1>1. \A p \in Post \cup Stream : pc[p] \in {"idle", "returned"}
  BY DEF Busy
<1>2. ASSUME NEW p \in Post, PostStep(p) PROVE FALSE
  <2>1. CASE PostWrite(p)
    BY <1>1, <2>1 DEF PostWrite, Writing, WriteNext, WriteOk, WriteFail, WriteUnlock, Goto
  <2> QED
    BY <1>1, <1>2, <2>1
    DEF PostStep, PostLookup, PostUnknown, PostBadBody, PostHandle, PostDeliver,
        PostReply, Refuse, WriteLock, Goto
<1>3. ASSUME NEW g \in Stream, GetStep(g) PROVE FALSE
  BY <1>1, <1>3
  DEF GetStep, GetCreate, GetInsert, GetGreet, Greet, GetAddWriter, GetWake,
      GetCleanup, MapLock, CreateInsert, AddWriter, Cleanup, Goto
<1> QED  BY <1>2, <1>3

\* A handler that does not run starts only when a request is received.
LEMMA BusyStays ==
  ASSUME TypeOK, Proceed \/ UNCHANGED vars, ~Busy
  PROVE  ~Busy'
<1> USE Kinds
<1>1. \A p \in Post \cup Stream : pc[p] \in {"idle", "returned"}
  BY DEF Busy
<1>2. ASSUME NEW p \in Sender, SendCalled(p) \/ SendStep(p)
      PROVE  \A q \in Post \cup Stream : pc'[q] = pc[q]
  <2>1. pc' = pc \/ \E to : pc' = [pc EXCEPT ![p] = to]
    BY <1>2
    DEF SendCalled, SendStep, BroadcastBegin, BroadcastSession, WriteLock, Writing,
        WriteNext, WriteOk, WriteFail, WriteUnlock, BroadcastEnd, Goto
  <2> QED  BY <2>1 DEF TypeOK
<1>3. CASE Cancel \/ UNCHANGED vars \/ \E g \in Stream : Disconnect(g)
  BY <1>1, <1>3 DEF Busy, Cancel, Disconnect, vars
<1>4. CASE \E p \in Sender : SendCalled(p) \/ SendStep(p)
  BY <1>1, <1>2, <1>4 DEF Busy
<1> QED  BY NoHandlerSteps, <1>3, <1>4 DEF Proceed

\* A cancelled context stays cancelled.
LEMMA CancelStays == ASSUME Proceed, ctxDone PROVE ctxDone'
<1>1. ASSUME UNCHANGED httpVars PROVE ctxDone'
  BY <1>1 DEF httpVars
<1>2. ASSUME NEW p \in Post, PostStep(p) PROVE ctxDone'
  BY <1>1, <1>2
  DEF PostStep, PostLookup, PostUnknown, PostBadBody, PostHandle, PostDeliver, PostWrite,
      PostReply, Refuse
<1>3. ASSUME NEW g \in Stream, GetStep(g) PROVE ctxDone'
  BY <1>1, <1>3
  DEF GetStep, GetCreate, GetInsert, GetGreet, Greet, GetAddWriter, GetWake, GetCleanup
<1>4. ASSUME NEW p \in Sender, SendCalled(p) \/ SendStep(p) PROVE ctxDone'
  BY <1>1, <1>4 DEF SendCalled, SendStep
<1>5. CASE Cancel \/ \E g \in Stream : Disconnect(g)
  BY <1>5 DEF Cancel, Disconnect
<1> QED  BY <1>2, <1>3, <1>4, <1>5 DEF Proceed

\* The life cycle keeps Draining.
LEMMA LifeKeeps ==
  ASSUME LifeTypeOK, Draining, LifeStep(ctxDone, Busy), UNCHANGED <<ctxDone, Busy>>
  PROVE  LifeTypeOK' /\ Draining'
<1>1. CASE ListenStep
  <2>1. CASE ListenOpens
    BY <2>1 DEF ListenOpens, LifeTypeOK, Draining, DrainedOnReturn, Returned
  <2>2. CASE ListenStops \/ CloseErrCh
    BY <2>2 DEF ListenStops, CloseErrCh, LifeTypeOK, Draining, DrainedOnReturn, Returned
  <2>3. CASE ReportError
    <3>1. errCh = <<>> /\ errCh' = <<"error">> /\ listener' = "ended"
      BY <2>3 DEF ReportError, Sendable
    <3>2. <<"error">> # <<>>
      OBVIOUS
    <3>3. UNCHANGED <<start, httpServer, down, closer>>
      BY <2>3 DEF ReportError
    <3>4. DrainedOnReturn'
      BY <3>3 DEF Draining, DrainedOnReturn
    <3>5. LifeTypeOK'
      BY <3>1, <3>3 DEF LifeTypeOK, Returned
    <3>6. errCh' # <<>> /\ start # "building"
      BY <2>3, <3>1, <3>2 DEF ReportError, Draining
    <3> QED  BY <3>3, <3>4, <3>5, <3>6 DEF Draining
  <2> QED  BY <1>1, <2>1, <2>2, <2>3 DEF ListenStep
<1>2. CASE ListenFails
  BY <1>2 DEF ListenFails, LifeTypeOK, Draining, DrainedOnReturn, Returned
<1>3. CASE StartServes
  BY <1>3 DEF StartServes, LifeTypeOK, Draining, DrainedOnReturn, Returned
<1>4. CASE SelectCancel(ctxDone)
  BY <1>4 DEF SelectCancel, LifeTypeOK, Draining, DrainedOnReturn, Returned
<1>5. CASE SelectError
  <2>1. errCh = <<"error">> => Tail(errCh) = <<>>
    OBVIOUS
  <2>2. errCh' \in {<<>>, <<"error">>} /\ start' \in {"fatal", "nil"} /\ start = "select"
    BY <1>5, <2>1 DEF SelectError, LifeTypeOK
  <2>3. UNCHANGED <<httpServer, listener, down, closer>>
    BY <1>5 DEF SelectError
  <2>4. start' = "nil" => down /\ closer # "idle"
    BY <1>5 DEF SelectError, LifeTypeOK, Draining
  <2> QED  BY <2>2, <2>3, <2>4 DEF LifeTypeOK, Draining, DrainedOnReturn, Returned
<1>6. CASE CloseReturns(Busy)
  BY <1>6 DEF CloseReturns, Drained, LifeTypeOK, Draining, DrainedOnReturn, Returned
<1>7. CASE CloseCalled
  BY <1>7 DEF CloseCalled, LifeTypeOK, Draining, DrainedOnReturn, Returned
<1>8. CASE CloserReturns(Busy)
  BY <1>8 DEF CloserReturns, Drained, LifeTypeOK, Draining, DrainedOnReturn, Returned
<1> QED
  BY <1>1, <1>2, <1>3, <1>4, <1>5, <1>6, <1>7, <1>8 DEF LifeStep, StartStep

\* When Start returns nil and nobody else closed the server, its context was
\* cancelled and no handler runs; when a Close returns nil, no handler runs.
THEOREM ShutdownDrains == ServerSpec => []DrainedOnReturn
<1>1. ServerInit => LifeTypeOK /\ Draining
  <2> SUFFICES ASSUME ServerInit PROVE LifeTypeOK /\ Draining
    OBVIOUS
  <2>1. /\ start = "building" /\ httpServer = FALSE /\ listener = "none"
        /\ errCh = <<>> /\ down = FALSE /\ closer = "idle"
    BY DEF ServerInit, NotStarted
  <2>2. LifeTypeOK
    BY <2>1 DEF LifeTypeOK
  <2>3. Draining
    BY <2>1 DEF Draining, DrainedOnReturn
  <2> QED  BY <2>2, <2>3
<1>2. TypeOK /\ LifeTypeOK /\ Draining /\ [ServerNext]_serverVars
        => LifeTypeOK' /\ Draining'
  <2> SUFFICES ASSUME TypeOK, LifeTypeOK, Draining, [ServerNext]_serverVars
               PROVE  LifeTypeOK' /\ Draining'
    OBVIOUS
  <2>1. ASSUME UNCHANGED lifeVars, ctxDone => ctxDone', down /\ ~Busy => ~Busy'
        PROVE  LifeTypeOK' /\ Draining'
    BY <2>1 DEF lifeVars, LifeTypeOK, Draining, DrainedOnReturn
  <2>2. CASE Receive
    <3>1. ~down /\ ctxDone' = ctxDone /\ UNCHANGED lifeVars
      BY <2>2
      DEF Receive, Serving, PostArrives, GetArrives, Refuse, httpVars
    <3> QED  BY <2>1, <3>1
  <2>3. CASE Proceed
    <3> QED  BY <2>1, <2>3, CancelStays, BusyStays DEF Proceed
  <2>4. CASE Live
    <3>1. UNCHANGED <<ctxDone, Busy>>
      BY <2>4 DEF Live, vars, httpVars, Busy
    <3> QED  BY <2>4, <3>1, LifeKeeps DEF Live
  <2>5. CASE UNCHANGED serverVars
    <3>1. UNCHANGED lifeVars /\ UNCHANGED <<ctxDone, Busy>>
      BY <2>5 DEF serverVars, vars, httpVars, Busy
    <3> QED  BY <2>1, <3>1
  <2> QED  BY <2>2, <2>3, <2>4, <2>5 DEF ServerNext, Over
<1>3. Draining => DrainedOnReturn
  BY DEF Draining
<1> QED
  BY ServerIsTransport, TypeCorrect, <1>1, <1>2, <1>3, PTL DEF ServerSpec

\* A shutdown has reported success: to Start, or to another goroutine's Close.
Stopped == (start = "nil" /\ closer = "idle") \/ closer = "nil"

\* A goroutine that is none of the handlers writes to a stream only while the
\* stream's handler runs.
LEMMA SilentWithoutHandlers ==
  ASSUME TypeOK, EmitToLive, ~Busy, [ServerNext]_serverVars
  PROVE  sent' = sent
<1> USE Kinds
<1>1. \A p \in Writer : out[p] = None
  <2> SUFFICES ASSUME NEW p \in Writer, out[p] # None PROVE FALSE
    OBVIOUS
  <2>1. out[p] \in Stream /\ pc[out[p]] \in {"streaming", "cleanup"}
    BY DEF TypeOK, EmitToLive
  <2> QED  BY <2>1 DEF Busy
<1>2. CASE Receive
  BY <1>2 DEF Receive, PostArrives, GetArrives, Refuse, writeVars
<1>3. ASSUME NEW p \in Sender, SendCalled(p) \/ SendStep(p) PROVE sent' = sent
  BY <1>1, <1>3
  DEF SendCalled, SendStep, BroadcastBegin, BroadcastSession, WriteLock, Writing,
      WriteNext, WriteOk, WriteFail, WriteUnlock, BroadcastEnd, writeVars
<1>4. CASE Cancel \/ UNCHANGED vars \/ \E g \in Stream : Disconnect(g)
  BY <1>4 DEF Cancel, Disconnect, vars, writeVars
<1> QED
  BY NoHandlerSteps, <1>2, <1>3, <1>4 DEF ServerNext, Proceed, Live, Over, serverVars

\* After a shutdown that reported success no client reads another event: neither a
\* broadcast, which may be called at any time, nor a response of a late handler.
THEOREM SilentAfterShutdown == ServerSpec => [][Stopped => sent' = sent]_serverVars
<1>1. TypeOK /\ EmitToLive /\ DrainedOnReturn /\ [ServerNext]_serverVars
        => [Stopped => sent' = sent]_serverVars
  BY SilentWithoutHandlers DEF DrainedOnReturn, Stopped
<1> QED
  BY ServerIsTransport, TypeCorrect, WritesToOpen, ShutdownDrains, <1>1, PTL DEF ServerSpec

=============================================================================
