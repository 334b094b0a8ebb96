--------------------------- MODULE DispatchProofs ---------------------------
(***************************************************************************)
(* Proofs about Dispatch, for any set of ids.                              *)
(*                                                                         *)
(* The properties look at the end of a message's way; Carried says what is *)
(* true of the reply at every frame on the way back, and which frames are  *)
(* still entered while a panic unwinds.                                    *)
(***************************************************************************)
EXTENDS Dispatch, TLAPS

\* The reply that is on its way back belongs to the message: for a request one
\* that fits it, for another message none, unless it cannot be parsed or the
\* user's middleware panicked.
Fits ==
  IF IsRequest(msg)
    THEN /\ reply \in Reply
         /\ reply.id = msg.id
         /\ outcome # "niltyped" => (reply.result <=> reply.code = NoError)
         /\ outcome # None /\ culprit # "user" => (reply.result <=> outcome = "ok")
    ELSE culprit # "user" => (reply # None <=> Unparsable(msg))

\* Recovery is the outermost frame: what panics, panics inside of it.
Carried ==
  /\ pc \in {"ascend", "answered"} => Fits
  /\ pc = "panic" => depth >= 1
  /\ pc = "dispatch" => depth = Len(Frames)
  /\ pc \in {"descend", "dispatch"} => outcome = None
  /\ pc = "panic" => culprit \in {"user", "handler"}
  /\ pc = "panic" /\ culprit = "handler" => IsRequest(msg)
  /\ pc = "panic" /\ culprit = "handler" => outcome \in {"panic", "baddata"}
  /\ outcome # None => IsRequest(msg)
  /\ pc # "crashed"

IInv == TypeOK /\ Carried

\* The chain has three frames, and Recovery is the first.
LEMMA Chain ==
  /\ Len(Frames) = 3
  /\ Frames[1] = "recovery" /\ Frames[2] = "logging" /\ Frames[3] = "user"
BY DEF Frames

\* Responses are replies, and no reply is None.
LEMMA Replies ==
  ASSUME NEW id \in Id \cup {Null}, NEW code \in Code
  PROVE  /\ NewResponse(id) \in Reply /\ NewResponse(id).id = id
         /\ NewResponse(id).result /\ NewResponse(id).code = NoError
         /\ NewErrorResponse(id, code) \in Reply /\ NewErrorResponse(id, code).id = id
         /\ ~NewErrorResponse(id, code).result /\ NewErrorResponse(id, code).code = code
BY DEF NewResponse, NewErrorResponse, Reply, Code

-----------------------------------------------------------------------------
(* The invariant.                                                          *)

\* Nothing has happened to a message that has just arrived.
LEMMA InitInv == Init => IInv
<1> SUFFICES ASSUME Init PROVE IInv
  OBVIOUS
<1>1. TypeOK
  <2>1. depth \in 0..Len(Frames)
    BY Chain DEF Init
  <2>2. logged \in BOOLEAN /\ initialized \in BOOLEAN
    BY DEF Init
  <2> QED  BY <2>1, <2>2 DEF Init, TypeOK
<1>2. Carried
  BY DEF Init, Carried
<1> QED  BY <1>1, <1>2 DEF IInv

\* The frames that call, and those that return what they got.
LEMMA ChainStep ==
  ASSUME IInv, Enter \/ UserPanics \/ Leave \/ Answer
  PROVE  IInv'
<1>1. CASE Enter
  BY <1>1, Chain DEF Enter, IInv, TypeOK, Carried
<1>2. CASE UserPanics
  BY <1>2, Chain DEF UserPanics, IInv, TypeOK, Carried
<1>3. CASE Leave
  BY <1>3, Chain DEF Leave, IInv, TypeOK, Carried, Fits
<1>4. CASE Answer
  BY <1>4, Chain DEF Answer, IInv, TypeOK, Carried, Fits
<1> QED  BY <1>1, <1>2, <1>3, <1>4

\* A panic stops at Recovery, which answers it.
LEMMA UnwindStep == ASSUME IInv, Unwind PROVE IInv'
<1> DEFINE r == NewErrorResponse(RecoveredId, InternalError)
<1>1. pc = "panic" /\ depth \in 1..3 /\ depth' = depth - 1
  BY Chain DEF Unwind, IInv, TypeOK, Carried
<1>2. UNCHANGED <<msg, outcome, logged, culprit, initialized>>
  BY DEF Unwind
<1>3. CASE depth = 1
  <2>1. pc' = "ascend" /\ reply' = r /\ depth' = 0
    BY <1>1, <1>3, Chain DEF Unwind
  <2>2. msg.id \in Id \cup {Null}
    BY DEF IInv, TypeOK, Msg, Object, Garbage
  <2>3. r \in Reply /\ r.id = msg.id /\ ~r.result /\ r.code = InternalError
    BY <2>2, Replies DEF RecoveredId, Code
  <2>4. Fits'
    BY <1>1, <1>2, <2>1, <2>3 DEF Fits, IInv, Carried, IsRequest, NoError, InternalError
  <2> QED
    BY <1>1, <1>2, <2>1, <2>3, <2>4, Chain DEF IInv, TypeOK, Carried
<1>4. CASE depth \in 2..3
  <2>1. UNCHANGED <<pc, reply>>
    BY <1>1, <1>4, Chain DEF Unwind
  <2> QED
    BY <1>1, <1>2, <1>4, <2>1, Chain DEF IInv, TypeOK, Carried
<1> QED  BY <1>1, <1>3, <1>4

\* dispatch answers: r fits the message.
LEMMA RespondStep ==
  ASSUME IInv, NEW r \in Reply \cup {None}, pc = "dispatch", Respond(r),
         outcome' \in Outcome \cup {None}, initialized' \in BOOLEAN,
         outcome' # None => IsRequest(msg),
         IF IsRequest(msg)
           THEN /\ r \in Reply /\ r.id = msg.id
                /\ outcome' # "niltyped" => (r.result <=> r.code = NoError)
                /\ outcome' # None => (r.result <=> outcome' = "ok")
           ELSE r # None <=> Unparsable(msg)
  PROVE  IInv'
<1>1. Fits'
  BY DEF Fits, Respond, IsRequest, Unparsable
<1> QED
  BY <1>1, Chain DEF IInv, TypeOK, Carried, Respond, IsRequest

\* What is not a request, and requests that run no registered code.
LEMMA BuiltinStep ==
  ASSUME IInv, \/ DispatchUnparsable \/ DispatchResponse \/ HandleNotification
               \/ HandleBuiltin \/ HandleUnknown \/ HandleUncallable
  PROVE  IInv'
<1>1. msg.id \in Id \cup {Null}
  BY DEF IInv, TypeOK, Msg, Object, Garbage
<1>2. {ParseError, MethodNotFound, InvalidParams} \subseteq Code \ {NoError}
  BY DEF Code, ParseError, MethodNotFound, InvalidParams, NoError
<1>3. pc = "dispatch" => outcome = None
  BY DEF IInv, Carried
<1>4. CASE DispatchUnparsable
  <2>1. ~IsRequest(msg)
    BY <1>4 DEF DispatchUnparsable, Unparsable, IsRequest
  <2>2. NewErrorResponse(Null, ParseError) \in Reply
    BY <1>2, Replies
  <2> QED
    BY <1>3, <1>4, <2>1, <2>2, RespondStep, DispatchAssumption
    DEF DispatchUnparsable, IInv, TypeOK
<1>5. CASE DispatchResponse
  <2>1. ~IsRequest(msg) /\ ~Unparsable(msg)
    BY <1>5 DEF DispatchResponse, IsRequest
  <2> QED
    BY <1>3, <1>5, <2>1, RespondStep DEF DispatchResponse, IInv, TypeOK
<1>6. CASE HandleNotification
  <2>1. ~IsRequest(msg) /\ ~Unparsable(msg)
    BY <1>6 DEF HandleNotification, IsNotification, IsRequest, Unparsable
  <2> QED
    BY <1>3, <1>6, <2>1, RespondStep DEF HandleNotification, IInv, TypeOK
<1>7. CASE HandleBuiltin
  <2>1. PICK r \in {NewErrorResponse(msg.id, InvalidParams), NewResponse(msg.id)} : Respond(r)
    BY <1>7 DEF HandleBuiltin
  <2>2. r \in Reply /\ r.id = msg.id /\ (r.result <=> r.code = NoError)
    BY <1>1, <1>2, Replies
  <2> QED
    BY <1>3, <1>7, <2>1, <2>2, RespondStep DEF HandleBuiltin, IInv, TypeOK
<1>8. CASE HandleUnknown \/ HandleUncallable
  <2>1. PICK code \in {MethodNotFound, InvalidParams} : Respond(NewErrorResponse(msg.id, code))
    BY <1>8 DEF HandleUnknown, HandleUncallable
  <2> DEFINE r == NewErrorResponse(msg.id, code)
  <2>2. r \in Reply /\ r.id = msg.id /\ ~r.result /\ r.code # NoError
    BY <1>1, <1>2, Replies
  <2>3. pc = "dispatch" /\ IsRequest(msg) /\ UNCHANGED <<outcome, initialized>>
    BY <1>8 DEF HandleUnknown, HandleUncallable
  <2> HIDE DEF r
  <2>4. Respond(r)
    BY <2>1 DEF r
  <2> QED
    BY <1>3, <2>2, <2>3, <2>4, RespondStep DEF IInv, TypeOK
<1> QED  BY <1>4, <1>5, <1>6, <1>7, <1>8

\* A registered handler runs.
LEMMA CallStep == ASSUME IInv, HandleCall PROVE IInv'
<1>1. msg.id \in Id \cup {Null}
  BY DEF IInv, TypeOK, Msg, Object, Garbage
<1>2. /\ pc = "dispatch" /\ IsRequest(msg) /\ outcome' \in Outcome
      /\ UNCHANGED initialized
  BY DEF HandleCall
<1>3. CASE outcome' = "ok"
  <2>1. Respond(NewResponse(msg.id))
    BY <1>3 DEF HandleCall
  <2> QED
    BY <1>1, <1>2, <1>3, <2>1, Replies, RespondStep, NoError \in Code
    DEF IInv, TypeOK, Code
<1>4. CASE outcome' \in {"panic", "baddata"}
  <2>1. /\ pc' = "panic" /\ culprit' = "handler"
        /\ UNCHANGED <<depth, msg, reply, logged>>
    BY <1>4 DEF HandleCall
  <2> QED
    BY <1>2, <1>4, <2>1, Chain DEF IInv, TypeOK, Carried, IsRequest
<1>5. CASE outcome' \in {"error", "rpcerror", "badargs", "niltyped", "unmarshalable"}
  <2>1. Respond(NewErrorResponse(msg.id, CodeOf(outcome')))
    BY <1>5 DEF HandleCall
  <2>2. /\ CodeOf(outcome') \in Code
        /\ outcome' # "niltyped" => CodeOf(outcome') # NoError
    BY <1>5 DEF CodeOf, Code, Custom, NoError, InternalError
  <2> DEFINE r == NewErrorResponse(msg.id, CodeOf(outcome'))
  <2>3. r \in Reply /\ r.id = msg.id /\ ~r.result /\ r.code = CodeOf(outcome')
    BY <1>1, <2>2, Replies
  <2> HIDE DEF r
  <2>4. Respond(r)
    BY <2>1 DEF r
  <2> QED
    BY <1>2, <1>5, <2>2, <2>3, <2>4, RespondStep DEF IInv, TypeOK
<1> QED  BY <1>2, <1>3, <1>4, <1>5 DEF Outcome

\* IInv is preserved by every step.
LEMMA NextInv == IInv /\ [Next]_vars => IInv'
<1>1. CASE UNCHANGED vars
  BY <1>1 DEF vars, IInv, TypeOK, Carried, Fits, IsRequest, Unparsable
<1> QED
  BY <1>1, ChainStep, UnwindStep, BuiltinStep, CallStep DEF Next, Terminated

-----------------------------------------------------------------------------
(* The theorems.                                                           *)

LEMMA Invariant == Spec => []IInv
BY InitInv, NextInv, PTL DEF Spec

\* Every variable keeps its type.
THEOREM TypeCorrect == Spec => []TypeOK
<1>1. IInv => TypeOK
  BY DEF IInv
<1> QED  BY <1>1, Invariant, PTL

\* Every request is answered under its own id, whatever panics.
THEOREM EveryRequestAnswered == Spec => []RequestAnswered
<1>1. IInv => RequestAnswered
  BY DispatchAssumption DEF IInv, Carried, Fits, RequestAnswered
<1> QED  BY <1>1, Invariant, PTL

\* Nothing else is answered, and nothing takes the process down.
THEOREM NothingElseAnswered == Spec => []SilentOnNotification
<1>1. IInv => SilentOnNotification
  BY DEF IInv, Carried, Fits, SilentOnNotification
<1> QED  BY <1>1, Invariant, PTL

\* A result means that the registered code returned one.
THEOREM ResultsAreHonest == Spec => []ResultMeansOk
<1>1. IInv => ResultMeansOk
  BY DEF IInv, Carried, Fits, ResultMeansOk
<1> QED  BY <1>1, Invariant, PTL

=============================================================================
