------------------------------ MODULE Dispatch ------------------------------
(***************************************************************************)
(* What happens to one message between the transport and its reply:        *)
(* Server.Run's chain of Recovery, Logging and the user's middleware       *)
(* (framework/server/server.go, framework/middleware) around dispatch,     *)
(* ParseMessage and the request handlers, with the calls they make into    *)
(* the registered tools, resources and prompts, whose code is the user's.  *)
(*                                                                         *)
(* Messages do not share state except the flag `initialized`, which        *)
(* nothing reads, so one message at a time is followed.                    *)
(***************************************************************************)
EXTENDS Naturals, Sequences

CONSTANTS
  Id,         \* the values an id can have in a message
  Null,       \* JSON null; also what a nil RawMessage is marshalled to
  None        \* no reply

\* The messages, by what the code distinguishes.  `json` is "garbage" for what
\* does not decode to an object, and "illtyped" for an object that has a field
\* of the wrong type (a number as method).  tools/call, resources/read and
\* prompts/get have the same shape: "call"; so have the three lists.
Method == {"initialize", "ping", "list", "call", "other", "initialized", "cancelled"}
Params == {"absent", "illtyped", "unregistered", "registered"}
Garbage == [json |-> "garbage", hasId |-> FALSE, id |-> Null,
            hasMethod |-> FALSE, method |-> "other", params |-> "absent"]
Object == [json : {"illtyped", "ok"}, hasId : BOOLEAN, id : Id \cup {Null},
           hasMethod : BOOLEAN, method : Method, params : Params]
Msg == {Garbage} \cup {m \in Object : ~m.hasId => m.id = Null}

IsRequest(m) == m.json = "ok" /\ m.hasId /\ m.hasMethod
IsNotification(m) == m.json = "ok" /\ ~m.hasId /\ m.hasMethod

\* What the registered code can do.  "badargs": RegisterTool's wrapper cannot
\* decode the arguments.  "niltyped": it returns a nil *RPCError as an error.
\* "unmarshalable": its result, "baddata": the Data of its RPCError, cannot be
\* marshalled.
Outcome == {"ok", "error", "rpcerror", "badargs", "niltyped", "unmarshalable",
            "baddata", "panic"}

ParseError == 32700
MethodNotFound == 32601
InvalidParams == 32602
InternalError == 32603
Custom == 32000          \* any code the registered code puts into an RPCError
NoError == 0
Code == {ParseError, MethodNotFound, InvalidParams, InternalError, Custom, NoError}

\* A Response: code is NoError when it has no error member.
Reply == [id : Id \cup {Null}, result : BOOLEAN, code : Code]

ASSUME DispatchAssumption ==
  /\ Null \notin Id
  /\ None \notin Reply \cup Outcome \cup {"user", "handler"}

NewResponse(id) == [id |-> id, result |-> TRUE, code |-> NoError]
\* Mutant: an error response carries a null result too.
NewErrorResponseBoth(id, code) == [id |-> id, result |-> TRUE, code |-> code]

NewErrorResponse(id, code) == [id |-> id, result |-> FALSE, code |-> code]

VARIABLES
  pc,           \* what runs: a frame of the chain, dispatch, the unwinding
  depth,        \* how many frames of the chain have been entered
  msg,          \* the message
  outcome,      \* what the registered code did, None before it ran
  reply,        \* what travels back through the frames
  logged,       \* Logging has written its record
  culprit,      \* history: whose code panicked
  initialized   \* s.initialized

vars == <<pc, depth, msg, outcome, reply, logged, culprit, initialized>>

\* Mutant: the user's middleware is put outermost.
UserOutermost == <<"user", "recovery", "logging">>

\* mw.Chain: the first middleware is the outermost.
Frames == <<"recovery", "logging", "user">>

Init ==
  /\ pc = "descend"
  /\ depth = 0
  /\ msg \in Msg
  /\ outcome = None
  /\ reply = None
  /\ logged = FALSE
  /\ culprit = None
  /\ initialized \in BOOLEAN

-----------------------------------------------------------------------------
(* The chain.                                                              *)

\* Each frame calls the next; the innermost calls dispatch.
Enter ==
  /\ pc = "descend"
  /\ IF depth < Len(Frames)
       THEN depth' = depth + 1 /\ UNCHANGED pc
       ELSE pc' = "dispatch" /\ UNCHANGED depth
  /\ UNCHANGED <<msg, outcome, reply, logged, culprit, initialized>>

\* The user's middleware panics, before or after it calls the next frame.
UserPanics ==
  /\ pc \in {"descend", "ascend"}
  /\ depth > 0
  /\ Frames[depth] = "user"
  /\ pc' = "panic"
  /\ culprit' = "user"
  /\ UNCHANGED <<depth, msg, outcome, reply, logged, initialized>>

\* A frame returns what it got; Logging writes its record.
Leave ==
  /\ pc = "ascend"
  /\ depth > 0
  /\ depth' = depth - 1
  /\ logged' = (logged \/ Frames[depth] = "logging")
  /\ UNCHANGED <<pc, msg, outcome, reply, culprit, initialized>>

Answer ==
  /\ pc = "ascend"
  /\ depth = 0
  /\ pc' = "answered"
  /\ UNCHANGED <<depth, msg, outcome, reply, logged, culprit, initialized>>

\* The id that Recovery finds in the raw message.
RecoveredId == msg.id

\* A panic unwinds the frames; Recovery turns it into a reply, and without
\* such a frame it takes the process down.
Unwind ==
  /\ pc = "panic"
  /\ IF depth = 0
       THEN pc' = "crashed" /\ UNCHANGED <<depth, reply>>
       ELSE /\ depth' = depth - 1
            /\ IF Frames[depth] = "recovery"
                 THEN /\ pc' = "ascend"
                      /\ reply' = NewErrorResponse(RecoveredId, InternalError)
                 ELSE UNCHANGED <<pc, reply>>
  /\ UNCHANGED <<msg, outcome, logged, culprit, initialized>>

-----------------------------------------------------------------------------
(* dispatch                                                                *)

Respond(r) ==
  /\ pc' = "ascend"
  /\ reply' = r
  /\ UNCHANGED <<depth, msg, logged, culprit>>

\* ParseMessage fails: the object lacks both members or does not decode.
Unparsable(m) == m.json # "ok" \/ (~m.hasId /\ ~m.hasMethod)

DispatchUnparsable ==
  /\ pc = "dispatch"
  /\ Unparsable(msg)
  /\ Respond(NewErrorResponse(Null, ParseError))
  /\ UNCHANGED <<outcome, initialized>>

\* Mutant: a Response falls into the default case of handleRequest.
ResponseAnswered ==
  /\ pc = "dispatch"
  /\ ~Unparsable(msg) /\ ~msg.hasMethod
  /\ Respond(NewErrorResponse(msg.id, MethodNotFound))
  /\ UNCHANGED <<outcome, initialized>>

\* Responses are ignored.
DispatchResponse ==
  /\ pc = "dispatch"
  /\ ~Unparsable(msg) /\ ~msg.hasMethod
  /\ Respond(None)
  /\ UNCHANGED <<outcome, initialized>>

HandleNotification ==
  /\ pc = "dispatch"
  /\ IsNotification(msg)
  /\ initialized' = (initialized \/ msg.method = "initialized")
  /\ Respond(None)
  /\ UNCHANGED outcome

\* initialize, ping and the lists run no registered code; of these only
\* initialize looks at its params, when there are any.
HandleBuiltin ==
  /\ pc = "dispatch"
  /\ IsRequest(msg)
  /\ msg.method \in {"initialize", "ping", "list"}
  /\ Respond(IF msg.method = "initialize" /\ msg.params = "illtyped"
               THEN NewErrorResponse(msg.id, InvalidParams)
               ELSE NewResponse(msg.id))
  /\ UNCHANGED <<outcome, initialized>>

\* The default case, also for the names of notifications.
HandleUnknown ==
  /\ pc = "dispatch"
  /\ IsRequest(msg)
  /\ msg.method \in {"other", "initialized", "cancelled"}
  /\ Respond(NewErrorResponse(msg.id, MethodNotFound))
  /\ UNCHANGED <<outcome, initialized>>

\* Params that do not decode, or name nothing that is registered.
Callable(m) == m.params = "registered"

HandleUncallable ==
  /\ pc = "dispatch"
  /\ IsRequest(msg) /\ msg.method = "call"
  /\ ~Callable(msg)
  /\ Respond(NewErrorResponse(msg.id, InvalidParams))
  /\ UNCHANGED <<outcome, initialized>>

\* The error code for what the registered code returned; errors.As finds the
\* nil *RPCError too, and then the Response gets no error member.
CodeOf(o) ==
  CASE o = "rpcerror" -> Custom
    [] o = "niltyped" -> NoError
    [] o \in {"error", "badargs", "unmarshalable"} -> InternalError

HandleCall ==
  /\ pc = "dispatch"
  /\ IsRequest(msg) /\ msg.method = "call"
  /\ Callable(msg)
  /\ outcome' \in Outcome
  /\ CASE outcome' = "ok" -> Respond(NewResponse(msg.id))
       [] outcome' \in {"panic", "baddata"} ->
            /\ pc' = "panic"
            /\ culprit' = "handler"
            /\ UNCHANGED <<depth, msg, reply, logged>>
       [] OTHER -> Respond(NewErrorResponse(msg.id, CodeOf(outcome')))
  /\ UNCHANGED initialized

Terminated == pc = "answered" /\ UNCHANGED vars

Next ==
  \/ Enter \/ UserPanics \/ Leave \/ Answer \/ Unwind
  \/ DispatchUnparsable \/ DispatchResponse \/ HandleNotification
  \/ HandleBuiltin \/ HandleUnknown \/ HandleUncallable \/ HandleCall
  \/ Terminated

Spec == Init /\ [][Next]_vars

-----------------------------------------------------------------------------
(* What the server promises.                                               *)

\* Every variable has its type.
TypeOK ==
  /\ pc \in {"descend", "dispatch", "ascend", "panic", "answered", "crashed"}
  /\ depth \in 0..Len(Frames)
  /\ msg \in Msg
  /\ outcome \in Outcome \cup {None}
  /\ reply \in Reply \cup {None}
  /\ logged \in BOOLEAN
  /\ culprit \in {None, "user", "handler"}
  /\ initialized \in BOOLEAN

\* Every request is answered under its own id, by a Response that has either
\* a result or an error, whatever panics on the way and wherever in the chain;
\* the one exception is the nil *RPCError.
RequestAnswered ==
  pc \in {"answered", "crashed"} /\ IsRequest(msg) =>
    /\ reply # None
    /\ reply.id = msg.id
    /\ outcome # "niltyped" => (reply.result <=> reply.code = NoError)

\* A notification or a response takes nothing down, and it gets no reply unless
\* the user's middleware panics on it.
SilentOnNotification ==
  pc \in {"answered", "crashed"} /\ ~IsRequest(msg) =>
    /\ pc = "answered"
    /\ culprit # "user" => (reply # None <=> Unparsable(msg))

\* The client is never told that a call succeeded when the registered code did
\* not return a result, nor the reverse unless the user's middleware panics.
ResultMeansOk ==
  pc = "answered" /\ outcome # None /\ culprit # "user" => (reply.result <=> outcome = "ok")

=============================================================================
