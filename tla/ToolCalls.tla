----------------------------- MODULE ToolCalls ------------------------------
(***************************************************************************)
(* Dispatch with the typed tools of registry/tool.go: a tool is registered *)
(* with a Go type, listed with the schema that Generate makes of it, and   *)
(* called with arguments that its wrapper decodes into that type.          *)
(***************************************************************************)
EXTENDS Dispatch, Schema

CONSTANTS
  ToolType,   \* the types of the tools
  Arg         \* the JSON values that clients send as arguments

VARIABLES
  tool,       \* the type of the tool that was called, None if it has none
  args        \* what the tool's listing says of the arguments

toolVars == <<vars, tool, args>>

NoArgs == [conforms |-> FALSE, spelled |-> TRUE, modest |-> TRUE]

\* What the wrapper and the schema of a type make of some arguments; the wrapper
\* does not look at arguments that are missing.
Verdicts(t) ==
  LET listed == Generate(t) IN
  {[decodes |-> Decodes(v, t),
    args |-> LET valid == Conforms(v, listed)
             IN [conforms |-> valid, spelled |-> valid => Spelled(v, listed),
                 modest |-> Modest(v)]] : v \in Arg}
  \cup {[decodes |-> TRUE, args |-> NoArgs]}

ToolInit ==
  /\ Init
  /\ tool = None
  /\ args = NoArgs

\* The wrapper of RegisterTool: it fails exactly when the arguments do not
\* decode.
CallTyped(t) ==
  /\ pc = "dispatch" /\ msg.method = "call" /\ Callable(msg)
  /\ \E v \in Verdicts(t) :
       /\ HandleCall
       /\ outcome' = "badargs" <=> ~v.decodes
       /\ tool' = t
       /\ args' = v.args

\* Resources, prompts and raw tools have no wrapper.
CallUntyped ==
  /\ HandleCall
  /\ outcome' # "badargs"
  /\ UNCHANGED <<tool, args>>

ToolNext ==
  \/ \E t \in ToolType : CallTyped(t)
  \/ CallUntyped
  \/ UNCHANGED <<outcome, tool, args>> /\ Next

ToolSpec == ToolInit /\ [][ToolNext]_toolVars

-----------------------------------------------------------------------------
(* What the listing promises.                                              *)

\* A client that sends what the listing of a tool asks for is not told that its
\* arguments are invalid, where the schema can be trusted.  It cannot for types
\* whose schema is another one's, nor for fields that hide each other or are
\* embedded or named in ways the generator does not know; names must be in the case
\* they are listed in; and for numbers and times, which hold less than their
\* schemas allow, the arguments must be within what every one of them holds.
ListedArgumentsDecode ==
  args.conforms /\ outcome = "badargs" =>
    \/ ~IsObject(tool) \/ Loose(tool)
    \/ OddEmbedding(tool) \/ Dashed(tool) \/ Misplaced(tool)
    \/ ~args.spelled
    \/ Picky(tool) /\ ~args.modest

\* The properties that a listing names are the members that encoding/json fills,
\* each with the schema of the field it fills, and what it requires is among
\* them and named once; except for embedding, naming and hiding as above.
SchemaMatchesDecoder ==
  pc = "answered" /\ tool # None =>
    OddEmbedding(tool) \/ Dashed(tool) \/ Misplaced(tool) \/
    LET s == Generate(tool)
        fields == JsonFields(tool)
        required == s.required
    IN /\ DOMAIN s.props = {x.key : x \in fields}
       /\ \A x \in fields : s.props[x.key] = SchemaFrom(x.type)
       /\ ~Clash(tool) => /\ ToSet(required) \subseteq DOMAIN s.props
                          /\ IsInjective(required)

=============================================================================
