------------------------------- MODULE Schema -------------------------------
(***************************************************************************)
(* Schema generation (framework/schema/generate.go): the walk over a Go    *)
(* type that makes the schema a tool is listed with, and, as its           *)
(* reference, which JSON arguments encoding/json decodes into that type.   *)
(*                                                                         *)
(* A type is a record with its kind, and its width, its element type or    *)
(* its fields; two widths of integers stand for the eight of Go.  A schema *)
(* has its type, format, properties, required names, items and             *)
(* additionalProperties.  The jsonschema tag only decorates the schema of  *)
(* its field, and is left out.                                             *)
(*                                                                         *)
(* A JSON value is a record with its kind, and its elements or members.  A *)
(* number has the width it needs (1: an int8, 2: an int, 3: a float32,     *)
(* 4: a float64, 5: none holds it), its sign, whether it is whole, and     *)
(* whether it is plain: written in digits alone, unlike 1.0 and 1e3.       *)
(***************************************************************************)
EXTENDS Naturals, Sequences, SequencesExt, TLC

CONSTANT Fold(_)  \* the case-folded form of a name

RECURSIVE Deref(_), SchemaFrom(_), FieldsInto(_, _), Found(_, _), Conforms(_, _),
          Decodes(_, _), Spelled(_, _), Atoms(_), Holds(_, _)

Deref(t) == IF t.kind = "ptr" THEN Deref(t.of) ELSE t

\* reflect.Struct; time.Time is one, without exported fields.
IsStruct(t) == t.kind \in {"struct", "time"}
FieldsOf(t) == IF t.kind = "struct" THEN t.fields ELSE <<>>

NoSchema == [type |-> "none"]
Leaf(name) == [type |-> name, format |-> "", props |-> <<>>, required |-> <<>>,
               items |-> NoSchema, extra |-> NoSchema]

\* schemaType; whatever it does not know is a string.
SchemaType(t) ==
  CASE t.kind \in {"int", "uint"} -> "integer"
    [] t.kind = "float" -> "number"
    [] t.kind = "bool" -> "boolean"
    [] OTHER -> "string"

\* schemaFromType
SchemaFrom(type) ==
  LET t == Deref(type) IN
  CASE t.kind = "time" -> [Leaf("string") EXCEPT !.format = "date-time"]
    [] t.kind = "raw" -> Leaf("")
    [] t.kind = "slice" -> [Leaf("array") EXCEPT !.items = SchemaFrom(t.of)]
    [] t.kind = "map" -> [Leaf("object") EXCEPT !.extra = SchemaFrom(t.of)]
    [] t.kind = "struct" -> FieldsInto(t, Leaf("object"))
    [] OTHER -> Leaf(SchemaType(t))

\* The name in the json tag, else the field's.  A tag is what comes before its
\* options, but for "-,".
KeyOf(f) == IF f.tag = "" THEN f.name ELSE f.tag

\* Mutant: the embedded struct is a property like the others.
NeverFlattened(f) == FALSE

\* Anonymous fields of struct type are flattened, whatever their json tag.
Flattened(f) == f.embedded /\ IsStruct(Deref(f.type))

\* Mutant: the property gets the type of the dereferenced field's elements.
AddElement(root, f) ==
  LET t == Deref(f.type) IN
  [root EXCEPT !.props = (KeyOf(f) :> SchemaFrom(IF t.kind = "slice" THEN t.of ELSE t)) @@ @,
               !.required = IF f.required THEN Append(@, KeyOf(f)) ELSE @]

\* A field becomes a property, and replaces one of the same name.
AddField(root, f) ==
  [root EXCEPT !.props = (KeyOf(f) :> SchemaFrom(f.type)) @@ @,
               !.required = IF f.required THEN Append(@, KeyOf(f)) ELSE @]

\* processStructFields
FieldsInto(t, root) ==
  LET step(r, f) ==
        CASE ~f.exported -> r
          [] f.exported /\ Flattened(f) -> FieldsInto(Deref(f.type), r)
          [] f.exported /\ ~Flattened(f) /\ f.tag \in {"-", "-,"} -> r
          [] OTHER -> AddField(r, f)
  IN FoldLeft(step, root, FieldsOf(t))

\* Generate
Generate(type) ==
  LET t == Deref(type) IN
  IF IsStruct(t) THEN FieldsInto(t, Leaf("object")) ELSE Leaf(SchemaType(t))

-----------------------------------------------------------------------------
(* encoding/json                                                           *)

\* The ,string option asks for a scalar inside a JSON string; on other types it
\* has no effect.
Quoted(f) ==
  LET t == IF f.type.kind = "ptr" THEN f.type.of ELSE f.type
  IN f.quoted /\ t.kind \in {"string", "int", "uint", "float", "bool"}

\* The fields of t and of its embedded structs, with the path that leads there;
\* the decoder cannot follow an embedded pointer to an unexported type.
Found(type, path) ==
  LET t == Deref(type) IN
  UNION { LET f == FieldsOf(t)[i]
              p == Append(path, i)
              inner == f.embedded /\ f.tag = "" /\ IsStruct(Deref(f.type))
              stuck == f.type.kind = "ptr" /\ ~f.exported
          IN IF inner THEN {[x EXCEPT !.blocked = @ \/ stuck] : x \in Found(f.type, p)}
             ELSE IF ~f.exported \/ f.tag = "-" THEN {}
             ELSE {[path |-> p, key |-> IF f.tag = "-," THEN "-" ELSE KeyOf(f),
                    tagged |-> f.tag # "", type |-> f.type, quoted |-> Quoted(f),
                    blocked |-> FALSE]}
        : i \in 1..Len(FieldsOf(t)) }

\* Of the fields with one key the least nested wins, then the one with a tag;
\* if two are left, none does.
Beats(x, y) ==
  \/ Len(x.path) < Len(y.path)
  \/ Len(x.path) = Len(y.path) /\ x.tagged /\ ~y.tagged

JsonFields(t) ==
  LET all == Found(t, <<>>) IN
  {x \in all : \A y \in all : x.key = y.key => x = y \/ Beats(x, y)}

\* The walk meets x after y.
Later(x, y) ==
  \E i \in 1..Len(x.path) :
    /\ i <= Len(y.path) /\ x.path[i] > y.path[i]
    /\ \A j \in 1..(i - 1) : x.path[j] = y.path[j]

\* The field that a member named k fills: the one of that name, else the first
\* one whose name differs in case alone.
Filled(k, t) ==
  LET all == JsonFields(t)
      exact == {x \in all : x.key = k}
      folded == {x \in all : Fold(x.key) = Fold(k)}
  IN IF exact # {} THEN exact
     ELSE {x \in folded : \A y \in folded : x = y \/ Later(y, x)}

\* A Go number takes what has its sign and fits its width; an integer takes
\* nothing with a point or an exponent in it.
Fits(n, t) ==
  /\ n.size <= t.width
  /\ t.kind \in {"int", "uint"} => n.plain
  /\ t.kind = "uint" => ~n.negative

\* What v is made of, without its lists and members.
Atoms(v) ==
  IF v.kind \in {"list", "members"} THEN UNION {Atoms(v.of[i]) : i \in DOMAIN v.of} ELSE {v}

\* A value takes the field x; no text here is a scalar in quotes.
TakenBy(v, x) ==
  ~x.blocked /\ IF x.quoted THEN v.kind = "null" ELSE Decodes(v, x.type)

\* json.Unmarshal of v into a variable of type t succeeds; unknown keys are
\* ignored, and null changes nothing.  An array has room for every list here, no
\* name here is a number, and no text here is base64, which a []byte would take.
Decodes(v, type) ==
  LET t == Deref(type) IN
  \/ v.kind = "null" \/ t.kind = "raw"
  \/ t.kind = "any" /\ \A a \in Atoms(v) : a.kind = "number" => a.size <= 4
  \/ t.kind = "string" /\ v.kind \in {"text", "date"}
  \/ t.kind = "time" /\ v.kind = "date"
  \/ t.kind \in {"int", "uint", "float"} /\ v.kind = "number" /\ Fits(v, t)
  \/ t.kind = "bool" /\ v.kind = "truth"
  \/ t.kind \in {"slice", "array"} /\ v.kind = "list"
     /\ \A i \in 1..Len(v.of) : Decodes(v.of[i], t.of)
  \/ /\ t.kind = "map" /\ v.kind = "members"
     /\ t.keys = "text" \/ (t.keys = "number" /\ DOMAIN v.of = {})
     /\ \A k \in DOMAIN v.of : Decodes(v.of[k], t.of)
  \/ t.kind = "struct" /\ v.kind = "members"
     /\ \A k \in DOMAIN v.of : \A x \in Filled(k, t) : TakenBy(v.of[k], x)

\* v is valid against the schema s; format only annotates, and a number without
\* a fraction is an integer however it is written.
Conforms(v, s) ==
  \/ s.type = ""
  \/ s.type = "string" /\ v.kind \in {"text", "date"}
  \/ s.type = "integer" /\ v.kind = "number" /\ v.whole
  \/ s.type = "number" /\ v.kind = "number"
  \/ s.type = "boolean" /\ v.kind = "truth"
  \/ s.type = "array" /\ v.kind = "list" /\ \A i \in 1..Len(v.of) : Conforms(v.of[i], s.items)
  \/ /\ s.type = "object"
     /\ v.kind = "members"
     /\ \A i \in 1..Len(s.required) : s.required[i] \in DOMAIN v.of
     /\ \A k \in DOMAIN v.of :
          IF k \in DOMAIN s.props THEN Conforms(v.of[k], s.props[k])
          ELSE s.extra = NoSchema \/ Conforms(v.of[k], s.extra)

-----------------------------------------------------------------------------
(* Where the two are known to differ: arguments.                           *)

\* Small natural numbers in digits, and no text but dates: what every type that
\* is listed as a number or as a text takes.
Modest(v) ==
  \A a \in Atoms(v) :
    /\ a.kind = "number" => a.plain /\ a.size = 1 /\ ~a.negative
    /\ a.kind # "text"

\* No name in v differs from a listed one in case alone, which makes the decoder
\* fill that property.
Spelled(v, s) ==
  CASE v.kind = "list" ->
         s.items = NoSchema \/ \A i \in 1..Len(v.of) : Spelled(v.of[i], s.items)
    [] v.kind = "members" ->
         \A k \in DOMAIN v.of :
           IF k \in DOMAIN s.props THEN Spelled(v.of[k], s.props[k])
           ELSE /\ \A p \in DOMAIN s.props : Fold(p) # Fold(k)
                /\ s.extra = NoSchema \/ Spelled(v.of[k], s.extra)
    [] OTHER -> TRUE

-----------------------------------------------------------------------------
(* Where the two are known to differ: types.                               *)

\* P holds of t or of a type in it.
Holds(P(_), type) ==
  \/ P(type)
  \/ "of" \in DOMAIN type /\ Holds(P, type.of)
  \/ \E i \in 1..Len(FieldsOf(type)) : Holds(P, FieldsOf(type)[i].type)

\* P holds of a field of t or of a type in it.
HasField(P(_), type) ==
  Holds(LAMBDA t : \E i \in 1..Len(FieldsOf(t)) : P(FieldsOf(t)[i]), type)

\* Generate flattens an embedded struct that has a json tag, and leaves one of
\* an unexported type out; encoding/json nests or drops the first and promotes
\* the second's fields.
OddEmbedding(type) == HasField(LAMBDA f : f.embedded /\ (f.tag # "" \/ ~f.exported), type)

\* Generate leaves a field out whose json tag is "-,"; encoding/json names it "-".
Dashed(type) == HasField(LAMBDA f : f.tag = "-,", type)

\* Two fields have one key.  Generate takes the one it meets last.
Clash(type) ==
  Holds(LAMBDA t : \E x, y \in Found(t, <<>>) : x # y /\ x.key = y.key, type)

\* Of two fields with one key, the one Generate meets last is not the one that
\* encoding/json fills.
Misplaced(type) ==
  Holds(LAMBDA t : \E x, y \in Found(t, <<>>) :
                     x.key = y.key /\ Later(x, y) /\ ~Beats(x, y), type)

\* Types that hold less than their schema allows: numbers by width, sign and
\* notation, times by format.
Picky(type) == Holds(LAMBDA t : t.kind \in {"int", "uint", "float", "time"}, type)

\* Types whose schema is another one's: an array is listed as a string, a map of
\* numbers like a map of names, a field with the ,string option like one without.
Loose(type) ==
  \/ Holds(LAMBDA t : t.kind = "array" \/ (t.kind = "map" /\ t.keys # "text"), type)
  \/ HasField(Quoted, type)

\* Other types than structs have the schema of an object or of a string.
IsObject(type) == Deref(type).kind = "struct"

=============================================================================
