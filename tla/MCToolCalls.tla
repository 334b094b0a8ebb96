---------------------------- MODULE MCToolCalls -----------------------------
(* Small instances of ToolCalls for TLC.                                   *)
EXTENDS ToolCalls

\* The names of the instance that have a lower and an upper case.
MCFold(k) == CASE k = "a" -> "A" [] k = "b" -> "B" [] OTHER -> k

\* Types of depth one and two, and structs of one and two fields.
Number == [kind : {"int", "uint"}, width : 1..2] \cup [kind : {"float"}, width : 3..4]
Basic == [kind : {"string", "bool", "time", "raw", "any"}] \cup Number
Wrapped(of) ==
  [kind : {"ptr", "slice", "array"}, of : of]
  \cup [kind : {"map"}, keys : {"text", "number", "other"}, of : of]
Field(name, tags, of) ==
  [name : {name}, tag : tags, type : of, exported : {TRUE}, embedded : {FALSE},
   required : BOOLEAN, quoted : {FALSE}]
Struct(fields) == [kind : {"struct"}, fields : fields]

String == [kind |-> "string"]
Integer == [kind |-> "int", width |-> 2]

\* What is embedded: a struct with one field, as a value or by pointer.
Inner == Struct({<<f>> : f \in Field("A", {""}, {Integer}) \cup Field("C", {"x"}, {Integer})})
Embedded ==
  [name : {"Inner"}, tag : {"", "-", "y"}, exported : BOOLEAN, embedded : {TRUE},
   required : {FALSE}, quoted : {FALSE}, type : Inner \cup [kind : {"ptr"}, of : Inner]]

\* A field of an unexported name, which neither side looks at.
Hidden == {[f EXCEPT !.name = "b", !.exported = FALSE] : f \in Field("B", {""}, {String})}

\* A field with the ,string option, which is for scalars and pointers to them.
AsText ==
  {[f EXCEPT !.quoted = TRUE] :
    f \in Field("A", {""}, Basic \cup [kind : {"ptr", "slice"}, of : {Integer}])}

\* A field of any type.  What is required shows with two fields.
One ==
  {f \in AsText \cup Field("A", {""}, Basic \cup Wrapped(Basic)
                                       \cup Wrapped(Wrapped({String, Integer})) \cup Inner) :
    ~f.required}
Two == Field("A", {"", "x", "-", "-,"}, {String})
Other == Field("B", {"", "x", "a"}, {String}) \cup Hidden \cup Embedded

MCTypes ==
  Struct({<<f>> : f \in One})
  \cup Struct({<<f, g>> : f \in Two, g \in Other})
  \cup Struct({<<g, f>> : f \in Two, g \in Other})
  \cup [kind : {"ptr"}, of : Struct({<<f>> : f \in Two})]
  \cup Basic

\* 1, -1, 300, 1.0, 0.5, and numbers that only floats, a float64, or nothing holds.
Literal(size, negative, whole, plain) ==
  [kind |-> "number", size |-> size, negative |-> negative, whole |-> whole, plain |-> plain]
Numbers ==
  {Literal(n, FALSE, TRUE, TRUE) : n \in 1..5}
  \cup {Literal(1, TRUE, TRUE, TRUE), Literal(1, FALSE, TRUE, FALSE),
        Literal(1, FALSE, FALSE, FALSE)}

Few == [kind : {"null", "text", "truth"}] \cup {Literal(1, FALSE, TRUE, TRUE)}
Simple == Few \cup [kind : {"date"}] \cup Numbers
Lists(of) == [kind : {"list"}, of : {<<>>} \cup {<<v>> : v \in of}]
Members(keys, of) == [kind : {"members"}, of : UNION {[k -> of] : k \in keys}]

Nested == Simple \cup Lists(Simple) \cup Members({{}, {"A"}}, Simple)
          \cup Members({{"a"}, {"x"}}, Few)

MCArgs ==
  Members({{"A"}}, Nested \cup Lists(Nested) \cup Members({{"B"}}, Nested))
  \cup Members({{}, {"B"}, {"x"}, {"y"}, {"a"}, {"-"}}, Simple)
  \cup Members({{"A", "B"}, {"A", "x"}, {"A", "a"}}, Few)
  \cup Simple

=============================================================================
