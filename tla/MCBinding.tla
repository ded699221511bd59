----------------------------- MODULE MCBinding -----------------------------
(***************************************************************************)
(* Words of 8 values, structs of two fields, and strings that are blank,   *)
(* no number, in range, at the edges of it and beyond; bodies that are     *)
(* forms or JSON, whole or not.                                            *)
(***************************************************************************)
EXTENDS Binding

Field(key, kind, size, required, min, max) ==
  [key |-> key, kind |-> kind, ptr |-> FALSE, size |-> size,
   tags |-> {"query", "form", "json"}, required |-> required, min |-> min, max |-> max]
Pointer(f) == [f EXCEPT !.ptr = TRUE]
QueryOnly(f) == [f EXCEPT !.tags = {"query"}]

MCStructs == {
  << Field("a", "string", 1, TRUE, <<2>>, << >>), Field("b", "int", 8, FALSE, <<-2>>, <<2>>) >>,
  << Pointer(Field("a", "uint", 8, TRUE, << >>, << >>)), Field("b", "ints", 8, FALSE, <<1>>, <<1>>) >>,
  << Field("a", "uint", 8, TRUE, <<1>>, <<3>>), QueryOnly(Field("b", "bool", 1, TRUE, << >>, << >>)) >>,
  << Field("a", "int", 8, TRUE, << >>, << >>), Pointer(Field("b", "bool", 1, FALSE, << >>, << >>)) >>,
  << Field("a", "int", 4, FALSE, << >>, <<1>>), Pointer(Field("b", "uint", 4, FALSE, <<2>>, << >>)) >>,
  << Field("a", "uint", 8, FALSE, <<-1>>, << >>), QueryOnly(Field("a", "string", 1, FALSE, << >>, <<1>>)) >> }

Number(n, len) == [isNum |-> TRUE, num |-> n, len |-> len]
Word1 == [isNum |-> FALSE, num |-> 0, len |-> 1]

Strings == {Blank, Word1, Number(0, 1), Number(3, 1), Number(-3, 2), Number(7, 1)}
Given0 == {<< >>} \cup {<<s>> : s \in Strings} \cup {<<Number(1, 1), s>> : s \in {Word1, Number(2, 1)}}
Some == {<< >>, <<Number(3, 1)>>}
MCQueries == [pairs : [Keys -> Given0], bad : {FALSE}] \cup [pairs : [Keys -> Some], bad : {TRUE}]

Form(a, b, bad) == [type |-> "form", pairs |-> [a |-> a, b |-> b], bad |-> bad]
MCForms == {
  Form(<< >>, << >>, FALSE), Form(<< >>, << >>, TRUE),
  Form(<<Number(1, 1)>>, <<Number(-3, 2)>>, FALSE), Form(<<Number(1, 1)>>, << >>, TRUE),
  Form(<<Number(9, 2)>>, <<Word1>>, FALSE) }

Scalar(type, text) == [type |-> type, text |-> text]
One(type, text) == [shape |-> "scalar", items |-> << Scalar(type, text) >>]
List(items) == [shape |-> "list", items |-> items]
MCValues == {
  Absent, One("null", Blank), One("string", Number(3, 1)), One("number", Number(3, 1)),
  One("number", Number(-3, 2)), One("bool", Number(1, 4)), List(<< >>),
  List(<<Scalar("null", Blank), Scalar("number", Number(1, 1))>>),
  List(<<Scalar("number", Number(2, 1)), Scalar("string", Word1)>>) }
MCDocuments ==
  {d \in [type : {"json"}, values : [Keys -> MCValues], bad : BOOLEAN] :
     d.bad => \A k \in Keys : d.values[k] = Absent}

MCBodies == MCForms \cup MCDocuments
============================================================================
