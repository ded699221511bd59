-------------------------- MODULE MCRegistration --------------------------
(* Small instances of Registration, with the router, for TLC. *)
EXTENDS Registration

S(text) == [form |-> "plain", text |-> text]
P(name) == [form |-> "colon", text |-> name]
B(name) == [form |-> "brace", text |-> name]
W(name) == [form |-> "star", text |-> name]
Slash(path) == <<Empty>> \o path

ThreeMethods == <<"GET", "HEAD", "POST">>

(* Exact, parameter and catch-all routes that shadow each other, both      *)
(* spellings of a parameter, names that conflict, a catch-all inside a     *)
(* path, a path with empty segments and the root.                          *)
MixedPatterns ==
  { << >>, <<S("a")>>, <<S("a"), S("b")>>, <<S("a"), Empty, P("x")>>,
    <<P("x")>>, <<B("x"), S("b")>>, <<P("y"), S("a")>>, <<S("a"), W("w")>>,
    <<W("w")>>, <<W("v"), S("b")>> }

(* Every pattern under GET; one under another method, with a middleware of *)
(* its own, which conflicts with some of them but for its method.          *)
MixedAdds ==
  ({"GET"} \X {Slash(p) : p \in MixedPatterns} \X {<< >>})
  \cup { <<"POST", Slash(<<P("y")>>), <<"log">> >> }

MixedPaths ==
  { << >>, <<Empty>>, <<S("a")>>, <<S("c"), Empty>>, <<S("a"), S("b")>>,
    <<S("a"), S("c")>>, <<S("a"), S("c"), Empty, S("b")>>, <<Empty, S("a"), S("b"), S("c"), Empty, Empty>> }

SomeAnys == { Slash(<<P("x")>>), Slash(<<S("a"), P("y")>>) }
SomeMounts == { <<Empty>>, Slash(<<P("x")>>) }
SomePrefixes == { Slash(<<S("a")>>) }
Auth == {"auth"}
============================================================================
