---------------------------- MODULE TrieRouter ----------------------------
(***************************************************************************)
(* routers.TrieRouter: the trie of routes that Add builds and Find walks.  *)
(*                                                                         *)
(* A call is one pass of the loop over path segments, one action per       *)
(* iteration.  Calls do not overlap: routes are registered before the      *)
(* application serves, and concurrent Finds share nothing that they write. *)
(* Who calls Use and Add is the business of module Registration.           *)
(*                                                                         *)
(* The pointer to a node is abstracted to the edges from its method's root *)
(* to it.  A segment is [form, text]: "plain" is literal text, "colon" and *)
(* "brace" are the spellings :text and {text}, "star" is *text, "empty" is *)
(* what two adjacent slashes enclose.  A path is the list of its segments, *)
(* a leading slash removed: "/a/" is <<a, Empty>> and "/" is <<Empty>>.    *)
(***************************************************************************)
EXTENDS Naturals, Sequences

CONSTANTS
  Methods,      (* HTTP methods that are looked up                         *)
  Paths,        (* the URL paths that are looked up                        *)
  Middlewares,  (* what the program may pass to Use                        *)
  Owns,         (* the middlewares of its own that a route may be given    *)
  NoRoute

Empty == [form |-> "empty", text |-> ""]

VARIABLES
  globalMiddlewares,
  nodes,   (* the nodes of every method's trie                             *)
  label,   (* paramName or catchAllName, kept with the child it names      *)
  route,   (* node.Route, NoRoute while its Handler is nil                 *)
  call,    (* the call in progress or, when it has answered, the last one  *)
  at,      (* the variable n of the loop                                   *)
  rest,    (* the segments not yet consumed                                *)
  params,  (* what Find has appended to ctx.Params                         *)
  answer   (* "pending", or what the call returned                         *)

trieVars == <<nodes, label, route>>
vars == <<globalMiddlewares, trieVars, call, at, rest, params, answer>>

Root(method) == << <<"method", method>> >>
Child(n, kind, text) == Append(n, <<kind, text>>)
Static(n, text) == Child(n, "static", text)
Param(n) == Child(n, "param", "")
CatchAll(n) == Child(n, "catchAll", "")

(* Mistaken forms of the definitions below: a walk that prefers the        *)
(* parameter, a name that is not compared.                                 *)
ParamPreferred(n, text) == Static(n, text) \in nodes /\ Param(n) \notin nodes

AnyName(child, name) == FALSE

Ask(op, method, path, handler, own) ==
  call' = [op |-> op, method |-> method, path |-> path, handler |-> handler,
           middlewares |-> own]
Asked(op) == call.op = op /\ answer.kind = "pending"
Idle == answer.kind # "pending"
Pending == [kind |-> "pending", route |-> NoRoute, params |-> << >>]
Return(kind, rt, bound) == answer' = [kind |-> kind, route |-> rt, params |-> bound]

Use(m) ==
  /\ Idle
  /\ globalMiddlewares' = Append(globalMiddlewares, m)
  /\ UNCHANGED <<trieVars, call, at, rest, params, answer>>

----------------------------------------------------------------------------
(* Add. *)

Combined(global, own) == global \o own

(* The trie with one node more. *)
Grow(n, name) ==
  /\ nodes' = nodes \cup {n}
  /\ label' = [k \in nodes \cup {n} |-> IF k \in nodes THEN label[k] ELSE name]
  /\ route' = [k \in nodes \cup {n} |-> IF k \in nodes THEN route[k] ELSE NoRoute]

(* The call, the middlewares of Use put first, the root of a new method.   *)
AddCalled(method, path, handler, own) ==
  /\ Idle
  /\ Ask("add", method, path, handler, Combined(globalMiddlewares, own))
  /\ Grow(Root(method), "")
  /\ at' = Root(method)
  /\ rest' = path
  /\ params' = << >>
  /\ answer' = Pending
  /\ UNCHANGED globalMiddlewares

Adding(form) == Asked("add") /\ rest # << >> /\ Head(rest).form = form

(* n = the child, made if it is missing. *)
Descend(child, name) ==
  /\ Grow(child, name)
  /\ at' = child
  /\ rest' = Tail(rest)
  /\ UNCHANGED <<globalMiddlewares, call, params, answer>>

(* n.paramName != paramName, or n.catchAllName != wildcardName. *)
OtherName(child, name) == child \in nodes /\ label[child] # name

DescendNamed(child, name) ==
  \/ /\ ~OtherName(child, name)
     /\ Descend(child, name)
  \/ /\ OtherName(child, name)
     /\ Return("conflict", NoRoute, << >>)
     /\ UNCHANGED <<globalMiddlewares, trieVars, call, at, rest, params>>

AddEmpty ==
  /\ Adding("empty")
  /\ rest' = Tail(rest)
  /\ UNCHANGED <<globalMiddlewares, trieVars, call, at, params, answer>>

AddStatic == Adding("plain") /\ Descend(Static(at, Head(rest).text), "")

AddParam ==
  /\ Adding("colon") \/ Adding("brace")
  /\ DescendNamed(Param(at), Head(rest).text)

AddCatchAll == Adding("star") /\ DescendNamed(CatchAll(at), Head(rest).text)

AddDone ==
  /\ Asked("add")
  /\ rest = << >>
  /\ route' = [route EXCEPT ![at] =
                 [method |-> call.method, path |-> call.path,
                  handler |-> call.handler, middlewares |-> call.middlewares]]
  /\ Return("added", NoRoute, << >>)
  /\ UNCHANGED <<globalMiddlewares, nodes, label, call, at, rest, params>>

----------------------------------------------------------------------------
(* Find. *)

(* One slash is cut off the end. *)
Trimmed(path) ==
  IF path # << >> /\ path[Len(path)].form = "empty"
    THEN SubSeq(path, 1, Len(path) - 1) ELSE path

FindCalled(method, path) ==
  /\ Idle
  /\ Ask("find", method, path, 0, << >>)
  /\ at' = Root(method)
  /\ rest' = Trimmed(path)
  /\ params' = << >>
  /\ IF Root(method) \in nodes THEN answer' = Pending
     ELSE Return("methodNotFound", NoRoute, << >>)
  /\ UNCHANGED <<globalMiddlewares, trieVars>>

FoundAt(n, bound) ==
  /\ params' = bound
  /\ IF route[n] # NoRoute THEN Return("found", route[n], bound)
     ELSE Return("notFound", NoRoute, bound)
  /\ UNCHANGED <<globalMiddlewares, trieVars, call, at, rest>>

Miss ==
  /\ Return("notFound", NoRoute, params)
  /\ UNCHANGED <<globalMiddlewares, trieVars, call, at, rest, params>>

(* A catch-all also takes the empty remainder of the path. *)
TakesEmpty(n) == CatchAll(n) \in nodes

FindEnd ==
  /\ Asked("find")
  /\ rest = << >>
  /\ \/ route[at] # NoRoute /\ FoundAt(at, params)
     \/ /\ route[at] = NoRoute
        /\ TakesEmpty(at)
        /\ FoundAt(CatchAll(at), Append(params, <<label[CatchAll(at)], << >> >>))
     \/ route[at] = NoRoute /\ ~TakesEmpty(at) /\ Miss

Finding(form) == Asked("find") /\ rest # << >> /\ Head(rest).form = form

FindEmpty ==
  /\ Finding("empty")
  /\ rest' = Tail(rest)
  /\ UNCHANGED <<globalMiddlewares, trieVars, call, at, params, answer>>

Follow(child, bound) ==
  /\ at' = child
  /\ params' = bound
  /\ rest' = Tail(rest)
  /\ UNCHANGED <<globalMiddlewares, trieVars, call, answer>>

(* Priority: Static > Param > Wildcard. *)
HasStatic(n, text) == Static(n, text) \in nodes

FindStatic ==
  /\ Finding("plain")
  /\ HasStatic(at, Head(rest).text)
  /\ Follow(Static(at, Head(rest).text), params)

FindParam ==
  /\ Finding("plain")
  /\ ~HasStatic(at, Head(rest).text)
  /\ Param(at) \in nodes
  /\ Follow(Param(at), Append(params, <<label[Param(at)], <<Head(rest)>> >>))

Binding(n) == <<label[CatchAll(n)], rest>>

FindCatchAll ==
  /\ Finding("plain")
  /\ ~HasStatic(at, Head(rest).text)
  /\ Param(at) \notin nodes
  /\ CatchAll(at) \in nodes
  /\ FoundAt(CatchAll(at), Append(params, Binding(at)))

FindMiss ==
  /\ Finding("plain")
  /\ ~HasStatic(at, Head(rest).text)
  /\ {Param(at), CatchAll(at)} \cap nodes = {}
  /\ Miss

----------------------------------------------------------------------------
Init ==
  /\ globalMiddlewares = << >>
  /\ nodes = {}
  /\ label = << >>
  /\ route = << >>
  /\ call = [op |-> "none", method |-> "", path |-> << >>, handler |-> 0,
             middlewares |-> << >>]
  /\ at = << >>
  /\ rest = << >>
  /\ params = << >>
  /\ answer = [kind |-> "none", route |-> NoRoute, params |-> << >>]

Add == AddEmpty \/ AddStatic \/ AddParam \/ AddCatchAll \/ AddDone

Find ==
  \/ \E m \in Methods, p \in Paths : FindCalled(m, p)
  \/ FindEmpty \/ FindStatic \/ FindParam \/ FindCatchAll \/ FindMiss \/ FindEnd

----------------------------------------------------------------------------
(* The table the trie stands for. *)
Routes == {route[n] : n \in {m \in nodes : route[m] # NoRoute}}
Table == INSTANCE RouteTable WITH
  table <- Routes,
  used <- globalMiddlewares,
  answer <- IF answer.kind = "found" THEN answer
            ELSE [kind |-> answer.kind, route |-> NoRoute, params |-> << >>]

============================================================================
