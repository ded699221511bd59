--------------------------- MODULE Registration ---------------------------
(***************************************************************************)
(* The registration methods of App and Group above the router: Add, Any,   *)
(* Mount and StaticFS are loops of Router.Add that stop at the first error *)
(* (StaticFS at none).  The router is the trie of module TrieRouter, which *)
(* works through one Router.Add at a time, segment by segment, and is      *)
(* looked up between the calls.                                            *)
(*                                                                         *)
(* A path is written as the list of its segments with the one before the   *)
(* leading slash: "/api" is <<Empty, api>> and "" is <<Empty>>.            *)
(***************************************************************************)
EXTENDS Routes, SequencesExt

CONSTANTS
  StandardMethods, (* the methods that Any goes through, in order          *)
  Adds,            (* the <<method, path, middlewares>> given to Add       *)
  AnyPaths,        (* paths given to Any                                   *)
  MountPaths,      (* prefixes given to Mount and StaticFS                 *)
  GroupPrefixes,   (* prefixes given to Group                              *)
  Middlewares,     (* what is given to Use                                 *)
  Paths,           (* the URL paths that are looked up                     *)
  MaxCalls         (* bound on the calls                                   *)

ASSUME BoundsAreNumbers == MaxCalls \in Nat
ASSUME PathsAreSegments ==
  \A p \in Paths : \A i \in 1..Len(p) : p[i].form \in {"plain", "empty"}

IsList(list) == list \in Seq({list[i] : i \in 1..Len(list)})
ASSUME PathsAreLists ==
  /\ \A p \in {a[2] : a \in Adds} \cup AnyPaths \cup MountPaths \cup GroupPrefixes :
       IsList(p) /\ p # << >>
  /\ \A p \in Paths \cup {StandardMethods} : IsList(p)

VARIABLES
  globalMiddlewares, nodes, label, route, call, at, rest, params, answer,
             (* the router, see TrieRouter                                 *)
  groups,    (* prefix and middlewares of each Group; 1 stands for the App *)
  job,       (* the Router.Adds of the call in progress, the first one running *)
  calls      (* the calls so far; a route's handler is the number of its call *)

NoRoute == [method |-> "", path |-> << >>, handler |-> 0, middlewares |-> << >>]
Methods == ToSet(StandardMethods)
Owns == {<< >>} \cup {a[3] : a \in Adds}
Router == INSTANCE TrieRouter

own == <<groups, job, calls>>
router == <<globalMiddlewares, nodes, label, route, call, at, rest, params, answer>>
vars == <<router, own>>

Empty == [form |-> "empty", text |-> ""]
Wildcard == [form |-> "star", text |-> "filepath"]

(* A mistaken form of AfterRefusal: a loop that goes on after an error. *)
CarryOn(kind) == Tail(job)

(* prefix + path, as strings: the segments at the seam become one. *)
Fuse(a, b) ==
  IF a.form = "empty" THEN b ELSE IF b.form = "empty" THEN a
  ELSE [form |-> a.form, text |-> a.text \o b.text]
Concat(prefix, path) ==
  Front(prefix) \o <<Fuse(Last(prefix), Head(path))>> \o Tail(path)

(* The path as TrieRouter has it: the trie skips the leading slash. *)
Strip(path) == IF Head(path) = Empty THEN Tail(path) ELSE path

(* strings.TrimRight(path, "/") *)
TrimRight(path) ==
  LET full == {n \in 1..Len(path) : path[n].form # "empty"}
  IN  IF full = {} THEN <<Empty>>
      ELSE SubSeq(path, 1, CHOOSE n \in full : \A k \in full : k <= n)

(* path, a slash unless it ends in one, and "*filepath". *)
Below(path) ==
  IF Len(path) > 1 /\ Last(path) = Empty
    THEN Front(path) \o <<Wildcard>> ELSE path \o <<Wildcard>>

Each(path) ==
  [i \in 1..Len(StandardMethods) |-> [method |-> StandardMethods[i], path |-> path]]
Mounted(path) == Each(path) \o Each(Below(path))
Files(path) ==
  << [method |-> "GET", path |-> TrimRight(path)],
     [method |-> "HEAD", path |-> TrimRight(path)],
     [method |-> "GET", path |-> TrimRight(path) \o <<Wildcard>>],
     [method |-> "HEAD", path |-> TrimRight(path) \o <<Wildcard>>] >>

----------------------------------------------------------------------------
Busy == job # << >>

(* Start the first of some Router.Adds, if there is one left. *)
Issue(adds, handler, mws) ==
  /\ job' = adds
  /\ IF adds = << >> THEN UNCHANGED router
     ELSE Router!AddCalled(Head(adds).method, Strip(Head(adds).path), handler, mws)

(* Start a call on the group (or the App) g. *)
Begin(kind, g, path, mws, adds) ==
  /\ ~Busy /\ Router!Idle
  /\ Len(calls) < MaxCalls
  /\ Issue(adds, Len(calls) + 1, mws)
  /\ calls' = Append(calls, [kind |-> kind, path |-> path, own |-> mws, outcome |-> "ok"])
  /\ UNCHANGED groups

(* The middlewares of the group are not among those that are passed on. *)
Add(g, method, path, mws) ==
  LET full == Concat(groups[g].prefix, path)
  IN  Begin("add", g, full, mws, <<[method |-> method, path |-> full]>>)

(* Any; the name is taken by module TLC. *)
AnyMethod(g, path) ==
  LET full == Concat(groups[g].prefix, path)
  IN  Begin("any", g, full, << >>, Each(full))

Mount(g, path) ==
  LET full == Concat(groups[g].prefix, path)
  IN  Begin("mount", g, full, << >>, Mounted(full))

StaticFS(g, path) ==
  LET full == Concat(groups[g].prefix, path)
  IN  Begin("static", g, full, << >>, Files(full))

Ignores(kind) == kind = "static"
AfterRefusal(kind) == IF Ignores(kind) THEN Tail(job) ELSE << >>

InRouter == Busy /\ Router!Add /\ UNCHANGED own

(* What the loop does with the answer of a Router.Add. *)
RouterAdded ==
  /\ Busy /\ answer.kind = "added"
  /\ Issue(Tail(job), Len(calls), Last(calls).own)
  /\ UNCHANGED <<groups, calls>>

RouterRefused ==
  /\ Busy /\ answer.kind = "conflict"
  /\ LET kind == Last(calls).kind
     IN  /\ Issue(AfterRefusal(kind), Len(calls), Last(calls).own)
         /\ calls' = IF Ignores(kind) THEN calls
                     ELSE [calls EXCEPT ![Len(calls)].outcome = "error"]
  /\ UNCHANGED groups

(* One lookup at a time; a second one finds the router as the first did, so *)
(* one between two calls is enough.                                        *)
Lookup ==
  /\ ~Busy
  /\ call.op = "find" => ~Router!Idle
  /\ Router!Find
  /\ UNCHANGED own

----------------------------------------------------------------------------
(* Calls that register nothing; they are counted like the others. *)
Configure(kind) ==
  /\ ~Busy /\ Router!Idle
  /\ Len(calls) < MaxCalls
  /\ calls' = Append(calls, [kind |-> kind, path |-> << >>, own |-> << >>, outcome |-> "ok"])
  /\ UNCHANGED job

(* TrieRouter.Use, on the router that the App was made with. *)
UseRouter(m) == Configure("use") /\ Router!Use(m) /\ UNCHANGED groups

Group(g, prefix) ==
  /\ Configure("group")
  /\ groups' = Append(groups, [prefix |-> Concat(groups[g].prefix, prefix),
                               middlewares |-> << >>])
  /\ UNCHANGED router

(* Group.Use; the middlewares of the App are those of its own chain. *)
Use(g, m) ==
  /\ g > 1
  /\ Configure("groupUse")
  /\ groups' = [groups EXCEPT ![g].middlewares = Append(@, m)]
  /\ UNCHANGED router

Init ==
  /\ Router!Init
  /\ groups = << [prefix |-> <<Empty>>, middlewares |-> << >>] >>
  /\ job = << >>
  /\ calls = << >>

Call(g) ==
  \/ \E a \in Adds : Add(g, a[1], a[2], a[3])
  \/ \E p \in AnyPaths : AnyMethod(g, p)
  \/ \E p \in MountPaths : Mount(g, p) \/ StaticFS(g, p)
  \/ \E p \in GroupPrefixes : Group(g, p)
  \/ \E m \in Middlewares : Use(g, m)

Next == InRouter \/ RouterAdded \/ RouterRefused \/ Lookup
          \/ (\E m \in Middlewares : UseRouter(m))
          \/ \E g \in 1..Len(groups) : Call(g)

Spec == Init /\ [][Next]_vars

----------------------------------------------------------------------------
(* Properties. *)

(* The router, segment by segment, does for every call of Add and Find     *)
(* what a table of routes promises at once: it takes the most specific     *)
(* edge, gives a route the middlewares used before it, and keeps no trace  *)
(* of an Add that it has refused.                                          *)
ImplementsTable == Router!Table!Spec

(* Routes that share the way to a segment agree on its name, and there is  *)
(* one for each method and shape, whatever calls have failed half way: see *)
(* RouteTable.                                                             *)
Coherent == Router!Table!Coherent

table == Router!Routes
OwnedBy(i) == {r \in table : r.handler = i}

(* The Router.Adds of a call of Any or Mount, and what the first k of them *)
(* register.                                                               *)
Wanted(c) == IF c.kind = "any" THEN Each(c.path) ELSE Mounted(c.path)
Done(adds, k) == {<<adds[i].method, Strip(adds[i].path)>> : i \in 1..k}

(* What a call of Any or Mount has left in the router is what it returned: *)
(* nil when every standard method is there, for Mount under the exact path *)
(* and under what is below it; an error when, in either loop of Mount too, *)
(* one Router.Add was refused, those before it are there and none from     *)
(* there on.                                                               *)
RegisteredAsReturned ==
  calls # << >> /\ ~Busy /\ Last(calls).kind \in {"any", "mount"} =>
    LET this == Last(calls)
        adds == Wanted(this)
        mine == {<<r.method, r.path>> : r \in OwnedBy(Len(calls))}
    IN  /\ this.outcome = "ok" =>
             mine = Methods \X (IF this.kind = "any" THEN {Strip(this.path)}
                                ELSE {Strip(this.path), Strip(Below(this.path))})
        /\ this.outcome = "error" =>
             \E k \in 0..Len(adds) - 1 :
               /\ mine = Done(adds, k)
               /\ ~Accepts(table, adds[k + 1].method, Strip(adds[k + 1].path))
============================================================================
