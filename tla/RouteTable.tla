---------------------------- MODULE RouteTable ----------------------------
(***************************************************************************)
(* What a router promises, without a trie: a table of routes, one for each *)
(* method and shape of path, the last registration winning; registration   *)
(* refused exactly when a name disagrees with a route in the table; and    *)
(* lookup answered by the one matching route that no route of the table    *)
(* shadows under "Static > Param > Wildcard".                              *)
(*                                                                         *)
(* Lookup does not backtrack: a route shadowed at one segment stays out of *)
(* reach even if the route that shadows it does not match in the end.      *)
(***************************************************************************)
EXTENDS Routes

CONSTANTS NoRoute, Middlewares, Owns

VARIABLES
  table,   (* the set of routes                                            *)
  used,    (* the middlewares given to Use, in order                       *)
  call, answer

vars == <<table, used, call, answer>>

----------------------------------------------------------------------------
Pending == [kind |-> "pending", route |-> NoRoute, params |-> << >>]
Nothing(kind) == [kind |-> kind, route |-> NoRoute, params |-> << >>]

Use ==
  /\ answer # Pending
  /\ \E m \in Middlewares : used' = Append(used, m)
  /\ UNCHANGED <<table, call, answer>>

(* A route is registered with the middlewares used so far before its own.  *)
AddCall ==
  /\ answer # Pending
  /\ call'.op = "add"
  /\ \E own \in Owns : call'.middlewares = used \o own
  /\ answer' = Pending
  /\ UNCHANGED <<table, used>>

Register ==
  /\ call.op = "add" /\ answer = Pending
  /\ LET new == [method |-> call.method, path |-> call.path,
                 handler |-> call.handler, middlewares |-> call.middlewares]
     IN  IF Accepts(table, call.method, call.path)
         THEN answer' = Nothing("added") /\ table' = Registered(table, new)
         ELSE answer' = Nothing("conflict") /\ UNCHANGED table
  /\ UNCHANGED <<used, call>>

FindCall ==
  /\ answer # Pending
  /\ call'.op = "find"
  /\ answer' = IF Rivals(table, call'.method) = {} THEN Nothing("methodNotFound") ELSE Pending
  /\ UNCHANGED <<table, used>>

Lookup ==
  /\ call.op = "find" /\ answer = Pending
  /\ LET t == Trimmed(call.path)
         found == Reachable(table, call.method, t)
     IN  answer' = IF found = {} THEN Nothing("notFound")
                   ELSE LET r == CHOOSE r \in found : TRUE
                        IN  [kind |-> "found", route |-> r,
                             params |-> Bindings(Segments(r.path), t)]
  /\ UNCHANGED <<table, used, call>>

Init ==
  /\ table = {}
  /\ used = << >>
  /\ call = [op |-> "none", method |-> "", path |-> << >>, handler |-> 0,
             middlewares |-> << >>]
  /\ answer = Nothing("none")

Next == Use \/ AddCall \/ Register \/ FindCall \/ Lookup

Spec == Init /\ [][Next]_vars

----------------------------------------------------------------------------
(* Properties. *)

(* Routes of a method that share the way to a segment agree on its name,   *)
(* so that a lookup binds the names of the route it finds, and there is    *)
(* one route for each shape: what Add checks at each segment (trie.go:110, *)
(* trie.go:120) adds up to this, refused Adds and replaced routes included. *)
Coherent ==
  \A a, b \in Split(table) : a[1].method = b[1].method =>
    /\ Compatible(a[2], b[2])
    /\ SameShape(a[2], b[2]) => a[1] = b[1]

(* A registration takes away no route but one of the same method and shape, *)
(* which it replaces (trie.go:142).                                        *)
OnlySameShapeReplaced ==
  [][\A r \in table \ table' : \E q \in table' \ table :
       /\ q.method = r.method
       /\ SameShape(Segments(q.path), Segments(r.path))]_table
============================================================================
