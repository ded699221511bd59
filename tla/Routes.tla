------------------------------ MODULE Routes ------------------------------
(***************************************************************************)
(* Paths, patterns and sets of routes: what it means for a pattern to      *)
(* match a path, for one route to shadow another under "Static > Param >   *)
(* Wildcard", and for a router to accept and to find a route.              *)
(*                                                                         *)
(* A path is a list of segments [form, text]: "plain" is literal text,     *)
(* "colon" and "brace" are the spellings :text and {text} of a parameter,  *)
(* "star" is *text, "empty" is what two adjacent slashes enclose.          *)
(***************************************************************************)
EXTENDS Naturals, Sequences, FiniteSets

(* The k-th smallest of a set of positions, and the elements of a list at  *)
(* such positions, in order.                                               *)
Nth(places, k) ==
  CHOOSE i \in places : Cardinality({j \in places : j <= i}) = k
Chosen(list, places) == [k \in 1..Cardinality(places) |-> list[Nth(places, k)]]

NonEmpty(s) == s.form # "empty"
Filled(path) == {i \in 1..Len(path) : NonEmpty(path[i])}
Segments(path) == Chosen(path, Filled(path))

Kind(s) == IF s.form \in {"colon", "brace"} THEN "param"
           ELSE IF s.form = "star" THEN "catchAll" ELSE "static"
Edge(s) == <<Kind(s), IF Kind(s) = "static" THEN s.text ELSE "">>
Name(s) == IF Kind(s) = "static" THEN "" ELSE s.text
Rank(s) == IF Kind(s) = "static" THEN 3 ELSE IF Kind(s) = "param" THEN 2 ELSE 1

SameUpTo(p, q, n) ==
  /\ n <= Len(p) /\ n <= Len(q)
  /\ \A i \in 1..n : Edge(p[i]) = Edge(q[i])
SameShape(p, q) == Len(p) = Len(q) /\ SameUpTo(p, q, Len(p))

(* Paths that agree on the way to a segment agree on the segment's name.   *)
Compatible(p, q) ==
  \A i \in 1..Len(p) : SameUpTo(p, q, i) => Name(p[i]) = Name(q[i])

----------------------------------------------------------------------------
(* Matching a pattern p against a path t; both are segment lists, t with   *)
(* its empty segments, which only a catch-all sees: parts is t without.    *)

Fits(s, part) == Kind(s) = "static" => s.text = part.text
EndsInCatchAll(p) == p # << >> /\ Kind(p[Len(p)]) = "catchAll"
Exact(p) == IF EndsInCatchAll(p) THEN Len(p) - 1 ELSE Len(p)

Matches(p, parts) ==
  /\ \A i \in 1..Exact(p) : Kind(p[i]) # "catchAll"
  /\ Len(parts) >= Exact(p)
  /\ Len(parts) > Exact(p) => EndsInCatchAll(p)
  /\ \A i \in 1..Exact(p) : Fits(p[i], parts[i])

(* The part of t from its n-th non-empty segment on. *)
From(t, n) ==
  IF n > Cardinality(Filled(t)) THEN << >> ELSE SubSeq(t, Nth(Filled(t), n), Len(t))

Value(p, t, i) ==
  IF Kind(p[i]) = "catchAll" THEN From(t, i) ELSE <<Segments(t)[i]>>

Named(p) == {i \in 1..Len(p) : Kind(p[i]) # "static"}
Bindings(p, t) ==
  Chosen([i \in 1..Len(p) |-> <<p[i].text, Value(p, t, i)>>], Named(p))

(* q leads the walk away from p at segment i, or ends where p would take   *)
(* the empty remainder.                                                    *)
Shadows(q, p, parts) ==
  \/ \E i \in 1..Len(p) :
       /\ i <= Len(parts) /\ i <= Len(q)
       /\ SameUpTo(p, q, i - 1)
       /\ Rank(q[i]) > Rank(p[i])
       /\ Fits(q[i], parts[i])
  \/ /\ Len(p) = Len(parts) + 1
     /\ Len(q) = Len(parts)
     /\ SameUpTo(p, q, Len(q))

Trimmed(path) ==
  IF path # << >> /\ ~NonEmpty(path[Len(path)])
    THEN SubSeq(path, 1, Len(path) - 1) ELSE path

----------------------------------------------------------------------------
(* A set of routes tbl, one for each method and shape of path. *)

Rivals(tbl, method) == {r \in tbl : r.method = method}

Accepts(tbl, method, path) ==
  LET p == Segments(path)
  IN  \A r \in Rivals(tbl, method) : Compatible(p, Segments(r.path))

(* The last registration of a shape wins. *)
Registered(tbl, new) ==
  {r \in tbl : ~(r.method = new.method
                /\ SameShape(Segments(new.path), Segments(r.path)))} \cup {new}

(* The routes of a table with their segments. *)
Split(tbl) == {<<r, Segments(r.path)>> : r \in tbl}

Reachable(tbl, method, t) ==
  LET rivals == Split(Rivals(tbl, method))
      parts == Segments(t)
  IN  {a[1] : a \in {b \in rivals :
         /\ Matches(b[2], parts)
         /\ \A c \in rivals : ~Shadows(c[2], b[2], parts)}}
============================================================================
