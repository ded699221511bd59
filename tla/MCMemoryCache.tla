--------------------------- MODULE MCMemoryCache ---------------------------
(* Small instances of MemoryCache for TLC. *)
EXTENDS MemoryCache

CONSTANTS p1, p2, k1, v1

TwoClients == {p1, p2}
OneKey == {k1}
OneValue == {v1}
ForeverOrOne == {0, 1}
=============================================================================
