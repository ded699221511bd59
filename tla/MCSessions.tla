----------------------------- MODULE MCSessions -----------------------------
(* Small instances of Sessions for TLC. *)
EXTENDS Sessions, TLC

CONSTANTS c1, c2, r1, r2, r3, id1, id2

TwoClients == {c1, c2}
TwoRequests == {r1, r2}
ThreeRequests == {r1, r2, r3}
AnyType == {"struct", "map"}
TwoIds == {id1, id2}

Symmetry == Permutations(TwoClients) \cup Permutations(ThreeRequests)
              \cup Permutations(TwoIds)
=============================================================================
