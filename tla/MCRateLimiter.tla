--------------------------- MODULE MCRateLimiter ---------------------------
(* Small instances of RateLimiter for TLC. *)
EXTENDS RateLimiter

CONSTANTS r1, r2, ip1, port1, port2, b1, b2

TwoRequests == {r1, r2}
OneIP == {ip1}
TwoPorts == {port1, port2}
TwoBuckets == {b1, b2}
=============================================================================
