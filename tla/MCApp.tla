------------------------------- MODULE MCApp -------------------------------
(* Small instances of App for TLC. *)
EXTENDS App, TLC

CONSTANTS r1, r2, c1, c2

TwoRequests == {r1, r2}
TwoContexts == {c1, c2}

TimedRoutes == {"timed"}
AllRoutes == {"none", "plain", "timed"}
AllOutcomes == {"ok", "err", "httpErr", "panic"}
Returns == {"ok", "err"}
OneMiddleware == {"logger"}
=============================================================================
