--------------------------- MODULE MCTrafficPolicy ---------------------------
(* TrafficPolicy for TLC: pools, and the goroutines that update it.        *)
EXTENDS TrafficPolicy

CONSTANTS p1, p2, u1, u2

MCPair == {p1, p2}
MCUpdaters == {u1, u2}
MCUpdater == {u1}
=============================================================================
