------------------------------ MODULE MCControl ------------------------------
(* Control for TLC: two requests at a time, one target of either kind.     *)
EXTENDS Control

CONSTANTS r1, r2, node, pool

MCRequests == {r1, r2}
MCNodes == {node}
MCPools == {pool}
MCFaults == {"gsettings", "reply"}
MCNoFaults == {}
=============================================================================
