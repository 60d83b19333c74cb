---------------------------- MODULE MCSupervisor ----------------------------
(* Supervisor for TLC: two callers, as a request handler and the shutdown  *)
(* path, or two requests, and every bound small enough to be exhausted.    *)
EXTENDS Supervisor

CONSTANTS c1, c2

MCCallers == {c1, c2}
=============================================================================
