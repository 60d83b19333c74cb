---------------------------- MODULE MCPoolHealth ----------------------------
(* PoolHealth for TLC: two members whose selector is the one the runtime   *)
(* catalog builds, with the tag of the automatic group it gives it.        *)
EXTENDS PoolHealth

CONSTANTS m1, m2, runtimePoolAuto

MCMembers == {m1, m2}
MCChoices == MCMembers \union {runtimePoolAuto, "block"}
=============================================================================
