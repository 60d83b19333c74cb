------------------------------ MODULE NodePools ------------------------------
(***************************************************************************)
(* The store of node pools of internal/nodepool: named lists of nodes of   *)
(* the subscriptions, kept in pools.json and in memory.  A member names a  *)
(* node by the identifier of its link, which changes with the name the     *)
(* provider gives the server; nodeIdentity is what ties the old identifier *)
(* to the new one when a refresh replaces the nodes.                       *)
(*                                                                         *)
(* The order of the members, the health options and the views are left     *)
(* out.  Every write goes to a temporary file that is renamed, so that it  *)
(* happens as a whole or not at all: PoolsBecome is a write that succeeds, *)
(* PoolsKept one that fails and is undone in memory.                       *)
(***************************************************************************)
EXTENDS Integers, FiniteSets

CONSTANTS
  Subs,        \* identifiers of subscriptions; random, never used twice
  Nodes,       \* identifiers of nodes
  Pools,       \* identifiers of node pools
  IdentityOf,  \* what nodeIdentity returns for each node
  None         \* no node, no pool, nobody

ASSUME NodePoolsAssumption ==
  /\ DOMAIN IdentityOf = Nodes
  /\ None \notin Subs \union Nodes \union Pools
  /\ None # {} /\ IsFiniteSet(Nodes)

VARIABLES
  pools,     \* m.items: the members of each pool, {None} for no such pool
  poolFile   \* pools.json

poolVars == <<pools, poolFile>>

Members == Subs \X Nodes

Absent == {None}

PoolTable == [Pools -> (SUBSET Members) \union {Absent}]

Stored(p) == pools[p] # Absent

PoolsKept == UNCHANGED poolVars

PoolsBecome(table) == pools' = table /\ poolFile' = table

(* Mutant: members are looked up by identifier alone.                      *)
SuccessorById(n, previous, current) ==
  IF n \in current \/ n \notin previous THEN {n} ELSE {}

(* What a member of the refreshed subscription becomes: itself if the feed *)
(* still has it, else the one current node with the identity of the node   *)
(* it was, else nothing; a member neither list knows is left alone.        *)
Successor(n, previous, current) ==
  LET same == {k \in current : IdentityOf[k] = IdentityOf[n]}
  IN IF n \in current THEN {n}
     ELSE IF n \notin previous THEN {n}
     ELSE IF Cardinality(same) = 1 THEN same ELSE {}

Remapped(ms, s, previous, current) ==
  {m \in ms : m[1] # s} \union
    UNION {{s} \X Successor(m[2], previous, current) : m \in {x \in ms : x[1] = s}}

ReconcileSubscriptionNodes(s, previous, current) ==
  [p \in Pools |-> IF Stored(p) THEN Remapped(pools[p], s, previous, current) ELSE Absent]

DeleteSubscriptionMembers(s) ==
  [p \in Pools |-> IF Stored(p) THEN {m \in pools[p] : m[1] # s} ELSE Absent]

(* At startup: the pools of the file, less the members that do not resolve *)
(* to a node that is there.                                                *)
ReconcileReferences(there) ==
  [p \in Pools |-> IF poolFile[p] = Absent THEN Absent ELSE poolFile[p] \intersect there]
=============================================================================
