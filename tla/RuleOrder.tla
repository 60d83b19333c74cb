------------------------------ MODULE RuleOrder ------------------------------
(***************************************************************************)
(* The order of the rules the user writes and of the rule pools, in        *)
(* internal/routing.  Both lists work alike: an entry has a position, by   *)
(* which a stable sort puts the list in order whenever it is shown or      *)
(* compiled; the slice itself stays in the order of creation.  A change is *)
(* made in memory, saved, and undone if it cannot be saved.                *)
(*                                                                         *)
(* The conditions and the action of a rule, and the rules in a pool, are   *)
(* left out: what matters here is whether an entry counts, and before      *)
(* which others.  Imported rules are in module RoutingRules.               *)
(***************************************************************************)
EXTENDS Integers, FiniteSets, SequencesExt

CONSTANTS
  Entries,    \* identifiers, of rules and of pools
  MaxEntries, \* bound: entries of a list
  MaxRuleOps  \* bound: operations

ASSUME RuleOrderAssumption == MaxEntries \in Nat /\ MaxRuleOps \in Nat

VARIABLES
  list,     \* m.rules, without the imported ones, and m.pools
  file,     \* rules.json and rule-pools.json
  mixed,    \* history: a rejected order has changed positions in memory
  ruleOps

orderVars == <<list, file, mixed, ruleOps>>

Lists == {"rules", "pools"}

Entry == [id : Entries, pos : Nat, on : BOOLEAN]

Ids(s) == {s[i].id : i \in DOMAIN s}

(* sortRules and sortRulePools: who comes before whom.                     *)
Before(s) ==
  {<<s[p[1]].id, s[p[2]].id>> : p \in
     {q \in (DOMAIN s) \X (DOMAIN s) :
        \/ s[q[1]].pos < s[q[2]].pos
        \/ s[q[1]].pos = s[q[2]].pos /\ q[1] < q[2]}}

(* Compiled: the rules that are enabled, then the pools that are.          *)
On(s) == {s[i].id : i \in {k \in DOMAIN s : s[k].on}}

Compiled ==
  [before |-> [l \in Lists |-> Before(list[l]) \intersect (On(list[l]) \X On(list[l]))],
   on |-> [l \in Lists |-> On(list[l])]]

Distinct(s) == \A i, j \in DOMAIN s : s[i].pos = s[j].pos => i = j

(* nextManualPositionLocked and nextPoolPositionLocked.                    *)
NextPosition(s) ==
  IF s = <<>> THEN 0
  ELSE 1 + (CHOOSE p \in {s[i].pos : i \in DOMAIN s} : \A i \in DOMAIN s : s[i].pos <= p)

(* Mutant: positions are given out in the order of the slice.              *)
Renumbered(s) == {[i \in DOMAIN s |-> [s[i] EXCEPT !.pos = i - 1]]}

(* normalizeManualPositionsLocked, normalizePoolPositionsLocked: positions *)
(* from 0 on, by a sort that leaves equal ones in any order.               *)
Normalised(s) ==
  {[i \in DOMAIN s |-> [s[i] EXCEPT !.pos = f[i]]] :
     f \in {g \in [DOMAIN s -> 0..(Len(s) - 1)] :
              \A i, j \in DOMAIN s : (i # j => g[i] # g[j]) /\ (s[i].pos < s[j].pos => g[i] < g[j])}}

-----------------------------------------------------------------------------
(* Mutant: a change that cannot be saved stays in memory.                  *)
AltersMemory(l, new) ==
  /\ ruleOps < MaxRuleOps /\ ruleOps' = ruleOps + 1
  /\ list' = [list EXCEPT ![l] = new]
  /\ file' \in {file, [file EXCEPT ![l] = new]}

(* A change that is saved, or is undone because it cannot be.              *)
Alters(l, new) ==
  /\ ruleOps < MaxRuleOps /\ ruleOps' = ruleOps + 1
  /\ \/ list' = [list EXCEPT ![l] = new] /\ file' = [file EXCEPT ![l] = new]
     \/ UNCHANGED <<list, file>>

AddsTo(l, id, on) ==
  /\ id \notin Ids(list[l]) /\ Len(list[l]) < MaxEntries
  /\ Alters(l, Append(list[l], [id |-> id, pos |-> NextPosition(list[l]), on |-> on]))
  /\ UNCHANGED mixed

Toggles(l, i) ==
  /\ i \in DOMAIN list[l]
  /\ Alters(l, [list[l] EXCEPT ![i].on = ~@])
  /\ UNCHANGED mixed

RemovesFrom(l, i) ==
  /\ i \in DOMAIN list[l]
  /\ \E new \in Normalised(RemoveAt(list[l], i)) : Alters(l, new)
  /\ UNCHANGED mixed

(* The positions up to the first identifier that is unknown or has been    *)
(* seen are assigned already when the order is rejected.                   *)
Accepted(l, ids) ==
  CHOOSE n \in 0..Len(ids) :
    /\ \A k \in 1..n : ids[k] \in Ids(list[l]) /\ \A j \in 1..(k - 1) : ids[j] # ids[k]
    /\ n = Len(ids) \/ ids[n + 1] \notin Ids(list[l]) \/ \E j \in 1..n : ids[j] = ids[n + 1]

Positioned(l, ids, n) ==
  [i \in DOMAIN list[l] |->
    IF \E k \in 1..n : ids[k] = list[l][i].id
    THEN [list[l][i] EXCEPT !.pos = (CHOOSE k \in 1..n : ids[k] = list[l][i].id) - 1]
    ELSE list[l][i]]

Orders(l, ids) ==
  LET n == Accepted(l, ids)
      new == Positioned(l, ids, n)
  IN /\ Len(ids) = Len(list[l])
     /\ IF n = Len(ids)
        THEN /\ Alters(l, new)
             /\ mixed' = IF list'[l] = new /\ file'[l] = new THEN mixed \ {l} ELSE mixed
        ELSE /\ ruleOps < MaxRuleOps /\ ruleOps' = ruleOps + 1
             /\ list' = [list EXCEPT ![l] = new]
             /\ mixed' = IF new = list[l] THEN mixed ELSE mixed \union {l}
             /\ UNCHANGED file

Create(id, on) == AddsTo("rules", id, on)
CreatePool(id, on) == AddsTo("pools", id, on)
Update(i) == Toggles("rules", i)
UpdatePool(i) == Toggles("pools", i)
Delete(i) == RemovesFrom("rules", i)
DeletePool(i) == RemovesFrom("pools", i)
Reorder(ids) == Orders("rules", ids)
ReorderPools(ids) == Orders("pools", ids)

(* load, when the program starts again.                                    *)
Loads ==
  /\ ruleOps < MaxRuleOps /\ ruleOps' = ruleOps + 1
  /\ list' = file /\ UNCHANGED file
  /\ mixed' = {l \in mixed : ~Distinct(file[l])}

-----------------------------------------------------------------------------
OrderInit ==
  /\ list = [l \in Lists |-> <<>>] /\ file = list
  /\ mixed = {} /\ ruleOps = 0

Orderings == UNION {[1..n -> Entries] : n \in 0..MaxEntries}

OrderNext ==
  \/ \E id \in Entries, on \in BOOLEAN : Create(id, on) \/ CreatePool(id, on)
  \/ \E i \in 1..MaxEntries : Update(i) \/ UpdatePool(i) \/ Delete(i) \/ DeletePool(i)
  \/ \E ids \in Orderings : Reorder(ids) \/ ReorderPools(ids)
  \/ Loads

OrderSpec == OrderInit /\ [][OrderNext]_orderVars

-----------------------------------------------------------------------------
(* Types of the lists; no entry is there twice, and unless an order was    *)
(* rejected half way no two have the same position and memory is what the  *)
(* file says.                                                              *)
OrderTypeOK ==
  /\ \A l \in Lists :
       /\ list[l] \in Seq(Entry) /\ file[l] \in Seq(Entry)
       /\ Cardinality(Ids(list[l])) = Len(list[l])
       /\ l \notin mixed => /\ list[l] = file[l]
                            /\ Distinct(list[l])
  /\ mixed \subseteq Lists /\ ruleOps \in 0..MaxRuleOps

(* Only Reorder changes which of two entries comes first: whatever is      *)
(* created, removed, switched, cannot be saved or is loaded again, what is *)
(* compiled has the rules in the order the user gave them; new ones come   *)
(* last.  A rejected order may have mixed them up before.                  *)
PrecedenceKept ==
  [][\A l \in Lists :
       \/ /\ Before(list[l]) \intersect (Ids(list'[l]) \X Ids(list'[l])) \subseteq Before(list'[l])
          /\ (Ids(list[l]) \intersect Ids(list'[l])) \X (Ids(list'[l]) \ Ids(list[l]))
               \subseteq Before(list'[l])
       \/ l \in mixed \union mixed'
       \/ \E ids \in Orderings : Orders(l, ids)]_orderVars
=============================================================================
