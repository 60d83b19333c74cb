----------------------------- MODULE RoutingRules -----------------------------
(***************************************************************************)
(* The rules that subscriptions bring with them, in internal/routing: kept *)
(* in rules.json and in memory, with what the user decided about each.  A  *)
(* rule is identified by its subscription and its source text, so that it  *)
(* keeps the user's decision from one refresh to the next; whether it is   *)
(* supported depends on the rest of the feed too (an outbound it names may *)
(* be gone), so that the same rule may lose its support later.             *)
(*                                                                         *)
(* The rules the user writes are in module RuleOrder.  As in NodePools,    *)
(* RulesBecome is a write that succeeds and RulesKept one that fails.      *)
(***************************************************************************)
EXTENDS NodePools   \* for the names of the subscriptions

CONSTANT Rules   \* sources of imported rules

VARIABLES
  rules,     \* per subscription: all its rules, those supported, those enabled
  ruleFile   \* rules.json

ruleVars == <<rules, ruleFile>>

RuleRecord == [all : SUBSET Rules, ok : SUBSET Rules, on : SUBSET Rules]

RuleTable == [Subs -> RuleRecord]

NoRules == [all |-> {}, ok |-> {}, on |-> {}]

RulesKept == UNCHANGED ruleVars

RulesBecome(table) == rules' = table /\ ruleFile' = table

(* Mutant: a rule stays enabled that is not supported any more.            *)
KeepUnsupported(s, all, ok) ==
  [rules EXCEPT ![s] = [all |-> all, ok |-> ok, on |-> rules[s].on \intersect all]]

(* Mutant: rules that are new to us are enabled.                           *)
EnableNew(s, all, ok) ==
  [rules EXCEPT ![s] = [all |-> all, ok |-> ok,
                        on |-> (rules[s].on \union (all \ rules[s].all)) \intersect ok]]

(* What a feed's rules become: those already known keep what the user      *)
(* decided if they are still supported, the others are disabled.           *)
SyncSubscriptionRules(s, all, ok) ==
  [rules EXCEPT ![s] = [all |-> all, ok |-> ok, on |-> rules[s].on \intersect ok]]

(* Mutant: the rules of the subscription are only disabled.                *)
DisableSubscriptionRules(s) == [rules EXCEPT ![s].on = {}]

DeleteSubscriptionRules(s) == [rules EXCEPT ![s] = NoRules]

(* What the user may decide: an unsupported rule cannot be enabled.        *)
Decisions(s, r) ==
  {[rules EXCEPT ![s].on = on] :
     on \in {rules[s].on \ {r}} \union
             (IF r \in rules[s].ok THEN {rules[s].on \union {r}} ELSE {})}

(* At startup: the rules of the file whose subscription is there.          *)
ReconcileSubscriptionRules(live) ==
  [s \in Subs |-> IF s \in live THEN ruleFile[s] ELSE NoRules]

Enabled(table) == [s \in Subs |-> table[s].on]

(* Compiled refuses to build anything while an enabled rule is not         *)
(* supported.                                                              *)
Compiles(table) == \A s \in Subs : table[s].on \subseteq table[s].ok
=============================================================================
