----------------------------- MODULE CatalogProofs -----------------------------
(***************************************************************************)
(* What module Catalog checks on a small instance, proved for any number   *)
(* of subscriptions, nodes, pools, rules and requests: the types, the      *)
(* choice of subscription and node, that nothing dangles, that the rules   *)
(* are in force and that the user's decisions survive; and, where the      *)
(* identity of a node tells its server (IdentityTells), that the members   *)
(* of pools follow the servers.                                            *)
(*                                                                         *)
(* Only RulesInForce is about what the stores hold when everybody is       *)
(* quiet; the others hold between any two steps of any requests.  What     *)
(* makes them inductive is CatalogInv: who is where with which lock        *)
(* (RequestInv), which request answers for a member that dangles           *)
(* (MembersInv), and which for rules that are not in force yet (ForceInv). *)
(* What a request that is storing a pool holds is StoreInv.                *)
(***************************************************************************)
EXTENDS Catalog, FiniteSetTheorems, TLAPS

(* A refresh that has the lock, and every request about a subscription.    *)
Owning == {"fetch", "pools", "rules"}
Named == Owning \union {"lock", "undo", "drop", "dropPools", "dropRules"}

(* What a request may rely on where it is: a refresh on its subscription   *)
(* being there, since nobody else has the lock, and on the feed it has     *)
(* installed; Delete on its being gone for good; who starts a core has the *)
(* operation mutex.                                                        *)
RequestOK(q) ==
  LET r == req[q] IN
    /\ r.op = "create" => r.s \in Subs /\ subs[r.s].state # "new"
    /\ r.at \in Named => r.s \in Subs /\ subs[r.s].state # "new"
    /\ r.at \in Owning => lock[r.s] = q /\ r.s \in Live
    /\ r.at \in {"pools", "rules"} => subs[r.s].feed # None
    /\ r.at \in {"dropPools", "dropRules"} => r.s \notin Live
    /\ r.at = "store" => r.p \in Pools
    /\ r.at = "start" <=> opMu = q

RequestInv == \A q \in Requests : RequestOK(q)

(* A member is there, or a request is about to put it right: the Delete    *)
(* that removes it, or the refresh that knew it under its old name; or one *)
(* of them has failed.                                                     *)
Excused(m) ==
  \/ m \in There(subs)
  \/ <<m[1], "members">> \in uncleaned
  \/ \E q \in Requests : req[q].s = m[1] /\ req[q].at = "dropPools"
  \/ \E q \in Requests : req[q].s = m[1] /\ req[q].at = "pools" /\ m[2] \in req[q].prev

MembersInv == \A k \in Pools : Stored(k) => \A m \in pools[k] : Excused(m)

OrphansInv ==
  \A s \in Subs \ Live :
    rules[s] = NoRules \/ <<s, "rules">> \in uncleaned \/ Pending(s, {"dropPools", "dropRules"})

(* Whoever has changed the rules is on its way to reload, or whoever is    *)
(* about to start a core has compiled the rules as they are.               *)
ToReload == \E q \in Requests : req[q].at = "reload"

ForceInv ==
  /\ \A q \in Requests : req[q].at = "start" => plan.on = Enabled(rules) \/ ToReload
  /\ core.state # "off" /\ ~stale =>
       core.on = Enabled(rules) \/ ToReload \/ \E q \in Requests : req[q].at = "start"

-----------------------------------------------------------------------------
(* The table of subscriptions after each of the writes.                    *)

LEMMA RecordType ==
  ASSUME subs \in SubTable, NEW s \in Subs
  PROVE  /\ subs[s] \in SubRecord
         /\ subs[s].state \in {"new", "live", "gone"} /\ subs[s].feed \in Feeds \union {None}
         /\ subs[s].manual \subseteq Nodes /\ subs[s].selected \in Nodes \union {None}
         /\ subs[s].active \in BOOLEAN /\ subs[s].name \in {"first", "edited"}
BY DEF SubTable, SubRecord

LEMMA NodesInType ==
  ASSUME NEW r \in SubRecord
  PROVE  NodesIn(r) \subseteq Nodes
BY SubscriptionsAssumption DEF NodesIn, SubRecord

(* A record that is not in use is a new one, but for its state.            *)
Blank(r) ==
  r.feed = None /\ r.manual = {} /\ r.selected = None /\ ~r.active /\ r.name = "first"

Chosen(r) ==
  /\ r.selected \in NodesIn(r) \union {None}
  /\ NodesIn(r) # {} => r.selected # None

Valid(table) ==
  /\ \A s \in Subs : IF table[s].state = "live" THEN Chosen(table[s]) ELSE Blank(table[s])
  /\ \A s, t \in Subs : table[s].active /\ table[t].active => s = t
  /\ (\E s \in Subs : table[s].state = "live") => \E s \in Subs : table[s].active

LEMMA BlankIs ==
  ASSUME NEW r \in SubRecord
  PROVE  r = [NewSub EXCEPT !.state = r.state] <=> Blank(r)
<1> DEFINE n == [NewSub EXCEPT !.state = r.state]
<1>1. NewSub \in SubRecord
  BY DEF NewSub, SubRecord
<1>2. n \in SubRecord /\ n.state = r.state
  BY <1>1 DEF SubRecord
<1>3. Blank(n)
  BY DEF Blank, NewSub
<1> HIDE DEF n
<1>4. n.active \in BOOLEAN /\ r.active \in BOOLEAN
  BY <1>2 DEF SubRecord
<1>5. Blank(r) => (n.active <=> r.active)
  BY <1>3, Zenon DEF Blank
<1>6. Blank(r) => r = n
  BY <1>2, <1>3, <1>4, <1>5 DEF Blank, SubRecord
<1> QED BY <1>3, <1>6 DEF n

LEMMA ValidIs ==
  ASSUME NEW table \in SubTable
  PROVE  ValidSubs(table) <=> Valid(table)
<1>1. \A s \in Subs : table[s] \in SubRecord
  BY DEF SubTable
<1>2. \A s \in Subs : table[s] = [NewSub EXCEPT !.state = table[s].state] <=> Blank(table[s])
  BY <1>1, BlankIs
<1>3. LiveIn(table) # {} <=> \E s \in Subs : table[s].state = "live"
  BY DEF LiveIn
<1> QED BY <1>2, <1>3 DEF ValidSubs, Valid, Chosen

LEMMA Created ==
  ASSUME subs \in SubTable, Valid(subs), NEW s \in Subs, subs[s].state = "new",
         NEW table \in SubTable, \A x \in Subs : x # s => table[x] = subs[x],
         table[s].state = "live", table[s].active <=> Live = {},
         table[s].feed = None, table[s].manual = {}, table[s].selected = None
  PROVE  Valid(table) /\ NodesIn(table[s]) = {}
<1>1. Blank(subs[s])
  BY DEF Valid
<1>2. NodesIn(table[s]) = {}
  BY DEF NodesIn
<1>3. Live = {} <=> \A x \in Subs : subs[x].state # "live"
  BY DEF Live, LiveIn
<1>4. \A x, y \in Subs : table[x].active /\ table[y].active => x = y
  <2>1. CASE Live = {}
    <3>1. \A x \in Subs : ~subs[x].active
      BY <1>3, <2>1 DEF Valid, Blank
    <3> QED BY <3>1
  <2>2. CASE Live # {}
    <3>1. ~table[s].active
      BY <2>2
    <3> QED BY <3>1 DEF Valid
  <2> QED BY <2>1, <2>2
<1>5. \E x \in Subs : table[x].active
  BY <1>1, <1>3 DEF Valid, Blank
<1>6. Valid(table)
  <2>1. Chosen(table[s])
    BY <1>2 DEF Chosen
  <2>2. ASSUME NEW x \in Subs
        PROVE IF table[x].state = "live" THEN Chosen(table[x]) ELSE Blank(table[x])
    BY <2>1 DEF Valid
  <2> QED BY <1>4, <1>5, <2>2 DEF Valid
<1> QED BY <1>2, <1>6

(* What a table says of which nodes there are.                             *)
SameNodes(table, s) ==
  /\ table[s].state = subs[s].state /\ table[s].feed = subs[s].feed
  /\ table[s].manual = subs[s].manual

LEMMA Replaced ==
  ASSUME NEW t \in SubTable, Valid(t), NEW s \in Subs, t[s].state = "live",
         NEW table \in SubTable, \A x \in Subs : x # s => table[x] = t[x],
         table[s].state = "live", table[s].active <=> t[s].active, Chosen(table[s])
  PROVE  Valid(table)
<1>1. \A x \in Subs : /\ table[x].active <=> t[x].active
                      /\ table[x].state = t[x].state
  OBVIOUS
<1>2. \A x \in Subs : IF table[x].state = "live" THEN Chosen(table[x]) ELSE Blank(table[x])
  BY DEF Valid
<1> QED BY <1>1, <1>2 DEF Valid

Fed(s, f) == [subs[s] EXCEPT !.feed = f]

Feeding(s, f, n) == [subs EXCEPT ![s] = [Fed(s, f) EXCEPT !.selected = n]]

LEMMA Installed ==
  ASSUME subs \in SubTable, Valid(subs), NEW s \in Subs, subs[s].state = "live",
         NEW f \in Feeds, NEW n \in NodesIn(Fed(s, f))
  PROVE  /\ Feeding(s, f, n) \in SubTable /\ Valid(Feeding(s, f, n))
         /\ \A x \in Subs : x # s => Feeding(s, f, n)[x] = subs[x]
         /\ Feeding(s, f, n)[s].state = "live" /\ Feeding(s, f, n)[s].feed = f
<1> DEFINE mid == Fed(s, f)
           table == Feeding(s, f, n)
           new == [mid EXCEPT !.selected = n]
<1>1. subs[s] \in SubRecord
  BY DEF SubTable
<1>2. mid \in SubRecord
  BY <1>1 DEF SubRecord, Fed
<1>3. n \in Nodes
  BY <1>2, NodesInType
<1>4. /\ new \in SubRecord /\ new.state = "live" /\ (new.active <=> subs[s].active)
      /\ new.feed = f /\ mid.feed = f /\ mid.manual = new.manual /\ new.selected = n
  BY <1>1, <1>3 DEF SubRecord, Fed
<1>5. table[s] = new /\ table = [x \in Subs |-> table[x]]
  BY DEF SubTable, Feeding
<1>6. n \in NodesIn(new)
  BY <1>4 DEF NodesIn
<1>7. \A x \in Subs : x # s => table[x] = subs[x]
  BY DEF SubTable, Feeding
<1> HIDE DEF mid, new, table
<1>8. table \in SubTable
  <2>1. \A x \in Subs : table[x] \in SubRecord
    BY <1>4, <1>5, <1>7 DEF SubTable
  <2> QED BY <1>5, <2>1 DEF SubTable
<1>9. Chosen(table[s])
  <2>1. n # None
    BY <1>3, NodePoolsAssumption
  <2> QED BY <1>4, <1>5, <1>6, <2>1 DEF Chosen
<1>10. table[s].state = "live" /\ (table[s].active <=> subs[s].active) /\ table[s].feed = f
  BY <1>4, <1>5
<1>11. Valid(table)
  BY <1>7, <1>8, <1>9, <1>10, Replaced
<1> QED BY <1>7, <1>8, <1>10, <1>11 DEF table

LEMMA Imported ==
  ASSUME subs \in SubTable, Valid(subs), NEW s \in Subs, subs[s].state = "live", NEW n \in Nodes,
         NEW table, table = [subs EXCEPT ![s].manual = @ \union {n},
                                         ![s].selected = IF @ = None THEN n ELSE @]
  PROVE  /\ table \in SubTable /\ Valid(table)
         /\ \A x \in Subs : x # s => table[x] = subs[x]
         /\ table[s].state = "live" /\ table[s].feed = subs[s].feed
         /\ NodesIn(subs[s]) \subseteq NodesIn(table[s])
<1> DEFINE old == subs[s]
           new == [old EXCEPT !.manual = old.manual \union {n},
                              !.selected = IF old.selected = None THEN n ELSE old.selected]
<1>1. old \in SubRecord
  BY DEF SubTable
<1>2. /\ new \in SubRecord /\ new.state = "live" /\ (new.active <=> old.active)
      /\ new.feed = old.feed /\ new.manual = old.manual \union {n}
      /\ new.selected = IF old.selected = None THEN n ELSE old.selected
  BY <1>1 DEF SubRecord
<1>3. table[s] = new
  BY DEF SubTable
<1> HIDE DEF new
<1>4. \A x \in Subs : x # s => table[x] = subs[x]
  BY DEF SubTable
<1>5. table \in SubTable
  <2>1. table = [x \in Subs |-> table[x]]
    BY DEF SubTable
  <2>2. \A x \in Subs : table[x] \in SubRecord
    BY <1>2, <1>3, <1>4 DEF SubTable
  <2> QED BY <2>1, <2>2 DEF SubTable
<1>6. NodesIn(new) = NodesIn(old) \union {n}
  BY <1>2 DEF NodesIn
<1>7. Chosen(table[s])
  <2>1. n # None
    BY NodePoolsAssumption
  <2>2. old.selected \in NodesIn(old) \union {None}
    BY DEF Valid, Chosen
  <2> QED BY <1>2, <1>3, <1>6, <2>1, <2>2 DEF Chosen
<1> QED BY <1>2, <1>3, <1>4, <1>5, <1>6, <1>7, Replaced

LEMMA Selected ==
  ASSUME NEW t \in SubTable, Valid(t), NEW s \in Subs, t[s].state = "live", NEW n \in NodesIn(t[s])
  PROVE  /\ Selecting(t, s, n) \in SubTable /\ Valid(Selecting(t, s, n))
         /\ \A x \in Subs : /\ Selecting(t, s, n)[x].state = t[x].state
                            /\ Selecting(t, s, n)[x].feed = t[x].feed
                            /\ Selecting(t, s, n)[x].manual = t[x].manual
<1> DEFINE new == [t[s] EXCEPT !.selected = n]
           table == Selecting(t, s, n)
<1>1. t[s] \in SubRecord
  BY DEF SubTable
<1>2. n \in Nodes
  BY <1>1, NodesInType
<1>3. /\ new \in SubRecord /\ new.state = "live" /\ (new.active <=> t[s].active)
      /\ new.feed = t[s].feed /\ new.manual = t[s].manual /\ new.selected = n
  BY <1>1, <1>2 DEF SubRecord
<1>4. table[s] = new /\ \A x \in Subs : x # s => table[x] = t[x]
  BY DEF SubTable, Selecting
<1>5. table = [x \in Subs |-> table[x]]
  BY DEF SubTable, Selecting
<1> HIDE DEF new, table
<1>6. table \in SubTable
  <2>1. \A x \in Subs : table[x] \in SubRecord
    BY <1>3, <1>4 DEF SubTable
  <2> QED BY <1>5, <2>1 DEF SubTable
<1>7. Chosen(table[s])
  <2>1. n # None
    BY <1>2, NodePoolsAssumption
  <2>2. n \in NodesIn(new)
    BY <1>3 DEF NodesIn
  <2> QED BY <1>3, <1>4, <2>1, <2>2 DEF Chosen
<1> QED BY <1>3, <1>4, <1>6, <1>7, Replaced DEF table

LEMMA SetActive ==
  ASSUME NEW r \in SubRecord, NEW b \in BOOLEAN, NEW q, q = [r EXCEPT !.active = b]
  PROVE  /\ q \in SubRecord /\ (q.active <=> b)
         /\ q.state = r.state /\ q.feed = r.feed /\ q.manual = r.manual
         /\ q.selected = r.selected /\ q.name = r.name
BY DEF SubRecord

LEMMA Activated ==
  ASSUME NEW t \in SubTable, Valid(t), NEW s \in Subs, t[s].state = "live"
  PROVE  /\ Activating(t, s) \in SubTable /\ Valid(Activating(t, s))
         /\ \A x \in Subs : /\ Activating(t, s)[x].state = t[x].state
                            /\ Activating(t, s)[x].feed = t[x].feed
                            /\ Activating(t, s)[x].manual = t[x].manual
<1> DEFINE table == Activating(t, s)
<1>1. \A x \in Subs : t[x] \in SubRecord
  BY DEF SubTable
<1>2. \A x \in Subs : table[x] = [t[x] EXCEPT !.active = (x = s)]
  BY DEF Activating
<1>3. ASSUME NEW x \in Subs
      PROVE  /\ table[x] \in SubRecord /\ (table[x].active <=> x = s)
             /\ table[x].state = t[x].state /\ table[x].feed = t[x].feed
             /\ table[x].manual = t[x].manual /\ table[x].selected = t[x].selected
             /\ table[x].name = t[x].name
  <2>1. CASE x = s
    <3>1. table[x] = [t[x] EXCEPT !.active = TRUE]
      BY <1>2, <2>1
    <3>2. /\ table[x] \in SubRecord /\ table[x].active
          /\ table[x].state = t[x].state /\ table[x].feed = t[x].feed
          /\ table[x].manual = t[x].manual /\ table[x].selected = t[x].selected
          /\ table[x].name = t[x].name
      BY <1>1, <3>1, SetActive
    <3> QED BY <2>1, <3>2
  <2>2. CASE x # s
    <3>1. table[x] = [t[x] EXCEPT !.active = FALSE]
      BY <1>2, <2>2
    <3> QED BY <1>1, <2>2, <3>1, SetActive
  <2> QED BY <2>1, <2>2
<1>4. table = [x \in Subs |-> table[x]]
  BY DEF Activating
<1> HIDE DEF table
<1>5. table \in SubTable
  BY <1>3, <1>4 DEF SubTable
<1>6. ASSUME NEW x \in Subs
      PROVE IF table[x].state = "live" THEN Chosen(table[x]) ELSE Blank(table[x])
  <2>1. NodesIn(table[x]) = NodesIn(t[x])
    BY <1>3 DEF NodesIn
  <2>2. CASE t[x].state = "live"
    BY <1>3, <2>1, <2>2 DEF Valid, Chosen
  <2>3. CASE t[x].state # "live"
    BY <1>3, <2>3 DEF Valid, Blank
  <2> QED BY <2>2, <2>3
<1>7. Valid(table)
  BY <1>3, <1>6 DEF Valid
<1> QED BY <1>3, <1>5, <1>7 DEF table

LEMMA Edited ==
  ASSUME subs \in SubTable, Valid(subs), NEW s \in Subs, subs[s].state = "live"
  PROVE  LET table == [subs EXCEPT ![s].name = "edited"]
         IN  table \in SubTable /\ Valid(table) /\ \A x \in Subs : SameNodes(table, x)
<1> DEFINE table == [subs EXCEPT ![s].name = "edited"]
           new == [subs[s] EXCEPT !.name = "edited"]
<1>1. subs[s] \in SubRecord
  BY DEF SubTable
<1>2. /\ new \in SubRecord /\ new.state = "live" /\ (new.active <=> subs[s].active)
      /\ new.feed = subs[s].feed /\ new.manual = subs[s].manual /\ new.selected = subs[s].selected
  BY <1>1 DEF SubRecord
<1>3. table[s] = new /\ \A x \in Subs : x # s => table[x] = subs[x]
  BY DEF SubTable
<1>4. table = [x \in Subs |-> table[x]]
  BY DEF SubTable
<1> HIDE DEF new, table
<1>5. table \in SubTable
  <2>1. \A x \in Subs : table[x] \in SubRecord
    BY <1>2, <1>3 DEF SubTable
  <2> QED BY <1>4, <2>1 DEF SubTable
<1>6. Chosen(table[s])
  <2>1. NodesIn(new) = NodesIn(subs[s])
    BY <1>2 DEF NodesIn
  <2> QED BY <1>2, <1>3, <2>1 DEF Chosen, Valid
<1>7. \A x \in Subs : SameNodes(table, x)
  BY <1>2, <1>3 DEF SameNodes
<1> QED BY <1>2, <1>3, <1>5, <1>6, <1>7, Replaced DEF table

LEMMA Removed ==
  ASSUME subs \in SubTable, Valid(subs), NEW s \in Subs, subs[s].state = "live", NEW heir,
         IF Live \ {s} = {} THEN heir = None ELSE heir \in Live \ {s}
  PROVE  /\ Without(s, heir) \in SubTable /\ Valid(Without(s, heir))
         /\ Without(s, heir)[s].state = "gone"
         /\ \A x \in Subs : x # s => SameNodes(Without(s, heir), x)
<1> DEFINE table == Without(s, heir)
<1>1. \A x \in Subs : subs[x] \in SubRecord
  BY DEF SubTable
<1>2. /\ table[s] \in SubRecord /\ table[s].state = "gone" /\ Blank(table[s])
  BY DEF Without, NewSub, SubRecord, Blank
<1>3. \A x \in Subs : x # s =>
        table[x] = [subs[x] EXCEPT !.active = subs[x].active \/ (subs[s].active /\ x = heir)]
  BY <1>1 DEF Without
<1>4. ASSUME NEW x \in Subs, x # s
      PROVE  /\ table[x] \in SubRecord
             /\ table[x].active <=> subs[x].active \/ (subs[s].active /\ x = heir)
             /\ table[x].state = subs[x].state /\ table[x].feed = subs[x].feed
             /\ table[x].manual = subs[x].manual /\ table[x].selected = subs[x].selected
             /\ table[x].name = subs[x].name
  <2>1. CASE subs[x].active \/ (subs[s].active /\ x = heir)
    <3>1. table[x] = [subs[x] EXCEPT !.active = TRUE] /\ subs[x] \in SubRecord
      BY <1>1, <1>3, <1>4, <2>1
    <3>2. /\ table[x] \in SubRecord /\ table[x].active
          /\ table[x].state = subs[x].state /\ table[x].feed = subs[x].feed
          /\ table[x].manual = subs[x].manual /\ table[x].selected = subs[x].selected
          /\ table[x].name = subs[x].name
      BY <3>1, SetActive
    <3> QED BY <2>1, <3>2
  <2>2. CASE ~ (subs[x].active \/ (subs[s].active /\ x = heir))
    <3>1. table[x] = [subs[x] EXCEPT !.active = FALSE] /\ subs[x] \in SubRecord
      BY <1>1, <1>3, <1>4, <2>2
    <3>2. /\ table[x] \in SubRecord /\ ~table[x].active
          /\ table[x].state = subs[x].state /\ table[x].feed = subs[x].feed
          /\ table[x].manual = subs[x].manual /\ table[x].selected = subs[x].selected
          /\ table[x].name = subs[x].name
      BY <3>1, SetActive
    <3> QED BY <2>2, <3>2
  <2> QED BY <2>1, <2>2
<1>5. table = [x \in Subs |-> table[x]]
  BY DEF Without
<1> HIDE DEF table
<1>6. table \in SubTable
  BY <1>2, <1>4, <1>5 DEF SubTable
<1>7. heir \in Subs => heir \in Live \ {s}
  BY NodePoolsAssumption DEF Live, LiveIn
<1>8. ASSUME NEW x \in Subs
      PROVE IF table[x].state = "live" THEN Chosen(table[x]) ELSE Blank(table[x])
  <2>1. CASE x = s
    BY <1>2, <2>1
  <2>2. CASE x # s /\ subs[x].state = "live"
    <3>1. NodesIn(table[x]) = NodesIn(subs[x])
      BY <1>4, <2>2 DEF NodesIn
    <3> QED BY <1>4, <2>2, <3>1 DEF Valid, Chosen
  <2>3. CASE x # s /\ subs[x].state # "live"
    <3>1. x # heir
      BY <1>7, <2>3 DEF Live, LiveIn
    <3> QED BY <1>4, <2>3, <3>1 DEF Valid, Blank
  <2> QED BY <2>1, <2>2, <2>3
<1>9. \A x, y \in Subs : table[x].active /\ table[y].active => x = y
  <2>1. ~table[s].active
    BY <1>2 DEF Blank
  <2> QED BY <1>4, <2>1 DEF Valid
<1>10. ASSUME NEW x \in Subs, table[x].state = "live" PROVE \E y \in Subs : table[y].active
  <2>1. x # s /\ subs[x].state = "live"
    BY <1>2, <1>4, <1>10
  <2>2. heir \in Subs /\ heir # s
    BY <2>1 DEF Live, LiveIn
  <2>3. PICK y \in Subs : subs[y].active
    BY <2>1 DEF Valid
  <2>4. CASE y = s
    BY <1>4, <2>2, <2>3, <2>4
  <2>5. CASE y # s
    BY <1>4, <2>3, <2>5
  <2> QED BY <2>4, <2>5
<1>11. Valid(table)
  BY <1>8, <1>9, <1>10 DEF Valid
<1>12. \A x \in Subs : x # s => SameNodes(table, x)
  BY <1>4 DEF SameNodes
<1> QED BY <1>2, <1>6, <1>11, <1>12 DEF table

-----------------------------------------------------------------------------
(* The requests and the refresh locks.                                     *)

RequestType == req \in [Requests -> Request] /\ lock \in [Subs -> Requests \union {None}]

Others(q) == \A r \in Requests : r # q => req'[r] = req[r]

(* A request of which only the place and such things change.               *)
To(q, at) ==
  req'[q].at = at /\ req'[q].op = req[q].op /\ req'[q].s = req[q].s /\ req'[q].p = req[q].p

LEMMA RequestFields ==
  ASSUME RequestType, NEW q \in Requests
  PROVE  /\ req[q] \in Request /\ Idle \in Request
         /\ req[q].op \in Ops /\ req[q].at \in Places /\ req[q].s \in Subs \union {None}
         /\ req[q].prev \subseteq Nodes /\ req[q].p \in Pools \union {None}
         /\ req[q].ms \subseteq Members
BY DEF RequestType, Request, Idle, Ops, Places

LEMMA Moving ==
  ASSUME RequestType, NEW q \in Requests, NEW at \in Places, Moves(q, at)
  PROVE  /\ req' \in [Requests -> Request] /\ Others(q) /\ To(q, at)
         /\ req'[q].prev = req[q].prev
BY RequestFields DEF RequestType, Moves, Others, To, Request

LEMMA Ending ==
  ASSUME RequestType, NEW q \in Requests, Ends(q)
  PROVE  /\ req' \in [Requests -> Request] /\ Others(q)
         /\ req'[q] = Idle /\ req'[q].at = "idle" /\ req'[q].op = "none"
BY RequestFields DEF RequestType, Ends, Others, Idle

LEMMA Beginning ==
  ASSUME RequestType, NEW q \in Requests, NEW op \in Ops, NEW at \in Places,
         NEW s \in Subs \union {None}, Begins(q, op, at, s)
  PROVE  /\ req' \in [Requests -> Request] /\ Others(q) /\ req[q].at = "idle"
         /\ req'[q].at = at /\ req'[q].op = op /\ req'[q].s = s /\ req'[q].prev = {}
<1>1. [Idle EXCEPT !.op = op, !.at = at, !.s = s] \in Request
  BY RequestFields DEF Request
<1>2. /\ [Idle EXCEPT !.op = op, !.at = at, !.s = s].at = at
      /\ [Idle EXCEPT !.op = op, !.at = at, !.s = s].op = op
      /\ [Idle EXCEPT !.op = op, !.at = at, !.s = s].s = s
      /\ [Idle EXCEPT !.op = op, !.at = at, !.s = s].prev = {}
      /\ Idle.at = "idle"
  BY DEF Idle
<1> QED BY <1>1, <1>2 DEF RequestType, Begins, Others

LEMMA Freeing ==
  ASSUME RequestType, NEW q \in Requests, Frees(q)
  PROVE  /\ lock' \in [Subs -> Requests \union {None}]
         /\ \A x \in Subs : lock[x] # q => lock'[x] = lock[x]
BY DEF RequestType, Frees

LEMMA Failing ==
  ASSUME RequestType, NEW q \in Requests, Fails(q)
  PROVE  /\ req' \in [Requests -> Request] /\ Others(q)
         /\ \/ req'[q].at = "idle"
            \/ To(q, "undo")
         /\ lock' \in [Subs -> Requests \union {None}]
         /\ \A x \in Subs : lock[x] # q => lock'[x] = lock[x]
<1>1. Moves(q, "undo") \/ Ends(q)
  BY DEF Fails
<1>2. "undo" \in Places
  BY DEF Places
<1> QED BY <1>1, <1>2, Moving, Ending, Freeing DEF Fails

LEMMA Installing ==
  ASSUME RequestType, NEW q \in Requests, NEW at \in Places, NEW prev \in SUBSET Nodes,
         req' = [req EXCEPT ![q].at = at, ![q].prev = prev]
  PROVE  /\ req' \in [Requests -> Request] /\ Others(q) /\ To(q, at)
         /\ req'[q].prev = prev
BY RequestFields DEF RequestType, Others, To, Request

LEMMA Undoing ==
  ASSUME RequestType, NEW q \in Requests, NEW at \in Places, NEW op \in Ops,
         req' = [req EXCEPT ![q].op = op, ![q].at = at]
  PROVE  /\ req' \in [Requests -> Request] /\ Others(q)
         /\ req'[q].at = at /\ req'[q].s = req[q].s
BY RequestFields DEF RequestType, Others, Request

LEMMA Pooling ==
  ASSUME RequestType, NEW q \in Requests, NEW p \in Pools, NEW ms \in SUBSET Members,
         req' = [req EXCEPT ![q] = [Idle EXCEPT !.op = "pool", !.at = "store", !.p = p, !.ms = ms]]
  PROVE  /\ req' \in [Requests -> Request] /\ Others(q)
         /\ req'[q].at = "store" /\ req'[q].op = "pool" /\ req'[q].p = p
<1> DEFINE new == [Idle EXCEPT !.op = "pool", !.at = "store", !.p = p, !.ms = ms]
<1>1. new \in Request /\ new.at = "store" /\ new.op = "pool" /\ new.p = p
  BY RequestFields DEF Request, Ops, Places, Idle
<1> HIDE DEF new
<1>2. req' = [req EXCEPT ![q] = new]
  BY DEF new
<1> QED BY <1>1, <1>2 DEF RequestType, Others

-----------------------------------------------------------------------------
(* ChoiceIsValid.                                                          *)

ChoiceInv ==
  /\ subs \in SubTable /\ Valid(subs)
  /\ subFile \in SubTable /\ Valid(subFile)

LEMMA ChoiceKept ==
  ASSUME ChoiceInv, UNCHANGED subs, subFile' \in {subs, subFile}
  PROVE  ChoiceInv' /\ \A x \in Subs : SameNodes(subs', x)
BY DEF ChoiceInv, SameNodes

LEMMA ChoiceWritten ==
  ASSUME ChoiceInv, NEW t \in SubTable, Valid(t), subs' \in {subs, t}, subFile' \in {subFile, t}
  PROVE  ChoiceInv'
BY DEF ChoiceInv

(* An Apply or a reload that makes a node the choice.                      *)
LEMMA SettlesInv ==
  ASSUME ChoiceInv, NEW g \in Goal, Resolves(g), Settles(g) \/ SettlesPartly(g)
  PROVE  ChoiceInv' /\ \A x \in Subs : SameNodes(subs', x)
<1>1. CASE SubsKept
  BY <1>1, ChoiceKept DEF SubsKept
<1>2. CASE g.kind = "node" /\ ~SubsKept
  <2> DEFINE t == Activating(subs, g.s)
  <2>1. g.s \in Subs /\ subs[g.s].state = "live" /\ g.n \in NodesIn(subs[g.s])
    BY <1>2 DEF Resolves, There, LiveIn, Members
  <2>2. /\ t \in SubTable /\ Valid(t) /\ \A x \in Subs : SameNodes(t, x)
    BY <2>1, Activated DEF ChoiceInv, SameNodes
  <2>3. t[g.s].state = "live" /\ g.n \in NodesIn(t[g.s])
    BY <2>1, <2>2 DEF SameNodes, NodesIn
  <2> HIDE DEF t
  <2>4. /\ Selecting(t, g.s, g.n) \in SubTable /\ Valid(Selecting(t, g.s, g.n))
        /\ \A x \in Subs : SameNodes(Selecting(t, g.s, g.n), x)
    BY <2>1, <2>2, <2>3, Selected DEF SameNodes
  <2>5. SubsBecome(t) \/ SubsBecome(Selecting(t, g.s, g.n))
    BY <1>2 DEF Settles, SettlesPartly, t
  <2> QED BY <2>2, <2>4, <2>5, ChoiceWritten DEF SubsBecome
<1> QED BY <1>1, <1>2 DEF Settles, SettlesPartly

(* The steps after which every subscription has the nodes it had before.   *)
QuietSteps(q) ==
  \/ (\E s \in Subs, op \in {"refresh", "auto"} : Refresh(q, s, op))
  \/ Locks(q) \/ FetchFails(q) \/ NotModified(q) \/ Reconciles(q) \/ Syncs(q)
  \/ (\E s \in Subs : Delete(q, s)) \/ Undoes(q) \/ DropsMembers(q) \/ DropsRules(q)
  \/ (\E p \in Pools, ms \in SUBSET There(subs) : CreatePool(q, p, ms)) \/ StoresPool(q)
  \/ (\E s \in Subs, r \in Rules : SetRule(q, s, r))

LEMMA QuietChoice ==
  ASSUME ChoiceInv, NEW q \in Requests, QuietSteps(q)
  PROVE  ChoiceInv' /\ \A x \in Subs : SameNodes(subs', x)
<1>1. UNCHANGED subs /\ subFile' \in {subs, subFile}
  BY Zenon DEF QuietSteps, Refresh, Locks, FetchFails, NotModified, Reconciles, Syncs, Delete, Undoes,
         DropsMembers, DropsRules, CreatePool, StoresPool, SetRule, RecordError, SubsKept, SubsWrite,
         SubsBecome
<1> QED BY <1>1, ChoiceKept

LEMMA CreateChoice ==
  ASSUME ChoiceInv, NEW q \in Requests, NEW s \in Subs, Create(q, s)
  PROVE  /\ ChoiceInv'
         /\ \A x \in Subs : \/ SameNodes(subs', x)
                            \/ /\ x = s /\ subs[s].state = "new" /\ subs'[s].state = "live"
                               /\ NodesIn(subs'[s]) = {}
<1>1. CASE SubsKept
  BY <1>1, ChoiceKept DEF SubsKept
<1>2. CASE SubsBecome([subs EXCEPT ![s].state = "live", ![s].active = (Live = {})])
  <2>1. subs[s].state = "new"
    BY DEF Create
  <2>2. PICK b \in BOOLEAN : (b <=> Live = {}) /\ SubsBecome([subs EXCEPT ![s].state = "live", ![s].active = b])
    <3>1. CASE Live = {}
      BY <1>2, <3>1
    <3>2. CASE Live # {}
      BY <1>2, <3>2
    <3> QED BY <3>1, <3>2
  <2> DEFINE t == [subs EXCEPT ![s].state = "live", ![s].active = b]
             new == [subs[s] EXCEPT !.state = "live", !.active = b]
  <2>3. subs' = t /\ subFile' = t /\ (b <=> Live = {})
    BY <2>2 DEF SubsBecome
  <2>4. subs \in SubTable /\ Valid(subs) /\ Blank(subs[s]) /\ subs[s] \in SubRecord
    BY <2>1 DEF ChoiceInv, Valid, SubTable
  <2>5. /\ new \in SubRecord /\ new.state = "live" /\ (new.active <=> b)
        /\ new.feed = None /\ new.manual = {} /\ new.selected = None
    BY <2>4 DEF SubRecord, Blank
  <2>6. t[s] = new /\ \A x \in Subs : x # s => t[x] = subs[x]
    BY <2>4 DEF SubTable
  <2>7. t = [x \in Subs |-> t[x]]
    BY <2>4 DEF SubTable
  <2> HIDE DEF new, t
  <2>8. t \in SubTable
    <3>1. \A x \in Subs : t[x] \in SubRecord
      BY <2>4, <2>5, <2>6 DEF SubTable
    <3> QED BY <2>7, <3>1 DEF SubTable
  <2>9. t[s].state = "live" /\ (t[s].active <=> Live = {})
        /\ t[s].feed = None /\ t[s].manual = {} /\ t[s].selected = None
    BY <2>3, <2>5, <2>6
  <2>10. Valid(t) /\ NodesIn(t[s]) = {}
    BY <2>1, <2>4, <2>6, <2>8, <2>9, Created
  <2>11. ChoiceInv'
    BY <2>3, <2>8, <2>10, ChoiceWritten
  <2> QED BY <2>1, <2>3, <2>6, <2>9, <2>10, <2>11 DEF SameNodes
<1> QED BY <1>1, <1>2 DEF Create

LEMMA InstallChoice ==
  ASSUME ChoiceInv, RequestInv, NEW q \in Requests, NEW f \in Feeds, Install(q, f)
  PROVE  /\ ChoiceInv'
         /\ \A x \in Subs : \/ SameNodes(subs', x)
                            \/ /\ x = req[q].s /\ subs[x].state = "live"
                               /\ subs'[x].state = "live" /\ subs'[x].feed = f
                               /\ req' = [req EXCEPT ![q].at = "pools", ![q].prev = NodesIn(subs[x])]
<1> DEFINE s == req[q].s
<1>1. s \in Subs /\ subs[s].state = "live"
  BY DEF Install, RequestInv, RequestOK, Owning, Named, Live, LiveIn
<1>2. CASE SubsKept
  BY <1>2, ChoiceKept DEF SubsKept
<1>3. CASE /\ \E n \in NodesIn(Fed(s, f)) : SubsBecome(Feeding(s, f, n))
           /\ req' = [req EXCEPT ![q].at = "pools", ![q].prev = NodesIn(subs[s])]
  <2>1. PICK n \in NodesIn(Fed(s, f)) : SubsBecome(Feeding(s, f, n))
    BY <1>3
  <2> DEFINE t == Feeding(s, f, n)
  <2>2. /\ t \in SubTable /\ Valid(t) /\ t[s].state = "live" /\ t[s].feed = f
        /\ \A x \in Subs : x # s => t[x] = subs[x]
    BY <1>1, Installed DEF ChoiceInv
  <2>3. subs' = t /\ subFile' = t
    BY <2>1 DEF SubsBecome
  <2> HIDE DEF t
  <2>4. ChoiceInv'
    BY <2>2, <2>3, ChoiceWritten
  <2> QED BY <1>1, <1>3, <2>2, <2>3, <2>4 DEF SameNodes
<1> QED BY <1>2, <1>3 DEF Install, Fed, Feeding

LEMMA DropsChoice ==
  ASSUME ChoiceInv, RequestType, RequestInv, NEW q \in Requests, Drops(q)
  PROVE  /\ ChoiceInv'
         /\ \A x \in Subs : \/ SameNodes(subs', x)
                            \/ /\ x = req[q].s /\ subs[x].state = "live" /\ lock[x] = None
                               /\ subs'[x].state = "gone"
                               /\ req'[q].at = "dropPools" /\ req'[q].s = x
<1> DEFINE s == req[q].s
           rest == Live \ {s}
<1>1. s \in Subs
  BY DEF Drops, RequestInv, RequestOK, Owning, Named
<1>2. CASE SubsKept
  BY <1>2, ChoiceKept DEF SubsKept
<1>3. CASE /\ s \in Live /\ Moves(q, "dropPools")
           /\ \E heir \in IF rest = {} THEN {None} ELSE rest : SubsBecome(Without(s, heir))
  <2>1. PICK heir : /\ IF rest = {} THEN heir = None ELSE heir \in rest
                    /\ SubsBecome(Without(s, heir))
    BY <1>3
  <2>2. subs[s].state = "live"
    BY <1>3 DEF Live, LiveIn
  <2> DEFINE t == Without(s, heir)
  <2>3. /\ t \in SubTable /\ Valid(t) /\ t[s].state = "gone"
        /\ \A x \in Subs : x # s => SameNodes(t, x)
    BY <1>1, <2>1, <2>2, Removed DEF ChoiceInv
  <2>4. subs' = t /\ subFile' = t
    BY <2>1 DEF SubsBecome
  <2> HIDE DEF t
  <2>5. ChoiceInv'
    BY <2>3, <2>4, ChoiceWritten
  <2>6. req'[q].at = "dropPools" /\ req'[q].s = s
    BY <1>3, Moving DEF Places, To
  <2>7. lock[s] = None
    BY DEF Drops
  <2> QED BY <2>2, <2>3, <2>4, <2>5, <2>6, <2>7
<1> QED BY <1>2, <1>3 DEF Drops
-----------------------------------------------------------------------------
(* The user's edits of the subscriptions.                                  *)

LEMMA ImportChoice ==
  ASSUME ChoiceInv, NEW s \in Subs, NEW n \in Nodes, ImportNodes(s, n)
  PROVE  /\ ChoiceInv'
         /\ \A x \in Subs : \/ SameNodes(subs', x)
                            \/ /\ subs[x].state = "live" /\ subs'[x].state = "live"
                               /\ subs'[x].feed = subs[x].feed
                               /\ NodesIn(subs[x]) \subseteq NodesIn(subs'[x])
<1> DEFINE t == [subs EXCEPT ![s].manual = @ \union {n},
                             ![s].selected = IF @ = None THEN n ELSE @]
<1>1. subs[s].state = "live"
  BY DEF ImportNodes, Live, LiveIn
<1>2. /\ t \in SubTable /\ Valid(t)
      /\ \A x \in Subs : x # s => t[x] = subs[x]
      /\ t[s].state = "live" /\ t[s].feed = subs[s].feed
      /\ NodesIn(subs[s]) \subseteq NodesIn(t[s])
  BY <1>1, Imported DEF ChoiceInv
<1>3. SubsBecome(t) \/ SubsKept
  BY DEF ImportNodes, SubsWrite
<1> HIDE DEF t
<1>4. CASE SubsBecome(t)
  BY <1>1, <1>2, <1>4, ChoiceWritten DEF SubsBecome, SameNodes
<1>5. CASE SubsKept
  BY <1>5, ChoiceKept DEF SubsKept
<1> QED BY <1>3, <1>4, <1>5

LEMMA SelectChoice ==
  ASSUME ChoiceInv, NEW s \in Subs, NEW n \in Nodes, SelectNode(s, n)
  PROVE  ChoiceInv' /\ \A x \in Subs : SameNodes(subs', x)
<1> DEFINE t == Selecting(subs, s, n)
<1>1. subs[s].state = "live" /\ n \in NodesIn(subs[s])
  BY DEF SelectNode, Live, LiveIn
<1>2. t \in SubTable /\ Valid(t) /\ \A x \in Subs : SameNodes(t, x)
  BY <1>1, Selected DEF ChoiceInv, SameNodes
<1>3. SubsBecome(t) \/ SubsKept
  BY DEF SelectNode, SubsWrite
<1> HIDE DEF t
<1>4. CASE SubsBecome(t)
  BY <1>2, <1>4, ChoiceWritten DEF SubsBecome
<1>5. CASE SubsKept
  BY <1>5, ChoiceKept DEF SubsKept
<1> QED BY <1>3, <1>4, <1>5

LEMMA ActivateChoice ==
  ASSUME ChoiceInv, NEW s \in Subs, Activate(s)
  PROVE  ChoiceInv' /\ \A x \in Subs : SameNodes(subs', x)
<1> DEFINE t == Activating(subs, s)
<1>1. subs[s].state = "live"
  BY DEF Activate, Live, LiveIn
<1>2. t \in SubTable /\ Valid(t) /\ \A x \in Subs : SameNodes(t, x)
  BY <1>1, Activated DEF ChoiceInv, SameNodes
<1>3. SubsBecome(t) \/ SubsKept
  BY DEF Activate, SubsWrite
<1> HIDE DEF t
<1>4. CASE SubsBecome(t)
  BY <1>2, <1>4, ChoiceWritten DEF SubsBecome
<1>5. CASE SubsKept
  BY <1>5, ChoiceKept DEF SubsKept
<1> QED BY <1>3, <1>4, <1>5

LEMMA UpdateChoice ==
  ASSUME ChoiceInv, NEW s \in Subs, Update(s)
  PROVE  ChoiceInv' /\ \A x \in Subs : SameNodes(subs', x)
<1> DEFINE t == [subs EXCEPT ![s].name = "edited"]
<1>1. subs[s].state = "live"
  BY DEF Update, Live, LiveIn
<1>2. t \in SubTable /\ Valid(t) /\ \A x \in Subs : SameNodes(t, x)
  BY <1>1, Edited DEF ChoiceInv
<1>3. (subs' = t /\ subFile' \in {t, subFile}) \/ SubsKept
  BY DEF Update, SubsWrite, SubsBecome
<1> HIDE DEF t
<1>4. CASE subs' = t /\ subFile' \in {t, subFile}
  BY <1>2, <1>4, ChoiceWritten
<1>5. CASE SubsKept
  BY <1>5, ChoiceKept DEF SubsKept
<1> QED BY <1>3, <1>4, <1>5

-----------------------------------------------------------------------------
(* All steps but Restart.                                                  *)

SubsMove ==
  \A x \in Subs :
    \/ SameNodes(subs', x)
    \/ subs[x].state = "new" /\ subs'[x].state = "live"
    \/ /\ subs[x].state = "live" /\ subs'[x].state = "live" /\ subs'[x].feed = subs[x].feed
       /\ NodesIn(subs[x]) \subseteq NodesIn(subs'[x])
    \/ /\ subs[x].state = "live" /\ subs'[x].state = "live" /\ subs'[x].feed \in Feeds
       /\ \E q \in Requests : req[q].at = "fetch" /\ req[q].s = x /\ req'[q].s = x
                              /\ req'[q].at = "pools" /\ req'[q].prev = NodesIn(subs[x])
    \/ /\ subs[x].state = "live" /\ subs'[x].state = "gone" /\ lock[x] = None
       /\ \E q \in Requests : req'[q].at = "dropPools" /\ req'[q].s = x

CoreType ==
  /\ core \in [state : {"off", "running", "backoff"}, goal : Goal, on : [Subs -> SUBSET Rules]]
  /\ opMu \in Requests \union {None} /\ plan \in Plan /\ stale \in BOOLEAN

Running ==
  \/ \E q \in Requests : RunSteps(q) \/ \E g \in Goals : Apply(q, g)
  \/ CoreCrashes \/ CoreRecovers \/ CoreGivesUp \/ Stop

Step ==
  \/ \E q \in Requests : (SubSteps(q) \/ Begun(q)) /\ RunKept
  \/ Edits /\ RunKept
  \/ Running

LEMMA RunningChoice ==
  ASSUME ChoiceInv, CoreType, Running
  PROVE  ChoiceInv' /\ \A x \in Subs : SameNodes(subs', x)
<1>1. core.goal \in Goal /\ Goals \subseteq Goal
  BY CatalogAssumption DEF CoreType
<1>2. CASE UNCHANGED subs /\ subFile' \in {subs, subFile}
  BY <1>2, ChoiceKept
<1>3. \A q \in Requests : RunSteps(q) =>
        \/ UNCHANGED subs /\ subFile' \in {subs, subFile}
        \/ Resolves(core.goal) /\ (Settles(core.goal) \/ SettlesPartly(core.goal))
  BY Zenon DEF RunSteps, SkipsReload, Reloads, CannotReload, Starts, CannotStart, ReloadFails,
     SubsKept, RecordError
<1>4. \A q \in Requests, g \in Goals : Apply(q, g) => Resolves(g) /\ Settles(g)
  BY Zenon DEF Apply
<1>5. CoreCrashes \/ CoreRecovers \/ CoreGivesUp \/ Stop => UNCHANGED <<subs, subFile>>
  BY DEF CoreCrashes, CoreRecovers, CoreGivesUp, Stop, CoreChanges
<1> QED BY <1>1, <1>2, <1>3, <1>4, <1>5, SettlesInv DEF Running

(* What a step does to the requests and the locks: at most one request     *)
(* goes on, and it takes no lock that another holds.                       *)
WorkOf(q) ==
  \/ ((SubSteps(q) \/ Begun(q)) /\ RunKept) \/ RunSteps(q) \/ \E g \in Goals : Apply(q, g)

Passing == (Edits /\ RunKept) \/ CoreCrashes \/ CoreRecovers \/ CoreGivesUp \/ Stop

LEMMA StepIs == Step <=> (\E q \in Requests : WorkOf(q)) \/ Passing
BY Zenon DEF Step, WorkOf, Passing, Running

LEMMA ChoiceStep ==
  ASSUME ChoiceInv, CoreType, RequestType, RequestInv, Step
  PROVE  ChoiceInv' /\ SubsMove
<1>1. CASE ChoiceInv' /\ \A x \in Subs : SameNodes(subs', x)
  BY <1>1 DEF SubsMove
<1>2. ASSUME NEW q \in Requests, QuietSteps(q) PROVE ChoiceInv' /\ SubsMove
  BY <1>1, <1>2, QuietChoice
<1>3. ASSUME NEW q \in Requests, NEW s \in Subs, Create(q, s) PROVE ChoiceInv' /\ SubsMove
  BY <1>3, CreateChoice DEF SubsMove
<1>4. ASSUME NEW q \in Requests, NEW f \in Feeds, Install(q, f) PROVE ChoiceInv' /\ SubsMove
  <2>1. req[q].at = "fetch"
    BY <1>4 DEF Install
  <2>2. req[q].s \in Subs
    BY <2>1 DEF RequestInv, RequestOK, Named, Owning
  <2>3. ASSUME req' = [req EXCEPT ![q].at = "pools", ![q].prev = NodesIn(subs[req[q].s])]
        PROVE  /\ req'[q].s = req[q].s /\ req'[q].at = "pools"
               /\ req'[q].prev = NodesIn(subs[req[q].s])
    <3>1. NodesIn(subs[req[q].s]) \in SUBSET Nodes
      BY <2>2, NodesInType DEF ChoiceInv, SubTable
    <3>2. PICK prev \in SUBSET Nodes : prev = NodesIn(subs[req[q].s])
      BY <3>1
    <3>3. req' = [req EXCEPT ![q].at = "pools", ![q].prev = prev]
      BY <2>3, <3>2
    <3>4. "pools" \in Places
      BY DEF Places
    <3>5. To(q, "pools") /\ req'[q].prev = prev
      BY <3>3, <3>4, Installing
    <3> QED BY <3>2, <3>5 DEF To
  <2> QED BY <1>4, <2>1, <2>2, <2>3, InstallChoice DEF SubsMove
<1>5. ASSUME NEW q \in Requests, Drops(q) PROVE ChoiceInv' /\ SubsMove
  BY <1>5, DropsChoice DEF SubsMove
<1>6. ASSUME NEW q \in Requests, SubSteps(q) \/ Begun(q) PROVE ChoiceInv' /\ SubsMove
  <2>1. \/ QuietSteps(q) \/ Drops(q) \/ \E f \in Feeds : Install(q, f)
        \/ \E s \in Subs : Create(q, s)
    BY <1>6, Zenon DEF SubSteps, Begun, QuietSteps
  <2> QED BY <1>2, <1>3, <1>4, <1>5, <2>1
<1>7. ASSUME Edits PROVE ChoiceInv' /\ SubsMove
  <2>1. ASSUME NEW s \in Subs, NEW n \in Nodes, ImportNodes(s, n) PROVE ChoiceInv' /\ SubsMove
    BY <2>1, ImportChoice DEF SubsMove
  <2>2. ASSUME NEW p \in Pools, DeletePool(p) \/ \E ms \in SUBSET There(subs) : UpdatePool(p, ms)
        PROVE ChoiceInv' /\ SubsMove
    <3>1. UNCHANGED <<subs, subFile>>
      BY <2>2 DEF DeletePool, UpdatePool
    <3> QED BY <1>1, <3>1, ChoiceKept
  <2> QED BY <1>1, <1>7, <2>1, <2>2, SelectChoice, ActivateChoice, UpdateChoice DEF Edits
<1>8. ASSUME Running PROVE ChoiceInv' /\ SubsMove
  BY <1>1, <1>8, RunningChoice
<1> QED BY <1>6, <1>7, <1>8 DEF Step

LEMMA SubsStay ==
  ASSUME SubsMove, NEW s \in Subs, subs[s].state # "new"
  PROVE  /\ subs'[s].state # "new"
         /\ s \notin Live => s \notin Live'
         /\ s \in Live /\ lock[s] # None => s \in Live'
         /\ s \in Live /\ lock[s] # None /\ subs[s].feed # None => subs'[s].feed # None
BY SubscriptionsAssumption DEF SubsMove, SameNodes, Live, LiveIn

LEMMA OthersKeep ==
  ASSUME RequestInv, SubsMove, NEW r \in Requests, req'[r] = req[r],
         \A x \in Subs : lock[x] = r => lock'[x] = r, opMu' = r <=> opMu = r
  PROVE  RequestOK(r)'
<1>1. RequestOK(r) /\ r # None
  BY SubscriptionsAssumption DEF RequestInv
<1>2. req[r].at \in Named \/ req[r].op = "create" =>
        req[r].s \in Subs /\ subs'[req[r].s].state # "new"
  BY <1>1, SubsStay DEF RequestOK
<1>3. Owning \subseteq Named /\ "dropPools" \in Named /\ "dropRules" \in Named
      /\ "pools" \in Owning /\ "rules" \in Owning
  BY DEF Named, Owning
<1>4. req[r].at \in Owning => lock'[req[r].s] = r /\ req[r].s \in Live'
  BY <1>1, <1>3, SubsStay DEF RequestOK
<1>5. req[r].at \in {"pools", "rules"} => subs'[req[r].s].feed # None
  BY <1>1, <1>3, SubsStay DEF RequestOK
<1>6. req[r].at \in {"dropPools", "dropRules"} => req[r].s \notin Live'
  BY <1>1, <1>3, SubsStay DEF RequestOK
<1> QED BY <1>1, <1>2, <1>4, <1>5, <1>6 DEF RequestOK

LocksKept(q) ==
  /\ lock' \in [Subs -> Requests \union {None}]
  /\ \A x \in Subs : lock[x] \in {q, None} \/ lock'[x] = lock[x]

Advance(q) ==
  req' \in [Requests -> Request] /\ LocksKept(q) /\ Others(q) /\ RequestOK(q)'

LEMMA LocksSame ==
  ASSUME RequestType, NEW q \in Requests, UNCHANGED lock \/ Frees(q)
  PROVE  LocksKept(q)
BY Freeing DEF LocksKept, RequestType

LEMMA EndsOK ==
  ASSUME RequestType, NEW q \in Requests, Ends(q), LocksKept(q), opMu' # q
  PROVE  Advance(q)
<1>1. "idle" \notin Named \union Owning \union {"pools", "rules", "dropPools", "dropRules", "store", "start"}
  BY DEF Named, Owning
<1> QED BY <1>1, Ending DEF Advance, RequestOK

LEMMA NamedOK ==
  ASSUME NEW q \in Requests, NEW at \in {"lock", "undo", "drop"}, req'[q].at = at,
         req'[q].s \in Subs, subs'[req'[q].s].state # "new", opMu' # q
  PROVE  RequestOK(q)'
BY DEF RequestOK, Owning, Named

LEMMA OwningOK ==
  ASSUME NEW q \in Requests, NEW at \in Owning, req'[q].at = at,
         req'[q].s \in Subs, subs'[req'[q].s].state = "live", opMu' # q,
         lock'[req'[q].s] = q,
         at # "fetch" => subs'[req'[q].s].feed # None
  PROVE  RequestOK(q)'
BY DEF RequestOK, Owning, Named, Live, LiveIn

LEMMA DroppingOK ==
  ASSUME NEW q \in Requests, NEW at \in {"dropPools", "dropRules"}, req'[q].at = at,
         req'[q].s \in Subs, subs'[req'[q].s].state \notin {"new", "live"}, opMu' # q
  PROVE  RequestOK(q)'
BY DEF RequestOK, Owning, Named, Live, LiveIn

LEMMA FailsOK ==
  ASSUME RequestType, RequestInv, SubsMove, NEW q \in Requests, Fails(q),
         req[q].at \in Named \/ req[q].op = "create", opMu' # q
  PROVE  Advance(q)
<1>1. LocksKept(q)
  BY LocksSame DEF Fails
<1>2. CASE Ends(q)
  BY <1>1, <1>2, EndsOK
<1>3. CASE Moves(q, "undo") /\ req[q].op = "create"
  <2>1. req[q].s \in Subs /\ subs'[req[q].s].state # "new"
    BY SubsStay DEF RequestInv, RequestOK
  <2>2. req' \in [Requests -> Request] /\ Others(q) /\ To(q, "undo")
    BY <1>3, Moving DEF Places
  <2> QED BY <1>1, <2>1, <2>2, NamedOK DEF Advance, To
<1> QED BY <1>2, <1>3 DEF Fails

LEMMA QuietMu ==
  ASSUME RequestInv, RunKept, NEW q \in Requests, req[q].at # "start"
  PROVE  opMu' # q
BY DEF RequestInv, RequestOK, RunKept, runVars

LEMMA LockAdvance ==
  ASSUME RequestType, RequestInv, SubsMove, NEW q \in Requests, Locks(q), RunKept
  PROVE  Advance(q)
<1>1. req[q].at = "lock" /\ "lock" \in Named /\ opMu' # q
  BY QuietMu DEF Locks, Named
<1>2. req[q].s \in Subs
  BY <1>1 DEF RequestInv, RequestOK
<1>3. CASE Fails(q)
  BY <1>1, <1>3, FailsOK
<1>4. CASE /\ req[q].s \in Live /\ lock[req[q].s] = None
           /\ lock' = [lock EXCEPT ![req[q].s] = q] /\ Moves(q, "fetch") /\ UNCHANGED subs
  <2>1. req' \in [Requests -> Request] /\ Others(q) /\ To(q, "fetch")
    BY <1>4, Moving DEF Places
  <2>2. LocksKept(q) /\ lock'[req[q].s] = q
    BY <1>2, <1>4 DEF LocksKept, RequestType
  <2>3. subs'[req[q].s].state = "live"
    BY <1>4 DEF Live, LiveIn
  <2> QED BY <1>1, <1>2, <2>1, <2>2, <2>3, OwningOK DEF Advance, To, Owning
<1> QED BY <1>3, <1>4 DEF Locks

LEMMA FetchAdvance ==
  ASSUME RequestType, RequestInv, SubsMove, NEW q \in Requests, FetchFails(q) \/ NotModified(q), RunKept
  PROVE  Advance(q)
<1>1. req[q].at = "fetch" /\ "fetch" \in Named /\ opMu' # q
  BY QuietMu DEF FetchFails, NotModified, Named, Owning
<1>2. CASE FetchFails(q)
  BY <1>1, <1>2, FailsOK DEF FetchFails
<1>3. CASE NotModified(q)
  BY <1>1, <1>3, LocksSame, EndsOK DEF NotModified
<1> QED BY <1>2, <1>3

LEMMA InstallAdvance ==
  ASSUME RequestType, RequestInv, SubsMove, ChoiceInv, NEW q \in Requests, NEW f \in Feeds,
         Install(q, f), RunKept
  PROVE  Advance(q)
<1>1. req[q].at = "fetch" /\ "fetch" \in Named /\ "fetch" \in Owning /\ opMu' # q
  BY QuietMu DEF Install, Named, Owning
<1>2. /\ req[q].s \in Subs /\ subs[req[q].s].state = "live" /\ lock[req[q].s] = q
  BY <1>1 DEF RequestInv, RequestOK, Live, LiveIn
<1>3. CASE Fails(q)
  BY <1>1, <1>3, FailsOK
<1>4. CASE ~ Fails(q)
  <2>1. /\ req' = [req EXCEPT ![q].at = "pools", ![q].prev = NodesIn(subs[req[q].s])]
        /\ UNCHANGED lock
        /\ \E n \in NodesIn(Fed(req[q].s, f)) : SubsBecome(Feeding(req[q].s, f, n))
    BY <1>4 DEF Install, Fed, Feeding
  <2>2. NodesIn(subs[req[q].s]) \in SUBSET Nodes
    BY <1>2, NodesInType DEF ChoiceInv, SubTable
  <2>3. PICK prev \in SUBSET Nodes : prev = NodesIn(subs[req[q].s])
    BY <2>2
  <2>4. req' = [req EXCEPT ![q].at = "pools", ![q].prev = prev]
    BY <2>1, <2>3
  <2>5. "pools" \in Places /\ "pools" \in Owning
    BY DEF Places, Owning
  <2>6. req' \in [Requests -> Request] /\ Others(q) /\ To(q, "pools")
    BY <2>4, <2>5, Installing
  <2>7. PICK n \in NodesIn(Fed(req[q].s, f)) : subs' = Feeding(req[q].s, f, n)
    BY <2>1 DEF SubsBecome
  <2>8. subs'[req[q].s].state = "live" /\ subs'[req[q].s].feed # None
    BY <1>2, <2>7, Installed, SubscriptionsAssumption DEF ChoiceInv
  <2>9. LocksKept(q) /\ lock'[req[q].s] = q
    BY <1>2, <2>1, LocksSame
  <2> QED BY <1>1, <1>2, <2>5, <2>6, <2>8, <2>9, OwningOK DEF Advance, To
<1> QED BY <1>3, <1>4

LEMMA ReconcileAdvance ==
  ASSUME RequestType, RequestInv, SubsMove, NEW q \in Requests, Reconciles(q), RunKept
  PROVE  Advance(q)
<1>1. req[q].at = "pools" /\ "pools" \in Named /\ "pools" \in Owning /\ opMu' # q
  BY QuietMu DEF Reconciles, Named, Owning
<1>2. /\ req[q].s \in Subs /\ subs[req[q].s].state = "live" /\ lock[req[q].s] = q
      /\ subs[req[q].s].feed # None
  BY <1>1 DEF RequestInv, RequestOK, Live, LiveIn
<1>3. CASE Fails(q)
  BY <1>1, <1>3, FailsOK
<1>4. CASE ~ Fails(q)
  <2>1. req' = [req EXCEPT ![q].at = "rules", ![q].prev = {}] /\ UNCHANGED <<lock, subs>>
    BY <1>4 DEF Reconciles, SubsKept
  <2>2. "rules" \in Places /\ "rules" \in Owning
    BY DEF Places, Owning
  <2>3. req' \in [Requests -> Request] /\ Others(q) /\ To(q, "rules")
    <3>1. PICK none \in SUBSET Nodes : none = {}
      OBVIOUS
    <3>2. req' = [req EXCEPT ![q].at = "rules", ![q].prev = none]
      BY <2>1, <3>1
    <3> QED BY <2>2, <3>2, Installing
  <2>4. LocksKept(q)
    BY <2>1, LocksSame
  <2> QED BY <1>1, <1>2, <2>1, <2>2, <2>3, <2>4, OwningOK DEF Advance, To
<1> QED BY <1>3, <1>4

LEMMA MovesOn ==
  ASSUME RequestType, RequestInv, SubsMove, NEW q \in Requests, Moves(q, "reload"),
         UNCHANGED lock, opMu' # q
  PROVE  Advance(q)
<1>1. req' \in [Requests -> Request] /\ Others(q) /\ To(q, "reload")
  BY Moving DEF Places
<1>2. "reload" \notin Named \union Owning \union {"pools", "rules", "dropPools", "dropRules", "store", "start"}
  BY DEF Named, Owning
<1>3. req[q].op = "create" => req[q].s \in Subs /\ subs'[req[q].s].state # "new"
  BY SubsStay DEF RequestInv, RequestOK
<1> QED BY <1>1, <1>2, <1>3, LocksSame DEF Advance, RequestOK, To

LEMMA SyncAdvance ==
  ASSUME RequestType, RequestInv, SubsMove, NEW q \in Requests, Syncs(q), RunKept
  PROVE  Advance(q)
<1>1. req[q].at = "rules" /\ "rules" \in Named /\ opMu' # q
  BY QuietMu DEF Syncs, Named, Owning
<1>2. Fails(q) \/ (Moves(q, "reload") /\ UNCHANGED lock)
  BY Zenon DEF Syncs
<1> QED BY <1>1, <1>2, FailsOK, MovesOn

LEMMA UndoAdvance ==
  ASSUME RequestType, RequestInv, SubsMove, NEW q \in Requests, Undoes(q), RunKept
  PROVE  Advance(q)
<1>1. req[q].at = "undo" /\ "undo" \in Named /\ opMu' # q /\ UNCHANGED <<lock, subs>>
  BY QuietMu DEF Undoes, Named
<1>2. req[q].s \in Subs /\ subs[req[q].s].state # "new"
  BY <1>1 DEF RequestInv, RequestOK
<1>3. PICK at \in {"drop", "dropPools"} :
        /\ req' = [req EXCEPT ![q].op = "delete", ![q].at = at]
        /\ at = IF req[q].s \in Live THEN "drop" ELSE "dropPools"
  BY DEF Undoes
<1>4. /\ req' \in [Requests -> Request] /\ Others(q) /\ LocksKept(q)
      /\ req'[q].at = at /\ req'[q].s = req[q].s
  BY <1>1, <1>3, Undoing, LocksSame DEF Places, Ops
<1>5. at = "dropPools" => subs[req[q].s].state # "live"
  BY <1>2, <1>3 DEF Live, LiveIn
<1>6. RequestOK(q)'
  BY <1>1, <1>2, <1>3, <1>4, <1>5, NamedOK, DroppingOK
<1> QED BY <1>4, <1>6 DEF Advance

LEMMA DropAdvance ==
  ASSUME RequestType, RequestInv, SubsMove, ChoiceInv, NEW q \in Requests, Drops(q), RunKept
  PROVE  Advance(q)
<1>1. req[q].at = "drop" /\ "drop" \in Named /\ opMu' # q
  BY QuietMu DEF Drops, Named
<1>2. req[q].s \in Subs
  BY <1>1 DEF RequestInv, RequestOK
<1>3. CASE Ends(q) /\ UNCHANGED lock
  BY <1>1, <1>3, LocksSame, EndsOK
<1>4. CASE ~ (Ends(q) /\ UNCHANGED lock)
  <2>1. /\ lock[req[q].s] = None /\ lock' = [lock EXCEPT ![req[q].s] = q]
        /\ Moves(q, "dropPools") /\ req[q].s \in Live
        /\ \E heir : SubsBecome(Without(req[q].s, heir))
    BY <1>4, Zenon DEF Drops
  <2>2. subs'[req[q].s].state = "gone"
    BY <1>2, <2>1 DEF SubsBecome, Without, NewSub
  <2>3. req' \in [Requests -> Request] /\ Others(q) /\ To(q, "dropPools")
    BY <2>1, Moving DEF Places
  <2>4. LocksKept(q)
    BY <1>2, <2>1 DEF LocksKept, RequestType
  <2> QED BY <1>1, <1>2, <2>2, <2>3, <2>4, DroppingOK DEF Advance, To
<1> QED BY <1>3, <1>4

LEMMA CleanAdvance ==
  ASSUME RequestType, RequestInv, SubsMove, NEW q \in Requests, DropsMembers(q) \/ DropsRules(q), RunKept
  PROVE  Advance(q)
<1>1. req[q].at \in {"dropPools", "dropRules"} /\ req[q].at \in Named /\ opMu' # q
      /\ UNCHANGED subs
  BY QuietMu DEF DropsMembers, DropsRules, Named
<1>2. req[q].s \in Subs /\ subs[req[q].s].state \notin {"new", "live"}
  BY <1>1 DEF RequestInv, RequestOK, Live, LiveIn
<1>3. CASE DropsMembers(q)
  <2>1. Moves(q, "dropRules") /\ UNCHANGED lock
    BY <1>3 DEF DropsMembers
  <2>2. req' \in [Requests -> Request] /\ Others(q) /\ To(q, "dropRules")
    BY <2>1, Moving DEF Places
  <2> QED BY <1>1, <1>2, <2>1, <2>2, LocksSame, DroppingOK DEF Advance, To
<1>4. CASE DropsRules(q)
  <2>1. \/ Moves(q, "reload") /\ UNCHANGED lock
        \/ Ends(q) /\ Frees(q)
    BY <1>4 DEF DropsRules
  <2> QED BY <1>1, <2>1, MovesOn, EndsOK, LocksSame
<1> QED BY <1>3, <1>4

LEMMA StoreAdvance ==
  ASSUME RequestType, RequestInv, NEW q \in Requests, StoresPool(q), RunKept
  PROVE  Advance(q)
<1>1. Ends(q) /\ UNCHANGED lock /\ opMu' # q
  BY QuietMu DEF StoresPool
<1> QED BY <1>1, EndsOK, LocksSame

LEMMA BeginAdvance ==
  ASSUME RequestType, RequestInv, SubsMove, ChoiceInv, NEW q \in Requests, Begun(q), RunKept
  PROVE  Advance(q)
<1>1. Begun(q) => req[q] = Idle /\ UNCHANGED lock
  BY Zenon DEF Begun, Create, Delete, Refresh, SetRule, CreatePool, Begins
<1>2. req[q].at = "idle" /\ req[q].op = "none" /\ opMu' # q /\ LocksKept(q)
  BY <1>1, QuietMu, LocksSame DEF Idle
<1>3. ASSUME UNCHANGED req PROVE Advance(q)
  <2>1. Others(q) /\ req' \in [Requests -> Request]
    BY <1>3 DEF Others, RequestType
  <2> QED BY <1>2, <1>3, <2>1 DEF Advance, RequestOK, Named, Owning
<1>4. ASSUME NEW s \in Subs, NEW op \in Ops, NEW at \in {"lock", "drop"}, Begins(q, op, at, s),
             subs'[s].state # "new"
      PROVE Advance(q)
  <2>1. /\ req' \in [Requests -> Request] /\ Others(q) /\ req'[q].at = at /\ req'[q].s = s
    BY <1>4, Beginning DEF Places
  <2> QED BY <1>2, <1>4, <2>1, NamedOK DEF Advance
<1>5. ASSUME NEW s \in Subs, Create(q, s) PROVE Advance(q)
  <2>1. CASE UNCHANGED req
    BY <1>3, <2>1
  <2>2. CASE /\ Begins(q, "create", "lock", s)
             /\ SubsBecome([subs EXCEPT ![s].state = "live", ![s].active = (Live = {})])
    <3>1. subs[s].state = "new"
      BY <1>5 DEF Create
    <3>2. subs'[s].state = "live"
      BY <2>2 DEF SubsBecome, ChoiceInv, SubTable, SubRecord
    <3> QED BY <1>4, <2>2, <3>2 DEF Ops
  <2> QED BY <1>5, <2>1, <2>2 DEF Create, Passes
<1>6. ASSUME NEW s \in Subs, NEW op \in {"refresh", "auto"}, Refresh(q, s, op) PROVE Advance(q)
  <2>1. Begins(q, op, "lock", s) /\ subs'[s].state # "new" /\ op \in Ops
    BY <1>6 DEF Refresh, Ops, Live, LiveIn
  <2> QED BY <1>4, <2>1
<1>7. ASSUME NEW s \in Subs, Delete(q, s) PROVE Advance(q)
  <2>1. subs'[s].state # "new" /\ "delete" \in Ops /\ UNCHANGED subs
    BY <1>7 DEF Delete, Ops
  <2>2. CASE Begins(q, "delete", "drop", s)
    BY <1>4, <2>1, <2>2
  <2>3. CASE s \notin Live /\ Begins(q, "delete", "dropPools", s)
    <3>1. req' \in [Requests -> Request] /\ Others(q) /\ req'[q].at = "dropPools" /\ req'[q].s = s
      BY <2>1, <2>3, Beginning DEF Places
    <3>2. subs'[s].state \notin {"new", "live"}
      BY <2>1, <2>3 DEF Live, LiveIn
    <3> QED BY <1>2, <3>1, <3>2, DroppingOK DEF Advance
  <2> QED BY <1>7, <2>2, <2>3 DEF Delete
<1>8. ASSUME NEW s \in Subs, NEW r \in Rules, SetRule(q, s, r) PROVE Advance(q)
  <2>1. CASE UNCHANGED req
    BY <1>3, <2>1
  <2>2. CASE Begins(q, "rule", "reload", s)
    <3>1. req' \in [Requests -> Request] /\ Others(q) /\ req'[q].at = "reload" /\ req'[q].op = "rule"
      BY <2>2, Beginning DEF Places, Ops
    <3> QED BY <1>2, <3>1 DEF Advance, RequestOK, Named, Owning
  <2> QED BY <1>8, <2>1, <2>2 DEF SetRule, Passes
<1>9. ASSUME NEW p \in Pools, NEW ms \in SUBSET There(subs), CreatePool(q, p, ms) PROVE Advance(q)
  <2>1. ms \in SUBSET Members
    BY DEF There
  <2>2. req' \in [Requests -> Request] /\ Others(q) /\ req'[q].at = "store" /\ req'[q].op = "pool" /\ req'[q].p = p
    BY <1>9, <2>1, Pooling DEF CreatePool
  <2> QED BY <1>2, <2>2 DEF Advance, RequestOK, Named, Owning
<1> QED BY <1>5, <1>6, <1>7, <1>8, <1>9 DEF Begun

LEMMA StartOK ==
  ASSUME RequestType, NEW q \in Requests, req' \in [Requests -> Request], Others(q),
         req'[q].at = "start", opMu' = q, UNCHANGED lock,
         req'[q].op = "create" => req'[q].s \in Subs /\ subs'[req'[q].s].state # "new"
  PROVE  Advance(q)
BY LocksSame DEF Advance, RequestOK, Named, Owning

LEMMA RunAdvance ==
  ASSUME RequestType, RequestInv, SubsMove, ChoiceInv, NEW q \in Requests,
         RunSteps(q) \/ \E g \in Goals : Apply(q, g)
  PROVE  /\ Advance(q)
         /\ \A r \in Requests : r # q => (opMu' = r <=> opMu = r)
<1>1. opMu \in {None, q} /\ opMu' \in {None, q}
  BY DEF RunSteps, SkipsReload, Reloads, CannotReload, Starts, CannotStart, Apply, RequestInv, RequestOK
<1>2. \A r \in Requests : r # None
  BY SubscriptionsAssumption
<1>3. CASE SkipsReload(q)
  <2>1. Ends(q) /\ Frees(q) /\ opMu' # q
    BY <1>2, <1>3 DEF SkipsReload, ReloadEnds
  <2> QED BY <1>1, <1>2, <2>1, EndsOK, LocksSame
<1>4. CASE Reloads(q)
  <2>1. req' \in [Requests -> Request] /\ Others(q) /\ To(q, "start")
    BY <1>4, Moving DEF Reloads, Places
  <2>2. req[q].op = "create" => req[q].s \in Subs /\ subs'[req[q].s].state # "new"
    BY SubsStay DEF RequestInv, RequestOK
  <2>3. opMu' = q /\ UNCHANGED lock
    BY <1>4 DEF Reloads
  <2> QED BY <1>1, <1>2, <2>1, <2>2, <2>3, StartOK DEF To
<1>5. ASSUME opMu' # q, ReloadEnds(q) PROVE Advance(q)
  BY <1>5, EndsOK, LocksSame DEF ReloadEnds
<1>6. ASSUME opMu' # q, Fails(q) PROVE Advance(q)
  <2>1. CASE req[q].op = "create"
    BY <1>6, <2>1, FailsOK
  <2>2. CASE req[q].op # "create"
    BY <1>5, <1>6, <2>2 DEF Fails, ReloadEnds
  <2> QED BY <2>1, <2>2
<1>7. CASE CannotReload(q)
  <2>1. opMu' # q
    BY <1>2, <1>7 DEF CannotReload
  <2>2. Fails(q) \/ ReloadEnds(q)
    BY <1>7, Zenon DEF CannotReload, ReloadFails
  <2> QED BY <1>1, <1>2, <1>5, <1>6, <2>1, <2>2
<1>8. CASE Starts(q)
  <2>1. opMu' # q /\ ReloadEnds(q)
    BY <1>2, <1>8 DEF Starts
  <2> QED BY <1>1, <1>2, <1>5, <2>1
<1>9. CASE CannotStart(q)
  <2>1. opMu' # q
    BY <1>2, <1>9 DEF CannotStart
  <2>2. Fails(q) \/ ReloadEnds(q)
    BY <1>9, Zenon DEF CannotStart, ReloadFails
  <2> QED BY <1>1, <1>2, <1>5, <1>6, <2>1, <2>2
<1>10. CASE \E g \in Goals : Apply(q, g)
  <2>1. Begins(q, "apply", "start", None) /\ opMu' = q /\ UNCHANGED lock
    BY <1>10 DEF Apply
  <2>2. req' \in [Requests -> Request] /\ Others(q) /\ req'[q].at = "start" /\ req'[q].op = "apply"
    BY <2>1, Beginning DEF Places, Ops
  <2> QED BY <1>1, <1>2, <2>1, <2>2, StartOK
<1> QED BY <1>3, <1>4, <1>7, <1>8, <1>9, <1>10 DEF RunSteps

LEMMA SubAdvance ==
  ASSUME RequestType, RequestInv, SubsMove, ChoiceInv, NEW q \in Requests,
         SubSteps(q) \/ Begun(q), RunKept
  PROVE  Advance(q)
BY LockAdvance, FetchAdvance, InstallAdvance, ReconcileAdvance, SyncAdvance, UndoAdvance,
   DropAdvance, CleanAdvance, StoreAdvance, BeginAdvance DEF SubSteps

LEMMA PassingKeeps ==
  ASSUME Passing
  PROVE  UNCHANGED <<req, lock, opMu>>
BY DEF Passing, Edits, RunKept, runVars, Activate, Update, SelectNode, ImportNodes, DeletePool,
   UpdatePool, Passes, CoreCrashes, CoreRecovers, CoreGivesUp, Stop, CoreChanges

LEMMA RequestStep ==
  ASSUME RequestType, RequestInv, SubsMove, ChoiceInv, Step
  PROVE  RequestType' /\ RequestInv'
<1>1. \A r \in Requests : r # None
  BY SubscriptionsAssumption
<1>2. ASSUME NEW q \in Requests, Advance(q), \A r \in Requests : r # q => (opMu' = r <=> opMu = r)
      PROVE  RequestType' /\ RequestInv'
  <2>1. ASSUME NEW r \in Requests, r # q PROVE RequestOK(r)'
    <3>1. req'[r] = req[r] /\ \A x \in Subs : lock[x] = r => lock'[x] = r
      BY <1>1, <1>2, <2>1 DEF Advance, Others, LocksKept
    <3> QED BY <1>2, <2>1, <3>1, OthersKeep
  <2> QED BY <1>2, <2>1 DEF RequestInv, RequestType, Advance, LocksKept
<1>3. CASE Passing
  <2>1. UNCHANGED <<req, lock, opMu>>
    BY <1>3, PassingKeeps
  <2>2. \A r \in Requests : RequestOK(r)'
    BY <2>1, OthersKeep
  <2> QED BY <2>1, <2>2 DEF RequestInv, RequestType
<1>4. CASE \E q \in Requests : WorkOf(q)
  <2>1. PICK q \in Requests : WorkOf(q)
    BY <1>4
  <2>2. CASE (SubSteps(q) \/ Begun(q)) /\ RunKept
    <3>1. Advance(q) /\ UNCHANGED opMu
      BY <2>2, SubAdvance DEF RunKept, runVars
    <3> QED BY <1>2, <3>1
  <2>3. CASE RunSteps(q) \/ \E g \in Goals : Apply(q, g)
    BY <1>2, <2>3, RunAdvance
  <2> QED BY <2>1, <2>2, <2>3 DEF WorkOf
<1> QED BY <1>3, <1>4, StepIs

-----------------------------------------------------------------------------
(* The pools and the rules.                                                *)

PoolsOK == pools \in PoolTable /\ poolFile = pools

RulesOK == rules \in RuleTable /\ ruleFile = rules /\ Compiles(rules)

LEMMA RemappedIn ==
  ASSUME NEW ms \in SUBSET Members, NEW s \in Subs, NEW prev \in SUBSET Nodes, NEW cur \in SUBSET Nodes
  PROVE  /\ Remapped(ms, s, prev, cur) \subseteq Members
         /\ \A m \in Remapped(ms, s, prev, cur) :
              \/ m[1] # s /\ m \in ms
              \/ m[1] = s /\ m[2] \in cur
              \/ m[1] = s /\ m \in ms /\ m[2] \notin prev
<1>1. ASSUME NEW m \in ms, m[1] = s, NEW k \in Successor(m[2], prev, cur)
      PROVE  k \in Nodes /\ (k \in cur \/ (k = m[2] /\ k \notin prev)) /\ m = <<s, m[2]>>
  <2>1. k \in cur \/ (k = m[2] /\ k \notin prev)
    BY <1>1 DEF Successor
  <2>2. m[2] \in Nodes /\ m = <<s, m[2]>>
    BY <1>1 DEF Members
  <2> QED BY <2>1, <2>2
<1>2. ASSUME NEW m \in Remapped(ms, s, prev, cur), ~(m \in ms /\ m[1] # s)
      PROVE \E x \in ms : x[1] = s /\ \E k \in Successor(x[2], prev, cur) : m = <<s, k>>
  BY <1>2 DEF Remapped
<1> QED BY <1>1, <1>2 DEF Members

(* Which steps change the pools, and which the rules.                      *)
PoolSteps(q) == Reconciles(q) \/ DropsMembers(q) \/ StoresPool(q)

PoolEdits ==
  \E p \in Pools : DeletePool(p) \/ \E ms \in SUBSET There(subs) : UpdatePool(p, ms)

RuleSteps(q) ==
  Syncs(q) \/ DropsRules(q) \/ \E s \in Subs, r \in Rules : SetRule(q, s, r)

LEMMA PoolsFrame ==
  ASSUME Step
  PROVE  PoolsKept \/ (\E q \in Requests : PoolSteps(q)) \/ PoolEdits
<1>1. \A q \in Requests : SubSteps(q) => PoolsKept \/ PoolSteps(q)
  BY Zenon DEF SubSteps, PoolSteps, StoresKept, Locks, FetchFails, NotModified, Install, Syncs, Undoes, Drops, DropsRules
<1>2. \A q \in Requests : Begun(q) => PoolsKept
  BY Zenon DEF Begun, StoresKept, Create, Delete, Refresh, SetRule, CreatePool
<1>3. Edits => PoolsKept \/ PoolEdits
  BY Zenon DEF Edits, PoolEdits, StoresKept, Activate, Update, SelectNode, ImportNodes
<1>4. Running => PoolsKept
  BY Zenon DEF Running, RunSteps, StoresKept, SkipsReload, Reloads, CannotReload, Starts, CannotStart, Apply,
     CoreCrashes, CoreRecovers, CoreGivesUp, Stop, CoreChanges
<1> QED BY <1>1, <1>2, <1>3, <1>4 DEF Step

LEMMA RulesFrame ==
  ASSUME Step
  PROVE  RulesKept \/ \E q \in Requests : RuleSteps(q)
<1>1. \A q \in Requests : SubSteps(q) => RulesKept \/ RuleSteps(q)
  BY Zenon DEF SubSteps, RuleSteps, StoresKept, Locks, FetchFails, NotModified, Install, Reconciles, Undoes, Drops,
     DropsMembers, StoresPool
<1>2. \A q \in Requests : Begun(q) => RulesKept \/ RuleSteps(q)
  BY Zenon DEF Begun, RuleSteps, StoresKept, Create, Delete, Refresh, CreatePool
<1>3. Edits => RulesKept
  BY Zenon DEF Edits, StoresKept, Activate, Update, SelectNode, ImportNodes, DeletePool, UpdatePool
<1>4. Running => RulesKept
  BY Zenon DEF Running, RunSteps, StoresKept, SkipsReload, Reloads, CannotReload, Starts, CannotStart, Apply,
     CoreCrashes, CoreRecovers, CoreGivesUp, Stop, CoreChanges
<1> QED BY <1>1, <1>2, <1>3, <1>4 DEF Step

LEMMA PoolsStep ==
  ASSUME PoolsOK, ChoiceInv, RequestType, RequestInv, Step
  PROVE  PoolsOK'
<1>1. CASE PoolsKept
  BY <1>1 DEF PoolsKept, poolVars, PoolsOK
<1>2. ASSUME NEW table \in PoolTable, PoolsBecome(table) PROVE PoolsOK'
  BY <1>2 DEF PoolsBecome, PoolsOK
<1>3. ASSUME NEW q \in Requests, Reconciles(q) PROVE PoolsOK'
  <2> DEFINE s == req[q].s
             cur == NodesIn(subs[s])
  <2>1. s \in Subs /\ req[q].prev \in SUBSET Nodes
    BY <1>3, RequestFields DEF Reconciles, RequestInv, RequestOK, Named, Owning
  <2>2. cur \in SUBSET Nodes
    BY <2>1, NodesInType DEF ChoiceInv, SubTable
  <2>3. \A p \in Pools : Stored(p) => pools[p] \in SUBSET Members
    BY DEF PoolsOK, PoolTable, Stored
  <2>4. ASSUME NEW p \in Pools, Stored(p)
        PROVE Remapped(pools[p], s, req[q].prev, cur) \in SUBSET Members
    BY <2>1, <2>2, <2>3, <2>4, RemappedIn
  <2>5. ReconcileSubscriptionNodes(s, req[q].prev, cur) \in PoolTable
    BY <2>4 DEF ReconcileSubscriptionNodes, PoolTable
  <2>6. PoolsKept \/ PoolsBecome(ReconcileSubscriptionNodes(s, req[q].prev, cur))
    BY <1>3 DEF Reconciles
  <2> QED BY <1>1, <1>2, <2>5, <2>6
<1>4. ASSUME NEW q \in Requests, DropsMembers(q) PROVE PoolsOK'
  <2>1. DeleteSubscriptionMembers(req[q].s) \in PoolTable
    BY DEF DeleteSubscriptionMembers, PoolTable, PoolsOK, Stored
  <2>2. PoolsKept \/ PoolsBecome(DeleteSubscriptionMembers(req[q].s))
    BY <1>4 DEF DropsMembers
  <2> QED BY <1>1, <1>2, <2>1, <2>2
<1>5. ASSUME NEW p \in Pools, NEW ms \in (SUBSET Members) \union {Absent},
             PoolsKept \/ PoolsBecome([pools EXCEPT ![p] = ms])
      PROVE PoolsOK'
  <2>1. [pools EXCEPT ![p] = ms] \in PoolTable
    BY DEF PoolTable, PoolsOK
  <2> QED BY <1>1, <1>2, <1>5, <2>1
<1>6. ASSUME NEW q \in Requests, StoresPool(q) PROVE PoolsOK'
  <2>1. req[q].p \in Pools /\ req[q].ms \in SUBSET Members
    BY <1>6, RequestFields DEF StoresPool, RequestInv, RequestOK
  <2>2. PoolsKept \/ PoolsBecome([pools EXCEPT ![req[q].p] = req[q].ms])
    BY <1>6 DEF StoresPool
  <2> QED BY <1>5, <2>1, <2>2
<1>7. ASSUME NEW p \in Pools, NEW ms \in SUBSET There(subs), UpdatePool(p, ms) PROVE PoolsOK'
  <2>1. ms \in SUBSET Members
    BY DEF There
  <2>2. PoolsKept \/ PoolsBecome([pools EXCEPT ![p] = ms])
    BY <1>7 DEF UpdatePool, PoolsWrite
  <2> QED BY <1>5, <2>1, <2>2
<1>8. ASSUME NEW p \in Pools, DeletePool(p) PROVE PoolsOK'
  BY <1>5, <1>8 DEF DeletePool, PoolsWrite
<1> QED BY <1>1, <1>3, <1>4, <1>6, <1>7, <1>8, PoolsFrame DEF PoolSteps, PoolEdits

LEMMA RulesStep ==
  ASSUME RulesOK, ChoiceInv, RequestType, RequestInv, Step
  PROVE  RulesOK'
<1>1. CASE RulesKept
  BY <1>1 DEF RulesKept, ruleVars, RulesOK, Compiles
<1>2. ASSUME NEW s \in Subs, NEW r \in RuleRecord, r.on \subseteq r.ok,
             RulesBecome([rules EXCEPT ![s] = r])
      PROVE RulesOK'
  BY <1>2 DEF RulesBecome, RulesOK, RuleTable, Compiles
<1>3. ASSUME NEW q \in Requests, Syncs(q) PROVE RulesOK'
  <2> DEFINE s == req[q].s
             f == subs[s].feed
             r == [all |-> FeedRules[f], ok |-> FeedOk[f], on |-> rules[s].on \intersect FeedOk[f]]
  <2>1. s \in Subs /\ f \in Feeds
    BY <1>3, RecordType DEF Syncs, RequestInv, RequestOK, Named, Owning, ChoiceInv
  <2>2. r \in RuleRecord /\ r.on \subseteq r.ok
    BY <2>1, SubscriptionsAssumption DEF RuleRecord
  <2>3. RulesKept \/ RulesBecome([rules EXCEPT ![s] = r])
    BY <1>3 DEF Syncs, SyncSubscriptionRules
  <2> HIDE DEF r
  <2> QED BY <1>1, <1>2, <2>1, <2>2, <2>3
<1>4. ASSUME NEW q \in Requests, DropsRules(q) PROVE RulesOK'
  <2>1. req[q].s \in Subs
    BY <1>4 DEF DropsRules, RequestInv, RequestOK, Named
  <2>2. NoRules \in RuleRecord /\ NoRules.on \subseteq NoRules.ok
    BY DEF NoRules, RuleRecord
  <2>3. RulesKept \/ RulesBecome([rules EXCEPT ![req[q].s] = NoRules])
    BY <1>4 DEF DropsRules, DeleteSubscriptionRules
  <2> QED BY <1>1, <1>2, <2>1, <2>2, <2>3
<1>5. ASSUME NEW q \in Requests, NEW s \in Subs, NEW r \in Rules, SetRule(q, s, r) PROVE RulesOK'
  <2>1. RulesKept \/ \E table \in Decisions(s, r) : RulesBecome(table)
    BY <1>5 DEF SetRule
  <2>2. rules[s] \in RuleRecord /\ rules[s].on \subseteq rules[s].ok
    BY DEF RulesOK, RuleTable, Compiles
  <2>3. ASSUME NEW on \in SUBSET rules[s].ok, RulesBecome([rules EXCEPT ![s].on = on])
        PROVE RulesOK'
    <3> DEFINE new == [rules[s] EXCEPT !.on = on]
    <3>1. new \in RuleRecord /\ new.on \subseteq new.ok
      BY <2>2 DEF RuleRecord
    <3>2. RulesBecome([rules EXCEPT ![s] = new])
      BY <2>3
    <3> HIDE DEF new
    <3> QED BY <1>2, <3>1, <3>2
  <2>4. ASSUME NEW table \in Decisions(s, r)
        PROVE \E on \in SUBSET rules[s].ok : table = [rules EXCEPT ![s].on = on]
    BY <2>2, <2>4 DEF Decisions
  <2> QED BY <1>1, <2>1, <2>3, <2>4
<1> QED BY <1>1, <1>3, <1>4, <1>5, RulesFrame DEF RuleSteps

-----------------------------------------------------------------------------
(* The rest of the types.                                                  *)

Cores == [state : {"off", "running", "backoff"}, goal : Goal, on : [Subs -> SUBSET Rules]]

LEMMA BasicRuns ==
  /\ Off \in Cores /\ NoPlan \in Plan
  /\ RulesOK => Enabled(rules) \in [Subs -> SUBSET Rules]
<1>1. Direct \in Goal
  BY DEF Direct, Goal
<1>2. Off.on \in [Subs -> SUBSET Rules]
  BY DEF Off, Enabled, NoRules
<1>3. Off \in Cores
  BY <1>1, <1>2 DEF Off, Cores
<1>4. NoPlan \in Plan
  BY <1>1, <1>2 DEF NoPlan, Plan
<1>5. RulesOK => Enabled(rules) \in [Subs -> SUBSET Rules]
  BY DEF RulesOK, Enabled, RuleTable, RuleRecord
<1> QED BY <1>3, <1>4, <1>5

LEMMA CoreStep ==
  ASSUME CoreType, RulesOK, Step
  PROVE  CoreType'
<1>1. /\ core \in Cores /\ core.goal \in Goal /\ core.on \in [Subs -> SUBSET Rules]
      /\ plan \in Plan /\ plan.goal \in Goal /\ plan.on \in [Subs -> SUBSET Rules]
      /\ stale \in BOOLEAN /\ opMu \in Requests \union {None}
  BY DEF CoreType, Cores, Plan
<1>2. CASE RunKept
  BY <1>2 DEF RunKept, runVars, CoreType
<1>3. ASSUME core' \in Cores, plan' \in Plan, stale' \in BOOLEAN, opMu' \in Requests \union {None}
      PROVE CoreType'
  BY <1>3 DEF CoreType, Cores
<1>4. ASSUME NEW q \in Requests, NEW g \in Goal, plan' = [goal |-> g, on |-> Enabled(rules)],
             opMu' = q, UNCHANGED <<core, stale>>
      PROVE CoreType'
  <2>1. plan' \in Plan
    BY <1>4, BasicRuns DEF Plan
  <2> QED BY <1>1, <1>3, <1>4, <2>1
<1>5. ASSUME NEW q \in Requests, SkipsReload(q) PROVE CoreType'
  <2>1. UNCHANGED <<core, opMu, plan>>
    BY <1>5 DEF SkipsReload
  <2>2. stale' \in BOOLEAN
    BY <1>5 DEF SkipsReload
  <2> QED BY <1>1, <1>3, <2>1, <2>2
<1>6. ASSUME NEW q \in Requests, CannotReload(q) PROVE CoreType'
  <2>1. UNCHANGED <<core, opMu, plan>> /\ stale' = TRUE
    BY <1>6 DEF CannotReload, ReloadFails
  <2> QED BY <1>1, <1>3, <2>1
<1>7. ASSUME NEW q \in Requests, Starts(q) PROVE CoreType'
  <2>1. /\ core' = [state |-> "running", goal |-> plan.goal, on |-> plan.on]
        /\ opMu' = None /\ plan' = NoPlan /\ stale' = FALSE
    BY <1>7 DEF Starts
  <2>2. core' \in Cores
    BY <1>1, <2>1 DEF Cores
  <2> QED BY <1>3, <2>1, <2>2, BasicRuns
<1>8. ASSUME NEW q \in Requests, CannotStart(q) PROVE CoreType'
  <2>1. core' \in {core, Off} /\ opMu' = None /\ plan' = NoPlan /\ stale' = TRUE
    BY <1>8 DEF CannotStart, ReloadFails
  <2> QED BY <1>1, <1>3, <2>1, BasicRuns
<1>9. CASE CoreCrashes \/ CoreRecovers \/ CoreGivesUp \/ Stop
  <2>1. PICK state \in {"off", "running", "backoff"} : CoreChanges(state)
    BY <1>9 DEF CoreCrashes, CoreRecovers, CoreGivesUp, Stop
  <2>2. [core EXCEPT !.state = state] \in Cores
    BY <1>1 DEF Cores
  <2>3. core' \in Cores
    BY <2>1, <2>2, BasicRuns DEF CoreChanges
  <2>4. UNCHANGED <<opMu, plan, stale>>
    BY <2>1 DEF CoreChanges
  <2> QED BY <1>1, <1>3, <2>3, <2>4
<1>10. ASSUME NEW q \in Requests, Reloads(q) PROVE CoreType'
  BY <1>1, <1>4, <1>10 DEF Reloads
<1>11. ASSUME NEW q \in Requests, NEW g \in Goals, Apply(q, g) PROVE CoreType'
  BY <1>4, <1>11, CatalogAssumption DEF Apply
<1> QED BY <1>2, <1>5, <1>6, <1>7, <1>8, <1>9, <1>10, <1>11 DEF Step, Running, RunSteps

CountersOK == calls \in 0..MaxCalls /\ faults \in 0..MaxFaults

LEMMA CountersStep ==
  ASSUME CountersOK, Step
  PROVE  CountersOK'
<1>1. calls' = calls \/ (calls < MaxCalls /\ calls' = calls + 1)
  <2>1. \A q \in Requests : SubSteps(q) => UNCHANGED calls
    BY Zenon DEF SubSteps, Locks, FetchFails, NotModified, Install, Reconciles, Syncs, Undoes, Drops, DropsMembers,
       DropsRules, StoresPool
  <2>2. \A q \in Requests : RunSteps(q) => UNCHANGED calls
    BY Zenon DEF RunSteps, SkipsReload, Reloads, CannotReload, Starts, CannotStart
  <2>3. \A q \in Requests, g \in Goals : Apply(q, g) => calls < MaxCalls /\ calls' = calls + 1
    BY Zenon DEF Apply, Begins
  <2>4. \A q \in Requests : Begun(q) => calls < MaxCalls /\ calls' = calls + 1
    BY Zenon DEF Begun, Begins, Passes, Create, Delete, Refresh, SetRule, CreatePool
  <2>5. Edits => calls < MaxCalls /\ calls' = calls + 1
    BY Zenon DEF Edits, Passes, Activate, Update, SelectNode, ImportNodes, DeletePool, UpdatePool
  <2>6. CoreCrashes \/ CoreRecovers \/ CoreGivesUp \/ Stop
          => UNCHANGED calls \/ (calls < MaxCalls /\ calls' = calls + 1)
    BY Zenon DEF CoreCrashes, CoreRecovers, CoreGivesUp, Stop, Passes
  <2> QED BY <2>1, <2>2, <2>3, <2>4, <2>5, <2>6 DEF Step, Running
<1>2. faults' = faults \/ (faults < MaxFaults /\ faults' = faults + 1)
  <2>1. \A q \in Requests : SubSteps(q) => NoFault \/ Fault
    BY Zenon DEF SubSteps, SubsWrite, Locks, FetchFails, NotModified, Install, Reconciles, Syncs, Undoes, Drops,
       DropsMembers, DropsRules, StoresPool, NoFault
  <2>2. \A q \in Requests : RunSteps(q) => NoFault \/ Fault
    BY Zenon DEF RunSteps, SkipsReload, Reloads, CannotReload, Starts, CannotStart, Settles, SettlesPartly, NoFault
  <2>3. \A q \in Requests, g \in Goals : Apply(q, g) => NoFault
    BY Zenon DEF Apply, Settles
  <2>4. \A q \in Requests : Begun(q) => NoFault \/ Fault
    BY Zenon DEF Begun, Create, Delete, Refresh, SetRule, CreatePool, NoFault
  <2>5. Edits => NoFault \/ Fault
    BY Zenon DEF Edits, SubsWrite, PoolsWrite, Activate, Update, SelectNode, ImportNodes, DeletePool, UpdatePool, NoFault
  <2>6. CoreCrashes \/ CoreRecovers \/ CoreGivesUp \/ Stop => NoFault
    BY Zenon DEF CoreCrashes, CoreRecovers, CoreGivesUp, Stop, CoreChanges, NoFault
  <2> QED BY <2>1, <2>2, <2>3, <2>4, <2>5, <2>6 DEF Step, Running, NoFault, Fault
<1> QED BY <1>1, <1>2, SubscriptionsAssumption DEF CountersOK

-----------------------------------------------------------------------------
(* What is uncleaned, and the members of the pools.                        *)

UncleanedOK == uncleaned \subseteq Subs \X {"members", "rules"}

LEMMA UncleanedFrame ==
  ASSUME Step
  PROVE  UNCHANGED uncleaned \/ \E q \in Requests : PoolSteps(q) \/ DropsRules(q)
<1>1. \A q \in Requests : SubSteps(q) => UNCHANGED uncleaned \/ PoolSteps(q) \/ DropsRules(q)
  BY Zenon DEF SubSteps, PoolSteps, Locks, FetchFails, NotModified, Install, Syncs, Undoes, Drops
<1>2. \A q \in Requests : Begun(q) => UNCHANGED uncleaned
  BY Zenon DEF Begun, Create, Delete, Refresh, SetRule, CreatePool
<1>3. Edits => UNCHANGED uncleaned
  BY Zenon DEF Edits, Activate, Update, SelectNode, ImportNodes, DeletePool, UpdatePool
<1>4. Running => UNCHANGED uncleaned
  BY Zenon DEF Running, RunSteps, SkipsReload, Reloads, CannotReload, Starts, CannotStart, Apply,
     CoreCrashes, CoreRecovers, CoreGivesUp, Stop, CoreChanges
<1> QED BY <1>1, <1>2, <1>3, <1>4 DEF Step

LEMMA UncleanedStep ==
  ASSUME UncleanedOK, RequestType, RequestInv, Step
  PROVE  UncleanedOK'
<1>1. ASSUME NEW q \in Requests, Reconciles(q) \/ DropsMembers(q) \/ DropsRules(q) PROVE UncleanedOK'
  <2>1. req[q].s \in Subs
    BY <1>1 DEF Reconciles, DropsMembers, DropsRules, RequestInv, RequestOK, Named, Owning
  <2> QED BY <1>1, <2>1 DEF Reconciles, DropsMembers, DropsRules, UncleanedOK
<1>2. ASSUME NEW q \in Requests, StoresPool(q) PROVE UncleanedOK'
  <2>1. \A m \in req[q].ms : m[1] \in Subs
    BY RequestFields DEF Members
  <2> QED BY <1>2, <2>1 DEF StoresPool, UncleanedOK
<1> QED BY <1>1, <1>2, UncleanedFrame DEF PoolSteps, UncleanedOK

(* Who is at work on the pools stays so, but for the steps that do it.     *)
Undisturbed ==
  \A r \in Requests : req[r].at \in {"pools", "dropPools"} => req'[r] = req[r]

LEMMA Undisturbing ==
  ASSUME RequestType, RequestInv, SubsMove, ChoiceInv, Step
  PROVE  Undisturbed \/ \E q \in Requests : Reconciles(q) \/ DropsMembers(q)
<1>1. ASSUME NEW q \in Requests, WorkOf(q), ~Reconciles(q), ~DropsMembers(q) PROVE Undisturbed
  <2>1. SubSteps(q) => req[q].at \notin {"pools", "dropPools"}
    BY <1>1 DEF SubSteps, Locks, FetchFails, NotModified, Install, Syncs, Undoes, Drops, DropsRules, StoresPool
  <2>2. Begun(q) => req[q] = Idle
    BY Zenon DEF Begun, Create, Delete, Refresh, SetRule, CreatePool, Begins
  <2>3. RunSteps(q) => req[q].at \notin {"pools", "dropPools"}
    BY DEF RunSteps, SkipsReload, Reloads, CannotReload, Starts, CannotStart
  <2>4. \A g \in Goals : Apply(q, g) => req[q] = Idle
    BY DEF Apply, Begins
  <2>5. req[q].at \notin {"pools", "dropPools"}
    BY <1>1, <2>1, <2>2, <2>3, <2>4 DEF WorkOf, Idle
  <2>6. Others(q)
    BY <1>1, SubAdvance, RunAdvance DEF WorkOf, Advance
  <2> QED BY <2>5, <2>6 DEF Undisturbed, Others
<1>2. CASE Passing
  BY <1>2, PassingKeeps DEF Undisturbed
<1> QED BY <1>1, <1>2, StepIs

LEMMA ExcusedStays ==
  ASSUME ChoiceInv, ChoiceInv', RequestInv, SubsMove, Undisturbed, uncleaned \subseteq uncleaned',
         NEW m \in Members, Excused(m)
  PROVE  Excused(m)'
<1>1. m[1] \in Subs /\ m[2] \in Nodes
  BY DEF Members
<1>2. CASE m \in There(subs)
  <2>1. subs[m[1]].state = "live" /\ m[2] \in NodesIn(subs[m[1]])
    BY <1>2 DEF There, LiveIn
  <2>2. CASE subs'[m[1]].state = "live" /\ m[2] \in NodesIn(subs'[m[1]])
    BY <1>1, <2>2 DEF Excused, There, LiveIn
  <2>3. CASE SameNodes(subs', m[1])
    BY <2>1, <2>2, <2>3 DEF SameNodes, NodesIn
  <2>4. CASE \E q \in Requests : /\ req[q].at = "fetch" /\ req[q].s = m[1] /\ req'[q].s = m[1]
                               /\ req'[q].at = "pools" /\ req'[q].prev = NodesIn(subs[m[1]])
    BY <2>1, <2>4 DEF Excused
  <2>5. CASE \E q \in Requests : req'[q].at = "dropPools" /\ req'[q].s = m[1]
    BY <2>5 DEF Excused
  <2> QED BY <1>1, <2>1, <2>2, <2>3, <2>4, <2>5 DEF SubsMove
<1>3. CASE <<m[1], "members">> \in uncleaned
  BY <1>3 DEF Excused
<1>4. CASE \/ \E q \in Requests : req[q].s = m[1] /\ req[q].at = "dropPools"
           \/ \E q \in Requests : req[q].s = m[1] /\ req[q].at = "pools" /\ m[2] \in req[q].prev
  BY <1>4 DEF Excused, Undisturbed
<1>5. \/ m \in There(subs)
      \/ <<m[1], "members">> \in uncleaned
      \/ \E q \in Requests : req[q].s = m[1] /\ req[q].at = "dropPools"
      \/ \E q \in Requests : req[q].s = m[1] /\ req[q].at = "pools" /\ m[2] \in req[q].prev
  BY DEF Excused
<1> QED BY <1>2, <1>3, <1>4, <1>5

LEMMA MembersStep ==
  ASSUME MembersInv, PoolsOK, ChoiceInv, ChoiceInv', RequestType, RequestInv, SubsMove, Step
  PROVE  MembersInv'
<1>1. ASSUME NEW k \in Pools, Stored(k), NEW m \in pools[k] PROVE m \in Members /\ Excused(m)
  BY <1>1 DEF PoolsOK, PoolTable, Stored, MembersInv
<1>2. ASSUME PoolsKept, uncleaned \subseteq uncleaned', Undisturbed PROVE MembersInv'
  BY <1>1, <1>2, ExcusedStays DEF PoolsKept, poolVars, MembersInv, Stored
<1>3. ASSUME NEW q \in Requests, NEW s \in Subs, req[q].s = s, Others(q), UNCHANGED subs,
             NEW m \in Members, Excused(m),
             m[1] = s => <<s, "members">> \in uncleaned' \/ m \in There(subs)
                         \/ \E r \in Requests : r # q /\ req[r].s = s /\ req[r].at = "dropPools",
             m[1] # s => (<<m[1], "members">> \in uncleaned => <<m[1], "members">> \in uncleaned')
      PROVE Excused(m)'
  <2>1. There(subs') = There(subs)
    BY <1>3
  <2>2. \/ m \in There(subs) \/ <<m[1], "members">> \in uncleaned'
        \/ \E r \in Requests : /\ r # q /\ req[r].s = m[1]
                              /\ \/ req[r].at = "dropPools"
                                 \/ req[r].at = "pools" /\ m[2] \in req[r].prev
    BY <1>3 DEF Excused
  <2> QED BY <1>3, <2>1, <2>2 DEF Others, Excused
<1>4. ASSUME NEW q \in Requests, Reconciles(q) PROVE MembersInv'
  <2> DEFINE s == req[q].s
             prev == req[q].prev
             cur == NodesIn(subs[s])
             table == ReconcileSubscriptionNodes(s, prev, cur)
  <2>1. /\ req[q].at = "pools" /\ s \in Subs /\ subs[s].state = "live" /\ lock[s] = q
        /\ prev \in SUBSET Nodes
    BY <1>4, RequestFields DEF Reconciles, RequestInv, RequestOK, Named, Owning, Live, LiveIn
  <2>2. UNCHANGED subs /\ uncleaned \subseteq uncleaned'
    BY <1>4 DEF Reconciles, SubsKept, RecordError
  <2>3. cur \in SUBSET Nodes
    BY <2>1, NodesInType DEF ChoiceInv, SubTable
  <2>4. Others(q)
    <3>1. CASE Fails(q)
      BY <3>1, Failing
    <3>2. CASE req' = [req EXCEPT ![q].at = "rules", ![q].prev = {}]
      BY <3>2 DEF Others, RequestType
    <3> QED BY <1>4, <3>1, <3>2 DEF Reconciles
  <2>5. CASE PoolsBecome(table)
    <3>1. SUFFICES ASSUME NEW k \in Pools, table[k] # Absent, NEW m \in table[k]
                   PROVE Excused(m)'
      BY <2>5 DEF MembersInv, Stored, PoolsBecome
    <3>2. Stored(k) /\ m \in Remapped(pools[k], s, prev, cur)
      BY <3>1 DEF ReconcileSubscriptionNodes
    <3>3. pools[k] \in SUBSET Members
      BY <3>2 DEF PoolsOK, PoolTable, Stored
    <3>4. /\ m \in Members
          /\ \/ m[1] # s /\ m \in pools[k]
             \/ m[1] = s /\ m[2] \in cur
             \/ m[1] = s /\ m \in pools[k] /\ m[2] \notin prev
      BY <2>1, <2>3, <3>2, <3>3, RemappedIn
    <3>5. CASE m[1] # s /\ m \in pools[k]
      BY <1>1, <1>3, <2>1, <2>2, <2>4, <3>2, <3>4, <3>5
    <3>6. CASE m[1] = s /\ m[2] \in cur
      BY <2>1, <2>2, <3>4, <3>6 DEF Excused, There, LiveIn
    <3>7. CASE m[1] = s /\ m \in pools[k] /\ m[2] \notin prev
      <4>1. Excused(m)
        BY <1>1, <3>2, <3>7
      <4>2. ASSUME NEW r \in Requests, req[r].s = s, req[r].at = "pools", m[2] \in req[r].prev
            PROVE FALSE
        <5>1. lock[s] = r
          BY <4>2 DEF RequestInv, RequestOK, Owning
        <5> QED BY <2>1, <3>7, <4>2, <5>1
      <4>3. \/ m \in There(subs) \/ <<s, "members">> \in uncleaned
            \/ \E r \in Requests : r # q /\ req[r].s = s /\ req[r].at = "dropPools"
        BY <2>1, <3>7, <4>1, <4>2 DEF Excused
      <4> QED BY <1>3, <2>1, <2>2, <2>4, <3>4, <3>7, <4>1, <4>3
    <3> QED BY <3>4, <3>5, <3>6, <3>7
  <2>6. CASE PoolsKept /\ uncleaned' = uncleaned \union {<<s, "members">>}
    <3>1. SUFFICES ASSUME NEW k \in Pools, Stored(k), NEW m \in pools[k] PROVE Excused(m)'
      BY <2>6 DEF MembersInv, Stored, PoolsKept, poolVars
    <3>2. m \in Members /\ Excused(m)
      BY <1>1, <3>1
    <3>3. <<s, "members">> \in uncleaned'
      BY <2>6
    <3> QED BY <1>3, <2>1, <2>2, <2>4, <3>2, <3>3
  <2> QED BY <1>4, <2>5, <2>6 DEF Reconciles
<1>5. ASSUME NEW q \in Requests, DropsMembers(q) PROVE MembersInv'
  <2> DEFINE s == req[q].s
             table == DeleteSubscriptionMembers(s)
  <2>1. req[q].at = "dropPools" /\ s \in Subs /\ UNCHANGED subs
    BY <1>5 DEF DropsMembers, RequestInv, RequestOK, Named
  <2>2. Others(q)
    BY <1>5, Moving DEF DropsMembers, Places
  <2>3. CASE PoolsBecome(table) /\ uncleaned' = uncleaned \ {<<s, "members">>}
    <3>1. SUFFICES ASSUME NEW k \in Pools, table[k] # Absent, NEW m \in table[k]
                   PROVE Excused(m)'
      BY <2>3 DEF MembersInv, Stored, PoolsBecome
    <3>2. Stored(k) /\ m \in pools[k] /\ m[1] # s
      BY <3>1 DEF DeleteSubscriptionMembers
    <3>3. m \in Members /\ Excused(m)
      BY <1>1, <3>2
    <3> QED BY <1>3, <2>1, <2>2, <2>3, <3>2, <3>3
  <2>4. CASE PoolsKept /\ uncleaned' = uncleaned \union {<<s, "members">>}
    <3>1. SUFFICES ASSUME NEW k \in Pools, Stored(k), NEW m \in pools[k] PROVE Excused(m)'
      BY <2>4 DEF MembersInv, Stored, PoolsKept, poolVars
    <3>2. m \in Members /\ Excused(m)
      BY <1>1, <3>1
    <3> QED BY <1>3, <2>1, <2>2, <2>4, <3>2
  <2> QED BY <1>5, <2>3, <2>4 DEF DropsMembers
<1>6. ASSUME Undisturbed, uncleaned \subseteq uncleaned', NEW p \in Pools, NEW ms,
             pools' = [pools EXCEPT ![p] = ms], ms = Absent \/ \A m \in ms : Excused(m)'
      PROVE MembersInv'
  <2>1. SUFFICES ASSUME NEW k \in Pools, pools'[k] # Absent, NEW m \in pools'[k] PROVE Excused(m)'
    BY DEF MembersInv, Stored
  <2>2. CASE k = p
    BY <1>6, <2>1, <2>2 DEF PoolsOK, PoolTable
  <2>3. CASE k # p
    <3>1. pools'[k] = pools[k]
      BY <1>6, <2>3 DEF PoolsOK, PoolTable
    <3>2. m \in Members /\ Excused(m)
      BY <1>1, <2>1, <3>1 DEF Stored
    <3> QED BY <1>6, <3>2, ExcusedStays
  <2> QED BY <2>2, <2>3
<1>7. ASSUME NEW q \in Requests, StoresPool(q), Undisturbed PROVE MembersInv'
  <2>1. req[q].p \in Pools /\ UNCHANGED subs /\ uncleaned \subseteq uncleaned'
    BY <1>7 DEF StoresPool, RequestInv, RequestOK
  <2>2. CASE PoolsKept
    BY <1>2, <1>7, <2>1, <2>2
  <2>3. CASE /\ PoolsBecome([pools EXCEPT ![req[q].p] = req[q].ms])
             /\ uncleaned' = uncleaned \union {<<m[1], "members">> : m \in req[q].ms \ There(subs)}
    <3>1. \A m \in req[q].ms : Excused(m)'
      BY <2>1, <2>3 DEF Excused
    <3> QED BY <1>6, <1>7, <2>1, <2>3, <3>1 DEF PoolsBecome
  <2> QED BY <1>7, <2>2, <2>3 DEF StoresPool
<1>8. ASSUME NEW p \in Pools, NEW ms \in SUBSET There(subs), UpdatePool(p, ms), Undisturbed
      PROVE MembersInv'
  <2>1. UNCHANGED <<subs, uncleaned>>
    BY <1>8 DEF UpdatePool
  <2>2. \A m \in ms : Excused(m)'
    BY <2>1 DEF Excused
  <2> QED BY <1>2, <1>6, <1>8, <2>1, <2>2 DEF UpdatePool, PoolsWrite, PoolsBecome
<1>9. ASSUME NEW p \in Pools, DeletePool(p), Undisturbed PROVE MembersInv'
  BY <1>2, <1>6, <1>9 DEF DeletePool, PoolsWrite, PoolsBecome
<1>10. CASE Undisturbed /\ PoolsKept
  <2>1. CASE uncleaned \subseteq uncleaned'
    BY <1>2, <1>10, <2>1
  <2>2. CASE \E q \in Requests : DropsRules(q)
    <3>1. PICK q \in Requests : DropsRules(q)
      BY <2>2
    <3>2. SUFFICES ASSUME NEW k \in Pools, Stored(k), NEW m \in pools[k] PROVE Excused(m)'
      BY <1>10 DEF MembersInv, Stored, PoolsKept, poolVars
    <3>3. m \in Members /\ Excused(m)
      BY <1>1, <3>2
    <3>4. UNCHANGED subs /\ \A x \in Subs : <<x, "members">> \in uncleaned => <<x, "members">> \in uncleaned'
      BY <3>1 DEF DropsRules
    <3> QED BY <1>10, <3>3, <3>4 DEF Excused, Undisturbed, Members
  <2> QED BY <1>4, <1>5, <1>7, <1>10, <2>1, <2>2, UncleanedFrame DEF PoolSteps
<1> QED BY <1>4, <1>5, <1>7, <1>8, <1>9, <1>10, PoolsFrame, Undisturbing DEF PoolSteps, PoolEdits

-----------------------------------------------------------------------------
(* The rules of subscriptions that are gone.                               *)

LEMMA OrphansStep ==
  ASSUME OrphansInv, RulesOK, ChoiceInv, RequestType, RequestInv, SubsMove, Step
  PROVE  OrphansInv'
<1>1. SUFFICES ASSUME NEW s \in Subs, s \notin Live'
               PROVE  (rules[s] = NoRules \/ <<s, "rules">> \in uncleaned
                        \/ Pending(s, {"dropPools", "dropRules"}))'
  BY DEF OrphansInv
<1> DEFINE Late == Pending(s, {"dropPools", "dropRules"})
<1>2. \/ s \notin Live
      \/ \E q \in Requests : req'[q].at = "dropPools" /\ req'[q].s = s
  BY <1>1 DEF SubsMove, SameNodes, Live, LiveIn
<1>3. CASE \E q \in Requests : req'[q].at = "dropPools" /\ req'[q].s = s
  BY <1>3 DEF Pending
<1>4. ASSUME s \notin Live PROVE rules[s] = NoRules \/ <<s, "rules">> \in uncleaned \/ Late
  BY <1>4 DEF OrphansInv
<1>5. ASSUME NEW q \in Requests, DropsRules(q), req[q].s = s
      PROVE  (rules[s] = NoRules \/ <<s, "rules">> \in uncleaned)'
  BY <1>5 DEF DropsRules, RulesBecome, DeleteSubscriptionRules, RulesOK, RuleTable
<1>6. ASSUME \A q \in Requests : DropsRules(q) => req[q].s # s, s \notin Live, rules[s] = NoRules
      PROVE  rules'[s] = NoRules
  <2>1. CASE RulesKept
    BY <1>6, <2>1 DEF RulesKept, ruleVars
  <2>2. ASSUME NEW q \in Requests, NEW x \in Subs, NEW r, x # s, RulesBecome([rules EXCEPT ![x] = r])
        PROVE rules'[s] = NoRules
    BY <1>6, <2>2 DEF RulesBecome, RulesOK, RuleTable
  <2>3. ASSUME NEW q \in Requests, Syncs(q) PROVE rules'[s] = NoRules
    <3>1. req[q].s \in Live
      BY <2>3 DEF Syncs, RequestInv, RequestOK, Owning
    <3>2. req[q].s \in Subs /\ req[q].s # s
      BY <1>6, <3>1 DEF Live, LiveIn
    <3>3. RulesKept \/ \E all, ok : RulesBecome(SyncSubscriptionRules(req[q].s, all, ok))
      BY <2>3 DEF Syncs
    <3> QED BY <2>1, <2>2, <3>2, <3>3 DEF SyncSubscriptionRules
  <2>4. ASSUME NEW q \in Requests, DropsRules(q) PROVE rules'[s] = NoRules
    <3>1. req[q].s \in Subs /\ req[q].s # s
      BY <1>6, <2>4 DEF DropsRules, RequestInv, RequestOK, Named
    <3> QED BY <2>1, <2>2, <2>4, <3>1 DEF DropsRules, DeleteSubscriptionRules
  <2>5. ASSUME NEW q \in Requests, NEW x \in Subs, NEW r \in Rules, SetRule(q, x, r)
        PROVE rules'[s] = NoRules
    <3>1. x # s
      BY <1>6, <2>5 DEF SetRule, NoRules
    <3>2. RulesKept \/ \E on : RulesBecome([rules EXCEPT ![x].on = on])
      BY <2>5 DEF SetRule, Decisions
    <3> QED BY <2>1, <3>1, <3>2, <1>6 DEF RulesBecome, RulesOK, RuleTable
  <2> QED BY <2>1, <2>3, <2>4, <2>5, RulesFrame DEF RuleSteps
<1>7. ASSUME \A q \in Requests : DropsRules(q) => req[q].s # s, <<s, "rules">> \in uncleaned
      PROVE  <<s, "rules">> \in uncleaned'
  BY <1>7, UncleanedFrame DEF PoolSteps, Reconciles, DropsMembers, DropsRules, StoresPool
<1>8. ASSUME \A q \in Requests : DropsRules(q) => req[q].s # s, Late
      PROVE  Late'
  <2>1. PICK q \in Requests : req[q].s = s /\ req[q].at \in {"dropPools", "dropRules"}
    BY <1>8 DEF Pending
  <2>2. CASE req'[q] = req[q]
    BY <2>1, <2>2 DEF Pending
  <2>3. CASE DropsMembers(q)
    <3>1. To(q, "dropRules")
      BY <2>3, Moving DEF DropsMembers, Places
    <3> QED BY <2>1, <3>1 DEF Pending, To
  <2>4. ASSUME WorkOf(q) PROVE DropsMembers(q) \/ DropsRules(q)
    <3>1. SubSteps(q) => DropsMembers(q) \/ DropsRules(q)
      BY <2>1 DEF SubSteps, Locks, FetchFails, NotModified, Install, Reconciles, Syncs, Undoes, Drops, StoresPool
    <3>2. ~ Begun(q) /\ ~ \E g \in Goals : Apply(q, g)
      <4>1. Begun(q) \/ (\E g \in Goals : Apply(q, g)) => req[q] = Idle
        BY Zenon DEF Begun, Create, Delete, Refresh, SetRule, CreatePool, Begins, Apply
      <4> QED BY <2>1, <4>1 DEF Idle
    <3>3. ~ RunSteps(q)
      BY <2>1 DEF RunSteps, SkipsReload, Reloads, CannotReload, Starts, CannotStart
    <3> QED BY <2>4, <3>1, <3>2, <3>3 DEF WorkOf
  <2>5. ASSUME NEW r \in Requests, r # q, WorkOf(r) PROVE req'[q] = req[q]
    BY <2>5, SubAdvance, RunAdvance DEF WorkOf, Advance, Others
  <2>6. Passing => req'[q] = req[q]
    BY PassingKeeps
  <2> QED BY <1>8, <2>1, <2>2, <2>3, <2>4, <2>5, <2>6, StepIs
<1> QED BY <1>2, <1>3, <1>4, <1>5, <1>6, <1>7, <1>8

-----------------------------------------------------------------------------
(* The rules in force.                                                     *)

LEMMA ForceStep ==
  ASSUME ForceInv, CoreType, RulesOK, ChoiceInv, RequestType, RequestInv, RequestInv', SubsMove, Step
  PROVE  ForceInv'
<1>1. \A q \in Requests : q # None /\ (req[q].at = "start" <=> opMu = q)
                                   /\ (req'[q].at = "start" <=> opMu' = q)
  BY SubscriptionsAssumption DEF RequestInv, RequestOK
<1>2. ASSUME opMu' = None, stale' = TRUE \/ core'.state = "off" PROVE ForceInv'
  BY <1>1, <1>2 DEF ForceInv
<1>3. Enabled(rules) \in [Subs -> SUBSET Rules] /\ (RulesKept => Enabled(rules)' = Enabled(rules))
  BY BasicRuns DEF RulesKept, ruleVars, Enabled
<1>4. CASE RunKept /\ ((\E q \in Requests : SubSteps(q) \/ Begun(q)) \/ Edits)
  <2>1. UNCHANGED <<core, opMu, plan, stale>>
    BY <1>4 DEF RunKept, runVars
  <2>2. CASE ToReload'
    BY <2>2 DEF ForceInv
  <2>3. CASE RulesKept /\ (ToReload => ToReload')
    <3>1. Enabled(rules)' = Enabled(rules)
      BY <2>3 DEF RulesKept, ruleVars, Enabled
    <3> QED BY <1>1, <2>1, <2>3, <3>1 DEF ForceInv
  <2>4. RulesKept \/ ToReload'
    <3>1. ASSUME NEW q \in Requests, RuleSteps(q) PROVE RulesKept \/ ToReload'
      <4>1. CASE Moves(q, "reload")
        BY <4>1, Moving DEF Places, To, ToReload
      <4>2. ASSUME NEW s \in Subs, Begins(q, "rule", "reload", s) PROVE ToReload'
        BY <4>2, Beginning DEF Places, Ops, ToReload
      <4> QED BY <3>1, <4>1, <4>2 DEF RuleSteps, Syncs, DropsRules, SetRule
    <3> QED BY <3>1, RulesFrame
  <2>5. ASSUME ToReload PROVE ToReload'
    <3>1. PICK r \in Requests : req[r].at = "reload"
      BY <2>5 DEF ToReload
    <3>2. ASSUME NEW q \in Requests, SubSteps(q) \/ Begun(q) PROVE req'[r] = req[r]
      <4>1. SubSteps(q) => req[q].at # "reload"
        BY DEF SubSteps, Locks, FetchFails, NotModified, Install, Reconciles, Syncs, Undoes, Drops, DropsMembers,
           DropsRules, StoresPool
      <4>2. Begun(q) => req[q] = Idle
        BY Zenon DEF Begun, Create, Delete, Refresh, SetRule, CreatePool, Begins
      <4>3. r # q
        BY <3>1, <3>2, <4>1, <4>2 DEF Idle
      <4>4. Others(q)
        BY <1>4, <3>2, SubAdvance DEF Advance
      <4> QED BY <4>3, <4>4 DEF Others
    <3>3. Edits => req' = req
      BY <1>4, PassingKeeps DEF Passing
    <3>4. req'[r] = req[r]
      BY <1>4, <3>2, <3>3
    <3> QED BY <3>1, <3>4 DEF ToReload
  <2> QED BY <2>2, <2>3, <2>4, <2>5
<1>5. ASSUME NEW q \in Requests, SkipsReload(q) PROVE ForceInv'
  <2>1. opMu' = None /\ UNCHANGED core /\ stale' = (stale \/ core.state = "backoff")
    BY <1>5 DEF SkipsReload
  <2>2. core.state = "off" \/ core.state = "backoff"
    BY <1>5 DEF SkipsReload, CoreType
  <2>3. core.state = "backoff" => stale' = TRUE
    BY <2>1
  <2> QED BY <1>2, <2>1, <2>2, <2>3
<1>6. ASSUME NEW q \in Requests, opMu' = q, RulesKept, plan'.on = Enabled(rules) PROVE ForceInv'
  BY <1>1, <1>3, <1>6 DEF ForceInv
<1>7. ASSUME NEW q \in Requests, Reloads(q) \/ \E g \in Goals : Apply(q, g) PROVE ForceInv'
  <2>1. opMu' = q /\ RulesKept /\ \E g : plan' = [goal |-> g, on |-> Enabled(rules)]
    BY <1>7 DEF Reloads, Apply, StoresKept
  <2> QED BY <1>6, <2>1
<1>8. ASSUME NEW q \in Requests, CannotReload(q) PROVE ForceInv'
  <2>1. opMu' = None /\ stale' = TRUE
    BY <1>8 DEF CannotReload, ReloadFails
  <2> QED BY <1>2, <2>1
<1>9. ASSUME NEW q \in Requests, CannotStart(q) PROVE ForceInv'
  <2>1. opMu' = None /\ stale' = TRUE
    BY <1>9 DEF CannotStart, ReloadFails
  <2> QED BY <1>2, <2>1
<1>10. ASSUME NEW q \in Requests, Starts(q) PROVE ForceInv'
  <2>1. req[q].at = "start" /\ opMu' = None /\ core'.on = plan.on /\ RulesKept /\ Ends(q)
    BY <1>10 DEF Starts, StoresKept, ReloadEnds
  <2>2. ASSUME ToReload PROVE ToReload'
    BY <2>1, <2>2, Ending DEF ToReload, Others
  <2>3. core'.on = Enabled(rules)' \/ ToReload'
    BY <1>3, <2>1, <2>2 DEF ForceInv
  <2> QED BY <1>1, <2>1, <2>3 DEF ForceInv
<1>11. CASE CoreCrashes \/ CoreRecovers \/ CoreGivesUp \/ Stop
  <2>1. UNCHANGED <<req, opMu, plan, stale>> /\ RulesKept
    BY <1>11 DEF CoreCrashes, CoreRecovers, CoreGivesUp, Stop, CoreChanges, Passes, StoresKept
  <2>2. core'.state = "off" \/ (core.state # "off" /\ core'.on = core.on)
    BY <1>11 DEF CoreCrashes, CoreRecovers, CoreGivesUp, Stop, CoreChanges, Off, CoreType
  <2>3. ToReload' = ToReload
    BY <2>1 DEF ToReload
  <2> QED BY <1>1, <1>3, <2>1, <2>2, <2>3 DEF ForceInv
<1> QED BY <1>4, <1>5, <1>7, <1>8, <1>9, <1>10, <1>11 DEF Step, Running, RunSteps

-----------------------------------------------------------------------------
(* The inductive invariant.                                                *)

CatalogInv ==
  /\ ChoiceInv /\ RequestType /\ RequestInv
  /\ PoolsOK /\ RulesOK /\ CoreType /\ CountersOK /\ UncleanedOK
  /\ MembersInv /\ OrphansInv /\ ForceInv

(* The program has just started.                                           *)
Fresh ==
  /\ ChoiceInv /\ PoolsOK /\ RulesOK /\ CountersOK
  /\ req = [q \in Requests |-> Idle] /\ lock = [s \in Subs |-> None]
  /\ core = Off /\ opMu = None /\ plan = NoPlan /\ stale = FALSE /\ uncleaned = {}
  /\ \A p \in Pools : Stored(p) => pools[p] \subseteq There(subs)
  /\ \A s \in Subs \ Live : rules[s] = NoRules

LEMMA FreshInv == Fresh => CatalogInv
<1> SUFFICES ASSUME Fresh PROVE CatalogInv
  OBVIOUS
<1>1. RequestType
  BY DEF Fresh, RequestType, Request, Idle, Ops, Places
<1>2. RequestInv
  BY SubscriptionsAssumption DEF Fresh, RequestInv, RequestOK, Idle, Named, Owning
<1>3. CoreType
  BY BasicRuns DEF Fresh, CoreType, Cores
<1>4. UncleanedOK
  BY DEF Fresh, UncleanedOK
<1>5. MembersInv
  BY DEF Fresh, MembersInv, Excused
<1>6. OrphansInv
  BY DEF Fresh, OrphansInv
<1>7. ForceInv
  BY DEF Fresh, ForceInv, Idle, Off
<1> QED BY <1>1, <1>2, <1>3, <1>4, <1>5, <1>6, <1>7 DEF CatalogInv, Fresh

LEMMA CatalogStarts == CatalogInit => CatalogInv
<1> SUFFICES ASSUME CatalogInit PROVE Fresh
  BY FreshInv
<1>1. PICK f \in Saved : subs = f.subs /\ pools = f.pools /\ rules = f.rules
  BY DEF CatalogInit, SubsInit
<1>2. /\ subs \in SubTable /\ pools \in PoolTable /\ rules \in RuleTable
      /\ ValidSubs(subs) /\ NothingDanglesIn(subs, pools, rules) /\ Compiles(rules)
  BY <1>1, SubscriptionsAssumption
<1>3. ChoiceInv
  BY <1>2, ValidIs DEF ChoiceInv, CatalogInit, SubsInit
<1>4. PoolsOK /\ RulesOK
  BY <1>2 DEF PoolsOK, RulesOK, CatalogInit, SubsInit
<1>5. CountersOK
  BY SubscriptionsAssumption DEF CountersOK, CatalogInit, SubsInit
<1>6. /\ \A p \in Pools : Stored(p) => pools[p] \subseteq There(subs)
      /\ \A s \in Subs \ Live : rules[s] = NoRules
  BY <1>2 DEF NothingDanglesIn, Stored, Live
<1> QED BY <1>3, <1>4, <1>5, <1>6 DEF Fresh, CatalogInit, SubsInit

LEMMA RestartStep ==
  ASSUME CatalogInv, Restart
  PROVE  CatalogInv'
<1>1. ChoiceInv'
  BY DEF CatalogInv, ChoiceInv, Restart
<1>2. There(subs') = There(subFile) /\ Live' = LiveIn(subFile)
  BY DEF Restart, Live
<1>3. poolFile = pools /\ \A p \in Pools : pools[p] = Absent \/ pools[p] \in SUBSET Members
  BY DEF CatalogInv, PoolsOK, PoolTable
<1>4. PoolsOK' /\ \A p \in Pools : pools'[p] # Absent => pools'[p] \subseteq There(subs')
  <2> DEFINE table == ReconcileReferences(There(subFile))
  <2>1. table \in PoolTable
    <3>1. ASSUME NEW p \in Pools PROVE table[p] \in (SUBSET Members) \union {Absent}
      <4>1. table[p] = IF pools[p] = Absent THEN Absent ELSE pools[p] \intersect There(subFile)
        BY <1>3, Zenon DEF ReconcileReferences
      <4> HIDE DEF table
      <4> QED BY <1>3, <4>1
    <3> QED BY <3>1 DEF ReconcileReferences, PoolTable
  <2>2. \A p \in Pools : table[p] # Absent => table[p] \subseteq There(subFile)
    BY DEF ReconcileReferences
  <2>3. pools' = table /\ poolFile' = table
    BY DEF Restart, PoolsBecome
  <2> QED BY <1>2, <2>1, <2>2, <2>3 DEF PoolsOK
<1>5. RulesOK' /\ \A s \in Subs \ Live' : rules'[s] = NoRules
  <2> DEFINE table == ReconcileSubscriptionRules(LiveIn(subFile))
  <2>1. NoRules \in RuleRecord /\ NoRules.on \subseteq NoRules.ok
    BY DEF NoRules, RuleRecord
  <2>2. ruleFile = rules /\ rules \in RuleTable /\ Compiles(rules)
    BY DEF CatalogInv, RulesOK
  <2>3. \A s \in Subs : table[s] = IF s \in LiveIn(subFile) THEN rules[s] ELSE NoRules
    BY <2>2 DEF ReconcileSubscriptionRules
  <2>4. table = [s \in Subs |-> table[s]]
    BY DEF ReconcileSubscriptionRules
  <2> HIDE DEF table
  <2>5. table \in RuleTable /\ Compiles(table)
    BY <2>1, <2>2, <2>3, <2>4 DEF RuleTable, Compiles
  <2>6. rules' = table /\ ruleFile' = table
    BY DEF Restart, RulesBecome, table
  <2> QED BY <1>2, <2>3, <2>5, <2>6 DEF RulesOK, Compiles
<1>6. CountersOK'
  BY SubscriptionsAssumption DEF CatalogInv, CountersOK, Restart
<1>7. Fresh'
  BY <1>1, <1>4, <1>5, <1>6 DEF Fresh, Restart, Stored
<1>8. Fresh' => CatalogInv'
  BY FreshInv, PTL
<1> QED BY <1>7, <1>8

LEMMA CatalogSteps ==
  ASSUME CatalogInv, [Next]_vars
  PROVE  CatalogInv'
<1>1. CASE Step
  <2>1. ChoiceInv' /\ SubsMove
    BY <1>1, ChoiceStep DEF CatalogInv
  <2>2. RequestType' /\ RequestInv'
    BY <1>1, <2>1, RequestStep DEF CatalogInv
  <2> QED BY <1>1, <2>1, <2>2, PoolsStep, RulesStep, CoreStep, CountersStep, UncleanedStep, MembersStep,
             OrphansStep, ForceStep DEF CatalogInv
<1>2. CASE Restart
  BY <1>2, RestartStep
<1>3. CASE UNCHANGED vars
  <2> USE <1>3 DEF CatalogInv, vars, poolVars, ruleVars, subVars, runVars
  <2>1. ChoiceInv' /\ RequestType' /\ RequestInv' /\ UncleanedOK' /\ CountersOK'
    BY DEF ChoiceInv, RequestType, RequestInv, RequestOK, UncleanedOK, CountersOK, Live
  <2>2. PoolsOK' /\ RulesOK' /\ CoreType'
    BY DEF PoolsOK, RulesOK, Compiles, CoreType
  <2>3. MembersInv'
    BY DEF MembersInv, Stored, Excused
  <2>4. OrphansInv'
    BY DEF OrphansInv, Pending, Live
  <2>5. ForceInv'
    BY DEF ForceInv, ToReload, Enabled
  <2> QED BY <2>1, <2>2, <2>3, <2>4, <2>5
<1>4. Next => Step \/ Restart
  BY Zenon DEF Next, Step, Running
<1> QED BY <1>1, <1>2, <1>3, <1>4

(* The invariant holds of every behaviour: Restart brings back what the    *)
(* program starts with, and every other step is one of one request, or of *)
(* none.                                                                   *)
THEOREM CatalogInvariant == CatalogSpec => []CatalogInv
BY CatalogStarts, CatalogSteps, PTL DEF CatalogSpec

-----------------------------------------------------------------------------
(* The stores, the requests and the running configuration have their       *)
(* types, the files of pools and rules hold what memory does, and every    *)
(* enabled rule is supported, so that a configuration can be compiled.     *)
THEOREM CatalogTypeCorrect == CatalogSpec => []CatalogTypeOK
<1>1. CatalogInv => CatalogTypeOK
  BY DEF CatalogInv, CatalogTypeOK, ChoiceInv, PoolsOK, RulesOK, RequestType, CountersOK, UncleanedOK, CoreType
<1> QED BY <1>1, CatalogInvariant, PTL

(* Whatever requests create, refresh, delete, activate and select, one     *)
(* subscription is active and each selects one of its nodes, in memory and *)
(* in the file (Create, installation of a feed, Delete, Activate).         *)
THEOREM ChoiceAlwaysValid == CatalogSpec => []ChoiceIsValid
<1>1. CatalogInv => ChoiceIsValid
  BY ValidIs DEF CatalogInv, ChoiceInv, ChoiceIsValid
<1> QED BY <1>1, CatalogInvariant, PTL

(* A pool member or rule of something that is gone is the business of a    *)
(* request on its way, or of one that has failed: the removals of Delete   *)
(* and the reconciliation of a refresh leave nothing else behind.          *)
THEOREM NothingEverDangles == CatalogSpec => []NothingDangles
<1>1. CatalogInv => NothingDangles
  BY DEF CatalogInv, MembersInv, Excused, OrphansInv, NothingDangles, Pending
<1> QED BY <1>1, CatalogInvariant, PTL

(* When nobody is on the way to reload and no reload was skipped or has    *)
(* failed, the core enforces the rules that are enabled (ReapplyRules).    *)
THEOREM RulesAlwaysInForce == CatalogSpec => []RulesInForce
<1>1. CatalogInv => RulesInForce
  BY DEF CatalogInv, ForceInv, RulesInForce, ToReload
<1> QED BY <1>1, CatalogInvariant, PTL

Surviving(s) ==
  \/ \E q \in Requests, r \in Rules : SetRule(q, s, r)
  \/ /\ rules'[s].on \subseteq rules[s].on
     /\ (rules[s].on \ rules'[s].on) \intersect rules'[s].ok = {}

(* No refresh, Delete or restart enables a rule, or disables one that is   *)
(* there and supported (SyncSubscriptionRules): only the user does.        *)
THEOREM DecisionsAlwaysSurvive == CatalogSpec => DecisionsSurvive
<1>1. ASSUME CatalogInv, Next PROVE \A s \in Subs : Surviving(s)
  <2>1. SUFFICES ASSUME NEW s \in Subs PROVE Surviving(s)
    OBVIOUS
  <2>2. rules \in RuleTable /\ ruleFile = rules
    BY <1>1 DEF CatalogInv, RulesOK
  <2>3. CASE rules'[s] = rules[s] \/ rules'[s] = NoRules
    BY <2>3 DEF Surviving, NoRules
  <2>4. CASE RulesKept
    BY <2>3, <2>4 DEF RulesKept, ruleVars
  <2>5. ASSUME NEW x \in Subs, NEW r, RulesBecome([rules EXCEPT ![x] = r]), x # s PROVE Surviving(s)
    BY <2>2, <2>3, <2>5 DEF RulesBecome, RuleTable
  <2>6. ASSUME NEW q \in Requests, Syncs(q) PROVE Surviving(s)
    <3>1. req[q].s \in Subs
      BY <1>1, <2>6 DEF Syncs, CatalogInv, RequestInv, RequestOK, Named, Owning
    <3>2. RulesKept \/ \E all, ok : RulesBecome(SyncSubscriptionRules(req[q].s, all, ok))
      BY <2>6 DEF Syncs
    <3>3. ASSUME NEW all, NEW ok, RulesBecome(SyncSubscriptionRules(s, all, ok)) PROVE Surviving(s)
      BY <2>2, <3>3 DEF RulesBecome, SyncSubscriptionRules, RuleTable, Surviving
    <3> QED BY <2>4, <2>5, <3>1, <3>2, <3>3 DEF SyncSubscriptionRules
  <2>7. ASSUME NEW q \in Requests, DropsRules(q) PROVE Surviving(s)
    <3>1. req[q].s \in Subs
      BY <1>1, <2>7 DEF DropsRules, CatalogInv, RequestInv, RequestOK, Named
    <3>2. CASE RulesBecome([rules EXCEPT ![req[q].s] = NoRules])
      BY <2>2, <2>3, <3>1, <3>2 DEF RulesBecome, RuleTable
    <3> QED BY <2>4, <2>7, <3>2 DEF DropsRules, DeleteSubscriptionRules
  <2>8. ASSUME NEW q \in Requests, NEW x \in Subs, NEW r \in Rules, SetRule(q, x, r), x # s
        PROVE Surviving(s)
    <3>1. RulesKept \/ \E on : RulesBecome([rules EXCEPT ![x].on = on])
      BY <2>8 DEF SetRule, Decisions
    <3>2. rules'[s] = rules[s]
      BY <2>2, <2>8, <3>1 DEF RulesKept, ruleVars, RulesBecome, RuleTable
    <3> QED BY <2>3, <3>2
  <2>9. CASE Restart
    <3>1. rules'[s] = rules[s] \/ rules'[s] = NoRules
      BY <2>2, <2>9 DEF Restart, RulesBecome, ReconcileSubscriptionRules
    <3> QED BY <2>3, <3>1
  <2>10. CASE Step
    BY <2>4, <2>6, <2>7, <2>8, <2>10, RulesFrame DEF RuleSteps, Surviving
  <2> QED BY <1>1, <2>9, <2>10, Zenon DEF Next, Step, Running
<1>2. ASSUME CatalogInv, [Next]_vars PROVE [\A s \in Subs : Surviving(s)]_vars
  BY <1>1, <1>2
<1>3. DecisionsSurvive <=> [][\A s \in Subs : Surviving(s)]_vars
  BY DEF DecisionsSurvive, Surviving
<1> QED BY <1>2, <1>3, CatalogInvariant, PTL DEF CatalogSpec

-----------------------------------------------------------------------------
(* MembersFollowServers.  A pool is stored under an identifier of its own. *)

(* Who is about to store a pool is the only one with its identifier, which *)
(* no pool has yet.                                                        *)
StoreOK(q) ==
  req[q].at = "store" =>
    ~Stored(req[q].p) /\ \A r \in Requests : r # q => req[r].p # req[q].p

StoreInv == \A q \in Requests : StoreOK(q)

(* A request that neither begins to store a pool nor gets another one.     *)
NoStore(q) == req'[q].at # "store" /\ req'[q].p \in {req[q].p, None}

LEMMA StoreForms ==
  ASSUME RequestType, NEW q \in Requests, WorkOf(q)
  PROVE  \/ UNCHANGED req
         \/ Others(q) /\ NoStore(q)
         \/ \E p \in Pools, ms \in SUBSET There(subs) : CreatePool(q, p, ms)
<1> DEFINE on == {"lock", "drop", "dropPools", "reload", "start"}
<1>1. Idle.p = None
  BY DEF Idle
<1>2. ASSUME NEW at \in {"fetch", "undo", "reload", "dropPools", "dropRules", "start"}, Moves(q, at)
      PROVE  Others(q) /\ NoStore(q)
  BY <1>2, Moving DEF Places, To, NoStore
<1>3. ASSUME Ends(q) PROVE Others(q) /\ NoStore(q)
  BY <1>1, <1>3, Ending DEF Ends, NoStore, RequestType
<1>4. ASSUME Fails(q) PROVE Others(q) /\ NoStore(q)
  BY <1>2, <1>3, <1>4 DEF Fails
<1>5. ASSUME NEW op, NEW at \in on, NEW s, Begins(q, op, at, s)
      PROVE  Others(q) /\ NoStore(q)
  <2> DEFINE new == [Idle EXCEPT !.op = op, !.at = at, !.s = s]
  <2>1. new.at = at /\ new.p = None
    BY DEF Idle
  <2>2. req' = [req EXCEPT ![q] = new]
    BY <1>5 DEF Begins
  <2> HIDE DEF new
  <2> QED BY <2>1, <2>2 DEF RequestType, Others, NoStore
<1>6. ASSUME NEW f \in Feeds, Install(q, f) PROVE Others(q) /\ NoStore(q)
  <2>1. CASE req' = [req EXCEPT ![q].at = "pools", ![q].prev = NodesIn(subs[req[q].s])]
    BY <2>1, RequestFields DEF RequestType, Others, NoStore, Request
  <2> QED BY <1>4, <1>6, <2>1 DEF Install
<1>7. ASSUME Reconciles(q) PROVE Others(q) /\ NoStore(q)
  <2>1. CASE req' = [req EXCEPT ![q].at = "rules", ![q].prev = {}]
    BY <2>1, RequestFields DEF RequestType, Others, NoStore, Request
  <2> QED BY <1>4, <1>7, <2>1 DEF Reconciles
<1>8. ASSUME Undoes(q) PROVE Others(q) /\ NoStore(q)
  <2>1. PICK at \in {"drop", "dropPools"} : req' = [req EXCEPT ![q].op = "delete", ![q].at = at]
    BY <1>8 DEF Undoes
  <2> QED BY <2>1, RequestFields DEF RequestType, Others, NoStore, Request
<1>9. ASSUME SubSteps(q) PROVE Others(q) /\ NoStore(q)
  <2>1. Locks(q) => Fails(q) \/ Moves(q, "fetch")
    BY DEF Locks
  <2>2. FetchFails(q) \/ NotModified(q) => Fails(q) \/ Ends(q)
    BY DEF FetchFails, NotModified
  <2>3. Syncs(q) => Moves(q, "reload") \/ Fails(q)
    BY DEF Syncs
  <2>4. Drops(q) => Ends(q) \/ Moves(q, "dropPools")
    BY DEF Drops
  <2>5. DropsMembers(q) => Moves(q, "dropRules")
    BY DEF DropsMembers
  <2>6. DropsRules(q) => Moves(q, "reload") \/ Ends(q)
    BY DEF DropsRules
  <2>7. StoresPool(q) => Ends(q)
    BY DEF StoresPool
  <2> QED BY <1>2, <1>3, <1>4, <1>6, <1>7, <1>8, <1>9, <2>1, <2>2, <2>3, <2>4, <2>5, <2>6, <2>7 DEF SubSteps
<1>10. ASSUME RunSteps(q) PROVE Others(q) /\ NoStore(q)
  <2>1. Moves(q, "start") \/ Fails(q) \/ Ends(q)
    BY <1>10, Zenon DEF RunSteps, SkipsReload, Reloads, CannotReload, Starts, CannotStart, ReloadFails, ReloadEnds
  <2> QED BY <1>2, <1>3, <1>4, <2>1
<1>11. ASSUME NEW g \in Goals, Apply(q, g) PROVE Others(q) /\ NoStore(q)
  BY <1>5, <1>11 DEF Apply
<1>12. ASSUME Begun(q)
       PROVE  \/ UNCHANGED req
              \/ \E op, s : \E at \in on : Begins(q, op, at, s)
              \/ \E p \in Pools, ms \in SUBSET There(subs) : CreatePool(q, p, ms)
  <2>1. ASSUME NEW s \in Subs, Create(q, s) \/ Delete(q, s) \/ (\E op \in {"refresh", "auto"} : Refresh(q, s, op))
                               \/ \E r \in Rules : SetRule(q, s, r)
        PROVE  \/ UNCHANGED req
               \/ \E op, x : \E at \in on : Begins(q, op, at, x)
    <3>1. ASSUME NEW op, NEW at \in on, Begins(q, op, at, s) PROVE \E o, x : \E a \in on : Begins(q, o, a, x)
      BY <3>1
    <3>2. Create(q, s) => UNCHANGED req \/ Begins(q, "create", "lock", s)
      BY DEF Create, Passes
    <3>3. Delete(q, s) => Begins(q, "delete", "drop", s) \/ Begins(q, "delete", "dropPools", s)
      BY DEF Delete
    <3>4. \A op : Refresh(q, s, op) => Begins(q, op, "lock", s)
      BY DEF Refresh
    <3>5. \A r : SetRule(q, s, r) => UNCHANGED req \/ Begins(q, "rule", "reload", s)
      BY DEF SetRule, Passes
    <3> QED BY <2>1, <3>1, <3>2, <3>3, <3>4, <3>5
  <2> QED BY <1>12, <2>1, Zenon DEF Begun
<1> QED BY <1>5, <1>9, <1>10, <1>11, <1>12 DEF WorkOf

LEMMA NewPool ==
  ASSUME PoolsOK, Step, NEW p \in Pools, ~Stored(p), Stored(p)'
  PROVE  \E q \in Requests : StoresPool(q) /\ req[q].p = p
<1>1. ~PoolsKept
  BY DEF PoolsKept, poolVars, Stored
<1>2. ASSUME NEW q \in Requests, Reconciles(q) \/ DropsMembers(q) PROVE FALSE
  BY <1>1, <1>2 DEF Reconciles, DropsMembers, PoolsBecome, ReconcileSubscriptionNodes, DeleteSubscriptionMembers, Stored
<1>3. ASSUME NEW k, NEW ms, PoolsBecome([pools EXCEPT ![k] = ms]) PROVE k = p
  BY <1>3 DEF PoolsBecome, Stored, PoolsOK, PoolTable
<1>4. ASSUME NEW q \in Requests, StoresPool(q) PROVE req[q].p = p
  BY <1>1, <1>3, <1>4 DEF StoresPool
<1>5. ASSUME NEW k \in Pools, NEW ms, UpdatePool(k, ms) PROVE FALSE
  BY <1>1, <1>3, <1>5 DEF UpdatePool, PoolsWrite
<1>6. ASSUME NEW k \in Pools, DeletePool(k) PROVE FALSE
  BY <1>1, <1>3, <1>6 DEF DeletePool, PoolsWrite
<1> QED BY <1>1, <1>2, <1>4, <1>5, <1>6, PoolsFrame DEF PoolSteps, PoolEdits

LEMMA StoreStep ==
  ASSUME PoolsOK, RequestType, RequestInv, StoreInv, Step
  PROVE  StoreInv'
<1>1. SUFFICES ASSUME NEW r \in Requests, req'[r].at = "store" PROVE StoreOK(r)'
  BY DEF StoreInv, StoreOK
<1>2. None \notin Pools
  BY NodePoolsAssumption
<1>3. ASSUME NEW q \in Requests, req[q].at = "store" PROVE req[q].p \in Pools /\ StoreOK(q)
  BY <1>3 DEF RequestInv, RequestOK, StoreInv
<1>4. CASE UNCHANGED req
  <2>1. req[r].at = "store" /\ StoreOK(r) /\ req'[r] = req[r]
    BY <1>1, <1>3, <1>4
  <2> PICK p \in Pools : p = req[r].p
    BY <1>3, <2>1
  <2>2. ~Stored(p)'
    <3>1. ASSUME NEW q \in Requests, StoresPool(q) PROVE FALSE
      <4>1. req'[q] = Idle /\ req[q].at = "store"
        BY <3>1, Ending DEF StoresPool
      <4> QED BY <1>4, <4>1 DEF Idle
    <3> QED BY <2>1, <3>1, NewPool DEF StoreOK
  <2> QED BY <1>4, <2>1, <2>2 DEF StoreOK
<1>5. ASSUME NEW q \in Requests, Others(q), NoStore(q), WorkOf(q) PROVE StoreOK(r)'
  <2>1. r # q /\ req'[r] = req[r]
    BY <1>1, <1>5 DEF NoStore, Others
  <2>2. req[r].at = "store" /\ StoreOK(r)
    BY <1>1, <1>3, <2>1
  <2> PICK p \in Pools : p = req[r].p
    BY <1>3, <2>2
  <2>3. ~Stored(p)'
    <3>1. ASSUME NEW x \in Requests, StoresPool(x), req[x].p = p PROVE FALSE
      <4>1. x = r
        BY <2>2, <3>1 DEF StoreOK
      <4>2. req'[r] = Idle
        BY <3>1, <4>1, Ending DEF StoresPool
      <4> QED BY <1>1, <4>2 DEF Idle
    <3> QED BY <2>2, <3>1, NewPool DEF StoreOK
  <2>4. \A x \in Requests : x # r => req'[x].p # req[r].p
    BY <1>2, <1>5, <2>2 DEF StoreOK, Others, NoStore
  <2> QED BY <2>1, <2>2, <2>3, <2>4 DEF StoreOK
<1>6. ASSUME NEW q \in Requests, NEW p \in Pools, NEW ms \in SUBSET There(subs), CreatePool(q, p, ms)
      PROVE  StoreOK(r)'
  <2>1. ms \in SUBSET Members
    BY DEF There
  <2>2. Others(q) /\ req'[q].at = "store" /\ req'[q].p = p
    BY <1>6, <2>1, Pooling DEF CreatePool
  <2>3. UNCHANGED pools /\ ~Stored(p) /\ \A x \in Requests : req[x].p # p
    BY <1>6 DEF CreatePool, StoresKept, PoolsKept, poolVars
  <2>4. CASE r = q
    BY <2>2, <2>3, <2>4 DEF StoreOK, Others, Stored
  <2>5. CASE r # q
    <3>1. req'[r] = req[r] /\ req[r].at = "store" /\ StoreOK(r)
      BY <1>1, <1>3, <2>2, <2>5 DEF Others
    <3> QED BY <2>2, <2>3, <3>1 DEF StoreOK, Others, Stored
  <2> QED BY <2>4, <2>5
<1> QED BY <1>4, <1>5, <1>6, StepIs, StoreForms, PassingKeeps

-----------------------------------------------------------------------------
(* The identity of a node is its server: true of feeds whose nodes are     *)
(* described field by field, not of links, whose name is a part of them.   *)
IdentityTells ==
  \A n, k \in Nodes : IdentityOf[n] = IdentityOf[k] <=> ServerOf[n] = ServerOf[k]

LEMMA OnceMeans ==
  ASSUME NEW table \in SubTable, NEW m \in Members, Once(table, m)
  PROVE  /\ m[1] \in LiveIn(table)
         /\ \E x \in NodesIn(table[m[1]]) :
              \A k \in NodesIn(table[m[1]]) : ServerOf[k] = ServerOf[m[2]] <=> k = x
<1> DEFINE same == {k \in There(table) : Server(k) = Server(m)}
<1>1. m[1] \in Subs /\ m[2] \in Nodes /\ NodesIn(table[m[1]]) \subseteq Nodes
  BY NodesInType DEF Members, SubTable
<1>2. IsFiniteSet({m[1]} \X Nodes)
  BY FS_Singleton, FS_Product, NodePoolsAssumption
<1>3. same \subseteq {m[1]} \X Nodes
  BY DEF There, Members, Server
<1>4. PICK y : same = {y}
  <2>1. IsFiniteSet(same)
    BY <1>2, <1>3, FS_Subset
  <2>2. Cardinality(same) = 1
    BY DEF Once
  <2> QED BY <2>1, <2>2, FS_Singleton
<1>5. /\ y \in Members /\ y[1] = m[1] /\ ServerOf[y[2]] = ServerOf[m[2]]
      /\ m[1] \in LiveIn(table) /\ y[2] \in NodesIn(table[m[1]])
  BY <1>4 DEF There, Server
<1>6. ASSUME NEW k \in NodesIn(table[m[1]]), ServerOf[k] = ServerOf[m[2]] PROVE k = y[2]
  <2>1. <<m[1], k>> \in same
    BY <1>1, <1>5, <1>6 DEF There, Members, Server
  <2> QED BY <1>4, <2>1
<1> QED BY <1>5, <1>6

(* The members of the refreshed subscription that are still served keep    *)
(* their server, and no member gets another one.                           *)
LEMMA SuccessorFollows ==
  ASSUME IdentityTells, NEW n \in Nodes, NEW prev \in SUBSET Nodes, NEW cur \in SUBSET Nodes
  PROVE  /\ \A k \in Successor(n, prev, cur) : k \in Nodes /\ ServerOf[k] = ServerOf[n]
         /\ (\E x \in cur : \A k \in cur : ServerOf[k] = ServerOf[n] <=> k = x) =>
              Successor(n, prev, cur) # {}
<1> DEFINE same == {k \in cur : IdentityOf[k] = IdentityOf[n]}
<1>1. \A k \in same : k \in Nodes /\ ServerOf[k] = ServerOf[n]
  BY DEF IdentityTells
<1>2. ASSUME NEW x \in cur, \A k \in cur : ServerOf[k] = ServerOf[n] <=> k = x
      PROVE  Cardinality(same) = 1 /\ same # {}
  <2>1. same = {x}
    BY <1>2 DEF IdentityTells
  <2> QED BY <2>1, FS_Singleton
<1> QED BY <1>1, <1>2 DEF Successor

Follows(p) ==
  /\ \A k \in pools'[p] : \E m \in pools[p] : Server(k) = Server(m)
  /\ Restart \/ \A m \in pools[p] :
       Once(subs', m) /\ <<m[1], "members">> \notin uncleaned =>
         \E k \in pools'[p] : Server(k) = Server(m)

LEMMA ReconcileFollows ==
  ASSUME IdentityTells, PoolsOK, ChoiceInv, RequestType, RequestInv, NEW q \in Requests, Reconciles(q),
         NEW p \in Pools, Stored(p)
  PROVE  Follows(p)
<1> DEFINE s == req[q].s
           prev == req[q].prev
           cur == NodesIn(subs[s])
<1>1. s \in Subs /\ prev \in SUBSET Nodes
  BY RequestFields DEF Reconciles, RequestInv, RequestOK, Named, Owning
<1>2. cur \in SUBSET Nodes
  BY <1>1, NodesInType DEF ChoiceInv, SubTable
<1>3. pools[p] \in SUBSET Members
  BY DEF PoolsOK, PoolTable, Stored
<1>4. CASE PoolsKept
  BY <1>4 DEF PoolsKept, poolVars, Follows
<1>5. CASE PoolsBecome(ReconcileSubscriptionNodes(s, prev, cur)) /\ SubsKept
  <2>1. pools'[p] = Remapped(pools[p], s, prev, cur) /\ UNCHANGED subs
    BY <1>5 DEF PoolsBecome, ReconcileSubscriptionNodes, SubsKept
  <2>2. \A m \in pools[p] : m[1] # s => m \in pools'[p]
    BY <2>1 DEF Remapped
  <2>3. ASSUME NEW m \in pools[p], m[1] = s, NEW k \in Successor(m[2], prev, cur)
        PROVE  <<s, k>> \in pools'[p]
    <3> DEFINE made == {{s} \X Successor(x[2], prev, cur) : x \in {y \in pools[p] : y[1] = s}}
    <3>1. {s} \X Successor(m[2], prev, cur) \in made
      BY <2>3
    <3>2. <<s, k>> \in {s} \X Successor(m[2], prev, cur)
      BY <2>3
    <3>3. <<s, k>> \in UNION made
      BY <3>1, <3>2
    <3> QED BY <2>1, <3>3 DEF Remapped
  <2>4. ASSUME NEW k \in pools'[p], k \notin pools[p]
        PROVE  \E m \in pools[p] : m[1] = s /\ \E n \in Successor(m[2], prev, cur) : k = <<s, n>>
    BY <2>1, <2>4 DEF Remapped
  <2>5. ASSUME NEW k \in pools'[p] PROVE \E m \in pools[p] : Server(k) = Server(m)
    <3>1. CASE k \notin pools[p]
      <4>1. PICK m \in pools[p] : m[1] = s /\ \E n \in Successor(m[2], prev, cur) : k = <<s, n>>
        BY <2>4, <3>1
      <4>2. PICK n \in Successor(m[2], prev, cur) : k = <<s, n>>
        BY <4>1
      <4>3. m[2] \in Nodes
        BY <1>3 DEF Members
      <4>4. ServerOf[n] = ServerOf[m[2]]
        BY <1>1, <1>2, <4>3, SuccessorFollows
      <4> QED BY <4>1, <4>2, <4>4 DEF Server
    <3> QED BY <3>1
  <2>6. ASSUME NEW m \in pools[p], Once(subs', m) PROVE \E k \in pools'[p] : Server(k) = Server(m)
    <3>1. CASE m[1] = s
      <4>1. m \in Members /\ m[2] \in Nodes /\ subs' \in SubTable
        BY <1>3, <2>1 DEF Members, ChoiceInv
      <4>2. PICK x \in cur : \A k \in cur : ServerOf[k] = ServerOf[m[2]] <=> k = x
        BY <2>1, <2>6, <3>1, <4>1, OnceMeans
      <4>3. PICK k \in Successor(m[2], prev, cur) : TRUE
        BY <1>1, <1>2, <4>1, <4>2, SuccessorFollows
      <4>4. ServerOf[k] = ServerOf[m[2]] /\ <<s, k>> \in pools'[p]
        BY <1>1, <1>2, <2>3, <3>1, <4>1, SuccessorFollows
      <4> QED BY <3>1, <4>4 DEF Server
    <3> QED BY <2>2, <3>1
  <2> QED BY <2>5, <2>6 DEF Follows
<1> QED BY <1>4, <1>5 DEF Reconciles

LEMMA DropFollows ==
  ASSUME PoolsOK, ChoiceInv, RequestInv, NEW q \in Requests, DropsMembers(q), NEW p \in Pools, Stored(p)
  PROVE  Follows(p)
<1> DEFINE s == req[q].s
<1>1. s \notin Live
  BY DEF DropsMembers, RequestInv, RequestOK
<1>2. CASE PoolsKept
  BY <1>2 DEF PoolsKept, poolVars, Follows
<1>3. CASE PoolsBecome(DeleteSubscriptionMembers(s))
  <2>1. pools'[p] = {m \in pools[p] : m[1] # s} /\ UNCHANGED subs
    BY <1>3 DEF PoolsBecome, DeleteSubscriptionMembers, DropsMembers
  <2>2. ASSUME NEW m \in pools[p], Once(subs', m) PROVE m[1] # s
    <3>1. m \in Members /\ subs' \in SubTable
      BY <2>1 DEF PoolsOK, PoolTable, Stored, ChoiceInv
    <3>2. m[1] \in LiveIn(subs')
      BY <2>2, <3>1, OnceMeans
    <3> QED BY <1>1, <2>1, <3>2 DEF Live
  <2> QED BY <2>1, <2>2 DEF Follows
<1> QED BY <1>2, <1>3 DEF DropsMembers

LEMMA StepFollows ==
  ASSUME IdentityTells, CatalogInv, StoreInv, Next, ~UserEdits,
         NEW p \in Pools, Stored(p), pools'[p] # Absent
  PROVE  Follows(p)
<1>1. PoolsOK /\ ChoiceInv /\ RequestType /\ RequestInv
  BY DEF CatalogInv
<1>2. CASE pools'[p] = pools[p]
  BY <1>2 DEF Follows
<1>3. ASSUME NEW q \in Requests, StoresPool(q) PROVE pools'[p] = pools[p]
  <2>1. req[q].p # p
    BY <1>3 DEF StoreInv, StoreOK, StoresPool
  <2>2. PoolsKept \/ PoolsBecome([pools EXCEPT ![req[q].p] = req[q].ms])
    BY <1>3 DEF StoresPool
  <2> QED BY <1>1, <2>1, <2>2 DEF PoolsKept, poolVars, PoolsBecome, PoolsOK, PoolTable
<1>4. ASSUME NEW k \in Pools, DeletePool(k) PROVE pools'[p] = pools[p]
  <2>1. PoolsKept \/ PoolsBecome([pools EXCEPT ![k] = Absent])
    BY <1>4 DEF DeletePool, PoolsWrite
  <2> QED BY <1>1, <2>1 DEF PoolsKept, poolVars, PoolsBecome, PoolsOK, PoolTable
<1>5. CASE Restart
  <2>1. pools' = ReconcileReferences(There(subFile)) /\ poolFile = pools
    BY <1>1, <1>5 DEF Restart, PoolsBecome, PoolsOK
  <2>2. pools'[p] \subseteq pools[p]
    BY <2>1 DEF ReconcileReferences
  <2> QED BY <1>5, <2>2 DEF Follows
<1>6. CASE Step
  <2>1. PoolsKept => pools'[p] = pools[p]
    BY DEF PoolsKept, poolVars
  <2>2. \A k \in Pools, ms \in SUBSET There(subs) : ~ UpdatePool(k, ms)
    BY DEF UserEdits
  <2> QED BY <1>1, <1>2, <1>3, <1>4, <1>6, <2>1, <2>2, PoolsFrame, ReconcileFollows, DropFollows, Zenon
          DEF PoolSteps, PoolEdits
<1>7. Next => Step \/ Restart
  BY Zenon DEF Next, Step, Running
<1> QED BY <1>5, <1>6, <1>7

LEMMA StoreInvariant == CatalogSpec => []StoreInv
<1>1. CatalogInit => StoreInv
  BY DEF CatalogInit, SubsInit, StoreInv, StoreOK, Idle
<1>2. ASSUME CatalogInv, StoreInv, [Next]_vars PROVE StoreInv'
  <2>1. CASE Step
    BY <1>2, <2>1, StoreStep DEF CatalogInv
  <2>2. CASE Restart
    BY <2>2 DEF Restart, StoreInv, StoreOK, Idle
  <2>3. CASE UNCHANGED vars
    BY <1>2, <2>3 DEF vars, poolVars, subVars, StoreInv, StoreOK, Stored
  <2>4. Next => Step \/ Restart
    BY Zenon DEF Next, Step, Running
  <2> QED BY <1>2, <2>1, <2>2, <2>3, <2>4
<1> QED BY <1>1, <1>2, CatalogInvariant, PTL DEF CatalogSpec

(* Where identities tell servers apart, a pool keeps the servers the user  *)
(* gave it: no refresh, Delete, restart or pool that is being stored       *)
(* brings another one in, and none that is still in the list, once, is     *)
(* lost (ReconcileSubscriptionNodes, DeleteSubscriptionMembers).           *)
THEOREM MembersAlwaysFollow ==
  ASSUME IdentityTells
  PROVE  CatalogSpec => MembersFollowServers
<1> DEFINE Body == UserEdits \/ \A p \in Pools : Stored(p) /\ pools'[p] # Absent => Follows(p)
<1>1. ASSUME CatalogInv, StoreInv, [Next]_vars PROVE [Body]_vars
  BY <1>1, StepFollows
<1>2. MembersFollowServers <=> [][Body]_vars
  BY DEF MembersFollowServers, Follows
<1> HIDE DEF Body
<1> QED BY <1>1, <1>2, CatalogInvariant, StoreInvariant, PTL DEF CatalogSpec
=============================================================================
