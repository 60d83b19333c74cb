------------------------------ MODULE MCCatalog ------------------------------
(* Two subscriptions: s1 with two feeds, of which the second calls server  *)
(* a by another name, brings only one of the rules and no longer supports  *)
(* it; s2 with a feed of one node.  The program starts with nothing, or    *)
(* with s1 loaded, a pool of its two servers and its rules enabled.        *)
EXTENDS Catalog, TLC
CONSTANTS s1, s2, a1, a2, b, c, x, y, p, f1, f2, g, q1, q2
MCSubs == {s1, s2}
MCNodes == {a1, a2, b, c}
MCPools == {p}
MCServers == a1 :> "a" @@ a2 :> "a" @@ b :> "b" @@ c :> "c"
(* Feeds of links: the identity of a node is its link, with the name.      *)
MCLinkIdentity == [n \in MCNodes |-> n]
MCRules == {x, y}
MCFeeds == {f1, f2, g}
MCFeedsOf == s1 :> {f1, f2} @@ s2 :> {g}
MCFeedNodes == f1 :> {a1, b} @@ f2 :> {a2, b} @@ g :> {c}
MCFeedRules == f1 :> {x, y} @@ f2 :> {y} @@ g :> {x}
MCFeedOk == f1 :> {x, y} @@ f2 :> {} @@ g :> {x}
MCLinks == {a1}
MCRequests == {q1, q2}
MCGoals == {Direct, [Direct EXCEPT !.kind = "node", !.s = s1, !.n = a1],
            [Direct EXCEPT !.kind = "pool", !.p = p]}
MCSaved ==
  {[subs |-> [s \in Subs |-> NewSub], pools |-> [k \in Pools |-> Absent],
    rules |-> [s \in Subs |-> NoRules]],
   [subs |-> s1 :> [NewSub EXCEPT !.state = "live", !.feed = f1, !.selected = a1, !.active = TRUE]
             @@ s2 :> NewSub,
    pools |-> p :> {<<s1, a1>>, <<s1, b>>},
    rules |-> s1 :> [all |-> {x, y}, ok |-> {x, y}, on |-> {x, y}] @@ s2 :> NoRules]}
=============================================================================
