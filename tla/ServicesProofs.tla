---------------------------- MODULE ServicesProofs ----------------------------
(***************************************************************************)
(* The connection monitor, the order of the rules and the event stream, of *)
(* any size: ConnTypeOK, LinksFollowCore, OrderTypeOK, PrecedenceKept,     *)
(* EventsTypeOK and PagesCatchUp; and all five parts of MCServices side by *)
(* side, with those of RoutesProofs and DataDirectoryProofs:               *)
(* ServicesTypeOK.                                                         *)
(*                                                                         *)
(* The links.  A poll enters its answer link by link, each step evicting   *)
(* one link at most; what the steps keep, all of them keep (Merging, by    *)
(* Counting).  After one quiet poll no closed link is active, so that the  *)
(* next one finds a closed link to evict as long as there is room for the  *)
(* open ones (Entering), and loses none of those (CalmInv).                *)
(*                                                                         *)
(* The rules.  A list that no order was rejected half way for has distinct *)
(* positions and is the saved one (OrderInv).  A position is given out     *)
(* beyond all others (NextIsLast); numbering what is left anew changes no  *)
(* order when the positions differ (Numbering); an order that is read to   *)
(* its end names every entry once, there being as many names as entries    *)
(* (Ordering).                                                             *)
(*                                                                         *)
(* The events.  For each kind of data, either something that will make     *)
(* the page ask again is still coming, or its last event was lost, or a    *)
(* change was told by no event the page hears, both noted, or the reply on *)
(* its way, and failing that the view, is of the version the stores hold   *)
(* (EachCatchesUp).  The reply has to be there: a reply that is overtaken  *)
(* by a change must not be the last one.                                   *)
(***************************************************************************)
EXTENDS MCServices, RoutesProofs, DataDirectoryProofs, FiniteSetTheorems, SequenceTheorems, TLAPS

-----------------------------------------------------------------------------
(* Numbers and sequences.                                                  *)

(* Induction over an interval, from the least element of the rest.         *)
LEMMA LeastElement ==
  ASSUME NEW T \in SUBSET Nat, T # {}
  PROVE  \E m \in T : \A k \in T : m <= k
<1>1. PICK m \in T : \A k \in T : ~ (<<k, m>> \in OpToRel(<, Nat))
  BY WFMin, NatLessThanWellFounded, Zenon
<1>2. \A k \in T : ~ (k < m)
  BY <1>1, Zenon DEF OpToRel
<1> QED BY <1>2

LEMMA Counting ==
  ASSUME NEW n \in Nat, NEW T, 0 \in T, \A k \in 0..(n - 1) : k \in T => k + 1 \in T
  PROVE  \A k \in 0..n : k \in T
<1> DEFINE rest == {k \in 0..n : k \notin T}
<1> SUFFICES ASSUME rest # {} PROVE FALSE
  OBVIOUS
<1>1. rest \in SUBSET Nat
  OBVIOUS
<1>2. PICK m \in rest : \A k \in rest : m <= k
  BY <1>1, LeastElement
<1>3. m - 1 \in 0..(n - 1) /\ m - 1 \notin rest
  BY <1>2
<1> QED BY <1>2, <1>3

LEMMA Listed ==
  ASSUME NEW S, NEW n \in Nat, NEW f \in [1..n -> S]
  PROVE  f \in Seq(S)
OBVIOUS

Unique(s) == \A i, j \in DOMAIN s : s[i] = s[j] => i = j

LEMMA UniqueCount ==
  ASSUME NEW S, NEW s \in Seq(S), Unique(s)
  PROVE  IsFiniteSet(ToSet(s)) /\ Cardinality(ToSet(s)) = Len(s)
<1>1. Len(s) \in Nat /\ DOMAIN s = 1..Len(s)
  OBVIOUS
<1>2. s \in Bijection(1..Len(s), ToSet(s))
  BY <1>1 DEF Bijection, Injection, Surjection, IsInjective, Unique, ToSet
<1>3. ExistsBijection(1..Len(s), ToSet(s))
  BY <1>2 DEF ExistsBijection
<1> QED BY <1>1, <1>3, FS_CountingElements, FS_NatBijection

LEMMA Dropping ==
  ASSUME NEW S, NEW s \in Seq(S), NEW i \in 1..Len(s)
  PROVE  /\ RemoveAt(s, i) \in Seq(S) /\ Len(RemoveAt(s, i)) = Len(s) - 1
         /\ \A k \in 1..(Len(s) - 1) : RemoveAt(s, i)[k] = s[IF k < i THEN k ELSE k + 1]
<1> DEFINE a == SubSeq(s, 1, i - 1)
           b == SubSeq(s, i + 1, Len(s))
<1>1. a \in Seq(S) /\ Len(a) = i - 1 /\ \A k \in 1..(i - 1) : a[k] = s[k]
  OBVIOUS
<1>2. b \in Seq(S) /\ Len(b) = Len(s) - i /\ \A k \in 1..(Len(s) - i) : b[k] = s[k + i]
  OBVIOUS
<1> HIDE DEF a, b
<1>3. /\ a \o b \in Seq(S) /\ Len(a \o b) = Len(s) - 1
      /\ \A k \in 1..(Len(s) - 1) : (a \o b)[k] = IF k < i THEN a[k] ELSE b[k - (i - 1)]
  <2>1. /\ a \o b \in Seq(S) /\ Len(a \o b) = Len(a) + Len(b)
        /\ \A k \in 1..(Len(a) + Len(b)) : (a \o b)[k] = IF k <= Len(a) THEN a[k] ELSE b[k - Len(a)]
    BY <1>1, <1>2, ConcatProperties
  <2> QED BY <1>1, <1>2, <2>1
<1>4. ASSUME NEW k \in 1..(Len(s) - 1) PROVE (a \o b)[k] = s[IF k < i THEN k ELSE k + 1]
  BY <1>1, <1>2, <1>3
<1> QED BY <1>3, <1>4 DEF RemoveAt, a, b

LEMMA DroppingUnique ==
  ASSUME NEW S, NEW s \in Seq(S), NEW i \in 1..Len(s), Unique(s)
  PROVE  Unique(RemoveAt(s, i)) /\ ToSet(RemoveAt(s, i)) = ToSet(s) \ {s[i]}
<1> DEFINE r == RemoveAt(s, i)
           at(k) == IF k < i THEN k ELSE k + 1
<1>1. /\ r \in Seq(S) /\ DOMAIN r = 1..(Len(s) - 1)
      /\ \A k \in DOMAIN r : r[k] = s[at(k)]
  BY Dropping
<1> HIDE DEF r
<1>2. \A k \in DOMAIN r : at(k) \in DOMAIN s /\ at(k) # i
  BY <1>1
<1>3. \A k, l \in DOMAIN r : at(k) = at(l) => k = l
  BY <1>1
<1>4. Unique(r)
  BY <1>1, <1>2, <1>3 DEF Unique
<1>5. ASSUME NEW k \in DOMAIN s, k # i PROVE \E l \in DOMAIN r : at(l) = k
  <2>1. CASE k < i
    <3>1. k \in DOMAIN r /\ at(k) = k
      BY <1>1, <2>1
    <3> QED BY <3>1
  <2>2. CASE k > i
    <3>1. k - 1 \in DOMAIN r /\ at(k - 1) = k
      BY <1>1, <2>2
    <3> QED BY <3>1
  <2> QED BY <1>5, <2>1, <2>2
<1> HIDE DEF at
<1>6. ToSet(r) \subseteq ToSet(s) \ {s[i]}
  BY <1>1, <1>2 DEF ToSet, Unique
<1>7. ToSet(s) \ {s[i]} \subseteq ToSet(r)
  BY <1>1, <1>5 DEF ToSet
<1> QED BY <1>4, <1>6, <1>7 DEF r

-----------------------------------------------------------------------------
(* The connection monitor: one link entered.                               *)

(* A list of links as it is between two calls: none is there twice, they   *)
(* are no more than it can keep, and the active ones are among them.       *)
Kept(t) == ToSet(t.order)

LinksOK(t) ==
  /\ t \in [order : Seq(Conns), active : SUBSET Conns]
  /\ Unique(t.order) /\ Len(t.order) <= MaxLinks /\ t.active \subseteq Kept(t)

LEMMA LinksFields ==
  ASSUME NEW t, LinksOK(t)
  PROVE  /\ t.order \in Seq(Conns) /\ Len(t.order) \in Nat /\ DOMAIN t.order = 1..Len(t.order)
         /\ Kept(t) \subseteq Conns /\ IsFiniteSet(Kept(t)) /\ Cardinality(Kept(t)) = Len(t.order)
<1>1. t.order \in Seq(Conns) /\ Unique(t.order)
  BY DEF LinksOK
<1>2. Len(t.order) \in Nat /\ DOMAIN t.order = 1..Len(t.order)
  BY <1>1
<1>3. Kept(t) \subseteq Conns
  BY <1>1, <1>2 DEF Kept, ToSet
<1>4. IsFiniteSet(Kept(t)) /\ Cardinality(Kept(t)) = Len(t.order)
  BY <1>1, UniqueCount DEF Kept
<1> QED BY <1>1, <1>2, <1>3, <1>4

(* What eviction takes away is one link, and one of those preferred if     *)
(* there is any.                                                           *)
LEMMA Evicting ==
  ASSUME NEW t, LinksOK(t), t.order # <<>>, NEW some, NEW r, r = WithoutOldest(t, some)
  PROVE  \E c \in Kept(t) :
           /\ LinksOK(r) /\ Len(r.order) = Len(t.order) - 1
           /\ Kept(r) = Kept(t) \ {c} /\ r.active = t.active \ {c}
           /\ some \intersect Kept(t) # {} => c \in some
<1> DEFINE is == {i \in DOMAIN t.order : t.order[i] \in some}
           oldest == IF is = {} THEN 1 ELSE CHOOSE i \in is : \A j \in is : i <= j
<1>1. t.order \in Seq(Conns) /\ Len(t.order) \in Nat /\ DOMAIN t.order = 1..Len(t.order) /\ Unique(t.order)
  BY LinksFields DEF LinksOK
<1>2. is # {} => oldest \in is
  <2>1. is \in SUBSET Nat
    BY <1>1
  <2>2. is # {} => \E i \in is : \A j \in is : i <= j
    BY <2>1, LeastElement
  <2> QED BY <2>2
<1>3. oldest \in 1..Len(t.order)
  <2>1. Len(t.order) # 0
    BY <1>1
  <2> QED BY <1>1, <1>2, <2>1
<1>4. r = [order |-> RemoveAt(t.order, oldest), active |-> t.active \ {t.order[oldest]}]
  BY DEF WithoutOldest
<1> HIDE DEF oldest
<1>5. /\ RemoveAt(t.order, oldest) \in Seq(Conns) /\ Len(RemoveAt(t.order, oldest)) = Len(t.order) - 1
      /\ Unique(RemoveAt(t.order, oldest))
      /\ ToSet(RemoveAt(t.order, oldest)) = ToSet(t.order) \ {t.order[oldest]}
  BY <1>1, <1>3, Dropping, DroppingUnique
<1>6. t.order[oldest] \in Kept(t)
  BY <1>1, <1>3 DEF Kept, ToSet
<1>7. some \intersect Kept(t) # {} => t.order[oldest] \in some
  BY <1>1, <1>2 DEF Kept, ToSet
<1>8. Kept(r) = Kept(t) \ {t.order[oldest]} /\ Len(r.order) = Len(t.order) - 1
  BY <1>4, <1>5 DEF Kept
<1>9. LinksOK(r)
  <2>1. /\ r.order = RemoveAt(t.order, oldest) /\ r.active = t.active \ {t.order[oldest]}
        /\ t.active \subseteq Kept(t) /\ t.active \subseteq Conns /\ Len(t.order) <= MaxLinks
    BY <1>4 DEF LinksOK
  <2>2. r \in [order : Seq(Conns), active : SUBSET Conns]
    BY <1>4, <1>5, <2>1
  <2>3. Len(r.order) <= MaxLinks
    BY <1>1, <1>8, <2>1, ConnAssumption
  <2> QED BY <1>5, <1>8, <2>1, <2>2, <2>3 DEF LinksOK
<1>10. r.active = t.active \ {t.order[oldest]}
  BY <1>4
<1> QED BY <1>6, <1>7, <1>8, <1>9, <1>10

LEMMA Appending ==
  ASSUME NEW S, NEW s \in Seq(S), NEW c \in S
  PROVE  /\ Append(s, c) \in Seq(S) /\ Len(Append(s, c)) = Len(s) + 1
         /\ ToSet(Append(s, c)) = ToSet(s) \union {c}
         /\ Unique(s) /\ c \notin ToSet(s) => Unique(Append(s, c))
<1> DEFINE r == Append(s, c)
<1>1. /\ r \in Seq(S) /\ Len(r) = Len(s) + 1 /\ Len(s) \in Nat /\ r[Len(s) + 1] = c
      /\ \A k \in 1..Len(s) : r[k] = s[k]
  OBVIOUS
<1>2. DOMAIN s = 1..Len(s) /\ DOMAIN r = 1..(Len(s) + 1)
  BY <1>1
<1> HIDE DEF r
<1>3. ToSet(r) = ToSet(s) \union {c}
  BY <1>1, <1>2 DEF ToSet
<1>4. ASSUME Unique(s), c \notin ToSet(s), NEW i \in DOMAIN r, NEW j \in DOMAIN r, r[i] = r[j]
      PROVE  i = j
  BY <1>1, <1>2, <1>4 DEF Unique, ToSet
<1> QED BY <1>1, <1>3, <1>4 DEF Unique, r

(* A connection that is entered is there and active; nothing else comes    *)
(* in, and if the active links and the new one can all be kept, none of    *)
(* them is evicted.                                                        *)
LEMMA Entering ==
  ASSUME NEW t, LinksOK(t), NEW c \in Conns, NEW r, r = Entered(t, c)
  PROVE  /\ LinksOK(r) /\ Kept(r) \subseteq Kept(t) \union {c} /\ c \in r.active
         /\ r.active \subseteq t.active \union {c}
         /\ \A live : IsFiniteSet(live) /\ Cardinality(live) <= MaxLinks
                      /\ t.active \union {c} \subseteq live => r.active = t.active \union {c}
<1> DEFINE present == c \in ToSet(t.order)
           room == IF present \/ Len(t.order) < MaxLinks THEN t ELSE evictOldestLocked(t)
<1>1. /\ t.order \in Seq(Conns) /\ Len(t.order) \in Nat /\ Kept(t) \subseteq Conns
      /\ IsFiniteSet(Kept(t)) /\ Cardinality(Kept(t)) = Len(t.order)
      /\ t.active \subseteq Kept(t) /\ MaxLinks \in Nat /\ MaxLinks > 0 /\ Len(t.order) <= MaxLinks
  BY LinksFields, ConnAssumption DEF LinksOK
<1>2. r = [order |-> IF present THEN room.order ELSE Append(room.order, c), active |-> room.active \union {c}]
  BY DEF Entered
<1>3. CASE present
  <2>1. room = t /\ r = [order |-> t.order, active |-> t.active \union {c}]
    BY <1>2, <1>3
  <2>2. LinksOK(r) /\ Kept(r) = Kept(t) /\ r.active = t.active \union {c}
    BY <1>1, <1>3, <2>1 DEF LinksOK, Kept
  <2> QED BY <2>2
<1>4. ASSUME NEW x, LinksOK(x), Len(x.order) < MaxLinks, ~present, room = x,
             Kept(x) \subseteq Kept(t), x.active \subseteq t.active
      PROVE  /\ LinksOK(r) /\ Kept(r) = Kept(x) \union {c} /\ r.active = x.active \union {c}
  <2>1. r = [order |-> Append(x.order, c), active |-> x.active \union {c}]
    BY <1>2, <1>4
  <2>2. x.order \in Seq(Conns) /\ Unique(x.order) /\ c \notin ToSet(x.order)
    BY <1>4 DEF LinksOK, Kept
  <2>3. /\ r.order \in Seq(Conns) /\ Len(r.order) = Len(x.order) + 1
        /\ Kept(r) = Kept(x) \union {c} /\ Unique(r.order)
    BY <2>1, <2>2, Appending DEF Kept
  <2>4. Len(x.order) \in Nat
    BY <2>2
  <2>5. x.active \subseteq Kept(x) /\ x.active \subseteq Conns
    BY <1>4 DEF LinksOK
  <2>6. r \in [order : Seq(Conns), active : SUBSET Conns] /\ r.active = x.active \union {c}
    BY <2>1, <2>3, <2>5
  <2>7. Len(r.order) <= MaxLinks
    BY <1>1, <1>4, <2>3, <2>4
  <2> QED BY <2>3, <2>5, <2>6, <2>7 DEF LinksOK
<1>5. CASE ~present /\ Len(t.order) < MaxLinks
  <2>1. room = t
    BY <1>5
  <2> HIDE DEF room
  <2>2. LinksOK(r) /\ Kept(r) = Kept(t) \union {c} /\ r.active = t.active \union {c}
    BY <1>4, <1>5, <2>1
  <2> QED BY <2>2
<1>6. CASE ~present /\ ~(Len(t.order) < MaxLinks)
  <2> DEFINE some == ToSet(t.order) \ t.active
  <2>0. PICK x : x = WithoutOldest(t, some)
    OBVIOUS
  <2>9. room = x
    BY <1>6, <2>0 DEF evictOldestLocked
  <2>10. some \intersect Kept(t) = Kept(t) \ t.active
    BY DEF Kept
  <2> HIDE DEF some, room
  <2>1. t.order # <<>>
    BY <1>1, <1>6
  <2>2. PICK e \in Kept(t) :
          /\ LinksOK(x) /\ Len(x.order) = Len(t.order) - 1
          /\ Kept(x) = Kept(t) \ {e} /\ x.active = t.active \ {e}
          /\ some \intersect Kept(t) # {} => e \in some
    BY <2>0, <2>1, Evicting
  <2>4. Len(x.order) < MaxLinks
    BY <1>1, <2>2
  <2>5. LinksOK(r) /\ Kept(r) = Kept(x) \union {c} /\ r.active = x.active \union {c}
    BY <1>4, <1>6, <2>2, <2>4, <2>9
  <2>6. ASSUME NEW live, IsFiniteSet(live), Cardinality(live) <= MaxLinks, t.active \union {c} \subseteq live
        PROVE  t.active \ {e} = t.active
    <3>1. Kept(t) # t.active
      <4>1. SUFFICES ASSUME Kept(t) = t.active PROVE FALSE
        OBVIOUS
      <4>2. Kept(t) \in SUBSET (live \ {c})
        BY <1>6, <2>6, <4>1 DEF Kept
      <4>3. IsFiniteSet(live \ {c}) /\ Cardinality(live \ {c}) = Cardinality(live) - 1
        BY <2>6, FS_RemoveElement
      <4>4. Cardinality(Kept(t)) <= Cardinality(live \ {c}) /\ Cardinality(live) \in Nat
        BY <2>6, <4>2, <4>3, FS_Subset, FS_CardinalityType
      <4> QED BY <1>1, <1>6, <2>6, <4>3, <4>4
    <3>2. some \intersect Kept(t) # {}
      BY <1>1, <2>10, <3>1
    <3> QED BY <2>2, <2>10, <3>2
  <2> QED BY <2>2, <2>5, <2>6
<1> QED BY <1>3, <1>5, <1>6

-----------------------------------------------------------------------------
(* A whole answer entered.                                                 *)

(* The links after each of the connections of an answer.                   *)
StepsOf(g, t, conns, n) == g = [k \in 0..n |-> IF k = 0 THEN t ELSE Entered(g[k - 1], conns[k])]

LEMMA StepsExist ==
  ASSUME NEW t, NEW conns, NEW n \in Nat
  PROVE  \E g : StepsOf(g, t, conns, n)
<1> DEFINE T == {k \in 0..n : \E g : StepsOf(g, t, conns, k)}
<1>1. 0 \in T
  <2>1. StepsOf([k \in 0..0 |-> t], t, conns, 0)
    BY DEF StepsOf
  <2> QED BY <2>1
<1>2. ASSUME NEW k \in 0..(n - 1), k \in T PROVE k + 1 \in T
  <2>1. PICK g : StepsOf(g, t, conns, k)
    BY <1>2
  <2> DEFINE h == [i \in 0..(k + 1) |-> IF i = 0 THEN t ELSE Entered(g[i - 1], conns[i])]
  <2>2. \A i \in 0..k : h[i] = g[i]
    BY <2>1 DEF StepsOf
  <2>3. \A i \in 0..(k + 1) : i # 0 => i - 1 \in 0..k
    OBVIOUS
  <2>4. h = [i \in 0..(k + 1) |-> IF i = 0 THEN t ELSE Entered(h[i - 1], conns[i])]
    <3>1. \A i \in 0..(k + 1) : h[i] = IF i = 0 THEN t ELSE Entered(h[i - 1], conns[i])
      BY <2>2, <2>3
    <3>2. h = [i \in 0..(k + 1) |-> h[i]]
      OBVIOUS
    <3> HIDE DEF h
    <3> QED BY <3>1, <3>2
  <2> HIDE DEF h
  <2>5. StepsOf(h, t, conns, k + 1)
    BY <2>4 DEF StepsOf
  <2> QED BY <2>5
<1> HIDE DEF T
<1>3. \A k \in 0..n : k \in T
  BY <1>1, <1>2, Counting
<1> QED BY <1>3 DEF T

LEMMA MergedIs ==
  ASSUME NEW t, NEW conns, Len(conns) \in Nat
  PROVE  \E g : /\ StepsOf(g, t, conns, Len(conns))
                /\ Merged(t, conns) = [g[Len(conns)] EXCEPT !.active = @ \intersect ToSet(conns)]
<1> DEFINE g == CHOOSE f : f = [k \in 0..Len(conns) |-> IF k = 0 THEN t ELSE Entered(f[k - 1], conns[k])]
<1>1. StepsOf(g, t, conns, Len(conns))
  BY StepsExist DEF StepsOf
<1>2. Merged(t, conns) = [g[Len(conns)] EXCEPT !.active = @ \intersect ToSet(conns)]
  BY DEF Merged
<1> QED BY <1>1, <1>2

LEMMA Merging ==
  ASSUME NEW t, LinksOK(t), NEW conns \in Seq(Conns), NEW r, r = Merged(t, conns)
  PROVE  /\ LinksOK(r) /\ Kept(r) \subseteq Kept(t) \union ToSet(conns)
         /\ r.active \subseteq ToSet(conns)
         /\ (t.active \subseteq ToSet(conns) /\ IsFiniteSet(ToSet(conns))
              /\ Cardinality(ToSet(conns)) <= MaxLinks => r.active = ToSet(conns))
<1> DEFINE n == Len(conns)
           live == ToSet(conns)
           all == IsFiniteSet(live) /\ Cardinality(live) <= MaxLinks /\ t.active \subseteq live
<1>1. n \in Nat /\ DOMAIN conns = 1..n /\ \A k \in 1..n : conns[k] \in Conns /\ conns[k] \in live
  BY DEF ToSet
<1>2. PICK g : StepsOf(g, t, conns, n) /\ r = [g[n] EXCEPT !.active = @ \intersect live]
  BY <1>1, MergedIs
<1>3. g[0] = t /\ \A k \in 0..(n - 1) : g[k + 1] = Entered(g[k], conns[k + 1])
  BY <1>1, <1>2 DEF StepsOf
<1> DEFINE T == {k \in 0..n : /\ LinksOK(g[k]) /\ Kept(g[k]) \subseteq Kept(t) \union live
                              /\ all => /\ g[k].active \subseteq live
                                        /\ \A i \in 1..k : conns[i] \in g[k].active}
<1>4. 0 \in T
  BY <1>1, <1>3
<1>5. ASSUME NEW k \in 0..(n - 1), k \in T PROVE k + 1 \in T
  <2> DEFINE c == conns[k + 1]
  <2>1. k + 1 \in 1..n /\ c \in Conns /\ c \in live
    BY <1>1
  <2>2. LinksOK(g[k]) /\ g[k + 1] = Entered(g[k], c)
    BY <1>3, <1>5
  <2>3. /\ LinksOK(g[k + 1]) /\ Kept(g[k + 1]) \subseteq Kept(g[k]) \union {c}
        /\ c \in g[k + 1].active
        /\ IsFiniteSet(live) /\ Cardinality(live) <= MaxLinks /\ g[k].active \union {c} \subseteq live
             => g[k + 1].active = g[k].active \union {c}
    <3>1. PICK x, y : x = g[k] /\ y = g[k + 1]
      OBVIOUS
    <3> PICK z \in Conns : z = c
      BY <2>1
    <3>2. LinksOK(x) /\ y = Entered(x, z)
      BY <2>2, <3>1
    <3> HIDE DEF live
    <3>3. /\ LinksOK(y) /\ Kept(y) \subseteq Kept(x) \union {z} /\ z \in y.active
          /\ IsFiniteSet(live) /\ Cardinality(live) <= MaxLinks /\ x.active \union {z} \subseteq live
               => y.active = x.active \union {z}
      BY <3>2, Entering
    <3> QED BY <3>1, <3>3
  <2>4. Kept(g[k + 1]) \subseteq Kept(t) \union live
    BY <1>5, <2>1, <2>3
  <2>5. ASSUME all PROVE g[k + 1].active = g[k].active \union {c}
    BY <1>5, <2>1, <2>3, <2>5
  <2>6. ASSUME all, NEW i \in 1..(k + 1) PROVE conns[i] \in g[k + 1].active
    <3>1. i = k + 1 \/ i \in 1..k
      OBVIOUS
    <3> QED BY <1>5, <2>3, <2>5, <2>6, <3>1
  <2>7. all => g[k + 1].active \subseteq live
    BY <1>5, <2>1, <2>5
  <2> QED BY <2>1, <2>3, <2>4, <2>6, <2>7
<1>6. n \in T
  <2> HIDE DEF T, n
  <2>1. \A k \in 0..n : k \in T
    BY <1>1, <1>4, <1>5, Counting
  <2> QED BY <1>1, <2>1
<1> HIDE DEF T
<1>7. /\ LinksOK(g[n]) /\ Kept(g[n]) \subseteq Kept(t) \union live
      /\ all => g[n].active \subseteq live /\ \A i \in 1..n : conns[i] \in g[n].active
  BY <1>6 DEF T
<1>8. /\ g[n] \in [order : Seq(Conns), active : SUBSET Conns]
      /\ g[n].active \subseteq Kept(g[n])
  BY <1>7 DEF LinksOK
<1>9. r.order = g[n].order /\ r.active = g[n].active \intersect live
      /\ r \in [order : Seq(Conns), active : SUBSET Conns]
  BY <1>2, <1>8
<1>10. LinksOK(r) /\ Kept(r) = Kept(g[n])
  BY <1>7, <1>8, <1>9 DEF LinksOK, Kept
<1>11. all => r.active = live
  BY <1>1, <1>7, <1>9 DEF ToSet
<1> QED BY <1>7, <1>9, <1>10, <1>11

-----------------------------------------------------------------------------
(* The monitor.                                                            *)

ConnBasics ==
  /\ life \in [Conns -> {"new", "open", "closed"}] /\ IsFiniteSet(Open) /\ coreUp \in BOOLEAN
  /\ poller \in {"gone", "waiting", "asleep", "polling"}
  /\ running \in BOOLEAN /\ cancelled \in BOOLEAN
  /\ resets \in 0..MaxResets /\ calm \in -1..2

(* A connection of an earlier core is closed for good, is not in an answer *)
(* of this one and so is never entered.                                    *)
StrangersOut ==
  /\ foreign \subseteq Conns
  /\ \A c \in foreign : life[c] = "closed" /\ c \notin Kept(links) /\ c \notin ToSet(answer)

(* An answer that nothing has disturbed is what is open; after one quiet   *)
(* poll nothing that is closed is active, so that the next evicts nothing  *)
(* that is open.                                                           *)
CalmInv ==
  /\ answer \in Seq(Conns)
  /\ poller # "polling" => answer = <<>>
  /\ calm >= 0 /\ poller = "polling" => ToSet(answer) = Open
  /\ calm >= 1 => links.active \subseteq Open
  /\ calm = 2 /\ Cardinality(Open) <= MaxLinks => links.active = Open

ConnInv == ConnBasics /\ LinksOK(links) /\ StrangersOut /\ CalmInv

LEMMA NoLinksOK == LinksOK(NoLinks) /\ Kept(NoLinks) = {} /\ NoLinks.active = {}
<1>1. <<>> \in Seq(Conns) /\ Unique(<<>>) /\ Len(<<>>) = 0 /\ ToSet(<<>>) = {}
  BY DEF Unique, ToSet
<1> QED BY <1>1, ConnAssumption DEF LinksOK, Kept, NoLinks

LEMMA ConnStarts == ConnInit => ConnInv
<1> SUFFICES ASSUME ConnInit PROVE ConnInv
  OBVIOUS
<1>1. Open = {}
  BY DEF ConnInit, Open
<1>2. ConnBasics
  <2>1. IsFiniteSet(Open)
    BY <1>1, FS_EmptySet
  <2>2. life \in [Conns -> {"new", "open", "closed"}]
    BY DEF ConnInit
  <2>3. resets \in 0..MaxResets /\ calm \in -1..2
    BY ConnAssumption DEF ConnInit
  <2> QED BY <2>1, <2>2, <2>3 DEF ConnInit, ConnBasics
<1>3. StrangersOut
  BY DEF ConnInit, StrangersOut
<1>4. CalmInv
  BY DEF ConnInit, CalmInv
<1> QED BY <1>2, <1>3, <1>4, NoLinksOK DEF ConnInv, ConnInit

(* The core moves, and with it what is open.                               *)
CoreMoves ==
  (\E c \in Conns : Opens(c) \/ Closes(c)) \/ CoreStarts \/ CoreEnds

LEMMA CoreMovesKeeps ==
  ASSUME ConnInv, CoreMoves
  PROVE  ConnInv'
<1>1. /\ life' \in [Conns -> {"new", "open", "closed"}] /\ IsFiniteSet(Open')
      /\ \A c \in Conns : life[c] = "closed" => life'[c] = "closed"
  <2> USE DEF ConnInv, ConnBasics, CoreChanges
  <2>1. ASSUME NEW c \in Conns, Opens(c)
        PROVE  /\ life' \in [Conns -> {"new", "open", "closed"}] /\ Open' = Open \union {c}
               /\ \A x \in Conns : life[x] = "closed" => life'[x] = "closed"
    BY <2>1 DEF Opens, Open
  <2>2. ASSUME NEW c \in Conns, Closes(c)
        PROVE  /\ life' \in [Conns -> {"new", "open", "closed"}] /\ Open' \in SUBSET Open
               /\ \A x \in Conns : life[x] = "closed" => life'[x] = "closed"
    BY <2>2 DEF Closes, Open
  <2>3. CoreStarts => UNCHANGED life /\ Open' = Open
    BY DEF CoreStarts, Open
  <2>4. ASSUME CoreEnds
        PROVE  /\ life' \in [Conns -> {"new", "open", "closed"}] /\ Open' \in SUBSET Open
               /\ \A x \in Conns : life[x] = "closed" => life'[x] = "closed"
    BY <2>4 DEF CoreEnds, AllClosed, Open
  <2> QED BY <2>1, <2>2, <2>3, <2>4, FS_AddElement, FS_Subset DEF CoreMoves
<1>2. /\ UNCHANGED <<poller, answer, running, cancelled, links, foreign, resets>> /\ Disturbed
      /\ coreUp' \in BOOLEAN
  BY DEF CoreMoves, Opens, Closes, CoreStarts, CoreEnds, CoreChanges, ConnInv, ConnBasics
<1>3. ConnBasics'
  BY <1>1, <1>2 DEF ConnInv, ConnBasics, Disturbed
<1>4. StrangersOut'
  BY <1>1, <1>2 DEF ConnInv, StrangersOut, Kept
<1>5. CalmInv'
  BY <1>2 DEF ConnInv, CalmInv, Disturbed
<1> QED BY <1>2, <1>3, <1>4, <1>5 DEF ConnInv, LinksOK, Kept

LEMMA ControlKeeps ==
  ASSUME ConnInv, Start \/ Stop \/ Reset
  PROVE  ConnInv'
<1>1. UNCHANGED <<life, coreUp, answer>> /\ Open' = Open
  BY DEF Start, Stop, Reset, Open
<1>2. ConnBasics'
  <2>1. poller' \in {"gone", "waiting", "asleep", "polling"} /\ running' \in BOOLEAN /\ cancelled' \in BOOLEAN
    BY DEF ConnInv, ConnBasics, Start, Stop, Reset
  <2>2. resets' \in 0..MaxResets /\ calm' \in -1..2
    BY ConnAssumption DEF ConnInv, ConnBasics, Start, Stop, Reset, Disturbed
  <2> QED BY <1>1, <2>1, <2>2 DEF ConnInv, ConnBasics
<1>3. CASE Start
  <2>1. answer = <<>> /\ links' = NoLinks /\ poller' = "waiting" /\ calm' = 0
        /\ foreign' = {c \in Conns : life[c] = "closed"}
    BY <1>3 DEF Start, Disturbed, ConnInv, CalmInv
  <2>2. StrangersOut'
    BY <1>1, <2>1, NoLinksOK DEF StrangersOut, ToSet
  <2>3. CalmInv'
    BY <1>1, <2>1 DEF CalmInv
  <2> QED BY <1>2, <2>1, <2>2, <2>3, NoLinksOK DEF ConnInv, LinksOK, Kept
<1>4. CASE Stop
  <2>1. UNCHANGED <<poller, links, foreign, calm>>
    BY <1>4 DEF Stop
  <2> QED BY <1>1, <1>2, <2>1 DEF ConnInv, StrangersOut, CalmInv, LinksOK, Kept
<1>5. CASE Reset
  <2>1. UNCHANGED <<poller, foreign>> /\ links' = NoLinks /\ calm' = IF poller = "polling" THEN -1 ELSE 0
    BY <1>5 DEF Reset, Disturbed
  <2>2. StrangersOut'
    BY <1>1, <2>1, NoLinksOK DEF ConnInv, StrangersOut
  <2>3. CalmInv'
    BY <1>1, <2>1 DEF ConnInv, CalmInv
  <2> QED BY <1>2, <2>1, <2>2, <2>3, NoLinksOK DEF ConnInv, LinksOK, Kept
<1> QED BY <1>3, <1>4, <1>5

LEMMA WaitingKeeps ==
  ASSUME ConnInv, Readies \/ GivesUpWaiting \/ Ends \/ AskFails
  PROVE  ConnInv'
<1>1. /\ UNCHANGED <<life, coreUp, running, cancelled, foreign, resets, answer, links, calm>>
      /\ poller # "polling" /\ poller' # "polling" /\ poller' \in {"gone", "asleep"} /\ Open' = Open
  BY DEF Readies, GivesUpWaiting, Ends, AskFails, PollerMoves, Open
<1> QED BY <1>1 DEF ConnInv, ConnBasics, StrangersOut, CalmInv, LinksOK, Kept

LEMMA AsksKeeps ==
  ASSUME ConnInv, Asks
  PROVE  ConnInv'
<1>1. /\ UNCHANGED <<life, coreUp, running, cancelled, foreign, resets, links, calm>>
      /\ poller' = "polling" /\ Open' = Open
  BY DEF Asks, PollerMoves, Open
<1>2. answer' \in Seq(Conns) /\ ToSet(answer') = Open
  <2>1. Cardinality(Open) \in Nat /\ Open \subseteq Conns
    BY FS_CardinalityType DEF ConnInv, ConnBasics, Open
  <2> QED BY <2>1 DEF Asks
<1>3. ConnBasics'
  BY <1>1 DEF ConnInv, ConnBasics
<1>4. StrangersOut'
  BY <1>1, <1>2 DEF ConnInv, StrangersOut, Kept, Open
<1>5. CalmInv'
  BY <1>1, <1>2 DEF ConnInv, CalmInv
<1> QED BY <1>1, <1>3, <1>4, <1>5 DEF ConnInv, LinksOK, Kept

LEMMA EntersKeeps ==
  ASSUME ConnInv, Enters
  PROVE  ConnInv'
<1>1. /\ UNCHANGED <<life, coreUp, running, cancelled, foreign, resets>> /\ Open' = Open
      /\ poller = "polling" /\ poller' = "asleep" /\ answer' = <<>>
      /\ calm' = IF calm = 2 THEN 2 ELSE calm + 1
      /\ links' = Merged(links, answer)
  BY DEF Enters, PollerMoves, Open
<1>2. PICK t, r : t = links /\ r = links'
  OBVIOUS
<1>3. LinksOK(t) /\ answer \in Seq(Conns) /\ r = Merged(t, answer)
  BY <1>1, <1>2 DEF ConnInv, CalmInv
<1>4. /\ LinksOK(r) /\ Kept(r) \subseteq Kept(t) \union ToSet(answer)
      /\ r.active \subseteq ToSet(answer)
      /\ t.active \subseteq ToSet(answer) /\ IsFiniteSet(ToSet(answer))
           /\ Cardinality(ToSet(answer)) <= MaxLinks => r.active = ToSet(answer)
  BY <1>3, Merging
<1>5. ConnBasics'
  BY <1>1 DEF ConnInv, ConnBasics
<1>6. StrangersOut'
  BY <1>1, <1>2, <1>4 DEF ConnInv, StrangersOut, ToSet
<1>7. CalmInv'
  <2>1. calm >= 0 => ToSet(answer) = Open
    BY <1>1 DEF ConnInv, CalmInv
  <2>2. calm' >= 1 => r.active \subseteq Open
    BY <1>1, <1>4, <2>1 DEF ConnInv, ConnBasics
  <2>3. ASSUME calm' = 2, Cardinality(Open) <= MaxLinks PROVE r.active = Open
    <3>1. calm >= 1
      BY <1>1, <2>3 DEF ConnInv, ConnBasics
    <3>2. t.active \subseteq Open /\ IsFiniteSet(Open)
      BY <1>2, <3>1 DEF ConnInv, CalmInv, ConnBasics
    <3>3. ToSet(answer) = Open
      BY <2>1, <3>1 DEF ConnInv, ConnBasics
    <3> QED BY <1>4, <2>3, <3>2, <3>3
  <2> QED BY <1>1, <1>2, <2>2, <2>3 DEF CalmInv
<1> QED BY <1>2, <1>4, <1>5, <1>6, <1>7 DEF ConnInv, LinksOK, Kept

LEMMA ConnInvariant == ConnSpec => []ConnInv
<1>1. ASSUME ConnInv, [ConnNext]_connVars PROVE ConnInv'
  <2>1. CASE UNCHANGED connVars
    BY <1>1, <2>1 DEF connVars, ConnInv, ConnBasics, StrangersOut, CalmInv, LinksOK, Kept, Open
  <2>2. CASE ConnNext
    BY <1>1, <2>2, CoreMovesKeeps, ControlKeeps, WaitingKeeps, AsksKeeps, EntersKeeps
    DEF ConnNext, CoreMoves
  <2> QED BY <1>1, <2>1, <2>2
<1> QED BY <1>1, ConnStarts, PTL DEF ConnSpec

(* Links are never kept twice, never more than there is room for, the      *)
(* active ones among them, and none of a core before the one the monitor   *)
(* was started for.                                                        *)
THEOREM ConnTypeCorrect == ConnSpec => []ConnTypeOK
<1>1. ConnInv => ConnTypeOK
  <2> SUFFICES ASSUME ConnInv PROVE ConnTypeOK
    OBVIOUS
  <2> PICK t : t = links
    OBVIOUS
  <2>1. /\ Kept(t) \subseteq Conns /\ Cardinality(Kept(t)) = Len(t.order)
        /\ Len(t.order) <= MaxLinks /\ t.active \subseteq Kept(t)
    BY LinksFields DEF ConnInv, LinksOK
  <2>2. ToSet(answer) \subseteq Conns
    BY DEF ConnInv, CalmInv, ToSet
  <2>3. ToSet(links.order) \subseteq Conns \ (IF running THEN foreign ELSE {})
    BY <2>1 DEF ConnInv, StrangersOut, Kept
  <2> QED BY <2>1, <2>2, <2>3 DEF ConnInv, ConnBasics, StrangersOut, ConnTypeOK, Kept
<1> QED BY <1>1, ConnInvariant, PTL

(* After two whole polls without a change the active links are the open    *)
(* ones, for any number of connections and any bound of the list that has  *)
(* room for the open ones.                                                 *)
THEOREM LinksAlwaysFollow == ConnSpec => []LinksFollowCore
<1>1. ConnInv => LinksFollowCore
  BY DEF ConnInv, CalmInv, LinksFollowCore
<1> QED BY <1>1, ConnInvariant, PTL

-----------------------------------------------------------------------------
(* The order of the rules: the lists.                                      *)

(* A list: no identifier is there twice.                                   *)
Named(s) == \A i, j \in DOMAIN s : s[i].id = s[j].id => i = j

ListOK(s) == s \in Seq(Entry) /\ Named(s)

LEMMA EntryFields ==
  ASSUME NEW s \in Seq(Entry)
  PROVE  /\ Len(s) \in Nat /\ DOMAIN s = 1..Len(s)
         /\ \A i \in DOMAIN s : /\ s[i] \in Entry /\ s[i].id \in Entries /\ s[i].pos \in Nat
                                /\ s[i].on \in BOOLEAN
<1>1. Len(s) \in Nat /\ DOMAIN s = 1..Len(s) /\ \A i \in DOMAIN s : s[i] \in Entry
  OBVIOUS
<1>2. \A e \in Entry : e.id \in Entries /\ e.pos \in Nat /\ e.on \in BOOLEAN
  BY DEF Entry
<1> QED BY <1>1, <1>2

(* Before, by indices.                                                     *)
Precedes(s, i, j) == s[i].pos < s[j].pos \/ (s[i].pos = s[j].pos /\ i < j)

LEMMA BeforeMeans ==
  ASSUME NEW s
  PROVE  /\ \A i, j \in DOMAIN s : Precedes(s, i, j) => <<s[i].id, s[j].id>> \in Before(s)
         /\ \A x \in Before(s) : \E i, j \in DOMAIN s : Precedes(s, i, j) /\ x = <<s[i].id, s[j].id>>
<1>1. ASSUME NEW i \in DOMAIN s, NEW j \in DOMAIN s, Precedes(s, i, j)
      PROVE  <<s[i].id, s[j].id>> \in Before(s)
  <2> DEFINE p == <<i, j>>
  <2>1. p \in (DOMAIN s) \X (DOMAIN s) /\ p[1] = i /\ p[2] = j
    OBVIOUS
  <2> HIDE DEF p
  <2>2. Before(s) = {<<s[q[1]].id, s[q[2]].id>> : q \in
                       {q \in (DOMAIN s) \X (DOMAIN s) : Precedes(s, q[1], q[2])}}
    BY DEF Before, Precedes
  <2> QED BY <1>1, <2>1, <2>2
<1>2. ASSUME NEW x \in Before(s)
      PROVE  \E i, j \in DOMAIN s : Precedes(s, i, j) /\ x = <<s[i].id, s[j].id>>
  <2>1. PICK p \in (DOMAIN s) \X (DOMAIN s) :
          Precedes(s, p[1], p[2]) /\ x = <<s[p[1]].id, s[p[2]].id>>
    BY DEF Before, Precedes
  <2>2. p[1] \in DOMAIN s /\ p[2] \in DOMAIN s
    OBVIOUS
  <2> QED BY <2>1, <2>2
<1> QED BY <1>1, <1>2

LEMMA IdsCount ==
  ASSUME NEW s, ListOK(s)
  PROVE  IsFiniteSet(Ids(s)) /\ Cardinality(Ids(s)) = Len(s)
<1> DEFINE names == [i \in 1..Len(s) |-> s[i].id]
<1>1. Len(s) \in Nat /\ DOMAIN s = 1..Len(s) /\ \A i \in 1..Len(s) : s[i].id \in Entries
  BY EntryFields DEF ListOK
<1>2. names \in Seq(Entries) /\ Len(names) = Len(s) /\ DOMAIN names = 1..Len(s)
  BY <1>1
<1>3. Unique(names) /\ ToSet(names) = Ids(s)
  BY <1>1, <1>2 DEF Unique, ToSet, Ids, ListOK, Named
<1> HIDE DEF names
<1> QED BY <1>2, <1>3, UniqueCount

(* Positions end somewhere, so that there is a next one.                   *)
HasLast(s, k) == \E i \in 1..k : \A j \in 1..k : s[j].pos <= s[i].pos

LEMMA LastPosition ==
  ASSUME NEW s \in Seq(Entry), s # <<>>
  PROVE  \E i \in DOMAIN s : \A j \in DOMAIN s : s[j].pos <= s[i].pos
<1> DEFINE n == Len(s) - 1
           T == {k \in 0..n : HasLast(s, k + 1)}
<1>1. /\ n \in Nat /\ DOMAIN s = 1..(n + 1) /\ \A i \in 1..(n + 1) : s[i].pos \in Nat
  BY EntryFields
<1> HIDE DEF n
<1>2. 0 \in T
  <2>1. \A j \in 1..1 : s[j].pos <= s[1].pos
    BY <1>1
  <2>2. HasLast(s, 1)
    BY <2>1 DEF HasLast
  <2> QED BY <1>1, <2>2
<1>3. ASSUME NEW k \in 0..(n - 1), HasLast(s, k + 1) PROVE HasLast(s, k + 2)
  <2>1. PICK i \in 1..(k + 1) : \A j \in 1..(k + 1) : s[j].pos <= s[i].pos
    BY <1>3 DEF HasLast
  <2>2. /\ k + 2 \in 1..(n + 1) /\ i \in 1..(n + 1) /\ 1..(k + 2) = (1..(k + 1)) \union {k + 2}
        /\ \A j \in 1..(k + 1) : j \in 1..(n + 1)
    BY <1>1
  <2>3. s[k + 2].pos \in Nat /\ s[i].pos \in Nat /\ \A j \in 1..(k + 1) : s[j].pos \in Nat
    BY <1>1, <2>2
  <2>4. CASE s[k + 2].pos <= s[i].pos
    <3>1. \A j \in 1..(k + 2) : s[j].pos <= s[i].pos
      BY <2>1, <2>2, <2>4
    <3> QED BY <2>2, <3>1 DEF HasLast
  <2>5. CASE s[k + 2].pos > s[i].pos
    <3>1. \A j \in 1..(k + 2) : s[j].pos <= s[k + 2].pos
      BY <2>1, <2>2, <2>3, <2>5
    <3> QED BY <2>2, <3>1 DEF HasLast
  <2> QED BY <2>3, <2>4, <2>5
<1>4. ASSUME NEW k \in 0..(n - 1), k \in T PROVE k + 1 \in T
  <2>1. k + 1 \in 0..n /\ (k + 1) + 1 = k + 2
    BY <1>1
  <2>2. HasLast(s, (k + 1) + 1)
    BY <1>3, <1>4, <2>1
  <2> QED BY <2>1, <2>2
<1>5. n \in T
  <2> HIDE DEF T
  <2>1. \A k \in 0..n : k \in T
    BY <1>1, <1>2, <1>4, Counting
  <2> QED BY <1>1, <2>1
<1> QED BY <1>1, <1>5 DEF HasLast

LEMMA NextIsLast ==
  ASSUME NEW s \in Seq(Entry)
  PROVE  NextPosition(s) \in Nat /\ \A i \in DOMAIN s : s[i].pos < NextPosition(s)
<1> DEFINE all == {s[i].pos : i \in DOMAIN s}
           last == CHOOSE p \in all : \A i \in DOMAIN s : s[i].pos <= p
<1>1. \A i \in DOMAIN s : s[i].pos \in Nat
  BY EntryFields
<1>2. CASE s = <<>>
  BY <1>2 DEF NextPosition
<1>3. CASE s # <<>>
  <2>1. \E p \in all : \A i \in DOMAIN s : s[i].pos <= p
    BY <1>3, LastPosition
  <2>2. last \in all /\ \A i \in DOMAIN s : s[i].pos <= last
    BY <2>1
  <2>3. NextPosition(s) = 1 + last
    BY <1>3 DEF NextPosition
  <2> HIDE DEF last
  <2> QED BY <1>1, <2>2, <2>3
<1> QED BY <1>2, <1>3

(* What each operation makes of a list.                                    *)
LEMMA Adding ==
  ASSUME NEW s, ListOK(s), NEW e \in Entry, e.id \notin Ids(s), e.pos = NextPosition(s),
         NEW r, r = Append(s, e)
  PROVE  /\ ListOK(r) /\ (Distinct(s) => Distinct(r))
         /\ Ids(r) = Ids(s) \union {e.id} /\ Before(s) \subseteq Before(r)
         /\ Ids(s) \X {e.id} \subseteq Before(r)
<1>1. /\ r \in Seq(Entry) /\ Len(s) \in Nat /\ DOMAIN s = 1..Len(s) /\ DOMAIN r = 1..(Len(s) + 1)
      /\ r[Len(s) + 1] = e /\ \A k \in 1..Len(s) : r[k] = s[k]
  <2>1. s \in Seq(Entry)
    BY DEF ListOK
  <2> QED BY <2>1
<1>2. \A i \in 1..Len(s) : s[i].pos \in Nat /\ s[i].pos < e.pos /\ s[i].id # e.id
  BY <1>1, EntryFields, NextIsLast DEF ListOK, Ids
<1>3. \A i \in DOMAIN r : i = Len(s) + 1 \/ i \in 1..Len(s)
  BY <1>1
<1>4. ListOK(r)
  BY <1>1, <1>2, <1>3 DEF ListOK, Named
<1>5. Distinct(s) => Distinct(r)
  BY <1>1, <1>2, <1>3 DEF Distinct
<1>6. Ids(r) = Ids(s) \union {e.id}
  BY <1>1, <1>3 DEF Ids
<1>7. Before(s) \subseteq Before(r)
  <2> SUFFICES ASSUME NEW x \in Before(s) PROVE x \in Before(r)
    OBVIOUS
  <2>1. PICK i, j \in DOMAIN s : Precedes(s, i, j) /\ x = <<s[i].id, s[j].id>>
    BY BeforeMeans
  <2>2. i \in DOMAIN r /\ j \in DOMAIN r /\ r[i] = s[i] /\ r[j] = s[j]
    BY <1>1
  <2>3. Precedes(r, i, j)
    BY <2>1, <2>2 DEF Precedes
  <2> QED BY <2>1, <2>2, <2>3, BeforeMeans
<1>8. ASSUME NEW i \in 1..Len(s) PROVE <<s[i].id, e.id>> \in Before(r)
  <2>1. /\ i \in DOMAIN r /\ Len(s) + 1 \in DOMAIN r /\ r[i].pos < r[Len(s) + 1].pos
        /\ r[i] = s[i] /\ r[Len(s) + 1] = e
    BY <1>1, <1>2
  <2>2. Precedes(r, i, Len(s) + 1)
    BY <2>1 DEF Precedes
  <2> QED BY <2>1, <2>2, BeforeMeans
<1>9. Ids(s) \X {e.id} \subseteq Before(r)
  BY <1>1, <1>8 DEF Ids
<1> QED BY <1>4, <1>5, <1>6, <1>7, <1>9

LEMMA SameOrder ==
  ASSUME NEW s, NEW r, DOMAIN r = DOMAIN s,
         \A k \in DOMAIN s : r[k].id = s[k].id /\ r[k].pos = s[k].pos
  PROVE  Before(r) = Before(s)
<1>1. \A j, k \in DOMAIN s : Precedes(r, j, k) <=> Precedes(s, j, k)
  BY DEF Precedes
<1>2. ASSUME NEW x \in Before(r) PROVE x \in Before(s)
  <2>1. PICK j, k \in DOMAIN r : Precedes(r, j, k) /\ x = <<r[j].id, r[k].id>>
    BY <1>2, BeforeMeans
  <2> QED BY <1>1, <2>1, BeforeMeans
<1>3. ASSUME NEW x \in Before(s) PROVE x \in Before(r)
  <2>1. PICK j, k \in DOMAIN s : Precedes(s, j, k) /\ x = <<s[j].id, s[k].id>>
    BY <1>3, BeforeMeans
  <2> QED BY <1>1, <2>1, BeforeMeans
<1> QED BY <1>2, <1>3

LEMMA Switching ==
  ASSUME NEW s, ListOK(s), NEW i \in DOMAIN s, NEW b \in BOOLEAN, NEW r, r = [s EXCEPT ![i].on = b]
  PROVE  ListOK(r) /\ (Distinct(s) => Distinct(r)) /\ Ids(r) = Ids(s) /\ Before(r) = Before(s)
<1>1. /\ s \in Seq(Entry) /\ DOMAIN s = 1..Len(s) /\ Len(s) \in Nat
      /\ \A k \in DOMAIN s : s[k] \in Entry /\ s[k].on \in BOOLEAN
  BY EntryFields DEF ListOK
<1>2. DOMAIN r = DOMAIN s /\ \A k \in DOMAIN s : r[k].id = s[k].id /\ r[k].pos = s[k].pos
  BY <1>1 DEF Entry
<1>3. \A k \in DOMAIN s : r[k] \in Entry
  <2>1. [s[i] EXCEPT !.on = b] \in Entry
    BY <1>1 DEF Entry
  <2> QED BY <1>1, <2>1
<1>4. r \in Seq(Entry)
  <2>1. r = [k \in 1..Len(s) |-> r[k]]
    BY <1>1
  <2>2. \A k \in 1..Len(s) : r[k] \in Entry
    BY <1>1, <1>3
  <2>3. Len(s) \in Nat /\ r \in [1..Len(s) -> Entry]
    BY <1>1, <2>1, <2>2
  <2> QED BY <2>3, Listed, Zenon
<1>5. ListOK(r)
  BY <1>2, <1>4 DEF ListOK, Named
<1>6. Distinct(s) => Distinct(r)
  BY <1>2 DEF Distinct
<1>7. Ids(r) = Ids(s)
  BY <1>2 DEF Ids
<1>8. Before(r) = Before(s)
  BY <1>2, SameOrder
<1> QED BY <1>5, <1>6, <1>7, <1>8

(* What is left of a list from which an entry was removed, before it is    *)
(* numbered anew.                                                          *)
LEMMA Remaining ==
  ASSUME NEW s, ListOK(s), NEW i \in DOMAIN s, NEW r, r = RemoveAt(s, i)
  PROVE  /\ ListOK(r) /\ (Distinct(s) => Distinct(r)) /\ Ids(r) \subseteq Ids(s)
         /\ Before(s) \intersect (Ids(r) \X Ids(r)) \subseteq Before(r)
<1> DEFINE at(k) == IF k < i THEN k ELSE k + 1
<1>1. /\ s \in Seq(Entry) /\ DOMAIN s = 1..Len(s) /\ Len(s) \in Nat /\ Named(s)
  BY EntryFields DEF ListOK
<1>2. r \in Seq(Entry) /\ DOMAIN r = 1..(Len(s) - 1) /\ \A k \in DOMAIN r : r[k] = s[at(k)]
  <2>1. /\ RemoveAt(s, i) \in Seq(Entry) /\ Len(RemoveAt(s, i)) = Len(s) - 1
        /\ \A k \in 1..(Len(s) - 1) : RemoveAt(s, i)[k] = s[IF k < i THEN k ELSE k + 1]
    BY <1>1, Dropping
  <2>2. r \in Seq(Entry) /\ Len(r) = Len(s) - 1
    BY <2>1
  <2>3. DOMAIN r = 1..(Len(s) - 1)
    BY <2>2
  <2> QED BY <2>1, <2>2, <2>3
<1>3. \A k \in DOMAIN r : at(k) \in DOMAIN s
  BY <1>1, <1>2
<1>4. \A k, l \in DOMAIN r : (at(k) = at(l) => k = l) /\ (at(k) < at(l) => k < l)
  BY <1>1, <1>2
<1> HIDE DEF at
<1>5. ListOK(r)
  BY <1>1, <1>2, <1>3, <1>4 DEF ListOK, Named
<1>6. Distinct(s) => Distinct(r)
  BY <1>2, <1>3, <1>4 DEF Distinct
<1>7. Ids(r) \subseteq Ids(s)
  BY <1>2, <1>3 DEF Ids
<1>8. ASSUME NEW x \in Before(s) \intersect (Ids(r) \X Ids(r)) PROVE x \in Before(r)
  <2>1. PICK j, k \in DOMAIN s : Precedes(s, j, k) /\ x = <<s[j].id, s[k].id>>
    BY BeforeMeans
  <2>2. s[j].id \in Ids(r) /\ s[k].id \in Ids(r)
    BY <2>1
  <2>3. PICK a, b \in DOMAIN r : r[a].id = s[j].id /\ r[b].id = s[k].id
    BY <2>2 DEF Ids
  <2>4. at(a) = j /\ at(b) = k
    BY <1>1, <1>2, <1>3, <2>3 DEF Named
  <2>5. Precedes(r, a, b)
    BY <1>2, <1>4, <2>1, <2>4 DEF Precedes
  <2> QED BY <2>1, <2>3, <2>5, BeforeMeans
<1> QED BY <1>5, <1>6, <1>7, <1>8

LEMMA Numbering ==
  ASSUME NEW s, ListOK(s), NEW r \in Normalised(s)
  PROVE  ListOK(r) /\ Distinct(r) /\ Ids(r) = Ids(s) /\ (Distinct(s) => Before(s) \subseteq Before(r))
<1>1. /\ s \in Seq(Entry) /\ DOMAIN s = 1..Len(s) /\ Len(s) \in Nat /\ Named(s)
      /\ \A k \in DOMAIN s : s[k] \in Entry /\ s[k].pos \in Nat
  BY EntryFields DEF ListOK
<1>2. PICK f \in [DOMAIN s -> 0..(Len(s) - 1)] :
        /\ \A i, j \in DOMAIN s : (i # j => f[i] # f[j]) /\ (s[i].pos < s[j].pos => f[i] < f[j])
        /\ r = [i \in DOMAIN s |-> [s[i] EXCEPT !.pos = f[i]]]
  BY DEF Normalised
<1>3. /\ DOMAIN r = DOMAIN s
      /\ \A k \in DOMAIN s : r[k].id = s[k].id /\ r[k].pos = f[k] /\ r[k] \in Entry
  <2>1. ASSUME NEW k \in DOMAIN s
        PROVE  r[k] = [s[k] EXCEPT !.pos = f[k]] /\ s[k] \in Entry /\ f[k] \in Nat
    BY <1>1, <1>2
  <2>2. \A e \in Entry, n \in Nat : [e EXCEPT !.pos = n].id = e.id /\ [e EXCEPT !.pos = n].pos = n
                                    /\ [e EXCEPT !.pos = n] \in Entry
    BY DEF Entry
  <2> QED BY <1>2, <2>1, <2>2
<1>4. r \in Seq(Entry)
  <2>1. r = [k \in 1..Len(s) |-> r[k]]
    BY <1>1, <1>2
  <2>2. Len(s) \in Nat /\ \A k \in 1..Len(s) : r[k] \in Entry
    BY <1>1, <1>3
  <2> QED BY <2>1, <2>2
<1>5. ListOK(r)
  BY <1>1, <1>3, <1>4 DEF ListOK, Named
<1>6. Distinct(r)
  BY <1>2, <1>3 DEF Distinct
<1>7. Ids(r) = Ids(s)
  BY <1>3 DEF Ids
<1>8. ASSUME Distinct(s), NEW x \in Before(s) PROVE x \in Before(r)
  <2>1. PICK j, k \in DOMAIN s : Precedes(s, j, k) /\ x = <<s[j].id, s[k].id>>
    BY BeforeMeans
  <2>2. j # k
    BY <1>1, <2>1 DEF Precedes
  <2>3. s[j].pos < s[k].pos
    BY <1>1, <1>8, <2>1, <2>2 DEF Precedes, Distinct
  <2>4. Precedes(r, j, k)
    BY <1>2, <1>3, <2>3 DEF Precedes
  <2>5. <<r[j].id, r[k].id>> \in Before(r)
    BY <1>3, <2>4, BeforeMeans, Zenon
  <2> QED BY <1>3, <2>1, <2>5
<1> QED BY <1>5, <1>6, <1>7, <1>8

LEMMA Removing ==
  ASSUME NEW s, ListOK(s), NEW i \in DOMAIN s, NEW r \in Normalised(RemoveAt(s, i))
  PROVE  /\ ListOK(r) /\ Distinct(r) /\ Ids(r) \subseteq Ids(s)
         /\ Distinct(s) => Before(s) \intersect (Ids(r) \X Ids(r)) \subseteq Before(r)
<1>1. PICK t : t = RemoveAt(s, i)
  OBVIOUS
<1>2. /\ ListOK(t) /\ (Distinct(s) => Distinct(t)) /\ Ids(t) \subseteq Ids(s)
      /\ Before(s) \intersect (Ids(t) \X Ids(t)) \subseteq Before(t)
  BY <1>1, Remaining
<1>3. ListOK(r) /\ Distinct(r) /\ Ids(r) = Ids(t) /\ (Distinct(t) => Before(t) \subseteq Before(r))
  BY <1>1, <1>2, Numbering
<1> QED BY <1>2, <1>3

(* How far an order is read: up to the first identifier that is unknown or *)
(* has been seen.                                                          *)
Readable(l, ids, n) ==
  \A k \in 1..n : ids[k] \in Ids(list[l]) /\ \A j \in 1..(k - 1) : ids[j] # ids[k]

EndsAt(l, ids, n) ==
  n = Len(ids) \/ ids[n + 1] \notin Ids(list[l]) \/ \E j \in 1..n : ids[j] = ids[n + 1]

LEMMA AcceptedIs ==
  ASSUME NEW l, NEW ids \in Seq(Entries), NEW n, n = Accepted(l, ids)
  PROVE  n \in 0..Len(ids) /\ Readable(l, ids, n) /\ EndsAt(l, ids, n)
<1> DEFINE N == Len(ids)
           T == {k \in 0..N : Readable(l, ids, k)}
<1>1. N \in Nat
  OBVIOUS
<1>2. \E k \in 0..N : Readable(l, ids, k) /\ EndsAt(l, ids, k)
  <2> SUFFICES ASSUME \A k \in 0..N : Readable(l, ids, k) => ~EndsAt(l, ids, k) PROVE FALSE
    OBVIOUS
  <2> HIDE DEF N
  <2>1. 0 \in T
    BY <1>1 DEF Readable
  <2>2. ASSUME NEW k \in 0..(N - 1), Readable(l, ids, k) PROVE Readable(l, ids, k + 1)
    <3>1. ~EndsAt(l, ids, k)
      BY <1>1, <2>2
    <3>2. ids[k + 1] \in Ids(list[l]) /\ \A j \in 1..k : ids[j] # ids[k + 1]
      BY <3>1 DEF EndsAt
    <3>3. \A i \in 1..(k + 1) : i \in 1..k \/ (i = k + 1 /\ i - 1 = k)
      BY <1>1
    <3> QED BY <2>2, <3>2, <3>3 DEF Readable
  <2>3. \A k \in 0..(N - 1) : k \in T => k + 1 \in T
    BY <1>1, <2>2
  <2>4. N \in T
    <3> HIDE DEF T
    <3>1. \A k \in 0..N : k \in T
      BY <1>1, <2>1, <2>3, Counting
    <3> QED BY <1>1, <3>1
  <2>5. EndsAt(l, ids, N)
    BY DEF EndsAt, N
  <2> QED BY <1>1, <2>4, <2>5
<1>3. n = CHOOSE k \in 0..N : Readable(l, ids, k) /\ EndsAt(l, ids, k)
  BY Zenon DEF Accepted, Readable, EndsAt
<1> HIDE DEF N
<1>4. n \in 0..N /\ Readable(l, ids, n) /\ EndsAt(l, ids, n)
  BY <1>2, <1>3
<1> QED BY <1>4 DEF N

(* The entries stay as they are, whatever positions they get; an order     *)
(* that was read to its end gives all of them different ones.              *)
LEMMA Ordering ==
  ASSUME NEW l, ListOK(list[l]), NEW ids \in Seq(Entries), NEW n \in 0..Len(ids),
         Readable(l, ids, n), NEW r, r = Positioned(l, ids, n)
  PROVE  /\ ListOK(r) /\ Ids(r) = Ids(list[l])
         /\ n = Len(ids) /\ Len(ids) = Len(list[l]) => Distinct(r)
<1> DEFINE s == list[l]
           place(i) == CHOOSE k \in 1..n : ids[k] = s[i].id
<1>1. /\ s \in Seq(Entry) /\ DOMAIN s = 1..Len(s) /\ Len(s) \in Nat /\ Named(s)
      /\ \A k \in DOMAIN s : s[k] \in Entry /\ s[k].pos \in Nat /\ s[k].id \in Entries
  BY EntryFields DEF ListOK
<1>2. n \in Nat /\ Len(ids) \in Nat /\ DOMAIN ids = 1..Len(ids) /\ \A k \in 1..n : k \in DOMAIN ids
  OBVIOUS
<1>3. \A i : (\E k \in 1..n : ids[k] = s[i].id) => place(i) \in 1..n /\ ids[place(i)] = s[i].id
  OBVIOUS
<1>4. r = [i \in DOMAIN s |-> IF \E k \in 1..n : ids[k] = s[i].id
                             THEN [s[i] EXCEPT !.pos = place(i) - 1] ELSE s[i]]
  BY Zenon DEF Positioned
<1> HIDE DEF s, place
<1>5. ASSUME NEW i \in DOMAIN s
      PROVE  /\ r[i] \in Entry /\ r[i].id = s[i].id
             /\ (\E k \in 1..n : ids[k] = s[i].id) => r[i].pos = place(i) - 1
  <2>1. \A e \in Entry, p \in Nat : [e EXCEPT !.pos = p].id = e.id /\ [e EXCEPT !.pos = p].pos = p
                                    /\ [e EXCEPT !.pos = p] \in Entry
    BY DEF Entry
  <2>2. CASE \E k \in 1..n : ids[k] = s[i].id
    <3>1. r[i] = [s[i] EXCEPT !.pos = place(i) - 1]
      BY <1>4, <2>2
    <3>2. place(i) - 1 \in Nat
      BY <1>2, <1>3, <2>2
    <3>3. s[i] \in Entry
      BY <1>1
    <3> QED BY <2>1, <3>1, <3>2, <3>3
  <2>3. CASE ~ \E k \in 1..n : ids[k] = s[i].id
    <3>1. r[i] = s[i]
      BY <1>4, <2>3
    <3> QED BY <1>1, <2>3, <3>1
  <2> QED BY <2>2, <2>3
<1>6. DOMAIN r = DOMAIN s
  BY <1>4
<1>7. r \in Seq(Entry)
  <2>1. r = [k \in 1..Len(s) |-> r[k]]
    BY <1>1, <1>4
  <2>2. Len(s) \in Nat /\ \A k \in 1..Len(s) : r[k] \in Entry
    BY <1>1, <1>5
  <2> QED BY <2>1, <2>2
<1>8. ListOK(r)
  BY <1>1, <1>5, <1>6, <1>7 DEF ListOK, Named
<1>9. Ids(r) = Ids(s)
  BY <1>5, <1>6 DEF Ids
<1>10. ASSUME n = Len(ids), Len(ids) = Len(s) PROVE Distinct(r)
  <2>1. Unique(ids)
    <3> SUFFICES ASSUME NEW j \in 1..n, NEW k \in 1..n, ids[j] = ids[k] PROVE j = k
      BY <1>2, <1>10 DEF Unique
    <3>1. ~(j \in 1..(k - 1)) /\ ~(k \in 1..(j - 1))
      BY DEF Readable
    <3> QED BY <1>2, <3>1
  <2>2. IsFiniteSet(ToSet(ids)) /\ Cardinality(ToSet(ids)) = Len(ids)
    BY <2>1, UniqueCount
  <2>3. IsFiniteSet(Ids(s)) /\ Cardinality(Ids(s)) = Len(s)
    BY IdsCount DEF s
  <2>4. ToSet(ids) \subseteq Ids(s)
    BY <1>2, <1>10 DEF Readable, ToSet, s
  <2>5. ToSet(ids) = Ids(s)
    BY <1>10, <2>2, <2>3, <2>4, FS_Subset
  <2>6. \A i \in DOMAIN s : \E k \in 1..n : ids[k] = s[i].id
    BY <1>2, <1>10, <2>5 DEF ToSet, Ids
  <2>7. \A i \in DOMAIN s : r[i].pos = place(i) - 1 /\ place(i) \in 1..n /\ ids[place(i)] = s[i].id
    BY <1>3, <1>5, <2>6
  <2>8. ASSUME NEW i \in DOMAIN s, NEW j \in DOMAIN s, r[i].pos = r[j].pos PROVE i = j
    <3>1. place(i) = place(j)
      BY <1>2, <2>7, <2>8
    <3> QED BY <1>1, <2>7, <3>1 DEF Named
  <2> QED BY <1>6, <2>8 DEF Distinct
<1> QED BY <1>8, <1>9, <1>10 DEF s

-----------------------------------------------------------------------------
(* The rules.                                                              *)

(* No entry is in a list twice, in memory or in the file; a list that no   *)
(* order was rejected half way for is the saved one, and its positions     *)
(* differ.                                                                 *)
OrderInv ==
  /\ DOMAIN list = Lists /\ DOMAIN file = Lists
  /\ \A l \in Lists : ListOK(list[l]) /\ ListOK(file[l])
  /\ \A l \in Lists \ mixed : list[l] = file[l] /\ Distinct(list[l])
  /\ mixed \subseteq Lists /\ ruleOps \in 0..MaxRuleOps

(* The order of the entries of s is that of r, and new ones come last.     *)
Precedence(s, r) ==
  /\ Before(s) \intersect (Ids(r) \X Ids(r)) \subseteq Before(r)
  /\ (Ids(s) \intersect Ids(r)) \X (Ids(r) \ Ids(s)) \subseteq Before(r)

LEMMA OrderStarts == OrderInit => OrderInv
<1> SUFFICES ASSUME OrderInit PROVE OrderInv
  OBVIOUS
<1>1. /\ list = [l \in Lists |-> <<>>] /\ file = [l \in Lists |-> <<>>]
      /\ mixed = {} /\ ruleOps = 0 /\ MaxRuleOps \in Nat
  BY RuleOrderAssumption DEF OrderInit
<1>2. ListOK(<<>>) /\ Distinct(<<>>)
  BY DEF ListOK, Named, Distinct
<1> QED BY <1>1, <1>2 DEF OrderInv

LEMMA Counted ==
  ASSUME OrderInv, ruleOps < MaxRuleOps, ruleOps' = ruleOps + 1
  PROVE  ruleOps' \in 0..MaxRuleOps
BY RuleOrderAssumption DEF OrderInv

(* What a change that is saved or undone leaves.                           *)
LEMMA Altered ==
  ASSUME OrderInv, NEW l \in Lists, NEW new, Alters(l, new), UNCHANGED mixed,
         ListOK(new), l \notin mixed => Distinct(new)
  PROVE  OrderInv'
<1>1. /\ DOMAIN list = Lists /\ DOMAIN file = Lists /\ mixed' \subseteq Lists
      /\ \A m \in Lists : ListOK(list[m]) /\ ListOK(file[m])
      /\ \A m \in Lists \ mixed : list[m] = file[m] /\ Distinct(list[m])
  BY DEF OrderInv
<1>2. ruleOps' \in 0..MaxRuleOps
  BY Counted DEF Alters
<1>3. CASE list' = [list EXCEPT ![l] = new] /\ file' = [file EXCEPT ![l] = new]
  <2>1. /\ DOMAIN list' = Lists /\ DOMAIN file' = Lists /\ list'[l] = new /\ file'[l] = new
        /\ \A m \in Lists \ {l} : list'[m] = list[m] /\ file'[m] = file[m]
    BY <1>1, <1>3
  <2>2. \A m \in Lists : ListOK(list'[m]) /\ ListOK(file'[m])
    BY <1>1, <2>1
  <2>3. \A m \in Lists \ mixed' : list'[m] = file'[m] /\ Distinct(list'[m])
    BY <1>1, <2>1
  <2> QED BY <1>1, <1>2, <2>1, <2>2, <2>3 DEF OrderInv
<1>4. CASE UNCHANGED <<list, file>>
  <2>1. /\ DOMAIN list' = Lists /\ DOMAIN file' = Lists
        /\ \A m \in Lists : ListOK(list'[m]) /\ ListOK(file'[m])
    BY <1>1, <1>4
  <2>2. \A m \in Lists \ mixed' : list'[m] = file'[m] /\ Distinct(list'[m])
    BY <1>1, <1>4
  <2> QED BY <1>1, <1>2, <2>1, <2>2 DEF OrderInv
<1> QED BY <1>3, <1>4 DEF Alters

LEMMA AlteredOrder ==
  ASSUME OrderInv, NEW l \in Lists, NEW new, Alters(l, new),
         l \notin mixed => Precedence(list[l], new)
  PROVE  \A m \in Lists : Precedence(list[m], list'[m]) \/ m \in mixed
<1>1. \A s : Precedence(s, s)
  BY DEF Precedence
<1>2. CASE list' = [list EXCEPT ![l] = new]
  <2>1. list'[l] = new /\ \A m \in Lists \ {l} : list'[m] = list[m]
    BY <1>2 DEF OrderInv
  <2> QED BY <1>1, <2>1
<1>3. CASE list' = list
  BY <1>1, <1>3
<1> QED BY <1>2, <1>3 DEF Alters

LEMMA AddsKeeps ==
  ASSUME OrderInv, NEW l \in Lists, NEW id \in Entries, NEW on \in BOOLEAN, AddsTo(l, id, on)
  PROVE  OrderInv' /\ \A m \in Lists : Precedence(list[m], list'[m]) \/ m \in mixed
<1> DEFINE s == list[l]
           e == [id |-> id, pos |-> NextPosition(s), on |-> on]
<1>1. ListOK(s) /\ (l \notin mixed => Distinct(s)) /\ id \notin Ids(s)
  BY DEF OrderInv, AddsTo
<1>2. NextPosition(s) \in Nat
  BY <1>1, NextIsLast DEF ListOK
<1>3. e \in Entry /\ e.id = id /\ e.pos = NextPosition(s)
  BY <1>2 DEF Entry
<1> HIDE DEF e
<1>4. PICK r : r = Append(s, e)
  OBVIOUS
<1>5. Alters(l, r) /\ UNCHANGED mixed
  BY <1>4 DEF AddsTo, e
<1> HIDE DEF s
<1>6. /\ ListOK(r) /\ (Distinct(s) => Distinct(r))
      /\ Ids(r) = Ids(s) \union {id} /\ Before(s) \subseteq Before(r)
      /\ Ids(s) \X {id} \subseteq Before(r)
  BY <1>1, <1>3, <1>4, Adding
<1>7. Precedence(s, r)
  BY <1>1, <1>6 DEF Precedence
<1> QED BY <1>1, <1>5, <1>6, <1>7, Altered, AlteredOrder DEF s

LEMMA TogglesKeeps ==
  ASSUME OrderInv, NEW l \in Lists, NEW i, Toggles(l, i)
  PROVE  OrderInv' /\ \A m \in Lists : Precedence(list[m], list'[m]) \/ m \in mixed
<1> DEFINE s == list[l]
<1>1. ListOK(s) /\ (l \notin mixed => Distinct(s)) /\ i \in DOMAIN s
  BY DEF OrderInv, Toggles
<1>2. PICK b \in BOOLEAN : b = ~s[i].on
  OBVIOUS
<1> DEFINE r == [s EXCEPT ![i].on = b]
<1>3. Alters(l, r) /\ UNCHANGED mixed
  BY <1>2, Zenon DEF Toggles
<1> HIDE DEF s
<1>4. ListOK(r) /\ (Distinct(s) => Distinct(r)) /\ Ids(r) = Ids(s) /\ Before(r) = Before(s)
  BY <1>1, Switching, Zenon
<1> HIDE DEF r
<1>5. Precedence(s, r)
  BY <1>4 DEF Precedence
<1> QED BY <1>1, <1>3, <1>4, <1>5, Altered, AlteredOrder DEF s

LEMMA RemovesKeeps ==
  ASSUME OrderInv, NEW l \in Lists, NEW i, RemovesFrom(l, i)
  PROVE  OrderInv' /\ \A m \in Lists : Precedence(list[m], list'[m]) \/ m \in mixed
<1> DEFINE s == list[l]
<1>1. ListOK(s) /\ (l \notin mixed => Distinct(s)) /\ i \in DOMAIN s
  BY DEF OrderInv, RemovesFrom
<1>2. PICK r \in Normalised(RemoveAt(s, i)) : Alters(l, r)
  BY DEF RemovesFrom
<1>3. UNCHANGED mixed
  BY DEF RemovesFrom
<1> HIDE DEF s
<1>4. /\ ListOK(r) /\ Distinct(r) /\ Ids(r) \subseteq Ids(s)
      /\ Distinct(s) => Before(s) \intersect (Ids(r) \X Ids(r)) \subseteq Before(r)
  BY <1>1, Removing
<1>5. Distinct(s) => Precedence(s, r)
  BY <1>4 DEF Precedence
<1> QED BY <1>1, <1>2, <1>3, <1>4, <1>5, Altered, AlteredOrder DEF s

LEMMA OrdersKeeps ==
  ASSUME OrderInv, NEW l \in Lists, NEW ids \in Orderings, Orders(l, ids)
  PROVE  OrderInv' /\ \A m \in Lists \ {l} : list'[m] = list[m]
<1> DEFINE s == list[l]
<1>1. PICK n, new : n = Accepted(l, ids) /\ new = Positioned(l, ids, n)
  OBVIOUS
<1>2. /\ Len(ids) = Len(s)
      /\ \/ /\ n = Len(ids) /\ Alters(l, new)
            /\ mixed' = IF list'[l] = new /\ file'[l] = new THEN mixed \ {l} ELSE mixed
         \/ /\ n # Len(ids) /\ ruleOps < MaxRuleOps /\ ruleOps' = ruleOps + 1
            /\ list' = [list EXCEPT ![l] = new]
            /\ mixed' = IF new = list[l] THEN mixed ELSE mixed \union {l}
            /\ UNCHANGED file
  BY <1>1 DEF Orders
<1>3. ids \in Seq(Entries)
  BY RuleOrderAssumption DEF Orderings
<1>4. n \in 0..Len(ids) /\ Readable(l, ids, n)
  BY <1>1, <1>3, AcceptedIs
<1>5. /\ DOMAIN list = Lists /\ DOMAIN file = Lists /\ mixed \subseteq Lists
      /\ \A m \in Lists : ListOK(list[m]) /\ ListOK(file[m])
      /\ \A m \in Lists \ mixed : list[m] = file[m] /\ Distinct(list[m])
  BY DEF OrderInv
<1>6. ListOK(new) /\ (n = Len(ids) => Distinct(new))
  BY <1>1, <1>2, <1>3, <1>4, <1>5, Ordering
<1>7. ruleOps' \in 0..MaxRuleOps
  BY <1>2, Counted DEF Alters
<1> HIDE DEF s
<1>8. /\ \/ /\ n = Len(ids) /\ list' = [list EXCEPT ![l] = new] /\ file' = [file EXCEPT ![l] = new]
            /\ mixed' = mixed \ {l}
         \/ /\ n = Len(ids) /\ list' = list /\ file' = file
            /\ mixed' = IF list[l] = new /\ file[l] = new THEN mixed \ {l} ELSE mixed
         \/ /\ list' = [list EXCEPT ![l] = new] /\ file' = file
            /\ mixed' = IF new = list[l] THEN mixed ELSE mixed \union {l}
  <2>1. [list EXCEPT ![l] = new][l] = new /\ [file EXCEPT ![l] = new][l] = new
    BY <1>5
  <2> QED BY <1>2, <2>1 DEF Alters
<1>9. CASE /\ n = Len(ids) /\ list' = [list EXCEPT ![l] = new] /\ file' = [file EXCEPT ![l] = new]
           /\ mixed' = mixed \ {l}
  <2>1. /\ DOMAIN list' = Lists /\ DOMAIN file' = Lists /\ list'[l] = new /\ file'[l] = new
        /\ \A m \in Lists \ {l} : list'[m] = list[m] /\ file'[m] = file[m]
    BY <1>5, <1>9
  <2>2. \A m \in Lists : ListOK(list'[m]) /\ ListOK(file'[m])
    BY <1>5, <1>6, <2>1
  <2>3. \A m \in Lists \ mixed' : list'[m] = file'[m] /\ Distinct(list'[m])
    BY <1>5, <1>6, <1>9, <2>1
  <2>4. mixed' \subseteq Lists
    BY <1>5, <1>9
  <2> QED BY <1>7, <2>1, <2>2, <2>3, <2>4 DEF OrderInv
<1>10. CASE /\ n = Len(ids) /\ list' = list /\ file' = file
            /\ mixed' = IF list[l] = new /\ file[l] = new THEN mixed \ {l} ELSE mixed
  <2>1. \A m \in Lists \ mixed' : list'[m] = file'[m] /\ Distinct(list'[m])
    BY <1>5, <1>6, <1>10
  <2>2. mixed' \subseteq Lists
    BY <1>5, <1>10
  <2>3. /\ DOMAIN list' = Lists /\ DOMAIN file' = Lists
        /\ \A m \in Lists : ListOK(list'[m]) /\ ListOK(file'[m])
    BY <1>5, <1>10
  <2> QED BY <1>7, <1>10, <2>1, <2>2, <2>3 DEF OrderInv
<1>11. CASE /\ list' = [list EXCEPT ![l] = new] /\ file' = file
            /\ mixed' = IF new = list[l] THEN mixed ELSE mixed \union {l}
  <2>1. /\ DOMAIN list' = Lists /\ DOMAIN file' = Lists /\ list'[l] = new
        /\ \A m \in Lists \ {l} : list'[m] = list[m]
    BY <1>5, <1>11
  <2>2. \A m \in Lists : ListOK(list'[m]) /\ ListOK(file'[m])
    BY <1>5, <1>6, <1>11, <2>1
  <2>3. \A m \in Lists \ mixed' : list'[m] = file'[m] /\ Distinct(list'[m])
    BY <1>5, <1>11, <2>1
  <2>4. mixed' \subseteq Lists
    BY <1>5, <1>11
  <2> QED BY <1>7, <2>1, <2>2, <2>3, <2>4 DEF OrderInv
<1> QED BY <1>8, <1>9, <1>10, <1>11

LEMMA LoadsKeeps ==
  ASSUME OrderInv, Loads
  PROVE  OrderInv' /\ \A m \in Lists : Precedence(list[m], list'[m]) \/ m \in mixed
<1>1. /\ list' = file /\ file' = file /\ mixed' = {l \in mixed : ~Distinct(file[l])}
      /\ ruleOps' \in 0..MaxRuleOps
  BY Counted DEF Loads
<1>2. /\ DOMAIN file = Lists /\ mixed \subseteq Lists /\ \A l \in Lists : ListOK(file[l])
      /\ \A l \in Lists \ mixed : list[l] = file[l] /\ Distinct(list[l])
  BY DEF OrderInv
<1>3. \A l \in Lists \ mixed' : Distinct(file[l])
  BY <1>1, <1>2
<1>4. OrderInv'
  <2>1. DOMAIN list' = Lists /\ DOMAIN file' = Lists /\ \A l \in Lists : ListOK(list'[l]) /\ ListOK(file'[l])
    BY <1>1, <1>2
  <2>2. \A l \in Lists \ mixed' : list'[l] = file'[l] /\ Distinct(list'[l])
    BY <1>1, <1>3
  <2>3. mixed' \subseteq Lists
    BY <1>1, <1>2
  <2> QED BY <1>1, <2>1, <2>2, <2>3 DEF OrderInv
<1>5. \A s : Precedence(s, s)
  BY DEF Precedence
<1> QED BY <1>1, <1>2, <1>4, <1>5

LEMMA OrderStep ==
  ASSUME OrderInv, [OrderNext]_orderVars
  PROVE  /\ OrderInv'
         /\ \A l \in Lists : \/ Precedence(list[l], list'[l])
                             \/ l \in mixed
                             \/ \E ids \in Orderings : Orders(l, ids)
<1>1. "rules" \in Lists /\ "pools" \in Lists
  BY DEF Lists
<1>2. \A s : Precedence(s, s)
  BY DEF Precedence
<1>3. CASE UNCHANGED orderVars
  <2>1. list' = list /\ file' = file /\ mixed' = mixed /\ ruleOps' = ruleOps
    BY <1>3 DEF orderVars
  <2> QED BY <1>2, <2>1 DEF OrderInv
<1>4. CASE \E l \in Lists, id \in Entries, on \in BOOLEAN : AddsTo(l, id, on)
  BY <1>4, AddsKeeps
<1>5. CASE \E l \in Lists, i \in 1..MaxEntries : Toggles(l, i)
  BY <1>5, TogglesKeeps
<1>6. CASE \E l \in Lists, i \in 1..MaxEntries : RemovesFrom(l, i)
  BY <1>6, RemovesKeeps
<1>7. CASE \E l \in Lists, ids \in Orderings : Orders(l, ids)
  <2>1. PICK l \in Lists, ids \in Orderings : Orders(l, ids)
    BY <1>7
  <2>2. OrderInv' /\ \A m \in Lists \ {l} : list'[m] = list[m]
    BY <2>1, OrdersKeeps
  <2> QED BY <1>2, <2>1, <2>2
<1>8. CASE Loads
  BY <1>8, LoadsKeeps
<1>9. CASE OrderNext
  <2>1. CASE \E id \in Entries, on \in BOOLEAN : Create(id, on) \/ CreatePool(id, on)
    BY <1>1, <1>4, <2>1 DEF Create, CreatePool
  <2>2. CASE \E i \in 1..MaxEntries : Update(i) \/ UpdatePool(i) \/ Delete(i) \/ DeletePool(i)
    BY <1>1, <1>5, <1>6, <2>2 DEF Update, UpdatePool, Delete, DeletePool
  <2>3. CASE \E ids \in Orderings : Reorder(ids) \/ ReorderPools(ids)
    BY <1>1, <1>7, <2>3 DEF Reorder, ReorderPools
  <2> QED BY <1>8, <1>9, <2>1, <2>2, <2>3 DEF OrderNext
<1> QED BY <1>3, <1>9

LEMMA OrderInvariant == OrderSpec => []OrderInv
<1>1. OrderInv /\ [OrderNext]_orderVars => OrderInv'
  BY OrderStep
<1> QED BY <1>1, OrderStarts, PTL DEF OrderSpec

(* No entry is in a list twice; a list that no order was rejected half way *)
(* for is the saved one and its positions differ.                          *)
THEOREM OrderTypeCorrect == OrderSpec => []OrderTypeOK
<1>1. ASSUME OrderInv PROVE OrderTypeOK
  <2>1. ASSUME NEW l \in Lists
        PROVE  /\ list[l] \in Seq(Entry) /\ file[l] \in Seq(Entry)
               /\ Cardinality(Ids(list[l])) = Len(list[l])
               /\ l \notin mixed => list[l] = file[l] /\ Distinct(list[l])
    <3>1. ListOK(list[l]) /\ ListOK(file[l]) /\ (l \notin mixed => list[l] = file[l] /\ Distinct(list[l]))
      BY <1>1, <2>1 DEF OrderInv
    <3> QED BY <3>1, IdsCount DEF ListOK
  <2> QED BY <1>1, <2>1 DEF OrderInv, OrderTypeOK
<1> QED BY <1>1, OrderInvariant, PTL

(* Whatever is created, removed, switched, saved or not, and loaded again: *)
(* only an order changes which of two entries comes first, in lists of any *)
(* length.                                                                 *)
THEOREM PrecedenceAlwaysKept == OrderSpec => PrecedenceKept
<1>1. ASSUME OrderInv, [OrderNext]_orderVars
      PROVE  [\A l \in Lists :
                \/ /\ Before(list[l]) \intersect (Ids(list'[l]) \X Ids(list'[l])) \subseteq Before(list'[l])
                   /\ (Ids(list[l]) \intersect Ids(list'[l])) \X (Ids(list'[l]) \ Ids(list[l]))
                        \subseteq Before(list'[l])
                \/ l \in mixed \union mixed'
                \/ \E ids \in Orderings : Orders(l, ids)]_orderVars
  <2>1. \A l \in Lists : \/ Precedence(list[l], list'[l])
                         \/ l \in mixed
                         \/ \E ids \in Orderings : Orders(l, ids)
    BY <1>1, OrderStep
  <2> QED BY <2>1 DEF Precedence
<1> QED BY <1>1, OrderInvariant, PTL DEF OrderSpec, PrecedenceKept

-----------------------------------------------------------------------------
(* The event stream.                                                       *)

(* The reply on its way, or what the page shows, is what the stores hold.  *)
UpToDate(t) ==
  \/ reply[t] # NoReply /\ reply[t] = version[t]
  \/ reply[t] = NoReply /\ view[t] = version[t]

EachCatchesUp ==
  \A t \in Topics : Coming(t) \/ t \in missed \union untold \/ UpToDate(t)

(* A channel is that of a subscriber.                                      *)
OwnChannel == stream # "subscribed" => channel = <<>>

EventsInv == EventsTypeOK /\ OwnChannel /\ EachCatchesUp

-----------------------------------------------------------------------------
(* What a queue holds after each of the operations on it.                  *)
LEMMA HoldsAppend ==
  ASSUME NEW S, NEW s \in Seq(S), NEW e \in S, NEW t
  PROVE  Holds(Append(s, e), t) <=> Holds(s, t) \/ t = e
<1>1. /\ Len(Append(s, e)) = Len(s) + 1 /\ Append(s, e)[Len(s) + 1] = e
      /\ \A i \in 1..Len(s) : Append(s, e)[i] = s[i]
  OBVIOUS
<1>2. Len(s) \in Nat
  OBVIOUS
<1> QED BY <1>1, <1>2 DEF Holds

LEMMA HoldsTail ==
  ASSUME NEW S, NEW s \in Seq(S), s # <<>>, NEW t
  PROVE  Holds(s, t) <=> Holds(Tail(s), t) \/ t = Head(s)
<1>1. /\ Len(s) \in Nat \ {0} /\ Len(Tail(s)) = Len(s) - 1
      /\ Head(s) = s[1]
      /\ \A i \in 1..(Len(s) - 1) : Tail(s)[i] = s[i + 1]
  OBVIOUS
<1>2. ASSUME NEW i \in 1..Len(s), s[i] = t PROVE Holds(Tail(s), t) \/ t = Head(s)
  <2>1. CASE i = 1
    BY <1>1, <1>2, <2>1
  <2>2. CASE i # 1
    <3>1. i - 1 \in 1..(Len(s) - 1) /\ (i - 1) + 1 = i
      BY <1>1, <2>2
    <3>2. Tail(s)[i - 1] = t
      BY <3>1, <1>1, <1>2
    <3> QED BY <3>1, <3>2, <1>1 DEF Holds
  <2> QED BY <2>1, <2>2
<1>3. ASSUME NEW i \in 1..(Len(s) - 1), Tail(s)[i] = t PROVE Holds(s, t)
  <2>1. i + 1 \in 1..Len(s) /\ s[i + 1] = t
    BY <1>1, <1>3
  <2> QED BY <2>1 DEF Holds
<1>4. 1 \in 1..Len(s)
  BY <1>1
<1>5. t = Head(s) => Holds(s, t)
  BY <1>1, <1>4 DEF Holds
<1>6. Holds(s, t) => Holds(Tail(s), t) \/ t = Head(s)
  BY <1>2 DEF Holds
<1>7. Holds(Tail(s), t) => Holds(s, t)
  BY <1>1, <1>3 DEF Holds
<1> QED BY <1>5, <1>6, <1>7

LEMMA HoldsConcat ==
  ASSUME NEW S, NEW s \in Seq(S), NEW r \in Seq(S), NEW t
  PROVE  Holds(s \o r, t) <=> Holds(s, t) \/ Holds(r, t)
<1>1. /\ Len(s) \in Nat /\ Len(r) \in Nat /\ Len(s \o r) = Len(s) + Len(r)
      /\ \A i \in 1..(Len(s) + Len(r)) : (s \o r)[i] = IF i <= Len(s) THEN s[i] ELSE r[i - Len(s)]
  OBVIOUS
<1>2. Holds(s, t) => Holds(s \o r, t)
  BY <1>1 DEF Holds
<1>3. ASSUME NEW i \in 1..Len(r), r[i] = t PROVE Holds(s \o r, t)
  <2>1. Len(s) + i \in 1..(Len(s) + Len(r)) /\ (s \o r)[Len(s) + i] = t
    BY <1>1, <1>3
  <2> QED BY <2>1, <1>1 DEF Holds
<1>4. ASSUME NEW i \in 1..(Len(s) + Len(r)), (s \o r)[i] = t PROVE Holds(s, t) \/ Holds(r, t)
  BY <1>1, <1>4 DEF Holds
<1> QED BY <1>1, <1>2, <1>3, <1>4 DEF Holds

LEMMA HoldsNothing == ASSUME NEW t PROVE ~Holds(<<>>, t)
BY DEF Holds

(* A full channel loses its head only.                                     *)
LEMMA QueuedHolds ==
  ASSUME EventsTypeOK, EventsAssumption, NEW e \in Kinds
  PROVE  /\ Queued(e) \in Seq(Kinds) /\ Len(Queued(e)) <= Buffer
         /\ Holds(Queued(e), e)
         /\ \A k \in Kinds : Holds(channel, k) =>
              Holds(Queued(e), k) \/ (~(Len(channel) < Buffer) /\ k = Head(channel))
<1>1. channel \in Seq(Kinds) /\ Len(channel) <= Buffer /\ Buffer \in Nat \ {0} /\ Len(channel) \in Nat
  BY DEF EventsTypeOK, EventsAssumption
<1>2. CASE Len(channel) < Buffer
  <2>1. Queued(e) = Append(channel, e)
    BY <1>2 DEF Queued
  <2>2. Len(Append(channel, e)) = Len(channel) + 1 /\ Append(channel, e) \in Seq(Kinds)
    BY <1>1
  <2> QED BY <1>1, <1>2, <2>1, <2>2, HoldsAppend
<1>3. CASE ~(Len(channel) < Buffer)
  <2>1. Queued(e) = Append(Tail(channel), e) /\ channel # <<>> /\ Len(channel) = Buffer
    BY <1>1, <1>3 DEF Queued
  <2>2. Tail(channel) \in Seq(Kinds) /\ Len(Tail(channel)) = Len(channel) - 1
    BY <2>1, <1>1
  <2>3. /\ Append(Tail(channel), e) \in Seq(Kinds)
        /\ Len(Append(Tail(channel), e)) = Len(Tail(channel)) + 1
    BY <2>2
  <2>4. ASSUME NEW k PROVE Holds(Append(Tail(channel), e), k) <=> Holds(Tail(channel), k) \/ k = e
    <3> DEFINE rest == Tail(channel)
    <3>1. rest \in Seq(Kinds)
      BY <2>2
    <3> HIDE DEF rest
    <3>2. Holds(Append(rest, e), k) <=> Holds(rest, k) \/ k = e
      BY <3>1, HoldsAppend
    <3> QED BY <3>2 DEF rest
  <2>5. ASSUME NEW k PROVE Holds(channel, k) <=> Holds(Tail(channel), k) \/ k = Head(channel)
    BY <2>1, <1>1, HoldsTail
  <2>6. Len(Append(Tail(channel), e)) <= Buffer
    BY <2>1, <2>2, <2>3, <1>1
  <2>7. Holds(Queued(e), e)
    BY <2>1, <2>4
  <2>8. ASSUME NEW k \in Kinds, Holds(channel, k), ~Holds(Queued(e), k)
        PROVE  k = Head(channel)
    BY <2>1, <2>4, <2>5, <2>8
  <2> QED BY <1>3, <2>1, <2>3, <2>6, <2>7, <2>8
<1> QED BY <1>2, <1>3

-----------------------------------------------------------------------------
LEMMA EventsTypeStep ==
  ASSUME EventsTypeOK, EventsAssumption, [EventsNext]_eventVars
  PROVE  EventsTypeOK'
<1>1. CASE UNCHANGED eventVars
  BY <1>1 DEF eventVars, EventsTypeOK
<1>2. ASSUME NEW t \in Topics, Changes(t) PROVE EventsTypeOK'
  <2>1. /\ UNCHANGED <<stream, channel, wire, asked, reply, view, missed, breaks>>
        /\ version' \in [Topics -> 0..MaxChanges]
        /\ \A h \in Topics : version[h] \in Nat /\ version'[h] \in Nat /\ version[h] <= version'[h]
    BY <1>2 DEF Changes, EventsTypeOK, EventsAssumption
  <2>2. due' \in [Kinds -> Nat] /\ untold' \subseteq Topics
    <3>1. due \in [Kinds -> Nat] /\ untold \subseteq Topics
      BY DEF EventsTypeOK
    <3>2. PICK op \in Operations :
            /\ IF op.says = Quiet
               THEN UNCHANGED due
               ELSE \/ due' = [due EXCEPT ![op.says] = @ + 1]
                    \/ due[op.says] > 0 /\ UNCHANGED due
            /\ untold' = IF op.says # Quiet /\ t \in Renews[op.says]
                         THEN untold ELSE untold \union {t}
      BY <1>2 DEF Changes
    <3>3. untold' \subseteq Topics
      BY <3>1, <3>2
    <3>4. due' = due \/ due' = [due EXCEPT ![op.says] = @ + 1]
      BY <3>2
    <3>5. due' \in [Kinds -> Nat]
      BY <3>1, <3>4
    <3> QED BY <3>3, <3>5
  <2>3. \A h \in Topics : reply[h] <= version'[h] /\ view[h] <= version'[h]
    BY <2>1 DEF EventsTypeOK, NoReply
  <2> QED BY <2>1, <2>2, <2>3 DEF EventsTypeOK
<1>3. ASSUME NEW e \in Kinds, Publish(e) PROVE EventsTypeOK'
  <2>1. /\ UNCHANGED <<version, stream, wire, asked, reply, view, untold, breaks>>
        /\ due' \in [Kinds -> Nat]
    BY <1>3 DEF Publish, EventsTypeOK
  <2>2. channel' \in Seq(Kinds) /\ Len(channel') <= Buffer
    BY <1>3, QueuedHolds DEF Publish, EventsTypeOK
  <2>3. missed' \subseteq Topics
    <3>1. CASE stream = "subscribed" /\ ~(Len(channel) < Buffer)
      <4>1. channel \in Seq(Kinds) /\ channel # <<>>
        BY <3>1, EventsAssumption DEF EventsTypeOK, EventsAssumption
      <4>2. Renews[Head(channel)] \subseteq Topics
        BY <4>1, EventsAssumption DEF EventsAssumption
      <4> QED BY <1>3, <3>1, <4>2 DEF Publish, Loses, EventsTypeOK
    <3>2. CASE ~(stream = "subscribed" /\ ~(Len(channel) < Buffer))
      BY <1>3, <3>2, EventsAssumption DEF Publish, Loses, EventsTypeOK, EventsAssumption
    <3> QED BY <3>1, <3>2
  <2> QED BY <2>1, <2>2, <2>3 DEF EventsTypeOK
<1>4. CASE Greets
  <2>1. <<"snapshot">> \in Seq(Event)
    BY DEF Event
  <2> QED BY <1>4, <2>1 DEF Greets, EventsTypeOK
<1>5. CASE Subscribe
  BY <1>5, EventsAssumption DEF Subscribe, EventsTypeOK, EventsAssumption
<1>6. CASE Forwards
  <2>1. channel \in Seq(Kinds) /\ channel # <<>> /\ wire \in Seq(Event)
    BY <1>6 DEF Forwards, EventsTypeOK
  <2>2. Head(channel) \in Event /\ Tail(channel) \in Seq(Kinds) /\ Len(Tail(channel)) = Len(channel) - 1
    BY <2>1 DEF Event
  <2>3. Append(wire, Head(channel)) \in Seq(Event)
    BY <2>1, <2>2
  <2>4. Len(Tail(channel)) <= Buffer
    BY <2>1, <2>2, EventsAssumption DEF EventsTypeOK, EventsAssumption
  <2> QED BY <1>6, <2>2, <2>3, <2>4 DEF Forwards, EventsTypeOK
<1>7. CASE Breaks
  <2>1. breaks' \in 0..MaxBreaks
    BY <1>7, EventsAssumption DEF Breaks, EventsTypeOK, EventsAssumption
  <2>2. <<>> \in Seq(Kinds) /\ <<>> \in Seq(Event) /\ Len(<<>>) <= Buffer
    BY EventsAssumption DEF EventsAssumption
  <2> QED BY <1>7, <2>1, <2>2 DEF Breaks, EventsTypeOK
<1>8. CASE Hears
  <2>1. wire \in Seq(Event) /\ wire # <<>>
    BY <1>8 DEF Hears, EventsTypeOK
  <2>2. Tail(wire) \in Seq(Event) /\ Head(wire) \in Event
    BY <2>1
  <2>3. asked' \subseteq Topics
    BY <1>8, <2>2, EventsAssumption DEF Hears, EventsTypeOK, Event, EventsAssumption
  <2>4. /\ reply' \in [Topics -> NoReply..MaxChanges]
        /\ \A h \in Topics : reply'[h] <= version[h]
    BY <1>8, EventsAssumption DEF Hears, EventsTypeOK, NoReply, EventsAssumption
  <2> QED BY <1>8, <2>2, <2>3, <2>4 DEF Hears, EventsTypeOK
<1>9. ASSUME NEW ts \in SUBSET Topics, AsksFor(ts) PROVE EventsTypeOK'
  BY <1>9 DEF AsksFor, EventsTypeOK
<1>10. ASSUME NEW t \in Topics, Answers(t) PROVE EventsTypeOK'
  <2>1. /\ reply' \in [Topics -> NoReply..MaxChanges]
        /\ \A h \in Topics : reply'[h] <= version[h]
    BY <1>10 DEF Answers, EventsTypeOK, NoReply, EventsAssumption
  <2> QED BY <1>10, <2>1 DEF Answers, EventsTypeOK
<1>11. ASSUME NEW t \in Topics, Shows(t) PROVE EventsTypeOK'
  <2>1. /\ reply' \in [Topics -> NoReply..MaxChanges] /\ view' \in [Topics -> 0..MaxChanges]
        /\ \A h \in Topics : reply'[h] <= version[h] /\ view'[h] <= version[h]
    BY <1>11, EventsAssumption DEF Shows, EventsTypeOK, NoReply, EventsAssumption
  <2> QED BY <1>11, <2>1 DEF Shows, EventsTypeOK
<1>12. ASSUME NEW t \in Topics, QueryFails(t) PROVE EventsTypeOK'
  BY <1>12, EventsAssumption DEF QueryFails, Loses, EventsTypeOK, EventsAssumption
<1>13. CASE Polls \/ FocusReturns
  BY <1>9, <1>13, EventsAssumption DEF Polls, FocusReturns, EventsAssumption
<1> QED BY <1>1, <1>2, <1>3, <1>4, <1>5, <1>6, <1>7, <1>8, <1>10, <1>11, <1>12, <1>13 DEF EventsNext

-----------------------------------------------------------------------------
(* No step leaves a page with an old view, nothing coming, and nothing     *)
(* missed or untold.                                                       *)

(* A change is announced, or known never to be.                            *)
LEMMA ChangeTells ==
  ASSUME EventsTypeOK, EventsAssumption, NEW s \in Topics, Changes(s), NEW t \in Topics,
         Coming(t) \/ t \in missed \union untold \/ t = s
  PROVE  Coming(t)' \/ t \in (missed \union untold)'
<1>1. /\ UNCHANGED <<stream, channel, wire, asked, missed>>
      /\ untold \subseteq untold' /\ \A e \in Kinds : due[e] > 0 => due'[e] > 0
  BY DEF Changes, EventsTypeOK
<1>2. Coming(t) => Coming(t)'
  BY <1>1 DEF Coming, Holds
<1>3. PICK op \in Operations :
        /\ op.alters = s
        /\ IF op.says = Quiet
           THEN UNCHANGED due
           ELSE \/ due' = [due EXCEPT ![op.says] = @ + 1]
                \/ due[op.says] > 0 /\ UNCHANGED due
        /\ untold' = IF op.says # Quiet /\ s \in Renews[op.says]
                     THEN untold ELSE untold \union {s}
  BY DEF Changes
<1>4. CASE op.says # Quiet /\ s \in Renews[op.says]
  <2>1. op.says \in Kinds
    BY <1>4, EventsAssumption DEF EventsAssumption
  <2>2. due'[op.says] > 0
    BY <1>3, <1>4, <2>1 DEF EventsTypeOK
  <2>3. Coming(s)'
    BY <1>4, <2>1, <2>2 DEF Coming
  <2> QED BY <1>1, <1>2, <2>3
<1>5. CASE ~(op.says # Quiet /\ s \in Renews[op.says])
  BY <1>1, <1>2, <1>3, <1>5
<1> QED BY <1>4, <1>5

(* A published event reaches the stream, or what it would have told is     *)
(* noted; so it is with the event it drives out.                           *)
LEMMA PublishTells ==
  ASSUME EventsTypeOK, EventsAssumption, NEW e \in Kinds, Publish(e), NEW t \in Topics, Coming(t)
  PROVE  Coming(t)' \/ t \in missed'
<1>1. /\ UNCHANGED <<stream, wire, asked>>
      /\ \A k \in Kinds : k # e => due'[k] = due[k]
  BY DEF Publish, EventsTypeOK
<1> SUFFICES ASSUME ~Coming(t)' PROVE t \in missed'
  OBVIOUS
<1>2. PICK k \in Kinds : t \in Renews[k] /\ (due[k] > 0 \/ Holds(channel, k) \/ Holds(wire, k))
  BY <1>1 DEF Coming, Holds
<1>3. ~(due'[k] > 0) /\ ~Holds(channel', k) /\ ~Holds(wire', k)
  BY <1>2 DEF Coming
<1>4. CASE stream = "subscribed"
  <2>1. channel' = Queued(e)
    BY <1>4 DEF Publish
  <2>2. k # e
    BY <1>3, <2>1, QueuedHolds
  <2>3. Holds(channel, k)
    BY <1>1, <1>2, <1>3, <2>2 DEF Holds
  <2>4. ~(Len(channel) < Buffer) /\ k = Head(channel)
    BY <1>3, <2>1, <2>3, QueuedHolds
  <2>5. Loses(Renews[Head(channel)])
    BY <1>4, <2>4 DEF Publish
  <2> QED BY <1>2, <2>4, <2>5 DEF Loses
<1>5. CASE stream # "subscribed"
  <2>1. UNCHANGED channel /\ Loses(Renews[e])
    BY <1>5 DEF Publish
  <2>2. k = e
    BY <1>1, <1>2, <1>3, <2>1 DEF Holds
  <2> QED BY <1>2, <2>1, <2>2 DEF Loses
<1> QED BY <1>4, <1>5

LEMMA EachCatchesUpStep ==
  ASSUME EventsInv, EventsAssumption, [EventsNext]_eventVars
  PROVE  EachCatchesUp'
<1> USE DEF NoReply
<1>1. CASE UNCHANGED eventVars
  BY <1>1 DEF eventVars, EventsInv, EachCatchesUp, UpToDate, Coming, Holds
<1>2. ASSUME NEW s \in Topics, Changes(s) PROVE EachCatchesUp'
  <2>1. ASSUME NEW t \in Topics, t # s, UpToDate(t) PROVE UpToDate(t)'
    BY <1>2, <2>1 DEF Changes, UpToDate, EventsInv, EventsTypeOK
  <2>2. ASSUME NEW t \in Topics PROVE Coming(t)' \/ t \in (missed \union untold)' \/ UpToDate(t)'
    BY <1>2, <2>1, ChangeTells DEF EventsInv, EachCatchesUp
  <2> QED BY <2>2 DEF EachCatchesUp
<1>3. ASSUME NEW e \in Kinds, Publish(e) PROVE EachCatchesUp'
  <2>1. UNCHANGED <<version, reply, view, untold>> /\ missed \subseteq missed'
    BY <1>3 DEF Publish, Loses
  <2>2. ASSUME NEW t \in Topics PROVE Coming(t)' \/ t \in (missed \union untold)' \/ UpToDate(t)'
    BY <1>3, <2>1, PublishTells DEF EventsInv, EachCatchesUp, UpToDate
  <2> QED BY <2>2 DEF EachCatchesUp
<1>4. CASE Greets
  <2>1. Holds(wire', "snapshot")
    BY <1>4 DEF Greets, Holds
  <2> QED BY <2>1 DEF EachCatchesUp, Coming
<1>5. CASE Subscribe
  <2>1. channel' = channel
    BY <1>5 DEF Subscribe, EventsInv, OwnChannel
  <2> QED BY <1>5, <2>1 DEF Subscribe, EventsInv, EachCatchesUp, UpToDate, Coming, Holds
<1>6. CASE Forwards
  <2>1. channel \in Seq(Kinds) /\ channel # <<>> /\ wire \in Seq(Event) /\ Head(channel) \in Event
    BY <1>6 DEF Forwards, EventsInv, EventsTypeOK, Event
  <2>2. ASSUME NEW k PROVE Holds(channel, k) <=> Holds(channel', k) \/ k = Head(channel)
    BY <1>6, <2>1, HoldsTail DEF Forwards
  <2>3. ASSUME NEW k PROVE Holds(wire', k) <=> Holds(wire, k) \/ k = Head(channel)
    BY <1>6, <2>1, HoldsAppend DEF Forwards
  <2>4. \A t \in Topics : Coming(t) => Coming(t)'
    BY <1>6, <2>2, <2>3 DEF Forwards, Coming
  <2> QED BY <1>6, <2>4 DEF Forwards, EventsInv, EachCatchesUp, UpToDate
<1>7. CASE Breaks
  BY <1>7 DEF Breaks, EachCatchesUp, Coming
<1>8. CASE Hears
  <2>1. wire \in Seq(Event) /\ wire # <<>>
    BY <1>8 DEF Hears, EventsInv, EventsTypeOK
  <2>2. ASSUME NEW k PROVE Holds(wire, k) <=> Holds(wire', k) \/ k = Head(wire)
    BY <1>8, <2>1, HoldsTail DEF Hears
  <2> DEFINE what == IF Head(wire) = "snapshot" THEN Topics ELSE Renews[Head(wire)]
  <2>3. /\ asked' = asked \union what
        /\ reply' = [t \in Topics |-> IF t \in what THEN NoReply ELSE reply[t]]
        /\ UNCHANGED <<version, due, stream, channel, view, missed, untold>>
    BY <1>8 DEF Hears
  <2>4. ASSUME NEW t \in Topics, t \in what PROVE Coming(t)'
    BY <2>3, <2>4 DEF Coming
  <2>5. ASSUME NEW t \in Topics, t \notin what PROVE Coming(t) => Coming(t)'
    <3>1. Head(wire) # "snapshot" /\ t \notin Renews[Head(wire)]
      BY <2>5
    <3>2. Holds(wire, "snapshot") <=> Holds(wire', "snapshot")
      BY <2>2, <3>1
    <3>3. \A k \in Kinds : t \in Renews[k] => (Holds(wire, k) <=> Holds(wire', k))
      BY <2>2, <3>1
    <3>4. asked \subseteq asked' /\ UNCHANGED <<due, stream, channel>>
      BY <2>3
    <3> QED BY <3>2, <3>3, <3>4 DEF Coming
  <2>6. ASSUME NEW t \in Topics, t \notin what, UpToDate(t) PROVE UpToDate(t)'
    BY <2>3, <2>6 DEF UpToDate
  <2> HIDE DEF what
  <2>7. ASSUME NEW t \in Topics PROVE Coming(t)' \/ t \in (missed \union untold)' \/ UpToDate(t)'
    <3>1. CASE t \in what
      BY <2>4, <3>1
    <3>2. CASE t \notin what
      <4>1. Coming(t) \/ t \in missed \union untold \/ UpToDate(t)
        BY DEF EventsInv, EachCatchesUp
      <4> QED BY <2>3, <2>5, <2>6, <3>2, <4>1
    <3> QED BY <3>1, <3>2
  <2> QED BY <2>7 DEF EachCatchesUp
<1>9. ASSUME NEW ts, AsksFor(ts) PROVE EachCatchesUp'
  <2>1. /\ UNCHANGED <<version, due, stream, channel, wire, reply, view, missed, untold>>
        /\ asked \subseteq asked'
    BY <1>9 DEF AsksFor
  <2>2. \A t \in Topics : Coming(t) => Coming(t)'
    BY <2>1 DEF Coming, Holds
  <2> QED BY <2>1, <2>2 DEF EventsInv, EachCatchesUp, UpToDate
<1>10. ASSUME NEW s \in Topics, Answers(s) PROVE EachCatchesUp'
  <2>1. /\ reply'[s] = version[s] /\ version[s] # NoReply
        /\ \A t \in Topics : t # s =>
             /\ reply'[t] = reply[t] /\ (t \in asked' <=> t \in asked)
             /\ (t \in missed \union untold => t \in (missed \union untold)')
        /\ UNCHANGED <<version, due, stream, channel, wire, view>>
    BY <1>10, EventsAssumption DEF Answers, EventsInv, EventsTypeOK, EventsAssumption
  <2>2. \A t \in Topics : t # s => (Coming(t) => Coming(t)')
    BY <2>1 DEF Coming, Holds
  <2>3. ASSUME NEW t \in Topics PROVE Coming(t)' \/ t \in (missed \union untold)' \/ UpToDate(t)'
    BY <2>1, <2>2 DEF EventsInv, EachCatchesUp, UpToDate
  <2> QED BY <2>3 DEF EachCatchesUp
<1>11. ASSUME NEW s \in Topics, Shows(s) PROVE EachCatchesUp'
  <2>1. /\ view'[s] = reply[s] /\ reply[s] # NoReply /\ reply'[s] = NoReply
        /\ \A t \in Topics : t # s => reply'[t] = reply[t] /\ view'[t] = view[t]
        /\ UNCHANGED <<version, due, stream, channel, wire, asked, missed, untold>>
    BY <1>11 DEF Shows, EventsInv, EventsTypeOK
  <2>2. \A t \in Topics : Coming(t) => Coming(t)'
    BY <2>1 DEF Coming, Holds
  <2>3. ASSUME NEW t \in Topics PROVE Coming(t)' \/ t \in (missed \union untold)' \/ UpToDate(t)'
    BY <2>1, <2>2 DEF EventsInv, EachCatchesUp, UpToDate
  <2> QED BY <2>3 DEF EachCatchesUp
<1>12. ASSUME NEW s \in Topics, QueryFails(s) PROVE EachCatchesUp'
  <2>1. /\ Loses({s}) /\ missed \subseteq missed'
        /\ \A t \in Topics : t # s => (t \in asked' <=> t \in asked)
        /\ UNCHANGED <<version, due, stream, channel, wire, reply, view, untold>>
    BY <1>12 DEF QueryFails, Loses
  <2>2. \A t \in Topics : t # s => (Coming(t) => Coming(t)')
    BY <2>1 DEF Coming, Holds
  <2>3. Coming(s)' \/ s \in missed'
    BY <2>1 DEF Loses
  <2>4. ASSUME NEW t \in Topics PROVE Coming(t)' \/ t \in (missed \union untold)' \/ UpToDate(t)'
    BY <2>1, <2>2, <2>3 DEF EventsInv, EachCatchesUp, UpToDate
  <2> QED BY <2>4 DEF EachCatchesUp
<1>13. CASE Polls \/ FocusReturns
  BY <1>9, <1>13 DEF Polls, FocusReturns
<1> QED BY <1>1, <1>2, <1>3, <1>4, <1>5, <1>6, <1>7, <1>8, <1>10, <1>11, <1>12, <1>13 DEF EventsNext

LEMMA OwnChannelStep ==
  ASSUME EventsInv, EventsAssumption, [EventsNext]_eventVars
  PROVE  OwnChannel'
BY DEF EventsInv, OwnChannel, EventsNext, eventVars, Changes, Publish, Greets, Subscribe, Forwards, Breaks,
       Hears, AsksFor, Polls, FocusReturns, Answers, Shows, QueryFails

LEMMA EventsStart ==
  ASSUME EventsAssumption, EventsInit
  PROVE  EventsInv
<1>1. <<>> \in Seq(Kinds) /\ <<>> \in Seq(Event) /\ Len(<<>>) = 0
  OBVIOUS
<1>2. EventsTypeOK
  BY <1>1 DEF EventsInit, EventsTypeOK, NoReply, EventsAssumption
<1>3. OwnChannel /\ EachCatchesUp
  BY DEF EventsInit, OwnChannel, EachCatchesUp, UpToDate, Coming
<1> QED BY <1>2, <1>3 DEF EventsInv

LEMMA EventsInvIsInvariant == EventsSpec => []EventsInv
<1>1. EventsInit => EventsInv
  BY EventsStart, EventsAssumption
<1>2. EventsInv /\ [EventsNext]_eventVars => EventsInv'
  <2>1. EventsInv /\ [EventsNext]_eventVars => EventsTypeOK'
    BY EventsTypeStep, EventsAssumption DEF EventsInv
  <2>2. EventsInv /\ [EventsNext]_eventVars => OwnChannel'
    BY OwnChannelStep, EventsAssumption
  <2>3. EventsInv /\ [EventsNext]_eventVars => EachCatchesUp'
    BY EachCatchesUpStep, EventsAssumption
  <2> QED BY <2>1, <2>2, <2>3 DEF EventsInv
<1> QED BY <1>1, <1>2, PTL DEF EventsSpec

-----------------------------------------------------------------------------
(* Types, and no reply or view ahead of the stores.                        *)
THEOREM EventsTypeCorrect == EventsSpec => []EventsTypeOK
BY EventsInvIsInvariant, PTL DEF EventsInv

(* When nothing is under way a page shows what the stores hold, but for    *)
(* what was announced and then lost and what was never announced to it:    *)
(* with any topics, kinds and listeners, buffers of any size, any number   *)
(* of changes, and streams that break at any point.                        *)
THEOREM PagesAlwaysCatchUp == EventsSpec => []PagesCatchUp
<1>1. EventsInv => PagesCatchUp
  BY DEF EventsInv, EachCatchesUp, UpToDate, PagesCatchUp
<1> QED BY <1>1, EventsInvIsInvariant, PTL

-----------------------------------------------------------------------------
(* The parts side by side.                                                 *)

(* The module that puts the parts side by side leaves each as it is.       *)
LEMMA EachPartByItself ==
  ServicesSpec => RoutesSpec /\ DataSpec /\ ConnSpec /\ EventsSpec /\ OrderSpec
<1>1. ServicesInit => RoutesInit /\ DataInit /\ ConnInit /\ EventsInit /\ OrderInit
  BY DEF ServicesInit
<1>2. [ServicesNext]_servicesVars =>
        /\ [RoutesNext]_routeVars /\ [DataNext]_dataVars /\ [ConnNext]_connVars
        /\ [EventsNext]_eventVars /\ [OrderNext]_orderVars
  BY Zenon DEF ServicesNext, servicesVars
<1> QED BY <1>1, <1>2, PTL DEF ServicesSpec, RoutesSpec, DataSpec, ConnSpec, EventsSpec, OrderSpec

(* What is said above and in the modules before of the types of the five   *)
(* parts holds of the five of them together.                               *)
THEOREM ServicesTypeCorrect == ServicesSpec => []ServicesTypeOK
BY EachPartByItself, RoutesTypeCorrect, DataTypeCorrect, ConnTypeCorrect, EventsTypeCorrect,
   OrderTypeCorrect, PTL DEF ServicesTypeOK
===============================================================================
