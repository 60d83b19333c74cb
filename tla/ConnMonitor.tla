----------------------------- MODULE ConnMonitor -----------------------------
(***************************************************************************)
(* The connection monitor of internal/connmon: one goroutine polls the     *)
(* core and keeps the connections it has seen, closed ones included, up to *)
(* a fixed number of them.  A poll asks for the connections without the    *)
(* mutex and enters them under it, so that Reset and Stop come in between. *)
(*                                                                         *)
(* Hosts, rates, the resolution of nodes and the views are left out.  The  *)
(* counters a rate is computed from (lastSeen) are there for exactly the   *)
(* active links, so that they have no variable of their own.  The          *)
(* identifiers of connections are never used twice.                        *)
(***************************************************************************)
EXTENDS Integers, FiniteSets, SequencesExt

CONSTANTS
  Conns,      \* connections
  MaxLinks,   \* how many are kept
  MaxResets   \* bound: times the user clears the list

ASSUME ConnAssumption == MaxLinks \in Nat \ {0} /\ MaxResets \in Nat

VARIABLES
  life,      \* each connection of the core: new, open or closed
  coreUp,
  poller,    \* the goroutine: gone, waiting for the core, between polls or in one
  answer,    \* the connections the core has answered with, in its order
  running,   \* m.running
  cancelled, \* the goroutine's context
  links,     \* m.order, and those of them that are active
  foreign,   \* history: connections of a core before the one the monitor was started for
  resets,
  calm       \* history: polls begun and ended since the core or the list last changed

connVars == <<life, coreUp, poller, answer, running, cancelled, links, foreign, resets, calm>>

Open == {c \in Conns : life[c] = "open"}

NoLinks == [order |-> <<>>, active |-> {}]

(* Without the oldest link of some, or the oldest of all if there is none. *)
WithoutOldest(t, some) ==
  LET is == {i \in DOMAIN t.order : t.order[i] \in some}
      oldest == IF is = {} THEN 1 ELSE CHOOSE i \in is : \A j \in is : i <= j
  IN [order |-> RemoveAt(t.order, oldest), active |-> t.active \ {t.order[oldest]}]

(* Mutant: open links are preferred.                                       *)
EvictsOpen(t) == WithoutOldest(t, t.active)

(* Links that are marked closed are preferred.                             *)
evictOldestLocked(t) == WithoutOldest(t, ToSet(t.order) \ t.active)

Entered(t, c) ==
  LET known == c \in ToSet(t.order)
      room == IF known \/ Len(t.order) < MaxLinks THEN t ELSE evictOldestLocked(t)
  IN [order |-> IF known THEN room.order ELSE Append(room.order, c),
      active |-> room.active \union {c}]

(* The links after a poll: those of the answer are entered one by one, and *)
(* only then the ones that are not in it are marked closed.                *)
Merged(t, conns) ==
  LET after[k \in 0..Len(conns)] == IF k = 0 THEN t ELSE Entered(after[k - 1], conns[k])
  IN [after[Len(conns)] EXCEPT !.active = @ \intersect ToSet(conns)]

-----------------------------------------------------------------------------
(* The core.                                                               *)
Disturbed == calm' = IF poller = "polling" THEN -1 ELSE 0

CoreChanges(new) ==
  /\ life' = new /\ Disturbed
  /\ UNCHANGED <<poller, answer, running, cancelled, links, foreign, resets>>

Opens(c) == coreUp /\ life[c] = "new" /\ CoreChanges([life EXCEPT ![c] = "open"]) /\ UNCHANGED coreUp

Closes(c) == life[c] = "open" /\ CoreChanges([life EXCEPT ![c] = "closed"]) /\ UNCHANGED coreUp

AllClosed == [c \in Conns |-> IF life[c] = "open" THEN "closed" ELSE life[c]]

CoreStarts == ~coreUp /\ Cardinality(foreign) < Cardinality(Conns)
              /\ coreUp' = TRUE /\ CoreChanges(life)

CoreEnds == coreUp /\ coreUp' = FALSE /\ CoreChanges(AllClosed)

-----------------------------------------------------------------------------
(* What the control service does with the monitor.  Start stops the one    *)
(* before and waits for its goroutine.                                     *)
Start ==
  /\ poller = "gone" /\ ~running /\ coreUp
  /\ poller' = "waiting" /\ running' = TRUE /\ cancelled' = FALSE
  /\ links' = NoLinks
  /\ foreign' = {c \in Conns : life[c] = "closed"}
  /\ Disturbed
  /\ UNCHANGED <<life, coreUp, answer, resets>>

Stop ==
  /\ running
  /\ running' = FALSE /\ cancelled' = TRUE
  /\ UNCHANGED <<life, coreUp, poller, answer, links, foreign, resets, calm>>

Reset ==
  /\ resets < MaxResets /\ resets' = resets + 1
  /\ links' = NoLinks /\ Disturbed
  /\ UNCHANGED <<life, coreUp, poller, answer, running, cancelled, foreign>>

-----------------------------------------------------------------------------
PollerMoves(from, to) ==
  /\ poller = from /\ poller' = to
  /\ UNCHANGED <<life, coreUp, running, cancelled, foreign, resets>>

(* waitReady: the core answers,                                            *)
Readies == coreUp /\ ~cancelled /\ PollerMoves("waiting", "asleep") /\ UNCHANGED <<answer, links, calm>>

(* or does not in time; the goroutine ends and nobody is told.             *)
GivesUpWaiting == ~coreUp /\ PollerMoves("waiting", "gone") /\ UNCHANGED <<answer, links, calm>>

Ends ==
  /\ cancelled
  /\ PollerMoves("waiting", "gone") \/ PollerMoves("asleep", "gone")
  /\ UNCHANGED <<answer, links, calm>>

(* poll: /connections, then /proxies, then the mutex.                      *)
Asks ==
  /\ ~cancelled /\ coreUp
  /\ PollerMoves("asleep", "polling")
  /\ answer' \in {s \in [1..Cardinality(Open) -> Open] : ToSet(s) = Open}
  /\ UNCHANGED <<links, calm>>

(* A poll that fails leaves everything as it is.                           *)
AskFails == PollerMoves("asleep", "asleep") /\ UNCHANGED <<answer, links, calm>>

Enters ==
  /\ PollerMoves("polling", "asleep")
  /\ links' = Merged(links, answer) /\ answer' = <<>>
  /\ calm' = IF calm = 2 THEN 2 ELSE calm + 1

-----------------------------------------------------------------------------
ConnInit ==
  /\ life = [c \in Conns |-> "new"] /\ coreUp = FALSE
  /\ poller = "gone" /\ answer = <<>> /\ running = FALSE /\ cancelled = FALSE
  /\ links = NoLinks /\ foreign = {} /\ resets = 0 /\ calm = 0

ConnNext ==
  \/ \E c \in Conns : Opens(c) \/ Closes(c)
  \/ CoreStarts \/ CoreEnds
  \/ Start \/ Stop \/ Reset
  \/ Readies \/ GivesUpWaiting \/ Ends \/ Asks \/ AskFails \/ Enters

ConnSpec == ConnInit /\ [][ConnNext]_connVars

-----------------------------------------------------------------------------
(* Types of the monitor's state.  A link is kept once, there are never     *)
(* more than MaxLinks, the active ones among them, and none of a core      *)
(* before the one the monitor was started for.                             *)
ConnTypeOK ==
  /\ life \in [Conns -> {"new", "open", "closed"}] /\ coreUp \in BOOLEAN
  /\ poller \in {"gone", "waiting", "asleep", "polling"}
  /\ running \in BOOLEAN /\ cancelled \in BOOLEAN
  /\ Len(links.order) = Cardinality(ToSet(links.order)) /\ Len(links.order) <= MaxLinks
  /\ links.active \subseteq ToSet(links.order)
  /\ ToSet(links.order) \subseteq Conns \ (IF running THEN foreign ELSE {})
  /\ ToSet(answer) \subseteq Conns /\ foreign \subseteq Conns
  /\ resets \in 0..MaxResets /\ calm \in -1..2

(* When nothing has changed for two whole polls, and no more connections   *)
(* are open than it can keep, the links shown as active are exactly the    *)
(* open ones, whichever were dropped for others before.  One poll is not   *)
(* enough: connections that are gone still count as active while those of  *)
(* the answer are entered, so that an open link may be dropped for one     *)
(* that is closed.                                                         *)
LinksFollowCore ==
  running /\ calm = 2 /\ Cardinality(Open) <= MaxLinks => links.active = Open
=============================================================================
