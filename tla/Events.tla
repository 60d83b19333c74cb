-------------------------------- MODULE Events --------------------------------
(***************************************************************************)
(* How an open page learns of changes: a store publishes what has changed  *)
(* (internal/events), the handler of /api/v1/events forwards it, and the   *)
(* page asks for what it has a listener for (web/src/hooks/                *)
(* useEventStream.ts).  An event only notifies; each subscriber has a      *)
(* buffer of its own that drops its oldest event when it is full.  A new   *)
(* stream begins with a snapshot event, which makes the page ask for       *)
(* everything.  Nothing is published to a stream between its snapshot and  *)
(* Subscribe.                                                              *)
(*                                                                         *)
(* Not every change is announced.  What the user edits in nodepool,        *)
(* proxychain and proxychannel and what the deletion of a subscription     *)
(* removes from pools and rules publishes nothing; runtime.switched and    *)
(* nodes.imported are published and have no listener.  Such a change is    *)
(* seen when the page asks for another reason: some views poll, and every  *)
(* query is sent again when the window gets the focus back.                *)
(*                                                                         *)
(* Heartbeats, the history, which nobody reads, and the payloads, which    *)
(* the page does not look at, are left out.                                *)
(***************************************************************************)
EXTENDS Integers, Sequences

CONSTANTS
  Topics,      \* kinds of data a page shows
  Kinds,       \* types of events
  Renews,      \* what the listeners of the page ask for on each of them
  Quiet,       \* no event at all
  Operations,  \* what the stores do: which topic changes, which event says so
  Polled,      \* topics that an open view asks for again and again
  Buffer,      \* subscriberBuffer
  MaxChanges,  \* bound: changes of each
  MaxBreaks    \* bound: times the stream breaks

ASSUME EventsAssumption ==
  /\ Renews \in [Kinds -> SUBSET Topics] /\ Quiet \notin Kinds
  /\ Operations \subseteq [alters : Topics, says : Kinds \union {Quiet}]
  /\ Polled \subseteq Topics
  /\ Buffer \in Nat \ {0} /\ MaxChanges \in Nat /\ MaxBreaks \in Nat

VARIABLES
  version,  \* what the stores hold
  due,      \* events that changes already made will publish
  stream,   \* the handler: none, has written the snapshot, has subscribed
  channel,  \* events in the subscriber's channel
  wire,     \* events written to the connection
  asked,    \* topics the page has asked for
  reply,    \* replies on their way, -1 for none
  view,     \* what the page shows
  missed,   \* history: topics whose last event, or the reply to it, was lost
            \* after the last answer about them
  untold,   \* history: topics with a change since the last answer about them
            \* that no event the page listens to will tell of
  breaks

eventVars == <<version, due, stream, channel, wire, asked, reply, view, missed,
               untold, breaks>>

NoReply == -1

Event == Kinds \union {"snapshot"}

Holds(s, e) == \E i \in 1..Len(s) : s[i] = e

(* The page will ask for t again.                                          *)
Coming(t) ==
  \/ stream = "none" \/ Holds(wire, "snapshot") \/ t \in asked
  \/ \E e \in Kinds : /\ t \in Renews[e]
                     /\ (due[e] > 0 \/ Holds(channel, e) \/ Holds(wire, e))

(* What would have made it ask for ts is lost.                             *)
Loses(ts) == missed' = missed \union {t \in ts : ~Coming(t)'}

-----------------------------------------------------------------------------
(* A store changes, and will publish so: under its lock, or later, then    *)
(* perhaps with other changes of the same request.                         *)
Changes(t) ==
  /\ version[t] < MaxChanges
  /\ version' = [version EXCEPT ![t] = @ + 1]
  /\ \E op \in Operations :
       /\ op.alters = t
       /\ IF op.says = Quiet
          THEN UNCHANGED due
          ELSE \/ due' = [due EXCEPT ![op.says] = @ + 1]
               \/ due[op.says] > 0 /\ UNCHANGED due
       /\ untold' = IF op.says # Quiet /\ t \in Renews[op.says]
                    THEN untold ELSE untold \union {t}
  /\ UNCHANGED <<stream, channel, wire, asked, reply, view, missed, breaks>>

(* Mutant: a full channel takes no event.                                  *)
DropsNew(e) == IF Len(channel) < Buffer THEN Append(channel, e) ELSE channel

Queued(e) == IF Len(channel) < Buffer THEN Append(channel, e) ELSE Append(Tail(channel), e)

(* Publish: only a stream that has subscribed gets the event, and a full   *)
(* one loses another.                                                      *)
Publish(e) ==
  /\ due[e] > 0 /\ due' = [due EXCEPT ![e] = @ - 1]
  /\ UNCHANGED <<version, stream, wire, asked, reply, view, untold, breaks>>
  /\ IF stream = "subscribed"
     THEN /\ channel' = Queued(e)
          /\ Loses(IF Len(channel) < Buffer THEN {} ELSE Renews[Head(channel)])
     ELSE UNCHANGED channel /\ Loses(Renews[e])

-----------------------------------------------------------------------------
(* eventStream: a snapshot, Subscribe, and then what the channel has.      *)
Greets ==
  /\ stream = "none" /\ stream' = "greeted"
  /\ wire' = <<"snapshot">>
  /\ UNCHANGED <<version, due, channel, asked, reply, view, missed, untold, breaks>>

Subscribe ==
  /\ stream = "greeted" /\ stream' = "subscribed"
  /\ channel' = <<>>
  /\ UNCHANGED <<version, due, wire, asked, reply, view, missed, untold, breaks>>

Forwards ==
  /\ stream = "subscribed" /\ channel # <<>>
  /\ wire' = Append(wire, Head(channel)) /\ channel' = Tail(channel)
  /\ UNCHANGED <<version, due, stream, asked, reply, view, missed, untold, breaks>>

(* The connection breaks, and the browser opens another one.               *)
Breaks ==
  /\ stream # "none" /\ stream' = "none"
  /\ breaks < MaxBreaks /\ breaks' = breaks + 1
  /\ channel' = <<>> /\ wire' = <<>>
  /\ UNCHANGED <<version, due, asked, reply, view, missed, untold>>

-----------------------------------------------------------------------------
(* The page: an event invalidates what it has a listener for; a query is   *)
(* sent again, the reply to an earlier one being dropped.                  *)
Hears ==
  LET what == IF Head(wire) = "snapshot" THEN Topics ELSE Renews[Head(wire)]
  IN /\ wire # <<>> /\ wire' = Tail(wire)
     /\ asked' = asked \union what
     /\ reply' = [t \in Topics |-> IF t \in what THEN NoReply ELSE reply[t]]
     /\ UNCHANGED <<version, due, stream, channel, view, missed, untold, breaks>>

(* A view polls, or the window has the focus back: queries on their way    *)
(* are not sent again.                                                     *)
AsksFor(ts) ==
  /\ asked' = asked \union {t \in ts : reply[t] = NoReply}
  /\ asked' # asked
  /\ UNCHANGED <<version, due, stream, channel, wire, reply, view, missed, untold,
                 breaks>>

Polls == \E t \in Polled : AsksFor({t})

FocusReturns == AsksFor(Topics)

Answers(t) ==
  /\ t \in asked /\ asked' = asked \ {t}
  /\ reply' = [reply EXCEPT ![t] = version[t]]
  /\ missed' = missed \ {t} /\ untold' = untold \ {t}
  /\ UNCHANGED <<version, due, stream, channel, wire, view, breaks>>

Shows(t) ==
  /\ reply[t] # NoReply
  /\ view' = [view EXCEPT ![t] = reply[t]] /\ reply' = [reply EXCEPT ![t] = NoReply]
  /\ UNCHANGED <<version, due, stream, channel, wire, asked, missed, untold, breaks>>

(* The request fails, also when it is tried again.                         *)
QueryFails(t) ==
  /\ t \in asked /\ asked' = asked \ {t}
  /\ breaks < MaxBreaks /\ breaks' = breaks + 1
  /\ UNCHANGED <<version, due, stream, channel, wire, reply, view, untold>>
  /\ Loses({t})

-----------------------------------------------------------------------------
EventsInit ==
  /\ version = [t \in Topics |-> 0] /\ view = version
  /\ due = [e \in Kinds |-> 0]
  /\ stream = "none" /\ channel = <<>> /\ wire = <<>>
  /\ asked = {} /\ reply = [t \in Topics |-> NoReply]
  /\ missed = {} /\ untold = {} /\ breaks = 0

EventsNext ==
  \/ \E t \in Topics : Changes(t) \/ Answers(t) \/ Shows(t) \/ QueryFails(t)
  \/ \E e \in Kinds : Publish(e)
  \/ Greets \/ Subscribe \/ Forwards \/ Breaks \/ Hears \/ Polls \/ FocusReturns

EventsSpec == EventsInit /\ [][EventsNext]_eventVars

-----------------------------------------------------------------------------
(* Types of the stream and the page; no reply and no view is of a version  *)
(* there never was, and no channel holds more than its buffer.             *)
EventsTypeOK ==
  /\ version \in [Topics -> 0..MaxChanges] /\ due \in [Kinds -> Nat]
  /\ stream \in {"none", "greeted", "subscribed"}
  /\ channel \in Seq(Kinds) /\ Len(channel) <= Buffer /\ wire \in Seq(Event)
  /\ asked \subseteq Topics /\ breaks \in 0..MaxBreaks
  /\ missed \subseteq Topics /\ untold \subseteq Topics
  /\ reply \in [Topics -> NoReply..MaxChanges] /\ view \in [Topics -> 0..MaxChanges]
  /\ \A t \in Topics : reply[t] <= version[t] /\ view[t] <= version[t]

(* docs/architecture.md, 7: events only notify, and what is true comes     *)
(* from the queries.  When nothing is under way any more, a page shows     *)
(* what the stores hold, but for two causes: the last event of a kind, or  *)
(* the reply to it, was lost, or a change was announced by no event that   *)
(* the page listens to.  Events that are merged, overtaken or of another   *)
(* kind do no harm, a new stream makes good whatever was missed, and so    *)
(* does any answer, whatever made the page ask.                            *)
PagesCatchUp ==
  \A t \in Topics :
    Coming(t) \/ reply[t] # NoReply \/ t \in missed \union untold \/ view[t] = version[t]
===============================================================================
