------------------------------ MODULE Delivery ------------------------------
(***************************************************************************)
(* The delivery pipeline as main wires it: the poller and, in webhook      *)
(* modes, the webhook server write one channel; the merger reads it and    *)
(* writes the events channel; the bridge's consume loop takes from that.   *)
(* The process may be killed at any point, losing both channels, the       *)
(* dedup table and the cycle in progress; only the poller's state file     *)
(* survives.                                                               *)
(***************************************************************************)
EXTENDS Merge, Poller

CONSTANTS WebhookOn,    \* is the webhook server a source as well?
          MaxCrashes    \* bound: times the process is killed

ASSUME DeliveryAssumption == WebhookOn \in BOOLEAN /\ MaxCrashes \in Nat

VARIABLES delivered,    \* history: messages the bridge has taken
          crashes       \* times the process has been killed

vars == <<clock, stamp, ch, mergeVars, pollerVars, delivered, crashes>>

Init == /\ clock = 1 /\ stamp = <<>> /\ ch = <<>>
        /\ MergeInit
        /\ PollerInit
        /\ delivered = {}
        /\ crashes = 0

World == /\ Tick \/ Arrive
         /\ UNCHANGED <<mergeVars, pollerVars, delivered, crashes>>

Polling == PollerNext /\ UNCHANGED <<mergeVars, delivered, crashes>>

Merging == MergeNext /\ UNCHANGED <<pollerVars, delivered, crashes>>

(* webhook.Server.emitMessage: WhatsApp posts a message as it arrives, and *)
(* posts it again as often as it likes.                                    *)
Webhook == /\ WebhookOn
           /\ \E id \in Arrived \cap Supported : Put(id)
           /\ UNCHANGED <<clock, stamp, mergeVars, pollerVars, delivered, crashes>>

(* main's consume loop takes one event.                                    *)
Consume == /\ events # <<>>
           /\ events' = Tail(events)
           /\ delivered' = delivered \cup {Head(events)}
           /\ UNCHANGED <<clock, stamp, ch, seen, held, cutoff, nextSweep,
                          forwardedAt, pollerVars, crashes>>

(* The process is killed and started again; Run begins with the file.      *)
Crash == /\ crashes < MaxCrashes
         /\ crashes' = crashes + 1
         /\ ch' = <<>>
         /\ seen' = <<>> /\ held' = 0 /\ events' = <<>>
         /\ cutoff' = NoSweep /\ nextSweep' = clock + TTL
         /\ forwardedAt' = [id \in Msgs |-> 0]
         /\ pc' = "start" /\ lastPoll' = 0
         /\ CycleOver /\ newest' = 0
         /\ UNCHANGED <<clock, stamp, file, errors, polled, floor, delivered>>

Next == World \/ Polling \/ Merging \/ Webhook \/ Consume \/ Crash

(* Every goroutine that can go on does.  A send that waits on a full       *)
(* channel is queued by the runtime in arrival order, so it is not passed  *)
(* over for ever by other senders: strong fairness on the poller's.        *)
Fairness ==
    /\ WF_vars(Polling /\ (Resume \/ StartAfresh \/ BeginCycle \/ ListPage
                             \/ SkipMessage \/ NextPage \/ EndOfPages
                             \/ Advance \/ NothingNew))
    /\ SF_vars(Polling /\ EmitMessage)
    /\ WF_vars(Merging /\ (SkipDuplicate \/ Accept))
    /\ WF_vars(Merging /\ Forward)
    /\ WF_vars(Consume)

Spec == Init /\ [][Next]_vars

FairSpec == Spec /\ Fairness
-----------------------------------------------------------------------------
TypeOK ==
    /\ clock \in Nat
    /\ stamp \in Seq(Nat) /\ Len(stamp) <= MaxMsgs
    /\ ch \in Seq(Msgs) /\ Len(ch) <= ChCap
    /\ MergeTypeOK /\ PollerTypeOK
    /\ delivered \subseteq Msgs
    /\ crashes \in 0 .. MaxCrashes

(* However cycles fail, hit the page cap, are misled about the next page   *)
(* or are killed half-way, the cursor (in memory or on disk) never moves   *)
(* past a supported message the poller has not put on the channel, unless  *)
(* that message is older than the last fresh start or has the timestamp of *)
(* an earlier one: the cursor leaves the newest message's second whole, so *)
(* what the page cap or a later arrival kept out of it is lost.            *)
Passed(cursor) == {i \in Arrived \cap Supported : floor <= stamp[i] /\ stamp[i] < cursor}

Tied(i) == \E j \in Arrived : j < i /\ stamp[j] = stamp[i]

LostOnly(cursor) == \A i \in Passed(cursor) : i \in polled \/ Tied(i)

OnlyTiesPassedOver == LostOnly(lastPoll) /\ (file # Unreadable => LostOnly(file))

(* Within one run of the process an id is accepted a second time only when *)
(* more than TTL has passed since the first: no sweep, however it runs     *)
(* beside the merger, lets a recent message through again.                 *)
NoEarlyRepeat ==
    [][\A id \in Msgs :
          held = 0 /\ held' = id /\ forwardedAt[id] # 0 =>
              clock - forwardedAt[id] > TTL]_vars

(* Until the process is killed, messages that only the poller brings reach *)
(* the bridge in the order they arrived: none overtakes an older one, but  *)
(* for a tied one, which may be lost.                                      *)
InOrder ==
    [][~WebhookOn /\ crashes = 0 =>
       \A i \in delivered' \ delivered : \A j \in 1 .. i - 1 :
          j \in Supported /\ floor <= stamp[j] /\ ~Tied(j) => j \in delivered]_vars

(* Every supported message that arrives after the poller's start and is    *)
(* the first of its second reaches the bridge, although list calls fail    *)
(* and backlogs exceed a cycle.                                            *)
Due(i) == i \in Arrived /\ stamp[i] >= floor /\ ~Tied(i)

EveryMessageDelivered ==
    \A i \in Supported : Due(i) ~> (i \in delivered \/ ~Due(i))
=============================================================================
