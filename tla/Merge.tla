------------------------------- MODULE Merge -------------------------------
(***************************************************************************)
(* internal/delivery.Merge: one goroutine drains the sources' channel,     *)
(* drops every id it has already seen and forwards the rest; a second one  *)
(* forgets, on a ticker, the ids first seen more than TTL ago.  The two    *)
(* share only `seen`, entry by entry, so a sweep is a step per entry.      *)
(***************************************************************************)
EXTENDS Inbox

CONSTANTS TTL,          \* how long an id is remembered, and the sweep period
          EvCap         \* capacity of the events channel

ASSUME MergeAssumption == TTL \in Nat \ {0} /\ EvCap \in Nat \ {0}

VARIABLES seen,         \* id -> when it was first seen
          held,         \* the event being forwarded, 0 when receiving
          events,       \* ids on the channel the bridge consumes
          cutoff,       \* cutoff of the sweep in progress, NoSweep when none
          nextSweep,    \* when the cleanup ticker fires next
          forwardedAt   \* history: when each id was last accepted, 0 if never,
                        \* since the process started

mergeVars == <<seen, held, events, cutoff, nextSweep, forwardedAt>>

NoSweep == -1 - TTL

MergeInit == /\ seen = <<>>
             /\ held = 0
             /\ events = <<>>
             /\ cutoff = NoSweep
             /\ nextSweep = clock + TTL
             /\ forwardedAt = [id \in Msgs |-> 0]

Receive == /\ held = 0
           /\ ch # <<>>
           /\ ch' = Tail(ch)

Remember(id) ==
    seen' = [x \in DOMAIN seen \cup {id} |-> IF x = id THEN clock ELSE seen[x]]

(* LoadOrStore found the id: the event is a duplicate.                     *)
SkipDuplicate == /\ Receive
                 /\ Head(ch) \in DOMAIN seen
                 /\ UNCHANGED mergeVars

(* The clock is read just before LoadOrStore; here the two are one step,   *)
(* so what the TTL counts from is the reading that is stored.              *)
Accept == /\ Receive
          /\ Head(ch) \notin DOMAIN seen
          /\ Remember(Head(ch))
          /\ held' = Head(ch)
          /\ forwardedAt' = [forwardedAt EXCEPT ![Head(ch)] = clock]
          /\ UNCHANGED <<events, cutoff, nextSweep>>

(* `out <- evt` blocks while the bridge is behind.                         *)
ForwardUnbounded == /\ held # 0
                    /\ events' = Append(events, held)
                    /\ held' = 0
                    /\ UNCHANGED <<ch, seen, cutoff, nextSweep, forwardedAt>>

Forward == /\ held # 0
           /\ Len(events) < EvCap
           /\ events' = Append(events, held)
           /\ held' = 0
           /\ UNCHANGED <<ch, seen, cutoff, nextSweep, forwardedAt>>

OldAny(id) == TRUE

Old(id) == seen[id] < cutoff

SweepBegin == /\ cutoff = NoSweep
              /\ clock >= nextSweep
              /\ cutoff' = clock - TTL
              /\ nextSweep' = nextSweep + TTL
              /\ UNCHANGED <<ch, seen, held, events, forwardedAt>>

Forget == /\ cutoff # NoSweep
          /\ \E id \in DOMAIN seen :
                /\ Old(id)
                /\ seen' = [x \in DOMAIN seen \ {id} |-> seen[x]]
          /\ UNCHANGED <<ch, held, events, cutoff, nextSweep, forwardedAt>>

SweepEnd == /\ cutoff # NoSweep
            /\ \A id \in DOMAIN seen : ~Old(id)
            /\ cutoff' = NoSweep
            /\ UNCHANGED <<ch, seen, held, events, nextSweep, forwardedAt>>

MergeNext == /\ \/ SkipDuplicate \/ Accept \/ Forward
                \/ SweepBegin \/ Forget \/ SweepEnd
             /\ UNCHANGED <<clock, stamp>>

MergeTypeOK ==
    /\ DOMAIN seen \subseteq Msgs
    /\ seen \in [DOMAIN seen -> Nat]
    /\ held \in {0} \cup Msgs
    /\ events \in Seq(Msgs) /\ Len(events) <= EvCap
    /\ cutoff \in Int /\ nextSweep \in Nat
    /\ forwardedAt \in [Msgs -> Nat]
=============================================================================
