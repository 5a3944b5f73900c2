------------------------------- MODULE Inbox -------------------------------
(***************************************************************************)
(* What the parts of internal/delivery share: the clock, the messages the  *)
(* Kapso API holds (external), and the channel every source writes and the *)
(* merger reads.                                                           *)
(*                                                                         *)
(* A message is its position in the API's list, which is ordered by time;  *)
(* times are whole seconds, as in the API's timestamps and its `since`.    *)
(***************************************************************************)
EXTENDS Integers, Sequences

CONSTANTS MaxMsgs,      \* bound: messages that ever arrive
          MaxTime,      \* bound of the model's clock
          Supported,    \* the messages ExtractText turns into text
          ChCap         \* capacity of the sources' channel

ASSUME InboxAssumption == /\ MaxMsgs \in Nat
                          /\ MaxTime \in Nat
                          /\ Supported \subseteq 1 .. MaxMsgs
                          /\ ChCap \in Nat \ {0}

VARIABLES clock,        \* the current second
          stamp,        \* the arrived messages' timestamps, in list order
          ch            \* message ids on the sources' channel

Msgs == 1 .. MaxMsgs

Arrived == 1 .. Len(stamp)

Tick == /\ clock < MaxTime
        /\ clock' = clock + 1
        /\ UNCHANGED <<stamp, ch>>

Arrive == /\ Len(stamp) < MaxMsgs
          /\ stamp' = Append(stamp, clock)
          /\ UNCHANGED <<clock, ch>>

(* `out <- event` blocks while the channel is full.                        *)
Put(id) == /\ Len(ch) < ChCap
           /\ ch' = Append(ch, id)
=============================================================================
