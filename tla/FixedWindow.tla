---------------------------- MODULE FixedWindow ----------------------------
(***************************************************************************)
(* What the sender rate limit promises, without any of the guard's         *)
(* bookkeeping.  A sender's window is either shut or open; opening it      *)
(* spends the first of RateLimit messages, and it shuts by itself as soon  *)
(* as time passes its end.  There is no table, no lazy expiry and no       *)
(* sweep: Guard.tla has those, and implements this module.                 *)
(***************************************************************************)
EXTENDS Naturals

CONSTANTS Senders,      \* normalized phone numbers
          RateLimit,    \* messages a sender may have in one window
          RateWindow    \* length of a window

VARIABLES now,          \* the clock
          spent,        \* messages each sender has had in its open window
          closes        \* last instant of that window, 0 when it is shut

vars == <<now, spent, closes>>

Init == /\ now = 0
        /\ spent = [s \in Senders |-> 0]
        /\ closes = [s \in Senders |-> 0]

(* Time passes and the windows it has passed are shut.                     *)
Tick == /\ now' = now + 1
        /\ spent' = [s \in Senders |-> IF closes[s] < now' THEN 0 ELSE spent[s]]
        /\ closes' = [s \in Senders |-> IF closes[s] < now' THEN 0 ELSE closes[s]]

(* A message of a sender whose window is shut opens a window.              *)
Open(s) == /\ spent[s] = 0
           /\ spent' = [spent EXCEPT ![s] = 1]
           /\ closes' = [closes EXCEPT ![s] = now + RateWindow]
           /\ UNCHANGED now

(* A message inside an open window is charged to it while any is left.     *)
Spend(s) == /\ spent[s] \in 1 .. RateLimit - 1
            /\ spent' = [spent EXCEPT ![s] = @ + 1]
            /\ UNCHANGED <<now, closes>>

Next == Tick \/ \E s \in Senders : Open(s) \/ Spend(s)

Spec == Init /\ [][Next]_vars
=============================================================================
