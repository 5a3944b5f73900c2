---------------------------- MODULE Conversation ----------------------------
(***************************************************************************)
(* What the bridge promises about each copy of a message it is handed,     *)
(* whatever the goroutines, channels and failures behind it.  It is        *)
(* accepted only while no other copy of the message is remembered, and the *)
(* bridge may forget a message: of two copies that are accepted, the first *)
(* was forgotten before the second came.  An accepted copy is taken up at  *)
(* most once; it is acted on (asked of the agent or run as a command) at   *)
(* most once, and only if its sender may; and what the sender then hears   *)
(* is an acknowledgement before the action, and after it either the parts  *)
(* of one reply in their order, perhaps with gaps, or one error and        *)
(* nothing else.  Nothing promises that anything is heard at all: WhatsApp *)
(* may be away.                                                            *)
(***************************************************************************)
EXTENDS Naturals

CONSTANTS Msgs,         \* copies of messages
          Ids, IdOf,    \* copy -> the id of its message
          MaxParts,
          Allowed       \* copies whose sender may have them acted on

VARIABLES known,        \* the ids remembered
          phase,        \* copy -> "new", "queued", "open", "acted", "closed"
          last          \* copy -> the last text its sender received for it

vars == <<known, phase, last>>

Note(kind) == [kind |-> kind, part |-> 0]
Part(k) == [kind |-> "reply", part |-> k]
Nothing == Note("nothing")

Init == /\ known = {}
        /\ phase = [m \in Msgs |-> "new"]
        /\ last = [m \in Msgs |-> Nothing]

Accept(m) == /\ phase[m] = "new"
             /\ IdOf[m] \notin known
             /\ known' = known \cup {IdOf[m]}
             /\ phase' = [phase EXCEPT ![m] = "queued"]
             /\ UNCHANGED last

Forget(i) == /\ known' = known \ {i}
             /\ UNCHANGED <<phase, last>>

(* m moves to one of the phases `next`, and its sender may hear t.         *)
Step(m, next, t) == /\ \E p \in next : phase' = [phase EXCEPT ![m] = p]
                    /\ last' \in {last, [last EXCEPT ![m] = t]}
                    /\ UNCHANGED known

(* Not authorised, or too many messages.                                   *)
TurnAway(m) == /\ phase[m] = "queued"
               /\ Step(m, {"closed"}, Note("deny"))

Open(m) == /\ phase[m] = "queued"
           /\ phase' = [phase EXCEPT ![m] = "open"]
           /\ UNCHANGED <<known, last>>

Act(m) == /\ phase[m] = "open"
          /\ m \in Allowed
          /\ Step(m, {"acted"}, Note("ack"))

Decline(m) == /\ phase[m] = "open"
              /\ m \notin Allowed
              /\ Step(m, {"closed"}, Note("refusal"))

Say(m, k) == /\ phase[m] = "acted"
             /\ last[m].part < k
             /\ Step(m, {"acted", "closed"}, Part(k))

Apologise(m) == /\ phase[m] = "acted"
                /\ last[m] = Nothing
                /\ Step(m, {"closed"}, Note("error"))

Close(m) == /\ phase[m] \in {"open", "acted"}
            /\ phase' = [phase EXCEPT ![m] = "closed"]
            /\ UNCHANGED <<known, last>>

Next == \/ \E i \in Ids : Forget(i)
        \/ \E m \in Msgs :
              \/ Accept(m) \/ TurnAway(m) \/ Open(m) \/ Act(m) \/ Decline(m)
              \/ Apologise(m) \/ Close(m) \/ \E k \in 1 .. MaxParts : Say(m, k)

Spec == Init /\ [][Next]_vars
=============================================================================
