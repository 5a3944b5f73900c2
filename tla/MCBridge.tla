------------------------------ MODULE MCBridge ------------------------------
(***************************************************************************)
(* Instances of Bridge: copies of a few messages, and commands of each     *)
(* kind.  A word with an upper-case form shows that names are lower-cased. *)
(***************************************************************************)
EXTENDS Bridge, TLC

CONSTANTS m1, m2, m3

MCWords == {"help", "hi", "Reset", "reset", "ask"}
MCLower == [w \in MCWords |-> IF w = "Reset" THEN "reset" ELSE w]
MCRoles == {"admin", "member"}
MCDefinitions == [reset |-> [type |-> "shell", roles |-> {"admin"}, ack |-> TRUE],
                  ask   |-> [type |-> "agent", roles |-> {}, ack |-> FALSE]]

Plain == [prefixed |-> FALSE, word |-> "hi"]
Command(w) == [prefixed |-> TRUE, word |-> w]

(* Two copies of a message for the agent, and a shell command of another   *)
(* sender, with an acknowledgement.                                        *)
TwiceId == m1 :> "a" @@ m2 :> "a" @@ m3 :> "b"
TwiceText == m1 :> Plain @@ m2 :> Plain @@ m3 :> Command("Reset")
TwiceRole == m1 :> "member" @@ m2 :> "member" @@ m3 :> "admin"
TwiceSender == m1 :> "s" @@ m2 :> "s" @@ m3 :> "t"

(* An agent command, a message of the same sender, and a command another   *)
(* sender may not run.                                                     *)
AgentId == m1 :> "a" @@ m2 :> "b" @@ m3 :> "c"
AgentText == m1 :> Command("ask") @@ m2 :> Plain @@ m3 :> Command("reset")
AgentRole == m1 :> "member" @@ m2 :> "member" @@ m3 :> "member"
AgentSender == m1 :> "s" @@ m2 :> "s" @@ m3 :> "t"
=============================================================================
