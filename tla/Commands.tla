------------------------------ MODULE Commands ------------------------------
(***************************************************************************)
(* internal/commands.Dispatcher: which texts are commands, which command a *)
(* text names, who may run it, and what kind of work it is.  A text is     *)
(* whether it starts with the configured prefix, and its first word.       *)
(***************************************************************************)
CONSTANTS Words,        \* first words of texts, names of commands
          Lower,        \* strings.ToLower on words
          Roles,        \* role names
          Definitions   \* name -> its type, its roles, and whether it has an ack

Texts == [prefixed : BOOLEAN, word : Words]

ASSUME CommandsAssumption ==
    /\ "help" \in Words
    /\ Lower \in [Words -> Words]
    /\ DOMAIN Definitions \subseteq Words
    /\ \A n \in DOMAIN Definitions :
          Definitions[n] \in [type : {"shell", "agent"}, roles : SUBSET Roles, ack : BOOLEAN]

IsCommand(text) == DOMAIN Definitions # {} /\ text.prefixed

Parse(text) == Lower[text.word]

Exists(name) == name = "help" \/ name \in DOMAIN Definitions

CanRun(name, role) ==
    \/ name = "help"
    \/ /\ name \in DOMAIN Definitions
       /\ \/ Definitions[name].roles = {}
          \/ role \in Definitions[name].roles

HasAck(name) == name \in DOMAIN Definitions /\ Definitions[name].ack

(* "help" is built in and shadows a definition of that name.               *)
Kind(name) == IF name = "help" THEN "help" ELSE Definitions[name].type
=============================================================================
