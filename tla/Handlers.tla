------------------------------ MODULE Handlers ------------------------------
(***************************************************************************)
(* handleMessage and handleCommand, one goroutine per copy of a message,   *)
(* and the typing-refresh goroutine beside the former.  Each works through *)
(* calls of the Kapso client; a call has its effect or fails, under a      *)
(* cancelled context it can only fail, and one that shows the typing       *)
(* indicator may time out here and still arrive there later.               *)
(***************************************************************************)
EXTENDS Intake, Commands

CONSTANTS Text,         \* copy -> its text
          RoleOf,       \* copy -> its sender's role
          MaxParts,     \* bound: chunks SplitMessage makes of a reply
          Watched,      \* bound: copies whose typing requests are modelled
          Followed,     \* bound: copies whose sender's texts are modelled
          MaxWire       \* bound: typing requests of a copy on the wire

ASSUME HandlersAssumption == /\ Text \in [Msgs -> Texts]
                             /\ RoleOf \in [Msgs -> Roles]
                             /\ MaxParts \in Nat \ {0}
                             /\ Watched \subseteq Msgs /\ Followed \subseteq Msgs
                             /\ MaxWire \in Nat

VARIABLES at,           \* copy -> where its handling is: see HandlersTypeOK
          part,         \* copy -> the chunk of its reply to send next
          last,         \* copy -> the last text its sender received for it
          refresher,    \* copy -> the refresh goroutine: "off", "idle", "calling"
          typing,       \* the ids whose indicator WhatsApp shows
          wire,         \* copy -> typing requests that may yet arrive
          used          \* slots taken

typingVars == <<refresher, typing, wire>>
handlerVars == <<at, part, last, typingVars, used>>

Note(kind) == [kind |-> kind, part |-> 0]
Part(k) == [kind |-> "reply", part |-> k]

HandlersInit == /\ at = [m \in Msgs |-> "none"]
                /\ part = [m \in Msgs |-> 1]
                /\ last = [m \in Msgs |-> Note("nothing")]
                /\ refresher = [m \in Msgs |-> "off"]
                /\ typing = {}
                /\ wire = [m \in Msgs |-> 0]
                /\ used = 0

Name(m) == Parse(Text[m])
IsCmd(m) == IsCommand(Text[m])
May(m) == Exists(Name(m)) /\ CanRun(Name(m), RoleOf[m])

Goto(m, place) == at' = [at EXCEPT ![m] = place]

SendText(m, text) == \/ /\ ~Cancelled /\ m \in Followed
                        /\ last' = [last EXCEPT ![m] = text]
                     \/ UNCHANGED last

(* A request that shows the indicator when it arrives, if it does.         *)
RequestTyping(m) == /\ ~Cancelled /\ m \in Watched
                    /\ wire[m] < MaxWire
                    /\ wire' = [wire EXCEPT ![m] = @ + 1]
                    /\ UNCHANGED typing

(* The first call: read mark and typing indicator.  What follows depends   *)
(* on the text: a message asks the agent, a command may be refused, may    *)
(* announce itself, or runs.                                               *)
Start(m) ==
    /\ at[m] = "start"
    /\ \/ UNCHANGED <<typing, wire>>
       \/ /\ ~Cancelled /\ m \in Watched
          /\ typing' = typing \cup {IdOf[m]}
          /\ UNCHANGED wire
       \/ RequestTyping(m)
    /\ IF ~IsCmd(m) /\ m \in Watched
       THEN refresher' = [refresher EXCEPT ![m] = "idle"]
       ELSE UNCHANGED refresher
    /\ Goto(m, IF ~IsCmd(m) THEN "asking"
               ELSE IF ~May(m) THEN "refusing"
               ELSE IF HasAck(Name(m)) THEN "acking" ELSE "running")
    /\ UNCHANGED <<part, last, used>>

(* typingCtx is over: typingCancel, which comes as soon as the gateway has *)
(* answered or failed and is deferred for a panic, or the parent context.  *)
TypingOver(m) == at[m] # "asking" \/ Cancelled

(* The refresh goroutine takes a tick: the select may choose one though    *)
(* the context is over.                                                    *)
Tick(m) == /\ refresher[m] = "idle"
           /\ refresher' = [refresher EXCEPT ![m] = "calling"]
           /\ UNCHANGED <<at, part, last, typing, wire, used>>

RefreshUncancelled(m) ==
    /\ refresher[m] = "calling"
    /\ RequestTyping(m) \/ UNCHANGED <<typing, wire>>
    /\ refresher' = [refresher EXCEPT ![m] = "idle"]
    /\ UNCHANGED <<at, part, last, used>>

(* Its call: nothing is sent once the context is over.                     *)
Refresh(m) ==
    /\ refresher[m] = "calling"
    /\ \/ ~TypingOver(m) /\ RequestTyping(m)
       \/ UNCHANGED <<typing, wire>>
    /\ refresher' = [refresher EXCEPT ![m] = "idle"]
    /\ UNCHANGED <<at, part, last, used>>

RefreshEnds(m) == /\ refresher[m] = "idle"
                  /\ TypingOver(m)
                  /\ refresher' = [refresher EXCEPT ![m] = "off"]
                  /\ UNCHANGED <<at, part, last, typing, wire, used>>

(* A typing request arrives, or is dropped on the way.                     *)
Arrive(m) == /\ wire[m] > 0
             /\ wire' = [wire EXCEPT ![m] = @ - 1]
             /\ typing' \in {typing, typing \cup {IdOf[m]}}
             /\ UNCHANGED <<at, part, last, refresher, used>>

Refuse(m) == /\ at[m] = "refusing"
             /\ SendText(m, Note("refusal"))
             /\ Goto(m, "dismissing")
             /\ UNCHANGED <<part, typingVars, used>>

Ack(m) == /\ at[m] = "acking"
          /\ SendText(m, Note("ack"))
          /\ Goto(m, "running")
          /\ UNCHANGED <<part, typingVars, used>>

(* A reply has come: at least one chunk, or an empty one of a command.     *)
ReplyIn(m, places) == /\ \E place \in places : Goto(m, place)
                      /\ UNCHANGED <<part, last, typingVars, used>>

(* SendAndReceive under the ten-minute deadline.                           *)
Answered(m) == /\ at[m] = "asking"
               /\ ReplyIn(m, {"replying"})

AskFails(m) == /\ at[m] = "asking"
               /\ Goto(m, "apologising")
               /\ UNCHANGED <<part, last, typingVars, used>>

Apologise(m) == /\ at[m] = "apologising"
                /\ SendText(m, Note("error"))
                /\ Goto(m, "dismissing")
                /\ UNCHANGED <<part, typingVars, used>>

(* help, or a shell command: it ends, times out or is killed.              *)
LocalEnds(m) == /\ at[m] = "running"
                /\ Kind(Name(m)) # "agent"
                /\ ReplyIn(m, {"replying", "dismissing"})

(* An agent command asks the gateway with no deadline of its own.          *)
AgentEnds(m) == /\ at[m] = "running"
                /\ Kind(Name(m)) = "agent"
                /\ ReplyIn(m, {"replying", "dismissing"})

(* A chunk that cannot be sent is skipped; another follows, or none.       *)
SendPart(m) == /\ at[m] = "replying"
               /\ SendText(m, Part(part[m]))
               /\ \/ /\ part[m] < MaxParts
                     /\ part' = [part EXCEPT ![m] = @ + 1]
                     /\ UNCHANGED at
                  \/ /\ part' = [part EXCEPT ![m] = 1]
                     /\ Goto(m, "dismissing")
               /\ UNCHANGED <<typingVars, used>>

(* The last call, MarkRead, takes the indicator away, unless it fails.     *)
Dismiss(m) == /\ at[m] = "dismissing"
              /\ \/ ~Cancelled /\ typing' = typing \ {IdOf[m]}
                 \/ UNCHANGED typing
              /\ Goto(m, "done")
              /\ UNCHANGED <<part, last, refresher, wire, used>>

Handling == {"start", "asking", "refusing", "acking", "running",
             "replying", "apologising", "dismissing"}

Places == Handling \cup {"none", "denying", "waiting", "refused", "done", "over"}

PanicKeepsSlot(m) == /\ at[m] \in Handling
                     /\ Goto(m, "over")
                     /\ part' = [part EXCEPT ![m] = 1]
                     /\ UNCHANGED <<last, typingVars, used>>

(* A panic is recovered: the deferred calls run, the rest of the handler   *)
(* does not.                                                               *)
Panic(m) == /\ at[m] \in Handling
            /\ Goto(m, "done")
            /\ part' = [part EXCEPT ![m] = 1]
            /\ UNCHANGED <<last, typingVars, used>>

(* The deferred `<-sem` of the goroutine around the handler.               *)
Release(m) == /\ at[m] = "done"
              /\ used' = used - 1
              /\ Goto(m, "over")
              /\ UNCHANGED <<part, last, typingVars>>

HandlersNext == \E m \in Msgs :
    \/ Start(m) \/ Tick(m) \/ Refresh(m) \/ RefreshEnds(m) \/ Arrive(m) \/ Refuse(m) \/ Ack(m)
    \/ Answered(m) \/ AskFails(m) \/ Apologise(m) \/ LocalEnds(m) \/ AgentEnds(m)
    \/ SendPart(m) \/ Dismiss(m) \/ Panic(m) \/ Release(m)

HandlersTypeOK ==
    /\ at \in [Msgs -> Places]
    /\ part \in [Msgs -> 1 .. MaxParts]
    /\ last \in [Msgs -> [kind : {"nothing", "deny", "refusal", "ack", "error", "reply"},
                          part : 0 .. MaxParts]]
    /\ refresher \in [Msgs -> {"off", "idle", "calling"}]
    /\ typing \subseteq Ids
    /\ wire \in [Msgs -> 0 .. MaxWire]
    /\ used \in Nat
=============================================================================
