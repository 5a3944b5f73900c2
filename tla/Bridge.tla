------------------------------- MODULE Bridge -------------------------------
(***************************************************************************)
(* The whole process after start-up: main (Lifecycle), the sources and the *)
(* merge (Intake), the handlers (Handlers), and here the consume loop that *)
(* joins them.  The loop asks the guard, answers those it denies itself,   *)
(* and takes a slot before it starts a handler, so a full pool stops the   *)
(* loop, then the channels, then the sources.                              *)
(*                                                                         *)
(* What the guard says is any of its three verdicts (module Guard has its  *)
(* rules); what the gateway answers is any outcome (modules OpenClaw and   *)
(* ZeroClaw); the poller's cursor and crashes are in module Delivery.      *)
(***************************************************************************)
EXTENDS Handlers

CONSTANTS Slots,        \* maxInFlight, 16 in the code
          SenderOf      \* copy -> who sent its message

ASSUME BridgeAssumption == Slots \in Nat \ {0} /\ DOMAIN SenderOf = Msgs

vars == <<lifeVars, intakeVars, handlerVars>>

Init == LifeInit /\ IntakeInit /\ HandlersInit
-----------------------------------------------------------------------------
(* The loop is back at `range events`: it is not sending a deny message    *)
(* and not waiting for a slot.                                             *)
Ranging == \A m \in Msgs : at[m] \notin {"denying", "waiting"}

otherVars == <<part, typingVars>>

TakeEvent == /\ Ranging
             /\ events # <<>>
             /\ events' = Tail(events)
             /\ \E verdict \in {"denying", "refused", "waiting"} : Goto(Head(events), verdict)
             /\ UNCHANGED <<lifeVars, sourceVars, ch, chOpen, held, seen, eventsOpen>>
             /\ UNCHANGED <<last, used, otherVars>>

(* The deny message is sent by the loop itself.                            *)
Deny(m) == /\ at[m] = "denying"
           /\ SendText(m, Note("deny"))
           /\ Goto(m, "refused")
           /\ UNCHANGED <<lifeVars, intakeVars, used, otherVars>>

(* `sem <- struct{}{}`, and the handler's goroutine.                       *)
Spawn(m) == /\ at[m] = "waiting"
            /\ used < Slots
            /\ used' = used + 1
            /\ Goto(m, "start")
            /\ UNCHANGED <<lifeVars, intakeVars, last, otherVars>>

Main == LifeNext /\ UNCHANGED <<intakeVars, handlerVars>>
Receiving == Up /\ IntakeNext /\ UNCHANGED <<lifeVars, handlerVars>>
Handlers == Up /\ HandlersNext /\ UNCHANGED <<lifeVars, intakeVars>>
Loop == Up /\ (TakeEvent \/ \E m \in Msgs : Deny(m) \/ Spawn(m))
Exited == main = "exited" /\ UNCHANGED vars

Next == Main \/ Receiving \/ Handlers \/ Loop \/ Exited

Spec == Init /\ [][Next]_vars
-----------------------------------------------------------------------------
(* Every goroutine that can go on does, and a blocked channel operation is *)
(* served in turn.  Calls of WhatsApp return (the client has a timeout),   *)
(* requests at the webhook are read to their end, a shell command ends at  *)
(* its timeout.  A plain message's request ends at its deadline, but not   *)
(* while it waits behind another: ZeroClaw serves a sender's requests one  *)
(* at a time and takes no notice of the context in between (OpenClaw does  *)
(* not make them wait).  An agent command has no deadline, so nothing is   *)
(* assumed of it; nor of the sources' input, of signals, or of when        *)
(* Tailscale becomes ready.                                                *)
Steers(A) == A /\ UNCHANGED <<intakeVars, handlerVars>>
Runs(A) == Up /\ A /\ UNCHANGED <<lifeVars, handlerVars>>
Works(A) == Up /\ A /\ UNCHANGED <<lifeVars, intakeVars>>

MainFairness ==
    WF_vars(Steers(\/ FunnelStarts \/ FunnelNotReady \/ FunnelDenied \/ Retry
                   \/ Shutdown \/ FunnelWaited \/ FunnelKilled \/ Return))

IntakeFairness ==
    /\ SF_vars(Runs(PollEmit)) /\ WF_vars(Runs(PollEnds))
    /\ \A m \in Msgs : SF_vars(Runs(Emit(m) \/ SendPanics(m)))
    /\ WF_vars(Runs(ServerShuts)) /\ WF_vars(Runs(CloseCh))
    /\ WF_vars(Runs(Skip \/ Accept \/ Forward \/ CloseEvents))

AgentRuns(m) == at[m] = "running" /\ Kind(Name(m)) = "agent"

(* m asks, and an agent command of the same sender may be in front of it.  *)
Behind(m) == at[m] = "asking" /\ \E n \in Msgs : SenderOf[n] = SenderOf[m] /\ AgentRuns(n)

HandlerFairness ==
    /\ WF_vars(Loop)
    /\ \A m \in Msgs :
          /\ WF_vars(Works(\/ Start(m) \/ Refuse(m) \/ Ack(m) \/ Apologise(m) \/ LocalEnds(m)
                           \/ SendPart(m) \/ Dismiss(m) \/ Release(m)))
          /\ WF_vars(Works(~Behind(m) /\ (Answered(m) \/ AskFails(m))))

FairSpec == Spec /\ MainFairness /\ IntakeFairness /\ HandlerFairness
-----------------------------------------------------------------------------
(* Everything has the shape it should, and a slot is held exactly by the   *)
(* handlers that are running: main.go's semaphore counts them, and         *)
(* whatever a handler does, a panic included, gives its slot back.         *)
TypeOK ==
    /\ LifeTypeOK /\ IntakeTypeOK /\ HandlersTypeOK
    /\ used = Cardinality({m \in Msgs : at[m] \in Handling \cup {"done"}})
    /\ used <= Slots

Holds(chan, m) == \E i \in DOMAIN chan : chan[i] = m

(* Accepted by the merger, and not yet with the consume loop.              *)
Accepted(m) == held = Emitting(m) \/ Holds(events, m)

(* Where a copy is that a source has answered for.                         *)
Placed(m) == poller = Emitting(m) \/ Holds(ch, m) \/ Accepted(m) \/ at[m] # "none"

(* A copy a source has answered for (the webhook has put it in the channel *)
(* and may answer 200; the poller has read it and will move its cursor)    *)
(* and the merger has not dropped as a duplicate is on its way to the      *)
(* consume loop or has got there.  The poller never meets a closed         *)
(* channel, and nothing is stranded in one.                                *)
Accounted ==
    /\ \A m \in acked : Placed(m)
    /\ poller # Over => chOpen
    /\ ~eventsOpen => ch = <<>> /\ held = Over

(* The handler of m has had its answer, or its failure, or has panicked.   *)
Answering(m) == at[m] \notin {"none", "denying", "waiting", "start", "asking"}

(* Once the handler has its answer no typing request is sent for it, not   *)
(* even by a refresh goroutine that had taken its tick before: after that  *)
(* an indicator comes up only by a request that was under way already, or  *)
(* because a copy of the same message starts.                              *)
NoTypingAfterAnswer ==
    [][/\ \A m \in Msgs : Answering(m) => wire'[m] <= wire[m]
       /\ \A i \in typing' \ typing :
             \E m \in Msgs : IdOf[m] = i /\ (at[m] = "start" \/ wire'[m] < wire[m])]_vars

(* The funnel does not outlive the bridge: a public URL would stay open to *)
(* nobody.  It is asked to end, then killed, before main returns.          *)
FunnelNotLeft == main = "exited" => funnel # "running"

(* For every copy of a message the bridge does what Conversation says.     *)
PhaseAt == [place \in Places |->
    IF place = "none" THEN "new"
    ELSE IF place = "denying" THEN "queued"
    ELSE IF place \in {"waiting", "start", "refusing", "acking"} THEN "open"
    ELSE IF place \in {"asking", "running", "replying", "apologising"} THEN "acted"
    ELSE "closed"]

Promised == INSTANCE Conversation
    WITH known <- seen,
         phase <- [m \in Msgs |-> IF Accepted(m) THEN "queued" ELSE PhaseAt[at[m]]],
         Allowed <- {m \in Msgs : IsCmd(m) => May(m)}

ImplementsConversation == Promised!Spec

(* An agent command waits for the gateway, or m waits behind one.          *)
Stuck(m) == AgentRuns(m) \/ Behind(m)

Handled(m) == at[m] \in {"refused", "done", "over"}

(* A webhook request is open, or an answered copy has not been dealt with. *)
Owed == {m \in Msgs : request[m] = "open" \/ (m \in acked /\ ~Handled(m) /\ ~Stuck(m))}

(* While the process stays up every request is answered and every copy is  *)
(* dealt with, in the end, but for agent commands and what waits behind    *)
(* them, provided these do not hold all slots for ever: nobody else waits  *)
(* for ever on a full channel or a slot.                                   *)
Served == []<>(Cardinality({m \in Msgs : Stuck(m)}) < Slots) =>
             \A m \in Msgs : []<>(m \notin Owed \/ Cancelled)

(* Once main waits for it, a signal ends the process, whatever the         *)
(* handlers, the sources and the funnel are doing.                         *)
SignalEnds == (main = "serving" /\ signal = "pending") ~> (main = "exited")
=============================================================================
