---------------------------- MODULE BridgeProof ----------------------------
(***************************************************************************)
(* Proofs about the bridge, for any messages, sources, channel capacities, *)
(* slots and commands.  Three inductive invariants: who holds a slot, what *)
(* a sender has heard at each place of a handler, and that a copy a source *)
(* has answered for is in exactly one place.                               *)
(***************************************************************************)
EXTENDS Bridge, FiniteSetTheorems, TLAPS

InSlot == {m \in Msgs : at[m] \in Handling \cup {"done"}}

(* The set is finite although Msgs need not be.                            *)
SlotInv == /\ IsFiniteSet(InSlot)
           /\ used = Cardinality(InSlot) /\ used <= Slots

ShapeInv == LifeTypeOK /\ IntakeTypeOK /\ HandlersTypeOK

Heard == [kind : {"nothing", "deny", "refusal", "ack", "error", "reply"},
          part : 0 .. MaxParts]
-----------------------------------------------------------------------------
(* Type correctness.                                                       *)
LEMMA NoteType ==
    /\ \A k \in {"nothing", "deny", "refusal", "ack", "error"} : Note(k) \in Heard
    /\ \A i \in 1 .. MaxParts : Part(i) \in Heard
  BY HandlersAssumption DEF Note, Part, Heard

LEMMA SendTextFacts ==
    ASSUME HandlersTypeOK, NEW m \in Msgs, NEW text \in Heard, SendText(m, text)
    PROVE  /\ last' \in [Msgs -> Heard]
           /\ last' = last \/ last' = [last EXCEPT ![m] = text]
  BY DEF SendText, HandlersTypeOK, Heard

LEMMA ShapeInit == Init => ShapeInv
<1> SUFFICES ASSUME Init
             PROVE  ShapeInv
  OBVIOUS
<1>1. LifeTypeOK
  BY DEF Init, LifeInit, LifeTypeOK
<1>2. IntakeTypeOK
  <2>1. poller \in Busy /\ held \in Busy
    BY DEF Init, IntakeInit, Busy
  <2>2. request \in [Msgs -> {"none", "open"}] /\ server \in {"off", "serving", "failed", "shut"}
    BY DEF Init, IntakeInit
  <2> QED BY <2>1, <2>2, IntakeAssumption DEF Init, IntakeInit, IntakeTypeOK
<1>3. HandlersTypeOK
  <2>1. last \in [Msgs -> Heard]
    BY NoteType DEF Init, HandlersInit
  <2> QED BY <2>1, HandlersAssumption DEF Init, HandlersInit, HandlersTypeOK, Heard, Places
<1> QED BY <1>1, <1>2, <1>3 DEF ShapeInv

LEMMA PutFacts ==
    ASSUME IntakeTypeOK, NEW m \in Msgs, Put(m)
    PROVE  /\ ch' \in Seq(Msgs) /\ Len(ch') <= ChCap /\ chOpen
           /\ Len(ch') = Len(ch) + 1 /\ ch'[Len(ch')] = m
           /\ \A i \in DOMAIN ch : i \in DOMAIN ch' /\ ch'[i] = ch[i]
  BY IntakeAssumption DEF IntakeTypeOK, Put

LEMMA ReceiveFacts ==
    ASSUME IntakeTypeOK, Receive
    PROVE  /\ ch' \in Seq(Msgs) /\ Len(ch') <= ChCap /\ Head(ch) \in Msgs
           /\ \A i \in DOMAIN ch : \/ i = 1 /\ ch[i] = Head(ch)
                                   \/ i - 1 \in DOMAIN ch' /\ ch'[i - 1] = ch[i]
  BY IntakeAssumption DEF IntakeTypeOK, Receive

(* What the poller or the merger is sending.                               *)
LEMMA EmitFacts ==
    /\ \A m \in Msgs : Emitting(m).emit = m /\ Emitting(m) \notin {Idle, Over}
    /\ \A b \in Busy : b \notin {Idle, Over} => b.emit \in Msgs /\ b = Emitting(b.emit)
    /\ Idle # Over
  BY IntakeAssumption DEF Emitting, Idle, Over, Busy

LEMMA IntakeType ==
    ASSUME IntakeTypeOK, IntakeNext
    PROVE  IntakeTypeOK'
<1> USE DEF IntakeTypeOK
<1>1. /\ \A m \in Msgs : Emitting(m) \in Busy
      /\ Idle \in Busy /\ Over \in Busy
  BY DEF Busy
<1>2. ASSUME NEW m \in Msgs, Poll(m)
      PROVE  IntakeTypeOK'
  BY <1>1, <1>2 DEF Poll, mergeVars
<1>3. ASSUME NEW m \in Msgs, Post(m)
      PROVE  IntakeTypeOK'
  BY <1>1, <1>3 DEF Post, mergeVars
<1>4. ASSUME NEW m \in Msgs, Emit(m)
      PROVE  IntakeTypeOK'
  BY <1>4, PutFacts DEF Emit, mergeVars
<1>5. ASSUME NEW m \in Msgs, SendPanics(m)
      PROVE  IntakeTypeOK'
  BY <1>5 DEF SendPanics, mergeVars
<1>6. CASE PollEmit
  <2>1. poller.emit \in Msgs /\ Put(poller.emit)
    BY <1>6, EmitFacts DEF PollEmit
  <2>2. ch' \in Seq(Msgs) /\ Len(ch') <= ChCap
    BY <2>1, PutFacts
  <2> QED BY <1>1, <1>6, <2>2 DEF PollEmit, mergeVars
<1>7. CASE PollEnds
  BY <1>1, <1>7 DEF PollEnds, mergeVars
<1>8. CASE ServeFails \/ ServerShuts
  BY <1>8 DEF ServeFails, ServerShuts, mergeVars
<1>9. CASE CloseCh
  BY <1>9 DEF CloseCh, sourceVars
<1>10. CASE Skip
  <2>1. ch' \in Seq(Msgs) /\ Len(ch') <= ChCap
    BY <1>10, ReceiveFacts DEF Skip
  <2> QED BY <1>10, <2>1 DEF Skip, Receive
<1>11. CASE Accept
  <2>1. Receive /\ Head(ch) \in Msgs /\ ch' \in Seq(Msgs) /\ Len(ch') <= ChCap
    BY <1>11, ReceiveFacts DEF Accept
  <2>2. IdOf[Head(ch)] \in Ids
    BY <2>1, IntakeAssumption
  <2> QED BY <1>1, <1>11, <2>1, <2>2 DEF Accept, Receive
<1>12. CASE Forward
  <2>1. held.emit \in Msgs
    BY <1>12, EmitFacts DEF Forward
  <2>2. events' \in Seq(Msgs) /\ Len(events') <= EvCap
    BY <1>12, <2>1, IntakeAssumption DEF Forward
  <2> QED BY <1>1, <1>12, <2>2 DEF Forward, sourceVars
<1>13. CASE CloseEvents
  BY <1>1, <1>13 DEF CloseEvents, sourceVars
<1>14. ASSUME NEW i \in Expiring, Forget(i)
       PROVE  IntakeTypeOK'
  BY <1>14 DEF Forget, sourceVars
<1> QED BY <1>2, <1>3, <1>4, <1>5, <1>6, <1>7, <1>8, <1>9, <1>10, <1>11, <1>12, <1>13, <1>14
           DEF IntakeNext

LEMMA HandlersType ==
    ASSUME HandlersTypeOK, HandlersNext, IsFiniteSet(InSlot), used = Cardinality(InSlot)
    PROVE  HandlersTypeOK'
<1> USE DEF HandlersTypeOK, typingVars
<1>1. PICK m \in Msgs :
         \/ Start(m) \/ Tick(m) \/ Refresh(m) \/ RefreshEnds(m) \/ Arrive(m) \/ Refuse(m) \/ Ack(m)
         \/ Answered(m) \/ AskFails(m) \/ Apologise(m) \/ LocalEnds(m) \/ AgentEnds(m)
         \/ SendPart(m) \/ Dismiss(m) \/ Panic(m) \/ Release(m)
  BY DEF HandlersNext
<1>2. MaxWire \in Nat /\ MaxParts \in Nat \ {0} /\ IdOf[m] \in Ids
  BY HandlersAssumption, IntakeAssumption
<1>3. CASE Start(m)
  BY <1>2, <1>3 DEF Start, RequestTyping, Goto, Places, Handling
<1>4. CASE Tick(m) \/ Refresh(m) \/ RefreshEnds(m) \/ Arrive(m)
  BY <1>2, <1>4 DEF Tick, Refresh, RefreshEnds, Arrive, RequestTyping
<1>5. CASE Refuse(m)
  BY <1>5, NoteType, SendTextFacts DEF Refuse, Goto, Places, Handling, Heard
<1>6. CASE Ack(m)
  BY <1>6, NoteType, SendTextFacts DEF Ack, Goto, Places, Handling, Heard
<1>7. CASE Answered(m) \/ AskFails(m) \/ LocalEnds(m) \/ AgentEnds(m)
  BY <1>7 DEF Answered, AskFails, LocalEnds, AgentEnds, ReplyIn, Goto, Places, Handling
<1>8. CASE Apologise(m)
  BY <1>8, NoteType, SendTextFacts DEF Apologise, Goto, Places, Handling, Heard
<1>9. CASE SendPart(m)
  <2>1. last' \in [Msgs -> Heard]
    BY <1>9, NoteType, SendTextFacts DEF SendPart
  <2>2. at' \in [Msgs -> Places]
    BY <1>9 DEF SendPart, Goto, Places, Handling
  <2>3. \/ part[m] < MaxParts /\ part' = [part EXCEPT ![m] = part[m] + 1]
        \/ part' = [part EXCEPT ![m] = 1]
    BY <1>9 DEF SendPart
  <2>4. part' \in [Msgs -> 1 .. MaxParts]
    BY <1>2, <2>3
  <2> QED BY <1>9, <2>1, <2>2, <2>4 DEF SendPart, Heard
<1>10. CASE Dismiss(m) \/ Panic(m)
  <2>1. at' = [at EXCEPT ![m] = "done"] /\ "done" \in Places
    BY <1>10 DEF Dismiss, Panic, Goto, Places
  <2>2. part' = part \/ part' = [part EXCEPT ![m] = 1]
    BY <1>10 DEF Dismiss, Panic
  <2>3. part' \in [Msgs -> 1 .. MaxParts]
    BY <1>2, <2>2
  <2>4. typing' \subseteq Ids /\ UNCHANGED <<last, refresher, wire, used>>
    BY <1>10 DEF Dismiss, Panic
  <2> QED BY <2>1, <2>3, <2>4
<1>11. CASE Release(m)
  <2>1. m \in InSlot
    BY <1>11 DEF Release, InSlot
  <2>2. Cardinality(InSlot) # 0
    BY <2>1, FS_EmptySet
  <2>3. used \in Nat /\ used # 0
    BY <2>2
  <2>4. used - 1 \in Nat
    BY <2>3
  <2>5. at' \in [Msgs -> Places]
    BY <1>11 DEF Release, Goto, Places
  <2> QED BY <1>11, <2>4, <2>5 DEF Release
<1> QED BY <1>1, <1>3, <1>4, <1>5, <1>6, <1>7, <1>8, <1>9, <1>10, <1>11

LEMMA LifeType == LifeTypeOK /\ LifeNext => LifeTypeOK'
  BY DEF LifeTypeOK, LifeNext, FunnelStarts, FunnelNotReady, Retry, FunnelDenied, FunnelEnds,
         Interrupt, Shutdown, FunnelWaited, FunnelKilled, Return

(* The loop and the handlers move one message at a time.                   *)
LEMMA LoopType ==
    ASSUME IntakeTypeOK, HandlersTypeOK, TakeEvent \/ \E m \in Msgs : Deny(m) \/ Spawn(m)
    PROVE  IntakeTypeOK' /\ HandlersTypeOK'
<1>1. CASE TakeEvent
  <2>1. events \in Seq(Msgs) /\ events # <<>> /\ Len(events) <= EvCap
    BY <1>1 DEF TakeEvent, IntakeTypeOK
  <2>2. /\ Head(events) \in Msgs
        /\ events' \in Seq(Msgs) /\ Len(events') <= EvCap
    BY <1>1, <2>1, IntakeAssumption DEF TakeEvent
  <2>3. at' \in [Msgs -> Places]
    BY <1>1, <2>2 DEF TakeEvent, Goto, HandlersTypeOK, Places
  <2>4. UNCHANGED <<sourceVars, ch, chOpen, held, seen, eventsOpen>>
    BY <1>1 DEF TakeEvent
  <2>5. IntakeTypeOK'
    BY <2>2, <2>4 DEF IntakeTypeOK, sourceVars
  <2>6. UNCHANGED <<last, used, otherVars>>
    BY <1>1 DEF TakeEvent
  <2> QED BY <2>3, <2>5, <2>6 DEF HandlersTypeOK, otherVars, typingVars
<1>2. ASSUME NEW m \in Msgs, Deny(m)
      PROVE  IntakeTypeOK' /\ HandlersTypeOK'
  <2>1. last' \in [Msgs -> Heard]
    BY <1>2, NoteType, SendTextFacts DEF Deny
  <2>2. at' \in [Msgs -> Places]
    BY <1>2 DEF Deny, Goto, HandlersTypeOK, Places
  <2>3. UNCHANGED <<intakeVars, used, otherVars>>
    BY <1>2 DEF Deny
  <2>4. IntakeTypeOK'
    BY <2>3 DEF IntakeTypeOK, intakeVars, sourceVars, mergeVars
  <2> QED BY <2>1, <2>2, <2>3, <2>4 DEF HandlersTypeOK, otherVars, typingVars, Heard
<1>3. ASSUME NEW m \in Msgs, Spawn(m)
      PROVE  IntakeTypeOK' /\ HandlersTypeOK'
  <2>1. at' \in [Msgs -> Places]
    BY <1>3 DEF Spawn, Goto, HandlersTypeOK, Places, Handling
  <2>2. UNCHANGED <<intakeVars, last, otherVars>> /\ used' = used + 1
    BY <1>3 DEF Spawn
  <2>3. IntakeTypeOK'
    BY <2>2 DEF IntakeTypeOK, intakeVars, sourceVars, mergeVars
  <2>4. used' \in Nat
    BY <2>2 DEF HandlersTypeOK
  <2> QED BY <2>1, <2>2, <2>3, <2>4 DEF HandlersTypeOK, otherVars, typingVars
<1> QED BY <1>1, <1>2, <1>3

LEMMA ShapeStep == ShapeInv /\ SlotInv /\ [Next]_vars => ShapeInv'
<1> SUFFICES ASSUME ShapeInv, SlotInv, [Next]_vars
             PROVE  ShapeInv'
  OBVIOUS
<1> USE DEF ShapeInv
<1>1. UNCHANGED lifeVars => LifeTypeOK'
  BY DEF LifeTypeOK, lifeVars
<1>2. UNCHANGED intakeVars => IntakeTypeOK'
  BY DEF IntakeTypeOK, intakeVars, sourceVars, mergeVars
<1>3. UNCHANGED handlerVars => HandlersTypeOK'
  BY DEF HandlersTypeOK, handlerVars, typingVars
<1>4. CASE Main
  BY <1>2, <1>3, <1>4, LifeType DEF Main
<1>5. CASE Receiving
  BY <1>1, <1>3, <1>5, IntakeType DEF Receiving
<1>6. CASE Handlers
  BY <1>1, <1>2, <1>6, HandlersType DEF Handlers, SlotInv
<1>7. CASE Loop
  <2>1. UNCHANGED lifeVars
    BY <1>7 DEF Loop, TakeEvent, Deny, Spawn
  <2> QED BY <1>1, <1>7, <2>1, LoopType DEF Loop
<1>8. CASE UNCHANGED vars
  BY <1>1, <1>2, <1>3, <1>8 DEF vars
<1> QED BY <1>4, <1>5, <1>6, <1>7, <1>8 DEF Next, Exited
-----------------------------------------------------------------------------
(* A handler keeps its slot until Release.                                 *)
LEMMA HandlerMoves ==
    ASSUME HandlersTypeOK, HandlersNext
    PROVE  \/ UNCHANGED <<at, used>>
           \/ /\ UNCHANGED used
              /\ \E m \in Msgs, place \in Handling \cup {"done"} :
                    at[m] \in Handling /\ at' = [at EXCEPT ![m] = place]
           \/ \E m \in Msgs : Release(m)
<1>1. PICK m \in Msgs :
         \/ Start(m) \/ Tick(m) \/ Refresh(m) \/ RefreshEnds(m) \/ Arrive(m) \/ Refuse(m) \/ Ack(m)
         \/ Answered(m) \/ AskFails(m) \/ Apologise(m) \/ LocalEnds(m) \/ AgentEnds(m)
         \/ SendPart(m) \/ Dismiss(m) \/ Panic(m) \/ Release(m)
  BY DEF HandlersNext
<1> DEFINE Moves == \E place \in Handling \cup {"done"} :
                       at[m] \in Handling /\ at' = [at EXCEPT ![m] = place]
<1>2. CASE Start(m)
  <2>1. Moves
    BY <1>2 DEF Start, Goto, Handling
  <2> QED BY <1>2, <2>1 DEF Start
<1>3. CASE Tick(m) \/ Refresh(m) \/ RefreshEnds(m) \/ Arrive(m)
  BY <1>3 DEF Tick, Refresh, RefreshEnds, Arrive
<1>4. CASE Refuse(m) \/ Ack(m) \/ Apologise(m)
  <2>1. Moves
    BY <1>4 DEF Refuse, Ack, Apologise, Goto, Handling
  <2> QED BY <1>4, <2>1 DEF Refuse, Ack, Apologise
<1>5. CASE Answered(m) \/ AskFails(m) \/ LocalEnds(m) \/ AgentEnds(m)
  <2>1. Moves
    BY <1>5 DEF Answered, AskFails, LocalEnds, AgentEnds, ReplyIn, Goto, Handling
  <2> QED BY <1>5, <2>1 DEF Answered, AskFails, LocalEnds, AgentEnds, ReplyIn
<1>6. CASE SendPart(m)
  <2>1. Moves \/ UNCHANGED at
    BY <1>6 DEF SendPart, Goto, Handling
  <2> QED BY <1>6, <2>1 DEF SendPart
<1>7. CASE Dismiss(m) \/ Panic(m)
  <2>1. Moves
    BY <1>7 DEF Dismiss, Panic, Goto, Handling
  <2> QED BY <1>7, <2>1 DEF Dismiss, Panic
<1> QED BY <1>1, <1>2, <1>3, <1>4, <1>5, <1>6, <1>7

(* What a channel holds after a send and after a receive.                  *)
Once(chan) == \A i, j \in DOMAIN chan : chan[i] = chan[j] => i = j

LEMMA HoldsAppend ==
    ASSUME NEW chan \in Seq(Msgs), NEW m \in Msgs, Once(chan), ~Holds(chan, m)
    PROVE  /\ Once(Append(chan, m))
           /\ \A n \in Msgs : Holds(Append(chan, m), n) <=> Holds(chan, n) \/ n = m
<1> DEFINE longer == Append(chan, m)
<1>1. /\ Len(chan) + 1 \in DOMAIN longer /\ longer[Len(chan) + 1] = m
      /\ \A i \in DOMAIN chan : i \in DOMAIN longer /\ longer[i] = chan[i]
      /\ \A i \in DOMAIN longer : i \in DOMAIN chan \/ i = Len(chan) + 1
  OBVIOUS
<1> HIDE DEF longer
<1>2. Once(longer)
  <2>1. \A i \in DOMAIN chan : chan[i] # m
    BY DEF Holds
  <2> QED BY <1>1, <2>1 DEF Once
<1>3. \A n \in Msgs : Holds(longer, n) <=> Holds(chan, n) \/ n = m
  BY <1>1 DEF Holds
<1> QED BY <1>2, <1>3 DEF longer

LEMMA HoldsTail ==
    ASSUME NEW chan \in Seq(Msgs), chan # <<>>, Once(chan)
    PROVE  /\ Head(chan) \in Msgs /\ Holds(chan, Head(chan)) /\ Once(Tail(chan))
           /\ \A n \in Msgs : Holds(Tail(chan), n) <=> Holds(chan, n) /\ n # Head(chan)
<1> DEFINE rest == Tail(chan)
<1>1. /\ Head(chan) \in Msgs /\ 1 \in DOMAIN chan /\ chan[1] = Head(chan)
      /\ \A i \in DOMAIN rest :
            i \in Int /\ i + 1 \in DOMAIN chan /\ i + 1 # 1 /\ rest[i] = chan[i + 1]
  OBVIOUS
<1>2. \A i \in DOMAIN chan : i # 1 => i - 1 \in DOMAIN rest /\ rest[i - 1] = chan[i]
  OBVIOUS
<1> HIDE DEF rest
<1>3. Once(rest)
  <2> SUFFICES ASSUME NEW i \in DOMAIN rest, NEW j \in DOMAIN rest, rest[i] = rest[j]
               PROVE  i = j
    BY DEF Once
  <2>1. i + 1 = j + 1 /\ i \in Int /\ j \in Int
    BY <1>1 DEF Once
  <2> QED BY <2>1
<1>4. ASSUME NEW n \in Msgs
      PROVE  Holds(rest, n) <=> Holds(chan, n) /\ n # Head(chan)
  <2>1. ASSUME Holds(rest, n)
        PROVE  Holds(chan, n) /\ n # Head(chan)
    <3>1. PICK i \in DOMAIN rest : rest[i] = n
      BY <2>1 DEF Holds
    <3>2. i + 1 \in DOMAIN chan /\ i + 1 # 1 /\ chan[i + 1] = n
      BY <1>1, <3>1
    <3> QED BY <1>1, <3>2 DEF Holds, Once
  <2>2. ASSUME Holds(chan, n), n # Head(chan)
        PROVE  Holds(rest, n)
    <3>1. PICK i \in DOMAIN chan : chan[i] = n /\ i # 1
      BY <1>1, <2>2 DEF Holds
    <3> QED BY <1>2, <3>1 DEF Holds
  <2> QED BY <2>1, <2>2
<1> QED BY <1>1, <1>3, <1>4 DEF rest, Holds

(* A copy a source has answered for is in exactly one place, and nowhere   *)
(* else; while its request is open it is in none.                          *)
CopyOf(m) ==
    /\ request[m] = "open" => m \notin acked
    /\ m \in acked <=> Placed(m)
    /\ at[m] # "none" => ~Accepted(m) /\ ~Holds(ch, m) /\ poller # Emitting(m)
    /\ Holds(events, m) => held # Emitting(m)
    /\ Accepted(m) => ~Holds(ch, m) /\ poller # Emitting(m)
    /\ Holds(ch, m) => poller # Emitting(m)

CopyInv == Once(ch) /\ Once(events) /\ \A m \in Msgs : CopyOf(m)

LEMMA CopyInit == Init => CopyInv
<1> SUFFICES ASSUME Init
             PROVE  CopyInv
  OBVIOUS
<1>1. /\ ch = <<>> /\ events = <<>> /\ held = Idle /\ poller \in {Idle, Over} /\ acked = {}
      /\ \A m \in Msgs : at[m] = "none" /\ request[m] = "none"
  BY DEF Init, IntakeInit, HandlersInit
<1>2. Once(<<>>) /\ \A m \in Msgs : ~Holds(<<>>, m)
  BY DEF Once, Holds
<1> QED BY <1>1, <1>2, EmitFacts DEF CopyInv, CopyOf, Placed, Accepted

(* A copy stays what it is when no place of its own changes.               *)
LEMMA CopyStays ==
    ASSUME NEW m \in Msgs, CopyOf(m),
           request'[m] = "open" => request[m] = "open" \/ m \notin acked,
           m \in acked' <=> m \in acked,
           poller' = Emitting(m) <=> poller = Emitting(m),
           Holds(ch', m) <=> Holds(ch, m),
           held' = Emitting(m) <=> held = Emitting(m),
           Holds(events', m) <=> Holds(events, m),
           at'[m] # "none" <=> at[m] # "none"
    PROVE  CopyOf(m)'
<1>1. Holds(ch, m)' = Holds(ch', m) /\ Holds(events, m)' = Holds(events', m)
  BY DEF Holds
<1>2. Accepted(m)' <=> Accepted(m)
  BY <1>1 DEF Accepted
<1>3. Placed(m)' <=> Placed(m)
  BY <1>1, <1>2 DEF Placed
<1> QED BY <1>1, <1>2, <1>3 DEF CopyOf

LEMMA CopySources ==
    ASSUME ShapeInv, CopyInv, UNCHANGED at, ch' = ch,
           \/ \E m \in Msgs : Poll(m) \/ Post(m) \/ SendPanics(m)
           \/ PollEnds \/ ServeFails \/ ServerShuts \/ CloseCh
    PROVE  CopyInv'
<1>1. UNCHANGED <<held, events>> /\ IntakeTypeOK /\ request \in [Msgs -> {"none", "open"}]
  BY DEF Poll, Post, SendPanics, PollEnds, ServeFails, ServerShuts, CloseCh, mergeVars,
         ShapeInv, IntakeTypeOK
<1>2. Once(ch)' /\ Once(events)'
  BY <1>1 DEF CopyInv, Once
<1>3. ASSUME NEW m \in Msgs, Poll(m), NEW n \in Msgs
      PROVE  CopyOf(n)'
  <2>1. /\ poller = Idle /\ poller' = Emitting(m) /\ acked' = acked \cup {m}
        /\ m \notin acked /\ request[m] = "none" /\ UNCHANGED request
    BY <1>3 DEF Poll, Fresh
  <2>2. CASE n # m
    BY <1>1, <2>1, <2>2, CopyStays, EmitFacts DEF CopyInv
  <2>3. CASE n = m
    <3>1. ~Placed(m)
      BY <2>1 DEF CopyInv, CopyOf
    <3>2. ~Holds(ch, m)' /\ ~Accepted(m)' /\ at'[m] = "none"
      BY <1>1, <3>1 DEF Placed, Accepted, Holds
    <3> QED BY <2>1, <2>3, <3>2 DEF CopyOf, Placed, Accepted
  <2> QED BY <2>2, <2>3
<1>4. ASSUME NEW m \in Msgs, Post(m) \/ SendPanics(m), NEW n \in Msgs
      PROVE  CopyOf(n)'
  <2>1. /\ UNCHANGED <<poller, acked>>
        /\ \/ request' = [request EXCEPT ![m] = "open"] /\ m \notin acked
           \/ request' = [request EXCEPT ![m] = "none"]
    BY <1>4 DEF Post, SendPanics, Fresh
  <2>2. request'[n] = "open" => request[n] = "open" \/ n \notin acked
    BY <1>1, <2>1
  <2> QED BY <1>1, <2>1, <2>2, CopyStays DEF CopyInv
<1>5. ASSUME PollEnds \/ ServeFails \/ ServerShuts \/ CloseCh, NEW n \in Msgs
      PROVE  CopyOf(n)'
  <2>1. UNCHANGED <<request, acked>> /\ (poller' = poller \/ (poller = Idle /\ poller' = Over))
    BY <1>5 DEF PollEnds, ServeFails, ServerShuts, CloseCh, sourceVars
  <2> QED BY <1>1, <2>1, CopyStays, EmitFacts DEF CopyInv
<1> QED BY <1>2, <1>3, <1>4, <1>5 DEF CopyInv

LEMMA CopyEmit ==
    ASSUME ShapeInv, CopyInv, UNCHANGED at, PollEmit \/ \E m \in Msgs : Emit(m)
    PROVE  CopyInv'
<1>1. IntakeTypeOK /\ request \in [Msgs -> {"none", "open"}] /\ ch \in Seq(Msgs)
  BY DEF ShapeInv, IntakeTypeOK
<1>2. UNCHANGED <<held, events>>
  BY DEF PollEmit, Emit, mergeVars
<1>3. PICK m \in Msgs : /\ Put(m) /\ acked' = acked \cup {m}
                        /\ request'[m] = "none" /\ poller' # Emitting(m)
                        /\ ~Holds(ch, m) /\ ~Accepted(m) /\ at[m] = "none"
                        /\ \A n \in Msgs : n # m => /\ poller' = Emitting(n) <=> poller = Emitting(n)
                                                    /\ request'[n] = request[n]
  <2>1. CASE PollEmit
    <3>1. PICK m \in Msgs : m = poller.emit /\ poller = Emitting(m)
      BY <1>1, <2>1, EmitFacts DEF PollEmit, IntakeTypeOK
    <3>2. /\ ~Holds(ch, m) /\ ~Accepted(m) /\ at[m] = "none" /\ m \in acked
          /\ request[m] # "open"
      BY <3>1 DEF CopyInv, CopyOf, Placed
    <3>3. Put(m) /\ poller' = Idle /\ UNCHANGED <<acked, request>>
      BY <2>1, <3>1 DEF PollEmit
    <3>4. request[m] = "none"
      BY <1>1, <3>2
    <3>5. \A n \in Msgs : n # m => poller # Emitting(n)
      BY <3>1, EmitFacts
    <3> QED BY <3>2, <3>3, <3>4, <3>5, EmitFacts
  <2>2. ASSUME NEW m \in Msgs, Emit(m)
        PROVE  /\ Put(m) /\ acked' = acked \cup {m}
               /\ request'[m] = "none" /\ poller' # Emitting(m)
               /\ ~Holds(ch, m) /\ ~Accepted(m) /\ at[m] = "none"
               /\ UNCHANGED poller
               /\ \A n \in Msgs : n # m => request'[n] = request[n]
    <3>1. ~Placed(m)
      BY <2>2 DEF Emit, CopyInv, CopyOf
    <3> QED BY <1>1, <2>2, <3>1 DEF Emit, Placed
  <2> QED BY <2>1, <2>2
<1>4. /\ Once(ch') /\ \A n \in Msgs : Holds(ch', n) <=> Holds(ch, n) \/ n = m
  BY <1>1, <1>3, HoldsAppend DEF Put, CopyInv
<1>5. Once(ch)' /\ Once(events)'
  BY <1>2, <1>4 DEF CopyInv, Once
<1>6. ASSUME NEW n \in Msgs
      PROVE  CopyOf(n)'
  <2>1. CASE n # m
    BY <1>2, <1>3, <1>4, <2>1, CopyStays DEF CopyInv
  <2>2. CASE n = m
    <3>1. Holds(ch, m)' /\ ~Holds(events, m)' /\ held' # Emitting(m) /\ at'[m] = "none"
      BY <1>2, <1>3, <1>4 DEF Accepted, Holds
    <3>2. m \in acked' /\ request'[m] # "open" /\ poller' # Emitting(m)
      BY <1>3
    <3> QED BY <2>2, <3>1, <3>2 DEF CopyOf, Placed, Accepted
  <2> QED BY <2>1, <2>2
<1> QED BY <1>5, <1>6 DEF CopyInv

LEMMA CopyReceive ==
    ASSUME ShapeInv, CopyInv, UNCHANGED at, Skip \/ Accept
    PROVE  CopyInv'
<1>1. IntakeTypeOK /\ ch \in Seq(Msgs) /\ ch # <<>> /\ ch' = Tail(ch) /\ held = Idle
  BY DEF ShapeInv, IntakeTypeOK, Skip, Accept, Receive
<1>2. UNCHANGED <<poller, request, events>>
  BY DEF Skip, Accept, Receive
<1>3. PICK m \in Msgs : m = Head(ch) /\ Holds(ch, m)
  BY <1>1, HoldsTail DEF CopyInv
<1>4. Once(ch') /\ \A n \in Msgs : Holds(ch', n) <=> Holds(ch, n) /\ n # m
  BY <1>1, <1>3, HoldsTail DEF CopyInv
<1>5. Once(ch)' /\ Once(events)'
  BY <1>2, <1>4 DEF CopyInv, Once
<1>6. /\ at[m] = "none" /\ ~Accepted(m) /\ poller # Emitting(m) /\ m \in acked
      /\ request[m] # "open"
  BY <1>3 DEF CopyInv, CopyOf, Placed
<1>7. \/ held' = held /\ acked' = acked \ {m}
      \/ held' = Emitting(m) /\ acked' = acked
  BY <1>3 DEF Skip, Accept
<1>8. ASSUME NEW n \in Msgs
      PROVE  CopyOf(n)'
  <2>1. CASE n # m
    <3>1. held' = Emitting(n) <=> held = Emitting(n)
      BY <1>1, <1>7, <2>1, EmitFacts
    <3> QED BY <1>2, <1>4, <1>7, <2>1, <3>1, CopyStays DEF CopyInv
  <2>2. CASE n = m
    <3>1. ~Holds(ch, m)' /\ ~Holds(events, m)' /\ at'[m] = "none"
      BY <1>2, <1>4, <1>6 DEF Accepted, Holds
    <3>2. held' = Emitting(m) <=> m \in acked'
      BY <1>1, <1>6, <1>7, EmitFacts
    <3> QED BY <1>2, <1>6, <2>2, <3>1, <3>2 DEF CopyOf, Placed, Accepted
  <2> QED BY <2>1, <2>2
<1> QED BY <1>5, <1>8 DEF CopyInv

LEMMA CopyForward ==
    ASSUME ShapeInv, CopyInv, UNCHANGED at, Forward
    PROVE  CopyInv'
<1>1. IntakeTypeOK /\ events \in Seq(Msgs)
  BY DEF ShapeInv, IntakeTypeOK
<1>2. PICK m \in Msgs : held = Emitting(m) /\ m = held.emit
  BY <1>1, EmitFacts DEF Forward, IntakeTypeOK
<1>3. /\ events' = Append(events, m) /\ held' = Idle
      /\ UNCHANGED <<poller, request, acked, ch>>
  BY <1>2 DEF Forward, sourceVars
<1>4. /\ ~Holds(events, m) /\ ~Holds(ch, m) /\ poller # Emitting(m) /\ at[m] = "none"
      /\ m \in acked /\ request[m] # "open"
  BY <1>2 DEF CopyInv, CopyOf, Placed, Accepted
<1>5. Once(events') /\ \A n \in Msgs : Holds(events', n) <=> Holds(events, n) \/ n = m
  BY <1>1, <1>3, <1>4, HoldsAppend DEF CopyInv
<1>6. Once(ch)' /\ Once(events)'
  BY <1>3, <1>5 DEF CopyInv, Once
<1>7. ASSUME NEW n \in Msgs
      PROVE  CopyOf(n)'
  <2>1. CASE n # m
    <3>1. held' # Emitting(n) /\ held # Emitting(n)
      BY <1>2, <1>3, <2>1, EmitFacts
    <3> QED BY <1>3, <1>5, <2>1, <3>1, CopyStays DEF CopyInv
  <2>2. CASE n = m
    <3>1. Holds(events, m)' /\ ~Holds(ch, m)' /\ at'[m] = "none" /\ held' # Emitting(m)
      BY <1>3, <1>4, <1>5, EmitFacts DEF Holds
    <3> QED BY <1>3, <1>4, <2>2, <3>1 DEF CopyOf, Placed, Accepted
  <2> QED BY <2>1, <2>2
<1> QED BY <1>6, <1>7 DEF CopyInv

(* A handler moves a copy that is already with it.                         *)
LEMMA CopyMoves ==
    ASSUME ShapeInv, CopyInv, NEW m \in Msgs, NEW place \in Places, at[m] # "none",
           place # "none", at' = [at EXCEPT ![m] = place], UNCHANGED intakeVars
    PROVE  CopyInv'
<1>1. at \in [Msgs -> Places] /\ UNCHANGED <<request, acked, poller, ch, held, events>>
  BY DEF ShapeInv, HandlersTypeOK, intakeVars, sourceVars, mergeVars
<1>2. \A n \in Msgs : at'[n] # "none" <=> at[n] # "none"
  BY <1>1
<1>3. \A n \in Msgs : CopyOf(n)'
  BY <1>1, <1>2, CopyStays DEF CopyInv
<1> QED BY <1>1, <1>3 DEF CopyInv, Once

LEMMA CopyTaken ==
    ASSUME ShapeInv, CopyInv, TakeEvent
    PROVE  CopyInv'
<1>1. /\ events \in Seq(Msgs) /\ events # <<>> /\ events' = Tail(events)
      /\ at \in [Msgs -> Places]
  BY DEF TakeEvent, ShapeInv, IntakeTypeOK, HandlersTypeOK
<1>2. PICK m \in Msgs : m = Head(events) /\ Holds(events, m)
  BY <1>1, HoldsTail DEF CopyInv
<1>3. Once(events') /\ \A n \in Msgs : Holds(events', n) <=> Holds(events, n) /\ n # m
  BY <1>1, <1>2, HoldsTail DEF CopyInv
<1>4. PICK place \in {"denying", "refused", "waiting"} : at' = [at EXCEPT ![m] = place]
  BY <1>2 DEF TakeEvent, Goto
<1>5. UNCHANGED <<request, acked, poller, ch, held>>
  BY DEF TakeEvent, sourceVars
<1>6. /\ held # Emitting(m) /\ ~Holds(ch, m) /\ poller # Emitting(m) /\ m \in acked
      /\ request[m] # "open"
  BY <1>2 DEF CopyInv, CopyOf, Placed, Accepted
<1>7. Once(ch)' /\ Once(events)'
  BY <1>3, <1>5 DEF CopyInv, Once
<1>8. ASSUME NEW n \in Msgs
      PROVE  CopyOf(n)'
  <2>1. CASE n # m
    <3>1. at'[n] = at[n]
      BY <1>1, <1>4, <2>1
    <3> QED BY <1>3, <1>5, <2>1, <3>1, CopyStays DEF CopyInv
  <2>2. CASE n = m
    <3>1. at'[m] # "none" /\ ~Holds(events, m)' /\ ~Holds(ch, m)'
      BY <1>1, <1>3, <1>4, <1>5, <1>6 DEF Holds
    <3> QED BY <1>5, <1>6, <2>2, <3>1 DEF CopyOf, Placed, Accepted
  <2> QED BY <2>1, <2>2
<1> QED BY <1>7, <1>8 DEF CopyInv

LEMMA TakenFacts ==
    ASSUME ShapeInv, CopyInv, TakeEvent
    PROVE  \E m \in Msgs : m = Head(events) /\ at[m] = "none" /\ Holds(events, m)
<1>1. events \in Seq(Msgs) /\ events # <<>>
  BY DEF TakeEvent, ShapeInv, IntakeTypeOK
<1>2. PICK m \in Msgs : m = Head(events) /\ Holds(events, m)
  BY <1>1, HoldsTail DEF CopyInv
<1> QED BY <1>2 DEF CopyInv, CopyOf, Accepted

LEMMA CopyStep == ShapeInv /\ CopyInv /\ [Next]_vars => CopyInv'
<1> SUFFICES ASSUME ShapeInv, CopyInv, [Next]_vars
             PROVE  CopyInv'
  OBVIOUS
<1>1. UNCHANGED <<request, acked, poller, ch, held, events, at>> => CopyInv'
  BY CopyStays DEF CopyInv, Once
<1>2. CASE Main \/ UNCHANGED vars
  BY <1>1, <1>2 DEF Main, vars, handlerVars, intakeVars, sourceVars, mergeVars
<1>3. CASE Receiving
  <2>1. UNCHANGED at /\ IntakeNext
    BY <1>3 DEF Receiving, handlerVars
  <2>2. ASSUME \/ \E m \in Msgs : Poll(m) \/ Post(m) \/ SendPanics(m)
               \/ PollEnds \/ ServeFails \/ ServerShuts \/ CloseCh
        PROVE  CopyInv'
    <3>1. ch' = ch
      BY <2>2 DEF Poll, Post, SendPanics, PollEnds, ServeFails, ServerShuts, CloseCh
    <3> QED BY <2>1, <2>2, <3>1, CopySources
  <2>3. CASE CloseEvents
    <3>1. /\ held = Idle /\ held' = Over
          /\ UNCHANGED <<request, acked, poller, ch, events, at>>
      BY <2>1, <2>3 DEF CloseEvents, sourceVars
    <3>2. \A m \in Msgs : held' = Emitting(m) <=> held = Emitting(m)
      BY <3>1, EmitFacts
    <3>3. \A m \in Msgs : CopyOf(m)'
      BY <3>1, <3>2, CopyStays DEF CopyInv
    <3> QED BY <3>1, <3>3 DEF CopyInv, Once
  <2>4. ASSUME NEW i \in Expiring, Forget(i)
        PROVE  CopyInv'
    BY <1>1, <2>1, <2>4 DEF Forget, sourceVars
  <2> QED BY <2>1, <2>2, <2>3, <2>4, CopyEmit, CopyReceive, CopyForward DEF IntakeNext
<1>4. CASE Handlers
  <2>1. HandlersNext /\ UNCHANGED intakeVars /\ HandlersTypeOK
    BY <1>4 DEF Handlers, ShapeInv
  <2>2. UNCHANGED at => CopyInv'
    BY <1>1, <2>1 DEF intakeVars, sourceVars, mergeVars
  <2>3. ASSUME NEW m \in Msgs, Release(m)
        PROVE  CopyInv'
    <3>1. at[m] # "none" /\ at' = [at EXCEPT ![m] = "over"] /\ "over" \in Places
      BY <2>3 DEF Release, Goto, Places
    <3> QED BY <2>1, <3>1, CopyMoves
  <2>4. ASSUME NEW m \in Msgs, NEW place \in Handling \cup {"done"}, at[m] \in Handling,
               at' = [at EXCEPT ![m] = place]
        PROVE  CopyInv'
    <3>1. at[m] # "none" /\ place # "none" /\ place \in Places
      BY <2>4 DEF Places, Handling
    <3> QED BY <2>1, <2>4, <3>1, CopyMoves
  <2> QED BY <2>1, <2>2, <2>3, <2>4, HandlerMoves
<1>5. CASE Loop
  <2>1. ASSUME NEW m \in Msgs, Deny(m) \/ Spawn(m)
        PROVE  CopyInv'
    <3>1. PICK place \in {"refused", "start"} : at' = [at EXCEPT ![m] = place]
      BY <2>1 DEF Deny, Spawn, Goto
    <3>2. at[m] # "none" /\ place # "none" /\ place \in Places /\ UNCHANGED intakeVars
      BY <2>1 DEF Deny, Spawn, Places, Handling
    <3> QED BY <3>1, <3>2, CopyMoves
  <2> QED BY <1>5, <2>1, CopyTaken DEF Loop
<1> QED BY <1>2, <1>3, <1>4, <1>5 DEF Next, Exited
-----------------------------------------------------------------------------
(* The slots.                                                              *)

LEMMA SlotInit == Init => SlotInv
<1> SUFFICES ASSUME Init
             PROVE  SlotInv
  OBVIOUS
<1>1. InSlot = {} /\ used = 0
  BY DEF Init, HandlersInit, InSlot, Handling
<1>2. IsFiniteSet(InSlot) /\ Cardinality(InSlot) = 0
  BY <1>1, FS_EmptySet
<1> QED BY <1>1, <1>2, BridgeAssumption DEF SlotInv

LEMMA SlotKept ==
    ASSUME SlotInv, UNCHANGED used, InSlot' = InSlot
    PROVE  SlotInv'
  BY DEF SlotInv

LEMMA SlotStep == ShapeInv /\ CopyInv /\ SlotInv /\ [Next]_vars => SlotInv'
<1> SUFFICES ASSUME ShapeInv, CopyInv, SlotInv, [Next]_vars
             PROVE  SlotInv'
  OBVIOUS
<1>1. HandlersTypeOK /\ at \in [Msgs -> Places] /\ used \in Nat
  BY DEF ShapeInv, HandlersTypeOK
<1>2. UNCHANGED <<at, used>> => SlotInv'
  BY SlotKept DEF InSlot
<1>3. ASSUME NEW m \in Msgs, NEW place \in Places, UNCHANGED used,
             at' = [at EXCEPT ![m] = place],
             at[m] \in Handling \cup {"done"} <=> place \in Handling \cup {"done"}
      PROVE  SlotInv'
  <2>1. InSlot' = InSlot
    BY <1>1, <1>3 DEF InSlot
  <2> QED BY <1>3, <2>1, SlotKept
<1>4. ASSUME NEW m \in Msgs, Release(m)
      PROVE  SlotInv'
  <2>1. m \in InSlot /\ InSlot' = InSlot \ {m}
    BY <1>1, <1>4 DEF Release, Goto, InSlot, Handling
  <2>2. /\ IsFiniteSet(InSlot \ {m})
        /\ Cardinality(InSlot \ {m}) = Cardinality(InSlot) - 1
    BY <2>1, FS_RemoveElement DEF SlotInv
  <2>3. used' = used - 1
    BY <1>4 DEF Release
  <2>4. used - 1 <= Slots
    BY <1>1, BridgeAssumption DEF SlotInv
  <2> QED BY <2>1, <2>2, <2>3, <2>4 DEF SlotInv
<1>5. ASSUME NEW m \in Msgs, Spawn(m)
      PROVE  SlotInv'
  <2>1. m \notin InSlot /\ InSlot' = InSlot \cup {m}
    BY <1>1, <1>5 DEF Spawn, Goto, InSlot, Handling
  <2>2. /\ IsFiniteSet(InSlot \cup {m})
        /\ Cardinality(InSlot \cup {m}) = Cardinality(InSlot) + 1
    BY <2>1, FS_AddElement DEF SlotInv
  <2>3. used' = used + 1 /\ used < Slots
    BY <1>5 DEF Spawn
  <2>4. used + 1 <= Slots
    BY <1>1, <2>3, BridgeAssumption
  <2> QED BY <2>1, <2>2, <2>3, <2>4 DEF SlotInv
<1>6. CASE Main \/ Receiving \/ UNCHANGED vars
  BY <1>2, <1>6 DEF Main, Receiving, vars, handlerVars
<1>7. CASE Handlers
  <2>1. HandlersNext
    BY <1>7 DEF Handlers
  <2>2. Handling \cup {"done"} \subseteq Places
    BY DEF Places
  <2> QED BY <1>1, <1>2, <1>3, <1>4, <2>1, <2>2, HandlerMoves
<1>8. CASE Loop
  <2>1. CASE TakeEvent
    <3>2. Head(events) \in Msgs /\ at[Head(events)] = "none"
      BY <2>1, TakenFacts
    <3>3. PICK place \in {"denying", "refused", "waiting"} :
             at' = [at EXCEPT ![Head(events)] = place]
      BY <2>1 DEF TakeEvent, Goto
    <3> QED BY <1>3, <2>1, <3>2, <3>3 DEF TakeEvent, Places, Handling
  <2>2. ASSUME NEW m \in Msgs, Deny(m)
        PROVE  SlotInv'
    BY <1>1, <1>3, <2>2 DEF Deny, Goto, Places, Handling
  <2> QED BY <1>5, <1>8, <2>1, <2>2 DEF Loop
<1> QED BY <1>6, <1>7, <1>8 DEF Next, Exited
-----------------------------------------------------------------------------
(* The invariant the theorems share.                                       *)
BaseInv == ShapeInv /\ CopyInv /\ SlotInv

LEMMA BaseInit == Init => BaseInv
  BY ShapeInit, CopyInit, SlotInit DEF BaseInv

LEMMA BaseStep == BaseInv /\ [Next]_vars => BaseInv'
  BY ShapeStep, CopyStep, SlotStep DEF BaseInv

(* A handler runs if and only if it holds a slot, and there are never more *)
(* than Slots of them: for any commands, texts and roles, any capacities   *)
(* and sources, whatever panics or fails.                                  *)
THEOREM TypeCorrect == Spec => []TypeOK
<1>1. BaseInv => TypeOK
  BY DEF BaseInv, ShapeInv, SlotInv, InSlot, TypeOK
<1> QED BY <1>1, BaseInit, BaseStep, PTL DEF Spec

(* main never returns with the funnel process running: on whatever path it *)
(* returns, signals and the funnel's own end in any order.                 *)
THEOREM NoFunnelLeft == Spec => []FunnelNotLeft
<1> DEFINE FunnelInv == funnel = "running" => main \in {"serving", "stopping"}
<1>1. Init => FunnelInv
  BY DEF Init, LifeInit
<1>2. FunnelInv /\ [Next]_vars => FunnelInv'
  <2> SUFFICES ASSUME FunnelInv, [Next]_vars
               PROVE  FunnelInv'
    OBVIOUS
  <2>1. CASE LifeNext
    BY <2>1 DEF LifeNext, FunnelStarts, FunnelNotReady, Retry, FunnelDenied, FunnelEnds,
                Interrupt, Shutdown, FunnelWaited, FunnelKilled, Return
  <2>2. CASE UNCHANGED lifeVars
    BY <2>2 DEF lifeVars
  <2> QED BY <2>1, <2>2 DEF Next, Main, Receiving, Handlers, Loop, TakeEvent, Deny, Spawn,
                            Exited, vars
<1>3. FunnelInv => FunnelNotLeft
  BY DEF FunnelNotLeft
<1> QED BY <1>1, <1>2, <1>3, PTL DEF Spec
-----------------------------------------------------------------------------
(* Once the handler of a copy has its answer no typing request is sent for *)
(* it, and an indicator comes up only by a request that was under way or   *)
(* because a copy of the same message starts: for any number of requests   *)
(* on the wire, and however the refresh goroutine overlaps its handler.    *)
THEOREM TypingEndsWithAnswer == Spec => NoTypingAfterAnswer
<1> DEFINE Quieter == \A m \in Msgs : Answering(m) => wire'[m] <= wire[m]
           Shown == \A i \in typing' \ typing :
                       \E m \in Msgs : IdOf[m] = i /\ (at[m] = "start" \/ wire'[m] < wire[m])
<1>1. BaseInv /\ [Next]_vars => [Quieter /\ Shown]_vars
  <2> SUFFICES ASSUME BaseInv, [Next]_vars
               PROVE  Quieter /\ Shown
    OBVIOUS
  <2>1. /\ at \in [Msgs -> Places] /\ wire \in [Msgs -> 0 .. MaxWire] /\ MaxWire \in Nat
    BY HandlersAssumption DEF BaseInv, ShapeInv, HandlersTypeOK
  <2>2. \A m \in Msgs : wire[m] \in Int
    BY <2>1
  <2>3. UNCHANGED wire => Quieter
    BY <2>2
  <2>4. typing' \subseteq typing => Shown
    OBVIOUS
  <2>5. CASE UNCHANGED <<typing, wire>>
    BY <2>3, <2>4, <2>5
  <2>6. CASE Handlers
    <3>1. PICK m \in Msgs :
         \/ Start(m) \/ Tick(m) \/ Refresh(m) \/ RefreshEnds(m) \/ Arrive(m) \/ Refuse(m) \/ Ack(m)
         \/ Answered(m) \/ AskFails(m) \/ Apologise(m) \/ LocalEnds(m) \/ AgentEnds(m)
         \/ SendPart(m) \/ Dismiss(m) \/ Panic(m) \/ Release(m)
      BY <2>6 DEF Handlers, HandlersNext
    <3>2. ASSUME RequestTyping(m), ~Answering(m)
          PROVE  Quieter /\ Shown
      <4>1. wire' = [wire EXCEPT ![m] = wire[m] + 1] /\ UNCHANGED typing
        BY <3>2 DEF RequestTyping
      <4>2. \A n \in Msgs : n # m => wire'[n] = wire[n]
        BY <2>1, <4>1
      <4> QED BY <2>2, <2>4, <3>2, <4>1, <4>2
    <3>3. CASE Start(m)
      <4>1. at[m] = "start" /\ ~Answering(m)
        BY <3>3 DEF Start, Answering
      <4>2. CASE typing' = typing \cup {IdOf[m]} /\ UNCHANGED wire
        BY <2>3, <4>1, <4>2
      <4> QED BY <2>5, <3>2, <3>3, <4>1, <4>2 DEF Start
    <3>4. CASE Refresh(m)
      <4>1. ~TypingOver(m) /\ RequestTyping(m) => ~Answering(m)
        BY DEF TypingOver, Answering
      <4> QED BY <2>5, <3>2, <3>4, <4>1 DEF Refresh
    <3>5. CASE Arrive(m)
      <4>1. /\ wire' = [wire EXCEPT ![m] = wire[m] - 1]
            /\ typing' \subseteq typing \cup {IdOf[m]}
        BY <3>5 DEF Arrive
      <4>2. \A n \in Msgs : n # m => wire'[n] = wire[n]
        BY <2>1, <4>1
      <4>3. wire'[m] < wire[m]
        BY <2>1, <2>2, <4>1
      <4>4. wire'[m] <= wire[m]
        BY <2>1, <2>2, <4>1
      <4>5. Quieter
        BY <2>2, <4>2, <4>4
      <4>6. Shown
        BY <4>1, <4>3
      <4> QED BY <4>5, <4>6
    <3>6. CASE Dismiss(m)
      BY <2>3, <2>4, <3>6 DEF Dismiss
    <3> QED BY <2>5, <3>1, <3>3, <3>4, <3>5, <3>6
            DEF Tick, RefreshEnds, Refuse, Ack, Answered, AskFails, Apologise, LocalEnds,
                AgentEnds, ReplyIn, SendPart, Panic, Release, typingVars
  <2> QED BY <2>5, <2>6 DEF Next, Main, Receiving, Loop, TakeEvent, Deny, Spawn, Exited, vars,
                            handlerVars, otherVars, typingVars
<1> QED BY <1>1, BaseInit, BaseStep, PTL DEF Spec, NoTypingAfterAnswer
-----------------------------------------------------------------------------
(* How the channels are closed.                                            *)
ClosingInv ==
    /\ poller # Over => chOpen
    /\ ~eventsOpen => ch = <<>> /\ held = Over /\ ~chOpen

(* No copy a source has answered for is lost on its way to the consume     *)
(* loop while the process lives, and nobody but a webhook request meets a  *)
(* closed channel: for any capacities, and however shutdown, the sources   *)
(* and the merge overlap.                                                  *)
THEOREM NothingLostOnTheWay == Spec => []Accounted
<1>1. Init => ClosingInv
  BY DEF Init, IntakeInit, ClosingInv
<1>2. BaseInv /\ ClosingInv /\ [Next]_vars => ClosingInv'
  <2> SUFFICES ASSUME BaseInv, ClosingInv, [Next]_vars
               PROVE  ClosingInv'
    OBVIOUS
  <2>1. UNCHANGED <<poller, chOpen, eventsOpen, ch, held>> => ClosingInv'
    BY DEF ClosingInv
  <2>2. CASE Receiving
    <3>1. IntakeNext /\ IntakeTypeOK
      BY <2>2 DEF Receiving, BaseInv, ShapeInv
    <3>2. ASSUME NEW m \in Msgs, Poll(m) \/ Post(m) \/ Emit(m) \/ SendPanics(m)
          PROVE  ClosingInv'
      BY <3>2, EmitFacts DEF ClosingInv, Poll, Post, Emit, Put, SendPanics, mergeVars
    <3>3. CASE PollEmit
      BY <3>3, EmitFacts DEF ClosingInv, PollEmit, Put, mergeVars
    <3>4. CASE PollEnds \/ ServeFails \/ ServerShuts \/ CloseCh
      BY <3>4, EmitFacts DEF ClosingInv, PollEnds, ServeFails, ServerShuts, CloseCh, mergeVars,
                             sourceVars
    <3>5. CASE Skip \/ Accept
      BY <3>5, EmitFacts DEF ClosingInv, Skip, Accept, Receive
    <3>6. CASE Forward \/ CloseEvents
      BY <3>6, EmitFacts DEF ClosingInv, Forward, CloseEvents, sourceVars
    <3>7. ASSUME NEW i \in Expiring, Forget(i)
          PROVE  ClosingInv'
      BY <2>1, <3>7 DEF Forget, sourceVars
    <3> QED BY <3>1, <3>2, <3>3, <3>4, <3>5, <3>6, <3>7 DEF IntakeNext
  <2>3. CASE UNCHANGED intakeVars
    BY <2>1, <2>3 DEF intakeVars, sourceVars, mergeVars
  <2>4. CASE TakeEvent
    BY <2>1, <2>4 DEF TakeEvent, sourceVars
  <2> QED BY <2>2, <2>3, <2>4 DEF Next, Main, Handlers, Loop, Deny, Spawn, Exited, vars
<1>3. BaseInv /\ ClosingInv => Accounted
  <2> SUFFICES ASSUME BaseInv, ClosingInv
               PROVE  Accounted
    OBVIOUS
  <2>1. acked \subseteq Msgs
    BY DEF BaseInv, ShapeInv, IntakeTypeOK
  <2>2. \A m \in acked : Placed(m)
    BY <2>1 DEF BaseInv, CopyInv, CopyOf
  <2> QED BY <2>2 DEF ClosingInv, Accounted
<1> QED BY <1>1, <1>2, <1>3, BaseInit, BaseStep, PTL DEF Spec
-----------------------------------------------------------------------------
(* What a sender has heard at each place of its handler.                   *)
Quiet == {"none", "denying", "waiting", "start", "refusing", "acking", "asking", "apologising"}

TalkOf(m) ==
    /\ at[m] = "acking" => IsCmd(m) /\ May(m)
    /\ at[m] = "refusing" => IsCmd(m) /\ ~May(m)
    /\ at[m] \in Quiet => last[m] = Note("nothing")
    /\ at[m] # "replying" => part[m] = 1
    /\ at[m] \in {"running", "replying"} => last[m].part < part[m]

TalkInv == \A m \in Msgs : TalkOf(m)

LEMMA NoteParts ==
    /\ \A kind \in {"nothing", "deny", "refusal", "ack", "error"} : Note(kind).part = 0
    /\ \A k \in 1 .. MaxParts : Part(k).part = k
  BY DEF Note, Part

LEMMA TalkInit == Init => TalkInv
  BY DEF Init, HandlersInit, TalkInv, TalkOf

(* The other messages are left alone.                                      *)
LEMMA TalkOthers ==
    ASSUME TalkInv, NEW m \in Msgs, TalkOf(m)',
           \A n \in Msgs : n # m => at'[n] = at[n] /\ part'[n] = part[n] /\ last'[n] = last[n]
    PROVE  TalkInv'
  BY DEF TalkInv, TalkOf

LEMMA TalkHandler ==
    ASSUME ShapeInv, TalkInv, NEW m \in Msgs,
           \/ Start(m) \/ Tick(m) \/ Refresh(m) \/ RefreshEnds(m) \/ Arrive(m) \/ Refuse(m) \/ Ack(m)
           \/ Answered(m) \/ AskFails(m) \/ Apologise(m) \/ LocalEnds(m) \/ AgentEnds(m)
           \/ SendPart(m) \/ Dismiss(m) \/ Panic(m) \/ Release(m)
    PROVE  TalkInv'
<1>1. /\ HandlersTypeOK /\ at \in [Msgs -> Places] /\ part \in [Msgs -> 1 .. MaxParts]
      /\ last \in [Msgs -> Heard] /\ TalkOf(m) /\ MaxParts \in Nat
  BY HandlersAssumption DEF ShapeInv, HandlersTypeOK, Heard, TalkInv
<1>2. CASE Start(m)
  <2>1. /\ at[m] = "start" /\ UNCHANGED <<part, last>>
        /\ at' = [at EXCEPT ![m] = IF ~IsCmd(m) THEN "asking"
                                   ELSE IF ~May(m) THEN "refusing"
                                   ELSE IF HasAck(Name(m)) THEN "acking" ELSE "running"]
    BY <1>2 DEF Start, Goto
  <2>2. last[m].part = 0 /\ part[m] = 1 /\ last[m] = Note("nothing")
    BY <1>1, <2>1, NoteParts DEF TalkOf, Quiet
  <2>3. TalkOf(m)'
    BY <1>1, <2>1, <2>2 DEF TalkOf
  <2> QED BY <1>1, <2>1, <2>3, TalkOthers
<1>3. CASE Tick(m) \/ Refresh(m) \/ RefreshEnds(m) \/ Arrive(m)
  BY <1>3 DEF Tick, Refresh, RefreshEnds, Arrive, TalkInv, TalkOf
<1>4. CASE Refuse(m)
  <2>1. TalkOf(m)'
    BY <1>1, <1>4 DEF Refuse, Goto, TalkOf, Quiet
  <2> QED BY <1>1, <1>4, <2>1, TalkOthers DEF Refuse, Goto, SendText
<1>5. CASE Ack(m)
  <2>1. last'[m].part = 0 /\ part[m] = 1
    BY <1>1, <1>5, NoteParts DEF Ack, SendText, TalkOf, Quiet
  <2>2. at'[m] = "running" /\ part' = part
    BY <1>1, <1>5 DEF Ack, Goto
  <2>3. TalkOf(m)'
    BY <2>1, <2>2 DEF TalkOf, Quiet
  <2> QED BY <1>1, <1>5, <2>3, TalkOthers DEF Ack, Goto, SendText
<1>6. CASE Answered(m) \/ AskFails(m) \/ LocalEnds(m) \/ AgentEnds(m)
  <2>1. /\ UNCHANGED <<part, last>>
        /\ \/ at[m] = "asking" /\ at' = [at EXCEPT ![m] = "replying"]
           \/ at[m] = "asking" /\ at' = [at EXCEPT ![m] = "apologising"]
           \/ at[m] = "running" /\ at' = [at EXCEPT ![m] = "replying"]
           \/ at[m] = "running" /\ at' = [at EXCEPT ![m] = "dismissing"]
    BY <1>6 DEF Answered, AskFails, LocalEnds, AgentEnds, ReplyIn, Goto
  <2>2. last[m].part < part[m] /\ part[m] = 1
    BY <1>1, <2>1, NoteParts DEF TalkOf, Quiet
  <2>3. TalkOf(m)'
    BY <1>1, <2>1, <2>2 DEF TalkOf, Quiet
  <2> QED BY <1>1, <2>1, <2>3, TalkOthers
<1>7. CASE Apologise(m)
  <2>1. TalkOf(m)'
    BY <1>1, <1>7 DEF Apologise, Goto, TalkOf, Quiet
  <2> QED BY <1>1, <1>7, <2>1, TalkOthers DEF Apologise, Goto, SendText
<1>8. CASE SendPart(m)
  <2>1. at[m] = "replying" /\ last[m].part < part[m] /\ part[m] \in 1 .. MaxParts
    BY <1>1, <1>8 DEF SendPart, TalkOf
  <2>2. last'[m].part <= part[m] /\ last'[m].part \in Nat
    BY <1>1, <1>8, <2>1, NoteParts DEF SendPart, SendText, Heard
  <2>3. \/ part' = [part EXCEPT ![m] = part[m] + 1] /\ UNCHANGED at
        \/ part' = [part EXCEPT ![m] = 1] /\ at' = [at EXCEPT ![m] = "dismissing"]
    BY <1>8 DEF SendPart, Goto
  <2>4. ASSUME part' = [part EXCEPT ![m] = part[m] + 1], UNCHANGED at
        PROVE  TalkOf(m)'
    <3>1. part'[m] = part[m] + 1 /\ part[m] \in Nat
      BY <1>1, <2>4
    <3>2. last'[m].part < part'[m]
      BY <2>2, <3>1
    <3> QED BY <2>1, <2>4, <3>2 DEF TalkOf, Quiet
  <2>5. ASSUME part' = [part EXCEPT ![m] = 1], at' = [at EXCEPT ![m] = "dismissing"]
        PROVE  TalkOf(m)'
    BY <1>1, <2>5 DEF TalkOf, Quiet
  <2>6. \A n \in Msgs : n # m => last'[n] = last[n]
    BY <1>1, <1>8 DEF SendPart, SendText
  <2>7. TalkOf(m)'
    BY <2>3, <2>4, <2>5
  <2> QED BY <1>1, <2>3, <2>6, <2>7, TalkOthers
<1>9. CASE Dismiss(m) \/ Panic(m) \/ Release(m)
  <2>1. /\ UNCHANGED last
        /\ at' = [at EXCEPT ![m] = "done"] \/ at' = [at EXCEPT ![m] = "over"]
        /\ \/ part' = [part EXCEPT ![m] = 1]
           \/ part' = part /\ at[m] \in {"dismissing", "done"}
    BY <1>9 DEF Dismiss, Panic, Release, Goto
  <2>2. TalkOf(m)'
    BY <1>1, <2>1 DEF TalkOf, Quiet
  <2> QED BY <1>1, <2>1, <2>2, TalkOthers
<1> QED BY <1>2, <1>3, <1>4, <1>5, <1>6, <1>7, <1>8, <1>9

LEMMA TalkStep == BaseInv /\ TalkInv /\ [Next]_vars => TalkInv'
<1> SUFFICES ASSUME BaseInv, TalkInv, [Next]_vars
             PROVE  TalkInv'
  OBVIOUS
<1>1. /\ ShapeInv /\ at \in [Msgs -> Places] /\ last \in [Msgs -> Heard]
  BY DEF BaseInv, ShapeInv, HandlersTypeOK, Heard
<1>2. UNCHANGED handlerVars => TalkInv'
  BY DEF TalkInv, TalkOf, handlerVars
<1>3. CASE Handlers
  BY <1>1, <1>3, TalkHandler DEF Handlers, HandlersNext
<1>4. CASE Loop
  <2>1. ASSUME NEW m \in Msgs, Deny(m)
        PROVE  TalkInv'
    <3>1. TalkOf(m)'
      BY <1>1, <2>1 DEF Deny, Goto, otherVars, TalkInv, TalkOf, Quiet
    <3> QED BY <1>1, <2>1, <3>1, TalkOthers DEF Deny, Goto, SendText, otherVars
  <2>2. ASSUME NEW m \in Msgs, NEW place \in {"denying", "refused", "waiting", "start"},
               at[m] \in {"none", "waiting"}, at' = [at EXCEPT ![m] = place],
               UNCHANGED <<part, last>>
        PROVE  TalkInv'
    <3>1. TalkOf(m)'
      BY <1>1, <2>2 DEF TalkInv, TalkOf, Quiet
    <3> QED BY <1>1, <2>2, <3>1, TalkOthers
  <2>3. CASE TakeEvent
    <3>2. Head(events) \in Msgs /\ at[Head(events)] = "none"
      BY <1>1, <2>3, TakenFacts DEF BaseInv
    <3> QED BY <2>2, <2>3, <3>2 DEF TakeEvent, Goto, otherVars
  <2>4. ASSUME NEW m \in Msgs, Spawn(m)
        PROVE  TalkInv'
    BY <2>2, <2>4 DEF Spawn, Goto, otherVars
  <2> QED BY <1>4, <2>1, <2>3, <2>4 DEF Loop
<1> QED BY <1>2, <1>3, <1>4 DEF Next, Main, Receiving, Exited, vars
-----------------------------------------------------------------------------
(* The bridge implements module Conversation.                              *)
Phases == [m \in Msgs |-> IF Accepted(m) THEN "queued" ELSE PhaseAt[at[m]]]

LEMMA PhaseFacts ==
    /\ PhaseAt["none"] = "new" /\ PhaseAt["denying"] = "queued"
    /\ PhaseAt["waiting"] = "open" /\ PhaseAt["start"] = "open"
    /\ PhaseAt["refusing"] = "open" /\ PhaseAt["acking"] = "open"
    /\ PhaseAt["asking"] = "acted" /\ PhaseAt["running"] = "acted"
    /\ PhaseAt["replying"] = "acted" /\ PhaseAt["apologising"] = "acted"
    /\ PhaseAt["refused"] = "closed" /\ PhaseAt["dismissing"] = "closed"
    /\ PhaseAt["done"] = "closed" /\ PhaseAt["over"] = "closed"
    /\ \A place \in Places : place \in {"none", "denying", "waiting", "start", "refusing",
                                    "acking", "asking", "running", "replying", "apologising",
                                    "refused", "dismissing", "done", "over"}
  BY DEF PhaseAt, Places, Handling

LEMMA PromisedInit == Init => Promised!Init
<1> SUFFICES ASSUME Init
             PROVE  Promised!Init
  OBVIOUS
<1>1. /\ seen = {} /\ held = Idle /\ events = <<>> /\ at = [m \in Msgs |-> "none"]
      /\ last = [m \in Msgs |-> Note("nothing")]
  BY DEF Init, IntakeInit, HandlersInit
<1>2. \A m \in Msgs : ~Accepted(m)
  BY <1>1, EmitFacts DEF Accepted, Holds
<1> QED BY <1>1, <1>2, PhaseFacts DEF Promised!Init, Promised!Nothing, Promised!Note, Note

(* What moving one copy does to the phases.                                *)
LEMMA PhaseMoves ==
    ASSUME NEW m \in Msgs, ~Accepted(m)',
           \A n \in Msgs : n # m => at'[n] = at[n] /\ (Accepted(n)' <=> Accepted(n))
    PROVE  Phases' = [Phases EXCEPT ![m] = PhaseAt[at'[m]]]
<1>1. DOMAIN Phases = Msgs /\ Phases' = [n \in Msgs |-> Phases'[n]]
  BY DEF Phases
<1>2. Phases'[m] = PhaseAt[at'[m]]
  BY DEF Phases
<1>3. \A n \in Msgs : n # m => Phases'[n] = Phases[n]
  BY DEF Phases
<1> QED BY <1>1, <1>2, <1>3

(* A handler moves only its own copy, which the loop has taken.            *)
LEMMA MovesOwn ==
    ASSUME ShapeInv, NEW m \in Msgs,
           \/ Start(m) \/ Refuse(m) \/ Ack(m) \/ Answered(m) \/ AskFails(m) \/ Apologise(m)
           \/ LocalEnds(m) \/ AgentEnds(m) \/ SendPart(m) \/ Dismiss(m) \/ Panic(m) \/ Release(m)
    PROVE  at[m] # "none" /\ \A n \in Msgs : n # m => at'[n] = at[n]
<1>1. at \in [Msgs -> Places]
  BY DEF ShapeInv, HandlersTypeOK
<1>2. CASE Start(m) \/ Refuse(m) \/ Ack(m) \/ Apologise(m) \/ Dismiss(m) \/ Release(m)
  BY <1>1, <1>2 DEF Start, Refuse, Ack, Apologise, Dismiss, Release, Goto
<1>3. CASE Answered(m) \/ AskFails(m) \/ LocalEnds(m) \/ AgentEnds(m)
  BY <1>1, <1>3 DEF Answered, AskFails, LocalEnds, AgentEnds, ReplyIn, Goto
<1>4. CASE SendPart(m)
  BY <1>1, <1>4 DEF SendPart, Goto
<1>5. CASE Panic(m)
  BY <1>1, <1>5 DEF Panic, Goto, Handling
<1> QED BY <1>2, <1>3, <1>4, <1>5

(* The step of module Conversation that each step of a handler is.         *)
LEMMA PromisedHandler ==
    ASSUME ShapeInv, CopyInv, TalkInv, UNCHANGED intakeVars, NEW m \in Msgs,
           \/ Start(m) \/ Tick(m) \/ Refresh(m) \/ RefreshEnds(m) \/ Arrive(m) \/ Refuse(m) \/ Ack(m)
           \/ Answered(m) \/ AskFails(m) \/ Apologise(m) \/ LocalEnds(m) \/ AgentEnds(m)
           \/ SendPart(m) \/ Dismiss(m) \/ Panic(m) \/ Release(m)
    PROVE  \/ UNCHANGED <<Phases, last>>
           \/ Promised!Act(m) \/ Promised!Decline(m) \/ Promised!Apologise(m)
           \/ Promised!Close(m) \/ \E k \in 1 .. MaxParts : Promised!Say(m, k)
<1> DEFINE Moves == \/ Start(m) \/ Refuse(m) \/ Ack(m) \/ Answered(m) \/ AskFails(m)
                    \/ Apologise(m) \/ LocalEnds(m) \/ AgentEnds(m) \/ SendPart(m)
                    \/ Dismiss(m) \/ Panic(m) \/ Release(m)
<1>1. at \in [Msgs -> Places] /\ part \in [Msgs -> 1 .. MaxParts] /\ TalkOf(m)
  BY DEF ShapeInv, HandlersTypeOK, TalkInv
<1>2. /\ UNCHANGED <<seen, held, events>>
      /\ \A n \in Msgs : Accepted(n)' <=> Accepted(n)
      /\ at[m] # "none" => ~Accepted(m)
  BY DEF intakeVars, mergeVars, Accepted, Holds, CopyInv, CopyOf
<1>3. UNCHANGED at => Phases' = Phases
  BY <1>2 DEF Phases
<1>4. Moves => Phases[m] = PhaseAt[at[m]]
  BY <1>2, MovesOwn DEF Phases
<1>5. Moves => Phases' = [Phases EXCEPT ![m] = PhaseAt[at'[m]]]
  BY <1>2, MovesOwn, PhaseMoves
<1>6. Moves /\ PhaseAt[at'[m]] = PhaseAt[at[m]] => Phases' = Phases
  BY <1>4, <1>5 DEF Phases
<1> HIDE DEF Moves
<1>7. CASE Start(m)
  <2>1. Moves /\ at[m] = "start" /\ UNCHANGED last
    BY <1>7 DEF Start, Moves
  <2>2. \/ at'[m] \in {"refusing", "acking"}
        \/ at'[m] \in {"asking", "running"} /\ (IsCmd(m) => May(m))
    BY <1>1, <1>7 DEF Start, Goto
  <2>3. CASE at'[m] \in {"refusing", "acking"}
    BY <1>6, <2>1, <2>3, PhaseFacts
  <2>4. CASE at'[m] \in {"asking", "running"} /\ (IsCmd(m) => May(m))
    <3>1. Phases[m] = "open" /\ PhaseAt[at'[m]] = "acted"
      BY <1>4, <2>1, <2>4, PhaseFacts
    <3>2. Phases' = [Phases EXCEPT ![m] = "acted"]
      BY <1>5, <2>1, <3>1
    <3> QED BY <1>2, <2>1, <2>4, <3>1, <3>2 DEF Promised!Act, Promised!Step, Phases
  <2> QED BY <2>2, <2>3, <2>4
<1>8. CASE Tick(m) \/ Refresh(m) \/ RefreshEnds(m) \/ Arrive(m)
  BY <1>3, <1>8 DEF Tick, Refresh, RefreshEnds, Arrive
<1>9. CASE Refuse(m)
  <2>1. Moves /\ at[m] = "refusing" /\ at'[m] = "dismissing"
    BY <1>1, <1>9 DEF Refuse, Goto, Moves
  <2>2. Phases[m] = "open" /\ PhaseAt[at'[m]] = "closed"
    BY <1>4, <2>1, PhaseFacts
  <2>3. Phases' = [Phases EXCEPT ![m] = "closed"]
    BY <1>5, <2>1, <2>2
  <2>4. IsCmd(m) /\ ~May(m)
    BY <1>1, <2>1 DEF TalkOf
  <2>5. last' \in {last, [last EXCEPT ![m] = Note("refusal")]}
    BY <1>9 DEF Refuse, SendText
  <2> QED BY <1>2, <2>2, <2>3, <2>4, <2>5
          DEF Promised!Decline, Promised!Step, Promised!Note, Note, Phases
<1>10. CASE Ack(m)
  <2>1. Moves /\ at[m] = "acking" /\ at'[m] = "running"
    BY <1>1, <1>10 DEF Ack, Goto, Moves
  <2>2. Phases[m] = "open" /\ PhaseAt[at'[m]] = "acted"
    BY <1>4, <2>1, PhaseFacts
  <2>3. Phases' = [Phases EXCEPT ![m] = "acted"]
    BY <1>5, <2>1, <2>2
  <2>4. IsCmd(m) /\ May(m)
    BY <1>1, <2>1 DEF TalkOf
  <2>5. last' \in {last, [last EXCEPT ![m] = Note("ack")]}
    BY <1>10 DEF Ack, SendText
  <2> QED BY <1>2, <2>2, <2>3, <2>4, <2>5
          DEF Promised!Act, Promised!Step, Promised!Note, Note, Phases
<1>11. CASE Answered(m) \/ AskFails(m) \/ LocalEnds(m) \/ AgentEnds(m)
  <2>1. Moves /\ UNCHANGED last /\ at[m] \in {"asking", "running"}
    BY <1>11 DEF Answered, AskFails, LocalEnds, AgentEnds, ReplyIn, Moves
  <2>2. at'[m] \in {"replying", "apologising", "dismissing"}
    BY <1>1, <1>11 DEF Answered, AskFails, LocalEnds, AgentEnds, ReplyIn, Goto
  <2>3. Phases[m] = "acted" /\ PhaseAt[at[m]] = "acted"
    BY <1>4, <2>1, PhaseFacts
  <2>4. CASE at'[m] \in {"replying", "apologising"}
    BY <1>6, <2>1, <2>3, <2>4, PhaseFacts
  <2>5. CASE at'[m] = "dismissing"
    <3>1. PhaseAt[at'[m]] = "closed"
      BY <2>5, PhaseFacts
    <3>2. Phases' = [Phases EXCEPT ![m] = "closed"]
      BY <1>5, <2>1, <3>1
    <3> QED BY <1>2, <2>1, <2>3, <3>2 DEF Promised!Close, Phases
  <2> QED BY <2>2, <2>4, <2>5
<1>12. CASE Apologise(m)
  <2>1. Moves /\ at[m] = "apologising" /\ at'[m] = "dismissing"
    BY <1>1, <1>12 DEF Apologise, Goto, Moves
  <2>2. Phases[m] = "acted" /\ PhaseAt[at'[m]] = "closed"
    BY <1>4, <2>1, PhaseFacts
  <2>3. Phases' = [Phases EXCEPT ![m] = "closed"]
    BY <1>5, <2>1, <2>2
  <2>4. last[m] = Note("nothing")
    BY <1>1, <2>1 DEF TalkOf, Quiet
  <2>5. last' \in {last, [last EXCEPT ![m] = Note("error")]}
    BY <1>12 DEF Apologise, SendText
  <2> QED BY <1>2, <2>2, <2>3, <2>4, <2>5
          DEF Promised!Apologise, Promised!Step, Promised!Nothing, Promised!Note, Note, Phases
<1>13. CASE SendPart(m)
  <2>1. /\ Moves /\ at[m] = "replying" /\ last[m].part < part[m] /\ part[m] \in 1 .. MaxParts
        /\ at'[m] \in {"replying", "dismissing"}
    BY <1>1, <1>13 DEF SendPart, TalkOf, Goto, Moves
  <2>2. Phases[m] = "acted" /\ PhaseAt[at'[m]] \in {"acted", "closed"}
    BY <1>4, <2>1, PhaseFacts
  <2>3. \/ Phases' = [Phases EXCEPT ![m] = "acted"]
        \/ Phases' = [Phases EXCEPT ![m] = "closed"]
    <3>1. CASE PhaseAt[at'[m]] = "acted"
      BY <1>5, <2>1, <3>1
    <3>2. CASE PhaseAt[at'[m]] = "closed"
      BY <1>5, <2>1, <3>2
    <3> QED BY <2>2, <3>1, <3>2
  <2>4. last' \in {last, [last EXCEPT ![m] = Part(part[m])]}
    BY <1>13 DEF SendPart, SendText
  <2>5. Promised!Say(m, part[m])
    BY <1>2, <2>1, <2>2, <2>3, <2>4 DEF Promised!Say, Promised!Step, Promised!Part, Part, Phases
  <2> QED BY <2>1, <2>5
<1>14. CASE Dismiss(m) \/ Release(m)
  <2>1. Moves /\ UNCHANGED last /\ at[m] \in {"dismissing", "done"} /\ at'[m] \in {"done", "over"}
    BY <1>1, <1>14 DEF Dismiss, Release, Goto, Moves
  <2>2. Phases' = Phases
    BY <1>6, <2>1, PhaseFacts
  <2> QED BY <2>1, <2>2
<1>15. CASE Panic(m)
  <2>1. Moves /\ at[m] \in Handling /\ at'[m] = "done" /\ UNCHANGED last
    BY <1>1, <1>15 DEF Panic, Goto, Moves, Handling
  <2>2. PhaseAt[at'[m]] = "closed" /\ PhaseAt[at[m]] \in {"open", "acted", "closed"}
    BY <2>1, PhaseFacts DEF Handling
  <2>3. CASE PhaseAt[at[m]] \in {"open", "acted"}
    <3>1. Phases' = [Phases EXCEPT ![m] = "closed"]
      BY <1>5, <2>1, <2>2
    <3> QED BY <1>2, <1>4, <2>1, <2>3, <3>1 DEF Promised!Close, Phases
  <2>4. CASE PhaseAt[at[m]] = "closed"
    BY <1>6, <2>1, <2>2, <2>4
  <2> QED BY <2>2, <2>3, <2>4
<1> QED BY <1>7, <1>8, <1>9, <1>10, <1>11, <1>12, <1>13, <1>14, <1>15

(* The step of module Conversation that each step of the loop is.          *)
LEMMA PromisedLoop ==
    ASSUME BaseInv, TalkInv, TakeEvent \/ \E m \in Msgs : Deny(m) \/ Spawn(m)
    PROVE  \/ UNCHANGED <<seen, Phases, last>>
           \/ \E m \in Msgs : Promised!TurnAway(m) \/ Promised!Open(m)
<1>1. /\ ShapeInv /\ CopyInv /\ at \in [Msgs -> Places] /\ UNCHANGED seen
      /\ {"denying", "refused", "waiting", "start"} \subseteq Places
  BY DEF BaseInv, ShapeInv, HandlersTypeOK, TakeEvent, Deny, Spawn, intakeVars, mergeVars,
         Places, Handling
<1>2. \A m \in Msgs : \A v : Phases[m] = v => [Phases EXCEPT ![m] = v] = Phases
  BY DEF Phases
<1>3. CASE TakeEvent
  <2>1. PICK m \in Msgs : m = Head(events) /\ at[m] = "none" /\ Holds(events, m)
    BY <1>1, <1>3, TakenFacts
  <2>2. /\ UNCHANGED <<last, held>> /\ events' = Tail(events) /\ events \in Seq(Msgs)
        /\ events # <<>>
        /\ \E place \in {"denying", "refused", "waiting"} : at' = [at EXCEPT ![m] = place]
    BY <1>1, <1>3, <2>1 DEF TakeEvent, Goto, ShapeInv, IntakeTypeOK
  <2>3. \A n \in Msgs : Holds(events', n) <=> Holds(events, n) /\ n # m
    BY <1>1, <2>1, <2>2, HoldsTail DEF CopyInv
  <2>4. Phases[m] = "queued"
    BY <2>1 DEF Phases, Accepted
  <2>5. held # Emitting(m)
    BY <1>1, <2>1 DEF CopyInv, CopyOf
  <2>6. ~Accepted(m)' /\ \A n \in Msgs : n # m => (Accepted(n)' <=> Accepted(n))
    BY <2>2, <2>3, <2>5 DEF Accepted, Holds
  <2>7. /\ at'[m] \in {"denying", "refused", "waiting"}
        /\ \A n \in Msgs : n # m => at'[n] = at[n]
    BY <1>1, <2>2
  <2>8. PhaseAt[at'[m]] \in {"queued", "closed", "open"}
    BY <2>7, PhaseFacts
  <2>9. Phases' = [Phases EXCEPT ![m] = PhaseAt[at'[m]]]
    BY <2>6, <2>7, PhaseMoves
  <2>10. CASE PhaseAt[at'[m]] = "queued"
    BY <1>1, <1>2, <2>2, <2>4, <2>9, <2>10
  <2>11. CASE PhaseAt[at'[m]] = "closed"
    <3>1. Phases' = [Phases EXCEPT ![m] = "closed"]
      BY <2>9, <2>11
    <3> QED BY <1>1, <2>2, <2>4, <3>1 DEF Promised!TurnAway, Promised!Step, Phases
  <2>12. CASE PhaseAt[at'[m]] = "open"
    <3>1. Phases' = [Phases EXCEPT ![m] = "open"]
      BY <2>9, <2>12
    <3> QED BY <1>1, <2>2, <2>4, <3>1 DEF Promised!Open, Phases
  <2> QED BY <2>8, <2>10, <2>11, <2>12
<1>4. ASSUME NEW m \in Msgs, Deny(m) \/ Spawn(m)
      PROVE  \/ UNCHANGED <<seen, Phases, last>>
             \/ Promised!TurnAway(m)
  <2>1. /\ at[m] \in {"denying", "waiting"} /\ UNCHANGED <<held, events>>
        /\ \A n \in Msgs : n # m => at'[n] = at[n]
    BY <1>1, <1>4 DEF Deny, Spawn, Goto, intakeVars, mergeVars
  <2>2. ~Accepted(m) /\ \A n \in Msgs : Accepted(n)' <=> Accepted(n)
    BY <1>1, <2>1 DEF CopyInv, CopyOf, Accepted, Holds
  <2>3. Phases' = [Phases EXCEPT ![m] = PhaseAt[at'[m]]]
    BY <2>1, <2>2, PhaseMoves
  <2>4. Phases[m] = PhaseAt[at[m]]
    BY <2>2 DEF Phases
  <2>5. CASE Deny(m)
    <3>1. at[m] = "denying" /\ at'[m] = "refused"
      BY <1>1, <2>5 DEF Deny, Goto
    <3>2. Phases[m] = "queued" /\ PhaseAt[at'[m]] = "closed"
      BY <2>4, <3>1, PhaseFacts
    <3>3. Phases' = [Phases EXCEPT ![m] = "closed"]
      BY <2>3, <3>2
    <3>4. last' \in {last, [last EXCEPT ![m] = Note("deny")]}
      BY <2>5 DEF Deny, SendText
    <3> QED BY <1>1, <3>2, <3>3, <3>4
            DEF Promised!TurnAway, Promised!Step, Promised!Note, Note, Phases
  <2>6. CASE Spawn(m)
    <3>1. at[m] = "waiting" /\ at'[m] = "start" /\ UNCHANGED last
      BY <1>1, <2>6 DEF Spawn, Goto
    <3>2. Phases[m] = PhaseAt[at'[m]]
      BY <2>4, <3>1, PhaseFacts
    <3> QED BY <1>1, <1>2, <2>3, <3>1, <3>2
  <2> QED BY <1>4, <2>5, <2>6
<1> QED BY <1>3, <1>4

(* The step of module Conversation that each step of the sources and the   *)
(* merger is.                                                              *)
LEMMA PromisedIntake ==
    ASSUME BaseInv, IntakeNext, UNCHANGED handlerVars
    PROVE  \/ UNCHANGED <<seen, Phases, last>>
           \/ \E m \in Msgs : Promised!Accept(m)
           \/ \E i \in Ids : Promised!Forget(i)
<1>1. ShapeInv /\ IntakeTypeOK /\ CopyInv /\ UNCHANGED <<at, last>> /\ at \in [Msgs -> Places]
  BY DEF BaseInv, ShapeInv, HandlersTypeOK, handlerVars
<1>2. (\A n \in Msgs : Accepted(n)' <=> Accepted(n)) => Phases' = Phases
  BY <1>1 DEF Phases
<1>3. UNCHANGED <<held, events>> => Phases' = Phases
  BY <1>2 DEF Accepted, Holds
<1>4. ASSUME \/ \E m \in Msgs : Poll(m) \/ Post(m) \/ Emit(m) \/ SendPanics(m)
             \/ PollEmit \/ PollEnds \/ ServeFails \/ ServerShuts \/ CloseCh \/ Skip
      PROVE  UNCHANGED <<seen, Phases, last>>
  BY <1>1, <1>3, <1>4 DEF Poll, Post, Emit, SendPanics, PollEmit, PollEnds, ServeFails,
                          ServerShuts, CloseCh, Skip, Receive, mergeVars
<1>5. CASE Accept
  <2>1. ch \in Seq(Msgs) /\ ch # <<>> /\ held = Idle /\ UNCHANGED events
    BY <1>1, <1>5 DEF Accept, Receive, IntakeTypeOK
  <2>2. PICK m \in Msgs : m = Head(ch) /\ Holds(ch, m)
    BY <1>1, <2>1, HoldsTail DEF CopyInv
  <2>3. /\ held' = Emitting(m) /\ IdOf[m] \notin seen /\ seen' = seen \cup {IdOf[m]}
    BY <1>5, <2>2 DEF Accept
  <2>4. ~Accepted(m) /\ at[m] = "none"
    BY <1>1, <2>2 DEF CopyInv, CopyOf
  <2>5. Accepted(m)' /\ \A n \in Msgs : n # m => (Accepted(n)' <=> Accepted(n))
    BY <2>1, <2>3, EmitFacts DEF Accepted, Holds
  <2>6. Phases[m] = "new"
    BY <2>4, PhaseFacts DEF Phases
  <2>7. Phases' = [Phases EXCEPT ![m] = "queued"]
    <3>1. DOMAIN Phases = Msgs /\ Phases' = [n \in Msgs |-> Phases'[n]]
      BY DEF Phases
    <3>2. Phases'[m] = "queued" /\ \A n \in Msgs : n # m => Phases'[n] = Phases[n]
      BY <1>1, <2>5 DEF Phases
    <3> QED BY <3>1, <3>2
  <2> QED BY <1>1, <2>3, <2>6, <2>7 DEF Promised!Accept, Phases
<1>6. CASE Forward
  <2>1. events \in Seq(Msgs) /\ UNCHANGED seen
    BY <1>1, <1>6 DEF Forward, IntakeTypeOK
  <2>2. PICK m \in Msgs : held = Emitting(m) /\ m = held.emit
    BY <1>1, <1>6, EmitFacts DEF Forward, IntakeTypeOK
  <2>3. events' = Append(events, m) /\ held' = Idle /\ ~Holds(events, m)
    BY <1>1, <1>6, <2>2 DEF Forward, CopyInv, CopyOf
  <2>4. \A n \in Msgs : Holds(events', n) <=> Holds(events, n) \/ n = m
    BY <1>1, <2>1, <2>3, HoldsAppend DEF CopyInv
  <2>5. \A n \in Msgs : Accepted(n)' <=> Accepted(n)
    BY <2>2, <2>3, <2>4, EmitFacts DEF Accepted, Holds
  <2> QED BY <1>1, <1>2, <2>1, <2>5
<1>7. CASE CloseEvents
  <2>1. held = Idle /\ held' = Over /\ UNCHANGED <<seen, events>>
    BY <1>7 DEF CloseEvents
  <2>2. \A n \in Msgs : Accepted(n)' <=> Accepted(n)
    BY <2>1, EmitFacts DEF Accepted, Holds
  <2> QED BY <1>1, <1>2, <2>1, <2>2
<1>8. ASSUME NEW i \in Expiring, Forget(i)
      PROVE  i \in Ids /\ Promised!Forget(i)
  <2>1. Phases' = Phases /\ seen' = seen \ {i}
    BY <1>3, <1>8 DEF Forget
  <2> QED BY <1>1, <2>1, IntakeAssumption DEF Promised!Forget, Phases
<1> QED BY <1>4, <1>5, <1>6, <1>7, <1>8 DEF IntakeNext

LEMMA PromisedStep ==
    BaseInv /\ TalkInv /\ [Next]_vars => [Promised!Next]_(Promised!vars)
<1> SUFFICES ASSUME BaseInv, TalkInv, [Next]_vars
             PROVE  [Promised!Next]_(Promised!vars)
  OBVIOUS
<1>1. UNCHANGED <<seen, Phases, last>> => UNCHANGED Promised!vars
  BY DEF Promised!vars, Phases
<1>2. UNCHANGED <<intakeVars, handlerVars>> => UNCHANGED <<seen, Phases, last>>
  BY DEF handlerVars, intakeVars, mergeVars, Phases, Accepted, Holds
<1>3. CASE Handlers
  <2>1. ShapeInv /\ CopyInv /\ UNCHANGED <<intakeVars, seen>> /\ HandlersNext
    BY <1>3 DEF BaseInv, Handlers, intakeVars, mergeVars
  <2> QED BY <1>1, <2>1, PromisedHandler DEF HandlersNext, Promised!Next
<1>4. CASE Receiving
  BY <1>1, <1>4, PromisedIntake DEF Receiving, Promised!Next
<1>5. CASE Loop
  BY <1>1, <1>5, PromisedLoop DEF Loop, Promised!Next
<1> QED BY <1>1, <1>2, <1>3, <1>4, <1>5 DEF Next, Main, Exited, vars

(* Whatever the sources, capacities, slots, commands and failures: a copy  *)
(* of a message is accepted only while no other copy is remembered, it is  *)
(* taken up at most once, acted on at most once and only if its sender     *)
(* may, and its sender hears an acknowledgement, parts of one reply in     *)
(* their order, or one error: never two of a kind, nor out of order.       *)
THEOREM BridgeConverses == Spec => ImplementsConversation
<1>1. Init => BaseInv /\ TalkInv
  BY BaseInit, TalkInit
<1>2. BaseInv /\ TalkInv /\ [Next]_vars => (BaseInv /\ TalkInv)'
  BY BaseStep, TalkStep
<1> QED BY <1>1, <1>2, PromisedInit, PromisedStep, PTL
           DEF Spec, ImplementsConversation, Promised!Spec
=============================================================================
