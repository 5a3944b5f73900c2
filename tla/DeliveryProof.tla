--------------------------- MODULE DeliveryProof ---------------------------
(***************************************************************************)
(* Proofs about the delivery pipeline, for every bound, page size, page    *)
(* cap, channel capacity and TTL.  Two inductive invariants: what the      *)
(* poller's cycle has done up to a position of the list, and what the      *)
(* dedup table remembers of what was accepted.                             *)
(***************************************************************************)
EXTENDS Delivery, FiniteSetTheorems, TLAPS

(* The table knows the latest acceptance of an id, or it is long past, and *)
(* no sweep in progress reaches into the last TTL.                         *)
MergeInv ==
    /\ \A id \in DOMAIN seen : seen[id] = forwardedAt[id]
    /\ \A id \in Msgs : forwardedAt[id] # 0 /\ id \notin DOMAIN seen =>
                            clock - forwardedAt[id] > TTL
    /\ cutoff + TTL <= clock

(* Messages in the order of their seconds, none from the future.           *)
StampInv ==
    /\ \A i, j \in Arrived : i < j => stamp[i] <= stamp[j]
    /\ \A i \in Arrived : stamp[i] <= clock

(* Everything the cycle has to read is on the channel up to position m.    *)
Done(m) == \A i \in Arrived \cap Supported : i <= m /\ stamp[i] >= lastPoll => i \in polled

(* A cursor never gets ahead of the messages to come.                      *)
Behind(cursor) == cursor <= clock \/ \E i \in Arrived : cursor <= stamp[i] + 1

CycleInv ==
    /\ after = 0 \/ (after \in Arrived /\ Done(after))
    /\ next = 0 \/ (next \in Arrived /\ (next \in batch \/ Done(next)))
    /\ newest = 0 \/ \E m \in Arrived : stamp[m] = newest /\ Done(m)
    /\ batch \subseteq Arrived
    /\ \A i \in Arrived \cap Supported :
          stamp[i] >= lastPoll /\ i \notin batch /\ (\E j \in batch : i < j) => i \in polled
    /\ pc \in {"start", "idle", "finish"} => after = 0 /\ next = 0 /\ batch = {}
    /\ pc = "start" => newest = 0

CursorInv ==
    /\ OnlyTiesPassedOver
    /\ Behind(lastPoll)
    /\ file # Unreadable => Behind(file)

PollInv == StampInv /\ CycleInv /\ CursorInv
-----------------------------------------------------------------------------
(* Type correctness.                                                       *)
LEMMA InitTypeOK == Init => TypeOK
  BY InboxAssumption, MergeAssumption, PollerAssumption, DeliveryAssumption
     DEF Init, TypeOK, MergeInit, PollerInit, MergeTypeOK, PollerTypeOK, Msgs, Arrived,
         NoSweep, Unreadable

LEMMA PutType ==
    ASSUME TypeOK, NEW id \in Msgs, Put(id)
    PROVE  ch' \in Seq(Msgs) /\ Len(ch') <= ChCap
  BY InboxAssumption DEF TypeOK, Put

LEMMA MergeTypeStep ==
    ASSUME TypeOK, MergeNext
    PROVE  MergeTypeOK' /\ ch' \in Seq(Msgs) /\ Len(ch') <= ChCap
<1> USE DEF TypeOK, MergeTypeOK
<1>1. clock \in Nat /\ TTL \in Nat /\ ch \in Seq(Msgs) /\ EvCap \in Nat
  BY MergeAssumption
<1>2. ASSUME Receive
      PROVE  Head(ch) \in Msgs /\ ch' \in Seq(Msgs) /\ Len(ch') <= ChCap
  <2>1. ch # <<>> /\ ch' = Tail(ch)
    BY <1>2 DEF Receive
  <2>2. Head(ch) \in Msgs /\ Tail(ch) \in Seq(Msgs) /\ Len(Tail(ch)) = Len(ch) - 1
    BY <1>1, <2>1
  <2>3. ChCap \in Nat /\ Len(ch) \in Nat /\ Len(ch) <= ChCap
    BY <1>1, InboxAssumption
  <2> QED BY <2>1, <2>2, <2>3
<1>3. CASE SkipDuplicate
  BY <1>2, <1>3 DEF SkipDuplicate, mergeVars
<1>4. CASE Accept
  <2>1. Receive /\ Head(ch) \in Msgs
    BY <1>2, <1>4 DEF Accept
  <2>2. DOMAIN seen' \subseteq Msgs /\ seen' \in [DOMAIN seen' -> Nat]
    BY <1>1, <1>4, <2>1 DEF Accept, Remember
  <2>3. forwardedAt' \in [Msgs -> Nat] /\ held' \in Msgs
    BY <1>1, <1>4, <2>1 DEF Accept
  <2> QED BY <1>2, <1>4, <2>1, <2>2, <2>3 DEF Accept
<1>5. CASE Forward
  <2>1. events' \in Seq(Msgs) /\ Len(events') <= EvCap
    BY <1>1, <1>5 DEF Forward
  <2> QED BY <1>5, <2>1 DEF Forward
<1>6. CASE SweepBegin
  BY <1>1, <1>6 DEF SweepBegin
<1>7. CASE Forget
  BY <1>7 DEF Forget
<1>8. CASE SweepEnd
  BY <1>8, MergeAssumption DEF SweepEnd, NoSweep
<1> QED BY <1>3, <1>4, <1>5, <1>6, <1>7, <1>8 DEF MergeNext

(* A message sent to the channel, by whichever source.                     *)
LEMMA ListFacts ==
    ASSUME TypeOK
    PROVE  /\ clock \in Nat /\ Len(stamp) \in Nat
           /\ Arrived \subseteq Msgs
           /\ \A i \in Arrived : i \in Nat \ {0} /\ stamp[i] \in Nat
  BY InboxAssumption DEF TypeOK, Arrived, Msgs

(* The page served, and the cursor that comes with it, are of the list.    *)
LEMMA PageType ==
    ASSUME TypeOK, ListPage
    PROVE  /\ batch' \subseteq Listing(lastPoll, after)
           /\ next' \in {0, after} \cup batch'
           /\ batch' = {} => next' = 0
<1> DEFINE list == Listing(lastPoll, after)
<1>1. /\ batch' = Oldest(PageSize, list)
      /\ next' \in NextCursors(list, batch')
  BY DEF ListPage
<1> HIDE DEF list
<1>2. batch' \subseteq list
  BY <1>1 DEF Oldest
<1>3. NextCursors(list, batch') \subseteq {0, after} \cup batch'
  BY DEF NextCursors, RightCursor, WrongCursors
<1>4. batch' = {} => NextCursors(list, batch') = {0}
  BY DEF NextCursors
<1> QED BY <1>1, <1>2, <1>3, <1>4 DEF list

LEMMA PollerTypeStep ==
    ASSUME TypeOK, PollerNext
    PROVE  PollerTypeOK' /\ ch' \in Seq(Msgs) /\ Len(ch') <= ChCap
<1> USE DEF TypeOK, PollerTypeOK
<1>1. /\ clock \in Nat /\ MaxPages \in Nat \ {0} /\ MaxErrors \in Nat
      /\ Arrived' = Arrived /\ Arrived \subseteq Msgs
      /\ \A i \in Arrived : stamp[i] \in Nat
  BY PollerAssumption, ListFacts DEF PollerNext, Arrived
<1>2. CASE Resume
  BY <1>1, <1>2 DEF Resume, cycleVars
<1>3. CASE StartAfresh
  BY <1>1, <1>3 DEF StartAfresh, SaveState, cycleVars
<1>4. CASE BeginCycle
  BY <1>1, <1>4 DEF BeginCycle, cycleVars
<1>5. CASE ListPage
  BY <1>1, <1>5, PageType DEF ListPage, Listing
<1>6. CASE ListFails
  BY <1>1, <1>6 DEF ListFails, CycleOver
<1>7. CASE EmitMessage
  <2>1. PICK i \in batch \cap Supported : /\ Put(i) /\ polled' = polled \cup {i}
                                          /\ Latest(stamp[i]) /\ batch' = batch \ {i}
    BY <1>7 DEF EmitMessage
  <2>2. ch' \in Seq(Msgs) /\ Len(ch') <= ChCap
    BY <1>1, <2>1, PutType
  <2>3. newest' \in Nat
    BY <1>1, <2>1 DEF Latest
  <2> QED BY <1>1, <1>7, <2>1, <2>2, <2>3 DEF EmitMessage
<1>8. CASE SkipMessage
  <2>1. PICK i \in batch \ Supported : Latest(stamp[i]) /\ batch' = batch \ {i}
    BY <1>8 DEF SkipMessage
  <2>2. newest' \in Nat
    BY <1>1, <2>1 DEF Latest
  <2> QED BY <1>1, <1>8, <2>1, <2>2 DEF SkipMessage
<1>9. CASE NextPage
  BY <1>1, <1>9 DEF NextPage, LastPage
<1>10. CASE EndOfPages
  BY <1>1, <1>10 DEF EndOfPages, CycleOver
<1>11. CASE Advance
  <2>1. lastPoll' \in Nat /\ file' \in Nat \cup {Unreadable}
    BY <1>11 DEF Advance, SaveState
  <2> QED BY <1>1, <1>11, <2>1 DEF Advance, cycleVars
<1>12. CASE NothingNew
  BY <1>1, <1>12 DEF NothingNew, cycleVars
<1> QED
  BY <1>2, <1>3, <1>4, <1>5, <1>6, <1>7, <1>8, <1>9, <1>10, <1>11, <1>12 DEF PollerNext

(* New messages go to the end of the list and leave the rest of it alone.  *)
LEMMA ArriveFacts ==
    ASSUME TypeOK, Arrive
    PROVE  /\ stamp' \in Seq(Nat) /\ Len(stamp') <= MaxMsgs
           /\ Len(stamp') = Len(stamp) + 1 /\ stamp'[Len(stamp) + 1] = clock
           /\ \A i \in Arrived : i \in Arrived' /\ stamp'[i] = stamp[i]
  BY InboxAssumption DEF Arrive, Arrived, TypeOK

LEMMA NextTypeOK == TypeOK /\ [Next]_vars => TypeOK'
<1> SUFFICES ASSUME TypeOK, [Next]_vars
             PROVE  TypeOK'
  OBVIOUS
<1>1. CASE World
  <2>1. CASE Tick
    <3>1. /\ clock' \in Nat /\ stamp' = stamp /\ ch' = ch /\ Arrived' = Arrived
          /\ UNCHANGED <<mergeVars, pollerVars, delivered, crashes>>
      BY <1>1, <2>1 DEF World, Tick, TypeOK, Arrived
    <3>2. MergeTypeOK' /\ PollerTypeOK'
      BY <3>1 DEF TypeOK, MergeTypeOK, PollerTypeOK, mergeVars, pollerVars, cycleVars
    <3> QED BY <3>1, <3>2 DEF TypeOK
  <2>2. CASE Arrive
    <3>1. Arrived \subseteq Arrived' /\ stamp' \in Seq(Nat) /\ Len(stamp') <= MaxMsgs
      BY <2>2, ArriveFacts
    <3> QED
      BY <1>1, <2>2, <3>1
         DEF World, Arrive, TypeOK, MergeTypeOK, PollerTypeOK, mergeVars, pollerVars,
             cycleVars
  <2> QED BY <1>1, <2>1, <2>2 DEF World
<1>2. CASE Polling
  BY <1>2, PollerTypeStep DEF Polling, PollerNext, TypeOK, MergeTypeOK, mergeVars
<1>3. CASE Merging
  BY <1>3, MergeTypeStep
     DEF Merging, MergeNext, TypeOK, PollerTypeOK, pollerVars, cycleVars, Arrived
<1>4. CASE Webhook
  <2>1. ch' \in Seq(Msgs) /\ Len(ch') <= ChCap
    BY <1>4, PutType, ListFacts DEF Webhook
  <2> QED BY <1>4, <2>1 DEF Webhook, TypeOK, MergeTypeOK, PollerTypeOK, mergeVars,
                            pollerVars, cycleVars, Arrived
<1>5. CASE Consume
  <2>1. /\ Head(events) \in Msgs
        /\ events' \in Seq(Msgs) /\ Len(events') <= EvCap
    BY <1>5, MergeAssumption DEF Consume, TypeOK, MergeTypeOK
  <2> QED BY <1>5, <2>1 DEF Consume, TypeOK, MergeTypeOK, PollerTypeOK, pollerVars,
                            cycleVars, Arrived
<1>6. CASE Crash
  <2>1. /\ ch' = <<>> /\ clock' = clock /\ stamp' = stamp /\ Arrived' = Arrived
        /\ delivered' = delivered /\ crashes' \in 0 .. MaxCrashes
    BY <1>6, DeliveryAssumption DEF Crash, TypeOK, Arrived
  <2>2. MergeTypeOK'
    BY <1>6, MergeAssumption DEF Crash, TypeOK, MergeTypeOK, NoSweep
  <2>3. PollerTypeOK'
    BY <1>6, PollerAssumption DEF Crash, CycleOver, TypeOK, PollerTypeOK
  <2> QED BY <2>1, <2>2, <2>3, InboxAssumption DEF TypeOK
<1>7. CASE UNCHANGED vars
  BY <1>7 DEF vars, TypeOK, MergeTypeOK, PollerTypeOK, mergeVars, pollerVars, cycleVars,
              Arrived
<1> QED BY <1>1, <1>2, <1>3, <1>4, <1>5, <1>6, <1>7 DEF Next

(* The pipeline's state stays well typed.                                  *)
THEOREM TypeCorrect == Spec => []TypeOK
  BY InitTypeOK, NextTypeOK, PTL DEF Spec
-----------------------------------------------------------------------------
(* The dedup table.                                                        *)
LEMMA MergeInvInit == Init => MergeInv
  BY MergeAssumption DEF Init, MergeInit, MergeInv, NoSweep

LEMMA MergeInvStep ==
    ASSUME TypeOK, MergeInv, [Next]_vars
    PROVE  /\ MergeInv'
           /\ \A id \in Msgs : held = 0 /\ held' = id /\ forwardedAt[id] # 0 =>
                                 clock - forwardedAt[id] > TTL
<1> USE DEF MergeInv
<1>1. /\ clock \in Nat /\ TTL \in Nat \ {0} /\ cutoff \in Int
      /\ DOMAIN seen \subseteq Msgs /\ forwardedAt \in [Msgs -> Nat] /\ 0 \notin Msgs
      /\ ch \in Seq(Msgs)
  BY MergeAssumption DEF TypeOK, MergeTypeOK, Msgs
<1>2. CASE World
  <2>1. clock' \in {clock, clock + 1} /\ UNCHANGED <<seen, held, cutoff, forwardedAt>>
    BY <1>2 DEF World, Tick, Arrive, mergeVars
  <2>2. ASSUME NEW id \in Msgs, forwardedAt[id] # 0, id \notin DOMAIN seen
        PROVE  clock' - forwardedAt[id] > TTL
    <3>1. forwardedAt[id] \in Nat /\ clock - forwardedAt[id] > TTL
      BY <1>1, <2>2
    <3> QED BY <1>1, <2>1, <3>1
  <2>3. cutoff + TTL <= clock'
    BY <1>1, <2>1
  <2> QED BY <1>1, <2>1, <2>2, <2>3
<1>3. CASE UNCHANGED <<clock, seen, held, cutoff, forwardedAt>>
  BY <1>1, <1>3
<1>4. CASE Accept /\ UNCHANGED clock
  <2>1. /\ held = 0 /\ Head(ch) \in Msgs /\ Head(ch) \notin DOMAIN seen
        /\ held' = Head(ch)
        /\ DOMAIN seen' = DOMAIN seen \cup {Head(ch)}
        /\ seen'[Head(ch)] = clock
        /\ \A x \in DOMAIN seen : seen'[x] = seen[x]
        /\ forwardedAt' = [forwardedAt EXCEPT ![Head(ch)] = clock]
        /\ UNCHANGED cutoff
    BY <1>1, <1>4 DEF Accept, Receive, Remember
  <2> DEFINE new == Head(ch)
  <2>2. \A x \in Msgs : forwardedAt'[x] = IF x = new THEN clock ELSE forwardedAt[x]
    BY <1>1, <2>1
  <2> HIDE DEF new
  <2>3. \A x \in DOMAIN seen' : seen'[x] = forwardedAt'[x]
    BY <1>1, <2>1, <2>2 DEF new
  <2>4. \A x \in Msgs : forwardedAt'[x] # 0 /\ x \notin DOMAIN seen' =>
            clock - forwardedAt'[x] > TTL
    BY <2>1, <2>2 DEF new
  <2>5. forwardedAt[new] # 0 => clock - forwardedAt[new] > TTL
    BY <2>1 DEF new
  <2>6. cutoff' + TTL <= clock'
    BY <1>4, <2>1
  <2> QED BY <1>4, <2>1, <2>3, <2>4, <2>5, <2>6 DEF new
<1>5. CASE Forward /\ UNCHANGED clock
  BY <1>1, <1>5 DEF Forward
<1>6. CASE SweepBegin /\ UNCHANGED clock
  BY <1>1, <1>6 DEF SweepBegin
<1>7. CASE Forget /\ UNCHANGED clock
  <2>1. PICK id \in DOMAIN seen : /\ Old(id)
                                 /\ seen' = [x \in DOMAIN seen \ {id} |-> seen[x]]
    BY <1>7 DEF Forget
  <2>2. forwardedAt[id] < clock - TTL /\ forwardedAt[id] \in Nat
    BY <1>1, <2>1 DEF Old, TypeOK, MergeTypeOK
  <2>3. clock - forwardedAt[id] > TTL
    BY <1>1, <2>2
  <2> QED BY <1>1, <1>7, <2>1, <2>3 DEF Forget
<1>8. CASE SweepEnd /\ UNCHANGED clock
  BY <1>1, <1>8 DEF SweepEnd, NoSweep
<1>9. CASE Crash
  BY <1>1, <1>9 DEF Crash, NoSweep
<1>10. CASE Merging
  BY <1>3, <1>4, <1>5, <1>6, <1>7, <1>8, <1>10
     DEF Merging, MergeNext, SkipDuplicate, mergeVars
<1>11. CASE Polling \/ Webhook \/ Consume \/ UNCHANGED vars
  BY <1>3, <1>11 DEF Polling, PollerNext, Webhook, Consume, vars, mergeVars
<1> QED BY <1>2, <1>9, <1>10, <1>11 DEF Next

(* An id the merger accepted is not accepted again by the same process     *)
(* before more than TTL has passed.                                        *)
THEOREM NoRepeatWithinTTL == Spec => NoEarlyRepeat
<1>1. TypeOK /\ MergeInv /\ [Next]_vars => MergeInv'
  BY MergeInvStep
<1>2. TypeOK /\ MergeInv /\ [Next]_vars =>
        [\A id \in Msgs : held = 0 /\ held' = id /\ forwardedAt[id] # 0 =>
              clock - forwardedAt[id] > TTL]_vars
  BY MergeInvStep
<1> QED BY <1>1, <1>2, MergeInvInit, TypeCorrect, PTL DEF Spec, NoEarlyRepeat
-----------------------------------------------------------------------------
(* The cursor.                                                             *)

(* A page serves the oldest of the list: what it leaves comes later.       *)
LEMMA OldestFirst ==
    ASSUME NEW n \in Nat, NEW list \in SUBSET Nat, IsFiniteSet(list),
           NEW i \in Oldest(n, list), NEW j \in list \ Oldest(n, list)
    PROVE  i < j
<1> SUFFICES ASSUME j <= i
             PROVE  FALSE
  BY DEF Oldest
<1> DEFINE below(k) == {m \in list : m < k}
<1>1. below(j) \subseteq below(i) /\ IsFiniteSet(below(i)) /\ IsFiniteSet(below(j))
  <2>1. below(j) \subseteq below(i)
    <3>1. i \in Nat /\ j \in Nat
      BY DEF Oldest
    <3>2. ASSUME NEW m \in list, m < j
          PROVE  m < i
      <4>1. m \in Nat
        OBVIOUS
      <4> QED BY <3>1, <3>2, <4>1
    <3> QED BY <3>2
  <2>2. below(i) \subseteq list /\ below(j) \subseteq list
    OBVIOUS
  <2> QED BY <2>1, <2>2, FS_Subset
<1>2. Cardinality(below(j)) <= Cardinality(below(i))
  BY <1>1, FS_Subset
<1>3. Cardinality(below(i)) \in Nat /\ Cardinality(below(j)) \in Nat
  BY <1>1, FS_CardinalityType
<1>4. Cardinality(below(i)) < n /\ ~(Cardinality(below(j)) < n)
  BY DEF Oldest
<1> HIDE DEF below
<1> QED BY <1>2, <1>3, <1>4

LEMMA PageFirst ==
    ASSUME TypeOK, ListPage,
           NEW i \in batch', NEW j \in Listing(lastPoll, after) \ batch'
    PROVE  i < j
<1> DEFINE list == Listing(lastPoll, after)
<1>1. list \subseteq 1 .. Len(stamp) /\ Len(stamp) \in Nat
  BY ListFacts DEF Listing, Arrived
<1>2. IsFiniteSet(list) /\ list \in SUBSET Nat
  <2>1. IsFiniteSet(1 .. Len(stamp))
    BY <1>1, FS_Interval
  <2> HIDE DEF list
  <2>2. IsFiniteSet(list)
    BY <1>1, <2>1, FS_Subset
  <2> QED BY <1>1, <2>2
<1>3. batch' = Oldest(PageSize, list)
  BY DEF ListPage
<1> HIDE DEF list
<1>4. i < j
  BY <1>2, <1>3, OldestFirst, PollerAssumption DEF list
<1> QED BY <1>4

LEMMA PollInvInit == Init => PollInv
  BY InboxAssumption
     DEF Init, PollerInit, PollInv, StampInv, CycleInv, CursorInv, OnlyTiesPassedOver,
         LostOnly, Passed, Tied, Behind, Arrived, Unreadable

(* Nothing the invariant reads has changed.                                *)
LEMMA PollInvStutter ==
    ASSUME PollInv,
           UNCHANGED <<clock, stamp, pc, lastPoll, file, after, batch, next, newest,
                       polled, floor>>
    PROVE  PollInv'
  BY DEF PollInv, StampInv, CycleInv, CursorInv, OnlyTiesPassedOver, LostOnly, Passed, Tied, Behind,
         Done, Arrived

LEMMA PollInvTick ==
    ASSUME TypeOK, PollInv, World, Tick
    PROVE  PollInv'
<1>1. /\ clock \in Nat /\ clock' = clock + 1 /\ Arrived' = Arrived
      /\ \A i \in Arrived : stamp[i] \in Nat
      /\ UNCHANGED <<stamp, pc, lastPoll, file, after, batch, next, newest, polled, floor>>
      /\ lastPoll \in Nat /\ file \in Nat \cup {Unreadable}
  BY ListFacts DEF World, Tick, TypeOK, PollerTypeOK, pollerVars, cycleVars, Arrived
<1>2. StampInv'
  BY <1>1 DEF PollInv, StampInv
<1>3. CycleInv'
  BY <1>1 DEF PollInv, CycleInv, Done
<1>4. CursorInv'
  BY <1>1 DEF PollInv, CursorInv, OnlyTiesPassedOver, LostOnly, Passed, Tied, Behind, Unreadable
<1> QED BY <1>2, <1>3, <1>4 DEF PollInv

LEMMA PollInvArrive ==
    ASSUME TypeOK, PollInv, World, Arrive
    PROVE  PollInv'
<1>1. /\ clock \in Nat /\ Len(stamp) \in Nat /\ Len(stamp') = Len(stamp) + 1
      /\ \A i \in Arrived : /\ i \in Nat /\ i <= Len(stamp) /\ stamp[i] \in Nat
                            /\ stamp'[i] = stamp[i] /\ stamp[i] <= clock
      /\ UNCHANGED <<clock, pc, lastPoll, file, after, batch, next, newest, polled, floor>>
      /\ lastPoll \in Nat /\ file \in Nat \cup {Unreadable}
  <2>1. /\ UNCHANGED <<clock, pc, lastPoll, file, after, batch, next, newest, polled, floor>>
        /\ lastPoll \in Nat /\ file \in Nat \cup {Unreadable}
    BY DEF World, Arrive, TypeOK, PollerTypeOK, pollerVars, cycleVars
  <2>2. \A i \in Arrived : i \in Nat /\ i <= Len(stamp) /\ stamp[i] <= clock
    BY ListFacts DEF Arrived, PollInv, StampInv
  <2> QED BY <2>1, <2>2, ListFacts, ArriveFacts
<1>0. PICK new \in Nat \ {0} : new = Len(stamp) + 1
  BY <1>1
<1>2. /\ Arrived' = Arrived \cup {new} /\ new \notin Arrived
      /\ stamp'[new] = clock /\ \A i \in Arrived : i < new
  BY <1>1, <1>0, ArriveFacts DEF Arrived
<1>3. StampInv'
  <2>1. ASSUME NEW i \in Arrived', NEW j \in Arrived', i < j
        PROVE  stamp'[i] <= stamp'[j]
    <3>1. i \in Arrived
      BY <1>1, <1>2, <2>1
    <3>2. CASE j \in Arrived
      BY <1>1, <2>1, <3>1, <3>2 DEF PollInv, StampInv
    <3>3. CASE j = new
      BY <1>1, <1>2, <3>1, <3>3
    <3> QED BY <1>2, <3>2, <3>3
  <2>2. ASSUME NEW i \in Arrived'
        PROVE  stamp'[i] <= clock'
    BY <1>1, <1>2
  <2> QED BY <2>1, <2>2 DEF StampInv
<1> DEFINE NewDone(m) ==
               \A i \in Arrived' \cap Supported : i <= m /\ stamp'[i] >= lastPoll => i \in polled
<1>4. ASSUME NEW m \in {0} \cup Arrived, Done(m)
      PROVE  NewDone(m)
  <2> SUFFICES ASSUME NEW i \in Arrived' \cap Supported, i <= m, stamp'[i] >= lastPoll
               PROVE  i \in polled
    OBVIOUS
  <2>1. i \in Arrived
    <3>1. m < new
      BY <1>1, <1>2
    <3>2. m \in Nat /\ i \in Nat
      BY <1>1, <1>2
    <3>3. i < new
      BY <1>2, <3>1, <3>2
    <3> QED BY <1>2, <3>3
  <2> QED BY <1>1, <1>4, <2>1 DEF Done
<1>5. CycleInv'
  <2>1. CycleInv
    BY DEF PollInv
  <2>2. /\ after = 0 \/ (after \in Arrived /\ NewDone(after))
        /\ next = 0 \/ (next \in Arrived /\ (next \in batch \/ NewDone(next)))
        /\ newest = 0 \/ \E m \in Arrived : stamp'[m] = newest /\ NewDone(m)
    <3> HIDE DEF NewDone
    <3> QED BY <1>1, <1>4, <2>1 DEF CycleInv
  <2>3. \A j \in batch : j \in Nat /\ j < new
    BY <1>1, <1>2, <2>1 DEF CycleInv
  <2>4. ASSUME NEW i \in Arrived' \cap Supported, stamp'[i] >= lastPoll, i \notin batch,
               NEW j \in batch, i < j
        PROVE  i \in polled
    <3>1. i \in Arrived
      BY <1>2, <2>3, <2>4
    <3> QED BY <1>1, <2>1, <2>4, <3>1 DEF CycleInv
  <2> QED BY <1>1, <1>2, <2>1, <2>2, <2>4 DEF CycleInv, Done
<1>6. ASSUME NEW cursor \in Nat, Behind(cursor), LostOnly(cursor)
      PROVE  Behind(cursor)' /\ LostOnly(cursor)'
  <2>1. Behind(cursor)'
    BY <1>1, <1>2, <1>6 DEF Behind
  <2>2. ASSUME NEW i \in Arrived, i \in Passed(cursor)'
        PROVE  i \in polled' \/ Tied(i)'
    BY <1>1, <1>2, <1>6, <2>2 DEF LostOnly, Passed, Tied
  <2>3. ASSUME new \in Passed(cursor)'
        PROVE  Tied(new)'
    <3>1. clock < cursor
      BY <1>1, <1>2, <2>3 DEF Passed
    <3>2. PICK i \in Arrived : cursor <= stamp[i] + 1
      BY <1>1, <1>6, <3>1 DEF Behind
    <3>3. stamp[i] = clock
      BY <1>1, <3>1, <3>2
    <3> QED BY <1>1, <1>2, <3>3 DEF Tied
  <2> QED BY <1>2, <2>1, <2>2, <2>3 DEF LostOnly, Passed
<1>7. CursorInv'
  <2>1. Behind(lastPoll)' /\ LostOnly(lastPoll)'
    BY <1>1, <1>6 DEF PollInv, CursorInv, OnlyTiesPassedOver, Behind, LostOnly, Passed
  <2>2. file # Unreadable => Behind(file)' /\ LostOnly(file)'
    BY <1>1, <1>6 DEF PollInv, CursorInv, OnlyTiesPassedOver, Behind, LostOnly, Passed
  <2> QED BY <1>1, <2>1, <2>2 DEF CursorInv, OnlyTiesPassedOver
<1> QED BY <1>3, <1>5, <1>7 DEF PollInv

LEMMA PollInvCrash ==
    ASSUME TypeOK, PollInv, Crash
    PROVE  PollInv'
<1>1. /\ lastPoll' = 0 /\ newest' = 0 /\ CycleOver /\ Arrived' = Arrived
      /\ UNCHANGED <<clock, stamp, file, polled, floor>>
  BY DEF Crash, Arrived
<1>2. /\ clock \in Nat /\ \A i \in Arrived : stamp[i] \in Nat
      /\ file \in Nat \cup {Unreadable}
  BY ListFacts DEF TypeOK, PollerTypeOK
<1>3. StampInv' /\ CycleInv'
  BY <1>1 DEF PollInv, StampInv, CycleInv, CycleOver
<1>4. CursorInv'
  BY <1>1, <1>2 DEF PollInv, CursorInv, OnlyTiesPassedOver, LostOnly, Passed, Tied, Behind, Unreadable
<1> QED BY <1>3, <1>4 DEF PollInv

(* The poller's own steps: the list does not change under them.            *)
LEMMA PollFacts ==
    ASSUME TypeOK, PollInv, PollerNext
    PROVE  /\ clock \in Nat /\ lastPoll \in Nat /\ floor \in Nat /\ newest \in Nat
           /\ file \in Nat \cup {Unreadable}
           /\ clock' = clock /\ stamp' = stamp /\ Arrived' = Arrived
           /\ \A i \in Arrived : i \in Nat \ {0} /\ stamp[i] \in Nat
           /\ StampInv'
  BY ListFacts DEF TypeOK, PollerTypeOK, PollerNext, PollInv, StampInv, Arrived

LEMMA PollInvStart ==
    ASSUME TypeOK, PollInv, PollerNext, Resume \/ StartAfresh
    PROVE  PollInv'
<1>1. /\ after' = 0 /\ next' = 0 /\ batch' = {} /\ newest' = 0
      /\ polled' = polled
  BY DEF PollInv, CycleInv, Resume, StartAfresh, cycleVars
<1>2. CycleInv'
  BY <1>1, PollFacts DEF CycleInv
<1>3. CASE Resume
  <2>1. lastPoll' = file /\ file' = file /\ file # Unreadable /\ floor' = floor
    BY <1>3 DEF Resume
  <2>2. CursorInv'
    BY <1>1, <2>1, PollFacts
       DEF PollInv, CursorInv, OnlyTiesPassedOver, LostOnly, Passed, Tied, Behind
  <2> QED BY <1>2, <2>2, PollFacts DEF PollInv
<1>4. CASE StartAfresh
  <2>1. lastPoll' = clock /\ floor' = clock /\ file' \in {clock, Unreadable}
    BY <1>4 DEF StartAfresh, SaveState
  <2>2. \A i \in Arrived : ~(clock <= stamp[i] /\ stamp[i] < clock)
    BY PollFacts
  <2>3. CursorInv'
    BY <1>1, <2>1, <2>2, PollFacts
       DEF CursorInv, OnlyTiesPassedOver, LostOnly, Passed, Tied, Behind
  <2> QED BY <1>2, <2>3, PollFacts DEF PollInv
<1> QED BY <1>3, <1>4

LEMMA PollInvList ==
    ASSUME TypeOK, PollInv, PollerNext, ListPage
    PROVE  PollInv'
<1>1. /\ UNCHANGED <<lastPoll, file, after, newest, polled, floor>> /\ pc' = "page"
      /\ batch' \subseteq Listing(lastPoll, after)
      /\ next' \in {0, after} \cup batch'
  BY PageType DEF ListPage
<1>2. CycleInv /\ CursorInv
  BY DEF PollInv
<1>3. \A m : Done(m)' <=> Done(m)
  BY <1>1, PollFacts DEF Done
<1>4. ASSUME NEW i \in Arrived \cap Supported, stamp[i] >= lastPoll, i \notin batch',
             NEW j \in batch', i < j
      PROVE  i \in polled
  <2>1. i \notin Listing(lastPoll, after)
    <3> SUFFICES ASSUME i \in Listing(lastPoll, after)
                 PROVE  FALSE
      OBVIOUS
    <3>1. j < i
      BY <1>4, PageFirst
    <3>2. i \in Nat /\ j \in Nat
      BY <1>1, PollFacts DEF Listing
    <3> QED BY <1>4, <3>1, <3>2
  <2>2. i <= after /\ after # 0
    <3>1. ~(i > after) /\ i \in Nat \ {0} /\ after \in Nat
      BY <1>2, <1>4, <2>1, PollFacts DEF Listing, CycleInv
    <3> QED BY <3>1
  <2> QED BY <1>2, <1>4, <2>2 DEF CycleInv, Done
<1>5. CycleInv'
  <2>1. batch' \subseteq Arrived
    BY <1>1 DEF Listing
  <2>2. after' = 0 \/ (after' \in Arrived /\ Done(after)')
    BY <1>1, <1>2, PollFacts DEF CycleInv, Done
  <2>3. next' = 0 \/ (next' \in Arrived /\ (next' \in batch' \/ Done(next)'))
    BY <1>1, <1>2, <2>1, PollFacts DEF CycleInv, Done
  <2>4. newest' = 0 \/ \E m \in Arrived : stamp[m] = newest /\ Done(m)'
    BY <1>1, <1>2, PollFacts DEF CycleInv, Done
  <2> QED BY <1>1, <1>4, <2>1, <2>2, <2>3, <2>4, PollFacts DEF CycleInv
<1>6. CursorInv'
  BY <1>1, <1>2, PollFacts DEF CursorInv, OnlyTiesPassedOver, LostOnly, Passed, Tied, Behind
<1> QED BY <1>5, <1>6, PollFacts DEF PollInv

(* Message i, the first unread one of the page, is dealt with.             *)
LEMMA PollInvRead ==
    ASSUME TypeOK, PollInv, PollerNext, pc = "page", pc' = "page",
           NEW i \in batch, First(i), Latest(stamp[i]), batch' = batch \ {i},
           polled \subseteq polled', i \in Supported => i \in polled',
           UNCHANGED <<lastPoll, file, after, next, floor>>
    PROVE  PollInv'
<1>1. CycleInv /\ CursorInv /\ i \in Arrived
  BY DEF PollInv, CycleInv
<1> DEFINE NewDone(m) ==
               \A k \in Arrived \cap Supported : k <= m /\ stamp[k] >= lastPoll => k \in polled'
<1>2. \A m : Done(m) => NewDone(m)
  BY DEF Done
<1>3. NewDone(i)
  <2> SUFFICES ASSUME NEW k \in Arrived \cap Supported, k <= i, stamp[k] >= lastPoll
               PROVE  k \in polled'
    OBVIOUS
  <2>1. CASE k = i
    BY <2>1
  <2>2. CASE k # i
    <3>1. k < i /\ k \notin batch
      BY <2>2, <1>1, PollFacts DEF First
    <3> QED BY <1>1, <3>1 DEF CycleInv
  <2> QED BY <2>1, <2>2
<1>4. newest' \in {newest, stamp[i]}
  BY DEF Latest
<1>5. CycleInv'
  <2> HIDE DEF NewDone
  <2>1. after = 0 \/ (after \in Arrived /\ NewDone(after))
    BY <1>1, <1>2 DEF CycleInv
  <2>2. next = 0 \/ (next \in Arrived /\ (next \in batch' \/ NewDone(next)))
    BY <1>1, <1>2, <1>3 DEF CycleInv
  <2>3. newest' = 0 \/ \E m \in Arrived : stamp[m] = newest' /\ NewDone(m)
    BY <1>1, <1>2, <1>3, <1>4 DEF CycleInv
  <2>4. batch' \subseteq Arrived
    BY <1>1 DEF CycleInv
  <2>5. ASSUME NEW k \in Arrived \cap Supported, stamp[k] >= lastPoll, k \notin batch',
               NEW j \in batch', k < j
        PROVE  k \in polled'
    BY <1>1, <2>5 DEF CycleInv
  <2> USE DEF NewDone
  <2> QED BY <2>1, <2>2, <2>3, <2>4, <2>5, PollFacts DEF CycleInv, Done
<1>6. CursorInv'
  BY <1>1, PollFacts DEF CursorInv, OnlyTiesPassedOver, LostOnly, Passed, Tied, Behind
<1> QED BY <1>5, <1>6, PollFacts DEF PollInv

LEMMA PollInvAdvance ==
    ASSUME TypeOK, PollInv, PollerNext, Advance
    PROVE  PollInv'
<1>1. /\ newest # 0 /\ lastPoll' = newest + 1 /\ file' \in {newest + 1, file, Unreadable}
      /\ newest' = 0 /\ pc' = "idle"
      /\ UNCHANGED <<polled, floor>>
      /\ after' = 0 /\ next' = 0 /\ batch' = {}
  BY DEF Advance, SaveState, cycleVars, PollInv, CycleInv
<1>2. CycleInv /\ CursorInv /\ StampInv
  BY DEF PollInv
<1>3. PICK m \in Arrived : stamp[m] = newest /\ Done(m)
  BY <1>1, <1>2 DEF CycleInv
<1>4. ASSUME NEW i \in Arrived \cap Supported, floor <= stamp[i], stamp[i] < newest + 1
      PROVE  i \in polled \/ Tied(i)
  <2>1. CASE stamp[i] < lastPoll
    BY <1>2, <1>4, <2>1 DEF CursorInv, OnlyTiesPassedOver, LostOnly, Passed, Tied
  <2>2. CASE stamp[i] >= lastPoll
    <3>1. stamp[i] <= stamp[m]
      BY <1>3, <1>4, PollFacts
    <3>2. CASE i <= m
      BY <1>3, <2>2, <3>2 DEF Done
    <3>3. CASE m < i
      BY <1>2, <3>1, <3>3, PollFacts DEF StampInv, Tied
    <3> QED BY <3>2, <3>3, PollFacts
  <2> QED BY <2>1, <2>2, PollFacts
<1>5. CycleInv'
  BY <1>1, PollFacts DEF CycleInv
<1>6. OnlyTiesPassedOver'
  BY <1>1, <1>2, <1>4, PollFacts DEF CursorInv, OnlyTiesPassedOver, LostOnly, Passed, Tied
<1>7. Behind(lastPoll)' /\ (file # Unreadable => Behind(file))'
  BY <1>1, <1>2, <1>3, PollFacts DEF CursorInv, Behind
<1> QED BY <1>5, <1>6, <1>7, PollFacts DEF PollInv, CursorInv

(* The steps that only move the cycle along.                               *)
LEMMA PollInvMove ==
    ASSUME TypeOK, PollInv, PollerNext,
           BeginCycle \/ ListFails \/ NextPage \/ EndOfPages \/ NothingNew
    PROVE  PollInv'
<1>1. CycleInv /\ CursorInv
  BY DEF PollInv
<1>2. UNCHANGED <<lastPoll, file, polled, floor>>
  BY DEF BeginCycle, ListFails, NextPage, EndOfPages, NothingNew
<1>3. CursorInv'
  BY <1>1, <1>2, PollFacts DEF CursorInv, OnlyTiesPassedOver, LostOnly, Passed, Tied, Behind
<1>4. \A m : Done(m)' <=> Done(m)
  BY <1>2, PollFacts DEF Done
<1>5. newest' \in {0, newest}
  BY DEF BeginCycle, ListFails, NextPage, EndOfPages, NothingNew
<1>6. newest' = 0 \/ \E m \in Arrived : stamp[m] = newest' /\ Done(m)'
  BY <1>1, <1>2, <1>5, PollFacts DEF CycleInv, Done
<1>7. CASE BeginCycle \/ NothingNew
  <2>1. pc' \in {"list", "idle"} /\ after' = 0 /\ next' = 0 /\ batch' = {}
    BY <1>1, <1>7 DEF BeginCycle, NothingNew, CycleInv, cycleVars
  <2> QED BY <1>3, <1>6, <2>1, PollFacts DEF CycleInv, PollInv
<1>8. CASE ListFails \/ EndOfPages
  <2>1. pc' \in {"finish", "idle"} /\ after' = 0 /\ next' = 0 /\ batch' = {}
    BY <1>8 DEF ListFails, EndOfPages, CycleOver
  <2> QED BY <1>3, <1>6, <2>1, PollFacts DEF CycleInv, PollInv
<1>9. CASE NextPage
  <2>1. /\ pc' = "list" /\ after' = next /\ next' = 0 /\ batch' = {} /\ batch = {}
    BY <1>9 DEF NextPage
  <2>2. after' = 0 \/ (after' \in Arrived /\ Done(next))
    BY <1>1, <2>1 DEF CycleInv
  <2>3. after' = 0 \/ (after' \in Arrived' /\ Done(after)')
    BY <1>2, <2>1, <2>2, PollFacts DEF Done
  <2> QED BY <1>3, <1>6, <2>1, <2>3, PollFacts DEF CycleInv, PollInv
<1> QED BY <1>7, <1>8, <1>9

LEMMA PollInvPoller ==
    ASSUME TypeOK, PollInv, PollerNext
    PROVE  PollInv'
<1>1. CASE EmitMessage
  <2>1. PICK i \in batch \cap Supported : /\ First(i) /\ Latest(stamp[i])
                                          /\ polled' = polled \cup {i}
                                          /\ batch' = batch \ {i}
    BY <1>1 DEF EmitMessage
  <2>2. /\ pc = "page" /\ pc' = "page" /\ polled \subseteq polled' /\ i \in polled'
        /\ UNCHANGED <<lastPoll, file, after, next, floor>>
    BY <1>1, <2>1 DEF EmitMessage
  <2> QED BY <2>1, <2>2, PollInvRead
<1>2. CASE SkipMessage
  <2>1. PICK i \in batch \ Supported : /\ First(i) /\ Latest(stamp[i])
                                        /\ batch' = batch \ {i}
    BY <1>2 DEF SkipMessage
  <2>2. /\ pc = "page" /\ pc' = "page" /\ polled \subseteq polled'
        /\ UNCHANGED <<lastPoll, file, after, next, floor>>
    BY <1>2 DEF SkipMessage
  <2> QED BY <2>1, <2>2, PollInvRead
<1> QED
  BY <1>1, <1>2, PollInvStart, PollInvList, PollInvMove, PollInvAdvance DEF PollerNext

LEMMA PollInvStep ==
    ASSUME TypeOK, PollInv, [Next]_vars
    PROVE  PollInv'
<1>1. CASE World
  BY <1>1, PollInvTick, PollInvArrive DEF World
<1>2. CASE Polling
  BY <1>2, PollInvPoller DEF Polling
<1>3. CASE Merging \/ Webhook \/ Consume \/ UNCHANGED vars
  BY <1>3, PollInvStutter
     DEF Merging, MergeNext, Webhook, Consume, vars, pollerVars, cycleVars
<1>4. CASE Crash
  BY <1>4, PollInvCrash
<1> QED BY <1>1, <1>2, <1>3, <1>4 DEF Next

(* The cursor never passes a supported message that was not put on the     *)
(* channel, whatever fails or restarts, unless an earlier message bears    *)
(* the same second.                                                        *)
THEOREM NoMessagePassedOver == Spec => []OnlyTiesPassedOver
<1>1. Init => PollInv
  BY PollInvInit
<1>2. TypeOK /\ PollInv /\ [Next]_vars => PollInv'
  BY PollInvStep
<1>3. PollInv => OnlyTiesPassedOver
  BY DEF PollInv, CursorInv
<1> QED BY <1>1, <1>2, <1>3, TypeCorrect, PTL DEF Spec
-----------------------------------------------------------------------------
(* Order.  From the poller's list to the bridge a message passes the       *)
(* sources' channel, the merger's hands and the events channel: every      *)
(* message due before it is further on its way, up to its own place.       *)
Entries(s) == {s[p] : p \in 1 .. Len(s)}

Forwarded == delivered \cup Entries(events)

Accepted == Forwarded \cup ({held} \ {0})

(* All that is due before message i is in S.                               *)
Follows(i, S) == \A j \in Supported : Due(j) /\ j < i => j \in S

Queued(s, S) == \A p \in 1 .. Len(s) : Follows(s[p], S \cup {s[q] : q \in 1 .. p - 1})

OrderInv ==
    /\ \A i \in delivered : Follows(i, delivered)
    /\ Queued(events, delivered)
    /\ held # 0 => Follows(held, Forwarded)
    /\ Queued(ch, Accepted)

(* What the poller has sent is not dropped unless it is ahead already.     *)
KeptInv ==
    /\ polled \subseteq Accepted \cup Entries(ch)
    /\ DOMAIN seen \subseteq Accepted

(* Without a webhook nothing is on its way before the poller has started.  *)
QuietInv ==
    /\ Accepted \cup Entries(ch) \subseteq Arrived
    /\ pc = "start" => Accepted \cup Entries(ch) = {}

PipeInv == crashes = 0 => /\ KeptInv
                          /\ ~WebhookOn => OrderInv /\ QuietInv

LEMMA FollowsMore ==
    ASSUME NEW i, NEW S, NEW T, S \subseteq T, Follows(i, S)
    PROVE  Follows(i, T)
  BY DEF Follows

LEMMA QueuedMore ==
    ASSUME NEW s, NEW S, NEW T, S \subseteq T, Queued(s, S)
    PROVE  Queued(s, T)
<1> SUFFICES ASSUME NEW p \in 1 .. Len(s)
             PROVE  Follows(s[p], T \cup {s[q] : q \in 1 .. p - 1})
  BY DEF Queued
<1>1. Follows(s[p], S \cup {s[q] : q \in 1 .. p - 1})
  BY DEF Queued
<1> QED BY <1>1, FollowsMore

LEMMA HeadFacts ==
    ASSUME NEW s \in Seq(Msgs), s # <<>>
    PROVE  /\ Len(s) \in Nat /\ 1 \in 1 .. Len(s) /\ Head(s) = s[1]
           /\ Len(Tail(s)) = Len(s) - 1
           /\ \A p \in 1 .. Len(Tail(s)) : p + 1 \in 1 .. Len(s) /\ Tail(s)[p] = s[p + 1]
  OBVIOUS

(* Taking from a queue: the head is due first, and then behind the rest.   *)
LEMMA QueuedHead ==
    ASSUME NEW s \in Seq(Msgs), s # <<>>, NEW S, NEW T, S \cup {Head(s)} \subseteq T,
           Queued(s, S)
    PROVE  Follows(Head(s), S) /\ Queued(Tail(s), T)
<1>1. Follows(Head(s), S)
  <2>1. Follows(s[1], S \cup {s[q] : q \in 1 .. 1 - 1})
    BY HeadFacts DEF Queued
  <2>2. S \cup {s[q] : q \in 1 .. 1 - 1} = S
    OBVIOUS
  <2> QED BY <2>1, <2>2, HeadFacts
<1>2. ASSUME NEW p \in 1 .. Len(Tail(s))
      PROVE  Follows(Tail(s)[p], T \cup {Tail(s)[q] : q \in 1 .. p - 1})
  <2>1. p \in Nat /\ p + 1 \in 1 .. Len(s) /\ Tail(s)[p] = s[p + 1]
    BY HeadFacts
  <2>2. Follows(s[p + 1], S \cup {s[q] : q \in 1 .. (p + 1) - 1})
    BY <2>1 DEF Queued
  <2>3. ASSUME NEW q \in 1 .. (p + 1) - 1
        PROVE  s[q] \in T \cup {Tail(s)[r] : r \in 1 .. p - 1}
    <3>1. CASE q = 1
      BY <3>1, HeadFacts
    <3>2. CASE q # 1
      <4>1. q - 1 \in 1 .. p - 1 /\ q - 1 \in 1 .. Len(Tail(s)) /\ (q - 1) + 1 = q
        BY <2>1, <3>2
      <4>2. s[q] = Tail(s)[q - 1]
        BY <4>1, HeadFacts
      <4> QED BY <4>1, <4>2
    <3> QED BY <3>1, <3>2
  <2>4. S \cup {s[q] : q \in 1 .. (p + 1) - 1}
           \subseteq T \cup {Tail(s)[q] : q \in 1 .. p - 1}
    BY <2>3
  <2> QED BY <2>1, <2>2, <2>4, FollowsMore
<1> QED BY <1>1, <1>2 DEF Queued

LEMMA EntriesHead ==
    ASSUME NEW s \in Seq(Msgs), s # <<>>
    PROVE  Entries(s) = {Head(s)} \cup Entries(Tail(s))
<1>1. ASSUME NEW p \in 1 .. Len(s)
      PROVE  s[p] \in {Head(s)} \cup Entries(Tail(s))
  <2>1. CASE p = 1
    BY <2>1, HeadFacts
  <2>2. CASE p # 1
    <3>1. p - 1 \in 1 .. Len(Tail(s)) /\ (p - 1) + 1 = p
      BY <2>2, HeadFacts
    <3>2. s[p] = Tail(s)[p - 1]
      BY <3>1, HeadFacts
    <3> QED BY <3>1, <3>2 DEF Entries
  <2> QED BY <2>1, <2>2
<1>2. Head(s) \in Entries(s) /\ \A p \in 1 .. Len(Tail(s)) : Tail(s)[p] \in Entries(s)
  BY HeadFacts DEF Entries
<1> QED BY <1>1, <1>2 DEF Entries

(* Joining a queue.                                                        *)
LEMMA QueuedLast ==
    ASSUME NEW s \in Seq(Msgs), NEW x \in Msgs, NEW S, Queued(s, S),
           Follows(x, S \cup Entries(s))
    PROVE  Queued(Append(s, x), S)
<1> DEFINE longer == Append(s, x)
<1>1. /\ Len(s) \in Nat /\ Len(longer) = Len(s) + 1 /\ longer[Len(s) + 1] = x
      /\ \A p \in 1 .. Len(s) : longer[p] = s[p]
  OBVIOUS
<1> HIDE DEF longer
<1>2. ASSUME NEW p \in 1 .. Len(longer)
      PROVE  Follows(longer[p], S \cup {longer[q] : q \in 1 .. p - 1})
  <2>1. CASE p \in 1 .. Len(s)
    <3>1. Follows(s[p], S \cup {s[q] : q \in 1 .. p - 1})
      BY <2>1 DEF Queued
    <3>2. \A q \in 1 .. p - 1 : q \in 1 .. Len(s)
      BY <1>1, <2>1
    <3>3. S \cup {s[q] : q \in 1 .. p - 1} \subseteq S \cup {longer[q] : q \in 1 .. p - 1}
      BY <1>1, <3>2
    <3> QED BY <1>1, <2>1, <3>1, <3>3, FollowsMore
  <2>2. CASE p = Len(s) + 1
    <3>1. 1 .. p - 1 = 1 .. Len(s)
      BY <1>1, <2>2
    <3>2. S \cup Entries(s) \subseteq S \cup {longer[q] : q \in 1 .. p - 1}
      BY <1>1, <3>1 DEF Entries
    <3> QED BY <1>1, <2>2, <3>2, FollowsMore
  <2> QED BY <1>1, <2>1, <2>2
<1> QED BY <1>2 DEF Queued, longer

LEMMA EntriesLast ==
    ASSUME NEW s \in Seq(Msgs), NEW x \in Msgs
    PROVE  Entries(Append(s, x)) = Entries(s) \cup {x}
<1>1. /\ Len(s) + 1 \in 1 .. Len(Append(s, x)) /\ Append(s, x)[Len(s) + 1] = x
      /\ \A p \in 1 .. Len(s) : p \in 1 .. Len(Append(s, x)) /\ Append(s, x)[p] = s[p]
      /\ \A p \in 1 .. Len(Append(s, x)) :
            \/ p \in 1 .. Len(s) /\ Append(s, x)[p] = s[p]
            \/ Append(s, x)[p] = x
  OBVIOUS
<1> QED BY <1>1 DEF Entries

(* What is due stays due, and nothing that arrives later is due before.    *)
LEMMA FollowsKept ==
    ASSUME TypeOK, floor' = floor, stamp' = stamp \/ Arrive
    PROVE  /\ \A S : \A i \in Arrived : Follows(i, S) => Follows(i, S)'
           /\ \A s, S : Entries(s) \subseteq Arrived /\ Queued(s, S) => Queued(s, S)'
<1>1. ASSUME NEW i \in Arrived, NEW j \in Supported, Due(j)', j < i
      PROVE  Due(j)
  <2>1. CASE stamp' = stamp
    BY <1>1, <2>1 DEF Due, Tied, Arrived
  <2>2. CASE Arrive
    <3>1. /\ Len(stamp) \in Nat /\ Len(stamp') = Len(stamp) + 1
          /\ \A k \in Arrived : k \in Arrived' /\ stamp'[k] = stamp[k]
      BY <2>2, ArriveFacts, ListFacts
    <3>2. j \in Arrived
      BY <1>1, <3>1 DEF Due, Arrived
    <3> QED BY <1>1, <3>1, <3>2 DEF Due, Tied
  <2> QED BY <2>1, <2>2
<1>2. ASSUME NEW S, NEW i \in Arrived, Follows(i, S)
      PROVE  Follows(i, S)'
  BY <1>1, <1>2 DEF Follows
<1>3. ASSUME NEW s, NEW S, Entries(s) \subseteq Arrived, Queued(s, S)
      PROVE  Queued(s, S)'
  <2>1. \A p \in 1 .. Len(s) : s[p] \in Arrived
    BY <1>3 DEF Entries
  <2> QED BY <1>2, <1>3, <2>1 DEF Queued
<1> QED BY <1>2, <1>3

(* The pipeline's contents are messages.                                   *)
LEMMA PipeFacts ==
    ASSUME TypeOK
    PROVE  /\ ch \in Seq(Msgs) /\ events \in Seq(Msgs)
           /\ held \in {0} \cup Msgs /\ 0 \notin Msgs
  BY DEF TypeOK, MergeTypeOK, Msgs
-----------------------------------------------------------------------------
Live == TypeOK /\ PollInv /\ ~WebhookOn /\ crashes = 0
        /\ KeptInv /\ QuietInv /\ OrderInv

(* Steps that neither move a message nor change what is due.               *)
LEMMA PipeStill ==
    ASSUME Live, stamp' = stamp \/ Arrive,
           UNCHANGED <<ch, held, events, delivered, floor, polled>>,
           DOMAIN seen' \subseteq DOMAIN seen, pc' = "start" => pc = "start"
    PROVE  OrderInv' /\ QuietInv'
<1>1. Arrived \subseteq Arrived'
  <2>1. CASE stamp' = stamp
    BY <2>1 DEF Arrived
  <2>2. CASE Arrive
    BY <2>2, ArriveFacts DEF Live
  <2> QED BY <2>1, <2>2
<1>2. Accepted' = Accepted /\ Forwarded' = Forwarded
  BY DEF Accepted, Forwarded
<1>3. QuietInv'
  BY <1>1, <1>2 DEF Live, KeptInv, QuietInv
<1>4. /\ \A i \in delivered : i \in Arrived
      /\ Entries(events) \subseteq Arrived /\ Entries(ch) \subseteq Arrived
      /\ held # 0 => held \in Arrived
  BY DEF Live, KeptInv, QuietInv, Accepted, Forwarded
<1>5. /\ \A S : \A i \in Arrived : Follows(i, S) => Follows(i, S)'
      /\ \A s, S : Entries(s) \subseteq Arrived /\ Queued(s, S) => Queued(s, S)'
  BY FollowsKept DEF Live
<1>6. /\ \A i \in delivered : Follows(i, delivered)
      /\ Queued(events, delivered) /\ Queued(ch, Accepted)
      /\ held # 0 => Follows(held, Forwarded)
  BY DEF Live, OrderInv
<1>7. PICK e, c, d, a, f, m : /\ e = events /\ c = ch /\ d = delivered
                             /\ a = Accepted /\ f = Forwarded /\ m = held
  OBVIOUS
<1>8. /\ \A i \in d : Follows(i, d)'
      /\ Queued(e, d)' /\ Queued(c, a)'
      /\ m # 0 => Follows(m, f)'
  BY <1>4, <1>5, <1>6, <1>7
<1>9. OrderInv'
  BY <1>2, <1>7, <1>8 DEF OrderInv
<1> QED BY <1>3, <1>9

(* Before the poller starts nothing is on its way.                         *)
LEMMA PipeStart ==
    ASSUME Live, StartAfresh, stamp' = stamp,
           UNCHANGED <<seen, held, events, delivered>>
    PROVE  OrderInv' /\ QuietInv'
<1>1. pc = "start" /\ pc' = "idle" /\ ch' = ch /\ polled' = polled
  BY DEF StartAfresh
<1>2. Accepted = {} /\ Entries(ch) = {} /\ polled = {} /\ DOMAIN seen = {}
  BY <1>1 DEF Live, KeptInv, QuietInv
<1>3. delivered = {} /\ Entries(events) = {} /\ held = 0
  BY <1>2 DEF Accepted, Forwarded
<1>4. \A p \in 1 .. Len(ch) : FALSE
  BY <1>2 DEF Entries
<1>5. \A p \in 1 .. Len(events) : FALSE
  BY <1>3 DEF Entries
<1>6. OrderInv'
  BY <1>1, <1>3, <1>4, <1>5 DEF OrderInv, Queued
<1>7. Accepted' = {} /\ Entries(ch)' = {}
  BY <1>1, <1>2, <1>3 DEF Accepted, Forwarded
<1>8. QuietInv'
  BY <1>1, <1>2, <1>7 DEF QuietInv
<1> QED BY <1>6, <1>8

(* A message moves while the list and the floor stay.                      *)
LEMMA OrderMoved ==
    ASSUME stamp' = stamp, floor' = floor,
           NEW d, NEW e, NEW m, NEW c,
           delivered' = d, events' = e, held' = m, ch' = c,
           \A i \in d : Follows(i, d),
           Queued(e, d),
           m # 0 => Follows(m, d \cup Entries(e)),
           Queued(c, d \cup Entries(e) \cup ({m} \ {0}))
    PROVE  OrderInv'
<1>1. \A i, S : Follows(i, S) => Follows(i, S)'
  BY DEF Follows, Due, Tied, Arrived
<1>2. \A s, S : Queued(s, S) => Queued(s, S)'
  BY <1>1 DEF Queued
<1>3. Forwarded' = d \cup Entries(e) /\ Accepted' = d \cup Entries(e) \cup ({m} \ {0})
  BY DEF Forwarded, Accepted
<1>4. PICK f, a : f = d \cup Entries(e) /\ a = d \cup Entries(e) \cup ({m} \ {0})
  OBVIOUS
<1>5. /\ \A i \in d : Follows(i, d)'
      /\ Queued(e, d)' /\ Queued(c, a)'
      /\ m # 0 => Follows(m, f)'
  BY <1>1, <1>2, <1>4
<1> QED BY <1>3, <1>4, <1>5 DEF OrderInv

(* The poller sends the page's oldest message: what is due before it has   *)
(* been sent.                                                              *)
LEMMA PipeEmit ==
    ASSUME Live, EmitMessage, stamp' = stamp,
           UNCHANGED <<seen, held, events, delivered>>
    PROVE  OrderInv' /\ QuietInv'
<1>1. PICK i \in batch \cap Supported : /\ First(i) /\ ch' = Append(ch, i)
                                        /\ polled' = polled \cup {i}
  BY DEF EmitMessage, Put
<1>2. /\ floor' = floor /\ pc' = "page" /\ Arrived' = Arrived
      /\ batch \subseteq Arrived /\ i \in Msgs /\ i \in Nat
  BY <1>1, ListFacts DEF EmitMessage, Live, PollInv, CycleInv, Arrived
<1>3. ASSUME NEW j \in Supported, Due(j), j < i
      PROVE  j \in polled
  <2>1. /\ j \in Arrived /\ floor <= stamp[j] /\ ~Tied(j)
        /\ stamp[j] \in Nat /\ j \in Nat /\ lastPoll \in Nat /\ floor \in Nat
    BY <1>3, ListFacts DEF Due, Live, TypeOK, PollerTypeOK
  <2>2. j \notin batch
    BY <1>1, <1>2, <1>3, <2>1 DEF First
  <2>3. CASE stamp[j] >= lastPoll
    BY <1>1, <1>3, <2>1, <2>2, <2>3 DEF Live, PollInv, CycleInv
  <2>4. CASE stamp[j] < lastPoll
    BY <2>1, <2>4 DEF Live, PollInv, CursorInv, OnlyTiesPassedOver, LostOnly, Passed
  <2> QED BY <2>1, <2>3, <2>4
<1>4. Follows(i, Accepted \cup Entries(ch))
  BY <1>3 DEF Follows, Live, KeptInv, QuietInv
<1>5. Queued(Append(ch, i), Accepted)
  BY <1>2, <1>4, QueuedLast, PipeFacts DEF Live, OrderInv
<1>6. OrderInv'
  BY <1>1, <1>2, <1>5, OrderMoved DEF Live, OrderInv, Accepted, Forwarded
<1>7. Accepted' = Accepted /\ Entries(ch') = Entries(ch) \cup {i}
  BY <1>1, <1>2, EntriesLast, PipeFacts DEF Live, Accepted, Forwarded
<1>8. QuietInv'
  BY <1>1, <1>2, <1>7 DEF Live, KeptInv, QuietInv
<1> QED BY <1>6, <1>8

(* The merger takes the channel's head, and drops it if it has seen it.    *)
LEMMA PipeReceive ==
    ASSUME Live, SkipDuplicate \/ Accept, stamp' = stamp,
           UNCHANGED <<delivered, floor, polled, pc>>
    PROVE  OrderInv' /\ QuietInv'
<1> DEFINE id == Head(ch)
<1>1. /\ held = 0 /\ ch # <<>> /\ ch' = Tail(ch) /\ events' = events
      /\ Arrived' = Arrived
      /\ ch \in Seq(Msgs) /\ id # 0
  BY PipeFacts DEF SkipDuplicate, Accept, Receive, mergeVars, Arrived, Live
<1>2. Accepted = Forwarded
  BY <1>1 DEF Accepted
<1>3. /\ \A i \in delivered : Follows(i, delivered)
      /\ Queued(events, delivered) /\ Queued(ch, Forwarded)
  BY <1>2 DEF Live, OrderInv
<1>4. Entries(ch) = {id} \cup Entries(Tail(ch))
  BY <1>1, EntriesHead
<1>5. Forwarded' = Forwarded
  BY <1>1 DEF Forwarded
<1>6. CASE SkipDuplicate
  <2>1. held' = 0 /\ seen' = seen /\ id \in Forwarded
    BY <1>1, <1>2, <1>6 DEF SkipDuplicate, mergeVars, Live, KeptInv, QuietInv
  <2>2. Queued(Tail(ch), Forwarded)
    BY <1>1, <1>3, <2>1, QueuedHead
  <2>3. OrderInv'
    <3>1. delivered \cup Entries(events) \cup ({0} \ {0}) = Forwarded
      BY DEF Forwarded
    <3> QED BY <1>1, <1>3, <2>1, <2>2, <3>1, OrderMoved
  <2>4. Accepted' = Accepted
    BY <1>1, <1>5, <2>1 DEF Accepted
  <2>5. QuietInv'
    BY <1>1, <1>2, <1>4, <2>1, <2>4 DEF Live, KeptInv, QuietInv
  <2> QED BY <2>3, <2>5
<1>7. CASE Accept
  <2>1. held' = id /\ DOMAIN seen' = DOMAIN seen \cup {id}
    BY <1>7 DEF Accept, Remember
  <2>2. Follows(id, Forwarded) /\ Queued(Tail(ch), Forwarded \cup {id})
    BY <1>1, <1>3, QueuedHead
  <2>3. OrderInv'
    <3>1. /\ delivered \cup Entries(events) = Forwarded
          /\ delivered \cup Entries(events) \cup ({id} \ {0}) = Forwarded \cup {id}
      BY <1>1 DEF Forwarded
    <3> HIDE DEF id
    <3> QED BY <1>1, <1>3, <2>1, <2>2, <3>1, OrderMoved
  <2>4. Accepted' = Accepted \cup {id}
    BY <1>1, <1>2, <1>5, <2>1 DEF Accepted
  <2>5. QuietInv'
    <3> HIDE DEF id
    <3> QED BY <1>1, <1>4, <2>1, <2>4 DEF Live, KeptInv, QuietInv
  <2> QED BY <2>3, <2>5
<1> QED BY <1>6, <1>7

(* The merger passes the message it holds to the bridge's channel.         *)
LEMMA PipeForward ==
    ASSUME Live, Forward, stamp' = stamp,
           UNCHANGED <<delivered, floor, polled, pc>>
    PROVE  OrderInv' /\ QuietInv'
<1>1. /\ held # 0 /\ held \in Msgs /\ events' = Append(events, held) /\ held' = 0
      /\ ch' = ch /\ seen' = seen /\ Arrived' = Arrived /\ events \in Seq(Msgs)
  BY PipeFacts DEF Forward, Arrived, Live
<1>2. Entries(events') = Entries(events) \cup {held}
  BY <1>1, EntriesLast
<1>3. /\ \A i \in delivered : Follows(i, delivered)
      /\ Queued(events, delivered) /\ Queued(ch, Accepted)
      /\ Follows(held, delivered \cup Entries(events))
  BY <1>1 DEF Live, OrderInv, Forwarded
<1>4. Queued(Append(events, held), delivered)
  BY <1>1, <1>3, QueuedLast
<1>5. delivered \cup Entries(Append(events, held)) \cup ({0} \ {0}) = Accepted
  BY <1>1, <1>2 DEF Accepted, Forwarded
<1>6. OrderInv'
  BY <1>1, <1>3, <1>4, <1>5, OrderMoved
<1>7. Accepted' = Accepted
  BY <1>1, <1>2 DEF Accepted, Forwarded
<1>8. QuietInv'
  BY <1>1, <1>7 DEF Live, KeptInv, QuietInv
<1> QED BY <1>6, <1>8

(* The bridge takes the oldest event: what is due before it was taken.     *)
LEMMA PipeConsume ==
    ASSUME Live, Consume
    PROVE  /\ OrderInv' /\ QuietInv'
           /\ \A i \in delivered' \ delivered : Follows(i, delivered)
<1> DEFINE id == Head(events)
<1>1. /\ events # <<>> /\ events \in Seq(Msgs) /\ events' = Tail(events)
      /\ delivered' = delivered \cup {id} /\ Arrived' = Arrived
      /\ UNCHANGED <<stamp, floor, ch, seen, held, polled, pc>>
  BY PipeFacts DEF Consume, Arrived, pollerVars, Live
<1>2. /\ \A i \in delivered : Follows(i, delivered)
      /\ Queued(events, delivered) /\ Queued(ch, Accepted)
      /\ held # 0 => Follows(held, delivered \cup Entries(events))
  BY DEF Live, OrderInv, Forwarded
<1>3. Follows(id, delivered) /\ Queued(Tail(events), delivered \cup {id})
  BY <1>1, <1>2, QueuedHead
<1>4. Entries(events) = {id} \cup Entries(Tail(events))
  BY <1>1, EntriesHead
<1> HIDE DEF id
<1>5. \A i \in delivered \cup {id} : Follows(i, delivered \cup {id})
  BY <1>2, <1>3, FollowsMore
<1>6. /\ (delivered \cup {id}) \cup Entries(Tail(events)) = delivered \cup Entries(events)
      /\ (delivered \cup {id}) \cup Entries(Tail(events)) \cup ({held} \ {0}) = Accepted
  BY <1>4 DEF Accepted, Forwarded
<1>7. OrderInv'
  BY <1>1, <1>2, <1>3, <1>5, <1>6, OrderMoved
<1>8. Accepted' = Accepted
  BY <1>1, <1>6 DEF Accepted, Forwarded
<1>9. QuietInv'
  BY <1>1, <1>8 DEF Live, KeptInv, QuietInv
<1> QED BY <1>1, <1>3, <1>7, <1>9

LEMMA PipeInvInit == Init => PipeInv
  BY DEF Init, MergeInit, PollerInit, PipeInv, OrderInv, KeptInv, QuietInv, Queued, Entries, Accepted,
         Forwarded

(* With or without a webhook, what has been sent stays on its way.         *)
LEMMA SentStays ==
    ASSUME TypeOK, PipeInv, [Next]_vars, crashes' = 0
    PROVE  crashes = 0 /\ ~Crash
  BY DeliveryAssumption DEF TypeOK, Next, vars, World, Polling, Merging, Webhook, Consume, Crash

LEMMA KeptPut ==
    ASSUME TypeOK, KeptInv, NEW i \in Msgs, Put(i), polled' \subseteq polled \cup {i},
           UNCHANGED <<seen, held, events, delivered>>
    PROVE  KeptInv'
<1>1. ch' = Append(ch, i)
  BY DEF Put
<1>2. Entries(ch') = Entries(ch) \cup {i}
  BY <1>1, EntriesLast, PipeFacts
<1>3. Accepted' = Accepted
  BY DEF Accepted, Forwarded
<1> QED BY <1>2, <1>3 DEF KeptInv

LEMMA KeptMerge ==
    ASSUME TypeOK, KeptInv, MergeNext, UNCHANGED <<delivered, polled>>
    PROVE  KeptInv'
<1>1. CASE SkipDuplicate \/ Accept
  <2>1. held = 0 /\ ch' = Tail(ch) /\ events' = events /\ Head(ch) # 0
    BY <1>1, PipeFacts DEF SkipDuplicate, Accept, Receive, mergeVars
  <2>2. Entries(ch) = {Head(ch)} \cup Entries(ch')
    BY <1>1, <2>1, EntriesHead, PipeFacts DEF SkipDuplicate, Accept, Receive
  <2>3. CASE SkipDuplicate
    <3>1. /\ seen' = seen /\ Head(ch) \in DOMAIN seen
          /\ Accepted' = Accepted
      BY <2>3 DEF SkipDuplicate, mergeVars, Accepted, Forwarded
    <3> QED BY <2>2, <3>1 DEF KeptInv
  <2>4. CASE Accept
    <3>1. held' = Head(ch) /\ DOMAIN seen' = DOMAIN seen \cup {Head(ch)}
      BY <2>4 DEF Accept, Remember
    <3>2. Accepted' = Accepted \cup {Head(ch)}
      BY <2>1, <3>1 DEF Accepted, Forwarded
    <3> QED BY <2>2, <3>1, <3>2 DEF KeptInv
  <2> QED BY <1>1, <2>3, <2>4
<1>2. CASE Forward
  <2>1. /\ held \in Msgs /\ held # 0 /\ held' = 0 /\ events' = Append(events, held)
        /\ UNCHANGED <<ch, seen>>
    BY <1>2, PipeFacts DEF Forward
  <2>2. Entries(events') = Entries(events) \cup {held}
    BY <2>1, EntriesLast, PipeFacts
  <2>3. Accepted' = Accepted
    BY <2>1, <2>2 DEF Accepted, Forwarded
  <2> QED BY <2>1, <2>3 DEF KeptInv
<1>3. CASE SweepBegin \/ Forget \/ SweepEnd
  <2>1. UNCHANGED <<ch, held, events>> /\ DOMAIN seen' \subseteq DOMAIN seen
    BY <1>3 DEF SweepBegin, Forget, SweepEnd
  <2> QED BY <2>1 DEF KeptInv, Accepted, Forwarded
<1> QED BY <1>1, <1>2, <1>3 DEF MergeNext

LEMMA KeptStep ==
    ASSUME TypeOK, PipeInv, [Next]_vars, crashes' = 0
    PROVE  KeptInv'
<1>1. KeptInv /\ ~Crash
  BY SentStays DEF PipeInv
<1>2. CASE Polling
  <2>1. UNCHANGED <<seen, held, events, delivered>>
    BY <1>2 DEF Polling, mergeVars
  <2>2. CASE EmitMessage
    <3>1. PICK i \in batch \cap Supported : Put(i) /\ polled' = polled \cup {i}
      BY <2>2 DEF EmitMessage
    <3>2. i \in Msgs
      BY InboxAssumption DEF Msgs
    <3> QED BY <1>1, <2>1, <3>1, <3>2, KeptPut
  <2>3. CASE ~EmitMessage
    <3>1. UNCHANGED <<ch, polled>>
      BY <1>2, <2>3 DEF Polling, PollerNext, Resume, StartAfresh, BeginCycle, ListPage,
                        ListFails, SkipMessage, NextPage, EndOfPages, Advance, NothingNew
    <3> QED BY <1>1, <2>1, <3>1 DEF KeptInv, Accepted, Forwarded
  <2> QED BY <2>2, <2>3
<1>3. CASE Merging
  BY <1>1, <1>3, KeptMerge DEF Merging, pollerVars
<1>4. CASE Webhook
  <2>1. PICK i \in Arrived \cap Supported : Put(i)
    BY <1>4 DEF Webhook
  <2>2. i \in Msgs /\ UNCHANGED <<seen, held, events, delivered, polled>>
    BY <1>4, ListFacts DEF Webhook, mergeVars, pollerVars
  <2> QED BY <1>1, <2>1, <2>2, KeptPut
<1>5. CASE Consume
  <2>1. /\ delivered' = delivered \cup {Head(events)} /\ events' = Tail(events)
        /\ UNCHANGED <<ch, seen, held, polled>>
    BY <1>5 DEF Consume, pollerVars
  <2>2. Entries(events) = {Head(events)} \cup Entries(Tail(events))
    BY <1>5, EntriesHead, PipeFacts DEF Consume
  <2>3. Accepted' = Accepted
    BY <2>1, <2>2 DEF Accepted, Forwarded
  <2> QED BY <1>1, <2>1, <2>3 DEF KeptInv
<1>6. CASE World \/ UNCHANGED vars
  <2>1. UNCHANGED <<ch, seen, held, events, delivered, polled>>
    BY <1>6 DEF World, Tick, Arrive, vars, mergeVars, pollerVars
  <2> QED BY <1>1, <2>1 DEF KeptInv, Accepted, Forwarded
<1> QED BY <1>1, <1>2, <1>3, <1>4, <1>5, <1>6 DEF Next

LEMMA PipeInvStep ==
    ASSUME TypeOK, PollInv, PipeInv, [Next]_vars
    PROVE  PipeInv'
<1> SUFFICES ASSUME crashes' = 0, ~WebhookOn
             PROVE  OrderInv' /\ QuietInv'
  BY KeptStep DEF PipeInv
<1>1. CASE Crash
  BY <1>1 DEF Crash, TypeOK
<1>2. CASE ~Crash
  <2>1. crashes = 0
    BY <1>2 DEF Next, vars, World, Polling, Merging, Webhook, Consume
  <2>2. Live
    BY <2>1 DEF Live, PipeInv
  <2>3. CASE World
    BY <2>2, <2>3, PipeStill DEF World, Tick, Arrive, mergeVars, pollerVars
  <2>4. CASE Polling
    <3>1. /\ UNCHANGED <<stamp, seen, held, events, delivered>>
      BY <2>4 DEF Polling, PollerNext, mergeVars
    <3>2. CASE StartAfresh
      BY <2>2, <3>1, <3>2, PipeStart
    <3>3. CASE EmitMessage
      BY <2>2, <3>1, <3>3, PipeEmit
    <3>4. CASE ~StartAfresh /\ ~EmitMessage
      <4>1. UNCHANGED <<ch, floor, polled>> /\ (pc' = "start" => pc = "start")
        BY <2>4, <3>4 DEF Polling, PollerNext, Resume, BeginCycle, ListPage, ListFails,
                          SkipMessage, NextPage, EndOfPages, Advance, NothingNew
      <4> QED BY <2>2, <3>1, <4>1, PipeStill
    <3> QED BY <3>2, <3>3, <3>4
  <2>5. CASE Merging
    <3>1. UNCHANGED <<stamp, delivered, floor, polled, pc>>
      BY <2>5 DEF Merging, MergeNext, pollerVars
    <3>2. CASE SkipDuplicate \/ Accept
      BY <2>2, <3>1, <3>2, PipeReceive
    <3>3. CASE Forward
      BY <2>2, <3>1, <3>3, PipeForward
    <3>4. CASE SweepBegin \/ Forget \/ SweepEnd
      <4>1. UNCHANGED <<ch, held, events>> /\ DOMAIN seen' \subseteq DOMAIN seen
        BY <3>4 DEF SweepBegin, Forget, SweepEnd
      <4> QED BY <2>2, <3>1, <4>1, PipeStill
    <3> QED BY <2>5, <3>2, <3>3, <3>4 DEF Merging, MergeNext
  <2>6. CASE Consume
    BY <2>2, <2>6, PipeConsume
  <2>7. CASE UNCHANGED vars
    BY <2>2, <2>7, PipeStill DEF vars, mergeVars, pollerVars
  <2>8. ~Webhook
    BY DEF Webhook
  <2> QED BY <1>2, <2>3, <2>4, <2>5, <2>6, <2>7, <2>8 DEF Next
<1> QED BY <1>1, <1>2

(* Only the consume loop takes messages, each after all that was due       *)
(* before it.                                                              *)
LEMMA TakenInOrder ==
    ASSUME TypeOK, PollInv, PipeInv, [Next]_vars, ~WebhookOn, crashes = 0,
           NEW i \in delivered' \ delivered, NEW j \in 1 .. i - 1,
           j \in Supported, floor <= stamp[j], ~Tied(j)
    PROVE  j \in delivered
<1>1. Live
  BY DEF Live, PipeInv
<1>2. Consume
  BY DEF Next, vars, World, Polling, Merging, Webhook, Crash
<1>3. Follows(i, delivered) /\ i \in Arrived
  <2>1. i = Head(events)
    BY <1>2 DEF Consume
  <2>2. i \in Entries(events)
    BY <1>1, <1>2, <2>1, HeadFacts, PipeFacts DEF Consume, Entries, Live
  <2> QED BY <1>1, <1>2, <2>2, PipeConsume DEF Live, KeptInv, QuietInv, Accepted, Forwarded
<1>4. j \in Arrived /\ j < i
  BY <1>3, ListFacts DEF Arrived
<1> QED BY <1>3, <1>4 DEF Follows, Due

(* Until the process is killed, messages that only the poller brings reach *)
(* the bridge in the order they arrived.                                   *)
THEOREM ArrivalOrder == Spec => InOrder
<1>1. Init => PollInv
  BY PollInvInit
<1>2. TypeOK /\ PollInv /\ [Next]_vars => PollInv'
  BY PollInvStep
<1>3. TypeOK /\ PollInv /\ PipeInv /\ [Next]_vars => PipeInv'
  BY PipeInvStep
<1>4. TypeOK /\ PollInv /\ PipeInv /\ [Next]_vars =>
         [~WebhookOn /\ crashes = 0 =>
          \A i \in delivered' \ delivered : \A j \in 1 .. i - 1 :
             j \in Supported /\ floor <= stamp[j] /\ ~Tied(j) => j \in delivered]_vars
  BY TakenInOrder
<1> QED BY <1>1, <1>2, <1>3, <1>4, PipeInvInit, TypeCorrect, PTL DEF Spec, InOrder

(* Until the process is killed, a message due that the cursor has passed   *)
(* is with the bridge, or in a channel or the merger's hands on its way    *)
(* there: no duplicate check, sweep or full channel loses it, webhook or   *)
(* not.                                                                    *)
OnItsWay ==
    crashes = 0 => \A i \in Passed(lastPoll) : Tied(i) \/ i \in Accepted \cup Entries(ch)

THEOREM PassedIsOnItsWay == Spec => []OnItsWay
<1>1. TypeOK /\ PollInv /\ PipeInv /\ [Next]_vars => PipeInv'
  BY PipeInvStep
<1>2. TypeOK /\ PollInv /\ [Next]_vars => PollInv'
  BY PollInvStep
<1>3. PollInv /\ PipeInv => OnItsWay
  BY DEF OnItsWay, PipeInv, KeptInv, PollInv, CursorInv, OnlyTiesPassedOver, LostOnly
<1> QED BY <1>1, <1>2, <1>3, PollInvInit, PipeInvInit, TypeCorrect, PTL DEF Spec
=============================================================================
