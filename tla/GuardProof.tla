----------------------------- MODULE GuardProof -----------------------------
(***************************************************************************)
(* Proofs about Guard, for every limit, window, sweep floor, role table    *)
(* and number of senders.  The argument needs one strengthening: what a    *)
(* bucket, or its absence, says about its sender's log of allowed          *)
(* messages.  The facts about one log and one bucket are lemmas without a  *)
(* state; the invariant is stated for an arbitrary table, because every    *)
(* branch of Check starts from the table as the sweep leaves it.           *)
(***************************************************************************)
EXTENDS Guard, WellFoundedInduction, TLAPS

Entry == [at : Nat, opened : Nat]

Bucket == [tokens : 0 .. RateLimit - 1, windowEnd : Nat]

(* Every allowed message lies in the window it was charged to, and no      *)
(* window is charged with more than RateLimit messages: the message        *)
(* RateLimit places later belongs to a window that opened after this one   *)
(* was over.                                                               *)
WellCharged(log) ==
    /\ \A i \in 1 .. Len(log) : /\ log[i].opened <= log[i].at
                                /\ log[i].at <= log[i].opened + RateWindow
    /\ \A i \in 1 .. Len(log) : i + RateLimit <= Len(log) =>
           log[i + RateLimit].opened > log[i].opened + RateWindow

(* A bucket counts exactly the latest messages of a log, and every earlier *)
(* message belongs to a window that was over before the bucket's opened.   *)
Counted(log, b) ==
    LET used == RateLimit - b.tokens
        start == b.windowEnd - RateWindow
    IN  /\ used <= Len(log)
        /\ start \in Nat
        /\ \A i \in 1 .. Len(log) :
              /\ i > Len(log) - used => log[i].opened = start
              /\ i <= Len(log) - used => log[i].opened + RateWindow < start

(* By t every window of a log is over.                                     *)
Over(log, t) == \A i \in 1 .. Len(log) : log[i].opened + RateWindow < t

TypedTable(table) == /\ DOMAIN table \subseteq Senders
                     /\ table \in [DOMAIN table -> Bucket]

TableInv(table) ==
    \A s \in Senders :
        IF s \in DOMAIN table
        THEN Counted(granted[s], table[s]) /\ table[s].windowEnd - RateWindow <= now
        ELSE Over(granted[s], now)

LogInv == \A s \in Senders : WellCharged(granted[s])

IInv == TypeOK /\ LogInv /\ TableInv(buckets) /\ ThrottledForCause /\ NoBucketOutlivesSweep
-----------------------------------------------------------------------------
(* One log and one bucket.                                                 *)

LEMMA LogEntries ==
    ASSUME NEW log \in Seq(Entry)
    PROVE  /\ Len(log) \in Nat
           /\ \A i \in 1 .. Len(log) : /\ log[i] \in Entry
                                       /\ log[i].at \in Nat
                                       /\ log[i].opened \in Nat
<1>1. Len(log) \in Nat /\ \A i \in 1 .. Len(log) : log[i] \in Entry
  OBVIOUS
<1> QED BY <1>1 DEF Entry

LEMMA AppendEntries ==
    ASSUME NEW log \in Seq(Entry), NEW e \in Entry
    PROVE  /\ Append(log, e) \in Seq(Entry)
           /\ Len(Append(log, e)) = Len(log) + 1
           /\ \A i \in 1 .. Len(log) : Append(log, e)[i] = log[i]
           /\ Append(log, e)[Len(log) + 1] = e
  OBVIOUS

(* Once a bucket's window is over, so is every window of its log.          *)
LEMMA CountedOver ==
    ASSUME NEW log \in Seq(Entry), NEW b \in Bucket, NEW t \in Nat,
           Counted(log, b), t > b.windowEnd
    PROVE  Over(log, t)
<1> SUFFICES ASSUME NEW i \in 1 .. Len(log)
             PROVE  log[i].opened + RateWindow < t
  BY DEF Over
<1>1. log[i].opened <= b.windowEnd - RateWindow
  <2> DEFINE start == b.windowEnd - RateWindow
             opened == log[i].opened
  <2>1. opened \in Nat /\ start \in Int /\ RateWindow \in Nat
    BY LogEntries, GuardAssumption DEF Bucket
  <2>2. opened = start \/ opened + RateWindow < start
    BY LogEntries, GuardAssumption DEF Counted, Bucket
  <2> HIDE DEF start, opened
  <2>3. opened <= start
    BY <2>1, <2>2
  <2> QED BY <2>3 DEF start, opened
<1> QED BY <1>1, LogEntries, GuardAssumption DEF Bucket

(* A message charged to a window that opened after the window of the       *)
(* message RateLimit places before was over.                               *)
LEMMA AppendWellCharged ==
    ASSUME NEW log \in Seq(Entry), NEW e \in Entry, WellCharged(log),
           e.opened <= e.at, e.at <= e.opened + RateWindow,
           \A i \in 1 .. Len(log) : i + RateLimit = Len(log) + 1 =>
               log[i].opened + RateWindow < e.opened
    PROVE  WellCharged(Append(log, e))
<1> DEFINE longer == Append(log, e)
<1>1. /\ Len(longer) = Len(log) + 1
      /\ \A i \in 1 .. Len(log) : longer[i] = log[i]
      /\ longer[Len(log) + 1] = e
  BY AppendEntries
<1>2. Len(log) \in Nat
  BY LogEntries
<1> HIDE DEF longer
<1>3. ASSUME NEW i \in 1 .. Len(longer)
      PROVE  longer[i].opened <= longer[i].at /\ longer[i].at <= longer[i].opened + RateWindow
  BY <1>1, <1>2 DEF WellCharged
<1>4. ASSUME NEW i \in 1 .. Len(longer), i + RateLimit <= Len(longer)
      PROVE  longer[i + RateLimit].opened > longer[i].opened + RateWindow
  <2>1. RateLimit \in Nat \ {0} /\ RateWindow \in Nat
    BY GuardAssumption
  <2>2. i \in 1 .. Len(log) /\ log[i].opened \in Nat /\ longer[i] = log[i]
    BY <1>1, <1>2, <1>4, <2>1, LogEntries
  <2>3. CASE i + RateLimit <= Len(log)
    <3>1. i + RateLimit \in 1 .. Len(log)
      BY <1>2, <2>1, <2>2, <2>3
    <3> QED BY <1>1, <2>2, <2>3, <3>1 DEF WellCharged
  <2>4. CASE i + RateLimit = Len(log) + 1
    <3>1. log[i].opened + RateWindow < e.opened
      BY <2>2, <2>4
    <3>2. longer[i + RateLimit] = e /\ e.opened \in Nat
      BY <1>1, <2>4 DEF Entry
    <3> QED BY <2>1, <2>2, <3>1, <3>2
  <2>5. i + RateLimit <= Len(log) \/ i + RateLimit = Len(log) + 1
    BY <1>1, <1>2, <1>4, <2>1, <2>2
  <2> QED BY <2>3, <2>4, <2>5
<1>5. WellCharged(longer)
  BY <1>3, <1>4 DEF WellCharged
<1> QED BY <1>5 DEF longer

(* The first message of a window.                                          *)
LEMMA CountedFirst ==
    ASSUME NEW log \in Seq(Entry), NEW t \in Nat, Over(log, t)
    PROVE  Counted(Append(log, [at |-> t, opened |-> t]),
                   [tokens |-> RateLimit - 1, windowEnd |-> t + RateWindow])
<1> DEFINE e == [at |-> t, opened |-> t]
           longer == Append(log, e)
<1>1. e \in Entry /\ e.opened = t
  BY DEF Entry
<1>2. /\ Len(longer) = Len(log) + 1
      /\ \A i \in 1 .. Len(log) : longer[i] = log[i]
      /\ longer[Len(log) + 1] = e
  BY <1>1, AppendEntries
<1>3. Len(log) \in Nat /\ RateLimit \in Nat /\ RateWindow \in Nat
  BY LogEntries, GuardAssumption
<1> HIDE DEF longer, e
<1>4. Counted(longer, [tokens |-> RateLimit - 1, windowEnd |-> t + RateWindow])
  BY <1>1, <1>2, <1>3 DEF Counted, Over
<1> QED BY <1>4 DEF longer, e

(* A further message of an open window.                                    *)
LEMMA CountedNext ==
    ASSUME NEW log \in Seq(Entry), NEW b \in Bucket, NEW t \in Nat,
           Counted(log, b), b.tokens > 0
    PROVE  Counted(Append(log, [at |-> t, opened |-> b.windowEnd - RateWindow]),
                   [b EXCEPT !.tokens = @ - 1])
<1> DEFINE e == [at |-> t, opened |-> b.windowEnd - RateWindow]
           longer == Append(log, e)
           after == [b EXCEPT !.tokens = @ - 1]
<1>1. /\ e \in Entry /\ e.opened = b.windowEnd - RateWindow
      /\ b.tokens \in 0 .. RateLimit - 1 /\ b.windowEnd \in Nat
      /\ after.tokens = b.tokens - 1 /\ after.windowEnd = b.windowEnd
  BY DEF Entry, Counted, Bucket
<1>2. /\ Len(longer) = Len(log) + 1
      /\ \A i \in 1 .. Len(log) : longer[i] = log[i]
      /\ longer[Len(log) + 1] = e
  BY <1>1, AppendEntries
<1>3. Len(log) \in Nat /\ RateLimit \in Nat /\ RateWindow \in Nat
  BY LogEntries, GuardAssumption
<1> HIDE DEF longer, e, after
<1>4. /\ RateLimit - after.tokens = RateLimit - b.tokens + 1
      /\ after.windowEnd - RateWindow \in Nat
      /\ RateLimit - b.tokens <= Len(log)
  BY <1>1, <1>3 DEF Counted
<1>5. ASSUME NEW i \in 1 .. Len(longer)
      PROVE  LET used == RateLimit - after.tokens
                 start == after.windowEnd - RateWindow
             IN  /\ i > Len(longer) - used => longer[i].opened = start
                 /\ i <= Len(longer) - used => longer[i].opened + RateWindow < start
  <2>1. CASE i = Len(log) + 1
    <3>1. longer[i].opened = after.windowEnd - RateWindow
      BY <1>1, <1>2, <2>1
    <3>2. RateLimit - after.tokens >= 1 /\ RateLimit - after.tokens \in Int
      <4>1. /\ b.tokens \in Int /\ b.tokens <= RateLimit - 1
            /\ after.tokens = b.tokens - 1 /\ RateLimit \in Int
        BY <1>1, <1>3
      <4> QED BY <4>1
    <3>3. ~(i <= Len(longer) - (RateLimit - after.tokens))
      BY <1>2, <1>3, <2>1, <3>2
    <3> QED BY <3>1, <3>3
  <2>2. CASE i \in 1 .. Len(log)
    <3>1. Len(longer) - (RateLimit - after.tokens) = Len(log) - (RateLimit - b.tokens)
      <4> DEFINE used == RateLimit - b.tokens
      <4>1. used \in Int /\ RateLimit - after.tokens = used + 1
        BY <1>1, <1>3, <1>4
      <4> HIDE DEF used
      <4>2. Len(longer) - (used + 1) = Len(log) - used
        BY <1>2, <1>3, <4>1
      <4> QED BY <4>1, <4>2 DEF used
    <3>2. /\ i > Len(log) - (RateLimit - b.tokens) =>
                 log[i].opened = b.windowEnd - RateWindow
          /\ i <= Len(log) - (RateLimit - b.tokens) =>
                 log[i].opened + RateWindow < b.windowEnd - RateWindow
      BY <2>2 DEF Counted
    <3>3. longer[i] = log[i] /\ after.windowEnd = b.windowEnd
      BY <1>1, <1>2, <2>2
    <3> QED BY <3>1, <3>2, <3>3
  <2> QED BY <1>2, <1>3, <2>1, <2>2
<1>6. Counted(longer, after)
  BY <1>1, <1>2, <1>3, <1>4, <1>5 DEF Counted
<1> QED BY <1>6 DEF longer, e, after
-----------------------------------------------------------------------------
(* The table.                                                              *)

(* The sweep only removes buckets, and only those whose window is over.    *)
LEMMA SweptFacts ==
    ASSUME TypeOK
    PROVE  /\ TypedTable(Swept)
           /\ DOMAIN Swept \subseteq DOMAIN buckets
           /\ \A s \in DOMAIN Swept : Swept[s] = buckets[s]
           /\ \A s \in DOMAIN buckets \ DOMAIN Swept : Expired(buckets[s])
           /\ SweepDue => \A s \in DOMAIN Swept : ~Expired(Swept[s])
<1>1. CASE SweepDue
  BY <1>1 DEF Swept, TypedTable, Bucket, TypeOK
<1>2. CASE ~SweepDue
  BY <1>2 DEF Swept, TypedTable, Bucket, TypeOK
<1> QED BY <1>1, <1>2

(* What the table says of the logs survives the sweep.                     *)
LEMMA SweptInv ==
    ASSUME TypeOK, TableInv(buckets)
    PROVE  TableInv(Swept)
<1> SUFFICES ASSUME NEW s \in Senders, s \in DOMAIN buckets \ DOMAIN Swept
             PROVE  Over(granted[s], now)
  BY SweptFacts DEF TableInv
<1>1. Expired(buckets[s]) /\ Counted(granted[s], buckets[s])
  BY SweptFacts DEF TableInv
<1>2. granted[s] \in Seq(Entry) /\ now \in Nat /\ buckets[s] \in Bucket
  BY DEF TypeOK, Bucket, Entry
<1> QED BY <1>1, <1>2, CountedOver DEF Expired

(* No bucket the sweep leaves was over at the sweep.                        *)
LEMMA SweptKept ==
    ASSUME TypeOK, NoBucketOutlivesSweep, SweepClock
    PROVE  \A s \in DOMAIN Swept : Swept[s].windowEnd >= lastSweep'
<1>1. now \in Nat /\ \A s \in DOMAIN Swept : Swept[s].windowEnd \in Nat
  BY SweptFacts DEF TypeOK, TypedTable, Bucket
<1>2. CASE SweepDue
  BY <1>1, <1>2, SweptFacts DEF SweepClock, Expired
<1>3. CASE ~SweepDue
  BY <1>3, SweptFacts DEF SweepClock, NoBucketOutlivesSweep
<1> QED BY <1>2, <1>3

(* Putting one bucket back into a typed table.                             *)
LEMMA PutFacts ==
    ASSUME NEW table, TypedTable(table), NEW s \in Senders, NEW b \in Bucket
    PROVE  /\ TypedTable(Put(table, s, b))
           /\ DOMAIN Put(table, s, b) = DOMAIN table \cup {s}
           /\ Put(table, s, b)[s] = b
           /\ \A x \in DOMAIN table \ {s} : Put(table, s, b)[x] = table[x]
  BY DEF Put, TypedTable
-----------------------------------------------------------------------------
(* The steps.                                                              *)

LEMMA InitInv == Init => IInv
  BY GuardAssumption
     DEF Init, IInv, TypeOK, LogInv, WellCharged, TableInv, Over, ThrottledForCause,
         NoBucketOutlivesSweep, NoVerdict

LEMMA TickInv ==
    ASSUME IInv, Tick
    PROVE  IInv'
<1> USE DEF IInv
<1>1. /\ now \in Nat /\ now' \in Nat /\ now < now'
      /\ UNCHANGED <<phoneTo, buckets, lastSweep, verdict, granted>>
  BY DEF Tick, TypeOK
<1>2. TypeOK'
  BY <1>1 DEF TypeOK
<1>3. LogInv' /\ ThrottledForCause' /\ NoBucketOutlivesSweep'
  BY <1>1 DEF LogInv, ThrottledForCause, NoBucketOutlivesSweep
<1>4. TableInv(buckets)'
  <2> SUFFICES ASSUME NEW s \in Senders
               PROVE  IF s \in DOMAIN buckets
                      THEN /\ Counted(granted[s], buckets[s])
                           /\ buckets[s].windowEnd - RateWindow <= now'
                      ELSE Over(granted[s], now')
    BY <1>1 DEF TableInv
  <2>1. CASE s \in DOMAIN buckets
    <3>1. buckets[s].windowEnd \in Nat /\ RateWindow \in Nat
      BY <2>1, GuardAssumption DEF TypeOK
    <3>2. Counted(granted[s], buckets[s]) /\ buckets[s].windowEnd - RateWindow <= now
      BY <2>1 DEF TableInv
    <3> QED BY <1>1, <2>1, <3>1, <3>2
  <2>2. CASE s \notin DOMAIN buckets
    <3>1. granted[s] \in Seq(Entry) /\ Over(granted[s], now)
      BY <2>2 DEF TableInv, TypeOK, Entry
    <3>2. Over(granted[s], now')
      BY <1>1, <3>1, LogEntries, GuardAssumption DEF Over
    <3> QED BY <2>2, <3>2
  <2> QED BY <2>1, <2>2
<1> QED BY <1>2, <1>3, <1>4

LEMMA DeniedInv ==
    ASSUME IInv, NEW s \in Senders, Denied(s), UNCHANGED <<now, phoneTo>>
    PROVE  IInv'
<1> USE DEF IInv
<1>1. /\ UNCHANGED <<now, buckets, lastSweep, granted>>
      /\ verdict' = [outcome |-> "Deny", sender |-> s, at |-> now]
  BY DEF Denied, Answer
<1>2. TypeOK'
  BY <1>1 DEF TypeOK
<1>3. LogInv' /\ TableInv(buckets)' /\ ThrottledForCause' /\ NoBucketOutlivesSweep'
  BY <1>1 DEF LogInv, TableInv, ThrottledForCause, NoBucketOutlivesSweep
<1> QED BY <1>2, <1>3

(* A bucket b put back into the swept table for s, and the message of s    *)
(* logged against the window that opened at `opened`: what the two         *)
(* granting branches of Check share.                                       *)
LEMMA GrantInv ==
    ASSUME IInv, NEW s \in Senders, NEW b \in Bucket, NEW opened \in Nat,
           UNCHANGED <<now, phoneTo>>,
           buckets' = Put(Swept, s, b), SweepClock, Answer(s, "Allow"), Grant(s, opened),
           opened <= now, now <= opened + RateWindow, b.windowEnd = opened + RateWindow,
           Counted(Append(granted[s], [at |-> now, opened |-> opened]), b),
           \A i \in 1 .. Len(granted[s]) : i + RateLimit = Len(granted[s]) + 1 =>
               granted[s][i].opened + RateWindow < opened
    PROVE  IInv'
<1> DEFINE e == [at |-> now, opened |-> opened]
<1>1. /\ TypeOK /\ now \in Nat /\ lastSweep \in Nat /\ lastSweep <= now
      /\ granted \in [Senders -> Seq(Entry)] /\ e \in Entry
      /\ RateWindow \in Nat
  BY GuardAssumption DEF IInv, TypeOK, Entry
<1>2. /\ granted' = [granted EXCEPT ![s] = Append(@, e)]
      /\ granted' \in [Senders -> Seq(Entry)]
  BY <1>1, AppendEntries DEF Grant
<1>3. TypedTable(Swept) /\ TableInv(Swept)
  BY SweptFacts, SweptInv DEF IInv
<1>4. /\ TypedTable(buckets')
      /\ DOMAIN buckets' = DOMAIN Swept \cup {s}
      /\ buckets'[s] = b
      /\ \A x \in DOMAIN Swept \ {s} : buckets'[x] = Swept[x]
  BY <1>3 DEF Put, TypedTable
<1>5. lastSweep' \in {now, lastSweep}
  BY DEF SweepClock
<1>6. TypeOK'
  BY <1>1, <1>2, <1>4, <1>5 DEF TypeOK, TypedTable, Answer, Bucket, Entry
<1>7. LogInv'
  <2>1. WellCharged(granted[s])
    BY DEF IInv, LogInv
  <2>2. WellCharged(Append(granted[s], e))
    BY <1>1, <2>1, AppendWellCharged
  <2> QED BY <1>1, <1>2, <2>2 DEF IInv, LogInv
<1>8. TableInv(buckets)'
  <2> SUFFICES ASSUME NEW x \in Senders
               PROVE  IF x \in DOMAIN buckets'
                      THEN /\ Counted(granted'[x], buckets'[x])
                           /\ buckets'[x].windowEnd - RateWindow <= now
                      ELSE Over(granted'[x], now)
    BY DEF TableInv
  <2>1. CASE x = s
    <3>1. x \in DOMAIN buckets' /\ buckets'[x] = b /\ granted'[x] = Append(granted[s], e)
      BY <1>1, <1>2, <1>4, <2>1
    <3> QED BY <1>1, <3>1
  <2>2. CASE x # s
    <3>1. /\ granted'[x] = granted[x]
          /\ x \in DOMAIN buckets' <=> x \in DOMAIN Swept
          /\ x \in DOMAIN Swept => buckets'[x] = Swept[x]
      BY <1>1, <1>2, <1>4, <2>2
    <3> QED BY <1>3, <3>1 DEF TableInv
  <2> QED BY <2>1, <2>2
<1>9. ThrottledForCause'
  BY DEF ThrottledForCause, Answer
<1>10. NoBucketOutlivesSweep'
  <2> SUFFICES ASSUME NEW x \in DOMAIN buckets'
               PROVE  buckets'[x].windowEnd >= lastSweep'
    BY DEF NoBucketOutlivesSweep
  <2>1. CASE x = s
    BY <1>1, <1>4, <1>5, <2>1
  <2>2. CASE x # s
    BY <1>4, <2>2, SweptKept DEF IInv
  <2> QED BY <2>1, <2>2
<1> QED BY <1>6, <1>7, <1>8, <1>9, <1>10 DEF IInv

LEMMA NewWindowInv ==
    ASSUME IInv, NEW s \in Senders, NewWindow(s), UNCHANGED <<now, phoneTo>>
    PROVE  IInv'
<1> DEFINE b == [tokens |-> RateLimit - 1, windowEnd |-> now + RateWindow]
<1>1. now \in Nat /\ RateWindow \in Nat /\ granted[s] \in Seq(Entry)
  BY GuardAssumption DEF IInv, TypeOK, Entry
<1>2. b \in Bucket
  BY <1>1, GuardAssumption DEF Bucket
<1>3. Over(granted[s], now)
  <2>1. CASE s \notin DOMAIN Swept
    BY <2>1, SweptInv DEF IInv, TableInv
  <2>2. CASE s \in DOMAIN Swept
    <3>1. /\ Swept[s] \in Bucket
          /\ Counted(granted[s], Swept[s])
          /\ now > Swept[s].windowEnd
      BY <2>2, SweptInv, SweptFacts DEF IInv, TableInv, TypedTable, NewWindow, Expired
    <3> QED BY <1>1, <3>1, CountedOver
  <2> QED BY <2>1, <2>2
<1>4. Counted(Append(granted[s], [at |-> now, opened |-> now]), b)
  BY <1>1, <1>3, CountedFirst
<1>5. \A i \in 1 .. Len(granted[s]) : granted[s][i].opened + RateWindow < now
  BY <1>3 DEF Over
<1>6. /\ buckets' = Put(Swept, s, b) /\ SweepClock
      /\ Answer(s, "Allow") /\ Grant(s, now)
  BY DEF NewWindow
<1>7. now <= now /\ now <= now + RateWindow /\ b.windowEnd = now + RateWindow
  BY <1>1
<1> HIDE DEF b
<1> QED BY <1>1, <1>2, <1>4, <1>5, <1>6, <1>7, GrantInv

LEMMA TakeTokenInv ==
    ASSUME IInv, NEW s \in Senders, TakeToken(s), UNCHANGED <<now, phoneTo>>
    PROVE  IInv'
<1> DEFINE b == [Swept[s] EXCEPT !.tokens = @ - 1]
           opened == Swept[s].windowEnd - RateWindow
<1>1. now \in Nat /\ RateWindow \in Nat /\ granted[s] \in Seq(Entry)
  BY GuardAssumption DEF IInv, TypeOK, Entry
<1>2. s \in DOMAIN Swept /\ ~Expired(Swept[s]) /\ Swept[s].tokens > 0
  BY DEF TakeToken, InWindow
<1>3. /\ TypedTable(Swept) /\ Swept[s] \in Bucket
      /\ Counted(granted[s], Swept[s])
      /\ opened <= now
  BY <1>2, SweptFacts, SweptInv DEF IInv, TableInv, TypedTable
<1>4. /\ Swept[s].tokens \in 0 .. RateLimit - 1
      /\ Swept[s].windowEnd \in Nat
      /\ opened \in Nat
      /\ RateLimit - Swept[s].tokens <= Len(granted[s])
  BY <1>3 DEF Counted, Bucket
<1>5. b \in Bucket /\ b.windowEnd = opened + RateWindow
  <2>1. Swept[s].tokens - 1 \in 0 .. RateLimit - 1
    BY <1>2, <1>4, GuardAssumption
  <2>2. b \in Bucket /\ b.windowEnd = Swept[s].windowEnd
    BY <1>3, <2>1 DEF Bucket
  <2> QED BY <1>1, <1>4, <2>2
<1>6. now <= opened + RateWindow
  BY <1>1, <1>2, <1>4 DEF Expired
<1>7. Counted(Append(granted[s], [at |-> now, opened |-> opened]), b)
  BY <1>1, <1>2, <1>3, CountedNext
<1>8. ASSUME NEW i \in 1 .. Len(granted[s]), i + RateLimit = Len(granted[s]) + 1
      PROVE  granted[s][i].opened + RateWindow < opened
  <2>1. i <= Len(granted[s]) - (RateLimit - Swept[s].tokens)
    BY <1>1, <1>2, <1>4, <1>8, LogEntries, GuardAssumption
  <2> QED BY <1>3, <2>1 DEF Counted
<1>9. buckets' = Put(Swept, s, b)
  BY <1>2, <1>3 DEF TakeToken, Put, TypedTable
<1>10. SweepClock /\ Answer(s, "Allow") /\ Grant(s, opened)
  BY DEF TakeToken
<1> HIDE DEF b, opened
<1> QED BY <1>3, <1>4, <1>5, <1>6, <1>7, <1>8, <1>9, <1>10, GrantInv

(* An entry no older than the window's start is no older than a window's   *)
(* length before any instant the window still covers.                      *)
LEMMA LateEnough ==
    ASSUME NEW t \in Nat, NEW close \in Nat, NEW at \in Nat, NEW w \in Nat,
           at >= close - w, t <= close
    PROVE  at >= t - w
OBVIOUS

LEMMA ThrottledInv ==
    ASSUME IInv, NEW s \in Senders, Throttled(s), UNCHANGED <<now, phoneTo>>
    PROVE  IInv'
<1>1. /\ UNCHANGED <<now, granted>> /\ buckets' = Swept /\ SweepClock
      /\ verdict' = [outcome |-> "RateLimited", sender |-> s, at |-> now]
  BY DEF Throttled, Answer
<1>2. TypedTable(Swept) /\ TableInv(Swept)
  BY SweptFacts, SweptInv DEF IInv
<1>3. lastSweep' \in Nat /\ lastSweep' <= now
  BY <1>1 DEF SweepClock, IInv, TypeOK
<1>4. TypeOK'
  BY <1>1, <1>2, <1>3 DEF IInv, TypeOK, TypedTable, Bucket
<1>5. LogInv' /\ TableInv(buckets)'
  BY <1>1, <1>2 DEF IInv, LogInv, TableInv
<1>6. NoBucketOutlivesSweep'
  BY <1>1, SweptKept DEF IInv, NoBucketOutlivesSweep
<1>7. ThrottledForCause'
  <2> DEFINE log == granted[s]
             first == Len(log) - RateLimit + 1
  <2>1. /\ now \in Nat /\ RateWindow \in Nat /\ RateLimit \in Nat \ {0}
        /\ log \in Seq(Entry) /\ Len(log) \in Nat
    BY GuardAssumption, LogEntries DEF IInv, TypeOK, Entry
  <2>2. /\ s \in DOMAIN Swept /\ Swept[s].windowEnd \in Nat /\ Swept[s].tokens = 0
        /\ now <= Swept[s].windowEnd /\ Counted(log, Swept[s])
    BY <1>2, <2>1 DEF Throttled, InWindow, TypedTable, Bucket, TableInv, Expired
  <2>3. RateLimit <= Len(log) /\ first \in 1 .. Len(log)
    BY <2>1, <2>2 DEF Counted
  <2>4. log[first].opened = Swept[s].windowEnd - RateWindow
    <3>1. RateLimit - Swept[s].tokens = RateLimit /\ first > Len(log) - RateLimit
      BY <2>1, <2>2
    <3>2. first > Len(log) - (RateLimit - Swept[s].tokens)
      BY <3>1
    <3> QED BY <2>2, <2>3, <3>2 DEF Counted
  <2>5. log[first].opened <= log[first].at /\ log[first].at \in Nat
    BY <2>1, <2>3, LogEntries DEF IInv, LogInv, WellCharged
  <2>6. log[first].at >= now - RateWindow
    <3>1. log[first].at >= Swept[s].windowEnd - RateWindow
      BY <2>4, <2>5
    <3> QED BY <3>1, <2>1, <2>2, <2>5, LateEnough
  <2> QED BY <1>1, <2>3, <2>6 DEF ThrottledForCause
<1> QED BY <1>4, <1>5, <1>6, <1>7 DEF IInv

LEMMA NextInv == IInv /\ [Next]_vars => IInv'
<1> SUFFICES ASSUME IInv, [Next]_vars
             PROVE  IInv'
  OBVIOUS
<1>1. CASE Tick
  BY <1>1, TickInv
<1>2. ASSUME NEW from \in Written, Check(from)
      PROVE  IInv'
  <2>1. Normalize(from) \in Senders
    BY DEF Written, Normalize
  <2> QED BY <1>2, <2>1, DeniedInv, NewWindowInv, TakeTokenInv, ThrottledInv DEF Check
<1>3. CASE UNCHANGED vars
  BY <1>3 DEF vars, IInv, TypeOK, LogInv, TableInv, ThrottledForCause, NoBucketOutlivesSweep
<1> QED BY <1>1, <1>2, <1>3 DEF Next
-----------------------------------------------------------------------------
LEMMA Invariance == Spec => []IInv
  BY InitInv, NextInv, PTL DEF Spec

(* The guard's bookkeeping stays well typed.                               *)
THEOREM TypeCorrect == Spec => []TypeOK
<1>1. IInv => TypeOK
  BY DEF IInv
<1> QED BY <1>1, Invariance, PTL

(* A message of one window comes more than a window's length before any    *)
(* message of the second window after it.                                  *)
LEMMA WindowsApart ==
    ASSUME NEW at1 \in Nat, NEW open1 \in Nat, NEW open2 \in Nat,
           NEW open3 \in Nat, NEW at3 \in Nat, NEW w \in Nat,
           at1 <= open1 + w, open2 > open1 + w, open3 > open2 + w, open3 <= at3
    PROVE  at3 > at1 + w
OBVIOUS

(* For every limit and window: 2 * RateLimit + 1 messages of one sender    *)
(* are never let through within one window length.                         *)
THEOREM RateBound == Spec => []AtMostTwoWindowsWorth
<1>1. ASSUME IInv, NEW s \in Senders, NEW i \in 1 .. Len(granted[s]) - 2 * RateLimit
      PROVE  granted[s][i + 2 * RateLimit].at > granted[s][i].at + RateWindow
  <2> DEFINE log == granted[s]
             j == i + RateLimit
             k == i + 2 * RateLimit
  <2>1. /\ log \in Seq(Entry) /\ WellCharged(log) /\ Len(log) \in Nat
        /\ RateLimit \in Nat /\ RateWindow \in Nat
    BY <1>1, LogEntries, GuardAssumption DEF IInv, TypeOK, LogInv, Entry
  <2>2. /\ i \in 1 .. Len(log) /\ j \in 1 .. Len(log) /\ k \in 1 .. Len(log)
        /\ i + RateLimit = j /\ j + RateLimit = k
    BY <2>1
  <2> HIDE DEF log, j, k
  <2>3. /\ log[i].at \in Nat /\ log[i].opened \in Nat /\ log[j].opened \in Nat
        /\ log[k].opened \in Nat /\ log[k].at \in Nat
    BY <2>1, <2>2, LogEntries
  <2>4. /\ log[i].at <= log[i].opened + RateWindow
        /\ log[k].opened <= log[k].at
    BY <2>1, <2>2 DEF WellCharged
  <2>5. log[j].opened > log[i].opened + RateWindow
    <3>1. i + RateLimit <= Len(log)
      BY <2>1, <2>2
    <3> QED BY <2>1, <2>2, <3>1 DEF WellCharged
  <2>6. log[k].opened > log[j].opened + RateWindow
    <3>1. j + RateLimit <= Len(log)
      BY <2>1, <2>2
    <3> QED BY <2>1, <2>2, <3>1 DEF WellCharged
  <2>8. log[k].at > log[i].at + RateWindow
    BY <2>1, <2>3, <2>4, <2>5, <2>6, WindowsApart
  <2> QED BY <2>8 DEF log, k
<1>2. IInv => AtMostTwoWindowsWorth
  BY <1>1 DEF AtMostTwoWindowsWorth
<1> QED BY <1>2, Invariance, PTL

(* A sender is turned away only for RateLimit messages of its own within   *)
(* the last window length.                                                 *)
THEOREM OnlyForCause == Spec => []ThrottledForCause
<1>1. IInv => ThrottledForCause
  BY DEF IInv
<1> QED BY <1>1, Invariance, PTL

(* The table only holds buckets that were not over at the latest sweep.    *)
THEOREM SweptTable == Spec => []NoBucketOutlivesSweep
<1>1. IInv => NoBucketOutlivesSweep
  BY DEF IInv
<1> QED BY <1>1, Invariance, PTL
-----------------------------------------------------------------------------
(* The refinement: each sender's window as the abstract module sees it.    *)

Spent == [s \in Senders |-> IF Live(s) THEN RateLimit - buckets[s].tokens ELSE 0]

Closes == [s \in Senders |-> IF Live(s) THEN buckets[s].windowEnd ELSE 0]

(* A table that differs from the present one only by buckets that are over *)
(* shows the same windows.                                                 *)
LEMMA SweepInvisible ==
    ASSUME TypeOK, buckets' = Swept, now' = now
    PROVE  Spent' = Spent /\ Closes' = Closes
<1>1. \A s \in Senders : Live(s)' <=> Live(s)
  BY SweptFacts DEF Live, Expired
<1>2. \A s \in Senders : Live(s) => buckets'[s] = buckets[s]
  BY SweptFacts DEF Live
<1> QED BY <1>1, <1>2 DEF Spent, Closes

(* A granted message moves the window of its sender and no other.          *)
LEMMA OthersKept ==
    ASSUME TypeOK, NEW s \in Senders, NEW b \in Bucket,
           buckets' = Put(Swept, s, b), now' = now, b.windowEnd >= now
    PROVE  /\ Spent' = [Spent EXCEPT ![s] = RateLimit - b.tokens]
           /\ Closes' = [Closes EXCEPT ![s] = b.windowEnd]
<1>1. /\ DOMAIN buckets' = DOMAIN Swept \cup {s}
      /\ buckets'[s] = b
      /\ \A x \in DOMAIN Swept \ {s} : buckets'[x] = Swept[x]
  BY SweptFacts DEF Put
<1>2. now \in Nat /\ b.windowEnd \in Nat /\ Live(s)'
  BY <1>1 DEF TypeOK, Bucket, Live, Expired
<1>3. ASSUME NEW x \in Senders, x # s
      PROVE  (Live(x)' <=> Live(x)) /\ (Live(x) => buckets'[x] = buckets[x])
  BY <1>1, <1>3, SweptFacts DEF Live, Expired
<1>4. \A x \in Senders : Spent'[x] = [Spent EXCEPT ![s] = RateLimit - b.tokens][x]
  BY <1>1, <1>2, <1>3 DEF Spent
<1>5. \A x \in Senders : Closes'[x] = [Closes EXCEPT ![s] = b.windowEnd][x]
  BY <1>1, <1>2, <1>3 DEF Closes
<1> QED BY <1>4, <1>5 DEF Spent, Closes

(* The guard implements the fixed window: lazy expiry and sweeping cannot  *)
(* be told from windows that shut by themselves, and a Check moves no      *)
(* window but its sender's.                                                *)
THEOREM Refinement == Spec => ImplementsFixedWindow
<1>1. Init => Window!Init
  BY DEF Init, Window!Init, Live
<1>2. ASSUME TypeOK, [Next]_vars
      PROVE  [Window!Next]_(Window!vars)
  <2>1. CASE Tick
    <3>1. now \in Nat /\ now' = now + 1 /\ buckets' = buckets
      BY <1>2, <2>1 DEF TypeOK, Tick
    <3>2. ASSUME NEW s \in Senders
          PROVE  /\ Spent'[s] = IF Closes[s] < now' THEN 0 ELSE Spent[s]
                 /\ Closes'[s] = IF Closes[s] < now' THEN 0 ELSE Closes[s]
      <4>1. CASE Live(s)
        <5>1. buckets[s].windowEnd \in Nat /\ Closes[s] = buckets[s].windowEnd
          BY <1>2, <4>1 DEF TypeOK, Live, Closes
        <5>2. Live(s)' <=> ~(Closes[s] < now')
          BY <3>1, <4>1, <5>1 DEF Live, Expired
        <5> QED BY <3>1, <4>1, <5>1, <5>2 DEF Spent, Closes
      <4>2. CASE ~Live(s)
        <5>1. ~Live(s)'
          BY <1>2, <3>1, <4>2 DEF TypeOK, Live, Expired
        <5> QED BY <3>1, <4>2, <5>1 DEF Spent, Closes
      <4> QED BY <4>1, <4>2
    <3>3. Window!Tick
      BY <3>1, <3>2 DEF Window!Tick, Spent, Closes
    <3> QED BY <3>3 DEF Window!Next
  <2>2. ASSUME NEW from \in Written, Check(from)
        PROVE  [Window!Next]_(Window!vars)
    <3> DEFINE s == Normalize(from)
    <3>1. s \in Senders /\ now' = now
      BY <2>2 DEF Check, Written, Normalize
    <3> HIDE DEF s
    <3>2. CASE Denied(s)
      BY <3>1, <3>2 DEF Denied, Window!vars, Live, Expired
    <3>3. CASE Throttled(s)
      <4>1. Spent' = Spent /\ Closes' = Closes
        BY <1>2, <3>1, <3>3, SweepInvisible DEF Throttled
      <4> QED BY <3>1, <4>1 DEF Window!vars, Spent, Closes
    <3>4. CASE NewWindow(s)
      <4> DEFINE b == [tokens |-> RateLimit - 1, windowEnd |-> now + RateWindow]
      <4>1. /\ b \in Bucket /\ buckets' = Put(Swept, s, b) /\ b.windowEnd >= now
            /\ b.windowEnd = now + RateWindow /\ RateLimit - b.tokens = 1
        BY <1>2, <3>4, GuardAssumption DEF NewWindow, TypeOK, Bucket
      <4>2. ~Live(s)
        BY <1>2, <3>4, SweptFacts DEF NewWindow, Live
      <4> HIDE DEF b
      <4>3. /\ Spent[s] = 0
            /\ Spent' = [Spent EXCEPT ![s] = 1]
            /\ Closes' = [Closes EXCEPT ![s] = now + RateWindow]
        BY <1>2, <3>1, <4>1, <4>2, OthersKept DEF Spent
      <4>4. Window!Open(s)
        BY <3>1, <4>3 DEF Window!Open, Spent, Closes
      <4> QED BY <3>1, <4>4 DEF Window!Next
    <3>5. CASE TakeToken(s)
      <4> DEFINE b == [Swept[s] EXCEPT !.tokens = @ - 1]
      <4>1. /\ s \in DOMAIN Swept /\ ~Expired(Swept[s]) /\ Swept[s].tokens > 0
            /\ buckets' = [Swept EXCEPT ![s] = b]
        BY <3>5 DEF TakeToken, InWindow
      <4>2. Swept[s] \in Bucket /\ Swept[s] = buckets[s] /\ Live(s)
        BY <1>2, <4>1, SweptFacts DEF TypedTable, Live
      <4>3. /\ b \in Bucket /\ b.windowEnd = buckets[s].windowEnd
            /\ b.tokens = buckets[s].tokens - 1
            /\ b.windowEnd >= now
        <5>1. /\ Swept[s].tokens \in 1 .. RateLimit - 1 /\ Swept[s].windowEnd \in Nat
              /\ now \in Nat
          BY <1>2, <4>1, <4>2, GuardAssumption DEF Bucket, TypeOK
        <5>2. b = [tokens |-> Swept[s].tokens - 1, windowEnd |-> Swept[s].windowEnd]
          BY <4>2 DEF Bucket
        <5>3. Swept[s].tokens - 1 \in 0 .. RateLimit - 1
          BY <5>1, GuardAssumption
        <5> HIDE DEF b
        <5>4. b \in Bucket
          BY <5>1, <5>2, <5>3 DEF Bucket
        <5> QED BY <4>1, <4>2, <5>1, <5>2, <5>4 DEF Expired
      <4>4. buckets' = Put(Swept, s, b)
        BY <1>2, <4>1, SweptFacts DEF Put, TypedTable
      <4> HIDE DEF b
      <4>5. /\ Spent' = [Spent EXCEPT ![s] = RateLimit - b.tokens]
            /\ Closes' = [Closes EXCEPT ![s] = b.windowEnd]
        BY <1>2, <3>1, <4>3, <4>4, OthersKept
      <4>6. /\ Spent[s] = RateLimit - buckets[s].tokens
            /\ Closes[s] = b.windowEnd
            /\ buckets[s].tokens \in 1 .. RateLimit - 1
        BY <3>1, <4>1, <4>2, <4>3, GuardAssumption DEF Spent, Closes, Bucket
      <4>7. /\ Spent[s] \in 1 .. RateLimit - 1
            /\ Spent' = [Spent EXCEPT ![s] = @ + 1]
            /\ Closes' = Closes
        <5>1. RateLimit - b.tokens = Spent[s] + 1 /\ Spent[s] \in 1 .. RateLimit - 1
          BY <4>3, <4>6, GuardAssumption
        <5>2. Closes' = Closes
          BY <3>1, <4>5, <4>6 DEF Closes
        <5> QED BY <4>5, <5>1, <5>2
      <4>8. Window!Spend(s)
        BY <3>1, <4>7 DEF Window!Spend, Spent, Closes
      <4> QED BY <3>1, <4>8 DEF Window!Next
    <3> QED BY <2>2, <3>2, <3>3, <3>4, <3>5 DEF Check, s
  <2>3. CASE UNCHANGED vars
    BY <2>3 DEF vars, Window!vars, Live, Expired
  <2> QED BY <1>2, <2>1, <2>2, <2>3 DEF Next
<1> QED BY <1>1, <1>2, TypeCorrect, PTL DEF Spec, Window!Spec, ImplementsFixedWindow
-----------------------------------------------------------------------------
(* The role table and the allowlist.                                       *)
Holders(n) == {r \in Roles : \E w \in RoleLists[r] : Normalize(w) = n}

(* Whatever the order of the walk, there is a first role of any set of     *)
(* roles: FirstIn's choice is one of them.                                 *)
LEMMA FirstInChosen ==
    ASSUME NEW order \in [Roles -> Nat], NEW roles \in SUBSET Roles, roles # {}
    PROVE  FirstIn(roles, order) \in roles
<1> DEFINE places == {order[r] : r \in roles}
<1>1. places \subseteq Nat /\ places # {}
  OBVIOUS
<1>2. PICK least \in places : \A m \in places : ~(<<m, least>> \in OpToRel(<, Nat))
  <2> HIDE DEF places
  <2> QED BY <1>1, NatLessThanWellFounded, WFMin
<1>3. \A m \in places : least <= m
  <2> SUFFICES ASSUME NEW m \in places
               PROVE  least <= m
    OBVIOUS
  <2>1. m \in Nat /\ least \in Nat
    BY <1>1
  <2>2. ~(m < least)
    BY <1>2, <2>1 DEF OpToRel
  <2> QED BY <2>1, <2>2
<1>4. \E r \in roles : \A q \in roles : order[r] <= order[q]
  BY <1>3
<1> QED BY <1>4 DEF FirstIn

(* New gives every listed number, and no other, a role that lists it.      *)
LEMMA TableOfLists ==
    ASSUME NEW order \in Orders
    PROVE  /\ DOMAIN PhoneTo(order) = Listed
           /\ \A n \in Listed : PhoneTo(order)[n] \in Holders(n)
<1>1. order \in [Roles -> Nat]
  BY DEF Orders
<1>2. \A n \in Listed : Holders(n) # {}
  BY DEF Listed, Holders
<1>3. \A n \in Listed : FirstIn(Holders(n), order) \in Holders(n)
  BY <1>1, <1>2, FirstInChosen DEF Holders
<1> QED BY <1>3 DEF PhoneTo, Holders

ListedRoles == /\ DOMAIN phoneTo = Listed
               /\ \A n \in Listed : phoneTo[n] \in Holders(n)

(* A number a config lists under several roles gets one of them, the order *)
(* of the walk deciding which; it never gets a role that does not list it, *)
(* whatever punctuation it is written with, and no unlisted number gets    *)
(* any.                                                                    *)
THEOREM RolesAreListed == Spec => []ListedRoles
<1>1. Init => ListedRoles
  BY TableOfLists DEF Init, ListedRoles
<1>2. ListedRoles /\ [Next]_vars => ListedRoles'
  BY DEF ListedRoles, Next, Tick, Check, vars
<1> QED BY <1>1, <1>2, PTL DEF Spec

NoTrace == Allowlist => \A s \in Senders \ Listed : s \notin DOMAIN buckets /\ granted[s] = <<>>

LEMMA NoTraceStep == TypeOK /\ ListedRoles /\ NoTrace /\ [Next]_vars => NoTrace'
<1> SUFFICES ASSUME TypeOK, ListedRoles, NoTrace, [Next]_vars, Allowlist,
                    NEW x \in Senders \ Listed
             PROVE  x \notin DOMAIN buckets' /\ granted'[x] = <<>>
  BY DEF NoTrace
<1>1. x \notin DOMAIN buckets /\ granted[x] = <<>> /\ x \notin DOMAIN Swept
  BY SweptFacts DEF NoTrace
<1>2. CASE Tick \/ UNCHANGED vars
  BY <1>1, <1>2 DEF Tick, vars
<1>3. ASSUME NEW from \in Written, Check(from)
      PROVE  x \notin DOMAIN buckets' /\ granted'[x] = <<>>
  <2> DEFINE s == Normalize(from)
  <2>1. s \in Senders /\ granted \in [Senders -> Seq(Entry)]
    BY DEF Written, Normalize, TypeOK, Entry
  <2> HIDE DEF s
  <2>2. CASE Denied(s)
    BY <1>1, <2>2 DEF Denied
  <2>3. CASE Throttled(s)
    BY <1>1, <2>3 DEF Throttled
  <2>4. ASSUME NewWindow(s) \/ TakeToken(s)
        PROVE  s # x
    BY <2>4 DEF NewWindow, TakeToken, InWindow, Admitted, ListedRoles
  <2>5. CASE NewWindow(s)
    BY <1>1, <2>1, <2>4, <2>5 DEF NewWindow, Put, Grant
  <2>6. CASE TakeToken(s)
    BY <1>1, <2>1, <2>4, <2>6 DEF TakeToken, Grant
  <2> QED BY <1>3, <2>2, <2>3, <2>5, <2>6 DEF Check, s
<1> QED BY <1>2, <1>3 DEF Next

(* In allowlist mode a number under no role is never let through, and it   *)
(* leaves no bucket behind: strangers cannot fill the table.               *)
THEOREM StrangersLeaveNoTrace == Spec => []NoTrace
<1>1. Init => NoTrace
  BY DEF Init, NoTrace
<1>2. TypeOK /\ ListedRoles /\ NoTrace /\ [Next]_vars => NoTrace'
  BY NoTraceStep
<1> QED BY <1>1, <1>2, TypeCorrect, RolesAreListed, PTL DEF Spec
=============================================================================
