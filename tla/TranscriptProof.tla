-------------------------- MODULE TranscriptProof --------------------------
(***************************************************************************)
(* Proofs about transcription, for any callers, audio, provider, deadline, *)
(* attempts, delays, TTL and cache size.  The cache's bound rests on the   *)
(* entries that live being finitely many, though the hashes need not be.   *)
(***************************************************************************)
EXTENDS Transcript, FiniteSetTheorems, TLAPS

(* The shape of the state, with what a call knows at each of its places.   *)
CallOf(c) ==
    /\ at[c] # "idle" => key[c] \in Keys
    /\ at[c] \in {"calling", "failed"} => attempt[c] \in 1 .. MaxAttempts
    /\ at[c] = "sleeping" => attempt[c] \in 1 .. MaxAttempts - 1

CallInv ==
    /\ now \in 0 .. MaxTime /\ stopped \in BOOLEAN
    /\ at \in [Callers -> {"idle", "looking", "calling", "failed", "sleeping", "storing"}]
    /\ key \in [Callers -> Keys \cup {NoAudio}]
    /\ t \in [Callers -> 0 .. MaxTime + TTL]
    /\ attempt \in [Callers -> 0 .. MaxAttempts]
    /\ deadline \in [Callers -> 0 .. Never]
    /\ \A c \in Callers : CallOf(c)

CacheInv ==
    /\ IsFiniteSet(DOMAIN items) /\ Cardinality(DOMAIN items) <= MaxEntries
    /\ DOMAIN items \subseteq Keys
    /\ \A k \in DOMAIN items : items[k] \in 0 .. MaxTime + TTL

IInv == CallInv /\ CacheInv
-----------------------------------------------------------------------------
LEMMA MinOfTwo ==
    ASSUME NEW a \in Nat, NEW b \in Nat
    PROVE  Min({a, b}) \in {a, b} /\ Min({a, b}) <= a /\ Min({a, b}) <= b
<1>1. \E x \in {a, b} : \A y \in {a, b} : x <= y
  OBVIOUS
<1> QED BY <1>1 DEF Min

LEMMA Bounds == /\ MaxTime \in Nat /\ TTL \in Nat /\ Timeout \in Nat
                /\ MaxAttempts \in Nat \ {0} /\ MaxEntries \in Nat \ {0}
                /\ Never \in Nat /\ Never = MaxTime + 1
  BY TranscriptAssumption DEF Never

LEMMA UntilType ==
    ASSUME CallInv, NEW c \in Callers, attempt[c] \in 1 .. MaxAttempts - 1
    PROVE  \A end \in Until(c) : end \in 0 .. MaxTime + TTL
<1> SUFFICES ASSUME NEW d \in Delays[attempt[c]]
             PROVE  Min({now + d, MaxTime}) \in 0 .. MaxTime + TTL
  BY DEF Until
<1>1. d \in Nat
  BY TranscriptAssumption
<1>2. now + d \in Nat /\ MaxTime \in Nat /\ TTL \in Nat
  BY <1>1, Bounds DEF CallInv
<1>3. Min({now + d, MaxTime}) \in Nat /\ Min({now + d, MaxTime}) <= MaxTime
  BY <1>2, MinOfTwo
<1> QED BY <1>2, <1>3

LEMMA InitInv == Init => IInv
<1> SUFFICES ASSUME Init
             PROVE  IInv
  OBVIOUS
<1>1. CallInv
  <2>1. now \in 0 .. MaxTime /\ 0 \in 0 .. MaxTime + TTL /\ 0 \in 0 .. MaxAttempts
    BY Bounds DEF Init
  <2>2. Never \in 0 .. Never
    BY Bounds
  <2>3. \A c \in Callers : at[c] = "idle" /\ CallOf(c)
    BY DEF Init, CallOf
  <2> QED BY <2>1, <2>2, <2>3 DEF Init, CallInv
<1>2. DOMAIN items = {}
  BY DEF Init
<1>3. CacheInv
  BY <1>2, Bounds, FS_EmptySet DEF CacheInv
<1> QED BY <1>1, <1>3 DEF IInv

(* A caller that goes back to idle knows nothing any more.                 *)
LEMMA ReturnInv ==
    ASSUME CallInv, NEW c \in Callers, Return(c)
    PROVE  CallInv'
  BY Bounds DEF CallInv, CallOf, Return, Goto

LEMMA CallStep == CallInv /\ [Next]_vars => CallInv'
<1> SUFFICES ASSUME CallInv, [Next]_vars
             PROVE  CallInv'
  OBVIOUS
<1>1. ASSUME NEW c \in Callers, NEW k \in Keys, Begin(c, k)
      PROVE  CallInv'
  BY <1>1, Bounds DEF CallInv, CallOf, Begin, Goto
<1>2. ASSUME NEW c \in Callers, Hit(c) \/ Refused(c) \/ Permanent(c) \/ GiveUp(c) \/ Store(c)
      PROVE  CallInv'
  BY <1>2, ReturnInv DEF Hit, Refused, Permanent, GiveUp, Store
<1>3. ASSUME NEW c \in Callers, Miss(c)
      PROVE  CallInv'
  <2>1. now + Timeout \in Nat /\ Never \in Nat
    BY Bounds DEF CallInv
  <2>2. Min({now + Timeout, Never}) \in 0 .. Never
    BY <2>1, MinOfTwo
  <2>3. deadline' \in [Callers -> 0 .. Never]
    BY <1>3, <2>1, <2>2 DEF Miss, CallInv
  <2>4. /\ attempt' \in [Callers -> 0 .. MaxAttempts] /\ t' \in [Callers -> 0 .. MaxTime + TTL]
        /\ attempt' = [attempt EXCEPT ![c] = 1]
    BY <1>3, Bounds DEF Miss, CallInv
  <2>5. at[c] = "looking" /\ at' = [at EXCEPT ![c] = "calling"] /\ UNCHANGED <<now, stopped, key>>
    BY <1>3 DEF Miss, Goto
  <2>6. \A d \in Callers : CallOf(d)'
    BY <2>4, <2>5, Bounds DEF CallInv, CallOf
  <2> QED BY <2>3, <2>4, <2>5, <2>6 DEF CallInv
<1>4. ASSUME NEW c \in Callers, Success(c)
      PROVE  CallInv'
  BY <1>4, Bounds DEF CallInv, CallOf, Success, Goto
<1>5. ASSUME NEW c \in Callers, Transient(c)
      PROVE  CallInv'
  BY <1>5, Bounds DEF CallInv, CallOf, Transient, Goto
<1>6. ASSUME NEW c \in Callers, Sleep(c)
      PROVE  CallInv'
  <2>1. at[c] = "failed" /\ attempt[c] # MaxAttempts /\ at' = [at EXCEPT ![c] = "sleeping"]
    BY <1>6 DEF Sleep, LastAttempt, Goto
  <2>2. attempt[c] \in 1 .. MaxAttempts - 1
    BY <2>1, Bounds DEF CallInv, CallOf
  <2>3. t' \in [Callers -> 0 .. MaxTime + TTL]
    BY <1>6, <2>2, UntilType DEF Sleep, CallInv
  <2>4. UNCHANGED <<now, stopped, key, attempt, deadline>>
    BY <1>6 DEF Sleep
  <2> QED BY <2>1, <2>2, <2>3, <2>4 DEF CallInv, CallOf
<1>7. ASSUME NEW c \in Callers, Wake(c)
      PROVE  CallInv'
  <2>1. attempt[c] \in 1 .. MaxAttempts - 1 /\ at[c] = "sleeping"
    BY <1>7 DEF Wake, CallInv, CallOf
  <2>2. attempt[c] + 1 \in 1 .. MaxAttempts
    BY <2>1, Bounds
  <2>3. attempt' = [attempt EXCEPT ![c] = attempt[c] + 1]
    BY <1>7 DEF Wake
  <2>4. attempt' \in [Callers -> 0 .. MaxAttempts] /\ t' \in [Callers -> 0 .. MaxTime + TTL]
    BY <1>7, <2>2, <2>3, Bounds DEF Wake, CallInv
  <2>5. at' = [at EXCEPT ![c] = "calling"] /\ UNCHANGED <<now, stopped, key, deadline>>
    BY <1>7 DEF Wake, Goto
  <2> QED BY <2>1, <2>2, <2>3, <2>4, <2>5 DEF CallInv, CallOf
<1>8. CASE Tick
  BY <1>8, Bounds DEF Tick, callVars, CallInv, CallOf
<1>9. CASE Stop \/ UNCHANGED vars
  BY <1>9 DEF Stop, callVars, vars, CallInv, CallOf
<1> QED BY <1>1, <1>2, <1>3, <1>4, <1>5, <1>6, <1>7, <1>8, <1>9 DEF Next, Call
-----------------------------------------------------------------------------
(* The cache.                                                              *)
LEMMA LiveFacts ==
    ASSUME CacheInv
    PROVE  /\ Live \subseteq DOMAIN items /\ IsFiniteSet(Live)
           /\ Cardinality(Live) \in Nat /\ Cardinality(Live) <= MaxEntries
<1>1. Live \subseteq DOMAIN items
  BY DEF Live
<1>2. /\ IsFiniteSet(Live) /\ Cardinality(Live) <= Cardinality(DOMAIN items)
      /\ Cardinality(Live) \in Nat /\ Cardinality(DOMAIN items) \in Nat
  BY <1>1, FS_Subset, FS_CardinalityType DEF CacheInv
<1> QED BY <1>1, <1>2, Bounds DEF CacheInv

(* What may be kept leaves room for one more.                              *)
LEMMA EvictFacts ==
    ASSUME CacheInv, NEW kept \in Evict
    PROVE  /\ kept \subseteq Live /\ IsFiniteSet(kept) /\ Cardinality(kept) + 1 <= MaxEntries
           /\ Cardinality(kept) \in Nat
           /\ \A k \in Live \ kept : /\ Cardinality(Live) = MaxEntries
                                     /\ \A j \in Live : items[k] <= items[j]
<1> DEFINE n == Cardinality(Live)
<1>1. n \in Nat /\ n <= MaxEntries /\ IsFiniteSet(Live) /\ MaxEntries \in Nat
  BY LiveFacts, Bounds
<1>2. CASE n < MaxEntries
  <2>1. kept = Live
    BY <1>2 DEF Evict
  <2> QED BY <1>1, <1>2, <2>1
<1>3. CASE ~(n < MaxEntries)
  <2>1. n = MaxEntries
    BY <1>1, <1>3
  <2>2. PICK k \in Soonest(Live) : kept = Live \ {k}
    BY <1>3 DEF Evict
  <2>3. k \in Live /\ \A j \in Live : items[k] <= items[j]
    BY <2>2 DEF Soonest
  <2>4. IsFiniteSet(kept) /\ Cardinality(kept) = n - 1 /\ Cardinality(kept) \in Nat
    BY <1>1, <2>2, <2>3, FS_RemoveElement, FS_CardinalityType
  <2>5. Cardinality(kept) + 1 <= MaxEntries
    BY <1>1, <2>1, <2>4
  <2> QED BY <2>1, <2>2, <2>3, <2>4, <2>5
<1> QED BY <1>2, <1>3

LEMMA StoreFacts ==
    ASSUME IInv, NEW c \in Callers, Store(c)
    PROVE  /\ CacheInv'
           /\ \A k \in Live \ DOMAIN items' :
                 /\ Cardinality(Live) = MaxEntries
                 /\ \A j \in Live : items[k] <= items[j]
<1>1. PICK kept \in Evict :
         items' = [k \in kept \cup {key[c]} |-> IF k = key[c] THEN t[c] ELSE items[k]]
  BY DEF Store
<1>2. /\ kept \subseteq Live /\ IsFiniteSet(kept) /\ Cardinality(kept) + 1 <= MaxEntries
      /\ Cardinality(kept) \in Nat
      /\ \A k \in Live \ kept : /\ Cardinality(Live) = MaxEntries
                                /\ \A j \in Live : items[k] <= items[j]
  BY EvictFacts DEF IInv
<1>3. key[c] \in Keys /\ t[c] \in 0 .. MaxTime + TTL
  BY DEF Store, IInv, CallInv, CallOf
<1>4. DOMAIN items' = kept \cup {key[c]}
  BY <1>1
<1>5. /\ IsFiniteSet(kept \cup {key[c]})
      /\ Cardinality(kept \cup {key[c]}) \in {Cardinality(kept), Cardinality(kept) + 1}
  BY <1>2, FS_AddElement
<1>6. Cardinality(DOMAIN items') <= MaxEntries
  BY <1>2, <1>4, <1>5, Bounds
<1>7. \A k \in kept : k \in Keys /\ items[k] \in 0 .. MaxTime + TTL
  BY <1>2, LiveFacts DEF IInv, CacheInv
<1>8. \A k \in DOMAIN items' : k \in Keys /\ items'[k] \in 0 .. MaxTime + TTL
  BY <1>1, <1>3, <1>4, <1>7
<1>9. CacheInv'
  BY <1>4, <1>5, <1>6, <1>8 DEF CacheInv
<1> QED BY <1>2, <1>4, <1>9

LEMMA OnlyStores == [Next]_vars => UNCHANGED items \/ \E c \in Callers : Store(c)
  BY DEF Next, Call, Begin, Hit, Miss, Refused, Success, Transient, Permanent, GiveUp, Sleep,
         Wake, Tick, Stop, vars

LEMMA InvStep == IInv /\ [Next]_vars => IInv'
<1>1. IInv /\ UNCHANGED items => CacheInv'
  BY DEF IInv, CacheInv
<1> QED BY <1>1, CallStep, OnlyStores, StoreFacts DEF IInv
-----------------------------------------------------------------------------
(* The state keeps its shape, and the cache never holds more transcripts   *)
(* than its limit, however many goroutines store at once.                  *)
THEOREM TypeCorrect == Spec => []TypeOK
<1>1. IInv => TypeOK
  BY DEF IInv, CallInv, CacheInv, TypeOK
<1> QED BY <1>1, InitInv, InvStep, PTL DEF Spec

(* A store throws a live transcript out only of a full cache, and then the *)
(* one that expires soonest, whatever clock readings the callers act on.   *)
THEOREM FairEviction == Spec => EvictsSoonest
<1>1. IInv /\ [Next]_vars =>
        [\A k \in Live \ DOMAIN items' :
            /\ Cardinality(Live) = MaxEntries
            /\ \A j \in Live \cap DOMAIN items' : items'[j] = items[j] => items[k] <= items[j]]_vars
  <2> SUFFICES ASSUME IInv, [Next]_vars, NEW k \in Live \ DOMAIN items'
               PROVE  /\ Cardinality(Live) = MaxEntries
                      /\ \A j \in Live : items[k] <= items[j]
    OBVIOUS
  <2>1. CASE UNCHANGED items
    BY <2>1 DEF Live
  <2>2. ASSUME NEW c \in Callers, Store(c)
        PROVE  /\ Cardinality(Live) = MaxEntries
               /\ \A j \in Live : items[k] <= items[j]
    BY <2>2, StoreFacts
  <2> QED BY <2>1, <2>2, OnlyStores
<1> QED BY <1>1, InitInv, InvStep, PTL DEF Spec, EvictsSoonest

(* A call whose context is done makes no attempt after the one it is in.   *)
THEOREM OneLateAttempt == Spec => LateCallIsLast
<1>1. IInv /\ [Next]_vars =>
        [\A c \in Callers : at[c] = "calling" /\ Done(c) =>
            at'[c] \in {"calling", "idle"} /\ attempt'[c] \in {attempt[c], 0}]_vars
  <2> SUFFICES ASSUME IInv, [Next]_vars, NEW c \in Callers, at[c] = "calling", Done(c)
               PROVE  at'[c] \in {"calling", "idle"} /\ attempt'[c] \in {attempt[c], 0}
    OBVIOUS
  <2>1. /\ at \in [Callers -> {"idle", "looking", "calling", "failed", "sleeping", "storing"}]
        /\ attempt \in [Callers -> 0 .. MaxAttempts]
    BY DEF IInv, CallInv
  <2>2. CASE UNCHANGED <<at, attempt>>
    BY <2>2
  <2>3. ASSUME NEW d \in Callers, Call(d) \/ \E k \in Keys : Begin(d, k)
        PROVE  at'[c] \in {"calling", "idle"} /\ attempt'[c] \in {attempt[c], 0}
    <3>1. CASE d # c
      BY <2>1, <2>3, <3>1 DEF Call, Begin, Hit, Miss, Refused, Success, Transient, Permanent,
                              GiveUp, Sleep, Wake, Store, Return, Goto
    <3>2. CASE d = c
      <4>1. Permanent(c)
        BY <2>3, <3>2 DEF Call, Begin, Hit, Miss, Refused, Success, Transient, GiveUp, Sleep,
                          Wake, Store
      <4> QED BY <2>1, <4>1 DEF Permanent, Return, Goto
    <3> QED BY <3>1, <3>2
  <2> QED BY <2>2, <2>3 DEF Next, Tick, Stop, callVars, vars
<1> QED BY <1>1, InitInv, InvStep, PTL DEF Spec, LateCallIsLast
=============================================================================
