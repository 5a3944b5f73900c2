----------------------------- MODULE Transcript -----------------------------
(***************************************************************************)
(* internal/transcribe: cache(retry(provider)) for the cloud providers,    *)
(* cache(provider) for the local one, called at once by the poller and by  *)
(* webhook handlers.  The lock of the cache is held for the look-up and    *)
(* for the store only, and both act on clock readings made before it was   *)
(* taken.  An audio message is its hash; a transcript is not looked at.    *)
(***************************************************************************)
EXTENDS Integers, FiniteSets, FiniteSetsExt

CONSTANTS Callers,      \* goroutines that transcribe
          Keys,         \* hashes of audio messages
          Cloud,        \* a cloud provider: retried, under a deadline
          Timeout,      \* of a cloud provider; 0 is none
          MaxAttempts,  \* 3 in the code
          Delays,       \* attempt -> how long the sleep after it may be
          TTL,          \* of a cached transcript
          MaxEntries,   \* defaultCacheMaxEntries
          MaxTime       \* bound of the clock

ASSUME TranscriptAssumption ==
    /\ Cloud \in BOOLEAN
    /\ Timeout \in Nat /\ TTL \in Nat
    /\ MaxAttempts \in Nat \ {0} /\ MaxEntries \in Nat \ {0}
    /\ Delays \in [1 .. MaxAttempts - 1 -> SUBSET Nat \ {{}}]
    /\ MaxTime \in Nat

VARIABLES now,
          stopped,      \* main has cancelled the context of all
          at,           \* caller -> where its call is: see TypeOK
          key,          \* caller -> the audio it transcribes
          t,            \* caller -> clock reading, end of its sleep, or expiry
          attempt,      \* caller -> attempts begun
          deadline,     \* caller -> when its context ends, or Never
          items         \* hash -> when its transcript expires

vars == <<now, stopped, at, key, t, attempt, deadline, items>>
callVars == <<at, key, t, attempt, deadline>>

Never == MaxTime + 1
NoAudio == "none"

Init == /\ now = 0
        /\ stopped = FALSE
        /\ at = [c \in Callers |-> "idle"]
        /\ key = [c \in Callers |-> NoAudio]
        /\ t = [c \in Callers |-> 0]
        /\ attempt = [c \in Callers |-> 0]
        /\ deadline = [c \in Callers |-> Never]
        /\ items = << >>
-----------------------------------------------------------------------------
Done(c) == stopped \/ now >= deadline[c]

Goto(c, place) == at' = [at EXCEPT ![c] = place]

(* now := c.nowFunc(), before the lock.                                    *)
Begin(c, k) == /\ at[c] = "idle"
               /\ Goto(c, "looking")
               /\ key' = [key EXCEPT ![c] = k]
               /\ t' = [t EXCEPT ![c] = now]
               /\ UNCHANGED <<now, stopped, attempt, deadline, items>>

Return(c) == /\ Goto(c, "idle")
             /\ key' = [key EXCEPT ![c] = NoAudio]
             /\ t' = [t EXCEPT ![c] = 0]
             /\ attempt' = [attempt EXCEPT ![c] = 0]
             /\ deadline' = [deadline EXCEPT ![c] = Never]
             /\ UNCHANGED <<now, stopped>>

Cached(c) == key[c] \in DOMAIN items /\ t[c] < items[key[c]]

Hit(c) == /\ at[c] = "looking"
          /\ Cached(c)
          /\ Return(c)
          /\ UNCHANGED items

(* The deadline of the retry wrapper spans all attempts.                   *)
Miss(c) == /\ at[c] = "looking"
           /\ ~Cached(c)
           /\ ~(Cloud /\ stopped)
           /\ Goto(c, "calling")
           /\ t' = [t EXCEPT ![c] = 0]
           /\ attempt' = [attempt EXCEPT ![c] = 1]
           /\ deadline' = [deadline EXCEPT
                 ![c] = IF Cloud /\ Timeout > 0 THEN Min({now + Timeout, Never}) ELSE Never]
           /\ UNCHANGED <<now, stopped, key, items>>

(* The retry wrapper finds its context done before it calls anybody.       *)
Refused(c) == /\ at[c] = "looking"
              /\ ~Cached(c)
              /\ Cloud /\ stopped
              /\ Return(c)
              /\ UNCHANGED items
-----------------------------------------------------------------------------
(* The transcript is in, and its expiry is computed before the lock.       *)
Success(c) == /\ at[c] = "calling"
              /\ ~Done(c)
              /\ Goto(c, "storing")
              /\ t' = [t EXCEPT ![c] = now + TTL]
              /\ UNCHANGED <<now, stopped, key, attempt, deadline, items>>

(* Status 429 or 5xx: isRetryable.                                         *)
Transient(c) == /\ at[c] = "calling"
                /\ ~Done(c)
                /\ Goto(c, "failed")
                /\ UNCHANGED <<now, stopped, key, t, attempt, deadline, items>>

(* Any other error, a done context among them, is not retried.             *)
Permanent(c) == /\ at[c] = "calling"
                /\ Return(c)
                /\ UNCHANGED items

LastAttempt(c) == ~Cloud \/ attempt[c] = MaxAttempts

GiveUp(c) == /\ at[c] = "failed"
             /\ LastAttempt(c) \/ Done(c)
             /\ Return(c)
             /\ UNCHANGED items

(* The delay and its jitter; the clock ends at MaxTime.                    *)
Until(c) == {Min({now + d, MaxTime}) : d \in Delays[attempt[c]]}

SleepAnyway(c) == /\ at[c] \in {"failed", "calling"}
                  /\ ~LastAttempt(c)
                  /\ Goto(c, "sleeping")
                  /\ \E end \in Until(c) : t' = [t EXCEPT ![c] = end]
                  /\ UNCHANGED <<now, stopped, key, attempt, deadline, items>>

Sleep(c) == /\ at[c] = "failed"
            /\ ~LastAttempt(c) /\ ~Done(c)
            /\ Goto(c, "sleeping")
            /\ \E end \in Until(c) : t' = [t EXCEPT ![c] = end]
            /\ UNCHANGED <<now, stopped, key, attempt, deadline, items>>

WakeInTime(c) == /\ at[c] = "sleeping"
                 /\ now >= t[c] /\ ~Done(c)
                 /\ Goto(c, "calling")
                 /\ t' = [t EXCEPT ![c] = 0]
                 /\ attempt' = [attempt EXCEPT ![c] = @ + 1]
                 /\ UNCHANGED <<now, stopped, key, deadline, items>>

(* time.Sleep does not watch the context, nor does the loop after it.      *)
Wake(c) == /\ at[c] = "sleeping"
           /\ now >= t[c]
           /\ Goto(c, "calling")
           /\ t' = [t EXCEPT ![c] = 0]
           /\ attempt' = [attempt EXCEPT ![c] = @ + 1]
           /\ UNCHANGED <<now, stopped, key, deadline, items>>
-----------------------------------------------------------------------------
Live == {k \in DOMAIN items : now < items[k]}

Soonest(ks) == {k \in ks : \A j \in ks : items[k] <= items[j]}

EvictAny == IF Cardinality(Live) < MaxEntries THEN {Live} ELSE {Live \ {k} : k \in Live}

EvictExpired == {Live}

(* What evictLocked may leave: the entries that live, less the one closest *)
(* to its expiry when they fill the cache.                                 *)
Evict == IF Cardinality(Live) < MaxEntries THEN {Live} ELSE {Live \ {k} : k \in Soonest(Live)}

Store(c) == /\ at[c] = "storing"
            /\ \E kept \in Evict :
                  items' = [k \in kept \cup {key[c]} |-> IF k = key[c] THEN t[c] ELSE items[k]]
            /\ Return(c)

Tick == /\ now < MaxTime
        /\ now' = now + 1
        /\ UNCHANGED <<stopped, callVars, items>>

Stop == /\ ~stopped
        /\ stopped' = TRUE
        /\ UNCHANGED <<now, callVars, items>>

Call(c) == \/ Hit(c) \/ Miss(c) \/ Refused(c) \/ Success(c) \/ Transient(c) \/ Permanent(c)
           \/ GiveUp(c) \/ Sleep(c) \/ Wake(c) \/ Store(c)

Next == \/ \E c \in Callers : Call(c) \/ \E k \in Keys : Begin(c, k)
        \/ Tick \/ Stop

Spec == Init /\ [][Next]_vars

(* Goroutines run and time passes; the deadline ends a provider's call (a  *)
(* local provider is taken to end by itself).  Nobody has to call.         *)
FairSpec == Spec /\ WF_vars(Tick) /\ \A c \in Callers : WF_vars(Call(c))
-----------------------------------------------------------------------------
(* The shape of the state, and the ceiling on the memory the cache takes.  *)
TypeOK ==
    /\ now \in 0 .. MaxTime /\ stopped \in BOOLEAN
    /\ at \in [Callers -> {"idle", "looking", "calling", "failed", "sleeping", "storing"}]
    /\ key \in [Callers -> Keys \cup {NoAudio}]
    /\ t \in [Callers -> 0 .. MaxTime + TTL]
    /\ attempt \in [Callers -> 0 .. MaxAttempts]
    /\ deadline \in [Callers -> 0 .. Never]
    /\ DOMAIN items \subseteq Keys /\ Cardinality(DOMAIN items) <= MaxEntries
    /\ \A k \in DOMAIN items : items[k] \in 0 .. MaxTime + TTL

(* A live transcript leaves the cache only when the cache is full, and     *)
(* then none that stays behind, the new one excepted, would expire sooner: *)
(* whatever two callers that store at once have read from the clock.       *)
EvictsSoonest == [][\A k \in Live \ DOMAIN items' :
    /\ Cardinality(Live) = MaxEntries
    /\ \A j \in Live \cap DOMAIN items' : items'[j] = items[j] => items[k] <= items[j]]_vars

(* A deadline that passes during the backoff is noticed late, but costs    *)
(* one attempt at most: an attempt that is under way, or begins, when the  *)
(* context is done is the last one.                                        *)
LateCallIsLast == [][\A c \in Callers :
    at[c] = "calling" /\ Done(c) => at'[c] \in {"calling", "idle"} /\ attempt'[c] \in {attempt[c], 0}]_vars

(* Whoever transcribes, the poller's only goroutine among them, is not     *)
(* held up for ever.                                                       *)
EveryCallReturns == \A c \in Callers : (at[c] # "idle") ~> (at[c] = "idle")
=============================================================================
