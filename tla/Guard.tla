------------------------------- MODULE Guard -------------------------------
(***************************************************************************)
(* internal/security.Guard: the allowlist and the per-sender rate limit    *)
(* every inbound message passes before it is handled.                      *)
(*                                                                         *)
(* Check runs under the guard's mutex, so each call is one action.  The    *)
(* limit is a table of buckets, one per sender, created on the first       *)
(* message, replaced lazily once its window is over, and reaped by a sweep *)
(* that rides on some later call of ANY sender.  What has to be right is   *)
(* that none of this can be noticed: no sender gets more (or less) than a  *)
(* plain fixed window would give it.                                       *)
(***************************************************************************)
EXTENDS RoleTable, Integers, Sequences

CONSTANTS RateLimit,    \* config rate_limit, at least 1 after Validate
          RateWindow,   \* config rate_window
          SweepFloor,   \* the minute below which sweeps are not scheduled
          Allowlist,    \* mode == "allowlist"
          MaxTime       \* bound of the model's clock

ASSUME GuardAssumption == /\ RateLimit \in Nat \ {0}
                          /\ RateWindow \in Nat
                          /\ SweepFloor \in Nat
                          /\ Allowlist \in BOOLEAN
                          /\ MaxTime \in Nat

VARIABLES now,          \* the clock g.now() reads
          phoneTo,      \* number -> role, as New built it
          buckets,      \* sender -> tokens left and end of its window
          lastSweep,    \* when expired buckets were last reaped
          verdict,      \* outcome of the latest Check
          granted       \* history: each sender's allowed messages, when they
                        \* came and when the window they were charged to opened

vars == <<now, phoneTo, buckets, lastSweep, verdict, granted>>

SweepEvery == IF RateWindow < SweepFloor THEN SweepFloor ELSE RateWindow

NoVerdict == [outcome |-> "none"]

Init == /\ now = 0
        /\ \E order \in Orders : phoneTo = PhoneTo(order)
        /\ buckets = <<>>
        /\ lastSweep = 0
        /\ verdict = NoVerdict
        /\ granted = [s \in Senders |-> <<>>]

Tick == /\ now < MaxTime
        /\ now' = now + 1
        /\ UNCHANGED <<phoneTo, buckets, lastSweep, verdict, granted>>
-----------------------------------------------------------------------------
Expired(bucket) == now > bucket.windowEnd

SweepDue == now - lastSweep >= SweepEvery

(* The table the lookup sees: without its expired buckets when a sweep is  *)
(* due, as it was otherwise.                                               *)
SweptNothing == buckets

SweptEverything == IF SweepDue THEN <<>> ELSE buckets

Swept == IF SweepDue
         THEN [s \in {s \in DOMAIN buckets : ~Expired(buckets[s])} |-> buckets[s]]
         ELSE buckets

SweepClock == lastSweep' = IF SweepDue THEN now ELSE lastSweep

Put(table, s, bucket) ==
    [x \in DOMAIN table \cup {s} |-> IF x = s THEN bucket ELSE table[x]]

Answer(s, outcome) == verdict' = [outcome |-> outcome, sender |-> s, at |-> now]

Grant(s, opened) ==
    granted' = [granted EXCEPT ![s] = Append(@, [at |-> now, opened |-> opened])]

(* An unlisted sender is refused before the mutex is taken.                *)
Denied(s) == /\ Allowlist
             /\ s \notin DOMAIN phoneTo
             /\ Answer(s, "Deny")
             /\ UNCHANGED <<buckets, lastSweep, granted>>

Admitted(s) == Allowlist => s \in DOMAIN phoneTo

(* No bucket, or one whose window is over: a fresh window, one token spent *)
NewWindowKeepsTokens(s) ==
    /\ Admitted(s)
    /\ s \in DOMAIN Swept => Expired(Swept[s])
    /\ buckets' = Put(Swept, s, [tokens |-> RateLimit, windowEnd |-> now + RateWindow])
    /\ SweepClock
    /\ Answer(s, "Allow")
    /\ Grant(s, now)

NewWindow(s) ==
    /\ Admitted(s)
    /\ s \in DOMAIN Swept => Expired(Swept[s])
    /\ buckets' = Put(Swept, s, [tokens |-> RateLimit - 1, windowEnd |-> now + RateWindow])
    /\ SweepClock
    /\ Answer(s, "Allow")
    /\ Grant(s, now)

(* A bucket whose window is open answers for itself.                       *)
InWindow(s) == /\ Admitted(s)
               /\ s \in DOMAIN Swept
               /\ ~Expired(Swept[s])

TakeTokenSliding(s) ==
    /\ InWindow(s)
    /\ Swept[s].tokens > 0
    /\ buckets' = Put(Swept, s, [tokens |-> Swept[s].tokens - 1,
                                 windowEnd |-> now + RateWindow])
    /\ SweepClock
    /\ Answer(s, "Allow")
    /\ Grant(s, Swept[s].windowEnd - RateWindow)

TakeToken(s) ==
    /\ InWindow(s)
    /\ Swept[s].tokens > 0
    /\ buckets' = [Swept EXCEPT ![s].tokens = @ - 1]
    /\ SweepClock
    /\ Answer(s, "Allow")
    /\ Grant(s, Swept[s].windowEnd - RateWindow)

Throttled(s) == /\ InWindow(s)
                /\ Swept[s].tokens <= 0
                /\ buckets' = Swept
                /\ SweepClock
                /\ Answer(s, "RateLimited")
                /\ UNCHANGED granted

Check(from) == /\ LET s == Normalize(from)
                  IN  Denied(s) \/ NewWindow(s) \/ TakeToken(s) \/ Throttled(s)
               /\ UNCHANGED <<now, phoneTo>>

Next == Tick \/ \E from \in Written : Check(from)

Spec == Init /\ [][Next]_vars
-----------------------------------------------------------------------------
TypeOK ==
    /\ now \in Nat /\ lastSweep \in Nat /\ lastSweep <= now
    /\ DOMAIN buckets \subseteq Senders
    /\ buckets \in [DOMAIN buckets -> [tokens : 0 .. RateLimit - 1, windowEnd : Nat]]
    /\ granted \in [Senders -> Seq([at : Nat, opened : Nat])]
    /\ verdict \in {NoVerdict}
          \cup [outcome : {"Allow", "Deny", "RateLimited"}, sender : Senders, at : Nat]

(* However a sender times its messages around window ends and other        *)
(* senders' sweeps, no stretch of time as long as the window holds more    *)
(* than two windows' worth of its messages.                                *)
AtMostTwoWindowsWorth ==
    \A s \in Senders :
        \A i \in 1 .. Len(granted[s]) - 2 * RateLimit :
            granted[s][i + 2 * RateLimit].at > granted[s][i].at + RateWindow

(* A sender is only turned away for what it did itself: when Check answers *)
(* RateLimited, RateLimit messages of that sender, no fewer, were let      *)
(* through within the window length that ends at the call.                 *)
ThrottledForCause ==
    verdict.outcome = "RateLimited" =>
        LET log == granted[verdict.sender]
        IN  /\ Len(log) >= RateLimit
            /\ log[Len(log) - RateLimit + 1].at >= verdict.at - RateWindow

(* The table cannot grow with every sender ever seen: a bucket that was    *)
(* already over when the latest sweep ran is gone.                         *)
NoBucketOutlivesSweep ==
    \A s \in DOMAIN buckets : buckets[s].windowEnd >= lastSweep

(* The guard is a fixed window per sender: lazily expired and reaped       *)
(* buckets are shut windows, and a Check moves no window but its sender's. *)
Live(s) == s \in DOMAIN buckets /\ ~Expired(buckets[s])

Window == INSTANCE FixedWindow WITH
    spent  <- [s \in Senders |-> IF Live(s) THEN RateLimit - buckets[s].tokens ELSE 0],
    closes <- [s \in Senders |-> IF Live(s) THEN buckets[s].windowEnd ELSE 0]

ImplementsFixedWindow == Window!Spec
=============================================================================
