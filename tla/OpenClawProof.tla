--------------------------- MODULE OpenClawProof ---------------------------
(***************************************************************************)
(* Proofs about the supervised connection and the requests on it, for any  *)
(* number of sessions and callers.  SupInv is about the supervisor alone:  *)
(* which session may be read, published or up at each of its stages.       *)
(* CallInv is about the callers: where a caller stands, what it has        *)
(* registered, and which ids a session has given out.                      *)
(***************************************************************************)
EXTENDS OpenClaw, TLAPS

Running(s) == reader[s] \in {"reading", "drained"}

SupInv ==
    /\ \A s \in Sessions : s > dialed => link[s] = "none" /\ reader[s] = "none"
    /\ cur # None => cur = dialed /\ reader[cur] # "none"
    /\ sup \in {"dial", "install"} => cur = None
    /\ sup = "install" => dialed \in Sessions /\ reader[dialed] = "none"
    /\ sup = "watch" => watched = dialed /\ watched \in Sessions
    /\ \A s \in Sessions : Running(s) =>
          s = dialed /\ sup \notin {"clear", "dial", "install", "pause", "dropped"}
    /\ \A s \in Sessions : link[s] = "up" =>
          \/ sup = "install" /\ s = dialed
          \/ cur = s /\ reader[s] = "reading"
    /\ sup = "exited" => cur = None
    /\ main = "closed" => sup = "exited"

(* The steps that touch the supervisor's variables, seen from there.       *)
SupStep == \/ Supervising \/ Ripen \/ Closing
           \/ \E s \in Sessions : Lose(s) \/ ReadFails(s) \/ CloseDone(s)
           \/ UNCHANGED supVars

LEMMA NextIsSupStep == [Next]_vars => SupStep
  BY DEF Next, SupStep, vars, Respond, Drain, Asking, Begin, SessionFound, WaitRefused,
         Register, Write, WriteFails, Answered, Interrupted, Expire, Ended
-----------------------------------------------------------------------------
LEMMA SupInitOK == Init => SupTypeOK /\ SupInv
<1> USE DEF Init, SupInit, None
<1>1. ASSUME Init PROVE SupTypeOK
  <2>1. /\ MaxSessions \in Nat \ {0} /\ InitialBackoff \in InitialBackoff .. MaxBackoff
        /\ 0 \in 0 .. MaxSessions
    BY SupervisorAssumption
  <2>2. /\ link \in [Sessions -> {"none", "up", "lost", "closed"}]
        /\ reader \in [Sessions -> {"none", "reading", "drained", "exited"}]
    BY <1>1
  <2>3. /\ backoff \in InitialBackoff .. MaxBackoff /\ dialed \in 0 .. MaxSessions
        /\ waited \in 0 .. MaxBackoff
    BY <1>1, <2>1, SupervisorAssumption
  <2> QED BY <1>1, <2>2, <2>3 DEF SupTypeOK, Stages
<1>2. ASSUME Init PROVE SupInv
  BY <1>2 DEF SupInv, Running
<1> QED BY <1>1, <1>2

LEMMA HangupType ==
    ASSUME NEW s, Hangup(s), SupTypeOK
    PROVE  /\ link' \in [Sessions -> {"none", "up", "lost", "closed"}]
           /\ \A t \in Sessions : link'[t] = IF t = s /\ s # None THEN "closed" ELSE link[t]
  BY DEF Hangup, SupTypeOK, Sessions, None

LEMMA SupTypeStep == ASSUME SupTypeOK, SupInv, SupStep PROVE SupTypeOK'
<1> USE DEF SupTypeOK, Stages
<1>0. /\ MaxSessions \in Nat /\ InitialBackoff \in Nat /\ MaxBackoff \in Nat
      /\ InitialBackoff <= MaxBackoff /\ dialed \in Nat
  BY SupervisorAssumption
<1>1. CASE ClearCur
  BY <1>1 DEF ClearCur
<1>2. CASE Handshake
  <2>1. dialed' \in Sessions /\ dialed' \in 0 .. MaxSessions
    BY <1>0, <1>2 DEF Handshake, Sessions
  <2> QED BY <1>2, <2>1 DEF Handshake
<1>3. CASE DialFails \/ Rejected
  BY <1>3 DEF DialFails, Rejected, Failed
<1>4. CASE Install
  BY <1>4 DEF Install, SupInv
<1>5. CASE InstallRefused
  <2>1. Hangup(dialed)
    BY <1>5 DEF InstallRefused
  <2> QED BY <1>5, <2>1, HangupType DEF InstallRefused, Failed
<1>6. CASE Top \/ SessionLost \/ Stop
  BY <1>6 DEF Top, SessionLost, Stop
<1>14. CASE Ripen
  <2>1. waited' \in 0 .. MaxBackoff
    BY <1>0, <1>14 DEF Ripen
  <2> QED BY <1>14, <2>1 DEF Ripen
<1>7. CASE Dropped
  BY <1>0, <1>7 DEF Dropped
<1>8. CASE Pause
  <2>1. backoff' \in InitialBackoff .. MaxBackoff /\ waited' \in 0 .. MaxBackoff
    BY <1>0, <1>8 DEF Pause, Doubled
  <2> QED BY <1>8, <2>1 DEF Pause
<1>9. CASE Exit
  <2>1. Hangup(cur)
    BY <1>9 DEF Exit
  <2> QED BY <1>9, <2>1, HangupType DEF Exit
<1>10. CASE \E s \in Sessions : Lose(s) \/ ReadFails(s) \/ CloseDone(s)
  BY <1>10 DEF Lose, ReadFails, CloseDone
<1>11. CASE Signal \/ CloseEnd
  BY <1>11 DEF Signal, CloseEnd
<1>12. CASE CloseBegin
  <2>1. Hangup(cur)
    BY <1>12 DEF CloseBegin
  <2> QED BY <1>12, <2>1, HangupType DEF CloseBegin
<1>13. CASE UNCHANGED supVars
  BY <1>13 DEF supVars
<1> QED
  BY <1>1, <1>2, <1>3, <1>4, <1>5, <1>6, <1>7, <1>8, <1>9, <1>10, <1>11, <1>12, <1>13,
     <1>14 DEF SupStep, Supervising, Closing

LEMMA SupInvStep == ASSUME SupTypeOK, SupInv, SupStep PROVE SupInv'
<1> USE DEF SupInv, Running
<1>0. /\ dialed \in Nat /\ cur \in Sessions \cup {None} /\ 0 \notin Sessions
      /\ Sessions \subseteq Nat /\ None = 0
      /\ reader \in [Sessions -> {"none", "reading", "drained", "exited"}]
      /\ link \in [Sessions -> {"none", "up", "lost", "closed"}]
  BY DEF SupTypeOK, Sessions, None
<1>1. CASE ClearCur
  BY <1>0, <1>1 DEF ClearCur
<1>2. CASE Handshake
  <2>0. MaxSessions \in Nat /\ dialed \in 0 .. MaxSessions /\ dialed' \in Sessions
    BY SupervisorAssumption, <1>2 DEF SupTypeOK, Handshake, Sessions
  <2>1. /\ dialed' = dialed + 1 /\ cur' = None /\ cur = None
        /\ reader' = reader /\ sup' = "install" /\ sup = "dial" /\ main' = main
        /\ \A s \in Sessions : link'[s] = IF s = dialed' THEN "up" ELSE link[s]
    BY <1>0, <1>2, <2>0 DEF Handshake
  <2> QED BY <1>0, <2>0, <2>1
<1>3. CASE DialFails \/ Rejected
  BY <1>0, <1>3 DEF DialFails, Rejected, Failed
<1>4. CASE Install
  <2>1. /\ dialed' = dialed /\ dialed \in Sessions /\ cur' = dialed /\ link' = link
        /\ sup' = "top" /\ sup = "install" /\ (main' = "closed" => main = "closed")
        /\ \A s \in Sessions : reader'[s] = IF s = dialed THEN "reading" ELSE reader[s]
    BY <1>0, <1>4 DEF Install
  <2> QED BY <1>0, <2>1
<1>5. CASE InstallRefused
  <2>1. Hangup(dialed)
    BY <1>5 DEF InstallRefused
  <2> QED BY <1>0, <1>5, <2>1, HangupType DEF InstallRefused, Failed
<1>6. CASE Top \/ Ripen \/ SessionLost \/ Stop \/ Dropped \/ Pause
  BY <1>0, <1>6 DEF Top, Ripen, SessionLost, Over, Stop, Dropped, Pause
<1>9. CASE Exit
  <2>1. Hangup(cur)
    BY <1>9 DEF Exit
  <2> QED BY <1>0, <1>9, <2>1, HangupType DEF Exit
<1>10. CASE \E s \in Sessions : Lose(s) \/ ReadFails(s) \/ CloseDone(s)
  <2>1. PICK s \in Sessions : Lose(s) \/ ReadFails(s) \/ CloseDone(s)
    BY <1>10
  <2>2. CASE Lose(s)
    BY <1>0, <2>2 DEF Lose
  <2>3. CASE ReadFails(s)
    BY <1>0, <2>3 DEF ReadFails
  <2>4. CASE CloseDone(s)
    BY <1>0, <2>4 DEF CloseDone
  <2> QED BY <2>1, <2>2, <2>3, <2>4
<1>11. CASE Signal \/ CloseEnd
  BY <1>0, <1>11 DEF Signal, CloseEnd
<1>12. CASE CloseBegin
  <2>1. Hangup(cur)
    BY <1>12 DEF CloseBegin
  <2> QED BY <1>0, <1>12, <2>1, HangupType DEF CloseBegin
<1>13. CASE UNCHANGED supVars
  BY <1>13 DEF supVars
<1> QED
  BY <1>1, <1>2, <1>3, <1>4, <1>5, <1>6, <1>9, <1>10, <1>11, <1>12, <1>13
     DEF SupStep, Supervising, Closing

(* Reconnecting never has two read loops going.                            *)
THEOREM Generations == Spec => []OneGeneration
<1>1. Init => SupTypeOK /\ SupInv
  BY SupInitOK
<1>2. SupTypeOK /\ SupInv /\ [Next]_vars => (SupTypeOK /\ SupInv)'
  BY NextIsSupStep, SupTypeStep, SupInvStep
<1>3. SupInv => OneGeneration
  BY DEF SupInv, OneGeneration, Running
<1> QED BY <1>1, <1>2, <1>3, PTL DEF Spec

(* Close leaves no connection up, none published and no supervisor.        *)
THEOREM CleanClose == Spec => []CloseLeavesNothing
<1>1. Init => SupTypeOK /\ SupInv
  BY SupInitOK
<1>2. SupTypeOK /\ SupInv /\ [Next]_vars => (SupTypeOK /\ SupInv)'
  BY NextIsSupStep, SupTypeStep, SupInvStep
<1>3. SupTypeOK /\ SupInv => CloseLeavesNothing
  BY DEF SupTypeOK, SupInv, CloseLeavesNothing, Sessions, None
<1> QED BY <1>1, <1>2, <1>3, PTL DEF Spec

(* The next wait that the waits served so far call for.                    *)
NextWait == IF waited = 0 THEN InitialBackoff
            ELSE IF 2 * waited > MaxBackoff THEN MaxBackoff ELSE 2 * waited

SteadyUp == stable /\ sup \in {"watch", "dropped"}

(* Between the moment a session proves stable and its loss the next wait   *)
(* is still the long one: Dropped has yet to reset it.                     *)
WaitInv == /\ SteadyUp => waited = 0
           /\ SteadyUp \/ sup \in {"exit", "exited"} \/ backoff = NextWait

LEMMA WaitStep == ASSUME SupTypeOK, WaitInv, SupStep PROVE WaitInv'
<1> USE DEF WaitInv, SteadyUp, NextWait
<1>0. /\ InitialBackoff \in Nat \ {0} /\ MaxBackoff \in Nat /\ backoff \in Nat
      /\ InitialBackoff <= backoff /\ waited \in Nat
  BY SupervisorAssumption DEF SupTypeOK
<1>1. CASE Dropped
  BY <1>1 DEF Dropped
<1>2. CASE Pause
  BY <1>0, <1>2 DEF Pause, Doubled
<1>3. CASE Top
  BY <1>3 DEF Top
<1>4. CASE Ripen
  BY <1>4 DEF Ripen
<1>5. CASE Install \/ InstallRefused \/ DialFails \/ Rejected
  BY <1>5 DEF Install, InstallRefused, DialFails, Rejected, Failed
<1>6. CASE ClearCur \/ Handshake \/ SessionLost \/ Stop \/ Exit
  BY <1>6 DEF ClearCur, Handshake, SessionLost, Stop, Exit
<1>7. CASE Closing \/ \E s \in Sessions : Lose(s) \/ ReadFails(s) \/ CloseDone(s)
  BY <1>7 DEF Closing, Signal, CloseBegin, CloseEnd, Lose, ReadFails, CloseDone
<1>8. CASE UNCHANGED supVars
  BY <1>8 DEF supVars
<1> QED BY <1>1, <1>2, <1>3, <1>4, <1>5, <1>6, <1>7, <1>8 DEF SupStep, Supervising

(* Every wait is twice the one before it, up to the cap, unless a session  *)
(* stayed up in between.                                                   *)
THEOREM BackoffEscalates == Spec => []WaitsGrow
<1>1. Init => SupTypeOK /\ SupInv
  BY SupInitOK
<1>2. Init => WaitInv
  BY DEF Init, SupInit, WaitInv, SteadyUp, NextWait
<1>3. SupTypeOK /\ SupInv /\ [Next]_vars => (SupTypeOK /\ SupInv)'
  BY NextIsSupStep, SupTypeStep, SupInvStep
<1>4. SupTypeOK /\ WaitInv /\ [Next]_vars => WaitInv'
  BY NextIsSupStep, WaitStep
<1>5. WaitInv => WaitsGrow
  BY DEF WaitInv, SteadyUp, NextWait, WaitsGrow
<1> QED BY <1>1, <1>2, <1>3, <1>4, <1>5, PTL DEF Spec
-----------------------------------------------------------------------------
InPlay(c) == pc[c] \in {"write", "await"}

(* Where a caller is tells how often it has bound itself, and to a session *)
(* whose read loop was started.                                            *)
StageInv ==
    \A c \in Callers :
        /\ pc[c] = "start" => tries[c] = 0 /\ bound[c] = None /\ sentOn[c] = <<>>
        /\ pc[c] = "wait" => tries[c] <= 1
        /\ pc[c] \in {"register", "write", "await"} => bound[c] # None /\ tries[c] >= 1
        /\ bound[c] # None => reader[bound[c]] # "none"

(* A caller about to write has only written on older sessions.             *)
Sent(c, k) == /\ sentOn[c][k] <= bound[c]
              /\ pc[c] \in {"register", "write"} => sentOn[c][k] < bound[c]

SentInv ==
    \A c \in Callers :
        /\ Len(sentOn[c]) <= tries[c]
        /\ pc[c] \in {"register", "write"} => Len(sentOn[c]) < tries[c]
        /\ \A k \in 1 .. Len(sentOn[c]) : Sent(c, k)
        /\ Len(sentOn[c]) = 2 => sentOn[c][1] < sentOn[c][2]

(* The table of a session that reads: callers that wait for its frames.    *)
TableInv ==
    \A s \in Sessions :
        /\ reader[s] = "none" => pending[s] = {}
        /\ reader[s] = "reading" =>
              \A p \in pending[s] : /\ InPlay(p.caller) /\ bound[p.caller] = s
                                    /\ id[p.caller] = p.id /\ reply[p.caller] = "empty"

(* A session's ids are given out once.                                     *)
IdInv ==
    /\ \A s \in Sessions : /\ \A p \in pending[s] : p.id <= seq[s]
                           /\ \A r \in wire[s] : r.id <= seq[s]
    /\ \A c \in Callers : InPlay(c) => id[c] <= seq[bound[c]]
    /\ \A c, d \in Callers :
          InPlay(c) /\ InPlay(d) /\ bound[c] = bound[d] /\ id[c] = id[d] => c = d

(* A request and a caller registered under the same id belong together.    *)
PairInv ==
    /\ \A s \in Sessions : reader[s] = "reading" =>
          \A r \in wire[s], p \in pending[s] : r.id = p.id => r.caller = p.caller
    /\ EachToItsOwn

CallInv == StageInv /\ SentInv /\ TableInv /\ IdInv /\ PairInv

(* The part of TypeOK that is about the callers.                           *)
CallTypeOK ==
    /\ pc \in [Callers -> Places]
    /\ bound \in [Callers -> Sessions \cup {None}]
    /\ tries \in [Callers -> 0 .. 2]
    /\ id \in [Callers -> Nat]
    /\ reply \in [Callers -> {"empty", "closed"} \cup Callers]
    /\ sentOn \in [Callers -> Seq(Sessions)]
    /\ seq \in [Sessions -> Nat]
    /\ pending \in [Sessions -> SUBSET Requests]
    /\ wire \in [Sessions -> SUBSET Requests]

IInv == SupTypeOK /\ SupInv /\ CallTypeOK /\ CallInv

LEMMA CallInitOK == Init => CallTypeOK /\ CallInv
<1> SUFFICES ASSUME Init PROVE CallTypeOK /\ CallInv
  OBVIOUS
<1> USE DEF Init, SupInit
<1>1. CallTypeOK
  BY DEF CallTypeOK, Places, Requests
<1>2. StageInv /\ SentInv
  BY DEF StageInv, SentInv, Sent
<1>3. TableInv /\ IdInv /\ PairInv
  BY CallersAssumption DEF TableInv, IdInv, PairInv, InPlay, EachToItsOwn
<1> QED BY <1>1, <1>2, <1>3 DEF CallInv

(* What a step of the supervisor can do to a read loop.                    *)
LEMMA ReaderMoves ==
    ASSUME SupTypeOK, SupInv, SupStep
    PROVE  \A s \in Sessions : /\ reader[s] # "none" => reader'[s] # "none"
                               /\ reader'[s] = "none" => reader[s] = "none"
                               /\ reader'[s] = "reading" => reader[s] \in {"none", "reading"}
<1>1. reader' = reader \/ Install \/ \E s \in Sessions : ReadFails(s) \/ CloseDone(s)
  BY DEF SupStep, Supervising, Closing, supVars, ClearCur, Handshake, DialFails, Rejected,
         InstallRefused, Top, Ripen, SessionLost, Dropped, Pause, Stop, Exit, Lose, Signal,
         CloseBegin, CloseEnd
<1>2. CASE Install
  BY <1>2 DEF Install, SupInv, SupTypeOK
<1>3. CASE \E s \in Sessions : ReadFails(s) \/ CloseDone(s)
  BY <1>3 DEF ReadFails, CloseDone, SupTypeOK
<1> QED BY <1>1, <1>2, <1>3

(* The callers' invariant speaks of the supervisor through read loops only. *)
LEMMA SupKeepsCallInv ==
    ASSUME IInv, SupStep, UNCHANGED callVars
    PROVE  CallTypeOK' /\ CallInv'
<1> USE DEF IInv, callVars
<1>1. \A s \in Sessions : /\ reader[s] # "none" => reader'[s] # "none"
                          /\ reader'[s] = "none" => reader[s] = "none"
                          /\ reader'[s] = "reading" => reader[s] \in {"none", "reading"}
  BY ReaderMoves
<1>2. CallTypeOK'
  BY DEF CallTypeOK
<1>3. StageInv'
  BY <1>1 DEF CallInv, StageInv, CallTypeOK, None
<1>4. SentInv'
  BY DEF CallInv, SentInv, Sent
<1>5. TableInv'
  BY <1>1 DEF CallInv, TableInv, InPlay
<1>6. IdInv'
  BY DEF CallInv, IdInv, InPlay
<1>7. PairInv'
  BY <1>1 DEF CallInv, PairInv, TableInv, EachToItsOwn
<1> QED BY <1>2, <1>3, <1>4, <1>5, <1>6, <1>7 DEF CallInv

(* A caller that gives up or is done keeps the invariant when no table of  *)
(* a session that reads holds it any more.                                 *)
LEMMA Leaves ==
    ASSUME IInv, NEW c \in Callers, NEW x \in {"wait", "answered", "failed"},
           x = "wait" => tries[c] <= 1,
           Goto(c, x), reader' = reader,
           UNCHANGED <<bound, tries, id, reply, sentOn, seq, wire>>,
           pending' \in [Sessions -> SUBSET Requests],
           \A s \in Sessions : pending'[s] \subseteq pending[s],
           \A s \in Sessions : reader[s] = "reading" =>
               \A p \in pending'[s] : p.caller # c
    PROVE  CallTypeOK' /\ CallInv'
<1> USE DEF IInv, CallInv
<1>1. pc' \in [Callers -> Places] /\ \A d \in Callers : pc'[d] = IF d = c THEN x ELSE pc[d]
  BY DEF CallTypeOK, Goto, Places
<1>2. CallTypeOK'
  BY <1>1 DEF CallTypeOK
<1>3. StageInv'
  BY <1>1 DEF StageInv
<1>4. SentInv'
  BY <1>1 DEF SentInv, Sent
<1>5. TableInv'
  <2> SUFFICES ASSUME NEW s \in Sessions
               PROVE  /\ reader[s] = "none" => pending'[s] = {}
                      /\ reader[s] = "reading" =>
                            \A p \in pending'[s] :
                               /\ pc'[p.caller] \in {"write", "await"} /\ bound[p.caller] = s
                               /\ id[p.caller] = p.id /\ reply[p.caller] = "empty"
    BY DEF TableInv, InPlay
  <2>1. \A p \in pending'[s] : p.caller \in Callers
    BY DEF Requests
  <2> QED BY <1>1, <2>1 DEF TableInv, InPlay
<1>6. IdInv'
  BY <1>1 DEF IdInv, InPlay
<1>7. PairInv'
  BY DEF PairInv, EachToItsOwn
<1> QED BY <1>2, <1>3, <1>4, <1>5, <1>6, <1>7

(* Nobody is registered twice on a session that reads.                     *)
LEMMA Unregisters ==
    ASSUME IInv, NEW c \in Callers, bound[c] \in Sessions, Unregister(c)
    PROVE  /\ pending' \in [Sessions -> SUBSET Requests]
           /\ \A s \in Sessions : pending'[s] \subseteq pending[s]
           /\ \A s \in Sessions : reader[s] = "reading" =>
                  \A p \in pending'[s] : p.caller # c
  BY DEF IInv, CallInv, CallTypeOK, TableInv, Unregister

LEMMA WaitRefusedStep ==
    ASSUME IInv, NEW c \in Callers, WaitRefused(c)
    PROVE  CallTypeOK' /\ CallInv'
<1>1. /\ Goto(c, "failed") /\ reader' = reader /\ pc[c] = "wait"
      /\ UNCHANGED <<bound, tries, id, reply, sentOn, seq, wire, pending>>
  BY DEF WaitRefused, supVars
<1>2. \A s \in Sessions : reader[s] = "reading" => \A p \in pending[s] : p.caller # c
  BY <1>1 DEF IInv, CallInv, TableInv, InPlay
<1>3. pending' \in [Sessions -> SUBSET Requests]
  BY <1>1 DEF IInv, CallTypeOK
<1> QED BY <1>1, <1>2, <1>3, Leaves

LEMMA AnsweredStep ==
    ASSUME IInv, NEW c \in Callers, Answered(c)
    PROVE  CallTypeOK' /\ CallInv'
<1>1. /\ Goto(c, "answered") /\ reader' = reader /\ reply[c] \in Callers
      /\ UNCHANGED <<bound, tries, id, reply, sentOn, seq, wire, pending>>
  BY DEF Answered, supVars
<1>2. \A s \in Sessions : reader[s] = "reading" => \A p \in pending[s] : p.caller # c
  BY <1>1, CallersAssumption DEF IInv, CallInv, TableInv
<1>3. pending' \in [Sessions -> SUBSET Requests]
  BY <1>1 DEF IInv, CallTypeOK
<1> QED BY <1>1, <1>2, <1>3, Leaves

LEMMA InterruptedStep ==
    ASSUME IInv, NEW c \in Callers, Interrupted(c)
    PROVE  CallTypeOK' /\ CallInv'
<1> DEFINE x == IF tries[c] = 1 THEN "wait" ELSE "failed"
<1>1. /\ Goto(c, x) /\ reader' = reader
      /\ pc[c] = "await" /\ CutOff(c)
      /\ UNCHANGED <<bound, tries, id, reply, sentOn, seq, wire, pending>>
  BY DEF Interrupted, SessionGone, supVars
<1>2. \A s \in Sessions : reader[s] = "reading" => \A p \in pending[s] : p.caller # c
  BY <1>1 DEF IInv, CallInv, TableInv, CutOff, Over
<1>3. pending' \in [Sessions -> SUBSET Requests]
  BY <1>1 DEF IInv, CallTypeOK
<1>4. x \in {"wait", "answered", "failed"} /\ (x = "wait" => tries[c] <= 1)
  OBVIOUS
<1> HIDE DEF x
<1> QED BY <1>1, <1>2, <1>3, <1>4, Leaves

LEMMA WriteFailsStep ==
    ASSUME IInv, NEW c \in Callers, WriteFails(c)
    PROVE  CallTypeOK' /\ CallInv'
<1> DEFINE x == IF tries[c] = 1 THEN "wait" ELSE "failed"
<1>1. /\ Goto(c, x) /\ reader' = reader /\ pc[c] = "write" /\ Unregister(c)
      /\ UNCHANGED <<bound, tries, id, reply, sentOn, seq, wire>>
  BY DEF WriteFails, SessionGone, supVars
<1>2. bound[c] \in Sessions
  BY <1>1 DEF IInv, CallInv, CallTypeOK, StageInv
<1>3. x \in {"wait", "answered", "failed"} /\ (x = "wait" => tries[c] <= 1)
  OBVIOUS
<1> HIDE DEF x
<1> QED BY <1>1, <1>2, <1>3, Unregisters, Leaves

LEMMA ExpireStep ==
    ASSUME IInv, NEW c \in Callers, Expire(c)
    PROVE  CallTypeOK' /\ CallInv'
<1>1. /\ Goto(c, "failed") /\ reader' = reader
      /\ UNCHANGED <<bound, tries, id, reply, sentOn, seq, wire>>
  BY DEF Expire, supVars
<1>2. CASE pc[c] = "await"
  <2>1. bound[c] \in Sessions
    BY <1>2 DEF IInv, CallInv, CallTypeOK, StageInv
  <2>2. Unregister(c)
    BY <1>2 DEF Expire
  <2> QED BY <1>1, <2>1, <2>2, Unregisters, Leaves
<1>3. CASE pc[c] = "wait"
  <2>1. pending' = pending
    BY <1>3 DEF Expire
  <2>2. \A s \in Sessions : reader[s] = "reading" => \A p \in pending[s] : p.caller # c
    BY <1>3 DEF IInv, CallInv, TableInv, InPlay
  <2>3. pending' \in [Sessions -> SUBSET Requests]
    BY <2>1 DEF IInv, CallTypeOK
  <2> QED BY <1>1, <2>1, <2>2, <2>3, Leaves
<1> QED BY <1>2, <1>3 DEF Expire

(* Binding to the published session: it is younger than any before.        *)
LEMMA BindStep ==
    ASSUME IInv, NEW c \in Callers, pc[c] \in {"start", "wait"},
           cur # None, cur # bound[c], Bind(c),
           UNCHANGED <<supVars, id, reply, sentOn, seq, pending, wire>>
    PROVE  CallTypeOK' /\ CallInv'
<1> USE DEF IInv, CallInv
<1>1. /\ pc' \in [Callers -> Places] /\ bound' \in [Callers -> Sessions \cup {None}]
      /\ \A d \in Callers : /\ pc'[d] = IF d = c THEN "register" ELSE pc[d]
                            /\ bound'[d] = IF d = c THEN cur ELSE bound[d]
  BY DEF CallTypeOK, SupTypeOK, Bind, Goto, Places
<1>2. tries[c] \in {0, 1}
  BY DEF CallTypeOK, StageInv
<1>3. /\ tries' \in [Callers -> 0 .. 2]
      /\ \A d \in Callers : tries'[d] = IF d = c THEN tries[c] + 1 ELSE tries[d]
  BY <1>2 DEF CallTypeOK, Bind
<1>4. /\ reader' = reader /\ reader[cur] # "none" /\ cur = dialed /\ cur \in Sessions
      /\ Sessions \subseteq Nat
  BY DEF supVars, SupInv, SupTypeOK, Sessions
<1>5. CallTypeOK'
  BY <1>1, <1>3 DEF CallTypeOK
<1>6. StageInv'
  BY <1>1, <1>2, <1>3, <1>4 DEF StageInv
<1>7. SentInv'
  <2>1. bound[c] \in Nat /\ bound[c] < cur
    <3>1. bound[c] \in Sessions \cup {None} /\ cur \in Nat \ {0}
      BY <1>4 DEF CallTypeOK, Sessions
    <3>2. bound[c] # None => ~(bound[c] > dialed)
      BY <3>1 DEF StageInv, SupInv
    <3>3. bound[c] \in Nat
      BY <3>1 DEF None, Sessions
    <3> QED BY <1>4, <3>1, <3>2, <3>3 DEF None
  <2>2. \A k \in 1 .. Len(sentOn[c]) : sentOn[c][k] \in Nat /\ sentOn[c][k] < cur
    <3>0. sentOn[c] \in Seq(Sessions)
      BY DEF CallTypeOK
    <3>1. \A k \in 1 .. Len(sentOn[c]) : sentOn[c][k] \in Sessions
      BY <3>0
    <3>2. \A k \in 1 .. Len(sentOn[c]) : sentOn[c][k] <= bound[c]
      BY DEF SentInv, Sent
    <3>3. cur \in Nat /\ bound[c] \in Nat /\ Sessions \subseteq Nat
      BY <1>4 DEF CallTypeOK, Sessions, None
    <3>4. \A i \in Nat : i <= bound[c] => i < cur
      BY <2>1, <3>3
    <3>5. \A k \in 1 .. Len(sentOn[c]) : sentOn[c][k] \in Nat
      BY <3>1, <3>3
    <3> QED BY <3>2, <3>4, <3>5
  <2>3. Len(sentOn[c]) \in Nat /\ Len(sentOn[c]) <= tries[c]
    BY DEF SentInv, CallTypeOK
  <2> QED BY <1>1, <1>2, <1>3, <1>4, <2>2, <2>3 DEF SentInv, Sent
<1>8. TableInv'
  <2>1. \A t \in Sessions : \A p \in pending[t] : p.caller \in Callers
    BY DEF CallTypeOK, Requests
  <2>2. \A t \in Sessions : reader[t] = "reading" => \A p \in pending[t] : p.caller # c
    BY DEF TableInv, InPlay
  <2> QED BY <1>1, <1>4, <2>1, <2>2 DEF TableInv, InPlay
<1>9. IdInv'
  BY <1>1 DEF IdInv, InPlay
<1>10. PairInv'
  BY <1>4 DEF PairInv, EachToItsOwn
<1> QED BY <1>5, <1>6, <1>7, <1>8, <1>9, <1>10

LEMMA BeginStep ==
    ASSUME IInv, NEW c \in Callers, Begin(c)
    PROVE  CallTypeOK' /\ CallInv'
<1>1. pc[c] = "start" /\ tries[c] = 0 /\ bound[c] = None
  BY DEF Begin, IInv, CallInv, StageInv
<1>2. CASE cur = None
  <2>1. /\ Goto(c, "wait") /\ reader' = reader
        /\ UNCHANGED <<bound, tries, id, reply, sentOn, seq, wire, pending>>
    BY <1>2 DEF Begin, supVars
  <2>2. \A s \in Sessions : reader[s] = "reading" => \A p \in pending[s] : p.caller # c
    BY <1>1 DEF IInv, CallInv, TableInv, InPlay
  <2>3. pending' \in [Sessions -> SUBSET Requests] /\ tries[c] <= 1
    BY <1>1, <2>1 DEF IInv, CallTypeOK
  <2> QED BY <2>1, <2>2, <2>3, Leaves
<1>3. CASE cur # None
  BY <1>1, <1>3, BindStep DEF Begin
<1> QED BY <1>2, <1>3

LEMMA SessionFoundStep ==
    ASSUME IInv, NEW c \in Callers, SessionFound(c)
    PROVE  CallTypeOK' /\ CallInv'
  BY BindStep DEF SessionFound, Fresh

(* A caller takes an id nobody has and registers under it.                 *)
LEMMA RegisterStep ==
    ASSUME IInv, NEW c \in Callers, Register(c)
    PROVE  CallTypeOK' /\ CallInv'
<1> USE DEF IInv, CallInv
<1> DEFINE s == bound[c]
           i == seq[s] + 1
<1>1. /\ pc[c] = "register" /\ s \in Sessions /\ reader' = reader
      /\ UNCHANGED <<bound, tries, sentOn, wire>>
      /\ reader[s] # "none" /\ seq[s] \in Nat
  BY DEF Register, supVars, StageInv, CallTypeOK
<1>2. /\ pc' \in [Callers -> Places] /\ id' \in [Callers -> Nat]
      /\ reply' \in [Callers -> {"empty", "closed"} \cup Callers]
      /\ \A d \in Callers : /\ pc'[d] = IF d = c THEN "write" ELSE pc[d]
                            /\ id'[d] = IF d = c THEN i ELSE id[d]
                            /\ reply'[d] = IF d = c THEN "empty" ELSE reply[d]
  BY <1>1 DEF Register, Goto, Places, CallTypeOK
<1>3. /\ seq' \in [Sessions -> Nat] /\ pending' \in [Sessions -> SUBSET Requests]
      /\ \A t \in Sessions : seq'[t] = IF t = s THEN i ELSE seq[t]
      /\ \A t \in Sessions : pending'[t] =
            IF t = s THEN {p \in pending[s] : p.id # i} \cup {[id |-> i, caller |-> c]}
                     ELSE pending[t]
  BY <1>1 DEF Register, NextId, CallTypeOK, Requests
<1>4. /\ \A t \in Sessions : \A p \in pending[t] : p.caller \in Callers /\ p.id \in Nat
      /\ \A t \in Sessions : \A r \in wire[t] : r.id \in Nat
      /\ \A t \in Sessions : seq[t] \in Nat
      /\ \A d \in Callers : id[d] \in Nat
  BY DEF CallTypeOK, Requests
<1>5. \A t \in Sessions : reader[t] = "reading" => \A p \in pending[t] : p.caller # c
  BY <1>1 DEF TableInv, InPlay
<1> HIDE DEF s, i
<1>6. CallTypeOK'
  BY <1>1, <1>2, <1>3 DEF CallTypeOK
<1>7. StageInv'
  BY <1>1, <1>2 DEF StageInv
<1>8. SentInv'
  BY <1>1, <1>2 DEF SentInv, Sent
<1>9. TableInv'
  BY <1>1, <1>2, <1>3, <1>4, <1>5 DEF TableInv, InPlay, s
<1>10. IdInv'
  <2>1. i \in Nat /\ i = seq[s] + 1
    BY <1>1 DEF i
  <2>2. \A t \in Sessions : /\ \A p \in pending'[t] : p.id <= seq'[t]
                            /\ \A r \in wire'[t] : r.id <= seq'[t]
    BY <1>1, <1>3, <1>4, <2>1 DEF IdInv
  <2>3. \A d \in Callers : pc[d] \in {"write", "await"} => bound[d] \in Sessions
    BY DEF StageInv, CallTypeOK
  <2>4. \A d \in Callers : pc'[d] \in {"write", "await"} => id'[d] <= seq'[bound[d]]
    BY <1>1, <1>2, <1>3, <1>4, <2>1, <2>3 DEF IdInv, InPlay, s
  <2>5. ASSUME NEW d \in Callers, NEW e \in Callers,
               pc'[d] \in {"write", "await"}, pc'[e] \in {"write", "await"},
               bound[d] = bound[e], id'[d] = id'[e]
        PROVE  d = e
    <3>1. \A f \in Callers : pc[f] \in {"write", "await"} /\ bound[f] = s => id[f] # i
      BY <1>1, <1>4, <2>1, <2>3 DEF IdInv, InPlay
    <3> QED BY <1>1, <1>2, <2>5, <3>1 DEF IdInv, InPlay, s
  <2> QED BY <1>1, <2>2, <2>4, <2>5 DEF IdInv, InPlay
<1>11. PairInv'
  <2>1. \A r \in wire[s] : r.id # i
    BY <1>1, <1>4 DEF IdInv, i
  <2>2. \A t \in Sessions : reader[t] = "reading" =>
           \A r \in wire[t], p \in pending'[t] : r.id = p.id => r.caller = p.caller
    BY <1>1, <1>3, <2>1 DEF PairInv
  <2>3. \A d \in Callers : reply'[d] \in Callers => reply'[d] = d
    BY <1>2, CallersAssumption DEF PairInv, EachToItsOwn
  <2> QED BY <1>1, <2>2, <2>3 DEF PairInv, EachToItsOwn
<1> QED BY <1>6, <1>7, <1>8, <1>9, <1>10, <1>11

(* A write reaches the wire of a session that reads, with an id of its own. *)
LEMMA WriteStep ==
    ASSUME IInv, NEW c \in Callers, Write(c)
    PROVE  CallTypeOK' /\ CallInv'
<1> USE DEF IInv, CallInv
<1> DEFINE s == bound[c]
<1>1. /\ pc[c] = "write" /\ s \in Sessions /\ reader' = reader /\ reader[s] # "none"
      /\ UNCHANGED <<bound, tries, id, reply, seq, pending>>
  BY DEF Write, supVars, StageInv, CallTypeOK
<1>2. /\ pc' \in [Callers -> Places]
      /\ \A d \in Callers : pc'[d] = IF d = c THEN "await" ELSE pc[d]
  BY DEF Write, Goto, Places, CallTypeOK
<1>3. /\ sentOn' \in [Callers -> Seq(Sessions)]
      /\ \A d \in Callers : sentOn'[d] = IF d = c THEN Append(sentOn[c], s) ELSE sentOn[d]
  BY <1>1 DEF Write, CallTypeOK
<1>4. Mine(c) \in Requests /\ Mine(c).id = id[c] /\ Mine(c).caller = c
  BY DEF Mine, Requests, CallTypeOK
<1>5. /\ wire' \in [Sessions -> SUBSET Requests]
      /\ \A t \in Sessions : \A r \in wire'[t] : r \in wire[t] \/ (t = s /\ r = Mine(c))
  BY <1>1, <1>4 DEF Write, CallTypeOK
<1> HIDE DEF s
<1>6. CallTypeOK'
  BY <1>1, <1>2, <1>3, <1>5 DEF CallTypeOK
<1>7. StageInv'
  BY <1>1, <1>2, <1>3 DEF StageInv
<1>8. SentInv'
  <2>1. sentOn[c] \in Seq(Sessions) /\ s \in Sessions /\ Sessions \subseteq Nat
    BY <1>1 DEF CallTypeOK, Sessions
  <2>2. /\ Len(sentOn[c]) < tries[c] /\ tries[c] \in 0 .. 2
        /\ \A k \in 1 .. Len(sentOn[c]) : sentOn[c][k] < s
    BY <1>1 DEF SentInv, Sent, CallTypeOK, s
  <2>3. /\ Len(sentOn'[c]) = Len(sentOn[c]) + 1
        /\ \A k \in 1 .. Len(sentOn[c]) : sentOn'[c][k] = sentOn[c][k]
        /\ sentOn'[c][Len(sentOn[c]) + 1] = s
    BY <1>3, <2>1
  <2>4. Len(sentOn[c]) \in Nat /\ \A k \in 1 .. Len(sentOn[c]) : sentOn[c][k] \in Nat
    <3>1. Len(sentOn[c]) \in Nat
      BY <2>1
    <3>2. \A k \in 1 .. Len(sentOn[c]) : sentOn[c][k] \in Sessions
      BY <2>1
    <3> QED BY <2>1, <3>1, <3>2
  <2>5. \A k \in 1 .. Len(sentOn'[c]) : sentOn'[c][k] <= s
    BY <2>1, <2>2, <2>3, <2>4
  <2>6. Len(sentOn'[c]) <= tries[c] /\ (Len(sentOn'[c]) = 2 => sentOn'[c][1] < sentOn'[c][2])
    BY <2>1, <2>2, <2>3, <2>4
  <2> QED BY <1>1, <1>2, <1>3, <2>5, <2>6 DEF SentInv, Sent, s
<1>9. TableInv'
  BY <1>1, <1>2 DEF TableInv, InPlay, CallTypeOK, Requests
<1>10. IdInv'
  BY <1>1, <1>2, <1>4, <1>5 DEF IdInv, InPlay, s
<1>11. PairInv'
  <2>1. ASSUME NEW t \in Sessions, reader[t] = "reading", NEW p \in pending[t],
               t = s, id[c] = p.id
        PROVE  p.caller = c
    <3>1. p.caller \in Callers
      BY DEF CallTypeOK, Requests
    <3>2. InPlay(p.caller) /\ bound[p.caller] = t /\ id[p.caller] = p.id
      BY <2>1 DEF TableInv
    <3> QED BY <1>1, <2>1, <3>1, <3>2 DEF IdInv, InPlay, s
  <2>2. \A t \in Sessions : reader[t] = "reading" =>
           \A r \in wire'[t], p \in pending[t] : r.id = p.id => r.caller = p.caller
    BY <1>4, <1>5, <2>1 DEF PairInv
  <2> QED BY <1>1, <2>2 DEF PairInv, EachToItsOwn
<1> QED BY <1>6, <1>7, <1>8, <1>9, <1>10, <1>11

(* A frame goes to the caller whose request it answers.                    *)
LEMMA RespondStep ==
    ASSUME IInv, NEW s \in Sessions, Respond(s)
    PROVE  CallTypeOK' /\ CallInv'
<1> USE DEF IInv, CallInv
<1>1. PICK req \in wire[s] :
          /\ wire' = [wire EXCEPT ![s] = @ \ {req}]
          /\ reply' = [c \in Callers |->
                 IF \E p \in {p \in pending[s] : p.id = req.id} : p.caller = c
                 THEN req.caller ELSE reply[c]]
          /\ pending' = [pending EXCEPT ![s] = @ \ {p \in pending[s] : p.id = req.id}]
  BY DEF Respond
<1>2. /\ reader[s] = "reading" /\ reader' = reader
      /\ UNCHANGED <<pc, bound, tries, id, sentOn, seq>>
  BY DEF Respond, supVars
<1>3. /\ req.caller \in Callers
      /\ \A t \in Sessions : \A p \in pending[t] : p.caller \in Callers
  BY DEF CallTypeOK, Requests
<1>4. /\ wire' \in [Sessions -> SUBSET Requests] /\ pending' \in [Sessions -> SUBSET Requests]
      /\ \A t \in Sessions : wire'[t] \subseteq wire[t] /\ pending'[t] \subseteq pending[t]
      /\ \A p \in pending'[s] : p.id # req.id
  BY <1>1 DEF CallTypeOK
<1>5. \A c \in Callers : \/ reply'[c] = reply[c]
                         \/ /\ reply'[c] = c
                            /\ \E p \in pending[s] : p.id = req.id /\ p.caller = c
  BY <1>1, <1>2 DEF PairInv
<1>6. CallTypeOK'
  BY <1>1, <1>2, <1>3, <1>4 DEF CallTypeOK
<1>7. StageInv' /\ SentInv'
  BY <1>2 DEF StageInv, SentInv, Sent
<1>8. TableInv'
  <2>1. ASSUME NEW t \in Sessions, reader[t] = "reading", NEW p \in pending'[t]
        PROVE  reply'[p.caller] = "empty"
    <3>1. /\ p \in pending[t] /\ p.caller \in Callers
          /\ bound[p.caller] = t /\ id[p.caller] = p.id /\ reply[p.caller] = "empty"
      BY <1>3, <1>4, <2>1 DEF TableInv
    <3>2. ASSUME NEW q \in pending[s], q.id = req.id, q.caller = p.caller PROVE FALSE
      BY <1>2, <1>4, <3>1, <3>2 DEF TableInv
    <3> QED BY <1>5, <3>1, <3>2
  <2> QED BY <1>2, <1>4, <2>1 DEF TableInv, InPlay
<1>9. IdInv'
  BY <1>2, <1>4 DEF IdInv, InPlay
<1>10. PairInv'
  BY <1>2, <1>4, <1>5 DEF PairInv, EachToItsOwn
<1> QED BY <1>6, <1>7, <1>8, <1>9, <1>10

(* A read loop's cleanup touches the callers in its own table only.        *)
LEMMA DrainStep ==
    ASSUME IInv, NEW s \in Sessions, Drain(s)
    PROVE  CallTypeOK' /\ CallInv'
<1> USE DEF IInv, CallInv
<1>1. /\ reader[s] = "reading"
      /\ \A t \in Sessions : reader'[t] = IF t = s THEN "drained" ELSE reader[t]
      /\ UNCHANGED <<pc, bound, tries, id, sentOn, seq, wire>>
  BY DEF Drain, ReadFails, SupTypeOK
<1>2. /\ pending' \in [Sessions -> SUBSET Requests]
      /\ \A t \in Sessions : pending'[t] = IF t = s THEN {} ELSE pending[t]
  BY DEF Drain, CallTypeOK
<1>3. /\ reply' \in [Callers -> {"empty", "closed"} \cup Callers]
      /\ \A c \in Callers : \/ reply'[c] = reply[c]
                            \/ /\ reply'[c] = "closed"
                               /\ \E p \in pending[s] : p.caller = c
  BY DEF Drain, CallTypeOK
<1>4. CallTypeOK'
  BY <1>1, <1>2, <1>3 DEF CallTypeOK
<1>5. StageInv' /\ SentInv'
  BY <1>1 DEF StageInv, SentInv, Sent, CallTypeOK, None
<1>6. TableInv'
  <2>1. ASSUME NEW t \in Sessions, reader[t] = "reading", t # s, NEW p \in pending[t]
        PROVE  reply'[p.caller] = "empty"
    <3>1. p.caller \in Callers
      BY DEF CallTypeOK, Requests
    <3> QED BY <1>1, <1>3, <2>1, <3>1 DEF TableInv
  <2> QED BY <1>1, <1>2, <2>1 DEF TableInv, InPlay
<1>7. IdInv'
  BY <1>1, <1>2 DEF IdInv, InPlay
<1>8. PairInv'
  BY <1>1, <1>2, <1>3, CallersAssumption DEF PairInv, EachToItsOwn
<1> QED BY <1>4, <1>5, <1>6, <1>7, <1>8
-----------------------------------------------------------------------------
LEMMA InitIInv == Init => IInv
  BY SupInitOK, CallInitOK DEF IInv

LEMMA NextIInv == IInv /\ [Next]_vars => IInv'
<1> SUFFICES ASSUME IInv, [Next]_vars PROVE IInv'
  OBVIOUS
<1>1. SupTypeOK' /\ SupInv'
  BY NextIsSupStep, SupTypeStep, SupInvStep DEF IInv
<1>2. CASE \/ (Supervising \/ Ripen \/ Closing) /\ UNCHANGED callVars
           \/ \E s \in Sessions : (Lose(s) \/ CloseDone(s)) /\ UNCHANGED callVars
           \/ UNCHANGED vars
  <2>1. SupStep /\ UNCHANGED callVars
    BY <1>2 DEF SupStep, vars
  <2> QED BY <1>1, <2>1, SupKeepsCallInv DEF IInv
<1>3. CASE \E s \in Sessions : Respond(s) \/ Drain(s)
  BY <1>1, <1>3, RespondStep, DrainStep DEF IInv
<1>4. CASE \E c \in Callers : Asking(c) \/ Expire(c)
  <2> PICK c \in Callers : Asking(c) \/ Expire(c)
    BY <1>4
  <2>1. CallTypeOK' /\ CallInv'
    BY BeginStep, SessionFoundStep, WaitRefusedStep, RegisterStep, WriteStep, WriteFailsStep,
       AnsweredStep, InterruptedStep, ExpireStep DEF Asking
  <2> QED BY <1>1, <2>1 DEF IInv
<1> QED BY <1>2, <1>3, <1>4 DEF Next, Ended

LEMMA Inductive == Spec => []IInv
  BY InitIInv, NextIInv, PTL DEF Spec

(* The connection's and the callers' state stays well typed.               *)
THEOREM TypeCorrect == Spec => []TypeOK
<1>1. IInv => TypeOK
  BY DEF IInv, CallTypeOK, TypeOK
<1> QED BY <1>1, Inductive, PTL

(* A caller is only ever handed the response to its own request.           *)
THEOREM RoutedHome == Spec => []EachToItsOwn
<1>1. IInv => EachToItsOwn
  BY DEF IInv, CallInv, PairInv
<1> QED BY <1>1, Inductive, PTL

(* A request is written at most twice, and again only on a younger session. *)
THEOREM RetriedOnce == Spec => []RetryIsFresh
<1>1. IInv => RetryIsFresh
  <2> SUFFICES ASSUME IInv, NEW c \in Callers
               PROVE  /\ Len(sentOn[c]) <= 2
                      /\ Len(sentOn[c]) = 2 => sentOn[c][1] < sentOn[c][2]
    BY DEF RetryIsFresh
  <2>1. sentOn[c] \in Seq(Sessions) /\ tries[c] \in 0 .. 2 /\ Len(sentOn[c]) <= tries[c]
    BY DEF IInv, CallTypeOK, CallInv, SentInv
  <2>2. Len(sentOn[c]) \in Nat
    BY <2>1
  <2> QED BY <2>1, <2>2 DEF IInv, CallInv, SentInv
<1> QED BY <1>1, Inductive, PTL

(* The table of a session that reads holds nobody who has gone.            *)
THEOREM TableTidy == Spec => []PendingAreWaiting
<1>1. IInv => PendingAreWaiting
  BY DEF IInv, CallInv, TableInv, InPlay, PendingAreWaiting
<1> QED BY <1>1, Inductive, PTL
-----------------------------------------------------------------------------
(* Who will be told.                                                       *)
PastReading(s) == reader[s] \in {"drained", "exited"}

(* A caller in play has its outcome, is in the table the frames are routed *)
(* by and the cleanup releases, or is on a session that is past that.      *)
Heard(c) == \/ reply[c] # "empty"
            \/ Mine(c) \in pending[bound[c]]
            \/ PastReading(bound[c])

HeardInv == \A c \in Callers : InPlay(c) => Heard(c)

(* A caller's place in the table is taken from it only by itself, or       *)
(* together with an outcome.                                               *)
LEMMA StillHeard ==
    ASSUME IInv, NEW c \in Callers, InPlay(c), Heard(c),
           \A s \in Sessions : PastReading(s) => reader'[s] \in {"drained", "exited"},
           bound'[c] = bound[c], id'[c] = id[c],
           reply[c] # "empty" => reply'[c] # "empty",
           \/ reply'[c] # "empty"
           \/ \A p \in pending[bound[c]] : p.caller = c /\ p.id = id[c] => p \in pending'[bound[c]]
           \/ reader'[bound[c]] \in {"drained", "exited"}
    PROVE  Heard(c)'
<1>1. bound[c] \in Sessions
  BY DEF IInv, CallInv, StageInv, CallTypeOK, InPlay
<1>2. Mine(c).caller = c /\ Mine(c).id = id[c] /\ Mine(c)' = Mine(c)
  BY DEF Mine
<1> QED BY <1>1, <1>2 DEF Heard, PastReading

(* The steps of another caller leave c's place alone.                      *)
LEMMA OthersKeepPlace ==
    ASSUME IInv, NEW c \in Callers, InPlay(c), NEW d \in Callers, d # c,
           Asking(d) \/ Expire(d)
    PROVE  /\ pc'[c] = pc[c] /\ bound'[c] = bound[c] /\ id'[c] = id[c] /\ reply'[c] = reply[c]
           /\ reader' = reader
           /\ \A p \in pending[bound[c]] :
                 p.caller = c /\ p.id = id[c] => p \in pending'[bound[c]]
<1> USE DEF IInv, CallInv
<1>1. bound[c] \in Sessions /\ id[c] \in Nat /\ id[c] <= seq[bound[c]] /\ seq[bound[c]] \in Nat
  BY DEF StageInv, CallTypeOK, InPlay, IdInv
<1>2. reader' = reader
  BY DEF Asking, Begin, SessionFound, WaitRefused, Register, Write, WriteFails, Answered,
         Interrupted, Expire, supVars
<1>3. /\ pc'[c] = pc[c] /\ bound'[c] = bound[c] /\ id'[c] = id[c] /\ reply'[c] = reply[c]
  BY DEF CallTypeOK, Asking, Begin, SessionFound, WaitRefused, Register, Write, WriteFails,
         Answered, Interrupted, Expire, Goto, Bind, SessionGone
<1>4. CASE Register(d)
  <2> DEFINE i == seq[bound[d]] + 1
  <2>1. /\ bound[d] \in Sessions
        /\ pending' = [pending EXCEPT ![bound[d]] =
              {p \in @ : p.id # i} \cup {[id |-> i, caller |-> d]}]
    BY <1>4 DEF Register, StageInv, CallTypeOK
  <2>2. bound[c] = bound[d] => id[c] # i
    BY <1>1
  <2> HIDE DEF i
  <2>3. \A p \in pending[bound[c]] : p.id = id[c] => p \in pending'[bound[c]]
    BY <1>1, <2>1, <2>2 DEF CallTypeOK
  <2> QED BY <1>2, <1>3, <2>3
<1>5. CASE InPlay(d) /\ Unregister(d)
  <2>1. bound[d] \in Sessions /\ (bound[c] = bound[d] => id[c] # id[d])
    BY <1>5 DEF StageInv, CallTypeOK, InPlay, IdInv
  <2>2. \A p \in pending[bound[c]] : p.id = id[c] => p \in pending'[bound[c]]
    BY <1>1, <1>5, <2>1 DEF Unregister, CallTypeOK
  <2> QED BY <1>2, <1>3, <2>2
<1>6. CASE UNCHANGED pending
  BY <1>2, <1>3, <1>6
<1>7. Register(d) \/ (InPlay(d) /\ Unregister(d)) \/ UNCHANGED pending
  BY DEF Asking, Begin, SessionFound, WaitRefused, Write, WriteFails, Answered,
         Interrupted, Expire, InPlay
<1> QED BY <1>4, <1>5, <1>6, <1>7

(* A caller's own steps.                                                   *)
LEMMA OwnStepHeard ==
    ASSUME IInv, NEW c \in Callers, InPlay(c) => Heard(c), Asking(c) \/ Expire(c), InPlay(c)'
    PROVE  Heard(c)'
<1> USE DEF IInv, CallInv
<1>1. Register(c) \/ Write(c)
  BY DEF CallTypeOK, Asking, Begin, SessionFound, WaitRefused, WriteFails, Answered,
         Interrupted, Expire, Goto, Bind, SessionGone, InPlay
<1>2. CASE Register(c)
  <2> DEFINE i == seq[bound[c]] + 1
  <2>1. /\ bound[c] \in Sessions /\ UNCHANGED bound
        /\ pending' = [pending EXCEPT ![bound[c]] =
              {p \in @ : p.id # i} \cup {[id |-> i, caller |-> c]}]
        /\ id' = [id EXCEPT ![c] = i]
    BY <1>2 DEF Register, StageInv, CallTypeOK
  <2> HIDE DEF i
  <2>2. id'[c] = i /\ [id |-> i, caller |-> c] \in pending'[bound[c]]
    BY <2>1 DEF CallTypeOK
  <2> QED BY <2>1, <2>2 DEF Heard, Mine
<1>3. CASE Write(c)
  <2>1. InPlay(c) /\ UNCHANGED <<bound, id, reply, pending, reader>>
    BY <1>3 DEF Write, InPlay, supVars
  <2> QED BY <2>1 DEF Heard, Mine, PastReading
<1> QED BY <1>1, <1>2, <1>3

LEMMA HeardStep == IInv /\ HeardInv /\ [Next]_vars => HeardInv'
<1> SUFFICES ASSUME IInv, HeardInv, [Next]_vars, NEW c \in Callers, InPlay(c)'
             PROVE  Heard(c)'
  BY DEF HeardInv
<1> USE DEF IInv, CallInv
<1>1. \A s \in Sessions : PastReading(s) => reader'[s] \in {"drained", "exited"}
  <2>1. SupStep
    BY NextIsSupStep
  <2>2. \A s \in Sessions : /\ reader[s] # "none" => reader'[s] # "none"
                            /\ reader'[s] = "reading" => reader[s] \in {"none", "reading"}
    BY <2>1, ReaderMoves
  <2>3. SupTypeOK'
    BY <2>1, SupTypeStep
  <2> QED BY <2>2, <2>3 DEF SupTypeOK, PastReading
<1>2. CASE \/ (Supervising \/ Ripen \/ Closing) /\ UNCHANGED callVars
           \/ \E s \in Sessions : (Lose(s) \/ CloseDone(s)) /\ UNCHANGED callVars
           \/ UNCHANGED vars
  <2>1. UNCHANGED callVars
    BY <1>2 DEF vars
  <2>2. InPlay(c) /\ UNCHANGED <<bound, id, reply, pending>>
    BY <2>1 DEF callVars, InPlay
  <2> QED BY <1>1, <2>2, StillHeard DEF HeardInv
<1>3. ASSUME NEW s \in Sessions, Respond(s)
      PROVE  Heard(c)'
  <2>1. PICK req \in wire[s] :
          /\ reply' = [d \in Callers |->
                 IF \E p \in {p \in pending[s] : p.id = req.id} : p.caller = d
                 THEN req.caller ELSE reply[d]]
          /\ pending' = [pending EXCEPT ![s] = @ \ {p \in pending[s] : p.id = req.id}]
    BY <1>3 DEF Respond
  <2>2. InPlay(c) /\ UNCHANGED <<bound, id>>
    BY <1>3 DEF Respond, InPlay
  <2>3. req.caller # "empty"
    BY CallersAssumption DEF CallTypeOK, Requests
  <2>4. reply[c] # "empty" => reply'[c] # "empty"
    BY <2>1, <2>3
  <2>5. \/ reply'[c] # "empty"
        \/ \A p \in pending[bound[c]] : p.caller = c => p \in pending'[bound[c]]
    BY <2>1, <2>3 DEF CallTypeOK
  <2> QED BY <1>1, <2>2, <2>4, <2>5, StillHeard DEF HeardInv
<1>4. ASSUME NEW s \in Sessions, Drain(s)
      PROVE  Heard(c)'
  <2>1. /\ InPlay(c) /\ UNCHANGED <<bound, id>>
        /\ reply[c] # "empty" => reply'[c] # "empty"
    BY <1>4 DEF Drain, InPlay
  <2>2. reader'[s] = "drained" /\ \A t \in Sessions \ {s} : pending'[t] = pending[t]
    BY <1>4 DEF Drain, ReadFails, SupTypeOK, CallTypeOK
  <2>3. bound[c] \in Sessions
    BY <2>1 DEF StageInv, CallTypeOK, InPlay
  <2> QED BY <1>1, <2>1, <2>2, <2>3, StillHeard DEF HeardInv
<1>5. ASSUME NEW d \in Callers, Asking(d) \/ Expire(d)
      PROVE  Heard(c)'
  <2>1. CASE d = c
    BY <1>5, <2>1, OwnStepHeard DEF HeardInv
  <2>2. CASE d # c
    <3>1. InPlay(c)
      BY <1>5, <2>2 DEF CallTypeOK, Asking, Begin, SessionFound, WaitRefused, Register, Write,
             WriteFails, Answered, Interrupted, Expire, Goto, Bind, SessionGone, InPlay
    <3> QED BY <1>1, <1>5, <2>2, <3>1, OthersKeepPlace, StillHeard DEF HeardInv
  <2> QED BY <2>1, <2>2
<1> QED BY <1>2, <1>3, <1>4, <1>5 DEF Next, Ended

(* A caller that waits for a frame is never forgotten.  It is in the table *)
(* of a session that still reads, so that an answer or the cleanup finds   *)
(* it; or it has its answer, or its channel has been closed; or it came    *)
(* too late for the cleanup, on a session whose done channel is closed or  *)
(* about to be.  This is what DroppedSessionReleases rests on.             *)
NobodyForgotten ==
    \A c \in Callers : pc[c] = "await" =>
        \/ reader[bound[c]] = "reading" /\ Mine(c) \in pending[bound[c]]
        \/ reply[c] \in {"closed", c}
        \/ PastReading(bound[c])

THEOREM EveryoneIsTold == Spec => []NobodyForgotten
<1>1. Init => HeardInv
  BY DEF Init, HeardInv, InPlay
<1>2. IInv /\ HeardInv /\ [Next]_vars => HeardInv'
  BY HeardStep
<1>3. IInv /\ HeardInv => NobodyForgotten
  <2> SUFFICES ASSUME IInv, HeardInv, NEW c \in Callers, pc[c] = "await"
               PROVE  \/ reader[bound[c]] = "reading" /\ Mine(c) \in pending[bound[c]]
                      \/ reply[c] \in {"closed", c}
                      \/ PastReading(bound[c])
    BY DEF NobodyForgotten
  <2>1. Heard(c)
    BY DEF HeardInv, InPlay
  <2>2. reply[c] \in {"empty", "closed", c}
    BY DEF IInv, CallTypeOK, CallInv, PairInv, EachToItsOwn
  <2>3. reader[bound[c]] \in {"reading", "drained", "exited"}
    BY DEF IInv, CallInv, StageInv, CallTypeOK, SupTypeOK
  <2> QED BY <2>1, <2>2, <2>3 DEF Heard, PastReading
<1> QED BY <1>1, <1>2, <1>3, Inductive, PTL DEF Spec
=============================================================================
