----------------------------- MODULE RelayProof -----------------------------
(***************************************************************************)
(* Proofs about the reply relay, for any handlers, sessions, table size    *)
(* and polling window.  RelayInv says what a handler's snapshot, its       *)
(* result and the claim table hold of the agent's transcripts; PollInv,    *)
(* when no look has failed, that an answer old enough to have been looked  *)
(* for is already with some handler.                                       *)
(***************************************************************************)
EXTENDS Relay, FiniteSetTheorems, TLAPS

(* Each session's messages and replies are its own.                        *)
OwnLines(list) == \A k \in Keys : \A i \in 1 .. Len(list[k]) : KeyOf[list[k][i]] = k

ClockInv == clock > Never /\ \A h \in Handlers : since[h] <= clock

PlaceInv ==
    \A h \in Handlers : /\ pc[h] # "claim" => snapshot[h] = {}
                        /\ pc[h] # "done" => got[h] = {}

(* What a handler has read, and what it may claim, is of its session.      *)
SnapInv ==
    \A h \in Handlers : \A r \in snapshot[h] :
        /\ r.key = <<KeyOf[h], r.text>>
        /\ KeyOf[r.text] = KeyOf[h]
        /\ repliedAt[r.text] >= since[h]

(* A reply returned since the table was last emptied is still in it.       *)
HeldInv ==
    \A h \in Handlers : \A r \in got[h] :
        /\ gotIn[h] <= wipes
        /\ gotIn[h] = wipes => <<KeyOf[h], r>> \in claimed

RelayInv == /\ OwnLines(asked) /\ OwnLines(transcript)
            /\ ClockInv /\ PlaceInv /\ SnapInv /\ OwnSession
            /\ HeldInv /\ TwiceOnlyAfterWipe

(* Nobody claims a reply without returning it.                             *)
ClaimedInv == \A c \in claimed : Delivered(c[2])

(* While no look has failed: every answer given is on file, and is with    *)
(* some handler once its own handler has had the chance to see it.         *)
OnFile(h) == \E i \in 1 .. Len(transcript[KeyOf[h]]) : transcript[KeyOf[h]][i] = h

InTime(h) == repliedAt[h] # Never /\ since[h] <= repliedAt[h] /\ repliedAt[h] < clock

LookedFor(h) == InTime(h) /\ (h \in polled \/ repliedAt[h] + 1 < clock)

Sighted(h) ==
    /\ pc[h] = "claim" /\ InTime(h) => Delivered(h) \/ \E r \in snapshot[h] : r.text = h
    /\ pc[h] = "poll" /\ LookedFor(h) => Delivered(h)

SeenInv ==
    disturbed = 0 =>
        \A h \in Handlers : (repliedAt[h] # Never => OnFile(h)) /\ Sighted(h)

PollInv == ClaimedInv /\ SeenInv
-----------------------------------------------------------------------------
LEMMA TailFacts ==
    ASSUME NEW S, NEW s \in Seq(S), s # <<>>
    PROVE  /\ Head(s) \in S /\ Head(s) = s[1] /\ 1 \in 1 .. Len(s)
           /\ Tail(s) \in Seq(S)
           /\ \A i \in 1 .. Len(Tail(s)) : i + 1 \in 1 .. Len(s) /\ Tail(s)[i] = s[i + 1]
  OBVIOUS

LEMMA AppendFacts ==
    ASSUME NEW S, NEW s \in Seq(S), NEW x \in S
    PROVE  /\ Append(s, x) \in Seq(S)
           /\ Len(s) + 1 \in 1 .. Len(Append(s, x)) /\ Append(s, x)[Len(s) + 1] = x
           /\ \A i \in 1 .. Len(s) : i \in 1 .. Len(Append(s, x)) /\ Append(s, x)[i] = s[i]
           /\ \A i \in 1 .. Len(Append(s, x)) :
                 \/ i \in 1 .. Len(s) /\ Append(s, x)[i] = s[i]
                 \/ Append(s, x)[i] = x
  OBVIOUS

(* The claim table is finite, so that its size is a number.                *)
Shape == TypeOK /\ IsFiniteSet(claimed)

LEMMA ShapeInit == Init => Shape
<1> SUFFICES ASSUME Init PROVE Shape
  OBVIOUS
<1> USE DEF Init, Never
<1>1. IsFiniteSet(claimed) /\ Cardinality(claimed) <= MaxClaimed
  BY RelayAssumption, FS_EmptySet
<1>2. /\ asked \in [Keys -> Seq(Handlers)] /\ transcript \in [Keys -> Seq(Handlers)]
      /\ snapshot \in [Handlers -> SUBSET Lines] /\ got \in [Handlers -> SUBSET Handlers]
  OBVIOUS
<1>3. disturbed \in 0 .. MaxDisturbed
  BY RelayAssumption
<1> QED BY <1>1, <1>2, <1>3 DEF Shape, TypeOK

(* The reply an agent records is to a message it was sent.                 *)
LEMMA ReplyFacts ==
    ASSUME Shape, NEW k \in Keys, Reply(k)
    PROVE  \E m \in Handlers :
              /\ m = asked[k][1] /\ 1 \in 1 .. Len(asked[k])
              /\ asked' = [asked EXCEPT ![k] = Tail(asked[k])]
              /\ transcript' = [transcript EXCEPT ![k] = Append(transcript[k], m)]
              /\ repliedAt' = [repliedAt EXCEPT ![m] = clock]
<1>1. asked[k] \in Seq(Handlers) /\ asked[k] # <<>>
  BY DEF Shape, TypeOK, Reply
<1> QED BY <1>1, TailFacts DEF Reply

(* Every line of a snapshot is one of the session's transcript.            *)
LEMMA RecordedFacts ==
    ASSUME Shape, NEW k \in Keys, NEW from \in Nat
    PROVE  /\ Recorded(k, from) \subseteq Lines
           /\ \A r \in Recorded(k, from) :
                 /\ r.key = <<k, r.text>> /\ repliedAt[r.text] >= from
                 /\ \E i \in 1 .. Len(transcript[k]) : r.text = transcript[k][i]
           /\ \A i \in 1 .. Len(transcript[k]) : repliedAt[transcript[k][i]] >= from =>
                 \E r \in Recorded(k, from) : r.text = transcript[k][i]
<1>1. \A i \in 1 .. Len(transcript[k]) : i \in Nat /\ transcript[k][i] \in Handlers
  BY DEF Shape, TypeOK
<1>2. ASSUME NEW r \in Recorded(k, from)
      PROVE  \E i \in 1 .. Len(transcript[k]) :
                /\ repliedAt[transcript[k][i]] >= from
                /\ r = [line |-> i, key |-> <<k, transcript[k][i]>>,
                        text |-> transcript[k][i]]
  BY <1>2 DEF Recorded, Recent, ReplyKey
<1>3. ASSUME NEW i \in 1 .. Len(transcript[k]), repliedAt[transcript[k][i]] >= from
      PROVE  \E r \in Recorded(k, from) : r.text = transcript[k][i]
  <2>1. [line |-> i, key |-> ReplyKey(k, i), text |-> transcript[k][i]] \in Recorded(k, from)
    BY <1>3 DEF Recorded, Recent
  <2> QED BY <2>1
<1>4. ASSUME NEW r \in Recorded(k, from)
      PROVE  /\ r \in Lines /\ r.key = <<k, r.text>> /\ repliedAt[r.text] >= from
             /\ \E i \in 1 .. Len(transcript[k]) : r.text = transcript[k][i]
  <2>1. PICK i \in 1 .. Len(transcript[k]) :
           /\ repliedAt[transcript[k][i]] >= from
           /\ r = [line |-> i, key |-> <<k, transcript[k][i]>>, text |-> transcript[k][i]]
    BY <1>2
  <2> QED BY <1>1, <2>1 DEF Lines
<1> QED BY <1>3, <1>4

(* What a handler that looks finds: its own session's transcript.          *)
LEMMA LookFacts ==
    ASSUME Shape, NEW h \in Handlers, Look(h)
    PROVE  /\ KeyOf[h] \in Keys /\ since[h] \in Nat
           /\ snapshot' = [snapshot EXCEPT ![h] = Recorded(KeyOf[h], since[h])]
           /\ pc' = [pc EXCEPT ![h] =
                        IF Recorded(KeyOf[h], since[h]) = {} THEN "poll" ELSE "claim"]
<1>1. snapshot' = [snapshot EXCEPT ![h] = Recorded(KeyOf[h], since[h])]
  BY DEF Look, SessionFile
<1>2. snapshot'[h] = Recorded(KeyOf[h], since[h])
  BY <1>1 DEF Shape, TypeOK
<1> QED BY <1>1, <1>2, RelayAssumption DEF Shape, TypeOK, Look, Goto

(* The table after a claim: never more than it may hold.                   *)
LEMMA ClaimFacts ==
    ASSUME Shape, NEW h \in Handlers, Claim(h)
    PROVE  \E r \in snapshot[h] :
              /\ r \in Lines /\ r.key \notin claimed
              /\ got' = [got EXCEPT ![h] = {r.text}]
              /\ claimed' \subseteq claimed \cup {r.key} /\ r.key \in claimed'
              /\ \/ wipes' = wipes + 1
                 \/ wipes' = wipes /\ claimed' = claimed \cup {r.key}
              /\ wipes' \in Nat /\ gotIn' = [gotIn EXCEPT ![h] = wipes']
              /\ IsFiniteSet(claimed') /\ Cardinality(claimed') <= MaxClaimed
<1>1. PICK r \in snapshot[h] :
         /\ r.key \notin claimed
         /\ claimed' = (IF Full THEN {} ELSE claimed) \cup {r.key}
         /\ got' = [got EXCEPT ![h] = {r.text}]
  BY DEF Claim, Foremost
<1>2. /\ r \in Lines /\ MaxClaimed \in Nat \ {0} /\ wipes \in Nat
      /\ IsFiniteSet(claimed)
  BY <1>1, RelayAssumption DEF Shape, TypeOK
<1>3. Cardinality(claimed) \in Nat
  BY <1>2, FS_CardinalityType
<1>4. CASE Full
  <2>1. claimed' = {} \cup {r.key}
    BY <1>1, <1>4
  <2>2. IsFiniteSet({r.key}) /\ Cardinality({r.key}) = 1
    BY FS_Singleton
  <2>3. IsFiniteSet(claimed') /\ Cardinality(claimed') <= MaxClaimed
    BY <1>2, <2>1, <2>2
  <2>4. wipes' = wipes + 1 /\ wipes' \in Nat /\ gotIn' = [gotIn EXCEPT ![h] = wipes']
    BY <1>2, <1>4 DEF Claim
  <2> QED BY <1>1, <1>2, <2>1, <2>3, <2>4
<1>5. CASE ~Full
  <2>1. claimed' = claimed \cup {r.key}
    BY <1>1, <1>5
  <2>2. IsFiniteSet(claimed') /\ Cardinality(claimed') = Cardinality(claimed) + 1
    BY <1>1, <1>2, <2>1, FS_AddElement, ZenonT(40)
  <2>3. Cardinality(claimed') <= MaxClaimed
    BY <1>2, <1>3, <1>5, <2>2 DEF Full
  <2>4. wipes' = wipes /\ gotIn' = [gotIn EXCEPT ![h] = wipes']
    BY <1>5 DEF Claim
  <2> QED BY <1>1, <1>2, <2>1, <2>2, <2>3, <2>4
<1> QED BY <1>4, <1>5

(* One reply of the snapshot is found taken, and set aside.                *)
LEMMA TakenFacts ==
    ASSUME Shape, NEW h \in Handlers, Taken(h)
    PROVE  \E r \in snapshot[h] :
              /\ r.key \in claimed
              /\ snapshot' = [snapshot EXCEPT ![h] = snapshot[h] \ {r}]
              /\ pc' = [pc EXCEPT ![h] = IF snapshot[h] \ {r} = {} THEN "poll" ELSE "claim"]
<1>1. PICK r \in snapshot[h] :
         r.key \in claimed /\ snapshot' = [snapshot EXCEPT ![h] = snapshot[h] \ {r}]
  BY DEF Taken, Foremost, Rest
<1>2. snapshot'[h] = snapshot[h] \ {r}
  BY <1>1 DEF Shape, TypeOK
<1> QED BY <1>1, <1>2 DEF Taken, Goto
-----------------------------------------------------------------------------
LEMMA ShapeStep == ASSUME Shape, [Next]_vars PROVE Shape'
<1> USE DEF Shape, TypeOK, ctxVars
<1>1. /\ clock \in Nat /\ KeyOf \in [Handlers -> Keys] /\ MaxDisturbed \in Nat
  BY RelayAssumption
<1>2. CASE Tick
  BY <1>2 DEF Tick, agentVars, ctxVars
<1>3. ASSUME NEW k \in Keys, Reply(k)
      PROVE  Shape'
  <2>1. PICK m \in Handlers : /\ asked' = [asked EXCEPT ![k] = Tail(asked[k])]
                              /\ transcript' = [transcript EXCEPT ![k] = Append(transcript[k], m)]
                              /\ repliedAt' = [repliedAt EXCEPT ![m] = clock]
    BY <1>3, ReplyFacts
  <2>2. Tail(asked[k]) \in Seq(Handlers)
    BY <1>3, TailFacts DEF Reply
  <2>3. Append(transcript[k], m) \in Seq(Handlers)
    BY AppendFacts
  <2>4. asked' \in [Keys -> Seq(Handlers)]
    BY <2>1, <2>2
  <2>5. transcript' \in [Keys -> Seq(Handlers)] /\ repliedAt' \in [Handlers -> Nat]
    BY <1>1, <2>1, <2>3
  <2> QED BY <1>3, <2>4, <2>5 DEF Reply
<1>4. ASSUME NEW k \in Keys, Compact(k)
      PROVE  Shape'
  <2>1. Tail(transcript[k]) \in Seq(Handlers)
    BY <1>4, TailFacts DEF Compact
  <2>2. transcript' \in [Keys -> Seq(Handlers)] /\ disturbed' \in 0 .. MaxDisturbed
    BY <1>1, <1>4, <2>1 DEF Compact, Disturb
  <2> QED BY <1>4, <2>2 DEF Compact
<1>5. ASSUME NEW h \in Handlers, Send(h)
      PROVE  Shape'
  <2>1. Append(asked[KeyOf[h]], h) \in Seq(Handlers)
    BY <1>1, AppendFacts
  <2>2. PICK end \in Deadline(h) : ends' = [ends EXCEPT ![h] = end]
    BY <1>5 DEF Send
  <2>3. Deadline(h) \subseteq Nat
    BY <1>1, RelayAssumption DEF Deadline, Never
  <2>4. ends' \in [Handlers -> Nat]
    BY <2>2, <2>3
  <2> QED BY <1>1, <1>5, <2>1, <2>4 DEF Send, Goto
<1>6. ASSUME NEW h \in Handlers, Ack(h)
      PROVE  Shape'
  BY <1>6 DEF Ack, Goto, agentVars, ctxVars
<1>7. ASSUME NEW h \in Handlers, SendFails(h) \/ GiveUp(h)
      PROVE  Shape'
  BY <1>7 DEF SendFails, GiveUp, Goto, agentVars, ctxVars
<1>8. ASSUME NEW h \in Handlers, Look(h)
      PROVE  Shape'
  <2>1. /\ KeyOf[h] \in Keys /\ since[h] \in Nat
        /\ snapshot' = [snapshot EXCEPT ![h] = Recorded(KeyOf[h], since[h])]
        /\ pc' = [pc EXCEPT ![h] =
                     IF Recorded(KeyOf[h], since[h]) = {} THEN "poll" ELSE "claim"]
    BY <1>8, LookFacts
  <2>2. Recorded(KeyOf[h], since[h]) \subseteq Lines
    BY <2>1, RecordedFacts
  <2> QED BY <1>8, <2>1, <2>2 DEF Look, agentVars, ctxVars
<1>9. ASSUME NEW h \in Handlers, LookFails(h)
      PROVE  Shape'
  <2>1. disturbed' \in 0 .. MaxDisturbed /\ polled' \subseteq Handlers
    BY <1>1, <1>9 DEF LookFails, Disturb
  <2> QED BY <1>9, <2>1 DEF LookFails, agentVars, ctxVars
<1>10. ASSUME NEW h \in Handlers, Claim(h)
       PROVE  Shape'
  <2>1. PICK r \in Lines :
           /\ got' = [got EXCEPT ![h] = {r.text}]
           /\ claimed' \subseteq claimed \cup {r.key}
           /\ wipes' \in Nat /\ gotIn' = [gotIn EXCEPT ![h] = wipes']
           /\ IsFiniteSet(claimed') /\ Cardinality(claimed') <= MaxClaimed
    BY <1>10, ClaimFacts
  <2>2. r.key \in Keys \X Handlers /\ r.text \in Handlers
    BY DEF Lines
  <2>3. claimed' \subseteq Keys \X Handlers /\ got' \in [Handlers -> SUBSET Handlers]
    BY <2>1, <2>2
  <2>4. /\ snapshot' = [snapshot EXCEPT ![h] = {}] /\ pc' = [pc EXCEPT ![h] = "done"]
        /\ UNCHANGED <<clock, agentVars, ctxVars, since, polled, disturbed>>
    BY <1>10 DEF Claim, Goto
  <2>5. gotIn' \in [Handlers -> Nat]
    BY <2>1
  <2>6. snapshot' \in [Handlers -> SUBSET Lines]
    BY <2>4
  <2> QED BY <2>1, <2>3, <2>4, <2>5, <2>6 DEF agentVars, ctxVars
<1>11. ASSUME NEW h \in Handlers, Taken(h)
       PROVE  Shape'
  <2>1. PICK r :
           /\ snapshot' = [snapshot EXCEPT ![h] = snapshot[h] \ {r}]
           /\ pc' = [pc EXCEPT ![h] = IF snapshot[h] \ {r} = {} THEN "poll" ELSE "claim"]
    BY <1>11, TakenFacts
  <2> QED BY <1>11, <2>1 DEF Taken, agentVars, ctxVars
<1>12. CASE UNCHANGED vars
  BY <1>12 DEF vars
<1>13. CASE Shutdown
  <2>1. disturbed' \in 0 .. MaxDisturbed /\ cancelled' \in BOOLEAN
    BY <1>1, <1>13 DEF Shutdown, Disturb
  <2> QED BY <1>13, <2>1 DEF Shutdown, agentVars
<1> QED
  BY <1>13, <1>2, <1>3, <1>4, <1>5, <1>6, <1>7, <1>8, <1>9, <1>10, <1>11, <1>12 DEF Next, Relaying

LEMMA ShapeAlways == Spec => []Shape
  BY ShapeInit, ShapeStep, PTL DEF Spec

(* The relay's state stays well typed, and the claim table never outgrows  *)
(* maxClaimed, however many handlers claim.                                *)
THEOREM TypeCorrect == Spec => []TypeOK
<1>1. Shape => TypeOK
  BY DEF Shape
<1> QED BY <1>1, ShapeAlways, PTL
-----------------------------------------------------------------------------
(* The agent keeps each session's lines in its own transcript.             *)
LEMMA RelayInvReply ==
    ASSUME Shape, RelayInv, NEW k \in Keys, Reply(k)
    PROVE  RelayInv'
<1>1. PICK m \in Handlers :
         /\ m = asked[k][1] /\ 1 \in 1 .. Len(asked[k])
         /\ asked' = [asked EXCEPT ![k] = Tail(asked[k])]
         /\ transcript' = [transcript EXCEPT ![k] = Append(transcript[k], m)]
         /\ repliedAt' = [repliedAt EXCEPT ![m] = clock]
  BY ReplyFacts
<1>2. /\ KeyOf[m] = k
      /\ \A i \in 1 .. Len(asked[k]) : KeyOf[asked[k][i]] = k
      /\ \A i \in 1 .. Len(transcript[k]) : KeyOf[transcript[k][i]] = k
  BY <1>1 DEF RelayInv, OwnLines
<1>3. OwnLines(asked')
  <2>1. \A i \in 1 .. Len(Tail(asked[k])) :
           i + 1 \in 1 .. Len(asked[k]) /\ Tail(asked[k])[i] = asked[k][i + 1]
    BY TailFacts DEF Reply, Shape, TypeOK
  <2>2. \A i \in 1 .. Len(Tail(asked[k])) : KeyOf[Tail(asked[k])[i]] = k
    BY <1>2, <2>1
  <2> QED BY <1>1, <2>2 DEF RelayInv, OwnLines, Shape, TypeOK
<1>4. OwnLines(transcript')
  <2>1. \A i \in 1 .. Len(Append(transcript[k], m)) :
           \/ i \in 1 .. Len(transcript[k]) /\ Append(transcript[k], m)[i] = transcript[k][i]
           \/ Append(transcript[k], m)[i] = m
    BY AppendFacts DEF Shape, TypeOK
  <2>2. \A i \in 1 .. Len(Append(transcript[k], m)) : KeyOf[Append(transcript[k], m)[i]] = k
    BY <1>2, <2>1
  <2> QED BY <1>1, <2>2 DEF RelayInv, OwnLines, Shape, TypeOK
<1>5. ASSUME NEW h \in Handlers, NEW r \in Handlers, repliedAt[r] >= since[h]
      PROVE  repliedAt'[r] >= since[h]
  BY <1>1, <1>5 DEF RelayInv, ClockInv, Shape, TypeOK
<1>6. UNCHANGED <<clock, pc, since, snapshot, claimed, wipes, got, gotIn>>
  BY DEF Reply
<1>7. SnapInv'
  <2>1. \A h \in Handlers : \A r \in snapshot[h] : r.text \in Handlers
    BY DEF Shape, TypeOK, Lines
  <2> QED BY <1>5, <1>6, <2>1 DEF RelayInv, SnapInv
<1>8. OwnSession'
  <2>1. \A h \in Handlers : got[h] \subseteq Handlers
    BY DEF Shape, TypeOK
  <2> QED BY <1>5, <1>6, <2>1 DEF RelayInv, OwnSession
<1>9. ClockInv' /\ PlaceInv' /\ HeldInv' /\ TwiceOnlyAfterWipe'
  BY <1>6 DEF RelayInv, ClockInv, PlaceInv, HeldInv, TwiceOnlyAfterWipe
<1> QED BY <1>3, <1>4, <1>7, <1>8, <1>9 DEF RelayInv, OwnLines

LEMMA RelayInvCompact ==
    ASSUME Shape, RelayInv, NEW k \in Keys, Compact(k)
    PROVE  RelayInv'
<1>1. \A i \in 1 .. Len(Tail(transcript[k])) :
         i + 1 \in 1 .. Len(transcript[k]) /\ Tail(transcript[k])[i] = transcript[k][i + 1]
  BY TailFacts DEF Compact, Shape, TypeOK
<1>2. \A i \in 1 .. Len(Tail(transcript[k])) : KeyOf[Tail(transcript[k])[i]] = k
  BY <1>1 DEF RelayInv, OwnLines
<1>3. OwnLines(transcript')
  BY <1>2 DEF Compact, RelayInv, OwnLines, Shape, TypeOK
<1>4. UNCHANGED <<clock, asked, repliedAt, pc, since, snapshot, claimed, wipes, got, gotIn>>
  BY DEF Compact
<1> QED
  BY <1>3, <1>4 DEF RelayInv, OwnLines, ClockInv, PlaceInv, SnapInv, OwnSession, HeldInv,
                    TwiceOnlyAfterWipe

LEMMA RelayInvSend ==
    ASSUME Shape, RelayInv, NEW h \in Handlers, Send(h)
    PROVE  RelayInv'
<1> DEFINE k == KeyOf[h]
<1>1. /\ k \in Keys
      /\ asked' = [asked EXCEPT ![k] = Append(asked[k], h)]
      /\ pc' = [pc EXCEPT ![h] = "sent"] /\ pc[h] = "send"
      /\ UNCHANGED <<clock, transcript, repliedAt, since, snapshot, claimed, wipes, got, gotIn>>
  BY RelayAssumption DEF Send, Goto
<1>2. \A i \in 1 .. Len(Append(asked[k], h)) :
         \/ i \in 1 .. Len(asked[k]) /\ Append(asked[k], h)[i] = asked[k][i]
         \/ Append(asked[k], h)[i] = h
  <2>1. asked[k] \in Seq(Handlers)
    BY <1>1 DEF Shape, TypeOK
  <2> QED BY <2>1, AppendFacts
<1>3. \A i \in 1 .. Len(Append(asked[k], h)) : KeyOf[Append(asked[k], h)[i]] = k
  BY <1>1, <1>2 DEF RelayInv, OwnLines
<1>4. OwnLines(asked')
  BY <1>1, <1>3 DEF RelayInv, OwnLines, Shape, TypeOK
<1>5. PlaceInv'
  BY <1>1 DEF RelayInv, PlaceInv, Shape, TypeOK
<1> QED
  BY <1>1, <1>4, <1>5 DEF RelayInv, OwnLines, ClockInv, SnapInv, OwnSession, HeldInv,
                          TwiceOnlyAfterWipe

(* The handler's steps that read nothing and claim nothing.                *)
LEMMA RelayInvWait ==
    ASSUME Shape, RelayInv, NEW h \in Handlers,
           Ack(h) \/ SendFails(h) \/ LookFails(h) \/ GiveUp(h)
    PROVE  RelayInv'
<1>1. /\ UNCHANGED <<clock, asked, transcript, repliedAt, snapshot, claimed, wipes, got,
                     gotIn>>
      /\ pc[h] \in {"send", "sent", "poll"}
      /\ \E label \in {"poll", "failed"} : pc' = [pc EXCEPT ![h] = label]
      /\ since' = since \/ since' = [since EXCEPT ![h] = clock]
  <2>1. CASE LookFails(h)
    BY <2>1 DEF LookFails, agentVars, ctxVars, Shape, TypeOK
  <2>2. CASE Ack(h) \/ SendFails(h) \/ GiveUp(h)
    BY <2>2 DEF Ack, SendFails, GiveUp, Goto, agentVars, ctxVars
  <2> QED BY <2>1, <2>2
<1>2. snapshot[h] = {} /\ got[h] = {}
  BY <1>1 DEF RelayInv, PlaceInv
<1>3. \A g \in Handlers : g # h => since'[g] = since[g] /\ pc'[g] = pc[g]
  BY <1>1 DEF Shape, TypeOK
<1>4. ClockInv' /\ PlaceInv'
  <2>1. since'[h] \in {since[h], clock} /\ clock \in Nat
    BY <1>1 DEF Shape, TypeOK
  <2>2. pc'[h] # "done" /\ pc'[h] # "claim"
    BY <1>1 DEF Shape, TypeOK
  <2>3. ClockInv'
    BY <1>1, <1>3, <2>1 DEF RelayInv, ClockInv
  <2> QED BY <1>1, <1>2, <1>3, <2>2, <2>3 DEF RelayInv, PlaceInv
<1>5. SnapInv' /\ OwnSession'
  BY <1>1, <1>2, <1>3 DEF RelayInv, SnapInv, OwnSession
<1> QED
  BY <1>1, <1>4, <1>5 DEF RelayInv, OwnLines, HeldInv, TwiceOnlyAfterWipe

LEMMA RelayInvLook ==
    ASSUME Shape, RelayInv, NEW h \in Handlers, Look(h)
    PROVE  RelayInv'
<1> DEFINE found == Recorded(KeyOf[h], since[h])
<1>1. /\ KeyOf[h] \in Keys /\ since[h] \in Nat /\ pc[h] = "poll"
      /\ snapshot' = [snapshot EXCEPT ![h] = found]
      /\ pc' = [pc EXCEPT ![h] = IF found = {} THEN "poll" ELSE "claim"]
      /\ UNCHANGED <<clock, asked, transcript, repliedAt, since, claimed, wipes, got, gotIn>>
  BY LookFacts DEF Look, agentVars, ctxVars
<1>2. \A r \in found : /\ r.key = <<KeyOf[h], r.text>> /\ repliedAt[r.text] >= since[h]
                       /\ KeyOf[r.text] = KeyOf[h]
  BY <1>1, RecordedFacts DEF RelayInv, OwnLines
<1> HIDE DEF found
<1>3. SnapInv'
  BY <1>1, <1>2 DEF RelayInv, SnapInv, Shape, TypeOK
<1>4. PlaceInv'
  BY <1>1 DEF RelayInv, PlaceInv, Shape, TypeOK
<1> QED
  BY <1>1, <1>3, <1>4 DEF RelayInv, OwnLines, ClockInv, OwnSession, HeldInv,
                          TwiceOnlyAfterWipe

(* A claim is of a reply not in the table: whoever returned it before did  *)
(* so under an earlier table.                                              *)
LEMMA RelayInvClaim ==
    ASSUME Shape, RelayInv, NEW h \in Handlers, Claim(h)
    PROVE  RelayInv'
<1>1. PICK r \in snapshot[h] :
         /\ r.key \notin claimed
         /\ got' = [got EXCEPT ![h] = {r.text}]
         /\ r.key \in claimed'
         /\ \/ wipes' = wipes + 1
            \/ wipes' = wipes /\ claimed' = claimed \cup {r.key}
         /\ wipes' \in Nat /\ gotIn' = [gotIn EXCEPT ![h] = wipes']
  BY ClaimFacts
<1>2. /\ snapshot' = [snapshot EXCEPT ![h] = {}] /\ pc' = [pc EXCEPT ![h] = "done"]
      /\ UNCHANGED <<clock, asked, transcript, repliedAt, since>>
      /\ wipes \in Nat /\ \A g \in Handlers : gotIn[g] \in Nat
  BY DEF Claim, Goto, agentVars, ctxVars, Shape, TypeOK
<1>3. /\ r.key = <<KeyOf[h], r.text>> /\ KeyOf[r.text] = KeyOf[h]
      /\ repliedAt[r.text] >= since[h]
  BY <1>1 DEF RelayInv, SnapInv
<1>4. /\ got'[h] = {r.text} /\ gotIn'[h] = wipes'
      /\ \A g \in Handlers : g # h => got'[g] = got[g] /\ gotIn'[g] = gotIn[g]
  BY <1>1 DEF Shape, TypeOK
<1>5. SnapInv'
  BY <1>2 DEF RelayInv, SnapInv, Shape, TypeOK
<1>6. PlaceInv'
  BY <1>2, <1>4 DEF RelayInv, PlaceInv, Shape, TypeOK
<1>7. OwnSession'
  BY <1>2, <1>3, <1>4 DEF RelayInv, OwnSession
<1>8. HeldInv'
  <2>1. ASSUME NEW g \in Handlers, g # h, NEW q \in got[g]
        PROVE  gotIn[g] <= wipes' /\ (gotIn[g] = wipes' => <<KeyOf[g], q>> \in claimed')
    <3>1. gotIn[g] <= wipes /\ (gotIn[g] = wipes => <<KeyOf[g], q>> \in claimed)
      BY DEF RelayInv, HeldInv
    <3> QED BY <1>1, <1>2, <3>1
  <2>2. <<KeyOf[h], r.text>> \in claimed' /\ wipes' <= wipes'
    BY <1>1, <1>3
  <2> QED BY <1>4, <2>1, <2>2 DEF HeldInv
<1>9. ASSUME NEW g \in Handlers, g # h, r.text \in got[g]
      PROVE  gotIn[g] # wipes'
  <2>1. gotIn[g] <= wipes /\ (gotIn[g] = wipes => <<KeyOf[g], r.text>> \in claimed)
    BY <1>9 DEF RelayInv, HeldInv
  <2>2. KeyOf[g] = KeyOf[h]
    BY <1>3, <1>9 DEF RelayInv, OwnSession
  <2>3. gotIn[g] # wipes
    BY <1>1, <1>3, <2>1, <2>2
  <2> QED BY <1>1, <1>2, <2>1, <2>3
<1>10. TwiceOnlyAfterWipe'
  BY <1>4, <1>9 DEF RelayInv, TwiceOnlyAfterWipe
<1> QED
  BY <1>2, <1>5, <1>6, <1>7, <1>8, <1>10 DEF RelayInv, OwnLines, ClockInv

LEMMA RelayInvTaken ==
    ASSUME Shape, RelayInv, NEW h \in Handlers, Taken(h)
    PROVE  RelayInv'
<1>1. PICK r \in snapshot[h] :
         /\ snapshot' = [snapshot EXCEPT ![h] = snapshot[h] \ {r}]
         /\ pc' = [pc EXCEPT ![h] = IF snapshot[h] \ {r} = {} THEN "poll" ELSE "claim"]
  BY TakenFacts
<1>2. /\ UNCHANGED <<clock, asked, transcript, repliedAt, since, claimed, wipes, got, gotIn>>
      /\ pc[h] = "claim"
  BY DEF Taken, agentVars, ctxVars
<1>3. SnapInv'
  BY <1>1, <1>2 DEF RelayInv, SnapInv, Shape, TypeOK
<1>4. PlaceInv'
  BY <1>1, <1>2 DEF RelayInv, PlaceInv, Shape, TypeOK
<1> QED
  BY <1>2, <1>3, <1>4 DEF RelayInv, OwnLines, ClockInv, OwnSession, HeldInv,
                          TwiceOnlyAfterWipe

LEMMA RelayInvInit == Init => RelayInv
  BY DEF Init, RelayInv, OwnLines, ClockInv, PlaceInv, SnapInv, OwnSession, HeldInv,
         TwiceOnlyAfterWipe, Never

LEMMA RelayInvStep ==
    ASSUME Shape, RelayInv, [Next]_vars
    PROVE  RelayInv'
<1>1. CASE Tick
  BY <1>1 DEF Tick, agentVars, ctxVars, Shape, TypeOK, RelayInv, OwnLines, ClockInv, PlaceInv,
              SnapInv, OwnSession, HeldInv, TwiceOnlyAfterWipe, Never
<1>2. CASE UNCHANGED vars
  BY <1>2 DEF vars, RelayInv, OwnLines, ClockInv, PlaceInv, SnapInv, OwnSession, HeldInv,
              TwiceOnlyAfterWipe
<1>3. CASE Shutdown
  BY <1>3 DEF Shutdown, agentVars, RelayInv, OwnLines, ClockInv, PlaceInv, SnapInv,
              OwnSession, HeldInv, TwiceOnlyAfterWipe
<1> QED
  BY <1>1, <1>2, <1>3, RelayInvReply, RelayInvCompact, RelayInvSend, RelayInvWait, RelayInvLook,
     RelayInvClaim, RelayInvTaken DEF Next, Relaying

LEMMA RelayInvAlways == Spec => []RelayInv
  BY RelayInvInit, RelayInvStep, ShapeAlways, PTL DEF Spec

(* A handler only ever returns a reply of its own session, recorded after  *)
(* its own request was acknowledged.                                       *)
THEOREM RepliesAreOwn == Spec => []OwnSession
<1>1. RelayInv => OwnSession
  BY DEF RelayInv
<1> QED BY <1>1, RelayInvAlways, PTL

(* The same reply goes to two handlers only across an emptying of the      *)
(* claim table.                                                            *)
THEOREM ClaimedOnce == Spec => []TwiceOnlyAfterWipe
<1>1. RelayInv => TwiceOnlyAfterWipe
  BY DEF RelayInv
<1> QED BY <1>1, RelayInvAlways, PTL
-----------------------------------------------------------------------------
(* A reply that has been returned stays returned.                          *)
LEMMA DeliveredStays ==
    ASSUME Shape, RelayInv, [Next]_vars, NEW m, Delivered(m)
    PROVE  Delivered(m)'
<1>1. CASE \E h \in Handlers : Claim(h)
  <2>1. PICK h \in Handlers : Claim(h)
    BY <1>1
  <2>2. got[h] = {}
    BY <2>1 DEF Claim, RelayInv, PlaceInv
  <2>3. \E x : got' = [got EXCEPT ![h] = x]
    BY <2>1, ClaimFacts
  <2>4. \A g \in Handlers : g # h => got'[g] = got[g]
    BY <2>3 DEF Shape, TypeOK
  <2> QED BY <2>2, <2>4 DEF Delivered
<1>2. CASE ~\E h \in Handlers : Claim(h)
  <2>1. got' = got
    BY <1>2 DEF Next, vars, Relaying, Tick, Shutdown, Reply, Compact, Send, Ack, SendFails, Look,
                LookFails, Taken, GiveUp
  <2> QED BY <2>1 DEF Delivered
<1> QED BY <1>1, <1>2

LEMMA ClaimedStep ==
    ASSUME Shape, RelayInv, ClaimedInv, [Next]_vars
    PROVE  ClaimedInv'
<1>1. \A c \in claimed : Delivered(c[2])'
  BY DeliveredStays DEF ClaimedInv
<1>2. ASSUME NEW h \in Handlers, Claim(h)
      PROVE  ClaimedInv'
  <2>1. PICK r \in snapshot[h] : /\ got' = [got EXCEPT ![h] = {r.text}]
                                 /\ claimed' \subseteq claimed \cup {r.key}
    BY <1>2, ClaimFacts
  <2>2. r.key[2] = r.text
    BY DEF RelayInv, SnapInv
  <2>3. r.text \in got'[h]
    BY <2>1 DEF Shape, TypeOK
  <2>4. Delivered(r.text)'
    BY <2>3 DEF Delivered
  <2> QED BY <1>1, <2>1, <2>2, <2>4 DEF ClaimedInv
<1>3. CASE ~\E h \in Handlers : Claim(h)
  <2>1. claimed' = claimed
    BY <1>3 DEF Next, vars, Relaying, Tick, Shutdown, Reply, Compact, Send, Ack, SendFails, Look,
                LookFails, Taken, GiveUp
  <2> QED BY <1>1, <2>1 DEF ClaimedInv
<1> QED BY <1>2, <1>3

(* What a step of one handler leaves to the others.                        *)
LEMMA OthersKept ==
    ASSUME Shape, NEW g \in Handlers, Relaying(g), NEW h \in Handlers, g # h
    PROVE  /\ UNCHANGED <<clock, transcript, repliedAt>>
           /\ pc'[h] = pc[h] /\ since'[h] = since[h] /\ snapshot'[h] = snapshot[h]
           /\ h \in polled' <=> h \in polled
<1> USE DEF Shape, TypeOK
<1>1. CASE Send(g)
  BY <1>1 DEF Send, Goto
<1>2. CASE Ack(g) \/ SendFails(g) \/ GiveUp(g)
  BY <1>2 DEF Ack, SendFails, GiveUp, Goto, agentVars, ctxVars
<1>3. CASE Look(g)
  <2>1. PICK found, label : /\ snapshot' = [snapshot EXCEPT ![g] = found]
                            /\ pc' = [pc EXCEPT ![g] = label]
    BY <1>3, LookFacts
  <2> QED BY <1>3, <2>1 DEF Look, agentVars, ctxVars
<1>4. CASE LookFails(g)
  BY <1>4 DEF LookFails, agentVars, ctxVars
<1>5. CASE Claim(g)
  <2>1. /\ snapshot' = [snapshot EXCEPT ![g] = {}] /\ pc' = [pc EXCEPT ![g] = "done"]
        /\ UNCHANGED <<clock, transcript, repliedAt, since, polled>>
    BY <1>5 DEF Claim, Goto, agentVars, ctxVars
  <2> QED BY <2>1
<1>6. CASE Taken(g)
  <2>1. PICK left, label : /\ snapshot' = [snapshot EXCEPT ![g] = left]
                           /\ pc' = [pc EXCEPT ![g] = label]
    BY <1>6, TakenFacts
  <2> QED BY <1>6, <2>1 DEF Taken, agentVars, ctxVars
<1> QED BY <1>1, <1>2, <1>3, <1>4, <1>5, <1>6 DEF Relaying

(* Without compactions a transcript keeps what was recorded in it.         *)
LEMMA OnFileStep ==
    ASSUME Shape, RelayInv, [Next]_vars, disturbed = 0, disturbed' = 0,
           NEW h \in Handlers, repliedAt[h] # Never => OnFile(h)
    PROVE  repliedAt'[h] # Never => OnFile(h)'
<1>1. ASSUME NEW k \in Keys, Reply(k)
      PROVE  repliedAt'[h] # Never => OnFile(h)'
  <2>1. PICK m \in Handlers :
           /\ m = asked[k][1] /\ 1 \in 1 .. Len(asked[k])
           /\ transcript' = [transcript EXCEPT ![k] = Append(transcript[k], m)]
           /\ repliedAt' = [repliedAt EXCEPT ![m] = clock]
    BY <1>1, ReplyFacts
  <2>2. KeyOf[m] = k
    BY <2>1 DEF RelayInv, OwnLines
  <2>3. /\ Len(transcript[k]) + 1 \in 1 .. Len(transcript'[k])
        /\ transcript'[k][Len(transcript[k]) + 1] = m
        /\ \A i \in 1 .. Len(transcript[k]) :
              i \in 1 .. Len(transcript'[k]) /\ transcript'[k][i] = transcript[k][i]
    <3>1. transcript[k] \in Seq(Handlers) /\ transcript'[k] = Append(transcript[k], m)
      BY <2>1 DEF Shape, TypeOK
    <3> QED BY <3>1, AppendFacts
  <2>4. CASE h = m
    BY <2>2, <2>3, <2>4 DEF OnFile
  <2>5. CASE h # m
    <3>1. repliedAt'[h] = repliedAt[h]
      BY <2>1, <2>5 DEF Shape, TypeOK
    <3>2. CASE KeyOf[h] = k
      BY <2>3, <3>1, <3>2 DEF OnFile
    <3>3. CASE KeyOf[h] # k
      BY <2>1, <3>1, <3>3, RelayAssumption DEF OnFile, Shape, TypeOK
    <3> QED BY <3>2, <3>3
  <2> QED BY <2>4, <2>5
<1>2. CASE ~\E k \in Keys : Reply(k)
  <2>1. ASSUME NEW k \in Keys PROVE ~Compact(k)
    BY DEF Compact, Disturb
  <2>2. UNCHANGED <<transcript, repliedAt>>
    BY <1>2, <2>1 DEF Next, vars, Relaying, Tick, Shutdown, Send, Ack, SendFails, Look, LookFails,
                      Claim, Taken, GiveUp, agentVars, ctxVars
  <2> QED BY <2>2 DEF OnFile
<1> QED BY <1>1, <1>2

(* A handler left alone while others step: its answer may come meanwhile.  *)
LEMMA SightedKept ==
    ASSUME Shape, RelayInv, [Next]_vars, NEW h \in Handlers, Sighted(h),
           clock' = clock, pc'[h] = pc[h], since'[h] = since[h],
           snapshot'[h] = snapshot[h], h \in polled' <=> h \in polled,
           repliedAt'[h] \in {repliedAt[h], clock}
    PROVE  Sighted(h)'
<1>1. clock \in Nat /\ repliedAt[h] \in Nat
  BY DEF Shape, TypeOK
<1>2. InTime(h)' => InTime(h) /\ repliedAt'[h] = repliedAt[h]
  BY <1>1 DEF InTime
<1>3. LookedFor(h)' => LookedFor(h)
  BY <1>2 DEF LookedFor
<1>4. Delivered(h) => Delivered(h)'
  BY DeliveredStays
<1> QED BY <1>2, <1>3, <1>4 DEF Sighted

(* At a tick every waiting handler has had its look.                       *)
LEMMA SightedTick ==
    ASSUME Shape, RelayInv, Tick, NEW h \in Handlers, Sighted(h)
    PROVE  Sighted(h)'
<1>1. /\ clock \in Nat /\ repliedAt[h] \in Nat /\ clock' = clock + 1
      /\ polled' = {} /\ UNCHANGED <<repliedAt, since, pc, got>>
      /\ pc[h] # "claim" /\ (pc[h] = "poll" => h \in polled)
  BY DEF Tick, agentVars, ctxVars, Shape, TypeOK
<1>2. pc[h] = "poll" /\ LookedFor(h)' => LookedFor(h)
  BY <1>1 DEF LookedFor, InTime
<1> QED BY <1>1, <1>2 DEF Sighted, Delivered

(* A look that finds nothing new shows that the answer is still to come.   *)
LEMMA SightedLook ==
    ASSUME Shape, RelayInv, NEW h \in Handlers, Look(h),
           repliedAt[h] # Never => OnFile(h)
    PROVE  Sighted(h)'
<1> DEFINE found == Recorded(KeyOf[h], since[h])
<1>1. /\ KeyOf[h] \in Keys /\ since[h] \in Nat
      /\ snapshot' = [snapshot EXCEPT ![h] = found]
      /\ pc' = [pc EXCEPT ![h] = IF found = {} THEN "poll" ELSE "claim"]
      /\ UNCHANGED <<clock, repliedAt, since>>
  BY LookFacts DEF Look, agentVars, ctxVars
<1>2. InTime(h) => \E r \in found : r.text = h
  <2> SUFFICES ASSUME InTime(h)
               PROVE  \E r \in found : r.text = h
    OBVIOUS
  <2>1. PICK i \in 1 .. Len(transcript[KeyOf[h]]) : transcript[KeyOf[h]][i] = h
    BY DEF InTime, OnFile
  <2>2. repliedAt[h] >= since[h]
    BY <1>1 DEF InTime, Shape, TypeOK
  <2>3. \A j \in 1 .. Len(transcript[KeyOf[h]]) :
           repliedAt[transcript[KeyOf[h]][j]] >= since[h] =>
              \E r \in found : r.text = transcript[KeyOf[h]][j]
    BY <1>1, RecordedFacts
  <2> QED BY <2>1, <2>2, <2>3
<1> HIDE DEF found
<1>3. /\ snapshot'[h] = found /\ pc'[h] = IF found = {} THEN "poll" ELSE "claim"
  BY <1>1 DEF Shape, TypeOK
<1>4. InTime(h)' => InTime(h)
  BY <1>1 DEF InTime
<1> QED BY <1>2, <1>3, <1>4 DEF Sighted, LookedFor

(* A reply that was taken before its own handler came to it is with        *)
(* another handler.                                                        *)
LEMMA SightedTaken ==
    ASSUME Shape, RelayInv, PollInv, [Next]_vars, NEW h \in Handlers, Taken(h), Sighted(h)
    PROVE  Sighted(h)'
<1>1. PICK r \in snapshot[h] :
         /\ r.key \in claimed
         /\ snapshot' = [snapshot EXCEPT ![h] = snapshot[h] \ {r}]
         /\ pc' = [pc EXCEPT ![h] = IF snapshot[h] \ {r} = {} THEN "poll" ELSE "claim"]
  BY TakenFacts
<1>2. UNCHANGED <<clock, repliedAt, since, got>> /\ pc[h] = "claim"
  BY DEF Taken, agentVars, ctxVars
<1>3. /\ snapshot'[h] = snapshot[h] \ {r}
      /\ pc'[h] = IF snapshot[h] \ {r} = {} THEN "poll" ELSE "claim"
  BY <1>1 DEF Shape, TypeOK
<1>4. r.text = h => Delivered(h)
  <2>1. r.key[2] = r.text
    BY DEF RelayInv, SnapInv
  <2> QED BY <1>1, <2>1 DEF PollInv, ClaimedInv
<1>5. InTime(h)' => InTime(h)
  BY <1>2 DEF InTime
<1>6. InTime(h)' => Delivered(h) \/ \E q \in snapshot'[h] : q.text = h
  BY <1>2, <1>3, <1>4, <1>5 DEF Sighted
<1> QED BY <1>2, <1>3, <1>6 DEF Sighted, LookedFor, Delivered

LEMMA SightedStep ==
    ASSUME Shape, RelayInv, PollInv, [Next]_vars, disturbed = 0, disturbed' = 0,
           NEW h \in Handlers
    PROVE  Sighted(h)'
<1>1. Sighted(h) /\ (repliedAt[h] # Never => OnFile(h))
  BY DEF PollInv, SeenInv
<1>2. ASSUME NEW k \in Keys, Reply(k)
      PROVE  Sighted(h)'
  <2>1. PICK m \in Handlers : repliedAt' = [repliedAt EXCEPT ![m] = clock]
    BY <1>2, ReplyFacts
  <2>2. repliedAt'[h] \in {repliedAt[h], clock}
    BY <2>1 DEF Shape, TypeOK
  <2>3. UNCHANGED <<clock, pc, since, polled, snapshot>>
    BY <1>2 DEF Reply
  <2> QED BY <1>1, <2>2, <2>3, SightedKept
<1>3. ASSUME NEW g \in Handlers, Relaying(g), g # h
      PROVE  Sighted(h)'
  BY <1>1, <1>3, OthersKept, SightedKept
<1>4. CASE Relaying(h)
  <2>1. CASE Send(h) \/ SendFails(h) \/ GiveUp(h) \/ Claim(h)
    <3>1. pc'[h] \in {"sent", "failed", "done"}
      BY <2>1 DEF Send, SendFails, GiveUp, Claim, Goto, Shape, TypeOK
    <3> QED BY <3>1 DEF Sighted
  <2>2. CASE Ack(h)
    <3>1. /\ since'[h] = clock /\ clock' = clock /\ repliedAt' = repliedAt
          /\ clock \in Nat /\ repliedAt[h] \in Nat
      BY <2>2 DEF Ack, agentVars, ctxVars, Shape, TypeOK
    <3>2. ~InTime(h)'
      BY <3>1 DEF InTime
    <3> QED BY <3>2 DEF Sighted, LookedFor
  <2>3. CASE Look(h)
    BY <1>1, <2>3, SightedLook
  <2>4. CASE Taken(h)
    BY <1>1, <2>4, SightedTaken
  <2>5. ~LookFails(h)
    BY DEF LookFails, Disturb
  <2> QED BY <1>4, <2>1, <2>2, <2>3, <2>4, <2>5 DEF Relaying
<1>5. CASE Tick
  BY <1>1, <1>5, SightedTick
<1>6. ASSUME NEW k \in Keys
      PROVE  ~Compact(k)
  BY DEF Compact, Disturb
<1>7. CASE UNCHANGED vars
  BY <1>1, <1>7, SightedKept DEF vars
<1>8. ~Shutdown
  BY DEF Shutdown, Disturb
<1> QED BY <1>2, <1>3, <1>4, <1>5, <1>6, <1>7, <1>8 DEF Next

LEMMA PollInvInit == Init => PollInv
  BY DEF Init, PollInv, ClaimedInv, SeenInv, Sighted

LEMMA PollInvStep ==
    ASSUME Shape, RelayInv, PollInv, [Next]_vars
    PROVE  PollInv'
<1>1. ClaimedInv'
  BY ClaimedStep DEF PollInv
<1>2. ASSUME disturbed' = 0
      PROVE  disturbed = 0
  <2>1. disturbed \in Nat /\ disturbed' \in {disturbed, disturbed + 1}
    BY RelayAssumption
       DEF Shape, TypeOK, Next, vars, Relaying, Disturb, Tick, Shutdown, Reply, Compact, Send, Ack,
           SendFails, Look, LookFails, Claim, Taken, GiveUp
  <2> QED BY <1>2, <2>1
<1>3. ASSUME disturbed' = 0, NEW h \in Handlers
      PROVE  (repliedAt'[h] # Never => OnFile(h)') /\ Sighted(h)'
  BY <1>2, <1>3, OnFileStep, SightedStep DEF PollInv, SeenInv
<1>4. SeenInv'
  BY <1>3 DEF SeenInv, OnFile
<1> QED BY <1>1, <1>4 DEF PollInv

(* A handler gives up after its window has closed or its context is over:  *)
(* an answer that came in good time has been looked for since.             *)
LEMMA GivesUpLate ==
    ASSUME Shape, RelayInv, PollInv, [Next]_vars, disturbed = 0, ~cancelled,
           NEW h \in Handlers, GivesUp(h), InGoodTime(h)
    PROVE  Delivered(h) \/ repliedAt[h] < since[h]
<1>1. Expired(h) \/ CtxOver(h)
  <2>1. ASSUME NEW g \in Handlers, Relaying(g), g # h
        PROVE  pc'[h] = pc[h]
    BY <2>1, OthersKept
  <2>2. CASE Relaying(h)
    <3>1. CASE GiveUp(h)
      BY <3>1 DEF GiveUp
    <3>2. CASE Send(h) \/ Ack(h) \/ SendFails(h) \/ Claim(h) \/ Taken(h)
      BY <3>2 DEF GivesUp, Send, Ack, SendFails, Claim, Taken
    <3>3. CASE Look(h)
      BY <3>3, LookFacts DEF GivesUp, Shape, TypeOK
    <3>4. CASE LookFails(h)
      BY <3>4 DEF GivesUp, LookFails
    <3> QED BY <2>2, <3>1, <3>2, <3>3, <3>4 DEF Relaying
  <2>3. CASE Tick \/ Shutdown \/ (\E k \in Keys : Reply(k) \/ Compact(k)) \/ UNCHANGED vars
    BY <2>3 DEF GivesUp, Tick, Shutdown, Reply, Compact, vars
  <2> QED BY <2>1, <2>2, <2>3 DEF Next, GivesUp
<1>2. /\ clock \in Nat /\ repliedAt[h] \in Nat /\ since[h] \in Nat /\ Window \in Nat
      /\ ends[h] \in Nat
  BY RelayAssumption DEF Shape, TypeOK
<1>3. repliedAt[h] + 1 < clock
  BY <1>1, <1>2 DEF Expired, CtxOver, InGoodTime
<1>4. since[h] <= repliedAt[h] => LookedFor(h)
  BY <1>2, <1>3 DEF LookedFor, InTime, InGoodTime
<1>5. pc[h] = "poll" /\ Sighted(h)
  BY DEF GivesUp, PollInv, SeenInv
<1> QED BY <1>2, <1>4, <1>5 DEF Sighted

(* With no shutdown and nothing that disturbs the looks, the only answers  *)
(* given in good time that a handler gives up on are those that some       *)
(* handler of its session has returned and those recorded before its       *)
(* request's acknowledgement was processed.                                *)
THEOREM OnlyEarlyMissed == Spec => MissedOnlyWhenEarly
<1>1. Shape /\ RelayInv /\ PollInv /\ [Next]_vars => PollInv'
  BY PollInvStep
<1>2. Shape /\ RelayInv /\ PollInv /\ [Next]_vars =>
         [disturbed = 0 /\ ~cancelled => \A h \in Handlers :
            GivesUp(h) /\ InGoodTime(h) => Delivered(h) \/ repliedAt[h] < since[h]]_vars
  BY GivesUpLate
<1> QED
  BY <1>1, <1>2, PollInvInit, ShapeAlways, RelayInvAlways, PTL DEF Spec, MissedOnlyWhenEarly
=============================================================================
