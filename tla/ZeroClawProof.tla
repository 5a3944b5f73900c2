--------------------------- MODULE ZeroClawProof ---------------------------
(***************************************************************************)
(* Proofs about the ZeroClaw gateway.                                      *)
(*                                                                         *)
(* The inductive invariant BaseInv is built in layers.  Shape gives the    *)
(* types and that what is used has been dialed.  MutexInv says who holds a *)
(* connection, OwnInv that a request works with its sender's connection or *)
(* with a doomed one, SenderInv that a connection serves one sender.  The  *)
(* last three follow the answers: OwedInv ties what a connection owes to   *)
(* the requests that wrote on it, OrderInv makes an answer the last frame  *)
(* of its request, and LeftInv charges what an open connection owes ended  *)
(* requests to the one that gave up before its answer came.                *)
(***************************************************************************)
EXTENDS ZeroClaw, TLAPS

(* What is in use has been dialed.                                         *)
Using == {"store", "lock", "write", "check", "read"}

DialInv ==
    /\ \A s \in Senders : conns[s] <= dialed
    /\ \A c \in Callers : sc[c] <= dialed
    /\ \A c \in Callers : pc[c] \in Using => sc[c] # None
    /\ \A c \in Callers : pc[c] \in {"start", "dial"} => sc[c] = None

Shape == TypeOK /\ DialInv
-----------------------------------------------------------------------------
LEMMA Constants ==
    /\ MaxConns \in Nat /\ 1 \in Connections /\ Connections \subseteq Nat
    /\ MaxTime \in Nat /\ SenderOf \in [Callers -> Senders] /\ Probe \in Senders
    /\ None \notin Connections /\ None \in Nat /\ \A k \in Connections : k # None /\ k >= 1
  BY ZeroClawAssumption DEF Connections, None

LEMMA ShapeInit == Init => Shape
<1> SUFFICES ASSUME Init
             PROVE  Shape
  OBVIOUS
<1>1. conns \in [Senders -> Connections \cup {None}] /\ \A s \in Senders : conns[s] <= dialed
  BY Constants DEF Init, None
<1>2. link \in [Connections -> {"none", "up", "lost", "closed"}]
  BY DEF Init
<1>3. /\ dialed \in Connections /\ clock \in 0 .. MaxTime
      /\ lastUsed \in [Connections -> 0 .. clock]
  BY Constants DEF Init
<1>4. /\ sc \in [Callers -> Connections \cup {None}]
      /\ \A c \in Callers : sc[c] <= dialed /\ sc[c] = None /\ pc[c] = "start"
  BY Constants DEF Init, None
<1>5. DialInv
  BY <1>1, <1>4 DEF DialInv, Using
<1>6. /\ ioMu \in [Connections -> {"free", "reaper"} \cup Callers]
      /\ pc \in [Callers -> {"start", "dial", "store", "lock", "write", "check", "read",
                             "answered", "failed"}]
      /\ got \in [Callers -> SUBSET Callers]
      /\ late \subseteq Callers /\ reaping \subseteq Connections /\ closed \in BOOLEAN
  BY DEF Init
<1>7. asked \in [Connections -> Seq(Callers)]
  <2>1. <<>> \in Seq(Callers)
    OBVIOUS
  <2> QED BY <2>1 DEF Init
<1>8. inbox \in [Connections -> Seq(Frames)]
  <2>1. <<>> \in Seq(Frames)
    OBVIOUS
  <2> QED BY <2>1 DEF Init
<1> QED BY <1>1, <1>2, <1>3, <1>4, <1>5, <1>6, <1>7, <1>8 DEF Shape, TypeOK

(* Dropping cache entries keeps the cached connections among the dialed.   *)
LEMMA StillDialed ==
    ASSUME \A s \in Senders : conns[s] <= dialed, UNCHANGED dialed, dialed \in Connections,
           \A s \in Senders : conns'[s] \in {None, conns[s]}
    PROVE  \A s \in Senders : conns'[s] <= dialed'
<1>1. dialed \in Nat /\ None <= dialed
  BY Constants DEF None
<1> TAKE s \in Senders
<1>2. conns'[s] = None \/ conns'[s] = conns[s]
  OBVIOUS
<1>3. CASE conns'[s] = None
  BY <1>1, <1>3
<1>4. CASE conns'[s] = conns[s]
  BY <1>4
<1> QED BY <1>2, <1>3, <1>4

LEMMA ShapeTime ==
    ASSUME Shape, Tick \/ \E c \in Callers : Deadline(c)
    PROVE  Shape'
<1>1. CASE Tick
  <2>1. clock \in Nat /\ clock' = clock + 1 /\ clock' \in 0 .. MaxTime
    BY <1>1, Constants DEF Tick, Shape, TypeOK
  <2>2. lastUsed' \in [Connections -> 0 .. clock']
    BY <1>1, <2>1 DEF Tick, Shape, TypeOK
  <2> QED BY <1>1, <2>1, <2>2 DEF Tick, Shape, TypeOK, DialInv, netVars
<1>2. ASSUME NEW c \in Callers, Deadline(c)
      PROVE  Shape'
  BY <1>2 DEF Deadline, Shape, TypeOK, DialInv, netVars
<1> QED BY <1>1, <1>2

LEMMA TouchType ==
    ASSUME Shape, NEW k \in Connections, Touch(k), UNCHANGED clock
    PROVE  lastUsed' \in [Connections -> 0 .. clock']
  BY Constants DEF Shape, TypeOK, Touch

LEMMA ShapeConn ==
    ASSUME Shape, NEW c \in Callers, Lookup(c) \/ Dial(c) \/ DialFails(c) \/ Store(c)
    PROVE  Shape'
<1>1. /\ sc \in [Callers -> Connections \cup {None}] /\ dialed \in Connections
      /\ conns \in [Senders -> Connections \cup {None}] /\ SenderOf[c] \in Senders
      /\ link \in [Connections -> {"none", "up", "lost", "closed"}]
      /\ lastUsed \in [Connections -> 0 .. clock]
      /\ pc \in [Callers -> {"start", "dial", "store", "lock", "write", "check", "read",
                             "answered", "failed"}]
      /\ DialInv
  BY Constants DEF Shape, TypeOK
<1>2. CASE Lookup(c)
  <2>1. /\ pc[c] = "start" /\ UNCHANGED <<clock, conns, netVars, ioMu, late, got, reaping, closed>>
        /\ \/ /\ pc' = [pc EXCEPT ![c] = "dial"]
              /\ UNCHANGED <<sc, lastUsed>>
           \/ /\ conns[SenderOf[c]] # None /\ Touch(conns[SenderOf[c]])
              /\ pc' = [pc EXCEPT ![c] = "lock"]
              /\ sc' = [sc EXCEPT ![c] = conns[SenderOf[c]]]
    BY <1>2 DEF Lookup, Cached, Goto
  <2>2. /\ sc' \in [Callers -> Connections \cup {None}]
        /\ pc' \in [Callers -> {"start", "dial", "store", "lock", "write", "check", "read",
                                "answered", "failed"}]
    BY <1>1, <2>1
  <2>3. lastUsed' \in [Connections -> 0 .. clock']
    BY <1>1, <2>1, TouchType
  <2>4. DialInv'
    BY <1>1, <2>1 DEF DialInv, Using, netVars
  <2> QED BY <2>1, <2>2, <2>3, <2>4 DEF Shape, TypeOK, netVars
<1>3. CASE Dial(c)
  <2>1. /\ pc[c] = "dial" /\ dialed' = dialed + 1 /\ dialed' \in Connections /\ dialed < dialed'
        /\ link' = [link EXCEPT ![dialed'] = "up"]
        /\ sc' = [sc EXCEPT ![c] = dialed'] /\ pc' = [pc EXCEPT ![c] = "store"]
        /\ UNCHANGED <<clock, conns, ioMu, lastUsed, asked, inbox, late, got, reaping, closed>>
    BY <1>1, <1>3, Constants DEF Dial, Goto, Connections
  <2>2. /\ sc' \in [Callers -> Connections \cup {None}]
        /\ link' \in [Connections -> {"none", "up", "lost", "closed"}]
        /\ pc' \in [Callers -> {"start", "dial", "store", "lock", "write", "check", "read",
                                "answered", "failed"}]
    BY <1>1, <2>1
  <2>3. \A x \in Connections \cup {None} : x <= dialed => x <= dialed'
    BY <1>1, <2>1, Constants
  <2>4. dialed' # None /\ dialed' <= dialed'
    BY <2>1, Constants
  <2>5. \A d \in Callers : sc'[d] <= dialed'
    BY <1>1, <2>1, <2>3, <2>4 DEF DialInv
  <2>6. \A s \in Senders : conns'[s] <= dialed'
    BY <1>1, <2>1, <2>3 DEF DialInv
  <2>7. /\ \A d \in Callers : pc'[d] \in Using => sc'[d] # None
        /\ \A d \in Callers : pc'[d] \in {"start", "dial"} => sc'[d] = None
    BY <1>1, <2>1, <2>4 DEF DialInv, Using
  <2> QED BY <2>1, <2>2, <2>5, <2>6, <2>7 DEF Shape, TypeOK, DialInv
<1>4. CASE DialFails(c)
  BY <1>4 DEF DialFails, Goto, Shape, TypeOK, DialInv, Using, netVars
<1>5. CASE Store(c)
  <2>1. /\ pc[c] = "store" /\ sc[c] \in Connections /\ sc[c] <= dialed
        /\ UNCHANGED <<clock, dialed, asked, inbox, ioMu, late, got, reaping, closed>>
        /\ pc' = [pc EXCEPT ![c] = "lock"]
    BY <1>1, <1>5 DEF Store, DialInv, Using, Goto
  <2>2. \/ /\ conns[SenderOf[c]] # None /\ Touch(conns[SenderOf[c]]) /\ UNCHANGED conns
           /\ link' = [link EXCEPT ![sc[c]] = "closed"]
           /\ sc' = [sc EXCEPT ![c] = conns[SenderOf[c]]]
        \/ /\ conns' = [conns EXCEPT ![SenderOf[c]] = sc[c]]
           /\ Touch(sc[c]) /\ UNCHANGED <<link, sc>>
    BY <1>5 DEF Store
  <2>3. lastUsed' \in [Connections -> 0 .. clock']
    BY <1>1, <2>1, <2>2, TouchType
  <2>4. /\ sc' \in [Callers -> Connections \cup {None}]
        /\ conns' \in [Senders -> Connections \cup {None}]
        /\ link' \in [Connections -> {"none", "up", "lost", "closed"}]
        /\ pc' \in [Callers -> {"start", "dial", "store", "lock", "write", "check", "read",
                                "answered", "failed"}]
    BY <1>1, <2>1, <2>2
  <2>5. DialInv'
    BY <1>1, <2>1, <2>2 DEF DialInv, Using
  <2> QED BY <2>1, <2>3, <2>4, <2>5 DEF Shape, TypeOK
<1> QED BY <1>2, <1>3, <1>4, <1>5

(* What a request does while it holds its connection's mutex.              *)
LEMMA RemoveFacts ==
    ASSUME Shape, NEW c \in Callers, RemoveSender(c)
    PROVE  /\ conns' = [conns EXCEPT ![SenderOf[c]] = None]
           /\ conns' \in [Senders -> Connections \cup {None}]
           /\ link' \in [Connections -> {"none", "up", "lost", "closed"}]
           /\ \A s \in Senders : conns'[s] \in {None, conns[s]}
           /\ \A k \in Connections :
                 link'[k] = IF k = conns[SenderOf[c]] THEN "closed" ELSE link[k]
<1>1. /\ SenderOf[c] \in Senders /\ conns \in [Senders -> Connections \cup {None}]
      /\ link \in [Connections -> {"none", "up", "lost", "closed"}]
  BY Constants DEF Shape, TypeOK
<1>2. conns[SenderOf[c]] = None => \A k \in Connections : k # conns[SenderOf[c]]
  BY Constants
<1> QED BY <1>1, <1>2 DEF RemoveSender

LEMMA ShapeRequest ==
    ASSUME Shape, NEW c \in Callers,
           Lock(c) \/ Write(c) \/ WriteFails(c) \/ Check(c) \/ Read(c) \/ ReadFails(c)
    PROVE  Shape'
<1>1. /\ sc \in [Callers -> Connections \cup {None}] /\ dialed \in Connections
      /\ ioMu \in [Connections -> {"free", "reaper"} \cup Callers]
      /\ pc \in [Callers -> {"start", "dial", "store", "lock", "write", "check", "read",
                             "answered", "failed"}]
      /\ DialInv
  BY Constants DEF Shape, TypeOK
<1>2. /\ pc[c] \in {"lock", "write", "check", "read"} /\ sc' = sc
      /\ UNCHANGED <<clock, dialed, lastUsed, late, reaping, closed>>
      /\ \E place \in {"write", "check", "read", "answered", "failed"} :
            pc' = [pc EXCEPT ![c] = place]
      /\ \/ UNCHANGED ioMu
         \/ \E holder \in {"free", c} : ioMu' = [ioMu EXCEPT ![sc[c]] = holder]
  BY DEF Lock, Write, WriteFails, Check, Read, ReadFails, Goto, Leave, netVars
<1>3. /\ pc' \in [Callers -> {"start", "dial", "store", "lock", "write", "check", "read",
                              "answered", "failed"}]
      /\ ioMu' \in [Connections -> {"free", "reaper"} \cup Callers]
  BY <1>1, <1>2
<1>4. /\ \A d \in Callers : pc'[d] \in Using => pc[d] \in Using
      /\ \A d \in Callers : pc'[d] \in {"start", "dial"} => pc[d] \in {"start", "dial"}
  BY <1>1, <1>2 DEF Using
<1>5. /\ conns' \in [Senders -> Connections \cup {None}]
      /\ \A s \in Senders : conns'[s] \in {None, conns[s]}
      /\ link' \in [Connections -> {"none", "up", "lost", "closed"}]
  <2>1. CASE UNCHANGED <<conns, link>>
    BY <2>1 DEF Shape, TypeOK
  <2>2. CASE RemoveSender(c)
    BY <2>2, RemoveFacts
  <2> QED BY <2>1, <2>2 DEF Lock, Write, WriteFails, Check, Read, ReadFails, netVars
<1>6. DialInv'
  <2>1. \A s \in Senders : conns'[s] <= dialed'
    BY <1>1, <1>2, <1>5, StillDialed DEF DialInv
  <2> QED BY <2>1, <1>1, <1>2, <1>4 DEF DialInv
<1>7. asked' \in [Connections -> Seq(Callers)]
  <2>1. CASE UNCHANGED asked
    BY <2>1 DEF Shape, TypeOK
  <2>2. ASSUME Write(c), ~UNCHANGED asked
        PROVE  asked' \in [Connections -> Seq(Callers)]
    <3>1. asked' = [asked EXCEPT ![sc[c]] = Append(asked[sc[c]], c)]
      BY <2>2 DEF Write
    <3>2. sc[c] \in Connections /\ asked \in [Connections -> Seq(Callers)]
      BY <1>1, <2>2 DEF Write, Shape, TypeOK, DialInv, Using
    <3>3. Append(asked[sc[c]], c) \in Seq(Callers)
      BY <3>2
    <3> QED BY <3>1, <3>2, <3>3
  <2> QED BY <2>1, <2>2 DEF Lock, WriteFails, Check, Read, ReadFails, netVars
<1>8. /\ inbox' \in [Connections -> Seq(Frames)] /\ got' \in [Callers -> SUBSET Callers]
  <2>1. CASE UNCHANGED <<inbox, got>>
    BY <2>1 DEF Shape, TypeOK
  <2>2. CASE Read(c)
    <3>1. sc[c] \in Connections /\ inbox[sc[c]] \in Seq(Frames) /\ inbox[sc[c]] # <<>>
      BY <1>1, <2>2 DEF Read, Shape, TypeOK, DialInv, Using
    <3>2. Head(inbox[sc[c]]) \in Frames /\ Tail(inbox[sc[c]]) \in Seq(Frames)
      BY <3>1
    <3>3. inbox' \in [Connections -> Seq(Frames)]
      BY <2>2, <3>2 DEF Read, Shape, TypeOK
    <3>4. got' = got \/ got' = [got EXCEPT ![c] = {Head(inbox[sc[c]]).of}]
      BY <2>2 DEF Read
    <3>5. {Head(inbox[sc[c]]).of} \in SUBSET Callers /\ got \in [Callers -> SUBSET Callers]
      BY <3>2 DEF Frames, Shape, TypeOK
    <3>6. got' \in [Callers -> SUBSET Callers]
      BY <3>4, <3>5
    <3> QED BY <3>3, <3>6
  <2> QED BY <2>1, <2>2 DEF Lock, Write, WriteFails, Check, ReadFails, netVars
<1> QED BY <1>1, <1>2, <1>3, <1>5, <1>6, <1>7, <1>8 DEF Shape, TypeOK

LEMMA ShapeReaper ==
    ASSUME Shape, Reap \/ Close \/ \E k \in Connections : ReapClose(k)
    PROVE  Shape'
<1>1. /\ dialed \in Connections /\ conns \in [Senders -> Connections \cup {None}]
      /\ link \in [Connections -> {"none", "up", "lost", "closed"}] /\ DialInv
      /\ ioMu \in [Connections -> {"free", "reaper"} \cup Callers]
  BY DEF Shape, TypeOK
<1>2. /\ conns' \in [Senders -> Connections \cup {None}]
      /\ \A s \in Senders : conns'[s] \in {None, conns[s]}
  BY <1>1 DEF Reap, Close, ReapClose
<1>3. reaping' \in SUBSET Connections
  <2>1. CASE Reap
    <3>1. reaping' = {conns[s] : s \in {r \in Senders : Idle(r)}}
      BY <2>1 DEF Reap
    <3> QED BY <1>1, <3>1 DEF Idle
  <2>2. CASE Close \/ \E k \in Connections : ReapClose(k)
    BY <2>2 DEF Close, ReapClose, Shape, TypeOK
  <2> QED BY <2>1, <2>2
<1>4. /\ link' \in [Connections -> {"none", "up", "lost", "closed"}]
  BY <1>1 DEF Reap, Close, ReapClose, netVars
<1>5. ioMu' \in [Connections -> {"free", "reaper"} \cup Callers]
  BY <1>1 DEF Reap, Close, ReapClose
<1>6. UNCHANGED <<clock, dialed, asked, inbox, lastUsed, pc, sc, late, got>> /\ closed' \in BOOLEAN
  BY DEF Reap, Close, ReapClose, Shape, TypeOK, netVars
<1>7. DialInv'
  <2>1. \A s \in Senders : conns'[s] <= dialed'
    BY <1>1, <1>2, <1>6, StillDialed DEF DialInv
  <2> QED BY <2>1, <1>1, <1>6 DEF DialInv
<1> QED BY <1>2, <1>3, <1>4, <1>5, <1>6, <1>7 DEF Shape, TypeOK

LEMMA ShapeAgent ==
    ASSUME Shape, NEW k \in Connections, Progress(k) \/ Answer(k) \/ Lose(k)
    PROVE  Shape'
<1>1. /\ asked \in [Connections -> Seq(Callers)] /\ inbox \in [Connections -> Seq(Frames)]
      /\ link \in [Connections -> {"none", "up", "lost", "closed"}]
  BY DEF Shape, TypeOK
<1>2. asked[k] # <<>> => \A type \in {"chunk", "done", "error"} :
         [type |-> type, of |-> Head(asked[k])] \in Frames
  BY <1>1 DEF Frames
<1>3. inbox' \in [Connections -> Seq(Frames)]
  <2>1. CASE Progress(k)
    BY <1>1, <1>2, <2>1 DEF Progress
  <2>2. CASE Answer(k)
    BY <1>1, <1>2, <2>2 DEF Answer
  <2>3. CASE Lose(k)
    BY <1>1, <2>3 DEF Lose
  <2> QED BY <2>1, <2>2, <2>3
<1>4. asked' \in [Connections -> Seq(Callers)]
  <2>1. CASE UNCHANGED asked
    BY <1>1, <2>1
  <2>2. CASE Answer(k)
    <3>1. asked[k] \in Seq(Callers) /\ asked[k] # <<>> /\ asked' = [asked EXCEPT ![k] = Tail(asked[k])]
      BY <1>1, <2>2 DEF Answer
    <3>2. Tail(asked[k]) \in Seq(Callers)
      BY <3>1
    <3> QED BY <1>1, <3>1, <3>2
  <2> QED BY <2>1, <2>2 DEF Progress, Lose
<1>5. link' \in [Connections -> {"none", "up", "lost", "closed"}]
  BY <1>1 DEF Progress, Answer, Lose
<1>6. UNCHANGED <<clock, conns, dialed, ioMu, lastUsed, pc, sc, late, got, reaping, closed>>
  BY DEF Progress, Answer, Lose
<1> QED BY <1>3, <1>4, <1>5, <1>6 DEF Shape, TypeOK, DialInv

LEMMA ShapeStep == Shape /\ [Next]_vars => Shape'
<1>1. Shape /\ UNCHANGED vars => Shape'
  BY DEF Shape, TypeOK, DialInv, vars, netVars
<1> QED BY <1>1, ShapeTime, ShapeConn, ShapeRequest, ShapeReaper, ShapeAgent DEF Next, Request
-----------------------------------------------------------------------------
(* One goroutine at a time on a connection: a request on it holds its      *)
(* mutex, and so does the reaper until it has closed it.                   *)
Holding == {"write", "check", "read"}

MutexInv ==
    /\ \A c \in Callers : pc[c] \in Holding => ioMu[sc[c]] = c
    /\ \A k \in reaping : ioMu[k] = "reaper"

LEMMA MutexInit == Init => MutexInv
  BY DEF Init, MutexInv, Holding

LEMMA NotCallers == "free" \notin Callers /\ "reaper" \notin Callers
  BY ZeroClawAssumption

LEMMA MutexStep == Shape /\ MutexInv /\ [Next]_vars => MutexInv'
<1> SUFFICES ASSUME Shape, MutexInv, [Next]_vars
             PROVE  MutexInv'
  OBVIOUS
<1>1. /\ sc \in [Callers -> Connections \cup {None}]
      /\ ioMu \in [Connections -> {"free", "reaper"} \cup Callers]
      /\ pc \in [Callers -> {"start", "dial", "store", "lock", "write", "check", "read",
                             "answered", "failed"}]
      /\ reaping \subseteq Connections
      /\ \A c \in Callers : pc[c] \in Using => sc[c] \in Connections
  BY DEF Shape, TypeOK, DialInv
<1>2. CASE \/ Tick \/ Close \/ \E k \in Connections : Progress(k) \/ Answer(k) \/ Lose(k)
           \/ \E c \in Callers : Deadline(c)
           \/ UNCHANGED vars
  BY <1>2 DEF Tick, Close, Progress, Answer, Lose, Deadline, vars, netVars, MutexInv
<1>3. ASSUME NEW c \in Callers, Lookup(c) \/ Dial(c) \/ DialFails(c) \/ Store(c)
      PROVE  MutexInv'
  <2>1. /\ UNCHANGED <<ioMu, reaping>>
        /\ \A d \in Callers : pc'[d] \in Holding => pc[d] \in Holding /\ sc'[d] = sc[d]
    BY <1>1, <1>3 DEF Lookup, Cached, Dial, DialFails, Store, Goto, Holding, netVars
  <2> QED BY <2>1 DEF MutexInv
<1>4. ASSUME NEW c \in Callers, Lock(c)
      PROVE  MutexInv'
  <2>1. /\ sc[c] \in Connections /\ ioMu[sc[c]] = "free"
        /\ ioMu' = [ioMu EXCEPT ![sc[c]] = c]
        /\ pc' = [pc EXCEPT ![c] = "write"] /\ UNCHANGED <<sc, reaping>>
    BY <1>1, <1>4 DEF Lock, Goto, Using
  <2>2. ASSUME NEW d \in Callers, pc'[d] \in Holding
        PROVE  ioMu'[sc'[d]] = d
    <3>1. CASE d = c
      BY <1>1, <2>1, <3>1
    <3>2. CASE d # c
      <4>1. pc[d] \in Holding /\ ioMu[sc[d]] = d /\ sc[d] \in Connections
        BY <1>1, <2>1, <2>2, <3>2 DEF MutexInv, Holding, Using
      <4>2. sc[d] # sc[c]
        BY <2>1, <4>1, NotCallers
      <4> QED BY <1>1, <2>1, <4>1, <4>2
    <3> QED BY <3>1, <3>2
  <2>3. \A k \in reaping' : ioMu'[k] = "reaper"
    BY <1>1, <2>1 DEF MutexInv
  <2> QED BY <2>2, <2>3 DEF MutexInv
<1>5. ASSUME NEW c \in Callers, Write(c) \/ WriteFails(c) \/ Check(c) \/ Read(c) \/ ReadFails(c)
      PROVE  MutexInv'
  <2>1. /\ pc[c] \in Holding /\ sc[c] \in Connections /\ ioMu[sc[c]] = c
        /\ UNCHANGED <<sc, reaping>>
    BY <1>1, <1>5 DEF Write, WriteFails, Check, Read, ReadFails, Holding, Using, MutexInv, netVars
  <2>2. CASE UNCHANGED ioMu /\ \E place \in Holding : pc' = [pc EXCEPT ![c] = place]
    <3>1. \A d \in Callers : pc'[d] \in Holding => pc[d] \in Holding
      BY <1>1, <2>1, <2>2
    <3> QED BY <2>1, <2>2, <3>1 DEF MutexInv
  <2>3. CASE \E place \in {"answered", "failed"} : Leave(c, place)
    <3>1. /\ ioMu' = [ioMu EXCEPT ![sc[c]] = "free"]
          /\ \A d \in Callers : pc'[d] \in Holding => pc[d] \in Holding /\ d # c
      BY <1>1, <2>3 DEF Leave, Goto, Holding
    <3>2. ASSUME NEW d \in Callers, pc'[d] \in Holding
          PROVE  ioMu'[sc'[d]] = d
      <4>1. d # c /\ ioMu[sc[d]] = d /\ sc[d] \in Connections
        BY <1>1, <3>1, <3>2 DEF MutexInv, Holding, Using
      <4> QED BY <1>1, <2>1, <3>1, <4>1
    <3>3. \A k \in reaping' : ioMu'[k] = "reaper"
      BY <1>1, <2>1, <3>1, NotCallers DEF MutexInv
    <3> QED BY <3>2, <3>3 DEF MutexInv
  <2> QED BY <1>5, <2>2, <2>3
          DEF Write, WriteFails, Check, Read, ReadFails, Goto, Holding
<1>6. CASE Reap
  <2>1. /\ \A k \in Connections : ioMu'[k] = IF k \in reaping' THEN "reaper" ELSE ioMu[k]
        /\ UNCHANGED <<pc, sc>>
    BY <1>6 DEF Reap
  <2>2. \A k \in reaping' : k \in Connections /\ ioMu[k] = "free"
    <3>1. reaping' = {conns[s] : s \in {r \in Senders : Idle(r)}}
      BY <1>6 DEF Reap
    <3> QED BY <3>1 DEF Idle, Shape, TypeOK
  <2>3. ASSUME NEW d \in Callers, pc'[d] \in Holding
        PROVE  ioMu'[sc'[d]] = d
    <3>1. ioMu[sc[d]] = d /\ sc[d] \in Connections
      BY <1>1, <2>1, <2>3 DEF MutexInv, Holding, Using
    <3> QED BY <2>1, <2>2, <3>1, NotCallers
  <2> QED BY <2>1, <2>2, <2>3 DEF MutexInv
<1>7. ASSUME NEW k \in Connections, ReapClose(k)
      PROVE  MutexInv'
  <2>1. /\ ioMu[k] = "reaper" /\ ioMu' = [ioMu EXCEPT ![k] = "free"]
        /\ reaping' = reaping \ {k} /\ UNCHANGED <<pc, sc>>
    BY <1>7 DEF ReapClose, MutexInv
  <2>2. ASSUME NEW d \in Callers, pc'[d] \in Holding
        PROVE  ioMu'[sc'[d]] = d
    <3>1. ioMu[sc[d]] = d /\ sc[d] \in Connections
      BY <1>1, <2>1, <2>2 DEF MutexInv, Holding, Using
    <3> QED BY <1>1, <2>1, <3>1, NotCallers
  <2>3. \A j \in reaping' : ioMu'[j] = "reaper"
    BY <1>1, <2>1 DEF MutexInv
  <2> QED BY <2>2, <2>3 DEF MutexInv
<1> QED BY <1>2, <1>3, <1>4, <1>5, <1>6, <1>7 DEF Next, Request

LEMMA SparedBy == Shape /\ MutexInv => ReaperSparesRequests
  BY NotCallers DEF MutexInv, Holding, ReaperSparesRequests
-----------------------------------------------------------------------------
(* What the actions do to the sockets and to the cache, in one place: a    *)
(* closed socket stays closed, and a cache entry that changes was empty or *)
(* leaves a connection that is closed or in the reaper's hands.            *)
ClosedStays == \A k \in Connections : k <= dialed /\ link[k] = "closed" => link'[k] = "closed"

LetGo(k) == link'[k] = "closed" \/ k \in reaping'

EntryMoves(s) == \/ conns'[s] = conns[s]
                 \/ conns[s] = None
                 \/ conns[s] # None /\ LetGo(conns[s])

Moves == /\ ClosedStays
         /\ \A s \in Senders : EntryMoves(s)
         /\ \A k \in reaping : k \in reaping' \/ link'[k] = "closed"

LEMMA MovesStep == Shape /\ [Next]_vars => Moves
<1> SUFFICES ASSUME Shape, [Next]_vars
             PROVE  Moves
  OBVIOUS
<1>1. /\ sc \in [Callers -> Connections \cup {None}] /\ dialed \in Connections
      /\ conns \in [Senders -> Connections \cup {None}]
      /\ link \in [Connections -> {"none", "up", "lost", "closed"}]
      /\ reaping \subseteq Connections
      /\ \A c \in Callers : pc[c] \in Using => sc[c] \in Connections
  BY DEF Shape, TypeOK, DialInv
<1>2. ASSUME UNCHANGED <<link, conns, reaping>>
      PROVE  Moves
  BY <1>2 DEF Moves, ClosedStays, EntryMoves
<1>3. ASSUME NEW c \in Callers, Dial(c)
      PROVE  Moves
  <2>1. /\ link' = [link EXCEPT ![dialed + 1] = "up"] /\ UNCHANGED <<conns, reaping>>
    BY <1>3 DEF Dial
  <2>2. \A k \in Connections : k <= dialed => k # dialed + 1
    BY <1>1, Constants
  <2> QED BY <1>1, <2>1, <2>2 DEF Moves, ClosedStays, EntryMoves
<1>4. ASSUME NEW c \in Callers, Store(c)
      PROVE  Moves
  <2>1. \/ UNCHANGED conns /\ link' = [link EXCEPT ![sc[c]] = "closed"]
        \/ /\ conns[SenderOf[c]] = None /\ UNCHANGED link
           /\ conns' = [conns EXCEPT ![SenderOf[c]] = sc[c]]
    BY <1>4 DEF Store
  <2>2. reaping' = reaping
    BY <1>4 DEF Store
  <2> QED BY <1>1, <2>1, <2>2 DEF Moves, ClosedStays, EntryMoves
<1>5. ASSUME NEW c \in Callers, RemoveSender(c), UNCHANGED reaping
      PROVE  Moves
  <2>1. ClosedStays
    BY <1>5, RemoveFacts DEF ClosedStays
  <2>2. ASSUME NEW s \in Senders
        PROVE  EntryMoves(s)
    <3>1. CASE s = SenderOf[c] /\ conns[s] # None
      BY <1>1, <1>5, <3>1, RemoveFacts DEF EntryMoves, LetGo
    <3>2. CASE s # SenderOf[c]
      BY <1>1, <1>5, <3>2, RemoveFacts DEF EntryMoves
    <3> QED BY <3>1, <3>2 DEF EntryMoves
  <2> QED BY <1>5, <2>1, <2>2 DEF Moves
<1>6. ASSUME Reap
      PROVE  Moves
  <2>1. link' = link /\ reaping = {}
    BY <1>6 DEF Reap, netVars
  <2>2. ASSUME NEW s \in Senders
        PROVE  EntryMoves(s)
    <3>1. CASE Idle(s)
      <4>1. conns[s] \in reaping'
        BY <1>6, <3>1 DEF Reap
      <4> QED BY <4>1 DEF EntryMoves, LetGo
    <3>2. CASE ~Idle(s)
      BY <1>6, <3>2 DEF Reap, EntryMoves
    <3> QED BY <3>1, <3>2
  <2> QED BY <2>1, <2>2 DEF Moves, ClosedStays
<1>7. ASSUME NEW k \in Connections, ReapClose(k)
      PROVE  Moves
  BY <1>1, <1>7 DEF ReapClose, Moves, ClosedStays, EntryMoves
<1>8. ASSUME Close
      PROVE  Moves
  <2>1. reaping' = reaping
        /\ link' = [k \in Connections |-> IF k \in Range(conns) THEN "closed" ELSE link[k]]
    BY <1>8 DEF Close
  <2>2. \A s \in Senders : conns[s] # None => link'[conns[s]] = "closed"
    BY <1>1, <2>1 DEF Range
  <2> QED BY <1>1, <2>1, <2>2 DEF Moves, ClosedStays, EntryMoves, LetGo
<1>9. ASSUME NEW k \in Connections, Lose(k)
      PROVE  Moves
  BY <1>1, <1>9 DEF Lose, Moves, ClosedStays, EntryMoves
<1>10. \/ UNCHANGED <<link, conns, reaping>>
       \/ Reap \/ Close
       \/ \E c \in Callers : \/ Dial(c) \/ Store(c)
                             \/ RemoveSender(c) /\ UNCHANGED reaping
       \/ \E k \in Connections : ReapClose(k) \/ Lose(k)
  BY DEF Next, Request, Tick, Lookup, DialFails, Lock, Write, WriteFails, Check, Read,
         ReadFails, Deadline, Progress, Answer, vars, netVars
<1> QED BY <1>2, <1>3, <1>4, <1>5, <1>6, <1>7, <1>8, <1>9, <1>10

(* A request works with its sender's cached connection, or with one that   *)
(* is closed or about to be.                                               *)
Working == {"lock", "write", "check", "read"}

OwnInv == \A c \in Callers : pc[c] \in Working =>
              \/ conns[SenderOf[c]] = sc[c]
              \/ link[sc[c]] = "closed"
              \/ sc[c] \in reaping

LEMMA OwnInit == Init => OwnInv
  BY DEF Init, OwnInv, Working

LEMMA OwnStep == Shape /\ OwnInv /\ [Next]_vars => OwnInv'
<1> SUFFICES ASSUME Shape, OwnInv, [Next]_vars,
                    NEW c \in Callers, pc'[c] \in Working
             PROVE  \/ conns'[SenderOf[c]] = sc'[c]
                    \/ link'[sc'[c]] = "closed"
                    \/ sc'[c] \in reaping'
  BY DEF OwnInv
<1>1. /\ SenderOf[c] \in Senders
      /\ sc \in [Callers -> Connections \cup {None}] /\ conns \in [Senders -> Connections \cup {None}]
      /\ pc \in [Callers -> {"start", "dial", "store", "lock", "write", "check", "read",
                             "answered", "failed"}]
  BY Constants DEF Shape, TypeOK
<1>2. CASE pc[c] \in Working /\ sc'[c] = sc[c]
  <2>1. sc[c] \in Connections /\ sc[c] <= dialed /\ sc[c] # None
    BY <1>1, <1>2 DEF Shape, DialInv, Using, Working
  <2>2. \/ conns[SenderOf[c]] = sc[c]
        \/ link[sc[c]] = "closed"
        \/ sc[c] \in reaping
    BY <1>2 DEF OwnInv
  <2>3. ClosedStays /\ EntryMoves(SenderOf[c])
        /\ \A k \in reaping : k \in reaping' \/ link'[k] = "closed"
    BY <1>1, MovesStep DEF Moves
  <2>4. CASE conns[SenderOf[c]] = sc[c]
    BY <1>2, <2>1, <2>3, <2>4 DEF EntryMoves, LetGo
  <2>5. CASE link[sc[c]] = "closed"
    BY <1>2, <2>1, <2>3, <2>5 DEF ClosedStays
  <2>6. CASE sc[c] \in reaping
    BY <1>2, <2>3, <2>6
  <2> QED BY <2>2, <2>4, <2>5, <2>6
<1>3. ASSUME ~(pc[c] \in Working /\ sc'[c] = sc[c])
      PROVE  conns'[SenderOf[c]] = sc'[c]
  <2>1. ASSUME NEW d \in Callers, Request(d)
        PROVE  d = c /\ (Lookup(c) \/ Store(c))
    BY <1>1, <1>3, <2>1
       DEF Request, Lookup, Dial, DialFails, Store, Lock, Write, WriteFails, Check, Read,
           ReadFails, Goto, Leave, Working, netVars
  <2>2. CASE Lookup(c) \/ Store(c)
    BY <1>1, <2>2 DEF Lookup, Cached, Store, Goto, Working
  <2>3. ~UNCHANGED <<pc, sc>>
    BY <1>3
  <2> QED BY <2>1, <2>2, <2>3
          DEF Next, Tick, Reap, Close, Deadline, ReapClose, Progress, Answer, Lose, vars, netVars
<1> QED BY <1>2, <1>3

LEMMA DropsStep ==
    ASSUME Shape, MutexInv, OwnInv, [Next]_vars
    PROVE  [\A c \in Callers : pc[c] \in {"write", "read"} /\ pc'[c] = "failed" =>
              \A k \in Connections : link'[k] # link[k] =>
                  k = sc[c] \/ (link[sc[c]] = "closed" /\ k = conns[SenderOf[c]])]_vars
<1> SUFFICES ASSUME NEW c \in Callers, pc[c] \in {"write", "read"}, pc'[c] = "failed",
                    NEW k \in Connections, link'[k] # link[k], k # sc[c]
             PROVE  link[sc[c]] = "closed" /\ k = conns[SenderOf[c]]
  OBVIOUS
<1>1. pc \in [Callers -> {"start", "dial", "store", "lock", "write", "check", "read",
                          "answered", "failed"}]
  BY DEF Shape, TypeOK
<1>2. RemoveSender(c)
  <2>1. \A d \in Callers : Request(d) => d = c
    BY <1>1 DEF Request, Lookup, Dial, DialFails, Store, Lock, Write, WriteFails, Check, Read,
                ReadFails, Goto, Leave
  <2>2. Request(c)
    BY <1>1, <2>1 DEF Next, Tick, Reap, Close, Deadline, ReapClose, Progress, Answer, Lose, vars,
                      netVars
  <2> QED BY <1>1, <2>2 DEF Request, Lookup, Dial, DialFails, Store, Lock, Write, WriteFails,
                            Check, Read, ReadFails, Goto, Leave, netVars
<1>3. k = conns[SenderOf[c]]
  BY <1>2, RemoveFacts
<1>4. sc[c] \notin reaping
  BY SparedBy DEF ReaperSparesRequests
<1> QED BY <1>3, <1>4 DEF OwnInv, Working
-----------------------------------------------------------------------------
(* Every open socket is accounted for.                                     *)
Kept(k) == \/ k \in Range(conns)
           \/ k \in reaping
           \/ \E c \in Callers : pc[c] = "store" /\ sc[c] = k

LEMMA OrphanInit == Init => NoOrphan
<1> SUFFICES ASSUME Init, NEW k \in Connections, link[k] \in {"up", "lost"}
             PROVE  k \in Range(conns)
  BY DEF NoOrphan
<1>1. k = 1 /\ conns[Probe] = 1 /\ DOMAIN conns = Senders
  BY Constants DEF Init
<1> QED BY <1>1, Constants DEF Range

LEMMA OrphanStep == Shape /\ NoOrphan /\ [Next]_vars => NoOrphan'
<1> SUFFICES ASSUME Shape, NoOrphan, [Next]_vars,
                    NEW k \in Connections, link'[k] \in {"up", "lost"}
             PROVE  Kept(k)'
  BY DEF NoOrphan, Kept
<1>1. /\ sc \in [Callers -> Connections \cup {None}] /\ dialed \in Connections
      /\ conns \in [Senders -> Connections \cup {None}] /\ conns' \in [Senders -> Connections \cup {None}]
      /\ link \in [Connections -> {"none", "up", "lost", "closed"}]
      /\ pc \in [Callers -> {"start", "dial", "store", "lock", "write", "check", "read",
                             "answered", "failed"}]
      /\ \A c \in Callers : SenderOf[c] \in Senders
  BY ShapeStep, Constants DEF Shape, TypeOK
<1>2. CASE link[k] \notin {"up", "lost"}
  <2>1. PICK c \in Callers : Dial(c) /\ k = dialed + 1
    BY <1>1, <1>2, RemoveFacts
       DEF Next, Request, Tick, Reap, Close, Lookup, Dial, DialFails, Store, Lock, Write,
           WriteFails, Check, Read, ReadFails, Deadline, ReapClose, Progress, Answer, Lose, vars, netVars
  <2>2. pc'[c] = "store" /\ sc'[c] = k
    BY <1>1, <2>1 DEF Dial, Goto
  <2> QED BY <2>2 DEF Kept
<1>3. CASE link[k] \in {"up", "lost"}
  <2>1. Kept(k)
    BY <1>3 DEF NoOrphan, Kept
  <2>2. CASE k \in Range(conns)
    <3>1. PICK s \in Senders : conns[s] = k
      BY <1>1, <2>2 DEF Range
    <3>2. conns'[s] = k \/ k \in reaping'
      BY <3>1, MovesStep, Constants DEF Moves, EntryMoves, LetGo
    <3> QED BY <1>1, <3>2 DEF Kept, Range
  <2>3. CASE k \in reaping
    BY <2>3, MovesStep DEF Moves, Kept
  <2>4. ASSUME NEW c \in Callers, pc[c] = "store", sc[c] = k
        PROVE  Kept(k)'
    <3>1. CASE Store(c)
      <4>1. conns'[SenderOf[c]] = k
        BY <1>1, <2>4, <3>1 DEF Store
      <4> QED BY <1>1, <4>1 DEF Kept, Range
    <3>2. CASE ~Store(c)
      <4>1. pc'[c] = "store" /\ sc'[c] = k
        <5>1. ASSUME NEW d \in Callers, Request(d)
              PROVE  pc'[c] = "store" /\ sc'[c] = k
          <6>1. d # c
            BY <2>4, <3>2, <5>1 DEF Request, Lookup, Dial, DialFails, Lock, Write, WriteFails,
                                    Check, Read, ReadFails
          <6>2. pc'[c] = pc[c] /\ sc'[c] = sc[c]
            BY <1>1, <5>1, <6>1 DEF Request, Lookup, Dial, DialFails, Store, Lock, Write,
                                    WriteFails, Check, Read, ReadFails, Goto, Leave
          <6> QED BY <2>4, <6>2
        <5>2. CASE UNCHANGED <<pc, sc>>
          BY <2>4, <5>2
        <5> QED BY <5>1, <5>2 DEF Next, Tick, Reap, Close, Deadline, ReapClose, Progress, Answer,
                                  Lose, vars
      <4> QED BY <4>1 DEF Kept
    <3> QED BY <3>1, <3>2
  <2> QED BY <2>1, <2>2, <2>3, <2>4 DEF Kept
<1> QED BY <1>2, <1>3
-----------------------------------------------------------------------------
(* A connection serves one sender: whoever works or worked with it, and    *)
(* whoever it is cached for, is the same.                                  *)
SenderInv ==
    /\ \A c, d \in Callers : sc[c] # None /\ sc[c] = sc[d] => SenderOf[c] = SenderOf[d]
    /\ \A c \in Callers, s \in Senders : sc[c] # None /\ conns[s] = sc[c] => SenderOf[c] = s
    /\ \A s, t \in Senders : conns[s] # None /\ conns[s] = conns[t] => s = t

LEMMA SenderInit == Init => SenderInv
  BY DEF Init, SenderInv, None

LEMMA SenderStep == Shape /\ SenderInv /\ [Next]_vars => SenderInv'
<1> SUFFICES ASSUME Shape, SenderInv, [Next]_vars
             PROVE  SenderInv'
  OBVIOUS
<1>1. /\ sc \in [Callers -> Connections \cup {None}] /\ dialed \in Connections
      /\ conns \in [Senders -> Connections \cup {None}]
      /\ \A c \in Callers : SenderOf[c] \in Senders
      /\ \A c \in Callers : pc[c] \in Using => sc[c] # None
  BY Constants DEF Shape, TypeOK, DialInv
<1>2. ASSUME UNCHANGED sc, \A s \in Senders : conns'[s] \in {None, conns[s]}
      PROVE  SenderInv'
  <2>1. \A s \in Senders : conns'[s] = None \/ conns'[s] = conns[s]
    BY <1>2
  <2>2. \A c \in Callers, s \in Senders : sc'[c] # None /\ conns'[s] = sc'[c] => SenderOf[c] = s
    BY <1>2, <2>1 DEF SenderInv
  <2>3. \A s, t \in Senders : conns'[s] # None /\ conns'[s] = conns'[t] => s = t
    BY <2>1 DEF SenderInv
  <2>4. \A c, d \in Callers : sc'[c] # None /\ sc'[c] = sc'[d] => SenderOf[c] = SenderOf[d]
    BY <1>2 DEF SenderInv
  <2> QED BY <2>2, <2>3, <2>4 DEF SenderInv
<1>3. ASSUME NEW c \in Callers, Lookup(c)
      PROVE  SenderInv'
  <2>1. /\ conns' = conns
        /\ \/ sc' = sc
           \/ conns[SenderOf[c]] # None /\ sc' = [sc EXCEPT ![c] = conns[SenderOf[c]]]
    BY <1>3 DEF Lookup, Cached
  <2>2. CASE sc' = sc
    BY <2>1, <2>2 DEF SenderInv
  <2>3. CASE conns[SenderOf[c]] # None /\ sc' = [sc EXCEPT ![c] = conns[SenderOf[c]]]
    <3>1. sc'[c] = conns[SenderOf[c]] /\ \A d \in Callers \ {c} : sc'[d] = sc[d]
      BY <1>1, <2>3
    <3> QED BY <1>1, <2>1, <2>3, <3>1 DEF SenderInv
  <2> QED BY <2>1, <2>2, <2>3
<1>4. ASSUME NEW c \in Callers, Dial(c)
      PROVE  SenderInv'
  <2>1. /\ conns' = conns /\ sc' = [sc EXCEPT ![c] = dialed + 1]
    BY <1>4 DEF Dial
  <2>2. /\ \A d \in Callers : sc[d] # dialed + 1
        /\ \A s \in Senders : conns[s] # dialed + 1
    BY <1>1, Constants DEF Shape, DialInv
  <2>3. sc'[c] = dialed + 1 /\ \A d \in Callers \ {c} : sc'[d] = sc[d]
    BY <1>1, <2>1
  <2> QED BY <1>1, <2>1, <2>2, <2>3 DEF SenderInv
<1>5. ASSUME NEW c \in Callers, Store(c)
      PROVE  SenderInv'
  <2>1. CASE conns[SenderOf[c]] # None
    <3>1. conns' = conns /\ sc' = [sc EXCEPT ![c] = conns[SenderOf[c]]]
      BY <1>5, <2>1 DEF Store
    <3>2. sc'[c] = conns[SenderOf[c]] /\ \A d \in Callers \ {c} : sc'[d] = sc[d]
      BY <1>1, <3>1
    <3> QED BY <1>1, <2>1, <3>1, <3>2 DEF SenderInv
  <2>2. CASE conns[SenderOf[c]] = None
    <3>1. sc' = sc /\ conns' = [conns EXCEPT ![SenderOf[c]] = sc[c]] /\ sc[c] # None
      BY <1>1, <1>5, <2>2 DEF Store, Using
    <3>2. conns'[SenderOf[c]] = sc[c] /\ \A s \in Senders \ {SenderOf[c]} : conns'[s] = conns[s]
      BY <1>1, <3>1
    <3> QED BY <1>1, <3>1, <3>2 DEF SenderInv
  <2> QED BY <2>1, <2>2
<1>6. ASSUME NEW c \in Callers, RemoveSender(c), UNCHANGED sc
      PROVE  SenderInv'
  BY <1>2, <1>6, RemoveFacts
<1>7. CASE Reap
  <2>1. \A s \in Senders : conns'[s] \in {None, conns[s]}
    BY <1>7 DEF Reap
  <2>2. UNCHANGED sc
    BY <1>7 DEF Reap
  <2> QED BY <1>2, <2>1, <2>2
<1>8. CASE Close
  <2>1. (\A s \in Senders : conns'[s] \in {None, conns[s]}) /\ UNCHANGED sc
    BY <1>8 DEF Close
  <2> QED BY <1>2, <2>1
<1>9. CASE UNCHANGED <<sc, conns>>
  BY <1>9 DEF SenderInv
<1> QED BY <1>3, <1>4, <1>5, <1>6, <1>7, <1>8, <1>9
        DEF Next, Request, Tick, DialFails, Lock, Write, WriteFails, Check, Read, ReadFails,
            Deadline, ReapClose, Progress, Answer, Lose, vars, netVars
-----------------------------------------------------------------------------
(* A connection owes a request something when the agent has it to answer   *)
(* or a frame for it has not been read.                                    *)
Asked(d, k) == \E i \in 1 .. Len(asked[k]) : asked[k][i] = d

Owed(d, k) == Asked(d, k) \/ \E i \in 1 .. Len(inbox[k]) : inbox[k][i].of = d

LEMMA TailFacts ==
    ASSUME NEW S, NEW s \in Seq(S), s # <<>>
    PROVE  /\ Head(s) = s[1] /\ 1 \in 1 .. Len(s) /\ Len(Tail(s)) = Len(s) - 1
           /\ \A i \in 1 .. Len(Tail(s)) : i + 1 \in 1 .. Len(s) /\ Tail(s)[i] = s[i + 1]
  OBVIOUS

LEMMA AppendFacts ==
    ASSUME NEW S, NEW s \in Seq(S), NEW x \in S
    PROVE  /\ Len(Append(s, x)) = Len(s) + 1
           /\ \A i \in 1 .. Len(Append(s, x)) :
                 \/ i \in 1 .. Len(s) /\ Append(s, x)[i] = s[i]
                 \/ i = Len(s) + 1 /\ Append(s, x)[i] = x
  OBVIOUS

LEMMA OwedStep ==
    ASSUME Shape, [Next]_vars, NEW k \in Connections, NEW d \in Callers, Owed(d, k)'
    PROVE  Owed(d, k) \/ (Write(d) /\ sc[d] = k)
<1>1. /\ asked \in [Connections -> Seq(Callers)] /\ inbox \in [Connections -> Seq(Frames)]
      /\ \A c \in Callers : pc[c] \in Using => sc[c] \in Connections
  BY DEF Shape, TypeOK, DialInv
<1>2. CASE UNCHANGED <<asked, inbox>>
  BY <1>2 DEF Owed, Asked
<1>3. ASSUME NEW c \in Callers, Write(c)
      PROVE  Owed(d, k) \/ (Write(d) /\ sc[d] = k)
  <2>1. inbox' = inbox /\ sc[c] \in Connections
        /\ (asked' = asked \/ asked' = [asked EXCEPT ![sc[c]] = Append(asked[sc[c]], c)])
    BY <1>1, <1>3 DEF Write, Using
  <2>2. CASE asked' = asked
    BY <2>1, <2>2 DEF Owed, Asked
  <2>3. CASE asked' = [asked EXCEPT ![sc[c]] = Append(asked[sc[c]], c)] /\ k = sc[c]
    <3>1. asked'[k] = Append(asked[k], c) /\ asked[k] \in Seq(Callers)
      BY <1>1, <2>3
    <3>2. \A i \in 1 .. Len(asked'[k]) : asked'[k][i] = d => d = c \/ Asked(d, k)
      BY <3>1, AppendFacts DEF Asked
    <3>3. Asked(d, k)' => d = c \/ Asked(d, k)
      BY <3>2 DEF Asked
    <3> QED BY <1>3, <2>1, <2>3, <3>3 DEF Owed
  <2>4. CASE asked' = [asked EXCEPT ![sc[c]] = Append(asked[sc[c]], c)] /\ k # sc[c]
    <3>1. asked'[k] = asked[k]
      BY <1>1, <2>4
    <3> QED BY <2>1, <3>1 DEF Owed, Asked
  <2> QED BY <2>1, <2>2, <2>3, <2>4
<1>4. ASSUME NEW c \in Callers, Read(c)
      PROVE  Owed(d, k)
  <2>1. /\ asked' = asked /\ sc[c] \in Connections /\ inbox[sc[c]] # <<>>
        /\ inbox' = [inbox EXCEPT ![sc[c]] = Tail(inbox[sc[c]])]
    BY <1>1, <1>4 DEF Read, Using
  <2>2. CASE k = sc[c]
    <3>1. inbox'[k] = Tail(inbox[k]) /\ inbox[k] \in Seq(Frames) /\ inbox[k] # <<>>
      BY <1>1, <2>1, <2>2
    <3>2. \A i \in 1 .. Len(inbox'[k]) : i + 1 \in 1 .. Len(inbox[k]) /\ inbox'[k][i] = inbox[k][i + 1]
      BY <3>1, TailFacts
    <3> QED BY <2>1, <3>2 DEF Owed, Asked
  <2>3. CASE k # sc[c]
    <3>1. inbox'[k] = inbox[k]
      BY <1>1, <2>1, <2>3
    <3> QED BY <2>1, <3>1 DEF Owed, Asked
  <2> QED BY <2>2, <2>3
<1>5. ASSUME NEW j \in Connections, Progress(j)
      PROVE  Owed(d, k)
  <2>1. /\ asked' = asked /\ asked[j] # <<>>
        /\ inbox' = [inbox EXCEPT ![j] = <<[type |-> "chunk", of |-> Head(asked[j])]>>]
    BY <1>5 DEF Progress
  <2>2. CASE k = j
    <3>1. inbox'[k] = <<[type |-> "chunk", of |-> Head(asked[k])]>>
      BY <1>1, <2>1, <2>2
    <3>2. Asked(Head(asked[k]), k)
      BY <1>1, <2>1, <2>2, TailFacts DEF Asked
    <3>3. \A i \in 1 .. Len(inbox'[k]) : inbox'[k][i].of = Head(asked[k])
      BY <3>1
    <3> QED BY <2>1, <3>2, <3>3 DEF Owed, Asked
  <2>3. CASE k # j
    <3>1. inbox'[k] = inbox[k]
      BY <1>1, <2>1, <2>3
    <3> QED BY <2>1, <3>1 DEF Owed, Asked
  <2> QED BY <2>2, <2>3
<1>6. ASSUME NEW j \in Connections, Answer(j)
      PROVE  Owed(d, k)
  <2>1. PICK type \in {"done", "error"} :
          /\ asked' = [asked EXCEPT ![j] = Tail(asked[j])] /\ asked[j] # <<>>
          /\ inbox' = [inbox EXCEPT ![j] = Append(inbox[j], [type |-> type, of |-> Head(asked[j])])]
    BY <1>6 DEF Answer
  <2>2. CASE k = j
    <3> DEFINE frame == [type |-> type, of |-> Head(asked[k])]
    <3>1. /\ asked'[k] = Tail(asked[k]) /\ inbox'[k] = Append(inbox[k], frame)
          /\ asked[k] \in Seq(Callers) /\ asked[k] # <<>> /\ inbox[k] \in Seq(Frames)
      BY <1>1, <2>1, <2>2
    <3>2. frame \in Frames /\ frame.of = Head(asked[k])
      BY <3>1 DEF Frames
    <3> HIDE DEF frame
    <3>3. Asked(Head(asked[k]), k)
      BY <3>1, TailFacts DEF Asked
    <3>4. \A i \in 1 .. Len(inbox'[k]) :
             (i \in 1 .. Len(inbox[k]) /\ inbox'[k][i] = inbox[k][i]) \/ inbox'[k][i] = frame
      BY <3>1, <3>2, AppendFacts
    <3>5. \A i \in 1 .. Len(asked'[k]) : i + 1 \in 1 .. Len(asked[k]) /\ asked'[k][i] = asked[k][i + 1]
      BY <3>1, TailFacts
    <3> QED BY <3>2, <3>3, <3>4, <3>5 DEF Owed, Asked
  <2>3. CASE k # j
    <3>1. inbox'[k] = inbox[k] /\ asked'[k] = asked[k]
      BY <1>1, <2>1, <2>3
    <3> QED BY <3>1 DEF Owed, Asked
  <2> QED BY <2>2, <2>3
<1> QED BY <1>2, <1>3, <1>4, <1>5, <1>6
        DEF Next, Request, Tick, Reap, Close, Lookup, Dial, DialFails, Store, Lock, WriteFails,
            Check, ReadFails, Deadline, ReapClose, Lose, vars, netVars

(* Only a request that has written is owed anything, by its connection.    *)
Begun == {"check", "read", "answered", "failed"}

OwedInv == \A k \in Connections, d \in Callers : Owed(d, k) => sc[d] = k /\ pc[d] \in Begun

LEMMA BegunStep ==
    ASSUME Shape, [Next]_vars, NEW d \in Callers, pc[d] \in Begun \/ Write(d)
    PROVE  sc'[d] = sc[d] /\ pc'[d] \in Begun
<1>1. /\ sc \in [Callers -> Connections \cup {None}]
      /\ pc \in [Callers -> {"start", "dial", "store", "lock", "write", "check", "read",
                             "answered", "failed"}]
  BY DEF Shape, TypeOK
<1>2. CASE Write(d)
  BY <1>1, <1>2 DEF Write, Goto, Begun
<1>3. CASE pc[d] \in Begun
  <2>1. ASSUME NEW c \in Callers, Request(c)
        PROVE  sc'[d] = sc[d] /\ pc'[d] \in Begun
    BY <1>1, <1>3, <2>1 DEF Request, Lookup, Dial, DialFails, Store, Lock, Write, WriteFails,
                            Check, Read, ReadFails, Goto, Leave, Begun, netVars
  <2>2. CASE UNCHANGED <<pc, sc>>
    BY <1>3, <2>2
  <2> QED BY <2>1, <2>2 DEF Next, Tick, Reap, Close, Deadline, ReapClose, Progress, Answer, Lose,
                            vars
<1> QED BY <1>2, <1>3

LEMMA OwedInvStep == Shape /\ OwedInv /\ [Next]_vars => OwedInv'
<1> SUFFICES ASSUME Shape, OwedInv, [Next]_vars,
                    NEW k \in Connections, NEW d \in Callers, Owed(d, k)'
             PROVE  sc'[d] = k /\ pc'[d] \in Begun
  BY DEF OwedInv
<1>1. Owed(d, k) \/ (Write(d) /\ sc[d] = k)
  BY OwedStep
<1>2. sc[d] = k /\ (pc[d] \in Begun \/ Write(d))
  BY <1>1 DEF OwedInv
<1> QED BY <1>2, BegunStep

(* A request is with the agent once, and its answer or error is the last   *)
(* frame for it.                                                           *)
Once(k) == \A i, j \in 1 .. Len(asked[k]) : i # j => asked[k][i] # asked[k][j]

Last(k) == \A i \in 1 .. Len(inbox[k]) : inbox[k][i].type # "chunk" =>
               /\ ~Asked(inbox[k][i].of, k)
               /\ \A j \in 1 .. Len(inbox[k]) : i < j => inbox[k][j].of # inbox[k][i].of

OrderInv == \A k \in Connections : Once(k) /\ Last(k)

LEMMA FrameFacts ==
    ASSUME Shape, NEW k \in Connections
    PROVE  \A i \in 1 .. Len(inbox[k]) : inbox[k][i].of \in Callers
<1> SUFFICES ASSUME NEW i \in 1 .. Len(inbox[k])
             PROVE  inbox[k][i].of \in Callers
  OBVIOUS
<1>1. inbox[k] \in Seq(Frames)
  BY DEF Shape, TypeOK
<1>2. inbox[k][i] \in Frames
  BY <1>1
<1> QED BY <1>2 DEF Frames

LEMMA OrderStep == Shape /\ OwedInv /\ OrderInv /\ [Next]_vars => OrderInv'
<1> SUFFICES ASSUME Shape, OwedInv, OrderInv, [Next]_vars, NEW k \in Connections
             PROVE  Once(k)' /\ Last(k)'
  BY DEF OrderInv
<1>1. /\ asked \in [Connections -> Seq(Callers)] /\ inbox \in [Connections -> Seq(Frames)]
      /\ \A c \in Callers : pc[c] \in Using => sc[c] \in Connections
      /\ asked[k] \in Seq(Callers) /\ inbox[k] \in Seq(Frames)
      /\ Len(asked[k]) \in Nat /\ Len(inbox[k]) \in Nat
  BY DEF Shape, TypeOK, DialInv
<1>2. Once(k) /\ Last(k)
  BY DEF OrderInv
<1>3. CASE asked'[k] = asked[k] /\ inbox'[k] = inbox[k]
  BY <1>2, <1>3 DEF Once, Last, Asked
<1>4. ASSUME NEW c \in Callers, Write(c), k = sc[c], asked' # asked
      PROVE  Once(k)' /\ Last(k)'
  <2>1. inbox' = inbox /\ asked'[k] = Append(asked[k], c)
    BY <1>1, <1>4 DEF Write
  <2>2. ~Owed(c, k)
    BY <1>4 DEF OwedInv, Write, Begun
  <2>3. /\ Len(asked'[k]) = Len(asked[k]) + 1
        /\ \A i \in 1 .. Len(asked'[k]) : \/ i \in 1 .. Len(asked[k]) /\ asked'[k][i] = asked[k][i]
                                          \/ i = Len(asked[k]) + 1 /\ asked'[k][i] = c
    BY <1>1, <2>1, AppendFacts
  <2>4. Once(k)'
    BY <1>2, <2>2, <2>3 DEF Once, Owed, Asked
  <2>5. \A x \in Callers : Asked(x, k)' => x = c \/ Asked(x, k)
    BY <2>3 DEF Asked
  <2>6. \A i \in 1 .. Len(inbox[k]) : inbox[k][i].of \in Callers /\ inbox[k][i].of # c
    BY <1>1, <2>2, FrameFacts DEF Owed
  <2>7. Last(k)'
    BY <1>2, <2>1, <2>5, <2>6 DEF Last
  <2> QED BY <2>4, <2>7
<1>5. ASSUME NEW c \in Callers, Read(c), k = sc[c]
      PROVE  Once(k)' /\ Last(k)'
  <2>1. asked' = asked /\ inbox[k] # <<>> /\ inbox'[k] = Tail(inbox[k])
    BY <1>1, <1>5 DEF Read
  <2>2. \A i \in 1 .. Len(inbox'[k]) : i + 1 \in 1 .. Len(inbox[k]) /\ inbox'[k][i] = inbox[k][i + 1]
    BY <1>1, <2>1, TailFacts
  <2>3. Len(inbox'[k]) \in Nat
    BY <1>1, <2>1, TailFacts
  <2>4. Once(k)'
    BY <1>2, <2>1 DEF Once
  <2>5. ASSUME NEW i \in 1 .. Len(inbox'[k]), inbox'[k][i].type # "chunk",
               NEW j \in 1 .. Len(asked'[k])
        PROVE  asked'[k][j] # inbox'[k][i].of
    BY <1>2, <2>1, <2>2, <2>5 DEF Last, Asked
  <2>6. ASSUME NEW i \in 1 .. Len(inbox'[k]), inbox'[k][i].type # "chunk",
               NEW j \in 1 .. Len(inbox'[k]), i < j
        PROVE  inbox'[k][j].of # inbox'[k][i].of
    <3>1. i + 1 < j + 1
      BY <2>3, <2>6
    <3> QED BY <1>2, <2>2, <2>6, <3>1 DEF Last
  <2> QED BY <2>4, <2>5, <2>6 DEF Last, Asked
<1>6. ASSUME Progress(k)
      PROVE  Once(k)' /\ Last(k)'
  <2>1. asked' = asked /\ inbox'[k] = <<[type |-> "chunk", of |-> Head(asked[k])]>>
    BY <1>1, <1>6 DEF Progress
  <2>2. \A i \in 1 .. Len(inbox'[k]) : inbox'[k][i].type = "chunk"
    BY <2>1
  <2> QED BY <1>2, <2>1, <2>2 DEF Once, Last
<1>7. ASSUME Answer(k)
      PROVE  Once(k)' /\ Last(k)'
  <2>1. PICK type \in {"done", "error"} :
          /\ asked'[k] = Tail(asked[k]) /\ asked[k] # <<>>
          /\ inbox'[k] = Append(inbox[k], [type |-> type, of |-> Head(asked[k])])
    BY <1>1, <1>7 DEF Answer
  <2>2. PICK first \in Callers : first = Head(asked[k])
    BY <1>1, <2>1
  <2>3. PICK frame \in Frames : frame = [type |-> type, of |-> first]
    BY DEF Frames
  <2>4. /\ Len(inbox'[k]) = Len(inbox[k]) + 1
        /\ \A i \in 1 .. Len(inbox'[k]) : \/ i \in 1 .. Len(inbox[k]) /\ inbox'[k][i] = inbox[k][i]
                                          \/ i = Len(inbox[k]) + 1 /\ inbox'[k][i] = frame
    BY <1>1, <2>1, <2>2, <2>3, AppendFacts
  <2>5. /\ first = asked[k][1] /\ 1 \in 1 .. Len(asked[k]) /\ Len(asked'[k]) \in Nat
        /\ \A i \in 1 .. Len(asked'[k]) : i + 1 \in 1 .. Len(asked[k]) /\ asked'[k][i] = asked[k][i + 1]
    BY <1>1, <2>1, <2>2, TailFacts
  <2>6. Asked(first, k) /\ \A x \in Callers : Asked(x, k)' => Asked(x, k)
    BY <2>5 DEF Asked
  <2>7. ASSUME NEW i \in 1 .. Len(asked'[k])
        PROVE  /\ asked'[k][i] # first
               /\ \A j \in 1 .. Len(asked'[k]) : i # j => asked'[k][i] # asked'[k][j]
    <3>1. i \in Nat /\ i + 1 # 1 /\ i + 1 \in 1 .. Len(asked[k])
      BY <2>5
    <3>2. asked[k][i + 1] # asked[k][1]
      BY <1>2, <2>5, <3>1 DEF Once
    <3>3. ASSUME NEW j \in 1 .. Len(asked'[k]), i # j
          PROVE  asked'[k][i] # asked'[k][j]
      <4>1. j \in Nat /\ i + 1 # j + 1 /\ j + 1 \in 1 .. Len(asked[k])
        BY <2>5, <3>1, <3>3
      <4>2. asked[k][i + 1] # asked[k][j + 1]
        BY <1>2, <3>1, <4>1 DEF Once
      <4> QED BY <2>5, <4>2
    <3> QED BY <2>5, <3>2, <3>3
  <2>8. Once(k)'
    BY <2>7 DEF Once
  <2>9. ~Asked(first, k)'
    BY <2>7 DEF Asked
  <2>10. ASSUME NEW i \in 1 .. Len(inbox[k])
         PROVE  inbox[k][i].of \in Callers /\ (inbox[k][i].type # "chunk" => inbox[k][i].of # first)
    BY <1>2, <2>6, FrameFacts DEF Last
  <2>11. ASSUME NEW i \in 1 .. Len(inbox'[k]), inbox'[k][i].type # "chunk",
                NEW x \in Callers, x = inbox'[k][i].of
         PROVE  ~Asked(x, k)'
    <3>1. CASE i \in 1 .. Len(inbox[k]) /\ inbox'[k][i] = inbox[k][i]
      BY <1>2, <2>6, <2>11, <3>1 DEF Last
    <3>2. CASE inbox'[k][i] = frame
      BY <2>3, <2>9, <2>11, <3>2
    <3> QED BY <2>4, <3>1, <3>2
  <2>12. ASSUME NEW i \in 1 .. Len(inbox'[k]), inbox'[k][i].type # "chunk",
                NEW j \in 1 .. Len(inbox'[k]), i < j
         PROVE  inbox'[k][j].of # inbox'[k][i].of
    <3>1. i \in 1 .. Len(inbox[k]) /\ inbox'[k][i] = inbox[k][i]
      BY <1>1, <2>4, <2>12
    <3>2. CASE j \in 1 .. Len(inbox[k]) /\ inbox'[k][j] = inbox[k][j]
      BY <1>2, <2>12, <3>1, <3>2 DEF Last
    <3>3. CASE inbox'[k][j] = frame
      BY <2>3, <2>10, <2>12, <3>1, <3>3
    <3> QED BY <2>4, <3>2, <3>3
  <2>13. \A i \in 1 .. Len(inbox'[k]) : inbox'[k][i].of \in Callers
    BY <2>3, <2>4, FrameFacts
  <2>14. Last(k)'
    <3> SUFFICES ASSUME NEW i \in 1 .. Len(inbox'[k]), inbox'[k][i].type # "chunk"
                 PROVE  /\ \A j \in 1 .. Len(asked'[k]) : asked'[k][j] # inbox'[k][i].of
                        /\ \A j \in 1 .. Len(inbox'[k]) : i < j => inbox'[k][j].of # inbox'[k][i].of
      BY DEF Last, Asked
    <3>1. PICK x \in Callers : x = inbox'[k][i].of
      BY <2>13
    <3>2. ~Asked(x, k)'
      BY <2>11, <3>1
    <3> QED BY <2>12, <3>1, <3>2 DEF Asked
  <2> QED BY <2>8, <2>14
<1>8. ASSUME NEW j \in Connections, Progress(j) \/ Answer(j), j # k
      PROVE  asked'[k] = asked[k] /\ inbox'[k] = inbox[k]
  BY <1>1, <1>8 DEF Progress, Answer
<1>9. ASSUME NEW c \in Callers, Write(c) \/ Read(c), k # sc[c]
      PROVE  asked'[k] = asked[k] /\ inbox'[k] = inbox[k]
  BY <1>1, <1>9 DEF Write, Read, Using
<1>10. \/ UNCHANGED <<asked, inbox>>
       \/ \E c \in Callers : Write(c) \/ Read(c)
       \/ \E j \in Connections : Progress(j) \/ Answer(j)
  BY DEF Next, Request, Tick, Reap, Close, Lookup, Dial, DialFails, Store, Lock, WriteFails,
         Check, ReadFails, Deadline, ReapClose, Lose, vars, netVars
<1>11. ASSUME NEW c \in Callers, Write(c)
       PROVE  inbox' = inbox
  BY <1>11 DEF Write
<1>12. ASSUME NEW c \in Callers, Write(c) \/ Read(c)
       PROVE  Once(k)' /\ Last(k)'
  <2>1. CASE k = sc[c]
    <3>1. CASE Read(c)
      BY <1>5, <2>1, <3>1
    <3>2. CASE Write(c) /\ asked' # asked
      BY <1>4, <2>1, <3>2
    <3>3. CASE Write(c) /\ asked' = asked
      <4>1. inbox' = inbox
        BY <1>11, <3>3
      <4> QED BY <1>3, <3>3, <4>1
    <3> QED BY <1>12, <3>1, <3>2, <3>3
  <2>2. CASE k # sc[c]
    <3>1. asked'[k] = asked[k] /\ inbox'[k] = inbox[k]
      BY <1>9, <1>12, <2>2
    <3> QED BY <1>3, <3>1
  <2> QED BY <2>1, <2>2
<1>13. ASSUME NEW j \in Connections, Progress(j) \/ Answer(j)
       PROVE  Once(k)' /\ Last(k)'
  <2>1. CASE j = k
    BY <1>6, <1>7, <1>13, <2>1
  <2>2. CASE j # k
    BY <1>3, <1>8, <1>13, <2>2
  <2> QED BY <2>1, <2>2
<1> QED BY <1>3, <1>10, <1>12, <1>13

(* What an open connection still owes a request that has ended was left    *)
(* behind by its sender.                                                   *)
LeftInv == \A k \in Connections, d \in Callers :
              link[k] # "closed" /\ Owed(d, k) =>
                  pc[d] \in {"check", "read"} \/ Abandoned(SenderOf[d])

LEMMA AbandonedStays ==
    ASSUME Shape, [Next]_vars, NEW s \in Senders, Abandoned(s)
    PROVE  Abandoned(s)'
<1>1. PICK c \in late : SenderOf[c] = s /\ pc[c] = "failed"
  BY DEF Abandoned
<1>2. /\ c \in Callers /\ late \subseteq Callers
      /\ pc \in [Callers -> {"start", "dial", "store", "lock", "write", "check", "read",
                             "answered", "failed"}]
  BY <1>1 DEF Shape, TypeOK
<1>3. c \in late'
  BY <1>1 DEF Next, Request, Tick, Reap, Close, Lookup, Dial, DialFails, Store, Lock, Write,
              WriteFails, Check, Read, ReadFails, Deadline, ReapClose, Progress, Answer, Lose, vars,
              netVars
<1>4. pc'[c] = "failed"
  <2>1. ASSUME NEW d \in Callers, Request(d)
        PROVE  pc'[c] = "failed"
    BY <1>1, <1>2, <2>1 DEF Request, Lookup, Dial, DialFails, Store, Lock, Write, WriteFails,
                            Check, Read, ReadFails, Goto, Leave
  <2>2. CASE pc' = pc
    BY <1>1, <2>2
  <2> QED BY <2>1, <2>2 DEF Next, Tick, Reap, Close, Deadline, ReapClose, Progress, Answer, Lose,
                            vars
<1> QED BY <1>1, <1>3, <1>4 DEF Abandoned

CoreInv == Shape /\ MutexInv /\ OwnInv /\ SenderInv /\ OwedInv /\ OrderInv /\ LeftInv

(* The frame a request reads is its own, or one its sender left behind.    *)
LEMMA ReadsOwn ==
    ASSUME CoreInv, NEW c \in Callers, Read(c), NEW d \in Callers, Owed(d, sc[c]), d # c
    PROVE  SenderOf[d] = SenderOf[c] /\ Abandoned(SenderOf[d])
<1>1. pc[c] = "read" /\ link[sc[c]] # "closed" /\ sc[c] \in Connections /\ sc[c] # None
  BY DEF Read, CoreInv, Shape, TypeOK, DialInv, Using
<1>2. sc[d] = sc[c]
  BY <1>1 DEF CoreInv, OwedInv
<1>3. pc[d] \notin {"check", "read"}
  BY <1>1, <1>2 DEF CoreInv, MutexInv, Holding
<1> QED BY <1>1, <1>2, <1>3 DEF CoreInv, LeftInv, SenderInv

LEMMA HeadOwed ==
    ASSUME Shape, NEW c \in Callers, Read(c)
    PROVE  /\ sc[c] \in Connections /\ inbox[sc[c]] # <<>> /\ inbox[sc[c]] \in Seq(Frames)
           /\ 1 \in 1 .. Len(inbox[sc[c]]) /\ Head(inbox[sc[c]]) = inbox[sc[c]][1]
           /\ Head(inbox[sc[c]]).of \in Callers /\ Owed(Head(inbox[sc[c]]).of, sc[c])
<1>1. sc[c] \in Connections /\ inbox[sc[c]] # <<>> /\ inbox[sc[c]] \in Seq(Frames)
  BY DEF Read, Shape, TypeOK, DialInv, Using
<1>2. 1 \in 1 .. Len(inbox[sc[c]]) /\ Head(inbox[sc[c]]) = inbox[sc[c]][1]
  BY <1>1, TailFacts
<1>3. Head(inbox[sc[c]]).of \in Callers
  BY <1>1, <1>2, FrameFacts
<1> QED BY <1>1, <1>2, <1>3 DEF Owed

(* A request that has read its answer or error is owed nothing any more.   *)
LEMMA ReadSettles ==
    ASSUME CoreInv, NEW c \in Callers, Read(c), Head(inbox[sc[c]]).of = c,
           Head(inbox[sc[c]]).type # "chunk", NEW k \in Connections, k = sc[c]
    PROVE  ~Owed(c, k)'
<1>1. /\ inbox[k] # <<>> /\ inbox[k] \in Seq(Frames) /\ 1 \in 1 .. Len(inbox[k])
      /\ Head(inbox[k]) = inbox[k][1] /\ inbox \in [Connections -> Seq(Frames)]
  BY HeadOwed DEF CoreInv, Shape, TypeOK
<1>2. asked' = asked /\ inbox'[k] = Tail(inbox[k])
  BY <1>1 DEF Read
<1>3. \A i \in 1 .. Len(inbox'[k]) : i + 1 \in 1 .. Len(inbox[k]) /\ inbox'[k][i] = inbox[k][i + 1]
  BY <1>1, <1>2, TailFacts
<1>4. Last(k)
  BY DEF CoreInv, OrderInv
<1>5. ~Asked(c, k) /\ \A j \in 1 .. Len(inbox[k]) : 1 < j => inbox[k][j].of # c
  BY <1>1, <1>4 DEF Last
<1>6. ASSUME NEW i \in 1 .. Len(inbox'[k])
      PROVE  inbox'[k][i].of # c
  <2>1. i \in Nat /\ i >= 1 /\ 1 < i + 1
    OBVIOUS
  <2> QED BY <1>3, <1>5, <2>1
<1> QED BY <1>2, <1>5, <1>6 DEF Owed, Asked

LEMMA LeftStep == CoreInv /\ [Next]_vars => LeftInv'
<1> SUFFICES ASSUME CoreInv, [Next]_vars, NEW k \in Connections, NEW d \in Callers,
                    link'[k] # "closed", Owed(d, k)'
             PROVE  pc'[d] \in {"check", "read"} \/ Abandoned(SenderOf[d])'
  BY DEF LeftInv, Abandoned
<1>1. /\ pc \in [Callers -> {"start", "dial", "store", "lock", "write", "check", "read",
                             "answered", "failed"}]
      /\ SenderOf[d] \in Senders /\ Shape
  BY Constants DEF CoreInv, Shape, TypeOK
<1>2. CASE Write(d)
  BY <1>1, <1>2 DEF Write, Goto
<1>3. CASE ~Write(d)
  <2>1. Owed(d, k) /\ sc[d] = k /\ pc[d] \in Begun
    BY <1>1, <1>3, OwedStep DEF CoreInv, OwedInv
  <2>2. link[k] # "closed" /\ k <= dialed
    <3>1. k <= dialed
      BY <2>1 DEF CoreInv, Shape, DialInv
    <3> QED BY <1>1, <3>1, MovesStep DEF Moves, ClosedStays
  <2>3. CASE Abandoned(SenderOf[d])
    BY <1>1, <2>3, AbandonedStays
  <2>4. CASE pc[d] \in {"check", "read"} /\ pc'[d] \notin {"check", "read"}
    <3>1. Check(d) \/ Read(d) \/ ReadFails(d)
      <4>1. ASSUME NEW c \in Callers, Request(c)
            PROVE  Check(d) \/ Read(d) \/ ReadFails(d)
        BY <1>1, <2>4, <4>1 DEF Request, Lookup, Dial, DialFails, Store, Lock, Write, WriteFails,
                                Check, Read, ReadFails, Goto, Leave
      <4>2. pc' # pc
        BY <2>4
      <4> QED BY <4>1, <4>2 DEF Next, Tick, Reap, Close, Deadline, ReapClose, Progress, Answer,
                                Lose, vars
    <3>2. CASE Check(d)
      <4>1. d \in late' /\ pc'[d] = "failed"
        BY <1>1, <2>4, <3>2 DEF Check, Goto, Leave
      <4> QED BY <4>1 DEF Abandoned
    <3>3. CASE ReadFails(d)
      <4>1. conns[SenderOf[d]] = k
        BY <2>1, <2>2, <2>4, SparedBy DEF CoreInv, OwnInv, Working, ReaperSparesRequests, Holding
      <4>2. link'[k] = "closed"
        BY <1>1, <3>3, <4>1, RemoveFacts DEF ReadFails
      <4> QED BY <4>2
    <3>4. CASE Read(d)
      <4>1. PICK e \in Callers : e = Head(inbox[k]).of /\ Owed(e, k)
        BY <1>1, <2>1, <3>4, HeadOwed
      <4>2. Head(inbox[k]).type # "chunk"
        BY <1>1, <2>1, <2>4, <3>4 DEF Read, Goto
      <4>3. CASE e = d
        BY <2>1, <3>4, <4>1, <4>2, <4>3, ReadSettles
      <4>4. CASE e # d
        <5>1. SenderOf[e] = SenderOf[d] /\ Abandoned(SenderOf[e])
          BY <2>1, <3>4, <4>1, <4>4, ReadsOwn
        <5> QED BY <1>1, <5>1, AbandonedStays
      <4> QED BY <4>3, <4>4
    <3> QED BY <3>1, <3>2, <3>3, <3>4
  <2> QED BY <2>1, <2>2, <2>3, <2>4 DEF CoreInv, LeftInv
<1> QED BY <1>2, <1>3

LEMMA GotStep == CoreInv /\ OwnUnlessAbandoned /\ [Next]_vars => OwnUnlessAbandoned'
<1> SUFFICES ASSUME CoreInv, OwnUnlessAbandoned, [Next]_vars,
                    NEW c \in Callers, NEW d \in Callers, d \in got'[c]
             PROVE  SenderOf[d] = SenderOf[c] /\ (d = c \/ Abandoned(SenderOf[c])')
  BY DEF OwnUnlessAbandoned, Abandoned
<1>1. Shape /\ got \in [Callers -> SUBSET Callers] /\ SenderOf[c] \in Senders
  BY Constants DEF CoreInv, Shape, TypeOK
<1>2. CASE d \in got[c]
  BY <1>1, <1>2, AbandonedStays DEF OwnUnlessAbandoned
<1>3. CASE d \notin got[c]
  <2>1. Read(c) /\ d = Head(inbox[sc[c]]).of
    <3>1. ASSUME NEW e \in Callers, Request(e)
          PROVE  Read(c) /\ d = Head(inbox[sc[c]]).of
      BY <1>1, <1>3, <3>1 DEF Request, Lookup, Dial, DialFails, Store, Lock, Write, WriteFails,
                              Check, Read, ReadFails
    <3>2. got' # got
      BY <1>3
    <3> QED BY <3>1, <3>2 DEF Next, Tick, Reap, Close, Deadline, ReapClose, Progress, Answer,
                              Lose, vars
  <2>2. CASE d # c
    <3>1. SenderOf[d] = SenderOf[c] /\ Abandoned(SenderOf[d])
      BY <1>1, <2>1, <2>2, HeadOwed, ReadsOwn
    <3> QED BY <1>1, <3>1, AbandonedStays
  <2> QED BY <2>2
<1> QED BY <1>2, <1>3
-----------------------------------------------------------------------------
BaseInv == CoreInv /\ NoOrphan /\ OwnUnlessAbandoned

LEMMA OwedInit == Init => OwedInv /\ OrderInv /\ LeftInv /\ OwnUnlessAbandoned
<1> SUFFICES ASSUME Init
             PROVE  OwedInv /\ OrderInv /\ LeftInv /\ OwnUnlessAbandoned
  OBVIOUS
<1>1. \A k \in Connections : Len(asked[k]) = 0 /\ Len(inbox[k]) = 0
  BY DEF Init
<1>2. \A k \in Connections : \A d \in Callers : ~Owed(d, k)
  BY <1>1 DEF Owed, Asked
<1>3. OrderInv
  BY <1>1 DEF OrderInv, Once, Last
<1>4. OwnUnlessAbandoned
  BY DEF Init, OwnUnlessAbandoned
<1> QED BY <1>2, <1>3, <1>4 DEF OwedInv, LeftInv

LEMMA BaseSpec == Spec => []BaseInv
<1>1. Init => BaseInv
  BY ShapeInit, MutexInit, OwnInit, OrphanInit, SenderInit, OwedInit DEF BaseInv, CoreInv
<1>2. BaseInv /\ [Next]_vars => BaseInv'
  BY ShapeStep, MutexStep, OwnStep, OrphanStep, SenderStep, OwedInvStep, OrderStep, LeftStep,
     GotStep DEF BaseInv, CoreInv
<1> QED BY <1>1, <1>2, PTL DEF Spec

(* Every variable keeps its type, and a request that uses a connection     *)
(* always has one.                                                         *)
THEOREM TypeCorrect == Spec => []TypeOK
<1>1. BaseInv => TypeOK
  BY DEF BaseInv, CoreInv, Shape
<1> QED BY <1>1, BaseSpec, PTL

(* connFor's race to dial and store, removeSender, the reaper and Close    *)
(* never lose track of an open socket.                                     *)
THEOREM NoSocketLost == Spec => []NoOrphan
<1>1. BaseInv => NoOrphan
  BY DEF BaseInv
<1> QED BY <1>1, BaseSpec, PTL

(* reapIdle's TryLock: a connection it takes carries no request.           *)
THEOREM RequestsSpared == Spec => []ReaperSparesRequests
<1>1. BaseInv => ReaperSparesRequests
  BY SparedBy DEF BaseInv, CoreInv
<1> QED BY <1>1, BaseSpec, PTL

(* removeSender goes by the sender's key and not by the connection that    *)
(* failed, and still never reaches another sender's connection.            *)
THEOREM FailureStaysHome == Spec => DropsOwnOrSuccessor
<1>1. BaseInv /\ [Next]_vars =>
        [\A c \in Callers : pc[c] \in {"write", "read"} /\ pc'[c] = "failed" =>
              \A k \in Connections : link'[k] # link[k] =>
                  k = sc[c] \/ (link[sc[c]] = "closed" /\ k = conns[SenderOf[c]])]_vars
  BY DropsStep DEF BaseInv, CoreInv
<1> QED BY <1>1, BaseSpec, PTL DEF Spec, DropsOwnOrSuccessor

(* Answers carry no request ids, yet a request returns its own, or that of *)
(* a request its own sender gave up on: never another sender's.            *)
THEOREM AnswersOwn == Spec => []OwnUnlessAbandoned
<1>1. BaseInv => OwnUnlessAbandoned
  BY DEF BaseInv
<1> QED BY <1>1, BaseSpec, PTL
-----------------------------------------------------------------------------
(* The mutex of a connection.                                              *)

(* A held mutex has a holder that will release it.                         *)
LockHeld == \A k \in Connections :
                /\ ioMu[k] \in Callers => pc[ioMu[k]] \in Holding /\ sc[ioMu[k]] = k
                /\ ioMu[k] = "reaper" => k \in reaping

LEMMA LockHeldStep == Shape /\ MutexInv /\ LockHeld /\ [Next]_vars => LockHeld'
<1> SUFFICES ASSUME Shape, MutexInv, LockHeld, [Next]_vars
             PROVE  LockHeld'
  OBVIOUS
<1>1. /\ sc \in [Callers -> Connections \cup {None}]
      /\ ioMu \in [Connections -> {"free", "reaper"} \cup Callers]
      /\ pc \in [Callers -> {"start", "dial", "store", "lock", "write", "check", "read",
                             "answered", "failed"}]
      /\ reaping \subseteq Connections
      /\ \A c \in Callers : pc[c] \in Using => sc[c] \in Connections
  BY DEF Shape, TypeOK, DialInv
<1>2. CASE \/ Tick \/ Close \/ \E k \in Connections : Progress(k) \/ Answer(k) \/ Lose(k)
           \/ \E c \in Callers : Deadline(c)
           \/ UNCHANGED vars
  BY <1>2 DEF Tick, Close, Progress, Answer, Lose, Deadline, vars, netVars, LockHeld
<1>3. ASSUME NEW c \in Callers, Lookup(c) \/ Dial(c) \/ DialFails(c) \/ Store(c)
      PROVE  LockHeld'
  <2>1. /\ UNCHANGED <<ioMu, reaping>>
        /\ \A d \in Callers : pc[d] \in Holding => pc'[d] \in Holding /\ sc'[d] = sc[d]
    BY <1>1, <1>3 DEF Lookup, Cached, Dial, DialFails, Store, Goto, Holding, netVars
  <2> QED BY <2>1 DEF LockHeld
<1>4. ASSUME NEW c \in Callers, Lock(c)
      PROVE  LockHeld'
  <2>1. /\ ioMu' = [ioMu EXCEPT ![sc[c]] = c] /\ UNCHANGED <<sc, reaping>>
        /\ \A d \in Callers : pc[d] \in Holding \/ d = c => pc'[d] \in Holding
    BY <1>1, <1>4 DEF Lock, Goto, Holding
  <2> QED BY <1>1, <2>1, NotCallers DEF LockHeld
<1>5. ASSUME NEW c \in Callers, Write(c) \/ WriteFails(c) \/ Check(c) \/ Read(c) \/ ReadFails(c)
      PROVE  LockHeld'
  <2>1. /\ pc[c] \in Holding /\ sc[c] \in Connections /\ ioMu[sc[c]] = c
        /\ UNCHANGED <<sc, reaping>>
    BY <1>1, <1>5 DEF Write, WriteFails, Check, Read, ReadFails, Holding, Using, MutexInv, netVars
  <2>2. CASE UNCHANGED ioMu /\ \E place \in Holding : pc' = [pc EXCEPT ![c] = place]
    <3>1. \A d \in Callers : pc[d] \in Holding => pc'[d] \in Holding
      BY <1>1, <2>2
    <3> QED BY <2>1, <2>2, <3>1 DEF LockHeld
  <2>3. CASE \E place \in {"answered", "failed"} : Leave(c, place)
    <3>1. /\ ioMu' = [ioMu EXCEPT ![sc[c]] = "free"]
          /\ \A d \in Callers : pc[d] \in Holding /\ d # c => pc'[d] \in Holding
      BY <1>1, <2>3 DEF Leave, Goto, Holding
    <3>2. ASSUME NEW k \in Connections, ioMu'[k] # "free"
          PROVE  k # sc[c] /\ ioMu'[k] = ioMu[k]
      BY <1>1, <2>1, <3>1, <3>2
    <3>3. \A k \in Connections : ioMu[k] = c => k = sc[c]
      BY DEF LockHeld
    <3> QED BY <2>1, <3>1, <3>2, <3>3, NotCallers DEF LockHeld
  <2> QED BY <1>5, <2>2, <2>3
          DEF Write, WriteFails, Check, Read, ReadFails, Goto, Holding
<1>6. CASE Reap
  <2>1. /\ \A k \in Connections : ioMu'[k] = IF k \in reaping' THEN "reaper" ELSE ioMu[k]
        /\ reaping = {} /\ UNCHANGED <<pc, sc>>
    BY <1>6 DEF Reap
  <2> QED BY <2>1, NotCallers DEF LockHeld
<1>7. ASSUME NEW k \in Connections, ReapClose(k)
      PROVE  LockHeld'
  <2>1. /\ ioMu' = [ioMu EXCEPT ![k] = "free"]
        /\ reaping' = reaping \ {k} /\ UNCHANGED <<pc, sc>>
    BY <1>7 DEF ReapClose
  <2> QED BY <1>1, <2>1, NotCallers DEF LockHeld
<1> QED BY <1>2, <1>3, <1>4, <1>5, <1>6, <1>7 DEF Next, Request

(* No path out of a request or of the reaper leaves a mutex locked: a held *)
(* one belongs to a request now writing or reading on that very            *)
(* connection, or to the reaper about to close it.                         *)
THEOREM NoLockLeaked == Spec => []LockHeld
<1>1. Init => LockHeld
  BY NotCallers DEF Init, LockHeld
<1>2. BaseInv /\ LockHeld /\ [Next]_vars => LockHeld'
  BY LockHeldStep DEF BaseInv, CoreInv
<1> QED BY <1>1, <1>2, BaseSpec, PTL DEF Spec

(* Two requests never use one connection at once, so that the frames of    *)
(* one are not read by the other while it waits.                           *)
OneAtATime == \A c, d \in Callers :
                  pc[c] \in Holding /\ pc[d] \in Holding /\ sc[c] = sc[d] => c = d

THEOREM RequestsTakeTurns == Spec => []OneAtATime
<1>1. BaseInv => OneAtATime
  BY DEF BaseInv, CoreInv, MutexInv, OneAtATime
<1> QED BY <1>1, BaseSpec, PTL
=============================================================================
