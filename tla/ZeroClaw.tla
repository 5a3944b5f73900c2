------------------------------ MODULE ZeroClaw ------------------------------
(***************************************************************************)
(* internal/gateway/zeroclaw.go: one cached connection per sender, used by *)
(* one request at a time under its ioMu, replaced when it breaks and       *)
(* reaped when it is idle.  A connection carries the frames of one         *)
(* conversation and no request ids: an answer belongs to whoever reads it. *)
(*                                                                         *)
(* Connections are numbered in the order they are dialed, the probe that   *)
(* Connect leaves under the empty key being the first.  The agent's side   *)
(* is external: it answers in order, when it likes, or never.              *)
(***************************************************************************)
EXTENDS Naturals, Sequences, FiniteSets, Functions

CONSTANTS Callers,      \* requests, one each
          Senders,      \* normalised sender keys
          SenderOf,     \* the sender of each request
          Probe,        \* the empty key, of the connection Connect dials
          Deadlined,    \* callers whose context has a deadline
          IdleTTL,      \* how long a connection may sit unused
          MaxConns,     \* bound: connections dialed
          MaxTime       \* bound of the model's clock

ASSUME ZeroClawAssumption == /\ SenderOf \in [Callers -> Senders]
                             /\ Probe \in Senders
                             /\ Deadlined \subseteq Callers
                             /\ IdleTTL \in Nat \ {0}
                             /\ MaxConns \in Nat \ {0}
                             /\ MaxTime \in Nat
                             /\ {"free", "reaper"} \cap Callers = {}

VARIABLES clock,
          conns,      \* sender -> its cached connection, None when it has none
          dialed,     \* connections dialed so far
          link,       \* connection -> state of its socket
          ioMu,       \* connection -> who holds its mutex: "free", "reaper" or a caller
          lastUsed,   \* connection -> when connFor last returned it
          asked,      \* connection -> messages the agent has not answered yet (external)
          inbox,      \* connection -> frames not read yet
          pc,         \* caller -> where it is
          sc,         \* caller -> the connection it works with
          late,       \* callers whose deadline has passed
          got,        \* caller -> the request whose answer it returned, a singleton or {}
          reaping,    \* connections the reaper has taken out and not closed yet
          closed      \* Close has run

netVars == <<dialed, link, asked, inbox>>

vars == <<clock, conns, netVars, ioMu, lastUsed, pc, sc, late, got, reaping,
          closed>>

Connections == 1 .. MaxConns

None == 0

(* After Connect: the probe is up and stands under the empty key.          *)
Init == /\ clock = 0
        /\ conns = [s \in Senders |-> IF s = Probe THEN 1 ELSE None]
        /\ dialed = 1
        /\ link = [k \in Connections |-> IF k = 1 THEN "up" ELSE "none"]
        /\ ioMu = [k \in Connections |-> "free"]
        /\ lastUsed = [k \in Connections |-> 0]
        /\ asked = [k \in Connections |-> <<>>]
        /\ inbox = [k \in Connections |-> <<>>]
        /\ pc = [c \in Callers |-> "start"]
        /\ sc = [c \in Callers |-> None]
        /\ late = {}
        /\ got = [c \in Callers |-> {}]
        /\ reaping = {} /\ closed = FALSE

Goto(c, label) == pc' = [pc EXCEPT ![c] = label]

TouchExpiry(k) == lastUsed' = [lastUsed EXCEPT ![k] = clock + IdleTTL]

Touch(k) == lastUsed' = [lastUsed EXCEPT ![k] = clock]

Tick == /\ clock < MaxTime
        /\ clock' = clock + 1
        /\ UNCHANGED <<conns, netVars, ioMu, lastUsed, pc, sc, late, got, reaping, closed>>

Deadline(c) == /\ c \in Deadlined \ late
               /\ pc[c] \notin {"start", "answered", "failed"}
               /\ late' = late \cup {c}
               /\ UNCHANGED <<clock, conns, netVars, ioMu, lastUsed, pc, sc, got, reaping, closed>>
-----------------------------------------------------------------------------
(* connFor: the cached connection, or a new one unless somebody else has   *)
(* stored one while it was dialed.                                         *)
Cached(s) == conns[s]

Lookup(c) ==
    /\ pc[c] = "start"
    /\ LET k == Cached(SenderOf[c])
       IN  IF k = None
           THEN Goto(c, "dial") /\ UNCHANGED <<sc, lastUsed>>
           ELSE Goto(c, "lock") /\ sc' = [sc EXCEPT ![c] = k] /\ Touch(k)
    /\ UNCHANGED <<clock, conns, netVars, ioMu, late, got, reaping, closed>>

Dial(c) ==
    /\ pc[c] = "dial"
    /\ dialed < MaxConns
    /\ dialed' = dialed + 1
    /\ link' = [link EXCEPT ![dialed'] = "up"]
    /\ sc' = [sc EXCEPT ![c] = dialed']
    /\ Goto(c, "store")
    /\ UNCHANGED <<clock, conns, ioMu, lastUsed, asked, inbox, late, got, reaping, closed>>

DialFails(c) ==
    /\ pc[c] = "dial"
    /\ Goto(c, "failed")
    /\ UNCHANGED <<clock, conns, netVars, ioMu, lastUsed, sc, late, got, reaping, closed>>

StoreAnyway(c) ==
    /\ pc[c] = "store"
    /\ conns' = [conns EXCEPT ![SenderOf[c]] = sc[c]]
    /\ Touch(sc[c])
    /\ Goto(c, "lock")
    /\ UNCHANGED <<clock, netVars, ioMu, sc, late, got, reaping, closed>>

Store(c) ==
    /\ pc[c] = "store"
    /\ LET existing == conns[SenderOf[c]]
       IN  IF existing # None
           THEN /\ link' = [link EXCEPT ![sc[c]] = "closed"]
                /\ sc' = [sc EXCEPT ![c] = existing]
                /\ Touch(existing)
                /\ UNCHANGED conns
           ELSE /\ conns' = [conns EXCEPT ![SenderOf[c]] = sc[c]]
                /\ Touch(sc[c])
                /\ UNCHANGED <<link, sc>>
    /\ Goto(c, "lock")
    /\ UNCHANGED <<clock, dialed, asked, inbox, ioMu, late, got, reaping, closed>>
-----------------------------------------------------------------------------
(* The request, under the mutex of its connection.  Nothing but the mutex  *)
(* ends the wait for it, whatever the deadline.                            *)
LockUnheld(c) ==
    /\ pc[c] = "lock"
    /\ ioMu' = [ioMu EXCEPT ![sc[c]] = c]
    /\ Goto(c, "write")
    /\ UNCHANGED <<clock, conns, netVars, lastUsed, sc, late, got, reaping, closed>>

Lock(c) ==
    /\ pc[c] = "lock"
    /\ ioMu[sc[c]] = "free"
    /\ ioMu' = [ioMu EXCEPT ![sc[c]] = c]
    /\ Goto(c, "write")
    /\ UNCHANGED <<clock, conns, netVars, lastUsed, sc, late, got, reaping, closed>>

Leave(c, label) == /\ ioMu' = [ioMu EXCEPT ![sc[c]] = "free"]
                   /\ Goto(c, label)

Write(c) ==
    /\ pc[c] = "write"
    /\ link[sc[c]] \in {"up", "lost"}
    /\ asked' = IF link[sc[c]] = "up" THEN [asked EXCEPT ![sc[c]] = Append(@, c)] ELSE asked
    /\ Goto(c, "check")
    /\ UNCHANGED <<clock, conns, dialed, link, inbox, ioMu, lastUsed, sc, late, got, reaping, closed>>

(* removeSender: whatever connection now stands under the sender's key.    *)
RemoveUnkeyed(c) ==
    LET k == conns[Probe]
    IN  /\ link' = IF k = None THEN link ELSE [link EXCEPT ![k] = "closed"]
        /\ conns' = [conns EXCEPT ![Probe] = None]

RemoveSender(c) ==
    LET k == conns[SenderOf[c]]
    IN  /\ link' = IF k = None THEN link ELSE [link EXCEPT ![k] = "closed"]
        /\ conns' = [conns EXCEPT ![SenderOf[c]] = None]

WriteFails(c) ==
    /\ pc[c] = "write"
    /\ link[sc[c]] # "up"
    /\ RemoveSender(c)
    /\ Leave(c, "failed")
    /\ UNCHANGED <<clock, dialed, asked, inbox, lastUsed, sc, late, got, reaping, closed>>

(* Before each read the context is looked at, and a request whose time is  *)
(* up leaves, its answer still to come.                                    *)
Check(c) ==
    /\ pc[c] = "check"
    /\ IF c \in late THEN Leave(c, "failed") ELSE Goto(c, "read") /\ UNCHANGED ioMu
    /\ UNCHANGED <<clock, conns, netVars, lastUsed, sc, late, got, reaping, closed>>

(* The next frame: progress, the answer, or an error of the agent.         *)
Read(c) ==
    /\ pc[c] = "read"
    /\ link[sc[c]] # "closed"
    /\ inbox[sc[c]] # <<>>
    /\ inbox' = [inbox EXCEPT ![sc[c]] = Tail(@)]
    /\ LET frame == Head(inbox[sc[c]])
       IN  \/ frame.type = "chunk" /\ Goto(c, "check") /\ UNCHANGED <<ioMu, got>>
           \/ frame.type = "done"  /\ Leave(c, "answered") /\ got' = [got EXCEPT ![c] = {frame.of}]
           \/ frame.type = "error" /\ Leave(c, "failed") /\ UNCHANGED got
    /\ UNCHANGED <<clock, conns, dialed, link, asked, lastUsed, sc, late, reaping, closed>>

(* A read ends without a frame when the connection is gone or the caller's *)
(* deadline has passed.                                                    *)
ReadCanFailUnbounded(c) ==
    link[sc[c]] = "closed" \/ (link[sc[c]] = "lost" /\ inbox[sc[c]] = <<>>)

ReadCanFail(c) == \/ link[sc[c]] = "closed"
                  \/ link[sc[c]] = "lost" /\ inbox[sc[c]] = <<>>
                  \/ c \in late

ReadFails(c) ==
    /\ pc[c] = "read"
    /\ ReadCanFail(c)
    /\ RemoveSender(c)
    /\ Leave(c, "failed")
    /\ UNCHANGED <<clock, dialed, asked, inbox, lastUsed, sc, late, got, reaping, closed>>
-----------------------------------------------------------------------------
(* reapIdle: under the map's mutex, take out what has been idle too long   *)
(* and is not in use; close it afterwards.                                 *)
IdleInUse(s) == /\ s # Probe /\ conns[s] # None
                /\ clock - lastUsed[conns[s]] >= IdleTTL

Idle(s) == /\ s # Probe /\ conns[s] # None
           /\ clock - lastUsed[conns[s]] >= IdleTTL
           /\ ioMu[conns[s]] = "free"

Reap ==
    /\ reaping = {}
    /\ LET idle == {s \in Senders : Idle(s)}
       IN  /\ idle # {}
           /\ reaping' = {conns[s] : s \in idle}
           /\ conns' = [s \in Senders |-> IF s \in idle THEN None ELSE conns[s]]
           /\ ioMu' = [k \in Connections |-> IF k \in reaping' THEN "reaper" ELSE ioMu[k]]
    /\ UNCHANGED <<clock, netVars, lastUsed, pc, sc, late, got, closed>>

ReapClose(k) ==
    /\ k \in reaping
    /\ link' = [link EXCEPT ![k] = "closed"]
    /\ ioMu' = [ioMu EXCEPT ![k] = "free"]
    /\ reaping' = reaping \ {k}
    /\ UNCHANGED <<clock, conns, dialed, asked, inbox, lastUsed, pc, sc, late, got, closed>>

(* Close, when main returns: every cached connection.                      *)
Close ==
    /\ ~closed /\ closed' = TRUE
    /\ link' = [k \in Connections |-> IF k \in Range(conns) THEN "closed" ELSE link[k]]
    /\ conns' = [s \in Senders |-> None]
    /\ UNCHANGED <<clock, dialed, asked, inbox, ioMu, lastUsed, pc, sc, late, got, reaping>>
-----------------------------------------------------------------------------
(* The agent sends progress once at most (a bound), then an answer.        *)
Progress(k) ==
    /\ link[k] = "up" /\ asked[k] # <<>> /\ inbox[k] = <<>>
    /\ inbox' = [inbox EXCEPT ![k] = <<[type |-> "chunk", of |-> Head(asked[k])]>>]
    /\ UNCHANGED <<clock, conns, dialed, link, asked, ioMu, lastUsed, pc, sc, late, got,
                   reaping, closed>>

Answer(k) ==
    /\ link[k] = "up" /\ asked[k] # <<>>
    /\ \E type \in {"done", "error"} :
          inbox' = [inbox EXCEPT ![k] = Append(@, [type |-> type, of |-> Head(asked[k])])]
    /\ asked' = [asked EXCEPT ![k] = Tail(@)]
    /\ UNCHANGED <<clock, conns, dialed, link, ioMu, lastUsed, pc, sc, late, got, reaping, closed>>

Lose(k) ==
    /\ link[k] = "up"
    /\ link' = [link EXCEPT ![k] = "lost"]
    /\ UNCHANGED <<clock, conns, dialed, asked, inbox, ioMu, lastUsed, pc, sc, late, got,
                   reaping, closed>>

Request(c) == \/ Lookup(c) \/ Dial(c) \/ DialFails(c) \/ Store(c) \/ Lock(c)
              \/ Write(c) \/ WriteFails(c) \/ Check(c) \/ Read(c) \/ ReadFails(c)

Next == \/ Tick \/ Reap \/ Close
        \/ \E c \in Callers : Request(c) \/ Deadline(c)
        \/ \E k \in Connections : ReapClose(k) \/ Progress(k) \/ Answer(k) \/ Lose(k)

(* Goroutines that can run do, and deadlines pass; nothing is assumed of   *)
(* the agent or of the network.                                            *)
Fairness == /\ \A c \in Callers : WF_vars(Request(c)) /\ WF_vars(Deadline(c))
            /\ \A k \in Connections : WF_vars(ReapClose(k))

Spec == Init /\ [][Next]_vars

FairSpec == Spec /\ Fairness
-----------------------------------------------------------------------------
Frames == [type : {"chunk", "done", "error"}, of : Callers]

TypeOK ==
    /\ clock \in 0 .. MaxTime
    /\ conns \in [Senders -> Connections \cup {None}]
    /\ dialed \in Connections
    /\ link \in [Connections -> {"none", "up", "lost", "closed"}]
    /\ ioMu \in [Connections -> {"free", "reaper"} \cup Callers]
    /\ lastUsed \in [Connections -> 0 .. clock]
    /\ asked \in [Connections -> Seq(Callers)]
    /\ inbox \in [Connections -> Seq(Frames)]
    /\ pc \in [Callers -> {"start", "dial", "store", "lock", "write", "check", "read",
                          "answered", "failed"}]
    /\ sc \in [Callers -> Connections \cup {None}]
    /\ late \subseteq Callers
    /\ got \in [Callers -> SUBSET Callers]
    /\ reaping \subseteq Connections
    /\ closed \in BOOLEAN

(* No socket is lost track of: one that is not closed is cached, about to  *)
(* be, or in the reaper's hands, whoever raced to dial and store it.       *)
NoOrphan ==
    \A k \in Connections : link[k] \in {"up", "lost"} =>
        \/ k \in Range(conns)
        \/ k \in reaping
        \/ \E c \in Callers : pc[c] = "store" /\ sc[c] = k

(* Senders never share a conversation, and an answer goes to a request of  *)
(* the same sender other than its own only after one ran out of time and   *)
(* left its answer unread on the connection.                               *)
Abandoned(s) == \E c \in late : SenderOf[c] = s /\ pc[c] = "failed"

OwnUnlessAbandoned ==
    \A c, d \in Callers :
        d \in got[c] => SenderOf[d] = SenderOf[c] /\ (d = c \/ Abandoned(SenderOf[c]))

(* The reaper never takes a connection with a request on it.               *)
ReaperSparesRequests ==
    \A c \in Callers : pc[c] \in {"write", "check", "read"} => sc[c] \notin reaping

(* A request that fails drops its own connection or the one that has       *)
(* replaced it meanwhile, healthy or not: never another sender's.          *)
DropsOwnOrSuccessor ==
    [][\A c \in Callers : pc[c] \in {"write", "read"} /\ pc'[c] = "failed" =>
          \A k \in Connections : link'[k] # link[k] =>
              k = sc[c] \/ (link[sc[c]] = "closed" /\ k = conns[SenderOf[c]])]_vars

(* With a deadline on every context of a sender its requests all end,      *)
(* whatever the agent, the network and the other senders' requests do.     *)
SendersReturn ==
    \A c \in Callers :
        (\A d \in Callers : SenderOf[d] = SenderOf[c] => d \in Deadlined) =>
            <>(pc[c] \in {"answered", "failed"})
=============================================================================
