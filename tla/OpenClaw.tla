------------------------------ MODULE OpenClaw ------------------------------
(***************************************************************************)
(* Requests on the supervised connection: sendRequest, waitForSession,     *)
(* sendOnSession and the routing in readLoop.  Each caller sends one       *)
(* request; it binds to a session, and when that session turns out to be   *)
(* gone it waits for another one and tries once more.                      *)
(***************************************************************************)
EXTENDS Supervisor, FiniteSets, Sequences

CONSTANTS Callers,      \* the handlers that send a request
          Deadlined     \* those whose context has a deadline

ASSUME CallersAssumption == /\ Deadlined \subseteq Callers
                            /\ {"empty", "closed"} \cap Callers = {}

VARIABLES pc,       \* caller -> where it is
          bound,    \* caller -> the session of its attempt, None before the first
          tries,    \* caller -> attempts made
          id,       \* caller -> the request id of its attempt
          reply,    \* caller -> its response channel: "empty", "closed" or the
                    \* caller whose request the frame in it answers
          sentOn,   \* caller -> the sessions its request was written on, in order
          seq,      \* session -> the last request id
          pending,  \* session -> the callers registered under an id
          wire      \* session -> requests the gateway has not answered (external)

callVars == <<pc, bound, tries, id, reply, sentOn, seq, pending, wire>>

vars == <<supVars, callVars>>

Init == /\ SupInit
        /\ pc = [c \in Callers |-> "start"]
        /\ bound = [c \in Callers |-> None]
        /\ tries = [c \in Callers |-> 0]
        /\ id = [c \in Callers |-> 0]
        /\ reply = [c \in Callers |-> "empty"]
        /\ sentOn = [c \in Callers |-> <<>>]
        /\ seq = [s \in Sessions |-> 1]        \* connect took the first id
        /\ pending = [s \in Sessions |-> {}]
        /\ wire = [s \in Sessions |-> {}]

Goto(c, label) == pc' = [pc EXCEPT ![c] = label]

Bind(c) == /\ bound' = [bound EXCEPT ![c] = cur]
           /\ tries' = [tries EXCEPT ![c] = @ + 1]
           /\ Goto(c, "register")

Mine(c) == [id |-> id[c], caller |-> c]

Unregister(c) ==
    pending' = [pending EXCEPT ![bound[c]] = {p \in @ : p.id # id[c]}]
-----------------------------------------------------------------------------
(* sendRequest reads cur; without one it waits.  Requests begin once main  *)
(* is past Connect.                                                        *)
Begin(c) == /\ pc[c] = "start"
            /\ main \notin {"connecting", "fatal"}
            /\ IF cur = None THEN Goto(c, "wait") /\ UNCHANGED <<bound, tries>> ELSE Bind(c)
            /\ UNCHANGED <<supVars, id, reply, sentOn, seq, pending, wire>>

(* waitForSession: a session other than the one the first attempt used.    *)
FreshOrNot(c) == cur # None

Fresh(c) == cur # None /\ cur # bound[c]

SessionFound(c) == /\ pc[c] = "wait"
                   /\ Fresh(c)
                   /\ Bind(c)
                   /\ UNCHANGED <<supVars, id, reply, sentOn, seq, pending, wire>>

WaitRefused(c) == /\ pc[c] = "wait"
                  /\ closing
                  /\ Goto(c, "failed")
                  /\ UNCHANGED <<supVars, bound, tries, id, reply, sentOn, seq, pending, wire>>

(* sendOnSession: take the next id under the write lock, then register a   *)
(* response channel under it, whatever the state of the session.           *)
LostUpdate(s) == seq' \in {seq, [seq EXCEPT ![s] = @ + 1]}

NextId(s) == seq' = [seq EXCEPT ![s] = @ + 1]

Register(c) ==
    /\ pc[c] = "register"
    /\ LET s == bound[c]
           i == seq[s] + 1
       IN  /\ NextId(s)
           /\ id' = [id EXCEPT ![c] = i]
           /\ pending' = [pending EXCEPT ![s] =
                 {p \in @ : p.id # i} \cup {[id |-> i, caller |-> c]}]
    /\ reply' = [reply EXCEPT ![c] = "empty"]
    /\ Goto(c, "write")
    /\ UNCHANGED <<supVars, bound, tries, sentOn, wire>>

(* The write succeeds while the socket takes it, even when the peer will   *)
(* never read it.                                                          *)
Write(c) ==
    /\ pc[c] = "write"
    /\ LET s == bound[c]
       IN  /\ link[s] \in {"up", "lost"}
           /\ wire' = IF link[s] = "up" THEN [wire EXCEPT ![s] = @ \cup {Mine(c)}] ELSE wire
           /\ sentOn' = [sentOn EXCEPT ![c] = Append(@, s)]
    /\ Goto(c, "await")
    /\ UNCHANGED <<supVars, bound, tries, id, reply, seq, pending>>

(* errSessionGone: the first attempt is followed by a second on another    *)
(* session, the second fails the call.                                     *)
SessionGone(c) == Goto(c, IF tries[c] = 1 THEN "wait" ELSE "failed")

WriteFails(c) == /\ pc[c] = "write"
                 /\ link[bound[c]] # "up"
                 /\ Unregister(c)
                 /\ SessionGone(c)
                 /\ UNCHANGED <<supVars, bound, tries, id, reply, sentOn, seq, wire>>

Answered(c) == /\ pc[c] = "await"
               /\ reply[c] \in Callers
               /\ Goto(c, "answered")
               /\ UNCHANGED <<supVars, bound, tries, id, reply, sentOn, seq, pending, wire>>

(* The response channel was closed, or the session is over although nobody *)
(* closed it: the request was registered after the read loop's cleanup.    *)
CutOffByChannel(c) == reply[c] = "closed"

CutOff(c) == reply[c] = "closed" \/ Over(bound[c])

Interrupted(c) == /\ pc[c] = "await"
                  /\ CutOff(c)
                  /\ SessionGone(c)
                  /\ UNCHANGED <<supVars, bound, tries, id, reply, sentOn, seq, pending, wire>>

(* The caller's context ends, at its deadline or with the daemon's.        *)
ExpireUntidy(c) ==
    /\ pc[c] \in {"wait", "await"}
    /\ ctxDone \/ c \in Deadlined
    /\ Goto(c, "failed")
    /\ UNCHANGED <<supVars, bound, tries, id, reply, sentOn, seq, pending, wire>>

Expire(c) ==
    /\ pc[c] \in {"wait", "await"}
    /\ ctxDone \/ c \in Deadlined
    /\ IF pc[c] = "await" THEN Unregister(c) ELSE UNCHANGED pending
    /\ Goto(c, "failed")
    /\ UNCHANGED <<supVars, bound, tries, id, reply, sentOn, seq, wire>>
-----------------------------------------------------------------------------
(* The gateway answers a request, in any order, or never (external); the   *)
(* read loop hands the frame to whoever is registered under its id.        *)
Respond(s) ==
    /\ link[s] = "up" /\ reader[s] = "reading"
    /\ \E req \in wire[s] :
          /\ wire' = [wire EXCEPT ![s] = @ \ {req}]
          /\ LET found == {p \in pending[s] : p.id = req.id}
             IN  /\ reply' = [c \in Callers |->
                        IF \E p \in found : p.caller = c THEN req.caller ELSE reply[c]]
                 /\ pending' = [pending EXCEPT ![s] = @ \ found]
    /\ UNCHANGED <<supVars, pc, bound, tries, id, sentOn, seq>>

(* readLoop's cleanup closes the channels of the callers still pending.    *)
Drain(s) ==
    /\ ReadFails(s)
    /\ reply' = [c \in Callers |->
           IF \E p \in pending[s] : p.caller = c THEN "closed" ELSE reply[c]]
    /\ pending' = [pending EXCEPT ![s] = {}]
    /\ UNCHANGED <<pc, bound, tries, id, sentOn, seq, wire>>

Asking(c) == \/ Begin(c) \/ SessionFound(c) \/ WaitRefused(c) \/ Register(c) \/ Write(c)
             \/ WriteFails(c) \/ Answered(c) \/ Interrupted(c)

Closing == Signal \/ CloseBegin \/ CloseEnd

(* The process is over with main; nothing has to happen any more.          *)
Ended == main \in {"closed", "fatal"} /\ UNCHANGED vars

Next == \/ (Supervising \/ Ripen \/ Closing) /\ UNCHANGED callVars
        \/ \E s \in Sessions : (Lose(s) \/ CloseDone(s)) /\ UNCHANGED callVars
        \/ \E s \in Sessions : Respond(s) \/ Drain(s)
        \/ \E c \in Callers : Asking(c) \/ Expire(c)
        \/ Ended

(* Goroutines that can run do; a dial ends, if only by its timeouts; a     *)
(* read on a dead connection ends with the pong wait; main closes what it  *)
(* has begun to.  A select that finds its stop case ready takes it, since  *)
(* its timer has yet to run: strong fairness on Stop.  Nothing is assumed  *)
(* of the gateway, of signals or of deadlines.                             *)
Fairness ==
    /\ WF_vars(Supervising /\ UNCHANGED callVars)
    /\ SF_vars(Stop /\ UNCHANGED callVars)
    /\ WF_vars((CloseBegin \/ CloseEnd) /\ UNCHANGED callVars)
    /\ \A s \in Sessions : /\ WF_vars(Drain(s))
                           /\ WF_vars(CloseDone(s) /\ UNCHANGED callVars)
    /\ \A c \in Callers : WF_vars(Asking(c))

Spec == Init /\ [][Next]_vars

FairSpec == Spec /\ Fairness
-----------------------------------------------------------------------------
Places == {"start", "wait", "register", "write", "await", "answered", "failed"}

Requests == [id : Nat, caller : Callers]

TypeOK ==
    /\ SupTypeOK
    /\ pc \in [Callers -> Places]
    /\ bound \in [Callers -> Sessions \cup {None}]
    /\ tries \in [Callers -> 0 .. 2]
    /\ id \in [Callers -> Nat]
    /\ reply \in [Callers -> {"empty", "closed"} \cup Callers]
    /\ sentOn \in [Callers -> Seq(Sessions)]
    /\ seq \in [Sessions -> Nat]
    /\ pending \in [Sessions -> SUBSET Requests]
    /\ wire \in [Sessions -> SUBSET Requests]

(* Reconnecting never tangles two generations: the read loop of a session  *)
(* has returned, its callers released, before the next one is started.     *)
OneGeneration ==
    \A s, t \in Sessions :
        reader[s] \in {"reading", "drained"} /\ reader[t] \in {"reading", "drained"} => s = t

(* Whatever the order of answers, drops and retries, a caller is only ever *)
(* handed the response to its own request.                                 *)
EachToItsOwn == \A c \in Callers : reply[c] \in Callers => reply[c] = c

(* A request is written at most twice, and the second time on a younger    *)
(* session: the gateway never reads it twice on one connection.            *)
RetryIsFresh ==
    \A c \in Callers : /\ Len(sentOn[c]) <= 2
                       /\ Len(sentOn[c]) = 2 => sentOn[c][1] < sentOn[c][2]

(* The table of a session that still reads holds nobody who has gone: an   *)
(* entry belongs to a caller that is on that session with that id.         *)
PendingAreWaiting ==
    \A s \in Sessions : reader[s] = "reading" =>
        \A p \in pending[s] : /\ pc[p.caller] \in {"write", "await"}
                              /\ bound[p.caller] = s
                              /\ id[p.caller] = p.id

(* Once Close has returned no connection is up, none published, and no     *)
(* supervisor left to make one.                                            *)
CloseLeavesNothing ==
    main = "closed" => /\ sup = "exited" /\ cur = None
                       /\ \A s \in Sessions : link[s] \in {"none", "closed", "lost"}

(* A gateway that drops every connection at once, or refuses them, is met  *)
(* with ever longer waits, counted across sessions and failed dials alike: *)
(* each wait is twice the one before it, up to the cap, and only a         *)
(* connection that stayed up starts over with the first one.               *)
WaitsGrow ==
    sup = "pause" =>
        backoff = IF waited = 0 THEN InitialBackoff
                  ELSE IF 2 * waited > MaxBackoff THEN MaxBackoff ELSE 2 * waited

(* A caller that waits on a connection that is gone is not left waiting:   *)
(* the read loop notices, and tells even those that register too late for  *)
(* its cleanup.                                                            *)
DroppedSessionReleases ==
    \A c \in Callers : pc[c] = "await" /\ link[bound[c]] # "up" ~> pc[c] # "await"

(* Shutdown ends: Close returns whatever the supervisor was in the middle  *)
(* of.                                                                     *)
CloseReturns == main = "closing" ~> main = "closed"

(* A dropped connection unblocks the callers in flight: each comes to an   *)
(* end, or is at least on another session.                                 *)
DropUnblocksCallers ==
    \A c \in Callers :
        pc[c] = "await" /\ Over(bound[c]) ~> pc[c] \in {"register", "write", "answered", "failed"}
=============================================================================
