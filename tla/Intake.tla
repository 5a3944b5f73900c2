------------------------------- MODULE Intake -------------------------------
(***************************************************************************)
(* How messages come in while the process lives and how the channels are   *)
(* closed when it stops: the poller, the webhook server whose requests are *)
(* answered once they have emitted, and Merge.Run, which closes one        *)
(* channel when the sources have RETURNED and the other when it is done.   *)
(*                                                                         *)
(* What travels is copies of messages: sources hand a message over more    *)
(* than once, and the merger drops a copy whose id it remembers.  Here an  *)
(* id may be forgotten at any time; module Delivery has the clock that     *)
(* decides when, the poller's cursor and crashes, and the poller is any    *)
(* goroutine that emits and returns when the context is cancelled.         *)
(***************************************************************************)
EXTENDS Lifecycle

CONSTANTS Msgs,         \* copies of messages
          Ids,          \* message ids
          IdOf,         \* copy -> the id of its message
          Expiring,     \* bound: ids that may be forgotten
          Sources,      \* the sources main configures
          ChCap,        \* capacity of the sources' channel
          EvCap         \* capacity of the events channel

ASSUME IntakeAssumption == /\ Sources \subseteq {"poller", "webhook"}
                           /\ {"nothing", "over"} \cap Msgs = {}
                           /\ IdOf \in [Msgs -> Ids] /\ Expiring \subseteq Ids
                           /\ ChCap \in Nat \ {0} /\ EvCap \in Nat \ {0}

VARIABLES poller,       \* what the poller is doing: see IntakeTypeOK
          server,       \* "off", "serving", "failed" (Serve gave up) or "shut"
          request,      \* copy -> "open" while the webhook request with it is
          ch, chOpen,   \* the sources' channel
          held,         \* what Merge.Run is doing
          seen,         \* ids LoadOrStore knows
          events, eventsOpen,
          acked         \* copies the poller has read, or a request put in ch

sourceVars == <<poller, server, request, acked>>
mergeVars == <<chOpen, held, seen, events, eventsOpen>>
intakeVars == <<sourceVars, ch, mergeVars>>

Emitting(id) == [emit |-> id]
Idle == [emit |-> "nothing"]
Over == [emit |-> "over"]

(* A source that is not configured is over from the start; so is a poller *)
(* that cannot make its directory, and a server that cannot listen.        *)
IntakeInit == /\ poller \in IF "poller" \in Sources THEN {Idle, Over} ELSE {Over}
              /\ server \in IF "webhook" \in Sources THEN {"serving", "off"} ELSE {"off"}
              /\ request = [m \in Msgs |-> "none"]
              /\ ch = <<>> /\ chOpen = TRUE
              /\ held = Idle
              /\ seen = {}
              /\ events = <<>> /\ eventsOpen = TRUE
              /\ acked = {}
-----------------------------------------------------------------------------
(* A copy is handed over once; one the merger has skipped may come again.  *)
Fresh(m) == m \notin acked /\ request[m] = "none"

(* A page holds m: the poller goes to `out <- event`, whatever the context *)
Poll(m) == /\ poller = Idle
           /\ Fresh(m)
           /\ poller' = Emitting(m)
           /\ acked' = acked \cup {m}
           /\ UNCHANGED <<server, request, ch, mergeVars>>

Put(m) == /\ chOpen
          /\ Len(ch) < ChCap
          /\ ch' = Append(ch, m)

PollEmit == /\ poller \notin {Idle, Over}
            /\ Put(poller.emit)
            /\ poller' = Idle
            /\ UNCHANGED <<server, request, acked, mergeVars>>

PollEnds == /\ poller = Idle
            /\ Cancelled
            /\ poller' = Over
            /\ UNCHANGED <<server, request, acked, ch, mergeVars>>

(* A request with m arrives: it is read, then emitMessage sends.  After    *)
(* Serve has failed, open connections still bring requests.                *)
Post(m) == /\ server \in {"serving", "failed"}
           /\ Fresh(m)
           /\ request' = [request EXCEPT ![m] = "open"]
           /\ UNCHANGED <<poller, server, acked, ch, mergeVars>>

(* The send is done, the handler returns, and only then the 200 goes out.  *)
Emit(m) == /\ request[m] = "open"
           /\ Put(m)
           /\ request' = [request EXCEPT ![m] = "none"]
           /\ acked' = acked \cup {m}
           /\ UNCHANGED <<poller, server, mergeVars>>

(* A send on a closed channel panics; net/http recovers, closes the        *)
(* connection and answers nothing.                                         *)
SendPanics(m) == /\ request[m] = "open"
                 /\ ~chOpen
                 /\ request' = [request EXCEPT ![m] = "none"]
                 /\ UNCHANGED <<poller, server, acked, ch, mergeVars>>

(* The listener breaks: Serve, and with it Run, returns an error.          *)
ServeFails == /\ server = "serving"
              /\ server' = "failed"
              /\ UNCHANGED <<poller, request, acked, ch, mergeVars>>

(* Shutdown makes Serve return at once, with requests still in flight.     *)
ServerShuts == /\ server \in {"serving", "failed"}
               /\ Cancelled
               /\ server' = "shut"
               /\ UNCHANGED <<poller, request, acked, ch, mergeVars>>
-----------------------------------------------------------------------------
CloseOnFirst == /\ chOpen
                /\ poller = Over \/ server # "serving"
                /\ chOpen' = FALSE
                /\ UNCHANGED <<sourceVars, ch, held, seen, events, eventsOpen>>

(* wg.Wait() is over: every source's Run has returned.                     *)
CloseCh == /\ chOpen
           /\ poller = Over /\ server # "serving"
           /\ chOpen' = FALSE
           /\ UNCHANGED <<sourceVars, ch, held, seen, events, eventsOpen>>

Receive == /\ held = Idle
           /\ ch # <<>>
           /\ ch' = Tail(ch)
           /\ UNCHANGED <<poller, server, request, chOpen, events, eventsOpen>>

Skip == /\ Receive
        /\ IdOf[Head(ch)] \in seen
        /\ acked' = acked \ {Head(ch)}
        /\ UNCHANGED <<held, seen>>

AcceptAny == /\ Receive
             /\ held' = Emitting(Head(ch))
             /\ seen' = seen \cup {IdOf[Head(ch)]}
             /\ UNCHANGED acked

Accept == /\ Receive
          /\ IdOf[Head(ch)] \notin seen
          /\ held' = Emitting(Head(ch))
          /\ seen' = seen \cup {IdOf[Head(ch)]}
          /\ UNCHANGED acked

(* sweep deletes an id.  One under way outlasts the context.               *)
Forget(i) == /\ i \in seen
             /\ seen' = seen \ {i}
             /\ UNCHANGED <<sourceVars, ch, chOpen, held, events, eventsOpen>>

Forward == /\ held \notin {Idle, Over}
           /\ Len(events) < EvCap
           /\ events' = Append(events, held.emit)
           /\ held' = Idle
           /\ UNCHANGED <<sourceVars, ch, chOpen, seen, eventsOpen>>

(* The range over ch ends when it is closed and drained.                   *)
CloseEvents == /\ held = Idle
               /\ ~chOpen /\ ch = <<>>
               /\ held' = Over
               /\ eventsOpen' = FALSE
               /\ UNCHANGED <<sourceVars, ch, chOpen, seen, events>>

IntakeNext == \/ \E m \in Msgs : Poll(m) \/ Post(m) \/ Emit(m) \/ SendPanics(m)
              \/ PollEmit \/ PollEnds \/ ServeFails \/ ServerShuts
              \/ CloseCh \/ Skip \/ Accept \/ Forward \/ CloseEvents
              \/ \E i \in Expiring : Forget(i)

Busy == {Idle, Over} \cup {Emitting(m) : m \in Msgs}

IntakeTypeOK ==
    /\ poller \in Busy /\ held \in Busy
    /\ server \in {"off", "serving", "failed", "shut"}
    /\ request \in [Msgs -> {"none", "open"}]
    /\ ch \in Seq(Msgs) /\ Len(ch) <= ChCap
    /\ events \in Seq(Msgs) /\ Len(events) <= EvCap
    /\ chOpen \in BOOLEAN /\ eventsOpen \in BOOLEAN
    /\ seen \subseteq Ids /\ acked \subseteq Msgs
=============================================================================
