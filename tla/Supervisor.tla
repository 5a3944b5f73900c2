----------------------------- MODULE Supervisor -----------------------------
(***************************************************************************)
(* The life of the gateway connection in internal/gateway/openclaw.go:     *)
(* Connect, the supervisor that reconnects with backoff, each session's    *)
(* read loop, and Close.  Sessions are numbered in the order they are      *)
(* dialed.  connectOnce is run by Connect first and by the supervisor      *)
(* afterwards, never by both, so one program counter serves the two.       *)
(***************************************************************************)
EXTENDS Naturals

CONSTANTS MaxSessions,      \* bound: handshakes the gateway ever completes
          InitialBackoff,   \* first wait after a rapid drop
          MaxBackoff        \* cap the wait doubles up to

ASSUME SupervisorAssumption == /\ MaxSessions \in Nat \ {0}
                               /\ InitialBackoff \in Nat \ {0}
                               /\ MaxBackoff \in Nat
                               /\ InitialBackoff <= MaxBackoff

VARIABLES main,     \* where main is with the gateway
          ctxDone,  \* the daemon's context is cancelled
          closing,  \* Close has closed the `closing` channel
          closee,   \* the session Close took and waits for, None if it took none
          sup,      \* what connectOnce and supervise do next
          watched,  \* the session supervise watches
          stable,   \* has that session been up for the stable threshold?
          backoff,  \* the supervisor's next wait
          waited,   \* history: the wait before it, 0 when none since a session was stable
          dialed,   \* sessions dialed so far
          link,     \* session -> state of its connection
          reader,   \* session -> state of its read loop
          cur       \* the published session, None when there is none

supVars == <<main, ctxDone, closing, closee, sup, watched, stable, backoff, waited,
             dialed, link, reader, cur>>

Sessions == 1 .. MaxSessions

None == 0

SupInit == /\ main = "connecting"
           /\ ctxDone = FALSE /\ closing = FALSE /\ closee = None
           /\ sup = "clear" /\ watched = None /\ stable = FALSE
           /\ backoff = InitialBackoff /\ waited = 0
           /\ dialed = 0
           /\ link = [s \in Sessions |-> "none"]
           /\ reader = [s \in Sessions |-> "none"]
           /\ cur = None

(* conn.Close, harmless on a connection already closed.                    *)
Hangup(s) ==
    link' = IF s = None THEN link ELSE [link EXCEPT ![s] = "closed"]

Stopping == ctxDone \/ closing
-----------------------------------------------------------------------------
(* connectOnce: clear cur, dial and shake hands, publish.                  *)
ClearCur == /\ sup = "clear"
            /\ cur' = None
            /\ sup' = "dial"
            /\ UNCHANGED <<main, ctxDone, closing, closee, watched, stable, backoff, waited,
                           dialed, link, reader>>

Handshake == /\ sup = "dial"
             /\ dialed < MaxSessions
             /\ dialed' = dialed + 1
             /\ link' = [link EXCEPT ![dialed'] = "up"]
             /\ sup' = "install"
             /\ UNCHANGED <<main, ctxDone, closing, closee, watched, stable, backoff, waited,
                            reader, cur>>

(* A failed attempt ends the program in Connect; the supervisor waits and  *)
(* tries again, or gives up when the gateway rejected the handshake.       *)
Failed(next) == IF main = "connecting"
                THEN main' = "fatal" /\ sup' = "exited"
                ELSE main' = main /\ sup' = next

DialFails == /\ sup = "dial"
             /\ Failed("pause")
             /\ UNCHANGED <<ctxDone, closing, closee, watched, stable, backoff, waited, dialed,
                            link, reader, cur>>

Rejected == /\ sup = "dial"
            /\ Failed("exit")
            /\ UNCHANGED <<ctxDone, closing, closee, watched, stable, backoff, waited, dialed,
                           link, reader, cur>>

(* Under the mutex: publish the session and start its loops, unless Close  *)
(* has been called meanwhile.                                              *)
Install == /\ sup = "install"
           /\ ~closing
           /\ cur' = dialed
           /\ reader' = [reader EXCEPT ![dialed] = "reading"]
           /\ main' = IF main = "connecting" THEN "running" ELSE main
           /\ sup' = "top"
           /\ UNCHANGED <<ctxDone, closing, closee, watched, stable, backoff, waited, dialed, link>>

InstallRefused == /\ sup = "install"
                  /\ closing
                  /\ Hangup(dialed)
                  /\ Failed("pause")
                  /\ UNCHANGED <<ctxDone, closing, closee, watched, stable, backoff, waited,
                                 dialed, reader, cur>>
-----------------------------------------------------------------------------
(* supervise: watch the published session until it is over.                *)
Top == /\ sup = "top"
       /\ IF cur = None
          THEN sup' = "exit" /\ UNCHANGED <<watched, stable>>
          ELSE sup' = "watch" /\ watched' = cur /\ stable' = FALSE
       /\ UNCHANGED <<main, ctxDone, closing, closee, backoff, waited, dialed, link, reader, cur>>

Ripen == /\ sup \in {"watch", "dropped"}
         /\ ~stable
         /\ stable' = TRUE
         /\ waited' = 0
         /\ UNCHANGED <<main, ctxDone, closing, closee, sup, watched, backoff, dialed,
                        link, reader, cur>>

(* A session's done channel is closed.                                     *)
OverWhenDrained(s) == reader[s] \in {"drained", "exited"}

Over(s) == reader[s] = "exited"

SessionLost == /\ sup = "watch"
               /\ Over(watched)
               /\ sup' = "dropped"
               /\ UNCHANGED <<main, ctxDone, closing, closee, watched, stable, backoff, waited,
                              dialed, link, reader, cur>>

(* A connection that was healthy long enough is replaced at once, another  *)
(* one after a wait.                                                       *)
DroppedResets == /\ sup = "dropped"
                 /\ ~Stopping
                 /\ sup' = IF stable THEN "clear" ELSE "pause"
                 /\ backoff' = InitialBackoff
                 /\ UNCHANGED <<main, ctxDone, closing, closee, watched, stable, waited, dialed,
                                link, reader, cur>>

Dropped == /\ sup = "dropped"
           /\ ~Stopping
           /\ IF stable THEN sup' = "clear" /\ backoff' = InitialBackoff
                        ELSE sup' = "pause" /\ backoff' = backoff
           /\ UNCHANGED <<main, ctxDone, closing, closee, watched, stable, waited, dialed,
                          link, reader, cur>>

DoubledUncapped == 2 * backoff

Doubled == IF 2 * backoff > MaxBackoff THEN MaxBackoff ELSE 2 * backoff

Pause == /\ sup = "pause"
         /\ backoff' = Doubled
         /\ waited' = backoff
         /\ sup' = "clear"
         /\ UNCHANGED <<main, ctxDone, closing, closee, watched, stable, dialed, link,
                        reader, cur>>

(* Every wait also ends when the context is cancelled or Close is called.  *)
StopOnlyWatching == /\ sup \in {"watch", "dropped"}
                    /\ Stopping
                    /\ sup' = "exit"
                    /\ UNCHANGED <<main, ctxDone, closing, closee, watched, stable, backoff, waited,
                                   dialed, link, reader, cur>>

Stop == /\ sup \in {"watch", "dropped", "pause"}
        /\ Stopping
        /\ sup' = "exit"
        /\ UNCHANGED <<main, ctxDone, closing, closee, watched, stable, backoff, waited, dialed,
                       link, reader, cur>>

(* The deferred teardown: hang up whatever is published, then announce     *)
(* that the supervisor is done.                                            *)
Exit == /\ sup = "exit"
        /\ cur' = None
        /\ Hangup(cur)
        /\ sup' = "exited"
        /\ UNCHANGED <<main, ctxDone, closing, closee, watched, stable, backoff, waited, dialed,
                       reader>>
-----------------------------------------------------------------------------
(* The peer goes away, or just goes silent (external).                     *)
Lose(s) == /\ link[s] = "up"
           /\ link' = [link EXCEPT ![s] = "lost"]
           /\ UNCHANGED <<main, ctxDone, closing, closee, sup, watched, stable, backoff, waited,
                          dialed, reader, cur>>

(* readLoop: a read fails on a dead connection, after the pong wait at     *)
(* most.  It fails the pending callers (see OpenClaw), then closes done.   *)
ReadFails(s) == /\ reader[s] = "reading"
                /\ link[s] # "up"
                /\ reader' = [reader EXCEPT ![s] = "drained"]
                /\ UNCHANGED <<main, ctxDone, closing, closee, sup, watched, stable, backoff, waited,
                               dialed, link, cur>>

CloseDone(s) == /\ reader[s] = "drained"
                /\ reader' = [reader EXCEPT ![s] = "exited"]
                /\ UNCHANGED <<main, ctxDone, closing, closee, sup, watched, stable, backoff, waited,
                               dialed, link, cur>>

(* main: a signal cancels the context, then the deferred Close runs.       *)
Signal == /\ main = "running"
          /\ ctxDone' = TRUE
          /\ main' = "stopping"
          /\ UNCHANGED <<closing, closee, sup, watched, stable, backoff, waited, dialed, link,
                         reader, cur>>

CloseBegin == /\ main = "stopping"
              /\ closing' = TRUE
              /\ closee' = cur
              /\ cur' = None
              /\ Hangup(cur)
              /\ main' = "closing"
              /\ UNCHANGED <<ctxDone, sup, watched, stable, backoff, waited, dialed, reader>>

CloseEndEarly == /\ main = "closing"
                 /\ closee # None => Over(closee)
                 /\ main' = "closed"
                 /\ UNCHANGED <<ctxDone, closing, closee, sup, watched, stable, backoff, waited,
                                dialed, link, reader, cur>>

CloseEnd == /\ main = "closing"
            /\ closee # None => Over(closee)
            /\ sup = "exited"
            /\ main' = "closed"
            /\ UNCHANGED <<ctxDone, closing, closee, sup, watched, stable, backoff, waited, dialed,
                           link, reader, cur>>

Supervising == \/ ClearCur \/ Handshake \/ DialFails \/ Rejected
               \/ Install \/ InstallRefused
               \/ Top \/ SessionLost \/ Dropped \/ Pause \/ Stop \/ Exit

Stages == {"clear", "dial", "install", "top", "watch", "dropped", "pause", "exit", "exited"}

SupTypeOK ==
    /\ main \in {"connecting", "fatal", "running", "stopping", "closing", "closed"}
    /\ ctxDone \in BOOLEAN /\ closing \in BOOLEAN /\ stable \in BOOLEAN
    /\ sup \in Stages
    /\ closee \in Sessions \cup {None} /\ watched \in Sessions \cup {None}
    /\ cur \in Sessions \cup {None}
    /\ backoff \in InitialBackoff .. MaxBackoff
    /\ waited \in 0 .. MaxBackoff
    /\ dialed \in 0 .. MaxSessions
    /\ link \in [Sessions -> {"none", "up", "lost", "closed"}]
    /\ reader \in [Sessions -> {"none", "reading", "drained", "exited"}]
=============================================================================
