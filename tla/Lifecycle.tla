----------------------------- MODULE Lifecycle -----------------------------
(***************************************************************************)
(* main from the first moment a signal is caught to its return: the        *)
(* Tailscale funnel is started with retries before anything is received,   *)
(* then main waits for a signal, cancels the context every other goroutine *)
(* works under, stops the funnel and closes the gateway.                   *)
(***************************************************************************)
EXTENDS Integers, Sequences, FiniteSets

CONSTANT Tailscale      \* delivery mode "tailscale": a funnel is needed

ASSUME LifecycleAssumption == Tailscale \in BOOLEAN

VARIABLES main,         \* where main is: see LifeTypeOK
          signal,       \* "none", "pending" in the stop channel, "taken"
          funnel        \* the funnel process: "none", "running", "gone"

lifeVars == <<main, signal, funnel>>

LifeInit == /\ main = IF Tailscale THEN "setup" ELSE "serving"
            /\ signal = "none"
            /\ funnel = "none"

(* ctx.Err() # nil: only main's last lines cancel.                         *)
Cancelled == signal = "taken"

(* The goroutines main starts after the funnel is up, until it returns.    *)
Up == main \in {"serving", "stopping", "closing"}

(* tailscale status answers and the funnel command starts.                 *)
FunnelStarts == /\ main = "setup"
                /\ funnel' = "running"
                /\ main' = "serving"
                /\ UNCHANGED signal

(* The node is not connected yet: StartFunnelWithRetry sleeps.             *)
FunnelNotReady == /\ main = "setup"
                  /\ main' = "sleeping"
                  /\ UNCHANGED <<signal, funnel>>

Retry == /\ main = "sleeping"
         /\ main' = IF Cancelled THEN "exited" ELSE "setup"
         /\ UNCHANGED <<signal, funnel>>

(* No permission, or the funnel command does not start: log.Fatalf.        *)
FunnelDenied == /\ main = "setup"
                /\ main' = "exited"
                /\ UNCHANGED <<signal, funnel>>

(* The funnel process ends, by itself or after the SIGTERM.                *)
FunnelEnds == /\ funnel = "running"
              /\ funnel' = "gone"
              /\ UNCHANGED <<main, signal>>

(* Signals are kept in the stop channel, of capacity 1, from Notify on.    *)
Interrupt == /\ signal = "none"
             /\ main # "exited"
             /\ signal' = "pending"
             /\ UNCHANGED <<main, funnel>>

ShutdownSparesFunnel == /\ main = "serving"
                        /\ signal = "pending"
                        /\ signal' = "taken"
                        /\ main' = "closing"
                        /\ UNCHANGED funnel

(* `<-stop`, cancel(), and the SIGTERM to the funnel.                      *)
Shutdown == /\ main = "serving"
            /\ signal = "pending"
            /\ signal' = "taken"
            /\ main' = IF funnel = "none" THEN "closing" ELSE "stopping"
            /\ UNCHANGED funnel

FunnelWaited == /\ main = "stopping"
                /\ funnel = "gone"
                /\ main' = "closing"
                /\ UNCHANGED <<signal, funnel>>

FunnelAwaited == /\ main = "stopping"
                 /\ funnel = "gone"
                 /\ main' = "closing"
                 /\ UNCHANGED <<signal, funnel>>

(* Five seconds have passed: SIGKILL.                                      *)
FunnelKilled == /\ main = "stopping"
                /\ funnel = "running"
                /\ funnel' = "gone"
                /\ main' = "closing"
                /\ UNCHANGED signal

(* The deferred gw.Close returns, and with main the process ends.          *)
Return == /\ main = "closing"
          /\ main' = "exited"
          /\ UNCHANGED <<signal, funnel>>

LifeNext == \/ FunnelStarts \/ FunnelNotReady \/ Retry \/ FunnelDenied
            \/ FunnelEnds \/ Interrupt \/ Shutdown
            \/ FunnelWaited \/ FunnelKilled \/ Return

LifeTypeOK ==
    /\ main \in {"setup", "sleeping", "serving", "stopping", "closing", "exited"}
    /\ signal \in {"none", "pending", "taken"}
    /\ funnel \in {"none", "running", "gone"}
=============================================================================
