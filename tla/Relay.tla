-------------------------------- MODULE Relay --------------------------------
(***************************************************************************)
(* How OpenClaw.SendAndReceive finds an agent's answer: the chat.send is   *)
(* acknowledged over the socket (OpenClaw.tla), the reply is not.  It is   *)
(* looked for, once per poll tick, in the transcript file of the request's *)
(* session, among the replies recorded since the acknowledgement, and the  *)
(* first one no other handler has claimed is taken.                        *)
(*                                                                         *)
(* The agent, its transcripts and its session store are external.  A reply *)
(* is named after the handler whose message it answers.                    *)
(***************************************************************************)
EXTENDS Naturals, Sequences, FiniteSets

CONSTANTS Handlers,     \* concurrent calls of SendAndReceive
          Keys,         \* session keys
          KeyOf,        \* the session key of each handler's request
          MaxClaimed,   \* size at which the claim table is emptied
          Deadlined,    \* handlers whose context has a deadline: plain messages
          Window,       \* the ten minutes of a context and of a poll, in poll ticks
          MaxTime,      \* bound of the model's clock, in poll ticks
          MaxDisturbed  \* bound: failed looks and compactions

ASSUME RelayAssumption == /\ KeyOf \in [Handlers -> Keys]
                          /\ MaxClaimed \in Nat \ {0}
                          /\ Deadlined \subseteq Handlers
                          /\ Window \in Nat
                          /\ MaxTime \in Nat
                          /\ MaxDisturbed \in Nat

VARIABLES clock,
          asked,        \* session -> messages the agent has yet to answer
          transcript,   \* session -> its recorded replies, in order
          known,        \* sessions that sessions.json lists
          repliedAt,    \* when the agent answered each handler's message
          pc,           \* handler -> where it is
          since,        \* handler -> when its request was acknowledged
          polled,       \* handlers that have had this tick's look
          snapshot,     \* handler -> replies it read and has yet to try
          claimed,      \* keys of the replies taken
          wipes,        \* times the claim table has been emptied
          got,          \* handler -> the reply it returned, a singleton or {}
          gotIn,        \* history: `wipes` when it claimed that reply
          disturbed,    \* failed looks and compactions so far
          ends,         \* handler -> when its context ends, Never without a deadline
          cancelled     \* the daemon's context has been cancelled

ctxVars == <<ends, cancelled>>

vars == <<clock, asked, transcript, known, repliedAt, pc, since, polled, snapshot,
          claimed, wipes, got, gotIn, disturbed, ctxVars>>

agentVars == <<asked, transcript, known, repliedAt>>

Never == 0

Init == /\ clock = 1
        /\ asked = [k \in Keys |-> <<>>]
        /\ transcript = [k \in Keys |-> <<>>]
        /\ known = {}
        /\ repliedAt = [h \in Handlers |-> Never]
        /\ pc = [h \in Handlers |-> "send"]
        /\ since = [h \in Handlers |-> Never]
        /\ polled = {}
        /\ snapshot = [h \in Handlers |-> {}]
        /\ claimed = {} /\ wipes = 0
        /\ got = [h \in Handlers |-> {}]
        /\ gotIn = [h \in Handlers |-> 0]
        /\ disturbed = 0
        /\ ends = [h \in Handlers |-> Never]
        /\ cancelled = FALSE

Goto(h, label) == pc' = [pc EXCEPT ![h] = label]

Disturb == disturbed < MaxDisturbed /\ disturbed' = disturbed + 1

(* The handler's context is over: at shutdown, or by its own deadline at   *)
(* some moment of that tick.                                               *)
CtxOver(h) == cancelled \/ (ends[h] # Never /\ clock >= ends[h])

(* A poll tick: every handler that waits has had its look at the last one, *)
(* and those whose context was over by then have left.                     *)
Tick == /\ clock < MaxTime
        /\ \A h \in Handlers : pc[h] = "poll" => h \in polled /\ ~CtxOver(h)
        /\ \A h \in Handlers : pc[h] # "claim"
        /\ clock' = clock + 1
        /\ polled' = {}
        /\ UNCHANGED <<agentVars, pc, since, snapshot, claimed, wipes, got, gotIn,
                       disturbed, ctxVars>>
-----------------------------------------------------------------------------
(* handleMessage gives the request of a plain message ten minutes, which   *)
(* run from before it is sent; it may have waited for a session meanwhile. *)
Deadline(h) == IF h \in Deadlined THEN {begun + Window : begun \in 1 .. clock} ELSE {Never}

(* chat.send reaches the gateway, which opens the session at once; a retry *)
(* of it is recognised by its idempotency key, so the agent sees it once.  *)
Send(h) == /\ pc[h] = "send"
           /\ asked' = [asked EXCEPT ![KeyOf[h]] = Append(@, h)]
           /\ known' = known \cup {KeyOf[h]}
           /\ \E end \in Deadline(h) : ends' = [ends EXCEPT ![h] = end]
           /\ Goto(h, "sent")
           /\ UNCHANGED <<clock, transcript, repliedAt, since, polled, snapshot, claimed,
                          wipes, got, gotIn, disturbed, cancelled>>

(* The agent works through a session's messages in order (external).       *)
Reply(k) == /\ asked[k] # <<>>
            /\ asked' = [asked EXCEPT ![k] = Tail(@)]
            /\ transcript' = [transcript EXCEPT ![k] = Append(@, Head(asked[k]))]
            /\ repliedAt' = [repliedAt EXCEPT ![Head(asked[k])] = clock]
            /\ UNCHANGED <<clock, known, pc, since, polled, snapshot, claimed, wipes, got,
                           gotIn, disturbed, ctxVars>>

(* The runtime compacts a transcript: its oldest line goes (external).     *)
Compact(k) == /\ transcript[k] # <<>>
              /\ transcript' = [transcript EXCEPT ![k] = Tail(@)]
              /\ Disturb
              /\ UNCHANGED <<clock, asked, known, repliedAt, pc, since, polled, snapshot,
                             claimed, wipes, got, gotIn, ctxVars>>

(* The acknowledgement comes, or sendRequest fails: at once, or after its  *)
(* second attempt on another connection.                                   *)
Ack(h) == /\ pc[h] = "sent"
          /\ since' = [since EXCEPT ![h] = clock]
          /\ Goto(h, "poll")
          /\ UNCHANGED <<clock, agentVars, polled, snapshot, claimed, wipes, got, gotIn,
                         disturbed, ctxVars>>

SendFails(h) == /\ pc[h] \in {"send", "sent"}
                /\ Goto(h, "failed")
                /\ UNCHANGED <<clock, agentVars, since, polled, snapshot, claimed, wipes,
                               got, gotIn, disturbed, ctxVars>>
-----------------------------------------------------------------------------
(* stableReplyKey: which reply it is, whatever line it stands on.          *)
LineKey(k, i) == <<k, i>>

ReplyKey(k, i) == <<k, transcript[k][i]>>

(* getSessionFile: the request's own session, by exact match, or none.     *)
AnySession(h) == known

SessionFile(h) == {KeyOf[h]} \cap known

(* getAssistantReplies: those recorded since the acknowledgement, each     *)
(* with its place in the list it returns.                                  *)
Recent(k, from) == {i \in 1 .. Len(transcript[k]) : repliedAt[transcript[k][i]] >= from}

Recorded(k, from) ==
    {[line |-> i, key |-> ReplyKey(k, i), text |-> transcript[k][i]] : i \in Recent(k, from)}

Expired(h) == clock > since[h] + Window

Look(h) == /\ pc[h] = "poll"
           /\ h \notin polled
           /\ ~Expired(h)
           /\ polled' = polled \cup {h}
           /\ \E k \in SessionFile(h) :
                 snapshot' = [snapshot EXCEPT ![h] = Recorded(k, since[h])]
           /\ Goto(h, IF snapshot'[h] = {} THEN "poll" ELSE "claim")
           /\ UNCHANGED <<clock, agentVars, since, claimed, wipes, got, gotIn, disturbed, ctxVars>>

(* The store or the transcript cannot be read: nothing to see this tick.   *)
LookFails(h) == /\ pc[h] = "poll"
                /\ h \notin polled
                /\ ~Expired(h)
                /\ polled' = polled \cup {h}
                /\ Disturb
                /\ UNCHANGED <<clock, agentVars, pc, since, snapshot, claimed, wipes, got,
                               gotIn, ctxVars>>

(* replyTracker.claim, once per reply of the snapshot, each under the      *)
(* tracker's mutex.  A full table is emptied before the key goes in.       *)
NeverFull == FALSE

Full == Cardinality(claimed) >= MaxClaimed

Foremost(h) == {r \in snapshot[h] : \A q \in snapshot[h] : r.line <= q.line}

Claim(h) == /\ pc[h] = "claim"
            /\ \E r \in Foremost(h) :
                  /\ r.key \notin claimed
                  /\ claimed' = (IF Full THEN {} ELSE claimed) \cup {r.key}
                  /\ got' = [got EXCEPT ![h] = {r.text}]
            /\ wipes' = IF Full THEN wipes + 1 ELSE wipes
            /\ gotIn' = [gotIn EXCEPT ![h] = wipes']
            /\ snapshot' = [snapshot EXCEPT ![h] = {}]
            /\ Goto(h, "done")
            /\ UNCHANGED <<clock, agentVars, since, polled, disturbed, ctxVars>>

OnlyFirst(h, r) == {}

Rest(h, r) == snapshot[h] \ {r}

Taken(h) == /\ pc[h] = "claim"
            /\ \E r \in Foremost(h) :
                  /\ r.key \in claimed
                  /\ snapshot' = [snapshot EXCEPT ![h] = Rest(h, r)]
            /\ Goto(h, IF snapshot'[h] = {} THEN "poll" ELSE "claim")
            /\ UNCHANGED <<clock, agentVars, since, polled, claimed, wipes, got, gotIn,
                           disturbed, ctxVars>>

(* The poll's own deadline is looked at between ticks; the end of the      *)
(* context ends the wait for a tick.  With both ready at once either may   *)
(* be taken, so a last look is possible, and not certain.                  *)
GiveUp(h) == /\ pc[h] = "poll"
             /\ Expired(h) \/ CtxOver(h)
             /\ Goto(h, "failed")
             /\ UNCHANGED <<clock, agentVars, since, polled, snapshot, claimed, wipes, got,
                            gotIn, disturbed, ctxVars>>

Relaying(h) == \/ Send(h) \/ Ack(h) \/ SendFails(h)
               \/ Look(h) \/ LookFails(h) \/ Claim(h) \/ Taken(h) \/ GiveUp(h)

(* A signal cancels the daemon's context, of which all others are made.    *)
Shutdown == /\ ~cancelled
            /\ cancelled' = TRUE
            /\ Disturb
            /\ UNCHANGED <<clock, agentVars, pc, since, polled, snapshot, claimed, wipes, got,
                           gotIn, ends>>

Next == \/ Tick \/ Shutdown
        \/ \E k \in Keys : Reply(k) \/ Compact(k)
        \/ \E h \in Handlers : Relaying(h)

Spec == Init /\ [][Next]_vars
-----------------------------------------------------------------------------
Lines == [line : Nat, key : Keys \X Handlers, text : Handlers]

TypeOK ==
    /\ clock \in Nat
    /\ asked \in [Keys -> Seq(Handlers)]
    /\ transcript \in [Keys -> Seq(Handlers)]
    /\ known \subseteq Keys
    /\ repliedAt \in [Handlers -> Nat]
    /\ pc \in [Handlers -> {"send", "sent", "poll", "claim", "done", "failed"}]
    /\ since \in [Handlers -> Nat]
    /\ polled \subseteq Handlers
    /\ snapshot \in [Handlers -> SUBSET Lines]
    /\ claimed \subseteq Keys \X Handlers /\ Cardinality(claimed) <= MaxClaimed
    /\ wipes \in Nat
    /\ got \in [Handlers -> SUBSET Handlers]
    /\ gotIn \in [Handlers -> Nat]
    /\ disturbed \in 0 .. MaxDisturbed
    /\ ends \in [Handlers -> Nat] /\ cancelled \in BOOLEAN

(* A handler returns a reply of its own session, recorded after its own    *)
(* request was acknowledged: never another sender's, never an older one.   *)
OwnSession ==
    \A h \in Handlers : \A r \in got[h] :
        KeyOf[r] = KeyOf[h] /\ repliedAt[r] >= since[h]

(* One reply is returned by two handlers only if the claim table has been  *)
(* emptied between the two, however transcripts are compacted meanwhile.   *)
TwiceOnlyAfterWipe ==
    \A g, h \in Handlers :
        g # h /\ got[g] \cap got[h] # {} => gotIn[g] # gotIn[h]

(* The agent answered while the handler was sure of another look: within   *)
(* the poll's ten minutes and, where the context has a deadline, a tick    *)
(* before it, which comes first since it runs from before the send.        *)
InGoodTime(h) == /\ repliedAt[h] # Never
                 /\ repliedAt[h] < since[h] + Window
                 /\ ends[h] # Never => repliedAt[h] + 1 < ends[h]

Delivered(h) == \E g \in Handlers : h \in got[g]

GivesUp(h) == pc[h] = "poll" /\ pc'[h] = "failed"

(* SendAndReceive waits for the agent's reply.  With no shutdown, no look  *)
(* that failed and no compaction, an answer given in good time is missed   *)
(* for one reason only: it was recorded before its request's               *)
(* acknowledgement was processed, as when chat.send was retried on a new   *)
(* connection, and so looks older than the request.                        *)
MissedOnlyWhenEarly ==
    [][disturbed = 0 /\ ~cancelled => \A h \in Handlers :
          GivesUp(h) /\ InGoodTime(h) => Delivered(h) \/ repliedAt[h] < since[h]]_vars
=============================================================================
