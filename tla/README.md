# OpenClaw–Kapso WhatsApp bridge: specifications

The bridge takes WhatsApp messages from the Kapso API (polled, or pushed to a
webhook), drops duplicates, checks the sender, asks an agent gateway for a
reply and sends it back.  This directory holds TLA+ modules for the parts that
have state and concurrency, TLC configurations that check them on small
instances, and TLAPS proofs for every value of the constants.

    tlc -workers 2 -config MCGuard.cfg MCGuard      # check a run (see Runs)
    tlapm GuardProof.tla                            # check the proofs of a module

`PROJECT.json` lists the components, the runs, a mutant for each checked
property, the source lines behind each definition, the hazards and theorems.

## The system

| Part | State it keeps | Operations | Talks to |
|---|---|---|---|
| Poller (`delivery/poller`) | cursor `lastPoll`, its copy in a state file | resume, one drain cycle per interval | Kapso API; writes the fan-in channel |
| Webhook server (`delivery/webhook`) | listener, requests in flight | read, emit, answer, shut down | writes the fan-in channel |
| Merge (`delivery/merge.go`) | `seen` table, two 64-slot channels | forward or drop, periodic sweep | reads sources, writes events |
| Guard (`security/guard.go`) | buckets, last sweep, phone→role map | `Check`, `Role`, `SessionKey` | called by the consume loop |
| Main (`cmd/.../main.go`) | context, stop channel, funnel process | start the funnel, serve, shut down | everything |
| Consume loop and handlers (`cmd/.../main.go`) | 16 slots, a typing refresh per message | dispatch, relay, command, panic recovery | guard, gateway, Kapso client |
| OpenClaw connection (`gateway/openclaw.go`) | published session, supervisor, read loops, backoff | connect, supervise, reconnect, close | agent gateway over a WebSocket |
| OpenClaw requests | pending table and ids per session | `sendRequest`, `waitForSession`, `sendOnSession`, routing | handlers; read loop |
| OpenClaw relay | claim table | poll a transcript for an unclaimed reply | session store and transcripts on disk |
| ZeroClaw (`gateway/zeroclaw.go`) | connection per sender, its `ioMu` | request, reap idle, remove broken, close | agent over WebSockets |
| Commands (`commands`) | none | parse, permission, shell or agent | gateway, shell |
| Transcription (`transcribe`) | cache with TTL and a size limit | look up, store and evict, retry with backoff | providers; called by the sources |
| Funnel (`tailscale`) | a child process | start with retries, stop | main; tailscale |
| Config, device identity, preflight, CLI, packaging | files | run once | operating system |

What is hard here: three goroutines share the dedup table and two bounded
channels; the poller must keep a cursor correct through failing pages, a page
cap, an API that hands out its own cursors, and kills between emitting and
saving; the OpenClaw connection is replaced under requests in flight while
`Close` may come at any point; replies do not come over the socket but through
files shared by concurrent handlers; ZeroClaw's answers carry no ids, so what a
timed-out request leaves unread belongs to the next one; a full slot pool stops
the consume loop, the channels and the sources behind it; channels are closed
and the context cancelled while all of them are at work.

## Modules

| Module | Models | How it corresponds to the code |
|---|---|---|
| `RoleTable` | the role maps of `security.New` and `config.Validate` | each range over a Go map is a choice of an order |
| `FixedWindow` | what a rate limit promises | abstract: a window per sender, open or shut |
| `Guard` | `Guard.Check` and its sweep | the mutex makes each call one action; `buckets`, `lastSweep` are the fields of those names |
| `Inbox` | clock, the API's messages, the fan-in channel | shared by the next two |
| `Merge` | `Merge.Run`, `StartCleanup`, `sweep` | a receive, a forward and each forgotten entry are steps of their own, since only `seen` entries are atomic |
| `Poller` | `Run`, `poll`, `loadState`, `saveState` | program counter over the cycle; one step per page and per message |
| `Delivery` | composes the three as `main` does, adds the webhook's emit, the consumer and a kill | |
| `Supervisor` | `Connect`, `connectOnce`, `supervise`, `reconnect`, `readLoop`, `Close` | sessions numbered as dialed; `sup` is the position in connectOnce/supervise, `reader[s]` of the read loop |
| `OpenClaw` | EXTENDS `Supervisor`; requests on its sessions | `pc[c]` is a caller's position in sendRequest, waitForSession and sendOnSession; `waited`, a history variable of the supervisor, is its last wait |
| `Relay` | `SendAndReceive` + `pollReply` over transcripts, with `claim` | a look reads the file, then each claim is a step under the tracker's mutex; a snapshot is the set of the lines read, each with its place, and the foremost left is tried next; `ends[h]` is the context's deadline, which a plain message has from before its send |
| `ZeroClaw` | `connFor`, `SendAndReceive`, `removeSender`, reaper, `Close` | `ioMu[k]` is the mutex of connection `k`, `pc[c]` the position of a request |
| `Conversation` | what the bridge promises about each copy of a message it is handed | abstract: the ids remembered, a phase and the last text heard per copy; an id may be forgotten |
| `Lifecycle` | `main` from `signal.Notify` to its return, `StartFunnelWithRetry`, `cleanupFunnel` | `main`, `signal` and `funnel` are the position, the stop channel and the child process |
| `Intake` | both sources, `Merge.Run`, `sweep`, and how the channels are closed | EXTENDS `Lifecycle`; a webhook request, the poller and the merge are goroutines with a copy of a message in hand; a request is answered when its handler returns, `acked` holds the copies answered for |
| `Commands` | `Dispatcher.IsCommand`, `Parse`, `Exists`, `CanRun`, `Ack`, `Handle` | operators, no state |
| `Handlers` | `handleMessage` with its typing refresh, `handleCommand`, `safe.Recover` | EXTENDS `Intake`, `Commands`; `at[m]` is the position of the handler of `m`, one step per call of the Kapso client; `refresher[m]` is its refresh goroutine, at its select or with a tick in hand |
| `Bridge` | the consume loop and the slots; the whole process | EXTENDS `Handlers`; refines `Conversation` |
| `Transcript` | `cacheTranscriber`, `retryTranscriber` | `at[c]` is the position of a call; the provider is a call that ends as it likes |
| `GuardProof`, `DeliveryProof`, `OpenClawProof`, `RelayProof`, `ZeroClawProof`, `BridgeProof`, `TranscriptProof` | inductive invariants and theorems | EXTEND the modules above |
| `MC*` | constants for TLC | |

`Delivery` and `Bridge` look at the same channels from two sides.  `Delivery`
has the poller's cursor, the clock of the dedup TTL, sweeps and kills, with a
consumer that only takes events.  `Bridge` has what consumes them and how the
process ends, with a poller reduced to a goroutine that emits.  What travels
there is copies of messages, since a source may hand one over twice; a sweep
may forget an id at any time, so whatever the TTL is, the model does more than
the code, and what holds of two copies that were both accepted holds of the
code's repeated messages.

In a module, an operator that stands directly before a mapped definition and
changes it the way a plausible bug would (`SweptNothing`, `OverWhenDrained`,
`LockUnheld`, ...) is a mutant: it is part of no specification, and
PROJECT.json names the property it must break.

### What the abstractions leave out

* Message contents.  A message is its position in the API's list, a reply is
  named after the request it answers; in `Commands` a text is whether it starts
  with the prefix, and its first word.
* Verdicts and answers in `Bridge`.  The guard gives any of its three verdicts,
  the gateway replies, fails or (to an agent command) stays silent: `Guard`,
  `OpenClaw`, `Relay` and `ZeroClaw` have their rules.
* A webhook request carries one message, and is read to its end.  Signature
  check, payload formats and the verification handshake keep no state.
* Wrong page cursors in `Poller` point back, stand still or end the cycle; an
  API that skips ahead is left out: the poller could not tell.
* `Merge.Run` reads the clock just before `LoadOrStore`.  They are one step, so
  the TTL of `NoEarlyRepeat` runs from the reading that is stored.
* Time is counted in seconds (`Delivery`, `Transcript`), limiter ticks
  (`Guard`), poll ticks (`Relay`) or idle periods (`ZeroClaw`).  Timers that only bound a wait are a
  step that may happen at any moment (`Ripen`, `Pause`, `DialFails`,
  `ReadFails`, `Expire`, `Deadline`).
* The handshake of `connectOnce` is one step that succeeds, fails or is
  rejected for good.  Keepalive pings appear as what they are for: a read on a
  dead connection fails.  Taking an id and registering under it are two
  critical sections in the code and one step here; nothing reads in between.
* Frames that are no responses, or not JSON, are logged and ignored by both
  read loops and have no step.
* In `Transcript` a delay includes its jitter, and sleeps and deadlines beyond
  the bound of the clock end at it.  The local provider has no retry wrapper
  and is taken to end by itself.
* Bounds named as such: `MaxConns`, `MaxSessions`, `MaxTime`, `MaxMsgs`,
  `MaxErrors`, `MaxCrashes`, `MaxDisturbed`; in `Handlers`, `MaxParts` (chunks
  of a reply), `Watched` (copies whose typing indicator is modelled),
  `Followed` (copies whose texts to the sender are) and `MaxWire` (typing
  requests under way); in `Intake`, `Expiring` (ids that may be forgotten).
* Everything the repository does not control is external: the Kapso API's
  list, the agent, the transcripts, connections being lost.  The assumptions
  are that the API lists a message as soon as it is stamped, in time order,
  and that the agent works through one session's messages in order.

## Runs

| Run | What it asks | Bounds and why they suffice |
|---|---|---|
| `guard` | Lazily replaced, reaped buckets: at most two windows' worth per window length, refusals only for cause, table swept, refinement of `FixedWindow` | 3 senders (one unlisted), limit 2, window 2, sweep 3, 7 instants: windows open, expire and are reaped at unaligned times |
| `delivery` | The cursor passes nothing unread but what shares the second of an earlier message; what only the poller brings keeps its order until a kill | 3 messages (the first unsupported), up to three in one second, pages of 1, cap 2, so the cap is hit with a backlog; 1 failing call, wrong cursors, torn state file, 1 kill at any point |
| `delivery_fair` | Every supported message that is the first of its second gets through; none twice within the TTL | 2 messages, webhook repeating them, all channels of capacity 1, TTL 1 so that sweeps happen |
| `openclaw` | One generation at a time, responses to their own callers, a retry only on a younger session, no stale pending entries, `Close` leaves nothing | 2 callers (one with deadline), 2 sessions: a drop, a retry and a shutdown meet at every interleaving |
| `openclaw_fair` | Each wait between connections doubles the last, up to the cap, until a session is stable; a lost connection releases its callers; `Close` returns | 1 caller, 3 sessions, waits of 1, 2 and 3 (the cap, no power of two), so that they grow across sessions and failed dials and meet the cap |
| `openclaw_stuck` (violation) | Does a drop always unblock the callers? Not when the reconnect is rejected | 1 session, 1 caller without deadline |
| `relay` | Replies stay in their session, are returned twice only across a wipe of the claim table, and, given in good time, are missed only when older than the acknowledgement | 3 handlers in 2 sessions, one with a context deadline that began at any tick up to its send, claim table of 2, so that it wipes; 1 failed look, compaction or shutdown |
| `zeroclaw` | No socket lost in races to dial and store; the reaper spares requests; a failing request tears down its own connection or its replacement only; an answer goes astray only after an abandoned request | 3 interchangeable requests of one sender, 3 connections, the clock passing the idle TTL once |
| `zeroclaw_fair` | Answers stay with their sender; all requests of a sender end when each has a deadline | 2 requests of one sender with deadlines, 1 of another without, on the probe's connection |
| `bridge` | Slots come back and what a source has answered for stays accounted for; no typing request follows an answer; each copy is handled as `Conversation` promises | two copies of a plain message of two chunks, whose id may be forgotten at any time, so that both can be accepted; a shell command of another sender, with an acknowledgement; all through both sources, capacities and slots of 1: everything can be full at once; panics, failing sends and a signal at every point; texts and typing of the first copy |
| `bridge_fair` | Requests are answered and messages dealt with, unless agent commands and what waits behind them hold all slots; a signal ends the process and its funnel | an agent command, a plain message of the same sender, which may have to wait behind it, and a refused command of another, from the webhook, behind a funnel that may fail to start; 2 slots, which the first two can hold for ever |
| `transcript` | The cache keeps its limit and evicts fairly, a missed deadline costs one attempt at most, every call returns | 2 callers and 3 audio messages over a cache of 2; 2 attempts (3 in the code) with a sleep of 1 or 2 between them, deadline 2, TTL 2, shutdown at any point |

`CHECK_DEADLOCK FALSE` is set for `relay` and the `zeroclaw` runs: each handler
makes one request, so the model stops when all have ended.  `OpenClaw` and
`Bridge` have an explicit step for the state after the end, so that any other
stop is an error: in `bridge` nobody waits on everybody.

`MCZeroClaw` names its three callers interchangeable; only the `zeroclaw` run
uses the symmetry, all of its requests being of one sender.
`MCRelay` does the same with the two handlers of one session.

### Findings

* `openclaw_stuck`: `openclaw.go:635-639` speaks of the contract that a dropped
  connection unblocks callers in flight.  After a permanent rejection the
  supervisor is gone although `autoReconnect` is set, and a caller whose
  context has no deadline (an agent command) polls for a session for ever,
  with its handler slot.

Met on the way, and described by a property that says what does hold:

* `poller.go:61-64` calls advancing the cursor at the page cap safe.  The
  cursor is moved to one second past the newest message fetched, so the rest
  of that second is skipped, as is a message that arrives later within it.
  `OnlyTiesPassedOver` says that nothing else is.
* `gateway.go:15-16` promises the agent's reply, but `pollReply` takes its
  `since` after the acknowledgement (`openclaw.go:784`): a reply recorded
  earlier, likely after a retry on a second connection, is never seen.  A
  plain message's context (`main.go:324`) begins before the send and so ends
  before the poll's own ten minutes (`openclaw.go:785`) do: an answer in
  between is missed as well, as is one after a shutdown.
  `MissedOnlyWhenEarly` says that of the answers given in good time, with a
  tick to spare before either deadline, only the early ones are missed (no
  look failing, nothing compacted, no shutdown).
* A message can be delivered twice by one process although the gateways rely
  on `Merge` to prevent it (`zeroclaw.go:99-100`): a cycle that emits it and
  keeps failing for longer than the TTL emits it again.  `NoEarlyRepeat` says
  it needs that long, and `Conversation` promises each copy a conversation of
  its own: "at most once" is per accepted copy, not per message.
* Emptying the full claim table (`openclaw.go:114-116`) frees the replies just
  claimed.  `TwiceOnlyAfterWipe` says that this is the only way to a second
  claim.
* `removeSender` (`zeroclaw.go:229-239`) closes what stands under the key, not
  the connection that broke; a request queued on an old connection can so
  close the healthy replacement under another request.
  `DropsOwnOrSuccessor` says that no other connection is touched.
* A ZeroClaw request whose deadline passes while it is queued on `ioMu` still
  writes its message and then leaves (`zeroclaw.go:112-122`); the next request
  reads that answer.  `OwnUnlessAbandoned` says that only this mixes answers up.
* The queue on `ioMu` itself knows no deadline (`zeroclaw.go:87`): a request
  without one, on a silent agent, holds up every request of its sender, and a
  plain message's ten minutes (`main.go:324`) do not end its wait there.
  `SendersReturn` is stated for senders all of whose requests have deadlines.
* Agent commands have no deadline (`main.go:277`, `dispatcher.go:171-193`)
  and can hold all sixteen slots, and so can one of them together with plain
  messages of its sender that queue behind it.  `Served` is stated up to that:
  with only the agent commands counted as stuck, TLC finds the second case.
* `server.go:192-193` means to acknowledge before it processes, but net/http
  sends the 200 when the handler returns, so a request is answered once its
  messages are in the channel.  `Shutdown` makes `Serve` return with requests
  in flight; the channel may be closed under one that is still sending.  That
  request panics and is not answered: `Accounted` says that what was answered
  is not lost before the consume loop.
* A typing refresh may show the indicator again after the handler has taken it
  away (`main.go:315`, `:362`), if its request was on its way when the answer
  came.  `NoTypingAfterAnswer` says that none is sent after the answer.
* Signals go to a channel that main reads only when the funnel is up
  (`main.go:91`, `:127`, `:218`): one that comes while Tailscale is not ready
  has no effect, and the context passed to `StartFunnelWithRetry` is never
  cancelled.  `SignalEnds` is about signals main waits for.
* A store into a full cache evicts an entry even when the key it stores is
  itself present (`cache.go:80`), and of two stores of one key the later may
  carry the earlier expiry.  `EvictsSoonest` says what remains fair.
* The backoff sleep does not watch the context (`retry.go:87`).
  `LateCallIsLast` says that this costs one attempt at most.
* `Close` of the OpenClaw gateway (`openclaw.go:832-833`) says it waits for the
  current session's read loop.  When the supervisor's own teardown took the
  session first, `Close` finds none and waits only for the supervisor.

Met on the way, outside any property: `config.go:384` announces which role
"wins" for a number listed twice, while the guard's own walk of its map decides
(`guard.go:46`); help lists commands whose configured name has upper-case
letters although `Parse` lower-cases what is typed; the deny message is sent by
the consume loop itself and to the number as it came, without
`phone.EnsurePlus`; a listener or poller that cannot start leaves the process
running without that source; `.planning/phases/04-reliability/04-02-SUMMARY.md:24`
says that a `CacheTTL` of 0 disables the cache, while `Validate` makes it 3600
(`config.go:403`); the local provider gets no timeout, and a configured timeout
of 0 means none.

### Fairness

Weak fairness is assumed of goroutines that can go on, and of timers the code
sets: a dial ends by its timeouts, a read on a dead connection by the pong
wait, a context by its deadline, a call of WhatsApp by the client's timeout, a
shell command by its own, a backoff sleep by its length.  Strong fairness is
assumed of blocked channel sends, of the poller and of webhook requests: Go
queues blocked senders in order, so none is passed over for ever.  It is also
assumed of a supervisor that can see `closing` each time it waits: while its
timer runs, that is the only ready case.  In `Bridge` each goroutine has a
fairness condition of its own.  Of an agent command's request nothing is
assumed, not even that it ends when the context is cancelled: under ZeroClaw it
may wait for `ioMu`, or in a read with no deadline.  A plain message's request
is assumed to end only while no agent command of the same sender has one
(`Behind`): then everything queued on that `ioMu` has a deadline, as
`SendersReturn` checks.  Webhook requests are assumed to be read to their end.
Nothing is assumed of the network, the agent, signals,
panics, of when Tailscale becomes ready, or of callers without deadline.

## Proofs

| Theorem | Says, for all constants |
|---|---|
| `GuardProof!TypeCorrect`, `RateBound`, `OnlyForCause`, `SweptTable` | the guard's type invariant and its three safety invariants |
| `GuardProof!Refinement` | `Guard` implements `FixedWindow` |
| `GuardProof!RolesAreListed`, `StrangersLeaveNoTrace` | whatever the order of the walk, a number gets a role that lists it; an unlisted one gets no role, no message through and no bucket |
| `DeliveryProof!TypeCorrect` | type invariant of the pipeline |
| `DeliveryProof!NoRepeatWithinTTL` | no id is let through twice within the TTL |
| `DeliveryProof!NoMessagePassedOver` | the cursor passes nothing unread but ties |
| `DeliveryProof!PassedIsOnItsWay` | until a kill, what the cursor has passed is with the bridge or in a channel or the merger's hands, webhook or not |
| `DeliveryProof!ArrivalOrder` | until a kill, what only the poller brings reaches the bridge in order |
| `OpenClawProof!Generations`, `CleanClose`, `BackoffEscalates` | of the supervisor, for any number of sessions |
| `OpenClawProof!TypeCorrect`, `RoutedHome`, `RetriedOnce`, `TableTidy` | of the requests, for any callers and sessions |
| `OpenClawProof!EveryoneIsTold` | a caller awaiting a frame is registered where a read loop will find it, has its outcome, or sees its session over |
| `RelayProof!TypeCorrect`, `RepliesAreOwn`, `ClaimedOnce`, `OnlyEarlyMissed` | the four properties of the relay, for any handlers, sessions, deadlines, claim table and polling window |
| `ZeroClawProof!TypeCorrect`, `NoSocketLost`, `RequestsSpared`, `FailureStaysHome` | of the connections, for any requests, senders and idle times |
| `ZeroClawProof!NoLockLeaked`, `RequestsTakeTurns` | a held `ioMu` belongs to a request at work on that connection or to the reaper; no two requests use one connection at once |
| `ZeroClawProof!AnswersOwn` | answers stay with their sender, and with their request unless one was abandoned |
| `BridgeProof!TypeCorrect` | slots are held by running handlers and no others |
| `BridgeProof!NothingLostOnTheWay`, `NoFunnelLeft`, `TypingEndsWithAnswer` | of the sources and the merge, the funnel, the typing refresh |
| `BridgeProof!BridgeConverses` | `Bridge` implements `Conversation`, whatever ids are forgotten and when |
| `TranscriptProof!TypeCorrect`, `FairEviction`, `OneLateAttempt` | of the cache and the retry loop |

The assumptions are the named ASSUMEs of the modules (`GuardAssumption`,
`SupervisorAssumption`, ...): bounds are naturals, those that the code keeps
positive are positive, the tables of commands and roles are functions on the
right sets, and the names of special values (`"free"`, `"nothing"`, ...) are no
caller's or message's.  TLC evaluates them in each run.

Every safety property of the passing runs is proved.  Six theorems state more
than a run does: `RolesAreListed`, `StrangersLeaveNoTrace`, `PassedIsOnItsWay`,
`EveryoneIsTold`, `NoLockLeaked` and `RequestsTakeTurns`.  `PassedIsOnItsWay`
and `EveryoneIsTold` are the safety halves of `EveryMessageDelivered` and of
`DroppedSessionReleases`: what TLC adds is that the remaining steps are taken.

How the arguments go:

* **Guard.**  The invariants speak of the log of granted messages, the code
  only of buckets.  The strengthening ties each bucket to the tail of its
  sender's log: the tokens spent are the log entries with that window's
  opening, and windows of one sender do not overlap.  Two windows' worth then
  span more than a window.  For the role table, `FirstIn` chooses a least
  element of a set of naturals, which exists as `<` is well founded there.
* **Merge.**  `MergeInv`: the table agrees with the last acceptance of each id
  it holds, an id it lost was accepted more than TTL ago, and no sweep in
  progress works with a cutoff later than clock - TTL.
* **Poller.**  `PollInv` says of a cycle in progress what has been read up to
  each position that matters (the batch, the cursor to the next page, the
  newest timestamp), so that a wrong next cursor, which may only repeat or
  end early, does no harm; the saved cursor is then behind all unread
  messages, ties excepted: of a second that the cursor is past, the first
  message has been read.
* **Delivery.**  `PipeInv` follows a message through the sources' channel, the
  merger's hands and the events channel.  Its first half, `KeptInv`, says that
  what the cycle has sent is not dropped unless it is accepted already, which
  needs the dedup table to hold accepted ids only.  Its second, `OrderInv`, is
  for deliveries without a webhook: at each stage, everything due before an
  entry is further on than it.  `InOrder` alone is not inductive, and neither is
  any one stage's order: a duplicate is skipped rightly only because the first
  copy, with all due before it, has gone ahead.  That the poller sends in this
  order at all comes from `PollInv`.
* **OpenClaw.**  `SupInv` pins down which session may be read, published or up
  at each stage of the supervisor; `OneGeneration` alone is not inductive, as
  nothing in it says that `connectOnce` runs only when the last read loop has
  closed `done`.  `WaitInv` says for `WaitsGrow` that the backoff is the next
  wait at every stage, from one wait through dial, session and drop to the
  next, unless the session is stable.  `CallInv` adds where callers stand: an entry in the table of
  a session that reads belongs to a caller on that session with that id, ids
  are given out once per session, hence a request on the wire and a caller
  registered under one id belong together.  Supervisor steps touch the callers'
  part only through `reader`, so one lemma (`SupKeepsCallInv`) covers them all.
  Giving up in its five forms is one lemma as well (`Leaves`).  `HeardInv` is the
  converse of the table's tidiness: a registration disappears only with an
  outcome, with its caller, or with the session's cleanup.
* **Relay.**  `RelayInv`: both the agent's queue and the transcripts hold a
  session's own messages, a snapshot holds lines of its handler's session
  recorded since the acknowledgement, and a reply returned since the table was
  last emptied is still in it; two handlers with one reply have then claimed it
  on two sides of an emptying.  `PollInv` is the converse, while no look fails
  and nothing is compacted: what is claimed has been returned, and an answer
  that a handler has had the chance to see is returned or in its snapshot, so
  that one who gives up has been robbed of it by a handler of the same session,
  or never could see it.  One that leaves because its context is over leaves in
  the tick of its deadline at the earliest; an answer in good time was on file
  at the look before it.
* **ZeroClaw.**  `BaseInv` is built in layers.  `MutexInv`: who reads or writes
  on a connection holds its mutex, and so does the reaper; `LockHeld` is the
  converse, that nobody leaves with it.  `OwnInv`: a request
  works with what is cached for its sender, or with a connection that is closed
  or about to be; hence what `removeSender` closes by the sender's key is the
  request's own connection or its replacement.  `SenderInv`: a connection
  serves one sender.  The answers then follow in three steps: what a connection
  owes, it owes to requests that wrote on it (`OwedInv`); the answer is the
  last frame of its request (`OrderInv`); and what an open connection still
  owes a request that has ended goes back to one that ran out of time
  (`LeftInv`).  The last is the point: a request that reads a stranger's answer
  leaves its own behind in turn, so one abandoned answer shifts all later ones,
  until the connection is replaced.
* **Bridge.**  `BaseInv` holds the shape of the state and the slots: the
  handlers that hold one are finitely many, whatever the set of messages, and
  as many as `used`.  `CopyInv` says that a copy is in at most one place: in
  one request or the poller's hands, once in the first channel, with the
  merger, once in the second, or with the loop; and that it is in one of them
  exactly when a source has answered for it and the merger has not dropped it.
  `Accounted` alone is not inductive: a copy in two places could be dropped
  from one.  `ClosingInv` follows the goroutines through the closing of both
  channels.  `TalkInv` says what a
  sender has heard at each place of a handler; with the map from places to the
  phases of `Conversation`, each step of the bridge is one of its steps or
  none.
* **Transcript.**  `CallInv` says what a call knows at each of its places;
  `CacheInv` that the entries are finitely many, so that a soonest one exists
  and eviction makes room.

### Only model-checked

Liveness under fairness (`EveryMessageDelivered`, `DroppedSessionReleases`,
`CloseReturns`, `SendersReturn`, `Served`, `SignalEnds`, `EveryCallReturns`):
temporal reasoning about ENABLED is out of the prover's reach.  So is
induction over data, which is why `Relay` describes what a look finds as a set
of lines with their places, not as a filtered sequence.

## Not modelled

* Configuration, preflight, device identity: read or written once before the
  first goroutine starts.  What `Validate` guarantees appears as assumptions
  on constants.  A crash while the device key is written leaves a file that
  the next start removes, and the device gets another identity.
* The command-line client and packaging: one-shot programs and deployment.
* `MdToWhatsApp` and the texts of replies: rewriting, no state.  `SplitMessage`
  appears as the number of chunks only.
* Media download, signatures and payload formats: single calls without state.
* The detached notice for unsupported message types: one send, nobody waits.
* Messages still in the two channels, or with a handler, when the process
  stops are lost behind the saved cursor: the code promises nothing about
  them, so no property does.
* A message that becomes visible in the API later than its timestamp: how late
  is not known from the code.

## Plan

1. *Done:* guard, delivery, OpenClaw connection and requests, relay, ZeroClaw,
   the bridge from sources to handlers with shutdown and funnel, commands,
   transcription; every safety property of the runs proved.
2. An abstract gateway ("each request is answered once, by its own session's
   reply, or fails") with `ZeroClaw` and `Relay` shown to implement the part of
   it they keep, and `Bridge` stated over it.
3. `SplitMessage` against a reference definition on bounded inputs.
