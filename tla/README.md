# TLA+ models of sessions, loops and the remote connection

The repository is a server that runs coding agents (Claude, Codex, Gemini,
OpenCode) on a developer's machine and lets a phone or a browser drive them:
send messages, approve tool calls, pause, resume and abort sessions. On top of
sessions it runs *loops*: autonomous runs, judged turn by turn by a control
plane. A phone reaches the server through a relay. This directory models four
parts: the supervision of agent sessions, the control of loop runs, the triggers
that start them, and the connection from the phone over the relay to the server.
TLC checks them on small instances; TLAPS proves nearly all of their safety
invariants for every size of them. `PROJECT.json` maps every definition to the lines
it models and lists hazards, findings, runs, mutants and theorems.

## 1. Inventory

All paths are below `src/packages/`.

| Component | State | Operations | Talks to |
|---|---|---|---|
| Session process, `server/src/supervisor/Process.ts`, `sdk/messageQueue.ts` | state (in-turn, idle, waiting-input, hold, terminated), pending approvals and their queue, permission mode, deferred messages, message queue with one waiting slot, hold resolver, idle timer | message loop, `handleToolApproval`, `respondToInput`, `queueMessage`, `deferMessage`, `setHold`, `setPermissionMode`, `abort`, `terminate`, idle timer | the agent (iterator, generator, `canUseTool`, `steerFn`, `abortFn`), the Supervisor (events), the routes (calls) |
| Supervisor, pool and queue, `server/src/supervisor/{Supervisor,ProcessPool,WorkerQueue}.ts` | pool, session id to process map, FIFO of requests | `startSession`, `createSession`, `resumeSession`, `queueMessageToSession`, `abortProcess`, `processQueue`, `cancelQueuedRequest`, staleness check | processes (subscription), providers (start), routes, loops |
| Session routes, `server/src/routes/sessions.ts` | none | HTTP handlers: look up the process, await the body, call it | Supervisor, Process |
| Loop control plane, `server/src/loop/control-plane/` | one `run_state` file per loop, a ledger of decisions per run, pending approvals | `applyJudgment`, `beginTurn`, `advanceSubtaskTurn`, `submitDecision`, `pauseActive`, `resumePaused`, `failRun`, `discardRun`, `requestRestartRecovery`, `sweepHumanSla` | run service, stores on disk, routes |
| Run service and turn loop, `server/src/loop/run-service.ts`, `loop/run/` | active runs, the context of each | start, turn, judge, retry, restart recovery | control plane, Supervisor, verification |
| Triggers and cron, `server/src/loop/trigger/`, `loop/state/trigger-queue-store.ts` | `queue.jsonl`, fired keys in a file, waiting triggers in memory | enqueue, drain, mark, tick | run service, routes |
| Policy, `server/src/loop/policy/` | rules | decide a tool call (the approval hook) | Process |
| Relations, proposals, maintenance; learning, verification, gates | lifecycle records; evaluation results | lifecycle transitions; checks in subprocesses | control plane |
| Relay, `relay/src/` | waiting servers by username, pairs, registry | register, connect, forward, close, ping | server's relay client, phone client |
| Relay client of the server, `server/src/services/RelayClientService.ts` | a connecting and a waiting socket, backoff timer, status | start, stop, register, claim, reconnect, keepalive | relay, the handler of remote connections |
| Client connection, `client/src/lib/connection/`, `lib/activityBus.ts` | state of the manager, backoff, pending ping, attempt in flight, current socket, key, subscriptions | connect, close, error, reconnect, resume, visibility, pong, fetch | relay, server |
| External session tracker, `server/src/supervisor/ExternalSessionTracker.ts` | external sessions with decay timers, abort grace | file changes, aborts, decay | Supervisor, file watcher |
| Providers, session readers and indexes, remote access, push, UI, device and desktop shells | – | adapters, parsing, cryptography, rendering | – |

What is hard, and what makes each core component correct:

* **Session process.** One object is driven by five actors that interleave at
  every `await`: the message loop, the agent's tool callbacks, HTTP handlers, a
  timer, and the agent itself behind a buffered stream, so the loop acts on
  events that are out of date. Correct means: no tool call waits unanswerable,
  the user is asked in order; a message is neither lost nor delivered twice;
  whoever ends a hold wakes the loop; termination leaves nothing behind; the idle
  timer neither gives up a live agent nor keeps a dead one.
* **Supervisor.** Every call checks, awaits and then acts on what it checked.
  Correct means: capacity is kept, a session has one process, mappings lead to
  processes of the pool and every process can be found, queued requests are
  started, kept or refused but never forgotten.
* **Control plane.** Load, check, append to the ledger, save, without a lock, on
  files that survive a crash. Correct means: the persisted state follows the
  transition table, and state and ledger agree after any interleaving and restart.
* **Triggers.** A queue file that is appended to and rewritten without a common
  lock, and a scheduler whose memory is lost in a crash. Correct means: an event
  that was accepted is kept, starts one run, and is settled in the end.
* **Relay and client connection.** Reconnection, replacement and timeouts race.
  Correct means: one waiting server per name, a phone hears its own answers only,
  one pursuit of the connection at a time, and everybody agrees in the end on
  whether there is a connection.

## 2. Modules

| Module | Models |
|---|---|
| `ToolPolicy` | the permission-mode switch of `handleToolApproval` and the modes an approval switches to, as pure operators |
| `SessionProcess` | one session: `Process.ts`, `MessageQueue`, the handlers that call them, and the agent as environment |
| `MCSessionProcess` | constants of `SessionProcess` for TLC |
| `Queues` | arrays without duplicates: the line of approvals, the queue of requests, the filters over `queue.jsonl` |
| `Supervisor` | the calls, the pool, the queue, the mappings; a process is what `SessionProcess` describes, seen from outside |
| `MCSupervisor` | constants of `Supervisor` for TLC |
| `RunStateTable` | the states of a run and the transition table of `state-machine.ts` |
| `RunStates` | the abstract specification: runs that begin one after the other and move along the table |
| `ControlPlane` | the state of one loop and the first step of every operation of `control-plane.ts` |
| `RunControl` | the turn loop, the run service, the shared steps of `transition()`, crash and restart; it extends `ControlPlane` and implements `RunStates` |
| `MCRunControl` | constants of `RunControl` for TLC |
| `TriggerQueue` | queue store, dispatcher and cron scheduler; a run is active or not |
| `Relay` | the relay composed with the servers' relay clients and phones, over sockets |
| `ClientConnection` | the phone's connection manager, secure connection and bus, composed with the relay and the server as it sees them |
| `MCTriggerQueue`, `MCRelay`, `MCClientConnection` | their constants for TLC |
| `Queues_proofs` | what removal and filtering do to a sequence, for any sequence |
| `SessionProcess_proofs`, `Supervisor_proofs`, `RunControl_proofs`, `TriggerQueue_proofs`, `Relay_proofs`, `ClientConnection_proofs` | the theorems about these modules |
| `SerialRuns_proofs` | `RunControl` when calls come one at a time: the refinement of `RunStates`, `SubtaskIsNext` and `RetriesKept` |

**Atomicity.** JavaScript runs to completion between awaits, so an action is
exactly the code between two awaits, with every synchronous listener it triggers
(for example the `complete` event that makes the Supervisor unregister a process
and run `processQueue()` up to its own first await).

### SessionProcess

`st`/`shown` are `_state`, `loop` is where `processMessages()` stands (awaiting
`next()`, asleep in `waitUntilResumed()`, woken, or gone), `verdict` says of
every tool call whether it was asked, is in the hook, is pending, or was
answered. A pending call whose signal was aborted before the listener was added
is `orphan`: it stays in line like a pending one, but its agent no longer waits.
`approvalQueue`, `deferredQueue`, `queue`, `mode`, `isHeld`, `iteratorDone`,
`transportFailed` and `idleTimer` are the fields of the same names. `genWaiting`
is the waiting slot of the `MessageQueue`. `registered` becomes FALSE with the
first `complete` event. `accepted` and `refused` are history variables. The
agent owns `inbox`, `handled`, `agentTurn`, `streamOpen`, `alive`, `killed` and
the stream `out`.

Optional behaviour is a set `Features`: what depends on the provider (`steer`,
`followup`, `liveness`, `signal`), on the caller (`hook`) and on the user
(`hold`, `mode`, `defer`, `kill`). The invariants hold for every subset.

What is abstracted: messages and tool calls are values; permission rules answer
anything, since they are a function of data that the model does not keep; of the
messages of the stream other than `result` only that the loop reads them, which
matters when it is held or terminated (`LoopMessage`). The
routes look a process up by its session and call it; that the process is found
is `registered`. The legacy queue and `input_request` of the mock SDK are left
out, as are interrupt, model and thinking switches.

### Supervisor

A call (`start`, `resume`, `send`) moves through the phases of `call`; each
await of the code is one phase. `processQueue()` loops are represented by the
calls in `drained`: each was taken from the queue by one loop, which looks at the
queue again when that call's start ends. `createSession` is a `start`. The
duration thresholds of preemption and staleness are nondeterministic. A process
that was resumed keeps its session id. The temporary id of a new process is its
own name. A terminated process stays terminated here; the finding `terminated`
below shows that its state may go back to idle, which in the Supervisor could
only concern processes that have left the pool.

### ControlPlane and RunControl

`snap` and `last` are the `run_state` file (snapshots are appended, the last one
counts), `ledger` the decision entries, `files` the run ledger, the merge gates,
the last checkpoint and the pause flag of the loop. `mem` is what a crash
destroys: the indexes of the control plane and the maps of the run service.
`task` are the asynchronous calls under way. A call loads the record and prepares
its decision (`ControlPlane`), then reads the ledger (`ReadLedger`), appends
(`AppendEntry`) and saves (`SaveRecord`), each a step of its own because the code
awaits it; `Returned` is what the operation does after that. A call that brings a
run back to active becomes the task that continues it, as the resume listener
starts `continueRun()` in the same synchronous step.

Abstracted: the load of `getRunState()` and the one of `pauseActive()` right
behind it are one step, as are load and append of a checkpoint and the reads of
a replay; the ledger is a set, because only its ids are compared; an approval comes
with feedback; `auto_approve_low_risk` is an approval; a context that nothing refers
to is collected. A verdict is any value that verification may come to.

Of the budget, turns and retries are counted; of tokens and time there is one flag,
`spent`, which a turn may set (the operation `usage`). A supplement replaces limits by
those that it names and keeps the others (`Kept`), as `supplementBudget()` does: the
comment above it says that a patch raises limits (`control-plane.ts:1141`), but nothing
compares a new limit with the old one, nor with what is used. `advanceSubtaskTurn()` may
itself run out of turns, after which the context goes back to the turn it has completed.
The first advance of a run counts on from the loop's last record, which may be that of
the run before it (`control-plane.ts:676`).

### TriggerQueue

`queue` and `tmp` are the file and its temporary copy, `cron` the scheduler's
memory, `firedFile` its file. A task is a delivery, the drain of the timer or a
deletion, with one step per file access. `Marked` and `WithoutLoop` rewrite the
content a task has read, so that what was appended meanwhile is lost as it is in
the code. `rename()` fails when the temporary file is gone. Writes of one file
are atomic; a loop's cron expression matches every minute.

`Dispatch` has every way through the drain's body. An event is one that no drain can
parse (`Malformed`: a webhook or an issue without `relation_id` or `maintenance_id`,
which `POST /triggers` accepts; the exception leaves the drain), one that resumes a
paused run (`ResumeEvents`; marked done or failed, nothing is started), one of a
maintenance record (`Maintained`; a transition that throws after `startRun()` marks it
failed), or another one, which starts a run.

### Relay

A socket has two ends and a channel each way; a close is a message, and each end
notices it in its own time. `mode`, `owner`, `waiting` and `pairs` belong to the
relay, `svc` to the services, `claimed` are the sockets that were handed to the
handler of remote connections. When the relay starts it may free the name
(`reclaimInactive()`). There is one username; the second server is one
with the same name and another install id, which owns the name from the start or
not at all.

### ClientConnection

`cm` is `ConnectionManager`, `sc` the fields of `SecureConnection` (current
socket, authentication state, key, `connectionPromise`), `net` the sockets with
the handler that is set on each (`on`), `bus` and `subs` the subscription of the
`ActivityBus` and those of `RelayProtocol`. A key or a nonce is the socket it was
made for; what is encrypted with another one is `garbled`. Pings have no numbers: a
pong is the one awaited when no other ping or pong of its socket is under way
(`IsLastPong`). Handlers are functions
from one value of the state to the next, because they call each other
synchronously. A timeout that fires although the answer is on its way counts as a
fault. `alone` is a history variable: no two attempts were under way at once.

`QuietIsSettled` excepts one way to come to rest, `Disowned`: two sockets that timed
out in their handshake close only when a later attempt is in its own. The first close
event makes `handleSocketClose()` take `this.ws` from that attempt, so that it sends no
proof, the second one sets `connectionState` to `failed`, so that the resume timeout of
the attempt returns without rejecting it. Without the exception the property is false
from 4 sockets, 2 fetches, 2 attempts and 3 faults on; the 3 sockets of the run `client`
do not reach it.

After every action, sockets and ids that nobody can hear of any more are forgotten
(`Become`), so that a few stand for as many as a phone makes in a day. `SocketsLeft`
and `SubsLeft` in the guards are bounds: an action that may need a new socket or id
waits until one is left, which is where the proof gets `Room` from.

## 3. Runs

| Run | Checks | Bounds | Result |
|---|---|---|---|
| `safety` | `TypeOK`, `ApprovalsTracked`, `ShownFirst`, `TerminatedIsClean`, `SleepsOnlyWhileHeld`, `IdleIsTimed`, `MessagesConserved`, `NoOrphanAgent` | 2 tool calls, 2 messages, all features, `MaxOut = 3` | holds |
| `live` | `KilledLoopExits`, `AcceptedIsHandled`, `DeadIdleReleased` | 1 tool call, 2 messages, `MaxOut = 3` | holds |
| `resume` | `FirstPendingIsShown` | 1 tool call, hold | violated |
| `pool` | `TypeOK`, `MappingsLeadToPool`, `WorkersAreFound`, `QueueWaitsForWorker`, `QueueIsExact`, `DeadWorkersWereNew`, `CallsAreAnswered` | 5 calls, 1 worker, queue of 2 | holds |
| `serial` | `RetriesKept`, `SubtaskIsNext`, `FollowsRunStates`, `RunsRest` | 2 runs, 2 subtasks, 2 turns, no retry but what is supplemented, 3 supplements, one call at a time, no crash | holds |
| `overlap` | `TypeOK`, `RecordBacked`, `WaitingIsAnswerable` | 1 run, 2 calls at once, 2 overlaps, 1 crash | holds |
| `stuck` | `NobodyStuck` | 1 run, 1 crash | violated |
| `trigger` | `TypeOK`, `AcceptedIsKept`, `StartedOnce`, `DoneHadItsRun`, `PendingIsSettled`, `BusyMinuteIsKept` | 1 loop, an event of each kind (manual, malformed, maintenance, resume) and 2 minutes of cron, one call at a time, 1 crash | holds |
| `lost` | `AcceptedIsKept` | a manual event and 2 minutes of cron, 2 calls at once, no crash | violated |
| `relay` | `TypeOK`, `RolesAreExclusive`, `AnswersItsPhone`, `HandedOff`, `QuietIsReachable` | 1 server with 3 sockets, a rival that may own the name, 2 phones with one visit each, 1 fault | holds |
| `client` | `TypeOK`, `OnePursuit`, `KeyFits`, `QuietIsSettled` | 3 sockets, 2 attempts, 1 fetch, 1 visibility change, 1 stop, 2 faults | holds |
| `reconnect` | `ReconnectingIsPursued` | 3 sockets, 2 attempts, 1 fetch, 1 fault | violated |

`CHECK_DEADLOCK FALSE` everywhere: a session ends, and calls, messages and tool
calls are finite and made once.

**Bounds.** Two tool calls are the least with a first and a next approval, and
the second one (`ExitPlanMode`) is asked in every mode and changes the mode. Two
messages meet every pair of places (queue, inbox, steering, deferred, handled)
and make a second turn. `MaxOut = 3` lets the loop fall two turns and the end of
the stream behind. Five calls on one worker with a queue of two reach a full pool,
a full queue, a preemption that races the queue, and a restart of a session that
is being resumed. Symmetry over messages (`safety`) and tasks (`overlap`) is used
in runs without liveness only.

The control plane is checked twice, because most of what it promises holds only
while calls do not overlap. `serial` has every operation of a person and of a
timer, two runs so that the second meets the record of the first, two subtasks, and
turns, retries and tokens that run out. Its supplements (`MCSupplements`) are one of
everything, one that gives neither a turn nor a retry, and one that takes the retries
away again; `TurnCap` bounds how far they go. `overlap` has two tasks, so that an operation meets every intermediate step
of another one, and a crash anywhere; what it checks is what survives that. In
`trigger`, one crash makes the difference between an event that was appended,
started or marked; a second call at once is what `lost` is about, so `trigger`
has one. In `relay`, two phones are the least that could be joined with each
other, and the owner has sockets for one waiting, one replaced and one handed-off
connection. Three sockets in `client` are the current one, the manager's attempt
and one of a fetch; two faults let an attempt fail after a connection was lost.

**Fairness.** The event loop runs what is ready and timers fire (weak fairness of
the loop's steps and of the timer); the agent reads its input, works off its
turns, settles steer calls and hooks, and ends its stream after `abortFn()`; in
the Supervisor every await settles, because aborts and `waitForSessionId()` have
timeouts and a provider's start returns or throws. Nothing is assumed of users,
of dying agents, or of the idle timers of the Supervisor's processes. In
`RunControl` calls under way go on (`Step`): each awaits a file, a turn or a
verification that has a timeout. In `TriggerQueue` file accesses complete, the two
timers fire, the events that cron hands on are delivered in spite of other
deliveries (they wait for nothing; strong fairness, because the model's one task
is busy and free in turn), and a run ends: a run that waits for a person is
answered some day, which the code cannot ensure and the properties presuppose.
`RunsRest` excepts what no fairness helps with: a supplement that does not give what the
run lacks leaves its record active, since the next `budget_limited` of the same turn has
the id of the first and is taken for its replay (`Unsupplemented`, hazard of
`control-plane.ts:546`; calls need not overlap for it). `PendingIsSettled` excepts an
event that no drain can parse and those behind it in the file, which the drain does not
reach (`trigger-dispatcher.ts:34`).
The runs `relay` and `client` need no fairness: instead of "eventually" they
state what holds in every state where nothing is under way.

**Refinement.** `FollowsRunStates` is `RunStates!Spec` with the persisted state of
each run for `state`: every save is a move along the table, and a run begins only
when the runs before it are over. `serial` shows it. It fails once calls overlap
(`MCRunControl_pause.cfg`), because the table is checked against the record that a
call has loaded and not against the one it overwrites.

**Findings.** Four runs show a disagreement between the code and what it says:

* `resume`: leaving a hold hides an approval that is still pending. The input
  route then refuses every answer and the agent waits.
* `stuck`: a crash between the save of a retry and its checkpoint leaves the run
  in retry for ever, since the table has no way from there to `needs_human` or
  `failed`, which the recovery wants.
* `lost`: an event that is appended while another call rewrites the queue file is
  gone.
* `reconnect`: two overlapping connection attempts act on each other's socket and
  leave the manager reconnecting with nothing under way.

Further disagreements are kept as configurations to be run by hand (`tlc -config
<file> <module>`); each ends in a counterexample:

| Configuration | Property | What happens |
|---|---|---|
| `MCSessionProcess_terminated.cfg` | `TerminatedIsFinal` | the end of a killed agent's stream turns a terminated process idle |
| `MCSessionProcess_idle.cfg` | `IdleAgentRests` | a process is shown as idle while its agent works on a queued message |
| `MCSupervisor_capacity.cfg` | `MaxWorkersKept` | calls that overlap exceed `maxWorkers` |
| `MCSupervisor_duplicate.cfg` | `OneProcessPerSession` | two resumes start two processes for one session |
| `MCSupervisor_consolidate.cfg` | `QueuedMessagesKept` | a message for a session with a queued request is dropped |
| `MCRunControl_pause.cfg` | `StepsAreLegal` | a pause and the judgment of the turn it interrupts overwrite each other |
| `MCRunControl_subtask.cfg` | `SubtaskIsNext` | after a crash the subtask that a person had passed over is done again |
| `MCRunControl_misaddressed.cfg` | `LedgerExplains` | a rejection of a run that an exception has released fails the run that waits by now |
| `MCRunControl_supplement.cfg` | `NobodyStuck` | a supplement of retries, tokens or time for a run without turns leaves it active with nobody at work: the next `budget_limited` has the id of the first; one call after the other is enough |
| `MCRunControl_leak.cfg` | `RetriesAreItsOwn` | the first advance of a run takes the budget, retries included, of the run before it |
| `MCTriggerQueue_malformed.cfg` | `AlwaysSettled` | an event without the id it needs stays pending and keeps every drain from those behind it |
| `MCTriggerQueue_twice.cfg` | `StartedOnce` | two drains that list the same entry start two runs for it |
| `MCRelay_persist.cfg` | `WaitingPersists` | two servers' sockets replace each other without end |

Hazards of the run control that were met while modelling and have no property of
their own: `findWaitingRun()` may answer the record of another run
(`lookup.ts:48`); a second approval of the same turn is swallowed as a replay; a
run that is approved before its first ledger entry cannot be rebuilt and stays
active (`turn-loop.ts:1824`); a pause with a quick resume leaves two drivers on
one run; `releaseRun()` clears `activeByLoop` although a newer run may be in it
(`turn-loop.ts:1747`); a pause is refused while the last record is that of a
discarded run (`run-service.ts:308`); `auto_abandon` throws for paused runs.

`WorkersAreFound` and `DeadWorkersWereNew` state what does hold in spite of
these: a worker is unreachable only if another process has its session, and a
dead worker stays in the pool only if `startSession()` made it, which subscribes to it
after `waitForSessionId()`.

## 4. Proofs

The proof modules state theorems for every value of the constants: any sets of
messages, calls, runs, events, sockets, any budgets and limits, any number of
crashes and overlapping calls. The only assumptions are the named ones of the
modules (`ConstantsAssumption` of `SessionProcess` and of `Supervisor`,
`ControlPlaneConstants`, `NoRecordAssumption`, `NoBudgetAssumption`, `TriggerConstants`, `RelayConstants`,
`ClientConstants`: types of constants, that "nothing" is not a value, that a client's
sockets are finitely many and that a run has at least one turn), which TLC evaluates on every run, and where it is stated the hypothesis
`OneCall` or `Serial`. Each module has an inductive invariant `IInv` that TLC checked first,
a lemma per action that preserves it, and theorems that draw the properties of the
runs from it.

**Queues.** `Without` takes out the element at a chosen index, `Filtered` is a
recursive function; what they do to any sequence is proved through the least
counterexample (`LeastElement`, `FilteredFacts`), since the library's induction
theorems, which take an operator, cannot be used here.

**SessionProcess.** `SessionInvariant` is `Spec => []IInv`: `TypeOK` with an
approval part (`ApprovalsTracked`, `WaitingShows`, `ShownFirst`), a control part
(`TerminatedIsClean`, `SleepsOnlyWhileHeld`, `FailedIsReleased`, `IdleIsTimed`) and
an agent part (`AgentGone`, `NoOrphanAgent`). All eight invariants of the run
`safety` follow. What the strengthening is for:

* `ShownFirst` needs `WaitingShows`: a `waiting-input` state carries a request that
  was put to the user, so a request shown earlier and answered since cannot become
  open again behind the others. It also needs `ApprovalsTracked`, since `AskUser`
  shows a request at once only when the map is empty.
* `IdleIsTimed` needs `FailedIsReleased`: after a transport failure the process is
  no longer registered, so a `transitionToIdle()` whose queued message is refused
  leaves nobody without a timer.
* `NoOrphanAgent` needs `AgentGone`: an open stream has a live agent, and a
  termination error is read only from a dead one.
* `MessagesConserved` (each accepted message is in exactly one of `Places`, at one
  position of its queue; a deferred one is neither accepted nor refused yet) needs
  `FailedIsReleased` and `TerminatedIsClean`: a message is refused only by a process
  that is no longer registered, or about to be.

`ModesAreOrdered` is a fact about the operators of `ToolPolicy`.

**Supervisor.** All six invariants of `pool`. Three more facts make them inductive:
`Lives` (a process exists exactly from the return of its start, and its call says
where it stands), `TogglesProcess` (the process that a call found before an await
was a process once) and `IdsKnown` (a process has its temporary id or its session's).
The handlers thread the calls, the queue and the drained calls through a record;
`WorkOK` is what every step of such a chain keeps, so that each handler is one chain
of lemmas.

**RunControl.** `RunControlInvariant` says of the files that every record is in
order and backed by a decision, and of every call under way that it knows its run and
its context, that the record it is going to save is in order, and that its decision
is in the ledger once only the save is left (`TaskOK`, `Covers`, `Backed`). `GatesAlone`
(a call that may still stop at the gate of its contract has its context to itself) is
needed because the gate sets the turn of the context to 0, which would break
`AdvancePositive`. `RecordBacked`, `WaitingIsAnswerable` and `TypeOK`
follow, for any overlap and any crash. The proof corrected the model and a property:
`RecordBacked` was stated for the decisions of the run alone and is false so. The index
of `findWaitingRun()` and the reload in `beginTurn()` may take a decision for one run
and save it to the record of another; `Misaddressed` names these decisions and
`MCRunControl_misaddressed.cfg` shows one.

**RunControl, one call at a time.** `SerialRuns_proofs` proves `FollowsRunStates`, the
refinement of `RunStates`, and `SubtaskIsNext` under the hypothesis `Serial`: no
overlapping calls, no crash, no `discard` and no `throws` among the operations, and
`maxSameFailure` at least 1 when contracts stop at a gate. Overlapping calls break the
first property, crashes the second (`MCRunControl_pause.cfg`, `MCRunControl_subtask.cfg`).
An exception releases the loop while the run's record is active, so that the next run
begins too early. A discard of an earlier run makes its record the last one, on which the
invariant relies; TLC finds no violation with discards in the bounds of `serial`, and the
theorems say nothing about them. With `maxSameFailure` 0 the gate fails the run, but
the call goes on with its turns as if the gate had been passed. `serial` satisfies the
hypothesis, and TLC checked the invariant there first.

`SerialInv` says that at most one call is under way, and of it, or of the idle loop,
`SerialOK`: the run that holds the loop is the only one that is not over, wrote the last
record, and the indexes of memory agree with the files (`RunsOK`, `PendingOK`);
decisions that end a run are final, and a decision about a record that waits is not yet
in the ledger, so that no replay swallows it (`LedgerOK`); a decision that is prepared is
one that the table allows on the file, not only on the record the call has loaded
(`DecisionOK`); and `Progress` ties the turn and the subtask of the context under way to
the record and to the advances in the ledger, in four parameters: how far the turn may be
ahead of the record and of the decisions, and how many advances are decided but not yet
in the context or in the ledger. The steps of `Promise` are read off it: whoever saves,
saves the record of the run that holds the loop (`Moves`), in a state that it may move to
(`MovesRefine`).

`RetriesKept`, that a retry is decided only within the limit of its own record, cannot be
read off the record: a later supplement may lower the limit below what was used. `PaidInv`
says it of the ledger instead: every snapshot, and every record that a call holds, has
paid for the retries that its run has in the ledger, and the only decision that adds one
is a judgment of a record whose budget allows it. It needs `Serial`, because overlapping
calls save a budget that was loaded before a retry.

**TriggerQueue.** For any number of calls at once: `TypeOK`, and `DoneHadItsRun` (which is about
the events that start a run, not about those that resume one) from `DoneInv`, which extends it to every copy of the file under way (`tmp`, the `content`
of a call) and to the mark a call is about to set. With one call at a time (`OneCall`,
as in the run `trigger`): `AcceptedIsKept` and `StartedOnce`, from `SerialInv`: no
event has two entries; the rest of a drain's list is pending in the file; a prepared
copy has lost nothing, settles the first event of the list and leaves the others
pending (`Rewrites`); an event whose run was started once more than the server crashed
is settled, deleted, or about to be marked (`StartsBounded`). Both fail for two calls:
`lost` shows the first, `MCTriggerQueue_twice.cfg` the second.

**Relay.** `RelayInvariant`: what is under way on a socket suits its ends and its
holder (`WiresOK`); who has not greeted has no role, the waiting socket is the
owner's and unspoken, and what is under way between a paired server socket and the
relay is of its phone (`RolesOK`); a service hears of its registration or of a close
before it hears a phone (`ServicesOK`, which makes the claim safe); a claimed socket is
the service's no more (`ClaimedOK`). `TypeOK`, `RolesAreExclusive`, `AnswersItsPhone` and
`HandedOff` follow.

`QuietReachable` proves `QuietIsReachable`, from a second invariant on top of the first.
`RelayInvariant` says that nothing wrong is on a socket; this property needs that what
should come is on its way, and its negation is far from a single bad step: the service
and the relay each forget a socket on their own, by a close, a timer, a claim or a
replacement, and learn of the other's step by a message. `QInv` names, for every such
gap, what will close it. `ShutsOK`: an end that is closed while the other is not has its
`close` under way. `KnownOK`: a socket that a service takes for its waiting one, or is
about to (`registered` is under way), is the relay's waiting one too; or a `close` or a
phone's first message is under way to the service; or the relay has paired it with a
phone that is about to speak or to leave. `HopeOK`: an enabled service waits, has its
timer set, or is at a registration of which a message is under way. A step at one end of
a socket adds to what is said on it or takes the message it handles (`More`), so most
handlers keep all of it by one lemma, and the proof is about those that take the last
message of a kind. When no message is under way and no timer set, only waiting at both
ends is left.

**ClientConnection.** `TypeOK`, `OnePursuit` and `KeyFits`, for any number of sockets,
subscriptions, attempts and faults. The handlers are functions on one value of the
client, so each has a lemma that says what it does to that value, and the lemmas compose
as the handlers call each other: `Calm` (no attempt settled, no handshake touched, the
pursuit kept), `Later` (the same, but for the attempts that were settled), `Fine` and
`Handled` (what an action needs). Of `ClientInvariant`, `Pursuit` is `OnePursuit` and is
preserved by itself. `KeyFits` is far from inductive: a late `resumed` of an old socket
would authenticate the current one with the wrong key. `KeysOK` says why none comes while
attempts do not overlap: of the handshake of a socket there is one message under way at a
time, in its order (`InitSent`, `Challenging`, `Proving`, `Answered`, `Severed`); as long
as one is, the attempt of that socket is not settled (`SocketOK`); and then no other
socket is current and open (`Rival`). The step of `Become` that forgets sockets and ids
is shown to change nothing that is still in use (`TidiedOK`).

`QuietSettles` proves `QuietIsSettled`, from `RestInvariant` on top of that. Like `QInv` of
the Relay it names, for everyone who waits, what will bring them on. `Telling` says it of
a socket alone: a timer belongs to an attempt under way, a connection that is lost has its
`close` under way, and while a socket is paired or resumes, only what belongs to that is on
it. `Going` says it of an attempt: its socket is connecting, or the relay has yet to answer,
or an answer, a message of the handshake or a `close` is under way (`GoesOn`); or it is
`Orphaned`, which is `Disowned` or has its timer set. `Tied` links the two to the
connection (one attempt, and it is `connectionPromise`; who is connected is past the
handshake; a key belongs to a socket that is past it), `Aimed` to the manager, which awaits
that attempt and no other, and only while the bus has no subscription. `Served` is the bus's
side: a connection that is shown and has heard nothing yet has a subscription that awaits
the attempt, or that is open at the server, or that is on its way there. A handler settles
the attempt before it tells the others, so `Tied` has an argument for the attempts that
need not go on just now; each handler's lemma (`...Rests`) ends with `RestOK`. Everything
is under the hypothesis of the property, that attempts have not overlapped: where
`executeReconnect()` begins a second attempt the links are lost, and the code then loses
them too, which `reconnect` shows. When nothing is under way and no timer set, no attempt
is left but a disowned one, and a connection that is shown has its subscription open.

Only model-checked: everything temporal (`WF`, `SF` and ENABLED are out of the prover's
reach), which is the properties of `live`, `CallsAreAnswered`, `RunsRest`,
`PendingIsSettled` and `BusyMinuteIsKept`.

## 5. Plan

Done: the modules and runs above, and the proofs of section 4. Next, in this order:

1. An abstract worker that `SessionProcess` implements and `Supervisor` uses, and
   `ExternalSessionTracker` on top of the Supervisor's mappings.
2. `TriggerQueue` with `RunControl` in place of its active flag.

## 6. Not modelled

* Agent providers, session readers and indexes, user interface, device, desktop
  and mobile shells: adapters, parsing, rendering and platform I/O, without
  protocols of their own. They are most of the repository's lines.
* Cryptography, the full SRP login, passwords and push. A resume that the server
  refuses fails here; with a password kept the code then tries the full login on the
  same socket (`SecureConnection.ts:491`).
* Policy rules, gates, verification and learning: functions of commands, files
  and texts; what they come to is an input of the models.
* Relations, proposals and maintenance: lifecycles of GitHub data.
* Several usernames at one relay, several loops on one control plane (each loop
  has files of its own), direct connections without the relay.
