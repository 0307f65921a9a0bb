# Verification of pudding-core

`puddingd` is a local daemon (Go, SQLite) that runs conversations with language
models: clients submit user inputs to a *session*, the engine runs one *turn* of
the session at a time (sampling, tool calls, sampling again), and clients follow
what happens over a server-sent event stream.  This directory holds TLA+ models
of the parts of the daemon whose correctness depends on the order in which
concurrent requests, goroutines, transactions, failures and restarts take
effect, the TLC runs that check them on small instances, and the theorems that
TLAPS proves about them for every instance.

`PROJECT.json` lists the components, the runs, the source lines every definition
stands for (`map`), a plausible bug per checked property (`mutants`), the
hazards of the code, the disagreements found and the theorems.

## 1. Inventory of the system

State is in three places: the SQLite tables behind one store mutex (`Store.mu`;
`Store.tx` wraps a transaction, its commit and the publication of its events),
the engine's memory (`Engine.mu`, `Engine.collaborationMu`, one `activeTurn.mu`
per turn) and the hub's memory (`Hub.mu`).  Only the first survives a restart.

| Component | State | Operations | Meets | What is hard | What makes it correct |
|---|---|---|---|---|---|
| **Turns of a session** (`engine.go`, `sqlitestore.go`) | `turns`, `queued_inputs`, `messages`; `Engine.running`, `activeTurn` | submit, queue, promote, steer, cancel, retry, finish, recover | API, hub, collaboration, scheduler | request threads against the goroutine of the turn; transactions that fail; a crash at any point | one running turn, registered; no input twice or lost; accepted steers reach the turn; queue moves |
| **Event log, hub, SSE** (`hub.go`, `sse.go`, `insertEventTx`, `tx`) | `events`; `Hub.subs`, channels, `Hub.pageStreams` | number, commit, publish, retain, subscribe, backlog, forward | every writer of the store, clients | backlog and live events join; slow readers; reconnection; retention | in order, once, no gap; snapshots join the deltas |
| **Collaboration** (`subtask*.go`, `subagent_reset.go`, `collaboration.go`) | child sessions, assignments, receipts, `collaborationMu` | dispatch, send, reset, archive, wait, stop, collect, wake the parent | turns of parent and child | a stop against a child that starts; children that end together; lost wake-ups | slots bounded; a stop reaches all; no result forgotten; the wait ends |
| **Scheduled tasks** (`scheduled_tasks.go`) | tasks, runs, handoffs; `scheduleMu` | create, change, pause, run, claim, submit, reconcile | turns, archiving | a crash between the submit and its record; offline periods; a clock that is set | a run is neither lost nor doubled; no occurrence passes in silence; runs do not pile up |
| **User-input questions** (`user_input.go`) | pending questions in memory; the answer as a message, a steer or a queued row | ask, wait, answer, withdraw, expire | turns (steer, submit), queue | an answer races the end of the turn, a time-out, a repeated answer | an answer is used once and not lost; "answered" is true |
| **Approvals, grants** (`approval.go`, `command_approvals.go`, `project_access.go`) | prompts, leases, identities of the permissions | ask, claim, decide, abandon, revoke, move | turn goroutine, settings of the session | a decision races a cancellation or a revocation | revoked prompts grant nothing; leases end; nobody waits for ever |
| **Tool resource locks** (`subtask_resources.go`) | lock table, background processes | acquire, run, cancel, release | parallel tool calls | several locks each; locks kept by processes | no deadlock; work apart |
| **Session lifecycle** (`server.go`, `session_lifecycle.go`, `session_clone.go`, `attachments.go`) | `archived_at`, resources of the tools, attachments, group locks | archive, restore, delete, clean up, clone, attach | turns, children, tools | admission against closing; copies against the janitor; interruptions | nothing runs or holds anything once released; attachments stay; orphans go |
| Assistant tasks | task rows, wake-ups | assign, collect, wake | turns | the wake-up is refused and remembered | the session is woken |
| **Compaction and cooling** (`compact.go`, `cooling.go`, `messages.go`) | summary rows, `session_context_cooling`, `e.compacting` | read, summarise, commit, cool | turns, steers, notices, resets | the history moves while a summary is written | nothing is forgotten; the running turn and its exchanges stay whole |
| Widget runs | runs, receipts, deliveries | notify, deliver, start, pause, stop | turns of several sessions | pausing against turns that end | a notice is recorded once |
| Turn output | part accumulator, coalescer | append, merge, commit | hub, store | merge of deltas | text is the concatenation |
| Pages, sheets, studio, library | documents with revisions | edit, restore | store | revision checks | one transaction each |
| Providers, tools, plugins, LSP, browser, audio, mail, GitHub, files | processes, devices, files | I/O | turn goroutine | external | out of scope |

The components in bold are modelled.  `PROJECT.json` lists them all, with the
ones left out and why.

## 2. Plan

Done, in this order:

1. `TurnLifecycle`: the turns of one session, with `InputDelivery` as abstract
   specification and `TurnDelivery` as refinement mapping; `TurnLifecycleProofs`, with the
   refinement and what follows from it.
2. `EventStream`: log, hub and SSE handlers of one session; `EventStreamProofs`.
3. `ToolLocks`, `UserInput`, `Approvals`, `SessionLifecycle`, `Collaboration`,
   `ScheduledTasks`, with a module of proofs each (`PromptProofs` for two).
4. `Compaction`: what a model request holds of the history; `CompactionProofs`.
5. `MCSessions`, `MCServices`, `MCBackground`: the suites that check 2 to 4.

Left:

1. Assistant tasks and widget runs over an abstract turn; the undo and redo of
   the turn file tracker; the revisions of Studio documents.
2. Algorithms against reference definitions: the coalescer of stream events, the
   calendar of a schedule.
3. Abstract specifications of the stream and of an answer, beside `InputDelivery`.

Every safety property of a run is a theorem; what is left to prove is what new
models will promise.

The daemon has about 97,000 lines, and three quarters of them are tools,
providers, bridges to desktop, browser and audio, and data access without a
protocol.  The models follow the code that is shared by concurrent actors, not
the share of lines.
## 3. TurnLifecycle

One root session.  A turn is named by the client message ID it was created with
(`UNIQUE(session_id, client_message_id)`), so the table `turns` is a function of
IDs.  User inputs (`Input`) and system turns (`Wake`: wake-ups of the session and
retries of a failed turn) have distinct IDs.

**State.** `turn`, `latest`, `input`, `queue`, `steerOf`, `steer` are the tables;
`queue` lists the rows with status queued or editing by `sort_order`.  `running`,
`accepting`, `pending`, `cancelled` are `Engine.running` and the fields of
`activeTurn`.  `worker`, `outcome` say where the goroutine of a turn is; `pc`,
`arg`, `seen` where a request thread is, with the turn it read from
`Engine.running` earlier.  `collab` is the holder of `collaborationMu`.
`stranded` (turns whose `FinishTurn` failed) and `sent` (how a client sent an
input first) are history variables; the first does not influence a step, the
second constrains clients only.

**Steps.** A store transaction is one step (one mutex, one SQLite transaction).
A section under `Engine.mu` that contains a transaction is one step too: begin
and register (`BeginTurn`), finish and unregister (`FinishTurn`), promote and
register (`TryDrainQueued`), and under `activeTurn.mu` accept and remember a
steer (`AppendTurnSteer`, `SteerQueuedInput`).  Between two such sections a
handler interleaves with everything else: `Submit` has `CheckQueue`, `BeginTurn`
and `QueueInput`; a queue edit and its drain are two steps; `Cancel` reads the
registration and acts on it later.  `consumeSteers`, the commit of the turn's
parts and `ApplyTurnSteers` are sections of their own in the code and one step
`JoinSteers` here: what may happen in between (a failure, a crash, another
steer) has the same outcomes before or after it, and they are in the model.

**Faults.** With `StorageMayFail`, the transaction of any request
(`RequestFails`), of the steers (`JoinSteersFails`, `WrapUp`), of the end of a
turn (`FinishTurnFails`) and of its drain (`WorkerDrainFails`) may fail.
`Crash` kills the process anywhere; `RecoverTurns` and `RecoverQueue` are
`Engine.Recover`, which the daemon calls before it serves.  A graceful stop is a
cancellation of all turns followed by an exit and adds no outcome to these.

**Clients.** `Retried` holds the inputs a client may submit more than once (a
lost response, a double click), `Steered` those it may send or promote as
steering.  Every request may be made at any time by any thread.

### Runs

| Run | Instance | Question |
|---|---|---|
| `turn_admission` | inputs `a` (retried), `b` (steered), 1 wake-up, 2 threads, failing storage | `TypeOK`, `OneRunningTurn`, `RunningIsRegistered`, `DeliveredOnce`, `QueueMatchesHistory`, `SteersSettled` |
| `turn_liveness` | 2 inputs, 2 threads, 1 crash, fair | `RunningTurnEnds`, `QueueMovesOn`; `DeliveryImplemented`, across the crash |
| `turn_queue_poisoned`, `turn_resubmit_steered`, `turn_lost_wakeup` | 2 inputs, 2 threads | findings, section 14 |

Two threads are enough for every race between two requests, and the goroutines of
several turns (one finishing, one starting) race with them.  Three inputs, which
give a queue with head, middle and rest, and the combinations of failing storage,
crash and wake-up were checked by hand (section 12); a retry together with a
crash is covered by the theorems alone.  A second crash starts from a state that
a first one can leave as well.  Deadlock is checked in both runs.

**Abstract specification.** `InputDelivery` has no threads, locks, crashes or
rows: an input waits, is withdrawn, starts at most one turn or joins at most
one, and turns follow one another.  `TurnDelivery` reads its state off the
tables alone: `FateOf`, the queue, the running row, the terminal rows.

**Fairness.** Strong fairness of every step of a request thread and of a turn
goroutine: the Go runtime schedules each, and a Go mutex goes into starvation
mode and is handed over in arrival order, so a step that waits for
`collaborationMu` again and again gets it.  Weak fairness of recovery: the
supervisor starts the daemon again.  None for calls of clients, faults and
crashes, and none for a stream that nobody has cancelled: while a turn streams it
may wait without a timeout for a decision (`approval.go:398`, `:491`), for its
children (`subtask.go:284`) or for the keys of a tool (`subtask_resources.go:67`).
Each of these waits selects on the turn's context, so a cancelled stream does end.
`RunningTurnEnds`, `QueueMovesOn` and `QueuedInputAdvances` therefore except a turn
that streams for ever without being cancelled (`Waits`).

## 4. EventStream

One session's `events` table, the hub and the SSE handlers of its readers.

**State.** `latest` is `MAX(seq)`; `published` the event published last.  While
`published < latest` a transaction is between its commit and the release of
`Store.mu`: `StoreUnlocked` guards whatever else takes that mutex.  `subs`,
`chan` and `streams`, `captured`, `overflow` are the hub: subscriptions with
their buffered channels, and the argument snapshots of page-editing tool calls.
`stage`, `cursor`, `replay` are the handler of a reader; `position` is the
client's `Last-Event-ID`, `received` and `heard` what it has been sent, `start`
the tail it began at.

**Steps.** `Commit` allocates the numbers of a transaction's events,
`PublishCommitted` publishes the next of them (the end of a turn drops its
argument streams), `EmitArguments` and `RunCall` publish transient events,
`Publish` cuts off a reader whose buffer is full.  A handler goes through
`Connect`, `ReadTail`, `Subscribe`, `ReadBacklog`, `WriteBacklog` (one event
each), `ForwardLive`, and leaves by `EndOfChannel` or `Disconnect`.  `Crash`
loses hub, handlers and publications.

**Abstraction.** The text of arguments is a number of unit deltas, so a snapshot
is an interval of them.  Other transient events do not change the hub and would
be further messages of the kind `phase`.  The coalescer merges deltas before
they reach the hub: a delta of the model is one that was published.  The age
limit of two minutes is a choice: any set of streams that were updated longest
ago may have expired.  `maxPageStreams` counts streams of all sessions; here all
calls are of one.  The writes to the socket are the receipt: what the network
loses is lost behind the client's position and a resumption asks for it again.

### Runs

| Run | Instance | Question |
|---|---|---|
| `services` | 1 reader, 5 events in transactions of any size, 3 retained, buffer 2, 1 call, fair | `StreamInOrder`, `StreamComplete`, `StreamDelivers` |
| `sessions` | 1 reader, 2 calls, 1 stream, buffer 1, 4 deltas in streams of at most 2 | `SnapshotsJoinDeltas` |
| `stream_truncated` | 1 reader, 1 call | finding, section 14 |

The buffer (64 in the code), the retained window (1000) and the limits of the
snapshots (32, 256 KiB) are constants, small enough that every one of them is
exceeded: with 5 events, 3 retained and 2 buffered, a reader is cut off, resumes
inside and behind the window, and subscribes amid a half-published transaction.
Readers meet only in the hub's set of subscriptions; the theorems hold for any
number of them.

**Fairness.** The transaction goes on to its last publication, and a handler of
a connected client goes on (weak fairness suffices: each step stays possible
until it is taken, except the read of the backlog, which waits for the store;
publication is finite).  None for clients, transactions and crashes.

## 5. Collaboration

A main conversation and the child sessions it dispatches work to.

**State.** `main` and `child` are the latest turn of each session and where its
loop is, `mainInput` and `childQueue` the queued inputs, `barrier`, `archived`
and `receipts` the tables `collaboration_stops`, `subtask_archives` and the
result messages.  `stopping` is `collaborationMu`: of its sections only the stop
has more than one step.  `drains`, `checks` and `wakes` are goroutines under way:
a call of `TryDrainQueued`, the callback of an ended turn, a wake-up on its way
to `Submit`.

**Steps.** `Dispatch`, `Send`, `Reset`, `SetArchived` are sections under the lock;
`StopStore` writes the barrier and empties the queues of stopped work,
`StopCancel` cancels the children, in a step of its own.  `CollectMain` is the
start of a main turn, which reads the results and leaves receipts,
`CheckResults` and `WakeMain` are what follows the end of a child's turn.
The wait of the main turn looks at its children by several calls of the store and
without the lock (`childrenBusy`): `ListChildren` reads which of them run,
`ReadChildQueue` the queue of one, `ChildrenIdle` ends the wait when none of these
has shown work.  Everything else may happen between them.

**Abstraction.** A turn is reduced to the points where the main turn dispatches,
collects and waits.  Callbacks that are pending together are merged (`checks`);
a drain of an empty queue is dropped.  Left out: a crash of the daemon, the quotas
of a fresh context and of all children, the replay of a dispatch by the ID of its
call, steering a child.

**Exceptions.** `NoResultForgotten` excuses what `missed` records, each a case the
code leaves to the next turn of the main conversation: the turn of a child was
cancelled, the wake-up was refused by an input that was queued and then
withdrawn, or withdrawn work lets an older result come up again.
`DelegatedWorkFirst` excuses the children in `main.slipped`: one whose queued work
was promoted after the list was read and before its queue was, so that it was
neither running nor queued to the eye of the main turn (section 14).

**Fairness.** `StopCancel`, the steps of the look at the children (a ticker polls
every second), `TryDrainQueued`, and `FinishChild` of a child that is cancelled.
None for people, and none for the turn of a child that nobody cancels, which may
wait for a decision or for keys.  `WaitEnds` says that the wait of a main turn ends
unless an editor keeps a child's queue or one child's turn goes on for ever.

## 6. ScheduledTasks

**State.** `task`, `run` are the tables, `input` what became of the input a run was
submitted as, `worker` the holder of `scheduleMu`, when it has more than one
step, `ticker` the scheduler's last look at the clock and whether it has come from
there to the lock.

**Steps.** The scheduler reads the clock, and whether it was away, before it asks
for the lock (`TickRead`); a manual run, which reads the clock under the lock, may
get in between.  With the lock (`TickBegin`) a tick resubmits what is pending (`TickPending`), lists the due tasks
(`TickList`) and accepts one after the other (`TickTask`); a run is accepted by
one transaction, submitted (`SubmitRun`) and marked by another (`HandOff`).
`WorkerFails` and `DaemonRestarts` may come between any two.  The archiving of a
session takes no lock of the engine and may come anywhere.

**Abstraction.** A repeating task occurs every `Period` units, a unit being the
five seconds of the jitter; calendars and daylight saving are reduced to that.
Every task has a session of its own.  A conflict of revisions and a repeated
request change nothing and are left out.  One budget, `MaxEvents`, bounds what
people, failures and the clock do.

**Exceptions,** each a case the code really has: `EveryOccurrenceRecorded` excuses
occurrences that passed while a tick had failed or the clock was set back
(`upset`): the failed tick loses the flag that the daemon was offline, so an
occurrence that passed meanwhile is not recorded as missed, although
`docs/scheduled-tasks-plan.md:104` counts it as offline.  `NoPileUp` excuses a run
that hides behind an older one with a later `accepted_at` (`Hidden`), after the
clock was set back or when a tick came late to the lock, and a failed run that a
person takes up again (`reopened`) while the handoff of a later one has failed.
`DueIsServed` excuses `Blocked`: the clock was set back, and the occurrence a task
expects next has a run already (`schedule_stuck`).

**Fairness.** The ticks and the submission of an accepted run.

## 7. UserInput

One question of the model to the user: the tool call that waits (`wait`,
`question`), the turn that asked (`asking`), the answer as a steer, a turn or a
queued row (`steered`, `begun`, `row`), and the clients that answer
(`answering`, which is `inputAnswerMu`, and `calls`).  A call that answers reads
the memory, the messages and the queue, and then steers or submits, each in a
step of its own; the turn ends, the queue moves, the answer is withdrawn and the
daemon dies between them.  `AnswerDeliveredOnce` is about these reads being out of
date; `AcceptedAnswerKept` says an accepted answer is on record or waits, unless
a person withdrew it; `AnsweredMeansRecorded` relates the status "answered" to
the history.  Left out: a person who steers the queued answer out of the queue
between two of the reads, archives the session, or edits the queued row.

## 8. Approvals

The prompts of a turn's tool calls (`prompt`, `listed`), the clients that decide
(`resolving`, `claim`, `sent`) and what an approval leaves (`saved` with the
session, `lent` to the turn, the leases of `commands`).  The engine's lock covers
each look at the memory, not a decision: a client claims, reads the store,
completes and answers in four steps.  What ties a decision to the permissions it
was asked under is the identity of two objects in memory (`issued` numbers them),
which a revocation drops.  `RevokedPromptGrantsNothing` and `RevokedCommandStays`
are about a decision that comes after a revocation, an edit of the directories
or a move of the session, `PromptsSettled` about a prompt that waits for a client
that will never come, `LeaseEndsWithTurn` about what outlives the turn.  Left out:
the checks of `commandAccess`, grants of desktop applications, diagnostics, the
lease of a mode.  Reading the project and its roots is one step with capturing
the identities.  A command that was cleared is checked once more (`CheckCommand`)
and then waits for the keys of its directories, as long as other conversations
work there, before it runs (`RunCommand`); nothing is checked after that wait, so
`RevokedCommandStays` excepts a revocation that comes during it (`late`,
section 14).  The PATCH that changes the mode revokes after the update of
the store like the one that changes the project, which is modelled.

## 9. ToolLocks

Each session has a lane of tool calls; a call takes its keys in sorted order
(`Acquire`), runs, and gives them back, or leaves a background process that keeps
the workspace's key (`process`).  `token` holds the keys that are free.  What gives
the keys of a process back is a poll that does not find it in the table of
processes any more.  It leaves the table when it has exited (`Exit`); but the
archiving or deletion of its session takes it out first (`CloseProcesses`) and
stops it then, which takes seconds and may fail (`OrphansExit`).  `orphans` are the
sessions with such a process; the quota still counts it, so the workspace is not
cleared.  `WorkApart` says that no two calls or listed processes work on one key,
and that no workspace is cleared while a process of the session lives; what an
unlisted one does is excepted (section 14).  `CallServed` says that a call gets its
keys unless some process runs and is listed for ever.  No fairness makes an
unlisted process exit.  Fairness: strong for `Acquire`, since a Go channel serves its
receivers in order, weak for the other steps; background processes exit only if
they like.  Left out: shutdown, and the serialisation inside the computer
manager.

## 10. SessionLifecycle

A request (`work`) locks the group of its conversation (`lock`), closes admission
(`CloseAdmission`), cancels (`CancelWork`), waits (`Join`), and releases the
resources or removes rows and files (`ReleaseGroup`, `DeleteRows`,
`RemoveFiles`).  The janitor lists what has expired (`ListExpired`) and purges
one after the other under the same lock.  A clone holds `attachmentMu` (`blobs`)
from the copy of the files to the insertion of the session.  `Interrupted` is a
failing call or a client that goes away at any step, `DaemonDies` a crash.
`ReleasedAtRest` says that what was archived or deleted with success neither runs
nor holds resources, which `docs/agent-tool-contracts.md:66` asks for;
`AttachmentsKept` that a session that refers to files has them;
`OrphansReclaimed` that files without a session go.  Fairness: the daemon goes
on with something it can do; nothing of clients.  Left out: the kinds of
resources, drafts, size limits, archives of Studio items, the deletion of
assistants, and errors of the database other than `Interrupted`.

## 11. Compaction

What a model request still holds of the history of one session.

**State.** `history` is the table of messages by rowid, each with its kind, its
turn and `created_at`; the order of the conversation is `Precedes`.  `loop` is
where the running turn is, `steers` its pending steers, `work` the compaction
that holds `e.compacting` with what it has read, `trial` and `mark` the cooling.

**Operators.** `SubagentContextMessages`, `EffectiveMessages`,
`SplitRecentInputTail`, `CompactPartition`, `ColdTurns`, `CoolingCandidates` are
the functions of the code on sets of messages.  A summary holds what it replaces
(`cold`) and what it keeps word for word (`tail`).

**Steps.** The tool loop applies steers, cools or compacts, samples, calls tools
or answers; a compaction reads in one step (`CompactInTurn`, `ReadIdle`) and
commits in another (`CommitInTurn`, `CommitIdle`), and between them steers,
notices of widgets, resets, other turns, a stop and a crash write the history.

**Abstraction.** Budgets are any outcome: a request is near the limit when it
likes, and any number of recent inputs up to `TailTurns` may fit.  Left out are
screenshots and the messages a hot widget action refers to.

**Properties.** `NothingForgotten`: a message is in the next request or was
summarised; its exception is the finding `compaction_swallows`.
`CurrentTurnKept`: the running turn keeps its inputs and its last exchange.
`ExchangesWhole`: no request has a result without its call.
`CoolingSparesTurn`: cooling hides nothing of the running turn.

## 12. Runs and bounds

| Run | Module | Components | States |
|---|---|---|---|
| `turn_admission` | `MCTurnLifecycle` | turns | 1.8 million |
| `turn_liveness` | `MCTurnLifecycle` | turns, with crash, under fairness | 41,000 |
| `sessions` | `MCSessions` | collaboration, questions, consent, lifecycle, snapshots | 2.3 million |
| `schedule` | `MCBackground` | scheduler, compaction | 523,000 |
| `services` | `MCServices` | collaboration, locks, stream, lifecycle, under fairness | 169,000 |
| seven more | | findings | section 14 |

The suites (`MCSessions`, `MCServices`, `MCBackground`) put components that share
no state beside each other: the variable `part` names one of them in the first
state, and the others never move.  TLC thus explores the sum of the instances,
and the fairness of one asks nothing of the others' behaviours.  The suites do
not check for deadlock: people may stop acting in every component.

| Component | Instance | Why it is enough |
|---|---|---|
| Collaboration | 2 children, 1 slot, 2 main turns, 2 turns of children, 2 acts of people (`services`: 1, 2, 1) | a child waits for the other's slot; a stop finds one running and one queued; a result of an earlier turn is collected by a later one; a promotion between two reads of the wait |
| UserInput | 2 callers, 2 mishaps | an answer and its repetition; the answer withdrawn and a crash |
| Approvals | 2 prompts, 2 projects, 2 turns, 2 changes | a prompt of each kind; a lease of an earlier turn; two revocations around a decision, a check and a dispatch |
| SessionLifecycle | 2 conversations (one cloned), 1 child, 2 clients, 1 fault (`services`: no child) | two requests and the janitor on one group; a fault at each step |
| EventStream | section 4 | |
| ToolLocks | 2 sessions, 2 directories, the processes of one session closed (`ClosedLanes`) | two keys in both orders; a process that keeps one; one that lives on unlisted while the other session works |
| ScheduledTasks | 1 task, repeating or once, 1 manual run, 3 runs, clock up to 2, 2 events | a manual run between occurrences and between the two steps of a tick; two of crash, failure, clock set back, pause, resume and change at each step |
| Compaction | 5 messages, 3 turns, `TailTurns` 1, `KeepTurns` 0, 1 steer, 1 notice | input, call, result, steer and summary meet; a second turn cools the first |

Beyond the runs, and without errors, TLC has also checked: turn admission with
three inputs (1.95 million states, with failing storage 2.2 million); the
refinement with three inputs and failing storage (683,000), and with failures, a
crash and a wake-up (1.2 million); snapshots with three calls and two streams
(2.9 million); lifecycle with three clients (483,000), and its liveness with a child (113,000);
compaction with six messages and four turns (472,000), and with two kept turns
(152,000); inductive invariants of section 13, among them `CtxInv` (553,000) and `HeardInv`
(163,000); and `LineIsWaiting` and `DecisionsStand`, which no run names because
the refinement implies them (1.2 million, with a crash, failures and a wake-up).

## 13. Theorems

Every theorem holds for all values of the constants that meet the assumptions of
its module, which TLC evaluates in the runs; none has a bound besides the
constants that bound counters.

`TurnLifecycleProofs`, for any inputs, wake-ups and threads, any number of
crashes, with or without failing storage:

* `TypeCorrect`: `Spec => []TypeOK`.  Not inductive alone: a thread's `arg` and
  `seen` have the kind its position asks for (`ThreadsCarry`).
* `RegisteredTurn`, `OneTurnRuns`: one running turn, and it is registered.  The
  invariant behind it relates row, registration and goroutine of each turn: a
  running row that is not stranded has a goroutine before its end and is
  registered while the daemon serves, an unregistered turn has none, and after a
  crash nothing is registered.
* `QueueAndHistoryAgree`: `QueueMatchesHistory`.  It rests on the freshness of an
  input that its client sends once: the thread that carries it is the only one,
  and before it acts there is neither row, turn nor message.
* `InputDeliveredOnce`: `DeliveredOnce` under the assumption that no input is
  both `Retried` and `Steered`; without it `turn_resubmit_steered` shows the
  counterexample.
* `AcceptedSteersSettle`: `SteersSettled`.  An accepted steer is pending with its
  turn until it is applied, and a turn beyond `wrap` has none.
* `DeliveryIsImplemented`: `DeliveryImplemented`, the refinement of
  `InputDelivery`, for clients that send every input once (`Retried = {}`).  The
  assumption is needed: with a repeated request the code starts the turn of an
  input that waits (`turn_queue_poisoned`), or of one that was withdrawn.
  `DeliveryInv` joins the three invariants above; one lemma per operation maps its
  step to one of the protocol or to none (`BeginDelivers`, `DrainDelivers`,
  `SteerDelivers`, `EditDelivers`, `EndDelivers`, ...), and `RestUnseen` says that
  everything else, a crash included, is invisible at the tables.
* `LineStaysWaiting` and the action property `DecisionsAreFinal` are proved of the
  protocol's steps and carried to the code by the refinement: the queue is the
  inputs that wait, each once, and an input that was withdrawn, started or joined
  stays so, whatever drain, submit, steer or edit races with it.  That a reordering
  repeats no input is the one place that needs cardinalities.
* `WaitingIsNotStarted`: the statement that `turn_queue_poisoned` refutes holds as
  soon as nothing is sent twice.

`EventStreamProofs`, for any readers, calls, buffer, retention and limits:

* `TypeCorrect`; `StreamStaysInOrder`, `StreamStaysComplete`: what a client has
  received is not inductive alone.  `ReaderInv` adds that the channel is in order
  (`ChannelInOrder`), that behind the backlog and what was delivered since it
  holds everything a subscription was promised (`ChannelComplete`), that the
  handler is between its client and the log (`HandlerInv`), and that what it has
  passed over is received or deleted (`ReceivedComplete`).
* `SnapshotsAlwaysFit`: from the bound of the streams.
* `SnapshotsMeetDeltas`: `SnapshotsJoinDeltas`, for any number of calls and
  streams.  `HeardInv` says that the text the hub keeps of a call is all that was
  emitted unless it overflowed (`CapturedUpToDate`), and of each reader
  (`ArgumentsInv`) that a delta continues what is known before it in the channel
  (`DeltasJoin`); that at the end of the channel of a subscriber all that was
  emitted is known, or nothing (`UpToDate`), which the next delta needs; and that
  no delta stands behind the phase of its call (`CallMessages`), which would hide
  what was known.

`ToolLocksProofs`, for any number of sessions and directories:

* `TokensAccountedFor`, `LocksSeparateWork` (`WorkApart`): every key's token is in
  its channel, with one call or kept for one process (`TokensApart`, `TokensKept`),
  and a listed process works on what is kept for it (`WorksKept`).

`PromptProofs`, for any callers and mishaps, any prompts, projects, turns and
changes; first questions, then approvals:

* `QuestionTypeCorrect`, `AnswerReachesHistoryOnce`, `AcceptedAnswerStays`,
  `AnsweredIsTrue`.  `QuestionInv` follows the answer of one call: while the turn
  that asked takes steering the answer can only be steered, later only submitted
  (`OneWay`), and a call gets that far only when nothing was recorded before it,
  because `inputAnswerMu` keeps the others out (`CallKnows`).
* `LeasesEndWithTheirTurn`, `PromptsAreSettled`, and the action properties
  `RevokedPromptsGrantNothing`, `RevokedCommandsStay` (with the exception of
  section 8).  `ConsentInv`: an open tool
  call belongs to the running turn (`OpenInRound`); a listed prompt has a call that
  waits or a client that resolves it (`Resolution`); an identity is made for one
  project and handed out once, so a prompt whose permissions were revoked never
  meets the one it was asked under again (`Identities`).

`SessionLifecycleProofs`, for any conversations, children, clients and faults:

* `LifecycleInvariant`, `LifecycleTypeCorrect`, `ReleasedStaysAtRest`,
  `AttachmentsStay`.  `LifeInv` says what a request may rely on at each step: it
  holds the group's lock (`LockKept`), admission is closed for all members
  (`AdmissionClosed`), the group it has listed still holds every child
  (`GroupListed`), what it has waited for is over (`GroupJoined`), and the files of
  a clone or an upload stay until they have a session (`CopyHeld`, `UploadKept`).

`CollaborationProofs`, for any children, slots, turns and acts:

* `CollaborationInvariant`, `SlotsStayBounded`, `StopReachesAll`,
  `ArchivedStayAtRest`, `DelegatedWorkEndsFirst`, `ResultsAreReported`.
  `CollabInv`: nothing queued was asked for behind the barrier (`QueueUnstopped`).
  A wake-up is known by the turns it reports; when the store has accepted one for
  the turns there are now, a main turn that is past its wait has waited for all
  of them (`AbsorbedAtRest`) and, once sealed, collected them (`AbsorbedSeen`).
  So a result that waits for a completed main turn has a check or a wake-up under
  way that is not taken for a repetition (`ReportPending`).  For the wait: what the
  main turn has listed and read of a child is still so, or the child has slipped.

`ScheduledTasksProofs`, for any tasks, requests, schedules and periods:

* `ScheduleInvariant`; `HandoffStaysTruthful`: the holder of `scheduleMu` owns a
  pending run, so nobody marks one it has not submitted.
* `RunsDoNotPileUp`: a run that is superseded is over, was taken up again or hides
  (`Superseded`); nothing is assumed of the clock or of who gets the lock.
* `OccurrencesAreRecorded`: what is due next is the occurrence after the last one
  recorded (`NextOccurs`, `KeysPast`), and an enabled task is looked at in time
  (`OnTime`); with the arithmetic of multiples of `Period`.

`CompactionProofs`, for any callers, messages, turns, kept turns and tails:

* `ContextInvariant` (`CtxInv`), and from it `NothingIsForgotten`
  (`NothingForgotten`), `CurrentTurnStaysKept` (`CurrentTurnKept`),
  `ExchangesStayWhole` (`ExchangesWhole`), `CoolingSparesRunningTurn`
  (`CoolingSparesTurn`).  Of the history (`HistoryInv`): the order is total, only
  steers move, and no result is in a view without its call.  Of what was ever
  written (`Remembered`): a view has it or a summary covers it.  Of the running
  turn (`TurnInv`): nothing of it stands before its input, and its own messages
  are in the view.  Of a compaction under way (`WorkInv`): what it replaces, what
  it keeps and what was written since are together the view.  Of the cooling
  (`CoolingInv`): its limit is not the running turn and none behind it.
* The argument: what is written stands at the end, so a view grows until a summary
  replaces it, and a compaction that finds the end of the history where it was
  knows all of it.  Steers move, and that a moved one may be the end is the finding
  `compaction_swallows`, which `swallowed` excepts.

**Only model-checked:** liveness (the prover proves none under fairness: `WaitEnds`,
`CallServed`, `StreamDelivers`, `OrphansReclaimed`, `PendingHandedOff`,
`DueIsServed`, `RunningTurnEnds`, `QueueMovesOn`), and the findings, which are
counterexamples.

## 14. Disagreements found

Each is a run that ends with a counterexample to a statement of the repository.

1. `turn_lost_wakeup` (`QueuedInputAdvances`): `Submit` is refused by a running
   turn and queues its input in a later section.  If the turn ends in between,
   its drain finds the queue empty, and nobody drains the new row:
   `docs/technology-decisions.md:152` says it is advanced when the turn ends.
2. `turn_queue_poisoned` (`WaitingInputNotStarted`): two submits of one ID, one of
   which saw an empty queue and one a filled one or a running turn, leave a
   started turn and a waiting row; its promotion fails on the `UNIQUE` constraint
   each time, and so blocks the queue behind it.  `docs/technology-decisions.md:98`
   says a repeated request is reconciled as the same input.
3. `turn_resubmit_steered` (`DeliveredOnce`): an ID that joined a turn as steering
   and is submitted again starts a turn of its own.  Same statement.
4. `stream_truncated` (`SnapshotsAreWhole`): the argument stream of a call that
   paused for two minutes, or was evicted, is re-created by its next delta and
   holds only the text from there on; `contracts/README.md:444` says the
   snapshot replaces what the client has accumulated.
5. `schedule_stuck` (`DueIsAccepted`): the clock goes back after a repeating task
   was accepted, and the task is paused and resumed.  It is due at an occurrence
   that has a run already, `UNIQUE(task_id, trigger_key)` (`migrations.go:136`)
   fails the transaction, and the tick gives up at this task every second for
   ever; tasks behind it in the list are not looked at either.
   `docs/scheduled-tasks-plan.md:87` says it resumes at the next future time,
   and `:105` names clocks that are set back.
6. `session_restored_purged` (`OnlyExpiredPurged`): the janitor reads its list once,
   and deletes a conversation that was restored since.
   `docs/session-collaboration-plan.md:58` says what is deleted has been archived
   for thirty days; the sibling code for Studio (`api/studio_archive.go:62`)
   passes the revision it has read so that it "cannot remove a resource that is
   active again".
7. `compaction_swallows` (`NothingSwallowed`): an idle compaction reads a history
   that ends with a steer, of a turn that has begun meanwhile; the steer is moved
   to the end again, the turn ends, and both checks of the commit pass although
   the history has grown.  `docs/context-compaction.md:30` says a changed history
   is refused so that new messages are not swallowed.

Disagreements met while modelling that have no run of their own:

* A background command keeps the key of its session's workspace until it exits
  (`tool/temp_workspace.go:81`), so the next command of the same session waits for
  it without a timeout, and the agent cannot send the stop it would need;
  `docs/session-collaboration-plan.md:292` asks for that lock, but
  `tool/background_process.go:21` allows four processes per session.
  `CallServed` excepts it.
* A failed tick of the scheduler forgets that it was offline (section 6).
* `childrenBusy` (`engine/subtask.go:250`) lists the children and then reads their
  queues one by one, without `collaborationMu`.  A child that is promoted in between
  is neither running in the list nor queued in the read, so the wait ends and the
  main turn seals its answer while delegated work runs; `tool/subtask.go:27` tells
  the model "Wait until this conversation's subsessions finish, fail, or are
  stopped."  `DelegatedWorkFirst` excepts exactly these children (`main.slipped`).
* A command's permissions are checked at `engine.go:2433`; it may then wait in
  `acquireToolResources` (`engine.go:2712`) as long as other conversations hold its
  directories, and is dispatched without a second check.  A revocation during the
  wait has no effect on it, although `command_approvals.go:99` says "Revocation
  affects future dispatches only, not already-running processes."
  `RevokedCommandStays` excepts it (`late`).
* `closeMatching` (`tool/background_process.go:528`) takes the processes of an
  archived or deleted session out of the table before it stops them; the poll in
  `releaseToolResources` gives their keys back at once, while a stop may take
  seconds and its error is ignored.  `subtask_resources.go:83` says "Keep ownership
  until the process manager reports actual exit/stop/removal", and
  `docs/session-collaboration-plan.md:292` wants the locks kept until background
  commands exit ("后台命令退出后才释放").  `WorkApart` excepts what an unlisted
  process does.
* The scheduler reads the time before it takes `scheduleMu`
  (`scheduled_tasks.go:427`, `:439`).  A manual run that takes the lock in between
  carries a later `accepted_at` than the tick's run accepted after it, and when it
  is over the tick's run is behind it in the list `scheduledTaskLatest` reads: the
  next period is accepted while the task is busy, although
  `docs/scheduled-tasks-plan.md:205` says it is skipped ("定时任务自身忙碌时跳过下一周期").
  `NoPileUp` excepts it (`Hidden`).
* The scheduler takes a clock that was set back for time offline
  (`docs/scheduled-tasks-plan.md:105`, "系统时间回拨时按离线处理"), but `now.Before(last)`
  (`scheduled_tasks.go:428`) compares the monotonic readings of two `time.Now()`,
  which a change of the wall clock leaves alone; `Offline` models what it does.
* Two assignments whose executions share one turn (the second was queued and then
  steered into the first one's turn) get the same result message ID
  (`store/assistant_tasks.go:28`), and collecting them inserts one `messages.id`
  twice (`sqlitestore/assistant_tasks.go:255`): every later turn of that session
  fails at `collectWorkResults`.  `contracts/README.md:461` promises each result.

## 15. What is not modelled

In `TurnLifecycle`: child sessions, their slots and the requeued answers of
questions; archived and deleted sessions; compaction and summary turns; widget
turns; the order of parts and messages inside a turn; file-change snapshots;
titles; the wake-up of assistant tasks at the end of a turn.  In `EventStream`:
pings, the access check of a session, other sessions, the text of events.  For
the others see "left out" in their sections.  Components with status
`not_modelled` in `PROJECT.json` are named there with the reason: planned
(section 2), pure I/O, or data transformation without protocol.

Hazards without a property: retention deletes events a disconnected client has
not seen, which the client is meant to notice by refetching; a steer accepted by
a promoted turn whose provider cannot be resolved stays in the history without an
event (`SteersSettled` excepts the failed turn), and so does one that a crash
catches between its two transactions; and the background command above.
