--------------------------- MODULE ScheduledTasks ---------------------------
(***************************************************************************)
(* The scheduler: internal/engine/scheduled_tasks.go over                  *)
(* internal/store/scheduled_tasks.go and its SQLite transactions.          *)
(*                                                                         *)
(* Engine.scheduleMu serialises the scheduler's ticks, manual runs and the *)
(* edits of people: `worker` is its holder when that holder has more than  *)
(* one step.  A run is accepted by one transaction, submitted as an        *)
(* ordinary input of the task's session under the run's own client message *)
(* ID, and marked handed off by another transaction; the daemon may die    *)
(* between any two, a transaction may fail, and the archiving of a session *)
(* takes no lock of the engine.  The scheduler reads the clock before it   *)
(* waits for the mutex.                                                    *)
(*                                                                         *)
(* Time is counted in units of Jitter's five seconds.  A task repeats      *)
(* every Period units (daily and weekly) or happens once; every task has a *)
(* session of its own.                                                     *)
(***************************************************************************)
EXTENDS Naturals, Sequences, FiniteSetsExt

CONSTANTS
  Task,         \* identities of scheduled tasks
  Request,      \* request IDs of manual runs
  Rule,         \* schedules: Repeating, or the time of a single occurrence
  Period,       \* distance of the occurrences of a repeating task
  Jitter,       \* a longer gap between two ticks counts as offline
  MaxClock,     \* bound: time
  MaxRuns,      \* bound: runs
  MaxEvents     \* bound: pauses, changes, archiving, crashes, failures, clock changes

ASSUME ScheduleAssumption ==
  /\ Rule \subseteq Nat
  /\ Period \in Nat \ {0}
  /\ Jitter \in 0..Period            \* five seconds, and at least a day
  /\ "scheduled" \notin Request
  /\ {MaxClock, MaxRuns, MaxEvents} \subseteq Nat

VARIABLES
  clock,     \* the system clock
  task,      \* scheduled_tasks
  run,       \* scheduled_task_runs in the order of their rowids
  input,     \* of each run: what became of its input in the session
  shut,      \* tasks whose session is archived
  worker,    \* the holder of scheduleMu and where it is
  ticker,    \* the scheduler's goroutine: its last look at the clock, and whether it
             \* waits for scheduleMu with it
  events,    \* bound: events so far
  armed,     \* history: when a person last made the task's schedule count from now
  upset,     \* history: a tick has failed, the clock was set back
  reopened   \* history: runs a person took up again after they had ended

schedVars == <<clock, task, run, input, shut, worker, ticker, events, armed,
               upset, reopened>>

Never     == 0
Repeating == 0
Idle      == [who |-> "none"]

Event == events < MaxEvents /\ events' = events + 1

RunID == 1..Len(run)
Exists(t) == task[t].exists /\ ~task[t].deleted

-----------------------------------------------------------------------------
(* Schedules. *)

\* TaskSchedule.Next: the first occurrence after a time.
OccurrenceFrom(schedule, after) ==
  IF schedule = Repeating THEN ((after + Period - 1) \div Period) * Period
  ELSE IF schedule >= after THEN schedule ELSE Never
Occurrence(schedule, after) ==
  IF schedule = Repeating THEN ((after \div Period) + 1) * Period
  ELSE IF schedule > after THEN schedule ELSE Never

\* ApplyScheduledTaskUpdate and PrepareScheduledTask count from now.
Rearm(t, schedule) ==
  /\ Occurrence(schedule, clock) # Never
  /\ armed' = [armed EXCEPT ![t] = clock]

-----------------------------------------------------------------------------
(* Runs. *)

\* scheduledRunBusy, of a run that was not skipped.
BusyStarted(r) == input[r] \in {"running", "awaiting"}
BusyRun(r) ==
  \/ run[r].handoff = "pending" /\ input[r] = "none"
  \/ input[r] \in {"queued", "running", "awaiting"}

\* ListScheduledTaskRuns orders by accepted_at, then rowid.
Later(r, q) == run[r].at > run[q].at \/ (run[r].at = run[q].at /\ r > q)

\* scheduledTaskLatest: only the latest run that was not skipped can be active.
ActiveRun(t) ==
  {r \in RunID : /\ run[r].task = t /\ run[r].handoff # "skipped" /\ BusyRun(r)
                 /\ \A q \in RunID : (run[q].task = t /\ run[q].handoff # "skipped")
                                       => ~Later(q, r)}

\* SkippedThrough: what was missed offline ends where the scheduler resumes.
ThroughItself(skip, at, now) == at
Through(skip, at, now) == IF skip = "missed" THEN now ELSE at

\* PrepareScheduledTaskRun: the key of a run is its request, or the schedule's
\* revision and the occurrence.
NewRun(t, request, now, skip) ==
  LET scheduled == request = "scheduled"
      at == IF scheduled THEN task[t].nextAt ELSE Never IN
  [task |-> t, request |-> request, at |-> now,
   rule |-> IF scheduled THEN task[t].rule ELSE 0,
   for |-> at,
   handoff |-> IF skip = "no" THEN "pending" ELSE "skipped",
   through |-> Through(skip, at, now)]

\* AcceptScheduledTask
Accept(t, request, now, skip) ==
  /\ Len(run) < MaxRuns
  /\ run' = Append(run, NewRun(t, request, now, skip))
  /\ input' = Append(input, "none")
  /\ task' = [task EXCEPT ![t].nextAt =
       IF task[t].schedule # Repeating THEN Never
       ELSE IF request = "scheduled" THEN Occurrence(task[t].schedule, now) ELSE @]

\* UNIQUE(task_id, trigger_key)
KeyTaken(t, at) ==
  \E r \in RunID : /\ run[r].task = t /\ run[r].request = "scheduled"
                   /\ run[r].rule = task[t].rule /\ run[r].for = at

-----------------------------------------------------------------------------
(* submitScheduledRun, called by a tick or by a manual run. *)

\* The input is looked up by its identity, then submitted.  Submit may fail
\* before it has accepted the input or after.
SubmitRun ==
  /\ worker.who # "none" /\ worker.step = "submit"
  /\ LET r == worker.run IN
     IF input[r] # "none"
       THEN /\ worker' = [worker EXCEPT !.step = "submitted"]
            /\ UNCHANGED input
       ELSE \E accepted, replied \in BOOLEAN :
              /\ replied => accepted
              /\ accepted => run[r].task \notin shut
              /\ input' = IF accepted THEN [input EXCEPT ![r] = "queued"] ELSE input
              /\ worker' = [worker EXCEPT !.step = IF replied THEN "submitted" ELSE "refused"]
  /\ UNCHANGED <<clock, task, run, shut, ticker, events, armed, upset, reopened>>

\* After an error the input is looked up again.
HandoffUnchecked(step, r) == IF step = "submitted" THEN "submitted" ELSE "failed"
Handoff(step, r) == IF step = "submitted" \/ input[r] # "none" THEN "submitted" ELSE "failed"

\* SetScheduledTaskHandoff
HandOff ==
  /\ worker.who # "none" /\ worker.step \in {"submitted", "refused"}
  /\ run' = [run EXCEPT ![worker.run].handoff = Handoff(worker.step, worker.run)]
  /\ worker' = IF worker.who = "manual" THEN Idle
               ELSE [worker EXCEPT !.run = 0,
                       !.step = IF worker.listed THEN "tasks" ELSE "pending"]
  /\ UNCHANGED <<clock, task, input, shut, ticker, events, armed, upset, reopened>>

-----------------------------------------------------------------------------
(* The scheduler's goroutine: scheduledTick, once a second. *)

\* PendingScheduledTaskRuns, manual runs too.
PendingScheduled == {r \in RunID : run[r].handoff = "pending" /\ run[r].request = "scheduled"}
Pending == {r \in RunID : run[r].handoff = "pending"}

\* (The clock that was set back does not count as offline: Go compares the monotonic
\* readings when it is asked which time is before the other.)
Offline == clock > ticker.last + Jitter

\* The time and the gap are those of a moment before the lock is taken.
TickRead ==
  /\ worker.who # "tick" /\ ticker.asks = "no"
  /\ ticker' = [last |-> clock, asks |-> IF Offline THEN "late" ELSE "on time"]
  /\ UNCHANGED <<clock, task, run, input, shut, worker, events, armed, upset, reopened>>

TickBegin ==
  /\ worker.who = "none" /\ ticker.asks # "no"
  /\ worker' = [who |-> "tick", now |-> ticker.last, offline |-> ticker.asks = "late",
                listed |-> FALSE, step |-> "pending", run |-> 0, runs |-> Pending, due |-> {}]
  /\ ticker' = [ticker EXCEPT !.asks = "no"]
  /\ UNCHANGED <<clock, task, run, input, shut, events, armed, upset, reopened>>

\* The runs that were pending when the tick began, the oldest first.
TickPending ==
  /\ worker.who = "tick" /\ worker.step = "pending" /\ worker.runs # {}
  /\ \E r \in worker.runs :
       /\ \A q \in worker.runs \ {r} : Later(q, r)
       /\ worker' = [worker EXCEPT !.step = "submit", !.run = r, !.runs = @ \ {r}]
  /\ UNCHANGED <<clock, task, run, input, shut, ticker, events, armed, upset, reopened>>

\* ListScheduledTasks, and which of them are due.
TickList ==
  /\ worker.who = "tick" /\ worker.step = "pending" /\ worker.runs = {}
  /\ worker' = [worker EXCEPT !.step = "tasks", !.listed = TRUE,
                  !.due = {[t |-> t, revision |-> task[t].revision, nextAt |-> task[t].nextAt] :
                             t \in {u \in Task : /\ Exists(u) /\ task[u].enabled
                                                 /\ task[u].nextAt # Never
                                                 /\ task[u].nextAt <= worker.now}}]
  /\ UNCHANGED <<clock, task, run, input, shut, ticker, events, armed, upset, reopened>>

\* What the transaction finds changed since the list was read.  (An edit needs
\* the lock; the archiving of the session does not.)
Conflict(d) ==
  \/ ~Exists(d.t) \/ d.t \in shut
  \/ task[d.t].revision # d.revision \/ ~task[d.t].enabled \/ task[d.t].nextAt # d.nextAt

Skip(t) == IF worker.offline THEN "missed" ELSE IF ActiveRun(t) # {} THEN "busy" ELSE "no"

\* A task of the list: left alone after a conflict, accepted or skipped.  Any other
\* error, a taken key among them, ends the tick.
TickTask ==
  /\ worker.who = "tick" /\ worker.step = "tasks"
  /\ \E d \in worker.due :
       IF Conflict(d) \/ KeyTaken(d.t, d.nextAt)
         THEN /\ worker' = IF Conflict(d) THEN [worker EXCEPT !.due = @ \ {d}] ELSE Idle
              /\ UNCHANGED <<task, run, input>>
         ELSE /\ Accept(d.t, "scheduled", worker.now, Skip(d.t))
              /\ worker' = IF Skip(d.t) = "no"
                             THEN [worker EXCEPT !.due = @ \ {d}, !.step = "submit",
                                                 !.run = Len(run) + 1]
                             ELSE [worker EXCEPT !.due = @ \ {d}]
  /\ UNCHANGED <<clock, shut, ticker, events, armed, upset, reopened>>

TickEnd ==
  /\ worker.who = "tick" /\ worker.step = "tasks" /\ worker.due = {}
  /\ worker' = Idle
  /\ UNCHANGED <<clock, task, run, input, shut, ticker, events, armed, upset, reopened>>

-----------------------------------------------------------------------------
(* Calls of people and of the model's tool. *)

\* RunScheduledTask: a repeated request is answered with its first run.
RunNow(t, q) ==
  /\ worker.who = "none"
  /\ ~\E r \in RunID : run[r].task = t /\ run[r].request = q
  /\ Exists(t) /\ t \notin shut /\ ActiveRun(t) = {}
  /\ Accept(t, q, clock, "no")
  /\ worker' = [who |-> "manual", step |-> "submit", run |-> Len(run) + 1]
  /\ UNCHANGED <<clock, shut, ticker, events, armed, upset, reopened>>

\* CreateScheduledTask
Create(t, schedule) ==
  /\ worker.who = "none"
  /\ ~task[t].exists
  /\ Rearm(t, schedule)
  /\ task' = [task EXCEPT ![t] = [exists |-> TRUE, deleted |-> FALSE, enabled |-> TRUE,
                revision |-> 1, rule |-> 1, schedule |-> schedule,
                nextAt |-> Occurrence(schedule, clock)]]
  /\ UNCHANGED <<clock, run, input, shut, worker, ticker, events, upset, reopened>>

\* UpdateScheduledTask with the current revision.
Update(t, definition) ==
  /\ worker.who = "none"
  /\ Exists(t)
  /\ task' = [task EXCEPT ![t] = [definition EXCEPT !.revision = @ + 1]]
  /\ UNCHANGED <<clock, run, input, shut, worker, ticker, upset, reopened>>

Reschedule(t, schedule) ==
  /\ Event
  /\ Rearm(t, schedule)
  /\ Update(t, [task[t] EXCEPT !.schedule = schedule, !.rule = @ + 1,
                               !.nextAt = Occurrence(schedule, clock)])

Pause(t) ==
  /\ Event
  /\ task[t].enabled
  /\ Update(t, [task[t] EXCEPT !.enabled = FALSE])
  /\ UNCHANGED armed

\* Not for a single occurrence that is used up; the session must be open.
Resume(t) ==
  /\ ~task[t].enabled /\ t \notin shut
  /\ task[t].schedule = Repeating \/ task[t].nextAt # Never
  /\ Rearm(t, task[t].schedule)
  /\ Update(t, [task[t] EXCEPT !.enabled = TRUE, !.nextAt = Occurrence(task[t].schedule, clock)])
  /\ UNCHANGED events

Delete(t) ==
  /\ Event
  /\ Update(t, [task[t] EXCEPT !.deleted = TRUE, !.enabled = FALSE])
  /\ UNCHANGED armed

\* closeSessionAdmissionTx pauses the task and cancels what is queued.
Archive(t) ==
  /\ Event
  /\ task[t].exists /\ t \notin shut
  /\ shut' = shut \cup {t}
  /\ task' = IF task[t].deleted THEN task
             ELSE [task EXCEPT ![t].enabled = FALSE, ![t].revision = @ + 1]
  /\ input' = [r \in RunID |-> IF run[r].task = t /\ input[r] = "queued" THEN "done"
                               ELSE input[r]]
  /\ UNCHANGED <<clock, run, worker, ticker, armed, upset, reopened>>

Restore(t) ==
  /\ t \in shut
  /\ shut' = shut \ {t}
  /\ UNCHANGED <<clock, task, run, input, worker, ticker, events, armed, upset, reopened>>

-----------------------------------------------------------------------------
(* The inputs in their session (TurnLifecycle says how). *)

SetInput(r, outcome) ==
  /\ input' = [input EXCEPT ![r] = outcome]
  /\ UNCHANGED <<clock, task, run, shut, worker, ticker, events, armed, upset>>

\* One turn at a time, in the order of the queue.
TurnStarts(r) ==
  /\ input[r] = "queued"
  /\ \A q \in RunID \ {r} : run[q].task = run[r].task =>
       input[q] # "running" /\ (input[q] = "queued" => r < q)
  /\ SetInput(r, "running")
  /\ UNCHANGED reopened

\* "done": completed or cancelled; "awaiting": completed, with a question nobody
\* has answered.
TurnEnds(r) ==
  /\ input[r] = "running"
  /\ \E outcome \in {"done", "awaiting", "failed"} : SetInput(r, outcome)
  /\ UNCHANGED reopened

\* The question is answered, or the queued input is withdrawn.
Answer(r) ==
  /\ input[r] = "awaiting" /\ run[r].task \notin shut
  /\ SetInput(r, "queued")
  /\ UNCHANGED reopened

Withdraw(r) ==
  /\ input[r] = "queued"
  /\ SetInput(r, "done")
  /\ UNCHANGED reopened

\* A failed turn is retried while it is the latest of its session.
Retry(r) ==
  /\ input[r] = "failed" /\ run[r].task \notin shut /\ r \notin reopened
  /\ \A q \in RunID \ {r} : run[q].task = run[r].task =>
       /\ input[q] \notin {"queued", "running"}
       /\ q > r => input[q] = "none"
  /\ reopened' = reopened \cup {r}
  /\ SetInput(r, "running")

-----------------------------------------------------------------------------
(* Time and faults. *)

Advance ==
  /\ clock < MaxClock
  /\ clock' = clock + 1
  /\ UNCHANGED <<task, run, input, shut, worker, ticker, events, armed, upset, reopened>>

SetBack ==
  /\ Event
  /\ \E c \in 0..MaxClock : c < clock /\ clock' = c
  /\ upset' = upset \cup {"clock"}
  /\ UNCHANGED <<task, run, input, shut, worker, ticker, armed, reopened>>

\* A transaction of the tick fails, or the caller of a manual run goes away.
WorkerFails ==
  /\ Event
  /\ worker.who # "none"
  /\ worker' = Idle
  /\ upset' = upset \cup {m \in {"tick"} : worker.who = "tick"}
  /\ UNCHANGED <<clock, task, run, input, shut, ticker, armed, reopened>>

\* The daemon dies and starts again: Recover fails the turns that were running, and
\* the first tick counts as offline.
DaemonRestarts ==
  /\ Event
  /\ worker' = Idle
  /\ ticker' = [last |-> clock, asks |-> "late"]
  /\ input' = [r \in RunID |-> IF input[r] = "running" THEN "failed" ELSE input[r]]
  /\ UNCHANGED <<clock, task, run, shut, armed, upset, reopened>>

-----------------------------------------------------------------------------
NoTask == [exists |-> FALSE, deleted |-> FALSE, enabled |-> FALSE, revision |-> 0, rule |-> 0,
           schedule |-> Repeating, nextAt |-> Never]

SchedInit ==
  /\ clock = 0
  /\ task = [t \in Task |-> NoTask]
  /\ run = <<>> /\ input = <<>>
  /\ shut = {}
  /\ worker = Idle
  /\ ticker = [last |-> 0, asks |-> "late"]
  /\ events = 0
  /\ armed = [t \in Task |-> 0]
  /\ upset = {}
  /\ reopened = {}

Tick == TickRead \/ TickBegin \/ TickPending \/ TickList \/ TickTask \/ TickEnd
Submission == SubmitRun \/ HandOff

SchedNext ==
  \/ Tick \/ Submission
  \/ \E t \in Task :
       \/ \E q \in Request : RunNow(t, q)
       \/ \E schedule \in Rule : Create(t, schedule)
       \/ \E schedule \in Rule : Reschedule(t, schedule)
       \/ Pause(t) \/ Resume(t) \/ Delete(t) \/ Archive(t) \/ Restore(t)
  \/ \E r \in RunID : TurnStarts(r) \/ TurnEnds(r) \/ Answer(r) \/ Withdraw(r) \/ Retry(r)
  \/ Advance \/ SetBack \/ WorkerFails \/ DaemonRestarts

SchedSpec == SchedInit /\ [][SchedNext]_schedVars

\* The scheduler's goroutine ticks once a second for as long as the daemon runs,
\* and a call that has begun goes on.
SchedFairness == WF_schedVars(Tick) /\ WF_schedVars(Submission)
SchedFairSpec == SchedSpec /\ SchedFairness

-----------------------------------------------------------------------------
(* Properties. *)

\* The record of a run tells the truth about its input, across lost replies,
\* crashes and archiving: what counts as failed or skipped was never submitted,
\* what counts as submitted was.
HandoffTruthful ==
  \A r \in RunID :
    /\ run[r].handoff \in {"failed", "skipped"} => input[r] = "none"
    /\ run[r].handoff = "submitted" => input[r] # "none"

\* Inputs of one task do not pile up: a run is accepted only when those before it are
\* done with.  Two exceptions: a person may take up a finished run again meanwhile; and
\* a run dated before an older one hides behind it in the list scheduledTaskLatest
\* reads, whether the clock was set back or a tick came to the lock after a manual run
\* that had read the clock later.
Hidden(r) ==
  \E q \in RunID : /\ q < r /\ run[q].task = run[r].task /\ run[q].handoff # "skipped"
                   /\ run[q].at > run[r].at
NoPileUp ==
  \A r, q \in RunID :
    (/\ r < q /\ run[r].task = run[q].task
     /\ run[r].handoff # "skipped" /\ run[q].handoff # "skipped"
     /\ BusyRun(r) /\ BusyRun(q))
      => (Hidden(r) \/ {r, q} \cap reopened # {})

\* No occurrence passes in silence: since the task began to count, each one before
\* the next is a run of its own or within the range a skipped run records.  (Not so
\* when a tick fails: the tick after it believes that it is on time, and accepts one
\* occurrence as if no other had passed.)
Covers(r, t, o) ==
  /\ run[r].task = t
  /\ \/ /\ run[r].request = "scheduled" /\ run[r].rule = task[t].rule
        /\ run[r].for <= o /\ o <= run[r].through
     \/ task[t].schedule = o /\ run[r].at >= armed[t]
EveryOccurrenceRecorded ==
  upset = {} => \A t \in Task : Exists(t) =>
    \A o \in 1..clock :
      (/\ o > armed[t] /\ Occurrence(task[t].schedule, o - 1) = o
       /\ task[t].nextAt = Never \/ o < task[t].nextAt)
        => \E r \in RunID : Covers(r, t, o)

\* An accepted run is handed off, whatever interrupted the hand-off.
PendingHandedOff ==
  \A r \in 1..MaxRuns :
    (r \in RunID /\ run[r].handoff = "pending") ~> (r \in RunID /\ run[r].handoff # "pending")

\* A task that is due is accepted, skipped or changed by a person: no error keeps
\* the scheduler from it for ever.
Due(t) == /\ Exists(t) /\ task[t].enabled /\ task[t].nextAt # Never /\ task[t].nextAt <= clock
          /\ Len(run) < MaxRuns
DueIsAccepted == \A t \in Task : Due(t) ~> ~Due(t)

\* ... except one: after the clock was set back, the next occurrence of a task may be
\* one that has its run already, and every tick fails at it.
Blocked == "clock" \in upset /\ \E t \in Task : Due(t) /\ KeyTaken(t, task[t].nextAt)
DueIsServed == \A t \in Task : Due(t) ~> (~Due(t) \/ Blocked)
=============================================================================
