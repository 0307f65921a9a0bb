------------------------ MODULE ScheduledTasksProofs ------------------------
(***************************************************************************)
(* Proofs about ScheduledTasks, for any number of tasks, requests, runs    *)
(* and events.                                                             *)
(*                                                                         *)
(* A run changes its handoff only in the hands of the one holder of        *)
(* scheduleMu, which owns it while it is pending: HandoffTruthful.  A run  *)
(* is accepted when the one with the latest time is over, and the others   *)
(* were superseded by it or are hidden: NoPileUp.  While the clock is not  *)
(* set back and no tick fails, a tick that is not offline finds no task    *)
(* due for longer than Jitter, which is at most one occurrence:            *)
(* EveryOccurrenceRecorded.                                                *)
(***************************************************************************)
EXTENDS ScheduledTasks, TLAPS

Submitting == {"submit", "submitted", "refused"}

TaskRecord == [exists: BOOLEAN, deleted: BOOLEAN, enabled: BOOLEAN, revision: Nat, rule: Nat,
               schedule: Nat, nextAt: Nat]

RunRecord == [task: Task, request: Request \cup {"scheduled"}, at: Nat, rule: Nat, for: Nat,
              handoff: {"pending", "submitted", "failed", "skipped"}, through: Nat]

InputState == {"none", "queued", "running", "awaiting", "done", "failed"}

DueTask == [t: Task, revision: Nat, nextAt: Nat]

ManualWorker == [who: {"manual"}, step: Submitting, run: Nat]

TickWorker == [who: {"tick"}, now: Nat, offline: BOOLEAN, listed: BOOLEAN,
               step: Submitting \cup {"pending", "tasks"}, run: Nat, runs: SUBSET Nat,
               due: SUBSET DueTask]

TickerRecord == [last: Nat, asks: {"no", "late", "on time"}]

SchedTypeInv ==
  /\ clock \in Nat
  /\ task \in [Task -> TaskRecord]
  /\ run \in Seq(RunRecord)
  /\ input \in Seq(InputState)
  /\ Len(input) = Len(run)
  /\ worker \in {Idle} \cup ManualWorker \cup TickWorker
  /\ ticker \in TickerRecord
  /\ armed \in [Task -> Nat]
  /\ reopened \subseteq Nat
  /\ shut \subseteq Task

-----------------------------------------------------------------------------
(* Who holds a run *)

Holds == worker.who # "none" /\ worker.step \in Submitting

\* The run that is being submitted is pending; a reply means that it has an input.
RunHeld ==
  Holds =>
    /\ worker.run \in RunID
    /\ run[worker.run].handoff = "pending"
    /\ worker.step = "submitted" => input[worker.run] # "none"

\* What a tick still has to hand off is pending, and not the run it has in hand.
RunsListed ==
  worker.who = "tick" =>
    /\ worker.runs \subseteq Pending
    /\ worker.step \in Submitting => worker.run \notin worker.runs
    /\ worker.listed => worker.runs = {}
    /\ worker.step = "tasks" => worker.listed
    /\ worker.step = "pending" => ~worker.listed

-----------------------------------------------------------------------------
(* The order of runs *)

Steady == "clock" \notin upset

\* While the clock is not set back, nothing is dated later than now, and a tick works
\* with the scheduler's last look at the clock.
TimesPast ==
  Steady =>
    /\ \A q \in RunID : run[q].at <= clock
    /\ \A q \in RunID : run[q].request = "scheduled" => run[q].at <= ticker.last
    /\ ticker.last <= clock
    /\ worker.who = "tick" => worker.now = ticker.last
    /\ \A t \in Task : armed[t] <= clock

\* A run that another was accepted after is over, unless a person retried it or it hides.
Superseded ==
  \A r, q \in RunID :
    (/\ r < q /\ run[r].task = run[q].task
     /\ run[r].handoff # "skipped" /\ run[q].handoff # "skipped")
    => r \in reopened \/ ~BusyRun(r) \/ Hidden(r)

-----------------------------------------------------------------------------
(* Occurrences, while nothing is upset *)

IsOccurrence(schedule, o) == Occurrence(schedule, o - 1) = o

\* Runs belong to tasks, and were accepted under a rule the task has or had.
RunsKnown ==
  \A r \in RunID : task[run[r].task].exists /\ run[r].rule <= task[run[r].task].rule

\* A task whose session is archived waits for nobody, nor does a deleted one.
ShutPaused ==
  \A t \in Task : (t \in shut \/ task[t].deleted) => (task[t].exists /\ ~task[t].enabled)

\* The key of the next occurrence is not in use.
KeysPast ==
  upset = {} =>
    \A r \in RunID : run[r].request = "scheduled" =>
      /\ run[r].for <= run[r].at
      /\ (/\ run[r].rule = task[run[r].task].rule
          /\ task[run[r].task].nextAt # Never) => run[r].for < task[run[r].task].nextAt

\* What is next is an occurrence; a repeating task always has one.
NextOccurs ==
  \A t \in Task : task[t].exists =>
    /\ task[t].nextAt # Never => IsOccurrence(task[t].schedule, task[t].nextAt)
    /\ task[t].schedule = Repeating => task[t].nextAt # Never

\* Of the past and of the future: no occurrence before the next is left.
Recorded ==
  upset = {} => \A t \in Task : Exists(t) =>
    \A o \in Nat \ {0} :
      (/\ o > armed[t] /\ IsOccurrence(task[t].schedule, o)
       /\ task[t].nextAt = Never \/ o < task[t].nextAt)
      => \E r \in RunID : Covers(r, t, o)

\* The tasks a tick may have to accept, and how it lists one.
Waits(t) == Exists(t) /\ task[t].enabled /\ task[t].nextAt # Never

DueNow(t) == [t |-> t, revision |-> task[t].revision, nextAt |-> task[t].nextAt]

\* How late a tick can be for a task: between two ticks what waits is still to come, or
\* has come since the scheduler's last look at the clock ...
RestOnTime ==
  /\ ticker.asks = "no" => \A t \in Task : Waits(t) => task[t].nextAt > ticker.last
  /\ ticker.asks = "on time" =>
       \A t \in Task : Waits(t) => task[t].nextAt + Jitter > ticker.last

\* ... and during a tick what is due is on its list.
TickOnTime ==
  /\ ticker.asks = "no"
  /\ ~worker.offline => \A t \in Task : Waits(t) => task[t].nextAt + Jitter > worker.now
  /\ worker.listed =>
       \A t \in Task : (Waits(t) /\ task[t].nextAt <= worker.now) => DueNow(t) \in worker.due
  /\ \A d \in worker.due : d.nextAt # Never /\ d.nextAt <= worker.now

OnTime ==
  upset = {} => /\ worker.who # "tick" => RestOnTime
                /\ worker.who = "tick" => TickOnTime

SchedInv ==
  /\ SchedTypeInv /\ RunHeld /\ RunsListed /\ HandoffTruthful
  /\ TimesPast /\ Superseded
  /\ RunsKnown /\ ShutPaused /\ KeysPast /\ NextOccurs /\ Recorded /\ OnTime

-----------------------------------------------------------------------------
(***************************************************************************)
(* Occurrences.                                                            *)
(***************************************************************************)

LEMMA Multiples ==
  /\ \A a \in Nat : /\ a \div Period \in Nat
                    /\ (a \div Period) * Period <= a
                    /\ a < (a \div Period) * Period + Period
  /\ \A k \in Nat : k * Period \in Nat /\ (k + 1) * Period = k * Period + Period
  /\ \A k, m \in Nat : k < m => k * Period + Period <= m * Period
<1>1. Period \in Nat \ {0}
  BY ScheduleAssumption
<1> QED BY <1>1, SMT

\* An occurrence follows the time it is asked for.
LEMMA OccurrenceAfter ==
  ASSUME NEW schedule \in Nat, NEW after \in Nat
  PROVE  /\ Occurrence(schedule, after) \in Nat
         /\ schedule = Repeating => Occurrence(schedule, after) # Never
         /\ Occurrence(schedule, after) # Never => after < Occurrence(schedule, after)
<1>1. CASE schedule = Repeating
  <2>1. Occurrence(schedule, after) = (after \div Period) * Period + Period
    BY <1>1, Multiples DEF Occurrence
  <2> QED BY <2>1, <1>1, Multiples DEF Never
<1>2. CASE schedule # Repeating
  BY <1>2 DEF Occurrence, Never
<1> QED BY <1>1, <1>2

\* The occurrences of a repeating task are the multiples of its period.
LEMMA RepeatingOccurrence ==
  ASSUME NEW o \in Nat \ {0}, IsOccurrence(Repeating, o)
  PROVE  \E k \in Nat : o = k * Period
<1> DEFINE d == (o - 1) \div Period
<1>1. o - 1 \in Nat
  OBVIOUS
<1>2. d \in Nat
  BY <1>1, Multiples
<1>3. o = (d + 1) * Period
  BY DEF IsOccurrence, Occurrence
<1> HIDE DEF d
<1>4. d + 1 \in Nat
  BY <1>2
<1> QED BY <1>3, <1>4

LEMMA MultipleOccurs ==
  ASSUME NEW k \in Nat, k # 0
  PROVE  IsOccurrence(Repeating, k * Period)
<1>1. Period \in Nat \ {0}
  BY ScheduleAssumption
<1>2. PICK j \in Nat : k = j + 1
  <2>1. k - 1 \in Nat /\ k = (k - 1) + 1
    OBVIOUS
  <2> QED BY <2>1
<1>3. k * Period = j * Period + Period /\ j * Period \in Nat
  BY <1>2, Multiples
<1>4. k * Period - 1 \in Nat /\ k * Period - 1 = j * Period + (Period - 1)
  BY <1>1, <1>3
<1> DEFINE d == (k * Period - 1) \div Period
<1>5. d \in Nat /\ d * Period <= k * Period - 1 /\ k * Period - 1 < d * Period + Period
  BY <1>4, Multiples
<1>6. d * Period \in Nat
  BY <1>5, Multiples
<1> HIDE DEF d
<1>7. ~(d < j)
  <2> SUFFICES ASSUME d < j PROVE FALSE
    OBVIOUS
  <2>1. d * Period + Period <= j * Period
    BY <1>5, Multiples
  <2> QED BY <2>1, <1>1, <1>3, <1>4, <1>5, <1>6
<1>8. ~(j < d)
  <2> SUFFICES ASSUME j < d PROVE FALSE
    OBVIOUS
  <2>1. j * Period + Period <= d * Period
    BY <1>5, Multiples
  <2> QED BY <2>1, <1>1, <1>3, <1>4, <1>5, <1>6
<1>9. d = j
  BY <1>5, <1>7, <1>8
<1>10. (d + 1) * Period = k * Period
  BY <1>9, <1>2
<1> QED BY <1>10 DEF IsOccurrence, Occurrence, d

\* What Occurrence returns is one of the occurrences, and no other is before it.
LEMMA OccurrenceIsNext ==
  ASSUME NEW schedule \in Nat, NEW after \in Nat, Occurrence(schedule, after) # Never
  PROVE  IsOccurrence(schedule, Occurrence(schedule, after))
<1>1. CASE schedule = Repeating
  <2> DEFINE d == after \div Period
  <2>1. d \in Nat
    BY Multiples
  <2>2. Occurrence(schedule, after) = (d + 1) * Period
    BY <1>1 DEF Occurrence
  <2> HIDE DEF d
  <2>3. d + 1 \in Nat /\ d + 1 # 0
    BY <2>1
  <2> QED BY <1>1, <2>2, <2>3, MultipleOccurs
<1>2. CASE schedule # Repeating
  <2>1. Occurrence(schedule, after) = schedule
    BY <1>2 DEF Occurrence
  <2>2. schedule > schedule - 1
    OBVIOUS
  <2> QED BY <1>2, <2>1, <2>2 DEF IsOccurrence, Occurrence
<1> QED BY <1>1, <1>2

LEMMA OccurrenceIsFirst ==
  ASSUME NEW schedule \in Nat, NEW after \in Nat,
         NEW o \in Nat \ {0}, IsOccurrence(schedule, o), after < o
  PROVE  Occurrence(schedule, after) # Never /\ Occurrence(schedule, after) <= o
<1>1. CASE schedule = Repeating
  <2>1. PICK k \in Nat : o = k * Period
    BY <1>1, RepeatingOccurrence
  <2> DEFINE d == after \div Period
  <2>0. d \in Nat /\ d * Period <= after
    BY Multiples
  <2>2. d \in Nat /\ d * Period <= after /\ d * Period \in Nat
    BY <2>0, Multiples
  <2>3. Occurrence(schedule, after) = d * Period + Period
    BY <1>1, Multiples DEF Occurrence
  <2> HIDE DEF d
  <2>4. ~(k < d) /\ k # d
    <3>1. CASE k < d
      <4>1. k * Period + Period <= d * Period
        BY <2>2, <3>1, Multiples
      <4> QED BY <4>1, <2>1, <2>2, ScheduleAssumption
    <3>2. CASE k = d
      BY <3>2, <2>1, <2>2
    <3> QED BY <3>1, <3>2
  <2>5. d < k
    BY <2>2, <2>4
  <2>6. d * Period + Period <= o
    BY <2>1, <2>2, <2>5, Multiples
  <2> QED BY <1>1, <2>3, <2>6, OccurrenceAfter
<1>2. CASE schedule # Repeating
  BY <1>2 DEF IsOccurrence, Occurrence, Never
<1> QED BY <1>1, <1>2

\* A single occurrence is the schedule itself.
LEMMA SingleOccurrence ==
  ASSUME NEW schedule \in Nat, NEW o \in Nat \ {0}, IsOccurrence(schedule, o), schedule # Repeating
  PROVE  o = schedule
  BY DEF IsOccurrence, Occurrence, Never

LEMMA OccurrencesApart ==
  ASSUME NEW o \in Nat \ {0}, NEW p \in Nat \ {0},
         IsOccurrence(Repeating, o), IsOccurrence(Repeating, p), o < p
  PROVE  o + Period <= p
<1>1. PICK j \in Nat : o = j * Period
  BY RepeatingOccurrence
<1>2. PICK k \in Nat : p = k * Period
  BY RepeatingOccurrence
<1>3. ~(k < j) /\ k # j
  <2>1. CASE k < j
    <3>1. k * Period + Period <= j * Period
      BY <2>1, Multiples
    <3> QED BY <3>1, <1>1, <1>2, ScheduleAssumption
  <2>2. CASE k = j
    BY <2>2, <1>1, <1>2
  <2> QED BY <2>1, <2>2
<1>4. j < k
  BY <1>3
<1> QED BY <1>1, <1>2, <1>4, Multiples

-----------------------------------------------------------------------------
(***************************************************************************)
(* Types.                                                                  *)
(***************************************************************************)

LEMMA WorkerCases ==
  ASSUME SchedTypeInv
  PROVE  \/ worker = Idle /\ worker.who = "none"
         \/ worker \in ManualWorker /\ worker.who = "manual"
         \/ worker \in TickWorker /\ worker.who = "tick"
<1>1. Idle.who = "none"
  BY DEF Idle
<1>2. \A w \in ManualWorker : w.who = "manual"
  BY DEF ManualWorker
<1>3. \A w \in TickWorker : w.who = "tick"
  BY DEF TickWorker
<1> QED BY <1>1, <1>2, <1>3 DEF SchedTypeInv

\* What may be read of the runs.
LEMMA RunTypes ==
  ASSUME SchedTypeInv
  PROVE  /\ Len(run) \in Nat /\ RunID = 1..Len(run) /\ RunID \subseteq Nat
         /\ \A r \in RunID : run[r] \in RunRecord /\ input[r] \in InputState
         /\ DOMAIN run = RunID /\ DOMAIN input = RunID
  BY DEF SchedTypeInv, RunID

SkipReason == {"no", "missed", "busy"}

LEMMA NewRunType ==
  ASSUME SchedTypeInv, NEW t \in Task, NEW request \in Request \cup {"scheduled"}, NEW now \in Nat,
         NEW skip \in SkipReason
  PROVE  NewRun(t, request, now, skip) \in RunRecord
<1>1. task[t] \in TaskRecord
  BY DEF SchedTypeInv
<1>2. task[t].nextAt \in Nat /\ task[t].rule \in Nat /\ Never \in Nat
  BY <1>1 DEF TaskRecord, Never
<1>3. \A at \in Nat : Through(skip, at, now) \in Nat
  BY DEF Through
<1> QED BY <1>2, <1>3 DEF NewRun, RunRecord

\* Accept appends a run without an input and leaves all others.
LEMMA Appended ==
  ASSUME SchedTypeInv, NEW t \in Task, NEW request \in Request \cup {"scheduled"}, NEW now \in Nat,
         NEW skip \in SkipReason, Accept(t, request, now, skip)
  PROVE  /\ run' \in Seq(RunRecord) /\ input' \in Seq(InputState)
         /\ Len(run') = Len(run) + 1 /\ Len(input') = Len(run) + 1
         /\ RunID' = RunID \cup {Len(run) + 1}
         /\ \A r \in RunID : run'[r] = run[r] /\ input'[r] = input[r]
         /\ run'[Len(run) + 1] = NewRun(t, request, now, skip)
         /\ input'[Len(run) + 1] = "none"
<1>1. NewRun(t, request, now, skip) \in RunRecord
  BY NewRunType
<1>2. "none" \in InputState
  BY DEF InputState
<1>3. /\ run' = Append(run, NewRun(t, request, now, skip))
      /\ input' = Append(input, "none")
  BY DEF Accept
<1>4. run \in Seq(RunRecord) /\ input \in Seq(InputState) /\ Len(input) = Len(run)
  BY DEF SchedTypeInv
<1>5. /\ run' \in Seq(RunRecord) /\ Len(run') = Len(run) + 1
      /\ run'[Len(run) + 1] = NewRun(t, request, now, skip)
      /\ \A r \in RunID : run'[r] = run[r]
  BY <1>1, <1>3, <1>4 DEF RunID
<1>6. /\ input' \in Seq(InputState) /\ Len(input') = Len(run) + 1
      /\ input'[Len(run) + 1] = "none"
      /\ \A r \in RunID : input'[r] = input[r]
  BY <1>2, <1>3, <1>4 DEF RunID
<1>7. RunID' = RunID \cup {Len(run) + 1}
  <2>1. Len(run) \in Nat
    BY <1>4
  <2> QED BY <1>5, <2>1 DEF RunID
<1> QED BY <1>5, <1>6, <1>7

\* ... and changes only when the task is due next.
LEMMA AcceptedTask ==
  ASSUME SchedTypeInv, NEW t \in Task, NEW request \in Request \cup {"scheduled"}, NEW now \in Nat,
         NEW skip \in SkipReason, Accept(t, request, now, skip)
  PROVE  /\ task' \in [Task -> TaskRecord]
         /\ \A u \in Task : /\ task'[u].exists = task[u].exists
                            /\ task'[u].deleted = task[u].deleted
                            /\ task'[u].enabled = task[u].enabled
                            /\ task'[u].revision = task[u].revision
                            /\ task'[u].rule = task[u].rule
                            /\ task'[u].schedule = task[u].schedule
                            /\ u # t => task'[u].nextAt = task[u].nextAt
         /\ task'[t].nextAt = IF task[t].schedule # Repeating THEN Never
                              ELSE IF request = "scheduled" THEN Occurrence(task[t].schedule, now)
                              ELSE task[t].nextAt
<1> DEFINE next == IF task[t].schedule # Repeating THEN Never
                   ELSE IF request = "scheduled" THEN Occurrence(task[t].schedule, now)
                   ELSE task[t].nextAt
<1>1. task \in [Task -> TaskRecord]
  BY DEF SchedTypeInv
<1>2. task[t].schedule \in Nat /\ task[t].nextAt \in Nat
  BY <1>1 DEF TaskRecord
<1>3. next \in Nat
  BY <1>2, OccurrenceAfter DEF Never
<1>4. task' = [task EXCEPT ![t].nextAt = next]
  BY <1>1 DEF Accept
<1> HIDE DEF next
<1>5. [task[t] EXCEPT !.nextAt = next] \in TaskRecord
  BY <1>1, <1>3 DEF TaskRecord
<1>6. task' \in [Task -> TaskRecord]
  BY <1>1, <1>4, <1>5
<1>7. \A u \in Task : u # t => task'[u] = task[u]
  BY <1>1, <1>4
<1>8. task'[t] = [task[t] EXCEPT !.nextAt = next]
  BY <1>1, <1>4
<1>9. task[t] \in TaskRecord
  BY <1>1
<1>10. /\ task'[t].exists = task[t].exists /\ task'[t].deleted = task[t].deleted
       /\ task'[t].enabled = task[t].enabled /\ task'[t].revision = task[t].revision
       /\ task'[t].rule = task[t].rule /\ task'[t].schedule = task[t].schedule
       /\ task'[t].nextAt = next
  BY <1>8, <1>9 DEF TaskRecord
<1> QED BY <1>6, <1>7, <1>10 DEF next

\* UpdateScheduledTask counts the revision.
LEMMA UpdatedTask ==
  ASSUME SchedTypeInv, NEW t \in Task, NEW definition \in TaskRecord, Update(t, definition)
  PROVE  /\ task' \in [Task -> TaskRecord]
         /\ \A u \in Task : u # t => task'[u] = task[u]
         /\ task'[t].exists = definition.exists /\ task'[t].deleted = definition.deleted
         /\ task'[t].enabled = definition.enabled /\ task'[t].rule = definition.rule
         /\ task'[t].schedule = definition.schedule /\ task'[t].nextAt = definition.nextAt
         /\ worker.who = "none" /\ Exists(t)
<1> DEFINE new == [definition EXCEPT !.revision = @ + 1]
<1>1. new \in TaskRecord
  BY DEF TaskRecord
<1>2. /\ new.exists = definition.exists /\ new.deleted = definition.deleted
      /\ new.enabled = definition.enabled /\ new.rule = definition.rule
      /\ new.schedule = definition.schedule /\ new.nextAt = definition.nextAt
  BY DEF TaskRecord
<1>3. task' = [task EXCEPT ![t] = new] /\ worker.who = "none" /\ Exists(t)
  BY DEF Update
<1>4. task \in [Task -> TaskRecord]
  BY DEF SchedTypeInv
<1> HIDE DEF new
<1> QED BY <1>1, <1>2, <1>3, <1>4

\* The first occurrence after the clock is a time.
LEMMA RearmTypes ==
  ASSUME SchedTypeInv, NEW t \in Task, NEW schedule \in Nat, Rearm(t, schedule)
  PROVE  /\ Occurrence(schedule, clock) \in Nat \ {Never}
         /\ clock < Occurrence(schedule, clock)
         /\ armed' \in [Task -> Nat] /\ armed'[t] = clock
         /\ \A u \in Task : u # t => armed'[u] = armed[u]
  BY OccurrenceAfter DEF Rearm, SchedTypeInv

\* The edits of people: what becomes of the task, and of the time it counts from.
Rearmed(t, schedule) ==
  /\ Rearm(t, schedule) /\ schedule \in Nat
  /\ task' \in [Task -> TaskRecord]
  /\ \A u \in Task : u # t => task'[u] = task[u]
  /\ task'[t].exists /\ ~task'[t].deleted
  /\ task'[t].schedule = schedule /\ task'[t].nextAt = Occurrence(schedule, clock)
  /\ worker.who = "none"
  /\ UNCHANGED <<clock, run, input, shut, worker, ticker, upset, reopened>>

\* Rearmed by Create or Reschedule under a new rule.
NewRule(t) == task[t].exists => task'[t].rule > task[t].rule

LEMMA CreateStep ==
  ASSUME SchedTypeInv, NEW t \in Task, NEW schedule \in Rule, Create(t, schedule)
  PROVE  Rearmed(t, schedule) /\ NewRule(t) /\ t \in Task /\ ~task[t].exists /\ task'[t].enabled
<1>1. schedule \in Nat /\ Rearm(t, schedule)
  BY ScheduleAssumption DEF Create
<1>2. Occurrence(schedule, clock) \in Nat
  BY <1>1, RearmTypes
<1> DEFINE new == [exists |-> TRUE, deleted |-> FALSE, enabled |-> TRUE, revision |-> 1, rule |-> 1,
                   schedule |-> schedule, nextAt |-> Occurrence(schedule, clock)]
<1>3. new \in TaskRecord
  BY <1>1, <1>2 DEF TaskRecord
<1>4. task' = [task EXCEPT ![t] = new]
  BY DEF Create
<1>5. task \in [Task -> TaskRecord]
  BY DEF SchedTypeInv
<1>6. /\ new.exists /\ ~new.deleted /\ new.enabled /\ new.schedule = schedule
      /\ new.nextAt = Occurrence(schedule, clock)
  OBVIOUS
<1> HIDE DEF new
<1>7. task' \in [Task -> TaskRecord] /\ task'[t] = new /\ \A u \in Task : u # t => task'[u] = task[u]
  BY <1>3, <1>4, <1>5
<1> QED BY <1>1, <1>6, <1>7 DEF Create, Rearmed, NewRule

LEMMA RescheduleStep ==
  ASSUME SchedTypeInv, NEW t \in Task, NEW schedule \in Rule, Reschedule(t, schedule)
  PROVE  Rearmed(t, schedule) /\ NewRule(t) /\ task'[t].enabled = task[t].enabled /\ Exists(t)
<1>1. schedule \in Nat /\ Rearm(t, schedule)
  BY ScheduleAssumption DEF Reschedule
<1>2. Occurrence(schedule, clock) \in Nat
  BY <1>1, RearmTypes
<1> DEFINE new == [task[t] EXCEPT !.schedule = schedule, !.rule = @ + 1,
                                  !.nextAt = Occurrence(schedule, clock)]
<1>3. task[t] \in TaskRecord
  BY DEF SchedTypeInv
<1>0. task[t].rule \in Nat /\ task[t].rule + 1 \in Nat
  BY <1>3 DEF TaskRecord
<1>4. new \in TaskRecord
  <2>1. [task[t] EXCEPT !.schedule = schedule] \in TaskRecord
    BY <1>1, <1>3 DEF TaskRecord
  <2>2. \A d \in TaskRecord : \A n \in Nat : [d EXCEPT !.rule = n] \in TaskRecord
    BY DEF TaskRecord
  <2>3. \A d \in TaskRecord : \A n \in Nat : [d EXCEPT !.nextAt = n] \in TaskRecord
    BY DEF TaskRecord
  <2>4. new = [[[task[t] EXCEPT !.schedule = schedule] EXCEPT !.rule = task[t].rule + 1]
                 EXCEPT !.nextAt = Occurrence(schedule, clock)]
    BY <1>3 DEF TaskRecord
  <2> QED BY <1>0, <1>2, <2>1, <2>2, <2>3, <2>4
<1>5. /\ new.exists = task[t].exists /\ new.deleted = task[t].deleted
      /\ new.enabled = task[t].enabled /\ new.rule = task[t].rule + 1
      /\ new.schedule = schedule /\ new.nextAt = Occurrence(schedule, clock)
  BY <1>3 DEF TaskRecord
<1>6. task[t].rule \in Nat
  BY <1>3 DEF TaskRecord
<1>7. Update(t, new)
  BY DEF Reschedule
<1> HIDE DEF new
<1>8. /\ task' \in [Task -> TaskRecord]
      /\ \A u \in Task : u # t => task'[u] = task[u]
      /\ task'[t].exists = new.exists /\ task'[t].deleted = new.deleted
      /\ task'[t].enabled = new.enabled /\ task'[t].rule = new.rule
      /\ task'[t].schedule = new.schedule /\ task'[t].nextAt = new.nextAt
      /\ worker.who = "none" /\ Exists(t)
  BY <1>4, <1>7, UpdatedTask
<1>9. Rearmed(t, schedule)
  BY <1>1, <1>5, <1>7, <1>8 DEF Rearmed, Exists, Update, Rearm
<1> QED BY <1>5, <1>6, <1>8, <1>9 DEF NewRule

LEMMA ResumeStep ==
  ASSUME SchedTypeInv, NEW t \in Task, Resume(t)
  PROVE  /\ Rearmed(t, task[t].schedule) /\ task'[t].rule = task[t].rule /\ t \notin shut
         /\ Exists(t)
<1> DEFINE schedule == task[t].schedule
<1>1. task[t] \in TaskRecord
  BY DEF SchedTypeInv
<1>2. schedule \in Nat /\ Rearm(t, schedule)
  BY <1>1 DEF Resume, TaskRecord
<1>3. Occurrence(schedule, clock) \in Nat
  BY <1>2, RearmTypes
<1> DEFINE new == [task[t] EXCEPT !.enabled = TRUE, !.nextAt = Occurrence(schedule, clock)]
<1>4. new \in TaskRecord
  BY <1>1, <1>3 DEF TaskRecord
<1>5. /\ new.exists = task[t].exists /\ new.deleted = task[t].deleted /\ new.rule = task[t].rule
      /\ new.schedule = schedule /\ new.nextAt = Occurrence(schedule, clock)
  BY <1>1 DEF TaskRecord
<1>6. Update(t, new) /\ t \notin shut
  BY DEF Resume
<1> HIDE DEF new, schedule
<1>7. /\ task' \in [Task -> TaskRecord]
      /\ \A u \in Task : u # t => task'[u] = task[u]
      /\ task'[t].exists = new.exists /\ task'[t].deleted = new.deleted
      /\ task'[t].enabled = new.enabled /\ task'[t].rule = new.rule
      /\ task'[t].schedule = new.schedule /\ task'[t].nextAt = new.nextAt
      /\ worker.who = "none" /\ Exists(t)
  BY <1>4, <1>6, UpdatedTask
<1>8. Rearmed(t, schedule)
  BY <1>2, <1>5, <1>6, <1>7 DEF Rearmed, Exists, Update, Rearm
<1> QED BY <1>5, <1>6, <1>7, <1>8 DEF schedule

\* Pause, Delete and the archiving of the session stop a task and leave the rest of it.
Stopped(t) ==
  /\ task' \in [Task -> TaskRecord]
  /\ \A u \in Task : u # t => task'[u] = task[u]
  /\ task'[t].exists = task[t].exists /\ task[t].exists
  /\ task[t].deleted => task'[t].deleted
  /\ task'[t].rule = task[t].rule
  /\ task'[t].schedule = task[t].schedule /\ task'[t].nextAt = task[t].nextAt
  /\ UNCHANGED <<clock, run, worker, ticker, armed, upset, reopened>>

LEMMA PauseStep ==
  ASSUME SchedTypeInv, NEW t \in Task, Pause(t)
  PROVE  Stopped(t) /\ ~task'[t].enabled /\ UNCHANGED <<input, shut>>
<1>1. task[t] \in TaskRecord
  BY DEF SchedTypeInv
<1> DEFINE new == [task[t] EXCEPT !.enabled = FALSE]
<1>2. new \in TaskRecord
  BY <1>1 DEF TaskRecord
<1>3. /\ new.exists = task[t].exists /\ new.deleted = task[t].deleted /\ new.rule = task[t].rule
      /\ new.schedule = task[t].schedule /\ new.nextAt = task[t].nextAt /\ ~new.enabled
  BY <1>1 DEF TaskRecord
<1>4. Update(t, new) /\ armed' = armed
  BY DEF Pause
<1> HIDE DEF new
<1> QED BY <1>2, <1>3, <1>4, UpdatedTask DEF Stopped, Update, Exists

LEMMA DeleteStep ==
  ASSUME SchedTypeInv, NEW t \in Task, Delete(t)
  PROVE  Stopped(t) /\ ~task'[t].enabled /\ UNCHANGED <<input, shut>>
<1>1. task[t] \in TaskRecord
  BY DEF SchedTypeInv
<1> DEFINE new == [task[t] EXCEPT !.deleted = TRUE, !.enabled = FALSE]
<1>2. new \in TaskRecord
  BY <1>1 DEF TaskRecord
<1>3. /\ new.exists = task[t].exists /\ new.deleted /\ new.rule = task[t].rule
      /\ new.schedule = task[t].schedule /\ new.nextAt = task[t].nextAt /\ ~new.enabled
  BY <1>1 DEF TaskRecord
<1>4. Update(t, new) /\ armed' = armed
  BY DEF Delete
<1> HIDE DEF new
<1> QED BY <1>2, <1>3, <1>4, UpdatedTask DEF Stopped, Update, Exists

LEMMA ArchiveStep ==
  ASSUME SchedTypeInv, NEW t \in Task, Archive(t)
  PROVE  Stopped(t) /\ (~task[t].deleted => ~task'[t].enabled) /\ shut' = shut \cup {t}
         /\ (task[t].deleted => task' = task)
<1>1. task[t] \in TaskRecord /\ task \in [Task -> TaskRecord]
  BY DEF SchedTypeInv
<1>2. CASE task[t].deleted
  BY <1>1, <1>2 DEF Archive, Stopped
<1>3. CASE ~task[t].deleted
  <2> DEFINE new == [task[t] EXCEPT !.enabled = FALSE, !.revision = @ + 1]
  <2>1. new \in TaskRecord
    <3>1. [task[t] EXCEPT !.enabled = FALSE] \in TaskRecord
      BY <1>1 DEF TaskRecord
    <3>2. \A d \in TaskRecord : \A n \in Nat : [d EXCEPT !.revision = n] \in TaskRecord
      BY DEF TaskRecord
    <3>3. task[t].revision + 1 \in Nat
      BY <1>1 DEF TaskRecord
    <3>4. new = [[task[t] EXCEPT !.enabled = FALSE] EXCEPT !.revision = task[t].revision + 1]
      BY <1>1 DEF TaskRecord
    <3> QED BY <3>1, <3>2, <3>3, <3>4
  <2>2. /\ new.exists = task[t].exists /\ new.deleted = task[t].deleted /\ new.rule = task[t].rule
        /\ new.schedule = task[t].schedule /\ new.nextAt = task[t].nextAt /\ ~new.enabled
    BY <1>1 DEF TaskRecord
  <2>3. task' = [task EXCEPT ![t].enabled = FALSE, ![t].revision = @ + 1]
    BY <1>3 DEF Archive
  <2>4. task'[t] = new /\ \A u \in Task : u # t => task'[u] = task[u]
    BY <2>3, <1>1 DEF TaskRecord
  <2>5. task' \in [Task -> TaskRecord]
    BY <1>1, <2>1, <2>3, <2>4
  <2> HIDE DEF new
  <2> QED BY <1>3, <2>2, <2>4, <2>5 DEF Archive, Stopped
<1> QED BY <1>2, <1>3

\* A worker stays a worker, one field at a time.
LEMMA WorkerWith ==
  /\ \A w \in TickWorker : \A s \in Submitting \cup {"pending", "tasks"} :
       [w EXCEPT !.step = s] \in TickWorker
  /\ \A w \in TickWorker : \A n \in Nat : [w EXCEPT !.run = n] \in TickWorker
  /\ \A w \in TickWorker : \A l \in BOOLEAN : [w EXCEPT !.listed = l] \in TickWorker
  /\ \A w \in TickWorker : \A S \in SUBSET Nat : [w EXCEPT !.runs = S] \in TickWorker
  /\ \A w \in TickWorker : \A S \in SUBSET DueTask : [w EXCEPT !.due = S] \in TickWorker
  /\ \A w \in ManualWorker : \A s \in Submitting : [w EXCEPT !.step = s] \in ManualWorker
<1>1. \A w \in TickWorker : \A s \in Submitting \cup {"pending", "tasks"} :
        [w EXCEPT !.step = s] \in TickWorker
  BY DEF TickWorker
<1>2. \A w \in TickWorker : \A n \in Nat : [w EXCEPT !.run = n] \in TickWorker
  BY DEF TickWorker
<1>3. \A w \in TickWorker : \A l \in BOOLEAN : [w EXCEPT !.listed = l] \in TickWorker
  BY DEF TickWorker
<1>4. \A w \in TickWorker : \A S \in SUBSET Nat : [w EXCEPT !.runs = S] \in TickWorker
  BY DEF TickWorker
<1>5. \A w \in TickWorker : \A S \in SUBSET DueTask : [w EXCEPT !.due = S] \in TickWorker
  BY DEF TickWorker
<1>6. \A w \in ManualWorker : \A s \in Submitting : [w EXCEPT !.step = s] \in ManualWorker
  BY DEF ManualWorker
<1> QED BY <1>1, <1>2, <1>3, <1>4, <1>5, <1>6

\* A task of the list is left alone, or the tick ends at it ...
TickLeaves(d) ==
  /\ worker \in TickWorker /\ worker.step = "tasks" /\ d \in worker.due
  /\ Conflict(d) \/ KeyTaken(d.t, d.nextAt)
  /\ worker' = IF Conflict(d) THEN [worker EXCEPT !.due = @ \ {d}] ELSE Idle
  /\ UNCHANGED <<clock, task, run, input, shut, ticker, events, armed, upset, reopened>>

\* ... or one of its occurrences is accepted.
TickAccepts(d) ==
  /\ worker \in TickWorker /\ worker.step = "tasks" /\ d \in worker.due
  /\ ~Conflict(d) /\ ~KeyTaken(d.t, d.nextAt)
  /\ Accept(d.t, "scheduled", worker.now, Skip(d.t))
  /\ worker' = IF Skip(d.t) = "no"
                 THEN [worker EXCEPT !.due = @ \ {d}, !.step = "submit", !.run = Len(run) + 1]
                 ELSE [worker EXCEPT !.due = @ \ {d}]
  /\ UNCHANGED <<clock, shut, ticker, events, armed, upset, reopened>>

LEMMA TickTaskCases ==
  ASSUME SchedTypeInv, TickTask
  PROVE  \E d \in DueTask : TickLeaves(d) \/ TickAccepts(d)
<1>1. worker \in TickWorker
  BY WorkerCases DEF TickTask
<1>2. worker.due \subseteq DueTask
  BY <1>1 DEF TickWorker
<1>3. PICK d \in worker.due :
        IF Conflict(d) \/ KeyTaken(d.t, d.nextAt)
          THEN /\ worker' = IF Conflict(d) THEN [worker EXCEPT !.due = @ \ {d}] ELSE Idle
               /\ UNCHANGED <<task, run, input>>
          ELSE /\ Accept(d.t, "scheduled", worker.now, Skip(d.t))
               /\ worker' = IF Skip(d.t) = "no"
                              THEN [worker EXCEPT !.due = @ \ {d}, !.step = "submit",
                                                  !.run = Len(run) + 1]
                              ELSE [worker EXCEPT !.due = @ \ {d}]
  BY DEF TickTask
<1>4. TickLeaves(d) \/ TickAccepts(d)
  BY <1>1, <1>3 DEF TickTask, TickLeaves, TickAccepts
<1> QED BY <1>2, <1>4

\* What is common to the two ways in which a run is accepted.
Accepting(t, request, now, skip) ==
  /\ t \in Task /\ request \in Request \cup {"scheduled"} /\ now \in Nat /\ skip \in SkipReason
  /\ Accept(t, request, now, skip)
  /\ Exists(t) /\ t \notin shut
  /\ skip = "no" => ActiveRun(t) = {}
  /\ \/ worker.who = "none" /\ now = clock /\ request \in Request
     \/ /\ worker.who = "tick" /\ worker.listed /\ now = worker.now /\ request = "scheduled"
        /\ task[t].enabled /\ \E d \in worker.due : d.nextAt = task[t].nextAt
        /\ skip # "missed" => ~worker.offline
  /\ worker' \in ManualWorker \cup TickWorker
  /\ worker'.who = "tick" => /\ worker.who = "tick" /\ worker'.now = worker.now
                             /\ worker'.offline = worker.offline
                             /\ worker'.listed /\ worker'.runs = worker.runs
  /\ IF skip = "no" THEN worker'.step = "submit" /\ worker'.run = Len(run) + 1
                    ELSE worker'.step = "tasks"
  /\ UNCHANGED <<clock, shut, ticker, armed, upset, reopened>>

LEMMA RunNowAccepts ==
  ASSUME SchedTypeInv, NEW t \in Task, NEW q \in Request, RunNow(t, q)
  PROVE  Accepting(t, q, clock, "no") /\ worker'.who = "manual"
<1> DEFINE w == [who |-> "manual", step |-> "submit", run |-> Len(run) + 1]
<1>1. w \in ManualWorker
  BY RunTypes DEF ManualWorker, Submitting
<1>2. w.who = "manual" /\ w.step = "submit" /\ w.run = Len(run) + 1
  OBVIOUS
<1>3. worker' = w
  BY DEF RunNow
<1> HIDE DEF w
<1> QED BY <1>1, <1>2, <1>3 DEF RunNow, Accepting, SchedTypeInv, SkipReason

LEMMA TickTaskAccepts ==
  ASSUME SchedTypeInv, RunsListed, NEW d \in DueTask, TickAccepts(d)
  PROVE  /\ Accepting(d.t, "scheduled", worker.now, Skip(d.t))
         /\ worker.who = "tick" /\ worker'.who = "tick" /\ worker.listed
         /\ worker'.due = worker.due \ {d}
<1>1. d.t \in Task /\ Len(run) + 1 \in Nat
  BY RunTypes DEF DueTask
<1>2. /\ worker \in TickWorker /\ worker.who = "tick" /\ worker.now \in Nat
      /\ worker.due \subseteq DueTask
  BY DEF TickAccepts, TickWorker
<1>3. /\ Skip(d.t) \in SkipReason /\ (Skip(d.t) = "no" => ActiveRun(d.t) = {})
      /\ Skip(d.t) # "missed" => ~worker.offline
  BY DEF Skip, SkipReason
<1>4. /\ Exists(d.t) /\ d.t \notin shut
      /\ task[d.t].enabled /\ \E e \in worker.due : e.nextAt = task[d.t].nextAt
  BY DEF TickAccepts, Conflict
<1>5. worker.listed
  BY <1>2 DEF TickAccepts, RunsListed
<1> DEFINE left == [worker EXCEPT !.due = @ \ {d}]
<1>6. left \in TickWorker /\ left.who = "tick" /\ left.now = worker.now /\ left.step = "tasks"
      /\ left.offline = worker.offline /\ left.listed = worker.listed /\ left.runs = worker.runs
      /\ left.due = worker.due \ {d}
  BY <1>2, WorkerWith DEF TickWorker, TickAccepts
<1> DEFINE sub == [left EXCEPT !.step = "submit"]
           subm == [sub EXCEPT !.run = Len(run) + 1]
<1> HIDE DEF left
<1>7. /\ sub \in TickWorker /\ sub.who = "tick" /\ sub.now = worker.now /\ sub.step = "submit"
      /\ sub.offline = worker.offline /\ sub.listed = worker.listed /\ sub.runs = worker.runs
      /\ sub.due = worker.due \ {d}
  <2>1. "submit" \in Submitting \cup {"pending", "tasks"}
    BY DEF Submitting
  <2>2. sub \in TickWorker
    BY <1>6, <2>1, WorkerWith
  <2> QED BY <1>6, <2>2 DEF TickWorker
<1> HIDE DEF sub
<1>8. /\ subm \in TickWorker /\ subm.who = "tick" /\ subm.now = worker.now /\ subm.step = "submit"
      /\ subm.offline = worker.offline /\ subm.listed = worker.listed /\ subm.runs = worker.runs
      /\ subm.due = worker.due \ {d} /\ subm.run = Len(run) + 1
  BY <1>1, <1>7, WorkerWith DEF TickWorker
<1>9. subm = [worker EXCEPT !.due = @ \ {d}, !.step = "submit", !.run = Len(run) + 1]
  BY <1>2 DEF subm, sub, left, TickWorker
<1> HIDE DEF subm
<1>10. worker' = IF Skip(d.t) = "no" THEN subm ELSE left
  BY <1>9 DEF TickAccepts, left
<1>11. CASE Skip(d.t) = "no"
  <2>1. worker' = subm
    BY <1>10, <1>11
  <2> QED BY <1>1, <1>2, <1>3, <1>4, <1>5, <1>8, <1>11, <2>1 DEF Accepting, TickAccepts
<1>12. CASE Skip(d.t) # "no"
  <2>1. worker' = left
    BY <1>10, <1>12
  <2> QED BY <1>1, <1>2, <1>3, <1>4, <1>5, <1>6, <1>12, <2>1 DEF Accepting, TickAccepts
<1> QED BY <1>11, <1>12

LEMMA AcceptingTypes ==
  ASSUME SchedTypeInv,
         NEW t, NEW request, NEW now, NEW skip, Accepting(t, request, now, skip)
  PROVE  SchedTypeInv'
<1>1. /\ run' \in Seq(RunRecord) /\ input' \in Seq(InputState) /\ Len(input') = Len(run')
  BY Appended DEF Accepting
<1>2. task' \in [Task -> TaskRecord]
  BY AcceptedTask DEF Accepting
<1> QED BY <1>1, <1>2 DEF Accepting, SchedTypeInv

LEMMA TypeStep == SchedTypeInv /\ [SchedNext]_schedVars => SchedTypeInv'
<1> SUFFICES ASSUME SchedTypeInv, [SchedNext]_schedVars PROVE SchedTypeInv'
  OBVIOUS
<1>1. ASSUME NEW t \in Task, NEW schedule \in Nat, Rearmed(t, schedule) PROVE SchedTypeInv'
  <2>1. armed' \in [Task -> Nat]
    BY <1>1, RearmTypes DEF Rearmed
  <2> QED BY <1>1, <2>1 DEF Rearmed, SchedTypeInv
<1>2. ASSUME NEW t \in Task, Stopped(t), input' \in Seq(InputState), Len(input') = Len(run),
             shut' \subseteq Task
      PROVE  SchedTypeInv'
  BY <1>2 DEF Stopped, SchedTypeInv
<1>3. ASSUME UNCHANGED <<clock, task, run, input, shut, armed, upset, reopened>>,
             ticker' \in TickerRecord, worker' \in {Idle} \cup ManualWorker \cup TickWorker
      PROVE  SchedTypeInv'
  BY <1>3 DEF SchedTypeInv
<1>4. ASSUME NEW r \in RunID, NEW outcome \in InputState, SetInput(r, outcome),
             reopened' \subseteq Nat
      PROVE  SchedTypeInv'
  <2>1. input' \in Seq(InputState) /\ Len(input') = Len(input)
    BY <1>4, RunTypes DEF SetInput, SchedTypeInv
  <2> QED BY <1>4, <2>1 DEF SetInput, SchedTypeInv
<1>5. CASE Tick
  <2>1. CASE TickBegin
    <3>0. ticker.last \in Nat
      BY DEF SchedTypeInv, TickerRecord
    <3>1. worker' \in TickWorker
      BY <2>1, <3>0 DEF TickBegin, TickWorker, Pending, RunID
    <3>2. ticker' \in TickerRecord
      BY <2>1, <3>0 DEF TickBegin, TickerRecord, SchedTypeInv
    <3> QED BY <1>3, <2>1, <3>1, <3>2 DEF TickBegin
  <2>2. CASE TickPending
    <3>1. worker \in TickWorker
      BY <2>2, WorkerCases DEF TickPending
    <3>2. PICK r \in worker.runs : worker' = [worker EXCEPT !.step = "submit", !.run = r, !.runs = @ \ {r}]
      BY <2>2 DEF TickPending
    <3>3. worker.runs \subseteq Nat /\ r \in Nat
      BY <3>1 DEF TickWorker
    <3>4. worker' \in TickWorker
      <4>1. [worker EXCEPT !.step = "submit"] \in TickWorker
        BY <3>1, WorkerWith DEF Submitting
      <4>2. [[worker EXCEPT !.step = "submit"] EXCEPT !.run = r] \in TickWorker
        BY <3>3, <4>1, WorkerWith
      <4>3. [[[worker EXCEPT !.step = "submit"] EXCEPT !.run = r] EXCEPT !.runs = worker.runs \ {r}]
              \in TickWorker
        BY <3>3, <4>2, WorkerWith
      <4> QED BY <3>1, <3>2, <4>3 DEF TickWorker
    <3> QED BY <1>3, <2>2, <3>4 DEF TickPending, SchedTypeInv
  <2>3. CASE TickList
    <3>1. worker \in TickWorker
      BY <2>3, WorkerCases DEF TickList
    <3> DEFINE due == {[t |-> t, revision |-> task[t].revision, nextAt |-> task[t].nextAt] :
                             t \in {u \in Task : /\ Exists(u) /\ task[u].enabled
                                                 /\ task[u].nextAt # Never
                                                 /\ task[u].nextAt <= worker.now}}
    <3>2. due \in SUBSET DueTask
      BY DEF SchedTypeInv, DueTask, TaskRecord
    <3>3. worker' = [worker EXCEPT !.step = "tasks", !.listed = TRUE, !.due = due]
      BY <2>3 DEF TickList
    <3> HIDE DEF due
    <3>4. worker' \in TickWorker
      <4>1. [worker EXCEPT !.step = "tasks"] \in TickWorker
        BY <3>1, WorkerWith
      <4>2. [[worker EXCEPT !.step = "tasks"] EXCEPT !.listed = TRUE] \in TickWorker
        BY <4>1, WorkerWith
      <4>3. [[[worker EXCEPT !.step = "tasks"] EXCEPT !.listed = TRUE] EXCEPT !.due = due] \in TickWorker
        BY <3>2, <4>2, WorkerWith
      <4> QED BY <3>1, <3>3, <4>3 DEF TickWorker
    <3> QED BY <1>3, <2>3, <3>4 DEF TickList, SchedTypeInv
  <2>4. CASE TickTask
    <3>1. PICK d \in DueTask : TickLeaves(d) \/ TickAccepts(d)
      BY <2>4, TickTaskCases
    <3>2. CASE TickLeaves(d)
      <4>1. worker \in TickWorker /\ worker.due \ {d} \in SUBSET DueTask
        BY <3>2 DEF TickLeaves, TickWorker
      <4>2. [worker EXCEPT !.due = worker.due \ {d}] \in TickWorker
        BY <4>1, WorkerWith
      <4>3. worker' \in {Idle} \cup TickWorker
        BY <3>2, <4>1, <4>2 DEF TickLeaves
      <4> QED BY <1>3, <3>2, <4>3 DEF TickLeaves, SchedTypeInv
    <3>3. CASE TickAccepts(d)
      <4>1. d.t \in Task /\ worker.now \in Nat /\ Skip(d.t) \in SkipReason
        BY <3>3 DEF DueTask, TickAccepts, TickWorker, Skip, SkipReason
      <4>2. /\ run' \in Seq(RunRecord) /\ input' \in Seq(InputState) /\ Len(input') = Len(run')
            /\ task' \in [Task -> TaskRecord]
        BY <3>3, <4>1, Appended, AcceptedTask DEF TickAccepts
      <4>3. worker \in TickWorker /\ worker.due \ {d} \in SUBSET DueTask /\ Len(run) + 1 \in Nat
        BY <3>3, RunTypes DEF TickAccepts, TickWorker
      <4>4. [worker EXCEPT !.due = worker.due \ {d}] \in TickWorker
        BY <4>3, WorkerWith
      <4>5. [[worker EXCEPT !.due = worker.due \ {d}] EXCEPT !.step = "submit"] \in TickWorker
        BY <4>4, WorkerWith DEF Submitting
      <4>6. [[[worker EXCEPT !.due = worker.due \ {d}] EXCEPT !.step = "submit"]
               EXCEPT !.run = Len(run) + 1] \in TickWorker
        BY <4>3, <4>5, WorkerWith
      <4>7. worker' \in TickWorker
        BY <3>3, <4>3, <4>4, <4>6 DEF TickAccepts, TickWorker
      <4> QED BY <3>3, <4>2, <4>7 DEF TickAccepts, SchedTypeInv
    <3> QED BY <3>1, <3>2, <3>3
  <2>5. CASE TickEnd
    BY <1>3, <2>5 DEF TickEnd, SchedTypeInv
  <2>6. CASE TickRead
    <3>1. ticker' \in TickerRecord /\ worker' = worker
      BY <2>6 DEF TickRead, TickerRecord, SchedTypeInv
    <3> QED BY <1>3, <2>6, <3>1 DEF TickRead, SchedTypeInv
  <2> QED BY <1>5, <2>1, <2>2, <2>3, <2>4, <2>5, <2>6 DEF Tick
<1>6. CASE SubmitRun
  <2>1. \A s \in Submitting : [worker EXCEPT !.step = s] \in {Idle} \cup ManualWorker \cup TickWorker
    BY <1>6, WorkerCases, WorkerWith DEF SubmitRun
  <2>2. worker' \in {Idle} \cup ManualWorker \cup TickWorker
    BY <1>6, <2>1 DEF SubmitRun, Submitting
  <2>3. input' = input \/ input' = [input EXCEPT ![worker.run] = "queued"]
    BY <1>6 DEF SubmitRun
  <2>4. input' \in Seq(InputState) /\ Len(input') = Len(input)
    <3>1. "queued" \in InputState
      BY DEF InputState
    <3>2. \A i \in RunID : input'[i] \in InputState
      BY <2>3, <3>1, RunTypes
    <3>3. DOMAIN input' = 1..Len(run) /\ input' = [i \in 1..Len(run) |-> input'[i]]
      BY <2>3, RunTypes DEF SchedTypeInv
    <3>4. input' \in Seq(InputState) /\ Len(input') = Len(run)
      BY <3>2, <3>3, RunTypes
    <3> QED BY <3>4 DEF SchedTypeInv
  <2> QED BY <1>6, <2>2, <2>4 DEF SubmitRun, SchedTypeInv
<1>7. CASE HandOff
  <2>1. run' \in Seq(RunRecord) /\ Len(run') = Len(run)
    <3>1. Handoff(worker.step, worker.run) \in {"pending", "submitted", "failed", "skipped"}
      BY DEF Handoff
    <3>2. \A d \in RunRecord : \A h \in {"pending", "submitted", "failed", "skipped"} :
            [d EXCEPT !.handoff = h] \in RunRecord
      BY DEF RunRecord
    <3>3. \A i \in RunID : [run[i] EXCEPT !.handoff = Handoff(worker.step, worker.run)] \in RunRecord
      BY <3>1, <3>2, RunTypes
    <3>4. run' = [run EXCEPT ![worker.run].handoff = Handoff(worker.step, worker.run)]
      BY <1>7 DEF HandOff
    <3>5. \A i \in RunID : run'[i] \in RunRecord
      BY <3>3, <3>4, RunTypes
    <3>6. DOMAIN run' = 1..Len(run) /\ run' = [i \in 1..Len(run) |-> run'[i]]
      BY <3>4, RunTypes DEF SchedTypeInv
    <3> QED BY <3>5, <3>6, RunTypes
  <2>2. worker' \in {Idle} \cup ManualWorker \cup TickWorker
    <3>1. CASE worker.who = "manual"
      BY <1>7, <3>1 DEF HandOff
    <3>2. CASE worker \in TickWorker
      <4>1. [worker EXCEPT !.run = 0] \in TickWorker
        BY <3>2, WorkerWith
      <4>2. [[worker EXCEPT !.run = 0] EXCEPT !.step = IF worker.listed THEN "tasks" ELSE "pending"]
              \in TickWorker
        BY <4>1, WorkerWith
      <4> QED BY <1>7, <3>2, <4>2 DEF HandOff, TickWorker
    <3> QED BY <1>7, <3>1, <3>2, WorkerCases DEF HandOff
  <2> QED BY <1>7, <2>1, <2>2 DEF HandOff, SchedTypeInv
<1>8. ASSUME NEW t \in Task, NEW q \in Request, RunNow(t, q) PROVE SchedTypeInv'
  BY <1>8, RunNowAccepts, AcceptingTypes
<1>9. ASSUME NEW t \in Task, NEW schedule \in Rule, Create(t, schedule) \/ Reschedule(t, schedule)
      PROVE  SchedTypeInv'
  BY <1>1, <1>9, CreateStep, RescheduleStep DEF Rearmed
<1>10. ASSUME NEW t \in Task, Pause(t) \/ Delete(t) PROVE SchedTypeInv'
  <2>1. Stopped(t) /\ input' = input /\ shut' = shut
    BY <1>10, PauseStep, DeleteStep
  <2> QED BY <1>2, <2>1 DEF SchedTypeInv
<1>11. ASSUME NEW t \in Task, Resume(t) PROVE SchedTypeInv'
  BY <1>1, <1>11, ResumeStep DEF Rearmed
<1>12. ASSUME NEW t \in Task, Archive(t) PROVE SchedTypeInv'
  <2>1. Stopped(t) /\ shut' \subseteq Task
    BY <1>12, ArchiveStep DEF SchedTypeInv
  <2>2. input' = [r \in RunID |-> IF run[r].task = t /\ input[r] = "queued" THEN "done" ELSE input[r]]
    BY <1>12 DEF Archive
  <2>3. input' \in Seq(InputState) /\ Len(input') = Len(run)
    BY <2>2, RunTypes DEF InputState
  <2> QED BY <1>2, <2>1, <2>3
<1>13. ASSUME NEW t \in Task, Restore(t) PROVE SchedTypeInv'
  BY <1>13 DEF Restore, SchedTypeInv
<1>14. ASSUME NEW r \in RunID, TurnStarts(r) \/ TurnEnds(r) \/ Answer(r) \/ Withdraw(r) \/ Retry(r)
       PROVE  SchedTypeInv'
  <2>1. reopened' \subseteq Nat
    <3>1. reopened' = reopened \/ reopened' = reopened \cup {r}
      BY <1>14 DEF TurnStarts, TurnEnds, Answer, Withdraw, Retry
    <3> QED BY <3>1, RunTypes DEF SchedTypeInv
  <2>2. \E outcome \in InputState : SetInput(r, outcome)
    BY <1>14 DEF TurnStarts, TurnEnds, Answer, Withdraw, Retry, InputState
  <2> QED BY <1>4, <2>1, <2>2
<1>15. CASE Advance
  BY <1>15 DEF Advance, SchedTypeInv
<1>16. CASE SetBack
  <2>1. clock' \in Nat
    BY <1>16 DEF SetBack
  <2> QED BY <1>16, <2>1 DEF SetBack, SchedTypeInv
<1>17. CASE WorkerFails
  BY <1>17 DEF WorkerFails, SchedTypeInv
<1>18. CASE DaemonRestarts
  <2>1. ticker' \in TickerRecord
    BY <1>18 DEF DaemonRestarts, SchedTypeInv, TickerRecord
  <2>2. input' = [r \in RunID |-> IF input[r] = "running" THEN "failed" ELSE input[r]]
    BY <1>18 DEF DaemonRestarts
  <2>3. input' \in Seq(InputState) /\ Len(input') = Len(run)
    BY <2>2, RunTypes DEF InputState
  <2> QED BY <1>18, <2>1, <2>3 DEF DaemonRestarts, SchedTypeInv
<1>19. CASE UNCHANGED schedVars
  BY <1>3, <1>19 DEF schedVars, SchedTypeInv
<1> QED BY <1>5, <1>6, <1>7, <1>8, <1>9, <1>10, <1>11, <1>12, <1>13, <1>14, <1>15, <1>16, <1>17,
           <1>18, <1>19 DEF SchedNext, Submission

-----------------------------------------------------------------------------
(***************************************************************************)
(* Who holds a run.                                                        *)
(***************************************************************************)

Handing == RunHeld /\ RunsListed /\ HandoffTruthful

\* An input that has arrived stays: a run without one gets it from its holder only.
InputsKept ==
  /\ UNCHANGED run
  /\ \A r \in RunID : input'[r] = "none" <=> input[r] = "none"

LEMMA InputsKeptHanding ==
  ASSUME SchedTypeInv, Handing, InputsKept, UNCHANGED worker
  PROVE  Handing'
<1>1. RunID' = RunID /\ Pending' = Pending
  BY DEF InputsKept, RunID, Pending
<1> QED BY <1>1 DEF Handing, RunHeld, RunsListed, HandoffTruthful, InputsKept, Holds

LEMMA IdleHanding ==
  ASSUME SchedTypeInv, Handing, InputsKept, worker' = Idle
  PROVE  Handing'
<1>1. RunID' = RunID /\ worker'.who = "none"
  BY DEF InputsKept, RunID, Idle
<1> QED BY <1>1 DEF Handing, RunHeld, RunsListed, HandoffTruthful, InputsKept, Holds

LEMMA AcceptingHanding ==
  ASSUME SchedTypeInv, Handing,
         NEW t, NEW request, NEW now, NEW skip, Accepting(t, request, now, skip)
  PROVE  Handing'
<1> DEFINE new == Len(run) + 1
<1>0. /\ t \in Task /\ request \in Request \cup {"scheduled"} /\ now \in Nat /\ skip \in SkipReason
      /\ Accept(t, request, now, skip)
  BY DEF Accepting
<1>a. new \notin RunID
  BY RunTypes
<1>1. /\ RunID' = RunID \cup {new} /\ new \notin RunID
      /\ \A r \in RunID : run'[r] = run[r] /\ input'[r] = input[r]
      /\ run'[new] = NewRun(t, request, now, skip) /\ input'[new] = "none"
  BY <1>0, <1>a, Appended
<1>2. run'[new].handoff = IF skip = "no" THEN "pending" ELSE "skipped"
  BY <1>1 DEF NewRun
<1> HIDE DEF new
<1>3. HandoffTruthful'
  BY <1>1, <1>2 DEF Handing, HandoffTruthful
<1>4. CASE skip = "no"
  <2>1. worker'.step = "submit" /\ worker'.run = new
    BY <1>4 DEF Accepting, new
  <2>2. RunHeld'
    BY <1>1, <1>2, <1>4, <2>1 DEF RunHeld, Holds
  <2>3. RunsListed'
    <3> SUFFICES ASSUME worker'.who = "tick" PROVE RunsListed'
      BY DEF RunsListed
    <3>1. worker.who = "tick" /\ worker'.listed /\ worker'.runs = worker.runs
      BY DEF Accepting
    <3>2. worker.runs \subseteq RunID /\ worker.runs \subseteq Pending
      BY <3>1 DEF Handing, RunsListed, Pending
    <3>3. worker.listed
      BY <3>1 DEF Accepting
    <3>4. worker'.runs = {}
      BY <3>1, <3>3 DEF Handing, RunsListed
    <3> QED BY <2>1, <3>1, <3>4 DEF RunsListed
  <2> QED BY <1>3, <2>2, <2>3 DEF Handing
<1>5. CASE skip # "no"
  <2>1. worker'.step = "tasks"
    BY <1>5 DEF Accepting
  <2>2. RunHeld'
    BY <2>1 DEF RunHeld, Holds, Submitting
  <2>3. RunsListed'
    <3> SUFFICES ASSUME worker'.who = "tick" PROVE RunsListed'
      BY DEF RunsListed
    <3>1. worker.who = "tick" /\ worker'.listed /\ worker'.runs = worker.runs
      BY DEF Accepting
    <3>3. worker.listed
      BY <3>1 DEF Accepting
    <3>4. worker'.runs = {}
      BY <3>1, <3>3 DEF Handing, RunsListed
    <3> QED BY <2>1, <3>1, <3>4 DEF RunsListed, Submitting
  <2> QED BY <1>3, <2>2, <2>3 DEF Handing
<1> QED BY <1>4, <1>5

LEMMA HandingStep == SchedTypeInv /\ Handing /\ [SchedNext]_schedVars => Handing'
<1> SUFFICES ASSUME SchedTypeInv, Handing, [SchedNext]_schedVars PROVE Handing'
  OBVIOUS
<1>1. ASSUME UNCHANGED <<run, input>> PROVE InputsKept
  BY <1>1 DEF InputsKept
<1>2. CASE TickBegin
  <2>1. /\ worker'.who = "tick" /\ worker'.step = "pending" /\ ~worker'.listed /\ worker'.runs = Pending
        /\ UNCHANGED <<run, input>>
    BY <1>2 DEF TickBegin
  <2>2. Pending' = Pending /\ RunID' = RunID
    BY <2>1 DEF Pending, RunID
  <2> QED BY <2>1, <2>2 DEF Handing, RunHeld, RunsListed, HandoffTruthful, Holds, Submitting
<1>3. CASE TickPending
  <2>1. worker \in TickWorker /\ worker.who = "tick" /\ worker.step = "pending"
    BY <1>3, WorkerCases DEF TickPending, ManualWorker
  <2>2. PICK r \in worker.runs : worker' = [worker EXCEPT !.step = "submit", !.run = r, !.runs = @ \ {r}]
    BY <1>3 DEF TickPending
  <2>3. /\ worker'.who = "tick" /\ worker'.step = "submit" /\ worker'.listed = worker.listed
        /\ worker'.runs = worker.runs \ {r} /\ worker'.run = r
    BY <2>1, <2>2 DEF TickWorker
  <2>4. UNCHANGED <<run, input>> /\ Pending' = Pending /\ RunID' = RunID
    BY <1>3 DEF TickPending, Pending, RunID
  <2>5. r \in Pending /\ worker.runs \subseteq Pending /\ ~worker.listed
    BY <2>1 DEF Handing, RunsListed
  <2>6. r \in RunID /\ run[r].handoff = "pending"
    BY <2>5 DEF Pending
  <2>7. RunHeld'
    BY <2>3, <2>4, <2>6 DEF RunHeld
  <2>8. RunsListed'
    BY <2>3, <2>4, <2>5 DEF RunsListed
  <2> QED BY <2>4, <2>7, <2>8 DEF Handing, HandoffTruthful
<1>4. CASE TickList
  <2>1. worker \in TickWorker /\ worker.who = "tick" /\ worker.runs = {}
    BY <1>4, WorkerCases DEF TickList, ManualWorker
  <2>2. /\ worker'.who = "tick" /\ worker'.step = "tasks" /\ worker'.listed /\ worker'.runs = {}
    BY <1>4, <2>1 DEF TickList, TickWorker
  <2>3. UNCHANGED <<run, input>> /\ RunID' = RunID
    BY <1>4 DEF TickList, RunID
  <2> QED BY <2>2, <2>3 DEF Handing, RunHeld, RunsListed, HandoffTruthful, Holds, Submitting
<1>5. CASE TickTask
  <2>1. PICK d \in DueTask : TickLeaves(d) \/ TickAccepts(d)
    BY <1>5, TickTaskCases
  <2>2. CASE TickAccepts(d)
    <3>1. Accepting(d.t, "scheduled", worker.now, Skip(d.t))
      BY <2>2, TickTaskAccepts DEF Handing
    <3> QED BY <3>1, AcceptingHanding
  <2>3. CASE TickLeaves(d)
    <3>1. InputsKept
      BY <1>1, <2>3 DEF TickLeaves
    <3>2. CASE worker' = Idle
      BY <3>1, <3>2, IdleHanding
    <3>3. CASE worker' # Idle
      <4>1. worker \in TickWorker /\ worker.who = "tick" /\ worker.step = "tasks"
        BY <2>3 DEF TickLeaves, TickWorker
      <4>2. /\ worker'.who = "tick" /\ worker'.step = "tasks" /\ worker'.listed = worker.listed
            /\ worker'.runs = worker.runs
        BY <2>3, <3>3, <4>1 DEF TickLeaves, TickWorker
      <4>3. RunID' = RunID /\ Pending' = Pending
        BY <3>1 DEF InputsKept, RunID, Pending
      <4> QED BY <3>1, <4>1, <4>2, <4>3
              DEF InputsKept, Handing, RunHeld, RunsListed, HandoffTruthful, Holds, Submitting
    <3> QED BY <3>2, <3>3
  <2> QED BY <2>1, <2>2, <2>3
<1>6. CASE TickEnd
  BY <1>1, <1>6, IdleHanding DEF TickEnd
<1>7. CASE SubmitRun
  <2>1. Holds /\ RunID' = RunID /\ Pending' = Pending /\ run' = run
    BY <1>7 DEF SubmitRun, Holds, Submitting, RunID, Pending
  <2>2. worker.run \in RunID /\ run[worker.run].handoff = "pending"
    BY <2>1 DEF Handing, RunHeld
  <2>3. PICK s \in {"submitted", "refused"} :
          /\ worker' = [worker EXCEPT !.step = s]
          /\ s = "submitted" => input'[worker.run] # "none"
          /\ \A i \in RunID : i # worker.run => input'[i] = input[i]
          /\ input[worker.run] # "none" => input' = input
    <3>1. CASE input[worker.run] # "none"
      BY <1>7, <3>1 DEF SubmitRun
    <3>2. CASE input[worker.run] = "none"
      <4>1. PICK accepted, replied \in BOOLEAN :
              /\ replied => accepted
              /\ input' = IF accepted THEN [input EXCEPT ![worker.run] = "queued"] ELSE input
              /\ worker' = [worker EXCEPT !.step = IF replied THEN "submitted" ELSE "refused"]
        BY <1>7, <3>2 DEF SubmitRun
      <4>2. replied => input'[worker.run] = "queued"
        BY <2>2, <4>1, RunTypes
      <4>3. \A i \in RunID : i # worker.run => input'[i] = input[i]
        BY <4>1, RunTypes
      <4>4. CASE replied
        BY <3>2, <4>1, <4>2, <4>3, <4>4
      <4>5. CASE ~replied
        BY <3>2, <4>1, <4>3, <4>5
      <4> QED BY <4>4, <4>5
    <3> QED BY <3>1, <3>2
  <2>4. /\ worker'.who = worker.who /\ worker'.run = worker.run /\ worker'.step = s
        /\ worker.who = "tick" => worker'.listed = worker.listed /\ worker'.runs = worker.runs
    BY <1>7, <2>3, WorkerCases DEF SubmitRun, ManualWorker, TickWorker
  <2>5. RunHeld'
    BY <2>1, <2>2, <2>3, <2>4 DEF RunHeld
  <2>6. RunsListed'
    BY <2>1, <2>3, <2>4 DEF RunsListed, Handing, Holds, Submitting
  <2>7. HandoffTruthful'
    BY <2>1, <2>2, <2>3 DEF HandoffTruthful, Handing
  <2> QED BY <2>5, <2>6, <2>7 DEF Handing
<1>8. CASE HandOff
  <2>1. Holds /\ input' = input
    BY <1>8 DEF HandOff, Holds, Submitting
  <2> DEFINE w == worker.run
  <2>2. w \in RunID /\ run[w].handoff = "pending" /\ (worker.step = "submitted" => input[w] # "none")
    BY <2>1 DEF Handing, RunHeld
  <2>3. run' = [run EXCEPT ![w].handoff = Handoff(worker.step, w)]
    BY <1>8 DEF HandOff
  <2>4. RunID' = RunID /\ \A i \in RunID : i # w => run'[i] = run[i]
    BY <2>2, <2>3, RunTypes DEF RunID
  <2>5. run'[w].handoff = Handoff(worker.step, w)
    BY <2>2, <2>3, RunTypes DEF RunRecord
  <2>6. HandoffTruthful'
    BY <2>1, <2>2, <2>4, <2>5 DEF Handoff, HandoffTruthful, Handing
  <2>7. CASE worker.who = "manual"
    <3>1. worker'.who = "none"
      BY <1>8, <2>7 DEF HandOff, Idle
    <3> QED BY <2>6, <3>1 DEF Handing, RunHeld, RunsListed, Holds
  <2>8. CASE worker.who = "tick"
    <3>1. worker \in TickWorker
      BY <2>8, WorkerCases DEF ManualWorker
    <3>2. /\ worker'.who = "tick" /\ worker'.step = IF worker.listed THEN "tasks" ELSE "pending"
          /\ worker'.listed = worker.listed /\ worker'.runs = worker.runs
      BY <1>8, <2>8, <3>1 DEF HandOff, TickWorker
    <3>3. /\ worker.runs \subseteq Pending /\ w \notin worker.runs
          /\ worker.listed => worker.runs = {}
      BY <2>1, <2>8 DEF Handing, RunsListed, Holds
    <3>4. worker'.runs \subseteq Pending'
      BY <2>4, <3>2, <3>3 DEF Pending
    <3>5. RunsListed'
      BY <3>2, <3>3, <3>4 DEF RunsListed, Submitting
    <3> QED BY <2>6, <3>2, <3>5 DEF Handing, RunHeld, Holds, Submitting
  <2> QED BY <1>8, <2>7, <2>8, WorkerCases DEF HandOff
<1>9. ASSUME NEW t \in Task, NEW q \in Request, RunNow(t, q) PROVE Handing'
  BY <1>9, RunNowAccepts, AcceptingHanding
<1>10. ASSUME NEW t \in Task, NEW schedule \in Rule, Create(t, schedule) \/ Reschedule(t, schedule)
       PROVE  Handing'
  <2>1. UNCHANGED <<run, input, worker>>
    BY <1>10 DEF Create, Reschedule, Update
  <2> QED BY <1>1, <2>1, InputsKeptHanding
<1>11. ASSUME NEW t \in Task, Pause(t) \/ Resume(t) \/ Delete(t) \/ Restore(t) PROVE Handing'
  <2>1. UNCHANGED <<run, input, worker>>
    BY <1>11 DEF Pause, Resume, Delete, Restore, Update
  <2> QED BY <1>1, <2>1, InputsKeptHanding
<1>12. ASSUME NEW t \in Task, Archive(t) PROVE Handing'
  <2>1. InputsKept /\ worker' = worker
    BY <1>12 DEF Archive, InputsKept
  <2> QED BY <2>1, InputsKeptHanding
<1>13. ASSUME NEW r \in RunID, TurnStarts(r) \/ TurnEnds(r) \/ Answer(r) \/ Withdraw(r) \/ Retry(r)
       PROVE  Handing'
  <2>1. PICK outcome \in InputState \ {"none"} : SetInput(r, outcome)
    BY <1>13 DEF TurnStarts, TurnEnds, Answer, Withdraw, Retry, InputState
  <2>2. input[r] # "none"
    BY <1>13 DEF TurnStarts, TurnEnds, Answer, Withdraw, Retry
  <2>3. InputsKept /\ worker' = worker
    BY <2>1, <2>2, RunTypes DEF SetInput, InputsKept
  <2> QED BY <2>3, InputsKeptHanding
<1>14. CASE Advance \/ SetBack \/ TickRead
  <2>1. UNCHANGED <<run, input, worker>>
    BY <1>14 DEF Advance, SetBack, TickRead
  <2> QED BY <1>1, <2>1, InputsKeptHanding
<1>15. CASE WorkerFails
  BY <1>1, <1>15, IdleHanding DEF WorkerFails
<1>16. CASE DaemonRestarts
  <2>1. InputsKept /\ worker' = Idle
    BY <1>16 DEF DaemonRestarts, InputsKept
  <2> QED BY <2>1, IdleHanding
<1>17. CASE UNCHANGED schedVars
  BY <1>1, <1>17, InputsKeptHanding DEF schedVars
<1> QED BY <1>2, <1>3, <1>4, <1>5, <1>6, <1>7, <1>8, <1>9, <1>10, <1>11, <1>12, <1>13, <1>14, <1>15,
           <1>16, <1>17 DEF SchedNext, Tick, Submission

-----------------------------------------------------------------------------
(***************************************************************************)
(* The steps, by what they do to runs and to schedules: a run is accepted, *)
(* a schedule counts from now, or neither.                                 *)
(***************************************************************************)

UnderWay == {"queued", "running", "awaiting"}

\* No run is taken up again, unless a person does it.
RunsKept ==
  /\ RunID' = RunID
  /\ \A r \in RunID :
       /\ run'[r].task = run[r].task /\ run'[r].request = run[r].request
       /\ run'[r].at = run[r].at /\ run'[r].rule = run[r].rule
       /\ run'[r].for = run[r].for /\ run'[r].through = run[r].through
       /\ run'[r].handoff = "skipped" <=> run[r].handoff = "skipped"
       /\ BusyRun(r)' => BusyRun(r) \/ r \in reopened'
  /\ reopened \subseteq reopened'

TaskSame(t) ==
  /\ task'[t].exists = task[t].exists
  /\ task[t].deleted => task'[t].deleted
  /\ task'[t].enabled => task[t].enabled
  /\ task'[t].rule = task[t].rule
  /\ task'[t].schedule = task[t].schedule
  /\ task'[t].nextAt = task[t].nextAt
  /\ armed'[t] = armed[t]

Rearming(t) ==
  \E schedule \in Nat :
    /\ Rearmed(t, schedule)
    /\ \/ NewRule(t)
       \/ task'[t].rule = task[t].rule /\ schedule = task[t].schedule /\ Exists(t)

\* What a step does to the inputs of the runs, when the runs stay.
LEMMA InputsRunsKept ==
  ASSUME SchedTypeInv, UNCHANGED run, reopened \subseteq reopened',
         \A r \in RunID : input'[r] \in UnderWay => BusyRun(r) \/ r \in reopened',
         \A r \in RunID : input'[r] = "none" => input[r] = "none"
  PROVE  RunsKept
<1>1. RunID' = RunID
  BY DEF RunID
<1>2. \A r \in RunID : BusyRun(r)' => BusyRun(r) \/ r \in reopened'
  BY DEF BusyRun, UnderWay
<1> QED BY <1>1, <1>2 DEF RunsKept

LEMMA SameRunsKept ==
  ASSUME SchedTypeInv, UNCHANGED <<run, input, reopened>>
  PROVE  RunsKept
<1>1. \A r \in RunID : input'[r] \in UnderWay => BusyRun(r) \/ r \in reopened'
  BY DEF BusyRun, UnderWay
<1> QED BY <1>1, InputsRunsKept

LEMMA HandOffRunsKept ==
  ASSUME SchedTypeInv, Handing, HandOff
  PROVE  RunsKept
<1> DEFINE w == worker.run
<1>1. Holds
  BY DEF HandOff, Holds, Submitting
<1>2. w \in RunID /\ run[w].handoff = "pending"
  BY <1>1 DEF Handing, RunHeld
<1>3. /\ run' = [run EXCEPT ![w].handoff = Handoff(worker.step, w)]
      /\ UNCHANGED <<input, reopened>>
  BY DEF HandOff
<1>4. RunID' = RunID /\ \A i \in RunID : i # w => run'[i] = run[i]
  BY <1>2, <1>3, RunTypes DEF RunID
<1>5. /\ run'[w].task = run[w].task /\ run'[w].request = run[w].request
      /\ run'[w].at = run[w].at /\ run'[w].rule = run[w].rule
      /\ run'[w].for = run[w].for /\ run'[w].through = run[w].through
      /\ run'[w].handoff = Handoff(worker.step, w)
  BY <1>2, <1>3, RunTypes DEF RunRecord
<1>6. run'[w].handoff # "skipped"
  BY <1>5 DEF Handoff
<1>7. \A r \in RunID : BusyRun(r)' => BusyRun(r)
  BY <1>2, <1>3, <1>4 DEF BusyRun
<1> QED BY <1>2, <1>3, <1>4, <1>5, <1>6, <1>7 DEF RunsKept

LEMMA Steps ==
  ASSUME SchedTypeInv, Handing, [SchedNext]_schedVars
  PROVE  \/ \E t \in Task, request \in Request \cup {"scheduled"}, now \in Nat, skip \in SkipReason :
              Accepting(t, request, now, skip)
         \/ RunsKept /\ \A t \in Task : TaskSame(t)
         \/ RunsKept /\ \E t \in Task : Rearming(t)
<1> DEFINE Goal == \/ \E t \in Task, request \in Request \cup {"scheduled"}, now \in Nat,
                           skip \in SkipReason :
                        Accepting(t, request, now, skip)
                   \/ RunsKept /\ \A t \in Task : TaskSame(t)
                   \/ RunsKept /\ \E t \in Task : Rearming(t)
<1> SUFFICES Goal
  OBVIOUS
<1>1. ASSUME NEW t, NEW request, NEW now, NEW skip, Accepting(t, request, now, skip) PROVE Goal
  <2>1. t \in Task /\ request \in Request \cup {"scheduled"} /\ now \in Nat /\ skip \in SkipReason
    BY <1>1 DEF Accepting
  <2> QED BY <1>1, <2>1
<1>2. ASSUME task' = task, armed' = armed, RunsKept PROVE Goal
  BY <1>2 DEF TaskSame
<1>3. ASSUME NEW t \in Task, Stopped(t), ~task'[t].enabled \/ task' = task, RunsKept PROVE Goal
  <2>1. \A u \in Task : TaskSame(u)
    BY <1>3 DEF Stopped, TaskSame
  <2> QED BY <1>3, <2>1
<1>4. ASSUME NEW t \in Task, Rearming(t) PROVE Goal
  <2>1. UNCHANGED <<run, input, reopened>>
    BY <1>4 DEF Rearming, Rearmed
  <2> QED BY <1>4, <2>1, SameRunsKept
<1> HIDE DEF Goal
<1>5. CASE TickRead \/ TickBegin \/ TickPending \/ TickList \/ TickEnd
  <2>1. UNCHANGED <<task, armed, run, input, reopened>>
    BY <1>5 DEF TickRead, TickBegin, TickPending, TickList, TickEnd
  <2> QED BY <1>2, <2>1, SameRunsKept
<1>6. CASE TickTask
  <2>1. PICK d \in DueTask : TickLeaves(d) \/ TickAccepts(d)
    BY <1>6, TickTaskCases
  <2>2. CASE TickAccepts(d)
    <3>1. Accepting(d.t, "scheduled", worker.now, Skip(d.t))
      BY <2>2, TickTaskAccepts DEF Handing
    <3> QED BY <1>1, <3>1
  <2>3. CASE TickLeaves(d)
    BY <1>2, <2>3, SameRunsKept DEF TickLeaves
  <2> QED BY <2>1, <2>2, <2>3
<1>7. CASE SubmitRun
  <2>1. Holds /\ UNCHANGED <<task, armed, run, reopened>>
    BY <1>7 DEF SubmitRun, Holds, Submitting
  <2>2. worker.run \in RunID /\ run[worker.run].handoff = "pending"
    BY <2>1 DEF Handing, RunHeld
  <2>3. input' = input \/ input' = [input EXCEPT ![worker.run] = "queued"]
    BY <1>7 DEF SubmitRun
  <2>4. input'[worker.run] = "queued" => input[worker.run] \in {"none", "queued"}
    BY <1>7, <2>2, RunTypes DEF SubmitRun
  <2>5. \A r \in RunID : input'[r] \in UnderWay => BusyRun(r)
    BY <2>2, <2>3, <2>4, RunTypes DEF UnderWay, BusyRun
  <2>6. \A r \in RunID : input'[r] = "none" => input[r] = "none"
    BY <2>2, <2>3, RunTypes
  <2> QED BY <1>2, <2>1, <2>5, <2>6, InputsRunsKept
<1>8. CASE HandOff
  BY <1>2, <1>8, HandOffRunsKept DEF HandOff
<1>9. ASSUME NEW t \in Task, NEW q \in Request, RunNow(t, q) PROVE Goal
  BY <1>1, <1>9, RunNowAccepts
<1>10. ASSUME NEW t \in Task, NEW schedule \in Rule, Create(t, schedule) \/ Reschedule(t, schedule)
       PROVE  Goal
  <2>1. schedule \in Nat
    BY ScheduleAssumption
  <2> QED BY <1>4, <1>10, <2>1, CreateStep, RescheduleStep DEF Rearming
<1>11. ASSUME NEW t \in Task, Resume(t) PROVE Goal
  <2>1. task[t].schedule \in Nat
    BY DEF SchedTypeInv, TaskRecord
  <2> QED BY <1>4, <1>11, <2>1, ResumeStep DEF Rearming
<1>12. ASSUME NEW t \in Task, Pause(t) \/ Delete(t) PROVE Goal
  <2>1. Stopped(t) /\ ~task'[t].enabled /\ input' = input
    BY <1>12, PauseStep, DeleteStep
  <2> QED BY <1>3, <2>1, SameRunsKept DEF Stopped
<1>13. ASSUME NEW t \in Task, Archive(t) PROVE Goal
  <2>1. Stopped(t) /\ (~task'[t].enabled \/ task' = task)
    BY <1>13, ArchiveStep
  <2>2. input' = [r \in RunID |-> IF run[r].task = t /\ input[r] = "queued" THEN "done" ELSE input[r]]
    BY <1>13 DEF Archive
  <2>3. \A r \in RunID : input'[r] \in UnderWay => BusyRun(r)
    BY <2>2 DEF UnderWay, BusyRun
  <2>4. \A r \in RunID : input'[r] = "none" => input[r] = "none"
    BY <2>2
  <2> QED BY <1>3, <2>1, <2>3, <2>4, InputsRunsKept DEF Stopped
<1>14. ASSUME NEW t \in Task, Restore(t) PROVE Goal
  BY <1>2, <1>14, SameRunsKept DEF Restore
<1>15. ASSUME NEW r \in RunID, TurnStarts(r) \/ TurnEnds(r) \/ Answer(r) \/ Withdraw(r) \/ Retry(r)
       PROVE  Goal
  <2>1. PICK outcome \in InputState \ {"none"} : SetInput(r, outcome)
    BY <1>15 DEF TurnStarts, TurnEnds, Answer, Withdraw, Retry, InputState
  <2>2. UNCHANGED <<task, armed, run>> /\ \A q \in RunID : q # r => input'[q] = input[q]
    BY <2>1, RunTypes DEF SetInput
  <2>3. reopened \subseteq reopened' /\ (BusyRun(r) \/ r \in reopened' \/ input'[r] \notin UnderWay)
    <3>1. CASE TurnStarts(r) \/ TurnEnds(r) \/ Answer(r) \/ Withdraw(r)
      BY <3>1 DEF TurnStarts, TurnEnds, Answer, Withdraw, BusyRun
    <3>2. CASE Retry(r)
      BY <3>2 DEF Retry
    <3> QED BY <1>15, <3>1, <3>2
  <2>4. \A q \in RunID : input'[q] \in UnderWay => BusyRun(q) \/ q \in reopened'
    BY <2>2, <2>3 DEF BusyRun, UnderWay
  <2>5. \A q \in RunID : input'[q] = "none" => input[q] = "none"
    BY <2>1, <2>2, RunTypes DEF SetInput
  <2> QED BY <1>2, <2>2, <2>3, <2>4, <2>5, InputsRunsKept
<1>16. CASE Advance \/ SetBack \/ WorkerFails
  <2>1. UNCHANGED <<task, armed, run, input, reopened>>
    BY <1>16 DEF Advance, SetBack, WorkerFails
  <2> QED BY <1>2, <2>1, SameRunsKept
<1>17. CASE DaemonRestarts
  <2>1. UNCHANGED <<task, armed, run, reopened>>
    BY <1>17 DEF DaemonRestarts
  <2>2. input' = [r \in RunID |-> IF input[r] = "running" THEN "failed" ELSE input[r]]
    BY <1>17 DEF DaemonRestarts
  <2>3. \A r \in RunID : input'[r] \in UnderWay => BusyRun(r)
    BY <2>2 DEF UnderWay, BusyRun
  <2>4. \A r \in RunID : input'[r] = "none" => input[r] = "none"
    BY <2>2
  <2> QED BY <1>2, <2>1, <2>3, <2>4, InputsRunsKept
<1>18. CASE UNCHANGED schedVars
  BY <1>2, <1>18, SameRunsKept DEF schedVars
<1> QED
  BY <1>5, <1>6, <1>7, <1>8, <1>9, <1>10, <1>11, <1>12, <1>13, <1>14, <1>15, <1>16, <1>17, <1>18
     DEF SchedNext, Tick, Submission

-----------------------------------------------------------------------------
(***************************************************************************)
(* The order of runs.                                                      *)
(***************************************************************************)

\* Time: only SetBack turns the clock back; the scheduler looks at it between two ticks,
\* and a tick keeps the time it began with.
LEMMA Moves ==
  ASSUME SchedTypeInv, Handing, [SchedNext]_schedVars
  PROVE  /\ upset \subseteq upset'
         /\ Steady' => clock <= clock'
         /\ ticker'.last = ticker.last \/ (ticker'.last = clock /\ clock' = clock)
         /\ worker'.who = "tick" =>
              /\ ticker'.last = ticker.last
              /\ \/ worker.who = "tick" /\ worker'.now = worker.now
                 \/ worker'.now = ticker.last
<1> DEFINE Goal == /\ upset \subseteq upset'
                   /\ Steady' => clock <= clock'
                   /\ ticker'.last = ticker.last \/ (ticker'.last = clock /\ clock' = clock)
                   /\ worker'.who = "tick" =>
                        /\ ticker'.last = ticker.last
                        /\ \/ worker.who = "tick" /\ worker'.now = worker.now
                           \/ worker'.now = ticker.last
<1> SUFFICES Goal
  OBVIOUS
<1>0. clock \in Nat
  BY DEF SchedTypeInv
<1>1. ASSUME upset' = upset, clock' = clock, ticker' = ticker,
             worker' = worker \/ worker'.who # "tick"
      PROVE  Goal
  BY <1>0, <1>1
<1>2. ASSUME upset' = upset, clock' = clock, ticker' = ticker, worker.who = "tick",
             worker'.now = worker.now
      PROVE  Goal
  BY <1>0, <1>2
<1>3. ASSUME NEW t, NEW request, NEW now, NEW skip, Accepting(t, request, now, skip) PROVE Goal
  BY <1>0, <1>3 DEF Accepting
<1>4. Idle.who # "tick"
  BY DEF Idle
<1>5. CASE TickRead \/ TickBegin
  <2>1. CASE TickRead
    <3>1. ticker'.last = clock /\ worker'.who # "tick" /\ clock' = clock /\ upset' = upset
      BY <2>1 DEF TickRead
    <3> QED BY <1>0, <3>1
  <2>2. CASE TickBegin
    <3>1. worker'.now = ticker.last /\ ticker'.last = ticker.last
      BY <2>2 DEF TickBegin, SchedTypeInv, TickerRecord
    <3> QED BY <1>0, <2>2, <3>1 DEF TickBegin
  <2> QED BY <1>5, <2>1, <2>2
<1>6. CASE TickPending \/ TickList
  <2>1. worker \in TickWorker
    BY <1>6, WorkerCases DEF TickPending, TickList
  <2>2. worker'.now = worker.now
    BY <1>6, <2>1 DEF TickPending, TickList, TickWorker
  <2>3. upset' = upset /\ clock' = clock /\ ticker' = ticker /\ worker.who = "tick"
    BY <1>6 DEF TickPending, TickList
  <2> QED BY <1>2, <2>2, <2>3
<1>7. CASE TickTask
  <2>1. PICK d \in DueTask : TickLeaves(d) \/ TickAccepts(d)
    BY <1>7, TickTaskCases
  <2>2. CASE TickAccepts(d)
    <3>1. Accepting(d.t, "scheduled", worker.now, Skip(d.t))
      BY <2>2, TickTaskAccepts DEF Handing
    <3> QED BY <1>3, <3>1
  <2>3. CASE TickLeaves(d)
    <3>1. worker.who = "tick" /\ ([worker EXCEPT !.due = @ \ {d}]).now = worker.now
      BY <2>3 DEF TickLeaves, TickWorker
    <3> QED BY <1>0, <1>4, <2>3, <3>1 DEF TickLeaves
  <2> QED BY <2>1, <2>2, <2>3
<1>8. CASE TickEnd
  BY <1>1, <1>4, <1>8 DEF TickEnd
<1>9. CASE SubmitRun
  <2>1. PICK s \in Submitting : worker' = [worker EXCEPT !.step = s]
    BY <1>9 DEF SubmitRun, Submitting
  <2>2. worker'.who = worker.who /\ (worker.who = "tick" => worker'.now = worker.now)
    BY <1>9, <2>1, WorkerCases DEF SubmitRun, ManualWorker, TickWorker
  <2>3. upset' = upset /\ clock' = clock /\ ticker' = ticker
    BY <1>9 DEF SubmitRun
  <2> QED BY <1>0, <2>2, <2>3
<1>10. CASE HandOff
  <2>1. CASE worker.who = "manual"
    BY <1>1, <1>4, <1>10, <2>1 DEF HandOff
  <2>2. CASE worker.who = "tick"
    <3>1. worker \in TickWorker
      BY <2>2, WorkerCases DEF ManualWorker
    <3>2. worker'.now = worker.now
      BY <1>10, <2>2, <3>1 DEF HandOff, TickWorker
    <3> QED BY <1>2, <1>10, <2>2, <3>2 DEF HandOff
  <2> QED BY <1>10, <2>1, <2>2, WorkerCases DEF HandOff
<1>11. ASSUME NEW t \in Task, NEW q \in Request, RunNow(t, q) PROVE Goal
  BY <1>3, <1>11, RunNowAccepts
<1>12. ASSUME NEW t \in Task, NEW schedule \in Rule, Create(t, schedule) \/ Reschedule(t, schedule)
       PROVE  Goal
  BY <1>1, <1>12 DEF Create, Reschedule, Update
<1>13. ASSUME NEW t \in Task, Pause(t) \/ Resume(t) \/ Delete(t) \/ Archive(t) \/ Restore(t)
       PROVE  Goal
  BY <1>1, <1>13 DEF Pause, Resume, Delete, Archive, Restore, Update
<1>14. ASSUME NEW r \in RunID, TurnStarts(r) \/ TurnEnds(r) \/ Answer(r) \/ Withdraw(r) \/ Retry(r)
       PROVE  Goal
  BY <1>1, <1>14 DEF TurnStarts, TurnEnds, Answer, Withdraw, Retry, SetInput
<1>15. CASE Advance
  BY <1>0, <1>15 DEF Advance
<1>16. CASE SetBack
  BY <1>0, <1>16 DEF SetBack, Steady
<1>17. CASE WorkerFails
  BY <1>0, <1>4, <1>17 DEF WorkerFails
<1>18. CASE DaemonRestarts
  <2>1. ticker'.last = clock /\ worker'.who # "tick"
    BY <1>4, <1>18 DEF DaemonRestarts
  <2> QED BY <1>0, <1>18, <2>1 DEF DaemonRestarts
<1>19. CASE UNCHANGED schedVars
  BY <1>1, <1>19 DEF schedVars
<1> QED
  BY <1>5, <1>6, <1>7, <1>8, <1>9, <1>10, <1>11, <1>12, <1>13, <1>14, <1>15, <1>16, <1>17, <1>18,
     <1>19 DEF SchedNext, Tick, Submission

\* What a step does when it accepts a run.
LEMMA AcceptedLast ==
  ASSUME SchedTypeInv, NEW t, NEW request, NEW now, NEW skip, Accepting(t, request, now, skip)
  PROVE  /\ RunID' = RunID \cup {Len(run) + 1} /\ Len(run) + 1 \notin RunID
         /\ \A r \in RunID : run'[r] = run[r] /\ input'[r] = input[r] /\ r < Len(run) + 1
         /\ run'[Len(run) + 1].at = now /\ run'[Len(run) + 1].task = t
         /\ run'[Len(run) + 1].request = request
         /\ run'[Len(run) + 1].handoff = IF skip = "no" THEN "pending" ELSE "skipped"
<1>1. /\ t \in Task /\ request \in Request \cup {"scheduled"} /\ now \in Nat /\ skip \in SkipReason
      /\ Accept(t, request, now, skip)
  BY DEF Accepting
<1>2. /\ RunID' = RunID \cup {Len(run) + 1}
      /\ \A r \in RunID : run'[r] = run[r] /\ input'[r] = input[r]
      /\ run'[Len(run) + 1] = NewRun(t, request, now, skip)
  BY <1>1, Appended
<1>3. Len(run) + 1 \notin RunID /\ \A r \in RunID : r < Len(run) + 1
  BY RunTypes
<1>4. /\ NewRun(t, request, now, skip).at = now /\ NewRun(t, request, now, skip).task = t
      /\ NewRun(t, request, now, skip).request = request
      /\ NewRun(t, request, now, skip).handoff = IF skip = "no" THEN "pending" ELSE "skipped"
  BY DEF NewRun
<1> QED BY <1>2, <1>3, <1>4

\* The time of a new run: the scheduler's last look at the clock, or now.
LEMMA AcceptedTime ==
  ASSUME SchedTypeInv, TimesPast, Steady,
         NEW t, NEW request, NEW now, NEW skip, Accepting(t, request, now, skip)
  PROVE  /\ now \in Nat /\ now <= clock
         /\ request = "scheduled" => now = ticker.last
<1>1. "scheduled" \notin Request
  BY ScheduleAssumption
<1>2. ticker.last <= clock /\ (worker.who = "tick" => worker.now = ticker.last) /\ clock \in Nat
  BY DEF TimesPast, SchedTypeInv
<1> QED BY <1>1, <1>2 DEF Accepting

LEMMA TimesPastStep ==
  SchedTypeInv /\ Handing /\ TimesPast /\ [SchedNext]_schedVars => TimesPast'
<1> SUFFICES ASSUME SchedTypeInv, Handing, TimesPast, [SchedNext]_schedVars, Steady'
             PROVE  TimesPast'
  BY DEF TimesPast
<1>1. Steady /\ clock <= clock'
  BY Moves DEF Steady
<1>2. /\ \A q \in RunID : run[q].at <= clock
      /\ \A q \in RunID : run[q].request = "scheduled" => run[q].at <= ticker.last
      /\ ticker.last <= clock
      /\ worker.who = "tick" => worker.now = ticker.last
      /\ \A t \in Task : armed[t] <= clock
  BY <1>1 DEF TimesPast
<1>3. /\ clock \in Nat /\ clock' \in Nat /\ armed \in [Task -> Nat] /\ ticker.last \in Nat
      /\ \A r \in RunID : run[r].at \in Nat
  BY TypeStep, RunTypes DEF SchedTypeInv, RunRecord, TickerRecord
<1>4. /\ ticker.last <= ticker'.last /\ ticker'.last <= clock' /\ ticker'.last \in Nat
      /\ worker'.who = "tick" => worker'.now = ticker'.last
  BY <1>1, <1>2, <1>3, Moves
<1>5. CASE \E t \in Task, request \in Request \cup {"scheduled"}, now \in Nat, skip \in SkipReason :
             Accepting(t, request, now, skip)
  <2>1. PICK t \in Task, request \in Request \cup {"scheduled"}, now \in Nat, skip \in SkipReason :
          Accepting(t, request, now, skip)
    BY <1>5
  <2> DEFINE new == Len(run) + 1
  <2>2. /\ RunID' = RunID \cup {new}
        /\ \A r \in RunID : run'[r] = run[r]
        /\ run'[new].at = now /\ run'[new].request = request
    BY <2>1, AcceptedLast
  <2>3. clock' = clock /\ armed' = armed /\ ticker' = ticker
    BY <2>1 DEF Accepting
  <2>4. now <= clock /\ (request = "scheduled" => now <= ticker.last)
    BY <1>1, <1>3, <2>1, AcceptedTime
  <2> HIDE DEF new
  <2>5. \A q \in RunID' : run'[q].at <= clock'
    BY <1>2, <2>2, <2>3, <2>4
  <2>6. \A q \in RunID' : run'[q].request = "scheduled" => run'[q].at <= ticker'.last
    BY <1>2, <2>2, <2>3, <2>4
  <2> QED BY <1>2, <1>4, <2>3, <2>5, <2>6 DEF TimesPast
<1>6. CASE RunsKept
  <2>1. RunID' = RunID
        /\ \A r \in RunID : run'[r].at = run[r].at /\ run'[r].request = run[r].request
    BY <1>6 DEF RunsKept
  <2>2. \A t \in Task : armed'[t] <= clock'
    <3>1. CASE \A t \in Task : TaskSame(t)
      BY <1>1, <1>2, <1>3, <3>1 DEF TaskSame
    <3>2. CASE \E t \in Task : Rearming(t)
      <4>1. PICK t \in Task, schedule \in Nat : Rearmed(t, schedule)
        BY <3>2 DEF Rearming
      <4>2. Rearm(t, schedule)
        BY <4>1 DEF Rearmed
      <4>3. armed'[t] = clock /\ \A u \in Task : u # t => armed'[u] = armed[u]
        BY <4>2, RearmTypes
      <4> QED BY <1>1, <1>2, <1>3, <4>3
    <3>3. CASE \E t \in Task, request \in Request \cup {"scheduled"}, now \in Nat, skip \in SkipReason :
                 Accepting(t, request, now, skip)
      BY <1>2, <3>3 DEF Accepting
    <3> QED BY <3>1, <3>2, <3>3, Steps
  <2>3. \A q \in RunID' : run'[q].at <= clock'
    BY <1>1, <1>2, <1>3, <2>1
  <2>4. \A q \in RunID' : run'[q].request = "scheduled" => run'[q].at <= ticker'.last
    BY <1>2, <1>3, <1>4, <2>1
  <2> QED BY <1>4, <2>2, <2>3, <2>4 DEF TimesPast
<1> QED BY <1>5, <1>6, Steps

\* A run is accepted when the one with the latest time is over: an older run with an
\* earlier time is superseded by it, a newer one hides behind it.
LEMMA NoneBusy ==
  ASSUME SchedTypeInv, Superseded, NEW t \in Task, ActiveRun(t) = {},
         NEW r \in RunID, run[r].task = t, run[r].handoff # "skipped"
  PROVE  r \in reopened \/ ~BusyRun(r) \/ Hidden(r)
<1> SUFFICES ASSUME BusyRun(r) PROVE r \in reopened \/ Hidden(r)
  OBVIOUS
<1>1. PICK q \in RunID : run[q].task = t /\ run[q].handoff # "skipped" /\ Later(q, r)
  BY DEF ActiveRun
<1>2. r \in Nat /\ q \in Nat /\ run[r].at \in Nat /\ run[q].at \in Nat
  BY RunTypes DEF RunRecord
<1>3. CASE q < r
  <2>1. run[q].at > run[r].at
    BY <1>1, <1>2, <1>3 DEF Later
  <2> QED BY <1>1, <1>3, <2>1 DEF Hidden
<1>4. CASE r < q
  BY <1>1, <1>4 DEF Superseded
<1>5. q # r
  BY <1>1, <1>2 DEF Later
<1> QED BY <1>2, <1>3, <1>4, <1>5

\* A run that hides goes on hiding.
LEMMA HiddenStays ==
  ASSUME NEW r \in RunID, Hidden(r), RunID \subseteq RunID',
         \A i \in RunID : /\ run'[i].task = run[i].task /\ run'[i].at = run[i].at
                          /\ run'[i].handoff = "skipped" <=> run[i].handoff = "skipped"
  PROVE  Hidden(r)'
<1>1. PICK q \in RunID : /\ q < r /\ run[q].task = run[r].task /\ run[q].handoff # "skipped"
                         /\ run[q].at > run[r].at
  BY DEF Hidden
<1>2. /\ q \in RunID' /\ run'[q].task = run'[r].task /\ run'[q].handoff # "skipped"
      /\ run'[q].at > run'[r].at
  BY <1>1
<1> QED BY <1>1, <1>2 DEF Hidden

LEMMA SupersededStep ==
  SchedTypeInv /\ Handing /\ Superseded /\ [SchedNext]_schedVars => Superseded'
<1> SUFFICES ASSUME SchedTypeInv, Handing, Superseded, [SchedNext]_schedVars,
                    NEW r \in RunID', NEW q \in RunID',
                    r < q, run'[r].task = run'[q].task,
                    run'[r].handoff # "skipped", run'[q].handoff # "skipped"
             PROVE  r \in reopened' \/ ~BusyRun(r)' \/ Hidden(r)'
  BY DEF Superseded
<1>1. CASE RunsKept
  <2>1. r \in RunID /\ q \in RunID
    BY <1>1 DEF RunsKept
  <2>2. /\ run[r].task = run[q].task /\ run[r].handoff # "skipped" /\ run[q].handoff # "skipped"
        /\ BusyRun(r)' => BusyRun(r) \/ r \in reopened'
        /\ reopened \subseteq reopened'
    BY <1>1, <2>1 DEF RunsKept
  <2>3. r \in reopened \/ ~BusyRun(r) \/ Hidden(r)
    BY <2>1, <2>2 DEF Superseded
  <2>4. Hidden(r) => Hidden(r)'
    BY <1>1, <2>1, HiddenStays DEF RunsKept
  <2> QED BY <2>2, <2>3, <2>4
<1>2. CASE \E t \in Task, request \in Request \cup {"scheduled"}, now \in Nat, skip \in SkipReason :
             Accepting(t, request, now, skip)
  <2>1. PICK t \in Task, request \in Request \cup {"scheduled"}, now \in Nat, skip \in SkipReason :
          Accepting(t, request, now, skip)
    BY <1>2
  <2> DEFINE new == Len(run) + 1
  <2>2. /\ RunID' = RunID \cup {new} /\ new \notin RunID
        /\ \A i \in RunID : run'[i] = run[i] /\ input'[i] = input[i] /\ i < new
        /\ run'[new].task = t
        /\ run'[new].handoff = IF skip = "no" THEN "pending" ELSE "skipped"
    BY <2>1, AcceptedLast
  <2>3. reopened' = reopened /\ (skip = "no" => ActiveRun(t) = {})
    BY <2>1 DEF Accepting
  <2>a. new \in Nat /\ RunID \subseteq Nat
    BY RunTypes
  <2> HIDE DEF new
  <2>b. \A i \in RunID : i < new
    BY <2>2
  <2>c. q \in RunID \cup {new} /\ r \in RunID \cup {new}
    BY <2>2
  <2>4. r \in RunID
    <3> SUFFICES ASSUME r = new PROVE FALSE
      BY <2>c
    <3>1. new < q
      OBVIOUS
    <3>2. q \in RunID
      BY <2>a, <2>c, <3>1
    <3>3. q < new /\ q \in Nat
      BY <2>a, <2>b, <3>2
    <3> QED BY <2>a, <3>1, <3>3
  <2>5. run'[r] = run[r] /\ input'[r] = input[r]
    BY <2>2, <2>4
  <2>6. BusyRun(r)' <=> BusyRun(r)
    BY <2>5 DEF BusyRun
  <2>7. Hidden(r) => Hidden(r)'
    BY <2>2, <2>4, HiddenStays
  <2>8. r \in reopened \/ ~BusyRun(r) \/ Hidden(r)
    <3>1. CASE q \in RunID
      BY <2>2, <2>4, <2>5, <3>1 DEF Superseded
    <3>2. CASE q = new
      <4>1. run[r].task = t /\ run[r].handoff # "skipped" /\ ActiveRun(t) = {}
        BY <2>2, <2>3, <2>5, <3>2
      <4> QED BY <2>4, <4>1, NoneBusy
    <3> QED BY <2>2, <3>1, <3>2
  <2> QED BY <2>3, <2>6, <2>7, <2>8
<1> QED BY <1>1, <1>2, Steps

-----------------------------------------------------------------------------
(***************************************************************************)
(* Runs and their tasks.                                                   *)
(***************************************************************************)

LEMMA TaskTypes ==
  ASSUME SchedTypeInv, NEW t \in Task
  PROVE  /\ task[t].exists \in BOOLEAN /\ task[t].deleted \in BOOLEAN /\ task[t].enabled \in BOOLEAN
         /\ task[t].rule \in Nat /\ task[t].schedule \in Nat /\ task[t].nextAt \in Nat
         /\ task[t].revision \in Nat /\ armed[t] \in Nat
  BY DEF SchedTypeInv, TaskRecord

\* What Accept does, named by the run.
LEMMA AcceptedRun ==
  ASSUME SchedTypeInv,
         NEW t, NEW request, NEW now, NEW skip, Accepting(t, request, now, skip)
  PROVE  /\ RunID' = RunID \cup {Len(run) + 1} /\ Len(run) + 1 \notin RunID
         /\ \A r \in RunID : run'[r] = run[r]
         /\ run'[Len(run) + 1].task = t /\ run'[Len(run) + 1].request = request
         /\ run'[Len(run) + 1].at = now
         /\ run'[Len(run) + 1].rule = IF request = "scheduled" THEN task[t].rule ELSE 0
         /\ run'[Len(run) + 1].for = IF request = "scheduled" THEN task[t].nextAt ELSE Never
         /\ run'[Len(run) + 1].through =
              IF skip = "missed" THEN now
              ELSE IF request = "scheduled" THEN task[t].nextAt ELSE Never
         /\ \A u \in Task : /\ task'[u].exists = task[u].exists
                            /\ task'[u].deleted = task[u].deleted
                            /\ task'[u].enabled = task[u].enabled
                            /\ task'[u].revision = task[u].revision
                            /\ task'[u].rule = task[u].rule
                            /\ task'[u].schedule = task[u].schedule
                            /\ u # t => task'[u].nextAt = task[u].nextAt
         /\ task'[t].nextAt = IF task[t].schedule # Repeating THEN Never
                              ELSE IF request = "scheduled" THEN Occurrence(task[t].schedule, now)
                              ELSE task[t].nextAt
<1>1. /\ t \in Task /\ request \in Request \cup {"scheduled"} /\ now \in Nat /\ skip \in SkipReason
      /\ Accept(t, request, now, skip)
  BY DEF Accepting
<1>2. /\ RunID' = RunID \cup {Len(run) + 1}
      /\ \A r \in RunID : run'[r] = run[r]
      /\ run'[Len(run) + 1] = NewRun(t, request, now, skip)
  BY <1>1, Appended
<1>3. Len(run) + 1 \notin RunID
  BY RunTypes
<1> DEFINE new == NewRun(t, request, now, skip)
<1>4. /\ new.task = t /\ new.request = request /\ new.at = now
      /\ new.rule = IF request = "scheduled" THEN task[t].rule ELSE 0
      /\ new.for = IF request = "scheduled" THEN task[t].nextAt ELSE Never
      /\ new.through = IF skip = "missed" THEN now
                       ELSE IF request = "scheduled" THEN task[t].nextAt ELSE Never
  BY DEF NewRun, Through
<1> HIDE DEF new
<1>5. run'[Len(run) + 1] = new
  BY <1>2 DEF new
<1> QED BY <1>1, <1>2, <1>3, <1>4, <1>5, AcceptedTask

LEMMA RunsKnownStep ==
  SchedTypeInv /\ Handing /\ RunsKnown /\ [SchedNext]_schedVars => RunsKnown'
<1> SUFFICES ASSUME SchedTypeInv, Handing, RunsKnown, [SchedNext]_schedVars, NEW r \in RunID'
             PROVE  task'[run'[r].task].exists /\ run'[r].rule <= task'[run'[r].task].rule
  BY DEF RunsKnown
<1>0. \A i \in RunID : run[i].task \in Task /\ run[i].rule \in Nat
  BY RunTypes DEF RunRecord
<1>1. CASE \E t \in Task, request \in Request \cup {"scheduled"}, now \in Nat, skip \in SkipReason :
             Accepting(t, request, now, skip)
  <2>1. PICK t \in Task, request \in Request \cup {"scheduled"}, now \in Nat, skip \in SkipReason :
          Accepting(t, request, now, skip)
    BY <1>1
  <2>2. task[t].exists /\ task[t].rule \in Nat
    BY <2>1, TaskTypes DEF Accepting, Exists
  <2> DEFINE new == Len(run) + 1
  <2>3. /\ RunID' = RunID \cup {new} /\ \A i \in RunID : run'[i] = run[i]
        /\ run'[new].task = t
        /\ run'[new].rule = IF request = "scheduled" THEN task[t].rule ELSE 0
        /\ \A u \in Task : task'[u].exists = task[u].exists /\ task'[u].rule = task[u].rule
    BY <2>1, AcceptedRun
  <2> HIDE DEF new
  <2>4. CASE r = new
    BY <2>2, <2>3, <2>4
  <2>5. CASE r \in RunID
    BY <1>0, <2>3, <2>5 DEF RunsKnown
  <2> QED BY <2>3, <2>4, <2>5
<1>2. CASE RunsKept /\ \A t \in Task : TaskSame(t)
  BY <1>0, <1>2 DEF RunsKept, TaskSame, RunsKnown
<1>3. CASE RunsKept /\ \E t \in Task : Rearming(t)
  <2>1. PICK t \in Task, schedule \in Nat :
          /\ Rearmed(t, schedule)
          /\ \/ NewRule(t)
             \/ task'[t].rule = task[t].rule /\ schedule = task[t].schedule /\ Exists(t)
    BY <1>3 DEF Rearming
  <2>2. /\ task'[t].exists /\ \A u \in Task : u # t => task'[u] = task[u]
        /\ task' \in [Task -> TaskRecord]
    BY <2>1 DEF Rearmed
  <2>3. r \in RunID /\ run'[r].task = run[r].task /\ run'[r].rule = run[r].rule
    BY <1>3 DEF RunsKept
  <2>4. task[run[r].task].exists /\ run[r].rule <= task[run[r].task].rule
    BY <2>3 DEF RunsKnown
  <2>5. task'[t].rule \in Nat /\ task[t].rule \in Nat
    BY <2>2, TaskTypes DEF TaskRecord
  <2>6. CASE run[r].task = t
    BY <1>0, <2>1, <2>2, <2>3, <2>4, <2>5, <2>6 DEF NewRule
  <2>7. CASE run[r].task # t
    BY <1>0, <2>2, <2>3, <2>4, <2>7
  <2> QED BY <2>6, <2>7
<1> QED BY <1>1, <1>2, <1>3, Steps

LEMMA ShutPausedStep ==
  SchedTypeInv /\ Handing /\ ShutPaused /\ [SchedNext]_schedVars => ShutPaused'
<1> SUFFICES ASSUME SchedTypeInv, Handing, ShutPaused, [SchedNext]_schedVars
             PROVE  ShutPaused'
  OBVIOUS
<1>1. ASSUME task' = task, shut' = shut PROVE ShutPaused'
  BY <1>1 DEF ShutPaused
<1>2. ASSUME NEW t, NEW request, NEW now, NEW skip, Accepting(t, request, now, skip)
      PROVE  ShutPaused'
  <2>1. /\ shut' = shut
        /\ \A u \in Task : /\ task'[u].exists = task[u].exists
                           /\ task'[u].deleted = task[u].deleted
                           /\ task'[u].enabled = task[u].enabled
    BY <1>2, AcceptedRun DEF Accepting
  <2> QED BY <2>1 DEF ShutPaused
<1>3. CASE TickTask
  <2>1. PICK d \in DueTask : TickLeaves(d) \/ TickAccepts(d)
    BY <1>3, TickTaskCases
  <2>2. CASE TickAccepts(d)
    <3>1. Accepting(d.t, "scheduled", worker.now, Skip(d.t))
      BY <2>2, TickTaskAccepts DEF Handing
    <3> QED BY <1>2, <3>1
  <2>3. CASE TickLeaves(d)
    BY <1>1, <2>3 DEF TickLeaves
  <2> QED BY <2>1, <2>2, <2>3
<1>4. ASSUME NEW t \in Task, NEW q \in Request, RunNow(t, q) PROVE ShutPaused'
  BY <1>2, <1>4, RunNowAccepts
<1>5. ASSUME NEW t \in Task, NEW schedule \in Rule, Create(t, schedule) PROVE ShutPaused'
  <2>1. Rearmed(t, schedule) /\ ~task[t].exists
    BY <1>5, CreateStep
  <2>2. t \notin shut /\ shut' = shut
    BY <2>1 DEF ShutPaused, Rearmed
  <2> QED BY <2>1, <2>2 DEF Rearmed, ShutPaused
<1>6. ASSUME NEW t \in Task, NEW schedule \in Rule, Reschedule(t, schedule) PROVE ShutPaused'
  <2>1. Rearmed(t, schedule) /\ task'[t].enabled = task[t].enabled
    BY <1>6, RescheduleStep
  <2> QED BY <2>1 DEF Rearmed, ShutPaused
<1>7. ASSUME NEW t \in Task, Resume(t) PROVE ShutPaused'
  <2>1. Rearmed(t, task[t].schedule) /\ t \notin shut
    BY <1>7, ResumeStep
  <2> QED BY <2>1 DEF Rearmed, ShutPaused
<1>8. ASSUME NEW t \in Task, Pause(t) \/ Delete(t) PROVE ShutPaused'
  <2>1. Stopped(t) /\ ~task'[t].enabled /\ shut' = shut
    BY <1>8, PauseStep, DeleteStep
  <2> QED BY <2>1 DEF Stopped, ShutPaused
<1>9. ASSUME NEW t \in Task, Archive(t) PROVE ShutPaused'
  <2>1. /\ Stopped(t) /\ (~task[t].deleted => ~task'[t].enabled) /\ shut' = shut \cup {t}
        /\ task[t].deleted => task' = task
    BY <1>9, ArchiveStep
  <2>2. task'[t].exists /\ ~task'[t].enabled
    BY <2>1 DEF Stopped, ShutPaused
  <2> QED BY <2>1, <2>2 DEF Stopped, ShutPaused
<1>10. ASSUME NEW t \in Task, Restore(t) PROVE ShutPaused'
  BY <1>10 DEF Restore, ShutPaused
<1>11. CASE TickRead \/ TickBegin \/ TickPending \/ TickList \/ TickEnd \/ SubmitRun \/ HandOff
  BY <1>1, <1>11 DEF TickRead, TickBegin, TickPending, TickList, TickEnd, SubmitRun, HandOff
<1>12. ASSUME NEW r \in RunID, TurnStarts(r) \/ TurnEnds(r) \/ Answer(r) \/ Withdraw(r) \/ Retry(r)
       PROVE  ShutPaused'
  BY <1>1, <1>12 DEF TurnStarts, TurnEnds, Answer, Withdraw, Retry, SetInput
<1>13. CASE Advance \/ SetBack \/ WorkerFails \/ DaemonRestarts \/ UNCHANGED schedVars
  BY <1>1, <1>13 DEF Advance, SetBack, WorkerFails, DaemonRestarts, schedVars
<1> QED
  BY <1>3, <1>4, <1>5, <1>6, <1>7, <1>8, <1>9, <1>10, <1>11, <1>12, <1>13
     DEF SchedNext, Tick, Submission

LEMMA NextOccursStep ==
  SchedTypeInv /\ Handing /\ NextOccurs /\ [SchedNext]_schedVars => NextOccurs'
<1> SUFFICES ASSUME SchedTypeInv, Handing, NextOccurs, [SchedNext]_schedVars,
                    NEW u \in Task, task'[u].exists
             PROVE  /\ task'[u].nextAt # Never => IsOccurrence(task'[u].schedule, task'[u].nextAt)
                    /\ task'[u].schedule = Repeating => task'[u].nextAt # Never
  BY DEF NextOccurs
<1>1. CASE \E t \in Task, request \in Request \cup {"scheduled"}, now \in Nat, skip \in SkipReason :
             Accepting(t, request, now, skip)
  <2>1. PICK t \in Task, request \in Request \cup {"scheduled"}, now \in Nat, skip \in SkipReason :
          Accepting(t, request, now, skip)
    BY <1>1
  <2>a. \A v \in Task : /\ task'[v].exists = task[v].exists /\ task'[v].schedule = task[v].schedule
                        /\ v # t => task'[v].nextAt = task[v].nextAt
    BY <2>1, AcceptedRun
  <2>b. task'[t].nextAt = IF task[t].schedule # Repeating THEN Never
                          ELSE IF request = "scheduled" THEN Occurrence(task[t].schedule, now)
                          ELSE task[t].nextAt
    BY <2>1, AcceptedRun
  <2>2. /\ task'[u].exists = task[u].exists /\ task'[u].schedule = task[u].schedule
        /\ u # t => task'[u].nextAt = task[u].nextAt
        /\ task'[t].nextAt = IF task[t].schedule # Repeating THEN Never
                             ELSE IF request = "scheduled" THEN Occurrence(task[t].schedule, now)
                             ELSE task[t].nextAt
    BY <2>a, <2>b
  <2>3. task[t].schedule \in Nat
    BY TaskTypes
  <2>4. task[t].schedule = Repeating =>
          /\ Occurrence(task[t].schedule, now) # Never
          /\ IsOccurrence(task[t].schedule, Occurrence(task[t].schedule, now))
    BY <2>3, OccurrenceAfter, OccurrenceIsNext
  <2> QED BY <2>2, <2>4 DEF NextOccurs
<1>2. CASE \A t \in Task : TaskSame(t)
  BY <1>2 DEF TaskSame, NextOccurs
<1>3. CASE \E t \in Task : Rearming(t)
  <2>1. PICK t \in Task, schedule \in Nat : Rearmed(t, schedule)
    BY <1>3 DEF Rearming
  <2>2. clock \in Nat /\ Occurrence(schedule, clock) # Never
    BY <2>1 DEF Rearmed, Rearm, SchedTypeInv
  <2>3. IsOccurrence(schedule, Occurrence(schedule, clock))
    BY <2>2, OccurrenceIsNext
  <2>4. CASE u = t
    BY <2>1, <2>2, <2>3, <2>4 DEF Rearmed
  <2>5. CASE u # t
    BY <2>1, <2>5 DEF Rearmed, NextOccurs
  <2> QED BY <2>4, <2>5
<1> QED BY <1>1, <1>2, <1>3, Steps

-----------------------------------------------------------------------------
(***************************************************************************)
(* Occurrences, while nothing is upset.                                    *)
(***************************************************************************)

LEMMA Unupset ==
  ASSUME SchedTypeInv, Handing, [SchedNext]_schedVars, upset' = {}
  PROVE  upset = {} /\ Steady /\ Steady'
  BY Moves DEF Steady

\* A scheduled run is accepted for an occurrence that has come.
LEMMA AcceptedDue ==
  ASSUME SchedTypeInv, OnTime, upset = {},
         NEW t, NEW now, NEW skip, Accepting(t, "scheduled", now, skip)
  PROVE  /\ worker.who = "tick" /\ now = worker.now
         /\ task[t].enabled /\ Exists(t)
         /\ task[t].nextAt # Never /\ task[t].nextAt <= now
         /\ skip # "missed" => ~worker.offline
<1>1. "scheduled" \notin Request
  BY ScheduleAssumption
<1>2. /\ worker.who = "tick" /\ now = worker.now /\ task[t].enabled
      /\ \E d \in worker.due : d.nextAt = task[t].nextAt
      /\ skip # "missed" => ~worker.offline
  BY <1>1 DEF Accepting
<1>3. \A d \in worker.due : d.nextAt # Never /\ d.nextAt <= worker.now
  BY <1>2 DEF OnTime, TickOnTime
<1>4. Exists(t)
  BY DEF Accepting
<1> QED BY <1>2, <1>3, <1>4

LEMMA KeysPastStep ==
  /\ SchedTypeInv /\ Handing /\ TimesPast /\ RunsKnown /\ KeysPast /\ OnTime
  /\ [SchedNext]_schedVars
  => KeysPast'
<1> SUFFICES ASSUME SchedTypeInv, Handing, TimesPast, RunsKnown, KeysPast, OnTime,
                    [SchedNext]_schedVars, upset' = {},
                    NEW r \in RunID', run'[r].request = "scheduled"
             PROVE  /\ run'[r].for <= run'[r].at
                    /\ (/\ run'[r].rule = task'[run'[r].task].rule
                        /\ task'[run'[r].task].nextAt # Never)
                       => run'[r].for < task'[run'[r].task].nextAt
  BY DEF KeysPast
<1>1. upset = {} /\ Steady
  BY Unupset
<1>2. \A i \in RunID : run[i].task \in Task /\ run[i].rule \in Nat /\ run[i].at \in Nat /\ run[i].for \in Nat
  BY RunTypes DEF RunRecord
<1>3. \A i \in RunID : run[i].request = "scheduled" =>
        /\ run[i].for <= run[i].at
        /\ (run[i].rule = task[run[i].task].rule /\ task[run[i].task].nextAt # Never)
           => run[i].for < task[run[i].task].nextAt
  BY <1>1 DEF KeysPast
<1>4. CASE \E t \in Task, request \in Request \cup {"scheduled"}, now \in Nat, skip \in SkipReason :
             Accepting(t, request, now, skip)
  <2>1. PICK t \in Task, request \in Request \cup {"scheduled"}, now \in Nat, skip \in SkipReason :
          Accepting(t, request, now, skip)
    BY <1>4
  <2> DEFINE new == Len(run) + 1
  <2>2. /\ RunID' = RunID \cup {new}
        /\ \A i \in RunID : run'[i] = run[i]
    BY <2>1, AcceptedRun
  <2>3. /\ run'[new].task = t /\ run'[new].request = request /\ run'[new].at = now
        /\ run'[new].for = IF request = "scheduled" THEN task[t].nextAt ELSE Never
    BY <2>1, AcceptedRun
  <2>4. \A u \in Task : /\ task'[u].rule = task[u].rule
                        /\ u # t => task'[u].nextAt = task[u].nextAt
    BY <2>1, AcceptedRun
  <2>5. task'[t].nextAt = IF task[t].schedule # Repeating THEN Never
                          ELSE IF request = "scheduled" THEN Occurrence(task[t].schedule, now)
                          ELSE task[t].nextAt
    BY <2>1, AcceptedRun
  <2>6. \A i \in RunID : (run[i].request = "scheduled" /\ request = "scheduled") => run[i].at <= now
    BY <1>1, <2>1, AcceptedTime DEF TimesPast
  <2>7. task[t].schedule \in Nat /\ task[t].nextAt \in Nat
    BY TaskTypes
  <2>8. task[t].schedule = Repeating => /\ Occurrence(task[t].schedule, now) \in Nat
                                        /\ now < Occurrence(task[t].schedule, now)
    BY <2>7, OccurrenceAfter
  <2>9. request = "scheduled" => task[t].nextAt # Never /\ task[t].nextAt <= now
    BY <1>1, <2>1, AcceptedDue
  <2> HIDE DEF new
  <2>10. CASE r = new
    BY <2>3, <2>5, <2>7, <2>8, <2>9, <2>10
  <2>11. CASE r \in RunID /\ run[r].task # t
    BY <1>2, <1>3, <2>2, <2>4, <2>11
  <2>12. CASE r \in RunID /\ run[r].task = t
    <3>1. run'[r] = run[r]
      BY <2>2, <2>12
    <3>2. /\ run[r].for <= run[r].at /\ run[r].for \in Nat /\ run[r].at \in Nat
          /\ request = "scheduled" => run[r].at <= now
      BY <1>2, <1>3, <2>6, <2>12, <3>1
    <3>3. CASE task[t].schedule # Repeating \/ request # "scheduled"
      BY <1>3, <2>4, <2>5, <2>12, <3>1, <3>3
    <3>4. CASE task[t].schedule = Repeating /\ request = "scheduled"
      <4>1. run[r].for < task'[t].nextAt
        BY <2>5, <2>8, <3>2, <3>4
      <4> QED BY <2>12, <3>1, <3>2, <4>1
    <3> QED BY <3>3, <3>4
  <2> QED BY <2>2, <2>10, <2>11, <2>12
<1>5. CASE RunsKept /\ \A t \in Task : TaskSame(t)
  <2>1. /\ r \in RunID /\ run'[r].task = run[r].task /\ run'[r].request = run[r].request
        /\ run'[r].at = run[r].at /\ run'[r].rule = run[r].rule /\ run'[r].for = run[r].for
    BY <1>5 DEF RunsKept
  <2>2. /\ task'[run[r].task].rule = task[run[r].task].rule
        /\ task'[run[r].task].nextAt = task[run[r].task].nextAt
    BY <1>2, <1>5, <2>1 DEF TaskSame
  <2> QED BY <1>3, <2>1, <2>2
<1>6. CASE RunsKept /\ \E t \in Task : Rearming(t)
  <2>1. /\ r \in RunID /\ run'[r].task = run[r].task /\ run'[r].request = run[r].request
        /\ run'[r].at = run[r].at /\ run'[r].rule = run[r].rule /\ run'[r].for = run[r].for
    BY <1>6 DEF RunsKept
  <2>2. PICK t \in Task, schedule \in Nat : Rearmed(t, schedule)
    BY <1>6 DEF Rearming
  <2>3. /\ \A u \in Task : u # t => task'[u] = task[u]
        /\ task'[t].nextAt = Occurrence(schedule, clock)
    BY <2>2 DEF Rearmed
  <2>4. clock \in Nat /\ Occurrence(schedule, clock) \in Nat /\ clock < Occurrence(schedule, clock)
    BY <2>2, RearmTypes DEF Rearmed, SchedTypeInv
  <2>5. CASE run[r].task = t
    <3>1. run[r].for <= run[r].at /\ run[r].at <= clock
      BY <1>1, <1>3, <2>1 DEF TimesPast
    <3> QED BY <1>2, <2>1, <2>3, <2>4, <2>5, <3>1
  <2>6. CASE run[r].task # t
    BY <1>2, <1>3, <2>1, <2>3, <2>6
  <2> QED BY <2>5, <2>6
<1> QED BY <1>4, <1>5, <1>6, Steps

\* A due task finds its key free.
LEMMA KeyFree ==
  ASSUME SchedTypeInv, KeysPast, upset = {}, NEW d \in DueTask, ~Conflict(d), d.nextAt # Never
  PROVE  ~KeyTaken(d.t, d.nextAt)
<1> SUFFICES ASSUME NEW r \in RunID, run[r].task = d.t, run[r].request = "scheduled",
                    run[r].rule = task[d.t].rule, run[r].for = d.nextAt
             PROVE  FALSE
  BY DEF KeyTaken
<1>1. task[d.t].nextAt = d.nextAt
  BY DEF Conflict
<1>2. run[r].for < task[d.t].nextAt
  BY <1>1 DEF KeysPast
<1>3. d.nextAt \in Nat
  BY DEF DueTask
<1> QED BY <1>1, <1>2, <1>3

\* A tick that is not offline comes less than a period after the occurrence it accepts.
LEMMA OneOccurrence ==
  ASSUME SchedTypeInv, OnTime, NextOccurs, upset = {},
         NEW t \in Task, NEW now \in Nat, NEW skip, Accepting(t, "scheduled", now, skip),
         task[t].schedule = Repeating, skip # "missed",
         NEW o \in Nat \ {0}, IsOccurrence(Repeating, o), task[t].nextAt <= o, o <= now
  PROVE  o = task[t].nextAt
<1>1. /\ worker.who = "tick" /\ now = worker.now /\ Exists(t) /\ task[t].enabled
      /\ task[t].nextAt # Never /\ ~worker.offline
  BY AcceptedDue
<1>2. task[t].nextAt + Jitter > now
  BY <1>1 DEF OnTime, TickOnTime, Waits
<1>3. task[t].nextAt \in Nat \ {0} /\ IsOccurrence(Repeating, task[t].nextAt)
  BY <1>1, TaskTypes DEF NextOccurs, Exists, Never
<1>4. task[t].nextAt < o => task[t].nextAt + Period <= o
  BY <1>3, OccurrencesApart
<1>5. Jitter \in Nat /\ Period \in Nat /\ Jitter <= Period
  BY ScheduleAssumption
<1> QED BY <1>2, <1>3, <1>4, <1>5

LEMMA RecordedStep ==
  /\ SchedTypeInv /\ Handing /\ TimesPast /\ RunsKnown /\ NextOccurs /\ Recorded /\ OnTime
  /\ [SchedNext]_schedVars
  => Recorded'
<1> SUFFICES ASSUME SchedTypeInv, Handing, TimesPast, RunsKnown, NextOccurs, Recorded, OnTime,
                    [SchedNext]_schedVars, upset' = {},
                    NEW u \in Task, Exists(u)', NEW o \in Nat \ {0},
                    o > armed'[u], IsOccurrence(task'[u].schedule, o),
                    task'[u].nextAt = Never \/ o < task'[u].nextAt
             PROVE  \E r \in RunID' : Covers(r, u, o)'
  BY DEF Recorded
<1>1. upset = {} /\ Steady
  BY Unupset
<1>2. ASSUME Exists(u), o > armed[u], IsOccurrence(task[u].schedule, o),
             task[u].nextAt = Never \/ o < task[u].nextAt
      PROVE  \E r \in RunID : Covers(r, u, o)
  BY <1>1, <1>2 DEF Recorded
<1>3. CASE \E t \in Task, request \in Request \cup {"scheduled"}, now \in Nat, skip \in SkipReason :
             Accepting(t, request, now, skip)
  <2>1. PICK t \in Task, request \in Request \cup {"scheduled"}, now \in Nat, skip \in SkipReason :
          Accepting(t, request, now, skip)
    BY <1>3
  <2> DEFINE new == Len(run) + 1
  <2>2. RunID' = RunID \cup {new} /\ \A i \in RunID : run'[i] = run[i]
    BY <2>1, AcceptedRun
  <2>3. /\ run'[new].task = t /\ run'[new].request = request /\ run'[new].at = now
        /\ run'[new].rule = IF request = "scheduled" THEN task[t].rule ELSE 0
        /\ run'[new].for = IF request = "scheduled" THEN task[t].nextAt ELSE Never
        /\ run'[new].through = IF skip = "missed" THEN now
                               ELSE IF request = "scheduled" THEN task[t].nextAt ELSE Never
    BY <2>1, AcceptedRun
  <2>4. \A v \in Task : /\ task'[v].exists = task[v].exists /\ task'[v].deleted = task[v].deleted
                        /\ task'[v].rule = task[v].rule /\ task'[v].schedule = task[v].schedule
                        /\ v # t => task'[v].nextAt = task[v].nextAt
    BY <2>1, AcceptedRun
  <2>5. task'[t].nextAt = IF task[t].schedule # Repeating THEN Never
                          ELSE IF request = "scheduled" THEN Occurrence(task[t].schedule, now)
                          ELSE task[t].nextAt
    BY <2>1, AcceptedRun
  <2> HIDE DEF new
  <2>6. armed' = armed
    BY <2>1 DEF Accepting
  <2>7. Exists(u) /\ o > armed[u] /\ IsOccurrence(task[u].schedule, o)
    BY <2>4, <2>6 DEF Exists
  <2>8. ASSUME NEW r \in RunID, Covers(r, u, o) PROVE r \in RunID' /\ Covers(r, u, o)'
    <3>1. run'[r] = run[r] /\ r \in RunID'
      BY <2>2
    <3> QED BY <2>4, <2>6, <2>8, <3>1 DEF Covers
  <2>9. CASE task[u].nextAt = Never \/ o < task[u].nextAt
    BY <1>2, <2>7, <2>8, <2>9
  <2>10. CASE task[u].nextAt # Never /\ ~(o < task[u].nextAt)
    <3>1. u = t
      BY <2>4, <2>10
    <3>2. task[t].nextAt \in Nat /\ task[t].schedule \in Nat /\ armed[t] \in Nat /\ task[t].nextAt <= o
      BY <2>10, <3>1, TaskTypes
    <3>3. IsOccurrence(task[t].schedule, task[t].nextAt)
      BY <2>7, <2>10, <3>1 DEF NextOccurs, Exists
    <3>4. now \in Nat /\ now <= clock /\ clock \in Nat
      BY <1>1, <2>1, AcceptedTime DEF SchedTypeInv
    <3>5. CASE task[t].schedule # Repeating
      <4>1. o = task[t].schedule /\ task[t].nextAt = task[t].schedule
        BY <2>7, <2>10, <3>1, <3>2, <3>3, <3>5, SingleOccurrence DEF Never
      <4>2. CASE request = "scheduled"
        <5>1. /\ run'[new].request = "scheduled" /\ run'[new].rule = task'[t].rule
              /\ run'[new].for = o
          BY <2>3, <2>4, <4>1, <4>2
        <5>2. o <= run'[new].through
          <6>1. task[t].nextAt <= now
            BY <1>1, <2>1, <4>2, AcceptedDue
          <6> QED BY <2>3, <3>2, <3>4, <4>1, <4>2, <6>1
        <5> QED BY <2>2, <2>3, <3>1, <5>1, <5>2 DEF Covers
      <4>3. CASE request # "scheduled"
        <5>1. now = clock
          BY <2>1, <4>3 DEF Accepting
        <5>2. armed[t] <= now
          BY <1>1, <5>1 DEF TimesPast
        <5> QED BY <2>2, <2>3, <2>4, <2>6, <3>1, <3>2, <3>4, <4>1, <5>2 DEF Covers
      <4> QED BY <4>2, <4>3
    <3>6. CASE task[t].schedule = Repeating
      <4>1. request = "scheduled" /\ task'[t].nextAt = Occurrence(task[t].schedule, now)
        BY <2>5, <2>10, <3>1, <3>6
      <4>2. Occurrence(task[t].schedule, now) # Never /\ Occurrence(task[t].schedule, now) \in Nat
        BY <3>2, <3>4, <3>6, OccurrenceAfter
      <4>3. o <= now
        <5> SUFFICES ASSUME now < o PROVE FALSE
          BY <3>4
        <5>1. Occurrence(task[t].schedule, now) <= o
          BY <2>7, <3>1, <3>2, <3>4, OccurrenceIsFirst
        <5> QED BY <3>1, <4>1, <4>2, <5>1
      <4>4. o <= run'[new].through
        <5>1. CASE skip = "missed"
          BY <2>3, <4>3, <5>1
        <5>2. CASE skip # "missed"
          <6>1. o = task[t].nextAt
            BY <1>1, <2>1, <2>7, <3>1, <3>2, <3>4, <3>6, <4>1, <4>3, <5>2, OneOccurrence
          <6> QED BY <2>3, <4>1, <5>2, <6>1
        <5> QED BY <5>1, <5>2
      <4>5. /\ run'[new].request = "scheduled" /\ run'[new].rule = task'[t].rule
            /\ run'[new].for <= o
        BY <2>3, <2>4, <3>2, <4>1
      <4> QED BY <2>2, <2>3, <3>1, <4>4, <4>5 DEF Covers
    <3> QED BY <3>5, <3>6
  <2> QED BY <2>9, <2>10
<1>4. ASSUME RunsKept, TaskSame(u) PROVE \E r \in RunID' : Covers(r, u, o)'
  <2>1. PICK r \in RunID : Covers(r, u, o)
    BY <1>2, <1>4 DEF TaskSame, Exists
  <2>2. /\ r \in RunID' /\ run'[r].task = run[r].task /\ run'[r].request = run[r].request
        /\ run'[r].at = run[r].at /\ run'[r].rule = run[r].rule
        /\ run'[r].for = run[r].for /\ run'[r].through = run[r].through
    BY <1>4 DEF RunsKept
  <2>3. task'[u].rule = task[u].rule /\ task'[u].schedule = task[u].schedule /\ armed'[u] = armed[u]
    BY <1>4 DEF TaskSame
  <2>4. Covers(r, u, o)'
    BY <2>1, <2>2, <2>3 DEF Covers
  <2> QED BY <2>2, <2>4
<1>5. CASE RunsKept /\ \A t \in Task : TaskSame(t)
  BY <1>4, <1>5
<1>6. CASE RunsKept /\ \E t \in Task : Rearming(t)
  <2>1. PICK t \in Task, schedule \in Nat : Rearmed(t, schedule)
    BY <1>6 DEF Rearming
  <2>2. /\ Rearm(t, schedule)
        /\ \A v \in Task : v # t => task'[v] = task[v]
        /\ task'[t].schedule = schedule /\ task'[t].nextAt = Occurrence(schedule, clock)
    BY <2>1 DEF Rearmed
  <2>3. /\ Occurrence(schedule, clock) # Never /\ Occurrence(schedule, clock) \in Nat
        /\ armed'[t] = clock /\ \A v \in Task : v # t => armed'[v] = armed[v]
    BY <2>2, RearmTypes
  <2>4. CASE u = t
    <3>1. Occurrence(schedule, clock) <= o
      BY <2>2, <2>3, <2>4, OccurrenceIsFirst DEF SchedTypeInv
    <3> QED BY <2>2, <2>3, <2>4, <3>1
  <2>5. CASE u # t
    <3>1. TaskSame(u)
      BY <2>2, <2>3, <2>5 DEF TaskSame
    <3> QED BY <1>4, <1>6, <3>1
  <2> QED BY <2>4, <2>5
<1> QED BY <1>3, <1>5, <1>6, Steps

LEMMA OnTimeParts ==
  OnTime <=> (upset = {} => /\ worker.who # "tick" => RestOnTime
                            /\ worker.who = "tick" => TickOnTime)
  BY DEF OnTime

LEMMA OnTimePartsNext ==
  OnTime' <=> (upset' = {} => /\ worker'.who # "tick" => RestOnTime'
                              /\ worker'.who = "tick" => TickOnTime')
  BY DEF OnTime

\* A step that is not the tick's own and makes no task wait.
LEMMA FewerWait ==
  ASSUME SchedTypeInv, OnTime, upset = {}, upset' = {}, UNCHANGED <<worker, ticker>>,
         \A t \in Task : Waits(t)' => Waits(t) /\ task'[t].nextAt = task[t].nextAt
                                      /\ task'[t].revision = task[t].revision
  PROVE  OnTime'
<1>1. \A t \in Task : Waits(t)' => DueNow(t)' = DueNow(t)
  BY DEF DueNow
<1>2. worker.who # "tick" => RestOnTime'
  BY OnTimeParts DEF RestOnTime
<1>3. worker.who = "tick" => TickOnTime'
  BY <1>1, OnTimeParts DEF TickOnTime
<1> QED BY <1>2, <1>3, OnTimePartsNext

\* What counts from now is not late.
LEMMA RearmedOnTime ==
  ASSUME SchedTypeInv, TimesPast, OnTime, upset = {}, upset' = {},
         NEW t \in Task, NEW schedule \in Nat, Rearmed(t, schedule)
  PROVE  OnTime'
<1>1. /\ Rearm(t, schedule) /\ worker.who = "none" /\ UNCHANGED <<worker, ticker>>
      /\ task'[t].nextAt = Occurrence(schedule, clock)
      /\ \A u \in Task : u # t => task'[u] = task[u]
  BY DEF Rearmed
<1>2. Occurrence(schedule, clock) \in Nat /\ clock < Occurrence(schedule, clock)
  BY <1>1, RearmTypes
<1>a. ticker \in TickerRecord /\ clock \in Nat /\ ticker.last <= clock
  BY DEF SchedTypeInv, TimesPast, Steady
<1>b. ticker.last \in Nat
  BY <1>a DEF TickerRecord
<1>c. Jitter \in Nat
  BY ScheduleAssumption
<1>3. clock \in Nat /\ ticker.last \in Nat /\ ticker.last <= clock /\ Jitter \in Nat
  BY <1>a, <1>b, <1>c
<1>4. RestOnTime
  BY <1>1, OnTimeParts
<1>5. RestOnTime'
  <2> SUFFICES ASSUME NEW u \in Task, Waits(u)'
               PROVE  /\ ticker.asks = "no" => task'[u].nextAt > ticker.last
                      /\ ticker.asks = "on time" => task'[u].nextAt + Jitter > ticker.last
    BY <1>1 DEF RestOnTime
  <2>1. CASE u = t
    <3>1. task'[t].nextAt \in Nat /\ ticker.last < task'[t].nextAt
      BY <1>1, <1>2, <1>3
    <3>2. task'[t].nextAt + Jitter > ticker.last
      BY <1>3, <3>1
    <3> QED BY <2>1, <3>1, <3>2
  <2>2. CASE u # t
    BY <1>1, <1>4, <2>2 DEF RestOnTime, Waits, Exists
  <2> QED BY <2>1, <2>2
<1> QED BY <1>1, <1>5, OnTimePartsNext

\* Accepting a task leaves nothing of it due.
LEMMA AcceptedOnTime ==
  ASSUME SchedTypeInv, OnTime, upset = {}, upset' = {},
         NEW t, NEW request, NEW now, NEW skip, Accepting(t, request, now, skip),
         request = "scheduled" =>
           /\ worker'.who = "tick"
           /\ \A u \in Task : u # t => (DueNow(u) \in worker.due => DueNow(u) \in worker'.due),
         worker'.who = "tick" => worker'.due \subseteq worker.due
  PROVE  OnTime'
<1>1. /\ t \in Task /\ request \in Request \cup {"scheduled"} /\ now \in Nat /\ skip \in SkipReason
      /\ ticker' = ticker
  BY DEF Accepting
<1>2. \A u \in Task : /\ task'[u].exists = task[u].exists /\ task'[u].deleted = task[u].deleted
                      /\ task'[u].enabled = task[u].enabled /\ task'[u].revision = task[u].revision
                      /\ u # t => task'[u].nextAt = task[u].nextAt
  BY AcceptedRun
<1>3. task'[t].nextAt = IF task[t].schedule # Repeating THEN Never
                        ELSE IF request = "scheduled" THEN Occurrence(task[t].schedule, now)
                        ELSE task[t].nextAt
  BY AcceptedRun
<1>4. \A u \in Task : (u # t /\ Waits(u)') => Waits(u) /\ DueNow(u)' = DueNow(u)
  BY <1>2 DEF Waits, Exists, DueNow
<1>6. CASE request # "scheduled"
  <2>1. worker.who = "none" /\ worker'.who # "tick"
    BY <1>6 DEF Accepting
  <2>2. RestOnTime
    BY <2>1, OnTimeParts
  <2>3. Waits(t)' => Waits(t) /\ task'[t].nextAt = task[t].nextAt
    BY <1>1, <1>2, <1>3, <1>6 DEF Waits, Exists
  <2>4. RestOnTime'
    BY <1>1, <1>2, <1>4, <2>2, <2>3 DEF RestOnTime
  <2> QED BY <2>1, <2>4, OnTimePartsNext
<1>7. CASE request = "scheduled"
  <2>1. worker.who = "tick" /\ now = worker.now /\ worker'.who = "tick"
    BY <1>7, AcceptedDue
  <2>2. /\ worker'.now = worker.now /\ worker'.offline = worker.offline /\ worker.listed
        /\ worker'.due \subseteq worker.due
    BY <2>1 DEF Accepting
  <2>3. TickOnTime
    BY <2>1, OnTimeParts
  <2>4. Waits(t)' => task'[t].nextAt \in Nat /\ now < task'[t].nextAt
    <3> SUFFICES ASSUME task'[t].nextAt # Never PROVE task'[t].nextAt \in Nat /\ now < task'[t].nextAt
      BY DEF Waits
    <3>1. task'[t].nextAt = Occurrence(task[t].schedule, now)
      BY <1>3, <1>7
    <3>2. task[t].schedule \in Nat
      BY <1>1, TaskTypes
    <3> QED BY <1>1, <3>1, <3>2, OccurrenceAfter
  <2>5. ticker'.asks = "no"
    BY <1>1, <2>3 DEF TickOnTime
  <2>6. ~worker'.offline => \A u \in Task : Waits(u)' => task'[u].nextAt + Jitter > worker'.now
    <3> SUFFICES ASSUME ~worker.offline, NEW u \in Task, Waits(u)'
                 PROVE  task'[u].nextAt + Jitter > worker.now
      BY <2>2
    <3>1. CASE u = t
      BY <1>1, <2>1, <2>4, <3>1, ScheduleAssumption
    <3>2. CASE u # t
      BY <1>2, <1>4, <2>3, <3>2 DEF TickOnTime
    <3> QED BY <3>1, <3>2
  <2>7. \A u \in Task : (Waits(u)' /\ task'[u].nextAt <= worker'.now) => DueNow(u)' \in worker'.due
    <3> SUFFICES ASSUME NEW u \in Task, Waits(u)', task'[u].nextAt <= worker.now
                 PROVE  DueNow(u)' \in worker'.due
      BY <2>2
    <3>1. u # t
      BY <1>1, <2>1, <2>4
    <3>2. Waits(u) /\ DueNow(u)' = DueNow(u) /\ task[u].nextAt <= worker.now
      BY <1>2, <1>4, <3>1
    <3>3. DueNow(u) \in worker.due
      BY <2>2, <2>3, <3>2 DEF TickOnTime
    <3> QED BY <1>7, <3>1, <3>2, <3>3
  <2>8. \A d \in worker'.due : d.nextAt # Never /\ d.nextAt <= worker'.now
    BY <2>2, <2>3 DEF TickOnTime
  <2> QED BY <2>1, <2>5, <2>6, <2>7, <2>8, OnTimePartsNext DEF TickOnTime
<1> QED BY <1>6, <1>7

LEMMA OnTimeStep ==
  /\ SchedTypeInv /\ Handing /\ TimesPast /\ ShutPaused /\ KeysPast /\ OnTime
  /\ [SchedNext]_schedVars
  => OnTime'
<1> SUFFICES ASSUME SchedTypeInv, Handing, TimesPast, ShutPaused, KeysPast, OnTime,
                    [SchedNext]_schedVars, upset' = {}
             PROVE  OnTime'
  BY DEF OnTime
<1>1. upset = {} /\ Steady
  BY Unupset
<1>a. ticker \in TickerRecord /\ clock \in Nat
  BY DEF SchedTypeInv
<1>b. ticker.last \in Nat
  BY <1>a DEF TickerRecord
<1>c. Jitter \in Nat
  BY ScheduleAssumption
<1>2. clock \in Nat /\ ticker.last \in Nat /\ Jitter \in Nat
  BY <1>a, <1>b, <1>c
<1>3. ASSUME UNCHANGED <<task, worker, ticker>> PROVE OnTime'
  BY <1>1, <1>3, FewerWait DEF Waits, Exists
<1>4. ASSUME worker' = Idle, worker.who # "tick", UNCHANGED <<task, ticker>> PROVE OnTime'
  <2>1. RestOnTime' /\ worker'.who # "tick"
    BY <1>1, <1>4, OnTimeParts DEF RestOnTime, Waits, Exists, Idle
  <2> QED BY <2>1, OnTimePartsNext
<1>5. ASSUME worker.who = "tick", worker'.who = "tick", worker'.now = worker.now,
             worker'.offline = worker.offline, worker'.listed = worker.listed,
             worker'.due = worker.due, UNCHANGED <<task, ticker>>
      PROVE  OnTime'
  <2>1. TickOnTime'
    BY <1>1, <1>5, OnTimeParts DEF TickOnTime, Waits, Exists, DueNow
  <2> QED BY <1>5, <2>1, OnTimePartsNext
<1>6. CASE TickBegin
  <2>1. /\ worker.who = "none" /\ worker'.who = "tick" /\ worker'.now = ticker.last
        /\ worker'.offline = (ticker.asks = "late") /\ ~worker'.listed /\ worker'.due = {}
        /\ ticker.asks # "no" /\ ticker'.asks = "no" /\ task' = task
    BY <1>6 DEF TickBegin, SchedTypeInv, TickerRecord
  <2>2. ticker.asks # "late" => ticker.asks = "on time"
    BY <2>1 DEF SchedTypeInv, TickerRecord
  <2>3. RestOnTime
    BY <1>1, <2>1, OnTimeParts
  <2>4. ~worker'.offline => \A t \in Task : Waits(t)' => task'[t].nextAt + Jitter > worker'.now
    BY <2>1, <2>2, <2>3 DEF RestOnTime, Waits, Exists
  <2>5. TickOnTime'
    BY <2>1, <2>4 DEF TickOnTime
  <2> QED BY <2>1, <2>5, OnTimePartsNext
<1>7. CASE TickPending
  <2>1. worker \in TickWorker
    BY <1>7, WorkerCases DEF TickPending
  <2>2. /\ worker.who = "tick" /\ worker'.who = "tick" /\ worker'.now = worker.now
        /\ worker'.offline = worker.offline /\ worker'.listed = worker.listed
        /\ worker'.due = worker.due /\ UNCHANGED <<clock, task, ticker>>
    BY <1>7, <2>1 DEF TickPending, TickWorker
  <2> QED BY <1>5, <2>2
<1>8. CASE TickList
  <2> DEFINE due == {[t |-> t, revision |-> task[t].revision, nextAt |-> task[t].nextAt] :
                             t \in {u \in Task : /\ Exists(u) /\ task[u].enabled
                                                 /\ task[u].nextAt # Never
                                                 /\ task[u].nextAt <= worker.now}}
  <2>1. worker \in TickWorker /\ worker.who = "tick"
    BY <1>8, WorkerCases DEF TickList
  <2>2. /\ worker' = [worker EXCEPT !.step = "tasks", !.listed = TRUE, !.due = due]
        /\ UNCHANGED <<clock, task, ticker>>
    BY <1>8 DEF TickList
  <2>3. /\ \A t \in Task : (Waits(t) /\ task[t].nextAt <= worker.now) => DueNow(t) \in due
        /\ \A d \in due : d.nextAt # Never /\ d.nextAt <= worker.now
    BY DEF Waits, DueNow
  <2> HIDE DEF due
  <2>4. /\ worker'.who = "tick" /\ worker'.now = worker.now /\ worker'.offline = worker.offline
        /\ worker'.listed /\ worker'.due = due
    BY <2>1, <2>2 DEF TickWorker
  <2>5. TickOnTime
    BY <1>1, <2>1, OnTimeParts
  <2>6. TickOnTime'
    BY <2>2, <2>3, <2>4, <2>5 DEF TickOnTime, Waits, Exists, DueNow
  <2> QED BY <2>4, <2>6, OnTimePartsNext
<1>9. CASE TickTask
  <2>1. PICK d \in DueTask : TickLeaves(d) \/ TickAccepts(d)
    BY <1>9, TickTaskCases
  <2>2. CASE TickAccepts(d)
    <3>1. /\ Accepting(d.t, "scheduled", worker.now, Skip(d.t))
          /\ worker'.who = "tick" /\ worker'.due = worker.due \ {d}
      BY <2>2, TickTaskAccepts DEF Handing
    <3>2. \A u \in Task : u # d.t => DueNow(u) # d
      BY DEF DueNow
    <3>3. \A u \in Task : u # d.t => (DueNow(u) \in worker.due => DueNow(u) \in worker'.due)
      BY <3>1, <3>2
    <3> QED BY <1>1, <3>1, <3>3, AcceptedOnTime
  <2>3. CASE TickLeaves(d)
    <3>1. worker \in TickWorker /\ worker.who = "tick" /\ d \in worker.due
      BY <2>3 DEF TickLeaves, TickWorker
    <3>2. TickOnTime
      BY <1>1, <3>1, OnTimeParts
    <3>3. Conflict(d)
      BY <1>1, <2>3, <3>1, <3>2, KeyFree DEF TickLeaves, TickOnTime
    <3>4. /\ worker'.who = "tick" /\ worker'.now = worker.now /\ worker'.offline = worker.offline
          /\ worker'.listed = worker.listed /\ worker'.due = worker.due \ {d}
          /\ UNCHANGED <<clock, task, ticker>>
      BY <2>3, <3>1, <3>3 DEF TickLeaves, TickWorker
    <3>5. \A u \in Task : Waits(u) => DueNow(u) # d
      <4> SUFFICES ASSUME NEW u \in Task, Waits(u), DueNow(u) = d PROVE FALSE
        OBVIOUS
      <4>1. d.t = u /\ d.revision = task[u].revision /\ d.nextAt = task[u].nextAt
        BY DEF DueNow
      <4>2. u \in shut
        BY <3>3, <4>1 DEF Conflict, Waits
      <4> QED BY <4>2 DEF ShutPaused, Waits
    <3>6. TickOnTime'
      BY <3>2, <3>4, <3>5 DEF TickOnTime, Waits, Exists, DueNow
    <3> QED BY <3>4, <3>6, OnTimePartsNext
  <2> QED BY <2>1, <2>2, <2>3
<1>10. CASE TickEnd
  <2>1. /\ worker.who = "tick" /\ worker.step = "tasks" /\ worker.due = {}
        /\ worker'.who # "tick" /\ UNCHANGED <<clock, task, ticker>>
    BY <1>10 DEF TickEnd, Idle
  <2>2. TickOnTime /\ worker.listed
    BY <1>1, <2>1, OnTimeParts DEF Handing, RunsListed
  <2>3. worker.now \in Nat
    BY <2>1, WorkerCases DEF ManualWorker, TickWorker
  <2>4. \A t \in Task : Waits(t) => ~(task[t].nextAt <= worker.now)
    BY <2>1, <2>2 DEF TickOnTime
  <2>5. RestOnTime'
    <3>1. ticker.asks = "no" /\ worker.now = ticker.last
      BY <1>1, <2>1, <2>2 DEF TickOnTime, TimesPast
    <3>2. \A t \in Task : Waits(t) => task[t].nextAt > ticker.last
      BY <1>2, <2>4, <3>1, TaskTypes
    <3> QED BY <2>1, <3>1, <3>2 DEF RestOnTime, Waits, Exists
  <2> QED BY <2>1, <2>5, OnTimePartsNext
<1>11. CASE SubmitRun
  <2>1. PICK s \in Submitting : worker' = [worker EXCEPT !.step = s]
    BY <1>11 DEF SubmitRun, Submitting
  <2>2. UNCHANGED <<clock, task, ticker>>
    BY <1>11 DEF SubmitRun
  <2>3. CASE worker.who = "tick"
    <3>1. worker \in TickWorker
      BY <2>3, WorkerCases DEF ManualWorker
    <3> QED BY <1>5, <2>1, <2>2, <2>3, <3>1 DEF TickWorker
  <2>4. CASE worker.who # "tick"
    <3>1. worker \in ManualWorker
      BY <1>11, <2>4, WorkerCases DEF SubmitRun
    <3>2. worker'.who # "tick"
      BY <2>1, <3>1 DEF ManualWorker
    <3>3. RestOnTime'
      BY <1>1, <2>2, <2>4, OnTimeParts DEF RestOnTime, Waits, Exists
    <3> QED BY <3>2, <3>3, OnTimePartsNext
  <2> QED BY <2>3, <2>4
<1>12. CASE HandOff
  <2>1. CASE worker.who = "manual"
    BY <1>4, <1>12, <2>1 DEF HandOff
  <2>2. CASE worker.who = "tick"
    <3>1. worker \in TickWorker
      BY <2>2, WorkerCases DEF ManualWorker
    <3>2. /\ worker'.who = "tick" /\ worker'.now = worker.now /\ worker'.offline = worker.offline
          /\ worker'.listed = worker.listed /\ worker'.due = worker.due
      BY <1>12, <2>2, <3>1 DEF HandOff, TickWorker
    <3> QED BY <1>5, <1>12, <2>2, <3>2 DEF HandOff
  <2> QED BY <1>12, <2>1, <2>2, WorkerCases DEF HandOff
<1>13. ASSUME NEW t \in Task, NEW q \in Request, RunNow(t, q) PROVE OnTime'
  <2>1. Accepting(t, q, clock, "no") /\ worker'.who = "manual"
    BY <1>13, RunNowAccepts
  <2>2. q # "scheduled"
    BY ScheduleAssumption
  <2> QED BY <1>1, <2>1, <2>2, AcceptedOnTime
<1>14. ASSUME NEW t \in Task, NEW schedule \in Rule, Create(t, schedule) \/ Reschedule(t, schedule)
       PROVE  OnTime'
  <2>1. Rearmed(t, schedule) /\ schedule \in Nat
    BY <1>14, CreateStep, RescheduleStep DEF Rearmed
  <2> QED BY <1>1, <2>1, RearmedOnTime
<1>15. ASSUME NEW t \in Task, Resume(t) PROVE OnTime'
  <2>1. Rearmed(t, task[t].schedule) /\ task[t].schedule \in Nat
    BY <1>15, ResumeStep, TaskTypes
  <2>2. PICK schedule \in Nat : Rearmed(t, schedule)
    BY <2>1
  <2> QED BY <1>1, <2>2, RearmedOnTime
<1>16. ASSUME NEW t \in Task, Stopped(t), ~task'[t].enabled \/ task' = task PROVE OnTime'
  <2>1. /\ \A u \in Task : Waits(u)' => task'[u] = task[u]
        /\ UNCHANGED <<worker, ticker>>
    BY <1>16 DEF Stopped, Waits
  <2>2. \A u \in Task : Waits(u)' => /\ Waits(u) /\ task'[u].nextAt = task[u].nextAt
                                     /\ task'[u].revision = task[u].revision
    BY <2>1 DEF Waits, Exists
  <2> QED BY <1>1, <2>1, <2>2, FewerWait
<1>17. ASSUME NEW t \in Task, Pause(t) \/ Delete(t) \/ Archive(t) PROVE OnTime'
  <2>1. Stopped(t) /\ (~task'[t].enabled \/ task' = task)
    BY <1>17, PauseStep, DeleteStep, ArchiveStep
  <2> QED BY <1>16, <2>1
<1>18. ASSUME NEW t \in Task, Restore(t) PROVE OnTime'
  BY <1>3, <1>18 DEF Restore
<1>19. ASSUME NEW r \in RunID, TurnStarts(r) \/ TurnEnds(r) \/ Answer(r) \/ Withdraw(r) \/ Retry(r)
       PROVE  OnTime'
  BY <1>3, <1>19 DEF TurnStarts, TurnEnds, Answer, Withdraw, Retry, SetInput
<1>20. CASE Advance
  BY <1>3, <1>20 DEF Advance
<1>21. CASE SetBack
  BY <1>21 DEF SetBack
<1>22. CASE WorkerFails
  <2>1. worker.who # "tick"
    BY <1>22 DEF WorkerFails
  <2> QED BY <1>4, <1>22, <2>1 DEF WorkerFails
<1>23. CASE DaemonRestarts
  <2>1. worker'.who # "tick" /\ ticker'.asks = "late"
    BY <1>23 DEF DaemonRestarts, Idle
  <2>2. RestOnTime'
    BY <2>1 DEF RestOnTime
  <2> QED BY <2>1, <2>2, OnTimePartsNext
<1>24. CASE UNCHANGED schedVars
  BY <1>3, <1>24 DEF schedVars
<1>25. CASE TickRead
  <2>1. /\ worker.who # "tick" /\ worker' = worker /\ ticker.asks = "no" /\ task' = task
        /\ ticker'.last = clock /\ ticker'.asks = IF Offline THEN "late" ELSE "on time"
    BY <1>25 DEF TickRead
  <2>2. RestOnTime
    BY <1>1, <2>1, OnTimeParts
  <2>3. ASSUME ~Offline, NEW t \in Task, Waits(t) PROVE task[t].nextAt + Jitter > clock
    <3>1. task[t].nextAt > ticker.last
      BY <2>1, <2>2, <2>3 DEF RestOnTime
    <3>2. ~(clock > ticker.last + Jitter)
      BY <2>3 DEF Offline
    <3>3. task[t].nextAt \in Nat
      BY TaskTypes
    <3> QED BY <1>2, <3>1, <3>2, <3>3
  <2>4. RestOnTime'
    BY <2>1, <2>3 DEF RestOnTime, Waits, Exists
  <2> QED BY <2>1, <2>4, OnTimePartsNext
<1> QED
  BY <1>6, <1>7, <1>8, <1>9, <1>10, <1>11, <1>12, <1>13, <1>14, <1>15, <1>17, <1>18, <1>19, <1>20,
     <1>21, <1>22, <1>23, <1>24, <1>25 DEF SchedNext, Tick, Submission

-----------------------------------------------------------------------------
(***************************************************************************)
(* The theorems.                                                           *)
(***************************************************************************)

LEMMA SchedInitially == SchedInit => SchedInv
<1> SUFFICES ASSUME SchedInit PROVE SchedInv
  OBVIOUS
<1>1. /\ RunID = {} /\ Idle.who = "none" /\ worker = Idle /\ upset = {}
      /\ ticker = [last |-> 0, asks |-> "late"]
      /\ run = <<>> /\ input = <<>> /\ shut = {} /\ reopened = {} /\ clock = 0
  <2>1. Len(<<>>) = 0
    OBVIOUS
  <2> QED BY <2>1 DEF SchedInit, RunID, Idle
<1>2. NoTask \in TaskRecord /\ ~NoTask.exists /\ ~NoTask.deleted
  BY DEF NoTask, TaskRecord, Repeating, Never
<1>3. ticker \in TickerRecord /\ ticker.asks = "late" /\ ticker.last = 0
  BY <1>1 DEF TickerRecord
<1>4. task = [t \in Task |-> NoTask] /\ armed = [t \in Task |-> 0]
  BY DEF SchedInit
<1> HIDE DEF SchedInit
<1>5. SchedTypeInv
  BY <1>1, <1>2, <1>3, <1>4 DEF SchedTypeInv
<1>6. Handing
  BY <1>1 DEF Handing, RunHeld, RunsListed, HandoffTruthful, Holds
<1>7. TimesPast /\ Superseded
  BY <1>1, <1>3, <1>4 DEF TimesPast, Superseded
<1>8. RunsKnown /\ ShutPaused /\ KeysPast /\ NextOccurs /\ Recorded
  BY <1>1, <1>2, <1>4 DEF RunsKnown, ShutPaused, KeysPast, NextOccurs, Recorded, Exists
<1>9. OnTime
  BY <1>1, <1>3 DEF OnTime, RestOnTime
<1> QED BY <1>5, <1>6, <1>7, <1>8, <1>9 DEF SchedInv, Handing

\* The scheduler's inductive invariant: who holds which run, which runs can still be busy
\* when another is accepted, and how late a tick can be.
THEOREM ScheduleInvariant == SchedSpec => []SchedInv
<1>1. SchedInv /\ [SchedNext]_schedVars => SchedInv'
  BY TypeStep, HandingStep, TimesPastStep, SupersededStep, RunsKnownStep, ShutPausedStep,
     KeysPastStep, NextOccursStep, RecordedStep, OnTimeStep DEF SchedInv, Handing
<1> QED BY <1>1, SchedInitially, PTL DEF SchedSpec

\* SetScheduledTaskHandoff: the record of a run tells the truth about its input, across
\* lost replies, crashes, failing transactions and archiving.
THEOREM HandoffStaysTruthful == SchedSpec => []HandoffTruthful
<1>1. SchedInv => HandoffTruthful
  BY DEF SchedInv
<1> QED BY <1>1, ScheduleInvariant, PTL

\* scheduledTaskLatest: of two runs of one task that are under way, a person took one up
\* again, or the older hides behind a run that was accepted before it with a later time.
THEOREM RunsDoNotPileUp == SchedSpec => []NoPileUp
<1>1. SchedInv => NoPileUp
  BY DEF SchedInv, Superseded, NoPileUp
<1> QED BY <1>1, ScheduleInvariant, PTL

\* TaskSchedule.Next and SkippedThrough: while no tick fails and the clock is not set
\* back, every occurrence since the task began to count is recorded by a run.
THEOREM OccurrencesAreRecorded == SchedSpec => []EveryOccurrenceRecorded
<1>1. SchedInv => EveryOccurrenceRecorded
  <2> SUFFICES ASSUME SchedInv, upset = {}, NEW t \in Task, Exists(t), NEW o \in 1..clock,
                      o > armed[t], Occurrence(task[t].schedule, o - 1) = o,
                      task[t].nextAt = Never \/ o < task[t].nextAt
               PROVE  \E r \in RunID : Covers(r, t, o)
    BY DEF EveryOccurrenceRecorded
  <2>1. o \in Nat \ {0}
    BY DEF SchedInv, SchedTypeInv
  <2> QED BY <2>1 DEF SchedInv, Recorded, IsOccurrence
<1> QED BY <1>1, ScheduleInvariant, PTL
=============================================================================
