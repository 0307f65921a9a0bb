--------------------------- MODULE Collaboration ---------------------------
(***************************************************************************)
(* A main conversation and the child sessions it dispatches work to:       *)
(* internal/engine/subtask.go, subagent_reset.go and subtask_archive.go    *)
(* against the transactions of internal/store/sqlitestore.                 *)
(*                                                                         *)
(* Engine.collaborationMu serialises dispatch, reset, archive, stop, the   *)
(* promotion of a queued input and the start of a system turn.  Only the   *)
(* stop is seen between two of its steps (the store's transaction, then    *)
(* the cancellation of each child), so `stopping` is the lock: the other   *)
(* sections are one step each.  What does not take the lock interleaves    *)
(* with all of them: the turns themselves, inputs queued for a child, the  *)
(* edits of the queue, and the callbacks that follow the end of a turn.    *)
(*                                                                         *)
(* Turns are numbered per session.  How a turn runs inside (TurnLifecycle  *)
(* models that) is reduced to the points where the main turn dispatches,   *)
(* collects and waits.                                                     *)
(***************************************************************************)
EXTENDS Naturals, Sequences, FiniteSets, FiniteSetsExt

CONSTANTS
  Main,          \* the main conversation
  Child,         \* identities of child sessions (SubagentTotalLimit of them)
  Slots,         \* collaborationConcurrency
  MaxMainTurns,  \* bound: turns of the main conversation
  MaxChildTurns, \* bound: turns of all children, queued inputs included
  MaxActs        \* bound: what people do besides submitting to the main conversation

ASSUME CollabAssumption ==
  /\ IsFiniteSet(Child)
  /\ Main \notin Child
  /\ Slots \in Nat \ {0}
  /\ MaxMainTurns \in Nat \ {0}
  /\ MaxChildTurns \in Nat \ {0}
  /\ MaxActs \in Nat

VARIABLES
  main,        \* latest turn of the main conversation and where its loop is; of a
               \* look at its children, the queues still to be read and (history)
               \* the children whose queued work began to run during the look
  mainInput,   \* the queued input of the main conversation, if any
  barrier,     \* collaboration_stops: main turns that may not start work any more
  child,       \* latest turn of each child session
  childQueue,  \* queued_inputs of each child: the main turn that asked, and the status
  archived,    \* subtask_archives
  receipts,    \* collaboration_result messages: <<child, turn>>
  drains,      \* sessions with an outstanding call of TryDrainQueued
  checks,      \* the callback of an ended turn has yet to look for results to report
  wakes,       \* wake-ups on their way to Submit, by version
  versions,    \* client message IDs of the wake-ups the store has accepted
  stopping,    \* stage of a stop; in "children" and "all" it holds the lock
  acts,        \* bound: acts of people so far
  missed       \* history: a result became collectable, or its wake-up was dropped,
               \* without anything left to wake the main conversation

collabVars == <<main, mainInput, barrier, child, childQueue, archived, receipts,
                drains, checks, wakes, versions, stopping, acts, missed>>

Session  == Child \cup {Main}
MainTurn == 1..MaxMainTurns
User     == 0   \* work a person asked for in the child session itself
Settled  == {"completed", "failed", "cancelled"}
MainStep == {"idle", "start", "model", "tools", "wait", "look", "settle", "sealed"}

Entry == [by: 0..MaxMainTurns, status: {"queued", "editing"}]

CollabTypeOK ==
  /\ main \in [n: 0..MaxMainTurns, status: Settled \cup {"none", "running"},
               step: MainStep, cancelled: BOOLEAN,
               unread: SUBSET Child, slipped: SUBSET Child]
  /\ mainInput \in {"none", "queued", "editing"}
  /\ barrier \subseteq MainTurn
  /\ child \in [Child -> [exists: BOOLEAN, from: 0..MaxMainTurns, n: 0..MaxChildTurns,
                          status: Settled \cup {"none", "running"},
                          by: 0..MaxMainTurns, reset: BOOLEAN, cancelled: BOOLEAN]]
  /\ childQueue \in [Child -> Seq(Entry)]
  /\ archived \subseteq Child
  /\ receipts \subseteq Child \X (1..MaxChildTurns)
  /\ drains \subseteq Session
  /\ checks \in BOOLEAN
  /\ wakes \subseteq [Child -> 0..MaxChildTurns]
  /\ versions \subseteq [Child -> 0..MaxChildTurns]
  /\ stopping \in {"no", "children", "all", "main"}
  /\ acts \in 0..MaxActs
  /\ missed \in BOOLEAN

-----------------------------------------------------------------------------
(* What the store's queries say. *)

Existing      == {c \in Child : child[c].exists}
ChildRunning(c) == child[c].status = "running"
MainRunning   == main.status = "running"
Busy(c)       == ChildRunning(c) \/ childQueue[c] # <<>>
LockFree      == stopping \in {"no", "main"}

\* Work accepted so far, for the bound of the model.
Work == FoldSet(LAMBDA c, k : child[c].n + Len(childQueue[c]) + k, 0, Child)

\* uncollectedChildTurnsSQL: only the latest turn of a child, and only once it
\* is settled with nothing queued behind it; a reset checkpoint is no result.
Uncollected ==
  {c \in Existing : /\ child[c].status \in Settled
                    /\ ~child[c].reset
                    /\ childQueue[c] = <<>>
                    /\ <<c, child[c].n>> \notin receipts}

\* childSlotAvailable: a session that runs already keeps its slot.
SlotAvailableOneMore(c) ==
  ChildRunning(c) \/ Cardinality({d \in Existing : ChildRunning(d)}) <= Slots
SlotAvailable(c) ==
  ChildRunning(c) \/ Cardinality({d \in Existing : ChildRunning(d)}) < Slots

\* The client message ID of a wake-up names the latest turn of every child.
Version == [c \in Child |-> child[c].n]

Act == acts < MaxActs /\ acts' = acts + 1

\* queueInputTx: a new input makes an archived child visible again.
Enqueue(c, by) ==
  /\ childQueue' = [childQueue EXCEPT ![c] = Append(@, [by |-> by, status |-> "queued"])]
  /\ archived' = archived \ {c}

-----------------------------------------------------------------------------
(* The main conversation. *)

\* BeginTurn, BeginSystemTurn or a promotion for the main conversation.
BeginMain ==
  /\ main' = [n |-> main.n + 1, status |-> "running", step |-> "start", cancelled |-> FALSE,
              unread |-> {}, slipped |-> {}]
  /\ missed' = FALSE

SubmitMain ==
  /\ main.n + (IF mainInput = "none" THEN 0 ELSE 1) < MaxMainTurns
  /\ mainInput = "none"
  /\ IF MainRunning
       THEN /\ mainInput' = "queued"
            /\ UNCHANGED <<main, missed>>
       ELSE /\ BeginMain
            /\ UNCHANGED mainInput
  /\ UNCHANGED <<barrier, child, childQueue, archived, receipts, drains, checks, wakes,
                 versions, stopping, acts>>

\* PATCH of the queued input: taken for editing, given back, or withdrawn.
\* The last two are followed by TryDrainQueued.
EditMain ==
  /\ Act
  /\ \/ mainInput = "queued"  /\ mainInput' = "editing" /\ UNCHANGED drains
     \/ mainInput = "editing" /\ mainInput' = "queued"  /\ drains' = drains \cup {Main}
     \/ mainInput # "none"    /\ mainInput' = "none"    /\ drains' = drains \cup {Main}
  /\ UNCHANGED <<main, barrier, child, childQueue, archived, receipts, checks, wakes,
                 versions, stopping, missed>>

\* CollectChildResults in the main turn: at its start, after a round of tools,
\* and when the answer is complete and no child is busy.
CollectMain ==
  /\ main.step \in {"start", "tools", "settle"}
  /\ receipts' = receipts \cup {<<c, child[c].n>> : c \in Uncollected}
  /\ main' = [main EXCEPT !.step =
                IF main.step = "settle" /\ Uncollected = {} THEN "sealed" ELSE "model"]
  /\ UNCHANGED <<mainInput, barrier, child, childQueue, archived, drains, checks, wakes,
                 versions, stopping, missed, acts>>

\* The model asks for tools, or its answer is complete and the turn waits.
ModelSpeaks ==
  /\ main.step = "model"
  /\ \E step \in {"tools", "wait"} : main' = [main EXCEPT !.step = step]
  /\ UNCHANGED <<mainInput, barrier, child, childQueue, archived, receipts, drains,
                 checks, wakes, versions, stopping, missed, acts>>

\* waitForChildren, once a second and after each event: childrenBusy lists the
\* children, then reads the queue of each by a call of its own, without the lock.
InWait == main.step \in {"wait", "look"}

\* ListChildSessions: a running child ends the look.
ListChildren ==
  /\ main.step = "wait"
  /\ \A c \in Existing : ~ChildRunning(c)
  /\ main' = [main EXCEPT !.step = "look", !.unread = Existing, !.slipped = {}]
  /\ UNCHANGED <<mainInput, barrier, child, childQueue, archived, receipts, drains,
                 checks, wakes, versions, stopping, missed, acts>>

\* HasQueuedInputs: an input being edited counts.
HasQueuedOnly(c) == childQueue[c] # <<>> /\ Head(childQueue[c]).status = "queued"
HasQueued(c) == childQueue[c] # <<>>

ReadChildQueue(c) ==
  /\ main.step = "look" /\ c \in main.unread
  /\ main' = IF HasQueued(c) THEN [main EXCEPT !.step = "wait", !.unread = {}]
                             ELSE [main EXCEPT !.unread = @ \ {c}]
  /\ UNCHANGED <<mainInput, barrier, child, childQueue, archived, receipts, drains,
                 checks, wakes, versions, stopping, missed, acts>>

\* No child was busy: the wait returns.
ChildrenIdle ==
  /\ main.step = "look" /\ main.unread = {}
  /\ main' = [main EXCEPT !.step = "settle"]
  /\ UNCHANGED <<mainInput, barrier, child, childQueue, archived, receipts, drains,
                 checks, wakes, versions, stopping, missed, acts>>

\* Only a completed main turn looks for results by itself.
NeverReports(status) == FALSE
ReportsAfterMain(status) == status = "completed"

\* streamTurn returns and finishTurn commits.  The calls that follow drain the
\* queue of the session and, after a completion, look for results to report.
FinishMain ==
  /\ MainRunning
  /\ \E status \in Settled :
       /\ (status = "completed") <=> (main.step = "sealed")
       /\ (status = "cancelled") => main.cancelled
       /\ main' = [main EXCEPT !.status = status, !.step = "idle", !.cancelled = FALSE,
                               !.unread = {}]
       /\ checks' = (checks \/ ReportsAfterMain(status))
  /\ drains' = drains \cup {s \in {Main} : mainInput # "none"}
  /\ UNCHANGED <<mainInput, barrier, child, childQueue, archived, receipts,
                 wakes, versions, stopping, missed, acts>>

-----------------------------------------------------------------------------
(* What the main turn does with its children: tools of the subsession       *)
(* plugin, called between two requests to the model.                        *)

MayDelegate == main.step = "tools" /\ main.n \notin barrier

\* dispatchChild, under the lock: the session, its relation, the dispatch and
\* the first input are one transaction; the drain follows.
Dispatch(c) ==
  /\ LockFree /\ MayDelegate
  /\ ~child[c].exists /\ Work < MaxChildTurns
  /\ child' = [child EXCEPT ![c].exists = TRUE, ![c].from = main.n]
  /\ Enqueue(c, main.n)
  /\ drains' = drains \cup {c}
  /\ UNCHANGED <<main, mainInput, barrier, receipts, checks, wakes, versions, stopping, missed, acts>>

\* sendChild does not take the lock; QueueChildInput reads the barrier itself.
Send(c) ==
  /\ MayDelegate
  /\ child[c].exists /\ Work < MaxChildTurns
  /\ Enqueue(c, main.n)
  /\ drains' = drains \cup {c}
  /\ UNCHANGED <<main, mainInput, barrier, child, receipts, checks, wakes, versions,
                 stopping, missed, acts>>

\* resetSubagent: a checkpoint turn that is born completed, with or without a
\* new task in the same transaction.  The child must be at rest and its result
\* collected, unless its latest turn is a checkpoint itself.
ResetAllowed(c) ==
  /\ child[c].status \in Settled
  /\ ~Busy(c)
  /\ child[c].reset \/ <<c, child[c].n>> \in receipts

Reset(c) ==
  /\ LockFree /\ MayDelegate
  /\ child[c].exists
  /\ ResetAllowed(c)
  /\ Work < MaxChildTurns
  /\ child' = [child EXCEPT ![c].n = @ + 1, ![c].status = "completed", ![c].by = main.n,
                            ![c].reset = TRUE, ![c].cancelled = FALSE]
  /\ \/ UNCHANGED <<childQueue, archived, drains>>
     \/ /\ Work + 1 < MaxChildTurns
        /\ Enqueue(c, main.n)
        /\ drains' = drains \cup {c}
  /\ UNCHANGED <<main, mainInput, barrier, receipts, checks, wakes, versions, stopping, missed, acts>>

\* SetSubtaskArchived: the snapshot of the engine is checked again by the store
\* (latest turn settled, nothing running, queued or edited).
ArchiveAllowedQueued(c) == child[c].status \in Settled /\ ~ChildRunning(c)
ArchiveAllowed(c) == child[c].status \in Settled /\ ~Busy(c)

SetArchived(c) ==
  /\ Act
  /\ LockFree
  /\ child[c].exists
  /\ \/ c \notin archived /\ ArchiveAllowed(c) /\ archived' = archived \cup {c}
     \/ c \in archived /\ archived' = archived \ {c}
  /\ UNCHANGED <<main, mainInput, barrier, child, childQueue, receipts, drains, checks, wakes,
                 versions, stopping, missed>>

-----------------------------------------------------------------------------
(* Stop and cancel. *)

\* A result hidden by queued work is collectable again once that work is gone.
Resurfaces(c) ==
  /\ child[c].exists /\ childQueue[c] # <<>>
  /\ child[c].status \in Settled /\ ~child[c].reset
  /\ <<c, child[c].n>> \notin receipts

\* What a stop leaves of a queue: nothing, whatever is queued or being edited.
AfterStopUnedited(q) ==
  IF q # <<>> /\ Head(q).status = "editing" THEN <<Head(q)>> ELSE <<>>
AfterStop(q) == <<>>

\* StopCollaboration, its transaction: the barrier covers the running main turn
\* and every main turn that dispatched a child; queued work is cancelled.
\* Cancel of the main conversation begins with it.
StopStore ==
  /\ Act
  /\ stopping = "no"
  /\ \E stage \in {"children", "all"} : stopping' = stage
  /\ barrier' = barrier \cup {n \in MainTurn : MainRunning /\ n = main.n}
                        \cup {child[c].from : c \in Existing}
  /\ childQueue' = [c \in Child |-> AfterStop(childQueue[c])]
  /\ missed' = (missed \/ \E c \in Child : Resurfaces(c))
  /\ UNCHANGED <<main, mainInput, child, archived, receipts, drains, checks, wakes, versions>>

\* cancelOne of every child, still under the lock.
StopCancel ==
  /\ stopping \in {"children", "all"}
  /\ child' = [c \in Child |-> [child[c] EXCEPT !.cancelled = @ \/ ChildRunning(c)]]
  /\ stopping' = IF stopping = "all" THEN "main" ELSE "no"
  /\ UNCHANGED <<main, mainInput, barrier, childQueue, archived, receipts, drains,
                 checks, wakes, versions, missed, acts>>

\* The rest of Cancel, after the lock: cancelOne of the main conversation.
CancelMain ==
  /\ stopping = "main"
  /\ main' = [main EXCEPT !.cancelled = MainRunning]
  /\ stopping' = "no"
  /\ UNCHANGED <<mainInput, barrier, child, childQueue, archived, receipts, drains,
                 checks, wakes, versions, missed, acts>>

\* Cancel of a child session reaches only that child.
CancelChild(c) ==
  /\ Act
  /\ ChildRunning(c) /\ ~child[c].cancelled
  /\ child' = [child EXCEPT ![c].cancelled = TRUE]
  /\ UNCHANGED <<main, mainInput, barrier, childQueue, archived, receipts, drains,
                 checks, wakes, versions, stopping, missed>>

-----------------------------------------------------------------------------
(* The child sessions. *)

\* Submit in a child session always queues, then drains.
SubmitChild(c) ==
  /\ Act
  /\ child[c].exists /\ Work < MaxChildTurns
  /\ Enqueue(c, User)
  /\ drains' = drains \cup {c}
  /\ UNCHANGED <<main, mainInput, barrier, child, receipts, checks, wakes, versions,
                 stopping, missed>>

\* PATCH of the head of a child's queue.
EditChild(c) ==
  /\ Act
  /\ childQueue[c] # <<>>
  /\ \/ /\ Head(childQueue[c]).status = "queued"
        /\ childQueue' = [childQueue EXCEPT ![c][1].status = "editing"]
        /\ UNCHANGED <<drains, missed>>
     \/ /\ Head(childQueue[c]).status = "editing"
        /\ childQueue' = [childQueue EXCEPT ![c][1].status = "queued"]
        /\ drains' = drains \cup {c}
        /\ UNCHANGED missed
     \/ /\ childQueue' = [childQueue EXCEPT ![c] = Tail(@)]
        /\ drains' = drains \cup {c}
        /\ missed' = (missed \/ (Resurfaces(c) /\ Len(childQueue[c]) = 1))
  /\ UNCHANGED <<main, mainInput, barrier, child, archived, receipts, checks, wakes,
                 versions, stopping>>

\* A retry of the latest turn is a system turn: it needs a slot, a failed latest
\* turn and an empty queue.
RetryChild(c) ==
  /\ Act
  /\ LockFree
  /\ child[c].status = "failed" /\ childQueue[c] = <<>> /\ Work < MaxChildTurns
  /\ SlotAvailable(c)
  /\ child' = [child EXCEPT ![c].n = @ + 1, ![c].status = "running", ![c].by = User,
                            ![c].reset = FALSE, ![c].cancelled = FALSE]
  /\ archived' = archived \ {c}
  /\ UNCHANGED <<main, mainInput, barrier, childQueue, receipts, drains, checks, wakes,
                 versions, stopping, missed>>

\* promoteQueuedForRun: the slot is counted, the head promoted and the turn
\* registered under the lock.
CanPromote(s) ==
  IF s = Main
    THEN ~MainRunning /\ mainInput = "queued"
    ELSE /\ SlotAvailable(s) /\ ~ChildRunning(s)
         /\ childQueue[s] # <<>> /\ Head(childQueue[s]).status = "queued"

Promote(s) ==
  IF s = Main
    THEN /\ BeginMain
         /\ mainInput' = "none"
         /\ UNCHANGED <<child, childQueue>>
    ELSE /\ child' = [child EXCEPT ![s].n = @ + 1, ![s].status = "running",
                        ![s].by = Head(childQueue[s]).by, ![s].reset = FALSE,
                        ![s].cancelled = FALSE]
         /\ childQueue' = [childQueue EXCEPT ![s] = Tail(@)]
         /\ main' = [main EXCEPT !.slipped = @ \cup ({s} \cap main.unread)]
         /\ UNCHANGED <<mainInput, missed>>

\* TryDrainQueued
Drain(s) ==
  /\ LockFree
  /\ IF CanPromote(s) THEN Promote(s)
                      ELSE UNCHANGED <<main, mainInput, missed, child, childQueue>>

TryDrainQueued(s) ==
  /\ s \in drains
  /\ Drain(s)
  /\ drains' = drains \ {s}
  /\ UNCHANGED <<barrier, archived, receipts, checks, wakes, versions, stopping, acts>>

\* childTurnFinished drains the queues of the session and of its siblings.  A
\* drain of an empty queue does nothing, and a later input brings its own.
DrainedAfterOwn(c) == {d \in {c} : childQueue[d] # <<>>}
DrainedAfter(c) == {d \in Child : childQueue[d] # <<>>}

\* The turn of a child ends.  A cancelled turn that had already answered, or
\* whose stream failed, keeps that outcome.  Unless the turn counts as cancelled,
\* childTurnFinished looks for results to report.
FinishChild(c) ==
  /\ ChildRunning(c)
  /\ \E status \in Settled :
       /\ (status = "cancelled") => child[c].cancelled
       /\ child' = [child EXCEPT ![c].status = status, ![c].cancelled = FALSE]
       /\ checks' = (checks \/ status # "cancelled")
       /\ missed' = (missed \/ status = "cancelled")
  /\ drains' = drains \cup DrainedAfter(c)
  /\ UNCHANGED <<main, mainInput, barrier, childQueue, archived, receipts,
                 wakes, versions, stopping, acts>>

-----------------------------------------------------------------------------
(* wakeForChildResults.  Its reads and its Submit are two steps.            *)

CheckResults ==
  /\ checks
  /\ checks' = FALSE
  /\ wakes' = IF main.status = "completed" /\ Uncollected # {}
                THEN wakes \cup {Version} ELSE wakes
  /\ UNCHANGED <<main, mainInput, barrier, child, childQueue, archived, receipts, drains,
                 versions, stopping, missed, acts>>

\* Submit of the wake-up: refused while an input is queued or a turn runs,
\* absorbed when this version was accepted before.
WakeRefused(v) == mainInput # "none" \/ v \in versions \/ MainRunning

WakeMain(v) ==
  /\ v \in wakes
  /\ LockFree
  /\ wakes' = wakes \ {v}
  /\ IF WakeRefused(v)
       THEN /\ missed' = (missed \/ (mainInput # "none" /\ ~MainRunning))
            /\ UNCHANGED <<main, versions>>
       ELSE /\ main.n < MaxMainTurns
            /\ BeginMain
            /\ versions' = versions \cup {v}
  /\ UNCHANGED <<mainInput, barrier, child, childQueue, archived, receipts, drains, checks,
                 stopping, acts>>

-----------------------------------------------------------------------------
CollabInit ==
  /\ main = [n |-> 0, status |-> "none", step |-> "idle", cancelled |-> FALSE,
              unread |-> {}, slipped |-> {}]
  /\ mainInput = "none"
  /\ barrier = {}
  /\ child = [c \in Child |-> [exists |-> FALSE, from |-> 0, n |-> 0, status |-> "none",
                              by |-> User, reset |-> FALSE, cancelled |-> FALSE]]
  /\ childQueue = [c \in Child |-> <<>>]
  /\ archived = {}
  /\ receipts = {}
  /\ drains = {}
  /\ checks = FALSE
  /\ wakes = {}
  /\ versions = {}
  /\ stopping = "no"
  /\ acts = 0
  /\ missed = FALSE

CollabNext ==
  \/ SubmitMain \/ EditMain \/ CollectMain \/ ModelSpeaks \/ ListChildren \/ ChildrenIdle
  \/ FinishMain
  \/ StopStore \/ StopCancel \/ CancelMain
  \/ \E c \in Child :
       \/ ReadChildQueue(c)
       \/ Dispatch(c) \/ Send(c) \/ Reset(c) \/ SetArchived(c)
       \/ CancelChild(c) \/ SubmitChild(c) \/ EditChild(c) \/ RetryChild(c) \/ FinishChild(c)
  \/ \E s \in Session : TryDrainQueued(s)
  \/ CheckResults
  \/ \E v \in wakes : WakeMain(v)

CollabSpec == CollabInit /\ [][CollabNext]_collabVars

\* Calls that are under way return, the wait polls (a ticker of one second), and
\* a cancelled turn of a child ends: each of its waits selects on its context.
\* A turn nobody cancels may wait without a timeout, for a decision or for the
\* keys of a tool.  Nothing is assumed of people, nor of the model's own progress.
CollabFairness ==
  /\ WF_collabVars(StopCancel)
  /\ WF_collabVars(ListChildren) /\ WF_collabVars(ChildrenIdle)
  /\ \A c \in Child : WF_collabVars(ReadChildQueue(c))
  /\ \A c \in Child : WF_collabVars(child[c].cancelled /\ FinishChild(c))
  /\ \A s \in Session : WF_collabVars(TryDrainQueued(s))

CollabFairSpec == CollabSpec /\ CollabFairness

-----------------------------------------------------------------------------
(* Properties. *)

\* At most Slots children run at a time.
SlotsBounded == Cardinality({c \in Child : ChildRunning(c)}) <= Slots

\* Once a stop has run, no turn works on behalf of a main turn behind the
\* barrier without being cancelled, and nothing it asked for is still queued:
\* whatever was dispatched, sent, edited or being promoted while it ran.
StoppedWorkCancelled ==
  LockFree => \A c \in Child :
    /\ (ChildRunning(c) /\ child[c].by \in barrier) => child[c].cancelled
    /\ \A i \in 1..Len(childQueue[c]) : childQueue[c][i].by \notin barrier

\* An archived child is at rest: an input or a retry brings it back.
ArchivedAtRest == \A c \in archived : ~Busy(c)

\* The main conversation answers last: from the end of its wait until it runs
\* again, and for as long as its latest turn counts as completed, no work that
\* any of its turns asked for is queued or running.  Except in a child whose
\* queued work was promoted while the wait looked at the children: its turn did
\* not run when they were listed and its queue was empty when it was read.
DelegatedWorkFirst ==
  (main.step \in {"settle", "sealed"} \/ main.status = "completed") =>
    \A c \in Child \ main.slipped :
      /\ ChildRunning(c) => child[c].by = User
      /\ \A i \in 1..Len(childQueue[c]) : childQueue[c][i].by = User

Quiet ==
  /\ stopping = "no" /\ ~checks /\ wakes = {} /\ drains = {}
  /\ ~MainRunning /\ \A c \in Child : ~Busy(c)

\* No lost wake-up: when everything has come to rest after a completed main
\* turn, no child result is left that the main conversation has not seen.
NoResultForgotten == (Quiet /\ main.status = "completed" /\ ~missed) => Uncollected = {}

\* No deadlock of the wait: it lasts for ever only when somebody keeps the head
\* of a child's queue open for editing, or the turn of a child goes on for ever
\* (it may wait for a decision or for keys) and nobody cancels it.
HeldByEditor ==
  \E c \in Child : childQueue[c] # <<>> /\ Head(childQueue[c]).status = "editing"
HeldByTurn(c) == ChildRunning(c) /\ ~child[c].cancelled
WaitEnds ==
  []<>~InWait \/ <>[]HeldByEditor \/ \E c \in Child : <>[]HeldByTurn(c)
=============================================================================
