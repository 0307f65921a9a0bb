------------------------ MODULE CollaborationProofs ------------------------
(***************************************************************************)
(* Proofs about Collaboration, for any number of children, slots, turns    *)
(* and acts of people.                                                     *)
(*                                                                         *)
(* A slot is counted and taken under one lock: SlotsBounded.  The barrier  *)
(* of a stop covers nothing that is queued, and what ran when it was set   *)
(* has been cancelled when the lock is free: StoppedWorkCancelled.  The    *)
(* main turn seals only after it has waited and collected, and every       *)
(* result that becomes collectable afterwards has a check or a wake-up on  *)
(* its way that the store has not accepted before: NoResultForgotten.      *)
(***************************************************************************)
EXTENDS Collaboration, FiniteSetTheorems, TLAPS

Status == Settled \cup {"none", "running"}

ChildRecord == [exists: BOOLEAN, from: Nat, n: Nat, status: Status, by: Nat,
                reset: BOOLEAN, cancelled: BOOLEAN]

QueueEntry == [by: Nat, status: {"queued", "editing"}]

MainRecord == [n: Nat, status: Status, step: MainStep, cancelled: BOOLEAN,
               unread: SUBSET Child, slipped: SUBSET Child]

\* The types the proofs need.  The bounds of the model are not among them.
CollabTypeInv ==
  /\ main \in MainRecord
  /\ barrier \subseteq Nat \ {User}
  /\ child \in [Child -> ChildRecord]
  /\ childQueue \in [Child -> Seq(QueueEntry)]
  /\ archived \subseteq Child
  /\ stopping \in {"no", "children", "all", "main"}
  /\ missed \in BOOLEAN
  /\ checks \in BOOLEAN

\* Only sessions that exist have turns or queued inputs, and a turn of the main
\* conversation has dispatched each.
ChildrenKnown ==
  \A c \in Child :
    /\ child[c].status # "none" \/ childQueue[c] # <<>> => child[c].exists
    /\ child[c].exists => child[c].from # User

\* The loop of the main turn is somewhere only while the turn runs.
StepRuns == main.step # "idle" => main.status = "running" /\ main.n # User

\* Nothing that is queued was asked for by a main turn behind the barrier.
QueueUnstopped == \A c \in Child : \A i \in 1..Len(childQueue[c]) : childQueue[c][i].by \notin barrier

Answering == main.step \in {"settle", "sealed"} \/ main.status = "completed"
Answered  == main.step = "sealed" \/ main.status = "completed"

\* While the wait looks at the children, what it has read of them still holds,
\* but for the children whose work slips through.
LookHolds ==
  main.step = "look" =>
    \A c \in Child \ main.slipped :
      /\ ChildRunning(c) => child[c].by = User
      /\ c \notin main.unread => \A i \in 1..Len(childQueue[c]) : childQueue[c][i].by = User

\* A wake-up never names turns that are still to come.
WakesPast ==
  \A v \in wakes \cup versions :
    v \in [Child -> Nat] /\ \A c \in Child : v[c] <= child[c].n

\* When the latest turn of every child was already part of an accepted wake-up,
\* a main turn that has listed them as idle, or has finished waiting, has waited
\* for all of them: one that starts meanwhile begins a turn no wake-up names ...
AbsorbedAtRest == (Answering \/ main.step = "look") /\ Version \in versions => \A c \in Child : ~ChildRunning(c)

\* ... and has collected what they left.
AbsorbedSeen == Answered /\ Version \in versions /\ ~missed => Uncollected = {}

\* A result that waits for a completed main conversation will be looked for, or
\* a wake-up is on its way that will not be taken for a repetition.
ReportPending ==
  main.status = "completed" /\ ~missed /\ Uncollected # {} =>
    checks \/ \E v \in wakes : v \notin versions

CollabInv ==
  /\ CollabTypeInv /\ ChildrenKnown /\ StepRuns
  /\ SlotsBounded
  /\ QueueUnstopped /\ StoppedWorkCancelled
  /\ ArchivedAtRest
  /\ LookHolds /\ DelegatedWorkFirst
  /\ WakesPast /\ AbsorbedAtRest /\ AbsorbedSeen /\ ReportPending

-----------------------------------------------------------------------------
(* Steps and their parts *)

\* The promotion of a child's queued input by a drain.
PromoteChild(c) ==
  /\ LockFree /\ SlotAvailable(c) /\ ~ChildRunning(c)
  /\ childQueue[c] # <<>>
  /\ child' = [child EXCEPT ![c].n = @ + 1, ![c].status = "running",
                  ![c].by = Head(childQueue[c]).by, ![c].reset = FALSE,
                  ![c].cancelled = FALSE]
  /\ childQueue' = [childQueue EXCEPT ![c] = Tail(@)]
  /\ main' = [main EXCEPT !.slipped = @ \cup ({c} \cap main.unread)]
  /\ UNCHANGED <<mainInput, missed, barrier, archived, receipts, checks, wakes,
                 versions, stopping, acts>>

PromoteMain ==
  /\ LockFree /\ ~MainRunning
  /\ BeginMain
  /\ UNCHANGED <<child, childQueue, barrier, archived, receipts, checks, wakes, versions,
                 stopping, acts>>

DrainNothing ==
  UNCHANGED <<main, mainInput, missed, child, childQueue, barrier, archived, receipts, checks,
              wakes, versions, stopping, acts>>

\* What a call of TryDrainQueued may have done.
LEMMA DrainCases ==
  ASSUME NEW s \in Session, TryDrainQueued(s)
  PROVE  PromoteMain \/ DrainNothing \/ \E c \in Child : PromoteChild(c)
<1>1. CASE ~CanPromote(s)
  BY <1>1 DEF TryDrainQueued, Drain, DrainNothing
<1>2. CASE CanPromote(s) /\ s = Main
  BY <1>2 DEF TryDrainQueued, Drain, CanPromote, Promote, PromoteMain
<1>3. CASE CanPromote(s) /\ s # Main
  <2>1. s \in Child
    BY <1>3 DEF Session
  <2>2. PromoteChild(s)
    BY <1>3, <2>1 DEF TryDrainQueued, Drain, CanPromote, Promote, PromoteChild
  <2> QED BY <2>1, <2>2
<1> QED BY <1>1, <1>2, <1>3

\* The steps of the specification by what they do to the children.
ChildStep(c) ==
  \/ Dispatch(c) \/ Send(c) \/ Reset(c) \/ CancelChild(c) \/ SubmitChild(c)
  \/ EditChild(c) \/ RetryChild(c) \/ FinishChild(c) \/ PromoteChild(c)

WaitStep == ListChildren \/ ChildrenIdle \/ \E c \in Child : ReadChildQueue(c)

OtherStep ==
  \/ SubmitMain \/ EditMain \/ CollectMain \/ ModelSpeaks \/ WaitStep \/ FinishMain
  \/ CancelMain \/ CheckResults \/ PromoteMain \/ DrainNothing
  \/ (\E c \in Child : SetArchived(c))
  \/ (\E v \in wakes : WakeMain(v))
  \/ UNCHANGED collabVars

LEMMA StepCases ==
  ASSUME [CollabNext]_collabVars
  PROVE  OtherStep \/ StopStore \/ StopCancel \/ \E c \in Child : ChildStep(c)
<1>1. CASE \E s \in Session : TryDrainQueued(s)
  BY <1>1, DrainCases DEF OtherStep, ChildStep
<1>2. CASE CollabNext /\ ~ \E s \in Session : TryDrainQueued(s)
  BY <1>2 DEF CollabNext, OtherStep, WaitStep, ChildStep
<1> QED BY <1>1, <1>2 DEF OtherStep

LEMMA OtherKeepsChildren ==
  ASSUME OtherStep
  PROVE  UNCHANGED <<child, childQueue>>
BY DEF OtherStep, SubmitMain, EditMain, CollectMain, ModelSpeaks, WaitStep, ListChildren,
          ReadChildQueue, ChildrenIdle, FinishMain,
       CancelMain, CheckResults, PromoteMain, DrainNothing, SetArchived, WakeMain, collabVars

-----------------------------------------------------------------------------
(* Types *)

\* Edits of the head of a queue keep the other entries and who asked for it.
LEMMA EditedHead ==
  ASSUME NEW q \in Seq(QueueEntry), q # <<>>, NEW st \in {"queued", "editing"}
  PROVE  /\ [q EXCEPT ![1].status = st] \in Seq(QueueEntry)
         /\ Len([q EXCEPT ![1].status = st]) = Len(q)
         /\ \A i \in 1..Len(q) : [q EXCEPT ![1].status = st][i].by = q[i].by
<1> DEFINE r == [q EXCEPT ![1].status = st]
<1>1. Len(q) \in Nat /\ q \in [1..Len(q) -> QueueEntry]
  OBVIOUS
<1>2. r \in [1..Len(q) -> QueueEntry]
  BY <1>1 DEF QueueEntry
<1>3. r \in Seq(QueueEntry) /\ Len(r) = Len(q)
  BY <1>1, <1>2
<1>4. \A i \in 1..Len(q) : r[i].by = q[i].by
  BY <1>1 DEF QueueEntry
<1> QED BY <1>3, <1>4

\* A record of a child's next turn is a record of a child.
LEMMA NextTurn ==
  ASSUME NEW r \in ChildRecord, NEW st \in Status, NEW by \in Nat, NEW b \in BOOLEAN
  PROVE  [r EXCEPT !.n = @ + 1, !.status = st, !.by = by, !.reset = b, !.cancelled = FALSE]
           \in ChildRecord
<1> DEFINE r1 == [r EXCEPT !.n = r.n + 1]
           r2 == [r1 EXCEPT !.status = st]
           r3 == [r2 EXCEPT !.by = by]
           r4 == [r3 EXCEPT !.reset = b]
           r5 == [r4 EXCEPT !.cancelled = FALSE]
<1>1. r1 \in ChildRecord
  BY DEF ChildRecord
<1>2. r2 \in ChildRecord
  BY <1>1 DEF ChildRecord
<1>3. r3 \in ChildRecord
  BY <1>2 DEF ChildRecord
<1>4. r4 \in ChildRecord
  BY <1>3 DEF ChildRecord
<1>5. r5 \in ChildRecord
  BY <1>4 DEF ChildRecord
<1>6. r5 = [r EXCEPT !.n = @ + 1, !.status = st, !.by = by, !.reset = b, !.cancelled = FALSE]
  OBVIOUS
<1> QED BY <1>5, <1>6

LEMMA TypeOther ==
  ASSUME CollabTypeInv, OtherStep
  PROVE  CollabTypeInv'
<1> USE CollabAssumption
<1>0. UNCHANGED <<child, childQueue>>
  BY OtherKeepsChildren
<1>1. main' \in MainRecord
  <2>0. main \in MainRecord
    BY DEF CollabTypeInv
  <2> USE DEF MainRecord
  <2>1. CASE main' = main
    BY <2>0, <2>1
  <2>2. CASE BeginMain
    BY <2>0, <2>2 DEF BeginMain, Status, MainStep
  <2>3. CASE CollectMain \/ ModelSpeaks
    BY <2>0, <2>3 DEF CollectMain, ModelSpeaks, MainStep
  <2>6. CASE ListChildren \/ ChildrenIdle
    <3>1. {} \in SUBSET Child /\ Existing \in SUBSET Child
      BY DEF Existing
    <3> QED BY <2>0, <2>6, <3>1 DEF ListChildren, ChildrenIdle, MainStep
  <2>7. CASE \E c \in Child : ReadChildQueue(c)
    <3>1. PICK c \in Child : ReadChildQueue(c)
      BY <2>7
    <3>2. {} \in SUBSET Child /\ main.unread \ {c} \in SUBSET Child
      BY <2>0
    <3>3. CASE HasQueued(c)
      BY <2>0, <3>1, <3>2, <3>3 DEF ReadChildQueue, MainStep
    <3>4. CASE ~HasQueued(c)
      BY <2>0, <3>1, <3>2, <3>4 DEF ReadChildQueue, MainStep
    <3> QED BY <3>3, <3>4
  <2>4. CASE FinishMain
    BY <2>0, <2>4 DEF FinishMain, MainStep, Status
  <2>5. CASE CancelMain
    BY <2>0, <2>5 DEF CancelMain, MainRunning
  <2> QED BY <2>1, <2>2, <2>3, <2>4, <2>5, <2>6, <2>7
          DEF OtherStep, WaitStep, SubmitMain, EditMain, CheckResults, PromoteMain, DrainNothing,
              SetArchived, WakeMain, collabVars
<1>2. /\ archived' \subseteq Child /\ barrier' = barrier
      /\ stopping' \in {"no", "children", "all", "main"}
      /\ missed' \in BOOLEAN /\ checks' \in BOOLEAN
  BY DEF CollabTypeInv, OtherStep, SubmitMain, BeginMain, EditMain, CollectMain, ModelSpeaks,
          WaitStep,
         ListChildren, ReadChildQueue, ChildrenIdle, FinishMain, CancelMain, CheckResults, PromoteMain, DrainNothing,
         SetArchived, WakeMain, collabVars
<1> QED BY <1>0, <1>1, <1>2 DEF CollabTypeInv

LEMMA TypeChild ==
  ASSUME CollabTypeInv, NEW c \in Child, ChildStep(c)
  PROVE  CollabTypeInv'
<1>5. main' \in MainRecord
  <2>0. main \in MainRecord
    BY DEF CollabTypeInv
  <2>1. CASE PromoteChild(c)
    BY <2>0, <2>1 DEF PromoteChild, MainRecord
  <2>2. CASE ~PromoteChild(c)
    BY <2>0, <2>2 DEF ChildStep, Dispatch, Send, Reset, CancelChild, SubmitChild, EditChild,
         RetryChild, FinishChild
  <2> QED BY <2>1, <2>2
<1>1. /\ barrier' = barrier /\ stopping' = stopping
      /\ archived' \subseteq Child
      /\ missed' \in BOOLEAN /\ checks' \in BOOLEAN
  BY DEF CollabTypeInv, ChildStep, Dispatch, Send, Reset, CancelChild, SubmitChild, EditChild,
         RetryChild, FinishChild, PromoteChild, Enqueue
<1>0. child \in [Child -> ChildRecord]
  BY DEF CollabTypeInv
<1>2. main.n \in Nat /\ child[c] \in ChildRecord /\ childQueue[c] \in Seq(QueueEntry)
  BY DEF CollabTypeInv, MainRecord
<1>3. child' \in [Child -> ChildRecord]
  <2>1. CASE PromoteChild(c)
    <3>1. Head(childQueue[c]) \in QueueEntry
      BY <1>2, <2>1 DEF PromoteChild
    <3>2. Head(childQueue[c]).by \in Nat
      BY <3>1 DEF QueueEntry
    <3>3. [child[c] EXCEPT !.n = @ + 1, !.status = "running", !.by = Head(childQueue[c]).by,
                           !.reset = FALSE, !.cancelled = FALSE] \in ChildRecord
      BY <1>2, <3>2, NextTurn DEF Status
    <3> QED BY <2>1, <3>3, <1>0 DEF PromoteChild
  <2>2. CASE Dispatch(c)
    <3>1. [child[c] EXCEPT !.exists = TRUE, !.from = main.n] \in ChildRecord
      BY <1>2 DEF ChildRecord
    <3> QED BY <2>2, <3>1, <1>0 DEF Dispatch
  <2>3. CASE Reset(c)
    <3>1. [child[c] EXCEPT !.n = @ + 1, !.status = "completed", !.by = main.n,
                           !.reset = TRUE, !.cancelled = FALSE] \in ChildRecord
      BY <1>2, NextTurn DEF Status, Settled
    <3> QED BY <2>3, <3>1, <1>0 DEF Reset
  <2>5. CASE RetryChild(c)
    <3>1. [child[c] EXCEPT !.n = @ + 1, !.status = "running", !.by = User, !.reset = FALSE,
                           !.cancelled = FALSE] \in ChildRecord
      BY NextTurn, <1>2 DEF Status, User
    <3> QED BY <2>5, <3>1, <1>0 DEF RetryChild
  <2>6. CASE CancelChild(c)
    <3>1. [child[c] EXCEPT !.cancelled = TRUE] \in ChildRecord
      BY <1>2 DEF ChildRecord
    <3> QED BY <2>6, <3>1, <1>0 DEF CancelChild
  <2>7. CASE FinishChild(c)
    <3>1. \A status \in Settled :
             [child[c] EXCEPT !.status = status, !.cancelled = FALSE] \in ChildRecord
      BY <1>2 DEF ChildRecord, Status
    <3> QED BY <2>7, <3>1, <1>0 DEF FinishChild
  <2>4. CASE Send(c) \/ SubmitChild(c) \/ EditChild(c)
    BY <2>4 DEF CollabTypeInv, Send, SubmitChild, EditChild
  <2> QED BY <2>1, <2>2, <2>3, <2>4, <2>5, <2>6, <2>7 DEF ChildStep
<1>4. childQueue' \in [Child -> Seq(QueueEntry)]
  <2>1. ASSUME NEW by \in Nat, Enqueue(c, by) PROVE childQueue' \in [Child -> Seq(QueueEntry)]
    <3>1. Append(childQueue[c], [by |-> by, status |-> "queued"]) \in Seq(QueueEntry)
      BY <1>2 DEF QueueEntry
    <3> QED BY <2>1, <3>1 DEF Enqueue, CollabTypeInv
  <2>2. CASE Dispatch(c) \/ Send(c)
    BY <1>2, <2>1, <2>2 DEF Dispatch, Send
  <2>3. CASE SubmitChild(c)
    BY <2>1, <2>3 DEF SubmitChild, User
  <2>4. CASE Reset(c)
    BY <1>2, <2>1, <2>4 DEF Reset, CollabTypeInv
  <2>5. CASE EditChild(c)
    <3>1. childQueue[c] # <<>>
      BY <2>5 DEF EditChild
    <3>2. Tail(childQueue[c]) \in Seq(QueueEntry)
      BY <1>2, <3>1
    <3>3. \A st \in {"queued", "editing"} : [childQueue[c] EXCEPT ![1].status = st] \in Seq(QueueEntry)
      BY <1>2, <3>1, EditedHead
    <3> QED BY <2>5, <3>2, <3>3 DEF EditChild, CollabTypeInv
  <2>6. CASE PromoteChild(c)
    <3>1. Tail(childQueue[c]) \in Seq(QueueEntry)
      BY <1>2, <2>6 DEF PromoteChild
    <3> QED BY <2>6, <3>1 DEF PromoteChild, CollabTypeInv
  <2>7. CASE CancelChild(c) \/ RetryChild(c) \/ FinishChild(c)
    BY <2>7 DEF CollabTypeInv, CancelChild, RetryChild, FinishChild
  <2> QED BY <2>2, <2>3, <2>4, <2>5, <2>6, <2>7 DEF ChildStep
<1> QED BY <1>1, <1>3, <1>4, <1>5 DEF CollabTypeInv

LEMMA TypeStop ==
  ASSUME CollabTypeInv, ChildrenKnown, StepRuns, StopStore \/ StopCancel
  PROVE  CollabTypeInv'
<1>1. CASE StopStore
  <2>1. barrier' \subseteq Nat \ {User}
    <3>1. \A c \in Existing : child[c].from \in Nat \ {User}
      BY DEF CollabTypeInv, ChildRecord, ChildrenKnown, Existing
    <3>2. \A n \in MainTurn : n \in Nat \ {User}
      BY DEF MainTurn, User
    <3> QED BY <1>1, <3>1, <3>2 DEF StopStore, CollabTypeInv
  <2>2. childQueue' \in [Child -> Seq(QueueEntry)]
    BY <1>1 DEF StopStore, AfterStop
  <2>3. missed' \in BOOLEAN
    BY <1>1 DEF StopStore, CollabTypeInv
  <2> QED BY <1>1, <2>1, <2>2, <2>3 DEF StopStore, CollabTypeInv
<1>2. CASE StopCancel
  <2>1. ASSUME NEW c \in Child
        PROVE  [child[c] EXCEPT !.cancelled = @ \/ ChildRunning(c)] \in ChildRecord
    <3>1. child[c] \in ChildRecord
      BY DEF CollabTypeInv
    <3>2. (child[c].cancelled \/ ChildRunning(c)) \in BOOLEAN
      OBVIOUS
    <3> QED BY <3>1, <3>2 DEF ChildRecord
  <2>2. child' \in [Child -> ChildRecord]
    BY <1>2, <2>1 DEF StopCancel
  <2> QED BY <1>2, <2>2 DEF StopCancel, CollabTypeInv
<1> QED BY <1>1, <1>2

LEMMA TypeStep ==
  ASSUME CollabTypeInv, ChildrenKnown, StepRuns, [CollabNext]_collabVars
  PROVE  CollabTypeInv'
BY StepCases, TypeOther, TypeChild, TypeStop

\* A stop marks the turns that run and changes nothing else of the children.
LEMMA StopCancelKeeps ==
  ASSUME CollabTypeInv, StopCancel, NEW c \in Child
  PROVE  /\ child'[c].exists = child[c].exists /\ child'[c].from = child[c].from
         /\ child'[c].n = child[c].n /\ child'[c].status = child[c].status
         /\ child'[c].by = child[c].by /\ child'[c].reset = child[c].reset
         /\ child'[c].cancelled <=> (child[c].cancelled \/ ChildRunning(c))
         /\ childQueue' = childQueue
<1>1. child[c] \in ChildRecord
  BY DEF CollabTypeInv
<1>2. child'[c] = [child[c] EXCEPT !.cancelled = @ \/ ChildRunning(c)]
  BY DEF StopCancel
<1>3. childQueue' = childQueue
  BY DEF StopCancel
<1> HIDE DEF ChildRunning
<1> QED BY <1>1, <1>2, <1>3 DEF ChildRecord

-----------------------------------------------------------------------------
(* Children that work exist, and the loop of the main turn *)

LEMMA StepRunsStep ==
  ASSUME CollabTypeInv, StepRuns, [CollabNext]_collabVars
  PROVE  StepRuns'
<1>0. main \in MainRecord
  BY DEF CollabTypeInv
<1> USE DEF MainRecord
<1>1. CASE OtherStep
  <2>1. CASE main' = main
    BY <2>1 DEF StepRuns
  <2>2. CASE BeginMain
    BY <1>0, <2>2 DEF BeginMain, StepRuns, User
  <2>3. CASE CollectMain \/ ModelSpeaks \/ WaitStep
    BY <1>0, <2>3 DEF CollectMain, ModelSpeaks, WaitStep, ListChildren,
                      ReadChildQueue, ChildrenIdle, StepRuns
  <2>4. CASE FinishMain
    BY <1>0, <2>4 DEF FinishMain, StepRuns
  <2>5. CASE CancelMain
    BY <1>0, <2>5 DEF CancelMain, StepRuns
  <2> QED BY <1>1, <2>1, <2>2, <2>3, <2>4, <2>5
          DEF OtherStep, SubmitMain, EditMain, CheckResults, PromoteMain, DrainNothing,
              SetArchived, WakeMain, collabVars
<1>2. CASE StopStore \/ StopCancel
  BY <1>2 DEF StopStore, StopCancel, StepRuns
<1>3. ASSUME NEW c \in Child, ChildStep(c) PROVE StepRuns'
  <2>1. CASE PromoteChild(c)
    BY <1>0, <2>1 DEF PromoteChild, StepRuns
  <2>2. CASE ~PromoteChild(c)
    BY <1>3, <2>2 DEF StepRuns, ChildStep, Dispatch, Send, Reset, CancelChild, SubmitChild,
                      EditChild, RetryChild, FinishChild
  <2> QED BY <2>1, <2>2
<1> QED BY <1>1, <1>2, <1>3, StepCases

LEMMA ChildrenKnownStep ==
  ASSUME CollabTypeInv, ChildrenKnown, StepRuns, [CollabNext]_collabVars
  PROVE  ChildrenKnown'
<1>1. CASE OtherStep
  BY <1>1, OtherKeepsChildren DEF ChildrenKnown
<1>2. CASE StopStore
  BY <1>2 DEF StopStore, AfterStop, ChildrenKnown
<1>3. CASE StopCancel
  BY <1>3, StopCancelKeeps DEF ChildrenKnown
<1>4. ASSUME NEW c \in Child, ChildStep(c) PROVE ChildrenKnown'
  <2>0. child[c] \in ChildRecord /\ childQueue[c] \in Seq(QueueEntry) /\ main.n \in Nat
    BY DEF CollabTypeInv, MainRecord
  <2>1. \A d \in Child \ {c} : child'[d] = child[d] /\ childQueue'[d] = childQueue[d]
    BY <1>4 DEF CollabTypeInv, ChildStep, Dispatch, Send, Reset, CancelChild, SubmitChild,
         EditChild, RetryChild, FinishChild, PromoteChild, Enqueue
  <2>2. child'[c].exists /\ child'[c].from # User
    <3>1. CASE Dispatch(c)
      BY <2>0, <3>1 DEF Dispatch, MayDelegate, StepRuns, CollabTypeInv, ChildRecord
    <3>2. CASE ~Dispatch(c)
      <4>1. child[c].exists
        BY <1>4, <3>2 DEF ChildStep, Send, Reset, CancelChild, SubmitChild, EditChild, RetryChild,
                          FinishChild, PromoteChild, ChildrenKnown, ChildRunning
      <4>2. child'[c].exists = child[c].exists /\ child'[c].from = child[c].from
        <5>1. CASE Reset(c) \/ RetryChild(c)
          BY <2>0, <5>1 DEF CollabTypeInv, ChildRecord, Reset, RetryChild
        <5>2. CASE CancelChild(c)
          BY <2>0, <5>2 DEF CollabTypeInv, ChildRecord, CancelChild
        <5>5. CASE FinishChild(c)
          <6>1. PICK st \in Settled :
                  child' = [child EXCEPT ![c].status = st, ![c].cancelled = FALSE]
            BY <5>5 DEF FinishChild
          <6> QED BY <2>0, <6>1 DEF CollabTypeInv, ChildRecord
        <5>3. CASE PromoteChild(c)
          BY <2>0, <5>3 DEF CollabTypeInv, ChildRecord, PromoteChild
        <5>4. CASE Send(c) \/ SubmitChild(c) \/ EditChild(c)
          BY <5>4 DEF Send, SubmitChild, EditChild
        <5> QED BY <1>4, <3>2, <5>1, <5>2, <5>3, <5>4, <5>5 DEF ChildStep
      <4> QED BY <4>1, <4>2 DEF ChildrenKnown
    <3> QED BY <3>1, <3>2
  <2> QED BY <2>1, <2>2 DEF ChildrenKnown
<1> QED BY <1>1, <1>2, <1>3, <1>4, StepCases

-----------------------------------------------------------------------------
(* Slots *)

LEMMA SlotsStep ==
  ASSUME CollabTypeInv, ChildrenKnown, SlotsBounded, [CollabNext]_collabVars
  PROVE  SlotsBounded'
<1> DEFINE Running == {c \in Child : ChildRunning(c)}
<1> USE CollabAssumption
<1>1. IsFiniteSet(Running) /\ Cardinality(Running) \in Nat
  BY FS_Subset, FS_CardinalityType
<1>2. ASSUME Running' \subseteq Running PROVE SlotsBounded'
  BY <1>1, <1>2, FS_Subset, FS_CardinalityType DEF SlotsBounded
<1>3. ASSUME NEW c \in Child, SlotAvailable(c), Running' \subseteq Running \cup {c}
      PROVE  SlotsBounded'
  <2>1. CASE ChildRunning(c)
    BY <1>2, <1>3, <2>1
  <2>2. CASE ~ChildRunning(c)
    <3>1. Running = {d \in Existing : ChildRunning(d)}
      BY DEF ChildrenKnown, Existing, ChildRunning
    <3>2. Cardinality(Running) < Slots
      BY <1>3, <2>2, <3>1 DEF SlotAvailable
    <3>3. IsFiniteSet(Running \cup {c}) /\ Cardinality(Running \cup {c}) = Cardinality(Running) + 1
      BY <1>1, <2>2, FS_AddElement
    <3>4. Cardinality(Running') <= Cardinality(Running \cup {c}) /\ Cardinality(Running') \in Nat
      BY <1>3, <3>3, FS_Subset, FS_CardinalityType
    <3> QED BY <1>1, <3>2, <3>3, <3>4 DEF SlotsBounded
  <2> QED BY <2>1, <2>2
<1>4. CASE OtherStep
  BY <1>2, <1>4, OtherKeepsChildren DEF ChildRunning
<1>5. CASE StopStore \/ StopCancel
  <2>1. Running' \subseteq Running
    BY <1>5 DEF StopStore, StopCancel, ChildRunning, CollabTypeInv, ChildRecord
  <2> QED BY <1>2, <2>1
<1>6. ASSUME NEW c \in Child, ChildStep(c) PROVE SlotsBounded'
  <2>1. CASE PromoteChild(c) \/ RetryChild(c)
    <3>1. SlotAvailable(c)
      BY <2>1 DEF PromoteChild, RetryChild
    <3>2. \A d \in Child \ {c} : child'[d] = child[d]
      BY <2>1 DEF PromoteChild, RetryChild, CollabTypeInv
    <3>3. Running' \subseteq Running \cup {c}
      BY <3>2 DEF ChildRunning
    <3> QED BY <1>3, <3>1, <3>3
  <2>2. CASE ~(PromoteChild(c) \/ RetryChild(c))
    <3>1. \A d \in Child \ {c} : child'[d] = child[d]
      BY <1>6, <2>2 DEF CollabTypeInv, ChildStep, Dispatch, Send, Reset, CancelChild, SubmitChild,
                        EditChild, FinishChild, Enqueue
    <3>2. child'[c].status = "running" => child[c].status = "running"
      BY <1>6, <2>2 DEF CollabTypeInv, ChildRecord, ChildStep, Dispatch, Send, Reset, CancelChild,
                        SubmitChild, EditChild, FinishChild, Enqueue, Settled
    <3>3. Running' \subseteq Running
      BY <3>1, <3>2 DEF ChildRunning
    <3> QED BY <1>2, <3>3
  <2> QED BY <2>1, <2>2
<1> QED BY <1>4, <1>5, <1>6, StepCases

-----------------------------------------------------------------------------
(* Who asked for what is queued and what runs *)

\* The main turn is where it was; at most something slipped through its look.
MainKept ==
  /\ main'.n = main.n /\ main'.status = main.status /\ main'.step = main.step
  /\ main'.unread = main.unread /\ main.slipped \subseteq main'.slipped

FromQueue(c, by) == \E j \in 1..Len(childQueue[c]) : by = childQueue[c][j].by

\* A step of a child queues only what the main turn may still delegate, or what
\* a person asks for; what it starts was queued or is a person's retry.
LEMMA WhoAsked ==
  ASSUME CollabTypeInv, NEW c \in Child, ChildStep(c)
  PROVE  /\ MainKept /\ barrier' = barrier /\ stopping' = stopping
         /\ \A d \in Child \ {c} : child'[d] = child[d] /\ childQueue'[d] = childQueue[d]
         /\ \A i \in 1..Len(childQueue'[c]) :
              \/ FromQueue(c, childQueue'[c][i].by)
              \/ childQueue'[c][i].by = User
              \/ childQueue'[c][i].by = main.n /\ MayDelegate
         /\ child'[c].status = "running" =>
              \/ child[c].status = "running" /\ child'[c].by = child[c].by
                   /\ (child[c].cancelled => child'[c].cancelled)
              \/ FromQueue(c, child'[c].by)
              \/ child'[c].by = User
<1>0. child[c] \in ChildRecord /\ childQueue[c] \in Seq(QueueEntry) /\ main.n \in Nat
  BY DEF CollabTypeInv, MainRecord
<1>1. MainKept /\ barrier' = barrier /\ stopping' = stopping
  BY SMTT(30) DEF CollabTypeInv, MainRecord, MainKept, ChildStep, Dispatch, Send, Reset, CancelChild,
          SubmitChild, EditChild, RetryChild,
         FinishChild, PromoteChild
<1>2. \A d \in Child \ {c} : child'[d] = child[d] /\ childQueue'[d] = childQueue[d]
  BY DEF CollabTypeInv, ChildStep, Dispatch, Send, Reset, CancelChild, SubmitChild, EditChild,
         RetryChild, FinishChild, PromoteChild, Enqueue
<1>3. ASSUME NEW by \in Nat, Enqueue(c, by), NEW i \in 1..Len(childQueue'[c])
      PROVE  FromQueue(c, childQueue'[c][i].by) \/ childQueue'[c][i].by = by
  <2>1. childQueue'[c] = Append(childQueue[c], [by |-> by, status |-> "queued"])
    BY <1>3 DEF Enqueue, CollabTypeInv
  <2>2. CASE i = Len(childQueue[c]) + 1
    BY <1>0, <2>1, <2>2
  <2>3. CASE i # Len(childQueue[c]) + 1
    <3>1. i \in 1..Len(childQueue[c]) /\ childQueue'[c][i] = childQueue[c][i]
      BY <1>0, <1>3, <2>1, <2>3
    <3> QED BY <3>1 DEF FromQueue
  <2> QED BY <2>2, <2>3
<1>4. ASSUME childQueue[c] # <<>>, childQueue'[c] = Tail(childQueue[c]), NEW i \in 1..Len(childQueue'[c])
      PROVE  FromQueue(c, childQueue'[c][i].by)
  <2>1. i + 1 \in 1..Len(childQueue[c]) /\ childQueue'[c][i] = childQueue[c][i + 1]
    BY <1>0, <1>4
  <2> QED BY <2>1 DEF FromQueue
<1>5. ASSUME NEW i \in 1..Len(childQueue'[c]), childQueue'[c] = childQueue[c]
      PROVE  FromQueue(c, childQueue'[c][i].by)
  BY <1>5 DEF FromQueue
<1>6. ASSUME NEW i \in 1..Len(childQueue'[c])
      PROVE  \/ FromQueue(c, childQueue'[c][i].by)
             \/ childQueue'[c][i].by = User
             \/ childQueue'[c][i].by = main.n /\ MayDelegate
  <2>1. CASE Dispatch(c) \/ Send(c)
    BY <1>0, <1>3, <2>1 DEF Dispatch, Send
  <2>2. CASE SubmitChild(c)
    BY <1>3, <2>2 DEF SubmitChild, User
  <2>3. CASE Reset(c)
    BY <1>0, <1>3, <1>5, <2>3 DEF Reset
  <2>4. CASE CancelChild(c) \/ RetryChild(c) \/ FinishChild(c)
    BY <1>5, <2>4 DEF CancelChild, RetryChild, FinishChild
  <2>5. CASE PromoteChild(c)
    <3>1. childQueue[c] # <<>> /\ childQueue'[c] = Tail(childQueue[c])
      BY <2>5 DEF PromoteChild, CollabTypeInv
    <3> QED BY <1>4, <3>1
  <2>6. CASE EditChild(c)
    <3>1. childQueue[c] # <<>>
      BY <2>6 DEF EditChild
    <3>2. CASE childQueue'[c] = Tail(childQueue[c])
      BY <1>4, <3>1, <3>2
    <3>3. CASE \E st \in {"queued", "editing"} : childQueue'[c] = [childQueue[c] EXCEPT ![1].status = st]
      <4>1. i \in 1..Len(childQueue[c]) /\ childQueue'[c][i].by = childQueue[c][i].by
        BY <1>0, <3>1, <3>3, EditedHead
      <4> QED BY <4>1 DEF FromQueue
    <3>4. \/ childQueue'[c] = Tail(childQueue[c])
          \/ childQueue'[c] = [childQueue[c] EXCEPT ![1].status = "queued"]
          \/ childQueue'[c] = [childQueue[c] EXCEPT ![1].status = "editing"]
      BY <2>6 DEF EditChild, CollabTypeInv
    <3> QED BY <3>2, <3>3, <3>4
  <2> QED BY <2>1, <2>2, <2>3, <2>4, <2>5, <2>6 DEF ChildStep
<1>7. ASSUME child'[c].status = "running"
      PROVE  \/ child[c].status = "running" /\ child'[c].by = child[c].by
                  /\ (child[c].cancelled => child'[c].cancelled)
             \/ FromQueue(c, child'[c].by)
             \/ child'[c].by = User
  <2>1. CASE PromoteChild(c)
    <3>1. child'[c].by = childQueue[c][1].by /\ 1 \in 1..Len(childQueue[c])
      BY <1>0, <2>1 DEF PromoteChild, CollabTypeInv, ChildRecord
    <3> QED BY <3>1 DEF FromQueue
  <2>2. CASE RetryChild(c)
    BY <1>0, <2>2 DEF RetryChild, CollabTypeInv, ChildRecord
  <2>3. CASE Reset(c)
    BY <1>0, <1>7, <2>3 DEF Reset, CollabTypeInv, ChildRecord
  <2>4. CASE FinishChild(c)
    <3>1. PICK st \in Settled : child' = [child EXCEPT ![c].status = st, ![c].cancelled = FALSE]
      BY <2>4 DEF FinishChild
    <3> QED BY <1>0, <1>7, <3>1 DEF CollabTypeInv, ChildRecord, Settled
  <2>5. CASE CancelChild(c)
    BY <1>0, <1>7, <2>5 DEF CancelChild, CollabTypeInv, ChildRecord
  <2>6. CASE Dispatch(c)
    BY <1>0, <1>7, <2>6 DEF Dispatch, CollabTypeInv, ChildRecord
  <2>7. CASE Send(c) \/ SubmitChild(c) \/ EditChild(c)
    BY <1>7, <2>7 DEF Send, SubmitChild, EditChild
  <2> QED BY <2>1, <2>2, <2>3, <2>4, <2>5, <2>6, <2>7 DEF ChildStep
<1> QED BY <1>1, <1>2, <1>6, <1>7

\* Only a promotion starts what was queued.
LEMMA StartedByHand ==
  ASSUME CollabTypeInv, NEW c \in Child, ChildStep(c), ~PromoteChild(c),
         child'[c].status = "running"
  PROVE  (child[c].status = "running" /\ child'[c].by = child[c].by) \/ child'[c].by = User
<1>0. child[c] \in ChildRecord
  BY DEF CollabTypeInv
<1>1. CASE RetryChild(c)
  BY <1>0, <1>1 DEF RetryChild, CollabTypeInv, ChildRecord
<1>2. CASE Reset(c)
  BY <1>0, <1>2 DEF Reset, CollabTypeInv, ChildRecord
<1>3. CASE FinishChild(c)
  <2>1. PICK st \in Settled : child' = [child EXCEPT ![c].status = st, ![c].cancelled = FALSE]
    BY <1>3 DEF FinishChild
  <2> QED BY <1>0, <2>1 DEF CollabTypeInv, ChildRecord, Settled
<1>4. CASE CancelChild(c)
  BY <1>0, <1>4 DEF CancelChild, CollabTypeInv, ChildRecord
<1>5. CASE Dispatch(c)
  BY <1>0, <1>5 DEF Dispatch, CollabTypeInv, ChildRecord
<1>6. CASE Send(c) \/ SubmitChild(c) \/ EditChild(c)
  BY <1>6 DEF Send, SubmitChild, EditChild
<1> QED BY <1>1, <1>2, <1>3, <1>4, <1>5, <1>6 DEF ChildStep

-----------------------------------------------------------------------------
(* The stop *)

LEMMA StopStep ==
  ASSUME CollabTypeInv, QueueUnstopped, StoppedWorkCancelled, StepRuns, [CollabNext]_collabVars
  PROVE  QueueUnstopped' /\ StoppedWorkCancelled'
<1>1. CASE OtherStep
  <2>1. barrier' = barrier /\ (LockFree' => LockFree)
    BY <1>1 DEF OtherStep, SubmitMain, EditMain, CollectMain, ModelSpeaks, WaitStep,
          ListChildren, ReadChildQueue, ChildrenIdle, FinishMain,
          CancelMain, CheckResults, PromoteMain, DrainNothing, SetArchived, WakeMain, collabVars,
          LockFree
  <2> QED BY <1>1, <2>1, OtherKeepsChildren DEF QueueUnstopped, StoppedWorkCancelled, ChildRunning
<1>2. CASE StopStore
  <2>1. ~LockFree'
    BY <1>2 DEF StopStore, LockFree
  <2>2. \A c \in Child : Len(childQueue'[c]) = 0
    BY <1>2 DEF StopStore, AfterStop
  <2> QED BY <2>1, <2>2 DEF QueueUnstopped, StoppedWorkCancelled
<1>3. CASE StopCancel
  <2>1. barrier' = barrier /\ childQueue' = childQueue
    BY <1>3 DEF StopCancel
  <2>2. \A c \in Child : ChildRunning(c)' => child'[c].cancelled
    BY <1>3, StopCancelKeeps DEF ChildRunning
  <2> QED BY <2>1, <2>2 DEF QueueUnstopped, StoppedWorkCancelled
<1>4. ASSUME NEW c \in Child, ChildStep(c) PROVE QueueUnstopped' /\ StoppedWorkCancelled'
  <2>1. User \notin barrier
    BY DEF CollabTypeInv
  <2>2. \A by : FromQueue(c, by) => by \notin barrier
    BY DEF FromQueue, QueueUnstopped
  <2>3. QueueUnstopped'
    <3> SUFFICES ASSUME NEW d \in Child, NEW i \in 1..Len(childQueue'[d])
                 PROVE  childQueue'[d][i].by \notin barrier
      BY <1>4, WhoAsked DEF QueueUnstopped
    <3>1. CASE d = c
      BY <1>4, <2>1, <2>2, <3>1, WhoAsked DEF MayDelegate
    <3>2. CASE d # c
      BY <1>4, <3>2, WhoAsked DEF QueueUnstopped
    <3> QED BY <3>1, <3>2
  <2>4. ASSUME LockFree, NEW d \in Child, child'[d].status = "running", child'[d].by \in barrier
        PROVE  child'[d].cancelled
    <3>1. CASE d = c
      BY <1>4, <2>1, <2>2, <2>4, <3>1, WhoAsked DEF StoppedWorkCancelled, ChildRunning
    <3>2. CASE d # c
      BY <1>4, <2>4, <3>2, WhoAsked DEF StoppedWorkCancelled, ChildRunning
    <3> QED BY <3>1, <3>2
  <2>5. LockFree' = LockFree /\ barrier' = barrier
    BY <1>4, WhoAsked DEF LockFree
  <2> QED BY <2>3, <2>4, <2>5 DEF StoppedWorkCancelled, QueueUnstopped, ChildRunning
<1> QED BY <1>1, <1>2, <1>3, <1>4, StepCases

-----------------------------------------------------------------------------
(* Archived children, and delegated work before the answer *)

LEMMA ArchivedStep ==
  ASSUME CollabTypeInv, ArchivedAtRest, [CollabNext]_collabVars
  PROVE  ArchivedAtRest'
<1>1. CASE OtherStep
  <2>1. \A c \in archived' : c \in archived \/ ArchiveAllowed(c)
    BY <1>1 DEF OtherStep, SubmitMain, EditMain, CollectMain, ModelSpeaks, WaitStep,
          ListChildren, ReadChildQueue, ChildrenIdle, FinishMain,
          CancelMain, CheckResults, PromoteMain, DrainNothing, SetArchived, WakeMain, collabVars
  <2> QED BY <1>1, <2>1, OtherKeepsChildren DEF ArchivedAtRest, ArchiveAllowed, Busy, ChildRunning
<1>2. CASE StopStore
  BY <1>2 DEF StopStore, AfterStop, ArchivedAtRest, Busy, ChildRunning, CollabTypeInv
<1>3. CASE StopCancel
  <2>1. archived' = archived
    BY <1>3 DEF StopCancel
  <2> QED BY <1>3, <2>1, StopCancelKeeps DEF ArchivedAtRest, Busy, ChildRunning, CollabTypeInv
<1>4. ASSUME NEW c \in Child, ChildStep(c) PROVE ArchivedAtRest'
  <2>0. child[c] \in ChildRecord
    BY DEF CollabTypeInv
  <2>1. archived' \subseteq archived /\ archived' \subseteq Child
    BY <1>4 DEF CollabTypeInv, ChildStep, Dispatch, Send, Reset, CancelChild, SubmitChild,
          EditChild,
                RetryChild, FinishChild, PromoteChild, Enqueue
  <2>2. ASSUME c \in archived' PROVE ~Busy(c)'
    <3>1. childQueue[c] = <<>> /\ child[c].status # "running"
      BY <2>1, <2>2 DEF ArchivedAtRest, Busy, ChildRunning
    <3>2. CASE Reset(c)
      BY <2>0, <2>2, <3>1, <3>2 DEF Reset, Enqueue, Busy, ChildRunning, CollabTypeInv, ChildRecord
    <3>3. ~Dispatch(c) /\ ~Send(c) /\ ~SubmitChild(c) /\ ~RetryChild(c)
      BY <2>2 DEF Dispatch, Send, SubmitChild, RetryChild, Enqueue
    <3>4. ~EditChild(c) /\ ~PromoteChild(c) /\ ~CancelChild(c) /\ ~FinishChild(c)
      BY <3>1 DEF EditChild, PromoteChild, CancelChild, FinishChild, ChildRunning
    <3> QED BY <1>4, <3>2, <3>3, <3>4 DEF ChildStep
  <2>3. ASSUME NEW d \in archived', d # c PROVE ~Busy(d)'
    BY <1>4, <2>1, <2>3, WhoAsked DEF ArchivedAtRest, Busy, ChildRunning
  <2> QED BY <2>2, <2>3 DEF ArchivedAtRest
<1> QED BY <1>1, <1>2, <1>3, <1>4, StepCases

\* A main conversation begins to answer only at the end of its wait.
LEMMA AnsweringStep ==
  ASSUME CollabTypeInv, OtherStep, Answering', ~Answering
  PROVE  ChildrenIdle
<1> USE DEF MainRecord
<1>0. main \in MainRecord
  BY DEF CollabTypeInv
<1>1. ~BeginMain
  BY DEF BeginMain, Answering
<1>2. ~CollectMain
  BY <1>0 DEF CollectMain, Answering
<1>3. ~ModelSpeaks
  BY <1>0 DEF ModelSpeaks, Answering
<1>4. ~FinishMain
  BY <1>0 DEF FinishMain, Answering
<1>5. ~CancelMain
  BY <1>0 DEF CancelMain, Answering
<1>6. ~ListChildren /\ \A c \in Child : ~ReadChildQueue(c)
  BY <1>0 DEF ListChildren, ReadChildQueue, Answering
<1>7. main' # main
  BY DEF Answering
<1> QED BY <1>1, <1>2, <1>3, <1>4, <1>5, <1>6, <1>7
        DEF OtherStep, WaitStep, SubmitMain, EditMain, CheckResults, PromoteMain, DrainNothing,
            SetArchived, WakeMain, collabVars

\* Nothing but the look itself changes what it has found, or forgets what
\* slipped through it before the main conversation goes on.
LEMMA LookKept ==
  ASSUME CollabTypeInv, OtherStep, ~WaitStep
  PROVE  /\ main'.step = "look" => main.step = "look" /\ main'.unread = main.unread
         /\ main'.step = "look" \/ Answering' => main'.slipped = main.slipped
<1> USE DEF MainRecord
<1>0. main \in MainRecord
  BY DEF CollabTypeInv
<1>1. CASE main' = main
  BY <1>1
<1>2. CASE BeginMain
  BY <1>2 DEF BeginMain, Answering
<1>3. CASE CollectMain
  BY <1>0, <1>3 DEF CollectMain
<1>4. CASE ModelSpeaks
  BY <1>0, <1>4 DEF ModelSpeaks
<1>5. CASE FinishMain
  BY <1>0, <1>5 DEF FinishMain
<1>6. CASE CancelMain
  BY <1>0, <1>6 DEF CancelMain
<1> QED BY <1>1, <1>2, <1>3, <1>4, <1>5, <1>6
        DEF OtherStep, SubmitMain, EditMain, CheckResults, PromoteMain, DrainNothing,
            SetArchived, WakeMain, collabVars

LEMMA DelegatedWait ==
  ASSUME CollabTypeInv, ChildrenKnown, StepRuns, LookHolds, WaitStep, UNCHANGED <<child, childQueue>>
  PROVE  LookHolds' /\ DelegatedWorkFirst'
<1> USE DEF MainRecord
<1>0. main \in MainRecord
  BY DEF CollabTypeInv
<1>1. CASE ListChildren
  <2>1. \A c \in Child : ~ChildRunning(c)
    BY <1>1 DEF ListChildren, Existing, ChildrenKnown, ChildRunning
  <2>2. main'.step = "look" /\ main'.unread = Existing /\ main'.status = "running"
    BY <1>0, <1>1 DEF ListChildren, StepRuns
  <2>3. \A c \in Child : c \notin Existing => childQueue[c] = <<>>
    BY DEF ChildrenKnown, Existing
  <2> QED BY <2>1, <2>2, <2>3 DEF LookHolds, DelegatedWorkFirst, ChildRunning
<1>2. ASSUME NEW c \in Child, ReadChildQueue(c) PROVE LookHolds' /\ DelegatedWorkFirst'
  <2>1. main'.status = "running" /\ main'.step \in {"wait", "look"}
    BY <1>0, <1>2 DEF ReadChildQueue, StepRuns
  <2>2. ASSUME main'.step = "look"
        PROVE  /\ main'.unread = main.unread \ {c} /\ main'.slipped = main.slipped
               /\ main.step = "look" /\ childQueue[c] = <<>>
    BY <1>0, <1>2, <2>2 DEF ReadChildQueue, HasQueued
  <2> QED BY <2>1, <2>2 DEF LookHolds, DelegatedWorkFirst, ChildRunning
<1>3. CASE ChildrenIdle
  <2>1. /\ main.step = "look" /\ main.unread = {} /\ main'.step = "settle"
        /\ main'.slipped = main.slipped
    BY <1>0, <1>3 DEF ChildrenIdle
  <2> QED BY <2>1 DEF LookHolds, DelegatedWorkFirst, ChildRunning
<1> QED BY <1>1, <1>2, <1>3 DEF WaitStep

LEMMA DelegatedStep ==
  ASSUME CollabTypeInv, ChildrenKnown, StepRuns, LookHolds, DelegatedWorkFirst,
         [CollabNext]_collabVars
  PROVE  LookHolds' /\ DelegatedWorkFirst'
<1>1. CASE OtherStep
  <2>1. CASE WaitStep
    BY <1>1, <2>1, OtherKeepsChildren, DelegatedWait
  <2>2. CASE ~WaitStep
    <3>1. Answering' => Answering
      BY <1>1, <2>2, AnsweringStep DEF WaitStep
    <3>2. UNCHANGED <<child, childQueue>>
      BY <1>1, OtherKeepsChildren
    <3>3. LookHolds'
      BY <1>1, <2>2, <3>2, LookKept DEF LookHolds, ChildRunning
    <3>4. DelegatedWorkFirst'
      BY <1>1, <2>2, <3>1, <3>2, LookKept DEF DelegatedWorkFirst, ChildRunning, Answering
    <3> QED BY <3>3, <3>4
  <2> QED BY <2>1, <2>2
<1>2. CASE StopStore
  BY <1>2 DEF StopStore, AfterStop, LookHolds, DelegatedWorkFirst, ChildRunning
<1>3. CASE StopCancel
  <2>1. main' = main /\ childQueue' = childQueue
    BY <1>3 DEF StopCancel
  <2> QED BY <1>3, <2>1, StopCancelKeeps DEF LookHolds, DelegatedWorkFirst, ChildRunning
<1>4. ASSUME NEW c \in Child, ChildStep(c), Answering PROVE DelegatedWorkFirst'
  <2>1. ~MayDelegate
    BY <1>4 DEF MayDelegate, Answering, StepRuns
  <2>2. \A by : c \notin main.slipped /\ FromQueue(c, by) => by = User
    BY <1>4 DEF FromQueue, DelegatedWorkFirst, Answering
  <2>3. ASSUME NEW d \in Child \ main'.slipped
        PROVE  /\ child'[d].status = "running" => child'[d].by = User
               /\ \A i \in 1..Len(childQueue'[d]) : childQueue'[d][i].by = User
    <3>0. d \in Child \ main.slipped
      BY <1>4, WhoAsked DEF MainKept
    <3>1. CASE d = c
      BY <1>4, <2>1, <2>2, <3>0, <3>1, WhoAsked DEF DelegatedWorkFirst, Answering, ChildRunning
    <3>2. CASE d # c
      BY <1>4, <3>0, <3>2, WhoAsked DEF DelegatedWorkFirst, Answering, ChildRunning
    <3> QED BY <3>1, <3>2
  <2> QED BY <2>3 DEF DelegatedWorkFirst, ChildRunning
<1>5. ASSUME NEW c \in Child, ChildStep(c), main.step = "look" PROVE LookHolds'
  <2>1. ~MayDelegate
    BY <1>5 DEF MayDelegate
  <2>2. \A by : c \notin main.slipped \cup main.unread /\ FromQueue(c, by) => by = User
    BY <1>5 DEF FromQueue, LookHolds
  <2>3. main'.step = "look" /\ main'.unread = main.unread /\ main.slipped \subseteq main'.slipped
    BY <1>5, WhoAsked DEF MainKept
  <2>4. ASSUME NEW d \in Child \ main'.slipped
        PROVE  /\ child'[d].status = "running" => child'[d].by = User
               /\ d \notin main.unread => \A i \in 1..Len(childQueue'[d]) : childQueue'[d][i].by = User
    <3>0. d \in Child \ main.slipped
      BY <2>3
    <3>1. CASE d = c /\ c \notin main.unread
      BY <1>5, <2>1, <2>2, <3>0, <3>1, WhoAsked DEF LookHolds, ChildRunning
    <3>2. CASE d = c /\ c \in main.unread
      <4>1. ~PromoteChild(c)
        BY <2>4, <3>2 DEF PromoteChild, CollabTypeInv, MainRecord
      <4>2. child'[c].status = "running" =>
              (child[c].status = "running" /\ child'[c].by = child[c].by) \/ child'[c].by = User
        BY <1>5, <4>1, StartedByHand
      <4>3. child'[c].status = "running" => child'[c].by = User
        BY <1>5, <3>0, <3>2, <4>2 DEF LookHolds, ChildRunning
      <4> QED BY <3>2, <4>3
    <3>3. CASE d # c
      BY <1>5, <3>0, <3>3, WhoAsked DEF LookHolds, ChildRunning
    <3> QED BY <3>1, <3>2, <3>3
  <2> QED BY <2>3, <2>4 DEF LookHolds, ChildRunning
<1>6. ASSUME NEW c \in Child, ChildStep(c) PROVE LookHolds' /\ DelegatedWorkFirst'
  <2>1. (Answering' <=> Answering) /\ main'.step = main.step
    BY <1>6, WhoAsked DEF Answering, MainKept
  <2>2. LookHolds'
    BY <1>5, <1>6, <2>1 DEF LookHolds
  <2>3. DelegatedWorkFirst'
    BY <1>4, <1>6, <2>1 DEF DelegatedWorkFirst, Answering
  <2> QED BY <2>2, <2>3
<1> QED BY <1>1, <1>2, <1>3, <1>6, StepCases

-----------------------------------------------------------------------------
(* Wake-ups *)

\* What a step of a child does to its latest turn.
LEMMA LatestTurn ==
  ASSUME CollabTypeInv, NEW c \in Child, ChildStep(c)
  PROVE  /\ receipts' = receipts /\ wakes' = wakes /\ versions' = versions
         /\ missed => missed'
         /\ checks => checks'
         /\ \/ child'[c].n = child[c].n + 1 /\ (child'[c].status = "running" \/ child'[c].reset)
            \/ FinishChild(c) /\ child'[c].n = child[c].n /\ (checks' \/ missed')
            \/ /\ child'[c].n = child[c].n
               /\ child'[c].status = child[c].status
               /\ c \in Uncollected' => c \in Uncollected \/ missed'
<1>0. child[c] \in ChildRecord /\ childQueue[c] \in Seq(QueueEntry)
  BY DEF CollabTypeInv
<1>1. /\ receipts' = receipts /\ wakes' = wakes /\ versions' = versions
      /\ missed => missed'
      /\ checks => checks'
  <2>1. receipts' = receipts /\ wakes' = wakes /\ versions' = versions
    BY DEF ChildStep, Dispatch, Send, Reset, CancelChild, SubmitChild, EditChild, RetryChild,
           FinishChild, PromoteChild
  <2>2. missed => missed'
    <3>1. CASE EditChild(c)
      <4>1. missed' = missed \/ missed' = (missed \/ (Resurfaces(c) /\ Len(childQueue[c]) = 1))
        BY <3>1 DEF EditChild
      <4> QED BY <4>1
    <3>2. CASE FinishChild(c)
      <4>1. PICK st \in Settled : missed' = (missed \/ st = "cancelled")
        BY <3>2 DEF FinishChild
      <4> QED BY <4>1
    <3>3. CASE ~EditChild(c) /\ ~FinishChild(c)
      BY <3>3 DEF ChildStep, Dispatch, Send, Reset, CancelChild, SubmitChild, RetryChild,
          PromoteChild
    <3> QED BY <3>1, <3>2, <3>3
  <2>3. checks => checks'
    <3>2. CASE FinishChild(c)
      <4>1. PICK st \in Settled : checks' = (checks \/ st # "cancelled")
        BY <3>2 DEF FinishChild
      <4> QED BY <4>1
    <3>3. CASE ~FinishChild(c)
      BY <3>3 DEF ChildStep, Dispatch, Send, Reset, CancelChild, SubmitChild, EditChild, RetryChild,
                  PromoteChild
    <3> QED BY <3>2, <3>3
  <2> QED BY <2>1, <2>2, <2>3
<1>2. CASE Reset(c) \/ RetryChild(c)
  BY <1>0, <1>1, <1>2 DEF Reset, RetryChild, CollabTypeInv, ChildRecord
<1>3. CASE PromoteChild(c)
  BY <1>0, <1>1, <1>3 DEF PromoteChild, CollabTypeInv, ChildRecord
<1>4. CASE FinishChild(c)
  <2>1. PICK st \in Settled :
          /\ child' = [child EXCEPT ![c].status = st, ![c].cancelled = FALSE]
          /\ checks' = (checks \/ st # "cancelled")
          /\ missed' = (missed \/ st = "cancelled")
    BY <1>4 DEF FinishChild
  <2> QED BY <1>0, <1>1, <1>4, <2>1 DEF CollabTypeInv, ChildRecord
<1>5. ASSUME childQueue'[c] # <<>>, child'[c].n = child[c].n, child'[c].status = child[c].status
      PROVE  /\ child'[c].n = child[c].n
             /\ child'[c].status = child[c].status
             /\ c \in Uncollected' => c \in Uncollected \/ missed'
  BY <1>5 DEF Uncollected
<1>6. ASSUME NEW by \in Nat, Enqueue(c, by) PROVE childQueue'[c] # <<>>
  BY <1>0, <1>6 DEF Enqueue, CollabTypeInv
<1>7. CASE Dispatch(c)
  <2>1. child'[c].n = child[c].n /\ child'[c].status = child[c].status
    BY <1>0, <1>7 DEF Dispatch, CollabTypeInv, ChildRecord
  <2>2. childQueue'[c] # <<>>
    BY <1>6, <1>7 DEF Dispatch, CollabTypeInv, MainRecord
  <2> QED BY <1>1, <1>5, <2>1, <2>2
<1>8. CASE Send(c) \/ SubmitChild(c)
  <2>1. child' = child /\ childQueue'[c] # <<>>
    BY <1>6, <1>8 DEF Send, SubmitChild, CollabTypeInv, MainRecord, User
  <2> QED BY <1>1, <1>5, <2>1
<1>9. CASE CancelChild(c)
  <2>1. /\ child'[c].n = child[c].n /\ child'[c].status = child[c].status
        /\ child'[c].reset = child[c].reset /\ child'[c].exists = child[c].exists
        /\ childQueue' = childQueue
    BY <1>0, <1>9 DEF CancelChild, CollabTypeInv, ChildRecord
  <2> QED BY <1>1, <2>1 DEF Uncollected, Existing
<1>10. CASE EditChild(c)
  <2>1. child' = child /\ childQueue[c] # <<>>
    BY <1>10 DEF EditChild
  <2>2. ASSUME c \in Uncollected' PROVE missed'
    <3>1. childQueue'[c] = <<>>
      BY <2>2 DEF Uncollected
    <3>2. \A st \in {"queued", "editing"} : [childQueue[c] EXCEPT ![1].status = st] # <<>>
      BY <1>0, <2>1, EditedHead
    <3>3. childQueue'[c] = Tail(childQueue[c])
          /\ missed' = (missed \/ (Resurfaces(c) /\ Len(childQueue[c]) = 1))
      BY <1>10, <3>1, <3>2 DEF EditChild, CollabTypeInv
    <3>4. Len(childQueue[c]) = 1
      <4>1. Len(Tail(childQueue[c])) = Len(childQueue[c]) - 1 /\ Len(childQueue[c]) \in Nat
        BY <1>0, <2>1
      <4>2. Tail(childQueue[c]) = <<>>
        BY <3>1, <3>3
      <4>3. Len(Tail(childQueue[c])) = 0
        <5>1. Len(<<>>) = 0
          OBVIOUS
        <5> QED BY <4>2, <5>1, Zenon
      <4> QED BY <4>1, <4>3
    <3>5. Resurfaces(c)
      BY <1>1, <2>1, <2>2 DEF Uncollected, Existing, Resurfaces
    <3> QED BY <3>3, <3>4, <3>5
  <2> QED BY <1>1, <2>1, <2>2
<1> QED BY <1>2, <1>3, <1>4, <1>7, <1>8, <1>9, <1>10 DEF ChildStep

LEMMA StopKeepsResults ==
  ASSUME CollabTypeInv, StopStore \/ StopCancel
  PROVE  /\ main' = main /\ wakes' = wakes /\ versions' = versions /\ checks' = checks
         /\ Version' = Version /\ (missed => missed')
         /\ \A c \in Child : child'[c].status = child[c].status
         /\ Uncollected' \subseteq Uncollected \/ missed'
<1>1. CASE StopStore
  <2>1. \A c \in Child : c \in Uncollected' => c \in Uncollected \/ Resurfaces(c)
    BY <1>1 DEF StopStore, Uncollected, Existing, Resurfaces
  <2>2. Uncollected' \subseteq Child
    BY DEF Uncollected, Existing
  <2> QED BY <1>1, <2>1, <2>2 DEF StopStore, Version
<1>2. CASE StopCancel
  <2>1. /\ main' = main /\ wakes' = wakes /\ versions' = versions /\ checks' = checks
        /\ receipts' = receipts /\ missed' = missed
    BY <1>2 DEF StopCancel
  <2>2. Version' = Version
    BY <1>2, StopCancelKeeps DEF Version
  <2>3. Uncollected' \subseteq Uncollected
    BY <1>2, <2>1, StopCancelKeeps DEF Uncollected, Existing
  <2> QED BY <1>2, <2>1, <2>2, <2>3, StopCancelKeeps
<1> QED BY <1>1, <1>2

\* A turn that begins is in no wake-up yet.
LEMMA NewTurnUnknown ==
  ASSUME CollabTypeInv, WakesPast, NEW c \in Child, ChildStep(c), child'[c].n = child[c].n + 1
  PROVE  Version' \notin versions'
<1>1. Version'[c] = child[c].n + 1 /\ child[c].n \in Nat
  BY DEF Version, CollabTypeInv, ChildRecord
<1>2. \A v \in versions : v[c] <= child[c].n
  BY DEF WakesPast
<1>3. versions' = versions
  BY LatestTurn
<1> QED BY <1>1, <1>2, <1>3

LEMMA SameVersion ==
  ASSUME CollabTypeInv, NEW c \in Child, ChildStep(c), child'[c].n = child[c].n
  PROVE  Version' = Version
BY WhoAsked DEF Version

LEMMA WakesPastStep ==
  ASSUME CollabTypeInv, WakesPast, [CollabNext]_collabVars
  PROVE  WakesPast'
<1>0. \A c \in Child : child[c].n \in Nat
  BY DEF CollabTypeInv, ChildRecord
<1>1. CASE OtherStep
  <2>1. wakes' \cup versions' \subseteq wakes \cup versions \cup {Version}
    BY <1>1 DEF OtherStep, SubmitMain, EditMain, CollectMain, ModelSpeaks, WaitStep,
          ListChildren, ReadChildQueue, ChildrenIdle, FinishMain,
          CancelMain, CheckResults, PromoteMain, DrainNothing, SetArchived, WakeMain, collabVars
  <2>2. Version \in [Child -> Nat] /\ \A c \in Child : Version[c] <= child[c].n
    BY <1>0 DEF Version
  <2> QED BY <1>1, <2>1, <2>2, OtherKeepsChildren DEF WakesPast
<1>2. CASE StopStore \/ StopCancel
  <2>1. \A c \in Child : child'[c].n = child[c].n
    BY <1>2, StopCancelKeeps DEF StopStore
  <2> QED BY <1>2, <2>1, StopKeepsResults DEF WakesPast
<1>3. ASSUME NEW c \in Child, ChildStep(c) PROVE WakesPast'
  <2>1. child'[c].n = child[c].n \/ child'[c].n = child[c].n + 1
    BY <1>3, LatestTurn
  <2>2. \A d \in Child \ {c} : child'[d].n = child[d].n
    BY <1>3, WhoAsked
  <2>3. wakes' = wakes /\ versions' = versions
    BY <1>3, LatestTurn
  <2> SUFFICES ASSUME NEW v \in wakes \cup versions, NEW d \in Child PROVE v[d] <= child'[d].n
    BY <2>3 DEF WakesPast
  <2>4. v[d] \in Nat /\ child[d].n \in Nat /\ v[d] <= child[d].n
    BY <1>0 DEF WakesPast
  <2>5. CASE d = c /\ child'[c].n = child[c].n + 1
    BY <2>4, <2>5
  <2> QED BY <2>1, <2>2, <2>4, <2>5
<1> QED BY <1>1, <1>2, <1>3, StepCases

LEMMA AbsorbedStep ==
  ASSUME CollabTypeInv, ChildrenKnown, WakesPast, AbsorbedAtRest, [CollabNext]_collabVars
  PROVE  AbsorbedAtRest'
<1>1. CASE OtherStep
  <2>0. Version' = Version
    BY <1>1, OtherKeepsChildren DEF Version
  <2>1. CASE WaitStep
    <3>1. CASE ListChildren
      <4>1. \A c \in Child : ~ChildRunning(c)
        BY <3>1 DEF ListChildren, Existing, ChildrenKnown, ChildRunning
      <4> QED BY <1>1, <4>1, OtherKeepsChildren DEF AbsorbedAtRest, ChildRunning
    <3>2. CASE ~ListChildren
      <4>1. main.step = "look" /\ versions' = versions
        BY <2>1, <3>2 DEF WaitStep, ReadChildQueue, ChildrenIdle
      <4> QED BY <1>1, <2>0, <4>1, OtherKeepsChildren DEF AbsorbedAtRest, ChildRunning
    <3> QED BY <3>1, <3>2
  <2>2. CASE BeginMain
    BY <2>2 DEF BeginMain, AbsorbedAtRest, Answering
  <2>3. CASE ~WaitStep /\ ~BeginMain
    <3>1. /\ Answering' => Answering
          /\ main'.step = "look" => main.step = "look"
      BY <1>1, <2>3, AnsweringStep, LookKept DEF WaitStep
    <3>2. versions' = versions
      BY <1>1, <2>3 DEF OtherStep, SubmitMain, EditMain, CollectMain, ModelSpeaks, FinishMain,
            CancelMain, CheckResults, PromoteMain, DrainNothing, SetArchived, WakeMain, collabVars
    <3> QED BY <1>1, <2>0, <3>1, <3>2, OtherKeepsChildren DEF AbsorbedAtRest, ChildRunning
  <2> QED BY <2>1, <2>2, <2>3
<1>2. CASE StopStore \/ StopCancel
  <2>1. /\ main' = main /\ versions' = versions /\ Version' = Version
        /\ \A c \in Child : child'[c].status = child[c].status
    BY <1>2, StopKeepsResults
  <2> QED BY <2>1 DEF AbsorbedAtRest, Answering, ChildRunning
<1>3. ASSUME NEW c \in Child, ChildStep(c) PROVE AbsorbedAtRest'
  <2>1. CASE child'[c].n = child[c].n + 1
    BY <1>3, <2>1, NewTurnUnknown DEF AbsorbedAtRest
  <2>2. CASE child'[c].n = child[c].n
    <3>1. /\ Version' = Version /\ versions' = versions
          /\ (Answering \/ main.step = "look")' <=> (Answering \/ main.step = "look")
      BY <1>3, <2>2, SameVersion, LatestTurn, WhoAsked DEF Answering, MainKept
    <3>2. ASSUME Answering \/ main.step = "look", Version \in versions PROVE \A d \in Child : child'[d].status # "running"
      <4>1. \A d \in Child : child[d].status # "running"
        BY <3>2 DEF AbsorbedAtRest, ChildRunning
      <4>2. ~FinishChild(c)
        BY <4>1 DEF FinishChild, ChildRunning
      <4>3. child'[c].status = child[c].status
        <5>1. child[c].n \in Nat
          BY DEF CollabTypeInv, ChildRecord
        <5> QED BY <1>3, <2>2, <4>2, <5>1, LatestTurn
      <4> QED BY <1>3, <4>1, <4>3, WhoAsked
    <3> QED BY <3>1, <3>2 DEF AbsorbedAtRest, ChildRunning
  <2> QED BY <1>3, <2>1, <2>2, LatestTurn
<1> QED BY <1>1, <1>2, <1>3, StepCases

\* A step of a child uncovers no result, unless it says so or its turn ends.
LEMMA NoNewResult ==
  ASSUME CollabTypeInv, NEW c \in Child, ChildStep(c), ~FinishChild(c), ~missed'
  PROVE  Uncollected' \subseteq Uncollected
<1>0. receipts' = receipts
      /\ \A d \in Child \ {c} : child'[d] = child[d] /\ childQueue'[d] = childQueue[d]
  BY WhoAsked, LatestTurn
<1>1. \A d \in Child \ {c} : d \in Uncollected' => d \in Uncollected
  BY <1>0 DEF Uncollected, Existing
<1>2. c \in Uncollected' => c \in Uncollected
  <2>1. CASE child'[c].status = "running" \/ child'[c].reset
    BY <2>1 DEF Uncollected, Settled
  <2>2. CASE ~(child'[c].status = "running" \/ child'[c].reset)
    BY <2>2, LatestTurn
  <2> QED BY <2>1, <2>2
<1> QED BY <1>1, <1>2 DEF Uncollected, Existing

\* Until its next turn the main conversation remembers what was missed.
LEMMA MissedStays ==
  ASSUME OtherStep, ~BeginMain
  PROVE  missed => missed'
<1>1. CASE \E v \in wakes : WakeMain(v)
  <2>1. PICK v \in wakes : WakeMain(v)
    BY <1>1
  <2>2. missed' = (missed \/ (mainInput # "none" /\ ~MainRunning))
    BY <2>1 DEF WakeMain
  <2> QED BY <2>2
<1>2. CASE ~ \E v \in wakes : WakeMain(v)
  BY <1>2 DEF OtherStep, SubmitMain, EditMain, CollectMain, ModelSpeaks, WaitStep, ListChildren,
          ReadChildQueue, ChildrenIdle, FinishMain,
        CancelMain, CheckResults, PromoteMain, DrainNothing, SetArchived, collabVars
<1> QED BY <1>1, <1>2

LEMMA AbsorbedSeenStep ==
  ASSUME CollabTypeInv, StepRuns, WakesPast, AbsorbedAtRest, AbsorbedSeen, [CollabNext]_collabVars
  PROVE  AbsorbedSeen'
<1>0. main \in MainRecord
  BY DEF CollabTypeInv
<1> USE DEF MainRecord
<1>1. CASE OtherStep
  <2>0. Version' = Version
    BY <1>1, OtherKeepsChildren DEF Version
  <2>1. CASE BeginMain
    BY <2>1 DEF BeginMain, AbsorbedSeen, Answered
  <2>2. CASE CollectMain
    <3>1. CASE main.step = "settle" /\ Uncollected = {}
      <4>1. receipts' = receipts
        BY <2>2, <3>1 DEF CollectMain
      <4>2. Uncollected' = {}
        BY <1>1, <3>1, <4>1, OtherKeepsChildren DEF Uncollected, Existing
      <4> QED BY <4>2 DEF AbsorbedSeen
    <3>2. CASE ~(main.step = "settle" /\ Uncollected = {})
      <4>1. ~Answered'
        BY <1>0, <2>2, <3>2 DEF CollectMain, Answered, StepRuns
      <4> QED BY <4>1 DEF AbsorbedSeen
    <3> QED BY <3>1, <3>2
  <2>3. CASE ~BeginMain /\ ~CollectMain
    <3>1. receipts' = receipts /\ versions' = versions /\ (missed => missed')
      <4>1. receipts' = receipts /\ versions' = versions
        BY <1>1, <2>3 DEF OtherStep, SubmitMain, EditMain, ModelSpeaks, WaitStep, ListChildren,
          ReadChildQueue, ChildrenIdle, FinishMain,
              CancelMain, CheckResults, PromoteMain, DrainNothing, SetArchived, WakeMain, collabVars
      <4> QED BY <1>1, <2>3, <4>1, MissedStays
    <3>2. Uncollected' = Uncollected
      BY <1>1, <3>1, OtherKeepsChildren DEF Uncollected, Existing
    <3>3. Answered' => Answered
      <4>1. CASE main' = main
        BY <4>1 DEF Answered
      <4>2. CASE ModelSpeaks
        BY <1>0, <4>2 DEF ModelSpeaks, Answered, StepRuns
      <4>3. CASE WaitStep
        BY <1>0, <4>3 DEF WaitStep, ListChildren, ReadChildQueue, ChildrenIdle, Answered, StepRuns
      <4>4. CASE FinishMain
        BY <1>0, <4>4 DEF FinishMain, Answered
      <4>5. CASE CancelMain
        BY <1>0, <4>5 DEF CancelMain, Answered
      <4> QED BY <1>1, <2>3, <4>1, <4>2, <4>3, <4>4, <4>5
              DEF OtherStep, SubmitMain, EditMain, CheckResults, PromoteMain, DrainNothing,
                  SetArchived, WakeMain, collabVars
    <3> QED BY <2>0, <3>1, <3>2, <3>3 DEF AbsorbedSeen
  <2> QED BY <2>1, <2>2, <2>3
<1>2. CASE StopStore \/ StopCancel
  <2>1. /\ main' = main /\ versions' = versions /\ Version' = Version /\ (missed => missed')
        /\ Uncollected' \subseteq Uncollected \/ missed'
    BY <1>2, StopKeepsResults
  <2> QED BY <2>1 DEF AbsorbedSeen, Answered
<1>3. ASSUME NEW c \in Child, ChildStep(c) PROVE AbsorbedSeen'
  <2>1. CASE child'[c].n = child[c].n + 1
    BY <1>3, <2>1, NewTurnUnknown DEF AbsorbedSeen
  <2>2. CASE child'[c].n = child[c].n
    <3>1. /\ Version' = Version /\ versions' = versions /\ Answered' = Answered
          /\ missed => missed'
      BY <1>3, <2>2, SameVersion, LatestTurn, WhoAsked DEF Answered, MainKept
    <3>2. ASSUME Answered, Version \in versions, ~missed' PROVE Uncollected' = {}
      <4>1. ~FinishChild(c)
        BY <3>2 DEF AbsorbedAtRest, Answering, Answered, FinishChild
      <4>2. Uncollected' \subseteq Uncollected
        BY <1>3, <3>2, <4>1, NoNewResult
      <4> QED BY <3>1, <3>2, <4>2 DEF AbsorbedSeen
    <3> QED BY <3>1, <3>2 DEF AbsorbedSeen
  <2> QED BY <1>3, <2>1, <2>2, LatestTurn
<1> QED BY <1>1, <1>2, <1>3, StepCases

LEMMA ReportStep ==
  ASSUME CollabTypeInv, StepRuns, AbsorbedSeen, ReportPending, [CollabNext]_collabVars
  PROVE  ReportPending'
<1>0. main \in MainRecord
  BY DEF CollabTypeInv
<1> USE DEF MainRecord
<1>1. CASE OtherStep
  <2>1. CASE BeginMain
    BY <2>1 DEF BeginMain, ReportPending
  <2>2. CASE FinishMain
    <3>1. PICK st \in Settled : /\ main' = [main EXCEPT !.status = st, !.step = "idle", !.cancelled = FALSE,
                                                !.unread = {}]
                               /\ checks' = (checks \/ ReportsAfterMain(st))
      BY <2>2 DEF FinishMain
    <3> QED BY <1>0, <3>1 DEF ReportPending, ReportsAfterMain
  <2>3. CASE CollectMain \/ ModelSpeaks \/ WaitStep
    <3>1. main'.status # "completed"
      BY <1>0, <2>3 DEF CollectMain, ModelSpeaks, WaitStep, ListChildren,
                      ReadChildQueue, ChildrenIdle, StepRuns
    <3> QED BY <3>1 DEF ReportPending
  <2>4. CASE ~BeginMain /\ ~FinishMain /\ ~CollectMain /\ ~ModelSpeaks /\ ~WaitStep
    <3>1. receipts' = receipts /\ (missed => missed') /\ versions' = versions
      <4>1. receipts' = receipts /\ versions' = versions
        BY <1>1, <2>4 DEF OtherStep, SubmitMain, EditMain, CancelMain, CheckResults, PromoteMain,
              DrainNothing, SetArchived, WakeMain, collabVars
      <4> QED BY <1>1, <2>4, <4>1, MissedStays
    <3>2. Uncollected' = Uncollected
      BY <1>1, <3>1, OtherKeepsChildren DEF Uncollected, Existing
    <3>3. main'.status = main.status
      BY <1>0, <1>1, <2>4 DEF OtherStep, SubmitMain, EditMain, CancelMain, CheckResults,
          PromoteMain,
            DrainNothing, SetArchived, WakeMain, collabVars
    <3> SUFFICES ASSUME main.status = "completed", ~missed', Uncollected # {}
                 PROVE  checks' \/ \E v \in wakes' : v \notin versions
      BY <3>1, <3>2, <3>3 DEF ReportPending
    <3>4. CASE CheckResults
      <4>1. Version \notin versions
        BY <3>1 DEF AbsorbedSeen, Answered
      <4>2. Version \in wakes'
        BY <3>4 DEF CheckResults
      <4> QED BY <4>1, <4>2
    <3>5. CASE \E v \in wakes : WakeMain(v)
      <4>1. PICK v \in wakes : WakeMain(v)
        BY <3>5
      <4>2. wakes' = wakes \ {v} /\ checks' = checks /\ WakeRefused(v)
            /\ missed' = (missed \/ (mainInput # "none" /\ ~MainRunning))
        BY <2>4, <4>1 DEF WakeMain
      <4>3. v \in versions
        BY <4>2 DEF WakeRefused, MainRunning
      <4>4. checks \/ \E u \in wakes : u \notin versions
        BY <3>1 DEF ReportPending
      <4> QED BY <4>2, <4>3, <4>4
    <3>6. CASE ~CheckResults /\ ~ \E v \in wakes : WakeMain(v)
      <4>1. wakes' = wakes /\ checks' = checks
        BY <1>1, <2>4, <3>6 DEF OtherStep, SubmitMain, EditMain, CancelMain, PromoteMain,
              DrainNothing, SetArchived, collabVars
      <4> QED BY <3>1, <4>1 DEF ReportPending
    <3> QED BY <3>4, <3>5, <3>6
  <2> QED BY <2>1, <2>2, <2>3, <2>4
<1>2. CASE StopStore \/ StopCancel
  <2>1. /\ main' = main /\ wakes' = wakes /\ versions' = versions /\ checks' = checks
        /\ (missed => missed')
        /\ Uncollected' \subseteq Uncollected \/ missed'
    BY <1>2, StopKeepsResults
  <2> QED BY <2>1 DEF ReportPending
<1>3. ASSUME NEW c \in Child, ChildStep(c) PROVE ReportPending'
  <2>0. /\ main'.status = main.status /\ wakes' = wakes /\ versions' = versions
        /\ (missed => missed')
        /\ checks => checks'
    BY <1>3, WhoAsked, LatestTurn DEF MainKept
  <2>1. CASE FinishChild(c)
    <3>1. checks' \/ missed'
      BY <2>1 DEF FinishChild
    <3> QED BY <3>1 DEF ReportPending
  <2>2. CASE ~FinishChild(c)
    <3> SUFFICES ASSUME main.status = "completed", ~missed', Uncollected' # {}
                 PROVE  checks' \/ \E v \in wakes : v \notin versions
      BY <2>0 DEF ReportPending
    <3>1. Uncollected # {}
      BY <1>3, <2>2, NoNewResult
    <3> QED BY <2>0, <3>1 DEF ReportPending
  <2> QED BY <2>1, <2>2
<1> QED BY <1>1, <1>2, <1>3, StepCases

-----------------------------------------------------------------------------
(* The theorems *)

LEMMA CollabInitially == CollabInit => CollabInv
<1> SUFFICES ASSUME CollabInit PROVE CollabInv
  OBVIOUS
<1> USE CollabAssumption DEF CollabInit
<1>1. CollabTypeInv
  <2>1. [exists |-> FALSE, from |-> 0, n |-> 0, status |-> "none", by |-> User, reset |-> FALSE,
         cancelled |-> FALSE] \in ChildRecord
    BY DEF ChildRecord, Status, User
  <2>2. <<>> \in Seq(QueueEntry)
    OBVIOUS
  <2>3. main \in MainRecord
    BY DEF Status, MainStep, MainRecord
  <2> QED BY <2>1, <2>2, <2>3 DEF CollabTypeInv
<1>2. \A c \in Child : ~ChildRunning(c) /\ childQueue[c] = <<>> /\ ~child[c].exists
  BY DEF ChildRunning
<1>3. ChildrenKnown /\ StepRuns /\ ArchivedAtRest /\ LookHolds /\ DelegatedWorkFirst
  BY <1>2 DEF LookHolds, ChildrenKnown, StepRuns, ArchivedAtRest, DelegatedWorkFirst
<1>4. SlotsBounded
  <2>1. {c \in Child : ChildRunning(c)} = {}
    BY <1>2
  <2>2. Cardinality({}) = 0
    BY FS_EmptySet
  <2>3. Cardinality({c \in Child : ChildRunning(c)}) = 0
    BY <2>1, <2>2
  <2>4. 0 <= Slots
    OBVIOUS
  <2> QED BY <2>3, <2>4 DEF SlotsBounded
<1>5. QueueUnstopped /\ StoppedWorkCancelled
  BY <1>2 DEF QueueUnstopped, StoppedWorkCancelled
<1>6. WakesPast /\ AbsorbedAtRest /\ AbsorbedSeen /\ ReportPending
  BY DEF WakesPast, AbsorbedAtRest, AbsorbedSeen, ReportPending
<1> QED BY <1>1, <1>3, <1>4, <1>5, <1>6 DEF CollabInv

\* The inductive invariant of a main conversation and its children.
THEOREM CollaborationInvariant == CollabSpec => []CollabInv
<1>1. CollabInv /\ [CollabNext]_collabVars => CollabInv'
  BY TypeStep, ChildrenKnownStep, StepRunsStep, SlotsStep, StopStep, ArchivedStep, DelegatedStep,
     WakesPastStep, AbsorbedStep, AbsorbedSeenStep, ReportStep DEF CollabInv
<1> QED BY <1>1, CollabInitially, PTL DEF CollabSpec

\* childSlotAvailable and the promotion are one section of the lock: however
\* many children are dispatched, sent to, retried and drained, at most Slots run.
THEOREM SlotsStayBounded == CollabSpec => []SlotsBounded
<1>1. CollabInv => SlotsBounded
  BY DEF CollabInv
<1> QED BY <1>1, CollaborationInvariant, PTL

\* StopCollaboration: when it has returned, whatever its main turns asked for is
\* gone from the queues, and what runs of it has been cancelled.
THEOREM StopReachesAll == CollabSpec => []StoppedWorkCancelled
<1>1. CollabInv => StoppedWorkCancelled
  BY DEF CollabInv
<1> QED BY <1>1, CollaborationInvariant, PTL

\* SetSubtaskArchived: an archived child has nothing running, queued or edited.
THEOREM ArchivedStayAtRest == CollabSpec => []ArchivedAtRest
<1>1. CollabInv => ArchivedAtRest
  BY DEF CollabInv
<1> QED BY <1>1, CollaborationInvariant, PTL

\* waitForChildren: a main turn seals its answer only after all the work that
\* any main turn delegated has ended, but for what the children were promoted to
\* between the list that found them idle and the read of their queue.
THEOREM DelegatedWorkEndsFirst == CollabSpec => []DelegatedWorkFirst
<1>1. CollabInv => DelegatedWorkFirst
  BY DEF CollabInv
<1> QED BY <1>1, CollaborationInvariant, PTL

\* wakeForChildResults: no wake-up is lost, however the callbacks of children,
\* their queues and the submits of people interleave.
THEOREM ResultsAreReported == CollabSpec => []NoResultForgotten
<1>1. CollabInv => NoResultForgotten
  BY DEF CollabInv, ReportPending, NoResultForgotten, Quiet
<1> QED BY <1>1, CollaborationInvariant, PTL
=============================================================================
