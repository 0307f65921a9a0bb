------------------------- MODULE TurnLifecycleProofs -------------------------
(***************************************************************************)
(* Theorems about TurnLifecycle for every value of its constants, and the  *)
(* proof that it implements InputDelivery.                                 *)
(***************************************************************************)
EXTENDS TurnDelivery, TLAPS, SequenceTheorems, FiniteSetTheorems

USE ConstantsAssumption DEF ConstantsAssumption, Turn

(***************************************************************************)
(* What a request thread carries from one step to the next has the kind    *)
(* that its position asks for: typing is not inductive without it.         *)
(***************************************************************************)
ThreadsCarry ==
  \A p \in Client :
    /\ pc[p] \in {"check", "begin", "queue", "steer", "steerQueued"} => arg[p] \in Input
    /\ pc[p] = "system" => arg[p] \in Wake
    /\ pc[p] \in {"steer", "steerQueued", "cancel"} => seen[p] \in Turn

TypeInv == TypeOK /\ ThreadsCarry

\* Taking an element out of the queue keeps its type.
LEMMA RemoveAtType ==
  ASSUME NEW S, NEW s \in Seq(S), NEW i \in DOMAIN s
  PROVE  RemoveAt(s, i) \in Seq(S)
  BY DEF RemoveAt

\* Any order of the elements of a queue, as a user may choose it, is a queue.
LEMMA ReorderType ==
  ASSUME NEW S, NEW s \in Seq(S), NEW o \in [DOMAIN s -> ToSet(s)]
  PROVE  o \in Seq(S)
  BY DEF ToSet

\* Dequeue takes an element out of the queue: the rest is a queue of inputs.
LEMMA DequeueType ==
  ASSUME queue \in Seq(Input), NEW c, Dequeue(c)
  PROVE  queue' \in Seq(Input)
  BY RemoveAtType DEF Dequeue

\* TryDrainQueued starts the head or changes nothing but the goroutine's stage.
DrainedWell ==
  /\ turn' \in [Turn -> TurnStatus]
  /\ latest' \in Turn \cup {None}
  /\ input' \in [Input -> QueuedStatus]
  /\ queue' \in Seq(Input)
  /\ running' \in Turn \cup {None}
  /\ accepting' \in [Turn -> BOOLEAN]
  /\ worker' \in [Turn -> WorkerStage]
  /\ UNCHANGED <<steerOf, steer, pending, cancelled, outcome, stranded, collab>>

\* TryDrainQueued keeps the type invariant, whatever the caller's worker function.
LEMMA DrainType ==
  ASSUME TypeOK, NEW workers \in [Turn -> WorkerStage], TryDrainQueued(workers)
  PROVE  DrainedWell
<1> USE DEF DrainedWell
<1> USE DEF TypeOK, TryDrainQueued, storeVars
<1>1. CASE CanPromote /\ PromoteHead(workers)
  <2>1. Head(queue) \in Input /\ Tail(queue) \in Seq(Input)
    BY <1>1, HeadTailProperties DEF CanPromote
  <2>q. QED
    BY <1>1, <2>1 DEF PromoteHead, StartTurn, TurnStatus, QueuedStatus, WorkerStage
<1>2. CASE ~CanPromote
  BY <1>2
<1>q. QED BY <1>1, <1>2

\* Every step of the engine, the store, a request or a crash keeps the type invariant.
LEMMA TypeStep == TypeInv /\ [Next]_vars => TypeInv'
<1> SUFFICES ASSUME TypeInv, [Next]_vars PROVE TypeInv'
  OBVIOUS
<1> USE DEF TypeInv, TypeOK, ThreadsCarry, TurnStatus, QueuedStatus, SteerStatus, WorkerStage,
            ThreadStage, storeVars, activeVars, threadVars, Goto, Return, Serving
<1>1. ASSUME NEW p \in Client, NEW c \in Input, Submit(p, c) PROVE TypeInv'
  BY <1>1 DEF Submit
<1>2. ASSUME NEW p \in Client, CheckQueue(p) PROVE TypeInv'
  BY <1>2 DEF CheckQueue
<1>3. ASSUME NEW p \in Client, BeginTurn(p) PROVE TypeInv'
  <2>1. arg[p] \in Input
    BY <1>3 DEF BeginTurn
  <2>2. CASE BeginDuplicate(p)
    BY <1>3, <2>1, <2>2 DEF BeginTurn, BeginDuplicate
  <2>3. CASE BeginRefused(p)
    BY <1>3, <2>1, <2>3 DEF BeginTurn, BeginRefused
  <2>4. CASE BeginAccepted(p)
    BY <1>3, <2>1, <2>4 DEF BeginTurn, BeginAccepted, StartTurn
  <2>q. QED BY <1>3, <2>2, <2>3, <2>4 DEF BeginTurn
<1>4. ASSUME NEW p \in Client, QueueInput(p) PROVE TypeInv'
  <2>1. arg[p] \in Input
    BY <1>4 DEF QueueInput
  <2>2. Append(queue, arg[p]) \in Seq(Input)
    BY <2>1, AppendProperties
  <2>3. queue' \in Seq(Input)
    BY <1>4, <2>2 DEF QueueInput
  <2>4. input' \in [Input -> QueuedStatus]
    BY SMTT(30), <1>4 DEF QueueInput
  <2>q. QED BY <1>4, <2>3, <2>4 DEF QueueInput
<1>5. ASSUME NEW p \in Client, NEW c \in Input, Steer(p, c) PROVE TypeInv'
  BY <1>5 DEF Steer
<1>6. ASSUME NEW p \in Client, NEW c \in Input, SteerQueued(p, c) PROVE TypeInv'
  BY <1>6 DEF SteerQueued
<1>7. ASSUME NEW p \in Client, AppendTurnSteer(p) PROVE TypeInv'
  <2>1. arg[p] \in Input /\ seen[p] \in Turn
    BY <1>7 DEF AppendTurnSteer
  <2>2. CASE AcceptSteer(arg[p], seen[p])
    BY <1>7, <2>1, <2>2 DEF AppendTurnSteer, AcceptSteer
  <2>3. CASE UNCHANGED <<steerOf, steer, pending>>
    BY <1>7, <2>1, <2>3 DEF AppendTurnSteer
  <2>q. QED BY <1>7, <2>2, <2>3 DEF AppendTurnSteer
<1>8. ASSUME NEW p \in Client, SteerQueuedInput(p) PROVE TypeInv'
  <2>1. arg[p] \in Input /\ seen[p] \in Turn
    BY <1>8 DEF SteerQueuedInput
  <2>2. CASE /\ AcceptSteer(arg[p], seen[p])
             /\ input' = [input EXCEPT ![arg[p]] = "promoted"]
             /\ Dequeue(arg[p])
    <3>1. queue' \in Seq(Input)
      BY <2>2, DequeueType
    <3>q. QED BY <1>8, <2>1, <2>2, <3>1 DEF SteerQueuedInput, AcceptSteer
  <2>3. CASE UNCHANGED <<steerOf, steer, pending, input, queue>>
    BY <1>8, <2>1, <2>3 DEF SteerQueuedInput
  <2>q. QED BY <1>8, <2>2, <2>3 DEF SteerQueuedInput
<1>9. ASSUME NEW p \in Client, Cancel(p) PROVE TypeInv'
  BY <1>9 DEF Cancel
<1>10. ASSUME NEW p \in Client, CancelOne(p) PROVE TypeInv'
  BY ZenonT(30), <1>10 DEF CancelOne
<1>11. ASSUME NEW p \in Client, NEW c \in Input, NEW status \in {"queued", "editing", "cancelled"},
              UpdateQueuedInput(p, c, status)
       PROVE TypeInv'
  <2>1. queue' \in Seq(Input)
    BY <1>11, DequeueType DEF UpdateQueuedInput
  <2>2. \/ Goto(p, "idle", None, None)
        \/ Goto(p, "drain", None, None)
    BY <1>11 DEF UpdateQueuedInput
  <2>3. input' \in [Input -> QueuedStatus]
    BY <1>11 DEF UpdateQueuedInput
  <2>4. UNCHANGED <<turn, latest, steerOf, steer, activeVars, collab, sent, daemon, crashes>>
    BY <1>11 DEF UpdateQueuedInput
  <2>5. CASE Goto(p, "idle", None, None)
    BY <2>1, <2>3, <2>4, <2>5
  <2>6. CASE Goto(p, "drain", None, None)
    BY <2>1, <2>3, <2>4, <2>6
  <2>q. QED BY <2>2, <2>5, <2>6
<1>12. ASSUME NEW p \in Client, NEW order \in Reorderings, ReorderQueuedInputs(p, order)
       PROVE TypeInv'
  <2>1. queue' \in Seq(Input)
    BY <1>12, ReorderType DEF ReorderQueuedInputs, Reorderings
  <2>q. QED BY <1>12, <2>1 DEF ReorderQueuedInputs
<1>13. ASSUME NEW p \in Client, ClientDrain(p) PROVE TypeInv'
  <2>1. worker \in [Turn -> WorkerStage]
    OBVIOUS
  <2>2. TryDrainQueued(worker)
    BY <1>13 DEF ClientDrain
  <2>3. DrainedWell
    BY <2>1, <2>2, DrainType
  <2>q. QED BY <1>13, <2>3 DEF ClientDrain, DrainedWell
<1>14. ASSUME NEW p \in Client, NEW w \in Wake, NEW t \in Turn \cup {None}, SubmitSystem(p, w, t)
       PROVE TypeInv'
  BY <1>14 DEF SubmitSystem
<1>15. ASSUME NEW p \in Client, BeginSystemTurn(p) PROVE TypeInv'
  <2>1. arg[p] \in Wake
    BY <1>15 DEF BeginSystemTurn
  <2>2. CASE UNCHANGED <<storeVars, activeVars>>
    BY <1>15, <2>2 DEF BeginSystemTurn
  <2>3. CASE StartTurn(arg[p]) /\ worker' = [worker EXCEPT ![arg[p]] = "stream"] /\ UNCHANGED <<input, queue>>
    BY <1>15, <2>1, <2>3 DEF BeginSystemTurn, StartTurn
  <2>q. QED BY <1>15, <2>2, <2>3 DEF BeginSystemTurn
<1>16. ASSUME NEW t \in Turn, Resolve(t) PROVE TypeInv'
  BY <1>16 DEF Resolve
<1>17. ASSUME NEW t \in Turn, JoinSteers(t) PROVE TypeInv'
  BY <1>17 DEF JoinSteers, ApplyTurnSteers
<1>28. ASSUME NEW t \in Turn, JoinSteersFails(t) PROVE TypeInv'
  BY <1>28 DEF JoinSteersFails
<1>29. ASSUME NEW t \in Turn, WorkerDrainFails(t) PROVE TypeInv'
  BY <1>29 DEF WorkerDrainFails
<1>30. ASSUME NEW p \in Client, RequestFails(p) PROVE TypeInv'
  BY <1>30 DEF RequestFails
<1>18. ASSUME NEW t \in Turn, NEW status \in TurnStatus, StreamEnds(t, status),
              accepting' \in [Turn -> BOOLEAN]
       PROVE TypeInv'
  BY <1>18 DEF StreamEnds
<1>19. ASSUME NEW t \in Turn, StreamTurn(t) PROVE TypeInv'
  <2>1. CASE JoinSteers(t)
    BY <1>17, <2>1
  <2>2. ASSUME NEW status \in {"completed", "failed", "cancelled"}, StreamEnds(t, status),
               \/ accepting' = [accepting EXCEPT ![t] = FALSE]
               \/ UNCHANGED accepting
        PROVE TypeInv'
    <3>1. accepting' \in [Turn -> BOOLEAN]
      BY <2>2
    <3>2. status \in TurnStatus
      OBVIOUS
    <3> HIDE DEF TypeInv
    <3>q. QED BY <2>2, <3>1, <3>2, <1>18
  <2>3. CASE JoinSteersFails(t)
    BY <1>28, <2>3
  <2>q. QED BY <1>19, <2>1, <2>2, <2>3 DEF StreamTurn, StreamCompletes, StreamFails, StreamCancelled
<1>20. ASSUME NEW t \in Turn, WrapUp(t) PROVE TypeInv'
  <2>1. CASE ApplyTurnSteers(t, "trailing") /\ UNCHANGED outcome
    BY <1>20, <2>1 DEF WrapUp, ApplyTurnSteers
  <2>2. CASE /\ pending' = [pending EXCEPT ![t] = {}]
             /\ outcome' = [outcome EXCEPT ![t] = "failed"]
             /\ UNCHANGED steer
    BY <1>20, <2>2 DEF WrapUp
  <2>q. QED BY <1>20, <2>1, <2>2 DEF WrapUp
<1>21. ASSUME NEW t \in Turn, FinishTurn(t) PROVE TypeInv'
  BY <1>21 DEF FinishTurn, ClearRunning
<1>22. ASSUME NEW t \in Turn, FinishTurnFails(t) PROVE TypeInv'
  BY <1>22 DEF FinishTurnFails, ClearRunning
<1>23. ASSUME NEW t \in Turn, WorkerDrain(t) PROVE TypeInv'
  <2>1. [worker EXCEPT ![t] = "none"] \in [Turn -> WorkerStage]
    OBVIOUS
  <2>2. TryDrainQueued([worker EXCEPT ![t] = "none"])
    BY <1>23 DEF WorkerDrain
  <2>3. DrainedWell
    BY <2>1, <2>2, DrainType
  <2>q. QED BY <1>23, <2>3 DEF WorkerDrain, DrainedWell
<1>24. ASSUME Crash PROVE TypeInv'
  BY <1>24 DEF Crash
<1>25. ASSUME RecoverTurns PROVE TypeInv'
  BY <1>25 DEF RecoverTurns
<1>26. ASSUME RecoverQueue PROVE TypeInv'
  <2>1. worker \in [Turn -> WorkerStage]
    OBVIOUS
  <2>2. TryDrainQueued(worker)
    BY <1>26 DEF RecoverQueue
  <2>3. DrainedWell
    BY <2>1, <2>2, DrainType
  <2>q. QED BY <1>26, <2>3 DEF RecoverQueue, DrainedWell
<1>27. ASSUME UNCHANGED vars PROVE TypeInv'
  BY <1>27 DEF vars
<1> HIDE DEF TypeInv, TypeOK, ThreadsCarry, TurnStatus, QueuedStatus, SteerStatus, WorkerStage,
             ThreadStage, storeVars, activeVars, threadVars, Goto, Return, Serving
<1>q. QED
  BY <1>1, <1>2, <1>3, <1>4, <1>5, <1>6, <1>7, <1>8, <1>9, <1>10, <1>11, <1>12, <1>13, <1>14,
     <1>15, <1>16, <1>19, <1>20, <1>21, <1>22, <1>23, <1>24, <1>25, <1>26, <1>27, <1>29, <1>30
     DEF Next, ClientCall, ClientStep, WorkerStep

\* A fresh daemon on an empty store satisfies the type invariant.
LEMMA TypeInit == Init => TypeInv
  BY EmptySeq DEF Init, TypeInv, TypeOK, ThreadsCarry, TurnStatus, QueuedStatus, SteerStatus,
                  WorkerStage, ThreadStage

\* Every state the engine and the store reach is of the declared types.
THEOREM TypeCorrect == Spec => []TypeOK
<1>1. TypeInv => TypeOK
  BY DEF TypeInv
<1>q. QED BY <1>1, TypeInit, TypeStep, PTL DEF Spec

-----------------------------------------------------------------------------
(***************************************************************************)
(* The registration and the running row.  OneRunningTurn and               *)
(* RunningIsRegistered become inductive with the stages of the goroutine:  *)
(* exactly the registered turn has a goroutine before its drain, what a    *)
(* goroutine is about to store is a final status, and recovery finds an    *)
(* engine without registrations.                                           *)
(***************************************************************************)
Registration ==
  /\ \A t \in Turn : worker[t] \in {"resolve", "stream", "wrap", "finish"} <=> running = t
  /\ \A t \in Turn : running = t => turn[t] = "running" /\ t \notin stranded
  /\ \A t \in Turn : worker[t] \in {"wrap", "finish"} => outcome[t] \in Terminal
  /\ \A t \in stranded : turn[t] = "running"
  /\ daemon = "serving" => \A t \in Turn : turn[t] = "running" => running = t \/ t \in stranded
  /\ daemon # "serving" => running = None /\ stranded = {}
  /\ daemon = "settled" => ~TurnIsRunning
  /\ OneRunningTurn

\* The variables the registration is about.
registrationVars == <<turn, running, worker, outcome, stranded, daemon>>

\* Every other action of the request threads and of the goroutines leaves them alone.
LEMMA QuietForRegistration ==
  ASSUME NEW p \in Client,
         \/ \E c \in Input : Submit(p, c) \/ Steer(p, c) \/ SteerQueued(p, c)
         \/ \E c \in Input, status \in {"queued", "editing", "cancelled"} : UpdateQueuedInput(p, c, status)
         \/ \E order \in Reorderings : ReorderQueuedInputs(p, order)
         \/ \E w \in Wake, t \in Turn \cup {None} : SubmitSystem(p, w, t)
         \/ Cancel(p) \/ CheckQueue(p) \/ QueueInput(p) \/ AppendTurnSteer(p)
         \/ SteerQueuedInput(p) \/ CancelOne(p) \/ RequestFails(p)
  PROVE  UNCHANGED registrationVars
  BY DEF registrationVars, storeVars, activeVars, Serving, Submit, Steer, SteerQueued,
         UpdateQueuedInput, ReorderQueuedInputs, SubmitSystem, Cancel, CheckQueue, QueueInput,
         AppendTurnSteer, SteerQueuedInput, CancelOne, RequestFails

\* What TryDrainQueued is given: a goroutine in its drain may be gone already.
DrainersMayLeave(workers) ==
  \A u \in Turn : workers[u] # worker[u] => worker[u] = "drain" /\ workers[u] = "none"

\* A turn starts only when no turn runs, and is registered by the same step.
LEMMA StartRegisters ==
  ASSUME TypeOK, Registration, daemon \in {"serving", "settled"}, daemon' = "serving",
         NEW t \in Turn, turn[t] = "none", ~TurnIsRunning, StartTurn(t),
         NEW workers \in [Turn -> WorkerStage], NEW stage \in {"resolve", "stream"},
         DrainersMayLeave(workers),
         worker' = [workers EXCEPT ![t] = stage]
  PROVE  Registration'
<1> USE DEF TypeOK, StartTurn, TurnIsRunning
<1>1. running = None /\ stranded = {}
  BY DEF Registration
<1>2. turn' = [turn EXCEPT ![t] = "running"] /\ running' = t /\ UNCHANGED <<outcome, stranded>>
  OBVIOUS
<1>3. \A u \in Turn : worker'[u] \in {"resolve", "stream", "wrap", "finish"} <=> running' = u
  BY <1>1, <1>2 DEF Registration, DrainersMayLeave
<1>4. \A u \in Turn : turn'[u] = "running" <=> u = t
  BY <1>2
<1>q. QED BY <1>1, <1>2, <1>3, <1>4 DEF Registration, OneRunningTurn

\* A drain either registers the turn it promotes or changes nothing.
LEMMA DrainRegisters ==
  ASSUME TypeInv, Registration, daemon \in {"serving", "settled"}, daemon' = "serving",
         NEW workers \in [Turn -> WorkerStage],
         DrainersMayLeave(workers),
         TryDrainQueued(workers)
  PROVE  Registration'
<1>1. CASE CanPromote /\ PromoteHead(workers)
  <2>1. Head(queue) \in Input
    BY <1>1, HeadTailProperties DEF CanPromote, TypeInv, TypeOK
  <2>q. QED BY <1>1, <2>1, StartRegisters DEF CanPromote, PromoteHead, TypeInv
<1>2. CASE worker' = workers /\ UNCHANGED <<storeVars, running, accepting, pending, cancelled, outcome, stranded>>
  <2>1. \A u \in Turn : worker'[u] \in {"resolve", "stream", "wrap", "finish"} <=> running = u
    BY <1>2 DEF Registration, DrainersMayLeave
  <2>2. \A u \in Turn : worker'[u] \in {"wrap", "finish"} => outcome[u] \in Terminal
    BY <1>2 DEF Registration, DrainersMayLeave
  <2>3. daemon = "settled" => ~TurnIsRunning
    BY DEF Registration
  <2>q. QED
    BY <1>2, <2>1, <2>2, <2>3 DEF Registration, OneRunningTurn, TurnIsRunning, storeVars, TypeInv, TypeOK
<1>q. QED BY <1>1, <1>2 DEF TryDrainQueued

\* Every step keeps the running row and Engine.running in agreement.
LEMMA RegistrationStep == TypeInv /\ Registration /\ [Next]_vars => Registration'
<1> SUFFICES ASSUME TypeInv, Registration, [Next]_vars PROVE Registration'
  OBVIOUS
<1>0. TypeOK /\ worker \in [Turn -> WorkerStage] /\ DrainersMayLeave(worker)
  <2>1. TypeOK
    BY DEF TypeInv
  <2>2. worker \in [Turn -> WorkerStage]
    BY <2>1 DEF TypeOK
  <2>3. DrainersMayLeave(worker)
    BY DEF DrainersMayLeave
  <2>q. QED BY <2>1, <2>2, <2>3
<1>1. ASSUME UNCHANGED registrationVars PROVE Registration'
  BY <1>1 DEF registrationVars, Registration, OneRunningTurn, TurnIsRunning
<1>2. ASSUME NEW p \in Client, BeginTurn(p) PROVE Registration'
  <2>1. CASE BeginDuplicate(p) \/ BeginRefused(p)
    BY <1>1, <1>2, <2>1 DEF BeginTurn, BeginDuplicate, BeginRefused, registrationVars, storeVars, activeVars, Serving
  <2>2. CASE BeginAccepted(p)
    <3>1. arg[p] \in Turn
      BY <1>2 DEF BeginTurn, TypeInv, ThreadsCarry
    <3>2. daemon = "serving" /\ daemon' = "serving"
      BY <1>2 DEF BeginTurn, Serving
    <3>3. /\ turn[arg[p]] = "none" /\ ~TurnIsRunning /\ StartTurn(arg[p])
          /\ worker' = [worker EXCEPT ![arg[p]] = "stream"]
      BY <2>2 DEF BeginAccepted
    <3>q. QED BY <1>0, <3>1, <3>2, <3>3, StartRegisters
  <2>q. QED BY <1>2, <2>1, <2>2 DEF BeginTurn
<1>3. ASSUME NEW p \in Client, BeginSystemTurn(p) PROVE Registration'
  <2>1. CASE UNCHANGED <<storeVars, activeVars>>
    BY <1>1, <1>3, <2>1 DEF BeginSystemTurn, registrationVars, storeVars, activeVars, Serving
  <2>2. CASE /\ turn[arg[p]] = "none" /\ ~TurnIsRunning
             /\ StartTurn(arg[p])
             /\ worker' = [worker EXCEPT ![arg[p]] = "stream"]
    <3>1. arg[p] \in Turn
      BY <1>3 DEF BeginSystemTurn, TypeInv, ThreadsCarry
    <3>2. daemon = "serving" /\ daemon' = "serving"
      BY <1>3 DEF BeginSystemTurn, Serving
    <3>q. QED BY <1>0, <2>2, <3>1, <3>2, StartRegisters
  <2>q. QED BY <1>3, <2>1, <2>2 DEF BeginSystemTurn
<1>4. ASSUME NEW p \in Client, ClientDrain(p) PROVE Registration'
  <2>1. TryDrainQueued(worker) /\ daemon = "serving" /\ daemon' = "serving"
    BY <1>4 DEF ClientDrain, Serving
  <2>q. QED BY <1>0, <2>1, DrainRegisters
<1>5. ASSUME NEW t \in Turn, WorkerDrain(t) PROVE Registration'
  <2>1. [worker EXCEPT ![t] = "none"] \in [Turn -> WorkerStage]
    BY DEF TypeInv, TypeOK, WorkerStage
  <2>2. /\ TryDrainQueued([worker EXCEPT ![t] = "none"]) /\ worker[t] = "drain"
        /\ daemon = "serving" /\ daemon' = "serving"
    BY <1>5 DEF WorkerDrain, Serving
  <2>3. DrainersMayLeave([worker EXCEPT ![t] = "none"])
    BY <1>0, <2>2 DEF DrainersMayLeave
  <2>q. QED BY <2>1, <2>2, <2>3, DrainRegisters
<1>6. ASSUME RecoverQueue PROVE Registration'
  <2>1. TryDrainQueued(worker) /\ daemon = "settled" /\ daemon' = "serving"
    BY <1>6 DEF RecoverQueue
  <2>q. QED BY <1>0, <2>1, DrainRegisters
<1> USE DEF TypeInv, TypeOK, Registration, OneRunningTurn, TurnIsRunning, Terminal, storeVars,
            activeVars, Serving
<1>7. ASSUME NEW t \in Turn, Resolve(t) PROVE Registration'
  <2>1. worker[t] = "resolve" /\ UNCHANGED <<turn, running, stranded, daemon>>
    BY <1>7 DEF Resolve
  <2>2. CASE worker' = [worker EXCEPT ![t] = "stream"] /\ UNCHANGED outcome
    BY <2>1, <2>2
  <2>3. CASE worker' = [worker EXCEPT ![t] = "finish"] /\ outcome' = [outcome EXCEPT ![t] = "failed"]
    BY <2>1, <2>3
  <2>q. QED BY <1>7, <2>2, <2>3 DEF Resolve
<1>8. ASSUME NEW t \in Turn, StreamTurn(t) PROVE Registration'
  <2>1. CASE JoinSteers(t)
    BY <1>8, <2>1, <1>1 DEF JoinSteers, registrationVars
  <2>2. ASSUME NEW status \in Terminal, StreamEnds(t, status) PROVE Registration'
    BY <2>2 DEF StreamEnds
  <2>3. CASE JoinSteersFails(t)
    BY <2>3 DEF JoinSteersFails
  <2>q. QED BY <1>8, <2>1, <2>2, <2>3 DEF StreamTurn, StreamCompletes, StreamFails, StreamCancelled
<1>9. ASSUME NEW t \in Turn, WrapUp(t) PROVE Registration'
  <2>1. /\ worker[t] = "wrap" /\ worker' = [worker EXCEPT ![t] = "finish"]
        /\ outcome' = outcome \/ outcome' = [outcome EXCEPT ![t] = "failed"]
        /\ UNCHANGED <<turn, running, stranded, daemon>>
    BY <1>9 DEF WrapUp
  <2>q. QED BY <2>1
<1>15. ASSUME NEW t \in Turn, WorkerDrainFails(t) PROVE Registration'
  BY <1>15 DEF WorkerDrainFails
<1>10. ASSUME NEW t \in Turn, FinishTurn(t) PROVE Registration'
  BY <1>10 DEF FinishTurn, ClearRunning
<1>11. ASSUME NEW t \in Turn, FinishTurnFails(t) PROVE Registration'
  <2>1. running = t
    BY <1>11 DEF FinishTurnFails
  <2>2. /\ running' = None /\ worker' = [worker EXCEPT ![t] = "none"]
        /\ outcome' = [outcome EXCEPT ![t] = "none"] /\ stranded' = stranded \cup {t}
        /\ UNCHANGED <<turn, daemon>> /\ daemon = "serving"
    BY <1>11, <2>1 DEF FinishTurnFails, ClearRunning
  <2>q. QED BY <2>1, <2>2
<1>12. ASSUME Crash PROVE Registration'
  BY <1>12 DEF Crash
<1>13. ASSUME RecoverTurns PROVE Registration'
  <2>1. /\ running = None /\ stranded = {} /\ daemon' = "settled"
        /\ UNCHANGED <<running, worker, outcome, stranded>>
    BY <1>13 DEF RecoverTurns
  <2>2. \A t \in Turn : turn'[t] # "running"
    BY <1>13 DEF RecoverTurns
  <2>q. QED BY <2>1, <2>2
<1> HIDE DEF TypeInv, TypeOK, Registration, OneRunningTurn, TurnIsRunning, Terminal, storeVars,
             activeVars, Serving
<1>14. ASSUME UNCHANGED vars PROVE Registration'
  BY <1>1, <1>14 DEF vars, storeVars, activeVars, registrationVars
<1>q. QED
  BY <1>1, <1>2, <1>3, <1>4, <1>5, <1>6, <1>7, <1>8, <1>9, <1>10, <1>11, <1>12, <1>13, <1>14,
     <1>15, QuietForRegistration DEF Next, ClientCall, ClientStep, WorkerStep

\* A fresh daemon has neither a running row nor a registration.
LEMMA RegistrationInit == Init => Registration
  BY DEF Init, Registration, OneRunningTurn, TurnIsRunning, Terminal

\* No two turns of a session run at a time, and what Cancel, Steer and WaitSession find
\* in Engine.running is the running row, unless a FinishTurn has failed.
THEOREM RegisteredTurn == Spec => [](OneRunningTurn /\ RunningIsRegistered)
<1>1. Init => TypeInv
  BY TypeInit
<1>2. TypeInv /\ Registration => OneRunningTurn /\ RunningIsRegistered
  BY DEF Registration, RunningIsRegistered
<1>q. QED BY <1>1, <1>2, RegistrationInit, TypeStep, RegistrationStep, PTL DEF Spec

\* startTurnLocked and promotion alike insert a running turn only when the session
\* has none.
THEOREM OneTurnRuns == Spec => []OneRunningTurn
<1> QED BY RegisteredTurn, PTL

(***************************************************************************)
(* What became of an input that its client sent once: a request under way  *)
(* is the only one and nothing has come of it yet.                         *)
(***************************************************************************)
Submitting(p, c) == pc[p] \in {"check", "begin", "queue"} /\ arg[p] = c

SentOnce(c) ==
  /\ \A p, q \in Client : Submitting(p, c) /\ Submitting(q, c) => p = q
  /\ \A p \in Client : Submitting(p, c) => sent[c] = "submit" /\ input[c] = "none" /\ ~HasUserMessage(c)
  /\ \A p \in Client : pc[p] = "steer" /\ arg[p] = c => sent[c] = "steer"
  /\ sent[c] = "no" => input[c] = "none" /\ ~HasUserMessage(c)
  /\ sent[c] = "steer" => input[c] = "none" /\ turn[c] = "none"
  /\ input[c] \in {"queued", "editing", "cancelled"} => ~HasUserMessage(c)
  /\ input[c] = "promoted" => HasUserMessage(c)
  /\ turn[c] = "none" \/ steerOf[c] = None

Sending ==
  /\ \A p \in Client : pc[p] \in {"steer", "steerQueued"} => arg[p] \in Steered
  /\ \A c \in Input : steerOf[c] # None => c \in Steered
  /\ \A c \in Input \ Retried : SentOnce(c)

\* Steps that deliver, queue and send nothing: at most threads return or go on.
SendingKept ==
  /\ UNCHANGED <<input, steerOf, sent>>
  /\ \A c \in Input : turn'[c] = "none" <=> turn[c] = "none"
  /\ \A p \in Client : pc'[p] \in {"check", "begin", "queue"} =>
       pc[p] \in {"check", "begin", "queue"} /\ arg'[p] = arg[p]
  /\ \A p \in Client : pc'[p] = "steer" => pc[p] = "steer" /\ arg'[p] = arg[p]
  /\ \A p \in Client : pc'[p] = "steerQueued" => arg'[p] \in Steered

\* A step that touches neither store nor request threads keeps where each input was sent.
LEMMA KeptSending ==
  ASSUME TypeInv, Sending, SendingKept
  PROVE  Sending'
<1>1. \A p \in Client : pc'[p] \in {"steer", "steerQueued"} => arg'[p] \in Steered
  BY DEF Sending, SendingKept
<1>2. \A c \in Input : steerOf'[c] # None => c \in Steered
  BY DEF Sending, SendingKept
<1>3. ASSUME NEW c \in Input \ Retried PROVE SentOnce(c)'
  <2>1. SentOnce(c) /\ c \in Input
    BY DEF Sending
  <2>2. HasUserMessage(c)' <=> HasUserMessage(c)
    BY <2>1 DEF HasUserMessage, SendingKept
  <2>3. \A p \in Client : Submitting(p, c)' => Submitting(p, c)
    BY DEF Submitting, SendingKept
  <2>q. QED BY <2>1, <2>2, <2>3 DEF SentOnce, SendingKept
<1>q. QED BY <1>1, <1>2, <1>3 DEF Sending

\* A turn that an input starts, from a request or from the queue, and the threads after it.
LEMMA StartSends ==
  ASSUME TypeInv, Sending, NEW c \in Input, turn[c] = "none",
         turn' = [turn EXCEPT ![c] = "running"], UNCHANGED <<steerOf, sent>>,
         \/ /\ input[c] = "queued"
            /\ input' = [input EXCEPT ![c] = "promoted"]
            /\ \A p \in Client : pc'[p] \in {"check", "begin", "queue"} =>
                  pc[p] \in {"check", "begin", "queue"} /\ arg'[p] = arg[p]
         \/ /\ UNCHANGED input
            /\ \E q \in Client : Submitting(q, c) /\ \A p \in Client :
                  pc'[p] \in {"check", "begin", "queue"} =>
                    p # q /\ pc[p] \in {"check", "begin", "queue"} /\ arg'[p] = arg[p],
         \A p \in Client : pc'[p] = "steer" => pc[p] = "steer" /\ arg'[p] = arg[p],
         \A p \in Client : pc'[p] = "steerQueued" => pc[p] = "steerQueued" /\ arg'[p] = arg[p]
  PROVE  Sending'
<1>1. \A p \in Client : pc'[p] \in {"steer", "steerQueued"} => arg'[p] \in Steered
  BY DEF Sending
<1>2. \A d \in Input : steerOf'[d] # None => d \in Steered
  BY DEF Sending
<1>3. ASSUME NEW d \in Input \ Retried, d # c PROVE SentOnce(d)'
  <2>1. SentOnce(d)
    BY DEF Sending
  <2>2. turn'[d] = turn[d] /\ steerOf'[d] = steerOf[d] /\ input'[d] = input[d] /\ sent'[d] = sent[d]
    BY <1>3 DEF TypeInv, TypeOK
  <2>3. \A p \in Client : Submitting(p, d)' => Submitting(p, d)
    BY DEF Submitting
  <2>q. QED BY <2>1, <2>2, <2>3 DEF SentOnce, HasUserMessage
<1>4. ASSUME c \notin Retried PROVE SentOnce(c)'
  <2>1. SentOnce(c)
    BY <1>4 DEF Sending
  <2>2. turn'[c] = "running" /\ steerOf'[c] = steerOf[c] /\ sent'[c] = sent[c]
    BY DEF TypeInv, TypeOK
  <2>3. \A p \in Client : ~Submitting(p, c)'
    BY <2>1 DEF Submitting, SentOnce
  <2>4. input'[c] \in {"promoted", "none"} /\ sent[c] = "submit" /\ steerOf[c] = None
    BY <2>1 DEF SentOnce, HasUserMessage, TypeInv, TypeOK
  <2>5. \A p \in Client : ~(pc'[p] = "steer" /\ arg'[p] = c)
    BY <2>1, <2>4 DEF SentOnce
  <2>q. QED BY <2>2, <2>3, <2>4, <2>5 DEF SentOnce, HasUserMessage
<1>q. QED BY <1>1, <1>2, <1>3, <1>4 DEF Sending

\* The steer of a new message: the requesting thread returns.
LEMMA AcceptSends ==
  ASSUME TypeInv, Sending, NEW c \in Input, NEW t \in Turn, NEW p \in Client,
         AcceptSteer(c, t), c \in Steered, Return(p), UNCHANGED <<turn, sent>>,
         \/ UNCHANGED input /\ pc[p] = "steer" /\ arg[p] = c
         \/ input[c] = "queued" /\ input' = [input EXCEPT ![c] = "promoted"]
  PROVE  Sending'
<1> USE DEF TypeInv, TypeOK, AcceptSteer, Return, Goto, HasUserMessage
<1>1. \A q \in Client : pc'[q] \in {"steer", "steerQueued"} => arg'[q] \in Steered
  BY DEF Sending
<1>2. \A d \in Input : steerOf'[d] # None => d \in Steered
  BY DEF Sending
<1>3. \A q \in Client : \A d \in Input : Submitting(q, d)' => Submitting(q, d)
  BY DEF Submitting
<1>4. \A q \in Client : pc'[q] = "steer" => pc[q] = "steer" /\ arg'[q] = arg[q]
  OBVIOUS
<1>5. ASSUME NEW d \in Input \ Retried, d # c PROVE SentOnce(d)'
  <2>1. SentOnce(d)
    BY DEF Sending
  <2>2. turn'[d] = turn[d] /\ steerOf'[d] = steerOf[d] /\ input'[d] = input[d] /\ sent'[d] = sent[d]
    BY <1>5
  <2> HIDE DEF TypeInv, TypeOK, AcceptSteer, Return, Goto
  <2>q. QED BY <1>3, <1>4, <2>1, <2>2 DEF SentOnce
<1>6. ASSUME c \notin Retried PROVE SentOnce(c)'
  <2>1. SentOnce(c)
    BY <1>6 DEF Sending
  <2>2. turn'[c] = "none" /\ steerOf'[c] # None /\ sent'[c] = sent[c] /\ sent[c] # "no"
    BY <2>1 DEF SentOnce
  <2>3. CASE UNCHANGED input /\ pc[p] = "steer" /\ arg[p] = c
    <3>1. sent[c] = "steer" /\ input'[c] = "none" /\ \A q \in Client : ~Submitting(q, c)
      BY <2>1, <2>3 DEF SentOnce
    <3> HIDE DEF TypeInv, TypeOK, AcceptSteer, Return, Goto
    <3>q. QED BY <1>3, <1>4, <2>1, <2>2, <3>1 DEF SentOnce
  <2>4. CASE input[c] = "queued" /\ input' = [input EXCEPT ![c] = "promoted"]
    <3>1. sent[c] = "submit" /\ input'[c] = "promoted" /\ \A q \in Client : ~Submitting(q, c)
      BY <2>1, <2>4 DEF SentOnce
    <3> HIDE DEF TypeInv, TypeOK, AcceptSteer, Return, Goto
    <3>q. QED BY <1>3, <1>4, <2>1, <2>2, <3>1 DEF SentOnce
  <2>q. QED BY <2>3, <2>4
<1>q. QED BY <1>1, <1>2, <1>5, <1>6 DEF Sending

\* Promoting the queue head delivers that input and no other.
LEMMA DrainSends ==
  ASSUME TypeInv, Sending, NEW workers \in [Turn -> WorkerStage], TryDrainQueued(workers),
         UNCHANGED sent,
         UNCHANGED threadVars \/ \E p \in Client : Return(p)
  PROVE  Sending'
<1>1. /\ \A p \in Client : pc'[p] \in {"check", "begin", "queue"} =>
            pc[p] \in {"check", "begin", "queue"} /\ arg'[p] = arg[p]
      /\ \A p \in Client : pc'[p] = "steer" => pc[p] = "steer" /\ arg'[p] = arg[p]
      /\ \A p \in Client : pc'[p] = "steerQueued" => pc[p] = "steerQueued" /\ arg'[p] = arg[p]
  BY DEF Return, Goto, threadVars, TypeInv, TypeOK
<1>2. CASE CanPromote /\ PromoteHead(workers)
  <2>1. Head(queue) \in Input
    BY <1>2, HeadTailProperties DEF CanPromote, TypeInv, TypeOK
  <2>2. /\ turn[Head(queue)] = "none" /\ input[Head(queue)] = "queued"
        /\ turn' = [turn EXCEPT ![Head(queue)] = "running"] /\ UNCHANGED steerOf
        /\ input' = [input EXCEPT ![Head(queue)] = "promoted"]
    BY <1>2 DEF CanPromote, PromoteHead, StartTurn
  <2>q. QED BY <1>1, <2>1, <2>2, StartSends
<1>3. CASE UNCHANGED storeVars
  <2>1. UNCHANGED <<turn, input, steerOf>>
    BY <1>3 DEF storeVars
  <2>2. \A p \in Client : pc'[p] = "steerQueued" => arg'[p] \in Steered
    BY <1>1 DEF Sending
  <2>3. SendingKept
    BY <1>1, <2>1, <2>2 DEF SendingKept
  <2>q. QED BY <2>3, KeptSending
<1>q. QED BY <1>2, <1>3 DEF TryDrainQueued

\* Actions of the threads that send nothing new, and of the goroutine but its drain.
QuietRequest(p) ==
  \/ CheckQueue(p) \/ Cancel(p) \/ CancelOne(p) \/ BeginSystemTurn(p) \/ RequestFails(p)
  \/ \E c \in Input : SteerQueued(p, c)
  \/ \E order \in Reorderings : ReorderQueuedInputs(p, order)
  \/ \E w \in Wake, t \in Turn \cup {None} : SubmitSystem(p, w, t)

QuietTurn(t) ==
  \/ Resolve(t) \/ StreamTurn(t) \/ WrapUp(t)
  \/ FinishTurn(t) \/ FinishTurnFails(t) \/ WorkerDrainFails(t)

\* Steps that leave turns, rows and steers of every input alone keep Sending.
LEMMA QuietForSending ==
  ASSUME TypeInv, Registration, Sending,
         \/ \E p \in Client : QuietRequest(p)
         \/ \E t \in Turn : QuietTurn(t)
         \/ Crash \/ RecoverTurns \/ UNCHANGED vars
  PROVE  Sending'
<1> SUFFICES SendingKept
  BY KeptSending
<1>0. \A p \in Client : pc[p] = "steerQueued" => arg[p] \in Steered
  BY DEF Sending
<1>1. ASSUME UNCHANGED <<input, steerOf, sent>>, \A c \in Input : turn'[c] = "none" <=> turn[c] = "none",
             UNCHANGED threadVars
      PROVE SendingKept
  BY <1>0, <1>1 DEF SendingKept, threadVars
<1>2. ASSUME NEW p \in Client, NEW stage \in {"idle", "begin", "queue", "cancel", "system", "drain", "steerQueued"},
             NEW c, NEW t, Goto(p, stage, c, t), UNCHANGED <<input, steerOf, sent>>,
             \A d \in Input : turn'[d] = turn[d],
             stage \in {"begin", "queue"} => pc[p] = "check" /\ c = arg[p],
             stage = "steerQueued" => c \in Steered
      PROVE SendingKept
  BY <1>0, <1>2 DEF SendingKept, Goto, TypeInv, TypeOK
<1>3. ASSUME NEW p \in Client, QuietRequest(p) PROVE SendingKept
  <2>1. CASE CheckQueue(p)
    BY <1>2, <2>1 DEF CheckQueue, storeVars
  <2>2. CASE Cancel(p)
    BY <1>2, <2>2 DEF Cancel, storeVars
  <2>3. CASE CancelOne(p)
    BY <1>2, <2>3 DEF CancelOne, Return, storeVars
  <2>4. CASE BeginSystemTurn(p)
    <3>1. arg[p] \in Wake
      BY <2>4 DEF BeginSystemTurn, ThreadsCarry, TypeInv
    <3>2. \A c \in Input : turn'[c] = turn[c]
      BY <2>4, <3>1 DEF BeginSystemTurn, StartTurn, storeVars, TypeInv, TypeOK
    <3>3. Goto(p, "idle", None, None) /\ UNCHANGED <<input, steerOf, sent>>
      BY <2>4 DEF BeginSystemTurn, StartTurn, Return, storeVars
    <3>q. QED BY <1>2, <3>2, <3>3
  <2>5. ASSUME NEW c \in Input, SteerQueued(p, c) PROVE SendingKept
    BY <1>2, <2>5 DEF SteerQueued, storeVars
  <2>6. ASSUME NEW order \in Reorderings, ReorderQueuedInputs(p, order) PROVE SendingKept
    BY <1>2, <2>6 DEF ReorderQueuedInputs
  <2>7. ASSUME NEW w \in Wake, NEW t \in Turn \cup {None}, SubmitSystem(p, w, t) PROVE SendingKept
    BY <1>2, <2>7 DEF SubmitSystem, storeVars
  <2>8. CASE RequestFails(p)
    BY <1>2, <2>8 DEF RequestFails, Return, storeVars
  <2>q. QED BY <1>3, <2>1, <2>2, <2>3, <2>4, <2>5, <2>6, <2>7, <2>8 DEF QuietRequest
<1>4. ASSUME NEW t \in Turn,
             Resolve(t) \/ StreamTurn(t) \/ WrapUp(t) \/ FinishTurnFails(t) \/ WorkerDrainFails(t)
      PROVE SendingKept
  <2>1. UNCHANGED <<turn, input, steerOf, sent, threadVars>>
    BY <1>4 DEF Resolve, StreamTurn, JoinSteers, JoinSteersFails, StreamCompletes, StreamFails,
                StreamCancelled, StreamEnds, WrapUp, FinishTurnFails, WorkerDrainFails, storeVars
  <2>q. QED BY <1>1, <2>1
<1>5. ASSUME NEW t \in Turn, FinishTurn(t) PROVE SendingKept
  <2>1. turn[t] = "running" /\ outcome[t] \in Terminal
    BY <1>5 DEF FinishTurn, Registration
  <2>2. \A c \in Input : turn'[c] = "none" <=> turn[c] = "none"
    BY <1>5, <2>1 DEF FinishTurn, Terminal, TypeInv, TypeOK
  <2>q. QED BY <1>1, <1>5, <2>2 DEF FinishTurn
<1>6. CASE Crash
  BY <1>6 DEF Crash, SendingKept, storeVars
<1>7. CASE RecoverTurns
  <2>1. \A c \in Input : turn'[c] = "none" <=> turn[c] = "none"
    BY <1>7 DEF RecoverTurns
  <2>q. QED BY <1>1, <1>7, <2>1 DEF RecoverTurns
<1>8. CASE UNCHANGED vars
  BY <1>1, <1>8 DEF vars, storeVars
<1>q. QED BY <1>3, <1>4, <1>5, <1>6, <1>7, <1>8 DEF QuietTurn

\* A row of queued_inputs appears for the input that a request submits.
LEMMA QueuedSends ==
  ASSUME TypeInv, Sending, NEW p \in Client, NEW c \in Input, Submitting(p, c),
         turn[c] = "none", input[c] = "none", input' = [input EXCEPT ![c] = "queued"],
         UNCHANGED <<turn, steerOf, sent>>,
         \A q \in Client : /\ pc'[q] = IF q = p THEN "idle" ELSE pc[q]
                           /\ arg'[q] = IF q = p THEN None ELSE arg[q]
  PROVE  Sending'
<1>1. \A q \in Client : pc'[q] \in {"steer", "steerQueued"} => arg'[q] \in Steered
  BY DEF Sending
<1>2. \A q \in Client : \A d \in Input : Submitting(q, d)' => Submitting(q, d) /\ q # p
  BY DEF Submitting
<1>3. ASSUME NEW d \in Input \ Retried PROVE SentOnce(d)'
  <2>1. SentOnce(d) /\ (d # c => input'[d] = input[d]) /\ input'[c] = "queued"
    BY DEF Sending, TypeInv, TypeOK
  <2>2. \A q \in Client : pc'[q] = "steer" => pc[q] = "steer" /\ arg'[q] = arg[q]
    OBVIOUS
  <2>q. QED BY <1>2, <2>1, <2>2 DEF SentOnce, HasUserMessage
<1>q. QED BY <1>1, <1>3 DEF Sending

\* An active row is edited, released or withdrawn.
LEMMA EditSends ==
  ASSUME TypeInv, Sending, NEW p \in Client, NEW c \in Input, Active(c),
         NEW status \in {"queued", "editing", "cancelled"}, input' = [input EXCEPT ![c] = status],
         UNCHANGED <<turn, steerOf, sent>>,
         \A q \in Client : /\ pc'[q] \in {"idle", "drain"} \/ (pc'[q] = pc[q] /\ q # p)
                           /\ arg'[q] = IF q = p THEN None ELSE arg[q]
  PROVE  Sending'
<1>1. \A q \in Client : pc'[q] \in {"steer", "steerQueued"} => arg'[q] \in Steered
  BY DEF Sending
<1>2. \A q \in Client : \A d \in Input : Submitting(q, d)' => Submitting(q, d)
  BY DEF Submitting
<1>3. ASSUME NEW d \in Input \ Retried PROVE SentOnce(d)'
  <2>1. SentOnce(d) /\ (d # c => input'[d] = input[d]) /\ input'[c] = status
    BY DEF Sending, TypeInv, TypeOK
  <2>2. \A q \in Client : pc'[q] = "steer" => pc[q] = "steer" /\ arg'[q] = arg[q]
    OBVIOUS
  <2>q. QED BY <1>2, <2>1, <2>2 DEF SentOnce, HasUserMessage, Active
<1>q. QED BY <1>1, <1>3 DEF Sending

\* Every step keeps the account of where each input sent once is.
LEMMA SendingStep == TypeInv /\ Registration /\ Sending /\ [Next]_vars => Sending'
<1> SUFFICES ASSUME TypeInv, Registration, Sending, [Next]_vars PROVE Sending'
  OBVIOUS
<1>0. worker \in [Turn -> WorkerStage] /\ \A t \in Turn : [worker EXCEPT ![t] = "none"] \in [Turn -> WorkerStage]
  BY DEF TypeInv, TypeOK, WorkerStage
<1>1. ASSUME NEW p \in Client, NEW c \in Input, Submit(p, c) PROVE Sending'
  <2>0. /\ sent[c] = "no" \/ c \in Retried
        /\ pc' = [pc EXCEPT ![p] = "check"] /\ arg' = [arg EXCEPT ![p] = c]
        /\ sent' = [sent EXCEPT ![c] = "submit"] /\ UNCHANGED <<turn, input, steerOf>>
    BY <1>1 DEF Submit, Goto, storeVars
  <2> USE DEF TypeInv, TypeOK
  <2>1. \A q \in Client : pc'[q] \in {"steer", "steerQueued"} => arg'[q] \in Steered
    BY <2>0 DEF Sending
  <2>2. ASSUME NEW d \in Input \ Retried, d # c PROVE SentOnce(d)'
    <3>1. SentOnce(d) /\ sent'[d] = sent[d]
      BY <2>0, <2>2 DEF Sending
    <3>2. \A q \in Client : Submitting(q, d)' => Submitting(q, d)
      BY <2>0, <2>2 DEF Submitting
    <3>3. \A q \in Client : pc'[q] = "steer" => pc[q] = "steer" /\ arg'[q] = arg[q]
      BY <2>0
    <3> HIDE DEF TypeInv, TypeOK
    <3>q. QED BY <2>0, <3>1, <3>2, <3>3 DEF SentOnce, HasUserMessage
  <2>3. ASSUME c \notin Retried PROVE SentOnce(c)'
    <3>1. /\ SentOnce(c) /\ sent[c] = "no" /\ sent'[c] = "submit" /\ input[c] = "none"
          /\ turn[c] = "none" /\ steerOf[c] = None
      BY <2>0, <2>3 DEF Sending, SentOnce, HasUserMessage
    <3>2. \A q \in Client : Submitting(q, c)' => q = p
      BY <2>0, <3>1 DEF Submitting, SentOnce
    <3>3. \A q \in Client : pc'[q] = "steer" => arg'[q] # c
      BY <2>0, <3>1 DEF SentOnce
    <3> HIDE DEF TypeInv, TypeOK
    <3>q. QED BY <2>0, <3>1, <3>2, <3>3 DEF SentOnce, HasUserMessage
  <2>q. QED BY <2>0, <2>1, <2>2, <2>3 DEF Sending
<1>2. ASSUME NEW p \in Client, NEW c \in Input, Steer(p, c) PROVE Sending'
  <2>0. /\ c \in Steered /\ (sent[c] \in {"no", "steer"} \/ c \in Retried)
        /\ pc' = [pc EXCEPT ![p] = "steer"] /\ arg' = [arg EXCEPT ![p] = c]
        /\ sent' = [sent EXCEPT ![c] = "steer"] /\ UNCHANGED <<turn, input, steerOf>>
    BY <1>2 DEF Steer, Goto, storeVars
  <2> USE DEF TypeInv, TypeOK
  <2>1. \A q \in Client : pc'[q] \in {"steer", "steerQueued"} => arg'[q] \in Steered
    BY <1>2, <2>0 DEF Sending, Steer
  <2>2. ASSUME NEW d \in Input \ Retried, d # c PROVE SentOnce(d)'
    <3>1. SentOnce(d) /\ sent'[d] = sent[d]
      BY <2>0, <2>2 DEF Sending
    <3>2. \A q \in Client : Submitting(q, d)' => Submitting(q, d)
      BY <2>0, <2>2 DEF Submitting
    <3>3. \A q \in Client : pc'[q] = "steer" /\ arg'[q] = d => pc[q] = "steer" /\ arg[q] = d
      BY <2>0, <2>2
    <3> HIDE DEF TypeInv, TypeOK
    <3>q. QED BY <2>0, <3>1, <3>2, <3>3 DEF SentOnce, HasUserMessage
  <2>3. ASSUME c \notin Retried PROVE SentOnce(c)'
    <3>1. /\ SentOnce(c) /\ sent[c] \in {"no", "steer"} /\ sent'[c] = "steer"
          /\ input[c] = "none" /\ turn[c] = "none"
      BY <1>2, <2>0, <2>3 DEF Sending, SentOnce, HasUserMessage, Steer
    <3>2. \A q \in Client : ~Submitting(q, c)'
      BY <2>0, <3>1 DEF Submitting, SentOnce
    <3> HIDE DEF TypeInv, TypeOK
    <3>q. QED BY <2>0, <3>1, <3>2 DEF SentOnce, HasUserMessage
  <2>q. QED BY <2>0, <2>1, <2>2, <2>3 DEF Sending
<1>3. ASSUME NEW p \in Client, BeginTurn(p) PROVE Sending'
  <2>1. CASE BeginDuplicate(p) \/ BeginRefused(p)
    <3>1. pc[p] = "begin" /\ UNCHANGED <<turn, input, steerOf, sent>>
      BY <1>3, <2>1 DEF BeginTurn, BeginDuplicate, BeginRefused, storeVars
    <3>2. Return(p) \/ Goto(p, "queue", arg[p], None)
      BY <2>1 DEF BeginDuplicate, BeginRefused
    <3>3. \A q \in Client : \/ pc'[q] = pc[q] /\ arg'[q] = arg[q]
                            \/ pc'[q] = "idle"
                            \/ pc'[q] = "queue" /\ pc[q] = "begin" /\ arg'[q] = arg[q]
      BY <3>1, <3>2 DEF Goto, Return, TypeInv, TypeOK
    <3>4. SendingKept
      BY <3>1, <3>3 DEF SendingKept, Sending
    <3>q. QED BY <3>4, KeptSending
  <2>2. CASE BeginAccepted(p)
    <3>1. arg[p] \in Input /\ turn[arg[p]] = "none" /\ Submitting(p, arg[p])
      BY <1>3, <2>2 DEF BeginTurn, BeginAccepted, Submitting, TypeInv, ThreadsCarry
    <3>2. turn' = [turn EXCEPT ![arg[p]] = "running"] /\ UNCHANGED <<steerOf, input, sent>>
      BY <1>3, <2>2 DEF BeginTurn, BeginAccepted, StartTurn
    <3>3. \A q \in Client : /\ pc'[q] = IF q = p THEN "idle" ELSE pc[q]
                            /\ arg'[q] = IF q = p THEN None ELSE arg[q]
      BY <2>2 DEF BeginAccepted, Return, Goto, TypeInv, TypeOK
    <3>q. QED BY ZenonT(30), <3>1, <3>2, <3>3, StartSends
  <2>q. QED BY <1>3, <2>1, <2>2 DEF BeginTurn
<1>4. ASSUME NEW p \in Client, QueueInput(p) PROVE Sending'
  <2>1. /\ arg[p] \in Input /\ Submitting(p, arg[p]) /\ Return(p) /\ UNCHANGED <<turn, steerOf, sent>>
    BY <1>4 DEF QueueInput, TypeInv, ThreadsCarry, Submitting
  <2>2. \A q \in Client : /\ pc'[q] = IF q = p THEN "idle" ELSE pc[q]
                          /\ arg'[q] = IF q = p THEN None ELSE arg[q]
    BY <2>1 DEF Return, Goto, TypeInv, TypeOK
  <2>3. CASE turn[arg[p]] = "none" /\ input[arg[p]] = "none" /\ input' = [input EXCEPT ![arg[p]] = "queued"]
    BY <2>1, <2>2, <2>3, QueuedSends
  <2>4. CASE UNCHANGED input
    <3>1. SendingKept
      BY <2>1, <2>2, <2>4 DEF SendingKept, Sending
    <3>q. QED BY <3>1, KeptSending
  <2>q. QED BY <1>4, <2>3, <2>4 DEF QueueInput
<1>5. ASSUME NEW p \in Client, AppendTurnSteer(p) PROVE Sending'
  <2>1. /\ arg[p] \in Input /\ seen[p] \in Turn /\ arg[p] \in Steered
        /\ pc[p] = "steer" /\ Return(p) /\ UNCHANGED <<turn, input, sent>>
    BY <1>5 DEF AppendTurnSteer, TypeInv, ThreadsCarry, Sending
  <2>2. CASE AcceptSteer(arg[p], seen[p])
    BY <2>1, <2>2, AcceptSends
  <2>3. CASE UNCHANGED steerOf
    <3>1. SendingKept
      BY <2>1, <2>3 DEF SendingKept, Sending, Goto, Return, TypeInv, TypeOK
    <3>q. QED BY <3>1, KeptSending
  <2>q. QED BY <1>5, <2>2, <2>3 DEF AppendTurnSteer
<1>6. ASSUME NEW p \in Client, SteerQueuedInput(p) PROVE Sending'
  <2>1. /\ arg[p] \in Input /\ seen[p] \in Turn /\ arg[p] \in Steered
        /\ Return(p) /\ UNCHANGED <<turn, sent>>
    BY <1>6 DEF SteerQueuedInput, TypeInv, ThreadsCarry, Sending
  <2>2. CASE /\ input[arg[p]] = "queued" /\ AcceptSteer(arg[p], seen[p])
             /\ input' = [input EXCEPT ![arg[p]] = "promoted"]
    BY <2>1, <2>2, AcceptSends
  <2>3. CASE UNCHANGED <<steerOf, input>>
    <3>1. SendingKept
      BY <2>1, <2>3 DEF SendingKept, Sending, Goto, Return, TypeInv, TypeOK
    <3>q. QED BY <3>1, KeptSending
  <2>q. QED BY <1>6, <2>2, <2>3 DEF SteerQueuedInput
<1>7. ASSUME NEW p \in Client, NEW c \in Input, NEW status \in {"queued", "editing", "cancelled"},
             UpdateQueuedInput(p, c, status)
      PROVE Sending'
  <2>1. /\ Active(c) /\ input' = [input EXCEPT ![c] = status] /\ UNCHANGED <<turn, steerOf, sent>>
        /\ pc' = [pc EXCEPT ![p] = "idle"] \/ pc' = [pc EXCEPT ![p] = "drain"]
        /\ arg' = [arg EXCEPT ![p] = None]
    BY <1>7 DEF UpdateQueuedInput, Return, Goto
  <2>2. \A q \in Client : /\ pc'[q] \in {"idle", "drain"} \/ (pc'[q] = pc[q] /\ q # p)
                          /\ arg'[q] = IF q = p THEN None ELSE arg[q]
    BY <2>1 DEF TypeInv, TypeOK
  <2>q. QED BY <2>1, <2>2, EditSends
<1>8. ASSUME NEW p \in Client, ClientDrain(p) PROVE Sending'
  <2>1. TryDrainQueued(worker) /\ UNCHANGED sent /\ Return(p)
    BY <1>8 DEF ClientDrain
  <2>q. QED BY <1>0, <2>1, DrainSends
<1>9. ASSUME NEW t \in Turn, WorkerDrain(t) PROVE Sending'
  <2>1. TryDrainQueued([worker EXCEPT ![t] = "none"]) /\ UNCHANGED <<sent, threadVars>>
    BY <1>9 DEF WorkerDrain
  <2>q. QED BY <1>0, <2>1, DrainSends
<1>10. ASSUME RecoverQueue PROVE Sending'
  <2>1. TryDrainQueued(worker) /\ UNCHANGED <<sent, threadVars>>
    BY <1>10 DEF RecoverQueue
  <2>q. QED BY <1>0, <2>1, DrainSends
<1>11. ASSUME NEW p \in Client, QuietRequest(p) PROVE Sending'
  BY <1>11, QuietForSending
<1>12. ASSUME NEW t \in Turn, QuietTurn(t) PROVE Sending'
  BY <1>12, QuietForSending
<1>13. ASSUME Crash \/ RecoverTurns \/ UNCHANGED vars PROVE Sending'
  BY <1>13, QuietForSending
<1>14. ASSUME NEW p \in Client, ClientCall(p) PROVE Sending'
  BY <1>1, <1>2, <1>7, <1>11, <1>14 DEF ClientCall, QuietRequest
<1>15. ASSUME NEW p \in Client, ClientStep(p) PROVE Sending'
  BY <1>3, <1>4, <1>5, <1>6, <1>8, <1>11, <1>15 DEF ClientStep, QuietRequest
<1>16. ASSUME NEW t \in Turn, WorkerStep(t) PROVE Sending'
  BY <1>9, <1>12, <1>16 DEF WorkerStep, QuietTurn
<1>17. ASSUME NEW p \in Client, RequestFails(p) PROVE Sending'
  BY <1>11, <1>17 DEF QuietRequest
<1>q. QED BY <1>10, <1>13, <1>14, <1>15, <1>16, <1>17 DEF Next

\* Nothing has been sent to a fresh daemon.
LEMMA SendingInit == Init => Sending
  BY DEF Init, Sending, SentOnce, Submitting, HasUserMessage

\* The queue and the conversation agree about every input that its client sent once,
\* whatever interleaves: queueing, promotion, steering, edits, failures, crashes.
THEOREM QueueAndHistoryAgree == Spec => []QueueMatchesHistory
<1>1. Sending => QueueMatchesHistory
  BY DEF Sending, SentOnce, QueueMatchesHistory
<1>q. QED BY <1>1, TypeInit, RegistrationInit, SendingInit, TypeStep, RegistrationStep, SendingStep,
             PTL DEF Spec

\* An input is never both a turn of its own and a steer of another, as long as clients
\* do not repeat the inputs that they may steer with.
THEOREM InputDeliveredOnce ==
  ASSUME Retried \cap Steered = {}
  PROVE  Spec => []DeliveredOnce
<1>1. TypeInv /\ Sending => DeliveredOnce
  <2> SUFFICES ASSUME TypeInv, Sending, NEW c \in Input PROVE turn[c] = "none" \/ steerOf[c] = None
    BY DEF DeliveredOnce
  <2>1. CASE c \in Retried
    BY <2>1 DEF Sending
  <2>2. CASE c \notin Retried
    BY <2>2 DEF Sending, SentOnce
  <2>q. QED BY <2>1, <2>2
<1>q. QED BY <1>1, TypeInit, RegistrationInit, SendingInit, TypeStep, RegistrationStep, SendingStep,
             PTL DEF Spec

-----------------------------------------------------------------------------
(***************************************************************************)
(* Where an accepted steer is until its turn has ended.  The seal is what  *)
(* matters: a turn whose outcome is fixed as completed, or cancelled and   *)
(* wrapped up, accepts no steer any more.                                  *)
(***************************************************************************)
SteerAtStage(c, t) ==
  /\ \/ worker[t] \in {"resolve", "stream"}
     \/ worker[t] = "wrap" /\ outcome[t] # "failed"
     => c \in pending[t] \/ steer[c] = "joined"
  /\ worker[t] \in {"wrap", "finish"} /\ outcome[t] = "completed" => steer[c] = "joined"
  /\ worker[t] = "finish" /\ outcome[t] = "cancelled" => steer[c] \in {"joined", "trailing"}

Sealed(t) ==
  /\ worker[t] \in {"wrap", "finish"} /\ outcome[t] = "completed" => ~accepting[t]
  /\ worker[t] = "finish" /\ outcome[t] = "cancelled" => ~accepting[t]

Steering ==
  /\ \A t \in Turn : accepting[t] => running = t
  /\ \A t \in Turn : \A c \in pending[t] : steerOf[c] = t /\ steer[c] = "accepted" /\ running = t
  /\ \A c \in Input : steerOf[c] # None => turn[steerOf[c]] # "none"
  /\ \A c \in Input : \A t \in Turn : steerOf[c] = t /\ running = t => SteerAtStage(c, t)
  /\ \A t \in Turn : Sealed(t)
  /\ SteersSettled

steeringVars == <<turn, running, accepting, pending, worker, outcome, steerOf, steer>>

\* A step that leaves turns, registration and steers alone keeps Steering.
LEMMA KeptSteering ==
  ASSUME Steering, UNCHANGED steeringVars
  PROVE  Steering'
  BY DEF Steering, steeringVars, SteerAtStage, Sealed, SteersSettled

\* A turn starts without steers, and accepts them.
LEMMA StartSteers ==
  ASSUME TypeInv, Registration, Steering, NEW t \in Turn, turn[t] = "none", ~TurnIsRunning,
         StartTurn(t), NEW workers \in [Turn -> WorkerStage], DrainersMayLeave(workers),
         NEW stage \in {"resolve", "stream"}, worker' = [workers EXCEPT ![t] = stage]
  PROVE  Steering'
<1>1. /\ turn' = [turn EXCEPT ![t] = "running"] /\ running' = t
      /\ accepting' = [accepting EXCEPT ![t] = TRUE]
      /\ UNCHANGED <<pending, outcome, steerOf, steer>>
  BY DEF StartTurn
<1>2. running = None /\ \A u \in Turn : worker[u] \notin {"resolve", "stream", "wrap", "finish"}
  BY DEF Registration, TurnIsRunning, TypeInv, TypeOK
<1>3. \A u \in Turn : pending[u] = {} /\ ~accepting[u]
  BY <1>2 DEF Steering, TypeInv, TypeOK
<1>4. \A u \in Turn : worker'[u] \notin {"wrap", "finish"}
  BY <1>2 DEF DrainersMayLeave
<1>5. \A u \in Turn : accepting'[u] => u = t
  BY <1>1, <1>3 DEF TypeInv, TypeOK
<1>6. \A c \in Input : steerOf[c] # t
  BY DEF Steering
<1>7. \A u \in Turn : turn'[u] = IF u = t THEN "running" ELSE turn[u]
  BY <1>1 DEF TypeInv, TypeOK
<1>8. SteersSettled'
  BY <1>1, <1>7 DEF Steering, SteersSettled
<1>9. \A c \in Input : steerOf[c] # None => turn'[steerOf[c]] # "none"
  BY <1>6, <1>7 DEF Steering, TypeInv, TypeOK
<1>q. QED BY <1>1, <1>3, <1>4, <1>5, <1>6, <1>8, <1>9 DEF Steering, Sealed

\* A turn promoted by a drain starts without steers.
LEMMA DrainSteers ==
  ASSUME TypeInv, Registration, Steering, NEW workers \in [Turn -> WorkerStage],
         DrainersMayLeave(workers), TryDrainQueued(workers)
  PROVE  Steering'
<1>1. CASE CanPromote /\ PromoteHead(workers)
  <2>1. Head(queue) \in Turn
    BY <1>1, HeadTailProperties DEF CanPromote, TypeInv, TypeOK
  <2>q. QED BY <1>1, <2>1, StartSteers DEF CanPromote, PromoteHead
<1>2. CASE worker' = workers /\ UNCHANGED <<storeVars, running, accepting, pending, cancelled, outcome, stranded>>
  <2>1. UNCHANGED <<turn, running, accepting, pending, outcome, steerOf, steer>>
    BY <1>2 DEF storeVars
  <2>2. \A t \in Turn : worker'[t] \in {"resolve", "stream", "wrap", "finish"} => worker'[t] = worker[t]
    BY <1>2 DEF DrainersMayLeave
  <2>q. QED BY <2>1, <2>2 DEF Steering, SteerAtStage, Sealed, SteersSettled
<1>q. QED BY <1>1, <1>2 DEF TryDrainQueued

\* A message is accepted only by a turn that will still look at it.
LEMMA AcceptSteers ==
  ASSUME TypeInv, Registration, Steering, NEW c \in Input, NEW t \in Turn, AcceptSteer(c, t),
         UNCHANGED <<turn, running, accepting, worker, outcome>>
  PROVE  Steering'
<1>1. /\ accepting[t] /\ turn[t] = "running" /\ running = t /\ steerOf[c] = None
      /\ steerOf' = [steerOf EXCEPT ![c] = t] /\ steer' = [steer EXCEPT ![c] = "accepted"]
      /\ pending' = [pending EXCEPT ![t] = @ \cup {c}]
  BY DEF AcceptSteer, Steering, HasUserMessage
<1>2. \A d \in Input : d # c => steerOf'[d] = steerOf[d] /\ steer'[d] = steer[d]
  BY <1>1 DEF TypeInv, TypeOK
<1>3. steerOf'[c] = t /\ steer'[c] = "accepted" /\ c \in pending'[t]
  BY <1>1 DEF TypeInv, TypeOK
<1>4. \A u \in Turn : pending[u] \subseteq pending'[u] /\ pending'[u] \subseteq pending[u] \cup {c}
  BY <1>1 DEF TypeInv, TypeOK
<1>5. \A u \in Turn : u # t => pending'[u] = {}
  BY <1>1 DEF Steering, TypeInv, TypeOK
<1>6. \A u \in Turn : \A d \in pending'[u] : steerOf'[d] = u /\ steer'[d] = "accepted" /\ running' = u
  <2> SUFFICES ASSUME NEW d \in pending'[t]
               PROVE  steerOf'[d] = t /\ steer'[d] = "accepted" /\ running' = t
    BY <1>5
  <2>1. CASE d = c
    BY <1>1, <1>3, <2>1
  <2>2. CASE d # c
    <3>1. d \in pending[t] /\ d \in Input
      BY <1>4, <2>2 DEF TypeInv, TypeOK
    <3>q. QED BY <1>1, <1>2, <2>2, <3>1 DEF Steering
  <2>q. QED BY <2>1, <2>2
<1>7. \A d \in Input : steerOf'[d] # None => turn'[steerOf'[d]] # "none"
  BY <1>1, <1>2, <1>3 DEF Steering
<1>8. ASSUME NEW d \in Input, NEW u \in Turn, steerOf'[d] = u, running' = u PROVE SteerAtStage(d, u)'
  <2>1. CASE d = c
    BY <1>1, <1>3, <1>8, <2>1 DEF SteerAtStage, Steering, Sealed, Registration
  <2>2. CASE d # c
    <3>1. SteerAtStage(d, u)
      BY <1>2, <1>8, <2>2 DEF Steering
    <3>q. QED BY <1>2, <1>4, <2>2, <3>1 DEF SteerAtStage
  <2>q. QED BY <2>1, <2>2
<1>9. SteersSettled'
  BY <1>1, <1>2, <1>3 DEF Steering, SteersSettled
<1>10. \A u \in Turn : Sealed(u)' /\ (accepting'[u] => running' = u)
  BY DEF Steering, Sealed
<1>q. QED BY <1>6, <1>7, <1>8, <1>9, <1>10 DEF Steering

\* The goroutine of a turn that is neither starting nor draining.
LEMMA WorkerSteers ==
  ASSUME TypeInv, Registration, Steering, NEW t \in Turn, QuietTurn(t)
  PROVE  Steering'
<1> USE DEF TypeInv, TypeOK
<1>1. CASE Resolve(t)
  <2>1. /\ running = t /\ UNCHANGED <<turn, running, accepting, pending, steerOf, steer>>
        /\ worker'[t] = "stream" \/ (worker'[t] = "finish" /\ outcome'[t] = "failed")
        /\ worker[t] = "resolve"
        /\ \A u \in Turn : u # t => worker'[u] = worker[u] /\ outcome'[u] = outcome[u]
    BY <1>1 DEF Resolve, Registration, storeVars
  <2> HIDE DEF TypeInv, TypeOK
  <2>q. QED BY <2>1 DEF Steering, SteerAtStage, Sealed, SteersSettled
<1>2. CASE JoinSteers(t)
  <2>1. /\ running = t /\ worker[t] = "stream"
        /\ UNCHANGED <<turn, running, accepting, worker, outcome, steerOf>>
        /\ \A c \in Input : steer'[c] = IF c \in pending[t] THEN "joined" ELSE steer[c]
        /\ pending'[t] = {} /\ \A u \in Turn : u # t => pending'[u] = pending[u]
    BY <1>2 DEF JoinSteers, ApplyTurnSteers, Registration
  <2>2. \A u \in Turn : u # t => pending'[u] = {}
    BY <2>1 DEF Steering
  <2> HIDE DEF TypeInv, TypeOK
  <2>3. SteersSettled'
    BY <2>1 DEF Steering, SteersSettled
  <2>q. QED BY <2>1, <2>2, <2>3 DEF Steering, SteerAtStage, Sealed
<1>3. ASSUME NEW status \in Terminal, StreamEnds(t, status),
             \/ UNCHANGED accepting /\ status # "completed"
             \/ pending[t] = {} /\ accepting' = [accepting EXCEPT ![t] = FALSE]
      PROVE Steering'
  <2>1. /\ running = t /\ worker[t] = "stream" /\ UNCHANGED <<turn, running, pending, steerOf, steer>>
        /\ worker'[t] = "wrap" /\ outcome'[t] = status
        /\ \A u \in Turn : u # t => worker'[u] = worker[u] /\ outcome'[u] = outcome[u]
    BY <1>3 DEF StreamEnds, Registration, storeVars, Terminal, TurnStatus, WorkerStage
  <2>2. /\ \A u \in Turn : accepting'[u] => accepting[u]
        /\ status = "completed" => pending[t] = {} /\ ~accepting'[t]
    BY <1>3
  <2> HIDE DEF TypeInv, TypeOK
  <2>q. QED BY <2>1, <2>2 DEF Steering, SteerAtStage, Sealed, SteersSettled
<1>8. CASE JoinSteersFails(t)
  <2>1. /\ running = t /\ worker[t] = "stream" /\ UNCHANGED <<turn, running, accepting, steerOf, steer>>
        /\ worker'[t] = "wrap" /\ outcome'[t] = "failed"
        /\ \A u \in Turn : u # t => worker'[u] = worker[u] /\ outcome'[u] = outcome[u]
        /\ \A u \in Turn : pending'[u] \subseteq pending[u]
    BY <1>8 DEF JoinSteersFails, Registration, storeVars, TurnStatus, WorkerStage
  <2> HIDE DEF TypeInv, TypeOK
  <2>q. QED BY <2>1 DEF Steering, SteerAtStage, Sealed, SteersSettled
<1>4. CASE StreamTurn(t)
  BY <1>2, <1>3, <1>4, <1>8 DEF StreamTurn, StreamCompletes, StreamFails, StreamCancelled, Terminal
<1>5. CASE WrapUp(t)
  <2>1. /\ running = t /\ worker[t] = "wrap" /\ UNCHANGED <<turn, running, steerOf>>
        /\ worker'[t] = "finish" /\ \A u \in Turn : u # t => worker'[u] = worker[u]
        /\ ~accepting'[t] /\ \A u \in Turn : accepting'[u] => accepting[u]
        /\ pending'[t] = {} /\ \A u \in Turn : u # t => pending'[u] = pending[u]
    BY <1>5 DEF WrapUp, ApplyTurnSteers, Registration, WorkerStage
  <2>2. \A u \in Turn : pending'[u] = {}
    BY <2>1 DEF Steering
  <2>3. turn[t] = "running" /\ \A c \in pending[t] : steerOf[c] = t /\ steer[c] = "accepted"
    BY <2>1 DEF Steering, Registration
  <2>4. CASE ApplyTurnSteers(t, "trailing") /\ UNCHANGED outcome
    <3>1. \A c \in Input : steer'[c] = IF c \in pending[t] THEN "trailing" ELSE steer[c]
      BY <2>4 DEF ApplyTurnSteers
    <3> HIDE DEF TypeInv, TypeOK
    <3>2. SteersSettled'
      BY <2>1, <2>3, <3>1 DEF Steering, SteersSettled
    <3>3. \A c \in Input : steerOf'[c] = t => SteerAtStage(c, t)'
      BY <2>1, <2>3, <2>4, <3>1 DEF Steering, SteerAtStage
    <3>4. \A u \in Turn : Sealed(u)' /\ (accepting'[u] => running' = u)
      BY <2>1, <2>4 DEF Steering, Sealed
    <3>q. QED BY <2>1, <2>2, <3>2, <3>3, <3>4 DEF Steering
  <2>5. CASE outcome' = [outcome EXCEPT ![t] = "failed"] /\ UNCHANGED steer
    <3>1. outcome'[t] = "failed" /\ \A u \in Turn : u # t => outcome'[u] = outcome[u]
      BY <2>5 DEF TurnStatus
    <3> HIDE DEF TypeInv, TypeOK
    <3>2. SteersSettled'
      BY <2>1, <2>5 DEF Steering, SteersSettled
    <3>3. \A c \in Input : SteerAtStage(c, t)'
      BY <2>1, <3>1 DEF SteerAtStage
    <3>4. \A u \in Turn : Sealed(u)' /\ (accepting'[u] => running' = u)
      BY <2>1, <3>1 DEF Steering, Sealed
    <3>q. QED BY <2>1, <2>2, <3>2, <3>3, <3>4 DEF Steering
  <2>q. QED BY <1>5, <2>4, <2>5 DEF WrapUp
<1>6. CASE FinishTurn(t)
  <2>1. /\ running = t /\ worker[t] = "finish" /\ running' = None
        /\ UNCHANGED <<steerOf, steer>>
        /\ worker'[t] = "drain" /\ \A u \in Turn : u # t => worker'[u] = worker[u]
        /\ turn'[t] = outcome[t] /\ \A u \in Turn : u # t => turn'[u] = turn[u]
        /\ outcome[t] \in Terminal
    BY <1>6 DEF FinishTurn, ClearRunning, Registration, WorkerStage
  <2>2. \A u \in Turn : ~accepting'[u] /\ pending'[u] = {}
    BY <1>6, <2>1 DEF FinishTurn, ClearRunning, Steering
  <2>3. \A u \in Turn : worker'[u] \notin {"wrap", "finish"}
    BY <2>1 DEF Registration
  <2>4. SteersSettled'
    BY <2>1 DEF Steering, SteersSettled, SteerAtStage
  <2>5. \A c \in Input : steerOf'[c] # None => turn'[steerOf'[c]] # "none"
    BY <2>1 DEF Steering, Terminal
  <2>q. QED BY <2>1, <2>2, <2>3, <2>4, <2>5 DEF Steering, Sealed
<1>7. CASE FinishTurnFails(t)
  <2>1. /\ running = t /\ worker[t] = "finish" /\ running' = None
        /\ UNCHANGED <<turn, steerOf, steer>>
        /\ worker'[t] = "none" /\ \A u \in Turn : u # t => worker'[u] = worker[u]
    BY <1>7 DEF FinishTurnFails, ClearRunning, Registration, WorkerStage, storeVars
  <2>2. \A u \in Turn : ~accepting'[u] /\ pending'[u] = {}
    BY <1>7, <2>1 DEF FinishTurnFails, ClearRunning, Steering
  <2>3. \A u \in Turn : worker'[u] \notin {"wrap", "finish"}
    BY <2>1 DEF Registration
  <2> HIDE DEF TypeInv, TypeOK
  <2>4. SteersSettled'
    BY <2>1 DEF Steering, SteersSettled
  <2>q. QED BY <2>1, <2>2, <2>3, <2>4 DEF Steering, Sealed
<1>9. CASE WorkerDrainFails(t)
  <2>1. /\ worker[t] = "drain" /\ worker'[t] = "none" /\ \A u \in Turn : u # t => worker'[u] = worker[u]
        /\ UNCHANGED <<turn, running, accepting, pending, outcome, steerOf, steer>>
    BY <1>9 DEF WorkerDrainFails, storeVars, WorkerStage
  <2> HIDE DEF TypeInv, TypeOK
  <2>q. QED BY <2>1 DEF Steering, SteerAtStage, Sealed, SteersSettled
<1>q. QED BY <1>1, <1>4, <1>5, <1>6, <1>7, <1>9 DEF QuietTurn

\* A crash loses pendingSteers, and with them every turn that could complete.
LEMMA CrashSteers ==
  ASSUME TypeInv, Registration, Steering, Crash \/ RecoverTurns
  PROVE  Steering'
<1>1. CASE Crash
  <2>1. /\ running' = None /\ UNCHANGED <<turn, steerOf, steer>>
        /\ \A t \in Turn : ~accepting'[t] /\ pending'[t] = {} /\ worker'[t] = "none"
    BY <1>1 DEF Crash, storeVars
  <2>2. SteersSettled'
    BY <2>1 DEF Steering, SteersSettled
  <2>q. QED BY <2>1, <2>2 DEF Steering, Sealed
<1>2. CASE RecoverTurns
  <2>1. /\ running = None /\ UNCHANGED <<running, accepting, pending, worker, outcome, steerOf, steer>>
        /\ \A t \in Turn : turn'[t] = IF turn[t] = "running" THEN "failed" ELSE turn[t]
    BY <1>2 DEF RecoverTurns, Registration, activeVars
  <2>2. SteersSettled'
    BY <2>1 DEF Steering, SteersSettled
  <2>3. \A c \in Input : steerOf'[c] # None => turn'[steerOf'[c]] # "none"
    BY <2>1 DEF Steering, TypeInv, TypeOK
  <2>q. QED BY <2>1, <2>2, <2>3 DEF Steering, Sealed
<1>q. QED BY <1>1, <1>2

\* Requests that touch neither a turn nor a steer.
QuietForSteers(p) ==
  \/ CheckQueue(p) \/ Cancel(p) \/ QueueInput(p) \/ RequestFails(p)
  \/ \E c \in Input : Submit(p, c) \/ Steer(p, c) \/ SteerQueued(p, c)
  \/ \E c \in Input, status \in {"queued", "editing", "cancelled"} : UpdateQueuedInput(p, c, status)
  \/ \E order \in Reorderings : ReorderQueuedInputs(p, order)
  \/ \E w \in Wake, t \in Turn \cup {None} : SubmitSystem(p, w, t)

\* Calls and steps of request threads keep Steering.
LEMMA ClientSteers ==
  ASSUME TypeInv, Registration, Steering, NEW p \in Client,
         ClientCall(p) \/ ClientStep(p) \/ RequestFails(p)
  PROVE  Steering'
<1>0. worker \in [Turn -> WorkerStage] /\ DrainersMayLeave(worker)
  BY DEF TypeInv, TypeOK, DrainersMayLeave
<1>1. CASE QuietForSteers(p)
  <2>1. UNCHANGED steeringVars
    BY <1>1 DEF QuietForSteers, steeringVars, storeVars, activeVars, CheckQueue, Cancel, QueueInput,
                Submit, Steer, SteerQueued, UpdateQueuedInput, ReorderQueuedInputs, SubmitSystem,
                RequestFails
  <2>q. QED BY <2>1, KeptSteering
<1>2. CASE BeginTurn(p)
  <2>1. CASE BeginDuplicate(p) \/ BeginRefused(p)
    <3>1. UNCHANGED steeringVars
      BY <2>1 DEF BeginDuplicate, BeginRefused, steeringVars, storeVars, activeVars
    <3>q. QED BY <3>1, KeptSteering
  <2>2. CASE BeginAccepted(p)
    <3>1. /\ turn[arg[p]] = "none" /\ ~TurnIsRunning /\ StartTurn(arg[p])
          /\ worker' = [worker EXCEPT ![arg[p]] = "stream"]
      BY <2>2 DEF BeginAccepted
    <3>2. arg[p] \in Turn
      BY <1>2 DEF BeginTurn, TypeInv, ThreadsCarry
    <3>q. QED BY <1>0, <3>1, <3>2, StartSteers
  <2>q. QED BY <1>2, <2>1, <2>2 DEF BeginTurn
<1>3. CASE BeginSystemTurn(p)
  <2>1. CASE UNCHANGED <<storeVars, activeVars>>
    <3>1. UNCHANGED steeringVars
      BY <2>1 DEF steeringVars, storeVars, activeVars
    <3>q. QED BY <3>1, KeptSteering
  <2>2. CASE /\ turn[arg[p]] = "none" /\ ~TurnIsRunning /\ StartTurn(arg[p])
             /\ worker' = [worker EXCEPT ![arg[p]] = "stream"]
    <3>1. arg[p] \in Turn
      BY <1>3 DEF BeginSystemTurn, TypeInv, ThreadsCarry
    <3>q. QED BY <1>0, <2>2, <3>1, StartSteers
  <2>q. QED BY <1>3, <2>1, <2>2 DEF BeginSystemTurn
<1>4. CASE AppendTurnSteer(p)
  <2>1. /\ arg[p] \in Input /\ seen[p] \in Turn
        /\ UNCHANGED <<turn, running, accepting, worker, outcome>>
    BY <1>4 DEF AppendTurnSteer, TypeInv, ThreadsCarry
  <2>2. CASE UNCHANGED <<steerOf, steer, pending>>
    BY <2>1, <2>2, KeptSteering DEF steeringVars
  <2>q. QED BY <1>4, <2>1, <2>2, AcceptSteers DEF AppendTurnSteer
<1>5. CASE SteerQueuedInput(p)
  <2>1. /\ arg[p] \in Input /\ seen[p] \in Turn
        /\ UNCHANGED <<turn, running, accepting, worker, outcome>>
    BY <1>5 DEF SteerQueuedInput, TypeInv, ThreadsCarry
  <2>2. CASE UNCHANGED <<steerOf, steer, pending>>
    BY <2>1, <2>2, KeptSteering DEF steeringVars
  <2>q. QED BY <1>5, <2>1, <2>2, AcceptSteers DEF SteerQueuedInput
<1>6. CASE CancelOne(p)
  <2>1. /\ UNCHANGED <<turn, running, pending, worker, outcome, steerOf, steer>>
        /\ \A t \in Turn : accepting'[t] => accepting[t]
    BY <1>6 DEF CancelOne, storeVars, TypeInv, TypeOK
  <2>q. QED BY <2>1 DEF Steering, SteerAtStage, Sealed, SteersSettled
<1>7. CASE ClientDrain(p)
  <2>1. TryDrainQueued(worker)
    BY <1>7 DEF ClientDrain
  <2>q. QED BY <1>0, <2>1, DrainSteers
<1>q. QED
  BY <1>1, <1>2, <1>3, <1>4, <1>5, <1>6, <1>7 DEF ClientCall, ClientStep, QuietForSteers

\* Every step keeps accepted steers pending until the turn has settled them.
LEMMA SteeringStep == TypeInv /\ Registration /\ Steering /\ [Next]_vars => Steering'
<1> SUFFICES ASSUME TypeInv, Registration, Steering, [Next]_vars PROVE Steering'
  OBVIOUS
<1>1. ASSUME NEW p \in Client, ClientCall(p) \/ ClientStep(p) \/ RequestFails(p) PROVE Steering'
  BY <1>1, ClientSteers
<1>2. ASSUME NEW t \in Turn, WorkerStep(t) PROVE Steering'
  <2>1. CASE WorkerDrain(t)
    <3>1. [worker EXCEPT ![t] = "none"] \in [Turn -> WorkerStage]
      BY DEF TypeInv, TypeOK, WorkerStage
    <3>2. TryDrainQueued([worker EXCEPT ![t] = "none"]) /\ worker[t] = "drain"
      BY <2>1 DEF WorkerDrain
    <3>3. DrainersMayLeave([worker EXCEPT ![t] = "none"])
      BY <3>2 DEF DrainersMayLeave, TypeInv, TypeOK
    <3>q. QED BY <3>1, <3>2, <3>3, DrainSteers
  <2>q. QED BY <1>2, <2>1, WorkerSteers DEF WorkerStep, QuietTurn
<1>3. ASSUME RecoverQueue PROVE Steering'
  <2>1. TryDrainQueued(worker) /\ worker \in [Turn -> WorkerStage] /\ DrainersMayLeave(worker)
    BY <1>3 DEF RecoverQueue, TypeInv, TypeOK, DrainersMayLeave
  <2>q. QED BY <2>1, DrainSteers
<1>4. CASE UNCHANGED vars
  <2>1. UNCHANGED steeringVars
    BY <1>4 DEF vars, storeVars, activeVars, steeringVars
  <2>q. QED BY <2>1, KeptSteering
<1>q. QED BY <1>1, <1>2, <1>3, <1>4, CrashSteers DEF Next

\* No turn of a fresh daemon has steers.
LEMMA SteeringInit == Init => Steering
  BY DEF Init, Steering, Sealed, SteersSettled

\* No accepted steer is dropped by the end of its turn, whatever races with the seal:
\* cancellation, the end of the stream, failures of the turn, crashes.
THEOREM AcceptedSteersSettle == Spec => []SteersSettled
<1>1. Steering => SteersSettled
  BY DEF Steering
<1>q. QED BY <1>1, TypeInit, RegistrationInit, SteeringInit, TypeStep, RegistrationStep, SteeringStep,
             PTL DEF Spec

-----------------------------------------------------------------------------
(***************************************************************************)
(* The refinement of InputDelivery: every step of the engine and the store *)
(* is, at the tables, one step of the delivery protocol or none.  What the *)
(* protocol asks of an input before it acts on it -- nothing has come of   *)
(* it yet, or it waits -- is what Sending says of an input sent once.      *)
(***************************************************************************)
DeliveryInv == TypeInv /\ Registration /\ Sending

\* The running row is the turn the protocol calls current.
LEMMA RunningTurnIs ==
  ASSUME OneRunningTurn
  PROVE  /\ \A t \in Turn : turn[t] = "running" => RunningTurn = t
         /\ ~TurnIsRunning => RunningTurn = None
  BY DEF OneRunningTurn, RunningTurn, TurnIsRunning

\* The same for the state after a step.
LEMMA RunningTurnWillBe ==
  ASSUME OneRunningTurn'
  PROVE  /\ \A t \in Turn : turn'[t] = "running" => RunningTurn' = t
         /\ (\A t \in Turn : turn'[t] # "running") => RunningTurn' = None
  BY DEF OneRunningTurn, RunningTurn, TurnIsRunning

Fates == [c \in Input |-> FateOf(c)]
Ended == {t \in Turn : turn[t] \in Terminal}

\* What the protocol sees of a state.
deliveryVars == <<Fates, queue, RunningTurn, Ended>>

\* A step that changes no row of an input, and no turn, is no step of the protocol.
LEMMA Unseen ==
  ASSUME UNCHANGED <<turn, input, queue, steerOf>>
  PROVE  UNCHANGED deliveryVars
  BY DEF deliveryVars, Fates, Ended, FateOf, Active, RunningTurn, TurnIsRunning

\* What the tables say about an input, before a step and after it.
LEMMA FateIs ==
  ASSUME NEW c \in Input
  PROVE  /\ turn[c] # "none" => FateOf(c) = "started"
         /\ turn[c] = "none" /\ steerOf[c] # None => FateOf(c) = "joined"
         /\ ~HasUserMessage(c) /\ input[c] = "cancelled" => FateOf(c) = "withdrawn"
         /\ ~HasUserMessage(c) /\ Active(c) => FateOf(c) = "waiting"
         /\ ~HasUserMessage(c) /\ input[c] = "none" => FateOf(c) = "new"
  BY DEF FateOf, HasUserMessage, Active

LEMMA FateWillBe ==
  ASSUME NEW c \in Input
  PROVE  /\ turn'[c] # "none" => FateOf(c)' = "started"
         /\ turn'[c] = "none" /\ steerOf'[c] # None => FateOf(c)' = "joined"
         /\ ~HasUserMessage(c)' /\ input'[c] = "cancelled" => FateOf(c)' = "withdrawn"
         /\ ~HasUserMessage(c)' /\ input'[c] \in {"queued", "editing"} => FateOf(c)' = "waiting"
  BY DEF FateOf, HasUserMessage, Active

\* The fate of one input is decided, the rows of the others stay.
LEMMA Decided ==
  ASSUME NEW c \in Input, NEW verdict, FateOf(c)' = verdict,
         \A d \in Input : d # c => turn'[d] = turn[d] /\ steerOf'[d] = steerOf[d] /\ input'[d] = input[d]
  PROVE  Fates' = [Fates EXCEPT ![c] = verdict]
<1>1. \A d \in Input : d # c => FateOf(d)' = FateOf(d)
  BY DEF FateOf, Active, HasUserMessage
<1>q. QED BY <1>1 DEF Fates

\* A turn starts: it occupies the session.
LEMMA StartOccupies ==
  ASSUME TypeInv, Registration', NEW t \in Turn, turn[t] = "none", ~TurnIsRunning,
         turn' = [turn EXCEPT ![t] = "running"]
  PROVE  RunningTurn = None /\ t \notin Ended /\ RunningTurn' = t /\ Ended' = Ended
<1>1. RunningTurn = None
  BY DEF RunningTurn
<1>2. turn'[t] = "running" /\ \A u \in Turn : u # t => turn'[u] = turn[u]
  BY DEF TypeInv, TypeOK
<1>3. RunningTurn' = t
  BY <1>2, RunningTurnWillBe DEF Registration
<1>q. QED BY <1>1, <1>2, <1>3 DEF Ended, Terminal

DeliveryStep == Delivery!Next \/ UNCHANGED deliveryVars

\* A submit starts a new input, or leaves the tables alone.
LEMMA BeginDelivers ==
  ASSUME DeliveryInv, Registration', Retried = {}, NEW p \in Client, BeginTurn(p)
  PROVE  DeliveryStep
<1>1. CASE BeginDuplicate(p) \/ BeginRefused(p)
  <2>1. UNCHANGED <<turn, input, queue, steerOf>>
    BY <1>1 DEF BeginDuplicate, BeginRefused, storeVars
  <2>q. QED BY <2>1, Unseen DEF DeliveryStep
<1>2. CASE BeginAccepted(p)
  <2>1. PICK c \in Input : c = arg[p] /\ pc[p] = "begin"
    BY <1>2 DEF BeginTurn, DeliveryInv, TypeInv, ThreadsCarry
  <2>2. /\ turn[c] = "none" /\ ~TurnIsRunning /\ turn' = [turn EXCEPT ![c] = "running"]
        /\ UNCHANGED <<steerOf, input, queue>>
    BY <1>2, <2>1 DEF BeginAccepted, StartTurn
  <2>3. input[c] = "none" /\ ~HasUserMessage(c)
    BY <2>1 DEF DeliveryInv, Sending, SentOnce, Submitting
  <2>4. turn'[c] = "running" /\ \A d \in Input : d # c => turn'[d] = turn[d]
    BY <2>2 DEF DeliveryInv, TypeInv, TypeOK
  <2>5. FateOf(c) = "new" /\ FateOf(c)' = "started"
    BY <2>3, <2>4, FateIs, FateWillBe
  <2>6. Fates' = [Fates EXCEPT ![c] = "started"] /\ Fates[c] = "new"
    BY <2>2, <2>4, <2>5, Decided DEF Fates
  <2>7. RunningTurn = None /\ c \notin Ended /\ RunningTurn' = c /\ Ended' = Ended
    BY <2>2, StartOccupies DEF DeliveryInv
  <2>8. Delivery!StartNew(c)
    BY <2>2, <2>6, <2>7 DEF Delivery!StartNew, Delivery!Decide, Delivery!Occupy, Fates, Ended
  <2>q. QED BY <2>8 DEF DeliveryStep, Delivery!Next
<1>q. QED BY <1>1, <1>2 DEF BeginTurn

\* Whoever drains: the head of the line starts, or the tables stay.
LEMMA DrainDelivers ==
  ASSUME DeliveryInv, Registration', NEW workers, TryDrainQueued(workers)
  PROVE  DeliveryStep
<1>1. CASE CanPromote /\ PromoteHead(workers)
  <2>1. PICK c \in Input : c = Head(queue)
    BY <1>1, HeadTailProperties DEF CanPromote, DeliveryInv, TypeInv, TypeOK
  <2>2. /\ queue # <<>> /\ queue' = Tail(queue) /\ turn[c] = "none" /\ ~TurnIsRunning
        /\ turn' = [turn EXCEPT ![c] = "running"] /\ input' = [input EXCEPT ![c] = "promoted"]
        /\ UNCHANGED steerOf
    BY <1>1, <2>1 DEF CanPromote, PromoteHead, StartTurn
  <2>3. /\ turn'[c] = "running"
        /\ \A d \in Input : d # c => turn'[d] = turn[d] /\ input'[d] = input[d]
    BY <2>2 DEF DeliveryInv, TypeInv, TypeOK
  <2>4. FateOf(c)' = "started"
    BY <2>3, FateWillBe
  <2>5. Fates' = [Fates EXCEPT ![c] = "started"]
    BY <2>2, <2>3, <2>4, Decided
  <2>6. RunningTurn = None /\ c \notin Ended /\ RunningTurn' = c /\ Ended' = Ended
    BY <2>2, StartOccupies DEF DeliveryInv
  <2>7. Delivery!StartHead
    BY <2>1, <2>2, <2>5, <2>6 DEF Delivery!StartHead, Delivery!Decide, Delivery!Occupy, Fates, Ended
  <2>q. QED BY <2>7 DEF DeliveryStep, Delivery!Next
<1>2. CASE UNCHANGED storeVars
  BY <1>2, Unseen DEF storeVars, DeliveryStep
<1>q. QED BY <1>1, <1>2 DEF TryDrainQueued

\* A wake-up or a retry starts a turn that no input waits for.
LEMMA SystemTurnDelivers ==
  ASSUME DeliveryInv, Registration', NEW p \in Client, BeginSystemTurn(p)
  PROVE  DeliveryStep
<1>1. CASE UNCHANGED storeVars
  BY <1>1, Unseen DEF storeVars, DeliveryStep
<1>2. CASE turn[arg[p]] = "none" /\ ~TurnIsRunning /\ StartTurn(arg[p]) /\ UNCHANGED <<input, queue>>
  <2>1. PICK w \in Wake : w = arg[p]
    BY DEF BeginSystemTurn, DeliveryInv, TypeInv, ThreadsCarry
  <2>2. /\ turn[w] = "none" /\ ~TurnIsRunning /\ turn' = [turn EXCEPT ![w] = "running"]
        /\ UNCHANGED <<input, queue, steerOf>>
    BY <1>2, <2>1 DEF StartTurn
  <2>3. \A d \in Input : turn'[d] = turn[d]
    BY <2>2 DEF DeliveryInv, TypeInv, TypeOK
  <2>4. Fates' = Fates
    BY <2>2, <2>3 DEF Fates, FateOf, Active, HasUserMessage
  <2>5. RunningTurn = None /\ w \notin Ended /\ RunningTurn' = w /\ Ended' = Ended
    BY <2>2, StartOccupies DEF DeliveryInv
  <2>6. Delivery!StartWake(w)
    BY <2>2, <2>4, <2>5 DEF Delivery!StartWake, Delivery!Occupy, Fates, Ended
  <2>q. QED BY <2>6 DEF DeliveryStep, Delivery!Next
<1>q. QED BY <1>1, <1>2 DEF BeginSystemTurn, activeVars

\* A submit that finds a turn running puts its input in the line.
LEMMA QueueDelivers ==
  ASSUME DeliveryInv, Retried = {}, NEW p \in Client, QueueInput(p)
  PROVE  DeliveryStep
<1>1. PICK c \in Input : c = arg[p] /\ pc[p] = "queue"
  BY DEF QueueInput, DeliveryInv, TypeInv, ThreadsCarry
<1>2. UNCHANGED <<turn, steerOf>>
  BY DEF QueueInput
<1>3. CASE input' = [input EXCEPT ![c] = "queued"] /\ queue' = Append(queue, c)
  <2>1. input[c] = "none" /\ ~HasUserMessage(c)
    BY <1>1 DEF DeliveryInv, Sending, SentOnce, Submitting
  <2>2. input'[c] = "queued" /\ \A d \in Input : d # c => input'[d] = input[d]
    BY <1>3 DEF DeliveryInv, TypeInv, TypeOK
  <2>3. FateOf(c) = "new" /\ FateOf(c)' = "waiting"
    BY <1>2, <2>1, <2>2, FateIs, FateWillBe DEF HasUserMessage
  <2>4. Fates' = [Fates EXCEPT ![c] = "waiting"] /\ Fates[c] = "new"
    BY <1>2, <2>2, <2>3, Decided DEF Fates
  <2>5. RunningTurn' = RunningTurn /\ Ended' = Ended
    BY <1>2 DEF RunningTurn, TurnIsRunning, Ended
  <2>6. Delivery!Wait(c)
    BY <1>3, <2>4, <2>5 DEF Delivery!Wait, Delivery!Decide, Fates, Ended
  <2>q. QED BY <2>6 DEF DeliveryStep, Delivery!Next
<1>4. CASE UNCHANGED <<input, queue>>
  BY <1>2, <1>4, Unseen DEF DeliveryStep
<1>q. QED BY <1>1, <1>3, <1>4 DEF QueueInput

\* A steer joins the running turn; from the line when it waited there.
LEMMA SteerDelivers ==
  ASSUME DeliveryInv, Retried = {}, NEW c \in Input, NEW t \in Turn, AcceptSteer(c, t), UNCHANGED turn,
         \/ UNCHANGED <<input, queue>> /\ input[c] = "none"
         \/ /\ input[c] = "queued" /\ input' = [input EXCEPT ![c] = "promoted"] /\ Dequeue(c)
  PROVE  DeliveryStep
<1>1. /\ turn[t] = "running" /\ ~HasUserMessage(c) /\ steerOf' = [steerOf EXCEPT ![c] = t]
      /\ None \notin Turn
  BY DEF AcceptSteer
<1>2. /\ steerOf'[c] # None /\ turn'[c] = "none"
      /\ \A d \in Input : d # c => steerOf'[d] = steerOf[d] /\ input'[d] = input[d]
  BY <1>1 DEF DeliveryInv, TypeInv, TypeOK, HasUserMessage
<1>3. FateOf(c)' = "joined"
  BY <1>2, FateWillBe
<1>4. Fates' = [Fates EXCEPT ![c] = "joined"]
  BY <1>2, <1>3, Decided
<1>5. RunningTurn # None
  BY <1>1, RunningTurnIs DEF DeliveryInv, Registration
<1>6. RunningTurn' = RunningTurn /\ Ended' = Ended
  BY DEF RunningTurn, TurnIsRunning, Ended
<1>7. \/ Fates[c] = "new" /\ UNCHANGED queue
      \/ Fates[c] = "waiting" /\ Delivery!Leave(c)
  BY <1>1, FateIs DEF Fates, Active, Dequeue, Delivery!Leave, RemoveAt, Delivery!RemoveAt
<1>8. Delivery!Join(c)
  BY <1>4, <1>5, <1>6, <1>7 DEF Delivery!Join, Delivery!Decide, Fates, Ended
<1>q. QED BY <1>8 DEF DeliveryStep, Delivery!Next

\* A waiting input is withdrawn, or stays where it is while it is edited.
LEMMA EditDelivers ==
  ASSUME DeliveryInv, Retried = {}, NEW p \in Client, NEW c \in Input,
         NEW status \in {"queued", "editing", "cancelled"}, UpdateQueuedInput(p, c, status)
  PROVE  DeliveryStep
<1>1. /\ Active(c) /\ input' = [input EXCEPT ![c] = status] /\ UNCHANGED <<turn, steerOf>>
      /\ IF status = "cancelled" THEN Dequeue(c) ELSE UNCHANGED queue
  BY DEF UpdateQueuedInput
<1>2. ~HasUserMessage(c) /\ ~HasUserMessage(c)'
  BY <1>1 DEF DeliveryInv, Sending, SentOnce, Active, HasUserMessage
<1>3. input'[c] = status /\ \A d \in Input : d # c => input'[d] = input[d]
  BY <1>1 DEF DeliveryInv, TypeInv, TypeOK
<1>4. RunningTurn' = RunningTurn /\ Ended' = Ended
  BY <1>1 DEF RunningTurn, TurnIsRunning, Ended
<1>5. FateOf(c) = "waiting"
  BY <1>1, <1>2, FateIs
<1>6. CASE status = "cancelled"
  <2>1. FateOf(c)' = "withdrawn"
    BY <1>2, <1>3, <1>6, FateWillBe
  <2>2. Fates' = [Fates EXCEPT ![c] = "withdrawn"]
    BY <1>1, <1>3, <2>1, Decided
  <2>3. Delivery!Withdraw(c)
    BY <1>1, <1>4, <1>5, <1>6, <2>2
       DEF Delivery!Withdraw, Delivery!Decide, Delivery!Leave, Dequeue, RemoveAt, Delivery!RemoveAt, Fates, Ended
  <2>q. QED BY <2>3 DEF DeliveryStep, Delivery!Next
<1>7. CASE status # "cancelled"
  <2>1. FateOf(c)' = FateOf(c)
    BY <1>2, <1>3, <1>5, <1>7, FateWillBe
  <2>2. \A d \in Input : FateOf(d)' = FateOf(d)
    BY <1>1, <1>3, <2>1 DEF FateOf, Active, HasUserMessage
  <2>q. QED BY <1>1, <1>4, <1>7, <2>2 DEF DeliveryStep, deliveryVars, Fates
<1>q. QED BY <1>6, <1>7

\* The user arranges the line anew.
LEMMA ReorderDelivers ==
  ASSUME NEW p \in Client, NEW order \in Reorderings, ReorderQueuedInputs(p, order)
  PROVE  DeliveryStep
<1>1. /\ queue' \in [DOMAIN queue -> ToSet(queue)] /\ ToSet(queue') = ToSet(queue)
      /\ UNCHANGED <<turn, input, steerOf>>
  BY DEF ReorderQueuedInputs, Reorderings
<1>2. UNCHANGED <<Fates, RunningTurn, Ended>>
  BY <1>1 DEF Fates, FateOf, Active, HasUserMessage, RunningTurn, TurnIsRunning, Ended
<1>3. Delivery!Rearrange
  BY <1>1, <1>2 DEF Delivery!Rearrange, ToSet, Delivery!ToSet, Fates, Ended
<1>q. QED BY <1>3 DEF DeliveryStep, Delivery!Next

\* A turn ends, by its goroutine or by the recovery after a crash.
LEMMA EndDelivers ==
  ASSUME DeliveryInv, NEW t \in Turn, turn[t] = "running", UNCHANGED <<input, queue, steerOf>>,
         turn' \in [Turn -> TurnStatus], turn'[t] \in Terminal,
         \A u \in Turn : u # t => turn'[u] = turn[u]
  PROVE  DeliveryStep
<1>1. RunningTurn = t /\ t # None
  BY RunningTurnIs DEF DeliveryInv, Registration
<1>2. \A u \in Turn : turn'[u] # "running"
  BY DEF DeliveryInv, Registration, OneRunningTurn, Terminal
<1>3. RunningTurn' = None
  BY <1>2 DEF RunningTurn, TurnIsRunning
<1>4. Ended' = Ended \cup {t}
  BY DEF Ended
<1>5. \A c \in Input : turn[c] = "none" <=> turn'[c] = "none"
  BY DEF Terminal
<1>6. Fates' = Fates
  BY <1>5 DEF Fates, FateOf, Active, HasUserMessage
<1>7. Delivery!End
  BY <1>1, <1>3, <1>4, <1>6 DEF Delivery!End, Fates, Ended
<1>q. QED BY <1>7 DEF DeliveryStep, Delivery!Next

\* What is left touches no table of the protocol.
LEMMA RestUnseen ==
  ASSUME \/ \E p \in Client : \/ CheckQueue(p) \/ Cancel(p) \/ CancelOne(p) \/ RequestFails(p)
                              \/ \E c \in Input : Submit(p, c) \/ Steer(p, c) \/ SteerQueued(p, c)
                              \/ \E w \in Wake, u \in Turn \cup {None} : SubmitSystem(p, w, u)
         \/ \E t \in Turn : \/ Resolve(t) \/ StreamTurn(t) \/ WrapUp(t)
                            \/ FinishTurnFails(t) \/ WorkerDrainFails(t)
         \/ Crash \/ UNCHANGED vars
  PROVE  DeliveryStep
<1>1. UNCHANGED <<turn, input, queue, steerOf>>
  BY DEF storeVars, activeVars, vars, CheckQueue, Cancel, CancelOne, RequestFails, Submit, Steer,
         SteerQueued, SubmitSystem, Resolve, StreamTurn, JoinSteers, JoinSteersFails, StreamCompletes,
         StreamFails, StreamCancelled, StreamEnds, WrapUp, FinishTurnFails, WorkerDrainFails, Crash
<1>q. QED BY <1>1, Unseen DEF DeliveryStep

\* Every step of the engine and the store is one of the protocol or none.
LEMMA StepDelivers ==
  ASSUME Retried = {}, DeliveryInv, DeliveryInv', [Next]_vars
  PROVE  DeliveryStep
<1>0. Registration'
  BY DEF DeliveryInv
<1>1. ASSUME NEW p \in Client, ClientCall(p) PROVE DeliveryStep
  BY <1>1, EditDelivers, ReorderDelivers, RestUnseen DEF ClientCall
<1>2. ASSUME NEW p \in Client, AppendTurnSteer(p) PROVE DeliveryStep
  <2>1. PICK c \in Input : c = arg[p] /\ pc[p] = "steer"
    BY <1>2 DEF AppendTurnSteer, DeliveryInv, TypeInv, ThreadsCarry
  <2>2. PICK t \in Turn : t = seen[p]
    BY <2>1 DEF DeliveryInv, TypeInv, ThreadsCarry
  <2>3. input[c] = "none" /\ UNCHANGED <<turn, input, queue>>
    BY <1>2, <2>1 DEF AppendTurnSteer, DeliveryInv, Sending, SentOnce
  <2>4. CASE AcceptSteer(c, t)
    BY <2>3, <2>4, SteerDelivers
  <2>5. CASE UNCHANGED steerOf
    BY <2>3, <2>5, Unseen DEF DeliveryStep
  <2>q. QED BY <1>2, <2>1, <2>2, <2>4, <2>5 DEF AppendTurnSteer
<1>3. ASSUME NEW p \in Client, SteerQueuedInput(p) PROVE DeliveryStep
  <2>1. PICK c \in Input : c = arg[p] /\ pc[p] = "steerQueued"
    BY <1>3 DEF SteerQueuedInput, DeliveryInv, TypeInv, ThreadsCarry
  <2>2. PICK t \in Turn : t = seen[p]
    BY <2>1 DEF DeliveryInv, TypeInv, ThreadsCarry
  <2>3. UNCHANGED turn
    BY <1>3 DEF SteerQueuedInput
  <2>4. CASE /\ input[c] = "queued" /\ AcceptSteer(c, t)
             /\ input' = [input EXCEPT ![c] = "promoted"] /\ Dequeue(c)
    BY <2>3, <2>4, SteerDelivers
  <2>5. CASE UNCHANGED <<steerOf, input, queue>>
    BY <2>3, <2>5, Unseen DEF DeliveryStep
  <2>q. QED BY <1>3, <2>1, <2>2, <2>4, <2>5 DEF SteerQueuedInput
<1>4. ASSUME NEW p \in Client, ClientStep(p) PROVE DeliveryStep
  <2>1. CASE ClientDrain(p)
    BY <1>0, <2>1, DrainDelivers DEF ClientDrain
  <2>q. QED BY <1>0, <1>2, <1>3, <1>4, <2>1, BeginDelivers, QueueDelivers, SystemTurnDelivers, RestUnseen
            DEF ClientStep
<1>5. ASSUME NEW t \in Turn, WorkerStep(t) PROVE DeliveryStep
  <2>1. CASE WorkerDrain(t)
    BY <1>0, <2>1, DrainDelivers DEF WorkerDrain
  <2>2. CASE FinishTurn(t)
    <3>1. /\ turn[t] = "running" /\ outcome[t] \in Terminal /\ turn' = [turn EXCEPT ![t] = outcome[t]]
          /\ UNCHANGED <<input, queue, steerOf>>
      BY <2>2 DEF FinishTurn, DeliveryInv, Registration
    <3>2. turn' \in [Turn -> TurnStatus] /\ turn'[t] \in Terminal /\ \A u \in Turn : u # t => turn'[u] = turn[u]
      BY <3>1 DEF DeliveryInv, TypeInv, TypeOK
    <3>q. QED BY <3>1, <3>2, EndDelivers
  <2>q. QED BY <1>5, <2>1, <2>2, RestUnseen DEF WorkerStep
<1>6. CASE RecoverTurns
  <2>1. /\ UNCHANGED <<input, queue, steerOf>>
        /\ \A t \in Turn : turn'[t] = IF turn[t] = "running" THEN "failed" ELSE turn[t]
        /\ turn' \in [Turn -> TurnStatus]
    BY <1>6 DEF RecoverTurns, DeliveryInv, TypeInv, TypeOK
  <2>2. CASE TurnIsRunning
    <3>1. PICK t \in Turn : turn[t] = "running"
      BY <2>2 DEF TurnIsRunning
    <3>2. \A u \in Turn : u # t => turn'[u] = turn[u]
      BY <2>1, <3>1 DEF DeliveryInv, Registration, OneRunningTurn
    <3>q. QED BY <2>1, <3>1, <3>2, EndDelivers DEF Terminal
  <2>3. CASE ~TurnIsRunning
    <3>1. turn' = turn
      BY <2>1, <2>3 DEF TurnIsRunning, DeliveryInv, TypeInv, TypeOK
    <3>q. QED BY <2>1, <3>1, Unseen DEF DeliveryStep
  <2>q. QED BY <2>2, <2>3
<1>7. CASE RecoverQueue
  BY <1>0, <1>7, DrainDelivers DEF RecoverQueue
<1>q. QED BY <1>1, <1>4, <1>5, <1>6, <1>7, RestUnseen DEF Next

\* A fresh session is the initial state of the protocol.
LEMMA DeliveryInit == Init => Delivery!Init
<1> SUFFICES ASSUME Init PROVE Delivery!Init
  OBVIOUS
<1>1. /\ turn = [t \in Turn |-> "none"] /\ input = [c \in Input |-> "none"] /\ queue = <<>>
      /\ steerOf = [c \in Input |-> None]
  BY DEF Init
<1>2. Fates = [c \in Input |-> "new"]
  BY <1>1 DEF Fates, FateOf, HasUserMessage, Active
<1>3. RunningTurn = None /\ Ended = {}
  BY <1>1 DEF RunningTurn, TurnIsRunning, Ended, Terminal
<1>q. QED BY <1>1, <1>2, <1>3 DEF Delivery!Init, Fates, Ended

\* With clients that send every input once, the engine and the store implement
\* the delivery protocol, through crashes, failing storage and every race of
\* requests: an input is started, joined or withdrawn, and only once.
THEOREM DeliveryIsImplemented ==
  ASSUME Retried = {}
  PROVE  Spec => DeliveryImplemented
<1>1. Init => DeliveryInv
  BY TypeInit, RegistrationInit, SendingInit DEF DeliveryInv
<1>2. DeliveryInv /\ [Next]_vars => DeliveryInv'
  BY TypeStep, RegistrationStep, SendingStep DEF DeliveryInv
<1>3. DeliveryInv /\ DeliveryInv' /\ [Next]_vars => [Delivery!Next]_(Delivery!vars)
  BY StepDelivers DEF DeliveryStep, deliveryVars, Fates, Ended, Delivery!vars
<1>q. QED BY <1>1, <1>2, <1>3, DeliveryInit, PTL DEF Spec, DeliveryImplemented, Delivery!Spec

-----------------------------------------------------------------------------
(***************************************************************************)
(* What the protocol promises of its inputs, the tables keep: these follow *)
(* from its steps alone, whichever thread of the engine takes them.        *)
(***************************************************************************)
Line(fates, s) == IsInjective(s) /\ ToSet(s) = {c \in Input : fates[c] = "waiting"}

\* An input that did not wait goes to the end of the line.
LEMMA LineGrows ==
  ASSUME NEW f, DOMAIN f = Input, NEW s \in Seq(Input), Line(f, s), NEW c \in Input, f[c] # "waiting"
  PROVE  Line([f EXCEPT ![c] = "waiting"], Append(s, c))
<1> DEFINE n == Len(s)  g == [f EXCEPT ![c] = "waiting"]  longer == Append(s, c)
<1>1. /\ n \in Nat /\ DOMAIN s = 1..n /\ DOMAIN longer = (1..n) \cup {n + 1}
      /\ longer[n + 1] = c /\ \A j \in 1..n : longer[j] = s[j] /\ s[j] \in Input
  OBVIOUS
<1>2. g[c] = "waiting" /\ \A d \in Input : d # c => g[d] = f[d]
  OBVIOUS
<1> HIDE DEF n, g, longer
<1>3. \A j \in 1..n : f[s[j]] = "waiting"
  BY <1>1 DEF Line, ToSet
<1>4. IsInjective(longer)
  BY <1>1, <1>3 DEF Line, IsInjective
<1>5. ToSet(longer) = ToSet(s) \cup {c}
  BY <1>1 DEF ToSet
<1>6. ToSet(longer) = {d \in Input : g[d] = "waiting"}
  BY <1>2, <1>5 DEF Line
<1>q. QED BY <1>4, <1>6 DEF Line, g, longer

\* The input at place i leaves the line.
LEMMA LineShrinks ==
  ASSUME NEW f, DOMAIN f = Input, NEW s \in Seq(Input), Line(f, s), NEW i \in DOMAIN s,
         NEW verdict, verdict # "waiting", NEW rest \in Seq(Input), Len(rest) = Len(s) - 1,
         \A j \in 1..Len(rest) : rest[j] = IF j < i THEN s[j] ELSE s[j + 1]
  PROVE  f[s[i]] = "waiting" /\ Line([f EXCEPT ![s[i]] = verdict], rest)
<1> DEFINE n == Len(rest)
<1>1. /\ n \in Nat /\ DOMAIN rest = 1..n /\ DOMAIN s = 1..n + 1 /\ i \in 1..n + 1 /\ s[i] \in Input
      /\ \A j \in 1..n + 1 : s[j] \in Input
  OBVIOUS
<1> HIDE DEF n
<1>2. PICK g : g = [f EXCEPT ![s[i]] = verdict]
  OBVIOUS
<1>3. g[s[i]] = verdict /\ \A d \in Input : d # s[i] => g[d] = f[d]
  BY <1>1, <1>2
<1>4. f[s[i]] = "waiting"
  BY <1>1 DEF Line, ToSet
<1>5. ASSUME NEW j \in 1..n
      PROVE  \E k \in 1..n + 1 : k # i /\ rest[j] = s[k] /\ (k = IF j < i THEN j ELSE j + 1)
  <2>1. CASE j < i
    <3>1. j \in 1..n + 1 /\ j # i /\ rest[j] = s[j]
      BY <1>1, <2>1 DEF n
    <3>q. QED BY <2>1, <3>1
  <2>2. CASE ~(j < i)
    <3>1. j + 1 \in 1..n + 1 /\ j + 1 # i /\ rest[j] = s[j + 1]
      BY <1>1, <2>2 DEF n
    <3>q. QED BY <2>2, <3>1
  <2>q. QED BY <2>1, <2>2
<1>6. IsInjective(rest)
  <2> SUFFICES ASSUME NEW a \in 1..n, NEW b \in 1..n, rest[a] = rest[b] PROVE a = b
    BY <1>1 DEF IsInjective
  <2>1. PICK k \in 1..n + 1 : k # i /\ rest[a] = s[k] /\ (k = IF a < i THEN a ELSE a + 1)
    BY <1>5
  <2>2. PICK l \in 1..n + 1 : l # i /\ rest[b] = s[l] /\ (l = IF b < i THEN b ELSE b + 1)
    BY <1>5
  <2>3. k = l
    BY <1>1, <2>1, <2>2 DEF Line, IsInjective
  <2>q. QED BY <1>1, <2>1, <2>2, <2>3
<1>7. ASSUME NEW d \in ToSet(rest) PROVE d \in Input /\ g[d] = "waiting"
  <2>1. PICK j \in 1..n : d = rest[j]
    BY <1>1 DEF ToSet
  <2>2. PICK k \in 1..n + 1 : k # i /\ d = s[k]
    BY <1>5, <2>1
  <2>3. d # s[i]
    BY <1>1, <2>2 DEF Line, IsInjective
  <2>4. d \in Input /\ d \in ToSet(s)
    BY <1>1, <2>2 DEF ToSet
  <2>5. f[d] = "waiting"
    BY <2>4 DEF Line
  <2>q. QED BY <1>3, <2>3, <2>4, <2>5
<1>8. ASSUME NEW d \in Input, g[d] = "waiting" PROVE d \in ToSet(rest)
  <2>1. d # s[i] /\ f[d] = "waiting"
    BY <1>3, <1>8
  <2>2. PICK k \in 1..n + 1 : d = s[k] /\ k # i
    BY <1>1, <2>1 DEF Line, ToSet
  <2>3. CASE k < i
    <3>1. k \in 1..n /\ rest[k] = s[k]
      BY <1>1, <2>3 DEF n
    <3>q. QED BY <1>1, <2>2, <3>1 DEF ToSet
  <2>4. CASE ~(k < i)
    <3>1. k - 1 \in 1..n /\ ~(k - 1 < i) /\ (k - 1) + 1 = k
      BY <1>1, <2>2, <2>4
    <3>2. rest[k - 1] = s[k]
      BY <3>1 DEF n
    <3>q. QED BY <1>1, <2>2, <3>1, <3>2 DEF ToSet
  <2>q. QED BY <2>3, <2>4
<1>q. QED BY <1>2, <1>4, <1>6, <1>7, <1>8 DEF Line

\* RemoveAt and Tail take one element out and move those behind it up.
LEMMA RemoveAtMoves ==
  ASSUME NEW s \in Seq(Input), NEW i \in DOMAIN s
  PROVE  /\ RemoveAt(s, i) \in Seq(Input) /\ Len(RemoveAt(s, i)) = Len(s) - 1
         /\ \A j \in 1..Len(RemoveAt(s, i)) : RemoveAt(s, i)[j] = IF j < i THEN s[j] ELSE s[j + 1]
<1> DEFINE a == SubSeq(s, 1, i - 1)  b == SubSeq(s, i + 1, Len(s))
<1>1. Len(s) \in Nat /\ i \in 1..Len(s)
  OBVIOUS
<1>2. /\ \A j \in 1..i - 1 : s[j] \in Input
      /\ \A j \in i + 1..Len(s) : s[j] \in Input
  BY <1>1
<1>3. /\ a \in Seq(Input) /\ Len(a) = i - 1
      /\ \A j \in 1..(i - 1) - 1 + 1 : a[j] = s[1 + j - 1]
  BY <1>1, <1>2, SubSeqProperties
<1>4. /\ b \in Seq(Input) /\ Len(b) = Len(s) - i
      /\ \A j \in 1..Len(s) - (i + 1) + 1 : b[j] = s[(i + 1) + j - 1]
  BY <1>1, <1>2, SubSeqProperties
<1>5. RemoveAt(s, i) = a \o b
  BY DEF RemoveAt
<1> HIDE DEF a, b
<1>0. a \o b \in Seq(Input) /\ Len(a \o b) = Len(a) + Len(b)
  BY <1>3, <1>4, ConcatProperties
<1>6. \A j \in 1..Len(a) + Len(b) : (a \o b)[j] = IF j <= Len(a) THEN a[j] ELSE b[j - Len(a)]
  BY SMTT(30), <1>3, <1>4, ConcatProperties
<1>7. Len(a \o b) = Len(s) - 1
  BY <1>0, <1>1, <1>3, <1>4
<1>8. ASSUME NEW j \in 1..Len(s) - 1 PROVE (a \o b)[j] = IF j < i THEN s[j] ELSE s[j + 1]
  <2>1. j \in 1..Len(a) + Len(b)
    BY <1>1, <1>3, <1>4
  <2>2. CASE j < i
    <3>1. j <= Len(a) /\ j \in 1..(i - 1) - 1 + 1 /\ 1 + j - 1 = j
      BY <1>1, <1>3, <2>2
    <3>q. QED BY <1>3, <1>6, <2>1, <2>2, <3>1
  <2>3. CASE ~(j < i)
    <3>1. ~(j <= Len(a)) /\ j - Len(a) = j - (i - 1)
      BY <1>1, <1>3, <2>3
    <3>2. j - (i - 1) \in 1..Len(s) - (i + 1) + 1 /\ (i + 1) + (j - (i - 1)) - 1 = j + 1
      BY <1>1, <2>3
    <3>3. (a \o b)[j] = b[j - (i - 1)]
      BY <1>6, <2>1, <3>1
    <3>4. b[j - (i - 1)] = s[(i + 1) + (j - (i - 1)) - 1]
      BY <1>4, <3>2
    <3>q. QED BY <2>3, <3>2, <3>3, <3>4
  <2>q. QED BY <2>2, <2>3
<1>q. QED BY <1>0, <1>5, <1>7, <1>8

LEMMA TailMoves ==
  ASSUME NEW s \in Seq(Input), s # <<>>
  PROVE  /\ 1 \in DOMAIN s /\ Head(s) = s[1]
         /\ Tail(s) \in Seq(Input) /\ Len(Tail(s)) = Len(s) - 1
         /\ \A j \in 1..Len(Tail(s)) : Tail(s)[j] = IF j < 1 THEN s[j] ELSE s[j + 1]
  OBVIOUS

\* A line in another order has every input once, as a set of n has no list of n with a repetition.
LEMMA LineRearranged ==
  ASSUME NEW f, NEW s \in Seq(Input), Line(f, s),
         NEW order \in [DOMAIN s -> ToSet(s)], ToSet(order) = ToSet(s)
  PROVE  Line(f, order)
<1> DEFINE S == DOMAIN s  T == ToSet(s)
<1>1. IsFiniteSet(S)
  <2>1. S = 1..Len(s) /\ 1 \in Int /\ Len(s) \in Int
    OBVIOUS
  <2>q. QED BY <2>1, FS_Interval
<1>2. s \in Surjection(S, T) /\ s \in Injection(S, T)
  BY DEF Surjection, Injection, ToSet, Line
<1>3. order \in Surjection(S, T)
  BY DEF Surjection, ToSet
<1>4. Cardinality(T) = Cardinality(S)
  BY <1>1, <1>2, FS_Surjection
<1>5. order \in Injection(S, T)
  BY <1>1, <1>3, <1>4, FS_Surjection
<1>q. QED BY <1>5 DEF Injection, Line

LineKept ==
  /\ Line(Fates, queue)'
  /\ \A c \in Input : Fates[c] \in {"withdrawn", "started", "joined"} => Fates'[c] = Fates[c]

\* A step of the protocol keeps the line and what was decided.
LEMMA ProtocolKeepsLine ==
  ASSUME queue \in Seq(Input), Line(Fates, queue), DeliveryStep
  PROVE  LineKept
<1>0. DOMAIN Fates = Input
  BY DEF Fates
<1>1. CASE UNCHANGED deliveryVars
  BY <1>1 DEF deliveryVars, LineKept
<1>2. ASSUME NEW c \in Input, Delivery!Wait(c) PROVE LineKept
  <2>1. Fates[c] = "new" /\ Fates' = [Fates EXCEPT ![c] = "waiting"] /\ queue' = Append(queue, c)
    BY <1>2 DEF Delivery!Wait, Delivery!Decide, Fates
  <2>2. Line([Fates EXCEPT ![c] = "waiting"], Append(queue, c))
    BY <1>0, <2>1, LineGrows
  <2>q. QED BY <1>0, <2>1, <2>2 DEF LineKept
<1>3. ASSUME NEW c \in Input, NEW verdict \in {"withdrawn", "started", "joined"}, NEW i \in DOMAIN queue, queue[i] = c,
             Fates' = [Fates EXCEPT ![c] = verdict], queue' = RemoveAt(queue, i)
      PROVE  LineKept
  <2>1. /\ RemoveAt(queue, i) \in Seq(Input) /\ Len(RemoveAt(queue, i)) = Len(queue) - 1
        /\ \A j \in 1..Len(RemoveAt(queue, i)) :
             RemoveAt(queue, i)[j] = IF j < i THEN queue[j] ELSE queue[j + 1]
    BY RemoveAtMoves
  <2>2. verdict # "waiting"
    OBVIOUS
  <2>3. Fates[queue[i]] = "waiting" /\ Line([Fates EXCEPT ![queue[i]] = verdict], RemoveAt(queue, i))
    BY <1>0, <2>1, <2>2, LineShrinks
  <2>q. QED BY <1>0, <1>3, <2>3 DEF LineKept
<1>4. ASSUME NEW c \in Input, NEW verdict \in {"started", "joined"}, Fates[c] = "new",
             Fates' = [Fates EXCEPT ![c] = verdict], queue' = queue
      PROVE  LineKept
  <2>1. {d \in Input : Fates'[d] = "waiting"} = {d \in Input : Fates[d] = "waiting"}
    BY <1>0, <1>4
  <2>q. QED BY <1>0, <1>4, <2>1 DEF LineKept, Line
<1>5. ASSUME NEW c \in Input, Delivery!Withdraw(c) PROVE LineKept
  <2>1. /\ Fates' = [Fates EXCEPT ![c] = "withdrawn"]
        /\ \E i \in DOMAIN queue : queue[i] = c /\ queue' = RemoveAt(queue, i)
    BY <1>5 DEF Delivery!Withdraw, Delivery!Decide, Delivery!Leave, Fates, RemoveAt, Delivery!RemoveAt
  <2>q. QED BY <1>3, <2>1
<1>6. ASSUME NEW c \in Input, Delivery!StartNew(c) PROVE LineKept
  <2>1. Fates[c] = "new" /\ Fates' = [Fates EXCEPT ![c] = "started"] /\ queue' = queue
    BY <1>6 DEF Delivery!StartNew, Delivery!Decide, Fates
  <2>q. QED BY <1>4, <2>1
<1>7. ASSUME NEW c \in Input, Delivery!Join(c) PROVE LineKept
  <2>1. /\ Fates' = [Fates EXCEPT ![c] = "joined"]
        /\ \/ Fates[c] = "new" /\ queue' = queue
           \/ \E i \in DOMAIN queue : queue[i] = c /\ queue' = RemoveAt(queue, i)
    BY <1>7 DEF Delivery!Join, Delivery!Decide, Delivery!Leave, Fates, RemoveAt, Delivery!RemoveAt
  <2>q. QED BY <1>3, <1>4, <2>1
<1>8. ASSUME Delivery!StartHead PROVE LineKept
  <2>1. /\ queue # <<>> /\ queue' = Tail(queue)
        /\ Fates' = [Fates EXCEPT ![Head(queue)] = "started"]
    BY <1>8 DEF Delivery!StartHead, Delivery!Decide, Fates
  <2>2. /\ 1 \in DOMAIN queue /\ Head(queue) = queue[1]
        /\ Tail(queue) \in Seq(Input) /\ Len(Tail(queue)) = Len(queue) - 1
        /\ \A j \in 1..Len(Tail(queue)) : Tail(queue)[j] = IF j < 1 THEN queue[j] ELSE queue[j + 1]
    BY <2>1, TailMoves
  <2>3. Fates[queue[1]] = "waiting" /\ Line([Fates EXCEPT ![queue[1]] = "started"], Tail(queue))
    BY <1>0, <2>2, LineShrinks
  <2>q. QED BY <1>0, <2>1, <2>2, <2>3 DEF LineKept
<1>9. ASSUME Delivery!Rearrange PROVE LineKept
  <2>1. Fates' = Fates /\ queue' \in [DOMAIN queue -> ToSet(queue)] /\ ToSet(queue') = ToSet(queue)
    BY <1>9 DEF Delivery!Rearrange, Fates, ToSet, Delivery!ToSet
  <2>2. Line(Fates, queue')
    BY <2>1, LineRearranged
  <2>q. QED BY <2>1, <2>2 DEF LineKept
<1>10. ASSUME Delivery!End \/ \E w \in Wake : Delivery!StartWake(w) PROVE LineKept
  <2>1. Fates' = Fates /\ queue' = queue
    BY <1>10 DEF Delivery!End, Delivery!StartWake, Fates
  <2>q. QED BY <2>1 DEF LineKept
<1>q. QED BY <1>1, <1>2, <1>5, <1>6, <1>7, <1>8, <1>9, <1>10 DEF DeliveryStep, Delivery!Next

LineInv == DeliveryInv /\ Line(Fates, queue)

LEMMA LineIs == LineIsWaiting <=> Line(Fates, queue)
  BY DEF LineIsWaiting, Line, Fates

LEMMA LineStep ==
  ASSUME Retried = {}, LineInv, [Next]_vars
  PROVE  LineInv' /\ LineKept
<1>1. DeliveryInv'
  BY TypeStep, RegistrationStep, SendingStep DEF DeliveryInv, LineInv
<1>2. DeliveryStep /\ queue \in Seq(Input)
  BY <1>1, StepDelivers DEF LineInv, DeliveryInv, TypeInv, TypeOK
<1>3. LineKept
  BY <1>2, ProtocolKeepsLine DEF LineInv
<1>q. QED BY <1>1, <1>3 DEF LineInv, LineKept

LEMMA LineInit == Init => LineInv
<1> SUFFICES ASSUME Init PROVE LineInv
  OBVIOUS
<1>1. DeliveryInv
  BY TypeInit, RegistrationInit, SendingInit DEF DeliveryInv
<1>2. queue = <<>> /\ \A c \in Input : Fates[c] = "new"
  BY DEF Init, Fates, FateOf, HasUserMessage, Active
<1>q. QED BY <1>1, <1>2 DEF LineInv, Line, IsInjective, ToSet

\* The queue holds the waiting inputs and nothing else, each once, through every
\* submit, edit, promotion, reordering, steer from the queue, crash and recovery.
THEOREM LineStaysWaiting ==
  ASSUME Retried = {}
  PROVE  Spec => []LineIsWaiting
<1>1. LineInv /\ [Next]_vars => LineInv'
  BY LineStep
<1>2. LineInv => LineIsWaiting
  BY LineIs DEF LineInv
<1>q. QED BY <1>1, <1>2, LineInit, PTL DEF Spec

\* A drain, a submit or a steer never takes an input whose withdrawal the client
\* has seen, and no edit withdraws one that a turn has taken.
THEOREM DecisionsAreFinal ==
  ASSUME Retried = {}
  PROVE  Spec => DecisionsStand
<1>1. LineInv /\ [Next]_vars => LineInv'
  BY LineStep
<1>2. LineInv /\ [Next]_vars =>
        [\A c \in Input : FateOf(c) \in {"withdrawn", "started", "joined"} => FateOf(c)' = FateOf(c)]_vars
  BY LineStep DEF LineKept, Fates
<1>q. QED BY <1>1, <1>2, LineInit, PTL DEF Spec, DecisionsStand

\* An input whose client sends it once does not wait any more when its turn has
\* begun: only a repeated request can leave its row behind.
THEOREM WaitingIsNotStarted ==
  ASSUME Retried = {}
  PROVE  Spec => []WaitingInputNotStarted
<1>1. QueueMatchesHistory => WaitingInputNotStarted
  BY DEF QueueMatchesHistory, WaitingInputNotStarted, Active, HasUserMessage
<1>q. QED BY <1>1, QueueAndHistoryAgree, PTL
=============================================================================
