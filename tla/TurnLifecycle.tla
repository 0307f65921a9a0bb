--------------------------- MODULE TurnLifecycle ---------------------------
(***************************************************************************)
(* Admission, queueing, steering, cancellation and recovery of the turns   *)
(* of one session: internal/engine/engine.go against the transactions of   *)
(* internal/store/sqlitestore.  Every store transaction runs under the     *)
(* store's mutex and is one atomic step; a section under Engine.mu that    *)
(* holds a transaction (BeginTurn + registration, FinishTurn + removal,    *)
(* PromoteNextQueuedInput + registration) is one step as well.  What a     *)
(* handler does between two such sections interleaves with every other     *)
(* request thread, with the goroutine of the turn and with a crash.        *)
(*                                                                         *)
(* A turn is named by the client message ID it was created with: the table *)
(* turns has UNIQUE(session_id, client_message_id).                        *)
(***************************************************************************)
EXTENDS Naturals, Sequences, SequencesExt

CONSTANTS
  Input,        \* client message IDs of user inputs
  Wake,         \* client message IDs of system turns (wake-ups and retries)
  Client,       \* concurrent request threads
  None,         \* no turn, no thread
  Retried,      \* inputs a client may submit again (a lost response, a double click)
  Steered,      \* inputs a client may send, or promote, as steering of a running turn
  StorageMayFail, \* a store transaction may fail (disk full, I/O error)
  MaxCrashes    \* bound: daemon crashes in a behaviour

Turn == Input \cup Wake

ASSUME ConstantsAssumption ==
  /\ Input \cap Wake = {}
  /\ None \notin Turn \cup Client
  /\ Retried \subseteq Input
  /\ Steered \subseteq Input
  /\ StorageMayFail \in BOOLEAN
  /\ MaxCrashes \in Nat

VARIABLES
  turn,      \* turns.status by client message ID; "none" = no row
  latest,    \* the turn inserted last
  input,     \* queued_inputs.status; "none" = no row
  queue,     \* active queued_inputs (queued, editing) by sort_order
  steerOf,   \* the turn an input's steering message belongs to
  steer,     \* that message: accepted, then moved and announced by the loop or at the end
  running,   \* Engine.running[session]
  accepting, \* activeTurn.acceptingSteers
  pending,   \* activeTurn.pendingSteers
  cancelled, \* the turn's context is cancelled
  worker,    \* where the goroutine of the turn is
  outcome,   \* the status streamTurn returned
  stranded,  \* turns whose FinishTurn failed
  collab,    \* holder of Engine.collaborationMu between two steps
  pc, arg, seen, \* request threads: position, client message ID, turn read from running
  sent,      \* how the clients sent an input first
  daemon,
  crashes

storeVars  == <<turn, latest, input, queue, steerOf, steer>>
activeVars == <<running, accepting, pending, cancelled, worker, outcome, stranded>>
threadVars == <<pc, arg, seen>>
vars == <<storeVars, activeVars, collab, threadVars, sent, daemon, crashes>>

TurnStatus   == {"none", "running", "completed", "failed", "cancelled"}
QueuedStatus == {"none", "queued", "editing", "cancelled", "promoted"}
SteerStatus  == {"none", "accepted", "joined", "trailing"}
WorkerStage  == {"none", "resolve", "stream", "wrap", "finish", "drain"}
ThreadStage  == {"idle", "check", "begin", "queue", "steer", "steerQueued",
                 "cancel", "system", "drain"}

TypeOK ==
  /\ turn \in [Turn -> TurnStatus]
  /\ latest \in Turn \cup {None}
  /\ input \in [Input -> QueuedStatus]
  /\ queue \in Seq(Input)
  /\ steerOf \in [Input -> Turn \cup {None}]
  /\ steer \in [Input -> SteerStatus]
  /\ running \in Turn \cup {None}
  /\ accepting \in [Turn -> BOOLEAN]
  /\ pending \in [Turn -> SUBSET Input]
  /\ cancelled \in [Turn -> BOOLEAN]
  /\ worker \in [Turn -> WorkerStage]
  /\ outcome \in [Turn -> TurnStatus]
  /\ stranded \in SUBSET Turn
  /\ collab \in Client \cup {None}
  /\ pc \in [Client -> ThreadStage]
  /\ arg \in [Client -> Turn \cup {None}]
  /\ seen \in [Client -> Turn \cup {None}]
  /\ sent \in [Input -> {"no", "submit", "steer"}]
  /\ daemon \in {"serving", "down", "settled"}
  /\ crashes \in Nat

Init ==
  /\ turn = [t \in Turn |-> "none"]
  /\ latest = None
  /\ input = [c \in Input |-> "none"]
  /\ queue = <<>>
  /\ steerOf = [c \in Input |-> None]
  /\ steer = [c \in Input |-> "none"]
  /\ running = None
  /\ accepting = [t \in Turn |-> FALSE]
  /\ pending = [t \in Turn |-> {}]
  /\ cancelled = [t \in Turn |-> FALSE]
  /\ worker = [t \in Turn |-> "none"]
  /\ outcome = [t \in Turn |-> "none"]
  /\ stranded = {}
  /\ collab = None
  /\ pc = [p \in Client |-> "idle"]
  /\ arg = [p \in Client |-> None]
  /\ seen = [p \in Client |-> None]
  /\ sent = [c \in Input |-> "no"]
  /\ daemon = "serving"
  /\ crashes = 0

-----------------------------------------------------------------------------
(* Helpers *)

\* Requests and turn goroutines exist while the daemon serves.
Serving == daemon = "serving" /\ UNCHANGED <<daemon, crashes>>

Active(c) == input[c] \in {"queued", "editing"}
Terminal  == {"completed", "failed", "cancelled"}

\* runningTurnTx: the session has a running row in turns.
TurnIsRunning == \E t \in Turn : turn[t] = "running"

\* getUserMessageByClientMessageIDTx: a canonical user message carries c.
HasUserMessage(c) == turn[c] # "none" \/ steerOf[c] # None

Goto(p, stage, c, t) ==
  /\ pc' = [pc EXCEPT ![p] = stage]
  /\ arg' = [arg EXCEPT ![p] = c]
  /\ seen' = [seen EXCEPT ![p] = t]

Return(p) == Goto(p, "idle", None, None)

\* Insert the running row and register the activeTurn, under Engine.mu.
StartTurn(t) ==
  /\ turn' = [turn EXCEPT ![t] = "running"]
  /\ latest' = t
  /\ running' = t
  /\ accepting' = [accepting EXCEPT ![t] = TRUE]
  /\ UNCHANGED <<steerOf, steer, pending, cancelled, outcome, stranded>>

Dequeue(c) ==
  \E i \in DOMAIN queue : queue[i] = c /\ queue' = RemoveAt(queue, i)

-----------------------------------------------------------------------------
(* TryDrainQueued: promote the head of the queue, unless a turn is running *)
(* or the head is being edited.  A head that already owns a turn violates  *)
(* the UNIQUE constraint; the error is logged and nothing changes.         *)

\* A slip: the drain trusts its caller that no turn runs.
CanPromoteUnchecked ==
  /\ queue # <<>>
  /\ input[Head(queue)] = "queued"
  /\ turn[Head(queue)] = "none"

CanPromote ==
  /\ queue # <<>>
  /\ ~TurnIsRunning
  /\ input[Head(queue)] = "queued"
  /\ turn[Head(queue)] = "none"

PromoteHead(workers) ==
  /\ StartTurn(Head(queue))
  /\ input' = [input EXCEPT ![Head(queue)] = "promoted"]
  /\ queue' = Tail(queue)
  /\ worker' = [workers EXCEPT ![Head(queue)] = "resolve"]

\* `workers' is the worker function after the caller's own move.
TryDrainQueued(workers) ==
  /\ collab = None
  /\ \/ CanPromote /\ PromoteHead(workers)
     \/ /\ ~CanPromote
        /\ worker' = workers
        /\ UNCHANGED <<storeVars, running, accepting, pending, cancelled, outcome, stranded>>
  /\ UNCHANGED collab

-----------------------------------------------------------------------------
(* Submit of a user input to a session that is not a child session *)

Submit(p, c) ==
  /\ Serving
  /\ pc[p] = "idle"
  /\ sent[c] = "no" \/ c \in Retried
  /\ Goto(p, "check", c, None)
  /\ sent' = [sent EXCEPT ![c] = "submit"]
  /\ UNCHANGED <<storeVars, activeVars, collab>>

CheckQueue(p) ==
  /\ Serving
  /\ pc[p] = "check"
  /\ Goto(p, IF queue = <<>> THEN "begin" ELSE "queue", arg[p], None)
  /\ UNCHANGED <<storeVars, activeVars, collab, sent>>

BeginDuplicate(p) ==
  /\ turn[arg[p]] # "none"
  /\ Return(p)
  /\ UNCHANGED <<storeVars, activeVars>>

BeginRefused(p) ==
  /\ turn[arg[p]] = "none"
  /\ TurnIsRunning
  /\ Goto(p, "queue", arg[p], None)
  /\ UNCHANGED <<storeVars, activeVars>>

\* A slip: a session with a running turn is not refused.
BeginAcceptedAlways(p) ==
  /\ turn[arg[p]] = "none"
  /\ StartTurn(arg[p])
  /\ worker' = [worker EXCEPT ![arg[p]] = "stream"]
  /\ Return(p)
  /\ UNCHANGED <<input, queue>>

BeginAccepted(p) ==
  /\ turn[arg[p]] = "none"
  /\ ~TurnIsRunning
  /\ StartTurn(arg[p])
  /\ worker' = [worker EXCEPT ![arg[p]] = "stream"]
  /\ Return(p)
  /\ UNCHANGED <<input, queue>>

BeginTurn(p) ==
  /\ Serving
  /\ pc[p] = "begin"
  /\ BeginDuplicate(p) \/ BeginRefused(p) \/ BeginAccepted(p)
  /\ UNCHANGED <<collab, sent>>

\* queueSubmit: the transaction looks for a turn and for a row with the same
\* ID, but not whether a turn is still running, and no drain follows.
QueueInput(p) ==
  /\ Serving
  /\ pc[p] = "queue"
  /\ \/ /\ turn[arg[p]] = "none" /\ input[arg[p]] = "none"
        /\ input' = [input EXCEPT ![arg[p]] = "queued"]
        /\ queue' = Append(queue, arg[p])
     \/ /\ turn[arg[p]] # "none" \/ input[arg[p]] # "none"
        /\ UNCHANGED <<input, queue>>
  /\ Return(p)
  /\ UNCHANGED <<turn, latest, steerOf, steer, activeVars, collab, sent>>

-----------------------------------------------------------------------------
(* Steering *)

Steer(p, c) ==
  /\ Serving
  /\ pc[p] = "idle"
  /\ c \in Steered
  /\ sent[c] \in {"no", "steer"} \/ c \in Retried
  /\ running # None
  /\ Goto(p, "steer", c, running)
  /\ sent' = [sent EXCEPT ![c] = "steer"]
  /\ UNCHANGED <<storeVars, activeVars, collab>>

SteerQueued(p, c) ==
  /\ Serving
  /\ pc[p] = "idle"
  /\ c \in Steered
  /\ running # None
  /\ Goto(p, "steerQueued", c, running)
  /\ UNCHANGED <<storeVars, activeVars, collab, sent>>

\* Under activeTurn.mu: the message is written and remembered in pendingSteers.
AcceptSteer(c, t) ==
  /\ accepting[t]
  /\ turn[t] = "running"
  /\ ~HasUserMessage(c)
  /\ steerOf' = [steerOf EXCEPT ![c] = t]
  /\ steer' = [steer EXCEPT ![c] = "accepted"]
  /\ pending' = [pending EXCEPT ![t] = @ \cup {c}]

AppendTurnSteer(p) ==
  /\ Serving
  /\ pc[p] = "steer"
  /\ \/ AcceptSteer(arg[p], seen[p])
     \/ /\ ~accepting[seen[p]] \/ turn[seen[p]] # "running" \/ HasUserMessage(arg[p])
        /\ UNCHANGED <<steerOf, steer, pending>>
  /\ Return(p)
  /\ UNCHANGED <<turn, latest, input, queue, running, accepting, cancelled, worker, outcome,
                 stranded, collab, sent>>

\* A slip: the steered row stays in the queue.
SteerQueuedInputKeepsRow(p) ==
  /\ Serving
  /\ pc[p] = "steerQueued"
  /\ \/ input[arg[p]] = "queued" /\ AcceptSteer(arg[p], seen[p])
     \/ input[arg[p]] # "queued" /\ UNCHANGED <<steerOf, steer, pending>>
  /\ Return(p)
  /\ UNCHANGED <<turn, latest, input, queue, running, accepting, cancelled, worker, outcome,
                 stranded, collab, sent>>

SteerQueuedInput(p) ==
  /\ Serving
  /\ pc[p] = "steerQueued"
  /\ \/ /\ input[arg[p]] = "queued"
        /\ AcceptSteer(arg[p], seen[p])
        /\ input' = [input EXCEPT ![arg[p]] = "promoted"]
        /\ Dequeue(arg[p])
     \/ /\ \/ input[arg[p]] # "queued" \/ ~accepting[seen[p]]
           \/ turn[seen[p]] # "running" \/ HasUserMessage(arg[p])
        /\ UNCHANGED <<steerOf, steer, pending, input, queue>>
  /\ Return(p)
  /\ UNCHANGED <<turn, latest, running, accepting, cancelled, worker, outcome, stranded,
                 collab, sent>>

-----------------------------------------------------------------------------
(* Cancel, queue edits *)

\* cancelOne reads the registration under Engine.mu and acts on it later.
Cancel(p) ==
  /\ Serving
  /\ pc[p] = "idle"
  /\ collab = None
  /\ running # None
  /\ Goto(p, "cancel", None, running)
  /\ UNCHANGED <<storeVars, activeVars, collab, sent>>

CancelOne(p) ==
  /\ Serving
  /\ pc[p] = "cancel"
  /\ LET t == seen[p] IN
       \/ /\ running = t
          /\ accepting' = [accepting EXCEPT ![t] = FALSE]
          /\ cancelled' = [cancelled EXCEPT ![t] = TRUE]
       \/ running # t /\ UNCHANGED <<accepting, cancelled>> \* the turn is over
  /\ Return(p)
  /\ UNCHANGED <<storeVars, running, pending, worker, outcome, stranded, collab, sent>>

\* A slip: the row is not required to be active any more.
UpdateQueuedInputAnyRow(p, c, status) ==
  /\ Serving
  /\ pc[p] = "idle"
  /\ input[c] # "none"
  /\ input' = [input EXCEPT ![c] = status]
  /\ queue' = IF status = "cancelled" \/ ~Active(c) THEN SelectSeq(queue, LAMBDA d : d # c) ELSE queue
  /\ IF status = "editing" THEN Return(p) ELSE Goto(p, "drain", None, None)
  /\ UNCHANGED <<turn, latest, steerOf, steer, activeVars, collab, sent>>

UpdateQueuedInput(p, c, status) ==
  /\ Serving
  /\ pc[p] = "idle"
  /\ Active(c)
  /\ input' = [input EXCEPT ![c] = status]
  /\ IF status = "cancelled" THEN Dequeue(c) ELSE UNCHANGED queue
  /\ IF status = "editing" THEN Return(p) ELSE Goto(p, "drain", None, None)
  /\ UNCHANGED <<turn, latest, steerOf, steer, activeVars, collab, sent>>

ReorderQueuedInputs(p, order) ==
  /\ Serving
  /\ pc[p] = "idle"
  /\ ToSet(order) = ToSet(queue)
  /\ queue' = order
  /\ Goto(p, "drain", None, None)
  /\ UNCHANGED <<turn, latest, input, steerOf, steer, activeVars, collab, sent>>

ClientDrain(p) ==
  /\ Serving
  /\ pc[p] = "drain"
  /\ TryDrainQueued(worker)
  /\ Return(p)
  /\ UNCHANGED sent

-----------------------------------------------------------------------------
(* submitSystem: a wake-up (no parent turn) or the retry of a failed turn. *)
(* collaborationMu is held from the queue check to the registration.       *)

SubmitSystem(p, w, parent) ==
  /\ Serving
  /\ pc[p] = "idle"
  /\ collab = None
  /\ parent = None => queue = <<>>
  /\ collab' = p
  /\ Goto(p, "system", w, parent)
  /\ UNCHANGED <<storeVars, activeVars, sent>>

RetryIsValid(parent) ==
  parent # None => turn[parent] = "failed" /\ latest = parent /\ queue = <<>>

BeginSystemTurn(p) ==
  /\ Serving
  /\ pc[p] = "system"
  /\ \/ /\ turn[arg[p]] = "none" /\ ~TurnIsRunning /\ RetryIsValid(seen[p])
        /\ StartTurn(arg[p])
        /\ worker' = [worker EXCEPT ![arg[p]] = "stream"]
        /\ UNCHANGED <<input, queue>>
     \/ /\ turn[arg[p]] # "none" \/ TurnIsRunning \/ ~RetryIsValid(seen[p])
        /\ UNCHANGED <<storeVars, activeVars>>
  /\ collab' = None
  /\ Return(p)
  /\ UNCHANGED sent

\* A transaction of a request fails: the request ends without any effect of it.
RequestFails(p) ==
  /\ Serving
  /\ StorageMayFail
  /\ pc[p] \notin {"idle", "cancel"}
  /\ collab' = IF collab = p THEN None ELSE collab
  /\ Return(p)
  /\ UNCHANGED <<storeVars, activeVars, sent>>

-----------------------------------------------------------------------------
(* The goroutine of turn t *)

\* After a promotion: provider and model configuration may have gone.
Resolve(t) ==
  /\ Serving
  /\ worker[t] = "resolve"
  /\ \/ worker' = [worker EXCEPT ![t] = "stream"] /\ UNCHANGED outcome
     \/ /\ worker' = [worker EXCEPT ![t] = "finish"]
        /\ outcome' = [outcome EXCEPT ![t] = "failed"]
  /\ UNCHANGED <<storeVars, running, accepting, pending, cancelled, stranded, collab, threadVars, sent>>

\* consumeSteers and ApplyTurnSteers: the steers become part of the context
\* the next sampling reads (stage "joined"), or only of the history ("trailing").
ApplyTurnSteers(t, stage) ==
  /\ steer' = [c \in Input |-> IF c \in pending[t] THEN stage ELSE steer[c]]
  /\ pending' = [pending EXCEPT ![t] = {}]

JoinSteers(t) ==
  /\ Serving
  /\ worker[t] = "stream"
  /\ pending[t] # {}
  /\ ApplyTurnSteers(t, "joined")
  /\ UNCHANGED <<turn, latest, input, queue, steerOf, running, accepting, cancelled, worker,
                 outcome, stranded, collab, threadVars, sent>>

\* The transaction fails: consumeSteers has emptied pendingSteers already.
JoinSteersFails(t) ==
  /\ Serving
  /\ StorageMayFail
  /\ worker[t] = "stream"
  /\ pending[t] # {}
  /\ pending' = [pending EXCEPT ![t] = {}]
  /\ worker' = [worker EXCEPT ![t] = "wrap"]
  /\ outcome' = [outcome EXCEPT ![t] = "failed"]
  /\ UNCHANGED <<storeVars, running, accepting, cancelled, stranded, collab, threadVars, sent>>

\* A slip: a cancelled turn is recorded as "interrupted", which is no turn status.
StreamEndsInterrupted(t, status) ==
  /\ Serving
  /\ worker[t] = "stream"
  /\ worker' = [worker EXCEPT ![t] = "wrap"]
  /\ outcome' = [outcome EXCEPT ![t] = IF cancelled[t] THEN "interrupted" ELSE status]
  /\ UNCHANGED <<storeVars, running, pending, cancelled, stranded, collab, threadVars, sent>>

StreamEnds(t, status) ==
  /\ Serving
  /\ worker[t] = "stream"
  /\ worker' = [worker EXCEPT ![t] = "wrap"]
  /\ outcome' = [outcome EXCEPT ![t] = status]
  /\ UNCHANGED <<storeVars, running, pending, cancelled, stranded, collab, threadVars, sent>>

\* A slip: the check for steers does not seal the turn in the same step.
StreamCompletesUnsealed(t) ==
  /\ pending[t] = {}
  /\ UNCHANGED accepting
  /\ StreamEnds(t, "completed")

\* consumeSteersOrSeal found nothing to join: sealed and completed.
StreamCompletes(t) ==
  /\ pending[t] = {}
  /\ accepting' = [accepting EXCEPT ![t] = FALSE]
  /\ StreamEnds(t, "completed")

\* A provider, context or storage error, also one that a cancellation caused.
StreamFails(t) == StreamEnds(t, "failed") /\ UNCHANGED accepting

StreamCancelled(t) ==
  /\ cancelled[t]
  /\ StreamEnds(t, "cancelled")
  /\ UNCHANGED accepting

StreamTurn(t) ==
  \/ JoinSteers(t) \/ JoinSteersFails(t)
  \/ StreamCompletes(t) \/ StreamFails(t) \/ StreamCancelled(t)

\* A slip: the end of a turn forgets the steers it has not joined.
WrapUpDropsSteers(t) ==
  /\ Serving
  /\ worker[t] = "wrap"
  /\ accepting' = [accepting EXCEPT ![t] = FALSE]
  /\ worker' = [worker EXCEPT ![t] = "finish"]
  /\ UNCHANGED <<storeVars, running, pending, cancelled, outcome, stranded, collab, threadVars, sent>>

\* The end of runTurn: no steer is accepted any more, leftovers are applied.
WrapUp(t) ==
  /\ Serving
  /\ worker[t] = "wrap"
  /\ accepting' = [accepting EXCEPT ![t] = FALSE]
  /\ \/ ApplyTurnSteers(t, "trailing") /\ UNCHANGED outcome
     \/ /\ StorageMayFail
        /\ pending[t] # {}
        /\ pending' = [pending EXCEPT ![t] = {}]
        /\ outcome' = [outcome EXCEPT ![t] = "failed"]
        /\ UNCHANGED steer
  /\ worker' = [worker EXCEPT ![t] = "finish"]
  /\ UNCHANGED <<turn, latest, input, queue, steerOf, running, cancelled, stranded,
                 collab, threadVars, sent>>

\* A slip: the registration of a finished turn stays.
ClearRunningNot(t) ==
  /\ accepting' = [accepting EXCEPT ![t] = FALSE]
  /\ pending' = [pending EXCEPT ![t] = {}]
  /\ cancelled' = [cancelled EXCEPT ![t] = FALSE]
  /\ outcome' = [outcome EXCEPT ![t] = "none"]
  /\ UNCHANGED running

\* clearRunningLocked, and the end of the goroutine's use of its activeTurn:
\* a thread that still holds the pointer cannot affect anything through it.
ClearRunning(t) ==
  /\ running' = IF running = t THEN None ELSE running
  /\ accepting' = [accepting EXCEPT ![t] = FALSE]
  /\ pending' = [pending EXCEPT ![t] = {}]
  /\ cancelled' = [cancelled EXCEPT ![t] = FALSE]
  /\ outcome' = [outcome EXCEPT ![t] = "none"]

FinishTurn(t) ==
  /\ Serving
  /\ worker[t] = "finish"
  /\ turn' = [turn EXCEPT ![t] = outcome[t]]
  /\ ClearRunning(t)
  /\ worker' = [worker EXCEPT ![t] = "drain"]
  /\ UNCHANGED <<latest, input, queue, steerOf, steer, stranded, collab, threadVars, sent>>

\* The transaction fails: the registration goes all the same, nothing drains.
FinishTurnFails(t) ==
  /\ Serving
  /\ StorageMayFail
  /\ worker[t] = "finish"
  /\ ClearRunning(t)
  /\ worker' = [worker EXCEPT ![t] = "none"]
  /\ stranded' = stranded \cup {t}
  /\ UNCHANGED <<storeVars, collab, threadVars, sent>>

\* A slip: the goroutine ends without draining the queue.
WorkerDrainNot(t) ==
  /\ Serving
  /\ worker[t] = "drain"
  /\ worker' = [worker EXCEPT ![t] = "none"]
  /\ UNCHANGED <<storeVars, running, accepting, pending, cancelled, outcome, stranded, collab,
                 threadVars, sent>>

WorkerDrain(t) ==
  /\ Serving
  /\ worker[t] = "drain"
  /\ TryDrainQueued([worker EXCEPT ![t] = "none"])
  /\ UNCHANGED <<threadVars, sent>>

\* PromoteNextQueuedInput fails: the error is logged and the goroutine ends.
WorkerDrainFails(t) ==
  /\ Serving
  /\ StorageMayFail
  /\ worker[t] = "drain"
  /\ worker' = [worker EXCEPT ![t] = "none"]
  /\ UNCHANGED <<storeVars, running, accepting, pending, cancelled, outcome, stranded, collab,
                 threadVars, sent>>

-----------------------------------------------------------------------------
(* Crash of the daemon and Engine.Recover, which runs before serving *)

Crash ==
  /\ crashes < MaxCrashes
  /\ daemon' = "down"
  /\ crashes' = crashes + 1
  /\ running' = None
  /\ accepting' = [t \in Turn |-> FALSE]
  /\ pending' = [t \in Turn |-> {}]
  /\ cancelled' = [t \in Turn |-> FALSE]
  /\ worker' = [t \in Turn |-> "none"]
  /\ outcome' = [t \in Turn |-> "none"]
  /\ stranded' = {}
  /\ collab' = None
  /\ pc' = [p \in Client |-> "idle"]
  /\ arg' = [p \in Client |-> None]
  /\ seen' = [p \in Client |-> None]
  /\ UNCHANGED <<storeVars, sent>>

\* A slip: recovery leaves the rows of the interrupted turns alone.
RecoverTurnsNot ==
  /\ daemon = "down"
  /\ daemon' = "settled"
  /\ UNCHANGED <<storeVars, activeVars, collab, threadVars, sent, crashes>>

\* A slip: recovery takes the rows of the interrupted turns away.
RecoverTurnsForgets ==
  /\ daemon = "down"
  /\ turn' = [t \in Turn |-> IF turn[t] = "running" THEN "none" ELSE turn[t]]
  /\ daemon' = "settled"
  /\ UNCHANGED <<latest, input, queue, steerOf, steer, activeVars, collab, threadVars, sent, crashes>>

RecoverTurns ==
  /\ daemon = "down"
  /\ turn' = [t \in Turn |-> IF turn[t] = "running" THEN "failed" ELSE turn[t]]
  /\ daemon' = "settled"
  /\ UNCHANGED <<latest, input, queue, steerOf, steer, activeVars, collab, threadVars, sent, crashes>>

RecoverQueue ==
  /\ daemon = "settled"
  /\ TryDrainQueued(worker)
  /\ daemon' = "serving"
  /\ UNCHANGED <<threadVars, sent, crashes>>

-----------------------------------------------------------------------------
Reorderings == {order \in [DOMAIN queue -> ToSet(queue)] : ToSet(order) = ToSet(queue)}

ClientStep(p) ==
  \/ CheckQueue(p) \/ BeginTurn(p) \/ QueueInput(p)
  \/ AppendTurnSteer(p) \/ SteerQueuedInput(p)
  \/ CancelOne(p) \/ ClientDrain(p) \/ BeginSystemTurn(p)

ClientCall(p) ==
  \/ \E c \in Input : Submit(p, c) \/ Steer(p, c) \/ SteerQueued(p, c)
  \/ \E c \in Input, status \in {"queued", "editing", "cancelled"} :
       UpdateQueuedInput(p, c, status)
  \/ \E order \in Reorderings : ReorderQueuedInputs(p, order)
  \/ \E w \in Wake : SubmitSystem(p, w, None)
  \/ \E w \in Wake, t \in Turn : turn[t] = "failed" /\ SubmitSystem(p, w, t)
  \/ Cancel(p)

WorkerStep(t) ==
  \/ Resolve(t) \/ StreamTurn(t) \/ WrapUp(t)
  \/ FinishTurn(t) \/ FinishTurnFails(t) \/ WorkerDrain(t) \/ WorkerDrainFails(t)

Next ==
  \/ \E p \in Client : ClientCall(p) \/ ClientStep(p) \/ RequestFails(p)
  \/ \E t \in Turn : WorkerStep(t)
  \/ Crash \/ RecoverTurns \/ RecoverQueue

Spec == Init /\ [][Next]_vars

\* What the goroutine of a turn does without waiting for anybody.  While it
\* streams it may wait without a timeout: for a decision on an approval, for
\* children, for the keys of a tool.  Each of these waits selects on the turn's
\* context as well, so a cancellation ends it.
WorkerProgress(t) ==
  \/ Resolve(t) \/ StreamCancelled(t) \/ WrapUp(t)
  \/ FinishTurn(t) \/ FinishTurnFails(t) \/ WorkerDrain(t) \/ WorkerDrainFails(t)

\* The runtime schedules every goroutine and hands a contended mutex over in
\* arrival order.  No fairness for calls of clients, faults and crashes, and
\* none for a stream that nobody has cancelled.
Fairness ==
  /\ \A p \in Client : SF_vars(ClientStep(p))
  /\ \A t \in Turn : SF_vars(WorkerProgress(t))
  /\ WF_vars(RecoverTurns)
  /\ WF_vars(RecoverQueue)

FairSpec == Spec /\ Fairness

-----------------------------------------------------------------------------
(* Safety *)

\* A session never has two running turns, whoever starts them: submits, the
\* drains of finished turns and of queue edits, wake-ups, retries, recovery.
OneRunningTurn ==
  \A t, u \in Turn : turn[t] = "running" /\ turn[u] = "running" => t = u

\* While the daemon serves, the running row and the registration that Cancel,
\* Steer and WaitSession go through name the same turn; a row without one is
\* left only by a failed FinishTurn.
RunningIsRegistered ==
  daemon = "serving" =>
    \A t \in Turn : (turn[t] = "running" /\ t \notin stranded) <=> running = t

\* An input reaches the conversation once: as the start of a turn or as the
\* steering of one, never both.
DeliveredOnce ==
  \A c \in Input : ~(turn[c] # "none" /\ steerOf[c] # None)

\* The queue and the conversation agree about an input the client sent once:
\* it waits or was withdrawn and is in no turn, or was promoted and is in one.
QueueMatchesHistory ==
  \A c \in Input \ Retried :
    /\ input[c] \in {"queued", "editing", "cancelled"} => ~HasUserMessage(c)
    /\ input[c] = "promoted" => HasUserMessage(c)

\* An accepted steer is not dropped by the end of its turn: a turn completes
\* only after sampling with every steer it accepted, and a cancelled turn has
\* moved and announced them.
SteersSettled ==
  \A c \in Input : \A t \in Turn : steerOf[c] = t =>
    /\ turn[t] = "completed" => steer[c] = "joined"
    /\ turn[t] = "cancelled" => steer[c] \in {"joined", "trailing"}

\* An input that waits in the queue has not been executed already.
WaitingInputNotStarted == \A c \in Input : Active(c) => turn[c] = "none"

-----------------------------------------------------------------------------
(* Liveness *)

BeingEdited == \E c \in Input : input[c] = "editing"

\* The turn streams, and may be waiting for somebody; it is not cancelled.
Waits(t) == worker[t] = "stream" /\ ~cancelled[t]

\* A running turn ends, also across a crash, unless it waits for ever for a
\* decision, for children or for keys and nobody cancels it.
RunningTurnEnds ==
  \A t \in Turn : (turn[t] = "running" ~> turn[t] # "running") \/ <>[]Waits(t)

\* The end of a turn, and a restart, carry the queue on: an input queued while
\* a turn runs or the daemon is down leaves the queue, unless one is edited or
\* a turn of the session waits for ever.
QueueMovesOn ==
  \A c \in Input :
    \/ input[c] = "queued" /\ (TurnIsRunning \/ daemon # "serving")
         ~> input[c] # "queued" \/ BeingEdited
    \/ \E t \in Turn : <>[]Waits(t)

\* Every queued input leaves the queue, unless one is edited or a turn of the
\* session waits for ever.
QueuedInputAdvances ==
  \A c \in Input :
    \/ input[c] = "queued" ~> input[c] # "queued" \/ BeingEdited
    \/ \E t \in Turn : <>[]Waits(t)
=============================================================================
