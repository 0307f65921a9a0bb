----------------------------- MODULE UserInput -----------------------------
(***************************************************************************)
(* One question of the model to the user (internal/engine/user_input.go):  *)
(* the tool call that waits, the answer that people submit, retry and      *)
(* withdraw, and the turn that asked, which may be over by then.           *)
(*                                                                         *)
(* The answer is a user message under a fixed client message ID.  While    *)
(* the turn that asked takes steering it is steered into that turn, else   *)
(* it is submitted, and queued behind whatever runs.  inputAnswerMu        *)
(* serialises the calls that answer; their reads of the memory, of the     *)
(* messages and of the queue are separate steps, and the turn, the queue   *)
(* and the other calls move between them.                                  *)
(***************************************************************************)
EXTENDS Naturals

CONSTANTS
  Caller,     \* requests of clients that answer the question
  MaxMishaps  \* bound: failing transactions and crashes, withdrawals

ASSUME QuestionAssumption == MaxMishaps \in Nat

VARIABLES
  asking,    \* the turn that asked: running (takes steering), sealed, ended
  other,     \* another turn of the session runs once the asking one has ended
  wait,      \* the tool call: display, waiting, returned
  question,  \* inputRequests: the status in memory, or gone with the turn
  result,    \* status the tool result has carried to the model
  steered,   \* the answer as a message of the asking turn: no, pending, applied
  begun,     \* the answer has a turn of its own
  row,       \* the answer in queued_inputs
  answering, \* the call that holds inputAnswerMu and its next step
  calls,     \* of each client's request: whether it is open, refused or accepted
  kept,      \* history: accepted, and not withdrawn by a person since
  mishaps    \* bound

questionVars == <<asking, other, wait, question, result, steered, begun, row, answering, calls,
                  kept, mishaps>>

\* awaiting_user: a question that is asked without waiting for the answer.
Outcome == {"answered", "dismissed", "timeout", "cancelled", "failed", "awaiting_user"}
Nobody  == [by |-> "nobody", step |-> "none", seen |-> FALSE]
AnswerStep == {"memory", "messages", "queue", "steer", "submit", "requeue", "mark"}

QuestionTypeOK ==
  /\ asking \in {"running", "sealed", "ended"}
  /\ other \in BOOLEAN
  /\ wait \in {"display", "waiting", "returned"}
  /\ question \in Outcome \cup {"waiting", "gone"}
  /\ result \in Outcome \cup {"none"}
  /\ steered \in {"no", "pending", "applied"}
  /\ begun \in BOOLEAN
  /\ row \in {"none", "queued", "cancelled", "promoted"}
  /\ answering = Nobody \/ answering \in [by: Caller, step: AnswerStep, seen: BOOLEAN]
  /\ calls \in [Caller -> {"open", "refused", "accepted"}]
  /\ kept \in BOOLEAN
  /\ mishaps \in 0..MaxMishaps

Mishap == mishaps < MaxMishaps /\ mishaps' = mishaps + 1

\* The answer is on record as a message, or will become one.
Recorded  == steered # "no" \/ begun
Delivered == Recorded \/ row = "queued"

Running == asking # "ended" \/ other

-----------------------------------------------------------------------------
(* requestUserInput: the tool call. *)

\* The interface has been asked to show the question.  When that fails the wait
\* is over, unless an answer was there first.
Displayed ==
  /\ wait = "display"
  /\ \/ /\ wait' = "waiting"
        /\ UNCHANGED <<question, result>>
     \/ /\ question # "answered"
        /\ question' = "failed"
        /\ result' = "failed"
        /\ wait' = "returned"
  /\ UNCHANGED <<asking, other, steered, begun, row, answering, calls, kept, mishaps>>

\* settleUserInputWait: the deadline has passed, or the turn was cancelled.
WaitExpires ==
  /\ question = "waiting"
  /\ \E status \in {"timeout", "cancelled"} : question' = status
  /\ UNCHANGED <<asking, other, wait, result, steered, begun, row, answering, calls, kept, mishaps>>

\* ActOnUserInput, "dismiss"
Dismiss ==
  /\ question = "waiting"
  /\ question' = "dismissed"
  /\ UNCHANGED <<asking, other, wait, result, steered, begun, row, answering, calls, kept, mishaps>>

\* The wait is over: the tool call returns the status.
ToolReturns ==
  /\ wait = "waiting" /\ question # "waiting"
  /\ wait' = "returned"
  /\ result' = question
  /\ UNCHANGED <<asking, other, question, steered, begun, row, answering, calls, kept, mishaps>>

-----------------------------------------------------------------------------
(* The turn that asked, and the others. *)

\* After the results of its tools the turn takes over the pending steers.
ApplySteers ==
  /\ asking = "running" /\ wait = "returned" /\ steered = "pending"
  /\ steered' = "applied"
  /\ UNCHANGED <<asking, other, wait, question, result, begun, row, answering, calls, kept, mishaps>>

\* Its answer is complete and no steer is pending.
Seal ==
  /\ asking = "running" /\ wait = "returned" /\ steered # "pending"
  /\ asking' = "sealed"
  /\ UNCHANGED <<other, wait, question, result, steered, begun, row, answering, calls, kept, mishaps>>

\* finishTurn and clearRunning, after the seal or when the turn fails.
AskingEnds ==
  /\ asking # "ended" /\ wait = "returned"
  /\ asking' = "ended"
  /\ question' = "gone"
  /\ UNCHANGED <<other, wait, result, steered, begun, row, answering, calls, kept, mishaps>>

OtherTurn ==
  /\ asking = "ended"
  /\ other' = ~other
  /\ UNCHANGED <<asking, wait, question, result, steered, begun, row, answering, calls, kept, mishaps>>

\* TryDrainQueued
PromoteAnswer ==
  /\ row = "queued" /\ ~Running
  /\ row' = "promoted"
  /\ begun' = TRUE
  /\ other' = TRUE
  /\ UNCHANGED <<asking, wait, question, result, steered, answering, calls, kept, mishaps>>

\* A person takes the queued answer back.
WithdrawAnswer ==
  /\ Mishap
  /\ row = "queued"
  /\ row' = "cancelled"
  /\ kept' = FALSE
  /\ UNCHANGED <<asking, other, wait, question, result, steered, begun, answering, calls>>

\* The daemon dies: Recover fails the running turns, the question is forgotten.
QuestionCrash ==
  /\ Mishap
  /\ asking' = "ended" /\ other' = FALSE
  /\ wait' = "returned" /\ question' = "gone"
  /\ answering' = Nobody
  /\ UNCHANGED <<result, steered, begun, row, calls, kept>>

-----------------------------------------------------------------------------
(* answerUserInput.  A refused client may try again. *)

Reply(c, outcome) ==
  /\ answering' = Nobody
  /\ calls' = [calls EXCEPT ![c] = outcome]
  /\ kept' = (kept \/ outcome = "accepted")

Proceed(step) ==
  /\ answering' = [answering EXCEPT !.step = step]
  /\ UNCHANGED <<calls, kept>>

AnyTime == TRUE
AnswersApart == answering = Nobody

Begin(c) ==
  /\ calls[c] # "accepted"
  /\ AnswersApart
  /\ answering' = [by |-> c, step |-> "memory", seen |-> FALSE]
  /\ UNCHANGED <<asking, other, wait, question, result, steered, begun, row, calls, kept, mishaps>>

\* What the snapshot of the request leaves in memory: nothing new.
RememberEarly == IF question = "waiting" THEN "answered" ELSE question
Remember == question

\* UserInputRequest, memory: an open or answered question is returned at once.
ReadMemory(c) ==
  /\ answering.by = c /\ answering.step = "memory"
  /\ question' = Remember
  /\ CASE question = "answered" -> Reply(c, "accepted")
       [] question = "waiting"  -> Proceed("steer")
       [] OTHER                 -> Proceed("messages")
  /\ UNCHANGED <<asking, other, wait, result, steered, begun, row, mishaps>>

\* ListMessages, then ListQueuedInputs (which has no promoted or cancelled rows).
ReadMessages(c) ==
  /\ answering.by = c /\ answering.step = "messages"
  /\ answering' = [answering EXCEPT !.step = "queue", !.seen = Recorded]
  /\ UNCHANGED <<asking, other, wait, question, result, steered, begun, row, calls, kept, mishaps>>

ReadQueue(c) ==
  /\ answering.by = c /\ answering.step = "queue"
  /\ IF answering.seen \/ row = "queued" THEN Reply(c, "accepted") ELSE Proceed("steer")
  /\ UNCHANGED <<asking, other, wait, question, result, steered, begun, row, mishaps>>

\* Steer: only into the turn that asked, and only while it takes steering.
SteerAnswer(c) ==
  /\ answering.by = c /\ answering.step = "steer"
  /\ IF asking = "running"
       THEN /\ steered' = IF steered = "no" THEN "pending" ELSE steered
            /\ Proceed("mark")
       ELSE /\ UNCHANGED steered
            /\ Proceed("submit")
  /\ UNCHANGED <<asking, other, wait, question, result, begun, row, mishaps>>

\* An answer found cancelled in the queue has to be queued again.
AcceptsCancelled == {"queued", "promoted", "cancelled"}
AcceptsQueued    == {"queued", "promoted"}

\* Submit (TurnLifecycle has its steps): a turn that began with this ID is a
\* duplicate, and so is a row of the queue, whatever its status.
SubmitAnswer(c) ==
  /\ answering.by = c /\ answering.step = "submit"
  /\ \/ /\ begun
        /\ Proceed("mark")
        /\ UNCHANGED <<begun, row, other>>
     \/ /\ ~begun /\ ~Running /\ row # "queued"
        /\ begun' = TRUE
        /\ other' = TRUE
        /\ Proceed("mark")
        /\ UNCHANGED row
     \/ /\ ~begun /\ (Running \/ row = "queued")
        /\ row' = IF row = "none" THEN "queued" ELSE row
        /\ IF row' \in AcceptsQueued THEN Reply(c, "accepted") ELSE Proceed("requeue")
        /\ UNCHANGED <<begun, other>>
  /\ UNCHANGED <<asking, wait, question, result, steered, mishaps>>

\* UpdateQueuedInput with RequeueCancelled, and the drain that follows.
Requeue(c) ==
  /\ answering.by = c /\ answering.step = "requeue"
  /\ row' = "queued"
  /\ Reply(c, "accepted")
  /\ UNCHANGED <<asking, other, wait, question, result, steered, begun, mishaps>>

\* Wake the waiting call once the message is durable.
MarkAnswered(c) ==
  /\ answering.by = c /\ answering.step = "mark"
  /\ question' = IF question = "gone" THEN "gone" ELSE "answered"
  /\ Reply(c, "accepted")
  /\ UNCHANGED <<asking, other, wait, result, steered, begun, row, mishaps>>

\* A transaction of the call fails.
AnswerFails(c) ==
  /\ Mishap
  /\ answering.by = c /\ answering.step \notin {"memory", "mark"}
  /\ Reply(c, "refused")
  /\ UNCHANGED <<asking, other, wait, question, result, steered, begun, row>>

-----------------------------------------------------------------------------
QuestionInit ==
  /\ asking = "running" /\ other = FALSE
  /\ wait = "display"
  /\ question \in {"waiting", "awaiting_user"} /\ result = "none"
  /\ steered = "no" /\ begun = FALSE /\ row = "none"
  /\ answering = Nobody
  /\ calls = [c \in Caller |-> "open"]
  /\ kept = FALSE
  /\ mishaps = 0

QuestionNext ==
  \/ Displayed \/ WaitExpires \/ Dismiss \/ ToolReturns
  \/ ApplySteers \/ Seal \/ AskingEnds \/ OtherTurn \/ PromoteAnswer \/ WithdrawAnswer
  \/ QuestionCrash
  \/ \E c \in Caller : \/ Begin(c) \/ ReadMemory(c) \/ ReadMessages(c) \/ ReadQueue(c)
                       \/ SteerAnswer(c) \/ SubmitAnswer(c) \/ Requeue(c) \/ MarkAnswered(c)
                       \/ AnswerFails(c)

QuestionSpec == QuestionInit /\ [][QuestionNext]_questionVars

-----------------------------------------------------------------------------
(* Properties. *)

\* However often the answer is submitted, retried and withdrawn, and wherever the
\* turn that asked has got to: it reaches the history once, and does not wait in
\* the queue after that.
AnswerDeliveredOnce ==
  ~(steered # "no" /\ (begun \/ row = "queued")) /\ ~(begun /\ row = "queued")

\* A client that was told its answer is accepted can rely on it, until a person
\* withdraws the answer.
AcceptedAnswerKept == kept => Delivered

\* The model is told "answered" only when the answer is durable, and the turn does
\* not end its own answer before it has taken that message over.
AnsweredMeansRecorded ==
  /\ (question = "answered" \/ result = "answered") => Recorded
  /\ (asking = "sealed") => steered # "pending"
=============================================================================
