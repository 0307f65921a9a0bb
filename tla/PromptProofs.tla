---------------------------- MODULE PromptProofs ----------------------------
(***************************************************************************)
(* Proofs about the two things the daemon asks a person: a question        *)
(* (UserInput) and an approval (Approvals).  For every set of clients,     *)
(* tool calls and projects, and any number of turns, failures, crashes,    *)
(* revocations, edits and moves.                                           *)
(*                                                                         *)
(* A question: the argument follows the answer of one call.  While the     *)
(* turn that asked takes steering the answer can only be steered, and no   *)
(* call has got past the steering; later it can only be submitted.  A call *)
(* gets that far only when nothing has been recorded before it, because    *)
(* inputAnswerMu keeps the others out between its reads and its writes.    *)
(*                                                                         *)
(* An approval: two arguments.  A prompt that is listed has a tool call    *)
(* waiting or a client resolving it, and an open tool call belongs to the  *)
(* running turn: so what is lent to a turn was asked by that turn.  And an *)
(* identity is made for one project and handed out once: so a prompt whose *)
(* permissions were revoked never meets the identity it was asked under    *)
(* again.                                                                  *)
(***************************************************************************)
EXTENDS UserInput, Approvals, TLAPS

-----------------------------------------------------------------------------
(* UserInput: the question and its answer. *)

\* The two ways of the answer exclude each other.
OneWay ==
  /\ (asking = "running") => (~begun /\ row = "none" /\ answering.step \notin {"submit", "requeue"})
  /\ (row = "queued") => (~begun /\ steered = "no")
  /\ (row = "promoted") => begun
  /\ begun => steered = "no"

\* The question is forgotten only when the tool call is over.
ForgottenLate == (question = "gone") => wait = "returned"

\* What the call under way knows.
CallKnows ==
  /\ (answering.step = "mark") => Recorded
  /\ answering.seen => Recorded
  /\ (answering.step = "requeue") => (row = "cancelled" /\ ~begun)
  /\ (steered # "no") =>
       /\ answering.step \notin {"steer", "submit", "requeue"}
       /\ (answering.step = "queue") => answering.seen
       /\ (question = "waiting") => answering.step = "mark"

QuestionInv ==
  /\ QuestionTypeOK /\ OneWay /\ ForgottenLate /\ CallKnows
  /\ AcceptedAnswerKept /\ AnsweredMeansRecorded

-----------------------------------------------------------------------------
LEMMA QuestionInitInv == QuestionInit => QuestionInv
<1>1. ASSUME QuestionInit PROVE QuestionTypeOK
  <2>1. calls \in [Caller -> {"open", "refused", "accepted"}]
    BY <1>1 DEF QuestionInit
  <2>2. mishaps \in 0..MaxMishaps
    BY <1>1, QuestionAssumption DEF QuestionInit
  <2>3. answering = Nobody /\ other \in BOOLEAN /\ begun \in BOOLEAN /\ kept \in BOOLEAN
    BY <1>1 DEF QuestionInit
  <2>4. question \in Outcome \cup {"waiting", "gone"} /\ result \in Outcome \cup {"none"}
    BY <1>1 DEF QuestionInit, Outcome
  <2> QED BY <1>1, <2>1, <2>2, <2>3, <2>4 DEF QuestionInit, QuestionTypeOK
<1>2. QuestionInit => OneWay /\ ForgottenLate /\ CallKnows /\ AcceptedAnswerKept /\ AnsweredMeansRecorded
  BY DEF QuestionInit, OneWay, ForgottenLate, CallKnows, AcceptedAnswerKept, AnsweredMeansRecorded,
         Recorded, Nobody
<1> QED BY <1>1, <1>2 DEF QuestionInv

\* The tool call and the turns.
LEMMA TurnSteps ==
  ASSUME QuestionInv,
         \/ Displayed \/ WaitExpires \/ Dismiss \/ ToolReturns \/ ApplySteers \/ Seal
         \/ AskingEnds \/ OtherTurn
  PROVE  QuestionInv'
<1>1. CASE Displayed
  BY <1>1 DEF Displayed, QuestionInv, QuestionTypeOK, OneWay, ForgottenLate, CallKnows, AcceptedAnswerKept,
              AnsweredMeansRecorded, Recorded, Delivered, Outcome
<1>2. CASE WaitExpires
  BY <1>2 DEF WaitExpires, QuestionInv, QuestionTypeOK, OneWay, ForgottenLate, CallKnows, AcceptedAnswerKept,
              AnsweredMeansRecorded, Recorded, Delivered, Outcome
<1>3. CASE Dismiss
  BY <1>3 DEF Dismiss, QuestionInv, QuestionTypeOK, OneWay, ForgottenLate, CallKnows, AcceptedAnswerKept,
              AnsweredMeansRecorded, Recorded, Delivered, Outcome
<1>4. CASE ToolReturns
  BY <1>4 DEF ToolReturns, QuestionInv, QuestionTypeOK, OneWay, ForgottenLate, CallKnows, AcceptedAnswerKept,
              AnsweredMeansRecorded, Recorded, Delivered, Outcome
<1>5. CASE ApplySteers
  BY <1>5 DEF ApplySteers, QuestionInv, QuestionTypeOK, OneWay, ForgottenLate, CallKnows, AcceptedAnswerKept,
              AnsweredMeansRecorded, Recorded, Delivered, Outcome
<1>6. CASE Seal
  BY <1>6 DEF Seal, QuestionInv, QuestionTypeOK, OneWay, ForgottenLate, CallKnows, AcceptedAnswerKept,
              AnsweredMeansRecorded, Recorded, Delivered, Outcome
<1>7. CASE AskingEnds
  BY <1>7 DEF AskingEnds, QuestionInv, QuestionTypeOK, OneWay, ForgottenLate, CallKnows, AcceptedAnswerKept,
              AnsweredMeansRecorded, Recorded, Delivered, Outcome
<1>8. CASE OtherTurn
  BY <1>8 DEF OtherTurn, QuestionInv, QuestionTypeOK, OneWay, ForgottenLate, CallKnows, AcceptedAnswerKept,
              AnsweredMeansRecorded, Recorded, Delivered, Outcome
<1> QED BY <1>1, <1>2, <1>3, <1>4, <1>5, <1>6, <1>7, <1>8

\* The queue, the crash, and the first step of a call.
LEMMA QueueSteps ==
  ASSUME QuestionInv, PromoteAnswer \/ WithdrawAnswer \/ QuestionCrash
  PROVE  QuestionInv'
<1>1. CASE PromoteAnswer
  BY <1>1 DEF PromoteAnswer, Running, QuestionInv, QuestionTypeOK, OneWay, ForgottenLate, CallKnows,
              AcceptedAnswerKept, AnsweredMeansRecorded, Recorded, Delivered, Outcome
<1>2. CASE WithdrawAnswer
  <2>1. mishaps' \in 0..MaxMishaps
    BY <1>2, QuestionAssumption DEF WithdrawAnswer, Mishap, QuestionInv, QuestionTypeOK
  <2>2. QuestionTypeOK'
    BY ZenonT(30), <1>2, <2>1 DEF WithdrawAnswer, QuestionInv, QuestionTypeOK
  <2> QED
    BY <1>2, <2>2 DEF WithdrawAnswer, QuestionInv, OneWay, ForgottenLate, CallKnows,
                      AcceptedAnswerKept, AnsweredMeansRecorded, Recorded, Delivered
<1>3. CASE QuestionCrash
  <2>1. mishaps' \in 0..MaxMishaps
    BY <1>3, QuestionAssumption DEF QuestionCrash, Mishap, QuestionInv, QuestionTypeOK
  <2>2. QuestionTypeOK'
    BY <1>3, <2>1 DEF QuestionCrash, QuestionInv, QuestionTypeOK
  <2>3. answering'.step = "none" /\ ~answering'.seen
    BY <1>3 DEF QuestionCrash, Nobody
  <2> QED
    BY <1>3, <2>2, <2>3 DEF QuestionCrash, QuestionInv, OneWay, ForgottenLate, CallKnows,
                      AcceptedAnswerKept, AnsweredMeansRecorded, Recorded, Delivered
<1> QED BY <1>1, <1>2, <1>3

-----------------------------------------------------------------------------
(* The calls that answer. *)

\* A call in one of its steps is a record that can be updated field by field.
LEMMA AnsweringTyped ==
  ASSUME QuestionTypeOK, answering.step \in AnswerStep
  PROVE  answering \in [by: Caller, step: AnswerStep, seen: BOOLEAN]
BY DEF QuestionTypeOK, Nobody, AnswerStep

\* The call goes on to its next step.
LEMMA CallProceeds ==
  ASSUME QuestionTypeOK, answering.step \in AnswerStep, NEW step \in AnswerStep,
         answering' = [answering EXCEPT !.step = step]
  PROVE  /\ answering' \in [by: Caller, step: AnswerStep, seen: BOOLEAN]
         /\ answering'.step = step /\ answering'.seen = answering.seen
BY AnsweringTyped

\* The call returns.
LEMMA CallReplies ==
  ASSUME QuestionTypeOK, NEW c \in Caller, NEW outcome \in {"refused", "accepted"},
         Reply(c, outcome)
  PROVE  /\ answering' = Nobody /\ answering'.step = "none" /\ ~answering'.seen
         /\ calls' \in [Caller -> {"open", "refused", "accepted"}]
         /\ kept' \in BOOLEAN
         /\ kept' => kept \/ outcome = "accepted"
BY DEF QuestionTypeOK, Reply, Nobody

LEMMA BeginStep ==
  ASSUME QuestionInv, NEW c \in Caller, Begin(c)
  PROVE  QuestionInv'
<1>1. /\ answering' = [by |-> c, step |-> "memory", seen |-> FALSE]
      /\ answering' \in [by: Caller, step: AnswerStep, seen: BOOLEAN]
      /\ answering'.step = "memory" /\ ~answering'.seen
  BY DEF Begin, AnswerStep
<1>2. UNCHANGED <<asking, other, wait, question, result, steered, begun, row, calls, kept, mishaps>>
  BY DEF Begin
<1>3. QuestionTypeOK'
  BY <1>1, <1>2 DEF QuestionInv, QuestionTypeOK
<1>4. OneWay' /\ ForgottenLate' /\ AcceptedAnswerKept' /\ AnsweredMeansRecorded'
  BY <1>1, <1>2 DEF QuestionInv, OneWay, ForgottenLate, AcceptedAnswerKept, AnsweredMeansRecorded,
                    Recorded, Delivered
<1>5. CallKnows'
  <2>1. (question = "waiting") => steered = "no"
    BY DEF QuestionInv, CallKnows, Begin, AnswersApart, Nobody
  <2> QED BY <1>1, <1>2, <2>1 DEF CallKnows
<1> QED BY <1>3, <1>4, <1>5 DEF QuestionInv

LEMMA ReadMemoryStep ==
  ASSUME QuestionInv, NEW c \in Caller, ReadMemory(c)
  PROVE  QuestionInv'
<1>1. /\ answering.step = "memory" /\ answering.step \in AnswerStep /\ QuestionTypeOK
      /\ UNCHANGED <<asking, other, wait, question, result, steered, begun, row, mishaps>>
  BY DEF ReadMemory, Remember, AnswerStep, QuestionInv
<1>2. \/ question = "answered" /\ Reply(c, "accepted")
      \/ question = "waiting" /\ Proceed("steer")
      \/ question # "waiting" /\ Proceed("messages")
  BY DEF ReadMemory
<1>3. CASE question = "answered" /\ Reply(c, "accepted")
  <2>1. /\ answering' = Nobody /\ answering'.step = "none" /\ ~answering'.seen
        /\ calls' \in [Caller -> {"open", "refused", "accepted"}] /\ kept' \in BOOLEAN
    BY <1>1, <1>3, CallReplies
  <2>2. Recorded
    BY <1>3 DEF QuestionInv, AnsweredMeansRecorded
  <2>3. QuestionTypeOK'
    BY <1>1, <2>1 DEF QuestionTypeOK
  <2>4. OneWay' /\ ForgottenLate' /\ AnsweredMeansRecorded'
    BY <1>1, <2>1 DEF QuestionInv, OneWay, ForgottenLate, AnsweredMeansRecorded, Recorded
  <2>5. CallKnows' /\ AcceptedAnswerKept'
    BY <1>1, <1>3, <2>1, <2>2 DEF CallKnows, AcceptedAnswerKept, Recorded, Delivered
  <2> QED BY <2>3, <2>4, <2>5 DEF QuestionInv
<1>4. CASE (question = "waiting" /\ Proceed("steer")) \/ (question # "waiting" /\ Proceed("messages"))
  <2>1. PICK step \in {"steer", "messages"} :
          Proceed(step) /\ (step = "steer" => question = "waiting")
    BY <1>4
  <2>2. /\ answering' \in [by: Caller, step: AnswerStep, seen: BOOLEAN]
        /\ answering'.step = step /\ answering'.seen = answering.seen
        /\ UNCHANGED <<calls, kept>>
    BY <1>1, <2>1, CallProceeds DEF Proceed, AnswerStep
  <2>3. (question = "waiting") => steered = "no"
    BY <1>1 DEF QuestionInv, CallKnows
  <2>4. QuestionTypeOK'
    BY <1>1, <2>2 DEF QuestionTypeOK
  <2>5. OneWay' /\ ForgottenLate' /\ AnsweredMeansRecorded' /\ AcceptedAnswerKept'
    BY <1>1, <2>2 DEF QuestionInv, OneWay, ForgottenLate, AnsweredMeansRecorded,
                      AcceptedAnswerKept, Recorded, Delivered
  <2>6. CallKnows'
    BY <1>1, <2>1, <2>2, <2>3 DEF QuestionInv, CallKnows, Recorded
  <2> QED BY <2>4, <2>5, <2>6 DEF QuestionInv
<1> QED BY <1>2, <1>3, <1>4

LEMMA ReadMessagesStep ==
  ASSUME QuestionInv, NEW c \in Caller, ReadMessages(c)
  PROVE  QuestionInv'
<1>1. /\ answering.step = "messages" /\ answering.step \in AnswerStep /\ QuestionTypeOK
      /\ answering' = [answering EXCEPT !.step = "queue", !.seen = Recorded]
      /\ UNCHANGED <<asking, other, wait, question, result, steered, begun, row, calls, kept, mishaps>>
  BY DEF ReadMessages, AnswerStep, QuestionInv
<1>2. Recorded \in BOOLEAN
  BY <1>1 DEF Recorded, QuestionTypeOK
<1>3. answering \in [by: Caller, step: AnswerStep, seen: BOOLEAN]
  BY <1>1, AnsweringTyped
<1>4. /\ answering' \in [by: Caller, step: AnswerStep, seen: BOOLEAN]
      /\ answering'.step = "queue" /\ answering'.seen = Recorded
  BY <1>1, <1>2, <1>3 DEF AnswerStep
<1>5. (question = "waiting") => steered = "no"
  BY <1>1 DEF QuestionInv, CallKnows
<1>6. QuestionTypeOK'
  BY <1>1, <1>4 DEF QuestionTypeOK
<1>7. OneWay' /\ ForgottenLate' /\ AnsweredMeansRecorded' /\ AcceptedAnswerKept'
  BY <1>1, <1>4 DEF QuestionInv, OneWay, ForgottenLate, AnsweredMeansRecorded,
                    AcceptedAnswerKept, Recorded, Delivered
<1>8. CallKnows'
  BY <1>1, <1>4, <1>5 DEF QuestionInv, CallKnows, Recorded
<1> QED BY <1>6, <1>7, <1>8 DEF QuestionInv

LEMMA ReadQueueStep ==
  ASSUME QuestionInv, NEW c \in Caller, ReadQueue(c)
  PROVE  QuestionInv'
<1>1. /\ answering.step = "queue" /\ answering.step \in AnswerStep /\ QuestionTypeOK
      /\ UNCHANGED <<asking, other, wait, question, result, steered, begun, row, mishaps>>
  BY DEF ReadQueue, AnswerStep, QuestionInv
<1>2. CASE (answering.seen \/ row = "queued") /\ Reply(c, "accepted")
  <2>1. /\ answering' = Nobody /\ answering'.step = "none" /\ ~answering'.seen
        /\ calls' \in [Caller -> {"open", "refused", "accepted"}] /\ kept' \in BOOLEAN
    BY <1>1, <1>2, CallReplies
  <2>2. Delivered
    BY <1>2 DEF QuestionInv, CallKnows, Delivered
  <2>3. QuestionTypeOK'
    BY <1>1, <2>1 DEF QuestionTypeOK
  <2>4. OneWay' /\ ForgottenLate' /\ AnsweredMeansRecorded'
    BY <1>1, <2>1 DEF QuestionInv, OneWay, ForgottenLate, AnsweredMeansRecorded, Recorded
  <2>5. (steered # "no") => question # "waiting"
    BY <1>1 DEF QuestionInv, CallKnows
  <2>6. CallKnows' /\ AcceptedAnswerKept'
    BY <1>1, <2>1, <2>2, <2>5 DEF CallKnows, AcceptedAnswerKept, Recorded, Delivered
  <2> QED BY <2>3, <2>4, <2>6 DEF QuestionInv
<1>3. CASE ~answering.seen /\ row # "queued" /\ Proceed("steer")
  <2>1. /\ answering' \in [by: Caller, step: AnswerStep, seen: BOOLEAN]
        /\ answering'.step = "steer" /\ answering'.seen = answering.seen
        /\ UNCHANGED <<calls, kept>>
    BY <1>1, <1>3, CallProceeds DEF Proceed, AnswerStep
  <2>2. steered = "no"
    BY <1>1, <1>3 DEF QuestionInv, CallKnows
  <2>3. QuestionTypeOK'
    BY <1>1, <2>1 DEF QuestionTypeOK
  <2>4. OneWay' /\ ForgottenLate' /\ AnsweredMeansRecorded' /\ AcceptedAnswerKept'
    BY <1>1, <2>1 DEF QuestionInv, OneWay, ForgottenLate, AnsweredMeansRecorded,
                      AcceptedAnswerKept, Recorded, Delivered
  <2>5. CallKnows'
    BY <1>1, <1>3, <2>1, <2>2 DEF QuestionInv, CallKnows, Recorded
  <2> QED BY <2>3, <2>4, <2>5 DEF QuestionInv
<1> QED BY <1>2, <1>3 DEF ReadQueue

LEMMA SteerStep ==
  ASSUME QuestionInv, NEW c \in Caller, SteerAnswer(c)
  PROVE  QuestionInv'
<1>1. /\ answering.step = "steer" /\ answering.step \in AnswerStep /\ QuestionTypeOK
      /\ UNCHANGED <<asking, other, wait, question, result, begun, row, mishaps>>
  BY DEF SteerAnswer, AnswerStep, QuestionInv
<1>2. steered = "no"
  BY <1>1 DEF QuestionInv, CallKnows
<1>3. CASE asking = "running" /\ steered' = "pending" /\ Proceed("mark")
  <2>1. /\ answering' \in [by: Caller, step: AnswerStep, seen: BOOLEAN]
        /\ answering'.step = "mark" /\ answering'.seen = answering.seen
        /\ UNCHANGED <<calls, kept>>
    BY <1>1, <1>3, CallProceeds DEF Proceed, AnswerStep
  <2>2. Recorded' /\ Delivered'
    BY <1>3 DEF Recorded, Delivered
  <2>3. QuestionTypeOK'
    BY <1>1, <1>3, <2>1 DEF QuestionTypeOK
  <2>4. OneWay' /\ ForgottenLate' /\ AnsweredMeansRecorded' /\ AcceptedAnswerKept'
    BY <1>1, <1>3, <2>1, <2>2 DEF QuestionInv, OneWay, ForgottenLate, AnsweredMeansRecorded,
                                  AcceptedAnswerKept
  <2>5. CallKnows'
    BY <2>1, <2>2 DEF CallKnows
  <2> QED BY <2>3, <2>4, <2>5 DEF QuestionInv
<1>4. CASE asking # "running" /\ UNCHANGED steered /\ Proceed("submit")
  <2>1. /\ answering' \in [by: Caller, step: AnswerStep, seen: BOOLEAN]
        /\ answering'.step = "submit" /\ answering'.seen = answering.seen
        /\ UNCHANGED <<calls, kept>>
    BY <1>1, <1>4, CallProceeds DEF Proceed, AnswerStep
  <2>2. QuestionTypeOK'
    BY <1>1, <1>4, <2>1 DEF QuestionTypeOK
  <2>3. OneWay' /\ ForgottenLate' /\ AnsweredMeansRecorded' /\ AcceptedAnswerKept'
    BY <1>1, <1>4, <2>1 DEF QuestionInv, OneWay, ForgottenLate, AnsweredMeansRecorded,
                            AcceptedAnswerKept, Recorded, Delivered
  <2>4. CallKnows'
    BY <1>1, <1>2, <1>4, <2>1 DEF QuestionInv, CallKnows, Recorded
  <2> QED BY <2>2, <2>3, <2>4 DEF QuestionInv
<1> QED BY <1>2, <1>3, <1>4 DEF SteerAnswer

LEMMA SubmitStep ==
  ASSUME QuestionInv, NEW c \in Caller, SubmitAnswer(c)
  PROVE  QuestionInv'
<1>1. /\ answering.step = "submit" /\ answering.step \in AnswerStep /\ QuestionTypeOK
      /\ UNCHANGED <<asking, wait, question, result, steered, mishaps>>
  BY DEF SubmitAnswer, AnswerStep, QuestionInv
<1>2. steered = "no" /\ asking # "running"
  BY <1>1 DEF QuestionInv, CallKnows, OneWay
<1>3. CASE \/ begun /\ Proceed("mark") /\ UNCHANGED <<begun, row, other>>
           \/ ~begun /\ row # "queued" /\ begun' = TRUE /\ other' = TRUE
              /\ Proceed("mark") /\ UNCHANGED row
  <2>1. Proceed("mark") /\ begun' = TRUE /\ row' = row /\ other' \in BOOLEAN /\ row # "queued"
    BY <1>1, <1>3 DEF QuestionInv, OneWay, QuestionTypeOK
  <2>2. /\ answering' \in [by: Caller, step: AnswerStep, seen: BOOLEAN]
        /\ answering'.step = "mark" /\ answering'.seen = answering.seen
        /\ UNCHANGED <<calls, kept>>
    BY <1>1, <2>1, CallProceeds DEF Proceed, AnswerStep
  <2>3. QuestionTypeOK'
    BY <1>1, <2>1, <2>2 DEF QuestionTypeOK
  <2>4. Recorded' /\ Delivered'
    BY <2>1 DEF Recorded, Delivered
  <2>5. OneWay' /\ ForgottenLate' /\ AnsweredMeansRecorded' /\ AcceptedAnswerKept'
    BY <1>1, <1>2, <2>1, <2>2, <2>4 DEF QuestionInv, OneWay, ForgottenLate, AnsweredMeansRecorded,
                                        AcceptedAnswerKept
  <2>6. CallKnows'
    BY <1>1, <1>2, <2>2, <2>4 DEF CallKnows
  <2> QED BY <2>3, <2>5, <2>6 DEF QuestionInv
<1>4. CASE /\ ~begun
           /\ row' = IF row = "none" THEN "queued" ELSE row
           /\ IF row' \in AcceptsQueued THEN Reply(c, "accepted") ELSE Proceed("requeue")
           /\ UNCHANGED <<begun, other>>
  <2>1. row \in {"none", "queued", "cancelled"} /\ row' \in {"queued", "cancelled"} /\ ~begun'
    BY <1>1, <1>4 DEF QuestionInv, OneWay, QuestionTypeOK
  <2>2. CASE row' = "queued" /\ Reply(c, "accepted")
    <3>1. /\ answering' = Nobody /\ answering'.step = "none" /\ ~answering'.seen
          /\ calls' \in [Caller -> {"open", "refused", "accepted"}] /\ kept' \in BOOLEAN
      BY <1>1, <2>2, CallReplies
    <3>2. QuestionTypeOK'
      BY <1>1, <1>4, <2>2, <3>1 DEF QuestionTypeOK
    <3>3. OneWay' /\ ForgottenLate' /\ AnsweredMeansRecorded' /\ AcceptedAnswerKept'
      BY <1>1, <1>2, <1>4, <2>2, <3>1 DEF QuestionInv, OneWay, ForgottenLate, AnsweredMeansRecorded,
                                     AcceptedAnswerKept, Recorded, Delivered
    <3>4. CallKnows'
      BY <1>1, <1>2, <3>1 DEF CallKnows
    <3> QED BY <3>2, <3>3, <3>4 DEF QuestionInv
  <2>3. CASE row' = "cancelled" /\ Proceed("requeue")
    <3>1. /\ answering' \in [by: Caller, step: AnswerStep, seen: BOOLEAN]
          /\ answering'.step = "requeue" /\ answering'.seen = answering.seen
          /\ UNCHANGED <<calls, kept>>
      BY <1>1, <2>3, CallProceeds DEF Proceed, AnswerStep
    <3>2. row = "cancelled"
      BY <1>4, <2>1, <2>3
    <3>3. QuestionTypeOK'
      BY <1>1, <1>4, <2>3, <3>1 DEF QuestionTypeOK
    <3>4. OneWay' /\ ForgottenLate' /\ AnsweredMeansRecorded' /\ AcceptedAnswerKept'
      BY <1>1, <1>2, <1>4, <2>3, <3>1, <3>2 DEF QuestionInv, OneWay, ForgottenLate,
                     AnsweredMeansRecorded, AcceptedAnswerKept, Recorded, Delivered
    <3>5. CallKnows'
      BY <1>1, <1>2, <1>4, <2>3, <3>1 DEF QuestionInv, CallKnows, Recorded
    <3> QED BY <3>3, <3>4, <3>5 DEF QuestionInv
  <2> QED BY <1>4, <2>1, <2>2, <2>3 DEF AcceptsQueued
<1> QED BY <1>3, <1>4 DEF SubmitAnswer

LEMMA RequeueStep ==
  ASSUME QuestionInv, NEW c \in Caller, Requeue(c)
  PROVE  QuestionInv'
<1>1. /\ answering.step = "requeue" /\ QuestionTypeOK
      /\ row' = "queued" /\ Reply(c, "accepted")
      /\ UNCHANGED <<asking, other, wait, question, result, steered, begun, mishaps>>
  BY DEF Requeue, QuestionInv
<1>2. steered = "no" /\ ~begun /\ asking # "running"
  BY <1>1 DEF QuestionInv, CallKnows, OneWay
<1>3. /\ answering' = Nobody /\ answering'.step = "none" /\ ~answering'.seen
      /\ calls' \in [Caller -> {"open", "refused", "accepted"}] /\ kept' \in BOOLEAN
  BY <1>1, CallReplies
<1>4. QuestionTypeOK'
  BY <1>1, <1>3 DEF QuestionTypeOK
<1>5. OneWay' /\ ForgottenLate' /\ AnsweredMeansRecorded' /\ AcceptedAnswerKept'
  BY <1>1, <1>2, <1>3 DEF QuestionInv, OneWay, ForgottenLate, AnsweredMeansRecorded,
                          AcceptedAnswerKept, Recorded, Delivered
<1>6. CallKnows'
  BY <1>1, <1>2, <1>3 DEF CallKnows
<1> QED BY <1>4, <1>5, <1>6 DEF QuestionInv

LEMMA MarkStep ==
  ASSUME QuestionInv, NEW c \in Caller, MarkAnswered(c)
  PROVE  QuestionInv'
<1>1. /\ answering.step = "mark" /\ QuestionTypeOK
      /\ question' = (IF question = "gone" THEN "gone" ELSE "answered") /\ Reply(c, "accepted")
      /\ UNCHANGED <<asking, other, wait, result, steered, begun, row, mishaps>>
  BY DEF MarkAnswered, QuestionInv
<1>2. Recorded
  BY <1>1 DEF QuestionInv, CallKnows
<1>3. /\ answering' = Nobody /\ answering'.step = "none" /\ ~answering'.seen
      /\ calls' \in [Caller -> {"open", "refused", "accepted"}] /\ kept' \in BOOLEAN
  BY <1>1, CallReplies
<1>4. QuestionTypeOK'
  BY <1>1, <1>3 DEF QuestionTypeOK, Outcome
<1>5. OneWay' /\ ForgottenLate' /\ AnsweredMeansRecorded' /\ AcceptedAnswerKept'
  BY <1>1, <1>2, <1>3 DEF QuestionInv, OneWay, ForgottenLate, AnsweredMeansRecorded,
                          AcceptedAnswerKept, Recorded, Delivered
<1>6. CallKnows'
  BY <1>1, <1>3 DEF CallKnows
<1> QED BY <1>4, <1>5, <1>6 DEF QuestionInv

LEMMA FailStep ==
  ASSUME QuestionInv, NEW c \in Caller, AnswerFails(c)
  PROVE  QuestionInv'
<1>1. /\ answering.step # "mark" /\ QuestionTypeOK /\ Reply(c, "refused")
      /\ UNCHANGED <<asking, other, wait, question, result, steered, begun, row>>
  BY DEF AnswerFails, QuestionInv
<1>2. /\ answering' = Nobody /\ answering'.step = "none" /\ ~answering'.seen
      /\ calls' \in [Caller -> {"open", "refused", "accepted"}] /\ kept' \in BOOLEAN
      /\ kept' => kept
  BY <1>1, CallReplies DEF Reply
<1>3. mishaps' \in 0..MaxMishaps
  BY <1>1, QuestionAssumption DEF AnswerFails, Mishap, QuestionTypeOK
<1>4. QuestionTypeOK'
  BY <1>1, <1>2, <1>3 DEF QuestionTypeOK
<1>5. OneWay' /\ ForgottenLate' /\ AnsweredMeansRecorded' /\ AcceptedAnswerKept'
  BY <1>1, <1>2 DEF QuestionInv, OneWay, ForgottenLate, AnsweredMeansRecorded,
                    AcceptedAnswerKept, Recorded, Delivered
<1>6. CallKnows'
  BY <1>1, <1>2 DEF QuestionInv, CallKnows
<1> QED BY <1>4, <1>5, <1>6 DEF QuestionInv

-----------------------------------------------------------------------------
LEMMA QuestionStepInv ==
  ASSUME QuestionInv, [QuestionNext]_questionVars
  PROVE  QuestionInv'
<1>1. CASE UNCHANGED questionVars
  BY <1>1 DEF questionVars, QuestionInv, QuestionTypeOK, OneWay, ForgottenLate, CallKnows,
              AcceptedAnswerKept, AnsweredMeansRecorded, Recorded, Delivered
<1>2. CASE \/ Displayed \/ WaitExpires \/ Dismiss \/ ToolReturns \/ ApplySteers \/ Seal
           \/ AskingEnds \/ OtherTurn
  BY <1>2, TurnSteps
<1>3. CASE PromoteAnswer \/ WithdrawAnswer \/ QuestionCrash
  BY <1>3, QueueSteps
<1>4. ASSUME NEW c \in Caller,
             \/ Begin(c) \/ ReadMemory(c) \/ ReadMessages(c) \/ ReadQueue(c)
             \/ SteerAnswer(c) \/ SubmitAnswer(c) \/ Requeue(c) \/ MarkAnswered(c)
             \/ AnswerFails(c)
      PROVE  QuestionInv'
  BY <1>4, BeginStep, ReadMemoryStep, ReadMessagesStep, ReadQueueStep, SteerStep, SubmitStep,
     RequeueStep, MarkStep, FailStep
<1> QED BY <1>1, <1>2, <1>3, <1>4 DEF QuestionNext

LEMMA QuestionInvariant == QuestionSpec => []QuestionInv
<1>1. QuestionInit => QuestionInv
  BY QuestionInitInv
<1>2. QuestionInv /\ [QuestionNext]_questionVars => QuestionInv'
  BY QuestionStepInv
<1> QED BY <1>1, <1>2, PTL DEF QuestionSpec

\* Type correctness: the question, the answer and the call under way have only the
\* statuses the code knows.
THEOREM QuestionTypeCorrect == QuestionSpec => []QuestionTypeOK
<1>1. QuestionInv => QuestionTypeOK
  BY DEF QuestionInv
<1> QED BY <1>1, QuestionInvariant, PTL

\* answerUserInput: however often the answer is sent, and whichever way it takes, it
\* reaches the history once.
THEOREM AnswerReachesHistoryOnce == QuestionSpec => []AnswerDeliveredOnce
<1>1. QuestionInv => AnswerDeliveredOnce
  BY DEF QuestionInv, OneWay, AnswerDeliveredOnce
<1> QED BY <1>1, QuestionInvariant, PTL

\* answerUserInput: an answer that was accepted, and that no person has withdrawn, is
\* in the history or in the queue, also after failures and restarts.
THEOREM AcceptedAnswerStays == QuestionSpec => []AcceptedAnswerKept
<1>1. QuestionInv => AcceptedAnswerKept
  BY DEF QuestionInv
<1> QED BY <1>1, QuestionInvariant, PTL

\* requestUserInput: the model is told "answered" only when the answer is recorded,
\* and a turn that was steered with it does not end its answer before it has read it.
THEOREM AnsweredIsTrue == QuestionSpec => []AnsweredMeansRecorded
<1>1. QuestionInv => AnsweredMeansRecorded
  BY DEF QuestionInv
<1> QED BY <1>1, QuestionInvariant, PTL

-----------------------------------------------------------------------------
(* Approvals: the prompts, the grants and the identities. *)

Open == {"asked", "waiting", "cleared", "ready"}

\* An open tool call belongs to the turn of the session.
OpenInRound ==
  \A p \in Prompt : /\ (prompt[p].step \in Open) =>
                         (prompt[p].round = round.n /\ round.status # "ended")
                    /\ (prompt[p].step = "cleared") => prompt[p].kind = "command"

\* A command revoked while it waits for its keys is one that came late.
LateKnown == \A p \in revoked : (prompt[p].step = "ready") => p \in late

\* Where a prompt is between its listing and the decision in its channel.
Resolution ==
  \A p \in Prompt :
    /\ (p \in resolving \cup listed) => prompt[p].step \notin {"new", "asked"}
    /\ (claim[p] # "none") => (p \in resolving /\ sent[p] = "none")
    /\ (sent[p] # "none") => (p \in resolving /\ p \notin listed)
    /\ (p \in listed /\ p \in resolving) => claim[p] \in Decision
    /\ (claim[p] \in Decision) => p \in listed
    /\ (p \in listed /\ p \notin abandoned) => prompt[p].step = "waiting"
    /\ (p \in abandoned) => (prompt[p].step = "over" /\ p \in resolving)
    /\ (prompt[p].step = "waiting") => (p \in listed \/ claim[p] # "none" \/ sent[p] # "none")

\* An identity belongs to one project, and to no prompt that was revoked.
Identities ==
  /\ access.id <= issued /\ commands.id <= issued
  /\ \A p \in Prompt :
       /\ (p \in revoked) => prompt[p].step # "new"
       /\ (prompt[p].step # "new") => prompt[p].under \in 1..issued
       /\ (/\ prompt[p].step # "new" /\ prompt[p].kind = "capability"
           /\ prompt[p].under = access.id)
            => (prompt[p].project = access.project /\ p \notin revoked)
       /\ (/\ prompt[p].step # "new" /\ prompt[p].kind = "command"
           /\ prompt[p].under = commands.id)
            => (prompt[p].project = commands.project /\ p \notin revoked)
  /\ (commands.id # 0) => commands.for \in {<<commands.project, d>> : d \in SUBSET Prompt}

ConsentInv == ConsentTypeOK /\ OpenInRound /\ Resolution /\ LeaseEndsWithTurn /\ Identities
              /\ LateKnown

-----------------------------------------------------------------------------
(* Types. *)

Kind == {"capability", "command"}
ForWhat == {<<>>} \cup (Project \X SUBSET Prompt)
Ask == [step : {"new", "asked", "waiting", "cleared", "ready", "ran", "over"}, kind : Kind,
        round : 0..MaxTurns, under : Nat, for : ForWhat, project : Project]
Grants == [id : Nat, for : ForWhat, project : Project, leases : SUBSET Prompt]

LEMMA NothingTyped ==
  /\ NoAccess \in [id : Nat, project : Project] /\ NoAccess.id = 0
  /\ NoCommands \in Grants /\ NoCommands.id = 0 /\ NoCommands.leases = {}
<1>1. (CHOOSE q \in Project : TRUE) \in Project
  BY ConsentAssumption
<1>2. NoAccess \in [id : Nat, project : Project] /\ NoAccess.id = 0
  BY <1>1 DEF NoAccess
<1>3. NoAccess.project \in Project
  BY <1>2
<1> QED BY <1>2, <1>3 DEF NoCommands, Grants, ForWhat

\* ConsentTypeOK in the names of this module.
LEMMA TypeParts ==
  ConsentTypeOK <=>
    /\ round \in [n : 0..MaxTurns, status : {"ended", "running", "cancelled"}]
    /\ project \in Project
    /\ moving \in BOOLEAN
    /\ access \in [id : Nat, project : Project]
    /\ commands \in Grants
    /\ prompt \in [Prompt -> Ask]
    /\ listed \subseteq Prompt /\ resolving \subseteq Prompt /\ abandoned \subseteq Prompt
    /\ claim \in [Prompt -> Decision \cup {"none", "approved", "denied"}]
    /\ sent \in [Prompt -> {"none", "approved", "denied"}]
    /\ saved \subseteq Prompt
    /\ lent \in [project : Project, dirs : SUBSET Prompt]
    /\ issued \in Nat
    /\ revoked \subseteq Prompt /\ late \subseteq Prompt
    /\ changes \in 0..MaxChanges
BY DEF ConsentTypeOK, Grants, Ask, Kind, ForWhat

LEMMA SurroundingsTyped ==
  ASSUME ConsentTypeOK
  PROVE  Surroundings \in {<<project, d>> : d \in SUBSET Prompt} /\ Surroundings \in ForWhat
<1>1. saved \cup (IF lent.project = project THEN lent.dirs ELSE {}) \in SUBSET Prompt
  BY DEF ConsentTypeOK
<1>2. project \in Project
  BY DEF ConsentTypeOK
<1> QED BY <1>1, <1>2 DEF Surroundings, ForWhat

\* The step of one tool call changes.
LEMMA StepSet ==
  ASSUME prompt \in [Prompt -> Ask], NEW p \in Prompt,
         NEW step \in {"asked", "waiting", "cleared", "ready", "ran", "over"},
         prompt' = [prompt EXCEPT ![p].step = step]
  PROVE  /\ prompt' \in [Prompt -> Ask]
         /\ prompt'[p].step = step /\ prompt'[p].kind = prompt[p].kind
         /\ prompt'[p].round = prompt[p].round /\ prompt'[p].under = prompt[p].under
         /\ prompt'[p].project = prompt[p].project
         /\ \A q \in Prompt \ {p} : prompt'[q] = prompt[q]
BY DEF Ask

\* A tool call asks.
LEMMA AskSet ==
  ASSUME prompt \in [Prompt -> Ask], NEW p \in Prompt, NEW ask \in Ask,
         prompt' = [prompt EXCEPT ![p] = ask]
  PROVE  /\ prompt' \in [Prompt -> Ask] /\ prompt'[p] = ask
         /\ \A q \in Prompt \ {p} : prompt'[q] = prompt[q]
OBVIOUS

LEMMA ChangeTyped ==
  ASSUME ConsentTypeOK, Change
  PROVE  changes' \in 0..MaxChanges
BY ConsentAssumption DEF ConsentTypeOK, Change

LEMMA ConsentInitType == ConsentInit => ConsentTypeOK
<1> SUFFICES ASSUME ConsentInit PROVE ConsentTypeOK
  OBVIOUS
<1>1. NoAccess.project \in Project
  BY NothingTyped
<1>2. prompt \in [Prompt -> Ask]
  BY <1>1, ConsentAssumption DEF ConsentInit, Ask, Kind, ForWhat
<1>3. access \in [id : Nat, project : Project] /\ commands \in Grants
  BY NothingTyped DEF ConsentInit
<1>4. round \in [n : 0..MaxTurns, status : {"ended", "running", "cancelled"}]
  BY ConsentAssumption DEF ConsentInit
<1>5. /\ claim \in [Prompt -> Decision \cup {"none", "approved", "denied"}]
      /\ sent \in [Prompt -> {"none", "approved", "denied"}]
  BY DEF ConsentInit
<1>6. lent \in [project : Project, dirs : SUBSET Prompt] /\ project \in Project
  BY <1>1 DEF ConsentInit
<1>7. moving \in BOOLEAN /\ listed \subseteq Prompt /\ resolving \subseteq Prompt
      /\ abandoned \subseteq Prompt /\ saved \subseteq Prompt /\ revoked \subseteq Prompt
      /\ late \subseteq Prompt
  BY DEF ConsentInit
<1>8. issued \in Nat /\ changes \in 0..MaxChanges
  BY ConsentAssumption DEF ConsentInit
<1> QED BY <1>2, <1>3, <1>4, <1>5, <1>6, <1>7, <1>8, TypeParts

\* The turn and its tool calls keep the types.
LEMMA TurnTypes ==
  ASSUME ConsentTypeOK,
         \/ BeginRound \/ CancelRound \/ EndRound
         \/ \E p \in Prompt : AskCapability(p) \/ AskCommand(p) \/ List(p) \/ Receive(p)
                            \/ Abandon(p) \/ CheckCommand(p) \/ RunCommand(p)
  PROVE  ConsentTypeOK'
<1>1. CASE BeginRound
  <2>1. round' \in [n : 0..MaxTurns, status : {"ended", "running", "cancelled"}]
    BY <1>1, ConsentAssumption DEF BeginRound, ConsentTypeOK
  <2> QED BY <1>1, <2>1 DEF BeginRound, ConsentTypeOK
<1>2. CASE CancelRound
  <2>1. round' \in [n : 0..MaxTurns, status : {"ended", "running", "cancelled"}]
    BY <1>2 DEF CancelRound, ConsentTypeOK
  <2> QED BY <1>2, <2>1 DEF CancelRound, ConsentTypeOK
<1>3. CASE EndRound
  <2>1. round' \in [n : 0..MaxTurns, status : {"ended", "running", "cancelled"}]
    BY <1>3 DEF EndRound, ConsentTypeOK
  <2>2. lent' \in [project : Project, dirs : SUBSET Prompt]
    BY <1>3 DEF EndRound, ConsentTypeOK
  <2> QED BY <1>3, <2>1, <2>2 DEF EndRound, ConsentTypeOK
<1>4. ASSUME NEW p \in Prompt, AskCapability(p) PROVE ConsentTypeOK'
  <2>1. access' \in [id : Nat, project : Project] /\ issued' \in Nat
    BY <1>4 DEF AskCapability, ConsentTypeOK
  <2> DEFINE ask == [step |-> "asked", kind |-> "capability", round |-> round.n,
                     under |-> access'.id, for |-> <<>>, project |-> project]
  <2>2. ask \in Ask
    BY <2>1 DEF ConsentTypeOK, Ask, Kind, ForWhat
  <2>3. prompt' = [prompt EXCEPT ![p] = ask]
    BY <1>4 DEF AskCapability
  <2>4. prompt' \in [Prompt -> Ask]
    BY <2>2, <2>3, AskSet, TypeParts
  <2> HIDE DEF ask
  <2> QED BY <1>4, <2>1, <2>4 DEF AskCapability, ConsentTypeOK, Ask, Kind, ForWhat
<1>5. ASSUME NEW p \in Prompt, AskCommand(p) PROVE ConsentTypeOK'
  <2>1. Surroundings \in ForWhat /\ project \in Project /\ issued \in Nat /\ commands \in Grants
    BY SurroundingsTyped, TypeParts
  <2>2. commands' \in Grants
    <3>1. CASE commands' = commands
      BY <3>1, <2>1
    <3>2. CASE commands' = [id |-> issued + 1, for |-> Surroundings, project |-> project, leases |-> {}]
      BY <3>2, <2>1 DEF Grants
    <3> QED BY <3>1, <3>2, <1>5 DEF AskCommand
  <2>3. issued' \in Nat /\ commands'.id \in Nat
    BY <1>5, <2>1, <2>2 DEF AskCommand, Grants
  <2> DEFINE ask == [step |-> IF commands'.leases # {} THEN "cleared" ELSE "asked",
                     kind |-> "command", round |-> round.n, under |-> commands'.id,
                     for |-> Surroundings, project |-> project]
  <2>4. ask \in Ask
    BY <2>1, <2>3 DEF ConsentTypeOK, Ask, Kind
  <2>5. prompt' = [prompt EXCEPT ![p] = ask]
    BY <1>5 DEF AskCommand
  <2>6. prompt' \in [Prompt -> Ask]
    BY <2>4, <2>5, AskSet, TypeParts
  <2> HIDE DEF ask
  <2> QED BY <1>5, <2>2, <2>3, <2>6 DEF AskCommand, ConsentTypeOK, Ask, Grants, Kind, ForWhat
<1>6. ASSUME NEW p \in Prompt, List(p) \/ Receive(p) \/ Abandon(p) \/ CheckCommand(p) \/ RunCommand(p)
      PROVE  ConsentTypeOK'
  <2>1. prompt \in [Prompt -> Ask]
    BY TypeParts
  <2>2. PICK step \in {"asked", "waiting", "cleared", "ready", "ran", "over"} :
          prompt' = [prompt EXCEPT ![p].step = step]
    BY <1>6 DEF List, Receive, Abandon, CheckCommand, RunCommand
  <2>3. prompt' \in [Prompt -> Ask]
    BY <2>1, <2>2, StepSet
  <2>4. listed' \subseteq Prompt /\ abandoned' \subseteq Prompt
    BY <1>6 DEF List, Receive, Abandon, CheckCommand, RunCommand, ConsentTypeOK
  <2>5. UNCHANGED <<round, project, moving, access, commands, resolving, claim, sent, saved, lent,
                    issued, revoked, late, changes>>
    BY <1>6 DEF List, Receive, Abandon, CheckCommand, RunCommand
  <2> QED BY <2>3, <2>4, <2>5 DEF ConsentTypeOK, Ask, Kind, ForWhat
<1> QED BY <1>1, <1>2, <1>3, <1>4, <1>5, <1>6

\* The clients keep the types.
LEMMA ClientTypes ==
  ASSUME ConsentTypeOK, NEW p \in Prompt,
         \/ ClaimPrompt(p) \/ ReleaseClaim(p) \/ SendDecision(p)
         \/ CompleteCapability(p) \/ CompleteCommand(p) \/ CompleteDenial(p)
  PROVE  ConsentTypeOK'
<1>1. /\ claim \in [Prompt -> Decision \cup {"none", "approved", "denied"}]
      /\ sent \in [Prompt -> {"none", "approved", "denied"}]
      /\ listed \subseteq Prompt /\ resolving \subseteq Prompt
  BY DEF ConsentTypeOK
<1>2. UNCHANGED <<round, project, moving, access, prompt, abandoned, issued, revoked, late>>
  BY DEF ClaimPrompt, ReleaseClaim, SendDecision, CompleteCapability, CompleteCommand, CompleteDenial
<1>3. claim' \in [Prompt -> Decision \cup {"none", "approved", "denied"}]
  BY <1>1 DEF ClaimPrompt, ReleaseClaim, SendDecision, CompleteCapability, CompleteCommand,
              CompleteDenial, Decision
<1>4. sent' \in [Prompt -> {"none", "approved", "denied"}]
  <2>1. CASE SendDecision(p)
    BY <1>1, <2>1 DEF SendDecision
  <2>2. CASE CompleteCapability(p)
    BY <1>1, <2>2 DEF CompleteCapability
  <2>3. CASE sent' = sent
    BY <1>1, <2>3
  <2> QED BY <2>1, <2>2, <2>3 DEF ClaimPrompt, ReleaseClaim, CompleteCommand, CompleteDenial
<1>5. listed' \subseteq Prompt /\ resolving' \subseteq Prompt
  BY <1>1 DEF ClaimPrompt, ReleaseClaim, SendDecision, CompleteCapability, CompleteCommand,
              CompleteDenial, AfterRelease
<1>6. saved' \subseteq Prompt /\ lent' \in [project : Project, dirs : SUBSET Prompt]
  <2>1. CASE CompleteCapability(p) /\ Lend(p)
    BY <2>1 DEF Lend, ConsentTypeOK
  <2>2. CASE UNCHANGED <<saved, lent>>
    BY <2>2 DEF ConsentTypeOK
  <2> QED BY <2>1, <2>2 DEF ClaimPrompt, ReleaseClaim, SendDecision, CompleteCapability,
                            CompleteCommand, CompleteDenial
<1>7. commands' \in Grants
  <2>1. commands \in Grants
    BY TypeParts
  <2>2. CASE commands' = [commands EXCEPT !.leases = commands.leases \cup {p}]
    BY <2>1, <2>2 DEF Grants
  <2>3. CASE commands' = commands
    BY <2>1, <2>3
  <2> QED BY <2>2, <2>3 DEF ClaimPrompt, ReleaseClaim, SendDecision, CompleteCapability,
                            CompleteCommand, CompleteDenial
<1>8. changes' \in 0..MaxChanges
  <2>1. CASE Change
    BY <2>1, ChangeTyped
  <2>2. CASE changes' = changes
    BY <2>2 DEF ConsentTypeOK
  <2> QED BY <2>1, <2>2 DEF ClaimPrompt, ReleaseClaim, SendDecision, CompleteCapability,
                            CompleteCommand, CompleteDenial
<1> QED BY <1>2, <1>3, <1>4, <1>5, <1>6, <1>7, <1>8 DEF ConsentTypeOK, Grants, ForWhat

\* What every revocation does to the permissions, and leaves alone.
LEMMA RevokeEffect ==
  ASSUME ConsentTypeOK,
         \/ Revoke \/ SetDirectories \/ MoveSession \/ MoveRevokes
         \/ \E q \in Project : RevokeProject(q)
  PROVE  /\ UNCHANGED <<round, prompt, listed, resolving, abandoned, claim, sent, issued>>
         /\ access' \in {access, NoAccess} /\ commands' \in {commands, NoCommands}
         /\ lent' \in {lent, [lent EXCEPT !.dirs = {}]}
         /\ saved' \subseteq saved
         /\ project' \in Project /\ moving' \in BOOLEAN
         /\ revoked' \subseteq revoked \cup Asked /\ late' \subseteq late \cup Asked
         /\ changes' \in 0..MaxChanges
<1>1. changes' \in 0..MaxChanges
  <2>1. CASE Change
    BY <2>1, ChangeTyped
  <2>2. CASE changes' = changes
    BY <2>2 DEF ConsentTypeOK
  <2> QED BY <2>1, <2>2 DEF Revoke, SetDirectories, MoveSession, MoveRevokes, RevokeProject
<1>2. project \in Project /\ moving \in BOOLEAN
  BY DEF ConsentTypeOK
<1>3. CASE Revoke
  BY <1>1, <1>2, <1>3 DEF Revoke, DropPermissions, Revokes
<1>4. CASE SetDirectories
  BY <1>1, <1>2, <1>4 DEF SetDirectories, Revokes
<1>5. CASE MoveSession
  BY <1>1, <1>2, <1>5 DEF MoveSession
<1>6. CASE MoveRevokes
  BY <1>1, <1>2, <1>6 DEF MoveRevokes, DropPermissions, Revokes
<1>7. ASSUME NEW q \in Project, RevokeProject(q)
      PROVE  /\ UNCHANGED <<round, prompt, listed, resolving, abandoned, claim, sent, issued>>
             /\ access' \in {access, NoAccess} /\ commands' \in {commands, NoCommands}
             /\ lent' \in {lent, [lent EXCEPT !.dirs = {}]}
             /\ saved' \subseteq saved
             /\ project' \in Project /\ moving' \in BOOLEAN
             /\ revoked' \subseteq revoked \cup Asked /\ late' \subseteq late \cup Asked
  <2>1. UNCHANGED <<round, project, moving, prompt, listed, resolving, abandoned, claim, sent,
                    saved, issued>>
    BY <1>7 DEF RevokeProject, Revokes
  <2>2. /\ access' \in {access, NoAccess} /\ commands' \in {commands, NoCommands}
        /\ lent' \in {lent, [lent EXCEPT !.dirs = {}]}
    BY <1>7 DEF RevokeProject, Revokes
  <2>3. revoked' \subseteq revoked \cup Asked /\ late' \subseteq late \cup Asked
    BY <1>7 DEF RevokeProject, Revokes
  <2> QED BY <1>2, <2>1, <2>2, <2>3
<1> QED BY <1>1, <1>3, <1>4, <1>5, <1>6, <1>7

LEMMA RevokeTypes ==
  ASSUME ConsentTypeOK,
         \/ Revoke \/ SetDirectories \/ MoveSession \/ MoveRevokes
         \/ \E q \in Project : RevokeProject(q)
  PROVE  ConsentTypeOK'
<1>1. access' \in [id : Nat, project : Project] /\ commands' \in Grants
  BY RevokeEffect, NothingTyped, TypeParts
<1>2. lent' \in [project : Project, dirs : SUBSET Prompt]
  <2>1. lent \in [project : Project, dirs : SUBSET Prompt]
    BY DEF ConsentTypeOK
  <2>2. [lent EXCEPT !.dirs = {}] \in [project : Project, dirs : SUBSET Prompt]
    BY <2>1
  <2>3. lent' \in {lent, [lent EXCEPT !.dirs = {}]}
    BY RevokeEffect
  <2> QED BY <2>1, <2>2, <2>3
<1>3. saved' \subseteq Prompt /\ revoked' \subseteq Prompt /\ late' \subseteq Prompt
  <2>1. saved \subseteq Prompt /\ revoked \subseteq Prompt /\ late \subseteq Prompt /\ Asked \subseteq Prompt
    BY DEF ConsentTypeOK, Asked
  <2> QED BY <2>1, RevokeEffect
<1>4. /\ UNCHANGED <<round, prompt, listed, resolving, abandoned, claim, sent, issued>>
      /\ project' \in Project /\ moving' \in BOOLEAN /\ changes' \in 0..MaxChanges
  BY RevokeEffect
<1> QED BY <1>1, <1>2, <1>3, <1>4 DEF ConsentTypeOK, Grants, ForWhat

-----------------------------------------------------------------------------
(* An open tool call belongs to the turn of the session. *)

LEMMA OpenStep ==
  ASSUME ConsentTypeOK, OpenInRound, ConsentNext
  PROVE  OpenInRound'
<1>1. prompt \in [Prompt -> Ask]
  BY TypeParts
<1>2. CASE BeginRound \/ CancelRound \/ EndRound
  <2>1. prompt' = prompt
    BY <1>2 DEF BeginRound, CancelRound, EndRound
  <2>2. CASE BeginRound
    BY <2>1, <2>2 DEF BeginRound, OpenInRound
  <2>3. CASE CancelRound
    <3>1. round'.n = round.n /\ round'.status # "ended"
      BY <2>3 DEF CancelRound, ConsentTypeOK
    <3> QED BY <2>1, <3>1 DEF OpenInRound
  <2>4. CASE EndRound
    <3>1. \A p \in Prompt : prompt[p].step \notin Open
      BY <2>4 DEF EndRound, NoneOpen, OpenInRound, Open
    <3> QED BY <2>1, <3>1 DEF OpenInRound, Open
  <2> QED BY <1>2, <2>2, <2>3, <2>4
<1>3. ASSUME NEW p \in Prompt, AskCapability(p) \/ AskCommand(p) PROVE OpenInRound'
  <2>1. /\ prompt'[p].round = round.n /\ \A q \in Prompt \ {p} : prompt'[q] = prompt[q]
        /\ prompt'[p].step = "cleared" => prompt'[p].kind = "command"
    BY <1>1, <1>3 DEF AskCapability, AskCommand
  <2>2. round' = round /\ round.status = "running"
    BY <1>3 DEF AskCapability, AskCommand
  <2> QED BY <2>1, <2>2 DEF OpenInRound
<1>4. ASSUME NEW p \in Prompt, List(p) \/ Receive(p) \/ Abandon(p) \/ CheckCommand(p) \/ RunCommand(p)
      PROVE  OpenInRound'
  <2>1. PICK step \in {"asked", "waiting", "cleared", "ready", "ran", "over"} :
          prompt' = [prompt EXCEPT ![p].step = step] /\ (step = "cleared" => prompt[p].kind = "command")
    BY <1>4 DEF List, Receive, Abandon, CheckCommand, RunCommand
  <2>2. /\ prompt'[p].step = step /\ prompt'[p].kind = prompt[p].kind
        /\ prompt'[p].round = prompt[p].round
        /\ \A q \in Prompt \ {p} : prompt'[q] = prompt[q]
    BY <1>1, <2>1, StepSet
  <2>3. prompt[p].step \in Open /\ round' = round
    BY <1>4 DEF List, Receive, Abandon, CheckCommand, RunCommand, Open
  <2> QED BY <2>1, <2>2, <2>3 DEF OpenInRound
<1>5. CASE UNCHANGED <<prompt, round>>
  BY <1>5 DEF OpenInRound
<1>6. ASSUME NEW p \in Prompt,
             \/ ClaimPrompt(p) \/ ReleaseClaim(p) \/ SendDecision(p)
             \/ CompleteCapability(p) \/ CompleteCommand(p) \/ CompleteDenial(p)
      PROVE  UNCHANGED <<prompt, round>>
  BY <1>6 DEF ClaimPrompt, ReleaseClaim, SendDecision, CompleteCapability, CompleteCommand,
              CompleteDenial
<1>7. CASE \/ Revoke \/ SetDirectories \/ MoveSession \/ MoveRevokes
           \/ \E q \in Project : RevokeProject(q)
  BY <1>5, <1>7, RevokeEffect
<1> QED BY <1>2, <1>3, <1>4, <1>5, <1>6, <1>7 DEF ConsentNext

-----------------------------------------------------------------------------
(* From the listing of a prompt to the decision in its channel. *)

\* Resolution speaks of one prompt at a time: the prompts a step does not touch keep it.
Resolved(p) ==
  /\ (p \in resolving \cup listed) => prompt[p].step \notin {"new", "asked"}
  /\ (claim[p] # "none") => (p \in resolving /\ sent[p] = "none")
  /\ (sent[p] # "none") => (p \in resolving /\ p \notin listed)
  /\ (p \in listed /\ p \in resolving) => claim[p] \in Decision
  /\ (claim[p] \in Decision) => p \in listed
  /\ (p \in listed /\ p \notin abandoned) => prompt[p].step = "waiting"
  /\ (p \in abandoned) => (prompt[p].step = "over" /\ p \in resolving)
  /\ (prompt[p].step = "waiting") => (p \in listed \/ claim[p] # "none" \/ sent[p] # "none")

LEMMA ResolvedFrame ==
  ASSUME NEW q \in Prompt, Resolved(q),
         prompt'[q].step = prompt[q].step, claim'[q] = claim[q], sent'[q] = sent[q],
         (q \in listed') <=> (q \in listed), (q \in resolving') <=> (q \in resolving),
         (q \in abandoned') <=> (q \in abandoned)
  PROVE  Resolved(q)'
BY DEF Resolved

LEMMA ResolutionParts == Resolution <=> \A p \in Prompt : Resolved(p)
BY DEF Resolution, Resolved

\* Only prompt p is touched.
LEMMA ResolutionAt ==
  ASSUME Resolution, NEW p \in Prompt, Resolved(p)',
         \A q \in Prompt \ {p} :
           prompt'[q].step = prompt[q].step /\ claim'[q] = claim[q] /\ sent'[q] = sent[q],
         listed' \ {p} = listed \ {p}, resolving' \ {p} = resolving \ {p},
         abandoned' \ {p} = abandoned \ {p}
  PROVE  Resolution'
<1>1. ASSUME NEW q \in Prompt PROVE Resolved(q)'
  <2>1. CASE q = p
    BY <2>1
  <2>2. CASE q # p
    <3>1. /\ (q \in listed') <=> (q \in listed)
          /\ (q \in resolving') <=> (q \in resolving)
          /\ (q \in abandoned') <=> (q \in abandoned)
      BY <2>2
    <3>2. Resolved(q)
      BY ResolutionParts
    <3> QED BY <2>2, <3>1, <3>2, ResolvedFrame
  <2> QED BY <2>1, <2>2
<1> QED BY <1>1 DEF Resolution, Resolved

LEMMA ToolResolution ==
  ASSUME ConsentTypeOK, Resolution, NEW p \in Prompt,
         \/ AskCapability(p) \/ AskCommand(p) \/ List(p) \/ Receive(p) \/ Abandon(p)
         \/ CheckCommand(p) \/ RunCommand(p)
  PROVE  Resolution'
<1>1. prompt \in [Prompt -> Ask] /\ Resolved(p)
  BY TypeParts, ResolutionParts
<1>2. UNCHANGED <<resolving, claim, sent>>
  BY DEF AskCapability, AskCommand, List, Receive, Abandon, CheckCommand, RunCommand
<1>3. \A q \in Prompt \ {p} : prompt'[q] = prompt[q]
  BY <1>1 DEF AskCapability, AskCommand, List, Receive, Abandon, CheckCommand, RunCommand
<1>4. listed' \ {p} = listed \ {p} /\ abandoned' \ {p} = abandoned \ {p}
  BY DEF AskCapability, AskCommand, List, Receive, Abandon, CheckCommand, RunCommand
<1>5. Resolved(p)'
  <2>1. CASE AskCapability(p) \/ AskCommand(p)
    <3>1. prompt'[p].step \in {"asked", "cleared"} /\ prompt[p].step = "new"
          /\ UNCHANGED <<listed, abandoned>>
      BY <1>1, <2>1 DEF AskCapability, AskCommand
    <3> QED BY <1>1, <1>2, <3>1 DEF Resolved
  <2>2. CASE List(p)
    <3>1. prompt'[p].step = "waiting" /\ prompt[p].step = "asked"
      BY <1>1, <2>2, StepSet DEF List
    <3>2. p \in listed' /\ abandoned' = abandoned
      BY <2>2 DEF List
    <3> QED BY <1>1, <1>2, <3>1, <3>2 DEF Resolved
  <2>3. CASE Receive(p)
    <3>1. prompt'[p].step \in {"cleared", "over"} /\ prompt[p].step = "waiting" /\ sent[p] # "none"
          /\ UNCHANGED <<listed, abandoned>>
      BY <1>1, <2>3, StepSet DEF Receive
    <3> QED BY <1>1, <1>2, <3>1 DEF Resolved
  <2>4. CASE Abandon(p)
    <3>1. prompt'[p].step = "over" /\ prompt[p].step = "waiting"
      BY <1>1, <2>4, StepSet DEF Abandon
    <3>2. /\ listed' = (IF p \in resolving THEN listed ELSE listed \ {p})
          /\ abandoned' = (IF p \in listed \cap resolving THEN abandoned \cup {p} ELSE abandoned)
      BY <2>4 DEF Abandon
    <3>3. p \notin abandoned
      BY <1>1, <3>1 DEF Resolved
    <3>4. CASE p \in resolving
      <4>1. listed' = listed /\ ((p \in abandoned') <=> (p \in listed))
        BY <3>2, <3>3, <3>4
      <4> QED BY <1>1, <1>2, <3>1, <3>4, <4>1 DEF Resolved
    <3>5. CASE p \notin resolving
      <4>1. p \notin listed' /\ p \notin abandoned'
        BY <3>2, <3>3, <3>5
      <4> QED BY <1>1, <1>2, <3>1, <3>5, <4>1 DEF Resolved, Decision
    <3> QED BY <3>4, <3>5
  <2>5. CASE CheckCommand(p) \/ RunCommand(p)
    <3>1. prompt'[p].step \in {"ready", "ran", "over"} /\ prompt[p].step \in {"cleared", "ready"}
          /\ UNCHANGED <<listed, abandoned>>
      BY <1>1, <2>5, StepSet DEF CheckCommand, RunCommand
    <3> QED BY <1>1, <1>2, <3>1 DEF Resolved
  <2> QED BY <2>1, <2>2, <2>3, <2>4, <2>5
<1>6. \A q \in Prompt \ {p} :
        prompt'[q].step = prompt[q].step /\ claim'[q] = claim[q] /\ sent'[q] = sent[q]
  BY <1>2, <1>3
<1> QED BY <1>2, <1>4, <1>5, <1>6, ResolutionAt

LEMMA ClientResolution ==
  ASSUME ConsentTypeOK, Resolution, NEW p \in Prompt,
         \/ ClaimPrompt(p) \/ ReleaseClaim(p) \/ SendDecision(p)
         \/ CompleteCapability(p) \/ CompleteCommand(p) \/ CompleteDenial(p)
  PROVE  Resolution'
<1>1. /\ Resolved(p) /\ claim \in [Prompt -> Decision \cup {"none", "approved", "denied"}]
      /\ sent \in [Prompt -> {"none", "approved", "denied"}]
  BY TypeParts, ResolutionParts
<1>2. UNCHANGED <<prompt, abandoned>>
  BY DEF ClaimPrompt, ReleaseClaim, SendDecision, CompleteCapability, CompleteCommand, CompleteDenial
<1>3. \A q \in Prompt \ {p} : claim'[q] = claim[q] /\ sent'[q] = sent[q]
  BY <1>1 DEF ClaimPrompt, ReleaseClaim, SendDecision, CompleteCapability, CompleteCommand,
              CompleteDenial
<1>4. listed' \ {p} = listed \ {p} /\ resolving' \ {p} = resolving \ {p}
  BY DEF ClaimPrompt, ReleaseClaim, SendDecision, CompleteCapability, CompleteCommand,
         CompleteDenial, AfterRelease
<1>5. Resolved(p)'
  <2>1. CASE ClaimPrompt(p)
    <3>1. claim'[p] \in Decision /\ p \in listed /\ p \in resolving' /\ UNCHANGED <<listed, sent>>
      BY <1>1, <2>1 DEF ClaimPrompt
    <3> QED BY <1>1, <1>2, <3>1 DEF Resolved
  <2>2. CASE ReleaseClaim(p)
    <3>1. claim'[p] = "none" /\ claim[p] \in Decision /\ sent' = sent
      BY <1>1, <2>2 DEF ReleaseClaim
    <3>2. /\ listed' = (IF p \in abandoned THEN listed \ {p} ELSE listed)
          /\ resolving' = (IF p \in abandoned THEN resolving ELSE resolving \ {p})
      BY <2>2 DEF ReleaseClaim, AfterRelease
    <3> QED BY <1>1, <1>2, <3>1, <3>2 DEF Resolved, Decision
  <2>3. CASE SendDecision(p)
    <3>1. claim'[p] = "none" /\ claim[p] \in {"approved", "denied"} /\ sent'[p] = claim[p]
          /\ UNCHANGED <<listed, resolving>>
      BY <1>1, <2>3 DEF SendDecision
    <3> QED BY <1>1, <1>2, <3>1 DEF Resolved, Decision
  <2>4. CASE CompleteCapability(p)
    <3>1. /\ claim[p] \in Decision /\ listed' = listed \ {p} /\ resolving' = resolving
          /\ \/ claim'[p] = "approved" /\ sent'[p] = sent[p]
             \/ claim'[p] = "none" /\ sent'[p] = "denied"
      BY <1>1, <2>4 DEF CompleteCapability, Decision
    <3> QED BY <1>1, <1>2, <3>1 DEF Resolved, Decision
  <2>5. CASE CompleteCommand(p) \/ CompleteDenial(p)
    <3>1. /\ claim[p] \in Decision /\ listed' = listed \ {p} /\ UNCHANGED <<resolving, sent>>
          /\ claim'[p] \in {"approved", "denied"}
      BY <1>1, <2>5 DEF CompleteCommand, CompleteDenial, Decision
    <3> QED BY <1>1, <1>2, <3>1 DEF Resolved, Decision
  <2> QED BY <2>1, <2>2, <2>3, <2>4, <2>5
<1>6. \A q \in Prompt \ {p} :
        prompt'[q].step = prompt[q].step /\ claim'[q] = claim[q] /\ sent'[q] = sent[q]
  BY <1>2, <1>3
<1> QED BY <1>2, <1>4, <1>5, <1>6, ResolutionAt

LEMMA ResolutionStep ==
  ASSUME ConsentTypeOK, Resolution, ConsentNext
  PROVE  Resolution'
<1>1. CASE UNCHANGED <<prompt, listed, resolving, abandoned, claim, sent>>
  BY <1>1 DEF Resolution
<1>2. CASE BeginRound \/ CancelRound \/ EndRound
  BY <1>1, <1>2 DEF BeginRound, CancelRound, EndRound
<1>3. CASE \/ Revoke \/ SetDirectories \/ MoveSession \/ MoveRevokes
           \/ \E q \in Project : RevokeProject(q)
  BY <1>1, <1>3, RevokeEffect
<1> QED BY <1>2, <1>3, ToolResolution, ClientResolution DEF ConsentNext

-----------------------------------------------------------------------------
(* What is lent to a turn ends with it. *)

LEMMA LeaseFrame ==
  ASSUME ConsentTypeOK, LeaseEndsWithTurn, round' = round, lent'.dirs \subseteq lent.dirs,
         \A q \in Prompt : prompt'[q].round = prompt[q].round
  PROVE  LeaseEndsWithTurn'
<1>1. lent.dirs \subseteq Prompt
  BY DEF ConsentTypeOK
<1> QED BY <1>1 DEF LeaseEndsWithTurn

LEMMA LeaseStep ==
  ASSUME ConsentTypeOK, OpenInRound, Resolution, LeaseEndsWithTurn, ConsentNext
  PROVE  LeaseEndsWithTurn'
<1>1. prompt \in [Prompt -> Ask] /\ lent \in [project : Project, dirs : SUBSET Prompt]
  BY TypeParts
<1>2. CASE BeginRound
  <2>1. lent.dirs = {} /\ lent' = lent
    BY <1>2 DEF BeginRound, LeaseEndsWithTurn
  <2> QED BY <2>1 DEF LeaseEndsWithTurn
<1>3. CASE CancelRound
  <2>1. round'.n = round.n /\ round'.status # "ended" /\ UNCHANGED <<lent, prompt>>
    BY <1>3 DEF CancelRound, ConsentTypeOK
  <2> QED BY <2>1 DEF LeaseEndsWithTurn
<1>4. CASE EndRound
  <2>1. lent'.dirs = {}
    BY <1>1, <1>4 DEF EndRound
  <2> QED BY <2>1 DEF LeaseEndsWithTurn
<1>5. ASSUME NEW p \in Prompt, AskCapability(p) \/ AskCommand(p) PROVE LeaseEndsWithTurn'
  <2>1. /\ prompt'[p].round = round.n /\ \A q \in Prompt \ {p} : prompt'[q] = prompt[q]
        /\ UNCHANGED <<round, lent>> /\ round.status = "running"
    BY <1>1, <1>5 DEF AskCapability, AskCommand
  <2> QED BY <1>1, <2>1 DEF LeaseEndsWithTurn
<1>6. ASSUME NEW p \in Prompt, List(p) \/ Receive(p) \/ Abandon(p) \/ CheckCommand(p) \/ RunCommand(p)
      PROVE  LeaseEndsWithTurn'
  <2>1. PICK step \in {"asked", "waiting", "cleared", "ready", "ran", "over"} :
          prompt' = [prompt EXCEPT ![p].step = step]
    BY <1>6 DEF List, Receive, Abandon, CheckCommand, RunCommand
  <2>2. prompt'[p].round = prompt[p].round /\ \A q \in Prompt \ {p} : prompt'[q] = prompt[q]
    BY <1>1, <2>1, StepSet
  <2>3. \A q \in Prompt : prompt'[q].round = prompt[q].round
    BY <2>2
  <2>4. UNCHANGED <<round, lent>>
    BY <1>6 DEF List, Receive, Abandon, CheckCommand, RunCommand
  <2> QED BY <2>3, <2>4, LeaseFrame
<1>7. CASE UNCHANGED <<round, lent, prompt>>
  BY <1>7, LeaseFrame
<1>8. ASSUME NEW p \in Prompt, CompleteCapability(p) PROVE LeaseEndsWithTurn'
  <2>1. UNCHANGED <<round, prompt>>
    BY <1>8 DEF CompleteCapability
  <2>2. CASE MayLend(p) /\ Lend(p) /\ claim[p] = "turn"
    <3>1. prompt[p].step = "waiting"
      BY <2>2 DEF MayLend, Resolution, Decision
    <3>2. round.status # "ended" /\ prompt[p].round = round.n
      BY <3>1 DEF OpenInRound, Open
    <3>3. lent'.dirs \subseteq lent.dirs \cup {p}
      BY <2>2 DEF Lend
    <3> QED BY <1>1, <2>1, <3>2, <3>3 DEF LeaseEndsWithTurn
  <2>3. CASE lent' = lent
    BY <1>7, <2>1, <2>3
  <2> QED BY <1>8, <2>2, <2>3 DEF CompleteCapability, Lend
<1>9. ASSUME NEW p \in Prompt,
             ClaimPrompt(p) \/ ReleaseClaim(p) \/ SendDecision(p) \/ CompleteCommand(p)
             \/ CompleteDenial(p)
      PROVE  UNCHANGED <<round, lent, prompt>>
  BY <1>9 DEF ClaimPrompt, ReleaseClaim, SendDecision, CompleteCommand, CompleteDenial
<1>10. CASE \/ Revoke \/ SetDirectories \/ MoveSession \/ MoveRevokes
            \/ \E q \in Project : RevokeProject(q)
  <2>1. UNCHANGED <<round, prompt>> /\ lent' \in {lent, [lent EXCEPT !.dirs = {}]}
    BY <1>10, RevokeEffect
  <2>2. lent'.dirs \subseteq lent.dirs
    BY <1>1, <2>1
  <2> QED BY <2>1, <2>2, LeaseFrame
<1> QED BY <1>2, <1>3, <1>4, <1>5, <1>6, <1>7, <1>8, <1>9, <1>10 DEF ConsentNext

-----------------------------------------------------------------------------
(* Identities. *)

LEMMA IdentityFrame ==
  ASSUME Identities, UNCHANGED <<access, issued, revoked>>,
         commands'.id = commands.id, commands'.for = commands.for,
         commands'.project = commands.project,
         \A q \in Prompt : /\ (prompt'[q].step # "new") => (prompt[q].step # "new")
                           /\ (prompt[q].step # "new") => (prompt'[q].step # "new")
                           /\ prompt'[q].kind = prompt[q].kind
                           /\ prompt'[q].under = prompt[q].under
                           /\ prompt'[q].project = prompt[q].project
  PROVE  Identities'
<1>1. access'.id <= issued' /\ commands'.id <= issued'
  BY DEF Identities
<1>2. ASSUME NEW p \in Prompt
      PROVE  /\ (p \in revoked') => prompt'[p].step # "new"
             /\ (prompt'[p].step # "new") => prompt'[p].under \in 1..issued'
             /\ (/\ prompt'[p].step # "new" /\ prompt'[p].kind = "capability"
                 /\ prompt'[p].under = access'.id)
                  => (prompt'[p].project = access'.project /\ p \notin revoked')
             /\ (/\ prompt'[p].step # "new" /\ prompt'[p].kind = "command"
                 /\ prompt'[p].under = commands'.id)
                  => (prompt'[p].project = commands'.project /\ p \notin revoked')
  BY DEF Identities
<1>3. (commands'.id # 0) => commands'.for \in {<<commands'.project, d>> : d \in SUBSET Prompt}
  BY DEF Identities
<1> QED BY <1>1, <1>2, <1>3 DEF Identities

LEMMA AskCapabilityIdentity ==
  ASSUME ConsentTypeOK, Identities, NEW p \in Prompt, AskCapability(p)
  PROVE  Identities'
<1>1. /\ prompt \in [Prompt -> Ask] /\ issued \in Nat
      /\ access \in [id : Nat, project : Project] /\ commands \in Grants
      /\ p \notin revoked /\ UNCHANGED <<commands, revoked>>
  BY TypeParts DEF AskCapability, Identities
<1>2. /\ prompt'[p].step = "asked" /\ prompt'[p].kind = "capability"
      /\ prompt'[p].under = access'.id /\ prompt'[p].project = project
      /\ \A q \in Prompt \ {p} : prompt'[q] = prompt[q]
  BY <1>1 DEF AskCapability
<1>3. CASE access' = access /\ access.id # 0 /\ access.project = project
  <2>1. issued' = issued /\ access.id \in 1..issued /\ commands.id <= issued
    BY <1>1, <1>3 DEF AskCapability, Identities
  <2> QED BY <1>1, <1>2, <1>3, <2>1 DEF Identities
<1>4. CASE access' = [id |-> issued + 1, project |-> project]
  <2>1. access'.id = issued + 1 /\ access'.project = project /\ access' # access
    BY <1>1, <1>4 DEF Identities
  <2>2. issued' = issued + 1
    BY <1>4, <2>1 DEF AskCapability
  <2>3. commands.id \in Nat /\ commands.id <= issued
    BY <1>1 DEF Identities, Grants
  <2>4. \A q \in Prompt \ {p} : (prompt[q].step # "new") =>
          (prompt[q].under \in 1..issued' /\ prompt[q].under # access'.id)
    BY <1>1, <2>1, <2>2 DEF Identities
  <2>5. access'.id \in 1..issued' /\ access'.id <= issued' /\ commands'.id <= issued'
    BY <1>1, <2>1, <2>2, <2>3
  <2>6. commands'.id # access'.id
    BY <1>1, <2>1, <2>3
  <2>7. ASSUME NEW q \in Prompt
        PROVE  /\ (q \in revoked') => prompt'[q].step # "new"
               /\ (prompt'[q].step # "new") => prompt'[q].under \in 1..issued'
               /\ (/\ prompt'[q].step # "new" /\ prompt'[q].kind = "capability"
                   /\ prompt'[q].under = access'.id)
                    => (prompt'[q].project = access'.project /\ q \notin revoked')
               /\ (/\ prompt'[q].step # "new" /\ prompt'[q].kind = "command"
                   /\ prompt'[q].under = commands'.id)
                    => (prompt'[q].project = commands'.project /\ q \notin revoked')
    <3>1. CASE q = p
      BY <1>1, <1>2, <2>1, <2>5, <3>1
    <3>2. CASE q # p
      BY <1>1, <1>2, <2>4, <3>2 DEF Identities
    <3> QED BY <3>1, <3>2
  <2>8. (commands'.id # 0) => commands'.for \in {<<commands'.project, d>> : d \in SUBSET Prompt}
    BY <1>1 DEF Identities
  <2> QED BY <2>5, <2>7, <2>8 DEF Identities
<1> QED BY <1>3, <1>4 DEF AskCapability

LEMMA AskCommandIdentity ==
  ASSUME ConsentTypeOK, Identities, NEW p \in Prompt, AskCommand(p)
  PROVE  Identities'
<1>1. /\ prompt \in [Prompt -> Ask] /\ issued \in Nat
      /\ access \in [id : Nat, project : Project] /\ commands \in Grants
      /\ p \notin revoked /\ UNCHANGED <<access, revoked>>
  BY TypeParts DEF AskCommand, Identities
<1>2. /\ prompt'[p].step \in {"asked", "cleared"} /\ prompt'[p].kind = "command"
      /\ prompt'[p].under = commands'.id /\ prompt'[p].project = project
      /\ \A q \in Prompt \ {p} : prompt'[q] = prompt[q]
  BY <1>1 DEF AskCommand
<1>3. PICK d \in SUBSET Prompt : Surroundings = <<project, d>>
  BY SurroundingsTyped
<1>4. CASE commands' = commands /\ commands.id # 0 /\ commands.for = Surroundings
  <2>1. PICK e \in SUBSET Prompt : commands.for = <<commands.project, e>>
    BY <1>4 DEF Identities
  <2>2. commands.project = project
    BY <1>3, <1>4, <2>1
  <2>3. commands.id \in Nat
    BY <1>1 DEF Grants
  <2>4. issued' = issued /\ commands.id \in 1..issued
    BY <1>1, <1>4, <2>3 DEF AskCommand, Identities
  <2> QED BY <1>1, <1>2, <1>4, <2>2, <2>4 DEF Identities
<1>5. CASE commands' = [id |-> issued + 1, for |-> Surroundings, project |-> project, leases |-> {}]
  <2>1. /\ commands'.id = issued + 1 /\ commands'.project = project
        /\ commands'.for = Surroundings /\ commands' # commands
    BY <1>1, <1>5 DEF Identities
  <2>2. issued' = issued + 1
    BY <1>5, <2>1 DEF AskCommand
  <2>3. \A q \in Prompt \ {p} : (prompt[q].step # "new") =>
          (prompt[q].under \in 1..issued' /\ prompt[q].under # commands'.id)
    BY <1>1, <2>1, <2>2 DEF Identities
  <2>4. commands'.id \in 1..issued' /\ commands'.id <= issued' /\ access'.id <= issued'
    BY <1>1, <2>1, <2>2 DEF Identities
  <2>5. ASSUME NEW q \in Prompt
        PROVE  /\ (q \in revoked') => prompt'[q].step # "new"
               /\ (prompt'[q].step # "new") => prompt'[q].under \in 1..issued'
               /\ (/\ prompt'[q].step # "new" /\ prompt'[q].kind = "capability"
                   /\ prompt'[q].under = access'.id)
                    => (prompt'[q].project = access'.project /\ q \notin revoked')
               /\ (/\ prompt'[q].step # "new" /\ prompt'[q].kind = "command"
                   /\ prompt'[q].under = commands'.id)
                    => (prompt'[q].project = commands'.project /\ q \notin revoked')
    <3>1. CASE q = p
      BY <1>1, <1>2, <2>1, <2>4, <3>1
    <3>2. CASE q # p
      BY <1>1, <1>2, <2>3, <3>2 DEF Identities
    <3> QED BY <3>1, <3>2
  <2>6. commands'.for \in {<<commands'.project, e>> : e \in SUBSET Prompt}
    BY <1>3, <2>1
  <2> QED BY <2>4, <2>5, <2>6 DEF Identities
<1> QED BY <1>4, <1>5 DEF AskCommand

\* A revocation drops the identities of what it revokes.
LEMMA RevokeIdentity ==
  ASSUME ConsentTypeOK, Identities,
         \/ Revoke \/ SetDirectories \/ MoveSession \/ MoveRevokes
         \/ \E q \in Project : RevokeProject(q)
  PROVE  Identities'
<1>1. /\ UNCHANGED <<prompt, issued>> /\ issued \in Nat
      /\ access' \in {access, NoAccess} /\ commands' \in {commands, NoCommands}
      /\ revoked' \subseteq revoked \cup Asked
  BY RevokeEffect, TypeParts
<1>2. access'.id <= issued' /\ commands'.id <= issued'
  BY <1>1, NothingTyped DEF Identities
<1>3. (commands'.id # 0) => commands'.for \in {<<commands'.project, e>> : e \in SUBSET Prompt}
  BY <1>1, NothingTyped DEF Identities
<1>4. \A p \in Prompt : /\ (p \in revoked') => prompt'[p].step # "new"
                        /\ (prompt'[p].step # "new") => prompt'[p].under \in 1..issued'
  BY <1>1 DEF Identities, Asked
<1>5. \A p \in Prompt : (prompt[p].step # "new") => prompt[p].under # 0
  BY <1>1 DEF Identities
<1>6. ASSUME NEW p \in Prompt
      PROVE  /\ (/\ prompt'[p].step # "new" /\ prompt'[p].kind = "capability"
                 /\ prompt'[p].under = access'.id)
                  => (prompt'[p].project = access'.project /\ p \notin revoked')
             /\ (/\ prompt'[p].step # "new" /\ prompt'[p].kind = "command"
                 /\ prompt'[p].under = commands'.id)
                  => (prompt'[p].project = commands'.project /\ p \notin revoked')
  <2>1. CASE access' = NoAccess /\ commands' = NoCommands
    BY <1>1, <1>5, <2>1, NothingTyped
  <2>2. CASE UNCHANGED <<access, commands, revoked>>
    BY <1>1, <2>2 DEF Identities
  <2>3. ASSUME NEW q \in Project, RevokeProject(q)
        PROVE  /\ (/\ prompt'[p].step # "new" /\ prompt'[p].kind = "capability"
                   /\ prompt'[p].under = access'.id)
                    => (prompt'[p].project = access'.project /\ p \notin revoked')
               /\ (/\ prompt'[p].step # "new" /\ prompt'[p].kind = "command"
                   /\ prompt'[p].under = commands'.id)
                    => (prompt'[p].project = commands'.project /\ p \notin revoked')
    <3>1. p \in revoked' => (p \in revoked \/ prompt[p].project = q)
      BY <2>3 DEF RevokeProject, Revokes
    <3>2. access' = (IF access.project = q THEN NoAccess ELSE access)
          /\ commands' = (IF commands.project = q THEN NoCommands ELSE commands)
      BY <2>3 DEF RevokeProject
    <3>3. (/\ prompt'[p].step # "new" /\ prompt'[p].kind = "capability"
           /\ prompt'[p].under = access'.id)
            => (prompt'[p].project = access'.project /\ p \notin revoked')
      <4>1. CASE access.project = q
        BY <1>1, <1>5, <3>2, <4>1, NothingTyped
      <4>2. CASE access.project # q
        BY <1>1, <3>1, <3>2, <4>2 DEF Identities
      <4> QED BY <4>1, <4>2
    <3>4. (/\ prompt'[p].step # "new" /\ prompt'[p].kind = "command"
           /\ prompt'[p].under = commands'.id)
            => (prompt'[p].project = commands'.project /\ p \notin revoked')
      <4>1. CASE commands.project = q
        BY <1>1, <1>5, <3>2, <4>1, NothingTyped
      <4>2. CASE commands.project # q
        BY <1>1, <3>1, <3>2, <4>2 DEF Identities
      <4> QED BY <4>1, <4>2
    <3> QED BY <3>3, <3>4
  <2> QED BY <2>1, <2>2, <2>3 DEF Revoke, SetDirectories, MoveSession, MoveRevokes, DropPermissions
<1> QED BY <1>2, <1>3, <1>4, <1>6 DEF Identities

LEMMA IdentityStep ==
  ASSUME ConsentTypeOK, Identities, ConsentNext
  PROVE  Identities'
<1>1. prompt \in [Prompt -> Ask] /\ commands \in Grants
  BY TypeParts
<1>2. CASE UNCHANGED <<prompt, access, commands, issued, revoked>>
  BY <1>2 DEF Identities
<1>3. CASE BeginRound \/ CancelRound \/ EndRound
  BY <1>2, <1>3 DEF BeginRound, CancelRound, EndRound
<1>4. ASSUME NEW p \in Prompt, List(p) \/ Receive(p) \/ Abandon(p) \/ CheckCommand(p) \/ RunCommand(p)
      PROVE  Identities'
  <2>1. PICK step \in {"asked", "waiting", "cleared", "ready", "ran", "over"} :
          prompt' = [prompt EXCEPT ![p].step = step] /\ prompt[p].step # "new"
    BY <1>4 DEF List, Receive, Abandon, CheckCommand, RunCommand
  <2>2. /\ prompt'[p].step # "new" /\ prompt[p].step # "new" /\ prompt'[p].kind = prompt[p].kind
        /\ prompt'[p].under = prompt[p].under /\ prompt'[p].project = prompt[p].project
        /\ \A q \in Prompt \ {p} : prompt'[q] = prompt[q]
    BY <1>1, <2>1, StepSet
  <2>3. \A q \in Prompt : /\ (prompt'[q].step # "new") => (prompt[q].step # "new")
                          /\ (prompt[q].step # "new") => (prompt'[q].step # "new")
                          /\ prompt'[q].kind = prompt[q].kind
                          /\ prompt'[q].under = prompt[q].under
                          /\ prompt'[q].project = prompt[q].project
    BY <2>2
  <2>4. UNCHANGED <<access, issued, revoked, commands>>
    BY <1>4 DEF List, Receive, Abandon, CheckCommand, RunCommand
  <2> QED BY <2>3, <2>4, IdentityFrame
<1>5. ASSUME NEW p \in Prompt, CompleteCommand(p) PROVE Identities'
  <2>1. UNCHANGED <<access, issued, revoked, prompt>>
    BY <1>5 DEF CompleteCommand
  <2>2. /\ commands'.id = commands.id /\ commands'.for = commands.for
        /\ commands'.project = commands.project
    BY <1>1, <1>5 DEF CompleteCommand, Grants
  <2> QED BY <2>1, <2>2, IdentityFrame
<1>6. ASSUME NEW p \in Prompt,
             ClaimPrompt(p) \/ ReleaseClaim(p) \/ SendDecision(p) \/ CompleteCapability(p)
             \/ CompleteDenial(p)
      PROVE  UNCHANGED <<prompt, access, commands, issued, revoked>>
  BY <1>6 DEF ClaimPrompt, ReleaseClaim, SendDecision, CompleteCapability, CompleteDenial
<1> QED BY <1>2, <1>3, <1>4, <1>5, <1>6, AskCapabilityIdentity, AskCommandIdentity, RevokeIdentity
        DEF ConsentNext

-----------------------------------------------------------------------------
\* The history of the commands that wait for their keys.
LEMMA LateStep ==
  ASSUME ConsentInv, ConsentNext
  PROVE  LateKnown'
<1>1. prompt \in [Prompt -> Ask] /\ revoked \subseteq Prompt /\ LateKnown
  BY TypeParts DEF ConsentInv
<1>2. CASE UNCHANGED <<revoked, late>>
           /\ \A p \in Prompt : (prompt'[p].step = "ready") => prompt[p].step = "ready"
  BY <1>1, <1>2 DEF LateKnown
<1>3. ASSUME NEW p \in Prompt, CheckCommand(p) PROVE LateKnown'
  <2>1. PICK step \in {"ready", "over"} :
          prompt' = [prompt EXCEPT ![p].step = step] /\ (step = "ready" => StillCurrent(p))
    BY <1>3 DEF CheckCommand
  <2>2. prompt'[p].step = step /\ \A q \in Prompt \ {p} : prompt'[q] = prompt[q]
    BY <1>1, <2>1, StepSet
  <2>3. StillCurrent(p) => p \notin revoked
    BY <1>3 DEF CheckCommand, ConsentInv, OpenInRound, StillCurrent, Identities
  <2>4. UNCHANGED <<revoked, late>>
    BY <1>3 DEF CheckCommand
  <2> QED BY <1>1, <2>1, <2>2, <2>3, <2>4 DEF LateKnown
<1>4. ASSUME NEW p \in Prompt, List(p) \/ Receive(p) \/ Abandon(p) \/ RunCommand(p)
      PROVE  LateKnown'
  <2>1. PICK step \in {"waiting", "cleared", "ran", "over"} : prompt' = [prompt EXCEPT ![p].step = step]
    BY <1>4 DEF List, Receive, Abandon, RunCommand
  <2>2. prompt'[p].step = step /\ \A q \in Prompt \ {p} : prompt'[q] = prompt[q]
    BY <1>1, <2>1, StepSet
  <2>3. UNCHANGED <<revoked, late>>
    BY <1>4 DEF List, Receive, Abandon, RunCommand
  <2> QED BY <1>2, <2>2, <2>3
<1>5. ASSUME NEW p \in Prompt, AskCapability(p) \/ AskCommand(p) PROVE LateKnown'
  <2>1. prompt'[p].step \in {"asked", "cleared"} /\ \A q \in Prompt \ {p} : prompt'[q] = prompt[q]
    BY <1>1, <1>5 DEF AskCapability, AskCommand
  <2>2. UNCHANGED <<revoked, late>>
    BY <1>5 DEF AskCapability, AskCommand
  <2> QED BY <1>2, <2>1, <2>2
<1>6. ASSUME NEW p \in Prompt,
             \/ ClaimPrompt(p) \/ ReleaseClaim(p) \/ SendDecision(p)
             \/ CompleteCapability(p) \/ CompleteCommand(p) \/ CompleteDenial(p)
      PROVE  UNCHANGED <<prompt, revoked, late>>
  BY <1>6 DEF ClaimPrompt, ReleaseClaim, SendDecision, CompleteCapability, CompleteCommand,
              CompleteDenial
<1>7. CASE \/ Revoke \/ SetDirectories \/ MoveSession \/ MoveRevokes
           \/ \E q \in Project : RevokeProject(q)
  <2>1. prompt' = prompt
    BY <1>7, RevokeEffect DEF ConsentInv
  <2>2. CASE UNCHANGED <<revoked, late>>
    BY <1>2, <2>1, <2>2
  <2>3. ASSUME NEW ps \in SUBSET Prompt, Revokes(ps) PROVE LateKnown'
    BY <1>1, <2>1, <2>3 DEF LateKnown, Revokes
  <2>4. Asked \in SUBSET Prompt
    BY DEF Asked
  <2>5. \A q : {p \in Asked : prompt[p].project = q} \in SUBSET Prompt
    BY DEF Asked
  <2> QED BY <1>7, <2>2, <2>3, <2>4, <2>5
          DEF Revoke, SetDirectories, MoveSession, MoveRevokes, RevokeProject, DropPermissions
<1>8. CASE BeginRound \/ CancelRound \/ EndRound
  BY <1>2, <1>8 DEF BeginRound, CancelRound, EndRound
<1> QED BY <1>2, <1>3, <1>4, <1>5, <1>6, <1>7, <1>8 DEF ConsentNext

-----------------------------------------------------------------------------
LEMMA ConsentInitInv == ConsentInit => ConsentInv
<1> SUFFICES ASSUME ConsentInit PROVE ConsentInv
  OBVIOUS
<1>1. ConsentTypeOK
  BY ConsentInitType
<1>2. \A p \in Prompt : prompt[p].step = "new" /\ claim[p] = "none" /\ sent[p] = "none"
  BY DEF ConsentInit
<1>3. OpenInRound
  BY <1>2 DEF OpenInRound, Open
<1>4. Resolution
  BY <1>2 DEF ConsentInit, Resolution, Decision
<1>5. LeaseEndsWithTurn
  BY DEF ConsentInit, LeaseEndsWithTurn
<1>6. Identities
  BY <1>2, NothingTyped DEF ConsentInit, Identities
<1>7. LateKnown
  BY DEF ConsentInit, LateKnown
<1> QED BY <1>1, <1>3, <1>4, <1>5, <1>6, <1>7 DEF ConsentInv

LEMMA ConsentStepInv ==
  ASSUME ConsentInv, [ConsentNext]_consentVars
  PROVE  ConsentInv'
<1>1. CASE UNCHANGED consentVars
  BY <1>1 DEF consentVars, ConsentInv, ConsentTypeOK, OpenInRound, Resolution, LeaseEndsWithTurn,
              Identities, LateKnown
<1>2. CASE ConsentNext
  <2>1. ConsentTypeOK'
    BY <1>2, TurnTypes, ClientTypes, RevokeTypes DEF ConsentInv, ConsentNext
  <2> QED BY <1>2, <2>1, OpenStep, ResolutionStep, LeaseStep, IdentityStep, LateStep DEF ConsentInv
<1> QED BY <1>1, <1>2

LEMMA ConsentInvariant == ConsentSpec => []ConsentInv
<1>1. ConsentInit => ConsentInv
  BY ConsentInitInv
<1>2. ConsentInv /\ [ConsentNext]_consentVars => ConsentInv'
  BY ConsentStepInv
<1> QED BY <1>1, <1>2, PTL DEF ConsentSpec

\* clearRunningLocked and completePendingApproval: what was lent to a turn belongs to
\* the turn that runs and was asked by it.
THEOREM LeasesEndWithTheirTurn == ConsentSpec => []LeaseEndsWithTurn
<1>1. ConsentInv => LeaseEndsWithTurn
  BY DEF ConsentInv
<1> QED BY <1>1, ConsentInvariant, PTL

\* A tool call that waits can be answered, and a prompt whose tool call and client have
\* left is gone (abandonPendingApproval, releasePendingApprovalClaim).
THEOREM PromptsAreSettled == ConsentSpec => []PromptsSettled
<1>1. ConsentInv => PromptsSettled
  <2> SUFFICES ASSUME ConsentInv, NEW p \in Prompt
               PROVE  /\ (prompt[p].step = "waiting") =>
                            (p \in listed \/ claim[p] # "none" \/ sent[p] # "none")
                      /\ (p \in listed) => (prompt[p].step = "waiting" \/ claim[p] # "none")
    BY DEF PromptsSettled
  <2>1. Resolved(p)
    BY ResolutionParts DEF ConsentInv
  <2> QED BY <2>1 DEF Resolved, Decision
<1> QED BY <1>1, ConsentInvariant, PTL

\* RevokeCommandApprovals, RevokeProjectCommandApprovals, SetSessionDirectories: no
\* decision that is still to come brings back what was revoked.
THEOREM RevokedPromptsGrantNothing == ConsentSpec => RevokedPromptGrantsNothing
<1>1. ConsentInv /\ [ConsentNext]_consentVars =>
        [(Granted' \ Granted) \cap revoked = {}]_consentVars
  <2> SUFFICES ASSUME ConsentInv, ConsentNext
               PROVE  (Granted' \ Granted) \cap revoked = {}
    BY DEF consentVars, Granted
  <2>1. commands \in Grants /\ lent \in [project : Project, dirs : SUBSET Prompt]
    BY TypeParts DEF ConsentInv
  <2>2. \A p \in Prompt : (claim[p] \in Decision) => prompt[p].step # "new"
    BY DEF ConsentInv, Resolution
  <2>3. CASE saved' \subseteq saved /\ lent'.dirs \subseteq lent.dirs
             /\ commands'.leases \subseteq commands.leases
    BY <2>3 DEF Granted
  <2>4. ASSUME NEW p \in Prompt, CompleteCapability(p)
        PROVE  (Granted' \ Granted) \cap revoked = {}
    <3>1. CASE MayLend(p) /\ Lend(p)
      <4>1. p \notin revoked
        BY <2>2, <2>4, <3>1 DEF ConsentInv, Identities, MayLend, CompleteCapability, Decision
      <4>2. saved' \subseteq saved \cup {p} /\ lent'.dirs \subseteq lent.dirs \cup {p}
            /\ commands' = commands
        BY <2>1, <2>4, <3>1 DEF Lend, CompleteCapability
      <4> QED BY <4>1, <4>2 DEF Granted
    <3>2. CASE UNCHANGED <<saved, lent>>
      BY <2>3, <2>4, <3>2 DEF CompleteCapability
    <3> QED BY <2>4, <3>1, <3>2 DEF CompleteCapability
  <2>5. ASSUME NEW p \in Prompt, CompleteCommand(p)
        PROVE  (Granted' \ Granted) \cap revoked = {}
    <3>1. UNCHANGED <<saved, lent>>
      BY <2>5 DEF CompleteCommand
    <3>2. CASE commands' = commands
      BY <2>3, <3>1, <3>2
    <3>3. CASE commands.id = prompt[p].under /\ commands' = [commands EXCEPT !.leases = @ \cup {p}]
      <4>1. p \notin revoked
        BY <2>2, <2>5, <3>3 DEF ConsentInv, Identities, CompleteCommand, Decision
      <4>2. commands'.leases = commands.leases \cup {p}
        BY <2>1, <3>3 DEF Grants
      <4> QED BY <3>1, <4>1, <4>2 DEF Granted
    <3> QED BY <2>5, <3>2, <3>3 DEF CompleteCommand
  <2>6. CASE EndRound
    BY <2>1, <2>3, <2>6 DEF EndRound
  <2>7. ASSUME NEW p \in Prompt, AskCommand(p)
        PROVE  (Granted' \ Granted) \cap revoked = {}
    <3>1. UNCHANGED <<saved, lent>> /\ commands'.leases \subseteq commands.leases
      BY <2>7 DEF AskCommand
    <3> QED BY <2>3, <3>1
  <2>8. CASE \/ Revoke \/ SetDirectories \/ MoveSession \/ MoveRevokes
             \/ \E q \in Project : RevokeProject(q)
    <3>1. /\ commands' \in {commands, NoCommands} /\ lent' \in {lent, [lent EXCEPT !.dirs = {}]}
          /\ saved' \subseteq saved
      BY <2>8, RevokeEffect DEF ConsentInv
    <3>2. lent'.dirs \subseteq lent.dirs /\ commands'.leases \subseteq commands.leases
      BY <2>1, <3>1, NothingTyped
    <3> QED BY <2>3, <3>1, <3>2
  <2>9. CASE BeginRound \/ CancelRound
    BY <2>3, <2>9 DEF BeginRound, CancelRound
  <2>10. ASSUME NEW p \in Prompt,
                \/ AskCapability(p) \/ List(p) \/ Receive(p) \/ Abandon(p)
                \/ CheckCommand(p) \/ RunCommand(p)
                \/ ClaimPrompt(p) \/ ReleaseClaim(p) \/ SendDecision(p) \/ CompleteDenial(p)
         PROVE  (Granted' \ Granted) \cap revoked = {}
    <3>1. UNCHANGED <<saved, lent, commands>>
      BY <2>10 DEF AskCapability, List, Receive, Abandon, CheckCommand, RunCommand,
                   ClaimPrompt, ReleaseClaim, SendDecision, CompleteDenial
    <3> QED BY <2>3, <3>1
  <2> QED BY <2>4, <2>5, <2>6, <2>7, <2>8, <2>9, <2>10 DEF ConsentNext
<1> QED BY <1>1, ConsentInvariant, PTL DEF ConsentSpec, RevokedPromptGrantsNothing

\* commandApprovalStillCurrent: a command whose permissions were revoked is not
\* dispatched, unless it was already waiting for the keys of its directories.
THEOREM RevokedCommandsStay == ConsentSpec => RevokedCommandStays
<1>1. ConsentInv /\ [ConsentNext]_consentVars =>
        [\A p \in Prompt :
           (prompt'[p].step = "ran" /\ prompt[p].step # "ran")
             => (p \notin revoked \/ p \in late)]_consentVars
  <2> SUFFICES ASSUME ConsentInv, ConsentNext, NEW p \in Prompt,
                      prompt'[p].step = "ran", prompt[p].step # "ran"
               PROVE  p \notin revoked \/ p \in late
    BY DEF consentVars
  <2>1. prompt \in [Prompt -> Ask]
    BY TypeParts DEF ConsentInv
  <2>2. CASE RunCommand(p)
    BY <2>2 DEF RunCommand, ConsentInv, LateKnown
  <2>3. CASE prompt' = prompt
    BY <2>3
  <2>4. ASSUME NEW q \in Prompt, AskCapability(q) \/ AskCommand(q) PROVE FALSE
    <3>1. prompt'[q].step \in {"asked", "cleared"} /\ \A r \in Prompt \ {q} : prompt'[r] = prompt[r]
      BY <2>1, <2>4 DEF AskCapability, AskCommand
    <3> QED BY <3>1
  <2>5. ASSUME NEW q \in Prompt, List(q) \/ Receive(q) \/ Abandon(q) \/ CheckCommand(q) PROVE FALSE
    <3>1. PICK step \in {"waiting", "cleared", "ready", "over"} :
            prompt' = [prompt EXCEPT ![q].step = step]
      BY <2>5 DEF List, Receive, Abandon, CheckCommand
    <3>2. prompt'[q].step # "ran" /\ \A r \in Prompt \ {q} : prompt'[r] = prompt[r]
      BY <2>1, <3>1, StepSet
    <3> QED BY <3>2
  <2>6. ASSUME NEW q \in Prompt, RunCommand(q), q # p PROVE FALSE
    BY <2>1, <2>6 DEF RunCommand
  <2>7. ASSUME NEW q \in Prompt,
               \/ ClaimPrompt(q) \/ ReleaseClaim(q) \/ SendDecision(q)
               \/ CompleteCapability(q) \/ CompleteCommand(q) \/ CompleteDenial(q)
        PROVE  prompt' = prompt
    BY <2>7 DEF ClaimPrompt, ReleaseClaim, SendDecision, CompleteCapability, CompleteCommand,
                CompleteDenial
  <2>8. CASE \/ Revoke \/ SetDirectories \/ MoveSession \/ MoveRevokes
             \/ \E q \in Project : RevokeProject(q)
    BY <2>3, <2>8, RevokeEffect DEF ConsentInv
  <2>9. CASE BeginRound \/ CancelRound \/ EndRound
    BY <2>3, <2>9 DEF BeginRound, CancelRound, EndRound
  <2> QED BY <2>2, <2>3, <2>4, <2>5, <2>6, <2>7, <2>8, <2>9 DEF ConsentNext
<1> QED BY <1>1, ConsentInvariant, PTL DEF ConsentSpec, RevokedCommandStays
=============================================================================
