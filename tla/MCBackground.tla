---------------------------- MODULE MCBackground ----------------------------
(***************************************************************************)
(* What goes on behind the turns of a session: the scheduler, and the      *)
(* compaction and cooling of contexts.  They share no state; each has a    *)
(* small instance of its own, in one run of TLC.                           *)
(*                                                                         *)
(* `part' names the component of a behaviour.  It is chosen in the first   *)
(* state; the others stay in theirs.  The states are therefore the sum of  *)
(* what the components have, not the product.  Fairness names its part and *)
(* asks nothing of the behaviours of the other.                            *)
(***************************************************************************)
EXTENDS ScheduledTasks, Compaction, TLC

VARIABLE part

BackgroundInit == part \in {"schedule", "clock", "context"} /\ SchedInit /\ CtxInit

\* A schedule meets one event of any kind, but not after its last run; the clock goes
\* forward.
ScheduleSteps ==
  /\ SchedNext
  /\ events' = events \/ (events = 0 /\ Len(run) < MaxRuns)
  /\ "clock" \notin upset'

\* The clock is set back, and a repeating task is paused and resumed.
ClockSteps ==
  \/ Tick \/ Submission \/ Advance \/ SetBack
  \/ \E t \in Task : Create(t, Repeating) \/ Pause(t) \/ Resume(t)
  \/ \E r \in RunID : TurnStarts(r) \/ TurnEnds(r)

BackgroundNext ==
  \/ part = "schedule" /\ ScheduleSteps /\ UNCHANGED <<part, ctxVars>>
  \/ part = "clock" /\ ClockSteps /\ UNCHANGED <<part, ctxVars>>
  \/ part = "context" /\ CtxNext /\ UNCHANGED <<part, schedVars>>

BackgroundSpec ==
  /\ BackgroundInit /\ [][BackgroundNext]_<<part, schedVars, ctxVars>>
  /\ WF_schedVars(part # "context" /\ Tick) /\ WF_schedVars(part # "context" /\ Submission)
=============================================================================
