----------------------------- MODULE MCServices -----------------------------
(***************************************************************************)
(* Components whose liveness matters and that share no state with each     *)
(* other, each on a small instance of its own, in one run of TLC: the wait *)
(* of a main turn for its children, the tool locks, the event stream, and  *)
(* the janitor of deleted conversations.                                   *)
(*                                                                         *)
(* `part' names the component of a behaviour.  It is chosen in the first   *)
(* state; the others stay in theirs.  The states are therefore the sum of  *)
(* what the components have, not the product.  In the first state of the   *)
(* first three nothing that fairness is about is enabled, and the fairness *)
(* of the janitor names its part, so the fairness of one asks nothing of   *)
(* the behaviours of the others.                                           *)
(***************************************************************************)
EXTENDS Collaboration, ToolLocks, EventStream, SessionLifecycle, TLC

\* Bound: the sessions that are archived or deleted while a process of theirs runs.
ClosedLanes == {1}

VARIABLE part

ServicesInit ==
  /\ part \in {"collaboration", "locks", "stream", "lifecycle"}
  /\ CollabInit /\ LockInit /\ Init /\ LifeInit
  /\ part # "lifecycle" => uses = {}

ServicesNext ==
  \/ part = "collaboration" /\ CollabNext /\ UNCHANGED <<part, lockVars, vars, lifeVars>>
  \/ part = "locks" /\ LockNext /\ orphans' \subseteq ClosedLanes
     /\ UNCHANGED <<part, collabVars, vars, lifeVars>>
  \/ part = "stream" /\ Next /\ UNCHANGED <<part, collabVars, lockVars, lifeVars>>
  \/ part = "lifecycle" /\ LifeNext /\ UNCHANGED <<part, collabVars, lockVars, vars>>

ServicesSpec ==
  /\ ServicesInit /\ [][ServicesNext]_<<part, collabVars, lockVars, vars, lifeVars>>
  /\ CollabFairness /\ LockFairness /\ WF_lifeVars(part = "lifecycle" /\ DaemonProceeds)
  /\ WF_vars(Publication) /\ \A r \in Reader : WF_vars(HandlerStep(r))
=============================================================================
