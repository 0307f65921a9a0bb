----------------------------- MODULE MCSessions -----------------------------
(***************************************************************************)
(* Components around a session that share no state with each other, each   *)
(* on a small instance of its own, in one run of TLC: child sessions,      *)
(* questions to the user, consent, the life of a conversation, and the     *)
(* page snapshots of its event stream.                                     *)
(*                                                                         *)
(* `part' names the component of a behaviour.  It is chosen in the first   *)
(* state; the others stay in theirs.  The states are therefore the sum of  *)
(* what the components have, not the product.                              *)
(***************************************************************************)
EXTENDS Collaboration, UserInput, Approvals, SessionLifecycle, EventStream, TLC

VARIABLE part

SessionsInit ==
  /\ part \in {"collaboration", "question", "consent", "lifecycle", "snapshots"}
  /\ CollabInit /\ QuestionInit /\ ConsentInit /\ LifeInit /\ Init
  /\ part # "question" => question = "waiting"
  /\ part # "lifecycle" => uses = {}

SessionsNext ==
  \/ /\ part = "collaboration" /\ CollabNext
     /\ UNCHANGED <<part, questionVars, consentVars, lifeVars, vars>>
  \/ /\ part = "question" /\ QuestionNext
     /\ UNCHANGED <<part, collabVars, consentVars, lifeVars, vars>>
  \/ /\ part = "consent" /\ ConsentNext
     /\ UNCHANGED <<part, collabVars, questionVars, lifeVars, vars>>
  \/ /\ part = "lifecycle" /\ LifeNext
     /\ UNCHANGED <<part, collabVars, questionVars, consentVars, vars>>
  \/ /\ part = "snapshots" /\ Next
     /\ UNCHANGED <<part, collabVars, questionVars, consentVars, lifeVars>>

SessionsSpec ==
  SessionsInit /\ [][SessionsNext]_<<part, collabVars, questionVars, consentVars, lifeVars, vars>>

\* The children differ only by the work they are given.
ChildSymmetry == Permutations(Child)
=============================================================================
