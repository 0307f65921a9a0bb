----------------------------- MODULE ToolLocks -----------------------------
(***************************************************************************)
(* The locks that tool calls of all sessions take on directories and on    *)
(* the temporary workspaces (internal/engine/subtask_resources.go): each   *)
(* call takes the keys it needs one by one in sorted order, and a command  *)
(* that leaves a background process behind keeps them until that process   *)
(* is no longer listed as running.  It is listed until it has exited, but  *)
(* for one case: the archiving or deletion of its session takes it out of  *)
(* the table first and stops it then (internal/tool/background_process.go). *)
(*                                                                         *)
(* The calls of one session follow each other; those of different sessions *)
(* run side by side.  A lock is a channel that holds one token.            *)
(***************************************************************************)
EXTENDS Naturals, FiniteSets

CONSTANTS
  LastLane,    \* sessions are 1..LastLane: one lane of tool calls each
  LastDir      \* project directories are 1..LastDir, numbered in sorted order

ASSUME LockAssumption == LastLane \in Nat /\ LastDir \in Nat

VARIABLES
  tool,    \* the tool call of each session: where it is, what it needs and holds
  process, \* the background process of each session that is listed as running, what it
           \* works on, and the keys kept for it
  orphans, \* sessions with a process that is not listed any more and has not exited
  token    \* keys whose token is in its channel

lockVars == <<tool, process, orphans, token>>

Lane         == 1..LastLane
Dir          == 1..LastDir
Workspace(s) == LastDir + s   \* "session-artifacts:..." sorts behind "directory:..."
Key          == 1..(LastDir + LastLane)

NoCall == [step |-> "idle", kind |-> "edit", needs |-> {}, holds |-> {}, cancelled |-> FALSE]

LockTypeOK ==
  /\ tool \in [Lane -> [step : {"idle", "acquire", "run"}, kind : {"edit", "command", "clear"},
                           needs : SUBSET Key, holds : SUBSET Key, cancelled : BOOLEAN]]
  /\ orphans \subseteq Lane
  /\ process \in [Lane -> [listed : BOOLEAN, works : SUBSET Key, keeps : SUBSET Key]]
  /\ token \subseteq Key

NoCallOpen(s) == tool[s].step = "idle"

-----------------------------------------------------------------------------
\* The keys of a call: a mutation locks the directories of its project, a command
\* the workspace of the session as well, a clear of the workspace only that.  The
\* clear is rejected while a process of the session runs: the quota counts those too
\* that are not listed any more.
Lives(s) == process[s].listed \/ s \in orphans

Need(s) ==
  /\ NoCallOpen(s)
  /\ \E kind \in {"edit", "command", "clear"}, dirs \in SUBSET Dir :
       /\ (kind = "clear") => (dirs = {} /\ ~Lives(s))
       /\ tool' = [tool EXCEPT ![s] =
            [step |-> "acquire", kind |-> kind,
             needs |-> dirs \cup (IF kind = "edit" THEN {} ELSE {Workspace(s)}),
             holds |-> {}, cancelled |-> FALSE]]
  /\ UNCHANGED <<process, orphans, token>>

\* The key the call waits for: the first in sorted order.
NextKeys(needs) == needs
NextKey(needs)  == {k \in needs : \A other \in needs : k <= other}

Acquire(s) ==
  /\ tool[s].step = "acquire"
  /\ \E k \in NextKey(tool[s].needs) :
       /\ k \in token
       /\ token' = token \ {k}
       /\ tool' = [tool EXCEPT ![s].needs = @ \ {k}, ![s].holds = @ \cup {k}]
  /\ UNCHANGED <<process, orphans>>

\* All keys are there and the turn is not cancelled: the tool runs.
Start(s) ==
  /\ tool[s].step = "acquire" /\ tool[s].needs = {} /\ ~tool[s].cancelled
  /\ tool' = [tool EXCEPT ![s].step = "run"]
  /\ UNCHANGED <<process, orphans, token>>

Cancel(s) ==
  /\ ~NoCallOpen(s) /\ ~tool[s].cancelled
  /\ tool' = [tool EXCEPT ![s].cancelled = TRUE]
  /\ UNCHANGED <<process, orphans, token>>

\* releaseAll: the wait is cancelled, and what the call had got so far goes back.
Forgotten(s) == token
GivenBack(s) == token \cup tool[s].holds

GiveUp(s) ==
  /\ tool[s].step = "acquire" /\ tool[s].cancelled
  /\ token' = GivenBack(s)
  /\ tool' = [tool EXCEPT ![s] = NoCall]
  /\ UNCHANGED <<process, orphans>>

\* releaseToolResources: with a process left running the keys stay locked.  When the
\* turn is cancelled that process is stopped, which takes effect at its exit.
KeptAfterStart(s) == {}
KeptFor(s)        == tool[s].holds

Finish(s) ==
  /\ tool[s].step = "run"
  /\ \/ /\ token' = token \cup tool[s].holds
        /\ UNCHANGED process
     \/ /\ tool[s].kind = "command"
        /\ process' = [process EXCEPT ![s] =
                         [listed |-> TRUE, works |-> tool[s].holds, keeps |-> KeptFor(s)]]
        /\ token' = token \cup (tool[s].holds \ KeptFor(s))
  /\ tool' = [tool EXCEPT ![s] = NoCall]
  /\ UNCHANGED orphans

\* The process exits by itself, or is stopped by the agent, a person or a limit.
Exit(s) ==
  /\ process[s].listed
  /\ process' = [process EXCEPT ![s].listed = FALSE, ![s].works = {}]
  /\ UNCHANGED <<tool, orphans, token>>

\* closeMatching: the session is archived or deleted and its turn is over; the process
\* leaves the table before it is told to stop.
CloseProcesses(s) ==
  /\ NoCallOpen(s) /\ process[s].listed
  /\ process' = [process EXCEPT ![s].listed = FALSE, ![s].works = {}]
  /\ orphans' = orphans \cup {s}
  /\ UNCHANGED <<tool, token>>

\* The stop takes effect for the last of them.  It may fail, and its error is ignored.
OrphansExit(s) ==
  /\ s \in orphans
  /\ orphans' = orphans \ {s}
  /\ UNCHANGED <<tool, process, token>>

\* The poll that does not find it running releases the keys.
Release(s) ==
  /\ ~process[s].listed /\ process[s].keeps # {}
  /\ token' = token \cup process[s].keeps
  /\ process' = [process EXCEPT ![s].keeps = {}]
  /\ UNCHANGED <<tool, orphans>>

-----------------------------------------------------------------------------
LockInit ==
  /\ tool = [s \in Lane |-> NoCall]
  /\ process = [s \in Lane |-> [listed |-> FALSE, works |-> {}, keeps |-> {}]]
  /\ orphans = {}
  /\ token = Key

LockNext ==
  \E s \in Lane : \/ Need(s) \/ Acquire(s) \/ Start(s) \/ Cancel(s) \/ GiveUp(s)
                  \/ Finish(s) \/ Exit(s) \/ CloseProcesses(s) \/ OrphansExit(s)
                  \/ Release(s)

LockSpec == LockInit /\ [][LockNext]_lockVars

\* A channel serves its receivers in order, so a call that waits is not passed over
\* for ever.  Tools return and the poll is a ticker.  Nobody has to cancel anything,
\* and a process may run for ever.
LockFairness ==
  \A s \in Lane : /\ SF_lockVars(Acquire(s))
                  /\ WF_lockVars(Start(s)) /\ WF_lockVars(GiveUp(s))
                  /\ WF_lockVars(Finish(s)) /\ WF_lockVars(Release(s))

LockFairSpec == LockSpec /\ LockFairness

-----------------------------------------------------------------------------
(* Properties. *)

\* What a session's tool call works on.
Uses(s) == IF tool[s].step = "run" THEN tool[s].holds ELSE {}

\* Calls and background processes that run side by side have nothing in common, and
\* while a process of the session lives its workspace is not cleared.  (Except what an
\* archived or deleted session leaves: its process is no longer listed while it is being
\* stopped, so the keys go back and others may work where it still does.)
WorkApart ==
  \A s, t \in Lane :
    /\ (s # t) => (Uses(s) \cup process[s].works) \cap (Uses(t) \cup process[t].works) = {}
    /\ Uses(s) \cap process[s].works = {}
    /\ (Lives(s) /\ tool[s].step = "run") => tool[s].kind # "clear"

\* No deadlock, and no token lost: a call waits for ever only while some background
\* process runs and is listed for ever.
CallServed ==
  \A s \in Lane :
    []<>(tool[s].step # "acquire") \/ <>[](\E t \in Lane : process[t].listed)
=============================================================================
