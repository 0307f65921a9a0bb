-------------------------- MODULE SessionLifecycle --------------------------
(***************************************************************************)
(* Archiving, restoring and deleting conversations with their child        *)
(* sessions, and the attachments on disk: internal/api/server.go,          *)
(* session_lifecycle.go, session_clone.go and attachments.go over the      *)
(* transactions of internal/store/sqlitestore.                             *)
(*                                                                         *)
(* A request closes admission in one transaction, cancels what runs, waits *)
(* for it, and only then releases the resources of the tools or removes    *)
(* the rows and the files.  Requests of one conversation exclude each      *)
(* other by a lock per group; the janitor deletes what has been archived   *)
(* for thirty days under the same lock.  Attachments have a mutex of their *)
(* own, which a clone holds from the copy of the files to the insertion of *)
(* the session they belong to.                                             *)
(*                                                                         *)
(* How a turn runs inside is left to TurnLifecycle and Collaboration: here *)
(* it runs, holds resources, and takes time to notice a cancellation.      *)
(***************************************************************************)
CONSTANTS
  Conversation, \* main conversations, those included that a clone may create
  Sub,          \* child sessions
  Owner,        \* the conversation the child sessions belong to
  Client,       \* requests of clients: each is made once
  Janitor,      \* RunArchiveJanitor
  NoThread,
  Faults        \* bound: crashes, failing calls and disconnected clients are numbered by it

ASSUME LifecycleAssumption ==
  /\ Owner \in Conversation
  /\ Conversation \cap Sub = {}
  /\ Janitor \notin Client
  /\ NoThread \notin Client \cup {Janitor}

VARIABLES
  status,    \* sessions, archived_at: archived counts as expired after thirty days
  turn,      \* Engine.running, and whether the turn has been cancelled
  resources, \* sessions whose tools hold processes, tabs or directories
  files,     \* sessions with a directory of attachments
  uses,      \* sessions whose messages refer to attachments
  lock,      \* sessionLifecycles: who holds the lock of a conversation's group
  blobs,     \* attachmentMu
  work,      \* what each request and the janitor are doing
  doomed,    \* what is left of the list the janitor has read
  settled,   \* history: archived or deleted with success, and not restored since
  faults     \* bound: those that have happened

lifeVars == <<status, turn, resources, files, uses, lock, blobs, work, doomed, settled, faults>>

AnySession == Conversation \cup Sub
Thread  == Client \cup {Janitor}
Idle    == [op |-> "none", session |-> Owner, step |-> "idle", group |-> {}]

Exists(s)   == status[s] \in {"active", "archived", "expired"}
Archived(s) == status[s] \in {"archived", "expired"}
Group(s)    == IF s \in Sub THEN Owner ELSE s
Children(s) == IF s = Owner THEN {c \in Sub : Exists(c)} ELSE {}
Members(s)  == {s} \cup Children(s)

LifeTypeOK ==
  /\ status \in [AnySession -> {"absent", "active", "archived", "expired", "deleted"}]
  /\ turn \in [AnySession -> {"none", "running", "cancelled"}]
  /\ resources \subseteq AnySession
  /\ files \subseteq AnySession
  /\ uses \subseteq AnySession
  /\ lock \in [Conversation -> Thread \cup {NoThread}]
  /\ blobs \in Thread \cup {NoThread}
  /\ work \in [Thread -> [op : {"none", "archive", "restore", "purge", "clone", "attach"},
                          session : AnySession,
                          step : {"idle", "answered", "lock", "close", "reopen", "cancel", "wait", "release",
                                  "remove", "files", "insert", "submit", "list"},
                          group : SUBSET AnySession]]
  /\ doomed \subseteq Conversation
  /\ settled \subseteq AnySession
  /\ faults \subseteq Faults

\* A mishap may happen as long as there are numbers for one.
Fault == \E m \in Faults \ faults : faults' = faults \cup {m}

At(t, step) == work[t].step = step
Goto(t, step) == work' = [work EXCEPT ![t].step = step]
Rest(t) == [Idle EXCEPT !.step = IF t = Janitor THEN "list" ELSE "answered"]
Done(t) == work' = [work EXCEPT ![t] = Rest(t)]
Unlock(t) == lock' = [g \in Conversation |-> IF lock[g] = t THEN NoThread ELSE lock[g]]

-----------------------------------------------------------------------------
(* Turns and their tools *)

\* BeginTurn, PromoteNextQueuedInput: an archived session starts nothing.
MayBegin(s) == status[s] = "active"

BeginTurn(s) ==
  /\ MayBegin(s)
  /\ turn[s] = "none"
  /\ turn' = [turn EXCEPT ![s] = "running"]
  /\ UNCHANGED <<status, resources, files, uses, lock, blobs, work, doomed, settled, faults>>

\* A tool call that has not noticed the cancellation goes on.
ToolWorks(s) ==
  /\ turn[s] # "none"
  /\ resources' = resources \cup {s}
  /\ UNCHANGED <<status, turn, files, uses, lock, blobs, work, doomed, settled, faults>>

FinishTurn(s) ==
  /\ turn[s] # "none"
  /\ turn' = [turn EXCEPT ![s] = "none"]
  /\ UNCHANGED <<status, resources, files, uses, lock, blobs, work, doomed, settled, faults>>

\* DispatchChild: a turn of the conversation creates a child session.
DispatchChild(c) ==
  /\ status[c] = "absent"
  /\ status[Owner] = "active"
  /\ turn[Owner] = "running"
  /\ status' = [status EXCEPT ![c] = "active"]
  /\ UNCHANGED <<turn, resources, files, uses, lock, blobs, work, doomed, settled, faults>>

\* archiveRetention has passed.
Expire(s) ==
  /\ status[s] = "archived"
  /\ status' = [status EXCEPT ![s] = "expired"]
  /\ UNCHANGED <<turn, resources, files, uses, lock, blobs, work, doomed, settled, faults>>

-----------------------------------------------------------------------------
(* The lock of a group and the steps under it *)

\* The first look at the session (ParentSessionID) is before the lock.
Request(t, op, s) ==
  /\ work[t] = Idle
  /\ Exists(s)
  /\ work' = [work EXCEPT ![t] = [op |-> op, session |-> s, step |-> "lock", group |-> {}]]
  /\ UNCHANGED <<status, turn, resources, files, uses, lock, blobs, doomed, settled, faults>>

FirstStep(op) == IF op = "restore" THEN "reopen" ELSE "close"

GroupFree(t) == lock[Group(work[t].session)] = NoThread

LockGroup(t) ==
  /\ At(t, "lock")
  /\ GroupFree(t)
  /\ lock' = [lock EXCEPT ![Group(work[t].session)] = t]
  /\ Goto(t, FirstStep(work[t].op))
  /\ UNCHANGED <<status, turn, resources, files, uses, blobs, doomed, settled, faults>>

\* The request fails or its client is gone; what has been committed stays.
Fails(t) ==
  /\ Unlock(t)
  /\ Done(t)
  /\ UNCHANGED <<status, turn, resources, files, uses, blobs, doomed, settled>>

\* A child session is archived and restored with its conversation only.
Refuse(t) ==
  /\ \/ /\ At(t, "close")
        /\ ~Exists(work[t].session) \/ (work[t].op = "archive" /\ work[t].session \in Sub)
     \/ /\ At(t, "reopen")
        /\ ~Archived(work[t].session) \/ work[t].session \in Sub
  /\ Fails(t)
  /\ UNCHANGED faults

Interrupted(t) ==
  /\ work[t].step \in {"lock", "close", "reopen", "cancel", "wait", "remove"}
  /\ Fault
  /\ Fails(t)

\* archiveSessionGroupTx: an archived session keeps its date.
CloseAdmission(t) ==
  LET s == work[t].session IN
  /\ At(t, "close")
  /\ Exists(s)
  /\ work[t].op = "archive" => s \notin Sub
  /\ status' = [m \in AnySession |-> IF m \in Members(s) /\ status[m] = "active" THEN "archived" ELSE status[m]]
  /\ Goto(t, "cancel")
  /\ UNCHANGED <<turn, resources, files, uses, lock, blobs, doomed, settled, faults>>

\* Engine.Cancel for the whole group, and the list of its children.
CancelWork(t) ==
  LET members == Members(work[t].session) IN
  /\ At(t, "cancel")
  /\ turn' = [m \in AnySession |-> IF m \in members /\ turn[m] # "none" THEN "cancelled" ELSE turn[m]]
  /\ work' = [work EXCEPT ![t].step = "wait", ![t].group = members]
  /\ UNCHANGED <<status, resources, files, uses, lock, blobs, doomed, settled, faults>>

\* WaitSession for each member; a slip does not wait for the children.
JoinedMain(t) == turn[work[t].session] = "none"
Joined(t) == \A m \in work[t].group : turn[m] = "none"

Join(t) ==
  /\ At(t, "wait")
  /\ Joined(t)
  /\ Goto(t, IF work[t].op = "archive" THEN "release" ELSE "remove")
  /\ UNCHANGED <<status, turn, resources, files, uses, lock, blobs, doomed, settled, faults>>

\* releaseSessionResources: an archived conversation keeps its directories.
ReleaseGroup(t) ==
  /\ At(t, "release")
  /\ resources' = resources \ work[t].group
  /\ settled' = settled \cup work[t].group
  /\ Unlock(t)
  /\ Done(t)
  /\ UNCHANGED <<status, turn, files, uses, blobs, doomed, faults>>

\* DeleteSession: the rows of the group.
DeleteRows(t) ==
  /\ At(t, "remove")
  /\ status' = [m \in AnySession |-> IF m \in Members(work[t].session) THEN "deleted" ELSE status[m]]
  /\ Goto(t, "files")
  /\ UNCHANGED <<turn, resources, files, uses, lock, blobs, doomed, settled, faults>>

\* The files and the resources.  A directory that cannot be removed is left to
\* the janitor; the others are removed all the same.
RemoveFiles(t) ==
  /\ At(t, "files")
  /\ blobs = NoThread
  /\ resources' = resources \ work[t].group
  /\ settled' = settled \cup work[t].group
  /\ \/ files' = files \ work[t].group /\ UNCHANGED faults
     \/ \E m \in work[t].group \cap files : files' = files \ (work[t].group \ {m}) /\ Fault
  /\ Unlock(t)
  /\ Done(t)
  /\ UNCHANGED <<status, turn, uses, blobs, doomed>>

\* RestoreSession: the whole group; restore does not wait for anything.
Reopen(t) ==
  LET s == work[t].session IN
  /\ At(t, "reopen")
  /\ Archived(s) /\ s \notin Sub
  /\ status' = [m \in AnySession |-> IF m \in Members(s) THEN "active" ELSE status[m]]
  /\ settled' = settled \ Members(s)
  /\ Unlock(t)
  /\ Done(t)
  /\ UNCHANGED <<turn, resources, files, uses, blobs, doomed, faults>>

-----------------------------------------------------------------------------
(* The janitor *)

\* ListExpiredArchivedSessionIDs.
ListExpired ==
  /\ work[Janitor] = Idle
  /\ doomed' = {s \in Conversation : status[s] = "expired"}
  /\ work' = [work EXCEPT ![Janitor].step = "list"]
  /\ UNCHANGED <<status, turn, resources, files, uses, lock, blobs, settled, faults>>

\* purgeSession of the next one; one that is gone is passed over.
PurgeNext ==
  /\ At(Janitor, "list")
  /\ \E s \in doomed :
       /\ doomed' = doomed \ {s}
       /\ work' = IF Exists(s)
                    THEN [work EXCEPT ![Janitor] = [op |-> "purge", session |-> s, step |-> "lock",
                                                    group |-> {}]]
                    ELSE work
  /\ UNCHANGED <<status, turn, resources, files, uses, lock, blobs, settled, faults>>

\* A slip: only what was deleted is looked for, not the copies of a clone that
\* was never inserted.
OrphanDeleted(s) == s \in files /\ status[s] = "deleted"
Orphan(s) == s \in files /\ ~Exists(s)

\* reclaimOrphanAttachments, under the mutex from the list of the directories on;
\* a directory that cannot be removed does not keep it from the others.
BlobsFree == blobs = NoThread

ReclaimOrphans ==
  /\ At(Janitor, "list")
  /\ doomed = {}
  /\ BlobsFree
  /\ \/ files' = {s \in files : ~Orphan(s)} /\ UNCHANGED faults
     \/ \E m \in AnySession : Orphan(m) /\ files' = {s \in files : ~Orphan(s) \/ s = m} /\ Fault
  /\ work' = [work EXCEPT ![Janitor] = Idle]
  /\ UNCHANGED <<status, turn, resources, uses, lock, blobs, doomed, settled>>

-----------------------------------------------------------------------------
(* Attachments and clones *)

\* uploadAttachment, and the copy of drafts that precedes a submit.
StoreFile(t, s) ==
  /\ work[t] = Idle
  /\ BlobsFree
  /\ status[s] = "active"
  /\ files' = files \cup {s}
  /\ work' = [work EXCEPT ![t] = [op |-> "attach", session |-> s, step |-> "submit", group |-> {}]]
  /\ UNCHANGED <<status, turn, resources, uses, lock, blobs, doomed, settled, faults>>

\* The input that refers to the attachment is accepted, if the session still is
\* open and the client goes on to send it.
SubmitFile(t) ==
  LET s == work[t].session IN
  /\ At(t, "submit")
  /\ uses' = IF MayBegin(s) THEN uses \cup {s} ELSE uses
  /\ Done(t)
  /\ UNCHANGED <<status, turn, resources, files, lock, blobs, doomed, settled, faults>>

\* cloneSession: the copies are made for a session that is not in the table yet.
\* A slip does not hold the mutex until it is.
ReleaseEarly(t) == NoThread
HoldBlobs(t) == t

CopyFiles(t, s, target) ==
  /\ work[t] = Idle
  /\ blobs = NoThread
  /\ status[s] = "active" /\ s \in uses /\ s \in files
  /\ status[target] = "absent" /\ target \notin files
  /\ files' = files \cup {target}
  /\ blobs' = HoldBlobs(t)
  /\ work' = [work EXCEPT ![t] = [op |-> "clone", session |-> target, step |-> "insert",
                                  group |-> {s}]]
  /\ UNCHANGED <<status, turn, resources, uses, lock, doomed, settled, faults>>

\* CloneSession, or the removal of the copies when the source is gone or the call fails.
InsertClone(t) ==
  LET target == work[t].session IN
  /\ At(t, "insert")
  /\ \/ /\ \A s \in work[t].group : status[s] = "active"
        /\ status' = [status EXCEPT ![target] = "active"]
        /\ uses' = uses \cup {target}
        /\ UNCHANGED <<files, faults>>
     \/ /\ files' = files \ {target}
        /\ \/ (\E s \in work[t].group : status[s] # "active") /\ UNCHANGED faults
           \/ Fault
        /\ UNCHANGED <<status, uses>>
  /\ blobs' = NoThread
  /\ Done(t)
  /\ UNCHANGED <<turn, resources, lock, doomed, settled>>

-----------------------------------------------------------------------------
\* The daemon dies and starts again: Recover ends the turns, processes are gone.
DaemonDies ==
  /\ Fault
  /\ turn' = [s \in AnySession |-> "none"]
  /\ resources' = {}
  /\ lock' = [g \in Conversation |-> NoThread]
  /\ blobs' = NoThread
  /\ work' = [t \in Thread |-> IF work[t] = Idle \/ t = Janitor THEN Idle ELSE Rest(t)]
  /\ doomed' = {}
  /\ UNCHANGED <<status, files, uses, settled>>

\* The conversation may have attachments from earlier.
LifeInit ==
  /\ status = [s \in AnySession |-> IF s = Owner THEN "active" ELSE "absent"]
  /\ turn = [s \in AnySession |-> "none"]
  /\ resources = {}
  /\ uses \in SUBSET {Owner}
  /\ files = uses
  /\ lock = [g \in Conversation |-> NoThread]
  /\ blobs = NoThread
  /\ work = [t \in Thread |-> Idle]
  /\ doomed = {}
  /\ settled = {}
  /\ faults = {}

LifeNext ==
  \/ \E s \in AnySession : BeginTurn(s) \/ ToolWorks(s) \/ FinishTurn(s) \/ Expire(s)
  \/ \E c \in Sub : DispatchChild(c)
  \/ \E t \in Client, s \in AnySession :
       \/ \E op \in {"archive", "restore", "purge"} : Request(t, op, s)
       \/ StoreFile(t, s)
       \/ \E target \in Conversation : CopyFiles(t, s, target)
  \/ \E t \in Thread :
       \/ LockGroup(t) \/ Refuse(t) \/ Interrupted(t)
       \/ CloseAdmission(t) \/ CancelWork(t) \/ Join(t)
       \/ ReleaseGroup(t) \/ DeleteRows(t) \/ RemoveFiles(t) \/ Reopen(t)
       \/ SubmitFile(t) \/ InsertClone(t)
  \/ ListExpired \/ PurgeNext \/ ReclaimOrphans
  \/ DaemonDies

LifeSpec == LifeInit /\ [][LifeNext]_lifeVars

\* What needs nobody outside the daemon: requests under way, the rounds of the janitor
\* (at the start and every hour), and the end of a turn whose context is cancelled.  As
\* long as there is such a step, one is taken; no thread is promised to be the next.
Proceeds(t) ==
  \/ LockGroup(t) \/ Refuse(t) \/ CloseAdmission(t) \/ CancelWork(t) \/ Join(t)
  \/ ReleaseGroup(t) \/ DeleteRows(t) \/ RemoveFiles(t) \/ Reopen(t) \/ SubmitFile(t) \/ InsertClone(t)

DaemonProceeds ==
  \/ \E t \in Thread : Proceeds(t)
  \/ ListExpired \/ PurgeNext \/ ReclaimOrphans
  \/ \E s \in AnySession : turn[s] = "cancelled" /\ FinishTurn(s)

LifeFairness == WF_lifeVars(DaemonProceeds)

LifeFairSpec == LifeSpec /\ LifeFairness
-----------------------------------------------------------------------------
(* Properties *)

\* Once an archive or a deletion has answered with success, nothing of the group
\* runs and no tool holds anything for it: no cancelled tool call, turn of a child or
\* later admission brings back what was released (docs/agent-tool-contracts.md:66).
ReleasedAtRest == \A s \in settled : s \notin resources /\ turn[s] = "none" /\ status[s] # "active"

\* The attachments that the messages of a session refer to are on disk as long as
\* the session exists, archived or not: neither a clean-up nor the janitor takes
\* those of a clone that is being made or of a session that was restored.
AttachmentsKept == \A s \in uses : Exists(s) => s \in files

\* A directory of attachments without a session does not stay: whatever fails, is
\* interrupted or arrives late, the janitor finds it (attachments.go:277).
OrphansReclaimed == \A s \in AnySession : (s \in files /\ ~Exists(s)) ~> ~(s \in files /\ ~Exists(s))

\* The janitor deletes only what has been archived for thirty days when it does so
\* (docs/session-collaboration-plan.md:58); the list it read may be stale by then.
OnlyExpiredPurged ==
  [][\A s \in Conversation :
       (At(Janitor, "remove") /\ Exists(s) /\ status'[s] = "deleted" /\ work'[Janitor].step = "files")
       => status[s] = "expired"]_lifeVars
=============================================================================
