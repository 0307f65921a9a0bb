----------------------- MODULE SessionLifecycleProofs -----------------------
(***************************************************************************)
(* Proofs about SessionLifecycle, for any number of conversations, child   *)
(* sessions, requests and faults.                                          *)
(*                                                                         *)
(* The lock of a group keeps admission closed from the transaction that    *)
(* closes it to the answer, so the list of children stays complete and     *)
(* what has been joined does not start again: ReleasedAtRest.  The mutex   *)
(* of the attachments keeps the copies of a clone from the janitor until   *)
(* the clone is in the table: AttachmentsKept.                             *)
(***************************************************************************)
EXTENDS SessionLifecycle, TLAPS

Family(s) == IF s = Owner THEN {Owner} \cup Sub ELSE {s}

\* The steps of a request that holds the lock of its group.
UnderLock == {"close", "reopen", "cancel", "wait", "release", "remove", "files"}

LockKept ==
  \A t \in Thread : work[t].step \in UnderLock => lock[Group(work[t].session)] = t

\* Admission to the whole group is closed from "cancel" on.
AdmissionClosed ==
  \A t \in Thread : work[t].step \in {"cancel", "wait", "release", "remove"} =>
    /\ Archived(work[t].session)
    /\ \A m \in Family(work[t].session) : status[m] # "active"

\* The group that was listed is all there is of it, until its rows are gone.
GroupListed ==
  \A t \in Thread : work[t].step \in {"wait", "release", "remove"} =>
    /\ work[t].group \subseteq Family(work[t].session)
    /\ \A m \in Family(work[t].session) : Exists(m) => m \in work[t].group
    /\ \A m \in work[t].group : Archived(m)

GroupJoined ==
  \A t \in Thread :
    /\ work[t].step = "files" => \A m \in work[t].group : status[m] = "deleted"
    /\ work[t].step \in {"release", "remove", "files"} => \A m \in work[t].group : turn[m] = "none"

\* A clone that is being made has its files, and nobody else the mutex.
CopyHeld ==
  \A t \in Thread : work[t].step = "insert" =>
    /\ blobs = t
    /\ work[t].session \in Conversation \cap files
    /\ status[work[t].session] = "absent"

UploadKept ==
  /\ \A t \in Thread : work[t].step = "submit" =>
       /\ status[work[t].session] # "absent"
       /\ Exists(work[t].session) => work[t].session \in files
  /\ \A s \in uses : status[s] # "absent"

SettledClosed == \A s \in settled : Archived(s) \/ status[s] = "deleted"

LifeInv ==
  /\ LifeTypeOK /\ LockKept /\ AdmissionClosed /\ GroupListed /\ GroupJoined
  /\ CopyHeld /\ UploadKept /\ SettledClosed /\ ReleasedAtRest /\ AttachmentsKept

-----------------------------------------------------------------------------
(* Types, groups and threads *)

Step == {"idle", "answered", "lock", "close", "reopen", "cancel", "wait", "release",
         "remove", "files", "insert", "submit", "list"}
Work == [op : {"none", "archive", "restore", "purge", "clone", "attach"}, session : AnySession,
         step : Step, group : SUBSET AnySession]

LEMMA TypeParts ==
  LifeTypeOK <=>
    /\ status \in [AnySession -> {"absent", "active", "archived", "expired", "deleted"}]
    /\ turn \in [AnySession -> {"none", "running", "cancelled"}]
    /\ resources \subseteq AnySession /\ files \subseteq AnySession /\ uses \subseteq AnySession
    /\ lock \in [Conversation -> Thread \cup {NoThread}]
    /\ blobs \in Thread \cup {NoThread}
    /\ work \in [Thread -> Work]
    /\ doomed \subseteq Conversation /\ settled \subseteq AnySession /\ faults \subseteq Faults
BY DEF LifeTypeOK, Work, Step

LEMMA IdleTyped == Idle \in Work /\ Idle.step = "idle"
BY LifecycleAssumption DEF Idle, Work, Step, AnySession

LEMMA RestTyped ==
  ASSUME NEW t \in Thread
  PROVE  Rest(t) \in Work /\ Rest(t).step \in {"list", "answered"}
BY LifecycleAssumption DEF Rest, Idle, Work, Step, AnySession

\* A thread goes on to its next step.
LEMMA Moves ==
  ASSUME work \in [Thread -> Work], NEW t \in Thread, NEW step \in Step, Goto(t, step)
  PROVE  /\ work' \in [Thread -> Work] /\ work'[t].step = step
         /\ work'[t].session = work[t].session /\ work'[t].group = work[t].group
         /\ \A u \in Thread \ {t} : work'[u] = work[u]
BY DEF Goto, Work

\* A thread is done.
LEMMA Ends ==
  ASSUME work \in [Thread -> Work], NEW t \in Thread, Done(t)
  PROVE  /\ work' \in [Thread -> Work] /\ work'[t].step \in {"list", "answered"}
         /\ \A u \in Thread \ {t} : work'[u] = work[u]
BY RestTyped DEF Done

\* A thread takes up something.
LEMMA Begins ==
  ASSUME work \in [Thread -> Work], NEW t \in Thread, NEW w \in Work,
         work' = [work EXCEPT ![t] = w]
  PROVE  /\ work' \in [Thread -> Work] /\ work'[t] = w
         /\ \A u \in Thread \ {t} : work'[u] = work[u]
OBVIOUS

LEMMA Unlocks ==
  ASSUME lock \in [Conversation -> Thread \cup {NoThread}], NEW t \in Thread, Unlock(t)
  PROVE  /\ lock' \in [Conversation -> Thread \cup {NoThread}]
         /\ \A g \in Conversation : lock[g] # t => lock'[g] = lock[g]
BY DEF Unlock

LEMMA FaultTyped ==
  ASSUME faults \subseteq Faults, Fault
  PROVE  faults' \subseteq Faults
BY DEF Fault

LEMMA GroupTyped ==
  ASSUME NEW s \in AnySession
  PROVE  Group(s) \in Conversation
BY LifecycleAssumption DEF Group, AnySession

LEMMA FamilyTyped ==
  ASSUME NEW s \in AnySession
  PROVE  /\ Family(s) \subseteq AnySession /\ s \in Family(s)
         /\ \A m \in Family(s) : Group(m) = Group(s)
BY LifecycleAssumption DEF Group, AnySession, Family

LEMMA MembersInFamily ==
  ASSUME NEW s \in AnySession
  PROVE  /\ Members(s) \subseteq Family(s) /\ s \in Members(s)
         /\ \A m \in Family(s) : Exists(m) => m \in Members(s)
BY LifecycleAssumption DEF Members, Children, Family, AnySession

\* Two threads under the locks of their groups have no session in common.
LEMMA GroupsApart ==
  ASSUME LifeInv, NEW t \in Thread, NEW u \in Thread \ {t},
         work[t].step \in UnderLock, work[u].step \in UnderLock
  PROVE  Family(work[t].session) \cap Family(work[u].session) = {}
<1>1. work[t].session \in AnySession /\ work[u].session \in AnySession
  BY TypeParts DEF LifeInv, Work
<1>2. Group(work[t].session) # Group(work[u].session)
  BY DEF LifeInv, LockKept
<1> QED BY <1>1, <1>2, FamilyTyped

-----------------------------------------------------------------------------
(* Turns, children and time *)

LEMMA BeginTurnStep ==
  ASSUME LifeInv, NEW s \in AnySession, BeginTurn(s)
  PROVE  LifeInv'
<1>1. /\ status[s] = "active" /\ turn' = [turn EXCEPT ![s] = "running"] /\ LifeTypeOK
      /\ UNCHANGED <<status, resources, files, uses, lock, blobs, work, doomed, settled, faults>>
  BY DEF BeginTurn, MayBegin, LifeInv
<1>2. turn' \in [AnySession -> {"none", "running", "cancelled"}] /\ \A m \in AnySession \ {s} : turn'[m] = turn[m]
  BY <1>1, TypeParts
<1>3. LifeTypeOK'
  BY <1>1, <1>2 DEF LifeTypeOK
<1>4. LockKept' /\ AdmissionClosed' /\ GroupListed' /\ CopyHeld' /\ UploadKept' /\ SettledClosed' /\ AttachmentsKept'
  BY <1>1 DEF LifeInv, LockKept, AdmissionClosed, GroupListed, CopyHeld, UploadKept, SettledClosed,
              AttachmentsKept, Exists, Archived, Group
<1>5. GroupJoined'
  <2>1. \A t \in Thread : work[t].group \subseteq AnySession
    BY <1>1, TypeParts DEF Work
  <2>2. \A t \in Thread : work[t].step \in {"release", "remove", "files"} => s \notin work[t].group
    BY <1>1 DEF LifeInv, GroupListed, GroupJoined, Archived
  <2> QED BY <1>1, <1>2, <2>1, <2>2 DEF LifeInv, GroupJoined
<1>6. ReleasedAtRest'
  BY <1>1, <1>2, TypeParts DEF LifeInv, ReleasedAtRest
<1> QED BY <1>3, <1>4, <1>5, <1>6 DEF LifeInv

LEMMA ToolWorksStep ==
  ASSUME LifeInv, NEW s \in AnySession, ToolWorks(s)
  PROVE  LifeInv'
<1>1. /\ turn[s] # "none" /\ resources' = resources \cup {s} /\ LifeTypeOK
      /\ UNCHANGED <<status, turn, files, uses, lock, blobs, work, doomed, settled, faults>>
  BY DEF ToolWorks, LifeInv
<1>2. LifeTypeOK'
  BY <1>1 DEF LifeTypeOK
<1>3. LockKept' /\ AdmissionClosed' /\ GroupListed' /\ GroupJoined' /\ CopyHeld' /\ UploadKept' /\ SettledClosed'
      /\ AttachmentsKept'
  BY <1>1 DEF LifeInv, LockKept, AdmissionClosed, GroupListed, GroupJoined, CopyHeld, UploadKept, SettledClosed,
              AttachmentsKept, Exists, Archived, Group
<1>4. ReleasedAtRest'
  BY <1>1 DEF LifeInv, ReleasedAtRest
<1> QED BY <1>2, <1>3, <1>4 DEF LifeInv

LEMMA FinishTurnStep ==
  ASSUME LifeInv, NEW s \in AnySession, FinishTurn(s)
  PROVE  LifeInv'
<1>1. /\ turn' = [turn EXCEPT ![s] = "none"] /\ LifeTypeOK
      /\ UNCHANGED <<status, resources, files, uses, lock, blobs, work, doomed, settled, faults>>
  BY DEF FinishTurn, LifeInv
<1>2. /\ turn' \in [AnySession -> {"none", "running", "cancelled"}]
      /\ \A m \in AnySession : turn[m] = "none" => turn'[m] = "none"
  BY <1>1, TypeParts
<1>3. LifeTypeOK'
  BY <1>1, <1>2 DEF LifeTypeOK
<1>4. LockKept' /\ AdmissionClosed' /\ GroupListed' /\ CopyHeld' /\ UploadKept' /\ SettledClosed' /\ AttachmentsKept'
  BY <1>1 DEF LifeInv, LockKept, AdmissionClosed, GroupListed, CopyHeld, UploadKept, SettledClosed,
              AttachmentsKept, Exists, Archived, Group
<1>5. GroupJoined'
  <2>1. \A t \in Thread : work[t].group \subseteq AnySession
    BY <1>1, TypeParts DEF Work
  <2> QED BY <1>1, <1>2, <2>1 DEF LifeInv, GroupJoined
<1>6. ReleasedAtRest'
  BY <1>1, <1>2, TypeParts DEF LifeInv, ReleasedAtRest
<1> QED BY <1>3, <1>4, <1>5, <1>6 DEF LifeInv

\* A child session appears: no request works on the group of an open conversation.
LEMMA DispatchChildStep ==
  ASSUME LifeInv, NEW c \in Sub, DispatchChild(c)
  PROVE  LifeInv'
<1>1. /\ status[c] = "absent" /\ status[Owner] = "active" /\ status' = [status EXCEPT ![c] = "active"]
      /\ LifeTypeOK /\ c \in AnySession /\ Owner \in AnySession
      /\ UNCHANGED <<turn, resources, files, uses, lock, blobs, work, doomed, settled, faults>>
  BY LifecycleAssumption DEF DispatchChild, LifeInv, AnySession
<1>2. /\ status' \in [AnySession -> {"absent", "active", "archived", "expired", "deleted"}]
      /\ status'[c] = "active" /\ \A m \in AnySession \ {c} : status'[m] = status[m]
  BY <1>1, TypeParts
<1>3. \A t \in Thread : work[t].session \in AnySession /\ work[t].group \subseteq AnySession
  BY <1>1, TypeParts DEF Work
<1>4. \A t \in Thread : work[t].step \in {"cancel", "wait", "release", "remove"} => c \notin Family(work[t].session)
  <2>1. \A s \in AnySession : c \in Family(s) => s \in {Owner, c}
    BY DEF Family
  <2> QED BY <1>1, <1>3, <2>1 DEF LifeInv, AdmissionClosed, Archived
<1>5. LifeTypeOK'
  BY <1>1, <1>2 DEF LifeTypeOK
<1>6. LockKept'
  BY <1>1 DEF LifeInv, LockKept, Group
<1>7. AdmissionClosed'
  <2>1. \A t \in Thread : Family(work[t].session) \subseteq AnySession /\ work[t].session \in Family(work[t].session)
    BY <1>3, FamilyTyped
  <2> QED BY <1>1, <1>2, <1>4, <2>1 DEF LifeInv, AdmissionClosed, Archived
<1>8. GroupListed'
  <2>1. \A t \in Thread : Family(work[t].session) \subseteq AnySession
    BY <1>3, FamilyTyped
  <2> QED BY <1>1, <1>2, <1>4, <2>1 DEF LifeInv, GroupListed, Archived, Exists
<1>9. GroupJoined' /\ CopyHeld'
  <2>1. \A t \in Thread : work[t].step = "insert" => work[t].session # c
    BY LifecycleAssumption DEF LifeInv, CopyHeld
  <2> QED BY <1>1, <1>2, <1>3, <2>1 DEF LifeInv, GroupJoined, CopyHeld
<1>10. UploadKept' /\ AttachmentsKept'
  BY <1>1, <1>2, <1>3, TypeParts DEF LifeInv, UploadKept, AttachmentsKept, Exists
<1>11. SettledClosed' /\ ReleasedAtRest'
  BY <1>1, <1>2, TypeParts DEF LifeInv, SettledClosed, ReleasedAtRest, Archived
<1> QED BY <1>5, <1>6, <1>7, <1>8, <1>9, <1>10, <1>11 DEF LifeInv

LEMMA ExpireStep ==
  ASSUME LifeInv, NEW s \in AnySession, Expire(s)
  PROVE  LifeInv'
<1>1. /\ status[s] = "archived" /\ status' = [status EXCEPT ![s] = "expired"] /\ LifeTypeOK
      /\ UNCHANGED <<turn, resources, files, uses, lock, blobs, work, doomed, settled, faults>>
  BY DEF Expire, LifeInv
<1>2. /\ status' \in [AnySession -> {"absent", "active", "archived", "expired", "deleted"}]
      /\ status'[s] = "expired" /\ \A m \in AnySession \ {s} : status'[m] = status[m]
  BY <1>1, TypeParts
<1>3. \A t \in Thread : /\ work[t].session \in AnySession /\ work[t].group \subseteq AnySession
                        /\ Family(work[t].session) \subseteq AnySession
  BY <1>1, TypeParts, FamilyTyped DEF Work
<1>4. LifeTypeOK'
  BY <1>1, <1>2 DEF LifeTypeOK
<1>5. LockKept' /\ AdmissionClosed'
  BY <1>1, <1>2, <1>3 DEF LifeInv, LockKept, Group, AdmissionClosed, Archived
<1>6. GroupListed' /\ GroupJoined'
  BY <1>1, <1>2, <1>3 DEF LifeInv, GroupListed, GroupJoined, Archived, Exists
<1>7. CopyHeld' /\ UploadKept' /\ AttachmentsKept'
  BY <1>1, <1>2, <1>3, TypeParts DEF LifeInv, CopyHeld, UploadKept, AttachmentsKept, Exists
<1>8. SettledClosed' /\ ReleasedAtRest'
  BY <1>1, <1>2, TypeParts DEF LifeInv, SettledClosed, ReleasedAtRest, Archived
<1> QED BY <1>4, <1>5, <1>6, <1>7, <1>8 DEF LifeInv

-----------------------------------------------------------------------------
(* Requests *)

\* Only a thread moves, to or from a step that nothing is promised about.
LEMMA ThreadRests ==
  ASSUME LifeInv, NEW t \in Thread,
         work' \in [Thread -> Work],
         work'[t].step \in {"idle", "answered", "lock", "list"},
         \A u \in Thread \ {t} : work'[u] = work[u],
         lock' \in [Conversation -> Thread \cup {NoThread}],
         \A g \in Conversation : lock[g] # t => lock'[g] = lock[g],
         doomed' \subseteq Conversation, faults' \subseteq Faults,
         UNCHANGED <<status, turn, resources, files, uses, blobs, settled>>
  PROVE  LifeInv'
<1>1. \A u \in Thread : work[u].session \in AnySession
  BY TypeParts DEF LifeInv, Work
<1>2. LifeTypeOK'
  BY DEF LifeInv, LifeTypeOK, Work, Step
<1>3. LockKept'
  BY <1>1, GroupTyped DEF LifeInv, LockKept, UnderLock, Group
<1>4. AdmissionClosed' /\ GroupListed' /\ GroupJoined'
  BY DEF LifeInv, AdmissionClosed, GroupListed, GroupJoined, Archived, Exists
<1>5. CopyHeld' /\ UploadKept' /\ AttachmentsKept' /\ SettledClosed' /\ ReleasedAtRest'
  BY DEF LifeInv, CopyHeld, UploadKept, AttachmentsKept, SettledClosed, ReleasedAtRest, Archived, Exists
<1> QED BY <1>2, <1>3, <1>4, <1>5 DEF LifeInv

LEMMA RequestStep ==
  ASSUME LifeInv, NEW t \in Client, NEW s \in AnySession, NEW op \in {"archive", "restore", "purge"},
         Request(t, op, s)
  PROVE  LifeInv'
<1> DEFINE w == [op |-> op, session |-> s, step |-> "lock", group |-> {}]
<1>1. w \in Work /\ w.step = "lock" /\ t \in Thread
  BY DEF Work, Step, Thread
<1>2. work' = [work EXCEPT ![t] = w] /\ LifeTypeOK
      /\ UNCHANGED <<status, turn, resources, files, uses, lock, blobs, doomed, settled, faults>>
  BY DEF Request, LifeInv
<1> HIDE DEF w
<1>3. work' \in [Thread -> Work] /\ work'[t].step = "lock" /\ \A u \in Thread \ {t} : work'[u] = work[u]
  BY <1>1, <1>2, TypeParts, Begins
<1> QED BY <1>1, <1>2, <1>3, ThreadRests, TypeParts

LEMMA FailsStep ==
  ASSUME LifeInv, NEW t \in Thread, Fails(t), faults' \subseteq Faults
  PROVE  LifeInv'
<1>1. LifeTypeOK /\ Unlock(t) /\ Done(t)
      /\ UNCHANGED <<status, turn, resources, files, uses, blobs, doomed, settled>>
  BY DEF Fails, LifeInv
<1>2. /\ work' \in [Thread -> Work] /\ work'[t].step \in {"list", "answered"}
      /\ \A u \in Thread \ {t} : work'[u] = work[u]
  BY <1>1, TypeParts, Ends
<1>3. /\ lock' \in [Conversation -> Thread \cup {NoThread}]
      /\ \A g \in Conversation : lock[g] # t => lock'[g] = lock[g]
  BY <1>1, TypeParts, Unlocks
<1> QED BY <1>1, <1>2, <1>3, ThreadRests, TypeParts

LEMMA RefuseStep ==
  ASSUME LifeInv, NEW t \in Thread, Refuse(t)
  PROVE  LifeInv'
<1>1. Fails(t) /\ faults' = faults /\ LifeTypeOK
  BY DEF Refuse, LifeInv
<1> QED BY <1>1, FailsStep, TypeParts

LEMMA InterruptedStep ==
  ASSUME LifeInv, NEW t \in Thread, Interrupted(t)
  PROVE  LifeInv'
<1>1. Fails(t) /\ Fault /\ LifeTypeOK
  BY DEF Interrupted, LifeInv
<1> QED BY <1>1, FailsStep, FaultTyped, TypeParts

LEMMA LockGroupStep ==
  ASSUME LifeInv, NEW t \in Thread, LockGroup(t)
  PROVE  LifeInv'
<1> DEFINE step == FirstStep(work[t].op)
           group == Group(work[t].session)
<1>1. /\ lock[group] = NoThread /\ lock' = [lock EXCEPT ![group] = t] /\ Goto(t, step) /\ LifeTypeOK
      /\ UNCHANGED <<status, turn, resources, files, uses, blobs, doomed, settled, faults>>
  BY DEF LockGroup, GroupFree, LifeInv
<1>2. step \in Step /\ step \in {"close", "reopen"}
  BY DEF FirstStep, Step
<1>3. \A u \in Thread : work[u].session \in AnySession
  BY <1>1, TypeParts DEF Work
<1>4. group \in Conversation
  BY <1>3, GroupTyped
<1> HIDE DEF step
<1>5. /\ work' \in [Thread -> Work] /\ work'[t].step = step /\ work'[t].session = work[t].session
      /\ \A u \in Thread \ {t} : work'[u] = work[u]
  BY <1>1, <1>2, TypeParts, Moves
<1>6. /\ lock' \in [Conversation -> Thread \cup {NoThread}] /\ lock'[group] = t
      /\ \A g \in Conversation \ {group} : lock'[g] = lock[g]
  BY <1>1, <1>4, TypeParts
<1>7. LifeTypeOK'
  BY <1>1, <1>5, <1>6 DEF LifeTypeOK, Work, Step
<1>8. LockKept'
  <2>1. \A u \in Thread : Group(work[u].session) \in Conversation
    BY <1>3, GroupTyped
  <2>2. NoThread \notin Thread
    BY LifecycleAssumption DEF Thread
  <2> QED BY <1>1, <1>5, <1>6, <2>1, <2>2 DEF LifeInv, LockKept, Group
<1>9. AdmissionClosed' /\ GroupListed' /\ GroupJoined'
  BY <1>1, <1>2, <1>5 DEF LifeInv, AdmissionClosed, GroupListed, GroupJoined, Archived, Exists
<1>10. CopyHeld' /\ UploadKept' /\ AttachmentsKept' /\ SettledClosed' /\ ReleasedAtRest'
  BY <1>1, <1>2, <1>5 DEF LifeInv, CopyHeld, UploadKept, AttachmentsKept, SettledClosed, ReleasedAtRest,
                          Archived, Exists
<1> QED BY <1>7, <1>8, <1>9, <1>10 DEF LifeInv

LEMMA CloseAdmissionStep ==
  ASSUME LifeInv, NEW t \in Thread, CloseAdmission(t)
  PROVE  LifeInv'
<1> DEFINE s == work[t].session
<1>1. /\ work[t].step = "close" /\ Exists(s) /\ Goto(t, "cancel") /\ LifeTypeOK
      /\ status' = [m \in AnySession |-> IF m \in Members(s) /\ status[m] = "active" THEN "archived"
                                         ELSE status[m]]
      /\ UNCHANGED <<turn, resources, files, uses, lock, blobs, doomed, settled, faults>>
  BY DEF CloseAdmission, At, LifeInv
<1>2. /\ work' \in [Thread -> Work] /\ work'[t].step = "cancel" /\ work'[t].session = s
      /\ \A u \in Thread \ {t} : work'[u] = work[u]
  BY <1>1, TypeParts, Moves DEF Step
<1>3. \A u \in Thread : /\ work[u].session \in AnySession /\ work[u].group \subseteq AnySession
                        /\ Family(work[u].session) \subseteq AnySession
  BY <1>1, TypeParts, FamilyTyped DEF Work
<1>4. /\ status' \in [AnySession -> {"absent", "active", "archived", "expired", "deleted"}]
      /\ \A m \in AnySession : status'[m] = status[m] \/ (status[m] = "active" /\ status'[m] = "archived")
  BY <1>1, TypeParts
<1>5. LifeTypeOK'
  BY <1>1, <1>2, <1>4 DEF LifeTypeOK, Work, Step
<1>6. LockKept'
  BY <1>1, <1>2 DEF LifeInv, LockKept, Group, UnderLock
<1>7. AdmissionClosed'
  <2>1. \A m \in Family(s) : status'[m] # "active"
    BY <1>1, <1>3, MembersInFamily DEF Exists
  <2>2. status'[s] \in {"archived", "expired"}
    BY <1>1, <1>3, MembersInFamily DEF Exists
  <2> QED BY <1>2, <1>3, <1>4, <2>1, <2>2 DEF LifeInv, AdmissionClosed, Archived
<1>8. GroupListed' /\ GroupJoined'
  BY <1>1, <1>2, <1>3, <1>4 DEF LifeInv, GroupListed, GroupJoined, Archived, Exists
<1>9. CopyHeld' /\ UploadKept' /\ AttachmentsKept'
  BY <1>1, <1>2, <1>3, <1>4, TypeParts DEF LifeInv, CopyHeld, UploadKept, AttachmentsKept, Exists
<1>10. SettledClosed' /\ ReleasedAtRest'
  BY <1>1, <1>4, TypeParts DEF LifeInv, SettledClosed, ReleasedAtRest, Archived
<1> QED BY <1>5, <1>6, <1>7, <1>8, <1>9, <1>10 DEF LifeInv

LEMMA CancelWorkStep ==
  ASSUME LifeInv, NEW t \in Thread, CancelWork(t)
  PROVE  LifeInv'
<1> DEFINE s == work[t].session
<1>1. /\ work[t].step = "cancel" /\ LifeTypeOK
      /\ turn' = [m \in AnySession |-> IF m \in Members(s) /\ turn[m] # "none" THEN "cancelled" ELSE turn[m]]
      /\ work' = [work EXCEPT ![t].step = "wait", ![t].group = Members(s)]
      /\ UNCHANGED <<status, resources, files, uses, lock, blobs, doomed, settled, faults>>
  BY DEF CancelWork, At, LifeInv
<1>2. \A u \in Thread : /\ work[u].session \in AnySession /\ work[u].group \subseteq AnySession
                        /\ Family(work[u].session) \subseteq AnySession
  BY <1>1, TypeParts, FamilyTyped DEF Work
<1>3. /\ Members(s) \subseteq Family(s) /\ Members(s) \subseteq AnySession
      /\ \A m \in Family(s) : Exists(m) => m \in Members(s)
      /\ \A m \in Members(s) : m = s \/ Exists(m)
  BY <1>2, MembersInFamily DEF Members, Children
<1>4. /\ work' \in [Thread -> Work] /\ work'[t].step = "wait" /\ work'[t].session = s
      /\ work'[t].group = Members(s) /\ \A u \in Thread \ {t} : work'[u] = work[u]
  BY ZenonT(30), <1>1, <1>3, TypeParts DEF Work, Step
<1>5. /\ turn' \in [AnySession -> {"none", "running", "cancelled"}]
      /\ \A m \in AnySession : turn[m] = "none" => turn'[m] = "none"
  BY <1>1, TypeParts
<1>6. LifeTypeOK'
  BY <1>1, <1>4, <1>5 DEF LifeTypeOK, Work, Step
<1>7. LockKept' /\ AdmissionClosed'
  BY <1>1, <1>4 DEF LifeInv, LockKept, UnderLock, Group, AdmissionClosed, Archived
<1>8. GroupListed'
  <2>1. \A m \in Members(s) : Archived(m)
    BY <1>1, <1>3 DEF LifeInv, AdmissionClosed, Archived, Exists
  <2> QED BY <1>1, <1>3, <1>4, <2>1 DEF LifeInv, GroupListed, Archived, Exists
<1>9. GroupJoined'
  BY <1>1, <1>2, <1>4, <1>5 DEF LifeInv, GroupJoined
<1>10. CopyHeld' /\ UploadKept' /\ AttachmentsKept' /\ SettledClosed'
  BY <1>1, <1>4 DEF LifeInv, CopyHeld, UploadKept, AttachmentsKept, SettledClosed, Archived, Exists
<1>11. ReleasedAtRest'
  BY <1>1, <1>5, TypeParts DEF LifeInv, ReleasedAtRest
<1> QED BY <1>6, <1>7, <1>8, <1>9, <1>10, <1>11 DEF LifeInv

LEMMA JoinStep ==
  ASSUME LifeInv, NEW t \in Thread, Join(t)
  PROVE  LifeInv'
<1> DEFINE step == IF work[t].op = "archive" THEN "release" ELSE "remove"
<1>1. /\ work[t].step = "wait" /\ Joined(t) /\ Goto(t, step) /\ LifeTypeOK
      /\ UNCHANGED <<status, turn, resources, files, uses, lock, blobs, doomed, settled, faults>>
  BY DEF Join, At, LifeInv
<1>2. step \in Step /\ step \in {"release", "remove"}
  BY DEF Step
<1> HIDE DEF step
<1>3. /\ work' \in [Thread -> Work] /\ work'[t].step = step /\ work'[t].session = work[t].session
      /\ work'[t].group = work[t].group /\ \A u \in Thread \ {t} : work'[u] = work[u]
  BY <1>1, <1>2, TypeParts, Moves
<1>4. LifeTypeOK'
  BY <1>1, <1>3 DEF LifeTypeOK, Work, Step
<1>5. LockKept' /\ AdmissionClosed'
  BY <1>1, <1>2, <1>3 DEF LifeInv, LockKept, UnderLock, Group, AdmissionClosed, Archived
<1>6. GroupListed' /\ GroupJoined'
  BY <1>1, <1>2, <1>3 DEF LifeInv, GroupListed, GroupJoined, Joined, Archived, Exists
<1>7. CopyHeld' /\ UploadKept' /\ AttachmentsKept' /\ SettledClosed' /\ ReleasedAtRest'
  BY <1>1, <1>2, <1>3 DEF LifeInv, CopyHeld, UploadKept, AttachmentsKept, SettledClosed, ReleasedAtRest,
                          Archived, Exists
<1> QED BY <1>4, <1>5, <1>6, <1>7 DEF LifeInv

LEMMA ReleaseGroupStep ==
  ASSUME LifeInv, NEW t \in Thread, ReleaseGroup(t)
  PROVE  LifeInv'
<1> DEFINE group == work[t].group
<1>1. /\ work[t].step = "release" /\ resources' = resources \ group /\ settled' = settled \cup group
      /\ Unlock(t) /\ Done(t) /\ LifeTypeOK
      /\ UNCHANGED <<status, turn, files, uses, blobs, doomed, faults>>
  BY DEF ReleaseGroup, At, LifeInv
<1>2. /\ work' \in [Thread -> Work] /\ work'[t].step \in {"list", "answered"}
      /\ \A u \in Thread \ {t} : work'[u] = work[u]
  BY <1>1, TypeParts, Ends
<1>3. /\ lock' \in [Conversation -> Thread \cup {NoThread}]
      /\ \A g \in Conversation : lock[g] # t => lock'[g] = lock[g]
  BY <1>1, TypeParts, Unlocks
<1>4. \A u \in Thread : work[u].session \in AnySession /\ work[u].group \subseteq AnySession
  BY <1>1, TypeParts DEF Work
<1>5. LifeTypeOK'
  BY <1>1, <1>2, <1>3, <1>4 DEF LifeTypeOK, Work, Step
<1>6. LockKept'
  BY <1>2, <1>3, <1>4, GroupTyped DEF LifeInv, LockKept, UnderLock, Group
<1>7. AdmissionClosed' /\ GroupListed' /\ GroupJoined'
  BY <1>1, <1>2 DEF LifeInv, AdmissionClosed, GroupListed, GroupJoined, Archived, Exists
<1>8. CopyHeld' /\ UploadKept' /\ AttachmentsKept'
  BY <1>1, <1>2 DEF LifeInv, CopyHeld, UploadKept, AttachmentsKept, Exists
<1>9. \A m \in group : Archived(m) /\ turn[m] = "none"
  BY <1>1 DEF LifeInv, GroupListed, GroupJoined
<1>10. SettledClosed' /\ ReleasedAtRest'
  BY <1>1, <1>9 DEF LifeInv, SettledClosed, ReleasedAtRest, Archived
<1> QED BY <1>5, <1>6, <1>7, <1>8, <1>10 DEF LifeInv

LEMMA DeleteRowsStep ==
  ASSUME LifeInv, NEW t \in Thread, DeleteRows(t)
  PROVE  LifeInv'
<1> DEFINE s == work[t].session
<1>1. /\ work[t].step = "remove" /\ Goto(t, "files") /\ LifeTypeOK
      /\ status' = [m \in AnySession |-> IF m \in Members(s) THEN "deleted" ELSE status[m]]
      /\ UNCHANGED <<turn, resources, files, uses, lock, blobs, doomed, settled, faults>>
  BY DEF DeleteRows, At, LifeInv
<1>2. /\ work' \in [Thread -> Work] /\ work'[t].step = "files" /\ work'[t].session = s
      /\ work'[t].group = work[t].group /\ \A u \in Thread \ {t} : work'[u] = work[u]
  BY <1>1, TypeParts, Moves DEF Step
<1>3. \A u \in Thread : /\ work[u].session \in AnySession /\ work[u].group \subseteq AnySession
                        /\ Family(work[u].session) \subseteq AnySession
                        /\ work[u].session \in Family(work[u].session)
  BY <1>1, TypeParts, FamilyTyped DEF Work
<1>4. /\ Members(s) \subseteq Family(s) /\ \A m \in Family(s) : Exists(m) => m \in Members(s)
  BY <1>3, MembersInFamily
<1>5. /\ status' \in [AnySession -> {"absent", "active", "archived", "expired", "deleted"}]
      /\ \A m \in AnySession : status'[m] = "deleted" \/ status'[m] = status[m]
      /\ \A m \in Members(s) : status'[m] = "deleted"
      /\ \A m \in AnySession \ Family(s) : status'[m] = status[m]
  BY <1>1, <1>3, <1>4, TypeParts
<1>6. \A u \in Thread \ {t} : work[u].step \in UnderLock => Family(work[u].session) \cap Family(s) = {}
  BY <1>1, GroupsApart DEF UnderLock
<1>7. LifeTypeOK'
  BY <1>1, <1>2, <1>5 DEF LifeTypeOK, Work, Step
<1>8. LockKept'
  BY <1>1, <1>2 DEF LifeInv, LockKept, Group, UnderLock
<1>9. AdmissionClosed'
  BY <1>2, <1>3, <1>5, <1>6 DEF LifeInv, AdmissionClosed, Archived, UnderLock
<1>10. GroupListed'
  BY <1>2, <1>3, <1>5, <1>6 DEF LifeInv, GroupListed, Archived, Exists, UnderLock
<1>11. GroupJoined'
  <2>1. \A m \in work[t].group : m \in Members(s) /\ turn[m] = "none"
    BY <1>1, <1>4 DEF LifeInv, GroupListed, GroupJoined, Archived, Exists
  <2> QED BY <1>1, <1>2, <1>3, <1>5, <2>1 DEF LifeInv, GroupJoined
<1>12. CopyHeld'
  <2>1. \A m \in Members(s) : m # s => Exists(m)
    BY DEF Members, Children
  <2>2. \A m \in Members(s) : status[m] # "absent"
    BY <1>1, <2>1 DEF LifeInv, AdmissionClosed, Archived, Exists
  <2> QED BY <1>1, <1>2, <1>3, <1>5, <2>2 DEF LifeInv, CopyHeld
<1>13. UploadKept' /\ AttachmentsKept'
  BY <1>1, <1>2, <1>3, <1>5, TypeParts DEF LifeInv, UploadKept, AttachmentsKept, Exists
<1>14. SettledClosed' /\ ReleasedAtRest'
  BY <1>1, <1>5, TypeParts DEF LifeInv, SettledClosed, ReleasedAtRest, Archived
<1> QED BY <1>7, <1>8, <1>9, <1>10, <1>11, <1>12, <1>13, <1>14 DEF LifeInv

LEMMA RemoveFilesStep ==
  ASSUME LifeInv, NEW t \in Thread, RemoveFiles(t)
  PROVE  LifeInv'
<1> DEFINE group == work[t].group
<1>1. /\ work[t].step = "files" /\ blobs = NoThread
      /\ resources' = resources \ group /\ settled' = settled \cup group
      /\ Unlock(t) /\ Done(t) /\ LifeTypeOK
      /\ UNCHANGED <<status, turn, uses, blobs, doomed>>
  BY DEF RemoveFiles, At, LifeInv
<1>2. files' \subseteq files /\ files \ group \subseteq files' /\ faults' \subseteq Faults
  BY <1>1, TypeParts, FaultTyped DEF RemoveFiles
<1>3. /\ work' \in [Thread -> Work] /\ work'[t].step \in {"list", "answered"}
      /\ \A u \in Thread \ {t} : work'[u] = work[u]
  BY <1>1, TypeParts, Ends
<1>4. /\ lock' \in [Conversation -> Thread \cup {NoThread}]
      /\ \A g \in Conversation : lock[g] # t => lock'[g] = lock[g]
  BY <1>1, TypeParts, Unlocks
<1>5. \A u \in Thread : work[u].session \in AnySession /\ work[u].group \subseteq AnySession
  BY <1>1, TypeParts DEF Work
<1>6. \A m \in group : status[m] = "deleted" /\ turn[m] = "none"
  BY <1>1 DEF LifeInv, GroupJoined
<1>7. LifeTypeOK'
  BY <1>1, <1>2, <1>3, <1>4, <1>5 DEF LifeTypeOK, Work, Step
<1>8. LockKept'
  BY <1>3, <1>4, <1>5, GroupTyped DEF LifeInv, LockKept, UnderLock, Group
<1>9. AdmissionClosed' /\ GroupListed' /\ GroupJoined'
  BY <1>1, <1>3 DEF LifeInv, AdmissionClosed, GroupListed, GroupJoined, Archived, Exists
<1>10. CopyHeld'
  <2>1. NoThread \notin Thread
    BY LifecycleAssumption DEF Thread
  <2> QED BY <1>1, <1>3, <2>1 DEF LifeInv, CopyHeld
<1>11. UploadKept' /\ AttachmentsKept'
  BY <1>1, <1>2, <1>3, <1>6 DEF LifeInv, UploadKept, AttachmentsKept, Exists
<1>12. SettledClosed' /\ ReleasedAtRest'
  BY <1>1, <1>6 DEF LifeInv, SettledClosed, ReleasedAtRest, Archived
<1> QED BY <1>7, <1>8, <1>9, <1>10, <1>11, <1>12 DEF LifeInv

LEMMA ReopenStep ==
  ASSUME LifeInv, NEW t \in Thread, Reopen(t)
  PROVE  LifeInv'
<1> DEFINE s == work[t].session
<1>1. /\ work[t].step = "reopen" /\ Archived(s) /\ Unlock(t) /\ Done(t) /\ LifeTypeOK
      /\ status' = [m \in AnySession |-> IF m \in Members(s) THEN "active" ELSE status[m]]
      /\ settled' = settled \ Members(s)
      /\ UNCHANGED <<turn, resources, files, uses, blobs, doomed, faults>>
  BY DEF Reopen, At, LifeInv
<1>2. /\ work' \in [Thread -> Work] /\ work'[t].step \in {"list", "answered"}
      /\ \A u \in Thread \ {t} : work'[u] = work[u]
  BY <1>1, TypeParts, Ends
<1>3. /\ lock' \in [Conversation -> Thread \cup {NoThread}]
      /\ \A g \in Conversation : lock[g] # t => lock'[g] = lock[g]
  BY <1>1, TypeParts, Unlocks
<1>4. \A u \in Thread : /\ work[u].session \in AnySession /\ work[u].group \subseteq AnySession
                        /\ Family(work[u].session) \subseteq AnySession
                        /\ work[u].session \in Family(work[u].session)
  BY <1>1, TypeParts, FamilyTyped DEF Work
<1>5. /\ Members(s) \subseteq Family(s) /\ \A m \in Members(s) : Exists(m)
  BY <1>1, <1>4, MembersInFamily DEF Members, Children, Archived, Exists
<1>6. /\ status' \in [AnySession -> {"absent", "active", "archived", "expired", "deleted"}]
      /\ \A m \in Members(s) : status'[m] = "active"
      /\ \A m \in AnySession \ Members(s) : status'[m] = status[m]
  BY <1>1, <1>4, <1>5, TypeParts
<1>7. \A u \in Thread \ {t} : work[u].step \in UnderLock => Family(work[u].session) \cap Family(s) = {}
  BY <1>1, GroupsApart DEF UnderLock
<1>8. LifeTypeOK'
  BY <1>1, <1>2, <1>3, <1>6 DEF LifeTypeOK, Work, Step
<1>9. LockKept'
  BY <1>2, <1>3, <1>4, GroupTyped DEF LifeInv, LockKept, UnderLock, Group
<1>10. AdmissionClosed'
  BY <1>2, <1>4, <1>5, <1>6, <1>7 DEF LifeInv, AdmissionClosed, Archived, UnderLock
<1>11. GroupListed'
  BY <1>2, <1>4, <1>5, <1>6, <1>7 DEF LifeInv, GroupListed, Archived, Exists, UnderLock
<1>12. GroupJoined'
  <2>1. \A m \in AnySession : status[m] = "deleted" => status'[m] = "deleted"
    BY <1>5, <1>6 DEF Exists
  <2> QED BY <1>1, <1>2, <1>4, <2>1 DEF LifeInv, GroupJoined
<1>13. CopyHeld' /\ UploadKept' /\ AttachmentsKept'
  <2>1. \A m \in AnySession : /\ status[m] = "absent" => status'[m] = "absent"
                              /\ status[m] # "absent" => status'[m] # "absent"
                              /\ (status'[m] \in {"active", "archived", "expired"}) => Exists(m)
    BY <1>5, <1>6 DEF Exists
  <2> QED BY <1>1, <1>2, <1>4, <2>1, TypeParts DEF LifeInv, CopyHeld, UploadKept, AttachmentsKept, Exists
<1>14. SettledClosed' /\ ReleasedAtRest'
  BY <1>1, <1>6, TypeParts DEF LifeInv, SettledClosed, ReleasedAtRest, Archived
<1> QED BY <1>8, <1>9, <1>10, <1>11, <1>12, <1>13, <1>14 DEF LifeInv

-----------------------------------------------------------------------------
(* The janitor *)

LEMMA JanitorTyped == Janitor \in Thread
BY DEF Thread

LEMMA ListExpiredStep ==
  ASSUME LifeInv, ListExpired
  PROVE  LifeInv'
<1>1. /\ doomed' \subseteq Conversation /\ Goto(Janitor, "list") /\ LifeTypeOK
      /\ UNCHANGED <<status, turn, resources, files, uses, lock, blobs, settled, faults>>
  BY DEF ListExpired, LifeInv, Goto
<1>2. /\ work' \in [Thread -> Work] /\ work'[Janitor].step = "list"
      /\ \A u \in Thread \ {Janitor} : work'[u] = work[u]
  BY <1>1, TypeParts, JanitorTyped, Moves DEF Step
<1> QED BY <1>1, <1>2, JanitorTyped, ThreadRests, TypeParts

LEMMA PurgeNextStep ==
  ASSUME LifeInv, PurgeNext
  PROVE  LifeInv'
<1>1. /\ work[Janitor].step = "list" /\ LifeTypeOK
      /\ UNCHANGED <<status, turn, resources, files, uses, lock, blobs, settled, faults>>
  BY DEF PurgeNext, At, LifeInv
<1>2. PICK s \in doomed :
        /\ doomed' = doomed \ {s}
        /\ work' = IF Exists(s)
                     THEN [work EXCEPT ![Janitor] = [op |-> "purge", session |-> s, step |-> "lock",
                                                     group |-> {}]]
                     ELSE work
  BY DEF PurgeNext
<1> DEFINE w == [op |-> "purge", session |-> s, step |-> "lock", group |-> {}]
<1>3. w \in Work /\ w.step = "lock" /\ doomed' \subseteq Conversation
  BY <1>1, <1>2, TypeParts DEF Work, Step, AnySession
<1>4. work' = [work EXCEPT ![Janitor] = w] \/ work' = work
  BY <1>2
<1> HIDE DEF w
<1>5. /\ work' \in [Thread -> Work] /\ work'[Janitor].step \in {"lock", "list"}
      /\ \A u \in Thread \ {Janitor} : work'[u] = work[u]
  BY <1>1, <1>3, <1>4, TypeParts, JanitorTyped, Begins
<1> QED BY <1>1, <1>3, <1>5, JanitorTyped, ThreadRests, TypeParts

LEMMA ReclaimOrphansStep ==
  ASSUME LifeInv, ReclaimOrphans
  PROVE  LifeInv'
<1>1. /\ work[Janitor].step = "list" /\ blobs = NoThread /\ work' = [work EXCEPT ![Janitor] = Idle]
      /\ LifeTypeOK
      /\ UNCHANGED <<status, turn, resources, uses, lock, blobs, doomed, settled>>
  BY DEF ReclaimOrphans, BlobsFree, At, LifeInv
<1>2. /\ files' \subseteq files /\ faults' \subseteq Faults
      /\ \A s \in files : Exists(s) => s \in files'
  BY <1>1, TypeParts, FaultTyped DEF ReclaimOrphans, Orphan
<1>3. /\ work' \in [Thread -> Work] /\ work'[Janitor].step = "idle"
      /\ \A u \in Thread \ {Janitor} : work'[u] = work[u]
  BY <1>1, TypeParts, JanitorTyped, IdleTyped, Begins
<1>4. LifeTypeOK'
  BY <1>1, <1>2, <1>3 DEF LifeTypeOK, Work, Step
<1>5. LockKept' /\ AdmissionClosed' /\ GroupListed' /\ GroupJoined'
  BY <1>1, <1>3 DEF LifeInv, LockKept, UnderLock, Group, AdmissionClosed, GroupListed, GroupJoined,
                    Archived, Exists
<1>6. CopyHeld'
  <2>1. NoThread \notin Thread
    BY LifecycleAssumption DEF Thread
  <2> QED BY <1>1, <1>3, <2>1 DEF LifeInv, CopyHeld
<1>7. UploadKept' /\ AttachmentsKept'
  BY <1>1, <1>2, <1>3 DEF LifeInv, UploadKept, AttachmentsKept, Exists
<1>8. SettledClosed' /\ ReleasedAtRest'
  BY <1>1 DEF LifeInv, SettledClosed, ReleasedAtRest, Archived
<1> QED BY <1>4, <1>5, <1>6, <1>7, <1>8 DEF LifeInv

-----------------------------------------------------------------------------
(* Attachments and clones *)

LEMMA StoreFileStep ==
  ASSUME LifeInv, NEW t \in Client, NEW s \in AnySession, StoreFile(t, s)
  PROVE  LifeInv'
<1> DEFINE w == [op |-> "attach", session |-> s, step |-> "submit", group |-> {}]
<1>1. w \in Work /\ w.step = "submit" /\ w.session = s /\ t \in Thread
  BY DEF Work, Step, Thread
<1>2. /\ status[s] = "active" /\ files' = files \cup {s} /\ work' = [work EXCEPT ![t] = w] /\ LifeTypeOK
      /\ UNCHANGED <<status, turn, resources, uses, lock, blobs, doomed, settled, faults>>
  BY DEF StoreFile, LifeInv
<1> HIDE DEF w
<1>3. /\ work' \in [Thread -> Work] /\ work'[t].step = "submit" /\ work'[t].session = s
      /\ \A u \in Thread \ {t} : work'[u] = work[u]
  BY <1>1, <1>2, TypeParts, Begins
<1>4. LifeTypeOK'
  BY <1>2, <1>3 DEF LifeTypeOK, Work, Step
<1>5. LockKept' /\ AdmissionClosed' /\ GroupListed' /\ GroupJoined'
  BY <1>1, <1>2, <1>3 DEF LifeInv, LockKept, UnderLock, Group, AdmissionClosed, GroupListed, GroupJoined,
                          Archived, Exists
<1>6. CopyHeld' /\ UploadKept' /\ AttachmentsKept'
  BY <1>1, <1>2, <1>3 DEF LifeInv, CopyHeld, UploadKept, AttachmentsKept, Exists
<1>7. SettledClosed' /\ ReleasedAtRest'
  BY <1>2 DEF LifeInv, SettledClosed, ReleasedAtRest, Archived
<1> QED BY <1>4, <1>5, <1>6, <1>7 DEF LifeInv

LEMMA SubmitFileStep ==
  ASSUME LifeInv, NEW t \in Thread, SubmitFile(t)
  PROVE  LifeInv'
<1> DEFINE s == work[t].session
<1>1. /\ work[t].step = "submit" /\ Done(t) /\ LifeTypeOK
      /\ uses' = IF status[s] = "active" THEN uses \cup {s} ELSE uses
      /\ UNCHANGED <<status, turn, resources, files, lock, blobs, doomed, settled, faults>>
  BY DEF SubmitFile, MayBegin, At, LifeInv
<1>2. /\ work' \in [Thread -> Work] /\ work'[t].step \in {"list", "answered"}
      /\ \A u \in Thread \ {t} : work'[u] = work[u]
  BY <1>1, TypeParts, Ends
<1>3. s \in AnySession
  BY <1>1, TypeParts DEF Work
<1>4. LifeTypeOK'
  BY <1>1, <1>2, <1>3 DEF LifeTypeOK, Work, Step
<1>5. LockKept' /\ AdmissionClosed' /\ GroupListed' /\ GroupJoined'
  BY <1>1, <1>2 DEF LifeInv, LockKept, UnderLock, Group, AdmissionClosed, GroupListed, GroupJoined,
                    Archived, Exists
<1>6. CopyHeld' /\ UploadKept' /\ AttachmentsKept'
  BY <1>1, <1>2 DEF LifeInv, CopyHeld, UploadKept, AttachmentsKept, Exists
<1>7. SettledClosed' /\ ReleasedAtRest'
  BY <1>1 DEF LifeInv, SettledClosed, ReleasedAtRest, Archived
<1> QED BY <1>4, <1>5, <1>6, <1>7 DEF LifeInv

LEMMA CopyFilesStep ==
  ASSUME LifeInv, NEW t \in Client, NEW s \in AnySession, NEW target \in Conversation,
         CopyFiles(t, s, target)
  PROVE  LifeInv'
<1> DEFINE w == [op |-> "clone", session |-> target, step |-> "insert", group |-> {s}]
<1>1. w \in Work /\ w.step = "insert" /\ w.session = target /\ t \in Thread
  BY DEF Work, Step, Thread, AnySession
<1>2. /\ blobs = NoThread /\ blobs' = t /\ status[target] = "absent" /\ target \notin files
      /\ files' = files \cup {target} /\ work' = [work EXCEPT ![t] = w] /\ LifeTypeOK
      /\ UNCHANGED <<status, turn, resources, uses, lock, doomed, settled, faults>>
  BY DEF CopyFiles, HoldBlobs, LifeInv
<1> HIDE DEF w
<1>3. /\ work' \in [Thread -> Work] /\ work'[t].step = "insert" /\ work'[t].session = target
      /\ \A u \in Thread \ {t} : work'[u] = work[u]
  BY <1>1, <1>2, TypeParts, Begins
<1>4. LifeTypeOK'
  BY <1>1, <1>2, <1>3 DEF LifeTypeOK, Work, Step, AnySession
<1>5. LockKept' /\ AdmissionClosed' /\ GroupListed' /\ GroupJoined'
  BY <1>1, <1>2, <1>3 DEF LifeInv, LockKept, UnderLock, Group, AdmissionClosed, GroupListed, GroupJoined,
                          Archived, Exists
<1>6. CopyHeld'
  <2>1. NoThread \notin Thread
    BY LifecycleAssumption DEF Thread
  <2> QED BY <1>1, <1>2, <1>3, <2>1 DEF LifeInv, CopyHeld
<1>7. UploadKept' /\ AttachmentsKept'
  BY <1>1, <1>2, <1>3 DEF LifeInv, UploadKept, AttachmentsKept, Exists
<1>8. SettledClosed' /\ ReleasedAtRest'
  BY <1>2 DEF LifeInv, SettledClosed, ReleasedAtRest, Archived
<1> QED BY <1>4, <1>5, <1>6, <1>7, <1>8 DEF LifeInv

\* The clone is inserted, or its copies are removed: no other thread has any.
LEMMA InsertCloneStep ==
  ASSUME LifeInv, NEW t \in Thread, InsertClone(t)
  PROVE  LifeInv'
<1> DEFINE target == work[t].session
<1>1. /\ work[t].step = "insert" /\ blobs' = NoThread /\ Done(t) /\ LifeTypeOK
      /\ UNCHANGED <<turn, resources, lock, doomed, settled>>
  BY DEF InsertClone, At, LifeInv
<1>2. /\ blobs = t /\ target \in Conversation \cap files /\ status[target] = "absent"
      /\ \A u \in Thread \ {t} : work[u].step # "insert"
  BY <1>1 DEF LifeInv, CopyHeld
<1>3. /\ work' \in [Thread -> Work] /\ work'[t].step \in {"list", "answered"}
      /\ \A u \in Thread \ {t} : work'[u] = work[u]
  BY <1>1, TypeParts, Ends
<1>4. \A u \in Thread : /\ work[u].session \in AnySession /\ work[u].group \subseteq AnySession
                        /\ Family(work[u].session) \subseteq AnySession
  BY <1>1, TypeParts, FamilyTyped DEF Work
<1>5. target \in AnySession
  BY <1>4
<1>6. LockKept'
  BY <1>1, <1>3 DEF LifeInv, LockKept, Group, UnderLock
<1>7. CopyHeld'
  BY <1>2, <1>3 DEF CopyHeld
<1>8. CASE /\ status' = [status EXCEPT ![target] = "active"] /\ uses' = uses \cup {target}
           /\ UNCHANGED <<files, faults>>
  <2>1. /\ status' \in [AnySession -> {"absent", "active", "archived", "expired", "deleted"}]
        /\ status'[target] = "active" /\ \A m \in AnySession \ {target} : status'[m] = status[m]
    BY <1>1, <1>5, <1>8, TypeParts
  <2>2. LifeTypeOK'
    BY <1>1, <1>3, <1>5, <1>8, <2>1 DEF LifeTypeOK, Work, Step
  <2>3. \A u \in Thread : work[u].step \in {"cancel", "wait", "release", "remove"} =>
          target \notin Family(work[u].session)
    <3>1. target \notin Sub
      BY <1>2, LifecycleAssumption
    <3>2. \A s \in AnySession : target \in Family(s) => s = target
      BY <3>1 DEF Family
    <3> QED BY <1>2, <1>4, <3>2 DEF LifeInv, AdmissionClosed, Archived
  <2>4. \A u \in Thread : work[u].session \in Family(work[u].session)
    BY <1>4, FamilyTyped
  <2>5. AdmissionClosed'
    BY <1>3, <1>4, <2>1, <2>3, <2>4 DEF LifeInv, AdmissionClosed, Archived
  <2>6. GroupListed'
    BY <1>3, <1>4, <2>1, <2>3 DEF LifeInv, GroupListed, Archived, Exists
  <2>7. GroupJoined'
    BY <1>1, <1>2, <1>3, <1>4, <2>1 DEF LifeInv, GroupJoined
  <2>8. UploadKept' /\ AttachmentsKept'
    BY <1>2, <1>3, <1>4, <1>5, <1>8, <2>1, TypeParts DEF LifeInv, UploadKept, AttachmentsKept, Exists
  <2>9. SettledClosed' /\ ReleasedAtRest'
    BY <1>1, <1>2, <2>1, TypeParts DEF LifeInv, SettledClosed, ReleasedAtRest, Archived
  <2> QED BY <1>6, <1>7, <2>2, <2>5, <2>6, <2>7, <2>8, <2>9 DEF LifeInv
<1>9. CASE files' = files \ {target} /\ faults' \subseteq Faults /\ UNCHANGED <<status, uses>>
  <2>1. LifeTypeOK'
    BY <1>1, <1>3, <1>9 DEF LifeTypeOK, Work, Step
  <2>2. AdmissionClosed' /\ GroupListed' /\ GroupJoined'
    BY <1>1, <1>3, <1>9 DEF LifeInv, AdmissionClosed, GroupListed, GroupJoined, Archived, Exists
  <2>3. UploadKept' /\ AttachmentsKept'
    BY <1>2, <1>3, <1>9 DEF LifeInv, UploadKept, AttachmentsKept, Exists
  <2>4. SettledClosed' /\ ReleasedAtRest'
    BY <1>1, <1>9 DEF LifeInv, SettledClosed, ReleasedAtRest, Archived
  <2> QED BY <1>6, <1>7, <2>1, <2>2, <2>3, <2>4 DEF LifeInv
<1>10. (faults' = faults \/ Fault) => faults' \subseteq Faults
  BY <1>1, TypeParts, FaultTyped
<1> QED BY <1>8, <1>9, <1>10 DEF InsertClone

LEMMA DaemonDiesStep ==
  ASSUME LifeInv, DaemonDies
  PROVE  LifeInv'
<1>1. /\ turn' = [s \in AnySession |-> "none"] /\ resources' = {} /\ blobs' = NoThread /\ doomed' = {}
      /\ lock' = [g \in Conversation |-> NoThread] /\ Fault /\ LifeTypeOK
      /\ work' = [t \in Thread |-> IF work[t] = Idle \/ t = Janitor THEN Idle ELSE Rest(t)]
      /\ UNCHANGED <<status, files, uses, settled>>
  BY DEF DaemonDies, LifeInv
<1>2. work' \in [Thread -> Work] /\ \A t \in Thread : work'[t].step \in {"idle", "list", "answered"}
  BY <1>1, IdleTyped, RestTyped
<1>3. LifeTypeOK'
  BY <1>1, <1>2, TypeParts, FaultTyped DEF LifeTypeOK, Work, Step
<1>4. LockKept' /\ AdmissionClosed' /\ GroupListed' /\ GroupJoined'
  BY <1>2 DEF LockKept, UnderLock, AdmissionClosed, GroupListed, GroupJoined
<1>5. CopyHeld' /\ UploadKept' /\ AttachmentsKept'
  BY <1>1, <1>2 DEF LifeInv, CopyHeld, UploadKept, AttachmentsKept, Exists
<1>6. SettledClosed' /\ ReleasedAtRest'
  BY <1>1, TypeParts DEF LifeInv, SettledClosed, ReleasedAtRest, Archived
<1> QED BY <1>3, <1>4, <1>5, <1>6 DEF LifeInv

-----------------------------------------------------------------------------
(* The invariant and what follows from it *)

LEMMA LifeInvInit == LifeInit => LifeInv
<1> SUFFICES ASSUME LifeInit PROVE LifeInv
  OBVIOUS
<1>1. Owner \in AnySession
  BY LifecycleAssumption DEF AnySession
<1>2. work \in [Thread -> Work] /\ \A t \in Thread : work[t].step = "idle"
  BY IdleTyped DEF LifeInit
<1>3. status[Owner] = "active"
  BY <1>1 DEF LifeInit
<1>4. LifeTypeOK
  BY <1>1, <1>2, TypeParts DEF LifeInit
<1>5. LockKept /\ AdmissionClosed /\ GroupListed /\ GroupJoined /\ CopyHeld
  BY <1>2 DEF LockKept, UnderLock, AdmissionClosed, GroupListed, GroupJoined, CopyHeld
<1>6. UploadKept /\ SettledClosed /\ ReleasedAtRest /\ AttachmentsKept
  BY <1>2, <1>3 DEF LifeInit, UploadKept, SettledClosed, ReleasedAtRest, AttachmentsKept
<1> QED BY <1>4, <1>5, <1>6 DEF LifeInv

LEMMA LifeInvNext == LifeInv /\ [LifeNext]_lifeVars => LifeInv'
<1> SUFFICES ASSUME LifeInv, [LifeNext]_lifeVars PROVE LifeInv'
  OBVIOUS
<1>1. CASE \E s \in AnySession : BeginTurn(s) \/ ToolWorks(s) \/ FinishTurn(s) \/ Expire(s)
  BY <1>1, BeginTurnStep, ToolWorksStep, FinishTurnStep, ExpireStep
<1>2. CASE \E c \in Sub : DispatchChild(c)
  BY <1>2, DispatchChildStep
<1>3. CASE \E t \in Client, s \in AnySession :
             \/ \E op \in {"archive", "restore", "purge"} : Request(t, op, s)
             \/ StoreFile(t, s)
             \/ \E target \in Conversation : CopyFiles(t, s, target)
  BY <1>3, RequestStep, StoreFileStep, CopyFilesStep
<1>4. CASE \E t \in Thread : LockGroup(t) \/ Refuse(t) \/ Interrupted(t)
  BY <1>4, LockGroupStep, RefuseStep, InterruptedStep
<1>5. CASE \E t \in Thread : CloseAdmission(t) \/ CancelWork(t) \/ Join(t)
  BY <1>5, CloseAdmissionStep, CancelWorkStep, JoinStep
<1>6. CASE \E t \in Thread : ReleaseGroup(t) \/ DeleteRows(t) \/ RemoveFiles(t) \/ Reopen(t)
  BY <1>6, ReleaseGroupStep, DeleteRowsStep, RemoveFilesStep, ReopenStep
<1>7. CASE \E t \in Thread : SubmitFile(t) \/ InsertClone(t)
  BY <1>7, SubmitFileStep, InsertCloneStep
<1>8. CASE ListExpired \/ PurgeNext \/ ReclaimOrphans
  BY <1>8, ListExpiredStep, PurgeNextStep, ReclaimOrphansStep
<1>9. CASE DaemonDies
  BY <1>9, DaemonDiesStep
<1>10. CASE UNCHANGED lifeVars
  BY <1>10 DEF lifeVars, LifeInv, LifeTypeOK, LockKept, AdmissionClosed, GroupListed, GroupJoined, CopyHeld,
               UploadKept, SettledClosed, ReleasedAtRest, AttachmentsKept, Exists, Archived, Group
<1> QED BY <1>1, <1>2, <1>3, <1>4, <1>5, <1>6, <1>7, <1>8, <1>9, <1>10 DEF LifeNext

\* LifeInv is an invariant.
THEOREM LifecycleInvariant == LifeSpec => []LifeInv
<1>1. LifeInit => LifeInv
  BY LifeInvInit
<1>2. LifeInv /\ [LifeNext]_lifeVars => LifeInv'
  BY LifeInvNext
<1> QED BY <1>1, <1>2, PTL DEF LifeSpec

\* Types: what a request works on stays a session, a lock is held by a request or nobody.
THEOREM LifecycleTypeCorrect == LifeSpec => []LifeTypeOK
<1>1. LifeInv => LifeTypeOK
  BY DEF LifeInv
<1> QED BY <1>1, LifecycleInvariant, PTL

\* After an archive or a deletion has succeeded nothing of the group runs or holds
\* resources, until it is restored (server.go:820, :867).
THEOREM ReleasedStaysAtRest == LifeSpec => []ReleasedAtRest
<1>1. LifeInv => ReleasedAtRest
  BY DEF LifeInv
<1> QED BY <1>1, LifecycleInvariant, PTL

\* The attachments of a session are on disk as long as the session exists, whatever the
\* janitor, a deletion, a clone or a crash does meanwhile (attachments.go:276).
THEOREM AttachmentsStay == LifeSpec => []AttachmentsKept
<1>1. LifeInv => AttachmentsKept
  BY DEF LifeInv
<1> QED BY <1>1, LifecycleInvariant, PTL

=============================================================================
