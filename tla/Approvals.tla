------------------------------ MODULE Approvals ------------------------------
(***************************************************************************)
(* Consent in one session: the prompts of a turn's tool calls, the clients *)
(* that approve or deny them, and the leases an approval leaves behind     *)
(* (internal/engine/approval.go, command_approvals.go, project_access.go). *)
(*                                                                         *)
(* Engine.mu covers each look at the memory, but not a whole decision: a   *)
(* client claims a prompt, reads the store, completes the prompt and only  *)
(* then answers the tool call.  Meanwhile the turn is cancelled, the       *)
(* permissions are revoked, the directories are edited or the session      *)
(* moves to another project.  What ties a decision to the permissions it   *)
(* was asked under is the identity of two objects in memory, which a       *)
(* revocation drops: projectAccessState and commandApprovalState.          *)
(*                                                                         *)
(* A prompt asks for directories ("capability") or for a command           *)
(* ("command"); every prompt asks for a directory of its own, so a prompt  *)
(* stands for what it asks, and all commands share one grant key.          *)
(***************************************************************************)
EXTENDS Naturals

CONSTANTS
  Prompt,    \* tool calls that need consent
  Project,   \* projects the session may be in
  MaxTurns,  \* bound: turns of the session
  MaxChanges \* bound: revocations, edits, moves and failing store calls

ASSUME ConsentAssumption == Project # {} /\ MaxTurns \in Nat /\ MaxChanges \in Nat

VARIABLES
  round,     \* the turn of the session: its number and status
  project,   \* sessions.project_id
  moving,    \* a PATCH has changed the project and not yet revoked
  access,    \* sessionProjectAccess: identity (0: none) and project
  commands,  \* commandGrants: identity, what it was made for, and its leases
  prompt,    \* each tool call: progress, kind, and the identities it was asked under
  listed,    \* Engine.approvals
  resolving, \* claimed by a client
  abandoned, \* the tool call has left while a client resolved its prompt
  claim,     \* what each resolving client is about to do
  sent,      \* the decision in the channel of the prompt
  saved,     \* directory grants stored with the session
  lent,      \* turnProjectAccess: directories of the running turn, and their project
  issued,    \* identities handed out
  revoked,   \* history: prompts whose permissions were revoked after they were asked
  late,      \* history: those of them whose command had passed its check by then
  changes    \* bound

consentVars == <<round, project, moving, access, commands, prompt, listed, resolving, abandoned,
                 claim, sent, saved, lent, issued, revoked, late, changes>>

NoAccess   == [id |-> 0, project |-> CHOOSE q \in Project : TRUE]
NoCommands == [id |-> 0, for |-> <<>>, project |-> NoAccess.project, leases |-> {}]
Decision   == {"session", "turn", "deny"}

ConsentTypeOK ==
  /\ round \in [n : 0..MaxTurns, status : {"ended", "running", "cancelled"}]
  /\ project \in Project
  /\ moving \in BOOLEAN
  /\ access \in [id : Nat, project : Project]
  /\ commands \in [id : Nat, for : {<<>>} \cup (Project \X SUBSET Prompt), project : Project,
                   leases : SUBSET Prompt]
  /\ prompt \in [Prompt -> [step : {"new", "asked", "waiting", "cleared", "ready", "ran", "over"},
                            kind : {"capability", "command"}, round : 0..MaxTurns,
                            under : Nat, for : {<<>>} \cup (Project \X SUBSET Prompt),
                            project : Project]]
  /\ listed \subseteq Prompt /\ resolving \subseteq Prompt /\ abandoned \subseteq Prompt
  /\ claim \in [Prompt -> Decision \cup {"none", "approved", "denied"}]
  /\ sent \in [Prompt -> {"none", "approved", "denied"}]
  /\ saved \subseteq Prompt
  /\ lent \in [project : Project, dirs : SUBSET Prompt]
  /\ issued \in Nat
  /\ revoked \subseteq Prompt /\ late \subseteq Prompt
  /\ changes \in 0..MaxChanges

Change == changes < MaxChanges /\ changes' = changes + 1

\* The tool calls of a turn run one after the other.
NoneOpen == \A p \in Prompt : prompt[p].round = round.n =>
          prompt[p].step \notin {"asked", "waiting", "cleared", "ready"}

\* commandApprovalContext: the project and the directories of the turn.
Surroundings == <<project, saved \cup (IF lent.project = project THEN lent.dirs ELSE {})>>

-----------------------------------------------------------------------------
(* The turn and its tool calls. *)

BeginRound ==
  /\ round.status = "ended" /\ round.n < MaxTurns
  /\ round' = [n |-> round.n + 1, status |-> "running"]
  /\ UNCHANGED <<project, moving, access, commands, prompt, listed, resolving, abandoned,
                 claim, sent, saved, lent, issued, revoked, late, changes>>

CancelRound ==
  /\ round.status = "running"
  /\ round' = [round EXCEPT !.status = "cancelled"]
  /\ UNCHANGED <<project, moving, access, commands, prompt, listed, resolving, abandoned,
                 claim, sent, saved, lent, issued, revoked, late, changes>>

\* clearRunningLocked: the directories lent to the turn end with it.
EndRound ==
  /\ round.status # "ended" /\ NoneOpen
  /\ round' = [round EXCEPT !.status = "ended"]
  /\ lent' = [lent EXCEPT !.dirs = {}]
  /\ UNCHANGED <<project, moving, access, commands, prompt, listed, resolving, abandoned,
                 claim, sent, saved, issued, revoked, late, changes>>

\* requestCapabilityApproval takes the identity of the current access, made anew
\* when there is none or the session is in another project.
AskCapability(p) ==
  /\ round.status = "running" /\ NoneOpen /\ prompt[p].step = "new"
  /\ access' = IF access.id = 0 \/ access.project # project
                 THEN [id |-> issued + 1, project |-> project] ELSE access
  /\ issued' = IF access' = access THEN issued ELSE issued + 1
  /\ prompt' = [prompt EXCEPT ![p] = [step |-> "asked", kind |-> "capability", round |-> round.n,
                                      under |-> access'.id, for |-> <<>>, project |-> project]]
  /\ UNCHANGED <<round, project, moving, commands, listed, resolving, abandoned, claim, sent,
                 saved, lent, revoked, late, changes>>

\* executeAllowedTool for a command that needs consent: the identity of the
\* current grants, made anew when they were made for something else.  A lease
\* among them clears the command without a prompt.
AskCommand(p) ==
  /\ round.status = "running" /\ NoneOpen /\ prompt[p].step = "new"
  /\ commands' = IF commands.id = 0 \/ commands.for # Surroundings
                   THEN [id |-> issued + 1, for |-> Surroundings, project |-> project,
                         leases |-> {}]
                   ELSE commands
  /\ issued' = IF commands' = commands THEN issued ELSE issued + 1
  /\ prompt' = [prompt EXCEPT ![p] =
                  [step |-> IF commands'.leases # {} THEN "cleared" ELSE "asked",
                   kind |-> "command", round |-> round.n, under |-> commands'.id,
                   for |-> Surroundings, project |-> project]]
  /\ UNCHANGED <<round, project, moving, access, listed, resolving, abandoned, claim, sent,
                 saved, lent, revoked, late, changes>>

\* The prompt is listed and announced.
List(p) ==
  /\ prompt[p].step = "asked"
  /\ prompt' = [prompt EXCEPT ![p].step = "waiting"]
  /\ listed' = listed \cup {p}
  /\ UNCHANGED <<round, project, moving, access, commands, resolving, abandoned, claim, sent,
                 saved, lent, issued, revoked, late, changes>>

\* The select of the tool call: the decision is there.
Receive(p) ==
  /\ prompt[p].step = "waiting" /\ sent[p] # "none"
  /\ prompt' = [prompt EXCEPT ![p].step =
                  IF sent[p] = "approved" /\ prompt[p].kind = "command" THEN "cleared" ELSE "over"]
  /\ UNCHANGED <<round, project, moving, access, commands, listed, resolving, abandoned, claim,
                 sent, saved, lent, issued, revoked, late, changes>>

\* abandonPendingApproval: the turn was cancelled.
Abandon(p) ==
  /\ prompt[p].step = "waiting" /\ round.status = "cancelled"
  /\ prompt' = [prompt EXCEPT ![p].step = "over"]
  /\ listed' = IF p \in resolving THEN listed ELSE listed \ {p}
  /\ abandoned' = IF p \in listed \cap resolving THEN abandoned \cup {p} ELSE abandoned
  /\ UNCHANGED <<round, project, moving, access, commands, resolving, claim, sent, saved, lent,
                 issued, revoked, late, changes>>

\* commandApprovalStillCurrent: the last look at the permissions.
SameSurroundings(p) == prompt[p].for = Surroundings
StillCurrent(p)     == prompt[p].for = Surroundings /\ commands.id = prompt[p].under

CheckCommand(p) ==
  /\ prompt[p].step = "cleared"
  /\ prompt' = [prompt EXCEPT ![p].step = IF StillCurrent(p) THEN "ready" ELSE "over"]
  /\ UNCHANGED <<round, project, moving, access, commands, listed, resolving, abandoned, claim,
                 sent, saved, lent, issued, revoked, late, changes>>

\* callTrackedTool: the keys of the directories may be long in coming, for as long as
\* other conversations work there; then the command is dispatched, unless the turn
\* was cancelled.
RunCommand(p) ==
  /\ prompt[p].step = "ready"
  /\ prompt' = [prompt EXCEPT ![p].step = IF round.status = "cancelled" THEN "over" ELSE "ran"]
  /\ UNCHANGED <<round, project, moving, access, commands, listed, resolving, abandoned, claim,
                 sent, saved, lent, issued, revoked, late, changes>>

-----------------------------------------------------------------------------
(* The clients: ApproveApprovalWithSession and DenyApproval. *)

ClaimPrompt(p) ==
  /\ p \in listed \ resolving
  /\ resolving' = resolving \cup {p}
  /\ \E d \in Decision : claim' = [claim EXCEPT ![p] = d]
  /\ UNCHANGED <<round, project, moving, access, commands, prompt, listed, abandoned, sent, saved,
                 lent, issued, revoked, late, changes>>

\* releasePendingApprovalClaim: a prompt whose tool call has left goes with it.
KeepListed(p) == listed
AfterRelease(p) == IF p \in abandoned THEN listed \ {p} ELSE listed

ReleaseClaim(p) ==
  /\ Change
  /\ claim[p] \in Decision
  /\ claim' = [claim EXCEPT ![p] = "none"]
  /\ listed' = AfterRelease(p)
  /\ resolving' = IF p \in abandoned THEN resolving ELSE resolving \ {p}
  /\ UNCHANGED <<round, project, moving, access, commands, prompt, abandoned, sent, saved, lent,
                 issued, revoked, late>>

\* completePendingApproval: the conditions under which directories are granted.
SameProject(p) == p \notin abandoned /\ project = prompt[p].project
SameAccess(p)  == access.id = prompt[p].under /\ project = prompt[p].project
MayLend(p) ==
  /\ access.id = prompt[p].under
  /\ p \notin abandoned
  /\ project = prompt[p].project

Lend(p) ==
  \/ /\ claim[p] = "session"
     /\ saved' = saved \cup {p}
     /\ UNCHANGED lent
  \/ /\ claim[p] = "turn"
     /\ lent' = [project |-> project, dirs |-> lent.dirs \cup {p}]
     /\ UNCHANGED saved

\* The decision is completed under the lock, and sent after it; a prompt whose
\* permissions have changed is denied on the spot.
CompleteCapability(p) ==
  /\ claim[p] \in {"session", "turn"} /\ prompt[p].kind = "capability"
  /\ listed' = listed \ {p}
  /\ IF MayLend(p)
       THEN /\ Lend(p)
            /\ claim' = [claim EXCEPT ![p] = "approved"]
            /\ UNCHANGED sent
       ELSE /\ claim' = [claim EXCEPT ![p] = "none"]
            /\ sent' = [sent EXCEPT ![p] = "denied"]
            /\ UNCHANGED <<saved, lent>>
  /\ UNCHANGED <<round, project, moving, access, commands, prompt, resolving, abandoned,
                 issued, revoked, late, changes>>

CompleteCommand(p) ==
  /\ claim[p] \in {"session", "turn"} /\ prompt[p].kind = "command"
  /\ listed' = listed \ {p}
  /\ claim' = [claim EXCEPT ![p] = "approved"]
  /\ commands' = IF claim[p] = "session" /\ commands.id = prompt[p].under
                   THEN [commands EXCEPT !.leases = @ \cup {p}] ELSE commands
  /\ UNCHANGED <<round, project, moving, access, prompt, resolving, abandoned, sent, saved, lent,
                 issued, revoked, late, changes>>

CompleteDenial(p) ==
  /\ claim[p] = "deny"
  /\ listed' = listed \ {p}
  /\ claim' = [claim EXCEPT ![p] = "denied"]
  /\ UNCHANGED <<round, project, moving, access, commands, prompt, resolving, abandoned, sent,
                 saved, lent, issued, revoked, late, changes>>

SendDecision(p) ==
  /\ claim[p] \in {"approved", "denied"}
  /\ sent' = [sent EXCEPT ![p] = claim[p]]
  /\ claim' = [claim EXCEPT ![p] = "none"]
  /\ UNCHANGED <<round, project, moving, access, commands, prompt, listed, resolving, abandoned,
                 saved, lent, issued, revoked, late, changes>>

-----------------------------------------------------------------------------
(* Revocation. *)

Asked == {p \in Prompt : prompt[p].step # "new"}

Revokes(ps) ==
  /\ revoked' = revoked \cup ps
  /\ late' = late \cup {p \in ps : prompt[p].step = "ready"}

\* RevokeCommandApprovals: both identities and what was lent to the turn.
DropPermissions ==
  /\ access' = NoAccess
  /\ commands' = NoCommands
  /\ lent' = [lent EXCEPT !.dirs = {}]
  /\ Revokes(Asked)

Revoke ==
  /\ Change
  /\ DropPermissions
  /\ UNCHANGED <<round, project, moving, prompt, listed, resolving, abandoned, claim, sent, saved,
                 issued>>

\* RevokeProjectCommandApprovals: the roots or the approval mode of a project changed.
RevokeProject(q) ==
  /\ Change
  /\ access' = IF access.project = q THEN NoAccess ELSE access
  /\ commands' = IF commands.project = q THEN NoCommands ELSE commands
  /\ lent' = IF lent.project = q THEN [lent EXCEPT !.dirs = {}] ELSE lent
  /\ Revokes({p \in Asked : prompt[p].project = q})
  /\ UNCHANGED <<round, project, moving, prompt, listed, resolving, abandoned, claim, sent, saved,
                 issued>>

\* SetSessionDirectories: what is lent to the turn stays.
SetDirectories ==
  /\ Change
  /\ saved' \in SUBSET saved
  /\ access' = NoAccess
  /\ commands' = NoCommands
  /\ Revokes(Asked)
  /\ UNCHANGED <<round, project, moving, prompt, listed, resolving, abandoned, claim, sent, lent,
                 issued>>

\* patchSession: the project changes in the store, then the permissions are revoked.
MoveSession ==
  /\ Change
  /\ ~moving
  /\ project' \in Project \ {project}
  /\ moving' = TRUE
  /\ UNCHANGED <<round, access, commands, prompt, listed, resolving, abandoned, claim, sent, saved,
                 lent, issued, revoked, late>>

MoveRevokes ==
  /\ moving
  /\ moving' = FALSE
  /\ DropPermissions
  /\ UNCHANGED <<round, project, prompt, listed, resolving, abandoned, claim, sent, saved, issued,
                 changes>>

-----------------------------------------------------------------------------
ConsentInit ==
  /\ round = [n |-> 0, status |-> "ended"]
  /\ project = NoAccess.project
  /\ moving = FALSE
  /\ access = NoAccess /\ commands = NoCommands
  /\ prompt = [p \in Prompt |-> [step |-> "new", kind |-> "command", round |-> 0, under |-> 0,
                                 for |-> <<>>, project |-> NoAccess.project]]
  /\ listed = {} /\ resolving = {} /\ abandoned = {}
  /\ claim = [p \in Prompt |-> "none"]
  /\ sent = [p \in Prompt |-> "none"]
  /\ saved = {} /\ lent = [project |-> NoAccess.project, dirs |-> {}]
  /\ issued = 0 /\ revoked = {} /\ late = {} /\ changes = 0

ConsentNext ==
  \/ BeginRound \/ CancelRound \/ EndRound
  \/ \E p \in Prompt :
       \/ AskCapability(p) \/ AskCommand(p) \/ List(p) \/ Receive(p) \/ Abandon(p)
       \/ CheckCommand(p) \/ RunCommand(p) \/ ClaimPrompt(p) \/ ReleaseClaim(p) \/ SendDecision(p)
       \/ CompleteCapability(p) \/ CompleteCommand(p) \/ CompleteDenial(p)
  \/ Revoke \/ SetDirectories \/ MoveSession \/ MoveRevokes
  \/ \E q \in Project : RevokeProject(q)

ConsentSpec == ConsentInit /\ [][ConsentNext]_consentVars

-----------------------------------------------------------------------------
(* Properties. *)

\* A prompt on the screen, or in the hands of a client, cannot bring back what a
\* revocation took away: no lease is granted from a prompt asked before it.
Granted == saved \cup lent.dirs \cup commands.leases
RevokedPromptGrantsNothing == [][(Granted' \ Granted) \cap revoked = {}]_consentVars

\* Directories lent to a turn are gone when it ends: a client that still resolves a
\* prompt of the turn does not lend them to nobody, or to the next turn.
LeaseEndsWithTurn ==
  \A p \in lent.dirs : round.status # "ended" /\ prompt[p].round = round.n

\* No prompt is left behind: a tool call that waits can be answered, and once the
\* tool call and its client have left, the prompt is gone.
PromptsSettled ==
  \A p \in Prompt :
    /\ (prompt[p].step = "waiting") => (p \in listed \/ claim[p] # "none" \/ sent[p] # "none")
    /\ (p \in listed) => (prompt[p].step = "waiting" \/ claim[p] # "none")

\* A command whose permissions were revoked after it was asked for is not dispatched,
\* unless it had passed its last check by then and was waiting for the keys of its
\* directories: what is revoked during that wait is not looked at again.
RevokedCommandStays ==
  [][\A p \in Prompt :
       (prompt'[p].step = "ran" /\ prompt[p].step # "ran")
         => (p \notin revoked \/ p \in late)]_consentVars
=============================================================================
