--------------------------- MODULE ToolLocksProofs ---------------------------
(***************************************************************************)
(* Proofs about ToolLocks, for every number of sessions and directories.   *)
(*                                                                         *)
(* The argument is an inventory of the tokens: a key is in its channel,    *)
(* with one tool call, or kept for one background process, and nowhere     *)
(* twice.  A listed process works on keys that are kept for it, so nobody  *)
(* else has them.                                                          *)
(***************************************************************************)
EXTENDS ToolLocks, TLAPS

\* No token is in two places.
TokensApart ==
  \A s, t \in Lane :
    /\ (s # t) => tool[s].holds \cap tool[t].holds = {}
    /\ (s # t) => process[s].keeps \cap process[t].keeps = {}
    /\ tool[s].holds \cap process[t].keeps = {}
    /\ tool[s].holds \cap token = {}
    /\ process[s].keeps \cap token = {}

\* A process works on what is kept for it.
WorksKept ==
  \A s \in Lane : /\ process[s].works \subseteq process[s].keeps
                  /\ ~process[s].listed => process[s].works = {}

\* No token is lost.
TokensKept ==
  \A k \in Key : k \in token \/ \E s \in Lane : k \in tool[s].holds \cup process[s].keeps

\* A call that is not open holds nothing, and one that runs has all it needs.
CallShape ==
  \A s \in Lane :
    /\ (tool[s].step = "idle") => tool[s].holds = {}
    /\ (tool[s].step = "run") => tool[s].needs = {}
    /\ (tool[s].step # "idle" /\ tool[s].kind = "command") =>
         Workspace(s) \in tool[s].needs \cup tool[s].holds
    /\ (tool[s].step # "idle" /\ Lives(s)) => tool[s].kind # "clear"

\* What is kept for a process includes the workspace of its session.
ProcessShape ==
  \A s \in Lane : (process[s].keeps # {}) => Workspace(s) \in process[s].keeps

LockInv == LockTypeOK /\ TokensApart /\ WorksKept /\ TokensKept /\ CallShape /\ ProcessShape

-----------------------------------------------------------------------------
Call == [step : {"idle", "acquire", "run"}, kind : {"edit", "command", "clear"},
         needs : SUBSET Key, holds : SUBSET Key, cancelled : BOOLEAN]
Kept == [listed : BOOLEAN, works : SUBSET Key, keeps : SUBSET Key]

\* The numbers of the keys: directories come before workspaces.
LEMMA KeyFacts ==
  /\ \A s \in Lane : Workspace(s) \in Key
  /\ Dir \subseteq Key
BY LockAssumption DEF Lane, Key, Workspace, Dir

\* Initially every token is in its channel.
LEMMA LockInitInv == LockInit => LockInv
BY DEF LockInit, LockInv, LockTypeOK, TokensApart, WorksKept, TokensKept, CallShape, ProcessShape,
       NoCall, Lives

\* The call of session s, and nothing else, is replaced by c.
LEMMA OneCall ==
  ASSUME LockTypeOK, NEW s \in Lane, NEW c \in Call, tool' = [tool EXCEPT ![s] = c]
  PROVE  tool' \in [Lane -> Call] /\ tool'[s] = c /\ \A t \in Lane \ {s} : tool'[t] = tool[t]
BY DEF LockTypeOK, Call

LEMMA NeedStep ==
  ASSUME LockInv, NEW s \in Lane, Need(s)
  PROVE  LockInv'
<1>1. PICK kind \in {"edit", "command", "clear"}, dirs \in SUBSET Dir :
        /\ (kind = "clear") => (dirs = {} /\ ~Lives(s))
        /\ tool' = [tool EXCEPT ![s] =
             [step |-> "acquire", kind |-> kind,
              needs |-> dirs \cup (IF kind = "edit" THEN {} ELSE {Workspace(s)}),
              holds |-> {}, cancelled |-> FALSE]]
  BY DEF Need
<1> DEFINE c == [step |-> "acquire", kind |-> kind,
              needs |-> dirs \cup (IF kind = "edit" THEN {} ELSE {Workspace(s)}),
              holds |-> {}, cancelled |-> FALSE]
<1>2. c \in Call
  BY KeyFacts DEF Call
<1>3. tool' \in [Lane -> Call] /\ tool'[s] = c /\ \A t \in Lane \ {s} : tool'[t] = tool[t]
  BY <1>1, <1>2, OneCall DEF LockInv
<1>4. tool[s].holds = {} /\ UNCHANGED <<process, orphans, token>>
  BY DEF LockInv, CallShape, Need, NoCallOpen
<1>5. \A t \in Lane : tool'[t].holds = tool[t].holds
  BY <1>3, <1>4
<1>6. LockTypeOK'
  BY <1>3, <1>4 DEF LockInv, LockTypeOK, Call
<1>7. TokensApart' /\ TokensKept' /\ WorksKept' /\ ProcessShape'
  BY <1>4, <1>5 DEF LockInv, TokensApart, TokensKept, WorksKept, ProcessShape
<1>8. CallShape'
  BY <1>1, <1>3, <1>4 DEF LockInv, CallShape, Lives
<1> QED BY <1>6, <1>7, <1>8 DEF LockInv

LEMMA AcquireStep ==
  ASSUME LockInv, NEW s \in Lane, Acquire(s)
  PROVE  LockInv'
<1>1. PICK k \in NextKey(tool[s].needs) :
        /\ k \in token
        /\ token' = token \ {k}
        /\ tool' = [tool EXCEPT ![s].needs = @ \ {k}, ![s].holds = @ \cup {k}]
  BY DEF Acquire
<1>2. tool \in [Lane -> Call] /\ tool[s] \in Call /\ process \in [Lane -> Kept] /\ token \subseteq Key
  BY DEF LockInv, LockTypeOK, Call, Kept
<1>3. k \in Key /\ process' = process /\ orphans' = orphans /\ k \in tool[s].needs
  BY <1>1, <1>2 DEF Acquire, NextKey
<1> DEFINE c == [tool[s] EXCEPT !.needs = tool[s].needs \ {k}, !.holds = tool[s].holds \cup {k}]
<1>4. c \in Call
  BY <1>2, <1>3 DEF Call
<1>5. tool' = [tool EXCEPT ![s] = c]
  BY <1>1, <1>2 DEF Call
<1>6. tool' \in [Lane -> Call] /\ tool'[s] = c /\ \A t \in Lane \ {s} : tool'[t] = tool[t]
  BY <1>4, <1>5, OneCall DEF LockInv
<1>7. /\ tool'[s].holds = tool[s].holds \cup {k} /\ tool'[s].needs = tool[s].needs \ {k}
      /\ tool'[s].step = "acquire" /\ tool'[s].kind = tool[s].kind /\ tool[s].step = "acquire"
  BY <1>2, <1>6 DEF Call, Acquire
<1>8. LockTypeOK'
  BY <1>1, <1>2, <1>3, <1>6 DEF LockInv, LockTypeOK, Call, Kept
<1>9. TokensApart'
  <2>1. \A t \in Lane : k \notin tool[t].holds /\ k \notin process[t].keeps
    BY <1>1 DEF LockInv, TokensApart
  <2> QED BY <2>1, <1>1, <1>3, <1>6, <1>7 DEF LockInv, TokensApart
<1>10. TokensKept'
  BY <1>1, <1>3, <1>6, <1>7 DEF LockInv, TokensKept
<1>11. WorksKept' /\ ProcessShape'
  BY <1>3 DEF LockInv, WorksKept, ProcessShape
<1>12. CallShape'
  <2>1. /\ (tool[s].kind = "command") => Workspace(s) \in tool'[s].needs \cup tool'[s].holds
        /\ Lives(s) => tool'[s].kind # "clear"
    BY <1>7 DEF LockInv, CallShape
  <2>2. \A t \in Lane \ {s} : tool'[t] = tool[t] /\ process'[t] = process[t]
    BY <1>3, <1>6
  <2>3. process' = process /\ orphans' = orphans /\ tool'[s].step = "acquire" /\ tool'[s].kind = tool[s].kind
    BY <1>3, <1>7
  <2> QED BY <2>1, <2>2, <2>3 DEF LockInv, CallShape, Workspace, Lives
<1> QED BY <1>8, <1>9, <1>10, <1>11, <1>12 DEF LockInv

LEMMA StartStep ==
  ASSUME LockInv, NEW s \in Lane, Start(s) \/ Cancel(s)
  PROVE  LockInv'
<1>1. tool \in [Lane -> Call] /\ tool[s] \in Call
  BY DEF LockInv, LockTypeOK, Call
<1>2. PICK c \in {[tool[s] EXCEPT !.step = "run"], [tool[s] EXCEPT !.cancelled = TRUE]} :
        tool' = [tool EXCEPT ![s] = c] /\ (c.step = "run" => tool[s].needs = {} \/ tool[s].step = "run")
  BY <1>1 DEF Start, Cancel, Call
<1>3. c \in Call
  BY <1>1 DEF Call
<1>4. tool' \in [Lane -> Call] /\ tool'[s] = c /\ \A t \in Lane \ {s} : tool'[t] = tool[t]
  BY <1>2, <1>3, OneCall DEF LockInv
<1>5. tool[s].step # "idle" /\ UNCHANGED <<process, orphans, token>>
  BY DEF Start, Cancel, NoCallOpen
<1>6. /\ c.needs = tool[s].needs /\ c.holds = tool[s].holds /\ c.kind = tool[s].kind
      /\ c.step # "idle"
  BY <1>1, <1>5 DEF Call
<1>7. \A t \in Lane : tool'[t].holds = tool[t].holds
  BY <1>4, <1>6
<1>8. LockTypeOK'
  BY <1>4, <1>5 DEF LockInv, LockTypeOK, Call
<1>9. TokensApart' /\ TokensKept' /\ WorksKept' /\ ProcessShape'
  BY <1>5, <1>7 DEF LockInv, TokensApart, TokensKept, WorksKept, ProcessShape
<1>10. CallShape'
  BY <1>2, <1>4, <1>5, <1>6 DEF LockInv, CallShape, Lives
<1> QED BY <1>8, <1>9, <1>10 DEF LockInv

\* A call leaves; what it held goes back.
LEMMA CallLeaves ==
  ASSUME LockInv, NEW s \in Lane, tool' = [tool EXCEPT ![s] = NoCall],
         token' = token \cup tool[s].holds, UNCHANGED <<process, orphans>>
  PROVE  LockInv'
<1>1. NoCall \in Call /\ tool[s] \in Call
  BY DEF LockInv, LockTypeOK, Call, NoCall
<1>2. tool' \in [Lane -> Call] /\ tool'[s] = NoCall /\ \A t \in Lane \ {s} : tool'[t] = tool[t]
  BY <1>1, OneCall DEF LockInv
<1>3. tool'[s].holds = {} /\ tool'[s].step = "idle"
  BY <1>2 DEF NoCall
<1>4. LockTypeOK'
  BY <1>1, <1>2 DEF LockInv, LockTypeOK, Call
<1>5. TokensApart'
  BY <1>2, <1>3 DEF LockInv, TokensApart
<1>6. TokensKept'
  BY <1>2 DEF LockInv, TokensKept
<1>7. WorksKept' /\ ProcessShape'
  BY DEF LockInv, WorksKept, ProcessShape
<1>8. CallShape'
  BY <1>2, <1>3 DEF LockInv, CallShape, Lives
<1> QED BY <1>4, <1>5, <1>6, <1>7, <1>8 DEF LockInv

LEMMA FinishStep ==
  ASSUME LockInv, NEW s \in Lane, Finish(s)
  PROVE  LockInv'
<1>1. CASE token' = token \cup tool[s].holds /\ UNCHANGED process
  BY <1>1, CallLeaves DEF Finish
<1>2. CASE /\ tool[s].kind = "command"
           /\ process' = [process EXCEPT ![s] =
                            [listed |-> TRUE, works |-> tool[s].holds, keeps |-> KeptFor(s)]]
           /\ token' = token \cup (tool[s].holds \ KeptFor(s))
  <2>1. NoCall \in Call /\ tool[s] \in Call /\ process \in [Lane -> Kept]
    BY DEF LockInv, LockTypeOK, Call, NoCall, Kept
  <2>2. tool' \in [Lane -> Call] /\ tool'[s] = NoCall /\ \A t \in Lane \ {s} : tool'[t] = tool[t]
    BY <2>1, OneCall DEF LockInv, Finish
  <2>3. tool'[s].holds = {} /\ tool'[s].step = "idle"
    BY <2>2 DEF NoCall
  <2>4. /\ process' \in [Lane -> Kept] /\ process'[s].keeps = tool[s].holds
        /\ process'[s].works = tool[s].holds /\ process'[s].listed
        /\ \A t \in Lane \ {s} : process'[t] = process[t]
    BY <1>2, <2>1 DEF Call, Kept, KeptFor
  <2>5. token' = token /\ orphans' = orphans
    BY <1>2 DEF KeptFor, Finish
  <2>6. Workspace(s) \in tool[s].holds
    BY <1>2 DEF LockInv, CallShape, Finish
  <2>7. process[s].keeps = {}
    BY <2>6 DEF LockInv, ProcessShape, TokensApart
  <2>8. LockTypeOK'
    BY <2>2, <2>4, <2>5 DEF LockInv, LockTypeOK, Call, Kept
  <2>9. TokensApart'
    BY <2>2, <2>3, <2>4, <2>5 DEF LockInv, TokensApart
  <2>10. TokensKept'
    BY <2>2, <2>4, <2>5, <2>7 DEF LockInv, TokensKept
  <2>11. WorksKept'
    BY <2>4 DEF LockInv, WorksKept
  <2>12. ProcessShape'
    BY <2>4, <2>6 DEF LockInv, ProcessShape
  <2>13. CallShape'
    BY <2>2, <2>3, <2>4, <2>5 DEF LockInv, CallShape, Lives
  <2> QED BY <2>8, <2>9, <2>10, <2>11, <2>12, <2>13 DEF LockInv
<1> QED BY <1>1, <1>2 DEF Finish

\* The process of s leaves the table; the session may be one whose process lives on.
LEMMA ProcessLeaves ==
  ASSUME LockInv, NEW s \in Lane, Exit(s) \/ CloseProcesses(s)
  PROVE  LockInv'
<1>1. process \in [Lane -> Kept] /\ process[s] \in Kept /\ orphans \subseteq Lane
  BY DEF LockInv, LockTypeOK, Kept
<1>2. /\ tool' = tool /\ token' = token
      /\ process' = [process EXCEPT ![s].listed = FALSE, ![s].works = {}]
      /\ process[s].listed
  BY DEF Exit, CloseProcesses
<1>3. /\ process' \in [Lane -> Kept] /\ process'[s].keeps = process[s].keeps
      /\ process'[s].works = {} /\ ~process'[s].listed
      /\ \A t \in Lane \ {s} : process'[t] = process[t]
  BY <1>1, <1>2 DEF Kept
<1>4. \A t \in Lane : process'[t].keeps = process[t].keeps
  BY <1>3
<1>5. orphans' \subseteq Lane /\ (orphans' = orphans \/ orphans' = orphans \cup {s})
  BY <1>1 DEF Exit, CloseProcesses
<1>6. LockTypeOK'
  BY <1>2, <1>3, <1>5 DEF LockInv, LockTypeOK, Kept
<1>7. TokensApart' /\ TokensKept' /\ ProcessShape'
  BY ZenonT(30), <1>2, <1>4 DEF LockInv, TokensApart, TokensKept, ProcessShape
<1>8. WorksKept'
  BY <1>3 DEF LockInv, WorksKept
<1>9. CallShape'
  <2>1. \A t \in Lane : Lives(t)' => Lives(t)
    BY <1>2, <1>3, <1>5 DEF Lives
  <2> QED BY <2>1, <1>2 DEF LockInv, CallShape
<1> QED BY <1>6, <1>7, <1>8, <1>9 DEF LockInv

LEMMA ReleaseStep ==
  ASSUME LockInv, NEW s \in Lane, Release(s)
  PROVE  LockInv'
<1>1. process \in [Lane -> Kept] /\ process[s] \in Kept /\ token \subseteq Key
  BY DEF LockInv, LockTypeOK, Kept
<1>2. /\ process' \in [Lane -> Kept] /\ process'[s].keeps = {}
      /\ process'[s].works = process[s].works /\ process'[s].listed = process[s].listed
      /\ \A t \in Lane \ {s} : process'[t] = process[t]
  BY <1>1 DEF Release, Kept
<1>3. tool' = tool /\ orphans' = orphans /\ token' = token \cup process[s].keeps
  BY DEF Release
<1>4. LockTypeOK'
  BY <1>1, <1>2, <1>3 DEF LockInv, LockTypeOK, Kept
<1>5. TokensApart'
  BY <1>2, <1>3 DEF LockInv, TokensApart
<1>6. TokensKept'
  BY <1>2, <1>3 DEF LockInv, TokensKept
<1>7. ProcessShape'
  BY <1>2 DEF LockInv, ProcessShape
<1>8. WorksKept'
  BY <1>2 DEF LockInv, WorksKept, Release
<1>9. CallShape'
  BY <1>2, <1>3 DEF LockInv, CallShape, Lives
<1> QED BY <1>4, <1>5, <1>6, <1>7, <1>8, <1>9 DEF LockInv

LEMMA OrphansExitStep ==
  ASSUME LockInv, NEW s \in Lane, OrphansExit(s)
  PROVE  LockInv'
<1>1. UNCHANGED <<tool, process, token>> /\ orphans' = orphans \ {s}
  BY DEF OrphansExit
<1>2. LockTypeOK' /\ TokensApart' /\ TokensKept' /\ WorksKept' /\ ProcessShape'
  BY <1>1 DEF LockInv, LockTypeOK, TokensApart, TokensKept, WorksKept, ProcessShape
<1>3. CallShape'
  BY <1>1 DEF LockInv, CallShape, Lives
<1> QED BY <1>2, <1>3 DEF LockInv

-----------------------------------------------------------------------------
LEMMA LockStepInv ==
  ASSUME LockInv, [LockNext]_lockVars
  PROVE  LockInv'
<1>1. CASE UNCHANGED lockVars
  BY <1>1 DEF lockVars, LockInv, LockTypeOK, TokensApart, WorksKept, TokensKept, CallShape,
              ProcessShape, Lives
<1>2. ASSUME NEW s \in Lane,
             \/ Need(s) \/ Acquire(s) \/ Start(s) \/ Cancel(s) \/ GiveUp(s)
             \/ Finish(s) \/ Exit(s) \/ CloseProcesses(s) \/ OrphansExit(s)
             \/ Release(s)
      PROVE  LockInv'
  <2>1. CASE Need(s)
    BY <2>1, NeedStep
  <2>2. CASE Acquire(s)
    BY <2>2, AcquireStep
  <2>3. CASE Start(s) \/ Cancel(s)
    BY <2>3, StartStep
  <2>4. CASE GiveUp(s)
    BY <2>4, CallLeaves DEF GiveUp, GivenBack
  <2>5. CASE Finish(s)
    BY <2>5, FinishStep
  <2>6. CASE Exit(s) \/ CloseProcesses(s)
    BY <2>6, ProcessLeaves
  <2>7. CASE OrphansExit(s)
    BY <2>7, OrphansExitStep
  <2>8. CASE Release(s)
    BY <2>8, ReleaseStep
  <2> QED BY <1>2, <2>1, <2>2, <2>3, <2>4, <2>5, <2>6, <2>7, <2>8
<1> QED BY <1>1, <1>2 DEF LockNext

LEMMA LockInvariant == LockSpec => []LockInv
<1>1. LockInit => LockInv
  BY LockInitInv
<1>2. LockInv /\ [LockNext]_lockVars => LockInv'
  BY LockStepInv
<1> QED BY <1>1, <1>2, PTL DEF LockSpec

\* Side by side, no two calls, no two listed background processes and no call and such a
\* process work on the same directory or workspace, and no workspace is cleared while a
\* process of its session lives, listed or not (acquireToolResources,
\* releaseToolResources).  What a process does between its removal from the table and its
\* exit is the exception WorkApart names.
THEOREM LocksSeparateWork == LockSpec => []WorkApart
<1>1. LockInv => WorkApart
  <2> SUFFICES ASSUME LockInv PROVE WorkApart
    OBVIOUS
  <2>1. ASSUME NEW s \in Lane
        PROVE  /\ Uses(s) \subseteq tool[s].holds
               /\ process[s].works \subseteq process[s].keeps
               /\ tool[s].holds \cap process[s].keeps = {}
               /\ (Lives(s) /\ tool[s].step = "run") => tool[s].kind # "clear"
    BY DEF LockInv, TokensApart, WorksKept, CallShape, Uses
  <2>2. ASSUME NEW s \in Lane, NEW t \in Lane, s # t
        PROVE  (Uses(s) \cup process[s].works) \cap (Uses(t) \cup process[t].works) = {}
    <3>1. /\ tool[s].holds \cap tool[t].holds = {} /\ process[s].keeps \cap process[t].keeps = {}
          /\ tool[s].holds \cap process[t].keeps = {} /\ tool[t].holds \cap process[s].keeps = {}
      BY <2>2 DEF LockInv, TokensApart
    <3> QED BY <3>1, <2>1
  <2>3. ASSUME NEW s \in Lane PROVE Uses(s) \cap process[s].works = {}
    BY <2>1
  <2> QED BY <2>1, <2>2, <2>3 DEF WorkApart
<1> QED BY <1>1, LockInvariant, PTL

\* No failed wait, cancellation or background process loses a token or returns one
\* twice: a key is always in its channel, with one call, or kept for one process.
THEOREM TokensAccountedFor == LockSpec => [](TokensApart /\ TokensKept)
<1>1. LockInv => TokensApart /\ TokensKept
  BY DEF LockInv
<1> QED BY <1>1, LockInvariant, PTL
=============================================================================
