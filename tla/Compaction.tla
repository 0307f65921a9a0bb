------------------------------ MODULE Compaction ------------------------------
(***************************************************************************)
(* Compaction and cooling of one session's context: what a model request   *)
(* still holds of the canonical history.  A compaction reads the history,  *)
(* lets the model summarise a part of it for a while, and commits the      *)
(* summary if the history has not changed.  Meanwhile the turn goes on,    *)
(* people steer it, widgets leave notices, turns begin and end.            *)
(*                                                                         *)
(* A message is known by its rowid, its place in the sequence `history';   *)
(* the order of the conversation is that of created_at, then of rowid.     *)
(* Budgets are abstracted: how many recent inputs fit is any number up to  *)
(* TailTurns, and a request is near the limit whenever it likes.  Left out *)
(* are screenshots, and the notices a hot widget action refers to.         *)
(***************************************************************************)
EXTENDS Naturals, Sequences, FiniteSets

CONSTANTS
  Caller,      \* requests to compact an idle session: a person's, the automatic one
  None,
  TailTurns,   \* compact_tail_input_turns
  KeepTurns,   \* tool_result_cooling_keep_turns
  MaxAside,    \* bound on the steers, and on the notices
  MaxMessages, \* bound on the messages of the session
  MaxTurns     \* bound on its turns, those of notices and summaries included

ASSUME ContextAssumption ==
  /\ TailTurns \in Nat \ {0}
  /\ KeepTurns \in Nat
  /\ MaxAside \in Nat
  /\ MaxMessages \in Nat
  /\ MaxTurns \in Nat
  /\ None \notin [owner : Nat, seen : Nat, last : Nat, cold : SUBSET Nat, tail : SUBSET Nat]

VARIABLES
  history,   \* table messages of the session
  turns,     \* how many turns it has had
  turn,      \* the running one, 0 when there is none
  loop,      \* what the goroutine of the running turn does next
  cooling,   \* coolingChecked of that goroutine
  steers,    \* activeTurn.pendingSteers
  asked,     \* idle requests that have found no running turn
  work,      \* the compaction that holds e.compacting, with what it has read
  trial,     \* the cooling the turn is about to commit
  mark,      \* table session_context_cooling
  swallowed  \* messages lost to the race of CommitIdle; no code reads it

ctxVars == <<history, turns, turn, loop, cooling, steers, asked, work, trial, mark, swallowed>>

Kind == {"input", "steer", "call", "result", "answer", "notice", "summary", "reset"}

Id == 1..MaxMessages

\* A summary names the messages it replaces and those it keeps.
Message == [kind : Kind, turn : 1..MaxTurns, created : Nat,
            cold : SUBSET Id, tail : SUBSET Id]

Work == [owner : 0..MaxTurns, seen : Id, last : Id, cold : SUBSET Id, tail : SUBSET Id]

Mark == [through : 1..MaxTurns, summary : 0..MaxMessages]

TypeOK ==
  /\ history \in Seq(Message) /\ Len(history) <= MaxMessages
  /\ turns \in 0..MaxTurns
  /\ turn \in 0..turns
  /\ loop \in {"none", "top", "prepare", "cool", "compact", "sample", "tools", "answered"}
  /\ cooling \in BOOLEAN
  /\ steers \in SUBSET DOMAIN history
  /\ asked \in SUBSET Caller
  /\ work \in Work \cup {None}
  /\ trial \in [last : Id, expected : Mark \cup {None}, next : Mark] \cup {None}
  /\ mark \in Mark \cup {None}
  /\ swallowed \in SUBSET DOMAIN history

CtxInit ==
  /\ history = <<>>
  /\ turns = 0
  /\ turn = 0
  /\ loop = "none"
  /\ cooling = FALSE
  /\ steers = {}
  /\ asked = {}
  /\ work = None
  /\ trial = None
  /\ mark = None
  /\ swallowed = {}

-----------------------------------------------------------------------------
(* Reading the history *)

Precedes(h, i, j) ==
  h[i].created < h[j].created \/ (h[i].created = h[j].created /\ i < j)

IsLast(h, i) == \A j \in DOMAIN h \ {i} : Precedes(h, j, i)

LastMessage(h) == CHOOSE i \in DOMAIN h : IsLast(h, i)

\* A reset of a subsession cuts off everything before it.
SubagentContextMessages(h) ==
  {i \in DOMAIN h : \A r \in DOMAIN h : h[r].kind = "reset" => Precedes(h, r, i)}

IsSummary(h, s) == s \in SubagentContextMessages(h) /\ h[s].kind = "summary"

IsLatestSummary(h, s) ==
  /\ IsSummary(h, s)
  /\ \A i \in DOMAIN h : IsSummary(h, i) => i = s \/ Precedes(h, i, s)

Epoch(h) ==
  IF \E s \in DOMAIN h : IsSummary(h, s)
    THEN CHOOSE s \in DOMAIN h : IsLatestSummary(h, s)
    ELSE 0

\* What a request is built from: the latest summary, what it keeps, and what
\* came after it.
EffectiveMessages(h) ==
  LET context == SubagentContextMessages(h)
      s == Epoch(h)
  IN IF s = 0 THEN context
     ELSE {s} \cup h[s].tail \cup {i \in context : Precedes(h, s, i)}

\* A slip: a notice counts as an input.
InputsAndNotices(h, view) == {i \in view : h[i].kind \in {"input", "notice"}}

\* IsInputTurnBoundary: what opens a turn, notices of widgets excepted.
Inputs(h, view) == {i \in view : h[i].kind = "input"}

\* The messages from the keep-th last input on; the summary stands first.
SplitRecentInputTail(h, view, keep) ==
  IF Cardinality(Inputs(h, view)) < keep THEN view
  ELSE {i \in view :
          /\ h[i].kind # "summary"
          /\ Cardinality({b \in Inputs(h, view) : Precedes(h, i, b)}) < keep}

\* The last tool exchange of a turn: its latest call and what follows.
LatestExchange(h, view, t) ==
  {i \in view :
     /\ h[i].turn = t
     /\ h[i].kind # "summary"
     /\ \E c \in view :
          /\ h[c].kind = "call" /\ h[c].turn = t
          /\ c = i \/ Precedes(h, c, i)
          /\ \A d \in view : h[d].kind = "call" /\ h[d].turn = t => d = c \/ Precedes(h, d, c)}

\* A slip: the last resort summarises the running turn as well.
CompactPartitionFlat(h, view, keep, owner) ==
  IF keep = 0 THEN {} ELSE SplitRecentInputTail(h, view, keep)

\* What compaction keeps word for word.
CompactPartition(h, view, keep, owner) ==
  IF keep > 0 \/ owner = 0
    THEN IF keep = 0 THEN {} ELSE SplitRecentInputTail(h, view, keep)
    ELSE {i \in view : h[i].turn = owner /\ h[i].kind \in {"input", "steer"}}
           \cup LatestExchange(h, view, owner)

\* The turns of a view in the order of their first messages.
Opens(h, view, t, i) ==
  /\ i \in view /\ h[i].turn = t /\ h[i].kind # "summary"
  /\ \A j \in view : h[j].turn = t /\ h[j].kind # "summary" => j = i \/ Precedes(h, i, j)

OpensBefore(h, view, t, u) ==
  \E i, j \in view : Opens(h, view, t, i) /\ Opens(h, view, u, j) /\ Precedes(h, i, j)

TurnsOf(h, view) == {h[i].turn : i \in {j \in view : h[j].kind # "summary"}}

\* A slip: the turn that asks counts like any other.
ColdTurnsCurrent(h, view, current) ==
  LET others == Inputs(h, view)
      Later(i) == {b \in others : Precedes(h, i, b)}
      split == {i \in others : Cardinality(Later(i)) = KeepTurns}
      hot == {b \in Inputs(h, view) : \E i \in split : Precedes(h, i, b)}
  IN {t \in TurnsOf(h, view) :
        split # {} /\ \A b \in hot : OpensBefore(h, view, t, h[b].turn)}

\* The turns that may be cooled for a turn: those before the KeepTurns last
\* inputs of other turns, and before the turn itself.
ColdTurns(h, view, current) ==
  LET others == {i \in Inputs(h, view) : h[i].turn # current}
      Later(i) == {b \in others : Precedes(h, i, b)}
      split == {i \in others : Cardinality(Later(i)) = KeepTurns}
      hot == {b \in Inputs(h, view) : \E i \in split : Precedes(h, i, b)}
  IN {t \in TurnsOf(h, view) :
        split # {} /\ \A b \in hot : OpensBefore(h, view, t, h[b].turn)}

CoolingCandidates(h, current) ==
  LET view == EffectiveMessages(h)
      cold == ColdTurns(h, view, current)
  IN {m \in [through : cold, summary : {Epoch(h)}] :
        \A t \in cold \ {m.through} : OpensBefore(h, view, t, m.through)}

\* The messages whose bodies the committed mark hides from the model.
CooledMessages(h, m) ==
  LET view == EffectiveMessages(h)
  IN IF m = None \/ (m # None /\ (m.summary # Epoch(h) \/ m.through \notin TurnsOf(h, view)))
       THEN {}
       ELSE {i \in view :
               /\ h[i].kind \in {"call", "result", "answer", "notice"}
               /\ h[i].turn = m.through \/ OpensBefore(h, view, h[i].turn, m.through)}

-----------------------------------------------------------------------------
(* Writing the history *)

Newest == IF history = <<>> THEN 0 ELSE history[LastMessage(history)].created

\* insertMessageTx: a new message is never older than the newest one.
Row(kind, t) == [kind |-> kind, turn |-> t, created |-> Newest, cold |-> {}, tail |-> {}]

Room(n) == Len(history) + n <= MaxMessages

Insert(kind, t) == Room(1) /\ history' = Append(history, Row(kind, t))

\* ApplyTurnSteers moves accepted steers behind everything the turn has said: to the
\* present, or past the newest message of the turn if the clock is behind it.  The present
\* is past every message here (not so in the same millisecond, or with a clock set back).
Moved(h) ==
  [i \in DOMAIN h |-> IF i \in steers THEN [h[i] EXCEPT !.created = Newest + 1] ELSE h[i]]

ApplyTurnSteers == history' = Moved(history) /\ steers' = {}

\* Bound on what others write into the session.
Few(kind) == Cardinality({i \in DOMAIN history : history[i].kind = kind}) < MaxAside

NewTurn == turns < MaxTurns /\ turns' = turns + 1

-----------------------------------------------------------------------------
(* The running turn *)

BeginTurn ==
  /\ turn = 0
  /\ NewTurn
  /\ turn' = turns'
  /\ Insert("input", turns')
  /\ loop' = "top"
  /\ cooling' = FALSE
  /\ UNCHANGED <<steers, asked, work, trial, mark, swallowed>>

AppendTurnSteer ==
  /\ turn # 0
  /\ Few("steer")
  /\ Insert("steer", turn)
  /\ steers' = steers \cup {Len(history')}
  /\ UNCHANGED <<turns, turn, loop, cooling, asked, work, trial, mark, swallowed>>

\* The top of the tool loop: steers first, then the request.
ConsumeSteers ==
  /\ loop = "top"
  /\ ApplyTurnSteers
  /\ loop' = "prepare"
  /\ UNCHANGED <<turns, turn, cooling, asked, work, trial, mark, swallowed>>

\* tryCoolContext, only for the first request of a turn: what it reads ...
TryCoolContext ==
  /\ loop = "prepare"
  /\ ~cooling
  /\ cooling' = TRUE
  /\ \E next \in CoolingCandidates(history, turn) :
       /\ next # mark
       /\ trial' = [last |-> LastMessage(history), expected |-> mark, next |-> next]
  /\ loop' = "cool"
  /\ UNCHANGED <<history, turns, turn, steers, asked, work, mark, swallowed>>

\* ... and what it commits, unless the history has changed.
AdvanceContextCooling ==
  /\ loop = "cool"
  /\ mark' = IF trial.last = LastMessage(history) /\ trial.expected = mark THEN trial.next ELSE mark
  /\ trial' = None
  /\ loop' = "top"
  /\ UNCHANGED <<history, turns, turn, cooling, steers, asked, work, swallowed>>

\* compact reads the history under e.compacting and decides what to replace.
Read(owner) ==
  /\ work = None
  /\ history # <<>>
  /\ \E keep \in 0..TailTurns :
       LET view == EffectiveMessages(history)
           tail == CompactPartition(history, view, keep, owner)
       IN /\ view # tail
          /\ work' = [owner |-> owner, seen |-> Len(history), last |-> LastMessage(history),
                      cold |-> view \ tail, tail |-> tail]

CompactInTurn ==
  /\ loop = "prepare"
  /\ Read(turn)
  /\ cooling' = TRUE
  /\ loop' = "compact"
  /\ UNCHANGED <<history, turns, turn, steers, asked, trial, mark, swallowed>>

\* A slip: the end of the history is not compared.
HistoryUnchangedNot == work.last \in DOMAIN history

HistoryUnchanged == work.last = LastMessage(history)

\* AppendCompactSummary for the turn t, and the end of the watermark.
AppendCompactSummary(t) ==
  /\ Room(1)
  /\ history' = Append(history, [Row("summary", t) EXCEPT !.cold = work.cold, !.tail = work.tail])
  /\ mark' = None

CommitInTurn ==
  /\ loop = "compact"
  /\ \/ HistoryUnchanged /\ AppendCompactSummary(turn)
     \/ ~HistoryUnchanged /\ UNCHANGED <<history, mark>>
  /\ work' = None
  /\ loop' = "top"
  /\ UNCHANGED <<turns, turn, cooling, steers, asked, trial, swallowed>>

\* The request goes out: no compaction was due, or it failed and was skipped.
Sample ==
  /\ \/ loop = "prepare" /\ UNCHANGED work
     \/ loop = "compact" /\ work' = None
  /\ cooling' = TRUE
  /\ loop' = "sample"
  /\ UNCHANGED <<history, turns, turn, steers, asked, trial, mark, swallowed>>

CallTools ==
  /\ loop = "sample"
  /\ Insert("call", turn)
  /\ loop' = "tools"
  /\ UNCHANGED <<turns, turn, cooling, steers, asked, work, trial, mark, swallowed>>

\* The result of a dispatched tool is committed, also when the turn was stopped.
ToolResult ==
  /\ loop = "tools"
  /\ Insert("result", turn)
  /\ loop' = "top"
  /\ UNCHANGED <<turns, turn, cooling, steers, asked, work, trial, mark, swallowed>>

FinalAnswer ==
  /\ loop = "sample"
  /\ Insert("answer", turn)
  /\ loop' = "answered"
  /\ UNCHANGED <<turns, turn, cooling, steers, asked, work, trial, mark, swallowed>>

FinishTurn ==
  /\ turn' = 0
  /\ loop' = "none"
  /\ UNCHANGED <<turns, cooling, mark, swallowed>>

\* consumeSteersOrSeal: a steer that came with the answer is answered too.
Settle ==
  /\ loop = "answered"
  /\ \/ steers = {} /\ FinishTurn /\ UNCHANGED <<history, steers>>
     \/ /\ steers # {}
        /\ ApplyTurnSteers
        /\ loop' = "top"
        /\ UNCHANGED <<turns, turn, cooling, mark, swallowed>>
  /\ UNCHANGED <<asked, work, trial>>

\* The turn is stopped or fails.  What the model had said so far is kept, then
\* the steers are applied, unless the storage fails them.
Interrupt ==
  /\ turn # 0
  /\ loop # "tools"
  /\ \E said \in {history} \cup {h \in {Append(history, Row("answer", turn))} :
                                   loop = "sample" /\ Room(1)} :
       history' = Moved(said) \/ history' = said
  /\ steers' = {}
  /\ work' = IF loop = "compact" THEN None ELSE work
  /\ trial' = None
  /\ FinishTurn
  /\ UNCHANGED asked

\* The daemon stops and recovers: the running turn is over.
Crash ==
  /\ turn # 0 \/ asked # {} \/ work # None
  /\ FinishTurn
  /\ steers' = {}
  /\ asked' = {}
  /\ work' = None
  /\ trial' = None
  /\ UNCHANGED history

-----------------------------------------------------------------------------
(* Everything else that writes the session's history *)

RecordWidgetNotice ==
  /\ NewTurn
  /\ Few("notice")
  /\ Insert("notice", turns')
  /\ UNCHANGED <<turn, loop, cooling, steers, asked, work, trial, mark, swallowed>>

\* A parent resets its idle child; the guard of compactions excludes the two.
ResetSubagent ==
  /\ turn = 0
  /\ turns > 0
  /\ work = None
  /\ NewTurn
  /\ Few("reset")
  /\ Insert("reset", turns')
  /\ UNCHANGED <<turn, loop, cooling, steers, asked, work, trial, mark, swallowed>>

\* compactIdle looks for a running turn first; the model is resolved after.
CompactIdle(c) ==
  /\ turn = 0
  /\ c \notin asked
  /\ asked' = asked \cup {c}
  /\ UNCHANGED <<history, turns, turn, loop, cooling, steers, work, trial, mark, swallowed>>

ReadIdle(c) ==
  /\ c \in asked
  /\ asked' = asked \ {c}
  /\ Read(0)
  /\ UNCHANGED <<history, turns, turn, loop, cooling, steers, trial, mark, swallowed>>

\* The summary of an idle session is a turn of its own.  The two checks of the
\* transaction can pass although the history has grown: a steer that was its
\* end when it was read is moved to its end again.
CommitIdle ==
  /\ work # None
  /\ work.owner = 0
  /\ turn = 0
  /\ HistoryUnchanged
  /\ NewTurn
  /\ AppendCompactSummary(turns')
  /\ swallowed' = IF work.last = LastMessage(history)
                    THEN swallowed \cup (work.seen + 1)..Len(history)
                    ELSE swallowed
  /\ work' = None
  /\ UNCHANGED <<turn, loop, cooling, steers, asked, trial>>

\* Refused by a check, failed, timed out, or not worth it.
GiveUp ==
  /\ \/ \E c \in asked : asked' = asked \ {c} /\ UNCHANGED work
     \/ work # None /\ work.owner = 0 /\ work' = None /\ UNCHANGED asked
  /\ UNCHANGED <<history, turns, turn, loop, cooling, steers, trial, mark, swallowed>>

-----------------------------------------------------------------------------
CtxNext ==
  \/ BeginTurn \/ AppendTurnSteer \/ ConsumeSteers \/ TryCoolContext \/ AdvanceContextCooling
  \/ CompactInTurn \/ CommitInTurn \/ Sample \/ CallTools \/ ToolResult \/ FinalAnswer \/ Settle
  \/ Interrupt \/ Crash
  \/ RecordWidgetNotice \/ ResetSubagent
  \/ \E c \in Caller : CompactIdle(c) \/ ReadIdle(c)
  \/ CommitIdle \/ GiveUp

CtxSpec == CtxInit /\ [][CtxNext]_ctxVars

-----------------------------------------------------------------------------
(* Properties *)

Covered(h, i) == \E s \in SubagentContextMessages(h) : h[s].kind = "summary" /\ i \in h[s].cold

\* No message is lost to the model: it is in the next request, or a summary
\* that replaces it was written from it -- also for a message that arrives
\* while a summary is being written.  The one exception is named by CommitIdle.
NothingForgotten ==
  \A i \in SubagentContextMessages(history) :
    i \in EffectiveMessages(history) \/ Covered(history, i) \/ i \in swallowed

\* The same without the exception.
NothingSwallowed ==
  \A i \in SubagentContextMessages(history) :
    i \in EffectiveMessages(history) \/ Covered(history, i)

\* However short the window, the running turn keeps its inputs and its last
\* tool exchange word for word.
CurrentTurnKept ==
  turn # 0 =>
    LET context == SubagentContextMessages(history)
    IN {i \in context : history[i].turn = turn /\ history[i].kind \in {"input", "steer"}}
         \cup LatestExchange(history, context, turn) \subseteq EffectiveMessages(history)

\* The call a result answers: a turn has one exchange at a time.
CallOf(i) ==
  CHOOSE c \in 1..i : /\ history[c].kind = "call" /\ history[c].turn = history[i].turn
                     /\ \A d \in (c + 1)..i : ~(history[d].kind = "call" /\ history[d].turn = history[i].turn)

\* A request never holds the result of a call without the call: summaries and
\* tails are cut between exchanges, whatever arrives in the middle of one.
ExchangesWhole ==
  \A i \in EffectiveMessages(history) :
    history[i].kind = "result" => CallOf(i) \in EffectiveMessages(history)

\* Cooling hides nothing the running turn has produced.
CoolingSparesTurn ==
  \A i \in CooledMessages(history, mark) : history[i].turn # turn
=============================================================================
