--------------------------- MODULE CompactionProofs ---------------------------
(***************************************************************************)
(* Proofs about Compaction, for any number of requests, messages, turns    *)
(* and kept inputs.                                                        *)
(*                                                                         *)
(* The order of the conversation is total, and what is written stands at   *)
(* its end, except for steers that have not been applied: those move, but  *)
(* no request has to do without them.  So a view only grows until a        *)
(* summary replaces it, and a compaction that finds the end of the history *)
(* where it was knows all of it.  Nothing of the running turn stands       *)
(* before its input, and no input stands between a call and its result: so *)
(* the cut before an input never separates what belongs together.          *)
(***************************************************************************)
EXTENDS Compaction, FiniteSetTheorems, TLAPS

MessageType == [kind : Kind, turn : Nat \ {0}, created : Nat, cold : SUBSET Nat, tail : SUBSET Nat]
WorkType    == [owner : Nat, seen : Nat, last : Nat, cold : SUBSET Nat, tail : SUBSET Nat]

-----------------------------------------------------------------------------
(* What holds of the history whatever runs. *)

HasLast(h)  == h # <<>> => \E i \in DOMAIN h : IsLast(h, i)
HasEpoch(h) == (\E s \in DOMAIN h : IsSummary(h, s)) => \E s \in DOMAIN h : IsLatestSummary(h, s)

\* Only steers move.
Ordered(h) ==
  \A i, j \in DOMAIN h :
    i < j /\ h[i].kind # "steer" /\ h[j].kind # "steer" => h[i].created <= h[j].created

\* The call of a result; no turn has begun between the two.
IsCallOf(h, i, c) ==
  /\ c \in 1..i /\ h[c].kind = "call" /\ h[c].turn = h[i].turn
  /\ \A d \in (c + 1)..i : ~(h[d].kind = "call" /\ h[d].turn = h[i].turn)
  /\ \A b \in c..i : h[b].kind # "input"

Whole(h, view) == \A i \in view : h[i].kind = "result" => \E c \in view : IsCallOf(h, i, c)

HistoryInv(h, last) ==
  /\ h \in Seq(MessageType)
  /\ HasLast(h) /\ HasEpoch(h)
  /\ EffectiveMessages(h) \subseteq SubagentContextMessages(h)
  /\ Ordered(h)
  /\ Whole(h, EffectiveMessages(h))
  /\ \A i \in DOMAIN h : h[i].turn <= last

Remembered(h, lost) ==
  \A i \in SubagentContextMessages(h) :
    i \in EffectiveMessages(h) \/ Covered(h, i) \/ i \in lost

-----------------------------------------------------------------------------
(* The running turn. *)

\* The input that opened turn t: the turn stands behind it, the other inputs before.
OpenedBy(h, t, a) ==
  /\ a \in SubagentContextMessages(h)
  /\ h[a].kind = "input" /\ h[a].turn = t
  /\ \A i \in DOMAIN h \ {a} : h[i].turn = t => Precedes(h, a, i)
  /\ \A b \in DOMAIN h \ {a} : h[b].kind = "input" => Precedes(h, b, a)

\* What the turn may not lose.
OwnMessages(h, t) ==
  {i \in SubagentContextMessages(h) : h[i].turn = t /\ h[i].kind \in {"input", "steer"}}
    \cup LatestExchange(h, SubagentContextMessages(h), t)

TurnKept(h, t) ==
  /\ \E a \in DOMAIN h : OpenedBy(h, t, a)
  /\ OwnMessages(h, t) \subseteq EffectiveMessages(h)

\* The call whose result is awaited.
OpenCall(h, t) ==
  \E c \in EffectiveMessages(h) :
    /\ h[c].kind = "call" /\ h[c].turn = t
    /\ \A d \in (c + 1)..Len(h) : ~(h[d].kind = "call" /\ h[d].turn = t)
    /\ \A b \in c..Len(h) : h[b].kind # "input"

\* Steers wait at places of the running turn, and one of them is the latest.
SteersWait(h, t, waiting) ==
  /\ waiting \subseteq {i \in SubagentContextMessages(h) : h[i].kind = "steer" /\ h[i].turn = t}
  /\ waiting # {} => \E m \in waiting : \A i \in waiting : i <= m

\* Cooling up to turn u leaves turn t alone.
Spares(h, t, u) == u # t /\ ~OpensBefore(h, EffectiveMessages(h), t, u)

-----------------------------------------------------------------------------
(* What a compaction knows while it works. *)

WorkHolds(h, w) ==
  /\ w \in WorkType
  /\ w.seen <= Len(h) /\ w.last <= w.seen
  /\ w.tail \subseteq SubagentContextMessages(h)
  /\ Whole(h, w.tail)
  /\ EffectiveMessages(h) \subseteq w.cold \cup w.tail \cup (w.seen + 1)..Len(h)

\* While it holds the turn up, the history grows or stays as it was.
WorkOwned(h, w, t) ==
  \/ w.seen = Len(h) /\ OwnMessages(h, t) \subseteq w.tail
  \/ LastMessage(h) > w.seen

TurnInv ==
  /\ turn \in Nat /\ turns \in Nat /\ turn <= turns
  /\ (turn = 0) <=> (loop = "none")
  /\ turn = 0 => steers = {}
  /\ turn # 0 => TurnKept(history, turn) /\ SteersWait(history, turn, steers)
  /\ loop = "tools" => OpenCall(history, turn)

WorkInv ==
  /\ work # None => WorkHolds(history, work)
  /\ work # None /\ work.owner # 0 => loop = "compact"
  /\ loop = "compact" => work # None /\ work.owner = turn /\ WorkOwned(history, work, turn)

CoolingInv ==
  /\ mark # None =>
       /\ mark.through \in 1..turns
       /\ turn # 0 => Spares(history, turn, mark.through)
  /\ loop = "cool" =>
       /\ trial.next.through \in 1..turns
       /\ Spares(history, turn, trial.next.through)

CtxInv ==
  /\ HistoryInv(history, turns)
  /\ Remembered(history, swallowed)
  /\ TurnInv /\ WorkInv /\ CoolingInv

-----------------------------------------------------------------------------
(* The order of the conversation *)

LEMMA MessageTyped ==
  ASSUME NEW h \in Seq(MessageType), NEW i \in DOMAIN h
  PROVE  /\ i \in Nat /\ i >= 1 /\ i <= Len(h) /\ h[i] \in MessageType /\ h[i].created \in Nat
         /\ h[i].kind \in Kind /\ h[i].turn \in Nat \ {0} /\ h[i].tail \subseteq Nat
<1>1. i \in 1..Len(h) /\ Len(h) \in Nat /\ h[i] \in MessageType
  OBVIOUS
<1>2. \A m \in MessageType :
        m.created \in Nat /\ m.kind \in Kind /\ m.turn \in Nat \ {0} /\ m.tail \subseteq Nat
  BY DEF MessageType
<1> QED BY <1>1, <1>2

LEMMA PrecedesTotal ==
  ASSUME NEW h \in Seq(MessageType), NEW i \in DOMAIN h, NEW j \in DOMAIN h
  PROVE  /\ ~Precedes(h, i, i)
         /\ Precedes(h, i, j) => ~Precedes(h, j, i)
         /\ i # j => Precedes(h, i, j) \/ Precedes(h, j, i)
<1>1. /\ i \in Nat /\ j \in Nat /\ h[i].created \in Nat /\ h[j].created \in Nat
  BY MessageTyped
<1> QED BY <1>1 DEF Precedes

LEMMA PrecedesTransitive ==
  ASSUME NEW h \in Seq(MessageType), NEW i \in DOMAIN h, NEW j \in DOMAIN h, NEW k \in DOMAIN h,
         Precedes(h, i, j), Precedes(h, j, k)
  PROVE  Precedes(h, i, k)
<1>1. /\ i \in Nat /\ j \in Nat /\ k \in Nat
      /\ h[i].created \in Nat /\ h[j].created \in Nat /\ h[k].created \in Nat
  BY MessageTyped
<1> QED BY <1>1 DEF Precedes

LEMMA LastIsLast ==
  ASSUME NEW h \in Seq(MessageType), NEW i \in DOMAIN h, IsLast(h, i)
  PROVE  LastMessage(h) = i
<1>1. \A j \in DOMAIN h : IsLast(h, j) => j = i
  BY PrecedesTotal DEF IsLast
<1> QED BY <1>1 DEF LastMessage

LEMMA LastExists ==
  ASSUME NEW h \in Seq(MessageType), HasLast(h), h # <<>>
  PROVE  LastMessage(h) \in DOMAIN h /\ IsLast(h, LastMessage(h))
BY DEF HasLast, LastMessage

LEMMA EpochIsLatest ==
  ASSUME NEW h \in Seq(MessageType), NEW s \in DOMAIN h, IsLatestSummary(h, s)
  PROVE  Epoch(h) = s /\ s # 0
<1>1. \A r \in DOMAIN h : IsLatestSummary(h, r) => r = s
  BY PrecedesTotal DEF IsLatestSummary
<1>2. IsSummary(h, s) /\ s # 0
  BY MessageTyped DEF IsLatestSummary
<1>3. (CHOOSE r \in DOMAIN h : IsLatestSummary(h, r)) = s
  BY <1>1
<1> QED BY <1>2, <1>3 DEF Epoch

LEMMA NoEpoch ==
  ASSUME NEW h, ~(\E s \in DOMAIN h : IsSummary(h, s))
  PROVE  Epoch(h) = 0
BY DEF Epoch

LEMMA EpochExists ==
  ASSUME NEW h \in Seq(MessageType), HasEpoch(h)
  PROVE  \/ Epoch(h) = 0 /\ ~(\E s \in DOMAIN h : IsSummary(h, s))
         \/ Epoch(h) \in DOMAIN h /\ Epoch(h) # 0 /\ IsLatestSummary(h, Epoch(h))
BY NoEpoch, EpochIsLatest DEF HasEpoch

\* A view by cases.
LEMMA ViewWithout ==
  ASSUME NEW h, Epoch(h) = 0
  PROVE  EffectiveMessages(h) = SubagentContextMessages(h)
BY DEF EffectiveMessages

LEMMA ViewBehind ==
  ASSUME NEW h, Epoch(h) # 0
  PROVE  EffectiveMessages(h) =
           {Epoch(h)} \cup h[Epoch(h)].tail
             \cup {i \in SubagentContextMessages(h) : Precedes(h, Epoch(h), i)}
BY DEF EffectiveMessages

-----------------------------------------------------------------------------
(* A message at the end *)

\* The history h2 is h with m behind everything else.
Grows(h, m, h2) ==
  /\ m \in MessageType
  /\ \A i \in DOMAIN h : h[i].created <= m.created
  /\ h2 = Append(h, m)

LEMMA GrownRows ==
  ASSUME NEW h \in Seq(MessageType), NEW m, NEW h2, Grows(h, m, h2)
  PROVE  /\ h2 \in Seq(MessageType)
         /\ Len(h) \in Nat /\ Len(h2) = Len(h) + 1 /\ h2 # <<>>
         /\ DOMAIN h2 = DOMAIN h \cup {Len(h) + 1}
         /\ DOMAIN h = 1..Len(h)
         /\ Len(h) + 1 \notin DOMAIN h /\ Len(h) + 1 \in DOMAIN h2
         /\ \A i \in DOMAIN h : h2[i] = h[i]
         /\ \A i \in DOMAIN h : i \in DOMAIN h2
         /\ h2[Len(h) + 1] = m
BY DEF Grows

LEMMA GrownOrder ==
  ASSUME NEW h \in Seq(MessageType), NEW m, NEW h2, Grows(h, m, h2)
  PROVE  /\ \A i, j \in DOMAIN h : Precedes(h2, i, j) <=> Precedes(h, i, j)
         /\ \A i \in DOMAIN h : Precedes(h2, i, Len(h) + 1) /\ ~Precedes(h2, Len(h) + 1, i)
         /\ ~Precedes(h2, Len(h) + 1, Len(h) + 1)
<1>0. /\ DOMAIN h2 = DOMAIN h \cup {Len(h) + 1} /\ Len(h) + 1 \notin DOMAIN h
      /\ \A i \in DOMAIN h : h2[i] = h[i]
      /\ h2[Len(h) + 1] = m
  BY GrownRows
<1>1. \A i, j \in DOMAIN h : Precedes(h2, i, j) <=> Precedes(h, i, j)
  BY <1>0 DEF Precedes
<1>2. ASSUME NEW i \in DOMAIN h PROVE Precedes(h2, i, Len(h) + 1)
  <2>1. i < Len(h) + 1 /\ h2[i] = h[i] /\ h2[Len(h) + 1] = m /\ h[i].created <= m.created
    BY <1>0, MessageTyped DEF Grows
  <2>2. h[i].created \in Nat /\ m.created \in Nat
    BY MessageTyped DEF Grows, MessageType
  <2> QED BY <2>1, <2>2 DEF Precedes
<1>3. h2 \in Seq(MessageType)
  BY GrownRows
<1>4. Len(h) + 1 \in DOMAIN h2 /\ DOMAIN h \subseteq DOMAIN h2
  BY <1>0
<1> QED BY <1>1, <1>2, <1>3, <1>4, PrecedesTotal

LEMMA GrownLast ==
  ASSUME NEW h \in Seq(MessageType), NEW m, NEW h2, Grows(h, m, h2)
  PROVE  LastMessage(h2) = Len(h) + 1 /\ HasLast(h2)
<1>1. IsLast(h2, Len(h) + 1)
  BY ZenonT(30), GrownRows, GrownOrder DEF IsLast
<1> QED BY <1>1, GrownRows, LastIsLast DEF HasLast

LEMMA GrownContext ==
  ASSUME NEW h \in Seq(MessageType), NEW m, NEW h2, Grows(h, m, h2), m.kind # "reset"
  PROVE  SubagentContextMessages(h2) = SubagentContextMessages(h) \cup {Len(h) + 1}
<1>0. /\ DOMAIN h2 = DOMAIN h \cup {Len(h) + 1} /\ Len(h) + 1 \notin DOMAIN h
      /\ \A i \in DOMAIN h : h2[i] = h[i]
      /\ h2[Len(h) + 1] = m
  BY GrownRows
<1>1. \A r \in DOMAIN h2 : h2[r].kind = "reset" <=> r \in DOMAIN h /\ h[r].kind = "reset"
  BY <1>0
<1>2. Len(h) + 1 \in SubagentContextMessages(h2)
  BY <1>1, <1>0, GrownOrder DEF SubagentContextMessages
<1>3. ASSUME NEW i \in DOMAIN h
      PROVE  i \in SubagentContextMessages(h2) <=> i \in SubagentContextMessages(h)
  BY <1>1, <1>0, GrownOrder DEF SubagentContextMessages
<1>4. SubagentContextMessages(h2) \subseteq DOMAIN h2 /\ SubagentContextMessages(h) \subseteq DOMAIN h
  BY DEF SubagentContextMessages
<1> QED BY <1>2, <1>3, <1>4, <1>0

\* A message that is no summary joins the view.
LEMMA GrownView ==
  ASSUME NEW h \in Seq(MessageType), HasEpoch(h), NEW m, NEW h2, Grows(h, m, h2),
         m.kind \notin {"reset", "summary"}
  PROVE  /\ HasEpoch(h2)
         /\ Epoch(h2) = Epoch(h)
         /\ EffectiveMessages(h2) = EffectiveMessages(h) \cup {Len(h) + 1}
<1>0. /\ DOMAIN h2 = DOMAIN h \cup {Len(h) + 1} /\ Len(h) + 1 \notin DOMAIN h
      /\ \A i \in DOMAIN h : h2[i] = h[i]
      /\ h2[Len(h) + 1] = m
  BY GrownRows
<1>1. \A s \in DOMAIN h2 : IsSummary(h2, s) <=> s \in DOMAIN h /\ IsSummary(h, s)
  BY GrownContext, <1>0 DEF IsSummary, SubagentContextMessages
<1>2. \A s \in DOMAIN h : IsLatestSummary(h2, s) <=> IsLatestSummary(h, s)
  BY <1>1, <1>0, GrownOrder DEF IsLatestSummary
<1>3. CASE Epoch(h) = 0 /\ ~(\E s \in DOMAIN h : IsSummary(h, s))
  <2>1. ~(\E s \in DOMAIN h2 : IsSummary(h2, s))
    BY <1>1, <1>3
  <2>2. Epoch(h2) = 0
    BY <2>1, NoEpoch
  <2> QED BY <1>3, <2>1, <2>2, ViewWithout, GrownContext DEF HasEpoch
<1>4. CASE Epoch(h) \in DOMAIN h /\ Epoch(h) # 0 /\ IsLatestSummary(h, Epoch(h))
  <2>1. Epoch(h) \in DOMAIN h2 /\ IsLatestSummary(h2, Epoch(h))
    BY <1>2, <1>4, <1>0
  <2>5. h2 \in Seq(MessageType)
    BY GrownRows
  <2>6. Epoch(h2) = Epoch(h)
    BY <2>1, <2>5, EpochIsLatest
  <2>2. Epoch(h2) = Epoch(h) /\ HasEpoch(h2)
    BY <2>1, <2>6 DEF HasEpoch
  <2>3. h2[Epoch(h)].tail = h[Epoch(h)].tail
    BY <1>4, <1>0
  <2>4. {i \in SubagentContextMessages(h2) : Precedes(h2, Epoch(h), i)}
          = {i \in SubagentContextMessages(h) : Precedes(h, Epoch(h), i)} \cup {Len(h) + 1}
    <3>1. SubagentContextMessages(h) \subseteq DOMAIN h
      BY DEF SubagentContextMessages
    <3> QED BY <1>4, <3>1, GrownContext, GrownOrder
  <2> QED BY <1>4, <2>2, <2>3, <2>4, ViewBehind
<1> QED BY <1>3, <1>4, EpochExists

\* A summary replaces the view by itself and its tail.
LEMMA SummarisedView ==
  ASSUME NEW h \in Seq(MessageType), NEW m, NEW h2, Grows(h, m, h2), m.kind = "summary"
  PROVE  /\ HasEpoch(h2)
         /\ EffectiveMessages(h2) = m.tail \cup {Len(h) + 1}
<1>0. /\ DOMAIN h2 = DOMAIN h \cup {Len(h) + 1} /\ Len(h) + 1 \notin DOMAIN h
      /\ \A i \in DOMAIN h : h2[i] = h[i]
      /\ h2[Len(h) + 1] = m
  BY GrownRows
<1>1. Len(h) + 1 \in DOMAIN h2 /\ IsSummary(h2, Len(h) + 1)
  BY GrownContext, <1>0 DEF IsSummary
<1>2. \A i \in DOMAIN h2 : i = Len(h) + 1 \/ Precedes(h2, i, Len(h) + 1)
  BY <1>0, GrownOrder
<1>3. IsLatestSummary(h2, Len(h) + 1)
  BY <1>1, <1>2 DEF IsLatestSummary
<1>4. h2 \in Seq(MessageType) /\ HasEpoch(h2)
  BY <1>1, <1>3, GrownRows DEF HasEpoch
<1>8. Epoch(h2) = Len(h) + 1 /\ Epoch(h2) # 0
  BY <1>1, <1>3, <1>4, EpochIsLatest
<1>5. SubagentContextMessages(h2) \subseteq DOMAIN h2
  BY DEF SubagentContextMessages
<1>6. {i \in SubagentContextMessages(h2) : Precedes(h2, Len(h) + 1, i)} = {}
  BY <1>5, <1>0, GrownOrder
<1>7. h2[Len(h) + 1] = m
  BY <1>0
<1> QED BY <1>4, <1>6, <1>7, <1>8, ViewBehind

\* A reset empties it.
LEMMA ResetView ==
  ASSUME NEW h \in Seq(MessageType), NEW m, NEW h2, Grows(h, m, h2), m.kind = "reset"
  PROVE  HasEpoch(h2) /\ SubagentContextMessages(h2) = {} /\ EffectiveMessages(h2) = {}
<1>0. /\ DOMAIN h2 = DOMAIN h \cup {Len(h) + 1} /\ Len(h) + 1 \notin DOMAIN h
      /\ \A i \in DOMAIN h : h2[i] = h[i]
      /\ h2[Len(h) + 1] = m
  BY GrownRows
<1>1. SubagentContextMessages(h2) = {}
  <2> SUFFICES ASSUME NEW i \in SubagentContextMessages(h2) PROVE FALSE
    OBVIOUS
  <2>1. i \in DOMAIN h2 /\ Precedes(h2, Len(h) + 1, i)
    BY <1>0 DEF SubagentContextMessages
  <2> QED BY <2>1, <1>0, GrownOrder
<1>2. ~(\E s \in DOMAIN h2 : IsSummary(h2, s))
  BY <1>1 DEF IsSummary
<1> QED BY <1>1, <1>2, NoEpoch, ViewWithout DEF HasEpoch

-----------------------------------------------------------------------------
(* Messages that move to the end *)

Moves(h, waiting, c, h2) ==
  /\ c \in Nat /\ \A i \in DOMAIN h : h[i].created < c
  /\ waiting \subseteq {i \in SubagentContextMessages(h) : h[i].kind = "steer"}
  /\ waiting # {} => \E m \in waiting : \A i \in waiting : i <= m
  /\ h2 = [i \in DOMAIN h |-> IF i \in waiting THEN [h[i] EXCEPT !.created = c] ELSE h[i]]

LEMMA MovedRows ==
  ASSUME NEW h \in Seq(MessageType), NEW waiting, NEW c, NEW h2, Moves(h, waiting, c, h2)
  PROVE  /\ h2 \in Seq(MessageType)
         /\ Len(h2) = Len(h) /\ DOMAIN h2 = DOMAIN h
         /\ \A i \in DOMAIN h : h2[i].kind = h[i].kind /\ h2[i].turn = h[i].turn
         /\ \A i \in DOMAIN h : h2[i].cold = h[i].cold /\ h2[i].tail = h[i].tail
         /\ \A i \in DOMAIN h \ waiting : h2[i] = h[i]
         /\ \A i \in waiting : i \in DOMAIN h /\ h2[i].created = c /\ h[i].kind = "steer"
<1>1. \A m \in MessageType :
        LET n == [m EXCEPT !.created = c]
        IN /\ n \in MessageType /\ n.kind = m.kind /\ n.turn = m.turn /\ n.created = c
           /\ n.cold = m.cold /\ n.tail = m.tail
  BY DEF Moves, MessageType
<1>2. \A i \in DOMAIN h : h[i] \in MessageType
  BY MessageTyped
<1>3. DOMAIN h2 = DOMAIN h
  BY DEF Moves
<1>4. \A i \in DOMAIN h :
        h2[i] = IF i \in waiting THEN [h[i] EXCEPT !.created = c] ELSE h[i]
  BY DEF Moves
<1>5. \A i \in DOMAIN h : h2[i] \in MessageType
  BY <1>1, <1>2, <1>4
<1>6. h2 \in Seq(MessageType) /\ Len(h2) = Len(h)
  <2>1. Len(h) \in Nat /\ DOMAIN h = 1..Len(h)
    OBVIOUS
  <2>2. h2 = [i \in 1..Len(h) |-> IF i \in waiting THEN [h[i] EXCEPT !.created = c] ELSE h[i]]
    BY <2>1 DEF Moves
  <2>3. \A i \in 1..Len(h) :
          (IF i \in waiting THEN [h[i] EXCEPT !.created = c] ELSE h[i]) \in MessageType
    BY <1>4, <1>5, <2>1
  <2> QED BY <2>1, <2>2, <2>3
<1>7. waiting \subseteq DOMAIN h /\ \A i \in waiting : h[i].kind = "steer"
  BY DEF Moves, SubagentContextMessages
<1>8. \A i \in DOMAIN h : h2[i].kind = h[i].kind /\ h2[i].turn = h[i].turn
  BY <1>1, <1>2, <1>4
<1>9. \A i \in DOMAIN h : h2[i].cold = h[i].cold /\ h2[i].tail = h[i].tail
  BY <1>1, <1>2, <1>4
<1>10. \A i \in DOMAIN h \ waiting : h2[i] = h[i]
  BY <1>4
<1>11. ASSUME NEW i \in waiting PROVE h2[i].created = c
  <2>1. i \in DOMAIN h /\ h[i] \in MessageType
    BY <1>2, <1>7
  <2>2. h2[i] = [h[i] EXCEPT !.created = c]
    BY <1>4, <2>1
  <2> QED BY <1>1, <2>1, <2>2
<1> QED BY <1>3, <1>6, <1>7, <1>8, <1>9, <1>10, <1>11

LEMMA MovedOrder ==
  ASSUME NEW h \in Seq(MessageType), NEW waiting, NEW c, NEW h2, Moves(h, waiting, c, h2)
  PROVE  /\ \A i, j \in DOMAIN h \ waiting : Precedes(h2, i, j) <=> Precedes(h, i, j)
         /\ \A i \in DOMAIN h \ waiting, j \in waiting : Precedes(h2, i, j)
         /\ \A i, j \in waiting : Precedes(h2, i, j) <=> i < j
<1>1. \A i \in DOMAIN h \ waiting : h2[i] = h[i]
  BY MovedRows
<1>2. \A i \in waiting : i \in DOMAIN h /\ h2[i].created = c
  BY MovedRows
<1>3. c \in Nat /\ \A i \in DOMAIN h : h[i].created \in Nat /\ h[i].created < c
  BY MessageTyped DEF Moves
<1> QED BY <1>1, <1>2, <1>3 DEF Precedes

LEMMA MovedLast ==
  ASSUME NEW h \in Seq(MessageType), HasLast(h), NEW waiting, NEW c, NEW h2, Moves(h, waiting, c, h2)
  PROVE  HasLast(h2)
<1>1. /\ \A i \in DOMAIN h \ waiting : h2[i] = h[i]
      /\ \A i \in waiting : i \in DOMAIN h
      /\ DOMAIN h2 = DOMAIN h
  BY MovedRows
<1>2. CASE waiting = {}
  <2>1. h2 # <<>> => h # <<>>
    BY <1>1, MovedRows
  <2>2. \A i \in DOMAIN h : IsLast(h, i) => IsLast(h2, i)
    BY <1>1, <1>2, MovedOrder DEF IsLast
  <2> QED BY <1>1, <2>1, <2>2 DEF HasLast
<1>3. CASE waiting # {}
  <2>1. PICK m \in waiting : \A i \in waiting : i <= m
    BY <1>3 DEF Moves
  <2>2. m \in DOMAIN h /\ m \in Nat /\ \A i \in waiting : i \in Nat
    BY <1>1, MessageTyped
  <2>3. \A i \in DOMAIN h2 \ {m} : Precedes(h2, i, m)
    <3> SUFFICES ASSUME NEW i \in DOMAIN h2 \ {m} PROVE Precedes(h2, i, m)
      OBVIOUS
    <3>1. CASE i \in waiting
      BY <2>1, <2>2, <3>1, MovedOrder
    <3>2. CASE i \notin waiting
      BY <1>1, <3>2, MovedOrder
    <3> QED BY <3>1, <3>2
  <2> QED BY <1>1, <2>2, <2>3 DEF HasLast, IsLast
<1> QED BY <1>2, <1>3

LEMMA MovedContext ==
  ASSUME NEW h \in Seq(MessageType), NEW waiting, NEW c, NEW h2, Moves(h, waiting, c, h2)
  PROVE  SubagentContextMessages(h2) = SubagentContextMessages(h)
<1>1. /\ DOMAIN h2 = DOMAIN h
      /\ \A i \in DOMAIN h : h2[i].kind = h[i].kind
  BY MovedRows
<1>2. \A i \in waiting : i \in DOMAIN h /\ h[i].kind = "steer"
  BY MovedRows
<1>3. waiting \subseteq SubagentContextMessages(h)
  BY DEF Moves
<1>4. \A r \in DOMAIN h : h[r].kind = "reset" => r \notin waiting
  BY <1>2
<1>5. ASSUME NEW i \in DOMAIN h
      PROVE  i \in SubagentContextMessages(h2) <=> i \in SubagentContextMessages(h)
  <2>1. CASE i \in waiting
    BY <1>1, <1>3, <1>4, <2>1, MovedOrder DEF SubagentContextMessages
  <2>2. CASE i \notin waiting
    BY <1>1, <1>4, <2>2, MovedOrder DEF SubagentContextMessages
  <2> QED BY <2>1, <2>2
<1>6. SubagentContextMessages(h2) \subseteq DOMAIN h /\ SubagentContextMessages(h) \subseteq DOMAIN h
  BY <1>1 DEF SubagentContextMessages
<1> QED BY <1>5, <1>6

LEMMA MovedView ==
  ASSUME NEW h \in Seq(MessageType), HasEpoch(h), NEW waiting, NEW c, NEW h2,
         Moves(h, waiting, c, h2)
  PROVE  /\ HasEpoch(h2)
         /\ Epoch(h2) = Epoch(h)
         /\ EffectiveMessages(h2) = EffectiveMessages(h) \cup waiting
<1>1. /\ DOMAIN h2 = DOMAIN h
      /\ \A i \in DOMAIN h : h2[i].kind = h[i].kind
  BY MovedRows
<1>2. \A i \in waiting : i \in DOMAIN h /\ h[i].kind = "steer"
  BY MovedRows
<1>3. waiting \subseteq SubagentContextMessages(h)
  BY DEF Moves
<1>4. \A s \in DOMAIN h : IsSummary(h2, s) <=> IsSummary(h, s)
  BY <1>1, MovedContext DEF IsSummary
<1>5. \A s \in DOMAIN h : IsSummary(h, s) => s \notin waiting
  BY <1>2 DEF IsSummary
<1>6. \A s \in DOMAIN h : IsLatestSummary(h2, s) <=> IsLatestSummary(h, s)
  BY <1>1, <1>4, <1>5, MovedOrder DEF IsLatestSummary
<1>7. h2 \in Seq(MessageType)
  BY MovedRows
<1>8. CASE Epoch(h) = 0 /\ ~(\E s \in DOMAIN h : IsSummary(h, s))
  <2>1. ~(\E s \in DOMAIN h2 : IsSummary(h2, s))
    BY <1>1, <1>4, <1>8
  <2>2. Epoch(h2) = 0
    BY <2>1, NoEpoch
  <2>3. EffectiveMessages(h2) = EffectiveMessages(h)
    BY <1>8, <2>2, ViewWithout, MovedContext
  <2>4. waiting \subseteq EffectiveMessages(h)
    BY <1>3, <1>8, ViewWithout
  <2> QED BY <1>8, <2>1, <2>2, <2>3, <2>4 DEF HasEpoch
<1>9. CASE Epoch(h) \in DOMAIN h /\ Epoch(h) # 0 /\ IsLatestSummary(h, Epoch(h))
  <2>1. Epoch(h) \in DOMAIN h2 /\ IsLatestSummary(h2, Epoch(h))
    BY <1>1, <1>6, <1>9
  <2>2. Epoch(h2) = Epoch(h)
    BY <1>7, <2>1, EpochIsLatest
  <2>3. h2[Epoch(h)].tail = h[Epoch(h)].tail
    BY <1>9, MovedRows
  <2>4. Epoch(h) \notin waiting
    BY <1>5, <1>9 DEF IsLatestSummary
  <2>5. {i \in SubagentContextMessages(h2) : Precedes(h2, Epoch(h), i)}
          = {i \in SubagentContextMessages(h) : Precedes(h, Epoch(h), i)} \cup waiting
    <3>1. SubagentContextMessages(h) \subseteq DOMAIN h
      BY DEF SubagentContextMessages
    <3>2. ASSUME NEW i \in SubagentContextMessages(h)
          PROVE  Precedes(h2, Epoch(h), i) <=> Precedes(h, Epoch(h), i) \/ i \in waiting
      <4>1. CASE i \in waiting
        BY <1>9, <2>4, <4>1, MovedOrder
      <4>2. CASE i \notin waiting
        BY <1>9, <2>4, <3>1, <4>2, MovedOrder
      <4> QED BY <4>1, <4>2
    <3> QED BY <1>3, <3>2, MovedContext
  <2>6. EffectiveMessages(h2) = EffectiveMessages(h) \cup waiting
    BY <1>9, <2>2, <2>3, <2>5, ViewBehind
  <2> QED BY <2>1, <2>2, <2>6 DEF HasEpoch
<1> QED BY <1>8, <1>9, EpochExists

-----------------------------------------------------------------------------
(* What stays true of a history that grows or moves *)

\* An exchange is known by kinds, turns and places, which never change.
LEMMA CallStays ==
  ASSUME NEW h, NEW h2, NEW i, NEW c,
         i \in Nat, 1..i \subseteq DOMAIN h,
         \A j \in DOMAIN h : h2[j].kind = h[j].kind /\ h2[j].turn = h[j].turn,
         IsCallOf(h, i, c)
  PROVE  IsCallOf(h2, i, c)
<1>1. c \in 1..i /\ (i # 0 => i \in 1..i)
  BY DEF IsCallOf
<1>2. (c + 1)..i \subseteq DOMAIN h /\ c..i \subseteq DOMAIN h /\ i \in DOMAIN h /\ c \in DOMAIN h
  BY <1>1
<1> QED BY <1>2 DEF IsCallOf

LEMMA GrownCalls ==
  ASSUME NEW h \in Seq(MessageType), NEW m, NEW h2, Grows(h, m, h2), NEW view \in SUBSET DOMAIN h,
         Whole(h, view)
  PROVE  Whole(h2, view)
<1>1. \A i \in DOMAIN h : h2[i] = h[i]
  BY GrownRows
<1>2. \A i \in view : i \in Nat /\ 1..i \subseteq DOMAIN h
  BY MessageTyped, GrownRows
<1> QED BY <1>1, <1>2, CallStays DEF Whole

LEMMA MovedCalls ==
  ASSUME NEW h \in Seq(MessageType), NEW waiting, NEW c, NEW h2, Moves(h, waiting, c, h2),
         NEW view \in SUBSET DOMAIN h, Whole(h, view)
  PROVE  Whole(h2, view)
<1>1. \A i \in DOMAIN h : h2[i].kind = h[i].kind /\ h2[i].turn = h[i].turn
  BY MovedRows
<1>2. \A i \in view : i \in Nat /\ 1..i \subseteq DOMAIN h
  <2>1. DOMAIN h = 1..Len(h) /\ Len(h) \in Nat
    OBVIOUS
  <2> QED BY <2>1
<1> QED BY <1>1, <1>2, CallStays DEF Whole

LEMMA GrownOrdered ==
  ASSUME NEW h \in Seq(MessageType), NEW m, NEW h2, Grows(h, m, h2), Ordered(h)
  PROVE  Ordered(h2)
<1>1. /\ DOMAIN h2 = DOMAIN h \cup {Len(h) + 1} /\ Len(h) \in Nat
      /\ \A i \in DOMAIN h : h2[i] = h[i]
      /\ h2[Len(h) + 1] = m
  BY GrownRows
<1>2. /\ \A i \in DOMAIN h : i \in Nat /\ i < Len(h) + 1
      /\ \A i \in DOMAIN h : h[i].created <= m.created
  BY MessageTyped DEF Grows
<1> QED BY <1>1, <1>2 DEF Ordered

LEMMA MovedOrdered ==
  ASSUME NEW h \in Seq(MessageType), NEW waiting, NEW c, NEW h2, Moves(h, waiting, c, h2), Ordered(h)
  PROVE  Ordered(h2)
<1>1. /\ DOMAIN h2 = DOMAIN h
      /\ \A i \in DOMAIN h : h2[i].kind = h[i].kind
      /\ \A i \in DOMAIN h \ waiting : h2[i] = h[i]
      /\ \A i \in waiting : h[i].kind = "steer"
  BY MovedRows
<1> QED BY <1>1 DEF Ordered

LEMMA ViewInHistory ==
  ASSUME NEW h, EffectiveMessages(h) \subseteq SubagentContextMessages(h)
  PROVE  EffectiveMessages(h) \subseteq DOMAIN h /\ SubagentContextMessages(h) \subseteq DOMAIN h
BY DEF SubagentContextMessages

\* Messages that are neither summaries nor resets.
LEMMA GrownHistory ==
  ASSUME NEW h, NEW last \in Nat, HistoryInv(h, last),
         NEW m, NEW h2, Grows(h, m, h2), m.kind \notin {"reset", "summary"},
         NEW next \in Nat, last <= next, m.turn <= next,
         m.kind = "result" => OpenCall(h, m.turn)
  PROVE  HistoryInv(h2, next)
<1>1. h \in Seq(MessageType) /\ HasLast(h) /\ HasEpoch(h)
  BY DEF HistoryInv
<1>2. /\ DOMAIN h2 = DOMAIN h \cup {Len(h) + 1} /\ Len(h) \in Nat /\ DOMAIN h = 1..Len(h)
      /\ \A i \in DOMAIN h : h2[i] = h[i]
      /\ h2[Len(h) + 1] = m
  BY <1>1, GrownRows
<1>3. h2 \in Seq(MessageType) /\ HasLast(h2) /\ HasEpoch(h2) /\ Ordered(h2)
  BY <1>1, GrownRows, GrownLast, GrownView, GrownOrdered DEF HistoryInv
<1>4. /\ EffectiveMessages(h2) = EffectiveMessages(h) \cup {Len(h) + 1}
      /\ SubagentContextMessages(h2) = SubagentContextMessages(h) \cup {Len(h) + 1}
  BY <1>1, GrownView, GrownContext
<1>5. EffectiveMessages(h2) \subseteq SubagentContextMessages(h2)
  BY <1>4 DEF HistoryInv
<1>6. EffectiveMessages(h) \subseteq DOMAIN h
  BY ViewInHistory DEF HistoryInv
<1>7. Whole(h2, EffectiveMessages(h))
  BY <1>1, <1>6, GrownCalls DEF HistoryInv
<1>8. ASSUME m.kind = "result"
      PROVE  \E c \in EffectiveMessages(h) : IsCallOf(h2, Len(h) + 1, c)
  <2>1. PICK c \in EffectiveMessages(h) :
          /\ h[c].kind = "call" /\ h[c].turn = m.turn
          /\ \A d \in (c + 1)..Len(h) : ~(h[d].kind = "call" /\ h[d].turn = m.turn)
          /\ \A b \in c..Len(h) : h[b].kind # "input"
    BY <1>8 DEF OpenCall
  <2>2. c \in DOMAIN h /\ c \in 1..Len(h)
    BY <1>2, <1>6
  <2>3. \A d \in (c + 1)..Len(h) : h2[d] = h[d]
    BY <1>2, <2>2
  <2>4. \A b \in c..Len(h) : h2[b] = h[b]
    BY <1>2, <2>2
  <2>5. /\ (c + 1)..(Len(h) + 1) = (c + 1)..Len(h) \cup {Len(h) + 1}
        /\ c..(Len(h) + 1) = c..Len(h) \cup {Len(h) + 1}
        /\ c \in 1..(Len(h) + 1)
    BY <1>2, <2>2
  <2>6. h2[c] = h[c]
    BY <1>2, <2>2
  <2>7. IsCallOf(h2, Len(h) + 1, c)
    BY <1>2, <1>8, <2>1, <2>3, <2>4, <2>5, <2>6 DEF IsCallOf
  <2> QED BY <2>7
<1>9. Whole(h2, EffectiveMessages(h2))
  BY <1>2, <1>4, <1>7, <1>8 DEF Whole
<1>10. \A i \in DOMAIN h2 : h2[i].turn <= next
  <2>1. \A i \in DOMAIN h : h[i].turn \in Nat /\ h[i].turn <= last
    BY <1>1, MessageTyped DEF HistoryInv
  <2> QED BY <1>2, <2>1
<1> QED BY <1>3, <1>5, <1>9, <1>10 DEF HistoryInv

LEMMA SummarisedHistory ==
  ASSUME NEW h, NEW last \in Nat, HistoryInv(h, last),
         NEW m, NEW h2, Grows(h, m, h2), m.kind = "summary",
         NEW next \in Nat, last <= next, m.turn <= next,
         m.tail \subseteq SubagentContextMessages(h), Whole(h, m.tail)
  PROVE  HistoryInv(h2, next)
<1>1. h \in Seq(MessageType) /\ HasLast(h) /\ HasEpoch(h)
  BY DEF HistoryInv
<1>2. /\ DOMAIN h2 = DOMAIN h \cup {Len(h) + 1}
      /\ \A i \in DOMAIN h : h2[i] = h[i]
      /\ h2[Len(h) + 1] = m
  BY <1>1, GrownRows
<1>3. h2 \in Seq(MessageType) /\ HasLast(h2) /\ HasEpoch(h2) /\ Ordered(h2)
  BY <1>1, GrownRows, GrownLast, SummarisedView, GrownOrdered DEF HistoryInv
<1>4. /\ EffectiveMessages(h2) = m.tail \cup {Len(h) + 1}
      /\ SubagentContextMessages(h2) = SubagentContextMessages(h) \cup {Len(h) + 1}
  BY <1>1, SummarisedView, GrownContext
<1>5. m.tail \subseteq DOMAIN h
  BY DEF SubagentContextMessages
<1>6. Whole(h2, m.tail)
  BY <1>1, <1>5, GrownCalls
<1>7. Whole(h2, EffectiveMessages(h2))
  BY <1>2, <1>4, <1>6 DEF Whole
<1>8. \A i \in DOMAIN h2 : h2[i].turn <= next
  <2>1. \A i \in DOMAIN h : h[i].turn \in Nat /\ h[i].turn <= last
    BY <1>1, MessageTyped DEF HistoryInv
  <2> QED BY <1>2, <2>1
<1> QED BY <1>3, <1>4, <1>7, <1>8 DEF HistoryInv

LEMMA ResetHistory ==
  ASSUME NEW h, NEW last \in Nat, HistoryInv(h, last),
         NEW m, NEW h2, Grows(h, m, h2), m.kind = "reset",
         NEW next \in Nat, last <= next, m.turn <= next
  PROVE  HistoryInv(h2, next)
<1>1. h \in Seq(MessageType) /\ HasLast(h) /\ HasEpoch(h)
  BY DEF HistoryInv
<1>2. /\ DOMAIN h2 = DOMAIN h \cup {Len(h) + 1}
      /\ \A i \in DOMAIN h : h2[i] = h[i]
      /\ h2[Len(h) + 1] = m
  BY <1>1, GrownRows
<1>3. h2 \in Seq(MessageType) /\ HasLast(h2) /\ HasEpoch(h2) /\ Ordered(h2)
  BY <1>1, GrownRows, GrownLast, ResetView, GrownOrdered DEF HistoryInv
<1>4. EffectiveMessages(h2) = {} /\ SubagentContextMessages(h2) = {}
  BY <1>1, ResetView
<1>5. \A i \in DOMAIN h2 : h2[i].turn <= next
  <2>1. \A i \in DOMAIN h : h[i].turn \in Nat /\ h[i].turn <= last
    BY <1>1, MessageTyped DEF HistoryInv
  <2> QED BY <1>2, <2>1
<1> QED BY <1>3, <1>4, <1>5 DEF HistoryInv, Whole

LEMMA MovedHistory ==
  ASSUME NEW h, NEW last, HistoryInv(h, last),
         NEW waiting, NEW c, NEW h2, Moves(h, waiting, c, h2)
  PROVE  HistoryInv(h2, last)
<1>1. h \in Seq(MessageType) /\ HasLast(h) /\ HasEpoch(h)
  BY DEF HistoryInv
<1>2. /\ DOMAIN h2 = DOMAIN h
      /\ \A i \in DOMAIN h : h2[i].kind = h[i].kind /\ h2[i].turn = h[i].turn
      /\ \A i \in waiting : h[i].kind = "steer"
  BY <1>1, MovedRows
<1>3. h2 \in Seq(MessageType) /\ HasLast(h2) /\ HasEpoch(h2) /\ Ordered(h2)
  BY <1>1, MovedRows, MovedLast, MovedView, MovedOrdered DEF HistoryInv
<1>4. /\ EffectiveMessages(h2) = EffectiveMessages(h) \cup waiting
      /\ SubagentContextMessages(h2) = SubagentContextMessages(h)
  BY <1>1, MovedView, MovedContext
<1>5. EffectiveMessages(h2) \subseteq SubagentContextMessages(h2)
  BY <1>4 DEF HistoryInv, Moves
<1>6. EffectiveMessages(h) \subseteq DOMAIN h
  BY ViewInHistory DEF HistoryInv
<1>7. Whole(h2, EffectiveMessages(h))
  BY <1>1, <1>6, MovedCalls DEF HistoryInv
<1>8. \A i \in waiting : h2[i].kind # "result"
  BY <1>1, <1>2, MovedRows
<1>9. Whole(h2, EffectiveMessages(h2))
  BY <1>4, <1>7, <1>8 DEF Whole
<1> QED BY <1>2, <1>3, <1>5, <1>9 DEF HistoryInv

\* No message is forgotten by these.
LEMMA GrownRemembered ==
  ASSUME NEW h, NEW lost, h \in Seq(MessageType), HasEpoch(h), Remembered(h, lost),
         NEW m, NEW h2, Grows(h, m, h2), m.kind # "summary"
  PROVE  Remembered(h2, lost)
<1>1. CASE m.kind = "reset"
  BY <1>1, ResetView DEF Remembered
<1>2. CASE m.kind # "reset"
  <2>1. /\ EffectiveMessages(h2) = EffectiveMessages(h) \cup {Len(h) + 1}
        /\ SubagentContextMessages(h2) = SubagentContextMessages(h) \cup {Len(h) + 1}
    BY <1>2, GrownView, GrownContext
  <2>4. \A s \in DOMAIN h : h2[s] = h[s]
    BY GrownRows
  <2>2. \A s \in SubagentContextMessages(h) : h2[s] = h[s]
    BY <2>4 DEF SubagentContextMessages
  <2>3. \A i : Covered(h, i) => Covered(h2, i)
    BY <2>1, <2>2 DEF Covered
  <2> QED BY <2>1, <2>3 DEF Remembered
<1> QED BY <1>1, <1>2

LEMMA MovedRemembered ==
  ASSUME NEW h, NEW lost, h \in Seq(MessageType), HasEpoch(h), Remembered(h, lost),
         NEW waiting, NEW c, NEW h2, Moves(h, waiting, c, h2)
  PROVE  Remembered(h2, lost)
<1>1. /\ EffectiveMessages(h2) = EffectiveMessages(h) \cup waiting
      /\ SubagentContextMessages(h2) = SubagentContextMessages(h)
  BY MovedView, MovedContext
<1>2. \A s \in SubagentContextMessages(h) : h2[s].kind = h[s].kind /\ h2[s].cold = h[s].cold
  BY MovedRows DEF SubagentContextMessages
<1>3. \A i : Covered(h, i) => Covered(h2, i)
  BY <1>1, <1>2 DEF Covered
<1> QED BY <1>1, <1>3 DEF Remembered

\* A summary answers for all it replaces.
LEMMA SummarisedRemembered ==
  ASSUME NEW h, NEW lost, h \in Seq(MessageType), Remembered(h, lost),
         NEW m, NEW h2, Grows(h, m, h2), m.kind = "summary",
         NEW missing, EffectiveMessages(h) \subseteq m.cold \cup m.tail \cup missing
  PROVE  Remembered(h2, lost \cup missing)
<1>1. /\ EffectiveMessages(h2) = m.tail \cup {Len(h) + 1}
      /\ SubagentContextMessages(h2) = SubagentContextMessages(h) \cup {Len(h) + 1}
  BY SummarisedView, GrownContext
<1>5. /\ \A s \in DOMAIN h : h2[s] = h[s]
      /\ h2[Len(h) + 1] = m
  BY GrownRows
<1>2. /\ \A s \in SubagentContextMessages(h) : h2[s] = h[s]
      /\ h2[Len(h) + 1] = m
  BY <1>5 DEF SubagentContextMessages
<1>3. \A i : Covered(h, i) => Covered(h2, i)
  BY <1>1, <1>2 DEF Covered
<1>4. \A i \in m.cold : Covered(h2, i)
  BY <1>1, <1>2 DEF Covered
<1> QED BY <1>1, <1>3, <1>4 DEF Remembered

-----------------------------------------------------------------------------
(* The running turn, when the history grows or moves *)

LEMMA GrownOwn ==
  ASSUME NEW h \in Seq(MessageType), NEW m, NEW h2, Grows(h, m, h2), m.kind # "reset", NEW t
  PROVE  OwnMessages(h2, t) \subseteq OwnMessages(h, t) \cup {Len(h) + 1}
<1>1. /\ \A i \in DOMAIN h : h2[i] = h[i]
      /\ Len(h) + 1 \notin DOMAIN h
  BY GrownRows
<1>2. SubagentContextMessages(h2) = SubagentContextMessages(h) \cup {Len(h) + 1}
  BY GrownContext
<1>3. SubagentContextMessages(h) \subseteq DOMAIN h
  BY DEF SubagentContextMessages
<1>4. /\ \A i, j \in DOMAIN h : Precedes(h2, i, j) <=> Precedes(h, i, j)
      /\ \A i \in DOMAIN h : ~Precedes(h2, Len(h) + 1, i)
  BY GrownOrder
<1>5. ASSUME NEW i \in SubagentContextMessages(h),
             i \in LatestExchange(h2, SubagentContextMessages(h2), t)
      PROVE  i \in LatestExchange(h, SubagentContextMessages(h), t)
  <2>1. /\ h2[i].turn = t /\ h2[i].kind # "summary"
        /\ \E c \in SubagentContextMessages(h2) :
             /\ h2[c].kind = "call" /\ h2[c].turn = t
             /\ c = i \/ Precedes(h2, c, i)
             /\ \A d \in SubagentContextMessages(h2) :
                  h2[d].kind = "call" /\ h2[d].turn = t => d = c \/ Precedes(h2, d, c)
    BY <1>5 DEF LatestExchange
  <2>2. PICK c \in SubagentContextMessages(h2) :
             /\ h2[c].kind = "call" /\ h2[c].turn = t
             /\ c = i \/ Precedes(h2, c, i)
             /\ \A d \in SubagentContextMessages(h2) :
                  h2[d].kind = "call" /\ h2[d].turn = t => d = c \/ Precedes(h2, d, c)
    BY <2>1
  <2>3. c \in SubagentContextMessages(h)
    BY <1>1, <1>2, <1>3, <1>4, <2>2
  <2>4. h2[i] = h[i] /\ h2[c] = h[c] /\ i \in DOMAIN h /\ c \in DOMAIN h
    BY <1>1, <1>3, <2>3
  <2>5. c = i \/ Precedes(h, c, i)
    BY <1>4, <2>2, <2>4
  <2>6. \A d \in SubagentContextMessages(h) :
          h[d].kind = "call" /\ h[d].turn = t => d = c \/ Precedes(h, d, c)
    BY <1>1, <1>2, <1>3, <1>4, <2>2, <2>4
  <2> QED BY <2>1, <2>2, <2>3, <2>4, <2>5, <2>6 DEF LatestExchange
<1>6. \A i \in SubagentContextMessages(h) : h2[i] = h[i]
  BY <1>1, <1>3
<1>7. /\ LatestExchange(h2, SubagentContextMessages(h2), t) \subseteq SubagentContextMessages(h2)
  BY DEF LatestExchange
<1> QED BY <1>2, <1>5, <1>6, <1>7 DEF OwnMessages

LEMMA GrownOpened ==
  ASSUME NEW h \in Seq(MessageType), NEW m, NEW h2, Grows(h, m, h2),
         m.kind \notin {"reset", "input"},
         NEW t, NEW a \in DOMAIN h, OpenedBy(h, t, a)
  PROVE  OpenedBy(h2, t, a)
<1>1. /\ \A i \in DOMAIN h : h2[i] = h[i]
      /\ DOMAIN h2 = DOMAIN h \cup {Len(h) + 1}
      /\ h2[Len(h) + 1] = m
  BY GrownRows
<1>2. a \in SubagentContextMessages(h2)
  BY GrownContext DEF OpenedBy
<1>3. /\ \A i, j \in DOMAIN h : Precedes(h2, i, j) <=> Precedes(h, i, j)
      /\ \A i \in DOMAIN h : Precedes(h2, i, Len(h) + 1)
  BY GrownOrder
<1> QED BY <1>1, <1>2, <1>3 DEF OpenedBy

LEMMA GrownTurn ==
  ASSUME NEW h \in Seq(MessageType), HasEpoch(h), NEW m, NEW h2, Grows(h, m, h2),
         m.kind \notin {"reset", "input"}, NEW t, TurnKept(h, t),
         m.kind = "summary" => OwnMessages(h, t) \subseteq m.tail
  PROVE  TurnKept(h2, t)
<1>1. \E a \in DOMAIN h2 : OpenedBy(h2, t, a)
  BY GrownOpened, GrownRows DEF TurnKept
<1>2. OwnMessages(h2, t) \subseteq OwnMessages(h, t) \cup {Len(h) + 1}
  BY GrownOwn
<1>3. OwnMessages(h, t) \cup {Len(h) + 1} \subseteq EffectiveMessages(h2)
  <2>1. CASE m.kind = "summary"
    BY <2>1, SummarisedView
  <2>2. CASE m.kind # "summary"
    BY <2>2, GrownView DEF TurnKept
  <2> QED BY <2>1, <2>2
<1> QED BY <1>1, <1>2, <1>3 DEF TurnKept

LEMMA BegunTurn ==
  ASSUME NEW h \in Seq(MessageType), HasEpoch(h), NEW m, NEW h2, Grows(h, m, h2),
         m.kind = "input", \A i \in DOMAIN h : h[i].turn # m.turn
  PROVE  TurnKept(h2, m.turn)
<1>1. /\ \A i \in DOMAIN h : h2[i] = h[i]
      /\ DOMAIN h2 = DOMAIN h \cup {Len(h) + 1}
      /\ h2[Len(h) + 1] = m
  BY GrownRows
<1>2. \A i \in DOMAIN h : Precedes(h2, i, Len(h) + 1)
  BY GrownOrder
<1>3. Len(h) + 1 \in SubagentContextMessages(h2) /\ Len(h) + 1 \in EffectiveMessages(h2)
  BY GrownContext, GrownView
<1>4. OpenedBy(h2, m.turn, Len(h) + 1)
  BY <1>1, <1>2, <1>3 DEF OpenedBy
<1>5. OwnMessages(h, m.turn) = {}
  BY DEF OwnMessages, LatestExchange, SubagentContextMessages
<1>6. OwnMessages(h2, m.turn) \subseteq {Len(h) + 1}
  BY <1>5, GrownOwn
<1> QED BY <1>1, <1>3, <1>4, <1>6 DEF TurnKept

LEMMA MovedTurn ==
  ASSUME NEW h \in Seq(MessageType), HasEpoch(h), NEW waiting, NEW c, NEW h2,
         Moves(h, waiting, c, h2), NEW t, TurnKept(h, t)
  PROVE  TurnKept(h2, t)
<1>1. /\ DOMAIN h2 = DOMAIN h
      /\ \A i \in DOMAIN h : h2[i].kind = h[i].kind /\ h2[i].turn = h[i].turn
  BY MovedRows
<1>2. \A i \in waiting : i \in DOMAIN h /\ h[i].kind = "steer"
  BY MovedRows
<1>3. /\ \A i, j \in DOMAIN h \ waiting : Precedes(h2, i, j) <=> Precedes(h, i, j)
      /\ \A i \in DOMAIN h \ waiting, j \in waiting : Precedes(h2, i, j)
  BY MovedOrder
<1>4. SubagentContextMessages(h2) = SubagentContextMessages(h)
  BY MovedContext
<1>5. PICK a \in DOMAIN h : OpenedBy(h, t, a)
  BY DEF TurnKept
<1>6. OpenedBy(h2, t, a)
  <2>1. a \notin waiting
    BY <1>2, <1>5 DEF OpenedBy
  <2>2. ASSUME NEW i \in DOMAIN h2 \ {a}, h2[i].turn = t PROVE Precedes(h2, a, i)
    BY <1>1, <1>3, <1>5, <2>1, <2>2 DEF OpenedBy
  <2>3. ASSUME NEW b \in DOMAIN h2 \ {a}, h2[b].kind = "input" PROVE Precedes(h2, b, a)
    BY <1>1, <1>2, <1>3, <1>5, <2>1, <2>3 DEF OpenedBy
  <2> QED BY <1>1, <1>4, <1>5, <2>2, <2>3 DEF OpenedBy
<1>7. SubagentContextMessages(h) \subseteq DOMAIN h
  BY DEF SubagentContextMessages
<1>8. OwnMessages(h2, t) \subseteq OwnMessages(h, t) \cup waiting
  <2>1. ASSUME NEW i \in LatestExchange(h2, SubagentContextMessages(h2), t), i \notin waiting
        PROVE  i \in LatestExchange(h, SubagentContextMessages(h), t)
    <3>1. PICK k \in SubagentContextMessages(h2) :
             /\ h2[k].kind = "call" /\ h2[k].turn = t
             /\ k = i \/ Precedes(h2, k, i)
             /\ \A d \in SubagentContextMessages(h2) :
                  h2[d].kind = "call" /\ h2[d].turn = t => d = k \/ Precedes(h2, d, k)
      BY <2>1 DEF LatestExchange
    <3>2. /\ i \in SubagentContextMessages(h) /\ h[i].turn = t /\ h[i].kind # "summary"
      BY <1>1, <1>4, <1>7, <2>1 DEF LatestExchange
    <3>3. k \in DOMAIN h /\ h[k].kind = "call" /\ h[k].turn = t /\ k \notin waiting
      BY <1>1, <1>2, <1>4, <1>7, <3>1
    <3>4. k = i \/ Precedes(h, k, i)
      BY <1>3, <1>7, <2>1, <3>1, <3>2, <3>3
    <3>5. \A d \in SubagentContextMessages(h) :
            h[d].kind = "call" /\ h[d].turn = t => d = k \/ Precedes(h, d, k)
      BY <1>1, <1>2, <1>3, <1>4, <1>7, <3>1, <3>3
    <3> QED BY <1>4, <3>1, <3>2, <3>3, <3>4, <3>5 DEF LatestExchange
  <2>2. \A i \in SubagentContextMessages(h) : h2[i].turn = h[i].turn /\ h2[i].kind = h[i].kind
    BY <1>1, <1>7
  <2> QED BY <1>4, <2>1, <2>2 DEF OwnMessages
<1>9. EffectiveMessages(h2) = EffectiveMessages(h) \cup waiting
  BY MovedView
<1> QED BY <1>1, <1>6, <1>8, <1>9 DEF TurnKept

\* Steers of the running turn are in every request that follows them.
LEMMA SteersInView ==
  ASSUME NEW h, NEW t, NEW waiting, TurnKept(h, t), SteersWait(h, t, waiting)
  PROVE  waiting \subseteq EffectiveMessages(h)
BY DEF SteersWait, TurnKept, OwnMessages

LEMMA GrownSteers ==
  ASSUME NEW h \in Seq(MessageType), NEW m, NEW h2, Grows(h, m, h2), m.kind # "reset",
         NEW t, NEW waiting, SteersWait(h, t, waiting)
  PROVE  /\ SteersWait(h2, t, waiting)
         /\ m.kind = "steer" /\ m.turn = t => SteersWait(h2, t, waiting \cup {Len(h) + 1})
<1>1. /\ \A i \in DOMAIN h : h2[i] = h[i]
      /\ h2[Len(h) + 1] = m
  BY GrownRows
<1>2. SubagentContextMessages(h2) = SubagentContextMessages(h) \cup {Len(h) + 1}
  BY GrownContext
<1>3. SubagentContextMessages(h) \subseteq DOMAIN h
  BY DEF SubagentContextMessages
<1>4. waiting \subseteq {i \in SubagentContextMessages(h2) : h2[i].kind = "steer" /\ h2[i].turn = t}
  BY <1>1, <1>2, <1>3 DEF SteersWait
<1>5. \A i \in waiting : i \in Nat /\ i <= Len(h) + 1
  BY <1>3, MessageTyped DEF SteersWait
<1>6. Len(h) + 1 <= Len(h) + 1
  BY GrownRows
<1> QED BY <1>1, <1>2, <1>4, <1>5, <1>6 DEF SteersWait

LEMMA GrownOpenCall ==
  ASSUME NEW h \in Seq(MessageType), HasEpoch(h), NEW m, NEW h2, Grows(h, m, h2),
         EffectiveMessages(h) \subseteq DOMAIN h,
         m.kind \notin {"reset", "summary", "input"}, NEW t
  PROVE  /\ OpenCall(h, t) /\ ~(m.kind = "call" /\ m.turn = t) => OpenCall(h2, t)
         /\ m.kind = "call" /\ m.turn = t => OpenCall(h2, t)
<1>1. /\ \A i \in DOMAIN h : h2[i] = h[i]
      /\ h2[Len(h) + 1] = m
      /\ Len(h2) = Len(h) + 1 /\ Len(h) \in Nat /\ DOMAIN h = 1..Len(h)
  BY GrownRows
<1>2. EffectiveMessages(h2) = EffectiveMessages(h) \cup {Len(h) + 1}
  BY GrownView
<1>3. ASSUME OpenCall(h, t), ~(m.kind = "call" /\ m.turn = t) PROVE OpenCall(h2, t)
  <2>1. PICK c \in EffectiveMessages(h) :
          /\ h[c].kind = "call" /\ h[c].turn = t
          /\ \A d \in (c + 1)..Len(h) : ~(h[d].kind = "call" /\ h[d].turn = t)
          /\ \A b \in c..Len(h) : h[b].kind # "input"
    BY <1>3 DEF OpenCall
  <2>2. c \in 1..Len(h) /\ h2[c] = h[c]
    BY <1>1
  <2>3. /\ \A d \in (c + 1)..Len(h) : h2[d] = h[d]
        /\ \A b \in c..Len(h) : h2[b] = h[b]
    BY <1>1, <2>2
  <2>4. /\ (c + 1)..Len(h2) = (c + 1)..Len(h) \cup {Len(h) + 1}
        /\ c..Len(h2) = c..Len(h) \cup {Len(h) + 1}
    BY <1>1, <2>2
  <2> QED BY <1>1, <1>2, <1>3, <2>1, <2>2, <2>3, <2>4 DEF OpenCall
<1>4. ASSUME m.kind = "call", m.turn = t PROVE OpenCall(h2, t)
  <2>1. (Len(h) + 1 + 1)..Len(h2) = {} /\ (Len(h) + 1)..Len(h2) = {Len(h) + 1}
    BY <1>1
  <2> QED BY <1>1, <1>2, <1>4, <2>1 DEF OpenCall
<1> QED BY <1>3, <1>4

-----------------------------------------------------------------------------
(* Cooling and the running turn *)

LEMMA GrownSpares ==
  ASSUME NEW h \in Seq(MessageType), HasEpoch(h), NEW m, NEW h2, Grows(h, m, h2),
         EffectiveMessages(h) \subseteq DOMAIN h,
         m.kind \notin {"reset", "summary"}, NEW t, NEW u, m.turn # u, Spares(h, t, u)
  PROVE  Spares(h2, t, u)
<1>1. /\ \A i \in DOMAIN h : h2[i] = h[i]
      /\ h2[Len(h) + 1] = m
  BY GrownRows
<1>2. EffectiveMessages(h2) = EffectiveMessages(h) \cup {Len(h) + 1}
  BY GrownView
<1>3. /\ \A i, j \in DOMAIN h : Precedes(h2, i, j) <=> Precedes(h, i, j)
      /\ \A i \in DOMAIN h : ~Precedes(h2, Len(h) + 1, i)
  BY GrownOrder
<1>4. ASSUME NEW v, NEW i \in DOMAIN h, Opens(h2, EffectiveMessages(h2), v, i)
      PROVE  Opens(h, EffectiveMessages(h), v, i)
  <2>1. i \in EffectiveMessages(h) /\ h[i].turn = v /\ h[i].kind # "summary"
    BY <1>1, <1>2, <1>4, GrownRows DEF Opens
  <2>2. ASSUME NEW j \in EffectiveMessages(h), h[j].turn = v, h[j].kind # "summary"
        PROVE  j = i \/ Precedes(h, i, j)
    BY <1>1, <1>2, <1>3, <1>4, <2>2 DEF Opens
  <2> QED BY <2>1, <2>2 DEF Opens
<1>5. ASSUME OpensBefore(h2, EffectiveMessages(h2), t, u) PROVE FALSE
  <2>1. PICK i \in EffectiveMessages(h2), j \in EffectiveMessages(h2) :
          /\ Opens(h2, EffectiveMessages(h2), t, i)
          /\ Opens(h2, EffectiveMessages(h2), u, j)
          /\ Precedes(h2, i, j)
    BY <1>5 DEF OpensBefore
  <2>2. j \in DOMAIN h
    BY <1>1, <1>2, <2>1 DEF Opens
  <2>3. i \in DOMAIN h
    BY <1>2, <1>3, <2>1, <2>2
  <2>4. i \in EffectiveMessages(h) /\ j \in EffectiveMessages(h)
    BY <1>4, <2>1, <2>2, <2>3 DEF Opens
  <2>5. OpensBefore(h, EffectiveMessages(h), t, u)
    BY <1>3, <1>4, <2>1, <2>2, <2>3, <2>4 DEF OpensBefore
  <2> QED BY <2>5 DEF Spares
<1> QED BY <1>5 DEF Spares

\* A turn that has just begun stands behind everything.
LEMMA BegunSpares ==
  ASSUME NEW h \in Seq(MessageType), HasEpoch(h), NEW m, NEW h2, Grows(h, m, h2),
         EffectiveMessages(h) \subseteq DOMAIN h,
         m.kind = "input", \A i \in DOMAIN h : h[i].turn # m.turn, NEW u, u # m.turn
  PROVE  Spares(h2, m.turn, u)
<1>1. /\ \A i \in DOMAIN h : h2[i] = h[i]
      /\ h2[Len(h) + 1] = m
  BY GrownRows
<1>2. EffectiveMessages(h2) = EffectiveMessages(h) \cup {Len(h) + 1}
  BY GrownView
<1>3. /\ \A i \in DOMAIN h : ~Precedes(h2, Len(h) + 1, i)
      /\ ~Precedes(h2, Len(h) + 1, Len(h) + 1)
  BY GrownOrder
<1>4. ASSUME NEW i, Opens(h2, EffectiveMessages(h2), m.turn, i) PROVE i = Len(h) + 1
  BY <1>1, <1>2, <1>4 DEF Opens
<1>5. \A j \in EffectiveMessages(h2) : ~Precedes(h2, Len(h) + 1, j)
  BY <1>2, <1>3
<1> QED BY <1>4, <1>5 DEF Spares, OpensBefore

\* Its input opens the running turn in every view.
LEMMA InputOpens ==
  ASSUME NEW h \in Seq(MessageType), NEW t, TurnKept(h, t),
         EffectiveMessages(h) \subseteq SubagentContextMessages(h),
         NEW a \in DOMAIN h, OpenedBy(h, t, a)
  PROVE  /\ a \in EffectiveMessages(h)
         /\ \A i : Opens(h, EffectiveMessages(h), t, i) <=> i = a
<1>1. a \in EffectiveMessages(h)
  BY DEF OpenedBy, TurnKept, OwnMessages
<1>2. EffectiveMessages(h) \subseteq DOMAIN h
  BY DEF SubagentContextMessages
<1>3. Opens(h, EffectiveMessages(h), t, a)
  BY <1>1, <1>2 DEF Opens, OpenedBy
<1>4. ASSUME NEW i, Opens(h, EffectiveMessages(h), t, i) PROVE i = a
  <2>1. i \in DOMAIN h /\ h[i].turn = t /\ (a = i \/ Precedes(h, i, a))
    BY <1>1, <1>2, <1>4 DEF Opens, OpenedBy
  <2>2. i = a \/ Precedes(h, a, i)
    BY <2>1 DEF OpenedBy
  <2> QED BY <2>1, <2>2, PrecedesTotal
<1> QED BY <1>1, <1>3, <1>4

LEMMA MovedSpares ==
  ASSUME NEW h, NEW last, HistoryInv(h, last), NEW waiting, NEW c, NEW h2,
         Moves(h, waiting, c, h2), NEW t, TurnKept(h, t), SteersWait(h, t, waiting),
         NEW u, Spares(h, t, u)
  PROVE  Spares(h2, t, u)
<1>0. h \in Seq(MessageType) /\ HasEpoch(h) /\ EffectiveMessages(h) \subseteq SubagentContextMessages(h)
  BY DEF HistoryInv
<1>1. /\ DOMAIN h2 = DOMAIN h
      /\ \A i \in DOMAIN h : h2[i].kind = h[i].kind /\ h2[i].turn = h[i].turn
  BY <1>0, MovedRows
<1>2. \A i \in waiting : h[i].kind = "steer" /\ h[i].turn = t
  BY DEF SteersWait
<1>3. /\ \A i, j \in DOMAIN h \ waiting : Precedes(h2, i, j) <=> Precedes(h, i, j)
  BY <1>0, MovedOrder
<1>4. EffectiveMessages(h2) = EffectiveMessages(h)
  BY <1>0, MovedView, SteersInView
<1>5. EffectiveMessages(h) \subseteq DOMAIN h
  BY <1>0 DEF SubagentContextMessages
<1>6. HistoryInv(h2, last) /\ TurnKept(h2, t)
  BY <1>0, MovedHistory, MovedTurn
<1>7. PICK a \in DOMAIN h : OpenedBy(h, t, a)
  BY DEF TurnKept
<1>8. PICK b \in DOMAIN h2 : OpenedBy(h2, t, b)
  BY <1>6 DEF TurnKept
<1>9. a = b
  <2>1. h[b].turn = t /\ h2[a].turn = t /\ h[b].kind = "input" /\ h2[a].kind = "input"
    BY <1>1, <1>7, <1>8 DEF OpenedBy
  <2>2. a # b => Precedes(h, a, b) /\ Precedes(h, b, a)
    BY <1>1, <1>7, <2>1 DEF OpenedBy
  <2> QED BY <1>0, <1>1, <2>2, PrecedesTotal
<1>10. a \in EffectiveMessages(h) /\ Opens(h, EffectiveMessages(h), t, a) /\ a \notin waiting
  BY <1>0, <1>2, <1>7, InputOpens DEF OpenedBy
<1>11. h2 \in Seq(MessageType) /\ EffectiveMessages(h2) \subseteq SubagentContextMessages(h2)
  BY <1>6 DEF HistoryInv
<1>12. \A i : Opens(h2, EffectiveMessages(h2), t, i) => i = a
  BY <1>6, <1>8, <1>9, <1>11, InputOpens
<1>13. ASSUME OpensBefore(h2, EffectiveMessages(h2), t, u) PROVE FALSE
  <2>1. PICK i \in EffectiveMessages(h2), j \in EffectiveMessages(h2) :
          /\ Opens(h2, EffectiveMessages(h2), t, i)
          /\ Opens(h2, EffectiveMessages(h2), u, j)
          /\ Precedes(h2, i, j)
    BY <1>13 DEF OpensBefore
  <2>2. i = a /\ j \in DOMAIN h /\ h[j].turn = u /\ h[j].kind # "summary" /\ j \notin waiting
    BY <1>1, <1>2, <1>4, <1>5, <1>12, <2>1 DEF Opens, Spares
  <2>3. Precedes(h, a, j)
    BY <1>3, <1>7, <1>10, <2>1, <2>2
  <2>4. ASSUME NEW k \in EffectiveMessages(h), h[k].turn = u, h[k].kind # "summary"
        PROVE  k = j \/ Precedes(h, j, k)
    <3>1. k \in DOMAIN h /\ k \notin waiting /\ h2[k].turn = u /\ h2[k].kind # "summary"
      BY <1>1, <1>2, <1>5, <2>4 DEF Spares
    <3>2. k = j \/ Precedes(h2, j, k)
      BY <1>4, <2>1, <2>4, <3>1 DEF Opens
    <3> QED BY <1>3, <2>2, <3>1, <3>2
  <2>5. Opens(h, EffectiveMessages(h), u, j)
    BY <1>4, <2>1, <2>2, <2>4 DEF Opens
  <2>6. OpensBefore(h, EffectiveMessages(h), t, u)
    BY <1>4, <1>10, <2>1, <2>3, <2>5 DEF OpensBefore
  <2> QED BY <2>6 DEF Spares
<1> QED BY <1>13 DEF Spares

\* What is chosen for cooling stands before the turn that asks.
LEMMA CandidateSpares ==
  ASSUME NEW h, NEW last \in Nat, HistoryInv(h, last), NEW t, TurnKept(h, t),
         NEW next \in CoolingCandidates(h, t)
  PROVE  next.through \in 1..last /\ Spares(h, t, next.through)
<1> DEFINE view == EffectiveMessages(h)
           others == {i \in Inputs(h, view) : h[i].turn # t}
           Later(i) == {b \in others : Precedes(h, i, b)}
           split == {i \in others : Cardinality(Later(i)) = KeepTurns}
           hot == {b \in Inputs(h, view) : \E i \in split : Precedes(h, i, b)}
           u == next.through
<1>1. h \in Seq(MessageType) /\ view \subseteq SubagentContextMessages(h) /\ view \subseteq DOMAIN h
  BY ViewInHistory DEF HistoryInv
<1>2. /\ u \in TurnsOf(h, view)
      /\ split # {}
      /\ \A b \in hot : OpensBefore(h, view, u, h[b].turn)
  <2>1. u \in ColdTurns(h, view, t)
    BY DEF CoolingCandidates
  <2> QED BY <2>1 DEF ColdTurns
<1>3. PICK a \in DOMAIN h : OpenedBy(h, t, a)
  BY DEF TurnKept
<1>4. a \in view /\ \A i : Opens(h, view, t, i) <=> i = a
  BY <1>1, <1>3, InputOpens
<1>5. PICK i \in split : TRUE
  BY <1>2
<1>6. i \in DOMAIN h /\ h[i].kind = "input" /\ h[i].turn # t
  BY <1>1 DEF Inputs
<1>7. a \in Inputs(h, view) /\ Precedes(h, i, a) /\ h[a].turn = t
  BY <1>3, <1>4, <1>6 DEF Inputs, OpenedBy
<1>8. OpensBefore(h, view, u, t)
  BY <1>2, <1>7
<1>9. PICK k \in view, j \in view : Opens(h, view, u, k) /\ Opens(h, view, t, j) /\ Precedes(h, k, j)
  BY <1>8 DEF OpensBefore
<1>10. j = a
  BY <1>4, <1>9
<1>11. u # t
  BY <1>1, <1>4, <1>9, <1>10, PrecedesTotal
<1>12. ASSUME OpensBefore(h, view, t, u) PROVE FALSE
  <2>1. PICK a2 \in view, k2 \in view : Opens(h, view, t, a2) /\ Opens(h, view, u, k2) /\ Precedes(h, a2, k2)
    BY <1>12 DEF OpensBefore
  <2>2. a2 = a /\ (k2 = k \/ Precedes(h, k2, k))
    BY <1>4, <1>9, <2>1 DEF Opens
  <2>3. Precedes(h, a, k)
    <3>1. CASE k2 = k
      BY <2>1, <2>2, <3>1
    <3>2. CASE Precedes(h, k2, k)
      <4>1. a \in DOMAIN h /\ k2 \in DOMAIN h /\ k \in DOMAIN h
        BY <1>1, <1>9, <2>1
      <4> QED BY <1>1, <2>1, <2>2, <3>2, <4>1, PrecedesTransitive
    <3> QED BY <2>2, <3>1, <3>2
  <2>4. a \in DOMAIN h /\ k \in DOMAIN h
    BY <1>1, <1>9
  <2> QED BY <1>1, <1>9, <1>10, <2>3, <2>4, PrecedesTotal
<1>13. u \in 1..last
  <2>1. PICK k3 \in view : u = h[k3].turn
    BY <1>2 DEF TurnsOf
  <2>2. h[k3].turn \in Nat \ {0} /\ h[k3].turn <= last
    BY <1>1, MessageTyped DEF HistoryInv
  <2> QED BY <2>1, <2>2
<1> QED BY <1>11, <1>12, <1>13 DEF Spares

-----------------------------------------------------------------------------
(* What a compaction keeps *)

\* Messages that do not move stand in the order of their places.
LEMMA PlaceOrder ==
  ASSUME NEW h \in Seq(MessageType), Ordered(h), NEW i \in DOMAIN h, NEW j \in DOMAIN h,
         h[i].kind # "steer", h[j].kind # "steer"
  PROVE  Precedes(h, i, j) <=> i < j
<1>1. i \in Nat /\ j \in Nat /\ h[i].created \in Nat /\ h[j].created \in Nat
  BY MessageTyped
<1>2. /\ i < j => h[i].created <= h[j].created
      /\ j < i => h[j].created <= h[i].created
  BY DEF Ordered
<1> QED BY <1>1, <1>2 DEF Precedes

\* No input stands between a call and its result.
LEMMA SameInputsFollow ==
  ASSUME NEW h \in Seq(MessageType), Ordered(h), NEW view \in SUBSET DOMAIN h,
         NEW i \in DOMAIN h, h[i].kind = "result", NEW c \in DOMAIN h, IsCallOf(h, i, c)
  PROVE  {b \in Inputs(h, view) : Precedes(h, c, b)} = {b \in Inputs(h, view) : Precedes(h, i, b)}
<1> SUFFICES ASSUME NEW b \in Inputs(h, view) PROVE Precedes(h, c, b) <=> Precedes(h, i, b)
  OBVIOUS
<1>1. b \in DOMAIN h /\ h[b].kind = "input"
  BY DEF Inputs
<1>2. Precedes(h, c, b) <=> c < b
  BY <1>1, PlaceOrder DEF IsCallOf
<1>3. Precedes(h, i, b) <=> i < b
  BY <1>1, PlaceOrder
<1>4. b \in Nat /\ i \in Nat /\ c \in Nat /\ c <= i
  BY <1>1, MessageTyped DEF IsCallOf
<1>5. b \notin c..i
  BY <1>1 DEF IsCallOf
<1> QED BY <1>2, <1>3, <1>4, <1>5

LEMMA TailWhole ==
  ASSUME NEW h \in Seq(MessageType), Ordered(h), NEW view \in SUBSET DOMAIN h, Whole(h, view),
         NEW keep
  PROVE  Whole(h, SplitRecentInputTail(h, view, keep))
<1>1. CASE Cardinality(Inputs(h, view)) < keep
  BY <1>1 DEF SplitRecentInputTail
<1>2. CASE ~(Cardinality(Inputs(h, view)) < keep)
  <2> DEFINE tail == {i \in view :
          /\ h[i].kind # "summary"
          /\ Cardinality({b \in Inputs(h, view) : Precedes(h, i, b)}) < keep}
  <2>1. SplitRecentInputTail(h, view, keep) = tail
    BY <1>2 DEF SplitRecentInputTail
  <2>2. ASSUME NEW i \in tail, h[i].kind = "result" PROVE \E c \in tail : IsCallOf(h, i, c)
    <3>1. PICK c \in view : IsCallOf(h, i, c)
      BY <2>2 DEF Whole
    <3>2. {b \in Inputs(h, view) : Precedes(h, c, b)} = {b \in Inputs(h, view) : Precedes(h, i, b)}
      BY <2>2, <3>1, SameInputsFollow
    <3>3. h[c].kind = "call"
      BY <3>1 DEF IsCallOf
    <3>4. c \in tail
      BY <3>2, <3>3
    <3> QED BY <3>1, <3>4
  <2> QED BY <2>1, <2>2 DEF Whole
<1> QED BY <1>1, <1>2

LEMMA ExchangeWhole ==
  ASSUME NEW h \in Seq(MessageType), Ordered(h), NEW view \in SUBSET DOMAIN h, Whole(h, view),
         NEW t, NEW i \in LatestExchange(h, view, t), h[i].kind = "result"
  PROVE  \E c \in LatestExchange(h, view, t) : IsCallOf(h, i, c)
<1>1. PICK c \in view :
        /\ h[c].kind = "call" /\ h[c].turn = t
        /\ c = i \/ Precedes(h, c, i)
        /\ \A d \in view : h[d].kind = "call" /\ h[d].turn = t => d = c \/ Precedes(h, d, c)
  BY DEF LatestExchange
<1>2. i \in view /\ h[i].turn = t
  BY DEF LatestExchange
<1>3. PICK k \in view : IsCallOf(h, i, k)
  BY <1>2 DEF Whole
<1>4. h[k].kind = "call" /\ h[k].turn = t /\ k \in 1..i
  BY <1>2, <1>3 DEF IsCallOf
<1>5. k = c
  <2> SUFFICES ASSUME k # c PROVE FALSE
    OBVIOUS
  <2>1. Precedes(h, k, c) /\ Precedes(h, c, i)
    BY <1>1, <1>4
  <2>2. k < c /\ c < i
    BY <1>1, <1>2, <1>4, <2>1, PlaceOrder
  <2>3. c \in (k + 1)..i
    BY <1>1, <1>2, <1>4, <2>2, MessageTyped
  <2> QED BY <1>1, <1>2, <1>3, <2>3 DEF IsCallOf
<1>6. k \in LatestExchange(h, view, t)
  BY <1>1, <1>4, <1>5 DEF LatestExchange
<1> QED BY <1>3, <1>6

\* A partition keeps exchanges whole, and everything the running turn may not lose.
LEMMA PartitionWhole ==
  ASSUME NEW h, NEW last, HistoryInv(h, last), NEW keep \in 0..TailTurns, NEW owner
  PROVE  LET tail == CompactPartition(h, EffectiveMessages(h), keep, owner)
         IN tail \subseteq EffectiveMessages(h) /\ Whole(h, tail)
<1> DEFINE view == EffectiveMessages(h)
           tail == CompactPartition(h, view, keep, owner)
<1>1. h \in Seq(MessageType) /\ Ordered(h) /\ Whole(h, view) /\ view \in SUBSET DOMAIN h
  BY ViewInHistory DEF HistoryInv
<1>2. keep \in Nat
  BY ContextAssumption
<1>3. CASE keep > 0
  <2>1. tail = SplitRecentInputTail(h, view, keep)
    BY <1>2, <1>3 DEF CompactPartition
  <2>2. Whole(h, SplitRecentInputTail(h, view, keep))
    BY <1>1, TailWhole
  <2>3. SplitRecentInputTail(h, view, keep) \subseteq view
    BY DEF SplitRecentInputTail
  <2> QED BY <2>1, <2>2, <2>3
<1>4. CASE keep = 0 /\ owner = 0
  BY <1>4 DEF CompactPartition, Whole
<1>5. CASE keep = 0 /\ owner # 0
  <2>1. tail = {i \in view : h[i].turn = owner /\ h[i].kind \in {"input", "steer"}}
                 \cup LatestExchange(h, view, owner)
    BY <1>5 DEF CompactPartition
  <2>2. ASSUME NEW i \in tail, h[i].kind = "result" PROVE \E c \in tail : IsCallOf(h, i, c)
    <3>1. i \in LatestExchange(h, view, owner)
      BY <2>1, <2>2
    <3>2. PICK c \in LatestExchange(h, view, owner) : IsCallOf(h, i, c)
      BY <1>1, <2>2, <3>1, ExchangeWhole
    <3> QED BY <2>1, <3>2
  <2>3. LatestExchange(h, view, owner) \subseteq view
    BY DEF LatestExchange
  <2>4. Whole(h, tail)
    BY <2>2 DEF Whole
  <2> QED BY <2>1, <2>3, <2>4
<1> QED BY <1>2, <1>3, <1>4, <1>5

LEMMA PartitionKeepsTurn ==
  ASSUME NEW h, NEW last, HistoryInv(h, last), NEW keep \in 0..TailTurns,
         NEW t, t # 0, TurnKept(h, t)
  PROVE  OwnMessages(h, t) \subseteq CompactPartition(h, EffectiveMessages(h), keep, t)
<1> DEFINE view == EffectiveMessages(h)
           tail == CompactPartition(h, view, keep, t)
<1>1. /\ h \in Seq(MessageType) /\ view \subseteq DOMAIN h
      /\ view \subseteq SubagentContextMessages(h)
      /\ SubagentContextMessages(h) \subseteq DOMAIN h
  BY ViewInHistory DEF HistoryInv
<1>2. keep \in Nat
  BY ContextAssumption
<1>3. OwnMessages(h, t) \subseteq view
  BY DEF TurnKept
<1>4. \A i \in OwnMessages(h, t) : h[i].turn = t /\ h[i].kind # "summary"
  BY DEF OwnMessages, LatestExchange
<1>5. CASE keep > 0
  <2>1. tail = SplitRecentInputTail(h, view, keep)
    BY <1>2, <1>5 DEF CompactPartition
  <2>2. CASE Cardinality(Inputs(h, view)) < keep
    BY <1>3, <2>1, <2>2 DEF SplitRecentInputTail
  <2>3. CASE ~(Cardinality(Inputs(h, view)) < keep)
    <3>1. PICK a \in DOMAIN h : OpenedBy(h, t, a)
      BY DEF TurnKept
    <3>2. ASSUME NEW i \in OwnMessages(h, t)
          PROVE  {b \in Inputs(h, view) : Precedes(h, i, b)} = {}
      <4> SUFFICES ASSUME NEW b \in Inputs(h, view), Precedes(h, i, b) PROVE FALSE
        OBVIOUS
      <4>1. b \in DOMAIN h /\ i \in DOMAIN h /\ a \in DOMAIN h /\ h[b].kind = "input"
        BY <1>1, <1>3, <3>1 DEF Inputs
      <4>2. b = a \/ Precedes(h, b, a)
        BY <3>1, <4>1 DEF OpenedBy
      <4>3. i = a \/ Precedes(h, a, i)
        BY <1>4, <3>1, <4>1 DEF OpenedBy
      <4>4. i = b \/ Precedes(h, b, i)
        BY <1>1, <4>1, <4>2, <4>3, PrecedesTransitive
      <4> QED BY <1>1, <4>1, <4>4, PrecedesTotal
    <3>3. Cardinality({}) = 0
      BY FS_EmptySet
    <3> QED BY <1>2, <1>3, <1>4, <1>5, <2>1, <2>3, <3>2, <3>3 DEF SplitRecentInputTail
  <2> QED BY <2>2, <2>3
<1>6. CASE keep = 0
  <2>1. tail = {i \in view : h[i].turn = t /\ h[i].kind \in {"input", "steer"}}
                 \cup LatestExchange(h, view, t)
    BY <1>6 DEF CompactPartition
  <2>2. ASSUME NEW i \in LatestExchange(h, SubagentContextMessages(h), t)
        PROVE  i \in LatestExchange(h, view, t)
    <3>1. PICK c \in SubagentContextMessages(h) :
            /\ h[c].kind = "call" /\ h[c].turn = t
            /\ c = i \/ Precedes(h, c, i)
            /\ \A d \in SubagentContextMessages(h) :
                 h[d].kind = "call" /\ h[d].turn = t => d = c \/ Precedes(h, d, c)
      BY DEF LatestExchange
    <3>2. c \in LatestExchange(h, SubagentContextMessages(h), t)
      BY <3>1 DEF LatestExchange
    <3>3. c \in view /\ i \in view
      BY <1>3, <3>2 DEF OwnMessages
    <3> QED BY <1>1, <3>1, <3>3 DEF LatestExchange
  <2> QED BY <1>3, <2>1, <2>2 DEF OwnMessages
<1> QED BY <1>2, <1>5, <1>6

\* The record of a compaction that has read the history.
Reading(h, keep, owner) ==
  LET view == EffectiveMessages(h)
      tail == CompactPartition(h, view, keep, owner)
  IN [owner |-> owner, seen |-> Len(h), last |-> LastMessage(h),
      cold |-> view \ tail, tail |-> tail]

LEMMA ReadingHolds ==
  ASSUME NEW h, NEW last, HistoryInv(h, last), h # <<>>, NEW keep \in 0..TailTurns,
         NEW owner \in Nat, owner # 0 => TurnKept(h, owner)
  PROVE  LET w == Reading(h, keep, owner)
         IN /\ w \in WorkType /\ w.owner = owner
            /\ WorkHolds(h, w)
            /\ owner # 0 => WorkOwned(h, w, owner)
<1> DEFINE view == EffectiveMessages(h)
           tail == CompactPartition(h, view, keep, owner)
           w == Reading(h, keep, owner)
<1>1. h \in Seq(MessageType) /\ view \subseteq DOMAIN h /\ view \subseteq SubagentContextMessages(h)
  BY ViewInHistory DEF HistoryInv
<1>2. tail \subseteq view /\ Whole(h, tail)
  BY PartitionWhole
<1>3. LastMessage(h) \in DOMAIN h
  BY LastExists DEF HistoryInv
<1>4. Len(h) \in Nat /\ LastMessage(h) \in Nat /\ LastMessage(h) <= Len(h)
  BY <1>1, <1>3, MessageTyped
<1>5. view \subseteq Nat
  BY <1>1, MessageTyped
<1>6. /\ w.owner = owner /\ w.seen = Len(h) /\ w.last = LastMessage(h)
      /\ w.cold = view \ tail /\ w.tail = tail
  BY DEF Reading
<1>7. w \in WorkType
  BY <1>2, <1>4, <1>5 DEF Reading, WorkType
<1>8. WorkHolds(h, w)
  BY <1>1, <1>2, <1>4, <1>6, <1>7 DEF WorkHolds
<1>9. owner # 0 => WorkOwned(h, w, owner)
  BY <1>6, PartitionKeepsTurn DEF WorkOwned
<1> QED BY <1>6, <1>7, <1>8, <1>9

LEMMA GrownWork ==
  ASSUME NEW h \in Seq(MessageType), HasEpoch(h), NEW m, NEW h2, Grows(h, m, h2),
         m.kind \notin {"reset", "summary"}, NEW w, WorkHolds(h, w), NEW t
  PROVE  WorkHolds(h2, w) /\ WorkOwned(h2, w, t)
<1>1. /\ EffectiveMessages(h2) = EffectiveMessages(h) \cup {Len(h) + 1}
      /\ SubagentContextMessages(h2) = SubagentContextMessages(h) \cup {Len(h) + 1}
  BY GrownView, GrownContext
<1>2. Len(h2) = Len(h) + 1 /\ Len(h) \in Nat /\ LastMessage(h2) = Len(h) + 1
  BY GrownRows, GrownLast
<1>3. w \in WorkType /\ w.seen \in Nat /\ w.last \in Nat /\ w.seen <= Len(h)
  BY DEF WorkHolds, WorkType
<1>4. w.tail \in SUBSET DOMAIN h
  BY DEF WorkHolds, SubagentContextMessages
<1>5. Whole(h2, w.tail)
  BY <1>4, GrownCalls DEF WorkHolds
<1>6. (w.seen + 1)..Len(h) \cup {Len(h) + 1} \subseteq (w.seen + 1)..Len(h2)
  BY <1>2, <1>3
<1>7. EffectiveMessages(h2) \subseteq w.cold \cup w.tail \cup (w.seen + 1)..Len(h2)
  BY <1>1, <1>6 DEF WorkHolds
<1>8. WorkHolds(h2, w)
  BY <1>1, <1>2, <1>3, <1>5, <1>7 DEF WorkHolds
<1> QED BY <1>2, <1>3, <1>8 DEF WorkOwned

LEMMA MovedWork ==
  ASSUME NEW h \in Seq(MessageType), HasEpoch(h), NEW waiting, NEW c, NEW h2,
         Moves(h, waiting, c, h2), waiting \subseteq EffectiveMessages(h),
         NEW w, WorkHolds(h, w)
  PROVE  WorkHolds(h2, w)
<1>1. /\ EffectiveMessages(h2) = EffectiveMessages(h)
      /\ SubagentContextMessages(h2) = SubagentContextMessages(h)
  BY MovedView, MovedContext
<1>2. Len(h2) = Len(h)
  BY MovedRows
<1>3. w.tail \in SUBSET DOMAIN h
  BY DEF WorkHolds, SubagentContextMessages
<1>4. Whole(h2, w.tail)
  BY <1>3, MovedCalls DEF WorkHolds
<1> QED BY <1>1, <1>2, <1>4 DEF WorkHolds

-----------------------------------------------------------------------------
(* What is written in a state *)

LEMMA NewestIsLatest ==
  ASSUME HistoryInv(history, turns)
  PROVE  Newest \in Nat /\ \A i \in DOMAIN history : history[i].created <= Newest
<1>1. history \in Seq(MessageType) /\ HasLast(history)
  BY DEF HistoryInv
<1>2. CASE history = <<>>
  BY <1>2 DEF Newest
<1>3. CASE history # <<>>
  <2>1. /\ LastMessage(history) \in DOMAIN history
        /\ IsLast(history, LastMessage(history))
        /\ Newest = history[LastMessage(history)].created
    BY <1>1, <1>3, LastExists DEF Newest
  <2>2. \A i \in DOMAIN history : history[i].created \in Nat
    BY <1>1, MessageTyped
  <2> QED BY <2>1, <2>2 DEF IsLast, Precedes
<1> QED BY <1>2, <1>3

LEMMA NewRow ==
  ASSUME HistoryInv(history, turns), NEW kind \in Kind, NEW t \in Nat \ {0}
  PROVE  /\ Grows(history, Row(kind, t), Append(history, Row(kind, t)))
         /\ Row(kind, t).kind = kind /\ Row(kind, t).turn = t
<1>1. Row(kind, t) \in MessageType
  BY NewestIsLatest DEF Row, MessageType
<1>2. Row(kind, t).created = Newest /\ Row(kind, t).kind = kind /\ Row(kind, t).turn = t
  BY DEF Row
<1> QED BY <1>1, <1>2, NewestIsLatest DEF Grows

SummaryRow(t) == [Row("summary", t) EXCEPT !.cold = work.cold, !.tail = work.tail]

LEMMA NewSummary ==
  ASSUME HistoryInv(history, turns), NEW t \in Nat \ {0}, work \in WorkType
  PROVE  /\ Grows(history, SummaryRow(t), Append(history, SummaryRow(t)))
         /\ SummaryRow(t).kind = "summary" /\ SummaryRow(t).turn = t
         /\ SummaryRow(t).cold = work.cold /\ SummaryRow(t).tail = work.tail
<1>1. SummaryRow(t) = [kind |-> "summary", turn |-> t, created |-> Newest,
                       cold |-> work.cold, tail |-> work.tail]
  <2> DEFINE first  == [kind |-> "summary", turn |-> t, created |-> Newest, cold |-> {}, tail |-> {}]
             second == [kind |-> "summary", turn |-> t, created |-> Newest,
                        cold |-> work.cold, tail |-> {}]
  <2>1. [first EXCEPT !.cold = work.cold] = second
    OBVIOUS
  <2>2. [second EXCEPT !.tail = work.tail]
          = [kind |-> "summary", turn |-> t, created |-> Newest,
             cold |-> work.cold, tail |-> work.tail]
    OBVIOUS
  <2>3. SummaryRow(t) = [[first EXCEPT !.cold = work.cold] EXCEPT !.tail = work.tail]
    BY Zenon DEF SummaryRow, Row
  <2> QED BY <2>1, <2>2, <2>3
<1>2. work.cold \in SUBSET Nat /\ work.tail \in SUBSET Nat
  BY DEF WorkType
<1>3. SummaryRow(t) \in MessageType
  BY <1>1, <1>2, NewestIsLatest DEF MessageType, Kind
<1>4. /\ SummaryRow(t).kind = "summary" /\ SummaryRow(t).turn = t
      /\ SummaryRow(t).cold = work.cold /\ SummaryRow(t).tail = work.tail
      /\ SummaryRow(t).created = Newest
  BY <1>1
<1> QED BY <1>3, <1>4, NewestIsLatest DEF Grows

\* All but a reset and a summary.
LEMMA Appended ==
  ASSUME CtxInv, NEW kind \in Kind \ {"reset", "summary"}, NEW t \in Nat \ {0},
         NEW next \in Nat, turns <= next, t <= next,
         kind = "result" => OpenCall(history, t)
  PROVE  LET h2 == Append(history, Row(kind, t))
         IN /\ HistoryInv(h2, next) /\ Remembered(h2, swallowed)
            /\ Len(h2) = Len(history) + 1
            /\ turn # 0 /\ kind # "input" => TurnKept(h2, turn) /\ SteersWait(h2, turn, steers)
            /\ turn # 0 /\ kind = "steer" /\ t = turn =>
                 SteersWait(h2, turn, steers \cup {Len(history) + 1})
            /\ loop = "tools" /\ kind \notin {"call", "input"} => OpenCall(h2, turn)
            /\ kind = "call" /\ t = turn => OpenCall(h2, turn)
            /\ work # None => WorkHolds(h2, work) /\ WorkOwned(h2, work, turn)
            /\ turn # 0 /\ mark # None /\ t # mark.through => Spares(h2, turn, mark.through)
            /\ loop = "cool" /\ t # trial.next.through => Spares(h2, turn, trial.next.through)
<1> DEFINE m == Row(kind, t)
           h2 == Append(history, m)
<1>1. HistoryInv(history, turns) /\ Remembered(history, swallowed) /\ TurnInv /\ WorkInv /\ CoolingInv
  BY DEF CtxInv
<1>2. history \in Seq(MessageType) /\ HasEpoch(history) /\ turns \in Nat
  BY <1>1 DEF HistoryInv, TurnInv
<1>3. EffectiveMessages(history) \subseteq DOMAIN history
  BY <1>1, ViewInHistory DEF HistoryInv
<1>4. Grows(history, m, h2) /\ m.kind = kind /\ m.turn = t /\ m.kind \notin {"reset", "summary"}
  BY <1>1, NewRow
<1> HIDE DEF m, h2
<1>5. HistoryInv(h2, next)
  BY <1>1, <1>2, <1>4, GrownHistory
<1>6. Remembered(h2, swallowed)
  BY <1>1, <1>2, <1>4, GrownRemembered
<1>7. Len(h2) = Len(history) + 1
  BY <1>2, <1>4, GrownRows
<1>8. ASSUME turn # 0 PROVE
        /\ kind # "input" => TurnKept(h2, turn)
        /\ SteersWait(h2, turn, steers)
        /\ kind = "steer" /\ t = turn => SteersWait(h2, turn, steers \cup {Len(history) + 1})
  <2>1. TurnKept(history, turn) /\ SteersWait(history, turn, steers)
    BY <1>1, <1>8 DEF TurnInv
  <2>2. kind # "input" => TurnKept(h2, turn)
    BY <1>2, <1>4, <2>1, GrownTurn
  <2> QED BY <1>2, <1>4, <2>1, <2>2, GrownSteers
<1>9. /\ loop = "tools" /\ kind \notin {"call", "input"} => OpenCall(h2, turn)
      /\ kind = "call" /\ t = turn => OpenCall(h2, turn)
  <2>1. loop = "tools" => OpenCall(history, turn)
    BY <1>1 DEF TurnInv
  <2> QED BY <1>2, <1>3, <1>4, <2>1, GrownOpenCall
<1>10. work # None => WorkHolds(h2, work) /\ WorkOwned(h2, work, turn)
  <2>1. work # None => WorkHolds(history, work)
    BY <1>1 DEF WorkInv
  <2> QED BY <1>2, <1>4, <2>1, GrownWork
<1>11. /\ turn # 0 /\ mark # None /\ t # mark.through => Spares(h2, turn, mark.through)
       /\ loop = "cool" /\ t # trial.next.through => Spares(h2, turn, trial.next.through)
  <2>1. /\ turn # 0 /\ mark # None => Spares(history, turn, mark.through)
        /\ loop = "cool" => Spares(history, turn, trial.next.through)
    BY <1>1 DEF CoolingInv
  <2> QED BY <1>2, <1>3, <1>4, <2>1, GrownSpares
<1> QED BY <1>5, <1>6, <1>7, <1>8, <1>9, <1>10, <1>11 DEF h2, m

\* The steers of the running turn are applied.
LEMMA SteersApplied ==
  ASSUME CtxInv, turn # 0, NEW h, HistoryInv(h, turns), Remembered(h, swallowed),
         TurnKept(h, turn), SteersWait(h, turn, steers),
         work # None => WorkHolds(h, work),
         \A i \in DOMAIN h : h[i].created <= Newest
  PROVE  /\ HistoryInv(Moved(h), turns) /\ Remembered(Moved(h), swallowed)
         /\ TurnKept(Moved(h), turn)
         /\ work # None => WorkHolds(Moved(h), work)
         /\ \A u : Spares(h, turn, u) => Spares(Moved(h), turn, u)
<1>1. HistoryInv(history, turns)
  BY DEF CtxInv
<1>2. h \in Seq(MessageType) /\ HasEpoch(h)
  BY DEF HistoryInv
<1>3. Newest \in Nat
  BY <1>1, NewestIsLatest
<1>4. \A i \in DOMAIN h : h[i].created < Newest + 1
  BY <1>2, <1>3, MessageTyped
<1>5. Moves(h, steers, Newest + 1, Moved(h))
  BY <1>3, <1>4 DEF Moves, Moved, SteersWait
<1>6. steers \subseteq EffectiveMessages(h)
  BY SteersInView
<1> HIDE DEF Moved
<1>7. HistoryInv(Moved(h), turns)
  BY <1>5, MovedHistory
<1>8. Remembered(Moved(h), swallowed)
  BY <1>2, <1>5, MovedRemembered
<1>9. TurnKept(Moved(h), turn)
  BY <1>2, <1>5, MovedTurn
<1>10. work # None => WorkHolds(Moved(h), work)
  BY <1>2, <1>5, <1>6, MovedWork
<1>11. ASSUME NEW u, Spares(h, turn, u) PROVE Spares(Moved(h), turn, u)
  BY <1>5, <1>11, MovedSpares
<1> QED BY <1>7, <1>8, <1>9, <1>10, <1>11

LEMMA NoSteersWait == \A h, t : SteersWait(h, t, {})
BY DEF SteersWait

-----------------------------------------------------------------------------
(* The invariant is kept *)

LEMMA CtxInitInv == CtxInit => CtxInv
<1> SUFFICES ASSUME CtxInit PROVE CtxInv
  OBVIOUS
<1>1. DOMAIN history = {} /\ history \in Seq(MessageType) /\ history = <<>>
  BY DEF CtxInit
<1>2. SubagentContextMessages(history) = {}
  BY <1>1 DEF SubagentContextMessages
<1>3. EffectiveMessages(history) = {}
  BY <1>1, <1>2, NoEpoch, ViewWithout
<1>4. HistoryInv(history, turns)
  BY <1>1, <1>2, <1>3 DEF HistoryInv, HasLast, HasEpoch, Ordered, Whole
<1>5. Remembered(history, swallowed)
  BY <1>2 DEF Remembered
<1> QED BY <1>4, <1>5 DEF CtxInit, CtxInv, TurnInv, WorkInv, CoolingInv

\* The parts of the invariant, by name.
LEMMA Unfolded ==
  ASSUME CtxInv
  PROVE  /\ HistoryInv(history, turns) /\ Remembered(history, swallowed)
         /\ history \in Seq(MessageType) /\ HasEpoch(history)
         /\ turn \in Nat /\ turns \in Nat /\ turn <= turns /\ turns + 1 \in Nat \ {0}
         /\ (turn = 0) <=> (loop = "none")
         /\ turn = 0 => steers = {}
         /\ turn # 0 => /\ TurnKept(history, turn) /\ SteersWait(history, turn, steers)
                        /\ turn \in Nat \ {0}
         /\ loop = "tools" => OpenCall(history, turn)
         /\ work # None => WorkHolds(history, work)
         /\ work # None /\ work.owner # 0 => loop = "compact"
         /\ loop = "compact" => work # None /\ work.owner = turn /\ WorkOwned(history, work, turn)
         /\ mark # None =>
              /\ mark.through \in 1..turns
              /\ turn # 0 => Spares(history, turn, mark.through) /\ mark.through # turn
         /\ loop = "cool" =>
              /\ trial.next.through \in 1..turns
              /\ Spares(history, turn, trial.next.through) /\ trial.next.through # turn
BY DEF CtxInv, HistoryInv, TurnInv, WorkInv, CoolingInv, Spares

LEMMA BeginTurnStep == CtxInv /\ BeginTurn => CtxInv'
<1> SUFFICES ASSUME CtxInv, BeginTurn PROVE CtxInv'
  OBVIOUS
<1>1. /\ turn = 0 /\ turns' = turns + 1 /\ turn' = turns' /\ loop' = "top"
      /\ history' = Append(history, Row("input", turns'))
      /\ UNCHANGED <<steers, work, trial, mark, swallowed>>
  BY DEF BeginTurn, NewTurn, Insert
<1>2. turns' \in Nat \ {0} /\ turns <= turns' /\ "input" \in Kind \ {"reset", "summary"}
  BY <1>1, Unfolded DEF Kind
<1>3. /\ HistoryInv(history', turns') /\ Remembered(history', swallowed)
      /\ work # None => WorkHolds(history', work)
  BY <1>1, <1>2, Appended
<1>4. Grows(history, Row("input", turns'), history') /\ Row("input", turns').kind = "input"
        /\ Row("input", turns').turn = turns'
  BY <1>1, <1>2, Unfolded, NewRow
<1>5. \A i \in DOMAIN history : history[i].turn # turns'
  <2>1. \A i \in DOMAIN history : history[i].turn \in Nat /\ history[i].turn <= turns
    BY Unfolded, MessageTyped DEF HistoryInv
  <2> QED BY <1>1, <2>1, Unfolded
<1>6. TurnKept(history', turn')
  BY <1>1, <1>4, <1>5, Unfolded, BegunTurn
<1>7. EffectiveMessages(history) \subseteq DOMAIN history
  BY Unfolded, ViewInHistory DEF HistoryInv
<1>8. \A u : u # turn' => Spares(history', turn', u)
  BY <1>1, <1>4, <1>5, <1>7, Unfolded, BegunSpares
<1>9. mark # None => mark.through \in 1..turns' /\ mark.through # turn'
  BY <1>1, Unfolded
<1>13. steers' = {}
  BY <1>1, Unfolded
<1>14. SteersWait(history', turn', steers')
  BY <1>13, NoSteersWait
<1>10. TurnInv'
  BY <1>1, <1>2, <1>6, <1>14 DEF TurnInv
<1>11. WorkInv'
  BY <1>1, <1>3, Unfolded DEF WorkInv
<1>12. CoolingInv'
  BY <1>1, <1>8, <1>9 DEF CoolingInv
<1> QED BY <1>1, <1>3, <1>10, <1>11, <1>12 DEF CtxInv

LEMMA AppendTurnSteerStep == CtxInv /\ AppendTurnSteer => CtxInv'
<1> SUFFICES ASSUME CtxInv, AppendTurnSteer PROVE CtxInv'
  OBVIOUS
<1>1. /\ turn # 0 /\ history' = Append(history, Row("steer", turn))
      /\ steers' = steers \cup {Len(history')}
      /\ UNCHANGED <<turns, turn, loop, work, trial, mark, swallowed>>
  BY DEF AppendTurnSteer, Insert
<1>2. turn \in Nat \ {0} /\ "steer" \in Kind \ {"reset", "summary"}
  BY <1>1, Unfolded DEF Kind
<1>3. turns \in Nat /\ turns <= turns /\ turn <= turns
  BY <1>1, Unfolded
<1>4. HistoryInv(history', turns) /\ Remembered(history', swallowed)
  BY <1>1, <1>2, <1>3, Appended
<1>5. Len(history') = Len(history) + 1
  BY <1>1, <1>2, <1>3, Appended
<1>6. SteersWait(history', turn, steers \cup {Len(history) + 1})
  BY <1>1, <1>2, <1>3, Appended
<1>7. TurnKept(history', turn)
  BY <1>1, <1>2, <1>3, Appended
<1>8. loop = "tools" => OpenCall(history', turn)
  BY <1>1, <1>2, <1>3, Appended
<1>9. work # None => WorkHolds(history', work) /\ WorkOwned(history', work, turn)
  BY <1>1, <1>2, <1>3, Appended
<1>10. mark # None => Spares(history', turn, mark.through)
  BY <1>1, <1>2, <1>3, Unfolded, Appended
<1>11. loop = "cool" => Spares(history', turn, trial.next.through)
  BY <1>1, <1>2, <1>3, Unfolded, Appended
<1>12. TurnInv'
  BY <1>1, <1>5, <1>6, <1>7, <1>8, Unfolded DEF TurnInv
<1>13. WorkInv'
  BY <1>1, <1>9, Unfolded DEF WorkInv
<1>14. CoolingInv'
  BY <1>1, <1>10, <1>11, Unfolded DEF CoolingInv
<1> QED BY <1>1, <1>4, <1>12, <1>13, <1>14 DEF CtxInv

\* The running turn says something.
LEMMA SaysStep ==
  ASSUME CtxInv, turn # 0, NEW kind \in {"call", "result", "answer"},
         kind = "result" => loop = "tools", loop \notin {"cool", "compact"},
         history' = Append(history, Row(kind, turn)),
         loop' \in {"top", "tools", "answered"}, loop' = "tools" => kind = "call",
         UNCHANGED <<turns, turn, steers, work, trial, mark, swallowed>>
  PROVE  CtxInv'
<1>1. turn \in Nat \ {0} /\ kind \in Kind \ {"reset", "summary"} /\ kind # "input"
  BY Unfolded DEF Kind
<1>2. kind = "result" => OpenCall(history, turn)
  BY Unfolded
<1>3. /\ HistoryInv(history', turns) /\ Remembered(history', swallowed)
      /\ TurnKept(history', turn) /\ SteersWait(history', turn, steers)
      /\ kind = "call" => OpenCall(history', turn)
      /\ work # None => WorkHolds(history', work)
      /\ mark # None => Spares(history', turn, mark.through)
  BY <1>1, <1>2, Unfolded, Appended
<1>4. TurnInv'
  BY <1>3, Unfolded DEF TurnInv
<1>5. WorkInv'
  BY <1>3, Unfolded DEF WorkInv
<1>6. CoolingInv'
  BY <1>3, Unfolded DEF CoolingInv
<1> QED BY <1>3, <1>4, <1>5, <1>6 DEF CtxInv

LEMMA SpeakingSteps == CtxInv /\ (CallTools \/ ToolResult \/ FinalAnswer) => CtxInv'
<1>1. ASSUME CtxInv, CallTools PROVE CtxInv'
  <2>1. turn # 0
    BY <1>1, Unfolded DEF CallTools
  <2> QED BY <1>1, <2>1, SaysStep DEF CallTools, Insert
<1>2. ASSUME CtxInv, ToolResult PROVE CtxInv'
  <2>1. turn # 0
    BY <1>2, Unfolded DEF ToolResult
  <2> QED BY <1>2, <2>1, SaysStep DEF ToolResult, Insert
<1>3. ASSUME CtxInv, FinalAnswer PROVE CtxInv'
  <2>1. turn # 0
    BY <1>3, Unfolded DEF FinalAnswer
  <2> QED BY <1>3, <2>1, SaysStep DEF FinalAnswer, Insert
<1> QED BY <1>1, <1>2, <1>3

\* The running turn takes its steers and goes on.
LEMMA AppliesStep ==
  ASSUME CtxInv, turn # 0, loop \in {"top", "answered"}, ApplyTurnSteers,
         loop' \in {"top", "prepare"},
         UNCHANGED <<turns, turn, work, trial, mark, swallowed>>
  PROVE  CtxInv'
<1>1. history' = Moved(history) /\ steers' = {}
  BY DEF ApplyTurnSteers
<1>2. \A i \in DOMAIN history : history[i].created <= Newest
  BY Unfolded, NewestIsLatest
<1>3. /\ HistoryInv(history', turns) /\ Remembered(history', swallowed)
      /\ TurnKept(history', turn)
      /\ work # None => WorkHolds(history', work)
      /\ \A u : Spares(history, turn, u) => Spares(history', turn, u)
  BY <1>1, <1>2, Unfolded, SteersApplied
<1>4. TurnInv'
  BY <1>1, <1>3, Unfolded, NoSteersWait DEF TurnInv
<1>5. WorkInv'
  BY <1>3, Unfolded DEF WorkInv
<1>6. CoolingInv'
  BY <1>3, Unfolded DEF CoolingInv
<1> QED BY <1>3, <1>4, <1>5, <1>6 DEF CtxInv

\* The running turn is over; the history may have changed before.
LEMMA EndsStep ==
  ASSUME CtxInv, FinishTurn, HistoryInv(history', turns), Remembered(history', swallowed),
         steers' = {}, work' = None \/ (work' = work /\ loop # "compact"),
         work # None => WorkHolds(history', work)
  PROVE  CtxInv'
<1>1. turn' = 0 /\ loop' = "none" /\ UNCHANGED <<turns, mark, swallowed>>
  BY DEF FinishTurn
<1>2. TurnInv'
  BY <1>1, Unfolded DEF TurnInv
<1>3. WorkInv'
  BY <1>1, Unfolded DEF WorkInv
<1>4. CoolingInv'
  BY <1>1, Unfolded DEF CoolingInv
<1> QED BY <1>1, <1>2, <1>3, <1>4 DEF CtxInv

LEMMA SettleStep == CtxInv /\ Settle => CtxInv'
<1> SUFFICES ASSUME CtxInv, Settle PROVE CtxInv'
  OBVIOUS
<1>1. loop = "answered" /\ turn # 0 /\ UNCHANGED <<asked, work, trial>>
  BY Unfolded DEF Settle
<1>2. CASE steers = {} /\ FinishTurn /\ UNCHANGED <<history, steers>>
  BY <1>1, <1>2, Unfolded, EndsStep
<1>3. CASE steers # {} /\ ApplyTurnSteers /\ loop' = "top"
             /\ UNCHANGED <<turns, turn, cooling, mark, swallowed>>
  BY <1>1, <1>3, AppliesStep
<1> QED BY <1>2, <1>3 DEF Settle

LEMMA CrashStep == CtxInv /\ Crash => CtxInv'
<1> SUFFICES ASSUME CtxInv, Crash PROVE CtxInv'
  OBVIOUS
<1>1. FinishTurn /\ steers' = {} /\ work' = None /\ history' = history
  BY DEF Crash
<1>2. HistoryInv(history', turns) /\ Remembered(history', swallowed)
  BY <1>1, Unfolded
<1>3. work # None => WorkHolds(history', work)
  BY <1>1, Unfolded
<1> QED BY <1>1, <1>2, <1>3, EndsStep

LEMMA InterruptStep == CtxInv /\ Interrupt => CtxInv'
<1> SUFFICES ASSUME CtxInv, Interrupt PROVE CtxInv'
  OBVIOUS
<1>1. /\ turn # 0 /\ steers' = {} /\ FinishTurn
      /\ work' = IF loop = "compact" THEN None ELSE work
  BY DEF Interrupt
<1>2. PICK said \in {history, Append(history, Row("answer", turn))} :
        history' = Moved(said) \/ history' = said
  BY DEF Interrupt
<1>3. /\ HistoryInv(said, turns) /\ Remembered(said, swallowed)
      /\ TurnKept(said, turn) /\ SteersWait(said, turn, steers)
      /\ work # None => WorkHolds(said, work)
      /\ \A i \in DOMAIN said : said[i].created <= Newest
  <2>1. \A i \in DOMAIN history : history[i].created <= Newest
    BY Unfolded, NewestIsLatest
  <2>2. CASE said = history
    BY <1>1, <2>1, <2>2, Unfolded
  <2>3. CASE said = Append(history, Row("answer", turn))
    <3>1. turn \in Nat \ {0} /\ "answer" \in Kind \ {"reset", "summary"}
      BY <1>1, Unfolded DEF Kind
    <3>2. /\ HistoryInv(said, turns) /\ Remembered(said, swallowed)
          /\ TurnKept(said, turn) /\ SteersWait(said, turn, steers)
          /\ work # None => WorkHolds(said, work)
      BY <1>1, <2>3, <3>1, Unfolded, Appended
    <3>3. Grows(history, Row("answer", turn), said)
      BY <2>3, <3>1, Unfolded, NewRow
    <3>4. /\ DOMAIN said = DOMAIN history \cup {Len(history) + 1}
          /\ \A i \in DOMAIN history : said[i] = history[i]
          /\ said[Len(history) + 1] = Row("answer", turn)
      BY <3>3, Unfolded, GrownRows
    <3>5. Row("answer", turn).created = Newest /\ Newest \in Nat
      BY Unfolded, NewestIsLatest DEF Row
    <3>6. \A i \in DOMAIN said : said[i].created <= Newest
      BY <2>1, <3>4, <3>5
    <3> QED BY <3>2, <3>6
  <2> QED BY <2>2, <2>3
<1>4. /\ HistoryInv(history', turns) /\ Remembered(history', swallowed)
      /\ work # None => WorkHolds(history', work)
  BY <1>1, <1>2, <1>3, SteersApplied
<1> QED BY <1>1, <1>4, EndsStep

\* A step that leaves the history alone and touches only the loop.
LEMMA TryCoolContextStep == CtxInv /\ TryCoolContext => CtxInv'
<1> SUFFICES ASSUME CtxInv, TryCoolContext PROVE CtxInv'
  OBVIOUS
<1>1. /\ loop = "prepare" /\ loop' = "cool"
      /\ UNCHANGED <<history, turns, turn, steers, work, mark, swallowed>>
  BY DEF TryCoolContext
<1>2. turn # 0 /\ TurnKept(history, turn) /\ HistoryInv(history, turns) /\ turns \in Nat
  BY <1>1, Unfolded
<1>3. PICK next \in CoolingCandidates(history, turn) :
        trial' = [last |-> LastMessage(history), expected |-> mark, next |-> next]
  BY DEF TryCoolContext
<1>4. trial'.next = next
  BY <1>3
<1>5. next.through \in 1..turns /\ Spares(history, turn, next.through)
  BY <1>2, CandidateSpares
<1>6. TurnInv'
  BY <1>1, <1>2, Unfolded DEF TurnInv
<1>7. WorkInv'
  BY <1>1, Unfolded DEF WorkInv
<1>8. CoolingInv'
  BY <1>1, <1>4, <1>5, Unfolded DEF CoolingInv
<1> QED BY <1>1, <1>2, <1>6, <1>7, <1>8, Unfolded DEF CtxInv

LEMMA AdvanceContextCoolingStep == CtxInv /\ AdvanceContextCooling => CtxInv'
<1> SUFFICES ASSUME CtxInv, AdvanceContextCooling PROVE CtxInv'
  OBVIOUS
<1>1. /\ loop = "cool" /\ loop' = "top" /\ mark' \in {trial.next, mark}
      /\ UNCHANGED <<history, turns, turn, steers, work, swallowed>>
  BY DEF AdvanceContextCooling
<1>2. TurnInv'
  BY <1>1, Unfolded DEF TurnInv
<1>3. WorkInv'
  BY <1>1, Unfolded DEF WorkInv
<1>4. CoolingInv'
  BY <1>1, Unfolded DEF CoolingInv
<1> QED BY <1>1, <1>2, <1>3, <1>4, Unfolded DEF CtxInv

LEMMA ReadKnows ==
  ASSUME CtxInv, NEW owner \in {0, turn}, Read(owner)
  PROVE  /\ work' # None /\ work'.owner = owner /\ WorkHolds(history, work')
         /\ owner # 0 => WorkOwned(history, work', owner)
<1>1. PICK keep \in 0..TailTurns : work' = Reading(history, keep, owner)
  BY DEF Read, Reading
<1>2. history # <<>> /\ owner \in Nat /\ HistoryInv(history, turns)
      /\ (owner # 0 => TurnKept(history, owner))
  BY Unfolded DEF Read
<1> HIDE DEF Reading
<1>3. /\ work' \in WorkType /\ work'.owner = owner /\ WorkHolds(history, work')
      /\ owner # 0 => WorkOwned(history, work', owner)
  BY <1>1, <1>2, ReadingHolds
<1>4. work' # None
  BY <1>3, ContextAssumption DEF WorkType
<1> QED BY <1>3, <1>4

LEMMA CompactInTurnStep == CtxInv /\ CompactInTurn => CtxInv'
<1> SUFFICES ASSUME CtxInv, CompactInTurn PROVE CtxInv'
  OBVIOUS
<1>1. /\ loop = "prepare" /\ loop' = "compact" /\ Read(turn)
      /\ UNCHANGED <<history, turns, turn, steers, trial, mark, swallowed>>
  BY DEF CompactInTurn
<1>2. turn # 0
  BY <1>1, Unfolded
<1>3. /\ work' # None /\ work'.owner = turn /\ WorkHolds(history, work')
      /\ WorkOwned(history, work', turn)
  BY <1>1, <1>2, ReadKnows
<1>4. TurnInv'
  BY <1>1, <1>2, Unfolded DEF TurnInv
<1>5. WorkInv'
  BY <1>1, <1>3 DEF WorkInv
<1>6. CoolingInv'
  BY <1>1, Unfolded DEF CoolingInv
<1> QED BY <1>1, <1>4, <1>5, <1>6, Unfolded DEF CtxInv

\* The summary of the running turn is written from all there is.
LEMMA CommitInTurnStep == CtxInv /\ CommitInTurn => CtxInv'
<1> SUFFICES ASSUME CtxInv, CommitInTurn PROVE CtxInv'
  OBVIOUS
<1>1. /\ loop = "compact" /\ loop' = "top" /\ work' = None
      /\ UNCHANGED <<turns, turn, steers, trial, swallowed>>
  BY DEF CommitInTurn
<1>2. /\ work # None /\ WorkHolds(history, work) /\ WorkOwned(history, work, turn)
      /\ turn \in Nat \ {0} /\ turn <= turns
      /\ TurnKept(history, turn) /\ SteersWait(history, turn, steers)
  BY <1>1, Unfolded
<1>3. WorkInv'
  BY <1>1 DEF WorkInv
<1>4. CASE UNCHANGED <<history, mark>>
  <2>1. TurnInv' /\ CoolingInv'
    BY <1>1, <1>4, Unfolded DEF TurnInv, CoolingInv
  <2> QED BY <1>1, <1>3, <1>4, <2>1, Unfolded DEF CtxInv
<1>5. CASE HistoryUnchanged /\ AppendCompactSummary(turn)
  <2>1. history' = Append(history, SummaryRow(turn)) /\ mark' = None
    BY <1>5 DEF AppendCompactSummary, SummaryRow
  <2>2. /\ work \in WorkType /\ work.tail \subseteq SubagentContextMessages(history)
        /\ Whole(history, work.tail)
        /\ work.seen \in Nat /\ work.last \in Nat /\ work.last <= work.seen
        /\ EffectiveMessages(history) \subseteq work.cold \cup work.tail \cup (work.seen + 1)..Len(history)
    BY <1>2 DEF WorkHolds, WorkType
  <2>3. Grows(history, SummaryRow(turn), history') /\ SummaryRow(turn).kind = "summary"
          /\ SummaryRow(turn).turn = turn
          /\ SummaryRow(turn).cold = work.cold /\ SummaryRow(turn).tail = work.tail
    BY <1>2, <2>1, <2>2, Unfolded, NewSummary
  <2>4. work.seen = Len(history) /\ OwnMessages(history, turn) \subseteq work.tail
    BY <1>2, <1>5, <2>2 DEF WorkOwned, HistoryUnchanged
  <2>5. (work.seen + 1)..Len(history) = {}
    BY <2>2, <2>4
  <2>6. HistoryInv(history', turns)
    BY <1>2, <2>2, <2>3, Unfolded, SummarisedHistory
  <2>7. Remembered(history', swallowed)
    <3>1. Remembered(history', swallowed \cup {})
      BY <2>2, <2>3, <2>5, Unfolded, SummarisedRemembered
    <3> QED BY <3>1
  <2>8. TurnKept(history', turn) /\ SteersWait(history', turn, steers)
    BY <1>2, <2>3, <2>4, Unfolded, GrownTurn, GrownSteers
  <2>9. TurnInv'
    BY <1>1, <2>8, Unfolded DEF TurnInv
  <2>10. CoolingInv'
    BY <1>1, <2>1 DEF CoolingInv
  <2> QED BY <1>1, <1>3, <2>6, <2>7, <2>9, <2>10 DEF CtxInv
<1> QED BY <1>4, <1>5 DEF CommitInTurn

LEMMA SampleStep == CtxInv /\ Sample => CtxInv'
<1> SUFFICES ASSUME CtxInv, Sample PROVE CtxInv'
  OBVIOUS
<1>1. /\ loop \in {"prepare", "compact"} /\ loop' = "sample"
      /\ work' = None \/ (loop = "prepare" /\ work' = work)
      /\ UNCHANGED <<history, turns, turn, steers, trial, mark, swallowed>>
  BY DEF Sample
<1>2. TurnInv'
  BY <1>1, Unfolded DEF TurnInv
<1>3. WorkInv'
  BY <1>1, Unfolded DEF WorkInv
<1>4. CoolingInv'
  BY <1>1, Unfolded DEF CoolingInv
<1> QED BY <1>1, <1>2, <1>3, <1>4, Unfolded DEF CtxInv

LEMMA RecordWidgetNoticeStep == CtxInv /\ RecordWidgetNotice => CtxInv'
<1> SUFFICES ASSUME CtxInv, RecordWidgetNotice PROVE CtxInv'
  OBVIOUS
<1>1. /\ turns' = turns + 1 /\ history' = Append(history, Row("notice", turns'))
      /\ UNCHANGED <<turn, loop, steers, work, trial, mark, swallowed>>
  BY DEF RecordWidgetNotice, NewTurn, Insert
<1>2. turns' \in Nat \ {0} /\ turns <= turns' /\ "notice" \in Kind \ {"reset", "summary"}
  BY <1>1, Unfolded DEF Kind
<1>3. /\ HistoryInv(history', turns') /\ Remembered(history', swallowed)
      /\ turn # 0 => TurnKept(history', turn) /\ SteersWait(history', turn, steers)
      /\ loop = "tools" => OpenCall(history', turn)
      /\ work # None => WorkHolds(history', work) /\ WorkOwned(history', work, turn)
  BY <1>1, <1>2, Appended
<1>4. /\ mark # None => turns' # mark.through /\ mark.through \in 1..turns'
      /\ loop = "cool" => turns' # trial.next.through /\ trial.next.through \in 1..turns'
  BY <1>1, Unfolded
<1>5. /\ turn # 0 /\ mark # None => Spares(history', turn, mark.through)
      /\ loop = "cool" => Spares(history', turn, trial.next.through)
  BY <1>1, <1>2, <1>4, Appended
<1>6. turn \in Nat /\ turn <= turns'
  BY <1>1, Unfolded
<1>7. TurnInv'
  BY <1>1, <1>2, <1>3, <1>6, Unfolded DEF TurnInv
<1>8. WorkInv'
  BY <1>1, <1>3, Unfolded DEF WorkInv
<1>9. CoolingInv'
  BY <1>1, <1>4, <1>5 DEF CoolingInv
<1> QED BY <1>1, <1>3, <1>7, <1>8, <1>9 DEF CtxInv

LEMMA ResetSubagentStep == CtxInv /\ ResetSubagent => CtxInv'
<1> SUFFICES ASSUME CtxInv, ResetSubagent PROVE CtxInv'
  OBVIOUS
<1>1. /\ turn = 0 /\ work = None /\ turns' = turns + 1
      /\ history' = Append(history, Row("reset", turns'))
      /\ UNCHANGED <<turn, loop, steers, work, trial, mark, swallowed>>
  BY DEF ResetSubagent, NewTurn, Insert
<1>2. turns' \in Nat \ {0} /\ turns <= turns' /\ "reset" \in Kind
  BY <1>1, Unfolded DEF Kind
<1>3. Grows(history, Row("reset", turns'), history') /\ Row("reset", turns').kind = "reset"
        /\ Row("reset", turns').turn = turns'
  BY <1>1, <1>2, Unfolded, NewRow
<1>4. HistoryInv(history', turns')
  BY <1>2, <1>3, Unfolded, ResetHistory
<1>5. Remembered(history', swallowed)
  BY <1>3, Unfolded, GrownRemembered
<1>6. TurnInv'
  BY <1>1, <1>2, Unfolded DEF TurnInv
<1>7. WorkInv'
  BY <1>1, Unfolded DEF WorkInv
<1>8. mark # None => mark.through \in 1..turns'
  BY <1>1, Unfolded
<1>9. CoolingInv'
  BY <1>1, <1>8, Unfolded DEF CoolingInv
<1> QED BY <1>1, <1>4, <1>5, <1>6, <1>7, <1>9 DEF CtxInv

\* Everything of a summary of an idle session is known but what came meanwhile.
LEMMA CommitIdleStep == CtxInv /\ CommitIdle => CtxInv'
<1> SUFFICES ASSUME CtxInv, CommitIdle PROVE CtxInv'
  OBVIOUS
<1>1. /\ work # None /\ turn = 0 /\ turns' = turns + 1
      /\ work' = None /\ mark' = None
      /\ history' = Append(history, SummaryRow(turns'))
      /\ swallowed' = swallowed \cup (work.seen + 1)..Len(history)
      /\ UNCHANGED <<turn, loop, steers, trial>>
  BY DEF CommitIdle, NewTurn, AppendCompactSummary, SummaryRow, HistoryUnchanged
<1>2. turns' \in Nat \ {0} /\ turns <= turns'
  BY <1>1, Unfolded
<1>3. /\ work \in WorkType /\ work.tail \subseteq SubagentContextMessages(history)
      /\ Whole(history, work.tail)
      /\ EffectiveMessages(history) \subseteq work.cold \cup work.tail \cup (work.seen + 1)..Len(history)
  BY <1>1, Unfolded DEF WorkHolds
<1>4. Grows(history, SummaryRow(turns'), history') /\ SummaryRow(turns').kind = "summary"
        /\ SummaryRow(turns').turn = turns'
        /\ SummaryRow(turns').cold = work.cold /\ SummaryRow(turns').tail = work.tail
  BY <1>1, <1>2, <1>3, Unfolded, NewSummary
<1>5. HistoryInv(history', turns')
  BY <1>2, <1>3, <1>4, Unfolded, SummarisedHistory
<1>6. Remembered(history', swallowed')
  BY <1>1, <1>3, <1>4, Unfolded, SummarisedRemembered
<1>7. TurnInv'
  BY <1>1, <1>2, Unfolded DEF TurnInv
<1>8. WorkInv' /\ CoolingInv'
  BY <1>1, Unfolded DEF WorkInv, CoolingInv
<1> QED BY <1>5, <1>6, <1>7, <1>8 DEF CtxInv

\* Steps that leave the messages, the turn and the cooling alone.
LEMMA AsideStep ==
  ASSUME CtxInv, UNCHANGED <<history, turns, turn, loop, steers, trial, mark, swallowed>>,
         \/ work' = work
         \/ work' = None /\ loop # "compact"
         \/ loop # "compact" /\ work'.owner = 0 /\ WorkHolds(history, work')
  PROVE  CtxInv'
<1>1. TurnInv' /\ CoolingInv'
  BY Unfolded DEF TurnInv, CoolingInv
<1>2. WorkInv'
  BY Unfolded DEF WorkInv
<1> QED BY <1>1, <1>2, Unfolded DEF CtxInv

LEMMA IdleSteps ==
  CtxInv /\ (GiveUp \/ \E c \in Caller : CompactIdle(c) \/ ReadIdle(c)) => CtxInv'
<1>1. ASSUME CtxInv, NEW c \in Caller, CompactIdle(c) PROVE CtxInv'
  BY <1>1, AsideStep DEF CompactIdle
<1>2. ASSUME CtxInv, NEW c \in Caller, ReadIdle(c) PROVE CtxInv'
  <2>1. /\ Read(0) /\ work = None
        /\ UNCHANGED <<history, turns, turn, loop, steers, trial, mark, swallowed>>
    BY <1>2 DEF ReadIdle, Read
  <2>2. loop # "compact"
    BY <1>2, <2>1, Unfolded
  <2>3. work'.owner = 0 /\ WorkHolds(history, work')
    BY <1>2, <2>1, ReadKnows
  <2> QED BY <1>2, <2>1, <2>2, <2>3, AsideStep
<1>3. ASSUME CtxInv, GiveUp PROVE CtxInv'
  <2>1. /\ UNCHANGED <<history, turns, turn, loop, steers, trial, mark, swallowed>>
        /\ work' = work \/ (work # None /\ work.owner = 0 /\ work' = None)
    BY <1>3 DEF GiveUp
  <2>2. work # None /\ work.owner = 0 => loop # "compact"
    BY <1>3, Unfolded
  <2> QED BY <1>3, <2>1, <2>2, AsideStep
<1> QED BY <1>1, <1>2, <1>3

LEMMA CtxStepInv == CtxInv /\ [CtxNext]_ctxVars => CtxInv'
<1> SUFFICES ASSUME CtxInv, [CtxNext]_ctxVars PROVE CtxInv'
  OBVIOUS
<1>1. CASE UNCHANGED ctxVars
  BY <1>1, AsideStep DEF ctxVars
<1>2. CASE ConsumeSteers
  <2>1. turn # 0
    BY <1>2, Unfolded DEF ConsumeSteers
  <2> QED BY <1>2, <2>1, AppliesStep DEF ConsumeSteers
<1> QED BY <1>1, <1>2, BeginTurnStep, AppendTurnSteerStep, TryCoolContextStep,
           AdvanceContextCoolingStep, CompactInTurnStep, CommitInTurnStep, SampleStep,
           SpeakingSteps, SettleStep, InterruptStep, CrashStep, RecordWidgetNoticeStep,
           ResetSubagentStep, IdleSteps, CommitIdleStep DEF CtxNext

-----------------------------------------------------------------------------
(* Theorems *)

\* The invariant of the context, whatever is written, summarised or cooled.
THEOREM ContextInvariant == CtxSpec => []CtxInv
<1>1. CtxInit => CtxInv
  BY CtxInitInv
<1>2. CtxInv /\ [CtxNext]_ctxVars => CtxInv'
  BY CtxStepInv
<1> QED BY <1>1, <1>2, PTL DEF CtxSpec

\* Every message of the context is in the next request or was summarised, with
\* the one exception that CommitIdle names (messages.go, compact.go).
THEOREM NothingIsForgotten == CtxSpec => []NothingForgotten
<1>1. CtxInv => NothingForgotten
  BY DEF CtxInv, Remembered, NothingForgotten
<1> QED BY <1>1, ContextInvariant, PTL

\* However little a compaction keeps, the running turn has its inputs, its
\* steers and its latest exchange.
THEOREM CurrentTurnStaysKept == CtxSpec => []CurrentTurnKept
<1>1. CtxInv => CurrentTurnKept
  BY DEF CtxInv, TurnInv, TurnKept, OwnMessages, CurrentTurnKept
<1> QED BY <1>1, ContextInvariant, PTL

\* Tool results never lose their call: no cut of a summary separates them.
THEOREM ExchangesStayWhole == CtxSpec => []ExchangesWhole
<1>1. ASSUME CtxInv PROVE ExchangesWhole
  <2> SUFFICES ASSUME NEW i \in EffectiveMessages(history), history[i].kind = "result"
               PROVE  CallOf(i) \in EffectiveMessages(history)
    BY DEF ExchangesWhole
  <2>1. PICK c \in EffectiveMessages(history) : IsCallOf(history, i, c)
    BY <1>1 DEF CtxInv, HistoryInv, Whole
  <2>2. i \in Nat
    BY <1>1, Unfolded, ViewInHistory, MessageTyped DEF HistoryInv
  <2>3. ASSUME NEW d \in 1..i, history[d].kind = "call", history[d].turn = history[i].turn,
               \A e \in (d + 1)..i :
                 ~(history[e].kind = "call" /\ history[e].turn = history[i].turn)
        PROVE  d = c
    <3>1. c \in 1..i /\ d \notin (c + 1)..i /\ c \notin (d + 1)..i
      BY <2>1, <2>3 DEF IsCallOf
    <3> QED BY <2>2, <3>1
  <2>4. CallOf(i) = c
    BY <2>1, <2>3 DEF CallOf, IsCallOf
  <2> QED BY <2>1, <2>4
<1> QED BY <1>1, ContextInvariant, PTL

\* Cooling hides nothing of the turn that runs.
THEOREM CoolingSparesRunningTurn == CtxSpec => []CoolingSparesTurn
<1>1. ASSUME CtxInv PROVE CoolingSparesTurn
  <2> SUFFICES ASSUME NEW i \in CooledMessages(history, mark), history[i].turn = turn
               PROVE  FALSE
    BY DEF CoolingSparesTurn
  <2>1. /\ mark # None /\ i \in EffectiveMessages(history)
        /\ \/ history[i].turn = mark.through
           \/ OpensBefore(history, EffectiveMessages(history), history[i].turn, mark.through)
    BY DEF CooledMessages
  <2>2. turn # 0
    <3>1. i \in DOMAIN history
      BY <1>1, <2>1, Unfolded, ViewInHistory DEF HistoryInv
    <3> QED BY <1>1, <3>1, Unfolded, MessageTyped
  <2>3. Spares(history, turn, mark.through)
    BY <1>1, <2>1, <2>2, Unfolded
  <2> QED BY <2>1, <2>3 DEF Spares
<1> QED BY <1>1, ContextInvariant, PTL
=============================================================================
