---------------------------- MODULE InputDelivery ----------------------------
(***************************************************************************)
(* What one session promises about the inputs its clients send once, with  *)
(* no threads, locks, crashes or database rows: an input starts at most    *)
(* one turn or joins at most one, waits in a line until then, and can be   *)
(* withdrawn only while it waits; turns follow one another and end once.   *)
(***************************************************************************)
EXTENDS Sequences, SequencesExt

CONSTANTS
  Input,  \* user inputs
  Wake,   \* turns that no user input starts
  None

Turn == Input \cup Wake

VARIABLES
  fate,    \* of every input
  line,    \* the waiting inputs, in the order they are served
  current, \* the turn that runs
  ended    \* the turns that are over

vars == <<fate, line, current, ended>>

Fate == {"new", "waiting", "withdrawn", "started", "joined"}

TypeOK ==
  /\ fate \in [Input -> Fate]
  /\ line \in Seq(Input)
  /\ current \in Turn \cup {None}
  /\ ended \in SUBSET Turn

Init ==
  /\ fate = [c \in Input |-> "new"]
  /\ line = <<>>
  /\ current = None
  /\ ended = {}

Decide(c, verdict) == fate' = [fate EXCEPT ![c] = verdict]

Leave(c) == \E i \in DOMAIN line : line[i] = c /\ line' = RemoveAt(line, i)

Wait(c) ==
  /\ fate[c] = "new"
  /\ Decide(c, "waiting")
  /\ line' = Append(line, c)
  /\ UNCHANGED <<current, ended>>

Withdraw(c) ==
  /\ fate[c] = "waiting"
  /\ Decide(c, "withdrawn")
  /\ Leave(c)
  /\ UNCHANGED <<current, ended>>

Rearrange ==
  /\ line' \in [DOMAIN line -> ToSet(line)]
  /\ ToSet(line') = ToSet(line)
  /\ UNCHANGED <<fate, current, ended>>

Occupy(t) ==
  /\ current = None
  /\ t \notin ended
  /\ current' = t
  /\ UNCHANGED ended

StartNew(c) == fate[c] = "new" /\ Decide(c, "started") /\ Occupy(c) /\ UNCHANGED line

StartHead ==
  /\ line # <<>>
  /\ Decide(Head(line), "started")
  /\ Occupy(Head(line))
  /\ line' = Tail(line)

StartWake(w) == Occupy(w) /\ UNCHANGED <<fate, line>>

Join(c) ==
  /\ current # None
  /\ Decide(c, "joined")
  /\ \/ fate[c] = "new" /\ UNCHANGED line
     \/ fate[c] = "waiting" /\ Leave(c)
  /\ UNCHANGED <<current, ended>>

End ==
  /\ current # None
  /\ ended' = ended \cup {current}
  /\ current' = None
  /\ UNCHANGED <<fate, line>>

Next ==
  \/ \E c \in Input : Wait(c) \/ Withdraw(c) \/ StartNew(c) \/ Join(c)
  \/ \E w \in Wake : StartWake(w)
  \/ StartHead \/ Rearrange \/ End

Spec == Init /\ [][Next]_vars
=============================================================================
