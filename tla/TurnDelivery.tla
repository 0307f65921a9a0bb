---------------------------- MODULE TurnDelivery ----------------------------
(***************************************************************************)
(* TurnLifecycle implements InputDelivery: the abstract state is read off  *)
(* the tables turns, queued_inputs and messages alone, so it survives a    *)
(* crash, and every request thread, goroutine and lock disappears.         *)
(***************************************************************************)
EXTENDS TurnLifecycle

FateOf(c) ==
  CASE turn[c] # "none"                               -> "started"
    [] turn[c] = "none" /\ steerOf[c] # None          -> "joined"
    [] ~HasUserMessage(c) /\ input[c] = "cancelled"   -> "withdrawn"
    [] ~HasUserMessage(c) /\ Active(c)                -> "waiting"
    [] OTHER                                          -> "new"

RunningTurn ==
  IF TurnIsRunning THEN CHOOSE t \in Turn : turn[t] = "running" ELSE None

Delivery == INSTANCE InputDelivery WITH
  fate    <- [c \in Input |-> FateOf(c)],
  line    <- queue,
  current <- RunningTurn,
  ended   <- {t \in Turn : turn[t] \in Terminal}

\* Every behaviour of the engine and the store, seen at the tables, is one of
\* the abstract delivery protocol.  It is stated for inputs sent once.
DeliveryImplemented == Delivery!Spec

\* The line is the inputs that wait, each of them once.
LineIsWaiting == IsInjective(queue) /\ ToSet(queue) = {c \in Input : FateOf(c) = "waiting"}

\* What became of an input stays: none that was withdrawn is delivered after
\* all, none that was delivered is withdrawn, whatever races with the drain.
DecisionsStand ==
  [][\A c \in Input : FateOf(c) \in {"withdrawn", "started", "joined"} => FateOf(c)' = FateOf(c)]_vars
=============================================================================
