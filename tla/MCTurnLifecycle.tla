--------------------------- MODULE MCTurnLifecycle ---------------------------
(***************************************************************************)
(* Small instances of TurnLifecycle and TurnDelivery for TLC.  The request *)
(* threads are interchangeable: they only differ by the calls they make.   *)
(***************************************************************************)
EXTENDS TurnDelivery, TLC

ThreadSymmetry == Permutations(Client)
=============================================================================
