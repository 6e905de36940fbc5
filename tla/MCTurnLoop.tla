----------------------------- MODULE MCTurnLoop -----------------------------
(* Instances of TurnLoop. The keys of a pool are interchangeable.          *)
EXTENDS TurnLoop, TLC

AnyKey == Permutations(Keys)
=============================================================================
