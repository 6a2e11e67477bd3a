------------------------------- MODULE MCGateway -------------------------------
(* Small instances of Gateway for TLC. *)
EXTENDS Gateway, TLC

(* Clocks that agree, that differ by as much as is allowed, and by more. *)
SomeDrifts == {-Skew - 1, -Skew, 0, Skew, Skew + 1}
WorkersAlike == Permutations(Workers)
================================================================================
