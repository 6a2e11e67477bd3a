------------------------------ MODULE MCAccounts ------------------------------
(* Small instances of Accounts for TLC. *)
EXTENDS Accounts, TLC

Symmetry == Permutations(Employees) \cup Permutations(Passwords) \cup Permutations(Sessions)
            \cup Permutations(Codes) \cup Permutations(Tokens) \cup Permutations(Workers)
================================================================================
