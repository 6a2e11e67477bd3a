-------------------------- MODULE MCEmploymentHistory --------------------------
(* Small instances of EmploymentHistory for TLC; all ids of a kind are alike. *)
EXTENDS EmploymentHistory, TLC

Symmetry == Permutations(Names) \cup Permutations(Departments)
              \cup Permutations(Positions) \cup Permutations(Workers)

(* Requests overlap until somebody has been written for from what was outdated. *)
Overlapping ==
  muddled = {} \/ \E v \in Workers : \A w \in Workers \ {v} : job[w] = Idle
================================================================================
