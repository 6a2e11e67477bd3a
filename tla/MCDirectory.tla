----------------------------- MODULE MCDirectory -----------------------------
(* A small instance of Directory for TLC: the organisation grows from nothing,  *)
(* as after the first start, when there is the administrator only.              *)
EXTENDS DirectoryConflicts, TLC

MCEmp0 == [e \in Employees |-> NoEmployee]
MCDept0 == [d \in Departments |-> NoDepartment]
MCPos0 == [p \in Positions |-> NoPosition]

Symmetry == Permutations(Employees) \cup Permutations(Departments) \cup Permutations(Workers)
================================================================================
