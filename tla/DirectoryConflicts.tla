-------------------------- MODULE DirectoryConflicts --------------------------
(* Which handlers of Directory must not be in flight together.  Nothing in the  *)
(* code holds a validation to its transaction; this module says where that      *)
(* matters.  A handler is in flight from its validation to its transaction, as  *)
(* the job i of its worker; Clash names the pairs of jobs of which one writes   *)
(* away what the other has validated.  All other handlers may overlap freely.   *)
EXTENDS Directory

(* i gives an employee a department and a position; j takes either of them, or  *)
(* the offer of the one in the other, away.                                     *)
Unseats(i, j) ==
  /\ i.op \in {"CreateEmployee", "UpdateEmployee"}
  /\ \/ j.op = "DeleteDepartment" /\ j.dept = i.dept
     \/ j.op = "DeletePosition" /\ j.pos = i.pos
     \/ /\ j.op = "UpdatePosition" /\ j.pos = i.pos
        /\ j.status = "disabled" \/ i.dept \notin j.depts

(* i makes an employee the leader of her department; j removes or disables her, *)
(* or moves her to another department.                                          *)
Deposes(i, j) ==
  /\ i.op = "UpdateDepartment" /\ i.leader # None /\ j.emp = i.leader
  /\ \/ j.op = "DeleteEmployee"
     \/ j.op = "SetEmployeeEnabled" /\ j.status = "disabled"
     \/ j.op = "UpdateEmployee" /\ j.dept # i.dept

(* j sets the status of an employee, of which i writes back the one it found,   *)
(* or relies on it to open a session.                                           *)
Overtakes(i, j) ==
  /\ j.op = "SetEmployeeEnabled" /\ j.emp = i.emp
  /\ \/ i.op = "UpdateEmployee" /\ j.status # i.status
     \/ i.op = "Login" /\ j.status = "disabled"

(* i puts a department below another, or offers a position in some departments, *)
(* and j deletes that department; or i offers a position that j deletes.        *)
Uproots(i, j) ==
  \/ /\ j.op = "DeleteDepartment"
     /\ \/ i.op \in {"CreateDepartment", "UpdateDepartment"} /\ i.parent = j.dept
        \/ i.op \in {"CreatePosition", "UpdatePosition"} /\ j.dept \in i.depts
  \/ i.op = "UpdatePosition" /\ j.op = "DeletePosition" /\ i.pos = j.pos

(* i and j move two departments in the tree: each may end below the other.      *)
Moves(i) == i.op = "UpdateDepartment" /\ dept[i.dept].parent # i.parent
Entangles(i, j) == Moves(i) /\ Moves(j) /\ i.dept # j.dept

Clash(i, j) == \/ Unseats(i, j)
               \/ Deposes(i, j)
               \/ Overtakes(i, j)
               \/ Uproots(i, j)
               \/ Entangles(i, j)

ClashesWithNone(i) == \A w \in Workers : ~Clash(i, job[w]) /\ ~Clash(job[w], i)

(* No two handlers in flight clash. *)
KeptApart == \A v, w \in Workers : v # w => ~Clash(job[v], job[w])

(* The behaviours of the directory in which clashing handlers are kept apart.   *)
ApartSpec == DirInit /\ [][DirNext /\ KeptApart']_dirVars
================================================================================
