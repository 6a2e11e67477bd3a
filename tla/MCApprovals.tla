----------------------------- MODULE MCApprovals -----------------------------
(* Small instances of Approvals for TLC: one applicant, her manager, and the    *)
(* administrator; a second department and position to be transferred to.        *)
EXTENDS Approvals, TLC

CONSTANTS staff, boss, home, away, eng, ops

(* staff and boss work in home, which boss leads; eng is offered everywhere, *)
(* ops at home only.                                                           *)
MCEmp0 == [e \in Employees |->
  [row |-> "present", status |-> "enabled", dept |-> home, pos |-> eng]]
MCDept0 == [d \in Departments |->
  [row |-> "present", status |-> "enabled", parent |-> None,
   leader |-> IF d = home /\ boss \in Employees THEN boss ELSE None]]
MCPos0 == [p \in Positions |-> [row |-> "present", status |-> "enabled"]]
MCOffers0 == {o \in Departments \X Positions : o[2] = eng \/ o[1] = home}

(* Bound: there is more than one request only where all are leaves of staff and *)
(* nothing has happened in the directory.                                       *)
SeveralLeaves ==
  LET made == {r \in Requests : req[r].status # "none"} IN
  \/ Cardinality(made) <= 1
  \/ /\ \A r \in made : req[r].form.kind = "leave" /\ req[r].applicant = staff
     /\ emp = Emp0
     /\ job = [w \in Workers |-> NoJob]

(* Bound: an OAuth token is issued only to staff and only after she has asked   *)
(* to leave.  boss leads home, so that her own departure is refused.            *)
TokensOfLeavers ==
  token # {} => /\ token = {staff}
                /\ \E r \in Requests : /\ req[r].applicant = staff
                                       /\ req[r].form.kind = "departure"

Symmetry == Permutations(Requests) \cup Permutations(Workers)
================================================================================
