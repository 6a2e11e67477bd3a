---------------------------- MODULE MCApprovalViews ----------------------------
(* The small instances of MCApprovals for the views of ApprovalViews. *)
EXTENDS ApprovalViews, MCApprovals

(* Bound: there is more than one request only where both are staff's and her    *)
(* account is as it was in the beginning.  What the views say of a request they *)
(* say of its row and its steps alone; two are there for the checks that count. *)
TwoOfStaff ==
  \/ Cardinality(Shown) <= 1
  \/ /\ \A r \in Shown : req[r].applicant = staff
     /\ emp[staff].status = Emp0[staff].status
================================================================================
