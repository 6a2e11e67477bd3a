----------------------------- MODULE ApprovalRows -----------------------------
(* What the rows of an approval request say together: the request with its      *)
(* status, form and current step, and its one or two steps.  Approvals keeps    *)
(* the rows like this; Startup writes them when it migrates the departures of   *)
(* an old database.                                                             *)
EXTENDS Naturals

ApprovalKinds == {"leave", "transfer", "departure"}
Decided == {"approved", "rejected"}
Closed == Decided \cup {"cancelled"}

(* len(steps): a leave takes the manager's step, the others HR's as well. *)
Total(kind) == IF kind = "leave" THEN 1 ELSE 2

(* The rows of a request agree: the steps before the current one are approved,  *)
(* the current one is pending exactly while the request is, none is decided out *)
(* of turn, and a request is approved only at its last step and cancelled only  *)
(* at its first (the statements of ReviewApproval and CancelApproval).          *)
StepsAgree(q, s) ==
  /\ \A n \in 1 .. 2 :
       s[n].status = IF q.status = "none" \/ n > Total(q.form.kind) THEN "none"
                     ELSE IF q.status = "cancelled" THEN "skipped"
                     ELSE IF n < q.current THEN "approved"
                     ELSE IF n = q.current THEN q.status
                     ELSE IF q.status = "pending" THEN "waiting" ELSE "skipped"
  /\ q.status # "none" => q.current \in 1 .. Total(q.form.kind)
  /\ q.status = "approved" => q.current = Total(q.form.kind)
  /\ q.status = "cancelled" => q.current = 1
================================================================================
