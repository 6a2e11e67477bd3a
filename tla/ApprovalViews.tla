----------------------------- MODULE ApprovalViews -----------------------------
(* What the approvals look like to people: the lists, buttons, badges and the   *)
(* departure board that approval.go and hr.go compute from the tables, each     *)
(* with a query of its own, and the notifications of results.                   *)
(* A view is asked for by a person a; view, review and departure say whether    *)
(* HasPermission grants approval:view, approval:review and departure:review.    *)
(* The routes of the approval centre ask for approval:review, those of the      *)
(* departures and of the badge take either review permission: canHR.            *)
(* A definition called Mutant... is a slip the code does not make: no action    *)
(* uses it, it is there to try whether the properties would notice.             *)
EXTENDS Approvals

VARIABLE note      \* notifications: the row of each request's result

viewVars == <<vars, note>>

Shown == {r \in Requests : req[r].status # "none"}
Approver(a, r) == \E n \in 1 .. 2 : step[r][n].approver = a
ByPermission(r) == \E n \in 1 .. 2 : step[r][n].byPermission

--------------------------------------------------------------------------------
(* decorateApproval: the buttons. *)
CanCancel(a, r) == req[r].applicant = a /\ req[r].status = "pending" /\ req[r].current = 1

CanReview(a, r, review) ==
  \E n \in 1 .. 2 :
    /\ n = req[r].current
    /\ req[r].applicant # a
    /\ step[r][n].status = "pending"
    /\ step[r][n].approver = a \/ (step[r][n].byPermission /\ review)

(* ListApprovals, by scope.  The pending scope asks for the steps' status only. *)
Mine(a) == {r \in Shown : req[r].applicant = a}

MutantPendingFor(a, review) ==
  {r \in Shown : \E n \in 1 .. 2 :
     /\ step[r][n].status = "pending"
     /\ step[r][n].approver = a \/ (review /\ step[r][n].byPermission)}
PendingFor(a, review) ==
  {r \in Shown : \E n \in 1 .. 2 :
     /\ step[r][n].status = "pending"
     /\ \/ step[r][n].approver = a
        \/ review /\ step[r][n].byPermission /\ req[r].applicant # a}

Register(a, view, review) ==
  {r \in Shown : \/ view
                 \/ req[r].applicant = a
                 \/ Approver(a, r)
                 \/ review /\ ByPermission(r)}

MutantMayOpen(a, r, view, review) ==
  view \/ req[r].applicant = a \/ Approver(a, r) \/ (review /\ ByPermission(r))
(* GetApproval *)
MayOpen(a, r, view, review) ==
  \/ view
  \/ req[r].applicant = a
  \/ Approver(a, r)
  \/ \E n \in 1 .. 2 : step[r][n].reviewer = a
  \/ review /\ ByPermission(r)

(* NotificationSummary: the steps it counts as pending tasks. *)
PendingTasks(a, canHR) ==
  {t \in Shown \X (1 .. 2) :
     LET s == step[t[1]][t[2]] IN
     /\ s.status = "pending" /\ req[t[1]].status = "pending"
     /\ s.approver = a \/ (canHR /\ s.byPermission /\ req[t[1]].applicant # a)}

MutantDepartureStatus(r) ==
  IF req[r].current > 1 THEN "pending_hr"
  ELSE IF req[r].status \in Closed THEN req[r].status
  ELSE "pending_manager"
(* approvalToDeparture *)
DepartureStatus(r) ==
  IF req[r].status \in Closed THEN req[r].status
  ELSE IF req[r].current > 1 THEN "pending_hr" ELSE "pending_manager"

(* ListDepartures: the departures of the register. *)
Departures == {r \in Shown : req[r].form.kind = "departure"}
Board(a, canHR) == Register(a, canHR, canHR) \cap Departures

CanManagerReview(a, r, canHR) == CanReview(a, r, canHR) /\ req[r].current = 1
CanHRReview(a, r, canHR) == CanReview(a, r, canHR) /\ req[r].current = 2

--------------------------------------------------------------------------------
(* Notifications: a result is told by the transaction that decides. *)
CreateNotification ==
  note' = [r \in Requests |-> IF notified'[r] > notified[r] THEN "unread" ELSE note[r]]

Unread(a) == {r \in Requests : note[r] = "unread" /\ req[r].applicant = a}

MutantMarkAllNotificationsRead(w) ==
  /\ task[w].op = "session"
  /\ note' = [r \in Requests |-> IF note[r] = "unread" THEN "read" ELSE note[r]]
  /\ Continue(w, NoTask)
MarkAllNotificationsRead(w) ==
  /\ task[w].op = "session"
  /\ note' = [r \in Requests |-> IF r \in Unread(task[w].actor) THEN "read" ELSE note[r]]
  /\ Continue(w, NoTask)

MarkNotificationRead(w, r) ==
  /\ task[w].op = "session"
  /\ note[r] # "none" /\ req[r].applicant = task[w].actor
  /\ note' = [note EXCEPT ![r] = "read"]
  /\ Continue(w, NoTask)

ViewInit == Init /\ note = [r \in Requests |-> "none"]

ViewNext ==
  \/ Next /\ CreateNotification
  \/ \E w \in Workers : \/ MarkAllNotificationsRead(w)
                        \/ \E r \in Requests : MarkNotificationRead(w, r)

ViewSpec == ViewInit /\ [][ViewNext]_viewVars
--------------------------------------------------------------------------------
(* The HR step of somebody else's request is open. *)
OthersHRStep(a, r) ==
  /\ req[r].status = "pending"
  /\ req[r].current = 2
  /\ req[r].applicant # a

(* Six queries with two different permissions, none of which looks at the same  *)
(* columns as the transactions do, against what the transactions accept.  The   *)
(* pending list of the approval centre and its review buttons are the requests  *)
(* ReviewApproval would let the person decide, the buttons of the departure     *)
(* board those ReviewDeparture would, the withdraw button is that of            *)
(* CancelApproval.  The badge counts each of these requests once; for somebody  *)
(* who may review departures it also counts HR's step of other people's         *)
(* transfers, which she finds in no list and may not decide, unless she may     *)
(* review approvals too.                                                        *)
ViewsAgree ==
  /\ \A w \in Workers, r \in Shown :
       task[w].op = "session" => (MayCancel(w, r) <=> CanCancel(task[w].actor, r))
  /\ \A a \in Persons, review, departure \in BOOLEAN :
       LET canHR == departure \/ review
           tasks == PendingTasks(a, canHR)
           centre == {r \in Shown : Decidable(a, r, review)}
           board == {r \in Departures : Decidable(a, r, canHR)}
           beyond == {r \in Shown : departure /\ r \notin Departures /\ OthersHRStep(a, r)}
       IN
       /\ PendingFor(a, review) = centre
       /\ {r \in Shown : CanReview(a, r, review)} = centre
       /\ {r \in Board(a, canHR) : CanManagerReview(a, r, canHR) \/ CanHRReview(a, r, canHR)}
            = board
       /\ {t[1] : t \in tasks} = centre \cup board \cup beyond
       /\ \A t, u \in tasks : t[1] = u[1] => t = u

(* Nobody is led to a request GetApproval then refuses: what a list of the      *)
(* approval centre holds, or the person has signed, can be opened, also by      *)
(* somebody who has lost the permission he signed with.                         *)
LeadsSomewhere ==
  \A a \in Persons, r \in Shown, view, review \in BOOLEAN :
    \/ r \in Mine(a) \cup PendingFor(a, review) \cup Register(a, view, review)
    \/ \E n \in 1 .. 2 : step[r][n].reviewer = a
    => MayOpen(a, r, view, review)

(* The status on the departure board tells who has signed, and of its two       *)
(* buttons only the one of the open stage is ever shown.                        *)
BoardTells ==
  \A r \in Shown : req[r].form.kind = "departure" =>
    LET shown == DepartureStatus(r)
        signed == {n \in 1 .. 2 : step[r][n].status = "approved"}
    IN
    /\ signed = CASE shown \in {"pending_manager", "cancelled"} -> {}
                  [] shown = "pending_hr" -> {1}
                  [] shown = "approved" -> {1, 2}
                  [] shown = "rejected" -> 1 .. (req[r].current - 1)
    /\ \A a \in Persons, canHR \in BOOLEAN :
         /\ CanManagerReview(a, r, canHR) => shown = "pending_manager"
         /\ CanHRReview(a, r, canHR) => shown = "pending_hr"

(* What people are shown is what they can do, with the exception of the badge   *)
(* that ViewsAgree names.                                                       *)
ViewsSound == ViewsAgree /\ LeadsSomewhere /\ BoardTells

(* The result of a request is unread until the applicant, and nobody else,      *)
(* marks it; marking everything read beforehand does not hide it.               *)
ResultsReachApplicant ==
  [][\A r \in Requests :
       /\ req[r].status = "pending" /\ req'[r].status \in Decided => note'[r] = "unread"
       /\ note[r] = "unread" /\ note'[r] # "unread" =>
            \E w \in Workers : /\ task[w].actor = req[r].applicant
                               /\ task'[w] # task[w]]_viewVars

(* Whom the permission service can grant approval:review. *)
Granted(a) == TRUE \in ReviewGrant(a)

(* An open request of somebody who still works here can be ended by somebody    *)
(* who does, whoever has been disabled, replaced or deleted since it was made:  *)
(* the approver of the first step is the one it was made with.                  *)
EndInReach ==
  \A r \in Shown : req[r].status = "pending" /\ Enabled(emp, req[r].applicant) =>
    \E a \in {Admin} \cup {e \in Employees : Enabled(emp, e)} :
      CanCancel(a, r) \/ CanReview(a, r, Granted(a))
================================================================================
