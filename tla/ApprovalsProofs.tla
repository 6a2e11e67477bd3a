---------------------------- MODULE ApprovalsProofs ----------------------------
(* What is proved of Approvals, for every set of employees, workers, requests   *)
(* and departments.  With any number of handlers in flight: type correctness,   *)
(* the agreement of the rows of a request, who signs, that the effect happens   *)
(* once, that decisions stand, that the workflow implements ApprovalLifecycle,  *)
(* that the balances are the sums of the approved leave, and which stage of a   *)
(* departure a review decides.  With n handlers in flight: n open requests of a *)
(* kind and n annual entitlements at most.  With handlers that clash kept       *)
(* apart: the organisation stays sound.  Last,                                  *)
(* ApprovalViews: its views change nothing that Approvals knows of; lists,      *)
(* badges, buttons and board agree with what the handlers accept; results reach *)
(* the applicant; and an open request can always be ended.                      *)
EXTENDS ApprovalViews, DirectoryProofs, WellFoundedInduction

LEMMA BlanksTyped ==
  /\ NoForm \in Form
  /\ NoRequest \in Request
  /\ NoStep \in StepRow
  /\ NoTask \in Task
  BY DEF NoForm, Form, NoRequest, Request, NoStep, StepRow, NoTask, Task

LEMMA FormDays == \A f \in Form : f.days \in Nat
<1>1. LeaveDays \cup {0} \subseteq Nat
  BY ApprovalsAssumption
<1> QED
  BY <1>1 DEF Form

(* Replacing one worker's notes keeps them well typed. *)
LEMMA NotesTyped ==
  ASSUME ApprTypeOK, NEW w \in Workers, NEW t \in Task, TaskSound(t),
         task' = [task EXCEPT ![w] = t]
  PROVE  /\ task' \in [Workers -> Task]
         /\ \A v \in Workers : TaskSound(task'[v])
  BY DEF ApprTypeOK

(* The steps that only read. *)
LEMMA ContinueTyped ==
  ASSUME TypeOK, NEW w \in Workers, NEW t \in Task, TaskSound(t), Continue(w, t)
  PROVE  TypeOK'
<1>1. DirTypeOK'
  BY DEF Continue, dirVars, TypeOK, DirTypeOK
<1>2. task' \in [Workers -> Task] /\ \A v \in Workers : TaskSound(task'[v])
  BY NotesTyped DEF Continue, TypeOK
<1>3. ApprTypeOK'
  BY <1>2 DEF Continue, apprTables, TypeOK, ApprTypeOK, TaskSound
<1> QED
  BY <1>1, <1>3 DEF TypeOK

LEMMA ReadTyped ==
  ASSUME TypeOK, NEW w \in Workers,
         \/ \E a \in Persons : Authenticate(w, a)
         \/ \E form \in Forms : CreateApprovalCheck(w, form)
         \/ \E r \in Requests, stage \in 1 .. 2, permitted \in BOOLEAN :
              ReviewDepartureCheck(w, r, stage, permitted)
         \/ Abandon(w)
  PROVE  TypeOK'
<1>0. task[w] \in Task /\ TaskSound(task[w])
  BY DEF TypeOK, ApprTypeOK
<1>1. ASSUME NEW a \in Persons, Authenticate(w, a)
      PROVE  TypeOK'
  <2> DEFINE t == [NoTask EXCEPT !.op = "session", !.actor = a,
                     !.dept = IF a = Admin THEN None ELSE emp[a].dept,
                     !.pos = IF a = Admin THEN None ELSE emp[a].pos]
  <2>1. a # Admin => emp[a] \in Employee
    BY DEF Persons, TypeOK, DirTypeOK
  <2>2. t \in Task
    BY <2>1, BlanksTyped DEF Task, NoTask, Employee
  <2>3. TaskSound(t)
    BY DEF TaskSound, NoTask
  <2>4. Continue(w, t)
    BY <1>1 DEF Authenticate
  <2> QED
    BY <2>2, <2>3, <2>4, ContinueTyped
<1>2. ASSUME NEW form \in Forms, CreateApprovalCheck(w, form)
      PROVE  TypeOK'
  <2> DEFINE t == [task[w] EXCEPT !.op = "create",
                     !.approver = ApproverOf(task[w].actor, task[w].dept), !.form = form]
  <2>1. ApproverOf(task[w].actor, task[w].dept) \in Persons
    BY DEF ApproverOf, Enabled, Present, Persons, TypeOK, DirTypeOK
  <2>2. t \in Task
    BY <2>1, <1>0 DEF Task, Forms
  <2>3. TaskSound(t)
    BY <1>2, <1>0 DEF TaskSound, CreateApprovalCheck, Task, Persons
  <2>4. Continue(w, t)
    BY <1>2 DEF CreateApprovalCheck
  <2> QED
    BY <2>2, <2>3, <2>4, ContinueTyped
<1>3. ASSUME NEW r \in Requests, NEW stage \in 1 .. 2, NEW permitted \in BOOLEAN,
             ReviewDepartureCheck(w, r, stage, permitted)
      PROVE  TypeOK'
  <2> DEFINE t == [task[w] EXCEPT !.op = "departure", !.req = r, !.stage = stage,
                     !.permitted = permitted]
  <2>1. stage \in 0 .. 2
    OBVIOUS
  <2>2. t \in Task
    BY <1>0, <2>1 DEF Task
  <2>3. permitted \in DepartureGrant(task[w].actor) /\ task[w].op = "session"
    BY <1>3 DEF ReviewDepartureCheck
  <2>4. permitted => task[w].actor \in Signers("departure")
    BY <2>3 DEF DepartureGrant, HasPermission, Signers
  <2>5. TaskSound(t)
    BY <1>0, <2>3, <2>4 DEF TaskSound, Task
  <2>6. Continue(w, t)
    BY <1>3 DEF ReviewDepartureCheck
  <2> QED
    BY <2>2, <2>5, <2>6, ContinueTyped
<1>4. CASE Abandon(w)
  <2>1. TaskSound(NoTask)
    BY DEF TaskSound, NoTask
  <2> QED
    BY <1>4, <2>1, BlanksTyped, ContinueTyped DEF Abandon
<1> QED
  BY <1>1, <1>2, <1>3, <1>4

--------------------------------------------------------------------------------
(* The steps that write. *)

LEMMA FinishTyped ==
  ASSUME TypeOK, NEW w \in Workers, Finish(w)
  PROVE  /\ task' \in [Workers -> Task]
         /\ \A v \in Workers : TaskSound(task'[v])
  BY BlanksTyped, NotesTyped DEF Finish, TypeOK, NoTask, TaskSound

LEMMA TotalRange == \A kind : Total(kind) \in 1 .. 2
  BY DEF Total

LEMMA StepsAfterTyped ==
  ASSUME TypeOK, NEW r \in Requests, NEW a \in Persons \cup {None}, NEW status \in Decided
  PROVE  StepsAfter(r, a, status) \in [1 .. 2 -> StepRow]
<1> SUFFICES ASSUME NEW n \in 1 .. 2
             PROVE  StepsAfter(r, a, status)[n] \in StepRow
  BY DEF StepsAfter
<1>1. step[r][n] \in StepRow
  BY DEF TypeOK, ApprTypeOK
<1>2. req[r].current = n => Sign(r, a, status) \in StepRow
  BY <1>1 DEF Sign, StepRow, Decided
<1>3. [step[r][n] EXCEPT !.status = "skipped"] \in StepRow
  BY <1>1 DEF StepRow
<1>4. [step[r][n] EXCEPT !.status = "pending"] \in StepRow
  BY <1>1 DEF StepRow
<1> QED
  BY <1>1, <1>2, <1>3, <1>4 DEF StepsAfter

(* The tables of the directory are left alone. *)
LEMMA SameDirectory ==
  ASSUME DirTypeOK, UNCHANGED dirVars
  PROVE  DirTypeOK'
  BY DEF DirTypeOK, dirVars

(* A write of the rows of one request, as every transaction but CreateApproval  *)
(* performs it.                                                                 *)
LEMMA RowsTyped ==
  ASSUME TypeOK, NEW w \in Workers, Finish(w), DirTypeOK',
         req' \in [Requests -> Request], step' \in [Requests -> [1 .. 2 -> StepRow]],
         leave' \in [Requests -> {"none", "pending"} \cup Closed],
         used' \in [Employees -> [{"annual", "sick", "personal"} -> Nat]],
         events' \in [Requests -> Nat], notified' \in [Requests -> Nat]
  PROVE  TypeOK'
  BY FinishTyped DEF TypeOK, ApprTypeOK, TaskSound

LEMMA CreateApprovalTyped ==
  ASSUME TypeOK, NEW w \in Workers, CreateApproval(w)
  PROVE  TypeOK'
<1> DEFINE t == task[w]
<1>0. t \in Task /\ t.actor \in Employees
  BY DEF TypeOK, ApprTypeOK, TaskSound, CreateApproval
<1>1. DirTypeOK'
  BY SameDirectory DEF CreateApproval, TypeOK
<1>2. PICK r \in Requests :
        /\ req' = [req EXCEPT ![r] = [status |-> "pending", applicant |-> t.actor,
                                      current |-> 1, form |-> t.form]]
        /\ step' = [step EXCEPT ![r] =
             [n \in 1 .. 2 |-> IF n = 1 THEN ManagerStep(t.approver)
                               ELSE IF n <= Total(t.form.kind) THEN HRStep ELSE NoStep]]
        /\ leave' = [leave EXCEPT ![r] = IF t.form.kind = "leave" THEN "pending" ELSE "none"]
  BY DEF CreateApproval
<1>3. [status |-> "pending", applicant |-> t.actor, current |-> 1, form |-> t.form] \in Request
  BY <1>0 DEF Request, Task
<1>4. ManagerStep(t.approver) \in StepRow /\ HRStep \in StepRow /\ NoStep \in StepRow
  BY <1>0 DEF ManagerStep, HRStep, NoStep, StepRow, Task
<1>5. req' \in [Requests -> Request]
  BY <1>2, <1>3 DEF TypeOK, ApprTypeOK
<1>6. step' \in [Requests -> [1 .. 2 -> StepRow]]
  BY <1>2, <1>4 DEF TypeOK, ApprTypeOK
<1>7. leave' \in [Requests -> {"none", "pending"} \cup Closed]
  BY <1>2 DEF TypeOK, ApprTypeOK
<1> QED
  BY <1>1, <1>5, <1>6, <1>7, RowsTyped DEF CreateApproval, TypeOK, ApprTypeOK

(* A review writes the steps, the request and the counters of one request. *)
LEMMA ReviewTyped ==
  ASSUME TypeOK, NEW w \in Workers, NEW r \in Requests, NEW status \in Decided
  PROVE  /\ [step EXCEPT ![r] = StepsAfter(r, task[w].actor, status)]
              \in [Requests -> [1 .. 2 -> StepRow]]
         /\ [req EXCEPT ![r].status = status] \in [Requests -> Request]
         /\ [leave EXCEPT ![r] = status] \in [Requests -> {"none", "pending"} \cup Closed]
         /\ [notified EXCEPT ![r] = @ + 1] \in [Requests -> Nat]
         /\ [events EXCEPT ![r] = @ + 1] \in [Requests -> Nat]
<1>1. task[w].actor \in Persons \cup {None}
  BY DEF TypeOK, ApprTypeOK, Task
<1>2. StepsAfter(r, task[w].actor, status) \in [1 .. 2 -> StepRow]
  BY <1>1, StepsAfterTyped
<1>3. [req[r] EXCEPT !.status = status] \in Request
  BY DEF TypeOK, ApprTypeOK, Request, Closed
<1> QED
  BY <1>2, <1>3 DEF TypeOK, ApprTypeOK, Closed

LEMMA RejectTyped ==
  ASSUME TypeOK, NEW w \in Workers, NEW r \in Requests, Reject(w, r)
  PROVE  TypeOK'
<1>1. DirTypeOK'
  BY SameDirectory DEF Reject, TypeOK
<1>2. "rejected" \in Decided
  BY DEF Decided
<1> QED
  BY <1>1, <1>2, ReviewTyped, RowsTyped DEF Reject, TypeOK, ApprTypeOK

LEMMA AdvanceTyped ==
  ASSUME TypeOK, NEW w \in Workers, NEW r \in Requests, Advance(w, r)
  PROVE  TypeOK'
<1>1. DirTypeOK'
  BY SameDirectory DEF Advance, TypeOK
<1>2. "approved" \in Decided
  BY DEF Decided
<1>3. req[r] \in Request /\ req[r].current < Total(req[r].form.kind)
  BY DEF Advance, TypeOK, ApprTypeOK
<1>4. req[r].current + 1 \in 0 .. 2
  BY <1>3, TotalRange DEF Request
<1>5. [req[r] EXCEPT !.current = @ + 1] \in Request
  BY <1>3, <1>4 DEF Request
<1>6. req' \in [Requests -> Request]
  BY <1>5 DEF Advance, TypeOK, ApprTypeOK
<1> QED
  BY <1>1, <1>2, <1>6, ReviewTyped, RowsTyped DEF Advance, TypeOK, ApprTypeOK

(* A completed request has an applicant whose row is there. *)
LEMMA ApplicantTyped ==
  ASSUME TypeOK, NEW w, NEW r \in Requests, Complete(w, r)
  PROVE  /\ req[r].applicant \in Employees
         /\ emp[req[r].applicant] \in Employee
         /\ req[r].form \in Form
  BY DEF Complete, Present, TypeOK, DirTypeOK, ApprTypeOK, Request

LEMMA CompleteLeaveTyped ==
  ASSUME TypeOK, NEW w \in Workers, NEW r \in Requests, CompleteLeave(w, r)
  PROVE  TypeOK'
<1> DEFINE e == req[r].applicant
           c == Column(req[r].form.type)
           n == req[r].form.days
<1>1. DirTypeOK'
  BY SameDirectory DEF CompleteLeave, TypeOK
<1>2. "approved" \in Decided
  BY DEF Decided
<1>3. e \in Employees /\ n \in Nat
  BY ApplicantTyped, FormDays DEF CompleteLeave
<1>4. c \in {"annual", "sick", "personal"}
  BY DEF Column
<1>5. used[e][c] \in Nat
  BY <1>3, <1>4 DEF TypeOK, ApprTypeOK
<1>6. [used[e] EXCEPT ![c] = @ + n] \in [{"annual", "sick", "personal"} -> Nat]
  <2>1. used[e] \in [{"annual", "sick", "personal"} -> Nat]
    BY <1>3 DEF TypeOK, ApprTypeOK
  <2>2. used[e][c] + n \in Nat
    BY <1>3, <1>5
  <2> HIDE DEF c, n, e
  <2> QED
    BY <2>1, <2>2
<1>7. used' \in [Employees -> [{"annual", "sick", "personal"} -> Nat]]
  BY <1>3, <1>6 DEF CompleteLeave, TypeOK, ApprTypeOK
<1> QED
  BY <1>1, <1>2, <1>7, ReviewTyped, RowsTyped DEF CompleteLeave, Complete, TypeOK, ApprTypeOK

LEMMA CompleteDepartureTyped ==
  ASSUME TypeOK, NEW w \in Workers, NEW r \in Requests, CompleteDeparture(w, r)
  PROVE  TypeOK'
<1> DEFINE e == req[r].applicant
<1>1. e \in Employees /\ emp[e] \in Employee
  BY ApplicantTyped DEF CompleteDeparture
<1>2. [emp[e] EXCEPT !.status = "disabled"] \in Employee
  BY <1>1 DEF Employee, Statuses
<1>3. DirTypeOK'
  BY <1>2 DEF CompleteDeparture, TypeOK, DirTypeOK
<1>4. "approved" \in Decided
  BY DEF Decided
<1> QED
  BY <1>3, <1>4, ReviewTyped, RowsTyped DEF CompleteDeparture, Complete, TypeOK, ApprTypeOK

LEMMA CompleteTransferTyped ==
  ASSUME TypeOK, NEW w \in Workers, NEW r \in Requests, CompleteTransfer(w, r)
  PROVE  TypeOK'
<1> DEFINE e == req[r].applicant
           f == req[r].form
<1>1. e \in Employees /\ emp[e] \in Employee /\ f \in Form
  BY ApplicantTyped DEF CompleteTransfer
<1>2. [emp EXCEPT ![e].dept = f.dept, ![e].pos = f.pos]
        = [emp EXCEPT ![e] = [emp[e] EXCEPT !.dept = f.dept, !.pos = f.pos]]
  BY <1>1 DEF TypeOK, DirTypeOK, Employee
<1>3. f.dept \in Departments /\ f.pos \in Positions
  BY <1>1 DEF CompleteTransfer, PlacementAllowed, Enabled, Present, TypeOK, DirTypeOK
<1>4. [emp[e] EXCEPT !.dept = f.dept, !.pos = f.pos] \in Employee
  BY <1>1, <1>3 DEF Employee
<1>5. DirTypeOK'
  BY <1>2, <1>4 DEF CompleteTransfer, TypeOK, DirTypeOK
<1>6. "approved" \in Decided
  BY DEF Decided
<1> QED
  BY <1>5, <1>6, ReviewTyped, RowsTyped DEF CompleteTransfer, Complete, TypeOK, ApprTypeOK

LEMMA CancelTyped ==
  ASSUME TypeOK, NEW w \in Workers, NEW r \in Requests, CancelApproval(w, r)
  PROVE  TypeOK'
<1>1. DirTypeOK'
  BY SameDirectory DEF CancelApproval, TypeOK
<1>2. [req[r] EXCEPT !.status = "cancelled"] \in Request
  BY DEF TypeOK, ApprTypeOK, Request, Closed
<1>3. req' \in [Requests -> Request]
  BY <1>2 DEF CancelApproval, TypeOK, ApprTypeOK
<1>4. \A n \in 1 .. 2 : /\ step[r][n] \in StepRow
                        /\ [step[r][n] EXCEPT !.status = "skipped"] \in StepRow
  <2> SUFFICES ASSUME NEW n \in 1 .. 2
               PROVE  /\ step[r][n] \in StepRow
                      /\ [step[r][n] EXCEPT !.status = "skipped"] \in StepRow
    OBVIOUS
  <2>1. step[r][n] \in StepRow
    BY DEF TypeOK, ApprTypeOK
  <2>2. [step[r][n] EXCEPT !.status = "skipped"] \in StepRow
    BY <2>1 DEF StepRow
  <2> QED
    BY <2>1, <2>2
<1>5. step' \in [Requests -> [1 .. 2 -> StepRow]]
  BY <1>4 DEF CancelApproval, TypeOK, ApprTypeOK
<1>6. leave' \in [Requests -> {"none", "pending"} \cup Closed]
  BY DEF CancelApproval, CancelLeave, TypeOK, ApprTypeOK, Closed
<1> QED
  BY <1>1, <1>3, <1>5, <1>6, RowsTyped DEF CancelApproval, TypeOK, ApprTypeOK

LEMMA DirectoryTyped ==
  ASSUME TypeOK, \/ \E w \in Workers : DirectoryStep(w)
                 \/ Elsewhere
  PROVE  TypeOK'
<1>1. DirTypeOK'
  BY CheckTyped, WriteTyped, FailTyped, ElsewhereTyped DEF DirectoryStep, Elsewhere, TypeOK
<1>2. UNCHANGED apprVars
  BY DEF DirectoryStep, Elsewhere
<1> QED
  BY <1>1, <1>2 DEF TypeOK, ApprTypeOK, apprVars, TaskSound

LEMMA TypeInit == Init => TypeOK
<1> SUFFICES ASSUME Init
             PROVE  TypeOK
  OBVIOUS
<1>1. DirTypeOK
  BY DirTypeInit DEF Init
<1>2. TaskSound(NoTask)
  BY DEF TaskSound, NoTask
<1>3. ApprTypeOK
  BY <1>2, BlanksTyped DEF Init, ApprTypeOK
<1> QED
  BY <1>1, <1>3 DEF TypeOK

LEMMA TypeStep == TypeOK /\ [Next]_vars => TypeOK'
<1> SUFFICES ASSUME TypeOK, [Next]_vars
             PROVE  TypeOK'
  OBVIOUS
<1>1. CASE UNCHANGED vars
  BY <1>1, SameDirectory DEF vars, dirVars, apprVars, TypeOK, ApprTypeOK, TaskSound
<1>2. ASSUME NEW w \in Workers, ApprovalStep(w)
      PROVE  TypeOK'
  BY <1>2, ReadTyped, CreateApprovalTyped, RejectTyped, AdvanceTyped, CompleteLeaveTyped,
     CompleteDepartureTyped, CompleteTransferTyped, CancelTyped DEF ApprovalStep
<1>3. CASE (\E w \in Workers : DirectoryStep(w)) \/ Elsewhere
  BY <1>3, DirectoryTyped
<1> QED
  BY <1>1, <1>2, <1>3 DEF Next

(* Whatever handlers run, the tables and the notes stay well typed, and a       *)
(* request that is being created has an employee as its applicant.              *)
THEOREM Typed == Spec => []TypeOK
  BY TypeInit, TypeStep, PTL DEF Spec

--------------------------------------------------------------------------------

(* The steps that leave the tables of the workflow alone. *)
Reading(w) ==
  \/ \E a \in Persons : Authenticate(w, a)
  \/ \E form \in Forms : CreateApprovalCheck(w, form)
  \/ \E r \in Requests, stage \in 1 .. 2, permitted \in BOOLEAN :
       ReviewDepartureCheck(w, r, stage, permitted)
  \/ Abandon(w)

LEMMA ReadingChangesNothing ==
  ASSUME NEW w \in Workers, Reading(w)
  PROVE  UNCHANGED <<dirVars, apprTables>>
  BY DEF Reading, Authenticate, CreateApprovalCheck, ReviewDepartureCheck, Abandon, Continue

(* A step of the system reads, writes the rows of one request, or leaves the    *)
(* workflow alone.                                                              *)
LEMMA StepCases ==
  ASSUME [Next]_vars
  PROVE  \/ UNCHANGED apprTables
         \/ \E w \in Workers : CreateApproval(w)
         \/ \E w \in Workers, r \in Requests :
              \/ Reject(w, r) \/ Advance(w, r) \/ CancelApproval(w, r)
              \/ CompleteLeave(w, r) \/ CompleteDeparture(w, r) \/ CompleteTransfer(w, r)
<1>1. CASE UNCHANGED vars
  BY <1>1 DEF vars, apprVars, apprTables
<1>2. ASSUME NEW w \in Workers, DirectoryStep(w) \/ Elsewhere
      PROVE  UNCHANGED apprTables
  BY <1>2 DEF DirectoryStep, Elsewhere, apprVars, apprTables
<1>3. CASE Elsewhere
  BY <1>3 DEF Elsewhere, apprVars, apprTables
<1>4. ASSUME NEW w \in Workers, Reading(w)
      PROVE  UNCHANGED apprTables
  BY <1>4, ReadingChangesNothing
<1>5. ASSUME NEW w \in Workers, ApprovalStep(w)
      PROVE  \/ Reading(w)
             \/ CreateApproval(w)
             \/ \E r \in Requests :
                  \/ Reject(w, r) \/ Advance(w, r) \/ CancelApproval(w, r)
                  \/ CompleteLeave(w, r) \/ CompleteDeparture(w, r) \/ CompleteTransfer(w, r)
  BY <1>5 DEF ApprovalStep, Reading
<1> QED
  BY <1>1, <1>2, <1>3, <1>4, <1>5 DEF Next

(* A last approval, whatever its effect. *)
LEMMA Completion ==
  ASSUME NEW w, NEW r,
         CompleteLeave(w, r) \/ CompleteDeparture(w, r) \/ CompleteTransfer(w, r)
  PROVE  Complete(w, r)
  BY DEF CompleteLeave, CompleteDeparture, CompleteTransfer

--------------------------------------------------------------------------------
(* What a step does to the notes of its worker. *)

(* What a step of the workflow leaves in the notes of its worker.               *)
LEMMA NotesAfter ==
  ASSUME TypeOK, NEW w \in Workers, ApprovalStep(w)
  PROVE  /\ \A v \in Workers : v # w => task'[v] = task[v]
         /\ \/ task'[w].op \in {"none", "session"}
            \/ /\ task'[w].op = "create"
               /\ CreateApprovalCheck(w, task'[w].form)
               /\ task'[w].actor = task[w].actor
               /\ task'[w].approver = ApproverOf(task[w].actor, task[w].dept)
            \/ /\ task'[w].op = "departure"
               /\ task'[w].req \in Requests /\ task'[w].stage \in 1 .. 2
               /\ \E permitted \in BOOLEAN :
                    ReviewDepartureCheck(w, task'[w].req, task'[w].stage, permitted)
<1>0. task \in [Workers -> Task] /\ task[w] \in Task
  BY DEF TypeOK, ApprTypeOK
<1>1. CASE Finish(w)
  BY <1>0, <1>1 DEF Finish, NoTask
<1>2. ASSUME NEW form \in Forms, CreateApprovalCheck(w, form)
      PROVE  /\ \A v \in Workers : v # w => task'[v] = task[v]
             /\ task'[w].op = "create" /\ task'[w].form = form /\ task'[w].actor = task[w].actor
             /\ task'[w].approver = ApproverOf(task[w].actor, task[w].dept)
  BY <1>0, <1>2 DEF CreateApprovalCheck, Continue, Task
<1>3. ASSUME NEW r \in Requests, NEW stage \in 1 .. 2, NEW permitted \in BOOLEAN,
             ReviewDepartureCheck(w, r, stage, permitted)
      PROVE  /\ \A v \in Workers : v # w => task'[v] = task[v]
             /\ task'[w].op = "departure" /\ task'[w].req = r /\ task'[w].stage = stage
  BY <1>0, <1>3 DEF ReviewDepartureCheck, Continue, Task
<1>4. CASE (\E a \in Persons : Authenticate(w, a)) \/ Abandon(w)
  <2>1. CASE \E a \in Persons : Authenticate(w, a)
    BY <1>0, <2>1 DEF Authenticate, Continue, NoTask
  <2>2. CASE Abandon(w)
    BY <1>0, <2>2 DEF Abandon, Continue, NoTask
  <2> QED
    BY <1>4, <2>1, <2>2
<1>5. ASSUME ~Finish(w)
      PROVE  \/ (\E a \in Persons : Authenticate(w, a)) \/ Abandon(w)
             \/ \E form \in Forms : CreateApprovalCheck(w, form)
             \/ \E r \in Requests, stage \in 1 .. 2, permitted \in BOOLEAN :
                  ReviewDepartureCheck(w, r, stage, permitted)
  BY <1>5 DEF ApprovalStep, CreateApproval, Reject, Advance, CompleteLeave,
     CompleteDeparture, CompleteTransfer, Complete, CancelApproval
<1>6. CASE \E form \in Forms : CreateApprovalCheck(w, form)
  <2>1. PICK form \in Forms : CreateApprovalCheck(w, form)
    BY <1>6
  <2> QED
    BY <1>2, <2>1
<1>7. CASE \E r \in Requests, stage \in 1 .. 2, permitted \in BOOLEAN :
             ReviewDepartureCheck(w, r, stage, permitted)
  <2>1. PICK r \in Requests, stage \in 1 .. 2, permitted \in BOOLEAN :
          ReviewDepartureCheck(w, r, stage, permitted)
    BY <1>7
  <2> QED
    BY <1>3, <2>1
<1> QED
  BY <1>1, <1>4, <1>5, <1>6, <1>7

--------------------------------------------------------------------------------
(* What a step does to the rows of one request. *)

SameRows(r) == /\ req'[r] = req[r] /\ step'[r] = step[r] /\ leave'[r] = leave[r]
               /\ events'[r] = events[r] /\ notified'[r] = notified[r]

Created(w, r) ==
  /\ task[w].op = "create"
  /\ req[r].status = "none"
  /\ req'[r] = [status |-> "pending", applicant |-> task[w].actor, current |-> 1,
                form |-> task[w].form]
  /\ step'[r] = [n \in 1 .. 2 |-> IF n = 1 THEN ManagerStep(task[w].approver)
                                  ELSE IF n <= Total(task[w].form.kind) THEN HRStep ELSE NoStep]
  /\ leave'[r] = IF task[w].form.kind = "leave" THEN "pending" ELSE "none"
  /\ events'[r] = events[r] /\ notified'[r] = notified[r]

Refused(w, r) ==
  /\ MayReview(w, r)
  /\ req'[r] = [req[r] EXCEPT !.status = "rejected"]
  /\ step'[r] = StepsAfter(r, task[w].actor, "rejected")
  /\ leave'[r] = IF req[r].form.kind = "leave" THEN "rejected" ELSE leave[r]
  /\ events'[r] = events[r] /\ notified'[r] = notified[r] + 1

Advanced(w, r) ==
  /\ MayReview(w, r)
  /\ req[r].current < Total(req[r].form.kind)
  /\ req'[r] = [req[r] EXCEPT !.current = @ + 1]
  /\ step'[r] = StepsAfter(r, task[w].actor, "approved")
  /\ leave'[r] = leave[r] /\ events'[r] = events[r] /\ notified'[r] = notified[r]

Approved(w, r) ==
  /\ MayReview(w, r)
  /\ req[r].current = Total(req[r].form.kind)
  /\ req'[r] = [req[r] EXCEPT !.status = "approved"]
  /\ step'[r] = StepsAfter(r, task[w].actor, "approved")
  /\ leave'[r] = IF req[r].form.kind = "leave" THEN "approved" ELSE leave[r]
  /\ events'[r] = IF req[r].form.kind = "leave" THEN events[r] ELSE events[r] + 1
  /\ notified'[r] = notified[r] + 1

Cancelled(w, r) ==
  /\ MayCancel(w, r)
  /\ req'[r] = [req[r] EXCEPT !.status = "cancelled"]
  /\ step'[r] = [n \in 1 .. 2 |-> IF step[r][n].status \in {"pending", "waiting"}
                                  THEN [step[r][n] EXCEPT !.status = "skipped"] ELSE step[r][n]]
  /\ leave'[r] = IF leave[r] = "none" THEN "none" ELSE "cancelled"
  /\ events'[r] = events[r] /\ notified'[r] = notified[r]

LEMMA RowCases ==
  ASSUME TypeOK, [Next]_vars, NEW r \in Requests
  PROVE  \/ SameRows(r)
         \/ \E w \in Workers : \/ Created(w, r) \/ Refused(w, r) \/ Advanced(w, r)
                               \/ Approved(w, r) \/ Cancelled(w, r)
<1>1. CASE UNCHANGED apprTables
  BY <1>1 DEF apprTables, SameRows
<1>2. ASSUME NEW w \in Workers, CreateApproval(w)
      PROVE  SameRows(r) \/ Created(w, r)
  BY <1>2 DEF CreateApproval, SameRows, Created, TypeOK, ApprTypeOK
<1>3. ASSUME NEW w \in Workers, NEW x \in Requests, x # r,
             \/ Reject(w, x) \/ Advance(w, x) \/ CancelApproval(w, x)
             \/ CompleteLeave(w, x) \/ CompleteDeparture(w, x) \/ CompleteTransfer(w, x)
      PROVE  SameRows(r)
  BY <1>3 DEF Reject, Advance, CancelApproval, CancelLeave, CompleteLeave, CompleteDeparture,
     CompleteTransfer, Complete, SameRows, TypeOK, ApprTypeOK
<1>4. ASSUME NEW w \in Workers, Reject(w, r)
      PROVE  Refused(w, r)
  BY <1>4 DEF Reject, Refused, TypeOK, ApprTypeOK
<1>5. ASSUME NEW w \in Workers, Advance(w, r)
      PROVE  Advanced(w, r)
  BY <1>5 DEF Advance, Advanced, TypeOK, ApprTypeOK
<1>6. ASSUME NEW w \in Workers, CancelApproval(w, r)
      PROVE  Cancelled(w, r)
  BY <1>6 DEF CancelApproval, CancelLeave, Cancelled, TypeOK, ApprTypeOK
<1>7. ASSUME NEW w \in Workers, CompleteLeave(w, r)
      PROVE  Approved(w, r)
  BY <1>7 DEF CompleteLeave, Complete, Approved, TypeOK, ApprTypeOK
<1>8. ASSUME NEW w \in Workers, CompleteDeparture(w, r) \/ CompleteTransfer(w, r)
      PROVE  Approved(w, r)
  BY <1>8 DEF CompleteDeparture, CompleteTransfer, Complete, Approved, TypeOK, ApprTypeOK
<1> QED
  BY <1>1, <1>2, <1>3, <1>4, <1>5, <1>6, <1>7, <1>8, StepCases

--------------------------------------------------------------------------------
(* StepDiscipline *)

(* The rows after a review, from the rows before it. *)
LEMMA ReviewAgrees ==
  ASSUME TypeOK, NEW w \in Workers, NEW r \in Requests, StepsAgree(req[r], step[r]), MayReview(w, r),
         NEW status \in Decided
  PROVE  LET q == req[r]
             s == StepsAfter(r, task[w].actor, status)
         IN
         /\ status = "rejected" => StepsAgree([q EXCEPT !.status = "rejected"], s)
         /\ status = "approved" /\ q.current < Total(q.form.kind) =>
              StepsAgree([q EXCEPT !.current = @ + 1], s)
         /\ status = "approved" /\ q.current = Total(q.form.kind) =>
              StepsAgree([q EXCEPT !.status = "approved"], s)
<1> DEFINE q == req[r]
           s == step[r]
<1>1. q \in Request /\ s \in [1 .. 2 -> StepRow] /\ q.status = "pending"
  BY DEF TypeOK, ApprTypeOK, MayReview, Decidable
<1>2. Total(q.form.kind) \in 1 .. 2 /\ q.current \in 1 .. Total(q.form.kind)
  BY <1>1, TotalRange DEF StepsAgree
<1>3. \A n \in 1 .. 2 : s[n].status = IF n > Total(q.form.kind) THEN "none"
                                     ELSE IF n < q.current THEN "approved"
                                     ELSE IF n = q.current THEN "pending" ELSE "waiting"
  BY <1>1, <1>2 DEF StepsAgree
<1>4. \A n \in 1 .. 2 : StepsAfter(r, task[w].actor, status)[n].status =
        IF n > Total(q.form.kind) THEN "none"
        ELSE IF n < q.current THEN "approved"
        ELSE IF n = q.current THEN status
        ELSE IF status = "rejected" THEN "skipped"
        ELSE IF n = q.current + 1 THEN "pending" ELSE "waiting"
  BY <1>1, <1>2, <1>3 DEF StepsAfter, Sign, StepRow, Decided
<1> QED
  BY <1>1, <1>2, <1>4 DEF StepsAgree, Request

LEMMA DisciplineStep == TypeOK /\ StepDiscipline /\ [Next]_vars => StepDiscipline'
<1> SUFFICES ASSUME TypeOK, StepDiscipline, [Next]_vars, NEW r \in Requests
             PROVE  StepsAgree(req'[r], step'[r])
  BY DEF StepDiscipline
<1>0. /\ StepsAgree(req[r], step[r])
      /\ req[r] \in Request
      /\ step[r] \in [1 .. 2 -> StepRow]
  BY DEF StepDiscipline, TypeOK, ApprTypeOK
<1>d. "approved" \in Decided /\ "rejected" \in Decided
  BY DEF Decided
<1>1. CASE SameRows(r)
  BY <1>0, <1>1 DEF SameRows
<1>2. ASSUME NEW w \in Workers, Created(w, r)
      PROVE  StepsAgree(req'[r], step'[r])
  <2> DEFINE t == task[w]
  <2>1. /\ req'[r].status = "pending" /\ req'[r].current = 1 /\ req'[r].form = t.form
        /\ step'[r] = [n \in 1 .. 2 |-> IF n = 1 THEN ManagerStep(t.approver)
                                        ELSE IF n <= Total(t.form.kind) THEN HRStep ELSE NoStep]
    BY <1>2 DEF Created
  <2>2. \A n \in 1 .. 2 : step'[r][n].status = IF n = 1 THEN "pending"
                            ELSE IF n <= Total(t.form.kind) THEN "waiting" ELSE "none"
    BY <2>1 DEF ManagerStep, HRStep, NoStep
  <2> QED
    BY <2>1, <2>2, TotalRange DEF StepsAgree
<1>3. ASSUME NEW w \in Workers, Refused(w, r)
      PROVE  StepsAgree(req'[r], step'[r])
  <2>1. MayReview(w, r)
    BY <1>3 DEF Refused
  <2>2. StepsAgree([req[r] EXCEPT !.status = "rejected"],
                   StepsAfter(r, task[w].actor, "rejected"))
    BY <1>0, <1>d, <2>1, ReviewAgrees
  <2> QED
    BY <1>3, <2>2 DEF Refused
<1>4. ASSUME NEW w \in Workers, Advanced(w, r)
      PROVE  StepsAgree(req'[r], step'[r])
  <2>1. MayReview(w, r) /\ req[r].current < Total(req[r].form.kind)
    BY <1>4 DEF Advanced
  <2>2. StepsAgree([req[r] EXCEPT !.current = @ + 1], StepsAfter(r, task[w].actor, "approved"))
    BY <1>0, <1>d, <2>1, ReviewAgrees
  <2> QED
    BY <1>4, <2>2 DEF Advanced
<1>5. ASSUME NEW w \in Workers, Approved(w, r)
      PROVE  StepsAgree(req'[r], step'[r])
  <2>1. MayReview(w, r) /\ req[r].current = Total(req[r].form.kind)
    BY <1>5 DEF Approved
  <2>2. StepsAgree([req[r] EXCEPT !.status = "approved"],
                   StepsAfter(r, task[w].actor, "approved"))
    BY <1>0, <1>d, <2>1, ReviewAgrees
  <2> QED
    BY <1>5, <2>2 DEF Approved
<1>6. ASSUME NEW w \in Workers, Cancelled(w, r)
      PROVE  StepsAgree(req'[r], step'[r])
  <2>1. req[r].status = "pending" /\ req[r].current = 1
    BY <1>6 DEF Cancelled, MayCancel
  <2>2. \A n \in 1 .. 2 : step[r][n] \in StepRow
    BY <1>0
  <2>3. \A n \in 1 .. 2 : step'[r][n].status =
          IF n > Total(req[r].form.kind) THEN "none" ELSE "skipped"
    BY <1>0, <1>6, <2>1, <2>2, TotalRange DEF Cancelled, StepsAgree, StepRow
  <2>4. req'[r] = [req[r] EXCEPT !.status = "cancelled"]
    BY <1>6 DEF Cancelled
  <2> QED
    BY <1>0, <2>1, <2>3, <2>4, TotalRange DEF StepsAgree, Request
<1> QED
  BY <1>1, <1>2, <1>3, <1>4, <1>5, <1>6, RowCases

LEMMA DisciplineInit == Init => StepDiscipline
  BY TotalRange DEF Init, StepDiscipline, StepsAgree, NoRequest, NoStep

--------------------------------------------------------------------------------
(* EffectOnce *)

LEMMA EffectStep == TypeOK /\ EffectOnce /\ [Next]_vars => EffectOnce'
<1> DEFINE Told(r) ==
      /\ leave[r] = IF req[r].form.kind = "leave" THEN req[r].status ELSE "none"
      /\ events[r] = IF req[r].status = "approved" /\ req[r].form.kind # "leave" THEN 1 ELSE 0
      /\ notified[r] = IF req[r].status \in Decided THEN 1 ELSE 0
<1> SUFFICES ASSUME TypeOK, EffectOnce, [Next]_vars, NEW r \in Requests
             PROVE  Told(r)'
  BY DEF EffectOnce
<1>0. Told(r) /\ req[r] \in Request
  BY DEF EffectOnce, TypeOK, ApprTypeOK
<1>1. CASE SameRows(r)
  BY <1>0, <1>1 DEF SameRows
<1>2. ASSUME NEW w \in Workers, Created(w, r)
      PROVE  Told(r)'
  BY <1>0, <1>2 DEF Created, Decided
<1>3. ASSUME NEW w \in Workers, Refused(w, r)
      PROVE  Told(r)'
  BY <1>0, <1>3 DEF Refused, MayReview, Decidable, Decided, Request
<1>4. ASSUME NEW w \in Workers, Advanced(w, r)
      PROVE  Told(r)'
  BY <1>0, <1>4 DEF Advanced, MayReview, Decidable, Decided, Request
<1>5. ASSUME NEW w \in Workers, Approved(w, r)
      PROVE  Told(r)'
  <2>1. req[r].status = "pending"
    BY <1>5 DEF Approved, MayReview, Decidable
  <2> QED
    BY <1>0, <1>5, <2>1 DEF Approved, Decided, Request
<1>6. ASSUME NEW w \in Workers, Cancelled(w, r)
      PROVE  Told(r)'
  BY <1>0, <1>6 DEF Cancelled, MayCancel, Decided, Request
<1> QED
  BY <1>1, <1>2, <1>3, <1>4, <1>5, <1>6, RowCases

LEMMA EffectInit == Init => EffectOnce
  BY DEF Init, EffectOnce, NoRequest, NoForm, Decided

--------------------------------------------------------------------------------
(* Reviews of departures on their way from the check to the transaction.        *)

(* They were sent for a departure, and for a stage that was open then.          *)
InTransit ==
  /\ \A r \in Requests : req[r].status = "none" => req[r].current = 0
  /\ \A w \in Workers : task[w].op = "departure" =>
       /\ task[w].req \in Requests
       /\ req[task[w].req].form.kind = "departure"
       /\ task[w].stage \in 1 .. req[task[w].req].current

LEMMA InTransitInit == Init => InTransit
  BY DEF Init, InTransit, NoRequest, NoTask

(* A request keeps its form and never goes back to an earlier step. *)
LEMMA OnlyForward ==
  ASSUME TypeOK, [Next]_vars, NEW r \in Requests, req[r].status # "none"
  PROVE  /\ req'[r].form = req[r].form
         /\ req'[r].status # "none"
         /\ req'[r].current = req[r].current \/ req'[r].current = req[r].current + 1
<1>0. req[r] \in Request
  BY DEF TypeOK, ApprTypeOK
<1>1. CASE SameRows(r)
  BY <1>1 DEF SameRows
<1>2. ASSUME NEW w \in Workers,
             Refused(w, r) \/ Advanced(w, r) \/ Approved(w, r) \/ Cancelled(w, r)
      PROVE  /\ req'[r].form = req[r].form
             /\ req'[r].status # "none"
             /\ req'[r].current = req[r].current \/ req'[r].current = req[r].current + 1
  BY <1>0, <1>2 DEF Refused, Advanced, Approved, Cancelled, Request
<1> QED
  BY <1>1, <1>2, RowCases DEF Created

LEMMA InTransitStep == TypeOK /\ InTransit /\ [Next]_vars => InTransit'
<1> SUFFICES ASSUME TypeOK, InTransit, [Next]_vars
             PROVE  InTransit'
  OBVIOUS
<1>1. \A r \in Requests : req'[r].status = "none" => req'[r].current = 0
  <2> SUFFICES ASSUME NEW r \in Requests, req'[r].status = "none"
               PROVE  req'[r].current = 0
    OBVIOUS
  <2>1. req[r].status = "none"
    BY OnlyForward
  <2>2. SameRows(r) \/ \E w \in Workers : Created(w, r)
    BY <2>1, RowCases DEF Refused, Advanced, Approved, Cancelled, MayReview, Decidable, MayCancel, Request
  <2> QED
    <3>1. CASE SameRows(r)
      BY <2>1, <3>1 DEF SameRows, InTransit
    <3>2. ASSUME NEW w \in Workers, Created(w, r)
          PROVE  FALSE
      BY <3>2 DEF Created
    <3> QED
      BY <2>2, <3>1, <3>2
<1>2. ASSUME NEW w \in Workers, task'[w].op = "departure"
      PROVE  /\ task'[w].req \in Requests
             /\ req'[task'[w].req].form.kind = "departure"
             /\ task'[w].stage \in 1 .. req'[task'[w].req].current
  <2>1. CASE task'[w] = task[w]
    <3>1. PICK r \in Requests : r = task[w].req
      BY <1>2, <2>1 DEF InTransit
    <3>2. /\ req[r].form.kind = "departure" /\ task[w].stage \in 1 .. req[r].current
          /\ req[r].current \in Nat /\ task[w].stage \in Nat
      BY <1>2, <2>1, <3>1 DEF InTransit, TypeOK, ApprTypeOK, Request, Task
    <3>3. req[r].status # "none"
      BY <3>2 DEF InTransit
    <3> QED
      BY <2>1, <3>1, <3>2, <3>3, OnlyForward
  <2>2. CASE ApprovalStep(w)
    <3>1. PICK permitted \in BOOLEAN :
            ReviewDepartureCheck(w, task'[w].req, task'[w].stage, permitted)
      BY <1>2, <2>2, NotesAfter
    <3>2. task'[w] \in Task /\ task'[w].req \in Requests /\ task'[w].stage \in 1 .. 2
      BY <1>2, <2>2, NotesAfter, TypeStep DEF TypeOK, ApprTypeOK
    <3>3. /\ req' = req
          /\ req[task'[w].req].form.kind = "departure"
          /\ req[task'[w].req].current = task'[w].stage
      BY <3>1 DEF ReviewDepartureCheck, Continue, apprTables
    <3> QED
      BY <3>2, <3>3
  <2>3. ASSUME NEW v \in Workers, ApprovalStep(v), v # w
        PROVE  task'[w] = task[w]
    BY <2>3, NotesAfter
  <2> QED
    BY <2>1, <2>2, <2>3 DEF Next, DirectoryStep, Elsewhere, apprVars, vars
<1> QED
  BY <1>1, <1>2 DEF InTransit

LEMMA InTransitHolds == Spec => []InTransit
  BY InTransitInit, InTransitStep, Typed, PTL DEF Spec

--------------------------------------------------------------------------------
(* ReviewersEntitled *)

(* Whoever passes the checks of a review is named for the current step or may   *)
(* sign it by permission, and is not the applicant.                             *)
LEMMA Entitled ==
  ASSUME TypeOK, InTransit, NEW w \in Workers, NEW r \in Requests, MayReview(w, r)
  PROVE  LET a == task[w].actor
             s == step[r][req[r].current]
         IN
         /\ a # req[r].applicant
         /\ a # None
         /\ s.approver = a \/ (s.byPermission /\ a \in Signers(req[r].form.kind))
<1> DEFINE t == task[w]
<1>1. t \in Task /\ TaskSound(t)
  BY DEF TypeOK, ApprTypeOK
<1>2. t.op \in {"session", "departure"}
  BY DEF MayReview
<1>3. t.actor \in Persons /\ t.actor # None
  BY <1>1, <1>2, DirectoryAssumption, ApprovalsAssumption DEF TaskSound, Persons
<1>4. CASE t.op = "session"
  BY <1>3, <1>4 DEF MayReview, Decidable, ReviewGrant, HasPermission, Signers
<1>5. CASE t.op = "departure"
  <2>1. req[r].form.kind = "departure" /\ Decidable(t.actor, r, t.permitted)
    BY <1>5 DEF MayReview, InTransit
  <2>2. t.permitted => t.actor \in Signers(req[r].form.kind)
    BY <1>1, <1>5, <2>1 DEF TaskSound
  <2> QED
    BY <1>3, <2>1, <2>2 DEF Decidable
<1> QED
  BY <1>2, <1>4, <1>5

LEMMA EntitledStep == TypeOK /\ InTransit /\ ReviewersEntitled /\ [Next]_vars => ReviewersEntitled'
<1> SUFFICES ASSUME TypeOK, InTransit, ReviewersEntitled, [Next]_vars, NEW r \in Requests, NEW n \in 1 .. 2
             PROVE  SignedBy(req'[r], step'[r][n])
  BY DEF ReviewersEntitled
<1>0. /\ SignedBy(req[r], step[r][n])
      /\ req[r] \in Request
      /\ step[r] \in [1 .. 2 -> StepRow] /\ step[r][n] \in StepRow
  BY DEF ReviewersEntitled, TypeOK, ApprTypeOK
<1>a. ASSUME NEW w \in Workers, NEW status \in Decided, MayReview(w, r)
      PROVE  SignedBy(req[r], StepsAfter(r, task[w].actor, status)[n])
  <2>1. CASE n = req[r].current
    <3>1. StepsAfter(r, task[w].actor, status)[n]
            = [step[r][n] EXCEPT !.status = status, !.reviewer = task[w].actor]
      BY <2>1 DEF StepsAfter, Sign
    <3> QED
      BY <1>0, <1>a, <2>1, <3>1, Entitled DEF SignedBy, StepRow
  <2>2. CASE n # req[r].current
    BY <1>0, <2>2 DEF StepsAfter, SignedBy, StepRow, Decided
  <2> QED
    BY <2>1, <2>2
<1>d. "approved" \in Decided /\ "rejected" \in Decided
  BY DEF Decided
<1>1. CASE SameRows(r)
  BY <1>0, <1>1 DEF SameRows
<1>2. ASSUME NEW w \in Workers, Created(w, r)
      PROVE  SignedBy(req'[r], step'[r][n])
  BY <1>2 DEF Created, SignedBy, ManagerStep, HRStep, NoStep, Decided
<1>3. ASSUME NEW w \in Workers, Refused(w, r) \/ Advanced(w, r) \/ Approved(w, r)
      PROVE  SignedBy(req'[r], step'[r][n])
  <2>1. /\ req'[r].applicant = req[r].applicant /\ req'[r].form = req[r].form
        /\ MayReview(w, r)
    BY <1>0, <1>3 DEF Refused, Advanced, Approved, Request
  <2>2. \E status \in Decided : step'[r] = StepsAfter(r, task[w].actor, status)
    BY <1>d, <1>3 DEF Refused, Advanced, Approved
  <2> QED
    BY <1>a, <2>1, <2>2 DEF SignedBy
<1>4. ASSUME NEW w \in Workers, Cancelled(w, r)
      PROVE  SignedBy(req'[r], step'[r][n])
  BY <1>0, <1>4 DEF Cancelled, SignedBy, Request, StepRow, Decided
<1> QED
  BY <1>1, <1>2, <1>3, <1>4, RowCases

LEMMA EntitledInit == Init => ReviewersEntitled
  BY DEF Init, ReviewersEntitled, SignedBy, NoStep, Decided

--------------------------------------------------------------------------------
(* The invariants that hold for any number of handlers in flight. *)

IInv == TypeOK /\ StepDiscipline /\ InTransit /\ ReviewersEntitled /\ EffectOnce

LEMMA IInvHolds == Spec => []IInv
<1>1. Init => IInv
  BY TypeInit, DisciplineInit, EffectInit, InTransitInit, EntitledInit DEF IInv
<1>2. IInv /\ [Next]_vars => IInv'
  BY TypeStep, DisciplineStep, EffectStep, InTransitStep, EntitledStep DEF IInv
<1> QED
  BY <1>1, <1>2, PTL DEF Spec

(* The rows of a request agree with one another in every state. *)
THEOREM Disciplined == Spec => []StepDiscipline
<1>1. IInv => StepDiscipline
  BY DEF IInv
<1> QED
  BY <1>1, IInvHolds, PTL

(* Leave record, employment history and notifications follow the request. *)
THEOREM OneEffect == Spec => []EffectOnce
<1>1. IInv => EffectOnce
  BY DEF IInv
<1> QED
  BY <1>1, IInvHolds, PTL

(* Nobody decides a step who is not entitled to it, nor his own request. *)
THEOREM OnlyEntitledReviewers == Spec => []ReviewersEntitled
<1>1. IInv => ReviewersEntitled
  BY DEF IInv
<1> QED
  BY <1>1, IInvHolds, PTL

--------------------------------------------------------------------------------
(* The action properties. *)

LEMMA StandStep ==
  ASSUME IInv, [Next]_vars, NEW r \in Requests
  PROVE  /\ req[r].status \in Closed =>
              req'[r] = req[r] /\ step'[r] = step[r] /\ leave'[r] = leave[r]
         /\ \A n \in 1 .. 2 : step[r][n].status \in Decided => step'[r][n] = step[r][n]
<1>0. /\ TypeOK /\ StepsAgree(req[r], step[r])
      /\ req[r] \in Request /\ step[r] \in [1 .. 2 -> StepRow]
  BY DEF IInv, StepDiscipline, TypeOK, ApprTypeOK
<1>1. CASE SameRows(r)
  BY <1>1 DEF SameRows
<1>2. ASSUME NEW w \in Workers, Created(w, r)
      PROVE  req[r].status \notin Closed /\ \A n \in 1 .. 2 : step[r][n].status \notin Decided
  BY <1>0, <1>2 DEF Created, StepsAgree, Closed, Decided
<1>3. ASSUME NEW w \in Workers, Refused(w, r) \/ Advanced(w, r) \/ Approved(w, r)
      PROVE  /\ req[r].status \notin Closed
             /\ \A n \in 1 .. 2 : step[r][n].status \in Decided => step'[r][n] = step[r][n]
  <2>1. MayReview(w, r)
    BY <1>3 DEF Refused, Advanced, Approved
  <2>2. req[r].status = "pending" /\ step[r][req[r].current].status = "pending"
    BY <2>1 DEF MayReview, Decidable
  <2>3. \E status \in Decided : step'[r] = StepsAfter(r, task[w].actor, status)
    BY <1>3 DEF Refused, Advanced, Approved, Decided
  <2> QED
    BY <2>2, <2>3 DEF StepsAfter, Closed, Decided
<1>4. ASSUME NEW w \in Workers, Cancelled(w, r)
      PROVE  /\ req[r].status \notin Closed
             /\ \A n \in 1 .. 2 : step[r][n].status \in Decided => step'[r][n] = step[r][n]
  BY <1>4 DEF Cancelled, MayCancel, Closed, Decided
<1> QED
  BY <1>0, <1>1, <1>2, <1>3, <1>4, RowCases

(* A closed request and a signed step never change again. *)
THEOREM DecisionsStay == Spec => DecisionsStand
<1>1. IInv /\ [Next]_vars =>
        [\A r \in Requests :
           /\ req[r].status \in Closed =>
                req'[r] = req[r] /\ step'[r] = step[r] /\ leave'[r] = leave[r]
           /\ \A n \in 1 .. 2 : step[r][n].status \in Decided => step'[r][n] = step[r][n]]_vars
  BY StandStep
<1> QED
  BY <1>1, IInvHolds, PTL DEF Spec, DecisionsStand

LEMMA DepartureStep ==
  ASSUME TypeOK, [Next]_vars, NEW r \in Requests, req[r].form.kind = "departure",
         req[r].status = "pending", req'[r].status = "approved"
  PROVE  /\ emp'[req[r].applicant].status = "disabled"
         /\ req[r].applicant \notin session' \cup token'
<1>0. req[r] \in Request
  BY DEF TypeOK, ApprTypeOK
<1>1. \E w \in Workers : CompleteDeparture(w, r)
  <2>1. CASE UNCHANGED apprTables
    BY <2>1 DEF apprTables
  <2>2. ASSUME NEW w \in Workers, CreateApproval(w)
        PROVE  FALSE
    BY <2>2 DEF CreateApproval, TypeOK, ApprTypeOK
  <2>3. ASSUME NEW w \in Workers, NEW x \in Requests, CompleteLeave(w, x) \/ CompleteTransfer(w, x)
        PROVE  FALSE
    BY <2>3 DEF CompleteLeave, CompleteTransfer, Complete, TypeOK, ApprTypeOK
  <2>4. ASSUME NEW w \in Workers, NEW x \in Requests,
               Reject(w, x) \/ Advance(w, x) \/ CancelApproval(w, x)
        PROVE  FALSE
    <3>1. CASE Reject(w, x)
      BY <1>0, <3>1 DEF Reject, TypeOK, ApprTypeOK, Request
    <3>2. CASE Advance(w, x)
      BY <1>0, <3>2 DEF Advance, TypeOK, ApprTypeOK, Request
    <3>3. CASE CancelApproval(w, x)
      BY <1>0, <3>3 DEF CancelApproval, TypeOK, ApprTypeOK, Request
    <3> QED
      BY <2>4, <3>1, <3>2, <3>3
  <2>5. ASSUME NEW w \in Workers, NEW x \in Requests, x # r, CompleteDeparture(w, x)
        PROVE  FALSE
    BY <2>5 DEF CompleteDeparture, Complete, TypeOK, ApprTypeOK
  <2> QED
    BY <2>1, <2>2, <2>3, <2>4, <2>5, StepCases
<1>2. PICK w \in Workers : CompleteDeparture(w, r)
  BY <1>1
<1>3. req[r].applicant \in Employees /\ emp[req[r].applicant] \in Employee
  BY <1>2, ApplicantTyped DEF CompleteDeparture
<1> QED
  BY <1>2, <1>3 DEF CompleteDeparture, TypeOK, DirTypeOK, Employee

(* An approved departure leaves no way into the account. *)
THEOREM DepartureIsFinal == Spec => DepartureClosesAccount
<1>1. TypeOK /\ [Next]_vars =>
        [\A r \in Requests :
           req[r].form.kind = "departure" /\ req[r].status = "pending"
             /\ req'[r].status = "approved" =>
             /\ emp'[req[r].applicant].status = "disabled"
             /\ req[r].applicant \notin session' \cup token']_vars
  BY DepartureStep
<1> QED
  BY <1>1, Typed, PTL DEF Spec, DepartureClosesAccount

--------------------------------------------------------------------------------
(* Approving a departure or a transfer writes the row of an applicant who is    *)
(* present, so that the workflow revives nobody either.                         *)
LEMMA ApprovalLeavesDeleted ==
  ASSUME TypeOK, Blank, NEW w \in Workers, ApprovalStep(w)
  PROVE  Blank' /\ LeavesDeleted
<1>1. CASE UNCHANGED dirVars
  BY <1>1, UntouchedLeavesDeleted DEF dirVars
<1>2. ASSUME NEW r \in Requests, CompleteDeparture(w, r) \/ CompleteTransfer(w, r)
      PROVE  Blank' /\ LeavesDeleted
  <2> DEFINE e == req[r].applicant
  <2>1. UNCHANGED <<dept, pos>> /\ emp[e].row = "present"
    BY <1>2 DEF CompleteDeparture, CompleteTransfer, Complete, Present
  <2>2. e \in Employees /\ emp[e] \in Employee
    BY <1>2, ApplicantTyped DEF CompleteDeparture, CompleteTransfer
  <2>3. emp'[e].row = "present"
    BY <1>2, <2>1, <2>2 DEF CompleteDeparture, CompleteTransfer, TypeOK, DirTypeOK, Employee
  <2>4. \A x \in Employees : x # e => emp'[x] = emp[x]
    BY <1>2 DEF CompleteDeparture, CompleteTransfer, TypeOK, DirTypeOK
  <2> QED
    BY <2>1, <2>3, <2>4 DEF Blank, LeavesDeleted
<1>3. ASSUME ~UNCHANGED dirVars
      PROVE  \E r \in Requests : CompleteDeparture(w, r) \/ CompleteTransfer(w, r)
  BY <1>3 DEF ApprovalStep, Authenticate, CreateApprovalCheck, ReviewDepartureCheck, Abandon,
     Continue, CreateApproval, Reject, Advance, CancelApproval, CompleteLeave
<1> QED
  BY <1>1, <1>2, <1>3

LEMMA StepLeavesDeleted ==
  ASSUME TypeOK, Blank, [Next]_vars
  PROVE  Blank' /\ LeavesDeleted
<1>1. CASE UNCHANGED vars
  BY <1>1, UntouchedLeavesDeleted DEF vars, dirVars
<1>2. ASSUME NEW w \in Workers, DirectoryStep(w)
      PROVE  Blank' /\ LeavesDeleted
  BY <1>2, NextLeavesDeleted DEF DirectoryStep, DirNext, TypeOK
<1>3. CASE Elsewhere
  BY <1>3, NextLeavesDeleted DEF Elsewhere, DirNext, TypeOK
<1> QED
  BY <1>1, <1>2, <1>3, ApprovalLeavesDeleted DEF Next

(* With the approval workflow over the directory, what was deleted is still     *)
(* never written again.                                                         *)
THEOREM NobodyRevived == Spec => NoResurrection
<1>1. Init => Blank
  BY InitialAssumption DEF Init, DirInit, Blank
<1>2. TypeOK /\ Blank /\ [Next]_vars => Blank' /\ LeavesDeleted
  BY StepLeavesDeleted
<1>3. LeavesDeleted =>
        [/\ \A e \in Employees : emp[e].row = "deleted" => emp'[e] = emp[e]
         /\ \A d \in Departments : dept[d].row = "deleted" => dept'[d] = dept[d]
         /\ \A p \in Positions : pos[p].row = "deleted" => pos'[p] = pos[p]]_dirVars
  BY DEF LeavesDeleted
<1> QED
  BY <1>1, <1>2, <1>3, Typed, PTL DEF Spec, NoResurrection

--------------------------------------------------------------------------------

(* The workflow implements ApprovalLifecycle.  The refinement mapping counts    *)
(* the approved steps of a request and what it left in the other tables; by the *)
(* invariants above each of these is a function of the request's own row, so    *)
(* that a step of the workflow can be mapped by what it does to that row.       *)

(* The abstract state of a request, read off its row. *)
Phase(q) == IF q.status = "pending" THEN "open" ELSE q.status
Need(q) == IF q.status = "none" THEN 0 ELSE Total(q.form.kind)
Signed(q) == IF q.status \in {"none", "cancelled"} THEN 0
             ELSE IF q.status = "approved" THEN Total(q.form.kind) ELSE q.current - 1
Effect(q) == IF q.status = "approved" THEN 1 ELSE 0
Told(q) == IF q.status \in Decided THEN 1 ELSE 0

RowDetermines ==
  \A r \in Requests :
    /\ Signature(r, 1) + Signature(r, 2) = Signed(req[r])
    /\ events[r] + (IF leave[r] = "approved" THEN 1 ELSE 0) = Effect(req[r])
    /\ notified[r] = Told(req[r])

LEMMA RowSuffices == IInv => RowDetermines
<1> SUFFICES ASSUME IInv, NEW r \in Requests
             PROVE  /\ Signature(r, 1) + Signature(r, 2) = Signed(req[r])
                    /\ events[r] + (IF leave[r] = "approved" THEN 1 ELSE 0) = Effect(req[r])
                    /\ notified[r] = Told(req[r])
  BY DEF RowDetermines
<1> DEFINE q == req[r]
<1>1. /\ q \in Request
      /\ StepsAgree(q, step[r])
      /\ leave[r] = IF q.form.kind = "leave" THEN q.status ELSE "none"
      /\ events[r] = IF q.status = "approved" /\ q.form.kind # "leave" THEN 1 ELSE 0
      /\ notified[r] = IF q.status \in Decided THEN 1 ELSE 0
  BY DEF IInv, TypeOK, ApprTypeOK, StepDiscipline, EffectOnce
<1>2. q.status \in {"none", "pending", "approved", "rejected", "cancelled"}
  BY <1>1 DEF Request, Closed, Decided
<1>3. Total(q.form.kind) \in 1 .. 2
  BY TotalRange
<1>4. q.status # "none" => q.current \in 1 .. Total(q.form.kind)
  BY <1>1 DEF StepsAgree
<1>5. \A n \in 1 .. 2 : step[r][n].status = "approved" <=>
        /\ q.status \in {"pending", "approved", "rejected"}
        /\ n <= Total(q.form.kind)
        /\ n < q.current \/ q.status = "approved"
  BY <1>1, <1>2, <1>3, <1>4 DEF StepsAgree
<1>6. Signature(r, 1) + Signature(r, 2) = Signed(q)
  BY <1>2, <1>3, <1>4, <1>5 DEF Signature, Signed
<1> QED
  BY <1>1, <1>2, <1>6 DEF Effect, Told, Decided

(* A step changes the row of one request at most, in one of five ways. *)
Transition(q, p) ==
  \/ q.status = "none" /\ p.status = "pending" /\ p.current = 1
  \/ q.status = "pending" /\ p = [q EXCEPT !.status = "rejected"]
  \/ /\ q.status = "pending" /\ q.current < Total(q.form.kind)
     /\ p = [q EXCEPT !.current = @ + 1]
  \/ /\ q.status = "pending" /\ q.current = Total(q.form.kind)
     /\ p = [q EXCEPT !.status = "approved"]
  \/ q.status = "pending" /\ q.current = 1 /\ p = [q EXCEPT !.status = "cancelled"]

LEMMA Transitions ==
  ASSUME TypeOK, [Next]_vars
  PROVE  \/ req' = req
         \/ \E r \in Requests : req' = [req EXCEPT ![r] = req'[r]] /\ Transition(req[r], req'[r])
<1>1. CASE UNCHANGED apprTables
  BY <1>1 DEF apprTables
<1>2. ASSUME NEW w \in Workers, CreateApproval(w)
      PROVE  \E r \in Requests : req' = [req EXCEPT ![r] = req'[r]] /\ Transition(req[r], req'[r])
  <2>1. PICK r \in Requests :
          /\ req[r].status = "none"
          /\ req' = [req EXCEPT ![r] = [status |-> "pending", applicant |-> task[w].actor,
                                        current |-> 1, form |-> task[w].form]]
    BY <1>2 DEF CreateApproval
  <2> QED
    BY <2>1 DEF Transition, TypeOK, ApprTypeOK
<1>3. ASSUME NEW w \in Workers, NEW r \in Requests, Reject(w, r)
      PROVE  req' = [req EXCEPT ![r] = req'[r]] /\ Transition(req[r], req'[r])
  BY <1>3 DEF Reject, MayReview, Decidable, Transition, TypeOK, ApprTypeOK
<1>4. ASSUME NEW w \in Workers, NEW r \in Requests, Advance(w, r)
      PROVE  req' = [req EXCEPT ![r] = req'[r]] /\ Transition(req[r], req'[r])
  BY <1>4 DEF Advance, MayReview, Decidable, Transition, TypeOK, ApprTypeOK
<1>5. ASSUME NEW w \in Workers, NEW r \in Requests,
             CompleteLeave(w, r) \/ CompleteDeparture(w, r) \/ CompleteTransfer(w, r)
      PROVE  req' = [req EXCEPT ![r] = req'[r]] /\ Transition(req[r], req'[r])
  <2>1. Complete(w, r)
    BY <1>5, Completion
  <2> QED
    BY <2>1 DEF Complete, MayReview, Decidable, Transition, TypeOK, ApprTypeOK
<1>6. ASSUME NEW w \in Workers, NEW r \in Requests, CancelApproval(w, r)
      PROVE  req' = [req EXCEPT ![r] = req'[r]] /\ Transition(req[r], req'[r])
  BY <1>6 DEF CancelApproval, MayCancel, Transition, TypeOK, ApprTypeOK
<1> QED
  BY <1>1, <1>2, <1>3, <1>4, <1>5, <1>6, StepCases

--------------------------------------------------------------------------------
(* The abstract variables, as the refinement mapping gives them. *)
mapped ==
  /\ phaseOf = [r \in Requests |-> Phase(req[r])]
  /\ needOf = [r \in Requests |-> Need(req[r])]
  /\ signedOf = [r \in Requests |-> Signed(req[r])]
  /\ effectOf = [r \in Requests |-> Effect(req[r])]
  /\ notified = [r \in Requests |-> Told(req[r])]

LEMMA Mapped == IInv => mapped
  BY RowSuffices DEF mapped, RowDetermines, phaseOf, needOf, signedOf, effectOf, Phase, Need,
     IInv, TypeOK, ApprTypeOK

(* The five abstract variables after a change of one row. *)
LEMMA RowChange ==
  ASSUME TypeOK, NEW r \in Requests, req' = [req EXCEPT ![r] = req'[r]]
  PROVE  /\ [x \in Requests |-> Phase(req'[x])]
              = [[x \in Requests |-> Phase(req[x])] EXCEPT ![r] = Phase(req'[r])]
         /\ [x \in Requests |-> Need(req'[x])]
              = [[x \in Requests |-> Need(req[x])] EXCEPT ![r] = Need(req'[r])]
         /\ [x \in Requests |-> Signed(req'[x])]
              = [[x \in Requests |-> Signed(req[x])] EXCEPT ![r] = Signed(req'[r])]
         /\ [x \in Requests |-> Effect(req'[x])]
              = [[x \in Requests |-> Effect(req[x])] EXCEPT ![r] = Effect(req'[r])]
         /\ [x \in Requests |-> Told(req'[x])]
              = [[x \in Requests |-> Told(req[x])] EXCEPT ![r] = Told(req'[r])]
<1>1. \A x \in Requests : x # r => req'[x] = req[x]
  BY DEF TypeOK, ApprTypeOK
<1> QED
  BY <1>1

LEMMA LifecycleStep ==
  ASSUME IInv, IInv', [Next]_vars
  PROVE  [Lifecycle!LifecycleNext]_Lifecycle!lifecycle
<1>1. mapped
  BY Mapped
<1>2. mapped'
  <2>1. (IInv => mapped)'
    BY Mapped, PTL
  <2> QED
    BY <2>1
<1>3. CASE req' = req
  BY <1>1, <1>2, <1>3 DEF mapped, Lifecycle!lifecycle
<1>4. ASSUME NEW r \in Requests, req' = [req EXCEPT ![r] = req'[r]], Transition(req[r], req'[r])
      PROVE  Lifecycle!LifecycleNext
  <2> DEFINE q == req[r]
             p == req'[r]
  <2>0. q \in Request /\ Total(q.form.kind) \in 1 .. 2 /\ Total(p.form.kind) \in 1 .. 2
    BY TotalRange DEF IInv, TypeOK, ApprTypeOK
  <2>1. /\ phaseOf[r] = Phase(q) /\ needOf[r] = Need(q) /\ signedOf[r] = Signed(q)
        /\ effectOf[r] = Effect(q) /\ notified[r] = Told(q)
    BY <1>1 DEF mapped
  <2>c. /\ phaseOf' = [phaseOf EXCEPT ![r] = Phase(p)]
        /\ needOf' = [needOf EXCEPT ![r] = Need(p)]
        /\ signedOf' = [signedOf EXCEPT ![r] = Signed(p)]
        /\ effectOf' = [effectOf EXCEPT ![r] = Effect(p)]
        /\ notified' = [notified EXCEPT ![r] = Told(p)]
    BY <1>1, <1>2, <1>4, RowChange DEF mapped, IInv
  <2>s. /\ Need(p) = Need(q) => needOf' = needOf
        /\ Phase(p) = Phase(q) => phaseOf' = phaseOf
        /\ Signed(p) = Signed(q) => signedOf' = signedOf
        /\ Effect(p) = Effect(q) => effectOf' = effectOf
        /\ Told(p) = Told(q) => notified' = notified
    BY <1>1, <2>1, <2>c DEF mapped
  <2>2. CASE q.status = "none" /\ p.status = "pending" /\ p.current = 1
    <3>1. /\ Phase(q) = "none" /\ Phase(p) = "open"
          /\ Need(p) \in 1 .. 2
          /\ Signed(p) = Signed(q) /\ Effect(p) = Effect(q) /\ Told(p) = Told(q)
      BY <2>0, <2>2 DEF Phase, Need, Signed, Effect, Told, Decided
    <3>2. Lifecycle!Submit(r)
      BY <2>1, <2>c, <2>s, <3>1 DEF Lifecycle!Submit
    <3> QED
      BY <3>2 DEF Lifecycle!LifecycleNext
  <2>3. CASE q.status = "pending" /\ p = [q EXCEPT !.status = "rejected"]
    <3>1. /\ Phase(q) = "open" /\ Phase(p) = "rejected" /\ Told(p) = 1
          /\ Need(p) = Need(q) /\ Signed(p) = Signed(q) /\ Effect(p) = Effect(q)
      BY <2>0, <2>3 DEF Phase, Need, Signed, Effect, Told, Decided, Request
    <3>2. Lifecycle!Refuse(r)
      BY <2>1, <2>c, <2>s, <3>1 DEF Lifecycle!Refuse
    <3> QED
      BY <3>2 DEF Lifecycle!LifecycleNext
  <2>4. CASE /\ q.status = "pending" /\ q.current < Total(q.form.kind)
             /\ p = [q EXCEPT !.current = @ + 1]
    <3>1. /\ Phase(q) = "open" /\ Phase(p) = Phase(q) /\ Need(p) = Need(q)
          /\ Signed(q) + 1 < Need(q) /\ Signed(p) = Signed(q) + 1
          /\ Effect(p) = Effect(q) /\ Told(p) = Told(q)
      BY <2>0, <2>4 DEF Phase, Need, Signed, Effect, Told, Decided, Request
    <3>2. Lifecycle!Sign(r)
      BY <2>1, <2>c, <2>s, <3>1 DEF Lifecycle!Sign
    <3> QED
      BY <3>2 DEF Lifecycle!LifecycleNext
  <2>5. CASE /\ q.status = "pending" /\ q.current = Total(q.form.kind)
             /\ p = [q EXCEPT !.status = "approved"]
    <3>1. /\ Phase(q) = "open" /\ Phase(p) = "approved"
          /\ Need(p) = Need(q) /\ Signed(q) + 1 = Need(q) /\ Signed(p) = Need(q)
          /\ Effect(p) = 1 /\ Told(p) = 1
      BY <2>0, <2>5 DEF Phase, Need, Signed, Effect, Told, Decided, Request
    <3>2. Lifecycle!Approve(r)
      BY <2>1, <2>c, <2>s, <3>1 DEF Lifecycle!Approve
    <3> QED
      BY <3>2 DEF Lifecycle!LifecycleNext
  <2>6. CASE q.status = "pending" /\ q.current = 1 /\ p = [q EXCEPT !.status = "cancelled"]
    <3>1. /\ Phase(q) = "open" /\ Phase(p) = "cancelled" /\ Need(p) = Need(q)
          /\ Signed(q) = 0 /\ Signed(p) = 0 /\ Effect(p) = Effect(q) /\ Told(p) = Told(q)
      BY <2>0, <2>6 DEF Phase, Need, Signed, Effect, Told, Decided, Request
    <3>2. Lifecycle!Withdraw(r)
      BY <2>1, <2>c, <2>s, <3>1 DEF Lifecycle!Withdraw
    <3> QED
      BY <3>2 DEF Lifecycle!LifecycleNext
  <2> QED
    BY <1>4, <2>2, <2>3, <2>4, <2>5, <2>6 DEF Transition
<1> QED
  BY <1>3, <1>4, Transitions DEF IInv

LEMMA LifecycleStart == Init => Lifecycle!LifecycleInit
  BY DEF Init, Lifecycle!LifecycleInit, phaseOf, needOf, signedOf, effectOf, NoRequest,
     NoStep, Signature

(* Every behaviour of the tables is a behaviour of the abstract life cycle: a   *)
(* request takes effect with its last signature, once, or not at all.           *)
THEOREM WorkflowImplementsLifecycle == Spec => ImplementsLifecycle
<1>1. IInv /\ IInv' /\ [Next]_vars => [Lifecycle!LifecycleNext]_Lifecycle!lifecycle
  BY LifecycleStep
<1> QED
  BY <1>1, LifecycleStart, IInvHolds, PTL
     DEF Spec, ImplementsLifecycle, Lifecycle!LifecycleSpec

--------------------------------------------------------------------------------
(* Sums of days.  What holds of the sum over every finite set is shown by a     *)
(* least counterexample among the subsets of that set.                          *)

DaysIn(d, S) == MapThenSumSet(LAMBDA r : d[r].form.days, S)

(* The sum takes the elements in the order Pick finds them; g adds up the       *)
(* subsets of S.                                                                *)
Pick(s) == CHOOSE x \in s : TRUE
AddsUp(d, S, g) ==
  g = [s \in SUBSET S |-> IF s = {} THEN 0
                          ELSE d[Pick(s)].form.days + g[s \ {Pick(s)}]]

LEMMA SumIsAdder == \A d, S : DaysIn(d, S) = (CHOOSE g : AddsUp(d, S, g))[S]
  BY DEF DaysIn, MapThenSumSet, MapThenFoldSet, AddsUp, Pick

(* Of subsets of a finite set, one contains no other. *)
LEMMA LeastSet ==
  ASSUME NEW S, IsFiniteSet(S), NEW B \in SUBSET (SUBSET S), B # {}
  PROVE  \E m \in B : \A s \in B : s \subseteq m => s = m
<1>1. B \subseteq FiniteSubsetsOf(S)
  BY FS_Subset DEF FiniteSubsetsOf
<1>2. IsWellFoundedOn(StrictSubsetOrdering(S), FiniteSubsetsOf(S))
  BY FS_StrictSubsetOrderingWellFounded
<1>3. PICK m \in B : \A s \in B : ~(<<s, m>> \in StrictSubsetOrdering(S))
  BY <1>1, <1>2, WFMin
<1> QED
  BY <1>1, <1>3 DEF StrictSubsetOrdering, FiniteSubsetsOf

LEMMA PickIn == \A s : s # {} => Pick(s) \in s
  BY DEF Pick

(* The adder of a set and the adder of a larger one agree. *)
LEMMA AddersAgree ==
  ASSUME NEW d, NEW S, IsFiniteSet(S), NEW T \in SUBSET S,
         NEW g, NEW h, AddsUp(d, S, g), AddsUp(d, T, h)
  PROVE  \A s \in SUBSET T : g[s] = h[s]
<1> DEFINE B == {s \in SUBSET T : g[s] # h[s]}
<1>1. SUFFICES ASSUME B # {}
             PROVE  FALSE
  OBVIOUS
<1>0. B \in SUBSET (SUBSET S)
  OBVIOUS
<1>2. IsFiniteSet(T)
  BY FS_Subset
<1> HIDE DEF B
<1>3. PICK m \in B : \A s \in B : s \subseteq m => s = m
  BY <1>0, <1>1, LeastSet
<1> USE DEF B
<1>4. /\ g[m] = IF m = {} THEN 0 ELSE d[Pick(m)].form.days + g[m \ {Pick(m)}]
      /\ h[m] = IF m = {} THEN 0 ELSE d[Pick(m)].form.days + h[m \ {Pick(m)}]
  BY DEF AddsUp
<1>5. m # {} => g[m \ {Pick(m)}] = h[m \ {Pick(m)}]
  BY <1>3, PickIn
<1> QED
  BY <1>4, <1>5

(* Put together from the adders of the smaller sets. *)
LEMMA AdderExists ==
  ASSUME NEW d, NEW S, IsFiniteSet(S)
  PROVE  \E g : AddsUp(d, S, g)
<1> DEFINE B == {T \in SUBSET S : ~\E g : AddsUp(d, T, g)}
<1>1. SUFFICES ASSUME B # {}
             PROVE  FALSE
  OBVIOUS
<1>0. B \in SUBSET (SUBSET S)
  OBVIOUS
<1> HIDE DEF B
<1>2. PICK m \in B : \A s \in B : s \subseteq m => s = m
  BY <1>0, <1>1, LeastSet
<1> USE DEF B
<1> DEFINE part(s) == CHOOSE g : AddsUp(d, s, g)
           G == [s \in SUBSET m |->
                   IF s = {} THEN 0
                   ELSE d[Pick(s)].form.days + part(s \ {Pick(s)})[s \ {Pick(s)}]]
<1>3. \A s \in SUBSET m : s # m => AddsUp(d, s, part(s))
  BY <1>2
<1> HIDE DEF part
<1>4. ASSUME NEW s \in SUBSET m, s # {}
      PROVE  part(s \ {Pick(s)})[s \ {Pick(s)}] = G[s \ {Pick(s)}]
  <2> DEFINE u == s \ {Pick(s)}
             v == u \ {Pick(u)}
  <2>1. u \in SUBSET m /\ u # m /\ AddsUp(d, u, part(u)) /\ IsFiniteSet(u) /\ u \in SUBSET u
    BY <1>3, <1>4, PickIn, FS_Subset
  <2>2. CASE u = {}
    BY <2>1, <2>2 DEF AddsUp
  <2>3. CASE u # {}
    <3>1. v \in SUBSET u /\ v # u /\ v \in SUBSET m /\ v # m
      BY <2>1, <2>3, PickIn
    <3>2. AddsUp(d, v, part(v))
      BY <1>3, <3>1
    <3> HIDE DEF u, v, G
    <3>3. part(u)[v] = part(v)[v]
      BY <2>1, <3>1, <3>2, AddersAgree
    <3> USE DEF u, v, G
    <3>4. part(u)[u] = d[Pick(u)].form.days + part(u)[v]
      BY <2>1, <2>3 DEF AddsUp
    <3>5. G[u] = d[Pick(u)].form.days + part(v)[v]
      BY <2>1, <2>3
    <3> HIDE DEF u, v, G
    <3>6. part(u)[u] = G[u]
      BY <3>3, <3>4, <3>5
    <3> QED
      BY <3>6 DEF u
  <2> QED
    BY <2>2, <2>3
<1>5. AddsUp(d, m, G)
  <2> DEFINE rhs(s) == IF s = {} THEN 0 ELSE d[Pick(s)].form.days + G[s \ {Pick(s)}]
  <2>1. \A s \in SUBSET m : G[s] = rhs(s)
    BY <1>4
  <2>2. G = [s \in SUBSET m |-> rhs(s)]
    BY <2>1
  <2> HIDE DEF G
  <2> QED
    BY <2>2 DEF AddsUp
<1> QED
  BY <1>2, <1>5

(* The sum, unfolded once. *)
LEMMA SumUnfolds ==
  ASSUME NEW d, NEW S, IsFiniteSet(S)
  PROVE  DaysIn(d, S) = IF S = {} THEN 0 ELSE d[Pick(S)].form.days + DaysIn(d, S \ {Pick(S)})
<1> DEFINE g == CHOOSE x : AddsUp(d, S, x)
           P == S \ {Pick(S)}
           h == CHOOSE x : AddsUp(d, P, x)
<1>1. AddsUp(d, S, g) /\ DaysIn(d, S) = g[S]
  BY AdderExists, SumIsAdder
<1>2. IsFiniteSet(P) /\ P \in SUBSET S /\ P \in SUBSET P
  BY FS_Subset
<1>3. AddsUp(d, P, h) /\ DaysIn(d, P) = h[P]
  BY <1>2, AdderExists, SumIsAdder
<1> HIDE DEF g, h
<1>4. g[P] = h[P]
  BY <1>1, <1>2, <1>3, AddersAgree
<1>5. g[S] = IF S = {} THEN 0 ELSE d[Pick(S)].form.days + g[P]
  BY <1>1 DEF AddsUp
<1> QED
  BY <1>1, <1>3, <1>4, <1>5

LEMMA SumIsNat ==
  ASSUME NEW S, IsFiniteSet(S), NEW d, \A x \in S : d[x].form.days \in Nat
  PROVE  DaysIn(d, S) \in Nat
<1> DEFINE B == {T \in SUBSET S : DaysIn(d, T) \notin Nat}
<1>1. SUFFICES ASSUME B # {}
             PROVE  FALSE
  OBVIOUS
<1>0. B \in SUBSET (SUBSET S)
  OBVIOUS
<1> HIDE DEF B
<1>2. PICK m \in B : \A s \in B : s \subseteq m => s = m
  BY <1>0, <1>1, LeastSet
<1> USE DEF B
<1>3. IsFiniteSet(m)
  BY FS_Subset
<1>4. DaysIn(d, m) = IF m = {} THEN 0 ELSE d[Pick(m)].form.days + DaysIn(d, m \ {Pick(m)})
  BY <1>3, SumUnfolds
<1>5. CASE m # {}
  <2>1. Pick(m) \in m /\ Pick(m) \in S
    BY <1>5, PickIn
  <2>2. DaysIn(d, m \ {Pick(m)}) \in Nat
    BY <1>2, <2>1
  <2> QED
    BY <1>4, <1>5, <2>1, <2>2
<1> QED
  BY <1>4, <1>5

(* Any element may be taken first. *)
LEMMA SumAdds ==
  ASSUME NEW S, IsFiniteSet(S), NEW d, \A x \in S : d[x].form.days \in Nat, NEW x \in S
  PROVE  DaysIn(d, S) = d[x].form.days + DaysIn(d, S \ {x})
<1> DEFINE Unfolds(T, y) == DaysIn(d, T) = d[y].form.days + DaysIn(d, T \ {y})
           B == {T \in SUBSET S : \E y \in T : ~ Unfolds(T, y)}
<1>1. SUFFICES ASSUME B # {}
             PROVE  FALSE
  OBVIOUS
<1>0. B \in SUBSET (SUBSET S)
  OBVIOUS
<1> HIDE DEF B
<1>2. PICK m \in B : \A s \in B : s \subseteq m => s = m
  BY <1>0, <1>1, LeastSet
<1> USE DEF B
<1>3. PICK y \in m : ~ Unfolds(m, y)
  OBVIOUS
<1> DEFINE p == Pick(m)
<1>4. IsFiniteSet(m) /\ p \in m /\ m \subseteq S
  BY PickIn, FS_Subset
<1>5. Unfolds(m, p)
  BY <1>4, SumUnfolds
<1>6. p # y
  BY <1>3, <1>5
<1>7. \A T \in SUBSET m : T # m => \A z \in T : Unfolds(T, z)
  BY <1>2
<1> HIDE DEF p
<1>8. DaysIn(d, m \ {p}) = d[y].form.days + DaysIn(d, (m \ {p}) \ {y})
  BY <1>4, <1>6, <1>7
<1>9. DaysIn(d, m \ {y}) = d[p].form.days + DaysIn(d, (m \ {y}) \ {p})
  BY <1>4, <1>6, <1>7
<1>10. (m \ {y}) \ {p} = (m \ {p}) \ {y}
  OBVIOUS
<1>11. d[p].form.days \in Nat /\ d[y].form.days \in Nat /\ DaysIn(d, (m \ {p}) \ {y}) \in Nat
  <2>1. IsFiniteSet((m \ {p}) \ {y}) /\ \A z \in (m \ {p}) \ {y} : d[z].form.days \in Nat
    BY <1>4, FS_Subset
  <2> QED
    BY <1>4, <2>1, SumIsNat
<1> DEFINE rest == DaysIn(d, (m \ {p}) \ {y})
<1>12. /\ DaysIn(d, m) = d[p].form.days + (d[y].form.days + rest)
       /\ DaysIn(d, m \ {y}) = d[p].form.days + rest
       /\ d[p].form.days \in Nat /\ d[y].form.days \in Nat /\ rest \in Nat
  BY <1>5, <1>8, <1>9, <1>10, <1>11
<1> HIDE DEF rest
<1>13. DaysIn(d, m) = d[y].form.days + DaysIn(d, m \ {y})
  BY <1>12
<1> QED
  BY <1>3, <1>13

(* Only what is summed up counts. *)
LEMMA SumOfSame ==
  ASSUME NEW S, IsFiniteSet(S), NEW d, NEW f, \A x \in S : d[x].form.days = f[x].form.days
  PROVE  DaysIn(d, S) = DaysIn(f, S)
<1> DEFINE B == {T \in SUBSET S : DaysIn(d, T) # DaysIn(f, T)}
<1>1. SUFFICES ASSUME B # {}
             PROVE  FALSE
  OBVIOUS
<1>0. B \in SUBSET (SUBSET S)
  OBVIOUS
<1> HIDE DEF B
<1>2. PICK m \in B : \A s \in B : s \subseteq m => s = m
  BY <1>0, <1>1, LeastSet
<1> USE DEF B
<1>3. IsFiniteSet(m)
  BY FS_Subset
<1>4. /\ DaysIn(d, m) = IF m = {} THEN 0 ELSE d[Pick(m)].form.days + DaysIn(d, m \ {Pick(m)})
      /\ DaysIn(f, m) = IF m = {} THEN 0 ELSE f[Pick(m)].form.days + DaysIn(f, m \ {Pick(m)})
  BY <1>3, SumUnfolds
<1>5. m # {} => /\ d[Pick(m)].form.days = f[Pick(m)].form.days
                /\ DaysIn(d, m \ {Pick(m)}) = DaysIn(f, m \ {Pick(m)})
  BY <1>2, PickIn
<1> QED
  BY <1>4, <1>5

(* A part asks for no more than the whole. *)
LEMMA SumSubset ==
  ASSUME NEW S, IsFiniteSet(S), NEW d, \A x \in S : d[x].form.days \in Nat, NEW T \in SUBSET S
  PROVE  DaysIn(d, T) <= DaysIn(d, S)
<1> DEFINE Below(U) == \A V \in SUBSET U : DaysIn(d, V) <= DaysIn(d, U)
           B == {U \in SUBSET S : ~Below(U)}
<1>1. SUFFICES ASSUME B # {}
             PROVE  FALSE
  OBVIOUS
<1>0. B \in SUBSET (SUBSET S)
  OBVIOUS
<1> HIDE DEF B
<1>2. PICK m \in B : \A s \in B : s \subseteq m => s = m
  BY <1>0, <1>1, LeastSet
<1> USE DEF B
<1>3. PICK V \in SUBSET m : ~(DaysIn(d, V) <= DaysIn(d, m))
  OBVIOUS
<1>4. IsFiniteSet(m) /\ m \subseteq S /\ DaysIn(d, m) \in Nat
  BY FS_Subset, SumIsNat
<1>5. PICK y \in m : y \notin V
  <2>1. V # m
    BY <1>3, <1>4
  <2> QED
    BY <2>1
<1>6. IsFiniteSet(m \ {y}) /\ Below(m \ {y})
  BY <1>2, <1>4, FS_Subset
<1>7. DaysIn(d, V) <= DaysIn(d, m \ {y})
  BY <1>5, <1>6
<1>8. DaysIn(d, m) = d[y].form.days + DaysIn(d, m \ {y}) /\ d[y].form.days \in Nat
  BY <1>4, <1>5, SumAdds
<1>9. DaysIn(d, m \ {y}) \in Nat /\ DaysIn(d, V) \in Nat
  <2>1. IsFiniteSet(V) /\ \A z \in V : d[z].form.days \in Nat
    BY <1>4, FS_Subset
  <2> QED
    BY <1>4, <1>6, <2>1, SumIsNat
<1> QED
  BY <1>3, <1>7, <1>8, <1>9

(* Forms that each fit the entitlement. *)
LEMMA SumBounded ==
  ASSUME NEW S, IsFiniteSet(S), NEW d,
         \A x \in S : d[x].form.days \in Nat /\ d[x].form.days <= AnnualEntitlement
  PROVE  DaysIn(d, S) <= AnnualEntitlement * Cardinality(S)
<1> DEFINE Bound(T) == DaysIn(d, T) <= AnnualEntitlement * Cardinality(T)
           B == {T \in SUBSET S : ~Bound(T)}
<1>1. SUFFICES ASSUME B # {}
             PROVE  FALSE
  BY FS_Subset
<1>0. B \in SUBSET (SUBSET S)
  OBVIOUS
<1> HIDE DEF B
<1>2. PICK m \in B : \A s \in B : s \subseteq m => s = m
  BY <1>0, <1>1, LeastSet
<1> USE DEF B
<1>3. IsFiniteSet(m) /\ m \subseteq S
  BY FS_Subset
<1>4. CASE m = {}
  <2>1. DaysIn(d, {}) = 0 /\ Cardinality({}) = 0
    BY FS_EmptySet, SumUnfolds
  <2>2. Bound(m)
    BY <1>4, <2>1 DEF AnnualEntitlement
  <2> QED
    BY <2>2
<1>5. CASE m # {}
  <2>1. PICK y \in m : TRUE
    BY <1>5
  <2>2. IsFiniteSet(m \ {y}) /\ Bound(m \ {y})
    BY <1>2, <1>3, FS_RemoveElement
  <2>3. DaysIn(d, m) = d[y].form.days + DaysIn(d, m \ {y})
    BY <1>3, SumAdds
  <2>4. Cardinality(m \ {y}) = Cardinality(m) - 1 /\ Cardinality(m) \in Nat
    BY <1>3, FS_RemoveElement, FS_CardinalityType
  <2>5. DaysIn(d, m \ {y}) \in Nat /\ d[y].form.days \in Nat
    <3>1. \A z \in m \ {y} : d[z].form.days \in Nat
      BY <1>3
    <3> QED
      BY <1>3, <2>2, <3>1, SumIsNat
  <2>6. d[y].form.days <= AnnualEntitlement
    BY <1>3
  <2>7. Bound(m)
    BY <2>2, <2>3, <2>4, <2>5, <2>6 DEF AnnualEntitlement
  <2> QED
    BY <2>7
<1> QED
  BY <1>4, <1>5

--------------------------------------------------------------------------------
(* Only finitely many requests have been made. *)
Made == {r \in Requests : req[r].status # "none"}
FinitelyMade == IsFiniteSet(Made)

LEMMA MadeStep == TypeOK /\ FinitelyMade /\ [Next]_vars => FinitelyMade'
<1> SUFFICES ASSUME TypeOK, IsFiniteSet(Made), [Next]_vars
             PROVE  IsFiniteSet(Made')
  BY DEF FinitelyMade
<1>1. CASE req' = req
  BY <1>1 DEF Made
<1>2. ASSUME NEW r \in Requests, req' = [req EXCEPT ![r] = req'[r]]
      PROVE  IsFiniteSet(Made')
  <2>1. Made' \in SUBSET (Made \cup {r})
    BY <1>2 DEF Made, TypeOK, ApprTypeOK
  <2>2. IsFiniteSet(Made \cup {r})
    BY FS_AddElement
  <2> QED
    BY <2>1, <2>2, FS_Subset
<1> QED
  BY <1>1, <1>2, Transitions

LEMMA MadeHolds == Spec => []FinitelyMade
<1>1. Init => FinitelyMade
  <2>1. Init => Made = {}
    BY DEF Init, Made, NoRequest
  <2> QED
    BY <2>1, FS_EmptySet DEF FinitelyMade
<1> QED
  BY <1>1, MadeStep, Typed, PTL DEF Spec

(* A request that was made keeps its applicant and its form. *)
LEMMA FormStays ==
  ASSUME TypeOK, [Next]_vars, NEW r \in Made
  PROVE  r \in Made' /\ req'[r].applicant = req[r].applicant /\ req'[r].form = req[r].form
<1>1. r \in Requests /\ req[r] \in Request
  BY DEF Made, TypeOK, ApprTypeOK
<1> QED
  BY <1>1, RowCases DEF Made, SameRows, Created, Refused, Advanced, Approved, Cancelled, Request

LEMMA LeaveOfMade ==
  ASSUME EffectOnce, NEW r \in Requests, leave[r] # "none"
  PROVE  r \in Made /\ req[r].form.kind = "leave" /\ leave[r] = req[r].status
  BY DEF EffectOnce, Made

LEMMA DaysNat ==
  ASSUME TypeOK, NEW r \in Requests
  PROVE  req[r].form.days \in Nat
  BY FormDays DEF TypeOK, ApprTypeOK, Request

LEMMA DaysAre == \A S : Days(S) = DaysIn(req, S)
  BY DEF Days, DaysIn

(* What is asked for, of requests made before the step, the step leaves alone.  *)
LEMMA SameDays ==
  ASSUME TypeOK, IsFiniteSet(Made), [Next]_vars, NEW S \in SUBSET Made
  PROVE  DaysIn(req', S) = DaysIn(req, S)
<1>1. IsFiniteSet(S)
  BY FS_Subset
<1>2. \A r \in S : req'[r].form.days = req[r].form.days
  BY FormStays
<1> QED
  BY <1>1, <1>2, SumOfSame

--------------------------------------------------------------------------------
(* BalanceMatchesRecords *)

(* The leave records that the column counts. *)
Taken(e, c) == {r \in Requests : /\ leave[r] = "approved"
                                 /\ req[r].applicant = e
                                 /\ Column(req[r].form.type) = c}

(* A step approves no leave and books nothing, or approves one and books it.    *)
LEMMA LeaveCases ==
  ASSUME TypeOK, EffectOnce, [Next]_vars
  PROVE  \/ /\ used' = used
            /\ \A r \in Requests : leave'[r] = "approved" <=> leave[r] = "approved"
         \/ \E w \in Workers, r \in Requests : CompleteLeave(w, r)
<1>1. CASE UNCHANGED apprTables
  BY <1>1 DEF apprTables
<1>2. ASSUME NEW w \in Workers, CreateApproval(w)
      PROVE  /\ used' = used
             /\ \A r \in Requests : leave'[r] = "approved" <=> leave[r] = "approved"
  BY <1>2 DEF CreateApproval, EffectOnce, TypeOK, ApprTypeOK
<1>3. ASSUME NEW w \in Workers, NEW x \in Requests,
             Reject(w, x) \/ Advance(w, x) \/ CancelApproval(w, x)
      PROVE  /\ used' = used
             /\ \A r \in Requests : leave'[r] = "approved" <=> leave[r] = "approved"
  BY <1>3 DEF Reject, Advance, CancelApproval, CancelLeave, MayReview, Decidable, MayCancel, EffectOnce,
     TypeOK, ApprTypeOK
<1>4. ASSUME NEW w \in Workers, NEW x \in Requests,
             CompleteDeparture(w, x) \/ CompleteTransfer(w, x)
      PROVE  used' = used /\ leave' = leave
  BY <1>4 DEF CompleteDeparture, CompleteTransfer
<1> QED
  BY <1>1, <1>2, <1>3, <1>4, StepCases

(* The columns after the completion of a leave. *)
LEMMA Booked ==
  ASSUME TypeOK, EffectOnce, NEW w \in Workers, NEW x \in Requests, CompleteLeave(w, x)
  PROVE  /\ leave[x] = "pending" /\ leave' = [leave EXCEPT ![x] = "approved"]
         /\ \A e \in Employees, c \in {"annual", "sick", "personal"} :
              used'[e][c] = IF req[x].applicant = e /\ Column(req[x].form.type) = c
                            THEN used[e][c] + req[x].form.days ELSE used[e][c]
<1>1. leave[x] = "pending" /\ leave' = [leave EXCEPT ![x] = "approved"]
  BY DEF CompleteLeave, Complete, MayReview, Decidable, EffectOnce
<1>2. req[x].applicant \in Employees
  BY ApplicantTyped DEF CompleteLeave
<1>3. Column(req[x].form.type) \in {"annual", "sick", "personal"}
  BY DEF Column
<1>4. used \in [Employees -> [{"annual", "sick", "personal"} -> Nat]]
  BY DEF TypeOK, ApprTypeOK
<1>5. used' = [used EXCEPT ![req[x].applicant][Column(req[x].form.type)] =
                 @ + req[x].form.days]
  BY DEF CompleteLeave
<1>6. \A e \in Employees, c \in {"annual", "sick", "personal"} :
        used'[e][c] = IF req[x].applicant = e /\ Column(req[x].form.type) = c
                      THEN used[e][c] + req[x].form.days ELSE used[e][c]
  BY <1>2, <1>3, <1>4, <1>5
<1> QED
  BY <1>1, <1>6

(* The invariant, by the sums whose lemmas are above. *)
BalanceIsSum ==
  \A e \in Employees, c \in {"annual", "sick", "personal"} :
    used[e][c] = DaysIn(req, Taken(e, c))

LEMMA BalanceSum == BalanceMatchesRecords <=> BalanceIsSum
  BY DEF BalanceMatchesRecords, BalanceIsSum, Taken, Days, DaysIn

LEMMA BalanceStep ==
  TypeOK /\ EffectOnce /\ FinitelyMade /\ BalanceIsSum /\ [Next]_vars => BalanceIsSum'
<1> SUFFICES ASSUME TypeOK, EffectOnce, IsFiniteSet(Made), BalanceIsSum, [Next]_vars,
                    NEW e \in Employees, NEW c \in {"annual", "sick", "personal"}
             PROVE  used'[e][c] = DaysIn(req', Taken(e, c)')
  BY DEF BalanceIsSum, FinitelyMade
<1>0. used[e][c] = DaysIn(req, Taken(e, c))
  BY DEF BalanceIsSum
<1>1. Taken(e, c) \in SUBSET Made
  BY LeaveOfMade DEF Taken
<1>2. CASE /\ used' = used
           /\ \A r \in Requests : leave'[r] = "approved" <=> leave[r] = "approved"
  <2>1. \A r \in Requests : leave[r] = "approved" => r \in Made
    BY LeaveOfMade
  <2>2. Taken(e, c)' = Taken(e, c)
    BY <1>2, <2>1, FormStays DEF Taken
  <2> QED
    BY <1>0, <1>1, <1>2, <2>2, SameDays
<1>3. ASSUME NEW w \in Workers, NEW x \in Requests, CompleteLeave(w, x)
      PROVE  used'[e][c] = DaysIn(req', Taken(e, c)')
  <2>1. /\ leave[x] = "pending" /\ leave' = [leave EXCEPT ![x] = "approved"]
        /\ used'[e][c] = IF req[x].applicant = e /\ Column(req[x].form.type) = c
                         THEN used[e][c] + req[x].form.days ELSE used[e][c]
    BY <1>3, Booked
  <2>2. x \in Made /\ leave \in [Requests -> {"none", "pending"} \cup Closed]
    BY <2>1, LeaveOfMade DEF TypeOK, ApprTypeOK
  <2>3. \A r \in Requests : leave[r] = "approved" => r \in Made
    BY LeaveOfMade
  <2>4. Taken(e, c)' = IF req[x].applicant = e /\ Column(req[x].form.type) = c
                       THEN Taken(e, c) \cup {x} ELSE Taken(e, c)
    BY <2>1, <2>2, <2>3, FormStays DEF Taken
  <2>5. x \notin Taken(e, c)
    BY <2>1 DEF Taken
  <2>6. CASE req[x].applicant = e /\ Column(req[x].form.type) = c
    <3> DEFINE S == Taken(e, c) \cup {x}
    <3>1. S \in SUBSET Made /\ x \in S /\ S \ {x} = Taken(e, c)
      BY <1>1, <2>2, <2>5
    <3>2. IsFiniteSet(S) /\ \A r \in S : req[r].form.days \in Nat
      BY <3>1, FS_Subset, DaysNat DEF Made
    <3> HIDE DEF S
    <3>3. DaysIn(req, S) = req[x].form.days + DaysIn(req, S \ {x})
      BY <3>1, <3>2, SumAdds
    <3>4. DaysIn(req', S) = DaysIn(req, S)
      BY <3>1, SameDays
    <3>5. used[e][c] \in Nat /\ req[x].form.days \in Nat
      BY DaysNat DEF TypeOK, ApprTypeOK
    <3>6. Taken(e, c)' = S /\ used'[e][c] = used[e][c] + req[x].form.days
      BY <2>1, <2>4, <2>6 DEF S
    <3>7. DaysIn(req, S) = req[x].form.days + used[e][c]
      BY <1>0, <3>1, <3>3
    <3>8. used'[e][c] = DaysIn(req, S)
      BY <3>5, <3>6, <3>7
    <3> QED
      BY <3>4, <3>6, <3>8
  <2>7. CASE ~(req[x].applicant = e /\ Column(req[x].form.type) = c)
    BY <1>0, <1>1, <2>1, <2>4, <2>7, SameDays
  <2> QED
    BY <2>6, <2>7
<1> QED
  BY <1>2, <1>3, LeaveCases

(* However the handlers overlap, a leave balance is the sum of the approved     *)
(* leave records of the employee.                                               *)
THEOREM BalancesMatch == Spec => []BalanceMatchesRecords
<1>1. Init => BalanceIsSum
  <2> SUFFICES ASSUME Init, NEW e \in Employees, NEW c \in {"annual", "sick", "personal"}
               PROVE  used[e][c] = DaysIn(req, Taken(e, c))
    BY DEF BalanceIsSum
  <2>1. Taken(e, c) = {} /\ used[e][c] = 0
    BY DEF Init, Taken
  <2> QED
    BY <2>1, FS_EmptySet, SumUnfolds
<1>2. IInv /\ FinitelyMade /\ BalanceIsSum /\ [Next]_vars => BalanceIsSum'
  BY BalanceStep DEF IInv
<1> QED
  BY <1>1, <1>2, BalanceSum, IInvHolds, MadeHolds, PTL DEF Spec

--------------------------------------------------------------------------------
(* Handlers kept apart.  A departure disables the account of the applicant and  *)
(* a transfer moves her, each as the handler of the directory would that is     *)
(* asked to, but in one transaction with its check.                             *)

Departs(r) == [NoJob EXCEPT !.op = "SetEmployeeEnabled", !.emp = req[r].applicant,
                            !.status = "disabled"]
Transfers(r) == [NoJob EXCEPT !.op = "UpdateEmployee", !.emp = req[r].applicant,
                              !.dept = req[r].form.dept, !.pos = req[r].form.pos,
                              !.status = KeptStatus(req[r].applicant)]

(* Nothing that is approved clashes with a handler of the directory in flight.  *)
EffectsApart ==
  \A w \in Workers, r \in Requests :
    /\ CompleteDeparture(w, r) => ClashesWithNone(Departs(r))
    /\ CompleteTransfer(w, r) => ClashesWithNone(Transfers(r))

SystemApart == Init /\ [][Next /\ KeptApart' /\ EffectsApart]_vars

LEMMA DepartureEffect ==
  ASSUME TypeOK, NEW w \in Workers, NEW r \in Requests, CompleteDeparture(w, r)
  PROVE  Departs(r) \in Job /\ Valid(Departs(r)) /\ Effects(Departs(r))
<1> DEFINE i == Departs(r)
           e == req[r].applicant
<1>1. e \in Employees /\ Present(emp, e) /\ ~Leads(e) /\ emp \in [Employees -> Employee]
  BY ApplicantTyped DEF CompleteDeparture, Complete, TypeOK, DirTypeOK
<1>2. i \in Job /\ i.op = "SetEmployeeEnabled" /\ i.emp = e /\ i.status = "disabled"
  BY <1>1 DEF Departs, NoJob, Job, Handlers, Statuses
<1>3. Valid(i)
  BY <1>1, <1>2 DEF Valid, ValidPlacement, ValidAccount, ValidDepartment, ValidPosition
<1>4. Relabelled(i)
  BY <1>1, <1>2 DEF CompleteDeparture, Relabelled, Employee, Present
<1> QED
  BY <1>2, <1>3, <1>4 DEF Effects

LEMMA TransferEffect ==
  ASSUME TypeOK, NEW w \in Workers, NEW r \in Requests, CompleteTransfer(w, r)
  PROVE  Transfers(r) \in Job /\ Valid(Transfers(r)) /\ Effects(Transfers(r))
<1> DEFINE i == Transfers(r)
           e == req[r].applicant
           f == req[r].form
<1>1. /\ e \in Employees /\ Present(emp, e) /\ emp \in [Employees -> Employee]
      /\ f.dept \in Departments \cup {None} /\ f.pos \in Positions \cup {None}
      /\ PlacementAllowed(f.dept, f.pos) /\ (emp[e].dept # f.dept => ~Leads(e))
  BY ApplicantTyped DEF CompleteTransfer, Complete, TypeOK, DirTypeOK, Form
<1>2. /\ i \in Job /\ i.op = "UpdateEmployee" /\ i.emp = e /\ i.dept = f.dept /\ i.pos = f.pos
      /\ i.status = emp[e].status
  BY <1>1 DEF Transfers, KeptStatus, NoJob, Job, Handlers, Employee
<1>3. Valid(i)
  BY <1>1, <1>2 DEF Valid, ValidPlacement, ValidAccount, ValidDepartment, ValidPosition, Usable,
     PlacementAllowed, Enabled, Present
<1>4. Placed(i, e)
  BY <1>1, <1>2 DEF CompleteTransfer, Placed, Employee, Present
<1> QED
  BY <1>1, <1>2, <1>3, <1>4 DEF Effects

(* The steps of the workflow but these two leave the directory alone. *)
LEMMA WorkflowTouches ==
  ASSUME NEW w \in Workers, ApprovalStep(w)
  PROVE  \/ UNCHANGED dirVars
         \/ \E r \in Requests : CompleteDeparture(w, r) \/ CompleteTransfer(w, r)
  BY DEF ApprovalStep, Authenticate, CreateApprovalCheck, ReviewDepartureCheck, Abandon,
     Continue, CreateApproval, Reject, Advance, CancelApproval, CompleteLeave

LEMMA SystemValidKept ==
  ASSUME IsFiniteSet(Departments), TypeOK, DirectorySound, AllValid, KeptApart,
         [Next /\ EffectsApart]_vars
  PROVE  AllValid'
<1>1. ASSUME [DirNext]_dirVars
      PROVE  AllValid'
  BY <1>1, ValidKept DEF TypeOK
<1>2. CASE (\E w \in Workers : DirectoryStep(w)) \/ Elsewhere
  BY <1>1, <1>2 DEF DirectoryStep, Elsewhere, DirNext
<1>3. ASSUME NEW w \in Workers, NEW r \in Requests, NEW i \in Job, Valid(i), Effects(i),
             ClashesWithNone(i), job' = job
      PROVE  AllValid'
  <2> SUFFICES ASSUME NEW v \in Workers
               PROVE  Valid(job[v])'
    BY DEF AllValid
  <2>1. PICK j \in Job : j = job[v]
    BY DEF TypeOK, DirTypeOK
  <2>2. Valid(j)'
    BY <1>3, <2>1, EffectValid DEF AllValid, ClashesWithNone, TypeOK
  <2> QED
    BY <1>3, <2>1, <2>2, ValidNext
<1>4. ASSUME NEW w \in Workers, NEW r \in Requests, EffectsApart,
             CompleteDeparture(w, r) \/ CompleteTransfer(w, r)
      PROVE  AllValid'
  <2>1. job' = job
    BY <1>4 DEF CompleteDeparture, CompleteTransfer
  <2>2. CASE CompleteDeparture(w, r)
    BY <1>3, <1>4, <2>1, <2>2, DepartureEffect DEF EffectsApart
  <2>3. CASE CompleteTransfer(w, r)
    BY <1>3, <1>4, <2>1, <2>3, TransferEffect DEF EffectsApart
  <2> QED
    BY <1>4, <2>2, <2>3
<1> QED
  BY <1>1, <1>2, <1>4, WorkflowTouches DEF Next, vars, dirVars

LEMMA SystemSoundKept ==
  ASSUME TypeOK, DirectorySound, AllValid, [Next]_vars
  PROVE  DirectorySound'
<1>1. ASSUME [DirNext]_dirVars
      PROVE  DirectorySound'
  BY <1>1, DirectoryStepSound DEF TypeOK
<1>2. CASE (\E w \in Workers : DirectoryStep(w)) \/ Elsewhere
  BY <1>1, <1>2 DEF DirectoryStep, Elsewhere, DirNext
<1>3. ASSUME NEW w \in Workers, NEW r \in Requests,
             CompleteDeparture(w, r) \/ CompleteTransfer(w, r)
      PROVE  DirectorySound'
  BY <1>3, DepartureEffect, TransferEffect, EffectSound DEF TypeOK
<1> QED
  BY <1>1, <1>2, <1>3, WorkflowTouches DEF Next, vars, dirVars

(* Handlers kept apart: the directory stays sound under the approval workflow   *)
(* too, which disables leavers and moves people on its own, whatever requests   *)
(* are made, decided and withdrawn meanwhile.                                   *)
THEOREM OrganisationSoundThroughout ==
  IsFiniteSet(Departments) => (SystemApart /\ DirectorySound => []DirectorySound)
<1> SUFFICES ASSUME IsFiniteSet(Departments)
             PROVE  SystemApart /\ DirectorySound => []DirectorySound
  OBVIOUS
<1>1. Init => AllValid /\ KeptApart
  BY IdleValid, IdleApart DEF Init, DirInit, AllValid
<1>2. TypeOK /\ DirectorySound /\ AllValid /\ KeptApart /\ [Next /\ KeptApart' /\ EffectsApart]_vars =>
        DirectorySound' /\ AllValid'
  BY SystemValidKept, SystemSoundKept
<1>3. KeptApart /\ [Next /\ KeptApart' /\ EffectsApart]_vars => KeptApart'
  BY DEF KeptApart, vars, dirVars, Clash, Unseats, Deposes, Overtakes, Uproots, Entangles, Moves
<1>4. SystemApart => Spec
  <2>1. [Next /\ KeptApart' /\ EffectsApart]_vars => [Next]_vars
    OBVIOUS
  <2> QED
    BY <2>1, PTL DEF SystemApart, Spec
<1> QED
  BY <1>1, <1>2, <1>3, <1>4, Typed, PTL DEF SystemApart

--------------------------------------------------------------------------------
(* What the checks of CreateApproval are worth when handlers overlap. *)

(* The handlers that are about to create a request of e. *)
Creating(e, kind) ==
  {w \in Workers : task[w].op = "create" /\ task[w].actor = e /\ task[w].form.kind = kind}

(* No handler starts a creation or ends one. *)
Quiet ==
  /\ \A w \in Workers : task'[w].op = "create" => task'[w] = task[w]
  /\ ~\E w \in Workers : CreateApproval(w)

(* A handler passes the checks of a creation. *)
Begins(w, f) ==
  /\ CreateApprovalCheck(w, f)
  /\ UNCHANGED apprTables
  /\ task[w].op # "create"
  /\ task'[w].op = "create" /\ task'[w].actor = task[w].actor /\ task'[w].form = f
  /\ \A v \in Workers : v # w => task'[v] = task[v]

LEMMA CreationCases ==
  ASSUME TypeOK, [Next]_vars
  PROVE  \/ Quiet
         \/ \E w \in Workers : CreateApproval(w)
         \/ \E w \in Workers, f \in Form : Begins(w, f)
<1>1. ASSUME NEW w \in Workers, ApprovalStep(w), task'[w].op # "create"
      PROVE  \A v \in Workers : task'[v].op = "create" => task'[v] = task[v]
  BY <1>1, NotesAfter
<1>2. ASSUME NEW w \in Workers, ApprovalStep(w), task'[w].op = "create"
      PROVE  Begins(w, task'[w].form) /\ task'[w].form \in Form
  <2>1. /\ CreateApprovalCheck(w, task'[w].form) /\ task'[w].actor = task[w].actor
        /\ \A v \in Workers : v # w => task'[v] = task[v]
    BY <1>2, NotesAfter
  <2>2. task'[w].form \in Form
    <3>1. TypeOK'
      BY TypeStep
    <3> QED
      BY <3>1 DEF TypeOK, ApprTypeOK, Task
  <2> QED
    BY <1>2, <2>1, <2>2 DEF Begins, CreateApprovalCheck, Continue
<1>3. ASSUME UNCHANGED task
      PROVE  \A v \in Workers : task'[v].op = "create" => task'[v] = task[v]
  BY <1>3
<1> QED
  BY <1>1, <1>2, <1>3 DEF Quiet, Next, DirectoryStep, Elsewhere, apprVars, vars

LEMMA CreatingAfter ==
  ASSUME TypeOK, NEW e \in Employees, NEW kind
  PROVE  /\ Quiet => Creating(e, kind)' \subseteq Creating(e, kind)
         /\ \A w \in Workers : CreateApproval(w) =>
              Creating(e, kind)' = Creating(e, kind) \ {w}
         /\ \A w \in Workers, f \in Form : Begins(w, f) =>
              /\ w \notin Creating(e, kind)
              /\ Creating(e, kind)' = IF task[w].actor = e /\ f.kind = kind
                                      THEN Creating(e, kind) \cup {w} ELSE Creating(e, kind)
<1>1. task \in [Workers -> Task]
  BY DEF TypeOK, ApprTypeOK
<1>2. ASSUME NEW w \in Workers, CreateApproval(w)
      PROVE  Creating(e, kind)' = Creating(e, kind) \ {w}
  BY <1>1, <1>2 DEF CreateApproval, Finish, NoTask, Creating
<1>3. ASSUME NEW w \in Workers, NEW f \in Form, Begins(w, f)
      PROVE  /\ w \notin Creating(e, kind)
             /\ Creating(e, kind)' = IF task[w].actor = e /\ f.kind = kind
                                     THEN Creating(e, kind) \cup {w} ELSE Creating(e, kind)
  BY <1>3 DEF Begins, Creating
<1>4. Quiet => Creating(e, kind)' \subseteq Creating(e, kind)
  BY DEF Quiet, Creating
<1> QED
  BY <1>2, <1>3, <1>4

(* An employee's open requests of a kind after a step. *)
LEMMA PendingAfter ==
  ASSUME TypeOK, [Next]_vars, NEW e \in Employees, NEW kind
  PROVE  /\ Quiet => Pending(e, kind)' \subseteq Pending(e, kind)
         /\ \A w \in Workers : CreateApproval(w) =>
              \/ Pending(e, kind)' = Pending(e, kind)
              \/ /\ w \in Creating(e, kind)
                 /\ \E x \in Requests : Pending(e, kind)' = Pending(e, kind) \cup {x}
         /\ \A w \in Workers, f \in Form : Begins(w, f) =>
              /\ Pending(e, kind)' = Pending(e, kind)
              /\ task[w].actor = e /\ f.kind = kind => Pending(e, kind) = {}
<1>1. req \in [Requests -> Request]
  BY DEF TypeOK, ApprTypeOK
<1>2. ASSUME NEW w \in Workers, CreateApproval(w)
      PROVE  \/ Pending(e, kind)' = Pending(e, kind)
             \/ /\ w \in Creating(e, kind)
                /\ \E x \in Requests : Pending(e, kind)' = Pending(e, kind) \cup {x}
  <2>1. PICK x \in Requests :
          /\ req[x].status = "none"
          /\ req' = [req EXCEPT ![x] = [status |-> "pending", applicant |-> task[w].actor,
                                        current |-> 1, form |-> task[w].form]]
    BY <1>2 DEF CreateApproval
  <2>2. task[w].op = "create"
    BY <1>2 DEF CreateApproval
  <2>3. /\ req'[x].status = "pending" /\ req'[x].applicant = task[w].actor
        /\ req'[x].form = task[w].form
        /\ \A r \in Requests : r # x => req'[r] = req[r]
    BY <1>1, <2>1
  <2>4. Pending(e, kind)' = IF task[w].actor = e /\ task[w].form.kind = kind
                            THEN Pending(e, kind) \cup {x} ELSE Pending(e, kind)
    BY <2>1, <2>3 DEF Pending
  <2> QED
    BY <2>2, <2>4 DEF Creating
<1>3. ASSUME NEW w \in Workers, NEW f \in Form, Begins(w, f)
      PROVE  /\ Pending(e, kind)' = Pending(e, kind)
             /\ task[w].actor = e /\ f.kind = kind => Pending(e, kind) = {}
  BY <1>3 DEF Begins, apprTables, CreateApprovalCheck, NoOpenRequest, Pending
<1>4. ASSUME Quiet
      PROVE  Pending(e, kind)' \subseteq Pending(e, kind)
  <2>1. ASSUME NEW r \in Requests, req'[r].status = "pending"
        PROVE  /\ req[r].status = "pending" /\ req'[r].applicant = req[r].applicant
               /\ req'[r].form = req[r].form
    <3>1. CASE UNCHANGED apprTables
      BY <2>1, <3>1 DEF apprTables
    <3>2. ASSUME NEW w \in Workers, NEW x \in Requests,
                 \/ Reject(w, x) \/ Advance(w, x) \/ CancelApproval(w, x)
                 \/ CompleteLeave(w, x) \/ CompleteDeparture(w, x) \/ CompleteTransfer(w, x)
          PROVE  /\ req[r].status = "pending" /\ req'[r].applicant = req[r].applicant
                 /\ req'[r].form = req[r].form
      <4>1. /\ req[x].status = "pending"
            /\ \/ req' = [req EXCEPT ![x].status = "rejected"]
               \/ req' = [req EXCEPT ![x].current = @ + 1]
               \/ req' = [req EXCEPT ![x].status = "cancelled"]
               \/ req' = [req EXCEPT ![x].status = "approved"]
        BY <3>2, Completion DEF Reject, Advance, CancelApproval, Complete, MayReview,
           Decidable, MayCancel
      <4>2. req[x] \in Request /\ req[r] \in Request
        BY <1>1
      <4>3. CASE r = x
        BY <1>1, <4>1, <4>2, <4>3 DEF Request
      <4>4. CASE r # x
        BY <1>1, <2>1, <4>1, <4>4
      <4> QED
        BY <4>3, <4>4
    <3> QED
      BY <1>4, <3>1, <3>2, StepCases DEF Quiet
  <2> QED
    BY <2>1 DEF Pending
<1> QED
  BY <1>2, <1>3, <1>4

(* With n handlers, n open requests of a kind at most: each of them has found   *)
(* none when it checked.                                                        *)
OpenWithinHandlers ==
  \A e \in Employees, kind \in ApprovalKinds :
    /\ IsFiniteSet(Pending(e, kind))
    /\ Cardinality(Pending(e, kind)) + Cardinality(Creating(e, kind)) <= Cardinality(Workers)

LEMMA OpenWithinKept ==
  IsFiniteSet(Workers) /\ TypeOK /\ OpenWithinHandlers /\ [Next]_vars => OpenWithinHandlers'
<1> SUFFICES ASSUME IsFiniteSet(Workers), TypeOK, OpenWithinHandlers, [Next]_vars,
                    NEW e \in Employees, NEW kind \in ApprovalKinds
             PROVE  /\ IsFiniteSet(Pending(e, kind)')
                    /\ Cardinality(Pending(e, kind)') + Cardinality(Creating(e, kind)')
                         <= Cardinality(Workers)
  BY DEF OpenWithinHandlers
<1> DEFINE P == Pending(e, kind)
           C == Creating(e, kind)
<1>1. /\ IsFiniteSet(P) /\ IsFiniteSet(C) /\ Cardinality(C) \in Nat
      /\ Cardinality(P) \in Nat /\ Cardinality(Workers) \in Nat
      /\ Cardinality(P) + Cardinality(C) <= Cardinality(Workers)
  <2>1. C \in SUBSET Workers
    BY DEF Creating
  <2>2. IsFiniteSet(P) /\ IsFiniteSet(C)
    BY <2>1, FS_Subset DEF OpenWithinHandlers
  <2> QED
    BY <2>2, FS_CardinalityType DEF OpenWithinHandlers
<1>2. CASE Quiet
  <2>1. P' \in SUBSET P /\ C' \in SUBSET C
    BY <1>2, CreatingAfter, PendingAfter
  <2>2. /\ IsFiniteSet(P') /\ IsFiniteSet(C')
        /\ Cardinality(P') <= Cardinality(P) /\ Cardinality(C') <= Cardinality(C)
    BY <1>1, <2>1, FS_Subset
  <2>3. Cardinality(P') \in Nat /\ Cardinality(C') \in Nat
    BY <2>2, FS_CardinalityType
  <2> QED
    BY <1>1, <2>2, <2>3
<1>3. ASSUME NEW w \in Workers, CreateApproval(w)
      PROVE  IsFiniteSet(P') /\ Cardinality(P') + Cardinality(C') <= Cardinality(Workers)
  <2>1. C' = C \ {w}
    BY <1>3, CreatingAfter
  <2>2. Cardinality(C') = IF w \in C THEN Cardinality(C) - 1 ELSE Cardinality(C)
    BY <1>1, <2>1, FS_RemoveElement
  <2>3. CASE P' = P
    BY <1>1, <2>2, <2>3
  <2>4. ASSUME w \in C, NEW x \in Requests, P' = P \cup {x}
        PROVE  IsFiniteSet(P') /\ Cardinality(P') + Cardinality(C') <= Cardinality(Workers)
    <3>1. /\ IsFiniteSet(P')
          /\ Cardinality(P') = Cardinality(P) \/ Cardinality(P') = Cardinality(P) + 1
      BY <1>1, <2>4, FS_AddElement
    <3> QED
      BY <1>1, <2>2, <2>4, <3>1
  <2> QED
    BY <1>3, <2>3, <2>4, PendingAfter
<1>4. ASSUME NEW w \in Workers, NEW f \in Form, Begins(w, f)
      PROVE  IsFiniteSet(P') /\ Cardinality(P') + Cardinality(C') <= Cardinality(Workers)
  <2>1. P' = P
    BY <1>4, PendingAfter
  <2>2. CASE task[w].actor = e /\ f.kind = kind
    <3>1. P = {} /\ Cardinality(P) = 0
      BY <1>4, <2>2, PendingAfter, FS_EmptySet
    <3>2. C' \in SUBSET Workers
      BY DEF Creating
    <3>3. IsFiniteSet(C') /\ Cardinality(C') <= Cardinality(Workers)
      BY <3>2, FS_Subset
    <3>4. Cardinality(C') \in Nat
      BY <3>3, FS_CardinalityType
    <3> QED
      BY <1>1, <2>1, <3>1, <3>3, <3>4
  <2>3. CASE ~(task[w].actor = e /\ f.kind = kind)
    <3>1. C' = C
      BY <1>4, <2>3, CreatingAfter
    <3> QED
      BY <1>1, <2>1, <3>1
  <2> QED
    BY <2>2, <2>3
<1> QED
  BY <1>2, <1>3, <1>4, CreationCases

(* However requests overlap, nobody has more open requests of one kind than     *)
(* there are handlers.                                                          *)
THEOREM OpenRequestsBounded == IsFiniteSet(Workers) => (Spec => []OpenWithinHandlers)
<1> SUFFICES ASSUME IsFiniteSet(Workers)
             PROVE  Spec => []OpenWithinHandlers
  OBVIOUS
<1>1. Init => OpenWithinHandlers
  <2> SUFFICES ASSUME Init, NEW e \in Employees, NEW kind \in ApprovalKinds
               PROVE  /\ IsFiniteSet(Pending(e, kind))
                      /\ Cardinality(Pending(e, kind)) + Cardinality(Creating(e, kind))
                           <= Cardinality(Workers)
    BY DEF OpenWithinHandlers
  <2>1. Pending(e, kind) = {} /\ Creating(e, kind) = {}
    BY DEF Init, Pending, Creating, NoRequest, NoTask
  <2>2. Cardinality(Workers) \in Nat
    BY FS_CardinalityType
  <2> QED
    BY <2>1, <2>2, FS_EmptySet
<1> QED
  BY <1>1, OpenWithinKept, Typed, PTL DEF Spec

--------------------------------------------------------------------------------
(* AnnualWithinHandlers *)

(* The annual leave of an employee still to be decided, and all that counts.    *)
Asked(e) == AnnualRecords(e, "pending")
Spent(e) == used[e]["annual"] + DaysIn(req, Asked(e))

LEMMA AskedTyped ==
  ASSUME TypeOK, EffectOnce, FinitelyMade, NEW e \in Employees
  PROVE  /\ Asked(e) \in SUBSET Made
         /\ IsFiniteSet(Asked(e))
         /\ \A r \in Asked(e) : req[r].form.days \in Nat
         /\ DaysIn(req, Asked(e)) \in Nat
         /\ used[e]["annual"] \in Nat
<1>1. Asked(e) \in SUBSET Made /\ Asked(e) \subseteq Requests
  BY LeaveOfMade DEF Asked, AnnualRecords
<1>2. IsFiniteSet(Asked(e))
  BY <1>1, FS_Subset DEF FinitelyMade
<1>3. \A r \in Asked(e) : req[r].form.days \in Nat
  BY <1>1, DaysNat
<1>4. DaysIn(req, Asked(e)) \in Nat
  BY <1>2, <1>3, SumIsNat
<1> QED
  BY <1>1, <1>2, <1>3, <1>4 DEF TypeOK, ApprTypeOK

(* The new request of a creation, and what it does to the pending annual leave. *)
Asks(w, x, e) ==
  /\ CreateApproval(w)
  /\ x \notin Made
  /\ task[w].actor = e
  /\ task[w].form.kind = "leave" /\ task[w].form.type = "annual"
  /\ req'[x].form = task[w].form
  /\ Asked(e)' = Asked(e) \cup {x}
  /\ used'[e]["annual"] = used[e]["annual"]

(* A leave that is approved moves from the pending days to the used ones.       *)
Books(x, e) ==
  /\ x \in Asked(e)
  /\ Asked(e)' = Asked(e) \ {x}
  /\ used'[e]["annual"] = used[e]["annual"] + req[x].form.days

Keeps(e) ==
  /\ used'[e]["annual"] = used[e]["annual"]
  /\ Asked(e)' = Asked(e) \/ \E x \in Asked(e) : Asked(e)' = Asked(e) \ {x}

LEMMA AskedCases ==
  ASSUME TypeOK, EffectOnce, [Next]_vars, NEW e \in Employees
  PROVE  \/ Keeps(e)
         \/ \E w \in Workers, x \in Requests : Asks(w, x, e)
         \/ \E x \in Requests : Books(x, e)
<1>0. /\ leave \in [Requests -> {"none", "pending"} \cup Closed]
      /\ req \in [Requests -> Request]
      /\ \A r \in Requests : leave[r] # "none" =>
           req'[r].applicant = req[r].applicant /\ req'[r].form = req[r].form
  BY LeaveOfMade, FormStays DEF TypeOK, ApprTypeOK
<1>1. CASE UNCHANGED apprTables
  BY <1>1 DEF apprTables, Keeps, Asked, AnnualRecords
<1>2. ASSUME NEW w \in Workers, CreateApproval(w)
      PROVE  Keeps(e) \/ \E x \in Requests : Asks(w, x, e)
  <2>1. PICK x \in Requests :
          /\ req[x].status = "none"
          /\ req' = [req EXCEPT ![x] = [status |-> "pending", applicant |-> task[w].actor,
                                        current |-> 1, form |-> task[w].form]]
          /\ leave' = [leave EXCEPT ![x] = IF task[w].form.kind = "leave"
                                           THEN "pending" ELSE "none"]
    BY <1>2 DEF CreateApproval
  <2>2. used' = used /\ task[w].op = "create"
    BY <1>2 DEF CreateApproval
  <2>3. x \notin Made /\ leave[x] = "none"
    BY <2>1 DEF Made, EffectOnce
  <2>4. req'[x].form = task[w].form /\ req'[x].applicant = task[w].actor
    BY <1>0, <2>1
  <2>5. Asked(e)' = IF /\ task[w].actor = e
                       /\ task[w].form.kind = "leave" /\ task[w].form.type = "annual"
                    THEN Asked(e) \cup {x} ELSE Asked(e)
    BY <1>0, <2>1, <2>3, <2>4 DEF Asked, AnnualRecords
  <2> QED
    BY <1>2, <2>2, <2>3, <2>4, <2>5 DEF Keeps, Asks
<1>3. ASSUME NEW x \in Requests, NEW s \in Decided \cup {"cancelled"},
             leave' = [leave EXCEPT ![x] = s]
      PROVE  Asked(e)' = Asked(e) \ {x}
  BY <1>0, <1>3 DEF Asked, AnnualRecords, Decided
<1>4. ASSUME leave' = leave
      PROVE  Asked(e)' = Asked(e)
  BY <1>0, <1>4 DEF Asked, AnnualRecords
<1>5. ASSUME NEW w \in Workers, NEW x \in Requests,
             \/ Reject(w, x) \/ Advance(w, x) \/ CancelApproval(w, x)
             \/ CompleteDeparture(w, x) \/ CompleteTransfer(w, x)
      PROVE  Keeps(e)
  <2>1. used' = used
    BY <1>5 DEF Reject, Advance, CancelApproval, CompleteDeparture, CompleteTransfer
  <2>2. \/ leave' = leave
        \/ leave' = [leave EXCEPT ![x] = "rejected"]
        \/ leave' = [leave EXCEPT ![x] = "cancelled"]
    BY <1>5 DEF Reject, Advance, CancelApproval, CancelLeave, CompleteDeparture,
       CompleteTransfer
  <2>3. Asked(e)' = Asked(e) \/ Asked(e)' = Asked(e) \ {x}
    BY <1>3, <1>4, <2>2 DEF Decided
  <2> QED
    BY <2>1, <2>3 DEF Keeps
<1>6. ASSUME NEW w \in Workers, NEW x \in Requests, CompleteLeave(w, x)
      PROVE  Keeps(e) \/ Books(x, e)
  <2>1. /\ leave[x] = "pending" /\ leave' = [leave EXCEPT ![x] = "approved"]
        /\ used'[e]["annual"] = IF req[x].applicant = e /\ Column(req[x].form.type) = "annual"
                                THEN used[e]["annual"] + req[x].form.days ELSE used[e]["annual"]
    BY <1>6, Booked
  <2>2. Asked(e)' = Asked(e) \ {x}
    BY <1>3, <2>1 DEF Decided
  <2>3. x \in Asked(e) <=> req[x].applicant = e /\ Column(req[x].form.type) = "annual"
    BY <2>1 DEF Asked, AnnualRecords, Column
  <2> QED
    BY <2>1, <2>2, <2>3 DEF Keeps, Books
<1> QED
  BY <1>1, <1>2, <1>5, <1>6, StepCases

(* The annual leave that handlers are about to enter, and all that may count.   *)
InFlight(e) == {w \in Creating(e, "leave") : task[w].form.type = "annual"}
Load(e) == Spent(e) + DaysIn(task, InFlight(e))

LEMMA InFlightTyped ==
  ASSUME IsFiniteSet(Workers), TypeOK, NEW e \in Employees
  PROVE  /\ InFlight(e) \in SUBSET Workers
         /\ IsFiniteSet(InFlight(e))
         /\ \A w \in InFlight(e) : task[w].form.days \in Nat
         /\ DaysIn(task, InFlight(e)) \in Nat
<1>1. InFlight(e) \in SUBSET Workers
  BY DEF InFlight, Creating
<1>2. IsFiniteSet(InFlight(e))
  BY <1>1, FS_Subset
<1>3. \A w \in InFlight(e) : task[w].form.days \in Nat
  BY <1>1, FormDays DEF TypeOK, ApprTypeOK, Task
<1> QED
  BY <1>1, <1>2, <1>3, SumIsNat

(* Nothing but a creation adds to what is spent. *)
LEMMA SpentFalls ==
  ASSUME TypeOK, EffectOnce, FinitelyMade, [Next]_vars, NEW e \in Employees,
         Keeps(e) \/ \E x \in Requests : Books(x, e)
  PROVE  Spent(e)' \in Nat /\ Spent(e)' <= Spent(e)
<1>1. /\ Asked(e) \in SUBSET Made /\ IsFiniteSet(Asked(e))
      /\ \A r \in Asked(e) : req[r].form.days \in Nat
      /\ DaysIn(req, Asked(e)) \in Nat /\ used[e]["annual"] \in Nat
      /\ Spent(e) = used[e]["annual"] + DaysIn(req, Asked(e))
  BY AskedTyped DEF Spent
<1>2. Spent(e)' = used'[e]["annual"] + DaysIn(req', Asked(e)')
  BY DEF Spent
<1>3. ASSUME NEW x \in Asked(e)
      PROVE  /\ DaysIn(req', Asked(e) \ {x}) = DaysIn(req, Asked(e) \ {x})
             /\ DaysIn(req, Asked(e)) = req[x].form.days + DaysIn(req, Asked(e) \ {x})
             /\ DaysIn(req, Asked(e) \ {x}) \in Nat
             /\ req[x].form.days \in Nat
  <2>1. Asked(e) \ {x} \in SUBSET Made /\ IsFiniteSet(Asked(e) \ {x})
    BY <1>1, FS_RemoveElement
  <2> QED
    BY <1>1, <2>1, SameDays, SumAdds, SumIsNat DEF FinitelyMade
<1>4. DaysIn(req', Asked(e)) = DaysIn(req, Asked(e))
  BY <1>1, SameDays DEF FinitelyMade
<1>5. ASSUME NEW x \in Asked(e), Asked(e)' = Asked(e) \ {x},
             \/ used'[e]["annual"] = used[e]["annual"]
             \/ used'[e]["annual"] = used[e]["annual"] + req[x].form.days
      PROVE  Spent(e)' \in Nat /\ Spent(e)' <= Spent(e)
  <2> DEFINE rest == DaysIn(req, Asked(e) \ {x})
             n == req[x].form.days
  <2>1. Spent(e)' = used'[e]["annual"] + rest
    BY <1>2, <1>3, <1>5
  <2>2. Spent(e) = used[e]["annual"] + (n + rest) /\ rest \in Nat /\ n \in Nat
    BY <1>1, <1>3
  <2> HIDE DEF rest, n
  <2>3. used'[e]["annual"] = used[e]["annual"] \/ used'[e]["annual"] = used[e]["annual"] + n
    BY <1>5 DEF n
  <2> QED
    BY <1>1, <2>1, <2>2, <2>3
<1>6. CASE Keeps(e)
  <2>1. CASE Asked(e)' = Asked(e)
    BY <1>1, <1>2, <1>4, <1>6, <2>1 DEF Keeps
  <2> QED
    BY <1>5, <1>6, <2>1 DEF Keeps
<1>7. ASSUME NEW x \in Requests, Books(x, e)
      PROVE  Spent(e)' \in Nat /\ Spent(e)' <= Spent(e)
  BY <1>5, <1>7 DEF Books
<1> QED
  BY <1>6, <1>7

(* What a check has let through fits for itself, whatever else is under way.    *)
LEMMA BeginsFitting ==
  ASSUME TypeOK, EffectOnce, FinitelyMade, NEW w \in Workers, NEW f \in Form, Begins(w, f),
         f.kind = "leave", f.type = "annual"
  PROVE  /\ task[w].actor \in Employees
         /\ Spent(task[w].actor) + f.days <= AnnualEntitlement
<1> DEFINE e == task[w].actor
<1>1. /\ e \in Employees
      /\ FormAllowed(task[w], f)
  BY DEF Begins, CreateApprovalCheck
<1>2. f.days \in LeaveDays /\ f.days <= AnnualRemaining(e)
  <2>1. \E type \in LeaveTypes, days \in LeaveDays :
          f = [NoForm EXCEPT !.kind = "leave", !.type = type, !.days = days]
    BY <1>1 DEF FormAllowed
  <2> QED
    BY <1>1, <2>1 DEF FormAllowed, NoForm
<1>3. f.days \in 1 .. 60
  BY <1>2, ApprovalsAssumption
<1>4. AnnualRemaining(e) = IF Spent(e) >= AnnualEntitlement THEN 0
                           ELSE AnnualEntitlement - Spent(e)
  BY DEF AnnualRemaining, Spent, Asked, Days, DaysIn
<1>5. Spent(e) \in Nat
  BY <1>1, AskedTyped DEF Spent
<1> HIDE DEF e
<1> QED
  BY <1>1, <1>2, <1>3, <1>4, <1>5 DEF AnnualEntitlement, e

(* Handlers that overlap can each spend the entitlement, and no more.           *)
AnnualWithinHandlers ==
  \A e \in Employees :
    /\ Load(e) <= AnnualEntitlement * Cardinality(Workers)
    /\ \A w \in InFlight(e) : task[w].form.days <= AnnualEntitlement

LEMMA AnnualWithinKept ==
  /\ IsFiniteSet(Workers) /\ TypeOK /\ TypeOK' /\ EffectOnce /\ FinitelyMade /\ FinitelyMade'
  /\ AnnualWithinHandlers /\ [Next]_vars
  => AnnualWithinHandlers'
<1> SUFFICES ASSUME IsFiniteSet(Workers), TypeOK, TypeOK', EffectOnce, FinitelyMade,
                    FinitelyMade', AnnualWithinHandlers, [Next]_vars, NEW e \in Employees
             PROVE  /\ Load(e)' <= AnnualEntitlement * Cardinality(Workers)
                    /\ \A w \in InFlight(e)' : task'[w].form.days <= AnnualEntitlement
  BY DEF AnnualWithinHandlers
<1> DEFINE F == InFlight(e)
           bound == AnnualEntitlement * Cardinality(Workers)
<1>1. /\ F \in SUBSET Workers /\ IsFiniteSet(F)
      /\ \A w \in F : task[w].form.days \in Nat /\ task[w].form.days <= AnnualEntitlement
      /\ DaysIn(task, F) \in Nat
      /\ Spent(e) + DaysIn(task, F) <= bound
  BY InFlightTyped DEF AnnualWithinHandlers, Load
<1>2. Spent(e) \in Nat /\ Cardinality(Workers) \in Nat /\ bound \in Nat
  BY AskedTyped, FS_CardinalityType DEF Spent, AnnualEntitlement
<1>3. Load(e)' = Spent(e)' + DaysIn(task', F')
  BY DEF Load
<1>4. ASSUME F' \in SUBSET F, \A w \in F' : task'[w] = task[w]
      PROVE  /\ \A w \in F' : task'[w].form.days <= AnnualEntitlement
             /\ DaysIn(task', F') = DaysIn(task, F')
             /\ DaysIn(task, F') \in Nat /\ DaysIn(task, F') <= DaysIn(task, F)
  <2>1. IsFiniteSet(F')
    BY <1>1, <1>4, FS_Subset
  <2>2. \A w \in F' : task'[w].form.days = task[w].form.days
    BY <1>4
  <2>3. DaysIn(task', F') = DaysIn(task, F')
    BY <2>1, <2>2, SumOfSame
  <2>4. DaysIn(task, F') \in Nat
    BY <1>1, <1>4, <2>1, SumIsNat
  <2>5. DaysIn(task, F') <= DaysIn(task, F)
    BY <1>1, <1>4, SumSubset
  <2> QED
    BY <1>1, <1>4, <2>2, <2>3, <2>4, <2>5
<1>5. ASSUME Quiet \/ \E w \in Workers : CreateApproval(w)
      PROVE  F' \in SUBSET F /\ \A w \in F' : task'[w] = task[w]
  <2>1. CASE Quiet
    BY <2>1 DEF Quiet, InFlight, Creating
  <2>2. ASSUME NEW w \in Workers, CreateApproval(w)
        PROVE  F' \in SUBSET F /\ \A v \in F' : task'[v] = task[v]
    <3>1. /\ task'[w].op = "none"
          /\ \A v \in Workers : v # w => task'[v] = task[v]
      BY <2>2 DEF CreateApproval, Finish, NoTask, TypeOK, ApprTypeOK
    <3> QED
      BY <3>1 DEF InFlight, Creating
  <2> QED
    BY <1>5, <2>1, <2>2
<1>6. CASE /\ Quiet \/ \E w \in Workers : CreateApproval(w)
           /\ Keeps(e) \/ \E x \in Requests : Books(x, e)
  <2>1. Spent(e)' \in Nat /\ Spent(e)' <= Spent(e)
    BY <1>6, SpentFalls
  <2>2. /\ \A w \in F' : task'[w].form.days <= AnnualEntitlement
        /\ DaysIn(task', F') \in Nat /\ DaysIn(task', F') <= DaysIn(task, F)
    BY <1>4, <1>5, <1>6
  <2>3. Load(e)' <= bound
    <3> HIDE DEF F, bound
    <3> QED
      BY <1>1, <1>2, <1>3, <2>1, <2>2
  <2> QED
    BY <2>2, <2>3
<1>7. ASSUME NEW w \in Workers, NEW x \in Requests, Asks(w, x, e)
      PROVE  /\ Load(e)' <= bound
             /\ \A v \in F' : task'[v].form.days <= AnnualEntitlement
  <2> DEFINE S == Asked(e) \cup {x}
             n == task[w].form.days
  <2>1. w \in F /\ F' = F \ {w}
    <3>1. /\ task[w].op = "create" /\ task'[w].op = "none"
          /\ \A v \in Workers : v # w => task'[v] = task[v]
      BY <1>7 DEF Asks, CreateApproval, Finish, NoTask, TypeOK, ApprTypeOK
    <3> QED
      BY <1>7, <3>1 DEF Asks, InFlight, Creating
  <2>2. F' \in SUBSET F /\ \A v \in F' : task'[v] = task[v]
    BY <1>5, <1>7 DEF Asks
  <2>3. /\ DaysIn(task, F) = n + DaysIn(task, F \ {w})
        /\ n \in Nat
    BY <1>1, <2>1, SumAdds
  <2>4. Asked(e) \in SUBSET Made /\ IsFiniteSet(Asked(e)) /\ Asked(e) \subseteq Requests
    BY AskedTyped DEF Made
  <2>5. x \in S /\ S \ {x} = Asked(e) /\ Asked(e)' = S /\ IsFiniteSet(S) /\ S \subseteq Requests
    BY <1>7, <2>4, FS_AddElement DEF Asks
  <2>6. \A r \in S : req'[r].form.days \in Nat
    BY <2>5, FormDays DEF TypeOK, ApprTypeOK, Request
  <2>7. DaysIn(req', S) = n + DaysIn(req', Asked(e))
    <3> HIDE DEF S
    <3>1. DaysIn(req', S) = req'[x].form.days + DaysIn(req', S \ {x})
      BY <2>5, <2>6, SumAdds
    <3> QED
      BY <1>7, <2>5, <3>1 DEF Asks
  <2>8. DaysIn(req', Asked(e)) = DaysIn(req, Asked(e))
    BY <2>4, SameDays DEF FinitelyMade
  <2>9. Spent(e)' = used[e]["annual"] + (n + DaysIn(req, Asked(e)))
    BY <1>7, <2>5, <2>7, <2>8 DEF Asks, Spent
  <2>10. /\ Spent(e) = used[e]["annual"] + DaysIn(req, Asked(e))
         /\ used[e]["annual"] \in Nat /\ DaysIn(req, Asked(e)) \in Nat
    BY AskedTyped DEF Spent
  <2>11. Load(e)' = Spent(e)' + DaysIn(task, F \ {w}) /\ DaysIn(task, F \ {w}) \in Nat
    BY <1>3, <1>4, <2>1, <2>2
  <2>12. \A v \in F' : task'[v].form.days <= AnnualEntitlement
    BY <1>4, <2>2
  <2> HIDE DEF F, bound, n, S
  <2>13. Load(e)' <= bound
    BY <1>1, <1>2, <2>3, <2>9, <2>10, <2>11
  <2> QED
    BY <2>12, <2>13
<1>8. ASSUME NEW w \in Workers, NEW f \in Form, Begins(w, f)
      PROVE  /\ Load(e)' <= bound
             /\ \A v \in F' : task'[v].form.days <= AnnualEntitlement
  <2>1. Spent(e)' = Spent(e)
    BY <1>8 DEF Begins, apprTables, Spent, Asked, AnnualRecords
  <2>2. CASE task[w].actor = e /\ f.kind = "leave" /\ f.type = "annual"
    <3>1. w \notin F /\ F' = F \cup {w} /\ task'[w].form = f
      BY <1>8, <2>2 DEF Begins, InFlight, Creating
    <3>2. \A v \in F : task'[v] = task[v]
      BY <1>1, <1>8, <3>1 DEF Begins
    <3>3. Spent(e) + f.days <= AnnualEntitlement /\ f.days \in Nat
      BY <1>8, <2>2, BeginsFitting, FormDays
    <3>4. IsFiniteSet(F') /\ \A v \in F' : task'[v].form.days \in Nat
      BY <1>1, <3>1, <3>2, <3>3, FS_AddElement
    <3>5. DaysIn(task', F) = DaysIn(task, F)
      BY <1>1, <3>2, SumOfSame
    <3>6. w \in F' /\ F' \ {w} = F
      BY <3>1
    <3>7. DaysIn(task', F') = f.days + DaysIn(task, F)
      <4> HIDE DEF F
      <4>1. DaysIn(task', F') = task'[w].form.days + DaysIn(task', F' \ {w})
        BY <3>4, <3>6, SumAdds
      <4> QED
        BY <3>1, <3>5, <3>6, <4>1
    <3>8. DaysIn(task, F) <= AnnualEntitlement * Cardinality(F)
      BY <1>1, SumBounded
    <3>9. /\ Cardinality(F') = Cardinality(F) + 1
          /\ Cardinality(F) \in Nat
          /\ Cardinality(F') <= Cardinality(Workers)
      <4>1. F' \in SUBSET Workers
        BY <1>1, <3>1
      <4> QED
        BY <1>1, <3>1, <4>1, FS_AddElement, FS_Subset, FS_CardinalityType
    <3>10. \A v \in F' : task'[v].form.days <= AnnualEntitlement
      BY <1>1, <1>2, <3>1, <3>2, <3>3 DEF AnnualEntitlement
    <3> HIDE DEF F
    <3>11. Load(e)' <= bound
      BY <1>1, <1>2, <1>3, <2>1, <3>3, <3>7, <3>8, <3>9 DEF AnnualEntitlement
    <3> QED
      BY <3>10, <3>11
  <2>3. CASE ~(task[w].actor = e /\ f.kind = "leave" /\ f.type = "annual")
    <3>1. F' = F /\ \A v \in F' : task'[v] = task[v]
      BY <1>1, <1>8, <2>3 DEF Begins, InFlight, Creating
    <3>2. F' \in SUBSET F
      BY <3>1
    <3> HIDE DEF F, bound
    <3> QED
      BY <1>1, <1>2, <1>3, <1>4, <2>1, <3>1, <3>2
  <2> QED
    BY <2>2, <2>3
<1> QED
  BY <1>6, <1>7, <1>8, AskedCases, CreationCases

(* However requests overlap, n handlers together grant n times the annual       *)
(* entitlement at most.                                                         *)
THEOREM OverbookingBounded == IsFiniteSet(Workers) => (Spec => []AnnualWithinHandlers)
<1> SUFFICES ASSUME IsFiniteSet(Workers)
             PROVE  Spec => []AnnualWithinHandlers
  OBVIOUS
<1>1. Init => AnnualWithinHandlers
  <2> SUFFICES ASSUME Init, NEW e \in Employees
               PROVE  /\ Load(e) <= AnnualEntitlement * Cardinality(Workers)
                      /\ InFlight(e) = {}
    BY DEF AnnualWithinHandlers
  <2>1. Asked(e) = {} /\ InFlight(e) = {} /\ used[e]["annual"] = 0
    BY DEF Init, Asked, AnnualRecords, InFlight, Creating, NoTask
  <2>2. DaysIn(req, {}) = 0 /\ DaysIn(task, {}) = 0
    BY FS_EmptySet, SumUnfolds
  <2>3. Cardinality(Workers) \in Nat
    BY FS_CardinalityType
  <2> QED
    BY <2>1, <2>2, <2>3 DEF Load, Spent, AnnualEntitlement
<1>2. /\ IInv /\ IInv' /\ FinitelyMade /\ FinitelyMade' /\ AnnualWithinHandlers /\ [Next]_vars
      => AnnualWithinHandlers'
  BY AnnualWithinKept DEF IInv
<1> QED
  BY <1>1, <1>2, IInvHolds, MadeHolds, PTL DEF Spec

--------------------------------------------------------------------------------
(* Who is named for the steps of a request. *)

Named ==
  /\ \A w \in Workers : task[w].op = "create" => task[w].approver # task[w].actor
  /\ \A r \in Requests : req[r].status # "none" =>
       /\ req[r].applicant \in Employees
       /\ \A n \in 1 .. 2 : step[r][n].approver # req[r].applicant
       /\ ~step[r][1].byPermission
       /\ Total(req[r].form.kind) = 2 => step[r][2].byPermission /\ step[r][2].approver = None

(* The approver that CreateApproval looks up is somebody else. *)
LEMMA ApproverIsAnother ==
  ASSUME TypeOK, Named, [Next]_vars, NEW w \in Workers, task'[w].op = "create"
  PROVE  task'[w].approver # task'[w].actor
<1>1. CASE task'[w] = task[w]
  BY <1>1 DEF Named
<1>2. CASE ApprovalStep(w)
  <2>1. /\ task'[w].actor = task[w].actor /\ task[w].actor \in Employees
        /\ task'[w].approver = ApproverOf(task[w].actor, task[w].dept)
    BY <1>2, NotesAfter DEF CreateApprovalCheck
  <2> QED
    BY <2>1, ApprovalsAssumption DEF ApproverOf
<1>3. ASSUME NEW v \in Workers, ApprovalStep(v), v # w
      PROVE  task'[w] = task[w]
  BY <1>3, NotesAfter
<1> QED
  BY <1>1, <1>2, <1>3 DEF Next, DirectoryStep, Elsewhere, apprVars, vars

LEMMA NamedKept ==
  ASSUME TypeOK, Named, [Next]_vars
  PROVE  Named'
<1> SUFFICES ASSUME NEW r \in Requests, req'[r].status # "none"
             PROVE  /\ req'[r].applicant \in Employees
                    /\ \A n \in 1 .. 2 : step'[r][n].approver # req'[r].applicant
                    /\ ~step'[r][1].byPermission
                    /\ Total(req'[r].form.kind) = 2 =>
                         step'[r][2].byPermission /\ step'[r][2].approver = None
  BY ApproverIsAnother DEF Named
<1>0. req[r] \in Request /\ step[r] \in [1 .. 2 -> StepRow]
  BY DEF TypeOK, ApprTypeOK
<1>1. ASSUME NEW w \in Workers, Created(w, r)
      PROVE  /\ req'[r].applicant \in Employees
             /\ \A n \in 1 .. 2 : step'[r][n].approver # req'[r].applicant
             /\ ~step'[r][1].byPermission
             /\ Total(req'[r].form.kind) = 2 =>
                         step'[r][2].byPermission /\ step'[r][2].approver = None
  <2>1. /\ req'[r].applicant = task[w].actor /\ task[w].actor \in Employees
        /\ req'[r].form = task[w].form /\ task[w].approver # task[w].actor
    BY <1>1 DEF Created, Named, TypeOK, ApprTypeOK, TaskSound
  <2>2. /\ step'[r][1].approver = task[w].approver /\ step'[r][2].approver = None
        /\ ~step'[r][1].byPermission
        /\ Total(task[w].form.kind) = 2 => step'[r][2].byPermission
    <3>1. /\ step'[r][1] = ManagerStep(task[w].approver)
          /\ step'[r][2] = IF 2 <= Total(task[w].form.kind) THEN HRStep ELSE NoStep
      BY <1>1 DEF Created
    <3> QED
      BY <3>1 DEF ManagerStep, HRStep, NoStep
  <2> QED
    BY <2>1, <2>2, DirectoryAssumption
<1>2. ASSUME ~\E w \in Workers : Created(w, r)
      PROVE  /\ req[r].status # "none" /\ req'[r].applicant = req[r].applicant
             /\ req'[r].form = req[r].form
             /\ \A n \in 1 .. 2 : /\ step'[r][n].approver = step[r][n].approver
                                  /\ step'[r][n].byPermission = step[r][n].byPermission
  <2>1. CASE SameRows(r)
    BY <2>1 DEF SameRows
  <2>2. ASSUME NEW w \in Workers, NEW status \in Decided, NEW n \in 1 .. 2
        PROVE  /\ StepsAfter(r, task[w].actor, status)[n].approver = step[r][n].approver
               /\ StepsAfter(r, task[w].actor, status)[n].byPermission = step[r][n].byPermission
    BY <1>0 DEF StepsAfter, Sign, StepRow
  <2>3. ASSUME NEW w \in Workers, Refused(w, r) \/ Advanced(w, r) \/ Approved(w, r)
        PROVE  /\ req[r].status # "none" /\ req'[r].applicant = req[r].applicant
               /\ req'[r].form = req[r].form
               /\ \E status \in Decided : step'[r] = StepsAfter(r, task[w].actor, status)
    BY <1>0, <2>3 DEF Refused, Advanced, Approved, MayReview, Decidable, Request, Decided
  <2>4. ASSUME NEW w \in Workers, Cancelled(w, r)
        PROVE  /\ req[r].status # "none" /\ req'[r].applicant = req[r].applicant
               /\ req'[r].form = req[r].form
               /\ \A n \in 1 .. 2 : /\ step'[r][n].approver = step[r][n].approver
                                    /\ step'[r][n].byPermission = step[r][n].byPermission
    BY <1>0, <2>4 DEF Cancelled, MayCancel, Request, StepRow
  <2> QED
    BY <1>2, <2>1, <2>2, <2>3, <2>4, RowCases
<1> QED
  BY <1>1, <1>2 DEF Named

LEMMA NamedHolds == Spec => []Named
<1>1. Init => Named
  BY DEF Init, Named, NoTask, NoRequest
<1>2. TypeOK /\ Named /\ [Next]_vars => Named'
  BY NamedKept
<1> QED
  BY <1>1, <1>2, Typed, PTL DEF Spec

--------------------------------------------------------------------------------
(* StageRespected *)

(* A review of a departure that writes steps writes those of its departure.     *)
LEMMA DepartureReviewsItsOwn ==
  ASSUME TypeOK, [Next]_vars, NEW w \in Workers, task[w].op = "departure",
         task'[w] # task[w], NEW r \in Requests, r = task[w].req, step'[r] # step[r]
  PROVE  MayReview(w, r)
<1>1. ApprovalStep(w)
  <2>1. ASSUME NEW v \in Workers, ApprovalStep(v), v # w
        PROVE  FALSE
    BY <2>1, NotesAfter
  <2> QED
    BY <2>1 DEF Next, DirectoryStep, Elsewhere, apprVars, vars
<1>2. ~UNCHANGED apprTables
  BY DEF apprTables
<1>3. ~Reading(w) /\ ~CreateApproval(w) /\ \A x \in Requests : ~CancelApproval(w, x)
  BY <1>2, ReadingChangesNothing DEF CreateApproval, CancelApproval
<1>4. PICK x \in Requests : Reject(w, x) \/ Advance(w, x) \/ Complete(w, x)
  BY <1>1, <1>3, Completion DEF ApprovalStep, Reading
<1>5. MayReview(w, x)
  BY <1>4 DEF Reject, Advance, Complete
<1> QED
  BY <1>5 DEF MayReview

LEMMA StageStep ==
  ASSUME TypeOK, StepDiscipline, InTransit, Named, [Next]_vars, NEW w \in Workers,
         task[w].op = "departure", task'[w] = NoTask, step'[task[w].req] # step[task[w].req]
  PROVE  LET r == task[w].req
             stage == task[w].stage
         IN
         \/ stage = req[r].current
         \/ /\ stage < req[r].current
            /\ step[r][stage].status = "approved"
            /\ task[w].permitted
<1>1. PICK r \in Requests : r = task[w].req
  BY DEF InTransit
<1>2. Decidable(task[w].actor, r, task[w].permitted)
  BY <1>1, DepartureReviewsItsOwn DEF NoTask, MayReview
<1>3. /\ task[w].stage \in 1 .. req[r].current /\ req[r].form.kind = "departure"
      /\ req[r].status = "pending" /\ req[r].current \in 1 .. 2
      /\ task[w].stage \in Nat /\ StepsAgree(req[r], step[r])
  <2>1. task[w].stage \in 1 .. req[r].current /\ req[r].form.kind = "departure"
    BY <1>1 DEF InTransit
  <2>2. req[r].status = "pending" /\ StepsAgree(req[r], step[r])
    BY <1>2 DEF Decidable, StepDiscipline
  <2>3. req[r].current \in 1 .. 2
    BY <2>1, <2>2 DEF StepsAgree, Total
  <2> QED
    BY <2>1, <2>2, <2>3
<1>4. CASE task[w].stage < req[r].current
  <2>1. task[w].stage = 1 /\ req[r].current = 2
    BY <1>3, <1>4
  <2>2. step[r][1].status = "approved"
    BY <1>3, <2>1 DEF StepsAgree, Total
  <2>3. step[r][2].approver = None
    BY <1>3 DEF Named, Total
  <2>4. task[w].actor \in Persons
    BY DEF TypeOK, ApprTypeOK, TaskSound
  <2>5. task[w].permitted
    BY <1>2, <2>1, <2>3, <2>4, DirectoryAssumption, ApprovalsAssumption DEF Decidable, Persons
  <2> QED
    BY <1>1, <1>4, <2>1, <2>2, <2>5
<1> QED
  BY <1>1, <1>3, <1>4

(* A review of a departure decides the stage it was sent for or, if that one is *)
(* approved before it gets there, the next one, and then only with the          *)
(* permission HR signs with.                                                    *)
THEOREM StagesRespected == Spec => StageRespected
<1>1. TypeOK /\ StepDiscipline /\ InTransit /\ Named /\ [Next]_vars =>
        [\A w \in Workers :
           LET r == task[w].req
               stage == task[w].stage
           IN
           task[w].op = "departure" /\ task'[w] = NoTask /\ step'[r] # step[r] =>
             \/ stage = req[r].current
             \/ /\ stage < req[r].current
                /\ step[r][stage].status = "approved"
                /\ task[w].permitted]_vars
  BY StageStep
<1> QED
  BY <1>1, Typed, Disciplined, InTransitHolds, NamedHolds, PTL DEF Spec, StageRespected

--------------------------------------------------------------------------------
(* Views and notifications, for any number of handlers in flight.               *)

(* Marking a notification is, to the tables of Approvals, a request abandoned.  *)
LEMMA ViewStep == [ViewNext]_viewVars => [Next]_vars
<1>1. ASSUME NEW w \in Workers,
             MarkAllNotificationsRead(w) \/ \E r \in Requests : MarkNotificationRead(w, r)
      PROVE  Next
  <2>1. task[w].op = "session" /\ Continue(w, NoTask)
    BY <1>1 DEF MarkAllNotificationsRead, MarkNotificationRead
  <2>2. Abandon(w)
    BY <2>1 DEF Abandon, NoTask
  <2> QED
    BY <1>1, <2>2 DEF Next, ApprovalStep
<1> QED
  BY <1>1 DEF ViewNext, viewVars

(* The views are added to the workflow without changing it: every theorem about *)
(* Spec is one about ViewSpec.                                                  *)
THEOREM ViewsOnlyLook == ViewSpec => Spec
  BY ViewStep, PTL DEF ViewSpec, ViewInit, Spec

--------------------------------------------------------------------------------
(* Facts about one request that the views are made of. *)

(* A step is pending only if it is the current one of an open request.          *)
LEMMA OpenStep ==
  ASSUME TypeOK, StepDiscipline, NEW r \in Requests, NEW n \in 1 .. 2
  PROVE  /\ step[r][n].status = "pending" <=> req[r].status = "pending" /\ n = req[r].current
         /\ req[r].status # "none" => req[r].current \in 1 .. 2
<1>1. /\ StepsAgree(req[r], step[r])
      /\ req[r].status \in {"none", "pending", "approved", "rejected", "cancelled"}
  BY DEF StepDiscipline, TypeOK, ApprTypeOK, Request, Closed, Decided
<1> QED
  BY <1>1, TotalRange DEF StepsAgree

LEMMA PersonsAreSome == None \notin Persons
  BY DirectoryAssumption, ApprovalsAssumption DEF Persons

(* The buttons are shown when the transaction would accept the review.          *)
LEMMA ReviewButton ==
  ASSUME TypeOK, StepDiscipline, NEW r \in Shown, NEW a, NEW permitted \in BOOLEAN
  PROVE  CanReview(a, r, permitted) <=> Decidable(a, r, permitted)
<1>1. req[r].current \in 1 .. 2
  BY OpenStep DEF Shown
<1>2. \A n \in 1 .. 2 : step[r][n].status = "pending" <=>
                          req[r].status = "pending" /\ n = req[r].current
  BY OpenStep DEF Shown
<1> QED
  BY <1>1, <1>2 DEF Decidable, CanReview

(* The pending list holds the requests with a review button: nobody is named    *)
(* for a step of his own request.                                               *)
LEMMA ListHasButtons ==
  ASSUME TypeOK, StepDiscipline, Named, NEW r \in Shown, NEW a \in Persons, NEW review \in BOOLEAN
  PROVE  r \in PendingFor(a, review) <=> CanReview(a, r, review)
<1>1. \A n \in 1 .. 2 : step[r][n].status = "pending" => n = req[r].current
  BY OpenStep DEF Shown
<1>2. \A n \in 1 .. 2 : step[r][n].approver # req[r].applicant
  BY DEF Named, Shown
<1> QED
  BY <1>1, <1>2 DEF PendingFor, CanReview

(* A task the badge counts is the open step of a request that could be decided  *)
(* with the permission the badge asks for.                                      *)
LEMMA BadgeTask ==
  ASSUME TypeOK, StepDiscipline, Named, NEW a \in Persons, NEW canHR \in BOOLEAN,
         NEW r \in Shown, NEW n \in 1 .. 2
  PROVE  <<r, n>> \in PendingTasks(a, canHR) <=> n = req[r].current /\ Decidable(a, r, canHR)
<1>1. \A m \in 1 .. 2 : step[r][m].approver # req[r].applicant
  BY DEF Named, Shown
<1>2. /\ step[r][n].status = "pending" <=> req[r].status = "pending" /\ n = req[r].current
      /\ req[r].current \in 1 .. 2
  BY OpenStep DEF Shown
<1>3. <<r, n>> \in PendingTasks(a, canHR) <=>
        /\ step[r][n].status = "pending" /\ req[r].status = "pending"
        /\ step[r][n].approver = a \/ (canHR /\ step[r][n].byPermission /\ req[r].applicant # a)
  BY DEF PendingTasks
<1> QED
  BY <1>1, <1>2, <1>3 DEF Decidable

(* The open steps that wait for a permission are HR's.                          *)
LEMMA HRStepIsSecond ==
  ASSUME TypeOK, StepDiscipline, Named, NEW r \in Shown, NEW a \in Persons
  PROVE  /\ Decidable(a, r, FALSE) => Decidable(a, r, TRUE)
         /\ OthersHRStep(a, r) => Decidable(a, r, TRUE)
         /\ Decidable(a, r, TRUE) => Decidable(a, r, FALSE) \/ OthersHRStep(a, r)
<1>1. /\ req[r].current \in 1 .. 2 /\ StepsAgree(req[r], step[r])
      /\ req[r].status = "pending" => step[r][req[r].current].status = "pending"
  BY OpenStep DEF Shown, StepDiscipline
<1>2. /\ ~step[r][1].byPermission
      /\ req[r].current = 2 => step[r][2].byPermission
  BY <1>1, TotalRange DEF Named, Shown, StepsAgree
<1> QED
  BY <1>1, <1>2 DEF Decidable, OthersHRStep

LEMMA Agreement ==
  ASSUME TypeOK, StepDiscipline, Named
  PROVE  ViewsAgree
<1>1. \A w \in Workers, r \in Shown :
        task[w].op = "session" => (MayCancel(w, r) <=> CanCancel(task[w].actor, r))
  BY DEF MayCancel, CanCancel
<1> SUFFICES ASSUME NEW a \in Persons, NEW review \in BOOLEAN, NEW departure \in BOOLEAN
             PROVE  LET canHR == departure \/ review
                        tasks == PendingTasks(a, canHR)
                        centre == {r \in Shown : Decidable(a, r, review)}
                        board == {r \in Departures : Decidable(a, r, canHR)}
                        beyond == {r \in Shown : departure /\ r \notin Departures /\ OthersHRStep(a, r)}
                    IN
                    /\ PendingFor(a, review) = centre
                    /\ {r \in Shown : CanReview(a, r, review)} = centre
                    /\ {r \in Board(a, canHR) : CanManagerReview(a, r, canHR) \/ CanHRReview(a, r, canHR)}
                         = board
                    /\ {t[1] : t \in tasks} = centre \cup board \cup beyond
                    /\ \A t, u \in tasks : t[1] = u[1] => t = u
  BY <1>1 DEF ViewsAgree
<1> DEFINE canHR == departure \/ review
           tasks == PendingTasks(a, canHR)
           centre == {r \in Shown : Decidable(a, r, review)}
           board == {r \in Departures : Decidable(a, r, canHR)}
           beyond == {r \in Shown : departure /\ r \notin Departures /\ OthersHRStep(a, r)}
<1>0. canHR \in BOOLEAN
  OBVIOUS
<1>2. {r \in Shown : CanReview(a, r, review)} = centre
  BY ReviewButton
<1>3. PendingFor(a, review) = centre
  <2>1. \A r \in Shown : r \in PendingFor(a, review) <=> Decidable(a, r, review)
    BY ReviewButton, ListHasButtons
  <2>2. PendingFor(a, review) \subseteq Shown
    BY DEF PendingFor
  <2> QED
    BY <2>1, <2>2
<1>4. {r \in Board(a, canHR) : CanManagerReview(a, r, canHR) \/ CanHRReview(a, r, canHR)} = board
  <2>1. ASSUME NEW r \in Departures
        PROVE  /\ Decidable(a, r, canHR) => r \in Board(a, canHR)
               /\ Decidable(a, r, canHR) <=>
                    CanManagerReview(a, r, canHR) \/ CanHRReview(a, r, canHR)
    <3>1. r \in Shown /\ req[r].current \in 1 .. 2
      BY OpenStep DEF Departures, Shown
    <3>2. CanReview(a, r, canHR) <=> Decidable(a, r, canHR)
      BY <1>0, <3>1, ReviewButton
    <3>3. Decidable(a, r, canHR) => r \in Board(a, canHR)
      BY <3>1 DEF Decidable, Board, Register, Approver, ByPermission
    <3>4. Decidable(a, r, canHR) <=> CanManagerReview(a, r, canHR) \/ CanHRReview(a, r, canHR)
      BY <3>1, <3>2 DEF CanManagerReview, CanHRReview
    <3> QED
      BY <3>3, <3>4
  <2>2. Board(a, canHR) \subseteq Departures
    BY DEF Board
  <2> HIDE DEF canHR
  <2> QED
    BY <2>1, <2>2
<1>5. \A r \in Shown, n \in 1 .. 2 :
        <<r, n>> \in tasks <=> n = req[r].current /\ Decidable(a, r, canHR)
  BY <1>0, BadgeTask
<1>6. \A t \in tasks : t \in Shown \X (1 .. 2)
  BY DEF PendingTasks
<1>7. \A r \in Shown : Decidable(a, r, canHR) <=> r \in centre \cup board \cup beyond
  <2> SUFFICES ASSUME NEW r \in Shown
               PROVE  Decidable(a, r, canHR) <=> r \in centre \cup board \cup beyond
    OBVIOUS
  <2>1. /\ Decidable(a, r, FALSE) => Decidable(a, r, TRUE)
        /\ OthersHRStep(a, r) => Decidable(a, r, TRUE)
        /\ Decidable(a, r, TRUE) => Decidable(a, r, FALSE) \/ OthersHRStep(a, r)
    BY HRStepIsSecond
  <2>2. r \in Departures <=> req[r].form.kind = "departure"
    BY DEF Departures
  <2>3. CASE review = TRUE
    BY <2>1, <2>2, <2>3
  <2>4. CASE review = FALSE /\ departure = TRUE
    BY <2>1, <2>2, <2>4
  <2>5. CASE review = FALSE /\ departure = FALSE
    BY <2>1, <2>2, <2>5
  <2> QED
    BY <2>3, <2>4, <2>5
<1>8. {t[1] : t \in tasks} = centre \cup board \cup beyond
  <2>1. centre \cup board \cup beyond \subseteq Shown
    BY DEF Departures
  <2>2. ASSUME NEW t \in tasks
        PROVE  t[1] \in centre \cup board \cup beyond
    <3>1. PICK r \in Shown, n \in 1 .. 2 : t = <<r, n>>
      BY <1>6
    <3>2. Decidable(a, r, canHR) /\ t[1] = r
      BY <1>5, <3>1
    <3> QED
      BY <1>7, <3>2
  <2>3. ASSUME NEW r \in centre \cup board \cup beyond
        PROVE  \E t \in tasks : t[1] = r
    <3>1. r \in Shown /\ Decidable(a, r, canHR) /\ req[r].current \in 1 .. 2
      BY <1>7, <2>1, <2>3, OpenStep DEF Shown
    <3>2. <<r, req[r].current>> \in tasks
      BY <1>5, <3>1
    <3> QED
      BY <3>2
  <2> HIDE DEF tasks, centre, board, beyond
  <2> QED
    BY <2>2, <2>3
<1>9. \A t, u \in tasks : t[1] = u[1] => t = u
  <2> SUFFICES ASSUME NEW t \in tasks, NEW u \in tasks, t[1] = u[1]
               PROVE  t = u
    OBVIOUS
  <2>1. PICK r \in Shown, n \in 1 .. 2 : t = <<r, n>>
    BY <1>6
  <2>2. PICK x \in Shown, m \in 1 .. 2 : u = <<x, m>>
    BY <1>6
  <2>3. r = x /\ n = req[r].current /\ m = req[r].current
    BY <1>5, <2>1, <2>2
  <2> QED
    BY <2>1, <2>2, <2>3
<1> QED
  BY <1>2, <1>3, <1>4, <1>8, <1>9

(* What any list holds, GetApproval opens. *)
LEMMA Openable == LeadsSomewhere
<1> SUFFICES ASSUME NEW a \in Persons, NEW r \in Shown, NEW view \in BOOLEAN, NEW review \in BOOLEAN,
                    ~MayOpen(a, r, view, review)
             PROVE  /\ r \notin Mine(a) \cup PendingFor(a, review) \cup Register(a, view, review)
                    /\ \A n \in 1 .. 2 : step[r][n].reviewer # a
  BY DEF LeadsSomewhere
<1>1. /\ ~view /\ req[r].applicant # a /\ ~(review /\ ByPermission(r))
      /\ \A n \in 1 .. 2 : step[r][n].approver # a /\ step[r][n].reviewer # a
  BY DEF MayOpen, Approver
<1>2. r \notin Mine(a) /\ r \notin Register(a, view, review)
  BY <1>1 DEF Mine, Register, Approver
<1>3. r \notin PendingFor(a, review)
  BY <1>1 DEF PendingFor, ByPermission
<1> QED
  BY <1>1, <1>2, <1>3

(* The board reads status and current step, and so tells who has signed.        *)
LEMMA BoardIsTrue ==
  ASSUME TypeOK, StepDiscipline
  PROVE  BoardTells
<1> SUFFICES ASSUME NEW r \in Shown, req[r].form.kind = "departure"
             PROVE  LET shown == DepartureStatus(r)
                        signed == {n \in 1 .. 2 : step[r][n].status = "approved"}
                    IN
                    /\ signed = CASE shown \in {"pending_manager", "cancelled"} -> {}
                                  [] shown = "pending_hr" -> {1}
                                  [] shown = "approved" -> {1, 2}
                                  [] shown = "rejected" -> 1 .. (req[r].current - 1)
                    /\ \A a \in Persons, canHR \in BOOLEAN :
                         /\ CanManagerReview(a, r, canHR) => shown = "pending_manager"
                         /\ CanHRReview(a, r, canHR) => shown = "pending_hr"
  BY DEF BoardTells
<1> DEFINE q == req[r]
           shown == DepartureStatus(r)
           signed == {n \in 1 .. 2 : step[r][n].status = "approved"}
<1>1. /\ q.status \in {"pending", "approved", "rejected", "cancelled"}
      /\ q.current \in {1, 2} /\ Total(q.form.kind) = 2 /\ StepsAgree(q, step[r])
  BY OpenStep DEF Shown, StepDiscipline, TypeOK, ApprTypeOK, Request, Closed, Decided, Total
<1>2. \A n \in 1 .. 2 : step[r][n].status = "approved" <=>
        \/ q.status \in {"pending", "approved", "rejected"} /\ n < q.current
        \/ q.status = "approved" /\ n = q.current
  BY <1>1 DEF StepsAgree
<1>3. shown = IF q.status # "pending" THEN q.status
              ELSE IF q.current = 2 THEN "pending_hr" ELSE "pending_manager"
  BY <1>1 DEF DepartureStatus, Closed, Decided
<1>4. \A a \in Persons, canHR \in BOOLEAN :
        /\ CanManagerReview(a, r, canHR) => shown = "pending_manager"
        /\ CanHRReview(a, r, canHR) => shown = "pending_hr"
  BY <1>3, OpenStep DEF CanManagerReview, CanHRReview, CanReview, Shown
<1>5. CASE q.status = "pending" /\ q.current = 1
  <2>1. shown = "pending_manager" /\ signed = {}
    BY <1>2, <1>3, <1>5
  <2> QED
    BY <1>4, <2>1
<1>6. CASE q.status = "cancelled"
  <2>1. shown = "cancelled" /\ signed = {}
    BY <1>2, <1>3, <1>6
  <2> QED
    BY <1>4, <2>1
<1>7. CASE q.status = "pending" /\ q.current = 2
  <2>1. shown = "pending_hr" /\ signed = {1}
    BY <1>2, <1>3, <1>7
  <2> QED
    BY <1>4, <2>1
<1>8. CASE q.status = "approved"
  <2>1. shown = "approved" /\ q.current = 2
    BY <1>1, <1>3, <1>8 DEF StepsAgree
  <2>2. signed = {1, 2}
    BY <1>2, <1>8, <2>1
  <2> QED
    BY <1>4, <2>1, <2>2
<1>9. CASE q.status = "rejected"
  <2>1. shown = "rejected" /\ signed = 1 .. (q.current - 1)
    BY <1>1, <1>2, <1>3, <1>9
  <2> QED
    BY <1>4, <2>1
<1> QED
  BY <1>1, <1>5, <1>6, <1>7, <1>8, <1>9

(* However the handlers interleave, the approval centre and the departure board *)
(* show everybody what ReviewApproval and ReviewDeparture would let her decide; *)
(* the badge counts that and, for who may review departures only, HR's steps of *)
(* transfers besides.                                                           *)
THEOREM ViewsAreSound == ViewSpec => []ViewsSound
<1>1. TypeOK /\ StepDiscipline /\ Named => ViewsSound
  BY Agreement, Openable, BoardIsTrue DEF ViewsSound
<1> QED
  BY <1>1, ViewsOnlyLook, Typed, Disciplined, NamedHolds, PTL

(* An open request of an enabled applicant can be ended: at its first step by   *)
(* the applicant, at its second by the administrator.                           *)
THEOREM AlwaysAnEnd == ViewSpec => []EndInReach
<1>1. ASSUME TypeOK, StepDiscipline, Named
      PROVE  EndInReach
  <2> SUFFICES ASSUME NEW r \in Shown, req[r].status = "pending", Enabled(emp, req[r].applicant)
               PROVE  \E a \in {Admin} \cup {e \in Employees : Enabled(emp, e)} :
                        CanCancel(a, r) \/ CanReview(a, r, Granted(a))
    BY DEF EndInReach
  <2>1. /\ req[r].current \in 1 .. 2 /\ req[r].applicant \in Employees
        /\ step[r][req[r].current].status = "pending"
    BY <1>1, OpenStep DEF Shown, Named
  <2>2. CASE req[r].current = 1
    BY <2>1, <2>2 DEF CanCancel
  <2>3. CASE req[r].current = 2
    <3>1. step[r][2].byPermission
      BY <1>1, <2>3, TotalRange DEF Named, Shown, StepDiscipline, StepsAgree
    <3>2. Granted(Admin) /\ req[r].applicant # Admin
      BY <2>1, ApprovalsAssumption DEF Granted, ReviewGrant, HasPermission
    <3>3. CanReview(Admin, r, Granted(Admin))
      BY <2>1, <2>3, <3>1, <3>2 DEF CanReview
    <3> QED
      BY <3>3
  <2> QED
    BY <2>1, <2>2, <2>3
<1> QED
  BY <1>1, ViewsOnlyLook, Typed, Disciplined, NamedHolds, PTL

--------------------------------------------------------------------------------
(* Notifications. *)

NoteTypeOK == note \in [Requests -> {"none", "unread", "read"}]

LEMMA NoteTyped == ViewSpec => []NoteTypeOK
<1>1. ViewInit => NoteTypeOK
  BY DEF ViewInit, NoteTypeOK
<1>2. NoteTypeOK /\ [ViewNext]_viewVars => NoteTypeOK'
  BY DEF NoteTypeOK, ViewNext, viewVars, CreateNotification, MarkAllNotificationsRead,
     MarkNotificationRead
<1> QED
  BY <1>1, <1>2, PTL DEF ViewSpec

LEMMA ResultStep ==
  ASSUME TypeOK, NoteTypeOK, ViewNext, NEW r \in Requests
  PROVE  /\ req[r].status = "pending" /\ req'[r].status \in Decided => note'[r] = "unread"
         /\ note[r] = "unread" /\ note'[r] # "unread" =>
              \E w \in Workers : task[w].actor = req[r].applicant /\ task'[w] # task[w]
<1>1. CASE Next /\ CreateNotification
  <2>1. note'[r] = IF notified'[r] > notified[r] THEN "unread" ELSE note[r]
    BY <1>1 DEF CreateNotification
  <2>2. ASSUME req[r].status = "pending", req'[r].status \in Decided
        PROVE  notified'[r] > notified[r]
    <3>1. req[r] \in Request /\ notified[r] \in Nat
      BY DEF TypeOK, ApprTypeOK
    <3>2. \E w \in Workers : Refused(w, r) \/ Approved(w, r)
      BY <1>1, <2>2, <3>1, RowCases DEF SameRows, Created, Advanced, Cancelled, Decided, Request
    <3> QED
      BY <3>1, <3>2 DEF Refused, Approved
  <2> QED
    BY <2>1, <2>2
<1>2. ASSUME NEW w \in Workers,
             MarkAllNotificationsRead(w) \/ \E x \in Requests : MarkNotificationRead(w, x)
      PROVE  /\ ~(req[r].status = "pending" /\ req'[r].status \in Decided)
             /\ note[r] = "unread" /\ note'[r] # "unread" =>
                  task[w].actor = req[r].applicant /\ task'[w] # task[w]
  <2>1. task[w].op = "session" /\ Continue(w, NoTask)
    BY <1>2 DEF MarkAllNotificationsRead, MarkNotificationRead
  <2>2. task'[w] # task[w] /\ UNCHANGED req
    BY <1>2, <2>1 DEF Continue, NoTask, apprTables, TypeOK, ApprTypeOK
  <2>3. CASE MarkAllNotificationsRead(w)
    BY <2>2, <2>3 DEF MarkAllNotificationsRead, Unread, Decided
  <2>4. ASSUME NEW x \in Requests, MarkNotificationRead(w, x)
        PROVE  note[r] = "unread" /\ note'[r] # "unread" => task[w].actor = req[r].applicant
    BY <2>4 DEF MarkNotificationRead, NoteTypeOK
  <2> QED
    BY <1>2, <2>2, <2>3, <2>4 DEF Decided
<1> QED
  BY <1>1, <1>2 DEF ViewNext

(* A result is told when it is decided and stays unread until the applicant     *)
(* marks it.                                                                    *)
THEOREM ResultsAreTold == ViewSpec => ResultsReachApplicant
<1>1. TypeOK /\ NoteTypeOK /\ [ViewNext]_viewVars =>
        [\A r \in Requests :
           /\ req[r].status = "pending" /\ req'[r].status \in Decided => note'[r] = "unread"
           /\ note[r] = "unread" /\ note'[r] # "unread" =>
                \E w \in Workers : /\ task[w].actor = req[r].applicant
                                   /\ task'[w] # task[w]]_viewVars
  BY ResultStep
<1> QED
  BY <1>1, ViewsOnlyLook, Typed, NoteTyped, PTL DEF ViewSpec, ResultsReachApplicant
================================================================================
