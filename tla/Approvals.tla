------------------------------- MODULE Approvals -------------------------------
(* The approval workflow of approval.go and hr.go on top of the directory:      *)
(* leave (one step, the manager), transfer and departure (manager, then HR).    *)
(* A request is handled in up to three steps of its worker: the session is      *)
(* looked up and the actor's row copied; the handler validates with reads of    *)
(* its own; one transaction writes.  task[w] is what was read and not yet used. *)
(* A definition called Mutant... is a slip the code does not make: no action    *)
(* uses it, it is there to try whether the properties would notice.             *)
EXTENDS Directory, ApprovalRows, FiniteSetsExt

CONSTANTS Admin,       \* the built-in administrator: never disabled, never deleted
          Reviewers,   \* employees whom the permission service grants approval:review
          DepartureReviewers,  \* employees whom it grants departure:review
          Requests,    \* approval ids (random tokens, never used twice)
          Kinds,       \* the approval types requested in this instance
          LeaveTypes,  \* the leave types asked for
          LeaveDays    \* the lengths asked for, in business days

ASSUME ApprovalsAssumption ==
  /\ Admin \notin Employees \cup {None}
  /\ Reviewers \subseteq Employees
  /\ DepartureReviewers \subseteq Employees
  /\ Kinds \subseteq ApprovalKinds
  /\ LeaveTypes \subseteq {"annual", "sick", "personal", "other"}
  /\ LeaveDays \subseteq 1 .. 60

VARIABLES req,       \* approval_requests: status, applicant, current step, form
          step,      \* approval_steps: step[r][n] is step n of request r
          leave,     \* leave_records.status of the request; "none" without a record
          used,      \* leave_balances: days used, one year
          events,    \* employment_events rows that name the request
          notified,  \* notifications rows that name the request
          task       \* what each worker's approval handler has read so far

apprTables == <<req, step, leave, used, events, notified>>
apprVars == <<req, step, leave, used, events, notified, task>>
vars == <<emp, dept, pos, offers, session, token, job, apprVars>>

Persons == Employees \cup {Admin}
AnnualEntitlement == 10

Form == [kind : ApprovalKinds \cup {None}, type : LeaveTypes \cup {None},
         days : LeaveDays \cup {0}, dept : Departments \cup {None}, pos : Positions \cup {None}]
NoForm == [kind |-> None, type |-> None, days |-> 0, dept |-> None, pos |-> None]

Request == [status : {"none", "pending"} \cup Closed, applicant : Employees \cup {None},
            current : 0 .. 2, form : Form]
NoRequest == [status |-> "none", applicant |-> None, current |-> 0, form |-> NoForm]

StepRow == [status : {"none", "waiting", "pending", "skipped"} \cup Decided,
            approver : Persons \cup {None}, byPermission : BOOLEAN,
            reviewer : Persons \cup {None}]
NoStep == [status |-> "none", approver |-> None, byPermission |-> FALSE, reviewer |-> None]

Task == [op : {"none", "session", "create", "departure"}, actor : Persons \cup {None},
         dept : Departments \cup {None}, pos : Positions \cup {None},
         approver : Persons \cup {None}, form : Form,
         req : Requests \cup {None}, stage : 0 .. 2, permitted : BOOLEAN]
NoTask == [op |-> "none", actor |-> None, dept |-> None, pos |-> None, approver |-> None,
           form |-> NoForm, req |-> None, stage |-> 0, permitted |-> FALSE]

(* Who may sign a step by permission: the routes of departures also take        *)
(* departure:review, the approval centre does not.                              *)
Signers(kind) == Reviewers \cup {Admin} \cup
                 (IF kind = "departure" THEN DepartureReviewers ELSE {})

(* Whose request a handler may be in the middle of. *)
TaskSound(t) ==
  /\ t.op # "none" => t.actor \in Persons
  /\ t.op = "create" => t.actor \in Employees
  /\ t.op = "departure" /\ t.permitted => t.actor \in Signers("departure")

ApprTypeOK ==
  /\ req \in [Requests -> Request]
  /\ step \in [Requests -> [1 .. 2 -> StepRow]]
  /\ leave \in [Requests -> {"none", "pending"} \cup Closed]
  /\ used \in [Employees -> [{"annual", "sick", "personal"} -> Nat]]
  /\ events \in [Requests -> Nat]
  /\ notified \in [Requests -> Nat]
  /\ task \in [Workers -> Task]
  /\ \A w \in Workers : TaskSound(task[w])

TypeOK == DirTypeOK /\ ApprTypeOK

--------------------------------------------------------------------------------
Pending(e, kind) ==
  {r \in Requests : req[r].status = "pending" /\ req[r].applicant = e /\ req[r].form.kind = kind}

AnnualRecords(e, status) ==
  {r \in Requests : leave[r] = status /\ req[r].applicant = e /\ req[r].form.type = "annual"}
Days(records) == MapThenSumSet(LAMBDA r : req[r].form.days, records)

MutantAnnualRemaining(e) == AnnualEntitlement

(* GetLeaveBalance, AnnualRemaining: what neither the used nor the pending days take. *)
AnnualRemaining(e) ==
  LET taken == used[e]["annual"] + Days(AnnualRecords(e, "pending"))
  IN  IF taken >= AnnualEntitlement THEN 0 ELSE AnnualEntitlement - taken

(* departureApprover: the enabled leader of the department, if somebody else,   *)
(* or the administrator.  The climb to the parent department finds nothing:     *)
(* First(&current) into the row just loaded makes gorm add that row's id to the *)
(* query (WHERE id = parent AND id = current), and the loop breaks.             *)
ApproverOf(e, d) ==
  LET leader == dept[d].leader IN
  IF leader # e /\ Enabled(emp, leader) THEN leader ELSE Admin

(* HasPermission: the administrator always; for others the permission service   *)
(* answers, or fails and grants nothing.                                        *)
HasPermission(a, holders) ==
  IF a = Admin THEN {TRUE} ELSE IF a \in holders THEN BOOLEAN ELSE {FALSE}

(* reviewApproval asks for approval:review, reviewDeparture for either.         *)
ReviewGrant(a) == HasPermission(a, Reviewers)
DepartureGrant(a) == HasPermission(a, Reviewers \cup DepartureReviewers)

Finish(w) == task' = [task EXCEPT ![w] = NoTask]
Continue(w, t) == /\ task' = [task EXCEPT ![w] = t]
                  /\ UNCHANGED <<dirVars, apprTables>>

(* AuthenticateSession: the actor's row is copied, and used as it was then. *)
Authenticate(w, a) ==
  /\ task[w] = NoTask
  /\ job[w] = NoJob
  /\ a = Admin \/ (a \in session /\ Enabled(emp, a))
  /\ Continue(w, [NoTask EXCEPT !.op = "session", !.actor = a,
                    !.dept = IF a = Admin THEN None ELSE emp[a].dept,
                    !.pos = IF a = Admin THEN None ELSE emp[a].pos])

--------------------------------------------------------------------------------
(* prepareApproval, one disjunct per approval type. *)
FormAllowed(t, form) ==
  \/ /\ form.kind = "departure"
     /\ form = [NoForm EXCEPT !.kind = "departure"]
  \/ /\ form.kind = "leave"
     /\ \E type \in LeaveTypes, days \in LeaveDays :
          form = [NoForm EXCEPT !.kind = "leave", !.type = type, !.days = days]
     /\ form.type = "annual" => form.days <= AnnualRemaining(t.actor)
  \/ /\ form.kind = "transfer"
     /\ \E d \in Departments, p \in Positions :
          form = [NoForm EXCEPT !.kind = "transfer", !.dept = d, !.pos = p]
     /\ PlacementAllowed(form.dept, form.pos)
     /\ <<form.dept, form.pos>> # <<t.dept, t.pos>>

MutantNoOpenRequest(e, kind) == TRUE
NoOpenRequest(e, kind) == Pending(e, kind) = {}

(* The reads of CreateApproval, up to the count of open requests of the type. *)
CreateApprovalCheck(w, form) ==
  LET t == task[w] IN
  /\ t.op = "session"
  /\ t.actor \in Employees
  /\ Enabled(dept, t.dept)
  /\ form.kind \in Kinds
  /\ FormAllowed(t, form)
  /\ NoOpenRequest(t.actor, form.kind)
  /\ Continue(w, [t EXCEPT !.op = "create", !.approver = ApproverOf(t.actor, t.dept),
                           !.form = form])

ManagerStep(approver) == [NoStep EXCEPT !.status = "pending", !.approver = approver]
MutantHRStep == [NoStep EXCEPT !.status = "waiting"]
HRStep == [NoStep EXCEPT !.status = "waiting", !.byPermission = TRUE]

(* The transaction of CreateApproval: request, steps and leave record. *)
CreateApproval(w) ==
  LET t == task[w] IN
  /\ t.op = "create"
  /\ \E r \in Requests :
       /\ req[r].status = "none"
       /\ req' = [req EXCEPT ![r] = [status |-> "pending", applicant |-> t.actor,
                                     current |-> 1, form |-> t.form]]
       /\ step' = [step EXCEPT ![r] =
            [n \in 1 .. 2 |-> IF n = 1 THEN ManagerStep(t.approver)
                              ELSE IF n <= Total(t.form.kind) THEN HRStep ELSE NoStep]]
       /\ leave' = [leave EXCEPT ![r] = IF t.form.kind = "leave" THEN "pending" ELSE "none"]
  /\ Finish(w)
  /\ UNCHANGED <<dirVars, used, events, notified>>

--------------------------------------------------------------------------------
(* Reviews.  A review of an approval goes from the session to the transaction;  *)
(* a review of a departure first looks at the stage, outside the transaction.   *)

MutantReviewDepartureCheck(w, r, stage, permitted) ==
  LET t == task[w] IN
  /\ t.op = "session"
  /\ permitted \in DepartureGrant(t.actor)
  /\ req[r].form.kind = "departure"
  /\ Continue(w, [t EXCEPT !.op = "departure", !.req = r, !.stage = stage,
                           !.permitted = permitted])

ReviewDepartureCheck(w, r, stage, permitted) ==
  LET t == task[w] IN
  /\ t.op = "session"
  /\ permitted \in DepartureGrant(t.actor)
  /\ req[r].form.kind = "departure"
  /\ req[r].current = stage
  /\ Continue(w, [t EXCEPT !.op = "departure", !.req = r, !.stage = stage,
                           !.permitted = permitted])

MutantDecidable(a, r, permitted) ==
  LET s == step[r][req[r].current] IN
  /\ req[r].status = "pending"
  /\ s.status = "pending"
  /\ s.approver = a \/ (s.byPermission /\ permitted)

(* What the transaction of ReviewApproval insists on before it writes.          *)
Decidable(a, r, permitted) ==
  LET s == step[r][req[r].current] IN
  /\ req[r].status = "pending"
  /\ s.status = "pending"
  /\ s.approver = a \/ (s.byPermission /\ permitted)
  /\ req[r].applicant # a

(* The permission was asked for before the transaction: by reviewApproval, or   *)
(* by reviewDeparture, which looked at the stage in between.                    *)
MayReview(w, r) ==
  LET t == task[w] IN
  \/ /\ t.op = "session"
     /\ \E permitted \in ReviewGrant(t.actor) : Decidable(t.actor, r, permitted)
  \/ /\ t.op = "departure"
     /\ t.req = r
     /\ Decidable(t.actor, r, t.permitted)

(* The current step decided by a; a rejection skips the steps still waiting and *)
(* an approval opens the next one.                                              *)
Sign(r, a, status) == [step[r][req[r].current] EXCEPT !.status = status, !.reviewer = a]
MutantStepsAfter(r, a, status) ==
  [n \in 1 .. 2 |->
     IF n = req[r].current THEN Sign(r, a, status)
     ELSE IF n = req[r].current + 1 /\ step[r][n].status = "waiting"
       THEN [step[r][n] EXCEPT !.status = "pending"]
     ELSE step[r][n]]
StepsAfter(r, a, status) ==
  [n \in 1 .. 2 |->
     IF n = req[r].current THEN Sign(r, a, status)
     ELSE IF status = "rejected" /\ step[r][n].status = "waiting"
       THEN [step[r][n] EXCEPT !.status = "skipped"]
     ELSE IF status = "approved" /\ n = req[r].current + 1 /\ step[r][n].status = "waiting"
       THEN [step[r][n] EXCEPT !.status = "pending"]
     ELSE step[r][n]]

Reject(w, r) ==
  /\ MayReview(w, r)
  /\ step' = [step EXCEPT ![r] = StepsAfter(r, task[w].actor, "rejected")]
  /\ req' = [req EXCEPT ![r].status = "rejected"]
  /\ leave' = IF req[r].form.kind = "leave" THEN [leave EXCEPT ![r] = "rejected"] ELSE leave
  /\ notified' = [notified EXCEPT ![r] = @ + 1]
  /\ Finish(w)
  /\ UNCHANGED <<dirVars, used, events>>

MutantAdvance(w, r) ==
  /\ MayReview(w, r)
  /\ req[r].current <= Total(req[r].form.kind)
  /\ step' = [step EXCEPT ![r] = StepsAfter(r, task[w].actor, "approved")]
  /\ req' = [req EXCEPT ![r].current = @ + 1]
  /\ Finish(w)
  /\ UNCHANGED <<dirVars, leave, used, events, notified>>

Advance(w, r) ==
  /\ MayReview(w, r)
  /\ req[r].current < Total(req[r].form.kind)
  /\ step' = [step EXCEPT ![r] = StepsAfter(r, task[w].actor, "approved")]
  /\ req' = [req EXCEPT ![r].current = @ + 1]
  /\ Finish(w)
  /\ UNCHANGED <<dirVars, leave, used, events, notified>>

(* The last approval and completeApproval are one transaction: when the effect  *)
(* is refused the whole review is rolled back.                                  *)
Complete(w, r) ==
  /\ MayReview(w, r)
  /\ req[r].current = Total(req[r].form.kind)
  /\ Present(emp, req[r].applicant)
  /\ step' = [step EXCEPT ![r] = StepsAfter(r, task[w].actor, "approved")]
  /\ req' = [req EXCEPT ![r].status = "approved"]
  /\ notified' = [notified EXCEPT ![r] = @ + 1]
  /\ Finish(w)

(* A leave is entered in the balance; "personal" also takes the other types. *)
Column(type) == IF type \in {"annual", "sick"} THEN type ELSE "personal"

MutantCompleteLeave(w, r) ==
  /\ req[r].form.kind = "leave"
  /\ Complete(w, r)
  /\ leave' = [leave EXCEPT ![r] = "approved"]
  /\ used' = [used EXCEPT ![req[r].applicant][Column(req[r].form.type)] = req[r].form.days]
  /\ UNCHANGED <<dirVars, events>>

CompleteLeave(w, r) ==
  /\ req[r].form.kind = "leave"
  /\ Complete(w, r)
  /\ leave' = [leave EXCEPT ![r] = "approved"]
  /\ used' = [used EXCEPT ![req[r].applicant][Column(req[r].form.type)] = @ + req[r].form.days]
  /\ UNCHANGED <<dirVars, events>>

MutantCompleteDeparture(w, r) ==
  LET e == req[r].applicant IN
  /\ req[r].form.kind = "departure"
  /\ Complete(w, r)
  /\ ~Leads(e)
  /\ emp' = [emp EXCEPT ![e].status = "disabled"]
  /\ session' = session \ {e}
  /\ events' = [events EXCEPT ![r] = @ + 1]
  /\ UNCHANGED <<dept, pos, offers, token, job, leave, used>>

CompleteDeparture(w, r) ==
  LET e == req[r].applicant IN
  /\ req[r].form.kind = "departure"
  /\ Complete(w, r)
  /\ ~Leads(e)
  /\ emp' = [emp EXCEPT ![e].status = "disabled"]
  /\ session' = session \ {e}
  /\ token' = token \ {e}
  /\ events' = [events EXCEPT ![r] = @ + 1]
  /\ UNCHANGED <<dept, pos, offers, job, leave, used>>

CompleteTransfer(w, r) ==
  LET e == req[r].applicant
      f == req[r].form
  IN
  /\ f.kind = "transfer"
  /\ Complete(w, r)
  /\ PlacementAllowed(f.dept, f.pos)
  /\ emp[e].dept # f.dept => ~Leads(e)
  /\ emp' = [emp EXCEPT ![e].dept = f.dept, ![e].pos = f.pos]
  /\ events' = [events EXCEPT ![r] = @ + 1]
  /\ UNCHANGED <<dept, pos, offers, session, token, job, leave, used>>

MutantMayCancelDecided(w, r) == /\ req[r].applicant = task[w].actor
                                /\ req[r].current = 1
MutantMayCancelLate(w, r) == /\ req[r].status = "pending"
                             /\ req[r].applicant = task[w].actor
(* CancelApproval: by the applicant, while the first step is open. *)
MayCancel(w, r) == /\ req[r].status = "pending"
                   /\ req[r].applicant = task[w].actor
                   /\ req[r].current = 1

MutantCancelLeave(r) == leave
CancelLeave(r) == IF leave[r] = "none" THEN leave ELSE [leave EXCEPT ![r] = "cancelled"]

CancelApproval(w, r) ==
  /\ task[w].op = "session"
  /\ MayCancel(w, r)
  /\ req' = [req EXCEPT ![r].status = "cancelled"]
  /\ step' = [step EXCEPT ![r] =
       [n \in 1 .. 2 |-> IF @[n].status \in {"pending", "waiting"}
                         THEN [@[n] EXCEPT !.status = "skipped"] ELSE @[n]]]
  /\ leave' = CancelLeave(r)
  /\ Finish(w)
  /\ UNCHANGED <<dirVars, used, events, notified>>

(* The handler answers an error, its write is rolled back, or the process stops. *)
Abandon(w) ==
  /\ task[w] # NoTask
  /\ Continue(w, NoTask)

--------------------------------------------------------------------------------
Init == /\ DirInit
        /\ req = [r \in Requests |-> NoRequest]
        /\ step = [r \in Requests |-> [n \in 1 .. 2 |-> NoStep]]
        /\ leave = [r \in Requests |-> "none"]
        /\ used = [e \in Employees |-> [c \in {"annual", "sick", "personal"} |-> 0]]
        /\ events = [r \in Requests |-> 0]
        /\ notified = [r \in Requests |-> 0]
        /\ task = [w \in Workers |-> NoTask]

Forms == {f \in Form : f.kind \in Kinds}

ApprovalStep(w) ==
  \/ \E a \in Persons : Authenticate(w, a)
  \/ \E form \in Forms : CreateApprovalCheck(w, form)
  \/ CreateApproval(w)
  \/ \E r \in Requests :
       \/ \E stage \in 1 .. 2, permitted \in BOOLEAN : ReviewDepartureCheck(w, r, stage, permitted)
       \/ Reject(w, r)
       \/ Advance(w, r)
       \/ CompleteLeave(w, r)
       \/ CompleteDeparture(w, r)
       \/ CompleteTransfer(w, r)
       \/ CancelApproval(w, r)
  \/ Abandon(w)

(* A worker serves one request: of the directory or of the approvals. *)
DirectoryStep(w) == /\ task[w] = NoTask
                    /\ Check(w) \/ Write(w) \/ Fail(w)
                    /\ UNCHANGED apprVars

Elsewhere == /\ \E e \in Employees : Logout(e) \/ ExchangeCode(e)
             /\ UNCHANGED apprVars

Next == \/ \E w \in Workers : ApprovalStep(w) \/ DirectoryStep(w)
        \/ Elsewhere

Spec == Init /\ [][Next]_vars
--------------------------------------------------------------------------------
(* What holds however the handlers interleave. *)

(* The status, the current step and the steps of a request agree (StepsAgree):  *)
(* what ReviewApproval and CancelApproval write row by row adds up.             *)
StepDiscipline == \A r \in Requests : StepsAgree(req[r], step[r])

(* Every decision is signed, by somebody other than the applicant who was named *)
(* for the step when the request was made or who has the permission for it: of  *)
(* departure:review alone nobody signs a transfer, whichever route is taken.    *)
SignedBy(q, s) ==
  IF s.status \in Decided
  THEN /\ s.reviewer # q.applicant
       /\ \/ s.reviewer = s.approver /\ s.reviewer # None
          \/ s.byPermission /\ s.reviewer \in Signers(q.form.kind)
  ELSE s.reviewer = None

ReviewersEntitled ==
  \A r \in Requests, n \in 1 .. 2 : SignedBy(req[r], step[r][n])

(* The other tables follow the request: the leave record has its status, the    *)
(* employment history gains one event and the applicant one notification, when  *)
(* the request is decided and never before or twice (one transaction).          *)
EffectOnce ==
  \A r \in Requests :
    LET q == req[r] IN
    /\ leave[r] = IF q.form.kind = "leave" THEN q.status ELSE "none"
    /\ events[r] = IF q.status = "approved" /\ q.form.kind # "leave" THEN 1 ELSE 0
    /\ notified[r] = IF q.status \in Decided THEN 1 ELSE 0

(* A leave balance is the sum of the approved leave records of the employee,    *)
(* also when several leaves are approved by handlers in flight together: the    *)
(* days are added in the transaction that approves, to what is then there.      *)
BalanceMatchesRecords ==
  \A e \in Employees, c \in {"annual", "sick", "personal"} :
    used[e][c] = Days({r \in Requests : /\ leave[r] = "approved"
                                        /\ req[r].applicant = e
                                        /\ Column(req[r].form.type) = c})

(* A closed request never changes, and a signed step is never signed again.     *)
DecisionsStand ==
  [][\A r \in Requests :
       /\ req[r].status \in Closed =>
            req'[r] = req[r] /\ step'[r] = step[r] /\ leave'[r] = leave[r]
       /\ \A n \in 1 .. 2 : step[r][n].status \in Decided => step'[r][n] = step[r][n]]_vars

(* The step that approves a departure leaves the account disabled, without open *)
(* sessions and without OAuth tokens.                                           *)
DepartureClosesAccount ==
  [][\A r \in Requests :
       req[r].form.kind = "departure" /\ req[r].status = "pending" /\ req'[r].status = "approved" =>
         /\ emp'[req[r].applicant].status = "disabled"
         /\ req[r].applicant \notin session' \cup token']_vars

(* A review of a departure is sent for one stage, but the stage is checked      *)
(* before the transaction.  It never decides an earlier stage.  It may decide a *)
(* later one, if the stage it was sent for is approved in between and whoever   *)
(* sent it had the permission HR signs with.                                    *)
StageRespected ==
  [][\A w \in Workers :
       LET r == task[w].req
           stage == task[w].stage
       IN
       task[w].op = "departure" /\ task'[w] = NoTask /\ step'[r] # step[r] =>
         \/ stage = req[r].current
         \/ /\ stage < req[r].current
            /\ step[r][stage].status = "approved"
            /\ task[w].permitted]_vars

--------------------------------------------------------------------------------
(* What the checks of CreateApproval are there for.  It holds when requests are *)
(* served one at a time; OpenWithinHandlers and AnnualWithinHandlers of         *)
(* ApprovalsProofs say what is left of it when they are not.                    *)

(* CreateApproval refuses a second open request of the same type.               *)
OnePendingPerKind ==
  \A e \in Employees, kind \in Kinds : Cardinality(Pending(e, kind)) <= 1

(* CreateApproval refuses annual leave beyond the balance: the days taken and   *)
(* the days asked for stay within the entitlement.                              *)
AnnualWithinEntitlement ==
  \A e \in Employees :
    used[e]["annual"] + Days(AnnualRecords(e, "pending")) <= AnnualEntitlement

--------------------------------------------------------------------------------
(* The workflow implements the life of a request of ApprovalLifecycle. *)
Signature(r, n) == IF step[r][n].status = "approved" THEN 1 ELSE 0

phaseOf == [r \in Requests |-> IF req[r].status = "pending" THEN "open" ELSE req[r].status]
needOf == [r \in Requests |-> IF req[r].status = "none" THEN 0 ELSE Total(req[r].form.kind)]
signedOf == [r \in Requests |-> Signature(r, 1) + Signature(r, 2)]
effectOf == [r \in Requests |-> events[r] + IF leave[r] = "approved" THEN 1 ELSE 0]

Lifecycle == INSTANCE ApprovalLifecycle WITH
  phase <- phaseOf, need <- needOf, signed <- signedOf, effect <- effectOf, told <- notified

(* Every behaviour of the tables is a behaviour of the abstract life cycle.     *)
ImplementsLifecycle == Lifecycle!LifecycleSpec
================================================================================
