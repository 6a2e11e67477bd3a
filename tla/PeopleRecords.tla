----------------------------- MODULE PeopleRecords -----------------------------
(* Contracts and performance goals (people_ops.go).  A handler reads, decides,  *)
(* and writes one row without a transaction: job[w] is what it read and has not *)
(* used yet.  Departments and their leaders change meanwhile (service.go).      *)
(* Contract types, dates and texts decide nothing here and are left out.        *)
(* A definition called Mutant... is a slip the code does not make: no action    *)
(* uses it, it is there to try whether the properties would notice.             *)

CONSTANTS People, Departments,
          Contracts, Goals,   \* row ids (random tokens, never used twice)
          Managers,           \* people with the permission performance:manage
          Viewers,            \* people with the permission performance:view
          Workers, None

ASSUME RecordsAssumption == /\ None \notin People \cup Departments \cup Contracts \cup Goals
                            /\ Managers \cup Viewers \subseteq People

VARIABLES dept,       \* employees.department_id
          leader,     \* departments.leader_id
          contract,   \* employee_contracts: owner and status
          goal,       \* performance_goals: owner, department; (history) who wrote what
          led,        \* history: who has led a department so far
          job         \* what the handler of each worker has read

recVars == <<dept, leader, contract, goal, led, job>>

ContractStatuses == {"active", "ended", "terminated"}
Contract == [owner : People \cup {None}, status : ContractStatuses \cup {"none", "deleted"}]
NoContract == [owner |-> None, status |-> "none"]
Goal == [owner : People \cup {None}, dept : Departments \cup {None},
         editor : People \cup {None}, critic : People \cup {None}]
NoGoal == [owner |-> None, dept |-> None, editor |-> None, critic |-> None]
Job == [op : {"none", "CreateContract", "UpdateContract", "CreateGoal", "UpdateGoal"},
        actor : People \cup {None}, row : Contracts \cup Goals \cup {None},
        status : ContractStatuses \cup {None}, dept : Departments \cup {None},
        isOwner : BOOLEAN, isManager : BOOLEAN]
NoJob == [op |-> "none", actor |-> None, row |-> None, status |-> None, dept |-> None,
          isOwner |-> FALSE, isManager |-> FALSE]

RecTypeOK ==
  /\ dept \in [People -> Departments]
  /\ leader \in [Departments -> People \cup {None}]
  /\ contract \in [Contracts -> Contract]
  /\ goal \in [Goals -> Goal]
  /\ led \in [Departments -> SUBSET People]
  /\ job \in [Workers -> Job]

Begin(w, j) == /\ job[w] = NoJob
               /\ job' = [job EXCEPT ![w] = j]
               /\ UNCHANGED <<dept, leader, contract, goal, led>>
Done(w) == job' = [job EXCEPT ![w] = NoJob]

--------------------------------------------------------------------------------
(* Contracts.  The actor matters to the permission only. *)

Active(e, except) == {c \in Contracts \ {except} : contract[c] = [owner |-> e, status |-> "active"]}
MutantMayBe(status, e, except) == status = "active" => \A c, d \in Active(e, except) : c = d
MayBe(status, e, except) == status = "active" => Active(e, except) = {}

(* For CreateContract the job's actor is the employee the contract is for. *)
CreateContractCheck(w, e, status) ==
  /\ MayBe(status, e, None)
  /\ Begin(w, [NoJob EXCEPT !.op = "CreateContract", !.actor = e, !.status = status])

CreateContract(w) ==
  /\ job[w].op = "CreateContract"
  /\ \E c \in Contracts :
       /\ contract[c] = NoContract
       /\ contract' = [contract EXCEPT ![c] = [owner |-> job[w].actor, status |-> job[w].status]]
  /\ Done(w)
  /\ UNCHANGED <<dept, leader, goal, led>>

Stored(c) == contract[c].status \in ContractStatuses

UpdateContractCheck(w, c, status) ==
  /\ Stored(c)
  /\ MayBe(status, contract[c].owner, c)
  /\ Begin(w, [NoJob EXCEPT !.op = "UpdateContract", !.row = c, !.status = status])

MutantSaved(c, status) == [contract EXCEPT ![c].status = status]
(* Updates on the row's id: a row that is gone stays gone. *)
Saved(c, status) == IF Stored(c) THEN [contract EXCEPT ![c].status = status] ELSE contract

UpdateContract(w) ==
  /\ job[w].op = "UpdateContract"
  /\ contract' = Saved(job[w].row, job[w].status)
  /\ Done(w)
  /\ UNCHANGED <<dept, leader, goal, led>>

DeleteContract(c) ==
  /\ Stored(c)
  /\ contract' = [contract EXCEPT ![c].status = "deleted"]
  /\ UNCHANGED <<dept, leader, goal, led, job>>

--------------------------------------------------------------------------------
(* Goals *)

(* The session's copy of the actor has the department the goal is filed under. *)
CreateGoalCheck(w, a) ==
  Begin(w, [NoJob EXCEPT !.op = "CreateGoal", !.actor = a, !.dept = dept[a]])

CreateGoal(w) ==
  /\ job[w].op = "CreateGoal"
  /\ \E g \in Goals :
       /\ goal[g] = NoGoal
       /\ goal' = [goal EXCEPT ![g] = [owner |-> job[w].actor, dept |-> job[w].dept,
                                       editor |-> job[w].actor, critic |-> None]]
  /\ Done(w)
  /\ UNCHANGED <<dept, leader, contract, led>>

IsOwner(a, g) == goal[g].owner = a
IsDepartmentLeader(a, d) == leader[d] = a

MayUpdate(a, g) == IsOwner(a, g) \/ IsDepartmentLeader(a, goal[g].dept) \/ a \in Managers

UpdateGoalCheck(w, a, g) ==
  /\ goal[g] # NoGoal
  /\ MayUpdate(a, g)
  /\ Begin(w, [NoJob EXCEPT !.op = "UpdateGoal", !.actor = a, !.row = g, !.isOwner = IsOwner(a, g),
                            !.isManager = IsDepartmentLeader(a, goal[g].dept)])

(* The owner and who may manage write the content; the leader and who may       *)
(* manage write the comment, except on a goal of their own.                     *)
WritesContent(a, isOwner) == isOwner \/ a \in Managers
MutantWritesComment(a, isOwner, isManager) == isManager \/ a \in Managers
WritesComment(a, isOwner, isManager) == ~isOwner /\ (isManager \/ a \in Managers)

UpdateGoal(w) ==
  LET j == job[w] IN
  /\ j.op = "UpdateGoal"
  /\ goal' = [goal EXCEPT
       ![j.row].editor = IF WritesContent(j.actor, j.isOwner) THEN j.actor ELSE @,
       ![j.row].critic = IF WritesComment(j.actor, j.isOwner, j.isManager) THEN j.actor ELSE @]
  /\ Done(w)
  /\ UNCHANGED <<dept, leader, contract, led>>

(* ListGoals: who is shown a goal, and the two buttons it is shown with.  The   *)
(* handler passes one flag for "view" and "manage" (listGoals in api.go).       *)
CanViewAll(a) == a \in Viewers \cup Managers
Listed(a, g) == CanViewAll(a) \/ IsOwner(a, g) \/ IsDepartmentLeader(a, goal[g].dept)
CanEdit(a, g) == IsOwner(a, g) \/ CanViewAll(a)
MutantCanReview(a, g) == CanViewAll(a) \/ IsDepartmentLeader(a, goal[g].dept)
CanReview(a, g) == ~IsOwner(a, g) /\ (CanViewAll(a) \/ IsDepartmentLeader(a, goal[g].dept))

--------------------------------------------------------------------------------
(* Elsewhere: an employee changes department, a department its leader. *)
Transfer(e, d) ==
  /\ dept' = [dept EXCEPT ![e] = d]
  /\ UNCHANGED <<leader, contract, goal, led, job>>

Appoint(d, e) ==
  /\ leader' = [leader EXCEPT ![d] = e]
  /\ led' = [led EXCEPT ![d] = @ \cup ({e} \ {None})]
  /\ UNCHANGED <<dept, contract, goal, job>>

(* The handler answers an error, or the process stops. *)
Abandon(w) ==
  /\ job[w] # NoJob
  /\ Done(w)
  /\ UNCHANGED <<dept, leader, contract, goal, led>>

RecInit ==
  /\ dept \in [People -> Departments]
  /\ leader = [d \in Departments |-> None]
  /\ contract = [c \in Contracts |-> NoContract]
  /\ goal = [g \in Goals |-> NoGoal]
  /\ led = [d \in Departments |-> {}]
  /\ job = [w \in Workers |-> NoJob]

ContractStep(w) ==
  \/ \E status \in ContractStatuses :
       \/ \E e \in People : CreateContractCheck(w, e, status)
       \/ \E c \in Contracts : UpdateContractCheck(w, c, status)
  \/ CreateContract(w)
  \/ UpdateContract(w)

GoalStep(w) ==
  \/ \E a \in People : CreateGoalCheck(w, a) \/ \E g \in Goals : UpdateGoalCheck(w, a, g)
  \/ CreateGoal(w)
  \/ UpdateGoal(w)

RecNext ==
  \/ \E w \in Workers : ContractStep(w) \/ GoalStep(w) \/ Abandon(w)
  \/ \E c \in Contracts : DeleteContract(c)
  \/ \E d \in Departments :
       \/ \E e \in People : Transfer(e, d)
       \/ \E e \in People \cup {None} : Appoint(d, e)

RecSpec == RecInit /\ [][RecNext]_recVars
--------------------------------------------------------------------------------
(* Whatever is transferred and appointed while a goal is worked on: its content *)
(* is its owner's or comes from somebody who may manage; its comment is never   *)
(* the owner's and comes from somebody who may manage or has led the department *)
(* the goal is filed under (TestContractsGoalsAndSelfServiceFormUsefulEmployee- *)
(* Record).                                                                     *)
GoalAuthority ==
  \A g \in Goals : goal[g] # NoGoal =>
    /\ goal[g].editor \in {goal[g].owner} \cup Managers
    /\ goal[g].critic # goal[g].owner
    /\ goal[g].critic \in Managers \cup led[goal[g].dept] \cup {None}

(* The buttons of a goal ("edit", "feedback") and what UpdateGoal does with a    *)
(* click: who would be let in is shown the goal with a button, who is shown a   *)
(* button is let in, and of somebody let in UpdateGoal writes the content where *)
(* there is an "edit" and the comment where there is a "feedback".  The leader  *)
(* can change between the reading and the writing: then the leader of before    *)
(* comments once more.  And somebody who may view all goals and not manage them *)
(* is shown buttons that are not honoured (api.go:558 against :589).             *)
OnlyViews(a) == a \in Viewers \ Managers
ButtonsHonoured ==
  /\ \A a \in People, g \in Goals : goal[g] # NoGoal =>
       /\ MayUpdate(a, g) => Listed(a, g)
       /\ CanEdit(a, g) \/ CanReview(a, g) <=> MayUpdate(a, g) \/ OnlyViews(a)
  /\ \A w \in Workers : job[w].op = "UpdateGoal" =>
       LET a == job[w].actor
           g == job[w].row
           writesComment == WritesComment(a, job[w].isOwner, job[w].isManager)
       IN /\ CanEdit(a, g) <=> WritesContent(a, job[w].isOwner) \/ OnlyViews(a)
          /\ writesComment => CanReview(a, g) \/ a \in led[goal[g].dept]
          /\ CanReview(a, g) => writesComment

(* A deleted contract does not come back, not even with an update that had read *)
(* it before.                                                                   *)
DeletedStaysDeleted ==
  [][\A c \in Contracts : contract[c].status = "deleted" => contract'[c] = contract[c]]_recVars

(* An employee has one contract in force (the refusal of CreateContract and     *)
(* UpdateContract).  It holds when requests are served one at a time.           *)
OneActiveContract == \A e \in People : \A c, d \in Active(e, None) : c = d
================================================================================
