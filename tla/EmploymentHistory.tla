--------------------------- MODULE EmploymentHistory ---------------------------
(* What the database tells about where people work: the copies of department    *)
(* and position names in employees, and employment_events.  Five handlers write *)
(* them (service.go, hr.go, position.go, approval.go), and at every start Open  *)
(* reads the copies again and adds an event (store.go).  Handler X is XCheck,   *)
(* everything it reads, followed by X, its transaction; job[w] is what worker w *)
(* has read.                                                                    *)
(* A definition called Mutant... is a slip the code does not make: no action    *)
(* uses it, it is there to try whether the properties would notice.             *)
EXTENDS Sequences, FiniteSets, Functions, Naturals

CONSTANTS Employees, Departments,
          Positions,    \* ids of positions, those Open makes from a title apart
          Names,        \* names, which are told apart whatever their case
          None, Workers,
          Ops,          \* the handlers an instance exercises
          MaxEvents,    \* bound: events of an employee, those of Open apart
          MaxRestarts   \* bound: how often the server starts again

ASSUME HistoryAssumption ==
  /\ None \notin Employees \cup Departments \cup Positions \cup Names
  /\ MaxEvents \in Nat /\ MaxRestarts \in Nat

(* A position made from a title has an id made from the title. *)
PosIds == Positions \cup Names

VARIABLES deptName,   \* departments: name by id
          posName,    \* positions: name by id, None without a row
          emp,        \* employees: where each works, with the two copies
          history,    \* employment_events of an employee, in the order of insertion
          job, restarts,
          muddled     \* history: for whom a handler wrote what was outdated

historyVars == <<deptName, posName, emp, history, job, restarts, muddled>>

Placement == [dept : Departments, department : Names, pos : PosIds, title : Names]
Nowhere == [dept |-> None, department |-> None, pos |-> None, title |-> None]
At(d, p) == [dept |-> d, department |-> deptName[d], pos |-> p, title |-> posName[p]]
Hired(e) == emp[e] # Nowhere

Kinds == {"hire", "seed", "edit", "transfer", "departure", "status"}
Event(kind, from, to) == [kind |-> kind, from |-> from.dept, to |-> to.dept]
Events == [kind : Kinds, from : Departments \cup {None}, to : Departments \cup {None}]

Idle == [op |-> "none"]
Rename == [op : {"UpdateDepartment"}, of : Departments, new : Names]
            \cup [op : {"UpdatePosition"}, of : PosIds, old : Names, new : Names]
Visit == [op : {"CreateEmployee", "UpdateEmployee", "SetEmployeeEnabled"}, of : Employees,
          old : Placement \cup {Nowhere}, new : Placement]

HistoryTypeOK ==
  /\ deptName \in [Departments -> Names]
  /\ posName \in [PosIds -> Names \cup {None}]
  /\ emp \in [Employees -> Placement \cup {Nowhere}]
  /\ history \in [Employees -> Seq(Events)]
  /\ job \in [Workers -> {Idle} \cup Rename \cup Visit]
  /\ restarts \in 0 .. MaxRestarts
  /\ muddled \subseteq Employees

Begin(w, j) == /\ j.op \in Ops
               /\ job[w] = Idle
               /\ job' = [job EXCEPT ![w] = j]
               /\ UNCHANGED <<deptName, posName, emp, history, restarts, muddled>>
Done(w) == job' = [job EXCEPT ![w] = Idle]

(* Where in her history the events are that handlers have written. *)
Told(e) == {i \in DOMAIN history[e] : history[e][i].kind # "seed"}

(* createEmploymentEvent *)
Record(e, kind, from, to) ==
  /\ Cardinality(Told(e)) < MaxEvents
  /\ history' = [history EXCEPT ![e] = Append(@, Event(kind, from, to))]

(* Whether a handler that visits an employee has been overtaken: a name it has  *)
(* copied has changed since, or the department it found her in.                 *)
Outdated(j) ==
  \/ j.op # "SetEmployeeEnabled" /\ j.new # At(j.new.dept, j.new.pos)
  \/ j.op # "CreateEmployee" /\ j.old.dept # emp[j.of].dept
Muddle(people, when) == muddled' = IF when THEN muddled \cup people ELSE muddled

FreeName(table, id, n) == \A other \in DOMAIN table \ {id} : table[other] # n

--------------------------------------------------------------------------------
(* Hiring and direct edits *)

MutantCreateEmployeeCheck(w, e, d, p) ==
  /\ ~Hired(e)
  /\ Begin(w, [op |-> "CreateEmployee", of |-> e, old |-> Nowhere, new |-> At(d, p)])
CreateEmployeeCheck(w, e, d, p) ==
  /\ ~Hired(e) /\ posName[p] # None
  /\ Begin(w, [op |-> "CreateEmployee", of |-> e, old |-> Nowhere, new |-> At(d, p)])

CreateEmployee(w) ==
  LET j == job[w] IN
  /\ j.op = "CreateEmployee"
  /\ ~Hired(j.of)
  /\ emp' = [emp EXCEPT ![j.of] = j.new]
  /\ Record(j.of, "hire", Nowhere, j.new)
  /\ Muddle({j.of}, Outdated(j))
  /\ Done(w)
  /\ UNCHANGED <<deptName, posName, restarts>>

UpdateEmployeeCheck(w, e, d, p) ==
  /\ Hired(e) /\ posName[p] # None
  /\ Begin(w, [op |-> "UpdateEmployee", of |-> e, old |-> emp[e], new |-> At(d, p)])

MutantMoved(j) == j.old.title # j.new.title
Moved(j) == j.old.dept # j.new.dept \/ j.old.pos # j.new.pos

(* Updates has put the new values into employee by the time the event takes its *)
(* "from" out of it.                                                            *)
UpdateEmployee(w) ==
  LET j == job[w] IN
  /\ j.op = "UpdateEmployee"
  /\ emp' = [emp EXCEPT ![j.of] = j.new]
  /\ IF Moved(j) THEN Record(j.of, "edit", j.new, j.new) ELSE UNCHANGED history
  /\ Muddle({j.of}, Outdated(j))
  /\ Done(w)
  /\ UNCHANGED <<deptName, posName, restarts>>

SetEmployeeEnabledCheck(w, e) ==
  /\ Hired(e)
  /\ Begin(w, [op |-> "SetEmployeeEnabled", of |-> e, old |-> emp[e], new |-> emp[e]])

SetEmployeeEnabled(w) ==
  LET j == job[w] IN
  /\ j.op = "SetEmployeeEnabled"
  /\ Record(j.of, "status", j.old, j.old)
  /\ Muddle({j.of}, Outdated(j))
  /\ Done(w)
  /\ UNCHANGED <<deptName, posName, emp, restarts>>

--------------------------------------------------------------------------------
(* completeApproval: one transaction reads, records and moves. *)

MutantCompleteTransfer(w, e, d, p) ==
  /\ job[w] = Idle /\ Hired(e) /\ posName[p] # None
  /\ Record(e, "transfer", At(d, p), At(d, p))
  /\ emp' = [emp EXCEPT ![e] = At(d, p)]
  /\ UNCHANGED <<deptName, posName, job, restarts, muddled>>
CompleteTransfer(w, e, d, p) ==
  /\ job[w] = Idle /\ Hired(e) /\ posName[p] # None
  /\ Record(e, "transfer", emp[e], At(d, p))
  /\ emp' = [emp EXCEPT ![e] = At(d, p)]
  /\ UNCHANGED <<deptName, posName, job, restarts, muddled>>

(* The account is closed; the employee's department stays in her row. *)
CompleteDeparture(w, e) ==
  /\ job[w] = Idle /\ Hired(e)
  /\ Record(e, "departure", emp[e], Nowhere)
  /\ UNCHANGED <<deptName, posName, emp, job, restarts, muddled>>

--------------------------------------------------------------------------------
(* Renaming *)

UpdateDepartmentCheck(w, d, n) ==
  /\ FreeName(deptName, d, n)
  /\ Begin(w, [op |-> "UpdateDepartment", of |-> d, new |-> n])

UpdateDepartment(w) ==
  LET j == job[w] IN
  /\ j.op = "UpdateDepartment"
  /\ FreeName(deptName, j.of, j.new)      \* the unique index
  /\ deptName' = [deptName EXCEPT ![j.of] = j.new]
  /\ emp' = [e \in Employees |->
       IF emp[e].dept = j.of THEN [emp[e] EXCEPT !.department = j.new] ELSE emp[e]]
  /\ Done(w)
  /\ UNCHANGED <<posName, history, restarts, muddled>>

UpdatePositionCheck(w, p, n) ==
  /\ posName[p] # None /\ FreeName(posName, p, n)
  /\ Begin(w, [op |-> "UpdatePosition", of |-> p, old |-> posName[p], new |-> n])

MutantRetitled(e, j) == emp[e]
(* The titles follow only when the name that was read differs. *)
Retitled(e, j) ==
  IF emp[e].pos = j.of /\ j.old # j.new THEN [emp[e] EXCEPT !.title = j.new] ELSE emp[e]

UpdatePosition(w) ==
  LET j == job[w] IN
  /\ j.op = "UpdatePosition"
  /\ FreeName(posName, j.of, j.new)
  /\ posName' = [posName EXCEPT ![j.of] = j.new]
  /\ emp' = [e \in Employees |-> Retitled(e, j)]
  /\ Muddle({e \in Employees : emp[e].pos = j.of}, j.old = j.new /\ posName[j.of] # j.new)
  /\ Done(w)
  /\ UNCHANGED <<deptName, history, restarts>>

(* The handler answers an error instead. *)
Fail(w) ==
  /\ job[w] # Idle
  /\ Done(w)
  /\ UNCHANGED <<deptName, posName, emp, history, restarts, muddled>>

--------------------------------------------------------------------------------
(* Open, at a restart: migrateLegacyPositions and seedEmploymentEvents *)

Titles == {emp[e].title : e \in {x \in Employees : Hired(x)}}
Unknown == {t \in Titles : FreeName(posName, None, t)}

PositionNamed(t) == IF t \in Unknown THEN t ELSE CHOOSE p \in PosIds : posName[p] = t

MutantSeeded(e) == FALSE
Seeded(e) == \E i \in DOMAIN history[e] : history[e][i].kind = "seed"

(* An unknown title becomes a position, unless its id is taken: then Open fails *)
(* and the server does not serve again.                                         *)
Restart ==
  /\ restarts < MaxRestarts
  /\ \A t \in Unknown : posName[t] = None
  /\ posName' = [p \in PosIds |-> IF p \in Unknown THEN p ELSE posName[p]]
  /\ emp' = [e \in Employees |->
       IF Hired(e) THEN [emp[e] EXCEPT !.pos = PositionNamed(emp[e].title)] ELSE emp[e]]
  /\ history' = [e \in Employees |->
       IF Hired(e) /\ ~Seeded(e) THEN Append(history[e], Event("seed", Nowhere, emp[e]))
       ELSE history[e]]
  /\ job' = [w \in Workers |-> Idle]
  /\ restarts' = restarts + 1
  /\ UNCHANGED <<deptName, muddled>>

HistoryInit ==
  /\ deptName \in Injection(Departments, Names)
  /\ \E f \in Injection(Positions, Names) :
       posName = [p \in PosIds |-> IF p \in Positions THEN f[p] ELSE None]
  /\ emp = [e \in Employees |-> Nowhere]
  /\ history = [e \in Employees |-> <<>>]
  /\ job = [w \in Workers |-> Idle]
  /\ restarts = 0
  /\ muddled = {}

Check(w) ==
  \/ \E e \in Employees :
       \/ SetEmployeeEnabledCheck(w, e)
       \/ \E d \in Departments, p \in PosIds :
            CreateEmployeeCheck(w, e, d, p) \/ UpdateEmployeeCheck(w, e, d, p)
  \/ \E n \in Names :
       \/ \E d \in Departments : UpdateDepartmentCheck(w, d, n)
       \/ \E p \in PosIds : UpdatePositionCheck(w, p, n)

Transaction(w) ==
  \/ CreateEmployee(w) \/ UpdateEmployee(w) \/ SetEmployeeEnabled(w)
  \/ UpdateDepartment(w) \/ UpdatePosition(w)

Approve(w, e) ==
  \/ "CompleteTransfer" \in Ops /\ \E d \in Departments, p \in PosIds : CompleteTransfer(w, e, d, p)
  \/ "CompleteDeparture" \in Ops /\ CompleteDeparture(w, e)

HistoryNext ==
  \/ \E w \in Workers :
       Check(w) \/ Transaction(w) \/ Fail(w) \/ \E e \in Employees : Approve(w, e)
  \/ Restart

HistorySpec == HistoryInit /\ [][HistoryNext]_historyVars
--------------------------------------------------------------------------------
Departed(event) == event.kind = "departure"

(* Where an employee works is where her history ends, and each event begins     *)
(* where the one before it ended; except that a departure leaves her row alone, *)
(* and that a direct edit tells where it led in both places (service.go:420):   *)
(* where it began, which the page would show (EmployeesView.vue:198), is lost.  *)
EndsHere(e) ==
  \E i \in Told(e) : /\ \A j \in Told(e) : j <= i
                     /\ history[e][i].to = emp[e].dept \/ Departed(history[e][i])
Adjacent(e, i, j) == i < j /\ \A k \in Told(e) : k <= i \/ j <= k
LedOnly(event) == event.kind = "edit" /\ event.from = event.to
Connected(e) ==
  \A i, j \in Told(e) : Adjacent(e, i, j) =>
    \/ history[e][j].from = history[e][i].to
    \/ LedOnly(history[e][j]) \/ Departed(history[e][i])

(* The copies say what her department and her position are called now.          *)
InStep(x) == /\ x.department = deptName[x.dept]
             /\ x.title = posName[x.pos] /\ posName[x.pos] # None

(* However requests overlap: the history and the copies of names of an employee *)
(* tell what the tables say (README.md, "部门管理" and "岗位管理"), as long as  *)
(* no handler has written for her from what had changed since it read it; then  *)
(* nothing in the code puts them right.                                         *)
HistorySound ==
  /\ HistoryTypeOK
  /\ \A e \in Employees \ muddled : (Hired(e) => EndsHere(e) /\ InStep(emp[e])) /\ Connected(e)

(* A restart keeps every position; it puts an employee where her title says,    *)
(* and so leaves her where she is if that is what her position is called; it    *)
(* makes a position anew only of a title left behind that none has by now; and  *)
(* however many restarts there are, each history gets one event of theirs, next *)
(* to the "hire" of CreateEmployee (store.go:286).                              *)
RestartNeutral ==
  [][restarts' # restarts =>
       /\ \A p \in PosIds : posName[p] # None => posName'[p] = posName[p]
       /\ \A p \in PosIds : posName'[p] # posName[p] =>
            \E e \in Employees : emp'[e].pos = p /\ posName'[p] = emp[e].title
       /\ \A e \in Employees : Hired(e) =>
            /\ emp'[e] = [emp[e] EXCEPT !.pos = emp'[e].pos]
            /\ posName'[emp'[e].pos] = emp[e].title
            /\ posName[emp[e].pos] = emp[e].title => emp'[e] = emp[e]
       /\ \A e \in Employees : Hired(e) => (Cardinality(DOMAIN history[e] \ Told(e)) = 1)']_historyVars
================================================================================
