---------------------------- MODULE DirectoryProofs ----------------------------
(* What is proved of Directory, for every organisation it may start from and    *)
(* any number of requests at a time: type correctness and, with the handlers    *)
(* kept apart that clash, what the validations are there for.                   *)
EXTENDS DirectoryConflicts, FiniteSetTheorems, TLAPS

(* A validation stores a well-typed record of what it read and writes nothing.  *)
LEMMA BeginTyped ==
  ASSUME DirTypeOK, NEW w \in Workers, NEW j \in Job, Begin(w, j),
         j.op = "UpdatePosition" => j.pos \in Positions
  PROVE  DirTypeOK'
  BY DEF DirTypeOK, Begin, tables

(* The records the validations store. *)
LEMMA CheckTyped ==
  ASSUME DirTypeOK, NEW w \in Workers, Check(w)
  PROVE  DirTypeOK'
<1>0. NoJob \in Job
  BY DEF NoJob, Job, Statuses
<1>1. ASSUME NEW d \in Departments, NEW p \in Positions, CreateEmployeeCheck(w, d, p)
      PROVE  DirTypeOK'
  BY <1>0, <1>1, BeginTyped DEF CreateEmployeeCheck, Job, NoJob, Handlers, Statuses
<1>2. ASSUME NEW d \in Departments, NEW p \in Positions, NEW e \in Employees,
             UpdateEmployeeCheck(w, e, d, p)
      PROVE  DirTypeOK'
  <2>1. KeptStatus(e) \in Statuses
    BY DEF KeptStatus, DirTypeOK, Employee
  <2> QED
    BY <2>1, <1>0, <1>2, BeginTyped DEF UpdateEmployeeCheck, Job, NoJob, Handlers, Statuses
<1>3. ASSUME NEW e \in Employees, NEW status \in Statuses, SetEmployeeEnabledCheck(w, e, status)
      PROVE  DirTypeOK'
  BY <1>0, <1>3, BeginTyped DEF SetEmployeeEnabledCheck, Job, NoJob, Handlers
<1>4. ASSUME NEW e \in Employees, DeleteEmployeeCheck(w, e) \/ LoginCheck(w, e)
      PROVE  DirTypeOK'
  BY <1>0, <1>4, BeginTyped DEF DeleteEmployeeCheck, LoginCheck, Job, NoJob, Handlers, Statuses
<1>5. ASSUME NEW parent \in Departments \cup {None}, NEW status \in Statuses,
             CreateDepartmentCheck(w, parent, status)
      PROVE  DirTypeOK'
  BY <1>0, <1>5, BeginTyped DEF CreateDepartmentCheck, Job, NoJob, Handlers
<1>6. ASSUME NEW parent \in Departments \cup {None}, NEW status \in Statuses,
             NEW d \in Departments, NEW leader \in Employees \cup {None},
             UpdateDepartmentCheck(w, d, parent, leader, status)
      PROVE  DirTypeOK'
  BY <1>0, <1>6, BeginTyped DEF UpdateDepartmentCheck, Job, NoJob, Handlers
<1>7. ASSUME NEW d \in Departments, DeleteDepartmentCheck(w, d)
      PROVE  DirTypeOK'
  BY <1>0, <1>7, BeginTyped DEF DeleteDepartmentCheck, Job, NoJob, Handlers, Statuses
<1>8. ASSUME NEW ds \in SUBSET Departments, NEW status \in Statuses,
             CreatePositionCheck(w, ds, status)
      PROVE  DirTypeOK'
  BY <1>0, <1>8, BeginTyped DEF CreatePositionCheck, Job, NoJob, Handlers
<1>9. ASSUME NEW ds \in SUBSET Departments, NEW status \in Statuses, NEW p \in Positions,
             UpdatePositionCheck(w, p, ds, status)
      PROVE  DirTypeOK'
  BY <1>0, <1>9, BeginTyped DEF UpdatePositionCheck, Job, NoJob, Handlers
<1>10. ASSUME NEW p \in Positions, DeletePositionCheck(w, p)
       PROVE  DirTypeOK'
  BY <1>0, <1>10, BeginTyped DEF DeletePositionCheck, Job, NoJob, Handlers, Statuses
<1> QED
  BY <1>1, <1>2, <1>3, <1>4, <1>5, <1>6, <1>7, <1>8, <1>9, <1>10 DEF Check

(* The rows the transactions write. *)
LEMMA WriteTyped ==
  ASSUME DirTypeOK, NEW w \in Workers, Write(w)
  PROVE  DirTypeOK'
<1>0. job[w] \in Job /\ NoJob \in Job /\ job \in [Workers -> Job]
  BY DEF NoJob, Job, Statuses, DirTypeOK
<1>d. ASSUME Done(w)
      PROVE  /\ job' \in [Workers -> Job]
             /\ \A v \in Workers : job'[v].op = "UpdatePosition" => job'[v].pos \in Positions
  BY <1>0, <1>d DEF Done, NoJob, DirTypeOK
<1>1. CASE CreateEmployee(w)
  BY <1>0, <1>1, <1>d DEF CreateEmployee, DirTypeOK, Employee, Set, Rows, Statuses, Job
<1>2. CASE UpdateEmployee(w)
  BY <1>0, <1>2, <1>d DEF UpdateEmployee, DirTypeOK, Employee, Set, Present, Rows, Job
<1>3. CASE SetEmployeeEnabled(w)
  <2> DEFINE e == job[w].emp
  <2>1. job[w].status \in Statuses
    BY <1>0 DEF Job
  <2>2. ASSUME Present(emp, e)
        PROVE  [emp[e] EXCEPT !.status = job[w].status] \in Employee
    BY <2>1, <2>2 DEF Present, DirTypeOK, Employee
  <2>3. emp' \in [Employees -> Employee]
    BY <1>3, <2>2 DEF SetEmployeeEnabled, Present, DirTypeOK
  <2> QED
    BY <2>3, <1>3, <1>d DEF SetEmployeeEnabled, DirTypeOK
<1>4. CASE DeleteEmployee(w)
  BY <1>0, <1>4, <1>d DEF DeleteEmployee, DirTypeOK, Employee, NoEmployee, Set, Rows, Statuses, Job
<1>5. CASE Login(w)
  BY <1>0, <1>5, <1>d DEF Login, DirTypeOK, Present
<1>6. CASE CreateDepartment(w)
  BY <1>0, <1>6, <1>d DEF CreateDepartment, DirTypeOK, Department, Set, Rows, Job
<1>7. CASE UpdateDepartment(w)
  BY <1>0, <1>7, <1>d DEF UpdateDepartment, DirTypeOK, Department, Set, Present, Rows, Job
<1>8. CASE DeleteDepartment(w)
  BY <1>0, <1>8, <1>d DEF DeleteDepartment, DirTypeOK, Department, NoDepartment, Set, Rows,
     Statuses, Job
<1>9. CASE CreatePosition(w)
  BY <1>0, <1>9, <1>d DEF CreatePosition, DirTypeOK, Position, Set, Rows, Job
<1>10. CASE UpdatePosition(w)
  <2> DEFINE p == job[w].pos
  <2>1. job[w].status \in Statuses /\ job[w].depts \subseteq Departments
    BY <1>0 DEF Job
  <2>2. ASSUME Present(pos, p)
        PROVE  [pos[p] EXCEPT !.status = job[w].status] \in Position
    BY <2>1, <2>2 DEF Present, DirTypeOK, Position
  <2>3. pos' \in [Positions -> Position]
    BY <1>10, <2>2 DEF UpdatePosition, Present, DirTypeOK
  <2>4. offers' \subseteq Departments \X Positions
    BY <1>10, <2>1 DEF UpdatePosition, Running, DirTypeOK
  <2> QED
    BY <2>3, <2>4, <1>10, <1>d DEF UpdatePosition, DirTypeOK
<1>11. CASE DeletePosition(w)
  BY <1>0, <1>11, <1>d DEF DeletePosition, DirTypeOK, Position, NoPosition, Set, Rows, Statuses, Job
<1> QED
  BY <1>1, <1>2, <1>3, <1>4, <1>5, <1>6, <1>7, <1>8, <1>9, <1>10, <1>11 DEF Write

LEMMA DirTypeInit == DirInit => DirTypeOK
  BY InitialAssumption DEF DirInit, DirTypeOK, NoJob, Job, Statuses

LEMMA FailTyped ==
  ASSUME DirTypeOK, NEW w \in Workers, Fail(w)
  PROVE  DirTypeOK'
  BY DEF DirTypeOK, Fail, Done, tables, NoJob, Job, Statuses

LEMMA ElsewhereTyped ==
  ASSUME DirTypeOK, NEW e \in Employees, Logout(e) \/ ExchangeCode(e)
  PROVE  DirTypeOK'
  BY DEF DirTypeOK, Logout, ExchangeCode

(* The handlers keep the tables and their own notes well typed. *)
THEOREM DirTyped == DirSpec => []DirTypeOK
<1>1. DirInit => DirTypeOK
  BY DirTypeInit
<1>2. DirTypeOK /\ [DirNext]_dirVars => DirTypeOK'
  <2>1. DirTypeOK /\ UNCHANGED dirVars => DirTypeOK'
    BY DEF DirTypeOK, dirVars
  <2>2. DirTypeOK /\ DirNext => DirTypeOK'
    BY CheckTyped, WriteTyped, FailTyped, ElsewhereTyped DEF DirNext
  <2> QED
    BY <2>1, <2>2
<1> QED
  BY <1>1, <1>2, PTL DEF DirSpec

--------------------------------------------------------------------------------
(* What is deleted stays deleted, whatever handlers read before the deletion.   *)

(* Nothing is left in a deleted row, so that a second deletion changes nothing. *)
Blank ==
  /\ \A e \in Employees : emp[e].row = "deleted" => emp[e] = [NoEmployee EXCEPT !.row = "deleted"]
  /\ \A d \in Departments : dept[d].row = "deleted" =>
       dept[d] = [NoDepartment EXCEPT !.row = "deleted"]
  /\ \A p \in Positions : pos[p].row = "deleted" => pos[p] = [NoPosition EXCEPT !.row = "deleted"]

LeavesDeleted ==
  /\ \A e \in Employees : emp[e].row = "deleted" => emp'[e] = emp[e]
  /\ \A d \in Departments : dept[d].row = "deleted" => dept'[d] = dept[d]
  /\ \A p \in Positions : pos[p].row = "deleted" => pos'[p] = pos[p]

(* Rows that nobody writes stay as they are. *)
LEMMA UntouchedLeavesDeleted ==
  ASSUME Blank, UNCHANGED <<emp, dept, pos>>
  PROVE  Blank' /\ LeavesDeleted
  BY DEF Blank, LeavesDeleted

(* Creations take a row not in use, updates one that is present. *)
LEMMA WriteLeavesDeleted ==
  ASSUME DirTypeOK, Blank, NEW w \in Workers, Write(w)
  PROVE  Blank' /\ LeavesDeleted
<1> USE DEF Blank, LeavesDeleted, DirTypeOK, Set, Present
<1>1. CASE CreateEmployee(w)
  BY <1>1 DEF CreateEmployee
<1>2. CASE UpdateEmployee(w)
  BY <1>2 DEF UpdateEmployee
<1>3. CASE SetEmployeeEnabled(w)
  <2>1. UNCHANGED <<dept, pos>>
    BY <1>3 DEF SetEmployeeEnabled
  <2>2. ASSUME NEW e \in Employees
        PROVE  emp'[e] = emp[e] \/ (emp[e].row = "present" /\ emp'[e].row = "present")
    BY <1>3, <2>2 DEF SetEmployeeEnabled, Employee
  <2> QED
    BY <2>1, <2>2
<1>4. CASE DeleteEmployee(w)
  BY <1>4 DEF DeleteEmployee
<1>5. CASE Login(w)
  BY <1>5 DEF Login
<1>6. CASE CreateDepartment(w)
  BY <1>6 DEF CreateDepartment
<1>7. CASE UpdateDepartment(w)
  BY <1>7 DEF UpdateDepartment
<1>8. CASE DeleteDepartment(w)
  BY <1>8 DEF DeleteDepartment
<1>9. CASE CreatePosition(w)
  BY <1>9 DEF CreatePosition
<1>10. CASE UpdatePosition(w)
  BY <1>10 DEF UpdatePosition, Position
<1>11. CASE DeletePosition(w)
  BY <1>11 DEF DeletePosition
<1> QED
  BY <1>1, <1>2, <1>3, <1>4, <1>5, <1>6, <1>7, <1>8, <1>9, <1>10, <1>11 DEF Write

LEMMA CheckWritesNothing ==
  ASSUME NEW w \in Workers, Check(w)
  PROVE  UNCHANGED tables
  BY DEF Check, CreateEmployeeCheck, UpdateEmployeeCheck, SetEmployeeEnabledCheck,
     DeleteEmployeeCheck, LoginCheck, CreateDepartmentCheck, UpdateDepartmentCheck,
     DeleteDepartmentCheck, CreatePositionCheck, UpdatePositionCheck, DeletePositionCheck, Begin

LEMMA NextLeavesDeleted ==
  ASSUME DirTypeOK, Blank, [DirNext]_dirVars
  PROVE  Blank' /\ LeavesDeleted
<1>1. CASE UNCHANGED dirVars
  BY <1>1, UntouchedLeavesDeleted DEF dirVars
<1>2. ASSUME NEW w \in Workers, Check(w) \/ Fail(w)
      PROVE  Blank' /\ LeavesDeleted
  <2>1. UNCHANGED tables
    BY <1>2, CheckWritesNothing DEF Fail
  <2> QED
    BY <2>1, UntouchedLeavesDeleted DEF tables
<1>3. ASSUME NEW e \in Employees, Logout(e) \/ ExchangeCode(e)
      PROVE  Blank' /\ LeavesDeleted
  BY <1>3, UntouchedLeavesDeleted DEF Logout, ExchangeCode
<1> QED
  BY <1>1, <1>2, <1>3, WriteLeavesDeleted DEF DirNext

(* An employee, a department or a position that was deleted is never written    *)
(* again, by whatever handlers of the directory run at the same time.           *)
THEOREM NothingResurrected == DirSpec => NoResurrection
<1>1. DirInit => Blank
  BY InitialAssumption DEF DirInit, Blank
<1>2. DirTypeOK /\ Blank /\ [DirNext]_dirVars => Blank' /\ LeavesDeleted
  BY NextLeavesDeleted
<1>3. LeavesDeleted =>
        [/\ \A e \in Employees : emp[e].row = "deleted" => emp'[e] = emp[e]
         /\ \A d \in Departments : dept[d].row = "deleted" => dept'[d] = dept[d]
         /\ \A p \in Positions : pos[p].row = "deleted" => pos'[p] = pos[p]]_dirVars
  BY DEF LeavesDeleted
<1> QED
  BY <1>1, <1>2, <1>3, DirTyped, PTL DEF DirSpec, NoResurrection

--------------------------------------------------------------------------------
(* Handlers kept apart: what was validated holds until it is written, and with  *)
(* it every write keeps the organisation sound.                                 *)

Usable(d, p) == Present(dept, d) /\ Enabled(pos, p) /\ <<d, p>> \in offers

(* A department d may hang under parent: any departments that parent is among   *)
(* are left, climbing, at one other than d.                                     *)
Rooted(d, parent) ==
  \A ring \in SUBSET Departments : parent \in ring =>
    \E x \in ring : x # d /\ Present(dept, x) /\ dept[x].parent \notin ring

(* What of a validation still holds, as far as the writes depend on it.         *)
ValidPlacement(j) ==
  /\ j.op \in {"CreateEmployee", "UpdateEmployee"} => Usable(j.dept, j.pos)
  /\ j.op = "UpdateEmployee" => j.emp \in Employees /\ emp[j.emp].row # "unused"
  /\ j.op = "UpdateEmployee" /\ Present(emp, j.emp) =>
       /\ j.status = emp[j.emp].status
       /\ emp[j.emp].dept # j.dept => ~Leads(j.emp)
ValidAccount(j) ==
  /\ j.op \in {"SetEmployeeEnabled", "DeleteEmployee", "Login"} => j.emp \in Employees
  /\ j.op = "SetEmployeeEnabled" /\ j.status = "disabled" => ~Leads(j.emp)
  /\ j.op = "DeleteEmployee" => ~Leads(j.emp)
  /\ j.op = "Login" /\ Present(emp, j.emp) => Enabled(emp, j.emp)
ValidDepartment(j) ==
  /\ j.op = "CreateDepartment" => j.parent = None \/ Present(dept, j.parent)
  /\ j.op = "UpdateDepartment" => j.dept \in Departments /\ dept[j.dept].row # "unused"
  /\ j.op = "UpdateDepartment" /\ Present(dept, j.dept) =>
       /\ LeaderAllowed(j.dept, j.leader)
       /\ Moves(j) => j.parent = None \/ Rooted(j.dept, j.parent)
  /\ j.op = "DeleteDepartment" =>
       j.dept \in Departments /\ Children(j.dept) = {} /\ Members(j.dept) = {}
ValidPosition(j) ==
  /\ j.op \in {"CreatePosition", "UpdatePosition"} => DepartmentsExist(j.depts)
  /\ j.op = "UpdatePosition" =>
       /\ Present(pos, j.pos)
       /\ j.status = "disabled" => Holders(j.pos) = {}
       /\ {emp[e].dept : e \in Holders(j.pos)} \ {None} \subseteq j.depts
  /\ j.op = "DeletePosition" => j.pos \in Positions /\ Holders(j.pos) = {}

Valid(j) == ValidPlacement(j) /\ ValidAccount(j) /\ ValidDepartment(j) /\ ValidPosition(j)
AllValid == \A w \in Workers : Valid(job[w])

(* What the writes do to the rows, each for the job i that asks for it.         *)

(* e comes to work in i.dept as i.pos: hired, moved, or not there any more.     *)
Placed(i, e) ==
  /\ i.op \in {"CreateEmployee", "UpdateEmployee"}
  /\ UNCHANGED <<dept, pos, offers, session>>
  /\ DOMAIN emp' = Employees
  /\ \A x \in Employees : x # e => emp'[x] = emp[x]
  /\ e \in Employees
  /\ emp'[e].row = "present" /\ emp'[e].dept = i.dept /\ emp'[e].pos = i.pos
  /\ \/ emp[e].row = "unused" /\ emp'[e].status = "enabled"
     \/ /\ i.op = "UpdateEmployee" /\ i.emp = e
        /\ emp[e].row = "present" /\ emp'[e].status = emp[e].status

(* The account of i.emp gets a status.                                          *)
Relabelled(i) ==
  /\ i.op = "SetEmployeeEnabled"
  /\ UNCHANGED <<dept, pos, offers>>
  /\ session' = IF i.status = "disabled" THEN session \ {i.emp} ELSE session
  /\ DOMAIN emp' = Employees
  /\ \A e \in Employees :
       /\ emp'[e].row = emp[e].row /\ emp'[e].dept = emp[e].dept /\ emp'[e].pos = emp[e].pos
       /\ emp'[e].status = IF e = i.emp /\ emp[e].row = "present" THEN i.status ELSE emp[e].status

(* Department d gets a leader and a parent, and a row if it had none.           *)
Arranged(i, d) ==
  /\ i.op \in {"CreateDepartment", "UpdateDepartment"}
  /\ UNCHANGED <<emp, pos, offers, session>>
  /\ DOMAIN dept' = Departments
  /\ \A x \in Departments : x # d => dept'[x] = dept[x]
  /\ d \in Departments
  /\ dept'[d].row = "present" /\ dept'[d].parent = i.parent
  /\ \/ i.op = "CreateDepartment" /\ dept[d].row = "unused" /\ dept'[d].leader = None
     \/ /\ i.op = "UpdateDepartment" /\ dept[d].row = "present" /\ dept'[d].leader = i.leader
        /\ i.dept = d

(* A transaction does one of these, or removes a row, or nothing.               *)
Removed(i) ==
  \/ /\ i.op = "DeleteEmployee"
     /\ emp' = Set(emp, i.emp, [NoEmployee EXCEPT !.row = "deleted"])
     /\ session' = session \ {i.emp}
     /\ UNCHANGED <<dept, pos, offers>>
  \/ /\ i.op = "DeleteDepartment"
     /\ dept' = Set(dept, i.dept, [NoDepartment EXCEPT !.row = "deleted"])
     /\ offers' = {o \in offers : o[1] # i.dept}
     /\ UNCHANGED <<emp, pos, session>>
  \/ /\ i.op = "DeletePosition"
     /\ pos' = Set(pos, i.pos, [NoPosition EXCEPT !.row = "deleted"])
     /\ offers' = {o \in offers : o[2] # i.pos}
     /\ UNCHANGED <<emp, dept, session>>

Offered(i, p) ==
  /\ i.op \in {"CreatePosition", "UpdatePosition"}
  /\ UNCHANGED <<emp, dept, session>>
  /\ DOMAIN pos' = Positions
  /\ \A x \in Positions : x # p => pos'[x] = pos[x]
  /\ p \in Positions
  /\ pos'[p].row = "present" /\ pos'[p].status = i.status
  /\ \/ i.op = "CreatePosition" /\ pos[p].row = "unused"
     \/ i.op = "UpdatePosition" /\ pos[p].row = "present" /\ i.pos = p
  /\ offers' = {o \in offers : o[2] # p} \cup (i.depts \X {p})

Seated(i) ==
  /\ i.op = "Login"
  /\ session' = IF Present(emp, i.emp) THEN session \cup {i.emp} ELSE session
  /\ UNCHANGED <<emp, dept, pos, offers>>

Effects(i) == \/ \E e \in Employees : Placed(i, e)
              \/ Relabelled(i)
              \/ \E d \in Departments : Arranged(i, d)
              \/ Removed(i)
              \/ \E p \in Positions : Offered(i, p)
              \/ Seated(i)
              \/ UNCHANGED <<emp, dept, pos, offers, session>>

(* The fields of a job. *)
LEMMA JobFields ==
  ASSUME NEW j \in Job
  PROVE  /\ j.emp \in Employees \cup {None} /\ j.dept \in Departments \cup {None}
         /\ j.pos \in Positions \cup {None} /\ j.status \in Statuses
         /\ j.leader \in Employees \cup {None} /\ j.parent \in Departments \cup {None}
         /\ j.depts \subseteq Departments
  BY DEF Job

(* The parent that a department has, it may have. *)
LEMMA OwnParentRooted ==
  ASSUME HierarchySound, NEW d \in Departments, Present(dept, d), dept[d].parent \in Departments
  PROVE  Rooted(d, dept[d].parent)
<1> DEFINE existing == {x \in Departments : Present(dept, x)}
<1> SUFFICES ASSUME NEW ring \in SUBSET Departments, dept[d].parent \in ring
             PROVE  \E x \in ring : x # d /\ Present(dept, x) /\ dept[x].parent \notin ring
  BY DEF Rooted
<1>1. d \in existing /\ dept[d].parent \in existing
  BY DirectoryAssumption DEF HierarchySound
<1> DEFINE met == (ring \cap existing) \cup {d}
<1>2. PICK x \in met : dept[x].parent \notin met
  <2>1. met \in SUBSET existing /\ met # {}
    BY <1>1
  <2> QED
    BY <2>1 DEF HierarchySound
<1>3. x # d /\ x \in ring /\ x \in existing
  BY <1>1, <1>2
<1>4. dept[x].parent \notin ring
  BY <1>2, <1>3, DirectoryAssumption DEF HierarchySound
<1> QED
  BY <1>3, <1>4

(* Every transaction of a job that is still valid is one of these effects. *)
LEMMA WriteEffects ==
  ASSUME DirTypeOK, DirectorySound, NEW w \in Workers, Valid(job[w]), Write(w)
  PROVE  Effects(job[w])
<1> DEFINE i == job[w]
<1>0. i \in Job
  BY DEF DirTypeOK
<1> USE DEF DirTypeOK, Running, Set, Present
<1>1. CASE CreateEmployee(w)
  <2>1. PICK e \in Employees :
          /\ emp[e].row = "unused"
          /\ emp' = Set(emp, e, [row |-> "present", status |-> "enabled",
                                 dept |-> i.dept, pos |-> i.pos])
    BY <1>1 DEF CreateEmployee
  <2> QED
    BY <1>1, <2>1 DEF CreateEmployee, Placed, Effects
<1>2. CASE UpdateEmployee(w)
  <2>1. CASE Present(emp, i.emp)
    <3>1. Placed(i, i.emp)
      BY <1>2, <2>1 DEF UpdateEmployee, Placed, Valid, ValidPlacement
    <3> QED
      BY <2>1, <3>1 DEF Effects
  <2> QED
    BY <1>2, <2>1 DEF UpdateEmployee, Effects
<1>3. CASE SetEmployeeEnabled(w)
  <2>1. Relabelled(i)
    BY <1>3 DEF SetEmployeeEnabled, Relabelled, Employee
  <2> QED
    BY <2>1 DEF Effects
<1>4. CASE DeleteEmployee(w)
  BY <1>4 DEF DeleteEmployee, Removed, Effects
<1>5. CASE Login(w)
  BY <1>5 DEF Login, Seated, Effects
<1>6. CASE CreateDepartment(w)
  <2>1. PICK d \in Departments :
          /\ dept[d].row = "unused"
          /\ dept' = Set(dept, d, [row |-> "present", status |-> i.status,
                                   leader |-> None, parent |-> i.parent])
    BY <1>6 DEF CreateDepartment
  <2> QED
    BY <1>6, <2>1 DEF CreateDepartment, Arranged, Effects
<1>7. CASE UpdateDepartment(w)
  <2>1. CASE Present(dept, i.dept)
    <3>1. Arranged(i, i.dept)
      BY <1>7, <2>1 DEF UpdateDepartment, Arranged
    <3> QED
      BY <2>1, <3>1 DEF Effects
  <2> QED
    BY <1>7, <2>1 DEF UpdateDepartment, Effects
<1>8. CASE DeleteDepartment(w) \/ DeletePosition(w)
  BY <1>8 DEF DeleteDepartment, DeletePosition, Removed, Effects
<1>9. CASE CreatePosition(w)
  <2>1. PICK p \in Positions :
          /\ pos[p].row = "unused"
          /\ pos' = Set(pos, p, [row |-> "present", status |-> i.status])
          /\ offers' = offers \cup (i.depts \X {p})
    BY <1>9 DEF CreatePosition
  <2>2. offers = {o \in offers : o[2] # p}
    BY <2>1 DEF DirectorySound, OffersSound
  <2>3. Offered(i, p)
    BY <1>9, <2>1, <2>2 DEF CreatePosition, Offered
  <2> QED
    BY <2>3 DEF Effects
<1>10. CASE UpdatePosition(w)
  <2>1. Present(pos, i.pos) /\ i.pos \in Positions
    BY <1>10 DEF UpdatePosition, Valid, ValidPosition
  <2>2. Offered(i, i.pos)
    BY <1>10, <2>1 DEF UpdatePosition, Offered, Position
  <2> QED
    BY <2>1, <2>2 DEF Effects
<1> QED
  BY <1>1, <1>2, <1>3, <1>4, <1>5, <1>6, <1>7, <1>8, <1>9, <1>10 DEF Write

(* What i writes leaves the validation of j true, if they do not clash. *)
LEMMA PlacedValid ==
  ASSUME DirTypeOK, DirectorySound, NEW i \in Job, NEW j \in Job, Valid(i), Valid(j),
         ~Clash(i, j), ~Clash(j, i), NEW e \in Employees, Placed(i, e)
  PROVE  Valid(j)'
<1> USE JobFields, DirectoryAssumption DEF Valid, Clash, Placed, DirTypeOK, Present, Enabled
<1>1. ValidPlacement(j)'
  BY DEF ValidPlacement, Usable, Leads
<1>2. ValidAccount(j)'
  BY DEF ValidAccount, Leads
<1>3. ValidDepartment(j)'
  <2>1. j.op = "UpdateDepartment" /\ Present(dept, j.dept) => LeaderAllowed(j.dept, j.leader)'
    BY DEF ValidDepartment, LeaderAllowed, Deposes
  <2>2. j.op = "UpdateDepartment" =>
        (Moves(j)' <=> Moves(j)) /\ (Rooted(j.dept, j.parent)' <=> Rooted(j.dept, j.parent))
    BY DEF Moves, Rooted
  <2>3. j.op = "DeleteDepartment" => (Children(j.dept) = {} /\ Members(j.dept) = {})'
    BY DEF ValidDepartment, Children, Members, Unseats
  <2> QED
    BY <2>1, <2>2, <2>3 DEF ValidDepartment
<1>4. ValidPosition(j)'
  BY DEF ValidPosition, DepartmentsExist, Holders, Unseats
<1> QED
  BY <1>1, <1>2, <1>3, <1>4

(* The status of an account is set. *)
LEMMA RelabelledValid ==
  ASSUME DirTypeOK, DirectorySound, NEW i \in Job, NEW j \in Job, Valid(i), Valid(j),
         ~Clash(i, j), ~Clash(j, i), Relabelled(i)
  PROVE  Valid(j)'
<1> USE JobFields, DirectoryAssumption DEF Valid, Clash, Relabelled, DirTypeOK, Present, Enabled
<1>1. ValidPlacement(j)'
  BY DEF ValidPlacement, Usable, Leads, Overtakes
<1>2. ValidAccount(j)'
  BY DEF ValidAccount, Leads, Overtakes, Statuses
<1>3. ValidDepartment(j)'
  <2>1. j.op = "UpdateDepartment" /\ Present(dept, j.dept) => LeaderAllowed(j.dept, j.leader)'
    BY DEF ValidDepartment, LeaderAllowed, Deposes, Statuses
  <2>2. j.op = "UpdateDepartment" =>
        (Moves(j)' <=> Moves(j)) /\ (Rooted(j.dept, j.parent)' <=> Rooted(j.dept, j.parent))
    BY DEF Moves, Rooted
  <2>3. j.op = "DeleteDepartment" => (Children(j.dept) = {} /\ Members(j.dept) = {})'
    BY DEF ValidDepartment, Children, Members
  <2> QED
    BY <2>1, <2>2, <2>3 DEF ValidDepartment
<1>4. ValidPosition(j)'
  <2>1. Holders(j.pos)' = Holders(j.pos) /\ \A e \in Holders(j.pos) : emp'[e].dept = emp[e].dept
    BY DEF Holders
  <2> QED
    BY <2>1 DEF ValidPosition, DepartmentsExist
<1> QED
  BY <1>1, <1>2, <1>3, <1>4

(* A department gets its leader and parent. *)
LEMMA ArrangedValid ==
  ASSUME DirTypeOK, DirectorySound, NEW i \in Job, NEW j \in Job, Valid(i), Valid(j),
         ~Clash(i, j), ~Clash(j, i), NEW d \in Departments, Arranged(i, d)
  PROVE  Valid(j)'
<1> USE JobFields, DirectoryAssumption DEF Valid, Clash, Arranged, DirTypeOK, Present, Enabled
<1>1. ASSUME NEW e \in Employees, Leads(e)', ~Leads(e)
      PROVE  i.op = "UpdateDepartment" /\ i.leader = e /\ i.dept = d
             /\ Present(emp, e) /\ emp[e].dept = d
  BY <1>1 DEF Leads, ValidDepartment, LeaderAllowed
<1>2. ValidPlacement(j)'
  BY <1>1 DEF ValidPlacement, Usable, Deposes
<1>3. ValidAccount(j)'
  BY <1>1 DEF ValidAccount, Deposes
<1>4. ValidDepartment(j)'
  <2>1. j.op = "UpdateDepartment" /\ Present(dept, j.dept)' => LeaderAllowed(j.dept, j.leader)'
    BY DEF ValidDepartment, LeaderAllowed
  <2>2. ASSUME j.op = "UpdateDepartment", Present(dept, j.dept)', Moves(j)', j.parent # None
        PROVE  Rooted(j.dept, j.parent)'
    <3>1. Present(dept, j.dept)
      BY <2>2 DEF ValidDepartment
    <3>2. CASE Moves(j) /\ (j.dept = d \/ i.parent = dept[d].parent \/ dept[d].row = "unused")
      <4>1. Rooted(j.dept, j.parent)
        BY <2>2, <3>1, <3>2 DEF ValidDepartment
      <4>2. \A x \in Departments : x # j.dept /\ Present(dept, x) =>
              Present(dept, x)' /\ dept'[x].parent = dept[x].parent
        BY <3>2
      <4> QED
        BY <4>1, <4>2 DEF Rooted
    <3>3. CASE Moves(j) /\ j.dept # d /\ i.parent # dept[d].parent /\ dept[d].row # "unused"
      BY <3>3 DEF Moves, Entangles
    <3>4. CASE ~Moves(j)
      <4>1. j.dept = d /\ dept[d].parent = j.parent /\ j.parent \in Departments
        BY <2>2, <3>1, <3>4 DEF Moves
      <4>2. Rooted(d, j.parent)
        BY <3>1, <4>1, OwnParentRooted DEF DirectorySound
      <4> QED
        BY <4>1, <4>2 DEF Rooted
    <3> QED
      BY <3>2, <3>3, <3>4
  <2>3. j.op = "DeleteDepartment" => (Children(j.dept) = {} /\ Members(j.dept) = {})'
    BY DEF ValidDepartment, Children, Members, Uproots
  <2>4. j.op = "CreateDepartment" => (j.parent = None \/ Present(dept, j.parent))'
    BY DEF ValidDepartment
  <2>5. j.op = "UpdateDepartment" => j.dept \in Departments /\ dept'[j.dept].row # "unused"
    BY DEF ValidDepartment
  <2> QED
    BY <2>1, <2>2, <2>3, <2>4, <2>5 DEF ValidDepartment
<1>5. ValidPosition(j)'
  BY DEF ValidPosition, DepartmentsExist, Holders
<1> QED
  BY <1>2, <1>3, <1>4, <1>5

(* A row is removed. *)
LEMMA RemovedValid ==
  ASSUME DirTypeOK, DirectorySound, NEW i \in Job, NEW j \in Job, Valid(i), Valid(j),
         ~Clash(i, j), ~Clash(j, i), Removed(i)
  PROVE  Valid(j)'
<1> USE JobFields, DirectoryAssumption DEF Valid, Clash, DirTypeOK, Present, Enabled, Set
<1>1. CASE i.op = "DeleteEmployee"
  <2>0. /\ UNCHANGED <<dept, pos, offers>>
        /\ DOMAIN emp' = Employees
        /\ \A x \in Employees : x # i.emp => emp'[x] = emp[x]
        /\ i.emp \in Employees /\ emp'[i.emp].row = "deleted"
    BY <1>1 DEF Removed, NoEmployee, ValidAccount
  <2>1. ValidPlacement(j)'
    BY <2>0 DEF ValidPlacement, Usable, Leads
  <2>2. ValidAccount(j)'
    BY <2>0 DEF ValidAccount, Leads
  <2>3. ValidDepartment(j)'
    <3>1. j.op = "UpdateDepartment" /\ Present(dept, j.dept) => LeaderAllowed(j.dept, j.leader)'
      BY <1>1, <2>0 DEF ValidDepartment, LeaderAllowed, Deposes
    <3>2. j.op = "UpdateDepartment" =>
        (Moves(j)' <=> Moves(j)) /\ (Rooted(j.dept, j.parent)' <=> Rooted(j.dept, j.parent))
      BY <2>0 DEF Moves, Rooted
    <3>3. j.op = "DeleteDepartment" => (Children(j.dept) = {} /\ Members(j.dept) = {})'
      BY <2>0 DEF ValidDepartment, Children, Members
    <3> QED
      BY <2>0, <3>1, <3>2, <3>3 DEF ValidDepartment
  <2>4. ValidPosition(j)'
    <3>1. Holders(j.pos)' \subseteq Holders(j.pos)
          /\ \A e \in Holders(j.pos)' : emp'[e].dept = emp[e].dept
      BY <2>0 DEF Holders
    <3> QED
      BY <2>0, <3>1 DEF ValidPosition, DepartmentsExist
  <2> QED
    BY <2>1, <2>2, <2>3, <2>4
<1>2. CASE i.op = "DeleteDepartment"
  <2>0. /\ UNCHANGED <<emp, pos>>
        /\ DOMAIN dept' = Departments
        /\ \A x \in Departments : x # i.dept => dept'[x] = dept[x]
        /\ i.dept \in Departments /\ dept'[i.dept].row = "deleted"
        /\ offers' = {o \in offers : o[1] # i.dept}
        /\ Children(i.dept) = {} /\ Members(i.dept) = {}
    BY <1>2 DEF Removed, NoDepartment, ValidDepartment
  <2>1. ValidPlacement(j)'
    BY <1>2, <2>0 DEF ValidPlacement, Usable, Leads, Unseats
  <2>2. ValidAccount(j)'
    BY <2>0 DEF ValidAccount, Leads
  <2>3. ValidDepartment(j)'
    <3>1. j.op = "UpdateDepartment" /\ Present(dept, j.dept)' => LeaderAllowed(j.dept, j.leader)'
      BY <2>0 DEF ValidDepartment, LeaderAllowed
    <3>2. ASSUME j.op = "UpdateDepartment", Present(dept, j.dept)', Moves(j)', j.parent # None
          PROVE  Rooted(j.dept, j.parent)'
      <4>1. Present(dept, j.dept) /\ Moves(j) /\ j.parent # i.dept
        BY <1>2, <2>0, <3>2 DEF Moves, Uproots
      <4>2. Rooted(j.dept, j.parent)
        BY <3>2, <4>1 DEF ValidDepartment
      <4> SUFFICES ASSUME NEW ring \in SUBSET Departments, j.parent \in ring
                   PROVE  \E x \in ring : x # j.dept /\ Present(dept, x)' /\ dept'[x].parent \notin ring
        BY DEF Rooted
      <4>3. PICK x \in ring \ {i.dept} :
              x # j.dept /\ Present(dept, x) /\ dept[x].parent \notin ring \ {i.dept}
        BY <4>1, <4>2 DEF Rooted
      <4>4. dept[x].parent # i.dept
        BY <2>0, <4>3 DEF Children
      <4> QED
        BY <2>0, <4>3, <4>4
    <3>3. j.op = "DeleteDepartment" => (Children(j.dept) = {} /\ Members(j.dept) = {})'
      BY <2>0 DEF ValidDepartment, Children, Members
    <3>4. j.op = "CreateDepartment" => (j.parent = None \/ Present(dept, j.parent))'
      BY <1>2, <2>0 DEF ValidDepartment, Uproots
    <3>5. j.op = "UpdateDepartment" => j.dept \in Departments /\ dept'[j.dept].row # "unused"
      BY <2>0 DEF ValidDepartment
    <3> QED
      BY <3>1, <3>2, <3>3, <3>4, <3>5 DEF ValidDepartment
  <2>4. ValidPosition(j)'
    BY <1>2, <2>0 DEF ValidPosition, DepartmentsExist, Holders, Uproots
  <2> QED
    BY <2>1, <2>2, <2>3, <2>4
<1>3. CASE i.op = "DeletePosition"
  <2>0. /\ UNCHANGED <<emp, dept>>
        /\ DOMAIN pos' = Positions
        /\ \A x \in Positions : x # i.pos => pos'[x] = pos[x]
        /\ offers' = {o \in offers : o[2] # i.pos}
    BY <1>3 DEF Removed
  <2>1. ValidPlacement(j)'
    BY <1>3, <2>0 DEF ValidPlacement, Usable, Leads, Unseats
  <2>2. ValidAccount(j)'
    BY <2>0 DEF ValidAccount, Leads
  <2>3. ValidDepartment(j)'
    BY <2>0 DEF ValidDepartment, LeaderAllowed, Moves, Rooted, Children, Members
  <2>4. ValidPosition(j)'
    BY <1>3, <2>0 DEF ValidPosition, DepartmentsExist, Holders, Uproots
  <2> QED
    BY <2>1, <2>2, <2>3, <2>4
<1> QED
  BY <1>1, <1>2, <1>3 DEF Removed

(* A position is offered. *)
LEMMA OfferedValid ==
  ASSUME DirTypeOK, DirectorySound, NEW i \in Job, NEW j \in Job, Valid(i), Valid(j),
         ~Clash(i, j), ~Clash(j, i), NEW p \in Positions, Offered(i, p)
  PROVE  Valid(j)'
<1> USE JobFields, DirectoryAssumption DEF Valid, Clash, Offered, DirTypeOK, Present, Enabled
<1>1. ValidPlacement(j)'
  <2>1. j.op \in {"CreateEmployee", "UpdateEmployee"} => Usable(j.dept, j.pos)'
    BY DEF ValidPlacement, Usable, Unseats, Statuses
  <2> QED
    BY <2>1 DEF ValidPlacement, Leads
<1>2. ValidAccount(j)'
  BY DEF ValidAccount, Leads
<1>3. ValidDepartment(j)'
  BY DEF ValidDepartment, LeaderAllowed, Moves, Rooted, Children, Members
<1>4. ValidPosition(j)'
  BY DEF ValidPosition, DepartmentsExist, Holders
<1> QED
  BY <1>1, <1>2, <1>3, <1>4

(* A validation depends on the tables only. *)
LEMMA SameTablesValid ==
  ASSUME NEW j, Valid(j), UNCHANGED <<emp, dept, pos, offers>>
  PROVE  Valid(j)'
  BY DEF Valid, ValidPlacement, ValidAccount, ValidDepartment, ValidPosition, Usable, Leads,
     LeaderAllowed, Moves, Rooted, Children, Members, Holders, DepartmentsExist, Present, Enabled

(* Whatever i writes, j stays valid if they do not clash. *)
LEMMA EffectValid ==
  ASSUME DirTypeOK, DirectorySound, NEW i \in Job, NEW j \in Job, Valid(i), Valid(j),
         ~Clash(i, j), ~Clash(j, i), Effects(i)
  PROVE  Valid(j)'
  BY PlacedValid, RelabelledValid, ArrangedValid, RemovedValid, OfferedValid, SameTablesValid
     DEF Effects, Seated

--------------------------------------------------------------------------------
(* What was validated and still holds makes the writes keep the tables sound.   *)

LEMMA PlacedSound ==
  ASSUME DirTypeOK, DirectorySound, NEW i \in Job, Valid(i), NEW e \in Employees, Placed(i, e)
  PROVE  DirectorySound'
<1> USE DEF DirTypeOK, DirectorySound, Present, Enabled
<1>1. Usable(i.dept, i.pos)
  BY DEF Placed, Valid, ValidPlacement
<1>2. LeadersSound'
  BY DEF LeadersSound, LeaderAllowed, Leads, Placed, Valid, ValidPlacement
<1>3. StaffedDepartmentsExist'
  BY <1>1 DEF StaffedDepartmentsExist, Usable, Placed
<1>4. HeldPositionsUsable'
  BY <1>1 DEF HeldPositionsUsable, Usable, Placed
<1>5. HierarchySound' /\ OffersSound'
  BY DEF HierarchySound, OffersSound, Placed
<1>6. SessionsSound'
  BY DEF SessionsSound, Placed
<1> QED
  BY <1>2, <1>3, <1>4, <1>5, <1>6

LEMMA RelabelledSound ==
  ASSUME DirTypeOK, DirectorySound, NEW i \in Job, Valid(i), Relabelled(i)
  PROVE  DirectorySound'
<1> USE DEF DirTypeOK, DirectorySound, Present, Enabled, Relabelled
<1>1. LeadersSound'
  BY JobFields DEF LeadersSound, LeaderAllowed, Leads, Valid, ValidAccount, Statuses
<1>2. StaffedDepartmentsExist' /\ HeldPositionsUsable'
  BY DEF StaffedDepartmentsExist, HeldPositionsUsable
<1>3. HierarchySound' /\ OffersSound'
  BY DEF HierarchySound, OffersSound
<1>4. SessionsSound'
  BY JobFields DEF SessionsSound, Statuses
<1> QED
  BY <1>1, <1>2, <1>3, <1>4

LEMMA ArrangedSound ==
  ASSUME DirTypeOK, DirectorySound, NEW i \in Job, Valid(i), NEW d \in Departments, Arranged(i, d)
  PROVE  DirectorySound'
<1> USE DEF DirTypeOK, DirectorySound, Present, Enabled, Arranged
<1>1. LeadersSound'
  BY DEF LeadersSound, LeaderAllowed, Valid, ValidDepartment
<1>2. StaffedDepartmentsExist' /\ HeldPositionsUsable'
  BY DEF StaffedDepartmentsExist, HeldPositionsUsable
<1>3. OffersSound' /\ SessionsSound'
  BY DEF OffersSound, SessionsSound
<1> DEFINE existing == {x \in Departments : Present(dept, x)}
<1>4. existing' = existing \cup {d} /\ dept'[d].parent = i.parent
      /\ \A x \in existing : x # d => dept'[x] = dept[x]
  OBVIOUS
<1>5. HierarchySound'
  <2>1. CASE i.op = "CreateDepartment"
    <3>1. i.parent \in existing \cup {None} /\ d \notin existing
      BY <2>1, JobFields DEF Valid, ValidDepartment
    <3>2. \A x \in existing : dept'[x] = dept[x] /\ dept[x].parent # d
      BY <1>4, <3>1, DirectoryAssumption DEF HierarchySound
    <3>3. ASSUME NEW ring \in SUBSET existing', ring # {}
          PROVE  \E x \in ring : dept'[x].parent \notin ring
      <4>1. CASE ring \ {d} = {}
        BY <1>4, <3>1, <3>3, <4>1, DirectoryAssumption
      <4>2. CASE ring \ {d} # {}
        <5>1. PICK x \in ring \ {d} : dept[x].parent \notin ring \ {d}
          BY <1>4, <4>2 DEF HierarchySound
        <5> QED
          BY <1>4, <3>2, <5>1
      <4> QED
        BY <4>1, <4>2
    <3> QED
      BY <1>4, <3>1, <3>2, <3>3 DEF HierarchySound
  <2>2. CASE i.op = "UpdateDepartment"
    <3>1. d \in existing /\ existing' = existing /\ i.dept = d
      BY <1>4, <2>2
    <3>2. CASE ~Moves(i)
      <4>1. \A x \in existing : dept'[x].parent = dept[x].parent
        BY <1>4, <2>2, <3>1, <3>2 DEF Moves
      <4> QED
        BY <3>1, <4>1 DEF HierarchySound
    <3>3. CASE Moves(i)
      <4>1. i.parent = None \/ Rooted(d, i.parent)
        BY <2>2, <3>1, <3>3 DEF Valid, ValidDepartment
      <4>2. i.parent \in existing \cup {None}
        <5>1. i.parent \in Departments \cup {None}
          BY JobFields
        <5>2. ASSUME i.parent \in Departments, Rooted(d, i.parent)
              PROVE  i.parent \in existing
          <6>1. PICK ring \in SUBSET Departments : ring = {i.parent}
            BY <5>2
          <6>2. \E x \in ring : x # d /\ Present(dept, x) /\ dept[x].parent \notin ring
            BY <5>2, <6>1 DEF Rooted
          <6> QED
            BY <5>2, <6>1, <6>2
        <5> QED
          BY <4>1, <5>1, <5>2
      <4>3. ASSUME NEW ring \in SUBSET existing, ring # {}
            PROVE  \E x \in ring : dept'[x].parent \notin ring
        <5>1. CASE d \notin ring
          <6>1. PICK x \in ring : dept[x].parent \notin ring
            BY <4>3 DEF HierarchySound
          <6> QED
            BY <1>4, <5>1, <6>1
        <5>2. CASE d \in ring /\ i.parent \notin ring
          BY <1>4, <5>2
        <5>3. CASE i.parent \in ring
          <6>1. i.parent # None /\ ring \in SUBSET Departments
            BY <5>3, DirectoryAssumption
          <6>2. PICK x \in ring : x # d /\ Present(dept, x) /\ dept[x].parent \notin ring
            BY <4>1, <5>3, <6>1 DEF Rooted
          <6> QED
            BY <1>4, <6>2
        <5> QED
          BY <5>1, <5>2, <5>3
      <4>4. \A x \in existing : dept'[x].parent \in existing \cup {None}
        BY <1>4, <3>1, <4>2 DEF HierarchySound
      <4> QED
        BY <3>1, <4>3, <4>4 DEF HierarchySound
    <3> QED
      BY <3>2, <3>3
  <2> QED
    BY <2>1, <2>2
<1> QED
  BY <1>1, <1>2, <1>3, <1>5

LEMMA RemovedSound ==
  ASSUME DirTypeOK, DirectorySound, NEW i \in Job, Valid(i), Removed(i)
  PROVE  DirectorySound'
<1> USE DEF DirTypeOK, DirectorySound, Present, Enabled, Set
<1>1. CASE i.op = "DeleteEmployee"
  <2>0. /\ UNCHANGED <<dept, pos, offers>> /\ session' = session \ {i.emp}
        /\ DOMAIN emp' = Employees
        /\ \A x \in Employees : x # i.emp => emp'[x] = emp[x]
        /\ i.emp \in Employees /\ emp'[i.emp].row = "deleted" /\ ~Leads(i.emp)
    BY <1>1 DEF Removed, NoEmployee, Valid, ValidAccount
  <2>1. LeadersSound'
    BY <2>0 DEF LeadersSound, LeaderAllowed, Leads
  <2>2. StaffedDepartmentsExist' /\ HeldPositionsUsable'
    BY <2>0 DEF StaffedDepartmentsExist, HeldPositionsUsable
  <2>3. HierarchySound' /\ OffersSound' /\ SessionsSound'
    BY <2>0 DEF HierarchySound, OffersSound, SessionsSound
  <2> QED
    BY <2>1, <2>2, <2>3
<1>2. CASE i.op = "DeleteDepartment"
  <2>0. /\ UNCHANGED <<emp, pos, session>>
        /\ DOMAIN dept' = Departments
        /\ \A x \in Departments : x # i.dept => dept'[x] = dept[x]
        /\ i.dept \in Departments /\ dept'[i.dept].row = "deleted"
        /\ offers' = {o \in offers : o[1] # i.dept}
        /\ Children(i.dept) = {} /\ Members(i.dept) = {}
    BY <1>2 DEF Removed, NoDepartment, Valid, ValidDepartment
  <2>1. LeadersSound' /\ SessionsSound'
    BY <2>0 DEF LeadersSound, LeaderAllowed, SessionsSound
  <2>2. StaffedDepartmentsExist'
    BY <2>0 DEF StaffedDepartmentsExist, Members
  <2>3. HeldPositionsUsable'
    BY <2>0 DEF HeldPositionsUsable, Members
  <2>4. OffersSound'
    BY <2>0 DEF OffersSound
  <2>5. HierarchySound'
    <3> DEFINE existing == {x \in Departments : Present(dept, x)}
    <3>1. existing' = existing \ {i.dept} /\ \A x \in existing' : dept'[x] = dept[x]
      BY <2>0
    <3>2. \A x \in existing : dept[x].parent # i.dept
      BY <2>0 DEF Children
    <3> QED
      BY <3>1, <3>2 DEF HierarchySound
  <2> QED
    BY <2>1, <2>2, <2>3, <2>4, <2>5
<1>3. CASE i.op = "DeletePosition"
  <2>0. /\ UNCHANGED <<emp, dept, session>>
        /\ DOMAIN pos' = Positions
        /\ \A x \in Positions : x # i.pos => pos'[x] = pos[x]
        /\ offers' = {o \in offers : o[2] # i.pos}
        /\ Holders(i.pos) = {}
    BY <1>3 DEF Removed, Valid, ValidPosition
  <2>1. LeadersSound' /\ StaffedDepartmentsExist' /\ HierarchySound' /\ SessionsSound'
    BY <2>0 DEF LeadersSound, LeaderAllowed, StaffedDepartmentsExist, HierarchySound, SessionsSound
  <2>2. HeldPositionsUsable'
    BY <2>0 DEF HeldPositionsUsable, Holders
  <2>3. OffersSound'
    BY <2>0 DEF OffersSound
  <2> QED
    BY <2>1, <2>2, <2>3
<1> QED
  BY <1>1, <1>2, <1>3 DEF Removed

LEMMA OfferedSound ==
  ASSUME DirTypeOK, DirectorySound, NEW i \in Job, Valid(i), NEW p \in Positions, Offered(i, p)
  PROVE  DirectorySound'
<1> USE DEF DirTypeOK, DirectorySound, Present, Enabled, Offered
<1>1. LeadersSound' /\ StaffedDepartmentsExist' /\ HierarchySound' /\ SessionsSound'
  BY DEF LeadersSound, LeaderAllowed, StaffedDepartmentsExist, HierarchySound, SessionsSound
<1>2. HeldPositionsUsable'
  <2> SUFFICES ASSUME NEW e \in Employees, Present(emp, e)
               PROVE  Enabled(pos', emp[e].pos) /\ <<emp[e].dept, emp[e].pos>> \in offers'
    BY DEF HeldPositionsUsable
  <2>1. emp[e].pos \in Positions /\ emp[e].dept \in Departments /\ emp[e].dept # None
    BY DirectoryAssumption DEF HeldPositionsUsable, StaffedDepartmentsExist
  <2>2. CASE emp[e].pos # p
    BY <2>1, <2>2 DEF HeldPositionsUsable
  <2>3. CASE emp[e].pos = p
    <3>1. e \in Holders(p) /\ i.op = "UpdatePosition" /\ i.pos = p
      BY <2>1, <2>3 DEF Holders, HeldPositionsUsable
    <3>2. emp[e].dept \in i.depts /\ i.status = "enabled"
      BY <2>1, <3>1, JobFields DEF Valid, ValidPosition, Statuses
    <3> QED
      BY <2>1, <2>3, <3>2
  <2> QED
    BY <2>2, <2>3
<1>3. OffersSound'
  BY JobFields DEF OffersSound, Valid, ValidPosition, DepartmentsExist
<1> QED
  BY <1>1, <1>2, <1>3

(* The other steps leave the tables alone, or end a session. *)
LEMMA ElsewhereSound ==
  ASSUME DirectorySound, UNCHANGED <<emp, dept, pos, offers>>, session' \subseteq session
  PROVE  DirectorySound'
  BY DEF DirectorySound, LeadersSound, StaffedDepartmentsExist, HeldPositionsUsable,
     HierarchySound, OffersSound, SessionsSound, LeaderAllowed, Enabled, Present

(* Whatever a valid job writes keeps the organisation sound. *)
LEMMA EffectSound ==
  ASSUME DirTypeOK, DirectorySound, NEW i \in Job, Valid(i), Effects(i)
  PROVE  DirectorySound'
<1>1. CASE Seated(i)
  <2>1. Present(emp, i.emp) => Enabled(emp, i.emp)
    BY <1>1 DEF Seated, Valid, ValidAccount
  <2> QED
    BY <1>1, <2>1 DEF Seated, DirectorySound, LeadersSound, StaffedDepartmentsExist,
       HeldPositionsUsable, HierarchySound, OffersSound, SessionsSound, LeaderAllowed, Enabled,
       Present
<1> QED
  BY <1>1, PlacedSound, RelabelledSound, ArrangedSound, RemovedSound, OfferedSound,
     ElsewhereSound DEF Effects

--------------------------------------------------------------------------------
(* Climbing from a parent that passed the walk leaves any set of departments it *)
(* is in, at one other than d.                                                  *)
LEMMA WalkLeaves ==
  ASSUME IsFiniteSet(Departments), HierarchySound, NEW d, NEW parent \in Departments,
         ParentAllowed(d, parent)
  PROVE  Rooted(d, parent)
<1> SUFFICES ASSUME NEW ring \in SUBSET Departments, parent \in ring
             PROVE  \E x \in ring : x # d /\ Present(dept, x) /\ dept[x].parent \notin ring
  BY DEF Rooted
<1> DEFINE height == Cardinality(Departments)
<1>1. height \in Nat
  BY FS_CardinalityType
<1>2. PICK up \in [0 .. height -> Departments \cup {None}] :
        /\ up[0] = parent /\ up[height] = None
        /\ \A n \in 0 .. height - 1 :
             IF up[n] = None THEN up[n + 1] = None
             ELSE up[n] # d /\ Present(dept, up[n]) /\ up[n + 1] = dept[up[n]].parent
  BY DEF ParentAllowed
<1> DEFINE met == {up[n] : n \in 0 .. height} \cap ring
<1>3. SUFFICES ASSUME \A x \in ring : x # d /\ Present(dept, x) => dept[x].parent \in ring
               PROVE  FALSE
  OBVIOUS
<1>4. ASSUME NEW x \in met
      PROVE  Present(dept, x) /\ dept[x].parent \in met
  <2>1. PICK n \in 0 .. height : x = up[n]
    OBVIOUS
  <2>2. x # None /\ n # height
    BY <1>2, <2>1, DirectoryAssumption
  <2>3. n \in 0 .. height - 1 /\ n + 1 \in 0 .. height
    BY <1>1, <2>2
  <2>4. x # d /\ Present(dept, x) /\ up[n + 1] = dept[x].parent
    BY <1>2, <2>1, <2>2, <2>3
  <2> QED
    BY <1>3, <2>3, <2>4
<1>5. parent \in met
  BY <1>1, <1>2
<1>6. met \in SUBSET {x \in Departments : Present(dept, x)}
  BY <1>4
<1> QED
  BY <1>4, <1>5, <1>6 DEF HierarchySound

(* A parent that passed the walk exists. *)
LEMMA ParentExists ==
  ASSUME IsFiniteSet(Departments), NEW d, NEW parent \in Departments, ParentAllowed(d, parent)
  PROVE  Present(dept, parent)
<1>1. Cardinality(Departments) \in Nat
  BY FS_CardinalityType
<1> QED
  BY <1>1, DirectoryAssumption DEF ParentAllowed

(* A validation that has just been made holds. *)
LEMMA CheckValid ==
  ASSUME IsFiniteSet(Departments), DirTypeOK, DirectorySound, NEW w \in Workers, Check(w)
  PROVE  \E j \in Job : Valid(j) /\ Begin(w, j)
<1> USE DEF DirTypeOK, Valid, ValidPlacement, ValidAccount, ValidDepartment, ValidPosition,
   Present, NoJob
<1>0. NoJob \in Job /\ DOMAIN emp = Employees /\ DOMAIN dept = Departments
  BY DEF Job, Statuses
<1>1. ASSUME NEW d \in Departments, NEW p \in Positions, CreateEmployeeCheck(w, d, p)
      PROVE  \E j \in Job : Valid(j) /\ Begin(w, j)
  <2> DEFINE j == [NoJob EXCEPT !.op = "CreateEmployee", !.dept = d, !.pos = p]
  <2>1. j \in Job /\ Valid(j)
    BY <1>0, <1>1 DEF CreateEmployeeCheck, PlacementAllowed, Usable, Enabled, Job, Handlers
  <2> QED
    BY <1>1, <2>1 DEF CreateEmployeeCheck
<1>2. ASSUME NEW d \in Departments, NEW p \in Positions, NEW e \in Employees,
             UpdateEmployeeCheck(w, e, d, p)
      PROVE  \E j \in Job : Valid(j) /\ Begin(w, j)
  <2> DEFINE j == [NoJob EXCEPT !.op = "UpdateEmployee", !.emp = e, !.dept = d,
                                !.pos = p, !.status = KeptStatus(e)]
  <2>1. KeptStatus(e) = emp[e].status /\ emp[e].status \in Statuses
    BY DEF KeptStatus, Employee
  <2>2. j \in Job /\ j.op = "UpdateEmployee" /\ j.emp = e /\ j.dept = d /\ j.pos = p
        /\ j.status = emp[e].status
    BY <1>0, <2>1 DEF Job, Handlers
  <2>3. Valid(j)
    BY <1>0, <1>2, <2>2 DEF UpdateEmployeeCheck, PlacementAllowed, Usable, Enabled
  <2> QED
    BY <1>2, <2>2, <2>3 DEF UpdateEmployeeCheck
<1>3. ASSUME NEW e \in Employees, NEW status \in Statuses, SetEmployeeEnabledCheck(w, e, status)
      PROVE  \E j \in Job : Valid(j) /\ Begin(w, j)
  <2> DEFINE j == [NoJob EXCEPT !.op = "SetEmployeeEnabled", !.emp = e, !.status = status]
  <2>1. j \in Job /\ Valid(j)
    BY <1>0, <1>3 DEF SetEmployeeEnabledCheck, Job, Handlers
  <2> QED
    BY <1>3, <2>1 DEF SetEmployeeEnabledCheck
<1>4. ASSUME NEW e \in Employees, DeleteEmployeeCheck(w, e)
      PROVE  \E j \in Job : Valid(j) /\ Begin(w, j)
  <2> DEFINE j == [NoJob EXCEPT !.op = "DeleteEmployee", !.emp = e]
  <2>1. j \in Job /\ Valid(j)
    BY <1>0, <1>4 DEF DeleteEmployeeCheck, Job, Handlers
  <2> QED
    BY <1>4, <2>1 DEF DeleteEmployeeCheck
<1>5. ASSUME NEW e \in Employees, LoginCheck(w, e)
      PROVE  \E j \in Job : Valid(j) /\ Begin(w, j)
  <2> DEFINE j == [NoJob EXCEPT !.op = "Login", !.emp = e]
  <2>1. j \in Job /\ Valid(j)
    BY <1>0, <1>5 DEF LoginCheck, Job, Handlers
  <2> QED
    BY <1>5, <2>1 DEF LoginCheck
<1>6. ASSUME NEW parent \in Departments \cup {None}, NEW status \in Statuses,
             CreateDepartmentCheck(w, parent, status)
      PROVE  \E j \in Job : Valid(j) /\ Begin(w, j)
  <2> DEFINE j == [NoJob EXCEPT !.op = "CreateDepartment", !.parent = parent, !.status = status]
  <2>1. parent = None \/ Present(dept, parent)
    BY <1>6, ParentExists DEF CreateDepartmentCheck
  <2>2. j \in Job /\ Valid(j)
    BY <1>0, <2>1 DEF Job, Handlers
  <2> QED
    BY <1>6, <2>2 DEF CreateDepartmentCheck
<1>7. ASSUME NEW parent \in Departments \cup {None}, NEW status \in Statuses,
             NEW d \in Departments, NEW leader \in Employees \cup {None},
             UpdateDepartmentCheck(w, d, parent, leader, status)
      PROVE  \E j \in Job : Valid(j) /\ Begin(w, j)
  <2> DEFINE j == [NoJob EXCEPT !.op = "UpdateDepartment", !.dept = d, !.parent = parent,
                                !.leader = leader, !.status = status]
  <2>1. parent = None \/ Rooted(d, parent)
    BY <1>7, WalkLeaves DEF UpdateDepartmentCheck, DirectorySound
  <2>2. j \in Job /\ Valid(j)
    BY <1>0, <1>7, <2>1 DEF UpdateDepartmentCheck, Job, Handlers
  <2> QED
    BY <1>7, <2>2 DEF UpdateDepartmentCheck
<1>8. ASSUME NEW d \in Departments, DeleteDepartmentCheck(w, d)
      PROVE  \E j \in Job : Valid(j) /\ Begin(w, j)
  <2> DEFINE j == [NoJob EXCEPT !.op = "DeleteDepartment", !.dept = d]
  <2>1. j \in Job /\ Valid(j)
    BY <1>0, <1>8 DEF DeleteDepartmentCheck, Job, Handlers
  <2> QED
    BY <1>8, <2>1 DEF DeleteDepartmentCheck
<1>9. ASSUME NEW ds \in SUBSET Departments, NEW status \in Statuses,
             CreatePositionCheck(w, ds, status)
      PROVE  \E j \in Job : Valid(j) /\ Begin(w, j)
  <2> DEFINE j == [NoJob EXCEPT !.op = "CreatePosition", !.depts = ds, !.status = status]
  <2>1. j \in Job /\ Valid(j)
    BY <1>0, <1>9 DEF CreatePositionCheck, Job, Handlers
  <2> QED
    BY <1>9, <2>1 DEF CreatePositionCheck
<1>10. ASSUME NEW ds \in SUBSET Departments, NEW status \in Statuses, NEW p \in Positions,
              UpdatePositionCheck(w, p, ds, status)
       PROVE  \E j \in Job : Valid(j) /\ Begin(w, j)
  <2> DEFINE j == [NoJob EXCEPT !.op = "UpdatePosition", !.pos = p, !.depts = ds,
                                !.status = status]
  <2>1. j \in Job /\ Valid(j)
    BY <1>0, <1>10 DEF UpdatePositionCheck, Job, Handlers
  <2> QED
    BY <1>10, <2>1 DEF UpdatePositionCheck
<1>11. ASSUME NEW p \in Positions, DeletePositionCheck(w, p)
       PROVE  \E j \in Job : Valid(j) /\ Begin(w, j)
  <2> DEFINE j == [NoJob EXCEPT !.op = "DeletePosition", !.pos = p]
  <2>1. j \in Job /\ Valid(j)
    BY <1>0, <1>11 DEF DeletePositionCheck, Job, Handlers
  <2> QED
    BY <1>11, <2>1 DEF DeletePositionCheck
<1> HIDE DEF Valid
<1> QED
  BY <1>1, <1>2, <1>3, <1>4, <1>5, <1>6, <1>7, <1>8, <1>9, <1>10, <1>11 DEF Check

(* A handler that is idle clashes with none. *)
LEMMA IdleApart == (\A w \in Workers : job[w] = NoJob) => KeptApart
  BY DEF KeptApart, Clash, Unseats, Deposes, Overtakes, Uproots, Entangles, Moves, NoJob

(* The behaviours of the directory in which handlers are kept apart. *)
LEMMA ApartIsDirectory == ApartSpec => DirSpec /\ []KeptApart
<1>1. DirInit => KeptApart
  BY IdleApart DEF DirInit
<1>2. [DirNext /\ KeptApart']_dirVars => [DirNext]_dirVars
  OBVIOUS
<1>3. KeptApart /\ [DirNext /\ KeptApart']_dirVars => KeptApart'
  BY DEF KeptApart, dirVars, Clash, Unseats, Deposes, Overtakes, Uproots, Entangles, Moves
<1> QED
  BY <1>1, <1>2, <1>3, PTL DEF ApartSpec, DirSpec

(* A handler that is idle has validated nothing. *)
LEMMA IdleValid == Valid(NoJob)
  BY DEF Valid, ValidPlacement, ValidAccount, ValidDepartment, ValidPosition, NoJob

(* The validation of one worker, after a step that keeps it. *)
LEMMA ValidNext ==
  ASSUME NEW w \in Workers, NEW j, job'[w] = j, Valid(j)'
  PROVE  Valid(job[w])'
  BY DEF Valid, ValidPlacement, ValidAccount, ValidDepartment, ValidPosition, Usable, Leads,
     LeaderAllowed, Moves, Rooted, Children, Members, Holders, DepartmentsExist, Present, Enabled

(* With handlers kept apart, what each has validated stays true until it writes. *)
LEMMA ValidKept ==
  ASSUME IsFiniteSet(Departments), DirTypeOK, DirectorySound, AllValid, KeptApart,
         [DirNext]_dirVars
  PROVE  AllValid'
<1> SUFFICES ASSUME NEW v \in Workers
             PROVE  Valid(job[v])'
  BY DEF AllValid
<1>0. Valid(job[v]) /\ job \in [Workers -> Job]
  BY DEF AllValid, DirTypeOK
<1>1. ASSUME NEW j \in Job, Valid(j), UNCHANGED <<emp, dept, pos, offers>>, job'[v] = j
      PROVE  Valid(job[v])'
  BY <1>1, SameTablesValid, ValidNext
<1>2. CASE UNCHANGED dirVars
  BY <1>0, <1>1, <1>2 DEF dirVars
<1>3. ASSUME NEW w \in Workers, Check(w)
      PROVE  Valid(job[v])'
  <2>1. PICK j \in Job : Valid(j) /\ Begin(w, j)
    BY <1>3, CheckValid
  <2>2. job'[v] = IF v = w THEN j ELSE job[v]
    BY <1>0, <2>1 DEF Begin
  <2> QED
    BY <1>0, <1>1, <2>1, <2>2 DEF Begin, tables
<1>4. ASSUME NEW w \in Workers, Write(w) \/ Fail(w)
      PROVE  Valid(job[v])'
  <2>1. job' = [job EXCEPT ![w] = NoJob]
    BY <1>4 DEF Write, Fail, Done, CreateEmployee, UpdateEmployee, SetEmployeeEnabled,
       DeleteEmployee, Login, CreateDepartment, UpdateDepartment, DeleteDepartment,
       CreatePosition, UpdatePosition, DeletePosition
  <2>2. CASE v = w
    <3>1. Valid(NoJob)'
      BY IdleValid, PTL
    <3> QED
      BY <1>0, <2>1, <2>2, <3>1, ValidNext
  <2>3. CASE v # w /\ Write(w)
    <3>1. PICK i \in Job, j \in Job : i = job[w] /\ j = job[v]
      BY <1>0
    <3>2. Valid(i) /\ Valid(j) /\ ~Clash(i, j) /\ ~Clash(j, i) /\ Effects(i)
      BY <2>3, <3>1, WriteEffects DEF KeptApart, AllValid
    <3>3. Valid(j)'
      BY <3>2, EffectValid
    <3>4. job'[v] = j
      BY <1>0, <2>1, <2>3, <3>1
    <3> QED
      BY <3>3, <3>4, ValidNext
  <2>4. CASE v # w /\ Fail(w)
    BY <1>0, <1>1, <2>1, <2>4 DEF Fail, tables
  <2> QED
    BY <1>4, <2>2, <2>3, <2>4
<1>5. ASSUME NEW e \in Employees, Logout(e) \/ ExchangeCode(e)
      PROVE  Valid(job[v])'
  BY <1>0, <1>1, <1>5 DEF Logout, ExchangeCode
<1> QED
  BY <1>2, <1>3, <1>4, <1>5 DEF DirNext

(* Every step keeps the organisation sound, if what is written was valid. *)
LEMMA DirectoryStepSound ==
  ASSUME DirTypeOK, DirectorySound, AllValid, [DirNext]_dirVars
  PROVE  DirectorySound'
<1>1. CASE UNCHANGED dirVars
  BY <1>1, ElsewhereSound DEF dirVars
<1>2. ASSUME NEW w \in Workers, Check(w) \/ Fail(w)
      PROVE  DirectorySound'
  BY <1>2, CheckWritesNothing, ElsewhereSound DEF Fail, tables
<1>3. ASSUME NEW w \in Workers, Write(w)
      PROVE  DirectorySound'
  <2>1. PICK i \in Job : i = job[w]
    BY DEF DirTypeOK
  <2>2. Valid(i) /\ Effects(i)
    BY <1>3, <2>1, WriteEffects DEF AllValid
  <2> QED
    BY <2>2, EffectSound
<1>4. ASSUME NEW e \in Employees, Logout(e) \/ ExchangeCode(e)
      PROVE  DirectorySound'
  BY <1>4, ElsewhereSound DEF Logout, ExchangeCode
<1> QED
  BY <1>1, <1>2, <1>3, <1>4 DEF DirNext

(* What the tables promise, and what each handler has validated, holds throughout. *)
LEMMA SoundThroughout ==
  IsFiniteSet(Departments) => (ApartSpec /\ DirectorySound => [](DirectorySound /\ AllValid))
<1> SUFFICES ASSUME IsFiniteSet(Departments)
             PROVE  ApartSpec /\ DirectorySound => [](DirectorySound /\ AllValid)
  OBVIOUS
<1>1. DirInit => AllValid
  BY IdleValid DEF DirInit, AllValid
<1>2. DirTypeOK /\ DirectorySound /\ AllValid /\ KeptApart /\ [DirNext]_dirVars =>
        DirectorySound' /\ AllValid'
  BY ValidKept, DirectoryStepSound
<1> QED
  BY <1>1, <1>2, ApartIsDirectory, DirTyped, PTL DEF DirSpec

(* Keeping these handlers apart is all it takes, however the others overlap: an *)
(* organisation that is sound at first stays so: leaders, departments,          *)
(* positions, tree, offers and sessions.                                        *)
THEOREM OrganisationStaysSound ==
  IsFiniteSet(Departments) => (ApartSpec /\ DirectorySound => []DirectorySound)
  BY SoundThroughout, PTL
================================================================================
