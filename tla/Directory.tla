------------------------------- MODULE Directory -------------------------------
(* The people directory: employees, departments, positions, and the handlers   *)
(* by which HR changes them (service.go, position.go, hr.go).  A handler first *)
(* validates its input with reads that are statements of their own, and then   *)
(* writes in one transaction: XCheck is the validation, X the transaction, and *)
(* job[w] carries what the handler of worker w read in between.  With one      *)
(* worker requests run one after the other; with two they interleave.          *)
(* A validation that fails answers an error and changes nothing: no step.      *)
(* A definition called Mutant... is a slip the code does not make: no action   *)
(* uses it, it is there to try whether the properties would notice.            *)
EXTENDS Naturals, FiniteSets

CONSTANTS Employees,    \* employee ids; AUTOINCREMENT, never used twice
          Departments,  \* department ids (random tokens, never used twice)
          Positions,    \* position ids other than the administrator's own
          Builtin,      \* the seeded positions: neither deleted nor disabled
          Workers,      \* the requests the server may serve at the same time
          Ops,          \* the handlers that clients call in this instance
          None,         \* the empty string of an unset column
          Emp0, Dept0, Pos0, Offers0  \* the organisation an instance starts from

ASSUME DirectoryAssumption ==
  /\ Builtin \subseteq Positions
  /\ None \notin Employees \cup Departments \cup Positions

VARIABLES emp,      \* employees: row, status, department, position
          dept,     \* departments: row, status, leader, parent
          pos,      \* positions: row, status
          offers,   \* department_positions: the pairs <<department, position>>
          session,  \* employees with a row and a session row that is not revoked
          token,    \* employees with an OAuth token row
          job       \* what each worker's handler has read and not yet written

tables == <<emp, dept, pos, offers, session, token>>
dirVars == <<emp, dept, pos, offers, session, token, job>>

Rows == {"unused", "present", "deleted"}
Statuses == {"enabled", "disabled"}

Employee == [row : Rows, status : Statuses,
             dept : Departments \cup {None}, pos : Positions \cup {None}]
Department == [row : Rows, status : Statuses,
               leader : Employees \cup {None}, parent : Departments \cup {None}]
Position == [row : Rows, status : Statuses]

Handlers == {"CreateEmployee", "UpdateEmployee", "SetEmployeeEnabled",
             "DeleteEmployee", "CreateDepartment", "UpdateDepartment",
             "DeleteDepartment", "CreatePosition", "UpdatePosition",
             "DeletePosition", "Login"}

Job == [op : Handlers \cup {"none"}, emp : Employees \cup {None},
        dept : Departments \cup {None}, pos : Positions \cup {None},
        status : Statuses, leader : Employees \cup {None},
        parent : Departments \cup {None}, depts : SUBSET Departments]

NoEmployee == [row |-> "unused", status |-> "enabled", dept |-> None, pos |-> None]
NoDepartment == [row |-> "unused", status |-> "enabled", leader |-> None, parent |-> None]
NoPosition == [row |-> "unused", status |-> "enabled"]
NoJob == [op |-> "none", emp |-> None, dept |-> None, pos |-> None,
          status |-> "enabled", leader |-> None, parent |-> None, depts |-> {}]

DirTypeOK ==
  /\ emp \in [Employees -> Employee]
  /\ dept \in [Departments -> Department]
  /\ pos \in [Positions -> Position]
  /\ offers \subseteq Departments \X Positions
  /\ session \subseteq Employees
  /\ token \subseteq Employees
  /\ job \in [Workers -> Job]
  /\ \A w \in Workers : job[w].op = "UpdatePosition" => job[w].pos \in Positions

ASSUME InitialAssumption ==
  /\ Emp0 \in [Employees -> Employee]
  /\ Dept0 \in [Departments -> Department]
  /\ Pos0 \in [Positions -> Position]
  /\ Offers0 \subseteq Departments \X Positions
  /\ \A e \in Employees : Emp0[e].row # "deleted"
  /\ \A d \in Departments : Dept0[d].row # "deleted"
  /\ \A p \in Positions : Pos0[p].row # "deleted"

--------------------------------------------------------------------------------
(* The queries the validations are made of. *)

Present(table, id) == id \in DOMAIN table /\ table[id].row = "present"
Enabled(table, id) == Present(table, id) /\ table[id].status = "enabled"

MutantMembers(d) == {}
MutantHolders(p) == {}
Members(d) == {e \in Employees : Present(emp, e) /\ emp[e].dept = d}
Holders(p) == {e \in Employees : Present(emp, e) /\ emp[e].pos = p}
Children(d) == {c \in Departments : Present(dept, c) /\ dept[c].parent = d}
MutantLeads(e) == FALSE
Leads(e) == \E d \in Departments : Present(dept, d) /\ dept[d].leader = e

MutantPlacementAllowed(d, p) == Enabled(dept, d) /\ Enabled(pos, p)
(* resolveDepartment and resolvePosition for an ordinary employee. *)
PlacementAllowed(d, p) == Enabled(dept, d) /\ Enabled(pos, p) /\ <<d, p>> \in offers

MutantParentAllowed(d, parent) == parent = None \/ (parent # d /\ Present(dept, parent))

(* validateDepartmentParent: the walk up from the new parent meets only rows    *)
(* that exist, not the department itself, and comes to an end (a walk that      *)
(* meets no department twice has at most as many steps as there are ids).       *)
ParentAllowed(d, parent) ==
  LET height == Cardinality(Departments) IN
  \E up \in [0 .. height -> Departments \cup {None}] :
    /\ up[0] = parent /\ up[height] = None
    /\ \A n \in 0 .. height - 1 :
         IF up[n] = None THEN up[n + 1] = None
         ELSE up[n] # d /\ Present(dept, up[n]) /\ up[n + 1] = dept[up[n]].parent

(* validateDepartmentLeader *)
LeaderAllowed(d, leader) == leader = None \/ (Enabled(emp, leader) /\ emp[leader].dept = d)

Begin(w, j) == /\ j.op \in Ops
               /\ job[w] = NoJob
               /\ job' = [job EXCEPT ![w] = j]
               /\ UNCHANGED tables

Running(w, op) == job[w].op = op
Done(w) == job' = [job EXCEPT ![w] = NoJob]

Set(table, id, row) == [table EXCEPT ![id] = row]

--------------------------------------------------------------------------------
(* Employees *)

CreateEmployeeCheck(w, d, p) ==
  /\ PlacementAllowed(d, p)
  /\ Begin(w, [NoJob EXCEPT !.op = "CreateEmployee", !.dept = d, !.pos = p])

CreateEmployee(w) ==
  /\ Running(w, "CreateEmployee")
  /\ \E e \in Employees :
       /\ emp[e].row = "unused"
       /\ emp' = Set(emp, e, [row |-> "present", status |-> "enabled",
                              dept |-> job[w].dept, pos |-> job[w].pos])
  /\ Done(w)
  /\ UNCHANGED <<dept, pos, offers, session, token>>

MutantKeptStatus(e) == "enabled"
(* The form carries no status: the one just read is kept and written back. *)
KeptStatus(e) == emp[e].status

UpdateEmployeeCheck(w, e, d, p) ==
  /\ Present(emp, e)
  /\ PlacementAllowed(d, p)
  /\ emp[e].dept # d => ~Leads(e)
  /\ Begin(w, [NoJob EXCEPT !.op = "UpdateEmployee", !.emp = e, !.dept = d,
                            !.pos = p, !.status = KeptStatus(e)])

MutantUpdateEmployee(w) ==
  /\ Running(w, "UpdateEmployee")
  /\ emp' = Set(emp, job[w].emp, [row |-> "present", status |-> job[w].status,
                                  dept |-> job[w].dept, pos |-> job[w].pos])
  /\ Done(w)
  /\ UNCHANGED <<dept, pos, offers, session, token>>

(* An UPDATE of a row that is gone matches nothing and is no error. *)
UpdateEmployee(w) ==
  LET e == job[w].emp IN
  /\ Running(w, "UpdateEmployee")
  /\ emp' = IF Present(emp, e)
            THEN Set(emp, e, [row |-> "present", status |-> job[w].status,
                              dept |-> job[w].dept, pos |-> job[w].pos])
            ELSE emp
  /\ Done(w)
  /\ UNCHANGED <<dept, pos, offers, session, token>>

SetEmployeeEnabledCheck(w, e, status) ==
  /\ Present(emp, e)
  /\ status = "disabled" => ~Leads(e)
  /\ Begin(w, [NoJob EXCEPT !.op = "SetEmployeeEnabled", !.emp = e, !.status = status])

MutantSetEmployeeEnabled(w) ==
  /\ Running(w, "SetEmployeeEnabled")
  /\ emp' = [emp EXCEPT ![job[w].emp].status = job[w].status]
  /\ Done(w)
  /\ UNCHANGED <<dept, pos, offers, session, token>>

(* Disabling revokes the open sessions; the OAuth tokens stay. *)
SetEmployeeEnabled(w) ==
  LET e == job[w].emp IN
  /\ Running(w, "SetEmployeeEnabled")
  /\ emp' = IF Present(emp, e) THEN [emp EXCEPT ![e].status = job[w].status] ELSE emp
  /\ session' = IF job[w].status = "disabled" THEN session \ {e} ELSE session
  /\ Done(w)
  /\ UNCHANGED <<dept, pos, offers, token>>

DeleteEmployeeCheck(w, e) ==
  /\ Present(emp, e)
  /\ ~Leads(e)
  /\ Begin(w, [NoJob EXCEPT !.op = "DeleteEmployee", !.emp = e])

(* The sessions go with the row (OnDelete:CASCADE), or stay behind as rows that *)
(* authenticate nobody, on a pooled connection where the foreign keys are off;  *)
(* the tokens are left as they are.                                             *)
DeleteEmployee(w) ==
  LET e == job[w].emp IN
  /\ Running(w, "DeleteEmployee")
  /\ emp' = Set(emp, e, [NoEmployee EXCEPT !.row = "deleted"])
  /\ session' = session \ {e}
  /\ Done(w)
  /\ UNCHANGED <<dept, pos, offers, token>>

(* Find the enabled account, then insert the session: two statements. *)
LoginCheck(w, e) ==
  /\ Enabled(emp, e)
  /\ Begin(w, [NoJob EXCEPT !.op = "Login", !.emp = e])

Login(w) ==
  LET e == job[w].emp IN
  /\ Running(w, "Login")
  /\ session' = IF Present(emp, e) THEN session \cup {e} ELSE session
  /\ Done(w)
  /\ UNCHANGED <<emp, dept, pos, offers, token>>

(* Logout, or the end of a session's lifetime, of the last one e had. *)
Logout(e) ==
  /\ e \in session
  /\ session' = session \ {e}
  /\ UNCHANGED <<emp, dept, pos, offers, token, job>>

(* ExchangeCode: the employee is checked in the transaction that inserts the token. *)
ExchangeCode(e) ==
  /\ "ExchangeCode" \in Ops
  /\ Enabled(emp, e)
  /\ token' = token \cup {e}
  /\ UNCHANGED <<emp, dept, pos, offers, session, job>>

--------------------------------------------------------------------------------
(* Departments *)

(* The id is drawn after the validation, so nobody is in the new department and *)
(* only the empty leader passes; no department is its own ancestor yet.  The    *)
(* walk up the tree is written last, as the dearest to evaluate: a Check is one *)
(* step, so the order of its reads tells nothing.                               *)
CreateDepartmentCheck(w, parent, status) ==
  /\ Begin(w, [NoJob EXCEPT !.op = "CreateDepartment", !.parent = parent, !.status = status])
  /\ ParentAllowed(None, parent)

CreateDepartment(w) ==
  /\ Running(w, "CreateDepartment")
  /\ \E d \in Departments :
       /\ dept[d].row = "unused"
       /\ dept' = Set(dept, d, [row |-> "present", status |-> job[w].status,
                                leader |-> None, parent |-> job[w].parent])
  /\ Done(w)
  /\ UNCHANGED <<emp, pos, offers, session, token>>

UpdateDepartmentCheck(w, d, parent, leader, status) ==
  /\ Present(dept, d)
  /\ LeaderAllowed(d, leader)
  /\ Begin(w, [NoJob EXCEPT !.op = "UpdateDepartment", !.dept = d, !.parent = parent,
                            !.leader = leader, !.status = status])
  /\ ParentAllowed(d, parent)

UpdateDepartment(w) ==
  LET d == job[w].dept IN
  /\ Running(w, "UpdateDepartment")
  /\ dept' = IF Present(dept, d)
             THEN Set(dept, d, [row |-> "present", status |-> job[w].status,
                                leader |-> job[w].leader, parent |-> job[w].parent])
             ELSE dept
  /\ Done(w)
  /\ UNCHANGED <<emp, pos, offers, session, token>>

DeleteDepartmentCheck(w, d) ==
  /\ Present(dept, d)
  /\ Children(d) = {}
  /\ Members(d) = {}
  /\ Begin(w, [NoJob EXCEPT !.op = "DeleteDepartment", !.dept = d])

MutantDeleteDepartment(w) ==
  /\ Running(w, "DeleteDepartment")
  /\ dept' = Set(dept, job[w].dept, [NoDepartment EXCEPT !.row = "deleted"])
  /\ Done(w)
  /\ UNCHANGED <<emp, pos, offers, session, token>>

DeleteDepartment(w) ==
  LET d == job[w].dept IN
  /\ Running(w, "DeleteDepartment")
  /\ offers' = {o \in offers : o[1] # d}
  /\ dept' = Set(dept, d, [NoDepartment EXCEPT !.row = "deleted"])
  /\ Done(w)
  /\ UNCHANGED <<emp, pos, session, token>>

--------------------------------------------------------------------------------
(* Positions *)

DepartmentsExist(ds) == \A d \in ds : Present(dept, d)

CreatePositionCheck(w, ds, status) ==
  /\ DepartmentsExist(ds)
  /\ Begin(w, [NoJob EXCEPT !.op = "CreatePosition", !.depts = ds, !.status = status])

CreatePosition(w) ==
  /\ Running(w, "CreatePosition")
  /\ \E p \in Positions \ Builtin :
       /\ pos[p].row = "unused"
       /\ pos' = Set(pos, p, [row |-> "present", status |-> job[w].status])
       /\ offers' = offers \cup (job[w].depts \X {p})
  /\ Done(w)
  /\ UNCHANGED <<emp, dept, session, token>>

UpdatePositionCheck(w, p, ds, status) ==
  /\ Present(pos, p)
  /\ p \in Builtin => status = "enabled"
  /\ DepartmentsExist(ds)
  /\ status = "disabled" => Holders(p) = {}
  /\ {emp[e].dept : e \in Holders(p)} \ {None} \subseteq ds
  /\ Begin(w, [NoJob EXCEPT !.op = "UpdatePosition", !.pos = p, !.depts = ds, !.status = status])

(* The relations are replaced whether or not the row is still there. *)
UpdatePosition(w) ==
  LET p == job[w].pos IN
  /\ Running(w, "UpdatePosition")
  /\ pos' = IF Present(pos, p) THEN [pos EXCEPT ![p].status = job[w].status] ELSE pos
  /\ offers' = {o \in offers : o[2] # p} \cup (job[w].depts \X {p})
  /\ Done(w)
  /\ UNCHANGED <<emp, dept, session, token>>

DeletePositionCheck(w, p) ==
  /\ Present(pos, p)
  /\ p \notin Builtin
  /\ Holders(p) = {}
  /\ Begin(w, [NoJob EXCEPT !.op = "DeletePosition", !.pos = p])

DeletePosition(w) ==
  LET p == job[w].pos IN
  /\ Running(w, "DeletePosition")
  /\ offers' = {o \in offers : o[2] # p}
  /\ pos' = Set(pos, p, [NoPosition EXCEPT !.row = "deleted"])
  /\ Done(w)
  /\ UNCHANGED <<emp, dept, session, token>>

--------------------------------------------------------------------------------
(* A write that fails: the transaction finds the database busy and rolls back,  *)
(* or the process stops before it commits.  The worker forgets the request.     *)
Fail(w) == /\ job[w] # NoJob
           /\ Done(w)
           /\ UNCHANGED tables

Check(w) ==
  \/ \E d \in Departments, p \in Positions :
       \/ CreateEmployeeCheck(w, d, p)
       \/ \E e \in Employees : UpdateEmployeeCheck(w, e, d, p)
  \/ \E e \in Employees :
       \/ \E status \in Statuses : SetEmployeeEnabledCheck(w, e, status)
       \/ DeleteEmployeeCheck(w, e)
       \/ LoginCheck(w, e)
  \/ \E parent \in Departments \cup {None}, status \in Statuses :
       \/ CreateDepartmentCheck(w, parent, status)
       \/ \E d \in Departments, leader \in Employees \cup {None} :
            UpdateDepartmentCheck(w, d, parent, leader, status)
  \/ \E d \in Departments : DeleteDepartmentCheck(w, d)
  \/ \E ds \in SUBSET Departments, status \in Statuses :
       \/ CreatePositionCheck(w, ds, status)
       \/ \E p \in Positions : UpdatePositionCheck(w, p, ds, status)
  \/ \E p \in Positions : DeletePositionCheck(w, p)

Write(w) ==
  \/ CreateEmployee(w)
  \/ UpdateEmployee(w)
  \/ SetEmployeeEnabled(w)
  \/ DeleteEmployee(w)
  \/ Login(w)
  \/ CreateDepartment(w)
  \/ UpdateDepartment(w)
  \/ DeleteDepartment(w)
  \/ CreatePosition(w)
  \/ UpdatePosition(w)
  \/ DeletePosition(w)

DirInit == /\ emp = Emp0
           /\ dept = Dept0
           /\ pos = Pos0
           /\ offers = Offers0
           /\ session = {e \in Employees : Enabled(Emp0, e)}
           /\ token = {}
           /\ job = [w \in Workers |-> NoJob]

DirNext == \/ \E w \in Workers : Check(w) \/ Write(w) \/ Fail(w)
           \/ \E e \in Employees : Logout(e) \/ ExchangeCode(e)

DirSpec == DirInit /\ [][DirNext]_dirVars
--------------------------------------------------------------------------------
(* What the validations are there for.  Nothing holds a validation to its       *)
(* transaction, so all but the last hold only where no other handler comes      *)
(* between the two that can spoil them (DirectoryConflicts).                    *)

(* A department's leader is an enabled employee of that department, as the      *)
(* error of validateDepartmentLeader says.                                      *)
LeadersSound ==
  \A d \in Departments : Present(dept, d) => LeaderAllowed(d, dept[d].leader)

(* A department with employees is not deleted (README: departments that still   *)
(* have employees cannot be deleted).                                           *)
StaffedDepartmentsExist ==
  \A e \in Employees : Present(emp, e) => Present(dept, emp[e].dept)

(* A position with employees is not deleted, not disabled, and stays offered in *)
(* the departments where it is held (README, the section on positions).         *)
HeldPositionsUsable ==
  \A e \in Employees : Present(emp, e) =>
    Enabled(pos, emp[e].pos) /\ <<emp[e].dept, emp[e].pos>> \in offers

(* Climbing from any department meets existing departments and reaches the top: *)
(* every parent exists, and no departments have all their parents among them.   *)
HierarchySound ==
  LET existing == {d \in Departments : Present(dept, d)} IN
  /\ \A d \in existing : dept[d].parent \in existing \cup {None}
  /\ \A ring \in SUBSET existing : ring # {} => \E d \in ring : dept[d].parent \notin ring

(* Position relations name a department and a position that exist. *)
OffersSound == \A o \in offers : Present(dept, o[1]) /\ Present(pos, o[2])

(* An employee's status is changed by SetEmployeeEnabled only: UpdateEmployee   *)
(* reads the status it finds and writes that one back.                          *)
StatusKept ==
  [][\A e \in Employees :
       Present(emp, e) /\ emp'[e].row = "present" /\ emp'[e].status # emp[e].status =>
         \E w \in Workers : /\ Running(w, "SetEmployeeEnabled")
                            /\ job[w].emp = e
                            /\ job[w].status = emp'[e].status]_dirVars

(* Nobody who is disabled or gone holds a session that AuthenticateSession      *)
(* could accept again after the account is re-enabled.                          *)
SessionsSound == \A e \in session : Enabled(emp, e)

(* What the tables promise each other. *)
DirectorySound == /\ LeadersSound
                  /\ StaffedDepartmentsExist
                  /\ HeldPositionsUsable
                  /\ HierarchySound
                  /\ OffersSound
                  /\ SessionsSound

(* A row that was deleted never comes back: a handler that read it before the   *)
(* deletion updates nothing.                                                    *)
NoResurrection ==
  [][/\ \A e \in Employees : emp[e].row = "deleted" => emp'[e] = emp[e]
     /\ \A d \in Departments : dept[d].row = "deleted" => dept'[d] = dept[d]
     /\ \A p \in Positions : pos[p].row = "deleted" => pos'[p] = pos[p]]_dirVars
================================================================================
