-------------------------------- MODULE Startup --------------------------------
(* store.Open: what the server does to its database each time it starts, before *)
(* it serves the first request.  Legacy texts become departments and positions, *)
(* the catalogue and the administrator are seeded, legacy departures become     *)
(* approvals.  Every write is a statement or a small transaction of its own, so *)
(* a crash leaves the work half done for the next start to finish; and Open     *)
(* runs again at every restart over what people changed in between.             *)
(* A definition called Mutant... is a slip the code does not make: no action    *)
(* uses it, it is there to try whether the properties would notice.             *)
EXTENDS ApprovalRows, FiniteSets

CONSTANTS Employees,   \* employee ids other than the administrator's
          Texts,       \* what the free-text columns hold
          Names,       \* the texts without blanks around them
          Keys,        \* names in lower case
          None,        \* the empty text, the unset id
          Trim,        \* strings.TrimSpace, on Texts \cup {None}
          Lower,       \* strings.ToLower, on Names
          SqlLower,    \* LOWER of SQLite, which folds the letters A to Z only
          Managed,     \* ids of departments made by HR
          Catalogue,   \* commonPositions: the name of each seeded position
          General,     \* the seeded position for those without a title; builtin
          NewPositions,  \* ids of positions made by HR
          Departures,  \* ids of the legacy departure requests
          Clients,     \* OAuth clients of the configuration
          MaxStarts,   \* bound: how often the server is started
          MaxChanges,  \* bound: how many changes people make
          Emp0,        \* what the employees table of the old version may hold
          DeptName0    \* the departments there are already

ASSUME StartupAssumption ==
  /\ Names \subseteq Texts /\ None \notin Texts
  /\ Trim \in [Texts \cup {None} -> Names \cup {None}]
  /\ Trim[None] = None /\ \A n \in Names : Trim[n] = n
  /\ Lower \in [Names -> Keys] /\ SqlLower \in [Names -> Keys]
  /\ \A m, n \in Names : SqlLower[m] = Lower[n] => Lower[m] = Lower[n]
  /\ None \notin Keys \cup Managed
  /\ Catalogue \in [DOMAIN Catalogue -> Names] /\ General \in DOMAIN Catalogue
  /\ \A p, q \in DOMAIN Catalogue : Catalogue[p] = Catalogue[q] => p = q
  /\ MaxStarts \in Nat /\ MaxChanges \in Nat

(* A legacy department or position has an id made from its name in lower case. *)
DeptIds == Keys \cup Managed
PosIds == Keys \cup DOMAIN Catalogue \cup NewPositions

(* The old version knows department texts; where it has department ids already, *)
(* it keeps the two together.  It has no position_id: the new column's default. *)
ASSUME OldDatabase ==
  /\ DeptName0 \in [DeptIds -> Names \cup {None}]
  /\ Emp0 \subseteq [Employees -> [dept : Texts \cup {None}, deptId : DeptIds \cup {None},
                                  title : Texts \cup {None}, pos : {General}]]
  /\ \A old \in Emp0, e \in Employees : old[e].deptId # None =>
       DeptName0[old[e].deptId] # None /\ old[e].dept = DeptName0[old[e].deptId]

VARIABLES emp,       \* employees: department text and id, title and position id
          deptName,  \* departments: name by id, None without a row
          posName,   \* positions: name by id, None without a row
          offers,    \* department_positions
          admin,     \* the administrator's row: which password, must it be changed
          legacy,    \* departure_requests, the table of the old version
          approval,  \* approval_requests and approval_steps made from it
          hires,     \* employees with a hire event in employment_events
          client,    \* oauth_clients: the version of the secret stored
          config,    \* the version of the secrets the server was started with
          pc, todo, cur,   \* Open: the stage, what its loop has left, its local text
          starts, changes  \* what MaxStarts and MaxChanges bound

peopleVars == <<emp, deptName, posName, offers>>
tables == <<peopleVars, admin, approval, hires, client>>
vars == <<tables, legacy, config, pc, todo, cur, starts, changes>>

LegacyStatuses == {"pending_manager", "pending_hr", "cancelled"} \cup Decided
StepStatuses == {"none", "waiting", "pending", "skipped"} \cup Decided
Stages == {"down", "departments", "link", "positions", "admin", "adminFlag",
           "titles", "departures", "events", "clients", "serving", "failed"}
NoApproval == [status |-> "none", current |-> 0, form |-> [kind |-> "departure"],
               steps |-> [n \in 1 .. 2 |-> [status |-> "none"]]]

StartupTypeOK ==
  /\ emp \in [Employees -> [dept : Texts \cup {None}, deptId : DeptIds \cup {None},
                            title : Texts \cup {None}, pos : PosIds]]
  /\ deptName \in [DeptIds -> Names \cup {None}]
  /\ posName \in [PosIds -> Names \cup {None}]
  /\ offers \subseteq DeptIds \X PosIds
  /\ admin \in [password : {"none", "admin", "admin123!", "own"}, must : BOOLEAN]
  /\ legacy \in [Departures -> [status : LegacyStatuses, hrReviewed : BOOLEAN]]
  /\ approval \in [Departures -> [status : {"none", "pending"} \cup Closed, current : 0 .. 2,
                                  form : {[kind |-> "departure"]},
                                  steps : [1 .. 2 -> [status : StepStatuses]]]]
  /\ hires \subseteq Employees
  /\ client \in [Clients -> Nat] /\ config \in Nat
  /\ pc \in Stages
  /\ todo \subseteq Texts \cup PosIds \cup Departures \cup Employees \cup Clients
  /\ cur \in Texts \cup {None}
  /\ starts \in 0 .. MaxStarts /\ changes \in 0 .. MaxChanges

Goto(stage, work) == pc' = stage /\ todo' = work /\ cur' = None
Loop(x) == x \in todo /\ Goto(pc, todo \ {x})
Opening == pc \notin {"down", "serving", "failed"}

--------------------------------------------------------------------------------
(* migrateLegacyDepartures *)

MutantLegacyMembers(t) == {e \in Employees : emp[e].deptId = None}
LegacyMembers(t) == {e \in Employees : emp[e].dept = t /\ emp[e].deptId = None}
LegacyTexts == {t \in Texts : LegacyMembers(t) # {}}

(* The process starts, opens the database and reads the texts to migrate. *)
Start ==
  /\ pc \in {"down", "failed"}
  /\ starts < MaxStarts
  /\ starts' = starts + 1
  /\ config' \in {config, config + 1}
  /\ Goto("departments", LegacyTexts)
  /\ UNCHANGED <<tables, legacy, changes>>

MutantDepartmentName(t) == t
DepartmentName(t) == Trim[t]
FreeName(table, n) == \A id \in DOMAIN table : table[id] # n

(* INSERT ... ON CONFLICT DO NOTHING; a conflict is one of id or of name. *)
MakeDepartment(t) ==
  LET id == Lower[Trim[t]] IN
  /\ pc = "departments"
  /\ t \in todo
  /\ Trim[t] # None
  /\ deptName' = IF deptName[id] = None /\ FreeName(deptName, Trim[t])
                 THEN [deptName EXCEPT ![id] = DepartmentName(t)] ELSE deptName
  /\ pc' = "link" /\ cur' = t
  /\ UNCHANGED <<emp, posName, offers, admin, approval, hires, client, legacy, config,
                 todo, starts, changes>>

SkipBlank(t) ==
  /\ pc = "departments"
  /\ Loop(t)
  /\ Trim[t] = None
  /\ UNCHANGED <<tables, legacy, config, starts, changes>>

(* First(&department) looks for the name AND the id already in the struct. *)
LinkDepartment ==
  LET id == Lower[Trim[cur]] IN
  /\ pc = "link"
  /\ IF deptName[id] = Trim[cur]
     THEN /\ emp' = [e \in Employees |->
               IF e \in LegacyMembers(cur)
               THEN [emp[e] EXCEPT !.deptId = id, !.dept = deptName[id]] ELSE emp[e]]
          /\ Goto("departments", todo \ {cur})
     ELSE emp' = emp /\ Goto("failed", {})
  /\ UNCHANGED <<deptName, posName, offers, admin, approval, hires, client, legacy, config,
                 starts, changes>>

--------------------------------------------------------------------------------
(* seedPositions, the administrator, migrateLegacyPositions *)

SeedConflict(p) == posName[p] # None \/ ~FreeName(posName, Catalogue[p])
MutantSeedPosition(p) ==
  /\ pc = "positions"
  /\ IF SeedConflict(p) THEN Goto("failed", {}) /\ posName' = posName
     ELSE Loop(p) /\ posName' = [posName EXCEPT ![p] = Catalogue[p]]
  /\ UNCHANGED <<emp, deptName, offers, admin, approval, hires, client, legacy, config,
                 starts, changes>>

SeedPosition(p) ==
  /\ pc = "positions"
  /\ Loop(p)
  /\ posName' = IF SeedConflict(p) THEN posName ELSE [posName EXCEPT ![p] = Catalogue[p]]
  /\ UNCHANGED <<emp, deptName, offers, admin, approval, hires, client, legacy, config,
                 starts, changes>>

(* The column default makes the new row one that must change its password; the *)
(* next statement takes that back.                                              *)
CreateAdmin ==
  /\ pc = "admin"
  /\ admin.password = "none"
  /\ admin' = [password |-> "admin123!", must |-> TRUE]
  /\ Goto("adminFlag", {})
  /\ UNCHANGED <<peopleVars, approval, hires, client, legacy, config, starts, changes>>

ClearAdminFlag ==
  /\ pc = "adminFlag"
  /\ admin' = [admin EXCEPT !.must = FALSE]
  /\ Goto("titles", {})
  /\ UNCHANGED <<peopleVars, approval, hires, client, legacy, config, starts, changes>>

MutantOldDefault == admin.password # "admin123!"
OldDefault == admin.password = "admin"
MigrateAdmin ==
  /\ pc = "admin"
  /\ admin.password # "none"
  /\ admin' = IF OldDefault THEN [admin EXCEPT !.password = "admin123!"] ELSE admin
  /\ Goto("titles", {})
  /\ UNCHANGED <<peopleVars, approval, hires, client, legacy, config, starts, changes>>

Title(e) == Trim[emp[e].title]
Named(table, k) == {p \in DOMAIN table : table[p] # None /\ SqlLower[table[p]] = k}

(* pos_legacy_...: for the titles that no position has, under the title of the  *)
(* first employee who has it (the order of the rows).                           *)
NewTitles == {n \in {Title(e) : e \in Employees} \ {None} : Named(posName, Lower[n]) = {}}
FirstTitle(k) == CHOOSE n \in NewTitles : Lower[n] = k
WithLegacyPositions ==
  [p \in PosIds |->
     IF posName[p] = None /\ p \in {Lower[n] : n \in NewTitles} /\ FreeName(posName, FirstTitle(p))
     THEN FirstTitle(p) ELSE posName[p]]

(* Where an employee's title leads, and whether it leads anywhere. *)
MutantHome(e) == IF Title(e) = None THEN General
                 ELSE CHOOSE p \in {q \in DOMAIN Catalogue : Catalogue[q] = Title(e)} \cup
                        {q \in Named(WithLegacyPositions, Lower[Title(e)]) :
                           \A r \in DOMAIN Catalogue : Catalogue[r] # Title(e)} : TRUE
Home(e) == IF Title(e) = None THEN General
           ELSE CHOOSE p \in Named(WithLegacyPositions, Lower[Title(e)]) : TRUE
Lost(e) == Title(e) # None /\ Named(WithLegacyPositions, Lower[Title(e)]) = {}

(* One transaction over all employees, rolled back at the first one lost. *)
MigrateTitles ==
  /\ pc = "titles"
  /\ IF \E e \in Employees : Lost(e)
     THEN Goto("failed", {}) /\ UNCHANGED peopleVars
     ELSE /\ posName' = WithLegacyPositions
          /\ emp' = [e \in Employees |->
               [emp[e] EXCEPT !.pos = Home(e), !.title = WithLegacyPositions[Home(e)]]]
          /\ offers' = offers \cup {<<emp[e].deptId, Home(e)>> :
                                      e \in {m \in Employees : emp[m].deptId # None}}
          /\ deptName' = deptName
          /\ Goto("departures", Departures)
  /\ UNCHANGED <<admin, approval, hires, client, legacy, config, starts, changes>>

--------------------------------------------------------------------------------
(* migrateLegacyDepartures (departures), seedEmploymentEvents, the OAuth clients *)

MutantCurrentStep(l) == 1
CurrentStep(l) ==
  IF l.status \in {"pending_hr", "approved"} \/ (l.status = "rejected" /\ l.hrReviewed) THEN 2 ELSE 1

Migrated(l) ==
  LET row(status, manager, hr) ==
        [status |-> status, current |-> CurrentStep(l), form |-> [kind |-> "departure"],
         steps |-> [n \in 1 .. 2 |-> [status |-> IF n = 1 THEN manager ELSE hr]]]
  IN CASE l.status = "pending_manager" -> row("pending", "pending", "waiting")
       [] l.status = "pending_hr" -> row("pending", "approved", "pending")
       [] l.status = "approved" -> row("approved", "approved", "approved")
       [] l.status = "rejected" /\ l.hrReviewed -> row("rejected", "approved", "rejected")
       [] l.status = "rejected" /\ ~l.hrReviewed -> row("rejected", "rejected", "skipped")
       [] l.status = "cancelled" -> row("cancelled", "skipped", "skipped")

MutantUnmigrated(r) == TRUE
Unmigrated(r) == approval[r].status = "none"
MigrateDeparture(r) ==
  /\ pc = "departures"
  /\ Loop(r)
  /\ approval' = IF Unmigrated(r) THEN [approval EXCEPT ![r] = Migrated(legacy[r])] ELSE approval
  /\ UNCHANGED <<peopleVars, admin, hires, client, legacy, config, starts, changes>>

MutantToSeed == IF hires = {} THEN Employees ELSE {}
(* seedEmploymentEvents goes through all employees, and skips what is there. *)
ToSeed == Employees
SeedHire(e) ==
  /\ pc = "events"
  /\ Loop(e)
  /\ hires' = hires \cup {e}
  /\ UNCHANGED <<peopleVars, admin, approval, client, legacy, config, starts, changes>>

MutantStored(c) == IF client[c] = 0 THEN config ELSE client[c]
Stored(c) == config
UpsertClient(c) ==
  /\ pc = "clients"
  /\ Loop(c)
  /\ client' = [client EXCEPT ![c] = Stored(c)]
  /\ UNCHANGED <<peopleVars, admin, approval, hires, legacy, config, starts, changes>>

(* The loop of a stage has nothing left. *)
NextStage ==
  /\ todo = {}
  /\ \/ pc = "departments" /\ Goto("positions", DOMAIN Catalogue)
     \/ pc = "positions" /\ Goto("admin", {})
     \/ pc = "departures" /\ Goto("events", ToSeed)
     \/ pc = "events" /\ Goto("clients", Clients)
     \/ pc = "clients" /\ Goto("serving", {})
  /\ UNCHANGED <<tables, legacy, config, starts, changes>>

(* The process dies.  What was committed stays. *)
Crash ==
  /\ Opening \/ pc = "serving"
  /\ starts < MaxStarts
  /\ Goto("down", {})
  /\ UNCHANGED <<tables, legacy, config, starts, changes>>

--------------------------------------------------------------------------------
(* What people change while the server serves; each handler as one step (how    *)
(* handlers interleave is the matter of Directory and Approvals).               *)

Change == /\ pc = "serving"
          /\ changes < MaxChanges
          /\ changes' = changes + 1
          /\ UNCHANGED <<legacy, hires, client, config, pc, todo, cur, starts>>

NameAllowed(table, id, n) == \A other \in DOMAIN table \ {id} :
  table[other] # None => SqlLower[table[other]] # Lower[n] /\ table[other] # n

MutantRetitled(p, n) == emp
Retitled(p, n) == [e \in Employees |-> IF emp[e].pos = p THEN [emp[e] EXCEPT !.title = n] ELSE emp[e]]

RenamePosition(p, n) ==
  /\ Change
  /\ posName[p] # None /\ p # General
  /\ NameAllowed(posName, p, n)
  /\ posName' = [posName EXCEPT ![p] = n]
  /\ emp' = Retitled(p, n)
  /\ UNCHANGED <<deptName, offers, admin, approval>>

CreatePosition(p, n) ==
  /\ Change
  /\ p \in NewPositions /\ posName[p] = None
  /\ NameAllowed(posName, p, n)
  /\ posName' = [posName EXCEPT ![p] = n]
  /\ offers' = offers \cup ({d \in DeptIds : deptName[d] # None} \X {p})
  /\ UNCHANGED <<emp, deptName, admin, approval>>

DeletePosition(p) ==
  /\ Change
  /\ posName[p] # None /\ p # General
  /\ \A e \in Employees : emp[e].pos # p
  /\ posName' = [posName EXCEPT ![p] = None]
  /\ offers' = {o \in offers : o[2] # p}
  /\ UNCHANGED <<emp, deptName, admin, approval>>

RenameDepartment(d, n) ==
  /\ Change
  /\ deptName[d] # None
  /\ NameAllowed(deptName, d, n)
  /\ deptName' = [deptName EXCEPT ![d] = n]
  /\ emp' = [e \in Employees |-> IF emp[e].deptId = d THEN [emp[e] EXCEPT !.dept = n] ELSE emp[e]]
  /\ UNCHANGED <<posName, offers, admin, approval>>

UpdateEmployee(e, d, p) ==
  /\ Change
  /\ <<d, p>> \in offers
  /\ emp' = [emp EXCEPT ![e] = [dept |-> deptName[d], deptId |-> d, title |-> posName[p], pos |-> p]]
  /\ UNCHANGED <<deptName, posName, offers, admin, approval>>

ReviewApproval(r) ==
  /\ Change
  /\ approval[r].status = "pending"
  /\ approval' = [approval EXCEPT ![r].status = "rejected", ![r].steps =
       [n \in 1 .. 2 |-> IF n = approval[r].current THEN [status |-> "rejected"]
                         ELSE IF @[n].status = "waiting" THEN [status |-> "skipped"] ELSE @[n]]]
  /\ UNCHANGED <<peopleVars, admin>>

ChangeAdminPassword ==
  /\ Change
  /\ admin' = [password |-> "own", must |-> FALSE]
  /\ UNCHANGED <<peopleVars, approval>>

--------------------------------------------------------------------------------
Init ==
  /\ emp \in Emp0
  /\ deptName = DeptName0
  /\ posName = [p \in PosIds |-> None]
  /\ offers = {}
  /\ admin \in [password : {"none", "admin"}, must : {FALSE}]
  /\ legacy \in [Departures -> [status : LegacyStatuses, hrReviewed : BOOLEAN]]
  /\ \A r \in Departures : legacy[r].hrReviewed <=> legacy[r].status = "approved" \/
                             (legacy[r].hrReviewed /\ legacy[r].status = "rejected")
  /\ approval = [r \in Departures |-> NoApproval]
  /\ hires = {}
  /\ client = [c \in Clients |-> 0]
  /\ config = 0
  /\ pc = "down" /\ todo = {} /\ cur = None
  /\ starts = 0 /\ changes = 0

OpenStep ==
  \/ \E t \in Texts : MakeDepartment(t) \/ SkipBlank(t)
  \/ LinkDepartment
  \/ \E p \in DOMAIN Catalogue : SeedPosition(p)
  \/ CreateAdmin
  \/ ClearAdminFlag
  \/ MigrateAdmin
  \/ MigrateTitles
  \/ \E r \in Departures : MigrateDeparture(r)
  \/ \E e \in Employees : SeedHire(e)
  \/ \E c \in Clients : UpsertClient(c)
  \/ NextStage

People ==
  \/ \E n \in Names :
       \/ \E p \in PosIds : RenamePosition(p, n) \/ CreatePosition(p, n)
       \/ \E d \in DeptIds : RenameDepartment(d, n)
  \/ \E p \in PosIds : DeletePosition(p)
  \/ \E e \in Employees, d \in DeptIds, p \in PosIds : UpdateEmployee(e, d, p)
  \/ \E r \in Departures : ReviewApproval(r)
  \/ ChangeAdminPassword

Next == Start \/ OpenStep \/ Crash \/ People

Spec == Init /\ [][Next]_vars

(* Open runs in one goroutine that nothing blocks, and the container is started *)
(* again when the process ends (compose.yaml, restart: unless-stopped).         *)
FairSpec == Spec /\ WF_vars(OpenStep) /\ WF_vars(Start)
--------------------------------------------------------------------------------
(* An employee is served with a position that exists and is offered in her      *)
(* department, under the names these have now: the copies of the names in her   *)
(* row follow every renaming and survive every restart.                         *)
SnapshotsInSync ==
  pc = "serving" => \A e \in Employees :
    /\ posName[emp[e].pos] # None /\ emp[e].title = posName[emp[e].pos]
    /\ IF emp[e].deptId = None THEN Trim[emp[e].dept] = None
       ELSE emp[e].dept = deptName[emp[e].deptId] /\ <<emp[e].deptId, emp[e].pos>> \in offers

(* A restart looks every employee's position up again by her title              *)
(* (migrateLegacyPositions, store.go:182) and finds the one she holds; but it    *)
(* compares in lower case, and seedPositions (store.go:156) brings a position    *)
(* of the catalogue that was deleted back unless one has exactly its name.  So   *)
(* she may be moved to a position whose name differs from hers in case only: if  *)
(* one of the two is under its name of the catalogue, or SQLite does not fold    *)
(* her title as Go does.                                                         *)
Settled(e) == /\ emp[e].deptId # None /\ emp[e].dept = deptName[emp[e].deptId]
              /\ emp[e].title = posName[emp[e].pos]
FromCatalogue(table, p) == p \in DOMAIN Catalogue /\ table[p] = Catalogue[p]
Lookalikes(table, p, q) ==
  /\ p # q /\ Lower[table[p]] = Lower[table[q]]
  /\ \/ FromCatalogue(table, p) \/ FromCatalogue(table, q)
     \/ SqlLower[table[p]] # Lower[table[p]]
AssignmentsKept ==
  [][Opening => \A e \in Employees : Settled(e) =>
       \/ emp'[e] = emp[e]
       \/ \E q \in PosIds :
            /\ Lookalikes(posName', emp[e].pos, q)
            /\ emp'[e] = [emp[e] EXCEPT !.pos = q, !.title = posName'[q]]]_vars

(* What the migration assigns is what the old texts said: the department of     *)
(* that name, the position of that title whatever its letters' case, the        *)
(* general position for a blank title (README, on departments and positions).   *)
MigrationFaithful ==
  [][Opening => \A e \in Employees :
       /\ emp'[e].deptId # emp[e].deptId =>
            emp[e].deptId = None /\ deptName'[emp'[e].deptId] = Trim[emp[e].dept]
       /\ emp'[e].pos # emp[e].pos =>
            IF Title(e) = None THEN emp'[e].pos = General
            ELSE Lower[posName'[emp'[e].pos]] = Lower[Title(e)]]_vars

(* Every request made from a legacy departure has rows that agree, so that the  *)
(* workflow (Approvals, StepDiscipline) can take it up where it stood.          *)
MigratedRowsAgree == \A r \in Departures : StepsAgree(approval[r], approval[r].steps)

(* A request is migrated once: what was decided since is not undone by a restart. *)
DecisionsKept ==
  [][Opening => \A r \in Departures : approval[r].status # "none" => approval'[r] = approval[r]]_vars

(* A restart does not touch a password the administrator has chosen (the last   *)
(* part of TestOpenSeedsAndMigratesDefaultAdministratorPassword).               *)
AdminPasswordKept == [][Opening /\ admin.password = "own" => admin' = admin]_vars

(* Nobody is served without a hire event, whichever start was interrupted.      *)
HistoryBegins == pc = "serving" => hires = Employees

(* The clients authenticate with the secrets the running server is configured   *)
(* with, also when they were changed between two starts.                        *)
ClientsConfigured == pc = "serving" => \A c \in Clients : client[c] = config

(* Whatever was interrupted, repeated or changed before: what is served is whole. *)
StartupSound == StartupTypeOK /\ SnapshotsInSync /\ HistoryBegins /\ ClientsConfigured

(* Open moves only those it migrates, and those rightly. *)
PlacesKept == AssignmentsKept /\ MigrationFaithful

(* Open undoes nothing that was decided while an earlier process served. *)
ChoicesKept == DecisionsKept /\ AdminPasswordKept

(* The server comes up: whatever was interrupted, the next start finishes it.   *)
OpenFinishes == (pc # "serving") ~> (pc = "serving")

--------------------------------------------------------------------------------
(* What the runs that end in a violation refute. *)

(* The seeded administrator is asked for his password: README names it, and the *)
(* flag that would let him in without is taken back right after the insertion.  *)
AdminAskedForPassword == pc = "serving" => ~admin.must

(* An old database is migrated, whatever its department texts are.              *)
OpenSucceeds == pc # "failed"
================================================================================
