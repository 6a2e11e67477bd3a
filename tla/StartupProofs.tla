----------------------------- MODULE StartupProofs -----------------------------
(* What store.Open leaves behind, for any old database, any number of crashes   *)
(* and restarts, and whatever people change in between.                         *)
EXTENDS Startup, TLAPS

--------------------------------------------------------------------------------
(* Types *)

ApprovalType == [status : {"none", "pending"} \cup Closed, current : 0 .. 2,
                 form : {[kind |-> "departure"]}, steps : [1 .. 2 -> [status : StepStatuses]]]
EmpType == [dept : Texts \cup {None}, deptId : DeptIds \cup {None}, title : Texts \cup {None}, pos : PosIds]

(* What a handler or a statement of Open can put in a table is typed. *)
LEMMA TextsTyped ==
  /\ \A t \in Texts : Trim[t] \in Names \cup {None}
  /\ \A n \in Names : n \in Texts /\ n # None /\ Lower[n] \in Keys /\ SqlLower[n] \in Keys /\ Trim[n] = n
  /\ \A p \in DOMAIN Catalogue : Catalogue[p] \in Names
  /\ General \in PosIds /\ DOMAIN Catalogue \subseteq PosIds /\ Keys \subseteq PosIds
  /\ Keys \subseteq DeptIds /\ None \notin DeptIds /\ Trim[None] = None /\ None \notin Texts
  BY StartupAssumption DEF PosIds, DeptIds

LEMMA MigratedTyped ==
  ASSUME NEW l \in [status : LegacyStatuses, hrReviewed : BOOLEAN]
  PROVE  Migrated(l) \in ApprovalType /\ Migrated(l).status # "none" /\ StepsAgree(Migrated(l), Migrated(l).steps)
<1> DEFINE row(status, current, manager, hr) ==
      [status |-> status, current |-> current, form |-> [kind |-> "departure"],
       steps |-> [n \in 1 .. 2 |-> [status |-> IF n = 1 THEN manager ELSE hr]]]
<1>1. \/ Migrated(l) = row("pending", 1, "pending", "waiting")
      \/ Migrated(l) = row("pending", 2, "approved", "pending")
      \/ Migrated(l) = row("approved", 2, "approved", "approved")
      \/ Migrated(l) = row("rejected", 2, "approved", "rejected")
      \/ Migrated(l) = row("rejected", 1, "rejected", "skipped")
      \/ Migrated(l) = row("cancelled", 1, "skipped", "skipped")
  <2>1. CASE l.status = "pending_manager"
    BY <2>1 DEF Migrated, CurrentStep
  <2>2. CASE l.status = "pending_hr"
    BY <2>2 DEF Migrated, CurrentStep
  <2>3. CASE l.status = "approved"
    BY <2>3 DEF Migrated, CurrentStep
  <2>4. CASE l.status = "rejected" /\ l.hrReviewed
    BY <2>4 DEF Migrated, CurrentStep
  <2>5. CASE l.status = "rejected" /\ ~l.hrReviewed
    BY <2>5 DEF Migrated, CurrentStep
  <2>6. CASE l.status = "cancelled"
    BY <2>6 DEF Migrated, CurrentStep
  <2> QED BY <2>1, <2>2, <2>3, <2>4, <2>5, <2>6 DEF LegacyStatuses, Decided
<1>2. ASSUME NEW status \in {"pending"} \cup Closed, NEW current \in 1 .. 2,
             NEW manager \in StepStatuses, NEW hr \in StepStatuses
      PROVE  /\ row(status, current, manager, hr) \in ApprovalType
             /\ row(status, current, manager, hr).status = status
             /\ row(status, current, manager, hr).current = current
             /\ row(status, current, manager, hr).form.kind = "departure"
             /\ row(status, current, manager, hr).steps[1].status = manager
             /\ row(status, current, manager, hr).steps[2].status = hr
  BY DEF ApprovalType
<1> HIDE DEF row
<1>3. /\ {"pending", "approved", "rejected", "cancelled"} \subseteq {"pending"} \cup Closed
      /\ {"pending", "waiting", "approved", "rejected", "skipped"} \subseteq StepStatuses
      /\ 1 \in 1 .. 2 /\ 2 \in 1 .. 2 /\ 1 .. 2 = {1, 2}
  BY DEF Closed, Decided, StepStatuses
<1>4. CASE Migrated(l) = row("pending", 1, "pending", "waiting")
  BY <1>2, <1>3, <1>4 DEF StepsAgree, Total
<1>5. CASE Migrated(l) = row("pending", 2, "approved", "pending")
  BY <1>2, <1>3, <1>5 DEF StepsAgree, Total
<1>6. CASE Migrated(l) = row("approved", 2, "approved", "approved")
  BY <1>2, <1>3, <1>6 DEF StepsAgree, Total
<1>7. CASE Migrated(l) = row("rejected", 2, "approved", "rejected")
  BY <1>2, <1>3, <1>7 DEF StepsAgree, Total
<1>8. CASE Migrated(l) = row("rejected", 1, "rejected", "skipped")
  BY <1>2, <1>3, <1>8 DEF StepsAgree, Total
<1>9. CASE Migrated(l) = row("cancelled", 1, "skipped", "skipped")
  BY <1>2, <1>3, <1>9 DEF StepsAgree, Total
<1> QED BY <1>1, <1>4, <1>5, <1>6, <1>7, <1>8, <1>9

LEMMA NoApprovalTyped == NoApproval \in ApprovalType /\ StepsAgree(NoApproval, NoApproval.steps)
  BY DEF NoApproval, ApprovalType, StepsAgree, StepStatuses

(* HR rejects what Open has migrated: the rows agree again. *)
LEMMA RejectedAgrees ==
  ASSUME NEW r \in Departures, approval[r] \in ApprovalType, approval \in [Departures -> ApprovalType],
         StepsAgree(approval[r], approval[r].steps), ReviewApproval(r)
  PROVE  /\ approval' \in [Departures -> ApprovalType]
         /\ StepsAgree(approval'[r], approval'[r].steps)
         /\ \A s \in Departures \ {r} : approval'[s] = approval[s]
<1> DEFINE q == approval[r]
           steps == [n \in 1 .. 2 |-> IF n = q.current THEN [status |-> "rejected"]
                                      ELSE IF q.steps[n].status = "waiting" THEN [status |-> "skipped"]
                                      ELSE q.steps[n]]
<1>1. q.status = "pending" /\ q.current \in 1 .. 2 /\ q.form.kind = "departure"
  BY DEF ReviewApproval, StepsAgree, Total, ApprovalType
<1>2. steps \in [1 .. 2 -> [status : StepStatuses]]
  BY DEF ApprovalType, StepStatuses, Decided
<1>3. approval' = [approval EXCEPT ![r].status = "rejected", ![r].steps = steps]
  BY DEF ReviewApproval
<1>4. \A n \in 1 .. 2 : steps[n].status = IF n < q.current THEN "approved"
                                          ELSE IF n = q.current THEN "rejected" ELSE "skipped"
  BY <1>1 DEF StepsAgree, Total
<1> HIDE DEF steps
<1>5. /\ approval'[r].status = "rejected" /\ approval'[r].current = q.current /\ approval'[r].form = q.form
      /\ approval'[r].steps = steps /\ approval'[r] \in ApprovalType
      /\ \A s \in Departures \ {r} : approval'[s] = approval[s]
  BY <1>2, <1>3 DEF ApprovalType, Closed, Decided
<1>6. approval' \in [Departures -> ApprovalType]
  BY <1>3, <1>5
<1> QED BY <1>1, <1>4, <1>5, <1>6 DEF StepsAgree, Total
--------------------------------------------------------------------------------
(* Whenever Open looks for the row of a department, it knows which. *)
AtLink == pc = "link" => cur \in todo /\ cur \in Texts /\ Trim[cur] # None
Typed == StartupTypeOK /\ AtLink

Work == Texts \cup PosIds \cup Departures \cup Employees \cup Clients
Control == /\ pc \in Stages /\ todo \subseteq Work /\ cur \in Texts \cup {None} /\ config \in Nat
           /\ starts \in 0 .. MaxStarts /\ changes \in 0 .. MaxChanges /\ AtLink
Rows == /\ emp \in [Employees -> EmpType]
        /\ deptName \in [DeptIds -> Names \cup {None}] /\ posName \in [PosIds -> Names \cup {None}]
        /\ offers \subseteq DeptIds \X PosIds
Rest == /\ admin \in [password : {"none", "admin", "admin123!", "own"}, must : BOOLEAN]
        /\ approval \in [Departures -> ApprovalType]
        /\ hires \subseteq Employees /\ client \in [Clients -> Nat]
        /\ legacy \in [Departures -> [status : LegacyStatuses, hrReviewed : BOOLEAN]]

LEMMA TypedParts ==
  /\ Typed <=> Control /\ Rows /\ Rest
  /\ Control' /\ Rows' /\ Rest' => Typed'
  BY DEF Typed, StartupTypeOK, Control, Rows, Rest, Work, ApprovalType, EmpType

LEMMA InitTyped == Init => Typed
<1> SUFFICES ASSUME Init PROVE Control /\ Rows /\ Rest
  BY TypedParts
<1>1. Rows
  BY OldDatabase, TextsTyped DEF Init, EmpType, Rows
<1>2. Rest
  BY NoApprovalTyped DEF Init, Rest
<1>3. Control
  BY StartupAssumption DEF Init, Control, Stages, AtLink
<1> QED BY <1>1, <1>2, <1>3

LEMMA LegacyPositions ==
  ASSUME Rows
  PROVE  /\ WithLegacyPositions \in [PosIds -> Names \cup {None}]
         /\ \A p \in PosIds : \/ WithLegacyPositions[p] = posName[p]
                              \/ /\ posName[p] = None /\ WithLegacyPositions[p] \in NewTitles
                                 /\ WithLegacyPositions[p] \in Names /\ Lower[WithLegacyPositions[p]] = p
<1>1. NewTitles \subseteq Names
  BY TextsTyped DEF NewTitles, Title, Rows, EmpType
<1>2. \A k \in {Lower[n] : n \in NewTitles} : FirstTitle(k) \in NewTitles /\ Lower[FirstTitle(k)] = k
  BY DEF FirstTitle
<1> QED BY <1>1, <1>2 DEF WithLegacyPositions, Rows

LEMMA HomeFound ==
  ASSUME Rows, NEW e \in Employees, ~Lost(e)
  PROVE  /\ Home(e) \in PosIds
         /\ Title(e) = None => Home(e) = General
         /\ Title(e) # None => /\ WithLegacyPositions[Home(e)] # None
                               /\ SqlLower[WithLegacyPositions[Home(e)]] = Lower[Title(e)]
<1>1. DOMAIN WithLegacyPositions = PosIds
  BY LegacyPositions
<1>2. CASE Title(e) = None
  BY <1>2, TextsTyped DEF Home
<1>3. CASE Title(e) # None
  <2>1. Home(e) \in Named(WithLegacyPositions, Lower[Title(e)])
    BY <1>3 DEF Home, Lost
  <2> QED BY <1>1, <1>3, <2>1 DEF Named
<1> QED BY <1>2, <1>3

(* Open goes from stage to stage. *)
LEMMA OpenControlTyped == ASSUME Control, Start \/ OpenStep \/ Crash PROVE Control'
<1>1. CASE Start
  BY <1>1, StartupAssumption DEF Start, Control, Goto, Stages, LegacyTexts, Work, AtLink
<1>2. CASE Crash
  BY <1>2 DEF Crash, Control, Goto, Stages, AtLink
<1>3. CASE \E t \in Texts : MakeDepartment(t)
  BY <1>3 DEF MakeDepartment, Control, Stages, AtLink
<1>4. CASE \E x \in Work : Loop(x) /\ pc # "link" /\ UNCHANGED <<config, starts, changes>>
  BY <1>4 DEF Loop, Goto, Control, AtLink
<1>5. CASE LinkDepartment
  BY <1>5 DEF LinkDepartment, Goto, Control, Stages, AtLink
<1>6. CASE CreateAdmin \/ ClearAdminFlag \/ MigrateAdmin
  BY <1>6 DEF CreateAdmin, ClearAdminFlag, MigrateAdmin, Goto, Control, Stages, AtLink
<1>7. CASE MigrateTitles
  BY <1>7 DEF MigrateTitles, Goto, Control, Stages, AtLink, Work
<1>8. CASE NextStage
  BY <1>8, TextsTyped DEF NextStage, Goto, Control, Stages, AtLink, Work, ToSeed
<1>9. ASSUME \/ \E t \in Texts : SkipBlank(t)
             \/ \E p \in DOMAIN Catalogue : SeedPosition(p)
             \/ \E r \in Departures : MigrateDeparture(r)
             \/ \E e \in Employees : SeedHire(e)
             \/ \E c \in Clients : UpsertClient(c)
      PROVE  \E x \in Work : Loop(x) /\ pc # "link" /\ UNCHANGED <<config, starts, changes>>
  BY <1>9, TextsTyped DEF SkipBlank, SeedPosition, MigrateDeparture, SeedHire, UpsertClient, Work
<1> QED BY <1>1, <1>2, <1>3, <1>4, <1>5, <1>6, <1>7, <1>8, <1>9 DEF OpenStep

LEMMA OpenRowsTyped == ASSUME Control, Rows, Start \/ OpenStep \/ Crash PROVE Rows'
<1>1. CASE \E t \in Texts : MakeDepartment(t)
  BY <1>1, TextsTyped DEF MakeDepartment, DepartmentName, Rows
<1>2. CASE LinkDepartment
  <2>1. cur \in Texts /\ Trim[cur] # None
    BY <1>2 DEF LinkDepartment, Control, AtLink
  <2>2. Lower[Trim[cur]] \in DeptIds /\ deptName[Lower[Trim[cur]]] \in Texts \cup {None}
    BY <2>1, TextsTyped DEF Rows
  <2>3. emp' \in [Employees -> EmpType]
    <3> DEFINE id == Lower[Trim[cur]]
    <3>1. ASSUME NEW e \in Employees PROVE [emp[e] EXCEPT !.deptId = id, !.dept = deptName[id]] \in EmpType
      BY <2>2 DEF Rows, EmpType
    <3>2. \/ emp' = emp
          \/ emp' = [e \in Employees |->
               IF e \in LegacyMembers(cur) THEN [emp[e] EXCEPT !.deptId = id, !.dept = deptName[id]] ELSE emp[e]]
      BY <1>2 DEF LinkDepartment
    <3> HIDE DEF id
    <3> QED BY <3>1, <3>2 DEF Rows
  <2> QED BY <1>2, <2>3 DEF LinkDepartment, Rows
<1>3. CASE \E p \in DOMAIN Catalogue : SeedPosition(p)
  BY <1>3, TextsTyped DEF SeedPosition, Rows
<1>4. CASE MigrateTitles
  <2>1. CASE UNCHANGED peopleVars
    BY <2>1 DEF peopleVars, Rows
  <2>2. CASE ~ UNCHANGED peopleVars
    <3>1. /\ \A e \in Employees : ~Lost(e)
          /\ posName' = WithLegacyPositions /\ deptName' = deptName
          /\ emp' = [e \in Employees |-> [emp[e] EXCEPT !.pos = Home(e), !.title = WithLegacyPositions[Home(e)]]]
          /\ offers' = offers \cup {<<emp[e].deptId, Home(e)>> : e \in {m \in Employees : emp[m].deptId # None}}
      BY <1>4, <2>2 DEF MigrateTitles
    <3>2. \A e \in Employees : Home(e) \in PosIds /\ WithLegacyPositions[Home(e)] \in Texts \cup {None}
      BY <3>1, HomeFound, LegacyPositions, TextsTyped
    <3>3. emp' \in [Employees -> EmpType]
      BY <3>1, <3>2 DEF Rows, EmpType
    <3>4. offers' \subseteq DeptIds \X PosIds
      <4>1. \A e \in {m \in Employees : emp[m].deptId # None} : emp[e].deptId \in DeptIds /\ Home(e) \in PosIds
        BY <3>2 DEF Rows, EmpType
      <4>2. {<<emp[e].deptId, Home(e)>> : e \in {m \in Employees : emp[m].deptId # None}} \subseteq DeptIds \X PosIds
        BY <4>1
      <4> QED BY <3>1, <4>2 DEF Rows
    <3> QED BY <3>1, <3>3, <3>4, LegacyPositions DEF Rows
  <2> QED BY <2>1, <2>2
<1>5. CASE UNCHANGED peopleVars
  BY <1>5 DEF peopleVars, Rows
<1> QED BY <1>1, <1>2, <1>3, <1>4, <1>5 DEF OpenStep, Start, Crash, tables, SkipBlank,
   CreateAdmin, ClearAdminFlag, MigrateAdmin, MigrateDeparture, SeedHire, UpsertClient,
   NextStage

LEMMA OpenRestTyped == ASSUME Control, Rest, Start \/ OpenStep \/ Crash PROVE Rest'
<1>1. CASE CreateAdmin \/ ClearAdminFlag \/ MigrateAdmin
  <2>1. admin' \in [password : {"none", "admin", "admin123!", "own"}, must : BOOLEAN]
    <3>1. CASE CreateAdmin
      BY <3>1 DEF CreateAdmin
    <3>2. CASE ClearAdminFlag
      BY <3>2 DEF ClearAdminFlag, Rest
    <3>3. CASE MigrateAdmin
      BY <3>3 DEF MigrateAdmin, Rest
    <3> QED BY <1>1, <3>1, <3>2, <3>3
  <2> QED BY <1>1, <2>1 DEF CreateAdmin, ClearAdminFlag, MigrateAdmin, Rest
<1>2. CASE \E r \in Departures : MigrateDeparture(r)
  BY <1>2, MigratedTyped DEF MigrateDeparture, Rest
<1>3. CASE \E e \in Employees : SeedHire(e)
  BY <1>3 DEF SeedHire, Rest
<1>4. CASE \E c \in Clients : UpsertClient(c)
  BY <1>4 DEF UpsertClient, Stored, Rest, Control
<1>5. CASE UNCHANGED <<admin, approval, hires, client, legacy>>
  BY <1>5 DEF Rest
<1> QED BY <1>1, <1>2, <1>3, <1>4, <1>5 DEF OpenStep, Start, Crash, tables, MakeDepartment,
   LinkDepartment, SkipBlank, SeedPosition, MigrateTitles, NextStage

(* What people do while the server serves. *)
LEMMA PeopleTyped == ASSUME Typed, MigratedRowsAgree, People PROVE Typed'
<1> USE TypedParts
<1>1. Control'
  <2>1. Change
    BY DEF People, RenamePosition, CreatePosition, DeletePosition, RenameDepartment,
       UpdateEmployee, ReviewApproval, ChangeAdminPassword
  <2> QED BY <2>1, StartupAssumption DEF Change, Control, AtLink
<1>2. Rest'
  <2>1. CASE \E r \in Departures : ReviewApproval(r)
    <3>1. PICK r \in Departures : ReviewApproval(r)
      BY <2>1
    <3>2. approval' \in [Departures -> ApprovalType]
      BY <3>1, RejectedAgrees DEF Rest, MigratedRowsAgree
    <3> QED BY <3>1, <3>2 DEF ReviewApproval, Change, Rest
  <2>2. CASE ChangeAdminPassword
    BY <2>2 DEF ChangeAdminPassword, Change, Rest
  <2>3. CASE UNCHANGED <<admin, approval, legacy, hires, client>>
    BY <2>3 DEF Rest
  <2> QED BY <2>1, <2>2, <2>3 DEF People, RenamePosition, CreatePosition, DeletePosition,
     RenameDepartment, UpdateEmployee, Change
<1>3. Rows'
  <2>1. ASSUME NEW p \in PosIds, NEW n \in Names, RenamePosition(p, n) PROVE Rows'
    <3>1. emp' \in [Employees -> EmpType]
      BY <2>1, TextsTyped DEF RenamePosition, Retitled, Rows, EmpType
    <3> QED BY <2>1, <3>1 DEF RenamePosition, Rows
  <2>2. ASSUME NEW p \in PosIds, NEW n \in Names, CreatePosition(p, n) PROVE Rows'
    BY <2>2 DEF CreatePosition, Rows
  <2>3. ASSUME NEW p \in PosIds, DeletePosition(p) PROVE Rows'
    BY <2>3 DEF DeletePosition, Rows
  <2>4. ASSUME NEW d \in DeptIds, NEW n \in Names, RenameDepartment(d, n) PROVE Rows'
    <3>1. emp' \in [Employees -> EmpType]
      BY <2>4, TextsTyped DEF RenameDepartment, Rows, EmpType
    <3> QED BY <2>4, <3>1 DEF RenameDepartment, Rows
  <2>5. ASSUME NEW e \in Employees, NEW d \in DeptIds, NEW p \in PosIds, UpdateEmployee(e, d, p) PROVE Rows'
    <3>1. [dept |-> deptName[d], deptId |-> d, title |-> posName[p], pos |-> p] \in EmpType
      BY TextsTyped DEF Rows, EmpType
    <3> QED BY <2>5, <3>1 DEF UpdateEmployee, Rows
  <2>6. CASE UNCHANGED peopleVars
    BY <2>6 DEF peopleVars, Rows
  <2> QED BY <2>1, <2>2, <2>3, <2>4, <2>5, <2>6 DEF People, ReviewApproval, ChangeAdminPassword
<1> QED BY <1>1, <1>2, <1>3

LEMMA RowsAgreeKept == ASSUME Typed, MigratedRowsAgree, [Next]_vars PROVE MigratedRowsAgree'
<1> USE TypedParts
<1>1. CASE \E r \in Departures : ReviewApproval(r)
  <2>1. PICK r \in Departures : ReviewApproval(r)
    BY <1>1
  <2>2. StepsAgree(approval'[r], approval'[r].steps) /\ \A s \in Departures \ {r} : approval'[s] = approval[s]
    BY <2>1, RejectedAgrees DEF Rest, MigratedRowsAgree
  <2> QED BY <2>2 DEF MigratedRowsAgree, StepsAgree
<1>2. CASE \E r \in Departures : MigrateDeparture(r)
  <2>1. PICK r \in Departures : MigrateDeparture(r)
    BY <1>2
  <2>2. StepsAgree(approval'[r], approval'[r].steps) /\ \A s \in Departures \ {r} : approval'[s] = approval[s]
    BY <2>1, MigratedTyped DEF MigrateDeparture, Rest, MigratedRowsAgree
  <2> QED BY <2>2 DEF MigratedRowsAgree, StepsAgree
<1>3. CASE UNCHANGED approval
  BY <1>3 DEF MigratedRowsAgree, StepsAgree
<1> QED BY <1>1, <1>2, <1>3 DEF Next, OpenStep, People, Start, Crash, tables, vars,
   MakeDepartment, SkipBlank, LinkDepartment, SeedPosition, CreateAdmin, ClearAdminFlag,
   MigrateAdmin, MigrateTitles, SeedHire, UpsertClient, NextStage, RenamePosition,
   CreatePosition, DeletePosition, RenameDepartment, UpdateEmployee, ChangeAdminPassword

(* The tables hold what they are meant to hold, and the rows of every request   *)
(* made from a legacy departure agree.                                          *)
LEMMA TypedThroughout == Spec => [](Typed /\ MigratedRowsAgree)
<1>1. Init => Typed /\ MigratedRowsAgree
  BY InitTyped, NoApprovalTyped DEF Init, MigratedRowsAgree
<1>2. Typed /\ MigratedRowsAgree /\ [Next]_vars => Typed' /\ MigratedRowsAgree'
  <2> SUFFICES ASSUME Typed, MigratedRowsAgree, [Next]_vars PROVE Typed'
    BY RowsAgreeKept
  <2>1. CASE Start \/ OpenStep \/ Crash
    BY <2>1, TypedParts, OpenControlTyped, OpenRowsTyped, OpenRestTyped
  <2>2. CASE UNCHANGED vars
    BY <2>2 DEF vars, tables, peopleVars, Typed, StartupTypeOK, AtLink
  <2> QED BY <2>1, <2>2, PeopleTyped DEF Next
<1> QED BY <1>1, <1>2, PTL DEF Spec

(* Every request made from a legacy departure has rows that agree, so that the  *)
(* workflow can take it up where it stood.                                      *)
THEOREM MigratedRequestsAgree == Spec => []MigratedRowsAgree
  BY TypedThroughout, PTL

--------------------------------------------------------------------------------
(* Nothing decided is undone *)

OwnIsSettled == admin.password = "own" => ~admin.must
LEMMA OwnSettled == Spec => []OwnIsSettled
<1>1. Init => OwnIsSettled
  BY DEF Init, OwnIsSettled
<1>2. OwnIsSettled /\ Typed /\ [Next]_vars => OwnIsSettled'
  <2> SUFFICES ASSUME OwnIsSettled, Typed, [Next]_vars PROVE OwnIsSettled'
    OBVIOUS
  <2>0. admin \in [password : {"none", "admin", "admin123!", "own"}, must : BOOLEAN]
    BY DEF Typed, StartupTypeOK
  <2>1. CASE CreateAdmin \/ ChangeAdminPassword
    BY <2>1 DEF CreateAdmin, ChangeAdminPassword, OwnIsSettled
  <2>2. CASE ClearAdminFlag
    BY <2>0, <2>2 DEF ClearAdminFlag, OwnIsSettled
  <2>3. CASE MigrateAdmin
    BY <2>0, <2>3 DEF MigrateAdmin, OwnIsSettled
  <2>4. CASE UNCHANGED admin
    BY <2>4 DEF OwnIsSettled
  <2> QED BY <2>1, <2>2, <2>3, <2>4 DEF Next, OpenStep, People, Start, Crash, tables, vars,
     MakeDepartment, SkipBlank, LinkDepartment, SeedPosition, MigrateTitles,
     MigrateDeparture, SeedHire, UpsertClient, NextStage, RenamePosition, CreatePosition,
     DeletePosition, RenameDepartment, UpdateEmployee, ReviewApproval
<1> QED BY <1>1, <1>2, TypedThroughout, PTL DEF Spec

(* A request that was made or decided before a restart is the same after it, and *)
(* so is the password the administrator has chosen.                             *)
THEOREM NothingIsUndone == Spec => ChoicesKept
<1> DEFINE Keeps == Opening =>
             /\ \A r \in Departures : approval[r].status # "none" => approval'[r] = approval[r]
             /\ admin.password = "own" => admin' = admin
<1>1. Typed /\ OwnIsSettled /\ [Next]_vars => [Keeps]_vars
  <2> SUFFICES ASSUME Typed, OwnIsSettled, Next, Opening PROVE Keeps
    OBVIOUS
  <2>0. OpenStep \/ Start \/ Crash
    BY DEF Next, People, RenamePosition, CreatePosition, DeletePosition, RenameDepartment,
       UpdateEmployee, ReviewApproval, ChangeAdminPassword, Change, Opening
  <2>1. /\ admin \in [password : {"none", "admin", "admin123!", "own"}, must : BOOLEAN]
        /\ approval \in [Departures -> ApprovalType]
    BY TypedParts DEF Rest
  <2>2. CASE CreateAdmin \/ ClearAdminFlag \/ MigrateAdmin
    <3>1. admin.password = "own" => admin' = admin
      <4>1. CASE CreateAdmin
        BY <4>1 DEF CreateAdmin
      <4>2. CASE ClearAdminFlag
        BY <2>1, <4>2 DEF ClearAdminFlag, OwnIsSettled
      <4>3. CASE MigrateAdmin
        BY <4>3 DEF MigrateAdmin, OldDefault
      <4> QED BY <2>2, <4>1, <4>2, <4>3
    <3> QED BY <2>2, <3>1 DEF CreateAdmin, ClearAdminFlag, MigrateAdmin
  <2>3. CASE \E r \in Departures : MigrateDeparture(r)
    BY <2>1, <2>3 DEF MigrateDeparture, Unmigrated
  <2>4. CASE UNCHANGED <<admin, approval>>
    BY <2>4
  <2> QED BY <2>0, <2>2, <2>3, <2>4 DEF OpenStep, Start, Crash, tables, MakeDepartment,
     SkipBlank, LinkDepartment, SeedPosition, MigrateTitles, SeedHire, UpsertClient, NextStage
<1>2. [Keeps]_vars => [Opening => \A r \in Departures : approval[r].status # "none" => approval'[r] = approval[r]]_vars
                      /\ [Opening /\ admin.password = "own" => admin' = admin]_vars
  OBVIOUS
<1> QED BY <1>1, <1>2, TypedThroughout, OwnSettled, PTL DEF Spec, ChoicesKept, DecisionsKept,
   AdminPasswordKept
--------------------------------------------------------------------------------
(* What is served is whole.  Each stage leaves something behind that the later  *)
(* ones and the people rely on.                                                 *)

(* Until the general position is there nobody can have taken its name.          *)
SeedsOnly == \A p \in PosIds : posName[p] # None => p \in DOMAIN Catalogue /\ posName[p] = Catalogue[p]
GeneralKept ==
  /\ posName[General] # None \/ SeedsOnly
  /\ pc = "positions" => posName[General] # None \/ General \in todo
  /\ pc \notin {"down", "failed", "departments", "link", "positions"} => posName[General] # None

(* Employees and offers refer to rows that are there, under their names.        *)
RowsKept ==
  /\ \A e \in Employees : emp[e].pos = General \/ posName[emp[e].pos] # None
  /\ \A e \in Employees : emp[e].deptId # None =>
       deptName[emp[e].deptId] # None /\ emp[e].dept = deptName[emp[e].deptId]
  /\ \A o \in offers : deptName[o[1]] # None /\ posName[o[2]] # None

(* A department text without an id is blank, or still to be migrated.           *)
TextLeft(e) == emp[e].deptId = None =>
  \/ Trim[emp[e].dept] = None
  \/ pc \in {"down", "failed"}
  \/ pc \in {"departments", "link"} /\ emp[e].dept \in todo
TextsLeft == \A e \in Employees : TextLeft(e)

(* Once the titles are migrated everybody has a position that is offered to her. *)
Placed(e) == /\ posName[emp[e].pos] # None /\ emp[e].title = posName[emp[e].pos]
             /\ emp[e].deptId # None => <<emp[e].deptId, emp[e].pos>> \in offers
TitlesKept == pc \in {"departures", "events", "clients", "serving"} => \A e \in Employees : Placed(e)

Progress ==
  /\ pc = "events" => Employees \subseteq hires \cup todo
  /\ pc \in {"clients", "serving"} => Employees \subseteq hires
  /\ pc = "clients" => \A c \in Clients : client[c] = config \/ c \in todo
  /\ pc = "serving" => \A c \in Clients : client[c] = config

Whole == GeneralKept /\ RowsKept /\ TextsLeft /\ TitlesKept /\ Progress

LEMMA WholeServes == Typed /\ Whole => StartupSound
<1> SUFFICES ASSUME Typed, Whole PROVE StartupSound
  OBVIOUS
<1>1. SnapshotsInSync
  BY DEF SnapshotsInSync, Whole, RowsKept, TextsLeft, TextLeft, TitlesKept, Placed
<1>2. HistoryBegins /\ ClientsConfigured
  BY DEF HistoryBegins, ClientsConfigured, Whole, Progress, Typed, StartupTypeOK
<1> QED BY <1>1, <1>2 DEF StartupSound, Typed

LEMMA InitWhole == Init => Whole
  BY OldDatabase DEF Init, Whole, GeneralKept, SeedsOnly, RowsKept, TextsLeft, TextLeft,
     TitlesKept, Progress

LEMMA ProgressKept == ASSUME Typed, Progress, Next PROVE Progress'
<1> USE DEF Progress
<1>1. CASE Start \/ Crash \/ LinkDepartment \/ CreateAdmin \/ ClearAdminFlag \/ MigrateAdmin \/ MigrateTitles
  <2>1. pc' \notin {"events", "clients", "serving"}
    BY <1>1 DEF Start, Crash, LinkDepartment, CreateAdmin, ClearAdminFlag, MigrateAdmin,
       MigrateTitles, Goto
  <2> QED BY <2>1
<1>2. CASE NextStage
  BY <1>2 DEF NextStage, Goto, ToSeed, tables
<1>3. CASE \E e \in Employees : SeedHire(e)
  BY <1>3 DEF SeedHire, Loop, Goto
<1>4. CASE \E c \in Clients : UpsertClient(c)
  BY <1>4 DEF UpsertClient, Stored, Loop, Goto, Typed, StartupTypeOK
<1>5. CASE \/ \E t \in Texts : MakeDepartment(t) \/ SkipBlank(t)
           \/ \E p \in DOMAIN Catalogue : SeedPosition(p)
           \/ \E r \in Departures : MigrateDeparture(r)
  <2>1. pc' \notin {"events", "clients", "serving"}
    BY <1>5 DEF MakeDepartment, SkipBlank, SeedPosition, MigrateDeparture, Loop, Goto
  <2> QED BY <2>1
<1>6. CASE People
  <2>1. UNCHANGED <<pc, todo, hires, client, config>>
    BY <1>6 DEF People, RenamePosition, CreatePosition, DeletePosition, RenameDepartment,
       UpdateEmployee, ReviewApproval, ChangeAdminPassword, Change
  <2> QED BY <2>1
<1> QED BY <1>1, <1>2, <1>3, <1>4, <1>5, <1>6 DEF Next, OpenStep

LEMMA GeneralStays == ASSUME Typed, GeneralKept, Next PROVE GeneralKept'
<1> USE DEF GeneralKept
<1>0. posName \in [PosIds -> Names \cup {None}] /\ General \in PosIds /\ None \notin Names
  BY TypedParts, TextsTyped DEF Rows
<1>1. CASE Start \/ Crash \/ LinkDepartment \/ CreateAdmin \/ ClearAdminFlag \/ MigrateAdmin
  BY <1>1 DEF Start, Crash, LinkDepartment, CreateAdmin, ClearAdminFlag, MigrateAdmin, Goto,
     tables, peopleVars, SeedsOnly, Opening
<1>2. CASE NextStage
  BY <1>2, StartupAssumption DEF NextStage, Goto, tables, peopleVars, SeedsOnly
<1>3. CASE \E p \in DOMAIN Catalogue : SeedPosition(p)
  <2>1. PICK p \in DOMAIN Catalogue : SeedPosition(p)
    BY <1>3
  <2>2. p \in PosIds /\ Catalogue[p] \in Names
    BY TextsTyped
  <2>3. pc = "positions" /\ pc' = "positions" /\ todo' = todo \ {p}
    BY <2>1 DEF SeedPosition, Loop, Goto
  <2>4. posName[General] # None \/ SeedsOnly'
    BY <1>0, <2>1, <2>2 DEF SeedPosition, SeedsOnly
  <2>5. posName[General] # None => posName'[General] # None
    BY <1>0, <2>1, <2>2 DEF SeedPosition
  <2>6. CASE p = General /\ posName[General] = None
    <3>1. ~SeedConflict(General)
      BY <2>2, <2>6, <1>0, StartupAssumption DEF SeedConflict, FreeName, SeedsOnly
    <3>2. posName'[General] # None
      BY <1>0, <2>1, <2>2, <2>6, <3>1 DEF SeedPosition
    <3> QED BY <2>3, <3>2
  <2> QED BY <2>3, <2>4, <2>5, <2>6
<1>4. CASE MigrateTitles
  <2>1. posName' = posName \/ posName' = WithLegacyPositions
    BY <1>4 DEF MigrateTitles, peopleVars
  <2>2. posName'[General] # None
    BY <1>0, <1>4, <2>1, LegacyPositions, TypedParts DEF MigrateTitles
  <2> QED BY <1>4, <2>2 DEF MigrateTitles, Goto
<1>5. CASE People
  <2>1. Change
    BY <1>5 DEF People, RenamePosition, CreatePosition, DeletePosition, RenameDepartment,
       UpdateEmployee, ReviewApproval, ChangeAdminPassword
  <2>2. ASSUME NEW p \in PosIds, NEW n \in Names, RenamePosition(p, n) \/ CreatePosition(p, n)
        PROVE  posName'[General] # None
    BY <1>0, <2>1, <2>2 DEF Change, RenamePosition, CreatePosition
  <2>3. ASSUME NEW p \in PosIds, DeletePosition(p) PROVE posName'[General] # None
    BY <1>0, <2>1, <2>3 DEF Change, DeletePosition
  <2>4. ASSUME UNCHANGED posName PROVE posName'[General] # None
    BY <2>1, <2>4 DEF Change
  <2>5. posName'[General] # None
    BY <1>5, <2>2, <2>3, <2>4 DEF People, RenameDepartment, UpdateEmployee, ReviewApproval,
       ChangeAdminPassword, peopleVars
  <2> QED BY <2>1, <2>5 DEF Change
<1>6. CASE \/ \E t \in Texts : MakeDepartment(t) \/ SkipBlank(t)
           \/ \E r \in Departures : MigrateDeparture(r)
           \/ \E e \in Employees : SeedHire(e)
           \/ \E c \in Clients : UpsertClient(c)
  <2>1. posName' = posName
    BY <1>6 DEF MakeDepartment, SkipBlank, MigrateDeparture, SeedHire, UpsertClient, tables,
       peopleVars
  <2>2. (pc' = pc /\ pc # "positions") \/ pc' = "link"
    BY <1>6 DEF MakeDepartment, SkipBlank, MigrateDeparture, SeedHire, UpsertClient, Loop, Goto
  <2> QED BY <2>1, <2>2 DEF SeedsOnly
<1> QED BY <1>1, <1>2, <1>3, <1>4, <1>5, <1>6 DEF Next, OpenStep
(* New rows for departments and positions leave what refers to the old ones.    *)
LEMMA RowsGrow ==
  ASSUME Rows, RowsKept, emp' = emp, offers' = offers,
         \A d \in DeptIds : deptName[d] = None \/ deptName'[d] = deptName[d],
         \A p \in PosIds : posName[p] = None \/ posName'[p] = posName[p]
  PROVE  RowsKept'
<1>1. \A e \in Employees : emp[e].pos \in PosIds /\ (emp[e].deptId = None \/ emp[e].deptId \in DeptIds)
  BY DEF Rows, EmpType
<1>2. \A o \in offers : o[1] \in DeptIds /\ o[2] \in PosIds
  BY DEF Rows
<1> QED BY <1>1, <1>2 DEF RowsKept

(* LinkDepartment gives the members of a text the department of that name.      *)
LinkId == Lower[Trim[cur]]
LEMMA Linked ==
  ASSUME Typed, LinkDepartment, NEW e \in Employees
  PROVE  \/ emp'[e] = emp[e]
         \/ /\ e \in LegacyMembers(cur) /\ LinkId \in DeptIds /\ deptName[LinkId] = Trim[cur]
            /\ emp'[e].deptId = LinkId /\ emp'[e].dept = Trim[cur] /\ LinkId # None /\ Trim[cur] # None
            /\ emp'[e].pos = emp[e].pos /\ emp'[e].title = emp[e].title
<1>1. cur \in Texts /\ Trim[cur] # None /\ LinkId \in DeptIds /\ LinkId # None
  BY TextsTyped DEF LinkDepartment, Typed, AtLink, LinkId
<1>2. emp[e] \in EmpType
  BY TypedParts DEF Rows
<1>3. \/ emp'[e] = emp[e]
      \/ /\ e \in LegacyMembers(cur) /\ deptName[LinkId] = Trim[cur]
         /\ emp'[e] = [emp[e] EXCEPT !.deptId = LinkId, !.dept = deptName[LinkId]]
  BY DEF LinkDepartment, LinkId
<1> QED BY <1>1, <1>2, <1>3 DEF EmpType

(* MigrateTitles gives everybody the position her title leads to.               *)
LEMMA TitlesMigrated ==
  ASSUME Typed, GeneralKept, MigrateTitles, \A e \in Employees : ~Lost(e)
  PROVE  /\ posName' = WithLegacyPositions /\ deptName' = deptName
         /\ \A p \in PosIds : posName[p] = None \/ posName'[p] = posName[p]
         /\ \A e \in Employees :
              /\ Home(e) \in PosIds /\ posName'[Home(e)] # None
              /\ emp'[e] = [emp[e] EXCEPT !.pos = Home(e), !.title = WithLegacyPositions[Home(e)]]
              /\ emp'[e].pos = Home(e) /\ emp'[e].title = posName'[Home(e)]
              /\ emp'[e].deptId = emp[e].deptId /\ emp'[e].dept = emp[e].dept
         /\ offers' = offers \cup {<<emp[e].deptId, Home(e)>> : e \in {m \in Employees : emp[m].deptId # None}}
<1>1. /\ posName' = WithLegacyPositions /\ deptName' = deptName
      /\ emp' = [e \in Employees |-> [emp[e] EXCEPT !.pos = Home(e), !.title = WithLegacyPositions[Home(e)]]]
      /\ offers' = offers \cup {<<emp[e].deptId, Home(e)>> : e \in {m \in Employees : emp[m].deptId # None}}
  BY DEF MigrateTitles
<1>2. Rows
  BY TypedParts
<1>3. \A p \in PosIds : posName[p] = None \/ posName'[p] = posName[p]
  BY <1>1, <1>2, LegacyPositions
<1>4. ASSUME NEW e \in Employees PROVE Home(e) \in PosIds /\ posName'[Home(e)] # None
  BY <1>1, <1>2, <1>3, HomeFound, TextsTyped DEF GeneralKept, MigrateTitles
<1>5. ASSUME NEW e \in Employees PROVE
        /\ emp'[e] = [emp[e] EXCEPT !.pos = Home(e), !.title = WithLegacyPositions[Home(e)]]
        /\ emp'[e].pos = Home(e) /\ emp'[e].title = posName'[Home(e)]
        /\ emp'[e].deptId = emp[e].deptId /\ emp'[e].dept = emp[e].dept
  <2>1. emp[e] \in EmpType
    BY <1>2 DEF Rows
  <2>2. emp'[e] = [emp[e] EXCEPT !.pos = Home(e), !.title = WithLegacyPositions[Home(e)]]
    BY <1>1
  <2> QED BY <1>1, <2>1, <2>2 DEF EmpType
<1> QED BY <1>1, <1>3, <1>4, <1>5

(* Renamings, reviews of an employee's place, new and deleted positions. *)
LEMMA PeopleWhole ==
  ASSUME Typed, RowsKept, \A e \in Employees : Placed(e), \A e \in Employees : TextLeft(e), pc = "serving", People
  PROVE  /\ RowsKept' /\ \A e \in Employees : Placed(e)' /\ TextLeft(e)'
<1>0. /\ Rows /\ UNCHANGED <<pc, todo>> /\ None \notin Names
      /\ \A e \in Employees : /\ emp[e] \in EmpType /\ emp[e].pos \in PosIds
                              /\ emp[e].deptId = None \/ emp[e].deptId \in DeptIds
      /\ \A o \in offers : o[1] \in DeptIds /\ o[2] \in PosIds
      /\ posName \in [PosIds -> Names \cup {None}] /\ deptName \in [DeptIds -> Names \cup {None}]
  <2>1. UNCHANGED <<pc, todo>>
    BY DEF People, RenamePosition, CreatePosition, DeletePosition, RenameDepartment,
       UpdateEmployee, ReviewApproval, ChangeAdminPassword, Change
  <2> QED BY <2>1, TypedParts, TextsTyped DEF Rows, EmpType
<1>1. ASSUME UNCHANGED peopleVars
      PROVE RowsKept' /\ \A e \in Employees : Placed(e)' /\ TextLeft(e)'
  BY <1>0, <1>1 DEF peopleVars, RowsKept, Placed, TextLeft
<1>2. ASSUME NEW p \in PosIds, NEW n \in Names, RenamePosition(p, n)
      PROVE RowsKept' /\ \A e \in Employees : Placed(e)' /\ TextLeft(e)'
  <2>1. /\ posName' = [posName EXCEPT ![p] = n] /\ posName[p] # None /\ UNCHANGED <<deptName, offers>>
        /\ n # None
    BY <1>0, <1>2 DEF RenamePosition
  <2>2. ASSUME NEW e \in Employees
        PROVE  /\ emp'[e].pos = emp[e].pos /\ emp'[e].deptId = emp[e].deptId /\ emp'[e].dept = emp[e].dept
               /\ emp'[e].title = IF emp[e].pos = p THEN n ELSE emp[e].title
    BY <1>0, <1>2 DEF RenamePosition, Retitled, EmpType
  <2>3. \A q \in PosIds : posName'[q] = IF q = p THEN n ELSE posName[q]
    BY <1>0, <2>1
  <2>4. RowsKept'
    BY <1>0, <2>1, <2>2, <2>3 DEF RowsKept
  <2>5. ASSUME NEW e \in Employees PROVE Placed(e)' /\ TextLeft(e)'
    BY <1>0, <2>1, <2>2, <2>3 DEF Placed, TextLeft
  <2> QED BY <2>4, <2>5
<1>3. ASSUME NEW p \in PosIds, NEW n \in Names, CreatePosition(p, n)
      PROVE RowsKept' /\ \A e \in Employees : Placed(e)' /\ TextLeft(e)'
  <2>1. /\ posName' = [posName EXCEPT ![p] = n] /\ posName[p] = None /\ UNCHANGED <<deptName, emp>>
        /\ n # None /\ offers' = offers \cup ({d \in DeptIds : deptName[d] # None} \X {p})
    BY <1>0, <1>3 DEF CreatePosition
  <2>3. \A q \in PosIds : posName'[q] = IF q = p THEN n ELSE posName[q]
    BY <1>0, <2>1
  <2>4. RowsKept'
    BY <1>0, <2>1, <2>3 DEF RowsKept
  <2>5. ASSUME NEW e \in Employees PROVE Placed(e)' /\ TextLeft(e)'
    BY <1>0, <2>1, <2>3 DEF Placed, TextLeft
  <2> QED BY <2>4, <2>5
<1>4. ASSUME NEW p \in PosIds, DeletePosition(p)
      PROVE RowsKept' /\ \A e \in Employees : Placed(e)' /\ TextLeft(e)'
  <2>1. /\ posName' = [posName EXCEPT ![p] = None] /\ UNCHANGED <<deptName, emp>>
        /\ offers' = {o \in offers : o[2] # p} /\ \A e \in Employees : emp[e].pos # p
    BY <1>4 DEF DeletePosition
  <2>3. \A q \in PosIds : posName'[q] = IF q = p THEN None ELSE posName[q]
    BY <1>0, <2>1
  <2>4. RowsKept'
    BY <1>0, <2>1, <2>3 DEF RowsKept
  <2>5. ASSUME NEW e \in Employees PROVE Placed(e)' /\ TextLeft(e)'
    BY <1>0, <2>1, <2>3 DEF Placed, TextLeft
  <2> QED BY <2>4, <2>5
<1>5. ASSUME NEW d \in DeptIds, NEW n \in Names, RenameDepartment(d, n)
      PROVE RowsKept' /\ \A e \in Employees : Placed(e)' /\ TextLeft(e)'
  <2>1. deptName' = [deptName EXCEPT ![d] = n] /\ n # None /\ d # None /\ UNCHANGED <<posName, offers>>
    BY <1>0, <1>5, TextsTyped DEF RenameDepartment
  <2>2. ASSUME NEW e \in Employees
        PROVE  /\ emp'[e].pos = emp[e].pos /\ emp'[e].deptId = emp[e].deptId /\ emp'[e].title = emp[e].title
               /\ emp'[e].dept = IF emp[e].deptId = d THEN n ELSE emp[e].dept
    BY <1>0, <1>5 DEF RenameDepartment, EmpType
  <2>3. \A f \in DeptIds : deptName'[f] = IF f = d THEN n ELSE deptName[f]
    BY <1>0, <2>1
  <2>4. RowsKept'
    BY <1>0, <2>1, <2>2, <2>3 DEF RowsKept
  <2>5. ASSUME NEW e \in Employees PROVE Placed(e)' /\ TextLeft(e)'
    BY <1>0, <2>1, <2>2, <2>3 DEF Placed, TextLeft
  <2> QED BY <2>4, <2>5
<1>6. ASSUME NEW f \in Employees, NEW d \in DeptIds, NEW p \in PosIds, UpdateEmployee(f, d, p)
      PROVE RowsKept' /\ \A e \in Employees : Placed(e)' /\ TextLeft(e)'
  <2>1. /\ <<d, p>> \in offers /\ UNCHANGED <<deptName, posName, offers>> /\ d # None
        /\ deptName[d] # None /\ posName[p] # None
    BY <1>6, TextsTyped DEF UpdateEmployee, RowsKept
  <2>2. emp'[f] = [dept |-> deptName[d], deptId |-> d, title |-> posName[p], pos |-> p]
    BY <1>0, <1>6 DEF UpdateEmployee, Rows
  <2>3. \A e \in Employees \ {f} : emp'[e] = emp[e]
    BY <1>0, <1>6 DEF UpdateEmployee, Rows
  <2>4. RowsKept'
    BY <1>0, <2>1, <2>2, <2>3 DEF RowsKept
  <2>5. ASSUME NEW e \in Employees PROVE Placed(e)' /\ TextLeft(e)'
    BY <1>0, <2>1, <2>2, <2>3 DEF Placed, TextLeft
  <2> QED BY <2>4, <2>5
<1> QED BY <1>1, <1>2, <1>3, <1>4, <1>5, <1>6 DEF People, ReviewApproval, ChangeAdminPassword

LEMMA RowsStay == ASSUME Typed, Whole, Next PROVE RowsKept'
<1>0. Rows /\ RowsKept
  BY TypedParts DEF Whole
<1>1. CASE \E t \in Texts : MakeDepartment(t)
  BY <1>0, <1>1, RowsGrow DEF MakeDepartment, Rows
<1>2. CASE \E p \in DOMAIN Catalogue : SeedPosition(p)
  BY <1>0, <1>2, RowsGrow DEF SeedPosition, SeedConflict, Rows
<1>3. CASE LinkDepartment
  <2>1. UNCHANGED <<deptName, posName, offers>>
    BY <1>3 DEF LinkDepartment
  <2> QED BY <1>0, <1>3, <2>1, Linked DEF RowsKept
<1>4. CASE MigrateTitles /\ \A e \in Employees : ~Lost(e)
  <2>1. /\ deptName' = deptName /\ \A p \in PosIds : posName[p] = None \/ posName'[p] = posName[p]
        /\ \A e \in Employees : /\ Home(e) \in PosIds /\ posName'[Home(e)] # None /\ emp'[e].pos = Home(e)
                                /\ emp'[e].deptId = emp[e].deptId /\ emp'[e].dept = emp[e].dept
        /\ offers' = offers \cup {<<emp[e].deptId, Home(e)>> : e \in {m \in Employees : emp[m].deptId # None}}
    BY <1>4, TitlesMigrated DEF Whole
  <2>2. ASSUME NEW o \in offers' PROVE deptName'[o[1]] # None /\ posName'[o[2]] # None
    <3>1. CASE o \in offers
      BY <1>0, <2>1, <3>1 DEF Rows, RowsKept
    <3>2. CASE o \notin offers
      <4>1. PICK e \in Employees : emp[e].deptId # None /\ o = <<emp[e].deptId, Home(e)>>
        BY <2>1, <2>2, <3>2
      <4> QED BY <1>0, <2>1, <4>1 DEF RowsKept
    <3> QED BY <3>1, <3>2
  <2> QED BY <1>0, <2>1, <2>2 DEF RowsKept
<1>5. CASE People
  <2>1. pc = "serving"
    BY <1>5 DEF People, RenamePosition, CreatePosition, DeletePosition, RenameDepartment,
       UpdateEmployee, ReviewApproval, ChangeAdminPassword, Change
  <2> QED BY <1>5, <2>1, PeopleWhole DEF Whole, TitlesKept, TextsLeft
<1>6. CASE UNCHANGED peopleVars
  BY <1>0, <1>6 DEF peopleVars, RowsKept
<1>7. MigrateTitles => (\A e \in Employees : ~Lost(e)) \/ UNCHANGED peopleVars
  BY DEF MigrateTitles
<1> QED BY <1>1, <1>2, <1>3, <1>4, <1>5, <1>6, <1>7 DEF Next, OpenStep, Start, Crash, tables,
   SkipBlank, CreateAdmin, ClearAdminFlag, MigrateAdmin, MigrateDeparture, SeedHire,
   UpsertClient, NextStage

LEMMA TextsStay == ASSUME Typed, Whole, Next PROVE TextsLeft'
<1> SUFFICES ASSUME NEW e \in Employees PROVE TextLeft(e)'
  BY DEF TextsLeft
<1>0. TextLeft(e) /\ Rows /\ emp[e] \in EmpType
  BY TypedParts DEF Whole, TextsLeft, Rows
<1>1. CASE Start
  <2>1. emp[e].deptId = None /\ emp[e].dept # None => emp[e].dept \in LegacyTexts
    BY <1>0 DEF LegacyTexts, LegacyMembers, EmpType
  <2> QED BY <1>1, <2>1, TextsTyped DEF Start, Goto, TextLeft, tables, peopleVars
<1>2. CASE Crash
  BY <1>2 DEF Crash, Goto, TextLeft
<1>3. CASE \E t \in Texts : MakeDepartment(t)
  BY <1>0, <1>3 DEF MakeDepartment, TextLeft
<1>4. CASE \E t \in Texts : SkipBlank(t)
  BY <1>0, <1>4 DEF SkipBlank, Loop, Goto, TextLeft, tables, peopleVars
<1>5. CASE LinkDepartment
  <2>1. CASE pc' = "failed"
    BY <2>1 DEF TextLeft
  <2>2. CASE pc' # "failed"
    <3>1. /\ pc = "link" /\ pc' = "departments" /\ todo' = todo \ {cur} /\ deptName[LinkId] = Trim[cur]
          /\ emp'[e] = IF e \in LegacyMembers(cur)
                       THEN [emp[e] EXCEPT !.deptId = LinkId, !.dept = deptName[LinkId]] ELSE emp[e]
      BY <1>5, <2>2 DEF LinkDepartment, Goto, LinkId
    <3>2. CASE e \in LegacyMembers(cur)
      <4>1. LinkId # None
        BY <1>5, TextsTyped DEF LinkDepartment, Typed, AtLink, LinkId
      <4>2. emp'[e].deptId = LinkId
        BY <1>0, <3>1, <3>2 DEF EmpType
      <4> QED BY <4>1, <4>2 DEF TextLeft
    <3>3. CASE e \notin LegacyMembers(cur)
      BY <1>0, <3>1, <3>3 DEF TextLeft, LegacyMembers
    <3> QED BY <3>2, <3>3
  <2> QED BY <2>1, <2>2
<1>6. CASE MigrateTitles
  <2>1. emp'[e].deptId = emp[e].deptId /\ emp'[e].dept = emp[e].dept
    <3>1. CASE \A f \in Employees : ~Lost(f)
      BY <1>6, <3>1, TitlesMigrated DEF Whole
    <3>2. CASE \E f \in Employees : Lost(f)
      BY <1>6, <3>2 DEF MigrateTitles, peopleVars
    <3> QED BY <3>1, <3>2
  <2> QED BY <1>0, <1>6, <2>1 DEF MigrateTitles, Goto, TextLeft
<1>7. CASE NextStage
  BY <1>0, <1>7 DEF NextStage, Goto, TextLeft, tables, peopleVars
<1>8. CASE People
  <2>1. pc = "serving"
    BY <1>8 DEF People, RenamePosition, CreatePosition, DeletePosition, RenameDepartment,
       UpdateEmployee, ReviewApproval, ChangeAdminPassword, Change
  <2> QED BY <1>8, <2>1, PeopleWhole DEF Whole, TitlesKept, TextsLeft
<1>9. CASE \/ \E p \in DOMAIN Catalogue : SeedPosition(p)
           \/ CreateAdmin \/ ClearAdminFlag \/ MigrateAdmin
           \/ \E r \in Departures : MigrateDeparture(r)
           \/ \E f \in Employees : SeedHire(f)
           \/ \E c \in Clients : UpsertClient(c)
  <2>1. emp' = emp /\ pc \notin {"down", "failed", "departments", "link"}
    BY <1>9 DEF SeedPosition, CreateAdmin, ClearAdminFlag, MigrateAdmin, MigrateDeparture,
       SeedHire, UpsertClient, peopleVars
  <2> QED BY <1>0, <2>1 DEF TextLeft
<1> QED BY <1>1, <1>2, <1>3, <1>4, <1>5, <1>6, <1>7, <1>8, <1>9 DEF Next, OpenStep

(* The stages after the titles disturb neither rows nor titles. *)
LEMMA TitlesStay == ASSUME Typed, Whole, Next PROVE TitlesKept'
<1>1. CASE MigrateTitles
  <2>1. CASE \E e \in Employees : Lost(e)
    BY <1>1, <2>1 DEF MigrateTitles, Goto, TitlesKept
  <2>2. CASE \A e \in Employees : ~Lost(e)
    <3>1. ASSUME NEW e \in Employees PROVE Placed(e)'
      <4>1. /\ posName'[Home(e)] # None /\ emp'[e].pos = Home(e) /\ emp'[e].title = posName'[Home(e)]
            /\ emp'[e].deptId = emp[e].deptId
            /\ offers' = offers \cup {<<emp[f].deptId, Home(f)>> : f \in {m \in Employees : emp[m].deptId # None}}
        BY <1>1, <2>2, TitlesMigrated DEF Whole
      <4> QED BY <4>1 DEF Placed
    <3> QED BY <3>1 DEF TitlesKept
  <2> QED BY <2>1, <2>2
<1>2. CASE People
  <2>1. pc = "serving"
    BY <1>2 DEF People, RenamePosition, CreatePosition, DeletePosition, RenameDepartment,
       UpdateEmployee, ReviewApproval, ChangeAdminPassword, Change
  <2> QED BY <1>2, <2>1, PeopleWhole DEF Whole, TitlesKept, TextsLeft
<1>3. CASE \/ NextStage
           \/ \E r \in Departures : MigrateDeparture(r)
           \/ \E e \in Employees : SeedHire(e)
           \/ \E c \in Clients : UpsertClient(c)
  <2>1. UNCHANGED peopleVars
    BY <1>3 DEF NextStage, MigrateDeparture, SeedHire, UpsertClient, tables
  <2>2. pc' \in {"departures", "events", "clients", "serving"} => pc \in {"departures", "events", "clients"}
    BY <1>3 DEF NextStage, MigrateDeparture, SeedHire, UpsertClient, Loop, Goto
  <2> QED BY <2>1, <2>2 DEF Whole, TitlesKept, Placed, peopleVars
<1>4. CASE \/ Start \/ Crash \/ LinkDepartment \/ CreateAdmin \/ ClearAdminFlag \/ MigrateAdmin
           \/ \E t \in Texts : MakeDepartment(t) \/ SkipBlank(t)
           \/ \E p \in DOMAIN Catalogue : SeedPosition(p)
  <2>1. pc' \notin {"departures", "events", "clients", "serving"}
    BY <1>4 DEF Start, Crash, LinkDepartment, CreateAdmin, ClearAdminFlag, MigrateAdmin,
       MakeDepartment, SkipBlank, SeedPosition, Loop, Goto
  <2> QED BY <2>1 DEF TitlesKept
<1> QED BY <1>1, <1>2, <1>3, <1>4 DEF Next, OpenStep

LEMMA WholeThroughout == Spec => [](Typed /\ Whole)
<1>1. Typed /\ Whole /\ [Next]_vars => Whole'
  <2> SUFFICES ASSUME Typed, Whole, [Next]_vars PROVE Whole'
    OBVIOUS
  <2>1. CASE Next
    BY <2>1, GeneralStays, RowsStay, TextsStay, TitlesStay, ProgressKept DEF Whole
  <2>2. CASE UNCHANGED vars
    BY <2>2 DEF vars, tables, peopleVars, Whole, GeneralKept, SeedsOnly, RowsKept, TextsLeft,
       TextLeft, TitlesKept, Placed, Progress
  <2> QED BY <2>1, <2>2
<1> QED BY <1>1, InitWhole, TypedThroughout, PTL DEF Spec

(* Whatever was interrupted, repeated or changed before: everybody is served    *)
(* with a position that exists and is offered in her department, under the      *)
(* names these have now, with a hire event, by clients with current secrets.    *)
THEOREM ServedWhole == Spec => []StartupSound
  BY WholeThroughout, WholeServes, PTL

--------------------------------------------------------------------------------
(* Where employees are placed *)

OpenPhase == Start \/ OpenStep \/ Crash
LEMMA OpenPhases == ASSUME Next, Opening PROVE OpenPhase
  BY DEF Next, OpenPhase, Opening, People, RenamePosition, CreatePosition, DeletePosition,
     RenameDepartment, UpdateEmployee, ReviewApproval, ChangeAdminPassword, Change

(* Only two statements of Open write to the employees. *)
LEMMA OthersWriteNoEmployee ==
  ASSUME OpenPhase, ~LinkDepartment, ~(MigrateTitles /\ \A e \in Employees : ~Lost(e))
  PROVE  emp' = emp
  BY DEF OpenPhase, OpenStep, Start, Crash, tables, peopleVars, MakeDepartment, SkipBlank,
     SeedPosition, CreateAdmin, ClearAdminFlag, MigrateAdmin, MigrateTitles,
     MigrateDeparture, SeedHire, UpsertClient, NextStage

(* Open moves only those it migrates, and to what their old texts said: the     *)
(* department of that name, the position of that title in any case of letters,  *)
(* the general position for a blank title.                                      *)
THEOREM MigratedRightly == Spec => MigrationFaithful
<1> DEFINE Faithful(e) ==
      /\ emp'[e].deptId # emp[e].deptId => emp[e].deptId = None /\ deptName'[emp'[e].deptId] = Trim[emp[e].dept]
      /\ emp'[e].pos # emp[e].pos => IF Title(e) = None THEN emp'[e].pos = General
                                     ELSE Lower[posName'[emp'[e].pos]] = Lower[Title(e)]
           Right == Opening => \A e \in Employees : Faithful(e)
<1>1. Typed /\ Whole /\ [Next]_vars => [Right]_vars
  <2> SUFFICES ASSUME Typed, Whole, Next, Opening, NEW e \in Employees PROVE Faithful(e)
    OBVIOUS
  <2>1. CASE LinkDepartment
    <3>1. deptName' = deptName
      BY <2>1 DEF LinkDepartment
    <3> QED BY <2>1, <3>1, Linked DEF LegacyMembers
  <2>2. CASE MigrateTitles /\ \A f \in Employees : ~Lost(f)
    <3>1. /\ posName' = WithLegacyPositions /\ emp'[e].pos = Home(e) /\ emp'[e].deptId = emp[e].deptId
          /\ posName'[Home(e)] # None /\ Home(e) \in PosIds
      BY <2>2, TitlesMigrated DEF Whole
    <3>2. /\ Title(e) = None => Home(e) = General
          /\ Title(e) # None => SqlLower[posName'[Home(e)]] = Lower[Title(e)]
      BY <2>2, <3>1, HomeFound, TypedParts
    <3>3. posName'[Home(e)] \in Names
      BY <3>1, LegacyPositions, TypedParts
    <3>4. Title(e) \in Names \cup {None}
      BY TypedParts, TextsTyped DEF Title, Rows, EmpType
    <3>5. Title(e) # None => Lower[posName'[Home(e)]] = Lower[Title(e)]
      BY <3>2, <3>3, <3>4, StartupAssumption
    <3> QED BY <3>1, <3>2, <3>5
  <2>3. CASE emp' = emp
    BY <2>3
  <2> QED BY <2>1, <2>2, <2>3, OpenPhases, OthersWriteNoEmployee
<1> QED BY <1>1, WholeThroughout, PTL DEF Spec, MigrationFaithful

(* Positions whose names differ in case only: NameAllowed keeps them apart as    *)
(* far as SQLite folds the names, and seedPositions does not.                    *)
Distinct(table) == \A p, q \in PosIds :
  /\ p # q /\ table[p] # None /\ table[q] # None
  /\ Lower[table[p]] = Lower[table[q]]
  /\ SqlLower[table[p]] = Lower[table[p]] /\ SqlLower[table[q]] = Lower[table[q]]
  => FromCatalogue(table, p) \/ FromCatalogue(table, q)

(* A name that SqlLower keeps apart from those there are may be written.        *)
LEMMA DistinctWritten ==
  ASSUME Typed, Distinct(posName), NEW p \in PosIds, NEW n \in Names,
         posName' = [posName EXCEPT ![p] = n],
         \A q \in PosIds \ {p} :
           posName[q] # None => SqlLower[posName[q]] # Lower[n] \/ FromCatalogue(posName', p)
  PROVE  Distinct(posName)'
<1>0. posName \in [PosIds -> Names \cup {None}] /\ None \notin Names
  BY TypedParts, TextsTyped DEF Rows
<1>1. \A q \in PosIds : posName'[q] = IF q = p THEN n ELSE posName[q]
  BY <1>0
<1>2. SUFFICES ASSUME NEW q \in PosIds, NEW r \in PosIds, q # r,
                      posName'[q] # None, posName'[r] # None, Lower[posName'[q]] = Lower[posName'[r]],
                      SqlLower[posName'[q]] = Lower[posName'[q]], SqlLower[posName'[r]] = Lower[posName'[r]]
               PROVE  FromCatalogue(posName', q) \/ FromCatalogue(posName', r)
  BY DEF Distinct
<1>3. CASE q = p
  BY <1>1, <1>2, <1>3
<1>4. CASE r = p
  BY <1>1, <1>2, <1>4
<1>5. CASE q # p /\ r # p
  BY <1>1, <1>2, <1>5 DEF Distinct, FromCatalogue
<1> QED BY <1>3, <1>4, <1>5

LEMMA DistinctLegacy ==
  ASSUME Rows, Distinct(posName)
  PROVE  Distinct(WithLegacyPositions)
<1> DEFINE W == WithLegacyPositions
<1>1. SUFFICES ASSUME NEW p \in PosIds, NEW q \in PosIds, p # q, W[p] # None, W[q] # None,
                      Lower[W[p]] = Lower[W[q]],
                      SqlLower[W[p]] = Lower[W[p]], SqlLower[W[q]] = Lower[W[q]]
               PROVE  FromCatalogue(W, p) \/ FromCatalogue(W, q)
  BY DEF Distinct
<1>2. \A r \in PosIds : \/ W[r] = posName[r]
                        \/ posName[r] = None /\ W[r] \in NewTitles /\ Lower[W[r]] = r
  BY LegacyPositions
<1>3. \A n \in NewTitles, r \in PosIds : posName[r] # None => SqlLower[posName[r]] # Lower[n]
  BY DEF NewTitles, Named, Rows
<1> HIDE DEF W
<1> QED BY <1>1, <1>2, <1>3 DEF Distinct, FromCatalogue

LEMMA DistinctKept ==
  ASSUME Typed, Distinct(posName), Next
  PROVE  Distinct(posName)'
<1>0. Rows /\ posName \in [PosIds -> Names \cup {None}] /\ None \notin Names
  BY TypedParts, TextsTyped DEF Rows
<1>2. CASE \E p \in DOMAIN Catalogue : SeedPosition(p)
  <2>1. PICK p \in DOMAIN Catalogue : SeedPosition(p)
    BY <1>2
  <2>2. p \in PosIds /\ Catalogue[p] \in Names
    BY TextsTyped
  <2>3. CASE SeedConflict(p)
    BY <2>1, <2>3 DEF SeedPosition, Distinct
  <2>4. CASE ~SeedConflict(p)
    <3>1. posName' = [posName EXCEPT ![p] = Catalogue[p]]
      BY <2>1, <2>4 DEF SeedPosition
    <3>2. FromCatalogue(posName', p)
      BY <1>0, <2>2, <3>1 DEF FromCatalogue
    <3> QED BY <2>2, <3>1, <3>2, DistinctWritten
  <2> QED BY <2>3, <2>4
<1>3. CASE \E p \in PosIds, n \in Names : RenamePosition(p, n) \/ CreatePosition(p, n)
  <2>1. PICK p \in PosIds, n \in Names : RenamePosition(p, n) \/ CreatePosition(p, n)
    BY <1>3
  <2>2. posName' = [posName EXCEPT ![p] = n] /\ NameAllowed(posName, p, n)
    BY <2>1 DEF RenamePosition, CreatePosition
  <2>3. \A q \in PosIds \ {p} : posName[q] # None => SqlLower[posName[q]] # Lower[n]
    BY <1>0, <2>2 DEF NameAllowed
  <2> QED BY <2>2, <2>3, DistinctWritten
<1>4. CASE \E p \in PosIds : DeletePosition(p)
  <2>1. PICK p \in PosIds : DeletePosition(p)
    BY <1>4
  <2>2. \A q \in PosIds : posName'[q] = IF q = p THEN None ELSE posName[q]
    BY <1>0, <2>1 DEF DeletePosition
  <2> QED BY <2>2 DEF Distinct, FromCatalogue
<1>5. CASE MigrateTitles
  <2>1. posName' = posName \/ posName' = WithLegacyPositions
    BY <1>5 DEF MigrateTitles, peopleVars
  <2>2. ASSUME posName' = WithLegacyPositions PROVE Distinct(posName')
    BY <1>0, <2>2, DistinctLegacy
  <2> QED BY <2>1, <2>2
<1>6. CASE posName' = posName
  BY <1>6 DEF Distinct
<1> QED BY <1>2, <1>3, <1>4, <1>5, <1>6 DEF Next, OpenStep, People, Start, Crash, tables,
   peopleVars, MakeDepartment, SkipBlank, LinkDepartment, CreateAdmin, ClearAdminFlag,
   MigrateAdmin, MigrateDeparture, SeedHire, UpsertClient, NextStage, RenameDepartment,
   UpdateEmployee, ReviewApproval, ChangeAdminPassword

(* A restart moves nobody who has a department and a position under the names   *)
(* these have now, but to a position of that name in other letters' case, and   *)
(* that only where the catalogue or SQLite's folding let the two stand side by  *)
(* side: for every catalogue, every spelling and both foldings.                 *)
THEOREM RestartMovesToLookalikes == Spec => PlacesKept
<1> SUFFICES Spec => AssignmentsKept
  BY MigratedRightly DEF PlacesKept
<1> DEFINE Kept == Opening => \A e \in Employees : Settled(e) =>
             \/ emp'[e] = emp[e]
             \/ \E q \in PosIds :
                  /\ Lookalikes(posName', emp[e].pos, q)
                  /\ emp'[e] = [emp[e] EXCEPT !.pos = q, !.title = posName'[q]]
<1>1. Init => Distinct(posName)
  BY DEF Init, Distinct
<1>2. Distinct(posName) /\ Typed /\ [Next]_vars => Distinct(posName)'
  <2>1. CASE UNCHANGED vars
    BY <2>1 DEF vars, tables, peopleVars, Distinct
  <2> QED BY <2>1, DistinctKept
<1>3. Distinct(posName) /\ Typed /\ Whole /\ [Next]_vars => [Kept]_vars
  <2> SUFFICES ASSUME Distinct(posName), Typed, Whole, Next, Opening, NEW e \in Employees, Settled(e)
               PROVE  \/ emp'[e] = emp[e]
                      \/ \E q \in PosIds :
                           /\ Lookalikes(posName', emp[e].pos, q)
                           /\ emp'[e] = [emp[e] EXCEPT !.pos = q, !.title = posName'[q]]
    OBVIOUS
  <2>1. CASE LinkDepartment
    BY <2>1, Linked DEF Settled, LegacyMembers
  <2>2. CASE MigrateTitles /\ \A f \in Employees : ~Lost(f)
    <3> DEFINE p == emp[e].pos
               q == Home(e)
    <3>1. /\ posName' = WithLegacyPositions
          /\ emp'[e] = [emp[e] EXCEPT !.pos = q, !.title = posName'[q]]
          /\ q \in PosIds /\ posName'[q] # None
          /\ \A r \in PosIds : posName[r] = None \/ posName'[r] = posName[r]
      BY <2>2, TitlesMigrated DEF Whole
    <3>2. /\ emp[e] \in EmpType /\ p \in PosIds /\ posName[p] \in Names \cup {None}
      BY TypedParts DEF Rows, EmpType
    <3>3. posName[p] # None
      BY <2>2 DEF Whole, RowsKept, GeneralKept, MigrateTitles
    <3>4. Title(e) = posName[p] /\ Title(e) # None
      BY <3>2, <3>3, TextsTyped DEF Settled, Title
    <3>5. SqlLower[posName'[q]] = Lower[posName[p]]
      BY <2>2, <3>1, <3>4, HomeFound, TypedParts
    <3>6. Distinct(posName')
      BY DistinctKept
    <3>7. posName'[p] = posName[p] /\ posName'[p] \in Names /\ posName'[q] \in Names
      BY <3>1, <3>2, <3>3, LegacyPositions, TypedParts
    <3>8. Lower[posName'[q]] = Lower[posName'[p]] /\ SqlLower[posName'[q]] = Lower[posName'[q]]
      BY <3>5, <3>7, StartupAssumption
    <3>9. CASE q = p
      <4>1. emp'[e] = [emp[e] EXCEPT !.pos = emp[e].pos, !.title = emp[e].title]
        BY <3>1, <3>7, <3>9 DEF Settled
      <4> QED BY <3>2, <4>1 DEF EmpType
    <3>10. CASE q # p
      <4>1. Lookalikes(posName', p, q)
        BY <3>1, <3>2, <3>3, <3>6, <3>7, <3>8, <3>10 DEF Distinct, Lookalikes
      <4> QED BY <3>1, <4>1
    <3> QED BY <3>9, <3>10
  <2>3. CASE emp' = emp
    BY <2>3
  <2> QED BY <2>1, <2>2, <2>3, OpenPhases, OthersWriteNoEmployee
<1>4. Spec => []Distinct(posName)
  BY <1>1, <1>2, TypedThroughout, PTL DEF Spec
<1> QED BY <1>3, <1>4, WholeThroughout, PTL DEF Spec, AssignmentsKept
================================================================================
