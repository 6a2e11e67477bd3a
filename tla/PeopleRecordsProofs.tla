-------------------------- MODULE PeopleRecordsProofs --------------------------
(* Who may write what of a goal, and that a deleted contract stays deleted, for *)
(* any number of people, departments, rows and requests at the same time; and   *)
(* how many contracts of one employee overlapping requests can leave in force.  *)
EXTENDS PeopleRecords, FiniteSetTheorems, TLAPS

(* A leader has led; a review in progress knows the owner of its goal, who does *)
(* not change, and was let in as its owner, as a leader or as a manager.        *)
LeadersHaveLed == \A d \in Departments : leader[d] \in led[d] \cup {None}

ReviewSound(j) == j.op = "UpdateGoal" =>
  /\ j.actor \in People /\ j.row \in Goals /\ goal[j.row] # NoGoal
  /\ j.isOwner <=> goal[j.row].owner = j.actor
  /\ j.isManager => j.actor \in led[goal[j.row].dept]
ReviewsSound == \A w \in Workers : ReviewSound(job[w])

GoalsSound == \A g \in Goals : goal[g] # NoGoal => goal[g].owner \in People /\ goal[g].dept \in Departments
CreateSound(j) ==
  /\ j.op = "CreateGoal" => j.actor \in People /\ j.dept \in Departments
  /\ j.op \in {"CreateContract", "UpdateContract"} => j.status \in ContractStatuses
CreatesSound == \A w \in Workers : CreateSound(job[w])

GoalInv == RecTypeOK /\ LeadersHaveLed /\ GoalsSound /\ CreatesSound /\ ReviewsSound /\ GoalAuthority

LEMMA RecInitInv == RecInit => GoalInv
  BY RecordsAssumption DEF RecInit, GoalInv, RecTypeOK, LeadersHaveLed, GoalsSound,
     CreatesSound, CreateSound, ReviewsSound, ReviewSound, GoalAuthority, NoJob, Job, NoGoal,
     Goal, NoContract, Contract

(* A handler that only reads: what it takes along is sound. *)
LEMMA BeginInv ==
  ASSUME GoalInv, NEW w \in Workers, NEW j \in Job, Begin(w, j),
         CreateSound(j), ReviewSound(j)
  PROVE GoalInv'
<1> USE DEF GoalInv, Begin
<1>1. RecTypeOK'
  BY DEF RecTypeOK
<1>2. CreatesSound' /\ ReviewsSound'
  BY DEF CreatesSound, CreateSound, ReviewsSound, ReviewSound, RecTypeOK
<1> QED BY <1>1, <1>2 DEF LeadersHaveLed, GoalsSound, GoalAuthority

LEMMA NoJobSound == NoJob \in Job /\ NoJob.op = "none"
  BY DEF NoJob, Job

LEMMA ContractStepInv == ASSUME GoalInv, NEW w \in Workers, ContractStep(w) PROVE GoalInv'
<1>1. CASE \E status \in ContractStatuses, e \in People : CreateContractCheck(w, e, status)
  <2>1. PICK status \in ContractStatuses, e \in People : CreateContractCheck(w, e, status)
    BY <1>1
  <2> DEFINE j == [NoJob EXCEPT !.op = "CreateContract", !.actor = e, !.status = status]
  <2>2. j \in Job /\ j.op = "CreateContract" /\ j.status \in ContractStatuses
    BY DEF NoJob, Job
  <2>3. Begin(w, j)
    BY <2>1 DEF CreateContractCheck
  <2> HIDE DEF j
  <2> QED BY <2>2, <2>3, BeginInv DEF ReviewSound, CreateSound
<1>2. CASE \E status \in ContractStatuses, c \in Contracts : UpdateContractCheck(w, c, status)
  <2>1. PICK status \in ContractStatuses, c \in Contracts : UpdateContractCheck(w, c, status)
    BY <1>2
  <2> DEFINE j == [NoJob EXCEPT !.op = "UpdateContract", !.row = c, !.status = status]
  <2>2. j \in Job /\ j.op = "UpdateContract" /\ j.status \in ContractStatuses
    BY DEF NoJob, Job
  <2>3. Begin(w, j)
    BY <2>1 DEF UpdateContractCheck
  <2> HIDE DEF j
  <2> QED BY <2>2, <2>3, BeginInv DEF ReviewSound, CreateSound
<1>3. CASE CreateContract(w) \/ UpdateContract(w)
  <2> USE DEF GoalInv
  <2>1. contract' \in [Contracts -> Contract]
    <3>1. CASE CreateContract(w)
      <4>1. job[w].actor \in People \cup {None} /\ job[w].status \in ContractStatuses
        BY <3>1 DEF CreateContract, CreatesSound, CreateSound, RecTypeOK, Job
      <4> QED BY <3>1, <4>1 DEF CreateContract, RecTypeOK, Contract
    <3>2. CASE UpdateContract(w)
      <4>1. job[w].status \in ContractStatuses
        BY <3>2 DEF UpdateContract, CreatesSound, CreateSound
      <4> QED BY <3>2, <4>1 DEF UpdateContract, Saved, RecTypeOK, Contract
    <3> QED BY <1>3, <3>1, <3>2
  <2>2. /\ UNCHANGED <<dept, leader, goal, led>>
        /\ job' = [job EXCEPT ![w] = NoJob]
    BY <1>3 DEF CreateContract, UpdateContract, Done
  <2>3. RecTypeOK'
    BY <2>1, <2>2, NoJobSound DEF RecTypeOK
  <2> QED BY <2>2, <2>3, NoJobSound DEF LeadersHaveLed, GoalsSound, CreatesSound,
     CreateSound, ReviewsSound, ReviewSound, GoalAuthority, RecTypeOK
<1> QED BY <1>1, <1>2, <1>3 DEF ContractStep

LEMMA GoalStepInv == ASSUME GoalInv, NEW w \in Workers, GoalStep(w) PROVE GoalInv'
<1> USE DEF GoalInv
<1>1. CASE \E a \in People : CreateGoalCheck(w, a)
  <2>1. PICK a \in People : CreateGoalCheck(w, a)
    BY <1>1
  <2> DEFINE j == [NoJob EXCEPT !.op = "CreateGoal", !.actor = a, !.dept = dept[a]]
  <2>2. j \in Job /\ j.op = "CreateGoal" /\ j.actor \in People /\ j.dept \in Departments
    BY DEF NoJob, Job, RecTypeOK
  <2>3. Begin(w, j)
    BY <2>1 DEF CreateGoalCheck
  <2> HIDE DEF j
  <2> QED BY <2>2, <2>3, BeginInv DEF ReviewSound, CreateSound
<1>2. CASE \E a \in People, g \in Goals : UpdateGoalCheck(w, a, g)
  <2>1. PICK a \in People, g \in Goals : UpdateGoalCheck(w, a, g)
    BY <1>2
  <2> DEFINE j == [NoJob EXCEPT !.op = "UpdateGoal", !.actor = a, !.row = g, !.isOwner = IsOwner(a, g),
                                !.isManager = IsDepartmentLeader(a, goal[g].dept)]
  <2>2. j \in Job /\ j.op = "UpdateGoal" /\ j.actor = a /\ j.row = g
        /\ (j.isOwner <=> goal[g].owner = a) /\ (j.isManager <=> leader[goal[g].dept] = a)
    BY DEF NoJob, Job, IsOwner, IsDepartmentLeader
  <2>3. Begin(w, j) /\ goal[g] # NoGoal
    BY <2>1 DEF UpdateGoalCheck
  <2>4. goal[g].dept \in Departments
    BY <2>3 DEF GoalsSound
  <2>5. leader[goal[g].dept] = a => a \in led[goal[g].dept]
    BY <2>4, RecordsAssumption DEF LeadersHaveLed
  <2> HIDE DEF j
  <2>6. ReviewSound(j)
    BY <2>2, <2>3, <2>5 DEF ReviewSound
  <2> QED BY <2>2, <2>3, <2>6, BeginInv DEF CreateSound
<1>3. CASE CreateGoal(w)
  <2> USE DEF CreateGoal
  <2>1. PICK g \in Goals : /\ goal[g] = NoGoal
                           /\ goal' = [goal EXCEPT ![g] = [owner |-> job[w].actor, dept |-> job[w].dept,
                                          editor |-> job[w].actor, critic |-> None]]
    BY <1>3
  <2>2. job[w].actor \in People /\ job[w].dept \in Departments
    BY <1>3 DEF CreatesSound, CreateSound
  <2>3. job' = [job EXCEPT ![w] = NoJob] /\ UNCHANGED <<dept, leader, contract, led>>
    BY <1>3 DEF Done
  <2>4. RecTypeOK'
    BY <2>1, <2>2, <2>3, NoJobSound DEF RecTypeOK, Goal
  <2>5. \A h \in Goals \ {g} : goal'[h] = goal[h]
    BY <2>1 DEF RecTypeOK
  <2>6. goal'[g] = [owner |-> job[w].actor, dept |-> job[w].dept, editor |-> job[w].actor, critic |-> None]
    BY <2>1 DEF RecTypeOK
  <2>7. GoalsSound' /\ GoalAuthority'
    BY <2>2, <2>3, <2>5, <2>6, RecordsAssumption DEF GoalsSound, GoalAuthority
  <2>8. \A v \in Workers : job'[v].op = "UpdateGoal" => job'[v] = job[v] /\ job[v].row # g
    BY <2>1, <2>3, NoJobSound DEF ReviewsSound, ReviewSound, RecTypeOK
  <2>9. ReviewsSound'
    BY <2>3, <2>5, <2>8 DEF ReviewsSound, ReviewSound
  <2>10. CreatesSound' /\ LeadersHaveLed'
    BY <2>3, NoJobSound DEF CreatesSound, CreateSound, LeadersHaveLed, RecTypeOK
  <2> QED BY <2>4, <2>7, <2>9, <2>10
<1>4. CASE UpdateGoal(w)
  <2> DEFINE g == job[w].row
             a == job[w].actor
  <2>1. /\ a \in People /\ g \in Goals /\ goal[g] # NoGoal
        /\ job[w].isOwner <=> goal[g].owner = a
        /\ job[w].isManager => a \in led[goal[g].dept]
    BY <1>4 DEF UpdateGoal, ReviewsSound, ReviewSound
  <2>2. /\ goal'[g].owner = goal[g].owner /\ goal'[g].dept = goal[g].dept
        /\ goal'[g].editor = IF WritesContent(a, job[w].isOwner) THEN a ELSE goal[g].editor
        /\ goal'[g].critic = IF WritesComment(a, job[w].isOwner, job[w].isManager) THEN a ELSE goal[g].critic
    BY <1>4, <2>1 DEF UpdateGoal, RecTypeOK, Goal
  <2>3. \A h \in Goals \ {g} : goal'[h] = goal[h]
    BY <1>4, <2>1 DEF UpdateGoal, RecTypeOK
  <2>4. job' = [job EXCEPT ![w] = NoJob] /\ UNCHANGED <<dept, leader, contract, led>>
    BY <1>4 DEF UpdateGoal, Done
  <2>5. RecTypeOK'
    <3>1. goal' \in [Goals -> Goal]
      BY <1>4, <2>1 DEF UpdateGoal, RecTypeOK, Goal
    <3> QED BY <2>4, <3>1, NoJobSound DEF RecTypeOK
  <2>6. goal[g].owner \in People /\ goal[g].dept \in Departments
    BY <2>1 DEF GoalsSound
  <2>7. goal'[g].editor \in {goal[g].owner} \cup Managers
    BY <2>1, <2>2 DEF GoalAuthority, WritesContent
  <2>8. goal'[g].critic # goal[g].owner /\ goal'[g].critic \in Managers \cup led[goal[g].dept] \cup {None}
    BY <2>1, <2>2 DEF GoalAuthority, WritesComment
  <2>9. GoalAuthority'
    BY <2>2, <2>3, <2>4, <2>7, <2>8 DEF GoalAuthority
  <2>10. GoalsSound'
    BY <2>2, <2>3, <2>6 DEF GoalsSound
  <2>11. \A h \in Goals : goal[h] # NoGoal =>
           goal'[h] # NoGoal /\ goal'[h].owner = goal[h].owner /\ goal'[h].dept = goal[h].dept
    BY <2>2, <2>3, <2>6, RecordsAssumption DEF NoGoal
  <2>12. \A v \in Workers : job'[v] = job[v] \/ job'[v] = NoJob
    BY <2>4 DEF RecTypeOK
  <2>13. ReviewsSound' /\ CreatesSound' /\ LeadersHaveLed'
    BY <2>4, <2>11, <2>12, NoJobSound DEF ReviewsSound, ReviewSound, CreatesSound,
       CreateSound, LeadersHaveLed
  <2> QED BY <2>5, <2>9, <2>10, <2>13
<1> QED BY <1>1, <1>2, <1>3, <1>4 DEF GoalStep

(* Deletions, transfers and appointments, and handlers that give up. *)
LEMMA OtherInv ==
  ASSUME GoalInv,
         \/ \E w \in Workers : Abandon(w)
         \/ \E c \in Contracts : DeleteContract(c)
         \/ \E d \in Departments, e \in People : Transfer(e, d)
         \/ \E d \in Departments, e \in People \cup {None} : Appoint(d, e)
  PROVE GoalInv'
<1> USE DEF GoalInv
<1>1. CASE \E w \in Workers : Abandon(w)
  BY <1>1, NoJobSound DEF Abandon, Done, RecTypeOK, LeadersHaveLed, GoalsSound, CreatesSound,
     CreateSound, ReviewsSound, ReviewSound, GoalAuthority
<1>2. CASE \E c \in Contracts : DeleteContract(c)
  BY <1>2 DEF DeleteContract, RecTypeOK, Contract, LeadersHaveLed, GoalsSound, CreatesSound,
     CreateSound, ReviewsSound, ReviewSound, GoalAuthority
<1>3. CASE \E d \in Departments, e \in People : Transfer(e, d)
  BY <1>3 DEF Transfer, RecTypeOK, LeadersHaveLed, GoalsSound, CreatesSound, CreateSound,
     ReviewsSound, ReviewSound, GoalAuthority
<1>4. CASE \E d \in Departments, e \in People \cup {None} : Appoint(d, e)
  <2>1. PICK d \in Departments, e \in People \cup {None} : Appoint(d, e)
    BY <1>4
  <2>2. RecTypeOK'
    BY <2>1 DEF Appoint, RecTypeOK
  <2>3. \A f \in Departments : led[f] \subseteq led'[f]
    BY <2>1 DEF Appoint, RecTypeOK
  <2>4. LeadersHaveLed'
    BY <2>1 DEF Appoint, LeadersHaveLed, RecTypeOK
  <2>5. GoalsSound' /\ CreatesSound'
    BY <2>1 DEF Appoint, GoalsSound, CreatesSound, CreateSound
  <2>6. ReviewsSound'
    BY <2>1, <2>3 DEF Appoint, ReviewsSound, ReviewSound, GoalsSound
  <2>7. GoalAuthority'
    BY <2>1, <2>3 DEF Appoint, GoalAuthority, GoalsSound
  <2> QED BY <2>2, <2>4, <2>5, <2>6, <2>7
<1> QED BY <1>1, <1>2, <1>3, <1>4

LEMMA RecStepInv == ASSUME GoalInv, [RecNext]_recVars PROVE GoalInv'
<1>1. CASE UNCHANGED recVars
  BY <1>1 DEF recVars, GoalInv, RecTypeOK, LeadersHaveLed, GoalsSound, CreatesSound,
     CreateSound, ReviewsSound, ReviewSound, GoalAuthority
<1>2. CASE RecNext
  BY <1>2, ContractStepInv, GoalStepInv, OtherInv DEF RecNext
<1> QED BY <1>1, <1>2

(* A goal's content is its owner's or a manager's, its comment never the        *)
(* owner's, however transfers and appointments overlap with the reviews.        *)
THEOREM GoalsAuthorized == RecSpec => []GoalAuthority
<1>1. RecSpec => []GoalInv
  BY RecInitInv, RecStepInv, PTL DEF RecSpec
<1> QED BY <1>1, PTL DEF GoalInv

(* A deleted contract stays deleted, whatever had read it before. *)
THEOREM ContractsStayDeleted == RecSpec => DeletedStaysDeleted
<1> DEFINE Stay == \A c \in Contracts : contract[c].status = "deleted" => contract'[c] = contract[c]
<1>1. GoalInv /\ [RecNext]_recVars => [Stay]_recVars
  <2> SUFFICES ASSUME GoalInv, RecNext, NEW c \in Contracts, contract[c].status = "deleted"
               PROVE contract'[c] = contract[c]
    OBVIOUS
  <2> USE DEF GoalInv, RecTypeOK
  <2>1. CASE \E w \in Workers : CreateContract(w)
    BY <2>1 DEF CreateContract, NoContract
  <2>2. CASE \E w \in Workers : UpdateContract(w)
    BY <2>2 DEF UpdateContract, Saved, Stored, ContractStatuses
  <2>3. CASE \E d \in Contracts : DeleteContract(d)
    BY <2>3 DEF DeleteContract, Stored, ContractStatuses
  <2>4. CASE UNCHANGED contract
    BY <2>4
  <2> QED BY <2>1, <2>2, <2>3, <2>4 DEF RecNext, ContractStep, GoalStep, CreateContractCheck,
     UpdateContractCheck, CreateGoalCheck, UpdateGoalCheck, CreateGoal, UpdateGoal, Begin,
     Abandon, Transfer, Appoint
<1>2. RecSpec => []GoalInv
  BY RecInitInv, RecStepInv, PTL DEF RecSpec
<1> QED BY <1>1, <1>2, PTL DEF RecSpec, DeletedStaysDeleted

(* Whoever may view goals, lead departments and click at whatever moment: the   *)
(* buttons are the ones UpdateGoal honours, but for those who may only view.    *)
THEOREM ButtonsAreHonoured == RecSpec => []ButtonsHonoured
<1> DEFINE LetIn == \A w \in Workers : job[w].op = "UpdateGoal" =>
             \/ job[w].isOwner \/ job[w].isManager \/ job[w].actor \in Managers
<1>1. RecInit => LetIn
  BY NoJobSound DEF RecInit
<1>2. GoalInv /\ LetIn /\ [RecNext]_recVars => LetIn'
  <2> SUFFICES ASSUME GoalInv, LetIn, [RecNext]_recVars, NEW v \in Workers, job'[v].op = "UpdateGoal"
               PROVE  job'[v].isOwner \/ job'[v].isManager \/ job'[v].actor \in Managers
    OBVIOUS
  <2>0. job \in [Workers -> Job]
    BY DEF GoalInv, RecTypeOK
  <2>1. CASE job'[v] = job[v]
    BY <2>1
  <2>2. ASSUME NEW w \in Workers, NEW a \in People, NEW g \in Goals, UpdateGoalCheck(w, a, g)
        PROVE  job'[v].isOwner \/ job'[v].isManager \/ job'[v].actor \in Managers
    <3>1. job'[w].isOwner = IsOwner(a, g) /\ job'[w].actor = a
          /\ job'[w].isManager = IsDepartmentLeader(a, goal[g].dept)
      BY <2>0, <2>2 DEF UpdateGoalCheck, Begin, NoJob
    <3>2. v # w => job'[v] = job[v]
      BY <2>0, <2>2 DEF UpdateGoalCheck, Begin
    <3> QED BY <2>1, <2>2, <3>1, <3>2 DEF UpdateGoalCheck, MayUpdate
  <2>3. ASSUME NEW w \in Workers, Done(w) PROVE job'[v] = job[v]
    BY <2>0, <2>3, NoJobSound DEF Done
  <2>5. ASSUME NEW w \in Workers, NEW e \in People,
               \/ CreateGoalCheck(w, e)
               \/ \E status \in ContractStatuses : CreateContractCheck(w, e, status)
        PROVE  job'[v] = job[v]
    <3>1. CASE CreateGoalCheck(w, e)
      BY <2>0, <3>1 DEF CreateGoalCheck, Begin, NoJob
    <3>2. CASE \E status \in ContractStatuses : CreateContractCheck(w, e, status)
      BY <2>0, <3>2 DEF CreateContractCheck, Begin, NoJob
    <3> QED BY <2>5, <3>1, <3>2
  <2>6. ASSUME NEW w \in Workers, NEW status \in ContractStatuses, NEW c \in Contracts,
               UpdateContractCheck(w, c, status)
        PROVE  job'[v] = job[v]
    BY <2>0, <2>6 DEF UpdateContractCheck, Begin, NoJob
  <2> QED BY <2>1, <2>2, <2>3, <2>5, <2>6 DEF RecNext, ContractStep, GoalStep, CreateContract,
     UpdateContract, CreateGoal, UpdateGoal, Abandon, DeleteContract, Transfer, Appoint, recVars
<1>3. GoalInv /\ LetIn => ButtonsHonoured
  <2> SUFFICES ASSUME GoalInv, LetIn PROVE ButtonsHonoured
    OBVIOUS
  <2>1. ASSUME NEW a \in People, NEW g \in Goals
        PROVE  /\ MayUpdate(a, g) => Listed(a, g)
               /\ CanEdit(a, g) \/ CanReview(a, g) <=> MayUpdate(a, g) \/ OnlyViews(a)
    BY DEF MayUpdate, Listed, CanEdit, CanReview, CanViewAll, OnlyViews
  <2>2. ASSUME NEW w \in Workers, job[w].op = "UpdateGoal"
        PROVE  LET a == job[w].actor
                   g == job[w].row
                   writesComment == WritesComment(a, job[w].isOwner, job[w].isManager)
               IN /\ CanEdit(a, g) <=> WritesContent(a, job[w].isOwner) \/ OnlyViews(a)
                  /\ writesComment => CanReview(a, g) \/ a \in led[goal[g].dept]
                  /\ CanReview(a, g) => writesComment
    <3> DEFINE j == job[w]
    <3>1. /\ j.isOwner <=> IsOwner(j.actor, j.row)
          /\ j.isManager => j.actor \in led[goal[j.row].dept]
          /\ j.isOwner \/ j.isManager \/ j.actor \in Managers
      BY <2>2 DEF GoalInv, ReviewsSound, ReviewSound, IsOwner
    <3> QED BY <3>1 DEF CanEdit, CanReview, CanViewAll, OnlyViews, WritesContent, WritesComment
  <2> QED BY <2>1, <2>2 DEF ButtonsHonoured
<1>4. RecSpec => []GoalInv
  BY RecInitInv, RecStepInv, PTL DEF RecSpec
<1> QED BY <1>1, <1>2, <1>3, <1>4, PTL DEF RecSpec
--------------------------------------------------------------------------------
(* Contracts in force.  CreateContract and UpdateContract find no other one in  *)
(* force when they check; so those in force and those about to be are no more   *)
(* than the handlers.                                                           *)

(* Handlers about to write a contract of e in force: a new one, or an old one.  *)
Creators(e) == {w \in Workers :
  job[w].op = "CreateContract" /\ job[w].actor = e /\ job[w].status = "active"}
Renewers(e) == {w \in Workers :
  /\ job[w].op = "UpdateContract" /\ job[w].status = "active"
  /\ job[w].row \in Contracts /\ contract[job[w].row].owner = e}
Renewed(e) == {c \in Contracts : \E w \in Renewers(e) : job[w].row = c}
Claimed(e) == Active(e, None) \cup Renewed(e)

RowsMade == \A w \in Workers : job[w].op = "UpdateContract" =>
  job[w].row \in Contracts /\ contract[job[w].row].status # "none"
ClaimsWithin == \A e \in People :
  /\ IsFiniteSet(Claimed(e))
  /\ Cardinality(Claimed(e)) + Cardinality(Creators(e)) <= Cardinality(Workers)
ContractInv == RowsMade /\ ClaimsWithin

ActiveWithinHandlers == \A e \in People :
  /\ IsFiniteSet(Active(e, None))
  /\ Cardinality(Active(e, None)) <= Cardinality(Workers)

(* Right after a check all contracts in force are such as a handler renews.     *)
WithinAfterCheck == \A e \in People : Active(e, None) \subseteq Renewed(e) =>
  /\ IsFiniteSet(Claimed(e))
  /\ Cardinality(Claimed(e)) + Cardinality(Creators(e)) <= Cardinality(Workers)

LEMMA ClaimsAfterCheck == IsFiniteSet(Workers) => WithinAfterCheck
<1> SUFFICES ASSUME IsFiniteSet(Workers), NEW e \in People, Active(e, None) \subseteq Renewed(e)
             PROVE  /\ IsFiniteSet(Claimed(e))
                    /\ Cardinality(Claimed(e)) + Cardinality(Creators(e)) <= Cardinality(Workers)
  BY DEF WithinAfterCheck
<1> DEFINE R == Renewers(e)
           C == Creators(e)
           f == [w \in R |-> job[w].row]
<1>1. Claimed(e) = Renewed(e)
  BY DEF Claimed
<1>2. f \in Surjection(R, Renewed(e))
  BY DEF Surjection, Renewed, Renewers
<1>3. R \in SUBSET Workers /\ C \in SUBSET Workers /\ R \cap C = {}
  BY DEF Renewers, Creators
<1>4. IsFiniteSet(R) /\ IsFiniteSet(C) /\ IsFiniteSet(R \cup C)
  BY <1>3, FS_Subset
<1>5. IsFiniteSet(Renewed(e)) /\ Cardinality(Renewed(e)) <= Cardinality(R)
  BY <1>2, <1>4, FS_Surjection
<1>6. Cardinality(R \cup C) = Cardinality(R) + Cardinality(C)
  <2>1. Cardinality(R \cup C) = Cardinality(R) + Cardinality(C) - Cardinality(R \cap C)
    BY <1>4, FS_Union
  <2>2. Cardinality(R \cap C) = 0
    BY <1>3, FS_EmptySet
  <2>3. Cardinality(R) \in Nat /\ Cardinality(C) \in Nat
    BY <1>4, FS_CardinalityType
  <2> QED BY <2>1, <2>2, <2>3
<1>7. Cardinality(R \cup C) <= Cardinality(Workers)
  BY <1>3, FS_Subset
<1>8. /\ Cardinality(Renewed(e)) \in Nat /\ Cardinality(R) \in Nat /\ Cardinality(C) \in Nat
      /\ Cardinality(Workers) \in Nat
  BY <1>4, <1>5, FS_CardinalityType
<1> QED BY <1>1, <1>5, <1>6, <1>7, <1>8

(* Nothing new is claimed. *)
LEMMA FewerClaims ==
  ASSUME IsFiniteSet(Workers), ClaimsWithin, NEW e \in People,
         Claimed(e)' \subseteq Claimed(e), Creators(e)' \subseteq Creators(e)
  PROVE  /\ IsFiniteSet(Claimed(e)')
         /\ Cardinality(Claimed(e)') + Cardinality(Creators(e)') <= Cardinality(Workers)
<1>1. Creators(e) \in SUBSET Workers
  BY DEF Creators
<1>2. /\ IsFiniteSet(Creators(e)) /\ IsFiniteSet(Claimed(e))
      /\ Cardinality(Claimed(e)) + Cardinality(Creators(e)) <= Cardinality(Workers)
  BY <1>1, FS_Subset DEF ClaimsWithin
<1>3. /\ IsFiniteSet(Claimed(e)') /\ IsFiniteSet(Creators(e)')
      /\ Cardinality(Claimed(e)') <= Cardinality(Claimed(e))
      /\ Cardinality(Creators(e)') <= Cardinality(Creators(e))
  BY <1>2, FS_Subset
<1>4. /\ Cardinality(Claimed(e)) \in Nat /\ Cardinality(Creators(e)) \in Nat
      /\ Cardinality(Claimed(e)') \in Nat /\ Cardinality(Creators(e)') \in Nat
      /\ Cardinality(Workers) \in Nat
  BY <1>2, <1>3, FS_CardinalityType
<1> QED BY <1>2, <1>3, <1>4

LEMMA ContractStepKeeps ==
  ASSUME IsFiniteSet(Workers), GoalInv, ContractInv, NEW w \in Workers, ContractStep(w)
  PROVE  ContractInv'
<1>0. job \in [Workers -> Job] /\ contract \in [Contracts -> Contract]
  BY DEF GoalInv, RecTypeOK
<1>1. ASSUME NEW status \in ContractStatuses, NEW e \in People, CreateContractCheck(w, e, status)
      PROVE  ContractInv'
  <2>1. /\ job[w].op = "none"
        /\ job'[w].op = "CreateContract" /\ job'[w].actor = e /\ job'[w].status = status
        /\ \A v \in Workers \ {w} : job'[v] = job[v]
        /\ contract' = contract
    BY <1>0, <1>1, NoJobSound DEF CreateContractCheck, Begin, NoJob
  <2>2. \A f \in People : Active(f, None)' = Active(f, None) /\ Renewed(f)' = Renewed(f)
    BY <2>1 DEF Active, Renewed, Renewers
  <2>3. ASSUME NEW f \in People, f # e \/ status # "active"
        PROVE  Claimed(f)' \subseteq Claimed(f) /\ Creators(f)' \subseteq Creators(f)
    BY <2>1, <2>2, <2>3 DEF Claimed, Creators
  <2>4. status = "active" => Active(e, None) = {}
    BY <1>1 DEF CreateContractCheck, MayBe
  <2>5. status = "active" => Active(e, None)' \subseteq Renewed(e)'
    BY <2>2, <2>4
  <2>6. IsFiniteSet(Workers) => WithinAfterCheck'
    BY ClaimsAfterCheck, PTL
  <2>7. ClaimsWithin'
    BY <2>3, <2>5, <2>6, FewerClaims DEF WithinAfterCheck, ClaimsWithin, ContractInv
  <2>8. RowsMade'
    BY <2>1 DEF RowsMade, ContractInv
  <2> QED BY <2>7, <2>8 DEF ContractInv
<1>2. ASSUME NEW status \in ContractStatuses, NEW c \in Contracts, UpdateContractCheck(w, c, status)
      PROVE  ContractInv'
  <2>1. /\ job[w].op = "none"
        /\ job'[w].op = "UpdateContract" /\ job'[w].row = c /\ job'[w].status = status
        /\ \A v \in Workers \ {w} : job'[v] = job[v]
        /\ contract' = contract
    BY <1>0, <1>2, NoJobSound DEF UpdateContractCheck, Begin, NoJob
  <2>2. \A e \in People : Active(e, None)' = Active(e, None) /\ Creators(e)' = Creators(e)
    BY <2>1 DEF Active, Creators
  <2>3. ASSUME NEW e \in People, e # contract[c].owner \/ status # "active"
        PROVE  Claimed(e)' \subseteq Claimed(e)
    BY <2>1, <2>2, <2>3 DEF Claimed, Renewed, Renewers
  <2>4. ASSUME NEW e \in People, e = contract[c].owner, status = "active"
        PROVE  Active(e, None)' \subseteq Renewed(e)'
    <3>1. Active(e, c) = {}
      BY <1>2, <2>4 DEF UpdateContractCheck, MayBe
    <3>2. Active(e, None) \subseteq {c}
      BY <3>1 DEF Active
    <3>3. w \in Renewers(e)'
      BY <2>1, <2>4 DEF Renewers
    <3>4. c \in Renewed(e)'
      BY <2>1, <3>3 DEF Renewed
    <3> QED BY <2>2, <3>2, <3>4
  <2>5. IsFiniteSet(Workers) => WithinAfterCheck'
    BY ClaimsAfterCheck, PTL
  <2>6. ClaimsWithin'
    BY <2>2, <2>3, <2>4, <2>5, FewerClaims DEF WithinAfterCheck, ClaimsWithin, ContractInv
  <2>7. RowsMade'
    BY <1>2, <2>1 DEF RowsMade, ContractInv, UpdateContractCheck, Stored, ContractStatuses
  <2> QED BY <2>6, <2>7 DEF ContractInv
<1>3. ASSUME CreateContract(w) PROVE ContractInv'
  <2>1. PICK c \in Contracts :
          /\ contract[c] = NoContract
          /\ contract' = [contract EXCEPT ![c] = [owner |-> job[w].actor, status |-> job[w].status]]
    BY <1>3 DEF CreateContract
  <2>2. /\ contract'[c] = [owner |-> job[w].actor, status |-> job[w].status]
        /\ \A d \in Contracts \ {c} : contract'[d] = contract[d]
        /\ job[w].op = "CreateContract" /\ job[w].status \in ContractStatuses
    BY <1>0, <1>3, <2>1 DEF CreateContract, GoalInv, CreatesSound, CreateSound
  <2>3. job'[w].op = "none" /\ \A v \in Workers \ {w} : job'[v] = job[v]
    BY <1>0, <1>3, NoJobSound DEF CreateContract, Done
  <2>4. contract[c].status = "none" /\ contract'[c].status # "none"
    BY <2>1, <2>2 DEF NoContract, ContractStatuses
  <2>5. RowsMade'
    BY <2>2, <2>3, <2>4 DEF RowsMade, ContractInv
  <2>6. ASSUME NEW e \in People PROVE Renewed(e)' = Renewed(e)
    <3>1. \A v \in Workers : v \in Renewers(e)' <=> v \in Renewers(e)
      BY <2>2, <2>3, <2>4 DEF Renewers, RowsMade, ContractInv
    <3>2. \A v \in Renewers(e) : v # w
      BY <2>2 DEF Renewers
    <3> QED BY <2>3, <3>1, <3>2 DEF Renewed, Renewers
  <2>7. ASSUME NEW e \in People, w \notin Creators(e)
        PROVE  Claimed(e)' \subseteq Claimed(e) /\ Creators(e)' \subseteq Creators(e)
    <3>1. Active(e, None)' \subseteq Active(e, None)
      BY <2>2, <2>7 DEF Active, Creators
    <3> QED BY <2>3, <2>6, <3>1 DEF Claimed, Creators
  <2>8. ASSUME NEW e \in People, w \in Creators(e)
        PROVE  /\ IsFiniteSet(Claimed(e)')
               /\ Cardinality(Claimed(e)') + Cardinality(Creators(e)') <= Cardinality(Workers)
    <3>1. Creators(e)' = Creators(e) \ {w}
      BY <2>3 DEF Creators
    <3>2. Claimed(e)' \subseteq Claimed(e) \cup {c}
      BY <2>2, <2>6 DEF Claimed, Active
    <3>3. IsFiniteSet(Creators(e))
      <4>1. Creators(e) \in SUBSET Workers
        BY DEF Creators
      <4> QED BY <4>1, FS_Subset
    <3>4. /\ IsFiniteSet(Claimed(e))
          /\ Cardinality(Claimed(e)) + Cardinality(Creators(e)) <= Cardinality(Workers)
      BY DEF ClaimsWithin, ContractInv
    <3>5. /\ IsFiniteSet(Claimed(e) \cup {c})
          /\ \/ Cardinality(Claimed(e) \cup {c}) = Cardinality(Claimed(e))
             \/ Cardinality(Claimed(e) \cup {c}) = Cardinality(Claimed(e)) + 1
      BY <3>4, FS_AddElement
    <3>6. Cardinality(Creators(e)') = Cardinality(Creators(e)) - 1
      BY <2>8, <3>1, <3>3, FS_RemoveElement
    <3>7. IsFiniteSet(Claimed(e)') /\ Cardinality(Claimed(e)') <= Cardinality(Claimed(e) \cup {c})
      BY <3>2, <3>5, FS_Subset
    <3>8. /\ Cardinality(Claimed(e)) \in Nat /\ Cardinality(Claimed(e)') \in Nat
          /\ Cardinality(Creators(e)) \in Nat /\ Cardinality(Workers) \in Nat
      BY <3>3, <3>4, <3>7, FS_CardinalityType
    <3> QED BY <3>4, <3>5, <3>6, <3>7, <3>8
  <2>9. ClaimsWithin'
    BY <2>7, <2>8, FewerClaims DEF ClaimsWithin, ContractInv
  <2> QED BY <2>5, <2>9 DEF ContractInv
<1>4. ASSUME UpdateContract(w) PROVE ContractInv'
  <2> DEFINE c == job[w].row
  <2>1. job[w].op = "UpdateContract" /\ c \in Contracts /\ contract[c].status # "none"
    BY <1>4 DEF UpdateContract, ContractInv, RowsMade
  <2>2. job[w].status \in ContractStatuses
    BY <1>4, <2>1 DEF GoalInv, CreatesSound, CreateSound
  <2>3. job'[w].op = "none" /\ \A v \in Workers \ {w} : job'[v] = job[v]
    BY <1>0, <1>4, NoJobSound DEF UpdateContract, Done
  <2>4. /\ contract'[c].owner = contract[c].owner
        /\ contract'[c].status \in {contract[c].status, job[w].status}
        /\ \A d \in Contracts \ {c} : contract'[d] = contract[d]
    BY <1>0, <1>4, <2>1 DEF UpdateContract, Saved, Contract
  <2>5. RowsMade'
    BY <2>1, <2>2, <2>3, <2>4 DEF RowsMade, ContractInv, ContractStatuses
  <2>6. ASSUME NEW e \in People
        PROVE  Claimed(e)' \subseteq Claimed(e) /\ Creators(e)' \subseteq Creators(e)
    <3>1. Creators(e)' \subseteq Creators(e)
      BY <2>3 DEF Creators
    <3>2. Renewers(e)' \subseteq Renewers(e)
      BY <2>3, <2>4 DEF Renewers
    <3>3. Renewed(e)' \subseteq Renewed(e)
      BY <2>3, <3>2 DEF Renewed, Renewers
    <3>4. ASSUME NEW d \in Active(e, None)' PROVE d \in Claimed(e)
      <4>1. d \in Contracts /\ contract'[d].owner = e /\ contract'[d].status = "active"
        BY DEF Active
      <4>2. CASE contract[d].owner = e /\ contract[d].status = "active"
        <5>1. contract[d] = [owner |-> e, status |-> "active"]
          BY <1>0, <4>1, <4>2 DEF Contract
        <5> QED BY <4>1, <5>1, RecordsAssumption DEF Claimed, Active
      <4>3. CASE ~(contract[d].owner = e /\ contract[d].status = "active")
        <5>1. d = c /\ contract[c].owner = e /\ job[w].status = "active"
          BY <2>4, <4>1, <4>3
        <5> QED BY <2>1, <4>1, <5>1 DEF Claimed, Renewed, Renewers
      <4> QED BY <4>2, <4>3
    <3> QED BY <3>1, <3>3, <3>4 DEF Claimed
  <2>7. ClaimsWithin'
    BY <2>6, FewerClaims DEF ClaimsWithin, ContractInv
  <2> QED BY <2>5, <2>7 DEF ContractInv
<1> QED BY <1>1, <1>2, <1>3, <1>4 DEF ContractStep

(* A step that neither puts a contract in force nor starts a contract handler.  *)
LEMMA OthersKeep ==
  ASSUME IsFiniteSet(Workers), GoalInv, ContractInv,
         \A c \in Contracts : \/ contract'[c] = contract[c]
                              \/ /\ contract'[c].status = "deleted"
                                 /\ contract'[c].owner = contract[c].owner,
         \A w \in Workers : \/ job'[w] = job[w]
                            \/ job'[w].op \notin {"CreateContract", "UpdateContract"}
  PROVE  ContractInv'
<1>1. RowsMade'
  BY DEF RowsMade, ContractInv
<1>2. ASSUME NEW e \in People
      PROVE  Claimed(e)' \subseteq Claimed(e) /\ Creators(e)' \subseteq Creators(e)
  <2>1. Creators(e)' \subseteq Creators(e)
    BY DEF Creators
  <2>2. Active(e, None)' \subseteq Active(e, None)
    BY DEF Active
  <2>3. Renewers(e)' \subseteq Renewers(e)
    BY DEF Renewers
  <2>4. Renewed(e)' \subseteq Renewed(e)
    BY <2>3 DEF Renewed, Renewers
  <2> QED BY <2>1, <2>2, <2>4 DEF Claimed
<1> QED BY <1>1, <1>2, FewerClaims DEF ClaimsWithin, ContractInv

LEMMA ContractInvKept ==
  ASSUME IsFiniteSet(Workers), GoalInv, ContractInv, [RecNext]_recVars
  PROVE  ContractInv'
<1>0. job \in [Workers -> Job] /\ contract \in [Contracts -> Contract]
  BY DEF GoalInv, RecTypeOK
<1>1. ASSUME NEW w \in Workers, GoalStep(w) PROVE ContractInv'
  <2>1. contract' = contract /\ job'[w].op \notin {"CreateContract", "UpdateContract"}
    <3>1. CASE \E a \in People : CreateGoalCheck(w, a)
      BY <1>0, <3>1 DEF CreateGoalCheck, Begin, NoJob
    <3>2. CASE \E a \in People, g \in Goals : UpdateGoalCheck(w, a, g)
      BY <1>0, <3>2 DEF UpdateGoalCheck, Begin, NoJob
    <3>3. CASE CreateGoal(w) \/ UpdateGoal(w)
      BY <1>0, <3>3, NoJobSound DEF CreateGoal, UpdateGoal, Done
    <3> QED BY <1>1, <3>1, <3>2, <3>3 DEF GoalStep
  <2>2. \A v \in Workers \ {w} : job'[v] = job[v]
    BY <1>0, <1>1 DEF GoalStep, CreateGoalCheck, UpdateGoalCheck, CreateGoal, UpdateGoal, Begin, Done
  <2> QED BY <2>1, <2>2, OthersKeep
<1>2. ASSUME NEW w \in Workers, Abandon(w) PROVE ContractInv'
  BY <1>0, <1>2, NoJobSound, OthersKeep DEF Abandon, Done
<1>3. ASSUME NEW c \in Contracts, DeleteContract(c) PROVE ContractInv'
  <2>1. \A d \in Contracts : contract[d] \in Contract
    BY <1>0
  <2>2. contract' = [contract EXCEPT ![c].status = "deleted"] /\ job' = job
    BY <1>3 DEF DeleteContract
  <2>3. \A d \in Contracts : \/ contract'[d] = contract[d]
                             \/ contract'[d].status = "deleted" /\ contract'[d].owner = contract[d].owner
    BY <1>0, <2>1, <2>2 DEF Contract
  <2> QED BY <2>2, <2>3, OthersKeep
<1>4. CASE UNCHANGED <<contract, job>>
  BY <1>4, OthersKeep
<1> QED BY <1>1, <1>2, <1>3, <1>4, ContractStepKeeps DEF RecNext, recVars, Transfer, Appoint

(* However requests overlap, nobody has more contracts in force than there are  *)
(* handlers: how far the check before the write can be overrun.  One at a time  *)
(* nobody has two.                                                              *)
THEOREM ContractsInForceBounded == IsFiniteSet(Workers) => (RecSpec => []ActiveWithinHandlers)
<1> SUFFICES ASSUME IsFiniteSet(Workers) PROVE RecSpec => []ActiveWithinHandlers
  OBVIOUS
<1>1. RecInit => ContractInv
  <2> SUFFICES ASSUME RecInit PROVE ContractInv
    OBVIOUS
  <2>1. RowsMade
    BY NoJobSound DEF RecInit, RowsMade
  <2>2. \A e \in People : Claimed(e) = {} /\ Creators(e) = {}
    BY NoJobSound DEF RecInit, Claimed, Active, Renewed, Renewers, Creators, NoContract
  <2>3. IsFiniteSet({}) /\ Cardinality({}) = 0 /\ Cardinality(Workers) \in Nat
    BY FS_EmptySet, FS_CardinalityType
  <2> QED BY <2>1, <2>2, <2>3 DEF ContractInv, ClaimsWithin
<1>2. GoalInv /\ ContractInv /\ [RecNext]_recVars => ContractInv'
  BY ContractInvKept
<1>3. RecSpec => []GoalInv
  BY RecInitInv, RecStepInv, PTL DEF RecSpec
<1>4. ContractInv => ActiveWithinHandlers
  <2> SUFFICES ASSUME ContractInv, NEW e \in People
               PROVE  IsFiniteSet(Active(e, None)) /\ Cardinality(Active(e, None)) <= Cardinality(Workers)
    BY DEF ActiveWithinHandlers
  <2>1. Creators(e) \in SUBSET Workers /\ Active(e, None) \in SUBSET Claimed(e)
    BY DEF Creators, Claimed
  <2>2. /\ IsFiniteSet(Claimed(e)) /\ IsFiniteSet(Creators(e))
        /\ Cardinality(Claimed(e)) + Cardinality(Creators(e)) <= Cardinality(Workers)
    BY <2>1, FS_Subset DEF ContractInv, ClaimsWithin
  <2>3. IsFiniteSet(Active(e, None)) /\ Cardinality(Active(e, None)) <= Cardinality(Claimed(e))
    BY <2>1, <2>2, FS_Subset
  <2>4. /\ Cardinality(Claimed(e)) \in Nat /\ Cardinality(Creators(e)) \in Nat
        /\ Cardinality(Active(e, None)) \in Nat /\ Cardinality(Workers) \in Nat
    BY <2>2, <2>3, FS_CardinalityType
  <2> QED BY <2>2, <2>3, <2>4
<1> QED BY <1>1, <1>2, <1>3, <1>4, PTL DEF RecSpec
================================================================================
