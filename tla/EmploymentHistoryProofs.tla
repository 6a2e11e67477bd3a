------------------------ MODULE EmploymentHistoryProofs ------------------------
(* What is proved of EmploymentHistory, for any organisation, names, number of  *)
(* requests at once and of restarts: the history of an employee and the copies  *)
(* of names tell what the tables say until a handler writes for her from what   *)
(* was outdated, and a restart moves those only whom it finds left behind.      *)
EXTENDS EmploymentHistory, FiniteSetTheorems, TLAPS

--------------------------------------------------------------------------------
(* The invariant, in parts *)

(* What HistorySound says of one employee. *)
Follows(e) == (Hired(e) => EndsHere(e) /\ InStep(emp[e])) /\ Connected(e)

(* No two positions share a name. *)
Apart == \A p, q \in PosIds : posName[p] # None /\ posName[p] = posName[q] => p = q

(* What a handler has found is still there. *)
JobsSound == \A w \in Workers :
  /\ job[w].op \in {"UpdateEmployee", "SetEmployeeEnabled"} => Hired(job[w].of)
  /\ job[w].op = "UpdatePosition" => posName[job[w].of] # None

(* Nobody has a history before she is hired, and Open writes one event at most. *)
Begun == \A e \in Employees : ~Hired(e) => history[e] = <<>>
OneSeed(e) == \A i, j \in DOMAIN history[e] :
  history[e][i].kind = "seed" /\ history[e][j].kind = "seed" => i = j
SeededOnce == \A e \in Employees : OneSeed(e)

HistoryInv == HistorySound /\ Apart /\ JobsSound /\ Begun /\ SeededOnce

--------------------------------------------------------------------------------
(* Types *)

LEMMA IdsTold ==
  /\ None \notin Departments /\ None \notin Names /\ None \notin PosIds
  /\ Nowhere \notin Placement /\ Idle \notin Rename /\ Idle \notin Visit /\ Idle.op = "none"
  BY HistoryAssumption DEF PosIds, Nowhere, Placement, Idle, Rename, Visit

LEMMA EventTyped ==
  ASSUME NEW kind \in Kinds, NEW from \in Placement \cup {Nowhere}, NEW to \in Placement \cup {Nowhere}
  PROVE  /\ Event(kind, from, to) \in Events /\ Event(kind, from, to).kind = kind
         /\ Event(kind, from, to).from = from.dept /\ Event(kind, from, to).to = to.dept
  BY DEF Event, Events, Placement, Nowhere

(* Record writes an event of the employee, of these two places. *)
LEMMA RecordWrites ==
  ASSUME NEW e \in Employees, NEW kind \in Kinds,
         NEW from \in Placement \cup {Nowhere}, NEW to \in Placement \cup {Nowhere},
         Record(e, kind, from, to)
  PROVE  \E event \in Events :
           /\ history' = [history EXCEPT ![e] = Append(@, event)] /\ event.kind = kind
           /\ event.from = from.dept /\ event.to = to.dept
  BY EventTyped DEF Record

LEMMA AtTyped ==
  ASSUME HistoryTypeOK, NEW d \in Departments, NEW p \in PosIds, posName[p] # None
  PROVE  /\ At(d, p) \in Placement /\ InStep(At(d, p))
         /\ At(d, p).dept = d /\ At(d, p).pos = p
  BY DEF HistoryTypeOK, At, Placement, InStep

(* A copy that is not outdated is in step. *)
LEMMA CopyCurrent ==
  ASSUME HistoryTypeOK, NEW x \in Placement, x = At(x.dept, x.pos)
  PROVE  InStep(x)
<1>1. x.department = deptName[x.dept] /\ x.title = posName[x.pos]
  BY DEF At
<1>2. x.title # None
  BY IdsTold DEF Placement
<1> QED BY <1>1, <1>2 DEF InStep

LEMMA JobTyped ==
  ASSUME HistoryTypeOK, NEW w \in Workers
  PROVE  /\ job[w].op \in {"CreateEmployee", "UpdateEmployee", "SetEmployeeEnabled"} =>
              /\ job[w].of \in Employees /\ job[w].new \in Placement
              /\ job[w].old \in Placement \cup {Nowhere}
         /\ job[w].op = "UpdateDepartment" => job[w].of \in Departments /\ job[w].new \in Names
         /\ job[w].op = "UpdatePosition" =>
              job[w].of \in PosIds /\ job[w].old \in Names /\ job[w].new \in Names
<1>1. job[w] = Idle \/ job[w] \in Rename \/ job[w] \in Visit
  BY DEF HistoryTypeOK
<1>2. CASE job[w] = Idle
  BY <1>2, IdsTold
<1>3. CASE job[w] \in Rename
  BY <1>3 DEF Rename
<1>4. CASE job[w] \in Visit
  BY <1>4 DEF Visit
<1> QED BY <1>1, <1>2, <1>3, <1>4

(* Where at most one handler ends, what the others have found is still there.   *)
LEMMA JobsLeft ==
  ASSUME HistoryTypeOK, JobsSound, NEW w \in Workers, job' = job \/ Done(w),
         \A e \in Employees : Hired(e) => Hired(e)',
         \A p \in PosIds : posName[p] # None => posName'[p] # None
  PROVE  JobsSound' /\ job' \in [Workers -> {Idle} \cup Rename \cup Visit]
<1>1. \A v \in Workers : job'[v] = Idle \/ job'[v] = job[v]
  BY DEF Done, HistoryTypeOK
<1>2. job' \in [Workers -> {Idle} \cup Rename \cup Visit]
  BY DEF Done, HistoryTypeOK
<1>3. ASSUME NEW v \in Workers
      PROVE  /\ job'[v].op \in {"UpdateEmployee", "SetEmployeeEnabled"} => emp'[job'[v].of] # Nowhere
             /\ job'[v].op = "UpdatePosition" => posName'[job'[v].of] # None
  <2>1. CASE job'[v] = Idle
    BY <2>1, IdsTold
  <2>2. CASE job'[v] = job[v]
    <3>1. job[v].op \in {"UpdateEmployee", "SetEmployeeEnabled"} =>
            job[v].of \in Employees /\ Hired(job[v].of)
      BY JobTyped DEF JobsSound
    <3>2. job[v].op = "UpdatePosition" => job[v].of \in PosIds /\ posName[job[v].of] # None
      BY JobTyped DEF JobsSound
    <3> QED BY <2>2, <3>1, <3>2 DEF Hired
  <2> QED BY <1>1, <2>1, <2>2
<1> QED BY <1>2, <1>3 DEF JobsSound, Hired

LEMMA MuddleTold ==
  ASSUME HistoryTypeOK, NEW people \in SUBSET Employees, NEW when \in BOOLEAN, Muddle(people, when)
  PROVE  /\ muddled' \subseteq Employees /\ muddled \subseteq muddled'
         /\ muddled' \subseteq muddled \cup people /\ (when => people \subseteq muddled')
  BY DEF Muddle, HistoryTypeOK

LEMMA InitInv == HistoryInit => HistoryInv
<1> SUFFICES ASSUME HistoryInit PROVE HistoryInv
  OBVIOUS
<1>1. deptName \in [Departments -> Names]
  BY DEF HistoryInit, Injection
<1>2. PICK f \in Injection(Positions, Names) :
        posName = [p \in PosIds |-> IF p \in Positions THEN f[p] ELSE None]
  BY DEF HistoryInit
<1>3. posName \in [PosIds -> Names \cup {None}] /\ Apart
  BY <1>2, IdsTold DEF Injection, IsInjective, Apart, PosIds
<1>4. HistoryTypeOK
  BY <1>1, <1>3, HistoryAssumption DEF HistoryInit, HistoryTypeOK
<1>5. \A e \in Employees : ~Hired(e) /\ Told(e) = {} /\ history[e] = <<>> /\ DOMAIN history[e] = {}
  BY DEF HistoryInit, Hired, Told
<1>6. JobsSound
  BY IdsTold DEF HistoryInit, JobsSound
<1> QED BY <1>3, <1>4, <1>5, <1>6 DEF HistoryInv, HistorySound, Connected, Begun, SeededOnce, OneSeed

--------------------------------------------------------------------------------
(* Histories *)

(* An event is appended to the history of one employee. *)
LEMMA AppendToHistory ==
  ASSUME HistoryTypeOK, NEW e \in Employees, NEW event \in Events, history'[e] = Append(history[e], event)
  PROVE  /\ Len(history[e]) \in Nat /\ DOMAIN history[e] = 1 .. Len(history[e])
         /\ DOMAIN history'[e] = 1 .. Len(history[e]) + 1
         /\ \A i \in 1 .. Len(history[e]) : history'[e][i] = history[e][i]
         /\ history'[e][Len(history[e]) + 1] = event
         /\ history'[e] \in Seq(Events)
         /\ Told(e) \subseteq 1 .. Len(history[e])
         /\ Told(e)' = IF event.kind = "seed" THEN Told(e) ELSE Told(e) \cup {Len(history[e]) + 1}
<1>1. history[e] \in Seq(Events)
  BY DEF HistoryTypeOK
<1>2. /\ Len(history[e]) \in Nat /\ DOMAIN history[e] = 1 .. Len(history[e])
      /\ DOMAIN history'[e] = 1 .. Len(history[e]) + 1
      /\ \A i \in 1 .. Len(history[e]) : history'[e][i] = history[e][i]
      /\ history'[e][Len(history[e]) + 1] = event
      /\ history'[e] \in Seq(Events)
  BY <1>1
<1> QED BY <1>2 DEF Told

LEMMA SeedsLeft ==
  ASSUME HistoryTypeOK, NEW e \in Employees, NEW event \in Events, event.kind # "seed",
         history'[e] = Append(history[e], event), OneSeed(e)
  PROVE  OneSeed(e)'
<1>1. /\ DOMAIN history[e] = 1 .. Len(history[e]) /\ DOMAIN history'[e] = 1 .. Len(history[e]) + 1
      /\ Len(history[e]) \in Nat
      /\ \A i \in 1 .. Len(history[e]) : history'[e][i] = history[e][i]
      /\ history'[e][Len(history[e]) + 1] = event
  BY AppendToHistory
<1> QED BY <1>1 DEF OneSeed

(* A handler writes an event that begins where the history ended.               *)
LEMMA ToldAppended ==
  ASSUME HistoryTypeOK, NEW e \in Employees, NEW event \in Events, event.kind # "seed",
         history'[e] = Append(history[e], event), Connected(e),
         \/ Told(e) = {}
         \/ EndsHere(e) /\ (event.from = emp[e].dept \/ LedOnly(event)),
         event.to = emp'[e].dept \/ Departed(event)
  PROVE  EndsHere(e)' /\ Connected(e)'
<1> DEFINE n == Len(history[e])
<1>1. /\ n \in Nat /\ DOMAIN history[e] = 1 .. n /\ DOMAIN history'[e] = 1 .. n + 1
      /\ \A i \in 1 .. n : history'[e][i] = history[e][i]
      /\ history'[e][n + 1] = event /\ Told(e) \subseteq 1 .. n /\ Told(e)' = Told(e) \cup {n + 1}
  BY AppendToHistory
<1> HIDE DEF n
<1>2. EndsHere(e)'
  <2>1. n + 1 \in Told(e)' /\ \A j \in Told(e)' : j <= n + 1
    BY <1>1
  <2>2. history'[e][n + 1].to = emp'[e].dept \/ Departed(history'[e][n + 1])
    BY <1>1
  <2> QED BY <2>1, <2>2 DEF EndsHere, Departed
<1>3. ASSUME NEW i \in Told(e)', NEW j \in Told(e)', Adjacent(e, i, j)'
      PROVE  \/ history'[e][j].from = history'[e][i].to
             \/ LedOnly(history'[e][j]) \/ Departed(history'[e][i])
  <2>1. i < j /\ \A k \in Told(e)' : k <= i \/ j <= k
    BY <1>3 DEF Adjacent
  <2>2. CASE j # n + 1
    <3>1. i \in Told(e) /\ j \in Told(e) /\ \A k \in Told(e) : k <= i \/ j <= k
      BY <1>1, <2>1, <2>2
    <3>2. history'[e][i] = history[e][i] /\ history'[e][j] = history[e][j]
      BY <1>1, <3>1
    <3> QED BY <2>1, <3>1, <3>2 DEF Connected, Adjacent
  <2>3. CASE j = n + 1
    <3>1. i \in Told(e) /\ i \in 1 .. n
      BY <1>1, <2>1, <2>3
    <3>2. EndsHere(e) /\ (event.from = emp[e].dept \/ LedOnly(event))
      BY <3>1
    <3>3. PICK l \in Told(e) : /\ \A k \in Told(e) : k <= l
                               /\ history[e][l].to = emp[e].dept \/ Departed(history[e][l])
      BY <3>2 DEF EndsHere
    <3>4. l = i
      BY <1>1, <2>1, <2>3, <3>1, <3>3
    <3>5. history'[e][i] = history[e][i] /\ history'[e][j] = event
      BY <1>1, <2>3, <3>1
    <3> QED BY <3>2, <3>3, <3>4, <3>5
  <2> QED BY <2>2, <2>3
<1>4. Connected(e)'
  BY <1>3 DEF Connected, Departed, LedOnly
<1> QED BY <1>2, <1>4

(* Where neither the history nor the department changes. *)
LEMMA HistoryUnchanged ==
  ASSUME NEW e \in Employees, history'[e] = history[e], emp'[e].dept = emp[e].dept
  PROVE  (EndsHere(e) => EndsHere(e)') /\ (Connected(e) => Connected(e)')
<1>1. Told(e)' = Told(e)
  BY DEF Told
<1> QED BY <1>1 DEF EndsHere, Connected, Adjacent, Departed, LedOnly

LEMMA Untouched ==
  ASSUME NEW e \in Employees, UNCHANGED <<deptName, posName>>,
         history'[e] = history[e], emp'[e] = emp[e], Follows(e)
  PROVE  Follows(e)'
  BY HistoryUnchanged DEF Follows, Hired, InStep

--------------------------------------------------------------------------------
(* Steps *)

(* One employee is placed, where she was or elsewhere, and her history says so. *)
LEMMA WrittenKept ==
  ASSUME HistoryInv, NEW w \in Workers, job' = job \/ Done(w),
         NEW e \in Employees, NEW x \in Placement, NEW event \in Events, event.kind # "seed",
         UNCHANGED <<deptName, posName, restarts>>, emp' = [emp EXCEPT ![e] = x],
         history' = [history EXCEPT ![e] = Append(@, event)],
         muddled' \subseteq Employees, muddled \subseteq muddled', muddled' \subseteq muddled \cup {e},
         e \notin muddled' => /\ InStep(x) /\ (event.to = x.dept \/ Departed(event))
                              /\ ~Hired(e) \/ event.from = emp[e].dept \/ LedOnly(event)
  PROVE  HistoryInv'
<1> USE DEF HistoryInv, HistorySound
<1>1. /\ emp \in [Employees -> Placement \cup {Nowhere}] /\ history \in [Employees -> Seq(Events)]
      /\ emp'[e] = x /\ history'[e] = Append(history[e], event)
      /\ \A f \in Employees \ {e} : emp'[f] = emp[f] /\ history'[f] = history[f]
  BY DEF HistoryTypeOK
<1>2. Hired(e)' /\ \A f \in Employees : Hired(f) => Hired(f)'
  BY <1>1, IdsTold DEF Hired
<1>3. JobsSound' /\ job' \in [Workers -> {Idle} \cup Rename \cup Visit]
  BY <1>2, JobsLeft
<1>4. history'[e] \in Seq(Events)
  BY <1>1, AppendToHistory
<1>5. HistoryTypeOK'
  <2>1. history' \in [Employees -> Seq(Events)]
    BY <1>1, <1>4
  <2>2. emp' \in [Employees -> Placement \cup {Nowhere}]
    BY <1>1
  <2> QED BY <1>3, <2>1, <2>2 DEF HistoryTypeOK
<1>6. Apart'
  BY DEF Apart
<1>7. Begun' /\ SeededOnce'
  <2>1. OneSeed(e)'
    BY <1>1, SeedsLeft DEF SeededOnce
  <2>2. \A f \in Employees \ {e} : OneSeed(f)'
    BY <1>1 DEF SeededOnce, OneSeed
  <2>3. \A f \in Employees : ~Hired(f)' => history'[f] = <<>>
    BY <1>1, <1>2 DEF Begun, Hired
  <2> QED BY <2>1, <2>2, <2>3 DEF SeededOnce, Begun, Hired
<1>8. ASSUME NEW f \in Employees \ muddled' PROVE Follows(f)'
  <2>1. Follows(f)
    BY <1>8 DEF Follows
  <2>2. CASE f # e
    BY <1>1, <2>1, <2>2, Untouched
  <2>3. CASE f = e
    <3>1. InStep(x) /\ (event.to = x.dept \/ Departed(event))
      BY <1>8, <2>3
    <3>2. \/ Told(e) = {}
          \/ EndsHere(e) /\ (event.from = emp[e].dept \/ LedOnly(event))
      <4>1. CASE ~Hired(e)
        <5>1. history[e] = <<>>
          BY <4>1 DEF Begun
        <5> QED BY <5>1 DEF Told
      <4>2. CASE Hired(e)
        BY <1>8, <2>1, <2>3, <4>2 DEF Follows
      <4> QED BY <4>1, <4>2
    <3>3. Connected(e)
      BY <2>1, <2>3 DEF Follows
    <3>4. EndsHere(e)' /\ Connected(e)'
      BY <1>1, <3>1, <3>2, <3>3, ToldAppended
    <3>5. InStep(emp[e])'
      BY <1>1, <3>1 DEF InStep
    <3> QED BY <2>3, <3>4, <3>5 DEF Follows
  <2> QED BY <2>2, <2>3
<1> QED BY <1>3, <1>5, <1>6, <1>7, <1>8 DEF Follows

(* She is placed where she works without an event. *)
LEMMA RewrittenKept ==
  ASSUME HistoryInv, NEW w \in Workers, Done(w),
         NEW e \in Employees, NEW x \in Placement, Hired(e),
         UNCHANGED <<deptName, posName, history, restarts>>, emp' = [emp EXCEPT ![e] = x],
         muddled' \subseteq Employees, muddled \subseteq muddled',
         e \notin muddled' => InStep(x) /\ x.dept = emp[e].dept
  PROVE  HistoryInv'
<1> USE DEF HistoryInv, HistorySound
<1>1. /\ emp \in [Employees -> Placement \cup {Nowhere}] /\ emp'[e] = x
      /\ \A f \in Employees \ {e} : emp'[f] = emp[f]
  BY DEF HistoryTypeOK
<1>2. \A f \in Employees : Hired(f)' <=> Hired(f)
  BY <1>1, IdsTold DEF Hired
<1>3. JobsSound' /\ job' \in [Workers -> {Idle} \cup Rename \cup Visit]
  BY <1>2, JobsLeft
<1>4. emp' \in [Employees -> Placement \cup {Nowhere}]
  BY <1>1
<1>5. HistoryTypeOK' /\ Apart' /\ SeededOnce'
  BY <1>3, <1>4 DEF HistoryTypeOK, Apart, SeededOnce, OneSeed
<1>6. Begun'
  BY <1>2 DEF Begun
<1>7. ASSUME NEW f \in Employees \ muddled' PROVE Follows(f)'
  <2>1. Follows(f)
    BY <1>7 DEF Follows
  <2>2. CASE f # e
    BY <1>1, <2>1, <2>2, Untouched
  <2>3. CASE f = e
    <3>1. InStep(x) /\ emp'[e].dept = emp[e].dept
      BY <1>1, <1>7, <2>3
    <3>2. EndsHere(e)' /\ Connected(e)'
      BY <2>1, <2>3, <3>1, HistoryUnchanged DEF Follows
    <3>3. InStep(emp[e])'
      BY <1>1, <3>1 DEF InStep
    <3> QED BY <2>3, <3>2, <3>3 DEF Follows
  <2> QED BY <2>2, <2>3
<1> QED BY <1>3, <1>5, <1>6, <1>7 DEF Follows

(* A department or a position is renamed, and the copies of its name with it.   *)
LEMMA RenameKept ==
  ASSUME HistoryInv, UNCHANGED <<history, restarts>>, NEW w \in Workers, Done(w),
         deptName' \in [Departments -> Names], posName' \in [PosIds -> Names \cup {None}], Apart',
         \A p \in PosIds : posName[p] # None => posName'[p] # None,
         emp' \in [Employees -> Placement \cup {Nowhere}],
         muddled' \subseteq Employees, muddled \subseteq muddled',
         \A e \in Employees : /\ emp'[e].dept = emp[e].dept /\ (Hired(e)' <=> Hired(e))
                              /\ Hired(e) /\ e \notin muddled' => InStep(emp[e])'
  PROVE  HistoryInv'
<1> USE DEF HistoryInv, HistorySound
<1>1. JobsSound' /\ job' \in [Workers -> {Idle} \cup Rename \cup Visit]
  BY JobsLeft
<1>2. Begun' /\ SeededOnce'
  BY DEF Begun, SeededOnce, OneSeed
<1>3. ASSUME NEW e \in Employees \ muddled' PROVE Follows(e)'
  <2>1. Follows(e)
    BY <1>3 DEF Follows
  <2> QED BY <1>3, <2>1, HistoryUnchanged DEF Follows
<1> QED BY <1>1, <1>2, <1>3 DEF HistoryTypeOK, Follows

(* A handler reads. *)
LEMMA CheckKept ==
  ASSUME HistoryInv, NEW w \in Workers, Check(w)
  PROVE  HistoryInv'
<1> USE DEF HistoryInv, HistorySound
<1>0. ASSUME NEW j \in Rename \cup Visit, Begin(w, j),
             j.op \in {"UpdateEmployee", "SetEmployeeEnabled"} => Hired(j.of),
             j.op = "UpdatePosition" => posName[j.of] # None
      PROVE  HistoryInv'
  <2>1. /\ job'[w] = j /\ \A v \in Workers \ {w} : job'[v] = job[v]
        /\ UNCHANGED <<deptName, posName, emp, history, restarts, muddled>>
        /\ job' \in [Workers -> {Idle} \cup Rename \cup Visit]
    BY <1>0 DEF Begin, HistoryTypeOK
  <2>2. \A v \in Workers :
          /\ job'[v].op \in {"UpdateEmployee", "SetEmployeeEnabled"} => Hired(job'[v].of)
          /\ job'[v].op = "UpdatePosition" => posName[job'[v].of] # None
    BY <1>0, <2>1 DEF JobsSound
  <2>3. JobsSound'
    BY <2>1, <2>2 DEF JobsSound, Hired
  <2>4. Begun' /\ SeededOnce' /\ Apart'
    BY <2>1 DEF Begun, SeededOnce, OneSeed, Apart, Hired
  <2>5. \A e \in Employees : Follows(e) => Follows(e)'
    BY <2>1, Untouched
  <2> QED BY <2>1, <2>3, <2>4, <2>5 DEF HistoryTypeOK, Follows
<1>1. ASSUME NEW e \in Employees, SetEmployeeEnabledCheck(w, e) PROVE HistoryInv'
  <2> DEFINE j == [op |-> "SetEmployeeEnabled", of |-> e, old |-> emp[e], new |-> emp[e]]
  <2>1. Hired(e) /\ emp[e] \in Placement
    BY <1>1 DEF SetEmployeeEnabledCheck, Hired, HistoryTypeOK
  <2>2. j \in Visit /\ j.of = e /\ j.op = "SetEmployeeEnabled"
    BY <2>1 DEF Visit
  <2>3. Begin(w, j)
    BY <1>1 DEF SetEmployeeEnabledCheck
  <2> QED BY <1>0, <2>1, <2>2, <2>3
<1>2. ASSUME NEW e \in Employees, NEW d \in Departments, NEW p \in PosIds,
             CreateEmployeeCheck(w, e, d, p) \/ UpdateEmployeeCheck(w, e, d, p)
      PROVE  HistoryInv'
  <2>1. At(d, p) \in Placement /\ emp[e] \in Placement \cup {Nowhere}
    BY <1>2, AtTyped DEF CreateEmployeeCheck, UpdateEmployeeCheck, HistoryTypeOK
  <2>2. CASE CreateEmployeeCheck(w, e, d, p)
    <3> DEFINE j == [op |-> "CreateEmployee", of |-> e, old |-> Nowhere, new |-> At(d, p)]
    <3>1. j \in Visit /\ j.op = "CreateEmployee"
      BY <2>1 DEF Visit
    <3>2. Begin(w, j)
      BY <2>2 DEF CreateEmployeeCheck
    <3> QED BY <1>0, <3>1, <3>2
  <2>3. CASE UpdateEmployeeCheck(w, e, d, p)
    <3> DEFINE j == [op |-> "UpdateEmployee", of |-> e, old |-> emp[e], new |-> At(d, p)]
    <3>1. j \in Visit /\ j.op = "UpdateEmployee" /\ j.of = e
      BY <2>1 DEF Visit
    <3>2. Begin(w, j) /\ Hired(e)
      BY <2>3 DEF UpdateEmployeeCheck
    <3> QED BY <1>0, <3>1, <3>2
  <2> QED BY <1>2, <2>2, <2>3
<1>3. ASSUME NEW d \in Departments, NEW n \in Names, UpdateDepartmentCheck(w, d, n) PROVE HistoryInv'
  <2> DEFINE j == [op |-> "UpdateDepartment", of |-> d, new |-> n]
  <2>1. j \in Rename /\ j.op = "UpdateDepartment"
    BY DEF Rename
  <2>2. Begin(w, j)
    BY <1>3 DEF UpdateDepartmentCheck
  <2> QED BY <1>0, <2>1, <2>2
<1>4. ASSUME NEW p \in PosIds, NEW n \in Names, UpdatePositionCheck(w, p, n) PROVE HistoryInv'
  <2> DEFINE j == [op |-> "UpdatePosition", of |-> p, old |-> posName[p], new |-> n]
  <2>1. posName[p] # None /\ posName[p] \in Names
    BY <1>4 DEF UpdatePositionCheck, HistoryTypeOK
  <2>2. j \in Rename /\ j.op = "UpdatePosition" /\ j.of = p
    BY <2>1 DEF Rename
  <2>3. Begin(w, j)
    BY <1>4 DEF UpdatePositionCheck
  <2> QED BY <1>0, <2>1, <2>2, <2>3
<1> QED BY <1>1, <1>2, <1>3, <1>4 DEF Check

(* Where a handler has not been overtaken, what it writes is in step. *)
LEMMA NotOutdated ==
  ASSUME HistoryTypeOK, NEW w \in Workers, ~Outdated(job[w])
  PROVE  /\ job[w].op \in {"CreateEmployee", "UpdateEmployee"} => InStep(job[w].new)
         /\ job[w].op \in {"UpdateEmployee", "SetEmployeeEnabled"} =>
              job[w].old.dept = emp[job[w].of].dept
<1>1. ASSUME job[w].op \in {"CreateEmployee", "UpdateEmployee"} PROVE InStep(job[w].new)
  <2>1. job[w].new \in Placement
    BY <1>1, JobTyped
  <2>2. job[w].new = At(job[w].new.dept, job[w].new.pos)
    BY <1>1 DEF Outdated
  <2> QED BY <2>1, <2>2, CopyCurrent
<1>2. job[w].op \in {"UpdateEmployee", "SetEmployeeEnabled"} =>
        job[w].old.dept = emp[job[w].of].dept
  BY DEF Outdated
<1> QED BY <1>1, <1>2

LEMMA CreateEmployeeKept ==
  ASSUME HistoryInv, NEW w \in Workers, CreateEmployee(w)
  PROVE  HistoryInv'
<1> DEFINE j == job[w]
<1>1. HistoryTypeOK
  BY DEF HistoryInv, HistorySound
<1>2. j.op = "CreateEmployee" /\ j.of \in Employees /\ j.new \in Placement
  BY <1>1, JobTyped DEF CreateEmployee
<1>3. /\ UNCHANGED <<deptName, posName, restarts>> /\ emp' = [emp EXCEPT ![j.of] = j.new]
      /\ ~Hired(j.of) /\ Record(j.of, "hire", Nowhere, j.new) /\ Done(w)
      /\ Muddle({j.of}, Outdated(j))
  BY DEF CreateEmployee
<1>4. ~Outdated(j) => InStep(j.new)
  BY <1>1, <1>2, NotOutdated
<1>5. /\ muddled' \subseteq Employees /\ muddled \subseteq muddled'
      /\ muddled' \subseteq muddled \cup {j.of} /\ (Outdated(j) => {j.of} \subseteq muddled')
  BY <1>1, <1>2, <1>3, MuddleTold DEF Outdated
<1> HIDE DEF j
<1>6. PICK event \in Events :
        /\ history' = [history EXCEPT ![j.of] = Append(@, event)] /\ event.kind = "hire"
        /\ event.to = j.new.dept
  <2>1. "hire" \in Kinds /\ Nowhere \in Placement \cup {Nowhere} /\ j.new \in Placement \cup {Nowhere}
    BY <1>2 DEF Kinds
  <2>2. Record(j.of, "hire", Nowhere, j.new) /\ j.of \in Employees
    BY <1>2, <1>3
  <2>3. history' = [history EXCEPT ![j.of] = Append(@, Event("hire", Nowhere, j.new))]
    BY <2>2 DEF Record
  <2>4. /\ Event("hire", Nowhere, j.new) \in Events /\ Event("hire", Nowhere, j.new).kind = "hire"
        /\ Event("hire", Nowhere, j.new).to = j.new.dept
    BY <2>1, EventTyped
  <2> QED BY <2>3, <2>4
<1> QED BY <1>2, <1>3, <1>4, <1>5, <1>6, WrittenKept

LEMMA UpdateEmployeeKept ==
  ASSUME HistoryInv, NEW w \in Workers, UpdateEmployee(w)
  PROVE  HistoryInv'
<1> DEFINE j == job[w]
<1>1. HistoryTypeOK
  BY DEF HistoryInv, HistorySound
<1>2. /\ j.op = "UpdateEmployee" /\ j.of \in Employees /\ j.new \in Placement
      /\ j.old \in Placement \cup {Nowhere} /\ Hired(j.of)
  BY <1>1, JobTyped DEF UpdateEmployee, HistoryInv, JobsSound
<1>3. /\ UNCHANGED <<deptName, posName, restarts>> /\ emp' = [emp EXCEPT ![j.of] = j.new]
      /\ Done(w) /\ Muddle({j.of}, Outdated(j))
      /\ IF Moved(j) THEN Record(j.of, "edit", j.new, j.new) ELSE UNCHANGED history
  BY DEF UpdateEmployee
<1>4. ~Outdated(j) => InStep(j.new) /\ j.old.dept = emp[j.of].dept
  BY <1>1, <1>2, NotOutdated
<1>5. /\ muddled' \subseteq Employees /\ muddled \subseteq muddled'
      /\ muddled' \subseteq muddled \cup {j.of} /\ (Outdated(j) => {j.of} \subseteq muddled')
  BY <1>1, <1>2, <1>3, MuddleTold DEF Outdated
<1> HIDE DEF j
<1>6. CASE Moved(j)
  <2>1. PICK event \in Events :
          /\ history' = [history EXCEPT ![j.of] = Append(@, event)] /\ event.kind = "edit"
          /\ event.from = j.new.dept /\ event.to = j.new.dept
    BY <1>2, <1>3, <1>6, RecordWrites DEF Kinds
  <2>2. LedOnly(event)
    BY <2>1 DEF LedOnly
  <2> QED BY <1>2, <1>3, <1>4, <1>5, <2>1, <2>2, WrittenKept
<1>7. CASE ~Moved(j)
  <2>1. j.old.dept = j.new.dept /\ history' = history
    BY <1>3, <1>7 DEF Moved
  <2> QED BY <1>2, <1>3, <1>4, <1>5, <2>1, RewrittenKept
<1> QED BY <1>6, <1>7

LEMMA SetEmployeeEnabledKept ==
  ASSUME HistoryInv, NEW w \in Workers, SetEmployeeEnabled(w)
  PROVE  HistoryInv'
<1> DEFINE j == job[w]
<1>1. HistoryTypeOK
  BY DEF HistoryInv, HistorySound
<1>2. /\ j.op = "SetEmployeeEnabled" /\ j.of \in Employees
      /\ j.old \in Placement \cup {Nowhere} /\ Hired(j.of) /\ emp[j.of] \in Placement
  BY <1>1, JobTyped DEF SetEmployeeEnabled, HistoryInv, JobsSound, Hired, HistoryTypeOK
<1>3. /\ UNCHANGED <<deptName, posName, restarts>> /\ emp' = [emp EXCEPT ![j.of] = emp[j.of]]
      /\ Done(w) /\ Muddle({j.of}, Outdated(j)) /\ Record(j.of, "status", j.old, j.old)
  BY <1>1, <1>2 DEF SetEmployeeEnabled, HistoryTypeOK
<1>4. ~Outdated(j) => j.old.dept = emp[j.of].dept
  BY <1>1, <1>2, NotOutdated
<1>5. /\ muddled' \subseteq Employees /\ muddled \subseteq muddled'
      /\ muddled' \subseteq muddled \cup {j.of} /\ (Outdated(j) => {j.of} \subseteq muddled')
  BY <1>1, <1>2, <1>3, MuddleTold DEF Outdated
<1>6. j.of \notin muddled' => InStep(emp[j.of])
  BY <1>2, <1>5 DEF HistoryInv, HistorySound
<1> HIDE DEF j
<1>7. PICK event \in Events :
        /\ history' = [history EXCEPT ![j.of] = Append(@, event)] /\ event.kind = "status"
        /\ event.from = j.old.dept /\ event.to = j.old.dept
  <2>1. "status" \in Kinds /\ Record(j.of, "status", j.old, j.old)
    BY <1>3 DEF Kinds
  <2>2. j.of \in Employees /\ j.old \in Placement \cup {Nowhere}
    BY <1>2
  <2>3. history' = [history EXCEPT ![j.of] = Append(@, Event("status", j.old, j.old))]
    BY <2>1 DEF Record
  <2>4. /\ Event("status", j.old, j.old) \in Events /\ Event("status", j.old, j.old).kind = "status"
        /\ Event("status", j.old, j.old).from = j.old.dept /\ Event("status", j.old, j.old).to = j.old.dept
    BY <2>1, <2>2, EventTyped
  <2> QED BY <2>3, <2>4
<1> QED BY <1>2, <1>3, <1>4, <1>5, <1>6, <1>7, WrittenKept

LEMMA ApproveKept ==
  ASSUME HistoryInv, NEW w \in Workers, NEW e \in Employees, Approve(w, e)
  PROVE  HistoryInv'
<1>1. /\ HistoryTypeOK /\ Hired(e) /\ UNCHANGED <<deptName, posName, job, restarts, muddled>>
      /\ emp[e] \in Placement /\ muddled \subseteq Employees
  BY DEF Approve, CompleteTransfer, CompleteDeparture, HistoryInv, HistorySound, HistoryTypeOK, Hired
<1>2. e \notin muddled => InStep(emp[e])
  BY <1>1 DEF HistoryInv, HistorySound
<1>3. ASSUME NEW d \in Departments, NEW p \in PosIds, CompleteTransfer(w, e, d, p) PROVE HistoryInv'
  <2>1. At(d, p) \in Placement /\ InStep(At(d, p)) /\ At(d, p).dept = d
    BY <1>1, <1>3, AtTyped DEF CompleteTransfer
  <2>2. emp' = [emp EXCEPT ![e] = At(d, p)] /\ Record(e, "transfer", emp[e], At(d, p))
    BY <1>3 DEF CompleteTransfer
  <2>3. PICK event \in Events :
          /\ history' = [history EXCEPT ![e] = Append(@, event)] /\ event.kind = "transfer"
          /\ event.from = emp[e].dept /\ event.to = At(d, p).dept
    BY <1>1, <2>1, <2>2, RecordWrites DEF Kinds
  <2> QED BY <1>1, <2>1, <2>2, <2>3, WrittenKept
<1>4. CASE CompleteDeparture(w, e)
  <2>1. emp' = [emp EXCEPT ![e] = emp[e]] /\ Record(e, "departure", emp[e], Nowhere)
    BY <1>1, <1>4 DEF CompleteDeparture, HistoryTypeOK
  <2>2. PICK event \in Events :
          /\ history' = [history EXCEPT ![e] = Append(@, event)] /\ event.kind = "departure"
          /\ event.from = emp[e].dept
    BY <1>1, <2>1, RecordWrites DEF Kinds
  <2>3. Departed(event)
    BY <2>2 DEF Departed
  <2> QED BY <1>1, <1>2, <2>1, <2>2, <2>3, WrittenKept
<1> QED BY <1>3, <1>4 DEF Approve

LEMMA UpdateDepartmentKept ==
  ASSUME HistoryInv, NEW w \in Workers, UpdateDepartment(w)
  PROVE  HistoryInv'
<1> USE DEF HistoryInv, HistorySound
<1> DEFINE j == job[w]
<1>1. j.of \in Departments /\ j.new \in Names
  BY JobTyped DEF UpdateDepartment
<1>2. /\ UNCHANGED <<posName, history, restarts, muddled>> /\ Done(w)
      /\ deptName' = [deptName EXCEPT ![j.of] = j.new]
      /\ emp' = [e \in Employees |->
           IF emp[e].dept = j.of THEN [emp[e] EXCEPT !.department = j.new] ELSE emp[e]]
  BY DEF UpdateDepartment
<1> HIDE DEF j
<1>3. /\ deptName' \in [Departments -> Names] /\ posName' \in [PosIds -> Names \cup {None}] /\ Apart'
      /\ muddled' \subseteq Employees
  BY <1>1, <1>2 DEF HistoryTypeOK, Apart
<1>4. ASSUME NEW e \in Employees
      PROVE  /\ emp'[e] \in Placement \cup {Nowhere} /\ emp'[e].dept = emp[e].dept
             /\ (Hired(e)' <=> Hired(e)) /\ (Hired(e) /\ e \notin muddled' => InStep(emp[e])')
  <2>1. emp'[e] = IF emp[e].dept = j.of THEN [emp[e] EXCEPT !.department = j.new] ELSE emp[e]
    BY <1>2
  <2>2. CASE ~Hired(e)
    <3>1. emp'[e] = Nowhere
      BY <1>1, <2>1, <2>2, IdsTold DEF Hired, Nowhere
    <3> QED BY <2>2, <3>1 DEF Hired
  <2>3. CASE Hired(e)
    <3>1. emp[e] \in Placement
      BY <2>3 DEF HistoryTypeOK, Hired
    <3>2. /\ emp'[e] \in Placement /\ emp'[e].dept = emp[e].dept
          /\ emp'[e].pos = emp[e].pos /\ emp'[e].title = emp[e].title
          /\ emp'[e].department = IF emp[e].dept = j.of THEN j.new ELSE emp[e].department
      BY <1>1, <2>1, <3>1 DEF Placement
    <3>3. ASSUME e \notin muddled' PROVE InStep(emp[e])'
      <4>1. InStep(emp[e])
        BY <1>2, <2>3, <3>3
      <4> QED BY <1>1, <1>2, <3>1, <3>2, <4>1 DEF InStep, HistoryTypeOK, Placement
    <3> QED BY <2>3, <3>2, <3>3, IdsTold DEF Hired
  <2> QED BY <2>2, <2>3
<1>5. emp' \in [Employees -> Placement \cup {Nowhere}]
  BY <1>2, <1>4
<1> QED BY <1>2, <1>3, <1>4, <1>5, RenameKept

LEMMA UpdatePositionKept ==
  ASSUME HistoryInv, NEW w \in Workers, UpdatePosition(w)
  PROVE  HistoryInv'
<1> USE DEF HistoryInv, HistorySound
<1> DEFINE j == job[w]
           stale == j.old = j.new /\ posName[j.of] # j.new
<1>1. j.of \in PosIds /\ j.new \in Names /\ FreeName(posName, j.of, j.new)
  BY JobTyped DEF UpdatePosition
<1>2. /\ UNCHANGED <<deptName, history, restarts>> /\ posName' = [posName EXCEPT ![j.of] = j.new]
      /\ emp' = [e \in Employees |-> Retitled(e, j)] /\ Done(w)
      /\ Muddle({e \in Employees : emp[e].pos = j.of}, stale)
  BY DEF UpdatePosition
<1>3. /\ muddled' \subseteq Employees /\ muddled \subseteq muddled'
      /\ stale => {e \in Employees : emp[e].pos = j.of} \subseteq muddled'
  BY <1>2, MuddleTold
<1> HIDE DEF j
<1>4. /\ deptName' \in [Departments -> Names] /\ posName' \in [PosIds -> Names \cup {None}] /\ Apart'
      /\ \A p \in PosIds : posName[p] # None => posName'[p] # None
  BY <1>1, <1>2, IdsTold DEF HistoryTypeOK, Apart, FreeName
<1>5. ASSUME NEW e \in Employees
      PROVE  /\ emp'[e] \in Placement \cup {Nowhere} /\ emp'[e].dept = emp[e].dept
             /\ (Hired(e)' <=> Hired(e)) /\ (Hired(e) /\ e \notin muddled' => InStep(emp[e])')
  <2>1. emp'[e] = IF emp[e].pos = j.of /\ j.old # j.new THEN [emp[e] EXCEPT !.title = j.new] ELSE emp[e]
    BY <1>2 DEF Retitled
  <2>2. CASE ~Hired(e)
    <3>1. emp'[e] = Nowhere
      BY <1>1, <2>1, <2>2, IdsTold DEF Hired, Nowhere
    <3> QED BY <2>2, <3>1 DEF Hired
  <2>3. CASE Hired(e)
    <3>1. emp[e] \in Placement
      BY <2>3 DEF HistoryTypeOK, Hired
    <3>2. /\ emp'[e] \in Placement /\ emp'[e].dept = emp[e].dept
          /\ emp'[e].pos = emp[e].pos /\ emp'[e].department = emp[e].department
          /\ emp'[e].title = IF emp[e].pos = j.of /\ j.old # j.new THEN j.new ELSE emp[e].title
      BY <1>1, <2>1, <3>1 DEF Placement
    <3>3. ASSUME e \notin muddled' PROVE InStep(emp[e])'
      <4>1. InStep(emp[e])
        BY <1>3, <2>3, <3>3
      <4>2. emp[e].pos = j.of /\ j.old = j.new => posName[j.of] = j.new
        BY <1>3, <3>3
      <4>3. emp[e].pos \in PosIds
        BY <3>1 DEF Placement
      <4>4. posName'[emp[e].pos] = IF emp[e].pos = j.of THEN j.new ELSE posName[emp[e].pos]
        BY <1>1, <1>2, <4>3 DEF HistoryTypeOK
      <4> QED BY <1>1, <1>2, <3>2, <4>1, <4>2, <4>4, IdsTold DEF InStep
    <3> QED BY <2>3, <3>2, <3>3, IdsTold DEF Hired
  <2> QED BY <2>2, <2>3
<1>6. emp' \in [Employees -> Placement \cup {Nowhere}]
  BY <1>2, <1>5
<1> QED BY <1>2, <1>3, <1>4, <1>5, <1>6, RenameKept

LEMMA FailKept ==
  ASSUME HistoryInv, NEW w \in Workers, Fail(w)
  PROVE  HistoryInv'
<1> USE DEF HistoryInv, HistorySound
<1>1. UNCHANGED <<deptName, posName, emp, history, restarts, muddled>> /\ Done(w)
  BY DEF Fail
<1>2. \A e \in Employees : Hired(e) /\ e \notin muddled' => InStep(emp[e])'
  BY <1>1 DEF InStep
<1> QED BY <1>1, <1>2, RenameKept DEF HistoryTypeOK, Apart, Hired

--------------------------------------------------------------------------------
(* The start of the server *)

(* What Open does with positions, and with those who are in one. *)
LEMMA RestartMoves ==
  ASSUME HistoryTypeOK, Apart, Restart
  PROVE  /\ posName' \in [PosIds -> Names \cup {None}] /\ Apart'
         /\ \A p \in PosIds : posName[p] # None => posName'[p] = posName[p]
         /\ \A p \in PosIds : posName'[p] # posName[p] =>
              \E e \in Employees : emp'[e].pos = p /\ posName'[p] = emp[e].title
         /\ emp' \in [Employees -> Placement \cup {Nowhere}]
         /\ \A e \in Employees : ~Hired(e) => emp'[e] = emp[e]
         /\ \A e \in Employees : Hired(e) =>
              /\ emp'[e] \in Placement
              /\ emp'[e] = [emp[e] EXCEPT !.pos = emp'[e].pos]
              /\ posName'[emp'[e].pos] = emp[e].title
              /\ posName[emp[e].pos] = emp[e].title => emp'[e] = emp[e]
<1>1. \A e \in Employees : Hired(e) =>
        emp[e] \in Placement /\ emp[e].pos \in PosIds /\ emp[e].title \in Names
  BY DEF HistoryTypeOK, Hired, Placement
<1>2. Titles \subseteq Names /\ Names \subseteq PosIds
  BY <1>1 DEF Titles, PosIds
<1>3. /\ Unknown \subseteq Names
      /\ \A t \in Unknown : posName[t] = None /\ \A p \in PosIds : posName[p] # t
  BY <1>2, IdsTold DEF Unknown, FreeName, Restart, HistoryTypeOK
<1>4. \A t \in Titles \ Unknown : \E p \in PosIds : posName[p] = t
  BY DEF Unknown, FreeName, HistoryTypeOK
<1>5. posName' = [p \in PosIds |-> IF p \in Unknown THEN p ELSE posName[p]]
  BY DEF Restart
<1>6. posName' \in [PosIds -> Names \cup {None}]
  BY <1>3, <1>5 DEF HistoryTypeOK
<1>7. \A p \in PosIds : posName[p] # None => posName'[p] = posName[p]
  BY <1>3, <1>5
<1>8. Apart'
  BY <1>3, <1>5 DEF Apart
<1>9. ASSUME NEW t \in Titles
      PROVE  /\ PositionNamed(t) \in PosIds /\ posName'[PositionNamed(t)] = t
             /\ \A p \in PosIds : posName[p] = t => PositionNamed(t) = p
  <2>1. t \in Names
    BY <1>2
  <2>2. CASE t \in Unknown
    BY <1>2, <1>3, <1>5, <2>1, <2>2 DEF PositionNamed
  <2>3. CASE t \notin Unknown
    <3>1. PositionNamed(t) \in PosIds /\ posName[PositionNamed(t)] = t
      BY <1>4, <2>3 DEF PositionNamed
    <3>2. posName'[PositionNamed(t)] = t
      BY <1>7, <2>1, <3>1, IdsTold
    <3> QED BY <2>1, <3>1, <3>2, IdsTold DEF Apart
  <2> QED BY <2>2, <2>3
<1>10. ASSUME NEW e \in Employees, Hired(e)
       PROVE  /\ emp'[e] \in Placement /\ emp'[e].pos = PositionNamed(emp[e].title)
              /\ emp'[e] = [emp[e] EXCEPT !.pos = emp'[e].pos]
              /\ posName'[emp'[e].pos] = emp[e].title
              /\ posName[emp[e].pos] = emp[e].title => emp'[e] = emp[e]
  <2> DEFINE p == PositionNamed(emp[e].title)
  <2>1. emp[e].title \in Titles
    BY <1>10 DEF Titles
  <2>2. p \in PosIds /\ posName'[p] = emp[e].title /\ (posName[emp[e].pos] = emp[e].title => p = emp[e].pos)
    BY <1>1, <1>9, <1>10, <2>1
  <2>3. emp'[e] = [emp[e] EXCEPT !.pos = p]
    BY <1>10 DEF Restart
  <2>4. emp[e] \in Placement
    BY <1>1, <1>10
  <2> HIDE DEF p
  <2>5. emp'[e] \in Placement /\ emp'[e].pos = p /\ (p = emp[e].pos => emp'[e] = emp[e])
    BY <2>2, <2>3, <2>4 DEF Placement
  <2> QED BY <2>2, <2>3, <2>5 DEF p
<1>11. ASSUME NEW e \in Employees, ~Hired(e) PROVE emp'[e] = emp[e]
  BY <1>11 DEF Restart
<1>12. emp' \in [Employees -> Placement \cup {Nowhere}]
  <2>1. \A e \in Employees : emp'[e] \in Placement \cup {Nowhere}
    BY <1>10, <1>11 DEF HistoryTypeOK
  <2> QED BY <2>1 DEF Restart
<1>13. ASSUME NEW p \in PosIds, posName'[p] # posName[p]
       PROVE  \E e \in Employees : emp'[e].pos = p /\ posName'[p] = emp[e].title
  <2>1. p \in Unknown /\ posName'[p] = p
    BY <1>5, <1>13
  <2>2. PICK e \in Employees : Hired(e) /\ emp[e].title = p
    BY <2>1 DEF Unknown, Titles
  <2>3. PositionNamed(p) = p
    BY <2>1 DEF PositionNamed
  <2> QED BY <1>10, <2>1, <2>2, <2>3
<1> QED BY <1>6, <1>7, <1>8, <1>10, <1>11, <1>12, <1>13

(* What it does to one history. *)
LEMMA RestartSeeds ==
  ASSUME HistoryInv, Restart, NEW e \in Employees
  PROVE  /\ history'[e] \in Seq(Events) /\ Told(e)' = Told(e)
         /\ \A i \in Told(e) : history'[e][i] = history[e][i]
         /\ Hired(e) => \E i \in DOMAIN history'[e] : history'[e][i].kind = "seed"
         /\ ~Hired(e) => history'[e] = history[e]
         /\ OneSeed(e)'
<1>0. HistoryTypeOK /\ OneSeed(e)
  BY DEF HistoryInv, HistorySound, SeededOnce
<1>1. CASE Hired(e) /\ ~Seeded(e)
  <2> DEFINE event == Event("seed", Nowhere, emp[e])
  <2>1. event \in Events /\ event.kind = "seed"
    <3>1. "seed" \in Kinds /\ Nowhere \in Placement \cup {Nowhere} /\ emp[e] \in Placement \cup {Nowhere}
      BY <1>0 DEF HistoryTypeOK, Kinds
    <3> QED BY <3>1, EventTyped
  <2>2. history'[e] = Append(history[e], event)
    BY <1>1 DEF Restart
  <2> HIDE DEF event
  <2>3. /\ Len(history[e]) \in Nat /\ DOMAIN history[e] = 1 .. Len(history[e])
        /\ DOMAIN history'[e] = 1 .. Len(history[e]) + 1
        /\ \A i \in 1 .. Len(history[e]) : history'[e][i] = history[e][i]
        /\ history'[e][Len(history[e]) + 1] = event
        /\ history'[e] \in Seq(Events) /\ Told(e) \subseteq 1 .. Len(history[e]) /\ Told(e)' = Told(e)
    BY <1>0, <2>1, <2>2, AppendToHistory
  <2>4. \A i \in 1 .. Len(history[e]) : history'[e][i].kind # "seed"
    BY <1>1, <2>3 DEF Seeded
  <2>5. Len(history[e]) + 1 \in DOMAIN history'[e]
    BY <2>3
  <2>6. \A i \in DOMAIN history'[e] : history'[e][i].kind = "seed" => i = Len(history[e]) + 1
    BY <2>3, <2>4
  <2>7. \A i \in Told(e) : history'[e][i] = history[e][i]
    BY <2>3
  <2>8. \E i \in DOMAIN history'[e] : history'[e][i].kind = "seed"
    BY <2>1, <2>3, <2>5
  <2>9. OneSeed(e)'
    BY <2>6 DEF OneSeed
  <2> QED BY <1>1, <2>3, <2>7, <2>8, <2>9
<1>2. CASE ~(Hired(e) /\ ~Seeded(e))
  <2>1. history'[e] = history[e]
    BY <1>2 DEF Restart
  <2>2. OneSeed(e)' /\ Told(e)' = Told(e)
    BY <1>0, <2>1 DEF OneSeed, Told
  <2> QED BY <1>0, <1>2, <2>1, <2>2 DEF Seeded, HistoryTypeOK
<1> QED BY <1>1, <1>2

LEMMA RestartKept ==
  ASSUME HistoryInv, Restart
  PROVE  HistoryInv'
<1>0. HistoryTypeOK /\ Apart
  BY DEF HistoryInv, HistorySound
<1>1. UNCHANGED <<deptName, muddled>> /\ job' = [w \in Workers |-> Idle] /\ restarts' \in 0 .. MaxRestarts
  BY <1>0, HistoryAssumption DEF Restart, HistoryTypeOK
<1>2. posName' \in [PosIds -> Names \cup {None}] /\ Apart' /\ emp' \in [Employees -> Placement \cup {Nowhere}]
  BY <1>0, RestartMoves
<1>3. history' \in [Employees -> Seq(Events)]
  BY RestartSeeds DEF Restart
<1>4. HistoryTypeOK'
  BY <1>0, <1>1, <1>2, <1>3 DEF HistoryTypeOK
<1>5. JobsSound'
  BY <1>1, IdsTold DEF JobsSound
<1>6. ASSUME NEW e \in Employees
      PROVE  (Hired(e)' <=> Hired(e)) /\ (Hired(e) /\ InStep(emp[e]) => emp'[e] = emp[e] /\ InStep(emp[e])')
  <2>1. CASE Hired(e)
    <3>1. /\ emp'[e] \in Placement /\ (posName[emp[e].pos] = emp[e].title => emp'[e] = emp[e])
          /\ posName[emp[e].pos] # None => posName'[emp[e].pos] = posName[emp[e].pos]
      <4>1. emp[e].pos \in PosIds
        BY <1>0, <2>1 DEF HistoryTypeOK, Hired, Placement
      <4> QED BY <1>0, <2>1, <4>1, RestartMoves
    <3>2. Hired(e)'
      BY <3>1, IdsTold DEF Hired
    <3> QED BY <1>1, <2>1, <3>1, <3>2 DEF InStep
  <2>2. CASE ~Hired(e)
    <3>1. emp'[e] = emp[e]
      BY <1>0, <2>2, RestartMoves
    <3> QED BY <2>2, <3>1 DEF Hired
  <2> QED BY <2>1, <2>2
<1>7. ASSUME NEW e \in Employees \ muddled' PROVE Follows(e)'
  <2>1. Follows(e)
    BY <1>1, <1>7 DEF HistoryInv, HistorySound, Follows
  <2>2. Told(e)' = Told(e) /\ \A i \in Told(e) : history'[e][i] = history[e][i]
    BY RestartSeeds
  <2>3. Connected(e)'
    BY <2>1, <2>2 DEF Follows, Connected, Adjacent, Departed, LedOnly
  <2>4. ASSUME Hired(e)' PROVE EndsHere(e)' /\ InStep(emp[e])'
    <3>1. Hired(e) /\ EndsHere(e) /\ InStep(emp[e])
      BY <1>6, <2>1, <2>4 DEF Follows
    <3>2. emp'[e] = emp[e] /\ InStep(emp[e])'
      BY <1>6, <3>1
    <3>3. EndsHere(e)'
      BY <2>2, <3>1, <3>2 DEF EndsHere, Departed
    <3> QED BY <3>2, <3>3
  <2> QED BY <2>3, <2>4 DEF Follows
<1>8. Begun' /\ SeededOnce'
  BY <1>6, RestartSeeds DEF Begun, SeededOnce, HistoryInv
<1> QED BY <1>2, <1>4, <1>5, <1>7, <1>8 DEF HistoryInv, HistorySound, Follows

LEMMA StepKeepsInv == HistoryInv /\ [HistoryNext]_historyVars => HistoryInv'
<1> SUFFICES ASSUME HistoryInv, [HistoryNext]_historyVars PROVE HistoryInv'
  OBVIOUS
<1>1. ASSUME NEW w \in Workers, Transaction(w) PROVE HistoryInv'
  BY <1>1, CreateEmployeeKept, UpdateEmployeeKept, SetEmployeeEnabledKept,
     UpdateDepartmentKept, UpdatePositionKept DEF Transaction
<1>2. ASSUME NEW w \in Workers, NEW e \in Employees, Approve(w, e) PROVE HistoryInv'
  BY <1>2, ApproveKept
<1>3. CASE UNCHANGED historyVars
  BY <1>3 DEF historyVars, HistoryInv, HistorySound, HistoryTypeOK, Apart, JobsSound, InStep,
     Hired, EndsHere, Connected, Adjacent, Told, Departed, LedOnly, Begun, SeededOnce, OneSeed
<1> QED BY <1>1, <1>2, <1>3, CheckKept, FailKept, RestartKept DEF HistoryNext

LEMMA InvKept == HistorySpec => []HistoryInv
  BY InitInv, StepKeepsInv, PTL DEF HistorySpec

--------------------------------------------------------------------------------
(* However many requests are served at once: until a handler writes for an      *)
(* employee from a name or a department that has changed since it read it, she  *)
(* works where her history ends, each event begins where the one before it      *)
(* ended (that of a direct edit, service.go:420, tells where it led only), and  *)
(* her copies of the names of her department and position are current: Create-  *)
(* and UpdateEmployee, SetEmployeeEnabled, completeApproval, UpdateDepartment,  *)
(* UpdatePosition and Open together see to it.                                  *)
THEOREM HistoryIsSound == HistorySpec => []HistorySound
<1>1. HistoryInv => HistorySound
  BY DEF HistoryInv
<1> QED BY <1>1, InvKept, PTL

(* And however often the server starts, whatever titles were left behind: Open  *)
(* keeps every position, makes one anew only for a title that none is called,   *)
(* puts an employee where her title says, so that nobody whose title is the     *)
(* name of her position moves, and leaves each history with one event of its.   *)
THEOREM RestartsAreNeutral == HistorySpec => RestartNeutral
<1>1. ASSUME HistoryInv, [HistoryNext]_historyVars, restarts' # restarts
      PROVE  /\ \A p \in PosIds : posName[p] # None => posName'[p] = posName[p]
             /\ \A p \in PosIds : posName'[p] # posName[p] =>
                  \E e \in Employees : emp'[e].pos = p /\ posName'[p] = emp[e].title
             /\ \A e \in Employees : Hired(e) =>
                  /\ emp'[e] = [emp[e] EXCEPT !.pos = emp'[e].pos]
                  /\ posName'[emp'[e].pos] = emp[e].title
                  /\ posName[emp[e].pos] = emp[e].title => emp'[e] = emp[e]
             /\ \A e \in Employees : Hired(e) => (Cardinality(DOMAIN history[e] \ Told(e)) = 1)'
  <2>1. Restart
    <3>1. \A w \in Workers : ~Check(w)
      BY <1>1 DEF Check, SetEmployeeEnabledCheck, CreateEmployeeCheck, UpdateEmployeeCheck,
         UpdateDepartmentCheck, UpdatePositionCheck, Begin
    <3>2. \A w \in Workers : ~Transaction(w) /\ ~Fail(w)
      BY <1>1 DEF Transaction, CreateEmployee, UpdateEmployee, SetEmployeeEnabled,
         UpdateDepartment, UpdatePosition, Fail
    <3>3. \A w \in Workers, e \in Employees : ~Approve(w, e)
      BY <1>1 DEF Approve, CompleteTransfer, CompleteDeparture
    <3> QED BY <1>1, <3>1, <3>2, <3>3 DEF historyVars, HistoryNext
  <2>2. HistoryTypeOK /\ Apart
    BY <1>1 DEF HistoryInv, HistorySound
  <2>3. ASSUME NEW e \in Employees, Hired(e) PROVE (Cardinality(DOMAIN history[e] \ Told(e)) = 1)'
    <3>1. PICK i \in DOMAIN history'[e] : history'[e][i].kind = "seed"
      BY <1>1, <2>1, <2>3, RestartSeeds
    <3>2. (DOMAIN history[e] \ Told(e))' = {i}
      BY <1>1, <2>1, <3>1, RestartSeeds DEF Told, OneSeed
    <3> QED BY <3>2, FS_Singleton
  <2> QED BY <2>1, <2>2, <2>3, RestartMoves
<1> QED BY <1>1, InvKept, PTL DEF HistorySpec, RestartNeutral
================================================================================
