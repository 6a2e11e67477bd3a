------------------------- MODULE PermissionCacheProofs -------------------------
(* What a request is told of its user's permissions is less than TTL old when   *)
(* the request comes, for every number of users, requests and permissions.  The *)
(* inductive invariant adds what the cache and an answer on its way know: how   *)
(* long ago a permission can have changed.                                      *)
EXTENDS PermissionCache, TLAPS

(* u had p, if so it says, or was without it, at most age ticks ago. *)
Told(u, p, says, age) == IF says THEN SinceHad(u, p) <= age ELSE SinceLacked(u, p) <= age

EntriesFresh ==
  \A u \in Users, p \in Perms : Told(u, p, p \in held[u], TTL - left[u])

AnswersFresh ==
  \A w \in Workers, p \in Perms : job[w].phase = "answered" =>
    Told(job[w].user, p, p \in job[w].perms, job[w].age)

(* Nothing is told before the cache or the service has. *)
NothingToldEarly ==
  \A w \in Workers : job[w].phase \in {"begun", "asking"} => job[w].perms = {}

FreshInv == /\ PermTypeOK /\ NothingToldEarly
            /\ EntriesFresh /\ AnswersFresh /\ GrantsFresh /\ RefusalsFresh

LEMMA IdleIsJob == Idle \in Job
  BY CacheAssumption DEF Idle, Job, Phases

(* A counter that has reached its cap stays there. *)
LEMMA CappedType == \A n, top \in Nat : Capped(n + 1, top) \in 0..top
  BY DEF Capped

LEMMA InitFresh == PermInit => FreshInv
<1> SUFFICES ASSUME PermInit PROVE FreshInv
  OBVIOUS
<1> USE CacheAssumption DEF PermInit
<1>1. PermTypeOK
  BY IdleIsJob DEF PermTypeOK, Horizon
<1>2. EntriesFresh
  BY DEF EntriesFresh, Told, SinceHad, SinceLacked, Horizon
<1>3. NothingToldEarly /\ AnswersFresh /\ GrantsFresh /\ RefusalsFresh
  BY DEF NothingToldEarly, AnswersFresh, GrantsFresh, RefusalsFresh, Idle
<1> QED BY <1>1, <1>2, <1>3 DEF FreshInv

LEMMA BeginFresh ==
  ASSUME FreshInv, NEW w \in Workers, NEW u \in Users, Begin(w, u)
  PROVE FreshInv'
<1> USE CacheAssumption DEF Begin, FreshInv
<1>1. PermTypeOK'
  BY DEF PermTypeOK, Job, Phases
<1>2. EntriesFresh'
  BY DEF EntriesFresh, Told, SinceHad, SinceLacked
<1>3. (NothingToldEarly /\ AnswersFresh /\ GrantsFresh /\ RefusalsFresh)'
  BY DEF NothingToldEarly, AnswersFresh, GrantsFresh, RefusalsFresh, Told, SinceHad,
     SinceLacked, PermTypeOK
<1> QED BY <1>1, <1>2, <1>3

LEMMA LoadFresh ==
  ASSUME FreshInv, NEW w \in Workers, Load(w)
  PROVE FreshInv'
<1> USE CacheAssumption DEF FreshInv
<1>0. job[w].user \in Users /\ job[w].age \in 0..MaxAge /\ job[w].perms \subseteq Perms
  BY DEF PermTypeOK, Job
<1>1. CASE Hit(w)
  <2> USE DEF Hit
  <2>1. PermTypeOK'
    BY <1>0, <1>1 DEF PermTypeOK, Job, Phases
  <2>2. (NothingToldEarly /\ EntriesFresh /\ AnswersFresh)'
    BY <1>0, <1>1 DEF NothingToldEarly, EntriesFresh, AnswersFresh, Told, SinceHad,
       SinceLacked, PermTypeOK
  <2>3. \A p \in Perms : Told(job[w].user, p, p \in held[job[w].user], TTL + job[w].age - 1)
    <3> SUFFICES ASSUME NEW p \in Perms
                 PROVE Told(job[w].user, p, p \in held[job[w].user], TTL + job[w].age - 1)
      OBVIOUS
    <3>1. Told(job[w].user, p, p \in held[job[w].user], TTL - left[job[w].user])
      BY <1>0 DEF EntriesFresh
    <3>2. TTL - left[job[w].user] <= TTL + job[w].age - 1 /\ left[job[w].user] \in Int
      BY <1>0, <1>1 DEF Cached, PermTypeOK
    <3>3. SinceHad(job[w].user, p) \in Nat /\ SinceLacked(job[w].user, p) \in Nat
      BY <1>0 DEF SinceHad, SinceLacked, PermTypeOK, Horizon
    <3> QED BY <1>0, <3>1, <3>2, <3>3 DEF Told
  <2>4. GrantsFresh'
    BY <1>0, <1>1, <2>3 DEF GrantsFresh, Told, SinceHad, SinceLacked, PermTypeOK, Job, Horizon
  <2>5. RefusalsFresh'
    BY <1>0, <1>1, <2>3 DEF RefusalsFresh, Told, SinceHad, SinceLacked, PermTypeOK, Job, Horizon
  <2> QED BY <2>1, <2>2, <2>4, <2>5
<1>2. CASE Miss(w)
  <2> USE DEF Miss
  <2>1. PermTypeOK'
    BY <1>0, <1>2 DEF PermTypeOK, Job, Phases
  <2>2. (NothingToldEarly /\ EntriesFresh /\ AnswersFresh)'
    BY <1>0, <1>2 DEF NothingToldEarly, EntriesFresh, AnswersFresh, Told, SinceHad,
       SinceLacked, PermTypeOK
  <2>3. (GrantsFresh /\ RefusalsFresh)'
    BY <1>0, <1>2 DEF GrantsFresh, RefusalsFresh, SinceHad, SinceLacked, PermTypeOK
  <2> QED BY <2>1, <2>2, <2>3
<1>3. CASE Answer(w)
  <2> USE DEF Answer
  <2>1. PermTypeOK'
    BY <1>0, <1>3 DEF PermTypeOK, Job, Phases
  <2>2. (NothingToldEarly /\ EntriesFresh /\ AnswersFresh)'
    BY <1>0, <1>3 DEF NothingToldEarly, EntriesFresh, AnswersFresh, Told, SinceHad,
       SinceLacked, PermTypeOK
  <2>3. (GrantsFresh /\ RefusalsFresh)'
    BY <1>0, <1>3 DEF GrantsFresh, RefusalsFresh, SinceHad, SinceLacked, PermTypeOK
  <2> QED BY <2>1, <2>2, <2>3
<1>4. CASE Fail(w)
  <2> USE DEF Fail
  <2>1. PermTypeOK'
    BY <1>0, <1>4 DEF PermTypeOK, Job, Phases
  <2>2. (NothingToldEarly /\ EntriesFresh /\ AnswersFresh)'
    BY <1>0, <1>4 DEF NothingToldEarly, EntriesFresh, AnswersFresh, Told, SinceHad,
       SinceLacked, PermTypeOK
  <2>3. GrantsFresh'
    BY <1>0, <1>4 DEF NothingToldEarly, GrantsFresh, SinceHad, PermTypeOK
  <2>4. RefusalsFresh'
    BY <1>0, <1>4 DEF RefusalsFresh, SinceLacked, PermTypeOK
  <2> QED BY <2>1, <2>2, <2>3, <2>4
<1>5. CASE Store(w)
  <2> USE DEF Store, Life
  <2>1. PermTypeOK'
    <3>1. TTL - job[w].age \in -MaxAge..TTL
      BY <1>0
    <3>2. left' \in [Users -> -MaxAge..TTL] /\ held' \in [Users -> SUBSET Perms]
      BY <1>0, <1>5, <3>1 DEF PermTypeOK
    <3>3. job' \in [Workers -> Job]
      BY <1>5 DEF PermTypeOK, Job, Phases
    <3> QED BY <1>5, <3>2, <3>3 DEF PermTypeOK
  <2>2. (NothingToldEarly /\ EntriesFresh /\ AnswersFresh)'
    BY <1>0, <1>5 DEF NothingToldEarly, EntriesFresh, AnswersFresh, Told, SinceHad,
       SinceLacked, PermTypeOK
  <2>3. \A p \in Perms : Told(job[w].user, p, p \in job[w].perms, TTL + job[w].age - 1)
    <3>1. \A p \in Perms : Told(job[w].user, p, p \in job[w].perms, job[w].age)
      BY <1>5 DEF AnswersFresh
    <3>2. \A p \in Perms : SinceHad(job[w].user, p) \in Nat /\ SinceLacked(job[w].user, p) \in Nat
      BY <1>0 DEF SinceHad, SinceLacked, PermTypeOK, Horizon
    <3>3. job[w].age <= TTL + job[w].age - 1
      BY <1>0
    <3> QED BY <1>0, <3>1, <3>2, <3>3 DEF Told
  <2>4. (GrantsFresh /\ RefusalsFresh)'
    BY <1>0, <1>5, <2>3 DEF GrantsFresh, RefusalsFresh, Told, SinceHad, SinceLacked,
       PermTypeOK, Horizon
  <2> QED BY <2>1, <2>2, <2>4
<1> QED BY <1>1, <1>2, <1>3, <1>4, <1>5 DEF Load

LEMMA FinishFresh ==
  ASSUME FreshInv, NEW w \in Workers, Finish(w)
  PROVE FreshInv'
<1> USE CacheAssumption DEF Finish, FreshInv
<1>1. PermTypeOK'
  BY IdleIsJob DEF PermTypeOK
<1>2. (NothingToldEarly /\ EntriesFresh /\ AnswersFresh)'
  BY DEF NothingToldEarly, EntriesFresh, AnswersFresh, Told, SinceHad, SinceLacked, PermTypeOK, Idle
<1>3. (GrantsFresh /\ RefusalsFresh)'
  BY DEF GrantsFresh, RefusalsFresh, SinceHad, SinceLacked, PermTypeOK, Idle
<1> QED BY <1>1, <1>2, <1>3

(* After a decision the user has just had the permission and just lacked it. *)
LEMMA DecideFresh ==
  ASSUME FreshInv, NEW v \in Users, NEW q \in Perms, Decide(v, q)
  PROVE FreshInv'
<1> USE CacheAssumption DEF Decide, FreshInv
<1>1. PermTypeOK'
  BY DEF PermTypeOK, Horizon
<1>2. \A u \in Users, p \in Perms :
        /\ SinceHad(u, p)' \in {0, SinceHad(u, p)}
        /\ SinceLacked(u, p)' \in {0, SinceLacked(u, p)}
        /\ SinceHad(u, p) \in Nat /\ SinceLacked(u, p) \in Nat
  BY DEF SinceHad, SinceLacked, PermTypeOK, Horizon
<1>3. EntriesFresh'
  BY <1>2 DEF EntriesFresh, Told, PermTypeOK
<1>4. \A w \in Workers : job[w].user \in Users /\ job[w].age \in Nat /\ job[w].perms \subseteq Perms
  BY DEF PermTypeOK, Job
<1>5. AnswersFresh' /\ NothingToldEarly'
  BY <1>2, <1>4 DEF AnswersFresh, NothingToldEarly, Told
<1>6. GrantsFresh'
  BY <1>2, <1>4 DEF GrantsFresh
<1>7. RefusalsFresh'
  BY <1>2, <1>4 DEF RefusalsFresh
<1> QED BY <1>1, <1>3, <1>5, <1>6, <1>7

(* As time passes what is known grows old at the pace of the request and of the *)
(* entry; an entry that is no longer counted down is as old as the horizon.     *)
LEMMA TickFresh ==
  ASSUME FreshInv, Tick
  PROVE FreshInv'
<1> USE CacheAssumption DEF Tick, FreshInv
<1>1. PermTypeOK'
  <2>1. steady' \in [Users -> [Perms -> 0..Horizon]]
    <3> SUFFICES ASSUME NEW u \in Users, NEW p \in Perms
                 PROVE Capped(steady[u][p] + 1, Horizon) \in 0..Horizon
      BY DEF PermTypeOK
    <3> QED BY CappedType DEF PermTypeOK, Horizon
  <2>2. job' \in [Workers -> Job]
    <3> SUFFICES ASSUME NEW w \in Workers PROVE job'[w] \in Job
      OBVIOUS
    <3>1. job[w] \in Job
      BY DEF PermTypeOK
    <3>2. CASE job[w].phase = "idle"
      BY <3>1, <3>2
    <3>3. CASE job[w].phase # "idle"
      <4>1. job[w].age + 1 \in 0..MaxAge
        BY <3>1, <3>3 DEF Job
      <4> QED BY <3>1, <3>3, <4>1 DEF Job
    <3> QED BY <3>2, <3>3
  <2> QED BY <2>1, <2>2 DEF PermTypeOK
<1>2. \A u \in Users, p \in Perms :
        /\ SinceHad(u, p) \in 0..Horizon /\ SinceLacked(u, p) \in 0..Horizon
        /\ SinceHad(u, p)' \in 0..Horizon /\ SinceLacked(u, p)' \in 0..Horizon
        /\ SinceHad(u, p)' <= SinceHad(u, p) + 1
        /\ SinceLacked(u, p)' <= SinceLacked(u, p) + 1
  BY DEF SinceHad, SinceLacked, PermTypeOK, Horizon, Capped
<1>3. EntriesFresh'
  <2> SUFFICES ASSUME NEW u \in Users, NEW p \in Perms
               PROVE Told(u, p, p \in held[u], TTL - left[u])'
    BY DEF EntriesFresh
  <2>1. Told(u, p, p \in held[u], TTL - left[u])
    BY DEF EntriesFresh
  <2>2. left[u] \in -MaxAge..TTL /\ left'[u] = IF left[u] > -MaxAge THEN left[u] - 1 ELSE left[u]
    BY DEF PermTypeOK
  <2> QED BY <1>2, <2>1, <2>2 DEF Told, Horizon
<1>4. \A w \in Workers : job[w].phase # "idle" =>
        /\ job'[w].age = job[w].age + 1 /\ job[w].age \in Nat /\ job[w].user \in Users
        /\ job[w].perms \subseteq Perms
  BY DEF PermTypeOK, Job
<1>5. \A w \in Workers : job'[w].phase = job[w].phase /\ job'[w].user = job[w].user
                         /\ job'[w].perms = job[w].perms /\ job'[w].failed = job[w].failed
  BY DEF PermTypeOK, Job
<1>6. AnswersFresh'
  <2> SUFFICES ASSUME NEW w \in Workers, NEW p \in Perms, job'[w].phase = "answered"
               PROVE Told(job[w].user, p, p \in job[w].perms, job[w].age)'
    BY DEF AnswersFresh
  <2>1. Told(job[w].user, p, p \in job[w].perms, job[w].age) /\ job[w].phase # "idle"
    BY <1>5 DEF AnswersFresh
  <2>2. PICK u \in Users : u = job[w].user
    BY <1>4, <2>1
  <2>3. PICK n \in Nat : n = job[w].age /\ job'[w].age = n + 1
    BY <1>4, <2>1
  <2>4. Told(u, p, p \in job[w].perms, n)
    BY <2>1, <2>2, <2>3
  <2>5. SinceHad(u, p)' <= SinceHad(u, p) + 1 /\ SinceLacked(u, p)' <= SinceLacked(u, p) + 1
        /\ SinceHad(u, p) \in Nat /\ SinceHad(u, p)' \in Nat
        /\ SinceLacked(u, p) \in Nat /\ SinceLacked(u, p)' \in Nat
    BY <1>2 DEF Horizon
  <2>6. IF p \in job[w].perms THEN SinceHad(u, p)' <= n + 1 ELSE SinceLacked(u, p)' <= n + 1
    BY <2>4, <2>5 DEF Told
  <2> QED BY <1>5, <2>2, <2>3, <2>6 DEF Told
<1>7. GrantsFresh'
  <2> SUFFICES ASSUME NEW w \in Workers, NEW p \in job[w].perms,
                      job'[w].phase = "loaded", job'[w].user \notin Admins
               PROVE SinceHad(job[w].user, p)' < TTL + job'[w].age
    BY <1>5 DEF GrantsFresh
  <2>1. job[w].phase # "idle" /\ SinceHad(job[w].user, p) < TTL + job[w].age
    BY <1>5 DEF GrantsFresh
  <2>2. PICK u \in Users : u = job[w].user
    BY <1>4, <2>1
  <2>3. SinceHad(u, p)' <= SinceHad(u, p) + 1
        /\ SinceHad(u, p) \in Nat /\ SinceHad(u, p)' \in Nat
    <3>1. p \in Perms
      BY <1>4, <2>1
    <3> QED BY <1>2, <3>1 DEF Horizon
  <2>4. SinceHad(u, p) < TTL + job[w].age
    BY <2>1, <2>2
  <2>5. job'[w].user = u /\ job'[w].age = job[w].age + 1 /\ job[w].age \in Nat
    BY <1>4, <1>5, <2>1, <2>2
  <2>6. SinceHad(u, p)' < TTL + job'[w].age
    BY CacheAssumption, <2>3, <2>4, <2>5
  <2> QED BY <2>5, <2>6
<1>8. RefusalsFresh'
  <2> SUFFICES ASSUME NEW w \in Workers, NEW p \in Perms \ job[w].perms,
                      job'[w].phase = "loaded", ~job'[w].failed
               PROVE SinceLacked(job[w].user, p)' < TTL + job'[w].age
    BY <1>5 DEF RefusalsFresh
  <2>1. job[w].phase # "idle" /\ SinceLacked(job[w].user, p) < TTL + job[w].age
    BY <1>5 DEF RefusalsFresh
  <2>2. PICK u \in Users : u = job[w].user
    BY <1>4, <2>1
  <2>3. SinceLacked(u, p)' <= SinceLacked(u, p) + 1
        /\ SinceLacked(u, p) \in Nat /\ SinceLacked(u, p)' \in Nat
    <3>1. p \in Perms
      BY <1>4, <2>1
    <3> QED BY <1>2, <3>1 DEF Horizon
  <2>4. SinceLacked(u, p) < TTL + job[w].age
    BY <2>1, <2>2
  <2>5. job'[w].user = u /\ job'[w].age = job[w].age + 1 /\ job[w].age \in Nat
    BY <1>4, <1>5, <2>1, <2>2
  <2>6. SinceLacked(u, p)' < TTL + job'[w].age
    BY CacheAssumption, <2>3, <2>4, <2>5
  <2> QED BY <2>5, <2>6
<1>9. NothingToldEarly'
  BY <1>5 DEF NothingToldEarly
<1> QED BY <1>1, <1>3, <1>6, <1>7, <1>8, <1>9

(* The cache and the requests never know more, nor older, than FreshInv says. *)
THEOREM Freshness == PermSpec => []FreshInv
<1>1. FreshInv /\ [PermNext]_permVars => FreshInv'
  <2> SUFFICES ASSUME FreshInv, [PermNext]_permVars PROVE FreshInv'
    OBVIOUS
  <2>1. CASE UNCHANGED permVars
    BY <2>1 DEF permVars, FreshInv, PermTypeOK, NothingToldEarly, EntriesFresh, AnswersFresh,
       GrantsFresh, RefusalsFresh, Told, SinceHad, SinceLacked
  <2>2. CASE PermNext
    BY <2>2, BeginFresh, LoadFresh, FinishFresh, DecideFresh, TickFresh DEF PermNext
  <2> QED BY <2>1, <2>2
<1> QED BY InitFresh, <1>1, PTL DEF PermSpec

(* A permission is acted on only if the user had it less than TTL before the    *)
(* request came, or since.                                                      *)
THEOREM GrantsAreFresh == PermSpec => []GrantsFresh
  BY Freshness, PTL DEF FreshInv

(* A permission that is missed was lacking that recently, outages apart. *)
THEOREM RefusalsAreFresh == PermSpec => []RefusalsFresh
  BY Freshness, PTL DEF FreshInv

(* The cache, the requests and the history keep their types. *)
THEOREM PermTypeCorrect == PermSpec => []PermTypeOK
  BY Freshness, PTL DEF FreshInv
================================================================================
