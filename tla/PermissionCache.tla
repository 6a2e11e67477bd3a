---------------------------- MODULE PermissionCache ----------------------------
(* What a request may do: the permissions loadPermissions gives to the employee *)
(* it has authenticated (service.go), from the cache or from the Permission     *)
(* service (permission/client.go), which answers by user name and whose grants  *)
(* change under our feet.                                                       *)
(* Time is counted in ticks and kept relative to now: left[u] is expiresAt      *)
(* minus now, a request's age is now minus the time it took before it looked at *)
(* the cache.  One tick is the client's timeout, so TTL is 3.                   *)
EXTENDS Integers

CONSTANTS Users, Perms,
          Admins,    \* users with the role admin
          Workers,   \* requests served at the same time
          TTL,       \* ticks an answer is cached
          MaxAge     \* bound: ticks a request may take, waiting included

ASSUME CacheAssumption == /\ Users # {} /\ Admins \subseteq Users
                          /\ TTL \in Nat \ {0} /\ MaxAge \in Nat \ {0}

VARIABLES granted,   \* the Permission service: who has which permission
          steady,    \* history: ticks since a permission was last given or taken
          left, held,  \* the cache: life left of the entry of a user, its permissions
          job        \* the requests being served

permVars == <<granted, steady, left, held, job>>

Horizon == TTL + MaxAge      \* longer ago makes no difference
Phases == {"idle", "begun", "asking", "answered", "loaded"}
Job == [phase : Phases, user : Users, age : 0..MaxAge, perms : SUBSET Perms, failed : BOOLEAN]

PermTypeOK ==
  /\ granted \in [Users -> SUBSET Perms]
  /\ steady \in [Users -> [Perms -> 0..Horizon]]
  /\ left \in [Users -> -MaxAge..TTL]
  /\ held \in [Users -> SUBSET Perms]
  /\ job \in [Workers -> Job]

Idle == [phase |-> "idle", user |-> CHOOSE u \in Users : TRUE, age |-> 0,
         perms |-> {}, failed |-> FALSE]
Capped(n, top) == IF n < top THEN n ELSE top

--------------------------------------------------------------------------------
(* loadPermissions *)

(* The time of the request is taken here, before the lock and before the call.  *)
Begin(w, u) ==
  /\ job[w].phase = "idle"
  /\ job' = [job EXCEPT ![w] =
       [phase |-> IF u \in Admins THEN "loaded" ELSE "begun", user |-> u, age |-> 0,
        perms |-> IF u \in Admins THEN Perms ELSE {}, failed |-> FALSE]]
  /\ UNCHANGED <<granted, steady, left, held>>

(* The entry had not expired at the time of the request. *)
Cached(w) == left[job[w].user] + job[w].age > 0

MutantHit(w) ==
  /\ job[w].phase = "begun" /\ Cached(w)
  /\ job' = [job EXCEPT ![w].phase = "loaded", ![w].perms = held[job[w].user]]
  /\ left' = [left EXCEPT ![job[w].user] = TTL - job[w].age]
  /\ UNCHANGED <<granted, steady, held>>
Hit(w) ==
  /\ job[w].phase = "begun" /\ Cached(w)
  /\ job' = [job EXCEPT ![w].phase = "loaded", ![w].perms = held[job[w].user]]
  /\ UNCHANGED <<granted, steady, left, held>>

Miss(w) ==
  /\ job[w].phase = "begun" /\ ~Cached(w)
  /\ job' = [job EXCEPT ![w].phase = "asking"]
  /\ UNCHANGED <<granted, steady, left, held>>

(* The Permission service evaluates the request of Client.Authorize. *)
Answer(w) ==
  /\ job[w].phase = "asking"
  /\ job' = [job EXCEPT ![w].phase = "answered", ![w].perms = granted[job[w].user]]
  /\ UNCHANGED <<granted, steady, left, held>>

MutantFail(w) ==
  /\ job[w].phase = "asking"
  /\ job' = [job EXCEPT ![w].phase = "loaded", ![w].failed = TRUE]
  /\ held' = [held EXCEPT ![job[w].user] = {}]
  /\ left' = [left EXCEPT ![job[w].user] = TTL - job[w].age]
  /\ UNCHANGED <<granted, steady>>
(* No answer, in time or at all, or one that cannot be read: the request goes   *)
(* on without permissions and nothing is remembered.                            *)
Fail(w) ==
  /\ job[w].phase = "asking"
  /\ job' = [job EXCEPT ![w].phase = "loaded", ![w].failed = TRUE]
  /\ UNCHANGED <<granted, steady, left, held>>

MutantLife(w) == TTL
(* The entry expires TTL after the time of the request that fills it, not after *)
(* the answer.                                                                  *)
Life(w) == TTL - job[w].age

Store(w) ==
  /\ job[w].phase = "answered"
  /\ job' = [job EXCEPT ![w].phase = "loaded"]
  /\ held' = [held EXCEPT ![job[w].user] = job[w].perms]
  /\ left' = [left EXCEPT ![job[w].user] = Life(w)]
  /\ UNCHANGED <<granted, steady>>

(* The handler has asked HasPermission what it needed to, and answers. *)
Finish(w) ==
  /\ job[w].phase = "loaded"
  /\ job' = [job EXCEPT ![w] = Idle]
  /\ UNCHANGED <<granted, steady, left, held>>

--------------------------------------------------------------------------------
(* An administrator of the Permission service gives or takes a permission. *)
Decide(u, p) ==
  /\ granted' = [granted EXCEPT ![u] = IF p \in @ THEN @ \ {p} ELSE @ \cup {p}]
  /\ steady' = [steady EXCEPT ![u][p] = 0]
  /\ UNCHANGED <<left, held, job>>

Tick ==
  /\ \A w \in Workers : job[w].phase # "idle" => job[w].age < MaxAge
  /\ steady' = [u \in Users |-> [p \in Perms |-> Capped(steady[u][p] + 1, Horizon)]]
  /\ left' = [u \in Users |-> IF left[u] > -MaxAge THEN left[u] - 1 ELSE left[u]]
  /\ job' = [w \in Workers |-> IF job[w].phase = "idle" THEN job[w]
                               ELSE [job[w] EXCEPT !.age = @ + 1]]
  /\ UNCHANGED <<granted, held>>

PermInit ==
  /\ granted \in [Users -> SUBSET Perms]
  /\ steady = [u \in Users |-> [p \in Perms |-> Horizon]]
  /\ left = [u \in Users |-> -MaxAge]
  /\ held = [u \in Users |-> {}]
  /\ job = [w \in Workers |-> Idle]

Load(w) == Hit(w) \/ Miss(w) \/ Answer(w) \/ Fail(w) \/ Store(w)

PermNext ==
  \/ \E w \in Workers : (\E u \in Users : Begin(w, u)) \/ Load(w) \/ Finish(w)
  \/ \E u \in Users, p \in Perms : Decide(u, p)
  \/ Tick

PermSpec == PermInit /\ [][PermNext]_permVars

(* Time passes, and a request that was begun goes on: the call has a timeout.   *)
(* Nothing makes a request come, or an answer.                                  *)
Fairness ==
  /\ WF_permVars(Tick)
  /\ \A w \in Workers : WF_permVars(Load(w)) /\ WF_permVars(Finish(w))

FairPermSpec == PermSpec /\ Fairness
--------------------------------------------------------------------------------
(* Ticks since u last had p, and since u last was without it. *)
SinceHad(u, p) == IF p \in granted[u] THEN 0 ELSE steady[u][p]
SinceLacked(u, p) == IF p \in granted[u] THEN steady[u][p] ELSE 0

(* A request acts on a permission only if the user had it less than TTL before  *)
(* the request came, or has been given it since: however calls overlap, come    *)
(* late, and are stored out of order.                                           *)
GrantsFresh ==
  \A w \in Workers : job[w].phase = "loaded" /\ job[w].user \notin Admins =>
    \A p \in job[w].perms : SinceHad(job[w].user, p) < TTL + job[w].age

(* A request that is not told of a permission, though nothing failed, comes     *)
(* from a user who was without it that recently: an outage of the Permission    *)
(* service is not remembered as a refusal.                                      *)
RefusalsFresh ==
  \A w \in Workers : job[w].phase = "loaded" /\ ~job[w].failed =>
    \A p \in Perms \ job[w].perms : SinceLacked(job[w].user, p) < TTL + job[w].age

(* A permission taken for good is out of every answer after a while, even when  *)
(* requests never stop coming.                                                  *)
RevocationTakesEffect ==
  \A u \in Users \ Admins, p \in Perms :
    <>[](p \notin granted[u]) =>
      <>[](\A w \in Workers : job[w].user = u => p \notin job[w].perms)
================================================================================
