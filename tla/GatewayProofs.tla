----------------------------- MODULE GatewayProofs -----------------------------
(* For any number of requests, of verifications at the same time and for any     *)
(* clocks: an accepted nonce is remembered for as long as its window is open, so *)
(* between two restarts a signed request gets through again only when its window *)
(* is over, at its last tick or by a verification that took the lock late.       *)
EXTENDS Gateway, TLAPS

(* Nonces come from accepted requests, and only signed requests travel. *)
NoncesEarned == nonces \subseteq accepted
SignedOnly ==
  /\ \A w \in Workers : check[w].phase # "idle" => state[check[w].req] = "signed"
  /\ \A r \in accepted : state[r] = "signed"

GwInv == GwTypeOK /\ AcceptedRemembered /\ NoncesEarned /\ SignedOnly /\ RefusedForCause

LEMMA IdleCheck == Idle \in [phase : Phases, req : Requests, age : 0..MaxAge]
  BY GatewayAssumption DEF Idle, Phases

LEMMA GwInitInv == GwInit => GwInv
<1> SUFFICES ASSUME GwInit PROVE GwInv
  OBVIOUS
<1>1. Floor \in Int
  BY GatewayAssumption DEF Floor
<1>2. GwTypeOK
  BY IdleCheck, <1>1 DEF GwInit, GwTypeOK
<1> QED BY <1>2 DEF GwInit, GwInv, AcceptedRemembered, NoncesEarned, SignedOnly,
   RefusedForCause, Idle

LEMMA ServeInv ==
  ASSUME GwInv, NEW q \in Requests, NEW shape \in Shapes, NEW drift \in Drifts,
         ServeHTTP(q, shape, drift)
  PROVE GwInv'
<1> USE GatewayAssumption DEF GwInv, ServeHTTP
<1>1. GwTypeOK'
  BY DEF GwTypeOK, Floor
<1>2. \A w \in Workers : check[w].req \in Requests
  BY DEF GwTypeOK
<1>3. \A r \in Requests \ {q} : window'[r] = window[r] /\ state'[r] = state[r]
  BY DEF GwTypeOK
<1>4. q \notin accepted /\ \A w \in Workers : check[w].phase # "idle" => check[w].req # q
  BY DEF SignedOnly
<1>5. AcceptedRemembered' /\ NoncesEarned' /\ SignedOnly'
  BY <1>2, <1>3, <1>4 DEF AcceptedRemembered, NoncesEarned, SignedOnly, GwTypeOK
<1>6. RefusedForCause'
  BY <1>2, <1>3, <1>4 DEF RefusedForCause
<1> QED BY <1>1, <1>5, <1>6

LEMMA DeliverInv ==
  ASSUME GwInv, NEW w \in Workers, NEW r \in Requests, Deliver(w, r)
  PROVE GwInv'
<1> USE GatewayAssumption DEF GwInv, Deliver
<1>1. GwTypeOK'
  BY DEF GwTypeOK, Phases
<1>2. AcceptedRemembered' /\ NoncesEarned' /\ SignedOnly'
  BY DEF AcceptedRemembered, NoncesEarned, SignedOnly, GwTypeOK
<1>3. RefusedForCause'
  BY DEF RefusedForCause, InWindow, GwTypeOK
<1> QED BY <1>1, <1>2, <1>3

(* The purge forgets nonces whose window is over: the clock was read earlier. *)
LEMMA VerifyInv ==
  ASSUME GwInv, NEW w \in Workers, Verify(w)
  PROVE GwInv' /\ (check'[w].phase = "accepted" /\ check[w].req \in accepted => window[check[w].req] <= 0)
<1> DEFINE known == {r \in nonces : ~Expired(r, check[w].age)}
<1> USE GatewayAssumption DEF GwInv, Verify
<1>1. check[w].req \in Requests /\ check[w].age \in Nat
  BY DEF GwTypeOK
<1>2. \A r \in nonces \ known : window[r] <= 0
  BY <1>1 DEF Expired, GwTypeOK
<1>3. GwTypeOK'
  <2>1. nonces' \subseteq Requests /\ accepted' \subseteq Requests
    BY <1>1 DEF GwTypeOK
  <2>2. check' \in [Workers -> [phase : Phases, req : Requests, age : 0..MaxAge]]
    BY DEF GwTypeOK, Phases
  <2> QED BY <2>1, <2>2 DEF GwTypeOK
<1>4. known \subseteq accepted /\ nonces' = known \cup {check[w].req}
  BY DEF NoncesEarned
<1>5. AcceptedRemembered'
  <2>1. \A r \in accepted : window[r] > 0 => r \in known
    BY <1>2 DEF AcceptedRemembered, GwTypeOK
  <2> HIDE DEF known
  <2> QED BY <1>4, <2>1 DEF AcceptedRemembered
<1>6. NoncesEarned'
  BY <1>4 DEF NoncesEarned
<1>7. SignedOnly'
  BY <1>1 DEF SignedOnly, GwTypeOK
<1>8. check[w].req \in known => check[w].req \in accepted
  BY <1>4
<1>9. RefusedForCause'
  BY <1>1, <1>8 DEF RefusedForCause, GwTypeOK
<1>10. check'[w].phase = "accepted" /\ check[w].req \in accepted => window[check[w].req] <= 0
  BY <1>1, <1>2 DEF AcceptedRemembered, GwTypeOK
<1> QED BY <1>3, <1>5, <1>6, <1>7, <1>9, <1>10

LEMMA RespondInv ==
  ASSUME GwInv, NEW w \in Workers, Respond(w)
  PROVE GwInv'
<1> USE GatewayAssumption DEF GwInv, Respond
<1>1. GwTypeOK'
  BY IdleCheck DEF GwTypeOK
<1> QED BY <1>1 DEF AcceptedRemembered, NoncesEarned, SignedOnly, RefusedForCause, GwTypeOK, Idle

LEMMA RestartInv == ASSUME GwInv, Restart PROVE GwInv'
<1> USE GatewayAssumption DEF GwInv, Restart
<1>1. GwTypeOK'
  BY IdleCheck DEF GwTypeOK
<1> QED BY <1>1 DEF AcceptedRemembered, NoncesEarned, SignedOnly, RefusedForCause, Idle

LEMMA TickInv == ASSUME GwInv, Tick PROVE GwInv'
<1> USE GatewayAssumption DEF GwInv, Tick
<1>1. \A r \in Requests : /\ window[r] \in Int /\ window'[r] \in {window[r], window[r] - 1}
                          /\ window[r] >= 0 => window'[r] = window[r] - 1
  BY DEF GwTypeOK, Floor
<1>2. \A w \in Workers :
        /\ check'[w].phase = check[w].phase /\ check'[w].req = check[w].req
        /\ check[w].req \in Requests /\ check[w].age \in 0..MaxAge
        /\ check[w].phase # "idle" => check'[w].age = check[w].age + 1
  BY DEF GwTypeOK
<1>3. GwTypeOK'
  <2>1. check' \in [Workers -> [phase : Phases, req : Requests, age : 0..MaxAge]]
    <3> SUFFICES ASSUME NEW w \in Workers
                 PROVE check'[w] \in [phase : Phases, req : Requests, age : 0..MaxAge]
      OBVIOUS
    <3>1. CASE check[w].phase = "idle"
      BY <3>1 DEF GwTypeOK
    <3>2. CASE check[w].phase # "idle"
      <4>1. check[w].age + 1 \in 0..MaxAge
        BY <1>2, <3>2
      <4> QED BY <3>2, <4>1 DEF GwTypeOK
    <3> QED BY <3>1, <3>2
  <2>2. window' \in [Requests -> Int]
    BY <1>1
  <2> QED BY <2>1, <2>2 DEF GwTypeOK
<1>4. AcceptedRemembered' /\ NoncesEarned' /\ SignedOnly'
  BY <1>1, <1>2 DEF AcceptedRemembered, NoncesEarned, SignedOnly, GwTypeOK
<1>5. RefusedForCause'
  <2> SUFFICES ASSUME NEW w \in Workers, check'[w].phase = "refused", check'[w].req \notin accepted'
               PROVE \/ window'[check[w].req] < 0
                     \/ window'[check[w].req] + check'[w].age > 2 * Skew
    BY <1>2 DEF RefusedForCause
  <2>1. window[check[w].req] < 0 \/ window[check[w].req] + check[w].age > 2 * Skew
    BY <1>2 DEF RefusedForCause
  <2>2. window'[check[w].req] >= window[check[w].req] - 1 /\ window'[check[w].req] <= window[check[w].req]
    BY <1>1, <1>2
  <2> QED BY <1>1, <1>2, <2>1, <2>2
<1> QED BY <1>3, <1>4, <1>5

LEMMA GwStep == ASSUME GwInv, [GwNext]_gwVars PROVE GwInv'
<1>1. CASE UNCHANGED gwVars
  BY <1>1 DEF gwVars, GwInv, GwTypeOK, AcceptedRemembered, NoncesEarned, SignedOnly, RefusedForCause
<1>2. CASE GwNext
  BY <1>2, ServeInv, DeliverInv, VerifyInv, RespondInv, RestartInv, TickInv DEF GwNext
<1> QED BY <1>1, <1>2

(* The nonce of an accepted request is remembered while its window is open. *)
THEOREM Remembered == GwSpec => []AcceptedRemembered
<1>1. GwSpec => []GwInv
  BY GwInitInv, GwStep, PTL DEF GwSpec
<1> QED BY <1>1, PTL DEF GwInv

(* A request that has not been let through is refused for its time only. *)
THEOREM Refusals == GwSpec => []RefusedForCause
<1>1. GwSpec => []GwInv
  BY GwInitInv, GwStep, PTL DEF GwSpec
<1> QED BY <1>1, PTL DEF GwInv

(* A request gets through a second time only when its window is over. *)
THEOREM ThroughOnce == GwSpec => AcceptedOnce
<1> DEFINE Once == \A w \in Workers :
             check[w].phase = "in_window" /\ check'[w].phase = "accepted"
             /\ check[w].req \in accepted => window[check[w].req] <= 0
<1>1. GwInv /\ [GwNext]_gwVars => [Once]_gwVars
  <2> SUFFICES ASSUME GwInv, GwNext, NEW w \in Workers,
                      check[w].phase = "in_window", check'[w].phase = "accepted",
                      check[w].req \in accepted
               PROVE window[check[w].req] <= 0
    OBVIOUS
  <2>1. CASE \E v \in Workers : Verify(v)
    <3>1. PICK v \in Workers : Verify(v)
      BY <2>1
    <3>2. v = w
      BY <3>1 DEF Verify, GwInv, GwTypeOK
    <3> QED BY <3>1, <3>2, VerifyInv
  <2>2. CASE ~\E v \in Workers : Verify(v)
    BY <2>2 DEF GwNext, ServeHTTP, Deliver, Respond, Restart, Tick, Idle, GwInv, GwTypeOK
  <2> QED BY <2>1, <2>2
<1>2. GwSpec => []GwInv
  BY GwInitInv, GwStep, PTL DEF GwSpec
<1> QED BY <1>1, <1>2, PTL DEF GwSpec, AcceptedOnce
================================================================================
