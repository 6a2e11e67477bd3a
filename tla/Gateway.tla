-------------------------------- MODULE Gateway --------------------------------
(* A request on its way from the edge proxy (edge/proxy.go), which signs it, to *)
(* the service, whose verifier (security/gateway.go) lets it through once.  The *)
(* network and the transport's retries may deliver a signed request late, more  *)
(* than once, in any order or never.  The verifier remembers nonces in memory   *)
(* only: a restart forgets them.                                                *)
(* Signatures always fit here: what is modelled is time and repetition.  Time   *)
(* is relative to now: window[r] is the time of the request plus skew, minus    *)
(* now, so that a request is in its window while 0 <= window[r] <= 2 * Skew.    *)
EXTENDS Integers

CONSTANTS Requests,   \* requests that reach the proxy; a signed one has its own nonce
          Workers,    \* verifications going on at the same time
          Skew,       \* ticks two clocks may differ, and a request may be late
          Drifts,     \* how far the proxy's clock may be ahead
          MaxAge      \* bound: ticks from reading the clock to the answer

ASSUME GatewayAssumption == /\ Requests # {}
                            /\ Skew \in Nat \ {0} /\ MaxAge \in Nat \ {0}
                            /\ Drifts \subseteq Int

VARIABLES state,      \* at the proxy: "new", "local" or "signed"
          window,     \* of a signed request, see above
          nonces,     \* the verifier's table: requests whose nonce it remembers
          check,      \* what each verification has found so far
          accepted    \* history: requests let through since the service started

gwVars == <<state, window, nonces, check, accepted>>

Floor == -MaxAge - 1       \* further in the past makes no difference
Shapes == {"people", "health", "elsewhere", "too_large"}
Phases == {"idle", "in_window", "accepted", "refused"}
Idle == [phase |-> "idle", req |-> CHOOSE r \in Requests : TRUE, age |-> 0]

GwTypeOK ==
  /\ state \in [Requests -> {"new", "local", "signed"}]
  /\ window \in [Requests -> Int]
  /\ nonces \subseteq Requests /\ accepted \subseteq Requests
  /\ check \in [Workers -> [phase : Phases, req : Requests, age : 0..MaxAge]]

--------------------------------------------------------------------------------
(* The proxy *)

(* /health, foreign paths and large bodies are answered on the spot; the rest   *)
(* is signed with a fresh nonce and the proxy's clock, once: a retry of the     *)
(* transport sends the same headers.                                            *)
ServeHTTP(r, shape, drift) ==
  /\ state[r] = "new"
  /\ state' = [state EXCEPT ![r] = IF shape = "people" THEN "signed" ELSE "local"]
  /\ window' = [window EXCEPT ![r] = IF shape = "people" THEN Skew + drift ELSE Floor]
  /\ UNCHANGED <<nonces, check, accepted>>

--------------------------------------------------------------------------------
(* The verifier *)

InWindow(r) == 0 <= window[r] /\ window[r] <= 2 * Skew

MutantDeliver(w, r) ==
  /\ check[w].phase = "idle" /\ state[r] = "signed"
  /\ check' = [check EXCEPT ![w] = [phase |-> IF InWindow(r) /\ r \notin nonces THEN "in_window" ELSE "refused",
                                    req |-> r, age |-> 0]]
  /\ nonces' = nonces \cup {r}
  /\ UNCHANGED <<state, window, accepted>>
(* The clock is read and the time of the request looked at before the lock. *)
Deliver(w, r) ==
  /\ check[w].phase = "idle" /\ state[r] = "signed"
  /\ check' = [check EXCEPT ![w] = [phase |-> IF InWindow(r) THEN "in_window" ELSE "refused",
                                    req |-> r, age |-> 0]]
  /\ UNCHANGED <<state, window, nonces, accepted>>

MutantExpired(r, age) == window[r] + age <= Skew
(* By the clock read age ticks ago the nonce is out of its window. *)
Expired(r, age) == window[r] + age <= 0

(* Under the lock: purge, look the nonce up, remember it. *)
Verify(w) ==
  LET known == {r \in nonces : ~Expired(r, check[w].age)}
      fresh == check[w].req \notin known
  IN /\ check[w].phase = "in_window"
     /\ nonces' = known \cup {check[w].req}
     /\ accepted' = IF fresh THEN accepted \cup {check[w].req} ELSE accepted
     /\ check' = [check EXCEPT ![w].phase = IF fresh THEN "accepted" ELSE "refused"]
     /\ UNCHANGED <<state, window>>

(* The request is handled, or answered with 401. *)
Respond(w) ==
  /\ check[w].phase \in {"accepted", "refused"}
  /\ check' = [check EXCEPT ![w] = Idle]
  /\ UNCHANGED <<state, window, nonces, accepted>>

--------------------------------------------------------------------------------
Restart ==
  /\ nonces' = {} /\ accepted' = {}
  /\ check' = [w \in Workers |-> Idle]
  /\ UNCHANGED <<state, window>>

Tick ==
  /\ \A w \in Workers : check[w].phase # "idle" => check[w].age < MaxAge
  /\ window' = [r \in Requests |-> IF window[r] > Floor THEN window[r] - 1 ELSE window[r]]
  /\ check' = [w \in Workers |-> IF check[w].phase = "idle" THEN check[w]
                                 ELSE [check[w] EXCEPT !.age = @ + 1]]
  /\ UNCHANGED <<state, nonces, accepted>>

GwInit ==
  /\ state = [r \in Requests |-> "new"]
  /\ window = [r \in Requests |-> Floor]
  /\ nonces = {} /\ accepted = {}
  /\ check = [w \in Workers |-> Idle]

GwNext ==
  \/ \E r \in Requests, shape \in Shapes, drift \in Drifts : ServeHTTP(r, shape, drift)
  \/ \E w \in Workers : (\E r \in Requests : Deliver(w, r)) \/ Verify(w) \/ Respond(w)
  \/ Restart
  \/ Tick

GwSpec == GwInit /\ [][GwNext]_gwVars
--------------------------------------------------------------------------------
(* While its window is open, the nonce of an accepted request is remembered. *)
AcceptedRemembered == \A r \in accepted : window[r] > 0 => r \in nonces

(* Between two restarts a request gets through a second time only when its      *)
(* window is over, however deliveries overlap: at its very last tick, or by a   *)
(* verification that read the clock before and took the lock after.             *)
AcceptedOnce ==
  [][\A w \in Workers :
       check[w].phase = "in_window" /\ check'[w].phase = "accepted" /\ check[w].req \in accepted =>
         window[check[w].req] <= 0]_gwVars

(* A request that has not been let through yet is refused for its time only: no *)
(* other request, early, late or repeated, takes its nonce.                     *)
RefusedForCause ==
  \A w \in Workers : check[w].phase = "refused" =>
    \/ check[w].req \in accepted
    \/ window[check[w].req] < 0
    \/ window[check[w].req] + check[w].age > 2 * Skew
================================================================================
