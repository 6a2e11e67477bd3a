--------------------------- MODULE ApprovalLifecycle ---------------------------
(* What the approval workflow promises about one request, whatever its type and *)
(* however its steps are stored: it collects the signatures it needs, one at a  *)
(* time; with the last one it takes effect, once; a refusal or a withdrawal     *)
(* ends it without effect; the applicant is told of a decision, once.           *)
EXTENDS Naturals

CONSTANT Requests

VARIABLES phase,   \* "none", "open", or how the request ended
          need,    \* signatures the request needs
          signed,  \* signatures it has
          effect,  \* times it took effect
          told     \* notices of a decision sent to the applicant

lifecycle == <<phase, need, signed, effect, told>>

LifecycleInit ==
  /\ phase = [r \in Requests |-> "none"]
  /\ need = [r \in Requests |-> 0]
  /\ signed = [r \in Requests |-> 0]
  /\ effect = [r \in Requests |-> 0]
  /\ told = [r \in Requests |-> 0]

Submit(r) == /\ phase[r] = "none"
             /\ phase' = [phase EXCEPT ![r] = "open"]
             /\ \E n \in 1 .. 2 : need' = [need EXCEPT ![r] = n]
             /\ UNCHANGED <<signed, effect, told>>

Sign(r) == /\ phase[r] = "open"
           /\ signed[r] + 1 < need[r]
           /\ signed' = [signed EXCEPT ![r] = signed[r] + 1]
           /\ UNCHANGED <<phase, need, effect, told>>

Approve(r) == /\ phase[r] = "open"
              /\ signed[r] + 1 = need[r]
              /\ signed' = [signed EXCEPT ![r] = need[r]]
              /\ phase' = [phase EXCEPT ![r] = "approved"]
              /\ effect' = [effect EXCEPT ![r] = 1]
              /\ told' = [told EXCEPT ![r] = 1]
              /\ UNCHANGED need

Refuse(r) == /\ phase[r] = "open"
             /\ phase' = [phase EXCEPT ![r] = "rejected"]
             /\ told' = [told EXCEPT ![r] = 1]
             /\ UNCHANGED <<need, signed, effect>>

Withdraw(r) == /\ phase[r] = "open"
               /\ signed[r] = 0
               /\ phase' = [phase EXCEPT ![r] = "cancelled"]
               /\ UNCHANGED <<need, signed, effect, told>>

LifecycleNext == \E r \in Requests :
  Submit(r) \/ Sign(r) \/ Approve(r) \/ Refuse(r) \/ Withdraw(r)

LifecycleSpec == LifecycleInit /\ [][LifecycleNext]_lifecycle
================================================================================
