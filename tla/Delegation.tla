------------------------------- MODULE Delegation -------------------------------
(* What the authorization server promises whoever relies on it, whatever        *)
(* sessions, passwords and requests are behind it.  A token that speaks for a   *)
(* person comes of a permission that she gave to that system, after she had     *)
(* made sure that she alone can give it; a permission is good for one token,    *)
(* made while she works here; a token that has ended stays ended.               *)

CONSTANTS People, Systems, Permissions, Tokens, Nobody

VARIABLES settled,     \* people who have taken their account into possession
          working,     \* people who work here now
          permission,  \* who permits which system, and what became of it
          voice        \* tokens: for whom and to which system they speak

delegation == <<settled, working, permission, voice>>

Blank == [owner |-> Nobody, client |-> Nobody, state |-> "none"]

DelegationInit ==
  /\ settled = {}
  /\ working = People
  /\ permission = [k \in Permissions |-> Blank]
  /\ voice = [t \in Tokens |-> Blank]

Settle(e) == /\ settled' = settled \cup {e}
             /\ UNCHANGED <<working, permission, voice>>

Silenced(e) == [t \in Tokens |-> IF voice[t].owner = e THEN [voice[t] EXCEPT !.state = "gone"]
                                 ELSE voice[t]]

(* Somebody stops working here, for a while or for good: in the latter case all *)
(* that speaks for her falls silent with it.                                    *)
Leave(e) == /\ working' = working \ {e}
            /\ voice' \in {voice, Silenced(e)}
            /\ UNCHANGED <<settled, permission>>

Return(e) == /\ working' = working \cup {e}
             /\ UNCHANGED <<settled, permission, voice>>

(* Whether she works here is asked when the permission is used. *)
Permit(k, e, c) ==
  /\ e \in settled
  /\ permission[k] = Blank
  /\ permission' = [permission EXCEPT ![k] = [owner |-> e, client |-> c, state |-> "fresh"]]
  /\ UNCHANGED <<settled, working, voice>>

Redeem(k, t) ==
  LET p == permission[k] IN
  /\ p.state = "fresh"
  /\ p.owner \in working
  /\ permission' = [permission EXCEPT ![k] = [p EXCEPT !.state = "used"]]
  /\ voice[t] = Blank
  /\ voice' = [voice EXCEPT ![t] = [owner |-> p.owner, client |-> p.client, state |-> "live"]]
  /\ UNCHANGED <<settled, working>>

Lapse(k) == /\ permission[k].state = "fresh"
            /\ permission' = [permission EXCEPT ![k] = [permission[k] EXCEPT !.state = "expired"]]
            /\ UNCHANGED <<settled, working, voice>>

(* A system may also speak for itself. *)
SpeakForItself(t, c) ==
  /\ voice[t] = Blank
  /\ voice' = [voice EXCEPT ![t] = [owner |-> Nobody, client |-> c, state |-> "live"]]
  /\ UNCHANGED <<settled, working, permission>>

End(t) == /\ voice[t].state = "live"
          /\ voice' = [voice EXCEPT ![t] = [voice[t] EXCEPT !.state = "gone"]]
          /\ UNCHANGED <<settled, working, permission>>

DelegationNext ==
  \/ \E e \in People : Settle(e) \/ Leave(e) \/ Return(e)
  \/ \E k \in Permissions :
       \/ \E e \in People, c \in Systems : Permit(k, e, c)
       \/ \E t \in Tokens : Redeem(k, t)
       \/ Lapse(k)
  \/ \E t \in Tokens : End(t) \/ \E c \in Systems : SpeakForItself(t, c)

DelegationSpec == DelegationInit /\ [][DelegationNext]_delegation
================================================================================
