------------------------------- MODULE Accounts -------------------------------
(* How people get in: first login and passwords, browser sessions, and the      *)
(* OAuth authorization codes and tokens issued to other systems (service.go,    *)
(* hr.go, the handlers of api.go).  A request works with the employee row that  *)
(* Login or AuthenticateSession loaded; work[w] is that copy, and what the      *)
(* database says may have moved on by the time the handler writes.              *)
(* A definition called Mutant... is a slip the code does not make: no action    *)
(* uses it, it is there to try whether the properties would notice.             *)
EXTENDS Naturals, FiniteSets

CONSTANTS Employees,                \* other than the built-in administrator
          Passwords, Clients,
          Sessions, Codes, Tokens,  \* row ids, never used twice
          Workers,                  \* requests served at the same time
          None                      \* no hash, nobody

ASSUME AccountsAssumption == None \notin Employees \cup Passwords \cup Sessions \cup Codes

VARIABLES account,     \* employees: status, password_hash, must_change_password
          session,     \* sessions: owner, and whether neither revoked nor expired
          code,        \* oauth_codes: owner, client, state
          token,       \* oauth_tokens: owner, client, and (history) the code
          work,        \* what the handler of each worker has read
          configured   \* history: who has set a password at least once

vars == <<account, session, code, token, work, configured>>

Statuses == {"enabled", "disabled"}
Account == [status : Statuses, hash : Passwords \cup {None}, must : BOOLEAN]
Session == [owner : Employees \cup {None}, open : BOOLEAN]
Code == [owner : Employees \cup {None}, client : Clients \cup {None},
         state : {"none", "fresh", "used", "expired"}]
Token == [owner : Employees \cup {None}, client : Clients \cup {None},
          code : Codes \cup {None}, state : {"none", "live", "gone"}]
Work == [op : {"none", "login", "session", "authorize"}, emp : Employees \cup {None},
         sid : Sessions \cup {None}, hash : Passwords \cup {None}, must : BOOLEAN]
NoSession == [owner |-> None, open |-> FALSE]
NoCode == [owner |-> None, client |-> None, state |-> "none"]
NoToken == [owner |-> None, client |-> None, code |-> None, state |-> "none"]
NoWork == [op |-> "none", emp |-> None, sid |-> None, hash |-> None, must |-> TRUE]

AccTypeOK ==
  /\ account \in [Employees -> Account]
  /\ session \in [Sessions -> Session]
  /\ code \in [Codes -> Code]
  /\ token \in [Tokens -> Token]
  /\ work \in [Workers -> Work]
  /\ \A w \in Workers : work[w].op # "none" => work[w].emp \in Employees
  /\ configured \subseteq Employees

Enabled(e) == account[e].status = "enabled"
MutantLoad(w, op, e, s) ==
  work' = [work EXCEPT ![w] = [op |-> op, emp |-> e, sid |-> s,
                               hash |-> account[e].hash, must |-> FALSE]]
Load(w, op, e, s) ==
  work' = [work EXCEPT ![w] = [op |-> op, emp |-> e, sid |-> s,
                               hash |-> account[e].hash, must |-> account[e].must]]
Done(w) == work' = [work EXCEPT ![w] = NoWork]

--------------------------------------------------------------------------------
(* Sessions *)

(* While a password has to be set the one that is typed is not looked at. *)
Admitted(e, password) == account[e].must \/ account[e].hash = password

LoginCheck(w, e, password) ==
  /\ work[w] = NoWork
  /\ Enabled(e)
  /\ Admitted(e, password)
  /\ Load(w, "login", e, None)
  /\ UNCHANGED <<account, session, code, token, configured>>

Login(w) ==
  /\ work[w].op = "login"
  /\ \E s \in Sessions :
       /\ session[s] = NoSession
       /\ session' = [session EXCEPT ![s] = [owner |-> work[w].emp, open |-> TRUE]]
  /\ Done(w)
  /\ UNCHANGED <<account, code, token, configured>>

AuthenticateSession(w, s) ==
  /\ work[w] = NoWork
  /\ session[s].open
  /\ Enabled(session[s].owner)
  /\ Load(w, "session", session[s].owner, s)
  /\ UNCHANGED <<account, session, code, token, configured>>

Logout(w) ==
  /\ work[w].op = "session"
  /\ session' = [session EXCEPT ![work[w].sid].open = FALSE]
  /\ Done(w)
  /\ UNCHANGED <<account, code, token, configured>>

ExpireSession(s) ==
  /\ session[s].open
  /\ session' = [session EXCEPT ![s].open = FALSE]
  /\ UNCHANGED <<account, code, token, work, configured>>

(* The sessions of e revoked, but for the one to keep. *)
Revoked(e, keep) ==
  [s \in Sessions |-> IF session[s].owner = e /\ s # keep
                      THEN [session[s] EXCEPT !.open = FALSE] ELSE session[s]]

--------------------------------------------------------------------------------
(* Passwords *)

MutantKept(w) == None
(* ChangePassword revokes every session but the one it came with. *)
Kept(w) == work[w].sid

(* The old password is compared with the copy read when the request came in. *)
ChangePassword(w, current, new) ==
  LET e == work[w].emp IN
  /\ work[w].op = "session"
  /\ work[w].must \/ work[w].hash = current
  /\ account' = [account EXCEPT ![e].hash = new, ![e].must = FALSE]
  /\ session' = Revoked(e, Kept(w))
  /\ configured' = configured \cup {e}
  /\ Done(w)
  /\ UNCHANGED <<code, token>>

MutantAfterReset(e) == [account[e] EXCEPT !.hash = None]
AfterReset(e) == [account[e] EXCEPT !.hash = None, !.must = TRUE]

ResetEmployeePassword(e) ==
  /\ account' = [account EXCEPT ![e] = AfterReset(e)]
  /\ session' = Revoked(e, None)
  /\ UNCHANGED <<code, token, work, configured>>

SetEmployeeEnabled(e, status) ==
  /\ account' = [account EXCEPT ![e].status = status]
  /\ session' = IF status = "disabled" THEN Revoked(e, None) ELSE session
  /\ UNCHANGED <<code, token, work, configured>>

(* What the approval of a departure does to the account (completeApproval). *)
CompleteDeparture(e) ==
  /\ account' = [account EXCEPT ![e].status = "disabled"]
  /\ session' = Revoked(e, None)
  /\ token' = [t \in Tokens |-> IF token[t].owner = e THEN [token[t] EXCEPT !.state = "gone"]
                                ELSE token[t]]
  /\ UNCHANGED <<code, work, configured>>

--------------------------------------------------------------------------------
(* OAuth *)

MayAuthorize(w) == work[w].op \in {"session", "authorize"} /\ ~work[w].must

(* The authorization page switches to another account: its password is checked, *)
(* nothing is logged in.                                                        *)
AuthenticateOAuthAccount(w, e, password) ==
  /\ MayAuthorize(w)
  /\ work[w].op = "session"
  /\ Enabled(e)
  /\ ~account[e].must /\ account[e].hash = password
  /\ Load(w, "authorize", e, work[w].sid)
  /\ UNCHANGED <<account, session, code, token, configured>>

Authorize(w, client) ==
  /\ MayAuthorize(w)
  /\ \E k \in Codes :
       /\ code[k] = NoCode
       /\ code' = [code EXCEPT ![k] = [owner |-> work[w].emp, client |-> client, state |-> "fresh"]]
  /\ Done(w)
  /\ UNCHANGED <<account, session, token, configured>>

MutantRedeemable(k, client) == code[k].state \in {"fresh", "used"} /\ code[k].client = client
Redeemable(k, client) == code[k].state = "fresh" /\ code[k].client = client

(* One transaction: the code is looked up, its owner checked, the code marked   *)
(* used, the token inserted.                                                    *)
ExchangeCode(client, k) ==
  /\ Redeemable(k, client)
  /\ Enabled(code[k].owner)
  /\ code' = [code EXCEPT ![k].state = "used"]
  /\ \E t \in Tokens :
       /\ token[t] = NoToken
       /\ token' = [token EXCEPT ![t] =
            [owner |-> code[k].owner, client |-> client, code |-> k, state |-> "live"]]
  /\ UNCHANGED <<account, session, work, configured>>

(* A token of the client's own, without a person. *)
ClientCredentials(client) ==
  /\ \E t \in Tokens :
       /\ token[t] = NoToken
       /\ token' = [token EXCEPT ![t] =
            [owner |-> None, client |-> client, code |-> None, state |-> "live"]]
  /\ UNCHANGED <<account, session, code, work, configured>>

ExpireCode(k) ==
  /\ code[k].state = "fresh"
  /\ code' = [code EXCEPT ![k].state = "expired"]
  /\ UNCHANGED <<account, session, token, work, configured>>

ExpireToken(t) ==
  /\ token[t].state = "live"
  /\ token' = [token EXCEPT ![t].state = "gone"]
  /\ UNCHANGED <<account, session, code, work, configured>>

(* The handler answers an error, or is one that only reads. *)
Finish(w) ==
  /\ work[w] # NoWork
  /\ Done(w)
  /\ UNCHANGED <<account, session, code, token, configured>>

--------------------------------------------------------------------------------
(* Employees are created without a password. *)
Init == /\ account = [e \in Employees |-> [status |-> "enabled", hash |-> None, must |-> TRUE]]
        /\ session = [s \in Sessions |-> NoSession]
        /\ code = [k \in Codes |-> NoCode]
        /\ token = [t \in Tokens |-> NoToken]
        /\ work = [w \in Workers |-> NoWork]
        /\ configured = {}

Serve(w) ==
  \/ \E e \in Employees, password \in Passwords :
       \/ LoginCheck(w, e, password)
       \/ AuthenticateOAuthAccount(w, e, password)
  \/ Login(w)
  \/ \E s \in Sessions : AuthenticateSession(w, s)
  \/ Logout(w)
  \/ \E current, new \in Passwords : ChangePassword(w, current, new)
  \/ \E client \in Clients : Authorize(w, client)
  \/ Finish(w)

Elsewhere ==
  \/ \E e \in Employees :
       \/ ResetEmployeePassword(e)
       \/ \E status \in Statuses : SetEmployeeEnabled(e, status)
       \/ CompleteDeparture(e)
  \/ \E client \in Clients :
       \/ \E k \in Codes : ExchangeCode(client, k)
       \/ ClientCredentials(client)
  \/ \E s \in Sessions : ExpireSession(s)
  \/ \E k \in Codes : ExpireCode(k)
  \/ \E t \in Tokens : ExpireToken(t)

Next == (\E w \in Workers : Serve(w)) \/ Elsewhere

Spec == Init /\ [][Next]_vars
--------------------------------------------------------------------------------
(* An enabled employee can always get in: an account without a password is one  *)
(* that is let in to set one, whichever of reset and change came last (an empty *)
(* hash matches no password).                                                   *)
NeverLockedOut == \A e \in Employees : account[e].hash = None => account[e].must

(* A code is redeemed at most once, for its own client and its own owner: the   *)
(* tokens of people map one to one into the used codes                          *)
(* (TestOAuthRequiresClientSecretAndConsumesCode).                              *)
CodeRedeemedOnce ==
  /\ \A t \in Tokens : token[t].owner # None =>
       /\ token[t].code \in Codes
       /\ code[token[t].code] = [owner |-> token[t].owner, client |-> token[t].client, state |-> "used"]
  /\ \A t, u \in Tokens : t # u /\ token[t].code = token[u].code => token[t].code = None

(* Whoever has never set a password can log in and set one, and nothing else:   *)
(* other systems get no code and no token for the account (README, first login; *)
(* TestNewEmployeeMustSetPasswordBeforeOAuth), however requests overlap.        *)
NoCodeBeforePassword ==
  /\ \A k \in Codes : code[k].state # "none" => code[k].owner \in configured
  /\ \A t \in Tokens : token[t].owner \in configured \cup {None}

(* First login, as it is meant: a person without a password can get in, and     *)
(* until she has set one it is of no use to other systems.                      *)
FirstLoginSound == NeverLockedOut /\ NoCodeBeforePassword

(* When the password is changed or reset the open sessions end, except the one  *)
(* that changed it, which does not.                                             *)
PasswordChangeEndsSessions ==
  [][\A e \in Employees :
       <<account'[e].hash, account'[e].must>> # <<account[e].hash, account[e].must>> =>
         \A s \in Sessions : session[s].owner = e /\ session[s].open =>
           (session'[s].open <=> \E w \in Workers : work[w].sid = s /\ work'[w] # work[w])]_vars

--------------------------------------------------------------------------------
(* What other systems see of all this. *)
workingOf == {e \in Employees : Enabled(e)}
voiceOf == [t \in Tokens |-> [owner |-> token[t].owner, client |-> token[t].client,
                             state |-> token[t].state]]

Delegated == INSTANCE Delegation WITH
  People <- Employees, Systems <- Clients, Permissions <- Codes, Nobody <- None,
  settled <- configured, working <- workingOf, permission <- code, voice <- voiceOf

(* Codes and tokens behave as Delegation says, although a request authorizes    *)
(* with a row of the person's that may be out of date by then: a code is issued *)
(* by somebody who has set a password, becomes one token of an enabled person,  *)
(* and neither comes back to life.                                              *)
ImplementsDelegation == Delegated!DelegationSpec
================================================================================
