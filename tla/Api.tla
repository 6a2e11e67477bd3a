---------------------------------- MODULE Api ----------------------------------
(* The handlers of api.go around Accounts: which requests session() lets in     *)
(* while a password has to be set, and the two that come with a token instead   *)
(* (userinfo, listEmployees).  work[w] of Accounts is the row a request has     *)
(* loaded; call[w] is its route and how far it has come.                        *)
(* Permissions are in PermissionCache, what business handlers do in the modules *)
(* of their tables; here they only take time.                                   *)
EXTENDS Accounts

VARIABLE call

apiVars == <<vars, call>>

PasswordRoutes == {"me", "logout", "change-password"}
BusinessRoutes == {"authorize", "business"}
TokenRoutes == {"userinfo", "employees"}

(* overtaken (history): the account was reset or closed since the row was read. *)
Call == [route : {"none", "login"} \cup PasswordRoutes \cup BusinessRoutes \cup TokenRoutes,
         token : Tokens \cup {None}, known : BOOLEAN, overtaken : BOOLEAN]
NoCall == [route |-> "none", token |-> None, known |-> FALSE, overtaken |-> FALSE]

(* Whom a request is served for; a client's own token is nobody's. *)
Served(w) == IF call[w].route \in TokenRoutes THEN token[call[w].token].owner ELSE work[w].emp

Open(w, route, t) == call' = [call EXCEPT ![w] = [NoCall EXCEPT !.route = route, !.token = t]]
Close(w) == call' = [call EXCEPT ![w] = NoCall]

--------------------------------------------------------------------------------
(* session(): a request without a session, or one that has to wait for the      *)
(* password by the row just loaded, is answered on the spot.                    *)
MutantEnters(w, route) == route \in PasswordRoutes \cup {"business"} \/ ~work'[w].must
Enters(w, route) == route \in PasswordRoutes \/ ~work'[w].must

Enter(w, route, s) ==
  /\ call[w] = NoCall
  /\ AuthenticateSession(w, s)
  /\ Enters(w, route)
  /\ Open(w, route, None)

login(w) ==
  \/ /\ call[w] = NoCall
     /\ \E e \in Employees, password \in Passwords : LoginCheck(w, e, password)
     /\ Open(w, "login", None)
  \/ call[w].route = "login" /\ Login(w) /\ Close(w)

logout(w) == call[w].route = "logout" /\ Logout(w) /\ Close(w)

changePassword(w) ==
  /\ call[w].route = "change-password"
  /\ \E current, new \in Passwords : ChangePassword(w, current, new)
  /\ Close(w)

authorize(w) ==
  /\ call[w].route = "authorize"
  /\ \/ /\ \E e \in Employees, password \in Passwords : AuthenticateOAuthAccount(w, e, password)
        /\ Open(w, "authorize", None)
     \/ (\E client \in Clients : Authorize(w, client)) /\ Close(w)

(* The other handlers answer; any may fail. *)
Answer(w) == call[w].route # "none" /\ work[w] # NoWork /\ Finish(w) /\ Close(w)

--------------------------------------------------------------------------------
(* OAuthIdentity: the token, then its owner, in two statements. *)

LookUpToken(w, route, t) ==
  /\ call[w] = NoCall
  /\ token[t].state = "live"
  /\ Open(w, route, t)
  /\ UNCHANGED vars

(* A person's token has the scope of a profile, a client's own may have the     *)
(* scope of listEmployees.                                                      *)
MutantInScope(t, route) == TRUE
InScope(t, route) == (token[t].owner = None) <=> (route = "employees")

Identify(w) ==
  /\ call[w].route \in TokenRoutes /\ ~call[w].known
  /\ InScope(call[w].token, call[w].route)
  /\ Served(w) \in {None} \cup {e \in Employees : Enabled(e)}
  /\ call' = [call EXCEPT ![w].known = TRUE]
  /\ UNCHANGED vars

AnswerToken(w) == call[w].route \in TokenRoutes /\ Close(w) /\ UNCHANGED vars

--------------------------------------------------------------------------------
(* What other requests do meanwhile: the steps of Accounts; of those, a reset,  *)
(* a disabling and a departure overtake the requests served for the employee.   *)
Overtaken(e) == account'[e].status = "disabled" \/ (account'[e].must /\ ~account[e].must)

Meanwhile ==
  /\ Elsewhere
  /\ call' = [w \in Workers |->
       IF call[w].route # "none" /\ Served(w) # None /\ Overtaken(Served(w))
       THEN [call[w] EXCEPT !.overtaken = TRUE] ELSE call[w]]

ApiInit == Init /\ call = [w \in Workers |-> NoCall]

ApiNext ==
  \/ \E w \in Workers :
       \/ \E s \in Sessions, route \in PasswordRoutes \cup BusinessRoutes : Enter(w, route, s)
       \/ login(w) \/ logout(w) \/ changePassword(w) \/ authorize(w) \/ Answer(w)
       \/ \E t \in Tokens, route \in TokenRoutes : LookUpToken(w, route, t)
       \/ Identify(w) \/ AnswerToken(w)
  \/ Meanwhile

ApiSpec == ApiInit /\ [][ApiNext]_apiVars
--------------------------------------------------------------------------------
(* However requests overlap: one that is served, and was not overtaken by a     *)
(* reset or a disabling, is served for an enabled account.  A business request  *)
(* that came with a session is served only for an account that has a password,  *)
(* one to see the session, to end it or to set a password for any (README,      *)
(* "员工首次登录").  README says so of every request; one that comes with a     *)
(* token shows the profile of whoever has set a password at some time, also     *)
(* while none is set after a reset (OAuthIdentity, service.go:718).             *)
ServedStand ==
  \A w \in Workers :
    /\ call[w].route \in PasswordRoutes \cup BusinessRoutes \/ call[w].known
    /\ ~call[w].overtaken /\ Served(w) # None
    => /\ Enabled(Served(w))
       /\ call[w].route \in BusinessRoutes => ~account[Served(w)].must
       /\ call[w].route = "userinfo" => Served(w) \in configured

(* A person's token lists nobody, a client's own is no person's profile, also   *)
(* while tokens are issued, deleted and expire under the two statements.        *)
TokensInScope ==
  \A w \in Workers : call[w].known =>
    IF call[w].route = "userinfo"
    THEN /\ token[call[w].token].code \in Codes
         /\ code[token[call[w].token].code].owner = Served(w)
    ELSE token[call[w].token].code = None

(* Nobody gets an answer that is not theirs. *)
ServedRightly == ServedStand /\ TokensInScope
================================================================================
