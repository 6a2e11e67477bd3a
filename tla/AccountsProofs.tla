----------------------------- MODULE AccountsProofs -----------------------------
(* The safety of Accounts and of Api around it, for any number of employees,    *)
(* requests, sessions, codes and tokens.                                        *)
EXTENDS Api, TLAPS

(* What the invariants of Accounts need to be inductive.  An open session and a *)
(* loaded row belong to an employee; a token without an owner comes from no     *)
(* code; and a row that says a password is set, in the table or in the copy a   *)
(* request works with, is the row of somebody who has set one.                  *)
Owned == /\ \A s \in Sessions : session[s].open => session[s].owner \in Employees
         /\ \A w \in Workers : work[w].op = "session" => work[w].sid \in Sessions
ClientTokens == \A t \in Tokens : token[t].owner = None => token[t].code = None
Configured == /\ \A e \in Employees : ~account[e].must => e \in configured
              /\ \A w \in Workers : work[w].op \in {"session", "authorize"} /\ ~work[w].must =>
                                      work[w].emp \in configured

Typed == AccTypeOK /\ Owned
AccInv == /\ Typed /\ NeverLockedOut /\ CodeRedeemedOnce /\ ClientTokens
          /\ Configured /\ NoCodeBeforePassword

--------------------------------------------------------------------------------
(* The tables and the copies are well typed. *)

LEMMA RevokedTyped ==
  ASSUME Typed, NEW e, NEW keep
  PROVE  /\ Revoked(e, keep) \in [Sessions -> Session]
         /\ \A s \in Sessions : Revoked(e, keep)[s].open => Revoked(e, keep)[s].owner \in Employees
<1>1. \A s \in Sessions : [session[s] EXCEPT !.open = FALSE] \in Session
  BY DEF Typed, AccTypeOK, Session
<1> QED
  BY <1>1 DEF Revoked, Typed, AccTypeOK, Owned, Session

LEMMA LoadTyped ==
  ASSUME Typed, NEW w \in Workers, NEW op \in {"login", "session", "authorize"},
         NEW e \in Employees, NEW s \in Sessions \cup {None}, Load(w, op, e, s),
         op = "session" => s \in Sessions
  PROVE  /\ work' \in [Workers -> Work]
         /\ \A v \in Workers : /\ work'[v].op # "none" => work'[v].emp \in Employees
                               /\ work'[v].op = "session" => work'[v].sid \in Sessions
<1>1. [op |-> op, emp |-> e, sid |-> s, hash |-> account[e].hash, must |-> account[e].must] \in Work
  BY DEF Typed, AccTypeOK, Account, Work
<1> QED
  BY <1>1 DEF Load, Typed, AccTypeOK, Owned

LEMMA DoneTyped ==
  ASSUME Typed, NEW w \in Workers, Done(w)
  PROVE  /\ work' \in [Workers -> Work]
         /\ \A v \in Workers : /\ work'[v].op # "none" => work'[v].emp \in Employees
                               /\ work'[v].op = "session" => work'[v].sid \in Sessions
<1>1. NoWork \in Work
  BY DEF NoWork, Work
<1> QED
  BY <1>1 DEF Done, NoWork, Typed, AccTypeOK, Owned

LEMMA ServeTyped ==
  ASSUME Typed, NoCodeBeforePassword, NEW w \in Workers, Serve(w)
  PROVE  Typed'
<1>1. ASSUME NEW e \in Employees, NEW password \in Passwords, LoginCheck(w, e, password)
      PROVE  Typed'
  BY <1>1, LoadTyped DEF LoginCheck, Typed, AccTypeOK, Owned
<1>2. ASSUME NEW e \in Employees, NEW password \in Passwords, AuthenticateOAuthAccount(w, e, password)
      PROVE  Typed'
  <2>1. work[w].sid \in Sessions
    BY <1>2 DEF AuthenticateOAuthAccount, Typed, Owned
  <2> QED
    BY <2>1, <1>2, LoadTyped DEF AuthenticateOAuthAccount, Typed, AccTypeOK, Owned
<1>3. CASE Login(w)
  <2>1. work[w].emp \in Employees
    BY <1>3 DEF Login, Typed, AccTypeOK
  <2>2. [owner |-> work[w].emp, open |-> TRUE] \in Session
    BY <2>1 DEF Session
  <2> QED
    BY <2>1, <2>2, <1>3, DoneTyped DEF Login, Typed, AccTypeOK, Owned
<1>4. ASSUME NEW s \in Sessions, AuthenticateSession(w, s)
      PROVE  Typed'
  <2>1. session[s].owner \in Employees
    BY <1>4 DEF AuthenticateSession, Typed, Owned
  <2> QED
    BY <2>1, <1>4, LoadTyped DEF AuthenticateSession, Typed, AccTypeOK, Owned
<1>5. CASE Logout(w)
  <2>1. [session[work[w].sid] EXCEPT !.open = FALSE] \in Session
    BY <1>5 DEF Logout, Typed, AccTypeOK, Owned, Session
  <2>2. session' = [session EXCEPT ![work[w].sid] = [session[work[w].sid] EXCEPT !.open = FALSE]]
    BY <1>5 DEF Logout
  <2>3. session' \in [Sessions -> Session] /\ \A s \in Sessions : session'[s].open => session'[s].owner \in Employees
    BY <2>1, <2>2 DEF Typed, AccTypeOK, Owned, Session
  <2> QED
    BY <2>3, <1>5, DoneTyped DEF Logout, Typed, AccTypeOK, Owned
<1>6. ASSUME NEW current \in Passwords, NEW new \in Passwords, ChangePassword(w, current, new)
      PROVE  Typed'
  <2> DEFINE e == work[w].emp
  <2>1. e \in Employees
    BY <1>6 DEF ChangePassword, Typed, AccTypeOK
  <2>2. [account[e] EXCEPT !.hash = new, !.must = FALSE] \in Account
    BY <2>1 DEF Typed, AccTypeOK, Account
  <2>3. account' = [account EXCEPT ![e] = [account[e] EXCEPT !.hash = new, !.must = FALSE]]
    BY <1>6, <2>1 DEF ChangePassword, Typed, AccTypeOK, Account
  <2>4. account' \in [Employees -> Account]
    BY <2>2, <2>3 DEF Typed, AccTypeOK
  <2> QED
    BY <2>1, <2>4, <1>6, RevokedTyped, DoneTyped DEF ChangePassword, Typed, AccTypeOK, Owned
<1>7. ASSUME NEW client \in Clients, Authorize(w, client)
      PROVE  Typed'
  <2>1. work[w].emp \in Employees
    BY <1>7 DEF Authorize, MayAuthorize, Typed, AccTypeOK
  <2>2. [owner |-> work[w].emp, client |-> client, state |-> "fresh"] \in Code
    BY <2>1 DEF Code
  <2> QED
    BY <2>2, <1>7, DoneTyped DEF Authorize, Typed, AccTypeOK, Owned
<1>8. CASE Finish(w)
  BY <1>8, DoneTyped DEF Finish, Typed, AccTypeOK, Owned
<1> QED
  BY <1>1, <1>2, <1>3, <1>4, <1>5, <1>6, <1>7, <1>8 DEF Serve

LEMMA ElsewhereTyped ==
  ASSUME Typed, NoCodeBeforePassword, Elsewhere
  PROVE  Typed'
<1>1. ASSUME NEW e \in Employees, ResetEmployeePassword(e)
      PROVE  Typed'
  <2>1. AfterReset(e) \in Account
    BY DEF AfterReset, Typed, AccTypeOK, Account
  <2> QED
    BY <2>1, <1>1, RevokedTyped DEF ResetEmployeePassword, Typed, AccTypeOK, Owned
<1>2. ASSUME NEW e \in Employees, NEW status \in Statuses, SetEmployeeEnabled(e, status)
      PROVE  Typed'
  <2>1. [account[e] EXCEPT !.status = status] \in Account
    BY DEF Typed, AccTypeOK, Account
  <2>2. account' = [account EXCEPT ![e] = [account[e] EXCEPT !.status = status]]
    BY <1>2 DEF SetEmployeeEnabled
  <2>3. account' \in [Employees -> Account]
    BY <2>1, <2>2 DEF Typed, AccTypeOK
  <2> QED
    BY <2>3, <1>2, RevokedTyped DEF SetEmployeeEnabled, Typed, AccTypeOK, Owned
<1>3. ASSUME NEW e \in Employees, CompleteDeparture(e)
      PROVE  Typed'
  <2>1. [account[e] EXCEPT !.status = "disabled"] \in Account
    BY DEF Typed, AccTypeOK, Account, Statuses
  <2>2. account' = [account EXCEPT ![e] = [account[e] EXCEPT !.status = "disabled"]]
    BY <1>3 DEF CompleteDeparture
  <2>3. account' \in [Employees -> Account]
    BY <2>1, <2>2 DEF Typed, AccTypeOK
  <2>4. \A t \in Tokens : [token[t] EXCEPT !.state = "gone"] \in Token
    BY DEF Typed, AccTypeOK, Token
  <2>5. token' \in [Tokens -> Token]
    BY <2>4, <1>3 DEF CompleteDeparture, Typed, AccTypeOK
  <2> QED
    BY <2>3, <2>5, <1>3, RevokedTyped DEF CompleteDeparture, Typed, AccTypeOK, Owned
<1>4. ASSUME NEW client \in Clients, NEW k \in Codes, ExchangeCode(client, k)
      PROVE  Typed'
  <2>1. [code[k] EXCEPT !.state = "used"] \in Code
    BY DEF Typed, AccTypeOK, Code
  <2>2. code' = [code EXCEPT ![k] = [code[k] EXCEPT !.state = "used"]]
    BY <1>4 DEF ExchangeCode
  <2>3. code' \in [Codes -> Code]
    BY <2>1, <2>2 DEF Typed, AccTypeOK
  <2>4. [owner |-> code[k].owner, client |-> client, code |-> k, state |-> "live"] \in Token
    BY DEF Typed, AccTypeOK, Code, Token
  <2>5. token' \in [Tokens -> Token]
    BY <2>4, <1>4 DEF ExchangeCode, Typed, AccTypeOK
  <2> QED
    BY <2>3, <2>5, <1>4 DEF ExchangeCode, Typed, AccTypeOK, Owned
<1>5. ASSUME NEW client \in Clients, ClientCredentials(client)
      PROVE  Typed'
  <2>1. [owner |-> None, client |-> client, code |-> None, state |-> "live"] \in Token
    BY DEF Token
  <2> QED
    BY <2>1, <1>5 DEF ClientCredentials, Typed, AccTypeOK, Owned
<1>6. ASSUME NEW s \in Sessions, ExpireSession(s)
      PROVE  Typed'
  <2>1. [session[s] EXCEPT !.open = FALSE] \in Session
    BY DEF Typed, AccTypeOK, Session
  <2>2. session' = [session EXCEPT ![s] = [session[s] EXCEPT !.open = FALSE]]
    BY <1>6 DEF ExpireSession
  <2>3. session' \in [Sessions -> Session] /\ \A r \in Sessions : session'[r].open => session'[r].owner \in Employees
    BY <2>1, <2>2 DEF Typed, AccTypeOK, Owned, Session
  <2> QED
    BY <2>3, <1>6 DEF ExpireSession, Typed, AccTypeOK, Owned
<1>7. ASSUME NEW k \in Codes, ExpireCode(k)
      PROVE  Typed'
  <2>1. [code[k] EXCEPT !.state = "expired"] \in Code
    BY DEF Typed, AccTypeOK, Code
  <2>2. code' = [code EXCEPT ![k] = [code[k] EXCEPT !.state = "expired"]]
    BY <1>7 DEF ExpireCode
  <2>3. code' \in [Codes -> Code]
    BY <2>1, <2>2 DEF Typed, AccTypeOK
  <2> QED
    BY <2>3, <1>7 DEF ExpireCode, Typed, AccTypeOK, Owned
<1>8. ASSUME NEW t \in Tokens, ExpireToken(t)
      PROVE  Typed'
  <2>1. [token[t] EXCEPT !.state = "gone"] \in Token
    BY DEF Typed, AccTypeOK, Token
  <2>2. token' = [token EXCEPT ![t] = [token[t] EXCEPT !.state = "gone"]]
    BY <1>8 DEF ExpireToken
  <2>3. token' \in [Tokens -> Token]
    BY <2>1, <2>2 DEF Typed, AccTypeOK
  <2> QED
    BY <2>3, <1>8 DEF ExpireToken, Typed, AccTypeOK, Owned
<1> QED
  BY <1>1, <1>2, <1>3, <1>4, <1>5, <1>6, <1>7, <1>8 DEF Elsewhere

--------------------------------------------------------------------------------
(* What a step can do to one row. *)

(* A password is kept, reset or set, and set means somebody has set it. *)
AccountStep(e) ==
  \/ account'[e].hash = account[e].hash /\ account'[e].must = account[e].must
  \/ account'[e].hash = None /\ account'[e].must
  \/ account'[e].hash \in Passwords /\ ~account'[e].must /\ e \in configured'

(* A request keeps the row it works with, ends, or loads the row as it is now. *)
WorkStep(w) ==
  \/ work'[w] = work[w]
  \/ work'[w] = NoWork
  \/ \E e \in Employees : work'[w].emp = e /\ work'[w].must = account[e].must

(* A code keeps its row, is issued to somebody who has set a password, or       *)
(* leaves "fresh" for good.                                                     *)
CodeStep(k) ==
  \/ code'[k] = code[k]
  \/ code[k].state = "none" /\ code'[k].state = "fresh" /\ code'[k].owner \in configured
  \/ /\ code[k].state = "fresh" /\ code'[k].state \in {"used", "expired"}
     /\ code'[k].owner = code[k].owner /\ code'[k].client = code[k].client

(* The step that redeems k makes token t of it and touches no other row. *)
Redeemed(t, k) ==
  /\ code[k].state = "fresh"
  /\ token'[t].owner = code[k].owner /\ token'[t].client = code[k].client /\ token'[t].code = k
  /\ code'[k] = [owner |-> code[k].owner, client |-> code[k].client, state |-> "used"]
  /\ \A u \in Tokens \ {t} : token'[u] = token[u]

SameToken(t) == /\ token'[t].owner = token[t].owner /\ token'[t].client = token[t].client
                /\ token'[t].code = token[t].code

TokenStep(t) ==
  \/ SameToken(t)
  \/ token'[t].owner = None /\ token'[t].code = None
  \/ \E k \in Codes : Redeemed(t, k)

LEMMA AccountCases ==
  ASSUME Typed, Next
  PROVE  configured \subseteq configured' /\ \A e \in Employees : AccountStep(e)
<1>1. ASSUME NEW w \in Workers, NEW current \in Passwords, NEW new \in Passwords,
             ChangePassword(w, current, new)
      PROVE  configured \subseteq configured' /\ \A e \in Employees : AccountStep(e)
  <2> DEFINE o == work[w].emp
  <2>1. o \in Employees
    BY <1>1 DEF ChangePassword, Typed, AccTypeOK
  <2>2. account'[o].hash = new /\ ~account'[o].must
    BY <1>1, <2>1 DEF ChangePassword, Typed, AccTypeOK, Account
  <2>3. \A e \in Employees \ {o} : account'[e] = account[e]
    BY <1>1, <2>1 DEF ChangePassword, Typed, AccTypeOK
  <2>4. configured' = configured \cup {o}
    BY <1>1 DEF ChangePassword
  <2> QED
    BY <2>1, <2>2, <2>3, <2>4 DEF AccountStep
<1>2. ASSUME NEW o \in Employees, NEW status \in Statuses,
             \/ ResetEmployeePassword(o) \/ SetEmployeeEnabled(o, status) \/ CompleteDeparture(o)
      PROVE  configured \subseteq configured' /\ \A e \in Employees : AccountStep(e)
  <2>1. \A e \in Employees \ {o} : account'[e] = account[e]
    BY <1>2 DEF ResetEmployeePassword, SetEmployeeEnabled, CompleteDeparture, Typed, AccTypeOK
  <2>2. AccountStep(o)
    BY <1>2 DEF ResetEmployeePassword, SetEmployeeEnabled, CompleteDeparture, AfterReset,
       Typed, AccTypeOK, Account, AccountStep
  <2> QED
    BY <1>2, <2>1, <2>2
       DEF ResetEmployeePassword, SetEmployeeEnabled, CompleteDeparture, AccountStep
<1>3. ASSUME UNCHANGED <<account, configured>>
      PROVE  configured \subseteq configured' /\ \A e \in Employees : AccountStep(e)
  BY <1>3 DEF AccountStep
<1>4. ASSUME NEW w \in Workers, Serve(w)
      PROVE  \/ UNCHANGED <<account, configured>>
             \/ \E current, new \in Passwords : ChangePassword(w, current, new)
  BY <1>4 DEF Serve, LoginCheck, AuthenticateOAuthAccount, Login, AuthenticateSession,
     Logout, Authorize, Finish
<1>5. ASSUME Elsewhere
      PROVE  \/ UNCHANGED <<account, configured>>
             \/ \E o \in Employees, status \in Statuses :
                  \/ ResetEmployeePassword(o) \/ SetEmployeeEnabled(o, status) \/ CompleteDeparture(o)
  BY <1>5 DEF Elsewhere, ExchangeCode, ClientCredentials, ExpireSession, ExpireCode,
     ExpireToken, Statuses
<1> QED
  BY <1>1, <1>2, <1>3, <1>4, <1>5 DEF Next

LEMMA WorkCases ==
  ASSUME Typed, Next
  PROVE  \A w \in Workers : WorkStep(w)
<1>1. ASSUME NEW v \in Workers, NEW op, NEW e \in Employees, NEW s, Load(v, op, e, s)
      PROVE  \A w \in Workers : WorkStep(w)
  BY <1>1 DEF Load, WorkStep, Typed, AccTypeOK
<1>2. ASSUME NEW v \in Workers, Done(v)
      PROVE  \A w \in Workers : WorkStep(w)
  BY <1>2 DEF Done, WorkStep, Typed, AccTypeOK
<1>3. ASSUME work' = work
      PROVE  \A w \in Workers : WorkStep(w)
  BY <1>3 DEF WorkStep
<1>4. ASSUME NEW v \in Workers, NEW s \in Sessions, AuthenticateSession(v, s)
      PROVE  session[s].owner \in Employees
  BY <1>4 DEF AuthenticateSession, Typed, Owned
<1>5. ASSUME NEW v \in Workers, Serve(v)
      PROVE  Done(v) \/ \E op, s : \E e \in Employees : Load(v, op, e, s)
  BY <1>4, <1>5 DEF Serve, LoginCheck, AuthenticateOAuthAccount, Login, AuthenticateSession,
     Logout, ChangePassword, Authorize, Finish
<1>6. ASSUME Elsewhere
      PROVE  work' = work
  BY <1>6 DEF Elsewhere, ResetEmployeePassword, SetEmployeeEnabled, CompleteDeparture,
     ExchangeCode, ClientCredentials, ExpireSession, ExpireCode, ExpireToken
<1> QED
  BY <1>1, <1>2, <1>3, <1>5, <1>6 DEF Next

LEMMA CodeCases ==
  ASSUME Typed, Configured, Next
  PROVE  \A k \in Codes : CodeStep(k)
<1>1. ASSUME NEW w \in Workers, NEW client \in Clients, Authorize(w, client)
      PROVE  \A k \in Codes : CodeStep(k)
  <2>1. work[w].emp \in configured
    BY <1>1 DEF Authorize, MayAuthorize, Configured
  <2> QED
    BY <1>1, <2>1 DEF Authorize, NoCode, CodeStep, Typed, AccTypeOK
<1>2. ASSUME NEW k \in Codes, NEW client \in Clients, ExchangeCode(client, k) \/ ExpireCode(k)
      PROVE  \A j \in Codes : CodeStep(j)
  <2>1. \A j \in Codes \ {k} : code'[j] = code[j]
    BY <1>2 DEF ExchangeCode, ExpireCode, Typed, AccTypeOK
  <2>2. CodeStep(k)
    BY <1>2 DEF ExchangeCode, Redeemable, ExpireCode, CodeStep, Typed, AccTypeOK, Code
  <2> QED
    BY <2>1, <2>2 DEF CodeStep
<1>3. ASSUME code' = code
      PROVE  \A k \in Codes : CodeStep(k)
  BY <1>3 DEF CodeStep
<1>4. ASSUME NEW w \in Workers, Serve(w)
      PROVE  code' = code \/ \E client \in Clients : Authorize(w, client)
  BY <1>4 DEF Serve, LoginCheck, AuthenticateOAuthAccount, Login, AuthenticateSession,
     Logout, ChangePassword, Finish
<1>5. ASSUME Elsewhere
      PROVE  \/ code' = code
             \/ \E k \in Codes, client \in Clients : ExchangeCode(client, k)
             \/ \E k \in Codes : ExpireCode(k)
  BY <1>5 DEF Elsewhere, ResetEmployeePassword, SetEmployeeEnabled, CompleteDeparture,
     ClientCredentials, ExpireSession, ExpireToken
<1>6. ASSUME NEW k \in Codes, ExpireCode(k)
      PROVE  \A j \in Codes : CodeStep(j)
  <2>1. \A j \in Codes \ {k} : code'[j] = code[j]
    BY <1>6 DEF ExpireCode, Typed, AccTypeOK
  <2>2. CodeStep(k)
    BY <1>6 DEF ExpireCode, CodeStep, Typed, AccTypeOK, Code
  <2> QED
    BY <2>1, <2>2 DEF CodeStep
<1> QED
  BY <1>1, <1>2, <1>3, <1>4, <1>5, <1>6 DEF Next

LEMMA TokenCases ==
  ASSUME Typed, Next
  PROVE  \A t \in Tokens : TokenStep(t)
<1>1. ASSUME NEW client \in Clients, NEW k \in Codes, ExchangeCode(client, k)
      PROVE  \A t \in Tokens : TokenStep(t)
  <2>1. PICK t \in Tokens : token' = [token EXCEPT ![t] =
           [owner |-> code[k].owner, client |-> client, code |-> k, state |-> "live"]]
    BY <1>1 DEF ExchangeCode
  <2>2. \A u \in Tokens \ {t} : token'[u] = token[u]
    BY <2>1 DEF Typed, AccTypeOK
  <2>3. code'[k] = [owner |-> code[k].owner, client |-> code[k].client, state |-> "used"]
    BY <1>1 DEF ExchangeCode, Typed, AccTypeOK, Code
  <2>4. Redeemed(t, k)
    BY <1>1, <2>1, <2>2, <2>3 DEF ExchangeCode, Redeemable, Redeemed, Typed, AccTypeOK
  <2> QED
    BY <2>2, <2>4 DEF TokenStep, SameToken
<1>2. ASSUME NEW client \in Clients, ClientCredentials(client)
      PROVE  \A t \in Tokens : TokenStep(t)
  BY <1>2 DEF ClientCredentials, TokenStep, SameToken, Typed, AccTypeOK
<1>3. ASSUME NEW e \in Employees, CompleteDeparture(e)
      PROVE  \A t \in Tokens : TokenStep(t)
  BY <1>3 DEF CompleteDeparture, TokenStep, SameToken, Typed, AccTypeOK, Token
<1>4. ASSUME NEW u \in Tokens, ExpireToken(u)
      PROVE  \A t \in Tokens : TokenStep(t)
  BY <1>4 DEF ExpireToken, TokenStep, SameToken, Typed, AccTypeOK, Token
<1>5. ASSUME token' = token
      PROVE  \A t \in Tokens : TokenStep(t)
  BY <1>5 DEF TokenStep, SameToken
<1>6. ASSUME NEW w \in Workers, Serve(w)
      PROVE  token' = token
  BY <1>6 DEF Serve, LoginCheck, AuthenticateOAuthAccount, Login, AuthenticateSession,
     Logout, ChangePassword, Authorize, Finish
<1>7. ASSUME Elsewhere
      PROVE  \/ token' = token
             \/ \E client \in Clients : ClientCredentials(client) \/ \E k \in Codes : ExchangeCode(client, k)
             \/ \E e \in Employees : CompleteDeparture(e)
             \/ \E t \in Tokens : ExpireToken(t)
  BY <1>7 DEF Elsewhere, ResetEmployeePassword, SetEmployeeEnabled, ExpireSession, ExpireCode
<1> QED
  BY <1>1, <1>2, <1>3, <1>4, <1>5, <1>6, <1>7 DEF Next

--------------------------------------------------------------------------------
(* The invariant and what it implies. *)

LEMMA InitHolds == Init => AccInv
<1> SUFFICES ASSUME Init PROVE AccInv
  OBVIOUS
<1>1. AccTypeOK
  BY DEF Init, AccTypeOK, Account, Session, Code, Token, Work, Statuses, NoSession, NoCode,
     NoToken, NoWork
<1> QED
  BY <1>1 DEF Init, AccInv, Typed, Owned, NeverLockedOut, CodeRedeemedOnce, ClientTokens,
     Configured, NoCodeBeforePassword, NoSession, NoCode, NoToken, NoWork

LEMMA CodesStep ==
  ASSUME AccInv, Next
  PROVE  CodeRedeemedOnce' /\ ClientTokens' /\ NoCodeBeforePassword'
<1>1. /\ \A k \in Codes : CodeStep(k)
      /\ \A t \in Tokens : TokenStep(t)
      /\ configured \subseteq configured'
  BY CodeCases, TokenCases, AccountCases DEF AccInv
<1>2. ClientTokens'
  BY <1>1, AccountsAssumption DEF AccInv, Typed, AccTypeOK, ClientTokens, TokenStep,
     SameToken, Redeemed, Code, NoCodeBeforePassword
<1>3. NoCodeBeforePassword'
  BY <1>1 DEF AccInv, NoCodeBeforePassword, CodeStep, TokenStep, SameToken, Redeemed
<1>4. ASSUME NEW t \in Tokens, token'[t].owner # None
      PROVE  /\ token'[t].code \in Codes
             /\ code'[token'[t].code] =
                  [owner |-> token'[t].owner, client |-> token'[t].client, state |-> "used"]
  <2>1. CASE SameToken(t)
    <3> DEFINE k == token[t].code
    <3>1. k \in Codes /\ code[k] = [owner |-> token[t].owner, client |-> token[t].client, state |-> "used"]
      BY <1>4, <2>1 DEF SameToken, AccInv, CodeRedeemedOnce
    <3>2. code'[k] = code[k]
      BY <1>1, <3>1 DEF CodeStep
    <3> QED
      BY <2>1, <3>1, <3>2 DEF SameToken
  <2>2. ASSUME NEW k \in Codes, Redeemed(t, k)
        PROVE  /\ token'[t].code \in Codes
               /\ code'[token'[t].code] =
                    [owner |-> token'[t].owner, client |-> token'[t].client, state |-> "used"]
    BY <2>2 DEF Redeemed
  <2> QED
    BY <1>1, <1>4, <2>1, <2>2 DEF TokenStep
<1>5. ASSUME NEW t \in Tokens, NEW u \in Tokens, t # u, token'[t].code = token'[u].code
      PROVE  token'[t].code = None
  <2>1. ASSUME NEW a \in Tokens, NEW b \in Tokens, a # b, NEW k \in Codes, Redeemed(a, k),
               token'[b].code = k
        PROVE  FALSE
    <3>1. token[b].code = k
      BY <2>1 DEF Redeemed
    <3>2. token[b].owner # None
      BY <3>1, AccountsAssumption DEF AccInv, ClientTokens
    <3>3. code[k] = [owner |-> token[b].owner, client |-> token[b].client, state |-> "used"]
      BY <3>1, <3>2 DEF AccInv, CodeRedeemedOnce
    <3> QED
      BY <3>3, <2>1 DEF Redeemed
  <2>2. ASSUME NEW k \in Codes, Redeemed(t, k) \/ Redeemed(u, k)
        PROVE  FALSE
    BY <2>1, <2>2, <1>5 DEF Redeemed
  <2> QED
    BY <1>1, <1>5, <2>2 DEF TokenStep, SameToken, AccInv, CodeRedeemedOnce
<1> QED
  BY <1>2, <1>3, <1>4, <1>5 DEF CodeRedeemedOnce

LEMMA AccInvStep == AccInv /\ [Next]_vars => AccInv'
<1> SUFFICES ASSUME AccInv, [Next]_vars PROVE AccInv'
  OBVIOUS
<1>1. CASE Next
  <2>1. Typed'
    BY <1>1, ServeTyped, ElsewhereTyped DEF Next, AccInv
  <2>2. /\ \A e \in Employees : AccountStep(e)
        /\ \A w \in Workers : WorkStep(w)
        /\ configured \subseteq configured'
    BY <1>1, AccountCases, WorkCases DEF AccInv
  <2>3. NeverLockedOut'
    BY <2>2, AccountsAssumption DEF AccInv, NeverLockedOut, AccountStep
  <2>4. Configured'
    BY <2>2 DEF AccInv, Configured, AccountStep, WorkStep, NoWork
  <2> QED
    BY <1>1, <2>1, <2>3, <2>4, CodesStep DEF AccInv
<1>2. CASE UNCHANGED vars
  BY <1>2 DEF vars, AccInv, Typed, AccTypeOK, Owned, NeverLockedOut, CodeRedeemedOnce,
     ClientTokens, Configured, NoCodeBeforePassword
<1> QED
  BY <1>1, <1>2

THEOREM Invariance == Spec => []AccInv
  BY InitHolds, AccInvStep, PTL DEF Spec

(* The tables stay well typed. *)
THEOREM AccTyped == Spec => []AccTypeOK
  BY Invariance, PTL DEF AccInv, Typed

(* ExchangeCode makes at most one token of a code, and for the person and the   *)
(* client the code was issued for.                                              *)
THEOREM CodesRedeemedOnce == Spec => []CodeRedeemedOnce
  BY Invariance, PTL DEF AccInv

(* Login admits an account without a password to set one, however resets and    *)
(* changes of it follow each other; and until one was set, Authorize and        *)
(* ExchangeCode give other systems nothing for the account.                     *)
THEOREM FirstLoginIsSound == Spec => []FirstLoginSound
  BY Invariance, PTL DEF AccInv, FirstLoginSound

--------------------------------------------------------------------------------
(* Sessions and passwords. *)

LEMMA RevokedSessions ==
  ASSUME Typed, NEW e, NEW keep, session' = Revoked(e, keep), NEW s \in Sessions,
         session[s].owner = e, session[s].open
  PROVE  session'[s].open <=> s = keep
  BY DEF Revoked, Typed, AccTypeOK, Session

LEMMA SessionsEnd ==
  ASSUME Typed, Next, NEW e \in Employees,
         <<account'[e].hash, account'[e].must>> # <<account[e].hash, account[e].must>>,
         NEW s \in Sessions, session[s].owner = e, session[s].open
  PROVE  session'[s].open <=> \E w \in Workers : work[w].sid = s /\ work'[w] # work[w]
<1>1. ASSUME NEW w \in Workers, NEW current \in Passwords, NEW new \in Passwords,
             ChangePassword(w, current, new)
      PROVE  session'[s].open <=> \E v \in Workers : work[v].sid = s /\ work'[v] # work[v]
  <2>1. e = work[w].emp
    BY <1>1 DEF ChangePassword, Typed, AccTypeOK
  <2>2. session'[s].open <=> s = work[w].sid
    BY <1>1, <2>1, RevokedSessions DEF ChangePassword, Kept
  <2>3. work'[w] # work[w] /\ \A v \in Workers \ {w} : work'[v] = work[v]
    BY <1>1 DEF ChangePassword, Done, NoWork, Typed, AccTypeOK
  <2> QED
    BY <2>2, <2>3
<1>2. ASSUME NEW o \in Employees, ResetEmployeePassword(o)
      PROVE  session'[s].open <=> \E v \in Workers : work[v].sid = s /\ work'[v] # work[v]
  <2>1. e = o
    BY <1>2 DEF ResetEmployeePassword, Typed, AccTypeOK
  <2>2. ~session'[s].open
    <3>1. s # None
      BY AccountsAssumption
    <3> QED
      BY <1>2, <2>1, <3>1, RevokedSessions DEF ResetEmployeePassword
  <2> QED
    BY <1>2, <2>2 DEF ResetEmployeePassword
<1>3. ASSUME NEW o \in Employees, NEW status \in Statuses,
             SetEmployeeEnabled(o, status) \/ CompleteDeparture(o)
      PROVE  FALSE
  <2>1. account'[e].hash = account[e].hash /\ account'[e].must = account[e].must
    BY <1>3 DEF SetEmployeeEnabled, CompleteDeparture, Typed, AccTypeOK, Account
  <2> QED
    BY <2>1
<1>4. ASSUME NEW w \in Workers, Serve(w)
      PROVE  \/ account' = account
             \/ \E current, new \in Passwords : ChangePassword(w, current, new)
  BY <1>4 DEF Serve, LoginCheck, AuthenticateOAuthAccount, Login, AuthenticateSession,
     Logout, Authorize, Finish
<1>5. ASSUME Elsewhere
      PROVE  \/ account' = account
             \/ \E o \in Employees : ResetEmployeePassword(o)
             \/ \E o \in Employees, status \in Statuses :
                  SetEmployeeEnabled(o, status) \/ CompleteDeparture(o)
  BY <1>5 DEF Elsewhere, ExchangeCode, ClientCredentials, ExpireSession, ExpireCode,
     ExpireToken, Statuses
<1> QED
  BY <1>1, <1>2, <1>3, <1>4, <1>5 DEF Next

(* A password that is changed or reset ends the sessions of its owner, except   *)
(* the one that ChangePassword came with, which stays.                          *)
THEOREM PasswordsEndSessions == Spec => PasswordChangeEndsSessions
<1>1. AccInv /\ [Next]_vars =>
        [\A e \in Employees :
           <<account'[e].hash, account'[e].must>> # <<account[e].hash, account[e].must>> =>
             \A s \in Sessions : session[s].owner = e /\ session[s].open =>
               (session'[s].open <=> \E w \in Workers : work[w].sid = s /\ work'[w] # work[w])]_vars
  BY SessionsEnd DEF AccInv
<1> QED
  BY <1>1, Invariance, PTL DEF Spec, PasswordChangeEndsSessions

--------------------------------------------------------------------------------
(* The refinement of Delegation: one lemma per action of it. *)

(* What changes neither codes nor tokens, nor who works here, nobody sees. *)
LEMMA UnseenStep ==
  ASSUME UNCHANGED <<configured, code, token>>,
         \A e \in Employees : account'[e].status = account[e].status
  PROVE  UNCHANGED Delegated!delegation
  BY DEF Delegated!delegation, workingOf, voiceOf, Enabled

(* The same for the part of it that is about tokens, and about people. *)
LEMMA VoicesSame == token' = token => voiceOf' = voiceOf
  BY DEF voiceOf
LEMMA WorkingSame ==
  (\A e \in Employees : account'[e].status = account[e].status) => workingOf' = workingOf
  BY DEF workingOf, Enabled

(* A token that is written is heard as it is written. *)
LEMMA VoiceWritten ==
  ASSUME Typed, NEW t \in Tokens, NEW row, token' = [token EXCEPT ![t] = row]
  PROVE  voiceOf' = [voiceOf EXCEPT ![t] = [owner |-> row.owner, client |-> row.client,
                                            state |-> row.state]]
  BY DEF voiceOf, Typed, AccTypeOK

LEMMA UnusedToken ==
  ASSUME NEW t \in Tokens, token[t] = NoToken
  PROVE  voiceOf[t] = Delegated!Blank
  BY DEF voiceOf, NoToken, Delegated!Blank

LEMMA SettleStep ==
  ASSUME Typed, NEW w \in Workers, NEW current \in Passwords, NEW new \in Passwords,
         ChangePassword(w, current, new)
  PROVE  Delegated!DelegationNext
<1> DEFINE e == work[w].emp
<1>1. e \in Employees
  BY DEF ChangePassword, Typed, AccTypeOK
<1>2. \A x \in Employees : account'[x].status = account[x].status
  BY <1>1 DEF ChangePassword, Typed, AccTypeOK, Account
<1>3. Delegated!Settle(e)
  BY <1>2, VoicesSame, WorkingSame DEF ChangePassword, Delegated!Settle
<1> QED
  BY <1>1, <1>3 DEF Delegated!DelegationNext

LEMMA PermitStep ==
  ASSUME AccInv, NEW w \in Workers, NEW client \in Clients, Authorize(w, client)
  PROVE  Delegated!DelegationNext
<1> DEFINE e == work[w].emp
<1>1. e \in Employees /\ e \in configured
  BY DEF Authorize, MayAuthorize, AccInv, Typed, AccTypeOK, Configured
<1>2. PICK k \in Codes :
        /\ code[k] = NoCode
        /\ code' = [code EXCEPT ![k] = [owner |-> e, client |-> client, state |-> "fresh"]]
  BY DEF Authorize
<1>3. UNCHANGED <<configured, workingOf, voiceOf>>
  BY VoicesSame, WorkingSame DEF Authorize
<1>4. Delegated!Permit(k, e, client)
  BY <1>1, <1>2, <1>3 DEF Delegated!Permit, Delegated!Blank, NoCode
<1> QED
  BY <1>1, <1>4 DEF Delegated!DelegationNext

LEMMA RedeemStep ==
  ASSUME AccInv, NEW client \in Clients, NEW k \in Codes, ExchangeCode(client, k)
  PROVE  Delegated!DelegationNext
<1>1. code[k] \in Code /\ code[k].state = "fresh" /\ code[k].client = client
  BY DEF ExchangeCode, Redeemable, AccInv, Typed, AccTypeOK
<1>2. code[k].owner \in Employees
  BY <1>1 DEF AccInv, NoCodeBeforePassword, Typed, AccTypeOK
<1>3. code[k].owner \in workingOf
  BY <1>2 DEF ExchangeCode, workingOf
<1>4. PICK t \in Tokens :
        /\ token[t] = NoToken
        /\ token' = [token EXCEPT ![t] =
             [owner |-> code[k].owner, client |-> client, code |-> k, state |-> "live"]]
  BY DEF ExchangeCode
<1>5. voiceOf[t] = Delegated!Blank
  BY <1>4, UnusedToken
<1>6. voiceOf' = [voiceOf EXCEPT ![t] =
        [owner |-> code[k].owner, client |-> code[k].client, state |-> "live"]]
  <2>1. PICK row : /\ token' = [token EXCEPT ![t] = row]
                   /\ row = [owner |-> code[k].owner, client |-> client, code |-> k, state |-> "live"]
    BY <1>4
  <2>2. row.owner = code[k].owner /\ row.client = code[k].client /\ row.state = "live"
    BY <1>1, <2>1
  <2>3. Typed
    BY DEF AccInv
  <2>4. voiceOf' = [voiceOf EXCEPT ![t] = [owner |-> row.owner, client |-> row.client,
                                           state |-> row.state]]
    BY <2>1, <2>3, VoiceWritten
  <2> QED
    BY <2>2, <2>4
<1>7. UNCHANGED <<configured, workingOf>>
  BY WorkingSame DEF ExchangeCode
<1>8. code' = [code EXCEPT ![k] = [code[k] EXCEPT !.state = "used"]]
  BY DEF ExchangeCode
<1>9. Delegated!Redeem(k, t)
  BY <1>1, <1>3, <1>5, <1>6, <1>7, <1>8 DEF Delegated!Redeem
<1> QED
  BY <1>9 DEF Delegated!DelegationNext

LEMMA SpeakStep ==
  ASSUME Typed, NEW client \in Clients, ClientCredentials(client)
  PROVE  Delegated!DelegationNext
<1>1. PICK t \in Tokens :
        /\ token[t] = NoToken
        /\ token' = [token EXCEPT ![t] =
             [owner |-> None, client |-> client, code |-> None, state |-> "live"]]
  BY DEF ClientCredentials
<1>2. voiceOf[t] = Delegated!Blank
  BY <1>1, UnusedToken
<1>3. voiceOf' = [voiceOf EXCEPT ![t] = [owner |-> None, client |-> client, state |-> "live"]]
  <2>1. PICK row : /\ token' = [token EXCEPT ![t] = row]
                   /\ row = [owner |-> None, client |-> client, code |-> None, state |-> "live"]
    BY <1>1
  <2>2. row.owner = None /\ row.client = client /\ row.state = "live"
    BY <2>1
  <2>3. voiceOf' = [voiceOf EXCEPT ![t] = [owner |-> row.owner, client |-> row.client,
                                           state |-> row.state]]
    BY <2>1, VoiceWritten
  <2> QED
    BY <2>2, <2>3
<1>4. UNCHANGED <<configured, workingOf, code>>
  BY WorkingSame DEF ClientCredentials
<1>5. Delegated!SpeakForItself(t, client)
  BY <1>2, <1>3, <1>4 DEF Delegated!SpeakForItself
<1> QED
  BY <1>5 DEF Delegated!DelegationNext

LEMMA LapseStep ==
  ASSUME NEW k \in Codes, ExpireCode(k)
  PROVE  Delegated!DelegationNext
<1>1. UNCHANGED <<configured, workingOf, voiceOf>>
  BY VoicesSame, WorkingSame DEF ExpireCode
<1>2. Delegated!Lapse(k)
  BY <1>1 DEF ExpireCode, Delegated!Lapse
<1> QED
  BY <1>2 DEF Delegated!DelegationNext

LEMMA EndStep ==
  ASSUME Typed, NEW t \in Tokens, ExpireToken(t)
  PROVE  Delegated!DelegationNext
<1>1. token' = [token EXCEPT ![t] = [token[t] EXCEPT !.state = "gone"]]
  BY DEF ExpireToken
<1>2. token[t] \in Token
  BY DEF Typed, AccTypeOK
<1>3. voiceOf' = [voiceOf EXCEPT ![t] = [owner |-> token[t].owner, client |-> token[t].client,
                                         state |-> "gone"]]
  BY <1>1, <1>2, VoiceWritten DEF Token
<1>4. voiceOf[t] = [owner |-> token[t].owner, client |-> token[t].client, state |-> token[t].state]
  BY DEF voiceOf
<1>5. UNCHANGED <<configured, workingOf, code>>
  BY WorkingSame DEF ExpireToken
<1>6. voiceOf[t].state = "live"
  BY <1>4 DEF ExpireToken
<1>7. [voiceOf[t] EXCEPT !.state = "gone"]
        = [owner |-> token[t].owner, client |-> token[t].client, state |-> "gone"]
  BY <1>4
<1>8. Delegated!End(t)
  BY <1>3, <1>5, <1>6, <1>7 DEF Delegated!End
<1> QED
  BY <1>8 DEF Delegated!DelegationNext

LEMMA LeaveStep ==
  ASSUME Typed, NEW e \in Employees, CompleteDeparture(e)
  PROVE  Delegated!DelegationNext
<1>1. workingOf' = workingOf \ {e}
  BY DEF CompleteDeparture, workingOf, Enabled, Typed, AccTypeOK, Account
<1>2. voiceOf' = Delegated!Silenced(e)
  BY DEF CompleteDeparture, voiceOf, Delegated!Silenced, Typed, AccTypeOK, Token
<1>3. Delegated!Leave(e)
  BY <1>1, <1>2 DEF CompleteDeparture, Delegated!Leave
<1> QED
  BY <1>3 DEF Delegated!DelegationNext

LEMMA StatusStep ==
  ASSUME Typed, NEW e \in Employees, NEW status \in Statuses, SetEmployeeEnabled(e, status)
  PROVE  Delegated!DelegationNext
<1>1. voiceOf' = voiceOf
  BY VoicesSame DEF SetEmployeeEnabled
<1>2. CASE status = "enabled"
  <2>1. workingOf' = workingOf \cup {e}
    BY <1>2 DEF SetEmployeeEnabled, workingOf, Enabled, Typed, AccTypeOK, Account
  <2>2. Delegated!Return(e)
    BY <1>1, <2>1 DEF SetEmployeeEnabled, Delegated!Return
  <2> QED
    BY <2>2 DEF Delegated!DelegationNext
<1>3. CASE status = "disabled"
  <2>1. workingOf' = workingOf \ {e}
    BY <1>3 DEF SetEmployeeEnabled, workingOf, Enabled, Typed, AccTypeOK, Account
  <2>2. Delegated!Leave(e)
    BY <1>1, <2>1 DEF SetEmployeeEnabled, Delegated!Leave
  <2> QED
    BY <2>2 DEF Delegated!DelegationNext
<1> QED
  BY <1>2, <1>3 DEF Statuses

LEMMA ResetUnseen ==
  ASSUME Typed, NEW e \in Employees, ResetEmployeePassword(e)
  PROVE  UNCHANGED Delegated!delegation
<1>1. \A x \in Employees : account'[x].status = account[x].status
  BY DEF ResetEmployeePassword, AfterReset, Typed, AccTypeOK, Account
<1> QED
  BY <1>1, UnseenStep DEF ResetEmployeePassword

LEMMA DelegationStep ==
  ASSUME AccInv, [Next]_vars
  PROVE  [Delegated!DelegationNext]_Delegated!delegation
<1>1. ASSUME UNCHANGED <<account, code, token, configured>>
      PROVE  UNCHANGED Delegated!delegation
  BY <1>1, UnseenStep
<1>2. ASSUME NEW w \in Workers, Serve(w)
      PROVE  [Delegated!DelegationNext]_Delegated!delegation
  <2>1. \/ UNCHANGED <<account, code, token, configured>>
        \/ \E current, new \in Passwords : ChangePassword(w, current, new)
        \/ \E client \in Clients : Authorize(w, client)
    BY <1>2 DEF Serve, LoginCheck, AuthenticateOAuthAccount, Login, AuthenticateSession,
       Logout, Finish
  <2> QED
    BY <1>1, <2>1, SettleStep, PermitStep DEF AccInv
<1>3. CASE Elsewhere
  <2>1. CASE \E e \in Employees : ResetEmployeePassword(e) \/ CompleteDeparture(e)
    BY <2>1, ResetUnseen, LeaveStep DEF AccInv
  <2>2. CASE \E e \in Employees, status \in Statuses : SetEmployeeEnabled(e, status)
    BY <2>2, StatusStep DEF AccInv
  <2>3. CASE \E client \in Clients : ClientCredentials(client) \/ \E k \in Codes : ExchangeCode(client, k)
    BY <2>3, RedeemStep, SpeakStep DEF AccInv
  <2>4. CASE \E s \in Sessions : ExpireSession(s)
    BY <1>1, <2>4 DEF ExpireSession
  <2>5. CASE (\E k \in Codes : ExpireCode(k)) \/ \E t \in Tokens : ExpireToken(t)
    BY <2>5, LapseStep, EndStep DEF AccInv
  <2> QED
    BY <1>3, <2>1, <2>2, <2>3, <2>4, <2>5 DEF Elsewhere
<1>4. CASE UNCHANGED vars
  BY <1>1, <1>4 DEF vars
<1> QED
  BY <1>2, <1>3, <1>4 DEF Next

LEMMA DelegationStart == Init => Delegated!DelegationInit
  BY DEF Init, Delegated!DelegationInit, workingOf, voiceOf, Enabled, NoCode, NoToken,
     Delegated!Blank

(* The codes and tokens of Accounts, however requests overlap, behave as        *)
(* Delegation promises: everything behind them is the server's own affair.      *)
THEOREM AccountsImplementDelegation == Spec => ImplementsDelegation
  BY DelegationStart, DelegationStep, Invariance, PTL
     DEF Spec, ImplementsDelegation, Delegated!DelegationSpec

--------------------------------------------------------------------------------
(* The handlers of api.go. *)

(* A handler takes steps of Accounts, or none. *)
LEMMA ApiStep == [ApiNext]_apiVars => [Next]_vars
  BY DEF ApiNext, apiVars, Enter, login, logout, changePassword, authorize, Answer,
     LookUpToken, Identify, AnswerToken, Meanwhile, Next, Serve

(* The handlers decide who gets as far as Accounts, and add nothing to what     *)
(* happens there: every theorem about Spec is one about ApiSpec.                *)
THEOREM HandlersOnlyAdmit == ApiSpec => Spec
  BY ApiStep, PTL DEF ApiSpec, ApiInit, Spec

(* What a call and the row its request has loaded say together. *)
CallSound(w) ==
  LET c == call[w] IN
  /\ c.route \in {"none"} \cup TokenRoutes => work[w] = NoWork
  /\ c.route = "login" => work[w].op = "login"
  /\ c.route \in PasswordRoutes \cup {"business"} => work[w].op = "session"
  /\ c.route = "authorize" => work[w].op \in {"session", "authorize"}
  /\ c.route \in TokenRoutes => c.token \in Tokens /\ token[c.token].state # "none"
  /\ c.known => c.route \in TokenRoutes /\ InScope(c.token, c.route)

ApiTyped == call \in [Workers -> Call]

(* The part of ServedStand that is about one worker. *)
Stands(w) ==
  /\ call[w].route \in PasswordRoutes \cup BusinessRoutes \/ call[w].known
  /\ ~call[w].overtaken /\ Served(w) # None
  => /\ Enabled(Served(w))
     /\ call[w].route \in BusinessRoutes => ~account[Served(w)].must

ApiInv == ApiTyped /\ \A w \in Workers : CallSound(w) /\ Stands(w)

LEMMA CallsTyped ==
  ASSUME Typed, ApiTyped, [ApiNext]_apiVars
  PROVE  ApiTyped'
<1> USE DEF ApiTyped
<1>1. ASSUME NEW w \in Workers, Close(w)
      PROVE  ApiTyped'
  BY <1>1 DEF Close, NoCall, Call
<1>2. ASSUME NEW w \in Workers, NEW route \in {"login"} \cup PasswordRoutes \cup BusinessRoutes \cup TokenRoutes,
             NEW t \in Tokens \cup {None}, Open(w, route, t)
      PROVE  ApiTyped'
  BY <1>2 DEF Open, NoCall, Call
<1>3. ASSUME NEW w \in Workers, Identify(w)
      PROVE  ApiTyped'
  BY <1>3 DEF Identify, Call
<1>4. CASE Meanwhile
  BY <1>4 DEF Meanwhile, Call
<1> QED
  BY <1>1, <1>2, <1>3, <1>4 DEF ApiNext, apiVars, Enter, login, logout, changePassword,
     authorize, Answer, LookUpToken, AnswerToken, BusinessRoutes

(* A token that was issued keeps its owner and its code. *)
LEMMA IssuedStays ==
  ASSUME Typed, [Next]_vars, NEW t \in Tokens, token[t].state # "none"
  PROVE  SameToken(t) /\ token'[t].state # "none"
<1>1. ASSUME NEW u \in Tokens, token[u] = NoToken, NEW row, token' = [token EXCEPT ![u] = row]
      PROVE  token'[t] = token[t]
  BY <1>1 DEF NoToken, Typed, AccTypeOK
<1>2. ASSUME NEW e \in Employees, CompleteDeparture(e)
      PROVE  SameToken(t) /\ token'[t].state # "none"
  BY <1>2 DEF CompleteDeparture, SameToken, Typed, AccTypeOK, Token
<1>3. ASSUME NEW u \in Tokens, ExpireToken(u)
      PROVE  SameToken(t) /\ token'[t].state # "none"
  BY <1>3 DEF ExpireToken, SameToken, Typed, AccTypeOK, Token
<1>4. ASSUME NEW client \in Clients, ClientCredentials(client) \/ \E k \in Codes : ExchangeCode(client, k)
      PROVE  token'[t] = token[t]
  BY <1>1, <1>4 DEF ClientCredentials, ExchangeCode
<1>5. ASSUME token' = token
      PROVE  SameToken(t) /\ token'[t].state # "none"
  BY <1>5 DEF SameToken
<1>6. ASSUME NEW w \in Workers, Serve(w)
      PROVE  token' = token
  BY <1>6 DEF Serve, LoginCheck, AuthenticateOAuthAccount, Login, AuthenticateSession,
     Logout, ChangePassword, Authorize, Finish
<1>7. ASSUME Elsewhere
      PROVE  \/ token' = token
             \/ \E client \in Clients : ClientCredentials(client) \/ \E k \in Codes : ExchangeCode(client, k)
             \/ \E e \in Employees : CompleteDeparture(e)
             \/ \E u \in Tokens : ExpireToken(u)
  BY <1>7 DEF Elsewhere, ResetEmployeePassword, SetEmployeeEnabled, ExpireSession, ExpireCode
<1> QED
  BY <1>2, <1>3, <1>4, <1>5, <1>6, <1>7 DEF Next, vars, SameToken



(* A step that leaves a request alone, and overtakes it or leaves the account   *)
(* it is served for as good as it was, keeps what is said of it.                *)
LEMMA LeftAlone ==
  ASSUME Typed, ApiTyped, [Next]_vars, NEW w \in Workers, CallSound(w), Stands(w),
         work'[w] = work[w],
         call'[w] = call[w] \/ call'[w] = [call[w] EXCEPT !.overtaken = TRUE],
         Served(w) \in Employees /\ call[w].route # "none" =>
           \/ call'[w].overtaken
           \/ /\ Enabled(Served(w)) => account'[Served(w)].status = "enabled"
              /\ account'[Served(w)].must => account[Served(w)].must
  PROVE  CallSound(w)' /\ Stands(w)'
<1>1. /\ call[w] \in Call
      /\ call'[w].route = call[w].route /\ call'[w].token = call[w].token
      /\ call'[w].known = call[w].known /\ (call[w].overtaken => call'[w].overtaken)
  BY DEF ApiTyped, Call
<1>2. call[w].route \in TokenRoutes =>
        SameToken(call[w].token) /\ token'[call[w].token].state # "none"
  BY IssuedStays DEF CallSound
<1>3. Served(w)' = Served(w)
  BY <1>1, <1>2 DEF Served, SameToken
<1>4. CallSound(w)'
  BY <1>1, <1>2 DEF CallSound, InScope, SameToken
<1>5. ASSUME call[w].route \in PasswordRoutes \cup BusinessRoutes \/ call[w].known,
             Served(w) # None
      PROVE  Served(w) \in Employees /\ call[w].route # "none"
  BY <1>1, <1>5 DEF Served, CallSound, Typed, AccTypeOK, Token, PasswordRoutes,
     BusinessRoutes, TokenRoutes
<1>6. Stands(w)'
  BY <1>1, <1>3, <1>5 DEF Stands, Enabled
<1> QED
  BY <1>4, <1>6

(* A request without a route claims nothing. *)
LEMMA ClosedSound ==
  ASSUME Typed, ApiTyped, NEW w \in Workers, Close(w), work'[w] = NoWork
  PROVE  CallSound(w)' /\ Stands(w)'
  BY DEF Close, NoCall, CallSound, Stands, ApiTyped, PasswordRoutes, BusinessRoutes, TokenRoutes

(* The step a handler takes keeps what is said of its own request. *)
Handler(w) ==
  \/ \E s \in Sessions, route \in PasswordRoutes \cup BusinessRoutes : Enter(w, route, s)
  \/ login(w) \/ logout(w) \/ changePassword(w) \/ authorize(w) \/ Answer(w)
  \/ \E t \in Tokens, route \in TokenRoutes : LookUpToken(w, route, t)
  \/ Identify(w) \/ AnswerToken(w)

LEMMA OwnStep ==
  ASSUME Typed, ApiTyped, NEW w \in Workers, CallSound(w), Stands(w), Handler(w)
  PROVE  CallSound(w)' /\ Stands(w)'
<1>1. ASSUME Done(w)
      PROVE  work'[w] = NoWork
  BY <1>1 DEF Done, Typed, AccTypeOK
<1>2. ASSUME NEW route, NEW t, Open(w, route, t)
      PROVE  /\ call'[w].route = route /\ call'[w].token = t
             /\ ~call'[w].known /\ ~call'[w].overtaken
  BY <1>2 DEF Open, NoCall, ApiTyped
<1>3. ASSUME NEW op, NEW e, NEW s, Load(w, op, e, s)
      PROVE  work'[w].op = op /\ work'[w].emp = e /\ work'[w].must = account[e].must
  BY <1>3 DEF Load, Typed, AccTypeOK
<1>4. ASSUME NEW s \in Sessions, NEW route \in PasswordRoutes \cup BusinessRoutes,
             Enter(w, route, s)
      PROVE  CallSound(w)' /\ Stands(w)'
  <2>1. /\ call'[w].route = route /\ ~call'[w].known
        /\ work'[w].op = "session" /\ work'[w].emp = session[s].owner
        /\ work'[w].must = account[session[s].owner].must
        /\ Enabled(session[s].owner) /\ (route \in BusinessRoutes => ~work'[w].must)
        /\ UNCHANGED account
    BY <1>2, <1>3, <1>4 DEF Enter, AuthenticateSession, Enters, PasswordRoutes, BusinessRoutes
  <2> QED
    BY <1>4, <2>1 DEF CallSound, Stands, Served, Enabled, PasswordRoutes, BusinessRoutes,
       TokenRoutes
<1>5. ASSUME login(w)
      PROVE  CallSound(w)' /\ Stands(w)'
  <2>1. CASE \E e \in Employees, password \in Passwords :
               LoginCheck(w, e, password) /\ Open(w, "login", None)
    <3>1. call'[w].route = "login" /\ ~call'[w].known /\ work'[w].op = "login"
      BY <1>2, <1>3, <2>1 DEF LoginCheck
    <3> QED
      BY <3>1 DEF CallSound, Stands, PasswordRoutes, BusinessRoutes, TokenRoutes
  <2>2. CASE Login(w) /\ Close(w)
    BY <1>1, <2>2, ClosedSound DEF Login
  <2> QED
    BY <1>5, <2>1, <2>2 DEF login
<1>6. ASSUME authorize(w)
      PROVE  CallSound(w)' /\ Stands(w)'
  <2>1. ASSUME NEW e \in Employees, NEW password \in Passwords,
               AuthenticateOAuthAccount(w, e, password), Open(w, "authorize", None)
        PROVE  CallSound(w)' /\ Stands(w)'
    <3>1. /\ call'[w].route = "authorize" /\ ~call'[w].known
          /\ work'[w].op = "authorize" /\ work'[w].emp = e
          /\ Enabled(e) /\ ~account[e].must /\ UNCHANGED account
      BY <1>2, <1>3, <2>1 DEF AuthenticateOAuthAccount
    <3> QED
      BY <3>1 DEF CallSound, Stands, Served, Enabled, PasswordRoutes, BusinessRoutes, TokenRoutes
  <2>2. CASE (\E client \in Clients : Authorize(w, client)) /\ Close(w)
    BY <1>1, <2>2, ClosedSound DEF Authorize
  <2> QED
    BY <1>6, <2>1, <2>2 DEF authorize
<1>7. ASSUME NEW t \in Tokens, NEW route \in TokenRoutes, LookUpToken(w, route, t)
      PROVE  CallSound(w)' /\ Stands(w)'
  <2>1. /\ call'[w].route = route /\ call'[w].token = t /\ ~call'[w].known
        /\ UNCHANGED <<work, token>> /\ token[t].state = "live" /\ call[w].route = "none"
    BY <1>2, <1>7 DEF LookUpToken, vars, NoCall
  <2> QED
    BY <1>7, <2>1 DEF CallSound, Stands, PasswordRoutes, BusinessRoutes, TokenRoutes
<1>8. ASSUME Identify(w)
      PROVE  CallSound(w)' /\ Stands(w)'
  <2>1. /\ call'[w].route = call[w].route /\ call'[w].token = call[w].token /\ call'[w].known
        /\ call[w].route \in TokenRoutes /\ UNCHANGED <<work, token, account>>
        /\ InScope(call[w].token, call[w].route)
        /\ Served(w) # None => Enabled(Served(w))
    BY <1>8 DEF Identify, ApiTyped, Call, vars
  <2> QED
    BY <2>1 DEF CallSound, Stands, Served, Enabled, InScope, PasswordRoutes, BusinessRoutes,
       TokenRoutes
<1>9. ASSUME logout(w) \/ changePassword(w) \/ Answer(w) \/ AnswerToken(w)
      PROVE  CallSound(w)' /\ Stands(w)'
  <2>1. Close(w)
    BY <1>9 DEF logout, changePassword, Answer, AnswerToken
  <2>2. CASE AnswerToken(w)
    BY <2>1, <2>2, ClosedSound DEF AnswerToken, CallSound, vars
  <2>3. CASE logout(w) \/ changePassword(w) \/ Answer(w)
    BY <1>1, <2>1, <2>3, ClosedSound DEF logout, changePassword, Answer, Logout,
       ChangePassword, Finish
  <2> QED
    BY <1>9, <2>2, <2>3
<1> QED
  BY <1>4, <1>5, <1>6, <1>7, <1>8, <1>9 DEF Handler

(* A handler changes neither the rows of the other requests nor, but by setting *)
(* a password, an account.                                                      *)
LEMMA OtherRequests ==
  ASSUME Typed, ApiTyped, NEW v \in Workers, Handler(v)
  PROVE  /\ \A w \in Workers : w # v => work'[w] = work[w] /\ call'[w] = call[w]
         /\ \A e \in Employees : /\ Enabled(e) => account'[e].status = "enabled"
                                 /\ account'[e].must => account[e].must
<1>1. ASSUME NEW w \in Workers, w # v
      PROVE  work'[w] = work[w] /\ call'[w] = call[w]
  <2>1. call'[w] = call[w]
    BY <1>1 DEF Handler, Enter, login, logout, changePassword, authorize, Answer,
       LookUpToken, Identify, AnswerToken, Open, Close, ApiTyped
  <2>2. (\E row : work' = [work EXCEPT ![v] = row]) \/ work' = work
    BY DEF Handler, Enter, login, logout, changePassword, authorize, Answer, LookUpToken,
       Identify, AnswerToken, AuthenticateSession, LoginCheck, Login, Logout, ChangePassword,
       AuthenticateOAuthAccount, Authorize, Finish, Load, Done, vars
  <2> QED
    BY <1>1, <2>1, <2>2 DEF Typed, AccTypeOK
<1>2. ASSUME NEW e \in Employees
      PROVE  /\ Enabled(e) => account'[e].status = "enabled"
             /\ account'[e].must => account[e].must
  <2>1. ASSUME NEW current \in Passwords, NEW new \in Passwords, ChangePassword(v, current, new)
        PROVE  account'[e].status = account[e].status /\ (account'[e].must => account[e].must)
    BY <2>1 DEF ChangePassword, Typed, AccTypeOK, Account
  <2>2. ASSUME ~changePassword(v)
        PROVE  account' = account
    BY <2>2 DEF Handler, Enter, login, logout, authorize, Answer, LookUpToken, Identify,
       AnswerToken, AuthenticateSession, LoginCheck, Login, Logout, AuthenticateOAuthAccount,
       Authorize, Finish, vars
  <2> QED
    BY <2>1, <2>2 DEF changePassword, Enabled
<1> QED
  BY <1>1, <1>2

LEMMA ApiInvStep ==
  ASSUME AccInv, ApiInv, [ApiNext]_apiVars
  PROVE  ApiInv'
<1>1. ApiTyped'
  BY CallsTyped DEF AccInv, ApiInv
<1> SUFFICES ASSUME NEW w \in Workers
             PROVE  CallSound(w)' /\ Stands(w)'
  BY <1>1 DEF ApiInv
<1>2. Typed /\ ApiTyped /\ CallSound(w) /\ Stands(w) /\ [Next]_vars
  BY ApiStep DEF AccInv, ApiInv
<1>3. ASSUME NEW v \in Workers, Handler(v)
      PROVE  CallSound(w)' /\ Stands(w)'
  <2>1. CASE v = w
    BY <1>2, <1>3, <2>1, OwnStep
  <2>2. CASE v # w
    <3>1. /\ work'[w] = work[w] /\ call'[w] = call[w]
          /\ \A e \in Employees : /\ Enabled(e) => account'[e].status = "enabled"
                                  /\ account'[e].must => account[e].must
      BY <1>2, <1>3, <2>2, OtherRequests
    <3> QED
      BY <1>2, <3>1, LeftAlone
  <2> QED
    BY <2>1, <2>2
<1>4. CASE Meanwhile
  <2>1. work' = work
    BY <1>4 DEF Meanwhile, Elsewhere, ResetEmployeePassword, SetEmployeeEnabled,
       CompleteDeparture, ExchangeCode, ClientCredentials, ExpireSession, ExpireCode,
       ExpireToken
  <2>2. call'[w] = IF call[w].route # "none" /\ Served(w) # None /\ Overtaken(Served(w))
                   THEN [call[w] EXCEPT !.overtaken = TRUE] ELSE call[w]
    BY <1>4 DEF Meanwhile
  <2>3. \A e \in Employees : account'[e].status \in Statuses
    BY <1>4, ElsewhereTyped DEF Meanwhile, AccInv, Typed, AccTypeOK, Account
  <2>4. ASSUME Served(w) \in Employees, call[w].route # "none"
        PROVE  \/ call'[w].overtaken
               \/ /\ account'[Served(w)].status = "enabled"
                  /\ account'[Served(w)].must => account[Served(w)].must
    <3>1. Served(w) # None /\ call[w] \in Call
      BY <1>2, <2>4, AccountsAssumption DEF ApiTyped
    <3> QED
      BY <2>2, <2>3, <2>4, <3>1 DEF Overtaken, Statuses, Call
  <2> QED
    BY <1>2, <2>1, <2>2, <2>4, LeftAlone
<1>5. CASE UNCHANGED apiVars
  BY <1>2, <1>5, LeftAlone DEF apiVars, vars, Enabled, Served
<1> QED
  BY <1>3, <1>4, <1>5 DEF ApiNext, Handler

LEMMA ApiInvHolds == ApiSpec => []ApiInv
<1>1. ApiInit => ApiInv
  BY DEF ApiInit, Init, ApiInv, ApiTyped, Call, NoCall, CallSound, Stands, PasswordRoutes,
     BusinessRoutes, TokenRoutes
<1>2. AccInv /\ ApiInv /\ [ApiNext]_apiVars => ApiInv'
  BY ApiInvStep
<1> QED
  BY <1>1, <1>2, HandlersOnlyAdmit, Invariance, PTL DEF ApiSpec

(* A request that is served, and was not overtaken, is served for an account    *)
(* that is enabled and, where a session came with business, has its password; a *)
(* token answers for its owner only, who has set a password at some time, and   *)
(* only within its scope.                                                       *)
THEOREM ServesWhomItShould == ApiSpec => []ServedRightly
<1>1. AccInv /\ ApiInv => ServedStand
  <2> SUFFICES ASSUME AccInv, ApiInv, NEW w \in Workers,
                      call[w].route \in PasswordRoutes \cup BusinessRoutes \/ call[w].known,
                      ~call[w].overtaken, Served(w) # None
               PROVE  /\ Enabled(Served(w))
                      /\ call[w].route \in BusinessRoutes => ~account[Served(w)].must
                      /\ call[w].route = "userinfo" => Served(w) \in configured
    BY DEF ServedStand
  <2>1. ASSUME call[w].route = "userinfo" PROVE Served(w) \in configured
    <3>1. call[w].token \in Tokens /\ Served(w) = token[call[w].token].owner
      BY <2>1 DEF ApiInv, CallSound, Served, TokenRoutes, PasswordRoutes, BusinessRoutes
    <3> QED
      BY <3>1 DEF AccInv, NoCodeBeforePassword
  <2> QED
    BY <2>1 DEF ApiInv, Stands
<1>2. ASSUME AccInv, ApiInv
      PROVE  TokensInScope
  <2> SUFFICES ASSUME NEW w \in Workers, call[w].known
               PROVE  IF call[w].route = "userinfo"
                      THEN /\ token[call[w].token].code \in Codes
                           /\ code[token[call[w].token].code].owner = Served(w)
                      ELSE token[call[w].token].code = None
    BY DEF TokensInScope
  <2>1. /\ call[w].route \in TokenRoutes /\ call[w].token \in Tokens
        /\ (token[call[w].token].owner = None) <=> (call[w].route = "employees")
    BY <1>2 DEF ApiInv, CallSound, InScope
  <2>2. CASE call[w].route = "userinfo"
    <3> DEFINE t == call[w].token
    <3>1. t \in Tokens /\ token[t].owner # None /\ Served(w) = token[t].owner
      BY <2>1, <2>2 DEF Served
    <3>2. /\ token[t].code \in Codes
          /\ code[token[t].code]
               = [owner |-> token[t].owner, client |-> token[t].client, state |-> "used"]
      BY <1>2, <3>1 DEF AccInv, CodeRedeemedOnce
    <3>3. code[token[t].code].owner = token[t].owner
      BY <3>2
    <3> QED
      BY <2>2, <3>1, <3>2, <3>3
  <2>3. CASE call[w].route = "employees"
    BY <1>2, <2>1, <2>3 DEF AccInv, ClientTokens
  <2> QED
    BY <2>1, <2>2, <2>3 DEF TokenRoutes
<1> QED
  BY <1>1, <1>2, HandlersOnlyAdmit, Invariance, ApiInvHolds, PTL DEF ServedRightly
================================================================================
