--------------------------- MODULE AccountsProofs ---------------------------
(***************************************************************************)
(* Proofs, for any number of accounts, sessions, tokens, requests and      *)
(* faults, of the safety properties of Accounts.                           *)
(***************************************************************************)
EXTENDS Accounts, FiniteSetTheorems, TLAPS

-----------------------------------------------------------------------------
(* Types, what handlers carry, and ownership of credentials                *)

RowsTyped ==
  /\ user \in [Users -> UserRow]
  /\ session \in [Sessions -> SessionRow]
  /\ token \in [Tokens -> TokenRow]
  /\ req \in [Requests -> Handler]
  /\ late \in SUBSET Sessions
  /\ overlap \in BOOLEAN

\* A handler past its first read names an account that existed, and a session
\* that changes its own password is a session of that account as long as it lasts.
HandlerOK(h) ==
  /\ h.pc \in {"link", "auditLogin", "session", "token", "setPassword", "setOwnPassword", "count", "write"} =>
       h.user \in Users /\ user[h.user].row # "unused"
  /\ h.pc = "setOwnPassword" =>
       /\ h.session \in Sessions /\ session[h.session].row # "unused"
       /\ session[h.session].row = "live" => session[h.session].user = h.user
  /\ h.pc \in {"byName", "link", "createSSO"} => h.subject \in Subjects
  /\ h.pc \in {"createUser", "bootstrap"} => h.name \in Names /\ h.role \in Role

AccountsInv ==
  /\ RowsTyped
  /\ \A r \in Requests : HandlerOK(req[r])
  /\ CredentialsOwned

\* Ids are not reused: a row that was written stays written, and a session that
\* is live was live before with the same owner, or is new.
RowsAdvance ==
  /\ \A u \in Users : user[u].row # "unused" => user'[u].row # "unused"
  /\ \A s \in Sessions : session[s].row # "unused" =>
       /\ session'[s].row # "unused"
       /\ session'[s].row = "live" => session[s].row = "live" /\ session'[s].user = session[s].user

LEMMA BaseFrame ==
  ASSUME AccountsInv, NEW r \in Requests, NEW h \in Handler, Goto(r, h), HandlerOK(h)',
         user' \in [Users -> UserRow], session' \in [Sessions -> SessionRow],
         token' \in [Tokens -> TokenRow], late' \in SUBSET Sessions, overlap' \in BOOLEAN,
         RowsAdvance, CredentialsOwned'
  PROVE  AccountsInv'
<1>1. req' \in [Requests -> Handler] /\ req'[r] = h /\ \A k \in Requests : k # r => req'[k] = req[k]
  BY DEF AccountsInv, RowsTyped, Goto
<1>2. ASSUME NEW k \in Requests PROVE HandlerOK(req[k])'
  <2>1. CASE k = r
    BY <1>1, <2>1 DEF HandlerOK
  <2>2. CASE k # r
    <3>1. HandlerOK(req[k]) /\ req'[k] = req[k]
      BY <1>1, <2>2 DEF AccountsInv
    <3> QED BY <3>1 DEF HandlerOK, RowsAdvance
  <2> QED BY <2>1, <2>2
<1> QED BY <1>1, <1>2 DEF AccountsInv, RowsTyped

\* A step of a request that writes no row.
LEMMA GotoBase ==
  ASSUME AccountsInv, NEW r \in Requests, NEW h \in Handler, Goto(r, h), HandlerOK(h),
         UNCHANGED <<user, session, token>>, late' \in SUBSET Sessions, overlap' \in BOOLEAN
  PROVE  AccountsInv'
<1>1. RowsAdvance
  BY DEF RowsAdvance
<1>2. CredentialsOwned'
  BY DEF AccountsInv, CredentialsOwned, LiveSession, LiveUser
<1>3. HandlerOK(h)'
  BY DEF HandlerOK
<1> QED BY <1>1, <1>2, <1>3, BaseFrame DEF AccountsInv, RowsTyped

\* A request that ends, and what a record on its way holds.
LEMMA IdleHandler == Idle \in Handler /\ HandlerOK(Idle)
BY AccountsAssumption DEF Idle, Handler, HandlerOK, Role, Passwords

\* A request that has only its audit entry to write.
LEMMA AuditHandler ==
  ASSUME NEW a \in Users \cup {None}
  PROVE  AuditBy(a) \in Handler /\ HandlerOK(AuditBy(a)) /\ AuditBy(a).pc = "audit"
<1>1. AuditBy(a).pc = "audit"
  BY DEF AuditBy, Idle
<1>2. Idle \in Handler
  BY IdleHandler
<1>3. AuditBy(a) \in Handler
  BY <1>2 DEF Handler, AuditBy
<1> QED BY <1>1, <1>3 DEF HandlerOK

\* A sign-in of an account there is or was.
LEMMA LoginHandler ==
  ASSUME NEW u \in Users, NEW pw \in Passwords
  PROVE  /\ LoginBy(u, pw) \in Handler /\ LoginBy(u, pw).pc = "auditLogin" /\ LoginBy(u, pw).user = u
         /\ user[u].row # "unused" => HandlerOK(LoginBy(u, pw))
BY AccountsAssumption DEF LoginBy, Idle, Handler, HandlerOK, Role, Passwords

\* The field a record is given.
LEMMA HandlerFields ==
  ASSUME NEW h \in Handler
  PROVE  /\ h.user \in Users \cup {None} /\ h.actor \in Users \cup {None} /\ h.session \in Sessions \cup {None}
         /\ h.name \in Names \cup {None} /\ h.role \in Role \cup {"deleted"}
         /\ h.pw \in Passwords /\ h.subject \in Subjects \cup {None}
BY DEF Handler

LEMMA RowFields ==
  ASSUME RowsTyped
  PROVE  /\ \A u \in Users : /\ user[u] \in UserRow
                             /\ user[u].pw \in Passwords /\ user[u].role \in Role
                             /\ user[u].row \in RowState
         /\ \A s \in Sessions : /\ session[s] \in SessionRow
                                /\ session[s].user \in Users \cup {None}
                                /\ session[s].pw \in Passwords
                                /\ session[s].row \in RowState
         /\ \A t \in Tokens : token[t] \in TokenRow /\ token[t].user \in Users \cup {None}
BY DEF RowsTyped, UserRow, SessionRow, TokenRow

LEMMA EnterBase ==
  ASSUME AccountsInv, NEW r \in Requests, Enter(r)
  PROVE  AccountsInv' /\ UNCHANGED <<user, session, token, late, overlap>> /\ req[r].pc = "idle"
<1>0. /\ RowsTyped /\ CredentialsOwned /\ late \in SUBSET Sessions /\ overlap \in BOOLEAN
      /\ 0 \in Passwords /\ "viewer" \in Role
  BY AccountsAssumption DEF AccountsInv, RowsTyped, Passwords, Role
<1>1. UNCHANGED <<user, session, token, late, overlap>> /\ req[r].pc = "idle"
  BY DEF Enter, BootstrapSubmit, LoginSubmit, OIDCCallback, Logout, LogoutEverywhere, ChangePassword, UserCreate,
         ManageUser, UserResetPassword, AccountTokenCreate, AccountTokenDelete, SignedIn
<1>g. ASSUME NEW h \in Handler, HandlerOK(h), Goto(r, h) PROVE AccountsInv'
  BY <1>0, <1>1, <1>g, GotoBase
<1>u. \A s \in Sessions : LiveSession(s) => session[s].user \in Users /\ user[session[s].user].row = "live"
  BY <1>0 DEF CredentialsOwned, LiveUser
<1>2. ASSUME NEW n \in Names, BootstrapSubmit(r, n) PROVE AccountsInv'
  <2> DEFINE h == [Idle EXCEPT !.pc = "bootstrap", !.name = n]
  <2>1. h \in Handler /\ HandlerOK(h)
    BY <1>0 DEF Idle, Handler, HandlerOK
  <2> QED BY <1>g, <1>2, <2>1 DEF BootstrapSubmit
<1>3. ASSUME NEW u \in Users, user[u].row = "live", SignedIn(r, u, user[u].pw)
      PROVE  AccountsInv'
  <2>1. LoginBy(u, user[u].pw) \in Handler /\ HandlerOK(LoginBy(u, user[u].pw))
    BY <1>0, <1>3, RowFields, LoginHandler
  <2> QED BY <1>g, <1>3, <2>1 DEF SignedIn
<1>4. ASSUME NEW x \in Subjects, OIDCCallback(r, x) PROVE AccountsInv'
  <2> DEFINE h == [Idle EXCEPT !.pc = "byName", !.subject = x]
  <2>1. h \in Handler /\ HandlerOK(h)
    BY <1>0 DEF Idle, Handler, HandlerOK
  <2> QED BY <1>3, <1>g, <1>4, <2>1 DEF OIDCCallback, Bound, LiveUser
<1>5. ASSUME NEW s \in Sessions, LiveSession(s), NEW pc \in {"revokeAll", "revokeOthers", "setOwnPassword"},
             Goto(r, [Idle EXCEPT !.pc = pc, !.user = session[s].user, !.actor = session[s].user, !.session = s])
      PROVE  AccountsInv'
  <2> DEFINE h == [Idle EXCEPT !.pc = pc, !.user = session[s].user, !.actor = session[s].user, !.session = s]
  <2>1. h \in Handler /\ HandlerOK(h)
    BY <1>0, <1>5, <1>u DEF Idle, Handler, HandlerOK, LiveSession, Revoking
  <2> QED BY <1>g, <1>5, <2>1
<1>6. ASSUME NEW s \in Sessions, NEW n \in Names, NEW role \in Role, UserCreate(r, s, n, role)
      PROVE  AccountsInv'
  <2> DEFINE h == [Idle EXCEPT !.pc = "createUser", !.actor = session[s].user, !.name = n, !.role = role]
  <2>1. h \in Handler /\ HandlerOK(h)
    BY <1>0, RowFields DEF Idle, Handler, HandlerOK
  <2> QED BY <1>g, <1>6, <2>1 DEF UserCreate
<1>7. ASSUME NEW s \in Sessions, NEW u \in Users, NEW role \in Role \cup {"deleted"}, ManageUser(r, s, u, role)
      PROVE  AccountsInv'
  <2>1. PICK pc \in {"count", "write"} :
          Goto(r, [Idle EXCEPT !.pc = pc, !.user = u, !.actor = session[s].user, !.role = role])
    BY <1>7 DEF ManageUser
  <2> DEFINE h == [Idle EXCEPT !.pc = pc, !.user = u, !.actor = session[s].user, !.role = role]
  <2>2. h \in Handler /\ HandlerOK(h)
    BY <1>0, <1>7, RowFields DEF Idle, Handler, HandlerOK, ManageUser, LiveUser
  <2> QED BY <1>g, <2>1, <2>2
<1>8. ASSUME NEW u \in Users, user[u].row = "live", NEW a \in Users, NEW pc \in {"setPassword", "token"},
             Goto(r, [Idle EXCEPT !.pc = pc, !.user = u, !.actor = a])
      PROVE  AccountsInv'
  <2> DEFINE h == [Idle EXCEPT !.pc = pc, !.user = u, !.actor = a]
  <2>1. h \in Handler /\ HandlerOK(h)
    BY <1>0, <1>8 DEF Idle, Handler, HandlerOK
  <2> QED BY <1>g, <1>8, <2>1
<1>9. ASSUME NEW s \in Sessions, AccountTokenCreate(r, s) PROVE AccountsInv'
  BY <1>8, <1>9, <1>u DEF AccountTokenCreate, AdminSession
<1>10. ASSUME NEW s \in Sessions, NEW u \in Users, UserResetPassword(r, s, u) PROVE AccountsInv'
  BY <1>8, <1>10, <1>u DEF UserResetPassword, LiveUser, AdminSession
<1>11. ASSUME NEW u \in Users, LoginSubmit(r, u) PROVE AccountsInv'
  BY <1>3, <1>11 DEF LoginSubmit, LiveUser
<1>12. ASSUME NEW s \in Sessions, \/ ChangePassword(r, s)
                                  \/ \E pc \in {"revokeAll", "revokeOthers"} : LogoutEverywhere(r, s, pc)
       PROVE  AccountsInv'
  BY <1>5, <1>12 DEF ChangePassword, LogoutEverywhere
<1>13. ASSUME NEW s \in Sessions, Logout(r, s) PROVE AccountsInv'
  <2> DEFINE h == [Idle EXCEPT !.pc = "logout", !.actor = session[s].user, !.session = s]
  <2>1. h \in Handler /\ HandlerOK(h)
    BY <1>0, <1>13, RowFields DEF Idle, Handler, HandlerOK, Logout, LiveSession
  <2> QED BY <1>g, <1>13, <2>1 DEF Logout
<1>14. ASSUME NEW s \in Sessions, AccountTokenDelete(r, s) PROVE AccountsInv'
  <2> DEFINE h == [Idle EXCEPT !.pc = "tokenDelete", !.actor = session[s].user]
  <2>1. h \in Handler /\ HandlerOK(h)
    BY <1>0, RowFields DEF Idle, Handler, HandlerOK
  <2> QED BY <1>g, <1>14, <2>1 DEF AccountTokenDelete
<1> QED BY <1>1, <1>2, <1>4, <1>6, <1>7, <1>9, <1>10, <1>11, <1>12, <1>13, <1>14 DEF Enter

\* A new account takes an unused id, so it owns nothing yet and nobody's owner goes.
LEMMA NewUserBase ==
  ASSUME AccountsInv, NEW r \in Requests, NEW h \in Handler, Goto(r, h), NEW u \in Users,
         h.pc = "audit" \/ (h.pc = "auditLogin" /\ h.user = u),
         NEW n \in Names, NEW role \in Role, NEW pw \in {0, 1}, NEW x \in Subjects \cup {None},
         user' = [user EXCEPT ![u] = NewUser(n, role, pw, x)],
         UNCHANGED <<session, token, late, overlap>>
  PROVE  AccountsInv'
<1>0. RowsTyped /\ CredentialsOwned
  BY DEF AccountsInv
<1>1. NewUser(n, role, pw, x) \in UserRow
  BY AccountsAssumption DEF NewUser, UserRow, RowState, Passwords
<1>2. user' \in [Users -> UserRow]
  BY <1>0, <1>1 DEF RowsTyped
<1>3. user'[u].row = "live" /\ \A v \in Users : v # u => user'[v] = user[v]
  BY <1>0 DEF RowsTyped, NewUser
<1>4. RowsAdvance
  BY <1>3 DEF RowsAdvance
<1>5. CredentialsOwned'
  BY <1>0, <1>3 DEF CredentialsOwned, LiveSession, LiveUser
<1>6. HandlerOK(h)'
  BY <1>3 DEF HandlerOK
<1> QED BY <1>0, <1>2, <1>4, <1>5, <1>6, BaseFrame DEF RowsTyped

LEMMA CreateBase ==
  ASSUME AccountsInv, NEW r \in Requests, NEW u \in Users,
         CreateAdmin(r, u) \/ CreateSSOUser(r, u) \/ CreateUser(r, u)
  PROVE  AccountsInv'
<1>0. /\ req[r] \in Handler /\ HandlerOK(req[r]) /\ RowsTyped
      /\ 1 \in Passwords /\ 0 \in Passwords /\ {"viewer", "admin"} \subseteq Role
  BY AccountsAssumption DEF AccountsInv, RowsTyped, Passwords, Role
<1>1. CASE CreateAdmin(r, u)
  <2> DEFINE h == LoginBy(u, 1)
  <2>1. h \in Handler /\ h.pc = "auditLogin" /\ h.user = u
    BY <1>0, LoginHandler
  <2>2. req[r].name \in Names
    BY <1>0, <1>1 DEF CreateAdmin, HandlerOK
  <2> HIDE DEF h
  <2>3. Goto(r, h) /\ user' = [user EXCEPT ![u] = NewUser(req[r].name, "admin", 1, None)]
        /\ UNCHANGED <<session, token, late, overlap>>
    BY <1>1 DEF CreateAdmin, SignedIn, h
  <2> QED BY <1>0, <2>1, <2>2, <2>3, NewUserBase
<1>2. CASE CreateSSOUser(r, u)
  <2> DEFINE h == LoginBy(u, 0)
             x == req[r].subject
  <2>1. h \in Handler /\ h.pc = "auditLogin" /\ h.user = u
    BY <1>0, LoginHandler
  <2>2. x \in Subjects /\ ClaimedName[x] \in Names
    BY <1>0, <1>2, AccountsAssumption DEF CreateSSOUser, HandlerOK
  <2> HIDE DEF h
  <2>3. Goto(r, h) /\ user' = [user EXCEPT ![u] = NewUser(ClaimedName[x], "viewer", 0, x)]
        /\ UNCHANGED <<session, token, late, overlap>>
    BY <1>2 DEF CreateSSOUser, SignedIn, h
  <2> QED BY <1>0, <2>1, <2>2, <2>3, NewUserBase
<1>3. CASE CreateUser(r, u)
  <2>1. req[r].name \in Names /\ req[r].role \in Role
    BY <1>0, <1>3 DEF CreateUser, HandlerOK
  <2>2. AuditBy(req[r].actor) \in Handler /\ AuditBy(req[r].actor).pc = "audit"
    BY <1>0, HandlerFields, AuditHandler
  <2> QED BY <1>0, <1>3, <2>1, <2>2, NewUserBase DEF CreateUser, Acted
<1> QED BY <1>1, <1>2, <1>3

\* Deleting sessions, and the accounts they belong to, leaves the others owned.
LEMMA RemoveBase ==
  ASSUME AccountsInv, NEW gone \in SUBSET Sessions, RemoveSessions(gone)
  PROVE  /\ session' \in [Sessions -> SessionRow]
         /\ \A s \in Sessions : IF s \in gone THEN session'[s] = NoSession("deleted") ELSE session'[s] = session[s]
         /\ \A s \in gone : session'[s].row = "deleted"
<1>1. NoSession("deleted") \in SessionRow /\ NoSession("deleted").row = "deleted"
  BY AccountsAssumption DEF NoSession, SessionRow, RowState, Passwords
<1> QED BY <1>1 DEF AccountsInv, RowsTyped, RemoveSessions

LEMMA DeleteUserBase ==
  ASSUME AccountsInv, NEW r \in Requests, DeleteUser(r)
  PROVE  AccountsInv'
<1> DEFINE u == req[r].user
<1>0. /\ RowsTyped /\ CredentialsOwned
      /\ user \in [Users -> UserRow] /\ token \in [Tokens -> TokenRow]
  BY DEF AccountsInv, RowsTyped
<1>1. RemoveSessions(SessionsOf(u)) /\ SessionsOf(u) \in SUBSET Sessions
  BY DEF DeleteUser, SessionsOf
<1> HIDE DEF u
<1>2. /\ session' \in [Sessions -> SessionRow]
      /\ \A s \in Sessions : s \notin SessionsOf(u) => session'[s] = session[s]
      /\ \A s \in SessionsOf(u) : session'[s].row = "deleted"
  BY <1>1, RemoveBase
<1>3. NoUser("deleted") \in UserRow /\ NoUser("deleted").row = "deleted"
      /\ NoToken("deleted") \in TokenRow /\ NoToken("deleted").row = "deleted"
  BY AccountsAssumption DEF NoUser, NoToken, UserRow, TokenRow, RowState, Role, Passwords
<1>4. user' \in [Users -> UserRow] /\ \A v \in Users : v # u => user'[v] = user[v]
  BY <1>0, <1>3 DEF DeleteUser, u
<1>5. \A v \in Users : user[v].row # "unused" => user'[v].row # "unused"
  BY <1>0, <1>3 DEF DeleteUser, u, LiveUser
<1>6. /\ token' \in [Tokens -> TokenRow]
      /\ \A t \in Tokens : token'[t].row = "live" => token'[t] = token[t] /\ token[t].user # u
  BY <1>0, <1>3 DEF DeleteUser, u
<1>7. \A s \in Sessions : session'[s].row = "live" => session'[s] = session[s] /\ session[s].user # u
  BY <1>2 DEF SessionsOf, LiveSession
<1>8. RowsAdvance
  BY <1>2, <1>5, <1>7 DEF RowsAdvance
<1>9. CredentialsOwned'
  BY <1>0, <1>4, <1>6, <1>7 DEF CredentialsOwned, LiveSession, LiveUser
<1>d. PICK a \in Users \cup {None} : a = req[r].actor
  BY HandlerFields DEF AccountsInv, RowsTyped
<1>10. AuditBy(a) \in Handler /\ HandlerOK(AuditBy(a))'
  BY AuditHandler DEF HandlerOK
<1>11. UNCHANGED <<late, overlap>> /\ Goto(r, AuditBy(a))
  BY <1>d DEF DeleteUser, Acted
<1> QED BY <1>0, <1>2, <1>4, <1>6, <1>8, <1>9, <1>10, <1>11, BaseFrame DEF RowsTyped

\* An UPDATE of a users row keeps the row live.
LEMMA UpdateUserBase ==
  ASSUME AccountsInv, NEW r \in Requests, NEW h \in Handler, Goto(r, h), HandlerOK(h),
         user' \in [Users -> UserRow], \A v \in Users : user'[v].row = user[v].row,
         session' \in [Sessions -> SessionRow],
         \A s \in Sessions : session'[s].row = session[s].row /\ session'[s].user = session[s].user,
         UNCHANGED <<token, late, overlap>>
  PROVE  AccountsInv'
<1>1. RowsAdvance
  BY DEF RowsAdvance
<1>2. CredentialsOwned'
  BY DEF AccountsInv, CredentialsOwned, LiveSession, LiveUser
<1>3. HandlerOK(h)'
  BY RowFields DEF HandlerOK
<1> QED BY <1>1, <1>2, <1>3, BaseFrame DEF AccountsInv, RowsTyped

\* One field of the row of an account, if it is still there.
LEMMA UserWritten ==
  ASSUME RowsTyped, NEW u \in Users
  PROVE  /\ \A x \in Subjects : user' = [user EXCEPT ![u].subject = x] =>
              /\ user' \in [Users -> UserRow]
              /\ \A v \in Users : user'[v].row = user[v].row /\ user'[v].role = user[v].role /\ user'[v].pw = user[v].pw
         /\ \A role \in Role : user' = [user EXCEPT ![u].role = role] =>
              /\ user' \in [Users -> UserRow]
              /\ \A v \in Users : user'[v].row = user[v].row /\ user'[v].pw = user[v].pw
              /\ user'[u].role = role /\ \A v \in Users : v # u => user'[v] = user[v]
         /\ user[u].pw < MaxPasswords /\ user' = [user EXCEPT ![u].pw = @ + 1] =>
              /\ user' \in [Users -> UserRow]
              /\ \A v \in Users : user'[v].row = user[v].row /\ user'[v].role = user[v].role
              /\ user'[u].pw = user[u].pw + 1 /\ \A v \in Users : v # u => user'[v] = user[v]
<1>0. user \in [Users -> UserRow] /\ user[u] \in UserRow
  BY DEF RowsTyped
<1>1. \A x \in Subjects : [user[u] EXCEPT !.subject = x] \in UserRow
  BY <1>0 DEF UserRow
<1>2. \A role \in Role : [user[u] EXCEPT !.role = role] \in UserRow
  BY <1>0 DEF UserRow
<1>3. user[u].pw < MaxPasswords => [user[u] EXCEPT !.pw = @ + 1] \in UserRow
  BY <1>0, AccountsAssumption DEF UserRow, Passwords
<1>4. ASSUME NEW x \in Subjects, user' = [user EXCEPT ![u].subject = x]
      PROVE  /\ user' \in [Users -> UserRow]
             /\ \A v \in Users : user'[v].row = user[v].row /\ user'[v].role = user[v].role /\ user'[v].pw = user[v].pw
  BY <1>0, <1>1, <1>4 DEF UserRow
<1>5. ASSUME NEW role \in Role, user' = [user EXCEPT ![u].role = role]
      PROVE  /\ user' \in [Users -> UserRow]
             /\ \A v \in Users : user'[v].row = user[v].row /\ user'[v].pw = user[v].pw
             /\ user'[u].role = role /\ \A v \in Users : v # u => user'[v] = user[v]
  BY <1>0, <1>2, <1>5 DEF UserRow
<1>6. ASSUME user[u].pw < MaxPasswords, user' = [user EXCEPT ![u].pw = @ + 1]
      PROVE  /\ user' \in [Users -> UserRow]
             /\ \A v \in Users : user'[v].row = user[v].row /\ user'[v].role = user[v].role
             /\ user'[u].pw = user[u].pw + 1 /\ \A v \in Users : v # u => user'[v] = user[v]
  <2>1. user' \in [Users -> UserRow]
    BY <1>0, <1>3, <1>6
  <2> QED BY <1>0, <1>6, <2>1 DEF UserRow
<1> QED BY <1>4, <1>5, <1>6

\* What SetUserPassword does to the two rows it may write.
LEMMA PasswordWritten ==
  ASSUME AccountsInv, NEW r \in Requests, SetUserPassword(r)
  PROVE  /\ req[r].user \in Users
         /\ user' \in [Users -> UserRow]
         /\ \A v \in Users : user'[v].row = user[v].row /\ user'[v].role = user[v].role
         /\ \A v \in Users : v # req[r].user => user'[v] = user[v]
         /\ session' \in [Sessions -> SessionRow]
         /\ \A s \in Sessions : session'[s].row = session[s].row /\ session'[s].user = session[s].user
         /\ \A s \in Sessions : session'[s].pw = session[s].pw \/ session[s].user = req[r].user
         /\ req[r].pc = "setOwnPassword" /\ LiveSession(req[r].session) =>
              /\ session[req[r].session].user = req[r].user
              /\ session'[req[r].session].pw = user'[req[r].user].pw
<1> DEFINE u == req[r].user
           own == req[r].session
<1>0. RowsTyped /\ CredentialsOwned /\ HandlerOK(req[r]) /\ req[r] \in Handler
  BY DEF AccountsInv, RowsTyped
<1>1. u \in Users /\ user[u].pw \in Nat
  BY <1>0, RowFields, AccountsAssumption DEF SetUserPassword, HandlerOK, Passwords
<1>2. \/ user' = [user EXCEPT ![u].pw = @ + 1] /\ user[u].pw < MaxPasswords /\ LiveUser(u)
      \/ user' = user /\ ~LiveUser(u)
  BY DEF SetUserPassword
<1>3. /\ user' \in [Users -> UserRow]
      /\ \A v \in Users : user'[v].row = user[v].row /\ user'[v].role = user[v].role
      /\ LiveUser(u) => user'[u].pw = user[u].pw + 1
      /\ \A v \in Users : v # u => user'[v] = user[v]
  BY <1>0, <1>1, <1>2, UserWritten DEF RowsTyped
<1>4. CASE req[r].pc = "setOwnPassword" /\ LiveSession(own)
  <2>1. own \in Sessions /\ session[own].user = u /\ LiveUser(u)
    BY <1>0, <1>4 DEF HandlerOK, LiveSession, CredentialsOwned
  <2>2. session' = [session EXCEPT ![own].pw = user'[u].pw]
    BY <1>3, <1>4, <2>1 DEF SetUserPassword
  <2>3. user'[u].pw \in Passwords
    BY <1>1, <1>3 DEF UserRow
  <2>4. session \in [Sessions -> SessionRow] /\ session[own] \in SessionRow
    BY <1>0, <2>1 DEF RowsTyped
  <2>5. [session[own] EXCEPT !.pw = user'[u].pw] \in SessionRow
    BY <2>3, <2>4 DEF SessionRow
  <2> HIDE DEF own, u
  <2>6. session' \in [Sessions -> SessionRow]
    BY <2>1, <2>2, <2>4, <2>5
  <2>7. \A s \in Sessions : session'[s].row = session[s].row /\ session'[s].user = session[s].user
                            /\ (s # own => session'[s] = session[s])
    BY <2>1, <2>2, <2>4 DEF SessionRow
  <2>8. session'[own].pw = user'[u].pw
    BY <2>1, <2>2, <2>4 DEF SessionRow
  <2> QED BY <1>1, <1>3, <2>1, <2>6, <2>7, <2>8 DEF own, u
<1>5. CASE ~(req[r].pc = "setOwnPassword" /\ LiveSession(own))
  <2>1. session' = session
    BY <1>5 DEF SetUserPassword
  <2> QED BY <1>0, <1>1, <1>3, <1>5, <2>1 DEF RowsTyped
<1> QED BY <1>4, <1>5

LEMMA ContinueBase ==
  ASSUME AccountsInv, NEW r \in Requests, Continue(r)
  PROVE  AccountsInv'
<1>0. /\ RowsTyped /\ CredentialsOwned /\ HandlerOK(req[r]) /\ req[r] \in Handler
      /\ late \in SUBSET Sessions /\ overlap \in BOOLEAN
  BY DEF AccountsInv, RowsTyped
<1>g. ASSUME NEW h \in Handler, HandlerOK(h), Goto(r, h), UNCHANGED <<user, session, token, late>>,
             overlap' \in BOOLEAN
      PROVE  AccountsInv'
  BY <1>0, <1>g, GotoBase
<1>d. PICK a \in Users \cup {None} : a = req[r].actor
  BY <1>0, HandlerFields
<1>e. AuditBy(a) \in Handler /\ HandlerOK(AuditBy(a)) /\ HandlerOK(AuditBy(a))'
  BY AuditHandler DEF HandlerOK
<1>1. CASE CreateRefused(r) \/ InsertRefused(r) \/ DeleteRefused(r)
  BY <1>0, <1>1, <1>g, IdleHandler DEF CreateRefused, InsertRefused, DeleteRefused, Done
<1>a. CASE CreateAuditLog(r)
  <2> DEFINE h == [req[r] EXCEPT !.pc = "session"]
  <2>1. req[r].pc = "auditLogin" => h \in Handler /\ HandlerOK(h)
    BY <1>0 DEF Handler, HandlerOK
  <2>2. (req[r].pc = "auditLogin" /\ Goto(r, h)) \/ Goto(r, Idle)
    BY <1>a DEF CreateAuditLog, Done
  <2>3. UNCHANGED <<user, session, token, late, overlap>>
    BY <1>a DEF CreateAuditLog
  <2> HIDE DEF h
  <2> QED BY <1>0, <1>g, <2>1, <2>2, <2>3, IdleHandler
<1>b. CASE DeleteSession(r)
  <2> DEFINE gone == {req[r].session} \cap Sessions
  <2>1. RemoveSessions(gone) /\ gone \in SUBSET Sessions
    BY <1>b DEF DeleteSession, RemoveSessions
  <2> HIDE DEF gone
  <2>2. Goto(r, AuditBy(a)) /\ UNCHANGED <<user, token, late, overlap>>
    BY <1>d, <1>b DEF DeleteSession, Acted
  <2>3. /\ session' \in [Sessions -> SessionRow]
        /\ \A s \in Sessions : session'[s] = session[s] \/ session'[s].row = "deleted"
    BY <2>1, RemoveBase
  <2>4. RowsAdvance
    BY <2>2, <2>3 DEF RowsAdvance
  <2>5. CredentialsOwned'
    BY <1>0, <2>2, <2>3 DEF CredentialsOwned, LiveSession, LiveUser
  <2> QED BY <1>0, <1>d, <1>e, <2>2, <2>3, <2>4, <2>5, BaseFrame DEF RowsTyped
<1>c. ASSUME NEW t \in Tokens, DeleteAPIToken(r, t) PROVE AccountsInv'
  <2>1. UNCHANGED <<user, session, late, overlap>>
    BY <1>c DEF DeleteAPIToken
  <2>2. CASE Done(r) /\ UNCHANGED token
    BY <1>0, <1>g, <2>1, <2>2, IdleHandler DEF Done
  <2>3. CASE Acted(r) /\ token' = [token EXCEPT ![t] = NoToken("deleted")]
    <3>1. /\ token' \in [Tokens -> TokenRow]
          /\ \A k \in Tokens : token'[k].row = "live" => token'[k] = token[k]
      BY <1>0, <2>3 DEF RowsTyped, NoToken, TokenRow, RowState
    <3>2. CredentialsOwned'
      BY <1>0, <2>1, <3>1 DEF CredentialsOwned, LiveSession, LiveUser
    <3>3. RowsAdvance
      BY <2>1 DEF RowsAdvance
    <3> QED BY <1>0, <1>d, <1>e, <2>1, <2>3, <3>1, <3>2, <3>3, BaseFrame DEF RowsTyped, Acted
  <2> QED BY <1>c, <2>2, <2>3 DEF DeleteAPIToken
<1>2. CASE ResolveByName(r)
  <2>1. req[r].pc = "byName" /\ UNCHANGED <<user, session, token, late, overlap>>
    BY <1>2 DEF ResolveByName
  <2>2. ASSUME NEW u \in Users, user[u].row = "live",
               Goto(r, [req[r] EXCEPT !.pc = "link", !.user = u, !.pw = user[u].pw])
        PROVE  AccountsInv'
    <3> DEFINE h == [req[r] EXCEPT !.pc = "link", !.user = u, !.pw = user[u].pw]
    <3>1. h \in Handler /\ HandlerOK(h)
      BY <1>0, <2>1, <2>2, RowFields DEF Handler, HandlerOK
    <3> QED BY <1>0, <1>g, <2>1, <2>2, <3>1
  <2>3. CASE Goto(r, [req[r] EXCEPT !.pc = "createSSO"])
    <3> DEFINE h == [req[r] EXCEPT !.pc = "createSSO"]
    <3>1. h \in Handler /\ HandlerOK(h)
      BY <1>0, <2>1 DEF Handler, HandlerOK
    <3> QED BY <1>0, <1>g, <2>1, <2>3, <3>1
  <2>4. CASE Done(r)
    BY <1>0, <1>g, <2>1, <2>4, IdleHandler DEF Done
  <2> QED BY <1>2, <2>2, <2>3, <2>4 DEF ResolveByName, Named, LiveUser
<1>3. CASE LinkOIDCSubject(r)
  <2> DEFINE u == req[r].user
             h == LoginBy(u, req[r].pw)
  <2>1. /\ u \in Users /\ req[r].subject \in Subjects /\ h \in Handler /\ HandlerOK(h)
        /\ UNCHANGED <<session, token, late, overlap>>
    BY <1>0, <1>3, LoginHandler, HandlerFields DEF LinkOIDCSubject, HandlerOK
  <2>2. CASE Done(r) /\ UNCHANGED user
    BY <1>0, <1>g, <2>1, <2>2, IdleHandler DEF Done
  <2>3. CASE Goto(r, h) /\ user' = [user EXCEPT ![u].subject = req[r].subject]
    <3>1. /\ user' \in [Users -> UserRow]
          /\ \A v \in Users : user'[v].row = user[v].row
      BY <1>0, <2>1, <2>3, UserWritten
    <3> HIDE DEF h
    <3> QED BY <1>0, <2>1, <2>3, <3>1, UpdateUserBase DEF RowsTyped
  <2>4. CASE Goto(r, h) /\ user' = user
    <3> HIDE DEF h
    <3> QED BY <1>0, <1>g, <2>1, <2>4
  <2> QED BY <1>3, <2>2, <2>3, <2>4 DEF LinkOIDCSubject, SignedIn
<1>4. ASSUME NEW s \in Sessions, CreateSession(r, s) PROVE AccountsInv'
  <2> DEFINE u == req[r].user
             x == [row |-> "live", user |-> u, pw |-> req[r].pw]
  <2>1. /\ u \in Users /\ user[u].row = "live" /\ session[s].row = "unused"
        /\ session' = [session EXCEPT ![s] = x] /\ UNCHANGED <<user, token, overlap>>
        /\ Goto(r, Idle) /\ late' \in SUBSET Sessions
    BY <1>0, <1>4 DEF CreateSession, SessionKeyHolds, LiveUser, NextSession, Done
  <2>2. x \in SessionRow
    BY <1>0, <2>1, HandlerFields DEF SessionRow, RowState
  <2>3. /\ session' \in [Sessions -> SessionRow] /\ session'[s] = x
        /\ \A k \in Sessions : k # s => session'[k] = session[k]
    BY <1>0, <2>1, <2>2 DEF RowsTyped
  <2>4. RowsAdvance
    BY <2>1, <2>3 DEF RowsAdvance
  <2>5. CredentialsOwned'
    BY <1>0, <2>1, <2>3 DEF CredentialsOwned, LiveSession, LiveUser
  <2>6. HandlerOK(Idle)'
    BY DEF HandlerOK, Idle
  <2> QED BY <1>0, <2>1, <2>3, <2>4, <2>5, <2>6, IdleHandler, BaseFrame DEF RowsTyped
<1>5. CASE DeleteUserSessions(r)
  <2>1. /\ Revoked(r) \in SUBSET Sessions /\ RemoveSessions(Revoked(r))
        /\ Goto(r, AuditBy(a)) /\ UNCHANGED <<user, token, late, overlap>>
    BY <1>d, <1>5 DEF DeleteUserSessions, Revoked, SessionsOf, Acted
  <2>2. /\ session' \in [Sessions -> SessionRow]
        /\ \A s \in Sessions : session'[s] = session[s] \/ session'[s].row = "deleted"
    BY <2>1, RemoveBase
  <2>3. RowsAdvance
    BY <2>1, <2>2 DEF RowsAdvance
  <2>4. CredentialsOwned'
    BY <1>0, <2>1, <2>2 DEF CredentialsOwned, LiveSession, LiveUser
  <2> QED BY <1>0, <1>d, <1>e, <2>1, <2>2, <2>3, <2>4, BaseFrame DEF RowsTyped
<1>6. CASE SetUserPassword(r)
  <2> DEFINE h == [req[r] EXCEPT !.pc = AfterPassword(req[r].pc)]
  <2>1. h \in Handler /\ HandlerOK(h)
    BY <1>0 DEF Handler, HandlerOK, AfterPassword, Revoking
  <2>2. Goto(r, h) /\ UNCHANGED <<token, late, overlap>>
    BY <1>6 DEF SetUserPassword
  <2> HIDE DEF h
  <2> QED BY <1>0, <1>6, <2>1, <2>2, PasswordWritten, UpdateUserBase
<1>7. CASE CheckLastAdmin(r)
  <2> DEFINE h == [req[r] EXCEPT !.pc = "write"]
  <2>1. h \in Handler /\ HandlerOK(h)
    BY <1>0, <1>7 DEF Handler, HandlerOK, CheckLastAdmin
  <2>2. Goto(r, h) \/ Goto(r, Idle)
    BY <1>7 DEF CheckLastAdmin, Done
  <2>3. overlap' \in BOOLEAN /\ UNCHANGED <<user, session, token, late>>
    BY <1>0, <1>7 DEF CheckLastAdmin
  <2> HIDE DEF h
  <2> QED BY <1>g, <2>1, <2>2, <2>3, IdleHandler
<1>8. CASE SetUserRole(r)
  <2> DEFINE u == req[r].user
  <2>1. /\ u \in Users /\ req[r].role \in Role /\ Goto(r, AuditBy(a))
        /\ UNCHANGED <<session, token, late, overlap>>
    BY <1>0, <1>8, <1>d, HandlerFields DEF SetUserRole, HandlerOK, Acted
  <2>2. user' = [user EXCEPT ![u].role = req[r].role] \/ user' = user
    BY <1>8 DEF SetUserRole
  <2>3. /\ user' \in [Users -> UserRow]
        /\ \A v \in Users : user'[v].row = user[v].row
    BY <1>0, <2>1, <2>2, UserWritten DEF RowsTyped
  <2> QED BY <1>0, <1>e, <2>1, <2>3, UpdateUserBase DEF RowsTyped
<1>9. ASSUME NEW t \in Tokens, CreateAPIToken(r, t) PROVE AccountsInv'
  <2> DEFINE x == [row |-> "live", user |-> req[r].user]
  <2>1. /\ LiveUser(req[r].user) /\ token' = [token EXCEPT ![t] = x] /\ Goto(r, AuditBy(a))
        /\ UNCHANGED <<user, session, late, overlap>>
    BY <1>d, <1>9 DEF CreateAPIToken, SessionKeyHolds, Acted
  <2>2. x \in TokenRow
    BY <2>1 DEF LiveUser, TokenRow, RowState
  <2>3. /\ token' \in [Tokens -> TokenRow] /\ token'[t] = x
        /\ \A k \in Tokens : k # t => token'[k] = token[k]
    BY <1>0, <2>1, <2>2 DEF RowsTyped
  <2>4. RowsAdvance
    BY <2>1 DEF RowsAdvance
  <2>5. CredentialsOwned'
    BY <1>0, <2>1, <2>3 DEF CredentialsOwned, LiveSession, LiveUser
  <2> QED BY <1>0, <1>d, <1>e, <2>1, <2>3, <2>4, <2>5, BaseFrame DEF RowsTyped
<1> QED BY <1>1, <1>2, <1>3, <1>4, <1>5, <1>6, <1>7, <1>8, <1>9, <1>a, <1>b, <1>c, CreateBase, DeleteUserBase
        DEF Continue

\* Failed statements, crashes, sessions that expire and audited requests elsewhere.
LEMMA OtherBase ==
  ASSUME AccountsInv,
         \/ \E r \in Requests : StatementFails(r)
         \/ \E s \in Sessions : SessionExpires(s)
         \/ \E u \in Users : ActsElsewhere(u)
         \/ Crash
         \/ UNCHANGED vars
  PROVE  AccountsInv'
<1>0. RowsTyped /\ CredentialsOwned /\ \A r \in Requests : HandlerOK(req[r])
  BY DEF AccountsInv
<1>1. ASSUME NEW r \in Requests, StatementFails(r) PROVE AccountsInv'
  <2>1. late' \in SUBSET Sessions
    BY <1>0, <1>1 DEF StatementFails, RowsTyped, Outdated
  <2> DEFINE h == [req[r] EXCEPT !.pc = "session"]
  <2>2. /\ UNCHANGED <<user, session, token, overlap>>
        /\ (req[r].pc = "auditLogin" /\ Goto(r, h)) \/ Goto(r, AuditBy(req[r].actor)) \/ Goto(r, Idle)
    BY <1>1 DEF StatementFails, Acted, Done
  <2>3. /\ req[r].pc = "auditLogin" => h \in Handler /\ HandlerOK(h)
        /\ AuditBy(req[r].actor) \in Handler /\ HandlerOK(AuditBy(req[r].actor))
    <3>1. req[r] \in Handler /\ HandlerOK(req[r])
      BY <1>0 DEF RowsTyped
    <3>2. req[r].pc = "auditLogin" => h \in Handler /\ HandlerOK(h)
      BY <3>1 DEF Handler, HandlerOK
    <3> QED BY <3>1, <3>2, HandlerFields, AuditHandler
  <2> HIDE DEF h
  <2> QED BY <1>0, <2>1, <2>2, <2>3, GotoBase, IdleHandler DEF RowsTyped
<1>2. CASE Crash
  <2>1. late' \in SUBSET Sessions /\ req' \in [Requests -> Handler] /\ \A r \in Requests : req'[r] = Idle
    BY <1>0, <1>2, IdleHandler DEF Crash, RowsTyped, Outdated
  <2>2. \A r \in Requests : HandlerOK(req[r])'
    BY <2>1 DEF HandlerOK, Idle
  <2>3. UNCHANGED <<user, session, token, overlap>>
    BY <1>2 DEF Crash
  <2> QED BY <1>0, <2>1, <2>2, <2>3 DEF AccountsInv, RowsTyped, CredentialsOwned, LiveSession, LiveUser
<1>3. ASSUME NEW s \in Sessions, SessionExpires(s) PROVE AccountsInv'
  <2>1. RemoveSessions({s}) /\ UNCHANGED <<user, token, req, late, overlap>> /\ LiveSession(s)
    BY <1>3 DEF SessionExpires
  <2>2. /\ session' \in [Sessions -> SessionRow]
        /\ \A k \in Sessions : session'[k] = session[k] \/ session'[k].row = "deleted"
    BY <2>1, RemoveBase
  <2>3. CredentialsOwned'
    BY <1>0, <2>1, <2>2 DEF CredentialsOwned, LiveSession, LiveUser
  <2>4. \A r \in Requests : HandlerOK(req[r])'
    BY <1>0, <2>1, <2>2 DEF HandlerOK
  <2> QED BY <1>0, <2>1, <2>2, <2>3, <2>4 DEF AccountsInv, RowsTyped
<1>4. ASSUME NEW u \in Users, ActsElsewhere(u) PROVE AccountsInv'
  BY <1>0, <1>4 DEF ActsElsewhere, AccountsInv, RowsTyped, HandlerOK, CredentialsOwned, LiveSession, LiveUser
<1>5. CASE UNCHANGED vars
  BY <1>0, <1>5 DEF vars, AccountsInv, RowsTyped, HandlerOK, CredentialsOwned, LiveSession, LiveUser
<1> QED BY <1>1, <1>2, <1>3, <1>4, <1>5

LEMMA NextBase == AccountsInv /\ [Next]_vars => AccountsInv'
BY EnterBase, ContinueBase, OtherBase DEF Next

LEMMA InitBase == Init => AccountsInv
<1> SUFFICES ASSUME Init PROVE AccountsInv
  OBVIOUS
<1>1. NoUser("unused") \in UserRow /\ NoSession("unused") \in SessionRow /\ NoToken("unused") \in TokenRow
  BY AccountsAssumption DEF NoUser, NoSession, NoToken, UserRow, SessionRow, TokenRow, RowState, Role, Passwords
<1>2. RowsTyped
  BY <1>1, IdleHandler DEF Init, RowsTyped
<1>3. \A r \in Requests : HandlerOK(req[r])
  BY IdleHandler DEF Init
<1>4. CredentialsOwned
  BY DEF Init, CredentialsOwned, LiveSession, NoSession, NoToken
<1> QED BY <1>2, <1>3, <1>4 DEF AccountsInv

\* Whatever deletes an account while a sign-in or a token request is under way, no
\* session and no API token that would be accepted is left without its account.
THEOREM CredentialsStayOwned == Spec => []CredentialsOwned
<1>1. AccountsInv => CredentialsOwned
  BY DEF AccountsInv
<1> QED BY <1>1, InitBase, NextBase, PTL DEF Spec

-----------------------------------------------------------------------------
(* Sessions opened before a password was set                               *)

\* Whoever is about to delete sessions goes on to do so, and no session falls
\* behind its account's password.
LEMMA OldFrame ==
  ASSUME OldSessionsEnd, late \subseteq late',
         \A s \in Sessions : session'[s].row = "live" =>
           /\ session[s].row = "live" /\ session'[s].user = session[s].user
           /\ session'[s].pw = session[s].pw
           /\ user'[session[s].user].pw = user[session[s].user].pw,
         \A r \in Requests : req[r].pc \in Revoking => req'[r] = req[r]
  PROVE  OldSessionsEnd'
<1> SUFFICES ASSUME NEW s \in Sessions, s \in Outdated', s \notin late'
             PROVE  \E r \in Requests : req'[r].pc \in Revoking /\ s \in Revoked(r)'
  BY DEF OldSessionsEnd, Outdated
<1>1. s \in Outdated /\ session'[s].row = "live"
  BY DEF Outdated, LiveSession
<1>2. PICK r \in Requests : req[r].pc \in Revoking /\ s \in Revoked(r)
  BY <1>1 DEF OldSessionsEnd
<1>3. s \in Revoked(r)'
  BY <1>1, <1>2 DEF Revoked, SessionsOf, LiveSession
<1> QED BY <1>2, <1>3

\* A request that ends or goes on, other than by a DELETE of sessions.
LEMMA OldGoto ==
  ASSUME AccountsInv, OldSessionsEnd, NEW r \in Requests, NEW h, Goto(r, h), UNCHANGED <<session, late>>,
         req[r].pc \notin Revoking,
         \A u \in Users : user[u].row = "live" => user'[u].pw = user[u].pw
  PROVE  OldSessionsEnd'
<1>1. \A k \in Requests : k # r => req'[k] = req[k]
  BY DEF Goto, AccountsInv, RowsTyped
<1>2. \A s \in Sessions : session[s].row = "live" =>
        user'[session[s].user].pw = user[session[s].user].pw
  BY DEF AccountsInv, CredentialsOwned, LiveSession, LiveUser
<1> QED BY <1>1, <1>2, OldFrame

LEMMA OldPassword ==
  ASSUME AccountsInv, OldSessionsEnd, NEW r \in Requests, SetUserPassword(r)
  PROVE  OldSessionsEnd'
<1> DEFINE u == req[r].user
           own == req[r].session
<1>0. /\ req \in [Requests -> Handler] /\ req[r] \in Handler /\ RowsTyped /\ CredentialsOwned
  BY DEF AccountsInv, RowsTyped
<1>1. /\ req[r].pc \in {"setPassword", "setOwnPassword"} /\ UNCHANGED late
      /\ req' = [req EXCEPT ![r] = [req[r] EXCEPT !.pc = AfterPassword(req[r].pc)]]
  BY DEF SetUserPassword, Goto
<1>2. /\ req'[r].user = u /\ req'[r].session = own
      /\ req[r].pc = "setOwnPassword" => req'[r].pc = "endOthers"
      /\ req[r].pc = "setPassword" => req'[r].pc = "endAll"
      /\ \A k \in Requests : k # r => req'[k] = req[k]
  BY <1>0, <1>1 DEF AfterPassword, Handler
<1>3. /\ \A v \in Users : v # u => user'[v] = user[v]
      /\ \A s \in Sessions : session'[s].row = session[s].row /\ session'[s].user = session[s].user
      /\ \A s \in Sessions : session'[s].pw = session[s].pw \/ session[s].user = u
      /\ req[r].pc = "setOwnPassword" /\ LiveSession(own) =>
           session[own].user = u /\ session'[own].pw = user'[u].pw
  BY PasswordWritten
<1> HIDE DEF u, own
<1> SUFFICES ASSUME NEW s \in Sessions, s \in Outdated', s \notin late'
             PROVE  \E k \in Requests : req'[k].pc \in Revoking /\ s \in Revoked(k)'
  BY DEF OldSessionsEnd, Outdated
<1>4. LiveSession(s) /\ LiveSession(s)' /\ session[s].user \in Users
  BY <1>0, <1>3 DEF Outdated, LiveSession, CredentialsOwned, LiveUser
<1>5. CASE session[s].user = u
  <2>1. req[r].pc = "setOwnPassword" => s # own
    BY <1>3, <1>4, <1>5 DEF Outdated
  <2>2. s \in Revoked(r)' /\ req'[r].pc \in Revoking
    BY <1>1, <1>2, <1>3, <1>4, <1>5, <2>1 DEF Revoked, SessionsOf, Revoking
  <2> QED BY <2>2
<1>6. CASE session[s].user # u
  <2>1. s \in Outdated
    BY <1>3, <1>4, <1>6 DEF Outdated
  <2>2. PICK k \in Requests : req[k].pc \in Revoking /\ s \in Revoked(k)
    BY <1>1, <2>1 DEF OldSessionsEnd
  <2>3. k # r
    BY <1>1, <2>2 DEF Revoking
  <2>4. s \in Revoked(k)'
    BY <1>2, <1>3, <1>4, <2>2, <2>3 DEF Revoked, SessionsOf
  <2> QED BY <1>2, <2>2, <2>3, <2>4
<1> QED BY <1>5, <1>6

LEMMA OldCreateSession ==
  ASSUME AccountsInv, OldSessionsEnd, NEW r \in Requests, NEW s \in Sessions, CreateSession(r, s)
  PROVE  OldSessionsEnd'
<1> DEFINE u == req[r].user
<1>0. req \in [Requests -> Handler] /\ session \in [Sessions -> SessionRow]
  BY DEF AccountsInv, RowsTyped
<1>1. /\ UNCHANGED user /\ session[s].row = "unused" /\ req[r].pc = "session"
      /\ session'[s].user = u /\ session'[s].pw = req[r].pw
      /\ \A k \in Sessions : k # s => session'[k] = session[k]
      /\ \A k \in Requests : k # r => req'[k] = req[k]
      /\ late \subseteq late' /\ (req[r].pw # user[u].pw => s \in late')
  BY <1>0 DEF CreateSession, NextSession, Done, Goto
<1> HIDE DEF u
<1> SUFFICES ASSUME NEW t \in Sessions, t \in Outdated', t \notin late'
             PROVE  \E k \in Requests : req'[k].pc \in Revoking /\ t \in Revoked(k)'
  BY DEF OldSessionsEnd, Outdated
<1>2. t # s
  BY <1>1 DEF Outdated
<1>3. t \in Outdated
  BY <1>1, <1>2 DEF Outdated, LiveSession
<1>4. PICK k \in Requests : req[k].pc \in Revoking /\ t \in Revoked(k)
  BY <1>1, <1>3 DEF OldSessionsEnd
<1>5. k # r
  BY <1>1, <1>4 DEF Revoking
<1>6. t \in Revoked(k)'
  BY <1>1, <1>2, <1>4, <1>5 DEF Revoked, SessionsOf, LiveSession
<1> QED BY <1>1, <1>4, <1>5, <1>6

\* The DELETE of sessions, or its failure, settles the sessions it was to delete.
LEMMA OldRevoke ==
  ASSUME AccountsInv, OldSessionsEnd, NEW r \in Requests, DeleteUserSessions(r) \/ StatementFails(r)
  PROVE  OldSessionsEnd'
<1>0. req \in [Requests -> Handler]
  BY DEF AccountsInv, RowsTyped
<1>1. /\ UNCHANGED user /\ late \subseteq late' /\ \A k \in Requests : k # r => req'[k] = req[k]
  BY <1>0 DEF DeleteUserSessions, StatementFails, Acted, Done, Goto
<1>2. \A s \in Sessions : session'[s].row = "live" => session'[s] = session[s]
  <2>1. Revoked(r) \in SUBSET Sessions
    BY DEF Revoked, SessionsOf
  <2>2. CASE DeleteUserSessions(r)
    BY <2>1, <2>2, RemoveBase DEF DeleteUserSessions
  <2> QED BY <2>2 DEF StatementFails
<1>3. ASSUME req[r].pc \in Revoking, NEW s \in Sessions, s \in Revoked(r), s \in Outdated
      PROVE  s \in late' \/ session'[s].row # "live"
  <2>1. CASE DeleteUserSessions(r)
    <3>1. Revoked(r) \in SUBSET Sessions
      BY DEF Revoked, SessionsOf
    <3> QED BY <1>3, <2>1, <3>1, RemoveBase DEF DeleteUserSessions
  <2>2. CASE StatementFails(r)
    <3>1. s \in SessionsOf(req[r].user)
      BY <1>3 DEF Revoked
    <3> QED BY <1>3, <2>2, <3>1 DEF StatementFails
  <2> QED BY <2>1, <2>2
<1> SUFFICES ASSUME NEW s \in Sessions, s \in Outdated', s \notin late'
             PROVE  \E k \in Requests : req'[k].pc \in Revoking /\ s \in Revoked(k)'
  BY DEF OldSessionsEnd, Outdated
<1>4. s \in Outdated /\ session'[s].row = "live"
  BY <1>1, <1>2 DEF Outdated, LiveSession
<1>5. PICK k \in Requests : req[k].pc \in Revoking /\ s \in Revoked(k)
  BY <1>1, <1>4 DEF OldSessionsEnd
<1>6. k # r
  BY <1>3, <1>4, <1>5
<1>7. s \in Revoked(k)'
  BY <1>1, <1>2, <1>4, <1>5, <1>6 DEF Revoked, SessionsOf, LiveSession
<1> QED BY <1>1, <1>5, <1>6, <1>7

LEMMA NextOld == AccountsInv /\ OldSessionsEnd /\ [Next]_vars => OldSessionsEnd'
<1> SUFFICES ASSUME AccountsInv, OldSessionsEnd, [Next]_vars PROVE OldSessionsEnd'
  OBVIOUS
<1>0. RowsTyped /\ CredentialsOwned
  BY DEF AccountsInv
<1>1. ASSUME NEW r \in Requests, Enter(r) PROVE OldSessionsEnd'
  <2>1. \E h : Goto(r, h)
    BY <1>1 DEF Enter, BootstrapSubmit, LoginSubmit, OIDCCallback, Logout, LogoutEverywhere, ChangePassword, UserCreate,
         ManageUser, UserResetPassword, AccountTokenCreate, AccountTokenDelete, SignedIn
  <2>2. req[r].pc \notin Revoking
    BY <1>1, EnterBase DEF Revoking
  <2> QED BY <1>1, <2>1, <2>2, EnterBase, OldGoto
<1>2. ASSUME NEW r \in Requests,
             \/ \E u \in Users : CreateAdmin(r, u) \/ CreateSSOUser(r, u) \/ CreateUser(r, u)
             \/ ResolveByName(r) \/ CreateRefused(r) \/ InsertRefused(r) \/ CheckLastAdmin(r)
             \/ LinkOIDCSubject(r) \/ SetUserRole(r) \/ DeleteRefused(r) \/ CreateAuditLog(r)
             \/ \E t \in Tokens : CreateAPIToken(r, t) \/ DeleteAPIToken(r, t)
      PROVE  OldSessionsEnd'
  <2>1. \E h : Goto(r, h)
    BY <1>2 DEF CreateAdmin, CreateSSOUser, CreateUser, ResolveByName, CreateRefused, InsertRefused,
         CheckLastAdmin, LinkOIDCSubject, SetUserRole, DeleteRefused, CreateAuditLog, CreateAPIToken,
         DeleteAPIToken, Done, Acted, SignedIn
  <2>2. UNCHANGED <<session, late>> /\ req[r].pc \notin Revoking
    BY <1>2 DEF CreateAdmin, CreateSSOUser, CreateUser, ResolveByName, CreateRefused, InsertRefused,
         CheckLastAdmin, LinkOIDCSubject, SetUserRole, DeleteRefused, CreateAuditLog, CreateAPIToken,
         DeleteAPIToken, Revoking
  <2>3. \A u \in Users : user[u].row = "live" => user'[u].pw = user[u].pw
    <3>1. CASE UNCHANGED user
      BY <3>1
    <3>2. CASE \E u \in Users : CreateAdmin(r, u) \/ CreateSSOUser(r, u) \/ CreateUser(r, u)
      BY <1>0, <3>2 DEF CreateAdmin, CreateSSOUser, CreateUser, NextUser, RowsTyped
    <3>3. CASE LinkOIDCSubject(r) \/ SetUserRole(r)
      <4>1. \/ UNCHANGED user
            \/ \E u \in Users : \E x : user' = [user EXCEPT ![u].subject = x]
            \/ \E u \in Users : \E x : user' = [user EXCEPT ![u].role = x]
        BY <3>3 DEF LinkOIDCSubject, SetUserRole, LiveUser
      <4>2. user \in [Users -> UserRow]
        BY <1>0 DEF RowsTyped
      <4> QED BY <4>1, <4>2 DEF UserRow
    <3> QED BY <1>2, <3>1, <3>2, <3>3 DEF ResolveByName, CreateRefused, InsertRefused,
         CheckLastAdmin, DeleteRefused, CreateAuditLog, CreateAPIToken, DeleteAPIToken
  <2> QED BY <2>1, <2>2, <2>3, OldGoto
<1>3. ASSUME NEW r \in Requests, DeleteUser(r) PROVE OldSessionsEnd'
  <2> DEFINE u == req[r].user
  <2>1. /\ RemoveSessions(SessionsOf(u)) /\ SessionsOf(u) \in SUBSET Sessions /\ UNCHANGED late
        /\ req[r].pc = "write" /\ \A k \in Requests : k # r => req'[k] = req[k]
    BY <1>0, <1>3 DEF DeleteUser, SessionsOf, Acted, Goto, RowsTyped
  <2>2. \A v \in Users : v # u => user'[v] = user[v]
    BY <1>0, <1>3 DEF DeleteUser, RowsTyped
  <2> HIDE DEF u
  <2>3. \A s \in Sessions : session'[s].row = "live" =>
          session'[s] = session[s] /\ session[s].user # u /\ session[s].user \in Users
    BY <1>0, <2>1, RemoveBase DEF SessionsOf, LiveSession, CredentialsOwned, LiveUser
  <2>4. \A k \in Requests : req[k].pc \in Revoking => req'[k] = req[k]
    BY <2>1 DEF Revoking
  <2> QED BY <2>1, <2>2, <2>3, <2>4, OldFrame
<1>d. ASSUME NEW r \in Requests, DeleteSession(r) PROVE OldSessionsEnd'
  <2> DEFINE gone == {req[r].session} \cap Sessions
  <2>1. RemoveSessions(gone) /\ gone \in SUBSET Sessions /\ UNCHANGED <<user, late>>
    BY <1>d DEF DeleteSession, RemoveSessions
  <2> HIDE DEF gone
  <2>2. \A s \in Sessions : session'[s].row = "live" => session'[s] = session[s]
    BY <2>1, RemoveBase
  <2>3. \A k \in Requests : req[k].pc \in Revoking => req'[k] = req[k]
    BY <1>0, <1>d DEF DeleteSession, Acted, Goto, Revoking, RowsTyped
  <2> QED BY <2>1, <2>2, <2>3, OldFrame
<1>4. ASSUME NEW r \in Requests, Continue(r) \/ StatementFails(r) PROVE OldSessionsEnd'
  BY <1>2, <1>3, <1>4, <1>d, OldPassword, OldCreateSession, OldRevoke DEF Continue
<1>5. ASSUME NEW s \in Sessions, SessionExpires(s) PROVE OldSessionsEnd'
  <2>1. RemoveSessions({s}) /\ UNCHANGED <<user, req, late>>
    BY <1>5 DEF SessionExpires
  <2>2. \A k \in Sessions : session'[k].row = "live" => session'[k] = session[k]
    BY <2>1, RemoveBase
  <2> QED BY <2>1, <2>2, OldFrame
<1>6. ASSUME NEW u \in Users, ActsElsewhere(u) PROVE OldSessionsEnd'
  BY <1>6, OldFrame DEF ActsElsewhere
<1>7. CASE Crash
  BY <1>7 DEF Crash, OldSessionsEnd, Outdated, LiveSession
<1>8. CASE UNCHANGED vars
  BY <1>8, OldFrame DEF vars
<1> QED BY <1>1, <1>4, <1>5, <1>6, <1>7, <1>8 DEF Next

\* A session opened with an older password is gone, about to be deleted by the
\* request that set the new one, or one of the exceptions late keeps.
THEOREM PasswordsEndSessions == Spec => []OldSessionsEnd
<1>1. Init => OldSessionsEnd
  BY DEF Init, OldSessionsEnd, Outdated, LiveSession, NoSession
<1> QED BY <1>1, InitBase, NextBase, NextOld, PTL DEF Spec

-----------------------------------------------------------------------------
(* The last admin                                                          *)

\* As long as no two removals overlapped, some admin is the target of none that is
\* about to be written; and nobody manages accounts before the first admin exists.
AdminInv ==
  ~overlap =>
    /\ Admins # {} => \E a \in Admins : \A r \in Requests : AboutToRemove(r) => req[r].user # a
    /\ Admins = {} => \A r \in Requests : req[r].pc \notin {"count", "write"}

LEMMA AdminFrame ==
  ASSUME AdminInv, Admins' = Admins, overlap' = overlap,
         \A r \in Requests : req'[r].pc \in {"count", "write"} => req'[r] = req[r]
  PROVE  AdminInv'
BY DEF AdminInv, AboutToRemove

\* One admin more, not the target of any request, keeps the invariant.
LEMMA AdminAdded ==
  ASSUME AdminInv, UNCHANGED overlap, NEW a,
         Admins' = Admins \/ (a \in Admins' /\ Admins \subseteq Admins'),
         \A r \in Requests : req'[r].pc \in {"count", "write"} => req'[r] = req[r] /\ req[r].user # a
  PROVE  AdminInv'
<1>1. CASE Admins' = Admins
  BY <1>1, AdminFrame
<1>2. CASE a \in Admins' /\ Admins \subseteq Admins'
  BY <1>2 DEF AdminInv, AboutToRemove
<1> QED BY <1>1, <1>2

\* More than one admin: besides any account there is another.
LEMMA AnotherAdmin == ASSUME NEW x, ~isLastAdmin PROVE \E a \in Admins : a # x
<1>1. SUFFICES ASSUME Admins \subseteq {x} PROVE isLastAdmin
  OBVIOUS
<1>2. IsFiniteSet({x}) /\ Cardinality({x}) = 1
  BY FS_Singleton
<1>3. Cardinality(Admins) <= Cardinality({x})
  BY <1>1, <1>2, FS_Subset
<1> QED BY <1>2, <1>3 DEF isLastAdmin

\* Only userSetRole and userDelete lead to the last-admin check or to a write.
LEMMA EnterKinds ==
  ASSUME NEW r \in Requests, Enter(r)
  PROVE  \/ \E h : Goto(r, h) /\ h.pc \notin {"count", "write"}
         \/ \E s \in Sessions, u \in Users, role \in Role \cup {"deleted"} : ManageUser(r, s, u, role)
<1> DEFINE Kind == \E h : Goto(r, h) /\ h.pc \notin {"count", "write"}
<1>1. ASSUME NEW n, Goto(r, [Idle EXCEPT !.pc = "bootstrap", !.name = n]) PROVE Kind
  <2>1. [Idle EXCEPT !.pc = "bootstrap", !.name = n].pc = "bootstrap"
    BY DEF Idle
  <2> QED BY <1>1, <2>1
<1>2. ASSUME NEW u, NEW pw, SignedIn(r, u, pw) PROVE Kind
  <2>1. LoginBy(u, pw).pc = "auditLogin"
    BY DEF LoginBy, Idle
  <2> QED BY <1>2, <2>1 DEF SignedIn
<1>3. ASSUME NEW x, Goto(r, [Idle EXCEPT !.pc = "byName", !.subject = x]) PROVE Kind
  <2>1. [Idle EXCEPT !.pc = "byName", !.subject = x].pc = "byName"
    BY DEF Idle
  <2> QED BY <1>3, <2>1
<1>4. ASSUME NEW pc \in {"revokeAll", "revokeOthers", "setOwnPassword"}, NEW u, NEW a, NEW s,
             Goto(r, [Idle EXCEPT !.pc = pc, !.user = u, !.actor = a, !.session = s])
      PROVE  Kind
  <2>1. [Idle EXCEPT !.pc = pc, !.user = u, !.actor = a, !.session = s].pc = pc
    BY DEF Idle
  <2> QED BY <1>4, <2>1
<1>5. ASSUME NEW n, NEW a, NEW role, Goto(r, [Idle EXCEPT !.pc = "createUser", !.actor = a, !.name = n, !.role = role])
      PROVE  Kind
  <2>1. [Idle EXCEPT !.pc = "createUser", !.actor = a, !.name = n, !.role = role].pc = "createUser"
    BY DEF Idle
  <2> QED BY <1>5, <2>1
<1>6. ASSUME NEW pc \in {"setPassword", "token"}, NEW u, NEW a, Goto(r, [Idle EXCEPT !.pc = pc, !.user = u, !.actor = a])
      PROVE  Kind
  <2>1. [Idle EXCEPT !.pc = pc, !.user = u, !.actor = a].pc = pc
    BY DEF Idle
  <2> QED BY <1>6, <2>1
<1>7. ASSUME NEW a, NEW s, Goto(r, [Idle EXCEPT !.pc = "logout", !.actor = a, !.session = s]) PROVE Kind
  <2>1. [Idle EXCEPT !.pc = "logout", !.actor = a, !.session = s].pc = "logout"
    BY DEF Idle
  <2> QED BY <1>7, <2>1
<1>8. ASSUME NEW a, Goto(r, [Idle EXCEPT !.pc = "tokenDelete", !.actor = a]) PROVE Kind
  <2>1. [Idle EXCEPT !.pc = "tokenDelete", !.actor = a].pc = "tokenDelete"
    BY DEF Idle
  <2> QED BY <1>8, <2>1
<1> HIDE DEF Kind
<1>9. CASE (\E n \in Names : BootstrapSubmit(r, n)) \/ (\E u \in Users : LoginSubmit(r, u))
           \/ (\E x \in Subjects : OIDCCallback(r, x))
  <2>1. Kind
    BY <1>1, <1>2, <1>3, <1>9 DEF BootstrapSubmit, LoginSubmit, OIDCCallback
  <2> QED BY <2>1 DEF Kind
<1>10. ASSUME NEW s \in Sessions, \/ Logout(r, s) \/ ChangePassword(r, s) \/ AccountTokenCreate(r, s)
                                  \/ AccountTokenDelete(r, s)
                                  \/ \E pc \in {"revokeAll", "revokeOthers"} : LogoutEverywhere(r, s, pc)
       PROVE  Kind
  BY <1>4, <1>6, <1>7, <1>8, <1>10
     DEF Logout, ChangePassword, AccountTokenCreate, AccountTokenDelete, LogoutEverywhere
<1>11. ASSUME NEW s \in Sessions, \/ \E n \in Names, role \in Role : UserCreate(r, s, n, role)
                                  \/ \E u \in Users : UserResetPassword(r, s, u)
       PROVE  Kind
  BY <1>5, <1>6, <1>11 DEF UserCreate, UserResetPassword
<1>12. Kind \/ \E s \in Sessions, u \in Users, role \in Role \cup {"deleted"} : ManageUser(r, s, u, role)
  BY <1>9, <1>10, <1>11 DEF Enter, Kind
<1> QED BY <1>12 DEF Kind

LEMMA NextAdmin == AccountsInv /\ AdminInv /\ [Next]_vars => AdminInv' /\ (Admins # {} => Admins' # {} \/ overlap)
<1> SUFFICES ASSUME AccountsInv, AdminInv, [Next]_vars
             PROVE  AdminInv' /\ (Admins # {} => Admins' # {} \/ overlap)
  OBVIOUS
<1>0. RowsTyped /\ CredentialsOwned /\ req \in [Requests -> Handler] /\ user \in [Users -> UserRow]
      /\ \A r \in Requests : HandlerOK(req[r])
  BY DEF AccountsInv, RowsTyped
<1>a. ASSUME \A u \in Users : user'[u].row = user[u].row /\ user'[u].role = user[u].role
      PROVE  Admins' = Admins
  BY <1>a DEF Admins, LiveUser
<1>g. ASSUME NEW r \in Requests, NEW h, Goto(r, h)
      PROVE  req'[r] = h /\ \A k \in Requests : k # r => req'[k] = req[k]
  BY <1>0, <1>g DEF Goto
<1>f. ASSUME NEW r \in Requests, NEW h, Goto(r, h), h.pc \notin {"count", "write"}, Admins' = Admins, UNCHANGED overlap
      PROVE  AdminInv' /\ (Admins # {} => Admins' # {} \/ overlap)
  BY <1>f, <1>g, AdminFrame
<1>1. ASSUME NEW r \in Requests, Enter(r) PROVE AdminInv' /\ (Admins # {} => Admins' # {} \/ overlap)
  <2>1. Admins' = Admins /\ UNCHANGED <<user, overlap>>
    BY <1>1, <1>a, EnterBase
  <2>2. ASSUME NEW s \in Sessions, NEW u \in Users, NEW role \in Role \cup {"deleted"}, ManageUser(r, s, u, role)
        PROVE  AdminInv'
    <3> DEFINE h == [Idle EXCEPT !.pc = IF Guarded(u, role) THEN "count" ELSE "write", !.user = u,
                                 !.actor = session[s].user, !.role = role]
    <3>1. /\ h.pc = IF Guarded(u, role) THEN "count" ELSE "write"
          /\ h.user = u /\ h.role = role
      BY DEF Idle
    <3> HIDE DEF h
    <3>2. Goto(r, h) /\ Admins # {}
      BY <2>2 DEF ManageUser, AdminSession, h
    <3>3. req'[r] = h /\ \A k \in Requests : k # r => req'[k] = req[k]
      BY <1>g, <3>2
    <3>4. h.pc = "write" /\ h.role # "admin" => u \notin Admins
      BY <3>1 DEF Guarded, Admins
    <3> QED BY <2>1, <3>1, <3>2, <3>3, <3>4 DEF AdminInv, AboutToRemove
  <2>3. CASE \E h : Goto(r, h) /\ h.pc \notin {"count", "write"}
    BY <1>f, <2>1, <2>3
  <2> QED BY <1>1, <2>1, <2>2, <2>3, EnterKinds
<1>2. ASSUME NEW r \in Requests, ResolveByName(r) \/ CreateRefused(r) \/ InsertRefused(r) \/ DeleteUserSessions(r)
                 \/ (\E s \in Sessions : CreateSession(r, s)) \/ (\E t \in Tokens : CreateAPIToken(r, t))
                 \/ StatementFails(r) \/ LinkOIDCSubject(r) \/ SetUserPassword(r) \/ DeleteRefused(r)
                 \/ CreateAuditLog(r) \/ DeleteSession(r) \/ (\E t \in Tokens : DeleteAPIToken(r, t))
      PROVE  AdminInv' /\ (Admins # {} => Admins' # {} \/ overlap)
  <2>1. Admins' = Admins
    <3>1. CASE LinkOIDCSubject(r)
      <4>1. UNCHANGED user \/ \E u \in Users : \E x : user' = [user EXCEPT ![u].subject = x]
        BY <3>1 DEF LinkOIDCSubject, LiveUser
      <4>2. \A u \in Users : user'[u].row = user[u].row /\ user'[u].role = user[u].role
        BY <1>0, <4>1 DEF UserRow
      <4> QED BY <1>a, <4>2
    <3>2. CASE SetUserPassword(r)
      BY <1>a, <3>2, PasswordWritten
    <3> QED BY <1>2, <1>a, <3>1, <3>2 DEF ResolveByName, CreateRefused, InsertRefused, DeleteUserSessions,
                CreateSession, CreateAPIToken, StatementFails, DeleteRefused, CreateAuditLog, DeleteSession,
                DeleteAPIToken
  <2>2. UNCHANGED overlap
    BY <1>2 DEF ResolveByName, CreateRefused, InsertRefused, DeleteUserSessions,
                CreateSession, CreateAPIToken, StatementFails, LinkOIDCSubject, SetUserPassword,
                DeleteRefused, CreateAuditLog, DeleteSession, DeleteAPIToken
  <2>3. \E h : Goto(r, h) /\ h.pc \notin {"count", "write"}
    <3>0. req[r] \in Handler /\ Idle.pc = "idle"
      BY <1>0 DEF Idle
    <3>1. CASE Goto(r, Idle)
      BY <3>0, <3>1
    <3>a. CASE Acted(r)
      <4>1. AuditBy(req[r].actor).pc = "audit"
        BY DEF AuditBy, Idle
      <4> QED BY <3>a, <4>1 DEF Acted
    <3>s. CASE Goto(r, [req[r] EXCEPT !.pc = "session"])
      <4>1. [req[r] EXCEPT !.pc = "session"].pc = "session"
        BY <3>0 DEF Handler
      <4> QED BY <3>s, <4>1
    <3>2. CASE ResolveByName(r)
      <4>1. ASSUME NEW u, NEW pw, Goto(r, [req[r] EXCEPT !.pc = "link", !.user = u, !.pw = pw])
            PROVE  \E h : Goto(r, h) /\ h.pc \notin {"count", "write"}
        <5>1. [req[r] EXCEPT !.pc = "link", !.user = u, !.pw = pw].pc = "link"
          BY <3>0 DEF Handler
        <5> QED BY <4>1, <5>1
      <4>2. CASE Goto(r, [req[r] EXCEPT !.pc = "createSSO"])
        <5>1. [req[r] EXCEPT !.pc = "createSSO"].pc = "createSSO"
          BY <3>0 DEF Handler
        <5> QED BY <4>2, <5>1
      <4> QED BY <3>1, <3>2, <4>1, <4>2 DEF ResolveByName, Done
    <3>3. CASE LinkOIDCSubject(r)
      <4>1. LoginBy(req[r].user, req[r].pw).pc = "auditLogin"
        BY DEF LoginBy, Idle
      <4> QED BY <3>1, <3>3, <4>1 DEF LinkOIDCSubject, SignedIn, Done
    <3>4. CASE SetUserPassword(r)
      <4>1. [req[r] EXCEPT !.pc = AfterPassword(req[r].pc)].pc \in {"endAll", "endOthers"}
        BY <3>0 DEF Handler, AfterPassword
      <4> QED BY <3>4, <4>1 DEF SetUserPassword
    <3> QED BY <1>2, <3>1, <3>2, <3>3, <3>4, <3>a, <3>s DEF CreateRefused, InsertRefused, DeleteUserSessions,
                CreateSession, CreateAPIToken, StatementFails, DeleteRefused, CreateAuditLog, DeleteSession,
                DeleteAPIToken, Done
  <2> QED BY <1>f, <2>1, <2>2, <2>3
<1>3. ASSUME NEW r \in Requests, NEW u \in Users, CreateAdmin(r, u) \/ CreateSSOUser(r, u) \/ CreateUser(r, u)
      PROVE  AdminInv' /\ (Admins # {} => Admins' # {} \/ overlap)
  <2>1. user[u].row = "unused" /\ UNCHANGED overlap /\ \A v \in Users : v # u => user'[v] = user[v]
    BY <1>0, <1>3 DEF CreateAdmin, CreateSSOUser, CreateUser, NextUser
  <2>2. Admins \subseteq Admins' /\ (Admins' = Admins \/ u \in Admins')
    BY <2>1 DEF Admins, LiveUser
  <2>3. req'[r].pc \notin {"count", "write"} /\ \A k \in Requests : k # r => req'[k] = req[k]
    <3>1. \/ Goto(r, AuditBy(req[r].actor))
          \/ Goto(r, LoginBy(u, 0))
          \/ Goto(r, LoginBy(u, 1))
      BY <1>3 DEF CreateAdmin, CreateSSOUser, CreateUser, Acted, SignedIn
    <3>2. /\ AuditBy(req[r].actor).pc = "audit"
          /\ LoginBy(u, 0).pc = "auditLogin" /\ LoginBy(u, 1).pc = "auditLogin"
      BY DEF AuditBy, LoginBy, Idle
    <3> QED BY <1>0, <3>1, <3>2 DEF Goto
  <2>4. \A k \in Requests : req'[k].pc \in {"count", "write"} => req'[k] = req[k] /\ req[k].user # u
    BY <1>0, <2>1, <2>3 DEF HandlerOK
  <2> QED BY <2>1, <2>2, <2>4, AdminAdded
<1>4. ASSUME NEW r \in Requests, CheckLastAdmin(r)
      PROVE  AdminInv' /\ (Admins # {} => Admins' # {} \/ overlap)
  <2>1. Admins' = Admins
    BY <1>4, <1>a DEF CheckLastAdmin
  <2>2. CASE isLastAdmin
    <3>1. Goto(r, Idle) /\ UNCHANGED overlap /\ Idle.pc = "idle"
      BY <1>4, <2>2 DEF CheckLastAdmin, Done, Idle
    <3> QED BY <1>f, <2>1, <3>1
  <2>3. CASE ~isLastAdmin
    <3>1. /\ Goto(r, [req[r] EXCEPT !.pc = "write"])
          /\ overlap' = (overlap \/ \E k \in Requests \ {r} : AboutToRemove(k))
      BY <1>4, <2>3 DEF CheckLastAdmin
    <3>2. req'[r].user = req[r].user /\ \A k \in Requests : k # r => req'[k] = req[k]
      BY <1>0, <1>g, <3>1 DEF Handler
    <3>3. PICK a \in Admins : a # req[r].user
      BY <2>3, AnotherAdmin
    <3>4. ASSUME ~overlap', NEW k \in Requests, AboutToRemove(k)' PROVE req'[k].user # a
      BY <3>1, <3>2, <3>3, <3>4 DEF AboutToRemove
    <3>5. a \in Admins'
      BY <2>1, <3>3
    <3>6. AdminInv'
      BY <3>4, <3>5 DEF AdminInv
    <3> QED BY <3>5, <3>6
  <2> QED BY <2>2, <2>3
<1>5. ASSUME NEW r \in Requests, SetUserRole(r) \/ DeleteUser(r)
      PROVE  AdminInv' /\ (Admins # {} => Admins' # {} \/ overlap)
  <2> DEFINE u == req[r].user
  <2>1. /\ req[r].pc = "write" /\ UNCHANGED overlap
        /\ Goto(r, AuditBy(req[r].actor)) /\ AuditBy(req[r].actor).pc = "audit"
    BY <1>5 DEF SetUserRole, DeleteUser, Acted, AuditBy, Idle
  <2>2. req'[r] = AuditBy(req[r].actor) /\ \A k \in Requests : k # r => req'[k] = req[k]
    BY <1>g, <2>1
  <2>3. \A v \in Users : v # u => user'[v] = user[v]
    BY <1>0, <1>5 DEF SetUserRole, DeleteUser
  <2>4. req[r].role = "admin" => Admins \subseteq Admins'
    <3>1. CASE req[r].role = "admin"
      <4>1. user' = [user EXCEPT ![u].role = "admin"] \/ user' = user
        BY <1>5, <3>1 DEF SetUserRole, DeleteUser
      <4>2. \A v \in Users : user'[v].row = user[v].row /\ (user[v].role = "admin" => user'[v].role = "admin")
        BY <1>0, <4>1 DEF UserRow
      <4> QED BY <4>2 DEF Admins, LiveUser
    <3> QED BY <3>1
  <2> HIDE DEF u
  <2>5. CASE ~overlap
    <3>1. PICK a \in Admins : \A k \in Requests : AboutToRemove(k) => req[k].user # a
      BY <2>1, <2>5 DEF AdminInv
    <3>2. a \in Admins'
      <4>1. CASE req[r].role = "admin"
        BY <2>4, <3>1, <4>1
      <4>2. CASE req[r].role # "admin"
        <5>1. a # u
          BY <2>1, <3>1, <4>2 DEF AboutToRemove, u
        <5> QED BY <2>3, <3>1, <5>1 DEF Admins, LiveUser
      <4> QED BY <4>1, <4>2
    <3> QED BY <2>1, <2>2, <3>1, <3>2 DEF AdminInv, AboutToRemove
  <2>6. CASE overlap
    BY <2>1, <2>6 DEF AdminInv
  <2> QED BY <2>5, <2>6
<1>6. CASE (\E s \in Sessions : SessionExpires(s)) \/ (\E u \in Users : ActsElsewhere(u))
  <2>1. UNCHANGED <<user, req, overlap>>
    BY <1>6 DEF SessionExpires, ActsElsewhere
  <2> QED BY <1>a, <2>1, AdminFrame
<1>7. CASE Crash
  <2>1. UNCHANGED <<user, overlap>> /\ \A r \in Requests : req'[r].pc = "idle"
    BY <1>7 DEF Crash, Idle
  <2> QED BY <1>a, <2>1, AdminFrame
<1>8. CASE UNCHANGED vars
  <2>1. UNCHANGED <<user, req, overlap>>
    BY <1>8 DEF vars
  <2> QED BY <1>a, <2>1, AdminFrame
<1>9. ASSUME NEW r \in Requests, Continue(r) PROVE AdminInv' /\ (Admins # {} => Admins' # {} \/ overlap)
  BY <1>2, <1>3, <1>4, <1>5, <1>9 DEF Continue
<1> QED BY <1>1, <1>2, <1>6, <1>7, <1>8, <1>9 DEF Next

\* No step of any request leaves the system without an admin, as long as no two
\* removals overlapped between the count and the write.
THEOREM LastAdminKept == Spec => AdminRemains
<1>1. Init => AdminInv
  <2> SUFFICES ASSUME Init PROVE AdminInv
    OBVIOUS
  <2>1. Admins = {} /\ \A r \in Requests : req[r].pc = "idle"
    BY DEF Init, Admins, LiveUser, NoUser, Idle
  <2> QED BY <2>1 DEF AdminInv
<1>2. AccountsInv /\ AdminInv /\ [Next]_vars => [Admins # {} => Admins' # {} \/ overlap]_vars
  BY NextAdmin
<1> QED BY <1>1, <1>2, InitBase, NextBase, NextAdmin, PTL DEF Spec, AdminRemains
=============================================================================
