------------------------------ MODULE Accounts ------------------------------
(***************************************************************************)
(* Users, their roles and passwords, the sessions and API tokens they hold,*)
(* and the requests that change them: first-run bootstrap, sign-in with a  *)
(* password or through the identity provider, self-service account pages   *)
(* and user administration.                                                *)
(*                                                                         *)
(* A handler is one step per statement it sends to the database; what it   *)
(* read in an earlier statement travels in its record.  A password is the  *)
(* number of times the account's password was set; 0 is the random one of  *)
(* an account made by single sign-on, which nobody knows.  Throttling and  *)
(* the second factor, which can only end a sign-in earlier, are in SignIn. *)
(*                                                                         *)
(* An entry of the audit log names its actor and can be neither changed    *)
(* nor deleted, so an account that has acted can no longer be deleted.     *)
(***************************************************************************)
EXTENDS Naturals, FiniteSets

CONSTANTS
  MaxUsers,     \* bound on the users rows ever created
  MaxSessions,  \* bound on the sessions rows ever created
  MaxTokens,    \* bound on the api_tokens rows ever created
  MaxPasswords, \* bound on the passwords an account ever has
  MaxRequests,  \* bound on the requests served
  MaxFaults,    \* bound on crashes and failed statements
  Names,        \* usernames
  Subjects,     \* identities at the provider
  ClaimedName,  \* ClaimedName[x]: the username claim of identity x
  Requests,     \* concurrent requests
  None          \* SQL NULL, or no value

Users    == 1 .. MaxUsers
Sessions == 1 .. MaxSessions
Tokens   == 1 .. MaxTokens

ASSUME AccountsAssumption ==
  /\ MaxUsers \in Nat /\ MaxSessions \in Nat /\ MaxTokens \in Nat /\ MaxPasswords \in Nat \ {0}
  /\ MaxRequests \in Nat /\ MaxFaults \in Nat
  /\ ClaimedName \in [Subjects -> Names]
  /\ None \notin Users /\ None \notin Sessions /\ None \notin Names /\ None \notin Subjects

VARIABLES
  user,    \* users
  session, \* sessions
  token,   \* api_tokens
  audited, \* audit_logs: the accounts that are the actor of an entry
  req,     \* req[r]: the handler serving request r
  served,  \* requests taken up so far
  faults,  \* crashes and failed statements so far
  late,    \* history: sessions a fault or an overlapping sign-in kept past a password change
  overlap  \* history: an admin was counted while another removal was about to be written

vars == <<user, session, token, audited, req, served, faults, late, overlap>>

-----------------------------------------------------------------------------
RowState  == {"unused", "live", "deleted"}
Role      == {"admin", "viewer"}
Passwords == 0 .. MaxPasswords

UserRow    == [row : RowState, name : Names \cup {None}, role : Role, pw : Passwords,
               subject : Subjects \cup {None}]
SessionRow == [row : RowState, user : Users \cup {None}, pw : Passwords]
TokenRow   == [row : RowState, user : Users \cup {None}]

\* Where sessions are about to be deleted: after a password was set, or on request.
Revoking   == {"endAll", "endOthers", "revokeAll", "revokeOthers"}
\* user and pw: the account read, and its password then; actor: whom the audit entry names;
\* session: the request's own; role: the role to write, or "deleted".
Handler    == [pc : {"idle", "createUser", "bootstrap", "auditLogin", "session", "byName", "link", "createSSO",
                     "count", "write", "setPassword", "setOwnPassword", "token", "logout", "tokenDelete", "audit"}
                      \cup Revoking,
               user : Users \cup {None}, actor : Users \cup {None},
               session : Sessions \cup {None}, name : Names \cup {None},
               role : Role \cup {"deleted"}, pw : Passwords, subject : Subjects \cup {None}]

\* ValidRole has been checked, or viewer taken instead.
NewUser(n, role, pw, subject) ==
  [row |-> "live", name |-> n, role |-> role, pw |-> pw, subject |-> subject]
NoUser(r) == [row |-> r, name |-> None, role |-> "viewer", pw |-> 0, subject |-> None]
NoSession(r) == [row |-> r, user |-> None, pw |-> 0]
NoToken(r)   == [row |-> r, user |-> None]
Idle == [pc |-> "idle", user |-> None, actor |-> None, session |-> None, name |-> None, role |-> "viewer",
         pw |-> 0, subject |-> None]

LiveUser(u)     == u \in Users /\ user[u].row = "live"
LiveSession(s)  == s \in Sessions /\ session[s].row = "live"
Admins          == {u \in Users : LiveUser(u) /\ user[u].role = "admin"}
SessionsOf(u)   == {s \in Sessions : LiveSession(s) /\ session[s].user = u}
Named(n)        == {u \in Users : LiveUser(u) /\ user[u].name = n}
Bound(x)        == {u \in Users : LiveUser(u) /\ user[u].subject = x}

\* New rows take the next id.
NextUser(u)    == user[u].row = "unused" /\ \A k \in Users : user[k].row = "unused" => u <= k
NextSession(s) == session[s].row = "unused" /\ \A k \in Sessions : session[k].row = "unused" => s <= k
NextToken(t)   == token[t].row = "unused" /\ \A k \in Tokens : token[k].row = "unused" => t <= k

Init ==
  /\ user = [u \in Users |-> NoUser("unused")]
  /\ session = [s \in Sessions |-> NoSession("unused")]
  /\ token = [t \in Tokens |-> NoToken("unused")]
  /\ audited = {}
  /\ req = [r \in Requests |-> Idle]
  /\ served = 0
  /\ faults = 0
  /\ late = {}
  /\ overlap = FALSE

Goto(r, h) == req' = [req EXCEPT ![r] = h]
Done(r) == Goto(r, Idle)
\* What is left is the audit entry of what was done.
AuditBy(a) == [Idle EXCEPT !.pc = "audit", !.actor = a]
Acted(r) == Goto(r, AuditBy(req[r].actor))
\* A sign-in is audited before its session is made.
LoginBy(u, pw) == [Idle EXCEPT !.pc = "auditLogin", !.user = u, !.actor = u, !.pw = pw]
SignedIn(r, u, pw) == Goto(r, LoginBy(u, pw))

-----------------------------------------------------------------------------
(* First run                                                               *)

needsBootstrap == Admins = {}

\* bootstrapSubmit counts the admins once, before the password is hashed.
BootstrapSubmit(r, n) ==
  /\ req[r].pc = "idle"
  /\ needsBootstrap
  /\ Goto(r, [Idle EXCEPT !.pc = "bootstrap", !.name = n])
  /\ UNCHANGED <<user, session, token, audited, faults, late, overlap>>

\* The INSERT; users.username is UNIQUE.
CreateAdmin(r, u) ==
  /\ req[r].pc = "bootstrap"
  /\ Named(req[r].name) = {} /\ NextUser(u)
  /\ user' = [user EXCEPT ![u] = NewUser(req[r].name, "admin", 1, None)]
  /\ SignedIn(r, u, 1)
  /\ UNCHANGED <<session, token, audited, faults, late, overlap>>

-----------------------------------------------------------------------------
(* Signing in                                                              *)

\* loginSubmit has found the account and verified the password given.
LoginSubmit(r, u) ==
  /\ req[r].pc = "idle"
  /\ LiveUser(u) /\ user[u].pw > 0
  /\ SignedIn(r, u, user[u].pw)
  /\ UNCHANGED <<user, session, token, audited, faults, late, overlap>>

\* loginSubmit or the second factor refuses a guess, or somebody signed in does anything else
\* that is audited: the entry names an account that exists.
ActsElsewhere(u) ==
  /\ LiveUser(u) /\ u \notin audited
  /\ audited' = audited \cup {u}
  /\ UNCHANGED <<user, session, token, req, faults, late, overlap>>

\* oidcCallback with a verified identity: the account bound to the subject, if any.
OIDCCallback(r, x) ==
  /\ req[r].pc = "idle"
  /\ \/ \E u \in Bound(x) : SignedIn(r, u, user[u].pw)
     \/ /\ Bound(x) = {}
        /\ Goto(r, [Idle EXCEPT !.pc = "byName", !.subject = x])
  /\ UNCHANGED <<user, session, token, audited, faults, late, overlap>>

\* Else the account of that name; else, when the settings say so, a new one.
ResolveByName(r) ==
  /\ req[r].pc = "byName"
  /\ LET found == Named(ClaimedName[req[r].subject]) IN
       \/ \E u \in found :
            Goto(r, [req[r] EXCEPT !.pc = "link", !.user = u, !.pw = user[u].pw])
       \/ found = {} /\ Goto(r, [req[r] EXCEPT !.pc = "createSSO"])
       \/ found = {} /\ Done(r)
  /\ UNCHANGED <<user, session, token, audited, faults, late, overlap>>

\* users.oidc_subject is unique; an UPDATE of a row that is gone changes nothing.
LinkOIDCSubject(r) ==
  LET u == req[r].user IN
  /\ req[r].pc = "link"
  /\ IF Bound(req[r].subject) \subseteq {u} \/ ~LiveUser(u)
     THEN /\ user' = IF LiveUser(u) THEN [user EXCEPT ![u].subject = req[r].subject] ELSE user
          /\ SignedIn(r, u, req[r].pw)
     ELSE Done(r) /\ UNCHANGED user
  /\ UNCHANGED <<session, token, audited, faults, late, overlap>>

CreateSSOUser(r, u) ==
  LET x == req[r].subject IN
  /\ req[r].pc = "createSSO"
  /\ Named(ClaimedName[x]) = {} /\ Bound(x) = {} /\ NextUser(u)
  /\ user' = [user EXCEPT ![u] = NewUser(ClaimedName[x], "viewer", 0, x)]
  /\ SignedIn(r, u, 0)
  /\ UNCHANGED <<session, token, audited, faults, late, overlap>>

\* An INSERT into users that a unique key refuses.
CreateRefused(r) ==
  /\ \/ req[r].pc \in {"bootstrap", "createUser"} /\ Named(req[r].name) # {}
     \/ req[r].pc = "createSSO" /\ (Named(ClaimedName[req[r].subject]) # {} \/ Bound(req[r].subject) # {})
  /\ Done(r)
  /\ UNCHANGED <<user, session, token, audited, faults, late, overlap>>

\* Mutant: no foreign key to users.
SessionKeyHoldsAlways(u) == TRUE
\* sessions.user_id and api_tokens.user_id reference users.
SessionKeyHolds(u) == LiveUser(u)

\* establishSession.  A password set since it was verified goes unnoticed.
CreateSession(r, s) ==
  LET u == req[r].user IN
  /\ req[r].pc = "session"
  /\ SessionKeyHolds(u) /\ NextSession(s)
  /\ session' = [session EXCEPT ![s] = [row |-> "live", user |-> u, pw |-> req[r].pw]]
  /\ late' = IF req[r].pw # user[u].pw THEN late \cup {s} ELSE late
  /\ Done(r)
  /\ UNCHANGED <<user, token, audited, faults, overlap>>

\* The account was deleted meanwhile: no session, no token.
InsertRefused(r) ==
  /\ req[r].pc \in {"session", "token"}
  /\ ~SessionKeyHolds(req[r].user)
  /\ Done(r)
  /\ UNCHANGED <<user, session, token, audited, faults, late, overlap>>

\* CreateAuditLog.  audit_logs.actor_user_id references users: an entry whose actor is gone
\* is refused, which is logged and no more.
CreateAuditLog(r) ==
  LET a == req[r].actor IN
  /\ req[r].pc \in {"auditLogin", "audit"}
  /\ audited' = IF LiveUser(a) THEN audited \cup {a} ELSE audited
  /\ IF req[r].pc = "auditLogin" THEN Goto(r, [req[r] EXCEPT !.pc = "session"]) ELSE Done(r)
  /\ UNCHANGED <<user, session, token, faults, late, overlap>>

-----------------------------------------------------------------------------
(* Sessions                                                                *)

RemoveSessions(gone) ==
  session' = [s \in Sessions |-> IF s \in gone THEN NoSession("deleted") ELSE session[s]]

\* GetSession no longer accepts the row (absolute or idle timeout).
SessionExpires(s) ==
  /\ LiveSession(s)
  /\ RemoveSessions({s})
  /\ UNCHANGED <<user, token, audited, req, faults, late, overlap>>

Logout(r, s) ==
  /\ req[r].pc = "idle" /\ LiveSession(s)
  /\ Goto(r, [Idle EXCEPT !.pc = "logout", !.actor = session[s].user, !.session = s])
  /\ UNCHANGED <<user, session, token, audited, faults, late, overlap>>

DeleteSession(r) ==
  /\ req[r].pc = "logout"
  /\ RemoveSessions({req[r].session})
  /\ Acted(r)
  /\ UNCHANGED <<user, token, audited, faults, late, overlap>>

\* accountLogoutAll keeps the session it came with; logoutEverywhere does if the
\* settings say so.
LogoutEverywhere(r, s, pc) ==
  /\ req[r].pc = "idle" /\ LiveSession(s)
  /\ Goto(r, [Idle EXCEPT !.pc = pc, !.user = session[s].user, !.actor = session[s].user, !.session = s])
  /\ UNCHANGED <<user, session, token, audited, faults, late, overlap>>

\* DeleteUserSessions, DeleteOtherUserSessions.
Revoked(r) ==
  IF req[r].pc \in {"endAll", "revokeAll"} THEN SessionsOf(req[r].user)
  ELSE SessionsOf(req[r].user) \ {req[r].session}

DeleteUserSessions(r) ==
  /\ req[r].pc \in Revoking
  /\ RemoveSessions(Revoked(r))
  /\ Acted(r)
  /\ UNCHANGED <<user, token, audited, faults, late, overlap>>

-----------------------------------------------------------------------------
(* Passwords                                                               *)

\* accountChangePassword has verified the current password; the session that asked
\* stays signed in.
ChangePassword(r, s) ==
  /\ req[r].pc = "idle" /\ LiveSession(s)
  /\ user[session[s].user].pw > 0
  /\ Goto(r, [Idle EXCEPT !.pc = "setOwnPassword", !.user = session[s].user, !.actor = session[s].user,
                          !.session = s])
  /\ UNCHANGED <<user, session, token, audited, faults, late, overlap>>

\* Mutant: the sessions are left alone.
AfterPasswordDone(pc) == "audit"
\* What follows SetUserPassword.
AfterPassword(pc) == IF pc = "setOwnPassword" THEN "endOthers" ELSE "endAll"

\* The UPDATE does not look at the password that was verified.  The session that
\* changed its own password counts as opened with the new one.
SetUserPassword(r) ==
  LET u == req[r].user IN
  /\ req[r].pc \in {"setPassword", "setOwnPassword"}
  /\ LiveUser(u) => user[u].pw < MaxPasswords
  /\ user' = IF LiveUser(u) THEN [user EXCEPT ![u].pw = @ + 1] ELSE user
  /\ session' = IF req[r].pc = "setOwnPassword" /\ LiveSession(req[r].session)
                THEN [session EXCEPT ![req[r].session].pw = user[u].pw + 1] ELSE session
  /\ Goto(r, [req[r] EXCEPT !.pc = AfterPassword(req[r].pc)])
  /\ UNCHANGED <<token, audited, faults, late, overlap>>

-----------------------------------------------------------------------------
(* User administration                                                     *)

\* requireAdmin: the role is read with the session, in one statement.
AdminSession(s) == LiveSession(s) /\ session[s].user \in Admins

UserCreate(r, s, n, role) ==
  /\ req[r].pc = "idle" /\ AdminSession(s)
  /\ Goto(r, [Idle EXCEPT !.pc = "createUser", !.actor = session[s].user, !.name = n, !.role = role])
  /\ UNCHANGED <<user, session, token, audited, faults, late, overlap>>

CreateUser(r, u) ==
  /\ req[r].pc = "createUser"
  /\ Named(req[r].name) = {} /\ NextUser(u)
  /\ user' = [user EXCEPT ![u] = NewUser(req[r].name, req[r].role, 1, None)]
  /\ Acted(r)
  /\ UNCHANGED <<session, token, audited, faults, late, overlap>>

\* Mutant: only a delete is checked.
GuardedDelete(u, role) == role = "deleted"
\* Whether the target, as loadManagedUser read it, makes the last-admin check apply.
Guarded(u, role) == user[u].role = "admin" /\ role # "admin"

\* userSetRole, and userDelete of an account that is not one's own.
ManageUser(r, s, u, role) ==
  /\ req[r].pc = "idle" /\ AdminSession(s) /\ LiveUser(u)
  /\ role = "deleted" => u # session[s].user
  /\ Goto(r, [Idle EXCEPT !.pc = IF Guarded(u, role) THEN "count" ELSE "write", !.user = u,
                          !.actor = session[s].user, !.role = role])
  /\ UNCHANGED <<user, session, token, audited, faults, late, overlap>>

isLastAdmin == Cardinality(Admins) <= 1

AboutToRemove(r) == req[r].pc = "write" /\ req[r].role # "admin"

CheckLastAdmin(r) ==
  /\ req[r].pc = "count"
  /\ IF isLastAdmin THEN Done(r) /\ UNCHANGED overlap
     ELSE /\ Goto(r, [req[r] EXCEPT !.pc = "write"])
          /\ overlap' = (overlap \/ \E k \in Requests \ {r} : AboutToRemove(k))
  /\ UNCHANGED <<user, session, token, audited, faults, late>>

SetUserRole(r) ==
  LET u == req[r].user IN
  /\ req[r].pc = "write" /\ req[r].role # "deleted"
  /\ user' = IF LiveUser(u) THEN [user EXCEPT ![u].role = req[r].role] ELSE user
  /\ Acted(r)
  /\ UNCHANGED <<session, token, audited, faults, late, overlap>>

\* The DELETE.  Sessions and tokens go by ON DELETE CASCADE; an entry of the audit log that
\* names the account as its actor would have to be updated (ON DELETE SET NULL), and the
\* trigger prevent_audit_log_mutation raises an exception on every UPDATE.
DeleteUser(r) ==
  LET u == req[r].user IN
  /\ req[r].pc = "write" /\ req[r].role = "deleted"
  /\ u \notin audited
  /\ user' = IF LiveUser(u) THEN [user EXCEPT ![u] = NoUser("deleted")] ELSE user
  /\ RemoveSessions(SessionsOf(u))
  /\ token' = [t \in Tokens |-> IF token[t].user = u THEN NoToken("deleted") ELSE token[t]]
  /\ Acted(r)
  /\ UNCHANGED <<audited, faults, late, overlap>>

\* The handler answers 500 and everything stays.
DeleteRefused(r) ==
  /\ req[r].pc = "write" /\ req[r].role = "deleted"
  /\ req[r].user \in audited
  /\ Done(r)
  /\ UNCHANGED <<user, session, token, audited, faults, late, overlap>>

UserResetPassword(r, s, u) ==
  /\ req[r].pc = "idle" /\ AdminSession(s) /\ LiveUser(u)
  /\ Goto(r, [Idle EXCEPT !.pc = "setPassword", !.user = u, !.actor = session[s].user])
  /\ UNCHANGED <<user, session, token, audited, faults, late, overlap>>

-----------------------------------------------------------------------------
(* API tokens                                                              *)

AccountTokenCreate(r, s) ==
  /\ req[r].pc = "idle" /\ AdminSession(s)
  /\ Goto(r, [Idle EXCEPT !.pc = "token", !.user = session[s].user, !.actor = session[s].user])
  /\ UNCHANGED <<user, session, token, audited, faults, late, overlap>>

CreateAPIToken(r, t) ==
  /\ req[r].pc = "token"
  /\ SessionKeyHolds(req[r].user) /\ NextToken(t)
  /\ token' = [token EXCEPT ![t] = [row |-> "live", user |-> req[r].user]]
  /\ Acted(r)
  /\ UNCHANGED <<user, session, audited, faults, late, overlap>>

AccountTokenDelete(r, s) ==
  /\ req[r].pc = "idle" /\ LiveSession(s)
  /\ Goto(r, [Idle EXCEPT !.pc = "tokenDelete", !.actor = session[s].user])
  /\ UNCHANGED <<user, session, token, audited, faults, late, overlap>>

\* The DELETE names the owner, so only one's own token goes; finding none is an error.
DeleteAPIToken(r, t) ==
  /\ req[r].pc = "tokenDelete"
  /\ IF token[t].row = "live" /\ token[t].user = req[r].actor
     THEN token' = [token EXCEPT ![t] = NoToken("deleted")] /\ Acted(r)
     ELSE Done(r) /\ UNCHANGED token
  /\ UNCHANGED <<user, session, audited, faults, late, overlap>>

-----------------------------------------------------------------------------
(* Faults                                                                  *)

Outdated == {s \in Sessions : LiveSession(s) /\ session[s].pw # user[session[s].user].pw}

\* A statement fails.  A sign-in goes on without its audit entry; a password change, and a
\* logout, go on without the DELETE of sessions; the others answer with an error.
StatementFails(r) ==
  LET pc == req[r].pc IN
  /\ pc # "idle" /\ faults < MaxFaults
  /\ faults' = faults + 1
  /\ late' = IF pc \in Revoking THEN late \cup (Outdated \cap SessionsOf(req[r].user)) ELSE late
  /\ IF pc = "auditLogin" THEN Goto(r, [req[r] EXCEPT !.pc = "session"])
     ELSE IF pc \in {"endAll", "endOthers", "logout"} THEN Acted(r) ELSE Done(r)
  /\ UNCHANGED <<user, session, token, audited, overlap>>

\* The server stops; its requests are gone, the database stays.
Crash ==
  /\ faults < MaxFaults
  /\ faults' = faults + 1
  /\ late' = late \cup Outdated
  /\ req' = [r \in Requests |-> Idle]
  /\ UNCHANGED <<user, session, token, audited, overlap>>

-----------------------------------------------------------------------------
Enter(r) ==
  \/ \E n \in Names : BootstrapSubmit(r, n)
  \/ \E u \in Users : LoginSubmit(r, u)
  \/ \E x \in Subjects : OIDCCallback(r, x)
  \/ \E s \in Sessions :
       \/ Logout(r, s)
       \/ \E pc \in {"revokeAll", "revokeOthers"} : LogoutEverywhere(r, s, pc)
       \/ ChangePassword(r, s)
       \/ \E n \in Names, role \in Role : UserCreate(r, s, n, role)
       \/ \E u \in Users, role \in Role \cup {"deleted"} : ManageUser(r, s, u, role)
       \/ \E u \in Users : UserResetPassword(r, s, u)
       \/ AccountTokenCreate(r, s) \/ AccountTokenDelete(r, s)

Continue(r) ==
  \/ \E u \in Users : CreateAdmin(r, u) \/ CreateSSOUser(r, u) \/ CreateUser(r, u)
  \/ ResolveByName(r) \/ LinkOIDCSubject(r)
  \/ CreateRefused(r) \/ InsertRefused(r) \/ CreateAuditLog(r)
  \/ \E s \in Sessions : CreateSession(r, s)
  \/ DeleteSession(r) \/ DeleteUserSessions(r)
  \/ SetUserPassword(r)
  \/ CheckLastAdmin(r) \/ SetUserRole(r) \/ DeleteUser(r) \/ DeleteRefused(r)
  \/ \E t \in Tokens : CreateAPIToken(r, t) \/ DeleteAPIToken(r, t)

Next ==
  \/ \E r \in Requests : Enter(r) /\ served < MaxRequests /\ served' = served + 1
  \/ /\ \/ \E r \in Requests : Continue(r) \/ StatementFails(r)
        \/ \E s \in Sessions : SessionExpires(s)
        \/ \E u \in Users : ActsElsewhere(u)
        \/ Crash
     /\ UNCHANGED served

Spec == Init /\ [][Next]_vars

-----------------------------------------------------------------------------

\* A session or an API token that would be accepted belongs to an account that
\* exists: where an account can be deleted (store.go, DeleteUser; nothing it did is on
\* the audit log), its sessions and tokens go with it, even when a sign-in or a token
\* request is between its read and its INSERT.
CredentialsOwned ==
  /\ \A s \in Sessions : LiveSession(s) => LiveUser(session[s].user)
  /\ \A t \in Tokens : token[t].row = "live" => LiveUser(token[t].user)

\* Setting a password ends the sessions opened before it (account.go:67,
\* users.go:126): one that is still accepted waits for the DELETE of a request that
\* set the password, or outlived it because the server died or the DELETE failed, or
\* because its sign-in had verified the old password and was still to insert it.
OldSessionsEnd ==
  \A s \in Outdated :
    \/ s \in late
    \/ \E r \in Requests : req[r].pc \in Revoking /\ s \in Revoked(r)

\* No step takes the role from, or deletes, the last admin (users.go:82): the count
\* before the write keeps one, unless another removal was being written meanwhile.
AdminRemains == [][Admins # {} => Admins' # {} \/ overlap]_vars

\* "This permanently deletes the account and signs out its sessions" (users.go:146;
\* store.go:192, "DeleteUser removes a user account. Sessions cascade."): when a delete
\* that met no fault has been answered, neither the account nor a session of it is left.
DeleteRemoves ==
  [][\A r \in Requests :
       req[r].pc = "write" /\ req[r].role = "deleted" /\ req'[r] # req[r] /\ faults' = faults =>
         ~LiveUser(req[r].user)' /\ \A s \in Sessions : LiveSession(s)' => session'[s].user # req[r].user]_vars
=============================================================================
