------------------------------- MODULE SignIn -------------------------------
(***************************************************************************)
(* What stands between a password and a session: throttling of failed      *)
(* attempts, and the second factor with its enrolment and recovery codes,  *)
(* for one account that several requests work on.  The session itself is   *)
(* in Accounts.                                                            *)
(*                                                                         *)
(* Time is counted in ticks: a failed attempt ages with each, is counted   *)
(* while it is younger than the window, and keeps its keys locked while it *)
(* is younger than the cooldown.  A handler is one step per statement.     *)
(***************************************************************************)
EXTENDS Naturals, FiniteSets

CONSTANTS
  IPs,          \* addresses clients come from
  Names,        \* usernames tried
  Account,      \* the username that exists
  MaxAttempts,  \* login_max_attempts
  Window,       \* login_window, in ticks
  Cooldown,     \* login_lockout, in ticks
  MaxFailures,  \* bound on the failed attempts of a window: one more waits for an older to age out
  MaxClears,    \* bound on the sign-ins of a window that clear failed attempts
  MaxSecrets,   \* bound on the secrets, and on the sets of codes, ever issued
  MaxFaults,    \* bound on failed statements
  Requests,     \* concurrent requests
  None

Ages    == 0 .. Window - 1
Secrets == 1 .. MaxSecrets

\* positiveInt, durationEnv.  The settings form keeps the lockout within the window,
\* the environment need not.
ASSUME SignInAssumption ==
  /\ Account \in Names
  /\ MaxAttempts \in Nat \ {0} /\ Window \in Nat \ {0} /\ Cooldown \in Nat \ {0}
  /\ MaxFailures \in Nat /\ MaxClears \in 0 .. MaxFailures /\ MaxSecrets \in Nat /\ MaxFaults \in Nat
  /\ IsFiniteSet(Requests)
  /\ None \notin Names \cup IPs /\ None \notin Secrets

VARIABLES
  traffic,   \* a bound: the requests of a behaviour either guess or enrol, the two
             \* share only the request that signs in
  failed,    \* login_attempts: how many rows of this username, address and age
  totp,      \* user_totp of the account
  issued,    \* secrets issued so far
  enabled,   \* times the factor was enabled so far
  code,      \* user_recovery_codes: code[k] stands for the codes of the k-th enabling
  challenge, \* a client holds a pending-MFA cookie that has not expired
  req,       \* req[r]: the handler serving request r
  faults,    \* failed statements so far
  made,      \* history: the failed attempts, as in failed, whether or not a row says so
  cleared,   \* history: sign-ins that cleared some, by username, address and age
  proven,    \* history: secrets a code was checked against when the factor was enabled
  accepted,  \* history: accepted[k]: times recovery code k was accepted
  replaced,  \* history: a page issued a secret while a request to enable another was on its way
  contended  \* history: recovery codes two requests had found unused at once

factor   == <<totp, issued, enabled, code>>
history  == <<proven, accepted, replaced, contended>>
attempts == <<failed, made, cleared>>
vars     == <<traffic, attempts, factor, challenge, req, faults, history>>

-----------------------------------------------------------------------------
Row     == Names \X IPs \X Ages
Handler == [pc : {"idle", "find", "record", "clear", "factor", "session", "lookup", "consume",
                  "start", "enable", "disable"},
            name : Names \cup {None}, ip : IPs \cup {None}, secret : Secrets \cup {None},
            for : {"session", "disable"}]
Idle == [pc |-> "idle", name |-> None, ip |-> None, secret |-> None, for |-> "session"]
NoFactor == [state |-> "none", secret |-> None]

Init ==
  /\ traffic \in {"guess", "enrol"}
  /\ failed = [x \in Row |-> 0] /\ made = [x \in Row |-> 0] /\ cleared = [x \in Row |-> 0]
  /\ totp = NoFactor
  /\ issued = 0 /\ enabled = 0
  /\ code = [k \in Secrets |-> "none"]
  /\ challenge = FALSE
  /\ req = [r \in Requests |-> Idle]
  /\ faults = 0
  /\ proven = {}
  /\ accepted = [k \in Secrets |-> 0]
  /\ replaced = FALSE
  /\ contended = {}

Goto(r, h) == req' = [req EXCEPT ![r] = h]
At(r, pc)  == req[r].pc = pc
Move(r, pc) == Goto(r, [req[r] EXCEPT !.pc = pc])
Done(r) == Goto(r, Idle)

-----------------------------------------------------------------------------
(* Throttling                                                              *)

RowsOfName(n) == {x \in Row : x[1] = n}
RowsOfIP(ip)  == {x \in Row : x[2] = ip}
Count(f, rows) == Cardinality({y \in rows \X (1 .. MaxFailures) : y[2] <= f[y[1]]})

\* lockoutForKey: enough failures in the window, the last of them within the cooldown.
lockoutForKey(rows) ==
  /\ Count(failed, rows) >= MaxAttempts
  /\ \E x \in rows : failed[x] > 0 /\ x[3] < Cooldown

\* Mutant: an address is throttled, a username is not.
evaluateLockoutIP(n, ip) == lockoutForKey(RowsOfIP(ip))
\* evaluateLockout: either key suffices.
evaluateLockout(n, ip) == lockoutForKey(RowsOfName(n)) \/ lockoutForKey(RowsOfIP(ip))

\* Mutant: an attempt made while locked is recorded too.
LoginSubmitRecords(r, n, ip) ==
  /\ At(r, "idle")
  /\ Goto(r, [Idle EXCEPT !.pc = IF evaluateLockout(n, ip) THEN "record" ELSE "find", !.name = n, !.ip = ip])
  /\ UNCHANGED <<attempts, factor, challenge, faults, history>>

\* loginSubmit: a locked attempt ends here and is not recorded.  When the count
\* cannot be read it is taken as zero.
LoginSubmit(r, n, ip) ==
  /\ At(r, "idle")
  /\ \/ ~evaluateLockout(n, ip) /\ UNCHANGED faults
     \/ faults < MaxFaults /\ faults' = faults + 1
  /\ Goto(r, [Idle EXCEPT !.pc = "find", !.name = n, !.ip = ip])
  /\ UNCHANGED <<attempts, factor, challenge, history>>

\* FindUserByUsername and VerifyPassword: a name that does not exist, or a password
\* that is not the account's; or the right one.
VerifyPassword(r) ==
  /\ At(r, "find")
  /\ \/ traffic = "guess" /\ Move(r, "record")
     \/ req[r].name = Account /\ Move(r, "clear")
  /\ UNCHANGED <<attempts, factor, challenge, faults, history>>

Room == Count(made, Row) < MaxFailures

\* An INSERT that fails is logged, and the attempt has left no trace.
RecordLoginFailure(r) ==
  LET x == <<req[r].name, req[r].ip, 0>> IN
  /\ At(r, "record") /\ Room
  /\ \/ failed' = [failed EXCEPT ![x] = @ + 1] /\ UNCHANGED faults
     \/ faults < MaxFaults /\ faults' = faults + 1 /\ UNCHANGED failed
  /\ made' = [made EXCEPT ![x] = @ + 1]
  /\ Done(r)
  /\ UNCHANGED <<cleared, factor, challenge, history>>

\* Of the username only: what the address did under other names stays.  A DELETE that
\* fails is logged.
ClearLoginFailures(r) ==
  LET n == req[r].name IN
  /\ At(r, "clear")
  /\ \/ Count(failed, RowsOfName(n)) = 0 /\ UNCHANGED <<attempts, faults>>
     \/ /\ Count(failed, RowsOfName(n)) > 0 /\ Count(cleared, Row) < MaxClears
        /\ failed' = [x \in Row |-> IF x[1] = n THEN 0 ELSE failed[x]]
        /\ cleared' = [cleared EXCEPT ![<<n, req[r].ip, 0>>] = @ + 1]
        /\ UNCHANGED <<made, faults>>
     \/ faults < MaxFaults /\ faults' = faults + 1 /\ UNCHANGED attempts
  /\ Move(r, "factor")
  /\ UNCHANGED <<factor, challenge, history>>

\* The rows that reach age x[3].
Age(f, x) == IF x[3] = 0 THEN 0 ELSE f[<<x[1], x[2], x[3] - 1>>]

\* A tick of the clock.  A pending-MFA cookie may expire with it.
Tick ==
  /\ failed' = [x \in Row |-> Age(failed, x)]
  /\ made' = [x \in Row |-> Age(made, x)]
  /\ cleared' = [x \in Row |-> Age(cleared, x)]
  /\ challenge' \in {FALSE, challenge}
  /\ UNCHANGED <<factor, req, faults, history>>

-----------------------------------------------------------------------------
(* The second factor when signing in                                       *)

\* With the factor on the client gets a pending-MFA cookie; without, or when that
\* cannot be read, the session follows.
TOTPEnabled(r) ==
  /\ At(r, "factor")
  /\ \/ /\ totp.state = "on"
        /\ challenge' = TRUE
        /\ Done(r) /\ UNCHANGED faults
     \/ /\ totp.state # "on"
        /\ Move(r, "session") /\ UNCHANGED <<challenge, faults>>
     \/ /\ faults < MaxFaults /\ faults' = faults + 1
        /\ Move(r, "session") /\ UNCHANGED challenge
  /\ UNCHANGED <<attempts, factor, history>>

\* establishSession, see Accounts.
EstablishSession(r) ==
  /\ At(r, "session")
  /\ Done(r)
  /\ UNCHANGED <<attempts, factor, challenge, faults, history>>

\* mfaChallengeSubmit and mfaDisable read the enrolment; a code of the secret read
\* is enough, anything else is tried as a recovery code.
PresentCode(r, purpose) ==
  /\ At(r, "idle") /\ totp.state = "on"
  /\ purpose = "session" => challenge
  /\ \/ Goto(r, [Idle EXCEPT !.pc = purpose])
     \/ \E k \in Secrets : Goto(r, [Idle EXCEPT !.pc = "lookup", !.secret = k, !.for = purpose])
  /\ UNCHANGED <<attempts, factor, challenge, faults, history>>

\* Mutant: codes that were used match too.
UnusedAny(k) == code[k] # "none"
\* The sub-select of ConsumeRecoveryCode.
Unused(k) == code[k] = "unused"

FindRecoveryCode(r) ==
  LET k == req[r].secret IN
  /\ At(r, "lookup")
  /\ IF Unused(k)
     THEN /\ Move(r, "consume")
          /\ contended' = IF \E q \in Requests \ {r} : At(q, "consume") /\ req[q].secret = k
                          THEN contended \cup {k} ELSE contended
     ELSE Done(r) /\ UNCHANGED contended
  /\ UNCHANGED <<attempts, factor, challenge, faults, proven, accepted, replaced>>

\* The UPDATE: it waits for a concurrent one, then only the id is compared again.
ConsumeRecoveryCode(r) ==
  LET k == req[r].secret IN
  /\ At(r, "consume")
  /\ IF code[k] # "none"
     THEN /\ code' = [code EXCEPT ![k] = "used"]
          /\ accepted' = [accepted EXCEPT ![k] = @ + 1]
          /\ Goto(r, [Idle EXCEPT !.pc = req[r].for])
     ELSE Done(r) /\ UNCHANGED <<code, accepted>>
  /\ UNCHANGED <<attempts, totp, issued, enabled, challenge, faults, proven, replaced, contended>>

-----------------------------------------------------------------------------
(* Enrolment                                                               *)

\* mfaSettings keeps a pending secret, so that a refresh shows the same QR.
NeedsSecret == totp.state = "none"

\* An enrolment that cannot be read, or a pending secret that cannot be opened, is taken
\* as none, whatever is stored.
MFASettings(r) ==
  /\ At(r, "idle")
  /\ \/ NeedsSecret /\ UNCHANGED faults
     \/ ~NeedsSecret /\ faults < MaxFaults /\ faults' = faults + 1
  /\ issued + Cardinality({q \in Requests : At(q, "start")}) < MaxSecrets
  /\ Goto(r, [Idle EXCEPT !.pc = "start"])
  /\ UNCHANGED <<attempts, factor, challenge, history>>

\* An upsert: an enrolment that was not seen, enabled or not, is replaced.
StartTOTPEnrollment(r) ==
  /\ At(r, "start")
  /\ issued' = issued + 1
  /\ totp' = [state |-> "pending", secret |-> issued + 1]
  /\ replaced' = (replaced \/ \E q \in Requests : At(q, "enable"))
  /\ Done(r)
  /\ UNCHANGED <<attempts, enabled, code, challenge, faults, proven, accepted, contended>>

\* mfaEnable has verified a code of the pending secret it read.
MFAEnable(r) ==
  /\ At(r, "idle") /\ totp.state = "pending"
  /\ Goto(r, [Idle EXCEPT !.pc = "enable", !.secret = totp.secret])
  /\ proven' = proven \cup {totp.secret}
  /\ UNCHANGED <<attempts, factor, challenge, faults, accepted, replaced, contended>>

\* Mutant: the recovery codes of an earlier enrolment stay.
NewCodesKeepOld(k) == [code EXCEPT ![k] = "unused"]
\* The codes on record are replaced.
NewCodes(k) == [c \in Secrets |-> IF c = k THEN "unused" ELSE "none"]

\* EnableTOTP, one transaction: whatever secret is stored is enabled.
EnableTOTP(r) ==
  /\ At(r, "enable")
  /\ IF totp.state # "none"
     THEN /\ enabled < MaxSecrets /\ enabled' = enabled + 1
          /\ totp' = [totp EXCEPT !.state = "on"]
          /\ code' = NewCodes(enabled + 1)
     ELSE UNCHANGED <<totp, enabled, code>>
  /\ Done(r)
  /\ UNCHANGED <<attempts, issued, challenge, faults, history>>

\* The recovery codes stay in their table.
DisableTOTP(r) ==
  /\ At(r, "disable")
  /\ totp' = NoFactor
  /\ Done(r)
  /\ UNCHANGED <<attempts, issued, enabled, code, challenge, faults, history>>

\* A statement fails and the request ends, the others having their own ways.
StatementFails(r) ==
  /\ req[r].pc \in {"session", "lookup", "consume", "start", "enable", "disable"}
  /\ faults < MaxFaults /\ faults' = faults + 1
  /\ Done(r)
  /\ UNCHANGED <<attempts, factor, challenge, history>>

-----------------------------------------------------------------------------
Serve(r) ==
  \/ VerifyPassword(r) \/ RecordLoginFailure(r) \/ ClearLoginFailures(r)
  \/ TOTPEnabled(r) \/ EstablishSession(r)
  \/ FindRecoveryCode(r) \/ ConsumeRecoveryCode(r)
  \/ StartTOTPEnrollment(r) \/ EnableTOTP(r) \/ DisableTOTP(r)
  \/ StatementFails(r)

Step ==
  \/ \E r \in Requests :
       \/ \E n \in Names, ip \in IPs : (traffic = "guess" \/ n = Account) /\ LoginSubmit(r, n, ip)
       \/ /\ traffic = "enrol"
          /\ (\E purpose \in {"session", "disable"} : PresentCode(r, purpose)) \/ MFASettings(r) \/ MFAEnable(r)
       \/ Serve(r)
  \/ Tick

Next == Step /\ UNCHANGED traffic

\* Time passes; nothing is assumed of the requests.
Spec == Init /\ [][Next]_vars /\ WF_vars(Tick /\ UNCHANGED traffic)

-----------------------------------------------------------------------------

Fresh(rows)   == {x \in rows : x[3] < Cooldown}
\* Wrong passwords tried under a key within a cooldown, those about to be recorded included.
Guesses(rows) ==
  Count(made, Fresh(rows))
    + Cardinality({q \in Requests : At(q, "record") /\ <<req[q].name, req[q].ip, 0>> \in rows})

\* Throttling holds under concurrency (app.go:1104 counts, 1124 records): within one
\* cooldown wrong passwords are tried for a username, and from an address, no more than
\* MaxAttempts times plus once for every other request already past the check; as often
\* again after each sign-in that cleared the failures of a username; and once more for
\* every count that could not be read and every failure that could not be recorded.
GuessesBounded ==
  LET share == MaxAttempts + Cardinality(Requests) - 1
      Bound(rows) == share * (1 + Count(cleared, Fresh(rows))) + faults
  IN /\ \A n \in Names : Guesses(RowsOfName(n)) <= Bound(RowsOfName(n))
     /\ \A ip \in IPs : Guesses(RowsOfIP(ip)) <= Bound(Row)

\* The lock of a username, and of an address, ends by itself (lockout.go:27): attempts made
\* while it is locked do not extend it.  (One who fails under the username elsewhere and
\* under other usernames from this address in turn can keep some lock on the pair.)
LockoutEnds ==
  /\ \A n \in Names : []<>~lockoutForKey(RowsOfName(n))
  /\ \A ip \in IPs : []<>~lockoutForKey(RowsOfIP(ip))

\* The factor is on only with a secret its owner has shown a code of (mfa.go,
\* mfaEnable), unless a settings page replaced the enrolment while the request to
\* enable it was on its way; and the recovery codes that work are those of the last
\* enabling.
FactorProven ==
  /\ totp.state = "on" /\ ~replaced => totp.secret \in proven
  /\ \A k \in Secrets : Unused(k) => k = enabled

\* A recovery code signs in once (migrations.go:400), unless two requests presented
\* it at the same time.
CodeAcceptedOnce == \A k \in Secrets \ contended : accepted[k] <= 1
=============================================================================
