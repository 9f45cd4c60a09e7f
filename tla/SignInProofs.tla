---------------------------- MODULE SignInProofs ----------------------------
(***************************************************************************)
(* Proofs, for any names, addresses, settings and number of requests, of   *)
(* the safety properties of SignIn.                                        *)
(***************************************************************************)
EXTENDS SignIn, FiniteSetTheorems, TLAPS

-----------------------------------------------------------------------------
(* The second factor                                                       *)

Points == {"idle", "find", "record", "clear", "factor", "session", "lookup", "consume",
           "start", "enable", "disable"}

\* A handler carries a name and an address while it checks a password, and the code
\* it was given while it looks that code up.
HandlerOK(h) ==
  /\ h.pc \in Points /\ h.for \in {"session", "disable"}
  /\ h.pc \in {"find", "record", "clear"} => h.name \in Names /\ h.ip \in IPs
  /\ h.pc \in {"lookup", "consume"} => h.secret \in Secrets

Carried == [pc : Points, name : Names \cup {None}, ip : IPs \cup {None}, secret : Nat \cup {None},
            for : {"session", "disable"}]

FactorTyped ==
  /\ req \in [Requests -> Carried]
  /\ totp \in [state : {"none", "pending", "on"}, secret : Nat \cup {None}]
  /\ issued \in Nat /\ enabled \in 0 .. MaxSecrets
  /\ code \in [Secrets -> {"none", "unused", "used"}]
  /\ accepted \in [Secrets -> Nat]

\* A request about to enable the factor has verified the secret that is stored, unless
\* a page replaced it meanwhile.
EnrolmentProven ==
  (\E q \in Requests : At(q, "enable")) /\ totp.state # "none" /\ ~replaced => totp.secret \in proven

\* The codes of enablings to come are neither on record nor accepted.
CodesToCome == \A k \in Secrets : k > enabled => code[k] = "none" /\ accepted[k] = 0

\* A code is accepted by the one request that found it unused.
AcceptedBy(k) ==
  /\ accepted[k] <= 1
  /\ code[k] = "unused" => accepted[k] = 0
  /\ \A q \in Requests : At(q, "consume") /\ req[q].secret = k =>
       accepted[k] = 0 /\ \A p \in Requests : At(p, "consume") /\ req[p].secret = k => p = q

FactorInv ==
  /\ FactorTyped
  /\ \A r \in Requests : HandlerOK(req[r])
  /\ FactorProven
  /\ EnrolmentProven
  /\ CodesToCome
  /\ \A k \in Secrets \ contended : AcceptedBy(k)

LEMMA IdleOK == Idle \in Carried /\ HandlerOK(Idle) /\ Idle.pc = "idle"
BY DEF Idle, Carried, HandlerOK, Points

\* One request moves on.
LEMMA ReqStep ==
  ASSUME FactorInv, NEW r \in Requests, NEW h \in Carried, HandlerOK(h), req' = [req EXCEPT ![r] = h]
  PROVE  /\ req' \in [Requests -> Carried]
         /\ req'[r] = h /\ \A q \in Requests \ {r} : req'[q] = req[q]
         /\ \A q \in Requests : HandlerOK(req'[q])
BY DEF FactorInv, FactorTyped

\* A step of a handler that leaves the enrolment and the codes alone.
LEMMA HandlerStep ==
  ASSUME FactorInv, NEW r \in Requests, NEW h \in Carried, HandlerOK(h), req' = [req EXCEPT ![r] = h],
         h.pc \notin {"consume", "enable"}, UNCHANGED <<factor, history>>
  PROVE  FactorInv'
<1>1. /\ req' \in [Requests -> Carried]
      /\ req'[r] = h /\ \A q \in Requests \ {r} : req'[q] = req[q]
      /\ \A q \in Requests : HandlerOK(req'[q])
  BY ReqStep
<1>2. UNCHANGED <<totp, issued, enabled, code, proven, accepted, replaced, contended>>
  BY DEF factor, history
<1>3. FactorTyped'
  BY <1>1, <1>2 DEF FactorInv, FactorTyped
<1>4. FactorProven' /\ CodesToCome'
  BY <1>2 DEF FactorInv, FactorProven, CodesToCome, Unused
<1>5. EnrolmentProven'
  BY <1>1, <1>2 DEF FactorInv, EnrolmentProven, At
<1>6. ASSUME NEW k \in Secrets \ contended PROVE AcceptedBy(k)'
  BY <1>1, <1>2 DEF FactorInv, AcceptedBy, At
<1> QED BY <1>1, <1>2, <1>3, <1>4, <1>5, <1>6 DEF FactorInv

\* A handler as a page or a form starts it, and one that goes on with what it carries.
LEMMA Carries ==
  ASSUME FactorInv, NEW r \in Requests
  PROVE  /\ req[r] \in Carried /\ HandlerOK(req[r])
         /\ \A pc \in Points \ {"find", "record", "clear", "lookup", "consume"} :
              LET h == [req[r] EXCEPT !.pc = pc] IN h \in Carried /\ HandlerOK(h) /\ h.pc = pc
         /\ \A pc \in Points \ {"find", "record", "clear", "lookup", "consume"} :
              LET h == [Idle EXCEPT !.pc = pc] IN h \in Carried /\ HandlerOK(h) /\ h.pc = pc
<1>1. req[r] \in Carried /\ HandlerOK(req[r])
  BY DEF FactorInv, FactorTyped
<1>2. ASSUME NEW h \in Carried, NEW pc \in Points \ {"find", "record", "clear", "lookup", "consume"}
      PROVE  LET g == [h EXCEPT !.pc = pc] IN g \in Carried /\ HandlerOK(g) /\ g.pc = pc
  BY DEF Carried, HandlerOK, Points
<1> QED BY <1>1, <1>2, IdleOK

LEMMA PasswordSteps ==
  ASSUME FactorInv, NEW r \in Requests,
         \/ \E n \in Names, ip \in IPs : LoginSubmit(r, n, ip)
         \/ VerifyPassword(r) \/ RecordLoginFailure(r) \/ ClearLoginFailures(r)
         \/ TOTPEnabled(r) \/ EstablishSession(r) \/ StatementFails(r)
  PROVE  FactorInv'
<1>0. /\ req[r] \in Carried /\ HandlerOK(req[r])
      /\ \A pc \in Points \ {"find", "record", "clear", "lookup", "consume"} :
           LET h == [req[r] EXCEPT !.pc = pc] IN h \in Carried /\ HandlerOK(h) /\ h.pc = pc
  BY Carries
<1>1. ASSUME Done(r), UNCHANGED <<factor, history>> PROVE FactorInv'
  BY <1>1, IdleOK, HandlerStep DEF Done, Goto
<1>2. ASSUME NEW pc \in {"factor", "session"}, Move(r, pc), UNCHANGED <<factor, history>> PROVE FactorInv'
  <2> DEFINE h == [req[r] EXCEPT !.pc = pc]
  <2>1. h \in Carried /\ HandlerOK(h) /\ h.pc = pc
    BY <1>0 DEF Points
  <2>2. req' = [req EXCEPT ![r] = h]
    BY <1>2 DEF Move, Goto
  <2> HIDE DEF h
  <2> QED BY <1>2, <2>1, <2>2, HandlerStep
<1>3. ASSUME NEW n \in Names, NEW ip \in IPs, LoginSubmit(r, n, ip) PROVE FactorInv'
  <2> DEFINE h == [Idle EXCEPT !.pc = "find", !.name = n, !.ip = ip]
  <2>1. h \in Carried /\ HandlerOK(h) /\ h.pc = "find"
    BY DEF Idle, Carried, HandlerOK, Points
  <2>2. req' = [req EXCEPT ![r] = h] /\ UNCHANGED <<factor, history>>
    BY <1>3 DEF LoginSubmit, Goto
  <2> HIDE DEF h
  <2> QED BY <2>1, <2>2, HandlerStep
<1>4. ASSUME VerifyPassword(r) PROVE FactorInv'
  <2>1. ASSUME NEW pc \in {"record", "clear"}, Move(r, pc) PROVE FactorInv'
    <3> DEFINE h == [req[r] EXCEPT !.pc = pc]
    <3>1. h \in Carried /\ HandlerOK(h) /\ h.pc = pc
      BY <1>0, <1>4 DEF Carried, HandlerOK, Points, VerifyPassword, At
    <3>2. req' = [req EXCEPT ![r] = h] /\ UNCHANGED <<factor, history>>
      BY <1>4, <2>1 DEF VerifyPassword, Move, Goto
    <3> HIDE DEF h
    <3> QED BY <3>1, <3>2, HandlerStep
  <2> QED BY <1>4, <2>1 DEF VerifyPassword
<1>5. ASSUME RecordLoginFailure(r) PROVE FactorInv'
  BY <1>1, <1>5 DEF RecordLoginFailure
<1>6. ASSUME ClearLoginFailures(r) PROVE FactorInv'
  BY <1>2, <1>6 DEF ClearLoginFailures
<1>7. ASSUME TOTPEnabled(r) PROVE FactorInv'
  BY <1>1, <1>2, <1>7 DEF TOTPEnabled
<1>8. ASSUME EstablishSession(r) PROVE FactorInv'
  BY <1>1, <1>8 DEF EstablishSession
<1>9. ASSUME StatementFails(r) PROVE FactorInv'
  BY <1>1, <1>9 DEF StatementFails
<1> QED BY <1>3, <1>4, <1>5, <1>6, <1>7, <1>8, <1>9

\* Looking a recovery code up and marking it used are two statements.
LEMMA CodeSteps ==
  ASSUME FactorInv, NEW r \in Requests,
         \/ \E purpose \in {"session", "disable"} : PresentCode(r, purpose)
         \/ FindRecoveryCode(r) \/ ConsumeRecoveryCode(r)
  PROVE  FactorInv'
<1>0. /\ req[r] \in Carried /\ HandlerOK(req[r])
      /\ \A pc \in {"session", "disable"} :
           LET h == [Idle EXCEPT !.pc = pc] IN h \in Carried /\ HandlerOK(h) /\ h.pc = pc
  BY Carries DEF Points
<1>1. ASSUME NEW purpose \in {"session", "disable"}, PresentCode(r, purpose) PROVE FactorInv'
  <2>1. UNCHANGED <<factor, history>>
    BY <1>1 DEF PresentCode
  <2>2. CASE Goto(r, [Idle EXCEPT !.pc = purpose])
    <3> DEFINE h == [Idle EXCEPT !.pc = purpose]
    <3>1. h \in Carried /\ HandlerOK(h) /\ h.pc = purpose
      BY <1>0
    <3>2. req' = [req EXCEPT ![r] = h]
      BY <2>2 DEF Goto
    <3> HIDE DEF h
    <3> QED BY <2>1, <3>1, <3>2, HandlerStep
  <2>3. ASSUME NEW k \in Secrets, Goto(r, [Idle EXCEPT !.pc = "lookup", !.secret = k, !.for = purpose])
        PROVE  FactorInv'
    <3> DEFINE h == [Idle EXCEPT !.pc = "lookup", !.secret = k, !.for = purpose]
    <3>0. k \in Nat
      BY SignInAssumption DEF Secrets
    <3>1. h \in Carried /\ HandlerOK(h) /\ h.pc = "lookup"
      BY <3>0 DEF Idle, Carried, HandlerOK, Points
    <3>2. req' = [req EXCEPT ![r] = h]
      BY <2>3 DEF Goto
    <3> HIDE DEF h
    <3> QED BY <2>1, <3>1, <3>2, HandlerStep
  <2> QED BY <1>1, <2>2, <2>3 DEF PresentCode
<1>2. ASSUME FindRecoveryCode(r) PROVE FactorInv'
  <2> DEFINE k == req[r].secret
             h == [req[r] EXCEPT !.pc = "consume"]
  <2>1. k \in Secrets
    BY <1>0, <1>2 DEF FindRecoveryCode, HandlerOK, At
  <2>2. CASE ~Unused(k)
    BY <1>2, <2>2, IdleOK, HandlerStep DEF FindRecoveryCode, Done, Goto, history
  <2>3. CASE Unused(k)
    <3>1. h \in Carried /\ HandlerOK(h) /\ h.pc = "consume" /\ h.secret = k
      BY <1>0, <2>1 DEF Carried, HandlerOK, Points
    <3>2. /\ req' = [req EXCEPT ![r] = h]
          /\ contended' = IF \E q \in Requests \ {r} : At(q, "consume") /\ req[q].secret = k
                          THEN contended \cup {k} ELSE contended
          /\ UNCHANGED <<totp, issued, enabled, code, proven, accepted, replaced>>
      BY <1>2, <2>3 DEF FindRecoveryCode, Move, Goto, factor
    <3>k. code[k] = "unused"
      BY <2>3 DEF Unused
    <3> HIDE DEF h, k
    <3>3. /\ req' \in [Requests -> Carried]
          /\ req'[r] = h /\ \A q \in Requests \ {r} : req'[q] = req[q]
          /\ \A q \in Requests : HandlerOK(req'[q])
      BY <3>1, <3>2, ReqStep
    <3>4. FactorTyped' /\ FactorProven' /\ CodesToCome'
      BY <3>2, <3>3 DEF FactorInv, FactorTyped, FactorProven, CodesToCome, Unused
    <3>5. EnrolmentProven'
      BY <3>1, <3>2, <3>3 DEF FactorInv, EnrolmentProven, At
    <3>6. ASSUME NEW j \in Secrets \ contended' PROVE AcceptedBy(j)'
      <4>1. j \notin contended /\ AcceptedBy(j)
        BY <3>2, <3>6 DEF FactorInv
      <4>2. CASE j # k
        BY <3>1, <3>2, <3>3, <4>1, <4>2 DEF AcceptedBy, At
      <4>3. CASE j = k
        <5>1. \A q \in Requests \ {r} : ~(At(q, "consume") /\ req[q].secret = k)
          BY <3>2, <3>6, <4>3
        <5> QED BY <3>1, <3>2, <3>3, <3>k, <4>1, <4>3, <5>1 DEF AcceptedBy, At
      <4> QED BY <4>2, <4>3
    <3> QED BY <3>3, <3>4, <3>5, <3>6 DEF FactorInv
  <2> QED BY <2>2, <2>3
<1>3. ASSUME ConsumeRecoveryCode(r) PROVE FactorInv'
  <2> DEFINE k == req[r].secret
             h == [Idle EXCEPT !.pc = req[r].for]
  <2>1. k \in Secrets /\ req[r].pc = "consume"
    BY <1>0, <1>3 DEF ConsumeRecoveryCode, HandlerOK, At
  <2>2. CASE code[k] = "none"
    BY <1>3, <2>2, IdleOK, HandlerStep DEF ConsumeRecoveryCode, Done, Goto, factor, history
  <2>3. CASE code[k] # "none"
    <3>1. h \in Carried /\ HandlerOK(h) /\ h.pc \in {"session", "disable"}
      BY <1>0 DEF HandlerOK
    <3>2. /\ req' = [req EXCEPT ![r] = h]
          /\ code' = [code EXCEPT ![k] = "used"]
          /\ accepted' = [accepted EXCEPT ![k] = @ + 1]
          /\ UNCHANGED <<totp, issued, enabled, proven, replaced, contended>>
      BY <1>3, <2>3 DEF ConsumeRecoveryCode, Goto
    <3>k. req[r].secret = k
      OBVIOUS
    <3> HIDE DEF h, k
    <3>3. /\ req' \in [Requests -> Carried]
          /\ req'[r] = h /\ \A q \in Requests \ {r} : req'[q] = req[q]
          /\ \A q \in Requests : HandlerOK(req'[q])
      BY <3>1, <3>2, ReqStep
    <3>4. /\ \A j \in Secrets \ {k} : code'[j] = code[j] /\ accepted'[j] = accepted[j]
          /\ code'[k] = "used" /\ accepted'[k] = accepted[k] + 1
          /\ FactorTyped'
      BY <2>1, <3>2, <3>3 DEF FactorInv, FactorTyped
    <3>5. FactorProven' /\ CodesToCome'
      <4>1. ~(k > enabled)
        BY <2>1, <2>3 DEF FactorInv, CodesToCome
      <4> QED BY <3>2, <3>4, <4>1 DEF FactorInv, FactorProven, CodesToCome, Unused
    <3>6. EnrolmentProven'
      BY <3>1, <3>2, <3>3 DEF FactorInv, EnrolmentProven, At
    <3>7. ASSUME NEW j \in Secrets \ contended' PROVE AcceptedBy(j)'
      <4>1. AcceptedBy(j)
        BY <3>2, <3>7 DEF FactorInv
      <4>2. CASE j # k
        BY <3>1, <3>3, <3>4, <4>1, <4>2 DEF AcceptedBy, At
      <4>3. CASE j = k
        <5>1. accepted[k] = 0 /\ \A p \in Requests : At(p, "consume") /\ req[p].secret = k => p = r
          BY <2>1, <3>k, <4>1, <4>3 DEF AcceptedBy, At
        <5> QED BY <3>1, <3>3, <3>4, <4>3, <5>1 DEF AcceptedBy, At
      <4> QED BY <4>2, <4>3
    <3> QED BY <3>3, <3>4, <3>5, <3>6, <3>7 DEF FactorInv
  <2> QED BY <2>2, <2>3
<1> QED BY <1>1, <1>2, <1>3

LEMMA EnrolmentSteps ==
  ASSUME FactorInv, NEW r \in Requests,
         \/ MFASettings(r) \/ StartTOTPEnrollment(r) \/ MFAEnable(r) \/ EnableTOTP(r) \/ DisableTOTP(r)
  PROVE  FactorInv'
<1>0. FactorTyped /\ FactorProven /\ EnrolmentProven /\ CodesToCome /\ totp.secret \in Nat \cup {None}
  BY DEF FactorInv, FactorTyped
<1>1. ASSUME MFASettings(r) PROVE FactorInv'
  <2> DEFINE h == [Idle EXCEPT !.pc = "start"]
  <2>1. h \in Carried /\ HandlerOK(h) /\ h.pc = "start"
    BY DEF Idle, Carried, HandlerOK, Points
  <2>2. req' = [req EXCEPT ![r] = h] /\ UNCHANGED <<factor, history>>
    BY <1>1 DEF MFASettings, Goto
  <2> HIDE DEF h
  <2> QED BY <2>1, <2>2, HandlerStep
\* The other four end idle or about to enable, and none looks at a recovery code.
<1>2. ASSUME NEW h \in Carried, HandlerOK(h), h.pc \in {"idle", "enable"}, req' = [req EXCEPT ![r] = h],
             UNCHANGED <<accepted, contended>>, FactorTyped', FactorProven', EnrolmentProven', CodesToCome',
             \A k \in Secrets : code'[k] = "unused" => code[k] = "unused" \/ accepted[k] = 0
      PROVE  FactorInv'
  <2>1. /\ req'[r] = h /\ \A q \in Requests \ {r} : req'[q] = req[q]
        /\ \A q \in Requests : HandlerOK(req'[q])
    BY <1>2, ReqStep
  <2>2. ASSUME NEW k \in Secrets \ contended' PROVE AcceptedBy(k)'
    BY <1>2, <2>1, <2>2 DEF FactorInv, AcceptedBy, At
  <2> QED BY <1>2, <2>1, <2>2 DEF FactorInv
<1>d. ASSUME Done(r)
      PROVE  /\ req' \in [Requests -> Carried] /\ req' = [req EXCEPT ![r] = Idle]
             /\ req'[r] = Idle /\ \A q \in Requests \ {r} : req'[q] = req[q]
             /\ \A q \in Requests : At(q, "enable")' => At(q, "enable")
  <2>1. req' = [req EXCEPT ![r] = Idle]
    BY <1>d DEF Done, Goto
  <2> QED BY <2>1, IdleOK, ReqStep DEF At
<1>3. ASSUME StartTOTPEnrollment(r) PROVE FactorInv'
  <2>1. /\ Done(r) /\ issued' = issued + 1 /\ totp' = [state |-> "pending", secret |-> issued + 1]
        /\ replaced' = (replaced \/ \E q \in Requests : At(q, "enable"))
        /\ UNCHANGED <<enabled, code, proven, accepted, contended>>
    BY <1>3 DEF StartTOTPEnrollment
  <2>2. FactorTyped'
    BY <1>0, <1>d, <2>1 DEF FactorTyped
  <2>3. FactorProven' /\ CodesToCome'
    BY <1>0, <2>1 DEF FactorProven, CodesToCome, Unused
  <2>4. EnrolmentProven'
    BY <1>d, <2>1 DEF EnrolmentProven
  <2> QED BY <1>2, <1>d, <2>1, <2>2, <2>3, <2>4, IdleOK
<1>4. ASSUME MFAEnable(r) PROVE FactorInv'
  <2> DEFINE h == [Idle EXCEPT !.pc = "enable", !.secret = totp.secret]
  <2>1. h \in Carried /\ HandlerOK(h) /\ h.pc = "enable"
    BY <1>0 DEF Idle, Carried, HandlerOK, Points
  <2>2. /\ req' = [req EXCEPT ![r] = h] /\ proven' = proven \cup {totp.secret}
        /\ UNCHANGED <<totp, issued, enabled, code, accepted, replaced, contended>>
    BY <1>4 DEF MFAEnable, Goto, factor
  <2> HIDE DEF h
  <2>3. FactorTyped'
    BY <1>0, <2>1, <2>2, ReqStep DEF FactorTyped
  <2>4. FactorProven' /\ CodesToCome' /\ EnrolmentProven'
    BY <1>0, <2>2 DEF FactorProven, CodesToCome, Unused, EnrolmentProven
  <2> QED BY <1>2, <2>1, <2>2, <2>3, <2>4
<1>5. ASSUME EnableTOTP(r) PROVE FactorInv'
  <2>1. /\ Done(r) /\ At(r, "enable") /\ UNCHANGED <<issued, proven, accepted, replaced, contended>>
    BY <1>5 DEF EnableTOTP, history
  <2>2. CASE totp.state = "none"
    <3>1. UNCHANGED <<totp, enabled, code>>
      BY <1>5, <2>2 DEF EnableTOTP
    <3>2. FactorTyped'
      BY <1>0, <1>d, <2>1, <3>1 DEF FactorTyped
    <3>3. FactorProven' /\ CodesToCome' /\ EnrolmentProven'
      BY <1>0, <1>d, <2>1, <2>2, <3>1 DEF FactorProven, CodesToCome, Unused, EnrolmentProven
    <3> QED BY <1>2, <1>d, <2>1, <3>1, <3>2, <3>3, IdleOK
  <2>3. CASE totp.state # "none"
    <3>1. /\ enabled < MaxSecrets /\ enabled' = enabled + 1 /\ totp' = [totp EXCEPT !.state = "on"]
          /\ code' = [c \in Secrets |-> IF c = enabled + 1 THEN "unused" ELSE "none"]
      BY <1>5, <2>3 DEF EnableTOTP, NewCodes
    <3>2. enabled + 1 \in Secrets /\ totp'.secret = totp.secret /\ totp'.state = "on"
      BY <1>0, <3>1, SignInAssumption DEF FactorTyped, Secrets
    <3>3. FactorTyped'
      BY <1>0, <1>d, <2>1, <3>1, <3>2, SignInAssumption DEF FactorTyped
    <3>4. ~replaced => totp.secret \in proven
      BY <1>0, <2>1, <2>3 DEF EnrolmentProven
    <3>5. FactorProven' /\ EnrolmentProven'
      BY <2>1, <3>1, <3>2, <3>4 DEF FactorProven, Unused, EnrolmentProven
    <3>6. CodesToCome' /\ accepted[enabled + 1] = 0
      BY <1>0, <2>1, <3>1, <3>2, SignInAssumption DEF CodesToCome, Secrets, FactorTyped
    <3>7. \A k \in Secrets : code'[k] = "unused" => accepted[k] = 0
      BY <3>1, <3>6
    <3> QED BY <1>2, <1>d, <2>1, <3>3, <3>5, <3>6, <3>7, IdleOK
  <2> QED BY <2>2, <2>3
<1>6. ASSUME DisableTOTP(r) PROVE FactorInv'
  <2>1. Done(r) /\ totp' = NoFactor /\ UNCHANGED <<issued, enabled, code, proven, accepted, replaced, contended>>
    BY <1>6 DEF DisableTOTP, history
  <2>2. FactorTyped'
    BY <1>0, <1>d, <2>1 DEF FactorTyped, NoFactor
  <2>3. FactorProven' /\ CodesToCome' /\ EnrolmentProven'
    BY <1>0, <2>1 DEF FactorProven, CodesToCome, Unused, EnrolmentProven, NoFactor
  <2> QED BY <1>2, <1>d, <2>1, <2>2, <2>3, IdleOK
<1> QED BY <1>1, <1>3, <1>4, <1>5, <1>6

LEMMA FactorInvariant == Spec => []FactorInv
<1>1. Init => FactorInv
  <2> SUFFICES ASSUME Init PROVE FactorInv
    OBVIOUS
  <2>1. FactorTyped /\ \A r \in Requests : HandlerOK(req[r]) /\ req[r].pc = "idle"
    BY IdleOK, SignInAssumption DEF Init, FactorTyped, NoFactor
  <2>2. FactorProven /\ EnrolmentProven /\ CodesToCome
    BY DEF Init, FactorProven, EnrolmentProven, CodesToCome, Unused, NoFactor
  <2>3. \A k \in Secrets \ contended : AcceptedBy(k)
    BY <2>1 DEF Init, AcceptedBy, At
  <2> QED BY <2>1, <2>2, <2>3 DEF FactorInv
<1>2. FactorInv /\ [Next]_vars => FactorInv'
  <2> SUFFICES ASSUME FactorInv, [Next]_vars PROVE FactorInv'
    OBVIOUS
  <2>1. ASSUME UNCHANGED <<factor, req, history>> PROVE FactorInv'
    <3>1. UNCHANGED <<req, totp, issued, enabled, code, proven, accepted, replaced, contended>>
      BY <2>1 DEF factor, history
    <3>2. FactorTyped' /\ FactorProven' /\ EnrolmentProven' /\ CodesToCome'
      BY <3>1 DEF FactorInv, FactorTyped, FactorProven, EnrolmentProven, CodesToCome, Unused, At
    <3>3. \A k \in Secrets \ contended : AcceptedBy(k)'
      BY <3>1 DEF FactorInv, AcceptedBy, At
    <3> QED BY <3>1, <3>2, <3>3 DEF FactorInv
  <2>2. CASE UNCHANGED vars
    BY <2>1, <2>2 DEF vars
  <2>3. CASE Tick
    BY <2>1, <2>3 DEF Tick
  <2>4. CASE Step
    BY <2>3, <2>4, PasswordSteps, CodeSteps, EnrolmentSteps DEF Step, Serve
  <2> QED BY <2>2, <2>4 DEF Next
<1> QED BY <1>1, <1>2, PTL DEF Spec

(***************************************************************************)
(* The second factor is on only with a secret its owner has shown a code   *)
(* of (mfaEnable, EnableTOTP), unless a settings page replaced the         *)
(* enrolment behind the request; the recovery codes that work are those of *)
(* the last enabling.                                                      *)
(***************************************************************************)
THEOREM FactorStaysProven == Spec => []FactorProven
BY FactorInvariant, PTL DEF FactorInv

(***************************************************************************)
(* A recovery code is accepted once (ConsumeRecoveryCode), unless two      *)
(* requests had both found it unused.                                      *)
(***************************************************************************)
THEOREM CodesAcceptedOnce == Spec => []CodeAcceptedOnce
<1>1. FactorInv => CodeAcceptedOnce
  BY DEF FactorInv, CodeAcceptedOnce, AcceptedBy
<1> QED BY <1>1, FactorInvariant, PTL

-----------------------------------------------------------------------------
(* Throttling                                                              *)

\* What Count counts, of any table of attempts, and the part of it younger than a.
Marks(f, rows) == {y \in rows \X (1 .. MaxFailures) : y[2] <= f[y[1]]}
Young(rows, a) == {x \in rows : x[3] < a}
M(f, rows, a)  == Cardinality(Marks(f, Young(rows, a)))

\* The keys that are throttled, with the rows under which sign-ins clear their failures.
Key(rows, from) ==
  \/ \E n \in Names : rows = RowsOfName(n) /\ from = rows
  \/ \E ip \in IPs : rows = RowsOfIP(ip) /\ from = Row

\* The requests past the check that may still fail under a key.
Guessing(rows) ==
  {q \in Requests : req[q].pc \in {"find", "record"} /\ <<req[q].name, req[q].ip, 0>> \in rows}

Share == MaxAttempts + Cardinality(Requests) - 1
Spans == {a \in 0 .. Window : a <= Cooldown}

\* Of every span up to the cooldown: the failures made in it, with the ones that may
\* follow, are a share for each time the count started over, and a fault each; and
\* those that are not on record are a share for each clearing and a fault each.
Throttled(rows, from, a) ==
  /\ M(made, rows, a) + Cardinality(Guessing(rows)) <= Share + Share * M(cleared, from, a) + faults
  /\ M(made, rows, a) <= M(failed, rows, a) + Share * M(cleared, from, a) + faults

AttemptsTyped ==
  /\ failed \in [Row -> Nat] /\ made \in [Row -> Nat] /\ cleared \in [Row -> Nat] /\ faults \in Nat
  /\ \A x \in Row : failed[x] <= made[x]
  /\ IsFiniteSet(Marks(failed, Row)) /\ IsFiniteSet(Marks(made, Row)) /\ IsFiniteSet(Marks(cleared, Row))

ThrottleInv ==
  /\ AttemptsTyped
  /\ \A rows \in SUBSET Row, from \in SUBSET Row, a \in Spans : Key(rows, from) => Throttled(rows, from, a)

LEMMA Sizes ==
  /\ Share \in Nat /\ Cardinality(Requests) \in Nat /\ Share = MaxAttempts + Cardinality(Requests) - 1
  /\ MaxAttempts \in Nat \ {0} /\ Window \in Nat \ {0} /\ Cooldown \in Nat \ {0} /\ MaxFailures \in Nat
  /\ \A m \in Nat : Share * m \in Nat /\ Share * (m + 1) = Share * m + Share
  /\ Share * 0 = 0
<1>1. Cardinality(Requests) \in Nat /\ MaxAttempts \in Nat \ {0}
  BY SignInAssumption, FS_CardinalityType
<1>2. Share \in Nat /\ Share = MaxAttempts + Cardinality(Requests) - 1
  BY <1>1 DEF Share
<1> HIDE DEF Share
<1>3. ASSUME NEW m \in Nat PROVE Share * m \in Nat /\ Share * (m + 1) = Share * m + Share
  BY <1>2
<1> QED BY <1>1, <1>2, <1>3, SignInAssumption

LEMMA MarksFewer ==
  ASSUME NEW f, NEW g, NEW rows, NEW more, rows \subseteq more, IsFiniteSet(Marks(f, more)),
         \A x \in rows : g[x] \in Nat /\ f[x] \in Nat /\ g[x] <= f[x]
  PROVE  /\ IsFiniteSet(Marks(g, rows)) /\ IsFiniteSet(Marks(f, more))
         /\ Cardinality(Marks(g, rows)) \in Nat /\ Cardinality(Marks(f, more)) \in Nat
         /\ Cardinality(Marks(g, rows)) <= Cardinality(Marks(f, more))
<1>1. Marks(g, rows) \subseteq Marks(f, more)
  <2> SUFFICES ASSUME NEW x \in rows, NEW i \in 1 .. MaxFailures, i <= g[x]
               PROVE  <<x, i>> \in Marks(f, more)
    BY DEF Marks
  <2> QED BY SignInAssumption DEF Marks
<1> QED BY <1>1, FS_Subset, FS_CardinalityType

\* The parts of a finite table.
LEMMA Parts ==
  ASSUME NEW f \in [Row -> Nat], IsFiniteSet(Marks(f, Row)), NEW rows \in SUBSET Row, NEW a
  PROVE  /\ IsFiniteSet(Marks(f, rows)) /\ Cardinality(Marks(f, rows)) \in Nat
         /\ Young(rows, a) \in SUBSET Row /\ IsFiniteSet(Marks(f, Young(rows, a)))
         /\ M(f, rows, a) \in Nat /\ M(f, rows, a) <= Cardinality(Marks(f, rows))
<1>1. \A x \in Row : f[x] \in Nat /\ f[x] <= f[x]
  OBVIOUS
<1>2. Young(rows, a) \in SUBSET rows /\ Young(rows, a) \in SUBSET Row
  BY DEF Young
<1>3. IsFiniteSet(Marks(f, rows)) /\ Cardinality(Marks(f, rows)) \in Nat
  BY <1>1, MarksFewer
<1>4. /\ IsFiniteSet(Marks(f, Young(rows, a))) /\ Cardinality(Marks(f, Young(rows, a))) \in Nat
      /\ Cardinality(Marks(f, Young(rows, a))) <= Cardinality(Marks(f, rows))
  BY <1>1, <1>2, <1>3, MarksFewer
<1> QED BY <1>2, <1>3, <1>4 DEF M

LEMMA NoneYoung ==
  ASSUME NEW f, NEW rows \in SUBSET Row
  PROVE  M(f, rows, 0) = 0
<1>1. Young(rows, 0) = {}
  BY SignInAssumption DEF Young, Row, Ages
<1>2. Marks(f, {}) = {}
  BY DEF Marks
<1> QED BY <1>1, <1>2, FS_EmptySet DEF M

LEMMA Counts ==
  ASSUME ThrottleInv, NEW rows \in SUBSET Row, NEW from \in SUBSET Row, NEW a
  PROVE  /\ M(made, rows, a) \in Nat /\ M(failed, rows, a) \in Nat /\ M(cleared, from, a) \in Nat
         /\ Share * M(cleared, from, a) \in Nat /\ faults \in Nat
<1>1. M(made, rows, a) \in Nat /\ M(failed, rows, a) \in Nat /\ M(cleared, from, a) \in Nat
  BY Parts DEF ThrottleInv, AttemptsTyped
<1> HIDE DEF M
<1> QED BY <1>1, Sizes DEF ThrottleInv, AttemptsTyped

\* One more is one more mark, none outside its row, and none beyond MaxFailures.
LEMMA MarksOneMore ==
  ASSUME NEW f \in [Row -> Nat], NEW rows \in SUBSET Row, IsFiniteSet(Marks(f, rows)), NEW x \in Row
  PROVE  LET g == [f EXCEPT ![x] = @ + 1] IN
         /\ IsFiniteSet(Marks(g, rows)) /\ Cardinality(Marks(g, rows)) \in Nat
         /\ Cardinality(Marks(g, rows)) <= Cardinality(Marks(f, rows)) + 1
         /\ x \notin rows => Marks(g, rows) = Marks(f, rows)
         /\ x \in rows /\ f[x] < MaxFailures => Cardinality(Marks(g, rows)) = Cardinality(Marks(f, rows)) + 1
<1> DEFINE g == [f EXCEPT ![x] = @ + 1]
           new == <<x, f[x] + 1>>
<1>1. g \in [Row -> Nat] /\ g[x] = f[x] + 1 /\ \A z \in Row \ {x} : g[z] = f[z]
  OBVIOUS
<1> HIDE DEF g
<1>2. Marks(g, rows) \subseteq Marks(f, rows) \cup {new}
  <2> SUFFICES ASSUME NEW z \in rows, NEW i \in 1 .. MaxFailures, i <= g[z]
               PROVE  <<z, i>> \in Marks(f, rows) \cup {new}
    BY DEF Marks
  <2>1. z \in Row /\ f[z] \in Nat /\ i \in Nat
    BY SignInAssumption
  <2>2. CASE i <= f[z]
    BY <2>2 DEF Marks
  <2>3. CASE ~(i <= f[z])
    BY <1>1, <2>1, <2>3
  <2> QED BY <2>2, <2>3
<1>3. ASSUME x \notin rows PROVE Marks(g, rows) = Marks(f, rows)
  <2>1. \A z \in rows : g[z] = f[z]
    BY <1>1, <1>3
  <2> QED BY <2>1 DEF Marks
<1>6. ASSUME x \in rows, f[x] < MaxFailures
      PROVE  Marks(g, rows) = Marks(f, rows) \cup {new} /\ new \notin Marks(f, rows)
  <2>1. f[x] \in Nat /\ MaxFailures \in Nat
    BY SignInAssumption
  <2>2. f[x] + 1 \in 1 .. MaxFailures /\ f[x] + 1 <= g[x] /\ ~(f[x] + 1 <= f[x])
    BY <1>1, <1>6, <2>1
  <2>3. new \in Marks(g, rows) /\ new \notin Marks(f, rows)
    BY <1>6, <2>2 DEF Marks
  <2>4. Marks(f, rows) \subseteq Marks(g, rows)
    <3> SUFFICES ASSUME NEW z \in rows, NEW i \in 1 .. MaxFailures, i <= f[z]
                 PROVE  <<z, i>> \in Marks(g, rows)
      BY DEF Marks
    <3>1. f[z] \in Nat /\ g[z] \in Nat /\ f[z] <= g[z] /\ i \in Nat
      BY <1>1, SignInAssumption
    <3>2. i <= g[z]
      BY <3>1
    <3> QED BY <3>2 DEF Marks
  <2> HIDE DEF new
  <2> QED BY <1>2, <2>3, <2>4
<1> HIDE DEF new
<1>4. /\ IsFiniteSet(Marks(f, rows) \cup {new}) /\ Cardinality(Marks(f, rows)) \in Nat
      /\ Cardinality(Marks(f, rows) \cup {new}) <= Cardinality(Marks(f, rows)) + 1
      /\ new \notin Marks(f, rows) => Cardinality(Marks(f, rows) \cup {new}) = Cardinality(Marks(f, rows)) + 1
  <2>1. /\ IsFiniteSet(Marks(f, rows) \cup {new})
        /\ Cardinality(Marks(f, rows) \cup {new}) =
             IF new \in Marks(f, rows) THEN Cardinality(Marks(f, rows)) ELSE Cardinality(Marks(f, rows)) + 1
    BY FS_AddElement
  <2>2. Cardinality(Marks(f, rows)) \in Nat
    BY FS_CardinalityType
  <2> QED BY <2>1, <2>2
<1>5. /\ IsFiniteSet(Marks(g, rows)) /\ Cardinality(Marks(g, rows)) \in Nat
      /\ Cardinality(Marks(g, rows)) <= Cardinality(Marks(f, rows) \cup {new})
      /\ Cardinality(Marks(f, rows) \cup {new}) \in Nat
  BY <1>2, <1>4, FS_Subset, FS_CardinalityType
<1>7. x \in rows /\ f[x] < MaxFailures => Cardinality(Marks(g, rows)) = Cardinality(Marks(f, rows)) + 1
  BY <1>4, <1>6
<1> QED BY <1>3, <1>4, <1>5, <1>7 DEF g

\* A table that is not full has room in every row.
LEMMA RoomInRow ==
  ASSUME NEW f \in [Row -> Nat], IsFiniteSet(Marks(f, Row)), Count(f, Row) < MaxFailures, NEW x \in Row
  PROVE  f[x] < MaxFailures
<1> SUFFICES ASSUME ~(f[x] < MaxFailures) PROVE FALSE
  OBVIOUS
<1> DEFINE S == 1 .. MaxFailures
           T == Marks(f, Row)
           mark == [i \in S |-> <<x, i>>]
<1>1. MaxFailures \in Nat /\ f[x] \in Nat /\ \A i \in S : i \in Nat /\ i <= f[x]
  BY SignInAssumption
<1>2. \A i \in S : <<x, i>> \in T
  BY <1>1 DEF Marks
<1>3. \A i, j \in S : <<x, i>> = <<x, j>> => i = j
  OBVIOUS
<1> HIDE DEF S, T
<1>4. mark \in [S -> T] /\ \A i \in S : mark[i] = <<x, i>>
  BY <1>2
<1> HIDE DEF mark
<1>5. mark \in Injection(S, T)
  BY <1>3, <1>4 DEF Injection, IsInjective
<1>6. Cardinality(S) <= Cardinality(T) /\ Cardinality(T) \in Nat
  BY <1>5, FS_Injection, FS_CardinalityType DEF T
<1>7. Cardinality(S) = MaxFailures
  BY <1>1, FS_Interval DEF S
<1>8. Count(f, Row) = Cardinality(T)
  BY DEF Count, T, Marks
<1> QED BY <1>1, <1>6, <1>7, <1>8

LEMMA KeyOfRows ==
  ASSUME NEW rows \in SUBSET Row, NEW from \in SUBSET Row, Key(rows, from)
  PROVE  /\ \A x \in rows, b \in Ages : <<x[1], x[2], b>> \in rows
         /\ \A x \in from, b \in Ages : <<x[1], x[2], b>> \in from
<1>1. \A n \in Names : \A x \in RowsOfName(n), b \in Ages : <<x[1], x[2], b>> \in RowsOfName(n)
  BY DEF RowsOfName, Row
<1>2. \A ip \in IPs : \A x \in RowsOfIP(ip), b \in Ages : <<x[1], x[2], b>> \in RowsOfIP(ip)
  BY DEF RowsOfIP, Row
<1>3. \A x \in Row, b \in Ages : <<x[1], x[2], b>> \in Row
  BY DEF Row
<1> QED BY <1>1, <1>2, <1>3 DEF Key

\* A tick moves every table one age on.
LEMMA MarksAge ==
  ASSUME NEW f \in [Row -> Nat], IsFiniteSet(Marks(f, Row)), NEW rows \in SUBSET Row, NEW a \in Nat, a < Window,
         \A x \in rows, b \in Ages : <<x[1], x[2], b>> \in rows
  PROVE  /\ IsFiniteSet(Marks([x \in Row |-> Age(f, x)], Young(rows, a + 1)))
         /\ M([x \in Row |-> Age(f, x)], rows, a + 1) = M(f, rows, a)
<1> DEFINE g == [x \in Row |-> Age(f, x)]
           S == Marks(g, Young(rows, a + 1))
           T == Marks(f, Young(rows, a))
           younger(x) == <<x[1], x[2], x[3] - 1>>
           old(y) == <<younger(y[1]), y[2]>>
           move == [y \in S |-> old(y)]
<1>0. Window \in Nat /\ \A x \in Row : x[3] \in Nat /\ x[3] < Window /\ x = <<x[1], x[2], x[3]>>
  BY SignInAssumption DEF Row, Ages
<1>1. ASSUME NEW y \in S
      PROVE  /\ y[1] \in rows /\ y[1] \in Row /\ y[2] \in 1 .. MaxFailures /\ y = <<y[1], y[2]>>
             /\ y[1][3] \in Nat /\ y[1][3] > 0 /\ y[1][3] < a + 1
             /\ y[2] <= f[<<y[1][1], y[1][2], y[1][3] - 1>>]
             /\ y[1] = <<y[1][1], y[1][2], y[1][3]>>
             /\ younger(y[1]) \in rows
  <2>1. /\ y[1] \in rows /\ y[1] \in Row /\ y[2] \in 1 .. MaxFailures /\ y = <<y[1], y[2]>> /\ y[2] <= g[y[1]]
        /\ y[1][3] < a + 1
    BY DEF Marks, Young
  <2>2. y[1][3] \in Nat /\ y[1] = <<y[1][1], y[1][2], y[1][3]>> /\ y[1][3] < Window
    BY <1>0, <2>1
  <2>3. g[y[1]] = Age(f, y[1])
    BY <2>1
  <2>4. y[1][3] # 0
    BY <2>1, <2>3, SignInAssumption DEF Age
  <2>5. y[1][3] - 1 \in Ages
    <3>1. ASSUME NEW b \in Nat, b # 0, b < Window PROVE b - 1 \in Ages
      BY <1>0, <3>1 DEF Ages
    <3> QED BY <2>2, <2>4, <3>1
  <2> QED BY <2>1, <2>2, <2>3, <2>4, <2>5 DEF Age
<1>2. \A y \in S : old(y) \in T
  <2> SUFFICES ASSUME NEW y \in S PROVE old(y) \in T
    OBVIOUS
  <2>0. ASSUME NEW b \in Nat, b < a + 1, b > 0 PROVE b - 1 < a
    BY <2>0
  <2>1. younger(y[1])[3] = y[1][3] - 1 /\ y[1][3] - 1 < a
    <3>1. y[1][3] \in Nat /\ y[1][3] < a + 1 /\ y[1][3] > 0
      BY <1>1
    <3> HIDE DEF S
    <3> QED BY <2>0, <3>1
  <2>2. younger(y[1]) \in Young(rows, a)
    BY <1>1, <2>1 DEF Young
  <2> QED BY <1>1, <2>2 DEF Marks
<1>3. \A y, z \in S : old(y) = old(z) => y = z
  <2> SUFFICES ASSUME NEW y \in S, NEW z \in S, old(y) = old(z) PROVE y = z
    OBVIOUS
  <2>1. younger(y[1]) = younger(z[1]) /\ y[2] = z[2]
    <3> HIDE DEF younger
    <3>1. old(y)[1] = younger(y[1]) /\ old(y)[2] = y[2] /\ old(z)[1] = younger(z[1]) /\ old(z)[2] = z[2]
      OBVIOUS
    <3> QED BY <3>1
  <2>2. y[1][1] = z[1][1] /\ y[1][2] = z[1][2] /\ y[1][3] - 1 = z[1][3] - 1
    <3>1. ASSUME NEW x PROVE younger(x)[1] = x[1] /\ younger(x)[2] = x[2] /\ younger(x)[3] = x[3] - 1
      OBVIOUS
    <3> HIDE DEF younger
    <3> QED BY <2>1, <3>1
  <2>3. /\ y[1][3] \in Nat /\ y[1] = <<y[1][1], y[1][2], y[1][3]>> /\ y = <<y[1], y[2]>>
        /\ z[1][3] \in Nat /\ z[1] = <<z[1][1], z[1][2], z[1][3]>> /\ z = <<z[1], z[2]>>
    BY <1>1
  <2> HIDE DEF S, T, old
  <2>4. y[1][3] = z[1][3]
    BY <2>2, <2>3
  <2>5. y[1] = z[1]
    BY <2>2, <2>3, <2>4, Zenon
  <2> QED BY <2>1, <2>3, <2>5, Zenon
<1>4. ASSUME NEW t \in T PROVE \E y \in S : old(y) = t
  <2> DEFINE x == <<t[1][1], t[1][2], t[1][3] + 1>>
  <2>1. /\ t[1] \in rows /\ t[1] \in Row /\ t[2] \in 1 .. MaxFailures /\ t = <<t[1], t[2]>> /\ t[2] <= f[t[1]]
        /\ t[1][3] < a
    BY DEF Marks, Young
  <2>2. t[1][3] \in Nat /\ t[1] = <<t[1][1], t[1][2], t[1][3]>>
    BY <1>0, <2>1
  <2>3. t[1][3] + 1 \in Ages /\ t[1][3] + 1 < a + 1 /\ t[1][3] + 1 # 0 /\ (t[1][3] + 1) - 1 = t[1][3]
    BY <1>0, <2>1, <2>2 DEF Ages
  <2>4. x[1] = t[1][1] /\ x[2] = t[1][2] /\ x[3] = t[1][3] + 1 /\ x \in rows
    BY <2>1, <2>3
  <2> HIDE DEF x
  <2>5. younger(x) = t[1]
    BY <2>2, <2>3, <2>4
  <2>6. x \in Row /\ g[x] = f[t[1]]
    <3>1. x \in Row /\ g[x] = Age(f, x)
      BY <2>4
    <3>2. Age(f, x) = f[younger(x)]
      BY <2>3, <2>4 DEF Age
    <3> QED BY <2>5, <3>1, <3>2
  <2> HIDE DEF younger, g
  <2>7. <<x, t[2]>> \in S
    BY <2>1, <2>3, <2>4, <2>6 DEF Marks, Young
  <2>8. old(<<x, t[2]>>) = t
    BY <2>1, <2>5
  <2> QED BY <2>7, <2>8
<1> HIDE DEF S, T, old, younger
<1>5. move \in [S -> T] /\ \A y \in S : move[y] = old(y)
  BY <1>2
<1> HIDE DEF move
<1>6. move \in Injection(S, T)
  BY <1>3, <1>5 DEF Injection, IsInjective
<1>7. move \in Surjection(S, T)
  BY <1>4, <1>5 DEF Surjection
<1>8. IsFiniteSet(T)
  BY Parts DEF T
<1>9. IsFiniteSet(S) /\ Cardinality(S) = Cardinality(T)
  BY <1>6, <1>7, <1>8, FS_Injection
<1> QED BY <1>9 DEF S, T, M

LEMMA AgeFinite ==
  ASSUME NEW f \in [Row -> Nat], IsFiniteSet(Marks(f, Row))
  PROVE  IsFiniteSet(Marks([x \in Row |-> Age(f, x)], Row))
<1>1. Window - 1 \in Nat /\ Window - 1 < Window /\ (Window - 1) + 1 = Window
  BY SignInAssumption
<1>2. \A x \in Row, b \in Ages : <<x[1], x[2], b>> \in Row
  BY DEF Row
<1>3. Young(Row, Window) = Row
  BY SignInAssumption DEF Young, Row, Ages
<1>4. IsFiniteSet(Marks([x \in Row |-> Age(f, x)], Young(Row, (Window - 1) + 1)))
  BY <1>1, <1>2, MarksAge
<1> QED BY <1>1, <1>3, <1>4

LEMMA GuessingFinite ==
  ASSUME NEW rows
  PROVE  /\ IsFiniteSet(Guessing(rows)) /\ Cardinality(Guessing(rows)) \in Nat
         /\ Cardinality(Guessing(rows)) <= Cardinality(Requests) /\ Cardinality(Requests) \in Nat
<1>1. Guessing(rows) \in SUBSET Requests
  BY DEF Guessing
<1> QED BY <1>1, SignInAssumption, FS_Subset, FS_CardinalityType

\* A step that touches no attempt and lets no request past the check.
LEMMA QuietStep ==
  ASSUME ThrottleInv, UNCHANGED attempts, faults' \in Nat, faults <= faults',
         \A rows \in SUBSET Row : Guessing(rows)' \subseteq Guessing(rows)
  PROVE  ThrottleInv'
<1>1. UNCHANGED <<failed, made, cleared>>
  BY DEF attempts
<1>2. AttemptsTyped'
  BY <1>1 DEF ThrottleInv, AttemptsTyped
<1>3. ASSUME NEW rows \in SUBSET Row, NEW from \in SUBSET Row, NEW a \in Spans, Key(rows, from)
      PROVE  Throttled(rows, from, a)'
  <2>1. Throttled(rows, from, a)
    BY <1>3 DEF ThrottleInv
  <2>2. Cardinality(Guessing(rows)') \in Nat /\ Cardinality(Guessing(rows)') <= Cardinality(Guessing(rows))
    BY GuessingFinite, FS_Subset, FS_CardinalityType
  <2>3. M(made', rows, a) = M(made, rows, a) /\ M(failed', rows, a) = M(failed, rows, a)
        /\ M(cleared', from, a) = M(cleared, from, a)
    BY <1>1
  <2>4. /\ M(made, rows, a) \in Nat /\ M(failed, rows, a) \in Nat /\ Share * M(cleared, from, a) \in Nat
        /\ faults \in Nat /\ Share \in Nat
    BY Counts, Sizes
  <2> DEFINE p == Share * M(cleared, from, a)
             g == Cardinality(Guessing(rows))
             gg == Cardinality(Guessing(rows)')
  <2>5. /\ M(made, rows, a) + g <= Share + p + faults
        /\ M(made, rows, a) <= M(failed, rows, a) + p + faults
    BY <2>1 DEF Throttled
  <2>6. g \in Nat /\ gg \in Nat /\ gg <= g /\ p \in Nat
    BY <2>2, <2>4, GuessingFinite
  <2> HIDE DEF p, g, gg
  <2>7. /\ M(made, rows, a) + gg <= Share + p + faults'
        /\ M(made, rows, a) <= M(failed, rows, a) + p + faults'
    BY <2>4, <2>5, <2>6
  <2> QED BY <2>3, <2>7 DEF Throttled, p, gg
<1> QED BY <1>2, <1>3 DEF ThrottleInv

\* Only a request past the check that has not failed yet is guessing.
LEMMA GuessingLess ==
  ASSUME FactorInv, NEW r \in Requests, NEW h, req' = [req EXCEPT ![r] = h],
         h.pc \in {"find", "record"} => At(r, "find") /\ h.name = req[r].name /\ h.ip = req[r].ip
  PROVE  \A rows \in SUBSET Row : Guessing(rows)' \subseteq Guessing(rows)
<1>1. req'[r] = h /\ \A q \in Requests \ {r} : req'[q] = req[q]
  BY DEF FactorInv, FactorTyped
<1> QED BY <1>1 DEF Guessing, At

\* The check is what bounds the requests past it: under a key that is not locked, what
\* is on record of a cooldown leaves room for every request.
LEMMA LoginThrottled ==
  ASSUME FactorInv, ThrottleInv, NEW r \in Requests, NEW n \in Names, NEW ip \in IPs, LoginSubmit(r, n, ip)
  PROVE  ThrottleInv'
<1> DEFINE h == [Idle EXCEPT !.pc = "find", !.name = n, !.ip = ip]
<1>1. h.pc = "find" /\ h.name = n /\ h.ip = ip
  BY DEF Idle
<1>2. /\ req[r].pc = "idle" /\ req' = [req EXCEPT ![r] = h] /\ UNCHANGED <<failed, made, cleared>>
      /\ \/ ~evaluateLockout(n, ip) /\ faults' = faults
         \/ faults' = faults + 1
  BY DEF LoginSubmit, Goto, At, attempts
<1> HIDE DEF h
<1>3. req'[r] = h /\ \A q \in Requests \ {r} : req'[q] = req[q]
  BY <1>2 DEF FactorInv, FactorTyped
<1>4. AttemptsTyped /\ failed \in [Row -> Nat] /\ IsFiniteSet(Marks(failed, Row)) /\ faults \in Nat
  BY DEF ThrottleInv, AttemptsTyped
<1>5. ASSUME NEW rows \in SUBSET Row, NEW from \in SUBSET Row, NEW a \in Spans, Key(rows, from)
      PROVE  Throttled(rows, from, a)'
  <2> DEFINE m == M(made, rows, a)
             k == M(failed, rows, a)
             p == Share * M(cleared, from, a)
             g == Cardinality(Guessing(rows))
             gg == Cardinality(Guessing(rows)')
             c == Cardinality(Requests)
  <2>1. m \in Nat /\ k \in Nat /\ p \in Nat /\ g \in Nat /\ c \in Nat /\ k <= Cardinality(Marks(failed, rows))
        /\ Cardinality(Marks(failed, rows)) \in Nat
    BY <1>4, Counts, GuessingFinite, Parts
  <2>2. m + g <= Share + p + faults /\ m <= k + p + faults
    BY <1>5 DEF ThrottleInv, Throttled
  <2>3. Guessing(rows)' \subseteq Guessing(rows) \cup {r}
    BY <1>3 DEF Guessing
  <2>4. /\ IsFiniteSet(Guessing(rows) \cup {r}) /\ Cardinality(Guessing(rows) \cup {r}) \in Nat
        /\ Cardinality(Guessing(rows) \cup {r}) <= g + 1
    <3>1. /\ IsFiniteSet(Guessing(rows) \cup {r})
          /\ Cardinality(Guessing(rows) \cup {r}) = IF r \in Guessing(rows) THEN g ELSE g + 1
      BY GuessingFinite, FS_AddElement
    <3> QED BY <2>1, <3>1
  <2>5. gg \in Nat /\ gg <= g + 1
    <3>1. gg \in Nat /\ gg <= Cardinality(Guessing(rows) \cup {r})
      BY <2>3, <2>4, FS_Subset, FS_CardinalityType
    <3> QED BY <2>1, <2>4, <3>1
  <2>6. gg <= c
    <3>1. Guessing(rows)' \in SUBSET Requests
      BY DEF Guessing
    <3> QED BY <3>1, SignInAssumption, FS_Subset
  <2>7. Throttled(rows, from, a)' <=> m + gg <= Share + p + faults' /\ m <= k + p + faults'
    <3>1. M(made', rows, a) = m /\ M(failed', rows, a) = k /\ M(cleared', from, a) = M(cleared, from, a)
      BY <1>2
    <3> QED BY <3>1 DEF Throttled
  <2>s. Share \in Nat /\ Share = MaxAttempts + c - 1 /\ MaxAttempts \in Nat \ {0} /\ Cooldown \in Nat
    BY Sizes
  <2>z. ASSUME rows = RowsOfName(n) \/ rows = RowsOfIP(ip), ~evaluateLockout(n, ip)
        PROVE  k <= MaxAttempts - 1
    <3>2. ~lockoutForKey(rows)
      BY <2>z DEF evaluateLockout
    <3>3. CASE ~(Count(failed, rows) >= MaxAttempts)
      <4>1. Count(failed, rows) = Cardinality(Marks(failed, rows))
        BY DEF Count, Marks
      <4> HIDE DEF k
      <4> QED BY <2>1, <2>s, <3>3, <4>1
    <3>4. CASE ~(\E x \in rows : failed[x] > 0 /\ x[3] < Cooldown)
      <4>1. ASSUME NEW x \in Young(rows, a) PROVE failed[x] = 0
        <5>1. x \in rows /\ x \in Row /\ x[3] < a /\ x[3] \in Nat /\ a \in Nat /\ a <= Cooldown
          BY SignInAssumption DEF Young, Spans, Row, Ages
        <5>2. x[3] < Cooldown /\ failed[x] \in Nat
          BY <1>4, <2>s, <5>1
        <5> QED BY <3>4, <5>1, <5>2
      <4>2. Marks(failed, Young(rows, a)) = {}
        BY <4>1, SignInAssumption DEF Marks
      <4>3. k = 0
        BY <4>2, FS_EmptySet DEF M
      <4> QED BY <2>s, <4>3
    <3> QED BY <3>2, <3>3, <3>4 DEF lockoutForKey
  <2>k. CASE <<n, ip, 0>> \notin rows /\ faults' = faults
    <3>1. Guessing(rows)' \subseteq Guessing(rows)
      BY <1>1, <1>3, <2>k DEF Guessing
    <3>2. gg <= g
      BY <3>1, GuessingFinite, FS_Subset
    <3> HIDE DEF m, k, p, g, gg, c
    <3>3. m + gg <= Share + p + faults' /\ m <= k + p + faults'
      BY <1>4, <2>1, <2>2, <2>5, <2>k, <2>s, <3>2
    <3> QED BY <2>7, <3>3
  <2>l. CASE <<n, ip, 0>> \in rows /\ ~evaluateLockout(n, ip) /\ faults' = faults
    <3>1. rows = RowsOfName(n) \/ rows = RowsOfIP(ip)
      BY <1>5, <2>l DEF Key, RowsOfName, RowsOfIP
    <3>2. k <= MaxAttempts - 1
      BY <2>l, <2>z, <3>1
    <3> HIDE DEF m, k, p, g, gg, c
    <3>3. m + gg <= Share + p + faults' /\ m <= k + p + faults'
      BY <1>4, <2>1, <2>2, <2>5, <2>6, <2>l, <2>s, <3>2
    <3> QED BY <2>7, <3>3
  <2>m. CASE faults' = faults + 1
    <3> HIDE DEF m, k, p, g, gg, c
    <3>3. m + gg <= Share + p + faults' /\ m <= k + p + faults'
      BY <1>4, <2>1, <2>2, <2>5, <2>m, <2>s
    <3> QED BY <2>7, <3>3
  <2> QED BY <1>2, <2>k, <2>l, <2>m
<1>6. AttemptsTyped'
  BY <1>2, <1>4 DEF AttemptsTyped
<1> QED BY <1>5, <1>6 DEF ThrottleInv

\* A failed attempt turns a request that may fail into a failure, and is one fault when
\* nothing records it.
LEMMA FailureThrottled ==
  ASSUME FactorInv, ThrottleInv, NEW r \in Requests, RecordLoginFailure(r)
  PROVE  ThrottleInv'
<1> DEFINE x == <<req[r].name, req[r].ip, 0>>
           f == [made EXCEPT ![x] = @ + 1]
           d == [failed EXCEPT ![x] = @ + 1]
<1>1. /\ req[r].pc = "record" /\ req' = [req EXCEPT ![r] = Idle] /\ made' = f /\ cleared' = cleared
      /\ \/ failed' = d /\ faults' = faults
         \/ failed' = failed /\ faults' = faults + 1
      /\ Count(made, Row) < MaxFailures
  BY DEF RecordLoginFailure, Done, Goto, At, Room
<1>2. x \in Row
  <2>1. req[r].name \in Names /\ req[r].ip \in IPs
    BY <1>1 DEF FactorInv, HandlerOK
  <2>2. 0 \in Ages
    BY SignInAssumption DEF Ages
  <2> QED BY <2>1, <2>2 DEF Row
<1>3. req'[r] = Idle /\ Idle.pc = "idle" /\ \A q \in Requests \ {r} : req'[q] = req[q]
  BY <1>1, IdleOK DEF FactorInv, FactorTyped
<1>4. /\ failed \in [Row -> Nat] /\ made \in [Row -> Nat] /\ cleared \in [Row -> Nat] /\ faults \in Nat
      /\ \A z \in Row : failed[z] <= made[z]
      /\ IsFiniteSet(Marks(failed, Row)) /\ IsFiniteSet(Marks(made, Row)) /\ IsFiniteSet(Marks(cleared, Row))
  BY DEF ThrottleInv, AttemptsTyped
<1>5. made[x] < MaxFailures /\ failed[x] < MaxFailures
  <2> HIDE DEF x
  <2>1. made[x] < MaxFailures
    BY <1>1, <1>2, <1>4, RoomInRow
  <2> QED BY <1>2, <1>4, <2>1, Sizes
<1>x. x = <<req[r].name, req[r].ip, 0>>
  OBVIOUS
<1>6. ASSUME NEW t \in [Row -> Nat], IsFiniteSet(Marks(t, Row)), NEW rows \in SUBSET Row
      PROVE  LET u == [t EXCEPT ![x] = @ + 1] IN
             /\ IsFiniteSet(Marks(u, rows)) /\ Cardinality(Marks(u, rows)) \in Nat
             /\ Cardinality(Marks(u, rows)) <= Cardinality(Marks(t, rows)) + 1
             /\ x \notin rows => Cardinality(Marks(u, rows)) = Cardinality(Marks(t, rows))
             /\ x \in rows /\ t[x] < MaxFailures => Cardinality(Marks(u, rows)) = Cardinality(Marks(t, rows)) + 1
  <2> HIDE DEF x
  <2>1. IsFiniteSet(Marks(t, rows))
    BY <1>6, Parts
  <2> QED BY <1>2, <2>1, MarksOneMore
<1> HIDE DEF x
<1>7. AttemptsTyped'
  <2>1. f \in [Row -> Nat] /\ d \in [Row -> Nat]
    BY <1>2, <1>4
  <2>2. IsFiniteSet(Marks(f, Row)) /\ IsFiniteSet(Marks(d, Row))
    BY <1>4, <1>6
  <2>3. \A z \in Row : failed[z] <= f[z] /\ d[z] <= f[z]
    BY <1>2, <1>4
  <2> HIDE DEF f, d
  <2> QED BY <1>1, <1>4, <2>1, <2>2, <2>3 DEF AttemptsTyped
<1>8. ASSUME NEW rows \in SUBSET Row, NEW from \in SUBSET Row, NEW a \in Spans, Key(rows, from)
      PROVE  Throttled(rows, from, a)'
  <2> DEFINE m == M(made, rows, a)
             k == M(failed, rows, a)
             mm == M(f, rows, a)
             kk == M(d, rows, a)
             p == Share * M(cleared, from, a)
             g == Cardinality(Guessing(rows))
             gg == Cardinality(Guessing(rows)')
  <2>0. Young(rows, a) \in SUBSET Row
    BY DEF Young
  <2>1. m \in Nat /\ k \in Nat /\ p \in Nat /\ g \in Nat /\ Share \in Nat
    BY Counts, GuessingFinite, Sizes
  <2>2. m + g <= Share + p + faults /\ m <= k + p + faults
    BY <1>8 DEF ThrottleInv, Throttled
  <2>3. Guessing(rows)' = Guessing(rows) \ {r}
    BY <1>3 DEF Guessing
  <2>4. gg = IF r \in Guessing(rows) THEN g - 1 ELSE g
    BY <2>3, GuessingFinite, FS_RemoveElement
  <2>5. /\ mm \in Nat /\ mm <= m + 1 /\ (x \notin Young(rows, a) => mm = m)
        /\ (x \in Young(rows, a) => mm = m + 1)
    BY <1>4, <1>5, <1>6, <2>0 DEF M
  <2>6. /\ kk \in Nat /\ (x \notin Young(rows, a) => kk = k)
        /\ (x \in Young(rows, a) => kk = k + 1)
    BY <1>4, <1>5, <1>6, <2>0 DEF M
  <2>7. /\ M(made', rows, a) = mm /\ Share * M(cleared', from, a) = p
        /\ \/ M(failed', rows, a) = kk /\ faults' = faults
           \/ M(failed', rows, a) = k /\ faults' = faults + 1
    BY <1>1
  <2>8. x \in rows <=> r \in Guessing(rows)
    BY <1>1, <1>x DEF Guessing
  <2>9. x \in Young(rows, a) => x \in rows
    BY DEF Young
  <2>10. r \in Guessing(rows) => g >= 1
    <3>1. Guessing(rows) = {} => r \notin Guessing(rows)
      OBVIOUS
    <3> QED BY <2>1, <3>1, GuessingFinite, FS_EmptySet
  <2> HIDE DEF m, k, mm, kk, p, g, gg
  <2>11. mm + gg <= Share + p + faults
    BY <1>4, <2>1, <2>2, <2>4, <2>5, <2>8, <2>9, <2>10
  <2>12. mm <= kk + p + faults /\ mm <= k + p + faults + 1
    BY <1>4, <2>1, <2>2, <2>5, <2>6
  <2>13. gg \in Nat
    BY <2>1, <2>4, <2>10
  <2>14. mm + gg <= Share + p + faults' /\ mm <= M(failed', rows, a) + p + faults'
    BY <1>4, <2>1, <2>5, <2>7, <2>11, <2>12, <2>13
  <2> QED BY <2>7, <2>14 DEF Throttled, gg
<1> QED BY <1>7, <1>8 DEF ThrottleInv

\* Clearing a username's failures gives its keys a new share.
LEMMA ClearThrottled ==
  ASSUME FactorInv, ThrottleInv, NEW r \in Requests, NEW n \in Names, NEW ip \in IPs,
         Count(cleared, Row) < MaxClears,
         failed' = [x \in Row |-> IF x[1] = n THEN 0 ELSE failed[x]],
         cleared' = [cleared EXCEPT ![<<n, ip, 0>>] = @ + 1], UNCHANGED <<made, faults>>,
         \A rows \in SUBSET Row : Guessing(rows)' \subseteq Guessing(rows)
  PROVE  ThrottleInv'
<1> DEFINE x == <<n, ip, 0>>
           d == [z \in Row |-> IF z[1] = n THEN 0 ELSE failed[z]]
           e == [cleared EXCEPT ![x] = @ + 1]
<1>1. x \in Row
  <2>1. 0 \in Ages
    BY SignInAssumption DEF Ages
  <2> QED BY <2>1 DEF Row
<1>2. /\ failed \in [Row -> Nat] /\ made \in [Row -> Nat] /\ cleared \in [Row -> Nat] /\ faults \in Nat
      /\ \A z \in Row : failed[z] <= made[z]
      /\ IsFiniteSet(Marks(failed, Row)) /\ IsFiniteSet(Marks(made, Row)) /\ IsFiniteSet(Marks(cleared, Row))
  BY DEF ThrottleInv, AttemptsTyped
<1>3. cleared[x] < MaxFailures
  <2>1. Count(cleared, Row) \in Nat
    <3>1. Count(cleared, Row) = Cardinality(Marks(cleared, Row))
      BY DEF Count, Marks
    <3> QED BY <1>2, <3>1, FS_CardinalityType
  <2>2. Count(cleared, Row) < MaxFailures
    BY <2>1, SignInAssumption
  <2> HIDE DEF x
  <2> QED BY <1>1, <1>2, <2>2, RoomInRow
<1>d. d \in [Row -> Nat] /\ (\A z \in Row : d[z] <= failed[z] /\ d[z] <= made[z])
      /\ (\A z \in Row : z[1] # n => d[z] = failed[z])
  BY <1>2
<1>y. x[1] = n /\ x[3] = 0
  OBVIOUS
<1>e. failed' = d /\ cleared' = e
  OBVIOUS
<1> HIDE DEF x, d
<1>4. ASSUME NEW rows \in SUBSET Row
      PROVE  /\ IsFiniteSet(Marks(e, rows)) /\ Cardinality(Marks(e, rows)) \in Nat
             /\ x \notin rows => Cardinality(Marks(e, rows)) = Cardinality(Marks(cleared, rows))
             /\ x \in rows => Cardinality(Marks(e, rows)) = Cardinality(Marks(cleared, rows)) + 1
  <2>1. IsFiniteSet(Marks(cleared, rows))
    BY <1>2, Parts
  <2> QED BY <1>1, <1>2, <1>3, <2>1, MarksOneMore
<1>5. IsFiniteSet(Marks(d, Row))
  BY <1>2, <1>d, MarksFewer
<1>6. e \in [Row -> Nat]
  BY <1>1, <1>2
<1>7. AttemptsTyped'
  <2> HIDE DEF e
  <2>1. IsFiniteSet(Marks(e, Row))
    BY <1>4
  <2> QED BY <1>2, <1>d, <1>e, <1>5, <1>6, <2>1 DEF AttemptsTyped
<1>8. ASSUME NEW rows \in SUBSET Row, NEW from \in SUBSET Row, NEW a \in Spans, Key(rows, from)
      PROVE  Throttled(rows, from, a)'
  <2> DEFINE m == M(made, rows, a)
             k == M(failed, rows, a)
             kk == M(d, rows, a)
             b == M(cleared, from, a)
             bb == M(e, from, a)
             p == Share * b
             pp == Share * bb
             g == Cardinality(Guessing(rows))
             gg == Cardinality(Guessing(rows)')
  <2>0. Young(rows, a) \in SUBSET Row /\ Young(from, a) \in SUBSET Row
    BY DEF Young
  <2>1. m \in Nat /\ k \in Nat /\ p \in Nat /\ b \in Nat /\ g \in Nat /\ Share \in Nat
    BY Counts, GuessingFinite, Sizes
  <2>2. m + g <= Share + p + faults /\ m <= k + p + faults
    BY <1>8 DEF ThrottleInv, Throttled
  <2>3. gg \in Nat /\ gg <= g
    BY GuessingFinite, FS_Subset, FS_CardinalityType
  <2>4. kk \in Nat
    BY <1>5, <1>d, Parts
  <2>5. (x \notin Young(from, a) => bb = b) /\ (x \in Young(from, a) => bb = b + 1)
    BY <1>4, <2>0 DEF M
  <2>6. Throttled(rows, from, a)' <=> m + gg <= Share + pp + faults /\ m <= kk + pp + faults
    <3>1. M(made', rows, a) = m /\ M(failed', rows, a) = kk /\ M(cleared', from, a) = bb /\ faults' = faults
      BY <1>e
    <3> QED BY <3>1 DEF Throttled
  <2>7. CASE x \in Young(from, a)
    <3>1. pp = p + Share
      <4>1. bb = b + 1
        BY <2>5, <2>7
      <4> HIDE DEF b, bb
      <4> QED BY <2>1, <4>1, Sizes
    <3> HIDE DEF m, k, kk, p, pp, g, gg
    <3>2. m + gg <= Share + pp + faults /\ m <= kk + pp + faults
      BY <1>2, <2>1, <2>2, <2>3, <2>4, <3>1
    <3> QED BY <2>6, <3>2
  <2>8. CASE x \notin from
    <3>1. pp = p
      <4>1. x \notin Young(from, a)
        BY <2>8 DEF Young
      <4>2. bb = b
        BY <2>5, <4>1
      <4> QED BY <4>2
    <3>2. kk = k
      <4>1. PICK o \in Names : rows = RowsOfName(o) /\ from = rows
        BY <1>1, <1>8, <2>8 DEF Key
      <4>2. o # n
        BY <1>1, <1>y, <2>8, <4>1 DEF RowsOfName
      <4>3. \A z \in Young(rows, a) : z \in Row /\ z[1] # n
        BY <4>1, <4>2 DEF Young, RowsOfName
      <4>4. Marks(d, Young(rows, a)) = Marks(failed, Young(rows, a))
        BY <1>d, <4>3 DEF Marks
      <4> QED BY <4>4 DEF M
    <3> HIDE DEF m, k, kk, p, pp, g, gg
    <3>3. m + gg <= Share + pp + faults /\ m <= kk + pp + faults
      BY <1>2, <2>1, <2>2, <2>3, <3>1, <3>2
    <3> QED BY <2>6, <3>3
  <2>9. CASE a = 0
    <3>1. m = 0 /\ b = 0 /\ bb = 0
      BY <2>9, NoneYoung
    <3>2. p = 0 /\ pp = 0
      BY <3>1, Sizes
    <3> HIDE DEF m, k, kk, p, pp, g, gg, b, bb
    <3>3. m + gg <= Share + pp + faults /\ m <= kk + pp + faults
      BY <1>2, <2>1, <2>2, <2>3, <2>4, <3>1, <3>2
    <3> QED BY <2>6, <3>3
  <2>10. x \in from /\ a # 0 => x \in Young(from, a)
    <3>1. a \in Nat
      BY DEF Spans
    <3> QED BY <1>y, <3>1 DEF Young
  <2> QED BY <2>7, <2>8, <2>9, <2>10
<1> QED BY <1>7, <1>8 DEF ThrottleInv

\* A span that ends now was one tick shorter a tick ago.
LEMMA TickThrottled ==
  ASSUME FactorInv, ThrottleInv, Tick
  PROVE  ThrottleInv'
<1> DEFINE aged(t) == [x \in Row |-> Age(t, x)]
<1>1. /\ failed' = aged(failed) /\ made' = aged(made) /\ cleared' = aged(cleared) /\ UNCHANGED <<req, faults>>
  BY DEF Tick
<1>2. /\ failed \in [Row -> Nat] /\ made \in [Row -> Nat] /\ cleared \in [Row -> Nat] /\ faults \in Nat
      /\ \A z \in Row : failed[z] <= made[z]
      /\ IsFiniteSet(Marks(failed, Row)) /\ IsFiniteSet(Marks(made, Row)) /\ IsFiniteSet(Marks(cleared, Row))
  BY DEF ThrottleInv, AttemptsTyped
<1>3. ASSUME NEW x \in Row
      PROVE  x[3] \in Nat /\ (x[3] # 0 => <<x[1], x[2], x[3] - 1>> \in Row)
  <2>1. x[1] \in Names /\ x[2] \in IPs /\ x[3] \in Ages
    BY DEF Row
  <2>2. x[3] \in Nat /\ (x[3] # 0 => x[3] - 1 \in Ages)
    <3>1. ASSUME NEW b \in Ages PROVE b \in Nat /\ (b # 0 => b - 1 \in Ages)
      BY SignInAssumption DEF Ages
    <3> QED BY <2>1, <3>1
  <2> QED BY <2>1, <2>2 DEF Row
<1>4. ASSUME NEW t \in [Row -> Nat] PROVE aged(t) \in [Row -> Nat]
  <2>1. ASSUME NEW x \in Row PROVE Age(t, x) \in Nat
    <3>2. CASE x[3] = 0
      BY <3>2 DEF Age
    <3>3. CASE x[3] # 0
      BY <1>3, <3>3 DEF Age
    <3> QED BY <3>2, <3>3
  <2> QED BY <2>1
<1>5. \A x \in Row : aged(failed)[x] <= aged(made)[x]
  <2> SUFFICES ASSUME NEW x \in Row PROVE Age(failed, x) <= Age(made, x)
    OBVIOUS
  <2>1. CASE x[3] = 0
    BY <2>1 DEF Age
  <2>2. CASE x[3] # 0
    BY <1>2, <1>3, <2>2 DEF Age
  <2> QED BY <2>1, <2>2
<1>6. ASSUME NEW t \in [Row -> Nat], IsFiniteSet(Marks(t, Row)), NEW rows \in SUBSET Row, NEW a \in Nat, a < Window,
             \A x \in rows, b \in Ages : <<x[1], x[2], b>> \in rows
      PROVE  M(aged(t), rows, a + 1) = M(t, rows, a)
  BY <1>6, MarksAge
<1>7. ASSUME NEW t \in [Row -> Nat], IsFiniteSet(Marks(t, Row)) PROVE IsFiniteSet(Marks(aged(t), Row))
  BY <1>7, AgeFinite
<1>8. AttemptsTyped'
  <2>1. /\ aged(failed) \in [Row -> Nat] /\ aged(made) \in [Row -> Nat] /\ aged(cleared) \in [Row -> Nat]
        /\ IsFiniteSet(Marks(aged(failed), Row)) /\ IsFiniteSet(Marks(aged(made), Row))
        /\ IsFiniteSet(Marks(aged(cleared), Row))
    BY <1>2, <1>4, <1>7
  <2> HIDE DEF aged
  <2> QED BY <1>1, <1>2, <1>5, <2>1 DEF AttemptsTyped
<1> HIDE DEF aged
<1>9. ASSUME NEW rows \in SUBSET Row, NEW from \in SUBSET Row, NEW a \in Spans, Key(rows, from)
      PROVE  Throttled(rows, from, a)'
  <2>1. Cardinality(Guessing(rows)') = Cardinality(Guessing(rows))
    <3>1. Guessing(rows)' = Guessing(rows)
      BY <1>1 DEF Guessing
    <3> QED BY <3>1
  <2>2. CASE a = 0
    <3>1. \A t : M(t, rows, a) = 0 /\ M(t, from, a) = 0
      BY <2>2, NoneYoung
    <3>2. Throttled(rows, from, a)
      BY <1>9 DEF ThrottleInv
    <3> QED BY <1>1, <1>2, <2>1, <3>1, <3>2 DEF Throttled
  <2>3. CASE a # 0
    <3>1. PICK b \in Nat : a = b + 1 /\ b < Window /\ b \in Spans
      <4>1. a \in Nat /\ a <= Window /\ a <= Cooldown
        BY Sizes DEF Spans
      <4>2. a - 1 \in Nat /\ a = (a - 1) + 1 /\ a - 1 < Window /\ a - 1 \in Spans
        BY <2>3, <4>1, Sizes DEF Spans
      <4> QED BY <4>2
    <3>2. /\ M(made', rows, a) = M(made, rows, b) /\ M(failed', rows, a) = M(failed, rows, b)
          /\ M(cleared', from, a) = M(cleared, from, b)
      BY <1>1, <1>2, <1>6, <1>9, <3>1, KeyOfRows
    <3>3. Throttled(rows, from, b)
      BY <1>9, <3>1 DEF ThrottleInv
    <3> QED BY <1>1, <2>1, <3>2, <3>3 DEF Throttled
  <2> QED BY <2>2, <2>3
<1> QED BY <1>8, <1>9 DEF ThrottleInv

LEMMA ThrottleStep ==
  ASSUME FactorInv, ThrottleInv, [Next]_vars
  PROVE  ThrottleInv'
<1>0. faults \in Nat
  BY DEF ThrottleInv, AttemptsTyped
<1>1. ASSUME NEW r \in Requests, NEW h, req' = [req EXCEPT ![r] = h],
             h.pc \in {"find", "record"} => At(r, "find") /\ h.name = req[r].name /\ h.ip = req[r].ip,
             UNCHANGED attempts, faults' = faults \/ faults' = faults + 1
      PROVE  ThrottleInv'
  <2>1. \A rows \in SUBSET Row : Guessing(rows)' \subseteq Guessing(rows)
    BY <1>1, GuessingLess
  <2>2. faults' \in Nat /\ faults <= faults'
    BY <1>0, <1>1
  <2> QED BY <1>1, <2>1, <2>2, QuietStep
<1>2. ASSUME NEW r \in Requests, Done(r), UNCHANGED attempts, faults' = faults \/ faults' = faults + 1
      PROVE  ThrottleInv'
  BY <1>1, <1>2, IdleOK DEF Done, Goto
<1>3. ASSUME NEW r \in Requests, NEW pc, Move(r, pc), pc \notin {"find", "record"}, UNCHANGED attempts,
             faults' = faults \/ faults' = faults + 1
      PROVE  ThrottleInv'
  <2> DEFINE h == [req[r] EXCEPT !.pc = pc]
  <2>1. h.pc = pc
    BY DEF FactorInv, FactorTyped, Carried
  <2>2. req' = [req EXCEPT ![r] = h]
    BY <1>3 DEF Move, Goto
  <2> HIDE DEF h
  <2> QED BY <1>1, <1>3, <2>1, <2>2
<1>4. ASSUME NEW r \in Requests, VerifyPassword(r) PROVE ThrottleInv'
  <2>1. At(r, "find") /\ UNCHANGED attempts /\ faults' = faults /\ (Move(r, "record") \/ Move(r, "clear"))
    BY <1>4 DEF VerifyPassword
  <2>2. CASE Move(r, "record")
    <3> DEFINE h == [req[r] EXCEPT !.pc = "record"]
    <3>1. h.pc = "record" /\ h.name = req[r].name /\ h.ip = req[r].ip
      BY DEF FactorInv, FactorTyped, Carried
    <3>2. req' = [req EXCEPT ![r] = h]
      BY <2>2 DEF Move, Goto
    <3> HIDE DEF h
    <3> QED BY <1>1, <2>1, <3>1, <3>2
  <2> QED BY <1>3, <2>1, <2>2
<1>5. ASSUME NEW r \in Requests, ClearLoginFailures(r) PROVE ThrottleInv'
  <2> DEFINE h == [req[r] EXCEPT !.pc = "factor"]
             n == req[r].name
  <2>1. h.pc = "factor"
    BY DEF FactorInv, FactorTyped, Carried
  <2>2. /\ req' = [req EXCEPT ![r] = h] /\ Move(r, "factor") /\ n \in Names /\ req[r].ip \in IPs
        /\ \/ UNCHANGED attempts /\ (faults' = faults \/ faults' = faults + 1)
           \/ /\ Count(cleared, Row) < MaxClears
              /\ failed' = [x \in Row |-> IF x[1] = n THEN 0 ELSE failed[x]]
              /\ cleared' = [cleared EXCEPT ![<<n, req[r].ip, 0>>] = @ + 1]
              /\ UNCHANGED <<made, faults>>
    BY <1>5 DEF ClearLoginFailures, Move, Goto, At, FactorInv, HandlerOK
  <2> HIDE DEF h, n
  <2>3. \A rows \in SUBSET Row : Guessing(rows)' \subseteq Guessing(rows)
    BY <2>1, <2>2, GuessingLess
  <2>4. CASE UNCHANGED attempts /\ (faults' = faults \/ faults' = faults + 1)
    BY <1>3, <2>2, <2>4
  <2> QED BY <2>2, <2>3, <2>4, ClearThrottled
<1>6. ASSUME NEW r \in Requests, TOTPEnabled(r) PROVE ThrottleInv'
  <2>1. /\ UNCHANGED attempts
        /\ faults' = faults \/ faults' = faults + 1
        /\ Done(r) \/ Move(r, "session")
    BY <1>6 DEF TOTPEnabled
  <2> QED BY <1>2, <1>3, <2>1
<1>7. ASSUME NEW r \in Requests,
             \/ EstablishSession(r) \/ StartTOTPEnrollment(r) \/ EnableTOTP(r) \/ DisableTOTP(r) \/ StatementFails(r)
      PROVE  ThrottleInv'
  <2>1. Done(r) /\ UNCHANGED attempts /\ (faults' = faults \/ faults' = faults + 1)
    BY <1>7 DEF EstablishSession, StartTOTPEnrollment, EnableTOTP, DisableTOTP, StatementFails
  <2> QED BY <1>2, <2>1
<1>8. ASSUME NEW r \in Requests, FindRecoveryCode(r) PROVE ThrottleInv'
  <2>1. UNCHANGED attempts /\ faults' = faults /\ (Done(r) \/ Move(r, "consume"))
    BY <1>8 DEF FindRecoveryCode
  <2> QED BY <1>2, <1>3, <2>1
\* A handler that starts, or goes on, from a page.
<1>9. ASSUME NEW r \in Requests, NEW h, Goto(r, h), h.pc \notin {"find", "record"}, UNCHANGED attempts,
             faults' = faults \/ faults' = faults + 1
      PROVE  ThrottleInv'
  BY <1>1, <1>9 DEF Goto
<1>10. ASSUME NEW r \in Requests, ConsumeRecoveryCode(r) PROVE ThrottleInv'
  <2> DEFINE h == [Idle EXCEPT !.pc = req[r].for]
  <2>1. h.pc \in {"session", "disable"}
    BY DEF Idle, FactorInv, HandlerOK
  <2>2. UNCHANGED attempts /\ faults' = faults /\ (Done(r) \/ Goto(r, h))
    BY <1>10 DEF ConsumeRecoveryCode
  <2> HIDE DEF h
  <2> QED BY <1>2, <1>9, <2>1, <2>2
<1>11. ASSUME NEW r \in Requests, NEW purpose \in {"session", "disable"}, PresentCode(r, purpose) PROVE ThrottleInv'
  <2>1. PICK h : Goto(r, h) /\ h.pc \in {"session", "disable", "lookup"}
    <3>1. CASE Goto(r, [Idle EXCEPT !.pc = purpose])
      <4>1. [Idle EXCEPT !.pc = purpose].pc = purpose
        BY DEF Idle
      <4> QED BY <3>1, <4>1
    <3>2. ASSUME NEW k \in Secrets, Goto(r, [Idle EXCEPT !.pc = "lookup", !.secret = k, !.for = purpose])
          PROVE  \E h : Goto(r, h) /\ h.pc \in {"session", "disable", "lookup"}
      <4>1. [Idle EXCEPT !.pc = "lookup", !.secret = k, !.for = purpose].pc = "lookup"
        BY DEF Idle
      <4> QED BY <3>2, <4>1
    <3> QED BY <1>11, <3>1, <3>2 DEF PresentCode
  <2>2. UNCHANGED attempts /\ faults' = faults
    BY <1>11 DEF PresentCode
  <2> QED BY <1>9, <2>1, <2>2
<1>12. ASSUME NEW r \in Requests, MFASettings(r) \/ MFAEnable(r) PROVE ThrottleInv'
  <2>1. PICK h : Goto(r, h) /\ h.pc \in {"start", "enable"}
    <3>1. [Idle EXCEPT !.pc = "start"].pc = "start" /\ [Idle EXCEPT !.pc = "enable", !.secret = totp.secret].pc = "enable"
      BY DEF Idle
    <3> QED BY <1>12, <3>1 DEF MFASettings, MFAEnable
  <2>2. UNCHANGED attempts /\ (faults' = faults \/ faults' = faults + 1)
    BY <1>12 DEF MFASettings, MFAEnable
  <2> QED BY <1>9, <2>1, <2>2
<1>13. CASE UNCHANGED vars
  <2>1. UNCHANGED <<attempts, faults, req>>
    BY <1>13 DEF vars
  <2>2. \A rows \in SUBSET Row : Guessing(rows)' \subseteq Guessing(rows)
    BY <2>1 DEF Guessing
  <2> QED BY <1>0, <2>1, <2>2, QuietStep
<1>14. CASE Step
  BY <1>4, <1>5, <1>6, <1>7, <1>8, <1>10, <1>11, <1>12, <1>14, LoginThrottled, FailureThrottled, TickThrottled
     DEF Step, Serve
<1> QED BY <1>13, <1>14 DEF Next

(***************************************************************************)
(* However the requests that count failures and the ones that record them  *)
(* interleave (loginSubmit, evaluateLockout, RecordLoginFailure), wrong    *)
(* passwords are tried under a username and from an address within one     *)
(* cooldown at most MaxAttempts times, plus once for every other           *)
(* concurrent request; as often again after each sign-in that cleared      *)
(* failures; and once more for every count that could not be read and      *)
(* every failure that could not be recorded.                               *)
(***************************************************************************)
THEOREM GuessesStayBounded == Spec => []GuessesBounded
<1>1. Init => ThrottleInv
  <2> SUFFICES ASSUME Init PROVE ThrottleInv
    OBVIOUS
  <2> DEFINE zero == [x \in Row |-> 0]
  <2>1. failed = zero /\ made = zero /\ cleared = zero /\ faults = 0
    BY DEF Init
  <2>2. ASSUME NEW rows \in SUBSET Row PROVE Marks(zero, rows) = {}
    BY SignInAssumption DEF Marks
  <2>3. zero \in [Row -> Nat] /\ IsFiniteSet(Marks(zero, Row)) /\ \A x \in Row : zero[x] <= zero[x]
    BY <2>2, FS_EmptySet
  <2> HIDE DEF zero
  <2>4. AttemptsTyped
    BY <2>1, <2>3 DEF AttemptsTyped
  <2>5. ASSUME NEW rows \in SUBSET Row, NEW from \in SUBSET Row, NEW a \in Spans PROVE Throttled(rows, from, a)
    <3>1. M(zero, rows, a) = 0 /\ M(zero, from, a) = 0
      <4>1. Young(rows, a) \in SUBSET Row /\ Young(from, a) \in SUBSET Row
        BY DEF Young
      <4> QED BY <2>2, <4>1, FS_EmptySet DEF M
    <3>2. Cardinality(Guessing(rows)) = 0
      <4>1. \A q \in Requests : req[q].pc = "idle"
        BY IdleOK DEF Init
      <4>2. Guessing(rows) = {}
        BY <4>1 DEF Guessing
      <4> QED BY <4>2, FS_EmptySet
    <3>3. Share * 0 = 0 /\ Share \in Nat
      BY Sizes
    <3> QED BY <2>1, <3>1, <3>2, <3>3 DEF Throttled
  <2> QED BY <2>4, <2>5 DEF ThrottleInv
<1>2. ThrottleInv => GuessesBounded
  <2> SUFFICES ASSUME ThrottleInv,
                      NEW rows \in SUBSET Row, NEW from \in SUBSET Row, Key(rows, from)
               PROVE  Guesses(rows) <= Share * (1 + Count(cleared, Fresh(from))) + faults
    <3>1. \A n \in Names : RowsOfName(n) \in SUBSET Row /\ Key(RowsOfName(n), RowsOfName(n))
      BY DEF RowsOfName, Key
    <3>2. \A ip \in IPs : RowsOfIP(ip) \in SUBSET Row /\ Key(RowsOfIP(ip), Row)
      BY DEF RowsOfIP, Key
    <3> QED BY <3>1, <3>2 DEF GuessesBounded, Share
  <2> DEFINE a == IF Cooldown <= Window THEN Cooldown ELSE Window
             p == M(cleared, from, a)
             pending == {q \in Requests : At(q, "record") /\ <<req[q].name, req[q].ip, 0>> \in rows}
  <2>1. a \in Spans
    BY Sizes DEF Spans
  <2>2. ASSUME NEW some \in SUBSET Row, NEW f PROVE Count(f, Fresh(some)) = M(f, some, a)
    <3>1. \A x \in Row : x[3] \in Nat /\ x[3] < Window
      BY SignInAssumption DEF Row, Ages
    <3>2. Fresh(some) = Young(some, a)
      <4>1. ASSUME NEW b \in Nat, b < Window PROVE b < Cooldown <=> b < a
        <5>1. Cooldown \in Nat /\ Window \in Nat
          BY Sizes
        <5>2. CASE Cooldown <= Window
          BY <5>2
        <5>3. CASE ~(Cooldown <= Window)
          <6>1. a = Window
            BY <5>3
          <6>2. b < Cooldown
            BY <4>1, <5>1, <5>3
          <6> QED BY <4>1, <6>1, <6>2
        <5> QED BY <5>2, <5>3
      <4>2. \A x \in some : x[3] \in Nat /\ x[3] < Window
        BY <3>1
      <4> HIDE DEF a
      <4> QED BY <4>1, <4>2 DEF Fresh, Young
    <3> HIDE DEF a
    <3> QED BY <3>2 DEF Count, Marks, M
  <2> HIDE DEF a
  <2>3. /\ M(made, rows, a) + Cardinality(Guessing(rows)) <= Share + Share * p + faults
    BY <2>1 DEF ThrottleInv, Throttled
  <2>4. Cardinality(pending) \in Nat /\ Cardinality(pending) <= Cardinality(Guessing(rows))
    <3>1. pending \in SUBSET Guessing(rows)
      BY DEF Guessing, At
    <3> QED BY <3>1, GuessingFinite, FS_Subset, FS_CardinalityType
  <2>5. M(made, rows, a) \in Nat /\ p \in Nat /\ Share * p \in Nat /\ faults \in Nat
    BY Counts
  <2>6. Guesses(rows) = M(made, rows, a) + Cardinality(pending)
    BY <2>2 DEF Guesses
  <2>7. Count(cleared, Fresh(from)) = p
    BY <2>2
  <2>8. Share * (1 + p) = Share + Share * p
    <3> HIDE DEF p
    <3>1. 1 + p = p + 1
      BY <2>5
    <3>2. Share * (p + 1) = Share * p + Share /\ Share \in Nat
      BY <2>5, Sizes
    <3> QED BY <2>5, <3>1, <3>2
  <2> DEFINE g == Cardinality(Guessing(rows))
             b == Cardinality(pending)
             m == M(made, rows, a)
             s == Share * p
  <2>9. m + b <= Share + s + faults
    <3>1. m + g <= Share + s + faults /\ b <= g /\ b \in Nat /\ m \in Nat /\ s \in Nat /\ faults \in Nat
          /\ g \in Nat /\ Share \in Nat
      BY <2>3, <2>4, <2>5, GuessingFinite, Sizes
    <3> HIDE DEF m, b, g, s
    <3> QED BY <3>1
  <2> HIDE DEF p, pending
  <2> QED BY <2>6, <2>7, <2>8, <2>9
<1>3. FactorInv /\ ThrottleInv /\ [Next]_vars => ThrottleInv'
  BY ThrottleStep
<1> QED BY <1>1, <1>2, <1>3, FactorInvariant, PTL DEF Spec

=============================================================================
