----------------------------- MODULE SignInProofs -----------------------------
(***************************************************************************)
(* Theorems about sign-in, for any browsers, backup codes and limits.      *)
(***************************************************************************)
EXTENDS SignIn, FiniteSetTheorems, TLAPS

\* a failure that is still to be recorded fits the counter
CountFits == \A b \in Browsers, s \in Scope : At(b, s) => req[b].count < MaxGuesses

\* a confirmed device has codes
HasCodes == device.state = "confirmed" => Existing # {}

\* the one way to lose them: a disable that has found no device to delete
FoundNothing(b) == At(b, "disable") /\ req[b].device = 0 /\ req'[b] = NoRequest

\* ids count from 1: 0 stands for no device
Numbered == device.state # "none" => device.id # 0

(* With one request at a time:                                              *)

Alone == \A p, q \in Browsers : ~At(p, "idle") /\ ~At(q, "idle") => p = q

\* what a request has read still holds when it writes
ReadsHold == \A b \in Browsers :
  /\ At(b, "enter") => device.state # "confirmed"
  /\ At(b, "use") => code[req[b].code] = "unused"
  /\ At(b, "regenerate") => device.state = "confirmed"
  /\ At(b, "disable") /\ req[b].device = 0 => device.state # "confirmed"
  /\ At(b, "password") => attempts["login"] < MaxAttempts
  /\ \A s \in Scope : At(b, s) => req[b].count < MaxAttempts /\ guesses[s] <= req[b].count + 1

\* the counter never lags behind the wrong answers, but for the one to be recorded
Counted == \A s \in Scope :
  /\ attempts[s] <= MaxAttempts
  /\ (\A b \in Browsers : ~At(b, s)) => guesses[s] <= attempts[s]

\* a code that can be found has opened no session
CodesOnce == \A c \in Codes :
  /\ uses[c] <= 1
  /\ code[c] \in {"unissued", "unused"} => uses[c] = 0

Guarded == \A b \in Browsers : session[b] = "in" /\ entered[b].guarded => entered[b].how = "code"

CodesNeedDevice == Existing # {} => device.state = "confirmed"

Inv ==
  /\ TypeOK
  /\ CountFits
  /\ Numbered
  /\ serial => Alone /\ ReadsHold /\ Counted /\ CodesOnce /\ Guarded /\ HasCodes /\ CodesNeedDevice

-----------------------------------------------------------------------------
\* Nobody has signed in and no device is set up at first.
LEMMA InvInit == Init => Inv
<1> SUFFICES ASSUME Init PROVE Inv
  OBVIOUS
<1> USE SignInAssumption DEF Init
<1>1. TypeOK
  BY DEF TypeOK, NoRequest, Stranger, Scope
<1>2. CountFits
  BY DEF CountFits, At, NoRequest, Scope
<1>3. HasCodes /\ Numbered
  BY DEF HasCodes, Numbered
<1>4. Alone /\ ReadsHold /\ Counted
  BY DEF Alone, ReadsHold, Counted, At, NoRequest, Scope
<1>5. CodesOnce /\ Guarded /\ CodesNeedDevice
  BY DEF CodesOnce, Guarded, CodesNeedDevice, Existing, Stranger
<1>6. QED
  BY <1>1, <1>2, <1>3, <1>4, <1>5 DEF Inv

\* A set of fresh codes is not empty, and none of them was ever issued.
LEMMA FreshCodes ==
  ASSUME NEW fresh \in FreshSets
  PROVE  fresh # {} /\ fresh \subseteq Codes /\ \A c \in fresh : code[c] = "unissued"
BY FS_EmptySet, SignInAssumption DEF FreshSets

\* what TypeOK says of one request
Entry ==
  [at : Scope \cup {"idle", "password", "ask", "enter", "verified", "use", "confirm",
         "regenerate", "disable"},
   device : 0 .. MaxDevices, code : Codes \cup {NoCode}, count : Nat, seen : SUBSET Codes]

ReqOK == req \in [Browsers -> Entry] /\ CountFits

\* Every step of a request leaves the requests well-typed.
LEMMA ReqStep ==
  ASSUME TypeOK, CountFits, NEW b \in Browsers, Request(b)
  PROVE  ReqOK'
<1> USE SignInAssumption
<1>1. ReqOK /\ req[b] \in Entry
  BY DEF TypeOK, ReqOK, Entry
<1>2. ASSUME NEW e \in Entry, e.at \in Scope => e.count < MaxGuesses, req' = [req EXCEPT ![b] = e]
      PROVE  ReqOK'
  BY <1>1, <1>2 DEF ReqOK, CountFits, At
<1>3. NoRequest \in Entry /\ NoRequest.at = "idle" /\ "idle" \notin Scope
  BY DEF NoRequest, Entry, Scope
<1>4. ASSUME Ends(b) PROVE ReqOK'
  BY <1>2, <1>3, <1>4 DEF Ends
<1>5. ASSUME UNCHANGED req PROVE ReqOK'
  BY <1>1, <1>5 DEF ReqOK, CountFits, At
<1>6. ASSUME NEW s \in Scope, Fails(b, s) PROVE ReqOK'
  <2> DEFINE e == [NoRequest EXCEPT !.at = s, !.count = attempts[s]]
  <2>1. attempts[s] \in Nat /\ attempts[s] < MaxGuesses
    BY <1>6 DEF Fails, TypeOK
  <2>2. e \in Entry /\ e.count < MaxGuesses
    BY <1>3, <2>1 DEF Entry, NoRequest
  <2>3. req' = [req EXCEPT ![b] = e]
    BY <1>6 DEF Fails
  <2> HIDE DEF e
  <2>4. QED
    BY <1>2, <2>2, <2>3
<1>7. ASSUME NEW at \in {"password", "ask", "enter", "verified", "confirm", "disable"}, NEW d \in 0 .. MaxDevices,
             req' = [req EXCEPT ![b].at = at, ![b].device = d] \/ req' = [req EXCEPT ![b].at = at]
      PROVE  ReqOK'
  <2>1. /\ [req[b] EXCEPT !.at = at, !.device = d] \in Entry /\ [req[b] EXCEPT !.at = at] \in Entry
        /\ [req[b] EXCEPT !.at = at, !.device = d].at \notin Scope /\ [req[b] EXCEPT !.at = at].at \notin Scope
    BY <1>1 DEF Entry, Scope
  <2>2. \/ req' = [req EXCEPT ![b] = [req[b] EXCEPT !.at = at, !.device = d]]
        \/ req' = [req EXCEPT ![b] = [req[b] EXCEPT !.at = at]]
    BY <1>7
  <2>3. QED
    BY <1>2, <2>1, <2>2
<1>8. device.id \in 0 .. MaxDevices /\ DeviceRead \in 0 .. MaxDevices
  BY DEF TypeOK, DeviceRead
<1>9. CASE PostLogin(b)
  BY <1>7, <1>8, <1>9 DEF PostLogin
<1>10. CASE form_valid(b)
  BY <1>7, <1>8, <1>10 DEF form_valid
<1>11. CASE form_invalid(b) \/ PostWrongCode(b)
  BY <1>6, <1>11 DEF form_invalid, PostWrongCode, Scope
<1>12. CASE \/ AskForCode(b) \/ EnterByPassword(b) \/ EnterByTotp(b) \/ EnterByBackupCode(b)
            \/ VerifyRaises(b) \/ Confirm(b) \/ ConfirmRaises(b) \/ Regenerate(b)
            \/ mfa_disable(b) \/ DeadlockAborts(b)
            \/ \E s \in Scope : RecordFailure(b, s)
  BY <1>4, <1>12 DEF AskForCode, EnterByPassword, EnterByTotp, EnterByBackupCode, VerifyRaises,
     Confirm, ConfirmRaises, Regenerate, mfa_disable, DeadlockAborts, RecordFailure
<1>13. CASE Logout(b) \/ mfa_setup(b)
  BY <1>5, <1>13 DEF Logout, mfa_setup
<1>14. CASE PostTotp(b)
  BY <1>7, <1>8, <1>14 DEF PostTotp
<1>15. CASE PostBackupCode(b)
  <2>1. PICK c \in Codes :
          req' = [req EXCEPT ![b].at = "use", ![b].code = c, ![b].device = DeviceRead]
    BY <1>15 DEF PostBackupCode, Usable
  <2> DEFINE e == [req[b] EXCEPT !.at = "use", !.code = c, !.device = DeviceRead]
  <2>2. e \in Entry /\ e.at \notin Scope
    BY <1>1, <1>8 DEF Entry, Scope
  <2>3. req' = [req EXCEPT ![b] = e]
    BY <2>1
  <2> HIDE DEF e
  <2>4. QED
    BY <1>2, <2>2, <2>3
<1>16. CASE PostSetup(b)
  BY <1>7, <1>8, <1>16 DEF PostSetup
<1>17. CASE BeginRegenerate(b)
  <2> DEFINE e == [req[b] EXCEPT !.at = "regenerate", !.seen = Existing]
  <2>1. e \in Entry /\ e.at \notin Scope
    BY <1>1 DEF Entry, Scope, Existing
  <2>2. req' = [req EXCEPT ![b] = e]
    BY <1>17 DEF BeginRegenerate
  <2> HIDE DEF e
  <2>3. QED
    BY <1>2, <2>1, <2>2
<1>18. CASE BeginDisable(b)
  <2>1. (IF device.state = "none" THEN 0 ELSE device.id) \in 0 .. MaxDevices
    BY <1>8, SignInAssumption
  <2>2. PICK d \in 0 .. MaxDevices : d = IF device.state = "none" THEN 0 ELSE device.id
    BY <2>1
  <2>3. req' = [req EXCEPT ![b].at = "disable", ![b].device = d]
    BY <1>18, <2>2 DEF BeginDisable
  <2>4. QED
    BY <1>7, <2>3
<1>19. QED
  BY <1>9, <1>10, <1>11, <1>12, <1>13, <1>14, <1>15, <1>16, <1>17, <1>18 DEF Request

\* Every step of a request leaves the rest well-typed.
LEMMA TypeStep ==
  ASSUME TypeOK, CountFits, NEW b \in Browsers, Request(b)
  PROVE  TypeOK' /\ CountFits'
<1> USE SignInAssumption DEF TypeOK
<1>1. ReqOK'
  BY ReqStep
<1>2. req' \in [Browsers -> Entry] /\ CountFits'
  BY <1>1 DEF ReqOK
<1>3. device' \in [id : 0 .. MaxDevices, state : {"none", "pending", "confirmed"}]
  <2>1. CASE mfa_setup(b)
    BY <2>1 DEF mfa_setup
  <2>2. CASE Confirm(b)
    BY <2>2 DEF Confirm
  <2>3. CASE mfa_disable(b)
    BY <2>3 DEF mfa_disable
  <2>4. CASE device' = device
    BY <2>4
  <2>5. ASSUME ~mfa_setup(b) /\ ~Confirm(b) /\ ~mfa_disable(b) PROVE device' = device
    BY <2>5 DEF Request, PostLogin, form_valid, form_invalid, Fails, AskForCode, EnterByPassword,
       Logout, PostTotp, PostBackupCode, PostWrongCode, EnterByTotp, EnterByBackupCode,
       VerifyRaises, PostSetup, ConfirmRaises, BeginRegenerate, BeginDisable, DeadlockAborts, Regenerate, RecordFailure, Restart, history
  <2>6. QED
    BY <2>1, <2>2, <2>3, <2>4, <2>5
<1>4. code' \in [Codes -> {"unissued", "unused", "used", "deleted"}]
  <2>1. CASE EnterByBackupCode(b)
    BY <2>1 DEF EnterByBackupCode
  <2>2. CASE Confirm(b)
    BY <2>2 DEF Confirm, ReplaceCodes
  <2>3. CASE Regenerate(b)
    BY <2>3 DEF Regenerate, ReplaceCodes
  <2>4. CASE mfa_disable(b)
    BY <2>4 DEF mfa_disable
  <2>5. CASE code' = code
    BY <2>5
  <2>6. ASSUME ~EnterByBackupCode(b) /\ ~Confirm(b) /\ ~Regenerate(b) /\ ~mfa_disable(b) PROVE code' = code
    BY <2>6 DEF Request, PostLogin, form_valid, form_invalid, Fails, AskForCode, EnterByPassword,
       Logout, PostTotp, PostBackupCode, PostWrongCode, EnterByTotp, VerifyRaises, mfa_setup,
       PostSetup, ConfirmRaises, BeginRegenerate, BeginDisable, DeadlockAborts, RecordFailure, Restart, history
  <2>7. QED
    BY <2>1, <2>2, <2>3, <2>4, <2>5, <2>6
<1>5. session' \in [Browsers -> {"anonymous", "pending", "in"}]
  <2>1. CASE AskForCode(b)
    BY <2>1 DEF AskForCode
  <2>2. CASE EnterByPassword(b)
    BY <2>2 DEF EnterByPassword, OpenSession
  <2>3. CASE Logout(b)
    BY <2>3 DEF Logout
  <2>4. CASE EnterByTotp(b)
    BY <2>4 DEF EnterByTotp, OpenSession
  <2>5. CASE EnterByBackupCode(b)
    BY <2>5 DEF EnterByBackupCode, OpenSession
  <2>6. CASE session' = session
    BY <2>6
  <2>7. ASSUME ~AskForCode(b) /\ ~EnterByPassword(b) /\ ~Logout(b) /\ ~EnterByTotp(b) /\ ~EnterByBackupCode(b) PROVE session' = session
    BY <2>7 DEF Request, PostLogin, form_valid, form_invalid, Fails, PostTotp, PostBackupCode,
       PostWrongCode, VerifyRaises, mfa_setup, PostSetup, Confirm, ConfirmRaises, BeginRegenerate,
       BeginDisable, DeadlockAborts, Regenerate, mfa_disable, RecordFailure, Restart, history
  <2>8. QED
    BY <2>1, <2>2, <2>3, <2>4, <2>5, <2>6, <2>7
<1>6. entered' \in [Browsers -> [how : {"nothing", "password", "code"}, guarded : BOOLEAN]]
  <2>1. CASE EnterByPassword(b)
    BY <2>1 DEF EnterByPassword, OpenSession
  <2>2. CASE Logout(b)
    BY <2>2 DEF Logout, Stranger
  <2>3. CASE EnterByTotp(b)
    BY <2>3 DEF EnterByTotp, OpenSession
  <2>4. CASE EnterByBackupCode(b)
    BY <2>4 DEF EnterByBackupCode, OpenSession
  <2>5. CASE entered' = entered
    BY <2>5
  <2>6. ASSUME ~EnterByPassword(b) /\ ~Logout(b) /\ ~EnterByTotp(b) /\ ~EnterByBackupCode(b) PROVE entered' = entered
    BY <2>6 DEF Request, PostLogin, form_valid, form_invalid, Fails, AskForCode, PostTotp,
       PostBackupCode, PostWrongCode, VerifyRaises, mfa_setup, PostSetup, Confirm, ConfirmRaises,
       BeginRegenerate, BeginDisable, DeadlockAborts, Regenerate, mfa_disable, RecordFailure, Restart, history
  <2>7. QED
    BY <2>1, <2>2, <2>3, <2>4, <2>5, <2>6
<1>7. uses' \in [Codes -> Nat]
  <2>1. CASE EnterByBackupCode(b)
    BY <2>1 DEF EnterByBackupCode, Existing
  <2>2. CASE uses' = uses
    BY <2>2
  <2>3. ASSUME ~EnterByBackupCode(b) PROVE uses' = uses
    BY <2>3 DEF Request, PostLogin, form_valid, form_invalid, Fails, AskForCode, EnterByPassword,
       Logout, PostTotp, PostBackupCode, PostWrongCode, EnterByTotp, VerifyRaises, mfa_setup,
       PostSetup, Confirm, ConfirmRaises, BeginRegenerate, BeginDisable, DeadlockAborts, Regenerate, mfa_disable, RecordFailure,
       history
  <2>4. QED
    BY <2>1, <2>2, <2>3
<1>8. ASSUME NEW s \in Scope, Restart(s) \/ Fails(b, s) \/ RecordFailure(b, s)
      PROVE  attempts' \in [Scope -> 0 .. MaxGuesses] /\ guesses' \in [Scope -> 0 .. MaxGuesses]
  <2>1. CASE Restart(s)
    BY <2>1 DEF Restart
  <2>2. CASE Fails(b, s)
    BY <2>2 DEF Fails
  <2>3. CASE RecordFailure(b, s)
    <3>1. req[b].count + 1 \in 0 .. MaxGuesses
      BY <2>3 DEF RecordFailure, CountFits, At
    <3>2. QED
      BY <2>3, <3>1 DEF RecordFailure, Restart, history
  <2>4. QED
    BY <1>8, <2>1, <2>2, <2>3
<1>9. attempts' \in [Scope -> 0 .. MaxGuesses] /\ guesses' \in [Scope -> 0 .. MaxGuesses]
  BY <1>8 DEF Request, PostLogin, form_valid, form_invalid, AskForCode, EnterByPassword, Logout,
     PostTotp, PostBackupCode, PostWrongCode, EnterByTotp, EnterByBackupCode, VerifyRaises, mfa_setup,
     PostSetup, Confirm, ConfirmRaises, BeginRegenerate, BeginDisable, DeadlockAborts, Regenerate, mfa_disable,
     Scope, history
<1>10. serial' \in BOOLEAN
  BY DEF Request, PostLogin, form_valid, form_invalid, Fails, AskForCode, EnterByPassword, Logout,
     PostTotp, PostBackupCode, PostWrongCode, EnterByTotp, EnterByBackupCode, VerifyRaises, mfa_setup,
     PostSetup, Confirm, ConfirmRaises, BeginRegenerate, BeginDisable, DeadlockAborts, Regenerate, mfa_disable, RecordFailure
<1>11. QED
  BY <1>2, <1>3, <1>4, <1>5, <1>6, <1>7, <1>9, <1>10 DEF Entry

-----------------------------------------------------------------------------
\* A step that leaves the device and the codes alone
Elsewhere(b) ==
  \/ PostLogin(b) \/ form_valid(b) \/ form_invalid(b) \/ AskForCode(b) \/ EnterByPassword(b)
  \/ Logout(b) \/ PostTotp(b) \/ PostBackupCode(b) \/ PostWrongCode(b) \/ EnterByTotp(b)
  \/ VerifyRaises(b) \/ PostSetup(b) \/ ConfirmRaises(b) \/ BeginRegenerate(b)
  \/ BeginDisable(b) \/ DeadlockAborts(b)
  \/ \E s \in Scope : RecordFailure(b, s)

\* changes neither of them.
LEMMA ElsewhereStays == ASSUME NEW b, Elsewhere(b) PROVE UNCHANGED <<device, code, uses>>
BY DEF Elsewhere, PostLogin, form_valid, form_invalid, Fails, AskForCode, EnterByPassword, Logout,
   PostTotp, PostBackupCode, PostWrongCode, EnterByTotp, VerifyRaises, PostSetup, ConfirmRaises,
   BeginRegenerate, BeginDisable, DeadlockAborts, RecordFailure, history

\* The device and its codes come and go together.
LEMMA FactorsStep ==
  ASSUME Inv, NEW b \in Browsers, Request(b)
  PROVE  /\ serial => HasCodes' /\ CodesNeedDevice'
         /\ HasCodes /\ ~HasCodes' => FoundNothing(b)
<1> USE DEF Inv, TypeOK, HasCodes, CodesNeedDevice
<1>1. CASE Elsewhere(b)
  BY <1>1, ElsewhereStays DEF Existing
<1>2. CASE EnterByBackupCode(b)
  <2>1. Existing' = Existing /\ device' = device
    BY <1>2 DEF EnterByBackupCode, Existing
  <2>2. QED
    BY <2>1
<1>3. CASE mfa_setup(b)
  <2>1. device.state = "none" /\ device' = [id |-> device.id + 1, state |-> "pending"] /\ code' = code
    BY <1>3 DEF mfa_setup
  <2>2. QED
    BY <2>1 DEF Existing
<1>4. CASE mfa_disable(b)
  <2>1. Existing' = {} /\ At(b, "disable") /\ req'[b] = NoRequest
    BY <1>4 DEF mfa_disable, Existing, Ends
  <2>2. device' = [device EXCEPT !.state = IF req[b].device = 0 THEN @ ELSE "none"]
    BY <1>4 DEF mfa_disable
  <2>3. CASE req[b].device = 0
    BY <2>1, <2>2, <2>3 DEF ReadsHold, FoundNothing
  <2>4. CASE req[b].device # 0
    BY <2>1, <2>2, <2>4
  <2>5. QED
    BY <2>3, <2>4
<1>5. CASE Confirm(b)
  <2>1. PICK fresh \in FreshSets : ReplaceCodes(Existing, fresh)
    BY <1>5 DEF Confirm
  <2>2. fresh # {} /\ fresh \subseteq Codes
    BY FreshCodes
  <2>3. fresh \subseteq Existing'
    BY <2>1, <2>2 DEF ReplaceCodes, Existing
  <2>4. device'.state = "confirmed"
    BY <1>5 DEF Confirm
  <2>5. QED
    BY <2>2, <2>3, <2>4
<1>6. CASE Regenerate(b)
  <2>1. PICK fresh \in FreshSets : ReplaceCodes(req[b].seen, fresh)
    BY <1>6 DEF Regenerate
  <2>2. fresh # {} /\ fresh \subseteq Codes
    BY FreshCodes
  <2>3. fresh \subseteq Existing'
    BY <2>1, <2>2 DEF ReplaceCodes, Existing
  <2>4. device' = device /\ At(b, "regenerate")
    BY <1>6 DEF Regenerate
  <2>5. QED
    BY <2>2, <2>3, <2>4 DEF ReadsHold
<1>7. QED
  BY <1>1, <1>2, <1>3, <1>4, <1>5, <1>6 DEF Request, Elsewhere

\* A device that is there keeps its number.
LEMMA NumberedStep ==
  ASSUME Inv, NEW b \in Browsers, Request(b)
  PROVE  Numbered'
<1> USE SignInAssumption DEF Inv, TypeOK, Numbered
<1>1. CASE Elsewhere(b)
  BY <1>1, ElsewhereStays
<1>2. CASE EnterByBackupCode(b)
  BY <1>2 DEF EnterByBackupCode
<1>3. CASE mfa_setup(b)
  BY <1>3 DEF mfa_setup
<1>4. CASE mfa_disable(b)
  BY <1>4 DEF mfa_disable
<1>5. CASE Confirm(b)
  BY <1>5 DEF Confirm
<1>6. CASE Regenerate(b)
  BY <1>6 DEF Regenerate
<1>7. QED
  BY <1>1, <1>2, <1>3, <1>4, <1>5, <1>6 DEF Request, Elsewhere

\* With one request at a time a code is found once.
LEMMA CodesOnceStep ==
  ASSUME Inv, serial, NEW b \in Browsers, Request(b)
  PROVE  CodesOnce'
<1> USE DEF Inv, TypeOK, CodesOnce
<1>1. CASE Elsewhere(b)
  BY <1>1, ElsewhereStays
<1>2. CASE EnterByBackupCode(b)
  <2>1. req[b].code \in Codes /\ code[req[b].code] = "unused" /\ uses[req[b].code] = 0
    BY <1>2 DEF EnterByBackupCode, ReadsHold, Existing
  <2>2. /\ code' = [code EXCEPT ![req[b].code] = "used"]
        /\ uses' = [uses EXCEPT ![req[b].code] = @ + 1]
    BY <1>2 DEF EnterByBackupCode
  <2>3. QED
    BY <2>1, <2>2
<1>3. CASE mfa_setup(b)
  BY <1>3 DEF mfa_setup, history
<1>4. CASE mfa_disable(b)
  BY <1>4 DEF mfa_disable, history
<1>5. ASSUME NEW fresh \in FreshSets, NEW S, ReplaceCodes(S, fresh), uses' = uses PROVE CodesOnce'
  BY <1>5, FreshCodes DEF ReplaceCodes
<1>6. CASE Confirm(b)
  BY <1>5, <1>6 DEF Confirm, history
<1>7. CASE Regenerate(b)
  BY <1>5, <1>7 DEF Regenerate, history
<1>8. QED
  BY <1>1, <1>2, <1>3, <1>4, <1>6, <1>7 DEF Request, Elsewhere

\* With one request at a time nobody enters by the password while a device is confirmed.
LEMMA GuardedStep ==
  ASSUME Inv, serial, NEW b \in Browsers, Request(b)
  PROVE  Guarded'
<1> USE DEF Inv, TypeOK, Guarded
<1>1. CASE EnterByPassword(b)
  <2>1. device.state # "confirmed"
    BY <1>1 DEF EnterByPassword, ReadsHold
  <2>2. QED
    BY <1>1, <2>1 DEF EnterByPassword, OpenSession
<1>2. CASE EnterByTotp(b)
  BY <1>2 DEF EnterByTotp, OpenSession
<1>3. CASE EnterByBackupCode(b)
  BY <1>3 DEF EnterByBackupCode, OpenSession
<1>4. CASE Logout(b)
  BY <1>4 DEF Logout
<1>5. CASE AskForCode(b)
  BY <1>5 DEF AskForCode, history
<1>6. ASSUME ~EnterByPassword(b), ~EnterByTotp(b), ~EnterByBackupCode(b), ~Logout(b), ~AskForCode(b)
      PROVE  UNCHANGED <<session, entered>>
  BY <1>6 DEF Request, PostLogin, form_valid, form_invalid, Fails, PostTotp, PostBackupCode,
     PostWrongCode, VerifyRaises, mfa_setup, PostSetup, Confirm, ConfirmRaises, BeginRegenerate,
     BeginDisable, DeadlockAborts, Regenerate, mfa_disable, RecordFailure, Restart, history
<1>7. QED
  BY <1>1, <1>2, <1>3, <1>4, <1>5, <1>6

-----------------------------------------------------------------------------
\* A step touches its own request only, and with one request at a time the others are idle.
LEMMA OthersIdle ==
  ASSUME Inv, NEW b \in Browsers, Request(b)
  PROVE  /\ \A q \in Browsers \ {b} : req'[q] = req[q]
         /\ serial => \A q \in Browsers \ {b} : At(q, "idle") /\ At(q, "idle")'
         /\ serial' = serial
<1>1. \A q \in Browsers \ {b} : req'[q] = req[q]
  BY DEF Inv, TypeOK, Request, PostLogin, form_valid, form_invalid, Fails, AskForCode, EnterByPassword,
     Logout, PostTotp, PostBackupCode, PostWrongCode, EnterByTotp, EnterByBackupCode, VerifyRaises,
     mfa_setup, PostSetup, Confirm, ConfirmRaises, BeginRegenerate, BeginDisable, DeadlockAborts, Regenerate, mfa_disable,
     RecordFailure, Ends
<1>2. MayStart(b) \/ ~At(b, "idle")
  BY DEF Request, PostLogin, form_valid, form_invalid, AskForCode, EnterByPassword,
     Logout, PostTotp, PostBackupCode, PostWrongCode, Asked, EnterByTotp, EnterByBackupCode, VerifyRaises,
     mfa_setup, PostSetup, Confirm, ConfirmRaises, BeginRegenerate, BeginDisable, DeadlockAborts, Regenerate, mfa_disable,
     RecordFailure, Crossed, At, Scope
<1>3. serial' = serial
  BY DEF Request, PostLogin, form_valid, form_invalid, Fails, AskForCode, EnterByPassword,
     Logout, PostTotp, PostBackupCode, PostWrongCode, EnterByTotp, EnterByBackupCode, VerifyRaises,
     mfa_setup, PostSetup, Confirm, ConfirmRaises, BeginRegenerate, BeginDisable, DeadlockAborts, Regenerate, mfa_disable,
     RecordFailure
<1>4. serial => \A q \in Browsers \ {b} : At(q, "idle")
  BY <1>2 DEF Inv, Alone, MayStart
<1>5. QED
  BY <1>1, <1>3, <1>4 DEF At

\* With one request at a time what was read holds until it is used, and the
\* counter keeps up with the wrong answers.
LEMMA SerialStep ==
  ASSUME Inv, serial, NEW b \in Browsers, Request(b)
  PROVE  ReadsHold' /\ Counted'
<1> USE SignInAssumption DEF Inv, TypeOK, At
<1>1. \A q \in Browsers \ {b} : At(q, "idle") /\ At(q, "idle")'
  BY OthersIdle
<1>2. ReadsHold /\ Counted
  OBVIOUS
<1>3. \A s \in Scope : s \in {"login", "mfa"} /\ attempts[s] \in Nat /\ guesses[s] \in Nat
  BY DEF Scope
\* it is enough to look at b, which is the only one that is not idle
<1>4. ASSUME At(b, "enter")' => device'.state # "confirmed",
             At(b, "use")' => code'[req'[b].code] = "unused",
             At(b, "regenerate")' => device'.state = "confirmed",
             At(b, "disable")' /\ req'[b].device = 0 => device'.state # "confirmed",
             At(b, "password")' => attempts'["login"] < MaxAttempts,
             \A s \in Scope : At(b, s)' => /\ req'[b].count < MaxAttempts
                                           /\ guesses'[s] <= req'[b].count + 1
      PROVE  ReadsHold'
  BY <1>1, <1>4 DEF ReadsHold, Scope
<1>5. ASSUME UNCHANGED <<attempts, guesses>>, \A s \in Scope : ~At(b, s) PROVE Counted'
  BY <1>1, <1>2, <1>5 DEF Counted, Scope
<1>6. ASSUME NEW r \in Scope, Restart(r), \A s \in Scope : ~At(b, s) PROVE Counted'
  <2>1. \A s \in Scope : guesses[s] <= attempts[s] /\ attempts[s] <= MaxAttempts
    BY <1>1, <1>2, <1>6 DEF Counted, Scope
  <2>2. \A s \in Scope : guesses'[s] <= attempts'[s] /\ attempts'[s] <= MaxAttempts
    BY <1>6, <2>1 DEF Restart
  <2>3. QED
    BY <2>2 DEF Counted
<1>7. ASSUME NEW r \in Scope, Fails(b, r), attempts[r] < MaxAttempts, \A s \in Scope : ~At(b, s)
      PROVE  ReadsHold' /\ Counted'
  <2>1. \A s \in Scope : guesses[s] <= attempts[s] /\ attempts[s] <= MaxAttempts
    BY <1>1, <1>2, <1>7 DEF Counted, Scope
  <2>2. /\ attempts' = attempts /\ guesses' = [guesses EXCEPT ![r] = @ + 1]
        /\ req'[b].at = r /\ req'[b].count = attempts[r]
    BY <1>7 DEF Fails, NoRequest
  <2>3. ReadsHold'
    BY <1>3, <1>4, <1>7, <2>1, <2>2 DEF Scope
  <2>4. Counted'
    BY <1>3, <2>1, <2>2 DEF Counted
  <2>5. QED
    BY <2>3, <2>4
<1>8. ASSUME Ends(b) PROVE ReadsHold'
  <2>1. req'[b] = NoRequest /\ NoRequest.at = "idle"
    BY <1>8 DEF Ends, NoRequest
  <2>2. QED
    BY <1>4, <2>1 DEF Scope
<1>9. ASSUME req' = req, At(b, "idle") PROVE ReadsHold'
  BY <1>4, <1>9 DEF Scope
<1>10. CASE PostLogin(b)
  <2>1. At(b, "idle") /\ attempts["login"] < MaxAttempts /\ UNCHANGED <<attempts, guesses>>
    BY <1>3, <1>10 DEF PostLogin, MayStart, is_locked_out, history, Scope
  <2>2. At(b, "password")'
    BY <1>10 DEF PostLogin
  <2>3. QED
    BY <1>4, <1>5, <2>1, <2>2 DEF Scope
<1>11. CASE form_valid(b)
  <2>1. /\ At(b, "password") /\ Restart("login") /\ device' = device
        /\ req'[b].at = IF Confirmed THEN "ask" ELSE "enter"
    BY <1>11 DEF form_valid
  <2>2. Counted'
    BY <1>6, <2>1 DEF Scope
  <2>3. ReadsHold'
    BY <1>4, <2>1 DEF Scope, Confirmed
  <2>4. QED
    BY <2>2, <2>3
<1>12. CASE form_invalid(b)
  <2>1. At(b, "password") /\ Fails(b, "login") /\ attempts["login"] < MaxAttempts
    BY <1>2, <1>12 DEF form_invalid, ReadsHold
  <2>2. QED
    BY <1>7, <2>1 DEF Scope
<1>13. CASE PostWrongCode(b)
  <2>1. At(b, "idle") /\ Fails(b, "mfa") /\ attempts["mfa"] < MaxAttempts
    BY <1>3, <1>13 DEF PostWrongCode, Asked, MayStart, is_locked_out, Scope
  <2>2. QED
    BY <1>7, <2>1 DEF Scope
<1>14. CASE AskForCode(b)
  BY <1>5, <1>8, <1>14 DEF AskForCode, history, Scope
<1>15. CASE EnterByPassword(b)
  BY <1>5, <1>8, <1>15 DEF EnterByPassword, Scope
<1>16. CASE Logout(b)
  BY <1>5, <1>9, <1>16 DEF Logout, MayStart, Scope
<1>17. CASE PostTotp(b)
  <2>1. At(b, "idle") /\ At(b, "verified")' /\ UNCHANGED <<attempts, guesses>>
    BY <1>17 DEF PostTotp, Asked, MayStart, history
  <2>2. QED
    BY <1>4, <1>5, <2>1 DEF Scope
<1>18. CASE PostBackupCode(b)
  <2>1. PICK c \in Usable : req' = [req EXCEPT ![b].at = "use", ![b].code = c, ![b].device = DeviceRead]
    BY <1>18 DEF PostBackupCode
  <2>2. At(b, "idle") /\ UNCHANGED <<attempts, guesses, code>>
    BY <1>18 DEF PostBackupCode, Asked, MayStart, history
  <2>3. At(b, "use")' /\ req'[b].code = c
    BY <2>1
  <2>4. QED
    BY <1>4, <1>5, <2>2, <2>3 DEF Scope, Usable
<1>19. CASE EnterByTotp(b)
  BY <1>6, <1>8, <1>19 DEF EnterByTotp, Scope
<1>20. CASE EnterByBackupCode(b)
  BY <1>6, <1>8, <1>20 DEF EnterByBackupCode, Scope
<1>21. CASE VerifyRaises(b)
  BY <1>5, <1>6, <1>8, <1>21 DEF VerifyRaises, Scope
<1>22. CASE mfa_setup(b)
  BY <1>5, <1>9, <1>22 DEF mfa_setup, MayStart, history, Scope
<1>23. CASE PostSetup(b)
  <2>1. At(b, "idle") /\ At(b, "confirm")' /\ UNCHANGED <<attempts, guesses>>
    BY <1>23 DEF PostSetup, MayStart, history
  <2>2. QED
    BY <1>4, <1>5, <2>1 DEF Scope
<1>24. CASE Confirm(b)
  BY <1>5, <1>8, <1>24 DEF Confirm, history, Scope
<1>25. CASE ConfirmRaises(b)
  BY <1>5, <1>8, <1>25 DEF ConfirmRaises, history, Scope
<1>26. CASE BeginRegenerate(b)
  <2>1. /\ At(b, "idle") /\ At(b, "regenerate")' /\ UNCHANGED <<attempts, guesses, device>>
        /\ device.state = "confirmed"
    BY <1>26 DEF BeginRegenerate, MayStart, history
  <2>2. QED
    BY <1>4, <1>5, <2>1 DEF Scope
<1>27. CASE Regenerate(b)
  BY <1>5, <1>8, <1>27 DEF Regenerate, history, Scope
<1>28. CASE mfa_disable(b)
  BY <1>5, <1>8, <1>28 DEF mfa_disable, history, Scope
<1>29. ASSUME NEW s \in Scope, RecordFailure(b, s) PROVE ReadsHold' /\ Counted'
  <2>1. /\ attempts' = [attempts EXCEPT ![s] = req[b].count + 1] /\ guesses' = guesses
        /\ At(b, s) /\ req[b].count < MaxAttempts /\ guesses[s] <= req[b].count + 1
    BY <1>2, <1>29 DEF RecordFailure, history, ReadsHold
  <2>2. \A r \in Scope \ {s} : guesses[r] <= attempts[r]
    BY <1>1, <1>2, <2>1 DEF Counted, Scope
  <2>3. req[b].count \in Nat
    OBVIOUS
  <2>4. Counted'
    BY <1>2, <1>3, <2>1, <2>2, <2>3 DEF Counted
  <2>5. QED
    BY <1>8, <1>29, <2>4 DEF RecordFailure
<1>30. CASE BeginDisable(b)
  <2>1. /\ At(b, "idle") /\ At(b, "disable")' /\ UNCHANGED <<attempts, guesses, device>>
        /\ req'[b].device = IF device.state = "none" THEN 0 ELSE device.id
    BY <1>30 DEF BeginDisable, MayStart, history
  <2>2. req'[b].device = 0 => device.state # "confirmed"
    BY <2>1 DEF Numbered
  <2>3. QED
    BY <1>4, <1>5, <2>1, <2>2 DEF Scope
<1>31. CASE DeadlockAborts(b)
  <2>1. Ends(b) /\ ~At(b, "login") /\ ~At(b, "mfa")
    BY <1>31 DEF DeadlockAborts, Crossed
  <2>2. Restart("mfa") \/ UNCHANGED <<attempts, guesses>>
    BY <1>31 DEF DeadlockAborts
  <2>3. QED
    BY <1>5, <1>6, <1>8, <2>1, <2>2 DEF Scope
<1>32. QED
  BY <1>10, <1>11, <1>12, <1>13, <1>14, <1>15, <1>16, <1>17, <1>18, <1>19, <1>20, <1>21, <1>22,
     <1>23, <1>24, <1>25, <1>26, <1>27, <1>28, <1>29, <1>30, <1>31 DEF Request

\* A counter that times out.
LEMMA ExpireStep == ASSUME Inv, NEW r \in Scope, Expire(r) PROVE Inv'
<1> USE SignInAssumption DEF Inv
<1>1. /\ attempts' = [attempts EXCEPT ![r] = 0] /\ guesses' = [guesses EXCEPT ![r] = 0]
      /\ UNCHANGED <<device, code, session, req, uses, entered, serial>>
  BY DEF Expire, Restart
<1>2. TypeOK'
  BY <1>1 DEF TypeOK
<1>3. CountFits' /\ Numbered'
  BY <1>1 DEF CountFits, Numbered, At
<1>4. ASSUME serial PROVE Alone' /\ CodesOnce' /\ Guarded' /\ HasCodes' /\ CodesNeedDevice'
  BY <1>1, <1>4 DEF Alone, At, CodesOnce, Guarded, HasCodes, CodesNeedDevice, Existing
<1>5. ASSUME serial PROVE Counted'
  BY <1>1, <1>5 DEF Counted, At, TypeOK
<1>6. ASSUME serial PROVE ReadsHold'
  BY <1>1, <1>6 DEF ReadsHold, At, TypeOK, Scope
<1>7. QED
  BY <1>1, <1>2, <1>3, <1>4, <1>5, <1>6

LEMMA InvStep == Inv /\ [Next]_vars => Inv'
<1> SUFFICES ASSUME Inv, [Next]_vars PROVE Inv'
  OBVIOUS
<1>1. ASSUME NEW b \in Browsers, Request(b) PROVE Inv'
  <2>1. TypeOK' /\ CountFits'
    BY <1>1, TypeStep DEF Inv
  <2>2. Numbered' /\ (serial => HasCodes' /\ CodesNeedDevice')
    BY <1>1, FactorsStep, NumberedStep
  <2>3. ASSUME serial PROVE ReadsHold' /\ Counted' /\ CodesOnce' /\ Guarded' /\ Alone'
    <3>1. ReadsHold' /\ Counted' /\ CodesOnce' /\ Guarded'
      BY <1>1, <2>3, SerialStep, CodesOnceStep, GuardedStep
    <3>2. Alone'
      BY <1>1, <2>3, OthersIdle DEF Alone
    <3>3. QED
      BY <3>1, <3>2
  <2>4. serial' = serial
    BY <1>1, OthersIdle
  <2>5. QED
    BY <2>1, <2>2, <2>3, <2>4 DEF Inv
<1>2. CASE UNCHANGED vars
  BY <1>2 DEF vars, Inv, TypeOK, CountFits, Numbered, HasCodes, Alone, ReadsHold, Counted, CodesOnce, Guarded,
     CodesNeedDevice, Existing, At
<1>3. QED
  BY <1>1, <1>2, ExpireStep DEF Next

LEMMA Invariance == Spec => []Inv
BY InvInit, InvStep, PTL DEF Spec

\* The rows, the sessions and the counters of an account stay well-typed.
THEOREM TypeCorrect == Spec => []TypeOK
<1>1. Inv => TypeOK
  BY DEF Inv
<1>2. QED
  BY <1>1, Invariance, PTL

\* No session opens by the password alone while a device is confirmed, and no
\* backup code opens two, as long as requests come one at a time.
THEOREM SecondFactorIsNeeded == Spec => []SecondFactorHolds
<1>1. Inv => SecondFactorHolds
  BY DEF Inv, SecondFactorHolds, Guarded, CodesOnce
<1>2. QED
  BY <1>1, Invariance, PTL

\* With one request at a time a device is confirmed exactly while it has codes,
\* and however requests overlap a confirmed device loses its last one only to a
\* disable that had found no device, for any number of browsers and codes.
THEOREM DeviceHasCodes == Spec => FactorsMatch
<1> DEFINE A ==
  /\ serial => (device'.state = "confirmed" <=> Existing' # {})
  /\ (device.state = "confirmed" => Existing # {}) /\ device'.state = "confirmed" /\ Existing' = {} =>
       \E b \in Browsers : At(b, "disable") /\ req[b].device = 0 /\ req'[b] = NoRequest
<1>1. Inv /\ [Next]_vars => [A]_vars
  <2> SUFFICES ASSUME Inv, [Next]_vars PROVE [A]_vars
    OBVIOUS
  <2>1. Inv'
    BY InvStep
  <2>2. ASSUME NEW b \in Browsers, Request(b) PROVE A
    <3>1. serial' = serial
      BY <2>2, OthersIdle
    <3>2. serial => (device'.state = "confirmed" <=> Existing' # {})
      BY <2>1, <3>1 DEF Inv, HasCodes, CodesNeedDevice
    <3>3. HasCodes /\ ~HasCodes' => FoundNothing(b)
      BY <2>2, FactorsStep
    <3>4. QED
      BY <3>2, <3>3 DEF HasCodes, FoundNothing
  <2>3. ASSUME NEW s \in Scope, Expire(s) PROVE A
    <3>1. serial' = serial /\ device' = device /\ Existing' = Existing
      BY <2>3 DEF Expire, Existing
    <3>2. QED
      BY <3>1 DEF Inv, HasCodes, CodesNeedDevice
  <2>4. QED
    BY <2>2, <2>3 DEF Next
<1>2. QED
  BY <1>1, Invariance, PTL DEF Spec, FactorsMatch

\* MAX_ATTEMPTS bounds the wrong answers that are evaluated, for any limit and
\* any number of browsers, one request at a time.
THEOREM LockoutIsExact == Spec => []LockoutHolds
<1>1. Inv => LockoutHolds
  <2> SUFFICES ASSUME Inv, serial, NEW s \in Scope PROVE guesses[s] <= MaxAttempts
    BY DEF LockoutHolds
  <2>1. /\ attempts[s] \in Nat /\ guesses[s] \in Nat /\ attempts[s] <= MaxAttempts
        /\ MaxAttempts \in Nat /\ \A b \in Browsers : req[b].count \in Nat
    BY SignInAssumption DEF Inv, TypeOK, Counted
  <2>2. CASE \A b \in Browsers : ~At(b, s)
    BY <2>1, <2>2 DEF Inv, Counted
  <2>3. ASSUME NEW b \in Browsers, At(b, s) PROVE guesses[s] <= MaxAttempts
    BY <2>1, <2>3 DEF Inv, ReadsHold
  <2>4. QED
    BY <2>2, <2>3
<1>2. QED
  BY <1>1, Invariance, PTL
=============================================================================
