-------------------------------- MODULE SignIn --------------------------------
(***************************************************************************)
(* One user account of apps.accounts: password, TOTP device, backup codes, *)
(* and the lockout counters that the cache keeps.  Several browsers work   *)
(* on it at once.  A request reads (the counter, the device, a code) in one*)
(* step and writes in a later one; only disable_mfa holds a row from one   *)
(* statement to the next.  The Django admin has a sign-in of its own at    *)
(* /admin/login/, which is not this one.                                   *)
(***************************************************************************)
EXTENDS Naturals, FiniteSets

CONSTANTS
  Browsers,
  Codes,       \* backup codes that can ever be issued
  CodesPerSet, \* BACKUP_CODE_COUNT
  MaxAttempts, \* MAX_ATTEMPTS
  MaxGuesses,  \* bound: wrong answers until a counter starts again, and its value
  MaxDevices,  \* bound: devices ever set up
  NoCode

ASSUME SignInAssumption ==
  /\ CodesPerSet \in Nat \ {0} /\ MaxAttempts \in Nat \ {0}
  /\ MaxGuesses \in Nat /\ MaxGuesses > MaxAttempts
  /\ MaxDevices \in Nat
  /\ NoCode \notin Codes

VARIABLES
  device,   \* the MFADevice row: its id, and none, pending or confirmed
  code,     \* BackupCode rows: unissued, unused, used or deleted
  session,  \* of each browser: anonymous, pending (mfa_pending_user_id), in
  attempts, \* failures that the cache counts, per scope
  req,      \* the request of each browser between its reads and its writes
  guesses,  \* history: wrong answers since the counter last started again
  uses,     \* history: sessions that each backup code has opened
  entered,  \* history: how each session was opened, and whether MFA was on then
  serial    \* environment: one request at a time

history == <<guesses, uses, entered>>
vars == <<device, code, session, attempts, req, guesses, uses, entered, serial>>

Scope     == {"login", "mfa"}
NoRequest == [at |-> "idle", device |-> 0, code |-> NoCode, count |-> 0, seen |-> {}]
Stranger  == [how |-> "nothing", guarded |-> FALSE]

Init ==
  /\ device = [id |-> 0, state |-> "none"]
  /\ code = [c \in Codes |-> "unissued"]
  /\ session = [b \in Browsers |-> "anonymous"]
  /\ attempts = [s \in Scope |-> 0]
  /\ req = [b \in Browsers |-> NoRequest]
  /\ guesses = [s \in Scope |-> 0]
  /\ uses = [c \in Codes |-> 0]
  /\ entered = [b \in Browsers |-> Stranger]
  /\ serial \in BOOLEAN

-----------------------------------------------------------------------------
At(b, at) == req[b].at = at
MayStart(b) == At(b, "idle") /\ (serial => \A o \in Browsers : At(o, "idle"))
Ends(b) == req' = [req EXCEPT ![b] = NoRequest]

\* MFADevice.objects.filter(user=user, confirmed=True).first()
NoneFound == FALSE
Confirmed == device.state = "confirmed"

\* apps.accounts.throttle
is_locked_out_late(s) == attempts[s] > MaxAttempts
is_locked_out(s) == attempts[s] >= MaxAttempts

\* reset(): the counter starts again
Restart(s) ==
  /\ attempts' = [attempts EXCEPT ![s] = 0]
  /\ guesses' = [guesses EXCEPT ![s] = 0]

\* the cache entry times out, LOCKOUT_SECONDS after it was last set
Expire(s) ==
  /\ attempts[s] > 0
  /\ Restart(s)
  /\ UNCHANGED <<device, code, session, req, uses, entered, serial>>

\* record_failure() reads the counter ...
Fails(b, s) ==
  /\ guesses[s] < MaxGuesses /\ attempts[s] < MaxGuesses
  /\ guesses' = [guesses EXCEPT ![s] = @ + 1]
  /\ req' = [req EXCEPT ![b] = [NoRequest EXCEPT !.at = s, !.count = attempts[s]]]
  /\ UNCHANGED <<device, code, session, attempts, uses, entered, serial>>

\* ... and sets it
RecordIncrement(b, s) ==
  /\ At(b, s)
  /\ attempts' = [attempts EXCEPT ![s] = @ + req[b].count + 1]
  /\ Ends(b)
  /\ UNCHANGED <<device, code, session, history, serial>>

RecordFailure(b, s) ==
  /\ At(b, s)
  /\ attempts' = [attempts EXCEPT ![s] = req[b].count + 1]
  /\ Ends(b)
  /\ UNCHANGED <<device, code, session, history, serial>>

-----------------------------------------------------------------------------
(* EmailLoginView.                                                          *)

PostLogin(b) ==
  /\ MayStart(b) /\ session[b] # "in" /\ ~is_locked_out("login")
  /\ req' = [req EXCEPT ![b].at = "password"]
  /\ UNCHANGED <<device, code, session, attempts, history, serial>>

form_invalid(b) == At(b, "password") /\ Fails(b, "login")

form_valid(b) ==
  /\ At(b, "password")
  /\ Restart("login")
  /\ req' = [req EXCEPT ![b].at = IF Confirmed THEN "ask" ELSE "enter"]
  /\ UNCHANGED <<device, code, session, uses, entered, serial>>

\* the session remembers who has to enter a code
AskForCode(b) ==
  /\ At(b, "ask")
  /\ session' = [session EXCEPT ![b] = "pending"]
  /\ Ends(b)
  /\ UNCHANGED <<device, code, attempts, history, serial>>

\* auth_login
OpenSession(b, how) ==
  /\ session' = [session EXCEPT ![b] = "in"]
  /\ entered' = [entered EXCEPT ![b] = [how |-> how, guarded |-> device.state = "confirmed"]]

EnterByPassword(b) ==
  /\ At(b, "enter")
  /\ OpenSession(b, "password")
  /\ Ends(b)
  /\ UNCHANGED <<device, code, attempts, guesses, uses, serial>>

Logout(b) ==
  /\ MayStart(b) /\ session[b] # "anonymous"
  /\ session' = [session EXCEPT ![b] = "anonymous"]
  /\ entered' = [entered EXCEPT ![b] = Stranger]
  /\ UNCHANGED <<device, code, attempts, req, guesses, uses, serial>>

-----------------------------------------------------------------------------
(* mfa_verify, with a TOTP code, a backup code or a wrong one.              *)

Asked(b) == MayStart(b) /\ session[b] = "pending" /\ ~is_locked_out("mfa")

Existing == {c \in Codes : code[c] \in {"unused", "used"}}
Usable   == {c \in Codes : code[c] = "unused"}

\* the id of the device that the request has read, 0 if there is none
DeviceRead == IF device.state = "confirmed" THEN device.id ELSE 0

PostTotp(b) ==
  /\ Asked(b) /\ device.state = "confirmed"
  /\ req' = [req EXCEPT ![b].at = "verified", ![b].device = DeviceRead]
  /\ UNCHANGED <<device, code, session, attempts, history, serial>>

\* consume_backup_code looks for an unused code
PostBackupCode(b) == \E c \in Usable :
  /\ Asked(b)
  /\ req' = [req EXCEPT ![b].at = "use", ![b].code = c, ![b].device = DeviceRead]
  /\ UNCHANGED <<device, code, session, attempts, history, serial>>

PostWrongCode(b) == Asked(b) /\ Fails(b, "mfa")

\* saving a device or a code that was deleted meanwhile raises
DeviceStays(b) == req[b].device # 0 => device = [id |-> req[b].device, state |-> "confirmed"]

\* a disable_mfa that has deleted the row has not committed: whoever writes it waits
DeviceLocked == \E b \in Browsers : At(b, "disable") /\ req[b].device # 0
MaySave(b) == DeviceStays(b) /\ (req[b].device # 0 => ~DeviceLocked)

EnterByTotp(b) ==
  /\ At(b, "verified") /\ MaySave(b)
  /\ OpenSession(b, "code")
  /\ Restart("mfa")
  /\ Ends(b)
  /\ UNCHANGED <<device, code, uses, serial>>

\* mark_used, then the session
EnterByBackupCode(b) ==
  LET c == req[b].code IN
  /\ At(b, "use") /\ MaySave(b) /\ c \in Existing
  /\ code' = [code EXCEPT ![c] = "used"]
  /\ uses' = [uses EXCEPT ![c] = @ + 1]
  /\ OpenSession(b, "code")
  /\ Restart("mfa")
  /\ Ends(b)
  /\ UNCHANGED <<device, serial>>

\* the transaction rolls back and the session is not saved; reset("mfa") has
\* been called already if it was the device that is gone
VerifyRaises(b) ==
  /\ At(b, "verified") \/ At(b, "use")
  /\ \/ At(b, "use") /\ req[b].code \notin Existing /\ UNCHANGED <<attempts, guesses>>
     \/ (At(b, "use") => req[b].code \in Existing) /\ ~DeviceStays(b) /\ Restart("mfa")
  /\ Ends(b)
  /\ UNCHANGED <<device, code, session, uses, entered, serial>>

-----------------------------------------------------------------------------
(* The portal pages of a signed-in user: mfa_setup, mfa_disable and         *)
(* mfa_regenerate_backup_codes.                                             *)

mfa_setup(b) ==
  /\ MayStart(b) /\ session[b] = "in" /\ device.state = "none"
  /\ device.id < MaxDevices
  /\ device' = [id |-> device.id + 1, state |-> "pending"]
  /\ UNCHANGED <<code, session, attempts, req, history, serial>>

\* the code that proves the device verifies
PostSetup(b) ==
  /\ MayStart(b) /\ session[b] = "in" /\ device.state = "pending"
  /\ req' = [req EXCEPT ![b].at = "confirm", ![b].device = device.id]
  /\ UNCHANGED <<device, code, session, attempts, history, serial>>

\* generate_backup_codes: the codes in S are deleted, fresh ones issued
ReplaceCodes(S, fresh) ==
  code' = [c \in Codes |-> IF c \in fresh THEN "unused" ELSE IF c \in S THEN "deleted" ELSE code[c]]
FreshSets == {S \in SUBSET {c \in Codes : code[c] = "unissued"} : Cardinality(S) = CodesPerSet}

\* confirm_device and its codes; the device row stays locked until COMMIT
ConfirmOnly(b) ==
  /\ At(b, "confirm") /\ device.state # "none" /\ device.id = req[b].device /\ ~DeviceLocked
  /\ device' = [device EXCEPT !.state = "confirmed"]
  /\ Ends(b)
  /\ UNCHANGED <<code, session, attempts, history, serial>>

Confirm(b) == \E fresh \in FreshSets :
  /\ At(b, "confirm") /\ device.state # "none" /\ device.id = req[b].device /\ ~DeviceLocked
  /\ device' = [device EXCEPT !.state = "confirmed"]
  /\ ReplaceCodes(Existing, fresh)
  /\ Ends(b)
  /\ UNCHANGED <<session, attempts, history, serial>>

ConfirmRaises(b) ==
  /\ At(b, "confirm") /\ (device.state = "none" \/ device.id # req[b].device)
  /\ Ends(b)
  /\ UNCHANGED <<device, code, session, attempts, history, serial>>

\* the DELETE takes the codes it sees; the new ones appear at COMMIT
BeginRegenerate(b) ==
  /\ MayStart(b) /\ session[b] = "in" /\ device.state = "confirmed"
  /\ req' = [req EXCEPT ![b].at = "regenerate", ![b].seen = Existing]
  /\ UNCHANGED <<device, code, session, attempts, history, serial>>

Regenerate(b) == \E fresh \in FreshSets :
  /\ At(b, "regenerate")
  /\ ReplaceCodes(req[b].seen, fresh)
  /\ Ends(b)
  /\ UNCHANGED <<device, session, attempts, history, serial>>

\* disable_mfa deletes the device row, if there is one ...
BeginDisable(b) ==
  /\ MayStart(b) /\ session[b] = "in" /\ ~DeviceLocked
  /\ req' = [req EXCEPT ![b].at = "disable",
                        ![b].device = IF device.state = "none" THEN 0 ELSE device.id]
  /\ UNCHANGED <<device, code, session, attempts, history, serial>>

\* ... and then the codes there are by now
mfa_disable(b) ==
  /\ At(b, "disable")
  /\ device' = [device EXCEPT !.state = IF req[b].device = 0 THEN @ ELSE "none"]
  /\ code' = [c \in Codes |-> IF c \in Existing THEN "deleted" ELSE code[c]]
  /\ Ends(b)
  /\ UNCHANGED <<session, attempts, history, serial>>

\* mfa_verify writes the code before the device, the others the device before
\* the codes: PostgreSQL aborts one of two that wait for each other
Crossed(v, d) ==
  /\ At(v, "use") /\ (At(d, "confirm") \/ At(d, "disable"))
  /\ req[v].device # 0 /\ req[v].device = req[d].device

DeadlockAborts(b) ==
  /\ \/ (\E o \in Browsers : Crossed(b, o)) /\ Restart("mfa")
     \/ (\E o \in Browsers : Crossed(o, b)) /\ UNCHANGED <<attempts, guesses>>
  /\ Ends(b)
  /\ UNCHANGED <<device, code, session, uses, entered, serial>>

-----------------------------------------------------------------------------
Request(b) ==
  \/ PostLogin(b) \/ form_valid(b) \/ form_invalid(b) \/ AskForCode(b) \/ EnterByPassword(b)
  \/ Logout(b)
  \/ PostTotp(b) \/ PostBackupCode(b) \/ PostWrongCode(b)
  \/ EnterByTotp(b) \/ EnterByBackupCode(b) \/ VerifyRaises(b)
  \/ mfa_setup(b) \/ PostSetup(b) \/ Confirm(b) \/ ConfirmRaises(b)
  \/ BeginRegenerate(b) \/ Regenerate(b) \/ BeginDisable(b) \/ mfa_disable(b) \/ DeadlockAborts(b)
  \/ \E s \in Scope : RecordFailure(b, s)

Next == (\E b \in Browsers : Request(b)) \/ (\E s \in Scope : Expire(s))

Spec == Init /\ [][Next]_vars

-----------------------------------------------------------------------------
\* Type correctness of the rows, the sessions, the cache and the requests.
TypeOK ==
  /\ device \in [id : 0 .. MaxDevices, state : {"none", "pending", "confirmed"}]
  /\ code \in [Codes -> {"unissued", "unused", "used", "deleted"}]
  /\ session \in [Browsers -> {"anonymous", "pending", "in"}]
  /\ attempts \in [Scope -> 0 .. MaxGuesses]
  /\ req \in [Browsers ->
       [at : Scope \cup {"idle", "password", "ask", "enter", "verified", "use", "confirm",
              "regenerate", "disable"},
        device : 0 .. MaxDevices, code : Codes \cup {NoCode}, count : Nat, seen : SUBSET Codes]]
  /\ guesses \in [Scope -> 0 .. MaxGuesses] /\ uses \in [Codes -> Nat]
  /\ entered \in [Browsers -> [how : {"nothing", "password", "code"}, guarded : BOOLEAN]]
  /\ serial \in BOOLEAN

\* "If the authenticated user has a confirmed MFADevice, the session is NOT
\* established here": with one request at a time nobody is signed in by the
\* password alone while a device is confirmed, and a backup code opens one
\* session ("Single-use recovery codes").  Two browsers that present one code
\* at the same time both get in.
SecondFactorHolds == serial =>
  /\ \A b \in Browsers : session[b] = "in" /\ entered[b].guarded => entered[b].how = "code"
  /\ \A c \in Codes : uses[c] <= 1

\* With one request at a time a device is confirmed exactly while there are
\* backup codes ("shipping MFA without a recovery path would lock users out").
\* However requests overlap, a confirmed device loses its last code in one way
\* only: to an mfa_disable that had found no device to delete.  (A regeneration
\* that overlaps mfa_disable leaves codes without a device.)
FactorsMatch == [][
  /\ serial => (device'.state = "confirmed" <=> Existing' # {})
  /\ (device.state = "confirmed" => Existing # {}) /\ device'.state = "confirmed" /\ Existing' = {} =>
       \E b \in Browsers : At(b, "disable") /\ req[b].device = 0 /\ req'[b] = NoRequest]_vars

\* With one request at a time no more than MAX_ATTEMPTS wrong passwords or codes
\* are evaluated until the counter is reset or expires.  (Failures that overlap
\* read the same count, and are counted once.)
LockoutHolds == serial => \A s \in Scope : guesses[s] <= MaxAttempts
=============================================================================
