------------------------------ MODULE Accounts ------------------------------
(***************************************************************************)
(* The credentials of one account of the web service: the password and the  *)
(* two-factor fields of its record (web/accounts.go, twofa_handlers.go), the *)
(* sessions and half-finished logins in memory (session.go), the API keys on *)
(* disk (apikeys.go), and the handlers that issue and end them               *)
(* (accounts_handlers.go, api_handlers.go).                                 *)
(*                                                                         *)
(* The record is loaded and stored whole, under the account's lock when it  *)
(* is changed; between two such steps a handler holds what it loaded, and   *)
(* other requests run.  Passwords are numbered in the order they are saved, *)
(* TOTP secrets and sets of recovery codes in the order they are drawn.     *)
(*                                                                         *)
(* A session or key is known by the password the record held when it was    *)
(* issued, a pending login by its secret.  Those that agree are one element *)
(* of a set; losing one of several such is then a stuttering step.          *)
(***************************************************************************)
EXTENDS Naturals, FiniteSets

CONSTANTS
  Requests,    \* handlers that may be in flight at a time
  MaxChanges,  \* bound on password changes
  MaxSecrets,  \* bound on TOTP enrolments
  MaxSets,     \* bound on sets of recovery codes
  MaxPending,  \* a login of two steps starts while fewer are half-finished
  MaxStep      \* bound on the clock, in TOTP periods

ASSUME AccountsAssumption ==
  /\ {MaxChanges, MaxSecrets, MaxSets, MaxPending} \subseteq Nat
  /\ MaxStep \in Nat \ {0}

VARIABLES
  pw,        \* the password the record's hash and wrapped key are made with
  enabled, secret, lastUsed, recovery,  \* TOTPEnabled, TOTPSecret, TOTPLastUsed, RecoveryCodes
  drawn,     \* secrets and sets of codes drawn so far
  now,       \* the current TOTP period
  sessions, pending, keys,
  req,       \* req[r]: the handler's pc, password and secret at hand
  \* history:
  ended,     \* newest password whose change has ended the older credentials
  accepted,  \* newest TOTP code of the enrolled secret that completed a login
  spent,     \* recovery codes that completed a login
  confirmed  \* secret whose owner last showed a code of it to enable 2FA

record == <<pw, enabled, secret, lastUsed, recovery>>
history == <<ended, accepted, spent, confirmed>>
vars == <<record, drawn, now, sessions, pending, keys, req, history>>

NoSecret == 0
Passwords == 1..(MaxChanges + 1)
Secrets == 1..MaxSecrets
Codes == 1..MaxSets

Handler(pc, p, k) == [pc |-> pc, pw |-> p, secret |-> k]
Idle == Handler("idle", 0, NoSecret)

PCs == {"idle", "session", "pending", "totp", "recovery", "verified",
        "change", "save", "revoke", "destroy", "key",
        "setup", "enable", "regenerate", "disable"}
Handlers == [pc : PCs, pw : Passwords \cup {0}, secret : Secrets \cup {NoSecret}]

TypeOK ==
  /\ pw \in Passwords
  /\ enabled \in BOOLEAN
  /\ secret \in Secrets \cup {NoSecret}
  /\ lastUsed \in 0..(MaxStep + 1)
  /\ recovery \subseteq Codes
  /\ drawn \in [secrets : 0..MaxSecrets, codes : 0..MaxSets]
  /\ now \in 1..MaxStep
  /\ sessions \subseteq Passwords
  /\ pending \subseteq Secrets
  /\ keys \subseteq Passwords
  /\ req \in [Requests -> Handlers]
  /\ ended \in Passwords
  /\ accepted \in 0..(MaxStep + 1)
  /\ spent \subseteq Codes
  /\ confirmed \in Secrets \cup {NoSecret}

\* A registered account, nobody logged in.
Init ==
  /\ pw = 1
  /\ enabled = FALSE
  /\ secret = NoSecret
  /\ lastUsed = 0
  /\ recovery = {}
  /\ drawn = [secrets |-> 0, codes |-> 0]
  /\ now = 1
  /\ sessions = {}
  /\ pending = {}
  /\ keys = {}
  /\ req = [r \in Requests |-> Idle]
  /\ ended = 1
  /\ accepted = 0
  /\ spent = {}
  /\ confirmed = NoSecret

At(r, pc) == req[r].pc = pc
Goto(r, pc) == req' = [req EXCEPT ![r] = Handler(pc, req[r].pw, req[r].secret)]
Answer(r) == req' = [req EXCEPT ![r] = Idle]

\* totpVerify: a code of the current period or of one on either side.
InWindow == (now - 1)..(now + 1)

-----------------------------------------------------------------------------
(* POST /api/login and /api/login/totp *)

\* authenticate loads the record and accepts the password it holds.
Login(r) ==
  /\ At(r, "idle")
  /\ enabled => Cardinality(pending) < MaxPending
  /\ req' = [req EXCEPT ![r] = IF enabled THEN Handler("pending", 0, secret)
                                          ELSE Handler("session", 0, NoSecret)]
  /\ UNCHANGED <<record, drawn, now, sessions, pending, keys, history>>

IssueSession(r) ==
  /\ At(r, "session")
  /\ sessions' = sessions \cup {pw}
  /\ Answer(r)
  /\ UNCHANGED <<record, drawn, now, pending, keys, history>>

IssuePending(r) ==
  /\ At(r, "pending")
  /\ pending' = pending \cup {req[r].secret}
  /\ Answer(r)
  /\ UNCHANGED <<record, drawn, now, sessions, keys, history>>

\* The second step finds the pending login, which stays until it succeeds.
ResumeLogin(r) ==
  /\ At(r, "idle")
  /\ \E k \in pending : req' = [req EXCEPT ![r] = Handler("totp", 0, k)]
  /\ UNCHANGED <<record, drawn, now, sessions, pending, keys, history>>

\* MUTANT of ConsumeTOTP: the code's period is not compared with the last.
ConsumeAnyTOTP(r) ==
  /\ At(r, "totp")
  /\ \E c \in InWindow :
       /\ lastUsed' = c
       /\ accepted' = IF req[r].secret = secret /\ c > accepted THEN c ELSE accepted
  /\ Goto(r, "verified")
  /\ UNCHANGED <<pw, enabled, secret, recovery, drawn, now, sessions, pending, keys,
                 ended, spent, confirmed>>

\* consumeTOTP: a code of the pending login's secret, newer than the last.
ConsumeTOTP(r) ==
  /\ At(r, "totp")
  /\ \E c \in InWindow :
       /\ c > lastUsed
       /\ lastUsed' = c
       /\ accepted' = IF req[r].secret = secret /\ c > accepted THEN c ELSE accepted
  /\ Goto(r, "verified")
  /\ UNCHANGED <<pw, enabled, secret, recovery, drawn, now, sessions, pending, keys, ended, spent, confirmed>>

\* No code of the secret, or one already used.
RefuseTOTP(r) ==
  /\ At(r, "totp")
  /\ Goto(r, "recovery")
  /\ UNCHANGED <<record, drawn, now, sessions, pending, keys, history>>

\* MUTANT of ConsumeRecovery: the record is not saved without the code.
RecoveryNotSaved(r) ==
  /\ At(r, "recovery")
  /\ \E c \in recovery : spent' = spent \cup {c}
  /\ Goto(r, "verified")
  /\ UNCHANGED <<record, drawn, now, sessions, pending, keys, ended, accepted, confirmed>>

\* consumeRecovery: a code the record still holds.
ConsumeRecovery(r) ==
  /\ At(r, "recovery")
  /\ \E c \in recovery :
       /\ recovery' = recovery \ {c}
       /\ spent' = spent \cup {c}
  /\ Goto(r, "verified")
  /\ UNCHANGED <<pw, enabled, secret, lastUsed, drawn, now, sessions, pending, keys, ended, accepted, confirmed>>

FinishLogin(r) ==
  /\ At(r, "verified")
  /\ pending' = pending \ {req[r].secret}
  /\ req' = [req EXCEPT ![r] = Handler("session", 0, NoSecret)]
  /\ UNCHANGED <<record, drawn, now, sessions, keys, history>>

-----------------------------------------------------------------------------
(* POST /api/account/password *)

\* requireSession; every handler below starts so.
Enter(r) ==
  /\ At(r, "idle")
  /\ sessions # {}
  /\ \E pc \in {"change", "key", "setup", "enable", "regenerate", "disable"} :
       req' = [req EXCEPT ![r] = Handler(pc, 0, NoSecret)]
  /\ UNCHANGED <<record, drawn, now, sessions, pending, keys, history>>

\* A wrong password or code, a breached or short password, 2FA not set up or
\* not enabled: answered with nothing changed.
Refuse(r) ==
  /\ req[r].pc \in {"recovery", "change", "enable", "regenerate", "disable"}
  /\ Answer(r)
  /\ UNCHANGED <<record, drawn, now, sessions, pending, keys, history>>

\* changePassword has checked the current password.
ChangeAuth(r) ==
  /\ At(r, "change")
  /\ pw <= MaxChanges
  /\ Goto(r, "save")
  /\ UNCHANGED <<record, drawn, now, sessions, pending, keys, history>>

\* accounts.update stores the new password, whatever the record holds by now.
ChangeSave(r) ==
  /\ At(r, "save")
  /\ IF pw <= MaxChanges
       THEN /\ pw' = pw + 1
            /\ req' = [req EXCEPT ![r] = Handler("revoke", pw + 1, NoSecret)]
       ELSE Answer(r) /\ UNCHANGED pw
  /\ UNCHANGED <<enabled, secret, lastUsed, recovery, drawn, now, sessions, pending, keys, history>>

\* MUTANT of RevokeAll: the keys are left.
RevokeNothing(r) ==
  /\ At(r, "revoke")
  /\ Goto(r, "destroy")
  /\ UNCHANGED <<record, drawn, now, sessions, pending, keys, history>>

RevokeAll(r) ==
  /\ At(r, "revoke")
  /\ keys' = {}
  /\ Goto(r, "destroy")
  /\ UNCHANGED <<record, drawn, now, sessions, pending, history>>

\* destroyUser; the caller is then given a session of its own.
DestroyUser(r) ==
  /\ At(r, "destroy")
  /\ sessions' = {}
  /\ ended' = IF req[r].pw > ended THEN req[r].pw ELSE ended
  /\ req' = [req EXCEPT ![r] = Handler("session", 0, NoSecret)]
  /\ UNCHANGED <<record, drawn, now, pending, keys, accepted, spent, confirmed>>

-----------------------------------------------------------------------------
(* API keys: POST /api/keys, DELETE /api/keys/{id} *)

CreateKey(r) ==
  /\ At(r, "key")
  /\ keys' = keys \cup {pw}
  /\ Answer(r)
  /\ UNCHANGED <<record, drawn, now, sessions, pending, history>>

RevokeKey(k) ==
  /\ sessions # {}
  /\ keys' = keys \ {k}
  /\ UNCHANGED <<record, drawn, now, sessions, pending, req, history>>

-----------------------------------------------------------------------------
(* POST /api/2fa/setup, enable, recovery and disable: one accounts.update each *)

\* MUTANT of Setup: 2FA stays as it was while the secret is replaced.
SetupKeepsEnabled(r) ==
  /\ At(r, "setup")
  /\ drawn.secrets < MaxSecrets
  /\ drawn' = [drawn EXCEPT !.secrets = @ + 1]
  /\ secret' = drawn.secrets + 1
  /\ lastUsed' = 0
  /\ accepted' = 0
  /\ Answer(r)
  /\ UNCHANGED <<pw, enabled, recovery, now, sessions, pending, keys, ended, spent, confirmed>>

Setup(r) ==
  /\ At(r, "setup")
  /\ IF drawn.secrets < MaxSecrets
       THEN /\ drawn' = [drawn EXCEPT !.secrets = @ + 1]
            /\ secret' = drawn.secrets + 1
            /\ enabled' = FALSE
            /\ lastUsed' = 0
            /\ accepted' = 0
       ELSE UNCHANGED <<drawn, secret, enabled, lastUsed, accepted>>
  /\ Answer(r)
  /\ UNCHANGED <<pw, recovery, now, sessions, pending, keys, ended, spent, confirmed>>

NewRecoveryCodes ==
  /\ drawn.codes < MaxSets
  /\ drawn' = [drawn EXCEPT !.codes = @ + 1]
  /\ recovery' = {drawn.codes + 1}

\* The caller has a code of secret k, which must be the one in the record.
Enable(r) ==
  /\ At(r, "enable")
  /\ \E k \in 1..drawn.secrets :
       /\ k = secret
       /\ confirmed' = k
  /\ enabled' = TRUE
  /\ NewRecoveryCodes
  /\ Answer(r)
  /\ UNCHANGED <<pw, secret, lastUsed, now, sessions, pending, keys,
                 ended, accepted, spent>>

Regenerate(r) ==
  /\ At(r, "regenerate")
  /\ enabled
  /\ NewRecoveryCodes
  /\ Answer(r)
  /\ UNCHANGED <<pw, enabled, secret, lastUsed, now, sessions, pending, keys, history>>

\* With 2FA on, the caller has a code of the record's secret.
Disable(r) ==
  /\ At(r, "disable")
  /\ enabled' = FALSE
  /\ secret' = NoSecret
  /\ lastUsed' = 0
  /\ recovery' = {}
  /\ accepted' = 0
  /\ Answer(r)
  /\ UNCHANGED <<pw, drawn, now, sessions, pending, keys, ended, spent, confirmed>>

-----------------------------------------------------------------------------

\* Logout, or the session's or the pending login's time is up.
EndSession(s) ==
  /\ sessions' = sessions \ {s}
  /\ UNCHANGED <<record, drawn, now, pending, keys, req, history>>

ExpirePending(k) ==
  /\ pending' = pending \ {k}
  /\ UNCHANGED <<record, drawn, now, sessions, keys, req, history>>

Tick ==
  /\ now < MaxStep
  /\ now' = now + 1
  /\ UNCHANGED <<record, drawn, sessions, pending, keys, req, history>>

\* Sessions and pending logins are in memory; the record and the keys stay.
Restart ==
  /\ sessions' = {}
  /\ pending' = {}
  /\ req' = [r \in Requests |-> Idle]
  /\ UNCHANGED <<record, drawn, now, keys, history>>

Step(r) ==
  \/ Login(r) \/ IssueSession(r) \/ IssuePending(r)
  \/ ResumeLogin(r) \/ ConsumeTOTP(r) \/ RefuseTOTP(r) \/ ConsumeRecovery(r) \/ FinishLogin(r)
  \/ Enter(r) \/ Refuse(r)
  \/ ChangeAuth(r) \/ ChangeSave(r) \/ RevokeAll(r) \/ DestroyUser(r)
  \/ CreateKey(r)
  \/ Setup(r) \/ Enable(r) \/ Regenerate(r) \/ Disable(r)

Next ==
  \/ \E r \in Requests : Step(r)
  \/ \E k \in keys : RevokeKey(k)
  \/ \E s \in sessions : EndSession(s)
  \/ \E k \in pending : ExpirePending(k)
  \/ Tick \/ Restart

Spec == Init /\ [][Next]_vars

-----------------------------------------------------------------------------

\* A password change "cuts off every previously-issued credential"
\* (accounts_handlers.go:303): once it has, no session and no API key that was
\* there before the new password was stored is left, whatever other requests
\* were in flight.
ChangeEndsOld ==
  /\ \A s \in sessions : s >= ended
  /\ \A k \in keys : k >= ended

\* Every TOTP code of the enrolled secret that completed a login is at or
\* below the recorded period, so consumeTOTP refuses it for good: logins racing
\* with one another or with a new enrolment cannot bring one back.
CodesSpent == accepted <= lastUsed

\* A recovery code that completed a login is never valid again, also when two
\* logins present it at once (consumeRecovery).
RecoverySpent == recovery \cap spent = {}

\* Two-factor login is only ever on for a secret whose owner has shown a code
\* of it, however setups and confirmations of one account interleave.
EnabledIsConfirmed == enabled => confirmed = secret

-----------------------------------------------------------------------------
(* The inductive invariant the proofs rest on (WebProofs). *)

\* A change on its way out is of a password the record has held, and once it
\* has emptied the keys only keys of that password or a newer one come back.
ChangeInFlight ==
  \A r \in Requests :
    /\ req[r].pc \in {"revoke", "destroy"} => req[r].pw <= pw
    /\ At(r, "destroy") => \A k \in keys : k >= req[r].pw

\* A recovery code, in the record or spent, is of a set already drawn.
CodesAreDrawn == recovery \cup spent \subseteq 1..drawn.codes

\* A login is sent to its second step only with a secret.
SecondStepHasSecret ==
  /\ enabled => secret # NoSecret
  /\ \A r \in Requests : At(r, "pending") => req[r].secret # NoSecret

IInv ==
  /\ TypeOK
  /\ ChangeEndsOld /\ CodesSpent /\ RecoverySpent /\ EnabledIsConfirmed
  /\ ended <= pw
  /\ ChangeInFlight
  /\ CodesAreDrawn
  /\ SecondStepHasSecret

=============================================================================
