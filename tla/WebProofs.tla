------------------------------ MODULE WebProofs -----------------------------
(***************************************************************************)
(* Theorems about two parts of the web service: Accounts, for any requests  *)
(* in flight and any number of password changes, enrolments and sets of     *)
(* recovery codes, and AuditLog, for any number of entries, failed writes   *)
(* and restarts, and any number of losses and changes of lines.             *)
(***************************************************************************)
EXTENDS Accounts, AuditLog, SequenceTheorems, TLAPS


\* A handler that moves on has a well-formed state of its own, and leaves the
\* others where they are.
LEMMA Moved ==
  ASSUME TypeOK, NEW r \in Requests, NEW h \in Handlers,
         req' = [req EXCEPT ![r] = h]
  PROVE  /\ req' \in [Requests -> Handlers]
         /\ req'[r] = h
         /\ \A q \in Requests : q # r => req'[q] = req[q]
  BY DEF TypeOK

LEMMA Idles == Idle \in Handlers
  BY DEF Idle, Handler, Handlers, PCs

LEMMA Places ==
  ASSUME NEW pc \in PCs, NEW p \in Passwords \cup {0}, NEW k \in Secrets \cup {NoSecret}
  PROVE  /\ Handler(pc, p, k) \in Handlers
         /\ Handler(pc, p, k).pc = pc
         /\ Handler(pc, p, k).pw = p
         /\ Handler(pc, p, k).secret = k
  BY DEF Handler, Handlers

\* What a handler has at hand.
LEMMA AtHand ==
  ASSUME TypeOK, NEW r \in Requests
  PROVE  /\ req[r] \in Handlers
         /\ req[r].pc \in PCs
         /\ req[r].pw \in Passwords \cup {0}
         /\ req[r].secret \in Secrets \cup {NoSecret}
  BY DEF TypeOK, Handlers

LEMMA Initially == Init => IInv
  <1> USE AccountsAssumption DEF AccountsAssumption
  <1> SUFFICES ASSUME Init PROVE IInv
    OBVIOUS
  <1>1. TypeOK
    <2>1. MaxChanges \in Nat /\ MaxSecrets \in Nat /\ MaxSets \in Nat /\ MaxStep \in Nat \ {0}
      OBVIOUS
    <2>2. [secrets |-> 0, codes |-> 0] \in [secrets : 0..MaxSecrets, codes : 0..MaxSets]
      BY <2>1
    <2>3. 1 \in Passwords /\ 1 \in 1..MaxStep /\ 0 \in 0..(MaxStep + 1)
      BY <2>1 DEF Passwords
    <2>4. [r \in Requests |-> Idle] \in [Requests -> Handlers]
      BY Idles
    <2>5. QED
      BY <2>2, <2>3, <2>4 DEF Init, TypeOK
  <1>2. \A r \in Requests : req[r].pc = "idle"
    BY DEF Init, Idle, Handler
  <1>3. ChangeInFlight /\ SecondStepHasSecret
    BY <1>2 DEF Init, ChangeInFlight, SecondStepHasSecret, At
  <1>4. ended <= pw /\ ChangeEndsOld /\ CodesSpent /\ RecoverySpent /\ EnabledIsConfirmed
    BY DEF Init, ChangeEndsOld, CodesSpent, RecoverySpent, EnabledIsConfirmed
  <1>5. CodesAreDrawn
    BY DEF Init, CodesAreDrawn
  <1>6. QED
    BY <1>1, <1>3, <1>4, <1>5 DEF IInv

-----------------------------------------------------------------------------
(* A step that moves one handler, leaves the record and the history, and does *)
(* not add to the credentials: most steps of a login and every refusal.       *)

LEMMA OnlyMoves ==
  ASSUME IInv, NEW r \in Requests, NEW h \in Handlers,
         req' = [req EXCEPT ![r] = h],
         h.pc \notin {"revoke", "destroy"},
         h.pc = "pending" => h.secret # NoSecret,
         sessions' \subseteq sessions, pending' \subseteq pending, keys' \subseteq keys,
         UNCHANGED <<record, drawn, now, history>>
  PROVE  IInv'
  <1> USE DEF record, history
  <1>1. TypeOK
    BY DEF IInv
  <1>2. /\ req' \in [Requests -> Handlers]
        /\ req'[r] = h
        /\ \A q \in Requests : q # r => req'[q] = req[q]
    BY <1>1, Moved
  <1>3. TypeOK'
    BY <1>1, <1>2 DEF TypeOK
  <1>4. (ended <= pw /\ ChangeEndsOld /\ CodesSpent /\ RecoverySpent /\ EnabledIsConfirmed)'
    BY DEF IInv, ChangeEndsOld, CodesSpent, RecoverySpent, EnabledIsConfirmed
  <1>5. ChangeInFlight'
    BY <1>2 DEF IInv, ChangeInFlight, At
  <1>6. CodesAreDrawn'
    BY DEF IInv, CodesAreDrawn
  <1>7. SecondStepHasSecret'
    BY <1>2 DEF IInv, SecondStepHasSecret, At
  <1>8. QED
    BY <1>3, <1>4, <1>5, <1>6, <1>7 DEF IInv

LEMMA StartsLogin ==
  ASSUME IInv, NEW r \in Requests,
         Login(r) \/ ResumeLogin(r) \/ RefuseTOTP(r) \/ FinishLogin(r)
  PROVE  IInv'
  <1>1. TypeOK /\ (enabled => secret # NoSecret)
    BY DEF IInv, SecondStepHasSecret
  <1>2. secret \in Secrets \cup {NoSecret} /\ pending \subseteq Secrets
    BY <1>1 DEF TypeOK
  <1>3. CASE Login(r)
    <2> DEFINE h == IF enabled THEN Handler("pending", 0, secret)
                               ELSE Handler("session", 0, NoSecret)
    <2>1. h \in Handlers /\ h.pc \in {"pending", "session"}
      BY <1>2, Places DEF PCs
    <2>2. h.pc = "pending" => h.secret # NoSecret
      BY <1>1, <1>2, Places DEF PCs
    <2>3. req' = [req EXCEPT ![r] = h]
      BY <1>3 DEF Login
    <2> HIDE DEF h
    <2>4. QED
      BY <1>3, <2>1, <2>2, <2>3, OnlyMoves DEF Login
  <1>4. CASE ResumeLogin(r)
    <2>1. PICK k \in pending : req' = [req EXCEPT ![r] = Handler("totp", 0, k)]
      BY <1>4 DEF ResumeLogin
    <2>2. Handler("totp", 0, k) \in Handlers /\ Handler("totp", 0, k).pc = "totp"
      BY <1>2, Places DEF PCs
    <2>3. QED
      BY <1>4, <2>1, <2>2, OnlyMoves DEF ResumeLogin
  <1>5. CASE RefuseTOTP(r)
    <2> DEFINE h == Handler("recovery", req[r].pw, req[r].secret)
    <2>1. h \in Handlers /\ h.pc = "recovery"
      BY <1>1, AtHand, Places DEF PCs
    <2>2. req' = [req EXCEPT ![r] = h]
      BY <1>5 DEF RefuseTOTP, Goto
    <2> HIDE DEF h
    <2>3. QED
      BY <1>5, <2>1, <2>2, OnlyMoves DEF RefuseTOTP
  <1>6. CASE FinishLogin(r)
    <2> DEFINE h == Handler("session", 0, NoSecret)
    <2>1. h \in Handlers /\ h.pc = "session"
      BY Places DEF PCs
    <2>2. req' = [req EXCEPT ![r] = h] /\ pending' \subseteq pending
      BY <1>6 DEF FinishLogin
    <2> HIDE DEF h
    <2>3. QED
      BY <1>6, <2>1, <2>2, OnlyMoves DEF FinishLogin
  <1>7. QED
    BY <1>3, <1>4, <1>5, <1>6

LEMMA EntersOrRefuses ==
  ASSUME IInv, NEW r \in Requests, Enter(r) \/ Refuse(r) \/ ChangeAuth(r)
  PROVE  IInv'
  <1>1. TypeOK
    BY DEF IInv
  <1>2. CASE Enter(r)
    <2>1. PICK pc \in {"change", "key", "setup", "enable", "regenerate", "disable"} :
                 req' = [req EXCEPT ![r] = Handler(pc, 0, NoSecret)]
      BY <1>2 DEF Enter
    <2> DEFINE h == Handler(pc, 0, NoSecret)
    <2>2. h \in Handlers /\ h.pc = pc
      BY Places DEF PCs
    <2> HIDE DEF h
    <2>3. req' = [req EXCEPT ![r] = h]
      BY <2>1 DEF h
    <2>4. QED
      BY <1>2, <2>2, <2>3, OnlyMoves DEF Enter
  <1>3. CASE Refuse(r)
    <2>1. Idle \in Handlers /\ Idle.pc = "idle"
      BY Idles DEF Idle, Handler
    <2>2. QED
      BY <1>3, <2>1, OnlyMoves DEF Refuse, Answer
  <1>4. CASE ChangeAuth(r)
    <2> DEFINE h == Handler("save", req[r].pw, req[r].secret)
    <2>1. h \in Handlers /\ h.pc = "save"
      BY <1>1, AtHand, Places DEF PCs
    <2>2. req' = [req EXCEPT ![r] = h]
      BY <1>4 DEF ChangeAuth, Goto
    <2> HIDE DEF h
    <2>3. QED
      BY <1>4, <2>1, <2>2, OnlyMoves DEF ChangeAuth
  <1>5. QED
    BY <1>2, <1>3, <1>4

-----------------------------------------------------------------------------
(* A credential is issued under the password and the secret of its moment. *)

LEMMA Issues ==
  ASSUME IInv, NEW r \in Requests, IssueSession(r) \/ IssuePending(r) \/ CreateKey(r)
  PROVE  IInv'
  <1> USE DEF record, history
  <1>1. TypeOK /\ ended <= pw /\ ended \in Nat /\ pw \in Nat
    BY AccountsAssumption DEF IInv, TypeOK, Passwords, AccountsAssumption
  <1>2. req' = [req EXCEPT ![r] = Idle]
    BY DEF IssueSession, IssuePending, CreateKey, Answer
  <1>3. /\ req' \in [Requests -> Handlers]
        /\ req'[r] = Idle
        /\ \A q \in Requests : q # r => req'[q] = req[q]
    BY <1>1, <1>2, Moved, Idles
  <1>4. UNCHANGED <<record, drawn, now, history>>
    BY DEF IssueSession, IssuePending, CreateKey
  <1>5. /\ sessions' \subseteq sessions \cup {pw}
        /\ keys' \subseteq keys \cup {pw}
    BY DEF IssueSession, IssuePending, CreateKey
  <1>6. pending' \subseteq Secrets
    <2>1. CASE IssuePending(r)
      <3>1. req[r].secret \in Secrets
        BY <1>1, <2>1, AtHand DEF IInv, SecondStepHasSecret, IssuePending
      <3>2. QED
        BY <1>1, <2>1, <3>1 DEF IssuePending, TypeOK
    <2>2. QED
      BY <1>1, <2>1 DEF IssueSession, CreateKey, TypeOK
  <1>7. TypeOK'
    BY <1>1, <1>3, <1>4, <1>5, <1>6 DEF TypeOK
  <1>8. ChangeEndsOld'
    BY <1>1, <1>4, <1>5 DEF IInv, ChangeEndsOld
  <1>9. (ended <= pw /\ CodesSpent /\ RecoverySpent /\ EnabledIsConfirmed /\ CodesAreDrawn)'
    BY <1>4 DEF IInv, CodesSpent, RecoverySpent, EnabledIsConfirmed, CodesAreDrawn
  <1>10. Idle.pc = "idle"
    BY DEF Idle, Handler
  <1>11. ChangeInFlight'
    BY <1>1, <1>3, <1>4, <1>5, <1>10 DEF IInv, ChangeInFlight, At
  <1>12. SecondStepHasSecret'
    BY <1>3, <1>4, <1>10 DEF IInv, SecondStepHasSecret, At
  <1>13. QED
    BY <1>7, <1>8, <1>9, <1>11, <1>12 DEF IInv

\* A code of either kind completes a login and is written off.
LEMMA Consumes ==
  ASSUME IInv, NEW r \in Requests, ConsumeTOTP(r) \/ ConsumeRecovery(r)
  PROVE  IInv'
  <1> USE DEF record, history
  <1>1. TypeOK
    BY DEF IInv
  <1> DEFINE h == Handler("verified", req[r].pw, req[r].secret)
  <1>2. h \in Handlers /\ h.pc = "verified"
    BY <1>1, AtHand, Places DEF PCs
  <1>3. req' = [req EXCEPT ![r] = h]
    BY DEF ConsumeTOTP, ConsumeRecovery, Goto
  <1> HIDE DEF h
  <1>4. /\ req' \in [Requests -> Handlers]
        /\ req'[r] = h
        /\ \A q \in Requests : q # r => req'[q] = req[q]
    BY <1>1, <1>2, <1>3, Moved
  <1>5. UNCHANGED <<pw, enabled, secret, drawn, now, sessions, pending, keys, ended, confirmed>>
    BY DEF ConsumeTOTP, ConsumeRecovery
  <1>6. /\ lastUsed' \in 0..(MaxStep + 1) /\ accepted' \in 0..(MaxStep + 1)
        /\ accepted' <= lastUsed'
    <2>1. /\ MaxStep \in Nat /\ now \in 1..MaxStep /\ lastUsed \in 0..(MaxStep + 1)
          /\ accepted \in 0..(MaxStep + 1) /\ accepted <= lastUsed
      BY AccountsAssumption DEF AccountsAssumption, IInv, TypeOK, CodesSpent
    <2>2. CASE ConsumeTOTP(r)
      <3>1. PICK c \in InWindow :
                   /\ c > lastUsed
                   /\ lastUsed' = c
                   /\ accepted' = IF req[r].secret = secret /\ c > accepted THEN c ELSE accepted
        BY <2>2 DEF ConsumeTOTP
      <3>2. c \in Nat /\ c <= MaxStep + 1
        BY <2>1, <3>1 DEF InWindow
      <3>3. accepted' \in {c, accepted}
        BY <3>1
      <3>4. QED
        BY <2>1, <3>1, <3>2, <3>3
    <2>3. CASE ConsumeRecovery(r)
      BY <2>1, <2>3 DEF ConsumeRecovery
    <2>4. QED
      BY <2>2, <2>3
  <1>7. /\ recovery' \subseteq recovery
        /\ recovery' \cup spent' \subseteq recovery \cup spent
        /\ recovery' \cap spent' = {}
    <2>1. recovery \cap spent = {}
      BY DEF IInv, RecoverySpent
    <2>2. CASE ConsumeTOTP(r)
      BY <2>1, <2>2 DEF ConsumeTOTP
    <2>3. CASE ConsumeRecovery(r)
      BY <2>1, <2>3 DEF ConsumeRecovery
    <2>4. QED
      BY <2>2, <2>3
  <1>8. TypeOK'
    BY <1>1, <1>4, <1>5, <1>6, <1>7 DEF TypeOK
  <1>9. (ended <= pw /\ ChangeEndsOld /\ CodesSpent /\ RecoverySpent /\ EnabledIsConfirmed)'
    BY <1>5, <1>6, <1>7 DEF IInv, ChangeEndsOld, CodesSpent, RecoverySpent, EnabledIsConfirmed
  <1>10. CodesAreDrawn'
    BY <1>5, <1>7 DEF IInv, CodesAreDrawn
  <1>11. ChangeInFlight' /\ SecondStepHasSecret'
    BY <1>2, <1>4, <1>5 DEF IInv, ChangeInFlight, SecondStepHasSecret, At
  <1>12. QED
    BY <1>8, <1>9, <1>10, <1>11 DEF IInv

-----------------------------------------------------------------------------
(* The three steps of a password change. *)

LEMMA Saves ==
  ASSUME IInv, NEW r \in Requests, ChangeSave(r)
  PROVE  IInv'
  <1> USE DEF record, history
  <1>1. TypeOK /\ pw \in Nat /\ ended \in Nat /\ ended <= pw /\ MaxChanges \in Nat
    BY AccountsAssumption DEF IInv, TypeOK, Passwords, AccountsAssumption
  <1>2. CASE pw <= MaxChanges
    <2> DEFINE h == Handler("revoke", pw + 1, NoSecret)
    <2>1. pw' = pw + 1 /\ pw + 1 \in Passwords /\ pw + 1 \in Nat
      BY <1>1, <1>2 DEF ChangeSave, Passwords
    <2>2. h \in Handlers /\ h.pc = "revoke" /\ h.pw = pw + 1
      BY <2>1, Places DEF PCs
    <2>3. req' = [req EXCEPT ![r] = h]
      BY <1>2 DEF ChangeSave
    <2> HIDE DEF h
    <2>4. /\ req' \in [Requests -> Handlers]
          /\ req'[r] = h
          /\ \A q \in Requests : q # r => req'[q] = req[q]
      BY <1>1, <2>2, <2>3, Moved
    <2>5. UNCHANGED <<enabled, secret, lastUsed, recovery, drawn, now, sessions, pending, keys, history>>
      BY DEF ChangeSave
    <2>6. TypeOK'
      BY <1>1, <2>1, <2>4, <2>5 DEF TypeOK
    <2>7. (ended <= pw)'
      BY <1>1, <2>1, <2>5
    <2>8. (ChangeEndsOld /\ CodesSpent /\ RecoverySpent /\ EnabledIsConfirmed /\ CodesAreDrawn)'
      BY <2>5 DEF IInv, ChangeEndsOld, CodesSpent, RecoverySpent, EnabledIsConfirmed, CodesAreDrawn
    <2>9. ChangeInFlight'
      <3>1. \A q \in Requests : req[q].pw \in Nat
        BY <1>1, AtHand DEF Passwords
      <3>2. \A q \in Requests : req[q].pc \in {"revoke", "destroy"} => req[q].pw <= pw + 1
        BY <1>1, <3>1 DEF IInv, ChangeInFlight
      <3>3. \A q \in Requests : req'[q].pc \in {"revoke", "destroy"} => req'[q].pw <= pw'
        BY <2>1, <2>2, <2>4, <3>2
      <3>4. \A q \in Requests : req'[q].pc = "destroy" => \A k \in keys' : k >= req'[q].pw
        BY <2>2, <2>4, <2>5 DEF IInv, ChangeInFlight, At
      <3>5. QED
        BY <3>3, <3>4 DEF ChangeInFlight, At
    <2>10. SecondStepHasSecret'
      BY <2>2, <2>4, <2>5 DEF IInv, SecondStepHasSecret, At
    <2>11. QED
      BY <2>6, <2>7, <2>8, <2>9, <2>10 DEF IInv
  <1>3. CASE ~(pw <= MaxChanges)
    <2>1. Idle \in Handlers /\ Idle.pc = "idle"
      BY Idles DEF Idle, Handler
    <2>2. UNCHANGED <<record, drawn, now, sessions, pending, keys, history>>
          /\ req' = [req EXCEPT ![r] = Idle]
      BY <1>3 DEF ChangeSave, Answer
    <2>3. QED
      BY <2>1, <2>2, OnlyMoves
  <1>4. QED
    BY <1>2, <1>3

LEMMA Revokes ==
  ASSUME IInv, NEW r \in Requests, RevokeAll(r)
  PROVE  IInv'
  <1> USE DEF record, history
  <1> DEFINE h == Handler("destroy", req[r].pw, req[r].secret)
  <1>1. TypeOK
    BY DEF IInv
  <1>2. h \in Handlers /\ h.pc = "destroy" /\ h.pw = req[r].pw
    BY <1>1, AtHand, Places DEF PCs
  <1>3. req' = [req EXCEPT ![r] = h]
    BY DEF RevokeAll, Goto
  <1> HIDE DEF h
  <1>4. /\ req' \in [Requests -> Handlers]
        /\ req'[r] = h
        /\ \A q \in Requests : q # r => req'[q] = req[q]
    BY <1>1, <1>2, <1>3, Moved
  <1>5. keys' = {} /\ UNCHANGED <<record, drawn, now, sessions, pending, history>>
    BY DEF RevokeAll
  <1>6. TypeOK'
    BY <1>1, <1>4, <1>5 DEF TypeOK
  <1>7. /\ (ended <= pw /\ ChangeEndsOld /\ CodesSpent)'
        /\ (RecoverySpent /\ EnabledIsConfirmed /\ CodesAreDrawn)'
    BY <1>5 DEF IInv, ChangeEndsOld, CodesSpent, RecoverySpent, EnabledIsConfirmed, CodesAreDrawn
  <1>8. ChangeInFlight'
    BY <1>2, <1>4, <1>5 DEF IInv, ChangeInFlight, RevokeAll, At
  <1>9. SecondStepHasSecret'
    BY <1>2, <1>4, <1>5 DEF IInv, SecondStepHasSecret, At
  <1>10. QED
    BY <1>6, <1>7, <1>8, <1>9 DEF IInv

LEMMA Destroys ==
  ASSUME IInv, NEW r \in Requests, DestroyUser(r)
  PROVE  IInv'
  <1> USE DEF record, history
  <1> DEFINE h == Handler("session", 0, NoSecret)
  <1>1. TypeOK
    BY DEF IInv
  <1>2. h \in Handlers /\ h.pc = "session"
    BY Places DEF PCs
  <1>3. req' = [req EXCEPT ![r] = h]
    BY DEF DestroyUser
  <1> HIDE DEF h
  <1>4. /\ req' \in [Requests -> Handlers]
        /\ req'[r] = h
        /\ \A q \in Requests : q # r => req'[q] = req[q]
    BY <1>1, <1>2, <1>3, Moved
  <1>5. sessions' = {} /\ UNCHANGED <<record, drawn, now, pending, keys, accepted, spent, confirmed>>
    BY DEF DestroyUser
  <1>6. /\ ended' \in Passwords /\ ended' <= pw
        /\ \A k \in keys : k >= ended'
    <2>1. /\ ended \in Passwords /\ ended \in Nat /\ ended <= pw
          /\ \A k \in keys : k >= ended
      BY DEF IInv, ChangeEndsOld, TypeOK, Passwords
    <2>2. /\ req[r].pw \in Passwords \cup {0} /\ req[r].pw <= pw
          /\ \A k \in keys : k >= req[r].pw
      BY <1>1, AtHand DEF IInv, ChangeInFlight, DestroyUser, At
    <2>3. ended' = IF req[r].pw > ended THEN req[r].pw ELSE ended
      BY DEF DestroyUser
    <2>4. CASE req[r].pw > ended
      <3>1. ended' = req[r].pw /\ req[r].pw # 0
        BY <2>1, <2>3, <2>4
      <3>2. QED
        BY <2>2, <3>1
    <2>5. CASE ~(req[r].pw > ended)
      BY <2>1, <2>3, <2>5
    <2>6. QED
      BY <2>4, <2>5
  <1>7. TypeOK'
    BY <1>1, <1>4, <1>5, <1>6 DEF TypeOK
  <1>8. (ended <= pw /\ ChangeEndsOld)'
    BY <1>5, <1>6 DEF ChangeEndsOld
  <1>9. (CodesSpent /\ RecoverySpent /\ EnabledIsConfirmed /\ CodesAreDrawn)'
    BY <1>5 DEF IInv, CodesSpent, RecoverySpent, EnabledIsConfirmed, CodesAreDrawn
  <1>10. ChangeInFlight' /\ SecondStepHasSecret'
    BY <1>2, <1>4, <1>5 DEF IInv, ChangeInFlight, SecondStepHasSecret, At
  <1>11. QED
    BY <1>7, <1>8, <1>9, <1>10 DEF IInv

-----------------------------------------------------------------------------
(* The two-factor handlers: one save of the record each. *)

LEMMA DrawsCodes ==
  ASSUME IInv, NewRecoveryCodes
  PROVE  /\ drawn' \in [secrets : 0..MaxSecrets, codes : 0..MaxSets]
         /\ recovery' \subseteq Codes
         /\ recovery' \cap spent = {}
         /\ recovery' \cup spent \subseteq 1..drawn'.codes
  <1>1. /\ drawn \in [secrets : 0..MaxSecrets, codes : 0..MaxSets]
        /\ MaxSets \in Nat /\ drawn.codes \in 0..MaxSets /\ drawn.codes < MaxSets
    BY AccountsAssumption DEF AccountsAssumption, IInv, TypeOK, NewRecoveryCodes
  <1>2. drawn' = [drawn EXCEPT !.codes = @ + 1] /\ recovery' = {drawn.codes + 1}
    BY DEF NewRecoveryCodes
  <1>3. drawn.codes + 1 \in 0..MaxSets /\ drawn.codes + 1 \in Codes
    BY <1>1 DEF Codes
  <1>4. /\ drawn' \in [secrets : 0..MaxSecrets, codes : 0..MaxSets]
        /\ drawn'.codes = drawn.codes + 1
    BY <1>1, <1>2, <1>3
  <1>5. spent \subseteq 1..drawn.codes
    BY DEF IInv, CodesAreDrawn
  <1>6. recovery' \cap spent = {}
    BY <1>1, <1>2, <1>5
  <1>7. recovery' \cup spent \subseteq 1..drawn'.codes
    BY <1>1, <1>2, <1>4, <1>5
  <1>8. QED
    BY <1>2, <1>3, <1>4, <1>6, <1>7

LEMMA SetsUp ==
  ASSUME IInv, NEW r \in Requests, Setup(r)
  PROVE  IInv'
  <1> USE DEF record, history
  <1>1. TypeOK
    BY DEF IInv
  <1>2. req' = [req EXCEPT ![r] = Idle] /\ Idle.pc = "idle" /\ Idle \in Handlers
    BY Idles DEF Setup, Answer, Idle, Handler
  <1>3. UNCHANGED <<pw, recovery, now, sessions, pending, keys, ended, spent, confirmed>>
    BY DEF Setup
  <1>4. CASE drawn.secrets < MaxSecrets
    <2>1. /\ drawn' = [drawn EXCEPT !.secrets = @ + 1]
          /\ secret' = drawn.secrets + 1
          /\ enabled' = FALSE /\ lastUsed' = 0 /\ accepted' = 0
      BY <1>4 DEF Setup
    <2>2. /\ drawn \in [secrets : 0..MaxSecrets, codes : 0..MaxSets]
          /\ MaxSecrets \in Nat /\ MaxStep \in Nat /\ drawn.secrets \in 0..MaxSecrets
      BY <1>1, AccountsAssumption DEF AccountsAssumption, TypeOK
    <2>3. drawn.secrets + 1 \in Secrets /\ drawn.secrets + 1 \in 0..MaxSecrets
      BY <1>4, <2>2 DEF Secrets
    <2>4. /\ drawn' \in [secrets : 0..MaxSecrets, codes : 0..MaxSets]
          /\ drawn'.codes = drawn.codes /\ 0 \in 0..(MaxStep + 1)
      BY <2>1, <2>2, <2>3
    <2>5. /\ req' \in [Requests -> Handlers]
          /\ req'[r] = Idle
          /\ \A q \in Requests : q # r => req'[q] = req[q]
      BY <1>1, <1>2, Moved
    <2>6. TypeOK'
      BY <1>1, <1>3, <2>1, <2>3, <2>4, <2>5 DEF TypeOK
    <2>7. (ended <= pw /\ ChangeEndsOld /\ RecoverySpent /\ CodesAreDrawn)'
      BY <1>3, <2>4 DEF IInv, ChangeEndsOld, RecoverySpent, CodesAreDrawn
    <2>8. (CodesSpent /\ EnabledIsConfirmed)'
      BY <2>1 DEF CodesSpent, EnabledIsConfirmed
    <2>9. ChangeInFlight' /\ SecondStepHasSecret'
      BY <1>2, <1>3, <2>1, <2>5 DEF IInv, ChangeInFlight, SecondStepHasSecret, At
    <2>10. QED
      BY <2>6, <2>7, <2>8, <2>9 DEF IInv
  <1>5. CASE ~(drawn.secrets < MaxSecrets)
    <2>1. UNCHANGED <<drawn, secret, enabled, lastUsed, accepted>>
      BY <1>5 DEF Setup
    <2>2. QED
      BY <1>2, <1>3, <2>1, OnlyMoves
  <1>6. QED
    BY <1>4, <1>5

LEMMA Confirms ==
  ASSUME IInv, NEW r \in Requests, Enable(r) \/ Regenerate(r)
  PROVE  IInv'
  <1> USE DEF record, history
  <1>1. TypeOK
    BY DEF IInv
  <1>2. req' = [req EXCEPT ![r] = Idle] /\ Idle.pc = "idle" /\ Idle \in Handlers
    BY Idles DEF Enable, Regenerate, Answer, Idle, Handler
  <1>3. /\ req' \in [Requests -> Handlers]
        /\ req'[r] = Idle
        /\ \A q \in Requests : q # r => req'[q] = req[q]
    BY <1>1, <1>2, Moved
  <1>4. UNCHANGED <<pw, secret, lastUsed, now, sessions, pending, keys, ended, accepted, spent>>
    BY DEF Enable, Regenerate
  <1>5. /\ drawn' \in [secrets : 0..MaxSecrets, codes : 0..MaxSets]
        /\ recovery' \subseteq Codes
        /\ recovery' \cap spent = {}
        /\ recovery' \cup spent \subseteq 1..drawn'.codes
    <2>1. NewRecoveryCodes
      BY DEF Enable, Regenerate
    <2>2. QED
      BY <2>1, DrawsCodes
  <1>6. /\ enabled' = TRUE
        /\ secret # NoSecret
        /\ confirmed' = secret
    <2>1. CASE Enable(r)
      <3>1. PICK k \in 1..drawn.secrets : k = secret /\ confirmed' = k
        BY <2>1 DEF Enable
      <3>2. QED
        BY <2>1, <3>1 DEF Enable, NoSecret
    <2>2. CASE Regenerate(r)
      BY <2>2 DEF Regenerate, IInv, TypeOK, SecondStepHasSecret, EnabledIsConfirmed
    <2>3. QED
      BY <2>1, <2>2
  <1>7. TypeOK'
    BY <1>1, <1>3, <1>4, <1>5, <1>6 DEF TypeOK
  <1>8. (ended <= pw /\ ChangeEndsOld /\ CodesSpent)'
    BY <1>4 DEF IInv, ChangeEndsOld, CodesSpent
  <1>9. (RecoverySpent /\ CodesAreDrawn)'
    BY <1>4, <1>5 DEF RecoverySpent, CodesAreDrawn
  <1>10. EnabledIsConfirmed'
    BY <1>4, <1>6 DEF EnabledIsConfirmed
  <1>11. ChangeInFlight' /\ SecondStepHasSecret'
    BY <1>2, <1>3, <1>4, <1>6 DEF IInv, ChangeInFlight, SecondStepHasSecret, At
  <1>12. QED
    BY <1>7, <1>8, <1>9, <1>10, <1>11 DEF IInv

LEMMA Disables ==
  ASSUME IInv, NEW r \in Requests, Disable(r)
  PROVE  IInv'
  <1> USE DEF record, history
  <1>1. TypeOK
    BY DEF IInv
  <1>2. req' = [req EXCEPT ![r] = Idle] /\ Idle.pc = "idle" /\ Idle \in Handlers
    BY Idles DEF Disable, Answer, Idle, Handler
  <1>3. /\ req' \in [Requests -> Handlers]
        /\ req'[r] = Idle
        /\ \A q \in Requests : q # r => req'[q] = req[q]
    BY <1>1, <1>2, Moved
  <1>4. /\ UNCHANGED <<pw, drawn, now, sessions, pending, keys, ended, spent, confirmed>>
        /\ enabled' = FALSE /\ secret' = NoSecret
        /\ lastUsed' = 0 /\ recovery' = {} /\ accepted' = 0
    BY DEF Disable
  <1>5. 0 \in 0..(MaxStep + 1)
    BY AccountsAssumption DEF AccountsAssumption
  <1>6. TypeOK'
    BY <1>1, <1>3, <1>4, <1>5 DEF TypeOK
  <1>7. (ended <= pw /\ ChangeEndsOld /\ CodesSpent)'
    BY <1>4 DEF IInv, ChangeEndsOld, CodesSpent
  <1>8. (RecoverySpent /\ CodesAreDrawn /\ EnabledIsConfirmed)'
    BY <1>4 DEF IInv, RecoverySpent, CodesAreDrawn, EnabledIsConfirmed
  <1>9. ChangeInFlight' /\ SecondStepHasSecret'
    BY <1>2, <1>3, <1>4 DEF IInv, ChangeInFlight, SecondStepHasSecret, At
  <1>10. QED
    BY <1>6, <1>7, <1>8, <1>9 DEF IInv

-----------------------------------------------------------------------------
(* Credentials run out or are dropped, time passes, the service restarts. *)

LEMMA Loses ==
  ASSUME IInv,
         \/ UNCHANGED req
         \/ req' = [r \in Requests |-> Idle],
         sessions' \subseteq sessions, pending' \subseteq pending, keys' \subseteq keys,
         now' \in 1..MaxStep,
         UNCHANGED <<record, drawn, history>>
  PROVE  IInv'
  <1> USE DEF record, history
  <1>1. TypeOK
    BY DEF IInv
  <1>2. req' \in [Requests -> Handlers] /\ \A r \in Requests : req'[r] \in {req[r], Idle}
    BY <1>1, Idles DEF TypeOK
  <1>3. Idle.pc = "idle"
    BY DEF Idle, Handler
  <1>4. TypeOK'
    BY <1>1, <1>2 DEF TypeOK
  <1>5. (ended <= pw /\ ChangeEndsOld /\ CodesSpent /\ RecoverySpent /\ EnabledIsConfirmed)'
    BY DEF IInv, ChangeEndsOld, CodesSpent, RecoverySpent, EnabledIsConfirmed
  <1>6. CodesAreDrawn'
    BY DEF IInv, CodesAreDrawn
  <1>7. ChangeInFlight' /\ SecondStepHasSecret'
    BY <1>2, <1>3 DEF IInv, ChangeInFlight, SecondStepHasSecret, At
  <1>8. QED
    BY <1>4, <1>5, <1>6, <1>7 DEF IInv

LEMMA Environment ==
  ASSUME IInv,
         \/ \E k \in keys : RevokeKey(k)
         \/ \E s \in sessions : EndSession(s)
         \/ \E k \in pending : ExpirePending(k)
         \/ Tick \/ Restart \/ UNCHANGED vars
  PROVE  IInv'
  <1>1. now \in 1..MaxStep /\ MaxStep \in Nat
    BY AccountsAssumption DEF AccountsAssumption, IInv, TypeOK
  <1>2. UNCHANGED <<record, drawn, history>>
    BY DEF RevokeKey, EndSession, ExpirePending, Tick, Restart, vars, record, history
  <1>3. UNCHANGED req \/ req' = [r \in Requests |-> Idle]
    BY DEF RevokeKey, EndSession, ExpirePending, Tick, Restart, vars
  <1>4. sessions' \subseteq sessions /\ pending' \subseteq pending /\ keys' \subseteq keys
    BY DEF RevokeKey, EndSession, ExpirePending, Tick, Restart, vars
  <1>5. now' \in 1..MaxStep
    BY <1>1 DEF RevokeKey, EndSession, ExpirePending, Tick, Restart, vars
  <1>6. QED
    BY <1>2, <1>3, <1>4, <1>5, Loses

-----------------------------------------------------------------------------

\* The inductive invariant of the account's credentials: what the handlers in
\* flight hold, and what the record and the history say, always fit together.
THEOREM AccountsInvariant == Spec => []IInv
  <1>1. IInv /\ [Next]_vars => IInv'
    <2> SUFFICES ASSUME IInv, [Next]_vars PROVE IInv'
      OBVIOUS
    <2>1. CASE \E r \in Requests : Step(r)
      <3>1. PICK r \in Requests : Step(r)
        BY <2>1
      <3>2. CASE Login(r) \/ ResumeLogin(r) \/ RefuseTOTP(r) \/ FinishLogin(r)
        BY <3>2, StartsLogin
      <3>3. CASE Enter(r) \/ Refuse(r) \/ ChangeAuth(r)
        BY <3>3, EntersOrRefuses
      <3>4. CASE IssueSession(r) \/ IssuePending(r) \/ CreateKey(r)
        BY <3>4, Issues
      <3>5. CASE ConsumeTOTP(r) \/ ConsumeRecovery(r)
        BY <3>5, Consumes
      <3>6. CASE ChangeSave(r)
        BY <3>6, Saves
      <3>7. CASE RevokeAll(r)
        BY <3>7, Revokes
      <3>8. CASE DestroyUser(r)
        BY <3>8, Destroys
      <3>9. CASE Setup(r)
        BY <3>9, SetsUp
      <3>10. CASE Enable(r) \/ Regenerate(r)
        BY <3>10, Confirms
      <3>11. CASE Disable(r)
        BY <3>11, Disables
      <3>12. QED
        BY <3>1, <3>2, <3>3, <3>4, <3>5, <3>6, <3>7, <3>8, <3>9, <3>10, <3>11 DEF Step
    <2>2. CASE \/ \E k \in keys : RevokeKey(k)
               \/ \E s \in sessions : EndSession(s)
               \/ \E k \in pending : ExpirePending(k)
               \/ Tick \/ Restart \/ UNCHANGED vars
      BY <2>2, Environment
    <2>3. QED
      BY <2>1, <2>2 DEF Next
  <1>2. QED
    BY Initially, <1>1, PTL DEF Spec

\* Once a password change has ended the older credentials, none that was there
\* before it is left, however many requests were in flight.
THEOREM AccountsChangeEndsOld == Spec => []ChangeEndsOld
  <1>1. IInv => ChangeEndsOld
    BY DEF IInv
  <1>2. QED
    BY <1>1, AccountsInvariant, PTL

\* No TOTP code of the enrolled secret completes two logins.
THEOREM AccountsCodesSpent == Spec => []CodesSpent
  <1>1. IInv => CodesSpent
    BY DEF IInv
  <1>2. QED
    BY <1>1, AccountsInvariant, PTL

\* No recovery code that completed a login is valid again.
THEOREM AccountsRecoverySpent == Spec => []RecoverySpent
  <1>1. IInv => RecoverySpent
    BY DEF IInv
  <1>2. QED
    BY <1>1, AccountsInvariant, PTL

\* Two-factor login is only on for a secret whose owner has shown a code of it.
THEOREM AccountsEnabledIsConfirmed == Spec => []EnabledIsConfirmed
  <1>1. IInv => EnabledIsConfirmed
    BY DEF IInv
  <1>2. QED
    BY <1>1, AccountsInvariant, PTL

-----------------------------------------------------------------------------
(* The audit log. *)

LEMMA Appended ==
  ASSUME NEW S, NEW s \in Seq(S), NEW e \in S
  PROVE  /\ Append(s, e) \in Seq(S)
         /\ Append(s, e) # <<>>
         /\ Len(s) \in Nat
         /\ Len(Append(s, e)) = Len(s) + 1
         /\ Append(s, e)[Len(s) + 1] = e
         /\ \A i \in 1..Len(s) : Append(s, e)[i] = s[i]
  OBVIOUS

LEMMA FirstPart ==
  ASSUME NEW S, NEW s \in Seq(S), NEW i \in 1..Len(s)
  PROVE  /\ SubSeq(s, 1, i - 1) \in Seq(S)
         /\ Len(SubSeq(s, 1, i - 1)) = i - 1
         /\ i - 1 \in Nat /\ Len(s) \in Nat /\ i <= Len(s)
         /\ \A j \in 1..(i - 1) : SubSeq(s, 1, i - 1)[j] = s[j]
  <1>1. Len(s) \in Nat /\ i - 1 \in Nat /\ i - 1 <= Len(s) /\ i <= Len(s)
    OBVIOUS
  <1>2. \A j \in 1..(i - 1) : j \in 1..Len(s) /\ s[j] \in S
    BY <1>1
  <1>3. SubSeq(s, 1, i - 1) = [j \in 1..(i - 1) |-> s[j]]
    BY <1>1
  <1>4. QED
    BY <1>1, <1>2, <1>3

\* Taking out one element that is not the last.
LEMMA TakenOut ==
  ASSUME NEW S, NEW s \in Seq(S), NEW i \in 1..Len(s), i < Len(s)
  PROVE  LET t == SubSeq(s, 1, i - 1) \o SubSeq(s, i + 1, Len(s)) IN
         /\ t \in Seq(S)
         /\ Len(s) \in Nat /\ Len(s) > 1
         /\ Len(t) = Len(s) - 1
         /\ \A j \in 1..Len(t) : t[j] = IF j < i THEN s[j] ELSE s[j + 1]
  <1> DEFINE a == SubSeq(s, 1, i - 1)
             b == SubSeq(s, i + 1, Len(s))
             t == a \o b
  <1>1. Len(s) \in Nat /\ i \in Nat /\ i >= 1 /\ Len(s) > 1
    OBVIOUS
  <1>2. /\ a \in Seq(S) /\ Len(a) = i - 1
        /\ \A j \in 1..(i - 1) : a[j] = s[j]
    BY FirstPart
  <1>3. /\ b \in Seq(S) /\ Len(b) = Len(s) - i
        /\ \A j \in 1..(Len(s) - i) : b[j] = s[i + j]
    <2>1. i + 1 \in Int /\ Len(s) \in Int /\ Len(s) - (i + 1) + 1 = Len(s) - i
          /\ i + 1 <= Len(s)
      BY <1>1
    <2>2. \A j \in (i + 1)..Len(s) : s[j] \in S
      BY <1>1
    <2>3. /\ b \in Seq(S) /\ Len(b) = Len(s) - i
          /\ \A j \in 1..(Len(s) - i) : b[j] = s[(i + 1) + j - 1]
      BY <2>1, <2>2, SubSeqProperties
    <2>4. \A j \in 1..(Len(s) - i) : (i + 1) + j - 1 = i + j
      BY <1>1
    <2>5. QED
      BY <2>3, <2>4
  <1> HIDE DEF a, b
  <1>4. /\ t \in Seq(S)
        /\ Len(t) = (i - 1) + (Len(s) - i)
        /\ \A j \in 1..((i - 1) + (Len(s) - i)) :
             t[j] = IF j <= i - 1 THEN a[j] ELSE b[j - (i - 1)]
    <2>1. /\ t \in Seq(S)
          /\ Len(t) = Len(a) + Len(b)
          /\ \A j \in 1..(Len(a) + Len(b)) :
               t[j] = IF j <= Len(a) THEN a[j] ELSE b[j - Len(a)]
      BY <1>2, <1>3, ConcatProperties
    <2>2. Len(a) + Len(b) = (i - 1) + (Len(s) - i)
      BY <1>2, <1>3
    <2> HIDE DEF t
    <2>3. QED
      BY <1>2, <2>1, <2>2
  <1> HIDE DEF t
  <1>5. Len(t) = Len(s) - 1
    BY <1>1, <1>4
  <1>6. ASSUME NEW j \in 1..Len(t)
        PROVE  t[j] = IF j < i THEN s[j] ELSE s[j + 1]
    <2>1. j \in 1..((i - 1) + (Len(s) - i))
      BY <1>4
    <2>2. CASE j < i
      BY <1>1, <1>2, <1>4, <2>1, <2>2
    <2>3. CASE ~(j < i)
      <3>1. j - (i - 1) \in 1..(Len(s) - i) /\ i + (j - (i - 1)) = j + 1 /\ ~(j <= i - 1)
        BY <1>1, <2>1, <2>3
      <3>2. t[j] = b[j - (i - 1)]
        BY <1>4, <2>1, <3>1
      <3>3. QED
        BY <1>3, <2>3, <3>1, <3>2
    <2>4. QED
      BY <2>2, <2>3
  <1>7. QED
    BY <1>1, <1>4, <1>5, <1>6 DEF a, b, t

-----------------------------------------------------------------------------
(* What the types and the order of the lines give. *)

LEMMA Typed ==
  ASSUME AuditTypeOK
  PROVE  /\ MaxEntries \in Nat /\ MaxDamage \in Nat
         /\ lines \in Seq(Line) /\ Len(lines) \in Nat
         /\ lines = <<>> <=> Len(lines) = 0
         /\ \A i \in 1..Len(lines) : /\ lines[i] \in Line
                                     /\ lines[i].seq \in Nat /\ lines[i].hash \in Hashes
         /\ mem.seq \in Nat /\ mem.hash \in Hashes /\ mem = Mark(mem.seq, mem.hash)
         /\ head.seq \in Nat
         /\ hashes \in Nat /\ hashes <= MaxEntries /\ hashes \in Hashes
  <1>1. MaxEntries \in Nat /\ MaxDamage \in Nat
    BY AuditAssumption DEF AuditAssumption
  <1>2. /\ lines \in Seq(Line) /\ Len(lines) \in Nat
        /\ lines = <<>> <=> Len(lines) = 0
        /\ \A i \in 1..Len(lines) : lines[i] \in Line
    BY DEF AuditTypeOK
  <1>3. \A l \in Line : l.seq \in Nat /\ l.hash \in Hashes
    BY DEF Line
  <1>4. mem.seq \in Nat /\ mem.hash \in Hashes /\ mem = Mark(mem.seq, mem.hash) /\ head.seq \in Nat
    BY DEF AuditTypeOK, Mark
  <1>5. hashes \in Nat /\ hashes <= MaxEntries /\ hashes \in Hashes
    BY <1>1 DEF AuditTypeOK, Hashes
  <1>6. QED
    BY <1>1, <1>2, <1>3, <1>4, <1>5

LEMMA Marks ==
  ASSUME NEW s, NEW h
  PROVE  Mark(s, h).seq = s /\ Mark(s, h).hash = h
  BY DEF Mark

\* Where a restarted auditor goes on.
LEMMA Resumes ==
  ASSUME AuditTypeOK, LinesInOrder
  PROVE  /\ Resumed = IF lines = <<>> THEN NoMark ELSE Mark(Last.seq, Last.hash)
         /\ Resumed.seq \in Nat
         /\ Resumed.seq >= Len(lines)
         /\ lines # <<>> => Resumed.seq = Last.seq /\ Resumed.hash = Last.hash
         /\ lines = <<>> => Resumed.seq = 0 /\ Resumed.hash = 0
  <1>1. CASE lines = <<>>
    BY <1>1, Typed DEF Resumed, NoMark, Mark
  <1>2. CASE lines # <<>>
    <2>1. Len(lines) \in 1..Len(lines)
      BY <1>2, Typed
    <2>2. Last.parses /\ Last.seq >= Len(lines) /\ Last.seq \in Nat
      BY <2>1, Typed DEF LinesInOrder, Last
    <2>3. QED
      BY <1>2, <2>2, Marks DEF Resumed
  <1>3. QED
    BY <1>1, <1>2

\* Every type but that of the lines is kept by what the auditor does.
LEMMA ResumedTyped ==
  ASSUME AuditTypeOK
  PROVE  Resumed \in [seq : Nat, hash : Hashes]
  <1>1. 0 \in Hashes
    BY Typed DEF Hashes
  <1>2. CASE lines = <<>> \/ ~Last.parses
    BY <1>1, <1>2 DEF Resumed, NoMark, Mark
  <1>3. CASE ~(lines = <<>> \/ ~Last.parses)
    <2>1. Len(lines) \in 1..Len(lines)
      BY <1>3, Typed
    <2>2. Last.seq \in Nat /\ Last.hash \in Hashes
      BY <2>1, Typed DEF Last
    <2>3. QED
      BY <1>3, <2>2 DEF Resumed, Mark
  <1>4. QED
    BY <1>2, <1>3

LEMMA WrittenTyped ==
  ASSUME AuditTypeOK, open => lines # <<>>, hashes < MaxEntries, NEW line \in {Junk, NextEntry}
  PROVE  Written(line) \in Seq(Line) /\ Written(line) # <<>>
  <1>1. Junk \in Line
    <2>1. 0 \in Hashes
      BY Typed DEF Hashes
    <2>2. QED
      BY <2>1 DEF Junk, Line
  <1>2. NextEntry \in Line
    <2>1. hashes + 1 \in Hashes
      BY Typed DEF Hashes
    <2>2. QED
      BY <2>1, Typed DEF NextEntry, Entry, Line
  <1>3. CASE open
    <2>1. Len(lines) \in 1..Len(lines)
      BY <1>3, Typed
    <2>2. Front \in Seq(Line)
      BY <2>1, FirstPart, Typed DEF Front
    <2>3. Append(Front, Junk) \in Seq(Line) /\ Append(Front, Junk) # <<>>
      BY <1>1, <2>2, Appended
    <2>4. QED
      BY <1>3, <2>3 DEF Written
  <1>4. CASE ~open
    <2>1. Append(lines, line) \in Seq(Line) /\ Append(lines, line) # <<>>
      BY <1>1, <1>2, Appended, Typed
    <2>2. QED
      BY <1>4, <2>1 DEF Written
  <1>5. QED
    BY <1>3, <1>4

LEMMA AuditInitially == AuditInit => AuditIInv
  <1> SUFFICES ASSUME AuditInit PROVE AuditIInv
    OBVIOUS
  <1>1. AuditTypeOK
    <2>1. 0 \in Hashes /\ 0 \in 0..MaxDamage /\ <<>> \in Seq(Line)
      BY AuditAssumption DEF AuditAssumption, Hashes
    <2>2. QED
      BY <2>1 DEF AuditInit, AuditTypeOK, NoMark, Mark, Hashes
  <1>2. Len(lines) = 0
    BY DEF AuditInit
  <1>3. LinesInOrder /\ Chained
    BY <1>2 DEF AuditInit, LinesInOrder, Chained
  <1>4. GoesOnFromLast /\ HeadStands
    BY DEF AuditInit, GoesOnFromLast, HeadStands, Resumed
  <1>5. QED
    BY <1>1, <1>3, <1>4 DEF AuditInit, AuditIInv

-----------------------------------------------------------------------------
(* log *)

LEMMA Appends ==
  ASSUME AuditIInv, AppendEntry
  PROVE  AuditIInv'
  <1>1. /\ AuditTypeOK /\ ~writing /\ hashes < MaxEntries
        /\ lines' = Written(NextEntry) /\ open' = FALSE
        /\ hashes' = hashes + 1 /\ writing' = TRUE
        /\ cut' = IF cut = "resumed" THEN "covered" ELSE cut
        /\ UNCHANGED <<head, mem, damage, torn, lag, garbled>>
    BY DEF AuditIInv, AppendEntry
  <1>2. AuditTypeOK'
    <2>1. lines' \in Seq(Line)
      BY <1>1, WrittenTyped DEF AuditIInv
    <2>2. hashes' \in 0..MaxEntries
      BY <1>1, Typed
    <2>3. QED
      BY <1>1, <2>1, <2>2 DEF AuditTypeOK
  <1>3. /\ open' => lines' # <<>>
        /\ cut' # "resumed"
        /\ damage' = 0 => cut' = "no"
        /\ cut' = "yes" <=> cut = "yes"
        /\ cut' = "no" <=> cut = "no"
    BY <1>1 DEF AuditIInv
  <1>4. ASSUME ~torn
        PROVE  /\ LinesInOrder'
               /\ IF cut' = "yes" THEN GoesOnBehindGap' ELSE GoesOnFromLast'
               /\ garbled' /\ cut' = "no" => DamageShows'
               /\ damage' = 0 => Chained'
    <2> DEFINE n == Len(lines)
               e == NextEntry
    <2>1. LinesInOrder /\ n \in Nat /\ lines \in Seq(Line) /\ mem.seq \in Nat
      BY <1>1, <1>4, Typed DEF AuditIInv
    <2>2. IF cut = "yes" THEN n < mem.seq ELSE mem = Resumed
      BY <1>1, <1>4 DEF AuditIInv, GoesOnBehindGap, GoesOnFromLast
    <2>3. mem.seq >= n
      BY <1>1, <2>1, <2>2, Resumes
    <2>4. e.parses /\ e.seq = mem.seq + 1 /\ e.prev = mem.hash /\ e.hash = hashes + 1 /\ e.intact
      BY DEF NextEntry, Entry
    <2>5. e \in Line
      <3>1. hashes + 1 \in Hashes
        BY <1>1, Typed DEF Hashes
      <3>2. QED
        BY <1>1, <3>1, Typed DEF NextEntry, Entry, Line
    <2> HIDE DEF e
    <2>6. /\ Len(lines') = n + 1 /\ lines' # <<>>
          /\ lines'[n + 1] = e
          /\ \A i \in 1..n : lines'[i] = lines[i]
      <3>1. lines' = Append(lines, e)
        BY <1>1, <2>1 DEF Written, LinesInOrder, e
      <3>2. QED
        BY <2>1, <2>5, <3>1, Appended
    <2>7. \A i \in 1..Len(lines') : i \in 1..n \/ i = n + 1
      BY <2>1, <2>6
    <2>8. LinesInOrder'
      BY <1>1, <2>1, <2>3, <2>4, <2>6, <2>7 DEF LinesInOrder
    <2>9. Last' = e
      BY <2>6 DEF Last
    <2>10. GoesOnFromLast'
      BY <1>1, <2>4, <2>6, <2>9 DEF GoesOnFromLast
    <2>11. cut = "yes" => GoesOnBehindGap'
      BY <1>1, <2>1, <2>2, <2>6 DEF GoesOnBehindGap
    <2>12. garbled /\ cut = "no" => DamageShows'
      <3> SUFFICES ASSUME garbled, cut = "no" PROVE DamageShows'
        OBVIOUS
      <3>1. DamageShows
        BY <1>4 DEF AuditIInv
      <3>2. CASE lines # <<>> /\ Last.seq > n
        <4>1. mem.seq = Last.seq
          BY <1>1, <2>1, <2>2, <3>2, Resumes
        <4>2. QED
          BY <2>1, <2>4, <2>6, <2>9, <3>2, <4>1 DEF DamageShows
      <3>3. CASE \E i \in 1..n : ~lines[i].intact
        <4>1. PICK i \in 1..n : ~lines[i].intact
          BY <3>3
        <4>2. i \in 1..Len(lines') /\ ~lines'[i].intact
          BY <2>1, <2>6, <4>1
        <4>3. QED
          BY <4>2 DEF DamageShows
      <3>4. QED
        BY <3>1, <3>2, <3>3 DEF DamageShows
    <2>13. damage = 0 => Chained'
      <3> SUFFICES ASSUME damage = 0 PROVE Chained'
        OBVIOUS
      <3>1. Chained /\ mem = Resumed
        BY <1>4, <2>2 DEF AuditIInv
      <3>2. mem.seq = n /\ mem.hash = IF n = 0 THEN 0 ELSE lines[n].hash
        <4>1. CASE n = 0
          BY <1>1, <2>1, <3>1, <4>1, Resumes, Typed
        <4>2. CASE n # 0
          <5>1. n \in 1..n /\ lines # <<>>
            BY <1>1, <2>1, <4>2, Typed
          <5>2. lines[n].seq = n
            BY <3>1, <5>1 DEF Chained
          <5>3. QED
            BY <1>1, <2>1, <3>1, <4>2, <5>1, <5>2, Resumes DEF Last
        <4>3. QED
          BY <4>1, <4>2
      <3>3. ASSUME NEW i \in 1..n
            PROVE  /\ lines'[i].parses /\ lines'[i].seq = i /\ lines'[i].intact
                   /\ lines'[i].prev = IF i = 1 THEN 0 ELSE lines'[i - 1].hash
        <4>1. i # 1 => i - 1 \in 1..n
          BY <2>1
        <4>2. QED
          BY <2>6, <3>1, <4>1 DEF Chained
      <3>4. /\ lines'[n + 1].parses /\ lines'[n + 1].seq = n + 1 /\ lines'[n + 1].intact
            /\ lines'[n + 1].prev = IF n + 1 = 1 THEN 0 ELSE lines'[n + 1 - 1].hash
        BY <2>1, <2>4, <2>6, <3>2
      <3>5. QED
        BY <2>7, <3>3, <3>4 DEF Chained
    <2>14. QED
      BY <1>1, <1>3, <2>8, <2>10, <2>11, <2>12, <2>13
  <1>5. QED
    BY <1>1, <1>2, <1>3, <1>4 DEF AuditIInv

LEMMA Tears ==
  ASSUME AuditIInv, AppendTorn
  PROVE  AuditIInv'
  <1>1. /\ AuditTypeOK /\ ~writing /\ hashes < MaxEntries
        /\ \E line \in {Junk, NextEntry} : lines' = Written(line)
        /\ open' = TRUE /\ hashes' = hashes + 1 /\ torn' = TRUE
        /\ cut' = IF cut = "resumed" THEN "covered" ELSE cut
        /\ UNCHANGED <<head, mem, writing, damage, lag, garbled>>
    BY DEF AuditIInv, AppendTorn
  <1>2. lines' \in Seq(Line) /\ lines' # <<>>
    BY <1>1, WrittenTyped DEF AuditIInv
  <1>3. hashes' \in 0..MaxEntries
    BY <1>1, Typed
  <1>4. AuditTypeOK'
    BY <1>1, <1>2, <1>3 DEF AuditTypeOK
  <1>5. QED
    BY <1>1, <1>2, <1>4 DEF AuditIInv

LEMMA Advances ==
  ASSUME AuditIInv, WriteHead \/ WriteHeadFails
  PROVE  AuditIInv'
  <1>1. /\ AuditTypeOK /\ writing /\ writing' = FALSE
        /\ mem' = Mark(mem.seq + 1, hashes)
        /\ UNCHANGED <<lines, open, hashes, damage, torn, garbled, cut>>
        /\ \/ head' = mem' /\ lag' = FALSE
           \/ head' = head /\ lag' = TRUE
    BY DEF AuditIInv, WriteHead, WriteHeadFails, Advance, NextEntry, Entry, disk
  <1>2. mem' \in [seq : Nat, hash : Hashes] /\ mem'.seq = mem.seq + 1
    BY <1>1, Typed DEF Mark
  <1>3. head' \in [seq : Nat, hash : Hashes]
    BY <1>1, <1>2 DEF AuditTypeOK
  <1>4. AuditTypeOK'
    BY <1>1, <1>2, <1>3 DEF AuditTypeOK
  <1>5. /\ open' => lines' # <<>>
        /\ cut' = "resumed" => ~writing'
        /\ damage' = 0 => cut' = "no"
    BY <1>1 DEF AuditIInv
  <1>6. ASSUME ~torn
        PROVE  /\ LinesInOrder'
               /\ IF cut' = "yes" THEN GoesOnBehindGap' ELSE GoesOnFromLast'
               /\ ~lag' /\ ~writing' => HeadStands'
               /\ garbled' /\ cut' = "no" => DamageShows'
               /\ damage' = 0 => Chained'
    <2>1. LinesInOrder /\ LinesInOrder'
      BY <1>1, <1>6 DEF AuditIInv, LinesInOrder
    <2>2. cut = "yes" => Len(lines) < mem'.seq
      BY <1>1, <1>2, <1>6 DEF AuditIInv, GoesOnBehindGap
    <2>3. cut # "yes" => mem' = Resumed
      BY <1>1, <1>6, <2>1, Resumes DEF AuditIInv, GoesOnFromLast
    <2>4. Resumed' = Resumed
      BY <1>1 DEF Resumed, Last
    <2>5. IF cut' = "yes" THEN GoesOnBehindGap' ELSE GoesOnFromLast'
      BY <1>1, <2>2, <2>3, <2>4 DEF GoesOnBehindGap, GoesOnFromLast
    <2>6. ~lag' => HeadStands'
      BY <1>1, <2>2 DEF AuditIInv, HeadStands
    <2>7. garbled' /\ cut' = "no" => DamageShows'
      BY <1>1, <1>6 DEF AuditIInv, DamageShows, Last
    <2>8. damage' = 0 => Chained'
      BY <1>1, <1>6 DEF AuditIInv, Chained
    <2>9. QED
      BY <2>1, <2>5, <2>6, <2>7, <2>8
  <1>7. QED
    BY <1>1, <1>4, <1>5, <1>6 DEF AuditIInv

-----------------------------------------------------------------------------
(* newAuditor *)

LEMMA Restarts ==
  ASSUME AuditIInv, AuditRestart
  PROVE  AuditIInv'
  <1>1. /\ AuditTypeOK
        /\ mem' = Resumed /\ writing' = FALSE /\ lag' = (lag \/ writing)
        /\ cut' = IF cut = "yes" THEN "resumed" ELSE cut
        /\ UNCHANGED <<lines, open, head, hashes, damage, torn, garbled>>
    BY DEF AuditIInv, AuditRestart, disk
  <1>2. AuditTypeOK'
    <2>1. mem' \in [seq : Nat, hash : Hashes]
      BY <1>1, ResumedTyped
    <2>2. lag' \in BOOLEAN /\ writing' \in BOOLEAN
      BY <1>1 DEF AuditTypeOK
    <2>3. cut' \in {"no", "yes", "resumed", "covered"}
      BY <1>1 DEF AuditTypeOK
    <2>4. QED
      BY <1>1, <2>1, <2>2, <2>3 DEF AuditTypeOK
  <1>3. /\ open' => lines' # <<>>
        /\ cut' = "resumed" => ~writing'
        /\ damage' = 0 => cut' = "no"
        /\ cut' # "yes"
    BY <1>1 DEF AuditIInv
  <1>4. ASSUME ~torn
        PROVE  /\ LinesInOrder'
               /\ GoesOnFromLast'
               /\ ~lag' => HeadStands'
               /\ garbled' /\ cut' = "no" => DamageShows'
               /\ damage' = 0 => Chained'
    <2>1. LinesInOrder'
      BY <1>1, <1>4 DEF AuditIInv, LinesInOrder
    <2>2. Resumed' = Resumed
      BY <1>1 DEF Resumed, Last
    <2>3. GoesOnFromLast'
      BY <1>1, <2>2 DEF GoesOnFromLast
    <2>4. ~lag' => HeadStands'
      <3>1. ~lag' => ~lag /\ ~writing /\ HeadStands
        BY <1>1, <1>4 DEF AuditIInv, AuditTypeOK
      <3>2. cut # "yes" /\ ~writing => mem = Resumed
        BY <1>4 DEF AuditIInv, GoesOnFromLast
      <3>3. QED
        BY <1>1, <3>1, <3>2 DEF HeadStands
    <2>5. garbled' /\ cut' = "no" => DamageShows'
      BY <1>1, <1>4 DEF AuditIInv, DamageShows, Last
    <2>6. damage' = 0 => Chained'
      BY <1>1, <1>4 DEF AuditIInv, Chained
    <2>7. QED
      BY <2>1, <2>3, <2>4, <2>5, <2>6
  <1>5. QED
    BY <1>1, <1>2, <1>3, <1>4 DEF AuditIInv

-----------------------------------------------------------------------------
(* Damage.  What every loss and change of lines leaves alone: *)

LEMMA Damaged ==
  ASSUME AuditIInv, Damage, lines' \in Seq(Line), {open', garbled'} \subseteq BOOLEAN,
         cut' \in {"no", "yes", "resumed", "covered"}
  PROVE  /\ AuditTypeOK'
         /\ ~writing /\ ~writing' /\ damage' # 0
         /\ UNCHANGED <<head, mem, hashes, torn, lag>>
  <1>1. /\ ~writing /\ damage' = damage + 1 /\ damage < MaxDamage
        /\ UNCHANGED <<head, mem, writing, hashes, torn, lag>>
    BY DEF Damage
  <1>2. damage \in Nat /\ MaxDamage \in Nat
    BY Typed DEF AuditIInv, AuditTypeOK
  <1>3. damage' \in 0..MaxDamage /\ damage' # 0
    BY <1>1, <1>2
  <1>4. AuditTypeOK'
    BY <1>1, <1>3 DEF AuditIInv, AuditTypeOK
  <1>5. QED
    BY <1>1, <1>3, <1>4

LEMMA Garbles ==
  ASSUME AuditIInv, NEW i \in 1..Len(lines), Garble(i)
  PROVE  AuditIInv'
  <1> DEFINE n == Len(lines)
             l == [lines[i] EXCEPT !.intact = FALSE]
  <1>1. /\ AuditTypeOK /\ lines \in Seq(Line) /\ n \in Nat
        /\ \A j \in 1..n : lines[j] \in Line
    BY Typed DEF AuditIInv
  <1>2. /\ l \in Line /\ l.parses = lines[i].parses /\ l.seq = lines[i].seq
        /\ l.prev = lines[i].prev /\ l.hash = lines[i].hash /\ l.intact = FALSE
    BY <1>1 DEF Line
  <1> HIDE DEF l
  <1>3. Damage /\ lines' = [lines EXCEPT ![i] = l] /\ garbled' = TRUE /\ UNCHANGED <<open, cut>>
    BY DEF Garble, l
  <1>4. /\ lines' \in Seq(Line) /\ Len(lines') = n
        /\ \A j \in 1..n : lines'[j] = IF j = i THEN l ELSE lines[j]
    BY <1>1, <1>2, <1>3
  <1>5. /\ AuditTypeOK'
        /\ ~writing /\ ~writing' /\ damage' # 0
        /\ UNCHANGED <<head, mem, hashes, torn, lag>>
    BY <1>3, <1>4, Damaged DEF AuditIInv, AuditTypeOK
  <1>6. lines # <<>> /\ lines' # <<>> /\ n \in 1..n
    BY <1>1, <1>4
  <1>7. /\ \A j \in 1..n : lines'[j].parses = lines[j].parses /\ lines'[j].seq = lines[j].seq
                           /\ lines'[j].hash = lines[j].hash
        /\ ~lines'[i].intact
    BY <1>2, <1>4
  <1>8. Resumed' = Resumed
    BY <1>4, <1>6, <1>7 DEF Resumed, Last
  <1>9. ASSUME ~torn
        PROVE  /\ LinesInOrder'
               /\ IF cut' = "yes" THEN GoesOnBehindGap' ELSE GoesOnFromLast'
               /\ ~lag' => HeadStands'
    BY <1>3, <1>4, <1>5, <1>7, <1>8, <1>9
       DEF AuditIInv, LinesInOrder, GoesOnBehindGap, GoesOnFromLast, HeadStands
  <1>10. DamageShows'
    BY <1>4, <1>7 DEF DamageShows
  <1>11. QED
    BY <1>3, <1>5, <1>6, <1>9, <1>10 DEF AuditIInv

LEMMA LosesLine ==
  ASSUME AuditIInv, NEW i \in 1..Len(lines), LoseLine(i)
  PROVE  AuditIInv'
  <1> DEFINE n == Len(lines)
  <1>1. /\ AuditTypeOK /\ lines \in Seq(Line) /\ n \in Nat
        /\ \A j \in 1..n : lines[j].seq \in Nat
    BY Typed DEF AuditIInv
  <1>2. /\ Damage /\ i < n /\ garbled' = TRUE /\ UNCHANGED <<open, cut>>
    BY DEF LoseLine
  <1>3. /\ lines' \in Seq(Line) /\ n > 1 /\ Len(lines') = n - 1
        /\ \A j \in 1..Len(lines') : lines'[j] = IF j < i THEN lines[j] ELSE lines[j + 1]
    <2>1. lines' = SubSeq(lines, 1, i - 1) \o SubSeq(lines, i + 1, Len(lines))
      BY DEF LoseLine
    <2>2. QED
      BY <1>1, <1>2, <2>1, TakenOut
  <1>4. /\ AuditTypeOK'
        /\ ~writing /\ ~writing' /\ damage' # 0
        /\ UNCHANGED <<head, mem, hashes, torn, lag>>
    BY <1>2, <1>3, Damaged DEF AuditIInv, AuditTypeOK
  <1>5. lines # <<>> /\ lines' # <<>>
    BY <1>1, <1>3
  <1>6. Last' = Last
    <2>1. Len(lines') \in 1..Len(lines') /\ ~(Len(lines') < i) /\ Len(lines') + 1 = n
      BY <1>1, <1>2, <1>3
    <2>2. QED
      BY <1>3, <2>1 DEF Last
  <1>7. Resumed' = Resumed
    BY <1>5, <1>6 DEF Resumed
  <1>8. ASSUME ~torn
        PROVE  /\ LinesInOrder'
               /\ IF cut' = "yes" THEN GoesOnBehindGap' ELSE GoesOnFromLast'
               /\ ~lag' => HeadStands'
               /\ DamageShows'
    <2>1. LinesInOrder
      BY <1>8 DEF AuditIInv
    <2>2. LinesInOrder'
      <3>1. ASSUME NEW j \in 1..Len(lines')
            PROVE  lines'[j].parses /\ lines'[j].seq >= j
        <4>1. j \in 1..n /\ j + 1 \in 1..n /\ j \in Nat
          BY <1>1, <1>3
        <4>2. QED
          BY <1>1, <1>3, <2>1, <4>1 DEF LinesInOrder
      <3>2. QED
        BY <1>2, <2>1, <3>1 DEF LinesInOrder
    <2>3. IF cut' = "yes" THEN GoesOnBehindGap' ELSE GoesOnFromLast'
      <3>1. mem.seq \in Nat
        BY <1>1, Typed
      <3>2. QED
        BY <1>1, <1>2, <1>3, <1>4, <1>7, <1>8, <3>1 DEF AuditIInv, GoesOnBehindGap, GoesOnFromLast
    <2>4. ~lag' => HeadStands'
      <3>1. head.seq \in Nat
        BY <1>1, Typed
      <3>2. QED
        BY <1>1, <1>2, <1>3, <1>4, <1>8, <3>1 DEF AuditIInv, HeadStands
    <2>5. DamageShows'
      <3>1. Last.seq \in Nat /\ Last.seq >= n
        BY <1>1, <1>5, <2>1, Resumes
      <3>2. QED
        BY <1>1, <1>3, <1>5, <1>6, <3>1 DEF DamageShows
    <2>6. QED
      BY <2>2, <2>3, <2>4, <2>5
  <1>9. QED
    BY <1>2, <1>4, <1>5, <1>8 DEF AuditIInv

LEMMA LosesTail ==
  ASSUME AuditIInv, NEW i \in 1..Len(lines), LoseTail(i)
  PROVE  AuditIInv'
  <1> DEFINE n == Len(lines)
  <1>1. /\ AuditTypeOK /\ lines \in Seq(Line) /\ n \in Nat /\ mem.seq \in Nat /\ head.seq \in Nat
    BY Typed DEF AuditIInv
  <1>2. /\ Damage /\ lines' = SubSeq(lines, 1, i - 1)
        /\ open' = FALSE /\ cut' = "yes" /\ garbled' = garbled
    BY DEF LoseTail
  <1>3. /\ lines' \in Seq(Line) /\ Len(lines') = i - 1
        /\ i - 1 \in Nat /\ i <= n
        /\ \A j \in 1..(i - 1) : lines'[j] = lines[j]
    BY <1>1, <1>2, FirstPart
  <1>4. /\ AuditTypeOK'
        /\ ~writing /\ ~writing' /\ damage' # 0
        /\ UNCHANGED <<head, mem, hashes, torn, lag>>
    BY <1>2, <1>3, Damaged DEF AuditIInv, AuditTypeOK
  <1>5. ASSUME ~torn
        PROVE  /\ LinesInOrder'
               /\ GoesOnBehindGap'
               /\ ~lag' => HeadStands'
    <2>1. LinesInOrder
      BY <1>5 DEF AuditIInv
    <2>2. LinesInOrder'
      <3>1. \A j \in 1..(i - 1) : j \in 1..n
        BY <1>1, <1>3
      <3>2. QED
        BY <1>2, <1>3, <2>1, <3>1 DEF LinesInOrder
    <2>3. cut # "yes" => mem = Resumed
      BY <1>4, <1>5 DEF AuditIInv, GoesOnFromLast
    <2>4. mem.seq >= n
      BY <1>1, <1>4, <1>5, <2>1, <2>3, Resumes DEF AuditIInv, GoesOnBehindGap
    <2>5. GoesOnBehindGap'
      BY <1>1, <1>3, <1>4, <2>4 DEF GoesOnBehindGap
    <2>6. ~lag => head.seq > n \/ head = mem
      BY <1>4, <1>5 DEF AuditIInv, HeadStands
    <2>7. ~lag' => HeadStands'
      BY <1>1, <1>2, <1>3, <1>4, <2>4, <2>6 DEF HeadStands
    <2>8. QED
      BY <2>2, <2>5, <2>7
  <1>6. QED
    BY <1>2, <1>4, <1>5 DEF AuditIInv

-----------------------------------------------------------------------------

\* The inductive invariant of the audit log: as long as no write stopped
\* half-way, the lines stay in order, the auditor and the head agree with what
\* was written, and what was damaged shows.
THEOREM AuditInvariant == AuditSpec => []AuditIInv
  <1>1. AuditIInv /\ [AuditNext]_auditVars => AuditIInv'
    <2> SUFFICES ASSUME AuditIInv, [AuditNext]_auditVars PROVE AuditIInv'
      OBVIOUS
    <2>1. CASE AuditNext
      BY <2>1, Appends, Tears, Advances, Restarts, Garbles, LosesLine, LosesTail DEF AuditNext
    <2>2. CASE UNCHANGED auditVars
      BY <2>2 DEF auditVars, disk, AuditIInv, AuditTypeOK, LinesInOrder, GoesOnBehindGap, GoesOnFromLast,
                  Resumed, Last, HeadStands, DamageShows, Chained
    <2>3. QED
      BY <2>1, <2>2
  <1>2. QED
    BY <1>1, AuditInitially, PTL DEF AuditSpec

\* What the last line of a chained log is.
LEMMA ChainEnds ==
  ASSUME AuditTypeOK, Chained
  PROVE  \/ lines = <<>> /\ Len(lines) = 0
         \/ lines # <<>> /\ Len(lines) \in 1..Len(lines) /\ Last.seq = Len(lines)
  BY Typed DEF Chained, Last

\* A log nothing happened to verifies, however often the server was stopped.
THEOREM AuditUndamagedVerifies == AuditSpec => []UndamagedVerifies
  <1>1. AuditIInv => UndamagedVerifies
    <2> SUFFICES ASSUME AuditIInv, ~writing, ~torn, ~lag, damage = 0 PROVE Verifies
      BY DEF UndamagedVerifies
    <2>1. AuditTypeOK /\ Chained /\ LinesInOrder
      BY DEF AuditIInv
    <2>2. head = mem /\ mem = Resumed
      BY DEF AuditIInv, HeadStands, GoesOnFromLast
    <2>3. Resumed = IF lines = <<>> THEN NoMark ELSE Mark(Last.seq, Last.hash)
      BY <2>1, Resumes
    <2>4. QED
      BY <2>1, <2>2, <2>3 DEF Verifies
  <1>2. QED
    BY <1>1, AuditInvariant, PTL

\* A garbled line, or one lost from the middle, is reported from then on, also
\* when more entries are written and the server is restarted.
THEOREM AuditGarblingDetected == AuditSpec => []GarblingDetected
  <1>1. AuditIInv => GarblingDetected
    <2> SUFFICES ASSUME AuditIInv, garbled, cut = "no", ~torn, Chained PROVE FALSE
      BY DEF GarblingDetected, Verifies
    <2>1. AuditTypeOK /\ DamageShows
      BY DEF AuditIInv
    <2>2. \A i \in 1..Len(lines) : lines[i].intact
      BY DEF Chained
    <2>3. lines # <<>> /\ Last.seq > Len(lines)
      BY <2>1, <2>2 DEF DamageShows
    <2>4. Last.seq = Len(lines) /\ Len(lines) \in Nat
      BY <2>1, <2>3, ChainEnds, Typed
    <2>5. QED
      BY <2>3, <2>4
  <1>2. QED
    BY <1>1, AuditInvariant, PTL

\* A lost tail is reported until the auditor goes on from what is left.
THEOREM AuditLostTailDetected == AuditSpec => []LostTailDetected
  <1>1. AuditIInv => LostTailDetected
    <2> SUFFICES ASSUME AuditIInv, ~writing, cut \in {"yes", "resumed"}, ~lag, ~torn, Verifies
                 PROVE  FALSE
      BY DEF LostTailDetected
    <2>1. AuditTypeOK /\ Chained /\ Len(lines) \in Nat
      BY Typed DEF AuditIInv, Verifies
    <2>2. head.seq > Len(lines)
      BY DEF AuditIInv, HeadStands
    <2>3. head # NoMark
      BY <2>1, <2>2 DEF NoMark, Mark
    <2>4. CASE lines = <<>>
      BY <2>3, <2>4 DEF Verifies
    <2>5. CASE lines # <<>>
      <3>1. head.seq = Last.seq
        BY <2>3, <2>5, Marks DEF Verifies
      <3>2. Last.seq = Len(lines)
        BY <2>1, <2>5, ChainEnds
      <3>3. QED
        BY <2>1, <2>2, <3>1, <3>2
    <2>6. QED
      BY <2>4, <2>5
  <1>2. QED
    BY <1>1, AuditInvariant, PTL

=============================================================================
