----------------------------- MODULE GuiProofs -----------------------------
(***************************************************************************)
(* Theorems about Gui, for any paths on disk and any number of pending      *)
(* files, transfers and answers.                                            *)
(***************************************************************************)
EXTENDS Gui, FiniteSetTheorems, TLAPS

LEMMA NoTransferType ==
  NoTransfer \in [kind : Kinds, path : Paths \cup {None}, code : Codes \cup {None}, done : BOOLEAN,
                 status : Results, cancel : BOOLEAN, active : BOOLEAN]
  BY DEF NoTransfer, Kinds, Results

LEMMA Initially == Init => IInv
  <1> SUFFICES ASSUME Init PROVE IInv
    OBVIOUS
  <1> USE GuiAssumption DEF GuiAssumption, Init, LoadRelayUrl
  <1>1. \A i \in Workers : worker[i] = NoWorker /\ ~Alive(i)
    BY DEF Alive, NoWorker
  <1>2. TypeOK
    <2>1. worker \in [Workers -> WorkerStates] /\ disk \in [Paths -> Files]
      BY DEF WorkerStates, Files, Contents
    <2>2. xfer \in [kind : Kinds, path : Paths \cup {None}, code : Codes \cup {None}, done : BOOLEAN,
                    status : Results, cancel : BOOLEAN, active : BOOLEAN]
      BY NoTransferType
    <2>3. job \in [path : Paths \cup {None}, left : Nat]
      BY DEF NoJob
    <2>4. 0 \in 0..MaxPending /\ credit \in Int
      OBVIOUS
    <2>5. uploaded \in [Workers -> Paths \cup {None}]
      OBVIOUS
    <2>6. QED
      BY <2>1, <2>2, <2>3, <2>4, <2>5 DEF TypeOK
  <1>3. ~xfer.active /\ dialogs = {}
    BY DEF NoTransfer
  <1>4. QED
    BY <1>1, <1>2, <1>3 DEF IInv, AnswerAtHand, PathKnown, OneWorker, Apart, VerdictTrue

\* What a worker holds where it is.
LEMMA Shape ==
  ASSUME TypeOK, NEW i \in Workers
  PROVE  /\ worker[i] \in WorkerStates
         /\ worker[i] # NoWorker => worker[i].path \in Paths
         /\ Alive(i) => worker[i] # NoWorker
         /\ worker[i].pc \in {"sending", "receiving"} => worker[i].url \in BOOLEAN
         /\ worker[i].pc = "cleaning" => worker[i].result \in {"failed", "canceled"}
         /\ worker[i].pc = "reporting" => worker[i].result \in Results
  <1>1. worker[i] \in WorkerStates
    BY DEF TypeOK
  <1>2. QED
    BY <1>1 DEF WorkerStates, NoWorker, Alive

\* One worker moves on, the others stay where they are.
LEMMA Moved ==
  ASSUME TypeOK, NEW i \in Workers, NEW w \in WorkerStates, Moves(i, w)
  PROVE  /\ worker' \in [Workers -> WorkerStates]
         /\ worker'[i] = w
         /\ \A j \in Workers : j # i => worker'[j] = worker[j]
  BY DEF TypeOK, Moves

\* The types of what the session keeps.
SessionTypes ==
  /\ phase \in {"open", "closing", "closed"}
  /\ pending \in 0..MaxPending /\ archive \in BOOLEAN /\ current \in Paths \cup {None}
  /\ relay \in BOOLEAN /\ recipient \in Recipients /\ confirmed \in BOOLEAN
  /\ dialogs \subseteq {"encrypt", "send"} /\ credit \in Int
  /\ job \in [path : Paths \cup {None}, left : Nat] /\ operating \in BOOLEAN

XferRecords ==
  [kind : Kinds, path : Paths \cup {None}, code : Codes \cup {None}, done : BOOLEAN,
   status : Results, cancel : BOOLEAN, active : BOOLEAN]

TransferTypes ==
  /\ xfer \in XferRecords
  /\ thread \in Workers \cup {0} /\ worker \in [Workers -> WorkerStates]

OutsideTypes ==
  /\ disk \in [Paths -> Files] /\ waiting \in BOOLEAN
  /\ uploaded \in [Workers -> Paths \cup {None}]

LEMMA Types == TypeOK <=> SessionTypes /\ TransferTypes /\ OutsideTypes
  BY DEF TypeOK, SessionTypes, TransferTypes, OutsideTypes, XferRecords

LEMMA TypesNext == TypeOK' <=> SessionTypes' /\ TransferTypes' /\ OutsideTypes'
  BY DEF TypeOK, SessionTypes, TransferTypes, OutsideTypes, XferRecords

\* What is on the way between the window, its worker and the disk.
TransferSafe ==
  /\ PathKnown
  /\ ~Overlap => OneWorker /\ Apart
  /\ VerdictTrue

\* Where a download goes nothing is written and no archive is begun.
Respected ==
  xfer.active /\ xfer.kind = "download" =>
    disk'[xfer.path] = disk[xfer.path] /\ job'.path # xfer.path

\* Steps of the session leave a transfer as it is.
LEMMA SessionSafe ==
  ASSUME IInv, UNCHANGED <<transfer, uploaded>>, phase' # "closed" \/ phase' = phase,
         dialogs' \subseteq dialogs \cup {"encrypt"}, ~Overlap => Respected
  PROVE  TransferSafe'
  <1>1. /\ xfer' = xfer /\ thread' = thread /\ worker' = worker /\ uploaded' = uploaded
        /\ \A i \in Workers : Alive(i)' <=> Alive(i)
    BY DEF transfer, Alive
  <1>2. PathKnown'
    BY <1>1 DEF IInv, PathKnown
  <1>3. ASSUME ~Overlap, xfer.active, NEW r, ResultTrue(r)
        PROVE  ResultTrue(r)'
    <2>1. xfer.kind \in Kinds /\ Respected
      BY <1>3, Types DEF IInv, TransferTypes, XferRecords
    <2>2. QED
      BY <1>1, <1>3, <2>1 DEF ResultTrue, Respected, Kinds
  <1>4. ASSUME ~Overlap PROVE OneWorker' /\ Apart'
    <2>1. Apart'
      BY <1>1, <1>4 DEF Apart, Respected
    <2>2. OneWorker /\ Respected
      BY <1>4 DEF IInv
    <2>3. /\ phase # "closed" => phase' # "closed"
          /\ xfer.kind \in Kinds
      BY Types DEF IInv, TransferTypes, XferRecords
    <2>4. OneWorker'
      BY <1>1, <2>2, <2>3 DEF OneWorker, ResultTrue, Respected, Kinds
    <2>5. QED
      BY <2>1, <2>4
  <1>5. VerdictTrue'
    BY <1>1, <1>3 DEF VerdictTrue, IInv, ResultTrue
  <1>6. QED
    BY <1>2, <1>4, <1>5 DEF TransferSafe

LEMMA AllNext == TypeOK' /\ AnswerAtHand' /\ TransferSafe' => IInv'
  BY DEF IInv, TransferSafe

-----------------------------------------------------------------------------
(* The session. *)

\* Steps that touch neither a transfer nor the disk, nor count answers.
LEMMA Quiet ==
  ASSUME IInv, SessionTypes', UNCHANGED <<phase, confirmed, credit, transfer, outside>>,
         dialogs' \subseteq dialogs \cup {"encrypt"}, job'.path \in {job.path, None}
  PROVE  IInv'
  <1>1. TypeOK'
    BY Types, TypesNext DEF IInv, TransferTypes, OutsideTypes, transfer, outside
  <1>2. AnswerAtHand'
    BY DEF IInv, AnswerAtHand
  <1>3. ~Overlap => Respected
    <2>1. xfer.active => xfer.path # None
      BY DEF IInv, PathKnown
    <2>2. QED
      BY <2>1 DEF IInv, Apart, Respected, outside
  <1>4. TransferSafe'
    BY <1>3, SessionSafe DEF outside
  <1>5. QED
    BY <1>1, <1>2, <1>4, AllNext

\* The number of files a dialog answered with.
LEMMA ChosenFiles ==
  ASSUME NEW chosen \in OpenFilesDialog(UserFiles, UserFiles)
  PROVE  Cardinality(chosen) \in Nat
  <1>1. chosen \subseteq {Answer("plain"), Answer("accented")}
    BY DEF OpenFilesDialog, EnsureFilesExist, OpenFileDialogWinGui, OpenFileDialogW, UserFiles
  <1>2. IsFiniteSet({Answer("plain"), Answer("accented")})
    <2>1. IsFiniteSet({} \cup {Answer("plain")})
      BY FS_EmptySet, FS_AddElement
    <2>2. IsFiniteSet(({} \cup {Answer("plain")}) \cup {Answer("accented")})
      BY <2>1, FS_AddElement
    <2>3. ({} \cup {Answer("plain")}) \cup {Answer("accented")} = {Answer("plain"), Answer("accented")}
      OBVIOUS
    <2>4. QED
      BY <2>2, <2>3
  <1>3. QED
    BY <1>1, <1>2, FS_Subset, FS_CardinalityType

LEMMA PendingStep ==
  ASSUME IInv, Open, AddFiles \/ AddFolder \/ DropFiles \/ RemoveInMenu \/ DeleteKey
  PROVE  IInv'
  <1> USE GuiAssumption DEF GuiAssumption
  <1>1. ASSUME NEW n \in Nat, AddPending(n)
        PROVE  IInv'
    <2>1. SessionTypes'
      BY <1>1, Types DEF IInv, SessionTypes, AddPending, Open, gate
    <2>2. QED
      BY <1>1, <2>1, Quiet DEF AddPending, Open, gate
  <1>2. ASSUME RemovePending
        PROVE  IInv'
    <2>1. pending # 0
      BY <1>2 DEF RemovePending, PendingShown
    <2>2. SessionTypes'
      BY <1>2, <2>1, Types DEF IInv, SessionTypes, RemovePending, Open, gate
    <2>3. QED
      BY <1>2, <2>2, Quiet DEF RemovePending, Open, gate
  <1>3. QED
    BY <1>1, <1>2, ChosenFiles
       DEF AddFiles, AddFolder, DropFiles, RemoveInMenu, DeleteKey

LEMMA ArchiveStep ==
  ASSUME IInv, Open,
         NewArchive \/ Decrypt \/ \E p \in Paths : OpenArchive(p) \/ DropArchive(p)
  PROVE  IInv'
  <1> USE GuiAssumption DEF GuiAssumption
  <1>1. SessionTypes /\ 0 \in 0..MaxPending
    BY Types DEF IInv
  <1> HIDE GuiAssumption DEF GuiAssumption
  <1>2. CASE NewArchive
    <2>1. SessionTypes'
      BY <1>1, <1>2 DEF SessionTypes, NewArchive, Open, gate
    <2>2. QED
      BY <1>2, <2>1, Quiet DEF NewArchive, Open, gate
  <1>3. CASE Decrypt
    <2>1. SessionTypes'
      BY <1>1, <1>3 DEF SessionTypes, Decrypt, Open, session, view, gate
    <2>2. QED
      BY <1>3, <2>1, Quiet DEF Decrypt, Open, session, gate
  <1>4. ASSUME NEW p \in Paths, OpenArchive(p)
        PROVE  IInv'
    <2>1. SessionTypes'
      BY <1>1, <1>4 DEF SessionTypes, OpenArchive, ShowArchive, Open, gate
    <2>2. QED
      BY <1>4, <2>1, Quiet DEF OpenArchive, Open, gate
  <1>5. ASSUME NEW p \in Paths, DropArchive(p)
        PROVE  IInv'
    <2>1. SessionTypes'
      BY <1>1, <1>5 DEF SessionTypes, DropArchive, ShowArchive, Open, gate
    <2>2. QED
      BY <1>5, <2>1, Quiet DEF DropArchive, Open, gate
  <1>6. QED
    BY <1>2, <1>3, <1>4, <1>5

LEMMA SelectStep ==
  ASSUME IInv, Open,
         \/ \E r \in Recipients : SelectKey(r)
         \/ EncryptWarns
         \/ \E d \in {"encrypt", "send"} : Dismiss(d)
  PROVE  IInv'
  <1>1. SessionTypes'
    BY Types DEF IInv, SessionTypes, SelectKey, EncryptWarns, Dismiss, Open, view
  <1>2. QED
    BY <1>1, Quiet DEF SelectKey, EncryptWarns, Dismiss, Open, view

LEMMA RelayStep ==
  ASSUME IInv, EditRelayUrl, UNCHANGED phase
  PROVE  IInv'
  <1>1. SessionTypes'
    BY Types DEF IInv, SessionTypes, EditRelayUrl, session, view, gate
  <1>2. QED
    BY <1>1, Quiet DEF EditRelayUrl, session, gate

LEMMA EncryptGoesOn ==
  ASSUME IInv, Open, EncryptFile \/ EncryptFails
  PROVE  IInv'
  <1>1. job \in [path : Paths \cup {None}, left : Nat]
    BY Types DEF IInv, SessionTypes
  <1>2. /\ job' \in [path : Paths \cup {None}, left : Nat]
        /\ job'.path \in {job.path, None}
    BY <1>1 DEF EncryptFile, EncryptFails, NoJob
  <1>3. SessionTypes'
    BY <1>2, Types DEF IInv, SessionTypes, EncryptFile, EncryptFails, Open, view, gate
  <1>4. QED
    BY <1>2, <1>3, Quiet DEF EncryptFile, EncryptFails, Open, view, gate

\* An encryption that is begun, or not, after the gate let it through with the
\* answer at hand.
LEMMA EncryptionBegins ==
  ASSUME IInv, Open, NEW p \in Paths, NEW answered \in BOOLEAN, NEW n \in Nat,
         EncryptWith(answered, p), answered => credit + n >= 1,
         credit' = credit + n - StartsUnverified, dialogs' \subseteq dialogs,
         UNCHANGED <<view, recipient, transfer, waiting, uploaded>>
  PROVE  IInv'
  <1>1. SessionTypes /\ TransferTypes /\ OutsideTypes /\ AnswerAtHand
    BY Types DEF IInv
  <1>2. /\ confirmed' \in BOOLEAN /\ operating' \in BOOLEAN
        /\ job' \in [path : Paths \cup {None}, left : Nat]
        /\ disk' \in [Paths -> Files]
    <2>1. confirmed' \in BOOLEAN
      BY DEF EncryptWith, Warned
    <2>2. \/ UNCHANGED <<job, operating, disk>>
          \/ /\ job' = [path |-> p, left |-> pending]
             /\ operating' = TRUE
             /\ disk' = [disk EXCEPT ![p] = "partial"]
      BY DEF EncryptWith, StartJob
    <2>3. pending \in Nat /\ "partial" \in Files
      BY <1>1, GuiAssumption DEF SessionTypes, GuiAssumption, Files
    <2>4. operating' \in BOOLEAN /\ disk' \in [Paths -> Files]
      BY <1>1, <2>2, <2>3 DEF SessionTypes, OutsideTypes
    <2>5. job' \in [path : Paths \cup {None}, left : Nat]
      BY <1>1, <2>2, <2>3 DEF SessionTypes
    <2>6. QED
      BY <2>1, <2>4, <2>5
  <1>3. StartsUnverified \in {0, 1} /\ credit' \in Int
    BY <1>1 DEF SessionTypes, StartsUnverified
  <1>4. SessionTypes' /\ TransferTypes' /\ OutsideTypes'
    BY <1>1, <1>2, <1>3 DEF SessionTypes, TransferTypes, OutsideTypes, Open, view, transfer
  <1>5. AnswerAtHand'
    <2>1. credit >= 0 /\ credit \in Int
      BY <1>1 DEF SessionTypes, AnswerAtHand
    <2>2. /\ confirmed' => answered /\ job' = job
          /\ job' # job => answered \/ recipient = "verified"
      BY DEF EncryptWith, Warned, StartJob
    <2>3. /\ StartsUnverified = 1 => answered /\ ~confirmed'
          /\ confirmed' => StartsUnverified = 0
      BY <2>2 DEF StartsUnverified
    <2>4. QED
      BY <1>3, <2>1, <2>2, <2>3 DEF AnswerAtHand
  <1>6. ~Overlap => Respected
    <2>1. xfer.active => xfer.path \in Paths
      BY <1>1 DEF IInv, PathKnown, TransferTypes, XferRecords
    <2>2. CASE UNCHANGED <<job, disk>>
      BY <2>2 DEF IInv, Apart, Respected
    <2>3. CASE Free(p) /\ job'.path = p /\ disk' = [disk EXCEPT ![p] = "partial"]
      BY <1>1, <2>1, <2>3 DEF Free, Respected, OutsideTypes
    <2>4. QED
      BY <2>2, <2>3 DEF EncryptWith, StartJob
  <1>7. TransferSafe'
    BY <1>6, SessionSafe DEF Open
  <1>8. QED
    BY <1>4, <1>5, <1>7, TypesNext, AllNext

LEMMA EncryptStep ==
  ASSUME IInv, Open, NEW p \in Paths, Encrypt(p) \/ EncryptAnyway(p)
  PROVE  IInv'
  <1>1. SessionTypes /\ AnswerAtHand
    BY Types DEF IInv
  <1>2. CASE Encrypt(p)
    <2>1. confirmed \in BOOLEAN /\ 0 \in Nat /\ (confirmed => credit + 0 >= 1)
      BY <1>1 DEF SessionTypes, AnswerAtHand
    <2>2. credit' = credit + 0 - StartsUnverified
      <3>1. credit \in Int /\ StartsUnverified \in {0, 1}
        BY <1>1 DEF SessionTypes, StartsUnverified
      <3>2. QED
        BY <1>2, <3>1 DEF Encrypt
    <2>3. /\ EncryptWith(confirmed, p) /\ dialogs' \subseteq dialogs
          /\ UNCHANGED <<view, recipient, transfer, waiting, uploaded>>
      BY <1>2 DEF Encrypt
    <2>4. PICK answered \in BOOLEAN :
            EncryptWith(answered, p) /\ (answered => credit + 0 >= 1)
      BY <2>1, <2>3
    <2>5. 0 \in Nat
      OBVIOUS
    <2>6. QED
      BY <2>2, <2>3, <2>4, <2>5, EncryptionBegins
  <1>3. CASE EncryptAnyway(p)
    <2>1. TRUE \in BOOLEAN /\ 1 \in Nat /\ credit + 1 >= 1
      BY <1>1 DEF SessionTypes, AnswerAtHand
    <2>2. /\ EncryptWith(TRUE, p) /\ credit' = credit + 1 - StartsUnverified
          /\ dialogs' \subseteq dialogs
          /\ UNCHANGED <<view, recipient, transfer, waiting, uploaded>>
      BY <1>3 DEF EncryptAnyway
    <2>3. PICK answered \in BOOLEAN : EncryptWith(answered, p)
      BY <2>2
    <2>4. (answered => credit + 1 >= 1) /\ 1 \in Nat
      BY <2>1
    <2>5. QED
      BY <2>2, <2>3, <2>4, EncryptionBegins
  <1>4. QED
    BY <1>2, <1>3

LEMMA EncryptEndsStep ==
  ASSUME IInv, Open, EncryptEnds
  PROVE  IInv'
  <1>1. SessionTypes /\ TransferTypes /\ OutsideTypes /\ 0 \in 0..MaxPending
    BY Types, GuiAssumption DEF IInv, GuiAssumption
  <1>2. job' \in [path : Paths \cup {None}, left : Nat] /\ job'.path = None
    BY DEF EncryptEnds, NoJob
  <1>3. disk' \in [Paths -> Files] /\ \A p \in Paths : p # job.path => disk'[p] = disk[p]
    BY <1>1 DEF OutsideTypes, EncryptEnds, Files, Contents
  <1>4. SessionTypes' /\ TransferTypes' /\ OutsideTypes'
    BY <1>1, <1>2, <1>3 DEF SessionTypes, TransferTypes, OutsideTypes, EncryptEnds, Open,
                            gate, transfer
  <1>5. AnswerAtHand'
    BY DEF IInv, AnswerAtHand, EncryptEnds, gate
  <1>6. ~Overlap => Respected
    <2>1. xfer.active => xfer.path \in Paths /\ xfer.path # None
      BY <1>1 DEF IInv, PathKnown, TransferTypes, XferRecords
    <2>2. QED
      BY <1>2, <1>3, <2>1 DEF IInv, Apart, Respected
  <1>7. TransferSafe'
    BY <1>6, SessionSafe DEF Open, EncryptEnds, gate
  <1>8. QED
    BY <1>4, <1>5, <1>7, TypesNext, AllNext

-----------------------------------------------------------------------------
(* Transfers: the UI thread. *)

\* One transfer at a time: nobody else is alive while one worker is, and the
\* window knows of a transfer that is on.
LEMMA OneAlive ==
  ASSUME IInv, ~Overlap, NEW i \in Workers, Alive(i)
  PROVE  /\ thread = i /\ thread # 0 /\ xfer.active /\ Engaged
         /\ \A j \in Workers : Alive(j) => j = i
  BY DEF IInv, OneWorker, Engaged, Workers

\* Steps of the window that leave the session and the disk alone.
LEMMA TransferTyped ==
  ASSUME IInv, SessionTypes', TransferTypes', UNCHANGED outside
  PROVE  TypeOK'
  BY Types, TypesNext DEF IInv, OutsideTypes, outside

LEMMA StartStep ==
  ASSUME IInv, Open, NEW p \in Paths, NEW kind \in Kinds, NEW c \in Codes \cup {None},
         StartTransfer(kind, p, c), kind = "download" => job.path # p,
         dialogs' \subseteq dialogs,
         UNCHANGED <<view, recipient, confirmed, credit, job, outside>>
  PROVE  IInv'
  <1>1. SessionTypes /\ TransferTypes
    BY Types DEF IInv
  <1>2. /\ Reset(kind, p, c) \in XferRecords
        /\ [Reset(kind, p, c) EXCEPT !.active = FALSE] \in XferRecords
        /\ [Reset(kind, p, c) EXCEPT !.active = FALSE].path = p
        /\ [Reset(kind, p, c) EXCEPT !.active = FALSE].kind = kind
        /\ ~[Reset(kind, p, c) EXCEPT !.active = FALSE].done
        /\ Reset(kind, p, c).path = p /\ Reset(kind, p, c).kind = kind
        /\ ~Reset(kind, p, c).done /\ Reset(kind, p, c).active
    BY DEF Reset, XferRecords, Results
  <1>3. /\ xfer' \in XferRecords /\ operating' \in BOOLEAN
        /\ xfer'.path = p /\ xfer'.kind = kind /\ ~xfer'.done
    BY <1>2 DEF StartTransfer
  <1>4. p # None
    BY GuiAssumption DEF GuiAssumption
  <1>5. \/ UNCHANGED worker /\ thread' = 0
        \/ \E i \in Workers :
             /\ xfer'.active /\ thread' = i
             /\ worker' = [worker EXCEPT ![i] = [pc |-> "ready", path |-> p]]
    BY <1>2 DEF StartTransfer
  <1>6. [pc |-> "ready", path |-> p] \in WorkerStates
    BY DEF WorkerStates
  <1>7. TypeOK'
    <2>1. TransferTypes'
      BY <1>1, <1>3, <1>5, <1>6 DEF TransferTypes
    <2>2. SessionTypes'
      BY <1>1, <1>3 DEF SessionTypes, Open, view
    <2>3. QED
      BY <2>1, <2>2, TransferTyped
  <1>8. AnswerAtHand' /\ PathKnown'
    BY <1>3, <1>4 DEF IInv, AnswerAtHand, PathKnown
  <1>9. VerdictTrue'
    BY <1>3 DEF VerdictTrue
  <1>10. ASSUME ~Overlap
         PROVE  OneWorker' /\ Apart'
    <2>1. \A i \in Workers : worker[i].pc \in {"none", "over"}
      BY <1>10 DEF StartTransfer, Engaged, Alive
    <2>2. Apart'
      BY <1>3 DEF Apart
    <2>3. CASE UNCHANGED worker
      BY <2>1, <2>2, <2>3 DEF OneWorker, Alive
    <2>4. ASSUME NEW i \in Workers, xfer'.active, thread' = i,
                 worker' = [worker EXCEPT ![i] = [pc |-> "ready", path |-> p]]
          PROVE  OneWorker'
      <3>1. /\ worker'[i] = [pc |-> "ready", path |-> p]
            /\ \A j \in Workers : j # i => worker'[j] = worker[j]
        BY <1>1, <2>4 DEF TransferTypes
      <3>2. QED
        BY <1>3, <2>1, <2>4, <3>1 DEF OneWorker, Alive, Open
    <2>5. QED
      BY <1>5, <2>2, <2>3, <2>4
  <1>11. QED
    BY <1>7, <1>8, <1>9, <1>10 DEF IInv

LEMMA SendStep ==
  ASSUME IInv, Open, NEW p \in Paths, Send(p) \/ Receive(p)
  PROVE  IInv'
  <1>1. {"upload", "download"} = Kinds /\ Invitation \in Codes
    BY DEF Kinds, Codes
  <1>2. PICK c \in Codes \cup {None} : c = xfer.code
    BY Types DEF IInv, TransferTypes, XferRecords
  <1>3. CASE Send(p)
    BY <1>1, <1>2, <1>3, StartStep DEF Send, session, gate
  <1>4. CASE Receive(p)
    <2>1. job.path # p
      BY <1>4 DEF Receive, Free
    <2>2. QED
      BY <1>1, <1>4, <2>1, StartStep DEF Receive, session, gate
  <1>5. QED
    BY <1>3, <1>4

LEMMA SendAnywayStep ==
  ASSUME IInv, Open, SendAnyway
  PROVE  IInv'
  <1>1. "upload" \in Kinds
    BY DEF Kinds
  <1>2. PICK c \in Codes \cup {None} : c = xfer.code
    BY Types DEF IInv, TransferTypes, XferRecords
  <1>3. PICK p \in Paths : p = xfer.path
    BY Types DEF IInv, TransferTypes, XferRecords, PathKnown, SendAnyway
  <1>4. QED
    BY <1>1, <1>2, <1>3, StartStep DEF SendAnyway

LEMMA SendWarnsStep ==
  ASSUME IInv, Open, NEW p \in Paths, SendWarns(p)
  PROVE  IInv'
  <1>1. SessionTypes /\ TransferTypes /\ p # None
    BY Types, GuiAssumption DEF IInv, GuiAssumption
  <1>2. /\ xfer' \in XferRecords /\ xfer'.path = p
        /\ xfer'.active = xfer.active /\ xfer'.done = xfer.done
    BY <1>1 DEF TransferTypes, XferRecords, SendWarns
  <1>3. TypeOK'
    BY <1>1, <1>2, TransferTyped DEF SessionTypes, TransferTypes, SendWarns, Open, view
  <1>4. AnswerAtHand' /\ PathKnown'
    BY <1>1, <1>2 DEF IInv, AnswerAtHand, PathKnown, SendWarns
  <1>5. ~Overlap => ~xfer.active /\ \A i \in Workers : ~Alive(i)
    BY DEF SendWarns, Engaged
  <1>6. ~Overlap => OneWorker' /\ Apart'
    BY <1>2, <1>5 DEF OneWorker, Apart, Alive, SendWarns
  <1>7. VerdictTrue'
    BY <1>2, <1>5 DEF VerdictTrue
  <1>8. QED
    BY <1>3, <1>4, <1>6, <1>7 DEF IInv

LEMMA CancelStep ==
  ASSUME IInv, Open, Cancel
  PROVE  IInv'
  <1>1. SessionTypes /\ TransferTypes
    BY Types DEF IInv
  <1>2. /\ xfer' \in XferRecords
        /\ \A field \in {"kind", "path", "code", "done", "status", "active"} :
             xfer'[field] = xfer[field]
    BY <1>1 DEF TransferTypes, XferRecords, Cancel
  <1>3. TypeOK'
    BY <1>1, <1>2, TransferTyped
       DEF SessionTypes, TransferTypes, Cancel, Open, session, view, gate
  <1>4. AnswerAtHand' /\ PathKnown'
    BY <1>2 DEF IInv, AnswerAtHand, PathKnown, Cancel, session, gate
  <1>5. ~Overlap => OneWorker' /\ Apart'
    BY <1>2 DEF IInv, OneWorker, Apart, Alive, ResultTrue, Cancel, Open, session, outside
  <1>6. VerdictTrue'
    BY <1>2 DEF IInv, VerdictTrue, ResultTrue, Cancel, outside
  <1>7. QED
    BY <1>3, <1>4, <1>5, <1>6 DEF IInv

\* The window only lets a transfer go once its worker has ended.
LEMMA PollStep ==
  ASSUME IInv, Open, Poll
  PROVE  IInv'
  <1>1. SessionTypes /\ TransferTypes /\ xfer.path \in Paths
    BY Types DEF IInv, PathKnown, Poll, TransferTypes, XferRecords
  <1>2. xfer' \in XferRecords /\ xfer'.path = xfer.path /\ ~xfer'.active
    BY <1>1 DEF TransferTypes, XferRecords, Poll
  <1>3. TypeOK'
    <2>1. archive' \in BOOLEAN /\ current' \in Paths \cup {None}
      BY <1>1 DEF SessionTypes, Poll, ShowArchive
    <2>2. SessionTypes' /\ TransferTypes'
      BY <1>1, <1>2, <2>1 DEF SessionTypes, TransferTypes, Poll, Open, gate
    <2>3. QED
      BY <2>2, TransferTyped DEF Poll
  <1>4. AnswerAtHand' /\ PathKnown' /\ Apart' /\ VerdictTrue'
    BY <1>1, <1>2, GuiAssumption
       DEF GuiAssumption, IInv, AnswerAtHand, PathKnown, Apart, VerdictTrue, Poll, gate
  <1>5. ~Overlap => OneWorker'
    <2>1. ~Overlap => \A i \in Workers : ~Alive(i)
      BY OneAlive DEF Poll
    <2>2. QED
      BY <2>1 DEF OneWorker, Alive, Poll
  <1>6. QED
    BY <1>3, <1>4, <1>5 DEF IInv

LEMMA EndStep ==
  ASSUME IInv, CloseWindow \/ Shutdown
  PROVE  IInv'
  <1>1. SessionTypes /\ TransferTypes
    BY Types DEF IInv
  <1>2. SessionTypes'
    BY <1>1 DEF SessionTypes, CloseWindow, Shutdown, session, view, gate
  <1>3. TypeOK'
    BY <1>1, <1>2, TransferTyped DEF TransferTypes, CloseWindow, Shutdown, transfer
  <1>4. AnswerAtHand' /\ PathKnown' /\ VerdictTrue' /\ (~Overlap => Apart')
    BY DEF IInv, AnswerAtHand, PathKnown, Apart, VerdictTrue, ResultTrue, CloseWindow,
           Shutdown, session, view, gate, transfer, outside
  <1>5. ASSUME ~Overlap
        PROVE  OneWorker'
    <2>1. CASE CloseWindow
      BY <1>5, <2>1 DEF IInv, OneWorker, Alive, ResultTrue, CloseWindow, transfer, outside
    <2>2. CASE Shutdown
      <3>1. \A i \in Workers : ~Alive(i)
        BY <1>5, <2>2, OneAlive DEF Shutdown
      <3>2. QED
        BY <2>2, <3>1 DEF OneWorker, Alive, Shutdown
    <2>3. QED
      BY <2>1, <2>2
  <1>6. QED
    BY <1>3, <1>4, <1>5 DEF IInv

-----------------------------------------------------------------------------
(* Transfers: the worker. *)

\* The worker that ran works on what transfer_path says, and what it reported,
\* or is about to, is so.
WorkerSafe(i) ==
  /\ worker[i].pc # "none" /\ (xfer.done <=> worker[i].pc = "over")
  /\ worker[i].path = xfer.path
  /\ worker[i].pc = "sending" => xfer.kind = "upload"
  /\ worker[i].pc \in {"receiving", "cleaning"} => xfer.kind = "download"
  /\ worker[i].pc = "reporting" => ResultTrue(worker[i].result)
  /\ worker[i].pc \in {"leaving", "over"} => ResultTrue(xfer.status)

LEMMA Works ==
  ASSUME IInv, NEW i \in Workers, Alive(i),
         UNCHANGED <<phase, relay, session, operating, thread>>,
         worker' \in [Workers -> WorkerStates],
         \A j \in Workers : j # i => worker'[j] = worker[j],
         xfer' \in XferRecords, OutsideTypes',
         xfer'.path = xfer.path, xfer'.kind = xfer.kind, xfer'.active = xfer.active,
         ~Overlap => WorkerSafe(i)'
  PROVE  IInv'
  <1>1. TypeOK'
    BY Types, TypesNext DEF IInv, SessionTypes, TransferTypes, session, view, gate
  <1>2. worker[i] # NoWorker
    BY DEF Alive, NoWorker
  <1>3. AnswerAtHand' /\ PathKnown' /\ (~Overlap => Apart')
    BY <1>2 DEF IInv, AnswerAtHand, PathKnown, Apart, session, gate
  <1>4. ASSUME ~Overlap
        PROVE  OneWorker' /\ VerdictTrue'
    <2>1. /\ thread = i /\ xfer.active /\ phase # "closed"
          /\ \A j \in Workers : Alive(j) => j = i
      BY <1>4, OneAlive DEF IInv, OneWorker
    <2>2. \A j \in Workers : Alive(j)' => j = i
      BY <2>1 DEF Alive
    <2>3. VerdictTrue'
      BY <1>4 DEF WorkerSafe, VerdictTrue
    <2>4. OneWorker'
      BY <1>4, <2>1, <2>2 DEF OneWorker, WorkerSafe, Alive
    <2>5. QED
      BY <2>3, <2>4
  <1>5. Overlap => VerdictTrue'
    BY DEF VerdictTrue
  <1>6. QED
    BY <1>1, <1>3, <1>4, <1>5 DEF IInv

\* What is known of a worker that is about to move.
LEMMA Before ==
  ASSUME IInv, NEW i \in Workers, Alive(i)
  PROVE  /\ TransferTypes /\ OutsideTypes
         /\ xfer.path \in Paths /\ worker[i].path \in Paths
         /\ ~Overlap => /\ worker[i].path = xfer.path /\ xfer.done = FALSE
                        /\ worker[i].pc = "sending" => xfer.kind = "upload"
                        /\ worker[i].pc \in {"receiving", "cleaning"} => xfer.kind = "download"
                        /\ worker[i].pc = "reporting" => ResultTrue(worker[i].result)
                        /\ worker[i].pc = "leaving" => ResultTrue(xfer.status)
  <1>1. TransferTypes /\ OutsideTypes
    BY Types DEF IInv
  <1>2. worker[i] # NoWorker /\ worker[i].path \in Paths
    BY Shape DEF IInv
  <1>3. xfer.path \in Paths
    BY <1>1, <1>2 DEF IInv, PathKnown, TransferTypes, XferRecords
  <1>4. ~xfer.done => xfer.done = FALSE
    BY <1>1 DEF TransferTypes, XferRecords
  <1>5. QED
    BY <1>1, <1>2, <1>3, <1>4 DEF IInv, OneWorker

LEMMA BeginUploadStep ==
  ASSUME IInv, NEW i \in Workers, BeginUpload(i),
         UNCHANGED <<phase, relay, session, operating, thread>>
  PROVE  IInv'
  <1>1. Alive(i)
    BY DEF Alive, BeginUpload
  <1>2. /\ TransferTypes /\ OutsideTypes /\ xfer.path \in Paths /\ worker[i].path \in Paths
        /\ ~Overlap => worker[i].path = xfer.path /\ xfer.done = FALSE
    BY <1>1, Before
  <1>3. /\ xfer' \in XferRecords /\ xfer.kind = "upload"
        /\ xfer'.path = xfer.path /\ xfer'.kind = xfer.kind
        /\ xfer'.active = xfer.active /\ xfer'.done = xfer.done
    BY <1>2 DEF TransferTypes, XferRecords, BeginUpload
  <1>4. PICK w \in WorkerStates :
          /\ Moves(i, w) /\ w.path \in {worker[i].path, xfer.path}
          /\ w.pc = "sending" \/ (w.pc = "reporting" /\ w.result = "unopened")
    <2>1. CASE Ends(i, "unopened")
      <3>1. [pc |-> "reporting", path |-> worker[i].path, result |-> "unopened"] \in WorkerStates
        BY <1>2 DEF WorkerStates, Results
      <3>2. QED
        BY <2>1, <3>1 DEF Ends
    <2>2. CASE Moves(i, [pc |-> "sending", path |-> xfer.path, url |-> BuildUrl])
      <3>1. relay \in BOOLEAN
        BY Types DEF IInv, SessionTypes
      <3>2. [pc |-> "sending", path |-> xfer.path, url |-> BuildUrl] \in WorkerStates
        BY <1>2, <3>1 DEF WorkerStates, BuildUrl
      <3>3. QED
        BY <2>2, <3>2
    <2>3. QED
      BY <2>1, <2>2 DEF BeginUpload
  <1>5. /\ worker' \in [Workers -> WorkerStates] /\ worker'[i] = w
        /\ \A j \in Workers : j # i => worker'[j] = worker[j]
    BY <1>4, Moved DEF IInv
  <1>6. ~Overlap => WorkerSafe(i)'
    BY <1>2, <1>3, <1>4, <1>5 DEF WorkerSafe, ResultTrue
  <1>7. OutsideTypes'
    BY <1>2 DEF OutsideTypes, BeginUpload, outside
  <1>8. QED
    BY <1>1, <1>3, <1>5, <1>6, <1>7, Works

LEMMA BeginDownloadStep ==
  ASSUME IInv, NEW i \in Workers, BeginDownload(i),
         UNCHANGED <<phase, relay, session, operating, thread>>
  PROVE  IInv'
  <1>1. Alive(i)
    BY DEF Alive, BeginDownload
  <1>2. /\ TransferTypes /\ OutsideTypes /\ xfer.path \in Paths /\ worker[i].path \in Paths
        /\ ~Overlap => worker[i].path = xfer.path /\ xfer.done = FALSE
    BY <1>1, Before
  <1>3. xfer' = xfer /\ xfer \in XferRecords /\ xfer.kind = "download"
    BY <1>2 DEF TransferTypes, BeginDownload
  <1>4. PICK w \in WorkerStates :
          /\ Moves(i, w) /\ w.path \in {worker[i].path, xfer.path}
          /\ w.pc = "receiving" \/ (w.pc = "reporting" /\ w.result = "unopened")
    <2>1. CASE Ends(i, "unopened")
      <3>1. [pc |-> "reporting", path |-> worker[i].path, result |-> "unopened"] \in WorkerStates
        BY <1>2 DEF WorkerStates, Results
      <3>2. QED
        BY <2>1, <3>1 DEF Ends
    <2>2. CASE Moves(i, [pc |-> "receiving", path |-> xfer.path, code |-> xfer.code, url |-> BuildUrl])
      <3>1. relay \in BOOLEAN /\ xfer.code \in Codes \cup {None}
        BY <1>3, Types DEF IInv, SessionTypes, XferRecords
      <3>2. [pc |-> "receiving", path |-> xfer.path, code |-> xfer.code, url |-> BuildUrl] \in WorkerStates
        BY <1>2, <3>1 DEF WorkerStates, BuildUrl
      <3>3. QED
        BY <2>2, <3>2
    <2>3. QED
      BY <2>1, <2>2 DEF BeginDownload
  <1>5. /\ worker' \in [Workers -> WorkerStates] /\ worker'[i] = w
        /\ \A j \in Workers : j # i => worker'[j] = worker[j]
    BY <1>4, Moved DEF IInv
  <1>6. ~Overlap => WorkerSafe(i)'
    BY <1>2, <1>3, <1>4, <1>5 DEF WorkerSafe, ResultTrue
  <1>7. OutsideTypes'
    BY <1>2 DEF OutsideTypes, BeginDownload, Files
  <1>8. QED
    BY <1>1, <1>3, <1>5, <1>6, <1>7, Works

LEMMA Stored ==
  ASSUME OutsideTypes, NEW i \in Workers, worker[i].path \in Paths, Store(i)
  PROVE  /\ uploaded' \in [Workers -> Paths \cup {None}]
         /\ uploaded'[i] = worker[i].path
  BY DEF OutsideTypes, Store

\* The end of a transfer, of which a result is to be reported.
LEMMA Ended ==
  ASSUME TypeOK, NEW i \in Workers, worker[i].path \in Paths, NEW r \in Results, Ends(i, r)
  PROVE  /\ worker' \in [Workers -> WorkerStates]
         /\ worker'[i] = [pc |-> "reporting", path |-> worker[i].path, result |-> r]
         /\ \A j \in Workers : j # i => worker'[j] = worker[j]
  <1>1. [pc |-> "reporting", path |-> worker[i].path, result |-> r] \in WorkerStates
    BY DEF WorkerStates
  <1>2. QED
    BY <1>1, Moved DEF Ends

LEMMA UploadStep ==
  ASSUME IInv, NEW i \in Workers, Upload(i) \/ UploadFails(i),
         UNCHANGED <<phase, relay, session, operating, thread>>
  PROVE  IInv'
  <1>1. Alive(i)
    BY DEF Alive, Upload, UploadFails
  <1>2. /\ TypeOK /\ TransferTypes /\ OutsideTypes /\ worker[i].path \in Paths
        /\ worker[i].pc = "sending"
        /\ ~Overlap => worker[i].path = xfer.path /\ xfer.done = FALSE /\ xfer.kind = "upload"
    BY <1>1, Before DEF IInv, Upload, UploadFails
  <1>3. OutsideTypes'
    BY <1>2, Stored DEF OutsideTypes, Upload, UploadFails
  <1>4. CASE Upload(i)
    <2>1. i \in Codes /\ "ok" \in Results
      BY DEF Codes, Results
    <2>2. /\ xfer' \in XferRecords /\ xfer'.code = i
          /\ xfer'.path = xfer.path /\ xfer'.kind = xfer.kind
          /\ xfer'.active = xfer.active /\ xfer'.done = xfer.done
      BY <1>2, <1>4, <2>1 DEF TransferTypes, XferRecords, Upload
    <2>3. /\ worker' \in [Workers -> WorkerStates]
          /\ worker'[i] = [pc |-> "reporting", path |-> worker[i].path, result |-> "ok"]
          /\ \A j \in Workers : j # i => worker'[j] = worker[j]
      BY <1>2, <1>4, <2>1, Ended DEF Upload
    <2>4. uploaded'[i] = worker[i].path
      BY <1>2, <1>4, Stored DEF Upload
    <2>5. ~Overlap => WorkerSafe(i)'
      BY <1>2, <2>2, <2>3, <2>4 DEF WorkerSafe, ResultTrue
    <2>6. QED
      BY <1>1, <1>3, <2>2, <2>3, <2>5, Works
  <1>5. CASE UploadFails(i)
    <2>1. PICK r \in {"failed", "canceled"} : Ends(i, r)
      BY <1>5 DEF UploadFails, Failure
    <2>2. xfer' = xfer /\ xfer \in XferRecords /\ r \in Results
      BY <1>2, <1>5 DEF TransferTypes, UploadFails, Results
    <2>3. /\ worker' \in [Workers -> WorkerStates]
          /\ worker'[i] = [pc |-> "reporting", path |-> worker[i].path, result |-> r]
          /\ \A j \in Workers : j # i => worker'[j] = worker[j]
      BY <1>2, <2>1, <2>2, Ended
    <2>4. ~Overlap => WorkerSafe(i)'
      BY <1>2, <2>2, <2>3 DEF WorkerSafe, ResultTrue
    <2>5. QED
      BY <1>1, <1>3, <2>2, <2>3, <2>4, Works
  <1>6. QED
    BY <1>4, <1>5

LEMMA DownloadStep ==
  ASSUME IInv, NEW i \in Workers, Download(i) \/ DownloadFails(i),
         UNCHANGED <<phase, relay, session, operating, thread>>
  PROVE  IInv'
  <1>1. Alive(i)
    BY DEF Alive, Download, DownloadFails
  <1>2. /\ TypeOK /\ TransferTypes /\ OutsideTypes /\ worker[i].path \in Paths
        /\ worker[i].pc = "receiving"
        /\ ~Overlap => worker[i].path = xfer.path /\ xfer.done = FALSE /\ xfer.kind = "download"
    BY <1>1, Before DEF IInv, Download, DownloadFails
  <1>3. xfer' = xfer /\ xfer \in XferRecords
    BY <1>2 DEF TransferTypes, Download, DownloadFails
  <1>4. CASE Download(i)
    <2>1. "ok" \in Results /\ "theirs" \in Files
      BY DEF Results, Files, Contents
    <2>2. OutsideTypes' /\ disk'[worker[i].path] = "theirs"
      BY <1>2, <1>4, <2>1 DEF OutsideTypes, Download
    <2>3. /\ worker' \in [Workers -> WorkerStates]
          /\ worker'[i] = [pc |-> "reporting", path |-> worker[i].path, result |-> "ok"]
          /\ \A j \in Workers : j # i => worker'[j] = worker[j]
      BY <1>2, <1>4, <2>1, Ended DEF Download
    <2>4. ~Overlap => WorkerSafe(i)'
      BY <1>2, <1>3, <2>2, <2>3 DEF WorkerSafe, ResultTrue
    <2>5. QED
      BY <1>1, <1>3, <2>2, <2>3, <2>4, Works
  <1>5. CASE DownloadFails(i)
    <2>1. PICK r \in {"failed", "canceled"} :
            Moves(i, [pc |-> "cleaning", path |-> worker[i].path, result |-> r])
      BY <1>5 DEF DownloadFails, Failure
    <2>2. [pc |-> "cleaning", path |-> worker[i].path, result |-> r] \in WorkerStates
      BY <1>2 DEF WorkerStates
    <2>3. /\ worker' \in [Workers -> WorkerStates]
          /\ worker'[i] = [pc |-> "cleaning", path |-> worker[i].path, result |-> r]
          /\ \A j \in Workers : j # i => worker'[j] = worker[j]
      BY <1>2, <2>1, <2>2, Moved
    <2>4. OutsideTypes'
      BY <1>2, <1>5 DEF OutsideTypes, DownloadFails
    <2>5. ~Overlap => WorkerSafe(i)'
      BY <1>2, <1>3, <2>3 DEF WorkerSafe
    <2>6. QED
      BY <1>1, <1>3, <2>3, <2>4, <2>5, Works
  <1>6. QED
    BY <1>4, <1>5

\* remove takes the file transfer_path names now; with one transfer at a time
\* that is the one the worker was writing.
LEMMA CleanUpStep ==
  ASSUME IInv, NEW i \in Workers, CleanUp(i),
         UNCHANGED <<phase, relay, session, operating, thread>>
  PROVE  IInv'
  <1>1. Alive(i)
    BY DEF Alive, CleanUp
  <1>2. /\ TypeOK /\ TransferTypes /\ OutsideTypes
        /\ worker[i].path \in Paths /\ xfer.path \in Paths
        /\ worker[i].pc = "cleaning"
        /\ ~Overlap => worker[i].path = xfer.path /\ xfer.done = FALSE /\ xfer.kind = "download"
    BY <1>1, Before DEF IInv, CleanUp
  <1>3. xfer' = xfer /\ xfer \in XferRecords
    BY <1>2 DEF TransferTypes, CleanUp
  <1>4. PICK r \in {"failed", "canceled"} : r = worker[i].result
    BY <1>2, Shape
  <1>5. r \in Results
    BY DEF Results
  <1>6. /\ worker' \in [Workers -> WorkerStates]
        /\ worker'[i] = [pc |-> "reporting", path |-> worker[i].path, result |-> r]
        /\ \A j \in Workers : j # i => worker'[j] = worker[j]
    BY <1>2, <1>4, <1>5, Ended DEF CleanUp
  <1>7. OutsideTypes' /\ disk'[xfer.path] = None
    BY <1>2 DEF OutsideTypes, CleanUp, Files
  <1>8. ~Overlap => WorkerSafe(i)'
    BY <1>2, <1>3, <1>6, <1>7 DEF WorkerSafe, ResultTrue
  <1>9. QED
    BY <1>1, <1>3, <1>6, <1>7, <1>8, Works

LEMMA ReportStep ==
  ASSUME IInv, NEW i \in Workers, Report(i) \/ Leave(i),
         UNCHANGED <<phase, relay, session, operating, thread>>
  PROVE  IInv'
  <1>1. Alive(i)
    BY DEF Alive, Report, Leave
  <1>2. /\ TypeOK /\ TransferTypes /\ OutsideTypes /\ worker[i].path \in Paths
        /\ ~Overlap => /\ worker[i].path = xfer.path /\ xfer.done = FALSE
                       /\ worker[i].pc = "reporting" => ResultTrue(worker[i].result)
                       /\ worker[i].pc = "leaving" => ResultTrue(xfer.status)
    BY <1>1, Before DEF IInv
  <1>3. OutsideTypes' /\ UNCHANGED <<disk, uploaded>>
    BY <1>2 DEF OutsideTypes, Report, Leave, outside
  <1>4. CASE Report(i)
    <2>1. worker[i].pc = "reporting" /\ worker[i].result \in Results
      BY <1>2, <1>4, Shape DEF Report
    <2>2. /\ xfer' \in XferRecords /\ xfer'.status = worker[i].result
          /\ xfer'.path = xfer.path /\ xfer'.kind = xfer.kind /\ xfer'.code = xfer.code
          /\ xfer'.active = xfer.active /\ xfer'.done = xfer.done
      BY <1>2, <1>4, <2>1 DEF TransferTypes, XferRecords, Report
    <2>3. [pc |-> "leaving", path |-> worker[i].path] \in WorkerStates
      BY <1>2 DEF WorkerStates
    <2>4. /\ worker' \in [Workers -> WorkerStates]
          /\ worker'[i] = [pc |-> "leaving", path |-> worker[i].path]
          /\ \A j \in Workers : j # i => worker'[j] = worker[j]
      BY <1>2, <1>4, <2>3, Moved DEF Report
    <2>5. ~Overlap => WorkerSafe(i)'
      BY <1>2, <1>3, <2>1, <2>2, <2>4 DEF WorkerSafe, ResultTrue
    <2>6. QED
      BY <1>1, <1>3, <2>2, <2>4, <2>5, Works
  <1>5. CASE Leave(i)
    <2>1. worker[i].pc = "leaving"
      BY <1>5 DEF Leave
    <2>2. /\ xfer' \in XferRecords /\ xfer'.done = TRUE /\ xfer'.status = xfer.status
          /\ xfer'.path = xfer.path /\ xfer'.kind = xfer.kind /\ xfer'.code = xfer.code
          /\ xfer'.active = xfer.active
      BY <1>2, <1>5 DEF TransferTypes, XferRecords, Leave
    <2>3. [pc |-> "over", path |-> worker[i].path] \in WorkerStates
      BY <1>2 DEF WorkerStates
    <2>4. /\ worker' \in [Workers -> WorkerStates]
          /\ worker'[i] = [pc |-> "over", path |-> worker[i].path]
          /\ \A j \in Workers : j # i => worker'[j] = worker[j]
      BY <1>2, <1>5, <2>3, Moved DEF Leave
    <2>5. ~Overlap => WorkerSafe(i)'
      BY <1>2, <1>3, <2>1, <2>2, <2>4 DEF WorkerSafe, ResultTrue
    <2>6. QED
      BY <1>1, <1>3, <2>2, <2>4, <2>5, Works
  <1>6. QED
    BY <1>4, <1>5

-----------------------------------------------------------------------------

\* The inductive invariant of the window and its worker: the answers at hand,
\* and, with one transfer at a time, that the worker works on what the window
\* shows and the window waits for it.
THEOREM GuiInvariant == Spec => []IInv
  <1>1. IInv /\ [Next]_vars => IInv'
    <2> SUFFICES ASSUME IInv, [Next]_vars PROVE IInv'
      OBVIOUS
    <2>1. CASE Open /\ Click
      <3>1. CASE Toolbar
        BY <2>1, <3>1, PendingStep, ArchiveStep, SelectStep, EncryptStep, SendStep,
           SendWarnsStep DEF Toolbar
      <3>2. CASE DialogButtons
        BY <2>1, <3>2, PendingStep, SelectStep, EncryptStep, SendStep, SendAnywayStep,
           CancelStep DEF DialogButtons
      <3>3. QED
        BY <2>1, <3>1, <3>2, SelectStep DEF Click
    <2>2. CASE Open /\ Frame
      BY <2>2, PendingStep, ArchiveStep, EncryptGoesOn, EncryptEndsStep, PollStep
         DEF Frame, Input
    <2>3. CASE \E i \in Workers : Work(i)
      BY <2>3, BeginUploadStep, BeginDownloadStep, UploadStep, DownloadStep, CleanUpStep,
         ReportStep DEF Work
    <2>4. CASE UNCHANGED vars
      <3>1. SessionTypes'
        BY <2>4, Types DEF IInv, SessionTypes, vars, session, view, gate
      <3>2. QED
        BY <2>4, <3>1, Quiet DEF vars, session, gate
    <2>5. QED
      BY <2>1, <2>2, <2>3, <2>4, RelayStep, EndStep DEF Next
  <1>2. QED
    BY Initially, <1>1, PTL DEF Spec

\* Every encryption to a key that is not verified used up an answer of its own.
THEOREM GuiOneAnswerEach == Spec => []OneAnswerEach
  <1>1. IInv => OneAnswerEach
    BY DEF IInv, TypeOK, AnswerAtHand, OneAnswerEach
  <1>2. QED
    BY <1>1, GuiInvariant, PTL

\* With one transfer at a time, what the window goes by once a transfer is done
\* is so.
THEOREM GuiVerdictTrue == Spec => []VerdictTrue
  <1>1. IInv => VerdictTrue
    BY DEF IInv
  <1>2. QED
    BY <1>1, GuiInvariant, PTL

\* With one transfer at a time, the window does not go while a worker still uses
\* its memory.
THEOREM GuiShutdownWaits == Spec => []ShutdownWaits
  <1>1. IInv => ShutdownWaits
    BY DEF IInv, OneWorker, ShutdownWaits
  <1>2. QED
    BY <1>1, GuiInvariant, PTL
=============================================================================
