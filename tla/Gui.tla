-------------------------------- MODULE Gui --------------------------------
(***************************************************************************)
(* The window kyber-gui (src/gui.c) and its transfer worker (src/transfer.c *)
(* run on a thread of its own): one GuiContext that the frames of the UI     *)
(* thread and the worker both use, with no lock.                             *)
(*                                                                         *)
(* A frame runs gui_update (drops, keys, one step of an encryption, a look   *)
(* at the transfer) and gui_draw (the buttons).  Neither the dialogs nor the *)
(* progress overlay take the clicks from the toolbar and the sidebar behind  *)
(* them, so that every button but those of a dialog can be pressed at any    *)
(* time, and the dialogs that can be opened at any time, the key manager and *)
(* the receive dialog, are taken to be open.  Of the selected key, only      *)
(* whether it is verified is kept (Keystore has the rest), of an archive,    *)
(* only whether all of it is there (Archive has the rest), of the relay URL, *)
(* only whether there is one.  Archives have names in ASCII.                 *)
(***************************************************************************)
EXTENDS Naturals, Integers, FiniteSets, Dialogs

CONSTANTS
  Paths,        \* places for archives on disk
  None,         \* no path, no file, no code
  MaxPending,   \* bound on the pending files
  MaxTransfers, \* bound on the transfers started
  MaxAnswers,   \* bound on the answers "Encrypt Anyway" that are not used up
  Overlap       \* whether Send and Receive are clicked while a transfer is on,
                \* which nothing in the window prevents

Workers == 1..MaxTransfers
Invitation == 0  \* the code somebody gave this user; an upload yields its worker's
Codes == {Invitation} \cup Workers
Contents == {"mine", "theirs"}
Files == Contents \cup {"partial", None}
Recipients == {"none", "unverified", "verified"}

ASSUME GuiAssumption ==
  /\ MaxPending \in Nat /\ MaxTransfers \in Nat /\ MaxAnswers \in Nat
  /\ Overlap \in BOOLEAN
  /\ Paths \cap Accented = {}
  /\ None \notin Paths /\ None \notin Codes /\ None \notin Contents \cup {"partial"}

VARIABLES
  phase,       \* open, closing (the main loop ended) or closed
  pending,     \* pending_count
  archive,     \* whether an archive is open
  current,     \* current_archive_path
  relay,       \* relay_url: whether one is set
  recipient,   \* the key selected
  confirmed,   \* encrypt_confirmed
  dialogs,     \* show_encrypt_confirm, show_send_confirm
  job,         \* the encryption in progress: its path and the files left
  operating,   \* operation_active
  xfer,        \* the transfer_ fields
  thread,      \* transfer_thread: the worker it is the handle of, 0 for NULL
  worker,      \* the worker threads
  disk,        \* the files
  waiting,     \* whether the relay still holds what was sent to this user
  uploaded,    \* the paths of the files the relay stored, by code
  (*************************************************************************)
  (* Observability variables                                               *)
  (*************************************************************************)
  credit       \* answers "Encrypt Anyway" less encryptions to unverified keys

view == <<pending, archive, current>>
gate == <<recipient, confirmed, dialogs, credit>>
session == <<view, gate, job>>
transfer == <<xfer, thread, worker>>
outside == <<disk, waiting, uploaded>>
vars == <<phase, relay, session, operating, transfer, outside>>

NoJob == [path |-> None, left |-> 0]
NoTransfer ==
  [kind |-> "upload", path |-> None, code |-> None, done |-> FALSE,
   status |-> "ok", cancel |-> FALSE, active |-> FALSE]
NoWorker == [pc |-> "none", path |-> None]

Kinds == {"upload", "download"}
Results == {"ok", "unopened", "failed", "canceled"}
WorkerStates ==
  {NoWorker}
  \cup [pc : {"ready", "leaving", "over"}, path : Paths]
  \cup [pc : {"sending"}, path : Paths, url : BOOLEAN]
  \cup [pc : {"receiving"}, path : Paths, code : Codes \cup {None}, url : BOOLEAN]
  \cup [pc : {"cleaning"}, path : Paths, result : {"failed", "canceled"}]
  \cup [pc : {"reporting"}, path : Paths, result : Results]

TypeOK ==
  /\ phase \in {"open", "closing", "closed"}
  /\ pending \in 0..MaxPending /\ archive \in BOOLEAN /\ current \in Paths \cup {None}
  /\ relay \in BOOLEAN /\ recipient \in Recipients /\ confirmed \in BOOLEAN
  /\ dialogs \subseteq {"encrypt", "send"} /\ credit \in Int
  /\ job \in [path : Paths \cup {None}, left : Nat] /\ operating \in BOOLEAN
  /\ xfer \in [kind : Kinds, path : Paths \cup {None}, code : Codes \cup {None}, done : BOOLEAN,
               status : Results, cancel : BOOLEAN, active : BOOLEAN]
  /\ thread \in Workers \cup {0} /\ worker \in [Workers -> WorkerStates]
  /\ disk \in [Paths -> Files] /\ waiting \in BOOLEAN
  /\ uploaded \in [Workers -> Paths \cup {None}]

\* relay_url_load: relay.txt may be there or not.
LoadRelayUrl == relay \in BOOLEAN

\* gui_init: no file is pending, the first key is selected if there is one.
Init ==
  /\ phase = "open"
  /\ pending = 0 /\ archive = FALSE /\ current = None
  /\ recipient \in Recipients
  /\ confirmed = FALSE /\ dialogs = {} /\ job = NoJob /\ operating = FALSE
  /\ xfer = NoTransfer /\ thread = 0 /\ worker = [i \in Workers |-> NoWorker]
  /\ disk \in [Paths -> {"mine", None}]
  /\ waiting = TRUE /\ uploaded = [i \in Workers |-> None]
  /\ LoadRelayUrl
  /\ credit = 0

(***************************************************************************)
(* The session: pending files, the archive, the selected key.                *)
(***************************************************************************)
\* The dialogs over the archives on disk, all in one folder.
Folders == {"home", "accented"}
SaveDialog == {a.path : a \in SaveFileDialog([p \in Paths |-> "home"], Folders)}
OpenDialog == {a.path : a \in OpenFileDialog(Paths, {p \in Paths : disk[p] # None})}

\* add_pending_path: one file, or all files below a folder.
AddPending(n) ==
  /\ pending + n <= MaxPending
  /\ pending' = pending + n
  /\ UNCHANGED <<archive, current, gate, job, operating, transfer, outside>>

\* action_add_files takes what is chosen without a look at it.
UserFiles == {"plain", "accented"}
AddFiles ==
  \E chosen \in OpenFilesDialog(UserFiles, UserFiles) : AddPending(Cardinality(chosen))

\* A folder that stat does not find is taken for a file.
AddFolder ==
  \E d \in SelectFolderDialog(Folders) :
    \E n \in (IF d.readable THEN 0..MaxPending ELSE {1}) : AddPending(n)

DropFiles == \E n \in 0..MaxPending : AddPending(n)

\* draw_file_list: the rows of an archive hide the pending files.  A click
\* selects any row shown, and the menu and the keys go by the selection.
PendingShown == IF archive THEN {} ELSE 1..pending

RemovePending ==
  /\ PendingShown # {}
  /\ pending' = pending - 1
  /\ UNCHANGED <<archive, current, gate, job, operating, transfer, outside>>

\* Remove in the context menu, and the delete key.
RemoveInMenu == RemovePending
DeleteKey == dialogs = {} /\ ~operating /\ RemovePending

NewArchive ==
  /\ pending' = 0 /\ archive' = FALSE /\ current' = None
  /\ UNCHANGED <<gate, job, operating, transfer, outside>>

\* kyber_archive_open into ctx->archive: a file cut short may still have its
\* header, one that was received may be anything.  A failure leaves the path of
\* the archive that was open.
ShowArchive(p) ==
  \/ /\ disk[p] # None
     /\ archive' = TRUE /\ current' = p
  \/ /\ disk[p] # "mine"
     /\ archive' = FALSE /\ UNCHANGED current

OpenArchive(p) ==
  /\ p \in OpenDialog
  /\ ShowArchive(p)
  /\ pending' = 0
  /\ UNCHANGED <<gate, job, operating, transfer, outside>>

\* An archive dropped on the window leaves the pending files.
DropArchive(p) ==
  /\ ShowArchive(p)
  /\ UNCHANGED <<pending, gate, job, operating, transfer, outside>>

\* A click on a key, or on Generate, Import, Delete or Mark Verified.
SelectKey(r) ==
  /\ recipient' = r
  /\ UNCHANGED <<view, confirmed, dialogs, credit, job, operating, transfer, outside>>

(***************************************************************************)
(* Encrypting.                                                               *)
(***************************************************************************)
Alive(i) == worker[i].pc \notin {"none", "over"}

\* An archive is not written to a path while a download is written to it.
Free(p) ==
  /\ job.path # p
  /\ ~(xfer.active /\ xfer.kind = "download" /\ xfer.path = p)
  /\ ~\E i \in Workers : worker[i].pc \in {"receiving", "cleaning"} /\ worker[i].path = p

\* The end of action_encrypt: the user names no file, or it cannot be begun;
\* or it can.  An encryption that is on is dropped.
StartJob(p) ==
  \/ UNCHANGED <<job, operating, disk>>
  \/ /\ Free(p)
     /\ job' = [path |-> p, left |-> pending]
     /\ operating' = TRUE
     /\ disk' = [disk EXCEPT ![p] = "partial"]

\* Mutant of Warned: the user's answer is not taken back.
WarnedForGood(answered) ==
  /\ answered \/ recipient = "verified"
  /\ confirmed' = answered

\* The gate lets an encryption through.
Warned(answered) ==
  /\ answered \/ recipient = "verified"
  /\ confirmed' = FALSE

\* action_encrypt, with encrypt_confirmed as it is found.
EncryptWith(answered, p) ==
  \/ /\ pending = 0 \/ recipient = "none"
     /\ confirmed' = answered
     /\ UNCHANGED <<job, operating, disk>>
  \/ /\ pending # 0 /\ recipient # "none"
     /\ Warned(answered)
     /\ p \in SaveDialog
     /\ StartJob(p)

StartsUnverified == IF job' # job /\ recipient = "unverified" THEN 1 ELSE 0

Encrypt(p) ==
  /\ EncryptWith(confirmed, p)
  /\ credit' = credit - StartsUnverified
  /\ UNCHANGED <<view, recipient, dialogs, transfer, waiting, uploaded>>

\* The gate does not: the warning is shown.
EncryptWarns ==
  /\ pending # 0 /\ recipient = "unverified" /\ ~confirmed
  /\ dialogs' = dialogs \cup {"encrypt"}
  /\ UNCHANGED <<view, recipient, confirmed, credit, job, operating, transfer, outside>>

EncryptAnyway(p) ==
  /\ "encrypt" \in dialogs
  /\ credit < MaxAnswers
  /\ dialogs' = dialogs \ {"encrypt"}
  /\ EncryptWith(TRUE, p)
  /\ credit' = credit + 1 - StartsUnverified
  /\ UNCHANGED <<view, recipient, transfer, waiting, uploaded>>

\* Cancel, or Open Key Manager, in one of the two warnings.
Dismiss(d) ==
  /\ d \in dialogs
  /\ dialogs' = dialogs \ {d}
  /\ UNCHANGED <<view, recipient, confirmed, credit, job, operating, transfer, outside>>

\* update_encrypt: one file a frame.
EncryptFile ==
  /\ job # NoJob /\ job.left > 0
  /\ job' = [job EXCEPT !.left = @ - 1]
  /\ UNCHANGED <<view, gate, operating, transfer, outside>>

EncryptFails ==
  /\ job # NoJob
  /\ job' = NoJob
  /\ operating' = FALSE
  /\ UNCHANGED <<view, gate, transfer, outside>>

EncryptEnds ==
  /\ job # NoJob /\ job.left = 0
  /\ disk' = [disk EXCEPT ![job.path] = "mine"]
  /\ pending' = 0 /\ archive' = TRUE /\ current' = job.path
  /\ job' = NoJob
  /\ operating' = FALSE
  /\ UNCHANGED <<gate, transfer, waiting, uploaded>>

\* action_decrypt runs to its end in one frame, and takes the overlay away.
Decrypt ==
  /\ archive /\ recipient # "none"
  /\ SelectFolderDialog(Folders) # {}
  /\ operating' = FALSE
  /\ UNCHANGED <<session, transfer, outside>>

(***************************************************************************)
(* Transfers: the UI thread.                                                 *)
(***************************************************************************)
Engaged == xfer.active \/ \E i \in Workers : Alive(i)

\* Mutant of Reset: the done flag of the last transfer stays.
ResetKeepsDone(kind, p, c) ==
  [xfer EXCEPT !.kind = kind, !.path = p, !.code = c, !.status = "ok",
               !.cancel = FALSE, !.active = TRUE]

Reset(kind, p, c) ==
  [kind |-> kind, path |-> p, code |-> c, done |-> FALSE,
   status |-> "ok", cancel |-> FALSE, active |-> TRUE]

\* start_transfer: the handle of a worker still running is forgotten.
StartTransfer(kind, p, c) ==
  /\ Overlap \/ ~Engaged
  /\ \/ \E i \in Workers :
          /\ worker[i].pc = "none" /\ \A j \in 1..(i - 1) : worker[j].pc # "none"
          /\ xfer' = Reset(kind, p, c)
          /\ operating' = TRUE
          /\ worker' = [worker EXCEPT ![i] = [pc |-> "ready", path |-> p]]
          /\ thread' = i
     \/ /\ xfer' = [Reset(kind, p, c) EXCEPT !.active = FALSE]
        /\ operating' = FALSE
        /\ thread' = 0
        /\ UNCHANGED worker

\* The URL box of the receive dialog: also while a transfer is on.
EditRelayUrl ==
  /\ relay' \in BOOLEAN
  /\ UNCHANGED <<session, operating, transfer, outside>>

\* action_send: the current archive, or one the user picks.
SendPath(p) == relay /\ p \in (IF current # None THEN {current} ELSE OpenDialog)

Send(p) ==
  /\ SendPath(p)
  /\ recipient # "unverified"
  /\ StartTransfer("upload", p, xfer.code)
  /\ UNCHANGED <<session, outside>>

\* The path is set before the warning is shown.
SendWarns(p) ==
  /\ SendPath(p)
  /\ recipient = "unverified"
  /\ xfer' = [xfer EXCEPT !.path = p]
  /\ Overlap \/ ~Engaged
  /\ dialogs' = dialogs \cup {"send"}
  /\ UNCHANGED <<view, recipient, confirmed, credit, job>>
  /\ UNCHANGED <<operating, thread, worker, outside>>

\* The URL may be gone by now.
SendAnyway ==
  /\ "send" \in dialogs
  /\ dialogs' = dialogs \ {"send"}
  /\ StartTransfer("upload", xfer.path, xfer.code)
  /\ UNCHANGED <<view, recipient, confirmed, credit, job, outside>>

\* Download in the receive dialog.
Receive(p) ==
  /\ relay
  /\ p \in SaveDialog
  /\ Free(p)
  /\ StartTransfer("download", p, Invitation)
  /\ UNCHANGED <<session, outside>>

\* The button is there while the overlay is.
Cancel ==
  /\ operating /\ xfer.active /\ ~xfer.cancel
  /\ xfer' = [xfer EXCEPT !.cancel = TRUE]
  /\ UNCHANGED <<session, operating, thread, worker, outside>>

\* update_transfer once the worker is done: it waits for the thread it has.
Poll ==
  /\ xfer.active /\ xfer.done
  /\ thread # 0 => ~Alive(thread)
  /\ thread' = 0
  /\ xfer' = [xfer EXCEPT !.active = FALSE]
  /\ operating' = FALSE
  /\ IF xfer.status = "ok" /\ xfer.kind = "download" THEN ShowArchive(xfer.path)
     ELSE UNCHANGED <<archive, current>>
  /\ UNCHANGED <<pending, gate, job>>
  /\ UNCHANGED <<worker, outside>>

(***************************************************************************)
(* Transfers: transfer_worker, over transfer_upload and transfer_download.   *)
(***************************************************************************)
Moves(i, to) == worker' = [worker EXCEPT ![i] = to]
Ends(i, result) == Moves(i, [pc |-> "reporting", path |-> worker[i].path, result |-> result])

\* build_url: of no base, an address no relay is at.
BuildUrl == relay

\* The worker reads URL, kind, path and code now, and keeps pointers to the
\* last two.
BeginUpload(i) ==
  /\ worker[i].pc = "ready" /\ xfer.kind = "upload"
  /\ xfer' = [xfer EXCEPT !.code = None]
  /\ \/ Ends(i, "unopened")
     \/ disk[xfer.path] # None /\ Moves(i, [pc |-> "sending", path |-> xfer.path, url |-> BuildUrl])
  /\ UNCHANGED outside

BeginDownload(i) ==
  /\ worker[i].pc = "ready" /\ xfer.kind = "download"
  /\ \/ Ends(i, "unopened") /\ UNCHANGED disk
     \/ /\ Moves(i, [pc |-> "receiving", path |-> xfer.path, code |-> xfer.code, url |-> BuildUrl])
        /\ disk' = [disk EXCEPT ![xfer.path] = "partial"]
  /\ UNCHANGED <<xfer, waiting, uploaded>>

\* Any transfer may fail; one whose cancel flag is seen is aborted.
Failure == {"failed"} \cup (IF xfer.cancel THEN {"canceled"} ELSE {})

Store(i) ==
  /\ worker[i].url
  /\ disk[worker[i].path] # None
  /\ uploaded' = [uploaded EXCEPT ![i] = worker[i].path]

Upload(i) ==
  /\ worker[i].pc = "sending"
  /\ Store(i)
  /\ xfer' = [xfer EXCEPT !.code = i]
  /\ Ends(i, "ok")
  /\ UNCHANGED <<disk, waiting>>

\* The relay may have stored what it got; its answer is lost, or no code.
UploadFails(i) ==
  /\ worker[i].pc = "sending"
  /\ Store(i) \/ UNCHANGED uploaded
  /\ \E result \in Failure : Ends(i, result)
  /\ UNCHANGED <<xfer, disk, waiting>>

Download(i) ==
  /\ worker[i].pc = "receiving"
  /\ worker[i].url /\ worker[i].code = Invitation /\ waiting
  /\ disk' = [disk EXCEPT ![worker[i].path] = "theirs"]
  /\ waiting' = FALSE
  /\ Ends(i, "ok")
  /\ UNCHANGED <<xfer, uploaded>>

\* The relay gives a blob away once, whether or not it arrives.
DownloadFails(i) ==
  /\ worker[i].pc = "receiving"
  /\ (worker[i].url /\ worker[i].code = Invitation /\ waiting' = FALSE) \/ UNCHANGED waiting
  /\ \E result \in Failure :
       Moves(i, [pc |-> "cleaning", path |-> worker[i].path, result |-> result])
  /\ UNCHANGED <<xfer, disk, uploaded>>

\* Mutant of CleanUp: what has arrived so far stays.
CleanUpNothing(i) ==
  /\ worker[i].pc = "cleaning"
  /\ Ends(i, worker[i].result)
  /\ UNCHANGED <<xfer, outside>>

\* remove(out_path): out_path points to transfer_path, as it is now.
CleanUp(i) ==
  /\ worker[i].pc = "cleaning"
  /\ disk' = [disk EXCEPT ![xfer.path] = None]
  /\ Ends(i, worker[i].result)
  /\ UNCHANGED <<xfer, waiting, uploaded>>

\* Mutant of Report: the flag is up before the status is there.
ReportDoneFirst(i) ==
  /\ worker[i].pc = "reporting"
  /\ xfer' = [xfer EXCEPT !.done = TRUE]
  /\ Moves(i, [worker[i] EXCEPT !.pc = "over"])
  /\ UNCHANGED outside

Report(i) ==
  /\ worker[i].pc = "reporting"
  /\ xfer' = [xfer EXCEPT !.status = worker[i].result]
  /\ Moves(i, [pc |-> "leaving", path |-> worker[i].path])
  /\ UNCHANGED outside

\* Mutant of Leave: a worker that was cancelled ends without a word.
LeaveSilently(i) ==
  /\ worker[i].pc = "leaving"
  /\ xfer' = [xfer EXCEPT !.done = xfer.status # "canceled"]
  /\ Moves(i, [pc |-> "over", path |-> worker[i].path])
  /\ UNCHANGED outside

Leave(i) ==
  /\ worker[i].pc = "leaving"
  /\ xfer' = [xfer EXCEPT !.done = TRUE]
  /\ Moves(i, [pc |-> "over", path |-> worker[i].path])
  /\ UNCHANGED outside

Work(i) ==
  /\ \/ BeginUpload(i) \/ BeginDownload(i)
     \/ Upload(i) \/ UploadFails(i) \/ Download(i) \/ DownloadFails(i)
     \/ CleanUp(i) \/ Report(i) \/ Leave(i)
  /\ UNCHANGED <<phase, relay, session, operating, thread>>

(***************************************************************************)
(* The main loop, and its end.                                               *)
(***************************************************************************)
Toolbar ==
  \/ NewArchive \/ AddFiles \/ AddFolder \/ EncryptWarns \/ Decrypt
  \/ \E p \in Paths : OpenArchive(p) \/ Encrypt(p) \/ Send(p) \/ SendWarns(p)

DialogButtons ==
  \/ RemoveInMenu \/ SendAnyway \/ Cancel
  \/ \E p \in Paths : EncryptAnyway(p) \/ Receive(p)
  \/ \E d \in {"encrypt", "send"} : Dismiss(d)

\* gui_draw: what can be clicked.
Click == Toolbar \/ DialogButtons \/ \E r \in Recipients : SelectKey(r)

\* gui_update.
Input == DropFiles \/ DeleteKey \/ \E p \in Paths : DropArchive(p)
Frame == Input \/ EncryptFile \/ EncryptFails \/ EncryptEnds \/ Poll

\* Mutant of Shutdown: only a transfer that is not being cancelled is waited for.
ShutdownUnwaited ==
  /\ phase = "closing"
  /\ thread # 0 => xfer.cancel \/ ~Alive(thread)
  /\ phase' = "closed" /\ thread' = 0
  /\ UNCHANGED <<relay, session, operating, xfer, worker, outside>>

\* gui_shutdown waits for the worker it has a handle of.
Shutdown ==
  /\ phase = "closing"
  /\ thread # 0 => ~Alive(thread)
  /\ phase' = "closed" /\ thread' = 0
  /\ UNCHANGED <<relay, session, operating, xfer, worker, outside>>

CloseWindow ==
  /\ phase = "open"
  /\ phase' = "closing"
  /\ UNCHANGED <<relay, session, operating, transfer, outside>>

Open == phase = "open" /\ UNCHANGED <<phase, relay>>

Next ==
  \/ Open /\ Click
  \/ Open /\ Frame
  \/ phase = "open" /\ EditRelayUrl /\ UNCHANGED phase
  \/ phase # "closed" /\ \E i \in Workers : Work(i)
  \/ CloseWindow \/ Shutdown

Spec == Init /\ [][Next]_vars

\* Frames go on while the window is open, and each looks at the transfer; the
\* worker runs; curl asks the progress callback again and again, so that a
\* cancelled transfer ends, but waits forever for a relay that is silent.
Fairness ==
  /\ WF_vars(Open /\ Poll)
  /\ WF_vars(Shutdown)
  /\ \A i \in Workers :
       WF_vars(phase # "closed" /\ (worker[i].pc \in {"sending", "receiving"} => xfer.cancel) /\ Work(i))

FairSpec == Spec /\ Fairness

(***************************************************************************)
(* Properties.                                                               *)
(***************************************************************************)
\* Every encryption to a key that is not verified used up an answer "Encrypt
\* Anyway" of its own, whatever was clicked between the warning and the answer.
\* (It may be an answer to a warning long past that started nothing.)
OneAnswerEach == credit >= 0

\* What the window says of a transfer that ended with this result is so: the
\* code shown with "Sent!" is one under which the relay stored the file chosen; a
\* file received is whole; the file of a download that failed or was cancelled is
\* gone.
ResultTrue(result) ==
  IF xfer.kind = "upload"
  THEN result = "ok" => xfer.code \in Workers /\ uploaded[xfer.code] = xfer.path
  ELSE /\ result = "ok" => disk[xfer.path] = "theirs"
       /\ result \in {"failed", "canceled"} => disk[xfer.path] = None

\* Unless clicks set up another transfer while one is on, what update_transfer
\* goes by once the done flag is up is so.
VerdictTrue == ~Overlap /\ xfer.active /\ xfer.done => ResultTrue(xfer.status)

\* Under the same condition, the window does not go while a worker still uses
\* its memory.
ShutdownWaits ==
  ~Overlap /\ phase = "closed" => ~\E i \in Workers : Alive(i)

\* A transfer the user cancelled ends, also when the relay has gone silent.
CancelEnds ==
  (xfer.active /\ xfer.cancel) ~> (phase = "closed" \/ ~(xfer.active /\ xfer.cancel))

\* "On failure, don't leave a partial/empty output file behind": a download that
\* failed and cleaned up leaves nothing at the path it was writing to.
FailureLeavesNothing ==
  \A i \in Workers :
    worker[i].pc = "reporting" /\ worker[i].result \in {"failed", "canceled"} =>
      disk[worker[i].path] # "partial"

-----------------------------------------------------------------------------
(* The inductive invariant the proofs rest on (GuiProofs). *)

\* An answer that is not used up yet still counts.
AnswerAtHand == credit >= IF confirmed THEN 1 ELSE 0

\* A transfer that is on, or that a warning is about, has a path.
PathKnown ==
  xfer.path = None =>
    ~xfer.active /\ "send" \notin dialogs /\ \A i \in Workers : worker[i] = NoWorker

\* With one transfer at a time, a worker that runs is the one the window waits
\* for, works on what transfer_path still says, and reports what it did.
OneWorker ==
  \A i \in Workers : Alive(i) =>
    /\ thread = i /\ xfer.active /\ ~xfer.done /\ phase # "closed"
    /\ worker[i].path = xfer.path
    /\ worker[i].pc = "sending" => xfer.kind = "upload"
    /\ worker[i].pc \in {"receiving", "cleaning"} => xfer.kind = "download"
    /\ worker[i].pc = "reporting" => ResultTrue(worker[i].result)
    /\ worker[i].pc = "leaving" => ResultTrue(xfer.status)

\* No archive is written where a download goes.
Apart == xfer.active /\ xfer.kind = "download" => job.path # xfer.path

IInv ==
  /\ TypeOK
  /\ AnswerAtHand
  /\ PathKnown
  /\ ~Overlap => OneWorker /\ Apart
  /\ VerdictTrue
=============================================================================
