# KyberRelay: specifications, model checking and proofs

TLA+ modules for the parts of KyberRelay where something can go wrong that a
test would hardly reach: processes and handlers that interleave on files with
few locks, loops that are killed anywhere, answers that get lost.  The modules
are translated from the code; `PROJECT.json` maps each definition to its lines.

Contents: 1 inventory; 2 modules and the code; 3 runs; 4 bounds; 5 fairness;
6 proofs; 7 what the models leave out; 8 observations; 9 plan.

## 1. Inventory

| Part (source) | State it keeps | Operations | Interacts with | Hard behaviour | Correct when |
|---|---|---|---|---|---|
| Relay blob service (`relay/main.go`) | one data directory: temp files, blobs, claimed files, their ages | upload, download, sweep | HTTP clients; the file system, no lock | handlers and the sweeper race on rename and unlink; crash anywhere | a blob has one winner, is served whole, and nothing stays for ever |
| Relay rate limiter (`relay/ratelimit.go`) | timestamps per client, time of the last gc | `allow`, `gc` | upload handler | the clock is read before the mutex is taken | a cap per window, no refusal without cause, a map that forgets the idle |
| Transfer client (`src/transfer.c`) | none | `transfer_upload`, `transfer_download` | relay over HTTP | an error may hide that the relay did its part | the outcome tells the caller what to do next |
| CLI watchers (`src/cli.c`) | outbox, `sent/`, `sent-log.jsonl`; codes file, set of handled codes, `received-log.jsonl`, inbox | scan, settle, archive, upload, move, log; read, download, unpack, log | transfer client, archive, keystore, users editing the same directories | kill between any two steps, files changed while they are sent | no document is lost, the logs are true, one verdict per code |
| CLI one-shot commands (`src/cli.c`) | none | keygen, keys, verify, pack, unpack, list, recv | keystore, archive, transfer client, beside the window and the watchers | each is one more program on the same files | straight-line use of the parts |
| Keystore (`src/keystore.c`) | key file, list of verified fingerprints, a copy of both in each program | load, generate, import, export, remove, save, verify | CLI and GUI, each with its own copy of the file | two writers, a save that truncates first, copies that are stale, keys of one name | only confirmed keys are trusted; a key is lost only to a named cause; arrays never overflow |
| Archive format (`src/archive.c`, `src/compress.c`) | a container file; the handle of a writer or a reader | write (at once, a file a frame), open, unlock, extract | CLI, GUI, crypto wrappers | packing that stops half-way, files that change or go, an archive overwritten while it is open | what unlocks is whole; what is extracted is what was packed under that name, or an error |
| GUI (`src/gui.c`) | one `GuiContext`: pending files, archive, selected key, an encryption in progress, the transfer fields | buttons, drops, keys, dialogs; one step of an encryption a frame; send, receive, cancel | keystore, archive, file dialogs, transfer client on a worker thread | worker and UI share plain fields; buttons stay live behind dialogs | what it says of a transfer is so; every unverified encryption was answered for; it does not go before its worker |
| File dialogs (`lib/tinyfiledialogs`) | none | save, open, open several, select a folder | GUI | answers in another encoding than its callers read; what is listed may be gone | answers name what is there |
| Web accounts (`web/accounts*.go`, `session.go`, `twofa_handlers.go`, `totp.go`, `apikeys.go`) | user record (password, 2FA), sessions and pending logins in memory, API keys on disk | log in, change password, enrol and disable 2FA, issue and revoke keys | every other web part | handlers hold what they read while others write | a change ends what was issued before it; codes count once |
| Web inbox (`web/accounts.go`, `accounts_handlers.go`) | a blob and a metadata file per message | send, read, burn, delete, list, sweep | accounts, stream | two files, no lock, restarts | a message stays until it may go, and then goes for good |
| Web teams (`web/teams.go`, `team_handlers.go`) | team records; a link in each user record | create, invite, remove, leave | accounts, plans | the two records are changed one after the other | seats bound the members; the records agree |
| Web audit log (`web/audit.go`) | chained log file, head file, head in memory | log, resume, verify | every handler | crash between entry and head, half-written lines | an undamaged log verifies, a damaged one does not |
| Web stream (`web/stream.go`) | chunk counter and buffer | seal, read | inbox | truncation, reordering | the reader accepts exactly what was sealed |
| Web login guard (`web/security.go`) | failures per key | check, record | login handlers | concurrent attempts | lock-out after too many |
| Web billing (`web/billing*.go`, `plans.go`) | plan fields of the user | checkout, portal, webhook | Stripe | webhooks in any order, repeated | the plan is what was paid for |
| Web anonymous store, contact form, templates, deployment | files | | | none | not modelled |
| Crypto wrappers (`src/crypto.c`) | none | key generation, encapsulation, key derivation, sealing, fingerprints | archive, keystore | none | ideal operators |
| Other vendored code (`lib/`) | none | | | none | not modelled |

`PROJECT.json` lists the same parts with their status, and the hazards at the
lines where they bite.

## 2. Modules and the code

**OneTimeMailbox** is the abstract specification: a slot is empty, held, or
closed; one reader may take what is held, and a taken or closed slot never
opens again.

**Relay** is `relay/main.go` in detail.  The directory entry of each upload's
file is one of temp, blob, claimed, none (`at`), with the chunks written so far
and its age.  A handler is a sequence of actions, one per system call others can
see: `UploadBegin`, `UploadChunk`, `UploadClose`, `UploadRename`, `UploadReply`;
`DownloadClaim` (the rename), `DownloadOpen`, `DownloadCopy`, `DownloadRemove`
(the deferred remove).  `SweepStart` reads the directory and fixes the cutoff,
`SweepStat` and `SweepRemove` look at one file and remove *the name* they looked
at, which others may have changed.  `Crash` loses every handler and keeps the
directory.  `ImplementsMailbox` refines OneTimeMailbox: a slot is held while the
file has the blob's name.

**RateLimiter** is `relay/ratelimit.go`: `Arrive` reads the clock, `Decide` is
the critical section, gc included.

**ClaimStore** is the relay as the watchers see it: `Put`, `Take`, `Missing`,
`Expire`, and the log line by the token the receiver finds in it (`LineToken`):
a file called `code` puts its own name before the code.  `ImplementsStore` and
`AnswersAsStore` in Relay say that it is the same relay.  **SendWatch** is
`cli_watch` with the users who save and withdraw files: `Scan`, `Skip`,
`Archive`, `Upload`, `Move`, `Log`, an action for each way these fail, and
`KillSender`.  **RecvWatch** is `cli_recv_watch`: a pass over the codes file, a
download by its outcome, `Unpack`, `LogVerdict`, `KillReceiver`, after which the
set of handled codes is read back from the log (`ReadBack`: a logged word ends at
its first quote), and `RecvOnce`, the one-shot command beside the loop.  **WatchPipeline** composes the two: the receiver's
codes file is the sender's log.

**Teams** is `web/team_handlers.go`: each handler is its check, then one action
per record it changes (`Reserve`, `LinkMember`, `Unreserve`; `Drop`, `Unlink`;
`CreateTeam`, `LinkOwner`, `UndoCreate`), and handlers interleave between them.

**Accounts** is the credentials of one account: the record with its password and
2FA fields, sessions, pending logins, keys.  `Login` is the load and the password
check; `IssueSession` comes later, when other handlers may have run.
`ChangeAuth`, `ChangeSave`, `RevokeAll`, `DestroyUser` are a password change.
`ConsumeTOTP` and `ConsumeRecovery` are the locked read-and-update of the record.

**Inbox** is one recipient's messages as the two files each of them has: an
upload writes a temporary blob, renames it, checks the quota and writes the
metadata; a download reads the metadata and opens the blob; a deletion removes
the blob, then the metadata.  The sweep goes over the metadata files.

**AuditLog** is `web/audit.go`: an entry may be appended whole or half, then the
counter moves on, then the head is written, which may fail; `AuditRestart`
resumes from the file; `Garble`, `LoseLine` and `LoseTail` damage it.  `Verifies` is
what `verify` computes.

**Keystore** is `src/keystore.c` as several programs use it.  `file` is the key
file as a count and the entries behind it, `mem` the copy each program loaded
(`Start`, or `StartUnreadable` for a window, which goes on with what it could
read, and with no marks).  A save is two steps: `BeginSave` truncates the file,
`EndSave` leaves it whole, `CutSave` leaves any part of it; a program that starts
in between reads such a part (`Seen`).  Saves of several programs may overlap, each
writing at its own place in the file: what they then leave or show is a mixture
(`written`, `Mixed`).  `SaveRefused` is a file that cannot be opened, which a
command reports and a window ignores.  `Generate`, `Import`, `RemoveLabel`,
`Delete`, `Export`, `Mark` and `Verify` are what commands and buttons do with
the copy.  A fingerprint stands for its key.

**Archive** is `src/archive.c` over ideal encryption: an archive on disk is a
sequence of blocks (header, contents, tag of the table, rows).  `Begin`,
`PackFile`, `Finish` are the calls of the incremental writer, which the
one-call writer makes in a row; `PackMissing`, `Cut`, `FinishUnflushed` are its
ends half-way.  `Open` reads the header and the tag of the table, counted from
the end of the file; `Unlock` the rows; `ExtractFile` opens the path anew for
each entry, whatever is there by then, and writes over what the folder has under
that name; `ExtractCut` and `ExtractUnflushed` leave a beginning of it, with an
error and without.

**Dialogs** is what the file dialogs of `lib/tinyfiledialogs` may answer: a path
that is there (or, to save, whose folder is), and whether its caller can open
it.  Keystore and Gui take their paths from it.

**Gui** is the window: one frame is one of `Frame` (`gui_update`) or `Click`
(`gui_draw`), and `Work` is the thread of `transfer_worker`, which shares the
transfer fields (`xfer`) with the frames.  The warning before an unverified
encryption is `EncryptWarns`, the answer `EncryptAnyway`, and the flag it sets
is taken back by `Warned`.  `StartTransfer`, `Cancel`, `Poll` are the UI side of
a transfer; `BeginUpload` to `Leave` the worker's, with its status and its done
flag written one after the other, and its paths pointers into the shared fields.
Archive and Keystore have the detail of what Gui keeps as one bit.

`MCRelay`, `MCRateLimiter`, `MCTeams`, `MCAccounts` and `MCArchive` define
symmetry for TLC; `MCArchive`, `MCKeystore` and `MCWatchPipeline` the values of
constants that are records, sequences, functions or operators.  History variables are declared apart from
the variables of the code, as observability variables.

## 3. Runs

| Run | Checks | Shows |
|---|---|---|
| relay | `OneTime`, `NeverHalfWritten`, `Accounted`, `WinnerServed`, `KeepsUntilTTL`, `NothingLingers`, `ImplementsMailbox` | Two uploads, two downloads, the sweeper and a crash: one winner per blob, who finds it unless it is overdue, whole blobs, a blob that goes away was claimed or outlived its TTL, everything goes in the end. |
| limiter_lag | `WindowCap`, `RefusedForCause`, `MapIsRecent` | Requests are decided in an order other than that of their timestamps; the cap holds for a window shortened by the longest wait for the mutex. |
| watch_safety | `OriginalsKept`, `LogIsReal`, `OneVerdict`, `NoSilentLoss` | Edits, refused uploads, lost answers, failed moves, broken downloads, a one-shot `recv`, a kill of each watcher, a word in the codes file that is no code. |
| watch_delivers | `Delivers` | With failures that pass, every document left in the outbox reaches the inbox, unless its file is called `code`. |
| teams | `SeatBound`, `NoDangling`, `OwnerSeated`, `RecordsAgree` | Three handlers at a time and a restart: seats are bounded, no link dangles, owners keep their seat, and only users two handlers worked on at once, or whose handler was cut short, have records that disagree. |
| accounts | `ChangeEndsOld`, `CodesSpent`, `RecoverySpent`, `EnabledIsConfirmed` | Two handlers at a time on one account: a completed password change leaves no older session or key, TOTP and recovery codes count once, 2FA is on only for a secret whose code was shown. |
| inbox | `Available`, `GoneForGood`, `NothingLingers` | A sent message can be downloaded until it was delivered, deleted or expired; one that is gone does not come back; in the end nothing of it is left. |
| audit | `UndamagedVerifies`, `GarblingDetected`, `LostTailDetected` | Torn lines, restarts, unwritten heads and damage: `verify` accepts an undamaged log, never one with a changed or missing line, and notices a lost tail until the log goes on from what was left. |
| keystore | `TypeOK`, `TrustIsConfirmed`, `SecretsKept` | A window and a command on one key file, with a genuine and a false key of one name: the false one is never trusted, a private key goes only by a delete, a cut save, saves at one time or the save of a stale copy, arrays stay within their ends. |
| archive | `CompleteOrRefused`, `AnnouncedOpens`, `NeverWrongBytes` | A window and a command pack, stop half-way, overwrite, open, unlock and extract at one path: what unlocks is whole, what was announced unlocks, and what is extracted is what was packed under that name or, where the write was cut, a beginning of it. |
| gui | `OneAnswerEach`, `VerdictTrue`, `ShutdownWaits`, `CancelEnds` | Frames and worker interleave, one transfer at a time: what the window says of a transfer is so, each unverified encryption used up an answer, a cancelled transfer ends even when the relay is silent, the window outlives its worker. |
| gui_overlap | `FailureLeavesNothing` (violated) | A Send while a download is on redirects the clean-up of the download: its partial file stays and the archive about to be sent is removed, against the comment at `src/transfer.c:230`. |

Each property of a passing run has a mutant in its module (`\* Mutant of ...`):
a plausible slip in the code that the run finds.

## 4. Bounds

- *relay*: two uploads and two downloads suffice for every race over one code and
  for a second code to interfere; one chunk tells written from unwritten; TTL 1
  tells young, due and overdue; one crash leaves each kind of file behind, and a
  second adds nothing the leftovers of the first do not show.  The proofs are for
  any number of each.
- *limiter_lag*: limit 2 and window 3 with five requests of two clients; lag 1 is
  the least that reorders; six ticks are two windows, so that gc runs twice.
- *watch_safety*: one file in two versions is what an edit during an upload
  needs; two codes let one document be stored twice; one word in the codes file
  that is no code, too long for the set of handled codes, and holds a code before
  a quote, so that each of the three cases set apart happens.  *watch_delivers*:
  two files, of which one is called `code`, and scans that list one at a time, so
  that one has to wait.
- *teams*: two teams, three users, three handlers in flight, teams of two seats: the
  least where the last seat is contended and a user is wanted by two teams.
- *accounts*: two password changes, two secrets, two sets of codes, three TOTP
  periods, two handlers.  The second change is needed to see credentials of the
  first's aftermath outlive it.
- *inbox*: two messages, two handlers, the sweeper, a restart.
- *audit*: four entries, two damages: the least at which a line in the middle and
  the tail both go.
- *keystore*: a window and a command, one name with three keys (the user's own, a
  genuine and a false one), two slots for keys and one for marks, so that both
  arrays fill up, and one line more in `verified.txt` than a program reads.  Parts
  of several entries may read as one of the false key (`Torn`).
- *archive*: two archives at one path, so that the second overwrites the first
  while it is open; one file, or two of one name; an empty and two other
  contents; two keys of one parameter set (with one of another `Unlock` changes
  nothing); a level per program.
- *gui*: one path, one pending file, one answer at hand and two transfers: the
  second starts over what the first left in the shared fields.  It has no clicks
  that start a transfer while one is on (`Overlap`): *gui_overlap* has them, with
  two paths, and shows what they lead to.

Every bound is a CONSTANT; the ones named `Max...` cap counters that only grow.

## 5. Fairness

- *relay*: time passes and the sweeper goroutine keeps running
  (`sweepLoop` is an endless loop over a ticker).  Nothing is assumed of clients,
  nor of the handlers, which wait for clients.
- *watch_delivers*: both loops run (they only end by being killed, and this run
  kills none), a file left alone settles, and an upload or a download that is
  tried again and again is once not interrupted (strong fairness: the environment
  interrupts it in between).  Users are under no obligation.
- *gui*: frames go on while the window is open, and each looks at the transfer
  (`gui_run`); a window that is closing shuts down; the worker thread runs, but a
  transfer goes on for ever unless it is cancelled, since no time limit is set
  and only the progress call looks at the flag.
- *inbox*: time passes, the sweep comes round to each message (strong fairness:
  it is busy with the others in between), and a deletion the sweep
  has begun goes on unless the server stops.  Nothing is assumed of senders and
  readers: the server sets no time limit on a body.

## 6. Proofs

TLAPS checks the theorems below for all values of the constants, from the named
ASSUMEs of the modules.

**RelayProofs**.  `IInv` is `TypeOK` with `NamesTellState` (what the name of a
file says about its upload), `WonIsTaken` (a won code was handed out and its blob
is no longer under it), `OneTime`, `TakenOrExpired`, and `SweepMemory` (what the
sweeper remembers of a published blob stays true: it only grows older).  The last
is why removing a name looked at earlier is harmless, and the claim is a rename,
which is why `OneTime` is preserved.  `NeverHalfWritten`, `Accounted`,
`KeepsUntilTTL` follow; `WinnerServed` with `ClaimStands`, that what a request
claimed is there or overdue, from `OneTime` and `SweepMemory`; `RelayImplementsMailbox` maps each action to a step of the
mailbox or a stutter.  By way of the mailbox, `RelayImplementsStore` shows that
the store the watchers' modules are about does what the relay does, and
`RelayAnswersAsStore` that a 404, which a watcher takes as final, is only sent when
there is no blob: what WatchProofs says of the watchers is thereby about this
relay.

For the rate limiter, in the same module, `Remembered`: a request that was let
through is in `hits` until the clock is past its window, whatever late requests
decided meanwhile; `StampsInOrder`: waiting requests are at most `MaxLag` old.
Together they bound what a `Decide` may miss, and `WindowCap` follows by counting.

**WatchProofs**.  `SendIInv`: every owed document is in the outbox or in
`sent/`, every logged code holds the document it is logged for, each once, and the
code at hand is stored but not logged.  The pipeline's `IInv` adds the receiver:
it is at a token it had not handled when it read it (`AtUnhandled`), the set of
handled codes contains what is logged, but for tokens too long for its slots or
with a quote (`Lasting`, `LoggedIsRemembered`), and what was handled was stored, and
is delivered or logged as failed, or stands before the quote of a logged word, which
a restart takes for it (`Mistaken`, `HandledIsAccounted`).  That blobs never change and lines never
go makes this stable under the sender and the users.  `NoSilentLoss` is
proved on the condition that the log can be opened: `append_recv_log` returns
without a word when it cannot.  The run makes the same choice of faults.

**TeamsProofs**.  `IInv` adds to the four properties: a team being created is
known to its creator's request only, which may still delete it (`Private`); the
team at hand of any other request is there to stay and its owner is linked to it
(`InUse`); and a user on whom one request works has records that agree, except on
the team at hand between the two updates (`Midway`).  Without `Private`, undoing a
creation could leave a user linked to a deleted team; without `InUse`, an owner
could lose the seat.  The lemmas `Bystanders` and `Others` say once what a step of
one request leaves alone; each handler step then has its own lemma.

**InboxProofs**.  `IInv` says that before its metadata is written only its upload
knows of a message (`Uploading`), that an upload about to answer has put it in the
inbox (`Arrived`), and that a handler only removes what was to go, the blob first
(`Removing`).  `Available` and `GoneForGood` are inductive with these.

**WebProofs**.  For Accounts, `IInv` adds to the four properties what a password
change in flight has done so far (`ChangeInFlight`): it ends credentials of a
password the record has held, and once it has emptied the keys only keys of that
password or a newer one come back, which is what could break `ChangeEndsOld`.  `CodesAreDrawn`
and `SecondStepHasSecret` say that a set of codes or a secret drawn later is a
new one.  For AuditLog, everything is about a log without a half-written line:
lines are in order, numbers only ever skipped (`LinesInOrder`); the auditor's
number is that of the last line, or beyond the lines left after a loss
(`GoesOnFromLast`, `GoesOnBehindGap`); the head agrees or points beyond
(`HeadStands`); and damage leaves a line that does not hash or a number above its
place (`DamageShows`), which is why it shows for good.

**KeystoreProofs**.  `IInv` adds to `TypeOK` that the key file never holds more
entries than an array takes, nor does what programs that are saving may have
written to it, and that every mark, on disk or in a program, is of a genuine key
(`Confirmed`).  The first is needed because what one program writes another reads,
mixtures included (`MixedFits`); the second makes `TrustIsConfirmed` independent
of names, order, programs and of what the key file was read as.  `LoadedSafe`,
`StoreSafe`, `SavedSafe`, `MarkSafe` take the steps that load, begin a save, end
it and mark, for every command and button that makes them.  For `SecretsKept`,
`CopiesKeep` says that a program that may be the next to end a save, with no other
save on (`Alone`), has every kept secret in its copy unless that copy is stale:
a program that starts during a save may read half a file, but the end of that
save makes it stale, or cuts the file and ends every promise.  A save that
overlapped another ends every promise too, and one that did not (`Unmixed`)
leaves what its program holds.  `WritersSave` is why a program that starts while
nobody saves reads the file as it was left.

**ArchiveProofs**.  `ImageTrue` says of an image on disk that it has a table only
behind every block the rows of the table point at, and only of an archive whose
sources were all read: this stays true of every part of the image a cut may leave,
which is why a cut is refused and `CompleteOrRefused` holds.  `WriterTrue` ties
what a writer remembers to the image so far, which has no table and is promised to
nobody; `OwnPaths` keeps writers apart.  `ReaderTrue` is about what a handle
remembers and not about the file, which others may have overwritten or cut: its
rows, of whatever unlock, are of the archive in its header, and the contents they
speak of change no more once read.  Each row carries the tag its content is opened
with, so `NeverWrongBytes` follows for a whole write, and for what a cut one
leaves (`WritesStep`).  `WritingEnds` is the lemma of every way to stop
writing; `Finish` adds that what it leaves opens (`RestImage`), which is
`AnnouncedOpens`.

**GuiProofs**.  `AnswerAtHand`: an answer "Encrypt Anyway" not used up yet is
still counted, in whatever order dialogs are opened and closed, hence
`OneAnswerEach`.  `PathKnown`: a transfer that is on has a path.  The rest is for
windows in which no transfer is started while one is on, as the run has it
(*gui_overlap* shows what happens otherwise): `OneWorker` says that a worker alive
is the one the window waits for, that the shared path is still the one it was given,
and that status and result are true from the moment they are written, before the
done flag; `Apart` that no archive is written over a download.  `VerdictTrue` is
inductive with these, and `ShutdownWaits` follows from `OneWorker`.

Only model-checked: liveness under fairness (`NothingLingers`, `Delivers`,
`CancelEnds`) and ENABLED, which are out of the prover's reach.  Every other
property of a passing run is a theorem.  `ImplementsStore` and `AnswersAsStore`
are proved and in no run of their own.

## 7. What the models leave out

- Contents: a document, a message, a hash, a password is a number or a model
  value.  A code is fresh whenever it is drawn (128 random bits).
- Encryption is ideal: what is sealed opens under its key, nonce and tag only.
  The ways the crypto library can fail, and the widths of the header fields, are
  left out.
- Desktop: the Windows build, in which a transfer has a thread of its own (other
  builds run it on the UI thread) and the dialogs are those of Windows.  Cancel in
  a dialog changes nothing and is left out.  Drawing, scrolling, the row that is
  selected and the texts shown are left out; Gui takes it that an archive is not
  written to the path of a download that is on.
- Archive's `AnnouncedOpens` is about the causes the code handles: what only
  `fclose` finds out is modelled (`FinishUnflushed`) and set apart.  Two programs do
  not write an archive to one path at a time (the guard of `Begin`), nor extract
  files of one name into one folder at a time, though nothing in the code keeps
  them from it.  The folder is one and the same for all extractions.
- A mixture that saves at one time leave has entries whose secret part, if any, is
  that of their key, or torn ones of keys nobody has.
- The receiver's set of handled codes has room: `realloc` does not fail.  The
  transfer client opens its output only once curl has started (`transfer.c:198`,
  where an early failure leaves an empty file, is left out).
- File system: rename and unlink are atomic, an open file can be read after it is
  unlinked.  In Relay a file that is there can be opened.  In Teams and Accounts the disk accepts every write (but for a new
  team's record); in Relay, Inbox and AuditLog writes fail and stop half-way.
- Accounts has one account and no registration, login guard or key expiry.
- "Delivered" in Relay and Inbox means copied to the response: what the handlers
  can know.
- HTTP routing, headers, CSRF checks, rendering, configuration and logging.
- Not modelled: the chunk stream, the login guard, billing (section 9); the
  anonymous store, whose routes are not registered; contact form, templates,
  request guards, deployment scripts, which keep no state of their own; the other
  platforms of tinyfiledialogs and the examples of miniz, which are not this
  program's.

## 8. Observations

Behaviours met while modelling that no run is about.

Relay and watchers:

- `relay/main.go:178`: "whichever request wins the rename gets to serve it", but
  the sweeper can remove the claimed file of an overdue blob between the rename
  and the open (`:188`), since a rename keeps the modification time.
- `ratelimit.go:30`: as timestamps can be decided out of order, more than the
  limit can fall in a window of the full length; `WindowCap` is for the window
  less the lag.
- `cli.c:823-827`: the file moves to `sent/` before its log line is written: a
  kill in between leaves a document whose code nobody has.  A version saved while
  the one before is uploaded is moved to `sent/` without being sent.
- `cli.c:851`: any HTTP error status is final, a passing 5xx of a proxy included.
- `cli.c:866-881`: the code of a log line is what follows the first `"code"`: a
  file of that name hides its code, and is never received by a receiver that
  reads the sender's log.
- `cli.c:914`: a token of 40 characters or more is cut when it is remembered, so
  it is asked for in every pass.
- `cli.c:932`: the code is logged as it is and read back up to its first quote
  (`:868-883`).  A word of the codes file with a quote in it is asked for again, and
  logged again, after each restart, against `README.md:163-165`; and a code that
  stands before the quote is taken for handled, and never received.
- `cli.c:1086`: killed between the extraction and the log line, the receiver asks
  for the code again, finds it gone and logs a document it has as failed.
- `cli.c:847`: `recv` and the receiving loop use one temporary file for one code.

Desktop:

- `keystore.c:469`: the save truncates the key file in place and looks at no
  write: a kill or a full disk can take every private key, and a window that
  starts while a command saves goes on with the part it read.  Two programs
  overwrite each other's changes, and two that save at one time leave a mixture of
  both: entries of either, under either's names, or a file that reads as empty.
- `keystore.c:118`: a window that starts on a broken key file starts without the
  verified fingerprints; one for which the array has no room is not known to any
  program (`:522`).
- `gui.c:949`: an answer "Encrypt Anyway" given when no file is pending or no key
  selected any more starts nothing, and is used up by a later encryption to an unverified key, without a warning,
  against `README.md:206-207`.
- `gui.c:1194`: `current_archive_path` outlives a failed open, so Send then
  uploads the archive before it; "Send Anyway" uploads whatever the path is by
  then, and does not look at the relay URL again.
- A second transfer forgets the handle of the first worker, so that shutdown does
  not wait for it, and takes back a Cancel.  The end of an encryption, and
  Decrypt, take away the overlay, and its Cancel button, of a transfer.
- `gui.c:380`: shutdown does not set the cancel flag and curl has no time limit:
  the process stays as long as the relay is silent.
- `gui.c:1049-1053`: files added during an encryption are cleared at its end,
  unencrypted.  Encrypt during an encryption leaks the open file of the first.
- `gui.c:1797-1801`: after Delete the selected index may be that of another key.
- `archive.c:820-828`: an extraction truncates the file of that name first; when
  its write fails, or the program is killed, a part of the content stays.
- `archive.c:621`, `archive.c:828`, `transfer.c`: the result of `fclose` is not
  looked at: on a full disk an archive is announced, and a part of a file reported
  as extracted.
- tinyfiledialogs answers in UTF-8 (`tinyfd_winUtf8` is 1) and the program opens
  paths through the C library in the system's code page: files and folders with
  names outside ASCII can be chosen, but are neither packed nor opened.

Web:

- `team_handlers.go:133`: an invitation links its user after a removal took the
  seat back: more users on the Team plan than seats.
- `accounts.go:99-129`: whether the record was saved is not looked at when a code
  is used up.
- `session.go:136`: a login that waits for its code when the password changes
  still becomes a session; it counts as a new one.
- `accounts_handlers.go:306`: a server that stops between the new password and the
  revocation leaves the old API keys valid.
- `accounts_handlers.go:115`: a server that stops between the blob and its
  metadata leaves a blob no sweep finds.
- `audit.go:106`: after a half-written line the log never verifies again; a head
  that was not written because the server stopped reads as a loss.
- `audit.go:19` promises that a cut log is noticed; a lost tail, a restart and one
  entry write a head that covers the loss.
- `stream.go:183`: a stream cut after a whole chunk is found out by the mark of
  the last chunk only.

## 9. Plan

Done: Relay, RateLimiter, ClaimStore, SendWatch, RecvWatch, WatchPipeline, Teams,
Accounts, Inbox, AuditLog, Keystore, Archive, Dialogs, Gui; a proof of every
safety property of the runs, and of the two refinements of Relay.

Next, proofs: an abstract message (sent, read, gone) that Inbox implements as Relay
implements OneTimeMailbox; what two transfers at once leave true of Gui.

Next, models: Billing (webhooks in any order and repeated); Stream (seal and read
by chunks, against the list of chunks that was sealed); LoginGuard; registration
and the expiry of keys in Accounts.
