------------------------------- MODULE Relay -------------------------------
(***************************************************************************)
(* The relay's blob store (relay/main.go): the upload and download         *)
(* handlers, one goroutine per request, and the sweeper goroutine, all      *)
(* working on one data directory with no lock: only rename and unlink are   *)
(* atomic.  The process may crash between any two steps; the directory      *)
(* survives.                                                                *)
(*                                                                         *)
(* A code is drawn from 128 random bits for each upload, so a member of     *)
(* Codes stands for one upload request, its code and its file (inode).      *)
(* Rate limiting is module RateLimiter; here a refused upload is one that   *)
(* never begins.                                                            *)
(***************************************************************************)
EXTENDS Naturals

CONSTANTS
  Codes,      \* upload requests, each with the code drawn for it
  Downloads,  \* download requests
  Size,       \* chunks in the body of an upload
  TTL,        \* RELAY_TTL, in ticks
  MaxCrashes, \* bound on crashes of the process
  NoCode      \* no code yet

ASSUME RelayAssumption ==
  /\ Size \in Nat \ {0}
  /\ TTL \in Nat
  /\ MaxCrashes \in Nat
  /\ NoCode \notin Codes

VARIABLES
  at,       \* at[c]: the directory entry of the file of upload c
  written,  \* written[c]: chunks in that file
  age,      \* age[c]: ticks since its last write (ModTime), up to TTL + 1
  upload,   \* upload[c]: where the upload handler is
  download, \* download[d]: where the download handler is
  target,   \* target[d]: the code download d presented
  sweep,    \* the sweeper's program counter, its todo list and its victim
  stale,    \* files whose ModTime is before the sweep's cutoff
  crashes   \* crashes so far

disk     == <<at, written, age>>
handlers == <<upload, download, target>>
sweeper  == <<sweep, stale>>
vars     == <<at, written, age, upload, download, target, sweep, stale, crashes>>

\* The names the relay gives a file: ".upload-*", the code, code ".claimed".
Entry      == {"temp", "blob", "claimed"}
Name       == Entry \X Codes
UploadPc   == {"idle", "copying", "renaming", "replying", "done", "lost", "failed"}
DownloadPc == {"idle", "claimed", "streaming", "copied", "served",
               "notfound", "vanished", "aborted"}

TypeOK ==
  /\ at \in [Codes -> Entry \cup {"none"}]
  /\ written \in [Codes -> 0..Size]
  /\ age \in [Codes -> 0..(TTL + 1)]
  /\ upload \in [Codes -> UploadPc]
  /\ download \in [Downloads -> DownloadPc]
  /\ target \in [Downloads -> Codes \cup {NoCode}]
  /\ sweep \in [pc : {"idle", "scanning", "removing"},
                todo : SUBSET Name, victim : SUBSET Name]
  /\ stale \subseteq Codes
  /\ crashes \in 0..MaxCrashes

Init ==
  /\ at = [c \in Codes |-> "none"]
  /\ written = [c \in Codes |-> 0]
  /\ age = [c \in Codes |-> 0]
  /\ upload = [c \in Codes |-> "idle"]
  /\ download = [d \in Downloads |-> "idle"]
  /\ target = [d \in Downloads |-> NoCode]
  /\ sweep = [pc |-> "idle", todo |-> {}, victim |-> {}]
  /\ stale = {}
  /\ crashes = 0

-----------------------------------------------------------------------------
(* handleUpload *)

\* The limiter admitted the request, the code is drawn, CreateTemp succeeded.
UploadBegin(c) ==
  /\ upload[c] = "idle"
  /\ upload' = [upload EXCEPT ![c] = "copying"]
  /\ at' = [at EXCEPT ![c] = "temp"]
  /\ age' = [age EXCEPT ![c] = 0]
  /\ UNCHANGED <<written, download, target, sweeper, crashes>>

\* io.Copy appends one chunk.  The handler holds the file open, so it goes on
\* writing when the sweeper has unlinked the name.  The write renews ModTime.
UploadChunk(c) ==
  /\ upload[c] = "copying"
  /\ written[c] < Size
  /\ written' = [written EXCEPT ![c] = @ + 1]
  /\ age' = [age EXCEPT ![c] = 0]
  /\ stale' = stale \ {c}
  /\ UNCHANGED <<at, handlers, sweep, crashes>>

\* Mutated UploadClose: the error of io.Copy is not looked at.
UploadCloseEarly(c) ==
  /\ upload[c] = "copying"
  /\ upload' = [upload EXCEPT ![c] = "renaming"]
  /\ UNCHANGED <<disk, download, target, sweeper, crashes>>

\* The body ended and tmp.Close succeeded.
UploadClose(c) ==
  /\ upload[c] = "copying"
  /\ written[c] = Size
  /\ upload' = [upload EXCEPT ![c] = "renaming"]
  /\ UNCHANGED <<disk, download, target, sweeper, crashes>>

\* The copy or the close failed (client gone, body too large, disk full):
\* the handler answers an error and the deferred Remove drops the temp file.
UploadFail(c) ==
  /\ upload[c] = "copying"
  /\ upload' = [upload EXCEPT ![c] = "failed"]
  /\ at' = [at EXCEPT ![c] = "none"]
  /\ UNCHANGED <<written, age, download, target, sweeper, crashes>>

\* Mutated UploadRename: the error of os.Rename is not looked at.
UploadRenameUnchecked(c) ==
  /\ upload[c] = "renaming"
  /\ at' = [at EXCEPT ![c] = IF @ = "temp" THEN "blob" ELSE @]
  /\ upload' = [upload EXCEPT ![c] = "replying"]
  /\ UNCHANGED <<written, age, download, target, sweeper, crashes>>

\* os.Rename(tmpName, blobPath(code)): publishes the blob, or fails with 500
\* when the sweeper removed the temp file.
UploadRename(c) ==
  /\ upload[c] = "renaming"
  /\ IF at[c] = "temp"
       THEN /\ at' = [at EXCEPT ![c] = "blob"]
            /\ upload' = [upload EXCEPT ![c] = "replying"]
       ELSE /\ upload' = [upload EXCEPT ![c] = "failed"]
            /\ UNCHANGED at
  /\ UNCHANGED <<written, age, download, target, sweeper, crashes>>

\* The response carries the code; the client may be gone by then.
UploadReply(c) ==
  /\ upload[c] = "replying"
  /\ \E outcome \in {"done", "lost"} : upload' = [upload EXCEPT ![c] = outcome]
  /\ UNCHANGED <<disk, download, target, sweeper, crashes>>

-----------------------------------------------------------------------------
(* handleDownload.  A code can be presented once its uploader has received it. *)

Present(d, c) ==
  /\ download[d] = "idle"
  /\ upload[c] = "done"
  /\ target' = [target EXCEPT ![d] = c]

\* Mutated DownloadClaim: the blob is opened in place, not renamed.
DownloadClaimInPlace(d, c) ==
  /\ Present(d, c)
  /\ at[c] = "blob"
  /\ download' = [download EXCEPT ![d] = "streaming"]
  /\ UNCHANGED <<disk, upload, sweeper, crashes>>

\* os.Rename(blobPath(code), claimed) succeeds for one request.
DownloadClaim(d, c) ==
  /\ Present(d, c)
  /\ at[c] = "blob"
  /\ at' = [at EXCEPT ![c] = "claimed"]
  /\ download' = [download EXCEPT ![d] = "claimed"]
  /\ UNCHANGED <<written, age, upload, sweeper, crashes>>

\* The rename failed: 404.
DownloadMiss(d, c) ==
  /\ Present(d, c)
  /\ at[c] # "blob"
  /\ download' = [download EXCEPT ![d] = "notfound"]
  /\ UNCHANGED <<disk, upload, sweeper, crashes>>

\* os.Open(claimed), by name: 404 when the sweeper removed it meanwhile.
DownloadOpen(d) ==
  /\ download[d] = "claimed"
  /\ download' = [download EXCEPT ![d] =
                    IF at[target[d]] = "claimed" THEN "streaming" ELSE "vanished"]
  /\ UNCHANGED <<disk, upload, target, sweeper, crashes>>

\* io.Copy sent the whole file.
DownloadCopy(d) ==
  /\ download[d] = "streaming"
  /\ download' = [download EXCEPT ![d] = "copied"]
  /\ UNCHANGED <<disk, upload, target, sweeper, crashes>>

\* io.Copy failed (client gone): the deferred Remove deletes the blob all the
\* same.
DownloadAbort(d) ==
  /\ download[d] = "streaming"
  /\ download' = [download EXCEPT ![d] = "aborted"]
  /\ at' = [at EXCEPT ![target[d]] = "none"]
  /\ UNCHANGED <<written, age, upload, target, sweeper, crashes>>

\* The deferred Remove(claimed) after a whole copy.
DownloadRemove(d) ==
  /\ download[d] = "copied"
  /\ download' = [download EXCEPT ![d] = "served"]
  /\ at' = [at EXCEPT ![target[d]] = "none"]
  /\ UNCHANGED <<written, age, upload, target, sweeper, crashes>>

-----------------------------------------------------------------------------
(* sweepLoop / sweepOnce.  The sleep between sweeps is not timed: a sweep may
   start at any moment the sweeper is idle. *)

\* Mutated SweepStart: ".claimed" files are left out of the sweep.
SweepStartSkipsClaimed ==
  /\ sweep.pc = "idle"
  /\ sweep' = [pc |-> "scanning", victim |-> {},
               todo |-> {<<at[c], c>> : c \in {x \in Codes : at[x] \in {"temp", "blob"}}}]
  /\ stale' = {c \in Codes : age[c] > TTL}
  /\ UNCHANGED <<disk, handlers, crashes>>

\* ReadDir lists the names; cutoff is now - ttl.
SweepStart ==
  /\ sweep.pc = "idle"
  /\ sweep' = [pc |-> "scanning", victim |-> {},
               todo |-> {<<at[c], c>> : c \in {x \in Codes : at[x] # "none"}}]
  /\ stale' = {c \in Codes : age[c] > TTL}
  /\ UNCHANGED <<disk, handlers, crashes>>

\* Mutated SweepStat: a claimed file is taken for one a crash left behind.
SweepStatClaimed(n) ==
  /\ sweep.pc = "scanning"
  /\ n \in sweep.todo
  /\ sweep' = IF at[n[2]] = n[1] /\ (n[2] \in stale \/ n[1] = "claimed")
                THEN [pc |-> "removing", todo |-> sweep.todo, victim |-> {n}]
                ELSE [pc |-> "scanning", todo |-> sweep.todo \ {n}, victim |-> {}]
  /\ UNCHANGED <<disk, handlers, stale, crashes>>

\* e.Info() on one listed name.  A name that is gone, or whose file is not
\* before the cutoff, is skipped.
SweepStat(n) ==
  /\ sweep.pc = "scanning"
  /\ n \in sweep.todo
  /\ sweep' = IF at[n[2]] = n[1] /\ n[2] \in stale
                THEN [pc |-> "removing", todo |-> sweep.todo, victim |-> {n}]
                ELSE [pc |-> "scanning", todo |-> sweep.todo \ {n}, victim |-> {}]
  /\ UNCHANGED <<disk, handlers, stale, crashes>>

\* Mutated SweepRemove: removes the file it looked at, under whatever name.
SweepRemoveFile ==
  /\ sweep.pc = "removing"
  /\ at' = [c \in Codes |-> IF \E n \in sweep.victim : n[2] = c THEN "none" ELSE at[c]]
  /\ sweep' = [pc |-> "scanning", todo |-> sweep.todo \ sweep.victim, victim |-> {}]
  /\ UNCHANGED <<written, age, handlers, stale, crashes>>

\* os.Remove of that name, whatever happened since Info.
SweepRemove ==
  /\ sweep.pc = "removing"
  /\ at' = [c \in Codes |-> IF <<at[c], c>> \in sweep.victim THEN "none" ELSE at[c]]
  /\ sweep' = [pc |-> "scanning", todo |-> sweep.todo \ sweep.victim, victim |-> {}]
  /\ UNCHANGED <<written, age, handlers, stale, crashes>>

SweepEnd ==
  /\ sweep.pc = "scanning"
  /\ sweep.todo = {}
  /\ sweep' = [pc |-> "idle", todo |-> {}, victim |-> {}]
  /\ UNCHANGED <<disk, handlers, stale, crashes>>

-----------------------------------------------------------------------------
(* Time and crashes *)

Tick ==
  /\ age' = [c \in Codes |-> IF upload[c] = "idle" \/ age[c] > TTL
                               THEN age[c] ELSE age[c] + 1]
  /\ UNCHANGED <<at, written, handlers, sweeper, crashes>>

\* Mutated Crash: on start the relay puts claimed files back under their code.
CrashReclaims ==
  /\ crashes < MaxCrashes
  /\ crashes' = crashes + 1
  /\ at' = [c \in Codes |-> IF at[c] = "claimed" THEN "blob" ELSE at[c]]
  /\ upload' = [c \in Codes |->
                  IF upload[c] \in {"copying", "renaming"} THEN "failed"
                  ELSE IF upload[c] = "replying" THEN "lost"
                  ELSE upload[c]]
  /\ download' = [d \in Downloads |->
                    IF download[d] \in {"claimed", "streaming"} THEN "aborted"
                    ELSE IF download[d] = "copied" THEN "served"
                    ELSE download[d]]
  /\ sweep' = [pc |-> "idle", todo |-> {}, victim |-> {}]
  /\ stale' = {}
  /\ UNCHANGED <<written, age, target>>

\* The process dies and restarts: every handler in flight ends without its
\* deferred calls, the sweeper starts over, the directory stays.
Crash ==
  /\ crashes < MaxCrashes
  /\ crashes' = crashes + 1
  /\ upload' = [c \in Codes |->
                  IF upload[c] \in {"copying", "renaming"} THEN "failed"
                  ELSE IF upload[c] = "replying" THEN "lost"
                  ELSE upload[c]]
  /\ download' = [d \in Downloads |->
                    IF download[d] \in {"claimed", "streaming"} THEN "aborted"
                    ELSE IF download[d] = "copied" THEN "served"
                    ELSE download[d]]
  /\ sweep' = [pc |-> "idle", todo |-> {}, victim |-> {}]
  /\ stale' = {}
  /\ UNCHANGED <<disk, target>>

UploadStep(c) ==
  \/ UploadBegin(c) \/ UploadChunk(c) \/ UploadClose(c)
  \/ UploadFail(c) \/ UploadRename(c) \/ UploadReply(c)

DownloadStep(d) ==
  \/ \E c \in Codes : DownloadClaim(d, c) \/ DownloadMiss(d, c)
  \/ DownloadOpen(d) \/ DownloadCopy(d) \/ DownloadAbort(d) \/ DownloadRemove(d)

SweepStep ==
  \/ SweepStart
  \/ \E n \in Name : SweepStat(n)
  \/ SweepRemove
  \/ SweepEnd

Next ==
  \/ \E c \in Codes : UploadStep(c)
  \/ \E d \in Downloads : DownloadStep(d)
  \/ SweepStep
  \/ Tick
  \/ Crash

Spec == Init /\ [][Next]_vars

\* Time passes and the sweeper goroutine keeps running.  Nothing is assumed of
\* clients or of the handlers that serve them.
FairSpec == Spec /\ WF_vars(Tick) /\ WF_vars(SweepStep)

-----------------------------------------------------------------------------
(* Properties *)

\* Requests whose rename succeeded.
Won(d) == download[d] \in {"claimed", "streaming", "copied", "served", "vanished", "aborted"}

\* One-time download (main.go:14 and 180): at most one request ever wins a code,
\* across concurrent fetches, sweeps and restarts.
OneTime ==
  \A d, e \in Downloads : Won(d) /\ Won(e) /\ target[d] = target[e] => d = e

\* "A download can never observe a half-written blob" (main.go:134): what a
\* download opens, and what it goes on streaming, is a whole upload.
NeverHalfWritten ==
  \A d \in Downloads : download[d] \in {"streaming", "copied", "served"}
                         => written[target[d]] = Size

\* A code handed to an uploader stays good: its blob leaves the store only
\* because a request claimed it or because it outlived the TTL.
Accounted ==
  \A c \in Codes : upload[c] = "done" /\ at[c] # "blob" =>
    \/ \E d \in Downloads : Won(d) /\ target[d] = c
    \/ age[c] > TTL

\* The sweeper never deletes a stored or claimed blob younger than the TTL,
\* though it removes names it looked at earlier; only the request that claimed
\* the blob may delete it sooner.
KeepsUntilTTL ==
  [][\A c \in Codes : at[c] \in {"blob", "claimed"} /\ at'[c] = "none" =>
       \/ age[c] > TTL
       \/ \E d \in Downloads : target[d] = c /\ download'[d] # download[d]]_vars

\* "Whichever request wins the rename gets to serve it" (main.go:178): it finds the
\* blob when it opens it, whatever is swept, claimed and removed meanwhile, unless
\* the blob has outlived its TTL: then the sweep may be faster, and it answers 404.
WinnerServed == \A d \in Downloads : download[d] = "vanished" => age[target[d]] > TTL

\* "Nothing lingers" (main.go:14): every file in the directory, the temp and
\* claimed files a crash leaves behind included, is eventually gone.
NothingLingers == \A c \in Codes : at[c] # "none" ~> at[c] = "none"

-----------------------------------------------------------------------------
(* The inductive invariant behind OneTime, NeverHalfWritten, Accounted,
   KeepsUntilTTL and the refinement. *)

\* The rename of handleUpload has happened.
Published(c) == upload[c] \in {"replying", "done", "lost"}

\* What a file's name says about it and its upload.
NamesTellState ==
  \A c \in Codes :
    /\ upload[c] = "idle" => at[c] = "none" /\ age[c] = 0
    /\ at[c] \in {"blob", "claimed"} <=> Published(c) /\ at[c] # "none"
    /\ Published(c) \/ upload[c] = "renaming" => written[c] = Size

\* A won code was handed out, and its blob is no longer under the code.
WonIsTaken ==
  \A d \in Downloads : Won(d) =>
    /\ target[d] \in Codes
    /\ upload[target[d]] = "done"
    /\ at[target[d]] # "blob"

\* A published blob that is not under its code was won, or outlived the TTL.
TakenOrExpired ==
  \A c \in Codes : Published(c) /\ at[c] # "blob" =>
    \/ \E d \in Downloads : Won(d) /\ target[d] = c
    \/ age[c] > TTL

\* What the sweeper remembers of a published blob stays true.
SweepMemory ==
  /\ \A c \in stale : age[c] > TTL
  /\ sweep.pc = "removing" <=> sweep.victim # {}
  /\ \A m, n \in sweep.victim : m = n
  /\ \A n \in sweep.victim : n[1] # "temp" => Published(n[2]) /\ n[2] \in stale

\* What a request has claimed is there to be opened, or overdue.
ClaimStands ==
  \A d \in Downloads : download[d] = "claimed" =>
    at[target[d]] = "claimed" \/ age[target[d]] > TTL

IInv == TypeOK /\ NamesTellState /\ WonIsTaken /\ OneTime /\ TakenOrExpired /\ SweepMemory

-----------------------------------------------------------------------------
(* The relay implements the one-time mailbox. *)

Mailbox == INSTANCE OneTimeMailbox WITH
  Readers <- Downloads,
  slot <- [c \in Codes |-> IF ~Published(c) THEN "empty"
                           ELSE IF at[c] = "blob" THEN "held" ELSE "closed"],
  took <- [d \in Downloads |-> IF Won(d) THEN target[d] ELSE NoCode],
  got  <- {d \in Downloads : download[d] \in {"copied", "served"}}

\* Every step of the relay is a step of the mailbox or invisible to it.
ImplementsMailbox == Mailbox!Spec

-----------------------------------------------------------------------------
(* The relay is the store the watchers are modelled around (ClaimStore): a code
   stands for the document that was uploaded under it. *)

Store == INSTANCE ClaimStore WITH
  Files <- Codes, MaxVersion <- 1,
  BadTokens <- {}, LongTokens <- {}, CodeNamed <- {}, CodeWord <- NoCode,
  blob <- [c \in Codes |-> IF ~Published(c) THEN "unused"
                           ELSE IF at[c] = "blob" THEN "held" ELSE "gone"],
  content <- [c \in Codes |-> IF Published(c) THEN {<<c, 1>>} ELSE {}],
  lines <- <<>>

\* What the relay does to a blob in ClaimStore; to the blob itself, Take is
\* what Expire is.
StoreStep(c) == Store!Put(c, <<c, 1>>) \/ Store!Expire(c)

\* Blobs come and go as ClaimStore says.
ImplementsStore ==
  /\ Store!StoreInit
  /\ [][\E c \in Codes : StoreStep(c)]_(Store!storeVars)

\* A download learns what the store would tell it: it is let through when it
\* takes the blob, and told 404 only when there is none, so that a client that
\* gives a code up at a 404 gives up nothing.
AnswersAsStore ==
  [][\A d \in Downloads : download'[d] # download[d] =>
       /\ download'[d] = "claimed" => Store!Take(target'[d])
       /\ download'[d] \in {"notfound", "vanished"} => Store!Missing(target[d])']_vars
=============================================================================
