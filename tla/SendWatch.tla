----------------------------- MODULE SendWatch -----------------------------
(***************************************************************************)
(* `kyber-cli watch` (src/cli.c, cli_watch): a loop that lists the outbox,   *)
(* encrypts each settled file, uploads it, moves the original to sent/ and   *)
(* appends the code to the log, while users drop and edit files in the       *)
(* outbox.  The loop only ends by being killed, which may happen anywhere.   *)
(***************************************************************************)
EXTENDS ClaimStore, FiniteSets

CONSTANTS
  MaxList,    \* files one scan can list (1024)
  MaxKills,   \* bound on kills and restarts of each watcher
  SendFaults  \* the faults that may happen: subset of {"refused", "lostreply", "move", "log"}

ASSUME SendAssumption ==
  /\ MaxList \in Nat \ {0}
  /\ MaxKills \in Nat
  /\ SendFaults \subseteq {"refused", "lostreply", "move", "log"}

VARIABLES
  outbox,    \* outbox[f]: the version of f in the outbox, 0 if there is none
  settled,   \* files not modified in the last settle_secs
  saved,     \* history: the versions of f written so far
  sent,      \* documents in sent/
  watch,     \* the loop: pc, names left in this scan, file at hand, what was read of it, its code
  sendKills, \* kills so far
  owed       \* history: documents handed over and not overwritten by their user

sendVars == <<outbox, settled, saved, sent, watch, sendKills, owed>>

\* The local state of cli_watch.
Loop(pc, todo, doc, code) == [pc |-> pc, todo |-> todo, doc |-> doc, code |-> code]
Asleep   == Loop("sleeping", {}, {}, {})
NextFile == Loop("scanning", watch.todo, {}, {})

SendTypeOK ==
  /\ outbox \in [Files -> 0..MaxVersion]
  /\ settled \subseteq Files
  /\ saved \in [Files -> 0..MaxVersion]
  /\ sent \subseteq Docs
  /\ watch \in [pc : {"sleeping", "scanning", "uploading", "moving", "logging"},
                todo : SUBSET Files, doc : SUBSET Docs, code : SUBSET Codes]
  /\ sendKills \in 0..MaxKills
  /\ owed \subseteq Docs

SendInit ==
  /\ outbox = [f \in Files |-> 0]
  /\ settled = {}
  /\ saved = [f \in Files |-> 0]
  /\ sent = {}
  /\ watch = Asleep
  /\ sendKills = 0
  /\ owed = {}

-----------------------------------------------------------------------------
(* Users *)

\* A user drops f in the outbox or saves it again there; a version saved over
\* another takes its place.  The file is not settled until it is left alone.
Save(f) ==
  /\ saved[f] < MaxVersion
  /\ saved' = [saved EXCEPT ![f] = @ + 1]
  /\ outbox' = [outbox EXCEPT ![f] = saved[f] + 1]
  /\ owed' = (owed \ {<<f, outbox[f]>>}) \cup {<<f, saved[f] + 1>>}
  /\ settled' = settled \ {f}
  /\ UNCHANGED <<sent, watch, sendKills, storeVars>>

\* A user takes the file out of the outbox.
Withdraw(f) ==
  /\ outbox[f] > 0
  /\ outbox' = [outbox EXCEPT ![f] = 0]
  /\ owed' = owed \ {<<f, outbox[f]>>}
  /\ settled' = settled \ {f}
  /\ UNCHANGED <<saved, sent, watch, sendKills, storeVars>>

Settle(f) ==
  /\ outbox[f] > 0
  /\ f \notin settled
  /\ settled' = settled \cup {f}
  /\ UNCHANGED <<outbox, saved, sent, watch, sendKills, owed, storeVars>>

-----------------------------------------------------------------------------
(* The loop *)

Listed == {f \in Files : outbox[f] > 0}

\* list_dir_files returns MaxList names at most, in no particular order.
Scan ==
  /\ watch.pc = "sleeping"
  /\ \E L \in SUBSET Listed :
       /\ Cardinality(L) = MaxList \/ (L = Listed /\ Cardinality(L) <= MaxList)
       /\ watch' = Loop("scanning", L, {}, {})
  /\ UNCHANGED <<outbox, settled, saved, sent, sendKills, owed, storeVars>>

ScanDone ==
  /\ watch.pc = "scanning"
  /\ watch.todo = {}
  /\ watch' = Asleep
  /\ UNCHANGED <<outbox, settled, saved, sent, sendKills, owed, storeVars>>

\* stat fails or the file is too young: skipped until the next scan.
Skip(f) ==
  /\ watch.pc = "scanning"
  /\ f \in watch.todo
  /\ outbox[f] = 0 \/ f \notin settled
  /\ watch' = Loop("scanning", watch.todo \ {f}, {}, {})
  /\ UNCHANGED <<outbox, settled, saved, sent, sendKills, owed, storeVars>>

\* send_one_file reads and encrypts the file as it is now.
Archive(f) ==
  /\ watch.pc = "scanning"
  /\ f \in watch.todo
  /\ outbox[f] > 0 /\ f \in settled
  /\ watch' = Loop("uploading", watch.todo \ {f}, {<<f, outbox[f]>>}, {})
  /\ UNCHANGED <<outbox, settled, saved, sent, sendKills, owed, storeVars>>

\* transfer_upload: a 2xx answer carrying a code.
Upload(c) ==
  /\ watch.pc = "uploading"
  /\ \E doc \in watch.doc : Put(c, doc)
  /\ watch' = Loop("moving", watch.todo, watch.doc, {c})
  /\ UNCHANGED <<outbox, settled, saved, sent, sendKills, owed, lines>>

\* Mutant of UploadRefused: the status of the answer is not looked at.
UploadRefusedUnnoticed ==
  /\ "refused" \in SendFaults
  /\ watch.pc = "uploading"
  /\ \E c \in Codes : watch' = Loop("moving", watch.todo, watch.doc, {c})
  /\ UNCHANGED <<outbox, settled, saved, sent, sendKills, owed, storeVars>>

\* Archive or upload fails and nothing is stored: left in the outbox.
UploadRefused ==
  /\ "refused" \in SendFaults
  /\ watch.pc = "uploading"
  /\ watch' = NextFile
  /\ UNCHANGED <<outbox, settled, saved, sent, sendKills, owed, storeVars>>

\* The blob is stored but the answer is lost: the code is never known, the
\* file is left in the outbox and uploaded again.
UploadUnanswered(c) ==
  /\ "lostreply" \in SendFaults
  /\ watch.pc = "uploading"
  /\ \E doc \in watch.doc : Put(c, doc)
  /\ watch' = NextFile
  /\ UNCHANGED <<outbox, settled, saved, sent, sendKills, owed, lines>>

\* Mutant of Move: no numeric prefix, the rename replaces an earlier document.
MoveClobbers ==
  /\ watch.pc = "moving"
  /\ \E doc \in watch.doc :
       LET f == doc[1] IN
         /\ outbox[f] > 0
         /\ sent' = {d \in sent : d[1] # f} \cup {<<f, outbox[f]>>}
         /\ outbox' = [outbox EXCEPT ![f] = 0]
         /\ settled' = settled \ {f}
  /\ watch' = Loop("logging", watch.todo, watch.doc, watch.code)
  /\ UNCHANGED <<saved, sendKills, owed, storeVars>>

\* move_to_sent: renames whatever is in the outbox under that name by now; a
\* numeric prefix keeps it clear of earlier documents.
Move ==
  /\ watch.pc = "moving"
  /\ \E doc \in watch.doc :
       LET f == doc[1] IN
         /\ outbox[f] > 0
         /\ sent' = sent \cup {<<f, outbox[f]>>}
         /\ outbox' = [outbox EXCEPT ![f] = 0]
         /\ settled' = settled \ {f}
  /\ watch' = Loop("logging", watch.todo, watch.doc, watch.code)
  /\ UNCHANGED <<saved, sendKills, owed, storeVars>>

\* The user took the file: nothing to rename, a warning only.
MoveMissing ==
  /\ watch.pc = "moving"
  /\ \A doc \in watch.doc : outbox[doc[1]] = 0
  /\ watch' = Loop("logging", watch.todo, watch.doc, watch.code)
  /\ UNCHANGED <<outbox, settled, saved, sent, sendKills, owed, storeVars>>

\* The rename fails otherwise: a warning, and the file stays in the outbox.
MoveFails ==
  /\ "move" \in SendFaults
  /\ watch.pc = "moving"
  /\ watch' = Loop("logging", watch.todo, watch.doc, watch.code)
  /\ UNCHANGED <<outbox, settled, saved, sent, sendKills, owed, storeVars>>

\* append_log: one line with name and code, unless the log cannot be opened.
Log ==
  /\ watch.pc = "logging"
  /\ \/ \E doc \in watch.doc, c \in watch.code : lines' = Append(lines, LineToken(doc[1], c))
     \/ /\ "log" \in SendFaults
        /\ UNCHANGED lines
  /\ watch' = NextFile
  /\ UNCHANGED <<outbox, settled, saved, sent, sendKills, owed, blob, content>>

\* Ctrl+C, a crash or a reboot, and a new start.
KillSender ==
  /\ sendKills < MaxKills
  /\ sendKills' = sendKills + 1
  /\ watch' = Asleep
  /\ UNCHANGED <<outbox, settled, saved, sent, owed, storeVars>>

SenderStep ==
  \/ Scan \/ ScanDone \/ Move \/ MoveMissing \/ Log
  \/ \E f \in Files : Skip(f) \/ Archive(f)
  \/ \E c \in Codes : Upload(c)

SenderFault ==
  \/ UploadRefused \/ MoveFails \/ KillSender
  \/ \E c \in Codes : UploadUnanswered(c)

UserStep == \E f \in Files : Save(f) \/ Settle(f) \/ Withdraw(f)

SendNext == SenderStep \/ SenderFault \/ UserStep

SendSpec == StoreInit /\ SendInit /\ [][SendNext]_<<storeVars, sendVars>>

-----------------------------------------------------------------------------
(* Properties *)

\* Every document a user handed over is in the outbox or in sent/, unless the
\* user overwrote or withdrew it: no failure, retry, kill or name collision loses one
\* (README.md:162, cli.c:572 "avoiding clobber").
OriginalsKept == \A doc \in owed : outbox[doc[1]] = doc[2] \/ doc \in sent

\* A code in the log is the code of a blob that was stored, and no two lines
\* carry the same one.
LogIsReal ==
  /\ \A i \in 1..Len(lines) : lines[i] \in Codes => blob[lines[i]] # "unused"
  /\ \A i, j \in 1..Len(lines) : i # j /\ lines[i] \in Codes => lines[i] # lines[j]

\* The code at hand belongs to a stored blob and is not in the log yet.
CodeAtHand ==
  \A c \in watch.code :
    blob[c] # "unused" /\ \A i \in 1..Len(lines) : lines[i] # c

\* The inductive invariant.
SendIInv == StoreTypeOK /\ SendTypeOK /\ OriginalsKept /\ LogIsReal /\ CodeAtHand
=============================================================================
