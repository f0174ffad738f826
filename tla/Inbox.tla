------------------------------- MODULE Inbox -------------------------------
(***************************************************************************)
(* The inbox of one recipient of the web service: the message store of      *)
(* web/accounts.go (a blob and a metadata file for each message) and the     *)
(* handlers on top of it (web/accounts_handlers.go, web/api_handlers.go,     *)
(* the sweep of web/main.go).  The store takes no lock: a message is put in *)
(* place and taken away in several steps, and senders, downloads, deletions *)
(* and sweeps of other requests run between any two of them.                *)
(*                                                                         *)
(* A restart loses the handlers and keeps the files.  An open file can be   *)
(* read to its end after it is unlinked.                                    *)
(***************************************************************************)
EXTENDS Naturals, FiniteSets

CONSTANTS
  Ids,         \* message ids, each drawn by one upload
  Requests,    \* handlers that may be in flight at a time
  Sweeper,     \* the goroutine of main that calls sweep for ever
  MaxUploads,  \* capacity of uploadSem
  MaxRestarts, \* bound on restarts of the server
  NoId

ASSUME InboxAssumption ==
  /\ Sweeper \notin Requests
  /\ MaxUploads \in Nat \ {0}
  /\ MaxRestarts \in Nat
  /\ NoId \notin Ids

VARIABLES
  blob,     \* blob[i]: none, tmp (being written, or left so) or whole
  meta,     \* meta[i]: none, part (created, not yet written) or whole
  expired,  \* messages whose Expires has passed
  req,      \* req[r]: the handler's pc and message
  restarts,
  \* history:
  drawn,    \* ids drawn
  sent,     \* messages whose sender was told they were sent
  leaving,  \* messages delivered whole, deleted by the recipient, or refused
  left      \* those whose handler has answered since

files == <<blob, meta>>
vars == <<files, expired, req, restarts, drawn, sent, leaving, left>>

Handler(pc, i) == [pc |-> pc, id |-> i]
Idle == Handler("idle", NoId)
Sending == {"seal", "sealed", "meta", "written"}

TypeOK ==
  /\ blob \in [Ids -> {"none", "tmp", "whole"}]
  /\ meta \in [Ids -> {"none", "part", "whole"}]
  /\ req \in [Requests \cup {Sweeper} ->
                [pc : {"idle", "open", "stream", "unblob", "unmeta"} \cup Sending,
                 id : Ids \cup {NoId}]]
  /\ restarts \in 0..MaxRestarts
  /\ drawn \subseteq Ids
  /\ expired \cup sent \cup leaving \subseteq drawn
  /\ left \subseteq leaving

Init ==
  /\ blob = [i \in Ids |-> "none"]
  /\ meta = [i \in Ids |-> "none"]
  /\ expired = {}
  /\ req = [r \in Requests \cup {Sweeper} |-> Idle]
  /\ restarts = 0
  /\ drawn = {}
  /\ sent = {}
  /\ leaving = {}
  /\ left = {}

At(r, pc) == req[r].pc = pc
Goto(r, pc) == req' = [req EXCEPT ![r] = Handler(pc, req[r].id)]
Answer(r) == req' = [req EXCEPT ![r] = Idle]
Put(file, r, to) == [file EXCEPT ![req[r].id] = to]

-----------------------------------------------------------------------------
(* POST /api/send and /api/v1/send: encryptAndStoreStream *)

\* A slot of uploadSem is free; writeBlob creates <id>.blob.tmp.
Upload(r, i) ==
  /\ At(r, "idle")
  /\ i \notin drawn
  /\ Cardinality({q \in Requests : req[q].pc \in Sending}) < MaxUploads
  /\ drawn' = drawn \cup {i}
  /\ blob' = [blob EXCEPT ![i] = "tmp"]
  /\ req' = [req EXCEPT ![r] = Handler("seal", i)]
  /\ UNCHANGED <<meta, expired, restarts, sent, leaving, left>>

\* The whole upload is sealed, and the file renamed to <id>.blob.
Sealed(r) ==
  /\ At(r, "seal")
  /\ blob' = Put(blob, r, "whole")
  /\ Goto(r, "sealed")
  /\ UNCHANGED <<meta, expired, restarts, drawn, sent, leaving, left>>

\* The upload breaks off or exceeds the request limit: the temporary file goes.
SealFails(r) ==
  /\ At(r, "seal")
  /\ blob' = Put(blob, r, "none")
  /\ leaving' = leaving \cup {req[r].id}
  /\ left' = left \cup {req[r].id}
  /\ Answer(r)
  /\ UNCHANGED <<meta, expired, restarts, drawn, sent>>

\* MUTANT of OverLimit: the blob is not deleted again.
OverLimitKept(r) ==
  /\ At(r, "sealed")
  /\ leaving' = leaving \cup {req[r].id}
  /\ left' = left \cup {req[r].id}
  /\ Answer(r)
  /\ UNCHANGED <<files, expired, restarts, drawn, sent>>

\* The file is larger than the sender's plan allows.
OverLimit(r) ==
  /\ At(r, "sealed")
  /\ leaving' = leaving \cup {req[r].id}
  /\ Goto(r, "unblob")
  /\ UNCHANGED <<files, expired, restarts, drawn, sent, left>>

\* os.WriteFile of <id>.json: the file is created, then written.
CreateMeta(r) ==
  /\ At(r, "sealed")
  /\ meta' = Put(meta, r, "part")
  /\ Goto(r, "meta")
  /\ UNCHANGED <<blob, expired, restarts, drawn, sent, leaving, left>>

\* The write succeeds: from here on the message shows in the inbox.
WriteMeta(r) ==
  /\ At(r, "meta")
  /\ meta' = Put(meta, r, "whole")
  /\ Goto(r, "written")
  /\ UNCHANGED <<blob, expired, restarts, drawn, sent, leaving, left>>

\* The disk is full: the blob is deleted again, and what there is of the metadata.
WriteMetaFails(r) ==
  /\ At(r, "meta")
  /\ leaving' = leaving \cup {req[r].id}
  /\ Goto(r, "unblob")
  /\ UNCHANGED <<files, expired, restarts, drawn, sent, left>>

\* The sender is told.
Sent(r) ==
  /\ At(r, "written")
  /\ sent' = sent \cup {req[r].id}
  /\ Answer(r)
  /\ UNCHANGED <<files, expired, restarts, drawn, leaving, left>>

-----------------------------------------------------------------------------
(* GET /api/msg/{id} and /api/v1/messages/{id}: writeDecrypted *)

\* The metadata file is read; a missing or partial one is a 404.
ReadMeta(r, i) ==
  /\ At(r, "idle")
  /\ meta[i] = "whole"
  /\ req' = [req EXCEPT ![r] = Handler("open", i)]
  /\ UNCHANGED <<files, expired, restarts, drawn, sent, leaving, left>>

\* The blob is opened, or gone by now.
OpenBlob(r) ==
  /\ At(r, "open")
  /\ IF blob[req[r].id] = "whole" THEN Goto(r, "stream") ELSE Answer(r)
  /\ UNCHANGED <<files, expired, restarts, drawn, sent, leaving, left>>

\* All of the body was written to the response: the message is deleted.
Delivered(r) ==
  /\ At(r, "stream")
  /\ leaving' = leaving \cup {req[r].id}
  /\ Goto(r, "unblob")
  /\ UNCHANGED <<files, expired, restarts, drawn, sent, left>>

\* MUTANT of Undelivered: the copy error is not looked at.
UndeliveredBurns(r) ==
  /\ At(r, "stream")
  /\ Goto(r, "unblob")
  /\ UNCHANGED <<files, expired, restarts, drawn, sent, leaving, left>>

\* Partial delivery: the message is kept.
Undelivered(r) ==
  /\ At(r, "stream")
  /\ Answer(r)
  /\ UNCHANGED <<files, expired, restarts, drawn, sent, leaving, left>>

-----------------------------------------------------------------------------
(* Deletion: messages.delete removes the blob, then the metadata *)

\* The recipient deletes a message of the listing it was shown.
Delete(r, i) ==
  /\ At(r, "idle")
  /\ meta[i] = "whole"
  /\ leaving' = leaving \cup {i}
  /\ req' = [req EXCEPT ![r] = Handler("unblob", i)]
  /\ UNCHANGED <<files, expired, restarts, drawn, sent, left>>

\* list meets an expired message, for a reader of the inbox or for the sweep.
DropExpired(r, i) ==
  /\ At(r, "idle")
  /\ meta[i] = "whole"
  /\ i \in expired
  /\ req' = [req EXCEPT ![r] = Handler("unblob", i)]
  /\ UNCHANGED <<files, expired, restarts, drawn, sent, leaving, left>>

Unblob(r) ==
  /\ At(r, "unblob")
  /\ blob' = Put(blob, r, "none")
  /\ Goto(r, "unmeta")
  /\ UNCHANGED <<meta, expired, restarts, drawn, sent, leaving, left>>

Unmeta(r) ==
  /\ At(r, "unmeta")
  /\ meta' = Put(meta, r, "none")
  /\ left' = left \cup ({req[r].id} \cap leaving)
  /\ Answer(r)
  /\ UNCHANGED <<blob, expired, restarts, drawn, sent, leaving>>

-----------------------------------------------------------------------------

\* The time of a message's metadata passes.
Expire(i) ==
  /\ meta[i] = "whole"
  /\ i \notin expired
  /\ expired' = expired \cup {i}
  /\ UNCHANGED <<files, req, restarts, drawn, sent, leaving, left>>

Restart ==
  /\ restarts < MaxRestarts
  /\ restarts' = restarts + 1
  /\ req' = [r \in Requests \cup {Sweeper} |-> Idle]
  /\ UNCHANGED <<files, expired, drawn, sent, leaving, left>>

Take(r) ==
  \E i \in Ids : Upload(r, i) \/ ReadMeta(r, i) \/ Delete(r, i) \/ DropExpired(r, i)

\* MUTANT of Remove: the metadata goes first, then the blob.
RemoveMetaFirst(r) ==
  \/ /\ At(r, "unblob")
     /\ meta' = Put(meta, r, "none")
     /\ Goto(r, "unmeta")
     /\ UNCHANGED <<blob, expired, restarts, drawn, sent, leaving, left>>
  \/ /\ At(r, "unmeta")
     /\ blob' = Put(blob, r, "none")
     /\ left' = left \cup ({req[r].id} \cap leaving)
     /\ Answer(r)
     /\ UNCHANGED <<meta, expired, restarts, drawn, sent, leaving>>

Remove(r) == Unblob(r) \/ Unmeta(r)

Step(r) ==
  \/ Sealed(r) \/ SealFails(r)
  \/ OverLimit(r) \/ CreateMeta(r) \/ WriteMeta(r) \/ WriteMetaFails(r) \/ Sent(r)
  \/ OpenBlob(r) \/ Delivered(r) \/ Undelivered(r)

Sweep(i) == DropExpired(Sweeper, i)

Next ==
  \/ \E r \in Requests : Take(r) \/ Step(r)
  \/ \E r \in Requests \cup {Sweeper} : Remove(r)
  \/ \E i \in Ids : Sweep(i) \/ Expire(i)
  \/ Restart

Spec == Init /\ [][Next]_vars

\* Time passes, the sweep comes round to every entry of a directory, and it
\* gets to run.  Nothing is assumed of senders and downloads: the server sets
\* no time limit on a body.
FairSpec ==
  /\ Spec
  /\ WF_vars(Remove(Sweeper))
  /\ \A i \in Ids : WF_vars(Expire(i)) /\ SF_vars(Sweep(i))

-----------------------------------------------------------------------------

\* A message whose sender was told "sent", and one that shows in the inbox,
\* can be downloaded until it was delivered whole, deleted by the recipient or
\* expired: not when a download breaks off, nor when the server stops between
\* two steps (encryptAndStoreStream, writeDecrypted, delete).
Available ==
  \A i \in Ids \ (leaving \cup expired) :
    /\ i \in sent => meta[i] = "whole"
    /\ meta[i] = "whole" => blob[i] = "whole"

\* When a delivery, a deletion or a refused upload is answered, no file of the
\* message is left, and no other handler brings one back.
GoneForGood == \A i \in left : blob[i] = "none" /\ meta[i] = "none"

\* Every message that made it into the inbox goes in the end, blob and
\* metadata, also when nobody fetches it and when a deletion was cut short
\* between the two files (list, sweep).
NothingLingers ==
  \A i \in Ids : meta[i] = "whole" ~> (blob[i] = "none" /\ meta[i] = "none")

-----------------------------------------------------------------------------
(* The inductive invariant behind Available and GoneForGood. *)

\* Before its metadata is written, only its upload knows of a message.
Uploading(r) ==
  LET i == req[r].id IN
  req[r].pc \in {"seal", "sealed", "meta"} =>
    /\ blob[i] = IF At(r, "seal") THEN "tmp" ELSE "whole"
    /\ meta[i] = IF At(r, "meta") THEN "part" ELSE "none"
    /\ i \notin leaving \cup expired \cup sent
    /\ \A q \in Requests \cup {Sweeper} : req[q].id = i => q = r

\* An upload about to answer "sent" has put a message in the inbox.
Arrived(r) ==
  At(r, "written") => req[r].id \in leaving \cup expired \/ meta[req[r].id] = "whole"

\* A handler removes what was to go, and the blob first.
Removing(r) ==
  /\ At(r, "unblob") \/ At(r, "unmeta") => req[r].id \in leaving \cup expired
  /\ At(r, "unmeta") => blob[req[r].id] = "none"

\* Requests and files only know of ids that were drawn.
Drawn ==
  /\ \A r \in Requests \cup {Sweeper} :
       IF At(r, "idle") THEN req[r] = Idle ELSE req[r].id \in drawn
  /\ \A i \in Ids \ drawn : blob[i] = "none" /\ meta[i] = "none"

IInv ==
  /\ TypeOK
  /\ Drawn
  /\ \A r \in Requests \cup {Sweeper} : Uploading(r) /\ Arrived(r) /\ Removing(r)
  /\ Available /\ GoneForGood

=============================================================================
