---------------------------- MODULE InboxProofs ----------------------------
(***************************************************************************)
(* Theorems about Inbox, for any message ids, handlers in flight, upload     *)
(* slots and restarts.                                                      *)
(***************************************************************************)
EXTENDS Inbox, TLAPS

Handlers == Requests \cup {Sweeper}
Knows(r) == Uploading(r) /\ Arrived(r) /\ Removing(r)

LEMMA InboxInitial == Init => IInv
  <1> SUFFICES ASSUME Init PROVE IInv
    OBVIOUS
  <1> USE InboxAssumption DEF InboxAssumption, Init, Idle, Handler
  <1>1. TypeOK
    BY DEF TypeOK
  <1>2. Drawn
    BY DEF Drawn, At
  <1>3. ASSUME NEW r \in Handlers PROVE Knows(r)
    BY DEF Handlers, Knows, Uploading, Arrived, Removing, At
  <1>4. Available /\ GoneForGood
    BY DEF Available, GoneForGood
  <1>5. QED
    BY <1>1, <1>2, <1>3, <1>4 DEF IInv, Handlers, Knows

\* A handler that starts takes up a message that shows in the inbox, or that is
\* new; no upload still at work knows of either.
LEMMA Started ==
  ASSUME IInv, NEW r \in Handlers, NEW i \in Ids,
         ReadMeta(r, i) \/ Delete(r, i) \/ DropExpired(r, i)
  PROVE  IInv'
  <1> USE InboxAssumption DEF InboxAssumption, IInv, files, Handlers
  <1>1. /\ At(r, "idle") /\ meta[i] = "whole" /\ i \in drawn
        /\ UNCHANGED <<blob, meta, expired, restarts, drawn, sent, left>>
        /\ leaving \subseteq leaving' /\ leaving' \subseteq leaving \cup {i}
        /\ \A q \in Handlers \ {r} : req'[q] = req[q]
        /\ \E pc \in {"open", "unblob"} :
             /\ req'[r] = [pc |-> pc, id |-> i]
             /\ pc = "unblob" => i \in leaving' \cup expired
    BY DEF ReadMeta, Delete, DropExpired, Drawn, Handler, TypeOK
  <1>2. TypeOK'
    BY <1>1 DEF TypeOK, ReadMeta, Delete, DropExpired, Handler
  <1>3. Drawn'
    BY <1>1 DEF Drawn, At
  <1>4. ASSUME NEW q \in Handlers PROVE Knows(q)'
    <2>1. CASE q = r
      BY <1>1, <2>1 DEF Knows, Uploading, Arrived, Removing, At
    <2>2. CASE q # r
      <3>1. req'[q] = req[q] /\ (req[q].pc \in {"seal", "sealed", "meta"} => req[q].id # i)
        BY <1>1, <2>2 DEF Uploading, At
      <3>2. Uploading(q)'
        BY <1>1, <3>1 DEF Uploading, At
      <3>3. Arrived(q)' /\ Removing(q)'
        BY <1>1, <3>1 DEF Arrived, Removing, At
      <3>4. QED
        BY <3>2, <3>3 DEF Knows
    <2>3. QED
      BY <2>1, <2>2
  <1>5. Available' /\ GoneForGood'
    BY <1>1 DEF Available, GoneForGood
  <1>6. QED
    BY <1>2, <1>3, <1>4, <1>5 DEF Knows

\* A step of r that changes the files of its own message only, which is r's
\* upload or was to go and keeps going.
OwnMessageOnly(r) ==
  LET i == req[r].id IN
  /\ ~At(r, "idle")
  /\ \A q \in Handlers \ {r} : req'[q] = req[q]
  /\ req'[r].id \in {i, NoId}
  /\ \A j \in Ids \ {i} : blob'[j] = blob[j] /\ meta'[j] = meta[j]
  /\ drawn' = drawn /\ expired' = expired
  /\ leaving \subseteq leaving' /\ leaving' \subseteq leaving \cup {i}
  /\ sent \subseteq sent' /\ sent' \subseteq sent \cup {i}
  /\ \/ req[r].pc \in {"seal", "sealed", "meta"}
     \/ i \in leaving \cup expired /\ blob'[i] \in {"none", blob[i]}
     \/ blob' = blob /\ meta' = meta

\* What the other handlers know survives such a step.
LEMMA Others ==
  ASSUME IInv, NEW r \in Handlers, OwnMessageOnly(r), NEW q \in Handlers \ {r}
  PROVE  Knows(q)'
  <1> USE InboxAssumption DEF InboxAssumption, IInv, Handlers, OwnMessageOnly
  <1>1. CASE req[q].id = req[r].id
    <2>1. req[q].pc \notin {"seal", "sealed", "meta"} /\ req[r].pc \notin {"seal", "sealed", "meta"}
      BY <1>1 DEF Uploading
    <2>2. ~At(q, "idle") => req[q].id \in Ids
      BY DEF Drawn, TypeOK
    <2>3. Arrived(q)' /\ Removing(q)'
      BY <1>1, <2>1, <2>2 DEF Arrived, Removing, At
    <2>4. QED
      BY <2>1, <2>3 DEF Knows, Uploading
  <1>2. CASE req[q].id # req[r].id
    <2>1. ~At(q, "idle") => req[q].id \in Ids
      BY DEF Drawn, TypeOK
    <2>2. Uploading(q)'
      <3> SUFFICES ASSUME req[q].pc \in {"seal", "sealed", "meta"} PROVE Uploading(q)'
        BY DEF Uploading
      <3>1. req[q].id \in Ids
        BY <2>1 DEF At
      <3>2. \A p \in Handlers : req'[p].id = req[q].id => p = q
        BY <1>2, <3>1 DEF Uploading
      <3>3. QED
        BY <1>2, <3>1, <3>2 DEF Uploading, At
    <2>3. Arrived(q)' /\ Removing(q)'
      BY <1>2, <2>1 DEF Arrived, Removing, At
    <2>4. QED
      BY <2>2, <2>3 DEF Knows
  <1>3. QED
    BY <1>1, <1>2

\* A new message is its upload's alone.
LEMMA Uploaded ==
  ASSUME IInv, NEW r \in Requests, NEW i \in Ids, Upload(r, i)
  PROVE  IInv'
  <1> USE InboxAssumption DEF InboxAssumption, IInv, Handlers
  <1>1. /\ At(r, "idle") /\ i \notin drawn /\ drawn' = drawn \cup {i}
        /\ meta[i] = "none" /\ i \notin leaving \cup expired \cup sent
        /\ blob' = [blob EXCEPT ![i] = "tmp"]
        /\ req'[r] = [pc |-> "seal", id |-> i]
        /\ \A q \in Handlers \ {r} : req'[q] = req[q]
        /\ UNCHANGED <<meta, expired, restarts, sent, leaving, left>>
    BY DEF Upload, Drawn, TypeOK, Handler
  <1>2. \A q \in Handlers : req[q].id # i
    BY <1>1 DEF Drawn, Idle, Handler
  <1>3. /\ blob'[i] = "tmp"
        /\ \A j \in Ids \ {i} : blob'[j] = blob[j]
    BY <1>1 DEF TypeOK
  <1>4. TypeOK'
    BY <1>1 DEF TypeOK, Upload, Handler, Sending
  <1>5. Drawn'
    BY <1>1, <1>3 DEF Drawn, At, TypeOK
  <1>6. ASSUME NEW q \in Handlers PROVE Knows(q)'
    <2>1. CASE q = r
      BY <1>1, <1>2, <1>3, <2>1 DEF Knows, Uploading, Arrived, Removing, At
    <2>2. CASE q # r
      <3>1. ~At(q, "idle") => req[q].id \in Ids /\ req[q].id # i
        BY <1>2 DEF Drawn, TypeOK
      <3>2. Uploading(q)'
        BY <1>1, <1>3, <2>2, <3>1 DEF Uploading, At
      <3>3. Arrived(q)' /\ Removing(q)'
        BY <1>1, <1>3, <2>2, <3>1 DEF Arrived, Removing, At
      <3>4. QED
        BY <3>2, <3>3 DEF Knows
    <2>3. QED
      BY <2>1, <2>2
  <1>7. Available' /\ GoneForGood'
    BY <1>1, <1>3 DEF Available, GoneForGood, TypeOK
  <1>8. QED
    BY <1>4, <1>5, <1>6, <1>7 DEF Knows

\* Where a handler is after a step.
LEMMA Moved ==
  ASSUME TypeOK, NEW r \in Handlers, NEW pc, Goto(r, pc) \/ Answer(r)
  PROVE  /\ \A q \in Handlers \ {r} : req'[q] = req[q]
         /\ req'[r] \in {[pc |-> pc, id |-> req[r].id], Idle}
         /\ Goto(r, pc) => req'[r] = [pc |-> pc, id |-> req[r].id]
         /\ Answer(r) => req'[r] = Idle
  BY DEF TypeOK, Goto, Answer, Handler, Handlers

\* What is left to show of a step that is about one message.
WellDone(r) ==
  LET i == req[r].id IN
  /\ i \notin leaving' \cup expired =>
       /\ i \in sent' => meta'[i] = "whole"
       /\ meta'[i] = "whole" => blob'[i] = "whole"
  /\ left \subseteq left' /\ left' \subseteq left \cup {i}
  /\ i \in left' => blob'[i] = "none" /\ meta'[i] = "none"
  /\ \/ req'[r] = Idle
     \/ req'[r].pc # "idle" /\ req'[r].id = i

LEMMA OwnMessage ==
  ASSUME IInv, NEW r \in Handlers, OwnMessageOnly(r), WellDone(r), TypeOK', Knows(r)'
  PROVE  IInv'
  <1> DEFINE i == req[r].id
  <1> USE InboxAssumption DEF InboxAssumption, IInv, Handlers
  <1>1. i \in drawn /\ i \in Ids
    BY DEF OwnMessageOnly, Drawn, TypeOK
  <1>2. Drawn'
    <2>1. ASSUME NEW q \in Handlers
          PROVE  IF At(q, "idle")' THEN req'[q] = Idle ELSE req'[q].id \in drawn'
      <3>1. CASE q = r
        BY <1>1, <3>1 DEF OwnMessageOnly, WellDone, At, Idle, Handler
      <3>2. CASE q # r
        BY <3>2 DEF OwnMessageOnly, Drawn, At
      <3>3. QED
        BY <3>1, <3>2
    <2>2. QED
      BY <1>1, <2>1 DEF OwnMessageOnly, Drawn
  <1>3. \A q \in Handlers : Knows(q)'
    BY Others
  <1>4. Available' /\ GoneForGood'
    BY <1>1 DEF OwnMessageOnly, WellDone, Available, GoneForGood, TypeOK
  <1>5. QED
    BY <1>2, <1>3, <1>4 DEF Knows

\* Steps of an upload nobody else knows of: the message is not yet in the inbox.
LEMMA UploadAdvances ==
  ASSUME IInv, NEW r \in Requests, Sealed(r) \/ CreateMeta(r) \/ WriteMeta(r)
  PROVE  IInv'
  <1> DEFINE i == req[r].id
             next == IF Sealed(r) THEN "sealed" ELSE IF CreateMeta(r) THEN "meta" ELSE "written"
  <1> USE InboxAssumption DEF InboxAssumption, IInv, Handlers
  <1>1. /\ req[r].pc \in {"seal", "sealed", "meta"} /\ ~At(r, "idle") /\ i \in Ids
        /\ i \notin leaving \cup expired \cup sent
        /\ blob[i] = (IF At(r, "seal") THEN "tmp" ELSE "whole")
        /\ meta[i] = (IF At(r, "meta") THEN "part" ELSE "none")
        /\ \A q \in Handlers : req[q].id = i => q = r
        /\ Goto(r, next)
        /\ UNCHANGED <<expired, restarts, drawn, sent, leaving, left>>
    BY DEF Sealed, CreateMeta, WriteMeta, Uploading, At, Drawn, TypeOK
  <1>2. /\ req'[r] = [pc |-> next, id |-> i]
        /\ \A q \in Handlers \ {r} : req'[q] = req[q]
    BY <1>1, Moved
  <1>3. /\ \A j \in Ids \ {i} : blob'[j] = blob[j] /\ meta'[j] = meta[j]
        /\ blob'[i] = "whole"
        /\ meta'[i] = (IF Sealed(r) THEN "none" ELSE IF CreateMeta(r) THEN "part" ELSE "whole")
    BY <1>1 DEF Sealed, CreateMeta, WriteMeta, At, Put, TypeOK
  <1>4. TypeOK'
    BY <1>1 DEF TypeOK, Sealed, CreateMeta, WriteMeta, Goto, Put, Handler, Sending
  <1>5. OwnMessageOnly(r)
    BY <1>1, <1>2, <1>3 DEF OwnMessageOnly
  <1>6. WellDone(r)
    BY <1>1, <1>2, <1>3, <1>4 DEF WellDone, TypeOK
  <1>7. Knows(r)'
    BY <1>1, <1>2, <1>3 DEF Knows, Uploading, Arrived, Removing, At
  <1>8. QED
    BY <1>4, <1>5, <1>6, <1>7, OwnMessage

\* A refused upload was nobody else's either; what there is of it is removed.
LEMMA UploadRefused ==
  ASSUME IInv, NEW r \in Requests, OverLimit(r) \/ WriteMetaFails(r)
  PROVE  IInv'
  <1> DEFINE i == req[r].id
  <1> USE InboxAssumption DEF InboxAssumption, IInv, Handlers
  <1>1. /\ req[r].pc \in {"sealed", "meta"} /\ ~At(r, "idle") /\ i \in Ids /\ i \in drawn
        /\ i \notin leaving
        /\ leaving' = leaving \cup {i} /\ Goto(r, "unblob")
        /\ UNCHANGED <<blob, meta, expired, restarts, drawn, sent, left>>
    BY DEF OverLimit, WriteMetaFails, Uploading, At, Drawn, TypeOK, files
  <1>2. /\ req'[r] = [pc |-> "unblob", id |-> i]
        /\ \A q \in Handlers \ {r} : req'[q] = req[q]
    BY <1>1, Moved
  <1>3. TypeOK'
    BY <1>1 DEF TypeOK, Goto, Handler
  <1>4. OwnMessageOnly(r)
    BY <1>1, <1>2 DEF OwnMessageOnly
  <1>5. WellDone(r)
    BY <1>1, <1>2 DEF WellDone, TypeOK
  <1>6. Knows(r)'
    BY <1>1, <1>2 DEF Knows, Uploading, Arrived, Removing, At
  <1>7. QED
    BY <1>3, <1>4, <1>5, <1>6, OwnMessage

LEMMA SealBreaksOff ==
  ASSUME IInv, NEW r \in Requests, SealFails(r)
  PROVE  IInv'
  <1> DEFINE i == req[r].id
  <1> USE InboxAssumption DEF InboxAssumption, IInv, Handlers
  <1>1. /\ req[r].pc = "seal" /\ ~At(r, "idle") /\ i \in Ids /\ i \in drawn
        /\ i \notin leaving /\ meta[i] = "none"
        /\ leaving' = leaving \cup {i} /\ left' = left \cup {i} /\ Answer(r)
        /\ blob' = [blob EXCEPT ![i] = "none"]
        /\ UNCHANGED <<meta, expired, restarts, drawn, sent>>
    BY DEF SealFails, Put, Uploading, At, Drawn, TypeOK
  <1>2. req'[r] = Idle /\ \A q \in Handlers \ {r} : req'[q] = req[q]
    BY <1>1, Moved
  <1>3. blob'[i] = "none" /\ \A j \in Ids \ {i} : blob'[j] = blob[j]
    BY <1>1 DEF TypeOK
  <1>4. TypeOK'
    BY <1>1 DEF TypeOK, Answer, Idle, Handler
  <1>5. OwnMessageOnly(r)
    BY <1>1, <1>2, <1>3 DEF OwnMessageOnly, Idle, Handler
  <1>6. WellDone(r)
    BY <1>1, <1>2, <1>3 DEF WellDone
  <1>7. Knows(r)'
    BY <1>2 DEF Knows, Uploading, Arrived, Removing, At, Idle, Handler
  <1>8. QED
    BY <1>4, <1>5, <1>6, <1>7, OwnMessage

\* The steps that only look, or only tell: a delivery makes the message one to
\* go, and "sent" is said of a message that is in the inbox.
LEMMA FilesKept ==
  ASSUME IInv, NEW r \in Requests,
         Sent(r) \/ OpenBlob(r) \/ Delivered(r) \/ Undelivered(r)
  PROVE  IInv'
  <1> DEFINE i == req[r].id
  <1> USE InboxAssumption DEF InboxAssumption, IInv, Handlers
  <1>1. /\ req[r].pc \in {"written", "open", "stream"} /\ ~At(r, "idle") /\ i \in Ids /\ i \in drawn
        /\ UNCHANGED <<blob, meta, expired, restarts, drawn, left>>
        /\ sent' = IF Sent(r) THEN sent \cup {i} ELSE sent
        /\ leaving' = IF Delivered(r) THEN leaving \cup {i} ELSE leaving
        /\ Sent(r) => i \in leaving \cup expired \/ meta[i] = "whole"
    BY DEF Sent, OpenBlob, Delivered, Undelivered, Arrived, At, Drawn, TypeOK, files
  <1>2. \/ Answer(r)
        \/ OpenBlob(r) /\ Goto(r, "stream")
        \/ Delivered(r) /\ Goto(r, "unblob")
    BY DEF Sent, OpenBlob, Delivered, Undelivered
  <1>3. /\ \/ req'[r] = Idle
           \/ req'[r] = [pc |-> "stream", id |-> i]
           \/ Delivered(r) /\ req'[r] = [pc |-> "unblob", id |-> i]
        /\ \A q \in Handlers \ {r} : req'[q] = req[q]
    BY <1>2, Moved
  <1>4. TypeOK'
    BY <1>1, <1>2 DEF TypeOK, Answer, Goto, Idle, Handler
  <1>5. OwnMessageOnly(r)
    BY <1>1, <1>3 DEF OwnMessageOnly, Idle, Handler
  <1>6. WellDone(r)
    BY <1>1, <1>3 DEF WellDone, Available, GoneForGood
  <1>7. Knows(r)'
    BY <1>1, <1>3 DEF Knows, Uploading, Arrived, Removing, At, Idle, Handler
  <1>8. QED
    BY <1>4, <1>5, <1>6, <1>7, OwnMessage

\* The blob of a message that is to go is removed; it may be gone already.
LEMMA BlobRemoved ==
  ASSUME IInv, NEW r \in Handlers, Unblob(r)
  PROVE  IInv'
  <1> DEFINE i == req[r].id
  <1> USE InboxAssumption DEF InboxAssumption, IInv, Handlers
  <1>1. /\ At(r, "unblob") /\ ~At(r, "idle") /\ i \in Ids /\ i \in drawn
        /\ i \in leaving \cup expired
        /\ blob' = [blob EXCEPT ![i] = "none"] /\ Goto(r, "unmeta")
        /\ UNCHANGED <<meta, expired, restarts, drawn, sent, leaving, left>>
    BY DEF Unblob, Put, Removing, At, Drawn, TypeOK
  <1>2. /\ req'[r] = [pc |-> "unmeta", id |-> i]
        /\ \A q \in Handlers \ {r} : req'[q] = req[q]
    BY <1>1, Moved
  <1>3. blob'[i] = "none" /\ \A j \in Ids \ {i} : blob'[j] = blob[j]
    BY <1>1 DEF TypeOK
  <1>4. TypeOK'
    BY <1>1 DEF TypeOK, Goto, Handler
  <1>5. OwnMessageOnly(r)
    BY <1>1, <1>2, <1>3 DEF OwnMessageOnly
  <1>6. WellDone(r)
    BY <1>1, <1>2, <1>3 DEF WellDone, GoneForGood
  <1>7. Knows(r)'
    BY <1>1, <1>2, <1>3 DEF Knows, Uploading, Arrived, Removing, At
  <1>8. QED
    BY <1>4, <1>5, <1>6, <1>7, OwnMessage

\* The metadata goes after the blob, and then nothing is left.
LEMMA MetaRemoved ==
  ASSUME IInv, NEW r \in Handlers, Unmeta(r)
  PROVE  IInv'
  <1> DEFINE i == req[r].id
  <1> USE InboxAssumption DEF InboxAssumption, IInv, Handlers
  <1>1. /\ At(r, "unmeta") /\ ~At(r, "idle") /\ i \in Ids /\ i \in drawn
        /\ i \in leaving \cup expired /\ blob[i] = "none"
        /\ meta' = [meta EXCEPT ![i] = "none"] /\ Answer(r)
        /\ left' = left \cup ({i} \cap leaving)
        /\ UNCHANGED <<blob, expired, restarts, drawn, sent, leaving>>
    BY DEF Unmeta, Put, Removing, At, Drawn, TypeOK
  <1>2. req'[r] = Idle /\ \A q \in Handlers \ {r} : req'[q] = req[q]
    BY <1>1, Moved
  <1>3. meta'[i] = "none" /\ \A j \in Ids \ {i} : meta'[j] = meta[j]
    BY <1>1 DEF TypeOK
  <1>4. TypeOK'
    BY <1>1 DEF TypeOK, Answer, Idle, Handler
  <1>5. OwnMessageOnly(r)
    BY <1>1, <1>2, <1>3 DEF OwnMessageOnly, Idle, Handler
  <1>6. WellDone(r)
    BY <1>1, <1>2, <1>3 DEF WellDone
  <1>7. Knows(r)'
    BY <1>2 DEF Knows, Uploading, Arrived, Removing, At, Idle, Handler
  <1>8. QED
    BY <1>4, <1>5, <1>6, <1>7, OwnMessage

\* Time and restarts take no file away.
LEMMA Outside ==
  ASSUME IInv, Restart \/ \E i \in Ids : Expire(i)
  PROVE  IInv'
  <1> USE InboxAssumption DEF InboxAssumption, IInv, Handlers, files
  <1>1. CASE Restart
    <2>1. \A r \in Handlers : req'[r] = Idle
      BY <1>1 DEF Restart
    <2>2. TypeOK'
      BY <1>1 DEF TypeOK, Restart, Idle, Handler
    <2>3. Drawn' /\ Available' /\ GoneForGood'
      BY <1>1, <2>1 DEF Restart, Drawn, Available, GoneForGood, At, Idle, Handler
    <2>4. \A r \in Handlers : Knows(r)'
      BY <2>1 DEF Knows, Uploading, Arrived, Removing, At, Idle, Handler
    <2>5. QED
      BY <2>2, <2>3, <2>4 DEF Knows
  <1>2. ASSUME NEW i \in Ids, Expire(i) PROVE IInv'
    <2>1. /\ meta[i] = "whole" /\ i \in drawn /\ expired' = expired \cup {i}
          /\ UNCHANGED <<blob, meta, req, restarts, drawn, sent, leaving, left>>
      BY <1>2 DEF Expire, Drawn, TypeOK
    <2>2. TypeOK' /\ Drawn' /\ Available' /\ GoneForGood'
      BY <2>1 DEF TypeOK, Drawn, Available, GoneForGood, At
    <2>3. \A r \in Handlers : Knows(r)'
      BY <2>1 DEF Knows, Uploading, Arrived, Removing, At
    <2>4. QED
      BY <2>2, <2>3 DEF Knows
  <1>3. QED
    BY <1>1, <1>2

LEMMA InboxStep == IInv /\ [Next]_vars => IInv'
  <1> SUFFICES ASSUME IInv, [Next]_vars PROVE IInv'
    OBVIOUS
  <1> USE DEF Handlers
  <1>1. ASSUME NEW r \in Requests, Take(r) PROVE IInv'
    BY <1>1, Started, Uploaded DEF Take
  <1>2. ASSUME NEW r \in Requests, Step(r) PROVE IInv'
    BY <1>2, UploadAdvances, UploadRefused, SealBreaksOff, FilesKept DEF Step
  <1>3. ASSUME NEW r \in Handlers, Remove(r) PROVE IInv'
    BY <1>3, BlobRemoved, MetaRemoved DEF Remove
  <1>4. ASSUME NEW i \in Ids, Sweep(i) PROVE IInv'
    BY <1>4, Started DEF Sweep
  <1>5. CASE Restart \/ \E i \in Ids : Expire(i)
    BY <1>5, Outside
  <1>6. CASE UNCHANGED vars
    BY <1>6 DEF vars, files, IInv, TypeOK, Drawn, Uploading, Arrived, Removing, Available,
                GoneForGood, At
  <1>7. QED
    BY <1>1, <1>2, <1>3, <1>4, <1>5, <1>6 DEF Next

\* The invariant of the two files of each message, for any ids, handlers in
\* flight, upload slots and restarts (accounts.go, accounts_handlers.go).
THEOREM InboxInvariant == Spec => []IInv
  BY InboxInitial, InboxStep, PTL DEF Spec

\* A message that was sent, or shows in the inbox, can be downloaded until it
\* was delivered, deleted or expired.
THEOREM InboxAvailable == Spec => []Available
  <1>1. IInv => Available
    BY DEF IInv
  <1>2. QED
    BY <1>1, InboxInvariant, PTL

\* After the answer to a delivery, a deletion or a refusal no file comes back.
THEOREM InboxGoneForGood == Spec => []GoneForGood
  <1>1. IInv => GoneForGood
    BY DEF IInv
  <1>2. QED
    BY <1>1, InboxInvariant, PTL
=============================================================================
