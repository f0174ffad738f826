----------------------------- MODULE RelayProofs ----------------------------
(***************************************************************************)
(* Theorems about the two parts of the relay: Relay, for every set of codes *)
(* and downloads and every Size, TTL and MaxCrashes, and RateLimiter, for   *)
(* any finite number of requests, any clients, limit and window, and any    *)
(* lag shorter than the window.                                             *)
(***************************************************************************)
EXTENDS Relay, RateLimiter, FiniteSetTheorems, TLAPS


LEMMA RelayInit == Init => IInv
  <1> SUFFICES ASSUME Init PROVE IInv
    OBVIOUS
  <1> USE RelayAssumption DEF Init
  <1>1. TypeOK
    BY DEF TypeOK, UploadPc, DownloadPc, Name, Entry
  <1>2. NamesTellState /\ WonIsTaken /\ OneTime /\ TakenOrExpired /\ SweepMemory
    BY DEF NamesTellState, WonIsTaken, OneTime, TakenOrExpired, SweepMemory, Won, Published
  <1>3. QED
    BY <1>1, <1>2 DEF IInv

LEMMA RelayUploadStep ==
  ASSUME IInv, NEW c \in Codes, UploadStep(c)
  PROVE  IInv'
  <1> USE RelayAssumption DEF IInv, TypeOK, disk, handlers, sweeper, UploadPc, Entry, Name
  <1>1. CASE UploadBegin(c)
    BY <1>1 DEF UploadBegin, NamesTellState, WonIsTaken, OneTime, TakenOrExpired,
                SweepMemory, Won, Published
  <1>2. CASE UploadChunk(c)
    BY <1>2 DEF UploadChunk, NamesTellState, WonIsTaken, OneTime, TakenOrExpired,
                SweepMemory, Won, Published
  <1>3. CASE UploadClose(c)
    BY <1>3 DEF UploadClose, NamesTellState, WonIsTaken, OneTime, TakenOrExpired,
                SweepMemory, Won, Published
  <1>4. CASE UploadFail(c)
    BY <1>4 DEF UploadFail, NamesTellState, WonIsTaken, OneTime, TakenOrExpired,
                SweepMemory, Won, Published
  <1>5. CASE UploadRename(c)
    BY <1>5 DEF UploadRename, NamesTellState, WonIsTaken, OneTime, TakenOrExpired,
                SweepMemory, Won, Published
  <1>6. CASE UploadReply(c)
    BY <1>6 DEF UploadReply, NamesTellState, WonIsTaken, OneTime, TakenOrExpired,
                SweepMemory, Won, Published
  <1>7. QED
    BY <1>1, <1>2, <1>3, <1>4, <1>5, <1>6 DEF UploadStep

LEMMA RelayDownloadStep ==
  ASSUME IInv, NEW d \in Downloads, DownloadStep(d)
  PROVE  IInv'
  <1> USE RelayAssumption DEF IInv, TypeOK, disk, handlers, sweeper, DownloadPc, Entry, Name, Present
  <1>1. ASSUME NEW c \in Codes, DownloadClaim(d, c)
        PROVE  IInv'
    BY <1>1 DEF DownloadClaim, NamesTellState, WonIsTaken, OneTime, TakenOrExpired,
                SweepMemory, Won, Published
  <1>2. ASSUME NEW c \in Codes, DownloadMiss(d, c)
        PROVE  IInv'
    BY <1>2 DEF DownloadMiss, NamesTellState, WonIsTaken, OneTime, TakenOrExpired,
                SweepMemory, Won, Published
  <1>3. CASE DownloadOpen(d)
    BY <1>3 DEF DownloadOpen, NamesTellState, WonIsTaken, OneTime, TakenOrExpired,
                SweepMemory, Won, Published
  <1>4. CASE DownloadCopy(d)
    BY <1>4 DEF DownloadCopy, NamesTellState, WonIsTaken, OneTime, TakenOrExpired,
                SweepMemory, Won, Published
  <1>5. CASE DownloadAbort(d)
    BY <1>5 DEF DownloadAbort, NamesTellState, WonIsTaken, OneTime, TakenOrExpired,
                SweepMemory, Won, Published
  <1>6. CASE DownloadRemove(d)
    BY <1>6 DEF DownloadRemove, NamesTellState, WonIsTaken, OneTime, TakenOrExpired,
                SweepMemory, Won, Published
  <1>7. QED
    BY <1>1, <1>2, <1>3, <1>4, <1>5, <1>6 DEF DownloadStep

LEMMA RelaySweepStep ==
  ASSUME IInv, SweepStep
  PROVE  IInv'
  <1> USE RelayAssumption DEF IInv, TypeOK, disk, handlers, sweeper, Entry, Name
  <1>1. CASE SweepStart
    BY <1>1 DEF SweepStart, NamesTellState, WonIsTaken, OneTime, TakenOrExpired,
                SweepMemory, Won, Published
  <1>2. ASSUME NEW n \in Name, SweepStat(n)
        PROVE  IInv'
    BY <1>2 DEF SweepStat, NamesTellState, WonIsTaken, OneTime, TakenOrExpired,
                SweepMemory, Won, Published
  <1>3. CASE SweepRemove
    BY <1>3 DEF SweepRemove, NamesTellState, WonIsTaken, OneTime, TakenOrExpired,
                SweepMemory, Won, Published
  <1>4. CASE SweepEnd
    BY <1>4 DEF SweepEnd, NamesTellState, WonIsTaken, OneTime, TakenOrExpired,
                SweepMemory, Won, Published
  <1>5. QED
    BY <1>1, <1>2, <1>3, <1>4 DEF SweepStep

LEMMA RelayTick == IInv /\ Tick => IInv'
  BY RelayAssumption DEF IInv, TypeOK, Tick, disk, handlers, sweeper, Entry, Name,
     NamesTellState, WonIsTaken, OneTime, TakenOrExpired, SweepMemory, Won, Published

LEMMA RelayCrash == IInv /\ Crash => IInv'
  BY RelayAssumption DEF IInv, TypeOK, Crash, disk, handlers, sweeper, Entry, Name,
     UploadPc, DownloadPc,
     NamesTellState, WonIsTaken, OneTime, TakenOrExpired, SweepMemory, Won, Published

\* The inductive invariant, type correctness included, holds in every state the
\* relay reaches: whatever uploads, downloads, sweeps, ticks and crashes
\* interleave.
THEOREM RelayInvariant == Spec => []IInv
  <1>1. Init => IInv
    BY RelayInit
  <1>2. IInv /\ [Next]_vars => IInv'
    <2> SUFFICES ASSUME IInv, [Next]_vars PROVE IInv'
      OBVIOUS
    <2>1. CASE \E c \in Codes : UploadStep(c)
      BY <2>1, RelayUploadStep
    <2>2. CASE \E d \in Downloads : DownloadStep(d)
      BY <2>2, RelayDownloadStep
    <2>3. CASE SweepStep
      BY <2>3, RelaySweepStep
    <2>4. CASE Tick
      BY <2>4, RelayTick
    <2>5. CASE Crash
      BY <2>5, RelayCrash
    <2>6. CASE UNCHANGED vars
      BY <2>6 DEF vars, IInv, TypeOK, NamesTellState, WonIsTaken, OneTime,
                  TakenOrExpired, SweepMemory, Won, Published
    <2>7. QED
      BY <2>1, <2>2, <2>3, <2>4, <2>5, <2>6 DEF Next
  <1>3. QED
    BY <1>1, <1>2, PTL DEF Spec

\* main.go:178-180: renaming the blob makes the download one-time; no two
\* requests ever win the same code.
THEOREM RelayOneTime == Spec => []OneTime
  <1>1. IInv => OneTime
    BY DEF IInv
  <1>2. QED
    BY <1>1, RelayInvariant, PTL

\* main.go:134-135: a download never streams a half-written blob.
THEOREM RelayNeverHalfWritten == Spec => []NeverHalfWritten
  <1>1. IInv => NeverHalfWritten
    BY DEF IInv, NeverHalfWritten, NamesTellState, WonIsTaken, Won, Published
  <1>2. QED
    BY <1>1, RelayInvariant, PTL

\* handleUpload's answer is a promise: the blob of a code an uploader holds is
\* stored, or was won by a request, or outlived the TTL.
THEOREM RelayAccounted == Spec => []Accounted
  <1>1. IInv => Accounted
    BY DEF IInv, Accounted, TakenOrExpired, Published
  <1>2. QED
    BY <1>1, RelayInvariant, PTL

\* sweepOnce deletes by a name it looked at earlier; no published blob younger
\* than the TTL falls to it.
THEOREM RelayKeepsUntilTTL == Spec => KeepsUntilTTL
  <1> DEFINE Kept == \A c \in Codes : at[c] \in {"blob", "claimed"} /\ at'[c] = "none" =>
                       \/ age[c] > TTL
                       \/ \E d \in Downloads : target[d] = c /\ download'[d] # download[d]
  <1>1. IInv /\ [Next]_vars => [Kept]_vars
    <2> SUFFICES ASSUME IInv, Next, NEW c \in Codes,
                        at[c] \in {"blob", "claimed"}, at'[c] = "none"
                 PROVE  \/ age[c] > TTL
                        \/ \E d \in Downloads : target[d] = c /\ download'[d] # download[d]
      OBVIOUS
    <2> USE DEF IInv, TypeOK, disk, handlers, sweeper
    <2>1. CASE \E x \in Codes : UploadStep(x)
      BY <2>1 DEF UploadStep, UploadBegin, UploadChunk, UploadClose, UploadFail,
                  UploadRename, UploadReply, NamesTellState, Published
    <2>2. ASSUME NEW d \in Downloads, DownloadStep(d)
          PROVE  target[d] = c /\ download'[d] # download[d]
      <3>1. at'[c] # at[c]
        OBVIOUS
      <3>2. CASE DownloadAbort(d)
        BY <3>1, <3>2 DEF DownloadAbort
      <3>3. CASE DownloadRemove(d)
        BY <3>1, <3>3 DEF DownloadRemove
      <3>4. QED
        BY <2>2, <3>1, <3>2, <3>3 DEF DownloadStep, DownloadClaim, DownloadMiss,
                                      DownloadOpen, DownloadCopy, Present
    <2>3. CASE SweepStep
      <3>1. SweepRemove
        BY <2>3 DEF SweepStep, SweepStart, SweepStat, SweepEnd
      <3>2. <<at[c], c>> \in sweep.victim
        BY <3>1 DEF SweepRemove
      <3>3. c \in stale
        BY <3>2 DEF SweepMemory
      <3>4. QED
        BY <3>3 DEF SweepMemory
    <2>4. CASE Tick \/ Crash
      BY <2>4 DEF Tick, Crash
    <2>5. QED
      BY <2>1, <2>2, <2>3, <2>4 DEF Next
  <1>2. QED
    BY <1>1, RelayInvariant, PTL DEF Spec, KeepsUntilTTL

\* main.go:178: what a request claimed only another request of that code could
\* take away, and there is none (OneTime), or a sweep, when it is overdue.
THEOREM RelayWinnerServed == Spec => []WinnerServed
  <1> DEFINE Stands == ClaimStands /\ WinnerServed
  <1>1. Init => Stands
    BY DEF Init, ClaimStands, WinnerServed
  <1>2. IInv /\ Stands /\ [Next]_vars => Stands'
    <2> SUFFICES ASSUME IInv, Stands, [Next]_vars PROVE Stands'
      OBVIOUS
    <2> USE DEF IInv, TypeOK, disk, handlers, sweeper, ClaimStands, WinnerServed, Won
    <2>1. CASE \E c \in Codes : UploadStep(c)
      BY <2>1 DEF UploadStep, UploadBegin, UploadChunk, UploadClose, UploadFail,
                  UploadRename, UploadReply, WonIsTaken
    <2>2. ASSUME NEW d \in Downloads, DownloadStep(d)
          PROVE  Stands'
      <3>1. ASSUME NEW e \in Downloads \ {d}, Won(e)
            PROVE  /\ download'[e] = download[e] /\ target'[e] = target[e]
                   /\ at'[target[e]] = at[target[e]]
        <4>1. download'[e] = download[e] /\ target'[e] = target[e]
          BY <2>2, <3>1 DEF DownloadStep, DownloadClaim, DownloadMiss, DownloadOpen,
                            DownloadCopy, DownloadAbort, DownloadRemove, Present
        <4>2. at[target[e]] # "blob" /\ target[e] \in Codes
          BY <3>1 DEF WonIsTaken
        <4>3. Won(d) => target[d] # target[e]
          BY <3>1 DEF OneTime
        <4>4. at'[target[e]] = at[target[e]]
          BY <2>2, <4>2, <4>3 DEF DownloadStep, DownloadClaim, DownloadMiss, DownloadOpen,
                            DownloadCopy, DownloadAbort, DownloadRemove, Present
        <4>5. QED
          BY <4>1, <4>4
      <3>2. age' = age
        BY <2>2 DEF DownloadStep, DownloadClaim, DownloadMiss, DownloadOpen,
                    DownloadCopy, DownloadAbort, DownloadRemove
      <3>3. /\ download'[d] = "claimed" => at'[target'[d]] = "claimed"
            /\ download'[d] = "vanished" => age'[target'[d]] > TTL
        BY <2>2, <3>2 DEF DownloadStep, DownloadClaim, DownloadMiss, DownloadOpen,
                    DownloadCopy, DownloadAbort, DownloadRemove, Present
      <3>4. ASSUME NEW e \in Downloads \ {d}
            PROVE  /\ download'[e] = "claimed" => at'[target'[e]] = "claimed" \/ age'[target'[e]] > TTL
                   /\ download'[e] = "vanished" => age'[target'[e]] > TTL
        <4>1. download'[e] = download[e] /\ target'[e] = target[e]
          BY <2>2 DEF DownloadStep, DownloadClaim, DownloadMiss, DownloadOpen,
                      DownloadCopy, DownloadAbort, DownloadRemove, Present
        <4>2. QED
          BY <3>1, <3>2, <4>1
      <3>5. QED
        BY <3>3, <3>4
    <2>3. CASE SweepStep
      <3>1. CASE SweepRemove
        <4>1. ASSUME NEW c \in Codes, at[c] = "claimed", at'[c] # "claimed"
              PROVE  age[c] > TTL
          BY <3>1, <4>1 DEF SweepRemove, SweepMemory
        <4>2. \A d \in Downloads : Won(d) => target[d] \in Codes
          BY DEF WonIsTaken
        <4>3. UNCHANGED <<age, download, target>>
          BY <3>1 DEF SweepRemove
        <4>4. QED
          BY <4>1, <4>2, <4>3
      <3>2. CASE ~SweepRemove
        BY <2>3, <3>2 DEF SweepStep, SweepStart, SweepStat, SweepEnd
      <3>3. QED
        BY <3>1, <3>2
    <2>4. CASE Tick
      <3>1. \A c \in Codes : age[c] > TTL => age'[c] > TTL
        BY <2>4, RelayAssumption DEF Tick
      <3>2. QED
        BY <2>4, <3>1 DEF Tick, WonIsTaken
    <2>5. CASE Crash
      BY <2>5 DEF Crash
    <2>6. CASE UNCHANGED vars
      BY <2>6 DEF vars
    <2>7. QED
      BY <2>1, <2>2, <2>3, <2>4, <2>5, <2>6 DEF Next
  <1>3. QED
    BY <1>1, <1>2, RelayInvariant, PTL DEF Spec

-----------------------------------------------------------------------------
(* Refinement: the relay implements OneTimeMailbox. *)

LEMMA MailboxInit == Init => Mailbox!Init
  BY DEF Init, Mailbox!Init, Published, Won

\* A step that moves no blob in or out of its name and wins nothing is invisible.
LEMMA MailboxStutter ==
  ASSUME IInv,
         \A c \in Codes : Published(c)' = Published(c) /\ ((at'[c] = "blob") <=> (at[c] = "blob")),
         \A d \in Downloads : (Won(d)' <=> Won(d)) /\ (Won(d) => target'[d] = target[d]),
         \A d \in Downloads : download'[d] \in {"copied", "served"}
                                <=> download[d] \in {"copied", "served"}
  PROVE  UNCHANGED Mailbox!vars
  BY DEF Mailbox!vars

\* The rename of an upload is Put; no other step of an upload shows.
LEMMA MailboxUpload ==
  ASSUME IInv, NEW c \in Codes, UploadStep(c)
  PROVE  [Mailbox!Next]_(Mailbox!vars)
  <1> USE DEF IInv, TypeOK, disk, handlers, sweeper
  <1>1. CASE UploadRename(c) /\ at[c] = "temp"
    <2>1. Mailbox!Put(c)
      BY <1>1 DEF UploadRename, Mailbox!Put, Published, Won
    <2>2. QED
      BY <2>1 DEF Mailbox!Next
  <1>2. CASE ~(UploadRename(c) /\ at[c] = "temp")
    <2>1. UNCHANGED <<download, target>>
      BY DEF UploadStep, UploadBegin, UploadChunk, UploadClose, UploadFail, UploadRename,
             UploadReply
    <2>2. \A x \in Codes : Published(x)' = Published(x) /\ ((at'[x] = "blob") <=> (at[x] = "blob"))
      BY <1>2 DEF UploadStep, UploadBegin, UploadChunk, UploadClose, UploadFail, UploadRename,
                  UploadReply, Published, NamesTellState
    <2>3. UNCHANGED Mailbox!vars
      BY <2>1, <2>2, MailboxStutter DEF Won
    <2>4. QED
      BY <2>3
  <1>3. QED
    BY <1>1, <1>2

\* Winning the rename is Take, finishing the copy is Deliver.
LEMMA MailboxDownload ==
  ASSUME IInv, NEW d \in Downloads, DownloadStep(d)
  PROVE  [Mailbox!Next]_(Mailbox!vars)
  <1> USE DEF IInv, TypeOK, disk, handlers, sweeper
  <1>1. ASSUME NEW c \in Codes, DownloadClaim(d, c)
        PROVE  Mailbox!Next
    <2>1. Mailbox!Take(d, c)
      BY <1>1, RelayAssumption DEF DownloadClaim, Present, Mailbox!Take, Published, Won
    <2>2. QED
      BY <2>1 DEF Mailbox!Next
  <1>2. CASE DownloadCopy(d)
    <2>1. Mailbox!Deliver(d)
      BY <1>2, RelayAssumption DEF DownloadCopy, Mailbox!Deliver, Published, Won, WonIsTaken
    <2>2. QED
      BY <2>1 DEF Mailbox!Next
  <1>3. CASE DownloadOpen(d) \/ DownloadAbort(d) \/ DownloadRemove(d)
             \/ \E c \in Codes : DownloadMiss(d, c)
    <2>1. \A x \in Codes : Published(x)' = Published(x) /\ ((at'[x] = "blob") <=> (at[x] = "blob"))
      BY <1>3 DEF DownloadOpen, DownloadAbort, DownloadRemove, DownloadMiss, Published,
                  WonIsTaken, Won
    <2>2. \A e \in Downloads : (Won(e)' <=> Won(e)) /\ (Won(e) => target'[e] = target[e])
      BY <1>3 DEF DownloadOpen, DownloadAbort, DownloadRemove, DownloadMiss, Present, Won
    <2>3. \A e \in Downloads : download'[e] \in {"copied", "served"}
                                 <=> download[e] \in {"copied", "served"}
      BY <1>3 DEF DownloadOpen, DownloadAbort, DownloadRemove, DownloadMiss, Present
    <2>4. QED
      BY <2>1, <2>2, <2>3, MailboxStutter
  <1>4. QED
    BY <1>1, <1>2, <1>3 DEF DownloadStep

\* Removing a blob under its code is Expire; nothing else the sweeper does shows.
LEMMA MailboxSweep ==
  ASSUME IInv, SweepStep
  PROVE  [Mailbox!Next]_(Mailbox!vars)
  <1> USE DEF IInv, TypeOK, disk, handlers, sweeper
  <1>1. ASSUME SweepRemove, NEW c \in Codes, <<"blob", c>> \in sweep.victim, at[c] = "blob"
        PROVE  Mailbox!Next
    <2>1. sweep.victim = {<<"blob", c>>}
      BY <1>1 DEF SweepMemory
    <2>2. at' = [at EXCEPT ![c] = "none"]
      BY <1>1, <2>1 DEF SweepRemove
    <2>3. Mailbox!Expire(c)
      BY <1>1, <2>2 DEF SweepRemove, Mailbox!Expire, Published, Won, NamesTellState
    <2>4. QED
      BY <2>3 DEF Mailbox!Next
  <1>2. CASE ~ \E c \in Codes : SweepRemove /\ <<"blob", c>> \in sweep.victim /\ at[c] = "blob"
    <2>1. UNCHANGED <<upload, download, target>>
      BY DEF SweepStep, SweepStart, SweepStat, SweepRemove, SweepEnd
    <2>2. \A x \in Codes : (at'[x] = "blob") <=> (at[x] = "blob")
      BY <1>2 DEF SweepStep, SweepStart, SweepStat, SweepRemove, SweepEnd
    <2>3. UNCHANGED Mailbox!vars
      BY <2>1, <2>2, MailboxStutter DEF Published, Won
    <2>4. QED
      BY <2>3
  <1>3. QED
    BY <1>1, <1>2

\* Time and crashes do not show: a restart keeps what was stored, and a
\* request that had won stays the only one.
LEMMA MailboxEnvironment ==
  ASSUME IInv, Tick \/ Crash \/ UNCHANGED vars
  PROVE  UNCHANGED Mailbox!vars
  <1>1. \A x \in Codes : Published(x)' = Published(x) /\ ((at'[x] = "blob") <=> (at[x] = "blob"))
    BY DEF Tick, Crash, vars, disk, handlers, Published, IInv, TypeOK
  <1>2. \A e \in Downloads : (Won(e)' <=> Won(e)) /\ (Won(e) => target'[e] = target[e])
    BY DEF Tick, Crash, vars, handlers, Won, IInv, TypeOK
  <1>3. \A e \in Downloads : download'[e] \in {"copied", "served"}
                               <=> download[e] \in {"copied", "served"}
    BY DEF Tick, Crash, vars, handlers, IInv, TypeOK
  <1>4. QED
    BY <1>1, <1>2, <1>3, MailboxStutter

\* main.go:8-14: clients that see only codes, claims and contents cannot tell
\* the relay, with its directory, sweeper and restarts, from a one-time mailbox.
THEOREM RelayImplementsMailbox == Spec => ImplementsMailbox
  <1>1. IInv /\ [Next]_vars => [Mailbox!Next]_(Mailbox!vars)
    BY MailboxUpload, MailboxDownload, MailboxSweep, MailboxEnvironment DEF Next
  <1>2. QED
    BY <1>1, MailboxInit, RelayInvariant, PTL DEF Spec, ImplementsMailbox, Mailbox!Spec

-----------------------------------------------------------------------------
(* Refinement: the relay is the store of the watchers. *)

\* The slot a mailbox has for a code, and what the store has for it.
Slot(c) == IF ~Published(c) THEN "empty" ELSE IF at[c] = "blob" THEN "held" ELSE "closed"
Blob(c) == IF ~Published(c) THEN "unused" ELSE IF at[c] = "blob" THEN "held" ELSE "gone"
Document(c) == IF Published(c) THEN {<<c, 1>>} ELSE {}

LEMMA SlotIsBlob ==
  ASSUME NEW c \in Codes
  PROVE  /\ Slot(c) = "empty" <=> Blob(c) = "unused"
         /\ Slot(c) = "held" <=> Blob(c) = "held"
         /\ Slot(c) = "closed" <=> Blob(c) = "gone"
         /\ Slot(c) = "empty" => Document(c) = {}
         /\ Slot(c) # "empty" => Document(c) = {<<c, 1>>}
         /\ Slot(c) \in {"empty", "held", "closed"}
  BY DEF Slot, Blob, Document

LEMMA SlotIsBlobNext ==
  ASSUME NEW c \in Codes
  PROVE  /\ Slot(c)' = "empty" <=> Blob(c)' = "unused"
         /\ Slot(c)' = "held" <=> Blob(c)' = "held"
         /\ Slot(c)' = "closed" <=> Blob(c)' = "gone"
         /\ Slot(c)' = "empty" => Document(c)' = {}
         /\ Slot(c)' # "empty" => Document(c)' = {<<c, 1>>}
         /\ Slot(c)' \in {"empty", "held", "closed"}
  BY DEF Slot, Blob, Document

\* Putting a blob in its slot puts it in the store, and taking it out of its
\* slot, for a reader or because it expired, takes it out of the store.
LEMMA MailboxIsStore ==
  ASSUME [Mailbox!Next]_(Mailbox!vars)
  PROVE  [\E c \in Codes : StoreStep(c)]_(Store!storeVars)
  <1>1. CASE \E c \in Codes : Mailbox!Put(c)
    <2>1. PICK c \in Codes : Mailbox!Put(c)
      BY <1>1
    <2>2. /\ Slot(c) = "empty" /\ Slot(c)' = "held"
          /\ \A x \in Codes : x # c => Slot(x)' = Slot(x)
      BY <2>1 DEF Mailbox!Put, Slot
    <2>3. /\ Blob(c) = "unused" /\ Blob(c)' = "held" /\ Document(c)' = {<<c, 1>>}
          /\ \A x \in Codes : x # c => Blob(x)' = Blob(x) /\ Document(x)' = Document(x)
      BY <2>2, SlotIsBlob, SlotIsBlobNext
    <2>4. Store!Put(c, <<c, 1>>)
      BY <2>3 DEF Store!Put, Blob, Document
    <2>5. QED
      BY <2>4 DEF StoreStep
  <1>2. CASE \E c \in Codes : Mailbox!Expire(c) \/ \E d \in Downloads : Mailbox!Take(d, c)
    <2>1. PICK c \in Codes : Mailbox!Expire(c) \/ \E d \in Downloads : Mailbox!Take(d, c)
      BY <1>2
    <2>2. /\ Slot(c) = "held" /\ Slot(c)' = "closed"
          /\ \A x \in Codes : x # c => Slot(x)' = Slot(x)
      BY <2>1 DEF Mailbox!Expire, Mailbox!Take, Slot
    <2>3. /\ Blob(c) = "held" /\ Blob(c)' = "gone" /\ Document(c)' = Document(c)
          /\ \A x \in Codes : x # c => Blob(x)' = Blob(x) /\ Document(x)' = Document(x)
      BY <2>2, SlotIsBlob, SlotIsBlobNext
    <2>4. Store!Expire(c)
      BY <2>3 DEF Store!Expire, Blob, Document
    <2>5. QED
      BY <2>4 DEF StoreStep
  <1>3. CASE \/ \E d \in Downloads : Mailbox!Deliver(d)
             \/ UNCHANGED Mailbox!vars
    <2>1. \A x \in Codes : Slot(x)' = Slot(x)
      BY <1>3 DEF Mailbox!Deliver, Mailbox!vars, Slot
    <2>2. \A x \in Codes : Blob(x)' = Blob(x) /\ Document(x)' = Document(x)
      BY <2>1, SlotIsBlob, SlotIsBlobNext
    <2>3. UNCHANGED Store!storeVars
      BY <2>2 DEF Store!storeVars, Blob, Document
    <2>4. QED
      BY <2>3
  <1>4. QED
    BY <1>1, <1>2, <1>3 DEF Mailbox!Next

\* transfer.c as the watchers use it: the store their modules are about does
\* what the relay, with its directory, sweeper and restarts, does.
THEOREM RelayImplementsStore == Spec => ImplementsStore
  <1>1. Init => Store!StoreInit
    BY DEF Init, Store!StoreInit, Published
  <1>2. IInv /\ [Next]_vars => [\E c \in Codes : StoreStep(c)]_(Store!storeVars)
    BY MailboxUpload, MailboxDownload, MailboxSweep, MailboxEnvironment, MailboxIsStore DEF Next
  <1>3. QED
    BY <1>1, <1>2, RelayInvariant, PTL DEF Spec, ImplementsStore

\* main.go:180-196: whoever is told 404, at the rename or at the open after it,
\* is told so because there is no blob, and whoever gets one has taken it: the
\* watcher that logs a code as failed at a 404 gives up nothing.
THEOREM RelayAnswersAsStore == Spec => AnswersAsStore
  <1> DEFINE Answered == \A d \in Downloads : download'[d] # download[d] =>
               /\ download'[d] = "claimed" => Store!Take(target'[d])
               /\ download'[d] \in {"notfound", "vanished"} => Store!Missing(target[d])'
  <1>1. IInv /\ [Next]_vars => [Answered]_vars
    <2> SUFFICES ASSUME IInv, Next, NEW d \in Downloads, download'[d] # download[d],
                        download'[d] \in {"claimed", "notfound", "vanished"}
                 PROVE  /\ download'[d] = "claimed" => Store!Take(target'[d])
                        /\ download'[d] \in {"notfound", "vanished"} =>
                             Store!Missing(target[d])'
      OBVIOUS
    <2> USE DEF IInv, TypeOK, disk, handlers, sweeper
    <2>1. \/ \E c \in Codes : DownloadClaim(d, c) \/ DownloadMiss(d, c)
          \/ DownloadOpen(d)
      <3>1. ~ \E c \in Codes : UploadStep(c)
        BY DEF UploadStep, UploadBegin, UploadChunk, UploadClose, UploadFail, UploadRename,
               UploadReply
      <3>2. ~SweepStep /\ ~Tick /\ ~Crash
        BY DEF SweepStep, SweepStart, SweepStat, SweepRemove, SweepEnd, Tick, Crash
      <3>3. PICK e \in Downloads : DownloadStep(e)
        BY <3>1, <3>2 DEF Next
      <3>4. QED
        BY <3>3 DEF DownloadStep, DownloadClaim, DownloadMiss, DownloadOpen, DownloadCopy,
                    DownloadAbort, DownloadRemove
    <2>2. ASSUME NEW c \in Codes, DownloadClaim(d, c)
          PROVE  download'[d] = "claimed" /\ Store!Take(target'[d])
      <3>1. target'[d] = c /\ download'[d] = "claimed" /\ Published(c) /\ at[c] = "blob"
        BY <2>2 DEF DownloadClaim, Present, Published
      <3>2. /\ Blob(c) = "held" /\ Blob(c)' = "gone"
            /\ \A x \in Codes : x # c => Blob(x)' = Blob(x)
        BY <2>2, <3>1 DEF DownloadClaim, Blob, Published
      <3>3. Store!Take(c)
        BY <3>2 DEF Store!Take, Blob
      <3>4. QED
        BY <3>1, <3>3 DEF Store!Take
    <2>3. ASSUME NEW c \in Codes, DownloadMiss(d, c)
          PROVE  download'[d] = "notfound" /\ Store!Missing(target[d])'
      <3>1. target'[d] = c /\ at'[c] # "blob" /\ download'[d] = "notfound"
        BY <2>3 DEF DownloadMiss, Present
      <3>2. Store!Missing(target[d])'
        BY <3>1 DEF Store!Missing
      <3>3. QED
        BY <3>1, <3>2
    <2>4. CASE DownloadOpen(d)
      <3>1. target' = target /\ at' = at /\ at[target[d]] # "blob" /\ download'[d] # "claimed"
        BY <2>4 DEF DownloadOpen, WonIsTaken, Won
      <3>2. Store!Missing(target[d])'
        BY <3>1 DEF Store!Missing
      <3>3. QED
        BY <3>1, <3>2
    <2>5. QED
      BY <2>1, <2>2, <2>3, <2>4
  <1>2. QED
    BY <1>1, RelayInvariant, PTL DEF Spec, AnswersAsStore

-----------------------------------------------------------------------------
(* The rate limiter. *)

\* A part of the requests is finite, and a larger part is no smaller.
LEMMA RequestSets ==
  ASSUME NEW S \in SUBSET Requests, NEW T \in SUBSET S
  PROVE  /\ IsFiniteSet(S) /\ Cardinality(S) \in Nat
         /\ IsFiniteSet(T) /\ Cardinality(T) \in Nat
         /\ Cardinality(T) <= Cardinality(S)
  <1>1. IsFiniteSet(S)
    BY FS_Subset, LimiterAssumption DEF LimiterAssumption
  <1>2. IsFiniteSet(T) /\ Cardinality(T) <= Cardinality(S)
    BY <1>1, FS_Subset
  <1>3. QED
    BY <1>1, <1>2, FS_CardinalityType

\* One more element keeps a set within a bound it was below.
LEMMA OneMore ==
  ASSUME NEW S, NEW x, IsFiniteSet(S), NEW n \in Nat, Cardinality(S) < n
  PROVE  Cardinality(S \cup {x}) <= n
  <1>1. Cardinality(S) \in Nat
    BY FS_CardinalityType
  <1>2. Cardinality(S \cup {x}) = IF x \in S THEN Cardinality(S) ELSE Cardinality(S) + 1
    BY FS_AddElement
  <1>3. QED
    BY <1>1, <1>2

LEMMA LimiterInitially == LimiterInit => LimiterIInv
  <1> SUFFICES ASSUME LimiterInit PROVE LimiterIInv
    OBVIOUS
  <1> USE LimiterAssumption DEF LimiterAssumption, LimiterInit
  <1>1. LimiterTypeOK /\ Remembered /\ StampsInOrder /\ RefusedForCause /\ MapIsRecent
    BY DEF LimiterTypeOK, Remembered, StampsInOrder, RefusedForCause, MapIsRecent, Allowed
  <1>2. WindowCap
    <2> SUFFICES ASSUME NEW k \in Keys, NEW t \in 0..MaxTime
                 PROVE  Cardinality(AllowedIn(k, t - (Window - MaxLag), t)) <= Limit
      BY DEF WindowCap
    <2>1. AllowedIn(k, t - (Window - MaxLag), t) = {}
      BY DEF AllowedIn, Allowed
    <2>2. QED
      BY <2>1, FS_EmptySet
  <1>3. QED
    BY <1>1, <1>2 DEF LimiterIInv

\* Neither the clock nor a new arrival changes who was let through.
LEMMA LimiterQuiet ==
  ASSUME LimiterIInv, UNCHANGED <<key, tracked, hits, lastGC>>, clock' >= clock, clock' \in 0..MaxTime,
         \A r \in Requests : /\ pc'[r] \in {"allowed", "refused"} <=> pc[r] \in {"allowed", "refused"}
                             /\ pc[r] \in {"allowed", "refused"} => pc'[r] = pc[r] /\ stamp'[r] = stamp[r],
         LimiterTypeOK', StampsInOrder'
  PROVE  LimiterIInv'
  <1> USE LimiterAssumption DEF LimiterAssumption, LimiterIInv, LimiterTypeOK
  <1>1. \A k \in Keys : Allowed(k)' = Allowed(k)
    BY DEF Allowed
  <1>2. \A k \in Keys : \A r \in Allowed(k) : stamp'[r] = stamp[r]
    BY DEF Allowed
  <1>3. Remembered'
    <2> SUFFICES ASSUME NEW k \in Keys
                 PROVE  /\ hits[k] \subseteq Allowed(k)'
                        /\ \A r \in Allowed(k)' \ hits[k] : stamp'[r] <= clock' - Window
                        /\ k \notin tracked => hits[k] = {}
      BY DEF Remembered
    <2>1. \A r \in Allowed(k) \ hits[k] : stamp[r] <= clock' - Window
      BY DEF Remembered, Allowed
    <2>2. QED
      BY <1>1, <1>2, <2>1 DEF Remembered
  <1>4. WindowCap'
    <2> SUFFICES ASSUME NEW k \in Keys, NEW t \in 0..MaxTime
                 PROVE  Cardinality(AllowedIn(k, t - (Window - MaxLag), t)') <= Limit
      BY DEF WindowCap
    <2>1. AllowedIn(k, t - (Window - MaxLag), t)' = AllowedIn(k, t - (Window - MaxLag), t)
      BY <1>1, <1>2 DEF AllowedIn
    <2>2. QED
      BY <2>1 DEF WindowCap
  <1>5. RefusedForCause'
    <2> SUFFICES ASSUME NEW r \in Requests, pc'[r] = "refused"
                 PROVE  Cardinality({q \in Allowed(key[r]) : stamp[q] > stamp[r] - Window}') >= Limit
      BY DEF RefusedForCause
    <2>1. pc[r] = "refused" /\ stamp'[r] = stamp[r]
      OBVIOUS
    <2>2. {q \in Allowed(key[r]) : stamp[q] > stamp[r] - Window}'
            = {q \in Allowed(key[r]) : stamp[q] > stamp[r] - Window}
      BY <2>1 DEF Allowed
    <2>3. QED
      BY <2>1, <2>2 DEF RefusedForCause
  <1>6. MapIsRecent'
    BY <1>2 DEF MapIsRecent, Remembered
  <1>7. QED
    BY <1>3, <1>4, <1>5, <1>6

LEMMA LimiterArrive ==
  ASSUME LimiterIInv, NEW r \in Requests, Arrive(r)
  PROVE  LimiterIInv'
  <1> USE LimiterAssumption DEF LimiterAssumption, LimiterIInv, LimiterTypeOK, Arrive
  <1>1. LimiterTypeOK' /\ StampsInOrder'
    BY DEF StampsInOrder
  <1>2. QED
    BY <1>1, LimiterQuiet

LEMMA LimiterTicks == LimiterIInv /\ LimiterTick => LimiterIInv'
  <1> SUFFICES ASSUME LimiterIInv, LimiterTick PROVE LimiterIInv'
    OBVIOUS
  <1> USE LimiterAssumption DEF LimiterAssumption, LimiterIInv, LimiterTypeOK, LimiterTick
  <1>1. LimiterTypeOK' /\ StampsInOrder'
    BY DEF StampsInOrder
  <1>2. QED
    BY <1>1, LimiterQuiet

LEMMA LimiterDecide ==
  ASSUME LimiterIInv, NEW r \in Requests, Decide(r)
  PROVE  LimiterIInv'
  <1> DEFINE k    == key[r]
             now  == stamp[r]
             kept == IF k \in AfterGC(now) THEN Fresh(hits[k], now) ELSE {}
             full == Cardinality(kept) >= Limit
  <1> USE LimiterAssumption DEF LimiterAssumption, LimiterIInv
  <1>1. /\ k \in Keys /\ now \in 0..MaxTime /\ clock \in 0..MaxTime
        /\ now <= clock /\ clock <= now + MaxLag
        /\ pc[r] = "waiting" /\ r \notin Allowed(k)
    BY DEF Decide, LimiterTypeOK, StampsInOrder, Allowed
  <1>2. /\ pc' = [pc EXCEPT ![r] = IF full THEN "refused" ELSE "allowed"]
        /\ hits' = [x \in Keys |-> IF x = k THEN (IF full THEN kept ELSE kept \cup {r})
                                   ELSE IF x \in AfterGC(now) THEN hits[x] ELSE {}]
        /\ tracked' = AfterGC(now) \cup {k}
        /\ lastGC' = IF GCDue(now) THEN now ELSE lastGC
        /\ UNCHANGED <<clock, key, stamp>>
    BY DEF Decide, LastGC
  <1> HIDE DEF k, now, kept, full
  <1>3. kept \subseteq Fresh(hits[k], now) /\ kept \subseteq Allowed(k)
    BY <1>1 DEF kept, Fresh, Remembered
  <1>4. \A q \in Allowed(k) : stamp[q] > clock - Window => q \in kept
    <2> SUFFICES ASSUME NEW q \in Allowed(k), stamp[q] > clock - Window
                 PROVE  q \in kept
      OBVIOUS
    <2>1. q \in hits[k]
      BY <1>1 DEF Remembered, LimiterTypeOK, Allowed
    <2>2. stamp[q] > now - Window
      BY <1>1 DEF LimiterTypeOK, Allowed
    <2>3. k \in tracked
      BY <1>1, <2>1 DEF Remembered
    <2>4. QED
      BY <2>1, <2>2, <2>3 DEF kept, AfterGC, Fresh
  <1>5. \A x \in Keys : /\ Allowed(x) \subseteq Allowed(x)'
                        /\ Allowed(x)' \subseteq Allowed(x) \cup {r}
                        /\ x # k => Allowed(x)' = Allowed(x)
                        /\ x = k => Allowed(x)' = IF full THEN Allowed(x) ELSE Allowed(x) \cup {r}
    BY <1>1, <1>2 DEF Allowed, LimiterTypeOK, k
  <1>6. LimiterTypeOK'
    <2>1. kept \subseteq Requests
      BY <1>3 DEF Allowed
    <2>2. QED
      BY <1>1, <1>2, <2>1 DEF LimiterTypeOK, AfterGC
  <1>7. StampsInOrder'
    BY <1>1, <1>2 DEF StampsInOrder, LimiterTypeOK
  <1>8. Remembered'
    <2> SUFFICES ASSUME NEW x \in Keys
                 PROVE  /\ hits'[x] \subseteq Allowed(x)'
                        /\ \A q \in Allowed(x)' \ hits'[x] : stamp[q] <= clock - Window
                        /\ x \notin tracked' => hits'[x] = {}
      BY <1>2 DEF Remembered
    <2>1. CASE x = k
      <3>1. \A q \in Allowed(k) \ kept : stamp[q] <= clock - Window
        BY <1>1, <1>4 DEF LimiterTypeOK, Allowed
      <3>2. QED
        BY <1>2, <1>3, <1>5, <2>1, <3>1
    <2>2. CASE x # k
      <3>1. CASE x \in AfterGC(now)
        BY <1>2, <1>5, <2>2, <3>1 DEF Remembered
      <3>2. CASE x \notin AfterGC(now)
        <4>1. hits'[x] = {} /\ Allowed(x)' = Allowed(x)
          BY <1>2, <1>5, <2>2, <3>2
        <4>2. \A q \in hits[x] : stamp[q] <= now - Window
          BY <1>1, <3>2 DEF AfterGC, Fresh, Remembered, LimiterTypeOK
        <4>3. \A q \in Allowed(x) : stamp[q] <= clock - Window
          BY <1>1, <4>2 DEF Remembered, LimiterTypeOK, Allowed
        <4>4. QED
          BY <4>1, <4>3
      <3>3. QED
        BY <3>1, <3>2
    <2>3. QED
      BY <2>1, <2>2
  <1>9. WindowCap'
    <2> SUFFICES ASSUME NEW x \in Keys, NEW t \in 0..MaxTime
                 PROVE  Cardinality(AllowedIn(x, t - (Window - MaxLag), t)') <= Limit
      BY DEF WindowCap
    <2> DEFINE Old == AllowedIn(x, t - (Window - MaxLag), t)
    <2>1. Cardinality(Old) <= Limit
      BY DEF WindowCap
    <2>2. AllowedIn(x, t - (Window - MaxLag), t)'
            = {q \in Allowed(x)' : t - (Window - MaxLag) < stamp[q] /\ stamp[q] <= t}
      BY <1>2 DEF AllowedIn
    <2>3. CASE AllowedIn(x, t - (Window - MaxLag), t)' = Old
      BY <2>1, <2>3
    <2>4. CASE AllowedIn(x, t - (Window - MaxLag), t)' # Old
      <3>1. /\ x = k /\ ~full
            /\ t - (Window - MaxLag) < now /\ now <= t
            /\ AllowedIn(x, t - (Window - MaxLag), t)' = Old \cup {r}
        BY <1>5, <2>2, <2>4 DEF AllowedIn, now
      <3>2. Old \subseteq kept
        BY <1>1, <1>4, <3>1 DEF AllowedIn, Allowed, LimiterTypeOK
      <3>3. Cardinality(Old) <= Cardinality(kept) /\ Cardinality(kept) \in Nat /\ IsFiniteSet(Old)
        BY <1>3, <3>2, RequestSets DEF Allowed
      <3>4. Cardinality(Old) < Limit
        BY <3>1, <3>3, FS_CardinalityType DEF full
      <3>5. QED
        BY <3>1, <3>3, <3>4, OneMore
    <2>5. QED
      BY <2>3, <2>4
  <1>10. RefusedForCause'
    <2> DEFINE Old(p) == {q \in Allowed(key[p]) : stamp[q] > stamp[p] - Window}
    <2> SUFFICES ASSUME NEW p \in Requests, pc'[p] = "refused"
                 PROVE  Cardinality(Old(p)') >= Limit
      BY DEF RefusedForCause
    <2> DEFINE Now == Old(p)'
    <2>1. /\ key[p] \in Keys /\ Now \subseteq Requests
          /\ Now = {q \in Requests : pc'[q] = "allowed" /\ key[q] = key[p] /\ stamp[q] > stamp[p] - Window}
      BY <1>2 DEF LimiterTypeOK, Allowed
    <2>2. CASE p # r
      <3>1. Old(p) \subseteq Now /\ Cardinality(Old(p)) >= Limit
        BY <1>1, <1>2, <2>1, <2>2 DEF RefusedForCause, LimiterTypeOK, Allowed
      <3>2. Cardinality(Old(p)) <= Cardinality(Now) /\ Cardinality(Old(p)) \in Nat /\ Cardinality(Now) \in Nat
        BY <2>1, <3>1, RequestSets
      <3>3. QED
        BY <3>1, <3>2
    <2>3. CASE p = r
      <3>1. full
        BY <1>2, <2>3 DEF LimiterTypeOK
      <3>2. kept \subseteq Now
        BY <1>1, <1>2, <1>3, <2>1, <2>3 DEF Fresh, k, now, Allowed, LimiterTypeOK
      <3>3. Cardinality(kept) <= Cardinality(Now) /\ Cardinality(kept) \in Nat /\ Cardinality(Now) \in Nat
        BY <2>1, <3>2, RequestSets
      <3>4. QED
        BY <3>1, <3>3 DEF full
    <2>4. QED
      BY <2>2, <2>3
  <1>11. MapIsRecent'
    <2> SUFFICES ASSUME NEW x \in tracked'
                 PROVE  \E q \in hits'[x] : stamp[q] > lastGC' - Window
      BY <1>2 DEF MapIsRecent
    <2> USE <1>1, <1>2
    <2>1. lastGC \in Int /\ lastGC <= clock /\ x \in Keys
      BY <1>6 DEF LimiterTypeOK, StampsInOrder
    <2>2. CASE x = k /\ ~full
      BY <2>1, <2>2 DEF now, GCDue
    <2>3. CASE x = k /\ full
      <3>1. kept # {}
        <4>1. Cardinality({}) = 0
          BY FS_EmptySet, Zenon
        <4>2. Cardinality(kept) >= Limit
          BY <2>3 DEF full
        <4>3. kept = {} => Cardinality(kept) = 0
          BY <4>1, Zenon
        <4>4. QED
          BY <4>2, <4>3
      <3>2. PICK q \in kept : stamp[q] > now - Window /\ stamp[q] \in 0..MaxTime
        BY <1>3, <3>1 DEF Fresh, Allowed, LimiterTypeOK
      <3>3. CASE GCDue(now) \/ now > lastGC
        BY <2>1, <2>3, <3>2, <3>3
      <3>4. CASE ~GCDue(now) /\ now <= lastGC
        <4>1. k \in AfterGC(now) /\ k \in tracked
          BY <3>1, <3>4 DEF kept, AfterGC
        <4>2. PICK p \in hits[k] : stamp[p] > lastGC - Window
          BY <4>1 DEF MapIsRecent
        <4>3. stamp[p] \in 0..MaxTime
          BY DEF LimiterTypeOK
        <4>4. p \in kept
          BY <2>1, <3>4, <4>1, <4>2, <4>3 DEF kept, Fresh
        <4>5. QED
          BY <2>3, <3>4, <4>2, <4>4
      <3>5. QED
        BY <2>1, <3>3, <3>4 DEF GCDue
    <2>4. CASE x # k
      BY <2>1, <2>4 DEF AfterGC, Fresh, MapIsRecent
    <2>5. QED
      BY <2>2, <2>3, <2>4
  <1>12. QED
    BY <1>6, <1>7, <1>8, <1>9, <1>10, <1>11

\* The inductive invariant of the limiter.
THEOREM LimiterInvariant == LimiterSpec => []LimiterIInv
  <1>1. LimiterIInv /\ [LimiterNext]_limiterVars => LimiterIInv'
    <2> SUFFICES ASSUME LimiterIInv, [LimiterNext]_limiterVars PROVE LimiterIInv'
      OBVIOUS
    <2>1. CASE UNCHANGED limiterVars
      BY <2>1 DEF limiterVars, LimiterIInv, LimiterTypeOK, Remembered, StampsInOrder, WindowCap, RefusedForCause,
                  MapIsRecent, Allowed, AllowedIn
    <2>2. QED
      BY <2>1, LimiterArrive, LimiterDecide, LimiterTicks DEF LimiterNext
  <1>2. QED
    BY <1>1, LimiterInitially, PTL DEF LimiterSpec

\* ratelimit.go:8-10: the cap on the uploads of one client, over every window
\* shortened by the time requests wait for the mutex.
THEOREM LimiterWindowCap == LimiterSpec => []WindowCap
  <1>1. LimiterIInv => WindowCap
    BY DEF LimiterIInv
  <1>2. QED
    BY <1>1, LimiterInvariant, PTL

\* A refusal always stands on Limit uploads of the same client that were let
\* through after the cutoff.
THEOREM LimiterRefusedForCause == LimiterSpec => []RefusedForCause
  <1>1. LimiterIInv => RefusedForCause
    BY DEF LimiterIInv
  <1>2. QED
    BY <1>1, LimiterInvariant, PTL

\* ratelimit.go:54: gc keeps the map to clients of the last window.
THEOREM LimiterMapIsRecent == LimiterSpec => []MapIsRecent
  <1>1. LimiterIInv => MapIsRecent
    BY DEF LimiterIInv
  <1>2. QED
    BY <1>1, LimiterInvariant, PTL

=============================================================================
