---------------------------- MODULE WatchProofs ----------------------------
(***************************************************************************)
(* Theorems about SendWatch and WatchPipeline, for any files, any number of *)
(* versions, codes, other words, kills, any size of a scan and any faults.  *)
(***************************************************************************)
EXTENDS WatchPipeline, TLAPS

USE DEF Docs, Tokens

LEMMA NoVersion == 0 \in 0..MaxVersion
  BY ClaimStoreAssumption DEF ClaimStoreAssumption

LEMMA SendInitial == StoreInit /\ SendInit => SendIInv
  <1> SUFFICES ASSUME StoreInit, SendInit PROVE SendIInv
    OBVIOUS
  <1> USE ClaimStoreAssumption, SendAssumption
      DEF ClaimStoreAssumption, SendAssumption, StoreInit, SendInit
  <1>1. StoreTypeOK /\ SendTypeOK
    BY DEF StoreTypeOK, SendTypeOK, Asleep, Loop
  <1>2. OriginalsKept /\ LogIsReal /\ CodeAtHand
    BY DEF OriginalsKept, LogIsReal, CodeAtHand, Asleep, Loop
  <1>3. QED
    BY <1>1, <1>2 DEF SendIInv

\* A user's step leaves the loop, the log and the relay alone; it breaks
\* nothing if it keeps the originals.
LEMMA SendUser ==
  ASSUME SendIInv, NEW f \in Files, Save(f) \/ Settle(f) \/ Withdraw(f)
  PROVE  SendIInv'
  <1> USE ClaimStoreAssumption, SendAssumption
      DEF ClaimStoreAssumption, SendAssumption, SendIInv, storeVars
  <1>1. CASE Save(f)
    <2>1. StoreTypeOK' /\ SendTypeOK'
      BY <1>1 DEF StoreTypeOK, SendTypeOK, Save
    <2>2. OriginalsKept'
      <3> SUFFICES ASSUME NEW doc \in owed'
                   PROVE  outbox'[doc[1]] = doc[2] \/ doc \in sent'
        BY DEF OriginalsKept
      <3>1. CASE doc = <<f, saved[f] + 1>>
        BY <1>1, <3>1 DEF Save, SendTypeOK
      <3>2. CASE doc \in owed /\ doc # <<f, outbox[f]>>
        BY <1>1, <3>2 DEF Save, SendTypeOK, OriginalsKept
      <3>3. QED
        BY <1>1, <3>1, <3>2 DEF Save
    <2>3. LogIsReal' /\ CodeAtHand'
      BY <1>1 DEF Save, LogIsReal, CodeAtHand
    <2>4. QED
      BY <2>1, <2>2, <2>3
  <1>2. CASE Settle(f)
    BY <1>2 DEF StoreTypeOK, SendTypeOK, OriginalsKept, LogIsReal, CodeAtHand, Settle
  <1>3. CASE Withdraw(f)
    <2>1. StoreTypeOK' /\ SendTypeOK'
      <3>1. outbox' \in [Files -> 0..MaxVersion]
        BY <1>3, NoVersion DEF SendTypeOK, Withdraw
      <3>2. QED
        BY <1>3, <3>1 DEF StoreTypeOK, SendTypeOK, Withdraw
    <2>2. OriginalsKept'
      <3> SUFFICES ASSUME NEW doc \in owed'
                   PROVE  outbox'[doc[1]] = doc[2] \/ doc \in sent'
        BY DEF OriginalsKept
      <3>1. doc \in owed /\ doc # <<f, outbox[f]>>
        BY <1>3 DEF Withdraw
      <3>2. QED
        BY <1>3, <3>1 DEF Withdraw, SendTypeOK, OriginalsKept
    <2>3. LogIsReal' /\ CodeAtHand'
      BY <1>3 DEF Withdraw, LogIsReal, CodeAtHand
    <2>4. QED
      BY <2>1, <2>2, <2>3
  <1>4. QED
    BY <1>1, <1>2, <1>3

\* The steps of a scan that end in no stored blob and no log line.
LEMMA SendScan ==
  ASSUME SendIInv,
         \/ Scan \/ ScanDone \/ UploadRefused \/ MoveMissing \/ MoveFails \/ KillSender
         \/ \E f \in Files : Skip(f) \/ Archive(f)
  PROVE  SendIInv'
  <1> USE ClaimStoreAssumption, SendAssumption
      DEF ClaimStoreAssumption, SendAssumption, SendIInv, storeVars
  <1>1. UNCHANGED <<storeVars, outbox, settled, saved, sent, owed>>
    BY DEF Scan, ScanDone, UploadRefused, MoveMissing, MoveFails, KillSender, Skip, Archive
  <1>2. watch'.code = {} \/ watch'.code = watch.code
    BY DEF Scan, ScanDone, UploadRefused, MoveMissing, MoveFails, KillSender, Skip, Archive,
           Loop, Asleep, NextFile, SendTypeOK
  <1>3. watch' \in [pc : {"sleeping", "scanning", "uploading", "moving", "logging"},
                    todo : SUBSET Files, doc : SUBSET Docs, code : SUBSET Codes]
    BY DEF Scan, ScanDone, UploadRefused, MoveMissing, MoveFails, KillSender, Skip, Archive,
           Loop, Asleep, NextFile, SendTypeOK, Listed
  <1>4. sendKills' \in 0..MaxKills
    <2>1. \/ sendKills' = sendKills
          \/ sendKills < MaxKills /\ sendKills' = sendKills + 1
      BY DEF Scan, ScanDone, UploadRefused, MoveMissing, MoveFails, KillSender, Skip, Archive
    <2>2. QED
      BY <2>1 DEF SendTypeOK
  <1>5. StoreTypeOK' /\ SendTypeOK'
    BY <1>1, <1>3, <1>4 DEF StoreTypeOK, SendTypeOK
  <1>6. OriginalsKept' /\ LogIsReal' /\ CodeAtHand'
    BY <1>1, <1>2 DEF OriginalsKept, LogIsReal, CodeAtHand
  <1>7. QED
    BY <1>5, <1>6

\* A blob is stored under a code no line of the log has.
LEMMA SendUpload ==
  ASSUME SendIInv, NEW c \in Codes, Upload(c) \/ UploadUnanswered(c)
  PROVE  SendIInv'
  <1> USE ClaimStoreAssumption, SendAssumption
      DEF ClaimStoreAssumption, SendAssumption, SendIInv, storeVars
  <1>1. PICK doc \in watch.doc : Put(c, doc)
    BY DEF Upload, UploadUnanswered
  <1>2. UNCHANGED <<outbox, settled, saved, sent, sendKills, owed, lines>>
    BY DEF Upload, UploadUnanswered
  <1>3. watch'.code \in {{}, {c}}
    BY DEF Upload, UploadUnanswered, Loop, NextFile
  <1>4. StoreTypeOK'
    BY <1>1, <1>2 DEF StoreTypeOK, SendTypeOK, Put
  <1>5. SendTypeOK'
    BY <1>2 DEF SendTypeOK, Upload, UploadUnanswered, Loop, NextFile
  <1>6. OriginalsKept'
    BY <1>2 DEF OriginalsKept
  <1>7. LogIsReal'
    BY <1>1, <1>2 DEF LogIsReal, Put, StoreTypeOK
  <1>8. CodeAtHand'
    <2>1. blob'[c] # "unused"
      BY <1>1 DEF Put, StoreTypeOK
    <2>2. blob[c] = "unused"
      BY <1>1 DEF Put
    <2>3. ASSUME NEW i \in 1..Len(lines) PROVE lines[i] # c
      BY <2>2 DEF LogIsReal
    <2>4. lines' = lines
      BY <1>2
    <2>5. \A i \in 1..Len(lines') : lines'[i] # c
      BY <2>3, <2>4
    <2>6. \A d \in watch'.code : d = c
      BY <1>3
    <2>7. QED
      BY <2>1, <2>5, <2>6 DEF CodeAtHand
  <1>9. QED
    BY <1>4, <1>5, <1>6, <1>7, <1>8

\* The move takes a document from the outbox to sent/.
LEMMA SendMove ==
  ASSUME SendIInv, Move
  PROVE  SendIInv'
  <1> USE ClaimStoreAssumption, SendAssumption
      DEF ClaimStoreAssumption, SendAssumption, SendIInv, storeVars
  <1>1. PICK doc \in watch.doc :
          /\ outbox[doc[1]] > 0
          /\ sent' = sent \cup {<<doc[1], outbox[doc[1]]>>}
          /\ outbox' = [outbox EXCEPT ![doc[1]] = 0]
          /\ settled' = settled \ {doc[1]}
    BY DEF Move
  <1>2. PICK f \in Files : f = doc[1]
    BY <1>1 DEF SendTypeOK
  <1>3. StoreTypeOK' /\ SendTypeOK'
    <2>1. outbox' \in [Files -> 0..MaxVersion]
      BY <1>1, <1>2, NoVersion DEF SendTypeOK
    <2>2. sent' \subseteq Docs
      BY <1>1, <1>2 DEF SendTypeOK
    <2>3. watch' = [pc |-> "logging", todo |-> watch.todo, doc |-> watch.doc, code |-> watch.code]
      BY DEF Move, Loop
    <2>4. UNCHANGED <<saved, sendKills, owed, blob, content, lines>>
      BY DEF Move
    <2>5. settled' \subseteq Files
      BY <1>1 DEF SendTypeOK
    <2>6. watch' \in [pc : {"sleeping", "scanning", "uploading", "moving", "logging"},
                      todo : SUBSET Files, doc : SUBSET Docs, code : SUBSET Codes]
      BY <2>3 DEF SendTypeOK
    <2>7. StoreTypeOK'
      BY <2>4 DEF StoreTypeOK
    <2>8. QED
      BY <2>1, <2>2, <2>4, <2>5, <2>6, <2>7 DEF SendTypeOK
  <1>4. OriginalsKept'
    <2> SUFFICES ASSUME NEW d \in owed'
                 PROVE  outbox'[d[1]] = d[2] \/ d \in sent'
      BY DEF OriginalsKept
    <2>1. d \in owed /\ d = <<d[1], d[2]>> /\ d[1] \in Files
      BY DEF Move, SendTypeOK
    <2>2. outbox[d[1]] = d[2] \/ d \in sent
      BY <2>1 DEF OriginalsKept
    <2>3. QED
      BY <1>1, <1>2, <2>1, <2>2 DEF SendTypeOK
  <1>5. LogIsReal' /\ CodeAtHand'
    BY DEF Move, LogIsReal, CodeAtHand, Loop
  <1>6. QED
    BY <1>3, <1>4, <1>5

\* The line added to the log carries a code no line had.
LEMMA SendLog ==
  ASSUME SendIInv, Log
  PROVE  SendIInv'
  <1> USE ClaimStoreAssumption, SendAssumption
      DEF ClaimStoreAssumption, SendAssumption, SendIInv, storeVars
  <1>1. UNCHANGED <<outbox, settled, saved, sent, sendKills, owed, blob, content>> /\ watch' = NextFile
    BY DEF Log
  <1>2. \/ UNCHANGED lines
        \/ \E t \in watch.code \cup BadTokens : lines' = Append(lines, t)
    BY DEF Log, LineToken, Quoted
  <1>3. StoreTypeOK' /\ SendTypeOK'
    <2>1. lines' \in Seq(Tokens)
      <3>1. watch.code \cup BadTokens \subseteq Tokens
        BY DEF SendTypeOK, Tokens
      <3>2. \A c \in Tokens : Append(lines, c) \in Seq(Tokens)
        BY DEF StoreTypeOK
      <3>3. lines \in Seq(Tokens)
        BY DEF StoreTypeOK
      <3>4. QED
        BY <1>2, <3>1, <3>2, <3>3
    <2>2. watch' = [pc |-> "scanning", todo |-> watch.todo, doc |-> {}, code |-> {}]
      BY <1>1 DEF NextFile, Loop
    <2>3. watch' \in [pc : {"sleeping", "scanning", "uploading", "moving", "logging"},
                      todo : SUBSET Files, doc : SUBSET Docs, code : SUBSET Codes]
      BY <2>2 DEF SendTypeOK
    <2>4. QED
      BY <1>1, <2>1, <2>3 DEF StoreTypeOK, SendTypeOK
  <1>4. OriginalsKept' /\ CodeAtHand'
    BY <1>1 DEF OriginalsKept, CodeAtHand, NextFile, Loop
  <1>5. LogIsReal'
    <2>1. CASE UNCHANGED lines
      BY <1>1, <2>1 DEF LogIsReal
    <2>2. CASE \E t \in watch.code \cup BadTokens : lines' = Append(lines, t)
      <3>1. PICK t \in watch.code \cup BadTokens : lines' = Append(lines, t)
        BY <2>2
      <3>2. /\ Len(lines') = Len(lines) + 1
            /\ lines'[Len(lines) + 1] = t
            /\ \A i \in 1..Len(lines) : lines'[i] = lines[i]
        BY <3>1 DEF StoreTypeOK, SendTypeOK
      <3>3. t \in Codes => blob[t] # "unused" /\ \A i \in 1..Len(lines) : lines[i] # t
        BY DEF CodeAtHand
      <3>4. Len(lines) \in Nat
        BY DEF StoreTypeOK
      <3>5. \A i \in 1..Len(lines') : i \in 1..Len(lines) \/ i = Len(lines) + 1
        BY <3>2, <3>4
      <3>6. QED
        BY <1>1, <3>2, <3>3, <3>5 DEF LogIsReal
    <2>3. QED
      BY <1>2, <2>1, <2>2
  <1>6. QED
    BY <1>3, <1>4, <1>5

\* The invariant of the sender and its relay.
THEOREM SendInvariant == SendSpec => []SendIInv
  <1>1. SendIInv /\ [SendNext]_<<storeVars, sendVars>> => SendIInv'
    <2> SUFFICES ASSUME SendIInv, [SendNext]_<<storeVars, sendVars>> PROVE SendIInv'
      OBVIOUS
    <2>1. CASE UserStep
      BY <2>1, SendUser DEF UserStep
    <2>2. CASE SenderStep
      BY <2>2, SendScan, SendUpload, SendMove, SendLog DEF SenderStep
    <2>3. CASE SenderFault
      BY <2>3, SendScan, SendUpload DEF SenderFault
    <2>4. CASE UNCHANGED <<storeVars, sendVars>>
      BY <2>4 DEF SendIInv, StoreTypeOK, SendTypeOK, OriginalsKept, LogIsReal, CodeAtHand,
                  storeVars, sendVars
    <2>5. QED
      BY <2>1, <2>2, <2>3, <2>4 DEF SendNext
  <1>2. QED
    BY <1>1, SendInitial, PTL DEF SendSpec

\* No failure, retry, kill or name collision of cli_watch loses a document a
\* user handed over.
THEOREM SendOriginalsKept == SendSpec => []OriginalsKept
  BY SendInvariant, PTL DEF SendIInv

\* Every code in the sender's log is of a stored blob, and is there once.
THEOREM SendLogIsReal == SendSpec => []LogIsReal
  BY SendInvariant, PTL DEF SendIInv

-----------------------------------------------------------------------------
(* The pipeline.  Every step lets the relay's store and the codes file only  *)
(* grow: a stored blob keeps its content and is never unstored, a line stays. *)

StoreGrows ==
  /\ \A c \in Codes : blob[c] # "unused" => blob'[c] # "unused" /\ content'[c] = content[c]
  /\ Len(lines) <= Len(lines')
  /\ \A i \in 1..Len(lines) : lines'[i] = lines[i]

LEMMA LinesGrow ==
  ASSUME StoreTypeOK, NEW t \in Tokens, lines' = Append(lines, t)
  PROVE  /\ lines' \in Seq(Tokens)
         /\ Len(lines') = Len(lines) + 1
         /\ Len(lines) \in Nat
         /\ lines'[Len(lines) + 1] = t
         /\ \A i \in 1..Len(lines) : lines'[i] = lines[i]
  BY DEF StoreTypeOK

LEMMA SendGrows ==
  ASSUME SendIInv, SendNext
  PROVE  StoreGrows
  <1>1. StoreTypeOK /\ Len(lines) \in Nat
    BY DEF SendIInv, StoreTypeOK
  <1>2. CASE \E c \in Codes : Upload(c) \/ UploadUnanswered(c)
    <2>1. PICK c \in Codes : Upload(c) \/ UploadUnanswered(c)
      BY <1>2
    <2>2. PICK doc \in watch.doc : Put(c, doc)
      BY <2>1 DEF Upload, UploadUnanswered
    <2>3. lines' = lines
      BY <2>1 DEF Upload, UploadUnanswered
    <2>4. QED
      BY <1>1, <2>2, <2>3 DEF StoreGrows, StoreTypeOK, Put
  <1>3. CASE Log
    <2>1. blob' = blob /\ content' = content
      BY <1>3 DEF Log
    <2>2. UNCHANGED lines \/ \E t \in Tokens : lines' = Append(lines, t)
      <3>1. watch.code \subseteq Tokens /\ BadTokens \subseteq Tokens
        BY DEF SendIInv, SendTypeOK
      <3>2. CodeNamed # {} => CodeWord \in BadTokens
        BY ClaimStoreAssumption DEF ClaimStoreAssumption
      <3>3. \A f, c : LineToken(f, c) \in {CodeWord, c} /\ (LineToken(f, c) # c => CodeNamed # {})
        BY DEF LineToken, Quoted
      <3>4. QED
        BY <1>3, <3>1, <3>2, <3>3 DEF Log
    <2>3. CASE UNCHANGED lines
      BY <1>1, <2>1, <2>3 DEF StoreGrows
    <2>4. CASE \E t \in Tokens : lines' = Append(lines, t)
      BY <1>1, <2>1, <2>4, LinesGrow DEF StoreGrows
    <2>5. QED
      BY <2>2, <2>3, <2>4
  <1>4. CASE UNCHANGED storeVars
    BY <1>1, <1>4 DEF StoreGrows, storeVars
  <1>5. QED
    BY <1>2, <1>3, <1>4
       DEF SendNext, SenderStep, SenderFault, UserStep, Scan, ScanDone, Move, MoveMissing,
           Skip, Archive, UploadRefused, MoveFails, KillSender, Save, Settle, Withdraw

\* A step of anyone else leaves the sender's invariant alone.
LEMMA SendKept ==
  ASSUME SendIInv, UNCHANGED sendVars,
         blob' \in [Codes -> {"unused", "held", "gone"}],
         \A c \in Codes : blob[c] # "unused" => blob'[c] # "unused",
         UNCHANGED content,
         UNCHANGED lines \/ \E t \in BadTokens : lines' = Append(lines, t)
  PROVE  SendIInv'
  <1> USE DEF SendIInv, sendVars
  <1>1. StoreTypeOK' /\ SendTypeOK'
    <2>1. lines' \in Seq(Tokens)
      BY LinesGrow DEF StoreTypeOK
    <2>2. QED
      BY <2>1 DEF StoreTypeOK, SendTypeOK
  <1>2. OriginalsKept'
    BY DEF OriginalsKept
  <1>3. LogIsReal' /\ CodeAtHand'
    <2>1. watch.code \subseteq Codes
      BY DEF SendTypeOK
    <2>2. CASE UNCHANGED lines
      BY <2>1, <2>2 DEF LogIsReal, CodeAtHand
    <2>3. CASE \E t \in BadTokens : lines' = Append(lines, t)
      <3>1. PICK t \in BadTokens : lines' = Append(lines, t)
        BY <2>3
      <3>2. t \in Tokens /\ t \notin Codes
        BY ClaimStoreAssumption DEF ClaimStoreAssumption
      <3>3. /\ Len(lines') = Len(lines) + 1
            /\ Len(lines) \in Nat
            /\ lines'[Len(lines) + 1] = t
            /\ \A i \in 1..Len(lines) : lines'[i] = lines[i]
        BY <3>1, <3>2, LinesGrow
      <3>4. \A i \in 1..Len(lines') : i \in 1..Len(lines) \/ i = Len(lines) + 1
        BY <3>3
      <3>5. LogIsReal'
        BY <3>2, <3>3, <3>4 DEF LogIsReal
      <3>6. CodeAtHand'
        BY <2>1, <3>2, <3>3, <3>4 DEF CodeAtHand
      <3>7. QED
        BY <3>5, <3>6
    <2>4. QED
      BY <2>2, <2>3
  <1>4. QED
    BY <1>1, <1>2, <1>3

LEMMA InitiallyAll == Init => IInv
  <1> SUFFICES ASSUME Init PROVE IInv
    OBVIOUS
  <1>1. SendIInv
    BY SendInitial DEF Init
  <1>2. RecvTypeOK
    BY RecvAssumption DEF RecvAssumption, Init, RecvInit, RecvTypeOK, Reader, Verdict
  <1>3. recv.pc = "sleeping" /\ processed = {} /\ Len(recvLog) = 0
    BY DEF Init, RecvInit, Reader
  <1>4. AtUnhandled /\ LoggedIsRemembered /\ OneVerdict
    BY <1>3 DEF AtUnhandled, LoggedIsRemembered, OneVerdict
  <1>5. HandledWasStored /\ HandledIsAccounted
    BY <1>3 DEF HandledWasStored, HandledIsAccounted, Handled
  <1>6. QED
    BY <1>1, <1>2, <1>4, <1>5 DEF IInv

\* Steps of the sender, of the relay's sweeper and of a user at the codes file.
LEMMA StoreOnly ==
  ASSUME IInv, SendIInv', StoreGrows, UNCHANGED recvVars
  PROVE  IInv'
  <1> USE DEF recvVars
  <1>1. RecvTypeOK' /\ LoggedIsRemembered' /\ OneVerdict'
    BY DEF IInv, RecvTypeOK, LoggedIsRemembered, OneVerdict
  <1>2. recv.line \in Nat /\ Len(lines) \in Nat /\ Len(lines') \in Nat
    BY DEF IInv, RecvTypeOK, SendIInv, StoreTypeOK
  <1>3. recv.pc \in {"unpacking", "logging"} => recv.line \in 1..Len(lines) /\ Token' = Token
    BY <1>2 DEF IInv, AtUnhandled, StoreGrows, Token
  <1>4. AtUnhandled'
    BY <1>2, <1>3 DEF IInv, AtUnhandled, StoreGrows
  <1>5. \A c : Handled(c)' = Handled(c) /\ Verdicts("failed")' = Verdicts("failed")
    BY DEF Handled, Verdicts, Mistaken
  <1>6. HandledWasStored'
    BY <1>5 DEF IInv, HandledWasStored, StoreGrows
  <1>7. \A c \in Codes : blob[c] # "unused" => Delivered(c)' = Delivered(c)
    BY DEF StoreGrows, Delivered
  <1>8. recv.pc = "logging" /\ Token \in Codes => blob[Token] # "unused"
    BY <1>3 DEF IInv, SendIInv, LogIsReal, Token
  <1>9. HandledIsAccounted'
    <2>1. recv'.pc = "logging" => recv'.verdict # "none"
      BY DEF IInv, HandledIsAccounted
    <2>2. recv.pc = "logging" /\ recv.verdict = "received" /\ Token \in Codes =>
            content'[Token] \subseteq inbox'
      BY <1>8 DEF IInv, HandledIsAccounted, Delivered, StoreGrows
    <2>3. recv'.pc = "logging" /\ recv'.verdict = "received" /\ Token' \in Codes =>
            content'[Token'] \subseteq inbox'
      BY <1>3, <2>2
    <2>4. "log" \notin RecvFaults =>
            \A c \in Codes : Handled(c)' => Delivered(c)' \/ c \in Verdicts("failed")'
      BY <1>5, <1>7 DEF IInv, HandledIsAccounted, HandledWasStored
    <2>5. QED
      BY <2>1, <2>3, <2>4 DEF HandledIsAccounted, Delivered
  <1>10. QED
    BY <1>1, <1>4, <1>6, <1>9 DEF IInv

Places == [pc : {"sleeping", "reading", "unpacking", "logging"}, line : Nat, verdict : Verdict]

\* Every step of the receiver but the two that change the set of handled codes:
\* what it must see to when it goes to another place in its loop.
LEMMA OnlyReads ==
  ASSUME IInv, UNCHANGED <<sendVars, processed, recvLog, recvKills, content, lines>>,
         blob' \in [Codes -> {"unused", "held", "gone"}],
         \A c \in Codes : blob[c] # "unused" => blob'[c] # "unused",
         inbox \subseteq inbox', inbox' \subseteq Docs,
         recv' \in Places,
         recv'.pc # "sleeping" => recv'.line >= 1,
         recv'.pc \in {"unpacking", "logging"} =>
           recv'.line <= Len(lines) /\ lines[recv'.line] \notin processed,
         recv'.pc = "unpacking" => lines[recv'.line] \in Codes,
         recv'.pc = "logging" => recv'.verdict # "none",
         recv'.pc = "logging" /\ recv'.verdict = "received" /\ lines[recv'.line] \in Codes =>
           content[lines[recv'.line]] \subseteq inbox'
  PROVE  IInv'
  <1>1. SendIInv'
    BY SendKept DEF IInv
  <1>2. RecvTypeOK'
    BY DEF IInv, RecvTypeOK, Places
  <1>3. AtUnhandled'
    BY DEF AtUnhandled, Token
  <1>4. LoggedIsRemembered' /\ OneVerdict'
    BY DEF IInv, LoggedIsRemembered, OneVerdict
  <1>5. \A c : Handled(c)' = Handled(c) /\ Verdicts("failed")' = Verdicts("failed")
    BY DEF Handled, Verdicts, Mistaken
  <1>6. HandledWasStored'
    BY <1>5 DEF IInv, HandledWasStored
  <1>7. HandledIsAccounted'
    BY <1>5 DEF IInv, HandledIsAccounted, Delivered, Token
  <1>8. QED
    BY <1>1, <1>2, <1>3, <1>4, <1>6, <1>7 DEF IInv

LEMMA Taken ==
  ASSUME StoreTypeOK, NEW t, Take(t)
  PROVE  /\ blob' \in [Codes -> {"unused", "held", "gone"}]
         /\ \A c \in Codes : blob[c] # "unused" => blob'[c] # "unused"
  BY DEF Take, StoreTypeOK

\* The pass over the codes file up to the answer of the relay.
LEMMA Reads ==
  ASSUME IInv, UNCHANGED sendVars,
         \/ Pass \/ PassDone \/ SkipProcessed
         \/ DownloadOk \/ DownloadMissing
         \/ DownloadHttpError \/ DownloadEarlyError \/ DownloadLateError
  PROVE  IInv'
  <1>1. StoreTypeOK /\ inbox \subseteq Docs /\ recv \in Places
    BY DEF IInv, SendIInv, RecvTypeOK, Places
  <1>2. recv.line \in Nat /\ recv.line + 1 \in Nat /\ recv.line + 1 >= 1
    BY <1>1 DEF Places
  <1>3. recv.pc = "reading" => recv.line >= 1
    BY DEF IInv, AtUnhandled
  <1>4. /\ UNCHANGED <<processed, recvLog, inbox, recvKills, content, lines>>
        /\ blob' \in [Codes -> {"unused", "held", "gone"}]
        /\ \A c \in Codes : blob[c] # "unused" => blob'[c] # "unused"
    BY <1>1, Taken
       DEF Pass, PassDone, SkipProcessed, DownloadOk, DownloadMissing, DownloadHttpError,
           DownloadEarlyError, DownloadLateError, storeVars, StoreTypeOK
  <1>5. CASE Pass \/ PassDone \/ SkipProcessed \/ DownloadEarlyError \/ DownloadLateError
    <2>1. recv' \in {Reader("reading", 1, "none"), Reader("sleeping", 0, "none"), NextLine}
      BY <1>5 DEF Pass, PassDone, SkipProcessed, DownloadEarlyError, DownloadLateError
    <2>2. /\ recv' \in Places
          /\ recv'.pc \in {"sleeping", "reading"}
          /\ recv'.pc # "sleeping" => recv'.line >= 1
      BY <1>2, <2>1 DEF Reader, NextLine, Places, Verdict
    <2>3. QED
      BY <1>1, <1>4, <2>2, OnlyReads
  <1>6. CASE DownloadOk \/ DownloadMissing \/ DownloadHttpError
    <2>1. /\ recv.pc = "reading" /\ recv.line <= Len(lines) /\ lines[recv.line] \notin processed
          /\ \/ recv' = Reader("unpacking", recv.line, "none")
             \/ recv' = Reader("logging", recv.line, "failed")
      BY <1>6 DEF DownloadOk, DownloadMissing, DownloadHttpError, Downloading, Token
    <2>2. /\ recv' \in Places /\ recv'.line = recv.line
          /\ recv'.pc = "logging" => recv'.verdict = "failed"
      BY <1>2, <2>1 DEF Reader, Places, Verdict
    <2>3. recv'.pc = "unpacking" => lines[recv.line] \in Codes
      <3>1. recv'.pc = "unpacking" => DownloadOk
        BY <1>6 DEF DownloadMissing, DownloadHttpError, Reader
      <3>2. QED
        BY <3>1 DEF DownloadOk, Take, Token
    <2>4. QED
      BY <1>1, <1>3, <1>4, <2>1, <2>2, <2>3, OnlyReads
  <1>7. QED
    BY <1>5, <1>6

\* The document is extracted, by the loop or by a second receiver, or is not.
LEMMA Unpacks ==
  ASSUME IInv, UNCHANGED sendVars,
         Unpack \/ \E t \in Codes : RecvOnce(t)
  PROVE  IInv'
  <1>1. /\ StoreTypeOK /\ inbox \subseteq Docs /\ recv \in Places
        /\ recv.line \in Nat /\ Len(lines) \in Nat
    BY DEF IInv, SendIInv, StoreTypeOK, RecvTypeOK, Places
  <1>2. recv.pc \in {"unpacking", "logging"} =>
          recv.line \in 1..Len(lines) /\ lines[recv.line] \notin processed
    BY <1>1 DEF IInv, AtUnhandled, Token
  <1>3. CASE Unpack
    <2>1. /\ recv.pc = "unpacking"
          /\ UNCHANGED <<processed, recvLog, recvKills, blob, content, lines>>
          /\ \/ inbox' = inbox \cup content[Token] /\ recv' = Reader("logging", recv.line, "received")
             \/ inbox' = inbox /\ recv' = Reader("logging", recv.line, "failed")
      BY <1>3 DEF Unpack, storeVars
    <2>2. /\ recv' \in Places /\ recv'.line = recv.line /\ recv'.pc = "logging"
          /\ recv'.verdict \in {"received", "failed"}
          /\ recv'.verdict = "received" => inbox' = inbox \cup content[Token]
      BY <1>1, <2>1 DEF Reader, Places, Verdict
    <2>3. inbox \subseteq inbox' /\ inbox' \subseteq Docs
      <3>1. CASE inbox' = inbox
        BY <1>1, <3>1
      <3>2. CASE inbox' = inbox \cup content[Token]
        <4>1. Token \in Codes
          BY <2>1 DEF IInv, AtUnhandled
        <4>2. QED
          BY <1>1, <3>2, <4>1 DEF StoreTypeOK
      <3>3. QED
        BY <2>1, <3>1, <3>2
    <2>4. QED
      BY <1>1, <1>2, <2>1, <2>2, <2>3, OnlyReads DEF StoreTypeOK, Token
  <1>4. CASE \E t \in Codes : RecvOnce(t)
    <2>1. PICK t \in Codes : RecvOnce(t)
      BY <1>4
    <2>2. /\ UNCHANGED <<recv, processed, recvLog, recvKills, content, lines>>
          /\ Take(t)
          /\ inbox' \in {inbox \cup content[t], inbox}
      BY <2>1 DEF RecvOnce
    <2>3. inbox \subseteq inbox' /\ inbox' \subseteq Docs
      BY <1>1, <2>2 DEF StoreTypeOK
    <2>4. recv.pc = "logging" /\ recv.verdict = "received" /\ lines[recv.line] \in Codes =>
            content[lines[recv.line]] \subseteq inbox'
      BY <2>3 DEF IInv, HandledIsAccounted, Delivered, Token
    <2>5. /\ recv.pc = "logging" => recv.verdict # "none"
          /\ recv.pc # "sleeping" => recv.line >= 1
          /\ recv.pc = "unpacking" => lines[recv.line] \in Codes
      BY DEF IInv, HandledIsAccounted, AtUnhandled, Token
    <2>6. /\ blob' \in [Codes -> {"unused", "held", "gone"}]
          /\ \A c \in Codes : blob[c] # "unused" => blob'[c] # "unused"
      BY <1>1, <2>2, Taken
    <2>7. QED
      BY <1>1, <1>2, <2>2, <2>3, <2>4, <2>5, <2>6, OnlyReads
  <1>5. QED
    BY <1>3, <1>4

-----------------------------------------------------------------------------
(* The two steps that change the set of handled codes. *)

LEMMA Logged ==
  ASSUME NEW v, NEW t
  PROVE  t \in Verdicts(v) <=>
           \E i \in 1..Len(recvLog) : recvLog[i].token = t /\ recvLog[i].verdict = v
  BY DEF Verdicts

LEMMA Logs ==
  ASSUME IInv, UNCHANGED sendVars, LogVerdict
  PROVE  IInv'
  <1> DEFINE Entry == [token : Tokens, verdict : Verdict \ {"none"}]
             e == [token |-> Token, verdict |-> recv.verdict]
             n == Len(recvLog)
  <1>1. /\ StoreTypeOK /\ Len(lines) \in Nat /\ lines \in Seq(Tokens)
        /\ processed \subseteq Tokens /\ recvLog \in Seq(Entry) /\ n \in Nat
        /\ recv \in Places /\ recv.line \in Nat /\ recv.verdict \in Verdict
    BY DEF IInv, SendIInv, StoreTypeOK, RecvTypeOK, Places
  <1>2. /\ recv.pc = "logging" /\ recv.line \in 1..Len(lines)
        /\ Token \in Tokens /\ Token \notin processed
    BY <1>1 DEF LogVerdict, IInv, AtUnhandled, Token
  <1>3. e \in Entry
    BY <1>1, <1>2 DEF IInv, HandledIsAccounted
  <1>4. /\ processed' = processed \cup Remember({Token})
        /\ recv' = NextLine
        /\ UNCHANGED <<inbox, recvKills, blob, content, lines>>
        /\ \/ recvLog' = Append(recvLog, e)
           \/ "log" \in RecvFaults /\ recvLog' = recvLog
    BY DEF LogVerdict, storeVars
  <1>5. SendIInv'
    BY <1>1, <1>4, SendKept DEF IInv, StoreTypeOK
  <1>6. /\ recv' \in Places /\ recv'.pc = "reading" /\ recv'.line >= 1
    BY <1>1, <1>4 DEF NextLine, Reader, Places, Verdict
  <1> HIDE DEF Entry, e, n
  <1>7. CASE recvLog' = Append(recvLog, e)
    <2>1. /\ recvLog' \in Seq(Entry)
          /\ Len(recvLog') = n + 1
          /\ recvLog'[n + 1] = e
          /\ \A i \in 1..n : recvLog'[i] = recvLog[i]
      BY <1>1, <1>3, <1>7 DEF n
    <2>2. \A i \in 1..Len(recvLog') : i \in 1..n \/ i = n + 1
      BY <1>1, <2>1
    <2>3. e.token = Token /\ e.verdict = recv.verdict
      BY DEF e
    <2>4. RecvTypeOK'
      BY <1>1, <1>2, <1>4, <1>6, <2>1 DEF IInv, RecvTypeOK, Remember, Places, Entry
    <2>5. LoggedIsRemembered'
      BY <1>4, <2>1, <2>2, <2>3 DEF IInv, LoggedIsRemembered, Remember, Lasting, n
    <2>6. OneVerdict'
      <3>1. \A j \in 1..n : recvLog[j].token = Token => ~Lasting(Token)
        BY <1>2 DEF IInv, LoggedIsRemembered, n
      <3>2. \A i, j \in 1..n :
              recvLog[i].token = recvLog[j].token /\ Lasting(recvLog[i].token) => i = j
        BY DEF IInv, OneVerdict, n
      <3>3. QED
        BY <2>1, <2>2, <2>3, <3>1, <3>2 DEF OneVerdict
    <2>7. \A c \in Codes : Handled(c)' => Handled(c) \/ c = Token
      <3>1. ASSUME NEW v, NEW t \in Verdicts(v) PROVE t \in Verdicts(v)'
        <4>1. PICK i \in 1..n : recvLog[i].token = t /\ recvLog[i].verdict = v
          BY <3>1, Logged DEF n
        <4>2. i \in 1..Len(recvLog')
          BY <1>1, <2>1
        <4>3. QED
          BY <2>1, <4>1, <4>2 DEF Verdicts
      <3>2. Mistaken \subseteq Mistaken'
        BY <3>1 DEF Mistaken
      <3>3. QED
        BY <1>4, <2>1, <2>2, <2>3, <3>2 DEF Handled, Remember, n
    <2>8. HandledWasStored'
      <3>1. Token \in Codes => blob[Token] # "unused"
        BY <1>2 DEF IInv, SendIInv, LogIsReal, Token
      <3>2. QED
        BY <1>4, <2>7, <3>1 DEF IInv, HandledWasStored
    <2>9. HandledIsAccounted'
      <3>1. \A c : c \in Verdicts("failed") => c \in Verdicts("failed")'
        BY <1>1, <2>1, Logged DEF n, Verdicts
      <3>2. recv.verdict = "failed" => Token \in Verdicts("failed")'
        BY <1>1, <2>1, <2>3 DEF Verdicts
      <3>3. recv.verdict = "failed" \/ (Token \in Codes => Delivered(Token))
        BY <1>1, <1>2 DEF IInv, HandledIsAccounted, Verdict
      <3>4. \A c : Delivered(c)' = Delivered(c)
        BY <1>4 DEF Delivered
      <3>5. QED
        BY <1>6, <2>7, <3>1, <3>2, <3>3, <3>4 DEF IInv, HandledIsAccounted
    <2>10. AtUnhandled'
      BY <1>6 DEF AtUnhandled
    <2>11. QED
      BY <1>5, <2>4, <2>5, <2>6, <2>8, <2>9, <2>10 DEF IInv
  <1>8. CASE "log" \in RecvFaults /\ recvLog' = recvLog
    <2>1. RecvTypeOK'
      BY <1>1, <1>2, <1>4, <1>6, <1>8 DEF IInv, RecvTypeOK, Remember, Places
    <2>2. LoggedIsRemembered' /\ OneVerdict'
      BY <1>4, <1>8 DEF IInv, LoggedIsRemembered, OneVerdict
    <2>3. \A c \in Codes : Handled(c)' => Handled(c) \/ c = Token
      BY <1>4, <1>8 DEF Handled, Remember, Mistaken, Verdicts
    <2>4. HandledWasStored'
      <3>1. Token \in Codes => blob[Token] # "unused"
        BY <1>2 DEF IInv, SendIInv, LogIsReal, Token
      <3>2. QED
        BY <1>4, <2>3, <3>1 DEF IInv, HandledWasStored
    <2>5. HandledIsAccounted' /\ AtUnhandled'
      BY <1>6, <1>8 DEF HandledIsAccounted, AtUnhandled
    <2>6. QED
      BY <1>5, <2>1, <2>2, <2>4, <2>5 DEF IInv
  <1>9. QED
    BY <1>4, <1>7, <1>8

LEMMA Restarts ==
  ASSUME IInv, UNCHANGED sendVars, KillReceiver
  PROVE  IInv'
  <1>1. /\ recv' = Reader("sleeping", 0, "none")
        /\ processed' = Remember(UNION {ReadBack(recvLog[i].token) : i \in 1..Len(recvLog)})
        /\ recvKills < RecvKills /\ recvKills' = recvKills + 1
        /\ UNCHANGED <<recvLog, inbox, blob, content, lines>>
    BY DEF KillReceiver, storeVars
  <1>2. SendIInv'
    BY <1>1, SendKept DEF IInv, SendIInv, StoreTypeOK
  <1>3. recv' \in Places /\ recv'.pc = "sleeping"
    BY <1>1 DEF Reader, Places, Verdict
  <1>4. recvKills' \in 0..RecvKills
    BY <1>1, RecvAssumption DEF RecvAssumption, IInv, RecvTypeOK
  <1>5. /\ processed' \subseteq Tokens
        /\ \A i \in 1..Len(recvLog) : recvLog[i].verdict \in {"received", "failed"}
    <2>1. \A i \in 1..Len(recvLog) :
            recvLog[i].token \in Tokens /\ recvLog[i].verdict \in {"received", "failed"}
      <3> DEFINE Entry == [token : Tokens, verdict : Verdict \ {"none"}]
      <3>1. recvLog \in Seq(Entry)
        BY DEF IInv, RecvTypeOK
      <3>2. \A x \in Entry : x.token \in Tokens /\ x.verdict \in {"received", "failed"}
        BY DEF Verdict
      <3> HIDE DEF Entry
      <3>3. \A i \in 1..Len(recvLog) : recvLog[i] \in Entry
        BY <3>1
      <3>4. QED
        BY <3>2, <3>3
    <2>2. \A t \in Tokens : ReadBack(t) \subseteq Tokens
      BY RecvAssumption DEF RecvAssumption, ReadBack
    <2>3. QED
      BY <1>1, <2>1, <2>2 DEF Remember
  <1>6. RecvTypeOK'
    BY <1>1, <1>3, <1>4, <1>5 DEF IInv, RecvTypeOK, Places
  <1>7. AtUnhandled'
    BY <1>3 DEF AtUnhandled
  <1>8. LoggedIsRemembered' /\ OneVerdict'
    <2>1. ASSUME NEW i \in 1..Len(recvLog), Lasting(recvLog[i].token)
          PROVE  recvLog[i].token \in processed'
      BY <1>1, <2>1 DEF Lasting, ReadBack, Remember
    <2>2. QED
      BY <1>1, <2>1 DEF IInv, LoggedIsRemembered, OneVerdict
  <1>9. ASSUME NEW c, Handled(c)' PROVE Handled(c)
    <2>1. c \notin Mistaken
      BY <1>1, <1>9 DEF Handled, Mistaken, Verdicts
    <2>2. ASSUME NEW i \in 1..Len(recvLog), c \in ReadBack(recvLog[i].token)
          PROVE  recvLog[i].token = c
      <3>1. recvLog[i].token \in Verdicts("received") \cup Verdicts("failed")
        BY <1>5, Logged
      <3>2. recvLog[i].token \notin QuotedTokens
        BY <2>1, <2>2, <3>1 DEF Mistaken, ReadBack
      <3>3. QED
        BY <2>2, <3>2 DEF ReadBack
    <2>3. QED
      BY <1>1, <1>9, <2>1, <2>2 DEF Handled, Remember
  <1>10. HandledWasStored' /\ HandledIsAccounted'
    BY <1>1, <1>3, <1>9 DEF IInv, HandledWasStored, HandledIsAccounted, Delivered, Verdicts
  <1>11. QED
    BY <1>2, <1>6, <1>7, <1>8, <1>10 DEF IInv

-----------------------------------------------------------------------------

\* The inductive invariant of the two watchers and the relay between them.
THEOREM PipelineInvariant == Spec => []IInv
  <1>1. IInv /\ [Next]_vars => IInv'
    <2> SUFFICES ASSUME IInv, [Next]_vars PROVE IInv'
      OBVIOUS
    <2>1. CASE Sender
      <3>1. SendNext /\ UNCHANGED recvVars /\ SendIInv
        BY <2>1 DEF Sender, IInv
      <3>2. SendIInv'
        BY <3>1, SendUser, SendScan, SendUpload, SendMove, SendLog
           DEF SendNext, UserStep, SenderStep, SenderFault
      <3>3. QED
        BY <3>1, <3>2, SendGrows, StoreOnly
    <2>2. CASE Receiver
      BY <2>2, Reads, Unpacks, Logs, Restarts DEF Receiver, ReceiverStep, ReceiverFault
    <2>3. CASE Relay
      <3>1. PICK c \in Codes : Expire(c) /\ UNCHANGED <<sendVars, recvVars>>
        BY <2>3 DEF Relay
      <3>2. /\ blob' \in [Codes -> {"unused", "held", "gone"}]
            /\ \A d \in Codes : blob[d] # "unused" => blob'[d] # "unused"
            /\ UNCHANGED <<content, lines>>
        BY <3>1 DEF Expire, IInv, SendIInv, StoreTypeOK
      <3>3. SendIInv' /\ StoreGrows
        BY <3>1, <3>2, SendKept DEF IInv, SendIInv, StoreTypeOK, StoreGrows
      <3>4. QED
        BY <3>1, <3>3, StoreOnly
    <2>4. CASE Typing
      <3>1. PICK t \in BadTokens : AddToken(t) /\ UNCHANGED sendVars
        BY <2>4 DEF Typing
      <3>2. /\ lines' = Append(lines, t) /\ t \in Tokens
            /\ UNCHANGED <<recvVars, blob, content>>
        BY <3>1 DEF AddToken
      <3>3. SendIInv'
        BY <3>1, <3>2, SendKept DEF IInv, SendIInv, StoreTypeOK
      <3>4. StoreGrows
        BY <3>2, LinesGrow DEF IInv, SendIInv, StoreGrows
      <3>5. QED
        BY <3>2, <3>3, <3>4, StoreOnly
    <2>5. CASE UNCHANGED vars
      <3>1. SendIInv' /\ StoreGrows
        BY <2>5, SendKept DEF vars, storeVars, IInv, SendIInv, StoreTypeOK, StoreGrows
      <3>2. QED
        BY <2>5, <3>1, StoreOnly DEF vars
    <2>6. QED
      BY <2>1, <2>2, <2>3, <2>4, <2>5 DEF Next
  <1>2. QED
    BY <1>1, InitiallyAll, PTL DEF Spec

\* No failure, retry, kill or name collision of cli_watch loses a document,
\* whatever the receiver, the relay and the users do.
THEOREM PipelineOriginalsKept == Spec => []OriginalsKept
  <1>1. IInv => OriginalsKept
    BY DEF IInv, SendIInv
  <1>2. QED
    BY <1>1, PipelineInvariant, PTL

\* Every code in the codes file, which a user may write to as well, is of a
\* stored blob, and is there once.
THEOREM PipelineLogIsReal == Spec => []LogIsReal
  <1>1. IInv => LogIsReal
    BY DEF IInv, SendIInv
  <1>2. QED
    BY <1>1, PipelineInvariant, PTL

\* A verdict is final: no token that the set of handled codes can hold and the
\* log gives back gets two, not even across a restart; so no code does.
THEOREM PipelineOneVerdict == Spec => []OneVerdict
  <1>1. IInv => OneVerdict
    BY DEF IInv
  <1>2. QED
    BY <1>1, PipelineInvariant, PTL

\* A loss is never silent, as long as the log can be written (append_recv_log
\* gives up without a word when it cannot open the log) and no word with a quote
\* behind the code was logged before.
THEOREM PipelineNoSilentLoss ==
  ASSUME "log" \notin RecvFaults
  PROVE  Spec => []NoSilentLoss
  <1>1. IInv => NoSilentLoss
    BY DEF IInv, HandledIsAccounted, Handled, Delivered, NoSilentLoss
  <1>2. QED
    BY <1>1, PipelineInvariant, PTL

=============================================================================
