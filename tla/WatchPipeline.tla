--------------------------- MODULE WatchPipeline ---------------------------
(***************************************************************************)
(* The two watchers of README.md "Automation: watched folders" around one    *)
(* relay: the receiver's codes file is the sender's log.                     *)
(***************************************************************************)
EXTENDS SendWatch, RecvWatch

CONSTANT BlobsExpire  \* whether unclaimed blobs may reach the relay's TTL

ASSUME PipelineAssumption == BlobsExpire \in BOOLEAN

vars == <<storeVars, sendVars, recvVars>>

TypeOK == StoreTypeOK /\ SendTypeOK /\ RecvTypeOK

Init == StoreInit /\ SendInit /\ RecvInit

Sender   == SendNext /\ UNCHANGED recvVars
Receiver == (ReceiverStep \/ ReceiverFault) /\ UNCHANGED sendVars
Relay    == BlobsExpire /\ (\E c \in Codes : Expire(c)) /\ UNCHANGED <<sendVars, recvVars>>
Typing   == (\E t \in BadTokens : AddToken(t)) /\ UNCHANGED sendVars

Next == Sender \/ Receiver \/ Relay \/ Typing

Spec == Init /\ [][Next]_vars

\* Both loops keep running, and what they retry does not fail for ever: an
\* upload or a download tried again and again is once not interrupted.
FairSpec ==
  /\ Spec
  /\ \A f \in Files : WF_vars(Settle(f) /\ UNCHANGED recvVars)
  /\ WF_vars(SenderStep /\ UNCHANGED recvVars)
  /\ SF_vars((\E c \in Codes : Upload(c)) /\ UNCHANGED recvVars)
  /\ WF_vars(ReceiverStep /\ UNCHANGED sendVars)
  /\ SF_vars(DownloadOk /\ UNCHANGED sendVars)

-----------------------------------------------------------------------------
(* Properties of the whole *)

\* A loss is never silent (README.md:163-165): the blob of a logged code may be
\* claimed or expire without its document reaching the inbox, but then the code
\* is logged as failed, or the receiver is at it, or will try it again; a code
\* that stands before the quote in a logged word apart, which a restart takes for
\* handled.
NoSilentLoss ==
  \A i \in 1..Len(lines) :
    lines[i] \in Codes /\ blob[lines[i]] = "gone" =>
      \/ content[lines[i]] \subseteq inbox
      \/ lines[i] \in Verdicts("failed")
      \/ lines[i] \notin processed
      \/ lines[i] \in Mistaken

\* The pipeline delivers: with refused uploads and connections that fail before
\* the relay is reached, both retried (README.md:162-164), every document left
\* in the outbox reaches the inbox, unless its user takes it back; a file named
\* code, whose log line hides its code, apart.
Delivers ==
  \A doc \in Docs :
    doc[1] \notin CodeNamed => (doc \in owed ~> doc \in inbox \/ doc \notin owed)

-----------------------------------------------------------------------------
(* The inductive invariant the proofs rest on (WatchProofs). *)

\* The receiver is at a line of the codes file, and once it has asked for the
\* token of the line, at one it had not handled; what it unpacks is a blob.
AtUnhandled ==
  /\ recv.pc # "sleeping" => recv.line >= 1
  /\ recv.pc \in {"unpacking", "logging"} =>
       recv.line <= Len(lines) /\ Token \notin processed
  /\ recv.pc = "unpacking" => Token \in Codes

\* What is logged is remembered, as far as the set of codes can hold it and the
\* log gives it back: the set is seeded from the log.
LoggedIsRemembered ==
  \A i \in 1..Len(recvLog) : Lasting(recvLog[i].token) => recvLog[i].token \in processed

\* The receiver has dealt with token c itself.
Handled(c) ==
  /\ c \notin Mistaken
  /\ c \in processed \/ \E i \in 1..Len(recvLog) : recvLog[i].token = c

\* Only codes that were given out are handled, so that no blob stored later
\* comes under a code already handled.
HandledWasStored == \A c \in Codes : Handled(c) => blob[c] # "unused"

Delivered(c) == content[c] \subseteq inbox

\* The verdict about to be logged is a true one, and so are those given.
HandledIsAccounted ==
  /\ recv.pc = "logging" => recv.verdict # "none"
  /\ recv.pc = "logging" /\ recv.verdict = "received" /\ Token \in Codes => Delivered(Token)
  /\ "log" \notin RecvFaults =>
       \A c \in Codes : Handled(c) => Delivered(c) \/ c \in Verdicts("failed")

IInv ==
  /\ SendIInv /\ RecvTypeOK
  /\ AtUnhandled /\ LoggedIsRemembered /\ OneVerdict
  /\ HandledWasStored /\ HandledIsAccounted
=============================================================================
