----------------------------- MODULE RecvWatch -----------------------------
(***************************************************************************)
(* `kyber-cli recv-watch` (src/cli.c, cli_recv_watch and recv_to_inbox): a   *)
(* loop that reads the codes file, downloads, decrypts and extracts every    *)
(* code it has not handled, and logs the outcome.  The set of handled codes  *)
(* is in memory and seeded from the log at start.                            *)
(***************************************************************************)
EXTENDS ClaimStore

CONSTANTS
  QuotedTokens,  \* the words that hold a quote, among the other words
  BeforeQuote,   \* what stands before its first quote, as a set of at most one token
  RecvKills,     \* bound on kills and restarts
  MaxLog,        \* bound on the lines of the log at the start of a pass
  RecvFaults     \* the faults that may happen: subset of {"early", "late", "http", "unpack", "log", "once"}

ASSUME RecvAssumption ==
  /\ QuotedTokens \subseteq BadTokens
  /\ BeforeQuote \in [QuotedTokens -> SUBSET (Tokens \ QuotedTokens)]
  /\ RecvKills \in Nat
  /\ MaxLog \in Nat
  /\ RecvFaults \subseteq {"early", "late", "http", "unpack", "log", "once"}

VARIABLES
  recv,      \* the loop: pc, line being read, verdict on its code
  processed, \* CodeSet: the codes remembered in memory
  recvLog,   \* received-log.jsonl
  inbox,     \* documents extracted
  recvKills  \* kills so far

recvVars == <<recv, processed, recvLog, inbox, recvKills>>

Verdict == {"none", "received", "failed"}

RecvTypeOK ==
  /\ recv \in [pc : {"sleeping", "reading", "unpacking", "logging"},
               line : Nat, verdict : Verdict]
  /\ processed \subseteq Tokens
  /\ recvLog \in Seq([token : Tokens, verdict : Verdict \ {"none"}])
  /\ inbox \subseteq Docs
  /\ recvKills \in 0..RecvKills

\* The local state of cli_recv_watch.
Reader(pc, line, verdict) == [pc |-> pc, line |-> line, verdict |-> verdict]
Token == lines[recv.line]

RecvInit ==
  /\ recv = Reader("sleeping", 0, "none")
  /\ processed = {}
  /\ recvLog = <<>>
  /\ inbox = {}
  /\ recvKills = 0

\* What codeset_add keeps: a slot has 40 bytes, so a longer token is cut and
\* never compares equal to itself again.
Remember(S) == S \ LongTokens

\* What extract_code_from_line finds in the log line of token t: the line has t
\* as it is, so a word ends at its first quote, and an empty one is none.
ReadBack(t) == IF t \in QuotedTokens THEN BeforeQuote[t] ELSE {t}

\* A user adds a word to the codes file.
AddToken(t) ==
  /\ t \in BadTokens
  /\ \A i \in 1..Len(lines) : lines[i] # t
  /\ lines' = Append(lines, t)
  /\ UNCHANGED <<recvVars, blob, content>>

\* fopen of the codes file at the start of a pass.
Pass ==
  /\ recv.pc = "sleeping"
  /\ Len(recvLog) < MaxLog
  /\ recv' = Reader("reading", 1, "none")
  /\ UNCHANGED <<processed, recvLog, inbox, recvKills, storeVars>>

\* End of file: sleep until the next pass.
PassDone ==
  /\ recv.pc = "reading"
  /\ recv.line > Len(lines)
  /\ recv' = Reader("sleeping", 0, "none")
  /\ UNCHANGED <<processed, recvLog, inbox, recvKills, storeVars>>

NextLine == Reader("reading", recv.line + 1, "none")

SkipProcessed ==
  /\ recv.pc = "reading"
  /\ recv.line <= Len(lines)
  /\ Token \in processed
  /\ recv' = NextLine
  /\ UNCHANGED <<processed, recvLog, inbox, recvKills, storeVars>>

\* The line is a code not handled yet: transfer_download is called.
Downloading ==
  /\ recv.pc = "reading"
  /\ recv.line <= Len(lines)
  /\ Token \notin processed

DownloadOk ==
  /\ Downloading
  /\ Take(Token)
  /\ recv' = Reader("unpacking", recv.line, "none")
  /\ UNCHANGED <<processed, recvLog, inbox, recvKills, content, lines>>

\* 404: TRANSFER_ERR_HTTP, recv_to_inbox returns -2.
DownloadMissing ==
  /\ Downloading
  /\ Missing(Token)
  /\ recv' = Reader("logging", recv.line, "failed")
  /\ UNCHANGED <<processed, recvLog, inbox, recvKills, storeVars>>

\* Any other HTTP error, such as a 502 of the proxy before the relay, is also
\* TRANSFER_ERR_HTTP; the blob is still there.
DownloadHttpError ==
  /\ "http" \in RecvFaults
  /\ Downloading
  /\ recv' = Reader("logging", recv.line, "failed")
  /\ UNCHANGED <<processed, recvLog, inbox, recvKills, storeVars>>

\* Mutant of DownloadEarlyError: the code is remembered as handled.
DownloadEarlyErrorFinal ==
  /\ "early" \in RecvFaults
  /\ Downloading
  /\ recv' = NextLine
  /\ processed' = processed \cup Remember({Token})
  /\ UNCHANGED <<recvLog, inbox, recvKills, storeVars>>

\* The connection fails before the relay sees the request: -1, retried in the
\* next pass.
DownloadEarlyError ==
  /\ "early" \in RecvFaults
  /\ Downloading
  /\ recv' = NextLine
  /\ UNCHANGED <<processed, recvLog, inbox, recvKills, storeVars>>

\* Mutant of DownloadLateError: the code is remembered as handled.
DownloadLateErrorFinal ==
  /\ "late" \in RecvFaults
  /\ Downloading
  /\ Take(Token)
  /\ recv' = NextLine
  /\ processed' = processed \cup Remember({Token})
  /\ UNCHANGED <<recvLog, inbox, recvKills, content, lines>>

\* The connection fails while the relay streams: also -1, but the relay has
\* given the blob away.
DownloadLateError ==
  /\ "late" \in RecvFaults
  /\ Downloading
  /\ Take(Token)
  /\ recv' = NextLine
  /\ UNCHANGED <<processed, recvLog, inbox, recvKills, content, lines>>

\* Open, unlock and extract the archive; the download is deleted either way.
Unpack ==
  /\ recv.pc = "unpacking"
  /\ \/ /\ inbox' = inbox \cup content[Token]
        /\ recv' = Reader("logging", recv.line, "received")
     \/ /\ "unpack" \in RecvFaults
        /\ recv' = Reader("logging", recv.line, "failed")
        /\ UNCHANGED inbox
  /\ UNCHANGED <<processed, recvLog, recvKills, storeVars>>

\* append_recv_log, which gives up silently when it cannot open the log, and
\* codeset_add.
LogVerdict ==
  /\ recv.pc = "logging"
  /\ \/ recvLog' = Append(recvLog, [token |-> Token, verdict |-> recv.verdict])
     \/ "log" \in RecvFaults /\ UNCHANGED recvLog
  /\ processed' = processed \cup Remember({Token})
  /\ recv' = NextLine
  /\ UNCHANGED <<inbox, recvKills, storeVars>>

\* Mutant of KillReceiver: only received codes are seeded.
KillReceiverSeedsReceived ==
  /\ recvKills < RecvKills
  /\ recvKills' = recvKills + 1
  /\ recv' = Reader("sleeping", 0, "none")
  /\ processed' = Remember(UNION {ReadBack(recvLog[i].token) :
                                 i \in {j \in 1..Len(recvLog) : recvLog[j].verdict = "received"}})
  /\ UNCHANGED <<recvLog, inbox, storeVars>>

\* Killed and started again: the set is seeded from what can be read back of the
\* log, whatever the verdicts; a downloaded archive not yet extracted is never looked at again.
KillReceiver ==
  /\ recvKills < RecvKills
  /\ recvKills' = recvKills + 1
  /\ recv' = Reader("sleeping", 0, "none")
  /\ processed' = Remember(UNION {ReadBack(recvLog[i].token) : i \in 1..Len(recvLog)})
  /\ UNCHANGED <<recvLog, inbox, storeVars>>

\* `kyber-cli recv <code>` beside the loop, by an impatient user: the same
\* recv_to_inbox, of a code in the log, with no set of codes and no log.  It may
\* fail once the relay has given the blob away.
RecvOnce(t) ==
  /\ "once" \in RecvFaults
  /\ \E i \in 1..Len(lines) : lines[i] = t
  /\ Take(t)
  /\ inbox' = inbox \cup content[t] \/ UNCHANGED inbox
  /\ UNCHANGED <<recv, processed, recvLog, recvKills, content, lines>>

ReceiverStep ==
  \/ Pass \/ PassDone \/ SkipProcessed
  \/ DownloadOk \/ DownloadMissing \/ Unpack \/ LogVerdict

ReceiverFault ==
  \/ DownloadHttpError \/ DownloadEarlyError \/ DownloadLateError \/ KillReceiver
  \/ \E t \in Codes : RecvOnce(t)

-----------------------------------------------------------------------------
(* Properties *)

Verdicts(v) == {recvLog[i].token : i \in {j \in 1..Len(recvLog) : recvLog[j].verdict = v}}

\* The tokens that stay handled across a restart: those the set can hold and the
\* log gives back.
Lasting(t) == t \notin LongTokens \cup QuotedTokens

\* README.md:163-165: a verdict is final.  No token that the set of handled codes
\* can hold and the log gives back, which includes every code, gets two, not even
\* across a restart that lost the set in memory.
OneVerdict ==
  \A i, j \in 1..Len(recvLog) :
    recvLog[i].token = recvLog[j].token /\ Lasting(recvLog[i].token) => i = j

\* The tokens a restart takes for handled without their having been asked for:
\* what stands before the quote in a logged word.
Mistaken == UNION {BeforeQuote[t] : t \in QuotedTokens \cap (Verdicts("received") \cup Verdicts("failed"))}

=============================================================================
