----------------------------- MODULE ClaimStore -----------------------------
(***************************************************************************)
(* The relay as the command-line watchers see it through src/transfer.c: a  *)
(* stored blob can be claimed once and may expire before that.  Module Relay *)
(* is the same service in detail; both are one-time mailboxes.              *)
(***************************************************************************)
EXTENDS Naturals, Sequences

CONSTANTS
  Files,       \* files users put in the outbox
  MaxVersion,  \* bound on the versions of one file
  Codes,       \* claim codes of the relay
  BadTokens,   \* other words a user may put in the codes file
  LongTokens,  \* the words of 40 characters or more among them
  CodeNamed,   \* the files whose name is the word code
  CodeWord     \* that word

ASSUME ClaimStoreAssumption ==
  /\ MaxVersion \in Nat \ {0}
  /\ Codes \cap BadTokens = {}
  /\ LongTokens \subseteq BadTokens
  /\ CodeNamed # {} => CodeWord \in BadTokens

Docs   == Files \X (1..MaxVersion)   \* a version of a file
Tokens == Codes \cup BadTokens       \* what the codes file may hold

\* Whether the name of f, as json_escape writes it in the log line, holds the
\* text "code" with its quotes: a quote within a name is escaped.
Quoted(f) == f \in CodeNamed

\* The token extract_code_from_line finds in the log line of file f and code c:
\* the string behind the first "code" in quotes, which is the name of the field
\* or, coming first, the value of the field before it.
LineToken(f, c) == IF Quoted(f) THEN CodeWord ELSE c

VARIABLES
  blob,     \* blob[c]: whether the relay holds a blob under code c
  content,  \* content[c]: the document encrypted in it, at most one
  lines     \* the codes file: the sender's log, or a list a user writes

storeVars == <<blob, content, lines>>

StoreTypeOK ==
  /\ blob \in [Codes -> {"unused", "held", "gone"}]
  /\ content \in [Codes -> SUBSET Docs]
  /\ lines \in Seq(Tokens)

StoreInit ==
  /\ blob = [c \in Codes |-> "unused"]
  /\ content = [c \in Codes |-> {}]
  /\ lines = <<>>

\* POST /v1/blob: the blob of document doc is stored under a fresh code.
Put(c, doc) ==
  /\ blob[c] = "unused"
  /\ blob' = [blob EXCEPT ![c] = "held"]
  /\ content' = [content EXCEPT ![c] = {doc}]

\* GET /v1/blob/{code} by the one request that wins the blob.
Take(c) ==
  /\ c \in Codes
  /\ blob[c] = "held"
  /\ blob' = [blob EXCEPT ![c] = "gone"]

\* GET of a token that holds no blob: 404.
Missing(t) == ~(t \in Codes /\ blob[t] = "held")

\* The relay sweeps a blob nobody claimed.
Expire(c) ==
  /\ blob[c] = "held"
  /\ blob' = [blob EXCEPT ![c] = "gone"]
  /\ UNCHANGED <<content, lines>>
=============================================================================
