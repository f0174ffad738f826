--------------------------- MODULE OneTimeMailbox ---------------------------
(***************************************************************************)
(* What the relay promises to its clients, with no disk, no handler and no *)
(* sweeper: a code names a slot; a stored blob sits in its slot until one   *)
(* reader takes it or it expires; only the reader that took it can receive  *)
(* the content, and nothing is ever put back.                               *)
(***************************************************************************)
CONSTANTS
  Codes,    \* claim codes, each drawn fresh for one upload
  Readers,  \* download requests
  NoCode    \* "this reader has taken nothing"

VARIABLES
  slot,     \* slot[c]: where the blob of code c is
  took,     \* took[r]: the code whose blob reader r took
  got       \* the readers that received a whole blob

vars == <<slot, took, got>>

TypeOK ==
  /\ slot \in [Codes -> {"empty", "held", "closed"}]
  /\ took \in [Readers -> Codes \cup {NoCode}]
  /\ got \subseteq Readers

Init ==
  /\ slot = [c \in Codes |-> "empty"]
  /\ took = [r \in Readers |-> NoCode]
  /\ got = {}

Put(c) ==
  /\ slot[c] = "empty"
  /\ slot' = [slot EXCEPT ![c] = "held"]
  /\ UNCHANGED <<took, got>>

Take(r, c) ==
  /\ slot[c] = "held"
  /\ took[r] = NoCode
  /\ slot' = [slot EXCEPT ![c] = "closed"]
  /\ took' = [took EXCEPT ![r] = c]
  /\ UNCHANGED got

Expire(c) ==
  /\ slot[c] = "held"
  /\ slot' = [slot EXCEPT ![c] = "closed"]
  /\ UNCHANGED <<took, got>>

Deliver(r) ==
  /\ took[r] # NoCode
  /\ r \notin got
  /\ got' = got \cup {r}
  /\ UNCHANGED <<slot, took>>

Next ==
  \/ \E c \in Codes : Put(c) \/ Expire(c) \/ \E r \in Readers : Take(r, c)
  \/ \E r \in Readers : Deliver(r)

Spec == Init /\ [][Next]_vars
=============================================================================
