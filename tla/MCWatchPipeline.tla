-------------------------- MODULE MCWatchPipeline --------------------------
(* Instances of WatchPipeline for TLC. *)
EXTENDS WatchPipeline, TLC

CONSTANTS c1, c2, q1  \* two codes, and a word that holds a quote

\* A word pasted with the quote behind the code in it.
PastedCode == q1 :> {c1}

\* No word with a quote.
NoQuotes == [t \in {} |-> {}]
=============================================================================
