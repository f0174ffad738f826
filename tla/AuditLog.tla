------------------------------ MODULE AuditLog ------------------------------
(***************************************************************************)
(* The hash-chained audit log of the web service (web/audit.go): a file of  *)
(* entries, each carrying the hash of the one before, and a head file that  *)
(* repeats the last entry's number and hash.                                *)
(*                                                                         *)
(* Entries are written one at a time under the auditor's lock, but the      *)
(* process may stop, and a write may fail, between any two steps.  The      *)
(* files may also lose or garble lines (a bad disk, an editor, a restored   *)
(* backup); verify is there to tell.                                        *)
(*                                                                         *)
(* A hash is abstracted to a number of its own for every entry written;     *)
(* "intact" says that an entry still hashes to the number it carries.       *)
(***************************************************************************)
EXTENDS Naturals, Sequences

CONSTANTS
  MaxEntries,  \* bound on entries written
  MaxDamage    \* bound on losses of lines and garbled lines

ASSUME AuditAssumption == {MaxEntries, MaxDamage} \subseteq Nat

VARIABLES
  lines,   \* the lines of audit.log
  open,    \* the last line has no newline yet
  head,    \* audit.head: number and hash
  mem,     \* the auditor's seq and lastHash
  writing, \* log has appended its entry and not yet moved on
  hashes,  \* hashes drawn
  \* history:
  damage,  \* times the log was damaged
  torn,    \* a write of an entry stopped half-way
  lag,     \* head was not written for the last entry
  garbled, \* a line was changed, or taken out before others
  cut      \* "no", "yes": the tail was lost; "resumed", "covered": the
           \* auditor has since read the log again, and then written to it

disk == <<lines, open, head>>
auditVars == <<disk, mem, writing, hashes, damage, torn, lag, garbled, cut>>

Junk == [parses |-> FALSE, seq |-> 0, prev |-> 0, hash |-> 0, intact |-> FALSE]
Entry(s, p, h) == [parses |-> TRUE, seq |-> s, prev |-> p, hash |-> h, intact |-> TRUE]
Mark(s, h) == [seq |-> s, hash |-> h]
NoMark == Mark(0, 0)

Hashes == 0..MaxEntries
Line == [parses : BOOLEAN, seq : Nat, prev : Hashes, hash : Hashes, intact : BOOLEAN]

AuditTypeOK ==
  /\ lines \in Seq(Line)
  /\ open \in BOOLEAN
  /\ head \in [seq : Nat, hash : Hashes]
  /\ mem \in [seq : Nat, hash : Hashes]
  /\ writing \in BOOLEAN
  /\ hashes \in 0..MaxEntries
  /\ damage \in 0..MaxDamage
  /\ {torn, lag, garbled} \subseteq BOOLEAN
  /\ cut \in {"no", "yes", "resumed", "covered"}

AuditInit ==
  /\ lines = <<>>
  /\ open = FALSE
  /\ head = NoMark
  /\ mem = NoMark
  /\ writing = FALSE
  /\ hashes = 0
  /\ damage = 0
  /\ torn = FALSE
  /\ lag = FALSE
  /\ garbled = FALSE
  /\ cut = "no"

Last == lines[Len(lines)]
Front == SubSeq(lines, 1, Len(lines) - 1)
NextEntry == Entry(mem.seq + 1, mem.hash, hashes + 1)

\* Text appended to a line that has no newline makes that line unreadable.
Written(line) == IF open THEN Append(Front, Junk) ELSE Append(lines, line)

-----------------------------------------------------------------------------
(* log *)

\* The entry is appended to the file.
AppendEntry ==
  /\ ~writing
  /\ hashes < MaxEntries
  /\ lines' = Written(NextEntry)
  /\ open' = FALSE
  /\ hashes' = hashes + 1
  /\ writing' = TRUE
  /\ cut' = IF cut = "resumed" THEN "covered" ELSE cut
  /\ UNCHANGED <<head, mem, damage, torn, lag, garbled>>

\* Only part of the line reaches the file, all but the newline at most; log
\* returns, or the process stops.
AppendTorn ==
  /\ ~writing
  /\ hashes < MaxEntries
  /\ \E line \in {Junk, NextEntry} : lines' = Written(line)
  /\ open' = TRUE
  /\ hashes' = hashes + 1
  /\ torn' = TRUE
  /\ cut' = IF cut = "resumed" THEN "covered" ELSE cut
  /\ UNCHANGED <<head, mem, writing, damage, lag, garbled>>

Advance ==
  /\ writing
  /\ mem' = Mark(NextEntry.seq, hashes)
  /\ writing' = FALSE

\* writeHead replaces the head by a rename.
WriteHead ==
  /\ Advance
  /\ head' = mem'
  /\ lag' = FALSE
  /\ UNCHANGED <<lines, open, hashes, damage, torn, garbled, cut>>

\* writeHead's errors are ignored.
WriteHeadFails ==
  /\ Advance
  /\ lag' = TRUE
  /\ UNCHANGED <<disk, hashes, damage, torn, garbled, cut>>

-----------------------------------------------------------------------------
(* newAuditor *)

\* MUTANT of Resumed: the log is not read again.
ResumedAnew == NoMark

\* resume: the last line, if it parses, gives the number and hash to go on from.
Resumed == IF lines = <<>> \/ ~Last.parses THEN NoMark ELSE Mark(Last.seq, Last.hash)

\* MUTANT of AuditRestart: the head is brought in line with the log at once.
RestartWritesHead ==
  /\ mem' = Resumed
  /\ head' = Resumed
  /\ writing' = FALSE
  /\ lag' = FALSE
  /\ cut' = IF cut = "yes" THEN "resumed" ELSE cut
  /\ UNCHANGED <<lines, open, hashes, damage, torn, garbled>>

\* The process stops, at any point, and starts again.
AuditRestart ==
  /\ mem' = Resumed
  /\ writing' = FALSE
  /\ lag' = (lag \/ writing)
  /\ cut' = IF cut = "yes" THEN "resumed" ELSE cut
  /\ UNCHANGED <<disk, hashes, damage, torn, garbled>>

-----------------------------------------------------------------------------
(* What may happen to the file *)

Damage ==
  /\ ~writing
  /\ damage < MaxDamage
  /\ damage' = damage + 1
  /\ UNCHANGED <<head, mem, writing, hashes, torn, lag>>

\* A line's fields change, and its hash no longer fits.
Garble(i) ==
  /\ Damage
  /\ lines' = [lines EXCEPT ![i] = [@ EXCEPT !.intact = FALSE]]
  /\ garbled' = TRUE
  /\ UNCHANGED <<open, cut>>

\* A line before the last is lost.
LoseLine(i) ==
  /\ Damage
  /\ i < Len(lines)
  /\ lines' = SubSeq(lines, 1, i - 1) \o SubSeq(lines, i + 1, Len(lines))
  /\ garbled' = TRUE
  /\ UNCHANGED <<open, cut>>

\* The tail from line i on is lost; the file stays.
LoseTail(i) ==
  /\ Damage
  /\ lines' = SubSeq(lines, 1, i - 1)
  /\ open' = FALSE
  /\ cut' = "yes"
  /\ UNCHANGED garbled

AuditNext ==
  \/ AppendEntry \/ AppendTorn
  \/ WriteHead \/ WriteHeadFails
  \/ AuditRestart
  \/ \E i \in 1..Len(lines) : Garble(i) \/ LoseLine(i) \/ LoseTail(i)

AuditSpec == AuditInit /\ [][AuditNext]_auditVars

-----------------------------------------------------------------------------
(* verify *)

\* MUTANT of Chained: the links are checked, the entries' own hashes are not.
ChainedByLinks ==
  \A i \in 1..Len(lines) :
    /\ lines[i].parses
    /\ lines[i].seq = i
    /\ lines[i].prev = IF i = 1 THEN 0 ELSE lines[i - 1].hash

\* Every line parses, follows the one before it, and hashes to what it says.
Chained ==
  \A i \in 1..Len(lines) :
    /\ lines[i].parses
    /\ lines[i].seq = i
    /\ lines[i].prev = IF i = 1 THEN 0 ELSE lines[i - 1].hash
    /\ lines[i].intact

\* The chain is whole and ends where the head, if there is one, says it does.
Verifies ==
  /\ Chained
  /\ head # NoMark => head = IF lines = <<>> THEN NoMark ELSE Mark(Last.seq, Last.hash)

\* A log nothing happened to verifies, however often the server was stopped:
\* the chain goes on across restarts (resume).  Only a line that was half
\* written, a lost or garbled line, or a head that was not written for the
\* last entry makes verify complain.
UndamagedVerifies ==
  ~writing /\ ~torn /\ ~lag /\ damage = 0 => Verifies

\* A garbled line, or one lost from the middle, is reported from then on, also
\* when more entries are written and the server is restarted (audit.go:18),
\* unless the lines from it on are lost as well.  (After a half-written line,
\* which verify reports too, resume may start the numbers again.)
GarblingDetected == garbled /\ cut = "no" /\ ~torn => ~Verifies

\* A lost tail is reported as long as the auditor has not gone on from what was
\* left of the log (log, writeHead), and the head was up to date.
LostTailDetected == ~writing /\ cut \in {"yes", "resumed"} /\ ~lag /\ ~torn => ~Verifies

-----------------------------------------------------------------------------
(* The inductive invariant the proofs rest on (WebProofs).  After a          *)
(* half-written line all bets are off; every part is about a log without one. *)

\* No line runs into the next, every line parses, and none has a number below
\* its place: numbers are only ever skipped, by lines that were lost.
LinesInOrder ==
  /\ ~open
  /\ \A i \in 1..Len(lines) : lines[i].parses /\ lines[i].seq >= i

\* The auditor's number and hash are those of the last line, or of the one
\* before it while an entry is being written.
GoesOnFromLast ==
  IF writing THEN lines # <<>> /\ Mark(mem.seq + 1, hashes) = Mark(Last.seq, Last.hash)
             ELSE mem = Resumed

\* An auditor running while the tail is lost goes on behind the gap.
GoesOnBehindGap == Len(lines) < IF writing THEN mem.seq + 1 ELSE mem.seq

\* What the head says: the last entry, or one beyond the lines that are left.
HeadStands ==
  IF cut \in {"yes", "resumed"} THEN head.seq > Len(lines) ELSE head = mem

\* What a garbled or lost line leaves behind.
DamageShows ==
  \/ lines # <<>> /\ Last.seq > Len(lines)
  \/ \E i \in 1..Len(lines) : ~lines[i].intact

AuditIInv ==
  /\ AuditTypeOK
  /\ open => lines # <<>>
  /\ cut = "resumed" => ~writing
  /\ damage = 0 => cut = "no"
  /\ ~torn =>
       /\ LinesInOrder
       /\ IF cut = "yes" THEN GoesOnBehindGap ELSE GoesOnFromLast
       /\ ~lag /\ ~writing => HeadStands
       /\ garbled /\ cut = "no" => DamageShows
       /\ damage = 0 => Chained

=============================================================================
