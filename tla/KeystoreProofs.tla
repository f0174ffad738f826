--------------------------- MODULE KeystoreProofs ---------------------------
(***************************************************************************)
(* Theorems about Keystore, for any programs, keys, names and key files, and *)
(* any sizes of the arrays.                                                 *)
(***************************************************************************)
EXTENDS Keystore, SequenceTheorems, TLAPS

\* What a program may hold: sequences that fit, and marks of genuine keys only.
Fits(entries) == entries \in Seq(Entry) /\ Len(entries) <= MaxKeys
Marks(fps) ==
  /\ fps \in Seq(Fingerprints) /\ Len(fps) <= MaxVerified
  /\ RangeOf(fps) \subseteq GenuineMarks

LEMMA Appended ==
  ASSUME NEW S, NEW s \in Seq(S), NEW e \in S
  PROVE  /\ Append(s, e) \in Seq(S)
         /\ Len(Append(s, e)) = Len(s) + 1
         /\ RangeOf(Append(s, e)) = RangeOf(s) \cup {e}
  <1>1. Append(s, e) \in Seq(S) /\ Len(Append(s, e)) = Len(s) + 1
    OBVIOUS
  <1>2. \A i \in 1..Len(s) : Append(s, e)[i] = s[i]
    OBVIOUS
  <1>3. Append(s, e)[Len(s) + 1] = e
    OBVIOUS
  <1>4. DOMAIN Append(s, e) = 1..(Len(s) + 1) /\ DOMAIN s = 1..Len(s) /\ Len(s) \in Nat
    OBVIOUS
  <1>5. 1..(Len(s) + 1) = 1..Len(s) \cup {Len(s) + 1}
    BY <1>4
  <1>6. RangeOf(Append(s, e)) = RangeOf(s) \cup {e}
    BY <1>2, <1>3, <1>4, <1>5 DEF RangeOf
  <1>7. QED
    BY <1>1, <1>6

LEMMA Prefix ==
  ASSUME NEW S, NEW s \in Seq(S), NEW n \in 0..Len(s)
  PROVE  /\ SubSeq(s, 1, n) \in Seq(S)
         /\ Len(SubSeq(s, 1, n)) = n
         /\ RangeOf(SubSeq(s, 1, n)) \subseteq RangeOf(s)
  <1>1. Len(s) \in Nat /\ DOMAIN s = 1..Len(s) /\ n \in Nat /\ n <= Len(s)
    OBVIOUS
  <1>2. SubSeq(s, 1, n) = [i \in 1..n |-> s[i]]
    BY <1>1
  <1>3. \A i \in 1..n : s[i] \in S /\ i \in 1..Len(s)
    BY <1>1
  <1>4. SubSeq(s, 1, n) \in Seq(S) /\ Len(SubSeq(s, 1, n)) = n
    BY <1>1, <1>2, <1>3
  <1>5. RangeOf(SubSeq(s, 1, n)) \subseteq RangeOf(s)
    BY <1>1, <1>2, <1>3 DEF RangeOf
  <1>6. QED
    BY <1>4, <1>5

LEMMA OneLess ==
  ASSUME NEW S, NEW s \in Seq(S), NEW i \in DOMAIN s
  PROVE  Without(s, i) \in Seq(S) /\ Len(Without(s, i)) = Len(s) - 1
  <1>1. Len(s) \in Nat /\ DOMAIN s = 1..Len(s) /\ Len(s) - 1 \in Nat
    OBVIOUS
  <1>2. \A j \in 1..(Len(s) - 1) : j \in 1..Len(s) /\ j + 1 \in 1..Len(s)
    BY <1>1
  <1>3. \A j \in 1..(Len(s) - 1) : (IF j < i THEN s[j] ELSE s[j + 1]) \in S
    BY <1>1, <1>2
  <1>4. QED
    BY <1>1, <1>3 DEF Without

LEMMA Empty == Fits(Gone.entries) /\ Marks(Gone.verified) /\ Gone \in Copy
  BY KeystoreAssumption DEF KeystoreAssumption, Gone, Fits, Marks, Copy, RangeOf

\* What a save writes, whole or cut short, fits.
LEMMA Written ==
  ASSUME NEW entries, Fits(entries),
         NEW image \in {Image(entries), Truncated} \cup CutImages(entries)
  PROVE  image \in [count : Nat, entries : Seq(Entry)] /\ Fits(image.entries)
  <1> USE KeystoreAssumption DEF KeystoreAssumption
  <1>1. CASE image = Image(entries)
    BY <1>1 DEF Image, Fits
  <1>2. CASE image = [count |-> 1, entries |-> <<>>]
    BY <1>2 DEF Fits
  <1>3. CASE \E n \in 0..(Len(entries) - 1) :
               image = [count |-> Len(entries), entries |-> SubSeq(entries, 1, n)]
    <2>1. PICK n \in 0..(Len(entries) - 1) :
                 image = [count |-> Len(entries), entries |-> SubSeq(entries, 1, n)]
      BY <1>3
    <2>2. entries \in Seq(Entry) /\ Len(entries) \in Nat /\ Len(entries) <= MaxKeys
      BY DEF Fits
    <2>3. n \in 0..Len(entries) /\ n <= Len(entries)
      BY <2>1, <2>2
    <2>4. SubSeq(entries, 1, n) \in Seq(Entry) /\ Len(SubSeq(entries, 1, n)) = n
      BY <2>2, <2>3, Prefix
    <2>5. QED
      BY <2>1, <2>2, <2>3, <2>4 DEF Fits
  <1>4. QED
    BY <1>1, <1>2, <1>3 DEF Truncated, CutImages

(***************************************************************************)
(* The invariant, by what a step changes.                                    *)
(***************************************************************************)
\* One program gets another copy, which fits.
LEMMA CopyChanged ==
  ASSUME IInv, NEW p \in Programs, NEW copy \in Copy,
         Fits(copy.entries), Marks(copy.verified),
         mem' = [mem EXCEPT ![p] = copy]
  PROVE  /\ mem' \in [Programs -> Copy]
         /\ \A q \in Programs : /\ Len(mem'[q].entries) <= MaxKeys
                               /\ Len(mem'[q].verified) <= MaxVerified
                               /\ RangeOf(mem'[q].verified) \subseteq GenuineMarks
  <1>1. mem \in [Programs -> Copy]
    BY DEF IInv, TypeOK
  <1>2. \A q \in Programs : mem'[q] = IF q = p THEN copy ELSE mem[q]
    BY <1>1
  <1>3. mem' \in [Programs -> Copy]
    BY <1>1
  <1>4. ASSUME NEW q \in Programs
        PROVE  /\ Len(mem'[q].entries) <= MaxKeys
               /\ Len(mem'[q].verified) <= MaxVerified
               /\ RangeOf(mem'[q].verified) \subseteq GenuineMarks
    <2>1. CASE q = p
      BY <1>2, <2>1 DEF Fits, Marks
    <2>2. CASE q # p
      BY <1>2, <2>2 DEF IInv, TypeOK, Confirmed
    <2>3. QED
      BY <2>1, <2>2
  <1>5. QED
    BY <1>3, <1>4

\* What a program holds, before and after a change of its entries.
LEMMA Holds ==
  ASSUME IInv, NEW p \in Programs
  PROVE  /\ mem[p] \in Copy
         /\ Fits(mem[p].entries)
         /\ Marks(mem[p].verified)
  BY DEF IInv, TypeOK, Confirmed, Copy, Fits, Marks

\* Assigning one of the two fields of a copy.
LEMMA FieldsOfCopy ==
  ASSUME NEW copy \in Copy, NEW v
  PROVE  /\ [copy EXCEPT !.entries = v] = [entries |-> v, verified |-> copy.verified]
         /\ [copy EXCEPT !.verified = v] = [entries |-> copy.entries, verified |-> v]
  BY DEF Copy

LEMMA LoadedSafe ==
  ASSUME IInv, NEW p \in Programs, NEW entries, NEW verified,
         Fits(entries), Marks(verified), Loaded(p, entries, verified)
  PROVE  IInv'
  <1> DEFINE copy == [entries |-> entries, verified |-> verified]
  <1>1. copy \in Copy
    BY DEF Fits, Marks, Copy
  <1>2. mem' = [mem EXCEPT ![p] = copy]
    BY DEF Loaded
  <1>3. Fits(copy.entries) /\ Marks(copy.verified)
    OBVIOUS
  <1> HIDE DEF copy
  <1>4. /\ mem' \in [Programs -> Copy]
        /\ \A q \in Programs : /\ Len(mem'[q].entries) <= MaxKeys
                              /\ Len(mem'[q].verified) <= MaxVerified
                              /\ RangeOf(mem'[q].verified) \subseteq GenuineMarks
    BY <1>1, <1>2, <1>3, CopyChanged
  <1>5. UNCHANGED <<file, verifiedTxt, keyFiles, written, kept>>
    BY DEF Loaded, files
  <1>6. pc' \in [Programs -> {"off", "idle", "saving"}] /\ stale' \in [Programs -> BOOLEAN]
    BY DEF Loaded, IInv, TypeOK
  <1>7. QED
    BY <1>4, <1>5, <1>6 DEF IInv, TypeOK, Confirmed

\* What the programs that are saving may have written fits, and so does any
\* mixture of it: it has as many entries as one of them at most.
Writers == {w \in [by : Programs, entries : Seq(Entry)] : Fits(w.entries)}

LEMMA WrittenFits ==
  /\ IInv => written \subseteq Writers
  /\ \A ws : ws \subseteq Writers =>
       /\ ws \subseteq [by : Programs, entries : Seq(Entry)]
       /\ \A w \in ws : Len(w.entries) <= MaxKeys
  BY DEF IInv, TypeOK, Writers, Fits

LEMMA MixedFits ==
  ASSUME IInv, NEW image \in Mixed(written)
  PROVE  image \in [count : Nat, entries : Seq(Entry)] /\ Fits(image.entries)
  <1> USE KeystoreAssumption DEF KeystoreAssumption
  <1> DEFINE pieces == UNION {RangeOf(w.entries) : w \in written}
             mixed == {[e EXCEPT !.label = f.label] : e, f \in pieces} \cup Torn
             counts == {0} \cup {Len(w.entries) : w \in written}
  <1>0. PICK c \in counts : image \in [count : {c}, entries : UNION {[1..n -> mixed] : n \in 0..c}]
    BY DEF Mixed
  <1>1. /\ image = [count |-> c, entries |-> image.entries]
        /\ \E n \in 0..c : image.entries \in [1..n -> mixed]
    BY <1>0
  <1>2. c \in Nat /\ c <= MaxKeys
    BY WrittenFits DEF Writers, Fits
  <1>3. mixed \subseteq Entry
    <2>1. ASSUME NEW w \in written, NEW e \in RangeOf(w.entries) PROVE e \in Entry
      BY WrittenFits DEF Writers, RangeOf
    <2>2. pieces \subseteq Entry
      BY <2>1
    <2> HIDE DEF pieces
    <2>3. \A e, f \in Entry : [e EXCEPT !.label = f.label] \in Entry
      BY DEF Entry
    <2>4. QED
      BY <2>2, <2>3
  <1> HIDE DEF pieces, mixed, counts
  <1>4. PICK n \in 0..c : image.entries \in [1..n -> mixed]
    BY <1>1
  <1>5. image.entries \in Seq(Entry) /\ Len(image.entries) = n
    BY <1>2, <1>3, <1>4
  <1>6. QED
    BY <1>1, <1>2, <1>5 DEF Fits

\* Whatever part of a save another program reads, it fits.
LEMMA SeenFits ==
  ASSUME IInv, NEW image \in Seen
  PROVE  image \in [count : Nat, entries : Seq(Entry)] /\ Fits(image.entries)
  <1>1. CASE image = file
    BY <1>1 DEF IInv, TypeOK, Fits
  <1>2. CASE \E w \in written : image \in CutImages(w.entries)
    BY <1>2, WrittenFits, Written DEF Writers
  <1>3. CASE image \in Mixed(written)
    BY <1>3, MixedFits
  <1> DEFINE several == IF \A v, w \in written : v = w THEN {} ELSE Mixed(written)
  <1>4. several \subseteq Mixed(written)
    OBVIOUS
  <1>5. \/ image = file
        \/ \E w \in written : image \in CutImages(w.entries)
        \/ image \in several
    BY DEF Seen
  <1> HIDE DEF several
  <1>6. QED
    BY <1>1, <1>2, <1>3, <1>4, <1>5

LEMMA ReadFits ==
  ASSUME IInv
  PROVE  /\ \A image \in Seen : Fits(Entries(image))
         /\ Marks(LoadVerified)
         /\ Marks(<<>>)
  <1> USE KeystoreAssumption DEF KeystoreAssumption
  <1>1. ASSUME NEW image \in Seen PROVE Fits(Entries(image))
    <2>1. image.count \in Nat /\ image.entries \in Seq(Entry) /\ Len(image.entries) <= MaxKeys
      BY SeenFits DEF Fits
    <2> DEFINE n == IF image.count <= Len(image.entries) THEN image.count ELSE Len(image.entries)
    <2>2. n \in 0..Len(image.entries) /\ n <= MaxKeys
      BY <2>1
    <2> HIDE DEF n
    <2>3. SubSeq(image.entries, 1, n) \in Seq(Entry) /\ Len(SubSeq(image.entries, 1, n)) = n
      BY <2>1, <2>2, Prefix
    <2>4. QED
      BY <2>2, <2>3 DEF Fits, Entries, n
  <1>2. Marks(LoadVerified)
    <2>1. verifiedTxt \in Seq(Fingerprints) /\ RangeOf(verifiedTxt) \subseteq GenuineMarks
      BY DEF IInv, TypeOK, Confirmed
    <2> DEFINE n == IF Len(verifiedTxt) <= MaxVerified THEN Len(verifiedTxt) ELSE MaxVerified
    <2>2. n \in 0..Len(verifiedTxt) /\ n <= MaxVerified
      BY <2>1
    <2> HIDE DEF n
    <2>3. /\ SubSeq(verifiedTxt, 1, n) \in Seq(Fingerprints)
          /\ Len(SubSeq(verifiedTxt, 1, n)) = n
          /\ RangeOf(SubSeq(verifiedTxt, 1, n)) \subseteq RangeOf(verifiedTxt)
      BY <2>1, <2>2, Prefix
    <2>4. QED
      BY <2>1, <2>2, <2>3 DEF Marks, LoadVerified, n
  <1>3. Marks(<<>>)
    BY DEF Marks, RangeOf
  <1>4. QED
    BY <1>1, <1>2, <1>3

LEMMA StartSafe ==
  ASSUME IInv, NEW p \in Programs, Start(p) \/ StartUnreadable(p)
  PROVE  IInv'
  BY ReadFits, LoadedSafe DEF Start, StartUnreadable

LEMMA ExitSafe ==
  ASSUME IInv, NEW p \in Programs, Exit(p)
  PROVE  IInv'
  <1>1. mem' = [mem EXCEPT ![p] = Gone]
    BY DEF Exit
  <1>2. /\ mem' \in [Programs -> Copy]
        /\ \A q \in Programs : /\ Len(mem'[q].entries) <= MaxKeys
                              /\ Len(mem'[q].verified) <= MaxVerified
                              /\ RangeOf(mem'[q].verified) \subseteq GenuineMarks
    BY <1>1, Empty, CopyChanged
  <1>3. UNCHANGED <<file, verifiedTxt, keyFiles, written, stale, kept>>
        /\ pc' \in [Programs -> {"off", "idle", "saving"}]
    BY DEF Exit, files, history, IInv, TypeOK
  <1>4. QED
    BY <1>2, <1>3 DEF IInv, TypeOK, Confirmed

\* keystore_save begins, or is refused, with entries that fit.
LEMMA StoreSafe ==
  ASSUME IInv, NEW p \in Programs, NEW entries, Fits(entries), Store(p, entries),
         kept' \subseteq Keys
  PROVE  IInv'
  <1> DEFINE copy == [entries |-> entries, verified |-> mem[p].verified]
  <1>1. copy \in Copy /\ Fits(copy.entries) /\ Marks(copy.verified)
    BY Holds DEF Fits, Marks, Copy
  <1>2. [mem[p] EXCEPT !.entries = entries] = copy
    BY Holds, FieldsOfCopy
  <1>3. mem \in [Programs -> Copy]
    BY DEF IInv, TypeOK
  <1>4. mem' = [mem EXCEPT ![p] = copy] \/ mem' = [mem EXCEPT ![p] = Gone]
    BY <1>2, <1>3 DEF Store, BeginSave, SaveRefused
  <1> HIDE DEF copy
  <1>5. /\ mem' \in [Programs -> Copy]
        /\ \A q \in Programs : /\ Len(mem'[q].entries) <= MaxKeys
                              /\ Len(mem'[q].verified) <= MaxVerified
                              /\ RangeOf(mem'[q].verified) \subseteq GenuineMarks
    BY <1>1, <1>4, Empty, CopyChanged
  <1>6. /\ UNCHANGED <<verifiedTxt, keyFiles, stale>>
        /\ pc' \in [Programs -> {"off", "idle", "saving"}]
    BY DEF Store, BeginSave, SaveRefused, files, IInv, TypeOK
  <1>7. file' \in [count : Nat, entries : Seq(Entry)] /\ Len(file'.entries) <= MaxKeys
    <2>1. file' = Truncated \/ file' = file
      BY DEF Store, BeginSave, SaveRefused, files
    <2>2. CASE file' = Truncated
      BY <2>2, Written DEF Fits
    <2>3. CASE file' = file
      BY <2>3 DEF IInv, TypeOK
    <2>4. QED
      BY <2>1, <2>2, <2>3
  <1>8. written' \subseteq Writers
    <2>1. CASE BeginSave(p, entries)
      <3>1. Writer(p, entries) \in Writers
        BY DEF Writer, Writers, Fits
      <3>2. \A q \in Programs : Writer(q, mem[q].entries) \in Writers
        BY Holds DEF Writer, Writers, Fits
      <3>3. QED
        BY <2>1, <3>1, <3>2 DEF BeginSave
    <2>2. CASE SaveRefused(p, entries)
      BY <2>2, WrittenFits DEF SaveRefused
    <2>3. QED
      BY <2>1, <2>2 DEF Store
  <1>9. QED
    BY <1>5, <1>6, <1>7, <1>8, WrittenFits DEF IInv, TypeOK, Confirmed

\* keystore_save ends, in full or cut short.
LEMMA SavedSafe ==
  ASSUME IInv, NEW p \in Programs, EndSave(p) \/ CutSave(p)
  PROVE  IInv'
  <1>1. mem \in [Programs -> Copy] /\ [mem EXCEPT ![p] = mem[p]] = mem
    BY DEF IInv, TypeOK
  <1>2. mem' = [mem EXCEPT ![p] = Gone] \/ mem' = [mem EXCEPT ![p] = mem[p]]
    BY DEF EndSave, CutSave, Done
  <1>3. /\ mem' \in [Programs -> Copy]
        /\ \A q \in Programs : /\ Len(mem'[q].entries) <= MaxKeys
                              /\ Len(mem'[q].verified) <= MaxVerified
                              /\ RangeOf(mem'[q].verified) \subseteq GenuineMarks
    BY <1>2, Empty, Holds, CopyChanged
  <1>4. /\ UNCHANGED <<verifiedTxt, keyFiles>>
        /\ pc' \in [Programs -> {"off", "idle", "saving"}]
        /\ stale' \in [Programs -> BOOLEAN]
        /\ written' \subseteq written
    BY DEF EndSave, CutSave, Closed, Done, IInv, TypeOK
  <1>5. file' \in [count : Nat, entries : Seq(Entry)] /\ Len(file'.entries) <= MaxKeys
    <2>1. \/ file' \in {Image(mem[p].entries), Truncated} \cup CutImages(mem[p].entries)
          \/ file' \in Mixed(written)
      BY DEF EndSave, CutSave
    <2>2. QED
      BY <2>1, Holds, Written, MixedFits DEF Fits
  <1>6. kept' \subseteq Keys
    <2>1. SecretsOf(mem[p].entries) \subseteq Keys
      <3>1. mem[p].entries \in Seq(Entry)
        BY Holds DEF Fits
      <3>2. \A i \in DOMAIN mem[p].entries : mem[p].entries[i] \in Entry
        BY <3>1
      <3>3. \A e \in Entry : e.key \in Keys
        BY DEF Entry
      <3>4. QED
        BY <3>2, <3>3 DEF SecretsOf
    <2>2. QED
      BY <2>1 DEF EndSave, CutSave, IInv, TypeOK
  <1>7. written' \subseteq Writers
    BY <1>4, WrittenFits
  <1>8. QED
    BY <1>3, <1>4, <1>5, <1>6, <1>7, WrittenFits DEF IInv, TypeOK, Confirmed

LEMMA EntryAdded ==
  ASSUME IInv, NEW p \in Programs, NEW e \in Entry, Len(mem[p].entries) < MaxKeys
  PROVE  Fits(Append(mem[p].entries, e))
  <1>1. mem[p].entries \in Seq(Entry) /\ Len(mem[p].entries) \in Nat
    BY Holds DEF Fits
  <1>2. QED
    BY <1>1, Appended, KeystoreAssumption DEF Fits, KeystoreAssumption

LEMMA EntryRemoved ==
  ASSUME IInv, NEW p \in Programs, NEW i \in DOMAIN mem[p].entries
  PROVE  Fits(Without(mem[p].entries, i))
  <1>1. /\ mem[p].entries \in Seq(Entry)
        /\ Len(mem[p].entries) \in Nat
        /\ Len(mem[p].entries) <= MaxKeys
    BY Holds DEF Fits
  <1>2. QED
    BY <1>1, OneLess, KeystoreAssumption DEF Fits, KeystoreAssumption

\* The commands and buttons that add, import and remove keys.
LEMMA EntriesSafe ==
  ASSUME IInv, NEW p \in Programs,
         \/ \E l \in Labels, k \in Own : Generate(p, l, k)
         \/ \E f : Import(p, f)
         \/ \E l : RemoveLabel(p, l)
         \/ \E i : Delete(p, i)
  PROVE  IInv'
  <1>0. kept \subseteq Keys
    BY DEF IInv, TypeOK
  <1>1. ASSUME NEW l \in Labels, NEW k \in Own, Generate(p, l, k) PROVE IInv'
    <2> DEFINE e == [label |-> l, key |-> k, secret |-> TRUE]
    <2>1. e \in Entry
      BY DEF Entry, Keys
    <2>2. /\ Len(mem[p].entries) < MaxKeys
          /\ Store(p, Append(mem[p].entries, e))
          /\ kept' \subseteq Keys
      BY <1>0, <1>1 DEF Generate
    <2>3. QED
      BY <2>1, <2>2, EntryAdded, StoreSafe
  <1>2. ASSUME NEW f, Import(p, f) PROVE IInv'
    <2>1. f \in Entry
      BY <1>2 DEF Import, IInv, TypeOK
    <2>2. /\ Len(mem[p].entries) < MaxKeys
          /\ Store(p, Append(mem[p].entries, f))
          /\ kept' \subseteq Keys
      BY <1>0, <1>2 DEF Import
    <2>3. QED
      BY <2>1, <2>2, EntryAdded, StoreSafe
  <1>3. ASSUME NEW l, RemoveLabel(p, l) PROVE IInv'
    <2>1. PICK i \in Find(mem[p].entries, l) :
            Store(p, Without(mem[p].entries, i)) /\ kept' \subseteq Keys
      BY <1>0, <1>3 DEF RemoveLabel
    <2>2. i \in DOMAIN mem[p].entries
      BY DEF Find
    <2>3. QED
      BY <2>1, <2>2, EntryRemoved, StoreSafe
  <1>4. ASSUME NEW i, Delete(p, i) PROVE IInv'
    <2>1. /\ i \in DOMAIN mem[p].entries
          /\ Store(p, Without(mem[p].entries, i))
          /\ kept' \subseteq Keys
      BY <1>0, <1>4 DEF Delete
    <2>2. QED
      BY <2>1, EntryRemoved, StoreSafe
  <1>5. QED
    BY <1>1, <1>2, <1>3, <1>4

\* A key that the user has compared with its owner's is marked, or only in memory.
LEMMA MarkSafe ==
  ASSUME IInv, NEW p \in Programs, NEW i \in DOMAIN mem[p].entries,
         mem[p].entries[i].key \in Genuine,
         \/ Mark(p, i) /\ UNCHANGED <<file, keyFiles, pc, written, history>>
         \/ MarkUnwritten(p, i)
  PROVE  IInv'
  <1> DEFINE fp == Fingerprint(mem[p].entries[i].key)
             fps == Marked(mem[p], fp)
             copy == [entries |-> mem[p].entries, verified |-> fps]
  <1>1. fp \in GenuineMarks /\ fp \in Fingerprints
    BY KeystoreAssumption DEF KeystoreAssumption, GenuineMarks, Fingerprints
  <1>2. mem \in [Programs -> Copy]
    BY DEF IInv, TypeOK
  <1>3. mem' = [mem EXCEPT ![p] = copy]
    <2>1. mem' = [mem EXCEPT ![p].verified = fps]
      BY DEF Mark, MarkUnwritten
    <2>2. [mem[p] EXCEPT !.verified = fps] = copy
      BY Holds, FieldsOfCopy
    <2> HIDE DEF copy, fps
    <2>3. QED
      BY <1>2, <2>1, <2>2
  <1>4. Marks(fps)
    <2>1. Marks(mem[p].verified) /\ Len(mem[p].verified) \in Nat
      BY Holds DEF Marks
    <2>2. CASE Len(mem[p].verified) < MaxVerified
      <3>1. fps = Append(mem[p].verified, fp)
        BY <2>2 DEF Marked
      <3> HIDE DEF fps, fp
      <3>2. QED
        BY <1>1, <2>1, <2>2, <3>1, Appended, KeystoreAssumption DEF Marks, KeystoreAssumption
    <2>3. CASE ~(Len(mem[p].verified) < MaxVerified)
      BY <2>1, <2>3 DEF Marked
    <2>4. QED
      BY <2>2, <2>3
  <1>5. copy \in Copy /\ Fits(copy.entries) /\ Marks(copy.verified)
    <2> HIDE DEF fps
    <2>1. QED
      BY <1>4, Holds DEF Copy, Fits, Marks
  <1>6. /\ verifiedTxt' \in Seq(Fingerprints)
        /\ RangeOf(verifiedTxt') \subseteq GenuineMarks
    <2>1. verifiedTxt' = Append(verifiedTxt, fp) \/ UNCHANGED verifiedTxt
      BY DEF Mark, MarkUnwritten, files
    <2>2. verifiedTxt \in Seq(Fingerprints) /\ RangeOf(verifiedTxt) \subseteq GenuineMarks
      BY DEF IInv, TypeOK, Confirmed
    <2> HIDE DEF fp
    <2>3. /\ Append(verifiedTxt, fp) \in Seq(Fingerprints)
          /\ RangeOf(Append(verifiedTxt, fp)) = RangeOf(verifiedTxt) \cup {fp}
      BY <1>1, <2>2, Appended
    <2>4. QED
      BY <1>1, <2>1, <2>2, <2>3
  <1>7. UNCHANGED <<file, keyFiles, pc, written, stale, kept>>
    BY DEF MarkUnwritten, files, history
  <1> HIDE DEF copy
  <1>8. /\ mem' \in [Programs -> Copy]
        /\ \A q \in Programs : /\ Len(mem'[q].entries) <= MaxKeys
                              /\ Len(mem'[q].verified) <= MaxVerified
                              /\ RangeOf(mem'[q].verified) \subseteq GenuineMarks
    BY <1>3, <1>5, CopyChanged
  <1>9. QED
    BY <1>6, <1>7, <1>8 DEF IInv, TypeOK, Confirmed

\* Mark Verified in the window; verify on the command line, where the fingerprint
\* given must be that of the entry found.
LEMMA MarksSafe ==
  ASSUME IInv, NEW p \in Programs, MarkVerified(p) \/ VerifyKey(p)
  PROVE  IInv'
  <1>1. ASSUME NEW i, MarkShown(p, i) \/ MarkUnwritten(p, i) PROVE IInv'
    BY <1>1, MarkSafe DEF MarkShown, MarkUnwritten
  <1>2. ASSUME NEW l, NEW k \in Genuine, Verify(p, l, Fingerprint(k)) PROVE IInv'
    <2>1. PICK i \in Find(mem[p].entries, l) :
            /\ Fingerprint(mem[p].entries[i].key) = Fingerprint(k)
            /\ Mark(p, i) /\ UNCHANGED <<file, keyFiles, pc, written, history>>
      BY <1>2 DEF Verify
    <2>2. i \in DOMAIN mem[p].entries
      BY DEF Find
    <2>3. mem[p].entries[i].key = k
      BY <2>1 DEF Fingerprint
    <2>4. QED
      BY <2>1, <2>2, <2>3, MarkSafe
  <1>3. QED
    BY <1>1, <1>2 DEF MarkVerified, VerifyKey

LEMMA ExportSafe ==
  ASSUME IInv, NEW p \in Programs, ExportKey(p)
  PROVE  IInv'
  <1>0. PICK a \in SaveFileDialog([name \in Labels |-> "home"], Folders),
             i \in 1..MaxKeys, secret \in BOOLEAN : Export(p, i, a.path, secret)
    BY DEF ExportKey
  <1>1. PICK l \in Labels : Export(p, i, l, secret)
    BY <1>0 DEF SaveFileDialog, SaveFileDialogWinGui, SaveFileDialogW, Answer
  <1>2. mem[p].entries[i] \in Entry
    BY <1>1, Holds DEF Export, Fits
  <1>3. keyFiles' \subseteq Entry
    BY <1>1, <1>2 DEF Export, Entry, IInv, TypeOK
  <1>4. UNCHANGED <<file, verifiedTxt, mem, pc, written, stale, kept>>
    BY <1>1 DEF Export, history
  <1>5. QED
    BY <1>3, <1>4 DEF IInv, TypeOK, Confirmed

LEMMA KeystoreInitial == Init => IInv
  <1> SUFFICES ASSUME Init PROVE IInv
    OBVIOUS
  <1> USE KeystoreAssumption DEF KeystoreAssumption, Init
  <1>1. \A p \in Programs : mem[p] = Gone
    OBVIOUS
  <1>2. mem \in [Programs -> Copy]
    BY Empty
  <1>3. file.entries = <<>> /\ file \in [count : Nat, entries : Seq(Entry)]
    BY DEF Image
  <1>4. verifiedTxt \in Seq(Fingerprints) /\ RangeOf(verifiedTxt) = {}
    BY DEF RangeOf
  <1>5. QED
    BY <1>1, <1>2, <1>3, <1>4, Empty DEF IInv, TypeOK, Confirmed, Fits, Marks

\* The invariant of the key file and the list of verified fingerprints.
THEOREM KeystoreInvariant == Spec => []IInv
  <1>1. IInv /\ [Next]_vars => IInv'
    <2> SUFFICES ASSUME IInv, [Next]_vars PROVE IInv'
      OBVIOUS
    <2>1. ASSUME NEW p \in Programs, Start(p) \/ StartUnreadable(p) \/ Exit(p) PROVE IInv'
      BY <2>1, StartSafe, ExitSafe
    <2>2. ASSUME NEW p \in Programs, Command(p) PROVE IInv'
      BY <2>2, EntriesSafe, MarksSafe DEF Command, Keygen, KeysRemove
    <2>3. ASSUME NEW p \in Programs, KeyManager(p) PROVE IInv'
      BY <2>3, EntriesSafe, MarksSafe, ExportSafe
         DEF KeyManager, GenerateKeypair, ImportKey, DeleteKey
    <2>4. ASSUME NEW p \in Programs, EndSave(p) \/ CutSave(p) PROVE IInv'
      BY <2>4, SavedSafe
    <2>5. CASE UNCHANGED vars
      BY <2>5 DEF IInv, TypeOK, Confirmed, vars, files, history
    <2>6. QED
      BY <2>1, <2>2, <2>3, <2>4, <2>5 DEF Next
  <1>2. QED
    BY <1>1, KeystoreInitial, PTL DEF Spec

\* No array of a Keystore is filled beyond its end.
THEOREM KeystoreTypes == Spec => []TypeOK
  BY KeystoreInvariant, PTL DEF IInv

\* A key shows as verified only if the user compared that very key with its
\* owner's, in whichever program, and whatever keys carry the same name.
THEOREM KeystoreTrust == Spec => []TrustIsConfirmed
  <1>1. IInv => TrustIsConfirmed
    <2> SUFFICES ASSUME IInv, NEW p \in Programs, NEW i \in DOMAIN mem[p].entries,
                        IsVerified(mem[p], i)
                 PROVE  mem[p].entries[i].key \in Genuine
      BY DEF TrustIsConfirmed
    <2>1. Fingerprint(mem[p].entries[i].key) \in GenuineMarks
      BY DEF IsVerified, IInv, Confirmed
    <2>2. PICK k \in Genuine : Fingerprint(mem[p].entries[i].key) = Fingerprint(k)
      BY <2>1 DEF GenuineMarks
    <2>3. QED
      BY <2>2 DEF Fingerprint
  <1>2. QED
    BY <1>1, KeystoreInvariant, PTL

(***************************************************************************)
(* Private keys: what each step leaves of those that were stored.            *)
(***************************************************************************)
LEMMA Whole ==
  ASSUME NEW entries \in Seq(Entry)
  PROVE  Entries(Image(entries)) = entries
  BY DEF Entries, Image

LEMMA AppendKeeps ==
  ASSUME NEW s \in Seq(Entry), NEW e \in Entry
  PROVE  SecretsOf(s) \subseteq SecretsOf(Append(s, e))
  <1>1. \A i \in DOMAIN s : i \in DOMAIN Append(s, e) /\ Append(s, e)[i] = s[i]
    OBVIOUS
  <1>2. QED
    BY <1>1 DEF SecretsOf

\* A removal takes one secret at most.
LEMMA WithoutKeeps ==
  ASSUME NEW s \in Seq(Entry), NEW i \in DOMAIN s
  PROVE  SecretsOf(s) \ {s[i].key} \subseteq SecretsOf(Without(s, i))
  <1> DEFINE rest == Without(s, i)
  <1>1. Len(s) \in Nat /\ DOMAIN s = 1..Len(s) /\ i \in 1..Len(s)
    OBVIOUS
  <1>2. DOMAIN rest = 1..(Len(s) - 1)
    BY <1>1 DEF Without
  <1>3. ASSUME NEW j \in DOMAIN s, s[j].secret, s[j].key # s[i].key
        PROVE  \E m \in DOMAIN rest : rest[m] = s[j]
    <2>1. CASE j < i
      <3>1. j \in 1..(Len(s) - 1) /\ rest[j] = s[j]
        BY <1>1, <2>1 DEF Without
      <3>2. QED
        BY <1>2, <3>1
    <2>2. CASE j > i
      <3>1. j - 1 \in 1..(Len(s) - 1) /\ ~(j - 1 < i) /\ (j - 1) + 1 = j
        BY <1>1, <2>2
      <3>2. rest[j - 1] = s[j]
        BY <3>1 DEF Without
      <3>3. QED
        BY <1>2, <3>1, <3>2
    <2>3. CASE j = i
      BY <1>3, <2>3
    <2>4. QED
      BY <1>1, <2>1, <2>2, <2>3
  <1> HIDE DEF rest
  <1>4. SecretsOf(s) \ {s[i].key} \subseteq SecretsOf(rest)
    BY <1>3 DEF SecretsOf
  <1>5. QED
    BY <1>4 DEF rest

\* A save begins, or is refused, with all the secrets of the copy that count.
LEMMA StoreKeeps ==
  ASSUME KeptIInv, NEW p \in Programs, pc[p] = "idle", NEW entries, Store(p, entries),
         kept' \subseteq kept,
         kept' \cap SecretsOf(mem[p].entries) \subseteq SecretsOf(entries)
  PROVE  SecretsKept' /\ CopiesKeep'
  <1> USE DEF KeptIInv
  <1>1. /\ mem \in [Programs -> Copy] /\ pc \in [Programs -> {"off", "idle", "saving"}]
        /\ [mem[p] EXCEPT !.entries = entries] = [entries |-> entries, verified |-> mem[p].verified]
    BY FieldsOfCopy DEF IInv, TypeOK
  <1>2. stale' = stale /\ \A q \in Programs \ {p} : pc'[q] = pc[q] /\ mem'[q] = mem[q]
    BY <1>1 DEF Store, BeginSave, SaveRefused
  <1>3. pc'[p] # "off" => mem'[p].entries = entries
    BY <1>1 DEF Store, BeginSave, SaveRefused
  <1>4. CASE BeginSave(p, entries)
    <2>1. pc'[p] = "saving"
      BY <1>1, <1>4 DEF BeginSave
    <2>2. SecretsKept'
      BY <2>1 DEF SecretsKept
    <2>3. ASSUME NEW q \in Programs, Alone(q)', ~stale'[q]
          PROVE  kept' \subseteq SecretsOf(mem'[q].entries)
      <3>1. q = p
        BY <2>1, <2>3 DEF Alone
      <3>2. Alone(p)
        BY <1>2, <2>3, <3>1 DEF Alone
      <3>3. kept \subseteq SecretsOf(mem[p].entries)
        BY <1>2, <2>3, <3>1, <3>2 DEF CopiesKeep
      <3>4. QED
        BY <1>3, <2>1, <3>1, <3>3
    <2>4. QED
      BY <2>2, <2>3 DEF CopiesKeep
  <1>5. CASE SaveRefused(p, entries)
    <2>1. file' = file /\ pc'[p] # "saving"
      BY <1>1, <1>5 DEF SaveRefused, files
    <2>2. SecretsKept'
      <3> SUFFICES ASSUME \A q \in Programs : pc'[q] # "saving"
                   PROVE  kept' \subseteq SecretsOf(Entries(file'))
        BY DEF SecretsKept, Entries
      <3>1. \A q \in Programs : pc[q] # "saving"
        BY <1>2
      <3>2. QED
        BY <2>1, <3>1 DEF SecretsKept
    <2>3. ASSUME NEW q \in Programs, pc'[q] # "off", Alone(q)', ~stale'[q]
          PROVE  kept' \subseteq SecretsOf(mem'[q].entries)
      <3>1. Alone(q) /\ pc[q] # "off"
        BY <1>2, <2>3 DEF Alone
      <3>2. kept \subseteq SecretsOf(mem[q].entries)
        BY <1>2, <2>3, <3>1 DEF CopiesKeep
      <3>3. QED
        BY <1>2, <1>3, <2>3, <3>2
    <2>4. QED
      BY <2>2, <2>3 DEF CopiesKeep
  <1>6. QED
    BY <1>4, <1>5 DEF Store

\* A program starts: if nobody saves, it reads the whole file.
LEMMA StartKeeps ==
  ASSUME KeptIInv, NEW p \in Programs, Start(p) \/ StartUnreadable(p)
  PROVE  SecretsKept' /\ CopiesKeep'
  <1> USE DEF KeptIInv
  <1>1. PICK image, verified : image \in Seen /\ Loaded(p, Entries(image), verified)
    BY DEF Start, StartUnreadable
  <1>2. /\ mem \in [Programs -> Copy] /\ pc \in [Programs -> {"off", "idle", "saving"}]
        /\ stale \in [Programs -> BOOLEAN] /\ pc[p] = "off"
    BY DEF IInv, TypeOK, Start, StartUnreadable
  <1>3. file' = file /\ kept' = kept /\ mem'[p].entries = Entries(image) /\ pc'[p] = "idle"
    BY <1>1, <1>2 DEF Loaded, files
  <1>4. \A q \in Programs \ {p} : pc'[q] = pc[q] /\ mem'[q] = mem[q] /\ stale'[q] = stale[q]
    BY <1>1, <1>2 DEF Loaded
  <1>5. SecretsKept'
    <2> SUFFICES ASSUME \A q \in Programs : pc'[q] # "saving"
                 PROVE  kept' \subseteq SecretsOf(Entries(file'))
      BY DEF SecretsKept, Entries
    <2>1. \A q \in Programs : pc[q] # "saving"
      BY <1>2, <1>4
    <2>2. QED
      BY <1>3, <2>1 DEF SecretsKept
  <1>6. ASSUME NEW q \in Programs, pc'[q] # "off", Alone(q)', ~stale'[q]
        PROVE  kept' \subseteq SecretsOf(mem'[q].entries)
    <2>1. CASE q = p
      <3>1. \A r \in Programs : pc[r] # "saving"
        BY <1>2, <1>4, <1>6, <2>1 DEF Alone
      <3>2. written = {}
        BY <3>1 DEF WritersSave
      <3>3. image = file
        BY <1>1, <3>2 DEF Seen
      <3>4. QED
        BY <1>3, <2>1, <3>1, <3>3 DEF SecretsKept
    <2>2. CASE q # p
      <3>1. Alone(q)
        BY <1>2, <1>4, <1>6 DEF Alone
      <3>2. QED
        BY <1>3, <1>4, <1>6, <2>2, <3>1 DEF CopiesKeep
    <2>3. QED
      BY <2>1, <2>2
  <1>7. QED
    BY <1>5, <1>6 DEF CopiesKeep

LEMMA ExitKeeps ==
  ASSUME KeptIInv, NEW p \in Programs, Exit(p)
  PROVE  SecretsKept' /\ CopiesKeep'
  <1> USE DEF KeptIInv
  <1>1. /\ mem \in [Programs -> Copy] /\ pc \in [Programs -> {"off", "idle", "saving"}]
        /\ pc[p] = "idle" /\ pc'[p] = "off"
        /\ UNCHANGED <<file, kept, stale>>
        /\ \A q \in Programs \ {p} : pc'[q] = pc[q] /\ mem'[q] = mem[q]
    BY DEF IInv, TypeOK, Exit, files, history
  <1>2. SecretsKept'
    BY <1>1 DEF SecretsKept, Entries
  <1>3. ASSUME NEW q \in Programs, pc'[q] # "off", Alone(q)', ~stale'[q]
        PROVE  kept' \subseteq SecretsOf(mem'[q].entries)
    <2>1. q # p /\ Alone(q)
      BY <1>1, <1>3 DEF Alone
    <2>2. QED
      BY <1>1, <1>3, <2>1 DEF CopiesKeep
  <1>4. QED
    BY <1>2, <1>3 DEF CopiesKeep

\* A save ends: every other copy is stale from now on.
LEMMA SavedKeeps ==
  ASSUME KeptIInv, NEW p \in Programs, EndSave(p) \/ CutSave(p)
  PROVE  SecretsKept' /\ CopiesKeep'
  <1> USE DEF KeptIInv
  <1>1. CASE CutSave(p)
    BY <1>1 DEF CutSave, SecretsKept, CopiesKeep
  <1>2. CASE EndSave(p) /\ ~Unmixed(p)
    <2>1. kept' = {}
      BY <1>2 DEF EndSave
    <2>2. QED
      BY <2>1 DEF SecretsKept, CopiesKeep
  <1>3. CASE EndSave(p) /\ Unmixed(p)
    <2>1. /\ mem \in [Programs -> Copy] /\ pc \in [Programs -> {"off", "idle", "saving"}]
          /\ pc[p] = "saving" /\ file' = Image(mem[p].entries)
          /\ \A q \in Programs \ {p} : stale'[q]
          /\ kept' = SecretsOf(mem[p].entries) \cup (IF stale[p] THEN {} ELSE kept)
      BY <1>3 DEF IInv, TypeOK, EndSave, Closed
    <2>2. /\ \A q \in Programs \ {p} : pc'[q] = pc[q]
          /\ pc'[p] # "off" => mem'[p] = mem[p]
      BY <1>3, <2>1 DEF EndSave, Done
    <2>3. ASSUME Alone(p) PROVE kept' \subseteq SecretsOf(mem[p].entries)
      BY <2>1, <2>3 DEF CopiesKeep
    <2>4. SecretsKept'
      <3> SUFFICES ASSUME \A q \in Programs : pc'[q] # "saving"
                   PROVE  kept' \subseteq SecretsOf(Entries(file'))
        BY DEF SecretsKept, Entries
      <3>1. Alone(p)
        BY <2>2 DEF Alone
      <3>2. Entries(file') = mem[p].entries
        BY <2>1, Holds, Whole DEF Fits
      <3>3. QED
        BY <2>3, <3>1, <3>2
    <2>5. ASSUME NEW q \in Programs, pc'[q] # "off", Alone(q)', ~stale'[q]
          PROVE  kept' \subseteq SecretsOf(mem'[q].entries)
      <3>1. q = p
        BY <2>1, <2>5
      <3>2. Alone(p)
        BY <2>2, <2>5, <3>1 DEF Alone
      <3>3. QED
        BY <2>2, <2>3, <2>5, <3>1, <3>2
    <2>6. QED
      BY <2>4, <2>5 DEF CopiesKeep
  <1>4. QED
    BY <1>1, <1>2, <1>3

\* Marks and exports leave the entries alone.
LEMMA EntriesKept ==
  ASSUME KeptIInv, UNCHANGED <<file, pc, stale, kept>>,
         \A q \in Programs : mem'[q].entries = mem[q].entries
  PROVE  SecretsKept' /\ CopiesKeep'
  BY DEF KeptIInv, SecretsKept, CopiesKeep, Alone, Entries

LEMMA MarksKeep ==
  ASSUME KeptIInv, NEW p \in Programs, MarkVerified(p) \/ VerifyKey(p) \/ ExportKey(p)
  PROVE  SecretsKept' /\ CopiesKeep'
  <1>1. mem \in [Programs -> Copy]
    BY DEF KeptIInv, IInv, TypeOK
  <1>2. ASSUME NEW v, mem' = [mem EXCEPT ![p].verified = v]
        PROVE  \A q \in Programs : mem'[q].entries = mem[q].entries
    <2>1. [mem[p] EXCEPT !.verified = v] = [entries |-> mem[p].entries, verified |-> v]
      BY <1>1, FieldsOfCopy
    <2>2. \A q \in Programs : mem'[q] = IF q = p THEN [mem[p] EXCEPT !.verified = v] ELSE mem[q]
      BY <1>1, <1>2
    <2>3. QED
      BY <2>1, <2>2
  <1>3. CASE \E i : MarkShown(p, i) \/ MarkUnwritten(p, i)
    <2>1. PICK i : MarkShown(p, i) \/ MarkUnwritten(p, i)
      BY <1>3
    <2>2. /\ \E v : mem' = [mem EXCEPT ![p].verified = v]
          /\ UNCHANGED <<file, pc, stale, kept>>
      BY <2>1 DEF MarkShown, MarkUnwritten, Mark, files, history
    <2>3. QED
      BY <1>2, <2>2, EntriesKept
  <1>4. CASE \E l, fp : Verify(p, l, fp)
    <2>1. PICK l, fp : Verify(p, l, fp)
      BY <1>4
    <2>2. /\ \E v : mem' = [mem EXCEPT ![p].verified = v]
          /\ UNCHANGED <<file, pc, stale, kept>>
      BY <2>1 DEF Verify, Mark, history
    <2>3. QED
      BY <1>2, <2>2, EntriesKept
  <1>5. CASE ExportKey(p)
    <2>1. UNCHANGED <<file, pc, stale, kept, mem>>
      BY <1>5 DEF ExportKey, Export, history
    <2>2. QED
      BY <2>1, EntriesKept
  <1>6. QED
    BY <1>3, <1>4, <1>5 DEF MarkVerified, VerifyKey

LEMMA EntriesKeep ==
  ASSUME KeptIInv, NEW p \in Programs,
         \/ \E l \in Labels, k \in Own : Generate(p, l, k)
         \/ \E f : Import(p, f)
         \/ \E l : RemoveLabel(p, l)
         \/ \E i : Delete(p, i)
  PROVE  SecretsKept' /\ CopiesKeep'
  <1>0. mem[p].entries \in Seq(Entry) /\ IInv
    BY Holds DEF KeptIInv, Fits
  <1>1. ASSUME NEW e \in Entry, pc[p] = "idle", Store(p, Append(mem[p].entries, e)), kept' = kept
        PROVE  SecretsKept' /\ CopiesKeep'
    BY <1>0, <1>1, AppendKeeps, StoreKeeps
  <1>2. ASSUME NEW i \in DOMAIN mem[p].entries, pc[p] = "idle",
               Store(p, Without(mem[p].entries, i)), kept' = kept \ {mem[p].entries[i].key}
        PROVE  SecretsKept' /\ CopiesKeep'
    <2>1. SecretsOf(mem[p].entries) \ {mem[p].entries[i].key}
            \subseteq SecretsOf(Without(mem[p].entries, i))
      BY <1>0, WithoutKeeps
    <2>2. QED
      BY <1>2, <2>1, StoreKeeps
  <1>3. ASSUME NEW l \in Labels, NEW k \in Own, Generate(p, l, k) PROVE SecretsKept' /\ CopiesKeep'
    <2> DEFINE e == [label |-> l, key |-> k, secret |-> TRUE]
    <2>1. e \in Entry
      BY DEF Entry, Keys
    <2>2. pc[p] = "idle" /\ Store(p, Append(mem[p].entries, e)) /\ kept' = kept
      BY <1>3 DEF Generate
    <2> HIDE DEF e
    <2>3. QED
      BY <1>1, <2>1, <2>2
  <1>4. ASSUME NEW f, Import(p, f) PROVE SecretsKept' /\ CopiesKeep'
    <2>1. f \in Entry
      BY <1>0, <1>4 DEF Import, IInv, TypeOK
    <2>2. QED
      BY <1>1, <1>4, <2>1 DEF Import
  <1>5. ASSUME NEW l, RemoveLabel(p, l) PROVE SecretsKept' /\ CopiesKeep'
    <2>1. PICK i \in Find(mem[p].entries, l) :
            /\ Store(p, Without(mem[p].entries, i))
            /\ kept' = kept \ {mem[p].entries[i].key}
      BY <1>5 DEF RemoveLabel
    <2>2. i \in DOMAIN mem[p].entries /\ pc[p] = "idle"
      BY <1>5 DEF Find, RemoveLabel
    <2>3. QED
      BY <1>2, <2>1, <2>2
  <1>6. ASSUME NEW i, Delete(p, i) PROVE SecretsKept' /\ CopiesKeep'
    BY <1>2, <1>6 DEF Delete
  <1>7. QED
    BY <1>3, <1>4, <1>5, <1>6

\* Who may have written counts only while somebody saves.
LEMMA WritersStep == IInv /\ WritersSave /\ [Next]_vars => WritersSave'
  <1> SUFFICES ASSUME IInv, WritersSave, [Next]_vars PROVE WritersSave'
    OBVIOUS
  <1>0. pc \in [Programs -> {"off", "idle", "saving"}]
    BY DEF IInv, TypeOK
  <1>1. ASSUME NEW p \in Programs, pc[p] # "saving", written' = written,
               \A q \in Programs \ {p} : pc'[q] = pc[q]
        PROVE  WritersSave'
    BY <1>1 DEF WritersSave
  <1>2. ASSUME NEW p \in Programs, Start(p) \/ StartUnreadable(p) \/ Exit(p)
        PROVE  WritersSave'
    BY <1>0, <1>1, <1>2 DEF Start, StartUnreadable, Exit, Loaded
  <1>3. ASSUME NEW p \in Programs, NEW entries, pc[p] = "idle", Store(p, entries)
        PROVE  WritersSave'
    <2>1. CASE BeginSave(p, entries)
      BY <1>0, <2>1 DEF BeginSave, WritersSave
    <2>2. CASE SaveRefused(p, entries)
      BY <1>0, <1>1, <1>3, <2>2 DEF SaveRefused
    <2>3. QED
      BY <1>3, <2>1, <2>2 DEF Store
  <1>4. ASSUME UNCHANGED <<pc, written>> PROVE WritersSave'
    BY <1>4 DEF WritersSave
  <1>5. ASSUME NEW p \in Programs, Command(p) PROVE WritersSave'
    BY <1>3, <1>4, <1>5
       DEF Command, Keygen, KeysRemove, VerifyKey, Generate, RemoveLabel, Verify
  <1>6. ASSUME NEW p \in Programs, KeyManager(p) PROVE WritersSave'
    BY <1>3, <1>4, <1>6
       DEF KeyManager, GenerateKeypair, ImportKey, ExportKey, MarkVerified, DeleteKey,
           Generate, Import, Export, MarkShown, MarkUnwritten, Delete
  <1>7. ASSUME NEW p \in Programs, EndSave(p) \/ CutSave(p) PROVE WritersSave'
    <2>1. \A q \in Programs \ {p} : pc'[q] = pc[q]
      BY <1>0, <1>7 DEF EndSave, CutSave, Done
    <2>2. QED
      BY <1>7, <2>1 DEF EndSave, CutSave, Closed, WritersSave
  <1>8. QED
    BY <1>2, <1>4, <1>5, <1>6, <1>7 DEF Next, vars

\* Private keys with it.
LEMMA KeptStep == KeptIInv /\ [Next]_vars => SecretsKept' /\ CopiesKeep'
  <1> SUFFICES ASSUME KeptIInv, [Next]_vars PROVE SecretsKept' /\ CopiesKeep'
    OBVIOUS
  <1>1. ASSUME NEW p \in Programs, Start(p) \/ StartUnreadable(p) \/ Exit(p)
        PROVE  SecretsKept' /\ CopiesKeep'
    BY <1>1, StartKeeps, ExitKeeps
  <1>2. ASSUME NEW p \in Programs, Command(p) PROVE SecretsKept' /\ CopiesKeep'
    BY <1>2, EntriesKeep, MarksKeep DEF Command, Keygen, KeysRemove
  <1>3. ASSUME NEW p \in Programs, KeyManager(p) PROVE SecretsKept' /\ CopiesKeep'
    BY <1>3, EntriesKeep, MarksKeep DEF KeyManager, GenerateKeypair, ImportKey, DeleteKey
  <1>4. ASSUME NEW p \in Programs, EndSave(p) \/ CutSave(p) PROVE SecretsKept' /\ CopiesKeep'
    BY <1>4, SavedKeeps
  <1>5. CASE UNCHANGED vars
    BY <1>5, EntriesKept DEF vars, files, history
  <1>6. QED
    BY <1>1, <1>2, <1>3, <1>4, <1>5 DEF Next

\* A private key that was stored is in the key file whenever nobody writes it,
\* until it is deleted, a save is cut short or made of a stale copy, or several
\* programs save at one time.
THEOREM KeystoreSecrets == Spec => []SecretsKept
  <1>1. Init => SecretsKept /\ CopiesKeep /\ WritersSave
    BY DEF Init, SecretsKept, CopiesKeep, WritersSave
  <1>2. IInv /\ SecretsKept /\ CopiesKeep /\ WritersSave /\ [Next]_vars
          => SecretsKept' /\ CopiesKeep' /\ WritersSave'
    BY KeptStep, WritersStep DEF KeptIInv
  <1>3. QED
    BY <1>1, <1>2, KeystoreInvariant, PTL DEF Spec
=============================================================================
