--------------------------- MODULE ArchiveProofs ---------------------------
(***************************************************************************)
(* Theorems about Archive, for any programs, sources, contents, keys, paths *)
(* and number of archives.                                                  *)
(***************************************************************************)
EXTENDS Archive, SequenceTheorems, TLAPS

(***************************************************************************)
(* Sequences.                                                               *)
(***************************************************************************)
LEMMA Elements ==
  ASSUME NEW S, NEW s \in Seq(S)
  PROVE  /\ DOMAIN s = 1..Len(s) /\ Len(s) \in Nat
         /\ \A i \in DOMAIN s : s[i] \in S
         /\ s # <<>> <=> Len(s) > 0
         /\ s # <<>> => 1 \in DOMAIN s /\ s[1] \in S
  OBVIOUS

LEMMA Appended ==
  ASSUME NEW S, NEW s \in Seq(S), NEW e \in S
  PROVE  /\ Append(s, e) \in Seq(S) /\ Append(s, e) # <<>>
         /\ Len(s) \in Nat /\ Len(Append(s, e)) = Len(s) + 1
         /\ DOMAIN s = 1..Len(s) /\ DOMAIN Append(s, e) = 1..(Len(s) + 1)
         /\ Append(s, e)[Len(s) + 1] = e
         /\ \A i \in DOMAIN s : i \in DOMAIN Append(s, e) /\ Append(s, e)[i] = s[i]
  OBVIOUS

LEMMA FirstPart ==
  ASSUME NEW S, NEW s \in Seq(S), NEW n \in 0..Len(s)
  PROVE  /\ SubSeq(s, 1, n) \in Seq(S)
         /\ Len(SubSeq(s, 1, n)) = n
         /\ DOMAIN SubSeq(s, 1, n) = 1..n /\ 1..n \subseteq DOMAIN s
         /\ \A i \in 1..n : SubSeq(s, 1, n)[i] = s[i]
  <1>1. Len(s) \in Nat /\ n \in Nat /\ n <= Len(s)
    OBVIOUS
  <1>2. \A i \in 1..n : i \in 1..Len(s) /\ s[i] \in S
    BY <1>1
  <1>3. SubSeq(s, 1, n) = [i \in 1..n |-> s[i]]
    BY <1>1
  <1>4. QED
    BY <1>1, <1>2, <1>3

LEMMA Joined ==
  ASSUME NEW S, NEW s \in Seq(S), NEW t \in Seq(S)
  PROVE  /\ s \o t \in Seq(S)
         /\ Len(s) \in Nat /\ Len(t) \in Nat
         /\ Len(s \o t) = Len(s) + Len(t)
         /\ DOMAIN (s \o t) = 1..(Len(s) + Len(t))
         /\ \A i \in 1..Len(s) : i \in DOMAIN (s \o t) /\ (s \o t)[i] = s[i]
         /\ \A i \in 1..Len(t) :
              Len(s) + i \in DOMAIN (s \o t) /\ (s \o t)[Len(s) + i] = t[i]
  <1>1. s \o t \in Seq(S) /\ Len(s) \in Nat /\ Len(t) \in Nat /\ Len(s \o t) = Len(s) + Len(t)
    OBVIOUS
  <1>2. DOMAIN (s \o t) = 1..(Len(s) + Len(t))
    BY <1>1
  <1>3. \A i \in 1..(Len(s) + Len(t)) :
          (s \o t)[i] = IF i <= Len(s) THEN s[i] ELSE t[i - Len(s)]
    OBVIOUS
  <1>4. ASSUME NEW i \in 1..Len(s)
        PROVE  i \in DOMAIN (s \o t) /\ (s \o t)[i] = s[i]
    BY <1>1, <1>2, <1>3
  <1>5. ASSUME NEW i \in 1..Len(t)
        PROVE  Len(s) + i \in DOMAIN (s \o t) /\ (s \o t)[Len(s) + i] = t[i]
    <2>1. Len(s) + i \in 1..(Len(s) + Len(t)) /\ ~(Len(s) + i <= Len(s)) /\ (Len(s) + i) - Len(s) = i
      BY <1>1
    <2>2. QED
      BY <1>2, <1>3, <2>1
  <1>6. QED
    BY <1>1, <1>2, <1>4, <1>5

(***************************************************************************)
(* The blocks of an archive.                                                *)
(***************************************************************************)
LEMMA Keyed ==
  ASSUME NEW a \in Archives \cup {Garbage}
  PROVE  Kdf(a) \in Syms
  BY DEF Kdf, Syms

LEMMA HeaderBlock ==
  ASSUME NEW a \in Archives, NEW k \in Keys, NEW n \in Nat
  PROVE  /\ Header(a, k, n) \in Heads /\ Header(a, k, n) \in Blocks
         /\ ~Table(Header(a, k, n))
         /\ Header(a, k, n).kem.secret = a /\ Header(a, k, n).count = n
  BY DEF Header, Encapsulated, Heads, Blocks, Table

LEMMA SealedBlock ==
  ASSUME NEW a \in Archives, NEW n \in Nat, NEW x \in Packs \cup Rows
  PROVE  /\ Seal(Kdf(a), n, x) \in Blocks
         /\ ~Table(Seal(Kdf(a), n, x))
         /\ Opens(Seal(Kdf(a), n, x), Kdf(a), n, x)
  <1>1. Kdf(a) \in Syms
    BY Keyed
  <1>2. QED
    BY <1>1 DEF Seal, Opens, Cells, Blocks, Table

LEMMA TagBlock ==
  ASSUME NEW a \in Archives, NEW rows \in Seq(Rows)
  PROVE  /\ TableTag(a, rows) \in Blocks
         /\ Table(TableTag(a, rows))
         /\ TableTag(a, rows).sym = Kdf(a) /\ TableTag(a, rows).rows = rows
  <1>1. Kdf(a) \in Syms
    BY Keyed
  <1>2. QED
    BY <1>1 DEF TableTag, Tags, Blocks, Table

LEMMA TableIsTag ==
  ASSUME NEW block \in Blocks, Table(block)
  PROVE  block.rows \in Seq(Rows)
  BY DEF Blocks, Heads, Cells, Tags, Table

LEMMA HeadFacts ==
  ASSUME NEW head \in Heads
  PROVE  /\ head \in Blocks /\ head.kem.secret \in Archives
         /\ head.count \in Nat
  BY DEF Heads, Blocks

LEMMA RowFacts ==
  ASSUME NEW e \in Rows
  PROVE  /\ e.name \in Names /\ e.empty \in BOOLEAN /\ e.offset \in Nat /\ e.nonce \in Nat
         /\ e.tag \in Packs /\ e.level \in Levels
  BY DEF Rows

LEMMA Initially == Init => IInv
  <1> SUFFICES ASSUME Init PROVE IInv
    OBVIOUS
  <1>1. <<>> \in Seq(Blocks) /\ <<>> \in Seq(Nat)
        /\ <<>> \in Seq([files : Seq(Sources), contents : Seq(Contents)])
        /\ Len(<<>>) = 0
    OBVIOUS
  <1>2. TypeOK
    BY <1>1, ArchiveAssumption DEF TypeOK, Init, ArchiveAssumption
  <1>3. \A p \in Paths : ImageTrue(disk[p]) /\ promised[p] = 0
    BY DEF Init, ImageTrue
  <1>4. QED
    BY <1>2, <1>3 DEF IInv, Init, OwnPaths, NeverWrongBytes, AnnouncedOpens

(***************************************************************************)
(* What the variables hold.                                                 *)
(***************************************************************************)
Records == [files : Seq(Sources), contents : Seq(Contents)]

LEMMA MadeFacts ==
  ASSUME TypeOK
  PROVE  /\ made \in Seq(Records) /\ Len(made) \in Nat /\ DOMAIN made = 1..Len(made)
         /\ \A a \in DOMAIN made :
              /\ made[a].files \in Seq(Sources) /\ made[a].contents \in Seq(Contents)
              /\ a \in Archives
  <1>1. made \in Seq(Records) /\ Len(made) <= MaxArchives
    BY DEF TypeOK, Records
  <1>2. \A a \in DOMAIN made : made[a] \in Records
    BY <1>1
  <1>3. QED
    BY <1>1, <1>2, ArchiveAssumption DEF Records, Archives, ArchiveAssumption

LEMMA WritingFacts ==
  ASSUME TypeOK, NEW w \in Programs, writing[w] # Idle
  PROVE  /\ writing[w] \in Writers
         /\ writing[w].archive \in Archives /\ writing[w].key \in Keys
         /\ writing[w].path \in Paths
         /\ writing[w].files \in Seq(Sources) /\ writing[w].rows \in Seq(Rows)
  <1>1. writing[w] \in Writers
    BY DEF TypeOK
  <1>2. QED
    BY <1>1 DEF Writers

LEMMA ReaderFacts ==
  ASSUME NEW h \in Readers
  PROVE  /\ h.path \in Paths /\ h.head \in Heads /\ h.mark \in Blocks
         /\ h.sym \in Syms /\ h.rows \in Seq(Rows)
  BY DEF Readers

LEMMA HandleFacts ==
  ASSUME TypeOK, NEW w \in Programs, handle[w] # Closed
  PROVE  handle[w] \in Readers
  BY DEF TypeOK

\* What was begun keeps its sources, and what was read of them stays as it was;
\* an archive all of whose sources were read is finished.
MadeGrows ==
  \A a \in DOMAIN made :
    /\ a \in DOMAIN made' /\ made'[a].files = made[a].files
    /\ \A i \in DOMAIN made[a].contents :
         i \in DOMAIN made'[a].contents /\ made'[a].contents[i] = made[a].contents[i]
    /\ Len(made[a].contents) = Len(made[a].files) => made'[a].contents = made[a].contents

LEMMA RowsStay ==
  ASSUME MadeGrows, NEW a \in DOMAIN made, NEW rows, RowsTrue(a, rows)
  PROVE  RowsTrue(a, rows)'
  BY DEF MadeGrows, RowsTrue

LEMMA ImageStays ==
  ASSUME MadeGrows, NEW blocks, ImageTrue(blocks)
  PROVE  ImageTrue(blocks)'
  <1> SUFFICES ASSUME blocks # <<>> PROVE ImageTrue(blocks)'
    BY DEF ImageTrue
  <1> DEFINE a == blocks[1].kem.secret
  <1>1. blocks[1] \in Heads /\ a \in DOMAIN made /\ a \in DOMAIN made'
    BY DEF ImageTrue, MadeGrows
  <1>2. ASSUME NEW t \in DOMAIN blocks, Table(blocks[t])
        PROVE  /\ Len(blocks[t].rows) = Len(made'[a].files)
               /\ Len(made'[a].contents) = Len(made'[a].files)
               /\ RowsTrue(a, blocks[t].rows)'
               /\ InPlace(blocks, t - 1, a, blocks[t].rows)
    <2>1. /\ Len(blocks[t].rows) = Len(made[a].files)
          /\ Len(made[a].contents) = Len(made[a].files)
          /\ RowsTrue(a, blocks[t].rows)
          /\ InPlace(blocks, t - 1, a, blocks[t].rows)
      BY <1>2 DEF ImageTrue
    <2>2. made'[a].files = made[a].files /\ made'[a].contents = made[a].contents
      BY <1>1, <2>1 DEF MadeGrows
    <2>3. QED
      BY <1>1, <2>1, <2>2, RowsStay
  <1>3. QED
    BY <1>1, <1>2 DEF ImageTrue, InPlace

LEMMA ReaderStays ==
  ASSUME MadeGrows, NEW h, ReaderTrue(h)
  PROVE  ReaderTrue(h)'
  BY RowsStay DEF ReaderTrue, MadeGrows

\* A content, or what a cut write left of it.
OrBeginning(content, bytes) == bytes \in {content, Beginning(content)}

LEMMA NeverWrong ==
  /\ NeverWrongBytes <=>
       \A n \in Names : out[n] # None =>
         \E i \in DOMAIN made[out[n].archive].contents :
           /\ NameOf(made[out[n].archive].files[i]) = n
           /\ OrBeginning(made[out[n].archive].contents[i], out[n].content)
  /\ NeverWrongBytes' <=>
       \A n \in Names : out'[n] # None =>
         \E i \in DOMAIN made'[out'[n].archive].contents :
           /\ NameOf(made'[out'[n].archive].files[i]) = n
           /\ OrBeginning(made'[out'[n].archive].contents[i], out'[n].content)
  BY DEF NeverWrongBytes, OrBeginning

LEMMA OutStays ==
  ASSUME MadeGrows, NEW n \in Names, out'[n] = out[n], out[n] # None,
         out[n].archive \in DOMAIN made,
         \E i \in DOMAIN made[out[n].archive].contents :
           /\ NameOf(made[out[n].archive].files[i]) = n
           /\ OrBeginning(made[out[n].archive].contents[i], out[n].content)
  PROVE  /\ out'[n].archive \in DOMAIN made'
         /\ \E i \in DOMAIN made'[out'[n].archive].contents :
              /\ NameOf(made'[out'[n].archive].files[i]) = n
              /\ OrBeginning(made'[out'[n].archive].contents[i], out'[n].content)
  BY DEF MadeGrows

\* What is cut off at any point has no table that was not whole before.
LEMMA ImagePrefix ==
  ASSUME NEW blocks \in Seq(Blocks), ImageTrue(blocks), NEW part \in Prefixes(blocks)
  PROVE  part \in Seq(Blocks) /\ ImageTrue(part)
  <1>1. PICK n \in 0..Len(blocks) : part = SubSeq(blocks, 1, n)
    BY DEF Prefixes
  <1>2. /\ part \in Seq(Blocks) /\ Len(part) = n
        /\ DOMAIN part = 1..n /\ 1..n \subseteq DOMAIN blocks
        /\ \A i \in 1..n : part[i] = blocks[i]
    BY <1>1, FirstPart
  <1>3. ASSUME part # <<>> PROVE ImageTrue(part)
    <2>1. blocks # <<>> /\ 1 \in 1..n /\ part[1] = blocks[1] /\ n \in Nat
      <3>1. n \in Nat /\ Len(blocks) \in Nat
        OBVIOUS
      <3>2. n > 0
        BY <1>2, <1>3, <3>1, Elements
      <3>3. 1 \in 1..n /\ Len(blocks) > 0
        BY <3>1, <3>2
      <3>4. QED
        BY <1>2, <3>1, <3>3, Elements
    <2>2. ASSUME NEW a, NEW t \in 1..n, NEW rows, InPlace(blocks, t - 1, a, rows)
          PROVE  InPlace(part, t - 1, a, rows)
      <3>1. \A j \in 1..(t - 1) : j \in 1..n
        BY <2>1
      <3>2. QED
        BY <1>2, <2>2, <3>1 DEF InPlace
    <2>3. QED
      BY <1>2, <2>1, <2>2 DEF ImageTrue
  <1>4. QED
    BY <1>2, <1>3 DEF ImageTrue

(***************************************************************************)
(* The parts of the invariant.                                              *)
(***************************************************************************)
DiskTypes ==
  /\ disk \in [Paths -> Seq(Blocks)]
  /\ writing \in [Programs -> {Idle} \cup Writers]
  /\ made \in Seq(Records) /\ Len(made) <= MaxArchives
  /\ promised \in [Paths -> Archives \cup {0}]

DiskSafe ==
  /\ \A p \in Paths : ImageTrue(disk[p])
  /\ \A w \in Programs : writing[w] # Idle => WriterTrue(writing[w])
  /\ OwnPaths
  /\ AnnouncedOpens

ReadSafe ==
  /\ handle \in [Programs -> {Closed} \cup Readers]
  /\ busy \in [Programs -> Seq(Nat)]
  /\ \A w \in Programs : handle[w] # Closed => ReaderTrue(handle[w])
  /\ \A w \in Programs : busy[w] # <<>> =>
       handle[w] # Closed /\ \A j \in DOMAIN busy[w] : busy[w][j] \in DOMAIN handle[w].rows

OutSafe ==
  /\ out \in [Names -> {None} \cup [archive : Archives, content : Bytes]]
  /\ \A n \in Names : out[n] # None => out[n].archive \in DOMAIN made
  /\ NeverWrongBytes

LEMMA Parts == IInv <=> DiskTypes /\ DiskSafe /\ ReadSafe /\ OutSafe
  BY DEF IInv, TypeOK, DiskTypes, DiskSafe, ReadSafe, OutSafe, Records

LEMMA PartsNext == IInv' <=> DiskTypes' /\ DiskSafe' /\ ReadSafe' /\ OutSafe'
  BY DEF IInv, TypeOK, DiskTypes, DiskSafe, ReadSafe, OutSafe, Records

\* What was promised at a path opens as long as neither changes.
LEMMA PromiseStays ==
  ASSUME IInv, NEW q \in Paths, disk'[q] = disk[q], promised'[q] = promised[q],
         promised'[q] # 0
  PROVE  Unlockable(q)' /\ disk'[q][1].kem.secret = promised'[q]
  BY DEF IInv, AnnouncedOpens, Unlockable, CanOpen, TableOpens, Opened

LEMMA DiskStays ==
  ASSUME IInv, UNCHANGED <<disk, writing, made, promised>>
  PROVE  DiskTypes' /\ DiskSafe' /\ MadeGrows
  <1>1. DiskTypes /\ DiskSafe
    BY Parts
  <1>2. DiskTypes'
    BY <1>1 DEF DiskTypes
  <1>3. MadeGrows
    BY DEF MadeGrows
  <1>4. \A p \in Paths : ImageTrue(disk[p])'
    BY <1>1 DEF DiskSafe, ImageTrue, RowsTrue
  <1>5. \A w \in Programs : writing'[w] # Idle => WriterTrue(writing[w])'
    BY <1>1 DEF DiskSafe, WriterTrue, RowsTrue, InPlace
  <1>6. OwnPaths'
    BY <1>1 DEF DiskSafe, OwnPaths
  <1>7. AnnouncedOpens'
    BY PromiseStays DEF AnnouncedOpens
  <1>8. DiskSafe'
    BY <1>4, <1>5, <1>6, <1>7 DEF DiskSafe
  <1>9. QED
    BY <1>2, <1>3, <1>8

LEMMA AllOutStays ==
  ASSUME IInv, MadeGrows, out' = out
  PROVE  OutSafe'
  <1>1. OutSafe
    BY Parts
  <1>2. \A n \in Names : out'[n] # None => out'[n].archive \in DOMAIN made'
    BY <1>1, OutStays, NeverWrong DEF OutSafe
  <1>3. NeverWrongBytes'
    BY <1>1, OutStays, NeverWrong DEF OutSafe
  <1>4. QED
    BY <1>1, <1>2, <1>3 DEF OutSafe

\* At most one handle changes, of a program that is not extracting.
LEMMA OneHandle ==
  ASSUME IInv, MadeGrows, NEW w \in Programs, busy[w] = <<>>, busy' = busy,
         NEW h \in {Closed} \cup Readers, h # Closed => ReaderTrue(h)',
         handle' \in {handle, [handle EXCEPT ![w] = h]}
  PROVE  ReadSafe'
  <1>1. ReadSafe
    BY Parts
  <1>2. /\ handle' \in [Programs -> {Closed} \cup Readers]
        /\ handle'[w] \in {handle[w], h}
        /\ \A v \in Programs : v # w => handle'[v] = handle[v]
    BY <1>1 DEF ReadSafe
  <1>3. ASSUME NEW v \in Programs, handle'[v] # Closed
        PROVE  ReaderTrue(handle[v])'
    <2>1. CASE handle'[v] = handle[v]
      <3>1. PICK g : g = handle[v] /\ ReaderTrue(g)
        BY <1>1, <1>3, <2>1 DEF ReadSafe
      <3>2. ReaderTrue(g)'
        BY <3>1, ReaderStays
      <3>3. QED
        BY <2>1, <3>1, <3>2 DEF ReaderTrue
    <2>2. CASE handle'[v] = h
      BY <1>3, <2>2 DEF ReaderTrue
    <2>3. QED
      BY <1>2, <2>1, <2>2
  <1>4. QED
    BY <1>1, <1>2, <1>3 DEF ReadSafe, ReaderTrue

(***************************************************************************)
(* Reading.                                                                 *)
(***************************************************************************)
LEMMA OpenedTrue ==
  ASSUME IInv, NEW p \in Paths, CanOpen(p)
  PROVE  Opened(p) \in Readers /\ ReaderTrue(Opened(p))
  <1>1. disk[p] \in Seq(Blocks) /\ ImageTrue(disk[p]) /\ disk[p] # <<>>
    BY DEF IInv, TypeOK, CanOpen
  <1>2. disk[p][1] \in Heads /\ disk[p][1].kem.secret \in DOMAIN made
    BY <1>1 DEF ImageTrue
  <1>3. PICK t \in DOMAIN disk[p] : t = Len(disk[p]) - disk[p][1].count
    <2>1. disk[p][1].count \in Nat /\ Len(disk[p]) > disk[p][1].count
      BY <1>2, HeadFacts DEF CanOpen
    <2>2. DOMAIN disk[p] = 1..Len(disk[p]) /\ Len(disk[p]) \in Nat
      BY <1>1, Elements
    <2>3. Len(disk[p]) - disk[p][1].count \in 1..Len(disk[p])
      BY <2>1, <2>2
    <2>4. QED
      BY <2>2, <2>3
  <1>4. disk[p][t] \in Blocks
    BY <1>1, <1>3, Elements
  <1>5. Table(disk[p][t]) => RowsTrue(disk[p][1].kem.secret, disk[p][t].rows)
    BY <1>1 DEF ImageTrue
  <1>6. Kdf(Garbage) \in Syms /\ <<>> \in Seq(Rows)
    BY Keyed
  <1>7. Opened(p) = [state |-> "opened", path |-> p, head |-> disk[p][1],
                     mark |-> disk[p][t], sym |-> Kdf(Garbage), rows |-> <<>>]
    BY <1>3 DEF Opened
  <1>8. Opened(p) \in Readers
    BY <1>2, <1>4, <1>6, <1>7 DEF Readers
  <1>9. RowsTrue(disk[p][1].kem.secret, <<>>)
    BY DEF RowsTrue
  <1>10. QED
    BY <1>2, <1>5, <1>7, <1>8, <1>9 DEF ReaderTrue

LEMMA ViewStep ==
  ASSUME IInv, NEW w \in Programs, Close(w) \/ \E p \in Paths : Open(w, p)
  PROVE  IInv'
  <1>1. /\ UNCHANGED <<disk, writing, made, promised, busy, out>> /\ busy[w] = <<>>
        /\ \E h \in {Closed} \cup {Opened(p) : p \in {q \in Paths : CanOpen(q)}} :
             handle' = [handle EXCEPT ![w] = h]
    BY DEF Close, Open
  <1>2. PICK h \in {Closed} \cup Readers :
          handle' = [handle EXCEPT ![w] = h] /\ (h # Closed => ReaderTrue(h))
    BY <1>1, OpenedTrue
  <1>3. DiskTypes' /\ DiskSafe' /\ MadeGrows
    BY <1>1, DiskStays
  <1>4. ReadSafe'
    BY <1>1, <1>2, <1>3, OneHandle, ReaderStays
  <1>5. QED
    BY <1>1, <1>3, <1>4, AllOutStays, PartsNext

\* Whatever key it is unlocked with, a handle has rows of its archive only.
LEMMA UnlockStep ==
  ASSUME IInv, NEW w \in Programs, NEW k \in Keys, Unlock(w, k)
  PROVE  IInv'
  <1> DEFINE sym == Kdf(Decapsulated(handle[w].head.kem, k))
             opens == TableOpens(disk[handle[w].path], handle[w], sym)
             rows == IF opens THEN handle[w].mark.rows ELSE handle[w].rows
             state == IF opens THEN "unlocked" ELSE handle[w].state
  <1>1. UNCHANGED <<disk, writing, made, promised, busy, out>> /\ busy[w] = <<>>
    BY DEF Unlock
  <1>2. handle[w] \in Readers /\ ReaderTrue(handle[w])
    BY HandleFacts DEF IInv, Unlock
  <1>3. PICK h : h = [handle[w] EXCEPT !.sym = sym, !.rows = rows, !.state = state]
    OBVIOUS
  <1>4. handle' = [handle EXCEPT ![w] = h]
    <2>1. handle \in [Programs -> {Closed} \cup Readers]
      BY DEF IInv, TypeOK
    <2>2. QED
      BY <1>3, <2>1 DEF Unlock
  <1>5. opens => Table(handle[w].mark)
    BY DEF TableOpens, Table
  <1>6. sym \in Syms
    <2>1. Decapsulated(handle[w].head.kem, k) \in Archives \cup {Garbage}
      BY <1>2, ReaderFacts, HeadFacts DEF Decapsulated
    <2>2. QED
      BY <2>1, Keyed
  <1>7. rows \in Seq(Rows) /\ RowsTrue(handle[w].head.kem.secret, rows)
    BY <1>2, <1>5, ReaderFacts, TableIsTag DEF ReaderTrue
  <1>8. state \in {"opened", "unlocked"}
    BY <1>2 DEF Readers
  <1> HIDE DEF sym, opens, rows, state
  <1>9. h \in Readers /\ ReaderTrue(h)
    <2>1. h \in Readers
      BY <1>2, <1>3, <1>6, <1>7, <1>8 DEF Readers
    <2>2. h.head = handle[w].head /\ h.mark = handle[w].mark /\ h.rows = rows
      BY <1>2, <1>3 DEF Readers
    <2>3. QED
      BY <1>2, <1>7, <2>1, <2>2 DEF ReaderTrue
  <1>10. DiskTypes' /\ DiskSafe' /\ MadeGrows
    BY <1>1, DiskStays
  <1>11. ReadSafe'
    BY <1>1, <1>4, <1>9, <1>10, OneHandle, ReaderStays
  <1>12. QED
    BY <1>1, <1>10, <1>11, AllOutStays, PartsNext

\* Steps that only change what a program has still to extract.
LEMMA BusyStep ==
  ASSUME IInv, NEW w \in Programs, NEW entries \in Seq(Nat),
         UNCHANGED <<disk, writing, handle, made, promised>>, OutSafe',
         busy' = [busy EXCEPT ![w] = entries],
         entries # <<>> =>
           handle[w] # Closed /\ \A j \in DOMAIN entries : entries[j] \in DOMAIN handle[w].rows
  PROVE  IInv'
  <1>1. DiskTypes' /\ DiskSafe' /\ MadeGrows
    BY DiskStays
  <1>2. ReadSafe
    BY Parts
  <1>3. /\ busy' \in [Programs -> Seq(Nat)] /\ busy'[w] = entries
        /\ \A v \in Programs : v # w => busy'[v] = busy[v]
    BY <1>2 DEF ReadSafe
  <1>4. \A v \in Programs : handle[v] # Closed => ReaderTrue(handle[v])'
    BY <1>2 DEF ReadSafe, ReaderTrue, RowsTrue
  <1>5. ReadSafe'
    BY <1>2, <1>3, <1>4 DEF ReadSafe
  <1>6. QED
    BY <1>1, <1>5, PartsNext

LEMMA ExtractStep ==
  ASSUME IInv, NEW w \in Programs, ExtractAll(w) \/ ExtractOne(w)
  PROVE  IInv'
  <1>1. handle[w] \in Readers /\ handle[w] # Closed
    BY HandleFacts DEF IInv, ExtractAll, ExtractOne
  <1>2. DOMAIN handle[w].rows = 1..Len(handle[w].rows) /\ Len(handle[w].rows) \in Nat
    BY <1>1, ReaderFacts, Elements
  <1>3. PICK entries \in Seq(Nat) :
          /\ \A j \in DOMAIN entries : entries[j] \in DOMAIN handle[w].rows
          /\ Extract(w, entries)
    <2>1. CASE ExtractAll(w)
      <3>1. [i \in DOMAIN handle[w].rows |-> i] \in Seq(Nat)
        BY <1>2
      <3>2. QED
        BY <2>1, <3>1 DEF ExtractAll
    <2>2. CASE ExtractOne(w)
      <3>1. PICK i \in DOMAIN handle[w].rows : Extract(w, <<i>>)
        BY <2>2 DEF ExtractOne
      <3>2. <<i>> \in Seq(Nat) /\ \A j \in DOMAIN <<i>> : <<i>>[j] = i
        BY <1>2
      <3>3. QED
        BY <3>1, <3>2
    <2>3. QED
      BY <2>1, <2>2
  <1>4. /\ UNCHANGED <<disk, writing, handle, out, made, promised>>
        /\ busy' = [busy EXCEPT ![w] = entries]
    BY <1>3 DEF Extract
  <1>5. OutSafe'
    BY <1>4, DiskStays, AllOutStays
  <1>6. QED
    BY <1>1, <1>3, <1>4, <1>5, BusyStep

LEMMA ExtractFailsStep ==
  ASSUME IInv, NEW w \in Programs, ExtractFails(w)
  PROVE  IInv'
  <1>1. /\ UNCHANGED <<disk, writing, handle, out, made, promised>>
        /\ busy' = [busy EXCEPT ![w] = <<>>] /\ <<>> \in Seq(Nat)
    BY DEF ExtractFails
  <1>2. OutSafe'
    BY <1>1, DiskStays, AllOutStays
  <1>3. QED
    BY <1>1, <1>2, BusyStep

LEMMA TailFacts ==
  ASSUME NEW S, NEW s \in Seq(S), s # <<>>
  PROVE  /\ Tail(s) \in Seq(S)
         /\ s[1] \in S /\ 1 \in DOMAIN s
         /\ \A j \in DOMAIN Tail(s) : j + 1 \in DOMAIN s /\ Tail(s)[j] = s[j + 1]
  OBVIOUS

\* What comes out of an archive went into it, by its row, whatever the file at
\* the path of the handle has become.
LEMMA WritesStep ==
  ASSUME IInv, NEW w \in Programs, busy[w] # <<>>, Content(w) # None,
         NEW bytes, OrBeginning(Content(w), bytes), Put(w, bytes),
         NEW entries \in {Tail(busy[w]), <<>>}, busy' = [busy EXCEPT ![w] = entries],
         UNCHANGED <<disk, writing, handle, made, promised>>
  PROVE  IInv'
  <1> DEFINE a == handle[w].head.kem.secret
             rows == handle[w].rows
             c == Content(w)
  <1>1. /\ busy[w] \in Seq(Nat) /\ busy[w] # <<>> /\ handle[w] # Closed
        /\ \A j \in DOMAIN busy[w] : busy[w][j] \in DOMAIN rows
        /\ handle[w] \in Readers /\ ReaderTrue(handle[w])
    BY Parts, HandleFacts DEF IInv, ReadSafe
  <1>2. /\ Tail(busy[w]) \in Seq(Nat)
        /\ 1 \in DOMAIN busy[w]
        /\ \A j \in DOMAIN Tail(busy[w]) :
             j + 1 \in DOMAIN busy[w] /\ Tail(busy[w])[j] = busy[w][j + 1]
    BY <1>1, TailFacts
  <1>3. PICK i \in DOMAIN rows : i = busy[w][1]
    BY <1>1, <1>2
  <1>4. /\ a \in DOMAIN made /\ i \in DOMAIN made[a].contents
        /\ rows[i].name = NameOf(made[a].files[i])
        /\ Unpacked(rows[i].level, rows[i].tag) = made[a].contents[i]
        /\ rows[i].empty => made[a].contents[i] = Empty
    BY <1>1 DEF ReaderTrue, RowsTrue
  <1>5. c # None => c = made[a].contents[i]
    BY <1>3, <1>4 DEF Content
  <1>6. c # None
    OBVIOUS
  <1>7. /\ a \in Archives /\ bytes \in Bytes /\ rows[i].name \in Names
    <2>1. made[a].contents \in Seq(Contents) /\ a \in Archives
      BY <1>4, MadeFacts DEF IInv
    <2>2. c \in Contents
      BY <1>4, <1>5, <1>6, <2>1, Elements
    <2>3. rows \in Seq(Rows)
      BY <1>1, ReaderFacts
    <2>4. rows[i] \in Rows
      BY <2>3, Elements
    <2>5. bytes \in Bytes
      BY <2>2 DEF OrBeginning, Bytes
    <2>6. QED
      BY <2>1, <2>4, <2>5, RowFacts
  <1>8. out' = [out EXCEPT ![rows[i].name] = [archive |-> a, content |-> bytes]]
    BY <1>3 DEF Put
  <1> HIDE DEF a, rows, c
  <1>9. OutSafe'
    <2>1. OutSafe
      BY Parts
    <2>2. /\ out' \in [Names -> {None} \cup [archive : Archives, content : Bytes]]
          /\ out'[rows[i].name].archive = a /\ out'[rows[i].name].content = bytes
          /\ \A n \in Names : n # rows[i].name => out'[n] = out[n]
      BY <1>7, <1>8, <2>1 DEF OutSafe
    <2>3. \A n \in Names : out'[n] # None => out'[n].archive \in DOMAIN made'
      BY <1>4, <2>1, <2>2 DEF OutSafe
    <2>4. NeverWrongBytes'
      <3>1. ASSUME NEW n \in Names, n # rows[i].name, out'[n] # None
            PROVE  \E j \in DOMAIN made'[out'[n].archive].contents :
                     /\ NameOf(made'[out'[n].archive].files[j]) = n
                     /\ OrBeginning(made'[out'[n].archive].contents[j], out'[n].content)
        BY <2>1, <2>2, <3>1, NeverWrong DEF OutSafe
      <3>2. /\ i \in DOMAIN made'[a].contents
            /\ NameOf(made'[a].files[i]) = rows[i].name
            /\ OrBeginning(made'[a].contents[i], bytes)
        BY <1>4, <1>5, <1>6 DEF c
      <3>3. QED
        BY <2>2, <3>1, <3>2, NeverWrong
    <2>5. QED
      BY <2>2, <2>3, <2>4 DEF OutSafe
  <1>10. \A j \in DOMAIN Tail(busy[w]) : Tail(busy[w])[j] \in DOMAIN handle[w].rows
    BY <1>1, <1>2 DEF rows
  <1>11. CASE entries = Tail(busy[w])
    BY <1>1, <1>2, <1>9, <1>10, <1>11, BusyStep
  <1>12. CASE entries = <<>>
    <2>1. <<>> \in Seq(Nat)
      OBVIOUS
    <2>2. QED
      BY <1>9, <1>12, <2>1, BusyStep
  <1>13. QED
    BY <1>11, <1>12

LEMMA ExtractFileStep ==
  ASSUME IInv, NEW w \in Programs, ExtractFile(w) \/ ExtractUnflushed(w) \/ ExtractCut(w)
  PROVE  IInv'
  <1>1. CASE ExtractFile(w)
    <2>1. OrBeginning(Content(w), Content(w))
      BY DEF OrBeginning
    <2>2. QED
      BY <1>1, <2>1, WritesStep DEF ExtractFile
  <1>2. OrBeginning(Content(w), Beginning(Content(w)))
    BY DEF OrBeginning
  <1>3. CASE ExtractUnflushed(w)
    BY <1>2, <1>3, WritesStep DEF ExtractUnflushed
  <1>4. CASE ExtractCut(w)
    BY <1>2, <1>4, WritesStep DEF ExtractCut
  <1>5. QED
    BY <1>1, <1>3, <1>4

(***************************************************************************)
(* Packing.                                                                 *)
(***************************************************************************)
\* One image changes at a time.
LEMMA OneImage ==
  ASSUME IInv, MadeGrows, NEW p \in Paths, NEW blocks \in Seq(Blocks), ImageTrue(blocks)',
         disk' = [disk EXCEPT ![p] = blocks]
  PROVE  /\ disk' \in [Paths -> Seq(Blocks)] /\ disk'[p] = blocks
         /\ \A q \in Paths : q # p => disk'[q] = disk[q]
         /\ \A q \in Paths : ImageTrue(disk[q])'
  <1>1. DiskTypes /\ DiskSafe
    BY Parts
  <1>2. /\ disk' \in [Paths -> Seq(Blocks)] /\ disk'[p] = blocks
        /\ \A q \in Paths : q # p => disk'[q] = disk[q]
    BY <1>1 DEF DiskTypes
  <1>3. ASSUME NEW q \in Paths, q # p
        PROVE  ImageTrue(disk[q])'
    <2>1. PICK b : b = disk[q] /\ ImageTrue(b)
      BY <1>1 DEF DiskSafe
    <2>2. ImageTrue(b)'
      BY <2>1, ImageStays
    <2>3. QED
      BY <1>2, <1>3, <2>1, <2>2 DEF ImageTrue
  <1>4. ImageTrue(disk[p])'
    BY <1>2 DEF ImageTrue
  <1>5. QED
    BY <1>2, <1>3, <1>4

\* A writer whose path and archive nobody else touches.
LEMMA WriterStays ==
  ASSUME IInv, NEW v \in Programs, writing[v] # Idle, writing'[v] = writing[v],
         disk'[writing[v].path] = disk[writing[v].path],
         promised'[writing[v].path] = promised[writing[v].path],
         writing[v].archive \in DOMAIN made',
         made'[writing[v].archive] = made[writing[v].archive]
  PROVE  WriterTrue(writing[v])'
  <1>1. WriterTrue(writing[v])
    BY DEF IInv
  <1>2. QED
    BY <1>1 DEF WriterTrue, RowsTrue, InPlace

LEMMA BeginStep ==
  ASSUME IInv, NEW w \in Programs, NEW p \in Paths, NEW k \in Keys, NEW files \in Stagings,
         Begin(w, p, k, files)
  PROVE  IInv'
  <1> DEFINE a == Len(made) + 1
             entry == [files |-> files, contents |-> <<>>]
             head == Header(a, k, Len(files))
             x == [pc |-> "packing", archive |-> a, key |-> k, path |-> p, files |-> files,
                   rows |-> <<>>]
  <1>1. files \in Seq(Sources) /\ Len(files) \in Nat
    BY ArchiveAssumption DEF ArchiveAssumption
  <1>2. /\ made \in Seq(Records) /\ entry \in Records /\ a \in Archives /\ a <= MaxArchives
        /\ a \notin DOMAIN made
    <2>1. <<>> \in Seq(Contents)
      OBVIOUS
    <2>2. entry \in Records
      BY <1>1, <2>1 DEF Records
    <2>3. made \in Seq(Records) /\ Len(made) \in Nat /\ DOMAIN made = 1..Len(made)
      BY MadeFacts DEF IInv
    <2>4. QED
      BY <2>2, <2>3, ArchiveAssumption DEF Begin, Archives, ArchiveAssumption
  <1>3. /\ writing[w] = Idle /\ UNCHANGED <<handle, busy, out>>
        /\ made' = Append(made, entry)
        /\ disk' = [disk EXCEPT ![p] = <<head>>]
        /\ promised' = [promised EXCEPT ![p] = 0]
        /\ \A v \in Programs : writing[v] # Idle => writing[v].path # p
    BY DEF Begin
  <1>4. writing' = [writing EXCEPT ![w] = x]
    <2>1. <<>> \o files = files
      BY <1>1
    <2>2. Staged(Created(a, k, p), files) = x
      BY <2>1 DEF Staged, Created
    <2>3. QED
      BY <2>2 DEF Begin
  <1>5. /\ made' \in Seq(Records) /\ Len(made') = a
        /\ made'[a] = entry /\ a \in DOMAIN made'
        /\ \A b \in DOMAIN made : b \in DOMAIN made' /\ made'[b] = made[b]
    BY <1>2, <1>3, Appended, Elements
  <1>6. MadeGrows
    BY <1>5 DEF MadeGrows
  <1>7. /\ head \in Heads /\ head \in Blocks /\ ~Table(head) /\ head.kem.secret = a
    BY <1>1, <1>2, HeaderBlock
  <1> HIDE DEF a, entry, head
  <1>8. PICK image \in Seq(Blocks) :
          image = <<head>> /\ DOMAIN image = {1} /\ image[1] = head /\ image # <<>>
    <2>1. /\ <<head>> \in Seq(Blocks) /\ <<head>> # <<>>
          /\ DOMAIN <<head>> = {1} /\ <<head>>[1] = head
      BY <1>7
    <2>2. QED
      BY <2>1
  <1>9. ImageTrue(image)'
    <2>1. image[1] \in Heads /\ image[1].kem.secret \in DOMAIN made'
      BY <1>5, <1>7, <1>8
    <2>2. \A t \in DOMAIN image : ~Table(image[t])
      BY <1>7, <1>8
    <2>3. QED
      BY <2>1, <2>2 DEF ImageTrue
  <1>10. /\ disk' \in [Paths -> Seq(Blocks)] /\ disk'[p] = image
         /\ \A q \in Paths : q # p => disk'[q] = disk[q]
         /\ \A q \in Paths : ImageTrue(disk[q])'
    BY <1>3, <1>6, <1>8, <1>9, OneImage
  <1>11. DiskTypes /\ DiskSafe
    BY Parts
  <1>12. x \in Writers /\ x # Idle
    BY <1>1, <1>2 DEF Writers, Idle
  <1>13. /\ writing' \in [Programs -> {Idle} \cup Writers] /\ writing'[w] = x
         /\ \A v \in Programs : v # w => writing'[v] = writing[v]
    BY <1>4, <1>11, <1>12 DEF DiskTypes
  <1>14. /\ promised' \in [Paths -> Archives \cup {0}] /\ promised'[p] = 0
         /\ \A q \in Paths : q # p => promised'[q] = promised[q]
    BY <1>3, <1>11 DEF DiskTypes
  <1>15. DiskTypes'
    BY <1>2, <1>5, <1>10, <1>13, <1>14 DEF DiskTypes
  <1>16. ASSUME NEW v \in Programs, v # w, writing[v] # Idle
         PROVE  /\ WriterTrue(writing[v])' /\ writing[v].path # p
                /\ writing[v].archive # a
    <2>1. /\ writing[v].path \in Paths /\ writing[v].path # p
          /\ writing[v].archive \in DOMAIN made
      BY <1>3, <1>16, WritingFacts DEF IInv, WriterTrue
    <2>2. QED
      BY <1>2, <1>5, <1>10, <1>13, <1>14, <1>16, <2>1, WriterStays
  <1>17. WriterTrue(writing[w])'
    <2>1. Len(<<>>) = 0 /\ 0 <= Len(files) /\ DOMAIN <<>> = {}
      BY <1>1
    <2>2. \A t \in DOMAIN disk'[p] : ~Table(disk'[p][t])
      BY <1>7, <1>8, <1>10
    <2>3. made'[a].files = files /\ made'[a].contents = <<>>
      BY <1>5 DEF entry
    <2>4. /\ writing'[w].archive = a /\ writing'[w].path = p /\ writing'[w].key = k
          /\ writing'[w].files = files /\ writing'[w].rows = <<>>
      BY <1>13
    <2>5. RowsTrue(writing[w].archive, writing[w].rows)'
      BY <2>1, <2>4 DEF RowsTrue
    <2>6. InPlace(disk'[p], Len(disk'[p]), a, <<>>)
      BY <2>1 DEF InPlace
    <2>7. disk'[p] # <<>> /\ disk'[p][1] = Header(a, k, Len(files))
      BY <1>8, <1>10 DEF head
    <2>8. QED
      BY <1>5, <1>14, <2>1, <2>2, <2>3, <2>4, <2>5, <2>6, <2>7 DEF WriterTrue
  <1>18. OwnPaths'
    BY <1>13, <1>16, <1>11 DEF OwnPaths, DiskSafe
  <1>19. AnnouncedOpens'
    BY <1>10, <1>14, PromiseStays DEF AnnouncedOpens
  <1>20. DiskSafe'
    BY <1>10, <1>13, <1>16, <1>17, <1>18, <1>19 DEF DiskSafe
  <1>21. ReadSafe'
    <2>1. ReadSafe
      BY Parts
    <2>2. \A v \in Programs : handle[v] # Closed => ReaderTrue(handle[v])'
      <3>1. SUFFICES ASSUME NEW v \in Programs, handle[v] # Closed PROVE ReaderTrue(handle[v])'
        OBVIOUS
      <3>2. PICK h : h = handle[v] /\ ReaderTrue(h)
        BY <2>1, <3>1 DEF ReadSafe
      <3>3. ReaderTrue(h)'
        BY <1>6, <3>2, ReaderStays
      <3>4. QED
        BY <1>3, <3>2, <3>3 DEF ReaderTrue
    <2>3. QED
      BY <1>3, <2>1, <2>2 DEF ReadSafe
  <1>22. QED
    BY <1>3, <1>6, <1>15, <1>20, <1>21, AllOutStays, PartsNext

\* However a writer ends, what it leaves behind is an image nobody is misled by.
LEMMA WritingEnds ==
  ASSUME IInv, NEW w \in Programs, writing[w] # Idle,
         NEW p \in Paths, p = writing[w].path,
         NEW blocks \in Seq(Blocks), ImageTrue(blocks),
         disk' = [disk EXCEPT ![p] = blocks],
         writing' = [writing EXCEPT ![w] = Idle],
         made' = made,
         promised' \in [Paths -> Archives \cup {0}],
         \A q \in Paths : q # p => promised'[q] = promised[q],
         promised'[p] # 0 => Unlockable(p)' /\ disk'[p][1].kem.secret = promised'[p]
  PROVE  DiskTypes' /\ DiskSafe' /\ MadeGrows
  <1>1. DiskTypes /\ DiskSafe
    BY Parts
  <1>2. MadeGrows
    BY DEF MadeGrows
  <1>3. ImageTrue(blocks)'
    BY <1>2, ImageStays
  <1>4. /\ disk' \in [Paths -> Seq(Blocks)] /\ disk'[p] = blocks
        /\ \A q \in Paths : q # p => disk'[q] = disk[q]
        /\ \A q \in Paths : ImageTrue(disk[q])'
    BY <1>2, <1>3, OneImage
  <1>5. /\ writing' \in [Programs -> {Idle} \cup Writers] /\ writing'[w] = Idle
        /\ \A v \in Programs : v # w => writing'[v] = writing[v]
    BY <1>1 DEF DiskTypes
  <1>6. DiskTypes'
    BY <1>1, <1>4, <1>5 DEF DiskTypes
  <1>7. ASSUME NEW v \in Programs, writing'[v] # Idle
        PROVE  WriterTrue(writing[v])'
    <2>1. v # w /\ writing'[v] = writing[v] /\ writing[v] # Idle
      BY <1>5, <1>7
    <2>2. writing[v].path \in Paths /\ writing[v].path # p
      BY <1>1, <2>1, WritingFacts DEF IInv, OwnPaths
    <2>3. writing[v].archive \in DOMAIN made
      BY <1>1, <2>1 DEF DiskSafe, WriterTrue
    <2>4. QED
      BY <1>4, <2>1, <2>2, <2>3, WriterStays
  <1>8. OwnPaths'
    BY <1>1, <1>5 DEF DiskSafe, OwnPaths
  <1>9. AnnouncedOpens'
    <2>1. ASSUME NEW q \in Paths, promised'[q] # 0
          PROVE  Unlockable(q)' /\ disk'[q][1].kem.secret = promised'[q]
      <3>1. CASE q = p
        BY <2>1, <3>1 DEF Unlockable, CanOpen, TableOpens, Opened
      <3>2. CASE q # p
        BY <1>4, <2>1, <3>2, PromiseStays
      <3>3. QED
        BY <3>1, <3>2
    <2>2. QED
      BY <2>1 DEF AnnouncedOpens
  <1>10. QED
    BY <1>2, <1>4, <1>6, <1>7, <1>8, <1>9 DEF DiskSafe

\* A writer that fails promised nothing, and any part of an image will do.
LEMMA WritingFails ==
  ASSUME IInv, NEW w \in Programs, writing[w] # Idle,
         NEW blocks \in Seq(Blocks), ImageTrue(blocks), NEW part \in Prefixes(blocks),
         disk' = [disk EXCEPT ![writing[w].path] = part],
         writing' = [writing EXCEPT ![w] = Idle],
         UNCHANGED <<made, promised>>
  PROVE  DiskTypes' /\ DiskSafe' /\ MadeGrows
  <1>1. part \in Seq(Blocks) /\ ImageTrue(part)
    BY ImagePrefix
  <1>2. PICK p \in Paths : p = writing[w].path
    BY WritingFacts DEF IInv
  <1>3. promised[p] = 0 /\ promised \in [Paths -> Archives \cup {0}]
    BY <1>2 DEF IInv, TypeOK, WriterTrue
  <1>4. QED
    BY <1>1, <1>2, <1>3, WritingEnds

LEMMA PackMissingStep ==
  ASSUME IInv, NEW w \in Programs, PackMissing(w)
  PROVE  IInv'
  <1>1. /\ UNCHANGED <<disk, handle, busy, out, made, promised>> /\ writing[w] # Idle
        /\ writing' = [writing EXCEPT ![w] = Idle] /\ busy[w] = <<>>
    BY DEF PackMissing, Packing
  <1>2. PICK p \in Paths : p = writing[w].path
    BY <1>1, WritingFacts DEF IInv
  <1>3. PICK blocks \in Seq(Blocks) : blocks = disk[p] /\ ImageTrue(blocks)
    BY Parts DEF DiskTypes, DiskSafe
  <1>4. disk' = [disk EXCEPT ![p] = blocks]
    BY <1>1, <1>3, Parts DEF DiskTypes
  <1>5. promised[p] = 0 /\ promised \in [Paths -> Archives \cup {0}]
    BY <1>1, <1>2 DEF IInv, TypeOK, WriterTrue
  <1>6. DiskTypes' /\ DiskSafe' /\ MadeGrows
    BY <1>1, <1>2, <1>3, <1>4, <1>5, WritingEnds
  <1>7. ReadSafe'
    BY <1>1, <1>6, OneHandle
  <1>8. QED
    BY <1>1, <1>6, <1>7, AllOutStays, PartsNext

(***************************************************************************)
(* Finishing: the table behind the contents.                                *)
(***************************************************************************)
LEMMA TableFacts ==
  ASSUME NEW a \in Archives, NEW rows \in Seq(Rows)
  PROVE  /\ TableBlocks(a, rows) \in Seq(Blocks)
         /\ Len(rows) \in Nat /\ Len(TableBlocks(a, rows)) = Len(rows) + 1
         /\ TableBlocks(a, rows)[1] = TableTag(a, rows)
         /\ \A i \in 1..Len(rows) :
              /\ TableBlocks(a, rows)[i + 1] = Row(Kdf(a), rows[i])
              /\ ~Table(TableBlocks(a, rows)[i + 1])
  <1> DEFINE tag == TableTag(a, rows)
             cells == [i \in 1..Len(rows) |-> Row(Kdf(a), rows[i])]
  <1>1. tag \in Blocks
    BY TagBlock
  <1>2. ASSUME NEW i \in 1..Len(rows)
        PROVE  Row(Kdf(a), rows[i]) \in Blocks /\ ~Table(Row(Kdf(a), rows[i]))
    <2>1. rows[i] \in Packs \cup Rows
      BY Elements
    <2>2. QED
      BY <2>1, SealedBlock DEF Row
  <1>3. Len(rows) \in Nat
    BY Elements
  <1>4. /\ cells \in Seq(Blocks) /\ Len(cells) = Len(rows)
        /\ \A i \in 1..Len(rows) : cells[i] = Row(Kdf(a), rows[i])
    BY <1>2, <1>3
  <1>5. TableBlocks(a, rows) = <<tag>> \o cells
    BY DEF TableBlocks
  <1> HIDE DEF tag, cells
  <1>6. <<tag>> \in Seq(Blocks) /\ Len(<<tag>>) = 1 /\ <<tag>>[1] = tag
    BY <1>1
  <1>7. /\ <<tag>> \o cells \in Seq(Blocks)
        /\ Len(<<tag>> \o cells) = 1 + Len(rows)
        /\ (<<tag>> \o cells)[1] = tag
        /\ \A i \in 1..Len(rows) : (<<tag>> \o cells)[1 + i] = cells[i]
    BY <1>4, <1>6, Joined
  <1>8. \A i \in 1..Len(rows) : 1 + i = i + 1
    BY <1>3
  <1>9. QED
    BY <1>2, <1>3, <1>4, <1>5, <1>7, <1>8 DEF tag

\* What the image of an archive with its table consists of.
LEMMA Whole ==
  ASSUME NEW front \in Seq(Blocks), NEW a \in Archives, NEW rows \in Seq(Rows),
         NEW blocks, blocks = front \o TableBlocks(a, rows)
  PROVE  /\ blocks \in Seq(Blocks)
         /\ Len(front) \in Nat /\ Len(rows) \in Nat
         /\ Len(blocks) = Len(front) + Len(rows) + 1
         /\ \A i \in 1..Len(front) : i \in DOMAIN blocks /\ blocks[i] = front[i]
         /\ blocks[Len(front) + 1] = TableTag(a, rows)
         /\ \A i \in 1..Len(rows) : blocks[Len(front) + 1 + i] = Row(Kdf(a), rows[i])
         /\ \A t \in DOMAIN blocks : Table(blocks[t]) => t \in 1..(Len(front) + 1)
  <1> DEFINE table == TableBlocks(a, rows)
  <1>1. /\ table \in Seq(Blocks) /\ Len(rows) \in Nat /\ Len(table) = Len(rows) + 1
        /\ table[1] = TableTag(a, rows)
        /\ \A i \in 1..Len(rows) : table[i + 1] = Row(Kdf(a), rows[i]) /\ ~Table(table[i + 1])
    BY TableFacts
  <1> HIDE DEF table
  <1>2. /\ blocks \in Seq(Blocks) /\ Len(front) \in Nat /\ Len(table) \in Nat
        /\ Len(blocks) = Len(front) + Len(table)
        /\ DOMAIN blocks = 1..(Len(front) + Len(table))
        /\ \A i \in 1..Len(front) : i \in DOMAIN blocks /\ blocks[i] = front[i]
        /\ \A i \in 1..Len(table) : blocks[Len(front) + i] = table[i]
    BY <1>1, Joined DEF table
  <1>3. 1 \in 1..Len(table) /\ Len(blocks) = Len(front) + Len(rows) + 1
    BY <1>1, <1>2
  <1>4. ASSUME NEW i \in 1..Len(rows)
        PROVE  /\ blocks[Len(front) + 1 + i] = Row(Kdf(a), rows[i])
               /\ ~Table(blocks[Len(front) + 1 + i])
    <2>1. i + 1 \in 1..Len(table) /\ Len(front) + (i + 1) = Len(front) + 1 + i
      BY <1>1, <1>2
    <2>2. blocks[Len(front) + 1 + i] = table[i + 1]
      BY <1>2, <2>1
    <2>3. QED
      BY <1>1, <2>2
  <1>5. ASSUME NEW t \in DOMAIN blocks, Table(blocks[t])
        PROVE  t \in 1..(Len(front) + 1)
    <2>1. t \in 1..(Len(front) + Len(rows) + 1)
      BY <1>1, <1>2
    <2>2. CASE t > Len(front) + 1
      <3>1. PICK i \in 1..Len(rows) : i = t - (Len(front) + 1)
        BY <1>1, <1>2, <2>1, <2>2
      <3>2. t = Len(front) + 1 + i
        BY <1>2, <2>1, <3>1
      <3>3. QED
        BY <1>4, <1>5, <3>2
    <2>3. CASE ~(t > Len(front) + 1)
      BY <1>2, <2>1, <2>3
    <2>4. QED
      BY <2>2, <2>3
  <1>6. QED
    BY <1>1, <1>2, <1>3, <1>4, <1>5

\* What the last step of packing writes is a true image, and opens.
LEMMA RestImage ==
  ASSUME IInv, NEW w \in Programs, AllPacked(w), NEW blocks, blocks = Rest(w)
  PROVE  /\ blocks \in Seq(Blocks) /\ ImageTrue(blocks)
         /\ Finished(w) \in Readers /\ ReaderTrue(Finished(w))
         /\ blocks # <<>> /\ blocks[1].kem.secret = writing[w].archive
         /\ Len(blocks) > blocks[1].count
         /\ TableOpens(blocks, Finished(w), Kdf(writing[w].archive))
         /\ blocks[1] = Finished(w).head
         /\ blocks[Len(blocks) - blocks[1].count] = Finished(w).mark
  <1>1. PICK x \in Writers : x = writing[w] /\ WriterTrue(x)
    BY WritingFacts DEF IInv, AllPacked
  <1>2. PICK front \in Seq(Blocks) : front = disk[x.path]
    BY <1>1, WritingFacts DEF IInv, TypeOK, AllPacked
  <1>3. PICK a \in Archives, rows \in Seq(Rows) : a = x.archive /\ rows = x.rows
    BY <1>1 DEF Writers
  <1>4. /\ a \in DOMAIN made /\ made[a].files = x.files
        /\ Len(rows) = Len(made[a].files) /\ Len(made[a].contents) = Len(made[a].files)
        /\ RowsTrue(a, rows)
        /\ front # <<>> /\ front[1] = Header(a, x.key, Len(rows))
        /\ \A t \in DOMAIN front : ~Table(front[t])
        /\ InPlace(front, Len(front), a, rows)
    BY <1>1, <1>2, <1>3 DEF WriterTrue, AllPacked
  <1>5. blocks = front \o TableBlocks(a, rows)
    BY <1>1, <1>2, <1>3 DEF Rest
  <1>6. /\ blocks \in Seq(Blocks)
        /\ Len(front) \in Nat /\ Len(rows) \in Nat
        /\ Len(blocks) = Len(front) + Len(rows) + 1
        /\ \A i \in 1..Len(front) : i \in DOMAIN blocks /\ blocks[i] = front[i]
        /\ blocks[Len(front) + 1] = TableTag(a, rows)
        /\ \A i \in 1..Len(rows) : blocks[Len(front) + 1 + i] = Row(Kdf(a), rows[i])
        /\ \A t \in DOMAIN blocks : Table(blocks[t]) => t \in 1..(Len(front) + 1)
    BY <1>5, Whole
  <1>7. PICK head \in Heads :
          /\ head = Header(a, x.key, Len(rows)) /\ ~Table(head)
          /\ head.kem.secret = a /\ head.count = Len(rows)
    BY <1>1, <1>6, HeaderBlock DEF Writers
  <1>8. PICK mark \in Blocks :
          /\ mark = TableTag(a, rows) /\ Table(mark)
          /\ mark.sym = Kdf(a) /\ mark.rows = rows
    BY TagBlock
  <1>9. blocks # <<>> /\ blocks[1] = head /\ DOMAIN front = 1..Len(front)
    <2>1. 1 \in 1..Len(front) /\ DOMAIN front = 1..Len(front)
      BY <1>4, Elements
    <2>2. blocks # <<>>
      BY <1>6, Elements
    <2>3. QED
      BY <1>4, <1>6, <1>7, <2>1, <2>2
  <1>10. ASSUME NEW t \in DOMAIN blocks, Table(blocks[t])
         PROVE  t - 1 = Len(front) /\ blocks[t] = mark
    <2>1. t \in 1..(Len(front) + 1) /\ t \notin 1..Len(front)
      BY <1>4, <1>6, <1>9, <1>10
    <2>2. t = Len(front) + 1
      BY <1>6, <2>1
    <2>3. QED
      BY <1>6, <1>8, <2>2
  <1>11. InPlace(blocks, Len(front), a, rows)
    BY <1>4, <1>6 DEF InPlace
  <1>12. ImageTrue(blocks)
    BY <1>4, <1>7, <1>8, <1>9, <1>10, <1>11 DEF ImageTrue
  <1>13. PICK h : h = Finished(w)
    OBVIOUS
  <1>14. h = [state |-> "unlocked", path |-> x.path, head |-> head, mark |-> mark,
              sym |-> Kdf(a), rows |-> rows]
    BY <1>1, <1>3, <1>4, <1>7, <1>8, <1>13 DEF Finished
  <1>15. h \in Readers
    <2>1. Kdf(a) \in Syms /\ x.path \in Paths
      BY <1>1, Keyed DEF Writers
    <2>2. QED
      BY <1>14, <2>1 DEF Readers
  <1>16. h.head = head /\ h.mark = mark /\ h.rows = rows
    BY <1>14
  <1>17. ReaderTrue(h)
    BY <1>4, <1>7, <1>8, <1>16 DEF ReaderTrue
  <1>18. Len(blocks) > Len(rows) /\ Len(blocks) - Len(rows) = Len(front) + 1
    BY <1>6
  <1>19. TableOpens(blocks, h, Kdf(a))
    <2>1. "rows" \in DOMAIN h.mark
      BY <1>8, <1>16 DEF Table
    <2>2. Len(blocks) >= Len(rows)
      BY <1>6
    <2>3. QED
      BY <1>6, <1>7, <1>8, <1>16, <1>18, <2>1, <2>2 DEF TableOpens
  <1>20. blocks[Len(blocks) - blocks[1].count] = h.mark
    BY <1>6, <1>7, <1>8, <1>9, <1>16, <1>18
  <1>21. blocks[1] = h.head /\ Len(blocks) > blocks[1].count
    BY <1>7, <1>9, <1>16, <1>18
  <1>22. blocks[1].kem.secret = writing[w].archive
    BY <1>1, <1>3, <1>7, <1>9
  <1>23. TableOpens(blocks, Finished(w), Kdf(writing[w].archive))
    BY <1>1, <1>3, <1>13, <1>19
  <1>24. QED
    BY <1>6, <1>9, <1>12, <1>13, <1>15, <1>17, <1>20, <1>21, <1>22, <1>23

\* What is announced is there, complete, and can be unlocked.
LEMMA FinishStep ==
  ASSUME IInv, NEW w \in Programs, Finish(w)
  PROVE  IInv'
  <1>1. PICK blocks : blocks = Rest(w)
    OBVIOUS
  <1>2. PICK h : h = Finished(w)
    OBVIOUS
  <1>3. PICK p \in Paths, a \in Archives : p = writing[w].path /\ a = writing[w].archive
    BY WritingFacts DEF IInv, Finish, AllPacked
  <1>4. /\ disk' = [disk EXCEPT ![p] = blocks]
        /\ promised' = [promised EXCEPT ![p] = a]
        /\ writing' = [writing EXCEPT ![w] = Idle]
        /\ handle' \in {handle, [handle EXCEPT ![w] = h]}
        /\ UNCHANGED <<busy, out, made>> /\ busy[w] = <<>> /\ writing[w] # Idle
    BY <1>1, <1>2, <1>3 DEF Finish, AllPacked
  <1>5. /\ blocks \in Seq(Blocks) /\ ImageTrue(blocks)
        /\ h \in Readers /\ ReaderTrue(h)
        /\ blocks # <<>> /\ blocks[1].kem.secret = a
        /\ Len(blocks) > blocks[1].count
        /\ TableOpens(blocks, h, Kdf(a))
        /\ blocks[1] = h.head /\ blocks[Len(blocks) - blocks[1].count] = h.mark
    BY <1>1, <1>2, <1>3, RestImage DEF Finish
  <1>6. DiskTypes
    BY Parts
  <1>7. /\ promised' \in [Paths -> Archives \cup {0}] /\ promised'[p] = a
        /\ \A q \in Paths : q # p => promised'[q] = promised[q]
        /\ disk'[p] = blocks
    BY <1>4, <1>6 DEF DiskTypes
  <1>8. Unlockable(p)' /\ disk'[p][1].kem.secret = promised'[p]
    <2>1. /\ Opened(p)'.head = h.head /\ Opened(p)'.mark = h.mark
      BY <1>5, <1>7 DEF Opened
    <2>2. CanOpen(p)'
      BY <1>5, <1>7 DEF CanOpen
    <2>3. TableOpens(blocks, Opened(p)', Kdf(a))
      BY <1>5, <2>1 DEF TableOpens
    <2>4. QED
      BY <1>5, <1>7, <2>2, <2>3 DEF Unlockable
  <1>9. DiskTypes' /\ DiskSafe' /\ MadeGrows
    BY <1>3, <1>4, <1>5, <1>7, <1>8, WritingEnds
  <1>10. ReadSafe'
    BY <1>4, <1>5, <1>9, OneHandle, ReaderStays
  <1>11. QED
    BY <1>4, <1>9, <1>10, AllOutStays, PartsNext

\* A writer that fails and leaves its handle, closes it, or leaves that of a
\* finished archive.
LEMMA FailStep ==
  ASSUME IInv, NEW w \in Programs, writing[w] # Idle, busy[w] = <<>>,
         NEW blocks \in Seq(Blocks), ImageTrue(blocks), NEW part \in Prefixes(blocks),
         disk' = [disk EXCEPT ![writing[w].path] = part],
         writing' = [writing EXCEPT ![w] = Idle],
         UNCHANGED <<busy, out, made, promised>>,
         NEW h \in {Closed} \cup Readers, h # Closed => ReaderTrue(h),
         handle' \in {handle, [handle EXCEPT ![w] = h]}
  PROVE  IInv'
  <1>1. DiskTypes' /\ DiskSafe' /\ MadeGrows
    BY WritingFails
  <1>2. ReadSafe'
    BY <1>1, OneHandle, ReaderStays
  <1>3. QED
    BY <1>1, <1>2, AllOutStays, PartsNext

LEMMA FinishUnflushedStep ==
  ASSUME IInv, NEW w \in Programs, FinishUnflushed(w)
  PROVE  IInv'
  <1>1. PICK blocks : blocks = Rest(w)
    OBVIOUS
  <1>2. PICK h : h = Finished(w)
    OBVIOUS
  <1>3. /\ blocks \in Seq(Blocks) /\ ImageTrue(blocks)
        /\ h \in Readers /\ ReaderTrue(h)
    BY <1>1, <1>2, RestImage DEF FinishUnflushed
  <1>4. PICK part \in Prefixes(blocks) : disk' = [disk EXCEPT ![writing[w].path] = part]
    BY <1>1 DEF FinishUnflushed, Proper
  <1>5. /\ writing' = [writing EXCEPT ![w] = Idle]
        /\ handle' \in {handle, [handle EXCEPT ![w] = h]}
        /\ UNCHANGED <<busy, out, made, promised>> /\ busy[w] = <<>> /\ writing[w] # Idle
    BY <1>2 DEF FinishUnflushed, AllPacked
  <1>6. QED
    BY <1>3, <1>4, <1>5, FailStep

LEMMA CutStep ==
  ASSUME IInv, NEW w \in Programs, Cut(w)
  PROVE  IInv'
  <1>1. PICK blocks : blocks = IF AllPacked(w) THEN Rest(w) ELSE disk[writing[w].path]
    OBVIOUS
  <1>2. blocks \in Seq(Blocks) /\ ImageTrue(blocks)
    <2>1. CASE AllPacked(w)
      BY <1>1, <2>1, RestImage
    <2>2. CASE ~AllPacked(w)
      <3>1. PICK p \in Paths : p = writing[w].path
        BY WritingFacts DEF IInv, Cut
      <3>2. PICK image \in Seq(Blocks) : image = disk[p] /\ ImageTrue(image)
        BY Parts DEF DiskTypes, DiskSafe
      <3>3. QED
        BY <1>1, <2>2, <3>1, <3>2
    <2>3. QED
      BY <2>1, <2>2
  <1>3. PICK part \in Prefixes(blocks) : disk' = [disk EXCEPT ![writing[w].path] = part]
    BY <1>1 DEF Cut, Proper
  <1>4. /\ writing' = [writing EXCEPT ![w] = Idle]
        /\ handle' \in {handle, [handle EXCEPT ![w] = Closed]}
        /\ UNCHANGED <<busy, out, made, promised>> /\ busy[w] = <<>> /\ writing[w] # Idle
    BY DEF Cut
  <1>5. QED
    BY <1>2, <1>3, <1>4, FailStep

(***************************************************************************)
(* Packing a file.                                                          *)
(***************************************************************************)
LEMMA EntryFacts ==
  ASSUME IInv, NEW w \in Programs, NEW c \in Contents, Packing(w)
  PROVE  /\ Entry(w, c) \in Rows
         /\ Entry(w, c).name = NameOf(writing[w].files[Len(writing[w].rows) + 1])
         /\ Unpacked(Entry(w, c).level, Entry(w, c).tag) = c
         /\ Entry(w, c).empty <=> c = Empty
         /\ Entry(w, c).offset = Len(disk[writing[w].path]) + 1
  <1>1. /\ writing[w].files \in Seq(Sources) /\ writing[w].rows \in Seq(Rows)
        /\ Len(writing[w].rows) < Len(writing[w].files)
        /\ disk[writing[w].path] \in Seq(Blocks)
    BY WritingFacts DEF IInv, TypeOK, Packing
  <1>2. /\ Len(writing[w].rows) \in Nat /\ Len(writing[w].files) \in Nat
        /\ Len(disk[writing[w].path]) \in Nat
        /\ DOMAIN writing[w].files = 1..Len(writing[w].files)
    BY <1>1, Elements
  <1>3. Len(writing[w].rows) + 1 \in DOMAIN writing[w].files
    BY <1>1, <1>2
  <1>4. Upcoming(w) \in Sources
    BY <1>1, <1>3, Elements DEF Upcoming
  <1>5. NameOf(Upcoming(w)) \in Names /\ (c = Empty) \in BOOLEAN
    BY <1>4 DEF Names
  <1>6. LevelOf(w) \in Levels /\ Packed(LevelOf(w), c) \in Packs
    BY DEF Levels, Packs, Packed
  <1>7. Len(disk[writing[w].path]) + 1 \in Nat /\ Len(writing[w].rows) + 1 \in Nat
    BY <1>2
  <1>8. Entry(w, c) \in Rows
    BY <1>5, <1>6, <1>7 DEF Entry, Rows
  <1>9. Unpacked(LevelOf(w), Packed(LevelOf(w), c)) = c
    BY DEF Unpacked, Packed
  <1>10. QED
    BY <1>8, <1>9 DEF Entry, Upcoming

\* What process_file writes: nothing, or one block behind the others.
LEMMA SealedFacts ==
  ASSUME NEW w \in Programs, NEW e \in Rows, writing[w].archive \in Archives
  PROVE  /\ Sealed(w, e) \in Seq(Blocks)
         /\ \A i \in DOMAIN Sealed(w, e) : ~Table(Sealed(w, e)[i])
         /\ e.empty \/ /\ 1 \in DOMAIN Sealed(w, e) /\ Len(Sealed(w, e)) = 1
                       /\ Sealed(w, e)[1] = Seal(Kdf(writing[w].archive), e.nonce, e.tag)
  <1>1. PICK block \in Blocks :
          block = Seal(Kdf(writing[w].archive), e.nonce, e.tag) /\ ~Table(block)
    BY RowFacts, SealedBlock
  <1>2. CASE e.empty
    BY <1>2 DEF Sealed
  <1>3. CASE ~e.empty
    <2>1. /\ <<block>> \in Seq(Blocks) /\ Len(<<block>>) = 1
          /\ DOMAIN <<block>> = {1} /\ <<block>>[1] = block
      OBVIOUS
    <2>2. Sealed(w, e) = <<block>>
      BY <1>1, <1>3 DEF Sealed
    <2>3. QED
      BY <1>1, <2>1, <2>2
  <1>4. QED
    BY <1>2, <1>3

LEMMA Replaced ==
  ASSUME NEW S, NEW s \in Seq(S), NEW i \in DOMAIN s, NEW e \in S
  PROVE  /\ [s EXCEPT ![i] = e] \in Seq(S)
         /\ Len([s EXCEPT ![i] = e]) = Len(s)
         /\ DOMAIN [s EXCEPT ![i] = e] = DOMAIN s
         /\ [s EXCEPT ![i] = e][i] = e
         /\ \A j \in DOMAIN s : j # i => [s EXCEPT ![i] = e][j] = s[j]
  OBVIOUS

LEMMA PackFileStep ==
  ASSUME IInv, NEW w \in Programs, NEW c \in Contents, PackFile(w, c)
  PROVE  IInv'
  <1>1. Packing(w) /\ writing[w] # Idle /\ UNCHANGED <<handle, busy, out, promised>>
    BY DEF PackFile, Packing
  <1>2. PICK x \in Writers : x = writing[w] /\ WriterTrue(x)
    BY <1>1, WritingFacts DEF IInv
  <1>3. PICK a \in Archives, p \in Paths, rows \in Seq(Rows), files \in Seq(Sources) :
          a = x.archive /\ p = x.path /\ rows = x.rows /\ files = x.files
    BY <1>2 DEF Writers
  <1>4. PICK front \in Seq(Blocks) : front = disk[p]
    BY DEF IInv, TypeOK
  <1>5. /\ a \in DOMAIN made /\ made[a] \in Records /\ made[a].files = files
        /\ made \in Seq(Records) /\ Len(made) <= MaxArchives
    BY <1>2, <1>3, MadeFacts, Elements DEF IInv, TypeOK, WriterTrue, Records
  <1>6. PICK contents \in Seq(Contents) : contents = made[a].contents
    BY <1>5 DEF Records
  <1>7. /\ Len(contents) = Len(rows) /\ Len(rows) < Len(files)
        /\ RowsTrue(a, rows)
        /\ front # <<>> /\ front[1] = Header(a, x.key, Len(files))
        /\ \A t \in DOMAIN front : ~Table(front[t])
        /\ InPlace(front, Len(front), a, rows)
        /\ promised[p] = 0
    BY <1>1, <1>2, <1>3, <1>4, <1>6 DEF WriterTrue, Packing
  <1>8. PICK e \in Rows :
          /\ e = Entry(w, c)
          /\ e.name = NameOf(files[Len(rows) + 1]) /\ Unpacked(e.level, e.tag) = c
          /\ (e.empty <=> c = Empty) /\ e.offset = Len(front) + 1
    BY <1>1, <1>2, <1>3, <1>4, EntryFacts
  <1>9. PICK tail \in Seq(Blocks) :
          /\ tail = Sealed(w, e)
          /\ \A i \in DOMAIN tail : ~Table(tail[i])
          /\ e.empty \/ /\ 1 \in DOMAIN tail /\ Len(tail) = 1
                        /\ tail[1] = Seal(Kdf(a), e.nonce, e.tag)
    BY <1>2, <1>3, SealedFacts
  <1>10. PICK blocks \in Seq(Blocks) : blocks = front \o tail
    BY Joined
  <1>11. PICK longer \in Seq(Rows) : longer = Append(rows, e)
    BY Appended
  <1>12. PICK read \in Seq(Contents) : read = Append(contents, c)
    BY Appended
  <1>13. PICK y \in Writers : y = [x EXCEPT !.rows = longer]
    BY <1>2 DEF Writers
  <1>14. PICK entry \in Records : entry = [made[a] EXCEPT !.contents = read]
    BY <1>5 DEF Records
  <1>15. /\ disk' = [disk EXCEPT ![p] = blocks]
         /\ writing' = [writing EXCEPT ![w] = y]
         /\ made' = [made EXCEPT ![a] = entry]
    <2>1. disk' = [disk EXCEPT ![p] = disk[p] \o tail]
      BY <1>2, <1>3, <1>8, <1>9, Parts DEF PackFile, DiskTypes
    <2>2. writing' = [writing EXCEPT ![w] = [writing[w] EXCEPT !.rows = Append(writing[w].rows, e)]]
      BY <1>8, Parts DEF PackFile, DiskTypes
    <2>3. made' = [made EXCEPT ![a] = [made[a] EXCEPT !.contents = Append(made[a].contents, c)]]
      BY <1>2, <1>3, <1>5 DEF PackFile
    <2>4. QED
      BY <1>2, <1>3, <1>4, <1>6, <1>10, <1>11, <1>12, <1>13, <1>14, <2>1, <2>2, <2>3
  <1>16. /\ y.archive = a /\ y.path = p /\ y.key = x.key /\ y.files = files /\ y.rows = longer
         /\ y # Idle
    BY <1>2, <1>3, <1>13 DEF Writers, Idle
  <1>17. entry.files = files /\ entry.contents = read
    BY <1>5, <1>14 DEF Records
  <1>18. /\ made' \in Seq(Records) /\ Len(made') = Len(made) /\ DOMAIN made' = DOMAIN made
         /\ made'[a] = entry
         /\ \A b \in DOMAIN made : b # a => made'[b] = made[b]
    BY <1>5, <1>15, Replaced
  <1>19. /\ Len(contents) \in Nat /\ Len(read) = Len(contents) + 1
         /\ DOMAIN contents = 1..Len(contents) /\ DOMAIN read = 1..(Len(contents) + 1)
         /\ read[Len(contents) + 1] = c
         /\ \A i \in DOMAIN contents : i \in DOMAIN read /\ read[i] = contents[i]
    BY <1>12, Appended
  <1>20. /\ Len(rows) \in Nat /\ Len(longer) = Len(rows) + 1
         /\ DOMAIN rows = 1..Len(rows) /\ DOMAIN longer = 1..(Len(rows) + 1)
         /\ longer[Len(rows) + 1] = e
         /\ \A i \in DOMAIN rows : longer[i] = rows[i]
    BY <1>11, Appended
  <1>21. Len(files) \in Nat
    BY Elements
  <1>22. /\ Len(front) \in Nat /\ Len(tail) \in Nat
         /\ Len(blocks) = Len(front) + Len(tail)
         /\ DOMAIN blocks = 1..(Len(front) + Len(tail))
         /\ \A i \in 1..Len(front) : i \in DOMAIN blocks /\ blocks[i] = front[i]
         /\ \A i \in 1..Len(tail) : blocks[Len(front) + i] = tail[i]
    BY <1>10, Joined
  <1>23. MadeGrows
    <2>1. Len(contents) # Len(files)
      BY <1>7, <1>20, <1>21
    <2>2. ASSUME NEW b \in DOMAIN made
          PROVE  /\ b \in DOMAIN made' /\ made'[b].files = made[b].files
                 /\ \A i \in DOMAIN made[b].contents :
                      /\ i \in DOMAIN made'[b].contents
                      /\ made'[b].contents[i] = made[b].contents[i]
                 /\ Len(made[b].contents) = Len(made[b].files) =>
                      made'[b].contents = made[b].contents
      <3>1. CASE b = a
        BY <1>5, <1>6, <1>17, <1>18, <1>19, <2>1, <3>1
      <3>2. CASE b # a
        BY <1>18, <3>2
      <3>3. QED
        BY <3>1, <3>2
    <2>3. QED
      BY <2>2 DEF MadeGrows
  <1>24. \A t \in DOMAIN blocks : ~Table(blocks[t])
    <2>1. SUFFICES ASSUME NEW t \in DOMAIN blocks PROVE ~Table(blocks[t])
      OBVIOUS
    <2>2. CASE t \in 1..Len(front)
      BY <1>7, <1>22, <2>2, Elements
    <2>3. CASE t \notin 1..Len(front)
      <3>1. PICK i \in 1..Len(tail) : i = t - Len(front)
        BY <1>22, <2>3
      <3>2. t = Len(front) + i /\ i \in DOMAIN tail
        BY <1>22, <2>1, <3>1, Elements
      <3>3. QED
        BY <1>9, <1>22, <3>1, <3>2
    <2>4. QED
      BY <2>2, <2>3
  <1>25. blocks # <<>> /\ blocks[1] = Header(a, x.key, Len(files))
    <2>1. 1 \in 1..Len(front)
      BY <1>7, Elements
    <2>2. 1 \in DOMAIN blocks /\ blocks[1] = front[1]
      BY <1>22, <2>1
    <2>3. QED
      BY <1>7, <2>2, Elements
  <1>26. ImageTrue(blocks)'
    <2>1. blocks[1] \in Heads /\ blocks[1].kem.secret = a
      BY <1>2, <1>21, <1>25, HeaderBlock DEF Writers
    <2>2. a \in DOMAIN made'
      BY <1>5, <1>18
    <2>3. QED
      BY <1>24, <2>1, <2>2 DEF ImageTrue
  <1>27. DiskTypes /\ DiskSafe
    BY Parts
  <1>28. /\ disk' \in [Paths -> Seq(Blocks)] /\ disk'[p] = blocks
         /\ \A q \in Paths : q # p => disk'[q] = disk[q]
         /\ \A q \in Paths : ImageTrue(disk[q])'
    BY <1>15, <1>23, <1>26, OneImage
  <1>29. /\ writing' \in [Programs -> {Idle} \cup Writers] /\ writing'[w] = y
         /\ \A v \in Programs : v # w => writing'[v] = writing[v]
    BY <1>15, <1>27 DEF DiskTypes
  <1>30. DiskTypes'
    BY <1>1, <1>5, <1>18, <1>27, <1>28, <1>29 DEF DiskTypes
  <1>31. RowsTrue(a, longer)'
    <2>1. RowsTrue(a, rows)'
      BY <1>5, <1>7, <1>23, RowsStay
    <2>2. Len(contents) + 1 = Len(rows) + 1 /\ Len(rows) + 1 \in DOMAIN read
      BY <1>7, <1>19
    <2>3. /\ Len(rows) + 1 \in DOMAIN made'[a].contents
          /\ e.name = NameOf(made'[a].files[Len(rows) + 1])
          /\ Unpacked(e.level, e.tag) = made'[a].contents[Len(rows) + 1]
          /\ e.empty => made'[a].contents[Len(rows) + 1] = Empty
      BY <1>8, <1>17, <1>18, <1>19, <2>2
    <2>4. \A i \in DOMAIN longer : i \in DOMAIN rows \/ i = Len(rows) + 1
      BY <1>20
    <2>5. QED
      BY <1>20, <2>1, <2>3, <2>4 DEF RowsTrue
  <1>32. InPlace(blocks, Len(blocks), a, longer)
    <2>1. SUFFICES ASSUME NEW i \in DOMAIN longer, ~longer[i].empty
                   PROVE  /\ longer[i].offset \in 1..Len(blocks)
                          /\ blocks[longer[i].offset] =
                               Seal(Kdf(a), longer[i].nonce, longer[i].tag)
      BY DEF InPlace
    <2>2. CASE i \in DOMAIN rows
      <3>1. /\ rows[i].offset \in 1..Len(front)
            /\ front[rows[i].offset] = Seal(Kdf(a), rows[i].nonce, rows[i].tag)
            /\ longer[i] = rows[i]
        BY <1>7, <1>20, <2>1, <2>2 DEF InPlace
      <3>2. rows[i].offset \in 1..Len(blocks)
        BY <1>22, <3>1
      <3>3. QED
        BY <1>22, <3>1, <3>2
    <2>3. CASE i \notin DOMAIN rows
      <3>1. i = Len(rows) + 1
        BY <1>20, <2>1, <2>3
      <3>2. longer[i] = e /\ ~e.empty
        BY <1>20, <2>1, <3>1
      <3>3. Len(tail) = 1 /\ tail[1] = Seal(Kdf(a), e.nonce, e.tag)
        BY <1>9, <3>2
      <3>4. e.offset \in 1..Len(blocks) /\ e.offset = Len(front) + 1 /\ 1 \in 1..Len(tail)
        BY <1>8, <1>22, <3>3
      <3>5. QED
        BY <1>22, <3>2, <3>3, <3>4
    <2>4. QED
      BY <2>2, <2>3
  <1>33. WriterTrue(writing[w])'
    <2>1. a \in DOMAIN made' /\ made'[a].files = files /\ made'[a].contents = read
      BY <1>5, <1>17, <1>18
    <2>2. Len(read) = Len(longer) /\ Len(longer) <= Len(files)
      BY <1>7, <1>19, <1>20, <1>21
    <2>3. PICK z : z = y /\ z = writing'[w]
      BY <1>29
    <2>4. WriterTrue(z)'
      BY <1>1, <1>7, <1>16, <1>24, <1>25, <1>28, <1>31, <1>32, <2>1, <2>2, <2>3
      DEF WriterTrue
    <2>5. QED
      BY <2>3, <2>4 DEF WriterTrue, RowsTrue
  <1>34. ASSUME NEW v \in Programs, v # w, writing[v] # Idle
         PROVE  /\ WriterTrue(writing[v])'
                /\ writing[v].path # p /\ writing[v].archive # a
    <2>1. /\ writing[v].path \in Paths /\ writing[v].path # p /\ writing[v].archive # a
          /\ writing[v].archive \in DOMAIN made
      BY <1>1, <1>2, <1>3, <1>27, <1>34, WritingFacts DEF IInv, OwnPaths, WriterTrue
    <2>2. QED
      BY <1>1, <1>18, <1>28, <1>29, <1>34, <2>1, WriterStays
  <1>35. OwnPaths'
    BY <1>16, <1>27, <1>29, <1>34 DEF OwnPaths, DiskSafe
  <1>36. AnnouncedOpens'
    BY <1>1, <1>7, <1>28, PromiseStays DEF AnnouncedOpens
  <1>37. DiskSafe'
    BY <1>28, <1>29, <1>33, <1>34, <1>35, <1>36 DEF DiskSafe
  <1>38. ReadSafe'
    <2>1. busy[w] = <<>> /\ Closed \in {Closed} \cup Readers
      BY <1>1 DEF Packing
    <2>2. QED
      BY <1>1, <1>23, <2>1, OneHandle
  <1>39. QED
    BY <1>1, <1>23, <1>30, <1>37, <1>38, AllOutStays, PartsNext

(***************************************************************************)
(* The theorems.                                                            *)
(***************************************************************************)
\* Whatever programs pack, open, unlock and extract, files change, disks fill up
\* and programs die: every image on disk, every writer and every handle agree with
\* what was packed (the inductive invariant; TypeOK is a part of it).
THEOREM ArchiveInvariant == Spec => []IInv
  <1>1. Init => IInv
    BY Initially
  <1>2. IInv /\ [Next]_vars => IInv'
    <2>1. SUFFICES ASSUME IInv, [Next]_vars PROVE IInv'
      OBVIOUS
    <2>2. CASE UNCHANGED vars
      <3>1. UNCHANGED <<disk, writing, handle, busy, out, made, promised>>
        BY <2>2 DEF vars
      <3>2. DiskTypes' /\ DiskSafe' /\ OutSafe'
        BY <2>1, <3>1, DiskStays, AllOutStays
      <3>3. ReadSafe'
        BY <2>1, <3>1, Parts DEF ReadSafe, ReaderTrue, RowsTrue
      <3>4. QED
        BY <3>2, <3>3, PartsNext
    <2>3. ASSUME NEW w \in Programs, Write(w) PROVE IInv'
      BY <2>1, <2>3, BeginStep, PackFileStep, PackMissingStep, FinishStep,
         FinishUnflushedStep, CutStep DEF Write
    <2>4. ASSUME NEW w \in Programs, View(w) PROVE IInv'
      BY <2>1, <2>4, ViewStep, UnlockStep DEF View
    <2>5. ASSUME NEW w \in Programs, Recover(w) PROVE IInv'
      BY <2>1, <2>5, ExtractStep, ExtractFileStep, ExtractFailsStep DEF Recover
    <2>6. QED
      BY <2>1, <2>2, <2>3, <2>4, <2>5 DEF Next, Command, Window, Pack, List, Unpack
  <1>3. QED
    BY <1>1, <1>2, PTL DEF Spec

\* An archive whose table opens at all has a row for every source it was begun
\* with, each with the content read of it and its block in place: a table comes
\* last (kyber_archive_write_finish), and a true image has one only behind all
\* it speaks of.
THEOREM ArchiveCompleteOrRefused == Spec => []CompleteOrRefused
  <1>1. IInv => CompleteOrRefused
    <2>1. SUFFICES ASSUME IInv, NEW p \in Paths, Unlockable(p)
                   PROVE  LET a == disk[p][1].kem.secret
                              rows == Opened(p).mark.rows
                          IN /\ Len(rows) = Len(made[a].files)
                             /\ Len(made[a].contents) = Len(rows)
                             /\ \A i \in DOMAIN rows :
                                  /\ rows[i].name = NameOf(made[a].files[i])
                                  /\ Unpacked(rows[i].level, rows[i].tag) = made[a].contents[i]
                                  /\ \/ rows[i].empty
                                     \/ Opens(disk[p][rows[i].offset], Kdf(a),
                                              rows[i].nonce, rows[i].tag)
      BY DEF CompleteOrRefused
    <2>2. PICK blocks \in Seq(Blocks) : blocks = disk[p] /\ ImageTrue(blocks) /\ blocks # <<>>
      BY <2>1, Parts DEF DiskTypes, DiskSafe, Unlockable, CanOpen
    <2>3. PICK head \in Heads : head = blocks[1]
      BY <2>2 DEF ImageTrue
    <2>4. PICK t \in DOMAIN blocks : t = Len(blocks) - head.count
      <3>1. head.count \in Nat /\ Len(blocks) > head.count
        BY <2>1, <2>2, <2>3, HeadFacts DEF Unlockable, CanOpen
      <3>2. DOMAIN blocks = 1..Len(blocks) /\ Len(blocks) \in Nat
        BY Elements
      <3>3. Len(blocks) - head.count \in 1..Len(blocks)
        BY <3>1, <3>2
      <3>4. QED
        BY <3>2, <3>3
    <2>5. PICK a \in Archives : a = head.kem.secret
      BY HeadFacts
    <2>6. PICK mark \in Blocks : mark = blocks[t] /\ Opened(p).mark = mark
      BY <2>2, <2>3, <2>4, Elements DEF Opened
    <2>7. Table(mark)
      BY <2>1, <2>6 DEF Unlockable, TableOpens, Table
    <2>8. PICK rows \in Seq(Rows) : rows = mark.rows
      BY <2>7, TableIsTag
    <2>9. /\ Len(rows) = Len(made[a].files) /\ Len(made[a].contents) = Len(made[a].files)
          /\ RowsTrue(a, rows) /\ InPlace(blocks, t - 1, a, rows)
      BY <2>2, <2>3, <2>5, <2>6, <2>7, <2>8 DEF ImageTrue
    <2>10. ASSUME NEW i \in DOMAIN rows
           PROVE  /\ rows[i].name = NameOf(made[a].files[i])
                  /\ Unpacked(rows[i].level, rows[i].tag) = made[a].contents[i]
                  /\ \/ rows[i].empty
                     \/ Opens(blocks[rows[i].offset], Kdf(a), rows[i].nonce, rows[i].tag)
      <3>1. rows[i] \in Rows
        BY Elements
      <3>2. Opens(Seal(Kdf(a), rows[i].nonce, rows[i].tag), Kdf(a), rows[i].nonce, rows[i].tag)
        BY <3>1, RowFacts, SealedBlock DEF Opens, Seal
      <3>3. QED
        BY <2>9, <3>2 DEF RowsTrue, InPlace
    <2>11. QED
      BY <2>2, <2>3, <2>5, <2>6, <2>8, <2>9, <2>10
  <1>2. QED
    BY <1>1, ArchiveInvariant, PTL

\* An archive announced as created (cmd_pack, the pack window) is there and opens
\* until something else is written to its path.
THEOREM ArchiveAnnouncedOpens == Spec => []AnnouncedOpens
  <1>1. IInv => AnnouncedOpens
    BY DEF IInv
  <1>2. QED
    BY <1>1, ArchiveInvariant, PTL

\* kyber_archive_extract_file never writes, under any name, bytes that were not
\* packed under that name into the very archive it reads, whatever has become of
\* the file at its path and with whatever key the archive was unlocked since:
\* where its write is cut or loses its end, a beginning of what was packed.
THEOREM ArchiveNeverWrongBytes == Spec => []NeverWrongBytes
  <1>1. IInv => NeverWrongBytes
    BY DEF IInv
  <1>2. QED
    BY <1>1, ArchiveInvariant, PTL
=============================================================================
