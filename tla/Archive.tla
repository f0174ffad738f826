------------------------------ MODULE Archive ------------------------------
(***************************************************************************)
(* The .kyz archive (src/archive.c over src/crypto.c and src/compress.c):    *)
(* programs that pack source files into an archive on disk, block by block,  *)
(* and programs that open, unlock and extract one, while files change, disks *)
(* fill up and programs die.  A window (src/gui.c) packs one file a frame    *)
(* and keeps the handle of what it made or opened; a command (src/cli.c:     *)
(* pack, unpack, list) does one thing and ends.                              *)
(*                                                                         *)
(* Encryption is ideal: what is sealed under a key opens under that key      *)
(* only, and only unchanged.                                                 *)
(***************************************************************************)
EXTENDS Naturals, Sequences, FiniteSets

CONSTANTS
  Programs,    \* running copies of kyber-gui and kyber-cli
  Windows,     \* those of them that are windows
  Sources,     \* files a user may pack
  Stagings,    \* the sequences of sources packed together
  NameOf(_),   \* the name a source gets in the archive
  Contents,    \* contents of files
  Empty,       \* the content of an empty file
  Keys,        \* key pairs
  ParamOf(_),  \* KyberParamSet of a key pair
  LevelOf(_),  \* compression level a program packs with
  None,        \* no content
  Paths,       \* places for archives on disk
  MaxArchives  \* bound on the archives created

Garbage == 0  \* the secret that decapsulation with a wrong key yields

Names == {NameOf(f) : f \in Sources}
Archives == 1..MaxArchives

ASSUME ArchiveAssumption ==
  /\ Windows \subseteq Programs
  /\ Empty \in Contents /\ None \notin Contents
  /\ MaxArchives \in Nat
  /\ Stagings \subseteq Seq(Sources)

VARIABLES
  disk,     \* the archives on disk, a sequence of blocks each
  writing,  \* per program: the KyberArchive being written
  handle,   \* per program: the KyberArchive open for reading
  busy,     \* per program: the entries it has still to extract
  out,      \* the folder extracted into: what a name has, and of which archive
  (*************************************************************************)
  (* Observability variables                                               *)
  (*************************************************************************)
  made,     \* per archive: the sources to pack and the contents read so far
  promised  \* per path: the archive announced as created there, 0 for none

vars == <<disk, writing, handle, busy, out, made, promised>>

(***************************************************************************)
(* crypto.c and compress.c.                                                  *)
(***************************************************************************)
\* kyber_sym_encrypt; the tag stands for what was sealed.
Seal(sym, nonce, plain) == [sym |-> sym, nonce |-> nonce, plain |-> plain]
\* kyber_sym_decrypt: whether cell opens under sym with this nonce and tag.
Opens(cell, sym, nonce, tag) ==
  "plain" \in DOMAIN cell /\ cell = Seal(sym, nonce, tag)

\* kyber_encaps for the key pair k: a, the number of the archive, stands for the
\* shared secret, drawn anew for each.
Encapsulated(a, k) == [secret |-> a, key |-> k]

\* kyber_decaps: any key of the same parameter set yields a secret, the right
\* one only the recipient's.
Decapsulated(kem, k) == IF kem.key = k THEN kem.secret ELSE Garbage

\* kyber_kdf: the key archive contents are sealed with.
Kdf(secret) == [kdf |-> secret]

\* kyber_compress, and kyber_decompress, which inverts it at the same level.
Packed(level, content) == [level |-> level, content |-> content]
Unpacked(level, data) == IF data.level = level THEN data.content ELSE None

(***************************************************************************)
(* Layout of the file: header with KEM ciphertext, the sealed contents of    *)
(* the files that are not empty, nonce and tag of the table, its rows.       *)
(***************************************************************************)
Header(a, k, n) == [kem |-> Encapsulated(a, k), count |-> n]
TableTag(a, rows) == [sym |-> Kdf(a), rows |-> rows]
Row(sym, row) == Seal(sym, 0, row)

\* Mutant of TableBlocks: empty files get no row.
TableBlocksDense(a, rows) ==
  <<TableTag(a, rows)>> \o [i \in 1..Cardinality({j \in DOMAIN rows : ~rows[j].empty}) |-> Row(Kdf(a), rows[i])]

TableBlocks(a, rows) ==
  <<TableTag(a, rows)>> \o [i \in 1..Len(rows) |-> Row(Kdf(a), rows[i])]

Idle == [pc |-> "idle"]
Closed == [state |-> "closed"]
Prefixes(blocks) == {SubSeq(blocks, 1, n) : n \in 0..Len(blocks)}
Proper(blocks) == Prefixes(blocks) \ {blocks}

Levels == {LevelOf(w) : w \in Programs}
Packs == [level : Levels, content : Contents]
Rows == [name : Names, empty : BOOLEAN, offset : Nat, nonce : Nat, tag : Packs, level : Levels]
\* What is on disk of a file whose writing was cut anywhere.
Beginning(content) == [part |-> content]
Bytes == Contents \cup {Beginning(c) : c \in Contents}

Syms == [kdf : Archives \cup {Garbage}]

Heads == [kem : [secret : Archives, key : Keys], count : Nat]
Cells == [sym : Syms, nonce : Nat, plain : Packs \cup Rows]
Tags == [sym : Syms, rows : Seq(Rows)]
Blocks == Heads \cup Cells \cup Tags

Writers ==
  [pc : {"packing"}, archive : Archives, key : Keys, path : Paths,
   files : Seq(Sources), rows : Seq(Rows)]
Readers ==
  [state : {"opened", "unlocked"}, path : Paths, head : Heads, mark : Blocks,
   sym : Syms, rows : Seq(Rows)]

TypeOK ==
  /\ disk \in [Paths -> Seq(Blocks)]
  /\ writing \in [Programs -> {Idle} \cup Writers]
  /\ handle \in [Programs -> {Closed} \cup Readers]
  /\ busy \in [Programs -> Seq(Nat)]
  /\ out \in [Names -> {None} \cup [archive : Archives, content : Bytes]]
  /\ made \in Seq([files : Seq(Sources), contents : Seq(Contents)])
  /\ Len(made) <= MaxArchives
  /\ promised \in [Paths -> Archives \cup {0}]

Init ==
  /\ disk = [p \in Paths |-> <<>>]
  /\ writing = [w \in Programs |-> Idle]
  /\ handle = [w \in Programs |-> Closed]
  /\ busy = [w \in Programs |-> <<>>]
  /\ out = [n \in Names |-> None]
  /\ made = <<>>
  /\ promised = [p \in Paths |-> 0]

(***************************************************************************)
(* Packing.                                                                  *)
(***************************************************************************)
\* kyber_archive_create for the recipient k.
Created(a, k, p) ==
  [pc |-> "packing", archive |-> a, key |-> k, path |-> p, files |-> <<>>, rows |-> <<>>]

\* kyber_archive_add_file for every file, and every file below a folder.
Staged(x, files) == [x EXCEPT !.files = @ \o files]

\* kyber_archive_write_begin of what was staged.  The table length in the header is the final one.
\* Nobody writes to a path an archive is being written to.
Begin(w, p, k, files) ==
  /\ writing[w] = Idle
  /\ busy[w] = <<>>
  /\ w \notin Windows => handle[w] = Closed
  /\ Len(made) < MaxArchives
  /\ \A v \in Programs : writing[v] # Idle => writing[v].path # p
  /\ LET a == Len(made) + 1
     IN /\ made' = Append(made, [files |-> files, contents |-> <<>>])
        /\ disk' = [disk EXCEPT ![p] = <<Header(a, k, Len(files))>>]
        /\ writing' = [writing EXCEPT ![w] =
             Staged(Created(a, k, p), files)]
        /\ promised' = [promised EXCEPT ![p] = 0]
  /\ UNCHANGED <<handle, busy, out>>

Upcoming(w) == writing[w].files[Len(writing[w].rows) + 1]
Packing(w) == busy[w] = <<>> /\ writing[w] # Idle /\ Len(writing[w].rows) < Len(writing[w].files)
AllPacked(w) == busy[w] = <<>> /\ writing[w] # Idle /\ Len(writing[w].rows) = Len(writing[w].files)

\* The entry process_file fills in, with the content it read.
Entry(w, c) ==
  [name |-> NameOf(Upcoming(w)), empty |-> c = Empty,
   offset |-> Len(disk[writing[w].path]) + 1,
   nonce |-> Len(writing[w].rows) + 1,
   tag |-> Packed(LevelOf(w), c), level |-> LevelOf(w)]

\* The block process_file writes: none for an empty file.
Sealed(w, e) == IF e.empty THEN <<>> ELSE <<Seal(Kdf(writing[w].archive), e.nonce, e.tag)>>

\* process_file of the next source.  Users edit their files at any time: c is
\* whatever it finds.
PackFile(w, c) ==
  /\ Packing(w)
  /\ LET e == Entry(w, c)
     IN /\ writing' = [writing EXCEPT ![w].rows = Append(@, e)]
        /\ disk' = [disk EXCEPT ![writing[w].path] = @ \o Sealed(w, e)]
        /\ made' = [made EXCEPT ![writing[w].archive].contents = Append(@, c)]
  /\ UNCHANGED <<handle, busy, out, promised>>

\* Mutant of PackMissing: a source that is gone is left out, the rest is packed.
PackMissingSkipped(w) ==
  /\ Packing(w)
  /\ writing' = [writing EXCEPT ![w].rows = Append(@,
       [name |-> None, empty |-> TRUE, offset |-> 1, nonce |-> 0,
        tag |-> Packed(LevelOf(w), Empty), level |-> LevelOf(w)])]
  /\ UNCHANGED <<disk, handle, busy, out, made, promised>>

\* The source is gone: packing stops with an error, what was written stays.
PackMissing(w) ==
  /\ Packing(w)
  /\ writing' = [writing EXCEPT ![w] = Idle]
  /\ UNCHANGED <<disk, handle, busy, out, made, promised>>

\* The handle kyber_archive_write_finish leaves: a window shows it at once.
Finished(w) ==
  LET x == writing[w]
  IN [state |-> "unlocked", path |-> x.path, head |-> Header(x.archive, x.key, Len(x.files)),
      mark |-> TableTag(x.archive, x.rows), sym |-> Kdf(x.archive), rows |-> x.rows]

\* What the last step has yet to write.
Rest(w) == disk[writing[w].path] \o TableBlocks(writing[w].archive, writing[w].rows)

Finish(w) ==
  /\ AllPacked(w)
  /\ disk' = [disk EXCEPT ![writing[w].path] = Rest(w)]
  /\ promised' = [promised EXCEPT ![writing[w].path] = writing[w].archive]
  /\ writing' = [writing EXCEPT ![w] = Idle]
  /\ handle' = IF w \in Windows THEN [handle EXCEPT ![w] = Finished(w)] ELSE handle
  /\ UNCHANGED <<busy, out, made>>

\* The same, but what fclose still had to write is lost, which nobody checks.
FinishUnflushed(w) ==
  /\ AllPacked(w)
  /\ \E blocks \in Proper(Rest(w)) : disk' = [disk EXCEPT ![writing[w].path] = blocks]
  /\ writing' = [writing EXCEPT ![w] = Idle]
  /\ handle' = IF w \in Windows THEN [handle EXCEPT ![w] = Finished(w)] ELSE handle
  /\ UNCHANGED <<busy, out, made, promised>>

\* The disk is full, or the program dies: any part of what it wrote is on disk.
Cut(w) ==
  /\ writing[w] # Idle
  /\ busy[w] = <<>>
  /\ \E blocks \in (IF AllPacked(w) THEN Proper(Rest(w)) ELSE Prefixes(disk[writing[w].path])) :
       disk' = [disk EXCEPT ![writing[w].path] = blocks]
  /\ writing' = [writing EXCEPT ![w] = Idle]
  /\ UNCHANGED handle \/ handle' = [handle EXCEPT ![w] = Closed]
  /\ UNCHANGED <<busy, out, made, promised>>

(***************************************************************************)
(* Reading.                                                                  *)
(***************************************************************************)
\* kyber_archive_open: the header, then nonce and tag of the table, counted
\* from the end of the file.
Opened(p) ==
  LET blocks == disk[p]
  IN [state |-> "opened", path |-> p, head |-> blocks[1],
      mark |-> blocks[Len(blocks) - blocks[1].count], sym |-> Kdf(Garbage), rows |-> <<>>]

CanOpen(p) == disk[p] # <<>> /\ Len(disk[p]) > disk[p][1].count

Open(w, p) ==
  /\ busy[w] = <<>>
  /\ w \notin Windows => writing[w] = Idle
  /\ handle' = [handle EXCEPT ![w] = IF CanOpen(p) THEN Opened(p) ELSE Closed]
  /\ UNCHANGED <<disk, writing, busy, out, made, promised>>

\* The window closes its archive, a command ends.
Close(w) ==
  /\ busy[w] = <<>>
  /\ handle[w] # Closed
  /\ handle' = [handle EXCEPT ![w] = Closed]
  /\ UNCHANGED <<disk, writing, busy, out, made, promised>>

\* Whether the last blocks of the file are the table the tag read by
\* kyber_archive_open belongs to.
TableOpens(blocks, h, sym) ==
  LET n == h.head.count
  IN /\ Len(blocks) >= n
     /\ "rows" \in DOMAIN h.mark
     /\ h.mark.sym = sym
     /\ Len(h.mark.rows) = n
     /\ \A i \in 1..n : blocks[Len(blocks) - n + i] = Row(sym, h.mark.rows[i])

\* kyber_archive_unlock.  A key of another parameter set is refused before
\* anything changes; any other replaces sym_key, also when the table then does
\* not open, and entries of an earlier unlock stay.
Unlock(w, k) ==
  /\ handle[w] # Closed
  /\ busy[w] = <<>>
  /\ ParamOf(k) = ParamOf(handle[w].head.kem.key)
  /\ LET sym == Kdf(Decapsulated(handle[w].head.kem, k))
         opens == TableOpens(disk[handle[w].path], handle[w], sym)
     IN handle' = [handle EXCEPT ![w].sym = sym,
                                 ![w].rows = IF opens THEN handle[w].mark.rows ELSE @,
                                 ![w].state = IF opens THEN "unlocked" ELSE @]
  /\ UNCHANGED <<disk, writing, busy, out, made, promised>>

\* Decrypt, Extract All and unpack extract every entry, Extract File one.
Extract(w, entries) ==
  /\ handle[w] # Closed
  /\ handle[w].state = "unlocked"
  /\ busy[w] = <<>>
  /\ busy' = [busy EXCEPT ![w] = entries]
  /\ UNCHANGED <<disk, writing, handle, out, made, promised>>

ExtractAll(w) == handle[w] # Closed /\ Extract(w, [i \in DOMAIN handle[w].rows |-> i])
ExtractOne(w) == w \in Windows /\ handle[w] # Closed /\ \E i \in DOMAIN handle[w].rows : Extract(w, <<i>>)

\* Mutant of Content: the block is found by its place, its seal is not looked at.
ContentUnchecked(w) ==
  LET e == handle[w].rows[busy[w][1]]
      blocks == disk[handle[w].path]
  IN IF e.empty THEN Empty
     ELSE IF e.offset <= Len(blocks) /\ "plain" \in DOMAIN blocks[e.offset]
          THEN IF "content" \in DOMAIN blocks[e.offset].plain
               THEN Unpacked(e.level, blocks[e.offset].plain) ELSE None
          ELSE None

\* What kyber_archive_extract_file recovers from the file now at the path; an
\* empty file needs no reading.
Content(w) ==
  LET e == handle[w].rows[busy[w][1]]
      blocks == disk[handle[w].path]
  IN IF e.empty THEN Empty
     ELSE IF e.offset <= Len(blocks) /\ Opens(blocks[e.offset], handle[w].sym, e.nonce, e.tag)
          THEN Unpacked(e.level, e.tag)
          ELSE None

\* fopen of "wb", which truncates, and what was written before fclose or the end
\* of the program.
Put(w, bytes) ==
  out' = [out EXCEPT ![handle[w].rows[busy[w][1]].name] =
            [archive |-> handle[w].head.kem.secret, content |-> bytes]]

\* kyber_archive_extract_file, then the next one; the first error ends it.
ExtractFile(w) ==
  /\ busy[w] # <<>>
  /\ Content(w) # None
  /\ Put(w, Content(w))
  /\ busy' = [busy EXCEPT ![w] = Tail(@)]
  /\ UNCHANGED <<disk, writing, handle, made, promised>>

\* The same, but what fclose still had to write is lost, which nobody checks.
ExtractUnflushed(w) ==
  /\ busy[w] # <<>>
  /\ Content(w) \notin {None, Empty}
  /\ Put(w, Beginning(Content(w)))
  /\ busy' = [busy EXCEPT ![w] = Tail(@)]
  /\ UNCHANGED <<disk, writing, handle, made, promised>>

\* fwrite fails, or the program is killed: what it wrote of the file stays, over
\* what was there.  A program killed loses its handle next (Close, Cut).
ExtractCut(w) ==
  /\ busy[w] # <<>>
  /\ Content(w) \notin {None, Empty}
  /\ Put(w, Beginning(Content(w)))
  /\ busy' = [busy EXCEPT ![w] = <<>>]
  /\ UNCHANGED <<disk, writing, handle, made, promised>>

\* Nothing is written: the block does not open, the output cannot be opened, or
\* the program is killed before.
ExtractFails(w) ==
  /\ busy[w] # <<>>
  /\ busy' = [busy EXCEPT ![w] = <<>>]
  /\ UNCHANGED <<disk, writing, handle, out, made, promised>>

Write(w) ==
  \/ \E p \in Paths, k \in Keys, files \in Stagings : Begin(w, p, k, files)
  \/ \E c \in Contents : PackFile(w, c)
  \/ PackMissing(w) \/ Finish(w) \/ FinishUnflushed(w) \/ Cut(w)

View(w) == Close(w) \/ (\E p \in Paths : Open(w, p)) \/ (\E k \in Keys : Unlock(w, k))

Recover(w) ==
  \/ ExtractAll(w) \/ ExtractOne(w)
  \/ ExtractFile(w) \/ ExtractUnflushed(w) \/ ExtractCut(w) \/ ExtractFails(w)

\* Of the commands, pack writes, list views, and unpack views and recovers.
Pack(w) == w \notin Windows /\ Write(w)
List(w) == w \notin Windows /\ View(w)
Unpack(w) == w \notin Windows /\ Recover(w)
Command(w) == Pack(w) \/ List(w) \/ Unpack(w)

Window(w) == w \in Windows /\ (Write(w) \/ View(w) \/ Recover(w))

Next == \E w \in Programs : Command(w) \/ Window(w)

Spec == Init /\ [][Next]_vars

Unlockable(p) == CanOpen(p) /\ TableOpens(disk[p], Opened(p), Kdf(disk[p][1].kem.secret))

\* Whatever was interrupted, an archive that can be unlocked at all is whole: a
\* row for every source it was begun with, in order, each with the content
\* that was read, and the blocks the rows point at all in place.
CompleteOrRefused ==
  \A p \in Paths : Unlockable(p) =>
    LET a == disk[p][1].kem.secret
        rows == Opened(p).mark.rows
    IN /\ Len(rows) = Len(made[a].files)
       /\ Len(made[a].contents) = Len(rows)
       /\ \A i \in DOMAIN rows :
            /\ rows[i].name = NameOf(made[a].files[i])
            /\ Unpacked(rows[i].level, rows[i].tag) = made[a].contents[i]
            /\ rows[i].empty \/ Opens(disk[p][rows[i].offset], Kdf(a), rows[i].nonce, rows[i].tag)

\* "Archive created" is true, the loss of what fclose still had to write apart:
\* the archive announced at a path is there and can be unlocked, until something
\* else is written to that path.
AnnouncedOpens ==
  \A p \in Paths : promised[p] # 0 => Unlockable(p) /\ disk[p][1].kem.secret = promised[p]

\* A file extracted under a name has the content one of the sources of that
\* name had when it was packed into that very archive, or where the write was cut
\* or lost its end a beginning of it: never other bytes, even when the archive
\* opened was overwritten or cut since, or was unlocked again with another key.
NeverWrongBytes ==
  \A n \in Names : out[n] # None =>
    \E i \in DOMAIN made[out[n].archive].contents :
      /\ NameOf(made[out[n].archive].files[i]) = n
      /\ LET content == made[out[n].archive].contents[i]
         IN out[n].content \in {content, Beginning(content)}

-----------------------------------------------------------------------------
(* The inductive invariant the proofs rest on (ArchiveProofs). *)

\* Every row is of a source of archive a and of the content that was read of it.
RowsTrue(a, rows) ==
  \A i \in DOMAIN rows :
    /\ i \in DOMAIN made[a].contents
    /\ rows[i].name = NameOf(made[a].files[i])
    /\ Unpacked(rows[i].level, rows[i].tag) = made[a].contents[i]
    /\ rows[i].empty => made[a].contents[i] = Empty

\* The blocks the rows point at are among the first n.
InPlace(blocks, n, a, rows) ==
  \A i \in DOMAIN rows :
    \/ rows[i].empty
    \/ /\ rows[i].offset \in 1..n
       /\ blocks[rows[i].offset] = Seal(Kdf(a), rows[i].nonce, rows[i].tag)

Table(block) == "rows" \in DOMAIN block

\* A table is only ever in an image behind everything it speaks of, and only of
\* an archive all of whose sources were packed.
ImageTrue(blocks) ==
  blocks # <<>> =>
    /\ blocks[1] \in Heads
    /\ LET a == blocks[1].kem.secret
       IN /\ a \in DOMAIN made
          /\ \A t \in DOMAIN blocks : Table(blocks[t]) =>
               /\ Len(blocks[t].rows) = Len(made[a].files)
               /\ Len(made[a].contents) = Len(made[a].files)
               /\ RowsTrue(a, blocks[t].rows)
               /\ InPlace(blocks, t - 1, a, blocks[t].rows)

\* An archive being written has no table yet, and is promised to nobody.
WriterTrue(x) ==
  LET blocks == disk[x.path]
  IN /\ x.archive \in DOMAIN made
     /\ made[x.archive].files = x.files
     /\ Len(made[x.archive].contents) = Len(x.rows)
     /\ Len(x.rows) <= Len(x.files)
     /\ RowsTrue(x.archive, x.rows)
     /\ blocks # <<>>
     /\ blocks[1] = Header(x.archive, x.key, Len(x.files))
     /\ \A t \in DOMAIN blocks : ~Table(blocks[t])
     /\ InPlace(blocks, Len(blocks), x.archive, x.rows)
     /\ promised[x.path] = 0

\* Each writer has a path and an archive of its own.
OwnPaths ==
  \A v, w \in Programs : v # w /\ writing[v] # Idle /\ writing[w] # Idle =>
    writing[v].path # writing[w].path /\ writing[v].archive # writing[w].archive

\* What a handle holds, of whatever the file at its path was, stays true.
ReaderTrue(h) ==
  /\ h.head.kem.secret \in DOMAIN made
  /\ Table(h.mark) => RowsTrue(h.head.kem.secret, h.mark.rows)
  /\ RowsTrue(h.head.kem.secret, h.rows)

IInv ==
  /\ TypeOK
  /\ \A p \in Paths : ImageTrue(disk[p])
  /\ \A w \in Programs : writing[w] # Idle => WriterTrue(writing[w])
  /\ OwnPaths
  /\ \A w \in Programs : handle[w] # Closed => ReaderTrue(handle[w])
  /\ \A w \in Programs : busy[w] # <<>> =>
       handle[w] # Closed /\ \A j \in DOMAIN busy[w] : busy[w][j] \in DOMAIN handle[w].rows
  /\ \A n \in Names : out[n] # None => out[n].archive \in DOMAIN made
  /\ NeverWrongBytes
  /\ AnnouncedOpens
=============================================================================
