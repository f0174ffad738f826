----------------------------- MODULE Keystore ------------------------------
(***************************************************************************)
(* The key file and the list of verified fingerprints (src/keystore.c), as   *)
(* the programs of the desktop use them: the window (src/gui.c, key manager) *)
(* loads both once and keeps its copy, every command (src/cli.c: keygen,     *)
(* keys, verify, pack, watch) loads them anew.  Each changes its copy and    *)
(* saves it whole over the file, with no lock and no temporary file.         *)
(***************************************************************************)
EXTENDS Naturals, FiniteSets, Sequences, Dialogs

CONSTANTS
  Programs,    \* running copies of kyber-gui and kyber-cli
  Windows,     \* those of them that are windows
  Labels,      \* names of keys
  Own,         \* keys this user may generate
  Foreign,     \* public keys of others, handed over as files
  Genuine,     \* keys that belong to whom they are said to
  KeyFiles,    \* key files at hand in the beginning
  Torn,        \* entries that parts of several may read as, of keys nobody has
  MaxKeys,     \* KYBER_MAX_KEYS
  MaxVerified, \* KYBER_MAX_VERIFIED
  MaxLines     \* bound on the lines of verified.txt

Keys == Own \cup Foreign
Entry == [label : Labels, key : Keys, secret : BOOLEAN]

ASSUME KeystoreAssumption ==
  /\ Windows \subseteq Programs
  /\ Genuine \subseteq Keys
  /\ KeyFiles \subseteq Entry
  /\ Torn \subseteq Entry /\ \A e \in Torn : e.key \notin Own \cup Genuine
  /\ MaxKeys \in Nat /\ MaxVerified \in Nat /\ MaxLines \in Nat

VARIABLES
  file,        \* keystore.dat: the count in its head and the entries that follow
  verifiedTxt, \* verified.txt: one fingerprint a line
  keyFiles,    \* .pub and .kyp files
  mem,         \* the Keystore of each program: entries and verified fingerprints
  pc,          \* off, idle or saving
  written,     \* while programs save: who may have written to the file since it
               \* was last truncated, and what
  (*************************************************************************)
  (* Observability variables                                               *)
  (*************************************************************************)
  stale,       \* another program finished a save since this one loaded
  kept         \* secret keys stored and neither deleted nor exposed to a cut
               \* save, to saves at one time, or to the save of a stale copy

files == <<file, verifiedTxt, keyFiles>>
history == <<stale, kept>>
vars == <<files, mem, pc, written, history>>

\* A program that is not running, or an empty Keystore.
Gone == [entries |-> <<>>, verified |-> <<>>]

RangeOf(s) == {s[i] : i \in DOMAIN s}
SecretsOf(entries) ==
  {entries[i].key : i \in {j \in DOMAIN entries : entries[j].secret}}

(***************************************************************************)
(* Pure operations of keystore.c and crypto.c.                               *)
(***************************************************************************)
\* kyber_fingerprint: 80 bits of a hash, taken to tell keys apart.
Fingerprint(k) == <<"fingerprint", k>>
Fingerprints == {Fingerprint(k) : k \in Keys}

\* Mutant of Image: the loop of keystore_save ends one entry early.
ImageShort(entries) ==
  [count |-> Len(entries) - (IF Len(entries) > 0 THEN 1 ELSE 0), entries |-> entries]

\* What keystore_save writes.
Image(entries) == [count |-> Len(entries), entries |-> entries]

\* Every file a save that is interrupted, or that meets a full disk, leaves:
\* nothing, or the head and the first entries.
CutImages(entries) ==
  {[count |-> 1, entries |-> <<>>]} \cup
  {[count |-> Len(entries), entries |-> SubSeq(entries, 1, n)] : n \in 0..(Len(entries) - 1)}

\* Every file that saves at one time may leave or show: each writes its blocks
\* at its own place in the file, unlocked, so the count is that of one of them or
\* not written yet, and an entry has the key of one of them, with its secret part
\* if it has one, and the name of one, or is torn.
Mixed(writers) ==
  LET pieces == UNION {RangeOf(w.entries) : w \in writers}
      mixed == {[e EXCEPT !.label = f.label] : e, f \in pieces} \cup Torn
      counts == {0} \cup {Len(w.entries) : w \in writers}
  IN UNION {[count : {c}, entries : UNION {[1..n -> mixed] : n \in 0..c}] : c \in counts}

\* fopen of "wb": a file of no bytes is one whose count cannot be read.
Truncated == [count |-> 1, entries |-> <<>>]

\* keystore_open: what is in memory afterwards, also when it fails.
Entries(image) ==
  SubSeq(image.entries, 1, IF image.count <= Len(image.entries)
                           THEN image.count ELSE Len(image.entries))
Readable(image) == image.count <= Len(image.entries)

\* load_verified: the first KYBER_MAX_VERIFIED lines.
LoadVerified == SubSeq(verifiedTxt, 1, IF Len(verifiedTxt) <= MaxVerified
                                       THEN Len(verifiedTxt) ELSE MaxVerified)

\* keystore_find: the first entry of that name, if there is one.
Find(entries, l) ==
  {i \in DOMAIN entries : /\ entries[i].label = l
                         /\ \A j \in 1..(i - 1) : entries[j].label # l}

\* Mutant of IsVerified: trust goes by the name of the key.
IsVerifiedByLabel(ks, i) ==
  \E j \in DOMAIN ks.entries :
    /\ ks.entries[j].label = ks.entries[i].label
    /\ Fingerprint(ks.entries[j].key) \in RangeOf(ks.verified)

IsVerified(ks, i) == Fingerprint(ks.entries[i].key) \in RangeOf(ks.verified)

\* keystore_remove: the entries behind it move up.
Without(entries, i) ==
  [j \in 1..(Len(entries) - 1) |-> IF j < i THEN entries[j] ELSE entries[j + 1]]

(***************************************************************************)
(* Initial states: no key file yet, nothing marked, no program running.     *)
(***************************************************************************)
Init ==
  /\ file = Image(<<>>)
  /\ verifiedTxt = <<>>
  /\ keyFiles = KeyFiles
  /\ mem = [p \in Programs |-> Gone]
  /\ pc = [p \in Programs |-> "off"]
  /\ written = {}
  /\ stale = [p \in Programs |-> FALSE]
  /\ kept = {}

Exit(p) ==
  /\ pc[p] = "idle"
  /\ pc' = [pc EXCEPT ![p] = "off"]
  /\ mem' = [mem EXCEPT ![p] = Gone]
  /\ UNCHANGED <<files, written, history>>

\* The file as fopen and fread find it: while others save, any part of what they
\* write, and when they are several, any mixture.
Seen ==
  {file} \cup (UNION {CutImages(w.entries) : w \in written})
         \cup (IF \A v, w \in written : v = w THEN {} ELSE Mixed(written))

Loaded(p, entries, verified) ==
  /\ mem' = [mem EXCEPT ![p] = [entries |-> entries, verified |-> verified]]
  /\ pc' = [pc EXCEPT ![p] = "idle"]
  /\ stale' = [stale EXCEPT ![p] = FALSE]
  /\ UNCHANGED <<files, written, kept>>

\* keystore_init of a program that starts.
Start(p) ==
  /\ pc[p] = "off"
  /\ \E image \in Seen : Readable(image) /\ Loaded(p, Entries(image), LoadVerified)

\* A key file that ends early: commands stop, the window goes on with the
\* entries read so far and with no verified fingerprints.
StartUnreadable(p) ==
  /\ pc[p] = "off"
  /\ p \in Windows
  /\ \E image \in Seen : ~Readable(image) /\ Loaded(p, Entries(image), <<>>)

(***************************************************************************)
(* keystore_save.                                                            *)
(***************************************************************************)
Writer(p, entries) == [by |-> p, entries |-> entries]

\* The change of the copy in memory and the fopen of keystore_save, which
\* truncates the file.
BeginSave(p, entries) ==
  /\ file' = Truncated
  /\ mem' = [mem EXCEPT ![p].entries = entries]
  /\ pc' = [pc EXCEPT ![p] = "saving"]
  /\ written' = {Writer(p, entries)}
               \cup {Writer(q, mem[q].entries) : q \in {r \in Programs : pc[r] = "saving"}}
  /\ UNCHANGED <<verifiedTxt, keyFiles, stale>>

\* The file cannot be opened: a command stops with an error, the window ignores
\* it and goes on with its changed copy.
SaveRefused(p, entries) ==
  /\ mem' = [mem EXCEPT ![p] = IF p \in Windows THEN [@ EXCEPT !.entries = entries] ELSE Gone]
  /\ pc' = [pc EXCEPT ![p] = IF p \in Windows THEN "idle" ELSE "off"]
  /\ UNCHANGED <<files, written, stale>>

Store(p, entries) == BeginSave(p, entries) \/ SaveRefused(p, entries)

\* After a save the window goes on and a command ends.
Done(p) ==
  /\ pc' = [pc EXCEPT ![p] = IF p \in Windows THEN "idle" ELSE "off"]
  /\ mem' = [mem EXCEPT ![p] = IF p \in Windows THEN @ ELSE Gone]

\* Nothing but what p writes can be in the file.
Unmixed(p) == written = {Writer(p, mem[p].entries)}

\* fclose: the file is closed, and the copies others loaded are older than it.
Closed(p) ==
  /\ pc[p] = "saving"
  /\ written' = IF \E q \in Programs \ {p} : pc[q] = "saving" THEN written ELSE {}
  /\ stale' = [q \in Programs |-> q # p]
  /\ UNCHANGED <<verifiedTxt, keyFiles>>

EndSave(p) ==
  /\ Closed(p)
  /\ Done(p)
  /\ \/ /\ Unmixed(p)
        /\ file' = Image(mem[p].entries)
        /\ kept' = SecretsOf(mem[p].entries) \cup (IF stale[p] THEN {} ELSE kept)
     \/ /\ ~Unmixed(p)
        /\ file' \in Mixed(written)
        /\ kept' = {}

\* The program is killed in the middle, or the disk is full, which no
\* fwrite of keystore_save checks.
CutSave(p) ==
  /\ Closed(p)
  /\ file' \in IF Unmixed(p) THEN CutImages(mem[p].entries) ELSE Mixed(written)
  /\ \/ Done(p)
     \/ /\ pc' = [pc EXCEPT ![p] = "off"]
        /\ mem' = [mem EXCEPT ![p] = Gone]
  /\ kept' = {}

(***************************************************************************)
(* The commands and buttons that change the entries.                         *)
(***************************************************************************)
KeysOf(entries) == {entries[i].key : i \in DOMAIN entries}

\* kyber_keygen: a key pair nobody has.
Fresh(k) ==
  /\ k \in Own
  /\ k \notin KeysOf(file.entries) \cup UNION {KeysOf(mem[q].entries) : q \in Programs}
  /\ \A f \in keyFiles : f.key # k

\* keystore_generate, then keystore_save: no name is refused.
Generate(p, l, k) ==
  /\ pc[p] = "idle"
  /\ Len(mem[p].entries) < MaxKeys
  /\ Fresh(k)
  /\ Store(p, Append(mem[p].entries, [label |-> l, key |-> k, secret |-> TRUE]))
  /\ UNCHANGED kept

\* Mutant of Import: the room is checked for one entry more than there is.
ImportOneMore(p, f) ==
  /\ pc[p] = "idle"
  /\ p \in Windows
  /\ f \in keyFiles
  /\ Len(mem[p].entries) <= MaxKeys
  /\ Store(p, Append(mem[p].entries, f))
  /\ UNCHANGED kept

\* Import Public takes the secret of a keypair file too; Import Keypair
\* refuses a file without one.
Import(p, f) ==
  /\ pc[p] = "idle"
  /\ p \in Windows
  /\ f \in keyFiles
  /\ Len(mem[p].entries) < MaxKeys
  /\ Store(p, Append(mem[p].entries, f))
  /\ UNCHANGED kept

\* keys --remove, by name.
RemoveLabel(p, l) ==
  /\ pc[p] = "idle"
  /\ p \notin Windows
  /\ \E i \in Find(mem[p].entries, l) :
       /\ Store(p, Without(mem[p].entries, i))
       /\ kept' = kept \ {mem[p].entries[i].key}

\* Delete of a row of the key manager.
Delete(p, i) ==
  /\ pc[p] = "idle"
  /\ p \in Windows
  /\ i \in DOMAIN mem[p].entries
  /\ Store(p, Without(mem[p].entries, i))
  /\ kept' = kept \ {mem[p].entries[i].key}

(***************************************************************************)
(* Export, and the marks.                                                    *)
(***************************************************************************)
\* Export Public and Export Keypair, under any file name.
Export(p, i, l, secret) ==
  /\ pc[p] = "idle"
  /\ p \in Windows
  /\ i \in DOMAIN mem[p].entries
  /\ secret => mem[p].entries[i].secret
  /\ keyFiles' = keyFiles \cup {[label |-> l, key |-> mem[p].entries[i].key, secret |-> secret]}
  /\ UNCHANGED <<file, verifiedTxt, mem, pc, written, history>>

\* The set in memory after keystore_mark_verified: a full one stays as it is.
Marked(ks, fp) ==
  IF Len(ks.verified) < MaxVerified THEN Append(ks.verified, fp) ELSE ks.verified

\* keystore_mark_verified of a key not yet in the set.
Mark(p, i) ==
  LET fp == Fingerprint(mem[p].entries[i].key)
  IN /\ ~IsVerified(mem[p], i)
     /\ Len(verifiedTxt) < MaxLines
     /\ mem' = [mem EXCEPT ![p].verified = Marked(mem[p], fp)]
     /\ verifiedTxt' = Append(verifiedTxt, fp)

\* Mark Verified of the key manager: the user has compared the fingerprint
\* shown for the selected key with the owner's.
MarkShown(p, i) ==
  /\ pc[p] = "idle"
  /\ p \in Windows
  /\ i \in DOMAIN mem[p].entries
  /\ mem[p].entries[i].key \in Genuine
  /\ Mark(p, i)
  /\ UNCHANGED <<file, keyFiles, pc, written, history>>

\* verified.txt cannot be opened: the key counts as verified until the window
\* closes, and nobody is told.
MarkUnwritten(p, i) ==
  /\ pc[p] = "idle"
  /\ p \in Windows
  /\ i \in DOMAIN mem[p].entries
  /\ mem[p].entries[i].key \in Genuine
  /\ ~IsVerified(mem[p], i)
  /\ mem' = [mem EXCEPT ![p].verified = Marked(mem[p], Fingerprint(mem[p].entries[i].key))]
  /\ UNCHANGED <<files, pc, written, history>>

\* verify <label> <fingerprint>, with the fingerprint its owner gave.
Verify(p, l, expected) ==
  /\ pc[p] = "idle"
  /\ p \notin Windows
  /\ \E i \in Find(mem[p].entries, l) :
       /\ Fingerprint(mem[p].entries[i].key) = expected
       /\ Mark(p, i)
  /\ UNCHANGED <<file, keyFiles, pc, written, history>>

\* One command of kyber-cli.
Keygen(p) == p \notin Windows /\ \E l \in Labels, k \in Own : Generate(p, l, k)
KeysRemove(p) == \E l \in Labels : RemoveLabel(p, l)
VerifyKey(p) == \E l \in Labels, k \in Genuine : Verify(p, l, Fingerprint(k))

\* The key manager of the window.
GenerateKeypair(p) == p \in Windows /\ \E l \in Labels, k \in Own : Generate(p, l, k)
Folders == {"home"}
ImportKey(p) == \E f \in OpenFileDialog(keyFiles, keyFiles) : f.readable /\ Import(p, f.path)
ExportKey(p) ==
  \E l \in SaveFileDialog([name \in Labels |-> "home"], Folders) :
    l.readable /\ \E i \in 1..MaxKeys, secret \in BOOLEAN : Export(p, i, l.path, secret)
MarkVerified(p) == \E i \in 1..MaxKeys : MarkShown(p, i) \/ MarkUnwritten(p, i)
DeleteKey(p) == \E i \in 1..MaxKeys : Delete(p, i)

Command(p) == Keygen(p) \/ KeysRemove(p) \/ VerifyKey(p)

KeyManager(p) ==
  \/ GenerateKeypair(p) \/ ImportKey(p) \/ ExportKey(p)
  \/ MarkVerified(p) \/ DeleteKey(p)

Next == \E p \in Programs :
  \/ Start(p) \/ StartUnreadable(p) \/ Exit(p)
  \/ Command(p) \/ KeyManager(p)
  \/ EndSave(p) \/ CutSave(p)

Spec == Init /\ [][Next]_vars

Copy == [entries : Seq(Entry), verified : Seq(Fingerprints)]

\* Types, and the arrays of a Keystore never filled beyond their ends: by the
\* entries of a file, an import, a generated key, or a long verified.txt.
TypeOK ==
  /\ file \in [count : Nat, entries : Seq(Entry)]
  /\ verifiedTxt \in Seq(Fingerprints)
  /\ keyFiles \subseteq Entry
  /\ mem \in [Programs -> Copy]
  /\ \A p \in Programs : /\ Len(mem[p].entries) <= MaxKeys
                        /\ Len(mem[p].verified) <= MaxVerified
  /\ pc \in [Programs -> {"off", "idle", "saving"}]
  /\ stale \in [Programs -> BOOLEAN]
  /\ written \subseteq [by : Programs, entries : Seq(Entry)]
  /\ kept \subseteq Keys

\* The pill next to a key, and the silence of pack and watch, are worth
\* something: a key counts as verified only if the user compared that very
\* key with its owner, whatever other keys carried the same name before or
\* after, and whichever program recorded it.
TrustIsConfirmed ==
  \A p \in Programs : \A i \in DOMAIN mem[p].entries :
    IsVerified(mem[p], i) => mem[p].entries[i].key \in Genuine

\* A private key that was stored is in the key file whenever no program is
\* writing it: it goes only by a delete, a save that was cut short, saves of
\* several programs at one time, which leave a mixture, or the save of a program
\* that had loaded the file before it changed.
SecretsKept ==
  (\A p \in Programs : pc[p] # "saving") => kept \subseteq SecretsOf(Entries(file))

\* The inductive invariant: marks are only made of genuine keys, in memory and
\* on disk, and what is or may come into the key file fits the array.
GenuineMarks == {Fingerprint(k) : k \in Genuine}
Confirmed ==
  /\ RangeOf(verifiedTxt) \subseteq GenuineMarks
  /\ \A p \in Programs : RangeOf(mem[p].verified) \subseteq GenuineMarks
IInv ==
  /\ TypeOK
  /\ Len(file.entries) <= MaxKeys
  /\ \A w \in written : Len(w.entries) <= MaxKeys
  /\ Confirmed

\* Why SecretsKept holds: a program that may be the next to end a save, with no
\* other save on, has all of them in its copy, unless that is stale; and who
\* starts while nobody saves reads what was stored.
Alone(p) == \A q \in Programs : pc[q] = "saving" => q = p
CopiesKeep ==
  \A p \in Programs :
    pc[p] # "off" /\ Alone(p) /\ ~stale[p] => kept \subseteq SecretsOf(mem[p].entries)
WritersSave == (\A p \in Programs : pc[p] # "saving") => written = {}
KeptIInv == IInv /\ SecretsKept /\ CopiesKeep /\ WritersSave
=============================================================================
