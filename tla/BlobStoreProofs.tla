--------------------------- MODULE BlobStoreProofs ---------------------------
(***************************************************************************)
(* Proofs about BlobStore for any number of backups, source files, changes *)
(* and kills: what is under a hash has that hash, what an index file names *)
(* is there, and the attributes of the source files can be trusted.        *)
(***************************************************************************)
EXTENDS BlobStore, SequenceTheorems, TLAPS

(* What the users must see to, because the code does not: with             *)
(* KillWhileMoving TLC finds BlobSound violated.                           *)
LetsMove == ~KillWhileMoving

-----------------------------------------------------------------------------
(* The inductive invariant.                                                *)
Handling(b) == pc[b] \notin {"start", "next", "done"}
Hashed(b) ==
    pc[b] \in {"sha1", "mtime", "contains", "open", "copy", "rename", "compare",
               "move"}
Writing(b) == pc[b] \in {"copy", "rename", "compare", "move"}
Fresh(b) == pc[b] \in {"attributes", "hash", "sha1", "mtime", "contains", "open"}

(* What a backup has at hand at each step.                                 *)
PlaceInv ==
    \A b \in Backups :
        /\ Handling(b) => file[b] \in Sources
        /\ Hashed(b) => hash[b] \in Hashes
        /\ Writing(b) => inode[b] \in Inodes
        /\ pc[b] \in {"start", "next", "attributes", "open", "done"} =>
               read[b] = <<>>
        /\ pc[b] \in {"hash", "copy"} => read[b] \notin Contents
        /\ pc[b] \in {"rename", "compare", "move"} => read[b] \in Contents
        /\ pc[b] = "move" => Changed(b)

(* What a backup knows to be stored, and what is left when it has ended.   *)
EndInv ==
    \A b \in Backups :
        /\ cache[b] \subseteq entries[b]
        /\ ~Running(b) => cache[b] = {}
        /\ ~Running(b) /\ b \notin index => entries[b] = {}
        /\ b \in index => pc[b] = "done"

(* When the source file has not changed since the look, what has been read *)
(* of it is what it contains.                                              *)
Prefix(r, s) == \A k \in {1, 2} : k <= Len(r) => r[k] = s[k]
FileSound(f) == attrMtime[f] # None => attrMtime[f] <= mtime[f]
LookSound(b) ==
    LET f == file[b]
    IN  /\ stat[b] <= mtime[f]
        /\ stat[b] = mtime[f] => Prefix(read[b], source[f])
        /\ Hashed(b) /\ stat[b] = mtime[f] => hash[b] = source[f]
SourceInv ==
    /\ \A f \in Sources : FileSound(f)
    /\ \A b \in Backups : Handling(b) => LookSound(b)

(* Between its two setXAttr() a backup whose look is still current leaves  *)
(* its own hash, unless another one has been there as well.                *)
RaceInv ==
    \A b \in Backups :
        LET f == file[b]
        IN  pc[b] = "mtime" /\ stat[b] = mtime[f] /\ f \notin raced =>
                attrSha1[f] = None \/ attrSha1[f] = source[f]

(* An inode has one name, and is used from when its backup opens it; who   *)
(* has it open knows its name, or the name has gone astray.                *)
Used(i) ==
    /\ pc[i[1]] # "start" /\ i[2] \notin todo[i[1]]
    /\ Fresh(i[1]) => file[i[1]] # i[2]
InodeInv ==
    /\ \A b \in Backups : Handling(b) => file[b] \notin todo[b]
    /\ \A x \in tmp : \A y \in files : x[2] # y[2]
    /\ \A x, y \in tmp : x[2] = y[2] => x = y
    /\ \A x, y \in files : x[2] = y[2] => x = y
    /\ \A x \in tmp \cup files : Used(x[2])
    /\ \A b \in Backups : Writing(b) => Used(inode[b])
OwnInv ==
    \A b \in Backups : \A x \in tmp \cup files :
        Writing(b) /\ x[2] = inode[b] => x[1] = hash[b] \/ x[1] \in astray

(* The backups that store a hash which has not gone astray: when they meet *)
(* nobody deviates; when one is alone with it, its blob is where it thinks *)
(* and has what it has read.                                               *)
Placing(b) == pc[b] \in {"copy", "rename"}
Placed(b) == pc[b] \in {"compare", "move"}
Solo(b) == \A c \in Backups : ~Meets(b, c)
Copied(b, h) == \A k \in {1, 2} : k <= Len(read[b]) => data[inode[b]][k] = h[k]
MisledInv == Misled \subseteq astray
NameInv ==
    \A b \in Backups :
        Storing(b) /\ hash[b] \notin astray =>
            /\ hash[b] \notin entries[b]
            /\ Placing(b) => Names(tmp, hash[b]) # {} \/ Stored(hash[b])
            /\ Placed(b) => Stored(hash[b])
SoloInv ==
    \A b \in Backups :
        Storing(b) /\ hash[b] \notin astray /\ Solo(b) =>
            /\ ~Placed(b) => ~Stored(hash[b])
            /\ Placing(b) => <<hash[b], inode[b]>> \in tmp
            /\ Placed(b) => <<hash[b], inode[b]>> \in files
            /\ Writing(b) => Copied(b, read[b])

(* What is under a name is right, or somebody is writing it who has it     *)
(* right so far; what one does alone may be wrong until it is moved, and   *)
(* what nobody writes any more may have been left by one that was killed.  *)
Whole(x) ==
    \/ Correct(x)
    \/ \E b \in Backups :
          pc[b] = "copy" /\ inode[b] = x[2] /\ hash[b] = x[1] /\ Copied(b, x[1])
TmpInv ==
    \A x \in tmp :
        \/ x[1] \in astray \/ Whole(x)
        \/ \A b \in Backups : Placing(b) /\ hash[b] = x[1] => Solo(b)
DataInv ==
    \A x \in files :
        \/ x[1] \in astray \/ Whole(x)
        \/ \E b \in Backups : Placed(b) /\ hash[b] = x[1] /\ Solo(b)

(* TypeOK without the two variables of history. *)
DataType ==
    /\ source \in [Sources -> Contents] /\ mtime \in [Sources -> Nat]
    /\ attrSha1 \in [Sources -> Hashes \cup {None}]
    /\ attrMtime \in [Sources -> Nat \cup {None}]
    /\ Directory(tmp) /\ Directory(files)
    /\ data \in [Inodes -> [{1, 2} -> Chunks \cup {Hole}]]
    /\ index \subseteq Backups /\ entries \in [Backups -> SUBSET Hashes]
    /\ pc \in [Backups -> {"start", "next", "attributes", "hash", "sha1",
                "mtime", "contains", "open", "copy", "rename", "compare",
                "move", "done"}]
    /\ todo \in [Backups -> SUBSET Sources]
    /\ file \in [Backups -> Sources \cup {None}]
    /\ stat \in [Backups -> Nat]
    /\ read \in [Backups -> Reads]
    /\ hash \in [Backups -> Hashes \cup {None}]
    /\ inode \in [Backups -> Inodes \cup {None}]
    /\ cache \in [Backups -> SUBSET Hashes]

IInv ==
    /\ TypeOK /\ PlaceInv /\ EndInv /\ SourceInv /\ RaceInv /\ AttrSound
    /\ InodeInv /\ OwnInv /\ MisledInv /\ NameInv /\ SoloInv /\ TmpInv
    /\ (LetsMove => DataInv) /\ IndexSound

-----------------------------------------------------------------------------
(* Contents, and what is read of them.                                     *)
LEMMA ContentType ==
    /\ \A h \in Contents :
          h[1] \in Chunks /\ h[2] \in Chunks /\ Len(h) = 2 /\ h = <<h[1], h[2]>>
    /\ \A c, d \in Chunks : <<c, d>> \in Contents
    /\ \A h, g \in Contents : h[1] = g[1] /\ h[2] = g[2] => h = g
BY DEF Contents

(* The data of an inode is a content when both chunks are. *)
LEMMA DataIsHash ==
    ASSUME NEW d \in [{1, 2} -> Chunks \cup {Hole}], NEW h \in Contents
    PROVE  d = h <=> d[1] = h[1] /\ d[2] = h[2]
<1>1. h = <<h[1], h[2]>> /\ DOMAIN h = {1, 2}
  BY DEF Contents
<1>2. ASSUME d[1] = h[1], d[2] = h[2] PROVE d = h
  <2>1. h = [k \in {1, 2} |-> h[k]]
    BY <1>1 DEF Contents
  <2>2. QED
    BY <1>2, <2>1
<1>3. QED
  BY <1>2

(* How much has been read. *)
LEMMA ReadsType ==
    /\ \A r \in Reads : Len(r) \in {0, 1, 2}
    /\ \A r \in Reads : r \notin Contents <=> Len(r) # 2
    /\ Len(<<>>) = 0 /\ <<>> \in Reads
BY DEF Reads, Contents

(* A pass that has not begun is not a content. *)
LEMMA EmptyRead == <<>> \in Reads /\ <<>> \notin Contents
BY ReadsType, 0 # 2, Zenon

(* The second chunk after the first. *)
LEMMA AppendSecond ==
    ASSUME NEW S, NEW c \in S, NEW d \in S
    PROVE  Append(<<c>>, d) = <<c, d>>
<1> DEFINE r == <<c>>
           t == Append(r, d)
<1>1. r \in Seq(S) /\ Len(r) = 1 /\ r[1] = c
  OBVIOUS
<1>2. /\ <<c, d>> \in Seq(S) /\ Len(<<c, d>>) = 2 /\ <<c, d>>[1] = c
      /\ <<c, d>>[2] = d
  OBVIOUS
<1> HIDE DEF r
<1>3. r \in Seq(S)
  BY <1>1
<1>4. /\ t \in Seq(S) /\ Len(t) = Len(r) + 1 /\ t[Len(r) + 1] = d
      /\ \A i \in 1..Len(r) : t[i] = r[i]
  BY <1>3
<1> HIDE DEF t
<1>5. Len(t) = 2 /\ t[2] = d /\ t[1] = c
  <2>1. Len(r) + 1 = 2 /\ 1 \in 1..Len(r)
    BY <1>1
  <2>2. QED
    BY <1>1, <1>4, <2>1, Zenon
<1>6. t = <<c, d>>
  <2>1. \A i \in 1..Len(t) : t[i] = <<c, d>>[i]
    BY <1>5, <1>2
  <2>2. QED
    BY <1>2, <1>4, <1>5, <2>1, SeqEqual, Zenon
<1>7. QED
  BY <1>6 DEF t, r

(* What a read adds to a pass that is not at its end. *)
LEMMA NextChunk ==
    ASSUME NEW r \in Reads, r \notin Contents, NEW s \in Contents
    PROVE  LET k == Len(r) + 1
               t == Append(r, s[k])
           IN  /\ k \in {1, 2} /\ t \in Reads /\ Len(t) = k /\ t[k] = s[k]
               /\ \A j \in {1, 2} : j < k => t[j] = r[j]
<1>1. r = <<>> \/ \E c \in Chunks : r = <<c>>
  BY DEF Reads
<1>2. CASE r = <<>>
  <2>1. Len(r) = 0 /\ s[1] \in Chunks
    BY <1>2, ContentType
  <2>2. Append(r, s[1]) = <<s[1]>>
    BY <1>2
  <2>3. QED
    BY <2>1, <2>2 DEF Reads
<1>3. ASSUME NEW c \in Chunks, r = <<c>>
      PROVE  LET k == Len(r) + 1
                 t == Append(r, s[k])
             IN  /\ k \in {1, 2} /\ t \in Reads /\ Len(t) = k /\ t[k] = s[k]
                 /\ \A j \in {1, 2} : j < k => t[j] = r[j]
  <2>1. s[2] \in Chunks /\ Len(r) = 1 /\ r[1] = c
    BY <1>3, ContentType
  <2>2. Append(r, s[2]) = <<c, s[2]>>
    BY <1>3, <2>1, AppendSecond, Zenon
  <2>3. /\ <<c, s[2]>> \in Reads /\ Len(<<c, s[2]>>) = 2
        /\ <<c, s[2]>>[1] = c /\ <<c, s[2]>>[2] = s[2]
    BY <2>1, ContentType DEF Reads
  <2>4. Len(r) + 1 = 2 /\ \A j \in {1, 2} : j < 2 => j = 1
    BY <2>1
  <2>5. QED
    BY <2>1, <2>2, <2>3, <2>4
<1>4. QED
  BY <1>1, <1>2, <1>3

-----------------------------------------------------------------------------
(* At first.                                                               *)
LEMMA InitInv == Init => IInv
<1> SUFFICES ASSUME Init PROVE IInv
  OBVIOUS
<1> USE DEF Init
<1>1. TypeOK
  BY DEF TypeOK, Directory, Reads, Contents, Hashes, Inodes, Empty
<1>2. PlaceInv /\ EndInv
  BY DEF PlaceInv, Handling, Hashed, Writing, Running, EndInv
<1>3. SourceInv /\ RaceInv /\ AttrSound
  BY DEF SourceInv, FileSound, Handling, RaceInv, AttrSound, Trusted
<1>4. InodeInv /\ OwnInv
  BY DEF InodeInv, Handling, Writing, OwnInv
<1>5. MisledInv /\ NameInv /\ SoloInv /\ TmpInv /\ DataInv /\ IndexSound
  BY DEF MisledInv, Misled, Deviating, Storing, NameInv, SoloInv, TmpInv,
     DataInv, IndexSound
<1>6. QED
  BY <1>1, <1>2, <1>3, <1>4, <1>5 DEF IInv

-----------------------------------------------------------------------------
(* Type correctness.                                                       *)
LEMMA ChunkRead ==
    ASSUME TypeOK, NEW b \in Backups, file[b] \in Sources,
           read[b] \notin Contents, ReadChunk(b)
    PROVE  LET k == Len(read[b]) + 1
           IN  /\ k \in {1, 2} /\ read' \in [Backups -> Reads]
               /\ read'[b] \in Reads /\ Len(read'[b]) = k
               /\ read'[b][k] = source[file[b]][k]
               /\ \A j \in {1, 2} : j < k => read'[b][j] = read[b][j]
               /\ \A c \in Backups \ {b} : read'[c] = read[c]
<1>1. read \in [Backups -> Reads] /\ source[file[b]] \in Contents
  BY DEF TypeOK
<1>2. read' = [read EXCEPT ![b] =
                  Append(read[b], source[file[b]][Len(read[b]) + 1])]
  BY DEF ReadChunk
<1>3. QED
  BY <1>1, <1>2, NextChunk

(* What storeFile() leaves when it returns. *)
LEMMA ReturnType ==
    ASSUME TypeOK, NEW b \in Backups, NEW h \in Hashes, Return(b, h)
    PROVE  /\ entries' \in [Backups -> SUBSET Hashes]
           /\ read' \in [Backups -> Reads]
           /\ hash' \in [Backups -> Hashes \cup {None}]
           /\ inode' \in [Backups -> Inodes \cup {None}]
           /\ file' \in [Backups -> Sources \cup {None}]
           /\ pc' = [pc EXCEPT ![b] = "next"]
BY ReadsType DEF Return, Goto, TypeOK

(* The temporary file that is opened. *)
LEMMA OpenType ==
    ASSUME TypeOK, NEW b \in Backups, hash[b] \in Hashes, file[b] \in Sources,
           Open(b)
    PROVE  /\ Directory(tmp')
           /\ data' \in [Inodes -> [{1, 2} -> Chunks \cup {Hole}]]
           /\ inode' \in [Backups -> Inodes \cup {None}] /\ inode'[b] \in Inodes
<1> DEFINE h == hash[b]
<1> PICK i \in Inodes :
        /\ IF \E j \in Inodes : <<h, j>> \in tmp
           THEN <<h, i>> \in tmp ELSE i = <<b, file[b]>>
        /\ tmp' = tmp \cup {<<h, i>>}
        /\ data' = [data EXCEPT ![i] = Empty]
        /\ inode' = [inode EXCEPT ![b] = i]
  BY DEF Open
<1>1. Directory(tmp')
  <2>1. Directory(tmp)
    BY DEF TypeOK
  <2>2. \A x \in tmp : x[1] = h => <<h, i>> \in tmp
    BY <2>1 DEF Directory
  <2>3. QED
    BY <2>1, <2>2 DEF Directory
<1>2. Empty \in [{1, 2} -> Chunks \cup {Hole}]
  BY DEF Empty
<1>3. QED
  BY <1>1, <1>2 DEF TypeOK

(* rename() keeps a directory a directory. *)
LEMMA ReplacedType ==
    ASSUME Directory(files), NEW from, Directory(from), NEW h \in Hashes,
           \A x, y \in from : x = y
    PROVE  Directory(Replaced(h, from))
<1>1. \A x \in Renamed(from, h) : \E y \in from : x = <<h, y[2]>>
  BY DEF Renamed
<1>2. \A x \in files \ Names(files, h) : x[1] # h
  BY DEF Names
<1>3. Renamed(from, h) \subseteq Hashes \X Inodes
  BY <1>1 DEF Directory
<1>4. QED
  BY <1>1, <1>2, <1>3 DEF Replaced, Directory

(* A step of a backup leaves the others where they are.                    *)
LEMMA OthersStay ==
    ASSUME IInv, NEW b \in Backups, Step(b) \/ Kill(b), NEW c \in Backups,
           c # b
    PROVE  /\ pc'[c] = pc[c] /\ todo'[c] = todo[c] /\ file'[c] = file[c]
           /\ stat'[c] = stat[c] /\ read'[c] = read[c] /\ hash'[c] = hash[c]
           /\ inode'[c] = inode[c] /\ cache'[c] = cache[c]
           /\ entries'[c] = entries[c]
<1>1. TypeOK
  BY DEF IInv
<1> USE <1>1 DEF TypeOK, Goto, Return, indexVars
<1>2. CASE Start(b) \/ (\E f \in Sources : Look(b, f)) \/ SetSha1(b) \/ SetMtime(b)
  BY <1>2 DEF Start, Look, SetSha1, SetMtime
<1>3. CASE AskAttributes(b)
  <2>1. CASE UpToDate(b) /\ Contains(b, attrSha1[file[b]])
    BY <1>3, <2>1 DEF AskAttributes
  <2>2. CASE ~(UpToDate(b) /\ Contains(b, attrSha1[file[b]]))
    BY <1>3, <2>2 DEF AskAttributes
  <2>3. QED
    BY <2>1, <2>2
<1>4. CASE Hash(b)
  BY <1>4 DEF Hash, ReadChunk
<1>5. CASE AskContains(b)
  <2>1. CASE Contains(b, hash[b])
    BY <1>5, <2>1 DEF AskContains
  <2>2. CASE ~Contains(b, hash[b])
    BY <1>5, <2>2 DEF AskContains
  <2>3. QED
    BY <2>1, <2>2
<1>12. CASE Open(b)
  BY <1>12 DEF Open
<1>6. CASE Copy(b)
  BY <1>6 DEF Copy, ReadChunk
<1>7. CASE Rename(b)
  BY <1>7 DEF Rename
<1>8. CASE Compare(b)
  BY <1>8 DEF Compare
<1>9. CASE Move(b)
  BY <1>9 DEF Move
<1>10. CASE Finish(b) \/ Kill(b)
  BY <1>10 DEF Finish, Kill
<1>11. QED
  BY <1>2, <1>3, <1>4, <1>5, <1>6, <1>7, <1>8, <1>9, <1>10, <1>12 DEF Step

-----------------------------------------------------------------------------
(* Every step keeps the other parts of the invariant.                      *)
LEMMA NextPlace ==
    ASSUME IInv, [Next]_vars
    PROVE  PlaceInv'
<1> USE DEF IInv, TypeOK, PlaceInv, Hashes, Changed, Goto, Handling, Hashed,
   Writing, sourceVars, storeVars, indexVars, backupVars, bounds
<1>1. ASSUME NEW b \in Backups, Start(b)
      PROVE  PlaceInv'
  BY <1>1 DEF Start
<1>2. ASSUME NEW b \in Backups, NEW f \in Sources, Look(b, f)
      PROVE  PlaceInv'
  BY <1>2 DEF Look
<1>3. ASSUME NEW b \in Backups, AskAttributes(b)
      PROVE  PlaceInv'
  <2>1. CASE UpToDate(b) /\ Contains(b, attrSha1[file[b]])
    <3>1. pc[b] = "attributes" /\ Return(b, attrSha1[file[b]])
      BY <1>3, <2>1 DEF AskAttributes
    <3>2. QED
      BY <3>1, EmptyRead DEF Return
  <2>2. CASE ~(UpToDate(b) /\ Contains(b, attrSha1[file[b]]))
    BY <1>3, <2>2, EmptyRead DEF AskAttributes, Return
  <2>3. QED
    BY <2>1, <2>2
<1>4. ASSUME NEW b \in Backups, Hash(b)
      PROVE  PlaceInv'
  <2>1. file[b] \in Sources /\ read[b] \notin Contents /\ pc[b] = "hash"
    BY <1>4 DEF Hash
  <2>2. /\ read'[b] \in Reads /\ \A c \in Backups \ {b} : read'[c] = read[c]
        /\ Len(read'[b]) = 2 <=> read'[b] \in Contents
    BY <1>4, <2>1, ChunkRead, ReadsType DEF Hash
  <2>3. IF Len(read'[b]) = 2
        THEN hash' = [hash EXCEPT ![b] = read'[b]] /\ pc' = [pc EXCEPT ![b] = "sha1"]
        ELSE UNCHANGED <<hash, pc>>
    BY <1>4 DEF Hash
  <2>4. UNCHANGED <<file, inode>>
    BY <1>4 DEF Hash
  <2>5. CASE Len(read'[b]) = 2
    BY <2>1, <2>2, <2>3, <2>4, <2>5
  <2>6. CASE Len(read'[b]) # 2
    BY <2>1, <2>2, <2>3, <2>4, <2>6
  <2>7. QED
    BY <2>5, <2>6
<1>5. ASSUME NEW b \in Backups, SetSha1(b)
      PROVE  PlaceInv'
  BY <1>5 DEF SetSha1
<1>6. ASSUME NEW b \in Backups, SetMtime(b)
      PROVE  PlaceInv'
  BY <1>6 DEF SetMtime
<1>7. ASSUME NEW b \in Backups, AskContains(b)
      PROVE  PlaceInv'
  <2>1. pc[b] = "contains" /\ hash[b] \in Hashes /\ file[b] \in Sources
    BY <1>7 DEF AskContains
  <2>2. CASE Contains(b, hash[b])
    <3>1. Return(b, hash[b])
      BY <1>7, <2>2 DEF AskContains
    <3>2. QED
      BY <2>1, <3>1, EmptyRead DEF Return
  <2>3. CASE ~Contains(b, hash[b])
    <3>1. /\ pc' = [pc EXCEPT ![b] = "open"]
          /\ read' = [read EXCEPT ![b] = <<>>]
          /\ UNCHANGED <<hash, file, inode>>
      BY <1>7, <2>3 DEF AskContains
    <3>2. QED
      BY <2>1, <3>1, EmptyRead
  <2>4. QED
    BY <2>2, <2>3
<1>18. ASSUME NEW b \in Backups, Open(b)
      PROVE  PlaceInv'
  <2>1. /\ pc[b] = "open" /\ hash[b] \in Hashes /\ file[b] \in Sources
        /\ pc' = [pc EXCEPT ![b] = "copy"] /\ UNCHANGED <<file, read, hash>>
    BY <1>18 DEF Open
  <2>2. inode'[b] \in Inodes /\ \A c \in Backups \ {b} : inode'[c] = inode[c]
    BY <1>18 DEF Open
  <2>3. QED
    BY <2>1, <2>2, EmptyRead
<1>8. ASSUME NEW b \in Backups, Copy(b)
      PROVE  PlaceInv'
  <2>1. file[b] \in Sources /\ read[b] \notin Contents /\ pc[b] = "copy"
    BY <1>8 DEF Copy
  <2>2. /\ read'[b] \in Reads /\ \A c \in Backups \ {b} : read'[c] = read[c]
        /\ Len(read'[b]) = 2 <=> read'[b] \in Contents
    BY <1>8, <2>1, ChunkRead, ReadsType DEF Copy
  <2>3. IF Len(read'[b]) = 2
        THEN pc' = [pc EXCEPT ![b] = "rename"] ELSE UNCHANGED pc
    BY <1>8 DEF Copy
  <2>4. UNCHANGED <<file, hash, inode>>
    BY <1>8 DEF Copy
  <2>5. CASE Len(read'[b]) = 2
    BY <2>1, <2>2, <2>3, <2>4, <2>5
  <2>6. CASE Len(read'[b]) # 2
    BY <2>1, <2>2, <2>3, <2>4, <2>6
  <2>7. QED
    BY <2>5, <2>6
<1>9. ASSUME NEW b \in Backups, Rename(b)
      PROVE  PlaceInv'
  BY <1>9 DEF Rename, Replaced, Renamed, Names
<1>10. ASSUME NEW b \in Backups, Compare(b)
      PROVE  PlaceInv'
  <2>1. pc[b] = "compare" /\ read[b] \in Contents
    BY <1>10 DEF Compare
  <2>2. CASE Changed(b)
    BY <1>10, <2>2 DEF Compare
  <2>3. CASE ~Changed(b)
    <3>1. Return(b, hash[b])
      BY <1>10, <2>3 DEF Compare
    <3>2. QED
      BY <2>1, <3>1, EmptyRead DEF Return
  <2>4. QED
    BY <2>2, <2>3
<1>11. ASSUME NEW b \in Backups, Move(b)
      PROVE  PlaceInv'
  BY <1>11 DEF Move, Return, Replaced, Renamed, Names
<1>12. ASSUME NEW b \in Backups, Finish(b)
      PROVE  PlaceInv'
  BY <1>12 DEF Finish
<1>13. ASSUME NEW b \in Backups, Kill(b)
      PROVE  PlaceInv'
  BY <1>13 DEF Kill
<1>14. ASSUME NEW b \in Backups, Collect(b)
      PROVE  PlaceInv'
  BY <1>14 DEF Collect, Referenced
<1>15. ASSUME NEW f \in Sources, Change(f)
      PROVE  PlaceInv'
  BY <1>15 DEF Change
<1>16. CASE UNCHANGED vars
  BY <1>16 DEF vars
<1>17. QED
  BY <1>1, <1>2, <1>3, <1>4, <1>5, <1>6, <1>7, <1>8, <1>9, <1>10, <1>11, <1>12,
     <1>13, <1>14, <1>15, <1>16, <1>18 DEF Next, Step

(* Every step keeps the types. *)
LEMMA NextDataType ==
    ASSUME IInv, [Next]_vars
    PROVE  DataType'
<1> USE DEF IInv, TypeOK, DataType, Goto, sourceVars, storeVars, indexVars, backupVars,
   bounds
<1>1. ASSUME NEW b \in Backups, Start(b) PROVE DataType'
  BY <1>1 DEF Start
<1>2. ASSUME NEW b \in Backups, NEW f \in Sources, Look(b, f) PROVE DataType'
  BY <1>2 DEF Look
<1>3. ASSUME NEW b \in Backups, AskAttributes(b) PROVE DataType'
  <2> USE <1>3 DEF AskAttributes
  <2>1. CASE UpToDate(b) /\ Contains(b, attrSha1[file[b]])
    <3>1. attrSha1[file[b]] \in Hashes
      BY <2>1 DEF UpToDate, PlaceInv, Handling
    <3>2. QED
      BY <2>1, <3>1, ReturnType
  <2>2. CASE ~(UpToDate(b) /\ Contains(b, attrSha1[file[b]]))
    BY <2>2
  <2>3. QED
    BY <2>1, <2>2
<1>4. ASSUME NEW b \in Backups, Hash(b) PROVE DataType'
  <2>1. file[b] \in Sources /\ read[b] \notin Contents
    BY <1>4 DEF Hash, PlaceInv, Handling
  <2>2. read' \in [Backups -> Reads] /\ (Len(read'[b]) = 2 => read'[b] \in Hashes)
    BY <1>4, <2>1, ChunkRead, ReadsType DEF Hash, Hashes
  <2>3. QED
    BY <1>4, <2>2 DEF Hash
<1>5. ASSUME NEW b \in Backups, SetSha1(b) PROVE DataType'
  BY <1>5 DEF SetSha1
<1>6. ASSUME NEW b \in Backups, SetMtime(b) PROVE DataType'
  BY <1>6 DEF SetMtime
<1>7. ASSUME NEW b \in Backups, AskContains(b) PROVE DataType'
  <2>1. hash[b] \in Hashes /\ file[b] \in Sources
    BY <1>7 DEF AskContains, PlaceInv, Hashed, Handling
  <2>2. CASE Contains(b, hash[b])
    <3>1. Return(b, hash[b]) /\ cache' = [cache EXCEPT ![b] = @ \cup {hash[b]}]
          /\ UNCHANGED <<sourceVars, storeVars, index, bounds, todo, stat>>
      BY <1>7, <2>2 DEF AskContains
    <3>2. QED
      BY <2>1, <3>1, ReturnType
  <2>3. CASE ~Contains(b, hash[b])
    BY <1>7, <2>1, <2>3, ReadsType DEF AskContains
  <2>4. QED
    BY <2>2, <2>3
<1>18. ASSUME NEW b \in Backups, Open(b) PROVE DataType'
  <2>1. hash[b] \in Hashes /\ file[b] \in Sources
    BY <1>18 DEF Open, PlaceInv, Hashed, Handling
  <2>2. QED
    BY <1>18, <2>1, OpenType DEF Open
<1>8. ASSUME NEW b \in Backups, Copy(b) PROVE DataType'
  <2>1. file[b] \in Sources /\ read[b] \notin Contents /\ inode[b] \in Inodes
    BY <1>8 DEF Copy, PlaceInv, Handling, Writing
  <2>2. /\ read' \in [Backups -> Reads] /\ Len(read'[b]) \in {1, 2}
        /\ read'[b][Len(read'[b])] \in Chunks
    <3>1. source[file[b]] \in Contents
      BY <2>1
    <3>2. ReadChunk(b)
      BY <1>8 DEF Copy
    <3>3. LET k == Len(read[b]) + 1
          IN  /\ k \in {1, 2} /\ read' \in [Backups -> Reads]
              /\ Len(read'[b]) = k /\ read'[b][k] = source[file[b]][k]
      BY <2>1, <3>2, ChunkRead
    <3>4. QED
      BY <3>1, <3>3, ContentType
  <2>3. data' \in [Inodes -> [{1, 2} -> Chunks \cup {Hole}]]
    BY <1>8, <2>1, <2>2 DEF Copy
  <2>4. QED
    BY <1>8, <2>2, <2>3 DEF Copy
<1>9. ASSUME NEW b \in Backups, Rename(b) PROVE DataType'
  <2>1. hash[b] \in Hashes
    BY <1>9 DEF Rename, PlaceInv, Hashed
  <2>2. /\ Directory(tmp) /\ Directory(files)
        /\ Directory(Names(tmp, hash[b])) /\ Directory(tmp')
        /\ \A x, y \in Names(tmp, hash[b]) : x = y
    BY <1>9 DEF Rename, Names, Directory
  <2>3. Directory(files')
    BY <1>9, <2>1, <2>2, ReplacedType DEF Rename
  <2>4. QED
    BY <1>9, <2>2, <2>3 DEF Rename, Directory
<1>10. ASSUME NEW b \in Backups, Compare(b) PROVE DataType'
  <2>1. hash[b] \in Hashes /\ file[b] \in Sources
    BY <1>10 DEF Compare, PlaceInv, Hashed, Handling
  <2>2. CASE Changed(b)
    BY <1>10, <2>1, <2>2 DEF Compare
  <2>3. CASE ~Changed(b)
    <3>1. Return(b, hash[b]) /\ cache' = [cache EXCEPT ![b] = @ \cup {hash[b]}]
          /\ UNCHANGED <<attrSha1, attrMtime>>
          /\ UNCHANGED <<source, mtime, storeVars, index, bounds, todo, stat>>
      BY <1>10, <2>3 DEF Compare
    <3>2. QED
      BY <2>1, <3>1, ReturnType
  <2>4. QED
    BY <2>2, <2>3
<1>11. ASSUME NEW b \in Backups, Move(b) PROVE DataType'
  <2>1. hash[b] \in Hashes /\ read[b] \in Hashes
    BY <1>11 DEF Move, PlaceInv, Hashed, Hashes
  <2>2. Directory(files) /\ Directory(Names(files, hash[b]))
        /\ \A x, y \in Names(files, hash[b]) : x = y
    BY DEF Names, Directory
  <2>3. Directory(files')
    <3>1. Directory(Replaced(read[b], Names(files, hash[b])))
      BY <2>1, <2>2, ReplacedType
    <3>2. QED
      BY <1>11, <3>1 DEF Move, Directory
  <2>4. QED
    BY <1>11, <2>1, <2>3, ReturnType DEF Move, Directory
<1>12. ASSUME NEW b \in Backups, Finish(b) PROVE DataType'
  BY <1>12 DEF Finish
<1>13. ASSUME NEW b \in Backups, Kill(b) PROVE DataType'
  BY <1>13, ReadsType DEF Kill, Changed
<1>14. ASSUME NEW b \in Backups, Collect(b) PROVE DataType'
  <2>1. Directory(tmp') /\ Directory(files')
    BY <1>14 DEF Collect, Directory
  <2>2. QED
    BY <1>14, <2>1 DEF Collect
<1>15. ASSUME NEW f \in Sources, Change(f) PROVE DataType'
  <2>1. \A c \in Chunks : <<c, c>> \in Contents
    BY ContentType
  <2>2. source' \in [Sources -> Contents]
    BY <1>15, <2>1 DEF Change
  <2>3. QED
    BY <1>15, <2>2 DEF Change
<1>16. CASE UNCHANGED vars
  BY <1>16 DEF vars
<1>17. QED
  BY <1>1, <1>2, <1>3, <1>4, <1>5, <1>6, <1>7, <1>8, <1>9, <1>10, <1>11, <1>12,
     <1>13, <1>14, <1>15, <1>16, <1>18 DEF Next, Step

(* The two variables that only record what happens. *)
LEMMA NextType ==
    ASSUME IInv, [Next]_vars
    PROVE  TypeOK'
<1>1. DataType' /\ PlaceInv'
  BY NextDataType, NextPlace
<1>2. Misled' \subseteq Hashes
  BY <1>1 DEF Misled, Deviating, Storing, PlaceInv, Hashed
<1>3. \A b \in Backups : Moved(b) \subseteq Hashes /\ Left(b) \subseteq Hashes
  BY DEF Moved, Left, Meets, Storing, IInv, PlaceInv, Hashed, Hashes
<1>4. raced \subseteq Sources /\ astray \subseteq Hashes
  BY DEF IInv, TypeOK
<1>5. raced' \subseteq Sources /\ astray' \subseteq Hashes
  <2>1. CASE UNCHANGED vars
    BY <1>4, <2>1 DEF vars, history
  <2>2. CASE Next
    <3>1. \A hashes : hashes \subseteq Hashes /\ Watch(hashes) =>
              raced' \subseteq Sources /\ astray' \subseteq Hashes
      BY <1>2 DEF Watch
    <3>2. QED
      BY <1>3, <1>4, <2>2, <3>1 DEF Next
  <2>3. QED
    BY <2>1, <2>2
<1>6. QED
  BY <1>1, <1>5 DEF DataType, TypeOK

(* A finished or killed backup leaves nothing but its index file. *)
LEMMA NextEnd ==
    ASSUME IInv, [Next]_vars
    PROVE  EndInv'
<1> USE DEF IInv, TypeOK, EndInv, Goto, Running, sourceVars, storeVars,
   indexVars, backupVars, bounds
<1>1. ASSUME NEW b \in Backups, Start(b)
      PROVE  EndInv'
  BY <1>1 DEF Start
<1>2. ASSUME NEW b \in Backups, NEW f \in Sources, Look(b, f)
      PROVE  EndInv'
  BY <1>2 DEF Look
<1>3. ASSUME NEW b \in Backups, AskAttributes(b)
      PROVE  EndInv'
  <2>1. CASE UpToDate(b) /\ Contains(b, attrSha1[file[b]])
    <3>1. pc[b] = "attributes" /\ Return(b, attrSha1[file[b]])
          /\ UNCHANGED <<index, cache>>
      BY <1>3, <2>1 DEF AskAttributes
    <3>2. QED
      BY <3>1 DEF Return
  <2>2. CASE ~(UpToDate(b) /\ Contains(b, attrSha1[file[b]]))
    <3>1. pc[b] = "attributes" /\ pc' = [pc EXCEPT ![b] = "hash"]
          /\ UNCHANGED <<index, cache, entries>>
      BY <1>3, <2>2 DEF AskAttributes
    <3>2. QED
      BY <3>1
  <2>3. QED
    BY <2>1, <2>2
<1>4. ASSUME NEW b \in Backups, Hash(b)
      PROVE  EndInv'
  BY <1>4 DEF Hash
<1>5. ASSUME NEW b \in Backups, SetSha1(b)
      PROVE  EndInv'
  BY <1>5 DEF SetSha1
<1>6. ASSUME NEW b \in Backups, SetMtime(b)
      PROVE  EndInv'
  BY <1>6 DEF SetMtime
<1>7. ASSUME NEW b \in Backups, AskContains(b)
      PROVE  EndInv'
  <2>1. CASE Contains(b, hash[b])
    <3>1. pc[b] = "contains" /\ Return(b, hash[b]) /\ UNCHANGED index
          /\ cache' = [cache EXCEPT ![b] = @ \cup {hash[b]}]
      BY <1>7, <2>1 DEF AskContains
    <3>2. QED
      BY <3>1 DEF Return
  <2>2. CASE ~Contains(b, hash[b])
    <3>1. pc[b] = "contains" /\ pc' = [pc EXCEPT ![b] = "open"]
          /\ UNCHANGED <<index, cache, entries>>
      BY <1>7, <2>2 DEF AskContains
    <3>2. QED
      BY <3>1
  <2>3. QED
    BY <2>1, <2>2
<1>18. ASSUME NEW b \in Backups, Open(b)
      PROVE  EndInv'
  BY <1>18 DEF Open
<1>8. ASSUME NEW b \in Backups, Copy(b)
      PROVE  EndInv'
  BY <1>8 DEF Copy
<1>9. ASSUME NEW b \in Backups, Rename(b)
      PROVE  EndInv'
  BY <1>9 DEF Rename, Replaced, Renamed, Names
<1>10. ASSUME NEW b \in Backups, Compare(b)
      PROVE  EndInv'
  <2>1. CASE ~Changed(b)
    <3>1. pc[b] = "compare" /\ Return(b, hash[b]) /\ UNCHANGED index
          /\ cache' = [cache EXCEPT ![b] = @ \cup {hash[b]}]
      BY <1>10, <2>1 DEF Compare
    <3>2. QED
      BY <3>1 DEF Return
  <2>2. CASE Changed(b)
    <3>1. pc[b] = "compare" /\ pc' = [pc EXCEPT ![b] = "move"]
          /\ UNCHANGED <<index, cache, entries>>
      BY <1>10, <2>2 DEF Compare
    <3>2. QED
      BY <3>1
  <2>3. QED
    BY <2>1, <2>2
<1>11. ASSUME NEW b \in Backups, Move(b)
      PROVE  EndInv'
  BY <1>11 DEF Move, Return, Replaced, Renamed, Names
<1>12. ASSUME NEW b \in Backups, Finish(b)
      PROVE  EndInv'
  BY <1>12 DEF Finish
<1>13. ASSUME NEW b \in Backups, Kill(b)
      PROVE  EndInv'
  BY <1>13 DEF Kill
<1>14. ASSUME NEW b \in Backups, Collect(b)
      PROVE  EndInv'
  BY <1>14 DEF Collect, Referenced
<1>15. ASSUME NEW f \in Sources, Change(f)
      PROVE  EndInv'
  BY <1>15 DEF Change
<1>16. CASE UNCHANGED vars
  BY <1>16 DEF vars
<1>17. QED
  BY <1>1, <1>2, <1>3, <1>4, <1>5, <1>6, <1>7, <1>8, <1>9, <1>10, <1>11, <1>12,
     <1>13, <1>14, <1>15, <1>16, <1>18 DEF Next, Step

(* What has been read, when it is nothing and when it is all. *)
LEMMA PrefixFacts ==
    /\ \A s : Prefix(<<>>, s)
    /\ \A r, s \in Contents : Prefix(r, s) => r = s
<1>1. \A r, s \in Contents : Prefix(r, s) => r[1] = s[1] /\ r[2] = s[2]
  BY ContentType DEF Prefix
<1>2. \A s : Prefix(<<>>, s)
  BY ReadsType DEF Prefix
<1>3. QED
  BY <1>1, <1>2, ContentType

(* A chunk more of an unchanged file. *)
LEMMA PrefixRead ==
    ASSUME TypeOK, NEW b \in Backups, file[b] \in Sources,
           read[b] \notin Contents, ReadChunk(b),
           Prefix(read[b], source[file[b]])
    PROVE  Prefix(read'[b], source[file[b]])
BY ChunkRead DEF Prefix

(* What a backup knows of its source file stays true until that changes. *)
LEMMA NextSource ==
    ASSUME IInv, [Next]_vars
    PROVE  SourceInv'
<1> USE DEF IInv, TypeOK, SourceInv, Handling, Hashed
<1>1. ASSUME NEW b \in Backups, Start(b)
      PROVE  SourceInv'
  BY <1>1 DEF LookSound, FileSound, Start, Goto, sourceVars, storeVars,
     indexVars, backupVars, bounds
<1>2. ASSUME NEW b \in Backups, NEW f \in Sources, Look(b, f)
      PROVE  SourceInv'
  <2>1. /\ pc[b] = "next" /\ f \in todo[b]
       /\ pc' = [pc EXCEPT ![b] = "attributes"]
       /\ file' = [file EXCEPT ![b] = f]
       /\ stat' = [stat EXCEPT ![b] = mtime[f]]
       /\ UNCHANGED <<source, mtime, attrSha1, attrMtime, read, hash>>
    BY <1>2 DEF Look, Goto, sourceVars, storeVars, indexVars, backupVars,
       bounds
  <2>2. \A g \in Sources : FileSound(g)'
    BY <2>1 DEF FileSound
  <2>3. LookSound(b)' \/ ~Handling(b)'
    BY <2>1, <2>2, PrefixFacts DEF LookSound, PlaceInv, FileSound
  <2>4. ASSUME NEW c \in Backups, c # b PROVE Handling(c)' => LookSound(c)'
    BY <2>1, <2>4 DEF LookSound
  <2>5. QED
    BY <2>2, <2>3, <2>4
<1>3. ASSUME NEW b \in Backups, AskAttributes(b)
      PROVE  SourceInv'
  <2>1. CASE UpToDate(b) /\ Contains(b, attrSha1[file[b]])
    <3>1. /\ pc[b] = "attributes" /\ pc' = [pc EXCEPT ![b] = "next"]
         /\ file' = [file EXCEPT ![b] = None]
         /\ read' = [read EXCEPT ![b] = <<>>]
         /\ hash' = [hash EXCEPT ![b] = None]
         /\ UNCHANGED <<source, mtime, attrSha1, attrMtime, stat>>
      BY <1>3, <2>1 DEF AskAttributes, Return, Goto, sourceVars, storeVars,
         indexVars, backupVars, bounds
    <3>2. QED
      BY <3>1, <2>1 DEF LookSound, FileSound
  <2>2. CASE ~(UpToDate(b) /\ Contains(b, attrSha1[file[b]]))
    <3>1. /\ pc[b] = "attributes" /\ pc' = [pc EXCEPT ![b] = "hash"]
         /\ UNCHANGED <<source, mtime, attrSha1, attrMtime, file, stat, read,
                        hash>>
      BY <1>3, <2>2 DEF AskAttributes, Return, Goto, sourceVars, storeVars,
         indexVars, backupVars, bounds
    <3>2. QED
      BY <3>1, <2>2 DEF LookSound, FileSound
  <2>3. QED
    BY <2>1, <2>2
<1>4. ASSUME NEW b \in Backups, Hash(b)
      PROVE  SourceInv'
  <2>1. CASE Len(read'[b]) = 2
    <3>1. /\ pc[b] = "hash" /\ ReadChunk(b) /\ pc' = [pc EXCEPT ![b] = "sha1"]
         /\ hash' = [hash EXCEPT ![b] = read'[b]]
         /\ UNCHANGED <<source, mtime, attrSha1, attrMtime, file, stat>>
      BY <1>4, <2>1 DEF Hash, Goto, sourceVars, storeVars, indexVars,
         backupVars, bounds
    <3>2. /\ file[b] \in Sources /\ read[b] \notin Contents
         /\ \A c \in Backups \ {b} : read'[c] = read[c]
      <4>1. file[b] \in Sources /\ read[b] \notin Contents
        BY <3>1 DEF PlaceInv
      <4>2. QED
        BY <3>1, <4>1, ChunkRead
    <3>3. stat[b] = mtime[file[b]] => Prefix(read'[b], source[file[b]])
      BY <3>1, <3>2, PrefixRead DEF LookSound
    <3>4. \A g \in Sources : FileSound(g)'
      BY <3>1 DEF FileSound
    <3>5. LookSound(b)'
      <4>1. stat[b] = mtime[file[b]] => read'[b] = source[file[b]]
        BY <3>2, <3>3, <2>1, ChunkRead, ReadsType, PrefixFacts, <3>1
      <4>2. QED
        BY <3>1, <3>3, <4>1 DEF LookSound
    <3>6. ASSUME NEW c \in Backups, c # b PROVE Handling(c)' => LookSound(c)'
      BY <3>1, <3>2, <3>6 DEF LookSound
    <3>7. QED
      BY <3>4, <3>5, <3>6
  <2>2. CASE Len(read'[b]) # 2
    <3>1. /\ pc[b] = "hash" /\ ReadChunk(b)
         /\ UNCHANGED <<source, mtime, attrSha1, attrMtime, pc, file, stat,
                        hash>>
      BY <1>4, <2>2 DEF Hash, Goto, sourceVars, storeVars, indexVars,
         backupVars, bounds
    <3>2. /\ file[b] \in Sources /\ read[b] \notin Contents
         /\ \A c \in Backups \ {b} : read'[c] = read[c]
      <4>1. file[b] \in Sources /\ read[b] \notin Contents
        BY <3>1 DEF PlaceInv
      <4>2. QED
        BY <3>1, <4>1, ChunkRead
    <3>3. stat[b] = mtime[file[b]] => Prefix(read'[b], source[file[b]])
      BY <3>1, <3>2, PrefixRead DEF LookSound
    <3>4. \A g \in Sources : FileSound(g)'
      BY <3>1 DEF FileSound
    <3>5. LookSound(b)'
      BY <3>1, <3>3 DEF LookSound
    <3>6. ASSUME NEW c \in Backups, c # b PROVE Handling(c)' => LookSound(c)'
      BY <3>1, <3>2, <3>6 DEF LookSound
    <3>7. QED
      BY <3>4, <3>5, <3>6
  <2>3. QED
    BY <2>1, <2>2
<1>5. ASSUME NEW b \in Backups, SetSha1(b)
      PROVE  SourceInv'
  <2>1. /\ pc[b] = "sha1" /\ attrSha1' = [attrSha1 EXCEPT ![file[b]] = hash[b]]
       /\ pc' = [pc EXCEPT ![b] = "mtime"]
       /\ UNCHANGED <<source, mtime, attrMtime, file, stat, read, hash>>
    BY <1>5 DEF SetSha1, Goto, sourceVars, storeVars, indexVars, backupVars,
       bounds
  <2>2. file[b] \in Sources /\ hash[b] \in Hashes /\ Running(b)
    BY <2>1 DEF PlaceInv, Running
  <2>3. LookSound(b)
    BY <2>1
  <2>4. \A g \in Sources : FileSound(g)'
    BY <2>1, <2>2, <2>3 DEF FileSound
  <2>5. LookSound(b)'
    BY <2>1, <2>2, <2>3 DEF LookSound
  <2>6. ASSUME NEW c \in Backups, c # b, Handling(c)' PROVE LookSound(c)'
    BY <2>1, <2>6 DEF LookSound
  <2>7. QED
    BY <2>4, <2>5, <2>6
<1>6. ASSUME NEW b \in Backups, SetMtime(b)
      PROVE  SourceInv'
  <2>1. /\ pc[b] = "mtime"
       /\ attrMtime' = [attrMtime EXCEPT ![file[b]] = stat[b]]
       /\ pc' = [pc EXCEPT ![b] = "contains"]
       /\ UNCHANGED <<source, mtime, attrSha1, file, stat, read, hash>>
    BY <1>6 DEF SetMtime, Goto, sourceVars, storeVars, indexVars, backupVars,
       bounds
  <2>2. file[b] \in Sources /\ Running(b) /\ stat[b] \in Nat
    BY <2>1 DEF PlaceInv, Running
  <2>3. LookSound(b) /\ stat[b] <= mtime[file[b]]
    BY <2>1 DEF LookSound
  <2>4. \A g \in Sources : FileSound(g)'
    BY <2>1, <2>2, <2>3 DEF FileSound
  <2>5. LookSound(b)'
    BY <2>1, <2>2, <2>3 DEF LookSound
  <2>6. ASSUME NEW c \in Backups, c # b, Handling(c)' PROVE LookSound(c)'
    BY <2>1, <2>6 DEF LookSound
  <2>7. QED
    BY <2>4, <2>5, <2>6
<1>7. ASSUME NEW b \in Backups, AskContains(b)
      PROVE  SourceInv'
  <2>1. CASE Contains(b, hash[b])
    <3>1. /\ pc[b] = "contains" /\ pc' = [pc EXCEPT ![b] = "next"]
         /\ file' = [file EXCEPT ![b] = None]
         /\ read' = [read EXCEPT ![b] = <<>>]
         /\ hash' = [hash EXCEPT ![b] = None]
         /\ UNCHANGED <<source, mtime, attrSha1, attrMtime, stat>>
      BY <1>7, <2>1 DEF AskContains, Return, Goto, sourceVars, storeVars,
         indexVars, backupVars, bounds
    <3>2. QED
      BY <3>1, <2>1 DEF LookSound, FileSound
  <2>2. CASE ~Contains(b, hash[b])
    <3>1. /\ pc[b] = "contains" /\ pc' = [pc EXCEPT ![b] = "open"]
         /\ read' = [read EXCEPT ![b] = <<>>]
         /\ UNCHANGED <<source, mtime, attrSha1, attrMtime, file, stat, hash>>
      BY <1>7, <2>2 DEF AskContains, Return, Goto, sourceVars, storeVars,
         indexVars, backupVars, bounds
    <3>0. LookSound(b)
      BY <3>1
    <3>1x. \A s : Prefix(<<>>, s)
      BY PrefixFacts
    <3>2. \A g \in Sources : FileSound(g)'
      BY <3>1 DEF FileSound
    <3>3. LookSound(b)' \/ ~Handling(b)'
      BY <3>1, <3>0, <3>1x DEF LookSound
    <3>4. ASSUME NEW c \in Backups, c # b PROVE Handling(c)' => LookSound(c)'
      BY <3>1, <3>4 DEF LookSound
    <3>5. QED
      BY <3>2, <3>3, <3>4
  <2>3. QED
    BY <2>1, <2>2
<1>18. ASSUME NEW b \in Backups, Open(b)
      PROVE  SourceInv'
  BY <1>18 DEF LookSound, FileSound, Open, Goto, sourceVars, indexVars, bounds
<1>8. ASSUME NEW b \in Backups, Copy(b)
      PROVE  SourceInv'
  <2>1. CASE Len(read'[b]) = 2
    <3>1. /\ pc[b] = "copy" /\ ReadChunk(b)
          /\ pc' = [pc EXCEPT ![b] = "rename"]
         /\ UNCHANGED <<source, mtime, attrSha1, attrMtime, file, stat, hash>>
      BY <1>8, <2>1 DEF Copy, Goto, sourceVars, storeVars, indexVars,
         backupVars, bounds
    <3>2. /\ file[b] \in Sources /\ read[b] \notin Contents
         /\ \A c \in Backups \ {b} : read'[c] = read[c]
      <4>1. file[b] \in Sources /\ read[b] \notin Contents
        BY <3>1 DEF PlaceInv
      <4>2. QED
        BY <3>1, <4>1, ChunkRead
    <3>3. stat[b] = mtime[file[b]] => Prefix(read'[b], source[file[b]])
      BY <3>1, <3>2, PrefixRead DEF LookSound
    <3>4. \A g \in Sources : FileSound(g)'
      BY <3>1 DEF FileSound
    <3>5. LookSound(b)'
      BY <3>1, <3>3 DEF LookSound
    <3>6. ASSUME NEW c \in Backups, c # b PROVE Handling(c)' => LookSound(c)'
      BY <3>1, <3>2, <3>6 DEF LookSound
    <3>7. QED
      BY <3>4, <3>5, <3>6
  <2>2. CASE Len(read'[b]) # 2
    <3>1. /\ pc[b] = "copy" /\ ReadChunk(b)
         /\ UNCHANGED <<source, mtime, attrSha1, attrMtime, pc, file, stat,
                        hash>>
      BY <1>8, <2>2 DEF Copy, Goto, sourceVars, storeVars, indexVars,
         backupVars, bounds
    <3>2. /\ file[b] \in Sources /\ read[b] \notin Contents
         /\ \A c \in Backups \ {b} : read'[c] = read[c]
      <4>1. file[b] \in Sources /\ read[b] \notin Contents
        BY <3>1 DEF PlaceInv
      <4>2. QED
        BY <3>1, <4>1, ChunkRead
    <3>3. stat[b] = mtime[file[b]] => Prefix(read'[b], source[file[b]])
      BY <3>1, <3>2, PrefixRead DEF LookSound
    <3>4. \A g \in Sources : FileSound(g)'
      BY <3>1 DEF FileSound
    <3>5. LookSound(b)'
      BY <3>1, <3>3 DEF LookSound
    <3>6. ASSUME NEW c \in Backups, c # b PROVE Handling(c)' => LookSound(c)'
      BY <3>1, <3>2, <3>6 DEF LookSound
    <3>7. QED
      BY <3>4, <3>5, <3>6
  <2>3. QED
    BY <2>1, <2>2
<1>9. ASSUME NEW b \in Backups, Rename(b)
      PROVE  SourceInv'
  BY <1>9 DEF LookSound, FileSound, Rename, Goto, sourceVars, storeVars,
     indexVars, backupVars, bounds
<1>10. ASSUME NEW b \in Backups, Compare(b)
      PROVE  SourceInv'
  <2>1. CASE Changed(b)
    <3>1. /\ pc[b] = "compare"
         /\ attrSha1' = [attrSha1 EXCEPT ![file[b]] = None]
         /\ attrMtime' = [attrMtime EXCEPT ![file[b]] = None]
         /\ pc' = [pc EXCEPT ![b] = "move"]
         /\ UNCHANGED <<source, mtime, file, stat, read, hash>>
      BY <1>10, <2>1 DEF Compare, Return, Goto, sourceVars, storeVars,
         indexVars, backupVars, bounds
    <3>2. /\ file[b] \in Sources /\ Running(b) /\ read[b] \in Contents
          /\ hash[b] \in Contents
      BY <3>1 DEF PlaceInv, Running, Hashes
    <3>3. LookSound(b)
      BY <3>1
    <3>5. \A g \in Sources : FileSound(g)'
      BY <3>1, <3>2 DEF FileSound
    <3>6. LookSound(b)'
      BY <3>1, <3>2, <3>3 DEF LookSound
    <3>7. ASSUME NEW c \in Backups, c # b, Handling(c)' PROVE LookSound(c)'
      BY <3>1, <3>7 DEF LookSound
    <3>8. QED
      BY <3>5, <3>6, <3>7
  <2>2. CASE ~Changed(b)
    <3>1. /\ pc[b] = "compare" /\ pc' = [pc EXCEPT ![b] = "next"]
         /\ file' = [file EXCEPT ![b] = None]
         /\ read' = [read EXCEPT ![b] = <<>>]
         /\ hash' = [hash EXCEPT ![b] = None]
         /\ UNCHANGED <<source, mtime, attrSha1, attrMtime, stat>>
      BY <1>10, <2>2 DEF Compare, Return, Goto, sourceVars, storeVars,
         indexVars, backupVars, bounds
    <3>2. QED
      BY <3>1, <2>2 DEF LookSound, FileSound
  <2>3. QED
    BY <2>1, <2>2
<1>11. ASSUME NEW b \in Backups, Move(b)
      PROVE  SourceInv'
  BY <1>11 DEF LookSound, FileSound, Move, Return, Goto, sourceVars,
     storeVars, indexVars, backupVars, bounds
<1>12. ASSUME NEW b \in Backups, Finish(b)
      PROVE  SourceInv'
  BY <1>12 DEF LookSound, FileSound, Finish, Goto, sourceVars, storeVars,
     indexVars, backupVars, bounds
<1>13. ASSUME NEW b \in Backups, Kill(b)
      PROVE  SourceInv'
  <2>1. /\ Running(b) /\ pc' = [pc EXCEPT ![b] = "done"]
       /\ file' = [file EXCEPT ![b] = None] /\ stat' = [stat EXCEPT ![b] = 0]
       /\ read' = [read EXCEPT ![b] = <<>>]
       /\ hash' = [hash EXCEPT ![b] = None]
       /\ UNCHANGED <<source, mtime, attrSha1, attrMtime>>
    BY <1>13 DEF Kill, Goto, sourceVars, storeVars, indexVars, backupVars,
       bounds
  <2>2. \A g \in Sources : FileSound(g)'
    BY <2>1 DEF FileSound
  <2>3. LookSound(b)' \/ ~Handling(b)'
    BY <2>1 DEF LookSound
  <2>4. ASSUME NEW c \in Backups, c # b PROVE Handling(c)' => LookSound(c)'
    BY <2>1, <2>4 DEF LookSound
  <2>5. QED
    BY <2>2, <2>3, <2>4
<1>14. ASSUME NEW b \in Backups, Collect(b)
      PROVE  SourceInv'
  BY <1>14 DEF LookSound, FileSound, Collect, Referenced, Goto, sourceVars,
     storeVars, indexVars, backupVars, bounds
<1>15. ASSUME NEW f \in Sources, Change(f)
      PROVE  SourceInv'
  <2>1. /\ \A g \in Sources : g # f => source'[g] = source[g]
       /\ mtime' = [mtime EXCEPT ![f] = mtime[f] + 1]
       /\ UNCHANGED <<attrSha1, attrMtime, pc, file, stat, read, hash>>
    BY <1>15 DEF Change, Goto, sourceVars, storeVars, indexVars, backupVars,
       bounds
  <2>2. \A g \in Sources : FileSound(g)'
    BY <2>1 DEF FileSound
  <2>3. ASSUME NEW c \in Backups, Handling(c)' PROVE LookSound(c)'
    <3>1. Handling(c) /\ LookSound(c) /\ file[c] \in Sources
      BY <2>1, <2>3 DEF PlaceInv
    <3>2. CASE file[c] = f
      BY <2>1, <3>1, <3>2 DEF LookSound
    <3>3. CASE file[c] # f
      BY <2>1, <3>1, <3>3 DEF LookSound
    <3>4. QED
      BY <3>2, <3>3
  <2>4. QED
    BY <2>2, <2>3
<1>16. CASE UNCHANGED vars
  BY <1>16 DEF LookSound, FileSound, vars, sourceVars, storeVars, indexVars,
     backupVars, bounds
<1>17. QED
  BY <1>1, <1>2, <1>3, <1>4, <1>5, <1>6, <1>7, <1>8, <1>9, <1>10, <1>11,
     <1>12, <1>13, <1>14, <1>15, <1>16, <1>18 DEF Next, Step

-----------------------------------------------------------------------------
(* The attributes.  The steps that set or remove one, and the others.      *)
AttrSame == UNCHANGED <<source, mtime, attrSha1, attrMtime>>

(* What has been noted stays noted until the file changes. *)
LEMMA RacedStays ==
    ASSUME TypeOK, [Next]_vars, NEW f \in Sources, mtime'[f] = mtime[f]
    PROVE  /\ f \in raced => f \in raced'
           /\ ~ UNCHANGED vars /\ Racing(f)' => f \in raced'
BY DEF Next, Watch, vars, history

(* All other steps leave the attributes alone, and do not come to their    *)
(* second setXAttr().                                                      *)
LEMMA OtherSteps ==
    ASSUME IInv, [Next]_vars
    PROVE  \/ \E b \in Backups :
                 SetSha1(b) \/ SetMtime(b) \/ (Compare(b) /\ Changed(b))
           \/ \E f \in Sources : Change(f)
           \/ /\ AttrSame
              /\ \A c \in Backups : pc'[c] = "mtime" =>
                    pc[c] = "mtime" /\ file'[c] = file[c] /\ stat'[c] = stat[c]
<1> DEFINE Q == /\ AttrSame
                /\ \A c \in Backups : pc'[c] = "mtime" =>
                      pc[c] = "mtime" /\ file'[c] = file[c] /\ stat'[c] = stat[c]
<1>0. TypeOK
  BY DEF IInv
<1>1. ASSUME NEW b \in Backups, Step(b) \/ Kill(b),
             AttrSame, pc'[b] # "mtime"
      PROVE  Q
  BY <1>1, OthersStay
<1> USE DEF Goto, Return, sourceVars, AttrSame
<1>2. ASSUME NEW b \in Backups,
             \/ Start(b) \/ (\E f \in Sources : Look(b, f)) \/ AskAttributes(b)
             \/ Hash(b) \/ AskContains(b) \/ Open(b) \/ Copy(b) \/ Rename(b)
             \/ (Compare(b) /\ ~Changed(b)) \/ Move(b) \/ Finish(b) \/ Kill(b)
      PROVE  AttrSame /\ pc'[b] # "mtime"
  <2>1. pc \in [Backups -> {"start", "next", "attributes", "hash", "sha1",
                "mtime", "contains", "open", "copy", "rename", "compare",
                "move", "done"}]
    BY <1>0 DEF TypeOK
  <2>2. CASE Start(b) \/ (\E f \in Sources : Look(b, f))
    BY <2>1, <2>2 DEF Start, Look
  <2>3. CASE AskAttributes(b)
    BY <2>1, <2>3 DEF AskAttributes
  <2>4. CASE Hash(b)
    BY <2>1, <2>4 DEF Hash
  <2>5. CASE AskContains(b)
    BY <2>1, <2>5 DEF AskContains
  <2>6. CASE Open(b)
    BY <2>1, <2>6 DEF Open
  <2>7. CASE Copy(b)
    BY <2>1, <2>7 DEF Copy
  <2>8. CASE Rename(b)
    BY <2>1, <2>8 DEF Rename
  <2>9. CASE Compare(b) /\ ~Changed(b)
    BY <2>1, <2>9 DEF Compare
  <2>10. CASE Move(b)
    BY <2>1, <2>10 DEF Move
  <2>11. CASE Finish(b) \/ Kill(b)
    BY <2>1, <2>11 DEF Finish, Kill
  <2>12. QED
    BY <1>2, <2>2, <2>3, <2>4, <2>5, <2>6, <2>7, <2>8, <2>9, <2>10, <2>11
<1>3. ASSUME NEW b \in Backups, Collect(b)
      PROVE  Q
  BY <1>3 DEF Collect, backupVars
<1>4. CASE UNCHANGED vars
  BY <1>4 DEF vars, backupVars
<1>5. QED
  <2>1. ASSUME NEW b \in Backups, Step(b) \/ Kill(b)
        PROVE  Q \/ SetSha1(b) \/ SetMtime(b) \/ (Compare(b) /\ Changed(b))
    BY <2>1, <1>1, <1>2 DEF Step
  <2>2. QED
    BY <1>3, <1>4, <2>1 DEF Next

LEMMA Earlier == \A m, n \in Nat : n <= m /\ n # m => m > n
OBVIOUS

(* SetMtime() writes the mtime from before the file was read; another hash *)
(* comes beside a current mtime only where two backups race.               *)
LEMMA NextAttr ==
    ASSUME IInv, [Next]_vars
    PROVE  AttrSound' /\ RaceInv'
<1> USE DEF IInv, TypeOK, AttrSound, Trusted, RaceInv
<1>1. ASSUME NEW b \in Backups, SetSha1(b)
      PROVE  AttrSound' /\ RaceInv'
  <2>1. /\ pc[b] = "sha1" /\ attrSha1' = [attrSha1 EXCEPT ![file[b]] = hash[b]]
        /\ pc' = [pc EXCEPT ![b] = "mtime"]
        /\ UNCHANGED <<source, mtime, attrMtime, file, stat, hash>>
    BY <1>1 DEF SetSha1, Goto, indexVars, storeVars
  <2>2. file[b] \in Sources /\ LookSound(b)
    BY <2>1 DEF PlaceInv, SourceInv, Handling
  <2>3. /\ stat[b] <= mtime[file[b]]
        /\ stat[b] = mtime[file[b]] => hash[b] = source[file[b]]
    BY <2>1, <2>2 DEF LookSound, Hashed
  <2>4. /\ raced \subseteq raced'
        /\ \A f \in Sources : Racing(f)' => f \in raced'
    <3>1. ~ UNCHANGED vars
      BY <2>1 DEF vars, backupVars
    <3>2. QED
      BY <2>1, <3>1, RacedStays
  <2>5. ASSUME NEW f \in Sources, f = file[b], f \notin raced',
               stat[b] # mtime[f]
        PROVE  /\ attrMtime[f] # mtime[f]
               /\ \A c \in Backups : pc[c] = "mtime" /\ file[c] = f
                      => stat[c] # mtime[f]
    <3>1. ~ Racing(f)'
      BY <2>4, <2>5
    <3>2. ~ (attrMtime[f] # None /\ attrMtime[f] > stat[b])
      BY <2>1, <2>5, <3>1 DEF Racing
    <3>3. \A c \in Backups : pc[c] = "mtime" /\ file[c] = f => stat[c] = stat[b]
      BY <2>1, <2>5, <3>1 DEF Racing
    <3>4. attrMtime[f] # mtime[f]
      <4>1. mtime[f] \in Nat /\ stat[b] \in Nat /\ stat[b] <= mtime[f]
        BY <2>3, <2>5
      <4>2. mtime[f] # None
        BY <4>1, ConstantsAssumption
      <4>3. mtime[f] > stat[b]
        BY <2>5, <4>1, Earlier, Zenon
      <4>4. SUFFICES ASSUME attrMtime[f] = mtime[f] PROVE FALSE
        OBVIOUS
      <4>5. attrMtime[f] # None /\ attrMtime[f] > stat[b]
        BY <4>2, <4>3, <4>4
      <4>6. QED
        BY <3>2, <4>5, Zenon
    <3>5. QED
      BY <2>5, <3>3, <3>4
  <2>6. AttrSound'
    BY <2>1, <2>2, <2>3, <2>4, <2>5
  <2>7. RaceInv'
    BY <2>1, <2>2, <2>3, <2>4, <2>5
  <2>8. QED
    BY <2>6, <2>7
<1>2. ASSUME NEW b \in Backups, SetMtime(b)
      PROVE  AttrSound' /\ RaceInv'
  <2>1. /\ pc[b] = "mtime"
        /\ attrMtime' = [attrMtime EXCEPT ![file[b]] = stat[b]]
        /\ pc' = [pc EXCEPT ![b] = "contains"]
        /\ UNCHANGED <<source, mtime, attrSha1, file, stat, hash>>
    BY <1>2 DEF SetMtime, Goto, indexVars, storeVars
  <2>2. file[b] \in Sources
    BY <2>1 DEF PlaceInv, Handling
  <2>3. raced \subseteq raced'
    BY <2>1, RacedStays
  <2>4. QED
    BY <2>1, <2>2, <2>3
<1>3. ASSUME NEW b \in Backups, Compare(b), Changed(b)
      PROVE  AttrSound' /\ RaceInv'
  <2>1. /\ pc[b] = "compare"
        /\ attrSha1' = [attrSha1 EXCEPT ![file[b]] = None]
        /\ attrMtime' = [attrMtime EXCEPT ![file[b]] = None]
        /\ pc' = [pc EXCEPT ![b] = "move"]
        /\ UNCHANGED <<source, mtime, file, stat, hash>>
    BY <1>3 DEF Compare, Goto, storeVars
  <2>2. file[b] \in Sources
    BY <2>1 DEF PlaceInv, Handling
  <2>3. raced \subseteq raced'
    BY <2>1, RacedStays
  <2>4. QED
    BY <2>1, <2>2, <2>3
<1>4. ASSUME NEW f \in Sources, Change(f)
      PROVE  AttrSound' /\ RaceInv'
  <2>1. /\ \A g \in Sources : g # f => source'[g] = source[g]
        /\ mtime' = [mtime EXCEPT ![f] = mtime[f] + 1]
        /\ UNCHANGED <<attrSha1, attrMtime, pc, file, stat, hash>>
    BY <1>4 DEF Change, backupVars
  <2>2. \A g \in Sources : attrMtime[g] # None =>
              attrMtime[g] \in Nat /\ attrMtime[g] <= mtime[g]
    BY DEF SourceInv, FileSound
  <2>3. \A b \in Backups : pc[b] = "mtime" => file[b] \in Sources
              /\ stat[b] <= mtime[file[b]]
    BY DEF SourceInv, LookSound, PlaceInv, Handling
  <2>4. \A g \in Sources : g # f /\ g \in raced => g \in raced'
    BY <2>1, RacedStays
  <2>5. attrMtime[f] # mtime'[f]
    BY <2>1, <2>2, ConstantsAssumption
  <2>6. AttrSound'
    BY <2>1, <2>4, <2>5
  <2>7. \A b \in Backups : pc[b] = "mtime" /\ file[b] = f => stat[b] # mtime'[f]
    BY <2>1, <2>3
  <2>8. RaceInv'
    BY <2>1, <2>3, <2>4, <2>7
  <2>9. QED
    BY <2>6, <2>8
<1>5. ASSUME AttrSame, 
             \A c \in Backups : pc'[c] = "mtime" =>
                    pc[c] = "mtime" /\ file'[c] = file[c] /\ stat'[c] = stat[c]
      PROVE  AttrSound' /\ RaceInv'
  <2>1. raced \subseteq raced'
    BY <1>5, RacedStays DEF AttrSame
  <2>2. QED
    BY <1>5, <2>1 DEF AttrSame, PlaceInv, Handling
<1>6. QED
  BY <1>1, <1>2, <1>3, <1>4, <1>5, OtherSteps

-----------------------------------------------------------------------------
(* What the two renames do to the names of the blobs.                      *)
LEMMA ReplacedIs ==
    ASSUME NEW from, NEW h
    PROVE  /\ \A x \in Replaced(h, from) :
                  \/ x \in files /\ (x[1] # h \/ from = {})
                  \/ \E y \in from : x = <<h, y[2]>>
           /\ \A x \in files : x[1] # h => x \in Replaced(h, from)
           /\ \A y \in from : <<h, y[2]>> \in Replaced(h, from)
           /\ from = {} => Replaced(h, from) = files
BY DEF Replaced, Renamed, Names

(* ShabackOutputStream::finish(). *)
LEMMA RenameIs ==
    ASSUME TypeOK, NEW b \in Backups, hash[b] \in Hashes, Rename(b)
    PROVE  /\ files' \subseteq files \cup Names(tmp, hash[b])
           /\ Names(tmp, hash[b]) \subseteq files'
           /\ \A x \in files' : x \in files /\ x[1] = hash[b] =>
                    x \in tmp \/ Names(tmp, hash[b]) = {}
           /\ \A x \in files : x[1] # hash[b] \/ Names(tmp, hash[b]) = {} =>
                    x \in files'
           /\ tmp' = tmp \ Names(tmp, hash[b])
<1> DEFINE h == hash[b]
           N == Names(tmp, h)
<1>1. \A y \in N : y \in tmp /\ y = <<h, y[2]>>
  BY DEF Names, TypeOK, Directory
<1>2. files' = Replaced(h, N) /\ tmp' = tmp \ N
  BY DEF Rename
<1>3. \A x \in files : x \notin N \/ x \in tmp
  BY <1>1
<1>4. /\ files' \subseteq files \cup N /\ N \subseteq files'
      /\ \A x \in files' : x \in files /\ x[1] = h => x \in tmp \/ N = {}
      /\ \A x \in files : x[1] # h \/ N = {} => x \in files'
  <2> HIDE DEF N, h
  <2>1. QED
    BY <1>1, <1>2, <1>3, ReplacedIs
<1>5. QED
  BY <1>2, <1>4

(* Line 340. *)
LEMMA MoveIs ==
    ASSUME TypeOK, NEW b \in Backups, hash[b] \in Hashes, read[b] \in Hashes,
           Changed(b), Move(b)
    PROVE  /\ \A x \in files' :
                  \/ x \in files /\ x[1] # hash[b]
                  \/ \E y \in files : y[1] = hash[b] /\ x = <<read[b], y[2]>>
           /\ \A x \in files : x[1] # hash[b] /\ x[1] # read[b] => x \in files'
           /\ \A y \in files : y[1] = hash[b] => <<read[b], y[2]>> \in files'
           /\ \A x \in files' : x \in files /\ x[1] = read[b] =>
                    \/ ~Stored(hash[b])
                    \/ \E y \in files : y[1] = hash[b] /\ x[2] = y[2]
           /\ ~Stored(hash[b]) => files' = files
<1> DEFINE N == Names(files, hash[b])
<1>1. files' = Replaced(read[b], N) \ N
  BY DEF Move
<1>2. \A y : y \in N <=> y \in files /\ y[1] = hash[b]
  BY DEF Names
<1>4. N = {} => ~Stored(hash[b])
  <2>1. \A i : <<hash[b], i>> \in files => <<hash[b], i>> \in N
    BY <1>2
  <2>2. QED
    BY <2>1 DEF Stored
<1> HIDE DEF N
<1>5. read[b] # hash[b]
  BY DEF Changed
<1>6. /\ \A x \in files' : x \in Replaced(read[b], N) /\ x \notin N
      /\ \A x \in Replaced(read[b], N) : x \notin N => x \in files'
  BY <1>1
<1>7. \A y \in N : <<read[b], y[2]>> \notin N
  BY <1>2, <1>5
<1>8. \A x \in files : x[1] # hash[b] /\ x[1] # read[b] => x \in files'
  BY <1>2, <1>6, ReplacedIs
<1>9. ~Stored(hash[b]) => files' = files
  <2>1. \A x \in N : x = <<hash[b], x[2]>> /\ x[2] \in Inodes
    BY <1>2 DEF TypeOK, Directory
  <2>2. ~Stored(hash[b]) => N = {}
    BY <1>2, <2>1 DEF Stored
  <2>3. N = {} => Replaced(read[b], N) = files
    BY ReplacedIs
  <2>4. QED
    BY <1>1, <2>2, <2>3
<1>10. QED
  BY <1>2, <1>4, <1>5, <1>6, <1>7, <1>8, <1>9, ReplacedIs

(* An inode is made once, by one backup, for one file. *)
LEMMA NextInode ==
    ASSUME IInv, [Next]_vars
    PROVE  InodeInv'
<1> USE DEF IInv
<1>1. ASSUME NEW b \in Backups,
             \/ Start(b) \/ (\E f \in Sources : Look(b, f)) \/ AskAttributes(b)
             \/ Hash(b) \/ SetSha1(b) \/ SetMtime(b) \/ Copy(b) \/ Compare(b)
             \/ Finish(b) \/ Kill(b)
      PROVE  InodeInv'
  <2>1. /\ UNCHANGED <<tmp, files>>
        /\ Writing(b)' => Writing(b) /\ inode'[b] = inode[b]
        /\ todo'[b] \subseteq todo[b] \/ pc[b] = "start"
        /\ Handling(b)' => file'[b] \notin todo'[b]
        /\ pc'[b] # "start"
        /\ Fresh(b)' => (Fresh(b) /\ file'[b] = file[b]) \/ file'[b] \in todo[b]
    BY <1>1 DEF Start, Look, AskAttributes, Return, Hash, SetSha1, SetMtime,
       Copy, Compare, Finish, Kill, Goto, Running, storeVars, TypeOK, InodeInv,
       PlaceInv, Handling, Writing, Fresh
  <2>2. \A c \in Backups : c # b =>
           /\ todo'[c] = todo[c] /\ file'[c] = file[c]
           /\ inode'[c] = inode[c] /\ pc'[c] = pc[c]
    BY <1>1, OthersStay DEF Step
  <2>3. \A i \in Inodes : Used(i) => Used(i)'
    BY <2>1, <2>2 DEF Used, Fresh, Inodes
  <2>4. \A c \in Backups : Handling(c)' => file'[c] \notin todo'[c]
    BY <2>1, <2>2 DEF InodeInv, Handling
  <2>5. ASSUME NEW c \in Backups, Writing(c)' PROVE Used(inode[c])'
    <3>1. Writing(c) /\ inode'[c] = inode[c]
      BY <2>1, <2>2, <2>5 DEF Writing
    <3>2. Used(inode[c]) /\ inode[c] \in Inodes
      BY <3>1 DEF InodeInv, PlaceInv
    <3>3. QED
      BY <2>3, <3>1, <3>2 DEF Used
  <2>6. \A x \in tmp \cup files : Used(x[2])'
    BY <2>3 DEF InodeInv, TypeOK, Directory
  <2>7. QED
    BY <2>1, <2>4, <2>5, <2>6 DEF InodeInv
<1>9. ASSUME NEW b \in Backups, AskContains(b)
      PROVE  InodeInv'
  <2>1. CASE Contains(b, hash[b])
    <3>1. /\ pc[b] = "contains" /\ file' = [file EXCEPT ![b] = None]
          /\ pc' = [pc EXCEPT ![b] = "next"]
          /\ inode' = [inode EXCEPT ![b] = None]
          /\ UNCHANGED <<tmp, files, todo>>
      BY <1>9, <2>1 DEF AskContains, Return, Goto, sourceVars, storeVars,
         indexVars, backupVars, bounds
    <3>2. \A i \in Inodes : Used(i) => Used(i)'
      BY <3>1 DEF Used, Inodes, TypeOK, Fresh, InodeInv
    <3>3. QED
      BY <3>1, <3>2 DEF InodeInv, TypeOK, Directory, PlaceInv, Handling,
         Writing
  <2>2. CASE ~Contains(b, hash[b])
    <3>1. /\ pc[b] = "contains" /\ pc' = [pc EXCEPT ![b] = "open"]
          /\ UNCHANGED <<tmp, files, todo, file, inode>>
      BY <1>9, <2>2 DEF AskContains, Goto, storeVars
    <3>2. \A i \in Inodes : Used(i) => Used(i)'
      BY <3>1 DEF Used, Inodes, TypeOK, Fresh, InodeInv
    <3>3. QED
      BY <3>1, <3>2 DEF InodeInv, TypeOK, Directory, PlaceInv, Handling,
         Writing
  <2>3. QED
    BY <2>1, <2>2
<1>2. ASSUME NEW b \in Backups, Open(b)
      PROVE  InodeInv'
  <2>1. /\ pc[b] = "open" /\ pc' = [pc EXCEPT ![b] = "copy"]
        /\ UNCHANGED <<files, todo, file>>
    BY <1>2 DEF Open, Goto
  <2>2. TypeOK /\ file[b] \in Sources /\ file[b] \notin todo[b]
    BY <2>1 DEF PlaceInv, InodeInv, Handling
  <2>3. PICK i \in Inodes :
           /\ IF \E j \in Inodes : <<hash[b], j>> \in tmp
              THEN <<hash[b], i>> \in tmp ELSE i = <<b, file[b]>>
           /\ tmp' = tmp \cup {<<hash[b], i>>}
           /\ inode' = [inode EXCEPT ![b] = i]
    BY <1>2 DEF Open
  <2>4. \A k \in Inodes : Used(k) => Used(k)'
    BY <2>1, <2>2 DEF Used, Inodes, TypeOK, Fresh
  <2>5. <<hash[b], i>> \in tmp \/ (i = <<b, file[b]>> /\ ~Used(i))
    BY <2>1, <2>3 DEF Used, Fresh
  <2>6. Used(i)'
    <3>1. CASE <<hash[b], i>> \in tmp
      <4>1. Used(i)
        BY <3>1 DEF InodeInv
      <4>2. QED
        BY <2>4, <4>1
    <3>2. CASE i = <<b, file[b]>>
      BY <2>1, <2>2, <3>2 DEF Used, Fresh, TypeOK
    <3>3. QED
      BY <2>5, <3>1, <3>2
  <2>7. \A x \in tmp \cup files : x[2] = i => <<hash[b], i>> \in tmp
    BY <2>5 DEF InodeInv
  <2>8. /\ \A x \in tmp' : \A y \in files' : x[2] # y[2]
        /\ \A x, y \in tmp' : x[2] = y[2] => x = y
    BY <2>1, <2>3, <2>7 DEF InodeInv
  <2>9. \A x \in tmp' \cup files' : Used(x[2])'
    BY <2>1, <2>2, <2>3, <2>4, <2>6 DEF InodeInv, TypeOK, Directory
  <2>10. \A c \in Backups : Writing(c)' => Used(inode[c])'
    <3>1. \A c \in Backups : c # b /\ Writing(c)' =>
                inode[c] \in Inodes /\ Used(inode[c])
      BY <2>1, <2>2 DEF InodeInv, TypeOK, PlaceInv, Writing
    <3>2. /\ \A c \in Backups : c # b => inode'[c] = inode[c]
         /\ inode'[b] = i
      BY <2>2, <2>3 DEF TypeOK
    <3>3. QED
      BY <2>4, <2>6, <3>1, <3>2 DEF Used
  <2>11. \A c \in Backups : Handling(c)' => file'[c] \notin todo'[c]
    BY <2>1, <2>2 DEF InodeInv, Handling, TypeOK
  <2>12. QED
    BY <2>1, <2>8, <2>9, <2>10, <2>11 DEF InodeInv
<1>3. ASSUME NEW b \in Backups, Rename(b)
      PROVE  InodeInv'
  <2>1. /\ pc[b] = "rename" /\ tmp' = tmp \ Names(tmp, hash[b])
        /\ files' = Replaced(hash[b], Names(tmp, hash[b]))
        /\ pc' = [pc EXCEPT ![b] = "compare"]
        /\ UNCHANGED <<todo, file, inode>>
    BY <1>3 DEF Rename, Goto, sourceVars, storeVars, indexVars, backupVars,
       bounds
  <2>2. TypeOK /\ hash[b] \in Hashes
    BY <2>1 DEF PlaceInv, Hashed
  <2>3. /\ tmp' \subseteq tmp /\ \A x \in tmp' : x \notin Names(tmp, hash[b])
        /\ files' \subseteq files \cup Names(tmp, hash[b])
        /\ Names(tmp, hash[b]) \subseteq tmp
    BY <1>3, <2>2, RenameIs DEF Names
  <2>4. \A i \in Inodes : Used(i) => Used(i)'
    BY <2>1, <2>2 DEF Used, Inodes, TypeOK, Fresh
  <2>5. \A x \in tmp' \cup files' : x \in tmp \cup files /\ x[2] \in Inodes
    BY <2>2, <2>3 DEF TypeOK, Directory
  <2>6. /\ \A x \in tmp' : \A y \in files' : x[2] # y[2]
        /\ \A x, y \in tmp' : x[2] = y[2] => x = y
        /\ \A x, y \in files' : x[2] = y[2] => x = y
    BY <2>3 DEF InodeInv
  <2>7. \A x \in tmp' \cup files' : Used(x[2])'
    BY <2>4, <2>5 DEF InodeInv
  <2>8. \A c \in Backups : Writing(c)' => Used(inode[c])'
    BY <2>1, <2>2, <2>4 DEF InodeInv, TypeOK, PlaceInv, Writing
  <2>9. \A c \in Backups : Handling(c)' => file'[c] \notin todo'[c]
    BY <2>1, <2>2 DEF InodeInv, Handling, TypeOK
  <2>10. QED
    BY <2>6, <2>7, <2>8, <2>9 DEF InodeInv
<1>4. ASSUME NEW b \in Backups, Move(b)
      PROVE  InodeInv'
  <2>1. /\ pc[b] = "move"
        /\ files' = Replaced(read[b], Names(files, hash[b])) \ Names(files, hash[b])
        /\ file' = [file EXCEPT ![b] = None] /\ pc' = [pc EXCEPT ![b] = "next"]
        /\ inode' = [inode EXCEPT ![b] = None] /\ UNCHANGED <<tmp, todo>>
    BY <1>4 DEF Move, Return, Goto, sourceVars, storeVars, indexVars,
       backupVars, bounds
  <2>2. TypeOK /\ hash[b] \in Hashes /\ read[b] \in Hashes /\ Changed(b)
    BY <2>1 DEF PlaceInv, Hashed, Hashes
  <2>3. \A x \in files' :
           \/ x \in files /\ x[1] # hash[b]
           \/ \E y \in files : y[1] = hash[b] /\ x = <<read[b], y[2]>>
    BY <1>4, <2>2, MoveIs
  <2>4. \A i \in Inodes : Used(i) => Used(i)'
    BY <2>1, <2>2 DEF Used, Inodes, TypeOK, Fresh
  <2>5. \A x \in files' : \E y \in files : x[2] = y[2]
    BY <2>3
  <2>6. \A x, y \in files' : x[2] = y[2] => x = y
    <3>1. \A x, y \in files : x[2] = y[2] => x = y
      BY DEF InodeInv
    <3>2. QED
      BY <2>3, <3>1
  <2>7. QED
    BY <2>1, <2>2, <2>4, <2>5, <2>6 DEF InodeInv, TypeOK, Directory, PlaceInv,
       Handling, Writing
<1>5. ASSUME NEW b \in Backups, Collect(b)
      PROVE  InodeInv'
  <2>1. /\ \A c \in Backups : ~Running(c)
        /\ b \in index /\ tmp' = {}
        /\ files' = {x \in files : x[1] \in Referenced(index \ {b})}
        /\ UNCHANGED <<todo, file, pc, inode>>
    BY <1>5 DEF Collect, Referenced, Goto, sourceVars, storeVars, indexVars,
       backupVars, bounds
  <2>2. \A i \in Inodes : Used(i) => Used(i)'
    BY <2>1 DEF Used, Inodes, TypeOK, Fresh, InodeInv
  <2>3. QED
    BY <2>1, <2>2 DEF InodeInv, TypeOK, Directory, PlaceInv, Handling, Writing
<1>6. ASSUME NEW f \in Sources, Change(f)
      PROVE  InodeInv'
  <2>1. UNCHANGED <<tmp, files, todo, file, pc, inode>>
    BY <1>6 DEF Change, Goto, sourceVars, storeVars, indexVars, backupVars,
       bounds
  <2>2. \A i \in Inodes : Used(i) => Used(i)'
    BY <2>1 DEF Used, Inodes, TypeOK, Fresh, InodeInv
  <2>3. QED
    BY <2>1, <2>2 DEF InodeInv, TypeOK, Directory, PlaceInv, Handling, Writing
<1>7. CASE UNCHANGED vars
  BY <1>7 DEF TypeOK, InodeInv, Handling, Writing, Fresh, Used, vars,
     sourceVars, storeVars, indexVars, backupVars, bounds
<1>8. QED
  BY <1>1, <1>2, <1>3, <1>4, <1>5, <1>6, <1>7, <1>9 DEF Next, Step

-----------------------------------------------------------------------------
(* Where backups meet.  Next, told by who moves.                           *)
Stepped(b) == Step(b) /\ Watch(astray \cup Moved(b))
Killed(b) == Kill(b) /\ Watch(astray \cup Left(b))
Collected(b) == Collect(b) /\ Watch(astray \cap Referenced(index'))
Altered(f) == Change(f) /\ Watch(astray)

(* Who is misled is noted; only gc forgets. *)
LEMMA AstrayIs ==
    /\ \A b \in Backups : Stepped(b) =>
          astray \subseteq astray' /\ Misled' \subseteq astray' /\ Moved(b) \subseteq astray'
    /\ \A b \in Backups : Killed(b) =>
          astray \subseteq astray' /\ Misled' \subseteq astray' /\ Left(b) \subseteq astray'
    /\ \A b \in Backups : Collected(b) =>
          astray' = (astray \cap Referenced(index')) \cup Misled'
    /\ \A f \in Sources : Altered(f) => astray \subseteq astray' /\ Misled' \subseteq astray'
BY DEF Stepped, Killed, Collected, Altered, Watch

LEMMA NextIs ==
    Next => \/ \E b \in Backups : Stepped(b) \/ Killed(b) \/ Collected(b)
            \/ \E f \in Sources : Altered(f)
BY DEF Next, Stepped, Killed, Collected, Altered

LEMMA NextMisled ==
    ASSUME IInv, [Next]_vars
    PROVE  MisledInv'
<1>1. CASE UNCHANGED vars
  BY <1>1 DEF vars, history, backupVars, indexVars, IInv, MisledInv, Misled,
     Deviating, Meets, Storing, Uses
<1>2. CASE Next
  BY <1>2, NextIs, AstrayIs DEF MisledInv
<1>3. QED
  BY <1>1, <1>2

(* What does not move does not change its part in a meeting. *)
LEMMA OthersUse ==
    ASSUME IInv, NEW b \in Backups, Step(b) \/ Kill(b), NEW c \in Backups,
           c # b
    PROVE  /\ Storing(c)' <=> Storing(c)
           /\ Writing(c)' <=> Writing(c)
           /\ Placing(c)' <=> Placing(c)
           /\ Placed(c)' <=> Placed(c)
           /\ Deviating(c)' <=> Deviating(c)
           /\ \A h : Uses(c, h)' <=> Uses(c, h)
           /\ \A d \in Backups : d # b => (Meets(c, d)' <=> Meets(c, d))
           /\ \A h : Uses(b, h)' /\ h = hash[c] /\ Storing(c) => Meets(c, b)'
           /\ \A h : Uses(b, h) /\ h = hash[c] /\ Storing(c) => Meets(c, b)
           /\ Meets(c, b)' => Uses(b, hash[c])'
           /\ Meets(c, b) => Uses(b, hash[c])
<1>1. /\ pc'[c] = pc[c] /\ read'[c] = read[c] /\ hash'[c] = hash[c]
      /\ entries'[c] = entries[c]
  BY OthersStay
<1>2. \A d \in Backups : d # b => pc'[d] = pc[d] /\ hash'[d] = hash[d]
                                 /\ entries'[d] = entries[d]
  BY OthersStay
<1>3. QED
  BY <1>1, <1>2 DEF Storing, Writing, Placing, Placed, Deviating, Uses, Meets

(* Who meets nobody, and then somebody, has not deviated so far. *)
LEMMA Joined ==
    ASSUME IInv, NEW b \in Backups, Step(b) \/ Kill(b), Misled' \subseteq astray',
           NEW c \in Backups, c # b, Storing(c), Solo(c), ~Solo(c)',
           hash[c] \notin astray'
    PROVE  ~Deviating(c) /\ Uses(b, hash[c])' /\ ~Uses(b, hash[c])
<1>1. PICK d \in Backups : Meets(c, d)'
  BY DEF Solo
<1>2. d = b
  BY <1>1, OthersUse DEF Solo
<1>3. Uses(b, hash[c])'
  BY <1>1, <1>2, OthersUse
<1>4. ~Uses(b, hash[c])
  BY OthersUse DEF Solo
<1>5. ~Deviating(c)
  <2>1. hash'[c] = hash[c]
    BY OthersStay
  <2>2. Deviating(c)' => hash'[c] \in Misled'
    BY <1>1 DEF Misled
  <2>3. QED
    BY <2>1, <2>2, OthersUse
<1>6. QED
  BY <1>3, <1>4, <1>5

(* One that has deviated is alone with its hash, or the hash is astray. *)
LEMMA DeviatesAlone ==
    ASSUME IInv, NEW b \in Backups, Deviating(b), hash[b] \notin astray
    PROVE  Solo(b)
BY DEF IInv, MisledInv, Misled, Solo

(* What one writes alone is right as long as it does not deviate. *)
LEMMA SoloWhole ==
    ASSUME IInv, NEW c \in Backups, Writing(c), hash[c] \notin astray, Solo(c),
           ~Deviating(c)
    PROVE  /\ hash[c] \in Hashes /\ inode[c] \in Inodes
           /\ Placing(c) => <<hash[c], inode[c]>> \in tmp
           /\ Placed(c) => <<hash[c], inode[c]>> \in files
           /\ pc[c] = "copy" => Copied(c, hash[c])
           /\ pc[c] # "copy" => data[inode[c]] = hash[c]
           /\ Whole(<<hash[c], inode[c]>>)
<1>1. hash[c] \in Hashes /\ inode[c] \in Inodes /\ read[c] \in Reads
  BY DEF IInv, PlaceInv, Hashed, Writing, TypeOK
<1>2. Storing(c)
  BY DEF Storing, Writing
<1>3. /\ Placing(c) => <<hash[c], inode[c]>> \in tmp
      /\ Placed(c) => <<hash[c], inode[c]>> \in files
      /\ Copied(c, read[c])
  BY <1>2 DEF IInv, SoloInv
<1>4. \A k \in 1..Len(read[c]) : read[c][k] = hash[c][k]
  BY <1>2 DEF Deviating
<1>5. \A k \in {1, 2} : k <= Len(read[c]) => read[c][k] = hash[c][k]
  BY <1>1, <1>4, ReadsType
<1>6. Copied(c, hash[c])
  BY <1>3, <1>5 DEF Copied
<1>7. pc[c] # "copy" => data[inode[c]] = hash[c]
  <2>1. SUFFICES ASSUME pc[c] # "copy" PROVE data[inode[c]] = hash[c]
    OBVIOUS
  <2>2. read[c] \in Contents
    BY <2>1 DEF IInv, PlaceInv, Writing
  <2>3. Len(read[c]) = 2
    BY <2>2, ContentType
  <2>4. data[inode[c]][1] = hash[c][1] /\ data[inode[c]][2] = hash[c][2]
    BY <1>6, <2>3 DEF Copied
  <2>5. data[inode[c]] \in [{1, 2} -> Chunks \cup {Hole}] /\ hash[c] \in Contents
    BY <1>1 DEF IInv, TypeOK, Hashes
  <2>6. QED
    BY <2>4, <2>5, DataIsHash
<1>8. Whole(<<hash[c], inode[c]>>)
  BY <1>6, <1>7 DEF Whole, Correct
<1>9. QED
  BY <1>1, <1>3, <1>6, <1>7, <1>8

(* A step that does not touch an inode. *)
LEMMA WholeStays ==
    ASSUME IInv, NEW b \in Backups, Step(b) \/ Kill(b), NEW x,
           data'[x[2]] = data[x[2]],
           ~(pc[b] = "copy" /\ inode[b] = x[2] /\ hash[b] = x[1])
    PROVE  Whole(x) => Whole(x)'
<1>1. Correct(x) => Correct(x)'
  BY DEF Correct
<1>2. ASSUME NEW c \in Backups, pc[c] = "copy", inode[c] = x[2], hash[c] = x[1],
             Copied(c, x[1])
      PROVE  Whole(x)'
  <2>1. c # b
    BY <1>2
  <2>2. /\ pc'[c] = pc[c] /\ read'[c] = read[c] /\ hash'[c] = hash[c]
        /\ inode'[c] = inode[c]
    BY <2>1, OthersStay
  <2>3. Copied(c, x[1])'
    BY <1>2, <2>2 DEF Copied
  <2>4. QED
    BY <1>2, <2>2, <2>3 DEF Whole
<1>3. QED
  BY <1>1, <1>2 DEF Whole

(* A name is a hash and an inode. *)
LEMMA NameIs ==
    ASSUME NEW S, Directory(S), NEW x \in S
    PROVE  x = <<x[1], x[2]>> /\ x[1] \in Hashes /\ x[2] \in Inodes
BY DEF Directory

-----------------------------------------------------------------------------
(* The steps that touch no blob.                                           *)
Still(b) ==
    \/ Start(b) \/ (\E f \in Sources : Look(b, f)) \/ AskAttributes(b)
    \/ Hash(b) \/ SetSha1(b) \/ SetMtime(b) \/ AskContains(b) \/ Compare(b)
    \/ Finish(b) \/ Kill(b)

(* What one does to its own part: it goes on with the same hash, or begins *)
(* with one that is not stored, or ends with what it has found to be right.*)
Returned(b) == pc[b] = "compare" /\ ~Changed(b)
StillPart(b) ==
    /\ UNCHANGED <<tmp, files, data>>
    /\ ~Placing(b)'
    /\ Storing(b)' =>
          /\ hash'[b] = hash[b] /\ inode'[b] = inode[b] /\ entries'[b] = entries[b]
          /\ read'[b] \in {read[b], <<>>}
          /\ \/ pc[b] = "contains" /\ pc'[b] = "open" /\ ~Stored(hash[b])
             \/ /\ pc[b] = "compare" /\ pc'[b] = "move" /\ Changed(b)
                /\ read'[b] = read[b]
    /\ \/ Kill(b)
       \/ /\ pc[b] # "copy" /\ entries[b] \subseteq entries'[b]
          /\ Storing(b) /\ ~Storing(b)' => Returned(b) /\ hash[b] \in entries'[b]
    /\ \A g \in entries'[b] :
          g \in entries[b] \/ Stored(g) \/ (Returned(b) /\ g = hash[b])

LEMMA StillIs ==
    ASSUME IInv, NEW b \in Backups, Still(b)
    PROVE  StillPart(b)
<1> USE DEF IInv, TypeOK, Goto, storeVars, StillPart, Returned, Storing,
   Placing, Handling
<1>1. CASE Start(b) \/ (\E f \in Sources : Look(b, f)) \/ Hash(b) \/ SetSha1(b)
           \/ SetMtime(b) \/ Finish(b)
  BY <1>1 DEF Start, Look, Hash, SetSha1, SetMtime, Finish, indexVars
<1>2. CASE AskAttributes(b)
  <2>1. CASE UpToDate(b) /\ Contains(b, attrSha1[file[b]])
    <3>1. pc[b] = "attributes" /\ Return(b, attrSha1[file[b]])
          /\ UNCHANGED <<tmp, files, data>>
      BY <1>2, <2>1 DEF AskAttributes
    <3>2. attrSha1[file[b]] \in entries[b] \/ Stored(attrSha1[file[b]])
      BY <2>1 DEF Contains, EndInv
    <3>3. QED
      BY <3>1, <3>2 DEF Return
  <2>2. CASE ~(UpToDate(b) /\ Contains(b, attrSha1[file[b]]))
    BY <1>2, <2>2 DEF AskAttributes
  <2>3. QED
    BY <2>1, <2>2
<1>3. CASE AskContains(b)
  <2>1. CASE Contains(b, hash[b])
    <3>1. pc[b] = "contains" /\ Return(b, hash[b])
          /\ UNCHANGED <<tmp, files, data>>
      BY <1>3, <2>1 DEF AskContains
    <3>2. hash[b] \in entries[b] \/ Stored(hash[b])
      BY <2>1 DEF Contains, EndInv
    <3>3. QED
      BY <3>1, <3>2 DEF Return
  <2>2. CASE ~Contains(b, hash[b])
    <3>1. /\ pc[b] = "contains" /\ pc' = [pc EXCEPT ![b] = "open"]
          /\ read' = [read EXCEPT ![b] = <<>>]
          /\ UNCHANGED <<tmp, files, data, entries, hash, inode>>
      BY <1>3, <2>2 DEF AskContains
    <3>2. ~Stored(hash[b])
      BY <2>2 DEF Contains
    <3>3. QED
      BY <3>1, <3>2
  <2>3. QED
    BY <2>1, <2>2
<1>4. CASE Compare(b)
  <2>1. CASE Changed(b)
    <3>1. /\ pc[b] = "compare" /\ pc' = [pc EXCEPT ![b] = "move"]
          /\ UNCHANGED <<tmp, files, data, entries, read, hash, inode>>
      BY <1>4, <2>1 DEF Compare
    <3>2. QED
      BY <2>1, <3>1
  <2>2. CASE ~Changed(b)
    <3>1. pc[b] = "compare" /\ Return(b, hash[b])
          /\ UNCHANGED <<tmp, files, data>>
      BY <1>4, <2>2 DEF Compare
    <3>2. QED
      BY <2>2, <3>1 DEF Return
  <2>3. QED
    BY <2>1, <2>2
<1>5. CASE Kill(b)
  BY <1>5 DEF Kill
<1>6. QED
  BY <1>1, <1>2, <1>3, <1>4, <1>5 DEF Still

(* One that meets somebody and is then alone has been left by a kill.      *)
LEMMA StillSolo ==
    ASSUME IInv, NEW b \in Backups, Still(b), Kill(b) => Left(b) \subseteq astray',
           NEW c \in Backups, c # b, Storing(c), hash[c] \notin astray', Solo(c)'
    PROVE  Solo(c)
<1>1. Step(b) \/ Kill(b)
  BY DEF Still, Step
<1>2. StillPart(b)
  BY StillIs
<1>3. ASSUME NEW d \in Backups, Meets(c, d) PROVE FALSE
  <2>1. d = b
    BY <1>1, <1>3, OthersUse DEF Solo
  <2>2. ~Kill(b)
    <3>1. Meets(c, b) => hash[c] \in Left(b)
      BY DEF Left
    <3>2. QED
      BY <1>3, <2>1, <3>1
  <2>3. Uses(b, hash[c])
    BY <1>3, <2>1 DEF Meets
  <2>4. Uses(b, hash[c])'
    <3>1. hash'[c] = hash[c]
      BY <1>1, OthersStay
    <3>2. CASE hash[c] \in entries[b]
      BY <1>2, <2>2, <3>1, <3>2 DEF StillPart, Uses
    <3>3. CASE Storing(b) /\ hash[b] = hash[c]
      <4>1. CASE Storing(b)'
        <5>1. hash'[b] = hash[b]
          BY <1>2, <4>1 DEF StillPart
        <5>2. QED
          BY <3>1, <3>3, <4>1, <5>1 DEF Uses
      <4>2. CASE ~Storing(b)'
        BY <1>2, <2>2, <3>1, <3>3, <4>2 DEF StillPart, Uses
      <4>3. QED
        BY <4>1, <4>2
    <3>4. QED
      BY <2>3, <3>2, <3>3 DEF Uses
  <2>5. Storing(c)'
    BY <1>1, OthersUse
  <2>6. Meets(c, b)'
    BY <2>4, <2>5 DEF Meets
  <2>7. QED
    BY <2>6 DEF Solo
<1>4. QED
  BY <1>3 DEF Solo

(* A step that touches no blob keeps what is known about blobs.            *)
LEMMA StillBlobs ==
    ASSUME IInv, NEW b \in Backups, Still(b), astray \subseteq astray',
           Misled' \subseteq astray', Kill(b) => Left(b) \subseteq astray'
    PROVE  NameInv' /\ SoloInv' /\ TmpInv' /\ (LetsMove => DataInv') /\ IndexSound'
<1>1. Step(b) \/ Kill(b)
  BY DEF Still, Step
<1>2. StillPart(b) /\ UNCHANGED <<tmp, files, data>> /\ ~Placing(b)'
  BY StillIs DEF StillPart
<1>3. \A c \in Backups : c # b =>
          /\ pc'[c] = pc[c] /\ hash'[c] = hash[c] /\ inode'[c] = inode[c]
          /\ read'[c] = read[c] /\ entries'[c] = entries[c]
  BY <1>1, OthersStay
<1>4. \A h : Stored(h)' <=> Stored(h)
  BY <1>2 DEF Stored
<1>5. Storing(b)' => hash'[b] = hash[b] /\ inode'[b] = inode[b] /\ entries'[b] = entries[b]
  BY <1>2 DEF StillPart
<1>6. TypeOK /\ Directory(tmp) /\ Directory(files)
  BY DEF IInv, TypeOK
<1>7. NameInv'
  <2>1. ASSUME NEW c \in Backups, Storing(c)', hash'[c] \notin astray'
        PROVE  /\ hash'[c] \notin entries'[c]
               /\ Placing(c)' => Names(tmp, hash'[c]) # {} \/ Stored(hash'[c])
               /\ Placed(c)' => Stored(hash'[c])
    <3>1. CASE c # b
      <4>1. Storing(c) /\ hash[c] \notin astray
        BY <1>3, <2>1, <3>1 DEF Storing
      <4>2. /\ hash[c] \notin entries[c]
            /\ Placing(c) => Names(tmp, hash[c]) # {} \/ Stored(hash[c])
            /\ Placed(c) => Stored(hash[c])
        BY <4>1 DEF IInv, NameInv
      <4>3. QED
        BY <1>3, <3>1, <4>2 DEF Placing, Placed
    <3>2. CASE c = b
      <4>1. hash[b] \notin astray
        BY <1>5, <2>1, <3>2
      <4>2. CASE pc[b] = "contains" /\ pc'[b] = "open" /\ ~Stored(hash[b])
        <5>1. hash[b] \in Hashes
          BY <4>2 DEF IInv, PlaceInv, Hashed
        <5>2. hash[b] \notin entries[b]
          BY <4>1, <4>2 DEF IInv, IndexSound
        <5>3. QED
          BY <1>5, <2>1, <3>2, <4>2, <5>2 DEF Placing, Placed
      <4>3. CASE pc[b] = "compare" /\ pc'[b] = "move"
        <5>1. Storing(b) /\ Placed(b)
          BY <4>3 DEF Storing, Placed
        <5>2. hash[b] \notin entries[b] /\ Stored(hash[b])
          BY <4>1, <5>1 DEF IInv, NameInv
        <5>3. QED
          BY <1>5, <2>1, <3>2, <4>3, <5>2 DEF Placing
      <4>4. QED
        BY <1>2, <2>1, <3>2, <4>2, <4>3 DEF StillPart
    <3>3. QED
      BY <3>1, <3>2
  <2>2. QED
    BY <1>2, <1>4, <2>1 DEF NameInv, Names, Stored
<1>8. SoloInv'
  <2>1. ASSUME NEW c \in Backups, Storing(c)', hash'[c] \notin astray', Solo(c)'
        PROVE  /\ ~Placed(c)' => ~Stored(hash'[c])
               /\ Placing(c)' => <<hash'[c], inode'[c]>> \in tmp
               /\ Placed(c)' => <<hash'[c], inode'[c]>> \in files
               /\ Writing(c)' => Copied(c, read[c])'
    <3>1. CASE c # b
      <4>1. Storing(c) /\ hash[c] \notin astray /\ hash[c] \notin astray'
        BY <1>3, <2>1, <3>1 DEF Storing
      <4>2. Solo(c)
        BY <2>1, <3>1, <4>1, StillSolo
      <4>3. /\ ~Placed(c) => ~Stored(hash[c])
            /\ Placing(c) => <<hash[c], inode[c]>> \in tmp
            /\ Placed(c) => <<hash[c], inode[c]>> \in files
            /\ Writing(c) => Copied(c, read[c])
        BY <4>1, <4>2 DEF IInv, SoloInv
      <4>4. Copied(c, read[c])' <=> Copied(c, read[c])
        BY <1>2, <1>3, <3>1 DEF Copied
      <4>5. QED
        BY <1>3, <3>1, <4>3, <4>4 DEF Placing, Placed, Writing
    <3>2. CASE c = b
      <4>1. CASE pc[b] = "contains" /\ pc'[b] = "open" /\ ~Stored(hash[b])
        BY <1>5, <2>1, <3>2, <4>1 DEF Placing, Placed, Writing
      <4>2. CASE pc[b] = "compare" /\ pc'[b] = "move" /\ read'[b] = read[b]
        <5>1. Storing(b) /\ Placed(b) /\ Writing(b) /\ hash[b] \notin astray
          BY <1>5, <2>1, <3>2, <4>2 DEF Storing, Placed, Writing
        <5>2. ASSUME NEW d \in Backups, Meets(b, d) PROVE FALSE
          <6>1. d # b /\ Uses(d, hash[b])
            BY <5>2 DEF Meets
          <6>2. Uses(d, hash[b])'
            BY <1>3, <1>5, <2>1, <3>2, <6>1 DEF Uses, Storing
          <6>3. Meets(b, d)'
            BY <2>1, <3>2, <6>1, <6>2 DEF Meets
          <6>4. QED
            BY <2>1, <3>2, <6>3 DEF Solo
        <5>3. Solo(b)
          BY <5>2 DEF Solo
        <5>4. <<hash[b], inode[b]>> \in files /\ Copied(b, read[b])
          BY <5>1, <5>3 DEF IInv, SoloInv
        <5>5. Copied(b, read[b])'
          BY <1>2, <1>5, <2>1, <3>2, <4>2, <5>4 DEF Copied
        <5>6. QED
          BY <1>5, <2>1, <3>2, <4>2, <5>4, <5>5 DEF Placing, Placed
      <4>3. QED
        BY <1>2, <2>1, <3>2, <4>1, <4>2 DEF StillPart
    <3>3. QED
      BY <3>1, <3>2
  <2>2. QED
    BY <1>2, <2>1 DEF SoloInv, Stored
<1>9. ASSUME NEW c \in Backups, c # b, Writing(c), Solo(c), hash[c] \notin astray',
             ~Solo(c)'
      PROVE  Whole(<<hash[c], inode[c]>>)
             /\ (Placing(c) => <<hash[c], inode[c]>> \in tmp)
             /\ (Placed(c) => <<hash[c], inode[c]>> \in files)
  <2>1. Storing(c) /\ hash[c] \notin astray
    BY <1>9 DEF Storing, Writing
  <2>2. ~Deviating(c)
    BY <1>1, <1>9, <2>1, Joined
  <2>3. QED
    BY <1>9, <2>1, <2>2, SoloWhole
<1>10. ASSUME NEW x \in tmp, x[1] \notin astray'
       PROVE  \/ Whole(x)'
              \/ \A c \in Backups : Placing(c)' /\ hash'[c] = x[1] => Solo(c)'
  <2>1. x = <<x[1], x[2]>> /\ x[1] \in Hashes /\ x[2] \in Inodes /\ x[1] \notin astray
    BY <1>6, <1>10, NameIs
  <2>2. CASE pc[b] = "copy" /\ inode[b] = x[2] /\ hash[b] = x[1]
    <3>1. Kill(b)
      BY <1>2, <2>2 DEF StillPart
    <3>2. ASSUME NEW c \in Backups, Placing(c)', hash'[c] = x[1] PROVE FALSE
      <4>1. c # b /\ Placing(c) /\ hash[c] = x[1]
        BY <1>2, <1>3, <3>2 DEF Placing
      <4>2. Meets(c, b)
        BY <2>2, <4>1 DEF Meets, Uses, Storing, Placing
      <4>3. hash[c] \in Left(b)
        BY <4>2 DEF Left
      <4>4. QED
        BY <1>10, <3>1, <4>1, <4>3
    <3>3. QED
      BY <3>2
  <2>3. CASE ~(pc[b] = "copy" /\ inode[b] = x[2] /\ hash[b] = x[1])
    <3>1. Whole(x) => Whole(x)'
      BY <1>1, <1>2, <2>3, WholeStays
    <3>2. ASSUME ~Whole(x), NEW c \in Backups, Placing(c)', hash'[c] = x[1]
          PROVE  Solo(c)'
      <4>1. c # b /\ Placing(c) /\ hash[c] = x[1]
        BY <1>2, <1>3, <3>2 DEF Placing
      <4>2. Solo(c)
        BY <2>1, <3>2, <4>1 DEF IInv, TmpInv
      <4>3. SUFFICES ASSUME ~Solo(c)' PROVE FALSE
        OBVIOUS
      <4>4. Writing(c)
        BY <4>1 DEF Writing, Placing
      <4>5. Whole(<<hash[c], inode[c]>>) /\ <<hash[c], inode[c]>> \in tmp
        BY <1>9, <1>10, <4>1, <4>2, <4>3, <4>4
      <4>6. x = <<hash[c], inode[c]>>
        BY <1>6, <4>1, <4>5 DEF Directory
      <4>7. QED
        BY <3>2, <4>5, <4>6
    <3>3. QED
      BY <3>1, <3>2
  <2>4. QED
    BY <2>2, <2>3
<1>11. TmpInv'
  BY <1>2, <1>10 DEF TmpInv
<1>12. ASSUME LetsMove, NEW x \in files, x[1] \notin astray'
       PROVE  \/ Whole(x)'
              \/ \E c \in Backups : Placed(c)' /\ hash'[c] = x[1] /\ Solo(c)'
  <2>1. x = <<x[1], x[2]>> /\ x[1] \in Hashes /\ x[2] \in Inodes /\ x[1] \notin astray
    BY <1>6, <1>12, NameIs
  <2>2. CASE pc[b] = "copy" /\ inode[b] = x[2] /\ hash[b] = x[1]
    <3>1. Kill(b)
      BY <1>2, <2>2 DEF StillPart
    <3>2. Stored(hash[b])
      BY <2>1, <2>2 DEF Stored
    <3>3. Storing(b) /\ ~Placed(b)
      BY <2>2 DEF Storing, Placed
    <3>4. ~Solo(b)
      BY <2>1, <2>2, <3>2, <3>3 DEF IInv, SoloInv
    <3>5. hash[b] \in Left(b)
      BY <3>4 DEF Solo, Left
    <3>6. QED
      BY <1>12, <2>2, <3>1, <3>5
  <2>3. CASE ~(pc[b] = "copy" /\ inode[b] = x[2] /\ hash[b] = x[1])
    <3>1. Whole(x) => Whole(x)'
      BY <1>1, <1>2, <2>3, WholeStays
    <3>2. ASSUME ~Whole(x)
          PROVE  \E c \in Backups : Placed(c)' /\ hash'[c] = x[1] /\ Solo(c)'
      <4>1. PICK c \in Backups : Placed(c) /\ hash[c] = x[1] /\ Solo(c)
        BY <1>12, <2>1, <3>2 DEF IInv, DataInv
      <4>2. Writing(c) /\ Storing(c) /\ hash[c] \notin astray
        BY <2>1, <4>1 DEF Writing, Storing, Placed
      <4>3. <<hash[c], inode[c]>> \in files
        BY <4>1, <4>2 DEF IInv, SoloInv
      <4>4. x = <<hash[c], inode[c]>>
        BY <1>6, <4>1, <4>3 DEF Directory
      <4>5. CASE c # b
        <5>1. Solo(c)'
          BY <1>9, <1>12, <3>2, <4>1, <4>2, <4>4, <4>5
        <5>2. QED
          BY <1>3, <4>1, <4>5, <5>1 DEF Placed
      <4>6. CASE c = b
        <5>1. Changed(b)
          <6>1. SUFFICES ASSUME ~Changed(b) PROVE FALSE
            OBVIOUS
          <6>2. ~Deviating(b)
            <7>1. read[b] = hash[b]
              BY <6>1 DEF Changed
            <7>2. QED
              BY <7>1 DEF Deviating
          <6>3. Whole(<<hash[b], inode[b]>>)
            BY <4>1, <4>2, <4>6, <6>2, SoloWhole
          <6>4. QED
            BY <3>2, <4>4, <4>6, <6>3
        <5>2. ~Kill(b)
          BY <1>12, <4>1, <4>6, <5>1 DEF LetsMove, Kill, Placed
        <5>3. Storing(b)' /\ pc'[b] = "move"
          BY <1>2, <4>1, <4>2, <4>6, <5>1, <5>2 DEF StillPart, Returned, Placed
        <5>4. hash'[b] = hash[b]
          BY <1>5, <5>3
        <5>5. ASSUME NEW d \in Backups, Meets(b, d)' PROVE FALSE
          <6>1. d # b /\ Uses(d, hash[b])'
            BY <5>5 DEF Meets
          <6>2. Uses(d, hash[b])
            BY <1>3, <5>4, <6>1 DEF Uses, Storing
          <6>3. Meets(b, d)
            BY <4>2, <4>6, <6>1, <6>2 DEF Meets
          <6>4. QED
            BY <4>1, <4>6, <6>3 DEF Solo
        <5>6. Solo(b)'
          BY <5>5 DEF Solo
        <5>7. QED
          BY <4>1, <4>6, <5>3, <5>4, <5>6 DEF Placed
      <4>7. QED
        BY <4>5, <4>6
    <3>3. QED
      BY <3>1, <3>2
  <2>4. QED
    BY <2>2, <2>3
<1>13. LetsMove => DataInv'
  BY <1>2, <1>12 DEF DataInv
<1>14. ASSUME NEW c \in Backups, NEW g \in entries'[c], g \notin astray'
       PROVE  Stored(g)
  <2>1. g \notin astray
    BY <1>14
  <2>2. \A d \in Backups : g \in entries[d] => Stored(g)
    BY <2>1 DEF IInv, IndexSound
  <2>3. CASE c # b
    BY <1>3, <1>14, <2>2, <2>3
  <2>4. CASE c = b
    <3>1. Returned(b) /\ g = hash[b] => Stored(g)
      BY <2>1 DEF IInv, NameInv, Returned, Storing, Placed
    <3>2. QED
      BY <1>2, <1>14, <2>2, <2>4, <3>1 DEF StillPart
  <2>5. QED
    BY <2>3, <2>4
<1>15. IndexSound'
  BY <1>2, <1>14 DEF IndexSound, Stored
<1>16. QED
  BY <1>7, <1>8, <1>11, <1>13, <1>15

-----------------------------------------------------------------------------
(* Line 313.  The inode that is opened: that of the temporary file that is *)
(* there, or one that nobody has used.                                     *)
LEMMA OpenIs ==
    ASSUME IInv, NEW b \in Backups, Open(b)
    PROVE  /\ pc[b] = "open" /\ pc'[b] = "copy" /\ read'[b] = <<>> /\ read[b] = <<>>
           /\ hash'[b] = hash[b] /\ hash[b] \in Hashes /\ entries'[b] = entries[b]
           /\ files' = files
           /\ \E i \in Inodes :
                 /\ tmp' = tmp \cup {<<hash[b], i>>} /\ inode'[b] = i
                 /\ \A j \in Inodes : j # i => data'[j] = data[j]
                 /\ \A x \in tmp : x[2] = i => x = <<hash[b], i>>
                 /\ \A x \in tmp : x[1] = hash[b] => x = <<hash[b], i>>
                 /\ \A x \in files : x[2] # i
                 /\ <<hash[b], i>> \in tmp \/ \A c \in Backups : Writing(c) => inode[c] # i
<1>1. /\ pc[b] = "open" /\ pc'[b] = "copy" /\ read'[b] = read[b] /\ hash'[b] = hash[b]
      /\ entries'[b] = entries[b] /\ files' = files
  BY DEF Open, IInv, TypeOK, Goto, indexVars
<1>2. read[b] = <<>> /\ hash[b] \in Hashes
  BY <1>1 DEF IInv, PlaceInv, Hashed
<1>3. PICK i \in Inodes :
         /\ IF \E j \in Inodes : <<hash[b], j>> \in tmp
            THEN <<hash[b], i>> \in tmp ELSE i = <<b, file[b]>>
         /\ tmp' = tmp \cup {<<hash[b], i>>}
         /\ data' = [data EXCEPT ![i] = Empty]
         /\ inode' = [inode EXCEPT ![b] = i]
  BY DEF Open
<1>4. Directory(tmp) /\ InodeInv /\ TypeOK
  BY DEF IInv, TypeOK
<1>5. inode'[b] = i /\ \A j \in Inodes : j # i => data'[j] = data[j]
  BY <1>3, <1>4 DEF TypeOK
<1>6. CASE <<hash[b], i>> \in tmp
  <2>1. \A x \in tmp : x[2] = i => x = <<hash[b], i>>
    BY <1>4, <1>6 DEF InodeInv
  <2>2. \A x \in tmp : x[1] = hash[b] => x = <<hash[b], i>>
    BY <1>4, <1>6 DEF Directory
  <2>3. \A x \in files : x[2] # i
    BY <1>4, <1>6 DEF InodeInv
  <2>4. QED
    BY <1>1, <1>2, <1>3, <1>5, <1>6, <2>1, <2>2, <2>3
<1>7. CASE i = <<b, file[b]>> /\ \A j \in Inodes : <<hash[b], j>> \notin tmp
  <2>1. ~Used(i)
    BY <1>1, <1>7 DEF Used, Fresh
  <2>2. \A x \in tmp \cup files : x[2] # i
    BY <1>4, <2>1 DEF InodeInv
  <2>3. \A c \in Backups : Writing(c) => inode[c] # i
    BY <1>4, <2>1 DEF InodeInv
  <2>4. \A x \in tmp : x[1] # hash[b]
    <3>1. \A x \in tmp : x = <<x[1], x[2]>> /\ x[2] \in Inodes
      BY <1>4 DEF Directory
    <3>2. QED
      BY <1>7, <3>1
  <2>5. QED
    BY <1>1, <1>2, <1>3, <1>5, <2>2, <2>3, <2>4
<1>8. QED
  BY <1>3, <1>6, <1>7

(* Opening and writing change nothing of who meets whom.                   *)
LEMMA SameMeets ==
    ASSUME IInv, NEW b \in Backups, Step(b), Storing(b)' <=> Storing(b),
           hash'[b] = hash[b], entries'[b] = entries[b]
    PROVE  /\ \A c \in Backups : hash'[c] = hash[c] /\ entries'[c] = entries[c]
                                 /\ (Storing(c)' <=> Storing(c))
           /\ \A c, d \in Backups : Meets(c, d)' <=> Meets(c, d)
           /\ \A c \in Backups : Solo(c)' <=> Solo(c)
<1>1. \A c \in Backups : hash'[c] = hash[c] /\ entries'[c] = entries[c]
                         /\ (Storing(c)' <=> Storing(c))
  BY OthersStay, OthersUse
<1>2. \A c, d \in Backups : Meets(c, d)' <=> Meets(c, d)
  BY <1>1 DEF Meets, Uses
<1>3. QED
  BY <1>1, <1>2 DEF Solo

LEMMA OpenBlobs ==
    ASSUME IInv, NEW b \in Backups, Open(b), astray \subseteq astray'
    PROVE  NameInv' /\ SoloInv' /\ TmpInv' /\ (LetsMove => DataInv') /\ IndexSound'
<1>0. Step(b) /\ TypeOK /\ Directory(tmp) /\ Directory(files)
  BY DEF Step, IInv, TypeOK
<1>1. /\ pc[b] = "open" /\ pc'[b] = "copy" /\ read'[b] = <<>> /\ read[b] = <<>>
      /\ hash'[b] = hash[b] /\ hash[b] \in Hashes /\ entries'[b] = entries[b]
      /\ files' = files
  BY OpenIs
<1>2. PICK i \in Inodes :
         /\ tmp' = tmp \cup {<<hash[b], i>>} /\ inode'[b] = i
         /\ \A j \in Inodes : j # i => data'[j] = data[j]
         /\ \A x \in tmp : x[2] = i => x = <<hash[b], i>>
         /\ \A x \in tmp : x[1] = hash[b] => x = <<hash[b], i>>
         /\ \A x \in files : x[2] # i
         /\ <<hash[b], i>> \in tmp \/ \A c \in Backups : Writing(c) => inode[c] # i
  BY OpenIs
<1>3. \A c \in Backups : c # b =>
          /\ pc'[c] = pc[c] /\ hash'[c] = hash[c] /\ inode'[c] = inode[c]
          /\ read'[c] = read[c] /\ entries'[c] = entries[c]
  BY <1>0, OthersStay
<1>4. Storing(b) /\ Storing(b)'
  BY <1>1 DEF Storing
<1>5. /\ \A c \in Backups : hash'[c] = hash[c] /\ entries'[c] = entries[c]
                            /\ (Storing(c)' <=> Storing(c))
      /\ \A c \in Backups : Solo(c)' <=> Solo(c)
  BY <1>0, <1>1, <1>4, SameMeets
<1>6. \A h : Stored(h)' <=> Stored(h)
  BY <1>1 DEF Stored
<1>7. Copied(b, hash[b])' /\ Copied(b, read[b])'
  BY <1>1, ReadsType DEF Copied
<1>8. NameInv'
  <2>1. ASSUME NEW c \in Backups, Storing(c), hash[c] \notin astray'
        PROVE  /\ hash[c] \notin entries[c]
               /\ Placing(c)' => Names(tmp', hash[c]) # {} \/ Stored(hash[c])
               /\ Placed(c)' => Stored(hash[c])
    <3>1. /\ hash[c] \notin entries[c]
          /\ Placing(c) => Names(tmp, hash[c]) # {} \/ Stored(hash[c])
          /\ Placed(c) => Stored(hash[c])
      BY <2>1 DEF IInv, NameInv
    <3>2. Names(tmp, hash[c]) \subseteq Names(tmp', hash[c])
      BY <1>2 DEF Names
    <3>3. CASE c # b
      BY <1>3, <3>1, <3>2, <3>3 DEF Placing, Placed
    <3>4. CASE c = b
      <4>1. <<hash[b], i>> \in Names(tmp', hash[b])
        BY <1>2 DEF Names
      <4>2. QED
        BY <1>1, <3>1, <3>4, <4>1 DEF Placed
    <3>5. QED
      BY <3>3, <3>4
  <2>2. \A c \in Backups : Names(tmp, hash[c])' = Names(tmp', hash[c])
    BY <1>5 DEF Names
  <2>3. QED
    BY <1>5, <1>6, <2>1, <2>2 DEF NameInv, Stored
<1>9. ASSUME NEW c \in Backups, c # b, Writing(c), Solo(c), hash[c] \notin astray
      PROVE  inode[c] # i /\ inode[c] \in Inodes
  <2>1. Storing(c) /\ inode[c] \in Inodes
    BY <1>9 DEF Storing, Writing, IInv, PlaceInv
  <2>2. <<hash[c], inode[c]>> \in tmp \/ <<hash[c], inode[c]>> \in files
    BY <1>9, <2>1 DEF IInv, SoloInv, Writing, Placing, Placed
  <2>3. hash[c] # hash[b]
    BY <1>4, <1>9, <2>1 DEF Solo, Meets, Uses
  <2>4. QED
    BY <1>2, <2>1, <2>2, <2>3
<1>10. SoloInv'
  <2>1. ASSUME NEW c \in Backups, Storing(c), hash[c] \notin astray', Solo(c)
        PROVE  /\ ~Placed(c)' => ~Stored(hash[c])
               /\ Placing(c)' => <<hash[c], inode'[c]>> \in tmp'
               /\ Placed(c)' => <<hash[c], inode'[c]>> \in files
               /\ Writing(c)' => Copied(c, read[c])'
    <3>1. /\ ~Placed(c) => ~Stored(hash[c])
          /\ Placing(c) => <<hash[c], inode[c]>> \in tmp
          /\ Placed(c) => <<hash[c], inode[c]>> \in files
          /\ Writing(c) => Copied(c, read[c])
      BY <2>1 DEF IInv, SoloInv
    <3>2. CASE c # b
      <4>1. Writing(c) => (Copied(c, read[c])' <=> Copied(c, read[c]))
        BY <1>2, <1>3, <1>9, <2>1, <3>2 DEF Copied
      <4>2. QED
        BY <1>2, <1>3, <3>1, <3>2, <4>1 DEF Placing, Placed, Writing
    <3>3. CASE c = b
      BY <1>1, <1>2, <1>7, <3>1, <3>3 DEF Placed
    <3>4. QED
      BY <3>2, <3>3
  <2>2. QED
    BY <1>1, <1>5, <1>6, <2>1 DEF SoloInv, Stored
<1>11. ASSUME NEW x, x[2] \in Inodes, x[2] # i
       PROVE  Whole(x) => Whole(x)'
  BY <1>0, <1>1, <1>2, <1>11, WholeStays
<1>12. \A c \in Backups : c # b => (Placing(c)' <=> Placing(c)) /\ (Placed(c)' <=> Placed(c))
  BY <1>3 DEF Placing, Placed
<1>13. TmpInv'
  <2>1. Whole(<<hash[b], i>>)'
    BY <1>1, <1>2, <1>7 DEF Whole
  <2>2. ASSUME NEW x \in tmp, x # <<hash[b], i>>
        PROVE  \/ x[1] \in astray' \/ Whole(x)'
               \/ \A c \in Backups : Placing(c)' /\ hash[c] = x[1] => Solo(c)
    <3>1. x[2] \in Inodes /\ x[2] # i /\ x[1] # hash[b]
      BY <1>0, <1>2, <2>2, NameIs
    <3>2. \/ x[1] \in astray \/ Whole(x)
          \/ \A c \in Backups : Placing(c) /\ hash[c] = x[1] => Solo(c)
      BY DEF IInv, TmpInv
    <3>3. QED
      BY <1>11, <1>12, <3>1, <3>2
  <2>3. QED
    BY <1>2, <1>5, <2>1, <2>2 DEF TmpInv
<1>14. LetsMove => DataInv'
  <2>1. ASSUME LetsMove, NEW x \in files
        PROVE  \/ x[1] \in astray' \/ Whole(x)'
               \/ \E c \in Backups : Placed(c)' /\ hash[c] = x[1] /\ Solo(c)
    <3>1. x[2] \in Inodes /\ x[2] # i
      BY <1>0, <1>2, NameIs
    <3>2. \/ x[1] \in astray \/ Whole(x)
          \/ \E c \in Backups : Placed(c) /\ hash[c] = x[1] /\ Solo(c)
      BY <2>1 DEF IInv, DataInv
    <3>3. ~Placed(b)
      BY <1>1 DEF Placed
    <3>4. QED
      BY <1>11, <1>12, <3>1, <3>2, <3>3
  <2>2. QED
    BY <1>1, <1>5, <2>1 DEF DataInv
<1>15. IndexSound'
  BY <1>5, <1>6 DEF IInv, IndexSound, Stored
<1>16. QED
  BY <1>8, <1>10, <1>13, <1>14, <1>15

-----------------------------------------------------------------------------
(* Lines 316-324.  A chunk more in the inode.                              *)
LEMMA CopyIs ==
    ASSUME IInv, NEW b \in Backups, Copy(b)
    PROVE  /\ pc[b] = "copy" /\ hash'[b] = hash[b] /\ inode'[b] = inode[b]
           /\ hash[b] \in Hashes /\ inode[b] \in Inodes
           /\ entries'[b] = entries[b] /\ tmp' = tmp /\ files' = files
           /\ \A j \in Inodes : j # inode[b] => data'[j] = data[j]
           /\ \E k \in {1, 2} :
                 /\ read'[b] \in Reads /\ Len(read'[b]) = k
                 /\ pc'[b] = (IF k = 2 THEN "rename" ELSE "copy")
                 /\ Len(read[b]) = k - 1
                 /\ data'[inode[b]][k] = read'[b][k]
                 /\ \A j \in {1, 2} : j # k => data'[inode[b]][j] = data[inode[b]][j]
                 /\ \A j \in {1, 2} : j < k => read'[b][j] = read[b][j]
<1>1. /\ pc[b] = "copy" /\ ReadChunk(b)
      /\ data' = [data EXCEPT ![inode[b]][Len(read'[b])] = read'[b][Len(read'[b])]]
      /\ pc' = (IF Len(read'[b]) = 2 THEN [pc EXCEPT ![b] = "rename"] ELSE pc)
      /\ UNCHANGED <<tmp, files, entries, hash, inode>>
  BY DEF Copy, Goto, indexVars
<1>2. /\ file[b] \in Sources /\ read[b] \notin Contents /\ inode[b] \in Inodes
      /\ hash[b] \in Hashes /\ TypeOK
  BY <1>1 DEF IInv, PlaceInv, Handling, Writing, Hashed
<1>3. LET k == Len(read[b]) + 1
      IN  /\ k \in {1, 2} /\ read'[b] \in Reads /\ Len(read'[b]) = k
          /\ \A j \in {1, 2} : j < k => read'[b][j] = read[b][j]
  BY <1>1, <1>2, ChunkRead
<1> DEFINE k == Len(read'[b])
           c == read'[b][k]
<1>4. Len(read[b]) \in {0, 1, 2}
  BY <1>2, ReadsType DEF TypeOK
<1>5. k \in {1, 2} /\ Len(read[b]) = k - 1
  BY <1>3, <1>4
<1> HIDE DEF c, k
<1>6. data' = [data EXCEPT ![inode[b]][k] = c]
  BY <1>1 DEF c, k
<1>7. data \in [Inodes -> [{1, 2} -> Chunks \cup {Hole}]]
  BY <1>2 DEF TypeOK
<1>8. /\ \A j \in Inodes : j # inode[b] => data'[j] = data[j]
      /\ data'[inode[b]] = [data[inode[b]] EXCEPT ![k] = c]
  BY <1>2, <1>6, <1>7
<1>9. /\ data'[inode[b]][k] = c
      /\ \A j \in {1, 2} : j # k => data'[inode[b]][j] = data[inode[b]][j]
  BY <1>2, <1>5, <1>7, <1>8
<1>10. pc'[b] = (IF k = 2 THEN "rename" ELSE "copy")
  BY <1>1, <1>2 DEF TypeOK, k
<1>11. /\ read'[b] \in Reads
       /\ \A j \in {1, 2} : j < k => read'[b][j] = read[b][j]
  BY <1>3 DEF k
<1>12. QED
  <2>1. /\ k \in {1, 2} /\ read'[b] \in Reads /\ Len(read'[b]) = k
        /\ data'[inode[b]][k] = read'[b][k]
    BY <1>5, <1>9, <1>11 DEF k, c
  <2>2. UNCHANGED <<tmp, files, entries, hash, inode>>
    BY <1>1
  <2>3. QED
    BY <1>1, <1>2, <1>5, <1>8, <1>9, <1>10, <1>11, <2>1, <2>2

(* As long as it does not deviate, it spoils nothing that is right.        *)
LEMMA CopyWhole ==
    ASSUME IInv, NEW b \in Backups, Copy(b), ~Deviating(b)', NEW x,
           x[1] = hash[b], x[2] = inode[b], Whole(x)
    PROVE  Whole(x)' /\ (Correct(x) => Correct(x)')
<1>0. Step(b)
  BY DEF Step
<1>1. /\ pc[b] = "copy" /\ hash'[b] = hash[b] /\ inode'[b] = inode[b]
      /\ hash[b] \in Hashes /\ inode[b] \in Inodes
  BY CopyIs
<1>2. PICK k \in {1, 2} :
         /\ read'[b] \in Reads /\ Len(read'[b]) = k
         /\ pc'[b] = (IF k = 2 THEN "rename" ELSE "copy")
         /\ Len(read[b]) = k - 1
         /\ data'[inode[b]][k] = read'[b][k]
         /\ \A j \in {1, 2} : j # k => data'[inode[b]][j] = data[inode[b]][j]
         /\ \A j \in {1, 2} : j < k => read'[b][j] = read[b][j]
  BY CopyIs
<1>3. Storing(b)'
  BY <1>2 DEF Storing
<1>4. \A j \in 1..k : read'[b][j] = hash[b][j]
  BY <1>1, <1>2, <1>3 DEF Deviating
<1>5. data'[inode[b]][k] = hash[b][k]
  <2>1. k \in 1..k
    BY k \in {1, 2}
  <2>2. read'[b][k] = hash[b][k]
    BY <1>4, <2>1
  <2>3. QED
    BY <1>2, <2>2
<1>6. \A j \in {1, 2} : data[inode[b]][j] = hash[b][j] => data'[inode[b]][j] = hash[b][j]
  BY <1>2, <1>5
<1>7. /\ data[inode[b]] \in [{1, 2} -> Chunks \cup {Hole}] /\ hash[b] \in Contents
      /\ data'[inode[b]] \in [{1, 2} -> Chunks \cup {Hole}]
  <2>2. data[inode[b]] \in [{1, 2} -> Chunks \cup {Hole}] /\ hash[b] \in Contents
    BY <1>1 DEF IInv, TypeOK, Hashes
  <2>3. ReadChunk(b) /\ file[b] \in Sources /\ read[b] \notin Contents
        /\ source[file[b]] \in Contents
    BY <1>1 DEF Copy, IInv, PlaceInv, Handling, TypeOK
  <2>4. read'[b][k] \in Chunks
    <3>1. LET n == Len(read[b]) + 1
          IN  Len(read'[b]) = n /\ read'[b][n] = source[file[b]][n]
      BY <2>3, ChunkRead DEF IInv
    <3>2. read'[b][k] = source[file[b]][k]
      BY <1>2, <3>1
    <3>3. QED
      BY <2>3, <3>2, ContentType
  <2>5. data' = [data EXCEPT ![inode[b]][Len(read'[b])] = read'[b][Len(read'[b])]]
    BY DEF Copy
  <2>6. data'[inode[b]] = [data[inode[b]] EXCEPT ![k] = read'[b][k]]
    BY <1>1, <1>2, <2>5 DEF IInv, TypeOK
  <2>7. QED
    BY <2>2, <2>4, <2>6
<1>8. Correct(x) => Correct(x)'
  BY <1>6, <1>7, DataIsHash DEF Correct
<1>9. ASSUME NEW c \in Backups, pc[c] = "copy", inode[c] = x[2], hash[c] = x[1],
             Copied(c, x[1])
      PROVE  Whole(x)'
  <2>1. CASE c # b
    <3>1. /\ pc'[c] = pc[c] /\ read'[c] = read[c] /\ hash'[c] = hash[c]
          /\ inode'[c] = inode[c]
      BY <1>0, <2>1, OthersStay
    <3>2. Copied(c, x[1])'
      BY <1>6, <1>9, <3>1 DEF Copied
    <3>3. QED
      BY <1>9, <3>1, <3>2 DEF Whole
  <2>2. CASE c = b
    <3>1. \A j \in {1, 2} : j <= k => data'[inode[b]][j] = hash[b][j]
      <4>1. \A j \in {1, 2} : j <= k - 1 => data[inode[b]][j] = hash[b][j]
        BY <1>2, <1>9, <2>2 DEF Copied
      <4>2. QED
        BY <1>2, <1>5, <4>1
    <3>2. CASE k = 1
      <4>1. Copied(b, x[1])'
        BY <1>1, <1>2, <1>9, <3>1 DEF Copied
      <4>2. QED
        BY <1>1, <1>2, <1>9, <2>2, <3>2, <4>1 DEF Whole
    <3>3. CASE k = 2
      <4>1. data'[inode[b]][1] = hash[b][1] /\ data'[inode[b]][2] = hash[b][2]
        BY <3>1, <3>3
      <4>2. data'[inode[b]] = hash[b]
        BY <1>7, <4>1, DataIsHash
      <4>3. QED
        BY <4>2 DEF Whole, Correct
    <3>4. QED
      BY <1>2, <3>2, <3>3
  <2>3. QED
    BY <2>1, <2>2
<1>10. QED
  BY <1>8, <1>9 DEF Whole

LEMMA CopyBlobs ==
    ASSUME IInv, NEW b \in Backups, Copy(b), astray \subseteq astray',
           Misled' \subseteq astray'
    PROVE  NameInv' /\ SoloInv' /\ TmpInv' /\ (LetsMove => DataInv') /\ IndexSound'
<1>0. Step(b) /\ TypeOK /\ Directory(tmp) /\ Directory(files)
  BY DEF Step, IInv, TypeOK
<1>1. /\ pc[b] = "copy" /\ hash'[b] = hash[b] /\ inode'[b] = inode[b]
      /\ hash[b] \in Hashes /\ inode[b] \in Inodes
      /\ entries'[b] = entries[b] /\ tmp' = tmp /\ files' = files
      /\ \A j \in Inodes : j # inode[b] => data'[j] = data[j]
  BY CopyIs
<1>2. PICK k \in {1, 2} :
         /\ read'[b] \in Reads /\ Len(read'[b]) = k
         /\ pc'[b] = (IF k = 2 THEN "rename" ELSE "copy")
         /\ Len(read[b]) = k - 1
         /\ data'[inode[b]][k] = read'[b][k]
         /\ \A j \in {1, 2} : j # k => data'[inode[b]][j] = data[inode[b]][j]
         /\ \A j \in {1, 2} : j < k => read'[b][j] = read[b][j]
  BY CopyIs
<1>3. \A c \in Backups : c # b =>
          /\ pc'[c] = pc[c] /\ hash'[c] = hash[c] /\ inode'[c] = inode[c]
          /\ read'[c] = read[c] /\ entries'[c] = entries[c]
  BY <1>0, OthersStay
<1>4. Storing(b) /\ Storing(b)' /\ Placing(b) /\ Placing(b)' /\ Writing(b)
      /\ ~Placed(b) /\ ~Placed(b)'
  BY <1>1, <1>2 DEF Storing, Placing, Writing, Placed
<1>5. /\ \A c \in Backups : hash'[c] = hash[c] /\ entries'[c] = entries[c]
                            /\ (Storing(c)' <=> Storing(c))
      /\ \A c \in Backups : Solo(c)' <=> Solo(c)
      /\ \A c, d \in Backups : Meets(c, d)' <=> Meets(c, d)
  BY <1>0, <1>1, <1>4, SameMeets
<1>6. /\ \A c \in Backups : Placing(c)' <=> Placing(c)
      /\ \A c \in Backups : Placed(c)' <=> Placed(c)
      /\ \A c \in Backups : Writing(c)' <=> Writing(c)
  BY <1>2, <1>3, <1>4 DEF Placing, Placed, Writing
<1>7. NameInv'
  BY <1>1, <1>5, <1>6 DEF IInv, NameInv, Names, Stored
<1>8. ASSUME NEW c \in Backups, c # b, Writing(c), Solo(c), hash[c] \notin astray
      PROVE  inode[c] # inode[b] /\ inode[c] \in Inodes
  <2>1. Storing(c) /\ inode[c] \in Inodes
    BY <1>8 DEF Storing, Writing, IInv, PlaceInv
  <2>2. <<hash[c], inode[c]>> \in tmp \/ <<hash[c], inode[c]>> \in files
    BY <1>8, <2>1 DEF IInv, SoloInv, Writing, Placing, Placed
  <2>3. hash[c] # hash[b]
    BY <1>4, <1>8, <2>1 DEF Solo, Meets, Uses
  <2>4. inode[c] = inode[b] => hash[c] = hash[b] \/ hash[c] \in astray
    BY <1>4, <2>2 DEF IInv, OwnInv
  <2>5. QED
    BY <1>8, <2>1, <2>3, <2>4
<1>9. SoloInv'
  <2>1. ASSUME NEW c \in Backups, Storing(c), hash[c] \notin astray', Solo(c)
        PROVE  /\ ~Placed(c) => ~Stored(hash[c])
               /\ Placing(c) => <<hash[c], inode'[c]>> \in tmp
               /\ Placed(c) => <<hash[c], inode'[c]>> \in files
               /\ Writing(c) => Copied(c, read[c])'
    <3>1. /\ ~Placed(c) => ~Stored(hash[c])
          /\ Placing(c) => <<hash[c], inode[c]>> \in tmp
          /\ Placed(c) => <<hash[c], inode[c]>> \in files
          /\ Writing(c) => Copied(c, read[c])
      BY <2>1 DEF IInv, SoloInv
    <3>2. CASE c # b
      <4>1. Writing(c) => (Copied(c, read[c])' <=> Copied(c, read[c]))
        BY <1>1, <1>3, <1>8, <2>1, <3>2 DEF Copied
      <4>2. QED
        BY <1>3, <3>1, <3>2, <4>1
    <3>3. CASE c = b
      <4>1. \A j \in {1, 2} : j <= k - 1 => data[inode[b]][j] = read[b][j]
        BY <1>2, <1>4, <3>1, <3>3 DEF Copied
      <4>2. \A j \in {1, 2} : j <= k => data'[inode[b]][j] = read'[b][j]
        BY <1>2, <4>1
      <4>3. Copied(b, read[b])'
        BY <1>1, <1>2, <4>2 DEF Copied
      <4>4. QED
        BY <1>1, <3>1, <3>3, <4>3
    <3>4. QED
      BY <3>2, <3>3
  <2>2. QED
    BY <1>1, <1>5, <1>6, <2>1 DEF SoloInv, Stored
<1>10. ASSUME NEW x, x[2] \in Inodes, x[2] # inode[b]
       PROVE  Whole(x) => Whole(x)'
  BY <1>0, <1>1, <1>10, WholeStays
<1>11. ASSUME NEW x \in tmp \cup files, x[2] = inode[b], x[1] \notin astray', ~Solo(b)
       PROVE  Whole(x) => Whole(x)'
  <2>1. x[1] = hash[b]
    BY <1>4, <1>11 DEF IInv, OwnInv
  <2>2. ~Deviating(b)'
    <3>1. Deviating(b)' => hash[b]' \in Misled'
      BY <1>5, <1>11 DEF Misled, Solo
    <3>2. QED
      BY <1>1, <1>11, <2>1, <3>1
  <2>3. QED
    BY <1>11, <2>1, <2>2, CopyWhole
<1>12. TmpInv'
  <2>1. ASSUME NEW x \in tmp
        PROVE  \/ x[1] \in astray' \/ Whole(x)'
               \/ \A c \in Backups : Placing(c) /\ hash[c] = x[1] => Solo(c)
    <3>1. x[2] \in Inodes
      BY <1>0, NameIs
    <3>2. \/ x[1] \in astray \/ Whole(x)
          \/ \A c \in Backups : Placing(c) /\ hash[c] = x[1] => Solo(c)
      BY DEF IInv, TmpInv
    <3>3. CASE x[2] # inode[b]
      BY <1>10, <3>1, <3>2, <3>3
    <3>4. CASE x[2] = inode[b]
      <4>1. x[1] = hash[b] \/ x[1] \in astray
        BY <1>4, <3>4 DEF IInv, OwnInv
      <4>2. CASE Solo(b)
        <5>1. \A c \in Backups : c # b /\ Placing(c) => hash[c] # hash[b]
          BY <1>4, <4>2 DEF Solo, Meets, Uses, Storing, Placing
        <5>2. QED
          BY <4>1, <4>2, <5>1
      <4>3. CASE ~Solo(b)
        <5>1. CASE x[1] \in astray'
          BY <5>1
        <5>2. CASE x[1] \notin astray'
          <6>1. x[1] = hash[b] /\ Whole(x)
            BY <1>4, <3>2, <4>1, <4>3, <5>2
          <6>2. QED
            BY <1>11, <3>4, <4>3, <5>2, <6>1
        <5>3. QED
          BY <5>1, <5>2
      <4>4. QED
        BY <4>2, <4>3
    <3>5. QED
      BY <3>3, <3>4
  <2>2. QED
    BY <1>1, <1>5, <1>6, <2>1 DEF TmpInv
<1>13. LetsMove => DataInv'
  <2>1. ASSUME LetsMove, NEW x \in files
        PROVE  \/ x[1] \in astray' \/ Whole(x)'
               \/ \E c \in Backups : Placed(c) /\ hash[c] = x[1] /\ Solo(c)
    <3>1. x = <<x[1], x[2]>> /\ x[2] \in Inodes
      BY <1>0, NameIs
    <3>2. \/ x[1] \in astray \/ Whole(x)
          \/ \E c \in Backups : Placed(c) /\ hash[c] = x[1] /\ Solo(c)
      BY <2>1 DEF IInv, DataInv
    <3>3. CASE x[2] # inode[b]
      BY <1>10, <3>1, <3>2, <3>3
    <3>4. CASE x[2] = inode[b] /\ x[1] \notin astray'
      <4>1. x[1] = hash[b] /\ x[1] \notin astray
        BY <1>4, <3>4 DEF IInv, OwnInv
      <4>2. Stored(hash[b])
        BY <3>1, <4>1 DEF Stored
      <4>3. ~Solo(b)
        BY <1>4, <4>1, <4>2 DEF IInv, SoloInv
      <4>4. QED
        BY <1>11, <3>2, <3>4, <4>1, <4>3
    <3>5. QED
      BY <3>3, <3>4
  <2>2. QED
    BY <1>1, <1>5, <1>6, <2>1 DEF DataInv
<1>14. IndexSound'
  BY <1>1, <1>5 DEF IInv, IndexSound, Stored
<1>15. QED
  BY <1>7, <1>9, <1>12, <1>13, <1>14

-----------------------------------------------------------------------------
(* ShabackOutputStream::finish().  The blobs of the temporary file's hash  *)
(* are the temporary file, if it is there.                                 *)
LEMMA RenameBlobs ==
    ASSUME IInv, NEW b \in Backups, Rename(b), astray \subseteq astray'
    PROVE  NameInv' /\ SoloInv' /\ TmpInv' /\ (LetsMove => DataInv') /\ IndexSound'
<1>0. Step(b) /\ TypeOK /\ Directory(tmp) /\ Directory(files)
  BY DEF Step, IInv, TypeOK
<1>1. /\ pc[b] = "rename" /\ pc' = [pc EXCEPT ![b] = "compare"]
      /\ UNCHANGED <<data, entries, read, hash, inode>>
  BY DEF Rename, Goto, indexVars
<1>2. hash[b] \in Hashes
  BY <1>1 DEF IInv, PlaceInv, Hashed
<1>3. pc'[b] = "compare" /\ \A c \in Backups : c # b => pc'[c] = pc[c]
  BY <1>0, <1>1 DEF TypeOK
<1>4. Storing(b) /\ Storing(b)' /\ Placing(b) /\ ~Placing(b)' /\ Placed(b)'
      /\ Writing(b) /\ Writing(b)' /\ ~Placed(b)
  BY <1>1, <1>3 DEF Storing, Placing, Placed, Writing
<1>5. /\ \A c \in Backups : Storing(c)' <=> Storing(c)
      /\ \A c \in Backups : Solo(c)' <=> Solo(c)
  BY <1>0, <1>1, <1>4, SameMeets
<1>6. \A c \in Backups : c # b => /\ Placing(c)' <=> Placing(c)
                                  /\ Placed(c)' <=> Placed(c)
                                  /\ Writing(c)' <=> Writing(c)
  BY <1>3 DEF Placing, Placed, Writing
<1>7. \A c \in Backups : Copied(c, read[c])' <=> Copied(c, read[c])
  BY <1>1 DEF Copied
<1> DEFINE h == hash[b]
           N == Names(tmp, h)
<1>8. /\ files' \subseteq files \cup N /\ N \subseteq files'
      /\ \A x \in files' : x \in files /\ x[1] = h => x \in tmp \/ N = {}
      /\ \A x \in files : x[1] # h \/ N = {} => x \in files'
      /\ tmp' = tmp \ N
  BY <1>0, <1>2, RenameIs
<1>9. \A x : x \in N <=> x \in tmp /\ x[1] = h
  BY DEF Names
<1>10. N # {} => \E i \in Inodes : <<h, i>> \in files'
  <2>1. \A x \in N : x = <<h, x[2]>> /\ x[2] \in Inodes
    BY <1>0, <1>9, NameIs
  <2>2. QED
    BY <1>8, <2>1
<1> HIDE DEF N
<1>11. \A g : Stored(g) => Stored(g)'
  <2>1. ASSUME NEW g, NEW i \in Inodes, <<g, i>> \in files
        PROVE  \E j \in Inodes : <<g, j>> \in files'
    <3>1. CASE g # h \/ N = {}
      BY <1>8, <2>1, <3>1
    <3>2. CASE g = h /\ N # {}
      BY <1>10, <3>2
    <3>3. QED
      BY <3>1, <3>2
  <2>2. QED
    BY <2>1 DEF Stored
<1>12. N # {} => Stored(h)'
  BY <1>1, <1>10 DEF Stored
<1>13. \A g : g # h /\ Stored(g)' => Stored(g)
  <2>1. ASSUME NEW g, g # h, NEW i \in Inodes, <<g, i>> \in files'
        PROVE  <<g, i>> \in files
    <3>1. <<g, i>>[1] = g
      OBVIOUS
    <3>2. QED
      BY <1>8, <1>9, <2>1, <3>1
  <2>2. QED
    BY <2>1 DEF Stored
<1>14. NameInv'
  <2>1. ASSUME NEW c \in Backups, Storing(c), hash[c] \notin astray'
        PROVE  /\ hash[c] \notin entries[c]
               /\ Placing(c)' => Names(tmp', hash[c]) # {} \/ Stored(hash[c])'
               /\ Placed(c)' => Stored(hash[c])'
    <3>1. /\ hash[c] \notin entries[c]
          /\ Placing(c) => Names(tmp, hash[c]) # {} \/ Stored(hash[c])
          /\ Placed(c) => Stored(hash[c])
      BY <2>1 DEF IInv, NameInv
    <3>2. Stored(hash[c]) => Stored(hash[c])'
      BY <1>1, <1>11 DEF Stored
    <3>3. CASE c # b
      <4>1. Names(tmp, hash[c]) # {} => Names(tmp', hash[c]) # {} \/ Stored(hash[c])'
        <5>1. CASE hash[c] = h
          <6>1. Names(tmp, hash[c]) = N
            BY <5>1 DEF N
          <6>2. N # {} => Stored(hash[c])'
            BY <1>1, <1>12, <5>1 DEF Stored
          <6>3. QED
            BY <6>1, <6>2
        <5>2. CASE hash[c] # h
          BY <1>8, <1>9, <5>2 DEF Names
        <5>3. QED
          BY <5>1, <5>2
      <4>2. QED
        BY <1>6, <3>1, <3>2, <3>3, <4>1
    <3>4. CASE c = b
      <4>1. N # {} \/ Stored(h)
        BY <1>4, <3>1, <3>4 DEF N
      <4>2. Stored(hash[c])'
        BY <1>1, <1>12, <3>2, <3>4, <4>1 DEF Stored
      <4>3. QED
        BY <1>4, <3>1, <3>4, <4>2
    <3>5. QED
      BY <3>3, <3>4
  <2>2. \A c \in Backups : Names(tmp, hash[c])' = Names(tmp', hash[c])
    BY <1>1 DEF Names
  <2>3. QED
    BY <1>1, <1>5, <2>1, <2>2 DEF NameInv
<1>15. SoloInv'
  <2>1. ASSUME NEW c \in Backups, Storing(c), hash[c] \notin astray', Solo(c)
        PROVE  /\ ~Placed(c)' => ~Stored(hash[c])'
               /\ Placing(c)' => <<hash[c], inode[c]>> \in tmp'
               /\ Placed(c)' => <<hash[c], inode[c]>> \in files'
               /\ Writing(c)' => Copied(c, read[c])
    <3>1. /\ ~Placed(c) => ~Stored(hash[c])
          /\ Placing(c) => <<hash[c], inode[c]>> \in tmp
          /\ Placed(c) => <<hash[c], inode[c]>> \in files
          /\ Writing(c) => Copied(c, read[c])
      BY <2>1 DEF IInv, SoloInv
    <3>2. CASE c # b
      <4>1. hash[c] # h
        BY <1>4, <2>1, <3>2 DEF Solo, Meets, Uses
      <4>2. Stored(hash[c])' => Stored(hash[c])
        BY <1>1, <1>13, <4>1 DEF Stored
      <4>3. <<hash[c], inode[c]>>[1] # h
        BY <4>1
      <4>4. QED
        BY <1>6, <1>8, <1>9, <3>1, <3>2, <4>2, <4>3
    <3>3. CASE c = b
      <4>1. <<h, inode[b]>> \in N
        BY <1>4, <1>9, <3>1, <3>3
      <4>2. QED
        BY <1>4, <1>8, <3>1, <3>3, <4>1
    <3>4. QED
      BY <3>2, <3>3
  <2>2. QED
    BY <1>1, <1>5, <1>7, <2>1 DEF SoloInv
<1>16. ASSUME NEW x PROVE Whole(x) => Whole(x)'
  <2>1. pc[b] # "copy"
    BY <1>1
  <2>2. QED
    BY <1>0, <1>1, <2>1, WholeStays
<1>17. TmpInv'
  <2>1. ASSUME NEW x \in tmp'
        PROVE  \/ x[1] \in astray' \/ Whole(x)'
               \/ \A c \in Backups : Placing(c)' /\ hash[c] = x[1] => Solo(c)
    <3>1. \/ x[1] \in astray \/ Whole(x)
          \/ \A c \in Backups : Placing(c) /\ hash[c] = x[1] => Solo(c)
      BY <1>8, <2>1 DEF IInv, TmpInv
    <3>2. QED
      BY <1>4, <1>6, <1>16, <3>1
  <2>2. QED
    BY <1>1, <1>5, <2>1 DEF TmpInv
<1>18. LetsMove => DataInv'
  <2>1. ASSUME LetsMove, NEW x \in files'
        PROVE  \/ x[1] \in astray' \/ Whole(x)'
               \/ \E c \in Backups : Placed(c)' /\ hash[c] = x[1] /\ Solo(c)
    <3>1. CASE x \in files
      <4>1. \/ x[1] \in astray \/ Whole(x)
            \/ \E c \in Backups : Placed(c) /\ hash[c] = x[1] /\ Solo(c)
        BY <2>1, <3>1 DEF IInv, DataInv
      <4>2. QED
        BY <1>4, <1>6, <1>16, <4>1
    <3>2. CASE x \in N
      <4>1. x \in tmp /\ x[1] = h
        BY <1>9, <3>2
      <4>2. \/ x[1] \in astray \/ Whole(x)
            \/ \A c \in Backups : Placing(c) /\ hash[c] = x[1] => Solo(c)
        BY <4>1 DEF IInv, TmpInv
      <4>3. QED
        BY <1>4, <1>16, <4>1, <4>2
    <3>3. QED
      BY <1>8, <2>1, <3>1, <3>2
  <2>2. QED
    BY <1>1, <1>5, <2>1 DEF DataInv
<1>19. IndexSound'
  <2>1. \A c \in Backups : \A g \in entries[c] : g \notin astray' => Stored(g)'
    BY <1>11 DEF IInv, IndexSound
  <2>2. QED
    BY <1>1, <2>1 DEF IndexSound
<1>20. QED
  BY <1>14, <1>15, <1>17, <1>18, <1>19

-----------------------------------------------------------------------------
(* Line 340.  Who moves a blob away has deviated: nobody else uses it, or  *)
(* both hashes are astray.                                                 *)
LEMMA MoveDeviates ==
    ASSUME IInv, NEW b \in Backups, Move(b)
    PROVE  /\ pc[b] = "move" /\ pc'[b] = "next" /\ Storing(b) /\ ~Storing(b)'
           /\ hash[b] \in Hashes /\ read[b] \in Hashes /\ Changed(b) /\ Deviating(b)
           /\ entries'[b] = entries[b] \cup {read[b]}
           /\ UNCHANGED <<tmp, data>>
           /\ hash[b] \in astray => read[b] \in Moved(b)
           /\ hash[b] \notin astray =>
                 /\ Solo(b) /\ <<hash[b], inode[b]>> \in files
                 /\ inode[b] \in Inodes /\ data[inode[b]] = read[b]
<1>1. /\ pc[b] = "move" /\ pc'[b] = "next"
      /\ entries'[b] = entries[b] \cup {read[b]} /\ UNCHANGED <<tmp, data>>
  BY DEF Move, Return, Goto, IInv, TypeOK
<1>2. Storing(b) /\ ~Storing(b)' /\ Placed(b) /\ Writing(b)
  BY <1>1 DEF Storing, Placed, Writing
<1>3. /\ hash[b] \in Hashes /\ read[b] \in Hashes /\ Changed(b)
      /\ inode[b] \in Inodes
  BY <1>1 DEF IInv, PlaceInv, Hashed, Writing, Hashes
<1>4. Len(read[b]) = 2 /\ Len(hash[b]) = 2
  BY <1>3, ContentType DEF Hashes
<1>5. Deviating(b)
  <2>1. read[b][1] # hash[b][1] \/ read[b][2] # hash[b][2]
    BY <1>3, ContentType DEF Changed, Hashes
  <2>2. \E k \in 1..2 : read[b][k] # hash[b][k]
    BY <2>1
  <2>3. QED
    BY <1>2, <1>4, <2>2 DEF Deviating
<1>6. hash[b] \in astray => read[b] \in Moved(b)
  BY <1>1 DEF Moved
<1>7. ASSUME hash[b] \notin astray
      PROVE  /\ Solo(b) /\ <<hash[b], inode[b]>> \in files
             /\ data[inode[b]] = read[b]
  <2>1. Solo(b)
    BY <1>5, <1>7, DeviatesAlone
  <2>2. <<hash[b], inode[b]>> \in files /\ Copied(b, read[b])
    BY <1>2, <1>7, <2>1 DEF IInv, SoloInv
  <2>3. data[inode[b]][1] = read[b][1] /\ data[inode[b]][2] = read[b][2]
    BY <1>4, <2>2 DEF Copied
  <2>4. data[inode[b]] \in [{1, 2} -> Chunks \cup {Hole}] /\ read[b] \in Contents
    BY <1>3 DEF IInv, TypeOK, Hashes
  <2>5. QED
    BY <2>1, <2>2, <2>3, <2>4, DataIsHash
<1>8. QED
  BY <1>1, <1>2, <1>3, <1>5, <1>6, <1>7

LEMMA MoveBlobs ==
    ASSUME IInv, NEW b \in Backups, Move(b), astray \subseteq astray',
           Misled' \subseteq astray', Moved(b) \subseteq astray'
    PROVE  NameInv' /\ SoloInv' /\ TmpInv' /\ (LetsMove => DataInv') /\ IndexSound'
<1> DEFINE h == hash[b]
           r == read[b]
<1>0. Step(b) /\ TypeOK /\ Directory(tmp) /\ Directory(files)
  BY DEF Step, IInv, TypeOK
<1>1. /\ pc[b] = "move" /\ pc'[b] = "next" /\ Storing(b) /\ ~Storing(b)'
      /\ h \in Hashes /\ r \in Hashes /\ r # h /\ Deviating(b)
      /\ entries'[b] = entries[b] \cup {r} /\ tmp' = tmp /\ data' = data
      /\ h \in astray => r \in astray'
      /\ h \notin astray =>
            /\ Solo(b) /\ <<h, inode[b]>> \in files
            /\ inode[b] \in Inodes /\ data[inode[b]] = r
  BY MoveDeviates DEF Changed
<1>2. /\ \A x \in files' :
             \/ x \in files /\ x[1] # h
             \/ \E y \in files : y[1] = h /\ x = <<r, y[2]>>
      /\ \A x \in files : x[1] # h /\ x[1] # r => x \in files'
      /\ \A y \in files : y[1] = h => <<r, y[2]>> \in files'
      /\ \A x \in files' : x \in files /\ x[1] = r =>
            \/ ~Stored(h)
            \/ \E y \in files : y[1] = h /\ x[2] = y[2]
      /\ ~Stored(h) => files' = files
  BY <1>0, <1>1, MoveDeviates, MoveIs
<1>3. \A c \in Backups : c # b =>
          /\ pc'[c] = pc[c] /\ hash'[c] = hash[c] /\ inode'[c] = inode[c]
          /\ read'[c] = read[c] /\ entries'[c] = entries[c]
  BY <1>0, OthersStay
<1>4. \A c \in Backups : c # b =>
          /\ Storing(c)' <=> Storing(c)
          /\ Placing(c)' <=> Placing(c)
          /\ Placed(c)' <=> Placed(c)
          /\ Writing(c)' <=> Writing(c)
          /\ Copied(c, read[c])' <=> Copied(c, read[c])
  BY <1>1, <1>3 DEF Storing, Placing, Placed, Writing, Copied
<1>5. \A c \in Backups : Storing(c)' => c # b /\ Storing(c)
  BY <1>1, <1>4
<1>6. ASSUME NEW c \in Backups, c # b, Uses(c, h) PROVE h \in astray'
  <2>1. Meets(b, c)
    BY <1>1, <1>6 DEF Meets
  <2>2. h \in Misled
    BY <1>1, <2>1 DEF Misled
  <2>3. QED
    BY <2>2 DEF IInv, MisledInv
<1>7. \A x \in files : x = <<x[1], x[2]>> /\ x[2] \in Inodes
  BY <1>0, NameIs
<1>8. \A g : g # h /\ Stored(g) => Stored(g)'
  <2>1. ASSUME NEW g, g # h, NEW i \in Inodes, <<g, i>> \in files
        PROVE  \E j \in Inodes : <<g, j>> \in files'
    <3>1. <<g, i>>[1] = g
      OBVIOUS
    <3>2. CASE g # r
      BY <1>2, <2>1, <3>1, <3>2
    <3>3. CASE g = r /\ ~Stored(h)
      BY <1>2, <2>1, <3>3
    <3>4. CASE g = r /\ Stored(h)
      <4>1. PICK j \in Inodes : <<h, j>> \in files
        BY <3>4 DEF Stored
      <4>2. <<h, j>>[1] = h /\ <<h, j>>[2] = j
        OBVIOUS
      <4>3. <<r, j>> \in files'
        BY <1>2, <4>1, <4>2
      <4>4. QED
        BY <3>4, <4>3
    <3>5. QED
      BY <3>2, <3>3, <3>4
  <2>2. QED
    BY <2>1 DEF Stored
<1>9. \A g : g # h /\ g # r /\ Stored(g)' => Stored(g)
  <2>1. ASSUME NEW g, g # h, g # r, NEW i \in Inodes, <<g, i>> \in files'
        PROVE  <<g, i>> \in files
    <3>1. <<g, i>>[1] = g
      OBVIOUS
    <3>2. \A y : <<r, y>>[1] = r
      OBVIOUS
    <3>3. QED
      BY <1>2, <2>1, <3>1, <3>2
  <2>2. QED
    BY <2>1 DEF Stored
<1>10. \A c \in Backups : Uses(c, h) /\ c # b => h \in astray'
  BY <1>6
<1>11. ASSUME NEW c \in Backups, c # b, Storing(c), hash[c] \notin astray'
       PROVE  hash[c] # h /\ hash[c] \notin astray
  BY <1>10, <1>11 DEF Uses
(* Alone afterwards, alone before. *)
<1>12. ASSUME NEW c \in Backups, c # b, Storing(c), hash[c] \notin astray', Solo(c)'
       PROVE  Solo(c) /\ hash[c] # r
  <2>1. hash'[c] = hash[c] /\ Storing(c)'
    BY <1>3, <1>4, <1>12
  <2>2. ASSUME hash[c] \in entries'[b] PROVE FALSE
    <3>1. Uses(b, hash[c])'
      BY <2>1, <2>2 DEF Uses
    <3>2. Meets(c, b)'
      BY <1>12, <2>1, <3>1 DEF Meets
    <3>3. QED
      BY <1>12, <3>2 DEF Solo
  <2>3. hash[c] \notin entries[b] /\ hash[c] # r
    BY <1>1, <2>2
  <2>4. ~Meets(c, b)
    BY <1>11, <1>12, <2>3 DEF Meets, Uses
  <2>5. \A d \in Backups : d # b => ~Meets(c, d)
    BY <1>0, <1>12, OthersUse DEF Solo
  <2>6. QED
    BY <2>3, <2>4, <2>5 DEF Solo
(* Alone before, and either alone afterwards or right. *)
<1>13. ASSUME NEW c \in Backups, c # b, Writing(c), hash[c] \notin astray', Solo(c),
              ~Solo(c)'
       PROVE  Whole(<<hash[c], inode[c]>>)
  <2>1. Storing(c) /\ hash[c] \notin astray
    BY <1>13 DEF Storing, Writing
  <2>2. ~Deviating(c)
    BY <1>0, <1>13, <2>1, Joined
  <2>3. QED
    BY <1>13, <2>1, <2>2, SoloWhole
<1>14. ASSUME NEW x PROVE Whole(x) => Whole(x)'
  <2>1. pc[b] # "copy"
    BY <1>1
  <2>2. QED
    BY <1>0, <1>1, <2>1, WholeStays
<1> HIDE DEF h, r
<1>15. NameInv'
  <2>1. ASSUME NEW c \in Backups, c # b, Storing(c), hash[c] \notin astray'
        PROVE  /\ hash[c] \notin entries[c]
               /\ Placing(c) => Names(tmp, hash[c]) # {} \/ Stored(hash[c])'
               /\ Placed(c) => Stored(hash[c])'
    <3>1. hash[c] # h /\ hash[c] \notin astray
      BY <1>11, <2>1
    <3>2. /\ hash[c] \notin entries[c]
          /\ Placing(c) => Names(tmp, hash[c]) # {} \/ Stored(hash[c])
          /\ Placed(c) => Stored(hash[c])
      BY <2>1, <3>1 DEF IInv, NameInv
    <3>3. hash'[c] = hash[c]
      BY <1>3, <2>1
    <3>4. Stored(hash[c]) => Stored(hash[c])'
      BY <1>8, <3>1, <3>3 DEF Stored
    <3>5. QED
      BY <3>2, <3>4
  <2>2. ASSUME NEW c \in Backups, Storing(c)', hash'[c] \notin astray'
        PROVE  /\ hash'[c] \notin entries'[c]
               /\ Placing(c)' => Names(tmp, hash[c])' # {} \/ Stored(hash[c])'
               /\ Placed(c)' => Stored(hash[c])'
    <3>1. c # b /\ Storing(c)
      BY <1>5, <2>2
    <3>2. hash'[c] = hash[c] /\ entries'[c] = entries[c]
      BY <1>3, <3>1
    <3>3. Names(tmp, hash[c])' = Names(tmp, hash[c])
      BY <1>1, <3>2 DEF Names
    <3>4. QED
      BY <1>4, <2>1, <2>2, <3>1, <3>2, <3>3
  <2>3. QED
    BY <2>2 DEF NameInv
<1>16. SoloInv'
  <2>1. ASSUME NEW c \in Backups, Storing(c)', hash'[c] \notin astray', Solo(c)'
        PROVE  /\ ~Placed(c)' => ~Stored(hash[c])'
               /\ Placing(c)' => <<hash'[c], inode'[c]>> \in tmp'
               /\ Placed(c)' => <<hash'[c], inode'[c]>> \in files'
               /\ Writing(c)' => Copied(c, read[c])'
    <3>1. c # b /\ Storing(c)
      BY <1>5, <2>1
    <3>2. hash'[c] = hash[c] /\ inode'[c] = inode[c]
      BY <1>3, <3>1
    <3>3. hash[c] # h /\ hash[c] \notin astray
      BY <1>11, <2>1, <3>1, <3>2
    <3>4. Solo(c) /\ hash[c] # r
      BY <1>12, <2>1, <3>1, <3>2
    <3>5. /\ ~Placed(c) => ~Stored(hash[c])
          /\ Placing(c) => <<hash[c], inode[c]>> \in tmp
          /\ Placed(c) => <<hash[c], inode[c]>> \in files
          /\ Writing(c) => Copied(c, read[c])
      BY <3>1, <3>3, <3>4 DEF IInv, SoloInv
    <3>6. Stored(hash[c])' => Stored(hash[c])
      BY <1>9, <3>2, <3>3, <3>4 DEF Stored
    <3>7. <<hash[c], inode[c]>>[1] = hash[c]
      OBVIOUS
    <3>8. <<hash[c], inode[c]>> \in files => <<hash[c], inode[c]>> \in files'
      BY <1>2, <3>3, <3>4, <3>7
    <3>9. QED
      BY <1>1, <1>4, <3>1, <3>2, <3>5, <3>6, <3>8
  <2>2. QED
    BY <2>1 DEF SoloInv
<1>17. TmpInv'
  <2>1. ASSUME NEW x \in tmp, x[1] \notin astray', ~Whole(x),
               NEW c \in Backups, Placing(c)', hash'[c] = x[1]
        PROVE  Solo(c)'
    <3>1. c # b
      BY <1>1, <2>1 DEF Placing
    <3>2. Placing(c) /\ hash[c] = x[1] /\ Writing(c) /\ Storing(c)
      BY <1>3, <1>4, <2>1, <3>1 DEF Placing, Writing, Storing
    <3>3. x[1] \notin astray
      BY <2>1
    <3>4. Solo(c)
      BY <2>1, <3>2, <3>3 DEF IInv, TmpInv
    <3>5. <<hash[c], inode[c]>> \in tmp
      BY <3>2, <3>3, <3>4 DEF IInv, SoloInv
    <3>6. x = <<hash[c], inode[c]>>
      BY <1>0, <2>1, <3>2, <3>5 DEF Directory
    <3>7. QED
      BY <1>13, <2>1, <3>1, <3>2, <3>4, <3>6
  <2>2. QED
    BY <1>1, <1>14, <2>1 DEF TmpInv
<1>18. LetsMove => DataInv'
  <2>1. ASSUME LetsMove, NEW x \in files', x[1] \notin astray'
        PROVE  \/ Whole(x)'
               \/ \E c \in Backups : Placed(c)' /\ hash'[c] = x[1] /\ Solo(c)'
    <3>1. CASE x \in files /\ x[1] # h
      <4>1. \/ Whole(x)
            \/ \E c \in Backups : Placed(c) /\ hash[c] = x[1] /\ Solo(c)
        BY <2>1, <3>1 DEF IInv, DataInv
      <4>2. CASE Whole(x)
        BY <1>14, <4>2
      <4>3. ASSUME ~Whole(x), NEW c \in Backups, Placed(c), hash[c] = x[1], Solo(c)
            PROVE  Placed(c)' /\ hash'[c] = x[1] /\ Solo(c)'
        <5>1. c # b /\ Storing(c) /\ Writing(c) /\ hash[c] \notin astray
          BY <2>1, <3>1, <4>3 DEF Storing, Writing, Placed, h
        <5>2. <<hash[c], inode[c]>> \in files
          BY <4>3, <5>1 DEF IInv, SoloInv
        <5>3. x = <<hash[c], inode[c]>>
          BY <1>0, <3>1, <4>3, <5>2 DEF Directory
        <5>4. Solo(c)'
          BY <1>13, <2>1, <4>3, <5>1, <5>3
        <5>5. QED
          BY <1>3, <1>4, <4>3, <5>1, <5>4
      <4>4. QED
        BY <4>1, <4>2, <4>3
    <3>2. CASE \E y \in files : y[1] = h /\ x = <<r, y[2]>>
      <4>1. PICK y \in files : y[1] = h /\ x = <<r, y[2]>>
        BY <3>2
      <4>2. h \notin astray
        BY <1>1, <2>1, <4>1
      <4>3. <<h, inode[b]>> \in files /\ data[inode[b]] = r
        BY <1>1, <4>2
      <4>4. y = <<h, inode[b]>>
        BY <1>0, <4>1, <4>3 DEF Directory
      <4>5. Correct(x)
        BY <4>1, <4>3, <4>4 DEF Correct
      <4>6. QED
        BY <1>14, <4>5 DEF Whole
    <3>3. QED
      BY <1>2, <2>1, <3>1, <3>2
  <2>2. QED
    BY <2>1 DEF DataInv
<1>19. IndexSound'
  <2>1. ASSUME NEW c \in Backups, NEW g \in entries'[c], g \notin astray'
        PROVE  Stored(g)'
    <3>1. CASE g = r /\ c = b
      <4>1. h \notin astray
        BY <1>1, <2>1, <3>1
      <4>2. <<h, inode[b]>> \in files /\ inode[b] \in Inodes
        BY <1>1, <4>1
      <4>3. <<h, inode[b]>>[1] = h /\ <<h, inode[b]>>[2] = inode[b]
        OBVIOUS
      <4>4. <<r, inode[b]>> \in files'
        BY <1>2, <4>2, <4>3
      <4>5. QED
        BY <3>1, <4>2, <4>4 DEF Stored
    <3>2. CASE ~(g = r /\ c = b)
      <4>1. g \in entries[c] /\ g \notin astray
        BY <1>1, <1>3, <2>1, <3>2
      <4>2. Stored(g)
        BY <4>1 DEF IInv, IndexSound
      <4>3. g # h
        <5>1. CASE c # b
          BY <1>10, <2>1, <4>1, <5>1 DEF Uses
        <5>2. CASE c = b
          <6>1. h \notin astray => h \notin entries[b]
            BY <1>1 DEF IInv, NameInv, h
          <6>2. QED
            BY <4>1, <5>2, <6>1
        <5>3. QED
          BY <5>1, <5>2
      <4>4. QED
        BY <1>8, <4>2, <4>3
    <3>3. QED
      BY <3>1, <3>2
  <2>2. QED
    BY <2>1 DEF IndexSound
<1>20. QED
  BY <1>15, <1>16, <1>17, <1>18, <1>19

-----------------------------------------------------------------------------
(* gc runs alone, and keeps what an index file refers to.                  *)
LEMMA CollectBlobs ==
    ASSUME IInv, NEW b \in Backups, Collect(b),
           astray \cap Referenced(index') \subseteq astray'
    PROVE  NameInv' /\ SoloInv' /\ TmpInv' /\ (LetsMove => DataInv') /\ IndexSound'
<1>1. /\ \A c \in Backups : ~Running(c) /\ pc'[c] = pc[c]
      /\ b \in index /\ index' = index \ {b}
      /\ files' = {x \in files : x[1] \in Referenced(index')}
      /\ tmp' = {} /\ data' = data
      /\ entries'[b] = {} /\ \A c \in Backups : c # b => entries'[c] = entries[c]
  BY DEF Collect, backupVars, IInv, TypeOK
<1>2. \A c \in Backups : ~Storing(c)' /\ ~Placed(c) /\ pc[c] # "copy"
  BY <1>1 DEF Storing, Running, Placed
<1>3. NameInv' /\ SoloInv'
  BY <1>2 DEF NameInv, SoloInv
<1>4. TmpInv'
  BY <1>1 DEF TmpInv
<1>5. LetsMove => DataInv'
  <2>1. ASSUME LetsMove, NEW x \in files', x[1] \notin astray' PROVE Whole(x)'
    <3>1. x \in files /\ x[1] \notin astray
      BY <1>1, <2>1
    <3>2. Whole(x)
      BY <1>2, <2>1, <3>1 DEF IInv, DataInv
    <3>3. Correct(x)
      BY <1>2, <3>2 DEF Whole
    <3>4. QED
      BY <1>1, <3>3 DEF Whole, Correct
  <2>2. QED
    BY <2>1 DEF DataInv
<1>6. IndexSound'
  <2>1. ASSUME NEW c \in Backups, NEW g \in entries'[c], g \notin astray'
        PROVE  Stored(g)'
    <3>1. c # b /\ g \in entries[c]
      BY <1>1, <2>1
    <3>2. c \in index'
      BY <1>1, <3>1 DEF IInv, EndInv
    <3>3. g \in Referenced(index')
      BY <3>1, <3>2 DEF Referenced
    <3>4. g \notin astray
      BY <2>1, <3>3
    <3>5. PICK i \in Inodes : <<g, i>> \in files
      BY <3>1, <3>4 DEF IInv, IndexSound, Stored
    <3>6. <<g, i>>[1] = g
      OBVIOUS
    <3>7. <<g, i>> \in files'
      BY <1>1, <3>3, <3>5, <3>6
    <3>8. QED
      BY <3>7 DEF Stored
  <2>2. QED
    BY <2>1 DEF IndexSound
<1>7. QED
  BY <1>3, <1>4, <1>5, <1>6

-----------------------------------------------------------------------------
(* Every step keeps the whole.                                             *)
LEMMA NextOwn ==
    ASSUME IInv, [Next]_vars
    PROVE  OwnInv'
<1>0. TypeOK /\ Directory(tmp) /\ Directory(files)
  BY DEF IInv, TypeOK
<1>1. ASSUME NEW b \in Backups, Still(b), astray \subseteq astray'
      PROVE  OwnInv'
  <2>1. UNCHANGED <<tmp, files>>
    BY <1>1, StillIs DEF StillPart
  <2>2. ASSUME NEW c \in Backups, Writing(c)'
        PROVE  Writing(c) /\ hash'[c] = hash[c] /\ inode'[c] = inode[c]
    <3>1. CASE c # b
      BY <1>1, <2>2, <3>1, OthersStay DEF Still, Step, Writing
    <3>2. CASE c = b
      <4>1. Storing(b)' /\ pc'[b] # "open"
        BY <2>2, <3>2 DEF Writing, Storing
      <4>2. pc[b] = "compare" /\ hash'[b] = hash[b] /\ inode'[b] = inode[b]
        BY <1>1, <4>1, StillIs DEF StillPart
      <4>3. QED
        BY <3>2, <4>2 DEF Writing
    <3>3. QED
      BY <3>1, <3>2
  <2>3. QED
    BY <1>1, <2>1, <2>2 DEF IInv, OwnInv
<1>2. ASSUME NEW b \in Backups, Open(b), astray \subseteq astray'
      PROVE  OwnInv'
  <2>1. PICK i \in Inodes :
           /\ tmp' = tmp \cup {<<hash[b], i>>} /\ inode'[b] = i
           /\ \A x \in tmp : x[2] = i => x = <<hash[b], i>>
           /\ \A x \in files : x[2] # i
           /\ <<hash[b], i>> \in tmp \/ \A c \in Backups : Writing(c) => inode[c] # i
    BY <1>2, OpenIs
  <2>2. files' = files /\ hash'[b] = hash[b]
    BY <1>2, OpenIs
  <2>3. \A c \in Backups : c # b =>
           /\ Writing(c)' <=> Writing(c)
           /\ hash'[c] = hash[c] /\ inode'[c] = inode[c]
    BY <1>2, OthersStay DEF Step, Writing
  <2>4. ASSUME NEW c \in Backups, NEW x \in tmp' \cup files', Writing(c)',
               x[2] = inode'[c]
        PROVE  x[1] = hash'[c] \/ x[1] \in astray'
    <3>1. CASE c = b
      BY <2>1, <2>2, <2>4, <3>1
    <3>2. CASE c # b /\ x \in tmp \cup files
      <4>1. Writing(c) /\ x[2] = inode[c]
        BY <2>3, <2>4, <3>2
      <4>2. x[1] = hash[c] \/ x[1] \in astray
        BY <3>2, <4>1 DEF IInv, OwnInv
      <4>3. QED
        BY <1>2, <2>3, <3>2, <4>2
    <3>3. CASE c # b /\ x = <<hash[b], i>> /\ x \notin tmp
      BY <2>1, <2>3, <2>4, <3>3
    <3>4. QED
      BY <2>1, <2>2, <2>4, <3>1, <3>2, <3>3
  <2>5. QED
    BY <2>4 DEF OwnInv
<1>3. ASSUME NEW b \in Backups, Copy(b) \/ Rename(b), astray \subseteq astray'
      PROVE  OwnInv'
  <2>1. tmp' \cup files' \subseteq tmp \cup files
    <3>1. CASE Copy(b)
      BY <3>1, CopyIs
    <3>2. CASE Rename(b)
      <4>1. hash[b] \in Hashes
        BY <3>2 DEF Rename, IInv, PlaceInv, Hashed
      <4>2. QED
        BY <1>0, <3>2, <4>1, RenameIs DEF Names
    <3>3. QED
      BY <1>3, <3>1, <3>2
  <2>2. Writing(b) /\ hash' = hash /\ inode' = inode
    BY <1>3 DEF Copy, Rename, Writing
  <2>3. \A c \in Backups : Writing(c)' => Writing(c)
    BY <1>3, <2>2, OthersStay DEF Step, Writing
  <2>4. QED
    BY <1>3, <2>1, <2>2, <2>3 DEF IInv, OwnInv
<1>4. ASSUME NEW b \in Backups, Move(b), astray \subseteq astray',
             Moved(b) \subseteq astray'
      PROVE  OwnInv'
  <2>1. /\ Storing(b) /\ ~Storing(b)' /\ tmp' = tmp
        /\ hash[b] \in Hashes /\ read[b] \in Hashes /\ Changed(b) /\ Deviating(b)
        /\ hash[b] \in astray => read[b] \in Moved(b)
    BY <1>4, MoveDeviates
  <2>2. \A x \in files' :
           \/ x \in files
           \/ \E y \in files : y[1] = hash[b] /\ x = <<read[b], y[2]>>
    BY <1>0, <1>4, <2>1, MoveIs
  <2>3. ASSUME NEW c \in Backups, NEW x \in tmp' \cup files', Writing(c)',
               x[2] = inode'[c]
        PROVE  x[1] = hash'[c] \/ x[1] \in astray'
    <3>1. c # b
      BY <2>1, <2>3 DEF Writing, Storing
    <3>2. Writing(c) /\ hash'[c] = hash[c] /\ inode'[c] = inode[c] /\ x[2] = inode[c]
      BY <1>4, <2>3, <3>1, OthersStay DEF Step, Writing
    <3>3. CASE x \in tmp \cup files
      BY <1>4, <3>2, <3>3 DEF IInv, OwnInv
    <3>4. CASE \E y \in files : y[1] = hash[b] /\ x = <<read[b], y[2]>>
      <4>1. PICK y \in files : y[1] = hash[b] /\ x = <<read[b], y[2]>>
        BY <3>4
      <4>2. y[2] = inode[c]
        BY <3>2, <4>1
      <4>3. hash[b] = hash[c] \/ hash[b] \in astray
        BY <3>2, <4>1, <4>2 DEF IInv, OwnInv
      <4>4. hash[b] \in astray
        <5>1. hash[b] = hash[c] => Meets(b, c)
          BY <2>1, <3>1, <3>2 DEF Meets, Uses, Storing, Writing
        <5>2. hash[b] = hash[c] => hash[b] \in Misled
          BY <2>1, <5>1 DEF Misled
        <5>3. QED
          BY <4>3, <5>2 DEF IInv, MisledInv
      <4>5. QED
        BY <1>4, <2>1, <4>1, <4>4
    <3>5. QED
      BY <2>1, <2>2, <2>3, <3>3, <3>4
  <2>4. QED
    BY <2>3 DEF OwnInv
<1>5. ASSUME NEW b \in Backups, Collect(b)
      PROVE  OwnInv'
  <2>1. \A c \in Backups : ~Writing(c)'
    BY <1>5 DEF Collect, backupVars, Running, Writing
  <2>2. QED
    BY <2>1 DEF OwnInv
<1>6. ASSUME NEW f \in Sources, Change(f), astray \subseteq astray'
      PROVE  OwnInv'
  BY <1>6 DEF Change, storeVars, backupVars, Writing, IInv, OwnInv
<1>7. CASE UNCHANGED vars
  BY <1>7 DEF vars, storeVars, backupVars, history, Writing, IInv, OwnInv
<1>8. CASE Next
  <2>1. ASSUME NEW b \in Backups, Stepped(b) PROVE OwnInv'
    <3>1. Step(b) /\ astray \subseteq astray' /\ Moved(b) \subseteq astray'
      BY <2>1, AstrayIs DEF Stepped
    <3>2. QED
      BY <1>1, <1>2, <1>3, <1>4, <3>1 DEF Step, Still
  <2>2. ASSUME NEW b \in Backups, Killed(b) PROVE OwnInv'
    BY <1>1, <2>2, AstrayIs DEF Killed, Still
  <2>3. ASSUME NEW b \in Backups, Collected(b) PROVE OwnInv'
    BY <1>5, <2>3 DEF Collected
  <2>4. ASSUME NEW f \in Sources, Altered(f) PROVE OwnInv'
    BY <1>6, <2>4, AstrayIs DEF Altered
  <2>5. QED
    BY <1>8, <2>1, <2>2, <2>3, <2>4, NextIs
<1>9. QED
  BY <1>7, <1>8

(* What does not concern the blobs. *)
LEMMA SameBlobs ==
    ASSUME IInv, UNCHANGED <<storeVars, indexVars, backupVars>>,
           astray \subseteq astray'
    PROVE  NameInv' /\ SoloInv' /\ TmpInv' /\ (LetsMove => DataInv') /\ IndexSound'
<1> USE DEF IInv, storeVars, indexVars, backupVars
<1>1. \A c \in Backups : /\ Storing(c)' <=> Storing(c)
                         /\ Placing(c)' <=> Placing(c)
                         /\ Placed(c)' <=> Placed(c)
                         /\ Writing(c)' <=> Writing(c)
                         /\ Solo(c)' <=> Solo(c)
                         /\ Copied(c, read[c])' <=> Copied(c, read[c])
  BY DEF Storing, Placing, Placed, Writing, Solo, Meets, Uses, Copied
<1>2. \A h : Stored(h)' <=> Stored(h)
  BY DEF Stored
<1>3. \A x : Whole(x)' <=> Whole(x)
  BY DEF Whole, Correct, Copied
<1>4. NameInv'
  BY <1>1, <1>2 DEF NameInv, Names, Stored
<1>5. SoloInv'
  BY <1>1, <1>2 DEF SoloInv, Stored
<1>6. TmpInv'
  BY <1>1, <1>3 DEF TmpInv
<1>7. LetsMove => DataInv'
  BY <1>1, <1>3 DEF DataInv
<1>8. IndexSound'
  BY <1>2 DEF IndexSound
<1>9. QED
  BY <1>4, <1>5, <1>6, <1>7, <1>8

(* Only a kill ends a backup without an index file.                        *)
LEMMA StepNoKill ==
    ASSUME IInv, NEW b \in Backups, Step(b)
    PROVE  ~Kill(b)
<1> SUFFICES ASSUME Kill(b) PROVE FALSE
  OBVIOUS
<1>1. pc'[b] = "done" /\ pc[b] # "done" /\ index' = index /\ TypeOK /\ b \notin index
  BY DEF Kill, Goto, Running, IInv, TypeOK, EndInv
<1> USE <1>1 DEF TypeOK, Goto, Return
<1>2. CASE Start(b) \/ (\E f \in Sources : Look(b, f)) \/ SetSha1(b) \/ SetMtime(b)
           \/ Open(b) \/ Rename(b)
  BY <1>2 DEF Start, Look, SetSha1, SetMtime, Open, Rename
<1>3. CASE AskAttributes(b)
  BY <1>3 DEF AskAttributes
<1>4. CASE Hash(b) \/ Copy(b)
  BY <1>4 DEF Hash, Copy
<1>5. CASE AskContains(b)
  BY <1>5 DEF AskContains
<1>6. CASE Compare(b) \/ Move(b)
  BY <1>6 DEF Compare, Move
<1>7. CASE Finish(b)
  BY <1>7 DEF Finish
<1>8. QED
  BY <1>2, <1>3, <1>4, <1>5, <1>6, <1>7 DEF Step

LEMMA NextBlobs ==
    ASSUME IInv, [Next]_vars
    PROVE  NameInv' /\ SoloInv' /\ TmpInv' /\ (LetsMove => DataInv') /\ IndexSound'
<1>1. CASE UNCHANGED vars
  BY <1>1, SameBlobs DEF vars, history
<1>2. ASSUME NEW b \in Backups, Stepped(b)
      PROVE  NameInv' /\ SoloInv' /\ TmpInv' /\ (LetsMove => DataInv') /\ IndexSound'
  <2>1. /\ Step(b) /\ astray \subseteq astray' /\ Misled' \subseteq astray'
        /\ Moved(b) \subseteq astray'
    BY <1>2, AstrayIs DEF Stepped
  <2>2. CASE Still(b) /\ ~Kill(b)
    BY <2>1, <2>2, StillBlobs
  <2>3. CASE Open(b)
    BY <2>1, <2>3, OpenBlobs
  <2>4. CASE Copy(b)
    BY <2>1, <2>4, CopyBlobs
  <2>5. CASE Rename(b)
    BY <2>1, <2>5, RenameBlobs
  <2>6. CASE Move(b)
    BY <2>1, <2>6, MoveBlobs
  <2>7. ~Kill(b)
    BY <2>1, StepNoKill
  <2>8. QED
    BY <2>1, <2>2, <2>3, <2>4, <2>5, <2>6, <2>7 DEF Step, Still
<1>3. ASSUME NEW b \in Backups, Killed(b)
      PROVE  NameInv' /\ SoloInv' /\ TmpInv' /\ (LetsMove => DataInv') /\ IndexSound'
  BY <1>3, AstrayIs, StillBlobs DEF Killed, Still
<1>4. ASSUME NEW b \in Backups, Collected(b)
      PROVE  NameInv' /\ SoloInv' /\ TmpInv' /\ (LetsMove => DataInv') /\ IndexSound'
  BY <1>4, AstrayIs, CollectBlobs DEF Collected
<1>5. ASSUME NEW f \in Sources, Altered(f)
      PROVE  NameInv' /\ SoloInv' /\ TmpInv' /\ (LetsMove => DataInv') /\ IndexSound'
  BY <1>5, AstrayIs, SameBlobs DEF Altered, Change
<1>6. QED
  BY <1>1, <1>2, <1>3, <1>4, <1>5, NextIs

LEMMA NextInv == IInv /\ [Next]_vars => IInv'
<1> SUFFICES ASSUME IInv, [Next]_vars PROVE IInv'
  OBVIOUS
<1>1. LetsMove' <=> LetsMove
  BY DEF LetsMove
<1>2. QED
  BY <1>1, NextType, NextPlace, NextEnd, NextSource, NextAttr, NextInode, NextOwn,
     NextMisled, NextBlobs DEF IInv

LEMMA Inductive == Spec => []IInv
<1>1. QED
  BY InitInv, NextInv, PTL DEF Spec

-----------------------------------------------------------------------------
(* What the invariant says of the blobs, and of a step.                    *)
LEMMA SoundInv ==
    ASSUME LetsMove, IInv
    PROVE  BlobSound
<1>1. ASSUME NEW x \in files
      PROVE  Correct(x) \/ x[1] \in astray \/ \E b \in Backups : Unfinished(b, x)
  <2>1. \/ x[1] \in astray \/ Whole(x)
        \/ \E b \in Backups : Placed(b) /\ hash[b] = x[1] /\ Solo(b)
    BY DEF IInv, DataInv
  <2>2. QED
    BY <2>1 DEF Whole, Unfinished, Placed
<1>2. QED
  BY <1>1 DEF BlobSound

(* Who writes into a blob writes what is there already, or is noted. *)
LEMMA StaysInv ==
    ASSUME IInv, Next, NEW h \in CorrectBlobs, h \notin CorrectBlobs',
           h \notin Rewritten', h \notin astray'
    PROVE  index' # index
<1>0. TypeOK /\ Directory(tmp) /\ Directory(files)
  BY DEF IInv, TypeOK
<1>1. PICK x \in files : Correct(x) /\ x[1] = h
  BY DEF CorrectBlobs
<1>2. x = <<h, x[2]>> /\ h \in Hashes /\ x[2] \in Inodes /\ data[x[2]] = h
  BY <1>0, <1>1, NameIs DEF Correct
<1>3. ASSUME x \in files', data'[x[2]] = h PROVE FALSE
  BY <1>1, <1>3 DEF CorrectBlobs, Correct
<1>4. Stored(h)
  BY <1>1, <1>2 DEF Stored
<1>5. ASSUME NEW b \in Backups, Stepped(b) PROVE FALSE
  <2>1. /\ Step(b) /\ astray \subseteq astray' /\ Misled' \subseteq astray'
        /\ Moved(b) \subseteq astray' /\ h \notin astray
    BY <1>5, AstrayIs DEF Stepped
  <2>2. CASE Still(b)
    BY <1>1, <1>2, <1>3, <2>2, StillIs DEF StillPart
  <2>3. CASE Open(b)
    <3>1. files' = files /\ data'[x[2]] = data[x[2]]
      BY <1>1, <1>2, <2>3, OpenIs
    <3>2. QED
      BY <1>1, <1>2, <1>3, <3>1
  <2>4. CASE Copy(b)
    <3>1. /\ pc[b] = "copy" /\ hash'[b] = hash[b] /\ files' = files
          /\ entries'[b] = entries[b]
          /\ \A j \in Inodes : j # inode[b] => data'[j] = data[j]
          /\ pc'[b] \in {"copy", "rename"}
      BY <2>4, CopyIs
    <3>2. x[2] = inode[b]
      BY <1>1, <1>2, <1>3, <3>1
    <3>3. Storing(b) /\ Storing(b)' /\ Writing(b) /\ ~Placed(b)
      BY <3>1 DEF Storing, Writing, Placed
    <3>4. hash[b] = h
      BY <1>1, <2>1, <3>2, <3>3 DEF IInv, OwnInv
    <3>5. ~Solo(b)
      BY <1>4, <2>1, <3>3, <3>4 DEF IInv, SoloInv
    <3>6. ~Solo(b)'
      BY <2>1, <3>1, <3>3, <3>5, SameMeets
    <3>7. ~Deviating(b)'
      <4>1. Deviating(b)' => hash[b]' \in Misled'
        BY <3>6 DEF Misled, Solo
      <4>2. QED
        BY <2>1, <3>1, <3>4, <4>1
    <3>8. Correct(x)'
      BY <1>1, <2>4, <3>2, <3>4, <3>7, CopyWhole DEF Whole
    <3>9. QED
      BY <1>1, <1>3, <3>1, <3>8 DEF Correct
  <2>5. CASE Rename(b)
    <3>1. /\ pc[b] = "rename" /\ data' = data /\ hash[b] \in Hashes
          /\ pc' = [pc EXCEPT ![b] = "compare"] /\ hash' = hash
      BY <2>5 DEF Rename, Goto, IInv, PlaceInv, Hashed
    <3>2. /\ Names(tmp, hash[b]) \subseteq files'
          /\ \A y \in files : y[1] # hash[b] \/ Names(tmp, hash[b]) = {} => y \in files'
      BY <1>0, <2>5, <3>1, RenameIs
    <3>3. h = hash[b] /\ Names(tmp, hash[b]) # {}
      BY <1>1, <1>2, <1>3, <3>1, <3>2
    <3>4. PICK y \in Names(tmp, hash[b]) : TRUE
      BY <3>3
    <3>5. y \in tmp /\ y[1] = h /\ y \in files'
      BY <3>2, <3>3, <3>4 DEF Names
    <3>6. Storing(b) /\ Placing(b) /\ ~Placed(b)
      BY <3>1 DEF Storing, Placing, Placed
    <3>7. ~Solo(b)
      BY <1>4, <2>1, <3>3, <3>6 DEF IInv, SoloInv
    <3>8. Whole(y)
      BY <2>1, <3>3, <3>5, <3>6, <3>7 DEF IInv, TmpInv
    <3>9. CASE Correct(y)
      BY <3>1, <3>5, <3>9 DEF CorrectBlobs, Correct
    <3>10. ASSUME NEW c \in Backups, pc[c] = "copy", hash[c] = y[1] PROVE FALSE
      <4>1. pc'[c] = "copy" /\ hash'[c] = h
        BY <3>1, <3>5, <3>10, <1>0 DEF TypeOK
      <4>2. QED
        BY <4>1 DEF Rewritten
    <3>11. QED
      BY <3>8, <3>9, <3>10 DEF Whole
  <2>6. CASE Move(b)
    <3>1. /\ hash[b] \in Hashes /\ read[b] \in Hashes /\ read[b] # hash[b]
          /\ Changed(b) /\ data' = data
          /\ hash[b] \in astray => read[b] \in Moved(b)
          /\ hash[b] \notin astray =>
                 <<hash[b], inode[b]>> \in files /\ data[inode[b]] = read[b]
      BY <2>6, MoveDeviates DEF Changed
    <3>2. /\ \A y \in files : y[1] # hash[b] /\ y[1] # read[b] => y \in files'
          /\ \A y \in files : y[1] = hash[b] => <<read[b], y[2]>> \in files'
          /\ ~Stored(hash[b]) => files' = files
      BY <1>0, <2>6, <3>1, MoveIs
    <3>3. h # hash[b]
      <4>1. SUFFICES ASSUME h = hash[b] PROVE FALSE
        OBVIOUS
      <4>2. <<h, inode[b]>> \in files /\ data[inode[b]] = read[b]
        BY <2>1, <3>1, <4>1
      <4>3. x = <<h, inode[b]>>
        BY <1>0, <1>1, <4>2 DEF Directory
      <4>4. x[2] = inode[b]
        BY <4>3
      <4>5. QED
        BY <1>2, <3>1, <4>1, <4>2, <4>4
    <3>4. h = read[b] /\ Stored(hash[b])
      BY <1>1, <1>2, <1>3, <3>1, <3>2, <3>3
    <3>5. <<hash[b], inode[b]>> \in files /\ data[inode[b]] = h
      BY <2>1, <3>1, <3>4
    <3>6. <<hash[b], inode[b]>>[1] = hash[b] /\ <<hash[b], inode[b]>>[2] = inode[b]
      OBVIOUS
    <3>7. <<h, inode[b]>> \in files'
      BY <3>2, <3>4, <3>5, <3>6
    <3>8. <<h, inode[b]>>[1] = h /\ <<h, inode[b]>>[2] = inode[b]
      OBVIOUS
    <3>9. QED
      BY <3>1, <3>5, <3>7, <3>8 DEF CorrectBlobs, Correct
  <2>7. QED
    BY <2>1, <2>2, <2>3, <2>4, <2>5, <2>6 DEF Step, Still
<1>6. ASSUME NEW b \in Backups, Killed(b) PROVE FALSE
  BY <1>1, <1>2, <1>3, <1>6 DEF Killed, Kill, storeVars
<1>7. ASSUME NEW b \in Backups, Collected(b) PROVE index' # index
  BY <1>7 DEF Collected, Collect
<1>8. ASSUME NEW f \in Sources, Altered(f) PROVE FALSE
  BY <1>1, <1>2, <1>3, <1>8 DEF Altered, Change, storeVars
<1>9. QED
  BY <1>5, <1>6, <1>7, <1>8, NextIs

-----------------------------------------------------------------------------
(* The theorems.                                                           *)

(* The variables keep their types. *)
THEOREM TypeCorrect == Spec => []TypeOK
<1>1. IInv => TypeOK
  BY DEF IInv
<1>2. QED
  BY <1>1, Inductive, PTL

(* Every hash in an index file is in files/ as long as the index file is
   there, whatever changes and wherever backups are killed, except for the
   hashes at which one backup has found another content than it had hashed
   while another backup used that hash, or was killed. *)
THEOREM IndexIsSound == Spec => []IndexSound
<1>1. IInv => IndexSound
  BY DEF IInv
<1>2. QED
  BY <1>1, Inductive, PTL

(* An attribute that the next backup trusts tells what the source file
   contains, whatever changes while the file is hashed and copied, because
   its mtime is the one from before the file was read: except where two
   backups that have looked at different times were between their two
   setXAttr() at once, or one was beside a newer mtime. *)
THEOREM AttributesAreSound == Spec => []AttrSound
<1>1. IInv => AttrSound
  BY DEF IInv
<1>2. QED
  BY <1>1, Inductive, PTL

(* A blob has the hash it is stored under, unless the backup that wrote it
   is about to move it or has it open, or the hash has gone astray; if no
   backup is killed before it has moved what it must move. *)
THEOREM BlobsAreSound ==
    ASSUME LetsMove
    PROVE  Spec => []BlobSound
<1>1. IInv => BlobSound
  BY SoundInv
<1>2. QED
  BY <1>1, Inductive, PTL

(* No backup removes or spoils a correct blob, by truncating it, writing to
   it, or renaming another file over it, but by what is still being written
   and where backups have met and one was misled or killed. *)
THEOREM BlobsStay == Spec => BlobStays
<1>1. IInv /\ [Next]_vars =>
         [CorrectBlobs \ (CorrectBlobs' \cup Rewritten' \cup astray') # {}
          => index' # index]_vars
  BY StaysInv
<1>2. QED
  BY <1>1, Inductive, PTL DEF Spec, BlobStays
=============================================================================
