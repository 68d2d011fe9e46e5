------------------------------ MODULE BlobStore ------------------------------
(***************************************************************************)
(* How a plain source file gets into files/: Repository::storeFile()       *)
(* (src/src/Repository.cpp:260-353) and ShabackOutputStream, read by read, *)
(* write by write, while the source files change and backups are killed.   *)
(*                                                                         *)
(* A content is a pair of chunks; its hash is the content itself.  A file  *)
(* is read a chunk at a time, so that what has been read may be a mixture  *)
(* of two contents.  A blob and its temporary file "<hash>.tmp" are names  *)
(* of inodes, because two backups may have the same one open.              *)
(***************************************************************************)
EXTENDS Naturals, Sequences, FiniteSets

CONSTANTS
    Backups,    \* the executions of backup
    Sources,    \* the files they back up
    Chunks,
    Hole,       \* a chunk that has been skipped
    None,
    MaxChanges, \* bound: how often source files change
    MaxKills,   \* bound: how often backups are killed
    KillWhileMoving     \* a backup may be killed before the second rename()
                        \* of a file that has changed

ASSUME ConstantsAssumption ==
    /\ Hole \notin Chunks /\ None \notin Sources /\ None \notin Nat
    /\ MaxChanges \in Nat /\ MaxKills \in Nat

Contents == Chunks \X Chunks
Inodes == Backups \X Sources    \* by who makes them, for which file

VARIABLES
    source,     \* what each source file contains
    mtime,
    attrSha1, attrMtime,    \* its attributes user.shaback.sha1 and .mtime
    tmp,        \* the temporary files: <<hash, inode>>
    files,      \* the blobs: <<hash, inode>>
    data,       \* what has been written to each inode
    index,      \* the backups that have an index file
    entries,    \* entries[b]: what b has written to it
    pc,
    todo,
    file,       \* file[b]: the source file b handles
    stat,       \* stat[b]: its mtime when b looked, cached in class File
    read,       \* read[b]: what b has read in this pass
    hash,       \* hash[b]: what b has read in the first pass
    inode,      \* inode[b]: what b has opened for writing
    cache,      \* cache[b]: Repository::writeCache
    changes, kills,
    raced,      \* history: files whose attributes two backups have set across
                \* each other since the last change
    astray      \* history: hashes at which a backup met another one and read
                \* something else there, or was killed

sourceVars == <<source, mtime, attrSha1, attrMtime>>
storeVars == <<tmp, files, data>>
indexVars == <<index, entries>>
backupVars == <<pc, todo, file, stat, read, hash, inode, cache>>
bounds == <<changes, kills>>
history == <<raced, astray>>
vars == <<sourceVars, storeVars, indexVars, backupVars, bounds, history>>

Hashes == Contents
Stored(h) == \E i \in Inodes : <<h, i>> \in files

(* What has been read in a pass, and directories: a name is one file.      *)
Reads == {<<>>} \cup {<<c>> : c \in Chunks} \cup Contents
Directory(names) ==
    names \subseteq Hashes \X Inodes /\ \A x, y \in names : x[1] = y[1] => x = y

TypeOK ==
    /\ source \in [Sources -> Contents] /\ mtime \in [Sources -> Nat]
    /\ attrSha1 \in [Sources -> Hashes \cup {None}]
    /\ attrMtime \in [Sources -> Nat \cup {None}]
    /\ Directory(tmp) /\ Directory(files)
    /\ data \in [Inodes -> [{1, 2} -> Chunks \cup {Hole}]]
    /\ index \subseteq Backups /\ entries \in [Backups -> SUBSET Hashes]
    /\ pc \in [Backups -> {"start", "next", "attributes", "hash", "sha1",
                "mtime", "contains", "open", "copy", "rename", "compare",
                "move", "done"}]
    /\ todo \in [Backups -> SUBSET Sources]
    /\ file \in [Backups -> Sources \cup {None}]
    /\ stat \in [Backups -> Nat]
    /\ read \in [Backups -> Reads]
    /\ hash \in [Backups -> Hashes \cup {None}]
    /\ inode \in [Backups -> Inodes \cup {None}]
    /\ cache \in [Backups -> SUBSET Hashes]
    /\ raced \subseteq Sources /\ astray \subseteq Hashes

Empty == [k \in {1, 2} |-> Hole]

Init ==
    /\ source \in [Sources -> {<<c, c>> : c \in Chunks}]
    /\ mtime = [f \in Sources |-> 1]
    /\ attrSha1 = [f \in Sources |-> None]
    /\ attrMtime = [f \in Sources |-> None]
    /\ tmp = {} /\ files = {} /\ data = [i \in Inodes |-> Empty]
    /\ index = {} /\ entries = [b \in Backups |-> {}]
    /\ pc = [b \in Backups |-> "start"]
    /\ todo = [b \in Backups |-> {}] /\ file = [b \in Backups |-> None]
    /\ stat = [b \in Backups |-> 0] /\ read = [b \in Backups |-> <<>>]
    /\ hash = [b \in Backups |-> None] /\ inode = [b \in Backups |-> None]
    /\ cache = [b \in Backups |-> {}]
    /\ changes = 0 /\ kills = 0
    /\ raced = {} /\ astray = {}

-----------------------------------------------------------------------------
Running(b) == pc[b] \notin {"start", "done"}
Goto(b, place) == pc' = [pc EXCEPT ![b] = place]

Start(b) ==
    /\ pc[b] = "start"
    /\ todo' = [todo EXCEPT ![b] = Sources]
    /\ Goto(b, "next")
    /\ UNCHANGED <<sourceVars, storeVars, indexVars, bounds, file, stat, read,
                   hash, inode, cache>>

(* handleDirectory() looks at a child: lstat().                            *)
Look(b, f) ==
    /\ pc[b] = "next" /\ f \in todo[b]
    /\ todo' = [todo EXCEPT ![b] = @ \ {f}]
    /\ file' = [file EXCEPT ![b] = f]
    /\ stat' = [stat EXCEPT ![b] = mtime[f]]
    /\ Goto(b, "attributes")
    /\ UNCHANGED <<sourceVars, storeVars, indexVars, bounds, read, hash, inode,
                   cache>>

(* storeFile() returns a hash, handleFile() writes it to the index file.   *)
Return(b, h) ==
    /\ entries' = [entries EXCEPT ![b] = @ \cup {h}]
    /\ Goto(b, "next")
    /\ read' = [read EXCEPT ![b] = <<>>]
    /\ hash' = [hash EXCEPT ![b] = None]
    /\ inode' = [inode EXCEPT ![b] = None]
    /\ file' = [file EXCEPT ![b] = None]

ContainsInCache(b, h) == h \in cache[b]
Contains(b, h) == h \in cache[b] \/ Stored(h)

(* Lines 266-275.                                                          *)
UpToDate(b) == attrSha1[file[b]] # None /\ attrMtime[file[b]] = stat[b]

AskAttributes(b) ==
    /\ pc[b] = "attributes"
    /\ IF UpToDate(b) /\ Contains(b, attrSha1[file[b]])
       THEN Return(b, attrSha1[file[b]])
       ELSE Goto(b, "hash") /\ UNCHANGED <<entries, read, hash, inode, file>>
    /\ UNCHANGED <<sourceVars, storeVars, index, bounds, todo, stat, cache>>

ReadChunk(b) ==
    read' = [read EXCEPT ![b] = Append(@, source[file[b]][Len(@) + 1])]

(* Lines 286-294: the first pass.                                          *)
Hash(b) ==
    /\ pc[b] = "hash"
    /\ ReadChunk(b)
    /\ IF Len(read'[b]) = 2
       THEN hash' = [hash EXCEPT ![b] = read'[b]] /\ Goto(b, "sha1")
       ELSE UNCHANGED <<hash, pc>>
    /\ UNCHANGED <<sourceVars, storeVars, indexVars, bounds, todo, file, stat,
                   inode, cache>>

(* Lines 296-297: the attribute has the mtime of the look.                 *)
SetSha1(b) ==
    /\ pc[b] = "sha1"
    /\ attrSha1' = [attrSha1 EXCEPT ![file[b]] = hash[b]]
    /\ Goto(b, "mtime")
    /\ UNCHANGED <<source, mtime, attrMtime, storeVars, indexVars, bounds, todo,
                   file, stat, read, hash, inode, cache>>

SetMtimeOfNow(b) ==
    /\ pc[b] = "mtime"
    /\ attrMtime' = [attrMtime EXCEPT ![file[b]] = mtime[file[b]]]
    /\ Goto(b, "contains")
    /\ UNCHANGED <<source, mtime, attrSha1, storeVars, indexVars, bounds, todo,
                   file, stat, read, hash, inode, cache>>

SetMtime(b) ==
    /\ pc[b] = "mtime"
    /\ attrMtime' = [attrMtime EXCEPT ![file[b]] = stat[b]]
    /\ Goto(b, "contains")
    /\ UNCHANGED <<source, mtime, attrSha1, storeVars, indexVars, bounds, todo,
                   file, stat, read, hash, inode, cache>>

(* Lines 299-301 and 350-352.                                              *)
AskContains(b) ==
    /\ pc[b] = "contains"
    /\ IF Contains(b, hash[b])
       THEN /\ cache' = [cache EXCEPT ![b] = @ \cup {hash[b]}]
            /\ Return(b, hash[b])
       ELSE /\ read' = [read EXCEPT ![b] = <<>>]
            /\ Goto(b, "open")
            /\ UNCHANGED <<cache, entries, hash, inode, file>>
    /\ UNCHANGED <<sourceVars, storeVars, index, bounds, todo, stat>>

(* Line 313: open(O_CREAT | O_TRUNC) of "<hash>.tmp": an existing file is  *)
(* emptied, whoever has it open.                                           *)
Open(b) ==
    /\ pc[b] = "open"
    /\ \E i \in Inodes :
        /\ IF \E j \in Inodes : <<hash[b], j>> \in tmp
           THEN <<hash[b], i>> \in tmp ELSE i = <<b, file[b]>>
        /\ tmp' = tmp \cup {<<hash[b], i>>}
        /\ data' = [data EXCEPT ![i] = Empty]
        /\ inode' = [inode EXCEPT ![b] = i]
    /\ Goto(b, "copy")
    /\ UNCHANGED <<sourceVars, files, indexVars, bounds, todo, file, stat, read,
                   hash, cache>>

(* Lines 316-324: the second pass.                                         *)
Copy(b) ==
    /\ pc[b] = "copy"
    /\ ReadChunk(b)
    /\ LET k == Len(read'[b]) IN
        /\ data' = [data EXCEPT ![inode[b]][k] = read'[b][k]]
        /\ IF k = 2 THEN Goto(b, "rename") ELSE UNCHANGED pc
    /\ UNCHANGED <<sourceVars, tmp, files, indexVars, bounds, todo, file, stat,
                   hash, inode, cache>>

(* rename(from, to), whose failure File::move() callers ignore.            *)
Names(S, h) == {x \in S : x[1] = h}
Renamed(from, h) == {<<h, x[2]>> : x \in from}
ReplacedBeside(h, from) == files \cup Renamed(from, h)
Replaced(h, from) ==
    IF from = {} THEN files ELSE (files \ Names(files, h)) \cup Renamed(from, h)

(* ShabackOutputStream::finish().                                          *)
Rename(b) ==
    /\ pc[b] = "rename"
    /\ files' = Replaced(hash[b], Names(tmp, hash[b]))
    /\ tmp' = tmp \ Names(tmp, hash[b])
    /\ Goto(b, "compare")
    /\ UNCHANGED <<sourceVars, data, indexVars, bounds, todo, file, stat, read,
                   hash, inode, cache>>

(* Lines 326-339 and 350-352.                                              *)
Changed(b) == read[b] # hash[b]

CompareNever(b) ==
    /\ pc[b] = "compare"
    /\ cache' = [cache EXCEPT ![b] = @ \cup {hash[b]}]
    /\ Return(b, hash[b])
    /\ UNCHANGED <<sourceVars, storeVars, index, bounds, todo, stat>>

Compare(b) ==
    /\ pc[b] = "compare"
    /\ IF Changed(b)
       THEN /\ attrSha1' = [attrSha1 EXCEPT ![file[b]] = None]
            /\ attrMtime' = [attrMtime EXCEPT ![file[b]] = None]
            /\ Goto(b, "move")
            /\ UNCHANGED <<cache, entries, read, hash, inode, file>>
       ELSE /\ cache' = [cache EXCEPT ![b] = @ \cup {hash[b]}]
            /\ Return(b, hash[b])
            /\ UNCHANGED <<attrSha1, attrMtime>>
    /\ UNCHANGED <<source, mtime, storeVars, index, bounds, todo, stat>>

(* Line 340: the blob is moved from the old hash to the new one.           *)
MoveForgotten(b) ==
    /\ pc[b] = "move"
    /\ cache' = [cache EXCEPT ![b] = @ \cup {read[b]}]
    /\ Return(b, read[b])
    /\ UNCHANGED <<sourceVars, storeVars, index, bounds, todo, stat>>

Move(b) ==
    /\ pc[b] = "move"
    /\ files' = Replaced(read[b], Names(files, hash[b])) \ Names(files, hash[b])
    /\ cache' = [cache EXCEPT ![b] = @ \cup {read[b]}]
    /\ Return(b, read[b])
    /\ UNCHANGED <<sourceVars, tmp, data, index, bounds, todo, stat>>

(* The index file gets its name.                                           *)
Finish(b) ==
    /\ pc[b] = "next" /\ todo[b] = {}
    /\ index' = index \cup {b}
    /\ Goto(b, "done")
    /\ cache' = [cache EXCEPT ![b] = {}]
    /\ stat' = [stat EXCEPT ![b] = 0]
    /\ UNCHANGED <<sourceVars, storeVars, entries, bounds, todo, file, read,
                   hash, inode>>

-----------------------------------------------------------------------------
(* A source file changes; its mtime does, too.                             *)
Change(f) ==
    /\ changes < MaxChanges
    /\ changes' = changes + 1
    /\ \E c \in Chunks : source' = [source EXCEPT ![f] = <<c, c>>]
    /\ source' # source
    /\ mtime' = [mtime EXCEPT ![f] = @ + 1]
    /\ UNCHANGED <<attrSha1, attrMtime, storeVars, indexVars, backupVars,
                   kills>>

Kill(b) ==
    /\ kills < MaxKills
    /\ Running(b)
    /\ pc[b] \in {"compare", "move"} /\ Changed(b) => KillWhileMoving
    /\ kills' = kills + 1
    /\ Goto(b, "done")
    /\ todo' = [todo EXCEPT ![b] = {}] /\ file' = [file EXCEPT ![b] = None]
    /\ stat' = [stat EXCEPT ![b] = 0] /\ read' = [read EXCEPT ![b] = <<>>]
    /\ hash' = [hash EXCEPT ![b] = None] /\ inode' = [inode EXCEPT ![b] = None]
    /\ cache' = [cache EXCEPT ![b] = {}]
    /\ entries' = [entries EXCEPT ![b] = {}]
    /\ UNCHANGED <<sourceVars, storeVars, index, changes>>

(* An index file is expired and gc removes what nothing refers to.         *)
Referenced(S) == UNION {entries[b] : b \in S}

Collect(b) ==
    /\ \A c \in Backups : ~Running(c)
    /\ b \in index
    /\ index' = index \ {b}
    /\ entries' = [entries EXCEPT ![b] = {}]
    /\ files' = {x \in files : x[1] \in Referenced(index')}
    /\ tmp' = {}
    /\ UNCHANGED <<sourceVars, data, backupVars, bounds>>

Step(b) ==
    \/ Start(b) \/ \E f \in Sources : Look(b, f)
    \/ AskAttributes(b) \/ Hash(b) \/ SetSha1(b) \/ SetMtime(b)
    \/ AskContains(b) \/ Open(b) \/ Copy(b) \/ Rename(b) \/ Compare(b)
    \/ Move(b) \/ Finish(b)

-----------------------------------------------------------------------------
(* What the properties have to name: where two backups get in each other's *)
(* way.  Both variables only record what happens.                          *)

(* Between its two setXAttr() a backup has left its own hash beside a newer*)
(* mtime, or another one, that looked at another time, is there as well.   *)
Racing(f) ==
    \E b \in Backups :
        /\ pc[b] = "mtime" /\ file[b] = f
        /\ \/ attrMtime[f] # None /\ attrMtime[f] > stat[b]
           \/ \E c \in Backups :
                  pc[c] = "mtime" /\ file[c] = f /\ stat[c] # stat[b]

Storing(b) == pc[b] \in {"open", "copy", "rename", "compare", "move"}
Deviating(b) == Storing(b) /\ \E k \in 1..Len(read[b]) : read[b][k] # hash[b][k]
Uses(b, h) == (Storing(b) /\ hash[b] = h) \/ h \in entries[b]
Meets(b, c) == b # c /\ Storing(b) /\ Uses(c, hash[b])

(* A backup that finds another content than it has hashed will move the    *)
(* blob away, whoever else uses the name.                                  *)
Misled ==
    {hash[b] : b \in
        {d \in Backups : Deviating(d) /\ \E c \in Backups : Meets(d, c)}}

(* What is moved from such a name.                                         *)
Moved(b) == IF pc[b] = "move" /\ hash[b] \in astray THEN {read[b]} ELSE {}

(* What a backup leaves behind for others if it is killed.                 *)
Left(b) ==
    {hash[c] : c \in
        {d \in Backups : \E e \in Backups : Meets(d, e) /\ b \in {d, e}}}

Watch(hashes) ==
    /\ raced' = {f \in Sources : Racing(f)' \/ (f \in raced /\ mtime'[f] = mtime[f])}
    /\ astray' = hashes \cup Misled'

Next ==
    \/ \E b \in Backups :
          \/ Step(b) /\ Watch(astray \cup Moved(b))
          \/ Kill(b) /\ Watch(astray \cup Left(b))
          \/ Collect(b) /\ Watch(astray \cap Referenced(index'))
    \/ \E f \in Sources : Change(f) /\ Watch(astray)

Spec == Init /\ [][Next]_vars

-----------------------------------------------------------------------------
(* Properties.                                                             *)

(* What is under a hash has that hash, whatever has changed while it was   *)
(* read and wherever a backup was killed; for a while it may not have,     *)
(* before the backup that wrote it has moved it or finished writing it.    *)
(* Exempt are the hashes at which backups met and one was misled or killed.*)
Correct(x) == data[x[2]] = x[1]
Unfinished(b, x) ==
    \/ pc[b] \in {"compare", "move"} /\ hash[b] = x[1]
    \/ pc[b] = "copy" /\ inode[b] = x[2]

BlobSound ==
    \A x \in files :
        Correct(x) \/ x[1] \in astray \/ \E b \in Backups : Unfinished(b, x)

(* Every hash that a backup has written to its index file is a blob, as    *)
(* long as the index file is there, with the same exception.               *)
IndexSound == \A b \in Backups : \A h \in entries[b] \ astray : Stored(h)

(* A current attribute tells what the source file contains, so that the    *)
(* next backup may trust it, unless two backups have set it across each    *)
(* other.                                                                  *)
Trusted(f) == attrSha1[f] # None /\ attrMtime[f] = mtime[f]
AttrSound == \A f \in Sources \ raced : Trusted(f) => attrSha1[f] = source[f]

(* A correct blob disappears by gc only: no rename() of a backup hits it,  *)
(* but by what is still being written.                                     *)
CorrectBlobs == {x[1] : x \in {y \in files : Correct(y)}}
Rewritten == {hash[b] : b \in {c \in Backups : pc[c] = "copy"}}
BlobStays ==
    [][CorrectBlobs \ (CorrectBlobs' \cup Rewritten' \cup astray') # {}
       => index' # index]_vars

(* Without the exception.  "XAttr contains sha1 digest and mtime is still  *)
(* uptodate" (src/src/Repository.cpp:268) is why the next backup may skip  *)
(* the file: here when nobody is at work any more.                         *)
AttrAlwaysSound ==
    (\A b \in Backups : ~Running(b)) =>
        \A f \in Sources : Trusted(f) => attrSha1[f] = source[f]
=============================================================================
