----------------------------- MODULE Repository -----------------------------
(***************************************************************************)
(* The blobs, index files and write-cache files of a repository, and the   *)
(* processes that work on them: backup, gc, prune (or history --keep) and  *)
(* restore (or test-restore).  The lock is the readers-writer lock that    *)
(* module RepoLock implements.                                             *)
(*                                                                         *)
(* A blob is the hash it is stored under.  A source file is backed up as   *)
(* one blob, or, when config.splitFile() says so, as blocks and a list     *)
(* blob that names them.  A source file that changes while it is read and  *)
(* concurrent writes of one blob are not modelled here.                    *)
(***************************************************************************)
EXTENDS Naturals, FiniteSets

CONSTANTS
    Backups, GCs, Prunes, Restores,     \* the executions of each operation
                                        \* (one after the other, for the last two)
    Blobs,      \* plain files and blocks
    Lists,      \* split files: their list blobs "<hash>_s"
    Blocks,     \* Blocks[l]: the blocks list l names
    Source,     \* Source[b]: what backup b finds on the disk
    Unreadable, \* the source files that may turn out unreadable
    NoList,
    UseWriteCache,      \* not -W
    GCDuringImport,     \* gc may run between importCacheFile() and lock()
    SweepInterrupted    \* gc may die in its sweep when a split file has an
                        \* extended attribute

Procs == Backups \cup GCs \cup Prunes \cup Restores
Writers == Backups \cup GCs     \* of a cache file
Contents == Blobs \cup Lists

ASSUME KindsAssumption ==
    /\ Backups \cap GCs = {} /\ Backups \cap Prunes = {}
    /\ Backups \cap Restores = {} /\ GCs \cap Prunes = {}
    /\ GCs \cap Restores = {} /\ Prunes \cap Restores = {}
    /\ Blobs \cap Lists = {} /\ NoList \notin Lists
ASSUME ContentsAssumption ==
    /\ Blocks \in [Lists -> SUBSET Blobs]
    /\ Source \in [Backups -> SUBSET Contents]

VARIABLES
    files,      \* the blobs under files/
    attrs,      \* source files whose attribute user.shaback.sha1 is current
    indexFiles, \* the backups whose index file is in index/
    entries,    \* entries[b]: what b has written to its index file
    cacheFiles, \* the processes whose file is in cache/
    cached,     \* cached[p]: what p has written to its cache file
    mode,       \* the readers-writer lock
    clock,
    startDate,  \* startDate[p]: the date in the names of p's files
    pc,
    writeCache, \* Repository::writeCache of each process
    todo,       \* what each process still has to handle in its loop
    list,       \* list[b]: the split file b is storing, or NoList
    blocks      \* blocks[b]: its blocks b has not handled yet

RW == INSTANCE RWLock

store == <<files, attrs, indexFiles, cacheFiles, cached>>
vars == <<files, attrs, indexFiles, entries, cacheFiles, cached, mode, clock,
          startDate, pc, writeCache, todo, list, blocks>>

(* Restoring a split file takes its list and its blocks.                   *)
Needs(c) == {c} \cup (IF c \in Lists THEN Blocks[c] ELSE {})
NeedsAll(S) == UNION {Needs(c) : c \in S}
Referenced == UNION {NeedsAll(entries[b]) : b \in indexFiles}

TypeOK ==
    /\ files \subseteq Contents /\ attrs \subseteq Lists
    /\ indexFiles \subseteq Backups
    /\ entries \in [Backups -> SUBSET Contents]
    /\ cacheFiles \subseteq Writers
    /\ cached \in [Writers -> SUBSET Contents]
    /\ RW!TypeOK
    /\ clock \in Nat /\ startDate \in [Writers -> Nat]
    /\ pc \in [Procs -> {"start", "import", "lock", "store", "blocks",
                         "expire", "mark", "uncache", "sweep", "cache",
                         "fill", "prune", "restore", "unlock", "done"}]
    /\ writeCache \in [Writers -> SUBSET Contents]
    /\ todo \in [Procs -> SUBSET (Contents \cup Backups)]
    /\ list \in [Backups -> Lists \cup {NoList}]
    /\ blocks \in [Backups -> SUBSET Blobs]

Init ==
    /\ files = {} /\ attrs = {}
    /\ indexFiles = {} /\ entries = [b \in Backups |-> {}]
    /\ cacheFiles = {} /\ cached = [p \in Writers |-> {}]
    /\ RW!Init
    /\ clock = 0 /\ startDate = [p \in Writers |-> 0]
    /\ pc = [p \in Procs |-> IF p \in Writers THEN "start" ELSE "lock"]
    /\ writeCache = [p \in Writers |-> {}]
    /\ todo = [p \in Procs |-> {}]
    /\ list = [b \in Backups |-> NoList] /\ blocks = [b \in Backups |-> {}]

-----------------------------------------------------------------------------
Goto(p, place) == pc' = [pc EXCEPT ![p] = place]

(* main() makes the Repository, whose startDate is the time of that.       *)
Start(p) ==
    /\ pc[p] = "start"
    /\ clock' = clock + 1
    /\ startDate' = [startDate EXCEPT ![p] = clock]
    /\ Goto(p, IF p \in Backups /\ UseWriteCache THEN "import" ELSE "lock")
    /\ UNCHANGED <<store, entries, mode, writeCache, todo, list, blocks>>

Lock(p, acquire, place) ==
    /\ pc[p] = "lock"
    /\ acquire
    /\ Goto(p, place)

(* The memory of a process is gone when it ends, and so is a temporary     *)
(* index file.  A prune or a restore may follow another one: the file names*)
(* it makes are not of its own.                                            *)
Forget(p) ==
    /\ Goto(p, IF p \in Writers THEN "done" ELSE "lock")
    /\ writeCache' = [q \in Writers |-> IF q = p THEN {} ELSE writeCache[q]]
    /\ todo' = [todo EXCEPT ![p] = {}]
    /\ list' = [b \in Backups |-> IF b = p THEN NoList ELSE list[b]]
    /\ blocks' = [b \in Backups |-> IF b = p THEN {} ELSE blocks[b]]
    /\ entries' = [b \in Backups |-> IF b = p /\ b \notin indexFiles
                                     THEN {} ELSE entries[b]]
    /\ UNCHANGED <<store, clock, startDate>>

(* The destructor of the operation unlocks.                                *)
Unlock(p) ==
    /\ pc[p] = "unlock" \/ (pc[p] = "restore" /\ todo[p] = {})
    /\ RW!Release(p)
    /\ Forget(p)

-----------------------------------------------------------------------------
(* backup                                                                  *)

(* importCacheFile() reads the cache file with the latest name.  No lock is*)
(* held yet.                                                               *)
LatestCache(c) ==
    /\ c \in cacheFiles
    /\ \A d \in cacheFiles : startDate[d] <= startDate[c]

ImportCacheFile(b) ==
    /\ pc[b] = "import"
    /\ GCDuringImport \/ \A g \in GCs : mode[g] # "exclusive"
    /\ \/ cacheFiles = {} /\ UNCHANGED writeCache
       \/ \E c \in cacheFiles :
             /\ LatestCache(c)
             /\ writeCache' = [writeCache EXCEPT ![b] = cached[c]]
    /\ Goto(b, "lock")
    /\ UNCHANGED <<store, entries, mode, clock, startDate, todo, list, blocks>>

LockBackup(b) ==
    /\ Lock(b, RW!AcquireShared(b), "store")
    /\ todo' = [todo EXCEPT ![b] = Source[b]]
    /\ UNCHANGED <<store, entries, clock, startDate, writeCache, list, blocks>>

Contains(b, h) == h \in writeCache[b] \/ h \in files

AddEntry(b, c) ==
    /\ entries' = [entries EXCEPT ![b] = @ \cup {c}]
    /\ todo' = [todo EXCEPT ![b] = @ \ {c}]

Store(b, h) ==
    /\ files' = files \cup {h}
    /\ writeCache' = [writeCache EXCEPT ![b] = @ \cup {h}]

(* handleFile() and storeFile() of a file that is not split.  Its attribute*)
(* only saves the computation of the hash: contains() is asked either way. *)
StoreFile(b, c) ==
    /\ pc[b] = "store" /\ c \in todo[b] \cap Blobs
    /\ AddEntry(b, c)
    /\ IF Contains(b, c)
       THEN /\ \/ writeCache' = [writeCache EXCEPT ![b] = @ \cup {c}]
               \/ UNCHANGED writeCache
            /\ UNCHANGED files
       ELSE Store(b, c)
    /\ UNCHANGED <<attrs, indexFiles, cacheFiles, cached, mode, clock,
                   startDate, pc, list, blocks>>

(* storeFile() of a split file whose attribute names a list that is there. *)
SkipSplitFileUnasked(b, l) ==
    /\ pc[b] = "store" /\ l \in todo[b] \cap attrs
    /\ AddEntry(b, l)
    /\ UNCHANGED <<store, mode, clock, startDate, pc, writeCache, list, blocks>>

SkipSplitFile(b, l) ==
    /\ pc[b] = "store" /\ l \in todo[b] \cap attrs
    /\ Contains(b, l)
    /\ AddEntry(b, l)
    /\ UNCHANGED <<store, mode, clock, startDate, pc, writeCache, list, blocks>>

(* Otherwise storeSplitFile() reads the file, block by block.              *)
OpenSplitFile(b, l) ==
    /\ pc[b] = "store" /\ l \in todo[b] \cap Lists
    /\ l \in attrs => ~Contains(b, l)
    /\ list' = [list EXCEPT ![b] = l]
    /\ blocks' = [blocks EXCEPT ![b] = Blocks[l]]
    /\ Goto(b, "blocks")
    /\ UNCHANGED <<store, entries, mode, clock, startDate, writeCache, todo>>

StoreBlock(b, h) ==
    /\ pc[b] = "blocks" /\ h \in blocks[b]
    /\ blocks' = [blocks EXCEPT ![b] = @ \ {h}]
    /\ IF Contains(b, h) THEN UNCHANGED <<files, writeCache>> ELSE Store(b, h)
    /\ UNCHANGED <<attrs, indexFiles, entries, cacheFiles, cached, mode, clock,
                   startDate, pc, todo, list>>

(* The list is written after its blocks, the attribute (which some file    *)
(* systems do not have) after the list.                                    *)
StoreListEarly(b) ==
    /\ pc[b] = "blocks"
    /\ IF Contains(b, list[b])
       THEN UNCHANGED <<files, writeCache>>
       ELSE Store(b, list[b])
    /\ attrs' \in {attrs, attrs \cup {list[b]}}
    /\ AddEntry(b, list[b])
    /\ Goto(b, "store")
    /\ UNCHANGED <<indexFiles, cacheFiles, cached, mode, clock, startDate,
                   list, blocks>>

StoreListAnytime(b) ==
    /\ pc[b] \in {"store", "blocks"} /\ blocks[b] = {}
    /\ IF Contains(b, list[b])
       THEN UNCHANGED <<files, writeCache>>
       ELSE Store(b, list[b])
    /\ attrs' \in {attrs, attrs \cup {list[b]}}
    /\ AddEntry(b, list[b])
    /\ Goto(b, "store")
    /\ UNCHANGED <<indexFiles, cacheFiles, cached, mode, clock, startDate,
                   list, blocks>>

StoreList(b) ==
    /\ pc[b] = "blocks" /\ blocks[b] = {}
    /\ IF Contains(b, list[b])
       THEN UNCHANGED <<files, writeCache>>
       ELSE Store(b, list[b])
    /\ attrs' \in {attrs, attrs \cup {list[b]}}
    /\ AddEntry(b, list[b])
    /\ Goto(b, "store")
    /\ UNCHANGED <<indexFiles, cacheFiles, cached, mode, clock, startDate,
                   list, blocks>>

(* A file that cannot be read is reported and left out of the index.       *)
SkipUnreadable(b) ==
    /\ \/ /\ pc[b] = "store"
          /\ \E c \in todo[b] \cap Unreadable : todo' = [todo EXCEPT ![b] = @ \ {c}]
       \/ /\ pc[b] = "blocks" /\ list[b] \in Unreadable
          /\ todo' = [todo EXCEPT ![b] = @ \ {list[b]}]
    /\ Goto(b, "store")
    /\ UNCHANGED <<store, entries, mode, clock, startDate, writeCache, list,
                   blocks>>

(* directoryFileStream.finish() renames the temporary index file.          *)
FinishIndexFile(b) ==
    /\ pc[b] = "store" /\ todo[b] = {}
    /\ indexFiles' = indexFiles \cup {b}
    /\ Goto(b, "expire")
    /\ UNCHANGED <<files, attrs, entries, cacheFiles, cached, mode, clock,
                   startDate, writeCache, todo, list, blocks>>

(* Removes older index files: any of them, as far as this module goes.     *)
DeleteOldIndexFiles(b) ==
    /\ pc[b] = "expire"
    /\ \E old \in SUBSET (indexFiles \ {b}) : indexFiles' = indexFiles \ old
    /\ Goto(b, IF UseWriteCache THEN "cache" ELSE "unlock")
    /\ UNCHANGED <<files, attrs, entries, cacheFiles, cached, mode, clock,
                   startDate, writeCache, todo, list, blocks>>

-----------------------------------------------------------------------------
(* exportCacheFile(), by backup and gc: the file is created, then filled.  *)

CreateCacheFile(p) ==
    /\ pc[p] = "cache"
    /\ cacheFiles' = cacheFiles \cup {p}
    /\ Goto(p, "fill")
    /\ UNCHANGED <<files, attrs, indexFiles, entries, cached, mode, clock,
                   startDate, writeCache, todo, list, blocks>>

FillCacheFile(p) ==
    /\ pc[p] = "fill"
    /\ cached' = [cached EXCEPT ![p] = writeCache[p]]
    /\ Goto(p, "unlock")
    /\ UNCHANGED <<files, attrs, indexFiles, entries, cacheFiles, mode, clock,
                   startDate, writeCache, todo, list, blocks>>

-----------------------------------------------------------------------------
(* gc                                                                      *)

LockGC(g) ==
    /\ GCDuringImport \/ \A b \in Backups : pc[b] # "lock"
    /\ Lock(g, RW!AcquireExclusive(g), "mark")
    /\ todo' = [todo EXCEPT ![g] = indexFiles]
    /\ UNCHANGED <<store, entries, clock, startDate, writeCache, list, blocks>>

(* processShabackupFile() and keepSplitFileBlocks() of one index file.     *)
MarkIndexFile(g, b) ==
    /\ pc[g] = "mark" /\ b \in todo[g]
    /\ entries[b] \cap Lists \subseteq files
    /\ writeCache' = [writeCache EXCEPT ![g] = @ \cup NeedsAll(entries[b])]
    /\ todo' = [todo EXCEPT ![g] = @ \ {b}]
    /\ UNCHANGED <<store, entries, mode, clock, startDate, pc, list, blocks>>

(* An index file or a list that cannot be read, because it is gone or for  *)
(* any other cause, is an error: gc reads on, marks what it can and throws *)
(* before it removes anything (no --force).                                *)
BailOut(g) ==
    /\ pc[g] = "mark" /\ todo[g] # {}
    /\ Goto(g, "unlock")
    /\ UNCHANGED <<store, entries, mode, clock, startDate, writeCache, todo,
                   list, blocks>>

FinishMark(g) ==
    /\ pc[g] = "mark" /\ todo[g] = {}
    /\ Goto(g, "uncache")
    /\ UNCHANGED <<store, entries, mode, clock, startDate, writeCache, todo,
                   list, blocks>>

RemoveCacheFileNone(g) ==
    /\ pc[g] = "uncache"
    /\ Goto(g, "sweep")
    /\ UNCHANGED <<store, entries, mode, clock, startDate, writeCache, todo,
                   list, blocks>>

RemoveCacheFile(g) ==
    /\ pc[g] = "uncache"
    /\ \/ /\ \E c \in cacheFiles : cacheFiles' = cacheFiles \ {c}
          /\ UNCHANGED pc
       \/ cacheFiles = {} /\ Goto(g, "sweep") /\ UNCHANGED cacheFiles
    /\ UNCHANGED <<files, attrs, indexFiles, entries, cached, mode, clock,
                   startDate, writeCache, todo, list, blocks>>

GarbageOfPlainFiles(g) == (files \ writeCache[g]) \ Lists
Garbage(g) == files \ writeCache[g]

RemoveUnusedFile(g) ==
    /\ pc[g] = "sweep"
    /\ \/ /\ \E h \in Garbage(g) : files' = files \ {h}
          /\ UNCHANGED pc
       \/ Garbage(g) = {} /\ Goto(g, "cache") /\ UNCHANGED files
    /\ UNCHANGED <<attrs, indexFiles, entries, cacheFiles, cached, mode, clock,
                   startDate, writeCache, todo, list, blocks>>

-----------------------------------------------------------------------------
(* prune and history --keep: remove index files under an exclusive lock.   *)

LockPrune(q) ==
    /\ Lock(q, RW!AcquireExclusive(q), "prune")
    /\ UNCHANGED <<store, entries, clock, startDate, writeCache, todo, list,
                   blocks>>

Prune(q) ==
    /\ pc[q] = "prune"
    /\ \E old \in SUBSET indexFiles : indexFiles' = indexFiles \ old
    /\ Goto(q, "unlock")
    /\ UNCHANGED <<files, attrs, entries, cacheFiles, cached, mode, clock,
                   startDate, writeCache, todo, list, blocks>>

-----------------------------------------------------------------------------
(* restore and test-restore: open an index file, read its entries in turn. *)

LockRestoreUnlocked(r) ==
    /\ pc[r] = "lock" /\ Goto(r, "restore") /\ UNCHANGED mode
    /\ \E b \in indexFiles : todo' = [todo EXCEPT ![r] = entries[b]]
    /\ UNCHANGED <<store, entries, clock, startDate, writeCache, list, blocks>>

LockRestore(r) ==
    /\ Lock(r, RW!AcquireShared(r), "restore")
    /\ \E b \in indexFiles : todo' = [todo EXCEPT ![r] = entries[b]]
    /\ UNCHANGED <<store, entries, clock, startDate, writeCache, list, blocks>>

RestoreFile(r) ==
    /\ pc[r] = "restore"
    /\ \E c \in todo[r] : todo' = [todo EXCEPT ![r] = @ \ {c}]
    /\ UNCHANGED <<store, entries, mode, clock, startDate, pc, writeCache, list,
                   blocks>>

-----------------------------------------------------------------------------
(* A lock is refused, an exception ends the operation, a signal or a crash *)
(* ends the process.  What it has in files/, index/ and cache/ stays.      *)
Stop(p) ==
    /\ pc[p] \notin {"done"} \cup (IF p \in Writers THEN {} ELSE {"lock"})
    /\ pc[p] = "sweep" => SweepInterrupted \/ attrs = {}
    /\ mode' = [mode EXCEPT ![p] = "none"]
    /\ Forget(p)

BackupStep(b) ==
    \/ ImportCacheFile(b) \/ LockBackup(b)
    \/ \E c \in Contents :
          StoreFile(b, c) \/ SkipSplitFile(b, c) \/ OpenSplitFile(b, c)
    \/ \E h \in Blobs : StoreBlock(b, h)
    \/ StoreList(b) \/ SkipUnreadable(b)
    \/ FinishIndexFile(b) \/ DeleteOldIndexFiles(b)

GCStep(g) ==
    \/ LockGC(g)
    \/ \E b \in Backups : MarkIndexFile(g, b)
    \/ BailOut(g) \/ FinishMark(g) \/ RemoveCacheFile(g) \/ RemoveUnusedFile(g)

Next ==
    \/ \E p \in Procs : Unlock(p) \/ Stop(p)
    \/ \E p \in Writers : Start(p) \/ CreateCacheFile(p) \/ FillCacheFile(p)
    \/ \E b \in Backups : BackupStep(b)
    \/ \E g \in GCs : GCStep(g)
    \/ \E q \in Prunes : LockPrune(q) \/ Prune(q)
    \/ \E r \in Restores : LockRestore(r) \/ RestoreFile(r)

Spec == Init /\ [][Next]_vars

-----------------------------------------------------------------------------
(* Properties.                                                             *)

(* Every backup in index/ can be restored in full: the blobs its index file*)
(* names, and the blocks its lists name, are in files/.                    *)
NoDanglingReference == Referenced \subseteq files

(* A cache file names stored blobs only, at any moment a backup may import *)
(* it: also while gc runs and after it has been interrupted.               *)
CacheSound == \A p \in cacheFiles : cached[p] \subseteq files

(* What a backup at work takes for stored is stored, and so is all it has  *)
(* written to its index file so far.                                       *)
BackupSound ==
    \A b \in Backups :
        mode[b] = "shared" =>
            writeCache[b] \cup NeedsAll(entries[b]) \subseteq files

(* A restore finds every blob it still has to read, even if prune or the   *)
(* expiry of another backup has removed its index file meanwhile.          *)
RestoreFindsAll ==
    \A r \in Restores : pc[r] = "restore" => NeedsAll(todo[r]) \subseteq files

(* When gc has swept, exactly the referenced blobs are left.               *)
GCExact ==
    \A g \in GCs :
        pc[g] \in {"cache", "fill"} =>
            files = Referenced /\ writeCache[g] = Referenced
=============================================================================
