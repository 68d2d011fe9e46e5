-------------------------- MODULE RepositoryProofs --------------------------
(***************************************************************************)
(* Proofs about Repository for any contents and any number of processes:   *)
(* while it is used carefully, whatever backups, collections, prunes and   *)
(* restores do, every backup in the index can be restored.                 *)
(***************************************************************************)
EXTENDS Repository, TLAPS

(* What the users of the repository must see to, because the code does not *)
(* (run repository_import; with SweepInterrupted TLC refutes it as well).   *)
CarefulUse == ~GCDuringImport /\ ~SweepInterrupted

-----------------------------------------------------------------------------
(* The inductive invariant.                                                *)

(* Where each process holds the lock.                                      *)
AtWork(b) == pc[b] \in {"store", "blocks", "expire", "cache", "fill", "unlock"}
Collecting(g) ==
    pc[g] \in {"mark", "uncache", "sweep", "cache", "fill", "unlock"}

PlaceInv ==
    /\ \A b \in Backups :
          \/ pc[b] \in {"start", "import", "lock", "done"} /\ mode[b] = "none"
          \/ AtWork(b) /\ mode[b] = "shared"
    /\ \A g \in GCs :
          \/ pc[g] \in {"start", "lock", "done"} /\ mode[g] = "none"
          \/ Collecting(g) /\ mode[g] = "exclusive"
    /\ \A q \in Prunes :
          \/ pc[q] = "lock" /\ mode[q] = "none"
          \/ pc[q] \in {"prune", "unlock"} /\ mode[q] = "exclusive"
    /\ \A r \in Restores :
          \/ pc[r] = "lock" /\ mode[r] = "none"
          \/ pc[r] = "restore" /\ mode[r] = "shared"

LockInv == PlaceInv /\ RW!Exclusion

(* What a backup has imported or stored is there, and none has imported    *)
(* anything while a gc holds the lock.                                     *)
CacheInv ==
    \A b \in Backups :
        /\ pc[b] \in {"start", "import", "done"} => writeCache[b] = {}
        /\ (\E g \in GCs : mode[g] = "exclusive") => writeCache[b] = {}
        /\ writeCache[b] \subseteq files

EntriesInv ==
    \A b \in Backups :
        /\ pc[b] \in {"start", "import", "lock"} => entries[b] = {}
        /\ mode[b] = "shared" => NeedsAll(entries[b]) \subseteq files
        /\ pc[b] = "blocks" =>
              list[b] \in Lists /\ Blocks[list[b]] \ blocks[b] \subseteq files

(* The attribute of a split file is right to be trusted when its list is   *)
(* there.                                                                  *)
ListInv ==
    \/ \E g \in GCs : pc[g] = "sweep"
    \/ \A l \in attrs \cap files : Blocks[l] \subseteq files

(* What a gc has marked, and that no cache file is left when it sweeps.    *)
MarkInv ==
    \A g \in GCs :
        /\ pc[g] \in {"start", "lock"} => writeCache[g] = {}
        /\ pc[g] = "mark" =>
              /\ todo[g] \subseteq indexFiles
              /\ writeCache[g] =
                    UNION {NeedsAll(entries[b]) : b \in indexFiles \ todo[g]}
        /\ pc[g] \in {"uncache", "sweep", "cache", "fill"} =>
              writeCache[g] = Referenced
        /\ pc[g] = "sweep" => cacheFiles = {}

ExportInv ==
    /\ CacheSound
    /\ \A p \in Writers : pc[p] \notin {"unlock", "done"} => cached[p] = {}

IInv ==
    /\ TypeOK /\ LockInv /\ CacheInv /\ EntriesInv /\ ListInv /\ MarkInv
    /\ ExportInv /\ NoDanglingReference /\ RestoreFindsAll /\ GCExact

-----------------------------------------------------------------------------
(* What a set of entries needs.                                            *)

LEMMA NeedsType == \A S \in SUBSET Contents : NeedsAll(S) \in SUBSET Contents
BY ContentsAssumption DEF NeedsAll, Needs, Contents

LEMMA NeedsAdd == \A S, c : NeedsAll(S \cup {c}) = NeedsAll(S) \cup Needs(c)
BY DEF NeedsAll

LEMMA NeedsEmpty == NeedsAll({}) = {}
BY DEF NeedsAll

LEMMA NeedsMonotone ==
    \A S, T : S \subseteq T => NeedsAll(S) \subseteq NeedsAll(T)
BY DEF NeedsAll

-----------------------------------------------------------------------------
(* Type correctness.                                                       *)

LEMMA NextType ==
    ASSUME IInv, [Next]_vars
    PROVE  TypeOK'
<1> USE DEF IInv, TypeOK, RW!TypeOK, RW!Modes, Procs, Writers, Contents, Goto,
            store
<1>1. ASSUME NEW p \in Procs, Unlock(p)
      PROVE  TypeOK'
  BY <1>1 DEF Unlock, Forget, RW!Release
<1>2. ASSUME NEW p \in Procs, Stop(p)
      PROVE  TypeOK'
  BY <1>2 DEF Stop, Forget
<1>3. ASSUME NEW p \in Writers, Start(p)
      PROVE  TypeOK'
  BY <1>3 DEF Start
<1>4. ASSUME NEW p \in Writers, CreateCacheFile(p)
      PROVE  TypeOK'
  BY <1>4 DEF CreateCacheFile
<1>5. ASSUME NEW p \in Writers, FillCacheFile(p)
      PROVE  TypeOK'
  BY <1>5 DEF FillCacheFile
<1>6. ASSUME NEW b \in Backups, ImportCacheFile(b)
      PROVE  TypeOK'
  BY <1>6 DEF ImportCacheFile, LatestCache
<1>7. ASSUME NEW b \in Backups, LockBackup(b)
      PROVE  TypeOK'
  BY <1>7, ContentsAssumption DEF LockBackup, Lock, RW!AcquireShared
<1>8. ASSUME NEW b \in Backups, NEW c \in Contents, StoreFile(b, c)
      PROVE  TypeOK'
  BY <1>8 DEF StoreFile, AddEntry, Store, Contains
<1>9. ASSUME NEW b \in Backups, NEW l \in Contents, SkipSplitFile(b, l)
      PROVE  TypeOK'
  BY <1>9 DEF SkipSplitFile, AddEntry, Contains
<1>10. ASSUME NEW b \in Backups, NEW l \in Contents, OpenSplitFile(b, l)
      PROVE  TypeOK'
  BY <1>10, ContentsAssumption DEF OpenSplitFile, Contains
<1>11. ASSUME NEW b \in Backups, NEW h \in Blobs, StoreBlock(b, h)
      PROVE  TypeOK'
  BY <1>11 DEF StoreBlock, Store, Contains
<1>12. ASSUME NEW b \in Backups, StoreList(b)
      PROVE  TypeOK'
  BY <1>12 DEF StoreList, AddEntry, Store, Contains, EntriesInv
<1>13. ASSUME NEW b \in Backups, SkipUnreadable(b)
      PROVE  TypeOK'
  BY <1>13 DEF SkipUnreadable
<1>14. ASSUME NEW b \in Backups, FinishIndexFile(b)
      PROVE  TypeOK'
  BY <1>14 DEF FinishIndexFile
<1>15. ASSUME NEW b \in Backups, DeleteOldIndexFiles(b)
      PROVE  TypeOK'
  BY <1>15 DEF DeleteOldIndexFiles
<1>16. ASSUME NEW g \in GCs, LockGC(g)
      PROVE  TypeOK'
  BY <1>16 DEF LockGC, Lock, RW!AcquireExclusive
<1>17. ASSUME NEW g \in GCs, NEW b \in Backups, MarkIndexFile(g, b)
      PROVE  TypeOK'
  BY <1>17, NeedsType DEF MarkIndexFile
<1>18. ASSUME NEW g \in GCs, BailOut(g)
      PROVE  TypeOK'
  BY <1>18 DEF BailOut
<1>19. ASSUME NEW g \in GCs, FinishMark(g)
      PROVE  TypeOK'
  BY <1>19 DEF FinishMark
<1>20. ASSUME NEW g \in GCs, RemoveCacheFile(g)
      PROVE  TypeOK'
  BY <1>20 DEF RemoveCacheFile
<1>21. ASSUME NEW g \in GCs, RemoveUnusedFile(g)
      PROVE  TypeOK'
  BY <1>21 DEF RemoveUnusedFile, Garbage
<1>22. ASSUME NEW q \in Prunes, LockPrune(q)
      PROVE  TypeOK'
  BY <1>22 DEF LockPrune, Lock, RW!AcquireExclusive
<1>23. ASSUME NEW q \in Prunes, Prune(q)
      PROVE  TypeOK'
  BY <1>23 DEF Prune
<1>24. ASSUME NEW r \in Restores, LockRestore(r)
      PROVE  TypeOK'
  BY <1>24 DEF LockRestore, Lock, RW!AcquireShared
<1>25. ASSUME NEW r \in Restores, RestoreFile(r)
      PROVE  TypeOK'
  BY <1>25 DEF RestoreFile
<1>26. CASE UNCHANGED vars
  BY <1>26 DEF vars
<1>27. QED
  BY <1>1, <1>2, <1>3, <1>4, <1>5, <1>6, <1>7, <1>8, <1>9, <1>10, <1>11,
     <1>12, <1>13, <1>14, <1>15, <1>16, <1>17, <1>18, <1>19, <1>20, <1>21,
     <1>22, <1>23, <1>24, <1>25, <1>26
     DEF Next, BackupStep, GCStep

-----------------------------------------------------------------------------
(* Every step keeps the invariant.                                         *)

LEMMA Restorable ==
    ASSUME NoDanglingReference, NEW b \in indexFiles
    PROVE  NeedsAll(entries[b]) \subseteq files
BY DEF NoDanglingReference, Referenced

LEMMA AllRestorable ==
    ASSUME \A b \in indexFiles' : NeedsAll(entries'[b]) \subseteq files'
    PROVE  NoDanglingReference'
BY DEF NoDanglingReference, Referenced

LEMMA ReferencedStays ==
    ASSUME indexFiles' = indexFiles,
           \A b \in indexFiles : entries'[b] = entries[b]
    PROVE  Referenced' = Referenced
BY DEF Referenced

LEMMA ReferencedClosed ==
    ASSUME NEW l \in Lists, l \in Referenced
    PROVE  Blocks[l] \subseteq Referenced
<1>1. PICK b \in indexFiles : l \in NeedsAll(entries[b])
  BY DEF Referenced
<1>2. PICK c \in entries[b] : l \in Needs(c)
  BY <1>1 DEF NeedsAll
<1>3. c = l
  BY <1>2, KindsAssumption, ContentsAssumption DEF Needs
<1>4. Blocks[l] \subseteq NeedsAll(entries[b])
  BY <1>2, <1>3 DEF NeedsAll, Needs
<1>5. QED
  BY <1>4 DEF Referenced

(* A backup has added an entry; the others are where they were.            *)
LEMMA EntryAdded ==
    ASSUME EntriesInv, NEW b \in Backups, files \subseteq files',
           pc'[b] = "store", NeedsAll(entries'[b]) \subseteq files',
           \A x \in Backups \ {b} :
               /\ entries'[x] = entries[x] /\ pc'[x] = pc[x]
               /\ mode'[x] = mode[x] /\ list'[x] = list[x]
               /\ blocks'[x] = blocks[x]
    PROVE  EntriesInv'
BY DEF EntriesInv

(* No gc has begun: what the others do is nothing to its marks.            *)
LEMMA NoneCollects ==
    ASSUME MarkInv,
           \A g \in GCs : /\ pc[g] \in {"start", "lock", "done"}
                          /\ pc'[g] = pc[g] /\ writeCache'[g] = writeCache[g]
    PROVE  MarkInv' /\ GCExact'
BY DEF MarkInv, GCExact

(* While somebody shares the lock, no gc is between its lock and its end.  *)
LEMMA Shared ==
    ASSUME LockInv, NEW p \in Procs, mode[p] = "shared"
    PROVE  \A g \in GCs : pc[g] \in {"start", "lock", "done"}
BY DEF LockInv, PlaceInv, RW!Exclusion, Procs

(* While a gc holds it, no one else does anything in the repository.       *)
LEMMA Exclusive ==
    ASSUME LockInv, NEW g \in GCs, mode[g] = "exclusive"
    PROVE  /\ \A b \in Backups :
                 /\ pc[b] \in {"start", "import", "lock", "done"}
                 /\ mode[b] = "none"
           /\ \A h \in GCs \ {g} : pc[h] \in {"start", "lock", "done"}
           /\ \A r \in Restores : pc[r] # "restore"
BY KindsAssumption
   DEF LockInv, PlaceInv, RW!Exclusion, Procs, AtWork, Collecting

(* The end of a process, in an orderly way or not, takes nothing away that *)
(* an index file names.                                                    *)
LEMMA ForgetKeeps ==
    ASSUME IInv, TypeOK', NEW p \in Procs, Forget(p),
           mode' = [mode EXCEPT ![p] = "none"],
           pc[p] = "sweep" => attrs = {}
    PROVE  IInv'
<1> USE KindsAssumption
        DEF Procs, Writers, Contents, store, Goto, TypeOK, RW!TypeOK,
            CarefulUse
<1> USE DEF IInv, LockInv, PlaceInv, RW!Exclusion, AtWork, Collecting
<1> USE DEF Forget
<1>1. LockInv'
  OBVIOUS
<1>2. CacheInv' /\ ExportInv'
  BY DEF CacheInv, ExportInv, CacheSound
<1>3. EntriesInv' /\ ListInv'
  BY DEF EntriesInv, ListInv
<1>4. \A b \in indexFiles : entries'[b] = entries[b]
  OBVIOUS
<1>5. indexFiles' = indexFiles /\ Referenced' = Referenced
  BY <1>4, ReferencedStays
<1>6. NoDanglingReference' /\ GCExact'
  BY <1>5 DEF NoDanglingReference, GCExact
<1>7. MarkInv'
  BY <1>4, <1>5 DEF MarkInv
<1>8. RestoreFindsAll'
  BY DEF RestoreFindsAll
<1>9. QED
  BY <1>1, <1>2, <1>3, <1>6, <1>7, <1>8

LEMMA BackupStepKeeps ==
    ASSUME IInv, TypeOK', CarefulUse, NEW b \in Backups, BackupStep(b)
    PROVE  IInv'
<1> USE KindsAssumption
        DEF Procs, Writers, Contents, store, Goto, TypeOK, RW!TypeOK,
            CarefulUse
<1> USE DEF IInv, LockInv, PlaceInv, RW!Exclusion, AtWork, Collecting
<1>1. ASSUME LockBackup(b)
     PROVE  IInv'
  <2> USE <1>1 DEF LockBackup, Lock, RW!AcquireShared
  <2>1. LockInv'
    OBVIOUS
  <2>2. CacheInv' /\ ExportInv'
    BY DEF CacheInv, ExportInv, CacheSound
  <2>3. EntriesInv' /\ ListInv'
    BY NeedsAdd, NeedsEmpty DEF EntriesInv, ListInv, CacheInv, Needs
  <2>4. NoDanglingReference' /\ RestoreFindsAll'
    BY <2>3 DEF NoDanglingReference, RestoreFindsAll, Referenced, EntriesInv
  <2>5. MarkInv' /\ GCExact'
    BY DEF MarkInv, GCExact
  <2>6. QED
    BY <2>1, <2>2, <2>3, <2>4, <2>5
<1>2. ASSUME NEW c \in Contents, StoreFile(b, c)
     PROVE  IInv'
  <2> USE <1>2 DEF StoreFile, AddEntry, Store, Contains
  <2>1. LockInv'
    OBVIOUS
  <2>2. CacheInv' /\ ExportInv'
    BY DEF CacheInv, ExportInv, CacheSound
  <2>3. EntriesInv' /\ ListInv'
    <3>1. NeedsAll(entries'[b]) = NeedsAll(entries[b]) \cup {c}
      BY NeedsAdd DEF Needs
    <3>2. /\ c \in files' /\ files \subseteq files'
          /\ files' \subseteq files \cup {c}
      BY DEF CacheInv
    <3>3. EntriesInv'
      <4>1. EntriesInv /\ NeedsAll(entries[b]) \subseteq files
        BY DEF EntriesInv
      <4>2. files \subseteq files' /\ pc'[b] = "store"
        BY <3>1, <3>2
      <4>3. NeedsAll(entries'[b]) \subseteq files'
        BY ONLY <3>1, <3>2, <4>1, <4>2
      <4>4. \A x \in Backups \ {b} :
               /\ entries'[x] = entries[x] /\ pc'[x] = pc[x]
               /\ mode'[x] = mode[x] /\ list'[x] = list[x]
               /\ blocks'[x] = blocks[x]
        OBVIOUS
      <4>5. QED
        BY <4>1, <4>2, <4>3, <4>4, EntryAdded
    <3>4. ListInv'
      BY <3>2 DEF ListInv
    <3>5. QED
      BY <3>3, <3>4
  <2>4. NoDanglingReference' /\ RestoreFindsAll'
    <3>1. RestoreFindsAll'
      BY DEF RestoreFindsAll
    <3>2. ASSUME NEW x \in indexFiles'
          PROVE  NeedsAll(entries'[x]) \subseteq files'
      BY <2>3, Restorable DEF EntriesInv
    <3>3. QED
      BY <3>1, <3>2, AllRestorable
  <2>5. MarkInv' /\ GCExact'
    <3>1. mode[b] = "shared"
      OBVIOUS
    <3>2. \A g \in GCs : pc[g] \in {"start", "lock", "done"}
      BY <3>1, Shared
    <3>3. \A g \in GCs : pc'[g] = pc[g]
      OBVIOUS
    <3>4. \A g \in GCs : writeCache'[g] = writeCache[g]
      OBVIOUS
    <3>5. QED
      BY <3>2, <3>3, <3>4, NoneCollects
  <2>6. QED
    BY <2>1, <2>2, <2>3, <2>4, <2>5
<1>3. ASSUME NEW l \in Contents, SkipSplitFile(b, l)
     PROVE  IInv'
  <2> USE <1>3 DEF SkipSplitFile, AddEntry, Contains
  <2>1. LockInv'
    OBVIOUS
  <2>2. CacheInv' /\ ExportInv'
    BY DEF CacheInv, ExportInv, CacheSound
  <2>3. EntriesInv' /\ ListInv'
    <3>1. l \in files /\ Blocks[l] \subseteq files
      BY Shared DEF CacheInv, ListInv
    <3>2. NeedsAll(entries'[b]) = NeedsAll(entries[b]) \cup {l} \cup Blocks[l]
      BY NeedsAdd DEF Needs
    <3>3. EntriesInv'
      <4>1. EntriesInv /\ NeedsAll(entries[b]) \subseteq files
        BY DEF EntriesInv
      <4>2. files \subseteq files' /\ pc'[b] = "store"
        BY <3>1, <3>2
      <4>3. NeedsAll(entries'[b]) \subseteq files'
        BY ONLY <3>1, <3>2, <4>1, <4>2
      <4>4. \A x \in Backups \ {b} :
               /\ entries'[x] = entries[x] /\ pc'[x] = pc[x]
               /\ mode'[x] = mode[x] /\ list'[x] = list[x]
               /\ blocks'[x] = blocks[x]
        OBVIOUS
      <4>5. QED
        BY <4>1, <4>2, <4>3, <4>4, EntryAdded
    <3>4. QED
      BY <3>3 DEF ListInv
  <2>4. NoDanglingReference' /\ RestoreFindsAll'
    <3>1. RestoreFindsAll'
      BY DEF RestoreFindsAll
    <3>2. ASSUME NEW x \in indexFiles'
          PROVE  NeedsAll(entries'[x]) \subseteq files'
      BY <2>3, Restorable DEF EntriesInv
    <3>3. QED
      BY <3>1, <3>2, AllRestorable
  <2>5. MarkInv' /\ GCExact'
    <3>1. mode[b] = "shared"
      OBVIOUS
    <3>2. \A g \in GCs : pc[g] \in {"start", "lock", "done"}
      BY <3>1, Shared
    <3>3. \A g \in GCs : pc'[g] = pc[g]
      OBVIOUS
    <3>4. \A g \in GCs : writeCache'[g] = writeCache[g]
      OBVIOUS
    <3>5. QED
      BY <3>2, <3>3, <3>4, NoneCollects
  <2>6. QED
    BY <2>1, <2>2, <2>3, <2>4, <2>5
<1>4. ASSUME NEW h \in Blobs, StoreBlock(b, h)
     PROVE  IInv'
  <2> USE <1>4 DEF StoreBlock, Store, Contains
  <2>1. LockInv'
    OBVIOUS
  <2>2. CacheInv' /\ ExportInv'
    BY DEF CacheInv, ExportInv, CacheSound
  <2>3. EntriesInv' /\ ListInv'
    BY DEF EntriesInv, ListInv, CacheInv
  <2>4. NoDanglingReference' /\ RestoreFindsAll'
    BY DEF NoDanglingReference, RestoreFindsAll, Referenced
  <2>5. MarkInv' /\ GCExact'
    <3>1. mode[b] = "shared"
      OBVIOUS
    <3>2. \A g \in GCs : pc[g] \in {"start", "lock", "done"}
      BY <3>1, Shared
    <3>3. \A g \in GCs : pc'[g] = pc[g]
      OBVIOUS
    <3>4. \A g \in GCs : writeCache'[g] = writeCache[g]
      OBVIOUS
    <3>5. QED
      BY <3>2, <3>3, <3>4, NoneCollects
  <2>6. QED
    BY <2>1, <2>2, <2>3, <2>4, <2>5
<1>5. ASSUME StoreList(b)
     PROVE  IInv'
  <2> USE <1>5 DEF StoreList, AddEntry, Store, Contains
  <2>1. LockInv'
    OBVIOUS
  <2>2. CacheInv' /\ ExportInv'
    BY DEF CacheInv, ExportInv, CacheSound
  <2>3. EntriesInv' /\ ListInv'
    <3>1. list[b] \in Lists /\ Blocks[list[b]] \subseteq files
      BY DEF EntriesInv
    <3>2. /\ list[b] \in files' /\ files \subseteq files'
          /\ files' \subseteq files \cup {list[b]}
      BY DEF CacheInv
    <3>3. NeedsAll(entries'[b]) =
            NeedsAll(entries[b]) \cup {list[b]} \cup Blocks[list[b]]
      <4>1. entries'[b] = entries[b] \cup {list[b]}
        OBVIOUS
      <4>2. Needs(list[b]) = {list[b]} \cup Blocks[list[b]]
        BY <3>1 DEF Needs
      <4>3. QED
        BY ONLY <4>1, <4>2, NeedsAdd
    <3>4. EntriesInv'
      <4>1. EntriesInv /\ NeedsAll(entries[b]) \subseteq files
        BY DEF EntriesInv
      <4>2. files \subseteq files' /\ pc'[b] = "store"
        BY <3>1, <3>2, <3>3
      <4>3. NeedsAll(entries'[b]) \subseteq files'
        BY ONLY <3>1, <3>2, <3>3, <4>1, <4>2
      <4>4. \A x \in Backups \ {b} :
               /\ entries'[x] = entries[x] /\ pc'[x] = pc[x]
               /\ mode'[x] = mode[x] /\ list'[x] = list[x]
               /\ blocks'[x] = blocks[x]
        OBVIOUS
      <4>5. QED
        BY <4>1, <4>2, <4>3, <4>4, EntryAdded
    <3>5. ListInv'
      BY <3>1, <3>2, Shared DEF ListInv
    <3>6. QED
      BY <3>4, <3>5
  <2>4. NoDanglingReference' /\ RestoreFindsAll'
    <3>1. RestoreFindsAll'
      BY DEF RestoreFindsAll
    <3>2. ASSUME NEW x \in indexFiles'
          PROVE  NeedsAll(entries'[x]) \subseteq files'
      BY <2>3, Restorable DEF EntriesInv
    <3>3. QED
      BY <3>1, <3>2, AllRestorable
  <2>5. MarkInv' /\ GCExact'
    <3>1. mode[b] = "shared"
      OBVIOUS
    <3>2. \A g \in GCs : pc[g] \in {"start", "lock", "done"}
      BY <3>1, Shared
    <3>3. \A g \in GCs : pc'[g] = pc[g]
      OBVIOUS
    <3>4. \A g \in GCs : writeCache'[g] = writeCache[g]
      OBVIOUS
    <3>5. QED
      BY <3>2, <3>3, <3>4, NoneCollects
  <2>6. QED
    BY <2>1, <2>2, <2>3, <2>4, <2>5
<1> USE DEF CacheInv, EntriesInv, ListInv, MarkInv, ExportInv, CacheSound,
            NoDanglingReference, Referenced, RestoreFindsAll, GCExact
<1>6. ASSUME ImportCacheFile(b)
     PROVE  IInv'
  BY <1>6 DEF ImportCacheFile, LatestCache
<1>7. ASSUME NEW l \in Contents, OpenSplitFile(b, l)
     PROVE  IInv'
  BY <1>7 DEF OpenSplitFile, Contains
<1>8. ASSUME SkipUnreadable(b)
     PROVE  IInv'
  BY <1>8 DEF SkipUnreadable
<1>9. ASSUME FinishIndexFile(b)
     PROVE  IInv'
  BY <1>9 DEF FinishIndexFile
<1>10. ASSUME DeleteOldIndexFiles(b)
     PROVE  IInv'
  BY <1>10, SMTT(30) DEF DeleteOldIndexFiles
<1>11. QED
  BY <1>1, <1>2, <1>3, <1>4, <1>5, <1>6, <1>7, <1>8, <1>9, <1>10 DEF BackupStep

LEMMA GCStepKeeps ==
    ASSUME IInv, TypeOK', CarefulUse, NEW g \in GCs, GCStep(g)
    PROVE  IInv'
<1> USE KindsAssumption
        DEF Procs, Writers, Contents, store, Goto, TypeOK, RW!TypeOK,
            CarefulUse
<1> USE DEF IInv, LockInv, PlaceInv, RW!Exclusion, AtWork, Collecting
<1>1. ASSUME RemoveCacheFile(g)
     PROVE  IInv'
  <2> USE <1>1 DEF RemoveCacheFile
  <2>1. LockInv'
    OBVIOUS
  <2>2. CacheInv' /\ ExportInv'
    BY DEF CacheInv, ExportInv, CacheSound
  <2>3. EntriesInv' /\ ListInv'
    BY DEF EntriesInv, ListInv
  <2>4. NoDanglingReference' /\ RestoreFindsAll' /\ Referenced' = Referenced
    BY ReferencedStays DEF NoDanglingReference, RestoreFindsAll
  <2>5. MarkInv' /\ GCExact'
    BY <2>4, Exclusive DEF MarkInv, GCExact
  <2>6. QED
    BY <2>1, <2>2, <2>3, <2>4, <2>5
<1>2. ASSUME RemoveUnusedFile(g)
     PROVE  IInv'
  <2> USE <1>2 DEF RemoveUnusedFile, Garbage
  <2> Referenced' = Referenced
    BY ReferencedStays
  <2>0. /\ writeCache[g] = Referenced /\ Referenced \subseteq files
        /\ cacheFiles = {}
    BY DEF MarkInv, NoDanglingReference
  <2> USE <2>0
  <2>1. LockInv'
    OBVIOUS
  <2>2. CacheInv' /\ ExportInv'
    BY DEF CacheInv, ExportInv, CacheSound
  <2>3. EntriesInv'
    BY Exclusive DEF EntriesInv
  <2>4. NoDanglingReference' /\ RestoreFindsAll'
    BY Exclusive DEF NoDanglingReference, RestoreFindsAll
  <2>5. ListInv' /\ MarkInv' /\ GCExact'
    <3>1. CASE Garbage(g) = {} /\ files' = files
      <4>1. files \subseteq writeCache[g]
        BY <3>1
      <4>2. files = Referenced
        BY ONLY <2>0, <4>1
      <4>3. ListInv'
        BY <3>1, <4>2, ReferencedClosed DEF ListInv
      <4>4. QED
        BY <3>1, <4>2, <4>3, Exclusive DEF MarkInv, GCExact
    <3>2. CASE pc' = pc
      BY <3>2, Exclusive DEF ListInv, MarkInv, GCExact
    <3>3. QED
      BY <3>1, <3>2
  <2>6. QED
    BY <2>1, <2>2, <2>3, <2>4, <2>5
<1> USE DEF CacheInv, EntriesInv, ListInv, MarkInv, ExportInv, CacheSound,
            NoDanglingReference, Referenced, RestoreFindsAll, GCExact
<1>3. ASSUME LockGC(g)
     PROVE  IInv'
  BY <1>3 DEF LockGC, Lock, RW!AcquireExclusive
<1>4. ASSUME NEW b \in Backups, MarkIndexFile(g, b)
     PROVE  IInv'
  BY <1>4 DEF MarkIndexFile
<1>5. ASSUME BailOut(g)
     PROVE  IInv'
  BY <1>5 DEF BailOut
<1>6. ASSUME FinishMark(g)
     PROVE  IInv'
  BY <1>6 DEF FinishMark
<1>7. QED
  BY <1>1, <1>2, <1>3, <1>4, <1>5, <1>6 DEF GCStep

LEMMA NextIInv ==
    ASSUME IInv, CarefulUse, [Next]_vars
    PROVE  IInv'
<1> TypeOK'
  BY NextType
<1> USE KindsAssumption
        DEF Procs, Writers, Contents, store, Goto, TypeOK, RW!TypeOK,
            CarefulUse
<1> USE DEF IInv, LockInv, PlaceInv, RW!Exclusion, AtWork, Collecting
<1> USE DEF CacheInv, EntriesInv, ListInv, MarkInv, ExportInv, CacheSound,
            NoDanglingReference, Referenced, RestoreFindsAll, GCExact
<1>1. ASSUME NEW p \in Writers, Start(p)
     PROVE  IInv'
  BY <1>1, SMTT(30) DEF Start
<1>2. ASSUME NEW p \in Writers, CreateCacheFile(p)
     PROVE  IInv'
  BY <1>2 DEF CreateCacheFile
<1>3. ASSUME NEW p \in Writers, FillCacheFile(p)
     PROVE  IInv'
  BY <1>3 DEF FillCacheFile
<1>4. ASSUME NEW q \in Prunes, LockPrune(q)
     PROVE  IInv'
  BY <1>4 DEF LockPrune, Lock, RW!AcquireExclusive
<1>5. ASSUME NEW q \in Prunes, Prune(q)
     PROVE  IInv'
  BY <1>5, SMTT(30) DEF Prune
<1>6. ASSUME NEW r \in Restores, LockRestore(r)
     PROVE  IInv'
  BY <1>6, NeedsMonotone DEF LockRestore, Lock, RW!AcquireShared
<1>7. ASSUME NEW r \in Restores, RestoreFile(r)
     PROVE  IInv'
  BY <1>7, NeedsMonotone, SMTT(30) DEF RestoreFile
<1>8. ASSUME NEW p \in Procs, Unlock(p)
     PROVE  IInv'
  BY <1>8, ForgetKeeps DEF Unlock, RW!Release
<1>9. ASSUME NEW p \in Procs, Stop(p)
     PROVE  IInv'
  BY <1>9, ForgetKeeps DEF Stop
<1>10. CASE UNCHANGED vars
  BY <1>10 DEF vars
<1>11. QED
  BY <1>1, <1>2, <1>3, <1>4, <1>5, <1>6, <1>7, <1>8, <1>9, <1>10,
     BackupStepKeeps, GCStepKeeps DEF Next

LEMMA InitIInv == Init => IInv
BY KindsAssumption, NeedsEmpty
   DEF Init, RW!Init, IInv, TypeOK, RW!TypeOK, RW!Modes, Procs, Writers,
       LockInv, PlaceInv, RW!Exclusion, CacheInv, EntriesInv, ListInv, MarkInv,
       ExportInv, CacheSound, NoDanglingReference, Referenced,
       RestoreFindsAll, GCExact

LEMMA Inductive ==
    ASSUME CarefulUse
    PROVE  Spec => []IInv
BY InitIInv, NextIInv, PTL DEF Spec

-----------------------------------------------------------------------------
(* The theorems.  What they assume is used where an interrupted sweep or a *)
(* gc between an import and its lock would break the invariant.            *)

(* Every variable keeps its type. *)
THEOREM TypeCorrect ==
    ASSUME CarefulUse
    PROVE  Spec => []TypeOK
<1>1. IInv => TypeOK
  BY DEF IInv
<1>2. QED
  BY <1>1, Inductive, PTL

(* Under careful use, every backup in index/ has its blobs, and the blocks of
   its split files, in files/: whatever the processes do, and wherever else
   they are interrupted. *)
THEOREM BackupsAreRestorable ==
    ASSUME CarefulUse
    PROVE  Spec => []NoDanglingReference
<1>1. IInv => NoDanglingReference
  BY DEF IInv
<1>2. QED
  BY <1>1, Inductive, PTL

(* A cache file never names a blob that is not stored, whatever gc has
   deleted since it was written, also while gc is at work. *)
THEOREM CacheFilesAreSound ==
    ASSUME CarefulUse
    PROVE  Spec => []CacheSound
<1>1. IInv => CacheSound
  BY DEF IInv, ExportInv
<1>2. QED
  BY <1>1, Inductive, PTL

(* Everything a backup that holds the lock skips as already stored, and
   everything it has written to its index file, is in files/. *)
THEOREM BackupsAreSound ==
    ASSUME CarefulUse
    PROVE  Spec => []BackupSound
<1>1. IInv => BackupSound
  BY DEF IInv, CacheInv, EntriesInv, BackupSound
<1>2. QED
  BY <1>1, Inductive, PTL

(* A restore finds every blob its index file asks for, also when prune or
   the expiry of a backup removes that index file while it reads. *)
THEOREM RestoresFindAll ==
    ASSUME CarefulUse
    PROVE  Spec => []RestoreFindsAll
<1>1. IInv => RestoreFindsAll
  BY DEF IInv
<1>2. QED
  BY <1>1, Inductive, PTL

(* After its sweep gc has left the referenced blobs and nothing else. *)
THEOREM CollectionIsExact ==
    ASSUME CarefulUse
    PROVE  Spec => []GCExact
<1>1. IInv => GCExact
  BY DEF IInv
<1>2. QED
  BY <1>1, Inductive, PTL

=============================================================================
