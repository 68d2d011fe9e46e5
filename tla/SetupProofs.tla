---------------------------- MODULE SetupProofs ----------------------------
(***************************************************************************)
(* Proofs about migrations, for any processes, command lines, roots and    *)
(* sizes of index files, and any number of them that die: a repository of  *)
(* version 3 that was one of version 2 has all of its index files.         *)
(***************************************************************************)
EXTENDS Setup, TLAPS

(* The inductive invariant.                                                *)
Migrating ==
    {"next", "write", "finish", "lockExclusive", "truncate", "rewrite", "unlockExclusive"}
After == Migrating \cup {"ended", "dead"}
Writing == {"write", "finish"}
Steps ==
    {"off", "init", "mkdirs", "open", "check", "using", "lock", "ended", "dead"}
    \cup Creating \cup Migrating

TypeInv ==
    /\ tmp \in [Roots -> Procs \cup {None}] /\ shabackup \in [Roots -> Procs \cup {None}]
    /\ content \in [Roots -> [Procs -> SUBSET (1..Chunks)]]
    /\ mode \in [Procs -> RepoLock!Modes] /\ pc \in [Procs -> Steps]
    /\ rootFiles \in [Procs -> SUBSET Roots] /\ rootFile \in [Procs -> Roots \cup {None}]
    /\ fd \in [Procs -> Procs \cup {None}] /\ written \in [Procs -> 0..Chunks]
    /\ torn \subseteq Roots

(* Where each migration holds the lock.                                    *)
LockInv ==
    /\ \A p \in Procs : pc[p] \in SharedAt => mode[p] = "shared"
    /\ \A p \in Procs : pc[p] \in ExclusiveAt => mode[p] = "exclusive"
    /\ RepoLock!Exclusion

(* init does not write the properties of a repository that has some.       *)
OldInv ==
    old => props # None /\ \A p \in Procs : pc[p] \notin {"openProps", "writeProps"}

(* A process writes to a file that has a name, and leaves each root with   *)
(* an index file.                                                          *)
WriterInv ==
    \A p \in Procs :
        pc[p] \in Writing =>
            /\ rootFile[p] \in Roots /\ fd[p] \in Procs
            /\ fd[p] \in {tmp[rootFile[p]], shabackup[rootFile[p]]}
            /\ (pc[p] = "finish") = (written[p] = Chunks)
RootsInv ==
    \A p \in Procs :
        /\ pc[p] \in Migrating =>
               \A r \in Roots \ rootFiles[p] : shabackup[r] # None
        /\ pc[p] \in {"lockExclusive", "truncate", "rewrite"} => rootFiles[p] = {}

(* A file has one name, and who has made it does not come back to it.      *)
NameInv ==
    /\ \A r \in Roots : tmp[r] = None \/ shabackup[r] = None
    /\ \A r \in Roots : \A f \in Procs :
           f \in {tmp[r], shabackup[r]} =>
               /\ pc[f] \in After
               /\ pc[f] = "next" => r \notin rootFiles[f]
               /\ pc[f] \in Writing => r \notin rootFiles[f] \ {rootFile[f]}

(* Who has opened a file last has all that it has written in it; and if    *)
(* that is who has made it, nobody else writes to it.                      *)
At(p, r, f) == pc[p] \in Writing /\ rootFile[p] = r /\ fd[p] = f
Latest(p, r, f) ==
    /\ At(p, r, f) /\ 1..written[p] \subseteq content[r][f]
    /\ p = f => shabackup[r] # f /\ \A q \in Procs : At(q, r, f) => q = p
Whole(r, f) ==
    \/ r \in torn \/ content[r][f] = 1..Chunks
    \/ \E p \in Procs : Latest(p, r, f)
    \/ shabackup[r] # f /\ \A p \in Procs : ~At(p, r, f)
ContentInv == \A r \in Roots : \A f \in Procs : Whole(r, f)

IInv ==
    TypeInv /\ LockInv /\ OldInv /\ WriterInv /\ RootsInv /\ NameInv /\ ContentInv /\ MigratesAll

-----------------------------------------------------------------------------
LEMMA ChunksType == Chunks \in Nat /\ Chunks > 0
BY SetupAssumption

LEMMA WrittenProps == Empty # None /\ \A settings : Properties("3", settings) # None
<1>1. None.version = "none" /\ Empty.version = ""
  BY DEF None, Empty
<1>2. \A settings : Properties("3", settings).version = "3"
  BY DEF Properties
<1>3. QED
  BY <1>1, <1>2

(* At first.                                                               *)
LEMMA InitInv == Init => IInv
<1> SUFFICES ASSUME Init PROVE IInv
  OBVIOUS
<1> /\ old => props = V2Properties("None") \/ props = V2Properties("Blowfish")
    /\ tmp = [r \in Roots |-> None] /\ shabackup = [r \in Roots |-> None]
    /\ content = [r \in Roots |-> [p \in Procs |-> {}]]
    /\ mode = [p \in Procs |-> "none"] /\ rootFiles = [p \in Procs |-> {}]
    /\ rootFile = [p \in Procs |-> None] /\ fd = [p \in Procs |-> None]
    /\ written = [p \in Procs |-> 0] /\ pc = [p \in Procs |-> "off"] /\ torn = {}
  BY Zenon DEF Init
<1>1. TypeInv
  BY ChunksType DEF TypeInv, RepoLock!Modes, Steps
<1>2. LockInv
  BY DEF LockInv, RepoLock!Exclusion, SharedAt, ExclusiveAt
<1>3. OldInv
  BY DEF OldInv, None, V2Properties
<1>4. WriterInv /\ RootsInv
  BY DEF WriterInv, RootsInv, Writing, Migrating
<1>5. NameInv
  BY NamesAssumption DEF NameInv
<1>6. ContentInv
  BY NamesAssumption DEF ContentInv, Whole, At, Writing
<1>7. MigratesAll
  BY DEF MigratesAll, None, V2Properties
<1>8. QED
  BY <1>1, <1>2, <1>3, <1>4, <1>5, <1>6, <1>7 DEF IInv

-----------------------------------------------------------------------------
(* Steps that migrate nothing.                                             *)
files == <<tmp, shabackup, content, rootFile, fd, written, torn>>

(* Who writes where is all that the contents depend on.                    *)
LEMMA SameContent ==
    ASSUME ContentInv, UNCHANGED files,
           \A q \in Procs : (pc'[q] \in Writing) = (pc[q] \in Writing)
    PROVE  ContentInv'
BY DEF ContentInv, Whole, Latest, At, files

Moves(p) == pc' \in [Procs -> Steps] /\ \A q \in Procs \ {p} : pc'[q] = pc[q]

LEMMA OtherStep ==
    ASSUME IInv, NEW p \in Procs, UNCHANGED <<files, rootFiles, mode>>,
           pc[p] \notin After, Moves(p), pc'[p] \notin Migrating
    PROVE  TypeInv' /\ LockInv' /\ WriterInv' /\ RootsInv' /\ NameInv' /\ ContentInv'
<1> USE DEF IInv
<1>2. TypeInv'
  BY DEF Moves, TypeInv, files
<1>3. LockInv'
  BY DEF Moves, LockInv, RepoLock!Exclusion, SharedAt, ExclusiveAt, Migrating
<1>4. WriterInv' /\ RootsInv'
  BY DEF Moves, WriterInv, RootsInv, Writing, Migrating, files
<1>5. NameInv'
  BY DEF Moves, NameInv, After, files
<1>6. ContentInv'
  BY SameContent DEF Moves, After, Migrating, Writing
<1>7. QED
  BY <1>2, <1>3, <1>4, <1>5, <1>6

(* init, and what any operation does first.                                *)
Beginning(p) ==
    Start(p) \/ Create(p) \/ Open(p) \/ CheckPassword(p) \/ Use(p)

LEMMA BeginningMoves ==
    ASSUME TypeInv, NEW p \in Procs, Beginning(p)
    PROVE  /\ UNCHANGED <<files, rootFiles, mode, old>> /\ pc[p] \notin After
           /\ Moves(p) /\ pc'[p] \notin Migrating
<1> USE DEF TypeInv, Goes, Goto, Moves, disk, local, history, files, Steps, Creating, After, Migrating
<1>1. CASE Start(p)
  BY <1>1 DEF Start
<1>2. CASE CheckEmpty(p)
  BY <1>2 DEF CheckEmpty
<1>3. CASE MakeDir(p)
  BY <1>3 DEF MakeDir
<1>4. CASE MakeDirFails(p)
  BY <1>4 DEF MakeDirFails
<1>5. CASE AskProps(p)
  BY <1>5 DEF AskProps
<1>6. CASE OpenProps(p) \/ WriteProps(p)
  BY <1>6 DEF OpenProps, WriteProps
<1>7. CASE AskPasswd(p) \/ OpenPasswd(p) \/ WritePasswd(p)
  BY <1>7 DEF AskPasswd, OpenPasswd, WritePasswd
<1>8. CASE Open(p)
  BY <1>8 DEF Open
<1>9. CASE CheckPassword(p)
  BY <1>9 DEF CheckPassword
<1>10. CASE Use(p)
  BY <1>10 DEF Use
<1>11. QED
  BY <1>1, <1>2, <1>3, <1>4, <1>5, <1>6, <1>7, <1>8, <1>9, <1>10 DEF Beginning, Create

(* Of a repository that was of version 2 they leave the properties alone.  *)
LEMMA BeginningKeeps ==
    ASSUME IInv, NEW p \in Procs, Beginning(p)
    PROVE  OldInv' /\ (old => UNCHANGED props)
<1> USE DEF IInv, OldInv, TypeInv, Goes, Goto, disk, local, history
<1>1. CASE Start(p)
  BY <1>1 DEF Start
<1>2. CASE CheckEmpty(p)
  BY <1>2 DEF CheckEmpty
<1>3. CASE MakeDir(p)
  BY <1>3 DEF MakeDir
<1>4. CASE MakeDirFails(p)
  BY <1>4 DEF MakeDirFails
<1>5. CASE AskProps(p)
  BY <1>5 DEF AskProps
<1>6. CASE OpenProps(p) \/ WriteProps(p)
  BY <1>6 DEF OpenProps, WriteProps
<1>7. CASE AskPasswd(p) \/ OpenPasswd(p) \/ WritePasswd(p)
  BY <1>7 DEF AskPasswd, OpenPasswd, WritePasswd
<1>8. CASE Open(p)
  BY <1>8 DEF Open
<1>9. CASE CheckPassword(p)
  BY <1>9 DEF CheckPassword
<1>10. CASE Use(p)
  BY <1>10 DEF Use
<1>11. QED
  BY <1>1, <1>2, <1>3, <1>4, <1>5, <1>6, <1>7, <1>8, <1>9, <1>10 DEF Beginning, Create

LEMMA BeginningInv ==
    ASSUME IInv, NEW p \in Procs, Beginning(p)
    PROVE  IInv'
<1>1. OldInv' /\ (old => UNCHANGED props) /\ old' = old
  BY BeginningKeeps, BeginningMoves DEF IInv
<1>2. UNCHANGED files
  BY BeginningMoves DEF IInv
<1>3. MigratesAll'
  BY <1>1, <1>2 DEF IInv, MigratesAll, Opened, files
<1>4. TypeInv' /\ LockInv' /\ WriterInv' /\ RootsInv' /\ NameInv' /\ ContentInv'
  BY BeginningMoves, OtherStep DEF IInv
<1>5. QED
  BY <1>1, <1>3, <1>4 DEF IInv

-----------------------------------------------------------------------------
(* The steps of a migration, and how it ends.                              *)
LEMMA LockSharedInv ==
    ASSUME IInv, NEW p \in Procs, LockShared(p)
    PROVE  IInv'
<1> USE DEF IInv, LockShared, Goes, Goto
<1>1. UNCHANGED <<files, props, old>> /\ pc[p] = "lock" /\ pc'[p] \in {"next", "ended"}
  BY DEF TypeInv, files, history
<1>2. Moves(p)
  BY DEF Moves, TypeInv, Steps, Migrating
<1>3. \A q \in Procs \ {p} : mode'[q] = mode[q] /\ rootFiles'[q] = rootFiles[q]
  BY DEF TypeInv, RepoLock!AcquireShared
<1>4. pc'[p] = "next" => rootFiles'[p] = Roots /\ mode'[p] = "shared" /\ \A q \in Procs : mode[q] # "exclusive"
  BY DEF TypeInv, RepoLock!AcquireShared
<1>5. pc'[p] = "ended" => UNCHANGED <<mode, rootFiles>>
  BY DEF TypeInv
<1>6. TypeInv'
  <2>1. mode' \in [Procs -> RepoLock!Modes]
    BY DEF TypeInv, RepoLock!AcquireShared, RepoLock!Modes
  <2>2. rootFiles' \in [Procs -> SUBSET Roots]
    BY DEF TypeInv
  <2>3. QED
    BY <1>1, <1>2, <2>1, <2>2 DEF TypeInv, Moves, files
<1>7. LockInv'
  <2>1. \A q \in Procs : (pc'[q] \in SharedAt => mode'[q] = "shared")
                     /\ (pc'[q] \in ExclusiveAt => mode'[q] = "exclusive")
    BY <1>1, <1>2, <1>3, <1>4, <1>5 DEF Moves, LockInv, SharedAt, ExclusiveAt
  <2>2. RepoLock!Exclusion'
    BY <1>1, <1>3, <1>4, <1>5 DEF LockInv, RepoLock!Exclusion
  <2>3. QED
    BY <2>1, <2>2 DEF LockInv
<1>8. OldInv'
  BY <1>1, <1>2 DEF OldInv, Moves
<1>9. WriterInv' /\ RootsInv'
  BY <1>1, <1>2, <1>3, <1>4, <1>5 DEF WriterInv, RootsInv, Moves, Writing, Migrating, files
<1>10. NameInv'
  BY <1>1, <1>2, <1>3 DEF NameInv, Moves, After, Migrating, Writing, files
<1>11. ContentInv'
  BY <1>1, <1>2, SameContent DEF Moves, Writing
<1>12. MigratesAll'
  BY <1>1 DEF MigratesAll, Opened, files
<1>13. QED
  BY <1>6, <1>7, <1>8, <1>9, <1>10, <1>11, <1>12

LEMMA SkipRootInv ==
    ASSUME IInv, NEW p \in Procs, SkipRoot(p)
    PROVE  IInv'
<1> USE DEF IInv, SkipRoot, files, disk, history
<1>1. PICK r \in rootFiles[p] :
          shabackup[r] # None /\ rootFiles' = [rootFiles EXCEPT ![p] = @ \ {r}]
  OBVIOUS
<1>2. UNCHANGED <<files, props, old, pc, mode>> /\ pc[p] = "next" /\ r \in Roots
  BY <1>1 DEF TypeInv
<1>3. \A q \in Procs : rootFiles'[q] = IF q = p THEN rootFiles[q] \ {r} ELSE rootFiles[q]
  BY <1>1 DEF TypeInv
<1>4. TypeInv'
  BY <1>1, <1>2 DEF TypeInv
<1>5. LockInv' /\ OldInv' /\ WriterInv'
  BY <1>2 DEF LockInv, RepoLock!Exclusion, OldInv, WriterInv
<1>6. RootsInv'
  BY <1>1, <1>2, <1>3 DEF RootsInv
<1>7. NameInv'
  BY <1>2, <1>3 DEF NameInv
<1>8. ContentInv'
  BY <1>2, SameContent
<1>9. MigratesAll'
  BY <1>2 DEF MigratesAll, Opened
<1>10. QED
  BY <1>4, <1>5, <1>6, <1>7, <1>8, <1>9

(* Steps that take or give back the lock, or write the properties.         *)
LEMMA ForwardInv ==
    ASSUME IInv, NEW p \in Procs, UNCHANGED <<files, rootFiles, old>>,
           pc[p] \in Migrating \ Writing, pc[p] = "next" => rootFiles[p] = {}, Moves(p),
           pc'[p] \in {"lockExclusive", "truncate", "rewrite", "unlockExclusive", "ended"},
           pc[p] = "unlockExclusive" => pc'[p] = "ended"
    PROVE  WriterInv' /\ RootsInv' /\ NameInv' /\ ContentInv'
<1> USE DEF IInv, Moves, files, Writing, Migrating
<1>1. WriterInv'
  BY DEF WriterInv
<1>2. RootsInv'
  BY DEF RootsInv
<1>3. NameInv'
  BY DEF NameInv, After
<1>4. ContentInv'
  BY SameContent
<1>5. QED
  BY <1>1, <1>2, <1>3, <1>4

LEMMA ReleaseInv ==
    ASSUME TypeInv, LockInv, NEW p \in Procs, RepoLock!Release(p), Moves(p),
           pc'[p] \notin SharedAt \cup ExclusiveAt
    PROVE  LockInv' /\ mode' \in [Procs -> RepoLock!Modes]
BY DEF TypeInv, LockInv, RepoLock!Release, RepoLock!Exclusion, RepoLock!Modes, Moves

LEMMA UnlockInv ==
    ASSUME IInv, NEW p \in Procs, UnlockShared(p) \/ UnlockExclusive(p)
    PROVE  IInv'
<1> USE DEF IInv, UnlockShared, UnlockExclusive, Goes, Goto, history
<1>1. UNCHANGED <<files, rootFiles, props, old>> /\ RepoLock!Release(p)
  BY DEF files
<1>2. \/ pc[p] = "next" /\ rootFiles[p] = {} /\ pc'[p] = "lockExclusive"
      \/ pc[p] = "unlockExclusive" /\ pc'[p] = "ended"
  BY DEF TypeInv
<1>3. Moves(p)
  BY DEF Moves, TypeInv, Steps, Migrating
<1>4. LockInv' /\ mode' \in [Procs -> RepoLock!Modes]
  BY <1>1, <1>2, <1>3, ReleaseInv DEF SharedAt, ExclusiveAt
<1>5. TypeInv'
  BY <1>1, <1>3, <1>4 DEF TypeInv, Moves, files
<1>6. WriterInv' /\ RootsInv' /\ NameInv' /\ ContentInv'
  BY <1>1, <1>2, <1>3, ForwardInv DEF Migrating, Writing
<1>7. OldInv' /\ MigratesAll'
  BY <1>1, <1>2, <1>3 DEF OldInv, Moves, MigratesAll, Opened, files
<1>8. QED
  BY <1>4, <1>5, <1>6, <1>7

LEMMA LockExclusiveInv ==
    ASSUME IInv, NEW p \in Procs, LockExclusive(p)
    PROVE  IInv'
<1> USE DEF IInv, LockExclusive, Goes, Goto, history
<1>1. UNCHANGED <<files, rootFiles, props, old>> /\ pc[p] = "lockExclusive"
  BY DEF files
<1>2. \/ RepoLock!AcquireExclusive(p) /\ pc'[p] = "truncate"
      \/ mode' = mode /\ pc'[p] = "ended"
  BY DEF TypeInv
<1>3. Moves(p)
  BY DEF Moves, TypeInv, Steps, Migrating
<1>4. mode' \in [Procs -> RepoLock!Modes]
  BY DEF TypeInv, RepoLock!AcquireExclusive, RepoLock!Modes
<1>5. LockInv'
  BY <1>1, <1>2, <1>3
  DEF TypeInv, LockInv, Moves, RepoLock!AcquireExclusive, RepoLock!Exclusion, SharedAt, ExclusiveAt
<1>6. TypeInv'
  BY <1>1, <1>3, <1>4 DEF TypeInv, Moves, files
<1>7. WriterInv' /\ RootsInv' /\ NameInv' /\ ContentInv'
  BY <1>1, <1>2, <1>3, ForwardInv DEF Migrating, Writing
<1>8. OldInv' /\ MigratesAll'
  BY <1>1, <1>2, <1>3 DEF OldInv, Moves, MigratesAll, Opened, files
<1>9. QED
  BY <1>5, <1>6, <1>7, <1>8

(* Under the exclusive lock nobody writes an index file.                   *)
LEMMA AllWhole ==
    ASSUME IInv, NEW p \in Procs, pc[p] = "rewrite", NEW r \in Roots \ torn
    PROVE  shabackup[r] # None /\ content[r][shabackup[r]] = 1..Chunks
<1> USE DEF IInv
<1>1. shabackup[r] \in Procs
  BY DEF RootsInv, Migrating, TypeInv
<1>2. \A q \in Procs : pc[q] \notin Writing
  BY DEF LockInv, RepoLock!Exclusion, SharedAt, ExclusiveAt, Writing
<1>3. Whole(r, shabackup[r])
  BY <1>1 DEF ContentInv
<1>4. QED
  BY <1>1, <1>2, <1>3, NamesAssumption DEF Whole, Latest, At

LEMMA PropsInv ==
    ASSUME IInv, NEW p \in Procs, TruncateProps(p) \/ RewriteProps(p)
    PROVE  IInv'
<1> USE DEF IInv, TruncateProps, RewriteProps, Goes, Goto, history
<1>1. UNCHANGED <<files, rootFiles, mode, old>>
  BY DEF files
<1>2. \/ pc[p] = "truncate" /\ pc'[p] = "rewrite" /\ props' = Empty
      \/ pc[p] = "rewrite" /\ pc'[p] = "unlockExclusive" /\ props' = Properties("3", repository[p])
  BY DEF TypeInv
<1>3. Moves(p)
  BY DEF Moves, TypeInv, Steps, Migrating
<1>4. TypeInv'
  BY <1>1, <1>3 DEF TypeInv, Moves, files
<1>5. LockInv'
  BY <1>1, <1>2, <1>3 DEF LockInv, Moves, RepoLock!Exclusion, SharedAt, ExclusiveAt
<1>6. WriterInv' /\ RootsInv' /\ NameInv' /\ ContentInv'
  BY <1>1, <1>2, <1>3, ForwardInv DEF Migrating, Writing
<1>7. OldInv'
  BY <1>1, <1>2, <1>3, WrittenProps DEF OldInv, Moves
<1>8. MigratesAll'
  <2>1. CASE props' = Empty
    BY <2>1 DEF MigratesAll, Opened
  <2>2. CASE pc[p] = "rewrite"
    BY <1>1, <2>2, AllWhole DEF MigratesAll, files
  <2>3. QED
    BY <1>2, <2>1, <2>2
<1>9. QED
  BY <1>4, <1>5, <1>6, <1>7, <1>8

LEMMA CleanLocksInv ==
    ASSUME IInv, NEW p \in Procs, CleanLocks(p)
    PROVE  IInv'
<1> USE DEF IInv, CleanLocks, local, history
<1>1. UNCHANGED <<files, rootFiles, props, old, pc>> /\ pc[p] = "dead" /\ Moves(p)
  BY DEF files, Moves, TypeInv
<1>2. LockInv' /\ mode' \in [Procs -> RepoLock!Modes]
  BY <1>1, ReleaseInv DEF SharedAt, ExclusiveAt
<1>3. TypeInv'
  BY <1>1, <1>2 DEF TypeInv, files
<1>4. OldInv' /\ WriterInv' /\ RootsInv' /\ NameInv'
  BY <1>1 DEF OldInv, WriterInv, RootsInv, NameInv, files
<1>5. ContentInv'
  BY <1>1, SameContent
<1>6. MigratesAll'
  BY <1>1 DEF MigratesAll, Opened, files
<1>7. QED
  BY <1>2, <1>3, <1>4, <1>5, <1>6

-----------------------------------------------------------------------------
(* The writing of an index file.                                           *)
LEMMA WriteEntriesInv ==
    ASSUME IInv, NEW p \in Procs, WriteEntries(p)
    PROVE  IInv'
<1> USE DEF IInv, WriteEntries, Goto, history
<1> DEFINE s == rootFile[p]
           g == fd[p]
<1>1. /\ UNCHANGED <<tmp, shabackup, rootFile, rootFiles, fd, torn, props, old, mode>>
      /\ pc[p] = "write" /\ s \in Roots /\ g \in Procs
      /\ pc'[p] = IF written[p] + 1 = Chunks THEN "finish" ELSE "write"
  BY DEF TypeInv, WriterInv, Writing
<1>2. Moves(p)
  BY DEF Moves, TypeInv, Steps, Migrating
<1>3. written[p] + 1 \in 1..Chunks
  <2>1. written[p] \in 0..Chunks /\ written[p] # Chunks
    BY <1>1 DEF TypeInv, WriterInv, Writing
  <2>2. QED
    BY <2>1, ChunksType
<1>4. \A q \in Procs : written'[q] = IF q = p THEN written[p] + 1 ELSE written[q]
  BY DEF TypeInv
<1>5. \A r \in Roots, f \in Procs :
          content'[r][f] = IF r = s /\ f = g THEN content[r][f] \cup {written[p] + 1}
                           ELSE content[r][f]
  BY <1>1 DEF TypeInv
<1>6. TypeInv'
  <2>1. written' \in [Procs -> 0..Chunks]
    BY <1>3 DEF TypeInv
  <2>2. content' \in [Roots -> [Procs -> SUBSET (1..Chunks)]]
    BY <1>1, <1>3 DEF TypeInv
  <2>3. QED
    BY <1>1, <1>2, <2>1, <2>2 DEF TypeInv, Moves
<1>7. LockInv' /\ OldInv'
  BY <1>1, <1>2 DEF LockInv, RepoLock!Exclusion, OldInv, Moves, SharedAt, ExclusiveAt
<1>8. WriterInv'
  BY <1>1, <1>2, <1>3, <1>4 DEF WriterInv, Moves, Writing, TypeInv
<1>9. RootsInv'
  BY <1>1, <1>2 DEF RootsInv, Moves, Migrating
<1>10. NameInv'
  BY <1>1, <1>2 DEF NameInv, Moves, After, Migrating, Writing
<1>11. ContentInv'
  <2> SUFFICES ASSUME NEW r \in Roots, NEW f \in Procs PROVE Whole(r, f)'
    BY DEF ContentInv
  <2>1. \A q \in Procs : At(q, r, f)' = At(q, r, f)
    BY <1>1, <1>2 DEF At, Moves, Writing
  <2>2. content[r][f] \subseteq content'[r][f] /\ content'[r][f] \subseteq 1..Chunks
    BY <1>5, <1>6 DEF TypeInv
  <2>3. ASSUME NEW q \in Procs, Latest(q, r, f) PROVE Latest(q, r, f)'
    <3>1. 1..written'[q] \subseteq content'[r][f]
      <4>1. CASE q = p
        <5>1. content'[r][f] = content[r][f] \cup {written[p] + 1} /\ 1..written[p] \subseteq content[r][f]
          BY <1>5, <2>3, <4>1 DEF Latest, At
        <5>2. written'[q] = written[p] + 1 /\ written[p] \in Nat
          BY <1>4, <4>1, ChunksType DEF TypeInv
        <5>3. QED
          BY <5>1, <5>2
      <4>2. CASE q # p
        BY <1>4, <2>2, <2>3, <4>2 DEF Latest
      <4>3. QED
        BY <4>1, <4>2
    <3>2. QED
      BY <1>1, <2>1, <2>3, <3>1 DEF Latest
  <2>4. Whole(r, f)
    BY DEF ContentInv
  <2>5. QED
    BY <1>1, <2>1, <2>2, <2>3, <2>4 DEF Whole
<1>12. MigratesAll'
  <2> SUFFICES ASSUME old', Opened', props'.version = "3", NEW r \in (Roots \ torn)'
               PROVE  (shabackup[r] # None /\ content[r][shabackup[r]] = 1..Chunks)'
    BY DEF MigratesAll
  <2>1. r \in Roots /\ shabackup[r] \in Procs /\ content[r][shabackup[r]] = 1..Chunks
    BY <1>1 DEF MigratesAll, TypeInv, Opened
  <2>2. content'[r][shabackup[r]] = 1..Chunks
    <3>1. content'[r][shabackup[r]] \in {1..Chunks, 1..Chunks \cup {written[p] + 1}}
      BY <1>5, <2>1
    <3>2. QED
      BY <1>3, <3>1
  <2>3. QED
    BY <1>1, <2>1, <2>2, NamesAssumption
<1>13. QED
  BY <1>6, <1>7, <1>8, <1>9, <1>10, <1>11, <1>12

LEMMA FinishIndexFileInv ==
    ASSUME IInv, NEW p \in Procs, FinishIndexFile(p)
    PROVE  IInv'
<1> USE DEF IInv, FinishIndexFile, Goes, Goto, history
<1> DEFINE s == rootFile[p]
           g == fd[p]
<1>1. /\ UNCHANGED <<content, rootFile, fd, written, torn, props, old, mode>>
      /\ pc[p] = "finish" /\ pc'[p] = "next" /\ s \in Roots /\ g \in Procs
      /\ written[p] = Chunks
  BY DEF TypeInv, WriterInv, Writing
<1>2. Moves(p)
  BY DEF Moves, TypeInv, Steps, Migrating
<1>3. \A q \in Procs : rootFiles'[q] = IF q = p THEN rootFiles[p] \ {s} ELSE rootFiles[q]
  BY DEF TypeInv
<1>4. shabackup'[s] = g /\ tmp'[s] = None
  BY <1>1, NamesAssumption DEF TypeInv, WriterInv, NameInv, Writing
<1>5. \A r \in Roots \ {s} : shabackup'[r] = shabackup[r] /\ tmp'[r] = tmp[r]
  BY <1>1 DEF TypeInv
<1>6. shabackup[s] # None => shabackup[s] = g
  BY <1>1, NamesAssumption DEF WriterInv, NameInv, Writing
<1>7. TypeInv'
  <2>1. tmp' \in [Roots -> Procs \cup {None}] /\ shabackup' \in [Roots -> Procs \cup {None}]
    BY <1>1 DEF TypeInv
  <2>2. rootFiles' \in [Procs -> SUBSET Roots]
    BY DEF TypeInv
  <2>3. QED
    BY <1>1, <1>2, <2>1, <2>2 DEF TypeInv, Moves
<1>8. LockInv' /\ OldInv'
  BY <1>1, <1>2 DEF LockInv, RepoLock!Exclusion, OldInv, Moves, SharedAt, ExclusiveAt
<1>9. WriterInv'
  BY <1>1, <1>2, <1>4, <1>5, <1>6 DEF WriterInv, NameInv, Moves, Writing, TypeInv
<1>10. RootsInv'
  BY <1>1, <1>2, <1>3, <1>4, <1>5, NamesAssumption DEF RootsInv, Moves, Migrating
<1>11. NameInv'
  BY <1>1, <1>2, <1>3, <1>4, <1>5, NamesAssumption
  DEF NameInv, Moves, After, Migrating, Writing, WriterInv
<1>12. ContentInv'
  <2> SUFFICES ASSUME NEW r \in Roots, NEW f \in Procs PROVE Whole(r, f)'
    BY DEF ContentInv
  <2>1. \A q \in Procs : At(q, r, f)' = (q # p /\ At(q, r, f))
    BY <1>1, <1>2 DEF At, Moves, Writing
  <2>2. Whole(r, f)
    BY DEF ContentInv
  <2>3. CASE r = s /\ f = g
    <3>1. At(p, r, f)
      BY <1>1, <2>3 DEF At, Writing
    <3>2. CASE Latest(p, r, f)
      <4>1. content[r][f] = 1..Chunks
        <5>1. 1..Chunks \subseteq content[r][f]
          BY <1>1, <3>2 DEF Latest
        <5>2. content[r][f] \subseteq 1..Chunks
          BY DEF TypeInv
        <5>3. QED
          BY <5>1, <5>2
      <4>2. QED
        BY <1>1, <4>1 DEF Whole
    <3>3. ASSUME NEW q \in Procs \ {p}, Latest(q, r, f) PROVE Latest(q, r, f)'
      BY <1>1, <2>1, <3>1, <3>3 DEF Latest
    <3>4. QED
      BY <1>1, <2>2, <3>1, <3>2, <3>3 DEF Whole
  <2>4. CASE ~(r = s /\ f = g)
    <3>1. shabackup'[r] = f => shabackup[r] = f
      BY <1>4, <1>5, <2>4
    <3>2. ~At(p, r, f)
      BY <2>4 DEF At
    <3>3. ASSUME NEW q \in Procs, Latest(q, r, f) PROVE Latest(q, r, f)'
      BY <1>1, <2>1, <3>1, <3>2, <3>3 DEF Latest
    <3>4. QED
      BY <1>1, <2>1, <2>2, <3>1, <3>2, <3>3 DEF Whole
  <2>5. QED
    BY <2>3, <2>4
<1>13. MigratesAll'
  <2> SUFFICES ASSUME old, Opened, props.version = "3", NEW r \in Roots \ torn
               PROVE  shabackup'[r] # None /\ content[r][shabackup'[r]] = 1..Chunks
    BY <1>1 DEF MigratesAll, Opened
  <2>1. shabackup[r] # None /\ content[r][shabackup[r]] = 1..Chunks
    BY DEF MigratesAll
  <2>2. QED
    BY <1>4, <1>5, <1>6, <2>1
<1>14. QED
  BY <1>7, <1>8, <1>9, <1>10, <1>11, <1>12, <1>13

LEMMA OpenIndexFileInv ==
    ASSUME IInv, NEW p \in Procs, OpenIndexFile(p)
    PROVE  IInv'
<1> USE DEF IInv, OpenIndexFile, Goes, Goto, history
<1>1. PICK s \in rootFiles[p] :
          LET g == IF tmp[s] = None THEN p ELSE tmp[s]
          IN  /\ shabackup[s] = None
              /\ tmp' = [tmp EXCEPT ![s] = g] /\ content' = [content EXCEPT ![s][g] = {}]
              /\ fd' = [fd EXCEPT ![p] = g] /\ rootFile' = [rootFile EXCEPT ![p] = s]
  OBVIOUS
<1> DEFINE g == IF tmp[s] = None THEN p ELSE tmp[s]
<1>2. /\ UNCHANGED <<shabackup, rootFiles, torn, props, old, mode>>
      /\ pc[p] = "next" /\ pc'[p] = "write" /\ s \in Roots /\ g \in Procs
  BY DEF TypeInv
<1>3. Moves(p)
  BY DEF Moves, TypeInv, Steps, Migrating
<1>4. /\ \A q \in Procs : fd'[q] = IF q = p THEN g ELSE fd[q]
      /\ \A q \in Procs : rootFile'[q] = IF q = p THEN s ELSE rootFile[q]
      /\ \A q \in Procs : written'[q] = IF q = p THEN 0 ELSE written[q]
      /\ \A r \in Roots : tmp'[r] = IF r = s THEN g ELSE tmp[r]
  BY <1>1, <1>2 DEF TypeInv
<1>5. \A r \in Roots, f \in Procs :
          content'[r][f] = IF r = s /\ f = g THEN {} ELSE content[r][f]
  BY <1>1, <1>2 DEF TypeInv
<1>6. tmp[s] # p
  BY <1>2 DEF NameInv
<1>7. TypeInv'
  <2>1. written' \in [Procs -> 0..Chunks]
    BY ChunksType DEF TypeInv
  <2>2. content' \in [Roots -> [Procs -> SUBSET (1..Chunks)]]
    BY <1>1, <1>2 DEF TypeInv
  <2>3. tmp' \in [Roots -> Procs \cup {None}] /\ fd' \in [Procs -> Procs \cup {None}]
    BY <1>1, <1>2 DEF TypeInv
  <2>4. rootFile' \in [Procs -> Roots \cup {None}]
    BY <1>1, <1>2 DEF TypeInv
  <2>5. QED
    BY <1>2, <1>3, <2>1, <2>2, <2>3, <2>4 DEF TypeInv, Moves
<1>8. LockInv' /\ OldInv'
  BY <1>2, <1>3 DEF LockInv, RepoLock!Exclusion, OldInv, Moves, SharedAt, ExclusiveAt
<1>9. WriterInv'
  <2> SUFFICES ASSUME NEW q \in Procs, pc'[q] \in Writing
               PROVE  /\ rootFile'[q] \in Roots /\ fd'[q] \in Procs
                      /\ fd'[q] \in {tmp'[rootFile'[q]], shabackup'[rootFile'[q]]}
                      /\ (pc'[q] = "finish") = (written'[q] = Chunks)
    BY DEF WriterInv
  <2>1. CASE q = p
    BY <1>2, <1>4, <2>1, ChunksType
  <2>2. CASE q # p
    <3>1. pc[q] \in Writing /\ pc'[q] = pc[q]
      BY <1>3, <2>2 DEF Moves
    <3>2. rootFile[q] = s => fd[q] = tmp[s] /\ tmp[s] # None
      BY <1>1, <3>1, NamesAssumption DEF WriterInv
    <3>3. QED
      BY <1>2, <1>4, <2>2, <3>1, <3>2 DEF WriterInv
  <2>3. QED
    BY <2>1, <2>2
<1>10. RootsInv'
  BY <1>2, <1>3 DEF RootsInv, Moves, Migrating
<1>11. NameInv'
  <2>1. \A r \in Roots : tmp'[r] = None \/ shabackup'[r] = None
    BY <1>1, <1>2, <1>4 DEF NameInv
  <2>2. ASSUME NEW r \in Roots, NEW f \in Procs, f \in {tmp'[r], shabackup'[r]}
        PROVE  /\ pc'[f] \in After
               /\ pc'[f] = "next" => r \notin rootFiles'[f]
               /\ pc'[f] \in Writing => r \notin rootFiles'[f] \ {rootFile'[f]}
    <3>1. CASE r = s /\ f = p
      BY <1>2, <1>4, <3>1 DEF After, Migrating
    <3>2. CASE ~(r = s /\ f = p)
      <4>1. f \in {tmp[r], shabackup[r]}
        BY <1>2, <1>4, <2>2, <3>2
      <4>2. QED
        BY <1>2, <1>3, <1>4, <4>1 DEF NameInv, Moves, After, Migrating, Writing
    <3>3. QED
      BY <3>1, <3>2
  <2>3. QED
    BY <2>1, <2>2 DEF NameInv
<1>12. ContentInv'
  <2> SUFFICES ASSUME NEW r \in Roots, NEW f \in Procs PROVE Whole(r, f)'
    BY DEF ContentInv
  <2>1. Whole(r, f)
    BY DEF ContentInv
  <2>2. CASE r = s /\ f = g
    <3>1. At(p, r, f)'
      BY <1>2, <1>4, <2>2 DEF At, Writing
    <3>2. 1..written'[p] \subseteq content'[r][f]
      BY <1>4
    <3>3. ASSUME p = f PROVE shabackup'[r] # f /\ \A q \in Procs : At(q, r, f)' => q = p
      <4>1. tmp[s] = None
        BY <1>6, <2>2, <3>3
      <4>2. \A q \in Procs \ {p} : ~At(q, r, f)
        BY <1>1, <2>2, <4>1, NamesAssumption DEF At, WriterInv
      <4>3. QED
        BY <1>1, <1>2, <1>3, <1>4, <2>2, <4>2, NamesAssumption DEF At, Moves
    <3>4. QED
      BY <3>1, <3>2, <3>3 DEF Whole, Latest
  <2>3. CASE ~(r = s /\ f = g)
    <3>1. ~At(p, r, f) /\ ~At(p, r, f)'
      BY <1>2, <1>4, <2>3 DEF At, Writing
    <3>2. \A q \in Procs : At(q, r, f)' = At(q, r, f)
      BY <1>3, <1>4, <3>1 DEF At, Moves
    <3>3. content'[r][f] = content[r][f]
      BY <1>5, <2>3
    <3>4. ASSUME NEW q \in Procs, Latest(q, r, f) PROVE Latest(q, r, f)'
      BY <1>2, <1>4, <3>1, <3>2, <3>3, <3>4 DEF Latest
    <3>5. QED
      BY <1>2, <2>1, <3>2, <3>3, <3>4 DEF Whole
  <2>4. QED
    BY <2>2, <2>3
<1>13. MigratesAll'
  <2> SUFFICES ASSUME old', Opened', props'.version = "3", NEW r \in (Roots \ torn)'
               PROVE  (shabackup[r] # None /\ content[r][shabackup[r]] = 1..Chunks)'
    BY DEF MigratesAll
  <2>1. r \in Roots /\ shabackup[r] \in Procs /\ content[r][shabackup[r]] = 1..Chunks
    BY <1>2 DEF MigratesAll, TypeInv, Opened
  <2>2. r # s
    BY <1>1, <2>1, NamesAssumption
  <2>3. QED
    BY <1>2, <1>5, <2>1, <2>2, NamesAssumption
<1>14. QED
  BY <1>7, <1>8, <1>9, <1>10, <1>11, <1>12, <1>13

LEMMA DieInv ==
    ASSUME IInv, NEW p \in Procs, Die(p)
    PROVE  IInv'
<1> USE DEF IInv, Die, Goto
<1> DEFINE s == rootFile[p]
           g == fd[p]
<1>1. /\ UNCHANGED <<tmp, shabackup, content, rootFile, rootFiles, fd, written, props, old, mode>>
      /\ pc[p] \notin Dead /\ pc'[p] = "dead"
  BY DEF TypeInv, disk
<1>2. Moves(p)
  BY DEF Moves, TypeInv, Steps
<1>3. torn \subseteq torn'
  OBVIOUS
<1>4. ASSUME pc[p] \in Writing, g # p,
             shabackup[s] = g \/ \E q \in Procs \ {p} : At(q, s, g)
      PROVE  s \in torn'
  BY <1>4 DEF At, Writing
<1>5. TypeInv'
  <2>1. torn' \subseteq Roots
    BY DEF TypeInv, WriterInv, Writing
  <2>2. QED
    BY <1>1, <1>2, <2>1 DEF TypeInv, Moves
<1>6. LockInv' /\ OldInv'
  BY <1>1, <1>2 DEF LockInv, RepoLock!Exclusion, OldInv, Moves, SharedAt, ExclusiveAt
<1>7. WriterInv' /\ RootsInv'
  BY <1>1, <1>2 DEF WriterInv, RootsInv, Moves, Writing, Migrating
<1>8. NameInv'
  BY <1>1, <1>2 DEF NameInv, Moves, After, Migrating, Writing
<1>9. ContentInv'
  <2> SUFFICES ASSUME NEW r \in Roots, NEW f \in Procs, r \notin torn' PROVE Whole(r, f)'
    BY DEF ContentInv, Whole
  <2>1. Whole(r, f) /\ r \notin torn
    BY <1>3 DEF ContentInv
  <2>2. \A q \in Procs : At(q, r, f)' = (q # p /\ At(q, r, f))
    BY <1>1, <1>2 DEF At, Moves, Writing
  <2>3. ASSUME NEW q \in Procs \ {p}, Latest(q, r, f) PROVE Latest(q, r, f)'
    BY <1>1, <2>2, <2>3 DEF Latest
  <2>4. ASSUME Latest(p, r, f) PROVE shabackup[r] # f /\ \A q \in Procs \ {p} : ~At(q, r, f)
    <3>1. pc[p] \in Writing /\ r = s /\ f = g
      BY <2>4 DEF Latest, At
    <3>2. CASE p = f
      BY <2>4, <3>2 DEF Latest
    <3>3. CASE p # f
      BY <1>4, <3>1, <3>3
    <3>4. QED
      BY <3>2, <3>3
  <2>5. QED
    BY <1>1, <2>1, <2>2, <2>3, <2>4 DEF Whole
<1>10. MigratesAll'
  BY <1>1, <1>3 DEF MigratesAll, Opened
<1>11. QED
  BY <1>5, <1>6, <1>7, <1>8, <1>9, <1>10

-----------------------------------------------------------------------------
LEMMA StutterInv == IInv /\ UNCHANGED vars => IInv'
<1> SUFFICES ASSUME IInv, UNCHANGED vars PROVE IInv'
  OBVIOUS
<1> USE DEF IInv, vars, disk, local, history
<1>1. TypeInv' /\ LockInv' /\ OldInv'
  BY DEF TypeInv, LockInv, RepoLock!Exclusion, OldInv
<1>2. WriterInv' /\ RootsInv' /\ NameInv'
  BY DEF WriterInv, RootsInv, NameInv
<1>3. ContentInv'
  BY SameContent DEF files
<1>4. MigratesAll'
  BY DEF MigratesAll, Opened
<1>5. QED
  BY <1>1, <1>2, <1>3, <1>4

LEMMA StepInv == IInv /\ [Next]_vars => IInv'
<1> SUFFICES ASSUME IInv, [Next]_vars PROVE IInv'
  OBVIOUS
<1>1. CASE UNCHANGED vars
  BY <1>1, StutterInv
<1>2. ASSUME NEW p \in Procs, Beginning(p) PROVE IInv'
  BY <1>2, BeginningInv
<1>3. ASSUME NEW p \in Procs, Migrate(p) PROVE IInv'
  BY <1>3, LockSharedInv, SkipRootInv, OpenIndexFileInv, WriteEntriesInv, FinishIndexFileInv,
     UnlockInv, LockExclusiveInv, PropsInv DEF Migrate
<1>4. ASSUME NEW p \in Procs, Die(p) \/ CleanLocks(p) PROVE IInv'
  BY <1>4, DieInv, CleanLocksInv
<1>5. QED
  BY <1>1, <1>2, <1>3, <1>4 DEF Next, Beginning

LEMMA Invariance == Spec => []IInv
BY InitInv, StepInv, PTL DEF Spec

(* Whichever migrations run together or one after the other, and wherever  *)
(* they die: a repository of version 3 that was one of version 2 has an    *)
(* index file for each root file, and all of it, except for the roots at   *)
(* which one has died in the file of another at work                       *)
(* (Migration.cpp:54-141, ShabackOutputStream.cpp:103-154).                *)
THEOREM MigrationsAreComplete == Spec => []MigratesAll
<1>1. IInv => MigratesAll
  BY DEF IInv
<1>2. QED
  BY <1>1, Invariance, PTL

(* A migration writes index files under the shared lock and the properties *)
(* under the exclusive one, alone, although it gives up the one before it  *)
(* takes the other (Migration.cpp:56-141).                                 *)
THEOREM MigrationsAreLocked == Spec => []LockInv
<1>1. IInv => LockInv
  BY DEF IInv
<1>2. QED
  BY <1>1, Invariance, PTL
=============================================================================
