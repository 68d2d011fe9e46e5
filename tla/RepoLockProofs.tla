--------------------------- MODULE RepoLockProofs ---------------------------
(***************************************************************************)
(* Proofs about RepoLock for any finite set of processes and any programs: *)
(* type correctness, mutual exclusion and the implementation of RWLock.    *)
(***************************************************************************)
EXTENDS RepoLock, FiniteSetTheorems, TLAPS

(* What the users of the repository must see to.  The code does not: lock  *)
(* files of two hosts may have the same name, -L does not see an exclusive *)
(* lock, and a signal may arrive after the release of one.                 *)
SafeUse ==
    /\ \A p, q \in Procs : LockFile[p] = LockFile[q] => p = q
    /\ \A p \in Procs \ SymlinkLock : \A i \in DOMAIN Program[p] :
          Program[p][i] # "shared"
    /\ "released" \notin SignalPoints

-----------------------------------------------------------------------------
(* Type correctness.                                                       *)

LEMMA NextType ==
    ASSUME TypeOK, [Next]_vars
    PROVE  TypeOK'
<1> USE DEF TypeOK, LockNames, Places, Dead, dirVars, Goto
<1>1. ASSUME NEW p \in Procs, LockAgain(p)
      PROVE  TypeOK'
  BY <1>1 DEF LockAgain, ThrowFromLock, Throw
<1>2. ASSUME NEW p \in Procs, CreateLockFile(p)
      PROVE  TypeOK'
  BY <1>2 DEF CreateLockFile, ThrowFromLock, Throw
<1>3. ASSUME NEW p \in Procs, MakeSymlink(p)
      PROVE  TypeOK'
  BY <1>3 DEF MakeSymlink, ThrowFromLock, Throw
<1>4. ASSUME NEW p \in Procs, MarkExclusive(p)
      PROVE  TypeOK'
  BY <1>4 DEF MarkExclusive
<1>5. ASSUME NEW p \in Procs, CountLocks(p)
      PROVE  TypeOK'
  BY <1>5 DEF CountLocks, ThrowFromLock, Throw, Acquire
<1>6. ASSUME NEW p \in Procs, DropSymlink(p)
      PROVE  TypeOK'
  BY <1>6 DEF DropSymlink, Acquire
<1>7. ASSUME NEW p \in Procs, CheckExclusiveLock(p)
      PROVE  TypeOK'
  BY <1>7 DEF CheckExclusiveLock, ThrowFromLock, Throw, Acquire
<1>8. ASSUME NEW p \in Procs, Unlock(p)
      PROVE  TypeOK'
  BY <1>8 DEF Unlock, RemoveLockFile
<1>9. ASSUME NEW p \in Procs, FinishUnlock(p)
      PROVE  TypeOK'
  BY <1>9 DEF FinishUnlock, RemoveExclusiveLock
<1>10. ASSUME NEW p \in Procs, UnwindUnlock(p)
       PROVE  TypeOK'
  BY <1>10 DEF UnwindUnlock, RemoveLockFile
<1>11. ASSUME NEW p \in Procs, HandlerUnlock(p)
       PROVE  TypeOK'
  BY <1>11 DEF HandlerUnlock, RemoveLockFile
<1>12. ASSUME NEW p \in Procs, Exit(p)
       PROVE  TypeOK'
  BY <1>12 DEF Exit, RemoveExclusiveLock
<1>13. ASSUME NEW p \in Procs,
              Return(p) \/ WorkFails(p) \/ Interrupt(p) \/ Crash(p)
       PROVE  TypeOK'
  BY <1>13 DEF Return, WorkFails, Interrupt, Crash, Throw
<1>14. CASE ClearLocks
  BY <1>14 DEF ClearLocks
<1>15. CASE UNCHANGED vars
  BY <1>15 DEF vars
<1>16. QED
  BY <1>1, <1>2, <1>3, <1>4, <1>5, <1>6, <1>7, <1>8, <1>9, <1>10, <1>11,
     <1>12, <1>13, <1>14, <1>15 DEF Next, Proceed

(* Every state has well-typed lock files, counters and control points: in  *)
(* particular lockCount never becomes negative, whatever the order of the  *)
(* unlock() of main(), of a destructor and of the handler.                 *)
THEOREM TypeCorrect == Spec => []TypeOK
<1>1. Init => TypeOK
  BY DEF Init, TypeOK, Places
<1>2. TypeOK /\ [Next]_vars => TypeOK'
  BY NextType
<1>3. QED
  BY <1>1, <1>2, PTL DEF Spec
-----------------------------------------------------------------------------
(* Mutual exclusion.                                                       *)

(* A process that has had an exclusive lock does not ask for another lock. *)
LEMMA NoLockAfterExclusive ==
    ASSUME TypeOK, NEW p \in Procs, LocalInv(p), pc[p] = "ready",
           Requests(p, "shared") \/ Requests(p, "exclusive")
    PROVE  ~haveExclusiveLock[p]
<1> SUFFICES ASSUME haveExclusiveLock[p] PROVE FALSE
  OBVIOUS
<1>1. step[p] \in DOMAIN Program[p] /\ Program[p][step[p]] # "unlock"
  BY DEF Requests
<1>2. PICK i \in DOMAIN Program[p] :
         step[p] = i + 1 /\ Program[p][i] = "exclusive"
  BY <1>1 DEF LocalInv, AfterExclusive
<1>3. i \in Nat
  BY ProgramAssumption
<1>4. QED
  BY <1>1, <1>2, <1>3, ExclusiveIsLast

(* Two lock files are more than one.                                       *)
LEMMA TwoLockFiles ==
    ASSUME TypeOK, NEW a \in lockFiles, NEW b \in lockFiles, a # b
    PROVE  OtherLocksExist
<1>1. IsFiniteSet(LockNames)
  <2> DEFINE f == [p \in Procs |-> LockFile[p]]
  <2>1. f \in Surjection(Procs, LockNames)
    BY DEF Surjection, LockNames
  <2>2. QED
    BY <2>1, ProcsAssumption, FS_Surjection
<1>2. IsFiniteSet(lockFiles)
  BY <1>1, FS_Subset DEF TypeOK
<1>3. IsFiniteSet({a}) /\ Cardinality({a}) = 1
  BY FS_Singleton
<1>4. Cardinality({a} \cup {b}) = 2
  <2>1. Cardinality({a} \cup {b}) =
           IF b \in {a} THEN Cardinality({a}) ELSE Cardinality({a}) + 1
    BY <1>3, FS_AddElement
  <2>2. b \notin {a}
    OBVIOUS
  <2>3. QED
    BY <1>3, <2>1, <2>2
<1>5. Cardinality({a} \cup {b}) <= Cardinality(lockFiles)
  BY <1>2, FS_Subset
<1>6. Cardinality(lockFiles) \in Nat
  BY <1>2, FS_CardinalityType
<1>7. QED
  BY <1>4, <1>5, <1>6 DEF OtherLocksExist

(* The step of one process keeps what the others rely on, if it leaves     *)
(* their file and their link alone.                                        *)
LEMMA OthersKept ==
    ASSUME NEW q \in Procs, LocalInv(q), DirInv(q),
           pc'[q] = pc[q], step'[q] = step[q], lockCount'[q] = lockCount[q],
           haveExclusiveLock'[q] = haveExclusiveLock[q],
           LockFile[q] \in lockFiles => LockFile[q] \in lockFiles',
           exclusiveLock = LockFile[q] => exclusiveLock' = LockFile[q]
    PROVE  LocalInv(q)' /\ DirInv(q)'
BY DEF LocalInv, DirInv, NeedsFile, NeedsLink, Holds, Requests,
       ReleasedExclusive, AfterExclusive, Dead

(* What a process does in lock() and unlock() keeps its own invariant, and *)
(* leaves the files of the others alone.                                   *)
OthersUntouched(p) ==
    \A q \in Procs \ {p} :
        /\ pc'[q] = pc[q] /\ step'[q] = step[q]
        /\ lockCount'[q] = lockCount[q]
        /\ haveExclusiveLock'[q] = haveExclusiveLock[q]
        /\ LockFile[q] \in lockFiles => LockFile[q] \in lockFiles'
        /\ exclusiveLock = LockFile[q] => exclusiveLock' = LockFile[q]

LEMMA ProcessStep ==
    ASSUME SafeUse, TypeOK, LockInv, NEW p \in Procs,
           Proceed(p) \/ WorkFails(p) \/ Interrupt(p) \/ Crash(p)
    PROVE  LocalInv(p)' /\ DirInv(p)' /\ OthersUntouched(p)
<1> USE LockFileAssumption DEF TypeOK, Goto, Throw, ThrowFromLock, dirVars
<1> DEFINE Goal == LocalInv(p)' /\ DirInv(p)' /\ OthersUntouched(p)
<1>1. LocalInv(p) /\ DirInv(p)
  BY DEF LockInv
<1> USE DEF LocalInv, DirInv, NeedsFile, NeedsLink, Holds, Requests,
        ReleasedExclusive, Dead, Places
<1>2. CASE LockAgain(p)
  <2>1. ~haveExclusiveLock[p]
    BY <1>1, <1>2, NoLockAfterExclusive DEF LockAgain
  <2>2. QED
    BY <1>1, <1>2, <2>1 DEF LockAgain, UpgradeRefused, OthersUntouched
<1>3. CASE CreateLockFile(p)
  <2>1. ~haveExclusiveLock[p]
    BY <1>1, <1>3, NoLockAfterExclusive DEF CreateLockFile
  <2>2. QED
    BY <1>1, <1>3, <2>1 DEF CreateLockFile, OthersUntouched
<1>4. CASE MakeSymlink(p)
  BY <1>1, <1>4 DEF MakeSymlink, OthersUntouched
<1>5. CASE MarkExclusive(p)
  BY <1>1, <1>5 DEF MarkExclusive, OthersUntouched
<1>6. CASE CountLocks(p)
  <2>1. CASE OtherLocksExist
    BY <1>1, <1>6, <2>1 DEF CountLocks, OthersUntouched
  <2>2. CASE ~OtherLocksExist
    <3>1. AfterExclusive(p)'
      BY <1>1, <1>6, <2>2 DEF CountLocks, Acquire, AfterExclusive
    <3>2. QED
      BY <1>1, <1>6, <2>2, <3>1 DEF CountLocks, Acquire, OthersUntouched
  <2>3. QED
    BY <2>1, <2>2
<1>7. CASE DropSymlink(p)
  BY <1>1, <1>7 DEF DropSymlink, Acquire, OthersUntouched, SafeUse
<1>8. CASE CheckExclusiveLock(p)
  BY <1>1, <1>8 DEF CheckExclusiveLock, Acquire, OthersUntouched
<1>9. CASE Unlock(p)
  <2>1. haveExclusiveLock[p] => AfterExclusive(p) /\ lockCount[p] = 1
    BY <1>1, <1>9 DEF Unlock
  <2>2. CASE lockCount[p] > 1
    BY <1>1, <1>9, <2>1, <2>2 DEF Unlock, OthersUntouched
  <2>3. CASE ~(lockCount[p] > 1)
    <3>1. AfterExclusive(p) => AfterExclusive(p)'
      BY <1>9, <2>3 DEF Unlock, AfterExclusive
    <3>2. QED
      BY <1>1, <1>9, <2>1, <2>3, <3>1
         DEF Unlock, RemoveLockFile, OthersUntouched, SafeUse
  <2>4. QED
    BY <2>2, <2>3
<1>10. CASE FinishUnlock(p)
  <2>1. haveExclusiveLock[p] => AfterExclusive(p)
    BY <1>1, <1>10 DEF FinishUnlock
  <2>2. AfterExclusive(p) => step[p] + 1 \notin DOMAIN Program[p]
    BY ExclusiveIsLast, ProgramAssumption DEF AfterExclusive
  <2>3. haveExclusiveLock[p] => step'[p] \notin DOMAIN Program[p]
    BY <1>10, <2>1, <2>2 DEF FinishUnlock
  <2>4. OthersUntouched(p)
    BY <1>1, <1>10
       DEF FinishUnlock, RemoveExclusiveLock, OthersUntouched, SafeUse
  <2>5. QED
    BY <1>1, <1>10, <2>3, <2>4 DEF FinishUnlock
<1>11. CASE UnwindUnlock(p)
  BY <1>1, <1>11 DEF UnwindUnlock, RemoveLockFile, OthersUntouched, SafeUse
<1>12. CASE HandlerUnlock(p)
  BY <1>1, <1>12 DEF HandlerUnlock, RemoveLockFile, OthersUntouched, SafeUse
<1>13. CASE Exit(p)
  BY <1>1, <1>13 DEF Exit, RemoveExclusiveLock, OthersUntouched, SafeUse
<1>14. CASE Return(p) \/ WorkFails(p) \/ Crash(p)
  BY <1>1, <1>14 DEF Return, WorkFails, Crash, OthersUntouched
<1>15. CASE Interrupt(p)
  BY <1>1, <1>15 DEF Interrupt, SignalPoint, OthersUntouched, SafeUse
<1>16. QED
  BY <1>2, <1>3, <1>4, <1>5, <1>6, <1>7, <1>8, <1>9, <1>10, <1>11, <1>12,
     <1>13, <1>14, <1>15 DEF Proceed

LEMMA NextLockInv ==
    ASSUME SafeUse, TypeOK, LockInv, [Next]_vars
    PROVE  LockInv'
<1>1. ASSUME NEW p \in Procs,
             Proceed(p) \/ WorkFails(p) \/ Interrupt(p) \/ Crash(p)
      PROVE  LockInv'
  <2>1. LocalInv(p)' /\ DirInv(p)' /\ OthersUntouched(p)
    BY <1>1, ProcessStep
  <2>2. ASSUME NEW q \in Procs \ {p} PROVE LocalInv(q)' /\ DirInv(q)'
    BY <2>1, OthersKept DEF LockInv, OthersUntouched
  <2>3. QED
    BY <2>1, <2>2 DEF LockInv
<1>2. CASE ClearLocks
  <2>1. \A p \in Procs : ~NeedsFile(p) /\ ~NeedsLink(p)
    BY <1>2 DEF ClearLocks, Alone, NeedsFile, NeedsLink, Holds, Dead
  <2>2. QED
    BY <1>2, <2>1 DEF ClearLocks, LockInv, LocalInv, DirInv, NeedsFile,
       NeedsLink, Holds, Requests, ReleasedExclusive, AfterExclusive, Dead
<1>3. CASE UNCHANGED vars
  BY <1>3, OthersKept DEF LockInv, vars
<1>4. QED
  BY <1>1, <1>2, <1>3 DEF Next

(* A step gives a process the lock only by one of the returns of lock(),   *)
(* where the others hold nothing that excludes it.                         *)
LEMMA AcquiringStep ==
    ASSUME SafeUse, TypeOK, LockInv, [Next]_vars,
           NEW p \in Procs, ~Holds(p), Holds(p)'
    PROVE  /\ \A q \in Procs \ {p} : ~HoldsExclusive(q)
           /\ HoldsExclusive(p)' => \A q \in Procs \ {p} : ~Holds(q)
<1> USE DEF TypeOK, Goto, Throw, ThrowFromLock, dirVars, Holds, Dead, Places
<1>1. DropSymlink(p) \/ CountLocks(p) \/ CheckExclusiveLock(p)
  <2>1. ASSUME NEW q \in Procs \ {p},
               Proceed(q) \/ WorkFails(q) \/ Interrupt(q) \/ Crash(q)
        PROVE  FALSE
    BY <2>1, ProcessStep DEF OthersUntouched
  <2>2. ~(WorkFails(p) \/ Interrupt(p) \/ Crash(p) \/ ClearLocks
            \/ UNCHANGED vars)
    BY DEF WorkFails, Interrupt, Crash, ClearLocks, vars
  <2>3. ~(CreateLockFile(p) \/ MakeSymlink(p) \/ MarkExclusive(p)
            \/ FinishUnlock(p) \/ Exit(p) \/ Return(p))
    BY DEF CreateLockFile, MakeSymlink, MarkExclusive, FinishUnlock, Exit,
           Return
  <2>4. ~(LockAgain(p) \/ Unlock(p) \/ UnwindUnlock(p) \/ HandlerUnlock(p))
    BY DEF LockAgain, Unlock, UnwindUnlock, HandlerUnlock, RemoveLockFile
  <2>5. QED
    BY <2>1, <2>2, <2>3, <2>4 DEF Next, Proceed
<1>2. CASE DropSymlink(p)
  <2>1. exclusiveLock = LockFile[p] /\ ~HoldsExclusive(p)'
    BY <1>2 DEF DropSymlink, LockInv, LocalInv, DirInv, NeedsLink,
                HoldsExclusive
  <2>2. ASSUME NEW q \in Procs \ {p}, HoldsExclusive(q) PROVE FALSE
    BY <2>1, <2>2 DEF SafeUse, LockInv, DirInv, NeedsLink, HoldsExclusive,
                      ReleasedExclusive
  <2>3. QED
    BY <2>1, <2>2
<1>3. CASE CountLocks(p)
  <2>1. ~OtherLocksExist /\ LockFile[p] \in lockFiles
    BY <1>3 DEF CountLocks, LockInv, DirInv, NeedsFile
  <2>2. ASSUME NEW q \in Procs \ {p}, Holds(q) PROVE FALSE
    <3>1. LockFile[q] \in lockFiles /\ LockFile[q] # LockFile[p]
      BY <2>2 DEF SafeUse, LockInv, DirInv, NeedsFile
    <3>2. QED
      BY <2>1, <3>1, TwoLockFiles
  <2>3. QED
    BY <2>2 DEF HoldsExclusive
<1>4. ~CheckExclusiveLock(p)
  <2>1. pc[p] = "check" => Requests(p, "exclusive")
    BY DEF SafeUse, LockInv, LocalInv, Requests
  <2>2. QED
    BY <2>1 DEF CheckExclusiveLock
<1>5. QED
  BY <1>1, <1>2, <1>3, <1>4

(* One process moves at a time, and a holder stays in the mode it has.     *)
LEMMA OneProcessMoves ==
    ASSUME SafeUse, TypeOK, LockInv, [Next]_vars,
           NEW p \in Procs, NEW q \in Procs, p # q
    PROVE  Holds(p)' = Holds(p) \/ Holds(q)' = Holds(q)
<1>1. ASSUME NEW r \in Procs,
             Proceed(r) \/ WorkFails(r) \/ Interrupt(r) \/ Crash(r)
      PROVE  Holds(p)' = Holds(p) \/ Holds(q)' = Holds(q)
  BY <1>1, ProcessStep DEF OthersUntouched, Holds
<1>2. CASE ClearLocks \/ UNCHANGED vars
  BY <1>2 DEF ClearLocks, vars, Holds
<1>3. QED
  BY <1>1, <1>2 DEF Next

LEMMA HoldersKeepMode ==
    ASSUME SafeUse, TypeOK, LockInv, [Next]_vars,
           NEW p \in Procs, Holds(p), Holds(p)'
    PROVE  HoldsExclusive(p)' = HoldsExclusive(p)
<1>1. haveExclusiveLock'[p] = haveExclusiveLock[p]
  <2>1. ~MarkExclusive(p)
    BY DEF MarkExclusive, LockInv, LocalInv, Holds
  <2>2. ASSUME NEW r \in Procs \ {p},
               Proceed(r) \/ WorkFails(r) \/ Interrupt(r) \/ Crash(r)
        PROVE  haveExclusiveLock'[p] = haveExclusiveLock[p]
    BY <2>2, ProcessStep DEF OthersUntouched
  <2>3. CASE Proceed(p)
    BY <2>1, <2>3 DEF Proceed, LockAgain, CreateLockFile, MakeSymlink,
       CountLocks, DropSymlink, CheckExclusiveLock, Unlock, FinishUnlock,
       UnwindUnlock, HandlerUnlock, Exit, Return
  <2>4. CASE \/ WorkFails(p) \/ Interrupt(p) \/ Crash(p)
             \/ ClearLocks \/ UNCHANGED vars
    BY <2>4 DEF WorkFails, Interrupt, Crash, ClearLocks, vars
  <2>5. QED
    BY <2>2, <2>3, <2>4 DEF Next
<1>2. QED
  BY <1>1 DEF HoldsExclusive

LEMMA NextMutualExclusion ==
    ASSUME SafeUse, TypeOK, LockInv, MutualExclusion, [Next]_vars
    PROVE  MutualExclusion'
<1> SUFFICES ASSUME NEW p \in Procs, NEW q \in Procs, p # q,
                    HoldsExclusive(p)', Holds(q)'
             PROVE  FALSE
  BY DEF MutualExclusion
<1>1. Holds(p)'
  BY DEF HoldsExclusive
<1>2. CASE Holds(p) /\ Holds(q)
  BY <1>1, <1>2, HoldersKeepMode DEF MutualExclusion
<1>3. CASE ~Holds(p) /\ Holds(q)
  BY <1>1, <1>3, AcquiringStep
<1>4. CASE Holds(p) /\ ~Holds(q)
  BY <1>1, <1>4, AcquiringStep, HoldersKeepMode
<1>5. CASE ~Holds(p) /\ ~Holds(q)
  BY <1>1, <1>5, OneProcessMoves
<1>6. QED
  BY <1>2, <1>3, <1>4, <1>5

LEMMA Invariant ==
    ASSUME SafeUse
    PROVE  Spec => []IInv
<1>1. Init => IInv
  BY DEF Init, IInv, TypeOK, Places, LockInv, LocalInv, DirInv, NeedsFile,
         NeedsLink, MutualExclusion, Holds, HoldsExclusive, Requests
<1>2. IInv /\ [Next]_vars => IInv'
  BY NextType, NextLockInv, NextMutualExclusion DEF IInv
<1>3. QED
  BY <1>1, <1>2, PTL DEF Spec

(* No other process is under any lock() while one is under an exclusive    *)
(* lock(), for any number of processes that fail, are killed or are        *)
(* interrupted (but not after an exclusive unlock), with any programs.     *)
THEOREM MutuallyExclusive ==
    ASSUME SafeUse
    PROVE  Spec => []MutualExclusion
<1>1. IInv => MutualExclusion
  BY DEF IInv
<1>2. QED
  BY <1>1, Invariant, PTL

(* Whoever holds the repository has its file in locks/, and an exclusive   *)
(* holder has the link.                                                    *)
THEOREM HoldersAreListed ==
    ASSUME SafeUse
    PROVE  Spec => []HolderIsListed
<1>1. IInv => HolderIsListed
  BY DEF IInv, LockInv, DirInv, NeedsFile, NeedsLink, HolderIsListed, Holds,
         HoldsExclusive, ReleasedExclusive
<1>2. QED
  BY <1>1, Invariant, PTL

-----------------------------------------------------------------------------
(* Implementation of the readers-writer lock.                              *)

LEMMA RefinesStep ==
    ASSUME SafeUse, IInv, [Next]_vars
    PROVE  [RW!Next]_LockMode
<1> USE DEF IInv
<1>1. \A q \in Procs : Holds(q) /\ Holds(q)' => LockMode'[q] = LockMode[q]
  BY HoldersKeepMode DEF LockMode
<1>2. \A q \in Procs : ~Holds(q) /\ ~Holds(q)' => LockMode'[q] = LockMode[q]
  BY DEF LockMode, HoldsExclusive
<1>3. CASE \A q \in Procs : Holds(q)' = Holds(q)
  BY <1>1, <1>2, <1>3 DEF LockMode
<1>4. ASSUME NEW p \in Procs, Holds(p)' # Holds(p)
      PROVE  RW!Next
  <2>1. \A q \in Procs \ {p} : LockMode'[q] = LockMode[q]
    BY <1>1, <1>2, <1>4, OneProcessMoves DEF Holds
  <2>2. LockMode' = [LockMode EXCEPT ![p] = LockMode'[p]]
    BY <2>1 DEF LockMode
  <2>3. CASE Holds(p)
    <3>1. LockMode[p] # "none" /\ LockMode'[p] = "none"
      BY <1>4, <2>3 DEF LockMode, HoldsExclusive, Holds
    <3>2. QED
      BY <2>2, <3>1 DEF RW!Next, RW!Release
  <2>4. CASE ~Holds(p)
    <3>1. Holds(p)'
      BY <1>4, <2>4 DEF Holds
    <3>2. LockMode[p] = "none"
      BY <2>4 DEF LockMode, HoldsExclusive
    <3>3. \A q \in Procs : LockMode[q] # "exclusive"
      BY <2>4, <3>1, <3>2, AcquiringStep DEF LockMode
    <3>4. CASE HoldsExclusive(p)'
      <4>1. LockMode'[p] = "exclusive"
        BY <3>4 DEF LockMode
      <4>2. \A q \in Procs : LockMode[q] = "none"
        BY <2>4, <3>1, <3>2, <3>4, AcquiringStep DEF LockMode, HoldsExclusive
      <4>3. QED
        BY <2>2, <4>1, <4>2 DEF RW!Next, RW!AcquireExclusive
    <3>5. CASE ~HoldsExclusive(p)'
      <4>1. LockMode'[p] = "shared"
        BY <3>1, <3>5 DEF LockMode
      <4>2. QED
        BY <2>2, <3>2, <3>3, <4>1 DEF RW!Next, RW!AcquireShared
    <3>6. QED
      BY <3>4, <3>5
  <2>5. QED
    BY <2>3, <2>4
<1>5. QED
  BY <1>3, <1>4

(* lock() and unlock() implement the readers-writer lock of RWLock.        *)
THEOREM Refinement ==
    ASSUME SafeUse
    PROVE  Spec => ImplementsRWLock
<1>1. Init => RW!Init
  BY DEF Init, RW!Init, LockMode, HoldsExclusive, Holds
<1>2. IInv /\ [Next]_vars => [RW!Next]_LockMode
  BY RefinesStep
<1>3. QED
  BY <1>1, <1>2, Invariant, PTL DEF Spec, ImplementsRWLock, RW!Spec

-----------------------------------------------------------------------------
(* Who removes the link.                                                   *)

(* The link of a process is removed or replaced in steps of its own only,  *)
(* or when nobody is at work: the unlock() of one process never releases   *)
(* the lock of another.                                                    *)
THEOREM OwnersUnlock ==
    ASSUME SafeUse
    PROVE  Spec => OnlyOwnerUnlocks
<1> DEFINE Kept == \A p \in Procs :
                     exclusiveLock = LockFile[p] /\ exclusiveLock' # LockFile[p]
                       => Alone \/ pc'[p] # pc[p]
<1>1. ASSUME IInv, [Next]_vars, NEW p \in Procs,
             exclusiveLock = LockFile[p], exclusiveLock' # LockFile[p]
      PROVE  Alone \/ pc'[p] # pc[p]
  <2>1. ASSUME NEW q \in Procs \ {p},
               Proceed(q) \/ WorkFails(q) \/ Interrupt(q) \/ Crash(q)
        PROVE  FALSE
    BY <1>1, <2>1, ProcessStep DEF OthersUntouched, IInv
  <2>2. CASE MakeSymlink(p) \/ DropSymlink(p) \/ FinishUnlock(p) \/ Exit(p)
    BY <1>1, <2>2 DEF IInv, TypeOK, Goto, ThrowFromLock, Throw, Acquire,
       MakeSymlink, DropSymlink, FinishUnlock, Exit
  <2>3. CASE \/ LockAgain(p) \/ CreateLockFile(p) \/ MarkExclusive(p)
             \/ CountLocks(p) \/ CheckExclusiveLock(p) \/ Unlock(p)
             \/ UnwindUnlock(p) \/ HandlerUnlock(p) \/ Return(p)
             \/ WorkFails(p) \/ Interrupt(p) \/ Crash(p) \/ UNCHANGED vars
    BY <1>1, <2>3 DEF LockAgain, CreateLockFile, MarkExclusive, CountLocks,
       CheckExclusiveLock, Unlock, UnwindUnlock, HandlerUnlock, Return,
       WorkFails, Interrupt, Crash, dirVars, vars
  <2>4. CASE ClearLocks
    BY <2>4 DEF ClearLocks
  <2>5. QED
    BY <1>1, <2>1, <2>2, <2>3, <2>4 DEF Next, Proceed
<1>2. IInv /\ [Next]_vars => [Kept]_vars
  BY <1>1
<1>3. QED
  BY <1>2, Invariant, PTL DEF Spec, OnlyOwnerUnlocks

-----------------------------------------------------------------------------
(* What the end of a process leaves.                                       *)

(* held[p][i] is how many lock() calls of p have no unlock() yet when it   *)
(* makes its call i.  An exclusive lock() under another one is refused, so *)
(* that nothing is said of what would follow it.                           *)
Balanced(held) ==
    \A p \in Procs :
        /\ held[p][1] = 0
        /\ held[p][Len(Program[p]) + 1] = 0
        /\ \A i \in DOMAIN Program[p] :
              /\ Program[p][i] = "shared" => held[p][i + 1] = held[p][i] + 1
              /\ Program[p][i] = "exclusive" /\ held[p][i] = 0 =>
                    held[p][i + 1] = 1
              /\ Program[p][i] = "unlock" =>
                    held[p][i + 1] = IF held[p][i] > 1 THEN held[p][i] - 1
                                     ELSE 0

Held == CHOOSE held : Balanced(held)

(* A process that unlocks what it has locked, in a destructor if something *)
(* throws, and is not killed, nor interrupted between symlink() and the    *)
(* statement after it.  Without them the code does leave locks behind.     *)
CleanUse ==
    /\ SafeUse
    /\ ~Crashes
    /\ "linked" \notin SignalPoints
    /\ \A p \in Procs : Unlocks[p] = "destructor"
    /\ \E held : Balanced(held)

(* A file in locks/ belongs to a process that still has to remove it, and  *)
(* so does the link.                                                       *)
RemovesFile(p) ==
    \/ pc[p] \in {"link", "linked", "list", "check", "unwind", "handler"}
    \/ pc[p] = "ready" /\ lockCount[p] > 0

RemovesLink(p) ==
    \/ pc[p] = "linked"
    \/ haveExclusiveLock[p] /\ pc[p] \notin Dead /\ ~ReleasedExclusive(p)

CleanInv(p) ==
    /\ LockFile[p] \in lockFiles => RemovesFile(p)
    /\ exclusiveLock = LockFile[p] => RemovesLink(p)
    /\ pc[p] = "ready" => lockCount[p] = Held[p][step[p]]
    /\ pc[p] = "ready" => step[p] <= Len(Program[p]) + 1
    /\ pc[p] \in {"link", "linked", "list", "check"} => Held[p][step[p]] = 0
    /\ pc[p] = "unlocking" =>
          Requests(p, "unlock") /\ Held[p][step[p] + 1] = 0

LEMMA HeldIsBalanced ==
    ASSUME CleanUse
    PROVE  Balanced(Held)
BY DEF CleanUse, Held

(* No process makes the lock file or the link of another.                  *)
OthersNotMade(p) ==
    /\ lockFiles' \subseteq lockFiles \cup {LockFile[p]}
    /\ exclusiveLock' \in {exclusiveLock, LockFile[p], NoLock}

LEMMA ProcessMakesItsOwn ==
    ASSUME NEW p \in Procs,
           Proceed(p) \/ WorkFails(p) \/ Interrupt(p) \/ Crash(p)
    PROVE  OthersNotMade(p)
BY DEF OthersNotMade, dirVars, Proceed, LockAgain, CreateLockFile,
       MakeSymlink, MarkExclusive, CountLocks, DropSymlink,
       CheckExclusiveLock, Unlock, FinishUnlock, UnwindUnlock, HandlerUnlock,
       Exit, Return, WorkFails, Interrupt, Crash, RemoveLockFile,
       RemoveExclusiveLock

LEMMA OthersKeptClean ==
    ASSUME SafeUse, NEW q \in Procs, CleanInv(q),
           pc'[q] = pc[q], step'[q] = step[q], lockCount'[q] = lockCount[q],
           haveExclusiveLock'[q] = haveExclusiveLock[q],
           LockFile[q] \in lockFiles' => LockFile[q] \in lockFiles,
           exclusiveLock' = LockFile[q] => exclusiveLock = LockFile[q]
    PROVE  CleanInv(q)'
BY DEF CleanInv, RemovesFile, RemovesLink, Requests, ReleasedExclusive, Dead

LEMMA ProcessStepClean ==
    ASSUME CleanUse, TypeOK, LockInv, NEW p \in Procs, CleanInv(p),
           Proceed(p) \/ WorkFails(p) \/ Interrupt(p) \/ Crash(p)
    PROVE  CleanInv(p)'
<1> USE LockFileAssumption DEF TypeOK, Goto, Throw, ThrowFromLock, dirVars,
        CleanInv, RemovesFile, RemovesLink, Requests, ReleasedExclusive, Dead
<1>1. LocalInv(p)
  BY DEF LockInv
<1>2. /\ Unlocks[p] = "destructor"
      /\ ~Crashes /\ "linked" \notin SignalPoints
      /\ "released" \notin SignalPoints
  BY DEF CleanUse, SafeUse
<1>3. /\ Len(Program[p]) \in Nat
      /\ DOMAIN Program[p] = 1 .. Len(Program[p])
  BY ProgramAssumption
<1>4. /\ \A i \in DOMAIN Program[p] :
            /\ Program[p][i] = "shared" => Held[p][i + 1] = Held[p][i] + 1
            /\ Program[p][i] = "exclusive" /\ Held[p][i] = 0 =>
                  Held[p][i + 1] = 1
            /\ Program[p][i] = "unlock" =>
                  Held[p][i + 1] = IF Held[p][i] > 1 THEN Held[p][i] - 1
                                   ELSE 0
      /\ Held[p][Len(Program[p]) + 1] = 0
  BY HeldIsBalanced DEF Balanced
<1>5. CASE LockAgain(p)
  <2>1. ~haveExclusiveLock[p]
    BY <1>1, <1>5, NoLockAfterExclusive DEF LockAgain
  <2>2. QED
    BY <1>2, <1>3, <1>4, <1>5, <2>1 DEF LockAgain, UpgradeRefused
<1>6. CASE CreateLockFile(p)
  <2>1. ~haveExclusiveLock[p]
    BY <1>1, <1>6, NoLockAfterExclusive DEF CreateLockFile
  <2>2. QED
    BY <1>2, <1>3, <1>4, <1>6, <2>1 DEF CreateLockFile
<1>7. CASE MakeSymlink(p)
  BY <1>1, <1>2, <1>7 DEF MakeSymlink, LocalInv
<1>8. CASE MarkExclusive(p)
  BY <1>1, <1>2, <1>8 DEF MarkExclusive, LocalInv
<1>9. CASE CountLocks(p)
  BY <1>1, <1>2, <1>3, <1>4, <1>9 DEF CountLocks, Acquire, LocalInv
<1>10. CASE DropSymlink(p)
  BY <1>1, <1>2, <1>3, <1>4, <1>10 DEF DropSymlink, Acquire, LocalInv
<1>11. CASE CheckExclusiveLock(p)
  BY <1>1, <1>2, <1>3, <1>4, <1>11
     DEF CheckExclusiveLock, Acquire, LocalInv, ExclusiveLockIsFile
<1>12. CASE Unlock(p)
  BY <1>1, <1>2, <1>3, <1>4, <1>12 DEF Unlock, RemoveLockFile, LocalInv
<1>13. CASE FinishUnlock(p)
  BY <1>1, <1>2, <1>3, <1>4, <1>13
     DEF FinishUnlock, RemoveExclusiveLock, LocalInv
<1>14. CASE UnwindUnlock(p) \/ HandlerUnlock(p) \/ Exit(p)
  BY <1>1, <1>14 DEF UnwindUnlock, HandlerUnlock, Exit, RemoveLockFile,
                     RemoveExclusiveLock, LocalInv
<1>15. CASE Return(p)
  BY <1>1, <1>3, <1>4, <1>15 DEF Return, LocalInv
<1>16. CASE WorkFails(p) \/ Interrupt(p) \/ Crash(p)
  BY <1>1, <1>2, <1>16 DEF WorkFails, Interrupt, SignalPoint, Crash, Places
<1>17. QED
  BY <1>5, <1>6, <1>7, <1>8, <1>9, <1>10, <1>11, <1>12, <1>13, <1>14, <1>15,
     <1>16 DEF Proceed

LEMMA CleanInvariant ==
    ASSUME CleanUse
    PROVE  Spec => [](IInv /\ \A p \in Procs : CleanInv(p))
<1> DEFINE Clean == \A p \in Procs : CleanInv(p)
<1>0. SafeUse
  BY DEF CleanUse
<1>1. Init => Clean
  <2>1. \A p \in Procs : Held[p][1] = 0 /\ Len(Program[p]) \in Nat
    BY HeldIsBalanced, ProgramAssumption DEF Balanced
  <2>2. QED
    BY <2>1, LockFileAssumption DEF Init, CleanInv
<1>2. ASSUME IInv, Clean, [Next]_vars
      PROVE  Clean'
  <2>1. ASSUME NEW p \in Procs,
               Proceed(p) \/ WorkFails(p) \/ Interrupt(p) \/ Crash(p)
        PROVE  Clean'
    <3>1. CleanInv(p)'
      BY <1>2, <2>1, ProcessStepClean DEF IInv
    <3>2. OthersUntouched(p) /\ OthersNotMade(p)
      BY <1>0, <1>2, <2>1, ProcessStep, ProcessMakesItsOwn DEF IInv
    <3>3. ASSUME NEW q \in Procs \ {p} PROVE CleanInv(q)'
      <4>1. LockFile[q] # LockFile[p] /\ LockFile[q] # NoLock
        BY <1>0, LockFileAssumption DEF SafeUse
      <4>2. QED
        BY <1>0, <1>2, <3>2, <4>1, OthersKeptClean
           DEF OthersUntouched, OthersNotMade
    <3>4. QED
      BY <3>1, <3>3
  <2>2. CASE ClearLocks
    BY <1>2, <2>2, LockFileAssumption
       DEF ClearLocks, CleanInv, Requests
  <2>3. CASE UNCHANGED vars
    BY <1>0, <1>2, <2>3, OthersKeptClean DEF vars
  <2>4. QED
    BY <1>2, <2>1, <2>2, <2>3 DEF Next
<1>3. QED
  BY <1>0, <1>1, <1>2, Invariant, PTL DEF Spec

(* However a process is refused, fails or is interrupted: when it has      *)
(* ended, neither its lock file nor its link is left.                      *)
THEOREM NothingIsLeft ==
    ASSUME CleanUse
    PROVE  Spec => []ExitLeavesNothing
<1>1. (\A p \in Procs : CleanInv(p)) => ExitLeavesNothing
  BY DEF CleanInv, RemovesFile, RemovesLink, ExitLeavesNothing, Dead
<1>2. QED
  BY <1>1, CleanInvariant, PTL

(* A lock() is refused only while another process is at work: whoever has  *)
(* the link, or a file in the listing, is alive and still to unlock.       *)
LEMMA RefusedStep ==
    ASSUME SafeUse, IInv, \A q \in Procs : CleanInv(q), [Next]_vars,
           NEW p \in Procs, Refused(p)
    PROVE  \E q \in Procs \ {p} : AtWork(q)
<1> USE DEF IInv
<1>1. MakeSymlink(p) \/ CountLocks(p)
  <2>1. ASSUME NEW q \in Procs \ {p},
               Proceed(q) \/ WorkFails(q) \/ Interrupt(q) \/ Crash(q)
        PROVE  FALSE
    BY <2>1, ProcessStep DEF Refused, OthersUntouched
  <2>2. ~(ClearLocks \/ UNCHANGED vars)
    BY DEF Refused, ClearLocks, vars
  <2>3. ~(\/ LockAgain(p) \/ CreateLockFile(p) \/ MarkExclusive(p)
          \/ DropSymlink(p) \/ CheckExclusiveLock(p) \/ Unlock(p)
          \/ FinishUnlock(p) \/ UnwindUnlock(p) \/ HandlerUnlock(p)
          \/ Exit(p) \/ Return(p) \/ WorkFails(p))
    BY DEF Refused, LockAgain, CreateLockFile, MarkExclusive, DropSymlink,
       CheckExclusiveLock, Unlock, FinishUnlock, UnwindUnlock, HandlerUnlock,
       Exit, Return, WorkFails
  <2>4. ~(Interrupt(p) \/ Crash(p))
    BY DEF Refused, Interrupt, Crash, Goto, TypeOK
  <2>5. QED
    BY <2>1, <2>2, <2>3, <2>4 DEF Next, Proceed
<1>2. CASE MakeSymlink(p)
  <2>1. pc[p] = "link" /\ ~haveExclusiveLock[p] /\ exclusiveLock # NoLock
    BY <1>2 DEF MakeSymlink, Refused, LockInv, LocalInv, Goto, TypeOK
  <2>2. PICK q \in Procs : exclusiveLock = LockFile[q]
    BY <2>1 DEF TypeOK, LockNames
  <2>3. RemovesLink(q)
    BY <2>2 DEF CleanInv
  <2>4. q # p
    BY <2>1, <2>3 DEF RemovesLink
  <2>5. AtWork(q)
    BY <2>3 DEF RemovesLink, AtWork, ReleasedExclusive, TypeOK, Places, Dead
  <2>6. QED
    BY <2>4, <2>5
<1>3. CASE CountLocks(p)
  <2>1. OtherLocksExist
    BY <1>3 DEF CountLocks, Refused, Acquire, Goto, TypeOK
  <2>2. PICK l \in lockFiles : l # LockFile[p]
    <3>1. SUFFICES ASSUME lockFiles \subseteq {LockFile[p]}
                   PROVE  FALSE
      OBVIOUS
    <3>2. IsFiniteSet({LockFile[p]}) /\ Cardinality({LockFile[p]}) = 1
      BY FS_Singleton
    <3>3. Cardinality(lockFiles) <= 1 /\ Cardinality(lockFiles) \in Nat
      BY <3>1, <3>2, FS_Subset, FS_CardinalityType
    <3>4. QED
      BY <2>1, <3>3 DEF OtherLocksExist
  <2>3. PICK q \in Procs : l = LockFile[q]
    BY <2>2 DEF TypeOK, LockNames
  <2>4. RemovesFile(q)
    BY <2>2, <2>3 DEF CleanInv
  <2>5. AtWork(q)
    BY <2>4 DEF RemovesFile, AtWork, Places
  <2>6. QED
    BY <2>2, <2>3, <2>5
<1>4. QED
  BY <1>1, <1>2, <1>3

(* Whenever a lock() is refused, another process is at work: a process     *)
(* that has ended, however it has, stands in nobody's way.                 *)
THEOREM NothingEndedRefuses ==
    ASSUME CleanUse
    PROVE  Spec => RefusedByTheLiving
<1>1. SafeUse
  BY DEF CleanUse
<1>2. IInv /\ (\A p \in Procs : CleanInv(p)) /\ [Next]_vars =>
        [\A p \in Procs : Refused(p) => \E q \in Procs \ {p} : AtWork(q)]_vars
  BY <1>1, RefusedStep
<1>3. QED
  BY <1>2, CleanInvariant, PTL DEF Spec, RefusedByTheLiving
=============================================================================
