----------------------------- MODULE RoundTrip -----------------------------
(***************************************************************************)
(* From the files to the repository and back: a backup writes an index     *)
(* file, and restore, test-restore and list-files run over it, one after   *)
(* the other, into one directory.  MaxChanges bounds the files that change *)
(* during the backup, MaxMishaps what disturbs the restore: files that are *)
(* already there, a damaged repository, calls that fail, interruptions.    *)
(***************************************************************************)
EXTENDS BackupRun, RestoreRun

CONSTANTS
    Obstacles,  \* what the destination directory may have in it
    Damages,    \* what may be wrong with the repository
    MaxChanges, \* bound: the number of files that change during the walk
    MaxMishaps, \* bound: the number of disturbances of the restore
    MaxBoth,    \* bound: the number of both before a mishap
    MaxRuns,    \* bound: the number of runs over the index file
    Revisits    \* bound: with which options an index file of each list of
                \* directories is read when files have changed meanwhile
ASSUME ObstaclesAssumption ==
    /\ Obstacles \subseteq [Node -> DestFiles]
    /\ \A files \in Obstacles :
           /\ IsTree(files)
           /\ \A n \in Node : files[n].sha1 = "" /\ files[n].data \notin {"partial", "overwritten"}
ASSUME BoundsAssumption == MaxChanges \in Nat /\ MaxMishaps \in Nat /\ MaxRuns \in Nat \ {0}

VARIABLES changes, mishaps, runs

bounds == <<changes, mishaps, runs>>
vars == <<bvars, rvars, bounds>>

TypeOK ==
    /\ BackupTypeOK /\ RestoreTypeOK
    /\ changes \in 0..MaxChanges /\ mishaps \in 0..MaxMishaps /\ runs \in 0..MaxRuns

NoDamage == [blob |-> "", kind |-> ""]
NoOptions == [mode |-> "none"]

Init ==
    /\ BackupInit
    /\ index = <<>> /\ damage = NoDamage /\ dest = [n \in Node |-> Absent] /\ before = dest
    /\ opts = NoOptions /\ pos = 0 /\ entry = Eof /\ output = <<>>
    /\ hasErrors = FALSE /\ known = FALSE /\ restorePc = "waiting"
    /\ changes = 0 /\ mishaps = 0 /\ runs = 0

-----------------------------------------------------------------------------
Mishap == mishaps < MaxMishaps /\ changes + mishaps < MaxBoth /\ mishaps' = mishaps + 1

ChangeFile ==
    /\ backupPc \in {"next", "handle"} /\ changes < MaxChanges /\ changes' = changes + 1
    /\ \E n \in Node : Change(n)
    /\ UNCHANGED <<rvars, mishaps, runs>>

(* The index file is there to be read, with several lines for a path if    *)
(* the walk has come to it more than once and it has changed meanwhile.    *)
Deliver ==
    /\ backupPc = "done" /\ restorePc = "waiting"
    /\ index' = shabackup /\ restorePc' = "idle"
    /\ \/ UNCHANGED <<damage, dest, mishaps>>
       \/ damage' \in Damages /\ UNCHANGED dest /\ Mishap
       \/ dest' \in Obstacles /\ UNCHANGED damage /\ Mishap
    /\ UNCHANGED <<bvars, opts, pos, entry, output, hasErrors, before, known, changes, runs>>

(* A restore is repeated when there is reason to.                          *)
Run ==
    /\ runs = 0 \/ (known /\ runs < MaxRuns)
    /\ touched = {} \/ opts' \in Revisits[dirs]
    /\ StartRestore /\ (runs = 0 \/ {opts.mode, opts'.mode} = {"restore"}) /\ runs' = runs + 1
    /\ UNCHANGED <<bvars, changes, mishaps>>

WalkOn == Walk /\ UNCHANGED <<rvars, bounds>>
RestoreOn == Restore /\ UNCHANGED <<bvars, bounds>>
Next ==
    \/ WalkOn \/ (CallbackFails /\ UNCHANGED <<rvars, bounds>>) \/ ChangeFile \/ Deliver \/ Run \/ RestoreOn
    \/ (RestoreFault \/ Interrupt) /\ Mishap /\ UNCHANGED <<bvars, changes, runs>>

(* The walk and the restore are loops of one thread.                       *)
Spec == Init /\ [][Next]_vars /\ WF_vars(WalkOn) /\ WF_vars(RestoreOn)

-----------------------------------------------------------------------------
(* When neither the backup nor the restore of all of it into an empty      *)
(* directory has reported an error, and no file has changed meanwhile, and *)
(* no target of a link has a newline, tab or carriage return: then what is *)
(* there is what was there, that is all that was wanted, in directories    *)
(* (BackupRun.cpp:52-207, TreeFileEntry.cpp:30-114, RestoreRun.cpp:47-183).*)
Undamaged ==
    /\ Successful({"restore"}) /\ opts.asked = {Root} /\ ~opts.skipExisting /\ damage.kind # "wrong"
    /\ ~backupError /\ touched = {} /\ \A n \in Node : before[n] = Absent
    /\ \A n \in Node : source[n].type = "link" => Plain(source[n].data)
ComesBack ==
    Undamaged =>
        \A n \in Node :
            LET file == dest[n]
                wanted == {m \in {n} \cup Beneath(n) : Wanted(m)}
            IN  /\ (file.type # "none") = (wanted # {})
                /\ wanted # {} => file.type = source[n].type
                /\ Wanted(n) /\ file.type = "dir" => file.mode \/ "chmod" \in opts.ignore
                /\ Wanted(n) /\ file.type = "file" => file.data = source[n].data
                /\ Wanted(n) /\ file.type = "link" => <<file.data>> = source[n].data

(* The walk over the files ends, although they change, and so does each   *)
(* run over the index file                                                 *)
(* (BackupRun.cpp:67-84,131-157, RestoreRun.cpp:70-87).                    *)
RunsEnd ==
    /\ <>(backupPc \in {"done", "nothing", "panicked"})
    /\ restorePc \in Running ~> restorePc \in Ended
=============================================================================
