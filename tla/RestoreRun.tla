---------------------------- MODULE RestoreRun -----------------------------
(***************************************************************************)
(* Runs of restore, test-restore and list-files, src/src/RestoreRun.cpp,   *)
(* one after the other, over one index file and into one destination       *)
(* directory: a run may find there what others have left.  An entry is     *)
(* handled in up to three actions, between which a run may be interrupted: *)
(* mkdirs(), remove() and open(); export; owner, attributes, mode and time.*)
(* What fails is the export or one of the last calls.                      *)
(***************************************************************************)
EXTENDS IndexFile

CONSTANTS
    ReadOnly,   \* paths whose mode forbids writing to all but root
    Parts,      \* the blobs each content is made of: one, or a list and its blocks
    Size,       \* the size of each content, in GB
    UIntRange,  \* what an unsigned int can hold, in GB: 4
    CpioMaxFileSize,    \* CPIO_ODC_MAX_FILE_SIZE in GB: 8
    Alike,      \* the paths that each path is the beginning of, but not above
    Options     \* the options and arguments that the program is run with

Modes == {"restore", "cpio", "shaback", "test", "quick", "list"}
Calls == {"chown", "chmod", "utime"}
ASSUME RestoreAssumption ==
    /\ Contents \cap {"", "partial", "overwritten", "wrong"} = {}
    /\ DOMAIN Parts = Contents /\ Size \in [Contents -> Nat]
    /\ UIntRange \in Nat \ {0} /\ CpioMaxFileSize \in Nat
    /\ ReadOnly \subseteq Node /\ Alike \in [Node -> SUBSET Node]
    /\ Options \subseteq [mode : Modes, asked : SUBSET (Node \cup {Root}), skipExisting : BOOLEAN,
                          ignore : SUBSET Calls, root : BOOLEAN]
    /\ \A option \in Options : option.mode \in {"test", "quick"} => option.asked = {Root}

VARIABLES
    index,      \* the lines of the index file
    damage,     \* what is wrong with the repository: a blob and how
    dest,       \* the files in the destination directory
    opts,       \* the options, among them -S and -i, and whether the user is root
    pos,        \* the line that has been read last
    entry,      \* the entry in hand
    output,     \* the records that have been written to standard output
    hasErrors,  \* report.hasErrors()
    before,     \* history: dest at the start of the run
    known,      \* history: an earlier run was interrupted or has reported errors
    restorePc

rvars == <<index, damage, dest, opts, pos, entry, output, hasErrors, before, known, restorePc>>

(* A file: its type and content, whether it has the mode and the time of   *)
(* its entry, and the content that its extended attribute is the hash of.  *)
DestFile(type, data) == [type |-> type, data |-> data, mode |-> FALSE, time |-> FALSE, sha1 |-> ""]
Absent == DestFile("none", "")
DestData ==    \* as it was, as it comes from the index file, or what a failure leaves
    Contents \cup Pieces \cup {"old", "changed", "partial", "overwritten", "wrong"}
DestFiles ==
    {file \in [type : {"none", "dir", "file", "link"}, data : DestData,
               mode : BOOLEAN, time : BOOLEAN, sha1 : Contents \cup {""}] :
        file.type \in {"none", "dir"} => file.data = ""}
Running == {"next", "entry", "dirMeta", "export", "fileMeta", "symlink", "linkMeta"}
Ended == {"waiting", "done", "aborted", "idle"}

RestoreTypeOK ==
    /\ dest \in [Node -> DestFiles] /\ IsTree(dest)
    /\ pos \in Nat /\ pos <= Len(index) + 1
    /\ restorePc \in Running \ {"next"} => entry.path \in Node
    /\ hasErrors \in BOOLEAN /\ known \in BOOLEAN
    /\ restorePc \in Running \cup Ended

-----------------------------------------------------------------------------
(* A run of the program.  Without arguments all is restored: Root.         *)
StartRestore ==
    /\ restorePc = "idle" /\ opts' \in Options
    /\ pos' = 0 /\ entry' = Eof /\ output' = <<>> /\ hasErrors' = FALSE /\ before' = dest
    /\ restorePc' = "next"
    /\ UNCHANGED <<index, damage, dest, known>>

(* The arguments are what the path of an entry begins with.                *)
Matches(n) ==
    \E file \in opts.asked : file = Root \/ file \in Within(n) \/ Alike[file] \cap Within(n) # {}

(* dirFileReader.next() in start().  Nothing catches InvalidTreeFile.      *)
ReadEntry ==
    /\ restorePc = "next"
    /\ LET next == NextEntry(index, pos + 1)
       IN  /\ pos' = pos + 1
           /\ entry' = IF next \in {Eof, Invalid} THEN Eof ELSE next
           /\ restorePc' = IF next = Eof THEN "done"
                           ELSE IF next = Invalid THEN "aborted"
                           ELSE IF Matches(next.path) THEN "entry" ELSE "next"
           /\ output' = IF next = Eof /\ opts.mode \in {"cpio", "shaback"}
                        THEN Append(output, [path |-> Root, announced |-> 0, given |-> 0])
                        ELSE output
    /\ UNCHANGED <<index, damage, dest, opts, hasErrors, before, known>>

-----------------------------------------------------------------------------
(* The destination: the files of a Unix file system.                       *)
IsDir(n) == n = Root \/ dest[n].type = "dir"
Writable(n) == n = Root \/ opts.root \/ ~(n \in ReadOnly /\ dest[n].mode)
CanCreateIn(d) == IsDir(d) /\ Writable(d)

(* A directory has the time of its last change.                            *)
Put(files, n, file) ==
    [m \in Node |-> IF m = n THEN file
                    ELSE IF m = Parent[n] THEN [files[m] EXCEPT !.time = FALSE] ELSE files[m]]

(* File::mkdirs(): the missing ones of n and the directories above, all or *)
(* none of which can be made.                                              *)
MkdirsLast(n) ==
    IF dest[n].type = "none" THEN [dest EXCEPT ![n] = DestFile("dir", "")] ELSE dest

Mkdirs(n) ==
    LET missing == {m \in Within(n) : dest[m].type = "none"}
        highest == CHOOSE m \in missing : Above[m] \cap missing = {}
    IN  IF missing = {} \/ ~CanCreateIn(Parent[highest]) THEN dest
        ELSE [m \in Node |->
                 IF m \in missing THEN DestFile("dir", "")
                 ELSE IF m = Parent[highest] THEN [dest[m] EXCEPT !.time = FALSE] ELSE dest[m]]
MakeParent(n) == IF Parent[n] = Root THEN dest ELSE Mkdirs(Parent[n])

(* File::remove() removes also an empty directory.                         *)
Removed(n) ==
    IF /\ dest[n].type # "none" /\ CanCreateIn(Parent[n])
       /\ \A m \in Beneath(n) : dest[m].type = "none"
    THEN Put(dest, n, Absent) ELSE dest

-----------------------------------------------------------------------------
TypeOf(line) == IF line.type = "D" THEN "dir" ELSE IF line.type = "F" THEN "file" ELSE "link"

Entry(modes, type) ==
    /\ restorePc = "entry" /\ opts.mode \in modes /\ entry.type = type
    /\ UNCHANGED <<index, damage, opts, pos, entry, before, known>>
Step(pc) ==
    /\ restorePc = pc
    /\ UNCHANGED <<index, damage, opts, pos, entry, output, before, known>>
Skip == restorePc' = "next" /\ UNCHANGED <<dest, output, hasErrors>>
ReportLost == restorePc' = "next" /\ UNCHANGED hasErrors

Report == restorePc' = "next" /\ hasErrors' = TRUE

(* What is to be restored beyond a symbolic link gets to where that leads, *)
(* out of the destination, or nowhere; then that is reported, or ends the  *)
(* program if it is a link.                                                *)
Beyond(n) == \E m \in Above[n] : dest[m].type = "link"
RestoreHere(type) == Entry({"restore"}, type) /\ ~Beyond(entry.path)
RestoreBeyond ==
    /\ \E type \in {"D", "F", "S"} : Entry({"restore"}, type)
    /\ Beyond(entry.path)
    /\ \/ Skip
       \/ entry.type # "S" /\ Report /\ UNCHANGED <<dest, output>>
       \/ entry.type = "S" /\ restorePc' = "aborted" /\ UNCHANGED <<dest, output, hasErrors>>

(* restoreMetaData(): what fails is reported unless it is ignored.  All    *)
(* calls but lchown() follow a symbolic link.  A file gets a time that is  *)
(* not that of its attributes if there is one where a directory should be. *)
Changed(n, calls) ==
    IF dest[n].type \in {"none", "link"} THEN dest
    ELSE [dest EXCEPT ![n].mode = @ \/ "chmod" \in calls,
                      ![n].time = IF "utime" \in calls THEN TypeOf(entry) = dest[n].type ELSE @,
                      ![n].sha1 = IF entry.type = "F" THEN entry.data ELSE @]
MetaData(pc, calls, faults) ==
    LET n == entry.path
        failing == IF dest[n].type = "none" THEN calls ELSE calls \cap faults
    IN  /\ Step(pc)
        /\ dest' = Changed(n, calls \ failing)
        /\ hasErrors' = (hasErrors \/ ~(failing \subseteq opts.ignore)
                          \/ (entry.type = "D" /\ ~IsDir(n)))
        /\ restorePc' = "next"

(* TREEFILEENTRY_DIRECTORY                                                 *)
RestoreDirectoryMissing ==
    /\ RestoreHere("D")
    /\ IF IsDir(entry.path) THEN Skip
       ELSE /\ dest' = Mkdirs(entry.path)
            /\ restorePc' = "dirMeta" /\ UNCHANGED <<output, hasErrors>>

RestoreDirectory ==
    /\ RestoreHere("D")
    /\ IF opts.skipExisting /\ IsDir(entry.path) THEN Skip
       ELSE /\ dest' = Mkdirs(entry.path)
            /\ restorePc' = "dirMeta" /\ UNCHANGED <<output, hasErrors>>
DirectoryMetaData(faults) == MetaData("dirMeta", Calls, faults)

(* TREEFILEENTRY_FILE: what is there is removed or skipped.  The open() of *)
(* FileOutputStream empties a file that could not be removed, goes where a *)
(* symbolic link leads, and fails on a directory.                          *)
Opened(files, n) ==
    IF files[n].type = "link" THEN [files EXCEPT ![n].data = "overwritten"]
    ELSE IF files[n].type = "file" /\ Writable(n)
    THEN [files EXCEPT ![n].data = "partial", ![n].time = FALSE]
    ELSE IF /\ files[n].type = "none" /\ Writable(Parent[n])
            /\ Parent[n] = Root \/ files[Parent[n]].type = "dir"
    THEN Put(files, n, DestFile("file", "partial"))
    ELSE files
RestoreFileRemovedFirst ==
    /\ RestoreHere("F")
    /\ LET n == entry.path
           files == IF dest[n].type = "file" THEN Removed(n) ELSE MakeParent(n)
       IN  IF dest[n].type = "file" /\ opts.skipExisting
           THEN dest' = files /\ restorePc' = "next" /\ UNCHANGED hasErrors
           ELSE /\ dest' = Opened(files, n)
                /\ IF dest'[n].data \in {"overwritten", "partial"}
                   THEN restorePc' = "export" /\ UNCHANGED hasErrors ELSE Report
    /\ UNCHANGED output

RestoreFile ==
    /\ RestoreHere("F")
    /\ LET n == entry.path
           files == IF dest[n].type = "file" THEN Removed(n) ELSE MakeParent(n)
       IN  IF dest[n].type = "file" /\ opts.skipExisting THEN Skip
           ELSE /\ dest' = Opened(files, n)
                /\ IF dest'[n].data \in {"overwritten", "partial"}
                   THEN restorePc' = "export" /\ UNCHANGED hasErrors ELSE Report
                /\ UNCHANGED output

(* Repository::exportFile(): what the blobs yield.  Nothing is checked; a  *)
(* list that is too short just ends the file early.                        *)
Damaged(id) == \E i \in DOMAIN Parts[id] : Parts[id][i] = damage.blob
ListDamaged(id) == Len(Parts[id]) > 1 /\ Head(Parts[id]) = damage.blob
Throws(id) == Damaged(id) /\ damage.kind # "wrong"
ExportFile(fault) ==
    /\ Step("export")
    /\ IF fault \/ Throws(entry.data) THEN Report /\ UNCHANGED dest
       ELSE /\ dest' = IF dest[entry.path].type = "link" THEN dest
                       ELSE [dest EXCEPT ![entry.path].data =
                                 IF Damaged(entry.data) THEN "wrong" ELSE entry.data]
            /\ restorePc' = "fileMeta" /\ UNCHANGED hasErrors
FileMetaData(faults) == MetaData("fileMeta", Calls, faults)

(* TREEFILEENTRY_SYMLINK: -S only spares links.  Nothing catches the       *)
(* exception of exportSymlink(): it ends the program.                      *)
RestoreSymlink ==
    /\ RestoreHere("S")
    /\ LET n == entry.path
       IN  IF opts.skipExisting /\ dest[n].type = "link" THEN Skip
           ELSE /\ dest' = IF dest[n].type = "none" THEN MakeParent(n) ELSE Removed(n)
                /\ restorePc' = "symlink" /\ UNCHANGED <<output, hasErrors>>
MakeSymlink(fault) ==
    LET n == entry.path
        fails == fault \/ dest[n].type # "none" \/ ~CanCreateIn(Parent[n])
    IN  /\ Step("symlink")
        /\ dest' = IF fails THEN dest ELSE Put(dest, n, DestFile("link", entry.data))
        /\ restorePc' = IF fails THEN "aborted" ELSE "linkMeta"
        /\ UNCHANGED hasErrors
SymlinkMetaData(faults) == MetaData("linkMeta", {"chown"}, faults)

-----------------------------------------------------------------------------
(* restoreAsCpioStream(): a header that announces the size of what will    *)
(* follow.  The size is cut to an unsigned int in both formats.            *)
Write(announced, given) ==
    output' = Append(output, [path |-> entry.path, announced |-> announced, given |-> given])

StreamOther ==
    /\ \E type \in {"D", "S"} : Entry({"cpio", "shaback"}, type)
    /\ LET size == IF entry.type = "S" THEN 1 ELSE 0 IN Write(size, size)
    /\ restorePc' = "next" /\ UNCHANGED <<dest, hasErrors>>
StreamFileSilent(fault) ==
    /\ Entry({"cpio", "shaback"}, "F")
    /\ LET size == Size[entry.data]
       IN  IF opts.mode = "cpio" /\ size >= CpioMaxFileSize
           THEN hasErrors' = TRUE /\ UNCHANGED output
           ELSE /\ Write(size % UIntRange, IF fault \/ Throws(entry.data) THEN 0 ELSE size)
                /\ UNCHANGED hasErrors
    /\ restorePc' = "next" /\ UNCHANGED dest

StreamFile(fault) ==
    /\ Entry({"cpio", "shaback"}, "F")
    /\ LET size == Size[entry.data]
           fails == fault \/ Throws(entry.data)
       IN  IF opts.mode = "cpio" /\ size >= CpioMaxFileSize
           THEN hasErrors' = TRUE /\ UNCHANGED output
           ELSE /\ Write(size % UIntRange, IF fails THEN 0 ELSE size)
                /\ hasErrors' = (hasErrors \/ fails)
    /\ restorePc' = "next" /\ UNCHANGED dest

(* testExportFile(): reads all blobs and compares size and hash, or with   *)
(* --quick only looks for them; but a block list is read in any case.      *)
TestFailsOfFirst(id) ==
    /\ Damaged(id) /\ Head(Parts[id]) = damage.blob
    /\ opts.mode = "quick" => damage.kind = "missing" \/ (Throws(id) /\ ListDamaged(id))

TestFails(id) ==
    /\ Damaged(id)
    /\ opts.mode = "quick" => damage.kind = "missing" \/ (Throws(id) /\ ListDamaged(id))
TestEntry ==
    /\ Entry({"test", "quick"}, entry.type)
    /\ hasErrors' = (hasErrors \/ (entry.type = "F" /\ TestFails(entry.data)))
    /\ restorePc' = "next" /\ UNCHANGED <<dest, output>>

(* printFileListForEntry(): an unreadable block list ends the program.     *)
ListEntry ==
    /\ Entry({"list"}, entry.type)
    /\ restorePc' = IF entry.type = "F" /\ Throws(entry.data) /\ ListDamaged(entry.data)
                    THEN "aborted" ELSE "next"
    /\ UNCHANGED <<dest, output, hasErrors>>

-----------------------------------------------------------------------------
(* The exit code tells what has happened, or the run is interrupted.       *)
EndRestore ==
    /\ restorePc \in {"done", "aborted"} /\ restorePc' = "idle"
    /\ known' = (known \/ hasErrors \/ restorePc = "aborted")
    /\ UNCHANGED <<index, damage, dest, opts, pos, entry, output, hasErrors, before>>
Interrupt ==
    /\ restorePc \in Running /\ restorePc' = "idle" /\ known' = TRUE
    /\ UNCHANGED <<index, damage, dest, opts, pos, entry, output, hasErrors, before>>

Restore ==
    \/ ReadEntry
    \/ RestoreDirectory \/ DirectoryMetaData({})
    \/ RestoreFile \/ ExportFile(FALSE) \/ FileMetaData({})
    \/ RestoreSymlink \/ MakeSymlink(FALSE) \/ SymlinkMetaData({}) \/ RestoreBeyond
    \/ StreamOther \/ StreamFile(FALSE) \/ TestEntry \/ ListEntry
    \/ EndRestore

(* Any call may fail.                                                      *)
RestoreFault ==
    \/ ExportFile(TRUE) \/ MakeSymlink(TRUE) \/ StreamFile(TRUE)
    \/ \E call \in Calls :
           DirectoryMetaData({call}) \/ FileMetaData({call}) \/ SymlinkMetaData({call})

-----------------------------------------------------------------------------
Chosen == {line \in Legible(index) : Matches(line.path)}
AskedFor(n) == \E file \in opts.asked : file = Root \/ file \in Within(n)
Successful(modes) == restorePc = "done" /\ ~hasErrors /\ opts.mode \in modes

(* Where this run has restored the entry, the file has its type, content   *)
(* and metadata; the time of a directory is lost to what comes after it.   *)
Restored(line) ==
    LET n == line.path
        file == dest[n]
    IN  /\ file.type = TypeOf(line)
        /\ file.data = ParseEntry(line).data
               \/ (line.type = "F" /\ file.data = "wrong" /\ damage.kind = "wrong")
        /\ file.mode \/ line.type = "S" \/ "chmod" \in opts.ignore
        /\ file.time \/ line.type = "S" \/ "utime" \in opts.ignore
               \/ (line.type = "D" /\ \E other \in Chosen : other.path \in Beneath(n))

(* What -S makes a run spare: directories, those made on the way among     *)
(* them, what was there, what another line for the path has restored, and  *)
(* a link that a file has been written through.                            *)
Spared(line) ==
    /\ opts.skipExisting /\ dest[line.path].type = TypeOf(line)
    /\ \/ line.type = "D" \/ before[line.path].type = TypeOf(line)
       \/ dest[line.path].data = "overwritten"
       \/ \E other \in Chosen \ {line} : other.type = line.type /\ other.path = line.path

(* A symbolic link was there, or has come there by a line of its own.      *)
LinkAt(n) == before[n].type = "link" \/ \E line \in Chosen : line.type = "S" /\ line.path = n
LinkAbove(line) == \E n \in Above[line.path] : LinkAt(n)
WrittenThrough(line) ==
    line.type = "F" /\ dest[line.path].data = "overwritten" /\ LinkAt(line.path)
Settled(line) == Restored(line) \/ Spared(line) \/ WrittenThrough(line) \/ LinkAbove(line)

(* A restore that reports no error has restored all that it was asked for, *)
(* the last line of each path, when the files changed during the backup    *)
(* and there are several: whatever was in the way and whatever earlier     *)
(* runs have left, except for what -S has made it spare, and for what has  *)
(* been written through a symbolic link, at its place or on the way to it  *)
(* (RestoreRun.cpp:100-183, FileOutputStream.cpp:67, BackupRun.cpp:67-84). *)
RestoreRight ==
    Successful({"restore"}) =>
        \A line \in Final(index) : Matches(line.path) => Settled(line)

(* At every moment of a run, what was there before is still there unless   *)
(* it was asked for, or its path begins like one that was; and with -S     *)
(* even then, unless the entry is a symbolic link or is written through    *)
(* one (RestoreRun.cpp:76-95,129-176).                                     *)
ExistingStays ==
    \A n \in Node :
        \/ before[n].type = "none"
        \/ dest[n].type = before[n].type /\ dest[n].data = before[n].data
        \/ \E line \in Chosen :
               /\ line.path = n
               /\ ~opts.skipExisting \/ line.type = "S" \/ (line.type = "F" /\ before[n].type = "link")

(* The attribute of a file by which the next backup knows its content      *)
(* without reading it tells the truth, as far as the blobs do, even when   *)
(* something fails; and a run that reports no error leaves part of a file  *)
(* only where an earlier one has left it, which was interrupted or has told*)
(* so (RestoreRun.cpp:131-155,264-267, Repository.cpp:266-275).            *)
AttributeTrue ==
    \A n \in Node :
        dest[n].sha1 # "" /\ dest[n].time =>
            dest[n].data = dest[n].sha1 \/ (dest[n].data = "wrong" /\ damage.kind = "wrong")
PartialIsKnown ==
    AttributeTrue /\ (Successful({"restore"}) =>
        \A n \in Node : dest[n].data = "partial" => known /\ before[n].data = "partial")

(* After a test-restore without errors no blob that any entry needs is     *)
(* damaged, and with --quick none is missing, unless the target of a link  *)
(* has a newline: then the rest of the index file is not read              *)
(* (Repository.cpp:641-725, DirectoryFileReader.cpp:61-71).                *)
TestFindsDamage ==
    Successful({"test", "quick"}) =>
        \A i \in DOMAIN index :
            \/ index[i].type # "F" \/ ~Damaged(index[i].data)
            \/ opts.mode = "quick" /\ damage.kind # "missing"
            \/ \E j \in 1..i : index[j].type = "rest"

(* A stream without errors has a record for each entry asked for and the   *)
(* trailer, and as much follows each header as it announces, unless a file *)
(* has 4 GB or more (RestoreRun.cpp:185-253).                              *)
StreamSound ==
    Successful({"cpio", "shaback"}) =>
        /\ {output[i].path : i \in DOMAIN output} = {line.path : line \in Chosen} \cup {Root}
        /\ output[Len(output)].path = Root
        /\ \A i \in DOMAIN output :
               output[i].announced = output[i].given \/ output[i].given >= UIntRange
=============================================================================
