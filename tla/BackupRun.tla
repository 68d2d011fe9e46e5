----------------------------- MODULE BackupRun -----------------------------
(***************************************************************************)
(* The walk of a backup over the file system, src/src/BackupRun.cpp, while *)
(* others change it: one action for each call of lstat(), for each listing *)
(* of a directory, readlink() and storeFile().  The recursion of           *)
(* handleDirectory() is a stack of the directories it is in.  Storing      *)
(* itself is the subject of the modules Repository and BlobStore.          *)
(***************************************************************************)
EXTENDS IndexFile

CONSTANTS
    Cases,      \* the file systems, options and lists of directories to begin with
    Device,     \* the device each path is on
    OddNames,   \* paths with a tab, a newline or a carriage return
    Unreadable  \* directories and files that cannot be opened

(* A file: its type and its content, or the target of a link.              *)
SourceFiles ==
    [type : {"none", "dir", "other"}, data : {""}] \cup [type : {"file"}, data : Contents]
    \cup [type : {"link"}, data : Seq(Pieces) \ {<<>>}]

ASSUME PathsAssumption ==
    /\ OddNames \subseteq Node /\ Unreadable \subseteq Node
    /\ DOMAIN Device = Node /\ "new" \in Contents
    /\ \A case \in Cases :
           /\ case.source \in [Node -> SourceFiles] /\ IsTree(case.source) /\ case.dirs \in Seq(Node)
           /\ case.config \in [oneFileSystem : BOOLEAN, exclude : SUBSET Node, ignoreNames : BOOLEAN]

VARIABLES
    source,     \* the file system: type and content of each path
    touched,    \* history: the paths that have been changed during the walk
    config,     \* oneFileSystem, excludePatterns, ignoreErrors "invalid-filename"
    dirs,       \* config.dirs
    dirsDone,   \* how many of them have been taken
    stack,      \* the directories being walked: what is left of their listing
    child,      \* the file in hand, as its lstat() has shown it
    shabackup,  \* the index file
    backupError,\* numErrors is not 0
    backupPc

bvars == <<source, touched, config, dirs, dirsDone, stack, child, shabackup, backupError, backupPc>>

None == [type |-> "none", data |-> ""]
NoChild == [path |-> Root, type |-> "none"]
SourceTypes == {"none", "dir", "file", "link", "other"}

BackupTypeOK ==
    /\ source \in [Node -> SourceFiles] /\ IsTree(source)
    /\ touched \subseteq Node
    /\ dirsDone \in 0..Len(dirs)
    /\ stack \in Seq([path : Node, files : SUBSET Node])
    /\ \A i \in DOMAIN stack : \A n \in stack[i].files : Parent[n] = stack[i].path
    /\ child.path \in Node \cup {Root} /\ child.type \in SourceTypes
    /\ shabackup \in Seq(Lines)
    /\ backupError \in BOOLEAN
    /\ backupPc \in {"next", "handle", "done", "nothing", "panicked"}

BackupInit ==
    /\ \E case \in Cases : source = case.source /\ config = case.config /\ dirs = case.dirs
    /\ touched = {} /\ dirsDone = 0
    /\ stack = <<>> /\ child = NoChild /\ shabackup = <<>> /\ backupError = FALSE
    /\ backupPc = IF dirs = <<>> THEN "nothing" ELSE "next"

-----------------------------------------------------------------------------
(* Files are created, removed, changed and replaced by others, as the user *)
(* goes on working.  A new directory is empty.                             *)
Change(n) ==
    /\ Parent[n] # Root => source[Parent[n]].type = "dir"
    /\ \E type \in {"none", "file", "dir"} :
           source' = [m \in Node |->
                  IF m = n THEN [type |-> type, data |-> IF type = "file" THEN "new" ELSE ""]
                  ELSE IF m \in Beneath(n) THEN None ELSE source[m]]
    /\ source'[n] # source[n]
    /\ touched' = touched \cup {n} \cup Beneath(n)
    /\ UNCHANGED <<config, dirs, dirsDone, stack, child, shabackup, backupError, backupPc>>

-----------------------------------------------------------------------------
Top == Head(stack)

(* File::refresh(): what lstat() shows stays, whatever happens to the file.*)
Lstat(n) ==
    /\ child' = [path |-> n, type |-> source[n].type]
    /\ backupPc' = "handle"

(* The loop of run() over the files and directories to back up.            *)
NextDir ==
    /\ backupPc = "next" /\ stack = <<>> /\ dirsDone < Len(dirs)
    /\ Lstat(dirs[dirsDone + 1]) /\ dirsDone' = dirsDone + 1
    /\ UNCHANGED <<source, touched, config, dirs, stack, shabackup, backupError>>

(* The loop of handleDirectory(), in the order readdir() has given.        *)
NextChildKept ==
    /\ backupPc = "next" /\ stack # <<>>
    /\ \E n \in Top.files :
           IF n \in config.exclude THEN UNCHANGED <<stack, child, backupPc>>
           ELSE stack' = [stack EXCEPT ![1].files = @ \ {n}] /\ Lstat(n)
    /\ UNCHANGED <<source, touched, config, dirs, dirsDone, shabackup, backupError>>

NextChild ==
    /\ backupPc = "next" /\ stack # <<>>
    /\ \E n \in Top.files :
           /\ stack' = [stack EXCEPT ![1].files = @ \ {n}]
           /\ IF n \in config.exclude THEN UNCHANGED <<child, backupPc>> ELSE Lstat(n)
    /\ UNCHANGED <<source, touched, config, dirs, dirsDone, shabackup, backupError>>

LeaveDirectory ==
    /\ backupPc = "next" /\ stack # <<>> /\ Top.files = {}
    /\ stack' = Tail(stack)
    /\ UNCHANGED <<source, touched, config, dirs, dirsDone, child, shabackup, backupError, backupPc>>

ReportError == backupError' = TRUE /\ UNCHANGED shabackup
WriteLines(lines) == shabackup' = shabackup \o lines /\ UNCHANGED backupError

Handled(type) ==
    /\ backupPc = "handle" /\ child.type = type
    /\ backupPc' = "next" /\ child' = NoChild
    /\ UNCHANGED <<source, touched, config, dirs, dirsDone>>

(* fileNameOk()                                                            *)
IgnoreName == backupError' = (backupError \/ ~config.ignoreNames) /\ UNCHANGED shabackup

(* A file that does not exist is an error in run(), but a child that has   *)
(* vanished is none; nor are devices and the like.                         *)
HandleNone ==
    /\ Handled("none")
    /\ IF stack = <<>> THEN ReportError ELSE UNCHANGED <<shabackup, backupError>>
    /\ UNCHANGED stack
HandleOther == Handled("other") /\ UNCHANGED <<stack, shabackup, backupError>>

(* readlink() fails when the link has been replaced.                       *)
Readlink(n) == IF source[n].type = "link" THEN source[n].data ELSE <<>>
HandleSymlink ==
    /\ Handled("link")
    /\ LET n == child.path
       IN  IF n \in OddNames THEN IgnoreName
           ELSE IF Readlink(n) = <<>> THEN ReportError
           ELSE WriteLines(SymlinkLines(n, Readlink(n)))
    /\ UNCHANGED stack

(* storeFile() reads what is there now, and throws if it cannot.           *)
HandleFile ==
    /\ Handled("file")
    /\ LET n == child.path
       IN  IF n \in OddNames THEN IgnoreName
           ELSE IF source[n].type # "file" \/ n \in Unreadable THEN ReportError
           ELSE WriteLines(FileLine(n, source[n].data))
    /\ UNCHANGED stack

(* listFiles(): empty when the directory cannot be opened (any more).      *)
ListFiles(n) ==
    IF source[n].type = "dir" /\ n \notin Unreadable
    THEN {m \in Node : Parent[m] = n /\ source[m].type # "none"}
    ELSE {}

SkipChildrenElsewhere(n) == config.oneFileSystem /\ Device[dirs[1]] # Device[n]

SkipChildren(n) ==
    config.oneFileSystem /\ stack # <<>> /\ Device[Top.path] # Device[n]

HandleDirectory ==
    /\ Handled("dir")
    /\ LET n == child.path
       IN  IF n \in OddNames THEN IgnoreName /\ UNCHANGED stack
           ELSE /\ WriteLines(DirectoryLine(n))
                /\ stack' = <<[path |-> n,
                               files |-> IF SkipChildren(n) THEN {} ELSE ListFiles(n)]>> \o stack

(* finish() and the return of run()                                        *)
FinishBackup ==
    /\ backupPc = "next" /\ stack = <<>> /\ dirsDone = Len(dirs)
    /\ backupPc' = "done"
    /\ UNCHANGED <<source, touched, config, dirs, dirsDone, stack, child, shabackup, backupError>>

(* The callbacks before the backup, and as a directory is entered and left.*)
(* Nothing catches an error in one of them: Lua aborts the program, which  *)
(* does not unlock, and there is no index file.                            *)
CallbackFails ==
    /\ \/ backupPc = "next" /\ stack = <<>> /\ dirsDone = 0
       \/ backupPc = "next" /\ stack # <<>> /\ Top.files = {}
       \/ backupPc = "handle" /\ child.type = "dir" /\ child.path \notin OddNames
    /\ backupPc' = "panicked"
    /\ UNCHANGED <<source, touched, config, dirs, dirsDone, stack, child, shabackup, backupError>>

Walk ==
    \/ NextDir \/ NextChild \/ LeaveDirectory
    \/ HandleNone \/ HandleOther \/ HandleSymlink \/ HandleFile \/ HandleDirectory
    \/ FinishBackup

-----------------------------------------------------------------------------
(* What is to be backed up: all below the files and directories given that *)
(* is not excluded, not on another file system, and can be listed.         *)
Listed(d, top) ==
    /\ source[d].type = "dir" /\ d \notin Unreadable \cup OddNames
    /\ d # top /\ config.oneFileSystem => Device[d] = Device[Parent[d]]
Wanted(n) ==
    /\ source[n].type \in {"dir", "file", "link"} /\ n \notin OddNames
    /\ \E top \in Within(n) \cap Range(dirs) :
           \A m \in Within(n) : top \in Above[m] => m \notin config.exclude /\ Listed(Parent[m], top)

LineOf(n) ==
    IF source[n].type = "dir" THEN Head(DirectoryLine(n))
    ELSE IF source[n].type = "file" THEN Head(FileLine(n, source[n].data))
    ELSE Head(SymlinkLines(n, source[n].data))

(* Whatever changes during the walk, and however the lists of directories, *)
(* patterns and devices overlap: what stays as it is gets into the index   *)
(* file if and only if it is wanted, with the content that it has; but     *)
(* after errors something may be missing (BackupRun.cpp:67-90,119-160).    *)
BackupExact ==
    backupPc = "done" =>
        /\ \A i \in DOMAIN shabackup :
               LET n == shabackup[i].path
               IN  shabackup[i].type # "rest" /\ n \notin touched =>
                       Wanted(n) /\ shabackup[i] = LineOf(n)
        /\ ~backupError =>
               \A n \in Node \ touched : Wanted(n) => LineOf(n) \in Range(shabackup)
=============================================================================
