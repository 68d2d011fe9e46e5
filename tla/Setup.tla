------------------------------- MODULE Setup --------------------------------
(***************************************************************************)
(* How a repository comes into being and is opened, and how one of version *)
(* 2 is migrated: shaback.cpp, the first part of Repository.cpp,           *)
(* Migration.cpp and RuntimeConfig.cpp.  Any number of processes do so at  *)
(* the same time; each may die, or end by an exception, between any two    *)
(* calls that change a file.  The lock is the one that RWLock promises.    *)
(***************************************************************************)
EXTENDS Naturals, FiniteSets, Sequences, SequencesExt

CONSTANTS
    Procs,
    Here,           \* the repository that the model is about
    ConfigFiles,    \* the functions that each Lua file calls, in this order
    SystemConfig,   \* the files in conf.d and ~/.shaback.lua
    RepoLua,        \* the file repo.lua of each repository that has one
    CommandLines,   \* the options and operands of the command lines, in turn
    Digits,         \* the hexadecimal digits
    Roots,          \* the *.sroot files of a repository of version 2
    Chunks,         \* how many writes an index file takes
    MaxMishaps      \* bound: how many processes die, how many calls fail

ASSUME SetupAssumption ==
    /\ Chunks \in Nat \ {0} /\ MaxMishaps \in Nat
    /\ Digits \subseteq STRING /\ IsFiniteSet(Digits)
    /\ Range(SystemConfig) \cup Range(RepoLua) \subseteq DOMAIN ConfigFiles

VARIABLES
    dirs,       \* the directories of the repository
    props,      \* repo.properties: None, Empty, or the names that are in it
    passwd,     \* the file password: None, Empty, or what its hash is made of
    tmp,        \* for each root, whose X.shabackup.tmp there is
    shabackup,  \* for each root, whose X.shabackup there is
    content,    \* the writes that each of these files has got
    mode,       \* who holds the lock
    config,     \* what a process has been configured with
    repository, \* what it has found in repo.properties when it opened it
    left,       \* the directories it still has to make
    rootFiles,  \* the roots it still has to migrate
    rootFile,   \* the one it is at
    fd,         \* whose file it writes to
    written,    \* how many writes it has done there
    pc,
    old,        \* history: this was a repository of version 2
    unmade,     \* history: the directories that mkdir() has failed for
    contested,  \* history: two processes have created the files at the same time
    halfway,    \* history: one has died between repo.properties and password
    torn,       \* history: roots that one died at, in the file of another at work
    mishaps

local == <<config, repository, left, rootFiles, rootFile, fd, written, pc>>
disk == <<dirs, props, passwd, tmp, shabackup, content, mode>>
history == <<old, unmade, contested, halfway, torn, mishaps>>
vars == <<disk, local, history>>

RepoLock == INSTANCE RWLock

None == [version |-> "none"]
Empty == [version |-> ""]
ASSUME NamesAssumption == None \notin Procs \cup Roots

-----------------------------------------------------------------------------
(* The names on the command line and in repo.properties, one for all its   *)
(* spellings.  ZSTD5 is read back as ZSTD1, which makes no difference to   *)
(* what decompresses it.  A name that is none of these is an exception.    *)
Compressions == {"None", "Deflate", "BZip", "BZip-1", "BZip-9", "ZSTD1", "ZSTD5", "ZStd-9",
                 "Lzma-0", "Lzma-5", "Lzma-9"}
Encryptions == {"None", "Blowfish", "AES256"}
RepoFormatNames == {"", "default", "standard", "2-2", "3"}
CompressionByName(name) ==
    CASE name \in {"ZStd", "ZStd-1"} -> "ZSTD1" [] name = "ZStd-5" -> "ZSTD5"
      [] name = "BZip-5" -> "BZip" [] name = "Lzma" -> "Lzma-5"
      [] name = "" -> "None" [] OTHER -> name
CompressionToName(code) == CASE code = "ZSTD5" -> "ZStd" [] code = "ZSTD1" -> "ZStd-1" [] OTHER -> code
EncryptionByName(name) ==
    CASE name \in {"AES", "AES256"} -> "AES256" [] name = "" -> "None" [] OTHER -> name
EncryptionToName(code) == IF code = "AES256" THEN "AES" ELSE code
RepoFormatByName(name) == IF name = "3" THEN "3" ELSE "2-2"
RepoFormatToName(format) == IF format = "3" THEN "3" ELSE "2-2"
Decompressor(code) ==
    CASE code \in {"ZSTD1", "ZSTD5", "ZStd-9"} -> "ZSTD" [] code \in {"BZip", "BZip-1", "BZip-9"} -> "BZip"
      [] code \in {"Lzma-0", "Lzma-5", "Lzma-9"} -> "Lzma" [] OTHER -> code

(* What hashPassword() hashes: the password, or the key derived from it.   *)
HashPassword(encryption, password) ==
    [version |-> "password", kind |-> IF encryption = "Blowfish" THEN "plain" ELSE "derived",
     password |-> password]

(* What is written to repo.properties and what open() makes of it.  A name *)
(* that is not in the file has the value "".                               *)
Properties(version, settings) ==
    [version |-> version,
     compression |-> CompressionToName(settings.compression),
     encryption |-> EncryptionToName(settings.encryption),
     repoFormat |-> RepoFormatToName(settings.repoFormat)]
GetProperty(file, key) == IF key \in DOMAIN file THEN file[key] ELSE ""
Settings(file) ==
    [version |-> GetProperty(file, "version"),
     compression |-> CompressionByName(GetProperty(file, "compression")),
     encryption |-> EncryptionByName(GetProperty(file, "encryption")),
     repoFormat |-> RepoFormatByName(GetProperty(file, "repoFormat"))]
NoSettings == Settings(Empty)

(* The configuration.  The Lua functions set a variable or a list; one that*)
(* initLua() has not registered is an error, which ends the program.       *)
Defaults ==
    [repository |-> ".", operation |-> "", force |-> FALSE, password |-> "", dirs |-> <<>>,
     compression |-> "Deflate", encryption |-> "None", repoFormat |-> "2-2", exit |-> FALSE]
LuaFunctions == {"repository", "password", "addDir", "clearDirs"}
Set(settings, call) ==
    CASE call[1] \notin LuaFunctions -> [settings EXCEPT !.exit = TRUE]
      [] call[1] = "addDir" -> [settings EXCEPT !.dirs = Append(@, call[2])]
      [] call[1] = "clearDirs" -> [settings EXCEPT !.dirs = <<>>]
      [] OTHER -> [settings EXCEPT ![call[1]] = call[2]]
LoadConfigFile(settings, file) ==
    FoldLeft(LAMBDA c, call : IF c.exit THEN c ELSE Set(c, call), settings, ConfigFiles[file])

(* The repo.lua that is read is that of the repository that has been set   *)
(* before the options are looked at.                                       *)
Load ==
    LET system == FoldLeft(LoadConfigFile, Defaults, SystemConfig)
        dir == system.repository
    IN  IF dir \in DOMAIN RepoLua THEN LoadConfigFile(system, RepoLua[dir]) ELSE system

(* The options, and the operation as the first operand.                    *)
SetOption(settings, option) ==
    LET value == option[2]
    IN  CASE settings.exit -> settings
          [] option[1] = "config" -> LoadConfigFile(settings, value)
          [] option[1] = "encryption" ->
                 [settings EXCEPT !.encryption = EncryptionByName(value),
                                  !.exit = EncryptionByName(value) \notin Encryptions]
          [] option[1] = "compression" ->
                 [settings EXCEPT !.compression = CompressionByName(value),
                                  !.exit = CompressionByName(value) \notin Compressions]
          [] option[1] = "repoFormat" ->
                 [settings EXCEPT !.repoFormat = RepoFormatByName(value),
                                  !.exit = value \notin RepoFormatNames]
          [] OTHER -> [settings EXCEPT ![option[1]] = value]
ParseCommandlineArgs(options) == FoldLeft(SetOption, Load, options)

(* Hence whoever goes on has a compression and an encryption that exist,   *)
(* as no Lua function sets them.                                           *)
Known(settings) == settings.compression \in Compressions /\ settings.encryption \in Encryptions
ASSUME OptionsAssumption ==
    \A options \in CommandLines :
        LET c == ParseCommandlineArgs(options) IN c.exit \/ Known(c)

-----------------------------------------------------------------------------
(* The directories, each with those that it is in.  The first digits of a  *)
(* hash are the directories under files/ that the blob is in: three are one*)
(* directory, or two and two are one below the other, and each directory   *)
(* of the first level is followed by all that are in it.                   *)
TopDirs == <<<<"repo">>, <<"files">>, <<"index">>, <<"locks">>, <<"cache">>>>
Buckets(format) ==
    LET level == SetToSeq([1..2 -> Digits])
        n == Len(level)
        level0(k) == <<"files">> \o level[(k - 1) \div (n + 1) + 1]
        level1(k) == (k - 1) % (n + 1)
    IN  IF format = "3"
        THEN LET names == SetToSeq([1..3 -> Digits])
             IN  [k \in DOMAIN names |-> <<"files">> \o names[k]]
        ELSE [k \in 1..(n * (n + 1)) |->
                 IF level1(k) = 0 THEN level0(k) ELSE level0(k) \o level[level1(k)]]
ParentDir(dir) ==
    CASE dir \in Range(TopDirs) -> <<"repo">> [] Len(dir) = 5 -> SubSeq(dir, 1, 3) [] OTHER -> <<"files">>
HashValueToFile(format, hash) == <<"files">> \o SubSeq(hash, 1, IF format = "3" THEN 3 ELSE 4)

AllDirs == Range(TopDirs) \cup Range(Buckets("2-2")) \cup Range(Buckets("3"))
PropertyFiles == {None, Empty} \cup
    [version : {"2"}, compression : {"Deflate"}, encryption : {"None", "Blowfish"}] \cup
    [version : {"3"}, compression : {CompressionToName(c) : c \in Compressions},
     encryption : {EncryptionToName(c) : c \in Encryptions}, repoFormat : {"2-2", "3"}]

Dead == {"off", "ended", "dead"}
SharedAt == {"next", "write", "finish"}
ExclusiveAt == {"truncate", "rewrite", "unlockExclusive"}

(* Among the types: who holds the lock at which step.                      *)
TypeOK ==
    /\ dirs \subseteq AllDirs /\ props \in PropertyFiles
    /\ tmp \in [Roots -> Procs \cup {None}] /\ shabackup \in [Roots -> Procs \cup {None}]
    /\ content \in [Roots -> [Procs -> SUBSET (1..Chunks)]]
    /\ \A p \in Procs :
           /\ left[p] \in Seq(AllDirs) /\ rootFiles[p] \subseteq Roots /\ written[p] \in 0..Chunks
           /\ pc[p] \in {"write", "finish"} => rootFile[p] \in Roots /\ fd[p] \in Procs
           /\ pc[p] # "dead" =>
                  mode[p] = CASE pc[p] \in SharedAt -> "shared"
                              [] pc[p] \in ExclusiveAt -> "exclusive"
                              [] OTHER -> "none"
    /\ mishaps \in 0..MaxMishaps

(* An empty directory, or a repository of version 2 with its password.     *)
V2Properties(encryption) == [version |-> "2", compression |-> "Deflate", encryption |-> encryption]
Init ==
    /\ \/ old = FALSE /\ dirs \in {{}, {<<"repo">>}} /\ props = None /\ passwd = None
       \/ /\ old = TRUE /\ dirs = Range(TopDirs) \cup Range(Buckets("2-2"))
          /\ \E encryption \in {"None", "Blowfish"} :
                 /\ props = V2Properties(encryption)
                 /\ passwd = IF encryption = "None" THEN None
                             ELSE HashPassword(encryption, Load.password)
    /\ tmp = [r \in Roots |-> None] /\ shabackup = [r \in Roots |-> None]
    /\ content = [r \in Roots |-> [p \in Procs |-> {}]]
    /\ mode = [p \in Procs |-> "none"]
    /\ config = [p \in Procs |-> Defaults] /\ repository = [p \in Procs |-> NoSettings]
    /\ left = [p \in Procs |-> <<>>] /\ rootFiles = [p \in Procs |-> {}]
    /\ rootFile = [p \in Procs |-> None] /\ fd = [p \in Procs |-> None]
    /\ written = [p \in Procs |-> 0] /\ pc = [p \in Procs |-> "off"]
    /\ unmade = {} /\ contested = FALSE /\ halfway = FALSE /\ torn = {} /\ mishaps = 0

-----------------------------------------------------------------------------
Goto(p, step) == pc' = [pc EXCEPT ![p] = step]
Goes(p, from, to) == pc[p] = from /\ Goto(p, to)

(* main(): the configuration, then the operation.                          *)
Start(p) ==
    /\ pc[p] = "off"
    /\ \E options \in CommandLines :
           LET c == ParseCommandlineArgs(options)
           IN  IF c.exit THEN Goto(p, "ended") /\ UNCHANGED config
               ELSE /\ c.repository = Here
                    /\ config' = [config EXCEPT ![p] = c]
                    /\ Goto(p, IF c.operation = "init" THEN "init" ELSE "open")
    /\ UNCHANGED <<disk, repository, left, rootFiles, rootFile, fd, written, history>>

-----------------------------------------------------------------------------
(* createRepository().  Without --force only an empty directory will do.   *)
CheckEmptyDefaultFormat(p) ==
    /\ IF config[p].force \/ (dirs \subseteq {<<"repo">>} /\ props = None /\ passwd = None)
       THEN Goes(p, "init", "mkdirs") /\ left' = [left EXCEPT ![p] = TopDirs \o Buckets("2-2")]
       ELSE Goes(p, "init", "ended") /\ UNCHANGED left
    /\ UNCHANGED <<disk, config, repository, rootFiles, rootFile, fd, written, history>>

CheckEmpty(p) ==
    /\ IF config[p].force \/ (dirs \subseteq {<<"repo">>} /\ props = None /\ passwd = None)
       THEN /\ Goes(p, "init", "mkdirs")
            /\ left' = [left EXCEPT ![p] = TopDirs \o Buckets(config[p].repoFormat)]
       ELSE Goes(p, "init", "ended") /\ UNCHANGED left
    /\ UNCHANGED <<disk, config, repository, rootFiles, rootFile, fd, written, history>>

(* mkdir() of one directory, which fails if the one it is in does not      *)
(* exist.  Only for the first five anyone looks whether it has worked.     *)
Possible(dir) == dir = <<"repo">> \/ ParentDir(dir) \in dirs
MakeDir(p) ==
    /\ pc[p] = "mkdirs" /\ left[p] # <<>> /\ Possible(Head(left[p]))
    /\ dirs' = dirs \cup {Head(left[p])} /\ unmade' = unmade \ {Head(left[p])}
    /\ left' = [left EXCEPT ![p] = Tail(@)]
    /\ UNCHANGED <<props, passwd, tmp, shabackup, content, mode, config, repository, rootFiles,
                   rootFile, fd, written, pc, old, contested, halfway, torn, mishaps>>
MakeDirFails(p) ==
    /\ pc[p] = "mkdirs" /\ left[p] # <<>> /\ Head(left[p]) \notin dirs
    /\ IF Possible(Head(left[p])) THEN mishaps < MaxMishaps /\ mishaps' = mishaps + 1
       ELSE UNCHANGED mishaps
    /\ left' = [left EXCEPT ![p] = Tail(@)] /\ unmade' = unmade \cup {Head(left[p])}
    /\ Goto(p, IF Head(left[p]) \in Range(TopDirs) THEN "ended" ELSE "mkdirs")
    /\ UNCHANGED <<disk, config, repository, rootFiles, rootFile, fd, written,
                   old, contested, halfway, torn>>

(* repo.properties is looked for, opened and written.                      *)
Creating == {"openProps", "writeProps", "openPasswd", "writePasswd", "askPasswd"}
AskProps(p) ==
    /\ left[p] = <<>> /\ Goes(p, "mkdirs", IF props = None THEN "openProps" ELSE "askPasswd")
    /\ contested' = (contested \/ \E q \in Procs \ {p} : pc[q] \in Creating)
    /\ UNCHANGED <<disk, config, repository, left, rootFiles, rootFile, fd, written,
                   old, unmade, halfway, torn, mishaps>>
OpenProps(p) ==
    /\ Goes(p, "openProps", "writeProps") /\ props' = Empty
    /\ UNCHANGED <<dirs, passwd, tmp, shabackup, content, mode, history,
                   config, repository, left, rootFiles, rootFile, fd, written>>
WriteProps(p) ==
    /\ Goes(p, "writeProps", "askPasswd") /\ props' = Properties("3", config[p])
    /\ UNCHANGED <<dirs, passwd, tmp, shabackup, content, mode, history,
                   config, repository, left, rootFiles, rootFile, fd, written>>

(* The password is hashed as the options say, not as repo.properties does. *)
AskPasswd(p) ==
    /\ Goes(p, "askPasswd",
            IF config[p].encryption # "None" /\ passwd = None THEN "openPasswd" ELSE "ended")
    /\ UNCHANGED <<disk, config, repository, left, rootFiles, rootFile, fd, written, history>>
OpenPasswd(p) ==
    /\ Goes(p, "openPasswd", "writePasswd") /\ passwd' = Empty
    /\ UNCHANGED <<dirs, props, tmp, shabackup, content, mode, history,
                   config, repository, left, rootFiles, rootFile, fd, written>>
WritePasswd(p) ==
    /\ Goes(p, "writePasswd", "ended")
    /\ passwd' = HashPassword(config[p].encryption, config[p].password)
    /\ UNCHANGED <<dirs, props, tmp, shabackup, content, mode, history,
                   config, repository, left, rootFiles, rootFile, fd, written>>

-----------------------------------------------------------------------------
(* Repository::open(), of migrate and of all other operations.             *)
Supported(operation, version) == version = "3" \/ (operation = "migrate" /\ version = "2")
Open(p) ==
    /\ IF /\ Range(TopDirs) \subseteq dirs /\ props \notin {None, Empty}
          /\ Supported(config[p].operation, props.version)
       THEN /\ Goes(p, "open", "check")
            /\ repository' = [repository EXCEPT ![p] = Settings(props)]
       ELSE Goes(p, "open", "ended") /\ UNCHANGED repository
    /\ UNCHANGED <<disk, config, left, rootFiles, rootFile, fd, written, history>>

CheckPassword(p) ==
    LET encryption == repository[p].encryption
        password == config[p].password
    IN  /\ Goes(p, "check",
                IF encryption # "None" /\ (password = "" \/ passwd # HashPassword(encryption, password))
                THEN "ended"
                ELSE IF config[p].operation # "migrate" THEN "using"
                ELSE IF repository[p].version = "3" THEN "ended" ELSE "lock")
        /\ UNCHANGED <<disk, config, repository, left, rootFiles, rootFile, fd, written, history>>

Use(p) ==
    /\ Goes(p, "using", "ended")
    /\ UNCHANGED <<disk, config, repository, left, rootFiles, rootFile, fd, written, history>>

-----------------------------------------------------------------------------
(* migrate2to3().  A lock that cannot be had is an exception.              *)
LockShared(p) ==
    /\ \/ RepoLock!AcquireShared(p) /\ Goes(p, "lock", "next") /\ rootFiles' = [rootFiles EXCEPT ![p] = Roots]
       \/ /\ (\E q \in Procs : mode[q] = "exclusive") /\ Goes(p, "lock", "ended")
          /\ UNCHANGED <<mode, rootFiles>>
    /\ UNCHANGED <<dirs, props, passwd, tmp, shabackup, content, history,
                   config, repository, left, rootFile, fd, written>>

SkipRoot(p) ==
    /\ pc[p] = "next"
    /\ \E r \in rootFiles[p] :
           shabackup[r] # None /\ rootFiles' = [rootFiles EXCEPT ![p] = @ \ {r}]
    /\ UNCHANGED <<disk, config, repository, left, rootFile, fd, written, pc, history>>

(* ShabackOutputStream::open(): X.shabackup.tmp is emptied if it is there, *)
(* even when another migration is writing to it.                           *)
OpenIndexFileInPlace(p) ==
    /\ Goes(p, "next", "write")
    /\ \E r \in rootFiles[p] :
           /\ shabackup[r] = None
           /\ shabackup' = [shabackup EXCEPT ![r] = p] /\ content' = [content EXCEPT ![r][p] = {}]
           /\ fd' = [fd EXCEPT ![p] = p] /\ rootFile' = [rootFile EXCEPT ![p] = r]
    /\ written' = [written EXCEPT ![p] = 0]
    /\ UNCHANGED <<dirs, props, passwd, tmp, mode, history, config, repository, left, rootFiles>>

OpenIndexFile(p) ==
    /\ Goes(p, "next", "write")
    /\ \E r \in rootFiles[p] :
           LET file == IF tmp[r] = None THEN p ELSE tmp[r]
           IN  /\ shabackup[r] = None
               /\ tmp' = [tmp EXCEPT ![r] = file] /\ content' = [content EXCEPT ![r][file] = {}]
               /\ fd' = [fd EXCEPT ![p] = file] /\ rootFile' = [rootFile EXCEPT ![p] = r]
    /\ written' = [written EXCEPT ![p] = 0]
    /\ UNCHANGED <<dirs, props, passwd, shabackup, mode, history,
                   config, repository, left, rootFiles>>

(* migrate2to3int(): the entries of the tree files go where the file       *)
(* descriptor points.  All migrations write the same.                      *)
WriteEntries(p) ==
    /\ pc[p] = "write"
    /\ content' = [content EXCEPT ![rootFile[p]][fd[p]] = @ \cup {written[p] + 1}]
    /\ written' = [written EXCEPT ![p] = @ + 1]
    /\ Goto(p, IF written'[p] = Chunks THEN "finish" ELSE "write")
    /\ UNCHANGED <<dirs, props, passwd, tmp, shabackup, mode, history,
                   config, repository, left, rootFiles, rootFile, fd>>

(* finish(): nobody looks whether rename() has worked.                     *)
FinishIndexFile(p) ==
    LET r == rootFile[p]
    IN  /\ Goes(p, "finish", "next")
        /\ IF tmp[r] = None THEN UNCHANGED <<tmp, shabackup>>
           ELSE shabackup' = [shabackup EXCEPT ![r] = tmp[r]] /\ tmp' = [tmp EXCEPT ![r] = None]
        /\ rootFiles' = [rootFiles EXCEPT ![p] = @ \ {r}]
        /\ UNCHANGED <<dirs, props, passwd, content, mode, history,
                       config, repository, left, rootFile, fd, written>>

UnlockSharedForgotten(p) ==
    /\ rootFiles[p] = {} /\ Goes(p, "next", "lockExclusive")
    /\ UNCHANGED <<disk, history, config, repository, left, rootFiles, rootFile, fd, written>>

UnlockShared(p) ==
    /\ rootFiles[p] = {} /\ Goes(p, "next", "lockExclusive") /\ RepoLock!Release(p)
    /\ UNCHANGED <<dirs, props, passwd, tmp, shabackup, content, history,
                   config, repository, left, rootFiles, rootFile, fd, written>>

(* updateRepoVersion(): the lock again, and the file is emptied and written.*)
LockExclusive(p) ==
    /\ \/ RepoLock!AcquireExclusive(p) /\ Goes(p, "lockExclusive", "truncate")
       \/ /\ (\E q \in Procs : mode[q] # "none") /\ Goes(p, "lockExclusive", "ended")
          /\ UNCHANGED mode
    /\ UNCHANGED <<dirs, props, passwd, tmp, shabackup, content, history,
                   config, repository, left, rootFiles, rootFile, fd, written>>
TruncateProps(p) ==
    /\ Goes(p, "truncate", "rewrite") /\ props' = Empty
    /\ UNCHANGED <<dirs, passwd, tmp, shabackup, content, mode, history,
                   config, repository, left, rootFiles, rootFile, fd, written>>
RewriteProps(p) ==
    /\ Goes(p, "rewrite", "unlockExclusive") /\ props' = Properties("3", repository[p])
    /\ UNCHANGED <<dirs, passwd, tmp, shabackup, content, mode, history,
                   config, repository, left, rootFiles, rootFile, fd, written>>
UnlockExclusive(p) ==
    /\ Goes(p, "unlockExclusive", "ended") /\ RepoLock!Release(p)
    /\ UNCHANGED <<dirs, props, passwd, tmp, shabackup, content, history,
                   config, repository, left, rootFiles, rootFile, fd, written>>

-----------------------------------------------------------------------------
(* A crash, a signal, or an exception, after which migrate does not        *)
(* unlock; and somebody who removes what it has left in locks/.            *)
Die(p) ==
    LET r == rootFile[p]
        other(q) == q # p /\ pc[q] \in {"write", "finish"} /\ rootFile[q] = r /\ fd[q] = fd[p]
    IN  /\ pc[p] \notin Dead \cup {"using"} /\ Goto(p, "dead")
        /\ mishaps < MaxMishaps /\ mishaps' = mishaps + 1
        /\ halfway' = (halfway \/ pc[p] \in {"askPasswd", "openPasswd", "writePasswd"})
        /\ torn' = IF /\ pc[p] \in {"write", "finish"} /\ fd[p] # p
                      /\ shabackup[r] = fd[p] \/ \E q \in Procs : other(q)
                   THEN torn \cup {r} ELSE torn
        /\ UNCHANGED <<disk, config, repository, left, rootFiles, rootFile, fd, written,
                       old, unmade, contested>>
CleanLocks(p) ==
    /\ pc[p] = "dead" /\ RepoLock!Release(p)
    /\ UNCHANGED <<dirs, props, passwd, tmp, shabackup, content, local, history>>

Create(p) ==
    \/ CheckEmpty(p) \/ MakeDir(p) \/ MakeDirFails(p) \/ AskProps(p) \/ OpenProps(p) \/ WriteProps(p)
    \/ AskPasswd(p) \/ OpenPasswd(p) \/ WritePasswd(p)
Migrate(p) ==
    \/ LockShared(p) \/ SkipRoot(p) \/ OpenIndexFile(p) \/ WriteEntries(p) \/ FinishIndexFile(p)
    \/ UnlockShared(p) \/ LockExclusive(p) \/ TruncateProps(p) \/ RewriteProps(p) \/ UnlockExclusive(p)
Next ==
    \E p \in Procs :
        \/ Start(p) \/ Create(p) \/ Open(p) \/ CheckPassword(p) \/ Use(p) \/ Migrate(p)
        \/ Die(p) \/ CleanLocks(p)

Spec == Init /\ [][Next]_vars

-----------------------------------------------------------------------------
Opened == props \notin {None, Empty}
Reading == {p \in Procs : pc[p] \notin Dead \cup {"init", "mkdirs", "open"} \cup Creating}

(* Whenever a repository can be opened, there is a place for every blob,   *)
(* but in directories that mkdir() has failed for (shaback.cpp:92-133,     *)
(* Repository.cpp:216-252).                                                *)
DirsComplete ==
    Opened =>
        /\ Range(TopDirs) \subseteq dirs
        /\ \A hash \in [1..4 -> Digits] :
               HashValueToFile(Settings(props).repoFormat, hash) \in dirs \cup unmade

(* All processes that have it open agree with repo.properties on how its   *)
(* files are packed and where they are (Repository.cpp:68-106,             *)
(* Migration.cpp:126-141).                                                 *)
Agreement ==
    Opened => \A p \in Reading :
        LET own == repository[p]
            its == Settings(props)
        IN  /\ own.encryption = its.encryption /\ own.repoFormat = its.repoFormat
            /\ Decompressor(own.compression) = Decompressor(its.compression)

(* An encrypted one has a hash of the password that fits (shaback.cpp:135).*)
PasswordFits ==
    LET encryption == Settings(props).encryption
    IN  Opened /\ encryption # "None" /\ (\A p \in Procs : pc[p] \notin Creating) =>
            /\ passwd \notin {None, Empty}
            /\ passwd = HashPassword(encryption, passwd.password)

(* As long as no two processes create it at the same time, and none dies   *)
(* between the two files, a repository opens to all alike.                 *)
OpensAlike == DirsComplete /\ (contested \/ Agreement) /\ (contested \/ halfway \/ PasswordFits)

(* In a repository of version 3 that was one of version 2, each root file  *)
(* has its index file, and all of it: whichever migrations ran, together   *)
(* or one after the other, and wherever they died, unless one did so while *)
(* it wrote to the same file as another one (Migration.cpp:54-141).        *)
MigratesAll ==
    old /\ Opened /\ props.version = "3" =>
        \A r \in Roots \ torn : shabackup[r] # None /\ content[r][shabackup[r]] = 1..Chunks
=============================================================================
