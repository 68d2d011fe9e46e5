# A verification development for shaback

shaback is a command-line backup program. A *repository* is a directory that
any number of executions of the program, on any number of hosts, work on at
the same time; all they share is its files. This directory holds TLA+ models
of what those executions do to the repository and to the files they back up and
restore, the TLC configurations that check them on small instances, and proofs
of results about the lock, the blobs and index files, the streams, the creation,
opening and migration of repositories, and the retention of old backups for every
value of the constants.

Source paths below are relative to the root of the repository.

## 1. Inventory

| Component | State | Operations | What is hard, and what makes it correct |
|---|---|---|---|
| Repository lock (`src/src/Repository.cpp:129-195`, `RuntimeConfig.cpp:528-542`, `main.cpp:216-249`) | `locks/<name>-<pid>.lock` per process, the symbolic link `locks/lock`; `lockCount`, `haveExclusiveLock` in each process | `lock(exclusive)`, `unlock(force)`, destructors, `interruptHandler` | Four system calls of several processes interleave; exceptions, signals and crashes in between. An exclusive holder is alone; what has ended holds nothing; nobody is refused by the dead |
| Blob store (`Repository.cpp:254-430`, `ShabackOutputStream.cpp`) | `files/<hash>`, `files/<hash>_s`, `*.tmp`; extended attributes of source files | `contains`, `storeFile`, `storeSplitFile` | Source files change while they are read; two backups write one blob; the order of blocks, list and attribute. What is under a hash has that hash |
| Write cache (`Repository.cpp:475-521,904-912`) | `cache/<date>.scache`; `writeCache` in memory | `importCacheFile`, `exportCacheFile`, `removeAllCacheFiles` | It is a copy of which blobs exist, used later than it is read. It never names a blob that is gone |
| Backup (`Repository.cpp:197-214`, `BackupRun.cpp`) | the index file being written; the recursion over directories | `backup`, `run`, `handleDirectory`, `handleFile`, `handleSymlink` | Import, lock, store, index, expire and export in order; may end anywhere. Files change between `lstat()`, listing and reading. A finished index file says what was there, and is restorable |
| Garbage collection (`GarbageCollection.cpp`) | marks (in `writeCache`), errors | `run`, `processShabackupFile`, `keepSplitFileBlocks`, `removeUnusedFiles` | Removes what no index file reaches, and only that, also when interrupted |
| Retention (`Repository.cpp:973-1093`) | index files of one backup name | `deleteOldIndexFiles` | Windows of days, weeks and months over repeated runs; keeps what it promises |
| Prune, History (`Prune.cpp`, `History.cpp`) | index files | `run`, `keep` | Exclusive lock; only index files go |
| Restore, test-restore, list-files (`RestoreRun.cpp`, `Repository.cpp:524-760,932-970`) | destination files; records on standard output; errors | `start`, `restore`, `restoreMetaData`, `restoreAsCpioStream`, `restoreAsShabackStream`, `testRestore` | Runs beside backups that expire index files; failures in the middle of a file; what an earlier run has left; existing files in the way. Who is told of no error has got what was backed up |
| Migration (`Migration.cpp`) | `index/*.sroot`, `index/*.shabackup`, `repo.properties` | `run`, `migrate2to3`, `updateRepoVersion` | Two locks with a gap between them; migrations that write the same temporary file; ends in between. A repository of version 3 has all of its index files |
| Index file format (`TreeFileEntry.cpp`, `DirectoryFileReader.cpp`, `SplitFileIndexReader.cpp`) | a line of text per entry | `next`, `toString` | Errors, short lines and end of file look alike. What is written is read again |
| Streams (`ShabackOutputStream.cpp`, `ShabackInputStream.cpp`, `src/src/lib`) | buffers of compressors, ciphers and readers | `write`, `finish`, `close`, `read`, `copyTo`, `fill` | Chunks, blocks and buffers of different sizes; 0 bytes are not the end. What was written comes back, and reading ends |
| Repository creation and opening (`shaback.cpp:45-147`, `Repository.cpp:54-127`, `lib/Properties.cpp`) | directories, `repo.properties`, the password file | `createRepository`, `open`, `checkPassword` | No lock; two files written one after the other, from options that may differ in a second attempt. All who open it agree on how and where files are stored |
| Configuration, callbacks (`RuntimeConfig.cpp`) | options | `load`, `parseCommandlineArgs`, Lua functions and callbacks | Lua files of the system, the user and a repository, then the command line, in this order; errors in Lua end the program |
| Container (`docker-entrypoint.sh`) | | runs `init`, removes `locks/*`, starts cron | assumes to be alone; an interrupted `init` |
| `show`, gdbm cache, VisiChunk, Python prototype, GUI, Perl recovery | | | read only, unused or separate programs |

Interaction is through the files alone. Every operation but `init`, `deflate` and
`inflate` first makes a `Repository`, and locks it (backup, restore and history
shared; gc, prune and history `--keep` exclusively; migrate shared, then
exclusively); the lock is released by the destructor of the operation, by the
signal handler, or never.

## 2. Modules

| Module | What it is |
|---|---|
| `RWLock` | The readers-writer lock: what `Repository.h:74-84` promises. |
| `RepoLock` | The lock directory: one action per system call of `lock()` and `unlock()`, and all the ways a process can end. Implements `RWLock`. |
| `RepoLockProofs` | Proofs about `RepoLock`. |
| `MCRepoLock` | The processes that TLC runs `RepoLock` with. |
| `Repository` | Backup, gc, prune, restore over the blobs, index files and cache files of a repository, with `RWLock` as their lock. |
| `RepositoryProofs` | Proofs about `Repository`. |
| `MCRepository` | The contents and processes that TLC runs `Repository` with. |
| `BlobStore` | `storeFile()` read by read and write by write: temporary files, renames, attributes; files that change, backups that are killed or overlap. In `Repository` this is the one step `StoreFile`. |
| `BlobStoreProofs` | Proofs about `BlobStore`. |
| `MCBlobStore` | The symmetry that TLC runs `BlobStore` with. |
| `Retention` | `deleteOldIndexFiles()` run after run for months. |
| `RetentionProofs` | Proofs about `Retention`. |
| `Streams` | A file of the repository from its first `write()` to its last `read()`. |
| `StreamsProofs` | Proofs about `Streams`. |
| `MCStreams` | The combinations of streams that TLC runs `Streams` with. |
| `IndexFile` | The tree of files, and the index file that describes it: the lines that are written and what is read of them. |
| `BackupRun` | The walk of a backup over files that others change. |
| `RestoreRun` | Runs of restore, cpio and shaback streams, test-restore and list-files over an index file. |
| `RoundTrip` | Composes `BackupRun` and `RestoreRun`: from the files to an index file and back. |
| `RoundTripProofs` | Proofs about `BackupRun`, `RestoreRun` and `RoundTrip`. |
| `MCRoundTrip` | The trees, options, obstacles and damages that TLC runs `RoundTrip` with. |
| `Setup` | `init`, opening and `migrate` by several processes at once, with `RWLock` as their lock; the configuration they read. |
| `SetupProofs` | Proofs about `Setup`: the lock, migration. |
| `OpenProofs` | Proofs about `Setup`, over those of `SetupProofs`: a repository opens to all alike; types. |
| `MCSetup` | The command lines and Lua files that TLC runs `Setup` with. |

### RepoLock

A process `p` is one execution of the program. `Program[p]` lists its calls of
`lock()` and `unlock()`: `<<"shared", "unlock">>` for a backup, restore or list;
`<<"exclusive", "unlock">>` for gc and prune; shared, unlock, exclusive, unlock
for migrate; and for `test-restore --all` a lock for each index file
(`Repository.cpp:552-603`). `Unlocks[p]` tells which failures its owner unlocks:
`"destructor"` for the classes that call `unlock()` in their destructor and
`lock()` in a method, `"constructor"` for RestoreRun, which calls `lock()` in its
constructor (`RestoreRun.cpp:39`) so that a refused lock is not unlocked, and
`"never"` for Migration.

`lock()` is `CreateLockFile` (lines 140-142), `MakeSymlink` (145-155), then
`MarkExclusive` (158) and `CountLocks` (161-166, 180), or `DropSymlink` (168,
180); with `-L`, `CheckExclusiveLock` (171-177, 180); and `LockAgain` when it is
reentrant (131-136). `unlock()` is `Unlock` and `FinishUnlock`, or `UnwindUnlock`
and `Exit` from a destructor, or `HandlerUnlock` and `Exit` from
`interruptHandler`: one action for each of its two `unlink()` calls.
`WorkFails`, `Interrupt`, `Crash` end a process; `ClearLocks` is the container
start, which removes `locks/*` while no other process is at work.

`CountLocks` is one step although `listFiles` is a loop of `readdir()`. That
loses nothing the properties tell apart: what it must not miss is the file of a
process that holds a lock, and that file is there during the whole loop; whether
it also sees one that comes or goes meanwhile only decides a refusal.

### Repository

`files` is the set of blobs under `files/`; a blob is the hash it is stored under.
A source file is either plain, one blob, or split: `Lists`, with `Blocks[l]`,
the blobs that its list blob `<hash>_s` names. `attrs` is the set of source
files with a current `user.shaback.sha1`: for a plain file it only saves
computing the hash and has no effect on the repository, so that only split
files are kept in it. `indexFiles`, `entries`, `cacheFiles` and `cached` are the
files in `index/` and `cache/`; `writeCache`, `todo`, `list`, `blocks` and
`startDate` belong to a process. A backup is
`Start, ImportCacheFile, LockBackup`, then for each file `StoreFile`, or
`SkipSplitFile`, or `OpenSplitFile, StoreBlock..., StoreList`; or
`SkipUnreadable`; then `FinishIndexFile, DeleteOldIndexFiles, CreateCacheFile,
FillCacheFile, Unlock`. gc is `Start, LockGC, MarkIndexFile...`, then `BailOut`,
or `FinishMark, RemoveCacheFile..., RemoveUnusedFile..., CreateCacheFile,
FillCacheFile, Unlock`. `Stop` ends a process at any step: refused, failed,
interrupted or killed. (A killed process keeps its lock file: then nobody gets an
exclusive lock until somebody removes it, which is a subset of the behaviours
in which the lock is free.)

Two things are restricted in the passing run, by the constants `GCDuringImport` and
`SweepInterrupted`, because the code does not keep its promise without them.
`repository_import` shows the first. The other is a setting of `repository.cfg`:
with `SweepInterrupted = TRUE` TLC finds `BackupSound` violated, a list without its
blocks that a backup trusts because of the attribute of the unchanged file.

Left out: the recursion over directories and its exclude patterns (the set
`Source[b]` is what `BackupRun` yields); symbolic links and directories, which are
lines of the index file only; a backup without any directory to back up, which
writes a cache file and no index file; `--force`. What `BlobStore` and
`Retention` look into is one step here: storing a file, and the expiry, which
may take any set of older index files.

### BlobStore

A content is a pair of chunks and is its own hash, so that a file that changes
between two reads can give a mixture. `storeFile()` is `AskAttributes`
(`Repository.cpp:266-275`), `Hash` for each read of the first pass (286-294),
`SetSha1` and `SetMtime` (296-297), `AskContains` (299-311), `Open` of `<hash>.tmp`
(313), `Copy` for each read and write of the second pass (316-324), `Rename`
(329), `Compare` (326-339), `Move` (340). `Look` is the `lstat()` of the child in
`handleDirectory()`, whose mtime class `File` keeps; `Finish` the rename of the
index file; `Collect` an expiry followed by a gc while nothing else runs
(`Repository` covers what may run beside a gc). One step each are the two
`getXAttr()` calls with `contains()` (266-271), and the two `removeXAttr()` calls.

A temporary file and a blob are names of an inode: `open()` with `O_TRUNC`
empties the inode that another backup is writing, and after a `rename()` both
write to the blob itself. A write goes to the place of its chunk, as each file
descriptor has its own offset.

Files change and backups are killed at any moment, also while backups overlap. There
the code gives no guarantee, and the properties say where. Two variables of history
record it, which no action asks:

- `raced`: files whose attributes two backups have set across each other since the
  last change. A backup that looked before a change and one that looked after it
  call `setXAttr()` twice each (`Repository.cpp:296-297`); if the old hash comes
  after the new one and the new mtime last, the old hash is current (`blob_race`).
- `astray`: hashes at which a backup met another one (`Meets`: both store that hash, or
  one has it in its entries) and read something else in its second pass (`Misled`), or
  at which one of them was killed (`Left`); and what is moved from there (`Moved`). A
  misled backup moves the blob away that another one refers to, and the index file
  of that names a blob that is not there (the shortest history has two backups, a
  single file and one change); one that is killed after it has emptied a
  temporary file leaves it to the other one, which renames it. A gc that removes
  everything of the name makes it sound again.

A backup that does not meet another at a hash is not exempt: whatever changes
under it or kills it, its hash never becomes `astray`.

Left out: a change that leaves the mtime as it is (the attribute has seconds).

### Retention

An index file is its date. Dates are UTC in the code, so that a day always has
the same length, `Day` time units. `Windows` are the intervals that the three
loops of lines 1002-1069 step through, written down in closed form; `Excess` is
all but the oldest in a window, since `pop_back()` spares the last of a list
that goes from the latest to the oldest. `Backup` adds its file and computes what
goes; `Delete` removes one, the latest first; `Stop` is an end in between; `Wait`
lets time pass. One backup a day is due; `MaxMishaps` bounds how often one is
missed, late, made in addition, or interrupted in its expiry.

### Streams

`stack` says which cipher, which compressor and which reader: `copyTo()`, which
restores a file, or `BufferedReader`, which reads index files and block lists.
The unit is one Blowfish block, half an AES block. Nothing is reordered, so that
counting suffices: `packed[i]` is how much plain text can be had from the first
`i` compressed units; `plain`, `file`, `fileRead`, `fed`, `consumed` and `got`
count. `Write` may make a compressor give out anything from nothing to a block;
`Close` is `finish()` of all of them; `CopyTo` and `Fill` are one `read(b, 8192)`
through the whole stack, with the result the code returns: a count, 0, `EOF` or
an exception.

The external libraries are modelled by what the code relies on: OpenSSL encrypts
whole blocks, pads at the end and keeps the last block until it knows that it
is not padding; zlib and LZMA give out output as they go, bzip2 and zstd block by
block; decompressors take all input unless the output is full, and keep the end
of the stream until all has been fetched.

`Deflate` and `Inflate` are the two operations of `shaback.cpp:149-195`, which
copy standard input to standard output: `Inflate` reads through `StandardRead`,
whose `fread()` gives less than was asked for only at the end of a file, and
stops at the first read that returns -1.

### IndexFile

A path is a node of a tree (`Parent`, `Above`), an entry a line: a type, a path and
the content or target. Only the targets of symbolic links are taken apart, because
only they may contain what the format is made of: a target is the sequence of
pieces between its newlines, and a piece is empty, too short for an entry, long
enough, or altered by being read (a tab, a carriage return). `DirectoryLine`,
`FileLine`, `SymlinkLines` are what `BackupRun` writes; `ReadLine`, `ParseEntry`,
`NextEntry` are `InputStream::readLine()`, the constructor of `TreeFileEntry` and
`DirectoryFileReader::next()`. A rest that happens to look like an entry (it begins
with a type, and has tabs and numbers where these belong,
`TreeFileEntry.cpp:30-114`) is read as one by the code; here it is invalid, as a
rest that is long enough is in all other cases. Names of files have no such
characters: `fileNameOk()` refuses them (`OddNames`).

### BackupRun

`source` is the file system, which `Change` may alter at any time; `touched`
remembers what it has altered. The recursion of `handleDirectory()` is `stack`, the
directories it is in with what is left of their listings. `NextDir` is the loop of
`run()`, `NextChild` the one of `handleDirectory()` with the exclude patterns; both
make a `File`, that is call `lstat()`, and keep what it shows in `child`.
`HandleDirectory`, `HandleFile`, `HandleSymlink`, `HandleOther` and `HandleNone` use
what is there then: between the two the file may have been replaced.
`CallbackFails` is an error in one of the Lua callbacks, which nothing protects
(`RuntimeConfig.cpp:578-610`). Storing itself is one step, as is the listing of a
directory: `Repository` and `BlobStore` look into the former.

### RestoreRun

`dest` is the destination: for each path type, content, whether mode and time are
those of the entry, and `sha1`, the attribute that `restoreMetaData()` sets and
that the next backup trusts. An entry is `ReadEntry`, then for a directory
`RestoreDirectory` and `DirectoryMetaData`; for a file `RestoreFile` (remove, make
the directories above, open), `ExportFile` and `FileMetaData`; for a link
`RestoreSymlink`, `MakeSymlink` and `SymlinkMetaData`; or one of `StreamOther`,
`StreamFile`, `TestEntry`, `ListEntry`. That is up to three actions for an entry,
not one for each system call: `mkdirs()`, `remove()` and `open()`
(`RestoreRun.cpp:135-145`) and the owner, two attributes, mode and time (258-278),
are one step each. What is below a symbolic link is `RestoreBeyond`: it gets to
where that leads, out of the destination, or it fails. `Interrupt` may come between
any two, and each call may fail (`RestoreFault`). `Put`, `Mkdirs`, `Removed`,
`Opened` and `Changed` are the file system: permissions of users other than root,
`open()` through a symbolic link, directories that are not empty, the time of a
directory that changes with its children. `damage` is one blob of the repository
that is missing, unreadable, or wrong. A list-files is modelled in how it ends, not
in what it prints.

### RoundTrip

`RoundTrip` runs one backup (`WalkOn`) and then up to `MaxRuns` runs over its index
file (`Deliver`, `Run`, `RestoreOn`); a restore is repeated in the same directory when
it has been interrupted or has reported errors, possibly with other options. Any
index file is delivered, also that of a tree that changed during the walk: where
lists of directories overlap, a path may have several different lines in it, a link
and then a file, or two contents. `Revisits` is a bound: with which options such
index files are read; the theorems hold for any.

### Setup

`dirs`, `props`, `passwd` and the files `X.shabackup.tmp` and `X.shabackup` of each
root are the repository. A process `Start`s with a configuration: `Load` folds the
Lua files of `conf.d`, of the home directory and of the repository named so far
over `Defaults`, `ParseCommandlineArgs` the options and operands. Then `init` is
`CheckEmpty`, `MakeDir` or `MakeDirFails` for each of the directories, `AskProps`,
`OpenProps`, `WriteProps`, `AskPasswd`, `OpenPasswd`, `WritePasswd`. All others are
`Open` and `CheckPassword`; migrate goes on with `LockShared`, for each root
`SkipRoot` or `OpenIndexFile`, `WriteEntries...`, `FinishIndexFile`, then
`UnlockShared`, `LockExclusive`, `TruncateProps`, `RewriteProps`,
`UnlockExclusive`. `Die` is the end of a process between any two of these;
`CleanLocks` is somebody who removes what the dead have left in `locks/`. `tmp[r]`
and `shabackup[r]` are names of an inode, known by who has made it, and `content`
is what has been written to it: a migration that finds the temporary file of
another one empties it and writes on with it, as in `BlobStore`.

The names of compressions, ciphers and formats are codes that go through the
switches of the code in both directions (`CompressionToName`, `CompressionByName`,
...): what `init` means must be what `open()` reads. `Digits` is the set of
hexadecimal digits, so that the directories for blobs (`Buckets`) and the directory
of a hash (`HashValueToFile`) can be compared for all hashes. Two pairs of calls
are one step each: the question whether a directory is there and its `mkdir()`
(`shaback.cpp:62-92`), so that the exit of an `init` in whose way another one has
just made it is missing; and the question whether a root has an index file and the
`open()` of the temporary one (`Migration.cpp:75-79`). When two `init`s write
`repo.properties` over each other, a longer text leaves the end of its last line
behind a shorter one; it has no name that is read, and is not modelled.

## 3. Properties

`RepoLock`:
- `MutualExclusion`: nobody holds the repository while another one holds it
  exclusively.
- `HolderIsListed`: a holder's file is in `locks/`, an exclusive holder's name is
  in the link. The mechanism that `MutualExclusion` rests on, across crashes,
  failures and signals of all the others.
- `ImplementsRWLock`: every step of the directory is a step of the
  readers-writer lock.
- `OnlyOwnerUnlocks`: the link of a process goes only by a step of its own (or
  when the container starts).
- `ExitLeavesNothing`: whoever was not killed leaves no lock.
- `RefusedByTheLiving`: `lock()` is refused only while another process really
  works on the repository or is in `lock()`.
- `LinkIsReleased`: the link does not stay for ever.

`Repository`:
- `NoDanglingReference`: every backup in `index/` can be restored in full.
- `CacheSound`: a cache file names only blobs that exist, at every moment at which
  a backup could import it.
- `BackupSound`: what a backup takes for stored is stored, and what it has written
  to its index file so far can be restored.
- `RestoreFindsAll`: a restore finds all it still has to read, although its index
  file may be removed meanwhile.
- `GCExact`: after the sweep, the referenced blobs and no others are left.

`BlobStore`:
- `BlobSound`: what is under a hash has that hash, unless the backup that wrote it
  is still about to move it or to finish it, or the hash is `astray`.
- `IndexSound`: a hash in an index file is a blob, unless it is `astray`.
- `AttrSound`: a current attribute tells what the file contains, unless the file
  is `raced`.
- `BlobStays`: no `rename()` makes a correct blob disappear, but by what is still being
  written, and at hashes that are `astray`.

`Retention`:
- `FirstIsKept`: the history always reaches back to the first backup.
- `OneOfEachStays`: what goes is older than `keepOldBackupsBoundaries[0]` days, and an
  older one that is no further away than its day, week or month is long stays,
  also when an expiry was interrupted and the next one has other windows. The doc of
  the function (`Repository.h:96-98`) promises all of the past week, and a comment in
  it (`Repository.cpp:980`) the latest two. The code keeps neither: all for one day by
  default, and of each window the oldest. `retention_latest` shows it.
- `NoHoles`: neighbours are no further apart than two days, weeks or months,
  depending on how old they are, although the windows move over them and an
  expiry may end half-way.
- `OldOnesStay`: what has got beyond the first monthly window stays.

`Streams`:
- `Complete`: who has read to the end has got all that was written.
- `NoException`: no read of a sound file throws.
- `ReadingEnds`: although reads may return 0, reading comes to an end.

Both safety properties name an exception, because the code fails there: when the
encrypted file is a single AES block, the first read of the cipher returns 0,
which makes `inflate()` fail (`DeflateInputStream.cpp:71`) and which
`ZStdInputStream.cpp:69` takes for the end. Every file whose compressed form has
less than 16 bytes is one of them, also every empty file. `CloseThrows` is another
failure of the code that the model has and no property excludes: when the end of
a bzip2 stream fills the chunk of 16 kB exactly, `BzOutputStream.cpp:84-93` calls
`BZ2_bzCompress()` once more, which is a sequence error, and the destructor
repeats it.

`BackupRun`, `RestoreRun`, `RoundTrip`:
- `BackupExact`: what does not change during the walk is in the index file if and
  only if it is wanted, with the content it has; after errors something may be
  missing. `Wanted` is stated without the walk: below what was given, and no
  directory on the way excluded, on another device or unreadable.
- `RestoreRight`: a restore that reports no error has restored all it was asked
  for, the last line of each path, whatever was in the way or left there by earlier
  runs and however files changed during the backup.
- `ExistingStays`: what was in the destination before is still there unless it was
  asked for, and with `-S` even then.
- `PartialIsKnown`: a restore without errors leaves part of a file only where an
  earlier one has left it and told so; and the attribute on a file is that of its
  content, so that the next backup does not store a wrong hash.
- `TestFindsDamage`: after a test-restore without errors no blob of any entry is
  damaged, with `--quick` none is missing.
- `StreamSound`: a stream has a record for each entry and the trailer, and as much
  follows each header as it announces.
- `ComesBack`: backup and restore together: what is there afterwards is what was
  there before.
- `RunsEnd`: the walk ends, although files change under it, and so does each run
  over the index file.

`Setup`:
- `OpensAlike`: whenever a repository can be opened, there is a place for every blob
  (`DirsComplete`), all who have it open agree with its properties on how files are
  packed and where they are (`Agreement`), and an encrypted one has a hash of its
  password that fits (`PasswordFits`).
- `MigratesAll`: a repository that is of version 3 and was of version 2 has each of
  its index files, and all of it.

These properties are as strong as the code allows; each exception in them is
something the code does:

- *`-S`* spares a directory as it is, also one that an earlier run has made on the
  way to a file and not given its metadata; and spares part of a file that an
  interrupted run has left, of the right size or not (`RestoreRun.cpp:107,131`); and
  what another line of the same path has restored (`Spared`).
- *Links in the way.* `open()` goes through a symbolic link in the place of a file:
  the file is written to where the link leads, and nothing is reported
  (`RestoreRun.cpp:129-146`). The link may have been there, or have come from the
  index file itself: with overlapping lists a path that was a link, and was replaced
  by a file before the walk came to it again, has both lines
  (`BackupRun.cpp:66-84,144-149`), and into an empty directory comes the link
  (`WrittenThrough`). What is below a link gets to where that leads (`LinkAbove`); links
  lead out of the destination, and what happens there is not modelled. A link replaces
  files even with `-S` (line 167).
- *Two backups at once* (`raced`, `astray`, section 2).
- *Wrong blobs.* Restore compares no hash. Wrong content is restored, and the
  attribute that is then set says that it is right (line 265): the next backup
  trusts it.
- *Targets with newlines, tabs or carriage returns.* The rest of a target after a
  newline is read as a line of its own: if it is shorter than ten characters, as
  the end of the index file, and all that follows is silently not restored, not
  tested and (as gc reads with the same class) not kept; if it is longer, as an
  invalid entry, which ends a restore by an exception (gc catches it and does not
  sweep). Tabs and carriage returns are lost.
- *4 GB.* Headers of cpio and shaback streams announce the size modulo 2^32.
- *`unmade`.* `mkdir()` of directories for blobs is not looked at.
- *`halfway`.* An `init` that dies between `repo.properties` and `password`, repeated
  with `--force` and other options, hashes the password as the options say and not
  as `repo.properties` does; nobody can open the repository.
- *`contested`.* Two `init`s at the same time: `repo.properties` and the password may
  be of different ones, and `repo.properties` may change after it has been read.
- *`torn`.* A migration that dies while another one writes to the same temporary
  file may leave half an index file with a final name, which the second attempt
  skips.

A migration that dies between `TruncateProps` and `RewriteProps` leaves an empty
`repo.properties`: no process opens the repository again, and `init --force` does not
rewrite the file. Both properties of `Setup` are about repositories that can be
opened.

## 4. Runs

| Run | Instance | What it shows |
|---|---|---|
| `lock` | test-restore of two index files, gc, migrate; signals anywhere except in an exclusive holder that has released its lock; crashes | The first five lock properties, and the refinement. |
| `lock_clean` | a backup, two gc (one with `-L`), a nested locker; signals except while the link is being made; no crashes; weak fairness of each process | The last three lock properties. |
| `repository` | two backups of a plain and a split file that share content, a gc, a prune, a restore | All of `Repository`'s properties. |
| `repository_import` | gc may run between import and lock | **Violated.** The imported cache names blobs that gc has removed. |
| `blob` | two backups of two files, one change, one kill (not between the two renames of a changed file), at any moment | All of `BlobStore`'s properties. |
| `blob_race` | no kill | **Violated.** `AttrAlwaysSound`: an old hash beside the current mtime, which the next backup trusts. |
| `retention` | the default settings and window lengths, 120 days, one mishap | All of `Retention`'s properties. |
| `retention_latest` | 20 days | **Violated.** `LatestOfWeekStay`: of three backups, two of one day, the second goes, one of the latest two and not two days old. |
| `streams` | all ciphers and compressors with `copyTo()`; `BufferedReader` with none and Deflate, and with zstd without a cipher; `inflate` of all compressors | All of `Streams`' properties. |
| `streams_bzip` | `BufferedReader` with BZip, and with zstd under Blowfish | **Violated.** `ReadsBack`: a read of 0 while a block is collected is taken for the end; the index file or list reads as empty. |
| `tree` | eighteen backups of a tree of nine paths (other devices, unreadable directories, odd names, overlapping lists, exclude patterns, targets of links), two changes; ten ways to run over what they write, one mishap (with no more than one change): an obstacle, a damaged blob, a failing call, an interruption; a restore may be repeated; after changes, restore with and without `-S` from the three whose lists come to a path twice | All of `RoundTrip`'s properties. |
| `setup` | three processes with any of nine command lines (three `init`s, one with a compression that does not exist, `migrate`, four that open it), from nothing or from a repository of version 2 with two roots; two of them may die, or `mkdir()` fail twice | All of `Setup`'s properties. |

Bounds. Three processes are the smallest instance in which a link can be removed
by one, made by a second and run into by a third; every kind of operation and
of owner is in one of the lock runs. In `Repository`, the split file `l` has the
blocks `x` and `y`, and `x` is also a plain file, so that a blob can be kept alive
by either; two backups are enough for one to import the cache of the other,
for one to be expired by the other, and for both to store the same file; prunes
and restores may follow one another without bound; backups and gc run once each,
which makes the history backup, prune, gc, backup possible. Backups are
interchangeable (`Symmetry`). `clock` is bounded by the number of processes.
`CHECK_DEADLOCK FALSE` in the repository runs: when all processes are done, the
system stops. The lock runs check deadlock: the container may always be started
again, and `FairSpec` takes care of the rest.

In `BlobStore`, two backups meet at a hash, overlap or follow one another, and the
second trusts what the first has left; two source files can have the same content,
so that one of them still has what the other one had; one change is enough to
mislead a backup in any pass, and one kill to leave anything behind. The run leaves
`KillWhileMoving` at `FALSE`: with `TRUE` TLC finds `BlobSound` violated, the
content of the second reading left under the hash of the first. In `Retention`,
`Day = 2` tells a date at midnight from one in between, and 120 days go through all
three kinds of windows (15 days of daily ones, to day 43 weekly ones) and two
monthly ones beyond; with one mishap each kind of it is met at any time. More than
one interrupted expiry in a row is not covered: since the latest of a list go
first, they can make a hole of any size. In `Streams`, the sizes keep the order
they have in the code (a cipher reads less than the buffer, the buffer is less than
the chunk, zstd asks for more than a block), a file can be longer than each of
them, and the lengths meet in all possible ways. `CHECK_DEADLOCK FALSE` in both
runs of each of `BlobStore` and `Streams`: the system stops when the backups are
done or the file has been read. In `tree`, two changes are one before and one after
a file has been looked at, or in two directories; a second run is what meets what
the first one has left, with the mishap in either. The tree has a directory with a
sibling whose name begins like its own, a split file below another device, a file
of 5 GB and one of 9 GB (so that both limits are met), and all that can be in the
way of each type of entry. Three lists come to a path twice (a link that becomes a
file, a file that becomes another one, a link above others that becomes a
directory): without any one of the exceptions of `RestoreRight`, or with all lines
of a path in place of the last, TLC finds it violated in this run. In `setup`,
three processes are two that collide and one that comes upon what they have left;
two roots are one that has been migrated and one that has not; two writes make half
an index file; two mishaps let both of two processes die. One digit makes one
directory of each level for blobs: what is compared is the depth, which does not
depend on how many there are. `CHECK_DEADLOCK FALSE` in both: the system stops when
all runs are over. `Retention` runs with the check for deadlock: a prune is
possible at any time.

Fairness. `WF_vars(Proceed(p))`: a process that can make its next system call
does so eventually. No call of `lock()` or `unlock()` blocks, so the scheduler of
the operating system grants that. Failures, signals, crashes and the start of
the container are not fair. In `Streams`, `WF_vars(CopyTo \/ Inflate \/ Fill)`: the
loop of the single thread that reads goes on. In `RoundTrip`, `WF_vars(WalkOn)` and
`WF_vars(RestoreOn)`: the walk and the restore are loops of one thread each, none
of whose calls blocks. `Setup` states no liveness, and no fairness: a lock that is
refused ends the process.

## 5. Proofs

`RepoLockProofs` proves, for any finite set of processes with any programs:

- `TypeCorrect`: `Spec => []TypeOK`.
- `MutuallyExclusive`, `HoldersAreListed`, `Refinement`, under `SafeUse`: different
  processes have different lock file names, processes with `-L` only take part
  exclusively (that is, are refused), and no signal arrives after an exclusive
  `unlock()`. The first is what `<name>-<pid>` gives on one host. The other two
  the code does not ensure. `-L` asks `isFile()` of the symbolic link, that is
  `lstat()` and a regular file, which is always false (`Repository.cpp:174`): a
  process with `-L` never notices an exclusive one. And `unlock()` leaves
  `haveExclusiveLock` set (line 192): a signal between an exclusive `unlock()`
  and the end of the process calls `unlock(true)` once more, which removes the
  link although it may be another's by then. In both cases two processes can
  hold the lock: TLC finds `MutualExclusion` violated with `gc` and `backupL` as
  the processes, and `HolderIsListed` with `SignalPoints <- Everywhere`.
- `OwnersUnlock` (`OnlyOwnerUnlocks`), under `SafeUse`.
- `NothingIsLeft` (`ExitLeavesNothing`) and `NothingEndedRefuses`
  (`RefusedByTheLiving`), under `CleanUse`: `SafeUse`; no crashes; no signal
  between `symlink()` and the statement after it (line 158), where the handler does
  not know yet that the link is its own; owners that unlock in their destructor,
  which are all but RestoreRun (its `lock()` is in the constructor,
  `RestoreRun.cpp:39`) and Migration (no destructor unlocks); and programs that
  unlock whatever they lock (`Balanced`). Each of them is something without which
  the code does leave a lock that refuses others for ever. The run `lock_clean` is
  an instance.

The argument: `MutualExclusion` alone is not inductive. `IInv` adds, for each
process, `LocalInv` (inside `lock()` and `unlock()` nothing is held;
`haveExclusiveLock` is set only from `MarkExclusive` on and followed by nothing
but the unlock) and `DirInv` (from `open()` to `unlock()` the lock file is in the
directory; from `symlink()` until it is dropped the link is p's own). Mutual
exclusion follows where a lock is acquired: an exclusive locker has counted one
file, its own, so that no other process can have one; a shared locker has made
the link, which an exclusive holder would have had. The refinement uses `IInv` to
show that each step changes `LockMode` of one process in one of the three ways
`RWLock` allows. What is left at the end needs more than `IInv`: `CleanInv` says that a
file in `locks/`, and the link, belong to a process that is at a place from
which it still removes them (`RemovesFile`, `RemovesLink`), and that `lockCount` is the
number of its `lock()` calls without an `unlock()` so far (`Held`), since a process that
counts too few would remove nothing.

`BlobStoreProofs` proves, for any backups, sources, contents, changes and kills at any
moment:

- `TypeCorrect` (`TypeOK`), `IndexIsSound` (`IndexSound`), `AttributesAreSound`
  (`AttrSound`) and `BlobsStay` (`BlobStays`) without further hypotheses;
- `BlobsAreSound` (`BlobSound`) under `LetsMove`: no backup is
  killed while it has the content of a changed file under the hash of the
  first reading, between the two renames (`Repository.cpp:329,340`). The code cannot
  ensure it.

The argument: a backup knows the hash of a file from one reading and writes what
a second one gives. `IInv` adds to `TypeOK`, `AttrSound` and `IndexSound`

- `PlaceInv`, `EndInv`: what a backup has at hand at each step, and leaves at its end;
- `SourceInv`: as long as the mtime is the one that `lstat()` gave, all that has been
  read is what the file contains;
- `RaceInv`: a backup at `SetMtime` whose look is still current finds its own hash, or
  the file is `raced`; hence `AttrSound`, as it writes the mtime of its look;
- `InodeInv`, `OwnInv`: an inode has one name, and one that a backup has not opened yet
  has none, so that an `open()` never empties a blob; who writes to an inode knows
  its name;
- `MisledInv`: where backups meet, either the hash is `astray` or none of them has read
  anything else than it has hashed. So they all write the same, and a file that
  somebody has emptied is written again;
- `NameInv`: nobody has a hash in its entries that it is still storing, and from the
  first rename on a name that was made stays;
- `SoloInv`: who is alone with a hash (`Solo`) finds its file where it has put it, with
  what it has read. This may be a mixture, but nobody knows its hash until it has
  been moved;
- `TmpInv`, `DataInv` (the latter under `LetsMove`): what is under a name is correct, or
  the one who has opened it last is still at its copy and right so far, or it
  belongs to somebody who is alone with it.

`IInv` was also checked by TLC on the instance of the run `blob`.

`RetentionProofs` proves `TypeCorrect`, `FirstIsAlwaysKept` and
`OneOfEachAlwaysStays` (`OneOfEachStays`) for any lengths of windows, any
boundaries, any schedule and any interruptions, from no assumption but that the
constants are natural numbers. The argument: no window ends later than the midnight
`KeepAll` days back, because each loop starts where the one before ended
(`UppersGoBack`, `WindowsGoBack`), and a window is as long as the zone it is in
says; the excess of a window is all but its oldest. Hence `OneOfEachStays`, also
while a list is being deleted, as what is spared stays. And date 0 is the oldest of
every window it is in, hence never in the excess. `FirstIsKept` is not inductive
alone: `IInv` adds that 0 is not in `toDelete`, since a list that was computed
earlier is deleted later.

The two properties that depend on the lengths of the windows and on the schedule
are proved for runs on schedule, `Spec /\ [][OnTime]_vars`: no day goes by without
a backup and no expiry is interrupted; further backups and prunes may come at any
time. `HistoryHasNoHoles` (`NoHoles`) holds for any boundaries and lengths with
`Week <= Month` and `MaxDuration <= KeepAll * Day`, `OldOnesAreKept`
(`OldOnesStay`) for any with the latter: no backup may take longer than all of them
are kept. The run `retention`, with the default boundaries
(`RuntimeConfig.cpp:77-79`), satisfies both. Neither is inductive; `OnTimeInv`
speaks of what the expiry at work will leave and of today's backup (`Kept`):

- `CompleteInv`: back to the weekly windows there is a kept backup at each midnight
  (`Daily`); after each point in time there is one no later than a day, a week, or a
  month and a week (`Cover`); and one within the first week of the weekly zone
  (`Edge`), so that a gap does not grow when it passes from one zone to the next;
- `SpacingInv`: two backups that no window has yet found together are a window's
  length apart. Hence a window that has moved a day finds at most one more than it
  has kept, and only the first window of each kind deletes anything; beyond the
  first monthly one nothing goes, which is `OldOnesStay`.

The rest is arithmetic of windows: they are disjoint, begin and end at midnights
and follow one another without a gap. `OnTimeInv` was checked by TLC on five small
instances with different lengths, boundaries and durations. Off schedule the
properties are false in general: several missed days or interrupted expiries make a
hole of any size. With one of them they hold in the run `retention`; that is left
to TLC.

`RepositoryProofs` proves `TypeCorrect`, `BackupsAreRestorable`
(`NoDanglingReference`), `CacheFilesAreSound` (`CacheSound`), `BackupsAreSound`
(`BackupSound`), `RestoresFindAll` (`RestoreFindsAll`) and `CollectionIsExact`
(`GCExact`) for any blobs, lists and sources and any number of backups,
collections, prunes and restores, under `CarefulUse`: no gc between the import of a
backup and its lock, and no gc that ends in its sweep while split files have
attributes. Neither condition can be dropped (section 2), and the code ensures
neither. The argument: none of the properties is inductive. `IInv` adds

- `LockInv`: which `pc` holds which mode, and exclusion. Hence nothing is stored
  or imported while a gc is at work (`Shared`, `Exclusive`);
- `CacheInv`: `writeCache` names stored blobs at any `pc`, not only under the lock,
  and is empty while a gc holds it. This is where `GCDuringImport` matters;
- `EntriesInv`: the blocks of the list being stored are stored or still in
  `blocks`, so that the list follows its blocks;
- `ListInv`: outside of a sweep, a list that is stored and has an attribute has
  its blocks, which `SkipSplitFile` relies on. A complete sweep restores it
  because what is referenced is closed under blocks (`ReferencedClosed`); an
  interrupted one does not, which is where `SweepInterrupted` matters;
- `MarkInv`: gc has marked exactly what the index files need that it has taken
  off `todo`, and no cache file is left when it sweeps. A gc that comes to its
  sweep has marked exactly `Referenced`.

`IInv` was also checked by TLC on the instance of the run `repository`.

`SetupProofs` proves `MigrationsAreComplete` (`MigratesAll`) and
`MigrationsAreLocked` for any processes and command lines, any roots, any number of
chunks above zero (`SetupAssumption`) and any number of deaths. `NamesAssumption`
says that `None` is neither a process nor a root. The argument: `MigratesAll` is not
inductive, as it says nothing of files that are not finished. `IInv` adds

- `LockInv`: where the lock is held, and exclusion;
- `OldInv`: no `init` writes the properties of a repository that has some;
- `WriterInv`: a migration that writes has its file open under one of the two names
  of its root;
- `RootsInv`: a migration leaves each root with an index file, and asks for the
  exclusive lock when it has left all;
- `NameInv`: a file has one of the two names, and who has made it has passed that
  root or is at it;
- `ContentInv`: each file is `Whole`. It is complete; or one process has opened it
  last, and all that this one has written is in it; or it is a temporary file that
  nobody has open; or the root is `torn`.

Under the exclusive lock nobody writes, so that all index files are complete
(`RootsInv`, `ContentInv`), and only there does `RewriteProps` set version 3. `IInv`
was also checked by TLC on the instance of the run `setup`.

`OpenProofs` proves `RepositoriesOpenAlike` (`OpensAlike`) for any processes, command
lines and Lua files, any digits, and any number of deaths and of directories
that cannot be made, over `IInv` of `SetupProofs` and from the same assumptions. The
three exceptions are those that `OpensAlike` itself names (`contested`, `halfway`,
`unmade`). The argument is `AInv`, which TLC has checked on the same instance:

- `DirsInv`: an `init` that makes directories still has in `left` whatever is not
  there, the top ones without exception, because a failure of `mkdir()` for one of
  these ends it; who has passed that loop, and who has the repository open, has
  them all. Whoever writes the properties writes the format it has made
  directories for, so that this holds of a contested repository, too;
- `VersionInv`: only a repository that was of version 2 is ever of another version
  than 3 when it is opened, and only such a one is migrated;
- `OldAlike`: all that is ever written to the properties of an old repository says
  the same about encryption, compression and format: a migration writes what it
  has read. No `init` changes them or the password (`OldInv`);
- `NewAlike`: a new one that is not contested has one creator at a time, who finds the
  two files as the one before has left them. Properties are written once; the
  password is hashed by who wrote them, or by a second attempt with the same
  encryption, or the repository is `halfway`.

The names that are written and read again meet in `ReadBack` and
`EncryptionReadBack`. That a hash has its directory, for all hashes and any
digits, is `BucketOfHash`: a place in the order in which the two nested loops of
`shaback.cpp:96-118` make the directories is, divided by the length of the inner one, a
directory of the first level and one in it. `Buckets` is written with that division
for this reason.

It also proves `TypeCorrect` (`TypeOK` of `Setup`): only directories of the layout are
made, `repo.properties` names only what can be read back, and a process that is
alive holds the lock in exactly the mode of the step it is at, hence none when it
has ended. `TInv` adds to `AInv` and `IInv` that configured and opened settings are
`Known` ones, which is what `ReadFiles` and `WrittenFiles` turn into each other, and
that who is at no step under the lock has none (`IdleInv`). What a command line
leads to is a fold over its options and the Lua files, which no proof here can
open; that its compression and encryption exist unless the process ends is
`OptionsAssumption`, which the code ensures (`encryptionByName()` and
`compressionByName()` throw at any other name, `Repository.cpp:761-811`, and no Lua
function sets them) and TLC evaluates for the command lines of the run.

`StreamsProofs` proves, for any stacks, any lengths of files and any sizes of
blocks, chunks and buffers that keep the order they have in the code
(`SizesAssumption`: buffers and the chunks of ciphers have whole AES blocks, and more
than one; those of zstd hold more than a block):

- `TypeCorrect` (`TypeOK`) and `NeverThrows` (`NoException`) without further hypotheses;
- `CompleteInOneGo`: `Complete` for each file that is read by `copyTo()` or `inflate`,
  and for each one read by `BufferedReader` through a stack of `InOneGo`, that is
  without compression, with Deflate, or with zstd and no cipher. `ReadsComplete` is
  `Complete` itself, where lines are only read through such stacks (`LinesInOneGo`,
  which holds of the instance of the run `streams`). The code does not ensure it:
  `streams_bzip` shows that bzip2, or zstd under a cipher, must be excluded; LZMA is
  excluded because nothing says how much of its input it takes before it gives
  something out.

The argument: a read may return less than was asked for, or nothing, in each
layer, and one layer's nothing must not become the next one's end. `Delivered` says
what has got through the cipher after so many units of the file: all but a block
until the end of the file is known, then all. `GotInv` says what has got through
the decompressor: what is consumed and not yet got is still to come, and once all
is consumed all has been got, so that an `EOF` of the layer below is the end.
`Feeds` and `Sound` are the same for a single read of either layer. A read that
returns nothing has used up all it was given (`NothingOut`). Deflate never returns 0
(`DeflateSound`): a refill has at least two units unless it is the last one, and two
units of Deflate hold something. zstd without a cipher does not before the end
(`Windowed`): its refill holds a whole block. This is also where both exceptions come
from: the refill of nothing, which happens for a single AES block only. `IInv` was
also checked by TLC on the instances of both runs.

`RoundTripProofs` proves, for any finite tree with any contents, any options,
devices, patterns and lists of directories, any obstacles and damages, and any
number of changes, mishaps and runs (and any of the bounds `MaxBoth` and
`Revisits`), each safety property of `BackupRun`, `RestoreRun` and `RoundTrip`:
`TypeCorrect` (`TypeOK`), `BackupIsRight` (`BackupExact`), `RestoreIsRight`
(`RestoreRight`), `NothingElseChanges` (`ExistingStays`), `NoHiddenParts`
(`PartialIsKnown`), `TestIsThorough` (`TestFindsDamage`), `StreamIsSound`
(`StreamSound`) and `AllComesBack` (`ComesBack`). What it assumes of the constants:

- `TreeAssumption`: `Above` is what `Parent` makes of it, finitely many paths. That
  a directory is not above itself is what makes it a tree;
- `PathsAssumption`, `ObstaclesAssumption`: what is there to begin with is in
  directories (`IsTree`), and no file that is there before the first restore has an
  attribute or is part of a restored one. `dirs` is the list of the command line,
  with paths in it more than once or above one another if the user likes;
- `RestoreAssumption`: the contents are none of the marks for parts of files;
  test-restore takes no paths (`asked = {Root}`); `UIntRange` and `CpioMaxFileSize` may
  have any relation to the sizes and to one another;
- `BoundsAssumption`: at least one run.

None of the properties is inductive. For the backup, `BackupExact` speaks of the end
only. `IInv` says at each step which lines are there and which are still missing:

- `LinesInv`: each line of a path that has not changed is the line of what is there,
  and that is wanted;
- `CoverInv`: without errors, a path that has not changed and that the walk reaches
  (`Via`) from one of the first `dirsDone` directories has its line; unless this is the
  directory that is being walked, and the walk is still to come to the path
  (`Pending`: it, or a directory above it, is in hand or in a listing of the stack);
- `StackInv`, `ChildInv`: what is in the stack is reached from the current directory,
  and what `lstat()` has shown of the file in hand is still true unless it has been
  changed since;
- `TouchedInv`: what is below something that has changed has changed. Without it a
  path that has not changed could lose the directory it is listed in;
- `RestInv`: only targets with newlines make lines that are no entries.

That nothing is pending when the stack is empty gives `BackupExact`. For the
restore, `IInv` says of each entry that has been read what has come of it:

- `IndexInv`, `PlaceInv`: the index file is the one of the backup, all lines up to `pos`
  are entries, and the one in hand is that of `pos` and was asked for;
- `RightInv`: each entry that has been handled is `Settled` (as in `RestoreRight`),
  or `Outdated` by a later line of its path, or its path is the one in hand. This
  is the longest part: no later entry of another path may undo what an earlier one
  has made (`SettledStays`). It may not because besides its own path an action
  makes missing directories above it and takes their time, no more (`Besides`), and
  because what is below a link stays below one (`LinkAbove`). With `-S`, what is
  there at the place of an entry may be what an earlier line of its path has left:
  the last one of these (`LastIs`) is settled (`SparedIs`);
- `MadeInv`: a file or a link in the destination was there before or has its line; a
  directory was there, has its line, or a line below it;
- `HandInv`: what is at the path of the file in hand between `open()` and the last call;
- `StayInv`, `AttributeInv`, `PartialInv`, `TestInv`, `StreamInv`, `FirstInv`: the
  properties themselves for the lines so far, and what a repeated run finds.

`ComesBack` follows from both halves: a line is wanted and what was wanted has its
line, a line is restored, and all that is in the destination is at or above one.
The recursion of the tree is by well-founded descent on the number of
directories above a path, with a set of numbers and its least element
(`Smallest`, `Deepest`, `Highest`) in place of induction. A step with an entry in hand
is one lemma (`EntryStep`), whose hypotheses each action on an entry has to
meet; steps of the backup leave the restore alone and the other way round
(`BackupStep`, `RestoreStep`). `IInv` was also checked by TLC on the instance of the run
`tree`.

Left to TLC, and why:

- `LinkIsReleased`, `ReadingEnds`, `RunsEnd`: liveness under fairness.
- `NoHoles` and `OldOnesStay` off schedule, with one missed day or interrupted expiry:
  there are histories with several of them for which both fail.

## 6. Not modelled

- `show` copies one blob to standard output without a lock, `history` and
  `list-files` print; they keep no state. The first is a stack of `Streams`.
- Writes that fail: a full disk under an index file is caught as the error of one
  file (`BackupRun.cpp:153`), and the backup goes on with a hole in its stream;
  `StandardOutputStream.cpp:70` does not look at the result of `fflush()`.
- Streams that are damaged between writing and reading. `RestoreRun` takes damage
  as an exception or wrong content; that a damaged LZMA file is read for ever
  (`LzmaInputStream.cpp:73`) is out of it.
- `opendir()` that fails under gc or in an exclusive `lock()`, for which an empty
  `index/` or `locks/` is the same as none (`File.cpp:279`). In `BackupRun` it is
  modelled.
- Uninitialised `dryRun` (`RuntimeConfig.h:64`): a prune of any index files in
  `Repository`, none among them, stands for both values.
- `inflate` and `deflate` with compression `None`, which dereference a null pointer
  (`shaback.cpp:156,180`); they are not among the stacks.
- The parts of the configuration that set one variable each and no model reads;
  character sets; usage texts, progress and logging; branches for other operating
  systems and for builds without the libraries; the gdbm cache, VisiChunk and the
  separate programs.

## 7. Plan

In this order; what is done is marked.

1. `RWLock`, `RepoLock`, runs, proofs (done).
2. `Repository` over `RWLock`, runs (done).
3. `Retention`, runs, proofs (done).
4. `BlobStore`, runs (done).
5. `Streams`, runs (done).
6. Proofs about `Repository` (done).
7. `IndexFile`, `RestoreRun`: destination files, `-S` and what a failure in the
   middle of a file leaves for it, metadata, errors and end of file (done).
8. `BackupRun`, `RoundTrip`: the recursion over directories, exclude patterns, links,
   errors; from the files and back (done).
9. `Setup`: creation, opening and migration, with interrupted and second attempts
   (done).
10. Proofs about `Setup`: `MigratesAll`, who holds the lock at which step (done).
11. Proofs of `OpensAlike`, about `BlobStore` (what is under a hash has that hash),
    and about what a process leaves in `locks/` (done).
12. Proofs about `Streams`: `Complete`, `NoException` (done).
13. Proofs about `BackupRun`, `RestoreRun` and `RoundTrip` (done).
14. Proofs of `NoHoles` and `OldOnesStay` on schedule, of `TypeOK` of `Setup` (done).
