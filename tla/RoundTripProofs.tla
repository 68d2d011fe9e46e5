--------------------------- MODULE RoundTripProofs ---------------------------
(***************************************************************************)
(* Proofs about RoundTrip for any trees, contents, options and numbers of  *)
(* changes, mishaps and runs: what a backup writes is exact, and what a    *)
(* restore makes of it is right.                                           *)
(***************************************************************************)
EXTENDS RoundTrip, FiniteSetTheorems, SequenceTheorems, WellFoundedInduction, TLAPS

-----------------------------------------------------------------------------
(* The inductive invariant.                                                *)

(* The walk from one of the directories of the command line down to n.     *)
Via(n, top) ==
    /\ top \in Within(n)
    /\ \A m \in Within(n) : top \in Above[m] => m \notin config.exclude /\ Listed(Parent[m], top)
CurrentTop == dirs[dirsDone]
Storable(n) == source[n].type \in {"dir", "file", "link"} /\ n \notin OddNames

(* The walk is still to come to n.                                         *)
Pending(n) ==
    \E m \in Within(n) : m = child.path \/ \E i \in DOMAIN stack : m \in stack[i].files

(* What is below a path that has changed has changed.                      *)
TouchedInv == \A n \in touched : Beneath(n) \subseteq touched

(* The listings are of directories that the walk has come to in its way.   *)
StackInv ==
    \A i \in DOMAIN stack :
        /\ dirsDone > 0 /\ CurrentTop \in Within(stack[i].path)
        /\ \A n \in stack[i].files \ touched : Listed(Parent[n], CurrentTop) /\ Via(Parent[n], CurrentTop)
ChildInv ==
    /\ backupPc \in {"next", "done"} => child = NoChild
    /\ child.path # Root =>
           /\ dirsDone > 0 /\ CurrentTop \in Within(child.path)
           /\ stack = <<>> => child.path = CurrentTop
           /\ stack # <<>> => Parent[child.path] = Top.path
           /\ child.path \notin touched =>
                  child.type = source[child.path].type /\ Via(child.path, CurrentTop)
    /\ backupPc = "handle" => child.path # Root
    /\ backupPc = "done" => stack = <<>> /\ dirsDone = Len(dirs)

(* No line that should not be there.                                       *)
LinesInv ==
    \A i \in DOMAIN shabackup :
        LET n == shabackup[i].path
        IN  shabackup[i].type # "rest" /\ n \notin touched => Wanted(n) /\ shabackup[i] = LineOf(n)

(* No line that is missing.                                                *)
CoverInv ==
    ~backupError =>
        \A n \in Node \ touched, k \in 1..dirsDone :
            Storable(n) /\ Via(n, dirs[k]) =>
                LineOf(n) \in Range(shabackup) \/ (k = dirsDone /\ Pending(n))

(* Only targets with newlines make lines that are no entries.              *)
RestInv ==
    touched = {} /\ (\A n \in Node : source[n].type = "link" => Plain(source[n].data)) =>
        \A i \in DOMAIN shabackup :
            /\ shabackup[i].type # "rest"
            /\ shabackup[i].type = "S" => shabackup[i].data \in {"short", "long"}

BackupInv ==
    /\ BackupTypeOK /\ dirs \in Seq(Node)
    /\ config \in [oneFileSystem : BOOLEAN, exclude : SUBSET Node, ignoreNames : BOOLEAN]
    /\ TouchedInv /\ StackInv /\ ChildInv /\ LinesInv /\ CoverInv /\ RestInv

-----------------------------------------------------------------------------
InHand == {"dirMeta", "export", "fileMeta", "symlink", "linkMeta"}
AtWork == Running \cup {"done"}

(* What is read is what has been written.                                  *)
IndexInv ==
    IF restorePc = "waiting" THEN index = <<>> /\ pos = 0
    ELSE backupPc = "done" /\ index = shabackup

(* Where the program is, and what it has in hand.                          *)
PlaceInv ==
    /\ restorePc \in AtWork \cup {"aborted"} => opts \in Options
    /\ restorePc \in Running => \A k \in 1..pos : k <= Len(index) /\ NextEntry(index, k) \notin {Eof, Invalid}
    /\ restorePc \in Running \ {"next"} =>
           pos > 0 /\ entry = NextEntry(index, pos) /\ Matches(entry.path)
    /\ restorePc \in InHand => opts.mode = "restore"
    /\ restorePc = "dirMeta" => entry.type = "D"
    /\ restorePc \in {"export", "fileMeta"} => entry.type = "F"
    /\ restorePc \in {"symlink", "linkMeta"} => entry.type = "S"
    /\ restorePc = "done" =>
           /\ pos > 0 /\ NextEntry(index, pos) = Eof
           /\ \A k \in 1..pos - 1 : k <= Len(index) /\ NextEntry(index, k) \notin {Eof, Invalid}

(* The lines that have been read, and what was asked for of those that are *)
(* handled, or about to be.                                                *)
Seen == 1..(IF restorePc \in {"entry", "done"} THEN pos - 1 ELSE pos)
Passed == {i \in Seen : Matches(index[i].path)}

(* Files and links have come from where they were, or from their lines;    *)
(* directories also from the lines of what is in them.                     *)
MadeInv ==
    restorePc \in AtWork =>
        \A n \in Node :
            /\ dest[n].type \in {"file", "link"} =>
                   \/ before[n].type = dest[n].type
                   \/ \E i \in Passed : index[i].path = n /\ TypeOf(index[i]) = dest[n].type
            /\ dest[n].type # "none" =>
                   before[n].type # "none" \/ \E i \in Passed : n \in Within(index[i].path)

(* What may not be there any more as it was.                               *)
Excused(n) ==
    \/ before[n].type = "none"
    \/ \E line \in Chosen :
           /\ line.path = n
           /\ ~opts.skipExisting \/ line.type = "S" \/ (line.type = "F" /\ before[n].type = "link")
StayInv ==
    /\ \A n \in Node : Excused(n) \/ (dest[n].type = before[n].type /\ dest[n].data = before[n].data)
    /\ restorePc = "export" => Excused(entry.path)

(* The files in hand.                                                      *)
Wrong(data) == data = "wrong" /\ damage.kind = "wrong"
HandInv ==
    /\ restorePc = "export" =>
           \/ dest[entry.path].type = "link" /\ dest[entry.path].data = "overwritten"
           \/ dest[entry.path].type = "file" /\ (dest[entry.path].time => dest[entry.path].sha1 = "")
    /\ restorePc = "fileMeta" =>
           \/ dest[entry.path].type = "link" /\ dest[entry.path].data = "overwritten"
           \/ /\ dest[entry.path].type = "file"
              /\ dest[entry.path].data = entry.data \/ Wrong(dest[entry.path].data)
    /\ restorePc = "linkMeta" => dest[entry.path].type = "link" /\ dest[entry.path].data = entry.data

(* Attributes, and parts of files.                                         *)
AttributeInv ==
    /\ \A n \in Node : dest[n].sha1 # "" =>
           /\ dest[n].type = "file"
           /\ \E i \in DOMAIN index :
                  index[i].path = n /\ index[i].type = "F" /\ index[i].data = dest[n].sha1
    /\ \A n \in Node : dest[n].data = "overwritten" => dest[n].type = "link"
    /\ AttributeTrue
PartialInv ==
    /\ restorePc \in {"waiting", "idle"} => \A n \in Node : dest[n].data = "partial" => known
    /\ restorePc \in AtWork /\ ~hasErrors =>
           \A n \in Node : dest[n].data = "partial" =>
               (known /\ before[n].data = "partial") \/ (restorePc = "export" /\ n = entry.path)

(* What has been done so far is right.                                     *)
Outdated(i) == \E j \in Passed : j > i /\ index[j].path = index[i].path
RightInv ==
    restorePc \in AtWork /\ ~hasErrors /\ opts.mode = "restore" =>
        \A i \in Passed :
            Settled(index[i]) \/ Outdated(i) \/ (restorePc \in InHand /\ index[i].path = entry.path)
TestInv ==
    restorePc \in AtWork /\ ~hasErrors /\ opts.mode \in {"test", "quick"} =>
        \A i \in Seen : \/ index[i].type # "F" \/ ~Damaged(index[i].data)
                        \/ opts.mode = "quick" /\ damage.kind # "missing"
Record(n, announced, given) == [path |-> n, announced |-> announced, given |-> given]
StreamInv ==
    /\ output \in Seq([path : Node \cup {Root}, announced : Nat, given : Nat])
    /\ restorePc \in AtWork /\ ~hasErrors /\ opts.mode \in {"cpio", "shaback"} =>
           /\ {output[i].path : i \in DOMAIN output}
                 = {index[i].path : i \in Passed} \cup (IF restorePc = "done" THEN {Root} ELSE {})
           /\ restorePc = "done" => Len(output) > 0 /\ output[Len(output)].path = Root
           /\ \A i \in DOMAIN output : output[i].announced = output[i].given \/ output[i].given >= UIntRange

FirstInv ==
    /\ dest \in [Node -> DestFiles] /\ before \in [Node -> DestFiles]
    /\ restorePc = "waiting" => dest = [n \in Node |-> Absent] /\ before = dest
    /\ runs = 0 => restorePc \in {"waiting", "idle"} /\ \A n \in Node : before[n] = Absent
    /\ restorePc = "waiting" => runs = 0 /\ hasErrors = FALSE

RestoreInv ==
    /\ RestoreTypeOK /\ IndexInv /\ PlaceInv /\ FirstInv
    /\ MadeInv /\ StayInv /\ HandInv /\ AttributeInv /\ PartialInv
    /\ RightInv /\ TestInv /\ StreamInv
BoundsOK == changes \in 0..MaxChanges /\ mishaps \in 0..MaxMishaps /\ runs \in 0..MaxRuns
IInv == BackupInv /\ RestoreInv /\ BoundsOK
-----------------------------------------------------------------------------
(* The tree.                                                               *)

LEMMA Smallest ==
    ASSUME NEW T, T \subseteq Nat, T # {}
    PROVE  \E n \in T : \A m \in T : n <= m
<1> DEFINE R == {ss \in Nat \X Nat : ss[1] < ss[2]}
<1>1. IsWellFoundedOn(R, Nat)
  BY NatLessThanWellFounded, Zenon DEF OpToRel
<1>2. PICK n \in T : \A m \in T : ~(<<m, n>> \in R)
  <2> HIDE DEF R
  <2>1. QED
    BY <1>1, WFMin
<1>3. \A m \in T : ~(m < n)
  BY <1>2
<1>4. QED
  BY <1>3

LEMMA ParentOf ==
    ASSUME NEW n \in Node
    PROVE  /\ Parent[n] \in Node \cup {Root} /\ Above[n] \subseteq Node /\ n \notin Above[n] /\ n # Root
           /\ Parent[n] = Root => Above[n] = {} /\ Within(n) = {n}
           /\ Parent[n] # Root =>
                  /\ Parent[n] \in Node /\ Above[n] = {Parent[n]} \cup Above[Parent[n]]
                  /\ Above[n] = Within(Parent[n]) /\ Within(n) = {n} \cup Within(Parent[n])
           /\ n \in Within(n) /\ Within(n) \subseteq Node
BY TreeAssumption DEF Within

(* Whatever is not true of some path is not true of one whose directory it *)
(* is true of.                                                             *)
LEMMA Fewest ==
    ASSUME NEW B, B \subseteq Node, B # {}
    PROVE  \E n \in B : \A m \in B : Cardinality(Above[n]) <= Cardinality(Above[m])
<1> DEFINE T == {Cardinality(Above[n]) : n \in B}
<1>1. \A n \in B : Cardinality(Above[n]) \in Nat
  BY TreeAssumption, ParentOf, FS_Subset, FS_CardinalityType
<1>2. T \subseteq Nat /\ T # {}
  BY <1>1
<1>3. PICK t \in T : \A u \in T : t <= u
  <2> HIDE DEF T
  <2>1. QED
    BY <1>2, Smallest
<1>4. QED
  BY <1>3

LEMMA Deepest ==
    ASSUME NEW B, B \subseteq Node, B # {}
    PROVE  \E n \in B : Parent[n] = Root \/ Parent[n] \notin B
<1>1. PICK n \in B : \A m \in B : Cardinality(Above[n]) <= Cardinality(Above[m])
  BY Fewest
<1>2. SUFFICES ASSUME Parent[n] # Root, Parent[n] \in B PROVE FALSE
  BY <1>1
<1> DEFINE p == Parent[n]
<1>3. p \in Node /\ p \notin Above[p] /\ Above[n] = Above[p] \cup {p}
  BY <1>2, ParentOf
<1>4. IsFiniteSet(Above[p])
  BY <1>3, ParentOf, TreeAssumption, FS_Subset
<1>5. Cardinality(Above[n]) = Cardinality(Above[p]) + 1 /\ Cardinality(Above[p]) \in Nat
  BY <1>3, <1>4, FS_AddElement, FS_CardinalityType
<1>6. Cardinality(Above[n]) <= Cardinality(Above[p])
  BY <1>1, <1>2
<1>7. QED
  BY <1>5, <1>6

LEMMA AboveAbove ==
    ASSUME NEW n \in Node, NEW m \in Within(n)
    PROVE  Within(m) \subseteq Within(n) /\ Above[m] \subseteq Above[n]
<1> DEFINE B == {x \in Node : \E y \in Above[x] : ~(Above[y] \subseteq Above[x])}
<1>1. B = {}
  <2>1. SUFFICES ASSUME B # {} PROVE FALSE
    OBVIOUS
  <2>2. PICK x \in B : Parent[x] = Root \/ Parent[x] \notin B
    BY <2>1, Deepest
  <2>3. PICK y \in Above[x] : ~(Above[y] \subseteq Above[x])
    OBVIOUS
  <2>4. Parent[x] # Root /\ Parent[x] \in Node /\ Above[x] = {Parent[x]} \cup Above[Parent[x]]
    BY <2>3, ParentOf
  <2>5. \A z \in Above[Parent[x]] : Above[z] \subseteq Above[Parent[x]]
    BY <2>2, <2>4
  <2>6. QED
    BY <2>3, <2>4, <2>5
<1>2. QED
  BY <1>1 DEF Within

(* Two on the way to a path are on the way to each other.                  *)
LEMMA OneWay ==
    ASSUME NEW n \in Node, NEW x \in Within(n), NEW y \in Within(n)
    PROVE  x \in Within(y) \/ y \in Within(x)
<1> DEFINE Bad(z) == \E v, w \in Within(z) : ~(v \in Within(w) \/ w \in Within(v))
           B == {z \in Node : Bad(z)}
<1>1. B = {}
  <2>1. SUFFICES ASSUME B # {} PROVE FALSE
    OBVIOUS
  <2>2. PICK z \in B : Parent[z] = Root \/ Parent[z] \notin B
    BY <2>1, Deepest
  <2>3. PICK v \in Within(z), w \in Within(z) : ~(v \in Within(w) \/ w \in Within(v))
    BY <2>2
  <2>4. v # z /\ w # z
    BY <2>3
  <2>5. Parent[z] # Root /\ Parent[z] \in Node /\ v \in Within(Parent[z]) /\ w \in Within(Parent[z])
    BY <2>3, <2>4, <2>2, ParentOf
  <2>6. QED
    BY <2>2, <2>3, <2>5
<1>2. QED
  BY <1>1

LEMMA ChildTowards ==
    ASSUME NEW n \in Node, NEW m \in Above[n]
    PROVE  \E c \in Within(n) : Parent[c] = m
<1> DEFINE B == {z \in Node : \E y \in Above[z] : \A c \in Within(z) : Parent[c] # y}
<1>1. B = {}
  <2>1. SUFFICES ASSUME B # {} PROVE FALSE
    OBVIOUS
  <2>2. PICK z \in B : Parent[z] = Root \/ Parent[z] \notin B
    BY <2>1, Deepest
  <2>3. PICK y \in Above[z] : \A c \in Within(z) : Parent[c] # y
    BY <2>2
  <2>4. /\ Parent[z] # Root /\ Parent[z] \in Node /\ y \in Within(Parent[z])
        /\ Within(z) = {z} \cup Within(Parent[z])
    BY <2>2, <2>3, ParentOf
  <2>5. y # Parent[z]
    BY <2>3, <2>4
  <2>6. y \in Above[Parent[z]]
    BY <2>4, <2>5 DEF Within
  <2>7. QED
    BY <2>2, <2>3, <2>4, <2>6
<1>2. QED
  BY <1>1

LEMMA Highest ==
    ASSUME NEW B, B \subseteq Node, B # {}
    PROVE  \E n \in B : Above[n] \cap B = {}
<1>1. PICK n \in B : \A m \in B : Cardinality(Above[n]) <= Cardinality(Above[m])
  BY Fewest
<1>2. SUFFICES ASSUME NEW m \in Above[n], m \in B PROVE FALSE
  BY <1>1
<1>3. m \in Node /\ n \in Node /\ Above[m] \subseteq Above[n] /\ m \notin Above[m]
  BY AboveAbove, ParentOf DEF Within
<1>4. IsFiniteSet(Above[m] \cup {m}) /\ IsFiniteSet(Above[n]) /\ IsFiniteSet(Above[m])
  BY <1>3, ParentOf, TreeAssumption, FS_Subset, FS_AddElement
<1>5. Cardinality(Above[m] \cup {m}) = Cardinality(Above[m]) + 1 /\ Cardinality(Above[m]) \in Nat
  BY <1>3, <1>4, FS_AddElement, FS_CardinalityType
<1>6. Cardinality(Above[m] \cup {m}) <= Cardinality(Above[n])
  <2>1. Above[m] \cup {m} \subseteq Above[n]
    BY <1>2, <1>3
  <2>2. QED
    BY <2>1, <1>4, FS_Subset
<1>7. Cardinality(Above[n]) \in Nat /\ Cardinality(Above[n]) <= Cardinality(Above[m])
  BY <1>1, <1>2, <1>4, FS_CardinalityType
<1>8. QED
  BY <1>5, <1>6, <1>7

LEMMA DirectoriesAbove ==
    ASSUME NEW files, IsTree(files), NEW n \in Node, files[n].type # "none", NEW m \in Above[n]
    PROVE  files[m].type = "dir"
<1> DEFINE B == {z \in Node : files[z].type # "none" /\ \E y \in Above[z] : files[y].type # "dir"}
<1>1. B = {}
  <2>1. SUFFICES ASSUME B # {} PROVE FALSE
    OBVIOUS
  <2>2. PICK z \in B : Parent[z] = Root \/ Parent[z] \notin B
    BY <2>1, Deepest
  <2>3. PICK y \in Above[z] : files[y].type # "dir"
    BY <2>2
  <2>4. Parent[z] # Root /\ Parent[z] \in Node /\ Above[z] = {Parent[z]} \cup Above[Parent[z]]
    BY <2>2, <2>3, ParentOf
  <2>5. files[Parent[z]].type = "dir"
    BY <2>2, <2>4 DEF IsTree
  <2>6. QED
    BY <2>2, <2>3, <2>4, <2>5
<1>2. QED
  BY <1>1

-----------------------------------------------------------------------------
(* The walk of the backup.                                                 *)

LEMMA SourceIs ==
    ASSUME NEW file \in SourceFiles
    PROVE  /\ file.type \in {"none", "dir", "other", "file", "link"}
           /\ file.type \in {"none", "dir", "other"} => file.data = ""
           /\ file.type = "file" => file.data \in Contents
           /\ file.type = "link" => file.data \in Seq(Pieces) /\ file.data # <<>>
BY DEF SourceFiles

LEMMA LineIs ==
    ASSUME NEW line \in Lines
    PROVE  /\ line.type \in {"D", "F", "S", "rest"}
           /\ line.type # "rest" => line.path \in Node
           /\ line.type = "rest" => line.path = Root
           /\ line.type = "D" => line.data = ""
           /\ line.type = "F" => line.data \in Contents
           /\ line.type \in {"S", "rest"} => line.data \in Pieces
           /\ line = [type |-> line.type, path |-> line.path, data |-> line.data]
BY DEF Lines

LEMMA Single ==
    ASSUME NEW S, NEW x \in S
    PROVE  <<x>> \in Seq(S) /\ Len(<<x>>) = 1 /\ <<x>>[1] = x /\ Head(<<x>>) = x /\ Range(<<x>>) = {x}
<1>1. <<x>> \in Seq(S) /\ Len(<<x>>) = 1 /\ <<x>>[1] = x
  OBVIOUS
<1>2. Head(<<x>>) = x
  OBVIOUS
<1>3. Range(<<x>>) = {x}
  BY <1>1 DEF Range
<1>4. QED
  BY <1>1, <1>2, <1>3

LEMMA Joined ==
    ASSUME NEW S, NEW s \in Seq(S), NEW t \in Seq(S)
    PROVE  /\ s \o t \in Seq(S) /\ DOMAIN (s \o t) = 1..Len(s) + Len(t)
           /\ DOMAIN s = 1..Len(s) /\ DOMAIN t = 1..Len(t) /\ Len(s) \in Nat /\ Len(t) \in Nat
           /\ \A i \in DOMAIN s : i \in DOMAIN (s \o t) /\ (s \o t)[i] = s[i]
           /\ \A i \in DOMAIN t : Len(s) + i \in DOMAIN (s \o t) /\ (s \o t)[Len(s) + i] = t[i]
           /\ \A i \in DOMAIN (s \o t) : i \in DOMAIN s \/ \E j \in DOMAIN t : i = Len(s) + j
           /\ Range(s \o t) = Range(s) \cup Range(t)
<1>1. /\ s \o t \in Seq(S) /\ Len(s \o t) = Len(s) + Len(t)
      /\ \A i \in 1..Len(s) + Len(t) : (s \o t)[i] = IF i <= Len(s) THEN s[i] ELSE t[i - Len(s)]
  BY ConcatProperties
<1>2. DOMAIN (s \o t) = 1..Len(s) + Len(t) /\ DOMAIN s = 1..Len(s) /\ DOMAIN t = 1..Len(t)
  <2>1. DOMAIN (s \o t) = 1..Len(s \o t)
    BY <1>1, LenProperties
  <2>2. QED
    BY <1>1, <2>1, LenProperties
<1>3. Len(s) \in Nat /\ Len(t) \in Nat
  BY LenProperties
<1> DEFINE st == s \o t
<1>4. \A i \in DOMAIN s : i \in DOMAIN st /\ st[i] = s[i]
  BY <1>1, <1>2, <1>3
<1>5. \A i \in DOMAIN t : Len(s) + i \in DOMAIN st /\ st[Len(s) + i] = t[i]
  BY <1>1, <1>2, <1>3
<1>6. \A i \in DOMAIN st : i \in DOMAIN s \/ \E j \in DOMAIN t : i = Len(s) + j
  <2> SUFFICES ASSUME NEW i \in DOMAIN st, i \notin DOMAIN s PROVE \E j \in DOMAIN t : i = Len(s) + j
    OBVIOUS
  <2>1. i \in 1..Len(s) + Len(t) /\ ~(i <= Len(s))
    BY <1>2, <1>3
  <2>2. i - Len(s) \in 1..Len(t) /\ i = Len(s) + (i - Len(s))
    BY <1>3, <2>1
  <2>3. QED
    BY <1>2, <2>2
<1> HIDE DEF st
<1>7. Range(st) = Range(s) \cup Range(t)
  BY <1>4, <1>5, <1>6 DEF Range
<1>8. QED
  BY <1>1, <1>2, <1>3, <1>4, <1>5, <1>6, <1>7 DEF st

LEMMA LineHas ==
    ASSUME NEW type, NEW n, NEW data
    PROVE  Line(type, n, data).type = type /\ Line(type, n, data).path = n /\ Line(type, n, data).data = data
BY DEF Line

LEMMA OneLine ==
    ASSUME NEW n \in Node
    PROVE  /\ DirectoryLine(n) = <<Line("D", n, "")>> /\ Line("D", n, "") \in Lines
           /\ \A id \in Contents : FileLine(n, id) = <<Line("F", n, id)>> /\ Line("F", n, id) \in Lines
           /\ \A piece \in Pieces : Line("S", n, piece) \in Lines
BY DEF DirectoryLine, FileLine, Line, Lines

LEMMA TargetLines ==
    ASSUME NEW n \in Node, NEW target \in Seq(Pieces), target # <<>>
    PROVE  /\ SymlinkLines(n, target) \in Seq(Lines)
           /\ DOMAIN SymlinkLines(n, target) = 1..Len(target)
           /\ SymlinkLines(n, target)[1] = Line("S", n, Head(target))
           /\ Head(SymlinkLines(n, target)) = Line("S", n, Head(target))
           /\ \A i \in 2..Len(target) : SymlinkLines(n, target)[i].type = "rest"
           /\ Len(target) \in Nat \ {0} /\ Head(target) \in Pieces
<1> DEFINE first == <<Line("S", n, Head(target))>>
           rests == [i \in 1..Len(target) - 1 |-> Rest(target[i + 1])]
           lines == first \o rests
<1>1. Len(target) \in Nat \ {0} /\ Head(target) \in Pieces
  BY EmptySeq, HeadTailProperties
<1>2. first \in Seq(Lines) /\ Len(first) = 1 /\ first[1] = Line("S", n, Head(target))
  <2>1. Line("S", n, Head(target)) \in Lines
    BY <1>1, OneLine
  <2>2. QED
    BY <2>1, Single
<1>3. \A i \in 1..Len(target) - 1 : Rest(target[i + 1]) \in Lines /\ Rest(target[i + 1]).type = "rest"
  <2> TAKE i \in 1..Len(target) - 1
  <2>1. target[i + 1] \in Pieces
    BY <1>1
  <2>2. QED
    BY <2>1 DEF Rest, Lines
<1>4. rests \in Seq(Lines) /\ Len(rests) = Len(target) - 1
  BY <1>1, <1>3
<1>5. SymlinkLines(n, target) = lines
  BY DEF SymlinkLines
<1>6. \A i \in 1..Len(target) - 1 : rests[i].type = "rest"
  <2> TAKE i \in 1..Len(target) - 1
  <2>1. rests[i] = Rest(target[i + 1])
    OBVIOUS
  <2>2. QED
    BY <1>3, <2>1
<1> HIDE DEF first, rests
<1>7. /\ lines \in Seq(Lines) /\ DOMAIN lines = 1..Len(first) + Len(rests)
      /\ \A i \in DOMAIN first : lines[i] = first[i]
      /\ \A i \in DOMAIN rests : lines[Len(first) + i] = rests[i]
      /\ DOMAIN rests = 1..Len(rests) /\ DOMAIN first = 1..Len(first)
  BY <1>2, <1>4, Joined
<1> HIDE DEF lines
<1>8. DOMAIN lines = 1..Len(target) /\ lines[1] = first[1]
  BY <1>1, <1>2, <1>4, <1>7
<1>9. \A i \in 2..Len(target) : lines[i].type = "rest"
  <2> TAKE i \in 2..Len(target)
  <2>1. i - 1 \in DOMAIN rests /\ i - 1 \in 1..Len(target) - 1 /\ Len(first) + (i - 1) = i
    BY <1>1, <1>2, <1>4, <1>7
  <2>2. lines[Len(first) + (i - 1)] = rests[i - 1]
    BY <1>7, <2>1
  <2>3. QED
    BY <1>6, <2>1, <2>2
<1>10. Head(lines) = first[1]
  BY <1>7, <1>8
<1>11. QED
  BY <1>1, <1>2, <1>5, <1>7, <1>8, <1>9, <1>10

LEMMA LineOfIs ==
    ASSUME source \in [Node -> SourceFiles], NEW n \in Node, source[n].type \in {"dir", "file", "link"}
    PROVE  /\ LineOf(n) \in Lines /\ LineOf(n).path = n
           /\ source[n].type = "dir" => LineOf(n) = Line("D", n, "") /\ LineOf(n).type = "D"
           /\ source[n].type = "file" =>
                  LineOf(n) = Line("F", n, source[n].data) /\ LineOf(n).type = "F" /\ source[n].data \in Contents
           /\ source[n].type = "link" =>
                  LineOf(n) = Line("S", n, Head(source[n].data)) /\ LineOf(n).type = "S"
<1>1. source[n] \in SourceFiles
  OBVIOUS
<1>2. CASE source[n].type = "dir"
  <2>1. LineOf(n) = Line("D", n, "") /\ Line("D", n, "") \in Lines
    <3>1. DirectoryLine(n) = <<Line("D", n, "")>> /\ Line("D", n, "") \in Lines
      BY OneLine
    <3>2. Head(DirectoryLine(n)) = Line("D", n, "")
      BY <3>1, Single
    <3>3. QED
      BY <1>2, <3>2, <3>1 DEF LineOf
  <2>2. Line("D", n, "").type = "D" /\ Line("D", n, "").path = n
    BY DEF Line
  <2>3. QED
    BY <1>2, <2>1, <2>2
<1>3. CASE source[n].type = "file"
  <2> DEFINE line == Line("F", n, source[n].data)
  <2>1. LineOf(n) = line /\ line \in Lines /\ source[n].data \in Contents
    <3>1. source[n].data \in Contents
      BY <1>1, <1>3, SourceIs
    <3>2. FileLine(n, source[n].data) = <<line>> /\ line \in Lines
      BY <3>1, OneLine
    <3>3. Head(FileLine(n, source[n].data)) = line
      BY <3>2, Single
    <3>4. QED
      BY <1>3, <3>3, <3>1, <3>2 DEF LineOf
  <2>2. line.type = "F" /\ line.path = n
    BY LineHas
  <2>3. QED
    BY <1>3, <2>1, <2>2
<1>4. CASE source[n].type = "link"
  <2> DEFINE line == Line("S", n, Head(source[n].data))
  <2>1. LineOf(n) = line /\ line \in Lines
    <3>1. source[n].data \in Seq(Pieces) /\ source[n].data # <<>>
      BY <1>1, <1>4, SourceIs
    <3>2. Head(SymlinkLines(n, source[n].data)) = line /\ Head(source[n].data) \in Pieces
      BY <3>1, TargetLines
    <3>3. line \in Lines
      BY <3>2, OneLine
    <3>4. QED
      BY <1>4, <3>2, <3>3 DEF LineOf
  <2>2. line.type = "S" /\ line.path = n
    BY LineHas
  <2>3. QED
    BY <1>4, <2>1, <2>2
<1>5. QED
  BY <1>2, <1>3, <1>4

(* What depends only on the file system and on the options.                *)
LEMMA SameTree ==
    ASSUME UNCHANGED <<source, config, dirs>>
    PROVE  /\ \A n, top : Listed(n, top)' <=> Listed(n, top)
           /\ \A n, top : Via(n, top)' <=> Via(n, top)
           /\ \A n : Wanted(n)' <=> Wanted(n)
           /\ \A n : Storable(n)' <=> Storable(n)
           /\ \A n : LineOf(n)' = LineOf(n)
<1>1. source' = source /\ config' = config /\ dirs' = dirs
  OBVIOUS
<1>2. \A n, top : Listed(n, top)' <=> Listed(n, top)
  BY <1>1 DEF Listed
<1>3. \A n, top : Via(n, top)' <=> Via(n, top)
  BY <1>1, <1>2, Zenon DEF Via
<1>4. \A n : Wanted(n)' <=> Wanted(n)
  BY <1>1, <1>2, Zenon DEF Wanted
<1>5. \A n : Storable(n)' <=> Storable(n)
  BY <1>1, Zenon DEF Storable
<1>6. \A n : LineOf(n)' = LineOf(n)
  BY <1>1, Zenon DEF LineOf
<1>7. QED
  BY <1>2, <1>3, <1>4, <1>5, <1>6

LEMMA WantedVia ==
    ASSUME NEW n \in Node
    PROVE  Wanted(n) <=> Storable(n) /\ \E top \in Range(dirs) : Via(n, top)
BY DEF Wanted, Storable, Via

(* One step further down.                                                  *)
LEMMA ViaChild ==
    ASSUME NEW n \in Node, NEW top, Parent[n] # Root, Via(Parent[n], top),
           Listed(Parent[n], top), n \notin config.exclude
    PROVE  Via(n, top)
<1>1. top \in Within(n) /\ Within(n) = {n} \cup Within(Parent[n])
  BY ParentOf DEF Via
<1>2. QED
  BY <1>1 DEF Via

LEMMA ViaItself ==
    ASSUME NEW n \in Node
    PROVE  Via(n, n)
<1>1. SUFFICES ASSUME NEW m \in Within(n), n \in Above[m] PROVE FALSE
  BY ParentOf DEF Via
<1>2. Above[m] \subseteq Above[n] /\ n \notin Above[n]
  BY AboveAbove, ParentOf
<1>3. QED
  BY <1>1, <1>2

(* On the way down to a path there are only directories that are listed.   *)
LEMMA OnTheWay ==
    ASSUME NEW n \in Node, NEW top, Via(n, top), NEW m \in Above[n], top \in Within(m)
    PROVE  Listed(m, top) /\ m \in Node
<1>1. PICK c \in Within(n) : Parent[c] = m
  BY ChildTowards
<1>2. c \in Node /\ m \in Node /\ m # Root
  BY <1>1, ParentOf
<1>3. top \in Above[c]
  BY <1>1, <1>2, ParentOf
<1>4. QED
  BY <1>1, <1>2, <1>3 DEF Via

LEMMA WayDown ==
    ASSUME NEW n \in Node, NEW top, Via(n, top), NEW m \in Within(n), top \in Above[m]
    PROVE  m \notin config.exclude
BY DEF Via

LEMMA Untouched ==
    ASSUME TouchedInv, NEW n \in Node, n \notin touched, NEW m \in Within(n)
    PROVE  m \notin touched /\ m \in Node
<1>1. m \in Node /\ (m = n \/ n \in Beneath(m))
  BY ParentOf DEF Within, Beneath
<1>2. QED
  BY <1>1 DEF TouchedInv

(* Lines are added for a path that the walk has come to.                   *)
GoodLines(lines, n) ==
    /\ lines \in Seq(Lines)
    /\ \A i \in DOMAIN lines :
           \/ /\ lines[i].type # "rest" /\ lines[i].path = n
              /\ n \notin touched => Wanted(n) /\ lines[i] = LineOf(n)
           \/ lines[i].type = "rest"
    /\ touched = {} /\ (\A m \in Node : source[m].type = "link" => Plain(source[m].data)) =>
           \A i \in DOMAIN lines :
               lines[i].type # "rest" /\ (lines[i].type = "S" => lines[i].data \in {"short", "long"})

LEMMA LinesAdded ==
    ASSUME BackupInv, UNCHANGED <<source, touched, config, dirs>>,
           NEW n, NEW lines, GoodLines(lines, n), shabackup' = shabackup \o lines
    PROVE  LinesInv' /\ RestInv' /\ shabackup' \in Seq(Lines) /\ Range(shabackup') = Range(shabackup) \cup Range(lines)
<1> DEFINE all == shabackup \o lines
<1>1. /\ all \in Seq(Lines) /\ Range(all) = Range(shabackup) \cup Range(lines)
      /\ \A i \in DOMAIN shabackup : all[i] = shabackup[i]
      /\ \A i \in DOMAIN lines : all[Len(shabackup) + i] = lines[i]
      /\ \A i \in DOMAIN all : i \in DOMAIN shabackup \/ \E j \in DOMAIN lines : i = Len(shabackup) + j
  BY Joined DEF BackupInv, BackupTypeOK, GoodLines
<1>2. \A i \in DOMAIN all :
          (\E j \in DOMAIN shabackup : all[i] = shabackup[j]) \/ \E j \in DOMAIN lines : all[i] = lines[j]
  BY <1>1
<1> HIDE DEF all
<1>3. shabackup' = all
  BY DEF all
<1>4. LinesInv'
  <2>1. SUFFICES ASSUME NEW i \in DOMAIN all, all[i].type # "rest", all[i].path \notin touched
                 PROVE  Wanted(all[i].path) /\ all[i] = LineOf(all[i].path)
    BY <1>3, SameTree, Zenon DEF LinesInv
  <2>2. CASE \E j \in DOMAIN shabackup : all[i] = shabackup[j]
    BY <2>1, <2>2 DEF BackupInv, LinesInv
  <2>3. CASE \E j \in DOMAIN lines : all[i] = lines[j]
    BY <2>1, <2>3 DEF GoodLines
  <2>4. QED
    BY <1>2, <2>2, <2>3
<1>5. RestInv'
  <2>1. SUFFICES ASSUME touched = {}, \A m \in Node : source[m].type = "link" => Plain(source[m].data), NEW i \in DOMAIN all
                 PROVE  all[i].type # "rest" /\ (all[i].type = "S" => all[i].data \in {"short", "long"})
    <3>1. touched' = touched /\ source' = source /\ shabackup' = all
      BY <1>3
    <3>2. QED
      BY <2>1, <3>1, Zenon DEF RestInv
  <2>2. CASE \E j \in DOMAIN shabackup : all[i] = shabackup[j]
    BY <2>1, <2>2 DEF BackupInv, RestInv
  <2>3. CASE \E j \in DOMAIN lines : all[i] = lines[j]
    BY <2>1, <2>3 DEF GoodLines
  <2>4. QED
    BY <1>2, <2>2, <2>3
<1>6. QED
  BY <1>1, <1>3, <1>4, <1>5

LEMMA LinesStay ==
    ASSUME BackupInv, UNCHANGED <<source, touched, config, dirs, shabackup>>
    PROVE  LinesInv' /\ RestInv'
<1>1. LinesInv'
  BY SameTree, Zenon DEF BackupInv, LinesInv
<1>2. RestInv'
  BY Zenon DEF BackupInv, RestInv
<1>3. QED
  BY <1>1, <1>2

(* What the walk has not come to yet, it still comes to.                   *)
LEMMA Covered ==
    ASSUME BackupInv, UNCHANGED <<source, touched, config, dirs, dirsDone>>,
           Range(shabackup) \subseteq Range(shabackup)', ~backupError' => ~backupError,
           \A n \in Node \ touched :
               ~backupError' /\ dirsDone > 0 /\ Storable(n) /\ Via(n, CurrentTop) /\ Pending(n) =>
                   LineOf(n) \in Range(shabackup)' \/ Pending(n)'
    PROVE  CoverInv'
<1>1. SUFFICES ASSUME ~backupError', NEW n \in Node \ touched, NEW k \in 1..dirsDone, Storable(n), Via(n, dirs[k])
               PROVE  LineOf(n) \in Range(shabackup)' \/ (k = dirsDone /\ Pending(n)')
  <2>1. dirsDone' = dirsDone /\ touched' = touched /\ dirs' = dirs
    OBVIOUS
  <2>2. \A m, top : (Storable(m)' <=> Storable(m)) /\ (Via(m, top)' <=> Via(m, top)) /\ LineOf(m)' = LineOf(m)
    BY SameTree, Zenon
  <2>3. QED
    BY <2>1, <2>2, <1>1 DEF CoverInv
<1>2. LineOf(n) \in Range(shabackup) \/ (k = dirsDone /\ Pending(n))
  BY <1>1 DEF BackupInv, CoverInv
<1>3. CASE k = dirsDone /\ Pending(n)
  <2>1. dirsDone > 0 /\ Via(n, CurrentTop)
    BY <1>1, <1>3 DEF CurrentTop
  <2>2. QED
    BY <1>1, <1>3, <2>1
<1>4. QED
  BY <1>2, <1>3

(* The file in hand is handled.  What is to be stored and is still to come *)
(* through it, is itself, or below a directory that is listed.             *)
LEMMA InHandIs ==
    ASSUME BackupInv, child.path # Root, NEW n \in Node \ touched, Storable(n), Via(n, CurrentTop),
           child.path \in Within(n)
    PROVE  /\ child.path \in Node /\ child.path \notin touched
           /\ child.type = source[child.path].type /\ child.type \in {"dir", "file", "link"}
           /\ child.path \notin OddNames
           /\ n # child.path => child.type = "dir" /\ Listed(child.path, CurrentTop)
<1> DEFINE x == child.path
<1>1. x \in Node /\ x \notin touched
  BY Untouched DEF BackupInv
<1>2. child.type = source[x].type /\ CurrentTop \in Within(x)
  BY <1>1 DEF BackupInv, ChildInv
<1>3. CASE n = x
  BY <1>1, <1>2, <1>3 DEF Storable
<1>4. CASE n # x
  <2>1. x \in Above[n]
    BY <1>4 DEF Within
  <2>2. Listed(x, CurrentTop)
    BY <2>1, <1>2, OnTheWay
  <2>3. QED
    BY <1>1, <1>2, <2>2 DEF Listed
<1>5. QED
  BY <1>3, <1>4

LEMMA HandledKeeps ==
    ASSUME BackupInv, backupPc = "handle", child' = NoChild, backupPc' = "next",
           UNCHANGED <<source, touched, config, dirs, dirsDone, stack>>, backupError' \in BOOLEAN,
           ~backupError' => ~backupError,
           \/ UNCHANGED shabackup
           \/ \E lines : GoodLines(lines, child.path) /\ shabackup' = shabackup \o lines,
           \A n \in Node \ touched :
               ~backupError' /\ Storable(n) /\ Via(n, CurrentTop) /\ child.path \in Within(n) =>
                   LineOf(n) \in Range(shabackup)'
    PROVE  BackupInv'
<1>1. LinesInv' /\ RestInv' /\ shabackup' \in Seq(Lines) /\ Range(shabackup) \subseteq Range(shabackup)'
  <2>1. CASE UNCHANGED shabackup
    <3>1. shabackup' \in Seq(Lines) /\ Range(shabackup) \subseteq Range(shabackup)'
      BY <2>1 DEF BackupInv, BackupTypeOK, Range
    <3>2. QED
      BY <2>1, <3>1, LinesStay
  <2>2. CASE \E lines : GoodLines(lines, child.path) /\ shabackup' = shabackup \o lines
    <3>1. PICK lines : GoodLines(lines, child.path) /\ shabackup' = shabackup \o lines
      BY <2>2
    <3>2. /\ LinesInv' /\ RestInv' /\ shabackup' \in Seq(Lines)
          /\ Range(shabackup') = Range(shabackup) \cup Range(lines)
      BY <3>1, LinesAdded
    <3>3. QED
      BY <3>2
  <2>3. QED
    BY <2>1, <2>2
<1>2. CoverInv'
  <2>1. \A n \in Node \ touched :
            ~backupError' /\ dirsDone > 0 /\ Storable(n) /\ Via(n, CurrentTop) /\ Pending(n) =>
                LineOf(n) \in Range(shabackup)' \/ Pending(n)'
    BY DEF Pending
  <2>2. QED
    BY <1>1, <2>1, Covered
<1>3. TouchedInv'
  BY DEF BackupInv, TouchedInv
<1>4. StackInv'
  BY SameTree, Zenon DEF BackupInv, StackInv, CurrentTop
<1>5. ChildInv'
  BY DEF ChildInv, NoChild
<1>6. BackupTypeOK'
  BY <1>1 DEF BackupInv, BackupTypeOK, NoChild, SourceTypes, IsTree
<1>7. QED
  BY <1>1, <1>2, <1>3, <1>4, <1>5, <1>6 DEF BackupInv

(* The steps of the walk.                                                  *)
LEMMA NextDirKeeps ==
    ASSUME BackupInv, NextDir
    PROVE  BackupInv'
<1> DEFINE top == dirs[dirsDone + 1]
<1>1. /\ backupPc = "next" /\ stack = <<>> /\ dirsDone < Len(dirs) /\ dirsDone' = dirsDone + 1
      /\ child' = [path |-> top, type |-> source[top].type] /\ backupPc' = "handle"
      /\ UNCHANGED <<source, touched, config, dirs, stack, shabackup, backupError>>
  BY DEF NextDir, Lstat
<1>2. top \in Node /\ dirsDone \in Nat /\ Len(dirs) \in Nat /\ child = NoChild /\ top # Root
  <2>1. dirs \in Seq(Node) /\ dirsDone \in 0..Len(dirs) /\ Len(dirs) \in Nat
    BY LenProperties DEF BackupInv, BackupTypeOK
  <2>2. dirsDone + 1 \in 1..Len(dirs)
    BY <1>1, <2>1
  <2>3. top \in Node
    BY <2>1, <2>2, ElementOfSeq
  <2>4. child = NoChild
    BY <1>1 DEF BackupInv, ChildInv
  <2>5. QED
    BY <2>1, <2>3, <2>4, ParentOf
<1>3. CurrentTop' = top
  BY <1>1 DEF CurrentTop
<1>4. Via(top, top) /\ top \in Within(top)
  BY <1>2, ViaItself, ParentOf
<1>5. BackupTypeOK'
  <2>1. source[top].type \in SourceTypes
    BY <1>2, SourceIs DEF BackupInv, BackupTypeOK, SourceTypes
  <2>2. QED
    BY <1>1, <1>2, <2>1 DEF BackupInv, BackupTypeOK, IsTree
<1>6. StackInv'
  BY <1>1 DEF StackInv
<1>7. ChildInv'
  <2>1. PICK t \in Node : t = top
    BY <1>2
  <2>2. Via(t, t)' /\ t \in Within(t) /\ t # Root
    BY <1>1, <1>2, <1>4, <2>1, SameTree
  <2>3. /\ child'.path = t /\ child'.type = source'[t].type /\ stack' = <<>>
        /\ backupPc' = "handle" /\ CurrentTop' = t
    BY <1>1, <1>3, <2>1
  <2>4. dirsDone' > 0
    BY <1>1, <1>2
  <2>5. QED
    BY <2>2, <2>3, <2>4 DEF ChildInv
<1>8. CoverInv'
  <2>1. SUFFICES ASSUME ~backupError, NEW n \in Node \ touched, NEW k \in 1..dirsDone + 1, Storable(n), Via(n, dirs[k])
                 PROVE  LineOf(n) \in Range(shabackup) \/ (k = dirsDone + 1 /\ Pending(n)')
    <3>1. \A m, t : (Storable(m)' <=> Storable(m)) /\ (Via(m, t)' <=> Via(m, t)) /\ LineOf(m)' = LineOf(m)
      BY <1>1, SameTree, Zenon
    <3>2. QED
      BY <1>1, <3>1, <2>1 DEF CoverInv, Range
  <2>2. CASE k = dirsDone + 1
    <3>1. top \in Within(n)
      BY <2>1, <2>2 DEF Via
    <3>2. QED
      BY <1>1, <2>2, <3>1 DEF Pending
  <2>3. CASE k # dirsDone + 1
    <3>1. k \in 1..dirsDone
      BY <1>2, <2>3
    <3>2. LineOf(n) \in Range(shabackup) \/ Pending(n)
      BY <2>1, <3>1 DEF BackupInv, CoverInv
    <3>3. ~Pending(n)
      <4>1. \A m \in Within(n) : m # Root
        BY ParentOf
      <4>2. QED
        BY <1>1, <1>2, <4>1 DEF Pending, NoChild
    <3>4. QED
      BY <3>2, <3>3
  <2>4. QED
    BY <2>2, <2>3
<1>9. LinesInv' /\ RestInv' /\ TouchedInv'
  BY <1>1, LinesStay DEF BackupInv, TouchedInv
<1>10. QED
  BY <1>1, <1>5, <1>6, <1>7, <1>8, <1>9 DEF BackupInv

LEMMA TopOf ==
    ASSUME BackupInv, stack # <<>>
    PROVE  /\ Len(stack) \in Nat \ {0} /\ 1 \in DOMAIN stack /\ Top = stack[1]
           /\ DOMAIN stack = 1..Len(stack)
           /\ stack \in Seq([path : Node, files : SUBSET Node])
           /\ Top.path \in Node /\ Top.files \subseteq Node
           /\ \A n \in Top.files : Parent[n] = Top.path /\ n \in Node /\ n # Root /\ Parent[n] # Root
<1>1. stack \in Seq([path : Node, files : SUBSET Node])
  BY DEF BackupInv, BackupTypeOK
<1>2. Len(stack) \in Nat \ {0} /\ DOMAIN stack = 1..Len(stack)
  BY <1>1, EmptySeq, LenProperties
<1>3. Top = stack[1]
  BY <1>1, <1>2 DEF Top
<1>4. 1 \in DOMAIN stack /\ stack[1] \in [path : Node, files : SUBSET Node]
  <2>1. 1 \in 1..Len(stack)
    BY <1>2
  <2>2. stack[1] \in [path : Node, files : SUBSET Node]
    BY <1>1, <2>1, ElementOfSeq
  <2>3. QED
    BY <1>2, <2>1, <2>2
<1>5. \A n \in Top.files : Parent[n] = Top.path
  BY <1>3, <1>4 DEF BackupInv, BackupTypeOK
<1>6. Top.path \in Node /\ Top.files \subseteq Node
  BY <1>3, <1>4
<1>7. \A n \in Top.files : n \in Node /\ n # Root /\ Parent[n] # Root
  BY <1>5, <1>6, ParentOf
<1>8. QED
  BY <1>1, <1>2, <1>3, <1>4, <1>5, <1>6, <1>7

LEMMA NextChildKeeps ==
    ASSUME BackupInv, NextChild
    PROVE  BackupInv'
<1>1. PICK n \in Top.files :
          /\ backupPc = "next" /\ stack # <<>> /\ stack' = [stack EXCEPT ![1].files = @ \ {n}]
          /\ IF n \in config.exclude THEN UNCHANGED <<child, backupPc>> ELSE Lstat(n)
          /\ UNCHANGED <<source, touched, config, dirs, dirsDone, shabackup, backupError>>
  BY DEF NextChild
<1>2. /\ Len(stack) \in Nat \ {0} /\ 1 \in DOMAIN stack /\ Top = stack[1]
      /\ DOMAIN stack = 1..Len(stack)
      /\ stack \in Seq([path : Node, files : SUBSET Node])
      /\ Top.path \in Node /\ Parent[n] = Top.path /\ n \in Node /\ n # Root /\ Parent[n] # Root
  BY <1>1, TopOf
<1>3. /\ stack' \in Seq([path : Node, files : SUBSET Node]) /\ DOMAIN stack' = DOMAIN stack
      /\ \A i \in DOMAIN stack : stack'[i].path = stack[i].path /\ stack'[i].files \subseteq stack[i].files
      /\ \A i \in DOMAIN stack : stack[i].files \ {n} \subseteq stack'[i].files
  <2> DEFINE new == [stack[1] EXCEPT !.files = @ \ {n}]
  <2>1. /\ new \in [path : Node, files : SUBSET Node] /\ new.path = stack[1].path
        /\ new.files = stack[1].files \ {n}
    <3>1. stack[1] \in [path : Node, files : SUBSET Node]
      BY <1>2, ElementOfSeq
    <3>2. QED
      BY <3>1
  <2> HIDE DEF new
  <2>2. stack' = [stack EXCEPT ![1] = new]
    BY <1>1 DEF new
  <2>3. stack' \in Seq([path : Node, files : SUBSET Node]) /\ DOMAIN stack' = DOMAIN stack
    BY <1>2, <2>1, <2>2
  <2>4. \A i \in DOMAIN stack : stack'[i] = IF i = 1 THEN new ELSE stack[i]
    BY <1>2, <2>2
  <2>5. QED
    BY <2>1, <2>3, <2>4
<1>4. stack' # <<>> /\ Top'.path = Top.path
  <2>1. stack' # <<>>
    BY <1>2, <1>3
  <2>2. Top' = stack'[1]
    BY <1>2, <1>3, <2>1 DEF Top
  <2>3. QED
    BY <1>2, <1>3, <2>1, <2>2
<1>5. dirsDone > 0 /\ CurrentTop \in Within(Top.path) /\ CurrentTop' = CurrentTop
      /\ (n \notin touched => Listed(Parent[n], CurrentTop) /\ Via(Parent[n], CurrentTop))
  BY <1>1, <1>2 DEF BackupInv, StackInv, CurrentTop
<1>6. CurrentTop \in Above[n] /\ CurrentTop \in Within(n)
  BY <1>2, <1>5, ParentOf
<1>7. child = NoChild
  BY <1>1 DEF BackupInv, ChildInv
<1>8. backupPc' \in {"next", "handle"} /\ (n \notin config.exclude => Lstat(n))
      /\ (n \in config.exclude => UNCHANGED <<child, backupPc>>)
  BY <1>1 DEF Lstat
<1>9. BackupTypeOK'
  <2>1. source[n].type \in SourceTypes
    BY <1>2, SourceIs DEF BackupInv, BackupTypeOK, SourceTypes
  <2>2. child'.path \in Node \cup {Root} /\ child'.type \in SourceTypes
    BY <1>2, <1>8, <2>1 DEF BackupInv, BackupTypeOK, Lstat
  <2>3. \A i \in DOMAIN stack' : \A m \in stack'[i].files : Parent[m] = stack'[i].path
    BY <1>3 DEF BackupInv, BackupTypeOK
  <2>4. source' \in [Node -> SourceFiles] /\ IsTree(source')
    BY <1>1 DEF BackupInv, BackupTypeOK
  <2>5. QED
    BY <1>1, <1>3, <1>8, <2>2, <2>3, <2>4 DEF BackupInv, BackupTypeOK
<1>10. StackInv'
  <2>1. SUFFICES ASSUME NEW i \in DOMAIN stack
                 PROVE  /\ CurrentTop \in Within(stack'[i].path)
                        /\ \A m \in stack'[i].files \ touched :
                               Listed(Parent[m], CurrentTop) /\ Via(Parent[m], CurrentTop)
    <3>1. \A m, t : (Listed(m, t)' <=> Listed(m, t)) /\ (Via(m, t)' <=> Via(m, t))
      BY <1>1, SameTree, Zenon
    <3>2. QED
      BY <1>1, <1>3, <1>5, <2>1, <3>1 DEF StackInv
  <2>2. QED
    BY <1>3 DEF BackupInv, StackInv
<1>11. ChildInv'
  <2>1. CASE n \in config.exclude
    BY <1>4, <1>7, <1>8, <1>1, <2>1 DEF ChildInv, NoChild
  <2>2. CASE n \notin config.exclude
    <3>1. child' = [path |-> n, type |-> source[n].type] /\ backupPc' = "handle"
      BY <1>8, <2>2 DEF Lstat
    <3>2. n \notin touched => Via(n, CurrentTop)
      BY <1>2, <1>5, <2>2, ViaChild
    <3>3. n \notin touched => Via(n, CurrentTop)'
      <4>1. Via(n, CurrentTop)' <=> Via(n, CurrentTop')
        BY <1>1, SameTree
      <4>2. QED
        BY <1>5, <3>2, <4>1
    <3>4. QED
      BY <1>1, <1>2, <1>4, <1>5, <1>6, <3>1, <3>3 DEF ChildInv
  <2>3. QED
    BY <2>1, <2>2
<1>12. CoverInv'
  <2>1. SUFFICES ASSUME NEW q \in Node \ touched, Via(q, CurrentTop), Pending(q)
                 PROVE  Pending(q)'
    BY <1>1, <2>1, Covered
  <2>2. PICK m \in Within(q) : m = child.path \/ \E i \in DOMAIN stack : m \in stack[i].files
    BY <2>1 DEF Pending
  <2>3. m # child.path
    <3>1. m # Root
      BY ParentOf
    <3>2. QED
      BY <1>7, <3>1 DEF NoChild
  <2>4. PICK i \in DOMAIN stack : m \in stack[i].files
    BY <2>2, <2>3
  <2>5. CASE m = n
    <3>1. n \notin config.exclude
      BY <1>6, <2>1, <2>5, WayDown
    <3>2. child'.path = n
      BY <1>8, <3>1 DEF Lstat
    <3>3. QED
      BY <2>5, <3>2 DEF Pending
  <2>6. CASE m # n
    <3>1. m \in stack'[i].files /\ i \in DOMAIN stack'
      BY <1>3, <2>4, <2>6
    <3>2. QED
      BY <3>1 DEF Pending
  <2>7. QED
    BY <2>5, <2>6
<1>13. LinesInv' /\ RestInv' /\ TouchedInv'
  BY <1>1, LinesStay DEF BackupInv, TouchedInv
<1>14. QED
  BY <1>1, <1>9, <1>10, <1>11, <1>12, <1>13 DEF BackupInv

LEMMA LeaveKeeps ==
    ASSUME BackupInv, LeaveDirectory
    PROVE  BackupInv'
<1>1. /\ backupPc = "next" /\ stack # <<>> /\ Top.files = {} /\ stack' = Tail(stack)
      /\ UNCHANGED <<source, touched, config, dirs, dirsDone, child, shabackup, backupError, backupPc>>
  BY DEF LeaveDirectory
<1>2. /\ Len(stack) \in Nat \ {0} /\ Top = stack[1] /\ DOMAIN stack = 1..Len(stack)
      /\ stack \in Seq([path : Node, files : SUBSET Node])
  BY <1>1, TopOf
<1>3. /\ stack' \in Seq([path : Node, files : SUBSET Node]) /\ DOMAIN stack' = 1..Len(stack) - 1
      /\ \A i \in DOMAIN stack' : stack'[i] = stack[i + 1] /\ i + 1 \in DOMAIN stack
  <2>1. /\ stack' \in Seq([path : Node, files : SUBSET Node]) /\ Len(stack') = Len(stack) - 1
        /\ \A i \in 1..Len(stack) - 1 : stack'[i] = stack[i + 1]
    BY <1>1, <1>2, HeadTailProperties
  <2>2. DOMAIN stack' = 1..Len(stack')
    BY <2>1, LenProperties
  <2>3. QED
    BY <1>2, <2>1, <2>2
<1>4. BackupTypeOK'
  <2>1. source' \in [Node -> SourceFiles] /\ IsTree(source')
    BY <1>1 DEF BackupInv, BackupTypeOK
  <2>2. \A i \in DOMAIN stack' : \A m \in stack'[i].files : Parent[m] = stack'[i].path
    BY <1>3 DEF BackupInv, BackupTypeOK
  <2>3. QED
    BY <1>1, <1>3, <2>1, <2>2 DEF BackupInv, BackupTypeOK
<1>5. StackInv'
  <2>1. SUFFICES ASSUME NEW i \in DOMAIN stack'
                 PROVE  /\ dirsDone > 0 /\ CurrentTop \in Within(stack'[i].path)
                        /\ \A m \in stack'[i].files \ touched :
                               Listed(Parent[m], CurrentTop) /\ Via(Parent[m], CurrentTop)
    <3>1. \A m, t : (Listed(m, t)' <=> Listed(m, t)) /\ (Via(m, t)' <=> Via(m, t))
      BY <1>1, SameTree, Zenon
    <3>2. CurrentTop' = CurrentTop
      BY <1>1 DEF CurrentTop
    <3>3. QED
      BY <1>1, <2>1, <3>1, <3>2 DEF StackInv
  <2>2. QED
    BY <1>3 DEF BackupInv, StackInv
<1>6. ChildInv'
  <2>1. child = NoChild
    BY <1>1 DEF BackupInv, ChildInv
  <2>2. QED
    BY <1>1, <2>1 DEF ChildInv, NoChild
<1>7. CoverInv'
  <2>1. SUFFICES ASSUME NEW q \in Node \ touched, Pending(q)
                 PROVE  Pending(q)'
    BY <1>1, <2>1, Covered
  <2>2. PICK m \in Within(q) : m = child.path \/ \E i \in DOMAIN stack : m \in stack[i].files
    BY <2>1 DEF Pending
  <2>3. CASE m = child.path
    BY <1>1, <2>3 DEF Pending
  <2>4. CASE \E i \in DOMAIN stack : m \in stack[i].files
    <3>1. PICK i \in DOMAIN stack : m \in stack[i].files
      BY <2>4
    <3>2. i # 1
      BY <1>1, <1>2, <3>1
    <3>3. i - 1 \in DOMAIN stack' /\ (i - 1) + 1 = i
      BY <1>2, <1>3, <3>1, <3>2
    <3>4. m \in stack'[i - 1].files
      BY <1>3, <3>1, <3>3
    <3>5. QED
      BY <3>3, <3>4 DEF Pending
  <2>5. QED
    BY <2>2, <2>3, <2>4
<1>8. LinesInv' /\ RestInv' /\ TouchedInv'
  BY <1>1, LinesStay DEF BackupInv, TouchedInv
<1>9. QED
  BY <1>1, <1>4, <1>5, <1>6, <1>7, <1>8 DEF BackupInv

LEMMA ComesToIt ==
    ASSUME BackupInv, child.path # Root, child.path \notin touched, Storable(child.path)
    PROVE  Wanted(child.path)
<1>1. Via(child.path, CurrentTop) /\ dirsDone > 0 /\ child.path \in Node
  BY DEF BackupInv, BackupTypeOK, ChildInv
<1>2. CurrentTop \in Range(dirs)
  BY <1>1 DEF BackupInv, BackupTypeOK, CurrentTop, Range
<1>3. QED
  BY <1>1, <1>2, WantedVia

LEMMA HandleSimpleKeeps ==
    ASSUME BackupInv, HandleNone \/ HandleOther
    PROVE  BackupInv'
<1>1. /\ backupPc = "handle" /\ child.type \in {"none", "other"} /\ child' = NoChild
      /\ backupPc' = "next"
      /\ UNCHANGED <<source, touched, config, dirs, dirsDone, stack, shabackup>>
      /\ backupError' = TRUE \/ backupError' = backupError
  <2>1. CASE HandleNone
    BY <2>1, Zenon DEF HandleNone, Handled, ReportError
  <2>2. CASE HandleOther
    BY <2>2, Zenon DEF HandleOther, Handled
  <2>3. QED
    BY <2>1, <2>2
<1>2. backupError' \in BOOLEAN /\ (~backupError' => ~backupError)
  <2>1. backupError \in BOOLEAN
    BY DEF BackupInv, BackupTypeOK
  <2>2. CASE backupError' = TRUE
    BY <2>2
  <2>3. CASE backupError' = backupError
    BY <2>1, <2>3
  <2>4. QED
    BY <1>1, <2>2, <2>3
<1>3. \A n \in Node \ touched : ~(Storable(n) /\ Via(n, CurrentTop) /\ child.path \in Within(n))
  BY <1>1, InHandIs DEF BackupInv, ChildInv
<1>4. QED
  BY <1>1, <1>2, <1>3, HandledKeeps

LEMMA HandleSymlinkKeeps ==
    ASSUME BackupInv, HandleSymlink
    PROVE  BackupInv'
<1> DEFINE x == child.path
           lines == SymlinkLines(x, Readlink(x))
<1>1. /\ backupPc = "handle" /\ child.type = "link" /\ child' = NoChild /\ backupPc' = "next"
      /\ UNCHANGED <<source, touched, config, dirs, dirsDone, stack>>
      /\ \/ x \in OddNames /\ backupError' = (backupError \/ ~config.ignoreNames) /\ UNCHANGED shabackup
         \/ backupError' = TRUE /\ UNCHANGED shabackup
         \/ x \notin OddNames /\ Readlink(x) # <<>> /\ shabackup' = shabackup \o lines /\ UNCHANGED backupError
  BY Zenon DEF HandleSymlink, Handled, ReportError, IgnoreName, WriteLines
<1>2. x # Root /\ x \in Node /\ backupError \in BOOLEAN /\ config.ignoreNames \in BOOLEAN
      /\ source \in [Node -> SourceFiles]
  BY <1>1 DEF BackupInv, BackupTypeOK, ChildInv
<1>3. backupError' \in BOOLEAN /\ (~backupError' => ~backupError)
  BY <1>1, <1>2
<1>4. \A n \in Node \ touched :
          Storable(n) /\ Via(n, CurrentTop) /\ x \in Within(n) => n = x /\ x \notin OddNames
  BY <1>1, <1>2, InHandIs
<1>5. CASE UNCHANGED shabackup
  <2>1. CASE x \in OddNames
    BY <1>1, <1>3, <1>4, <1>5, <2>1, HandledKeeps
  <2>2. CASE backupError' = TRUE
    BY <1>1, <1>3, <1>5, <2>2, HandledKeeps
  <2>3. CASE /\ x \notin OddNames /\ Readlink(x) # <<>> /\ shabackup' = shabackup \o lines
             /\ backupError' # TRUE
    <3>1. source[x].type = "link" /\ Readlink(x) = source[x].data
      BY <2>3 DEF Readlink
    <3>2. source[x].data \in Seq(Pieces) /\ source[x].data # <<>>
      BY <1>2, <3>1, SourceIs
    <3>3. lines \in Seq(Lines) /\ Len(lines) \in Nat \ {0}
      <4>1. lines \in Seq(Lines) /\ DOMAIN lines = 1..Len(Readlink(x)) /\ Len(Readlink(x)) \in Nat \ {0}
        BY <1>2, <3>1, <3>2, TargetLines
      <4>2. Len(lines) \in Nat /\ DOMAIN lines = 1..Len(lines)
        BY <4>1, LenProperties
      <4>3. Len(lines) # 0
        BY <4>1, <4>2
      <4>4. QED
        BY <4>2, <4>3, <4>1
    <3>4. shabackup \o lines # shabackup
      <4> HIDE DEF lines
      <4>1. shabackup \in Seq(Lines)
        BY DEF BackupInv, BackupTypeOK
      <4>2. Len(shabackup \o lines) = Len(shabackup) + Len(lines) /\ Len(shabackup) \in Nat
        BY <4>1, <3>3, ConcatProperties, LenProperties
      <4>3. QED
        BY <3>3, <4>2
    <3>5. QED
      BY <1>5, <2>3, <3>4
  <2>4. QED
    BY <1>1, <2>1, <2>2, <2>3
<1>6. CASE /\ x \notin OddNames /\ Readlink(x) # <<>> /\ shabackup' = shabackup \o lines
           /\ UNCHANGED backupError
  <2>1. source[x].type = "link" /\ Readlink(x) = source[x].data
    BY <1>6 DEF Readlink
  <2>2. source[x].data \in Seq(Pieces) /\ source[x].data # <<>>
    BY <1>2, <2>1, SourceIs
  <2>3. /\ lines \in Seq(Lines) /\ DOMAIN lines = 1..Len(source[x].data)
        /\ lines[1] = Line("S", x, Head(source[x].data)) /\ Len(source[x].data) \in Nat \ {0}
        /\ \A i \in 2..Len(source[x].data) : lines[i].type = "rest"
    BY <1>2, <2>1, <2>2, TargetLines
  <2>4. /\ LineOf(x) = lines[1] /\ lines[1].type = "S" /\ lines[1].path = x
        /\ lines[1].data = Head(source[x].data)
    <3> DEFINE line == Line("S", x, Head(source[x].data))
    <3>1. LineOf(x) = line
      BY <1>2, <2>1, LineOfIs
    <3>2. line.type = "S" /\ line.path = x /\ line.data = Head(source[x].data)
      BY LineHas
    <3>3. lines[1] = line
      BY <2>3
    <3>4. QED
      BY <3>1, <3>2, <3>3
  <2> HIDE DEF lines
  <2>5. x \notin touched => Wanted(x)
    BY <1>2, <1>6, <2>1, ComesToIt DEF Storable
  <2>6. GoodLines(lines, x)
    <3>1. \A i \in DOMAIN lines :
              \/ /\ lines[i].type # "rest" /\ lines[i].path = x
                 /\ x \notin touched => Wanted(x) /\ lines[i] = LineOf(x)
              \/ lines[i].type = "rest"
      <4> TAKE i \in DOMAIN lines
      <4>1. CASE i = 1
        BY <2>4, <2>5, <4>1
      <4>2. CASE i # 1
        BY <2>3, <4>2
      <4>3. QED
        BY <4>1, <4>2
    <3>2. Plain(source[x].data) => \A i \in DOMAIN lines : lines[i].type # "rest" /\ (lines[i].type = "S" => lines[i].data \in {"short", "long"})
      <4>1. SUFFICES ASSUME Plain(source[x].data), NEW i \in DOMAIN lines
                     PROVE  lines[i].type # "rest" /\ (lines[i].type = "S" => lines[i].data \in {"short", "long"})
        OBVIOUS
      <4>2. source[x].data = <<"short">> \/ source[x].data = <<"long">>
        BY <4>1 DEF Plain
      <4>3. Len(source[x].data) <= 1 /\ Head(source[x].data) \in {"short", "long"}
        <5>1. \A piece \in {"short", "long"} : Len(<<piece>>) <= 1 /\ Head(<<piece>>) = piece
          BY Single
        <5>2. QED
          BY <4>2, <5>1
      <4>4. i = 1
        BY <2>3, <4>1, <4>3
      <4>5. QED
        BY <2>4, <4>3, <4>4
    <3>3. QED
      BY <1>2, <2>1, <2>3, <3>1, <3>2 DEF GoodLines
  <2>7. LineOf(x) \in Range(shabackup)'
    <3>1. Range(shabackup') = Range(shabackup) \cup Range(lines)
      BY <1>1, <1>6, <2>6, LinesAdded
    <3>2. LineOf(x) \in Range(lines)
      BY <2>3, <2>4 DEF Range
    <3>3. QED
      BY <3>1, <3>2
  <2>8. QED
    BY <1>1, <1>3, <1>4, <1>6, <2>6, <2>7, HandledKeeps
<1>7. QED
  BY <1>1, <1>5, <1>6

LEMMA HandleFileKeeps ==
    ASSUME BackupInv, HandleFile
    PROVE  BackupInv'
<1> DEFINE x == child.path
           line == Line("F", x, source[x].data)
<1>1. /\ backupPc = "handle" /\ child.type = "file" /\ child' = NoChild /\ backupPc' = "next"
      /\ UNCHANGED <<source, touched, config, dirs, dirsDone, stack>>
      /\ \/ x \in OddNames /\ backupError' = (backupError \/ ~config.ignoreNames) /\ UNCHANGED shabackup
         \/ backupError' = TRUE /\ UNCHANGED shabackup
         \/ /\ x \notin OddNames /\ source[x].type = "file" /\ shabackup' = shabackup \o FileLine(x, source[x].data)
            /\ UNCHANGED backupError
  BY Zenon DEF HandleFile, Handled, ReportError, IgnoreName, WriteLines
<1>2. x # Root /\ x \in Node /\ backupError \in BOOLEAN /\ config.ignoreNames \in BOOLEAN
      /\ source \in [Node -> SourceFiles]
  BY <1>1 DEF BackupInv, BackupTypeOK, ChildInv
<1>3. backupError' \in BOOLEAN /\ (~backupError' => ~backupError)
  BY <1>1, <1>2
<1>4. \A n \in Node \ touched :
          Storable(n) /\ Via(n, CurrentTop) /\ x \in Within(n) => n = x /\ x \notin OddNames
  BY <1>1, <1>2, InHandIs
<1>5. CASE x \in OddNames /\ UNCHANGED shabackup
  BY <1>1, <1>3, <1>4, <1>5, HandledKeeps
<1>6. CASE backupError' = TRUE /\ UNCHANGED shabackup
  BY <1>1, <1>3, <1>6, HandledKeeps
<1>7. CASE /\ x \notin OddNames /\ source[x].type = "file" /\ shabackup' = shabackup \o FileLine(x, source[x].data)
           /\ UNCHANGED backupError
  <2>1. LineOf(x) = line /\ line \in Lines /\ FileLine(x, source[x].data) = <<line>>
    <3>1. LineOf(x) = line /\ source[x].data \in Contents
      BY <1>2, <1>7, LineOfIs
    <3>2. line \in Lines /\ FileLine(x, source[x].data) = <<line>>
      BY <1>2, <3>1, OneLine
    <3>3. QED
      BY <3>1, <3>2
  <2>2. line.type = "F" /\ line.path = x /\ line.data = source[x].data /\ source[x].data \in Contents
    <3>1. line.type = "F" /\ line.path = x /\ line.data = source[x].data
      BY LineHas
    <3>2. QED
      BY <1>2, <1>7, <3>1, LineOfIs
  <2> HIDE DEF line
  <2>3. /\ <<line>> \in Seq(Lines) /\ Len(<<line>>) = 1 /\ <<line>>[1] = line
        /\ Range(<<line>>) = {line} /\ DOMAIN <<line>> = {1}
    BY <2>1, Single
  <2>4. GoodLines(<<line>>, x)
    <3>1. x \notin touched => Wanted(x)
      BY <1>2, <1>7, ComesToIt DEF Storable
    <3>2. QED
      BY <2>1, <2>2, <2>3, <3>1 DEF GoodLines
  <2>5. LineOf(x) \in Range(shabackup)'
    <3>1. Range(shabackup') = Range(shabackup) \cup Range(<<line>>)
      BY <1>1, <1>7, <2>1, <2>4, LinesAdded
    <3>2. QED
      BY <2>1, <2>3, <3>1
  <2>6. QED
    BY <1>1, <1>3, <1>4, <1>7, <2>1, <2>4, <2>5, HandledKeeps
<1>8. QED
  BY <1>1, <1>5, <1>6, <1>7

(* A directory: its line, and what is listed in it is still to come.       *)
LEMMA ListedChildren ==
    ASSUME source \in [Node -> SourceFiles], NEW x \in Node, NEW n \in Node, x \in Above[n],
           Storable(n),
           NEW top, Via(n, top), top \in Within(x), source[x].type = "dir", x \notin Unreadable
    PROVE  \E m \in Within(n) : m \in ListFiles(x)
<1>1. PICK m \in Within(n) : Parent[m] = x
  BY ChildTowards
<1>2. m \in Node /\ x # Root
  BY ParentOf
<1>3. source[m].type # "none"
  <2>1. CASE m = n
    BY <2>1 DEF Storable
  <2>2. CASE m # n
    <3>1. m \in Above[n]
      BY <2>2 DEF Within
    <3>2. top \in Within(m)
      <4>1. Within(m) = {m} \cup Within(x)
        BY <1>1, <1>2, ParentOf
      <4>2. QED
        BY <4>1
    <3>3. Listed(m, top)
      BY <3>1, <3>2, OnTheWay
    <3>4. QED
      BY <3>3 DEF Listed
  <2>3. QED
    BY <2>1, <2>2
<1>4. QED
  BY <1>1, <1>2, <1>3 DEF ListFiles

LEMMA Pushed ==
    ASSUME NEW S, NEW x \in S, NEW s \in Seq(S)
    PROVE  /\ <<x>> \o s \in Seq(S) /\ (<<x>> \o s)[1] = x /\ 1 \in DOMAIN (<<x>> \o s)
           /\ \A i \in DOMAIN s : (<<x>> \o s)[i + 1] = s[i] /\ i + 1 \in DOMAIN (<<x>> \o s)
           /\ \A i \in DOMAIN (<<x>> \o s) : i = 1 \/ \E j \in DOMAIN s : i = j + 1
<1> DEFINE one == <<x>>
           all == one \o s
<1>1. one \in Seq(S)
  BY Single
<1>2. Len(one) = 1 /\ one[1] = x /\ DOMAIN one = {1}
  OBVIOUS
<1> HIDE DEF one
<1>3. /\ all \in Seq(S) /\ DOMAIN s = 1..Len(s) /\ Len(s) \in Nat
      /\ \A i \in DOMAIN one : i \in DOMAIN all /\ all[i] = one[i]
      /\ \A i \in DOMAIN s : Len(one) + i \in DOMAIN all /\ all[Len(one) + i] = s[i]
      /\ \A i \in DOMAIN all : i \in DOMAIN one \/ \E j \in DOMAIN s : i = Len(one) + j
  BY <1>1, Joined
<1>4. \A i \in DOMAIN s : Len(one) + i = i + 1
  BY <1>2, <1>3
<1> HIDE DEF all
<1>5. /\ all \in Seq(S) /\ all[1] = x /\ 1 \in DOMAIN all
      /\ \A i \in DOMAIN s : all[i + 1] = s[i] /\ i + 1 \in DOMAIN all
      /\ \A i \in DOMAIN all : i = 1 \/ \E j \in DOMAIN s : i = j + 1
  BY <1>2, <1>3, <1>4
<1>6. QED
  BY <1>5 DEF all, one

LEMMA HandleDirectoryKeeps ==
    ASSUME BackupInv, HandleDirectory
    PROVE  BackupInv'
<1> DEFINE x == child.path
           line == Line("D", x, "")
           new == [path |-> x, files |-> IF SkipChildren(x) THEN {} ELSE ListFiles(x)]
           Frames == [path : Node, files : SUBSET Node]
<1>1. /\ backupPc = "handle" /\ child.type = "dir" /\ child' = NoChild /\ backupPc' = "next"
      /\ UNCHANGED <<source, touched, config, dirs, dirsDone>>
      /\ \/ x \in OddNames /\ backupError' = (backupError \/ ~config.ignoreNames) /\ UNCHANGED <<shabackup, stack>>
         \/ /\ x \notin OddNames /\ shabackup' = shabackup \o DirectoryLine(x) /\ UNCHANGED backupError
            /\ stack' = <<new>> \o stack
  BY Zenon DEF HandleDirectory, Handled, IgnoreName, WriteLines
<1>2. x # Root /\ x \in Node /\ backupError \in BOOLEAN /\ config.ignoreNames \in BOOLEAN
      /\ source \in [Node -> SourceFiles] /\ stack \in Seq(Frames) /\ shabackup \in Seq(Lines)
  BY <1>1 DEF BackupInv, BackupTypeOK, ChildInv
<1>3. dirsDone > 0 /\ CurrentTop \in Within(x) /\ (stack = <<>> => x = CurrentTop) /\ (stack # <<>> => Parent[x] = Top.path)
      /\ (x \notin touched => source[x].type = "dir" /\ Via(x, CurrentTop))
  BY <1>1, <1>2 DEF BackupInv, ChildInv
<1>4. CASE x \in OddNames /\ backupError' = (backupError \/ ~config.ignoreNames) /\ UNCHANGED <<shabackup, stack>>
  <2>1. backupError' \in BOOLEAN /\ (~backupError' => ~backupError)
    BY <1>2, <1>4
  <2>2. \A n \in Node \ touched : ~(Storable(n) /\ Via(n, CurrentTop) /\ x \in Within(n))
    BY <1>2, <1>4, InHandIs
  <2>3. QED
    BY <1>1, <1>4, <2>1, <2>2, HandledKeeps
<1>5. CASE /\ x \notin OddNames /\ shabackup' = shabackup \o DirectoryLine(x) /\ UNCHANGED backupError
           /\ stack' = <<new>> \o stack
  <2>1. new \in Frames /\ new.path = x /\ (\A m \in new.files : Parent[m] = x /\ m \in Node) /\ new.files \subseteq ListFiles(x)
    BY <1>2 DEF ListFiles
  <2>2. SkipChildren(x) => new.files = {}
    OBVIOUS
  <2>3. ~SkipChildren(x) => new.files = ListFiles(x)
    OBVIOUS
  <2> HIDE DEF new, Frames
  <2>4. /\ stack' \in Seq(Frames)
        /\ \A i \in DOMAIN stack' : i = 1 \/ \E j \in DOMAIN stack : i = j + 1
        /\ stack'[1] = new /\ 1 \in DOMAIN stack'
        /\ \A j \in DOMAIN stack : stack'[j + 1] = stack[j] /\ j + 1 \in DOMAIN stack'
    <3> DEFINE st == <<new>> \o stack
    <3>1. /\ st \in Seq(Frames) /\ st[1] = new /\ 1 \in DOMAIN st
          /\ \A i \in DOMAIN stack : st[i + 1] = stack[i] /\ i + 1 \in DOMAIN st
          /\ \A i \in DOMAIN st : i = 1 \/ \E j \in DOMAIN stack : i = j + 1
      BY <1>2, <2>1, Pushed
    <3>2. stack' = st
      BY <1>5
    <3> HIDE DEF st
    <3>3. QED
      BY <3>1, <3>2
  <2>5. line \in Lines /\ DirectoryLine(x) = <<line>> /\ line.type = "D" /\ line.path = x
    BY <1>2, OneLine DEF Line
  <2>6. x \notin touched => LineOf(x) = line
    BY <1>2, <1>3, LineOfIs
  <2> HIDE DEF line
  <2>7. /\ <<line>> \in Seq(Lines) /\ Len(<<line>>) = 1 /\ <<line>>[1] = line
        /\ Range(<<line>>) = {line} /\ DOMAIN <<line>> = {1}
    BY <2>5, Single
  <2>8. GoodLines(<<line>>, x)
    <3>1. x \notin touched => Wanted(x)
      BY <1>2, <1>3, <1>5, ComesToIt DEF Storable
    <3>2. QED
      BY <2>5, <2>6, <2>7, <3>1 DEF GoodLines
  <2>9. /\ LinesInv' /\ RestInv' /\ shabackup' \in Seq(Lines)
        /\ Range(shabackup') = Range(shabackup) \cup {line}
    BY <1>1, <1>5, <2>5, <2>7, <2>8, LinesAdded
  <2>10. StackInv'
    <3>1. SUFFICES ASSUME NEW i \in DOMAIN stack'
                   PROVE  /\ CurrentTop \in Within(stack'[i].path)
                          /\ \A m \in stack'[i].files \ touched :
                                 Listed(Parent[m], CurrentTop) /\ Via(Parent[m], CurrentTop)
      <4>1. \A m, t : (Listed(m, t)' <=> Listed(m, t)) /\ (Via(m, t)' <=> Via(m, t))
        BY <1>1, SameTree, Zenon
      <4>2. CurrentTop' = CurrentTop
        BY <1>1 DEF CurrentTop
      <4>3. QED
        BY <1>1, <1>3, <3>1, <4>1, <4>2 DEF StackInv
    <3>2. CASE i = 1
      <4>1. SUFFICES ASSUME NEW m \in new.files, m \notin touched
                     PROVE  Listed(x, CurrentTop) /\ Via(x, CurrentTop)
        BY <1>3, <2>1, <2>4, <3>2
      <4>2. m \in ListFiles(x) /\ ~SkipChildren(x) /\ m \in Node /\ Parent[m] = x
        BY <2>1, <2>2, <4>1
      <4>3. x \in Within(m)
        BY <1>2, <4>2, ParentOf
      <4>4. x \notin touched
        BY <4>1, <4>2, <4>3, Untouched DEF BackupInv
      <4>5. source[x].type = "dir" /\ x \notin Unreadable
        BY <4>2 DEF ListFiles
      <4>6. x # CurrentTop /\ config.oneFileSystem => Device[x] = Device[Parent[x]]
        BY <1>3, <4>2 DEF SkipChildren
      <4>7. QED
        BY <1>3, <1>5, <4>4, <4>5, <4>6 DEF Listed
    <3>3. CASE \E j \in DOMAIN stack : i = j + 1
      BY <2>4, <3>3 DEF BackupInv, StackInv
    <3>4. QED
      BY <2>4, <3>2, <3>3
  <2>11. CoverInv'
    <3>1. SUFFICES ASSUME NEW n \in Node \ touched, Storable(n), Via(n, CurrentTop), Pending(n)
                   PROVE  LineOf(n) \in Range(shabackup)' \/ Pending(n)'
      <4>1. Range(shabackup) \subseteq Range(shabackup)' /\ (~backupError' => ~backupError)
        BY <1>5, <2>9
      <4>2. QED
        BY <1>1, <3>1, <4>1, Covered
    <3>2. PICK m \in Within(n) : m = x \/ \E i \in DOMAIN stack : m \in stack[i].files
      BY <3>1 DEF Pending
    <3>3. CASE m # x
      <4>1. PICK i \in DOMAIN stack : m \in stack[i].files
        BY <3>2, <3>3
      <4>2. m \in stack'[i + 1].files /\ i + 1 \in DOMAIN stack'
        BY <2>4, <4>1
      <4>3. QED
        BY <4>2 DEF Pending
    <3>4. CASE m = x
      <4>1. x \notin touched /\ source[x].type = "dir" /\ (n # x => Listed(x, CurrentTop))
        BY <1>2, <1>3, <3>1, <3>4, InHandIs
      <4>2. CASE n = x
        BY <2>6, <2>9, <4>1, <4>2
      <4>3. CASE n # x
        <5>1. x \in Above[n] /\ Listed(x, CurrentTop)
          BY <3>4, <4>1, <4>3 DEF Within
        <5>2. x \notin Unreadable
          BY <5>1 DEF Listed
        <5>3. PICK c \in Within(n) : c \in ListFiles(x)
          BY <1>2, <1>3, <3>1, <4>1, <5>1, <5>2, ListedChildren
        <5>4. ~SkipChildren(x)
          <6>1. SUFFICES ASSUME config.oneFileSystem, stack # <<>>, Device[Top.path] # Device[x]
                         PROVE  FALSE
            BY DEF SkipChildren
          <6>2. x = CurrentTop
            BY <1>3, <5>1, <6>1 DEF Listed
          <6>3. Top.path \in Node /\ CurrentTop \in Within(Top.path)
            BY <6>1, TopOf DEF BackupInv, StackInv
          <6>4. Top.path # Root
            BY <6>3, ParentOf
          <6>5. x \in Above[x]
            BY <1>2, <1>3, <6>1, <6>2, <6>3, <6>4, ParentOf
          <6>6. QED
            BY <1>2, <6>5, ParentOf
        <5>5. c \in stack'[1].files /\ 1 \in DOMAIN stack'
          BY <2>3, <2>4, <5>3, <5>4
        <5>6. QED
          BY <5>5 DEF Pending
      <4>4. QED
        BY <4>2, <4>3
    <3>5. QED
      BY <3>3, <3>4
  <2>12. BackupTypeOK'
    <3>1. \A i \in DOMAIN stack' : \A m \in stack'[i].files : Parent[m] = stack'[i].path
      <4> TAKE i \in DOMAIN stack'
      <4>1. CASE i = 1
        BY <2>1, <2>4, <4>1
      <4>2. CASE \E j \in DOMAIN stack : i = j + 1
        BY <2>4, <4>2 DEF BackupInv, BackupTypeOK
      <4>3. QED
        BY <2>4, <4>1, <4>2
    <3>2. source' \in [Node -> SourceFiles] /\ IsTree(source')
      BY <1>1 DEF BackupInv, BackupTypeOK
    <3>3. child'.path \in Node \cup {Root} /\ child'.type \in SourceTypes
      BY <1>1 DEF NoChild, SourceTypes
    <3>4. stack' \in Seq([path : Node, files : SUBSET Node])
      BY <2>4 DEF Frames
    <3>5. QED
      BY <1>1, <1>2, <1>5, <2>9, <3>1, <3>2, <3>3, <3>4 DEF BackupInv, BackupTypeOK
  <2>13. ChildInv'
    BY <1>1 DEF ChildInv, NoChild
  <2>14. TouchedInv'
    BY <1>1 DEF BackupInv, TouchedInv
  <2>15. QED
    BY <1>1, <2>9, <2>10, <2>11, <2>12, <2>13, <2>14 DEF BackupInv
<1>6. QED
  BY <1>1, <1>4, <1>5

LEMMA StopKeeps ==
    ASSUME BackupInv, FinishBackup \/ CallbackFails
    PROVE  BackupInv'
<1>1. /\ UNCHANGED <<source, touched, config, dirs, dirsDone, stack, child, shabackup, backupError>>
      /\ backupPc' = "panicked" \/ (backupPc' = "done" /\ backupPc = "next" /\ stack = <<>> /\ dirsDone = Len(dirs))
  BY DEF FinishBackup, CallbackFails
<1>2. LinesInv' /\ RestInv' /\ TouchedInv'
  BY <1>1, LinesStay DEF BackupInv, TouchedInv
<1>3. CoverInv'
  <2>1. \A n : Pending(n) => Pending(n)'
    BY <1>1 DEF Pending
  <2>2. QED
    BY <1>1, <2>1, Covered
<1>4. StackInv'
  BY <1>1, SameTree, Zenon DEF BackupInv, StackInv, CurrentTop
<1>5. ChildInv'
  <2>1. \A m, t : Via(m, t)' <=> Via(m, t)
    BY <1>1, SameTree, Zenon
  <2>2. CurrentTop' = CurrentTop /\ Top' = Top
    BY <1>1 DEF CurrentTop, Top
  <2>3. QED
    BY <1>1, <2>1, <2>2 DEF BackupInv, ChildInv
<1>6. BackupTypeOK'
  BY <1>1 DEF BackupInv, BackupTypeOK, IsTree
<1>7. QED
  BY <1>1, <1>2, <1>3, <1>4, <1>5, <1>6 DEF BackupInv

(* A change touches a path and all below it.  For the others, all is as it *)
(* was.                                                                    *)
LEMMA ChangeIs ==
    ASSUME BackupInv, NEW x \in Node, Change(x)
    PROVE  /\ touched' = touched \cup {x} \cup Beneath(x) /\ TouchedInv'
           /\ source' \in [Node -> SourceFiles] /\ IsTree(source')
           /\ \A n \in Node \ touched' : n \notin touched /\ source'[n] = source[n] /\ Within(n) \cap touched' = {}
           /\ UNCHANGED <<config, dirs, dirsDone, stack, child, shabackup, backupError, backupPc>>
<1>1. PICK type \in {"none", "file", "dir"} :
          source' = [m \in Node |->
              IF m = x THEN [type |-> type, data |-> IF type = "file" THEN "new" ELSE ""]
              ELSE IF m \in Beneath(x) THEN None ELSE source[m]]
  BY DEF Change
<1>2. /\ touched' = touched \cup {x} \cup Beneath(x) /\ (Parent[x] # Root => source[Parent[x]].type = "dir")
      /\ UNCHANGED <<config, dirs, dirsDone, stack, child, shabackup, backupError, backupPc>>
  BY DEF Change
<1>3. \A m \in Beneath(x) : Beneath(m) \subseteq Beneath(x)
  BY AboveAbove DEF Beneath, Within
<1>4. TouchedInv'
  BY <1>2, <1>3 DEF BackupInv, TouchedInv
<1>5. source' \in [Node -> SourceFiles]
  <2>1. source \in [Node -> SourceFiles] /\ "new" \in Contents
    BY PathsAssumption DEF BackupInv, BackupTypeOK
  <2>2. [type |-> type, data |-> IF type = "file" THEN "new" ELSE ""] \in SourceFiles
    BY <2>1 DEF SourceFiles
  <2>3. None \in SourceFiles
    BY DEF None, SourceFiles
  <2>4. QED
    BY <1>1, <2>1, <2>2, <2>3
<1>6. IsTree(source')
  <2>1. SUFFICES ASSUME NEW n \in Node, source'[n].type # "none", Parent[n] # Root
                 PROVE  source'[Parent[n]].type = "dir"
    BY DEF IsTree
  <2>2. n \notin Beneath(x)
    BY <1>1, <2>1, ParentOf DEF None, Beneath
  <2>3. /\ Parent[n] \in Node /\ Parent[n] \in Above[n]
        /\ Above[Parent[n]] \subseteq Above[n] /\ Parent[n] # n
    BY <2>1, ParentOf
  <2>4. Parent[n] # x /\ Parent[n] \notin Beneath(x)
    BY <2>2, <2>3 DEF Beneath
  <2>5. source'[Parent[n]] = source[Parent[n]]
    BY <1>1, <2>3, <2>4
  <2>6. CASE n = x
    BY <1>2, <2>1, <2>5, <2>6
  <2>7. CASE n # x
    <3>1. source[n].type # "none"
      BY <1>1, <2>1, <2>2, <2>7
    <3>2. QED
      BY <2>1, <2>5, <3>1 DEF BackupInv, BackupTypeOK, IsTree
  <2>8. QED
    BY <2>6, <2>7
<1>7. \A n \in Node \ touched' : n \notin touched /\ source'[n] = source[n] /\ Within(n) \cap touched' = {}
  <2> TAKE n \in Node \ touched'
  <2>1. n \notin touched /\ n # x /\ n \notin Beneath(x)
    BY <1>2
  <2>2. source'[n] = source[n]
    BY <1>1, <2>1
  <2>3. \A m \in Within(n) : m \notin touched'
    BY <1>4 DEF TouchedInv, Within, Beneath
  <2>4. QED
    BY <2>1, <2>2, <2>3
<1>8. QED
  BY <1>2, <1>4, <1>5, <1>6, <1>7

LEMMA UntouchedSame ==
    ASSUME BackupInv, NEW x \in Node, Change(x), NEW n \in Node \ touched'
    PROVE  /\ \A top : Via(n, top)' <=> Via(n, top)
           /\ \A top : Listed(n, top)' <=> Listed(n, top)
           /\ Wanted(n)' <=> Wanted(n)
           /\ Storable(n)' <=> Storable(n)
           /\ LineOf(n)' = LineOf(n)
           /\ n \notin touched /\ source'[n] = source[n]
<1>1. \A m \in Within(n) : m \in Node \ touched' /\ source'[m] = source[m]
  BY ChangeIs, ParentOf
<1>2. config' = config /\ dirs' = dirs /\ n \in Within(n)
  BY ChangeIs, ParentOf
<1>3. \A m \in Within(n) : \A top : Listed(m, top)' <=> Listed(m, top)
  BY <1>1, <1>2 DEF Listed
<1>4. \A m \in Within(n) : Above[m] # {} => Parent[m] \in Within(n)
  BY ParentOf, AboveAbove
<1>5. \A top : Via(n, top)' <=> Via(n, top)
  BY <1>2, <1>3, <1>4 DEF Via
<1>6. Storable(n)' <=> Storable(n)
  BY <1>1, <1>2 DEF Storable
<1>7. LineOf(n)' = LineOf(n)
  BY <1>1, <1>2, Zenon DEF LineOf
<1>8. Wanted(n)' <=> Wanted(n)
  <2>1. Wanted(n) <=> Storable(n) /\ \E top \in Range(dirs) : Via(n, top)
    BY DEF Wanted, Storable, Via
  <2>2. Wanted(n)' <=> Storable(n)' /\ \E top \in Range(dirs)' : Via(n, top)'
    BY DEF Wanted, Storable, Via
  <2>3. Range(dirs)' = Range(dirs)
    BY <1>2
  <2>4. QED
    BY <1>5, <1>6, <2>1, <2>2, <2>3
<1>9. QED
  BY <1>2, <1>3, <1>5, <1>6, <1>7, <1>8, ChangeIs

LEMMA ChangeKeeps ==
    ASSUME BackupInv, NEW x \in Node, Change(x)
    PROVE  BackupInv'
<1>1. /\ touched' = touched \cup {x} \cup Beneath(x) /\ TouchedInv'
      /\ source' \in [Node -> SourceFiles] /\ IsTree(source')
      /\ UNCHANGED <<config, dirs, dirsDone, stack, child, shabackup, backupError, backupPc>>
  BY ChangeIs
<1>2. \A n \in Node \ touched' :
          /\ \A top : (Via(n, top)' <=> Via(n, top)) /\ (Listed(n, top)' <=> Listed(n, top))
          /\ (Wanted(n)' <=> Wanted(n)) /\ (Storable(n)' <=> Storable(n)) /\ LineOf(n)' = LineOf(n)
          /\ n \notin touched /\ source'[n] = source[n]
  BY UntouchedSame
<1>3. BackupTypeOK'
  <2>1. touched' \subseteq Node
    BY <1>1 DEF BackupInv, BackupTypeOK, Beneath
  <2>2. QED
    BY <1>1, <2>1 DEF BackupInv, BackupTypeOK
<1>4. StackInv'
  <2>1. SUFFICES ASSUME NEW i \in DOMAIN stack, NEW n \in stack[i].files, n \notin touched'
                 PROVE  Listed(Parent[n], CurrentTop)' /\ Via(Parent[n], CurrentTop)'
    BY <1>1 DEF BackupInv, StackInv, CurrentTop
  <2>2. n \in Node /\ Parent[n] = stack[i].path /\ stack[i].path \in Node
    <3>1. stack[i] \in [path : Node, files : SUBSET Node]
      <4>1. stack \in Seq([path : Node, files : SUBSET Node])
        BY DEF BackupInv, BackupTypeOK
      <4>2. i \in 1..Len(stack)
        BY <2>1, <4>1, LenProperties
      <4>3. QED
        BY <4>1, <4>2, ElementOfSeq
    <3>2. QED
      BY <2>1, <3>1 DEF BackupInv, BackupTypeOK
  <2>3. Parent[n] \in Within(n) /\ Parent[n] \in Node
    BY <2>2, ParentOf
  <2>4. Parent[n] \notin touched'
    <3>1. \A t : t = touched' => Within(n) \cap t = {}
      BY <2>1, <2>2, ChangeIs
    <3>2. QED
      BY <2>3, <3>1
  <2>5. n \notin touched
    BY <1>2, <2>1, <2>2
  <2>6. Listed(Parent[n], CurrentTop) /\ Via(Parent[n], CurrentTop)
    BY <2>1, <2>5 DEF BackupInv, StackInv
  <2>7. CurrentTop' = CurrentTop
    BY <1>1 DEF CurrentTop
  <2>8. QED
    BY <1>2, <2>3, <2>4, <2>6, <2>7
<1>5. ChildInv'
  <2>1. CurrentTop' = CurrentTop /\ Top' = Top
    BY <1>1 DEF CurrentTop, Top
  <2>2. child.path \in Node \ touched' =>
            child.path \notin touched /\ source'[child.path] = source[child.path]
            /\ (Via(child.path, CurrentTop)' <=> Via(child.path, CurrentTop))
    BY <1>1, <1>2, <2>1
  <2>3. child.path \in Node \cup {Root}
    BY DEF BackupInv, BackupTypeOK
  <2>4. QED
    BY <1>1, <2>1, <2>2, <2>3 DEF BackupInv, ChildInv
<1>6. LinesInv'
  <2>1. \A i \in DOMAIN shabackup : shabackup[i].type # "rest" => shabackup[i].path \in Node
    <3>1. shabackup \in Seq(Lines)
      BY DEF BackupInv, BackupTypeOK
    <3>2. \A i \in DOMAIN shabackup : shabackup[i] \in Lines
      <4>1. DOMAIN shabackup = 1..Len(shabackup)
        BY <3>1, LenProperties
      <4>2. QED
        BY <3>1, <4>1, ElementOfSeq
    <3>3. QED
      BY <3>2, LineIs
  <2>2. QED
    BY <1>1, <1>2, <2>1 DEF BackupInv, LinesInv
<1>7. CoverInv'
  <2>1. SUFFICES ASSUME ~backupError, NEW n \in Node \ touched', NEW k \in 1..dirsDone, Storable(n), Via(n, dirs[k])
                 PROVE  LineOf(n) \in Range(shabackup) \/ (k = dirsDone /\ Pending(n))
    <3>1. \A m : Pending(m)' <=> Pending(m)
      BY <1>1 DEF Pending
    <3>2. QED
      BY <1>1, <1>2, <2>1, <3>1 DEF CoverInv
  <2>2. n \notin touched
    BY <1>2
  <2>3. QED
    BY <2>1, <2>2 DEF BackupInv, CoverInv
<1>8. RestInv'
  BY <1>1 DEF RestInv
<1>9. QED
  BY <1>1, <1>3, <1>4, <1>5, <1>6, <1>7, <1>8 DEF BackupInv

LEMMA BackupInitInv ==
    ASSUME BackupInit
    PROVE  BackupInv
<1>1. PICK case \in Cases : source = case.source /\ config = case.config /\ dirs = case.dirs
  BY DEF BackupInit
<1>2. /\ touched = {} /\ dirsDone = 0 /\ stack = <<>> /\ child = NoChild /\ shabackup = <<>>
      /\ backupError = FALSE /\ backupPc \in {"nothing", "next"}
  BY DEF BackupInit
<1>3. /\ source \in [Node -> SourceFiles] /\ IsTree(source) /\ dirs \in Seq(Node)
      /\ config \in [oneFileSystem : BOOLEAN, exclude : SUBSET Node, ignoreNames : BOOLEAN]
  BY <1>1, PathsAssumption
<1>4. BackupTypeOK
  <2>1. Len(dirs) \in Nat
    BY <1>3, LenProperties
  <2>2. <<>> \in Seq(Lines) /\ <<>> \in Seq([path : Node, files : SUBSET Node]) /\ Len(<<>>) = 0
    BY EmptySeq
  <2>3. \A i \in DOMAIN stack : \A n \in stack[i].files : Parent[n] = stack[i].path
    BY <1>2
  <2>4. /\ stack \in Seq([path : Node, files : SUBSET Node]) /\ shabackup \in Seq(Lines)
        /\ dirsDone \in 0..Len(dirs)
    BY <1>2, <2>1, <2>2
  <2>5. child.path \in Node \cup {Root} /\ child.type \in SourceTypes
    BY <1>2 DEF NoChild, SourceTypes
  <2>6. QED
    BY <1>2, <1>3, <2>3, <2>4, <2>5 DEF BackupTypeOK
<1>5. StackInv /\ LinesInv /\ RestInv
  BY <1>2 DEF StackInv, LinesInv, RestInv
<1>6. CoverInv /\ TouchedInv /\ ChildInv
  BY <1>2 DEF CoverInv, TouchedInv, ChildInv, NoChild
<1>7. QED
  BY <1>3, <1>4, <1>5, <1>6 DEF BackupInv

LEMMA BackupStep ==
    ASSUME BackupInv, Walk \/ CallbackFails \/ (\E n \in Node : Change(n)) \/ UNCHANGED bvars
    PROVE  BackupInv'
<1>1. CASE Walk
  BY <1>1, NextDirKeeps, NextChildKeeps, LeaveKeeps, HandleSimpleKeeps, HandleSymlinkKeeps, HandleFileKeeps,
     HandleDirectoryKeeps, StopKeeps DEF Walk
<1>2. CASE CallbackFails
  BY <1>2, StopKeeps
<1>3. CASE \E n \in Node : Change(n)
  BY <1>3, ChangeKeeps
<1>4. CASE UNCHANGED bvars
  <2>1. /\ UNCHANGED <<source, touched, config, dirs, dirsDone, stack, child, shabackup,
                       backupError, backupPc>>
    BY <1>4 DEF bvars
  <2>2. LinesInv' /\ RestInv' /\ TouchedInv'
    BY <2>1, LinesStay DEF BackupInv, TouchedInv
  <2>3. CoverInv'
    <3>1. \A n : Pending(n) => Pending(n)'
      BY <2>1 DEF Pending
    <3>2. QED
      BY <2>1, <3>1, Covered
  <2>4. StackInv'
    BY <2>1, SameTree, Zenon DEF BackupInv, StackInv, CurrentTop
  <2>5. ChildInv'
    <3>1. \A m, t : Via(m, t)' <=> Via(m, t)
      BY <2>1, SameTree, Zenon
    <3>2. CurrentTop' = CurrentTop /\ Top' = Top
      BY <2>1 DEF CurrentTop, Top
    <3>3. QED
      BY <2>1, <3>1, <3>2 DEF BackupInv, ChildInv
  <2>6. BackupTypeOK'
    BY <2>1 DEF BackupInv, BackupTypeOK, IsTree
  <2>7. QED
    BY <2>1, <2>2, <2>3, <2>4, <2>5, <2>6 DEF BackupInv
<1>5. QED
  BY <1>1, <1>2, <1>3, <1>4

LEMMA BackupIsExact ==
    ASSUME BackupInv
    PROVE  BackupExact
<1>1. SUFFICES ASSUME backupPc = "done"
               PROVE  /\ \A i \in DOMAIN shabackup :
                             LET n == shabackup[i].path
                             IN  shabackup[i].type # "rest" /\ n \notin touched =>
                                     Wanted(n) /\ shabackup[i] = LineOf(n)
                      /\ ~backupError =>
                             \A n \in Node \ touched : Wanted(n) => LineOf(n) \in Range(shabackup)
  BY DEF BackupExact
<1>2. stack = <<>> /\ dirsDone = Len(dirs) /\ child = NoChild
  BY <1>1 DEF BackupInv, ChildInv
<1>3. ASSUME ~backupError, NEW n \in Node \ touched, Wanted(n)
      PROVE  LineOf(n) \in Range(shabackup)
  <2>1. PICK top \in Range(dirs) : Via(n, top) /\ Storable(n)
    BY <1>3, WantedVia
  <2>2. PICK k \in 1..dirsDone : dirs[k] = top
    <3>1. DOMAIN dirs = 1..Len(dirs)
      BY LenProperties DEF BackupInv
    <3>2. QED
      BY <1>2, <2>1, <3>1 DEF Range
  <2>3. ~Pending(n)
    <3>1. \A m \in Within(n) : m # Root
      BY ParentOf
    <3>2. QED
      BY <1>2, <3>1 DEF Pending, NoChild
  <2>4. QED
    BY <1>3, <2>1, <2>2, <2>3 DEF BackupInv, CoverInv
<1>4. QED
  BY <1>3 DEF BackupInv, LinesInv


-----------------------------------------------------------------------------
(* The destination.  What a call does besides what it does to n: it makes  *)
(* directories on the way to it, and changes the time of one.              *)
Besides(a, b, n) ==
    \A m \in Node \ {n} :
        \/ b[m] = a[m]
        \/ /\ m \in Above[n] /\ b[m].type = "dir" /\ b[m].data = "" /\ ~b[m].time
           /\ \/ a[m].type = "none" /\ b[m].sha1 = ""
              \/ a[m].type = "dir" /\ b[m].mode = a[m].mode /\ b[m].sha1 = a[m].sha1

LEMMA DestIs ==
    ASSUME NEW file \in DestFiles
    PROVE  /\ file.type \in {"none", "dir", "file", "link"} /\ file.data \in DestData
           /\ file.type \in {"none", "dir"} => file.data = ""
           /\ file.mode \in BOOLEAN /\ file.time \in BOOLEAN /\ file.sha1 \in Contents \cup {""}
           /\ [file EXCEPT !.time = FALSE] \in DestFiles
BY DEF DestFiles

LEMMA NewFile ==
    /\ DestFile("dir", "") \in DestFiles /\ Absent \in DestFiles
    /\ \A type \in {"file", "link"}, data \in DestData : DestFile(type, data) \in DestFiles
    /\ "partial" \in DestData /\ Contents \subseteq DestData
<1>1. "" \in DestData /\ "partial" \in DestData /\ Contents \subseteq DestData
  BY DEF DestData, Pieces
<1>2. DestFile("dir", "") \in DestFiles /\ Absent \in DestFiles
  BY <1>1 DEF DestFile, DestFiles, Absent
<1>3. \A type \in {"file", "link"}, data \in DestData : DestFile(type, data) \in DestFiles
  BY DEF DestFile, DestFiles
<1>4. QED
  BY <1>1, <1>2, <1>3

LEMMA NewFileHas ==
    /\ DestFile("dir", "").type = "dir" /\ DestFile("dir", "").data = ""
    /\ DestFile("dir", "").sha1 = ""
    /\ ~DestFile("dir", "").mode /\ ~DestFile("dir", "").time
BY DEF DestFile

LEMMA AbsentHas ==
    Absent.type = "none" /\ Absent.data = "" /\ Absent.sha1 = "" /\ ~Absent.mode /\ ~Absent.time
BY DEF Absent, DestFile

LEMMA BesidesItself ==
    ASSUME NEW a, NEW n
    PROVE  Besides(a, a, n)
BY DEF Besides

LEMMA BesidesBoth ==
    ASSUME NEW a, NEW b, NEW c, NEW n, Besides(a, b, n), Besides(b, c, n)
    PROVE  Besides(a, c, n)
<1>1. SUFFICES ASSUME NEW m \in Node \ {n}, c[m] # a[m]
               PROVE  /\ m \in Above[n] /\ c[m].type = "dir" /\ c[m].data = "" /\ ~c[m].time
                      /\ \/ a[m].type = "none" /\ c[m].sha1 = ""
                         \/ a[m].type = "dir" /\ c[m].mode = a[m].mode /\ c[m].sha1 = a[m].sha1
  BY DEF Besides
<1>2. CASE b[m] = a[m]
  BY <1>1, <1>2 DEF Besides
<1>3. CASE b[m] # a[m] /\ c[m] = b[m]
  BY <1>1, <1>3 DEF Besides
<1>4. CASE b[m] # a[m] /\ c[m] # b[m]
  BY <1>1, <1>4 DEF Besides
<1>5. QED
  BY <1>2, <1>3, <1>4

(* A file is put where the directory is, or taken away when it has nothing *)
(* in it.                                                                  *)
LEMMA PutIs ==
    ASSUME NEW files \in [Node -> DestFiles], IsTree(files), NEW n \in Node, NEW file \in DestFiles,
           Parent[n] = Root \/ files[Parent[n]].type = "dir",
           \A m \in Beneath(n) : files[m].type = "none"
    PROVE  /\ Put(files, n, file) \in [Node -> DestFiles] /\ IsTree(Put(files, n, file))
           /\ Besides(files, Put(files, n, file), n) /\ Put(files, n, file)[n] = file
<1> DEFINE put == Put(files, n, file)
<1>1. Parent[n] # n
  BY ParentOf
<1>2. /\ put[n] = file
      /\ \A m \in Node \ {n} : put[m] = IF m = Parent[n] THEN [files[m] EXCEPT !.time = FALSE] ELSE files[m]
  BY DEF Put
<1>3. put \in [Node -> DestFiles]
  BY DestIs DEF Put
<1>4. Besides(files, put, n)
  <2>1. SUFFICES ASSUME NEW m \in Node \ {n}, m = Parent[n]
                 PROVE  /\ m \in Above[n] /\ put[m].type = "dir" /\ put[m].data = "" /\ ~put[m].time
                        /\ files[m].type = "dir" /\ put[m].mode = files[m].mode
                        /\ put[m].sha1 = files[m].sha1
    BY <1>2 DEF Besides
  <2>2. m # Root /\ m \in Above[n]
    BY <2>1, ParentOf
  <2>3. files[m] \in DestFiles /\ files[m].type = "dir" /\ files[m].data = ""
    BY <2>1, <2>2, DestIs
  <2>4. put[m] = [files[m] EXCEPT !.time = FALSE]
    BY <1>2, <2>1
  <2>5. QED
    BY <2>2, <2>3, <2>4 DEF DestFiles
<1>5. IsTree(put)
  <2>1. SUFFICES ASSUME NEW m \in Node, put[m].type # "none", Parent[m] # Root
                 PROVE  put[Parent[m]].type = "dir"
    BY DEF IsTree
  <2>2. Parent[m] \in Node /\ Parent[m] \in Above[m]
    BY <2>1, ParentOf
  <2>3. CASE m = n
    <3>1. files[Parent[n]].type = "dir" /\ Parent[n] \in Node \ {n}
      BY <1>1, <2>1, <2>2, <2>3
    <3>2. QED
      BY <1>4, <2>3, <3>1 DEF Besides
  <2>4. CASE m # n
    <3>1. files[m].type # "none"
      <4>1. [files[m] EXCEPT !.time = FALSE].type = files[m].type
        BY DEF DestFiles
      <4>2. put[m] = files[m] \/ put[m] = [files[m] EXCEPT !.time = FALSE]
        BY <1>2, <2>4
      <4>3. QED
        BY <2>1, <4>1, <4>2
    <3>2. m \notin Beneath(n)
      BY <3>1
    <3>3. Parent[m] # n
      BY <2>2, <3>2 DEF Beneath
    <3>4. files[Parent[m]].type = "dir"
      BY <2>1, <3>1 DEF IsTree
    <3>5. QED
      BY <1>4, <2>2, <3>3, <3>4 DEF Besides
  <2>5. QED
    BY <2>3, <2>4
<1>6. QED
  BY <1>2, <1>3, <1>4, <1>5

LEMMA RemovedIs ==
    ASSUME dest \in [Node -> DestFiles], IsTree(dest), NEW n \in Node
    PROVE  /\ Removed(n) \in [Node -> DestFiles] /\ IsTree(Removed(n)) /\ Besides(dest, Removed(n), n)
           /\ Removed(n)[n] = Absent \/ Removed(n) = dest
<1>1. CASE dest[n].type # "none" /\ CanCreateIn(Parent[n]) /\ \A m \in Beneath(n) : dest[m].type = "none"
  <2>1. Parent[n] = Root \/ dest[Parent[n]].type = "dir"
    BY <1>1 DEF CanCreateIn, IsDir
  <2>2. Removed(n) = Put(dest, n, Absent)
    BY <1>1 DEF Removed
  <2>3. Absent \in DestFiles
    BY NewFile
  <2>4. QED
    BY <1>1, <2>1, <2>2, <2>3, PutIs
<1>2. CASE ~(dest[n].type # "none" /\ CanCreateIn(Parent[n]) /\ \A m \in Beneath(n) : dest[m].type = "none")
  <2>1. Removed(n) = dest
    BY <1>2 DEF Removed
  <2>2. QED
    BY <2>1, BesidesItself
<1>3. QED
  BY <1>1, <1>2

(* The missing directories are made from the highest one down.             *)
LEMMA MkdirsIs ==
    ASSUME dest \in [Node -> DestFiles], IsTree(dest), NEW n \in Node
    PROVE  /\ Mkdirs(n) \in [Node -> DestFiles] /\ IsTree(Mkdirs(n)) /\ Besides(dest, Mkdirs(n), n)
           /\ Mkdirs(n)[n] = dest[n] \/ (dest[n].type = "none" /\ Mkdirs(n)[n] = DestFile("dir", ""))
<1> DEFINE missing == {m \in Within(n) : dest[m].type = "none"}
           highest == CHOOSE m \in missing : Above[m] \cap missing = {}
           made == [m \in Node |->
                       IF m \in missing THEN DestFile("dir", "")
                       ELSE IF m = Parent[highest] THEN [dest[m] EXCEPT !.time = FALSE] ELSE dest[m]]
<1>1. Mkdirs(n) = IF missing = {} \/ ~CanCreateIn(Parent[highest]) THEN dest ELSE made
  BY DEF Mkdirs
<1>2. CASE Mkdirs(n) = dest
  BY <1>2, BesidesItself
<1>3. CASE Mkdirs(n) # dest
  <2>1. missing # {} /\ CanCreateIn(Parent[highest]) /\ Mkdirs(n) = made
    BY <1>1, <1>3
  <2>2. missing \subseteq Node
    BY ParentOf
  <2>3. highest \in missing /\ Above[highest] \cap missing = {}
    <3>1. \E m \in missing : Above[m] \cap missing = {}
      <4> HIDE DEF missing
      <4>1. QED
        BY <2>1, <2>2, Highest
    <3>2. QED
      BY <3>1
  <2> DEFINE d == Parent[highest]
  <2> HIDE DEF highest
  <2>4. d = Root \/ (d \in Node /\ dest[d].type = "dir" /\ d \in Above[n] /\ d \notin missing)
    <3>1. highest \in Within(n) /\ highest \in Node
      BY <2>2, <2>3
    <3>2. SUFFICES ASSUME d # Root
                   PROVE  d \in Node /\ dest[d].type = "dir" /\ d \in Above[n] /\ d \notin missing
      OBVIOUS
    <3>3. d \in Node /\ d \in Above[highest]
      BY <3>1, <3>2, ParentOf
    <3>4. Above[highest] \subseteq Above[n]
      BY <3>1, AboveAbove
    <3>5. dest[d].type = "dir"
      BY <2>1, <3>2 DEF CanCreateIn, IsDir
    <3>6. QED
      BY <2>3, <3>3, <3>4, <3>5
  <2>5. n # d
    BY <2>4, ParentOf
  <2>6. \A m \in Node :
            \/ m \in missing /\ made[m] = DestFile("dir", "")
            \/ m \notin missing /\ m = d /\ made[m] = [dest[m] EXCEPT !.time = FALSE]
            \/ m \notin missing /\ m # d /\ made[m] = dest[m]
    OBVIOUS
  <2>7. made \in [Node -> DestFiles]
    <3>1. \A m \in Node : made[m] \in DestFiles
      BY <2>6, NewFile, DestIs
    <3>2. QED
      BY <3>1
  <2>8. \A m \in missing : m \in Within(n) /\ dest[m].type = "none" /\ m \in Node
    BY <2>2
  <2> HIDE DEF made, missing
  <2>9. Besides(dest, made, n)
    <3>1. SUFFICES ASSUME NEW m \in Node \ {n}, made[m] # dest[m]
                   PROVE  /\ m \in Above[n] /\ made[m].type = "dir" /\ made[m].data = ""
                          /\ ~made[m].time
                          /\ \/ dest[m].type = "none" /\ made[m].sha1 = ""
                             \/ dest[m].type = "dir" /\ made[m].mode = dest[m].mode /\ made[m].sha1 = dest[m].sha1
      BY DEF Besides
    <3>2. CASE m \in missing
      <4>1. made[m] = DestFile("dir", "")
        BY <2>6, <3>2
      <4>2. m \in Above[n]
        BY <2>8, <3>1, <3>2 DEF Within
      <4>3. made[m].type = "dir" /\ made[m].data = "" /\ made[m].sha1 = "" /\ ~made[m].time
        BY <4>1, NewFileHas
      <4>4. QED
        BY <2>8, <3>2, <4>2, <4>3
    <3>3. CASE m \notin missing
      <4>1. m = d /\ made[m] = [dest[m] EXCEPT !.time = FALSE]
        BY <2>6, <3>1, <3>3
      <4>2. m # Root /\ dest[m].type = "dir" /\ m \in Above[n] /\ dest[m] \in DestFiles
        BY <2>4, <4>1, ParentOf
      <4>3. dest[m].data = ""
        BY <4>2, DestIs
      <4>4. QED
        BY <4>1, <4>2, <4>3 DEF DestFiles
    <3>4. QED
      BY <3>2, <3>3
  <2>10. made[n] = dest[n] \/ (dest[n].type = "none" /\ made[n] = DestFile("dir", ""))
    BY <2>5, <2>6, <2>8
  <2>11. IsTree(made)
    <3>1. SUFFICES ASSUME NEW m \in Node, made[m].type # "none", Parent[m] # Root
                   PROVE  made[Parent[m]].type = "dir"
      BY DEF IsTree
    <3>2. Parent[m] \in Node /\ Parent[m] \in Above[m]
      BY <3>1, ParentOf
    <3>3. CASE dest[m].type # "none"
      <4>1. dest[Parent[m]].type = "dir"
        BY <3>1, <3>3 DEF IsTree
      <4>2. QED
        BY <2>9, <2>10, <3>2, <4>1 DEF Besides
    <3>4. CASE dest[m].type = "none"
      <4>1. m \in Within(n)
        <5>1. CASE m = n
          BY <5>1, ParentOf
        <5>2. CASE m # n
          BY <2>9, <3>1, <3>4, <5>2 DEF Besides, Within
        <5>3. QED
          BY <5>1, <5>2
      <4>2. m \in missing
        BY <3>4, <4>1 DEF missing
      <4>3. CASE dest[Parent[m]].type = "none"
        <5>1. Parent[m] \in Within(n)
          BY <3>2, <4>1, AboveAbove DEF Within
        <5>2. Parent[m] \in missing
          BY <4>3, <5>1 DEF missing
        <5>3. made[Parent[m]] = DestFile("dir", "")
          BY <2>6, <3>2, <5>2
        <5>4. QED
          BY <5>3, NewFileHas
      <4>4. CASE dest[Parent[m]].type # "none"
        <5>1. highest \in Within(m)
          <6>1. highest \in Within(m) \/ m \in Within(highest)
            BY <2>3, <2>8, <4>1, OneWay
          <6>2. m \notin Above[highest]
            BY <2>3, <4>2
          <6>3. QED
            BY <6>1, <6>2, ParentOf, <3>1 DEF Within
        <5>2. CASE highest = m
          <6>1. d = Parent[m] /\ d # Root
            BY <3>1, <5>2
          <6>2. dest[Parent[m]].type = "dir"
            BY <2>4, <6>1
          <6>3. QED
            BY <2>9, <2>10, <3>2, <6>2 DEF Besides
        <5>3. CASE highest # m
          <6>1. highest \in Within(Parent[m])
            BY <3>1, <5>1, <5>3, ParentOf DEF Within
          <6>2. highest # Parent[m]
            BY <2>3, <2>8, <4>4
          <6>3. highest \in Above[Parent[m]]
            BY <6>1, <6>2 DEF Within
          <6>4. dest[highest].type = "dir"
            BY <3>2, <4>4, <6>3, DirectoriesAbove
          <6>5. QED
            BY <2>3, <2>8, <6>4
        <5>4. QED
          BY <5>2, <5>3
      <4>5. QED
        BY <4>3, <4>4
    <3>5. QED
      BY <3>3, <3>4
  <2>12. QED
    BY <2>1, <2>7, <2>9, <2>10, <2>11
<1>4. QED
  BY <1>2, <1>3

LEMMA MakeParentIs ==
    ASSUME dest \in [Node -> DestFiles], IsTree(dest), NEW n \in Node
    PROVE  /\ MakeParent(n) \in [Node -> DestFiles] /\ IsTree(MakeParent(n))
           /\ Besides(dest, MakeParent(n), n) /\ MakeParent(n)[n] = dest[n]
<1>1. CASE Parent[n] = Root
  BY <1>1, BesidesItself DEF MakeParent
<1>2. CASE Parent[n] # Root
  <2> DEFINE p == Parent[n]
  <2>1. p \in Node /\ p \in Above[n] /\ n \notin Above[n] /\ Above[p] \subseteq Above[n]
    BY <1>2, ParentOf
  <2>2. MakeParent(n) = Mkdirs(p)
    BY <1>2 DEF MakeParent
  <2>3. /\ Mkdirs(p) \in [Node -> DestFiles] /\ IsTree(Mkdirs(p)) /\ Besides(dest, Mkdirs(p), p)
        /\ Mkdirs(p)[p] = dest[p] \/ (dest[p].type = "none" /\ Mkdirs(p)[p] = DestFile("dir", ""))
    BY <2>1, MkdirsIs
  <2>4. Mkdirs(p)[n] = dest[n]
    BY <2>1, <2>3 DEF Besides
  <2>5. Besides(dest, Mkdirs(p), n)
    <3>1. SUFFICES ASSUME NEW m \in Node \ {n}, Mkdirs(p)[m] # dest[m]
                   PROVE  /\ m \in Above[n] /\ Mkdirs(p)[m].type = "dir"
                          /\ Mkdirs(p)[m].data = "" /\ ~Mkdirs(p)[m].time
                          /\ \/ dest[m].type = "none" /\ Mkdirs(p)[m].sha1 = ""
                             \/ dest[m].type = "dir" /\ Mkdirs(p)[m].mode = dest[m].mode /\ Mkdirs(p)[m].sha1 = dest[m].sha1
      BY DEF Besides
    <3>2. CASE m = p
      <4>1. Mkdirs(p)[p] = DestFile("dir", "") /\ dest[p].type = "none"
        BY <2>3, <3>1, <3>2
      <4>2. /\ Mkdirs(p)[p].type = "dir" /\ Mkdirs(p)[p].data = "" /\ Mkdirs(p)[p].sha1 = ""
            /\ ~Mkdirs(p)[p].time
        BY <4>1, NewFileHas
      <4>3. QED
        BY <2>1, <3>2, <4>1, <4>2
    <3>3. CASE m # p
      BY <2>1, <2>3, <3>1, <3>3 DEF Besides
    <3>4. QED
      BY <3>2, <3>3
  <2>6. QED
    BY <2>2, <2>3, <2>4, <2>5
<1>3. QED
  BY <1>1, <1>2

LEMMA OpenedIs ==
    ASSUME NEW files \in [Node -> DestFiles], IsTree(files), NEW n \in Node
    PROVE  /\ Opened(files, n) \in [Node -> DestFiles] /\ IsTree(Opened(files, n))
           /\ Besides(files, Opened(files, n), n)
           /\ \/ /\ files[n].type = "link" /\ Opened(files, n)[n].type = "link"
                 /\ Opened(files, n)[n].data = "overwritten" /\ Opened(files, n)[n].sha1 = files[n].sha1
              \/ /\ files[n].type = "file" /\ Opened(files, n)[n].type = "file"
                 /\ Opened(files, n)[n].data = "partial" /\ ~Opened(files, n)[n].time
                 /\ Opened(files, n)[n].sha1 = files[n].sha1
              \/ files[n].type = "none" /\ Opened(files, n)[n] = DestFile("file", "partial")
              \/ files[n].type # "link" /\ Opened(files, n) = files
<1> DEFINE opened == Opened(files, n)
<1>1. files[n] \in DestFiles /\ "partial" \in DestData /\ "overwritten" \in DestData
  BY DEF DestData
<1>2. CASE files[n].type = "link"
  <2>1. opened = [files EXCEPT ![n].data = "overwritten"]
    BY <1>2 DEF Opened
  <2>2. [files[n] EXCEPT !.data = "overwritten"] \in DestFiles
    BY <1>1, <1>2 DEF DestFiles
  <2>3. opened \in [Node -> DestFiles] /\ \A m \in Node \ {n} : opened[m] = files[m]
    BY <2>1, <2>2
  <2>4. opened[n].type = "link" /\ opened[n].data = "overwritten" /\ opened[n].sha1 = files[n].sha1
    <3>1. opened[n] = [files[n] EXCEPT !.data = "overwritten"]
      BY <2>1
    <3>2. QED
      BY <1>1, <1>2, <3>1 DEF DestFiles
  <2>5. IsTree(opened)
    BY <1>2, <2>3, <2>4, ParentOf DEF IsTree
  <2>6. QED
    BY <1>2, <2>3, <2>4, <2>5 DEF Besides
<1>3. CASE files[n].type = "file" /\ Writable(n)
  <2>1. opened = [files EXCEPT ![n].data = "partial", ![n].time = FALSE]
    BY <1>3 DEF Opened
  <2>2. [files[n] EXCEPT !.data = "partial", !.time = FALSE] \in DestFiles
    BY <1>1, <1>3 DEF DestFiles
  <2>3. opened \in [Node -> DestFiles] /\ \A m \in Node \ {n} : opened[m] = files[m]
    BY <1>1, <1>3, <2>1, <2>2
  <2>4. /\ opened[n].type = "file" /\ opened[n].data = "partial" /\ ~opened[n].time
        /\ opened[n].sha1 = files[n].sha1
    <3>1. opened[n] = [files[n] EXCEPT !.data = "partial", !.time = FALSE]
      BY <1>1, <2>1 DEF DestFiles
    <3>2. QED
      BY <1>1, <1>3, <3>1 DEF DestFiles
  <2>5. IsTree(opened)
    BY <1>3, <2>3, <2>4, ParentOf DEF IsTree
  <2>6. QED
    BY <1>3, <2>3, <2>4, <2>5 DEF Besides
<1>4. CASE files[n].type = "none" /\ (Parent[n] = Root \/ files[Parent[n]].type = "dir")
           /\ opened = Put(files, n, DestFile("file", "partial"))
  <2>1. \A m \in Beneath(n) : files[m].type = "none"
    <3>1. SUFFICES ASSUME NEW m \in Node, n \in Above[m], files[m].type # "none" PROVE FALSE
      BY DEF Beneath
    <3>2. files[n].type = "dir"
      BY <3>1, DirectoriesAbove
    <3>3. QED
      BY <1>4, <3>2
  <2>2. DestFile("file", "partial") \in DestFiles
    BY <1>1, NewFile
  <2>3. QED
    BY <1>4, <2>1, <2>2, PutIs
<1>5. CASE files[n].type # "link" /\ opened = files
  BY <1>5, BesidesItself
<1>6. QED
  BY <1>2, <1>3, <1>4, <1>5 DEF Opened

-----------------------------------------------------------------------------
(* The index file as it is read.                                           *)

LEMMA ParsedIs ==
    ASSUME NEW line \in Lines, line.type \in {"D", "F", "S"}, line.type = "S" => line.data # ""
    PROVE  /\ ParseEntry(line).type = line.type /\ ParseEntry(line).path = line.path
           /\ ParseEntry(line).data \in DestData \ {"partial", "overwritten", "wrong"}
           /\ line.type = "D" => ParseEntry(line).data = ""
           /\ line.type = "F" => ParseEntry(line).data = line.data /\ line.data \in Contents
           /\ line.type = "S" /\ line.data \in {"short", "long"} => ParseEntry(line).data = line.data
           /\ line.path \in Node
<1>1. line.path \in Node /\ line = [type |-> line.type, path |-> line.path, data |-> line.data]
  BY LineIs
<1>2. CASE line.type = "S"
  <2>1. line.data \in {"short", "long", "altered"}
    BY <1>2, LineIs DEF Pieces
  <2>2. ParseEntry(line) = [line EXCEPT !.data = IF @ = "altered" THEN "changed" ELSE @]
    BY <1>2 DEF ParseEntry
  <2>3. /\ ParseEntry(line).type = line.type /\ ParseEntry(line).path = line.path
        /\ ParseEntry(line).data = IF line.data = "altered" THEN "changed" ELSE line.data
    BY <1>1, <2>2
  <2>4. QED
    BY <1>1, <1>2, <2>1, <2>3 DEF DestData, Pieces
<1>3. CASE line.type \in {"D", "F"}
  <2>1. ParseEntry(line) = [line EXCEPT !.data = @]
    BY <1>3 DEF ParseEntry
  <2>2. /\ ParseEntry(line).type = line.type /\ ParseEntry(line).path = line.path
        /\ ParseEntry(line).data = line.data
    BY <1>1, <2>1
  <2>3. line.data \in DestData \ {"partial", "overwritten", "wrong"}
    BY <1>3, LineIs, RestoreAssumption DEF DestData, Pieces
  <2>4. QED
    BY <1>1, <1>3, <2>2, <2>3, LineIs
<1>4. QED
  BY <1>2, <1>3

LEMMA NextEntryIs ==
    ASSUME NEW lines \in Seq(Lines), NEW i \in Nat \ {0}
    PROVE  /\ NextEntry(lines, i) = Eof => i > Len(lines) \/ (i \in DOMAIN lines /\ lines[i].type = "rest")
           /\ NextEntry(lines, i) \notin {Eof, Invalid} =>
                  /\ i \in DOMAIN lines /\ i <= Len(lines) /\ lines[i] \in Lines
                  /\ lines[i].type \in {"D", "F", "S"} /\ (lines[i].type = "S" => lines[i].data # "")
                  /\ NextEntry(lines, i) = ParseEntry(lines[i])
           /\ i \in DOMAIN lines /\ lines[i].type \in {"D", "F", "S"} /\ (lines[i].type = "S" => lines[i].data # "") =>
                  NextEntry(lines, i) \notin {Eof, Invalid}
<1>1. DOMAIN lines = 1..Len(lines) /\ Len(lines) \in Nat
  BY LenProperties
<1>2. CASE i > Len(lines)
  <2>1. ReadLine(lines, i) = Rest("")
    BY <1>2 DEF ReadLine
  <2>2. NextEntry(lines, i) = Eof
    <3>1. Rest("").type = "rest" /\ Rest("").data = ""
      BY DEF Rest
    <3>2. QED
      BY <2>1, <3>1 DEF NextEntry
  <2>3. i \notin DOMAIN lines
    BY <1>1, <1>2
  <2>4. QED
    BY <1>2, <2>2, <2>3
<1>3. CASE ~(i > Len(lines))
  <2>1. i \in 1..Len(lines) /\ i <= Len(lines)
    BY <1>1, <1>3
  <2>2. lines[i] \in Lines /\ i \in DOMAIN lines
    BY <1>1, <2>1, ElementOfSeq
  <2>3. ReadLine(lines, i) = lines[i]
    BY <1>3 DEF ReadLine
  <2>4. lines[i].type \in {"D", "F", "S", "rest"}
    BY <2>2, LineIs
  <2>5. CASE lines[i].type = "rest"
    BY <1>3, <2>2, <2>3, <2>5 DEF NextEntry, ParseEntry
  <2>6. CASE lines[i].type # "rest"
    <3>1. NextEntry(lines, i) = ParseEntry(lines[i])
      BY <2>3, <2>6 DEF NextEntry
    <3>2. CASE lines[i].type = "S" /\ lines[i].data = ""
      <4>1. NextEntry(lines, i) = Invalid /\ Invalid # Eof
        BY <3>1, <3>2 DEF ParseEntry, Invalid, Eof
      <4>2. QED
        BY <3>2, <4>1
    <3>3. CASE ~(lines[i].type = "S" /\ lines[i].data = "")
      <4>1. ParseEntry(lines[i]).type \in {"D", "F", "S"}
        BY <2>2, <2>4, <2>6, <3>3, ParsedIs
      <4>2. ParseEntry(lines[i]) \notin {Eof, Invalid}
        BY <4>1 DEF Eof, Invalid
      <4>3. QED
        BY <2>1, <2>2, <2>4, <2>6, <3>1, <3>3, <4>2
    <3>4. QED
      BY <3>2, <3>3
  <2>7. QED
    BY <2>5, <2>6
<1>4. QED
  BY <1>2, <1>3

LEMMA IndexIs ==
    ASSUME BackupInv, RestoreInv
    PROVE  index \in Seq(Lines)
<1>1. shabackup \in Seq(Lines) /\ <<>> \in Seq(Lines)
  BY DEF BackupInv, BackupTypeOK
<1>2. CASE restorePc = "waiting"
  BY <1>1, <1>2 DEF RestoreInv, IndexInv
<1>3. CASE restorePc # "waiting"
  BY <1>1, <1>3 DEF RestoreInv, IndexInv
<1>4. QED
  BY <1>2, <1>3

(* All lines before the end are entries, and those asked for are chosen.   *)
LEMMA SeenIs ==
    ASSUME BackupInv, RestoreInv, restorePc \in Running \cup {"done"}, NEW i \in Nat \ {0},
           i <= pos, restorePc = "done" => i < pos
    PROVE  /\ i \in DOMAIN index /\ index[i] \in Lines /\ index[i].type \in {"D", "F", "S"}
           /\ index[i].path \in Node
           /\ index[i].type = "S" => index[i].data # ""
           /\ NextEntry(index, i) = ParseEntry(index[i]) /\ NextEntry(index, i) \notin {Eof, Invalid}
           /\ index[i] \in Legible(index)
           /\ Matches(index[i].path) => index[i] \in Chosen
<1>1. pos \in Nat
  BY DEF RestoreInv, RestoreTypeOK
<1>2. \A k \in 1..i : NextEntry(index, k) \notin {Eof, Invalid}
  BY <1>1 DEF RestoreInv, PlaceInv
<1>3. NextEntry(index, i) \notin {Eof, Invalid}
  BY <1>2
<1>4. /\ i \in DOMAIN index /\ index[i] \in Lines /\ index[i].type \in {"D", "F", "S"}
      /\ index[i].type = "S" => index[i].data # ""
      /\ NextEntry(index, i) = ParseEntry(index[i])
  BY <1>3, IndexIs, NextEntryIs
<1>5. index[i].path \in Node
  BY <1>4, LineIs
<1>6. index[i] \in Legible(index)
  BY <1>2, <1>4 DEF Legible, Readable
<1>7. QED
  BY <1>3, <1>4, <1>5, <1>6 DEF Chosen

LEMMA EntryIs ==
    ASSUME BackupInv, RestoreInv, restorePc \in Running \ {"next"}
    PROVE  /\ pos \in Nat \ {0} /\ pos \in DOMAIN index /\ index[pos] \in Lines /\ index[pos] \in Chosen
           /\ entry = ParseEntry(index[pos]) /\ entry.path = index[pos].path
           /\ entry.type = index[pos].type
           /\ entry.path \in Node /\ Matches(entry.path) /\ entry.type \in {"D", "F", "S"}
           /\ entry.type = "D" => entry.data = ""
           /\ entry.type = "F" => entry.data = index[pos].data /\ entry.data \in Contents
           /\ entry.data \in DestData \ {"partial", "overwritten", "wrong"}
<1>1. /\ pos \in Nat \ {0} /\ pos <= pos /\ entry = NextEntry(index, pos)
      /\ Matches(entry.path) /\ restorePc # "done"
  BY DEF RestoreInv, RestoreTypeOK, PlaceInv, Running
<1>2. /\ pos \in DOMAIN index /\ index[pos] \in Lines /\ index[pos].type \in {"D", "F", "S"}
      /\ index[pos].type = "S" => index[pos].data # ""
      /\ NextEntry(index, pos) = ParseEntry(index[pos])
      /\ Matches(index[pos].path) => index[pos] \in Chosen
  BY <1>1, SeenIs
<1>3. /\ entry.path = index[pos].path /\ entry.type = index[pos].type
      /\ entry.path \in Node /\ entry.type \in {"D", "F", "S"}
      /\ entry.type = "D" => entry.data = ""
      /\ entry.type = "F" => entry.data = index[pos].data /\ entry.data \in Contents
      /\ entry.data \in DestData \ {"partial", "overwritten", "wrong"}
  BY <1>1, <1>2, ParsedIs
<1>4. QED
  BY <1>1, <1>2, <1>3

-----------------------------------------------------------------------------
(* The steps of a restore.                                                 *)

(* What stays during a run.                                                *)
LEMMA SameRun ==
    ASSUME UNCHANGED <<index, damage, opts, before>>
    PROVE  /\ \A n : Matches(n)' <=> Matches(n)
           /\ \A i : NextEntry(index, i)' = NextEntry(index, i)
           /\ Legible(index)' = Legible(index) /\ Chosen' = Chosen
           /\ \A n : Excused(n)' <=> Excused(n)
           /\ \A data : Wrong(data)' <=> Wrong(data)
           /\ \A id : Damaged(id)' <=> Damaged(id)
           /\ \A n : LinkAt(n)' <=> LinkAt(n)
           /\ \A line : LinkAbove(line)' <=> LinkAbove(line)
<1>1. index' = index /\ damage' = damage /\ opts' = opts /\ before' = before
  OBVIOUS
<1>2. \A n : Matches(n)' <=> Matches(n)
  BY <1>1, Zenon DEF Matches
<1>3. \A i : NextEntry(index, i)' = NextEntry(index, i)
  BY <1>1, Zenon
<1>4. Legible(index)' = Legible(index)
  BY <1>1, Zenon
<1>5. Chosen' = Chosen
  <2>1. \A line : line \in Chosen' <=> line \in Legible(index)' /\ Matches(line.path)'
    BY DEF Chosen
  <2>2. \A line : line \in Chosen <=> line \in Legible(index) /\ Matches(line.path)
    BY DEF Chosen
  <2>3. \A line : line \in Chosen' <=> line \in Chosen
    BY <1>2, <1>4, <2>1, <2>2
  <2>4. QED
    BY <2>3
<1>6. \A n : Excused(n)' <=> Excused(n)
  BY <1>1, <1>5, Zenon DEF Excused
<1>7. \A data : Wrong(data)' <=> Wrong(data)
  BY <1>1, Zenon DEF Wrong
<1>8. \A id : Damaged(id)' <=> Damaged(id)
  BY <1>1, Zenon DEF Damaged
<1>9. \A n : LinkAt(n)' <=> LinkAt(n)
  BY <1>1, <1>5, Zenon DEF LinkAt
<1>10. \A line : LinkAbove(line)' <=> LinkAbove(line)
  BY <1>9, Zenon DEF LinkAbove
<1>11. QED
  BY <1>2, <1>3, <1>4, <1>5, <1>6, <1>7, <1>8, <1>9, <1>10

(* What is right stays right when something is done with another path.     *)
LEMMA SettledStays ==
    ASSUME UNCHANGED <<index, damage, opts, before>>, NEW n \in Node,
           dest \in [Node -> DestFiles], dest' \in [Node -> DestFiles], Besides(dest, dest', n),
           \E other \in Chosen : other.path = n,
           \A m \in Node : dest[m].data = "overwritten" => dest[m].type = "link",
           NEW line \in Lines, line.type \in {"D", "F", "S"}, line.path # n, Settled(line)
    PROVE  Settled(line)'
<1> DEFINE m == line.path
<1>1. m \in Node \ {n}
  BY LineIs
<1>2. LinkAbove(line) => Settled(line)'
  BY SameRun DEF Settled
<1>3. CASE dest'[m] = dest[m]
  <2>1. Restored(line) => Restored(line)'
    BY <1>3, SameRun, Zenon DEF Restored
  <2>2. Spared(line) => Spared(line)'
    BY <1>3, SameRun, Zenon DEF Spared
  <2>3. WrittenThrough(line) => WrittenThrough(line)'
    BY <1>3, SameRun, Zenon DEF WrittenThrough
  <2>4. QED
    BY <1>2, <2>1, <2>2, <2>3 DEF Settled
<1>4. CASE dest'[m] # dest[m]
  <2>1. /\ m \in Above[n] /\ dest'[m].type = "dir" /\ dest'[m].data = ""
        /\ \/ dest[m].type = "none"
           \/ dest[m].type = "dir" /\ dest'[m].mode = dest[m].mode
    BY <1>1, <1>4 DEF Besides
  <2>2. dest[m].data # "overwritten" /\ ~WrittenThrough(line)
    BY <1>1, <2>1 DEF WrittenThrough
  <2>3. CASE line.type # "D" \/ dest[m].type = "none"
    BY <1>2, <2>1, <2>2, <2>3 DEF Settled, Spared, Restored, TypeOf
  <2>4. CASE line.type = "D" /\ dest[m].type = "dir"
    <3>1. dest[m].data = ""
      BY <1>1, <2>4, DestIs
    <3>2. Restored(line) => Restored(line)'
      <4>1. n \in Beneath(m)
        BY <2>1 DEF Beneath
      <4>2. \E other \in Chosen' : other.path \in Beneath(m)
        BY <4>1, SameRun
      <4>3. QED
        BY <2>1, <2>4, <3>1, <4>2 DEF Restored, TypeOf
    <3>3. Spared(line) => Spared(line)'
      BY <2>1, <2>4 DEF Spared, TypeOf
    <3>4. QED
      BY <1>2, <2>2, <3>2, <3>3 DEF Settled
  <2>5. QED
    BY <2>1, <2>3, <2>4
<1>5. QED
  BY <1>3, <1>4

(* The lines that have been handled when there is an entry in hand, and    *)
(* afterwards.                                                             *)
LEMMA PassedIs ==
    ASSUME BackupInv, RestoreInv, restorePc \in Running \ {"next"}
    PROVE  /\ 1..pos = Seen \cup {pos} /\ Seen \subseteq 1..pos
           /\ Passed \subseteq 1..pos /\ \A i \in 1..pos : Matches(index[i].path) => i \in Passed \/ i = pos
           /\ \A i \in Passed : Matches(index[i].path)
           /\ restorePc # "entry" => Seen = 1..pos
<1>1. pos \in Nat \ {0}
  BY EntryIs
<1>2. Seen = 1..(IF restorePc = "entry" THEN pos - 1 ELSE pos)
  BY DEF Seen, Running
<1>3. 1..pos = (1..pos - 1) \cup {pos}
  BY <1>1
<1>4. QED
  BY <1>2, <1>3 DEF Passed

(* What any step does that has an entry in hand: it is enough to look at   *)
(* the path of the entry, at the program counter and at the output.        *)
EntryFrame ==
    /\ restorePc \in Running \ {"next"}
    /\ UNCHANGED <<backupPc, touched, shabackup, index, damage, opts, pos, entry, before, known, runs>>
    /\ dest' \in [Node -> DestFiles] /\ IsTree(dest') /\ Besides(dest, dest', entry.path)
    /\ hasErrors' \in BOOLEAN /\ (hasErrors => hasErrors')
    /\ restorePc' \in {"next", "aborted"} \cup InHand
    /\ restorePc' \in InHand => opts.mode = "restore"
    /\ restorePc' = "dirMeta" => entry.type = "D"
    /\ restorePc' \in {"export", "fileMeta"} => entry.type = "F"
    /\ restorePc' \in {"symlink", "linkMeta"} => entry.type = "S"
EntryFile ==
    LET file == dest[entry.path]
        new == dest'[entry.path]
    IN  /\ new.type \in {"file", "link"} => new.type = file.type \/ new.type = TypeOf(entry)
        /\ Excused(entry.path) \/ (new.type = file.type /\ new.data = file.data)
        /\ new.data = "overwritten" => new.type = "link"
        /\ new.sha1 # "" =>
               /\ new.type = "file" /\ (new.sha1 = file.sha1 \/ (entry.type = "F" /\ new.sha1 = entry.data))
               /\ new.time => new.data = new.sha1 \/ Wrong(new.data)
        /\ new.data = "partial" /\ ~hasErrors' /\ restorePc' # "aborted" =>
               restorePc' = "export" \/ (restorePc # "export" /\ file.data = "partial")

LEMMA EntryFrameKeeps ==
    ASSUME BackupInv, RestoreInv, EntryFrame
    PROVE  /\ RestoreTypeOK' /\ IndexInv' /\ PlaceInv' /\ FirstInv'
           /\ Seen' = 1..pos /\ Passed' = {i \in 1..pos : Matches(index[i].path)}
           /\ Passed \subseteq Passed' /\ pos \in Passed' /\ Passed' = Passed \cup {pos}
<1>1. /\ pos \in Nat \ {0} /\ pos \in DOMAIN index /\ entry.path \in Node /\ Matches(entry.path)
      /\ entry.path = index[pos].path
  BY EntryIs DEF EntryFrame
<1>2. /\ restorePc \in Running /\ restorePc # "next" /\ restorePc # "waiting" /\ restorePc # "done"
      /\ restorePc' \in Running \cup {"aborted"} /\ restorePc' # "entry" /\ restorePc' # "done"
      /\ restorePc' # "waiting" /\ restorePc' # "idle"
      /\ index' = index /\ pos' = pos /\ opts' = opts /\ entry' = entry /\ before' = before
      /\ known' = known
      /\ runs' = runs
  BY DEF EntryFrame, Running, InHand
<1>3. \A n : Matches(n)' <=> Matches(n)
  BY SameRun DEF EntryFrame
<1>4. RestoreTypeOK'
  BY <1>1, <1>2 DEF EntryFrame, RestoreInv, RestoreTypeOK, Ended
<1>5. IndexInv'
  <2>1. backupPc = "done" /\ index = shabackup
    BY <1>2 DEF RestoreInv, IndexInv
  <2>2. QED
    BY <1>2, <2>1 DEF EntryFrame, IndexInv
<1>6. PlaceInv'
  <2>1. opts' \in Options
    BY <1>2 DEF RestoreInv, PlaceInv, AtWork
  <2>2. \A k \in 1..pos : k <= Len(index) /\ NextEntry(index, k) \notin {Eof, Invalid}
    BY <1>2 DEF RestoreInv, PlaceInv
  <2>3. entry = NextEntry(index, pos)
    BY <1>2 DEF RestoreInv, PlaceInv
  <2>4. Matches(entry.path)'
    <3>1. PICK n : n = entry.path
      OBVIOUS
    <3>2. Matches(n)'
      BY <1>1, <1>3, <3>1
    <3>3. n = entry'.path
      BY <1>2, <3>1
    <3>4. QED
      BY <3>2, <3>3
  <2>5. /\ restorePc' \in InHand => opts'.mode = "restore"
        /\ restorePc' = "dirMeta" => entry'.type = "D"
        /\ restorePc' \in {"export", "fileMeta"} => entry'.type = "F"
        /\ restorePc' \in {"symlink", "linkMeta"} => entry'.type = "S"
    BY <1>2 DEF EntryFrame
  <2>6. QED
    BY <1>1, <1>2, <2>1, <2>2, <2>3, <2>4, <2>5 DEF PlaceInv
<1>7. FirstInv'
  <2>1. runs # 0
    BY <1>2 DEF RestoreInv, FirstInv, Running
  <2>2. QED
    BY <1>2, <2>1 DEF EntryFrame, RestoreInv, FirstInv
<1>8. Seen' = 1..pos
  BY <1>2 DEF Seen
<1>9. Passed' = {i \in 1..pos : Matches(index[i].path)}
  <2>1. \A i : i \in Passed' <=> i \in Seen' /\ Matches(index[i].path)'
    BY DEF Passed
  <2>2. \A i : Matches(index[i].path)' <=> Matches(index[i].path)
    <3> TAKE i
    <3>1. PICK n : n = index[i].path
      OBVIOUS
    <3>2. n = index'[i].path
      BY <1>2, <3>1
    <3>3. QED
      BY <1>3, <3>1, <3>2
  <2>3. \A i : i \in Passed' <=> i \in 1..pos /\ Matches(index[i].path)
    BY <1>8, <2>1, <2>2
  <2>4. QED
    BY <2>3
<1>10. Passed \subseteq 1..pos /\ \A i \in Passed : Matches(index[i].path)
  BY PassedIs DEF EntryFrame
<1>11. Passed' = Passed \cup {pos}
  <2>1. 1..pos = Seen \cup {pos}
    BY PassedIs DEF EntryFrame
  <2>2. QED
    BY <1>1, <1>9, <2>1 DEF Passed
<1>12. QED
  BY <1>4, <1>5, <1>6, <1>7, <1>8, <1>9, <1>11

LEMMA EntryStep ==
    ASSUME BackupInv, RestoreInv, EntryFrame, EntryFile, restorePc' = "export" => Excused(entry.path),
           HandInv', TestInv', StreamInv',
           restorePc' = "next" /\ ~hasErrors' /\ opts.mode = "restore" => Settled(index[pos])'
    PROVE  RestoreInv'
<1> DEFINE n == entry.path
<1>1. /\ pos \in Nat \ {0} /\ pos \in DOMAIN index /\ index[pos] \in Lines /\ index[pos] \in Chosen
      /\ n \in Node /\ Matches(n) /\ n = index[pos].path /\ entry.type = index[pos].type
      /\ entry.type = "F" => entry.data = index[pos].data
  BY EntryIs DEF EntryFrame
<1>2. /\ restorePc \in AtWork /\ restorePc # "waiting" /\ restorePc' # "waiting" /\ restorePc' # "idle"
      /\ index' = index /\ pos' = pos /\ opts' = opts /\ entry' = entry /\ before' = before
      /\ known' = known
      /\ damage' = damage /\ restorePc' # "entry" /\ restorePc' # "done"
  BY DEF EntryFrame, AtWork, Running, InHand
<1>3. /\ RestoreTypeOK' /\ IndexInv' /\ PlaceInv' /\ FirstInv'
      /\ Seen' = 1..pos /\ Passed' = {i \in 1..pos : Matches(index[i].path)}
      /\ Passed \subseteq Passed' /\ pos \in Passed' /\ Passed' = Passed \cup {pos}
  BY EntryFrameKeeps
<1>4. /\ dest \in [Node -> DestFiles] /\ dest' \in [Node -> DestFiles] /\ Besides(dest, dest', n)
      /\ hasErrors' \in BOOLEAN /\ (hasErrors => hasErrors')
  BY DEF EntryFrame, RestoreInv, RestoreTypeOK
<1>5. /\ \A m : Excused(m)' <=> Excused(m)
      /\ \A data : Wrong(data)' <=> Wrong(data)
  BY <1>2, SameRun
<1>6. TypeOf(index[pos]) = TypeOf(entry)
  BY <1>1 DEF TypeOf
<1>7. MadeInv'
  <2>1. SUFFICES ASSUME NEW m \in Node
                 PROVE  /\ dest'[m].type \in {"file", "link"} =>
                               \/ before[m].type = dest'[m].type
                               \/ \E i \in Passed' : index[i].path = m /\ TypeOf(index[i]) = dest'[m].type
                        /\ dest'[m].type # "none" =>
                               before[m].type # "none" \/ \E i \in Passed' : m \in Within(index[i].path)
    BY <1>2 DEF MadeInv, TypeOf
  <2>2. /\ dest[m].type \in {"file", "link"} =>
               \/ before[m].type = dest[m].type
               \/ \E i \in Passed : index[i].path = m /\ TypeOf(index[i]) = dest[m].type
        /\ dest[m].type # "none" =>
               before[m].type # "none" \/ \E i \in Passed : m \in Within(index[i].path)
    BY <1>2 DEF RestoreInv, MadeInv
  <2>3. CASE m = n
    <3>1. m \in Within(index[pos].path)
      BY <1>1, <2>3, ParentOf
    <3>2. dest'[m].type \in {"file", "link"} => dest'[m].type = dest[m].type \/ dest'[m].type = TypeOf(entry)
      BY <2>3 DEF EntryFile
    <3>3. QED
      BY <1>1, <1>3, <1>6, <2>2, <2>3, <3>1, <3>2
  <2>4. CASE m # n
    <3>1. dest'[m].type = dest[m].type \/ (m \in Above[n] /\ dest'[m].type = "dir")
      BY <1>4, <2>4 DEF Besides
    <3>2. m \in Above[n] => m \in Within(index[pos].path)
      BY <1>1 DEF Within
    <3>3. QED
      BY <1>3, <2>2, <3>1, <3>2
  <2>5. QED
    BY <2>3, <2>4
<1>8. StayInv'
  <2>1. \A m \in Node : Excused(m) \/ (dest[m].type = before[m].type /\ dest[m].data = before[m].data)
    BY DEF RestoreInv, StayInv
  <2>2. \A m \in Node : Excused(m) \/ (dest'[m].type = before[m].type /\ dest'[m].data = before[m].data)
    <3> TAKE m \in Node
    <3>1. CASE m = n
      BY <2>1, <3>1 DEF EntryFile
    <3>2. CASE m # n
      <4>1. \/ dest'[m] = dest[m]
            \/ dest[m].type = "none"
            \/ dest[m].type = "dir" /\ dest'[m].type = "dir" /\ dest'[m].data = ""
        BY <1>4, <3>2 DEF Besides
      <4>2. CASE dest[m].type = "none"
        BY <2>1, <4>2 DEF Excused
      <4>3. dest[m].type = "dir" => dest[m].data = ""
        BY <1>4, DestIs
      <4>4. QED
        BY <2>1, <4>1, <4>2, <4>3
    <3>3. QED
      BY <3>1, <3>2
  <2>3. restorePc' = "export" => Excused(entry.path)'
    <3>1. PICK m : m = entry.path
      OBVIOUS
    <3>2. QED
      BY <1>2, <1>5, <3>1
  <2>4. QED
    BY <1>2, <1>5, <2>2, <2>3 DEF StayInv
<1>9. AttributeInv'
  <2> DEFINE Marks(m, id) == \E i \in DOMAIN index : index[i].path = m /\ index[i].type = "F" /\ index[i].data = id
  <2>1. \A m \in Node : dest[m].sha1 # "" => dest[m].type = "file" /\ Marks(m, dest[m].sha1)
    BY DEF RestoreInv, AttributeInv
  <2>2. \A m \in Node : dest[m].data = "overwritten" => dest[m].type = "link"
    BY DEF RestoreInv, AttributeInv
  <2>3. \A m \in Node : dest[m].sha1 # "" /\ dest[m].time =>
              dest[m].data = dest[m].sha1 \/ Wrong(dest[m].data)
    BY DEF RestoreInv, AttributeInv, AttributeTrue, Wrong
  <2>4. \A m \in Node : dest'[m].sha1 # "" => dest'[m].type = "file" /\ Marks(m, dest'[m].sha1)
    <3>1. entry.type = "F" => Marks(n, entry.data)
      BY <1>1
    <3> HIDE DEF Marks
    <3>2. dest'[n].sha1 # "" => dest'[n].type = "file" /\ Marks(n, dest'[n].sha1)
      BY <1>1, <2>1, <3>1 DEF EntryFile
    <3>3. ASSUME NEW m \in Node, m # n, dest'[m].sha1 # ""
          PROVE  dest'[m].type = "file" /\ Marks(m, dest'[m].sha1)
      <4>1. dest'[m] = dest[m] \/ dest'[m].sha1 = "" \/ (dest[m].type = "dir" /\ dest'[m].sha1 = dest[m].sha1)
        BY <1>4, <3>3 DEF Besides
      <4>2. dest[m].type = "dir" => dest[m].sha1 = ""
        BY <2>1
      <4>3. dest'[m] = dest[m]
        BY <3>3, <4>1, <4>2
      <4>4. QED
        BY <2>1, <3>3, <4>3
    <3>4. QED
      BY <3>2, <3>3
  <2>5. \A m \in Node : dest'[m].data = "overwritten" => dest'[m].type = "link"
    <3> TAKE m \in Node
    <3>1. CASE m = n
      BY <3>1 DEF EntryFile
    <3>2. CASE m # n
      <4>1. dest'[m] = dest[m] \/ dest'[m].data = ""
        BY <1>4, <3>2 DEF Besides
      <4>2. QED
        BY <2>2, <4>1
    <3>3. QED
      BY <3>1, <3>2
  <2>6. \A m \in Node : dest'[m].sha1 # "" /\ dest'[m].time =>
              dest'[m].data = dest'[m].sha1 \/ Wrong(dest'[m].data)
    <3> TAKE m \in Node
    <3>1. CASE m = n
      BY <3>1 DEF EntryFile
    <3>2. CASE m # n
      <4>1. dest'[m] = dest[m] \/ ~dest'[m].time
        BY <1>4, <3>2 DEF Besides
      <4>2. QED
        BY <2>3, <4>1
    <3>3. QED
      BY <3>1, <3>2
  <2>7. QED
    BY <1>2, <2>4, <2>5, <2>6 DEF AttributeInv, AttributeTrue, Wrong
<1>10. PartialInv'
  <2>1. SUFFICES ASSUME restorePc' \in AtWork, ~hasErrors', NEW m \in Node, dest'[m].data = "partial"
                 PROVE  (known /\ before[m].data = "partial") \/ (restorePc' = "export" /\ m = n)
    BY <1>2 DEF PartialInv
  <2>2. dest[m].data = "partial" =>
            (known /\ before[m].data = "partial") \/ (restorePc = "export" /\ m = n)
    BY <1>2, <1>4, <2>1 DEF RestoreInv, PartialInv
  <2>3. CASE m = n
    <3>1. restorePc' # "aborted"
      BY <2>1 DEF AtWork, Running
    <3>2. QED
      BY <2>1, <2>2, <2>3, <3>1 DEF EntryFile
  <2>4. CASE m # n
    BY <1>4, <2>1, <2>2, <2>4 DEF Besides
  <2>5. QED
    BY <2>3, <2>4
<1>11. RightInv'
  <2>1. SUFFICES ASSUME restorePc' \in AtWork, ~hasErrors', opts.mode = "restore", NEW i \in Passed'
                 PROVE  Settled(index[i])' \/ Outdated(i)' \/ (restorePc' \in InHand /\ index[i].path = n)
    BY <1>2 DEF RightInv
  <2>2. i \in 1..pos /\ (i = pos \/ i \in Passed)
    BY <1>3, <2>1
  <2>3. CASE i = pos
    <3>1. restorePc' \in InHand \/ restorePc' = "next"
      BY <2>1 DEF EntryFrame, AtWork, Running
    <3>2. restorePc' = "next" => Settled(index[i])'
      <4>1. PICK line : line = index[i]
        OBVIOUS
      <4>2. line = index[i]' /\ line = index[pos]'
        BY <1>2, <2>3, <4>1
      <4>3. restorePc' = "next" => Settled(line)'
        BY <2>1, <4>2
      <4>4. QED
        BY <4>2, <4>3
    <3>3. QED
      BY <1>1, <2>3, <3>1, <3>2
  <2>4. CASE i # pos /\ index[i].path = n
    <3>1. pos > i /\ pos \in Passed' /\ index'[pos].path = index'[i].path
      BY <1>1, <1>2, <1>3, <2>2, <2>4
    <3>2. Outdated(i)'
      BY <3>1 DEF Outdated
    <3>3. QED
      BY <3>2
  <2>5. CASE i # pos /\ index[i].path # n /\ Outdated(i)
    <3>1. PICK j \in Passed : j > i /\ index[j].path = index[i].path
      BY <2>5 DEF Outdated
    <3>2. Outdated(i)'
      BY <1>2, <1>3, <3>1 DEF Outdated
    <3>3. QED
      BY <3>2
  <2>6. CASE i # pos /\ index[i].path # n /\ ~Outdated(i)
    <3>1. Settled(index[i])
      BY <1>2, <1>4, <2>1, <2>2, <2>6, <1>1 DEF RestoreInv, RightInv
    <3>2. index[i] \in Lines /\ index[i].type \in {"D", "F", "S"}
      <4>1. i \in Nat \ {0} /\ i <= pos /\ restorePc # "done" /\ restorePc \in Running
        BY <1>1, <2>2 DEF EntryFrame, Running
      <4>2. QED
        BY <4>1, SeenIs
    <3>3. PICK line : line = index[i]
      OBVIOUS
    <3>4. line = index[i]'
      BY <1>2, <3>3
    <3>5. \E other \in Chosen : other.path = n
      BY <1>1
    <3>6. PICK m : m = n
      OBVIOUS
    <3>7. Besides(dest, dest', m) /\ \E other \in Chosen : other.path = m
      BY <1>4, <3>5, <3>6
    <3>8. \A k \in Node : dest[k].data = "overwritten" => dest[k].type = "link"
      BY DEF RestoreInv, AttributeInv
    <3>9. Settled(line)'
      BY <3>8, <1>1, <1>2, <1>4, <2>6, <3>1, <3>2, <3>3, <3>6, <3>7, SettledStays
    <3>10. QED
      BY <3>4, <3>9
  <2>7. QED
    BY <2>2, <2>3, <2>4, <2>5, <2>6
<1>12. QED
  BY <1>3, <1>7, <1>8, <1>9, <1>10, <1>11 DEF RestoreInv

(* A file in hand that stays as it is.                                     *)
LEMMA SameFile ==
    ASSUME RestoreInv, entry.path \in Node, dest' = dest, restorePc # "export" \/ hasErrors'
    PROVE  EntryFile
<1> DEFINE n == entry.path
<1>1. dest'[n] = dest[n]
  OBVIOUS
<1>2. dest[n].data = "overwritten" => dest[n].type = "link"
  BY DEF RestoreInv, AttributeInv
<1>3. dest[n].sha1 # "" => dest[n].type = "file"
  BY DEF RestoreInv, AttributeInv
<1>4. dest[n].sha1 # "" /\ dest[n].time => dest[n].data = dest[n].sha1 \/ Wrong(dest[n].data)
  BY DEF RestoreInv, AttributeInv, AttributeTrue, Wrong
<1>5. QED
  BY <1>1, <1>2, <1>3, <1>4 DEF EntryFile

LEMMA SettledSame ==
    ASSUME UNCHANGED <<index, damage, opts, before, dest>>, NEW line, Settled(line)
    PROVE  Settled(line)'
<1>1. Restored(line) => Restored(line)'
  BY SameRun, Zenon DEF Restored
<1>2. Spared(line) => Spared(line)'
  BY SameRun, Zenon DEF Spared
<1>3. LinkAbove(line) => LinkAbove(line)'
  BY SameRun
<1>4. WrittenThrough(line) => WrittenThrough(line)'
  BY SameRun, Zenon DEF WrittenThrough
<1>5. QED
  BY <1>1, <1>2, <1>3, <1>4 DEF Settled

LEMMA RestoreMode ==
    ASSUME RestoreInv, opts.mode = "restore", UNCHANGED <<opts, output>>
    PROVE  TestInv' /\ StreamInv'
BY DEF RestoreInv, TestInv, StreamInv

Quiet == UNCHANGED <<backupPc, touched, shabackup, runs>>

(* Links were there at the start, or have lines of their own.              *)
LEMMA LinkIs ==
    ASSUME BackupInv, RestoreInv, restorePc \in Running \ {"next"}, NEW n \in Node, dest[n].type = "link"
    PROVE  LinkAt(n)
<1>1. before[n].type = "link" \/ \E i \in Passed : index[i].path = n /\ TypeOf(index[i]) = "link"
  BY DEF RestoreInv, MadeInv, AtWork
<1>2. ASSUME NEW i \in Passed, index[i].path = n, TypeOf(index[i]) = "link"
      PROVE  \E line \in Chosen : line.type = "S" /\ line.path = n
  <2>1. i \in 1..pos /\ pos \in Nat /\ Matches(index[i].path)
    BY <1>2, PassedIs, EntryIs
  <2>2. i \in Nat \ {0} /\ i <= pos /\ restorePc \in Running /\ restorePc # "done"
    BY <2>1 DEF Running
  <2>3. index[i] \in Chosen /\ index[i].type \in {"D", "F", "S"}
    BY <2>1, <2>2, SeenIs
  <2>4. index[i].type = "S"
    BY <1>2, <2>3 DEF TypeOf
  <2>5. QED
    BY <1>2, <2>3, <2>4
<1>3. QED
  BY <1>1, <1>2 DEF LinkAt

(* What spares the entry has settled it.                                   *)
LEMMA SkipKeeps ==
    ASSUME BackupInv, RestoreInv, Quiet, restorePc = "entry", opts.mode = "restore",
           UNCHANGED <<index, damage, opts, pos, entry, before, known>>, Skip,
           ~hasErrors => Settled(index[pos])
    PROVE  RestoreInv'
<1>1. restorePc' = "next" /\ UNCHANGED <<dest, output, hasErrors>>
  BY DEF Skip
<1>2. restorePc \in Running \ {"next"} /\ restorePc # "export" /\ hasErrors \in BOOLEAN
  BY DEF Running, RestoreInv, RestoreTypeOK
<1>3. entry.path \in Node
  BY <1>2, EntryIs
<1>4. EntryFrame
  BY <1>1, <1>2, BesidesItself DEF EntryFrame, Quiet, RestoreInv, RestoreTypeOK, InHand, IsTree
<1>5. EntryFile
  BY <1>1, <1>2, <1>3, SameFile
<1>6. HandInv'
  BY <1>1 DEF HandInv
<1>7. TestInv' /\ StreamInv'
  BY <1>1, RestoreMode
<1>8. ~hasErrors' => Settled(index[pos])'
  <2>1. PICK line : line = index[pos]
    OBVIOUS
  <2>2. (~hasErrors' => Settled(line)') /\ line = index[pos]'
    BY <1>1, <2>1, SettledSame
  <2>3. QED
    BY <2>2
<1>9. QED
  BY <1>1, <1>4, <1>5, <1>6, <1>7, <1>8, EntryStep

(* What is to be restored beyond a link is settled by that.                *)
LEMMA RestoreBeyondKeeps ==
    ASSUME BackupInv, RestoreInv, Quiet, RestoreBeyond
    PROVE  RestoreInv'
<1>1. /\ restorePc = "entry" /\ opts.mode = "restore" /\ Beyond(entry.path)
      /\ UNCHANGED <<index, damage, opts, pos, entry, before, known>>
      /\ \/ Skip
         \/ restorePc' = "next" /\ hasErrors' = TRUE /\ UNCHANGED <<dest, output>>
         \/ restorePc' = "aborted" /\ UNCHANGED <<dest, output, hasErrors>>
  BY DEF RestoreBeyond, Entry, Report
<1>2. /\ restorePc \in Running \ {"next"} /\ restorePc # "export" /\ hasErrors \in BOOLEAN
      /\ dest \in [Node -> DestFiles] /\ IsTree(dest)
  BY <1>1 DEF Running, RestoreInv, RestoreTypeOK
<1>3. entry.path \in Node /\ entry.path = index[pos].path
  BY <1>2, EntryIs
<1>4. CASE Skip
  <2>1. PICK m \in Above[entry.path] : dest[m].type = "link"
    BY <1>1 DEF Beyond
  <2>2. m \in Node
    BY <1>3, <2>1, ParentOf
  <2>3. LinkAt(m)
    BY <1>2, <2>1, <2>2, LinkIs
  <2>4. Settled(index[pos])
    BY <1>3, <2>1, <2>3 DEF Settled, LinkAbove
  <2>5. QED
    BY <1>1, <1>4, <2>4, SkipKeeps
<1>5. CASE \/ restorePc' = "next" /\ hasErrors' = TRUE /\ UNCHANGED <<dest, output>>
           \/ restorePc' = "aborted" /\ UNCHANGED <<dest, output, hasErrors>>
  <2>1. EntryFrame
    BY <1>1, <1>2, <1>5, BesidesItself DEF EntryFrame, Quiet, InHand, IsTree
  <2>2. EntryFile
    BY <1>2, <1>3, <1>5, SameFile
  <2>3. HandInv'
    BY <1>5 DEF HandInv
  <2>4. TestInv' /\ StreamInv'
    BY <1>1, <1>5, RestoreMode
  <2>5. restorePc' # "export" /\ ~(restorePc' = "next" /\ ~hasErrors')
    BY <1>5
  <2>6. QED
    BY <2>1, <2>2, <2>3, <2>4, <2>5, EntryStep
<1>6. QED
  BY <1>1, <1>4, <1>5

LEMMA RestoreDirectoryKeeps ==
    ASSUME BackupInv, RestoreInv, Quiet, RestoreDirectory
    PROVE  RestoreInv'
<1> DEFINE n == entry.path
<1>1. /\ restorePc = "entry" /\ opts.mode = "restore" /\ entry.type = "D"
      /\ UNCHANGED <<index, damage, opts, pos, entry, before, known>>
  BY DEF RestoreDirectory, RestoreHere, Entry
<1>2. /\ restorePc \in Running \ {"next"} /\ hasErrors \in BOOLEAN
      /\ dest \in [Node -> DestFiles] /\ IsTree(dest)
  BY <1>1 DEF Running, RestoreInv, RestoreTypeOK
<1>3. n \in Node /\ n = index[pos].path /\ entry.type = index[pos].type /\ n # Root
  BY <1>2, EntryIs, ParentOf
<1>4. CASE opts.skipExisting /\ IsDir(n)
  <2>1. Skip
    BY <1>4 DEF RestoreDirectory
  <2>2. Settled(index[pos])
    BY <1>1, <1>3, <1>4 DEF Settled, Spared, IsDir, TypeOf
  <2>3. QED
    BY <1>1, <2>1, <2>2, SkipKeeps
<1>5. CASE ~(opts.skipExisting /\ IsDir(n))
  <2>1. dest' = Mkdirs(n) /\ restorePc' = "dirMeta" /\ UNCHANGED <<output, hasErrors>>
    BY <1>5 DEF RestoreDirectory
  <2>2. /\ dest' \in [Node -> DestFiles] /\ IsTree(dest') /\ Besides(dest, dest', n)
        /\ dest'[n] = dest[n] \/ (dest[n].type = "none" /\ dest'[n] = DestFile("dir", ""))
    BY <1>2, <1>3, <2>1, MkdirsIs
  <2>3. EntryFrame
    BY <1>1, <1>2, <2>1, <2>2 DEF EntryFrame, Quiet, InHand
  <2>4. EntryFile
    <3>1. CASE dest'[n] = dest[n]
      <4>1. /\ dest[n].data = "overwritten" => dest[n].type = "link"
            /\ dest[n].sha1 # "" => dest[n].type = "file"
        BY <1>3 DEF RestoreInv, AttributeInv
      <4>2. dest[n].sha1 # "" /\ dest[n].time => dest[n].data = dest[n].sha1 \/ Wrong(dest[n].data)
        BY <1>3 DEF RestoreInv, AttributeInv, AttributeTrue, Wrong
      <4>3. QED
        BY <1>1, <3>1, <4>1, <4>2 DEF EntryFile
    <3>2. CASE dest[n].type = "none" /\ dest'[n] = DestFile("dir", "")
      <4>1. dest'[n].type = "dir" /\ dest'[n].data = "" /\ dest'[n].sha1 = ""
        BY <3>2, NewFileHas
      <4>2. Excused(n)
        BY <1>3, <3>2 DEF RestoreInv, StayInv, Excused
      <4>3. QED
        BY <4>1, <4>2 DEF EntryFile
    <3>3. QED
      BY <2>2, <3>1, <3>2
  <2>5. HandInv'
    BY <2>1 DEF HandInv
  <2>6. TestInv' /\ StreamInv'
    BY <1>1, <2>1, RestoreMode
  <2>7. QED
    BY <2>1, <2>3, <2>4, <2>5, <2>6, EntryStep
<1>6. QED
  BY <1>4, <1>5

(* The last of the lines for a path that have been handled.                *)
LEMMA LastIs ==
    ASSUME BackupInv, RestoreInv, NEW i \in Passed
    PROVE  \E j \in Passed : index[j].path = index[i].path /\ ~Outdated(j)
<1> DEFINE Same == {j \in Passed : index[j].path = index[i].path}
           T == {pos - j : j \in Same}
<1>1. pos \in Nat /\ Passed \subseteq 1..pos
  <2>1. pos \in Nat
    BY DEF RestoreInv, RestoreTypeOK
  <2>2. QED
    BY <2>1 DEF Passed, Seen
<1>2. \A j \in Same : pos - j \in Nat
  BY <1>1
<1>3. T \subseteq Nat /\ T # {}
  BY <1>2
<1>4. PICK t \in T : \A u \in T : t <= u
  <2> HIDE DEF T
  <2>1. QED
    BY <1>3, Smallest
<1>5. PICK j \in Same : t = pos - j
  OBVIOUS
<1>6. ASSUME NEW k \in Passed, k > j, index[k].path = index[j].path
      PROVE  FALSE
  <2>1. pos - k \in T
    BY <1>5, <1>6
  <2>2. pos - j <= pos - k
    BY <1>4, <1>5, <2>1
  <2>3. k \in Nat /\ j \in Nat
    BY <1>1, <1>5, <1>6
  <2>4. QED
    BY <1>1, <1>6, <2>2, <2>3
<1>7. QED
  BY <1>5, <1>6 DEF Outdated

(* Lines of files and links that the options spare.                        *)
LEMMA SparedIs ==
    ASSUME BackupInv, RestoreInv, restorePc = "entry", opts.mode = "restore",
           opts.skipExisting, ~hasErrors,
           entry.type \in {"F", "S"}, dest[entry.path].type = TypeOf(entry)
    PROVE  Settled(index[pos])
<1> DEFINE n == entry.path
<1>1. restorePc \in Running \ {"next"} /\ restorePc \in AtWork /\ restorePc \notin InHand
  BY DEF Running, AtWork, InHand
<1>2. /\ n \in Node /\ n = index[pos].path /\ entry.type = index[pos].type
      /\ index[pos] \in Lines
  BY <1>1, EntryIs
<1>3. TypeOf(entry) \in {"file", "link"} /\ TypeOf(entry) = TypeOf(index[pos])
  BY <1>2 DEF TypeOf
<1>4. CASE before[n].type = TypeOf(entry)
  BY <1>2, <1>3, <1>4 DEF Settled, Spared
<1>5. CASE \E i \in Passed : index[i].path = n /\ TypeOf(index[i]) = TypeOf(entry)
  <2>1. PICK i \in Passed : index[i].path = n /\ TypeOf(index[i]) = TypeOf(entry)
    BY <1>5
  <2>2. \A j \in Passed : /\ index[j] \in Chosen /\ index[j] \in Lines
                          /\ index[j].type \in {"D", "F", "S"}
    <3> TAKE j \in Passed
    <3>1. j \in 1..pos /\ pos \in Nat /\ Matches(index[j].path)
      BY <1>1, PassedIs, EntryIs
    <3>2. j \in Nat \ {0} /\ j <= pos /\ restorePc \in Running /\ restorePc # "done"
      BY <1>1, <3>1 DEF Running
    <3>3. QED
      BY <3>1, <3>2, SeenIs
  <2>3. index[i].type = entry.type
    BY <1>3, <2>1, <2>2 DEF TypeOf
  <2>4. CASE index[i] # index[pos]
    <3>1. index[i] \in Chosen \ {index[pos]} /\ index[i].type = index[pos].type /\ index[i].path = index[pos].path
      BY <1>2, <2>1, <2>2, <2>3, <2>4
    <3>2. QED
      BY <1>2, <1>3, <3>1 DEF Settled, Spared
  <2>5. CASE index[i] = index[pos]
    <3>1. PICK j \in Passed : index[j].path = n /\ ~Outdated(j)
      BY <2>1, LastIs
    <3>2. Settled(index[j])
      BY <1>1, <3>1 DEF RestoreInv, RightInv
    <3>3. CASE index[j] = index[pos]
      BY <3>2, <3>3
    <3>4. CASE index[j] # index[pos] /\ index[j].type = entry.type
      <4>1. index[j] \in Chosen \ {index[pos]} /\ index[j].type = index[pos].type
            /\ index[j].path = index[pos].path
        BY <1>2, <2>2, <3>1, <3>4
      <4>2. QED
        BY <1>2, <1>3, <4>1 DEF Settled, Spared
    <3>5. CASE index[j].type # entry.type
      <4>1. dest[n].type # TypeOf(index[j])
        BY <2>2, <3>5 DEF TypeOf
      <4>2. CASE LinkAbove(index[j])
        BY <1>2, <3>1, <4>2 DEF Settled, LinkAbove
      <4>3. CASE WrittenThrough(index[j])
        BY <1>2, <1>3, <3>1, <4>3 DEF Settled, Spared, WrittenThrough
      <4>4. QED
        BY <3>1, <3>2, <4>1, <4>2, <4>3 DEF Settled, Restored, Spared
    <3>6. QED
      BY <3>3, <3>4, <3>5
  <2>6. QED
    BY <2>4, <2>5
<1>6. QED
  BY <1>1, <1>2, <1>3, <1>4, <1>5 DEF RestoreInv, MadeInv

(* The metadata.                                                           *)
LEMMA ChangedIs ==
    ASSUME dest \in [Node -> DestFiles], IsTree(dest), NEW n \in Node, NEW did,
           entry.type = "F" => entry.data \in Contents
    PROVE  /\ Changed(n, did) \in [Node -> DestFiles] /\ IsTree(Changed(n, did))
           /\ Besides(dest, Changed(n, did), n)
           /\ dest[n].type \in {"none", "link"} => Changed(n, did) = dest
           /\ Changed(n, did)[n].type = dest[n].type /\ Changed(n, did)[n].data = dest[n].data
           /\ dest[n].type \in {"dir", "file"} =>
                  /\ "chmod" \in did => Changed(n, did)[n].mode
                  /\ "utime" \in did => Changed(n, did)[n].time = (TypeOf(entry) = dest[n].type)
                  /\ "utime" \notin did => Changed(n, did)[n].time = dest[n].time
                  /\ Changed(n, did)[n].sha1 = IF entry.type = "F" THEN entry.data ELSE dest[n].sha1
                  /\ entry.type # "F" => Changed(n, did)[n].sha1 = dest[n].sha1
<1> DEFINE changed == Changed(n, did)
           file == dest[n]
           new == [file EXCEPT !.mode = @ \/ "chmod" \in did,
                               !.time = IF "utime" \in did THEN TypeOf(entry) = file.type ELSE @,
                               !.sha1 = IF entry.type = "F" THEN entry.data ELSE @]
<1>1. CASE dest[n].type \in {"none", "link"}
  <2>1. changed = dest
    BY <1>1 DEF Changed
  <2>2. dest[n].type \notin {"dir", "file"}
    BY <1>1
  <2>3. QED
    BY <2>1, <2>2, BesidesItself
<1>2. CASE dest[n].type \notin {"none", "link"}
  <2>1. file \in DestFiles /\ dest[n].type \in {"dir", "file"}
    BY <1>2, DestIs
  <2>2. changed = [dest EXCEPT ![n] = new]
    BY <1>2, <2>1 DEF Changed, DestFiles
  <2>3. new \in DestFiles /\ new.type = file.type /\ new.data = file.data
        /\ new.sha1 = IF entry.type = "F" THEN entry.data ELSE file.sha1
    BY <2>1 DEF DestFiles
  <2>4. /\ "chmod" \in did => new.mode
        /\ "utime" \in did => new.time = (TypeOf(entry) = file.type)
        /\ "utime" \notin did => new.time = file.time
    BY <2>1 DEF DestFiles
  <2> HIDE DEF new
  <2>5. changed[n] = new /\ changed \in [Node -> DestFiles] /\ \A m \in Node \ {n} : changed[m] = dest[m]
    BY <2>2, <2>3
  <2>6. IsTree(changed)
    <3>1. \A m \in Node : changed[m].type = dest[m].type
      BY <2>3, <2>5
    <3> HIDE DEF changed
    <3>2. QED
      BY <3>1, ParentOf DEF IsTree
  <2>7. Besides(dest, changed, n)
    BY <2>5 DEF Besides
  <2>8. QED
    BY <1>2, <2>3, <2>4, <2>5, <2>6, <2>7
<1>3. QED
  BY <1>1, <1>2

LEMMA MetaDataKeeps ==
    ASSUME BackupInv, RestoreInv, Quiet, NEW faults,
           DirectoryMetaData(faults) \/ FileMetaData(faults) \/ SymlinkMetaData(faults)
    PROVE  RestoreInv'
<1> DEFINE n == entry.path
<1>1. PICK pc \in {"dirMeta", "fileMeta", "linkMeta"}, calls \in {Calls, {"chown"}} :
          MetaData(pc, calls, faults) /\ (pc # "linkMeta" => calls = Calls)
  BY DEF DirectoryMetaData, FileMetaData, SymlinkMetaData
<1> DEFINE failing == IF dest[n].type = "none" THEN calls ELSE calls \cap faults
           did == calls \ failing
<1>2. /\ restorePc = pc /\ UNCHANGED <<index, damage, opts, pos, entry, output, before, known>>
      /\ dest' = Changed(n, did) /\ restorePc' = "next"
      /\ hasErrors' = (hasErrors \/ ~(failing \subseteq opts.ignore) \/ (entry.type = "D" /\ ~IsDir(n)))
  BY <1>1 DEF MetaData, Step
<1>3. /\ restorePc \in Running \ {"next"} /\ restorePc \in InHand /\ restorePc # "entry"
      /\ restorePc # "export"
  BY <1>2 DEF Running, InHand
<1>4. hasErrors \in BOOLEAN /\ dest \in [Node -> DestFiles] /\ IsTree(dest) /\ opts.mode = "restore"
  BY <1>3 DEF RestoreInv, RestoreTypeOK, PlaceInv
<1>5. /\ n \in Node /\ n = index[pos].path /\ entry.type = index[pos].type
      /\ entry = ParseEntry(index[pos])
      /\ entry.type \in {"D", "F", "S"} /\ (entry.type = "D" => entry.data = "")
      /\ entry.type = "F" => entry.data \in Contents
      /\ pos \in DOMAIN index
  BY <1>3, EntryIs
<1>6. /\ hasErrors' \in BOOLEAN /\ (hasErrors => hasErrors')
      /\ ~hasErrors' => ~hasErrors /\ failing \subseteq opts.ignore /\ (entry.type = "D" => IsDir(n))
  BY <1>2, <1>4
<1> HIDE DEF failing, did
<1>7. /\ dest' \in [Node -> DestFiles] /\ IsTree(dest') /\ Besides(dest, dest', n)
      /\ dest[n].type \in {"none", "link"} => dest' = dest
      /\ dest'[n].type = dest[n].type /\ dest'[n].data = dest[n].data
      /\ dest[n].type \in {"dir", "file"} =>
             /\ "chmod" \in did => dest'[n].mode
             /\ "utime" \in did => dest'[n].time = (TypeOf(entry) = dest[n].type)
             /\ "utime" \notin did => dest'[n].time = dest[n].time
             /\ dest'[n].sha1 = IF entry.type = "F" THEN entry.data ELSE dest[n].sha1
             /\ entry.type # "F" => dest'[n].sha1 = dest[n].sha1
  <2>1. \A m \in Node :
            /\ Changed(m, did) \in [Node -> DestFiles] /\ IsTree(Changed(m, did))
            /\ Besides(dest, Changed(m, did), m)
            /\ dest[m].type \in {"none", "link"} => Changed(m, did) = dest
            /\ Changed(m, did)[m].type = dest[m].type /\ Changed(m, did)[m].data = dest[m].data
            /\ dest[m].type \in {"dir", "file"} =>
                   /\ "chmod" \in did => Changed(m, did)[m].mode
                   /\ "utime" \in did => Changed(m, did)[m].time = (TypeOf(entry) = dest[m].type)
                   /\ "utime" \notin did => Changed(m, did)[m].time = dest[m].time
                   /\ Changed(m, did)[m].sha1 = IF entry.type = "F" THEN entry.data ELSE dest[m].sha1
                   /\ entry.type # "F" => Changed(m, did)[m].sha1 = dest[m].sha1
    BY <1>4, <1>5, ChangedIs
  <2>2. QED
    BY <1>2, <1>5, <2>1
<1>8. EntryFrame
  BY <1>2, <1>3, <1>6, <1>7 DEF EntryFrame, Quiet, InHand
<1>9. entry.type = "F" /\ dest[n].type # "link" =>
          dest[n].type = "file" /\ (dest[n].data = entry.data \/ Wrong(dest[n].data))
  <2>1. entry.type = "F" => restorePc = "fileMeta"
    BY <1>1, <1>2 DEF RestoreInv, PlaceInv
  <2>2. QED
    BY <2>1 DEF RestoreInv, HandInv
<1>10. EntryFile
  <2>1. /\ dest[n].data = "overwritten" => dest[n].type = "link"
        /\ dest[n].sha1 # "" => dest[n].type = "file"
    BY <1>5 DEF RestoreInv, AttributeInv
  <2>2. dest[n].sha1 # "" /\ dest[n].time => dest[n].data = dest[n].sha1 \/ Wrong(dest[n].data)
    BY <1>5 DEF RestoreInv, AttributeInv, AttributeTrue, Wrong
  <2>3. dest[n].type \in {"none", "dir", "file", "link"}
    BY <1>4, <1>5, DestIs
  <2>4. ASSUME dest'[n].sha1 # ""
        PROVE  /\ dest'[n].type = "file"
               /\ dest'[n].sha1 = dest[n].sha1 \/ (entry.type = "F" /\ dest'[n].sha1 = entry.data)
               /\ dest'[n].time => dest'[n].data = dest'[n].sha1 \/ Wrong(dest'[n].data)
    <3>1. dest[n].type \in {"dir", "file"}
      BY <1>7, <2>1, <2>3, <2>4
    <3>2. CASE entry.type = "F"
      BY <1>7, <1>9, <2>4, <3>1, <3>2
    <3>3. CASE entry.type # "F"
      <4>1. dest'[n].sha1 = dest[n].sha1 /\ dest[n].type = "file"
        BY <1>7, <2>1, <2>4, <3>1, <3>3
      <4>2. TypeOf(entry) # "file"
        BY <3>3 DEF TypeOf
      <4>3. dest'[n].time => dest[n].time
        BY <1>7, <4>1, <4>2
      <4>4. QED
        BY <1>7, <2>2, <2>4, <4>1, <4>3
    <3>4. QED
      BY <3>2, <3>3
  <2>5. QED
    BY <1>3, <1>7, <2>1, <2>4 DEF EntryFile
<1>11. HandInv'
  BY <1>2 DEF HandInv
<1>12. TestInv' /\ StreamInv'
  BY <1>2, <1>4, RestoreMode
<1>13. ASSUME ~hasErrors'
       PROVE  Settled(index[pos])'
  <2>1. PICK line : line = index[pos]
    OBVIOUS
  <2>2. /\ line.path = n /\ line.type = entry.type /\ ParseEntry(line).data = entry.data
        /\ line = index[pos]'
    BY <1>2, <1>5, <2>1
  <2>3. /\ "chmod" \in calls => "chmod" \in did \/ "chmod" \in opts.ignore
        /\ "utime" \in calls => "utime" \in did \/ "utime" \in opts.ignore
    BY <1>6, <1>13 DEF did
  <2>4. damage' = damage /\ opts' = opts /\ before' = before
    BY <1>2
  <2>5. CASE entry.type = "S"
    <3>1. restorePc = "linkMeta"
      BY <1>1, <1>2, <2>5 DEF RestoreInv, PlaceInv
    <3>2. dest[n].type = "link" /\ dest[n].data = entry.data
      BY <3>1 DEF RestoreInv, HandInv
    <3>3. Restored(line)'
      BY <1>7, <2>2, <2>5, <3>2 DEF Restored, TypeOf
    <3>4. QED
      BY <2>2, <3>3 DEF Settled
  <2>6. CASE entry.type = "D"
    <3>1. dest[n].type = "dir" /\ calls = Calls
      <4>1. pc # "linkMeta"
        BY <1>2, <2>6 DEF RestoreInv, PlaceInv
      <4>2. IsDir(n) /\ n # Root
        BY <1>5, <1>6, <1>13, <2>6, ParentOf
      <4>3. QED
        BY <1>1, <4>1, <4>2 DEF IsDir
    <3>2. dest[n].data = ""
      BY <1>4, <1>5, <3>1, DestIs
    <3>3. ("chmod" \in opts.ignore \/ dest'[n].mode) /\ ("utime" \in opts.ignore \/ dest'[n].time)
      BY <1>7, <2>3, <2>6, <3>1 DEF Calls, TypeOf
    <3>4. dest'[n].type = "dir" /\ dest'[n].data = "" /\ ParseEntry(line).data = ""
      BY <1>5, <1>7, <2>2, <2>6, <3>1, <3>2
    <3>5. Restored(line)'
      BY <2>2, <2>4, <2>6, <3>3, <3>4 DEF Restored, TypeOf
    <3>6. QED
      BY <2>2, <3>5 DEF Settled
  <2>7. CASE entry.type = "F"
    <3>1. CASE dest[n].type = "link"
      <4>1. restorePc = "fileMeta"
        BY <1>1, <1>2, <2>7 DEF RestoreInv, PlaceInv
      <4>2. dest[n].data = "overwritten"
        BY <3>1, <4>1 DEF RestoreInv, HandInv
      <4>3. LinkAt(n)
        BY <1>3, <1>5, <3>1, LinkIs DEF Running
      <4>4. LinkAt(n)'
        <5>1. PICK m : m = n
          OBVIOUS
        <5>2. LinkAt(m)'
          BY <1>2, <4>3, <5>1, SameRun
        <5>3. QED
          BY <1>2, <5>1, <5>2
      <4>5. WrittenThrough(line)'
        BY <1>2, <1>7, <2>2, <2>7, <4>2, <4>4 DEF WrittenThrough
      <4>6. QED
        BY <2>2, <4>5 DEF Settled
    <3>2. CASE dest[n].type # "link"
      <4>1. dest[n].type = "file" /\ (dest[n].data = entry.data \/ Wrong(dest[n].data))
        BY <1>9, <2>7, <3>2
      <4>2. calls = Calls
        <5>1. pc # "linkMeta"
          BY <1>2, <2>7 DEF RestoreInv, PlaceInv
        <5>2. QED
          BY <1>1, <5>1
      <4>3. ("chmod" \in opts.ignore \/ dest'[n].mode) /\ ("utime" \in opts.ignore \/ dest'[n].time)
        BY <1>7, <2>3, <2>7, <4>1, <4>2 DEF Calls, TypeOf
      <4>4. Restored(line)'
        BY <1>7, <2>2, <2>4, <2>7, <4>1, <4>3 DEF Restored, TypeOf, Wrong
      <4>5. QED
        BY <2>2, <4>4 DEF Settled
    <3>3. QED
      BY <3>1, <3>2
  <2>8. QED
    BY <1>5, <2>5, <2>6, <2>7, <2>2
<1>14. QED
  BY <1>2, <1>8, <1>10, <1>11, <1>12, <1>13, EntryStep

LEMMA EntryExcuses ==
    ASSUME BackupInv, RestoreInv, restorePc \in Running \ {"next"},
           \/ entry.type = "S" \/ ~opts.skipExisting
           \/ entry.type = "F" /\ before[entry.path].type = "link"
    PROVE  Excused(entry.path)
<1>1. index[pos] \in Chosen /\ entry.path = index[pos].path /\ entry.type = index[pos].type
  BY EntryIs
<1>2. QED
  BY <1>1 DEF Excused

LEMMA RestoreFileKeeps ==
    ASSUME BackupInv, RestoreInv, Quiet, RestoreFile
    PROVE  RestoreInv'
<1> DEFINE n == entry.path
           files == IF dest[n].type = "file" THEN Removed(n) ELSE MakeParent(n)
           opened == Opened(files, n)
           new == dest'[n]
<1>1. /\ restorePc = "entry" /\ opts.mode = "restore" /\ entry.type = "F"
      /\ UNCHANGED <<index, damage, opts, pos, entry, before, known>>
  BY DEF RestoreFile, RestoreHere, Entry
<1>2. /\ restorePc \in Running \ {"next"} /\ hasErrors \in BOOLEAN
      /\ dest \in [Node -> DestFiles] /\ IsTree(dest)
  BY <1>1 DEF Running, RestoreInv, RestoreTypeOK
<1>3. n \in Node /\ n = index[pos].path /\ entry.type = index[pos].type
  BY <1>2, EntryIs
<1>4. CASE dest[n].type = "file" /\ opts.skipExisting
  <2>1. Skip
    BY <1>4 DEF RestoreFile
  <2>2. ~hasErrors => Settled(index[pos])
    BY <1>1, <1>4, SparedIs DEF TypeOf
  <2>3. QED
    BY <1>1, <2>1, <2>2, SkipKeeps
<1>5. CASE ~(dest[n].type = "file" /\ opts.skipExisting)
  <2>1. /\ dest' = opened /\ UNCHANGED output
        /\ IF dest'[n].data \in {"overwritten", "partial"}
           THEN restorePc' = "export" /\ UNCHANGED hasErrors ELSE restorePc' = "next" /\ hasErrors' = TRUE
    BY <1>5 DEF RestoreFile, Report
  <2>2. /\ files \in [Node -> DestFiles] /\ IsTree(files) /\ Besides(dest, files, n)
        /\ files[n] = dest[n] \/ (dest[n].type = "file" /\ files[n] = Absent)
    <3>1. CASE dest[n].type = "file"
      <4>1. files = Removed(n)
        BY <3>1
      <4>2. /\ Removed(n) \in [Node -> DestFiles] /\ IsTree(Removed(n)) /\ Besides(dest, Removed(n), n)
            /\ Removed(n)[n] = Absent \/ Removed(n) = dest
        BY <1>2, <1>3, RemovedIs
      <4> HIDE DEF files
      <4>3. QED
        BY <3>1, <4>1, <4>2
    <3>2. CASE dest[n].type # "file"
      <4>1. files = MakeParent(n)
        BY <3>2
      <4>2. /\ MakeParent(n) \in [Node -> DestFiles] /\ IsTree(MakeParent(n))
            /\ Besides(dest, MakeParent(n), n) /\ MakeParent(n)[n] = dest[n]
        BY <1>2, <1>3, MakeParentIs
      <4> HIDE DEF files
      <4>3. QED
        BY <4>1, <4>2
    <3>3. QED
      BY <3>1, <3>2
  <2> HIDE DEF files
  <2>3. /\ opened \in [Node -> DestFiles] /\ IsTree(opened) /\ Besides(files, opened, n)
        /\ \/ /\ files[n].type = "link" /\ opened[n].type = "link"
              /\ opened[n].data = "overwritten" /\ opened[n].sha1 = files[n].sha1
           \/ /\ files[n].type = "file" /\ opened[n].type = "file"
              /\ opened[n].data = "partial" /\ ~opened[n].time /\ opened[n].sha1 = files[n].sha1
           \/ files[n].type = "none" /\ opened[n] = DestFile("file", "partial")
           \/ files[n].type # "link" /\ opened = files
    BY <1>3, <2>2, OpenedIs
  <2>4. Besides(dest, opened, n)
    BY <2>2, <2>3, BesidesBoth
  <2> HIDE DEF opened
  <2>5. Absent.type = "none" /\ Absent.data = "" /\ Absent.sha1 = ""
    BY AbsentHas
  <2>6. dest[n].type = "file" => Excused(n)
    BY <1>2, <1>5, EntryExcuses
  <2>7. dest[n].type \in {"none", "link"} => Excused(n)
    <3>1. Excused(n) \/ before[n].type = dest[n].type
      BY <1>3 DEF RestoreInv, StayInv
    <3>2. before[n].type = "none" => Excused(n)
      BY DEF Excused
    <3>3. before[n].type = "link" => Excused(n)
      BY <1>1, <1>2, EntryExcuses
    <3>4. QED
      BY <3>1, <3>2, <3>3
  <2>8. /\ dest[n].sha1 # "" => dest[n].type = "file"
        /\ dest[n].data = "overwritten" => dest[n].type = "link"
    BY <1>3 DEF RestoreInv, AttributeInv
  <2>9. dest[n].sha1 # "" /\ dest[n].time => dest[n].data = dest[n].sha1 \/ Wrong(dest[n].data)
    BY <1>3 DEF RestoreInv, AttributeInv, AttributeTrue, Wrong
  <2>10. dest[n].data = "partial" /\ dest[n].time => dest[n].sha1 = ""
    <3>1. dest[n].sha1 \in Contents \cup {""}
      BY <1>2, <1>3, DestIs
    <3>2. "partial" \notin Contents
      BY RestoreAssumption
    <3>3. dest[n].data = "partial" => dest[n].data # dest[n].sha1 /\ ~Wrong(dest[n].data)
      BY <3>1, <3>2 DEF Wrong
    <3>4. QED
      BY <2>9, <3>3
  <2>11. \/ /\ opened[n].type = "link" /\ dest[n].type = "link" /\ opened[n].data = "overwritten" /\ opened[n].sha1 = ""
         \/ /\ opened[n].type = "file" /\ opened[n].data = "partial" /\ (dest[n].type \in {"file", "none"})
            /\ opened[n].sha1 = "" \/ opened[n].sha1 = dest[n].sha1
            /\ opened[n].time => opened[n].sha1 = ""
         \/ opened[n].data \notin {"overwritten", "partial"} /\ (opened[n] = dest[n] \/ (dest[n].type = "file" /\ opened[n] = Absent))
    <3>1. CASE /\ files[n].type = "link" /\ opened[n].type = "link"
               /\ opened[n].data = "overwritten" /\ opened[n].sha1 = files[n].sha1
      BY <2>2, <2>5, <2>8, <3>1
    <3>2. CASE /\ files[n].type = "file" /\ opened[n].type = "file" /\ opened[n].data = "partial"
               /\ ~opened[n].time /\ opened[n].sha1 = files[n].sha1
      BY <2>2, <2>5, <3>2
    <3>3. CASE files[n].type = "none" /\ opened[n] = DestFile("file", "partial")
      <4>1. DestFile("file", "partial").type = "file" /\ DestFile("file", "partial").data = "partial"
            /\ DestFile("file", "partial").sha1 = ""
        BY DEF DestFile
      <4>2. dest[n].type \in {"file", "none"}
        BY <2>2, <3>3
      <4>3. QED
        BY <3>3, <4>1, <4>2
    <3>4. CASE files[n].type # "link" /\ opened = files
      <4>1. opened[n] = files[n]
        BY <3>4
      <4>2. CASE opened[n].data \notin {"overwritten", "partial"}
        BY <2>2, <4>1, <4>2
      <4>3. CASE opened[n].data \in {"overwritten", "partial"}
        <5>1. opened[n] = dest[n]
          BY <2>2, <2>5, <4>1, <4>3
        <5>2. dest[n].type \in {"none", "dir", "file", "link"} /\ (dest[n].type \in {"none", "dir"} => dest[n].data = "")
          BY <1>2, <1>3, DestIs
        <5>3. dest[n].type = "file" /\ dest[n].data = "partial"
          BY <2>8, <3>4, <4>1, <4>3, <5>1, <5>2
        <5>4. opened[n].time => opened[n].sha1 = ""
          BY <2>10, <5>1, <5>3
        <5>5. QED
          BY <5>1, <5>3, <5>4
      <4>4. QED
        BY <4>2, <4>3
    <3>5. QED
      BY <2>3, <3>1, <3>2, <3>3, <3>4
  <2>12. new = opened[n]
    BY <2>1
  <2>13. EntryFrame
    BY <1>1, <1>2, <2>1, <2>3, <2>4 DEF EntryFrame, Quiet, InHand
  <2>14. EntryFile /\ HandInv' /\ (restorePc' = "export" => Excused(n))
    <3>1. CASE /\ opened[n].type = "link" /\ dest[n].type = "link" /\ opened[n].data = "overwritten" /\ opened[n].sha1 = ""
      <4>1. restorePc' = "export" /\ Excused(n)
        BY <2>1, <2>7, <2>12, <3>1
      <4>2. EntryFile
        BY <2>12, <3>1, <4>1 DEF EntryFile
      <4>3. HandInv'
        BY <1>1, <2>12, <3>1, <4>1 DEF HandInv
      <4>4. QED
        BY <4>1, <4>2, <4>3
    <3>2. CASE /\ opened[n].type = "file" /\ opened[n].data = "partial" /\ (dest[n].type \in {"file", "none"})
               /\ opened[n].sha1 = "" \/ opened[n].sha1 = dest[n].sha1
               /\ opened[n].time => opened[n].sha1 = ""
      <4>1. restorePc' = "export" /\ Excused(n)
        BY <2>1, <2>6, <2>7, <2>12, <3>2
      <4>2. EntryFile
        <5>1. TypeOf(entry) = "file"
          BY <1>1 DEF TypeOf
        <5>2. QED
          BY <2>12, <3>2, <4>1, <5>1 DEF EntryFile
      <4>3. HandInv'
        BY <1>1, <2>12, <3>2, <4>1 DEF HandInv
      <4>4. QED
        BY <4>1, <4>2, <4>3
    <3>3. CASE opened[n].data \notin {"overwritten", "partial"} /\ (opened[n] = dest[n] \/ (dest[n].type = "file" /\ opened[n] = Absent))
      <4>1. restorePc' = "next" /\ hasErrors' = TRUE
        BY <2>1, <2>12, <3>3
      <4>2. HandInv' /\ restorePc' # "export"
        BY <4>1 DEF HandInv
      <4>3. CASE opened[n] = dest[n]
        <5>1. dest'[n] = dest[n] /\ hasErrors' = TRUE
          BY <2>12, <4>1, <4>3
        <5>2. QED
          BY <2>8, <2>9, <4>2, <5>1 DEF EntryFile
      <4>4. CASE dest[n].type = "file" /\ opened[n] = Absent
        <5>1. dest'[n].type = "none" /\ dest'[n].data = "" /\ dest'[n].sha1 = "" /\ Excused(n)
          BY <2>5, <2>6, <2>12, <4>4
        <5>2. QED
          BY <4>2, <5>1 DEF EntryFile
      <4>5. QED
        BY <3>3, <4>3, <4>4
    <3>4. QED
      BY <2>11, <3>1, <3>2, <3>3
  <2>15. TestInv' /\ StreamInv'
    BY <1>1, <2>1, RestoreMode
  <2>16. restorePc' = "next" => hasErrors'
    BY <2>1
  <2>17. QED
    BY <2>13, <2>14, <2>15, <2>16, EntryStep
<1>6. QED
  BY <1>4, <1>5

LEMMA ExportFileKeeps ==
    ASSUME BackupInv, RestoreInv, Quiet, NEW fault, ExportFile(fault)
    PROVE  RestoreInv'
<1> DEFINE n == entry.path
<1>1. restorePc = "export" /\ UNCHANGED <<index, damage, opts, pos, entry, output, before, known>>
  BY DEF ExportFile, Step
<1>2. /\ restorePc \in Running \ {"next"} /\ hasErrors \in BOOLEAN
      /\ dest \in [Node -> DestFiles] /\ IsTree(dest)
      /\ opts.mode = "restore" /\ entry.type = "F" /\ Excused(n)
  BY <1>1 DEF Running, InHand, RestoreInv, RestoreTypeOK, PlaceInv, StayInv
<1>3. /\ n \in Node /\ entry.data \in Contents
      /\ entry.data \in DestData \ {"partial", "overwritten", "wrong"}
  BY <1>2, EntryIs
<1>4. TestInv' /\ StreamInv'
  BY <1>1, <1>2, RestoreMode
<1>5. \/ dest[n].type = "link" /\ dest[n].data = "overwritten"
      \/ dest[n].type = "file" /\ (dest[n].time => dest[n].sha1 = "")
  BY <1>1 DEF RestoreInv, HandInv
<1>6. CASE restorePc' = "next" /\ hasErrors' = TRUE /\ UNCHANGED dest
  <2>1. EntryFrame
    BY <1>1, <1>2, <1>6, BesidesItself DEF EntryFrame, Quiet, InHand, IsTree
  <2>2. EntryFile
    BY <1>3, <1>6, SameFile
  <2>3. HandInv'
    BY <1>6 DEF HandInv
  <2>4. QED
    BY <1>4, <1>6, <2>1, <2>2, <2>3, EntryStep
<1>7. CASE /\ ~Throws(entry.data) /\ restorePc' = "fileMeta" /\ UNCHANGED hasErrors
           /\ dest' = IF dest[n].type = "link" THEN dest
                      ELSE [dest EXCEPT ![n].data = IF Damaged(entry.data) THEN "wrong" ELSE entry.data]
  <2> DEFINE data == IF Damaged(entry.data) THEN "wrong" ELSE entry.data
  <2>1. data = entry.data \/ Wrong(data)
    BY <1>7 DEF Throws, Wrong
  <2>2. data \in DestData /\ data \notin {"partial", "overwritten"}
    BY <1>3 DEF DestData
  <2> HIDE DEF data
  <2>3. CASE dest[n].type = "link"
    <3>1. dest' = dest
      BY <1>7, <2>3
    <3>2. EntryFrame
      BY <1>1, <1>2, <1>7, <3>1, BesidesItself DEF EntryFrame, Quiet, InHand, IsTree
    <3>3. EntryFile
      <4>1. dest[n].data = "overwritten"
        BY <1>5, <2>3
      <4>2. dest[n].sha1 = ""
        BY <1>3, <2>3 DEF RestoreInv, AttributeInv
      <4>3. QED
        BY <2>3, <3>1, <4>1, <4>2 DEF EntryFile
    <3>4. HandInv'
      BY <1>1, <1>5, <1>7, <2>3, <3>1 DEF HandInv
    <3>5. QED
      BY <1>4, <1>7, <3>2, <3>3, <3>4, EntryStep
  <2>4. CASE dest[n].type # "link"
    <3>1. dest[n].type = "file" /\ (dest[n].time => dest[n].sha1 = "") /\ dest[n] \in DestFiles
      BY <1>2, <1>3, <1>5, <2>4
    <3> DEFINE file == [dest[n] EXCEPT !.data = data]
    <3>2. dest' = [dest EXCEPT ![n] = file]
      BY <1>7, <2>4 DEF data
    <3>3. file \in DestFiles /\ file.type = "file" /\ file.data = data /\ file.sha1 = dest[n].sha1
      BY <2>2, <3>1 DEF DestFiles
    <3>4. file.time => file.sha1 = ""
      BY <3>1 DEF DestFiles
    <3> HIDE DEF file
    <3>5. dest'[n] = file /\ dest' \in [Node -> DestFiles] /\ \A m \in Node \ {n} : dest'[m] = dest[m]
      BY <1>2, <1>3, <3>2, <3>3
    <3>6. IsTree(dest')
      <4>1. \A m \in Node : dest'[m].type = dest[m].type
        BY <3>1, <3>3, <3>5
      <4>2. QED
        BY <1>2, <4>1, ParentOf DEF IsTree
    <3>7. EntryFrame
      <4>1. Besides(dest, dest', n)
        BY <3>5 DEF Besides
      <4>2. QED
        BY <1>1, <1>2, <1>7, <3>5, <3>6, <4>1 DEF EntryFrame, Quiet, InHand
    <3>8. EntryFile
      BY <1>2, <2>2, <3>1, <3>3, <3>4, <3>5 DEF EntryFile
    <3>9. HandInv'
      <4>1. data = entry.data \/ (data = "wrong" /\ damage.kind = "wrong")
        BY <2>1 DEF Wrong
      <4>2. dest'[n].type = "file" /\ dest'[n].data = data
        BY <3>3, <3>5
      <4>3. entry' = entry /\ damage' = damage
        BY <1>1
      <4>4. (restorePc # "export")' /\ (restorePc # "linkMeta")'
        BY <1>7
      <4>5. /\ dest'[entry'.path].type = "file"
            /\ \/ dest'[entry'.path].data = entry'.data
               \/ dest'[entry'.path].data = "wrong" /\ damage'.kind = "wrong"
        BY <4>1, <4>2, <4>3
      <4>6. QED
        BY <4>4, <4>5 DEF HandInv, Wrong
    <3>10. QED
      BY <1>4, <1>7, <3>7, <3>8, <3>9, EntryStep
  <2>5. QED
    BY <2>3, <2>4
<1>8. QED
  BY <1>6, <1>7 DEF ExportFile, Report

LEMMA RestoreSymlinkKeeps ==
    ASSUME BackupInv, RestoreInv, Quiet, RestoreSymlink
    PROVE  RestoreInv'
<1> DEFINE n == entry.path
<1>1. /\ restorePc = "entry" /\ opts.mode = "restore" /\ entry.type = "S"
      /\ UNCHANGED <<index, damage, opts, pos, entry, before, known>>
  BY DEF RestoreSymlink, RestoreHere, Entry
<1>2. /\ restorePc \in Running \ {"next"} /\ hasErrors \in BOOLEAN
      /\ dest \in [Node -> DestFiles] /\ IsTree(dest)
  BY <1>1 DEF Running, RestoreInv, RestoreTypeOK
<1>3. n \in Node /\ Excused(n)
  BY <1>1, <1>2, EntryIs, EntryExcuses
<1>4. TypeOf(entry) = "link"
  BY <1>1 DEF TypeOf
<1>5. CASE opts.skipExisting /\ dest[n].type = "link"
  <2>1. Skip
    BY <1>5 DEF RestoreSymlink
  <2>2. ~hasErrors => Settled(index[pos])
    BY <1>1, <1>4, <1>5, SparedIs DEF TypeOf
  <2>3. QED
    BY <1>1, <2>1, <2>2, SkipKeeps
<1>6. CASE ~(opts.skipExisting /\ dest[n].type = "link")
  <2>1. /\ dest' = IF dest[n].type = "none" THEN MakeParent(n) ELSE Removed(n)
        /\ restorePc' = "symlink" /\ UNCHANGED <<output, hasErrors>>
    BY <1>6 DEF RestoreSymlink
  <2>2. /\ dest' \in [Node -> DestFiles] /\ IsTree(dest') /\ Besides(dest, dest', n)
        /\ dest'[n] = dest[n] \/ dest'[n] = Absent
    <3>1. CASE dest[n].type = "none"
      <4>1. dest' = MakeParent(n)
        BY <2>1, <3>1
      <4>2. QED
        BY <1>2, <1>3, <4>1, MakeParentIs
    <3>2. CASE dest[n].type # "none"
      <4>1. dest' = Removed(n)
        BY <2>1, <3>2
      <4>2. QED
        BY <1>2, <1>3, <4>1, RemovedIs
    <3>3. QED
      BY <3>1, <3>2
  <2>3. EntryFrame
    BY <1>1, <1>2, <2>1, <2>2 DEF EntryFrame, Quiet, InHand
  <2>4. EntryFile
    <3>1. CASE dest'[n] = dest[n]
      <4>1. /\ dest[n].data = "overwritten" => dest[n].type = "link"
            /\ dest[n].sha1 # "" => dest[n].type = "file"
        BY <1>3 DEF RestoreInv, AttributeInv
      <4>2. dest[n].sha1 # "" /\ dest[n].time => dest[n].data = dest[n].sha1 \/ Wrong(dest[n].data)
        BY <1>3 DEF RestoreInv, AttributeInv, AttributeTrue, Wrong
      <4>3. QED
        BY <1>1, <1>3, <3>1, <4>1, <4>2 DEF EntryFile
    <3>2. CASE dest'[n] = Absent
      <4>1. dest'[n].type = "none" /\ dest'[n].data = "" /\ dest'[n].sha1 = ""
        BY <3>2, AbsentHas
      <4>2. QED
        BY <1>3, <4>1 DEF EntryFile
    <3>3. QED
      BY <2>2, <3>1, <3>2
  <2>5. HandInv'
    BY <2>1 DEF HandInv
  <2>6. TestInv' /\ StreamInv'
    BY <1>1, <2>1, RestoreMode
  <2>7. QED
    BY <2>1, <2>3, <2>4, <2>5, <2>6, EntryStep
<1>7. QED
  BY <1>5, <1>6

LEMMA MakeSymlinkKeeps ==
    ASSUME BackupInv, RestoreInv, Quiet, NEW fault, MakeSymlink(fault)
    PROVE  RestoreInv'
<1> DEFINE n == entry.path
           fails == fault \/ dest[n].type # "none" \/ ~CanCreateIn(Parent[n])
           link == DestFile("link", entry.data)
<1>1. /\ restorePc = "symlink" /\ UNCHANGED <<index, damage, opts, pos, entry, output, before,
                                              known, hasErrors>>
      /\ dest' = IF fails THEN dest ELSE Put(dest, n, link)
      /\ restorePc' = IF fails THEN "aborted" ELSE "linkMeta"
  BY DEF MakeSymlink, Step
<1>2. /\ restorePc \in Running \ {"next"} /\ hasErrors \in BOOLEAN
      /\ dest \in [Node -> DestFiles] /\ IsTree(dest)
      /\ opts.mode = "restore" /\ entry.type = "S"
  BY <1>1 DEF Running, InHand, RestoreInv, RestoreTypeOK, PlaceInv
<1>3. n \in Node /\ entry.data \in DestData \ {"partial", "overwritten", "wrong"} /\ Excused(n)
  BY <1>2, EntryIs, EntryExcuses
<1>4. TestInv' /\ StreamInv'
  BY <1>1, <1>2, RestoreMode
<1>5. CASE fails
  <2>1. dest' = dest /\ restorePc' = "aborted"
    BY <1>1, <1>5
  <2>2. EntryFrame
    BY <1>1, <1>2, <2>1, BesidesItself DEF EntryFrame, Quiet, InHand, IsTree
  <2>3. EntryFile
    BY <1>1, <1>3, <2>1, SameFile
  <2>4. HandInv'
    BY <2>1 DEF HandInv
  <2>5. QED
    BY <1>4, <2>1, <2>2, <2>3, <2>4, EntryStep
<1>6. CASE ~fails
  <2>1. /\ dest' = Put(dest, n, link) /\ restorePc' = "linkMeta"
        /\ dest[n].type = "none" /\ CanCreateIn(Parent[n])
    BY <1>1, <1>6
  <2>2. Parent[n] = Root \/ dest[Parent[n]].type = "dir"
    BY <2>1 DEF CanCreateIn, IsDir
  <2>3. \A m \in Beneath(n) : dest[m].type = "none"
    <3>1. ASSUME NEW m \in Node, n \in Above[m], dest[m].type # "none" PROVE FALSE
      <4>1. dest[n].type = "dir"
        BY <1>2, <3>1, DirectoriesAbove
      <4>2. QED
        BY <2>1, <4>1
    <3>2. QED
      BY <3>1 DEF Beneath
  <2>4. link \in DestFiles
    BY <1>3, NewFile
  <2>5. link.type = "link" /\ link.data = entry.data /\ link.sha1 = ""
    BY DEF DestFile
  <2> HIDE DEF link, fails
  <2>6. /\ dest' \in [Node -> DestFiles] /\ IsTree(dest') /\ Besides(dest, dest', n) /\ dest'[n] = link
    BY <1>2, <1>3, <2>1, <2>2, <2>3, <2>4, PutIs
  <2>7. EntryFrame
    BY <1>1, <1>2, <2>1, <2>6 DEF EntryFrame, Quiet, InHand
  <2>8. EntryFile
    <3>1. TypeOf(entry) = "link"
      BY <1>2 DEF TypeOf
    <3>2. dest'[n].type = "link" /\ dest'[n].data = entry.data /\ dest'[n].sha1 = ""
      BY <2>5, <2>6
    <3>3. QED
      BY <1>3, <3>1, <3>2 DEF EntryFile
  <2>9. HandInv'
    BY <1>1, <2>1, <2>5, <2>6 DEF HandInv
  <2>10. QED
    BY <1>4, <2>1, <2>7, <2>8, <2>9, EntryStep
<1>7. QED
  BY <1>5, <1>6

-----------------------------------------------------------------------------
(* Runs that read: streams, tests and lists.                               *)

(* Nothing happens to the files.                                           *)
LEMMA ReadingKeeps ==
    ASSUME BackupInv, RestoreInv, Quiet, restorePc = "entry", opts.mode # "restore",
           UNCHANGED <<index, damage, opts, pos, entry, before, known, dest>>,
           hasErrors' \in BOOLEAN, hasErrors => hasErrors', restorePc' \in {"next", "aborted"},
           TestInv', StreamInv'
    PROVE  RestoreInv'
<1>1. restorePc \in Running \ {"next"} /\ dest' \in [Node -> DestFiles] /\ IsTree(dest')
  BY DEF Running, RestoreInv, RestoreTypeOK, IsTree
<1>2. entry.path \in Node
  BY <1>1, EntryIs
<1>3. EntryFrame
  BY <1>1, BesidesItself DEF EntryFrame, Quiet, InHand
<1>4. EntryFile
  BY <1>2, SameFile
<1>5. HandInv'
  BY DEF HandInv
<1>6. QED
  BY <1>3, <1>4, <1>5, EntryStep

LEMMA ReadingFrame ==
    ASSUME BackupInv, RestoreInv, Quiet, restorePc = "entry",
           UNCHANGED <<index, damage, opts, pos, entry, before, known, dest>>,
           hasErrors' \in BOOLEAN, hasErrors => hasErrors', restorePc' \in {"next", "aborted"}
    PROVE  /\ Seen = 1..pos - 1 /\ Seen' = 1..pos /\ Passed' = Passed \cup {pos} /\ pos \in Nat \ {0}
           /\ restorePc \in AtWork /\ entry = ParseEntry(index[pos])
           /\ entry.type = index[pos].type /\ entry.path = index[pos].path /\ entry.path \in Node
           /\ entry.type = "F" => entry.data = index[pos].data /\ entry.data \in Contents
<1>1. restorePc \in Running \ {"next"} /\ dest' \in [Node -> DestFiles] /\ IsTree(dest')
  BY DEF Running, RestoreInv, RestoreTypeOK, IsTree
<1>2. EntryFrame
  BY <1>1, BesidesItself DEF EntryFrame, Quiet, InHand
<1>3. QED
  BY <1>1, <1>2, EntryIs, EntryFrameKeeps DEF Seen, AtWork

(* One more record.                                                        *)
LEMMA Appended ==
    ASSUME NEW S, NEW s \in Seq(S), NEW x \in S
    PROVE  /\ Append(s, x) \in Seq(S) /\ Len(Append(s, x)) = Len(s) + 1 /\ Len(s) \in Nat
           /\ Append(s, x)[Len(s) + 1] = x /\ \A i \in DOMAIN s : Append(s, x)[i] = s[i]
           /\ DOMAIN Append(s, x) = DOMAIN s \cup {Len(s) + 1}
BY AppendProperties

Streaming == {"cpio", "shaback"}
LEMMA WriteKeeps ==
    ASSUME BackupInv, RestoreInv, Quiet, restorePc = "entry", opts.mode \in Streaming,
           UNCHANGED <<index, damage, opts, pos, entry, before, known, dest>>,
           hasErrors' \in BOOLEAN, hasErrors => hasErrors', restorePc' = "next",
           \/ hasErrors' /\ UNCHANGED output
           \/ \E announced \in Nat, given \in Nat :
                  Write(announced, given) /\ (hasErrors' \/ announced = given \/ given >= UIntRange)
    PROVE  RestoreInv'
<1> DEFINE Records == [path : Node \cup {Root}, announced : Nat, given : Nat]
           Sound(s) == \A i \in DOMAIN s : s[i].announced = s[i].given \/ s[i].given >= UIntRange
           Paths(s) == {s[i].path : i \in DOMAIN s}
           Done == {index[i].path : i \in Passed}
<1>1. /\ Passed' = Passed \cup {pos} /\ restorePc \in AtWork
      /\ entry.path = index[pos].path /\ entry.path \in Node
  BY ReadingFrame
<1>2. opts.mode # "restore" /\ opts.mode \notin {"test", "quick"}
  BY DEF Streaming
<1>3. TestInv'
  BY <1>2 DEF TestInv
<1>4. output \in Seq(Records)
  BY DEF RestoreInv, StreamInv
<1>5. ~hasErrors => Paths(output) = Done /\ Sound(output)
  <2>1. restorePc # "done"
    OBVIOUS
  <2>2. ~hasErrors =>
           /\ {output[i].path : i \in DOMAIN output}
                 = {index[i].path : i \in Passed} \cup (IF restorePc = "done" THEN {Root} ELSE {})
           /\ \A i \in DOMAIN output : output[i].announced = output[i].given \/ output[i].given >= UIntRange
    BY <1>1 DEF RestoreInv, StreamInv, Streaming
  <2>3. QED
    BY <2>1, <2>2
<1>6. {index[i].path : i \in Passed}' = Done \cup {entry.path}
  BY <1>1
<1>7. output' \in Seq(Records) /\ (~hasErrors' => Paths(output') = Done \cup {entry.path} /\ Sound(output'))
  <2>1. CASE hasErrors' /\ UNCHANGED output
    BY <1>4, <2>1
  <2>2. ASSUME NEW announced \in Nat, NEW given \in Nat, Write(announced, given),
               hasErrors' \/ announced = given \/ given >= UIntRange
        PROVE  output' \in Seq(Records) /\ (~hasErrors' => Paths(output') = Done \cup {entry.path} /\ Sound(output'))
    <3> DEFINE record == [path |-> entry.path, announced |-> announced, given |-> given]
    <3>1. output' = Append(output, record)
      BY <2>2 DEF Write
    <3>2. /\ record \in Records /\ record.path = entry.path /\ record.announced = announced
          /\ record.given = given
      BY <1>1
    <3> HIDE DEF record, Records
    <3>3. /\ output' \in Seq(Records) /\ Len(output) \in Nat
          /\ output'[Len(output) + 1] = record /\ \A i \in DOMAIN output : output'[i] = output[i]
          /\ DOMAIN output' = DOMAIN output \cup {Len(output) + 1}
      BY <1>4, <3>1, <3>2, Appended
    <3>4. Paths(output') = Paths(output) \cup {entry.path}
      BY <3>2, <3>3
    <3>5. ~hasErrors' => ~hasErrors
      OBVIOUS
    <3>6. ~hasErrors' => Sound(output')
      BY <1>5, <2>2, <3>2, <3>3, <3>5
    <3> HIDE DEF Paths, Sound, Done
    <3>7. QED
      BY <1>5, <3>3, <3>4, <3>5, <3>6
  <2>3. QED
    BY <2>1, <2>2
<1>8. StreamInv'
  <2>1. restorePc' # "done"
    OBVIOUS
  <2>2. (IF restorePc = "done" THEN {Root} ELSE {})' = {}
    BY <2>1
  <2>3. ~hasErrors' =>
            /\ {output[i].path : i \in DOMAIN output}' = {index[i].path : i \in Passed}'
            /\ (\A i \in DOMAIN output : output[i].announced = output[i].given \/ output[i].given >= UIntRange)'
    BY <1>6, <1>7
  <2>4. QED
    BY <1>7, <2>1, <2>2, <2>3 DEF StreamInv
<1>9. QED
  BY <1>2, <1>3, <1>8, ReadingKeeps

LEMMA StreamOtherKeeps ==
    ASSUME BackupInv, RestoreInv, Quiet, StreamOther
    PROVE  RestoreInv'
<1>1. /\ restorePc = "entry" /\ opts.mode \in Streaming /\ restorePc' = "next"
      /\ UNCHANGED <<index, damage, opts, pos, entry, before, known, dest, hasErrors>>
  BY DEF StreamOther, Entry, Streaming
<1>2. PICK size : size = IF entry.type = "S" THEN 1 ELSE 0
  OBVIOUS
<1>3. size \in Nat /\ Write(size, size)
  BY <1>2 DEF StreamOther
<1>4. hasErrors' \in BOOLEAN /\ (hasErrors => hasErrors')
  BY <1>1 DEF RestoreInv, RestoreTypeOK
<1>5. QED
  BY <1>1, <1>3, <1>4, WriteKeeps

LEMMA StreamFileKeeps ==
    ASSUME BackupInv, RestoreInv, Quiet, NEW fault, StreamFile(fault)
    PROVE  RestoreInv'
<1> DEFINE size == Size[entry.data]
           fails == fault \/ Throws(entry.data)
<1>1. /\ restorePc = "entry" /\ opts.mode \in Streaming /\ restorePc' = "next" /\ entry.type = "F"
      /\ UNCHANGED <<index, damage, opts, pos, entry, before, known, dest>>
  BY DEF StreamFile, Entry, Streaming
<1>2. restorePc \in Running \ {"next"} /\ hasErrors \in BOOLEAN
  BY <1>1 DEF Running, RestoreInv, RestoreTypeOK
<1>3. entry.data \in Contents
  BY <1>1, <1>2, EntryIs
<1>4. size \in Nat /\ UIntRange \in Nat \ {0}
  BY <1>3, RestoreAssumption
<1>5. \/ hasErrors' = TRUE /\ UNCHANGED output
      \/ Write(size % UIntRange, IF fails THEN 0 ELSE size) /\ hasErrors' = (hasErrors \/ fails)
  BY DEF StreamFile
<1> HIDE DEF size, fails
<1>6. CASE hasErrors' = TRUE /\ UNCHANGED output
  BY <1>1, <1>2, <1>6, WriteKeeps
<1>7. CASE Write(size % UIntRange, IF fails THEN 0 ELSE size) /\ hasErrors' = (hasErrors \/ fails)
  <2> DEFINE given == IF fails THEN 0 ELSE size
  <2>1. size % UIntRange \in Nat /\ given \in Nat
    BY <1>4
  <2>2. hasErrors' \in BOOLEAN /\ (hasErrors => hasErrors')
    BY <1>2, <1>7
  <2>3. hasErrors' \/ size % UIntRange = given \/ given >= UIntRange
    <3>1. ~fails => given = size
      OBVIOUS
    <3>2. size % UIntRange = size \/ size >= UIntRange
      BY <1>4
    <3>3. fails => hasErrors'
      BY <1>7
    <3>4. QED
      BY <3>1, <3>2, <3>3
  <2>4. Write(size % UIntRange, given)
    BY <1>7
  <2> HIDE DEF given
  <2>5. QED
    BY <1>1, <2>1, <2>2, <2>3, <2>4, WriteKeeps
<1>8. QED
  BY <1>5, <1>6, <1>7

LEMMA TestEntryKeeps ==
    ASSUME BackupInv, RestoreInv, Quiet, TestEntry
    PROVE  RestoreInv'
<1>1. /\ restorePc = "entry" /\ opts.mode \in {"test", "quick"} /\ restorePc' = "next"
      /\ UNCHANGED <<index, damage, opts, pos, entry, before, known, dest, output>>
      /\ hasErrors' = (hasErrors \/ (entry.type = "F" /\ TestFails(entry.data)))
  BY DEF TestEntry, Entry
<1>2. hasErrors' \in BOOLEAN /\ (hasErrors => hasErrors') /\ hasErrors \in BOOLEAN
  BY <1>1 DEF RestoreInv, RestoreTypeOK
<1>3. /\ Seen = 1..pos - 1 /\ Seen' = 1..pos /\ pos \in Nat \ {0} /\ restorePc \in AtWork
      /\ entry.type = index[pos].type /\ (entry.type = "F" => entry.data = index[pos].data)
  BY <1>1, <1>2, ReadingFrame
<1>4. TestInv'
  <2>1. SUFFICES ASSUME ~hasErrors', NEW i \in 1..pos
                 PROVE  \/ index[i].type # "F" \/ ~Damaged(index[i].data)
                        \/ opts.mode = "quick" /\ damage.kind # "missing"
    <3>1. \A id : Damaged(id)' <=> Damaged(id)
      BY <1>1, SameRun
    <3>2. index' = index /\ opts' = opts /\ damage' = damage
      BY <1>1
    <3>3. TestInv' <=>
              (restorePc' \in AtWork /\ ~hasErrors' /\ opts'.mode \in {"test", "quick"} =>
                  \A i \in Seen' : \/ index'[i].type # "F" \/ ~Damaged(index[i].data)'
                                   \/ opts'.mode = "quick" /\ damage'.kind # "missing")
      BY DEF TestInv
    <3>4. \A i : Damaged(index[i].data)' <=> Damaged(index[i].data)
      <4> TAKE i
      <4>1. PICK id : id = index[i].data
        OBVIOUS
      <4>2. id = index[i].data'
        BY <3>2, <4>1
      <4>3. QED
        BY <3>1, <4>1, <4>2
    <3>5. QED
      BY <1>3, <3>2, <3>3, <3>4
  <2>2. CASE i = pos
    BY <1>1, <1>3, <2>1, <2>2 DEF TestFails
  <2>3. CASE i # pos
    <3>1. i \in Seen
      BY <1>3, <2>3
    <3>2. ~hasErrors
      BY <1>2, <2>1
    <3>3. QED
      BY <1>1, <1>3, <3>1, <3>2 DEF RestoreInv, TestInv
  <2>4. QED
    BY <2>2, <2>3
<1>5. StreamInv'
  BY <1>1 DEF RestoreInv, StreamInv
<1>6. QED
  BY <1>1, <1>2, <1>4, <1>5, ReadingKeeps

LEMMA ListEntryKeeps ==
    ASSUME BackupInv, RestoreInv, Quiet, ListEntry
    PROVE  RestoreInv'
<1>1. /\ restorePc = "entry" /\ opts.mode = "list" /\ restorePc' \in {"next", "aborted"}
      /\ UNCHANGED <<index, damage, opts, pos, entry, before, known, dest, output, hasErrors>>
  BY DEF ListEntry, Entry
<1>2. hasErrors' \in BOOLEAN /\ (hasErrors => hasErrors')
  BY <1>1 DEF RestoreInv, RestoreTypeOK
<1>3. TestInv' /\ StreamInv'
  BY <1>1 DEF RestoreInv, TestInv, StreamInv
<1>4. QED
  BY <1>1, <1>2, <1>3, ReadingKeeps

-----------------------------------------------------------------------------
(* Before and between the runs.                                            *)

(* The first run is still to come.                                         *)
BeforeInv ==
    /\ restorePc = "waiting" /\ index = <<>> /\ pos = 0 /\ dest = [n \in Node |-> Absent]
    /\ before = dest
    /\ runs = 0 /\ hasErrors = FALSE /\ known \in BOOLEAN
    /\ output \in Seq([path : Node \cup {Root}, announced : Nat, given : Nat])

LEMMA WaitingInv == BeforeInv => RestoreInv
<1> SUFFICES ASSUME BeforeInv PROVE RestoreInv
  OBVIOUS
<1>1. /\ restorePc = "waiting" /\ index = <<>> /\ pos = 0 /\ dest = [n \in Node |-> Absent]
      /\ before = dest
      /\ runs = 0 /\ hasErrors = FALSE /\ known \in BOOLEAN
      /\ output \in Seq([path : Node \cup {Root}, announced : Nat, given : Nat])
  BY DEF BeforeInv
<1>2. \A n \in Node : dest[n] = Absent /\ before[n] = Absent
  BY <1>1
<1>3. \A n \in Node : dest[n].type = "none" /\ dest[n].data = "" /\ dest[n].sha1 = "" /\ before[n].type = "none"
  BY <1>2, AbsentHas
<1>4. dest \in [Node -> DestFiles]
  BY <1>1, NewFile
<1>5. /\ restorePc \notin AtWork /\ restorePc \notin Running /\ restorePc \notin InHand
      /\ restorePc # "done" /\ restorePc # "export" /\ restorePc \notin AtWork \cup {"aborted"}
      /\ restorePc \in Ended
  BY <1>1 DEF AtWork, Running, InHand, Ended
<1>6. RestoreTypeOK
  <2>1. pos \in Nat /\ pos <= Len(index) + 1
    BY <1>1
  <2>2. QED
    BY <1>1, <1>3, <1>4, <1>5, <2>1 DEF RestoreTypeOK, IsTree
<1>7. IndexInv /\ FirstInv
  BY <1>1, <1>2, <1>4 DEF IndexInv, FirstInv
<1>8. PlaceInv /\ HandInv
  BY <1>1, <1>5 DEF PlaceInv, HandInv
<1>9. MadeInv /\ RightInv /\ TestInv
  BY <1>5 DEF MadeInv, RightInv, TestInv
<1>10. StayInv
  BY <1>3, <1>5 DEF StayInv, Excused
<1>11. AttributeInv
  BY <1>3 DEF AttributeInv, AttributeTrue
<1>12. PartialInv
  BY <1>3, <1>5 DEF PartialInv
<1>13. StreamInv
  BY <1>1, <1>5 DEF StreamInv
<1>14. QED
  BY <1>6, <1>7, <1>8, <1>9, <1>10, <1>11, <1>12, <1>13 DEF RestoreInv

LEMMA WaitingNext == (BeforeInv => RestoreInv)'
BY WaitingInv, PTL

(* The walk of the backup is of no concern to a restore.                   *)
LEMMA WalkOnKeeps ==
    ASSUME RestoreInv, backupPc # "done", UNCHANGED <<rvars, runs>>
    PROVE  RestoreInv'
<1>1. restorePc = "waiting" /\ index = <<>> /\ pos = 0
  BY DEF RestoreInv, IndexInv
<1>2. /\ dest = [n \in Node |-> Absent] /\ before = dest /\ runs = 0 /\ hasErrors = FALSE
      /\ known \in BOOLEAN
      /\ output \in Seq([path : Node \cup {Root}, announced : Nat, given : Nat])
  BY <1>1 DEF RestoreInv, FirstInv, RestoreTypeOK, StreamInv
<1>3. BeforeInv'
  BY <1>1, <1>2 DEF BeforeInv, rvars
<1>4. QED
  BY <1>3, WaitingNext

(* Nothing happens.                                                        *)
LEMMA NothingKeeps ==
    ASSUME RestoreInv, Quiet, UNCHANGED rvars
    PROVE  RestoreInv'
<1>1. /\ index' = index /\ damage' = damage /\ dest' = dest /\ opts' = opts /\ pos' = pos
      /\ entry' = entry
      /\ output' = output /\ hasErrors' = hasErrors /\ before' = before /\ known' = known
      /\ restorePc' = restorePc
      /\ backupPc' = backupPc /\ touched' = touched /\ shabackup' = shabackup /\ runs' = runs
  BY DEF rvars, Quiet
<1>2. RestoreTypeOK'
  BY <1>1, Zenon DEF RestoreInv, RestoreTypeOK, IsTree
<1>3. IndexInv'
  BY <1>1, Zenon DEF RestoreInv, IndexInv
<1>4. PlaceInv'
  BY <1>1, Zenon DEF RestoreInv, PlaceInv, Matches
<1>5. FirstInv'
  BY <1>1, Zenon DEF RestoreInv, FirstInv
<1>6. Seen' = Seen
  BY <1>1, Zenon DEF Seen
<1>7. Passed' = Passed
  BY <1>1, <1>6, Zenon DEF Passed, Matches
<1>8. Chosen' = Chosen
  BY <1>1, SameRun
<1>9. MadeInv'
  BY <1>1, <1>7, Zenon DEF RestoreInv, MadeInv
<1>10. StayInv'
  BY <1>1, <1>8, Zenon DEF RestoreInv, StayInv, Excused
<1>11. HandInv'
  BY <1>1, Zenon DEF RestoreInv, HandInv, Wrong
<1>12. AttributeInv'
  BY <1>1, Zenon DEF RestoreInv, AttributeInv, AttributeTrue
<1>13. PartialInv'
  BY <1>1, Zenon DEF RestoreInv, PartialInv
<1>14. RightInv'
  <2>1. SUFFICES ASSUME restorePc \in AtWork, ~hasErrors, opts.mode = "restore", NEW i \in Passed
                 PROVE  \/ Settled(index[i])' \/ Outdated(i)'
                        \/ restorePc \in InHand /\ index[i].path = entry.path
    BY <1>1, <1>7 DEF RightInv
  <2>2. Settled(index[i]) \/ Outdated(i) \/ (restorePc \in InHand /\ index[i].path = entry.path)
    BY <2>1 DEF RestoreInv, RightInv
  <2>3. Outdated(i)' <=> Outdated(i)
    BY <1>1, <1>7 DEF Outdated
  <2>4. PICK line : line = index[i]
    OBVIOUS
  <2>5. line = index[i]' /\ (Settled(line) => Settled(line)')
    BY <1>1, <2>4, SettledSame
  <2>6. QED
    BY <2>2, <2>3, <2>4, <2>5
<1>15. TestInv'
  BY <1>1, <1>6, Zenon DEF RestoreInv, TestInv, Damaged
<1>16. StreamInv'
  <2>1. {index[i].path : i \in Passed}' = {index[i].path : i \in Passed}
    BY <1>1, <1>7
  <2>2. {output[i].path : i \in DOMAIN output}' = {output[i].path : i \in DOMAIN output}
    BY <1>1
  <2>3. QED
    BY <1>1, <2>1, <2>2 DEF RestoreInv, StreamInv
<1>17. QED
  BY <1>2, <1>3, <1>4, <1>5, <1>9, <1>10, <1>11, <1>12, <1>13, <1>14, <1>15, <1>16 DEF RestoreInv

(* The end of a run.                                                       *)
LEMMA EndKeeps ==
    ASSUME RestoreInv, Quiet, EndRestore \/ Interrupt
    PROVE  RestoreInv'
<1>1. /\ restorePc' = "idle" /\ restorePc \in Running \cup {"done", "aborted"}
      /\ index' = index /\ damage' = damage /\ dest' = dest /\ opts' = opts /\ pos' = pos
      /\ entry' = entry
      /\ output' = output /\ hasErrors' = hasErrors /\ before' = before
      /\ backupPc' = backupPc /\ touched' = touched /\ shabackup' = shabackup /\ runs' = runs
  BY DEF EndRestore, Interrupt, Quiet
<1>2. restorePc # "waiting" /\ restorePc # "idle" /\ restorePc \in AtWork \cup {"aborted"}
  BY <1>1 DEF Running, AtWork
<1>3. /\ restorePc' \notin AtWork /\ restorePc' \notin Running /\ restorePc' \notin InHand
      /\ restorePc' # "done" /\ restorePc' # "export" /\ restorePc' \notin AtWork \cup {"aborted"}
      /\ restorePc' \in Ended /\ restorePc' # "waiting"
  BY <1>1 DEF AtWork, Running, InHand, Ended
<1>4. known' = (known \/ hasErrors \/ restorePc = "aborted") \/ known' = TRUE
  BY DEF EndRestore, Interrupt
<1>5. known \in BOOLEAN /\ hasErrors \in BOOLEAN
  BY DEF RestoreInv, RestoreTypeOK
<1>6. known' \in BOOLEAN
  BY <1>4, <1>5
<1>7. ~known' => ~known /\ ~hasErrors /\ restorePc \in AtWork /\ (restorePc = "done")
  BY <1>1, <1>2, <1>4, <1>5 DEF EndRestore, Interrupt
<1>8. PartialInv'
  <2>1. ASSUME NEW n \in Node, dest[n].data = "partial", ~known' PROVE FALSE
    BY <1>7, <2>1 DEF RestoreInv, PartialInv
  <2>2. QED
    BY <1>1, <1>3, <2>1 DEF PartialInv
<1>9. RestoreTypeOK'
  BY <1>1, <1>3, <1>6 DEF RestoreInv, RestoreTypeOK, IsTree
<1>10. IndexInv'
  <2>1. backupPc = "done" /\ index = shabackup
    BY <1>2 DEF RestoreInv, IndexInv
  <2>2. QED
    BY <1>1, <1>3, <2>1 DEF IndexInv
<1>11. FirstInv'
  BY <1>1, <1>2, <1>3 DEF RestoreInv, FirstInv
<1>12. PlaceInv' /\ HandInv'
  BY <1>1 DEF PlaceInv, HandInv, AtWork, Running, InHand
<1>13. MadeInv' /\ RightInv' /\ TestInv'
  BY <1>3 DEF MadeInv, RightInv, TestInv
<1>14. StayInv'
  <2>1. \A n : Excused(n)' <=> Excused(n)
    BY <1>1, SameRun
  <2>2. QED
    BY <1>1, <1>3, <2>1 DEF RestoreInv, StayInv
<1>15. AttributeInv'
  BY <1>1, Zenon DEF RestoreInv, AttributeInv, AttributeTrue
<1>16. StreamInv'
  BY <1>1, <1>3 DEF RestoreInv, StreamInv
<1>17. QED
  BY <1>8, <1>9, <1>10, <1>11, <1>12, <1>13, <1>14, <1>15, <1>16 DEF RestoreInv

(* A run begins.                                                           *)
LEMMA RunKeeps ==
    ASSUME BackupInv, RestoreInv, BoundsOK, Run
    PROVE  RestoreInv' /\ runs' \in 0..MaxRuns
<1>1. /\ restorePc = "idle" /\ restorePc' = "next" /\ opts' \in Options /\ pos' = 0 /\ output' = <<>>
      /\ hasErrors' = FALSE /\ before' = dest
      /\ index' = index /\ damage' = damage /\ dest' = dest /\ known' = known
      /\ backupPc' = backupPc /\ touched' = touched /\ shabackup' = shabackup /\ runs' = runs + 1
  BY DEF Run, StartRestore, bvars
<1>2. runs \in Nat /\ runs' # 0 /\ runs' \in 0..MaxRuns
  <2>1. runs \in 0..MaxRuns /\ MaxRuns \in Nat
    BY BoundsAssumption DEF BoundsOK
  <2>2. runs = 0 \/ runs < MaxRuns
    BY DEF Run
  <2>3. runs = 0 => MaxRuns >= 1
    BY BoundsAssumption
  <2>4. QED
    BY <1>1, <2>1, <2>2, <2>3
<1>3. /\ restorePc' \in Running /\ restorePc' \in AtWork /\ restorePc' \notin InHand
      /\ restorePc' \notin {"entry", "done", "waiting", "idle", "export"}
  BY <1>1 DEF Running, AtWork, InHand
<1>4. Seen' = {} /\ Passed' = {}
  BY <1>1, <1>3 DEF Seen, Passed
<1>5. RestoreTypeOK'
  <2>1. Len(index) \in Nat
    BY IndexIs, LenProperties
  <2>2. pos' \in Nat /\ pos' <= Len(index') + 1
    BY <1>1, <2>1
  <2>3. restorePc' \notin Running \ {"next"}
    BY <1>1
  <2>4. dest' \in [Node -> DestFiles] /\ IsTree(dest)' /\ known' \in BOOLEAN /\ hasErrors' \in BOOLEAN
    BY <1>1 DEF RestoreInv, RestoreTypeOK, IsTree
  <2>5. QED
    BY <1>3, <2>2, <2>3, <2>4 DEF RestoreTypeOK
<1>6. IndexInv'
  <2>1. backupPc = "done" /\ index = shabackup
    BY <1>1 DEF RestoreInv, IndexInv
  <2>2. QED
    BY <1>1, <2>1 DEF IndexInv
<1>7. FirstInv'
  BY <1>1, <1>2, <1>3 DEF RestoreInv, FirstInv
<1>8. PlaceInv'
  BY <1>1, <1>3 DEF PlaceInv, InHand
<1>9. MadeInv'
  <2>1. \A n \in Node : before'[n] = dest'[n]
    BY <1>1
  <2>2. QED
    BY <2>1 DEF MadeInv
<1>10. StayInv'
  BY <1>1, <1>3 DEF StayInv
<1>11. HandInv'
  BY <1>1 DEF HandInv
<1>12. AttributeInv'
  BY <1>1, Zenon DEF RestoreInv, AttributeInv, AttributeTrue
<1>13. PartialInv'
  BY <1>1, <1>3 DEF RestoreInv, PartialInv
<1>14. RightInv' /\ TestInv'
  BY <1>4 DEF RightInv, TestInv
<1>15. StreamInv'
  <2>1. output' \in Seq([path : Node \cup {Root}, announced : Nat, given : Nat]) /\ DOMAIN output' = {}
    BY <1>1
  <2>2. QED
    BY <1>1, <1>4, <2>1 DEF StreamInv
<1>16. QED
  BY <1>2, <1>5, <1>6, <1>7, <1>8, <1>9, <1>10, <1>11, <1>12, <1>13, <1>14, <1>15 DEF RestoreInv

(* The index file is there to be read.                                     *)
LEMMA DeliverKeeps ==
    ASSUME BackupInv, RestoreInv, Deliver
    PROVE  RestoreInv'
<1>1. /\ backupPc = "done" /\ restorePc = "waiting" /\ index' = shabackup
      /\ restorePc' = "idle"
      /\ dest' = dest \/ dest' \in Obstacles
      /\ opts' = opts /\ pos' = pos /\ entry' = entry /\ output' = output /\ hasErrors' = hasErrors
      /\ before' = before /\ known' = known /\ runs' = runs
      /\ backupPc' = backupPc /\ touched' = touched /\ shabackup' = shabackup
  BY DEF Deliver, bvars
<1>2. pos = 0 /\ dest = [n \in Node |-> Absent] /\ before = dest /\ runs = 0
  BY <1>1 DEF RestoreInv, IndexInv, FirstInv
<1>3. \A n \in Node : before[n] = Absent /\ before[n].type = "none"
  BY <1>2, AbsentHas
<1>4. /\ dest' \in [Node -> DestFiles] /\ IsTree(dest')
      /\ \A n \in Node : dest'[n].sha1 = "" /\ dest'[n].data \notin {"partial", "overwritten"}
  <2>1. CASE dest' = dest
    <3>1. \A n \in Node : dest'[n] = Absent
      BY <1>2, <2>1
    <3>2. \A n \in Node : dest'[n].type = "none" /\ dest'[n].data = "" /\ dest'[n].sha1 = ""
      BY <3>1, AbsentHas
    <3>3. dest' \in [Node -> DestFiles]
      BY <2>1 DEF RestoreInv, FirstInv
    <3>4. QED
      BY <3>2, <3>3 DEF IsTree
  <2>2. CASE dest' \in Obstacles
    BY <2>2, ObstaclesAssumption
  <2>3. QED
    BY <1>1, <2>1, <2>2
<1>5. /\ restorePc' \notin AtWork /\ restorePc' \notin Running /\ restorePc' \notin InHand
      /\ restorePc' # "done" /\ restorePc' # "export" /\ restorePc' \notin AtWork \cup {"aborted"}
      /\ restorePc' \in Ended /\ restorePc' # "waiting"
  BY <1>1 DEF AtWork, Running, InHand, Ended
<1>6. RestoreTypeOK'
  <2>1. IsTree(dest)'
    BY <1>4 DEF IsTree
  <2>2. Len(index') \in Nat
    BY <1>1, LenProperties DEF BackupInv, BackupTypeOK
  <2>3. pos' \in Nat /\ pos' <= Len(index') + 1
    BY <1>1, <1>2, <2>2
  <2>4. known' \in BOOLEAN /\ hasErrors' \in BOOLEAN
    BY <1>1 DEF RestoreInv, RestoreTypeOK
  <2>5. QED
    BY <1>4, <1>5, <2>1, <2>3, <2>4 DEF RestoreTypeOK
<1>7. IndexInv' /\ FirstInv'
  BY <1>1, <1>3, <1>4, <1>5 DEF IndexInv, RestoreInv, FirstInv
<1>8. PlaceInv' /\ HandInv'
  BY <1>1 DEF PlaceInv, HandInv, AtWork, Running, InHand
<1>9. MadeInv' /\ RightInv' /\ TestInv'
  BY <1>5 DEF MadeInv, RightInv, TestInv
<1>10. StayInv'
  BY <1>1, <1>3, <1>5 DEF StayInv, Excused
<1>11. AttributeInv'
  BY <1>4 DEF AttributeInv, AttributeTrue
<1>12. PartialInv'
  BY <1>4, <1>5 DEF PartialInv
<1>13. StreamInv'
  BY <1>1, <1>5 DEF RestoreInv, StreamInv
<1>14. QED
  BY <1>6, <1>7, <1>8, <1>9, <1>10, <1>11, <1>12, <1>13 DEF RestoreInv

(* The next line is read.                                                  *)
LEMMA ReadEntryKeeps ==
    ASSUME BackupInv, RestoreInv, Quiet, ReadEntry
    PROVE  RestoreInv'
<1> DEFINE next == NextEntry(index, pos + 1)
<1>1. /\ restorePc = "next" /\ pos' = pos + 1
      /\ entry' = IF next \in {Eof, Invalid} THEN Eof ELSE next
      /\ restorePc' = IF next = Eof THEN "done"
                      ELSE IF next = Invalid THEN "aborted"
                      ELSE IF Matches(next.path) THEN "entry" ELSE "next"
      /\ output' = IF next = Eof /\ opts.mode \in {"cpio", "shaback"}
                   THEN Append(output, [path |-> Root, announced |-> 0, given |-> 0])
                   ELSE output
      /\ index' = index /\ damage' = damage /\ dest' = dest /\ opts' = opts /\ hasErrors' = hasErrors
      /\ before' = before /\ known' = known
      /\ backupPc' = backupPc /\ touched' = touched /\ shabackup' = shabackup /\ runs' = runs
  BY DEF ReadEntry, Quiet
<1>2. /\ restorePc \in Running /\ restorePc \in AtWork /\ restorePc \notin InHand
      /\ restorePc \notin {"waiting", "idle", "done", "export", "entry"}
      /\ restorePc' \in {"done", "aborted", "entry", "next"}
  BY <1>1 DEF Running, AtWork, InHand
<1>3. /\ restorePc' \notin InHand /\ restorePc' \in Running \cup Ended
      /\ restorePc' \in AtWork \cup {"aborted"}
      /\ restorePc' # "waiting" /\ restorePc' # "idle" /\ restorePc' # "export"
      /\ restorePc' \in Running => restorePc' \in {"entry", "next"}
  BY <1>2 DEF Running, AtWork, InHand, Ended
<1>4. /\ pos \in Nat /\ hasErrors \in BOOLEAN /\ known \in BOOLEAN
      /\ dest \in [Node -> DestFiles] /\ IsTree(dest) /\ opts \in Options
  BY <1>2 DEF RestoreInv, RestoreTypeOK, PlaceInv
<1>5. /\ pos + 1 \in Nat \ {0} /\ index \in Seq(Lines) /\ Len(index) \in Nat
  BY <1>4, IndexIs, LenProperties
<1>6. /\ next \notin {Eof, Invalid} =>
             /\ pos + 1 \in DOMAIN index /\ pos + 1 <= Len(index) /\ index[pos + 1] \in Lines
             /\ index[pos + 1].type \in {"D", "F", "S"} /\ (index[pos + 1].type = "S" => index[pos + 1].data # "")
             /\ next = ParseEntry(index[pos + 1])
  BY <1>5, NextEntryIs
<1>7. next \notin {Eof, Invalid} => next.path = index[pos + 1].path /\ next.path \in Node
  BY <1>6, ParsedIs
<1>8. \A k \in 1..pos : k <= Len(index) /\ NextEntry(index, k) \notin {Eof, Invalid}
  BY <1>2 DEF RestoreInv, PlaceInv
<1>9. pos <= Len(index)
  <2>1. pos = 0 \/ pos \in 1..pos
    BY <1>4
  <2>2. QED
    BY <1>5, <1>8, <2>1
<1>10. /\ restorePc' = "done" => next = Eof
       /\ restorePc' \in {"entry", "next"} => next \notin {Eof, Invalid} /\ (restorePc' = "entry" <=> Matches(next.path))
  <2>1. Eof # Invalid
    BY DEF Eof, Invalid
  <2>2. QED
    BY <1>1, <2>1
<1>11. /\ \A n : Matches(n)' <=> Matches(n)
       /\ \A n : Excused(n)' <=> Excused(n)
       /\ \A id : Damaged(id)' <=> Damaged(id)
  BY <1>1, SameRun
<1> HIDE DEF next
<1>12. restorePc' \in AtWork => Passed' = Passed
  <2>1. Passed = {i \in 1..pos : Matches(index[i].path)}
    BY <1>2 DEF Passed, Seen
  <2>2. \A i : Matches(index[i].path)' <=> Matches(index[i].path)
    <3> TAKE i
    <3>1. PICK n : n = index[i].path
      OBVIOUS
    <3>2. n = index[i].path'
      BY <1>1, <3>1
    <3>3. QED
      BY <1>11, <3>1, <3>2
  <2>3. Passed' = {i \in Seen' : Matches(index[i].path)}
    BY <2>2 DEF Passed
  <2>4. CASE restorePc' \in {"entry", "done"}
    <3>1. Seen' = 1..pos' - 1
      BY <2>4 DEF Seen
    <3>2. pos' - 1 = pos
      BY <1>1, <1>4
    <3>3. QED
      BY <2>1, <2>3, <3>1, <3>2
  <2>5. CASE restorePc' = "next"
    <3>1. Seen' = 1..(pos + 1)
      BY <1>1, <2>5 DEF Seen
    <3>2. ~Matches(index[pos + 1].path)
      BY <1>7, <1>10, <2>5
    <3>3. \A i \in 1..(pos + 1) : i \in 1..pos \/ i = pos + 1
      BY <1>4
    <3>4. 1..pos \subseteq 1..(pos + 1)
      BY <1>4
    <3>5. QED
      BY <2>1, <2>3, <3>1, <3>2, <3>3, <3>4
  <2>6. QED
    BY <1>2, <2>4, <2>5 DEF AtWork, Running
<1>13. RestoreTypeOK'
  <2>1. pos' \in Nat /\ pos' <= Len(index') + 1
    BY <1>1, <1>4, <1>5, <1>9
  <2>2. restorePc' \in Running \ {"next"} => entry'.path \in Node
    BY <1>1, <1>3, <1>7, <1>10
  <2>3. IsTree(dest)'
    BY <1>1, <1>4 DEF IsTree
  <2>4. QED
    BY <1>1, <1>3, <1>4, <2>1, <2>2, <2>3 DEF RestoreTypeOK
<1>14. IndexInv'
  <2>1. backupPc = "done" /\ index = shabackup
    BY <1>2 DEF RestoreInv, IndexInv
  <2>2. QED
    BY <1>1, <1>3, <2>1 DEF IndexInv
<1>15. PlaceInv'
  <2>1. restorePc' \in Running => \A k \in 1..pos' : k <= Len(index') /\ NextEntry(index', k) \notin {Eof, Invalid}
    <3>1. SUFFICES ASSUME restorePc' \in Running, NEW k \in 1..(pos + 1)
                   PROVE  k <= Len(index) /\ NextEntry(index, k) \notin {Eof, Invalid}
      BY <1>1
    <3>2. k \in 1..pos \/ k = pos + 1
      BY <1>4
    <3>3. NextEntry(index, pos + 1) \notin {Eof, Invalid} /\ pos + 1 <= Len(index)
      BY <1>3, <1>6, <1>10, <3>1 DEF next
    <3>4. QED
      BY <1>8, <3>2, <3>3
  <2>2. restorePc' = "entry" => pos' > 0 /\ entry' = NextEntry(index', pos') /\ Matches(entry.path)'
    <3>1. SUFFICES ASSUME restorePc' = "entry"
                   PROVE  pos' > 0 /\ entry' = NextEntry(index', pos') /\ Matches(entry.path)'
      OBVIOUS
    <3>2. entry' = next /\ Matches(next.path)
      BY <1>1, <1>10, <3>1
    <3>3. PICK n : n = next.path
      OBVIOUS
    <3>4. n = entry'.path /\ Matches(n)'
      BY <1>11, <3>2, <3>3
    <3>5. entry' = NextEntry(index', pos')
      BY <1>1, <3>2 DEF next
    <3>6. QED
      BY <1>1, <1>5, <3>4, <3>5
  <2>3. restorePc' = "done" =>
            /\ pos' > 0 /\ NextEntry(index', pos') = Eof
            /\ \A k \in 1..pos' - 1 : k <= Len(index') /\ NextEntry(index', k) \notin {Eof, Invalid}
    <3>1. pos' - 1 = pos /\ pos' > 0
      BY <1>1, <1>4
    <3>2. QED
      BY <1>1, <1>8, <1>10, <3>1 DEF next
  <2>4. restorePc' \notin {"dirMeta", "export", "fileMeta", "symlink", "linkMeta"}
    BY <1>2
  <2>5. QED
    BY <1>1, <1>3, <1>4, <2>1, <2>2, <2>3, <2>4 DEF PlaceInv
<1>16. FirstInv'
  BY <1>1, <1>2, <1>3 DEF RestoreInv, FirstInv
<1>17. MadeInv'
  BY <1>1, <1>2, <1>12 DEF RestoreInv, MadeInv, TypeOf
<1>18. StayInv'
  BY <1>1, <1>3, <1>11 DEF RestoreInv, StayInv
<1>19. HandInv'
  BY <1>2 DEF HandInv
<1>20. AttributeInv'
  BY <1>1, Zenon DEF RestoreInv, AttributeInv, AttributeTrue
<1>21. PartialInv'
  BY <1>1, <1>2, <1>3 DEF RestoreInv, PartialInv
<1>22. RightInv'
  <2>1. SUFFICES ASSUME restorePc' \in AtWork, ~hasErrors, opts.mode = "restore", NEW i \in Passed
                 PROVE  Settled(index[i])' \/ Outdated(i)'
    BY <1>1, <1>12 DEF RightInv
  <2>2. Settled(index[i]) \/ Outdated(i)
    BY <1>2, <2>1 DEF RestoreInv, RightInv
  <2>3. Outdated(i)' <=> Outdated(i)
    BY <1>1, <1>12, <2>1 DEF Outdated
  <2>4. PICK line : line = index[i]
    OBVIOUS
  <2>5. line = index[i]' /\ (Settled(line) => Settled(line)')
    BY <1>1, <2>4, SettledSame
  <2>6. QED
    BY <2>2, <2>3, <2>4, <2>5
<1>23. TestInv'
  <2>1. SUFFICES ASSUME restorePc' \in AtWork, ~hasErrors, opts.mode \in {"test", "quick"}
                 PROVE  \A i \in Seen' : \/ index'[i].type # "F" \/ ~Damaged(index[i].data)'
                                         \/ opts'.mode = "quick" /\ damage'.kind # "missing"
    BY <1>1 DEF TestInv
  <2>2. \A n : Matches(n)
    BY <1>4, <2>1, RestoreAssumption DEF Matches
  <2>3. restorePc' \in {"entry", "done"}
    BY <1>2, <1>10, <2>1, <2>2 DEF AtWork, Running
  <2>4. Seen' = 1..pos /\ Seen = 1..pos
    <3>1. Seen' = 1..pos' - 1
      BY <2>3 DEF Seen
    <3>2. pos' - 1 = pos
      BY <1>1, <1>4
    <3>3. QED
      BY <1>2, <3>1, <3>2 DEF Seen
  <2>5. \A i \in Seen : \/ index[i].type # "F" \/ ~Damaged(index[i].data)
                        \/ opts.mode = "quick" /\ damage.kind # "missing"
    BY <1>2, <2>1 DEF RestoreInv, TestInv
  <2>6. \A i : Damaged(index[i].data)' <=> Damaged(index[i].data)
    <3> TAKE i
    <3>1. PICK id : id = index[i].data
      OBVIOUS
    <3>2. id = index[i].data'
      BY <1>1, <3>1
    <3>3. QED
      BY <1>11, <3>1, <3>2
  <2>7. QED
    BY <1>1, <2>4, <2>5, <2>6
<1>24. StreamInv'
  <2> DEFINE Records == [path : Node \cup {Root}, announced : Nat, given : Nat]
             Sound(s) == \A i \in DOMAIN s : s[i].announced = s[i].given \/ s[i].given >= UIntRange
             Paths(s) == {s[i].path : i \in DOMAIN s}
             Done == {index[i].path : i \in Passed}
             trailer == [path |-> Root, announced |-> 0, given |-> 0]
  <2>1. output \in Seq(Records)
    BY DEF RestoreInv, StreamInv
  <2>2. ~hasErrors /\ opts.mode \in {"cpio", "shaback"} => Paths(output) = Done /\ Sound(output)
    <3>1. ~hasErrors /\ opts.mode \in {"cpio", "shaback"} =>
             /\ {output[i].path : i \in DOMAIN output}
                   = {index[i].path : i \in Passed} \cup (IF restorePc = "done" THEN {Root} ELSE {})
             /\ \A i \in DOMAIN output : output[i].announced = output[i].given \/ output[i].given >= UIntRange
      BY <1>2 DEF RestoreInv, StreamInv
    <3>2. QED
      BY <1>2, <3>1
  <2>3. restorePc' \in AtWork => {index[i].path : i \in Passed}' = Done
    BY <1>1, <1>12
  <2>4. trailer \in Records /\ trailer.path = Root /\ trailer.announced = trailer.given
    OBVIOUS
  <2>5. CASE restorePc' = "done" /\ opts.mode \in {"cpio", "shaback"}
    <3>1. output' = Append(output, trailer)
      BY <1>1, <1>10, <2>5
    <3> HIDE DEF Records, trailer
    <3>2. /\ output' \in Seq(Records) /\ Len(output) \in Nat /\ Len(output') = Len(output) + 1
          /\ output'[Len(output) + 1] = trailer /\ \A i \in DOMAIN output : output'[i] = output[i]
          /\ DOMAIN output' = DOMAIN output \cup {Len(output) + 1}
      BY <2>1, <2>4, <3>1, Appended
    <3>3. Len(output') > 0 /\ output'[Len(output')].path = Root
      BY <2>4, <3>2
    <3>4. Paths(output') = Paths(output) \cup {Root}
      BY <2>4, <3>2
    <3>5. ~hasErrors => Sound(output')
      BY <2>2, <2>4, <2>5, <3>2
    <3>6. restorePc' \in AtWork
      BY <2>5 DEF AtWork
    <3>7. ~hasErrors => Paths(output') = {index[i].path : i \in Passed}' \cup {Root}
      BY <2>2, <2>3, <2>5, <3>4, <3>6
    <3>8. output' \in Seq([path : Node \cup {Root}, announced : Nat, given : Nat])
      BY <3>2 DEF Records
    <3>9. QED
      BY <1>1, <2>5, <3>3, <3>5, <3>7, <3>8 DEF StreamInv
  <2>6. CASE restorePc' # "done" /\ opts.mode \in {"cpio", "shaback"}
    <3>1. output' = output
      BY <1>1, <2>6
    <3>2. restorePc' \in AtWork /\ ~hasErrors => Paths(output') = {index[i].path : i \in Passed}' /\ Sound(output')
      BY <2>2, <2>3, <2>6, <3>1
    <3>3. QED
      BY <1>1, <2>1, <2>6, <3>1, <3>2 DEF StreamInv
  <2>7. CASE opts.mode \notin {"cpio", "shaback"}
    <3>1. output' = output
      BY <1>1, <2>7
    <3>2. QED
      BY <1>1, <2>1, <2>7, <3>1 DEF StreamInv
  <2>8. QED
    BY <2>5, <2>6, <2>7
<1>25. QED
  BY <1>13, <1>14, <1>15, <1>16, <1>17, <1>18, <1>19, <1>20, <1>21, <1>22, <1>23, <1>24 DEF RestoreInv

-----------------------------------------------------------------------------
(* The invariant.                                                          *)
LEMMA InitInv ==
    ASSUME Init
    PROVE  IInv
<1>1. BackupInv
  BY BackupInitInv DEF Init
<1>2. /\ restorePc = "waiting" /\ index = <<>> /\ pos = 0 /\ dest = [n \in Node |-> Absent]
      /\ before = dest
      /\ runs = 0 /\ hasErrors = FALSE /\ known = FALSE /\ output = <<>> /\ changes = 0 /\ mishaps = 0
  BY DEF Init
<1>3. BeforeInv
  <2>1. output \in Seq([path : Node \cup {Root}, announced : Nat, given : Nat])
    BY <1>2
  <2>2. QED
    BY <1>2, <2>1 DEF BeforeInv
<1>4. BoundsOK
  BY <1>2, BoundsAssumption DEF BoundsOK
<1>5. QED
  BY <1>1, <1>3, <1>4, WaitingInv DEF IInv

(* What goes on during a run.                                              *)
LEMMA RestoreStep ==
    ASSUME BackupInv, RestoreInv, Quiet, Restore \/ RestoreFault \/ Interrupt
    PROVE  RestoreInv'
<1>1. CASE Restore
  BY <1>1, ReadEntryKeeps, RestoreDirectoryKeeps, MetaDataKeeps, RestoreFileKeeps, ExportFileKeeps,
     RestoreSymlinkKeeps, MakeSymlinkKeeps, RestoreBeyondKeeps, StreamOtherKeeps, StreamFileKeeps,
     TestEntryKeeps, ListEntryKeeps, EndKeeps DEF Restore
<1>2. CASE RestoreFault
  BY <1>2, MetaDataKeeps, ExportFileKeeps, MakeSymlinkKeeps, StreamFileKeeps DEF RestoreFault
<1>3. CASE Interrupt
  BY <1>3, EndKeeps
<1>4. QED
  BY <1>1, <1>2, <1>3

LEMMA WalkingIs ==
    ASSUME Walk \/ CallbackFails \/ ChangeFile
    PROVE  backupPc # "done"
<1>1. CASE Walk
  BY <1>1 DEF Walk, NextDir, NextChild, LeaveDirectory, HandleNone, HandleOther, HandleSymlink, HandleFile,
              HandleDirectory, Handled, FinishBackup
<1>2. CASE CallbackFails
  BY <1>2 DEF CallbackFails
<1>3. CASE ChangeFile
  BY <1>3 DEF ChangeFile
<1>4. QED
  BY <1>1, <1>2, <1>3

LEMMA Inductive == IInv /\ [Next]_vars => IInv'
<1> SUFFICES ASSUME IInv, [Next]_vars PROVE IInv'
  OBVIOUS
<1>1. BackupInv /\ RestoreInv /\ BoundsOK
  BY DEF IInv
<1>2. /\ changes \in Nat /\ mishaps \in Nat /\ runs \in Nat /\ MaxChanges \in Nat
      /\ MaxMishaps \in Nat /\ MaxRuns \in Nat
  BY <1>1, BoundsAssumption DEF BoundsOK
<1>3. CASE WalkOn \/ (CallbackFails /\ UNCHANGED <<rvars, bounds>>)
  <2>1. (Walk \/ CallbackFails) /\ UNCHANGED <<rvars, bounds>>
    BY <1>3 DEF WalkOn
  <2>2. BackupInv'
    BY <1>1, <2>1, BackupStep
  <2>3. UNCHANGED <<rvars, runs>>
    BY <2>1 DEF bounds
  <2>4. RestoreInv'
    BY <1>1, <2>1, <2>3, WalkingIs, WalkOnKeeps
  <2>5. BoundsOK'
    BY <1>1, <2>1 DEF BoundsOK, bounds
  <2>6. QED
    BY <2>2, <2>4, <2>5 DEF IInv
<1>4. CASE ChangeFile
  <2>1. /\ \E n \in Node : Change(n)
        /\ UNCHANGED <<rvars, runs, mishaps>> /\ changes < MaxChanges /\ changes' = changes + 1
    BY <1>4 DEF ChangeFile
  <2>2. BackupInv'
    BY <1>1, <2>1, BackupStep
  <2>3. RestoreInv'
    BY <1>1, <1>4, <2>1, WalkingIs, WalkOnKeeps
  <2>4. BoundsOK'
    BY <1>1, <1>2, <2>1 DEF BoundsOK
  <2>5. QED
    BY <2>2, <2>3, <2>4 DEF IInv
<1>5. CASE Deliver
  <2>1. UNCHANGED bvars
    BY <1>5 DEF Deliver
  <2>2. BackupInv'
    BY <1>1, <2>1, BackupStep
  <2>3. RestoreInv'
    BY <1>1, <1>5, DeliverKeeps
  <2>4. BoundsOK'
    <3>1. changes' = changes /\ runs' = runs
      BY <1>5 DEF Deliver
    <3>2. mishaps' = mishaps \/ (mishaps < MaxMishaps /\ mishaps' = mishaps + 1)
      BY <1>5 DEF Deliver, Mishap
    <3>3. QED
      BY <1>1, <1>2, <3>1, <3>2 DEF BoundsOK
  <2>5. QED
    BY <2>2, <2>3, <2>4 DEF IInv
<1>6. CASE Run
  <2>1. UNCHANGED <<bvars, changes, mishaps>>
    BY <1>6 DEF Run
  <2>2. BackupInv'
    BY <1>1, <2>1, BackupStep
  <2>3. RestoreInv' /\ runs' \in 0..MaxRuns
    BY <1>1, <1>6, RunKeeps
  <2>4. BoundsOK'
    BY <1>1, <2>1, <2>3 DEF BoundsOK
  <2>5. QED
    BY <2>2, <2>3, <2>4 DEF IInv
<1>7. CASE RestoreOn
  <2>1. Restore /\ UNCHANGED <<bvars, bounds>>
    BY <1>7 DEF RestoreOn
  <2>2. BackupInv'
    BY <1>1, <2>1, BackupStep
  <2>3. Quiet
    BY <2>1 DEF Quiet, bvars, bounds
  <2>4. RestoreInv'
    BY <1>1, <2>1, <2>3, RestoreStep
  <2>5. BoundsOK'
    BY <1>1, <2>1 DEF BoundsOK, bounds
  <2>6. QED
    BY <2>2, <2>4, <2>5 DEF IInv
<1>8. CASE (RestoreFault \/ Interrupt) /\ Mishap /\ UNCHANGED <<bvars, changes, runs>>
  <2>1. UNCHANGED bvars
    BY <1>8
  <2>2. BackupInv'
    BY <1>1, <2>1, BackupStep
  <2>3. Quiet
    BY <1>8 DEF Quiet, bvars
  <2>4. RestoreInv'
    BY <1>1, <1>8, <2>3, RestoreStep
  <2>5. BoundsOK'
    BY <1>1, <1>2, <1>8 DEF BoundsOK, Mishap
  <2>6. QED
    BY <2>2, <2>4, <2>5 DEF IInv
<1>9. CASE UNCHANGED vars
  <2>1. UNCHANGED bvars /\ UNCHANGED rvars /\ UNCHANGED bounds
    BY <1>9 DEF vars
  <2>2. BackupInv'
    BY <1>1, <2>1, BackupStep
  <2>3. Quiet
    BY <2>1 DEF Quiet, bvars, bounds
  <2>4. RestoreInv'
    BY <1>1, <2>1, <2>3, NothingKeeps
  <2>5. BoundsOK'
    BY <1>1, <2>1 DEF BoundsOK, bounds
  <2>6. QED
    BY <2>2, <2>4, <2>5 DEF IInv
<1>10. QED
  BY <1>3, <1>4, <1>5, <1>6, <1>7, <1>8, <1>9 DEF Next

LEMMA Invariant == Spec => []IInv
<1>1. Init => IInv
  BY InitInv
<1>2. QED
  BY <1>1, Inductive, PTL DEF Spec

-----------------------------------------------------------------------------
(* What follows from it.                                                   *)

(* At the end of a run all that was asked for has been handled.            *)
LEMMA AllPassed ==
    ASSUME BackupInv, RestoreInv, restorePc = "done"
    PROVE  /\ Chosen = {index[i] : i \in Passed} /\ Seen = 1..pos - 1 /\ pos \in Nat \ {0}
           /\ \A i \in Seen : i \in DOMAIN index /\ index[i].type # "rest" /\ index[i].path \in Node
           /\ pos > Len(index) \/ (pos \in DOMAIN index /\ index[pos].type = "rest")
<1>1. pos \in Nat /\ pos > 0 /\ NextEntry(index, pos) = Eof
  BY DEF RestoreInv, RestoreTypeOK, PlaceInv
<1>2. Seen = 1..pos - 1
  BY DEF Seen
<1>3. \A i \in Seen : /\ i \in DOMAIN index /\ index[i].type # "rest" /\ index[i].path \in Node
                      /\ Matches(index[i].path) => index[i] \in Chosen
  <2> TAKE i \in Seen
  <2>1. i \in Nat \ {0} /\ i <= pos /\ i < pos
    BY <1>1, <1>2
  <2>2. QED
    BY <2>1, SeenIs
<1>4. \A line \in Chosen : \E i \in Passed : line = index[i]
  <2> TAKE line \in Chosen
  <2>1. PICK j \in DOMAIN index :
            line = index[j] /\ Matches(line.path) /\ \A k \in 1..j : NextEntry(index, k) \notin {Eof, Invalid}
    BY DEF Chosen, Legible, Readable
  <2>2. j \in Nat \ {0}
    BY IndexIs, LenProperties
  <2>3. pos \notin 1..j
    BY <1>1, <2>1
  <2>4. j \in Seen
    BY <1>1, <1>2, <2>2, <2>3
  <2>5. QED
    BY <2>1, <2>4 DEF Passed
<1>5. \A i \in Passed : index[i] \in Chosen
  BY <1>3 DEF Passed
<1>6. Chosen = {index[i] : i \in Passed}
  BY <1>4, <1>5
<1>7. pos > Len(index) \/ (pos \in DOMAIN index /\ index[pos].type = "rest")
  <2>1. index \in Seq(Lines) /\ pos \in Nat \ {0}
    BY <1>1, IndexIs
  <2>2. NextEntry(index, pos) = Eof => pos > Len(index) \/ (pos \in DOMAIN index /\ index[pos].type = "rest")
    BY <2>1, NextEntryIs
  <2>3. QED
    BY <1>1, <2>2
<1>8. QED
  BY <1>1, <1>2, <1>3, <1>6, <1>7

LEMMA RightHolds ==
    ASSUME BackupInv, RestoreInv
    PROVE  RestoreRight
<1> SUFFICES ASSUME Successful({"restore"}), NEW line \in Final(index), Matches(line.path)
             PROVE  Settled(line)
  BY DEF RestoreRight
<1>1. /\ restorePc = "done" /\ ~hasErrors /\ opts.mode = "restore"
      /\ restorePc \in AtWork /\ restorePc \notin InHand
  BY DEF Successful, AtWork, InHand
<1>2. PICK i \in Readable(index) :
          line = index[i] /\ \A k \in Readable(index) : k > i => index[k].path # index[i].path
  BY DEF Final
<1>3. pos \in Nat \ {0} /\ NextEntry(index, pos) = Eof /\ Seen = 1..pos - 1
  BY <1>1 DEF RestoreInv, RestoreTypeOK, PlaceInv, Seen
<1>4. \A k \in Seen : k \in Readable(index)
  <2> TAKE k \in Seen
  <2>1. k \in Nat \ {0} /\ k < pos
    BY <1>3
  <2>2. k \in DOMAIN index
    BY <1>1, AllPassed
  <2>3. \A j \in 1..pos - 1 : NextEntry(index, j) \notin {Eof, Invalid}
    BY <1>1 DEF RestoreInv, PlaceInv
  <2>4. \A j \in 1..k : j \in 1..pos - 1
    BY <1>3, <2>1
  <2>5. QED
    BY <2>2, <2>3, <2>4 DEF Readable
<1>5. i \in Passed
  <2>1. i \in DOMAIN index /\ \A k \in 1..i : NextEntry(index, k) \notin {Eof, Invalid}
    BY DEF Readable
  <2>2. i \in Nat \ {0}
    BY <2>1, IndexIs, LenProperties
  <2>3. pos \notin 1..i
    BY <1>3, <2>1
  <2>4. i \in Seen
    BY <1>3, <2>2, <2>3
  <2>5. QED
    BY <1>2, <2>4 DEF Passed
<1>6. ~Outdated(i)
  BY <1>2, <1>4 DEF Outdated, Passed
<1>7. QED
  BY <1>1, <1>2, <1>5, <1>6 DEF RestoreInv, RightInv

LEMMA StaysHolds ==
    ASSUME RestoreInv
    PROVE  ExistingStays
BY DEF RestoreInv, StayInv, Excused, ExistingStays

LEMMA PartialHolds ==
    ASSUME RestoreInv
    PROVE  PartialIsKnown
<1>1. AttributeTrue
  BY DEF RestoreInv, AttributeInv
<1>2. ASSUME Successful({"restore"}), NEW n \in Node, dest[n].data = "partial"
      PROVE  known /\ before[n].data = "partial"
  <2>1. restorePc = "done" /\ ~hasErrors /\ restorePc \in AtWork
    BY <1>2 DEF Successful, AtWork
  <2>2. QED
    BY <1>2, <2>1 DEF RestoreInv, PartialInv
<1>3. QED
  BY <1>1, <1>2 DEF PartialIsKnown

LEMMA TestHolds ==
    ASSUME BackupInv, RestoreInv
    PROVE  TestFindsDamage
<1> SUFFICES ASSUME Successful({"test", "quick"}), NEW i \in DOMAIN index
             PROVE  \/ index[i].type # "F" \/ ~Damaged(index[i].data)
                    \/ opts.mode = "quick" /\ damage.kind # "missing"
                    \/ \E j \in 1..i : index[j].type = "rest"
  BY DEF TestFindsDamage
<1>1. restorePc = "done" /\ ~hasErrors /\ opts.mode \in {"test", "quick"} /\ restorePc \in AtWork
  BY DEF Successful, AtWork
<1>2. i \in 1..Len(index) /\ Len(index) \in Nat
  BY IndexIs, LenProperties
<1>3. /\ Seen = 1..pos - 1 /\ pos \in Nat \ {0}
      /\ pos > Len(index) \/ (pos \in DOMAIN index /\ index[pos].type = "rest")
  BY <1>1, AllPassed
<1>4. CASE i < pos
  <2>1. i \in Seen
    BY <1>2, <1>3, <1>4
  <2>2. QED
    BY <1>1, <2>1 DEF RestoreInv, TestInv
<1>5. CASE ~(i < pos)
  <2>1. pos \in 1..i /\ ~(pos > Len(index))
    BY <1>2, <1>3, <1>5
  <2>2. QED
    BY <1>3, <2>1
<1>6. QED
  BY <1>4, <1>5

LEMMA StreamHolds ==
    ASSUME BackupInv, RestoreInv
    PROVE  StreamSound
<1> SUFFICES ASSUME Successful({"cpio", "shaback"})
             PROVE  /\ {output[i].path : i \in DOMAIN output} = {line.path : line \in Chosen} \cup {Root}
                    /\ output[Len(output)].path = Root
                    /\ \A i \in DOMAIN output :
                           output[i].announced = output[i].given \/ output[i].given >= UIntRange
  BY DEF StreamSound
<1>1. restorePc = "done" /\ ~hasErrors /\ opts.mode \in {"cpio", "shaback"} /\ restorePc \in AtWork
  BY DEF Successful, AtWork
<1>2. /\ {output[i].path : i \in DOMAIN output} = {index[i].path : i \in Passed} \cup {Root}
      /\ output[Len(output)].path = Root
      /\ \A i \in DOMAIN output : output[i].announced = output[i].given \/ output[i].given >= UIntRange
  BY <1>1 DEF RestoreInv, StreamInv
<1>3. Chosen = {index[i] : i \in Passed}
  BY <1>1, AllPassed
<1>4. {index[i].path : i \in Passed} = {line.path : line \in Chosen}
  BY <1>3
<1>5. QED
  BY <1>2, <1>4

(* The whole way.                                                          *)
LEMMA ComesBackHolds ==
    ASSUME BackupInv, RestoreInv
    PROVE  ComesBack
<1> SUFFICES ASSUME Undamaged, NEW n \in Node
             PROVE  LET file == dest[n]
                        wanted == {m \in {n} \cup Beneath(n) : Wanted(m)}
                    IN  /\ (file.type # "none") = (wanted # {})
                        /\ wanted # {} => file.type = source[n].type
                        /\ Wanted(n) /\ file.type = "dir" => file.mode \/ "chmod" \in opts.ignore
                        /\ Wanted(n) /\ file.type = "file" => file.data = source[n].data
                        /\ Wanted(n) /\ file.type = "link" => <<file.data>> = source[n].data
  BY DEF ComesBack
<1> DEFINE wanted == {m \in {n} \cup Beneath(n) : Wanted(m)}
<1>1. /\ restorePc = "done" /\ ~hasErrors /\ opts.mode = "restore" /\ opts.asked = {Root}
      /\ ~opts.skipExisting
      /\ damage.kind # "wrong" /\ ~backupError /\ touched = {} /\ \A m \in Node : before[m] = Absent
      /\ \A m \in Node : source[m].type = "link" => Plain(source[m].data)
  BY DEF Undamaged, Successful
<1>2. restorePc \in AtWork /\ restorePc \notin InHand /\ index = shabackup /\ backupPc = "done"
  BY <1>1 DEF AtWork, InHand, RestoreInv, IndexInv
<1>3. /\ source \in [Node -> SourceFiles] /\ IsTree(source) /\ dest \in [Node -> DestFiles]
      /\ IsTree(dest)
  BY DEF BackupInv, BackupTypeOK, RestoreInv, RestoreTypeOK
<1>4. \A m \in Node : before[m].type = "none"
  BY <1>1, AbsentHas
<1>5. \A i \in DOMAIN index : index[i].type # "rest"
  BY <1>1, <1>2 DEF BackupInv, RestInv
<1>6. \A i \in DOMAIN index : Wanted(index[i].path) /\ index[i] = LineOf(index[i].path)
  BY <1>1, <1>2, <1>5 DEF BackupInv, LinesInv
<1>7. \A m \in Node : Wanted(m) => LineOf(m) \in Range(index)
  BY <1>1, <1>2, BackupIsExact DEF BackupExact
<1>8. Passed = DOMAIN index
  <2>1. /\ Seen = 1..pos - 1 /\ pos \in Nat \ {0} /\ \A i \in Seen : i \in DOMAIN index
        /\ pos > Len(index) \/ (pos \in DOMAIN index /\ index[pos].type = "rest")
    BY <1>1, AllPassed
  <2>2. pos > Len(index)
    BY <1>5, <2>1
  <2>3. DOMAIN index = 1..Len(index) /\ Len(index) \in Nat
    BY IndexIs, LenProperties
  <2>4. DOMAIN index = Seen
    BY <2>1, <2>2, <2>3
  <2>5. \A m : Matches(m)
    BY <1>1 DEF Matches
  <2>6. QED
    BY <2>4, <2>5 DEF Passed
<1>9. \A i \in DOMAIN index : index[i] \in Lines /\ index[i].path \in Node
  <2> TAKE i \in DOMAIN index
  <2>1. index[i] \in Lines
    BY IndexIs, LenProperties, ElementOfSeq
  <2>2. QED
    BY <1>5, <2>1, LineIs
<1>10. \A i \in DOMAIN index : Restored(index[i])
  <2> TAKE i \in DOMAIN index
  <2> DEFINE m == index[i].path
  <2>1. m \in Node /\ Wanted(m) /\ index[i] = LineOf(m) /\ source[m].type \in {"dir", "file", "link"}
    BY <1>6, <1>9 DEF Wanted
  <2>2. PICK j \in Passed : index[j].path = m /\ ~Outdated(j)
    BY <1>8, LastIs
  <2>3. index[j] = index[i]
    BY <1>6, <1>8, <2>1, <2>2
  <2>4. Settled(index[i])
    BY <1>1, <1>2, <2>2, <2>3 DEF RestoreInv, RightInv
  <2>5. \A line \in Chosen : line.path \in Node /\ line = LineOf(line.path) /\ Wanted(line.path)
    BY <1>1, <1>6, <1>8, <1>9, AllPassed
  <2>6. ASSUME NEW k \in Node, LinkAt(k)
        PROVE  source[k].type = "link"
    <3>1. PICK line \in Chosen : line.type = "S" /\ line.path = k
      BY <1>4, <2>6 DEF LinkAt
    <3>2. LineOf(k).type = "S" /\ source[k].type \in {"dir", "file", "link"}
      BY <2>5, <3>1 DEF Wanted
    <3>3. QED
      BY <1>3, <2>6, <3>2, LineOfIs
  <2>7. ~WrittenThrough(index[i])
    BY <1>3, <2>1, <2>6, LineOfIs DEF WrittenThrough
  <2>8. ~LinkAbove(index[i])
    <3>1. \A k \in Above[m] : k \in Node /\ source[k].type = "dir"
      BY <1>3, <2>1, ParentOf, DirectoriesAbove
    <3>2. QED
      BY <2>6, <3>1 DEF LinkAbove
  <2>9. ~Spared(index[i])
    BY <1>1 DEF Spared
  <2>10. QED
    BY <2>4, <2>7, <2>8, <2>9 DEF Settled
<1>11. \A m \in Node : Wanted(m) =>
             LineOf(m) \in Lines /\ Restored(LineOf(m)) /\ source[m].type \in {"dir", "file", "link"}
  <2>1. SUFFICES ASSUME NEW m \in Node, Wanted(m)
                 PROVE  LineOf(m) \in Lines /\ Restored(LineOf(m)) /\ source[m].type \in {"dir", "file", "link"}
    OBVIOUS
  <2>2. PICK i \in DOMAIN index : index[i] = LineOf(m)
    BY <1>7, <2>1 DEF Range
  <2>3. source[m].type \in {"dir", "file", "link"}
    BY <2>1 DEF Wanted
  <2>4. LineOf(m) \in Lines
    BY <1>9, <2>2
  <2>5. Restored(LineOf(m))
    BY <1>10, <2>2
  <2>6. QED
    BY <2>3, <2>4, <2>5
<1>12. ASSUME NEW m \in Node, Wanted(m)
       PROVE  /\ dest[m].type = source[m].type /\ dest[m].type # "none"
              /\ dest[m].type = "dir" => dest[m].mode \/ "chmod" \in opts.ignore
              /\ dest[m].type = "file" => dest[m].data = source[m].data
              /\ dest[m].type = "link" => <<dest[m].data>> = source[m].data
  <2> DEFINE line == LineOf(m)
  <2>1. line \in Lines /\ Restored(line) /\ source[m].type \in {"dir", "file", "link"}
    BY <1>11, <1>12
  <2>2. line.path = m
    BY <1>3, <2>1, LineOfIs
  <2>3. CASE source[m].type = "dir"
    <3>1. line.type = "D"
      BY <1>3, <2>1, <2>3, LineOfIs
    <3> HIDE DEF line
    <3>2. dest[m].type = "dir" /\ (dest[m].mode \/ "chmod" \in opts.ignore)
      BY <2>1, <2>2, <3>1 DEF Restored, TypeOf
    <3>3. QED
      BY <2>3, <3>2
  <2>4. CASE source[m].type = "file"
    <3>1. line = Line("F", m, source[m].data) /\ line.type = "F"
      BY <1>3, <2>1, <2>4, LineOfIs
    <3>2. line.data = source[m].data
      BY <3>1, LineHas
    <3> HIDE DEF line
    <3>3. ParseEntry(line).data = line.data
      BY <2>1, <3>1, ParsedIs
    <3>4. dest[m].type = "file" /\ dest[m].data = source[m].data
      BY <1>1, <2>1, <2>2, <3>1, <3>2, <3>3 DEF Restored, TypeOf
    <3>5. QED
      BY <2>4, <3>4
  <2>5. CASE source[m].type = "link"
    <3>1. line = Line("S", m, Head(source[m].data)) /\ line.type = "S"
      BY <1>3, <2>1, <2>5, LineOfIs
    <3>2. line.data = Head(source[m].data)
      BY <3>1, LineHas
    <3> HIDE DEF line
    <3>3. PICK piece \in {"short", "long"} : source[m].data = <<piece>>
      BY <1>1, <2>5 DEF Plain
    <3>4. Head(source[m].data) = piece
      BY <3>3
    <3>5. line.data = piece /\ line.data # "" /\ line.data \in {"short", "long"}
      BY <3>2, <3>4
    <3>6. ParseEntry(line).data = piece
      BY <2>1, <3>1, <3>5, ParsedIs
    <3>7. dest[m].type = "link" /\ dest[m].data = piece
      BY <2>1, <2>2, <3>1, <3>6 DEF Restored, TypeOf
    <3>8. QED
      BY <2>5, <3>3, <3>7
  <2>6. QED
    BY <2>1, <2>3, <2>4, <2>5
<1>13. ASSUME NEW m \in wanted
       PROVE  dest[n].type # "none" /\ dest[n].type = source[n].type
  <2>1. Wanted(m) /\ m \in Node /\ (m = n \/ n \in Above[m])
    BY DEF Beneath
  <2>2. dest[m].type = source[m].type /\ dest[m].type # "none"
    BY <1>12, <2>1
  <2>3. CASE m = n
    BY <2>2, <2>3
  <2>4. CASE n \in Above[m]
    <3>1. dest[n].type = "dir"
      BY <1>3, <2>1, <2>2, <2>4, DirectoriesAbove
    <3>2. source[n].type = "dir"
      BY <1>3, <2>1, <2>2, <2>4, DirectoriesAbove
    <3>3. QED
      BY <3>1, <3>2
  <2>5. QED
    BY <2>1, <2>3, <2>4
<1>14. dest[n].type # "none" => wanted # {}
  <2>1. SUFFICES ASSUME dest[n].type # "none" PROVE wanted # {}
    OBVIOUS
  <2>2. PICK i \in Passed : n \in Within(index[i].path)
    BY <1>2, <1>4, <2>1 DEF RestoreInv, MadeInv
  <2> DEFINE m == index[i].path
  <2>3. Wanted(m) /\ m \in Node
    BY <1>6, <1>8, <1>9
  <2>4. m = n \/ m \in Beneath(n)
    BY <2>2, <2>3 DEF Within, Beneath
  <2>5. m \in wanted
    BY <2>3, <2>4
  <2>6. QED
    BY <2>5
<1>15. /\ (dest[n].type # "none") = (wanted # {})
       /\ wanted # {} => dest[n].type = source[n].type
  <2> HIDE DEF wanted
  <2>1. QED
    BY <1>13, <1>14
<1>16. QED
  BY <1>12, <1>15

-----------------------------------------------------------------------------
(* The theorems.                                                           *)

(* Every variable has values of its type: what is written to the index     *)
(* file are lines, and what is in the file system and in the destination   *)
(* is in directories (BackupRun.cpp:52-207, RestoreRun.cpp:47-183).        *)
THEOREM TypeCorrect == Spec => []TypeOK
<1>1. IInv => TypeOK
  BY DEF IInv, BackupInv, RestoreInv, BoundsOK, TypeOK
<1>2. QED
  BY <1>1, Invariant, PTL

(* However files change during the walk, and however the lists of          *)
(* directories, patterns and devices overlap: all that has stayed as it    *)
(* was gets into the index file if and only if it is wanted, unless errors *)
(* have been reported (BackupRun.cpp:67-90,119-160).                       *)
THEOREM BackupIsRight == Spec => []BackupExact
<1>1. IInv => BackupExact
  BY BackupIsExact DEF IInv
<1>2. QED
  BY <1>1, Invariant, PTL

(* A restore that reports no error has restored the last line of each path *)
(* that it was asked for, whatever has changed during the backup, whatever *)
(* was in the way, whatever earlier runs have left and wherever they were  *)
(* interrupted; but for what -S has made it spare, and what was written    *)
(* through a link, there or above (RestoreRun.cpp:100-183).                *)
THEOREM RestoreIsRight == Spec => []RestoreRight
<1>1. IInv => RestoreRight
  BY RightHolds DEF IInv
<1>2. QED
  BY <1>1, Invariant, PTL

(* What is in the destination and was not asked for stays at every moment  *)
(* of a run, and with -S also most of what was (RestoreRun.cpp:76-176).    *)
THEOREM NothingElseChanges == Spec => []ExistingStays
<1>1. IInv => ExistingStays
  BY StaysHolds DEF IInv
<1>2. QED
  BY <1>1, Invariant, PTL

(* The attribute of a restored file never names a content that it has not, *)
(* and a run that reports no error leaves no part of a file that no        *)
(* earlier one has told of (RestoreRun.cpp:131-155,264-267).               *)
THEOREM NoHiddenParts == Spec => []PartialIsKnown
<1>1. IInv => PartialIsKnown
  BY PartialHolds DEF IInv
<1>2. QED
  BY <1>1, Invariant, PTL

(* A test-restore without errors has seen every damaged blob of the lines  *)
(* before the first that is no entry (Repository.cpp:641-725).             *)
THEOREM TestIsThorough == Spec => []TestFindsDamage
<1>1. IInv => TestFindsDamage
  BY TestHolds DEF IInv
<1>2. QED
  BY <1>1, Invariant, PTL

(* A stream without errors has the records asked for, the trailer at its   *)
(* end, and as much after each header as it announces, but for files of    *)
(* 4 GB and more (RestoreRun.cpp:185-253).                                 *)
THEOREM StreamIsSound == Spec => []StreamSound
<1>1. IInv => StreamSound
  BY StreamHolds DEF IInv
<1>2. QED
  BY <1>1, Invariant, PTL

(* When neither the backup nor the restore has reported an error, and no   *)
(* file has changed meanwhile, what was wanted is there again as it was,   *)
(* in directories, and nothing else is                                     *)
(* (BackupRun.cpp:52-207, TreeFileEntry.cpp:30-114, RestoreRun.cpp:47-183).*)
THEOREM AllComesBack == Spec => []ComesBack
<1>1. IInv => ComesBack
  BY ComesBackHolds DEF IInv
<1>2. QED
  BY <1>1, Invariant, PTL
=============================================================================
