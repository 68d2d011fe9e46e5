----------------------------- MODULE IndexFile -----------------------------
(***************************************************************************)
(* The tree of files that is backed up and restored, and the index file    *)
(* that describes it line by line: what BackupRun writes and what          *)
(* DirectoryFileReader and TreeFileEntry make of it again.                 *)
(*                                                                         *)
(* A path is a node of a tree.  The target of a symbolic link is the       *)
(* sequence of the pieces between its newlines, each of which is ""        *)
(* (empty), "short" (too short for an entry), "long" (long enough for one, *)
(* but none) or "altered" (with a tab or a carriage return).               *)
(***************************************************************************)
EXTENDS Naturals, Sequences, FiniteSets, SequencesExt

CONSTANTS
    Node,       \* the paths
    Root,       \* the directory that the topmost ones are in
    Parent,     \* the directory of each path
    Above,      \* the directories on the way to each path
    Contents    \* what files contain

ASSUME TreeAssumption ==
    /\ IsFiniteSet(Node) /\ Root \notin Node
    /\ Parent \in [Node -> Node \cup {Root}] /\ Above \in [Node -> SUBSET Node]
    /\ \A n \in Node :
           /\ n \notin Above[n]
           /\ Above[n] = IF Parent[n] = Root THEN {} ELSE {Parent[n]} \cup Above[Parent[n]]

Within(n) == {n} \cup Above[n]
Beneath(n) == {m \in Node : n \in Above[m]}

(* What there is, is in a directory.                                       *)
IsTree(files) ==
    \A n \in Node : files[n].type # "none" /\ Parent[n] # Root => files[Parent[n]].type = "dir"

Pieces == {"", "short", "long", "altered"}

-----------------------------------------------------------------------------
(* What is written.  The lines of directories, files and links; one of a   *)
(* link goes on after each newline of the target.                          *)
Line(type, n, data) == [type |-> type, path |-> n, data |-> data]
Rest(piece) == [type |-> "rest", path |-> Root, data |-> piece]

Lines ==
    [type : {"D"}, path : Node, data : {""}] \cup [type : {"F"}, path : Node, data : Contents]
    \cup [type : {"S"}, path : Node, data : Pieces] \cup [type : {"rest"}, path : {Root}, data : Pieces]

DirectoryLine(n) == <<Line("D", n, "")>>
FileLine(n, id) == <<Line("F", n, id)>>
SymlinkLines(n, target) ==
    <<Line("S", n, Head(target))>> \o [i \in 1..Len(target) - 1 |-> Rest(target[i + 1])]

-----------------------------------------------------------------------------
(* What is read.  A line of less than ten characters is the end of the     *)
(* file, as is the end of the file; one that is no entry is an exception.  *)
Eof == [type |-> "Eof"]
Invalid == [type |-> "Invalid"]

ReadLine(lines, i) == IF i > Len(lines) THEN Rest("") ELSE lines[i]

ParseEntryCut(line) ==
    IF line.type = "rest" \/ (line.type = "S" /\ line.data = "")
    THEN Invalid
    ELSE [line EXCEPT !.data = IF line.type = "S" THEN "short" ELSE @]

ParseEntry(line) ==
    IF line.type = "rest" \/ (line.type = "S" /\ line.data = "")
    THEN Invalid
    ELSE [line EXCEPT !.data = IF line.type = "S" /\ @ = "altered" THEN "changed" ELSE @]

NextEntry(lines, i) ==
    LET line == ReadLine(lines, i)
    IN  IF line.type = "rest" /\ line.data \in {"", "short"} THEN Eof ELSE ParseEntry(line)

(* All entries that one can get before the end or an exception, and those  *)
(* that no other one for the same path comes after.                        *)
Readable(lines) == {i \in DOMAIN lines : \A k \in 1..i : NextEntry(lines, k) \notin {Eof, Invalid}}
Legible(lines) == {lines[i] : i \in Readable(lines)}
Final(lines) ==
    {lines[i] : i \in {j \in Readable(lines) :
        \A k \in Readable(lines) : k > j => lines[k].path # lines[j].path}}

(* A target that comes back as it was.                                     *)
Plain(target) == target \in {<<"short">>, <<"long">>}
=============================================================================
