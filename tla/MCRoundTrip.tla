---------------------------- MODULE MCRoundTrip ----------------------------
(***************************************************************************)
(* The instance of RoundTrip: a directory d with a file, a link and a      *)
(* directory on another device, in which there is a big split file; a file *)
(* dt beside it, whose path begins like that of d; and a directory with a  *)
(* file that has an odd name and one that cannot be read.                  *)
(***************************************************************************)
EXTENDS RoundTrip, TLC

MCNode == {"d", "f", "l", "e", "g", "o", "dt", "u", "v"}
MCParent ==
    [d |-> "/", dt |-> "/", u |-> "/", f |-> "d", l |-> "d", e |-> "d", g |-> "e", v |-> "u", o |-> "u"]
MCAbove ==
    [d |-> {}, dt |-> {}, u |-> {}, f |-> {"d"}, l |-> {"d"}, e |-> {"d"}, g |-> {"d", "e"},
     v |-> {"u"}, o |-> {"u"}]
MCDevice ==
    [d |-> 1, dt |-> 1, u |-> 1, f |-> 1, l |-> 1, e |-> 2, g |-> 2, v |-> 1, o |-> 1]
MCAlike == [n \in MCNode |-> IF n = "d" THEN {"dt"} ELSE {}]

MCFile(n, target) ==
    CASE n \in {"d", "e", "u"} -> [type |-> "dir", data |-> ""]
      [] n = "l" -> [type |-> "link", data |-> target]
      [] n = "g" -> [type |-> "file", data |-> "big"]
      [] n = "dt" -> [type |-> "file", data |-> "huge"]
      [] OTHER -> [type |-> "file", data |-> "small"]
MCTree(nodes, target) ==
    [n \in MCNode |-> IF n \in nodes THEN MCFile(n, target) ELSE None]
MCConfig == [oneFileSystem |-> FALSE, exclude |-> {}, ignoreNames |-> TRUE]
MCCase(files, list, set) == [source |-> files, dirs |-> list, config |-> set]
MCOnce ==
    {MCCase(MCTree(MCNode \ {"l"}, <<>>), list, set) :
        list \in {<<"d", "dt">>, <<"e", "d">>},
        set \in {MCConfig, [MCConfig EXCEPT !.exclude = {"e"}],
                [MCConfig EXCEPT !.oneFileSystem = TRUE]}}
    \cup
    {MCCase(MCTree(MCNode, <<"long">>), <<"u", "o">>, [MCConfig EXCEPT !.ignoreNames = ignore]) :
        ignore \in BOOLEAN}
    \cup {MCCase(MCTree(MCNode, <<"long">>), <<>>, MCConfig)}
    \cup
    {MCCase(MCTree({"d", "f", "l", "dt"}, target), <<"d", "dt">>, MCConfig) :
        target \in {<<"short">>, <<"long">>, <<"altered">>, <<"long", "short">>, <<"long", "long">>, <<"", "long">>}}

(* Lists by which the walk comes to a path twice, as a file changes.       *)
MCTwice ==
    {MCCase(MCTree({"d", "l"}, <<"long">>), <<"l", "d">>, MCConfig),
     MCCase(MCTree({"dt"}, <<>>), <<"dt", "dt">>, MCConfig),
     MCCase([MCTree({}, <<>>) EXCEPT !["d"] = [type |-> "link", data |-> <<"long">>]], <<"d", "f">>, MCConfig)}
MCCases == MCOnce \cup MCTwice

MCParts ==
    [small |-> <<"small">>, big |-> <<"list", "block1", "block2">>, new |-> <<"new">>, huge |-> <<"huge">>]
MCSize == [small |-> 1, big |-> 5, new |-> 1, huge |-> 9]
MCDamages ==
    [blob : {"small", "list", "block2"}, kind : {"missing", "unreadable", "wrong"}]
MCObstacle(n, type, data) ==
    [m \in MCNode |-> IF m = n THEN DestFile(type, data)
                      ELSE IF n # "dt" /\ m = "d" THEN DestFile("dir", "") ELSE Absent]
MCObstacles ==
    {MCObstacle("d", "file", "old"), MCObstacle("d", "link", "old"), MCObstacle("dt", "dir", ""), MCObstacle("dt", "file", "old"),
     MCObstacle("dt", "link", "old"), MCObstacle("l", "file", "old"), MCObstacle("l", "dir", ""),
     MCObstacle("l", "link", "old"), MCObstacle("e", "file", "old")}

MCOptions(mode) ==
    [mode |-> mode, asked |-> {"/"}, skipExisting |-> FALSE, ignore |-> {}, root |-> TRUE]
MCAllOptions ==
    {MCOptions(mode) : mode \in Modes} \cup
    {[MCOptions("restore") EXCEPT !.skipExisting = TRUE], [MCOptions("restore") EXCEPT !.root = FALSE],
     [MCOptions("restore") EXCEPT !.asked = {"d"}, !.ignore = {"chmod"}],
     [MCOptions("restore") EXCEPT !.asked = {"e", "l"}]}
MCRestoreOptions == {[MCOptions("restore") EXCEPT !.skipExisting = skip] : skip \in BOOLEAN}
MCRevisits ==
    [list \in {case.dirs : case \in MCCases} |->
        IF list \in {case.dirs : case \in MCTwice} THEN MCRestoreOptions ELSE {}]
=============================================================================
