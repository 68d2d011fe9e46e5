------------------------------ MODULE MCSetup -------------------------------
(***************************************************************************)
(* The instance of Setup: three processes, two root files of two writes    *)
(* each, and a home directory whose configuration names another repository.*)
(***************************************************************************)
EXTENDS Setup, TLC

MCConfigFiles ==
    [shaback |-> <<<<"repository", "other">>, <<"password", "mine">>, <<"addDir", "/home">>>>,
     repo |-> <<<<"clearDirs", "">>, <<"password", "secret">>>>,
     wrong |-> <<<<"password", "wrong">>>>,
     ignore |-> <<<<"ignoreError", "chown">>, <<"password", "wrong">>>>]
MCSystemConfig == <<"shaback">>
MCRepoLua == [other |-> "repo"]

MCLine(options, operation) == <<<<"repository", "here">>>> \o options \o <<<<"operation", operation>>>>
MCForce == <<"force", TRUE>>
MCCommandLines ==
    {MCLine(<<<<"compression", "ZStd-5">>, <<"repoFormat", "3">>>>, "init"),
     MCLine(<<<<"encryption", "Blowfish">>>>, "init"),
     MCLine(<<MCForce, <<"encryption", "AES256">>, <<"repoFormat", "3">>>>, "init"),
     MCLine(<<>>, "migrate"), MCLine(<<>>, "backup"),
     MCLine(<<<<"config", "wrong">>>>, "backup"), MCLine(<<<<"config", "ignore">>>>, "backup"),
     MCLine(<<<<"compression", "gzip">>>>, "init"), <<<<"operation", "backup">>>>}
MCSymmetry == Permutations(Procs) \cup Permutations(Roots)
=============================================================================
