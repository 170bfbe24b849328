--------------------------- MODULE MCMountedMemFs ---------------------------
(* Scenarios: a directory is listed while it and the one above it are      *)
(* renamed, or while its entries are made and deleted; a tree is deleted   *)
(* and moved about; a file is moved by two requests under one name, with   *)
(* another file made between them; a file is written.                      *)
EXTENDS MountedMemFs

CONSTANTS h1, h2

MCNames == {"a", "b", "d"}
AllEntries == MCNames \cup {".", ".."}
MCContents == {<< >>, <<1, 2>>}
MCSizes == {-1, 0, 1, 3}
TwoHandles == {h1, h2}
AnyHandle == Permutations(TwoHandles)
Others == {"fsname"}

Made(s, dir, name, kind) == InsertNode(s, dir, name, kind).store

\* "\d\a" has the file b.
Deep == Made(Made(Made(EmptyStore, 1, "d", "dir"), 2, "a", "dir"), 3, "b", "file")
\* "\d" has the files a and b.
Flat == Made(Made(Made(EmptyStore, 1, "d", "dir"), 2, "a", "file"), 2, "b", "file")
\* "\d" has the file a, "\b" is an empty directory.
Tree == Made(Made(Made(EmptyStore, 1, "d", "dir"), 2, "a", "file"), 1, "b", "dir")
OneFile == Made(EmptyStore, 1, "a", "file")

AnyDisposition == {"open", "create", "open_if"}

Threads(n) == [options |-> {"rw", "fsname"}, acl |-> "owner", nThreads |-> n]
\* Up to two options, one that has to do with each flag.
SmallConfigs ==
  {[options |-> {x, y, z}, acl |-> acl, nThreads |-> n] :
     x, y \in Options, z \in {"named_streams", "ro"}, acl \in {"owner", "all"}, n \in {0, 1}}

Scenario(s, configs, dispositions, kinds, paths, targets, renames, asDir, patterns) ==
  [store |-> s, configs |-> configs,
   requests |-> [dispositions |-> dispositions, kinds |-> kinds, paths |-> paths,
                 targets |-> targets, moves |-> renames, asDir |-> asDir, patterns |-> patterns]]

MCScenarios ==
  {Scenario(Deep, {Threads(Unset)}, {"open"}, {"find", "move"},
            {<<"d">>, <<"d", "a">>}, {<<"d">>, <<"b">>}, 1, {TRUE}, {MCNames}),
   Scenario(Flat, {Threads(Unset), Threads(1)}, {"open"}, {"find"},
            {<<"d">>}, {}, 0, {TRUE}, {AllEntries, {"b"}}),
   Scenario(Flat, {Threads(Unset)}, AnyDisposition, {"find", "delete"},
            {<<"d">>, <<"d", "b">>}, {}, 0, BOOLEAN, {AllEntries}),
   Scenario(Tree, {Threads(Unset)}, {"open"}, {"delete", "move"},
            {<<"d">>, <<"b">>, <<"d", "a">>}, {<<"b">>, <<"b", "a">>}, 2, BOOLEAN, {{}}),
   Scenario(Tree, {Threads(Unset)}, AnyDisposition, {"delete"},
            {<<"d">>, <<"d", "a">>, << >>}, {}, 0, BOOLEAN, {{}}),
   Scenario(OneFile, {Threads(Unset)}, {"open_if"}, {"delete", "move"},
            {<<"a">>}, {<<"b">>, <<"d">>}, 2, {FALSE}, {{}}),
   Scenario(OneFile, {Threads(Unset)}, {"open"}, {"write"}, {<<"a">>}, {}, 0, {FALSE}, {{}}),
   Scenario(EmptyStore, SmallConfigs, {}, {}, {}, {}, 0, {}, {})}

=============================================================================
