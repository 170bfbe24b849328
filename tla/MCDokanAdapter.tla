---------------------------- MODULE MCDokanAdapter ----------------------------
(* Two names in the root, of which one directory and files can take either, *)
(* and one name inside the directory.                                       *)
EXTENDS AdapterCoherence

CONSTANTS root, d, f, g, none

MCNames == {"a", "b", "c"}
SmallNames == {"a", "c"}
SmallKeys == {<<"a">>, <<"a", "c">>}
MCKeys == {Root, <<"a">>, <<"b">>, <<"a", "c">>, <<"b", "c">>}

\* A file system with the given entries, where nothing is looked up yet.
FileSystem(named) ==
  [tree |-> [at \in Dirs \X Names |->
               IF \E x \in named : x[1] = at THEN (CHOOSE x \in named : x[1] = at)[2]
                                             ELSE NoInode],
   gen |-> [i \in Inodes |-> 0], attr |-> [i \in Inodes |-> "v0"],
   nlookup |-> [i \in Inodes |-> 0]]

\* "\a" is the directory d with g inside, "\b" is the file f.
FullTree == FileSystem({<<<<root, "a">>, d>>, <<<<root, "b">>, f>>, <<<<d, "c">>, g>>})
\* "\a" is the directory d with f inside; "\b" is free.
FileInDir == FileSystem({<<<<root, "a">>, d>>, <<<<d, "c">>, f>>})
\* "\a" is the empty directory d, "\b" is the file f.
DirAndFile == FileSystem({<<<<root, "a">>, d>>, <<<<root, "b">>, f>>})
EmptyDir == FileSystem({<<<<root, "a">>, d>>})

OneTree == {EmptyDir}
NameTrees == {FullTree, FileInDir}
LifeTrees == {FileInDir, DirAndFile}
SmallTrees == {FileInDir, EmptyDir}
FewInodes == {root, d, f}
ManyInodes == {root, d, f, g}
OneDir == {root, d}
AllKinds ==
  {"getattr", "setattr", "setxattr", "access", "probe", "create", "delete", "move"}
NameKinds == {"access", "create", "delete", "move"}
LookKinds == {"access"}
MoveKinds == {"move"}
ProbeKinds == {"probe"}
OneVersion == {"v0"}
TwoVersions == {"v0", "v1"}

TwoGenerations == {0, 1}
Always == {TRUE}
Either == BOOLEAN

=============================================================================
