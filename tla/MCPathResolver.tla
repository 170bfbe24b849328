---------------------------- MODULE MCPathResolver ----------------------------
(* A two-level tree: "\a" and "\a\b", the second inside the first.  The    *)
(* inode numbers are interchangeable: no operator compares or orders them. *)
EXTENDS PathResolver, TLC

CONSTANTS i1, i2

MCNames == {"a", "b"}
MCKeys == {<<"a">>, <<"a", "b">>}
MCInodes == {i1, i2}
MCGenerations == {0}
MCAttrs == {"v1"}
Symmetry == Permutations(MCInodes)
=============================================================================
