-------------------------------- MODULE MemFs --------------------------------
(***************************************************************************)
(* The example file system (examples/memfs): its two maps, nodes by inode  *)
(* number and children by parent and name, and each Filesystem method it   *)
(* implements as an operator on them.                                      *)
(*                                                                         *)
(* The adapter calls it under the fs mutex, so a method is one step.  A    *)
(* method that changes the store answers [status, store], one that reads   *)
(* answers [status, ...].  Times, owners and permissions are not           *)
(* represented: no method reads them to decide anything.                   *)
(***************************************************************************)
EXTENDS Integers, Sequences, FiniteSets

CONSTANT Names  \* names of directory entries

RootIno == 1
NoName == "" \* the root's name

\* A component of a path is neither empty nor a dot or two (normalized_components).
ASSUME NamesAssumption == {NoName, ".", ".."} \cap Names = {}

Ok(s) == [status |-> "ok", store |-> s]
Fails(errno, s) == [status |-> errno, store |-> s]

With(f, x, v) == [y \in DOMAIN f \cup {x} |-> IF y = x THEN v ELSE f[y]]
Removed(f, x) == [y \in DOMAIN f \ {x} |-> f[y]]

\* new_file and new_dir.
Node(kind, parent, name) ==
  [kind |-> kind, parent |-> parent, name |-> name, data |-> << >>,
   nlink |-> IF kind = "dir" THEN 2 ELSE 1]

EmptyStore ==
  [nodes |-> [i \in {RootIno} |-> Node("dir", RootIno, NoName)], children |-> << >>,
   next |-> RootIno + 1]

\* Numbers are below the next one, and every node has its fields.
NodeFields == {"kind", "parent", "name", "data", "nlink"}
IsStore(s) ==
  /\ DOMAIN s = {"nodes", "children", "next"}
  /\ s.next \in Nat
  /\ \A i \in DOMAIN s.nodes :
       i \in Nat /\ i < s.next /\ DOMAIN s.nodes[i] = NodeFields

\* The two maps agree: what is in children exists, and knows its place.
MapsAgree(s) ==
  \A key \in DOMAIN s.children :
    LET i == s.children[key] IN
    i \in DOMAIN s.nodes /\ <<s.nodes[i].parent, s.nodes[i].name>> = key

\* What memfs starts with: a root that is no entry, and numbers from there on.
Sound(s) ==
  /\ IsStore(s) /\ MapsAgree(s)
  /\ RootIno \in DOMAIN s.nodes
  /\ s.nodes[RootIno].kind = "dir" /\ s.nodes[RootIno].name = NoName
  /\ \A i \in DOMAIN s.nodes :
       i >= RootIno /\ s.nodes[i].kind \in {"dir", "file"} /\ s.nodes[i].nlink \in Nat
  /\ DOMAIN s.children \subseteq (RootIno .. s.next - 1) \X Names
  /\ IsFiniteSet(DOMAIN s.children)

\* Every file holds bytes.
Byte == 0 .. 255
Held(s) == \A i \in DOMAIN s.nodes : s.nodes[i].data \in Seq(Byte)

Exists(s, i) == i \in DOMAIN s.nodes
IsDir(s, i) == Exists(s, i) /\ s.nodes[i].kind = "dir"
HasEntry(s, dir, name) == <<dir, name>> \in DOMAIN s.children
EntriesOf(s, dir) == {key \in DOMAIN s.children : key[1] = dir}

\* get_mut on a parent that may be gone: then nothing happens.
AddLinks(s, i, n) ==
  IF Exists(s, i) /\ s.nodes[i].nlink + n >= 0
    THEN [s EXCEPT !.nodes[i].nlink = @ + n] ELSE s

-----------------------------------------------------------------------------
(* What is there *)

\* lookup
Lookup(s, dir, name) ==
  IF HasEntry(s, dir, name) /\ Exists(s, s.children[<<dir, name>>])
    THEN [status |-> "ok", ino |-> s.children[<<dir, name>>]]
    ELSE [status |-> "ENOENT"]

\* getattr, of which the size and the kind are looked at.
GetAttr(s, i) ==
  IF Exists(s, i)
    THEN [status |-> "ok", size |-> Len(s.nodes[i].data), kind |-> s.nodes[i].kind]
    ELSE [status |-> "ENOENT"]

\* The offset of a child: "." is 1, ".." is 2, then the children by number.
Rank(s, dir, key) ==
  3 + Cardinality({k \in EntriesOf(s, dir) : s.children[k] < s.children[key]})

\* readdir: what lies after an offset.  The name sent is the one in the node,
\* a child without a node is passed over.  The reply has room for everything.
ReadDir(s, i, offset) ==
  IF ~IsDir(s, i)
    THEN [status |-> IF Exists(s, i) THEN "ENOTDIR" ELSE "ENOENT", entries |-> {}]
    ELSE [status |-> "ok",
          entries |-> {e \in
            {[name |-> ".", ino |-> i, offset |-> 1],
             [name |-> "..", ino |-> s.nodes[i].parent, offset |-> 2]}
            \cup {[name |-> s.nodes[s.children[key]].name, ino |-> s.children[key],
                   offset |-> Rank(s, i, key)] :
                    key \in {k \in EntriesOf(s, i) : Exists(s, s.children[k])}} :
            e.offset > offset}]

\* open takes any inode, opendir only a directory; neither keeps a handle.
Open(s, i) == IF Exists(s, i) THEN "ok" ELSE "ENOENT"
OpenDir(s, i) ==
  IF IsDir(s, i) THEN "ok" ELSE IF Exists(s, i) THEN "ENOTDIR" ELSE "ENOENT"

-----------------------------------------------------------------------------
(* Contents *)

Least(m, n) == IF m <= n THEN m ELSE n

\* truncate and resize
Resized(data, n) == [k \in 1 .. n |-> IF k <= Len(data) THEN data[k] ELSE 0]

\* setattr with a size, of files and directories alike.
SetSize(s, i, size) ==
  IF Exists(s, i)
    THEN Ok([s EXCEPT !.nodes[i].data = Resized(@, size)])
    ELSE Fails("ENOENT", s)

FileStatus(s, i) ==
  IF ~Exists(s, i) THEN "ENOENT" ELSE IF IsDir(s, i) THEN "EISDIR" ELSE "ok"

\* read
Read(s, i, offset, size) ==
  IF FileStatus(s, i) # "ok" THEN [status |-> FileStatus(s, i), data |-> << >>]
  ELSE LET data == s.nodes[i].data IN
       [status |-> "ok",
        data |-> SubSeq(data, offset + 1, Least(offset + size, Len(data)))]

\* Bytes at an offset, the gap before it filled with zeros.
Overwritten(data, offset, bytes) ==
  LET long == Resized(data, IF offset + Len(bytes) > Len(data)
                              THEN offset + Len(bytes) ELSE Len(data)) IN
  [k \in 1 .. Len(long) |->
     IF k - offset \in 1 .. Len(bytes) THEN bytes[k - offset] ELSE long[k]]

\* write: the file grows to the end of the write, an empty one included.
Write(s, i, offset, bytes) ==
  IF FileStatus(s, i) # "ok" THEN Fails(FileStatus(s, i), s)
  ELSE Ok([s EXCEPT !.nodes[i].data = Overwritten(@, offset, bytes)])

-----------------------------------------------------------------------------
(* Names *)

\* Mutant: an entry of that name is not looked for.
InsertAnyway(s, dir, name, kind) ==
  Ok(AddLinks([nodes |-> With(s.nodes, s.next, Node(kind, dir, name)),
               children |-> With(s.children, <<dir, name>>, s.next),
               next |-> s.next + 1],
              dir, IF kind = "dir" THEN 1 ELSE 0))

\* Mutant: numbers are counted from what is there.
InsertReusesNumbers(s, dir, name, kind) ==
  LET i == Cardinality(DOMAIN s.nodes) + 1 IN
  IF HasEntry(s, dir, name) THEN Fails("EEXIST", s)
  ELSE Ok([nodes |-> With(s.nodes, i, Node(kind, dir, name)),
           children |-> With(s.children, <<dir, name>>, i),
           next |-> i + 1])

\* insert_node, for create, mknod and mkdir.  The parent is not looked at.
InsertNode(s, dir, name, kind) ==
  IF HasEntry(s, dir, name) THEN Fails("EEXIST", s)
  ELSE Ok(AddLinks([nodes |-> With(s.nodes, s.next, Node(kind, dir, name)),
                    children |-> With(s.children, <<dir, name>>, s.next),
                    next |-> s.next + 1],
                   dir, IF kind = "dir" THEN 1 ELSE 0))

\* unlink: whatever has the name.
Unlink(s, dir, name) ==
  IF ~HasEntry(s, dir, name) THEN Fails("ENOENT", s)
  ELSE Ok([s EXCEPT !.nodes = Removed(@, s.children[<<dir, name>>]),
                    !.children = Removed(@, <<dir, name>>)])

\* Mutant: the entries of the directory are not looked for.
RmdirUnchecked(s, dir, name) ==
  LET u == Unlink(s, dir, name) IN
  IF u.status = "ok" THEN Ok(AddLinks(u.store, dir, -1)) ELSE u

\* rmdir: the entry is put back when the directory has entries.
Rmdir(s, dir, name) ==
  LET u == Unlink(s, dir, name) IN
  IF u.status # "ok" THEN u
  ELSE IF EntriesOf(u.store, s.children[<<dir, name>>]) # {}
         THEN Fails("ENOTEMPTY", s)
         ELSE Ok(AddLinks(u.store, dir, -1))

\* Mutant: the node keeps its old parent and name.
RenameKeepsNode(s, dir, name, newDir, newName) ==
  IF ~HasEntry(s, dir, name) THEN Fails("ENOENT", s)
  ELSE Ok([s EXCEPT !.children =
             With(Removed(@, <<dir, name>>), <<newDir, newName>>, s.children[<<dir, name>>])])

\* rename: the entry at the target is replaced, its node stays behind.
Rename(s, dir, name, newDir, newName) ==
  LET i == s.children[<<dir, name>>] IN
  IF ~HasEntry(s, dir, name) THEN Fails("ENOENT", s)
  ELSE Ok([s EXCEPT
         !.children = With(Removed(@, <<dir, name>>), <<newDir, newName>>, i),
         !.nodes = IF Exists(s, i)
                     THEN [@ EXCEPT ![i].parent = newDir, ![i].name = newName]
                     ELSE @])

=============================================================================
