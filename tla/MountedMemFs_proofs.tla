------------------------- MODULE MountedMemFs_proofs -------------------------
(***************************************************************************)
(* Proofs about memfs behind the adapter, and about the I/O plans: where   *)
(* the paths of the open handles lead, what a listing has delivered and    *)
(* what the plans of reads and writes cover, for any number of handles,    *)
(* any names, any contents and paths of any depth.                         *)
(***************************************************************************)
EXTENDS MountedMemFs, WellFoundedInduction, FiniteSetTheorems, TLAPS

(***************************************************************************)
(* The arithmetic of the I/O handlers, for any widths.                     *)
(***************************************************************************)

\* A range that is passed on to getlk and setlk starts where it was asked to,
\* does not end before its start, and fits both its widths (helpers.rs:267).
LEMMA LockRangeFits ==
  ASSUME NEW offset \in Offsets, NEW length \in Offsets, LockRange(offset, length).ok
  PROVE  LET range == LockRange(offset, length) IN
         /\ range.start \in Nat /\ range.end \in Nat
         /\ range.start <= range.end /\ range.end <= I64Max
         /\ range.end - range.start = length
BY WidthsAssumption DEF LockRange, Invalid, Offsets

\* What is written starts within the file or where it was asked to, a part of
\* the buffer and, when paging, nothing beyond the end of the file: a paging
\* write at the end of the file, or to its end, is an empty one
\* (operations.rs:154).
THEOREM PlanStaysWithin ==
  ASSUME NEW size \in Nat, NEW offset \in Offsets, NEW length \in Nat,
         NEW toEof \in BOOLEAN, NEW paging \in BOOLEAN,
         WritePlan(size, offset, length, toEof, paging).ok
  PROVE  LET plan == WritePlan(size, offset, length, toEof, paging) IN
         /\ plan.start \in Nat /\ plan.length \in 0 .. length
         /\ plan.start = IF toEof THEN size ELSE offset
         /\ paging /\ plan.length > 0 => plan.start + plan.length <= size
         /\ paging /\ toEof => plan.length = 0
         /\ ~paging => plan.length = length
<1> DEFINE start == IF toEof THEN size ELSE offset
           room == IF start >= size THEN 0 ELSE size - start
<1>1. toEof \/ offset >= 0
  BY DEF WritePlan, Invalid, Offsets
<1>2. start \in Nat /\ room \in Nat
  BY <1>1, WidthsAssumption DEF Offsets
<1>3. WritePlan(size, offset, length, toEof, paging)
        = [ok |-> TRUE, start |-> start,
           length |-> IF paging /\ room < length THEN room ELSE length]
  BY <1>1, WidthsAssumption DEF WritePlan, Offsets
<1>4. CASE paging
  BY <1>2, <1>3, <1>4
<1>5. CASE ~paging
  BY <1>2, <1>3, <1>5
<1> QED
  BY <1>4, <1>5

(***************************************************************************)
(* memfs: every method keeps a store in which the two maps agree.          *)
(***************************************************************************)

Good(s) == IsStore(s) /\ MapsAgree(s)

LEMMA AddLinksGood ==
  ASSUME NEW s, NEW i, NEW n \in Int, Good(s)
  PROVE  Good(AddLinks(s, i, n))
BY DEF Good, IsStore, MapsAgree, AddLinks, Exists, NodeFields

LEMMA InsertGood ==
  ASSUME NEW s, NEW dir, NEW name, NEW kind, Good(s)
  PROVE  Good(InsertNode(s, dir, name, kind).store)
<1> DEFINE n == s.next
           key == <<dir, name>>
           nodes == With(s.nodes, n, Node(kind, dir, name))
           children == With(s.children, key, n)
           t == [nodes |-> nodes, children |-> children, next |-> n + 1]
<1>1. CASE HasEntry(s, dir, name)
  BY <1>1 DEF InsertNode, Fails
<1>2. CASE ~HasEntry(s, dir, name)
  <2>1. n \in Nat /\ n \notin DOMAIN s.nodes
    BY DEF Good, IsStore
  <2>2. /\ DOMAIN nodes = DOMAIN s.nodes \cup {n}
        /\ nodes[n] = Node(kind, dir, name)
        /\ \A i \in DOMAIN s.nodes : nodes[i] = s.nodes[i]
    BY <2>1 DEF With
  <2>3. /\ DOMAIN children = DOMAIN s.children \cup {key}
        /\ children[key] = n
        /\ \A k \in DOMAIN s.children : children[k] = s.children[k]
    BY <1>2 DEF With, HasEntry
  <2>4. /\ DOMAIN Node(kind, dir, name) = NodeFields
        /\ Node(kind, dir, name).parent = dir /\ Node(kind, dir, name).name = name
    BY DEF Node, NodeFields
  <2> HIDE DEF nodes, children
  <2>5. IsStore(t)
    BY <2>1, <2>2, <2>4 DEF Good, IsStore
  <2>6. MapsAgree(t)
    BY <2>1, <2>2, <2>3, <2>4 DEF Good, MapsAgree
  <2>7. InsertNode(s, dir, name, kind) = Ok(AddLinks(t, dir, IF kind = "dir" THEN 1 ELSE 0))
    BY <1>2 DEF InsertNode, nodes, children
  <2> QED
    BY <2>5, <2>6, <2>7, AddLinksGood DEF Good, Ok
<1> QED
  BY <1>1, <1>2

LEMMA UnlinkGood ==
  ASSUME NEW s, NEW dir, NEW name, Good(s)
  PROVE  Good(Unlink(s, dir, name).store)
<1>1. CASE ~HasEntry(s, dir, name)
  BY <1>1 DEF Unlink, Fails
<1>2. CASE HasEntry(s, dir, name)
  BY <1>2 DEF Good, IsStore, MapsAgree, Unlink, HasEntry, Ok, Removed, NodeFields
<1> QED
  BY <1>1, <1>2

LEMMA RmdirGood ==
  ASSUME NEW s, NEW dir, NEW name, Good(s)
  PROVE  Good(Rmdir(s, dir, name).store)
<1> DEFINE u == Unlink(s, dir, name)
<1>1. Good(u.store)
  BY UnlinkGood
<1> HIDE DEF u
<1>2. \/ Rmdir(s, dir, name) = u
      \/ Rmdir(s, dir, name) = Fails("ENOTEMPTY", s)
      \/ Rmdir(s, dir, name) = Ok(AddLinks(u.store, dir, -1))
  BY DEF Rmdir, u
<1>3. Good(AddLinks(u.store, dir, -1))
  BY <1>1, AddLinksGood
<1> QED
  BY <1>1, <1>2, <1>3 DEF Fails, Ok

LEMMA RenameGood ==
  ASSUME NEW s, NEW dir, NEW name, NEW newDir, NEW newName, Good(s)
  PROVE  Good(Rename(s, dir, name, newDir, newName).store)
<1> DEFINE i == s.children[<<dir, name>>]
           key == <<newDir, newName>>
           children == With(Removed(s.children, <<dir, name>>), key, i)
           nodes == [s.nodes EXCEPT ![i].parent = newDir, ![i].name = newName]
           t == Rename(s, dir, name, newDir, newName).store
<1>1. CASE ~HasEntry(s, dir, name)
  BY <1>1 DEF Rename, Fails
<1>2. CASE HasEntry(s, dir, name)
  <2>1. i \in DOMAIN s.nodes /\ DOMAIN s.nodes[i] = NodeFields
    BY <1>2 DEF HasEntry, Good, MapsAgree, IsStore
  <2>2. \A k \in DOMAIN s.children : s.children[k] = i => k = <<dir, name>>
    BY <1>2 DEF HasEntry, Good, MapsAgree
  <2>3. /\ DOMAIN children = (DOMAIN s.children \ {<<dir, name>>}) \cup {key}
        /\ children[key] = i
        /\ \A k \in DOMAIN children \ {key} : k \in DOMAIN s.children /\ children[k] = s.children[k]
                                              /\ s.children[k] # i
    BY <2>2 DEF With, Removed
  <2>4. /\ DOMAIN nodes = DOMAIN s.nodes
        /\ \A n \in DOMAIN s.nodes \ {i} : nodes[n] = s.nodes[n]
        /\ DOMAIN nodes[i] = NodeFields
        /\ nodes[i].parent = newDir /\ nodes[i].name = newName
    BY <2>1 DEF NodeFields
  <2>5. DOMAIN t = DOMAIN s /\ t.next = s.next /\ t.children = children /\ t.nodes = nodes
    BY <1>2, <2>1 DEF Rename, Ok, Exists, Good, IsStore
  <2> HIDE DEF t, nodes, children
  <2>6. IsStore(t)
    BY <2>4, <2>5 DEF Good, IsStore
  <2>7. MapsAgree(t)
    BY <2>1, <2>3, <2>4, <2>5 DEF Good, MapsAgree
  <2> QED
    BY <2>6, <2>7 DEF Good, t
<1> QED
  BY <1>1, <1>2

\* A method that changes only the contents of a file.
LEMMA DataGood ==
  ASSUME NEW s, NEW i, NEW data, Good(s)
  PROVE  Good([s EXCEPT !.nodes[i].data = data])
BY DEF Good, IsStore, MapsAgree, NodeFields

LEMMA SetSizeGood ==
  ASSUME NEW s, NEW i, NEW size, Good(s)
  PROVE  Good(SetSize(s, i, size).store)
<1>1. CASE Exists(s, i)
  <2>1. SetSize(s, i, size).store = [s EXCEPT !.nodes[i].data = Resized(s.nodes[i].data, size)]
    BY <1>1 DEF SetSize, Ok
  <2> QED
    BY <2>1, DataGood
<1>2. CASE ~Exists(s, i)
  BY <1>2 DEF SetSize, Fails
<1> QED
  BY <1>1, <1>2

LEMMA WriteGood ==
  ASSUME NEW s, NEW i, NEW offset, NEW bytes, Good(s)
  PROVE  Good(Write(s, i, offset, bytes).store)
<1>1. CASE FileStatus(s, i) = "ok"
  <2>1. Write(s, i, offset, bytes).store
          = [s EXCEPT !.nodes[i].data = Overwritten(s.nodes[i].data, offset, bytes)]
    BY <1>1 DEF Write, Ok
  <2> QED
    BY <2>1, DataGood
<1>2. CASE FileStatus(s, i) # "ok"
  BY <1>2 DEF Write, Fails
<1> QED
  BY <1>1, <1>2

(***************************************************************************)
(* Every request keeps the two maps of memfs in agreement.                 *)
(***************************************************************************)

GoodStore == Good(store)

LEMMA InitGood == Init => Good(store)
BY ScenariosAssumption DEF Init, Good, Sound

LEMMA CreateFileGood ==
  ASSUME NEW h, NEW path, NEW disposition, NEW asDir, Good(store),
         CreateFile(h, path, disposition, asDir)
  PROVE  Good(store')
<1> DEFINE made == InsertNode(store, Resolve(store, Parent(path)), Leaf(path),
                              IF asDir THEN "dir" ELSE "file")
<1>1. Good(made.store)
  BY InsertGood
<1> HIDE DEF made
<1>2. store' = store \/ store' = made.store
  BY DEF CreateFile, OpenExisting, OpensAs, made
<1> QED
  BY <1>1, <1>2

LEMMA CleanupGood ==
  ASSUME NEW h, Good(store), Cleanup(h)
  PROVE  Good(store')
<1> DEFINE o == open[h]
           dir == Resolve(store, Parent(o.name))
           r == IF o.isDir THEN Rmdir(store, dir, Leaf(o.name)) ELSE Unlink(store, dir, Leaf(o.name))
<1>1. Good(r.store)
  BY RmdirGood, UnlinkGood
<1> HIDE DEF r
<1>2. store' = store \/ store' = r.store
  BY DEF Cleanup, r
<1> QED
  BY <1>1, <1>2

LEMMA MoveFileGood ==
  ASSUME NEW h, Good(store), MoveFile(h)
  PROVE  Good(store')
<1> DEFINE o == open[h]
           r == Rename(store, Resolve(store, Parent(o.name)), Leaf(o.name),
                       Resolve(store, Parent(o.target)), Leaf(o.target))
<1>1. Good(r.store)
  BY RenameGood
<1> HIDE DEF r
<1>2. store' = store \/ store' = r.store
  BY DEF MoveFile, Renamed, Fails, r
<1> QED
  BY <1>1, <1>2

LEMMA WriteFileGood ==
  ASSUME NEW h, NEW offset, NEW bytes, NEW toEof, NEW paging, Good(store),
         WriteFile(h, offset, bytes, toEof, paging)
  PROVE  Good(store')
BY WriteGood DEF WriteFile

LEMMA SetEndOfFileGood ==
  ASSUME NEW h, NEW size, Good(store), SetEndOfFile(h, size)
  PROVE  Good(store')
BY SetSizeGood DEF SetEndOfFile

LEMMA NextGood == Good(store) /\ [Next]_vars => Good(store')
<1> SUFFICES ASSUME Good(store), [Next]_vars PROVE Good(store')
  OBVIOUS
<1>1. CASE Opening
  BY <1>1, CreateFileGood DEF Opening
<1>2. CASE Listing \/ Cleaning \/ Closing
  BY <1>2 DEF Listing, Cleaning, Closing, Send
<1>3. CASE \E h \in Handles : Find(h) \/ CloseFile(h) \/ CloseFileOffset(h) \/ MoveFails(h)
  BY <1>3 DEF Find, CloseFile, CloseFileOffset, MoveFails
<1>4. CASE \E h \in Handles : Cleanup(h) \/ MoveFile(h)
  BY <1>4, CleanupGood, MoveFileGood
<1>5. CASE Deleting
  <2>1. PICK h \in Handles : Delete(h)
    BY <1>5 DEF Deleting
  <2> QED
    BY <2>1 DEF Delete
<1>6. CASE Moving
  BY <1>6 DEF Moving, SendMove
<1>7. CASE Writing
  BY <1>7, WriteFileGood DEF Writing
<1>8. CASE Resizing
  BY <1>8, SetEndOfFileGood DEF Resizing
<1>9. CASE UNCHANGED vars
  BY <1>9 DEF vars
<1> QED
  BY <1>1, <1>2, <1>3, <1>4, <1>5, <1>6, <1>7, <1>8, <1>9 DEF Next

\* The names a directory lists and the names lookup finds are the same, after
\* any requests, for any number of handles, names and files (main.rs:99, :238).
THEOREM MountedEntriesMatchNodes == Spec => []EntriesMatchNodes
<1>1. Init => GoodStore
  BY InitGood DEF GoodStore
<1>2. GoodStore /\ [Next]_vars => GoodStore'
  BY NextGood DEF GoodStore
<1>3. GoodStore => EntriesMatchNodes
  BY DEF GoodStore, Good, EntriesMatchNodes
<1> QED
  BY <1>1, <1>2, <1>3, PTL DEF Spec

(***************************************************************************)
(* The tables.  The invariant distinguishes a handle whose close_file has  *)
(* left the table of handles already from the others.                      *)
(***************************************************************************)

ContextFields ==
  {"at", "path", "name", "target", "replace", "ino", "isDir", "delete", "pattern", "seen",
   "twice", "exact", "displaced"}

Shape(o) ==
  /\ DOMAIN o = Handles
  /\ \A h \in Handles : o[h] = NotOpen \/ (DOMAIN o[h] = ContextFields /\ o[h].at # "none")

\* d differs from o at most in what the ghosts say.
SamePlaces(o, d) ==
  /\ Shape(d)
  /\ \A h \in Handles :
       d[h].at = o[h].at
       /\ (o[h].at # "none" => d[h].path = o[h].path /\ d[h].name = o[h].name)

LEMMA AloneKeepsPlaces ==
  ASSUME NEW o, Shape(o)
  PROVE  SamePlaces(o, Alone(o))
BY DEF Shape, SamePlaces, Alone, Live, NotOpen, ContextFields

LEMMA DisturbedKeepsPlaces ==
  ASSUME NEW o, NEW s, NEW t, Shape(o)
  PROVE  SamePlaces(o, Disturbed(o, s, t))
BY DEF Shape, SamePlaces, Disturbed, Live, NotOpen, ContextFields

LEMMA SamePlacesTransitive ==
  ASSUME NEW o, NEW d, NEW e, SamePlaces(o, d), SamePlaces(d, e)
  PROVE  SamePlaces(o, e)
BY DEF SamePlaces

PathsOf(o, hs) == {o[h].path : h \in hs}
Listed(o) == {h \in Live(o) : o[h].at # "unlisted"}

Covered(o, table, offsets) ==
  /\ table \subseteq PathsOf(o, Listed(o))
  /\ offsets \subseteq PathsOf(o, Live(o))

LEMMA SamePlacesCovered ==
  ASSUME NEW o, NEW d, NEW table, NEW offsets, SamePlaces(o, d), Covered(o, table, offsets)
  PROVE  Covered(d, table, offsets)
BY DEF SamePlaces, Covered, PathsOf, Listed, Live

TablesInv ==
  /\ Shape(open)
  /\ ~overtaken => Covered(open, handles, DOMAIN dirOffsets)

LEMMA InitTables == Init => TablesInv
BY DEF Init, TablesInv, Shape, Covered, NotOpen

LEMMA CreateFileTables ==
  ASSUME NEW h \in Handles, NEW path, NEW disposition, NEW asDir, TablesInv,
         CreateFile(h, path, disposition, asDir)
  PROVE  TablesInv'
<1>1. PICK p, i, isDir, pattern, s :
        /\ open' = Alone(Disturbed([open EXCEPT ![h] = Opened(p, i, isDir, pattern)], store, s))
        /\ handles' = handles \cup {p}
  BY DEF CreateFile, OpenExisting, OpensAs
<1>2. open[h] = NotOpen /\ dirOffsets' = dirOffsets /\ overtaken' = overtaken
  BY DEF CreateFile
<1> DEFINE c == Opened(p, i, isDir, pattern)
           o == [open EXCEPT ![h] = c]
<1>3. DOMAIN c = ContextFields /\ c.at = "idle" /\ c.path = p
  BY DEF Opened, ContextFields
<1> HIDE DEF c
<1>4. /\ Shape(o) /\ o[h] = c
      /\ \A g \in Handles \ {h} : o[g] = open[g]
  BY <1>3 DEF TablesInv, Shape
<1> HIDE DEF o
<1>5. SamePlaces(o, open')
  <2>1. SamePlaces(o, Disturbed(o, store, s))
    BY <1>4, DisturbedKeepsPlaces
  <2>2. SamePlaces(Disturbed(o, store, s), Alone(Disturbed(o, store, s)))
    BY <2>1, AloneKeepsPlaces DEF SamePlaces
  <2>3. open' = Alone(Disturbed(o, store, s))
    BY <1>1 DEF o, c
  <2> QED
    BY <2>1, <2>2, <2>3, SamePlacesTransitive
<1>6. ASSUME ~overtaken PROVE Covered(o, handles', DOMAIN dirOffsets)
  BY <1>1, <1>2, <1>3, <1>4, <1>6 DEF TablesInv, Covered, PathsOf, Listed, Live, NotOpen
<1> QED
  BY <1>2, <1>5, <1>6, SamePlacesCovered DEF TablesInv, SamePlaces

LEMMA SendTables ==
  ASSUME NEW h \in Handles, NEW request, NEW from, TablesInv,
         request \notin {"none", "unlisted"}, from \notin {"none", "unlisted"},
         Send(h, request, from)
  PROVE  TablesInv'
<1> DEFINE o == [open EXCEPT ![h].at = request, ![h].name = open[h].path]
<1>1. open[h].at = from /\ DOMAIN open[h] = ContextFields
  BY DEF Send, TablesInv, Shape, NotOpen
<1>2. /\ Shape(o) /\ o[h].at = request /\ o[h].path = open[h].path
      /\ \A g \in Handles \ {h} : o[g] = open[g]
  BY <1>1 DEF TablesInv, Shape, ContextFields
<1>3. open' = Alone(o) /\ UNCHANGED <<handles, dirOffsets, overtaken>>
  BY DEF Send
<1> HIDE DEF o
<1>4. SamePlaces(o, open')
  BY <1>2, <1>3, AloneKeepsPlaces
<1>5. ASSUME ~overtaken PROVE Covered(o, handles, DOMAIN dirOffsets)
  BY <1>1, <1>2, <1>5 DEF TablesInv, Covered, PathsOf, Listed, Live
<1> QED
  BY <1>3, <1>4, <1>5, SamePlacesCovered DEF TablesInv, SamePlaces

\* A request that leaves the place of every handle, and handles and paths.
LEMMA PlacesTables ==
  ASSUME TablesInv, SamePlaces(open, open'), UNCHANGED <<handles, dirOffsets>>,
         ~overtaken' => ~overtaken
  PROVE  TablesInv'
BY SamePlacesCovered DEF TablesInv, SamePlaces

LEMMA FindTables ==
  ASSUME NEW h \in Handles, TablesInv, Find(h)
  PROVE  TablesInv'
<1> DEFINE o == open[h]
           from == Offset(dirOffsets, o.name)
           reply == ReadDir(store, o.ino, from)
           matching == {e \in reply.entries : e.name \in o.pattern}
           sent(until) == {e \in matching : e.offset <= until}
           names(until) == {e.name : e \in sent(until)}
<1>1. PICK until \in {0} \cup {e.offset : e \in matching} :
        /\ dirOffsets' = With(dirOffsets, o.name, NextOffset(reply.entries, sent(until), from))
        /\ open' = [open EXCEPT ![h].at = "idle", ![h].seen = @ \cup names(until),
                      ![h].twice = @ \/ names(until) \cap o.seen # {},
                      ![h].exact = @ /\ o.name = o.path]
  BY Zenon DEF Find
<1>7. o.at = "find" /\ handles' = handles
  BY Zenon DEF Find
<1> HIDE DEF from, reply, matching, sent, names
<1>2. open[h].at = "find" /\ DOMAIN open[h] = ContextFields /\ handles' = handles
  BY <1>7 DEF TablesInv, Shape, NotOpen
<1>3. overtaken' = (overtaken \/ open[h].name # open[h].path)
  BY DEF Find, Overtakes
<1>4. /\ Shape(open') /\ open'[h].at = "idle" /\ open'[h].path = open[h].path
      /\ \A g \in Handles \ {h} : open'[g] = open[g]
  BY <1>1, <1>2 DEF TablesInv, Shape, ContextFields
<1>5. DOMAIN dirOffsets' = DOMAIN dirOffsets \cup {open[h].name}
  BY <1>1 DEF With
<1>6. ASSUME ~overtaken, open[h].name = open[h].path
      PROVE  Covered(open', handles, DOMAIN dirOffsets')
  BY <1>2, <1>4, <1>5, <1>6 DEF TablesInv, Covered, PathsOf, Listed, Live
<1> QED
  BY <1>2, <1>3, <1>4, <1>6 DEF TablesInv

LEMMA CloseFileTables ==
  ASSUME NEW h \in Handles, TablesInv, CloseFile(h)
  PROVE  TablesInv'
<1>1. /\ open[h].at = "close" /\ handles' = handles \ {open[h].name}
      /\ open' = [open EXCEPT ![h].at = "unlisted"] /\ dirOffsets' = dirOffsets
      /\ overtaken' = (overtaken \/ open[h].name # open[h].path)
  BY DEF CloseFile, Overtakes
<1>2. DOMAIN open[h] = ContextFields
  BY <1>1 DEF TablesInv, Shape, NotOpen
<1>3. /\ Shape(open') /\ open'[h].at = "unlisted" /\ open'[h].path = open[h].path
      /\ \A g \in Handles \ {h} : open'[g] = open[g]
  BY <1>1, <1>2 DEF TablesInv, Shape, ContextFields
<1>4. ASSUME ~overtaken, open[h].name = open[h].path
      PROVE  Covered(open', handles', DOMAIN dirOffsets)
  BY <1>1, <1>3, <1>4 DEF TablesInv, Covered, PathsOf, Listed, Live
<1> QED
  BY <1>1, <1>3, <1>4 DEF TablesInv

LEMMA CloseFileOffsetTables ==
  ASSUME NEW h \in Handles, TablesInv, CloseFileOffset(h)
  PROVE  TablesInv'
<1>1. /\ open[h].at = "unlisted" /\ dirOffsets' = Removed(dirOffsets, open[h].name)
      /\ open' = [open EXCEPT ![h] = NotOpen] /\ handles' = handles
      /\ overtaken' = (overtaken \/ open[h].name # open[h].path)
  BY DEF CloseFileOffset, Overtakes
<1>2. /\ Shape(open') /\ open'[h] = NotOpen
      /\ \A g \in Handles \ {h} : open'[g] = open[g]
  BY <1>1 DEF TablesInv, Shape
<1>3. DOMAIN dirOffsets' = DOMAIN dirOffsets \ {open[h].name}
  BY <1>1 DEF Removed
<1>4. ASSUME ~overtaken, open[h].name = open[h].path
      PROVE  Covered(open', handles, DOMAIN dirOffsets')
  BY <1>1, <1>2, <1>3, <1>4 DEF TablesInv, Covered, PathsOf, Listed, Live, NotOpen
<1> QED
  BY <1>1, <1>2, <1>4 DEF TablesInv

LEMMA CleanupTables ==
  ASSUME NEW h \in Handles, TablesInv, Cleanup(h)
  PROVE  TablesInv'
<1> DEFINE o == [open EXCEPT ![h].at = "cleaned"]
           dir == Resolve(store, Parent(open[h].name))
           r == IF open[h].isDir THEN Rmdir(store, dir, Leaf(open[h].name))
                                 ELSE Unlink(store, dir, Leaf(open[h].name))
           s == IF open[h].delete /\ dir # NoIno THEN r.store ELSE store
           gone == DOMAIN store.nodes \ DOMAIN s.nodes
           d == Disturbed(o, store, s)
<1>1. open' = [g \in Handles |-> IF g \in Live(d) /\ gone # {} /\ AtOrBelow(open[h].name, d[g].path)
                                    THEN [d[g] EXCEPT !.displaced = TRUE] ELSE d[g]]
  BY Zenon DEF Cleanup
<1> HIDE DEF s, gone
<1>2. /\ open[h].at = "cleanup" /\ UNCHANGED <<handles, dirOffsets>>
      /\ overtaken' = (overtaken \/ open[h].name # open[h].path)
  BY DEF Cleanup, Overtakes
<1>3. DOMAIN open[h] = ContextFields
  BY <1>2 DEF TablesInv, Shape, NotOpen
<1>4. /\ Shape(o) /\ o[h].at = "cleaned" /\ o[h].path = open[h].path
      /\ \A g \in Handles \ {h} : o[g] = open[g]
  BY <1>3 DEF TablesInv, Shape, ContextFields
<1> HIDE DEF o
<1>5. SamePlaces(o, Disturbed(o, store, s))
  BY <1>4, DisturbedKeepsPlaces
<1>6. SamePlaces(Disturbed(o, store, s), open')
  BY <1>1, <1>5 DEF SamePlaces, Shape, Live, NotOpen, ContextFields
<1>7. SamePlaces(o, open')
  BY <1>5, <1>6, SamePlacesTransitive
<1>8. ASSUME ~overtaken PROVE Covered(o, handles, DOMAIN dirOffsets)
  BY <1>2, <1>4, <1>8 DEF TablesInv, Covered, PathsOf, Listed, Live
<1> QED
  BY <1>2, <1>7, <1>8, SamePlacesCovered DEF TablesInv, SamePlaces

LEMMA DeleteTables ==
  ASSUME NEW h \in Handles, TablesInv, Delete(h)
  PROVE  TablesInv'
<1>1. open[h].at = "idle" /\ open' = [open EXCEPT ![h].delete = TRUE]
  BY DEF Delete
<1>2. DOMAIN open[h] = ContextFields
  BY <1>1 DEF TablesInv, Shape, NotOpen
<1>3. SamePlaces(open, open')
  BY <1>1, <1>2 DEF TablesInv, SamePlaces, Shape, ContextFields
<1> QED
  BY <1>3, PlacesTables DEF Delete

LEMMA SendMoveTables ==
  ASSUME NEW h \in Handles, NEW new, NEW replace, TablesInv, SendMove(h, new, replace)
  PROVE  TablesInv'
<1> DEFINE o == [open EXCEPT ![h].at = "move", ![h].name = open[h].path,
                             ![h].target = new, ![h].replace = replace]
<1>1. open[h].at = "idle" /\ DOMAIN open[h] = ContextFields
  BY DEF SendMove, TablesInv, Shape, NotOpen
<1>2. /\ Shape(o) /\ o[h].at = "move" /\ o[h].path = open[h].path
      /\ \A g \in Handles \ {h} : o[g] = open[g]
  BY <1>1 DEF TablesInv, Shape, ContextFields
<1>3. open' = Alone(o) /\ UNCHANGED <<handles, dirOffsets, overtaken>>
  BY DEF SendMove
<1> HIDE DEF o
<1>4. SamePlaces(o, open')
  BY <1>2, <1>3, AloneKeepsPlaces
<1>5. ASSUME ~overtaken PROVE Covered(o, handles, DOMAIN dirOffsets)
  BY <1>1, <1>2, <1>5 DEF TablesInv, Covered, PathsOf, Listed, Live
<1> QED
  BY <1>3, <1>4, <1>5, SamePlacesCovered DEF TablesInv, SamePlaces

LEMMA MoveFailsTables ==
  ASSUME NEW h \in Handles, TablesInv, MoveFails(h)
  PROVE  TablesInv'
<1>1. /\ open[h].at = "move" /\ open' = [open EXCEPT ![h].at = "idle"]
      /\ UNCHANGED <<handles, dirOffsets, overtaken>>
  BY DEF MoveFails
<1>2. DOMAIN open[h] = ContextFields
  BY <1>1 DEF TablesInv, Shape, NotOpen
<1>3. /\ Shape(open') /\ open'[h].at = "idle" /\ open'[h].path = open[h].path
      /\ \A g \in Handles \ {h} : open'[g] = open[g]
  BY <1>1, <1>2 DEF TablesInv, Shape, ContextFields
<1>4. ASSUME ~overtaken PROVE Covered(open', handles, DOMAIN dirOffsets)
  BY <1>1, <1>3, <1>4 DEF TablesInv, Covered, PathsOf, Listed, Live
<1> QED
  BY <1>1, <1>3, <1>4 DEF TablesInv

LEMMA MoveFileTables ==
  ASSUME NEW h \in Handles, TablesInv, MoveFile(h)
  PROVE  TablesInv'
<1> DEFINE old == open[h].name
           current == open[h].path
           new == open[h].target
           to(p) == NewPath(current, new, p)
           t == Renamed(open[h]).store
           now == [open EXCEPT ![h].at = "idle"]
           d == Disturbed(now, store, t)
           o == AfterMove(d, old, current, new)
<1>1. open' = Alone(o)
  BY Zenon DEF MoveFile
<1>2. /\ handles' = {NewPath(old, new, p) : p \in handles}
      /\ overtaken' = (overtaken \/ old # current)
      /\ open[h].at = "move"
  BY Zenon DEF MoveFile, Overtakes
<1>3. DOMAIN dirOffsets' = {NewPath(old, new, p) : p \in DOMAIN dirOffsets}
  <2>1. dirOffsets' = Remap(dirOffsets, old, new)
    BY Zenon DEF MoveFile
  <2> QED
    BY <2>1 DEF Remap
<1>4. /\ Shape(now) /\ now[h].at = "idle" /\ now[h].path = open[h].path
      /\ \A g \in Handles \ {h} : now[g] = open[g]
  <2>1. DOMAIN open[h] = ContextFields
    BY <1>2 DEF TablesInv, Shape, NotOpen
  <2> QED
    BY <2>1 DEF TablesInv, Shape, ContextFields
<1> HIDE DEF t, to, now
<1>5. SamePlaces(now, d)
  BY <1>4, DisturbedKeepsPlaces
<1> HIDE DEF d
<1>6. ASSUME NEW g \in Handles
      PROVE  /\ o[g].at = now[g].at
             /\ o[g].at # "none" => o[g].path = to(now[g].path)
             /\ o[g] = NotOpen \/ (DOMAIN o[g] = ContextFields /\ o[g].at # "none")
  <2>1. CASE g \in Live(d)
    <3>1. DOMAIN d[g] = ContextFields /\ d[g].path = now[g].path /\ d[g].at = now[g].at
      BY <1>5, <2>1 DEF SamePlaces, Shape, Live, NotOpen
    <3> DEFINE e == d[g].exact /\ (to(d[g].path) # d[g].path => to(d[g].path) \notin DOMAIN dirOffsets)
               l == d[g].displaced \/ Displaces(old, new, d[g].path) \/ Mistakes(old, current, d[g].path)
    <3>2. o[g] = [d[g] EXCEPT !.path = to(d[g].path), !.exact = e, !.displaced = l]
      BY <2>1 DEF AfterMove, to
    <3> HIDE DEF e, l, o
    <3> QED
      BY <2>1, <3>1, <3>2 DEF ContextFields, Live
  <2>2. CASE g \notin Live(d)
    BY <1>5, <2>2 DEF SamePlaces, Shape, Live, NotOpen, AfterMove
  <2> QED
    BY <2>1, <2>2
<1>7. Shape(o)
  BY <1>6 DEF Shape, AfterMove
<1> HIDE DEF o
<1>8. SamePlaces(o, open')
  BY <1>1, <1>7, AloneKeepsPlaces
<1>9. ASSUME ~overtaken, old = current PROVE Covered(o, handles', DOMAIN dirOffsets')
  <2>1. Live(o) = Live(open) /\ Listed(o) = Listed(open)
    BY <1>2, <1>4, <1>6 DEF Live, Listed
  <2>2. \A g \in Live(open) : o[g].path = to(open[g].path)
    BY <1>4, <1>6, <2>1 DEF Live
  <2>3. handles \subseteq PathsOf(open, Listed(open)) /\ DOMAIN dirOffsets \subseteq PathsOf(open, Live(open))
    BY <1>9 DEF TablesInv, Covered
  <2>4. \A p : NewPath(old, new, p) = to(p)
    BY <1>9 DEF to
  <2>5. Listed(open) \subseteq Live(open)
    BY DEF Listed
  <2> HIDE DEF old, current, new
  <2>6. handles' \subseteq PathsOf(o, Listed(o))
    BY <1>2, <2>1, <2>2, <2>3, <2>4, <2>5 DEF PathsOf
  <2>7. DOMAIN dirOffsets' \subseteq PathsOf(o, Live(o))
    BY <1>3, <2>1, <2>2, <2>3, <2>4 DEF PathsOf
  <2> QED
    BY <2>6, <2>7 DEF Covered
<1> QED
  BY <1>2, <1>8, <1>9, SamePlacesCovered DEF TablesInv, SamePlaces

LEMMA NextTables == TablesInv /\ [Next]_vars => TablesInv'
<1> SUFFICES ASSUME TablesInv, [Next]_vars PROVE TablesInv'
  OBVIOUS
<1> DEFINE Kept == open' = open /\ handles' = handles /\ dirOffsets' = dirOffsets
                   /\ overtaken' = overtaken
<1>1. Kept => TablesInv'
  BY DEF TablesInv
<1>2. CASE Opening
  BY <1>2, CreateFileTables DEF Opening
<1>3. CASE Listing \/ Cleaning \/ Closing
  BY <1>3, SendTables DEF Listing, Cleaning, Closing
<1>4. ASSUME NEW h \in Handles,
             Find(h) \/ Cleanup(h) \/ CloseFile(h) \/ CloseFileOffset(h) \/ MoveFile(h) \/ MoveFails(h)
      PROVE  TablesInv'
  BY <1>4, FindTables, CleanupTables, CloseFileTables, CloseFileOffsetTables, MoveFileTables,
     MoveFailsTables
<1>5. CASE Deleting
  BY <1>5, DeleteTables DEF Deleting
<1>6. CASE Moving
  BY <1>6, SendMoveTables DEF Moving
<1>7. CASE Writing
  <2>1. PICK h \in Handles, offset \in Sizes, bytes \in Contents, toEof \in BOOLEAN,
             paging \in BOOLEAN : WriteFile(h, offset, bytes, toEof, paging)
    BY <1>7 DEF Writing
  <2>2. Kept
    BY <2>1 DEF WriteFile
  <2> QED
    BY <1>1, <2>2
<1>8. CASE Resizing
  <2>1. PICK h \in Handles, size \in Sizes : SetEndOfFile(h, size)
    BY <1>8 DEF Resizing
  <2>2. Kept
    BY <2>1 DEF SetEndOfFile
  <2> QED
    BY <1>1, <2>2
<1>9. CASE UNCHANGED vars
  BY <1>1, <1>9 DEF vars
<1> QED
  BY <1>2, <1>3, <1>4, <1>5, <1>6, <1>7, <1>8, <1>9 DEF Next

\* As long as no request ran under a name its file no longer had, the tables
\* hold only paths of open handles: a listing starts at its beginning
\* (dispatch.rs:213), with any number of handles and of renames.
THEOREM MountedTablesHaveHandles == Spec => []TablesHaveHandles
<1>1. Init => TablesInv
  BY InitTables
<1>2. TablesInv /\ [Next]_vars => TablesInv'
  BY NextTables
<1>3. TablesInv => TablesHaveHandles
  BY DEF TablesInv, TablesHaveHandles, Covered, PathsOf, Listed, Live
<1> QED
  BY <1>1, <1>2, <1>3, PTL DEF Spec

(***************************************************************************)
(* Paging.                                                                 *)
(***************************************************************************)

LEMMA ResizedLength ==
  ASSUME NEW data, NEW n \in Nat
  PROVE  Len(Resized(data, n)) = n
<1> DEFINE r == Resized(data, n)
           S == {r[k] : k \in 1 .. n}
<1>1. DOMAIN r = 1 .. n
  BY DEF Resized
<1>2. r \in [1 .. n -> S]
  BY DEF Resized
<1>3. r \in Seq(S)
  BY <1>2
<1> HIDE DEF r, S
<1> QED
  BY <1>1, <1>3 DEF r

LEMMA OverwrittenLength ==
  ASSUME NEW data, NEW bytes, NEW offset \in Nat, Len(data) \in Nat, Len(bytes) \in Nat
  PROVE  Len(Overwritten(data, offset, bytes))
           = IF offset + Len(bytes) > Len(data) THEN offset + Len(bytes) ELSE Len(data)
<1> DEFINE n == IF offset + Len(bytes) > Len(data) THEN offset + Len(bytes) ELSE Len(data)
           long == Resized(data, n)
           r == [k \in 1 .. Len(long) |->
                   IF k - offset \in 1 .. Len(bytes) THEN bytes[k - offset] ELSE long[k]]
           S == {r[k] : k \in 1 .. n}
<1>1. n \in Nat
  OBVIOUS
<1> HIDE DEF n
<1>2. Len(long) = n
  BY <1>1, ResizedLength
<1> HIDE DEF long
<1>3. DOMAIN r = 1 .. n /\ r \in [1 .. n -> S]
  BY <1>2
<1> HIDE DEF S
<1>4. r \in Seq(S)
  BY <1>1, <1>3
<1> HIDE DEF r
<1>5. Len(r) = n
  BY <1>1, <1>3, <1>4
<1> QED
  BY <1>5 DEF Overwritten, r, long, n

\* A paging write that starts within the file, or one to its end, leaves the
\* size of a memfs file alone, whatever is in the file and in the buffer: the
\* plan of the adapter (operations.rs:179) and the growing write of memfs
\* (main.rs:285) fit together.
THEOREM PagingKeepsSize ==
  ASSUME NEW Bytes, NEW data \in Seq(Bytes), NEW bytes \in Seq(Bytes),
         NEW offset \in Offsets, NEW toEof \in BOOLEAN,
         toEof \/ offset <= Len(data),
         WritePlan(Len(data), offset, Len(bytes), toEof, TRUE).ok
  PROVE  LET plan == WritePlan(Len(data), offset, Len(bytes), toEof, TRUE) IN
         Len(Overwritten(data, plan.start, SubSeq(bytes, 1, plan.length))) = Len(data)
<1> DEFINE plan == WritePlan(Len(data), offset, Len(bytes), toEof, TRUE)
           part == SubSeq(bytes, 1, plan.length)
<1>1. Len(data) \in Nat /\ Len(bytes) \in Nat
  OBVIOUS
<1>2. /\ plan.start \in Nat /\ plan.length \in 0 .. Len(bytes)
      /\ plan.start = IF toEof THEN Len(data) ELSE offset
      /\ plan.length > 0 => plan.start + plan.length <= Len(data)
  <2> DEFINE size == Len(data)
             length == Len(bytes)
             paging == TRUE
  <2>1. size \in Nat /\ length \in Nat /\ paging \in BOOLEAN
    BY <1>1
  <2>2. WritePlan(size, offset, length, toEof, paging).ok
    OBVIOUS
  <2> HIDE DEF size, length, paging
  <2>3. LET p == WritePlan(size, offset, length, toEof, paging) IN
        /\ p.start \in Nat /\ p.length \in 0 .. length
        /\ p.start = IF toEof THEN size ELSE offset
        /\ paging /\ p.length > 0 => p.start + p.length <= size
        /\ paging /\ toEof => p.length = 0
        /\ ~paging => p.length = length
    BY <2>1, <2>2, PlanStaysWithin
  <2> QED
    BY <2>3 DEF size, length, paging
<1> HIDE DEF plan
<1>3. Len(part) = plan.length
  BY <1>1, <1>2
<1> HIDE DEF part
<1>4. plan.start + Len(part) <= Len(data)
  BY <1>1, <1>2, <1>3 DEF Offsets
<1>5. Len(part) \in Nat
  BY <1>2, <1>3
<1>6. Len(Overwritten(data, plan.start, part)) = Len(data)
  BY <1>1, <1>2, <1>4, <1>5, OverwrittenLength
<1> QED
  BY <1>6 DEF plan, part

(***************************************************************************)
(* Induction over the naturals, in a form without operators.               *)
(***************************************************************************)

Less == {p \in Nat \X Nat : p[1] < p[2]}

\* The order of the natural numbers, as a relation, is well-founded.
LEMMA LessIsWellFounded == IsWellFoundedOn(Less, Nat)
BY NatLessThanWellFounded DEF OpToRel, Less

\* What has 0 and with a number the next one has them all.
LEMMA SetInduction ==
  ASSUME NEW S, 0 \in S, \A n \in Nat : n \in S => n + 1 \in S
  PROVE  Nat \subseteq S
<1> SUFFICES ASSUME ~(Nat \subseteq S) PROVE FALSE
  OBVIOUS
<1> DEFINE T == {n \in Nat : n \notin S}
<1>1. T \subseteq Nat /\ T # {}
  OBVIOUS
<1>2. PICK x \in T : \A y \in T : <<y, x>> \notin Less
  <2> HIDE DEF T
  <2> QED
    BY <1>1, LessIsWellFounded, WFMin
<1>3. x # 0 /\ x - 1 \in Nat
  BY <1>2
<1>4. x - 1 \in S
  <2>1. <<x - 1, x>> \in Less
    BY <1>2, <1>3 DEF Less
  <2> QED
    BY <1>2, <1>3, <2>1
<1> QED
  BY <1>2, <1>3, <1>4

(***************************************************************************)
(* Where a path leads: by its last component, from where the others lead.  *)
(***************************************************************************)

StepIn(s, i, name) ==
  IF Lookup(s, i, name).status = "ok" THEN Lookup(s, i, name).ino ELSE NoIno

\* The inodes a path leads through, up to its component m.
IsWalk(w, s, path, m) ==
  w = [n \in 0 .. m |-> IF n = 0 THEN RootIno ELSE StepIn(s, w[n - 1], path[n])]

LEMMA WalksAre ==
  ASSUME NEW w, NEW s, NEW path, NEW m \in Nat, IsWalk(w, s, path, m)
  PROVE  w[0] = RootIno /\ \A n \in 1 .. m : w[n] = StepIn(s, w[n - 1], path[n])
<1>1. 0 \in 0 .. m /\ \A n \in 1 .. m : n \in 0 .. m /\ n # 0
  OBVIOUS
<1>2. \A n \in 0 .. m : w[n] = IF n = 0 THEN RootIno ELSE StepIn(s, w[n - 1], path[n])
  BY DEF IsWalk
<1> QED
  BY <1>1, <1>2

\* A path of any length has its walk.
LEMMA WalksExist ==
  ASSUME NEW s, NEW path
  PROVE  \A m \in Nat : \E w : IsWalk(w, s, path, m)
<1> DEFINE S == {m \in Nat : \E w : IsWalk(w, s, path, m)}
<1>1. 0 \in S
  <2>1. IsWalk([n \in 0 .. 0 |-> RootIno], s, path, 0)
    BY DEF IsWalk
  <2> QED
    BY <2>1
<1>2. ASSUME NEW m \in Nat, m \in S PROVE m + 1 \in S
  <2>1. PICK w : IsWalk(w, s, path, m)
    BY <1>2
  <2> DEFINE last == StepIn(s, w[m], path[m + 1])
             more == [n \in 0 .. m + 1 |-> IF n = m + 1 THEN last ELSE w[n]]
  <2>2. w[0] = RootIno /\ \A n \in 1 .. m : w[n] = StepIn(s, w[n - 1], path[n])
    BY <2>1, WalksAre
  <2>3. ASSUME NEW n \in 0 .. m + 1
        PROVE  more[n] = IF n = 0 THEN RootIno ELSE StepIn(s, more[n - 1], path[n])
    <3>1. CASE n = m + 1
      BY <3>1
    <3>2. CASE n = 0
      BY <2>2, <3>2
    <3>3. CASE n # m + 1 /\ n # 0
      <4>1. n \in 1 .. m /\ n - 1 \in 0 .. m + 1 /\ n - 1 # m + 1
        BY <3>3
      <4>2. more[n] = w[n] /\ more[n - 1] = w[n - 1]
        BY <3>3, <4>1
      <4> QED
        BY <2>2, <3>3, <4>1, <4>2
    <3> QED
      BY <3>1, <3>2, <3>3
  <2>4. more = [n \in 0 .. m + 1 |-> more[n]]
    OBVIOUS
  <2> HIDE DEF more
  <2>5. IsWalk(more, s, path, m + 1)
    BY <2>3, <2>4 DEF IsWalk
  <2> QED
    BY <2>5
<1> HIDE DEF S
<1>3. Nat \subseteq S
  BY <1>1, <1>2, SetInduction
<1> QED
  BY <1>3 DEF S

LEMMA ResolveIsLast ==
  ASSUME NEW s, NEW path, Len(path) \in Nat
  PROVE  \E w : IsWalk(w, s, path, Len(path)) /\ Resolve(s, path) = w[Len(path)]
<1>1. PICK w : IsWalk(w, s, path, Len(path))
  BY WalksExist
<1> DEFINE walk == CHOOSE v : IsWalk(v, s, path, Len(path))
<1>2. IsWalk(walk, s, path, Len(path))
  BY <1>1
<1>3. Resolve(s, path) = walk[Len(path)]
  BY DEF Resolve, IsWalk, StepIn
<1> QED
  BY <1>2, <1>3

(***************************************************************************)
(* Sequences of names.                                                     *)
(***************************************************************************)

LEMMA PathsAre ==
  ASSUME NEW p
  PROVE  p \in Paths <=> p \in Seq(Names) /\ Len(p) <= MaxDepth
<1>1. ASSUME p \in Paths PROVE p \in Seq(Names) /\ Len(p) <= MaxDepth
  <2>1. PICK n \in 0 .. MaxDepth : p \in [1 .. n -> Names]
    BY <1>1 DEF Paths
  <2>2. n \in Nat /\ n <= MaxDepth
    BY ScenariosAssumption
  <2> QED
    BY <2>1, <2>2
<1>2. ASSUME p \in Seq(Names), Len(p) <= MaxDepth PROVE p \in Paths
  <2>1. Len(p) \in 0 .. MaxDepth /\ p \in [1 .. Len(p) -> Names]
    BY <1>2, ScenariosAssumption
  <2> QED
    BY <2>1 DEF Paths
<1> QED
  BY <1>1, <1>2

\* Two sequences of names of the same length and with the same names are equal.
LEMMA SeqEqual ==
  ASSUME NEW p \in Seq(Names), NEW q \in Seq(Names), Len(p) = Len(q),
         \A n \in 1 .. Len(p) : p[n] = q[n]
  PROVE  p = q
<1>1. p = [n \in 1 .. Len(p) |-> p[n]] /\ q = [n \in 1 .. Len(q) |-> q[n]]
  OBVIOUS
<1> QED
  BY <1>1

\* The first components of a path.
LEMMA PrefixFacts ==
  ASSUME NEW p \in Seq(Names), NEW n \in 0 .. Len(p)
  PROVE  /\ SubSeq(p, 1, n) \in Seq(Names)
         /\ Len(SubSeq(p, 1, n)) = n
         /\ \A j \in 1 .. n : SubSeq(p, 1, n)[j] = p[j]
<1>1. Len(p) \in Nat /\ \A j \in 1 .. Len(p) : p[j] \in Names
  OBVIOUS
<1>2. \A j \in 1 .. n : p[j] \in Names
  BY <1>1
<1>3. SubSeq(p, 1, n) = [j \in 1 .. n |-> p[j]]
  BY <1>1, <1>2
<1>4. SubSeq(p, 1, n) \in Seq(Names) /\ Len(SubSeq(p, 1, n)) = n
  BY <1>2, <1>3
<1> QED
  BY <1>3, <1>4

LEMMA Parents ==
  ASSUME NEW p \in Seq(Names), p # << >>
  PROVE  /\ Len(p) \in Nat \ {0} /\ Leaf(p) = p[Len(p)] /\ Leaf(p) \in Names
         /\ Parent(p) \in Seq(Names) /\ Len(Parent(p)) = Len(p) - 1
         /\ \A j \in 1 .. Len(p) - 1 : Parent(p)[j] = p[j]
<1>1. Len(p) \in Nat \ {0} /\ p[Len(p)] \in Names
  OBVIOUS
<1>2. Len(p) - 1 \in 0 .. Len(p)
  BY <1>1
<1> QED
  BY <1>1, <1>2, PrefixFacts DEF Parent, Leaf

\* Two paths with the same parent and the same last component are the same.
LEMMA ParentLeafEqual ==
  ASSUME NEW p \in Seq(Names), NEW q \in Seq(Names), p # << >>, q # << >>,
         Parent(p) = Parent(q), Leaf(p) = Leaf(q)
  PROVE  p = q
<1>1. Len(p) = Len(q)
  BY Parents
<1>2. ASSUME NEW n \in 1 .. Len(p) PROVE p[n] = q[n]
  <2>1. CASE n = Len(p)
    BY <1>1, <2>1, Parents
  <2>2. CASE n # Len(p)
    <3>1. n \in 1 .. Len(p) - 1 /\ n \in 1 .. Len(q) - 1
      BY <1>1, <2>2, Parents
    <3> QED
      BY <3>1, Parents
  <2> QED
    BY <2>1, <2>2
<1> QED
  BY <1>1, <1>2, SeqEqual

\* A path that goes on from another, n components of what follows.
LEMMA Continued ==
  ASSUME NEW a \in Seq(Names), NEW b \in Seq(Names), NEW n \in 0 .. Len(b)
  PROVE  /\ a \o SubSeq(b, 1, n) \in Seq(Names)
         /\ Len(a \o SubSeq(b, 1, n)) = Len(a) + n
         /\ \A j \in 1 .. Len(a) : (a \o SubSeq(b, 1, n))[j] = a[j]
         /\ \A j \in 1 .. n : (a \o SubSeq(b, 1, n))[Len(a) + j] = b[j]
<1> DEFINE c == SubSeq(b, 1, n)
<1>1. c \in Seq(Names) /\ Len(c) = n /\ \A j \in 1 .. n : c[j] = b[j]
  BY PrefixFacts
<1> HIDE DEF c
<1>2. /\ a \o c \in Seq(Names) /\ Len(a \o c) = Len(a) + Len(c)
      /\ \A j \in 1 .. Len(a) : (a \o c)[j] = a[j]
      /\ \A j \in 1 .. Len(c) : (a \o c)[Len(a) + j] = c[j]
  BY <1>1
<1> QED
  BY <1>1, <1>2 DEF c

LEMMA ContinuedWhole ==
  ASSUME NEW a \in Seq(Names), NEW b \in Seq(Names)
  PROVE  a \o SubSeq(b, 1, Len(b)) = a \o b /\ a \o SubSeq(b, 1, 0) = a
<1>1. Len(b) \in 0 .. Len(b) /\ 0 \in 0 .. Len(b)
  OBVIOUS
<1>2. SubSeq(b, 1, Len(b)) = b
  BY <1>1, PrefixFacts, SeqEqual
<1>3. a \o SubSeq(b, 1, 0) = a
  BY <1>1, Continued, SeqEqual
<1> QED
  BY <1>2, <1>3

LEMMA ContinuedParent ==
  ASSUME NEW a \in Seq(Names), NEW b \in Seq(Names), NEW n \in 1 .. Len(b)
  PROVE  /\ a \o SubSeq(b, 1, n) # << >>
         /\ Parent(a \o SubSeq(b, 1, n)) = a \o SubSeq(b, 1, n - 1)
         /\ Leaf(a \o SubSeq(b, 1, n)) = b[n]
<1> DEFINE p == a \o SubSeq(b, 1, n)
           q == a \o SubSeq(b, 1, n - 1)
<1>1. n \in 0 .. Len(b) /\ n - 1 \in 0 .. Len(b) /\ Len(a) \in Nat
  OBVIOUS
<1>2. /\ p \in Seq(Names) /\ Len(p) = Len(a) + n
      /\ \A j \in 1 .. Len(a) : p[j] = a[j]
      /\ \A j \in 1 .. n : p[Len(a) + j] = b[j]
  BY <1>1, Continued
<1>3. /\ q \in Seq(Names) /\ Len(q) = Len(a) + (n - 1)
      /\ \A j \in 1 .. Len(a) : q[j] = a[j]
      /\ \A j \in 1 .. n - 1 : q[Len(a) + j] = b[j]
  BY <1>1, Continued
<1> HIDE DEF p, q
<1>4. p # << >>
  BY <1>1, <1>2
<1>5. Leaf(p) = b[n]
  <2>1. Leaf(p) = p[Len(a) + n]
    BY <1>2, <1>4, Parents
  <2> QED
    BY <1>2, <2>1
<1>6. Parent(p) \in Seq(Names) /\ Len(Parent(p)) = Len(q)
      /\ \A j \in 1 .. Len(q) : Parent(p)[j] = p[j]
  <2>1. Len(p) - 1 = Len(q)
    BY <1>1, <1>2, <1>3
  <2> QED
    BY <1>2, <1>4, <2>1, Parents
<1>7. ASSUME NEW j \in 1 .. Len(q) PROVE q[j] = p[j]
  <2>1. CASE j \in 1 .. Len(a)
    BY <1>2, <1>3, <2>1
  <2>2. CASE j \notin 1 .. Len(a)
    <3>1. j - Len(a) \in 1 .. n - 1 /\ j - Len(a) \in 1 .. n /\ j = Len(a) + (j - Len(a))
      BY <1>1, <1>3, <2>2
    <3> QED
      BY <1>2, <1>3, <3>1
  <2> QED
    BY <2>1, <2>2
<1>8. Parent(p) = q
  BY <1>3, <1>6, <1>7, SeqEqual
<1> QED
  BY <1>4, <1>5, <1>8 DEF p, q

(***************************************************************************)
(* Resolve, component by component.                                        *)
(***************************************************************************)

\* Two paths that begin alike lead through the same inodes.
LEMMA WalksAgree ==
  ASSUME NEW s, NEW p, NEW q, NEW m \in Nat, NEW k \in Nat, k <= m,
         \A n \in 1 .. k : p[n] = q[n],
         NEW v, IsWalk(v, s, p, m), NEW w, IsWalk(w, s, q, k)
  PROVE  v[k] = w[k]
<1> DEFINE S == {n \in Nat : n <= k => v[n] = w[n]}
<1>1. 0 \in S
  BY WalksAre
<1>2. ASSUME NEW n \in Nat, n \in S PROVE n + 1 \in S
  <2> SUFFICES ASSUME n + 1 <= k PROVE v[n + 1] = w[n + 1]
    OBVIOUS
  <2>1. n + 1 \in 1 .. k /\ n + 1 \in 1 .. m /\ n <= k /\ (n + 1) - 1 = n
    OBVIOUS
  <2>2. v[n] = w[n]
    BY <1>2, <2>1
  <2>3. v[n + 1] = StepIn(s, v[n], p[n + 1]) /\ w[n + 1] = StepIn(s, w[n], q[n + 1])
    BY <2>1, WalksAre
  <2> QED
    BY <2>1, <2>2, <2>3
<1> HIDE DEF S
<1>3. k \in S
  BY <1>1, <1>2, SetInduction
<1> QED
  BY <1>3 DEF S

LEMMA ResolveRoot ==
  ASSUME NEW s
  PROVE  Resolve(s, << >>) = RootIno
<1>1. PICK w : IsWalk(w, s, << >>, 0) /\ Resolve(s, << >>) = w[0]
  BY ResolveIsLast
<1> QED
  BY <1>1, WalksAre

LEMMA ResolveChild ==
  ASSUME NEW s, NEW p \in Seq(Names), p # << >>
  PROVE  Resolve(s, p) = StepIn(s, Resolve(s, Parent(p)), Leaf(p))
<1> DEFINE m == Len(p)
           k == Len(p) - 1
           q == Parent(p)
<1>1. m \in Nat /\ k \in Nat /\ k <= m /\ m \in 1 .. m /\ m - 1 = k
  BY Parents
<1>2. Len(q) = k /\ \A n \in 1 .. k : p[n] = q[n]
  BY Parents
<1>3. p[m] = Leaf(p)
  BY Parents
<1>4. PICK v : IsWalk(v, s, p, m) /\ Resolve(s, p) = v[m]
  BY <1>1, ResolveIsLast
<1>5. PICK w : IsWalk(w, s, q, k) /\ Resolve(s, q) = w[k]
  BY <1>1, <1>2, ResolveIsLast
<1> HIDE DEF m, k, q
<1>6. v[k] = w[k]
  BY <1>1, <1>2, <1>4, <1>5, WalksAgree
<1>7. v[m] = StepIn(s, v[k], p[m])
  BY <1>1, <1>4, WalksAre
<1> QED
  BY <1>3, <1>4, <1>5, <1>6, <1>7 DEF q

\* The same for a path that goes on from another.
LEMMA ResolveContinued ==
  ASSUME NEW s, NEW a \in Seq(Names), NEW b \in Seq(Names), NEW n \in 1 .. Len(b)
  PROVE  Resolve(s, a \o SubSeq(b, 1, n))
           = StepIn(s, Resolve(s, a \o SubSeq(b, 1, n - 1)), b[n])
<1> DEFINE p == a \o SubSeq(b, 1, n)
           q == a \o SubSeq(b, 1, n - 1)
<1>1. p \in Seq(Names)
  BY Continued
<1>2. p # << >> /\ Parent(p) = q /\ Leaf(p) = b[n]
  BY ContinuedParent
<1> HIDE DEF p, q
<1>3. Resolve(s, p) = StepIn(s, Resolve(s, q), b[n])
  BY <1>1, <1>2, ResolveChild
<1> QED
  BY <1>3 DEF p, q

\* What a step finds is a node that knows where it was found, not the root.
LEMMA StepsFindNodes ==
  ASSUME NEW s, NEW i, NEW name, NEW j, Sound(s), j = StepIn(s, i, name), j # NoIno
  PROVE  /\ HasEntry(s, i, name) /\ s.children[<<i, name>>] = j
         /\ Exists(s, j) /\ s.nodes[j].parent = i /\ s.nodes[j].name = name
         /\ j # RootIno /\ i # NoIno
<1>1. HasEntry(s, i, name) /\ j = s.children[<<i, name>>]
  BY DEF StepIn, Lookup
<1>2. i \in RootIno .. s.next - 1 /\ name \in Names
  BY <1>1 DEF Sound, HasEntry
<1>3. i # NoIno
  BY <1>2 DEF Sound, IsStore, NoIno, RootIno
<1>4. Exists(s, j) /\ s.nodes[j].parent = i /\ s.nodes[j].name = name
  BY <1>1 DEF Sound, MapsAgree, HasEntry, Exists
<1> QED
  BY <1>1, <1>2, <1>3, <1>4, NamesAssumption DEF Sound

\* An entry is found, whatever it is.
LEMMA EntriesAreFound ==
  ASSUME NEW s, NEW i, NEW name, Sound(s), HasEntry(s, i, name)
  PROVE  StepIn(s, i, name) = s.children[<<i, name>>] /\ StepIn(s, i, name) # NoIno
BY DEF Sound, MapsAgree, HasEntry, Exists, StepIn, Lookup, NoIno, RootIno

LEMMA RootExists ==
  ASSUME NEW s, Sound(s)
  PROVE  Exists(s, RootIno) /\ ~Exists(s, NoIno) /\ RootIno # NoIno
BY DEF Sound, Exists, NoIno, RootIno

\* What a path leads to is an entry of what its parent leads to.
LEMMA ResolveFinds ==
  ASSUME NEW s, NEW p \in Seq(Names), p # << >>, Sound(s), Resolve(s, p) # NoIno,
         NEW i, i = Resolve(s, Parent(p)), NEW j, j = Resolve(s, p)
  PROVE  /\ HasEntry(s, i, Leaf(p)) /\ s.children[<<i, Leaf(p)>>] = j
         /\ Exists(s, j) /\ s.nodes[j].parent = i /\ s.nodes[j].name = Leaf(p)
         /\ j # RootIno /\ i # NoIno
<1> DEFINE n == Leaf(p)
<1>1. j = StepIn(s, i, n) /\ j # NoIno
  BY ResolveChild
<1> HIDE DEF n
<1>2. /\ HasEntry(s, i, n) /\ s.children[<<i, n>>] = j
      /\ Exists(s, j) /\ s.nodes[j].parent = i /\ s.nodes[j].name = n
      /\ j # RootIno /\ i # NoIno
  BY <1>1, StepsFindNodes
<1> QED
  BY <1>2 DEF n

LEMMA ResolveNames ==
  ASSUME NEW s, NEW p \in Seq(Names), p # << >>, Sound(s), Resolve(s, p) # NoIno
  PROVE  /\ s.nodes[Resolve(s, p)].parent = Resolve(s, Parent(p))
         /\ s.nodes[Resolve(s, p)].name = Leaf(p) /\ Resolve(s, Parent(p)) # NoIno
<1> DEFINE i == Resolve(s, Parent(p))
           j == Resolve(s, p)
           n == Leaf(p)
<1>1. j = StepIn(s, i, n) /\ j # NoIno
  BY ResolveChild
<1> HIDE DEF i, j, n
<1>2. /\ HasEntry(s, i, n) /\ s.children[<<i, n>>] = j
      /\ Exists(s, j) /\ s.nodes[j].parent = i /\ s.nodes[j].name = n
      /\ j # RootIno /\ i # NoIno
  BY <1>1, StepsFindNodes
<1> QED
  BY <1>2 DEF i, j, n

LEMMA ResolveType ==
  ASSUME NEW s, NEW p \in Seq(Names), Sound(s), Resolve(s, p) # NoIno
  PROVE  Exists(s, Resolve(s, p))
<1>1. CASE p = << >>
  BY <1>1, ResolveRoot, RootExists
<1>2. CASE p # << >>
  BY <1>2, ResolveFinds
<1> QED
  BY <1>1, <1>2

\* A file has one path: its node knows the directory it is in.
LEMMA ResolveUnique ==
  ASSUME NEW s, Sound(s), NEW p \in Seq(Names), NEW q \in Seq(Names),
         Resolve(s, p) = Resolve(s, q), Resolve(s, p) # NoIno
  PROVE  p = q
<1> DEFINE S == {m \in Nat : \A a, b \in Seq(Names) :
                   Len(a) = m /\ Resolve(s, a) = Resolve(s, b) /\ Resolve(s, a) # NoIno => a = b}
<1>1. \A a \in Seq(Names) : a # << >> /\ Resolve(s, a) # NoIno => Resolve(s, a) # RootIno
  <2> SUFFICES ASSUME NEW a \in Seq(Names), a # << >>, Resolve(s, a) # NoIno
               PROVE  Resolve(s, a) # RootIno
    OBVIOUS
  <2> QED
    BY ResolveFinds
<1>2. 0 \in S
  <2> SUFFICES ASSUME NEW a \in Seq(Names), NEW b \in Seq(Names), Len(a) = 0,
                      Resolve(s, a) = Resolve(s, b), Resolve(s, a) # NoIno
               PROVE  a = b
    OBVIOUS
  <2>1. a = << >>
    OBVIOUS
  <2> QED
    BY <1>1, <2>1, ResolveRoot
<1>3. ASSUME NEW m \in Nat, m \in S PROVE m + 1 \in S
  <2> SUFFICES ASSUME NEW a \in Seq(Names), NEW b \in Seq(Names), Len(a) = m + 1,
                      Resolve(s, a) = Resolve(s, b), Resolve(s, a) # NoIno
               PROVE  a = b
    OBVIOUS
  <2>1. a # << >>
    OBVIOUS
  <2>2. b # << >>
    BY <1>1, <2>1, ResolveRoot
  <2>3. /\ s.nodes[Resolve(s, a)].parent = Resolve(s, Parent(a))
        /\ s.nodes[Resolve(s, a)].name = Leaf(a) /\ Resolve(s, Parent(a)) # NoIno
    BY <2>1, ResolveNames
  <2>7. Resolve(s, b) # NoIno
    OBVIOUS
  <2>4. /\ s.nodes[Resolve(s, b)].parent = Resolve(s, Parent(b))
        /\ s.nodes[Resolve(s, b)].name = Leaf(b)
    BY <2>2, <2>7, ResolveNames
  <2>5. Parent(a) \in Seq(Names) /\ Parent(b) \in Seq(Names) /\ Len(Parent(a)) = m
    BY <2>1, <2>2, Parents
  <2>6. Parent(a) = Parent(b)
    BY <1>3, <2>3, <2>4, <2>5
  <2> QED
    BY <2>1, <2>2, <2>3, <2>4, <2>6, ParentLeafEqual
<1>4. Len(p) \in Nat
  OBVIOUS
<1>5. Len(p) \in S
  <2> HIDE DEF S
  <2> QED
    BY <1>2, <1>3, <1>4, SetInduction
<1> QED
  BY <1>5

\* What lies above something is there as well.
LEMMA ResolveAbove ==
  ASSUME NEW s, Sound(s), NEW a \in Seq(Names), NEW b \in Seq(Names),
         Resolve(s, a \o b) # NoIno
  PROVE  \A n \in 0 .. Len(b) : Resolve(s, a \o SubSeq(b, 1, n)) # NoIno
<1> DEFINE at(n) == Resolve(s, a \o SubSeq(b, 1, n))
           S == {m \in Nat : m <= Len(b) => at(Len(b) - m) # NoIno}
<1>1. Len(b) \in Nat
  OBVIOUS
<1>2. at(Len(b)) # NoIno
  BY ContinuedWhole
<1>3. \A n \in 1 .. Len(b) : at(n) # NoIno => at(n - 1) # NoIno
  <2> SUFFICES ASSUME NEW n \in 1 .. Len(b), at(n) # NoIno PROVE at(n - 1) # NoIno
    OBVIOUS
  <2>1. n \in 0 .. Len(b)
    OBVIOUS
  <2>2. at(n) = StepIn(s, at(n - 1), b[n])
    BY <2>1, ResolveContinued
  <2> DEFINE i == at(n - 1)
             j == at(n)
             name == b[n]
  <2>3. j = StepIn(s, i, name) /\ j # NoIno
    BY <2>2
  <2> HIDE DEF at, i, j, name
  <2>4. i # NoIno
    BY <2>3, StepsFindNodes
  <2> QED
    BY <2>4 DEF i
<1> HIDE DEF at
<1>4. 0 \in S
  BY <1>1, <1>2
<1>5. ASSUME NEW m \in Nat, m \in S PROVE m + 1 \in S
  <2> SUFFICES ASSUME m + 1 <= Len(b) PROVE at(Len(b) - (m + 1)) # NoIno
    OBVIOUS
  <2>1. Len(b) - m \in 1 .. Len(b) /\ (Len(b) - m) - 1 = Len(b) - (m + 1) /\ m <= Len(b)
    BY <1>1
  <2> QED
    BY <1>3, <1>5, <2>1
<1>6. Nat \subseteq S
  <2> HIDE DEF S
  <2> QED
    BY <1>4, <1>5, SetInduction
<1>7. ASSUME NEW n \in 0 .. Len(b) PROVE at(n) # NoIno
  <2>1. Len(b) - n \in Nat /\ Len(b) - n <= Len(b) /\ Len(b) - (Len(b) - n) = n
    BY <1>1
  <2> QED
    BY <1>6, <2>1
<1> QED
  BY <1>7 DEF at

\* What is followed step by step in another store leads to the same inode.
LEMMA Carried ==
  ASSUME NEW s, NEW t, NEW a \in Seq(Names), NEW c \in Seq(Names), NEW b \in Seq(Names),
         Resolve(t, c) = Resolve(s, a),
         \A n \in 1 .. Len(b) :
           StepIn(t, Resolve(s, a \o SubSeq(b, 1, n - 1)), b[n])
             = StepIn(s, Resolve(s, a \o SubSeq(b, 1, n - 1)), b[n])
  PROVE  Resolve(t, c \o b) = Resolve(s, a \o b)
<1> DEFINE in(n) == Resolve(s, a \o SubSeq(b, 1, n))
           out(n) == Resolve(t, c \o SubSeq(b, 1, n))
           S == {m \in Nat : m <= Len(b) => out(m) = in(m)}
<1>1. Len(b) \in Nat
  OBVIOUS
<1>2. 0 \in S
  BY ContinuedWhole
<1>3. ASSUME NEW n \in 1 .. Len(b)
      PROVE  in(n) = StepIn(s, in(n - 1), b[n]) /\ out(n) = StepIn(t, out(n - 1), b[n])
  <2>1. n \in 0 .. Len(b)
    OBVIOUS
  <2>2. in(n) = StepIn(s, in(n - 1), b[n])
    BY <2>1, ResolveContinued
  <2>3. out(n) = StepIn(t, out(n - 1), b[n])
    BY <2>1, ResolveContinued
  <2> QED
    BY <2>2, <2>3
<1>4. \A n \in 1 .. Len(b) : StepIn(t, in(n - 1), b[n]) = StepIn(s, in(n - 1), b[n])
  OBVIOUS
<1>5. in(Len(b)) = Resolve(s, a \o b) /\ out(Len(b)) = Resolve(t, c \o b)
  BY ContinuedWhole
<1> HIDE DEF in, out
<1>6. ASSUME NEW m \in Nat, m \in S PROVE m + 1 \in S
  <2> SUFFICES ASSUME m + 1 <= Len(b) PROVE out(m + 1) = in(m + 1)
    OBVIOUS
  <2>1. m + 1 \in 1 .. Len(b) /\ (m + 1) - 1 = m /\ m <= Len(b)
    BY <1>1
  <2>2. out(m) = in(m)
    BY <1>6, <2>1
  <2>3. in(m + 1) = StepIn(s, in(m), b[m + 1]) /\ out(m + 1) = StepIn(t, out(m), b[m + 1])
    BY <1>3, <2>1
  <2>4. StepIn(t, in(m), b[m + 1]) = StepIn(s, in(m), b[m + 1])
    BY <1>4, <2>1
  <2> QED
    BY <2>2, <2>3, <2>4
<1>7. Len(b) \in S
  <2> HIDE DEF S
  <2> QED
    BY <1>1, <1>2, <1>6, SetInduction
<1> QED
  BY <1>1, <1>5, <1>7

(***************************************************************************)
(* What each method of memfs does to entries and nodes.                    *)
(***************************************************************************)

Rooted(s) ==
  /\ RootIno \in DOMAIN s.nodes
  /\ s.nodes[RootIno].kind = "dir" /\ s.nodes[RootIno].name = NoName
  /\ \A i \in DOMAIN s.nodes :
       i >= RootIno /\ s.nodes[i].kind \in {"dir", "file"} /\ s.nodes[i].nlink \in Nat
  /\ DOMAIN s.children \subseteq (RootIno .. s.next - 1) \X Names
  /\ IsFiniteSet(DOMAIN s.children)

LEMMA SoundIs == ASSUME NEW s PROVE Sound(s) <=> Good(s) /\ Rooted(s)
BY DEF Sound, Good, Rooted

SamePlace(m, n) == m.kind = n.kind /\ m.parent = n.parent /\ m.name = n.name

\* t differs from s at most in contents and link counts.
SameTree(s, t) ==
  /\ t.children = s.children /\ t.next = s.next
  /\ DOMAIN t.nodes = DOMAIN s.nodes
  /\ \A i \in DOMAIN s.nodes : SamePlace(t.nodes[i], s.nodes[i])

\* In t there is a new node, the entry key.
Inserts(s, t, key, kind) ==
  /\ t.next = s.next + 1
  /\ key \notin DOMAIN s.children /\ DOMAIN t.children = DOMAIN s.children \cup {key}
  /\ t.children[key] = s.next
  /\ \A k \in DOMAIN s.children : t.children[k] = s.children[k]
  /\ DOMAIN t.nodes = DOMAIN s.nodes \cup {s.next}
  /\ t.nodes[s.next].kind = kind
  /\ \A i \in DOMAIN s.nodes : SamePlace(t.nodes[i], s.nodes[i])

\* In t the entry key and its node are gone.
Removes(s, t, key) ==
  /\ t.next = s.next
  /\ key \in DOMAIN s.children /\ DOMAIN t.children = DOMAIN s.children \ {key}
  /\ \A k \in DOMAIN t.children : t.children[k] = s.children[k]
  /\ DOMAIN t.nodes = DOMAIN s.nodes \ {s.children[key]}
  /\ \A i \in DOMAIN t.nodes : SamePlace(t.nodes[i], s.nodes[i])

\* In t what was the entry key is the entry new.
Renames(s, t, key, new) ==
  /\ t.next = s.next
  /\ key \in DOMAIN s.children
  /\ DOMAIN t.children = (DOMAIN s.children \ {key}) \cup {new}
  /\ t.children[new] = s.children[key]
  /\ \A k \in DOMAIN t.children \ {new} : t.children[k] = s.children[k]
  /\ DOMAIN t.nodes = DOMAIN s.nodes
  /\ \A i \in DOMAIN s.nodes : t.nodes[i].kind = s.nodes[i].kind
  /\ \A i \in DOMAIN s.nodes \ {s.children[key]} : SamePlace(t.nodes[i], s.nodes[i])

LEMMA AddLinksIs ==
  ASSUME NEW s, NEW i, NEW n \in Int, Sound(s)
  PROVE  Sound(AddLinks(s, i, n)) /\ SameTree(s, AddLinks(s, i, n))
<1> DEFINE t == AddLinks(s, i, n)
<1>1. Good(t)
  BY AddLinksGood, SoundIs
<1>2. SameTree(s, t) /\ Rooted(t)
  <2>1. CASE ~(Exists(s, i) /\ s.nodes[i].nlink + n >= 0)
    BY <2>1, SoundIs DEF AddLinks, SameTree, SamePlace
  <2>2. CASE Exists(s, i) /\ s.nodes[i].nlink + n >= 0
    <3>1. /\ DOMAIN s.nodes[i] = NodeFields /\ DOMAIN s = {"nodes", "children", "next"}
          /\ s.nodes[i].nlink \in Nat
      BY <2>2 DEF Sound, IsStore, Exists
    <3>2. t = [s EXCEPT !.nodes[i].nlink = s.nodes[i].nlink + n]
      BY <2>2 DEF AddLinks
    <3>3. /\ t.children = s.children /\ t.next = s.next /\ DOMAIN t.nodes = DOMAIN s.nodes
          /\ \A j \in DOMAIN s.nodes \ {i} : t.nodes[j] = s.nodes[j]
          /\ SamePlace(t.nodes[i], s.nodes[i]) /\ t.nodes[i].nlink = s.nodes[i].nlink + n
      BY <2>2, <3>1, <3>2 DEF Exists, NodeFields, SamePlace
    <3>4. t.nodes[i].nlink \in Nat
      BY <2>2, <3>1, <3>3
    <3> HIDE DEF t
    <3>5. SameTree(s, t)
      BY <3>3 DEF SameTree, SamePlace
    <3>6. Rooted(t)
      BY <3>3, <3>4, SoundIs DEF Rooted, SamePlace
    <3> QED
      BY <3>5, <3>6
  <2> QED
    BY <2>1, <2>2
<1> QED
  BY <1>1, <1>2, SoundIs

LEMMA SameTreeThrough ==
  ASSUME NEW s, NEW t, NEW u, SameTree(t, u)
  PROVE  /\ \A key, kind : Inserts(s, t, key, kind) => Inserts(s, u, key, kind)
         /\ \A key : Removes(s, t, key) => Removes(s, u, key)
<1>1. ASSUME NEW key, NEW kind, Inserts(s, t, key, kind) PROVE Inserts(s, u, key, kind)
  BY <1>1 DEF SameTree, Inserts, SamePlace
<1>2. ASSUME NEW key, Removes(s, t, key) PROVE Removes(s, u, key)
  BY <1>2 DEF SameTree, Removes, SamePlace
<1> QED
  BY <1>1, <1>2

LEMMA InsertIs ==
  ASSUME NEW s, NEW dir \in RootIno .. s.next - 1, NEW name \in Names,
         NEW kind \in {"dir", "file"}, Sound(s), ~HasEntry(s, dir, name)
  PROVE  LET t == InsertNode(s, dir, name, kind).store IN
         Sound(t) /\ Inserts(s, t, <<dir, name>>, kind)
<1> DEFINE n == s.next
           key == <<dir, name>>
           nodes == With(s.nodes, n, Node(kind, dir, name))
           children == With(s.children, key, n)
           t == [nodes |-> nodes, children |-> children, next |-> n + 1]
           u == InsertNode(s, dir, name, kind).store
           links == IF kind = "dir" THEN 1 ELSE 0
<1>1. n \in Nat /\ n \notin DOMAIN s.nodes /\ n > RootIno
  BY DEF Sound, IsStore, RootIno
<1>2. /\ DOMAIN nodes = DOMAIN s.nodes \cup {n}
      /\ nodes[n] = Node(kind, dir, name)
      /\ \A i \in DOMAIN s.nodes : nodes[i] = s.nodes[i]
  BY <1>1 DEF With
<1>3. /\ DOMAIN children = DOMAIN s.children \cup {key}
      /\ children[key] = n
      /\ \A k \in DOMAIN s.children : children[k] = s.children[k]
  BY DEF With, HasEntry
<1>4. /\ DOMAIN Node(kind, dir, name) = NodeFields
      /\ Node(kind, dir, name).parent = dir /\ Node(kind, dir, name).name = name
      /\ Node(kind, dir, name).kind = kind /\ Node(kind, dir, name).nlink \in Nat
  BY DEF Node, NodeFields
<1> HIDE DEF nodes, children
<1>5. Good(t)
  <2>1. IsStore(t)
    BY <1>1, <1>2, <1>4 DEF Sound, IsStore
  <2>2. MapsAgree(t)
    BY <1>1, <1>2, <1>3, <1>4 DEF Sound, MapsAgree
  <2> QED
    BY <2>1, <2>2 DEF Good
<1>6. Rooted(t)
  <2>1. IsFiniteSet(DOMAIN children)
    BY <1>3, FS_AddElement DEF Sound
  <2>2. DOMAIN children \subseteq (RootIno .. n) \X Names
    <3>1. RootIno .. s.next - 1 \subseteq RootIno .. n
      BY <1>1 DEF RootIno
    <3>2. DOMAIN s.children \subseteq (RootIno .. s.next - 1) \X Names
      BY DEF Sound
    <3> QED
      BY <1>3, <3>1, <3>2
  <2>3. (n + 1) - 1 = n
    BY <1>1
  <2>4. \A i \in DOMAIN nodes :
          i >= RootIno /\ nodes[i].kind \in {"dir", "file"} /\ nodes[i].nlink \in Nat
    <3>1. n >= RootIno /\ nodes[n].kind \in {"dir", "file"} /\ nodes[n].nlink \in Nat
      BY <1>1, <1>2, <1>4 DEF RootIno
    <3>2. \A i \in DOMAIN s.nodes :
            i >= RootIno /\ s.nodes[i].kind \in {"dir", "file"} /\ s.nodes[i].nlink \in Nat
      BY DEF Sound
    <3> QED
      BY <1>2, <3>1, <3>2
  <2>5. RootIno \in DOMAIN nodes /\ nodes[RootIno].name = NoName /\ nodes[RootIno].kind = "dir"
    BY <1>2 DEF Sound
  <2> QED
    BY <2>1, <2>2, <2>3, <2>4, <2>5 DEF Rooted
<1>7. Inserts(s, t, key, kind)
  BY <1>1, <1>2, <1>3, <1>4 DEF Inserts, HasEntry, SamePlace
<1>8. u = AddLinks(t, dir, links)
  BY DEF InsertNode, nodes, children, Ok
<1> HIDE DEF t, u, key, n
<1>9. links \in Int
  OBVIOUS
<1> HIDE DEF links
<1>10. Sound(u) /\ SameTree(t, u)
  BY <1>5, <1>6, <1>8, <1>9, SoundIs, AddLinksIs
<1> QED
  BY <1>7, <1>10, SameTreeThrough DEF u, key

LEMMA UnlinkIs ==
  ASSUME NEW s, NEW dir, NEW name, Sound(s), HasEntry(s, dir, name)
  PROVE  LET t == Unlink(s, dir, name).store IN
         Sound(t) /\ Removes(s, t, <<dir, name>>)
<1> DEFINE key == <<dir, name>>
           x == s.children[key]
           t == Unlink(s, dir, name).store
<1>1. key \in DOMAIN s.children /\ DOMAIN s = {"nodes", "children", "next"}
  BY DEF HasEntry, Sound, IsStore
<1>2. /\ t.next = s.next /\ t.nodes = Removed(s.nodes, x) /\ t.children = Removed(s.children, key)
  BY <1>1 DEF Unlink, Ok
<1>3. x # RootIno
  BY <1>1, NamesAssumption DEF Sound, MapsAgree
<1> HIDE DEF t, x
<1>4. Removes(s, t, key)
  BY <1>1, <1>2 DEF Removes, Removed, SamePlace, x
<1>5. Good(t)
  BY UnlinkGood, SoundIs DEF t
<1>6. Rooted(t)
  <2>1. IsFiniteSet(DOMAIN t.children)
    BY <1>2, FS_Subset DEF Sound, Removed
  <2>2. DOMAIN t.nodes = DOMAIN s.nodes \ {x} /\ \A i \in DOMAIN t.nodes : t.nodes[i] = s.nodes[i]
    BY <1>2 DEF Removed
  <2>3. DOMAIN t.children \subseteq (RootIno .. t.next - 1) \X Names
    BY <1>2 DEF Removed, Sound
  <2> QED
    BY <1>3, <2>1, <2>2, <2>3 DEF Sound, Rooted
<1> QED
  BY <1>4, <1>5, <1>6, SoundIs DEF t, key

\* rmdir changes nothing, or it removes a directory without entries.
LEMMA RmdirIs ==
  ASSUME NEW s, NEW dir, NEW name, Sound(s)
  PROVE  LET t == Rmdir(s, dir, name).store IN
         \/ t = s
         \/ /\ Sound(t) /\ Removes(s, t, <<dir, name>>)
            /\ EntriesOf(t, s.children[<<dir, name>>]) = {}
<1> DEFINE u == Unlink(s, dir, name)
           t == Rmdir(s, dir, name).store
           v == AddLinks(u.store, dir, -1)
           x == s.children[<<dir, name>>]
<1>1. CASE ~HasEntry(s, dir, name)
  BY <1>1 DEF Rmdir, Unlink, Fails
<1>2. CASE HasEntry(s, dir, name)
  <2>1. Sound(u.store) /\ Removes(s, u.store, <<dir, name>>)
    BY <1>2, UnlinkIs
  <2>2. t = s \/ (t = v /\ EntriesOf(u.store, x) = {})
    BY <1>2 DEF Rmdir, Unlink, Fails, Ok
  <2> HIDE DEF u
  <2>3. Sound(v) /\ SameTree(u.store, v)
    BY <2>1, AddLinksIs
  <2>4. EntriesOf(v, x) = EntriesOf(u.store, x)
    BY <2>3 DEF SameTree, EntriesOf
  <2> HIDE DEF v, x, t
  <2>5. Removes(s, v, <<dir, name>>)
    BY <2>1, <2>3, SameTreeThrough
  <2>6. \/ t = s
        \/ Sound(t) /\ Removes(s, t, <<dir, name>>) /\ EntriesOf(t, x) = {}
    BY <2>2, <2>3, <2>4, <2>5
  <2> QED
    BY <2>6 DEF t, x
<1> QED
  BY <1>1, <1>2

LEMMA RenameIs ==
  ASSUME NEW s, NEW dir, NEW name, NEW newDir \in RootIno .. s.next - 1, NEW newName \in Names,
         Sound(s), HasEntry(s, dir, name)
  PROVE  LET t == Rename(s, dir, name, newDir, newName).store IN
         Sound(t) /\ Renames(s, t, <<dir, name>>, <<newDir, newName>>)
<1> DEFINE key == <<dir, name>>
           new == <<newDir, newName>>
           i == s.children[key]
           children == With(Removed(s.children, key), new, i)
           nodes == [s.nodes EXCEPT ![i].parent = newDir, ![i].name = newName]
           t == Rename(s, dir, name, newDir, newName).store
<1>1. /\ key \in DOMAIN s.children /\ i \in DOMAIN s.nodes /\ DOMAIN s.nodes[i] = NodeFields
      /\ DOMAIN s = {"nodes", "children", "next"}
  BY DEF HasEntry, Sound, MapsAgree, IsStore
<1>2. i # RootIno
  BY <1>1, NamesAssumption DEF Sound, MapsAgree
<1>3. t.next = s.next /\ t.children = children /\ t.nodes = nodes
  BY <1>1 DEF Rename, Ok, Exists, HasEntry
<1>4. /\ DOMAIN children = (DOMAIN s.children \ {key}) \cup {new}
      /\ children[new] = i
      /\ \A k \in DOMAIN children \ {new} : children[k] = s.children[k]
  BY DEF With, Removed
<1>5. /\ DOMAIN nodes = DOMAIN s.nodes
      /\ \A n \in DOMAIN s.nodes \ {i} : nodes[n] = s.nodes[n]
      /\ nodes[i].kind = s.nodes[i].kind /\ nodes[i].nlink = s.nodes[i].nlink
  BY <1>1 DEF NodeFields
<1> HIDE DEF t, children, nodes
<1>6. Good(t)
  BY RenameGood, SoundIs DEF t
<1>7. Rooted(t)
  <2>1. IsFiniteSet(DOMAIN t.children)
    <3> DEFINE rest == DOMAIN s.children \ {key}
    <3>1. IsFiniteSet(rest)
      BY FS_Subset DEF Sound
    <3> HIDE DEF rest, new
    <3>2. IsFiniteSet(rest \cup {new})
      BY <3>1, FS_AddElement
    <3> QED
      BY <1>3, <1>4, <3>2 DEF rest
  <2>2. DOMAIN t.children \subseteq (RootIno .. t.next - 1) \X Names
    BY <1>3, <1>4 DEF Sound
  <2>3. RootIno \in DOMAIN t.nodes /\ t.nodes[RootIno].name = NoName /\ t.nodes[RootIno].kind = "dir"
    BY <1>2, <1>3, <1>5 DEF Sound
  <2>4. \A n \in DOMAIN t.nodes :
          n >= RootIno /\ t.nodes[n].kind \in {"dir", "file"} /\ t.nodes[n].nlink \in Nat
    BY <1>1, <1>3, <1>5 DEF Sound
  <2> QED
    BY <2>1, <2>2, <2>3, <2>4 DEF Rooted
<1>8. Renames(s, t, key, new)
  BY <1>1, <1>3, <1>4, <1>5 DEF Renames, SamePlace
<1> QED
  BY <1>6, <1>7, <1>8, SoundIs DEF t, key, new

LEMMA DataIs ==
  ASSUME NEW s, NEW i, NEW data, Sound(s), Exists(s, i)
  PROVE  LET t == [s EXCEPT !.nodes[i].data = data] IN
         /\ Sound(t) /\ SameTree(s, t)
         /\ t.nodes[i].data = data /\ \A j \in DOMAIN s.nodes \ {i} : t.nodes[j] = s.nodes[j]
<1> DEFINE t == [s EXCEPT !.nodes[i].data = data]
<1>1. DOMAIN s.nodes[i] = NodeFields /\ DOMAIN s = {"nodes", "children", "next"}
  BY DEF Sound, IsStore, Exists
<1>2. /\ t.children = s.children /\ t.next = s.next /\ DOMAIN t.nodes = DOMAIN s.nodes
      /\ \A j \in DOMAIN s.nodes \ {i} : t.nodes[j] = s.nodes[j]
      /\ SamePlace(t.nodes[i], s.nodes[i]) /\ t.nodes[i].nlink = s.nodes[i].nlink
      /\ t.nodes[i].data = data
  BY <1>1 DEF Exists, NodeFields, SamePlace
<1>3. Good(t)
  BY DataGood, SoundIs
<1> HIDE DEF t
<1>4. SameTree(s, t)
  BY <1>2 DEF SameTree, SamePlace
<1>5. Rooted(t)
  BY <1>2, SoundIs DEF Rooted, SamePlace
<1> QED
  BY <1>2, <1>3, <1>4, <1>5, SoundIs DEF t

(***************************************************************************)
(* Where paths lead after a change.                                        *)
(***************************************************************************)

KeepsStep(s, t, i, name) ==
  /\ HasEntry(t, i, name) /\ t.children[<<i, name>>] = s.children[<<i, name>>]
  /\ Exists(t, s.children[<<i, name>>])

LEMMA KeptStep ==
  ASSUME NEW s, NEW t, NEW i, NEW name, StepIn(s, i, name) # NoIno, KeepsStep(s, t, i, name)
  PROVE  StepIn(t, i, name) = StepIn(s, i, name)
BY DEF KeepsStep, StepIn, Lookup

\* The steps of a path that leads somewhere find something.
LEMMA StepsOfPath ==
  ASSUME NEW s, Sound(s), NEW a \in Seq(Names), NEW b \in Seq(Names),
         Resolve(s, a \o b) # NoIno, NEW n \in 1 .. Len(b)
  PROVE  LET i == Resolve(s, a \o SubSeq(b, 1, n - 1)) IN
         /\ StepIn(s, i, b[n]) # NoIno
         /\ HasEntry(s, i, b[n]) /\ Exists(s, s.children[<<i, b[n]>>])
<1> DEFINE i == Resolve(s, a \o SubSeq(b, 1, n - 1))
           name == b[n]
           j == Resolve(s, a \o SubSeq(b, 1, n))
<1>1. n \in 0 .. Len(b)
  OBVIOUS
<1>2. j = StepIn(s, i, name)
  BY ResolveContinued
<1>3. j # NoIno
  BY <1>1, ResolveAbove
<1> HIDE DEF i, j, name
<1>4. /\ HasEntry(s, i, name) /\ s.children[<<i, name>>] = j
      /\ Exists(s, j) /\ s.nodes[j].parent = i /\ s.nodes[j].name = name
      /\ j # RootIno /\ i # NoIno
  BY <1>2, <1>3, StepsFindNodes
<1> QED
  BY <1>2, <1>3, <1>4 DEF i, name

LEMMA CarriedBy ==
  ASSUME NEW s, NEW t, Sound(s),
         NEW a \in Seq(Names), NEW c \in Seq(Names), NEW b \in Seq(Names),
         Resolve(t, c) = Resolve(s, a), Resolve(s, a \o b) # NoIno,
         \A n \in 1 .. Len(b) : KeepsStep(s, t, Resolve(s, a \o SubSeq(b, 1, n - 1)), b[n])
  PROVE  Resolve(t, c \o b) = Resolve(s, a \o b)
<1>1. ASSUME NEW n \in 1 .. Len(b)
      PROVE  StepIn(t, Resolve(s, a \o SubSeq(b, 1, n - 1)), b[n])
               = StepIn(s, Resolve(s, a \o SubSeq(b, 1, n - 1)), b[n])
  <2> DEFINE i == Resolve(s, a \o SubSeq(b, 1, n - 1))
             name == b[n]
  <2>1. KeepsStep(s, t, i, name)
    OBVIOUS
  <2>2. StepIn(s, i, name) # NoIno
    BY StepsOfPath
  <2> HIDE DEF i, name
  <2>3. StepIn(t, i, name) = StepIn(s, i, name)
    BY <2>1, <2>2, KeptStep
  <2> QED
    BY <2>3 DEF i, name
<1> QED
  BY <1>1, Carried

\* A path begins in the root: the empty path goes on.
LEMMA FromRoot ==
  ASSUME NEW p \in Seq(Names)
  PROVE  << >> \in Seq(Names) /\ << >> \o p = p
OBVIOUS

\* The entry a path ends in.
KeyOf(s, p) == <<Resolve(s, Parent(p)), Leaf(p)>>

\* A step of a path into the entry another path ends in is the end of that path.
LEMMA StepIntoKey ==
  ASSUME NEW s, Sound(s), NEW a \in Seq(Names), NEW b \in Seq(Names),
         Resolve(s, a \o b) # NoIno, NEW n \in 1 .. Len(b),
         NEW d \in Seq(Names), d # << >>,
         KeyOf(s, d) = <<Resolve(s, a \o SubSeq(b, 1, n - 1)), b[n]>>
  PROVE  d = a \o SubSeq(b, 1, n)
<1> DEFINE q == a \o SubSeq(b, 1, n)
           i == Resolve(s, a \o SubSeq(b, 1, n - 1))
           name == b[n]
<1>1. n \in 0 .. Len(b)
  OBVIOUS
<1>2. q \in Seq(Names)
  BY <1>1, Continued
<1>3. Resolve(s, q) # NoIno
  BY <1>1, ResolveAbove
<1>4. Resolve(s, q) = StepIn(s, i, name)
  BY ResolveContinued
<1>5. Resolve(s, Parent(d)) = i /\ Leaf(d) = name
  BY DEF KeyOf
<1> HIDE DEF q, i, name
<1>6. Resolve(s, d) = StepIn(s, i, name)
  BY <1>5, ResolveChild
<1>7. d = q
  BY <1>2, <1>3, <1>4, <1>6, ResolveUnique
<1> QED
  BY <1>7 DEF q

(* Prefixes of paths. *)

LEMMA WholeIsPrefix ==
  ASSUME NEW p \in Seq(Names)
  PROVE  SubSeq(p, 1, Len(p)) = p
<1>1. Len(p) \in 0 .. Len(p)
  OBVIOUS
<1> QED
  BY <1>1, PrefixFacts, SeqEqual

LEMMA PrefixIs ==
  ASSUME NEW d \in Seq(Names), NEW p \in Seq(Names)
  PROVE  IsPrefix(d, p) <=> Len(d) <= Len(p) /\ \A n \in 1 .. Len(d) : d[n] = p[n]
<1>1. SubSeq(d, 1, Len(d)) = d
  BY WholeIsPrefix
<1>2. CASE Len(d) <= Len(p)
  <2>1. Len(d) \in 0 .. Len(p)
    BY <1>2
  <2> DEFINE q == SubSeq(p, 1, Len(d))
  <2>2. q \in Seq(Names) /\ Len(q) = Len(d) /\ \A n \in 1 .. Len(d) : q[n] = p[n]
    BY <2>1, PrefixFacts
  <2>3. IsPrefix(d, p) <=> d = q
    BY <1>1, <1>2 DEF IsPrefix
  <2> HIDE DEF q
  <2>4. (\A n \in 1 .. Len(d) : d[n] = p[n]) => d = q
    BY <2>2, SeqEqual
  <2>5. d = q => \A n \in 1 .. Len(d) : d[n] = p[n]
    BY <2>2
  <2> QED
    BY <1>2, <2>3, <2>4, <2>5
<1>3. CASE ~(Len(d) <= Len(p))
  BY <1>3 DEF IsPrefix
<1> QED
  BY <1>2, <1>3

LEMMA ContinuedPrefix ==
  ASSUME NEW a \in Seq(Names), NEW b \in Seq(Names), NEW n \in 0 .. Len(b)
  PROVE  IsPrefix(a \o SubSeq(b, 1, n), a \o b) /\ IsPrefix(a, a \o SubSeq(b, 1, n))
<1> DEFINE p == a \o SubSeq(b, 1, n)
           q == a \o b
<1>1. Len(b) \in 0 .. Len(b) /\ Len(a) \in Nat /\ Len(b) \in Nat
  OBVIOUS
<1>2. /\ p \in Seq(Names) /\ Len(p) = Len(a) + n
      /\ \A j \in 1 .. Len(a) : p[j] = a[j]
      /\ \A j \in 1 .. n : p[Len(a) + j] = b[j]
  BY Continued
<1>3. /\ q \in Seq(Names) /\ Len(q) = Len(a) + Len(b)
      /\ \A j \in 1 .. Len(a) : q[j] = a[j]
      /\ \A j \in 1 .. Len(b) : q[Len(a) + j] = b[j]
  OBVIOUS
<1> HIDE DEF p, q
<1>4. ASSUME NEW j \in 1 .. Len(p) PROVE p[j] = q[j]
  <2>1. CASE j \in 1 .. Len(a)
    BY <1>2, <1>3, <2>1
  <2>2. CASE j \notin 1 .. Len(a)
    <3>1. j - Len(a) \in 1 .. n /\ j - Len(a) \in 1 .. Len(b) /\ j = Len(a) + (j - Len(a))
      BY <1>1, <1>2, <2>2
    <3> QED
      BY <1>2, <1>3, <3>1
  <2> QED
    BY <2>1, <2>2
<1>5. Len(p) <= Len(q) /\ Len(a) <= Len(p)
  BY <1>1, <1>2, <1>3
<1>6. IsPrefix(p, q) /\ IsPrefix(a, p)
  BY <1>2, <1>3, <1>4, <1>5, PrefixIs
<1> QED
  BY <1>6 DEF p, q

\* What is at or below a goes on from a.
LEMMA Below ==
  ASSUME NEW a \in Seq(Names), NEW p \in Seq(Names), IsPrefix(a, p)
  PROVE  LET b == SubSeq(p, Len(a) + 1, Len(p)) IN b \in Seq(Names) /\ p = a \o b
<1> DEFINE b == SubSeq(p, Len(a) + 1, Len(p))
           m == Len(p) - Len(a)
<1>1. Len(a) \in Nat /\ Len(p) \in Nat /\ Len(a) <= Len(p) /\ \A n \in 1 .. Len(a) : a[n] = p[n]
  BY PrefixIs
<1>2. m \in Nat /\ \A j \in 1 .. m : Len(a) + j \in 1 .. Len(p)
  BY <1>1
<1>3. b \in Seq(Names) /\ Len(b) = m /\ \A j \in 1 .. m : b[j] = p[Len(a) + j]
  BY <1>1, <1>2
<1> HIDE DEF b
<1> DEFINE q == a \o b
<1>4. /\ q \in Seq(Names) /\ Len(q) = Len(a) + m
      /\ \A j \in 1 .. Len(a) : q[j] = a[j]
      /\ \A j \in 1 .. m : q[Len(a) + j] = b[j]
  BY <1>3
<1> HIDE DEF q
<1>5. ASSUME NEW j \in 1 .. Len(p) PROVE p[j] = q[j]
  <2>1. CASE j \in 1 .. Len(a)
    BY <1>1, <1>4, <2>1
  <2>2. CASE j \notin 1 .. Len(a)
    <3>1. j - Len(a) \in 1 .. m /\ j = Len(a) + (j - Len(a))
      BY <1>1, <2>2
    <3> QED
      BY <1>3, <1>4, <3>1
  <2> QED
    BY <2>1, <2>2
<1>6. p = q
  <2>1. Len(p) = Len(q)
    BY <1>1, <1>4
  <2> QED
    BY <1>4, <1>5, <2>1, SeqEqual
<1> QED
  BY <1>3, <1>6 DEF b, q

LEMMA PrefixTransitive ==
  ASSUME NEW a \in Seq(Names), NEW b \in Seq(Names), NEW c \in Seq(Names),
         IsPrefix(a, b), IsPrefix(b, c)
  PROVE  IsPrefix(a, c)
<1>1. /\ Len(a) <= Len(b) /\ Len(b) <= Len(c)
      /\ \A n \in 1 .. Len(a) : a[n] = b[n]
      /\ \A n \in 1 .. Len(b) : b[n] = c[n]
  BY PrefixIs
<1>2. Len(a) <= Len(c) /\ \A n \in 1 .. Len(a) : a[n] = c[n]
  BY <1>1
<1> QED
  BY <1>2, PrefixIs

LEMMA ParentIsPrefix ==
  ASSUME NEW p \in Seq(Names), p # << >>
  PROVE  IsPrefix(Parent(p), p) /\ ~IsPrefix(p, Parent(p))
<1>1. /\ Parent(p) \in Seq(Names) /\ Len(Parent(p)) = Len(p) - 1 /\ Len(p) \in Nat \ {0}
      /\ \A j \in 1 .. Len(p) - 1 : Parent(p)[j] = p[j]
  BY Parents
<1>2. Len(Parent(p)) <= Len(p) /\ ~(Len(p) <= Len(Parent(p)))
  BY <1>1
<1> QED
  BY <1>1, <1>2, PrefixIs

(* What each change leaves where it was. *)

\* Every step of the path p into another entry than key.
Avoids(s, p, key) ==
  \A n \in 1 .. Len(p) : <<Resolve(s, << >> \o SubSeq(p, 1, n - 1)), p[n]>> # key

LEMMA AvoidsKey ==
  ASSUME NEW s, Sound(s), NEW p \in Seq(Names), Resolve(s, p) # NoIno,
         NEW d \in Seq(Names), d # << >>, ~IsPrefix(d, p)
  PROVE  Avoids(s, p, KeyOf(s, d))
<1> SUFFICES ASSUME NEW n \in 1 .. Len(p),
                    KeyOf(s, d) = <<Resolve(s, << >> \o SubSeq(p, 1, n - 1)), p[n]>>
             PROVE  FALSE
  BY DEF Avoids
<1>1. << >> \in Seq(Names) /\ << >> \o p = p /\ n \in 0 .. Len(p)
  BY FromRoot
<1>2. d = << >> \o SubSeq(p, 1, n)
  BY <1>1, StepIntoKey
<1>3. IsPrefix(<< >> \o SubSeq(p, 1, n), << >> \o p)
  BY <1>1, ContinuedPrefix
<1> QED
  BY <1>1, <1>2, <1>3

\* What a step that finds something needs in order to be kept.
LEMMA KeptPath ==
  ASSUME NEW s, NEW t, Sound(s), NEW p \in Seq(Names), Resolve(s, p) # NoIno,
         \A n \in 1 .. Len(p) :
           LET i == Resolve(s, << >> \o SubSeq(p, 1, n - 1)) IN
           HasEntry(s, i, p[n]) /\ Exists(s, s.children[<<i, p[n]>>]) => KeepsStep(s, t, i, p[n])
  PROVE  Resolve(t, p) = Resolve(s, p)
<1> DEFINE e == << >>
<1>1. e \o p = p
  BY FromRoot
<1>7. e \in Seq(Names)
  BY FromRoot
<1>2. Resolve(t, e) = Resolve(s, e)
  BY ResolveRoot
<1>3. \A n \in 1 .. Len(p) :
        LET i == Resolve(s, e \o SubSeq(p, 1, n - 1)) IN
        HasEntry(s, i, p[n]) /\ Exists(s, s.children[<<i, p[n]>>]) => KeepsStep(s, t, i, p[n])
  OBVIOUS
<1> HIDE DEF e
<1>4. Resolve(s, e \o p) # NoIno
  BY <1>1
<1>5. \A n \in 1 .. Len(p) : KeepsStep(s, t, Resolve(s, e \o SubSeq(p, 1, n - 1)), p[n])
  BY <1>3, <1>4, <1>7, StepsOfPath
<1>6. Resolve(t, e \o p) = Resolve(s, e \o p)
  BY <1>2, <1>4, <1>5, <1>7, CarriedBy
<1> QED
  BY <1>1, <1>6

LEMMA KeptSteps ==
  ASSUME NEW s, NEW t, NEW p \in Seq(Names), \A i, name : StepIn(t, i, name) = StepIn(s, i, name)
  PROVE  Resolve(t, p) = Resolve(s, p)
<1> DEFINE e == << >>
<1>1. e \o p = p
  BY FromRoot
<1>7. e \in Seq(Names)
  BY FromRoot
<1>2. Resolve(t, e) = Resolve(s, e)
  BY ResolveRoot
<1> HIDE DEF e
<1>3. \A n \in 1 .. Len(p) :
        StepIn(t, Resolve(s, e \o SubSeq(p, 1, n - 1)), p[n])
          = StepIn(s, Resolve(s, e \o SubSeq(p, 1, n - 1)), p[n])
  OBVIOUS
<1>4. Resolve(t, e \o p) = Resolve(s, e \o p)
  BY <1>2, <1>3, <1>7, Carried
<1> QED
  BY <1>1, <1>4

\* Contents and link counts lead nowhere.
LEMMA SameTreeKeeps ==
  ASSUME NEW s, NEW t, Sound(s), SameTree(s, t), NEW p \in Seq(Names)
  PROVE  Resolve(t, p) = Resolve(s, p)
<1>1. \A i, name : StepIn(t, i, name) = StepIn(s, i, name)
  BY DEF SameTree, StepIn, Lookup, HasEntry, Exists
<1> QED
  BY <1>1, KeptSteps

LEMMA InsertsKeep ==
  ASSUME NEW s, NEW t, Sound(s), NEW key, NEW kind, Inserts(s, t, key, kind),
         NEW p \in Seq(Names), Resolve(s, p) # NoIno
  PROVE  Resolve(t, p) = Resolve(s, p)
<1>1. \A i, name : HasEntry(s, i, name) /\ Exists(s, s.children[<<i, name>>])
                     => KeepsStep(s, t, i, name)
  BY DEF Inserts, HasEntry, Exists, KeepsStep
<1> QED
  BY <1>1, KeptPath

LEMMA InsertsHere ==
  ASSUME NEW s, NEW t, Sound(s), Sound(t), NEW p \in Seq(Names), p # << >>, NEW kind,
         Inserts(s, t, KeyOf(s, p), kind), Resolve(s, Parent(p)) # NoIno
  PROVE  Resolve(t, p) = s.next
<1> DEFINE i == Resolve(s, Parent(p))
           name == Leaf(p)
<1>1. Parent(p) \in Seq(Names)
  BY Parents
<1>2. Resolve(t, Parent(p)) = i
  BY <1>1, InsertsKeep
<1>3. Resolve(t, p) = StepIn(t, i, name)
  BY <1>2, ResolveChild
<1>4. KeyOf(s, p) = <<i, name>>
  BY DEF KeyOf
<1> HIDE DEF i, name
<1>5. HasEntry(t, i, name) /\ t.children[<<i, name>>] = s.next
  BY <1>4 DEF Inserts, HasEntry
<1> QED
  BY <1>3, <1>5, EntriesAreFound

\* Another entry has another node.
LEMMA OtherNode ==
  ASSUME NEW s, Sound(s), NEW key \in DOMAIN s.children, NEW k \in DOMAIN s.children, k # key
  PROVE  s.children[k] # s.children[key] /\ s.children[k] \in DOMAIN s.nodes
BY DEF Sound, MapsAgree

LEMMA RemovesKeeps ==
  ASSUME NEW s, NEW t, Sound(s), NEW d \in Seq(Names), d # << >>, Removes(s, t, KeyOf(s, d)),
         NEW p \in Seq(Names), Resolve(s, p) # NoIno, ~IsPrefix(d, p)
  PROVE  Resolve(t, p) = Resolve(s, p)
<1> DEFINE key == KeyOf(s, d)
<1>1. Avoids(s, p, key)
  BY AvoidsKey
<1> HIDE DEF key
<1>2. Removes(s, t, key)
  BY DEF key
<1>3. \A i, name : HasEntry(s, i, name) /\ <<i, name>> # key => KeepsStep(s, t, i, name)
  BY <1>2, OtherNode DEF Removes, HasEntry, Exists, KeepsStep
<1> QED
  BY <1>1, <1>3, KeptPath DEF Avoids

LEMMA RenamesKeeps ==
  ASSUME NEW s, NEW t, Sound(s), NEW old \in Seq(Names), NEW new \in Seq(Names),
         old # << >>, new # << >>, Renames(s, t, KeyOf(s, old), KeyOf(s, new)),
         NEW p \in Seq(Names), Resolve(s, p) # NoIno, ~IsPrefix(old, p), ~IsPrefix(new, p)
  PROVE  Resolve(t, p) = Resolve(s, p)
<1> DEFINE key == KeyOf(s, old)
           to == KeyOf(s, new)
<1>1. Avoids(s, p, key) /\ Avoids(s, p, to)
  BY AvoidsKey
<1> HIDE DEF key, to
<1>2. Renames(s, t, key, to)
  BY DEF key, to
<1>3. \A i, name : HasEntry(s, i, name) /\ Exists(s, s.children[<<i, name>>])
                   /\ <<i, name>> # key /\ <<i, name>> # to => KeepsStep(s, t, i, name)
  BY <1>2 DEF Renames, HasEntry, Exists, KeepsStep
<1> QED
  BY <1>1, <1>3, KeptPath DEF Avoids

\* What is moved is found at the new place, with everything below it.
LEMMA RenamesCarry ==
  ASSUME NEW s, NEW t, Sound(s), Sound(t), NEW old \in Seq(Names), NEW new \in Seq(Names),
         old # << >>, new # << >>, Renames(s, t, KeyOf(s, old), KeyOf(s, new)),
         Resolve(s, Parent(new)) # NoIno, ~IsPrefix(old, new),
         NEW b \in Seq(Names), Resolve(s, old \o b) # NoIno
  PROVE  Resolve(t, new \o b) = Resolve(s, old \o b)
<1> DEFINE key == KeyOf(s, old)
           to == KeyOf(s, new)
           dir == Resolve(s, Parent(new))
           leaf == Leaf(new)
<1>1. Parent(new) \in Seq(Names) /\ IsPrefix(Parent(new), new) /\ ~IsPrefix(new, Parent(new))
  BY Parents, ParentIsPrefix
<1>2. ~IsPrefix(old, Parent(new))
  BY <1>1, PrefixTransitive
<1>3. Resolve(t, Parent(new)) = dir
  BY <1>1, <1>2, RenamesKeeps
<1>4. Resolve(s, old) # NoIno
  <2>1. 0 \in 0 .. Len(b)
    OBVIOUS
  <2>2. Resolve(s, old \o SubSeq(b, 1, 0)) # NoIno
    BY <2>1, ResolveAbove
  <2> QED
    BY <2>2, ContinuedWhole
<1>5. Resolve(s, old) = s.children[key]
  <2> DEFINE i == Resolve(s, Parent(old))
             name == Leaf(old)
             j == Resolve(s, old)
  <2>1. j = StepIn(s, i, name) /\ j # NoIno
    BY <1>4, ResolveChild
  <2>2. key = <<i, name>>
    BY DEF KeyOf
  <2> HIDE DEF i, name, j, key
  <2>3. /\ HasEntry(s, i, name) /\ s.children[<<i, name>>] = j
        /\ Exists(s, j) /\ s.nodes[j].parent = i /\ s.nodes[j].name = name
        /\ j # RootIno /\ i # NoIno
    BY <2>1, StepsFindNodes
  <2> QED
    BY <2>2, <2>3 DEF j
<1>6. Resolve(t, new) = StepIn(t, dir, leaf)
  BY <1>3, ResolveChild
<1>7. to = <<dir, leaf>>
  BY DEF KeyOf
<1>8. Renames(s, t, key, to)
  OBVIOUS
<1>9. ASSUME NEW n \in 1 .. Len(b)
      PROVE  /\ key # <<Resolve(s, old \o SubSeq(b, 1, n - 1)), b[n]>>
             /\ to # <<Resolve(s, old \o SubSeq(b, 1, n - 1)), b[n]>>
  <2>1. n \in 0 .. Len(b) /\ Len(old) \in Nat
    OBVIOUS
  <2>2. Len(old \o SubSeq(b, 1, n)) = Len(old) + n /\ IsPrefix(old, old \o SubSeq(b, 1, n))
    BY <2>1, Continued, ContinuedPrefix
  <2>3. old # old \o SubSeq(b, 1, n)
    <3>1. Len(old) + n # Len(old)
      BY <2>1
    <3> QED
      BY <2>2, <3>1
  <2>4. new # old \o SubSeq(b, 1, n)
    BY <2>2
  <2> QED
    BY <2>3, <2>4, StepIntoKey
<1>10. ASSUME NEW n \in 1 .. Len(b)
       PROVE  KeepsStep(s, t, Resolve(s, old \o SubSeq(b, 1, n - 1)), b[n])
  <2> DEFINE i == Resolve(s, old \o SubSeq(b, 1, n - 1))
             name == b[n]
  <2>1. HasEntry(s, i, name) /\ Exists(s, s.children[<<i, name>>])
    BY StepsOfPath
  <2>2. key # <<i, name>> /\ to # <<i, name>>
    BY <1>9
  <2> HIDE DEF i, name, key, to
  <2>3. KeepsStep(s, t, i, name)
    BY <1>8, <2>1, <2>2 DEF Renames, HasEntry, Exists, KeepsStep
  <2> QED
    BY <2>3 DEF i, name
<1> HIDE DEF dir, leaf, key, to
<1>11. HasEntry(t, dir, leaf) /\ t.children[<<dir, leaf>>] = s.children[key]
  BY <1>7, <1>8 DEF Renames, HasEntry
<1>12. Resolve(t, new) = Resolve(s, old)
  BY <1>5, <1>6, <1>11, EntriesAreFound
<1> QED
  BY <1>10, <1>12, CarriedBy

\* A rename to itself.
LEMMA RenamesNothing ==
  ASSUME NEW s, NEW t, Sound(s), NEW key, Renames(s, t, key, key), NEW p \in Seq(Names)
  PROVE  Resolve(t, p) = Resolve(s, p)
<1>1. \A i, name : StepIn(t, i, name) = StepIn(s, i, name)
  BY DEF Renames, StepIn, Lookup, HasEntry, Exists
<1> QED
  BY <1>1, KeptSteps

(***************************************************************************)
(* Handles arrive.  The invariant says of each handle where its path leads *)
(* and, beside its types, that only a file was marked for a deletion as a  *)
(* file.                                                                   *)
(***************************************************************************)

HandleOK(s, c) ==
  /\ c.path \in Paths /\ c.name \in Paths /\ c.target \in Paths
  /\ c.at = "move" => c.name # << >> /\ c.target # << >>
  /\ c.ino \in RootIno .. s.next - 1
  /\ ~c.displaced => Resolve(s, c.path) = c.ino
  /\ c.delete /\ ~c.isDir => ~IsDir(s, c.ino)

ContextsOK(s, o) == Shape(o) /\ \A h \in Live(o) : HandleOK(s, o[h])

\* c differs from d at most in that its listing is disturbed.
SameButExact(c, d) ==
  /\ d.at = c.at /\ d.path = c.path /\ d.name = c.name /\ d.target = c.target /\ d.ino = c.ino
  /\ d.isDir = c.isDir /\ d.delete = c.delete /\ d.displaced = c.displaced
  /\ d.pattern = c.pattern /\ d.seen = c.seen /\ d.twice = c.twice

SameContexts(o, d) ==
  /\ Shape(d) /\ Live(d) = Live(o)
  /\ \A h \in Live(o) : SameButExact(o[h], d[h]) /\ (d[h].exact => o[h].exact)

LEMMA ExactFalse ==
  ASSUME NEW c, DOMAIN c = ContextFields
  PROVE  LET d == [c EXCEPT !.exact = FALSE] IN
         DOMAIN d = ContextFields /\ SameButExact(c, d) /\ ~d.exact
BY DEF ContextFields, SameButExact

LEMMA LiveContext ==
  ASSUME NEW o, Shape(o), NEW h \in Live(o)
  PROVE  h \in Handles /\ DOMAIN o[h] = ContextFields /\ o[h].at # "none"
BY DEF Shape, Live, NotOpen

LEMMA ContextLive ==
  ASSUME NEW o, Shape(o), NEW h \in Handles, h \notin Live(o)
  PROVE  o[h] = NotOpen
BY DEF Shape, Live

\* Disturbing the listings of some handles changes nothing else.
LEMMA SomeDisturbed ==
  ASSUME NEW o, Shape(o), NEW d, NEW S,
         d = [h \in Handles |-> IF h \in S \cap Live(o) THEN [o[h] EXCEPT !.exact = FALSE] ELSE o[h]]
  PROVE  SameContexts(o, d) /\ \A h \in S \cap Live(o) : ~d[h].exact
<1>1. \A h \in S \cap Live(o) :
        DOMAIN d[h] = ContextFields /\ SameButExact(o[h], d[h]) /\ ~d[h].exact
  <2> SUFFICES ASSUME NEW h \in S \cap Live(o)
               PROVE  DOMAIN d[h] = ContextFields /\ SameButExact(o[h], d[h]) /\ ~d[h].exact
    OBVIOUS
  <2> DEFINE c == o[h]
             e == [c EXCEPT !.exact = FALSE]
  <2>1. DOMAIN c = ContextFields /\ h \in Handles
    BY LiveContext
  <2>2. d[h] = e
    BY <2>1
  <2> HIDE DEF c
  <2>3. DOMAIN e = ContextFields /\ SameButExact(c, e) /\ ~e.exact
    BY <2>1, ExactFalse
  <2> HIDE DEF e
  <2> QED
    BY <2>2, <2>3 DEF c
<1>2. \A h \in Handles \ (S \cap Live(o)) : d[h] = o[h]
  OBVIOUS
<1>3. DOMAIN d = Handles
  OBVIOUS
<1>4. \A h \in Live(o) : h \in Handles /\ DOMAIN o[h] = ContextFields /\ o[h].at # "none"
  BY LiveContext
<1>5. \A h \in Handles \ Live(o) : o[h] = NotOpen /\ o[h].at = "none"
  BY ContextLive DEF NotOpen
<1>6. Shape(d)
  BY <1>1, <1>2, <1>3, <1>4, <1>5 DEF Shape, SameButExact
<1>7. Live(d) = Live(o)
  BY <1>1, <1>2, <1>4, <1>5 DEF Live, SameButExact
<1>8. \A h \in Live(o) : SameButExact(o[h], d[h])
  BY <1>1, <1>2, <1>4 DEF SameButExact
<1>9. \A h \in Live(o) : d[h].exact => o[h].exact
  BY <1>1, <1>2, <1>4
<1> QED
  BY <1>1, <1>6, <1>7, <1>8, <1>9 DEF SameContexts

LEMMA AloneSame ==
  ASSUME NEW o, Shape(o)
  PROVE  /\ SameContexts(o, Alone(o))
         /\ \A h \in Live(o) : \A g \in Live(o) \ {h} :
              Alone(o)[h].exact => o[h].path # o[g].path /\ o[h].path # o[g].name
<1> DEFINE S == {h \in Handles : \E g \in Live(o) \ {h} : o[h].path \in {o[g].path, o[g].name}}
           d == Alone(o)
<1>1. d = [h \in Handles |-> IF h \in S \cap Live(o) THEN [o[h] EXCEPT !.exact = FALSE] ELSE o[h]]
  BY DEF Alone
<1>2. \A h \in Live(o) : h \in Handles
  BY DEF Live
<1> HIDE DEF d
<1>3. SameContexts(o, d) /\ \A h \in S \cap Live(o) : ~d[h].exact
  <2> HIDE DEF S
  <2> QED
    BY <1>1, SomeDisturbed
<1>4. \A h \in Live(o) : \A g \in Live(o) \ {h} :
        o[h].path = o[g].path \/ o[h].path = o[g].name => h \in S
  BY <1>2
<1> HIDE DEF S
<1> QED
  BY <1>3, <1>4 DEF d

LEMMA DisturbedSame ==
  ASSUME NEW o, Shape(o), NEW s, NEW t
  PROVE  /\ SameContexts(o, Disturbed(o, s, t))
         /\ \A h \in Live(o) : Disturbed(o, s, t)[h].exact => Undisturbed(s, t, o[h].ino)
<1> DEFINE S == {h \in Handles : ~Undisturbed(s, t, o[h].ino)}
           d == Disturbed(o, s, t)
<1>1. d = [h \in Handles |-> IF h \in S \cap Live(o) THEN [o[h] EXCEPT !.exact = FALSE] ELSE o[h]]
  BY DEF Disturbed
<1>2. \A h \in Live(o) : h \in Handles
  BY DEF Live
<1> HIDE DEF d
<1>3. SameContexts(o, d) /\ \A h \in S \cap Live(o) : ~d[h].exact
  <2> HIDE DEF S
  <2> QED
    BY <1>1, SomeDisturbed
<1>4. \A h \in Live(o) : ~Undisturbed(s, t, o[h].ino) => h \in S
  BY <1>2
<1> HIDE DEF S
<1> QED
  BY <1>3, <1>4 DEF d

LEMMA SameContextsTransitive ==
  ASSUME NEW o, NEW d, NEW e, SameContexts(o, d), SameContexts(d, e)
  PROVE  SameContexts(o, e)
BY DEF SameContexts, SameButExact

LEMMA SameHandleOK ==
  ASSUME NEW s, NEW c, NEW d, SameButExact(c, d), HandleOK(s, c)
  PROVE  HandleOK(s, d)
BY DEF SameButExact, HandleOK

LEMMA SameContextsOK ==
  ASSUME NEW s, NEW o, NEW d, SameContexts(o, d), ContextsOK(s, o)
  PROVE  ContextsOK(s, d)
BY SameHandleOK DEF SameContexts, ContextsOK

\* No directory appears under a number that was given out.
NoNewDirs(s, t) ==
  /\ s.next <= t.next
  /\ \A i \in RootIno .. s.next - 1 : IsDir(t, i) => IsDir(s, i)

LEMMA ChangesMakeNoDirs ==
  ASSUME NEW s, NEW t, Sound(s)
  PROVE  /\ SameTree(s, t) => NoNewDirs(s, t)
         /\ \A key, kind : Inserts(s, t, key, kind) => NoNewDirs(s, t)
         /\ \A key : Removes(s, t, key) => NoNewDirs(s, t)
         /\ \A key, new : Renames(s, t, key, new) => NoNewDirs(s, t)
<1>1. s.next \in Nat
  BY DEF Sound, IsStore
<1>2. SameTree(s, t) => NoNewDirs(s, t)
  BY <1>1 DEF SameTree, NoNewDirs, IsDir, Exists, SamePlace
<1>3. ASSUME NEW key, NEW kind, Inserts(s, t, key, kind) PROVE NoNewDirs(s, t)
  <2>1. s.next <= t.next /\ \A i \in RootIno .. s.next - 1 : i # s.next
    BY <1>1, <1>3 DEF Inserts, RootIno
  <2> QED
    BY <1>3, <2>1 DEF Inserts, NoNewDirs, IsDir, Exists, SamePlace
<1>4. ASSUME NEW key, Removes(s, t, key) PROVE NoNewDirs(s, t)
  BY <1>1, <1>4 DEF Removes, NoNewDirs, IsDir, Exists, SamePlace
<1>5. ASSUME NEW key, NEW new, Renames(s, t, key, new) PROVE NoNewDirs(s, t)
  BY <1>1, <1>5 DEF Renames, NoNewDirs, IsDir, Exists, SamePlace
<1> QED
  BY <1>2, <1>3, <1>4, <1>5

\* The context of a handle stays as good as it was if its path leads where it
\* led.
LEMMA HandleKept ==
  ASSUME NEW s, NEW t, Sound(s), Sound(t), NoNewDirs(s, t), NEW c, HandleOK(s, c),
         \/ c.displaced
         \/ Resolve(s, c.path) # NoIno => Resolve(t, c.path) = Resolve(s, c.path)
  PROVE  HandleOK(t, c)
<1>1. RootIno .. s.next - 1 \subseteq RootIno .. t.next - 1
  <2>1. s.next \in Nat /\ t.next \in Nat
    BY DEF Sound, IsStore
  <2> QED
    BY <2>1 DEF NoNewDirs, RootIno
<1>2. c.ino # NoIno
  BY DEF HandleOK, NoIno, RootIno
<1>3. c.ino \in RootIno .. t.next - 1 /\ (~c.displaced => Resolve(t, c.path) = c.ino)
  BY <1>1, <1>2 DEF HandleOK
<1>4. c.delete /\ ~c.isDir => ~IsDir(t, c.ino)
  BY DEF HandleOK, NoNewDirs
<1> QED
  BY <1>3, <1>4 DEF HandleOK

RequestsOK == requests.paths \cup requests.targets \subseteq Paths

ArriveInv == Sound(store) /\ RequestsOK /\ ContextsOK(store, open)

LEMMA InitArrive == Init => ArriveInv
<1> SUFFICES ASSUME Init PROVE ArriveInv
  OBVIOUS
<1>1. Sound(store) /\ RequestsOK
  BY ScenariosAssumption DEF Init, RequestsOK
<1>2. open = [h \in Handles |-> NotOpen]
  BY DEF Init
<1>3. Shape(open) /\ Live(open) = {}
  BY <1>2 DEF Shape, Live, NotOpen
<1> QED
  BY <1>1, <1>3 DEF ArriveInv, ContextsOK

LEMMA RootPath == << >> \in Paths
<1>1. << >> \in [1 .. 0 -> Names] /\ 0 \in 0 .. MaxDepth
  BY ScenariosAssumption
<1> QED
  BY <1>1 DEF Paths

\* The context a handle is opened with.
LEMMA OpenedIs ==
  ASSUME NEW p, NEW i, NEW isDir, NEW pattern
  PROVE  LET c == Opened(p, i, isDir, pattern) IN
         /\ DOMAIN c = ContextFields /\ c.at = "idle" /\ c.path = p /\ c.name = p /\ c.ino = i
         /\ c.target = << >> /\ c.isDir = isDir /\ ~c.delete /\ ~c.displaced /\ c.seen = {} /\ ~c.twice
         /\ c.pattern = pattern /\ (c.exact => p \notin DOMAIN dirOffsets)
BY DEF Opened, ContextFields

\* A new context beside the others.
LEMMA OneMore ==
  ASSUME NEW o, Shape(o), NEW h \in Handles, NEW c, DOMAIN c = ContextFields, c.at # "none"
  PROVE  LET d == [o EXCEPT ![h] = c] IN
         /\ Shape(d) /\ d[h] = c /\ \A g \in Handles \ {h} : d[g] = o[g]
         /\ Live(d) = Live(o) \cup {h}
BY DEF Shape, Live

\* What create_file does: what is opened is what the path leads to then.
CreatesWell(h, path, i, isDir, pattern, s) ==
  /\ open[h] = NotOpen
  /\ open' = Alone(Disturbed([open EXCEPT ![h] = Opened(path, i, isDir, pattern)], store, s))
  /\ handles' = handles \cup {path} /\ store' = s
  /\ UNCHANGED <<dirOffsets, requests>>
  /\ Sound(s) /\ Resolve(s, path) = i /\ Exists(s, i)
  /\ isDir => IsDir(s, i)
  /\ s = store \/ \E kind : Inserts(store, s, KeyOf(store, path), kind)

LEMMA CreateFileIs ==
  ASSUME Sound(store), NEW h, NEW path \in Paths, NEW disposition, NEW asDir,
         CreateFile(h, path, disposition, asDir)
  PROVE  \E i, isDir, pattern, s : CreatesWell(h, path, i, isDir, pattern, s)
<1> DEFINE dir == Resolve(store, Parent(path))
           kind == IF asDir THEN "dir" ELSE "file"
           made == InsertNode(store, dir, Leaf(path), kind)
<1>1. /\ open[h] = NotOpen /\ dir # NoIno /\ UNCHANGED <<dirOffsets, requests>>
      /\ \/ path = << >> /\ OpensAs(h, path, RootIno, TRUE, store)
         \/ path # << >> /\ OpenExisting(h, path, Resolve(store, path), asDir)
         \/ path # << >> /\ OpenExisting(h, path, Resolve(store, path), FALSE)
         \/ /\ path # << >> /\ made.status = "ok"
            /\ OpensAs(h, path, store.next, asDir, made.store)
  BY DEF CreateFile
<1>2. path \in Seq(Names)
  BY PathsAre
<1>3. ASSUME NEW i, NEW isDir, NEW s, OpensAs(h, path, i, isDir, s),
             Sound(s), Resolve(s, path) = i, Exists(s, i), isDir => IsDir(s, i),
             s = store \/ \E k : Inserts(store, s, KeyOf(store, path), k)
      PROVE  \E pattern : CreatesWell(h, path, i, isDir, pattern, s)
  <2>1. PICK pattern :
          /\ open' = Alone(Disturbed([open EXCEPT ![h] = Opened(path, i, isDir, pattern)], store, s))
          /\ handles' = handles \cup {path} /\ store' = s
    BY <1>3 DEF OpensAs
  <2> QED
    BY <1>1, <1>3, <2>1 DEF CreatesWell
<1>4. CASE path = << >> /\ OpensAs(h, path, RootIno, TRUE, store)
  <2>1. Resolve(store, path) = RootIno /\ Exists(store, RootIno)
    BY <1>4, ResolveRoot, RootExists
  <2>2. IsDir(store, RootIno)
    BY DEF Sound, IsDir, Exists
  <2>3. OpensAs(h, path, RootIno, TRUE, store)
    BY <1>4
  <2>4. \E pattern : CreatesWell(h, path, RootIno, TRUE, pattern, store)
    BY <1>3, <2>1, <2>2, <2>3
  <2> QED
    BY <2>4
<1>5. ASSUME NEW i, NEW isDir, i = Resolve(store, path), OpenExisting(h, path, i, isDir)
      PROVE  \E pattern, s : CreatesWell(h, path, i, isDir, pattern, s)
  <2>1. i # NoIno /\ OpensAs(h, path, i, isDir, store)
    BY <1>5 DEF OpenExisting
  <2>2. Exists(store, i)
    BY <1>2, <1>5, <2>1, ResolveType
  <2>3. isDir => IsDir(store, i)
    BY <1>5 DEF OpenExisting, OpenDir
  <2> QED
    BY <1>3, <1>5, <2>1, <2>2, <2>3
<1>6. CASE path # << >> /\ made.status = "ok" /\ OpensAs(h, path, store.next, asDir, made.store)
  <2>1. Parent(path) \in Seq(Names) /\ Leaf(path) \in Names
    BY <1>2, <1>6, Parents
  <2>2. Exists(store, dir)
    BY <1>1, <2>1, ResolveType
  <2>3. dir \in RootIno .. store.next - 1 /\ store.next \in Nat
    BY <2>2 DEF Sound, IsStore, Exists, RootIno
  <2>4. ~HasEntry(store, dir, Leaf(path))
    BY <1>6 DEF InsertNode, Fails
  <2>5. kind \in {"dir", "file"}
    OBVIOUS
  <2> DEFINE s == made.store
             leaf == Leaf(path)
             k == kind
  <2>6. KeyOf(store, path) = <<dir, leaf>> /\ s = InsertNode(store, dir, leaf, k).store
    BY DEF KeyOf
  <2>7. OpensAs(h, path, store.next, asDir, s)
    BY <1>6
  <2>15. asDir => k = "dir"
    OBVIOUS
  <2>8. dir = Resolve(store, Parent(path)) /\ leaf \in Names /\ ~HasEntry(store, dir, leaf)
    BY <2>1, <2>4
  <2>9. k \in {"dir", "file"}
    BY <2>5
  <2> HIDE DEF made, dir, leaf, k, s
  <2>10. Sound(s) /\ Inserts(store, s, <<dir, leaf>>, k)
    BY <2>3, <2>6, <2>8, <2>9, InsertIs
  <2>11. Inserts(store, s, KeyOf(store, path), k)
    BY <2>6, <2>10
  <2>12. Resolve(s, path) = store.next
    BY <1>1, <1>2, <1>6, <2>8, <2>10, <2>11, InsertsHere
  <2>13. Exists(s, store.next) /\ s.nodes[store.next].kind = k
    BY <2>10 DEF Inserts, Exists
  <2>14. asDir => IsDir(s, store.next)
    BY <2>13, <2>15 DEF IsDir
  <2> QED
    BY <1>3, <2>7, <2>10, <2>11, <2>12, <2>13, <2>14
<1> QED
  BY <1>1, <1>4, <1>5, <1>6

LEMMA ExistingInRange ==
  ASSUME NEW s, Sound(s), NEW i, Exists(s, i)
  PROVE  i \in RootIno .. s.next - 1
BY DEF Sound, IsStore, Exists, RootIno

LEMMA CreateFileArrives ==
  ASSUME ArriveInv, NEW h \in Handles, NEW path \in Paths, NEW disposition, NEW asDir,
         CreateFile(h, path, disposition, asDir)
  PROVE  ArriveInv'
<1>1. PICK i, isDir, pattern, s : CreatesWell(h, path, i, isDir, pattern, s)
  BY CreateFileIs DEF ArriveInv
<1> DEFINE c == Opened(path, i, isDir, pattern)
           o == [open EXCEPT ![h] = c]
<1>2. /\ DOMAIN c = ContextFields /\ c.at = "idle" /\ c.path = path /\ c.name = path
      /\ c.target = << >> /\ c.ino = i /\ ~c.delete /\ ~c.displaced
  BY OpenedIs
<1>3. Shape(open) /\ open' = Alone(Disturbed(o, store, s)) /\ store' = s /\ requests' = requests
  BY <1>1 DEF CreatesWell, ArriveInv, ContextsOK
<1> HIDE DEF c
<1>4. /\ Shape(o) /\ o[h] = c /\ \A g \in Handles \ {h} : o[g] = open[g]
      /\ Live(o) = Live(open) \cup {h}
  BY <1>2, <1>3, OneMore
<1> HIDE DEF o
<1>5. HandleOK(s, c)
  BY <1>1, <1>2, ExistingInRange, RootPath DEF CreatesWell, HandleOK
<1>6. ASSUME NEW g \in Live(open) PROVE HandleOK(s, open[g])
  <2>1. CASE s = store
    BY <1>6, <2>1 DEF ArriveInv, ContextsOK
  <2>2. CASE s # store
    <3>1. PICK kind : Inserts(store, s, KeyOf(store, path), kind)
      BY <1>1, <2>2 DEF CreatesWell
    <3>2. HandleOK(store, open[g]) /\ open[g].path \in Seq(Names) /\ Sound(store) /\ Sound(s)
      BY <1>1, <1>6, PathsAre DEF ArriveInv, ContextsOK, HandleOK, CreatesWell
    <3>3. Resolve(store, open[g].path) # NoIno
            => Resolve(s, open[g].path) = Resolve(store, open[g].path)
      BY <3>1, <3>2, InsertsKeep
    <3>4. NoNewDirs(store, s)
      BY <3>1, <3>2, ChangesMakeNoDirs
    <3> QED
      BY <3>2, <3>3, <3>4, HandleKept
  <2> QED
    BY <2>1, <2>2
<1>7. ContextsOK(s, o)
  BY <1>4, <1>5, <1>6 DEF ContextsOK, Live
<1>8. SameContexts(o, open')
  <2>1. SameContexts(o, Disturbed(o, store, s))
    BY <1>4, DisturbedSame
  <2>2. SameContexts(Disturbed(o, store, s), Alone(Disturbed(o, store, s)))
    BY <2>1, AloneSame DEF SameContexts
  <2> QED
    BY <1>3, <2>1, <2>2, SameContextsTransitive
<1>9. ContextsOK(s, open')
  BY <1>7, <1>8, SameContextsOK
<1> QED
  BY <1>1, <1>3, <1>9 DEF ArriveInv, RequestsOK, CreatesWell

\* A step that leaves the store alone and changes only what a handle is doing.
LEMMA OneHandleArrives ==
  ASSUME ArriveInv, NEW h \in Handles, open[h].at # "none", store' = store, requests' = requests,
         NEW c, DOMAIN c = ContextFields, c.at # "none", HandleOK(store, c),
         NEW o, o = [open EXCEPT ![h] = c], SameContexts(o, open')
  PROVE  ArriveInv'
<1>1. Shape(open)
  BY DEF ArriveInv, ContextsOK
<1>2. /\ Shape(o) /\ o[h] = c /\ \A g \in Handles \ {h} : o[g] = open[g]
      /\ Live(o) = Live(open) \cup {h}
  <2> DEFINE d == [open EXCEPT ![h] = c]
  <2>1. /\ Shape(d) /\ d[h] = c /\ \A g \in Handles \ {h} : d[g] = open[g]
        /\ Live(d) = Live(open) \cup {h}
    BY <1>1, OneMore
  <2>2. o = d
    OBVIOUS
  <2> HIDE DEF d
  <2> QED
    BY <2>1, <2>2
<1>3. ContextsOK(store, o)
  BY <1>2 DEF ArriveInv, ContextsOK, Live
<1>4. ContextsOK(store, open')
  BY <1>3, SameContextsOK
<1> QED
  BY <1>4 DEF ArriveInv, RequestsOK

LEMMA SameContextsReflexive ==
  ASSUME NEW o, Shape(o)
  PROVE  SameContexts(o, o)
BY DEF SameContexts, SameButExact

LEMMA SendArrives ==
  ASSUME ArriveInv, NEW h \in Handles, NEW request, NEW from,
         request \notin {"none", "move"}, from # "none",
         Send(h, request, from)
  PROVE  ArriveInv'
<1> DEFINE c == [open[h] EXCEPT !.at = request, !.name = open[h].path]
           o == [open EXCEPT ![h] = c]
<1>1. Shape(open) /\ open[h].at = from /\ store' = store /\ requests' = requests
  BY DEF Send, ArriveInv, ContextsOK
<1>2. h \in Live(open) /\ DOMAIN open[h] = ContextFields
  BY <1>1, LiveContext DEF Live
<1>3. open' = Alone([open EXCEPT ![h].at = request, ![h].name = open[h].path])
  BY DEF Send
<1>4. [open EXCEPT ![h].at = request, ![h].name = open[h].path] = o
  BY <1>1, <1>2 DEF Shape, ContextFields
<1>5. DOMAIN c = ContextFields /\ c.at = request /\ HandleOK(store, c)
  <2>1. HandleOK(store, open[h])
    BY <1>2 DEF ArriveInv, ContextsOK
  <2>2. /\ DOMAIN c = ContextFields /\ c.at = request /\ c.path = open[h].path
        /\ c.name = open[h].path /\ c.ino = open[h].ino /\ c.displaced = open[h].displaced
        /\ c.target = open[h].target /\ c.delete = open[h].delete /\ c.isDir = open[h].isDir
    BY <1>2 DEF ContextFields
  <2> HIDE DEF c
  <2> QED
    BY <2>1, <2>2 DEF HandleOK
<1> HIDE DEF c
<1>6. Shape(o)
  BY <1>1, <1>5, OneMore
<1>7. SameContexts(o, open')
  BY <1>3, <1>4, <1>6, AloneSame
<1> HIDE DEF o
<1>8. o = [open EXCEPT ![h] = c]
  BY DEF o
<1> QED
  BY <1>1, <1>5, <1>7, <1>8, OneHandleArrives

\* What a listing does: until is the last offset Dokan took.
FindMatching(h) ==
  {e \in ReadDir(store, open[h].ino, Offset(dirOffsets, open[h].name)).entries :
     e.name \in open[h].pattern}
FindSent(h, until) == {e \in FindMatching(h) : e.offset <= until}

\* The context is c then, and the offset is kept.
FindsWith(h, until, c) ==
  /\ DOMAIN c = ContextFields /\ c.at = "idle" /\ c.path = open[h].path
  /\ c.name = open[h].name /\ c.ino = open[h].ino /\ c.isDir = open[h].isDir
  /\ c.delete = open[h].delete /\ c.displaced = open[h].displaced
  /\ c.pattern = open[h].pattern /\ c.target = open[h].target
  /\ c.seen = open[h].seen \cup {e.name : e \in FindSent(h, until)}
  /\ c.twice = (open[h].twice \/ {e.name : e \in FindSent(h, until)} \cap open[h].seen # {})
  /\ c.exact = (open[h].exact /\ open[h].name = open[h].path)
  /\ open' = [open EXCEPT ![h] = c]
  /\ dirOffsets' = With(dirOffsets, open[h].name,
       NextOffset(ReadDir(store, open[h].ino, Offset(dirOffsets, open[h].name)).entries,
                  FindSent(h, until), Offset(dirOffsets, open[h].name)))

LEMMA FindIs ==
  ASSUME NEW h \in Handles, Shape(open), Find(h)
  PROVE  /\ open[h].at = "find" /\ store' = store /\ handles' = handles /\ requests' = requests
         /\ \E until \in {0} \cup {e.offset : e \in FindMatching(h)} : \E c :
              FindsWith(h, until, c)
<1> DEFINE o == open[h]
           from == Offset(dirOffsets, o.name)
           reply == ReadDir(store, o.ino, from)
           matching == {e \in reply.entries : e.name \in o.pattern}
           sent(until) == {e \in matching : e.offset <= until}
           names(until) == {e.name : e \in sent(until)}
<1>1. PICK until \in {0} \cup {e.offset : e \in matching} :
        /\ dirOffsets' = With(dirOffsets, o.name, NextOffset(reply.entries, sent(until), from))
        /\ open' = [open EXCEPT ![h].at = "idle", ![h].seen = @ \cup names(until),
                      ![h].twice = @ \/ names(until) \cap o.seen # {},
                      ![h].exact = @ /\ o.name = o.path]
  BY Zenon DEF Find
<1>2. o.at = "find" /\ handles' = handles /\ store' = store /\ requests' = requests
  BY Zenon DEF Find
<1>3. matching = FindMatching(h) /\ sent(until) = FindSent(h, until)
  BY DEF FindMatching, FindSent
<1> DEFINE t == (o.twice \/ names(until) \cap o.seen # {})
           x == (o.exact /\ o.name = o.path)
           n == o.seen \cup names(until)
           c == [o EXCEPT !.at = "idle", !.seen = n, !.twice = t, !.exact = x]
<1>4. DOMAIN open = Handles /\ DOMAIN o = ContextFields
  BY <1>2 DEF Shape, NotOpen
<1>5. open' = [open EXCEPT ![h] = c]
  <2>1. open' = [open EXCEPT ![h].at = "idle", ![h].seen = n, ![h].twice = t, ![h].exact = x]
    BY <1>1, Zenon
  <2> HIDE DEF n, t, x
  <2> QED
    BY <1>4, <2>1 DEF ContextFields
<1>6. /\ DOMAIN c = ContextFields /\ c.at = "idle" /\ c.path = o.path
      /\ c.name = o.name /\ c.ino = o.ino /\ c.isDir = o.isDir
      /\ c.delete = o.delete /\ c.displaced = o.displaced /\ c.pattern = o.pattern
      /\ c.target = o.target
      /\ c.seen = n /\ c.twice = t /\ c.exact = x
  <2> HIDE DEF n, t, x
  <2> QED
    BY <1>4 DEF ContextFields
<1>7. n = o.seen \cup {e.name : e \in FindSent(h, until)}
  BY <1>3
<1>8. t = (open[h].twice \/ {e.name : e \in FindSent(h, until)} \cap open[h].seen # {})
  BY <1>3, Zenon
<1>9. x = (open[h].exact /\ open[h].name = open[h].path)
  BY Zenon
<1>10. dirOffsets' = With(dirOffsets, open[h].name,
                   NextOffset(ReadDir(store, open[h].ino, Offset(dirOffsets, open[h].name)).entries,
                              FindSent(h, until), Offset(dirOffsets, open[h].name)))
  BY <1>1, <1>3, Zenon
<1>11. until \in {0} \cup {e.offset : e \in FindMatching(h)}
  BY <1>1, <1>3, Zenon
<1> HIDE DEF c, n, t, x, o, from, reply, matching, sent, names
<1>12. /\ c.seen = open[h].seen \cup {e.name : e \in FindSent(h, until)}
       /\ c.twice = (open[h].twice \/ {e.name : e \in FindSent(h, until)} \cap open[h].seen # {})
       /\ c.exact = (open[h].exact /\ open[h].name = open[h].path)
  BY <1>6, <1>7, <1>8, <1>9, Zenon DEF o
<1>13. FindsWith(h, until, c)
  BY <1>5, <1>6, <1>10, <1>12, Zenon DEF o, FindsWith
<1> QED
  BY <1>2, <1>11, <1>13, Zenon DEF o

LEMMA OneMoreShape ==
  ASSUME NEW o, Shape(o), NEW h \in Handles, NEW c, DOMAIN c = ContextFields, c.at # "none",
         NEW d, d = [o EXCEPT ![h] = c]
  PROVE  Shape(d)
<1> DEFINE e == [o EXCEPT ![h] = c]
<1>1. Shape(e)
  BY OneMore
<1>2. d = e
  OBVIOUS
<1> HIDE DEF e
<1> QED
  BY <1>1, <1>2

LEMMA FindArrives ==
  ASSUME ArriveInv, NEW h \in Handles, Find(h)
  PROVE  ArriveInv'
<1>1. Shape(open)
  BY DEF ArriveInv, ContextsOK
<1>8. PICK until, c : FindsWith(h, until, c)
  BY <1>1, FindIs, Zenon
<1>2. /\ DOMAIN c = ContextFields /\ c.at = "idle" /\ c.path = open[h].path
      /\ c.name = open[h].name /\ c.ino = open[h].ino /\ c.isDir = open[h].isDir
      /\ c.delete = open[h].delete /\ c.displaced = open[h].displaced
      /\ c.target = open[h].target
      /\ open' = [open EXCEPT ![h] = c]
  BY <1>8, Zenon DEF FindsWith
<1>3. open[h].at = "find" /\ store' = store /\ requests' = requests
  BY <1>1, FindIs, Zenon
<1>4. HandleOK(store, open[h])
  BY <1>3 DEF ArriveInv, ContextsOK, Live
<1>5. HandleOK(store, c) /\ c.at # "none"
  BY <1>2, <1>4 DEF HandleOK
<1>6. Shape(open')
  BY <1>1, <1>2, <1>5, OneMoreShape
<1>7. SameContexts(open', open')
  BY <1>6, SameContextsReflexive
<1> QED
  BY <1>2, <1>3, <1>5, <1>7, OneHandleArrives

LEMMA CloseFileArrives ==
  ASSUME ArriveInv, NEW h \in Handles, CloseFile(h)
  PROVE  ArriveInv'
<1> DEFINE c == [open[h] EXCEPT !.at = "unlisted"]
<1>1. /\ Shape(open) /\ open[h].at = "close" /\ store' = store /\ requests' = requests
      /\ open' = [open EXCEPT ![h].at = "unlisted"]
  BY DEF CloseFile, ArriveInv, ContextsOK
<1>2. h \in Live(open) /\ DOMAIN open[h] = ContextFields /\ HandleOK(store, open[h])
  BY <1>1, LiveContext DEF Live, ArriveInv, ContextsOK
<1>3. open' = [open EXCEPT ![h] = c]
  BY <1>1, <1>2 DEF Shape, ContextFields
<1>4. DOMAIN c = ContextFields /\ c.at = "unlisted" /\ HandleOK(store, c)
  <2>1. /\ DOMAIN c = ContextFields /\ c.at = "unlisted" /\ c.path = open[h].path
        /\ c.name = open[h].name /\ c.ino = open[h].ino /\ c.displaced = open[h].displaced
        /\ c.target = open[h].target /\ c.delete = open[h].delete /\ c.isDir = open[h].isDir
    BY <1>2 DEF ContextFields
  <2> HIDE DEF c
  <2> QED
    BY <1>2, <2>1 DEF HandleOK
<1> HIDE DEF c
<1>5. Shape(open')
  BY <1>1, <1>3, <1>4, OneMoreShape
<1>6. SameContexts(open', open')
  BY <1>5, SameContextsReflexive
<1> QED
  BY <1>1, <1>3, <1>4, <1>6, OneHandleArrives

LEMMA CloseFileOffsetArrives ==
  ASSUME ArriveInv, NEW h \in Handles, CloseFileOffset(h)
  PROVE  ArriveInv'
<1>1. /\ Shape(open) /\ store' = store /\ requests' = requests
      /\ open' = [open EXCEPT ![h] = NotOpen]
  BY DEF CloseFileOffset, ArriveInv, ContextsOK
<1>2. Shape(open') /\ \A g \in Live(open') : g \in Live(open) /\ open'[g] = open[g]
  BY <1>1 DEF Shape, Live, NotOpen
<1> QED
  BY <1>1, <1>2 DEF ArriveInv, ContextsOK, RequestsOK

LEMMA DeleteArrives ==
  ASSUME ArriveInv, NEW h \in Handles, Delete(h)
  PROVE  ArriveInv'
<1> DEFINE c == [open[h] EXCEPT !.delete = TRUE]
<1>1. /\ Shape(open) /\ open[h].at = "idle" /\ store' = store /\ requests' = requests
      /\ open' = [open EXCEPT ![h].delete = TRUE]
  BY DEF Delete, ArriveInv, ContextsOK
<1>2. h \in Live(open) /\ DOMAIN open[h] = ContextFields /\ HandleOK(store, open[h])
  BY <1>1, LiveContext DEF Live, ArriveInv, ContextsOK
<1>3. open' = [open EXCEPT ![h] = c]
  BY <1>1, <1>2 DEF Shape, ContextFields
<1>7. ~open[h].isDir => ~IsDir(store, open[h].ino)
  BY DEF Delete, DeletePrecheck
<1>4. DOMAIN c = ContextFields /\ c.at = "idle" /\ HandleOK(store, c)
  <2>1. /\ DOMAIN c = ContextFields /\ c.at = "idle" /\ c.path = open[h].path
        /\ c.name = open[h].name /\ c.ino = open[h].ino /\ c.displaced = open[h].displaced
        /\ c.target = open[h].target /\ c.isDir = open[h].isDir
    BY <1>1, <1>2 DEF ContextFields
  <2> HIDE DEF c
  <2> QED
    BY <1>2, <1>7, <2>1 DEF HandleOK
<1> HIDE DEF c
<1>5. Shape(open')
  BY <1>1, <1>3, <1>4, OneMoreShape
<1>6. SameContexts(open', open')
  BY <1>5, SameContextsReflexive
<1> QED
  BY <1>1, <1>3, <1>4, <1>6, OneHandleArrives

\* A change of contents or link counts, by a request that does nothing else.
LEMMA SameTreeArrives ==
  ASSUME ArriveInv, Sound(store'), SameTree(store, store'), open' = open, requests' = requests
  PROVE  ArriveInv'
<1>1. NoNewDirs(store, store') /\ Sound(store)
  BY ChangesMakeNoDirs DEF ArriveInv
<1>2. ASSUME NEW h \in Live(open) PROVE HandleOK(store', open[h])
  <2>1. HandleOK(store, open[h]) /\ open[h].path \in Seq(Names)
    BY PathsAre DEF ArriveInv, ContextsOK, HandleOK
  <2>2. Resolve(store', open[h].path) = Resolve(store, open[h].path)
    BY <1>1, <2>1, SameTreeKeeps
  <2> QED
    BY <1>1, <2>1, <2>2, HandleKept
<1> QED
  BY <1>2 DEF ArriveInv, ContextsOK, RequestsOK, Live

\* c differs from d at most in what is being done.
SameButAt(c, d) ==
  /\ d.path = c.path /\ d.name = c.name /\ d.target = c.target /\ d.ino = c.ino
  /\ d.isDir = c.isDir /\ d.delete = c.delete /\ d.displaced = c.displaced
  /\ d.pattern = c.pattern /\ d.seen = c.seen /\ d.twice = c.twice /\ d.exact = c.exact

\* A handle goes on to something else.
LEMMA NowAt ==
  ASSUME NEW s, ContextsOK(s, open), NEW h \in Live(open), NEW what, what \notin {"none", "move"},
         NEW o, o = [open EXCEPT ![h].at = what]
  PROVE  /\ ContextsOK(s, o) /\ Live(o) = Live(open)
         /\ \A g \in Handles \ {h} : o[g] = open[g]
         /\ o[h].at = what /\ SameButAt(open[h], o[h])
<1> DEFINE c == [open[h] EXCEPT !.at = what]
<1>1. Shape(open) /\ h \in Handles /\ DOMAIN open[h] = ContextFields /\ HandleOK(s, open[h])
  BY LiveContext DEF ContextsOK
<1>2. o = [open EXCEPT ![h] = c]
  BY <1>1 DEF Shape, ContextFields
<1>3. DOMAIN c = ContextFields /\ c.at = what /\ SameButAt(open[h], c)
  BY <1>1 DEF ContextFields, SameButAt
<1> HIDE DEF c
<1>4. HandleOK(s, c)
  BY <1>1, <1>3 DEF HandleOK, SameButAt
<1>5. /\ Shape(o) /\ o[h] = c /\ \A g \in Handles \ {h} : o[g] = open[g]
      /\ Live(o) = Live(open) \cup {h}
  <2> DEFINE d == [open EXCEPT ![h] = c]
  <2>3. Shape(open) /\ h \in Handles /\ DOMAIN c = ContextFields /\ c.at # "none"
    BY <1>1, <1>3
  <2>1. /\ Shape(d) /\ d[h] = c /\ \A g \in Handles \ {h} : d[g] = open[g]
        /\ Live(d) = Live(open) \cup {h}
    BY <2>3, OneMore
  <2>2. o = d
    BY <1>2
  <2> HIDE DEF d
  <2> QED
    BY <2>1, <2>2
<1>6. ContextsOK(s, o)
  BY <1>4, <1>5 DEF ContextsOK, Live
<1> QED
  BY <1>3, <1>5, <1>6

\* c differs from d at most in that its file lost its place.
SameButPlace(c, d) ==
  /\ d.at = c.at /\ d.path = c.path /\ d.name = c.name /\ d.target = c.target /\ d.ino = c.ino
  /\ d.isDir = c.isDir /\ d.delete = c.delete /\ d.exact = c.exact
  /\ d.pattern = c.pattern /\ d.seen = c.seen /\ d.twice = c.twice

\* Some handles lose their place.
LEMMA SomeDisplaced ==
  ASSUME NEW o, Shape(o), NEW d, NEW S,
         d = [h \in Handles |-> IF h \in S \cap Live(o) THEN [o[h] EXCEPT !.displaced = TRUE] ELSE o[h]]
  PROVE  /\ Shape(d) /\ Live(d) = Live(o)
         /\ \A h \in Live(o) : SameButPlace(o[h], d[h])
         /\ \A h \in Live(o) \ S : d[h] = o[h]
         /\ \A h \in S \cap Live(o) : d[h].displaced
<1>1. ASSUME NEW h \in S \cap Live(o)
      PROVE  DOMAIN d[h] = ContextFields /\ d[h].displaced /\ SameButPlace(o[h], d[h])
  <2> DEFINE c == o[h]
             e == [c EXCEPT !.displaced = TRUE]
  <2>1. DOMAIN c = ContextFields /\ h \in Handles
    BY LiveContext
  <2>2. d[h] = e
    BY <2>1
  <2> HIDE DEF c
  <2>3. DOMAIN e = ContextFields /\ e.displaced /\ SameButPlace(c, e)
    BY <2>1 DEF ContextFields, SameButPlace
  <2> HIDE DEF e
  <2> QED
    BY <2>2, <2>3 DEF c
<1>2. \A h \in Handles \ (S \cap Live(o)) : d[h] = o[h]
  OBVIOUS
<1>3. DOMAIN d = Handles
  OBVIOUS
<1>4. \A h \in Live(o) : h \in Handles /\ DOMAIN o[h] = ContextFields /\ o[h].at # "none"
  BY LiveContext
<1>5. \A h \in Handles \ Live(o) : o[h] = NotOpen /\ o[h].at = "none"
  BY ContextLive DEF NotOpen
<1>6. Shape(d)
  BY <1>1, <1>2, <1>3, <1>4, <1>5 DEF Shape, SameButPlace
<1>7. Live(d) = Live(o)
  BY <1>1, <1>2, <1>4, <1>5 DEF Live, SameButPlace
<1>8. \A h \in Live(o) : SameButPlace(o[h], d[h])
  BY <1>1, <1>2, <1>4 DEF SameButPlace
<1> QED
  BY <1>1, <1>2, <1>4, <1>6, <1>7, <1>8

\* What cleanup does: nothing, or the entry of that name goes.
LEMMA CleanupIs ==
  ASSUME Sound(store), NEW h \in Handles, open[h].name \in Seq(Names), Cleanup(h)
  PROVE  LET o == open[h]
             key == KeyOf(store, o.name) IN
         /\ o.at = "cleanup" /\ UNCHANGED <<handles, dirOffsets, requests>>
         /\ \/ store' = store
            \/ /\ Sound(store') /\ o.name # << >> /\ o.delete
               /\ Removes(store, store', key)
               /\ Resolve(store, o.name) = store.children[key]
               /\ o.isDir => EntriesOf(store', store.children[key]) = {}
<1> DEFINE o == open[h]
           dir == Resolve(store, Parent(o.name))
           leaf == Leaf(o.name)
           r == IF o.isDir THEN Rmdir(store, dir, leaf) ELSE Unlink(store, dir, leaf)
           key == KeyOf(store, o.name)
<1>1. /\ o.at = "cleanup" /\ UNCHANGED <<handles, dirOffsets, requests>>
      /\ store' = IF o.delete /\ dir # NoIno THEN r.store ELSE store
  BY DEF Cleanup
<1>2. key = <<dir, leaf>>
  BY DEF KeyOf
<1>3. CASE ~(o.delete /\ dir # NoIno /\ HasEntry(store, dir, leaf))
  <2>1. ~HasEntry(store, dir, leaf) => r.store = store
    BY DEF Rmdir, Unlink, Fails
  <2> QED
    BY <1>1, <1>3, <2>1
<1>4. CASE o.delete /\ dir # NoIno /\ HasEntry(store, dir, leaf)
  <2>1. o.name # << >>
    <3>1. leaf \in Names
      BY <1>4 DEF Sound, HasEntry
    <3> QED
      BY <3>1, NamesAssumption DEF Leaf
  <2> HIDE DEF dir, leaf, o
  <2>2. Resolve(store, o.name) = store.children[key]
    <3>1. Resolve(store, o.name) = StepIn(store, dir, leaf)
      BY <2>1, ResolveChild DEF dir, leaf, o
    <3> QED
      BY <1>2, <1>4, <3>1, EntriesAreFound
  <2>3. CASE o.isDir
    <3> DEFINE t == Rmdir(store, dir, leaf).store
    <3>1. store' = t
      BY <1>1, <1>4, <2>3
    <3>2. \/ t = store
          \/ /\ Sound(t) /\ Removes(store, t, <<dir, leaf>>)
             /\ EntriesOf(t, store.children[<<dir, leaf>>]) = {}
      BY RmdirIs
    <3> HIDE DEF t
    <3> QED
      BY <1>1, <1>2, <1>4, <2>1, <2>2, <2>3, <3>1, <3>2 DEF o
  <2>4. CASE ~o.isDir
    <3> DEFINE t == Unlink(store, dir, leaf).store
    <3>1. store' = t
      BY <1>1, <1>4, <2>4
    <3>2. Sound(t) /\ Removes(store, t, <<dir, leaf>>)
      BY <1>4, UnlinkIs
    <3> HIDE DEF t
    <3> QED
      BY <1>1, <1>2, <1>4, <2>1, <2>2, <2>4, <3>1, <3>2 DEF o
  <2> QED
    BY <2>3, <2>4
<1> QED
  BY <1>3, <1>4

\* What cleanup does to the contexts.
LEMMA CleanupContexts ==
  ASSUME ContextsOK(store, open), NEW h \in Handles, open[h].at = "cleanup", Cleanup(h),
         NEW gone, gone = DOMAIN store.nodes \ DOMAIN store'.nodes
  PROVE  \E o, d :
           /\ o = [open EXCEPT ![h].at = "cleaned"]
           /\ ContextsOK(store, o) /\ d = Disturbed(o, store, store')
           /\ open' = [g \in Handles |->
                IF g \in Live(d) /\ gone # {} /\ AtOrBelow(open[h].name, d[g].path)
                  THEN [d[g] EXCEPT !.displaced = TRUE] ELSE d[g]]
           /\ Shape(open') /\ Live(open') = Live(open)
           /\ \A g \in Live(open) :
                /\ open'[g].path = open[g].path /\ open'[g].name = open[g].name
                /\ open'[g].target = open[g].target /\ open'[g].at \in {open[g].at, "cleaned"}
                /\ open'[g].ino = open[g].ino /\ open'[g].isDir = open[g].isDir
                /\ open'[g].delete = open[g].delete /\ open'[g].pattern = open[g].pattern
                /\ open'[g].seen = open[g].seen /\ open'[g].twice = open[g].twice
                /\ open'[g].exact =>
                     open[g].exact /\ Undisturbed(store, store', open[g].ino)
                /\ ~open'[g].displaced =>
                     ~open[g].displaced /\ (gone = {} \/ ~IsPrefix(open[h].name, open[g].path))
<1> DEFINE o == [open EXCEPT ![h].at = "cleaned"]
           d == Disturbed(o, store, store')
           S == {g \in Handles : gone # {} /\ AtOrBelow(open[h].name, d[g].path)}
<1>1. open' = [g \in Handles |->
                IF g \in Live(d) /\ gone # {} /\ AtOrBelow(open[h].name, d[g].path)
                  THEN [d[g] EXCEPT !.displaced = TRUE] ELSE d[g]]
  BY DEF Cleanup
<1>2. h \in Live(open)
  BY DEF Live
<1>3. /\ ContextsOK(store, o) /\ Live(o) = Live(open)
      /\ \A g \in Handles \ {h} : o[g] = open[g]
      /\ SameButAt(open[h], o[h]) /\ o[h].at = "cleaned"
  BY <1>2, NowAt
<1>11. o = [open EXCEPT ![h].at = "cleaned"]
  OBVIOUS
<1>12. d = Disturbed(o, store, store')
  OBVIOUS
<1> HIDE DEF o
<1>4. Shape(o)
  BY <1>3 DEF ContextsOK
<1>5. /\ SameContexts(o, d)
      /\ \A g \in Live(o) : d[g].exact => Undisturbed(store, store', o[g].ino)
  BY <1>4, DisturbedSame
<1> HIDE DEF d
<1>6. open' = [g \in Handles |-> IF g \in S \cap Live(d) THEN [d[g] EXCEPT !.displaced = TRUE] ELSE d[g]]
  BY <1>1
<1>7. Shape(d) /\ Live(d) = Live(open)
  BY <1>3, <1>5 DEF SameContexts
<1>8. \A g \in Live(open) : g \notin S => gone = {} \/ ~IsPrefix(open[h].name, d[g].path)
  BY DEF AtOrBelow, Live
<1> HIDE DEF S
<1>9. /\ Shape(open') /\ Live(open') = Live(d)
      /\ \A g \in Live(d) : SameButPlace(d[g], open'[g])
      /\ \A g \in Live(d) \ S : open'[g] = d[g]
      /\ \A g \in S \cap Live(d) : open'[g].displaced
  <2>1. PICK e, c : e = open' /\ c = d
    OBVIOUS
  <2>2. e = [g \in Handles |-> IF g \in S \cap Live(c) THEN [c[g] EXCEPT !.displaced = TRUE] ELSE c[g]]
    BY <1>6, <2>1
  <2>3. Shape(c)
    BY <1>7, <2>1
  <2>4. /\ Shape(e) /\ Live(e) = Live(c)
        /\ \A g \in Live(c) : SameButPlace(c[g], e[g])
        /\ \A g \in Live(c) \ S : e[g] = c[g]
        /\ \A g \in S \cap Live(c) : e[g].displaced
    BY <2>2, <2>3, SomeDisplaced
  <2> QED
    BY <2>1, <2>4
<1>10. ASSUME NEW g \in Live(open)
       PROVE  /\ open'[g].path = open[g].path /\ open'[g].name = open[g].name
              /\ open'[g].target = open[g].target /\ open'[g].at \in {open[g].at, "cleaned"}
              /\ open'[g].ino = open[g].ino /\ open'[g].isDir = open[g].isDir
              /\ open'[g].delete = open[g].delete /\ open'[g].pattern = open[g].pattern
              /\ open'[g].seen = open[g].seen /\ open'[g].twice = open[g].twice
              /\ open'[g].exact => open[g].exact /\ Undisturbed(store, store', open[g].ino)
              /\ ~open'[g].displaced =>
                   ~open[g].displaced /\ (gone = {} \/ ~IsPrefix(open[h].name, open[g].path))
  <2>1. /\ o[g].path = open[g].path /\ o[g].name = open[g].name
        /\ o[g].target = open[g].target /\ o[g].at \in {open[g].at, "cleaned"}
        /\ o[g].ino = open[g].ino /\ o[g].isDir = open[g].isDir
        /\ o[g].delete = open[g].delete /\ o[g].displaced = open[g].displaced
        /\ o[g].pattern = open[g].pattern /\ o[g].seen = open[g].seen
        /\ o[g].twice = open[g].twice /\ o[g].exact = open[g].exact
    BY <1>3 DEF Live, SameButAt
  <2>2. SameButExact(o[g], d[g]) /\ (d[g].exact => o[g].exact /\ Undisturbed(store, store', o[g].ino))
    BY <1>3, <1>5 DEF SameContexts
  <2>3. /\ d[g].path = open[g].path /\ d[g].name = open[g].name
        /\ d[g].target = open[g].target /\ d[g].at = o[g].at
        /\ d[g].ino = open[g].ino /\ d[g].isDir = open[g].isDir
        /\ d[g].delete = open[g].delete /\ d[g].displaced = open[g].displaced
        /\ d[g].pattern = open[g].pattern /\ d[g].seen = open[g].seen
        /\ d[g].twice = open[g].twice
        /\ d[g].exact => open[g].exact /\ Undisturbed(store, store', open[g].ino)
    BY <2>1, <2>2 DEF SameButExact
  <2>4. g \in Live(d)
    BY <1>7
  <2>5. /\ open'[g].path = d[g].path /\ open'[g].name = d[g].name
        /\ open'[g].target = d[g].target /\ open'[g].at = d[g].at
        /\ open'[g].ino = d[g].ino /\ open'[g].isDir = d[g].isDir /\ open'[g].delete = d[g].delete
        /\ open'[g].pattern = d[g].pattern /\ open'[g].seen = d[g].seen /\ open'[g].twice = d[g].twice
        /\ open'[g].exact = d[g].exact
    BY <1>9, <2>4 DEF SameButPlace
  <2>6. ~open'[g].displaced => g \notin S /\ ~d[g].displaced
    BY <1>9, <2>4
  <2> QED
    BY <1>8, <2>1, <2>3, <2>5, <2>6
<1> QED
  <2>1. Live(open') = Live(open)
    BY <1>7, <1>9
  <2>2. WITNESS o, d
  <2> QED
    BY <1>1, <1>3, <1>9, <1>10, <1>11, <1>12, <2>1

LEMMA CleanupArrives ==
  ASSUME ArriveInv, NEW h \in Handles, Cleanup(h)
  PROVE  ArriveInv'
<1> DEFINE name == open[h].name
           gone == DOMAIN store.nodes \ DOMAIN store'.nodes
           key == KeyOf(store, name)
<1>1. open[h].at = "cleanup" /\ requests' = requests
  BY DEF Cleanup
<1>2. h \in Live(open) /\ name \in Seq(Names) /\ Sound(store) /\ ContextsOK(store, open)
  BY <1>1, PathsAre DEF Live, ArriveInv, ContextsOK, HandleOK
<1>3. \/ store' = store
      \/ Sound(store') /\ name # << >> /\ Removes(store, store', key)
  BY <1>2, CleanupIs
<1>4. /\ Shape(open') /\ Live(open') = Live(open)
      /\ \A g \in Live(open) :
           /\ open'[g].path = open[g].path /\ open'[g].name = open[g].name
           /\ open'[g].target = open[g].target /\ open'[g].at \in {open[g].at, "cleaned"}
           /\ open'[g].ino = open[g].ino /\ open'[g].isDir = open[g].isDir
           /\ open'[g].delete = open[g].delete
           /\ ~open'[g].displaced =>
                ~open[g].displaced /\ (gone = {} \/ ~IsPrefix(name, open[g].path))
  BY <1>1, <1>2, CleanupContexts, ZenonT(60)
<1> HIDE DEF gone, key
<1>5. ASSUME NEW g \in Live(open) PROVE HandleOK(store, open[g]) /\ HandleOK(store, open'[g])
  <2>1. HandleOK(store, open[g])
    BY <1>2 DEF ContextsOK
  <2> QED
    BY <1>4, <2>1 DEF HandleOK
<1>6. ASSUME NEW g \in Live(open) PROVE HandleOK(store', open'[g])
  <2>1. CASE store' = store
    BY <1>5, <2>1
  <2>2. CASE store' # store
    <3>1. Sound(store') /\ name # << >> /\ Removes(store, store', key)
      BY <1>3, <2>2
    <3>2. gone # {}
      <4>1. store.children[key] \in gone
        BY <1>2, <3>1 DEF Removes, gone, Sound, MapsAgree
      <4> QED
        BY <4>1
    <3>3. NoNewDirs(store, store') /\ open'[g].path \in Seq(Names)
      BY <1>2, <1>5, <3>1, ChangesMakeNoDirs, PathsAre DEF HandleOK
    <3>4. ASSUME ~open'[g].displaced, Resolve(store, open'[g].path) # NoIno
          PROVE  Resolve(store', open'[g].path) = Resolve(store, open'[g].path)
      BY <1>2, <1>4, <3>1, <3>2, <3>3, <3>4, RemovesKeeps DEF key
    <3> QED
      BY <1>2, <1>5, <3>1, <3>3, <3>4, HandleKept
  <2> QED
    BY <2>1, <2>2
<1>7. Sound(store')
  BY <1>2, <1>3
<1> QED
  BY <1>1, <1>4, <1>6, <1>7 DEF ArriveInv, ContextsOK, RequestsOK

\* What is not displaced by a rename, nor moved by it, is not below its target.
LEMMA NotBelowTarget ==
  ASSUME NEW s, Sound(s), NEW old \in Seq(Names), NEW new \in Seq(Names), NEW p \in Seq(Names),
         Resolve(s, p) # NoIno, ~IsPrefix(old, p),
         ~(Resolve(s, new) # NoIno /\ IsPrefix(new, p) /\ ~IsPrefix(old, p))
  PROVE  ~IsPrefix(new, p)
<1> SUFFICES ASSUME IsPrefix(new, p) PROVE FALSE
  OBVIOUS
<1> DEFINE b == SubSeq(p, Len(new) + 1, Len(p))
<1>1. b \in Seq(Names) /\ p = new \o b
  BY Below
<1> HIDE DEF b
<1>2. Resolve(s, new \o SubSeq(b, 1, 0)) # NoIno
  <2>1. 0 \in 0 .. Len(b) /\ Resolve(s, new \o b) # NoIno
    BY <1>1
  <2> QED
    BY <1>1, <2>1, ResolveAbove
<1>3. new \o SubSeq(b, 1, 0) = new
  BY <1>1, ContinuedWhole
<1> QED
  BY <1>2, <1>3

\* Where a path leads after a rename, if nothing took its place.
LEMMA MoveCarries ==
  ASSUME NEW s, NEW t, Sound(s), Sound(t), NEW old \in Seq(Names), NEW new \in Seq(Names),
         old # << >>, new # << >>, Renames(s, t, KeyOf(s, old), KeyOf(s, new)),
         Resolve(s, Parent(new)) # NoIno, NEW p \in Seq(Names), Resolve(s, p) # NoIno,
         ~(Resolve(s, new) # NoIno /\ IsPrefix(new, p) /\ ~IsPrefix(old, p)),
         ~(old # new /\ IsPrefix(old, new) /\ IsPrefix(old, p))
  PROVE  Resolve(t, NewPath(old, new, p)) = Resolve(s, p)
<1>1. CASE IsPrefix(old, p)
  <2> DEFINE b == SubSeq(p, Len(old) + 1, Len(p))
  <2>1. b \in Seq(Names) /\ p = old \o b
    BY <1>1, Below
  <2>2. NewPath(old, new, p) = new \o b
    BY <1>1 DEF NewPath, AtOrBelow, Rebased
  <2> HIDE DEF b
  <2>3. CASE old = new
    <3>1. Renames(s, t, KeyOf(s, old), KeyOf(s, old)) /\ NewPath(old, new, p) = p
      BY <2>1, <2>2, <2>3
    <3> QED
      BY <3>1, RenamesNothing
  <2>4. CASE old # new
    <3>1. Resolve(s, old \o b) # NoIno /\ ~IsPrefix(old, new)
      BY <1>1, <2>1, <2>4
    <3>2. Resolve(t, new \o b) = Resolve(s, old \o b)
      BY <2>1, <3>1, RenamesCarry
    <3> QED
      BY <2>1, <2>2, <3>2
  <2> QED
    BY <2>3, <2>4
<1>2. CASE ~IsPrefix(old, p)
  <2>1. NewPath(old, new, p) = p
    BY <1>2 DEF NewPath, AtOrBelow
  <2>2. ~IsPrefix(new, p)
    BY <1>2, NotBelowTarget
  <2> QED
    BY <1>2, <2>1, <2>2, RenamesKeeps
<1> QED
  BY <1>1, <1>2

LEMMA NewPathIs ==
  ASSUME NEW old \in Seq(Names), NEW new \in Seq(Names), NEW p \in Seq(Names)
  PROVE  NewPath(old, new, p) \in Seq(Names)
<1>1. CASE IsPrefix(old, p)
  <2> DEFINE b == SubSeq(p, Len(old) + 1, Len(p))
  <2>1. b \in Seq(Names)
    BY <1>1, Below
  <2>2. NewPath(old, new, p) = new \o b
    BY <1>1 DEF NewPath, AtOrBelow, Rebased
  <2> HIDE DEF b
  <2> QED
    BY <2>1, <2>2
<1>2. CASE ~IsPrefix(old, p)
  BY <1>2 DEF NewPath, AtOrBelow
<1> QED
  BY <1>1, <1>2

\* What sending a move does to the context.
SendsWith(h, new, replace, c) ==
  /\ DOMAIN c = ContextFields /\ c.at = "move" /\ c.path = open[h].path
  /\ c.name = open[h].path /\ c.target = new /\ c.ino = open[h].ino
  /\ c.isDir = open[h].isDir /\ c.delete = open[h].delete /\ c.pattern = open[h].pattern
  /\ c.seen = open[h].seen /\ c.twice = open[h].twice /\ c.exact = open[h].exact
  /\ c.displaced = open[h].displaced
  /\ open' = Alone([open EXCEPT ![h] = c])

LEMMA SendMoveIs ==
  ASSUME NEW h \in Handles, NEW new, NEW replace, Shape(open), SendMove(h, new, replace)
  PROVE  /\ h \in Live(open) /\ open[h].path # << >> /\ new # << >>
         /\ \E c : SendsWith(h, new, replace, c)
<1> DEFINE c == [open[h] EXCEPT !.at = "move", !.name = open[h].path, !.target = new,
                                !.replace = replace]
<1>1. /\ open[h].at = "idle" /\ open[h].path # << >> /\ new # << >>
      /\ open' = Alone([open EXCEPT ![h].at = "move", ![h].name = open[h].path,
                                    ![h].target = new, ![h].replace = replace])
  BY DEF SendMove
<1>2. h \in Live(open) /\ DOMAIN open[h] = ContextFields
  BY <1>1, LiveContext DEF Live
<1>3. [open EXCEPT ![h].at = "move", ![h].name = open[h].path,
                   ![h].target = new, ![h].replace = replace] = [open EXCEPT ![h] = c]
  BY <1>2 DEF Shape, ContextFields
<1>4. /\ DOMAIN c = ContextFields /\ c.at = "move" /\ c.path = open[h].path
      /\ c.name = open[h].path /\ c.target = new /\ c.ino = open[h].ino
      /\ c.isDir = open[h].isDir /\ c.delete = open[h].delete /\ c.pattern = open[h].pattern
      /\ c.seen = open[h].seen /\ c.twice = open[h].twice /\ c.exact = open[h].exact
      /\ c.displaced = open[h].displaced
  BY <1>2 DEF ContextFields
<1>5. SendsWith(h, new, replace, c)
  BY <1>1, <1>3, <1>4 DEF SendsWith
<1> QED
  BY <1>1, <1>2, <1>5

LEMMA SendMoveArrives ==
  ASSUME ArriveInv, NEW h \in Handles, NEW new \in Paths, NEW replace, SendMove(h, new, replace)
  PROVE  ArriveInv'
<1>1. Shape(open) /\ store' = store /\ requests' = requests
  BY DEF SendMove, ArriveInv, ContextsOK
<1>2. PICK c : SendsWith(h, new, replace, c)
  BY <1>1, SendMoveIs
<1>3. h \in Live(open) /\ open[h].path # << >> /\ new # << >> /\ HandleOK(store, open[h])
  BY <1>1, SendMoveIs DEF ArriveInv, ContextsOK
<1>4. PICK o : o = [open EXCEPT ![h] = c]
  OBVIOUS
<1>5. DOMAIN c = ContextFields /\ c.at # "none" /\ HandleOK(store, c)
  BY <1>2, <1>3 DEF SendsWith, HandleOK
<1>6. Shape(o) /\ open[h].at # "none"
  BY <1>1, <1>3, <1>4, <1>5, OneMoreShape DEF Live
<1>7. SameContexts(o, open')
  BY <1>2, <1>4, <1>6, AloneSame DEF SendsWith
<1> QED
  BY <1>1, <1>4, <1>5, <1>6, <1>7, OneHandleArrives

LEMMA MoveFailsArrives ==
  ASSUME ArriveInv, NEW h \in Handles, MoveFails(h)
  PROVE  ArriveInv'
<1>1. /\ ContextsOK(store, open) /\ open[h].at = "move"
      /\ store' = store /\ requests' = requests /\ open' = [open EXCEPT ![h].at = "idle"]
  BY DEF MoveFails, ArriveInv
<1>2. h \in Live(open)
  BY <1>1 DEF Live
<1>3. PICK o : o = [open EXCEPT ![h].at = "idle"]
  OBVIOUS
<1>4. ContextsOK(store, o)
  BY <1>1, <1>2, <1>3, NowAt
<1> QED
  BY <1>1, <1>3, <1>4 DEF ArriveInv, RequestsOK

\* What move_file does to the store and the tables.
LEMMA MoveFileIs ==
  ASSUME Sound(store), NEW h \in Handles, MoveFile(h),
         NEW old \in Paths, old = open[h].name, old # << >>,
         NEW new \in Paths, new = open[h].target, new # << >>
  PROVE  /\ requests' = requests
         /\ Sound(store') /\ Renames(store, store', KeyOf(store, old), KeyOf(store, new))
         /\ Resolve(store, Parent(new)) # NoIno
         /\ Resolve(store, old) # NoIno /\ Resolve(store, old) = store.children[KeyOf(store, old)]
         /\ open[h].replace \/ Resolve(store, new) = NoIno
         /\ \A p \in handles \cup DOMAIN dirOffsets : Len(NewPath(old, new, p)) <= MaxDepth
         /\ \A g \in Live(open) : Len(NewPath(open[h].path, new, open[g].path)) <= MaxDepth
         /\ handles' = {NewPath(old, new, p) : p \in handles}
         /\ dirOffsets' = Remap(dirOffsets, old, new)
<1> DEFINE dir == Resolve(store, Parent(old))
           newDir == Resolve(store, Parent(new))
           r == Rename(store, dir, Leaf(old), newDir, Leaf(new))
<1>0. requests' = requests /\ Renamed(open[h]).status = "ok" /\ store' = Renamed(open[h]).store
  BY Zenon DEF MoveFile
<1>1. /\ dir # NoIno /\ newDir # NoIno /\ (open[h].replace \/ Resolve(store, new) = NoIno)
      /\ r.status = "ok" /\ store' = r.store
  <2>1. Fails("refused", store).status # "ok"
    BY DEF Fails
  <2>2. dir # NoIno /\ newDir # NoIno /\ (open[h].replace \/ TargetFree(open[h].target))
    BY <1>0, <2>1 DEF Renamed
  <2>3. Renamed(open[h]) = r
    BY <2>2 DEF Renamed
  <2> HIDE DEF r
  <2> QED
    BY <1>0, <2>2, <2>3 DEF TargetFree
<1>2. /\ \A p \in handles \cup DOMAIN dirOffsets : Len(NewPath(old, new, p)) <= MaxDepth
      /\ \A g \in Live(open) : Len(NewPath(open[h].path, new, open[g].path)) <= MaxDepth
      /\ handles' = {NewPath(old, new, p) : p \in handles}
      /\ dirOffsets' = Remap(dirOffsets, old, new)
  BY Zenon DEF MoveFile
<1>3. old \in Seq(Names) /\ new \in Seq(Names)
  BY PathsAre
<1>4. Leaf(new) \in Names /\ Parent(new) \in Seq(Names) /\ Parent(old) \in Seq(Names)
  BY <1>3, Parents
<1>5. newDir \in RootIno .. store.next - 1
  BY <1>1, <1>4, ResolveType, ExistingInRange
<1>6. HasEntry(store, dir, Leaf(old))
  BY <1>1 DEF Rename, Fails
<1>7. KeyOf(store, old) = <<dir, Leaf(old)>> /\ KeyOf(store, new) = <<newDir, Leaf(new)>>
  BY DEF KeyOf
<1>8. Resolve(store, old) = StepIn(store, dir, Leaf(old))
  BY <1>3, ResolveChild
<1> DEFINE leaf == Leaf(old)
           newLeaf == Leaf(new)
           t == Rename(store, dir, leaf, newDir, newLeaf).store
<1>9. store' = t
  BY <1>1
<1>10. newLeaf \in Names /\ HasEntry(store, dir, leaf)
  BY <1>4, <1>6
<1>11. KeyOf(store, old) = <<dir, leaf>> /\ KeyOf(store, new) = <<newDir, newLeaf>>
  BY <1>7
<1>14. Resolve(store, old) = StepIn(store, dir, leaf)
  BY <1>8
<1> HIDE DEF dir, newDir, leaf, newLeaf
<1>12. Sound(t) /\ Renames(store, t, <<dir, leaf>>, <<newDir, newLeaf>>)
  BY <1>5, <1>10, RenameIs
<1>13. Resolve(store, old) = store.children[KeyOf(store, old)] /\ Resolve(store, old) # NoIno
  BY <1>10, <1>11, <1>14, EntriesAreFound
<1> HIDE DEF t, r
<1> QED
  BY <1>0, <1>1, <1>2, <1>9, <1>11, <1>12, <1>13 DEF newDir

\* What a rename does to a context.  The handle that asked for it is idle then.
MovedTo(c, d, old, current, new, table) ==
  /\ d.at \in {c.at, "idle"} /\ d.path = NewPath(current, new, c.path)
  /\ d.name = c.name /\ d.target = c.target /\ d.ino = c.ino
  /\ d.isDir = c.isDir /\ d.delete = c.delete
  /\ d.pattern = c.pattern /\ d.seen = c.seen /\ d.twice = c.twice
  /\ d.exact => c.exact /\ (d.path # c.path => d.path \notin table)
  /\ ~d.displaced =>
       ~c.displaced /\ ~Displaces(old, new, c.path) /\ ~Mistakes(old, current, c.path)

\* A handle that a late move did not mistake has the path it would have if the
\* move had come in time.
LEMMA NotMistaken ==
  ASSUME NEW old, NEW current, NEW new, NEW p, ~Mistakes(old, current, p)
  PROVE  NewPath(current, new, p) = NewPath(old, new, p)
BY DEF Mistakes, NewPath

LEMMA ContextMoved ==
  ASSUME NEW c, DOMAIN c = ContextFields, NEW old, NEW current, NEW new, NEW table,
         NEW p, p = NewPath(current, new, c.path),
         NEW e, e = (c.exact /\ (p # c.path => p \notin table)),
         NEW l, l = (c.displaced \/ Displaces(old, new, c.path) \/ Mistakes(old, current, c.path)),
         NEW d, d = [c EXCEPT !.path = p, !.exact = e, !.displaced = l]
  PROVE  DOMAIN d = ContextFields /\ MovedTo(c, d, old, current, new, table)
<1>1. /\ DOMAIN d = ContextFields
      /\ d.at = c.at /\ d.path = p /\ d.name = c.name /\ d.target = c.target /\ d.ino = c.ino
      /\ d.isDir = c.isDir /\ d.delete = c.delete
      /\ d.pattern = c.pattern /\ d.seen = c.seen /\ d.twice = c.twice
      /\ d.exact = e /\ d.displaced = l
  BY DEF ContextFields
<1>2. d.exact => c.exact /\ (p # c.path => p \notin table)
  BY <1>1, Zenon
<1>3. ~d.displaced =>
        ~c.displaced /\ ~Displaces(old, new, c.path) /\ ~Mistakes(old, current, c.path)
  BY <1>1, Zenon
<1>4. d.at \in {c.at, "idle"}
  BY <1>1
<1> QED
  BY <1>1, <1>2, <1>3, <1>4, Zenon DEF MovedTo

LEMMA ContextsMoved ==
  ASSUME NEW c, Shape(c), NEW old, NEW current, NEW new, NEW o, o = AfterMove(c, old, current, new)
  PROVE  /\ Shape(o) /\ Live(o) = Live(c)
         /\ \A g \in Live(c) : MovedTo(c[g], o[g], old, current, new, DOMAIN dirOffsets)
<1>1. ASSUME NEW g \in Live(c)
      PROVE  /\ DOMAIN o[g] = ContextFields /\ o[g].at = c[g].at
             /\ MovedTo(c[g], o[g], old, current, new, DOMAIN dirOffsets)
  <2> DEFINE p == NewPath(current, new, c[g].path)
             e == c[g].exact /\ (p # c[g].path => p \notin DOMAIN dirOffsets)
             l == c[g].displaced \/ Displaces(old, new, c[g].path) \/ Mistakes(old, current, c[g].path)
             d == [c[g] EXCEPT !.path = p, !.exact = e, !.displaced = l]
  <2>1. g \in Handles /\ DOMAIN c[g] = ContextFields
    BY LiveContext
  <2>2. o[g] = d
    BY <2>1 DEF AfterMove
  <2>3. PICK pp, ee, ll, dd, cc, table :
          /\ cc = c[g] /\ pp = p /\ dd = d /\ ee = e /\ ll = l /\ table = DOMAIN dirOffsets
    OBVIOUS
  <2>4. pp = NewPath(current, new, cc.path) /\ DOMAIN cc = ContextFields
    BY <2>1, <2>3
  <2>5. ee = (cc.exact /\ (pp # cc.path => pp \notin table))
    BY <2>3, Zenon
  <2>6. ll = (cc.displaced \/ Displaces(old, new, cc.path) \/ Mistakes(old, current, cc.path))
    BY <2>3, Zenon
  <2>7. dd = [cc EXCEPT !.path = pp, !.exact = ee, !.displaced = ll]
    BY <2>3, Zenon
  <2>8. DOMAIN dd = ContextFields /\ MovedTo(cc, dd, old, current, new, table)
    BY <2>4, <2>5, <2>6, <2>7, ContextMoved, Zenon
  <2>9. dd.at = cc.at
    BY <2>4, <2>7 DEF ContextFields
  <2> HIDE DEF d
  <2> QED
    BY <2>2, <2>3, <2>8, <2>9
<1>2. ASSUME NEW g \in Handles, g \notin Live(c) PROVE o[g] = NotOpen /\ o[g].at = "none"
  <2>1. o[g] = c[g]
    BY <1>2 DEF AfterMove
  <2>2. c[g] = NotOpen
    BY <1>2, ContextLive
  <2>3. NotOpen.at = "none"
    BY DEF NotOpen
  <2> QED
    BY <2>1, <2>2, <2>3
<1>3. \A g \in Live(c) : g \in Handles /\ c[g].at # "none"
  BY LiveContext
<1>4. DOMAIN o = Handles
  BY DEF AfterMove
<1>5. \A g \in Live(c) : o[g].at # "none" /\ DOMAIN o[g] = ContextFields
  BY <1>1, <1>3
<1>6. Shape(o)
  BY <1>2, <1>4, <1>5 DEF Shape
<1>7. Live(o) = Live(c)
  BY <1>2, <1>3, <1>5 DEF Live
<1> QED
  BY <1>1, <1>6, <1>7

\* What move_file does to the contexts.
LEMMA MoveContexts ==
  ASSUME ContextsOK(store, open), NEW h \in Handles, MoveFile(h),
         NEW old, old = open[h].name, NEW current, current = open[h].path,
         NEW new, new = open[h].target
  PROVE  \E o :
           /\ Shape(o) /\ Live(o) = Live(open) /\ SameContexts(o, open')
           /\ \A g \in Live(o) : \A k \in Live(o) \ {g} :
                open'[g].exact => o[g].path # o[k].path /\ o[g].path # o[k].name
           /\ \A g \in Live(open) :
                /\ MovedTo(open[g], o[g], old, current, new, DOMAIN dirOffsets)
                /\ o[g].exact => Undisturbed(store, store', open[g].ino)
<1>1. /\ open[h].at = "move"
      /\ open' = Alone(AfterMove(Disturbed([open EXCEPT ![h].at = "idle"], store, store'),
                                 old, current, new))
  BY Zenon DEF MoveFile
<1> DEFINE a == [open EXCEPT ![h].at = "idle"]
<1>2. a = [open EXCEPT ![h].at = "idle"]
  OBVIOUS
<1>6. h \in Live(open)
  BY <1>1 DEF Live
<1>7. /\ ContextsOK(store, a) /\ Live(a) = Live(open)
      /\ \A g \in Handles \ {h} : a[g] = open[g]
      /\ a[h].at = "idle" /\ SameButAt(open[h], a[h])
  BY <1>6, NowAt
<1> HIDE DEF a
<1>3. PICK c : c = Disturbed(a, store, store')
  OBVIOUS
<1>8. /\ SameContexts(a, c)
      /\ \A g \in Live(a) : c[g].exact => Undisturbed(store, store', a[g].ino)
  BY <1>3, <1>7, DisturbedSame DEF ContextsOK
<1>4. PICK m : m = AfterMove(c, old, current, new)
  OBVIOUS
<1>5. open' = Alone(m)
  BY <1>1, <1>2, <1>3, <1>4
<1>9. /\ Shape(m) /\ Live(m) = Live(c)
      /\ \A g \in Live(c) : MovedTo(c[g], m[g], old, current, new, DOMAIN dirOffsets)
  BY <1>4, <1>8, ContextsMoved DEF SameContexts
<1>10. /\ SameContexts(m, open')
       /\ \A g \in Live(m) : \A k \in Live(m) \ {g} :
            open'[g].exact => m[g].path # m[k].path /\ m[g].path # m[k].name
  BY <1>5, <1>9, AloneSame
<1>11. Live(c) = Live(open)
  BY <1>7, <1>8 DEF SameContexts
<1>12. ASSUME NEW g \in Live(open)
       PROVE  /\ MovedTo(open[g], m[g], old, current, new, DOMAIN dirOffsets)
              /\ m[g].exact => Undisturbed(store, store', open[g].ino)
  <2>1. SameButExact(a[g], c[g]) /\ (c[g].exact => a[g].exact)
    BY <1>7, <1>8 DEF SameContexts
  <2>2. /\ a[g].path = open[g].path /\ a[g].name = open[g].name /\ a[g].target = open[g].target
        /\ a[g].ino = open[g].ino /\ a[g].isDir = open[g].isDir /\ a[g].delete = open[g].delete
        /\ a[g].pattern = open[g].pattern /\ a[g].seen = open[g].seen
        /\ a[g].twice = open[g].twice /\ a[g].exact = open[g].exact
        /\ a[g].displaced = open[g].displaced /\ a[g].at \in {open[g].at, "idle"}
    BY <1>7 DEF SameButAt, Live
  <2>3. MovedTo(c[g], m[g], old, current, new, DOMAIN dirOffsets)
    BY <1>9, <1>11
  <2>4. c[g].exact => Undisturbed(store, store', open[g].ino)
    BY <1>7, <1>8, <2>2
  <2> QED
    BY <2>1, <2>2, <2>3, <2>4 DEF MovedTo, SameButExact
<1> QED
  <2> WITNESS m
  <2> QED
    BY <1>7, <1>9, <1>10, <1>11, <1>12

LEMMA MoveFileArrives ==
  ASSUME ArriveInv, NEW h \in Handles, MoveFile(h)
  PROVE  ArriveInv'
<1> DEFINE old == open[h].name
           current == open[h].path
           new == open[h].target
<1>1. open[h].at = "move"
  BY Zenon DEF MoveFile
<1>2. /\ ContextsOK(store, open) /\ Sound(store) /\ HandleOK(store, open[h])
      /\ old \in Paths /\ current \in Paths /\ new \in Paths /\ old # << >> /\ new # << >>
  BY <1>1 DEF ArriveInv, ContextsOK, HandleOK, Live
<1> HIDE DEF old, current, new
<1>3. /\ requests' = requests
      /\ Sound(store') /\ Renames(store, store', KeyOf(store, old), KeyOf(store, new))
      /\ Resolve(store, Parent(new)) # NoIno
      /\ \A g \in Live(open) : Len(NewPath(current, new, open[g].path)) <= MaxDepth
  BY <1>2, MoveFileIs DEF old, new, current
<1>4. PICK o :
           /\ Shape(o) /\ Live(o) = Live(open) /\ SameContexts(o, open')
           /\ \A g \in Live(open) : MovedTo(open[g], o[g], old, current, new, DOMAIN dirOffsets)
  BY <1>2, MoveContexts DEF old, current, new
<1>5. NoNewDirs(store, store') /\ old \in Seq(Names) /\ new \in Seq(Names) /\ current \in Seq(Names)
  BY <1>2, <1>3, ChangesMakeNoDirs, PathsAre
<1>6. ASSUME NEW g \in Live(open) PROVE HandleOK(store', o[g])
  <2> DEFINE c == open[g]
             d == o[g]
             p == c.path
  <2>1. HandleOK(store, c) /\ MovedTo(c, d, old, current, new, DOMAIN dirOffsets)
    BY <1>2, <1>4 DEF ContextsOK
  <2>2. p \in Seq(Names) /\ Len(NewPath(current, new, p)) <= MaxDepth
    BY <1>3, <2>1, PathsAre DEF HandleOK
  <2> HIDE DEF c, d
  <2>3. NewPath(current, new, p) \in Paths
    BY <1>5, <2>2, NewPathIs, PathsAre
  <2>4. d.path = NewPath(current, new, p) /\ d.name = c.name /\ d.target = c.target
        /\ d.ino = c.ino /\ d.isDir = c.isDir /\ d.delete = c.delete /\ d.at \in {c.at, "idle"}
        /\ (~d.displaced => ~c.displaced /\ ~Displaces(old, new, p) /\ ~Mistakes(old, current, p))
    BY <2>1 DEF MovedTo
  <2>5. ASSUME ~d.displaced PROVE Resolve(store', d.path) = c.ino
    <3>1. ~c.displaced /\ ~Displaces(old, new, p) /\ NewPath(current, new, p) = NewPath(old, new, p)
      BY <2>4, <2>5, NotMistaken
    <3>2. Resolve(store, p) = c.ino /\ c.ino # NoIno
      BY <2>1, <3>1 DEF HandleOK, NoIno, RootIno
    <3> HIDE DEF p
    <3>3. /\ ~(Resolve(store, new) # NoIno /\ IsPrefix(new, p) /\ ~IsPrefix(old, p))
          /\ ~(old # new /\ IsPrefix(old, new) /\ IsPrefix(old, p))
      BY <3>1 DEF Displaces, AtOrBelow
    <3>4. Resolve(store', NewPath(old, new, p)) = Resolve(store, p)
      BY <1>2, <1>3, <1>5, <2>2, <3>2, <3>3, MoveCarries
    <3> QED
      BY <2>4, <3>1, <3>2, <3>4
  <2>6. c.ino \in RootIno .. store'.next - 1
    <3>1. store.next \in Nat /\ store'.next \in Nat
      BY <1>2, <1>3 DEF Sound, IsStore
    <3> QED
      BY <1>5, <2>1, <3>1 DEF HandleOK, NoNewDirs, RootIno
  <2>7. c.delete /\ ~c.isDir => ~IsDir(store', c.ino)
    BY <1>5, <2>1 DEF HandleOK, NoNewDirs
  <2>8. /\ c.name \in Paths /\ c.target \in Paths
        /\ d.at = "move" => c.name # << >> /\ c.target # << >>
    BY <2>1, <2>4 DEF HandleOK
  <2>9. HandleOK(store', d)
    BY <2>3, <2>4, <2>5, <2>6, <2>7, <2>8 DEF HandleOK
  <2> QED
    BY <2>9 DEF d
<1>7. ContextsOK(store', o)
  BY <1>4, <1>6 DEF ContextsOK
<1>8. ContextsOK(store', open')
  BY <1>4, <1>7, SameContextsOK
<1> QED
  BY <1>3, <1>8 DEF ArriveInv, RequestsOK

LEMMA SetSizeIs ==
  ASSUME NEW s, NEW i, NEW size, Sound(s)
  PROVE  LET t == SetSize(s, i, size).store IN Sound(t) /\ SameTree(s, t)
<1>1. CASE ~Exists(s, i)
  BY <1>1 DEF SetSize, Fails, SameTree, SamePlace
<1>2. CASE Exists(s, i)
  <2> DEFINE data == Resized(s.nodes[i].data, size)
             t == [s EXCEPT !.nodes[i].data = data]
  <2>1. SetSize(s, i, size).store = t
    BY <1>2 DEF SetSize, Ok
  <2> HIDE DEF data
  <2>2. Sound(t) /\ SameTree(s, t)
    BY <1>2, DataIs
  <2> HIDE DEF t
  <2> QED
    BY <2>1, <2>2
<1> QED
  BY <1>1, <1>2

LEMMA WriteIs ==
  ASSUME NEW s, NEW i, NEW offset, NEW bytes, Sound(s)
  PROVE  LET t == Write(s, i, offset, bytes).store IN Sound(t) /\ SameTree(s, t)
<1>1. CASE FileStatus(s, i) # "ok"
  BY <1>1 DEF Write, Fails, SameTree, SamePlace
<1>2. CASE FileStatus(s, i) = "ok"
  <2> DEFINE data == Overwritten(s.nodes[i].data, offset, bytes)
             t == [s EXCEPT !.nodes[i].data = data]
  <2>1. Write(s, i, offset, bytes).store = t
    BY <1>2 DEF Write, Ok
  <2>3. Exists(s, i)
    BY <1>2 DEF FileStatus
  <2> HIDE DEF data
  <2>2. Sound(t) /\ SameTree(s, t)
    BY <2>3, DataIs
  <2> HIDE DEF t
  <2> QED
    BY <2>1, <2>2
<1> QED
  BY <1>1, <1>2

LEMMA WriteFileArrives ==
  ASSUME ArriveInv, NEW h, NEW offset, NEW bytes, NEW toEof, NEW paging,
         WriteFile(h, offset, bytes, toEof, paging)
  PROVE  ArriveInv'
<1>1. PICK n, data : store' = Write(store, open[h].ino, n, data).store
  BY DEF WriteFile
<1>2. open' = open /\ requests' = requests
  BY DEF WriteFile
<1>3. Sound(store') /\ SameTree(store, store')
  BY <1>1, WriteIs DEF ArriveInv
<1> QED
  BY <1>2, <1>3, SameTreeArrives

LEMMA SetEndOfFileArrives ==
  ASSUME ArriveInv, NEW h, NEW size, SetEndOfFile(h, size)
  PROVE  ArriveInv'
<1>1. store' = SetSize(store, open[h].ino, size).store /\ open' = open /\ requests' = requests
  BY DEF SetEndOfFile
<1>2. Sound(store') /\ SameTree(store, store')
  BY <1>1, SetSizeIs DEF ArriveInv
<1> QED
  BY <1>1, <1>2, SameTreeArrives

LEMMA NextArrives == ArriveInv /\ [Next]_vars => ArriveInv'
<1> SUFFICES ASSUME ArriveInv, [Next]_vars PROVE ArriveInv'
  OBVIOUS
<1>1. CASE Opening
  BY <1>1, CreateFileArrives DEF Opening, ArriveInv, RequestsOK
<1>2. CASE Listing
  BY <1>2, SendArrives DEF Listing
<1>3. CASE Cleaning
  BY <1>3, SendArrives DEF Cleaning
<1>4. CASE Closing
  BY <1>4, SendArrives DEF Closing
<1>5. ASSUME NEW h \in Handles, Find(h) PROVE ArriveInv'
  BY <1>5, FindArrives
<1>6. ASSUME NEW h \in Handles, Cleanup(h) PROVE ArriveInv'
  BY <1>6, CleanupArrives
<1>7. ASSUME NEW h \in Handles, CloseFile(h) PROVE ArriveInv'
  BY <1>7, CloseFileArrives
<1>8. ASSUME NEW h \in Handles, CloseFileOffset(h) PROVE ArriveInv'
  BY <1>8, CloseFileOffsetArrives
<1>9. CASE Deleting
  BY <1>9, DeleteArrives DEF Deleting
<1>10. CASE Moving
  BY <1>10, SendMoveArrives DEF Moving, ArriveInv, RequestsOK
<1>11. CASE Writing
  BY <1>11, WriteFileArrives DEF Writing
<1>12. CASE Resizing
  BY <1>12, SetEndOfFileArrives DEF Resizing
<1>13. CASE UNCHANGED vars
  BY <1>13 DEF vars, ArriveInv, ContextsOK, RequestsOK, Live, Shape
<1>14. ASSUME NEW h \in Handles, MoveFile(h) PROVE ArriveInv'
  BY <1>14, MoveFileArrives
<1>15. ASSUME NEW h \in Handles, MoveFails(h) PROVE ArriveInv'
  BY <1>15, MoveFailsArrives
<1> QED
  BY <1>1, <1>2, <1>3, <1>4, <1>5, <1>6, <1>7, <1>8, <1>9, <1>10, <1>11, <1>12, <1>13, <1>14,
     <1>15 DEF Next

LEMMA AlwaysArrive == Spec => []ArriveInv
BY InitArrive, NextArrives, PTL DEF Spec

\* The path of every open file leads to the inode in its context, until
\* something else takes its place or a late move mistakes it for what has its
\* old name now: whatever is opened, renamed in time or late, deleted and
\* closed, at any number of handles, names and levels (routes.rs:39,
\* dispatch.rs:69).
THEOREM MountedHandlesArrive == Spec => []HandlesArrive
<1>1. ArriveInv => HandlesArrive
  BY DEF ArriveInv, ContextsOK, HandleOK, HandlesArrive
<1> QED
  BY <1>1, AlwaysArrive, PTL

\* Closing a deleted file removes that file alone, and of the directories only
\* empty ones, through any renames since it was opened that did not mistake it
\* (routes.rs:45).
THEOREM MountedDeletesOwnFile == Spec => DeletesOwnFile
<1> DEFINE D == \A h \in Handles :
                  Cleanup(h) /\ ~open[h].displaced /\ open[h].name = open[h].path =>
                    \A i \in DOMAIN store.nodes \ DOMAIN store'.nodes :
                      /\ open[h].delete /\ i = open[h].ino
                      /\ IsDir(store, i) => EntriesOf(store', i) = {}
<1>1. ArriveInv => D
  <2> SUFFICES ASSUME ArriveInv, NEW h \in Handles, Cleanup(h), ~open[h].displaced,
                      open[h].name = open[h].path,
                      NEW i \in DOMAIN store.nodes \ DOMAIN store'.nodes
               PROVE  /\ open[h].delete /\ i = open[h].ino
                      /\ IsDir(store, i) => EntriesOf(store', i) = {}
    OBVIOUS
  <2> DEFINE o == open[h]
             key == KeyOf(store, o.name)
  <2>1. o.at = "cleanup"
    BY DEF Cleanup
  <2>2. HandleOK(store, o) /\ Sound(store) /\ o.name \in Seq(Names)
    BY <2>1, PathsAre DEF ArriveInv, ContextsOK, Live, HandleOK
  <2>3. /\ o.delete /\ Removes(store, store', key)
        /\ Resolve(store, o.name) = store.children[key]
        /\ o.isDir => EntriesOf(store', store.children[key]) = {}
    BY <2>2, CleanupIs
  <2> HIDE DEF o, key
  <2>4. i = store.children[key]
    BY <2>3 DEF Removes
  <2>5. i = o.ino
    BY <2>2, <2>3, <2>4 DEF HandleOK, o
  <2>6. IsDir(store, i) => o.isDir
    BY <2>2, <2>3, <2>5 DEF HandleOK
  <2> QED
    BY <2>3, <2>4, <2>5, <2>6 DEF o
<1>2. ArriveInv => [D]_vars
  BY <1>1
<1>3. [][D]_vars => DeletesOwnFile
  BY DEF DeletesOwnFile
<1> HIDE DEF D
<1> QED
  BY <1>2, <1>3, AlwaysArrive, PTL

(***************************************************************************)
(* Listings.                                                               *)
(***************************************************************************)

LEMMA KeysAre ==
  ASSUME NEW s, Sound(s), NEW i, NEW key \in EntriesOf(s, i)
  PROVE  /\ key \in DOMAIN s.children /\ key[1] = i /\ key[2] \in Names /\ key = <<i, key[2]>>
         /\ s.children[key] \in DOMAIN s.nodes /\ s.nodes[s.children[key]].name = key[2]
         /\ s.children[key] \in Nat /\ s.children[key] < s.next
         /\ key[2] # "." /\ key[2] # ".."
<1>1. key \in DOMAIN s.children /\ key[1] = i
  BY DEF EntriesOf
<1>2. key[2] \in Names /\ key = <<i, key[2]>>
  BY <1>1 DEF Sound
<1>3. s.children[key] \in DOMAIN s.nodes /\ s.nodes[s.children[key]].name = key[2]
  BY <1>1, <1>2 DEF Sound, MapsAgree
<1> QED
  BY <1>1, <1>2, <1>3, NamesAssumption DEF Sound, IsStore

LEMMA EntriesFinite ==
  ASSUME NEW s, Sound(s), NEW i
  PROVE  /\ IsFiniteSet(EntriesOf(s, i)) /\ Cardinality(EntriesOf(s, i)) \in Nat
<1>1. EntriesOf(s, i) \in SUBSET DOMAIN s.children /\ IsFiniteSet(DOMAIN s.children)
  BY DEF EntriesOf, Sound
<1> QED
  BY <1>1, FS_Subset, FS_CardinalityType

LEMMA RankIs ==
  ASSUME NEW s, Sound(s), NEW i, NEW key \in EntriesOf(s, i)
  PROVE  /\ Rank(s, i, key) \in Nat
         /\ 3 <= Rank(s, i, key) /\ Rank(s, i, key) <= 2 + Cardinality(EntriesOf(s, i))
<1> DEFINE E == EntriesOf(s, i)
           T == {k \in E : s.children[k] < s.children[key]}
<1>1. IsFiniteSet(E) /\ Cardinality(E) \in Nat
  BY EntriesFinite
<1>2. T \in SUBSET (E \ {key})
  BY KeysAre
<1>3. Rank(s, i, key) = 3 + Cardinality(T)
  BY DEF Rank
<1> HIDE DEF E, T
<1>4. IsFiniteSet(E \ {key}) /\ Cardinality(E \ {key}) = Cardinality(E) - 1
  BY <1>1, FS_RemoveElement DEF E
<1>5. IsFiniteSet(T) /\ Cardinality(T) <= Cardinality(E \ {key})
  BY <1>2, <1>4, FS_Subset
<1>6. Cardinality(T) \in Nat
  BY <1>5, FS_CardinalityType
<1> QED
  BY <1>1, <1>3, <1>4, <1>5, <1>6 DEF E

\* What readdir sends.
LEMMA ReadDirIs ==
  ASSUME NEW s, Sound(s), NEW i, NEW offset \in Nat, NEW e \in ReadDir(s, i, offset).entries
  PROVE  /\ IsDir(s, i) /\ e.offset \in Nat /\ e.offset > offset
         /\ e.offset <= 2 + Cardinality(EntriesOf(s, i))
         /\ \/ e.name = "." /\ e.offset = 1
            \/ e.name = ".." /\ e.offset = 2
            \/ \E key \in EntriesOf(s, i) : e.name = key[2] /\ e.offset = Rank(s, i, key)
<1>1. IsDir(s, i)
  BY DEF ReadDir
<1>2. /\ e.offset > offset
      /\ e \in {[name |-> ".", ino |-> i, offset |-> 1],
                [name |-> "..", ino |-> s.nodes[i].parent, offset |-> 2]}
               \cup {[name |-> s.nodes[s.children[key]].name, ino |-> s.children[key],
                      offset |-> Rank(s, i, key)] :
                       key \in {k \in EntriesOf(s, i) : Exists(s, s.children[k])}}
  BY <1>1 DEF ReadDir
<1>3. Cardinality(EntriesOf(s, i)) \in Nat
  BY EntriesFinite
<1>4. CASE e = [name |-> ".", ino |-> i, offset |-> 1]
  BY <1>1, <1>2, <1>3, <1>4
<1>5. CASE e = [name |-> "..", ino |-> s.nodes[i].parent, offset |-> 2]
  BY <1>1, <1>2, <1>3, <1>5
<1>6. CASE \E key \in EntriesOf(s, i) :
             e = [name |-> s.nodes[s.children[key]].name, ino |-> s.children[key],
                  offset |-> Rank(s, i, key)]
  <2>1. PICK key \in EntriesOf(s, i) :
             e = [name |-> s.nodes[s.children[key]].name, ino |-> s.children[key],
                  offset |-> Rank(s, i, key)]
    BY <1>6
  <2>2. e.name = key[2] /\ e.offset = Rank(s, i, key)
    BY <2>1, KeysAre
  <2> QED
    BY <1>1, <1>2, <2>2, RankIs
<1> QED
  BY <1>2, <1>4, <1>5, <1>6

\* And it sends everything.
LEMMA ReadDirSends ==
  ASSUME NEW s, Sound(s), NEW i, IsDir(s, i), NEW offset \in Nat
  PROVE  /\ 1 > offset => \E e \in ReadDir(s, i, offset).entries : e.name = "." /\ e.offset = 1
         /\ 2 > offset => \E e \in ReadDir(s, i, offset).entries : e.name = ".." /\ e.offset = 2
         /\ \A key \in EntriesOf(s, i) : Rank(s, i, key) > offset =>
              \E e \in ReadDir(s, i, offset).entries :
                e.name = key[2] /\ e.offset = Rank(s, i, key)
<1> DEFINE entries == ReadDir(s, i, offset).entries
           dot == [name |-> ".", ino |-> i, offset |-> 1]
           dots == [name |-> "..", ino |-> s.nodes[i].parent, offset |-> 2]
           entry(key) == [name |-> s.nodes[s.children[key]].name, ino |-> s.children[key],
                          offset |-> Rank(s, i, key)]
<1>1. entries = {e \in {dot, dots} \cup {entry(key) :
                         key \in {k \in EntriesOf(s, i) : Exists(s, s.children[k])}} :
                   e.offset > offset}
  BY DEF ReadDir
<1>2. 1 > offset => dot \in entries
  BY <1>1
<1>3. 2 > offset => dots \in entries
  BY <1>1
<1>4. ASSUME NEW key \in EntriesOf(s, i), Rank(s, i, key) > offset
      PROVE  entry(key) \in entries /\ entry(key).name = key[2] /\ entry(key).offset = Rank(s, i, key)
  <2>1. Exists(s, s.children[key]) /\ s.nodes[s.children[key]].name = key[2]
    BY KeysAre DEF Exists
  <2> QED
    BY <1>1, <1>4, <2>1
<1>5. dot.name = "." /\ dot.offset = 1 /\ dots.name = ".." /\ dots.offset = 2
  OBVIOUS
<1> HIDE DEF entries, dot, dots, entry
<1>6. 1 > offset => \E e \in entries : e.name = "." /\ e.offset = 1
  BY <1>2, <1>5
<1>7. 2 > offset => \E e \in entries : e.name = ".." /\ e.offset = 2
  BY <1>3, <1>5
<1> QED
  BY <1>4, <1>6, <1>7 DEF entries

Matching(s, c, from) == {e \in ReadDir(s, c.ino, from).entries : e.name \in c.pattern}

\* Of the entries M that match, Dokan takes S, and n is kept.
Taken(s, c, from, M, S, n) ==
  /\ M = Matching(s, c, from)
  /\ \E until \in {0} \cup {e.offset : e \in M} : S = {e \in M : e.offset <= until}
  /\ \E entries : n = NextOffset(entries, S, from)

\* The offset that is kept is the last one Dokan took, if it took any.
LEMMA OffsetKept ==
  ASSUME NEW s, Sound(s), NEW c, NEW from \in Nat, NEW M, NEW S, NEW n, Taken(s, c, from, M, S, n)
  PROVE  /\ n \in Nat /\ from <= n
         /\ \A e \in M : e \in S <=> e.offset <= n
         /\ S = {} => n = from
         /\ S # {} => n <= 2 + Cardinality(EntriesOf(s, c.ino)) /\ IsDir(s, c.ino)
<1>1. \A e \in M : /\ e.offset \in Nat /\ e.offset > from /\ IsDir(s, c.ino)
                   /\ e.offset <= 2 + Cardinality(EntriesOf(s, c.ino))
  BY ReadDirIs DEF Matching, Taken
<1>4. PICK until \in {0} \cup {e.offset : e \in M} : S = {e \in M : e.offset <= until}
  BY DEF Taken
<1>5. n = IF S = {} THEN from ELSE Max({e.offset : e \in S})
  BY DEF Taken, NextOffset
<1>2. CASE S = {}
  BY <1>1, <1>2, <1>4, <1>5
<1>3. CASE S # {}
  <2>1. PICK f \in M : f.offset = until /\ f \in S
    BY <1>1, <1>3, <1>4
  <2>2. until \in {e.offset : e \in S} /\ \A x \in {e.offset : e \in S} : x \in Nat /\ x <= until
    BY <1>1, <1>4, <2>1
  <2>3. Max({e.offset : e \in S}) = until
    <3> DEFINE T == {e.offset : e \in S}
    <3>1. until \in T /\ \A x \in T : x \in Nat /\ x <= until
      BY <2>2
    <3> HIDE DEF T
    <3>2. \A x \in T : (\A y \in T : x >= y) => x = until
      BY <3>1
    <3>3. Max(T) = until
      BY <3>1, <3>2 DEF Max
    <3> QED
      BY <3>3 DEF T
  <2>4. n = until
    BY <1>3, <1>5, <2>3
  <2>5. n \in Nat /\ from <= n /\ n <= 2 + Cardinality(EntriesOf(s, c.ino)) /\ IsDir(s, c.ino)
    BY <1>1, <2>1, <2>4
  <2>6. \A e \in M : e \in S <=> e.offset <= n
    BY <1>4, <2>4
  <2> QED
    BY <1>3, <2>5, <2>6
<1> QED
  BY <1>2, <1>3

LEMMA OffsetKeptType ==
  ASSUME NEW s, Sound(s), NEW c, NEW from \in Nat, NEW M, NEW S, NEW n, Taken(s, c, from, M, S, n)
  PROVE  n \in Nat
BY OffsetKept

\* The listing of c is exact up to the offset r.
ListedTo(s, c, r) ==
  /\ ~c.twice
  /\ r <= 2 + Cardinality(EntriesOf(s, c.ino))
  /\ c.seen \subseteq {".", ".."} \cup {key[2] : key \in EntriesOf(s, c.ino)}
  /\ "." \in c.seen <=> "." \in c.pattern /\ 1 <= r
  /\ ".." \in c.seen <=> ".." \in c.pattern /\ 2 <= r
  /\ \A key \in EntriesOf(s, c.ino) :
       key[2] \in c.seen <=> key[2] \in c.pattern /\ Rank(s, c.ino, key) <= r

LEMMA ListedToExact ==
  ASSUME NEW s, Sound(s), NEW c, NEW r \in Nat, ListedTo(s, c, r)
  PROVE  /\ ~c.twice
         /\ \A e \in ReadDir(s, c.ino, 0).entries :
              (e.name \in c.pattern /\ e.offset <= r) <=> e.name \in c.seen
<1>1. ASSUME NEW e \in ReadDir(s, c.ino, 0).entries
      PROVE  (e.name \in c.pattern /\ e.offset <= r) <=> e.name \in c.seen
  BY ReadDirIs DEF ListedTo
<1> QED
  BY <1>1 DEF ListedTo

\* A call of the listing.
LEMMA ListingGoesOn ==
  ASSUME NEW s, Sound(s), NEW c, NEW from \in Nat, NEW M, NEW S, NEW n, Taken(s, c, from, M, S, n),
         ListedTo(s, c, from),
         NEW d, d.ino = c.ino, d.pattern = c.pattern,
         d.seen = c.seen \cup {e.name : e \in S},
         d.twice = (c.twice \/ {e.name : e \in S} \cap c.seen # {})
  PROVE  ListedTo(s, d, n)
<1> DEFINE i == c.ino
           E == EntriesOf(s, i)
<1>1. /\ n \in Nat /\ from <= n
      /\ \A e \in M : e \in S <=> e.offset <= n
      /\ S = {} => n = from
      /\ S # {} => n <= 2 + Cardinality(E) /\ IsDir(s, i)
  <2>2. n \in Nat /\ from <= n
    BY OffsetKept
  <2>3. \A e \in M : e \in S <=> e.offset <= n
    BY OffsetKept
  <2>4. S = {} => n = from
    BY OffsetKept
  <2>5. S # {} => n <= 2 + Cardinality(EntriesOf(s, c.ino))
    BY OffsetKept
  <2>6. S # {} => IsDir(s, c.ino)
    BY OffsetKept
  <2>1. /\ n \in Nat /\ from <= n
        /\ \A e \in M : e \in S <=> e.offset <= n
        /\ S = {} => n = from
        /\ S # {} => n <= 2 + Cardinality(EntriesOf(s, c.ino)) /\ IsDir(s, c.ino)
    BY <2>2, <2>3, <2>4, <2>5, <2>6
  <2> QED
    BY <2>1, Zenon
<1>2. \A e \in S : e \in M /\ e \in ReadDir(s, i, from).entries /\ e.name \in c.pattern
  BY DEF Taken, Matching
<1>3. \A e \in S :
        /\ e.offset > from /\ e.offset <= n
        /\ \/ e.name = "." /\ e.offset = 1
           \/ e.name = ".." /\ e.offset = 2
           \/ \E key \in E : e.name = key[2] /\ e.offset = Rank(s, i, key)
  BY <1>1, <1>2, ReadDirIs
<1>4. /\ \A key \in E : /\ key = <<i, key[2]>> /\ key[2] # "." /\ key[2] # ".."
                        /\ Rank(s, i, key) \in Nat
  BY KeysAre, RankIs
<1>5. \A key \in E, k \in E : key[2] = k[2] => key = k
  BY <1>4
<1>6. {e.name : e \in S} \cap c.seen = {}
  <2> SUFFICES ASSUME NEW e \in S, e.name \in c.seen PROVE FALSE
    OBVIOUS
  <2>1. CASE e.name = "." /\ e.offset = 1
    BY <1>3, <2>1 DEF ListedTo
  <2>2. CASE e.name = ".." /\ e.offset = 2
    BY <1>3, <2>2 DEF ListedTo
  <2>3. CASE \E key \in E : e.name = key[2] /\ e.offset = Rank(s, i, key)
    BY <1>3, <1>4, <2>3 DEF ListedTo
  <2> QED
    BY <1>3, <2>1, <2>2, <2>3
<1>7. ~d.twice
  BY <1>6 DEF ListedTo
<1>8. d.seen \subseteq {".", ".."} \cup {key[2] : key \in E}
  BY <1>3 DEF ListedTo
<1>9. n <= 2 + Cardinality(E)
  BY <1>1 DEF ListedTo
<1>10. "." \in {e.name : e \in S} <=> "." \in c.pattern /\ 1 <= n /\ 1 > from
  <2>1. ASSUME NEW e \in S, e.name = "." PROVE "." \in c.pattern /\ 1 <= n /\ 1 > from
    BY <1>2, <1>3, <1>4, <2>1
  <2>2. ASSUME "." \in c.pattern, 1 <= n, 1 > from PROVE "." \in {e.name : e \in S}
    <3>1. IsDir(s, i)
      BY <1>1, <2>2
    <3>2. PICK e \in ReadDir(s, i, from).entries : e.name = "." /\ e.offset = 1
      BY <2>2, <3>1, ReadDirSends
    <3>3. e \in M
      BY <2>2, <3>2 DEF Taken, Matching
    <3> QED
      BY <1>1, <2>2, <3>2, <3>3
  <2> QED
    BY <2>1, <2>2
<1>11. ".." \in {e.name : e \in S} <=> ".." \in c.pattern /\ 2 <= n /\ 2 > from
  <2>1. ASSUME NEW e \in S, e.name = ".." PROVE ".." \in c.pattern /\ 2 <= n /\ 2 > from
    BY <1>2, <1>3, <1>4, <2>1
  <2>2. ASSUME ".." \in c.pattern, 2 <= n, 2 > from PROVE ".." \in {e.name : e \in S}
    <3>1. IsDir(s, i)
      BY <1>1, <2>2
    <3>2. PICK e \in ReadDir(s, i, from).entries : e.name = ".." /\ e.offset = 2
      BY <2>2, <3>1, ReadDirSends
    <3>3. e \in M
      BY <2>2, <3>2 DEF Taken, Matching
    <3> QED
      BY <1>1, <2>2, <3>2, <3>3
  <2> QED
    BY <2>1, <2>2
<1>12. ASSUME NEW key \in E
       PROVE  key[2] \in {e.name : e \in S} <=>
                key[2] \in c.pattern /\ Rank(s, i, key) <= n /\ Rank(s, i, key) > from
  <2>1. ASSUME NEW e \in S, e.name = key[2]
        PROVE  key[2] \in c.pattern /\ Rank(s, i, key) <= n /\ Rank(s, i, key) > from
    BY <1>2, <1>3, <1>4, <1>5, <2>1
  <2>2. ASSUME key[2] \in c.pattern, Rank(s, i, key) <= n, Rank(s, i, key) > from
        PROVE  key[2] \in {e.name : e \in S}
    <3>1. IsDir(s, i)
      BY <1>1, <1>4, <2>2
    <3>2. PICK e \in ReadDir(s, i, from).entries : e.name = key[2] /\ e.offset = Rank(s, i, key)
      BY <2>2, <3>1, ReadDirSends
    <3>3. e \in M
      BY <2>2, <3>2 DEF Taken, Matching
    <3> QED
      BY <1>1, <2>2, <3>2, <3>3
  <2> QED
    BY <2>1, <2>2
<1>13. "." \in d.seen <=> "." \in d.pattern /\ 1 <= n
  BY <1>1, <1>10 DEF ListedTo
<1>14. ".." \in d.seen <=> ".." \in d.pattern /\ 2 <= n
  BY <1>1, <1>11 DEF ListedTo
<1>15. ASSUME NEW key \in E PROVE key[2] \in d.seen <=> key[2] \in d.pattern /\ Rank(s, i, key) <= n
  BY <1>1, <1>4, <1>12 DEF ListedTo
<1> QED
  BY <1>7, <1>8, <1>9, <1>13, <1>14, <1>15 DEF ListedTo

\* A directory that is not disturbed keeps the offsets of its entries, and
\* what is new comes after them.
NewAreLast(s, t) ==
  \A key \in DOMAIN t.children \ DOMAIN s.children :
    ~Exists(s, t.children[key]) => t.children[key] >= s.next

LEMMA ListingKept ==
  ASSUME NEW s, NEW t, Sound(s), Sound(t), NewAreLast(s, t), NEW c, Undisturbed(s, t, c.ino),
         NEW r \in Nat, ListedTo(s, c, r)
  PROVE  ListedTo(t, c, r)
<1> DEFINE i == c.ino
           E == EntriesOf(s, i)
           F == EntriesOf(t, i)
<1>1. E \subseteq F /\ \A key \in E : t.children[key] = s.children[key]
  BY KeysAre DEF Undisturbed, EntriesOf, HasEntry
<1>2. \A key \in F \ E : t.children[key] >= s.next
  <2> SUFFICES ASSUME NEW key \in F \ E PROVE t.children[key] >= s.next
    OBVIOUS
  <2>1. ~Exists(s, t.children[key])
    BY DEF Undisturbed
  <2>2. key \in DOMAIN t.children \ DOMAIN s.children
    BY DEF EntriesOf
  <2> QED
    BY <2>1, <2>2 DEF NewAreLast
<1>3. \A key \in E : s.children[key] \in Nat /\ s.children[key] < s.next
  BY KeysAre
<1>4. s.next \in Nat /\ \A key \in F : t.children[key] \in Nat
  BY KeysAre DEF Sound, IsStore
<1>5. /\ IsFiniteSet(E) /\ Cardinality(E) \in Nat /\ IsFiniteSet(F) /\ Cardinality(F) \in Nat
  BY EntriesFinite
<1>6. Cardinality(E) <= Cardinality(F)
  <2>1. E \in SUBSET F
    BY <1>1
  <2> HIDE DEF E, F
  <2> QED
    BY <1>5, <2>1, FS_Subset
<1>7. ASSUME NEW key \in E PROVE Rank(t, i, key) = Rank(s, i, key)
  <2>1. {k \in F : t.children[k] < t.children[key]} = {k \in E : s.children[k] < s.children[key]}
    BY <1>1, <1>2, <1>3, <1>4
  <2> QED
    BY <2>1 DEF Rank
<1>8. ASSUME NEW key \in F \ E PROVE Rank(t, i, key) > r /\ key[2] \notin c.seen
  <2> DEFINE T == {k \in F : t.children[k] < t.children[key]}
  <2>1. E \in SUBSET T /\ T \in SUBSET F
    BY <1>1, <1>2, <1>3, <1>4
  <2>2. Rank(t, i, key) = 3 + Cardinality(T)
    BY DEF Rank
  <2> HIDE DEF T, E, F
  <2>3. Cardinality(E) <= Cardinality(T) /\ Cardinality(T) \in Nat
    BY <1>5, <2>1, FS_Subset, FS_CardinalityType
  <2>4. Rank(t, i, key) > r
    BY <1>5, <2>2, <2>3 DEF ListedTo, E
  <2>5. key[2] # "." /\ key[2] # ".." /\ key = <<i, key[2]>>
    BY KeysAre DEF F
  <2>6. \A k \in E : k = <<i, k[2]>>
    BY KeysAre DEF E
  <2>7. key[2] \notin {k[2] : k \in E}
    BY <2>5, <2>6
  <2> QED
    BY <2>4, <2>5, <2>7 DEF ListedTo, E
<1>9. r <= 2 + Cardinality(F)
  BY <1>5, <1>6 DEF ListedTo
<1>10. c.seen \subseteq {".", ".."} \cup {key[2] : key \in F}
  BY <1>1 DEF ListedTo
<1>11. ASSUME NEW key \in F PROVE key[2] \in c.seen <=> key[2] \in c.pattern /\ Rank(t, i, key) <= r
  <2>1. CASE key \in E
    BY <1>7, <2>1 DEF ListedTo
  <2>2. CASE key \notin E
    <3>1. Rank(t, i, key) \in Nat
      BY RankIs
    <3> QED
      BY <1>8, <2>2, <3>1
  <2> QED
    BY <2>1, <2>2
<1> QED
  BY <1>9, <1>10, <1>11 DEF ListedTo

(***************************************************************************)
(* The tables' types, and listings in several calls.                       *)
(***************************************************************************)

TablesOK ==
  /\ handles \subseteq Paths /\ DOMAIN dirOffsets \subseteq Paths
  /\ \A p \in DOMAIN dirOffsets : dirOffsets[p] \in Nat

\* A listing that is exact has its key of the tables to itself.
Apart(o) ==
  \A h \in Live(o) : \A g \in Live(o) \ {h} :
    o[h].exact => o[h].path # o[g].path /\ o[h].path # o[g].name

Lists(s, offsets, o) ==
  \A h \in Live(o) :
    o[h].exact /\ ~o[h].displaced => ListedTo(s, o[h], Offset(offsets, o[h].path))

ListInv == ArriveInv /\ TablesOK /\ Apart(open) /\ Lists(store, dirOffsets, open)

LEMMA AloneApart ==
  ASSUME NEW o, Shape(o)
  PROVE  Apart(Alone(o))
<1>1. /\ SameContexts(o, Alone(o))
      /\ \A h \in Live(o) : \A g \in Live(o) \ {h} :
           Alone(o)[h].exact => o[h].path # o[g].path /\ o[h].path # o[g].name
  BY AloneSame
<1> QED
  BY <1>1 DEF Apart, SameContexts, SameButExact

LEMMA OffsetIs ==
  ASSUME TablesOK, NEW p
  PROVE  Offset(dirOffsets, p) \in Nat
BY DEF TablesOK, Offset

LEMMA ListedSame ==
  ASSUME NEW s, NEW c, NEW d, NEW r, ListedTo(s, c, r), d.ino = c.ino, d.pattern = c.pattern,
         d.seen = c.seen, d.twice = c.twice
  PROVE  ListedTo(s, d, r)
BY DEF ListedTo

\* d lists what c lists.
SameListing(c, d) ==
  /\ d.ino = c.ino /\ d.pattern = c.pattern /\ d.seen = c.seen /\ d.twice = c.twice
  /\ d.exact => c.exact
  /\ ~d.displaced => ~c.displaced

LEMMA ListsKept ==
  ASSUME ListInv, NEW t, Sound(t), NewAreLast(store, t), NEW offsets, NEW o,
         \A g \in Live(o) :
           /\ g \in Live(open) /\ SameListing(open[g], o[g])
           /\ o[g].exact => Undisturbed(store, t, open[g].ino)
           /\ o[g].exact /\ ~o[g].displaced =>
                Offset(offsets, o[g].path) = Offset(dirOffsets, open[g].path)
  PROVE  Lists(t, offsets, o)
<1> SUFFICES ASSUME NEW g \in Live(o), o[g].exact, ~o[g].displaced
             PROVE  ListedTo(t, o[g], Offset(offsets, o[g].path))
  BY DEF Lists
<1> DEFINE c == open[g]
           r == Offset(dirOffsets, c.path)
<1>1. g \in Live(open) /\ SameListing(c, o[g]) /\ Undisturbed(store, t, c.ino)
  OBVIOUS
<1>2. Offset(offsets, o[g].path) = r
  OBVIOUS
<1>3. ListedTo(store, c, r)
  BY <1>1 DEF ListInv, Lists, SameListing
<1>4. r \in Nat /\ Sound(store)
  BY OffsetIs DEF ListInv, ArriveInv
<1> HIDE DEF c, r
<1>5. ListedTo(t, c, r)
  BY <1>1, <1>3, <1>4, ListingKept
<1> QED
  BY <1>1, <1>2, <1>5, ListedSame DEF SameListing

\* Of the steps that change nothing a listing looks at.
LEMMA UnchangedListing ==
  ASSUME NEW s, Sound(s), NEW i
  PROVE  NewAreLast(s, s) /\ Undisturbed(s, s, i)
BY DEF NewAreLast, Undisturbed, EntriesOf, HasEntry, Sound

LEMMA ChangesNewLast ==
  ASSUME NEW s, NEW t, Sound(s)
  PROVE  /\ SameTree(s, t) => NewAreLast(s, t) /\ \A i : Undisturbed(s, t, i)
         /\ \A key, kind : Inserts(s, t, key, kind) => NewAreLast(s, t)
         /\ \A key : Removes(s, t, key) => NewAreLast(s, t)
         /\ \A key, new : Renames(s, t, key, new) => NewAreLast(s, t)
<1>1. SameTree(s, t) => NewAreLast(s, t) /\ \A i : Undisturbed(s, t, i)
  BY DEF SameTree, NewAreLast, Undisturbed, EntriesOf, HasEntry, Sound
<1>2. ASSUME NEW key, NEW kind, Inserts(s, t, key, kind) PROVE NewAreLast(s, t)
  <2>1. s.next \in Nat
    BY DEF Sound, IsStore
  <2> QED
    BY <1>2, <2>1 DEF Inserts, NewAreLast
<1>3. ASSUME NEW key, Removes(s, t, key) PROVE NewAreLast(s, t)
  BY <1>3 DEF Removes, NewAreLast
<1>4. ASSUME NEW key, NEW new, Renames(s, t, key, new) PROVE NewAreLast(s, t)
  <2>1. s.children[key] \in DOMAIN s.nodes
    BY <1>4 DEF Renames, Sound, MapsAgree
  <2> QED
    BY <1>4, <2>1 DEF Renames, NewAreLast, Exists
<1> QED
  BY <1>1, <1>2, <1>3, <1>4

LEMMA InitLists == Init => ListInv
<1> SUFFICES ASSUME Init PROVE ListInv
  OBVIOUS
<1>1. ArriveInv
  BY InitArrive
<1>2. handles = {} /\ dirOffsets = << >> /\ open = [h \in Handles |-> NotOpen]
  BY DEF Init
<1>3. TablesOK
  BY <1>2 DEF TablesOK
<1>4. Live(open) = {}
  BY <1>2 DEF Live, NotOpen
<1> QED
  BY <1>1, <1>3, <1>4 DEF ListInv, Apart, Lists

LEMMA FreshListing ==
  ASSUME NEW s, Sound(s), NEW c, c.seen = {}, ~c.twice
  PROVE  ListedTo(s, c, 0)
<1>1. Cardinality(EntriesOf(s, c.ino)) \in Nat
  BY EntriesFinite
<1>2. \A key \in EntriesOf(s, c.ino) : Rank(s, c.ino, key) \in Nat /\ 3 <= Rank(s, c.ino, key)
  BY RankIs
<1> QED
  BY <1>1, <1>2 DEF ListedTo

LEMMA CreateFileLists ==
  ASSUME ListInv, NEW h \in Handles, NEW path \in Paths, NEW disposition, NEW asDir,
         CreateFile(h, path, disposition, asDir)
  PROVE  ListInv'
<1>0. ArriveInv /\ Sound(store) /\ Shape(open)
  BY DEF ListInv, ArriveInv, ContextsOK
<1>1. PICK i, isDir, pattern, s : CreatesWell(h, path, i, isDir, pattern, s)
  BY <1>0, CreateFileIs
<1>2. /\ open' = Alone(Disturbed([open EXCEPT ![h] = Opened(path, i, isDir, pattern)], store, s))
      /\ open[h] = NotOpen
      /\ handles' = handles \cup {path} /\ store' = s /\ dirOffsets' = dirOffsets /\ Sound(s)
      /\ (s = store \/ \E kind : Inserts(store, s, KeyOf(store, path), kind))
  BY <1>1 DEF CreatesWell
<1>3. PICK c : c = Opened(path, i, isDir, pattern)
  OBVIOUS
<1>4. /\ DOMAIN c = ContextFields /\ c.at = "idle" /\ c.path = path /\ c.ino = i
      /\ c.seen = {} /\ ~c.twice /\ (c.exact => path \notin DOMAIN dirOffsets)
  BY <1>3, OpenedIs
<1>5. PICK o : o = [open EXCEPT ![h] = c]
  OBVIOUS
<1>6. /\ Shape(o) /\ o[h] = c /\ \A g \in Handles \ {h} : o[g] = open[g]
      /\ Live(o) = Live(open) \cup {h}
  <2> DEFINE e == [open EXCEPT ![h] = c]
  <2>1. c.at # "none" /\ DOMAIN c = ContextFields /\ Shape(open)
    BY <1>0, <1>4
  <2>2. /\ Shape(e) /\ e[h] = c /\ \A g \in Handles \ {h} : e[g] = open[g]
        /\ Live(e) = Live(open) \cup {h}
    BY <2>1, OneMore
  <2>3. o = e
    BY <1>5
  <2> HIDE DEF e
  <2> QED
    BY <2>2, <2>3
<1>7. Live(o) = Live(open) \cup {h} /\ \A g \in Handles \ {h} : o[g] = open[g]
  BY <1>6
<1>8. PICK d : d = Disturbed(o, store, s)
  OBVIOUS
<1>9. open' = Alone(d)
  BY <1>2, <1>3, <1>5, <1>8
<1>10. /\ SameContexts(o, d)
       /\ \A g \in Live(o) : d[g].exact => Undisturbed(store, s, o[g].ino)
  BY <1>6, <1>8, DisturbedSame
<1>11. SameContexts(d, open') /\ Apart(open')
  BY <1>9, <1>10, AloneSame, AloneApart DEF SameContexts
<1>12. Live(open') = Live(open) \cup {h}
  BY <1>7, <1>10, <1>11 DEF SameContexts
<1>13. NewAreLast(store, s)
  BY <1>0, <1>2, UnchangedListing, ChangesNewLast
<1>14. ASSUME NEW g \in Live(open'), open'[g].exact, ~open'[g].displaced
       PROVE  ListedTo(s, open'[g], Offset(dirOffsets, open'[g].path))
  <2> DEFINE e == open'[g]
  <2>1. SameButExact(o[g], d[g]) /\ (d[g].exact => o[g].exact)
        /\ SameButExact(d[g], e) /\ (e.exact => d[g].exact)
    BY <1>7, <1>10, <1>11, <1>12 DEF SameContexts
  <2>2. /\ e.path = o[g].path /\ e.ino = o[g].ino /\ e.pattern = o[g].pattern
        /\ e.seen = o[g].seen /\ e.twice = o[g].twice /\ e.displaced = o[g].displaced
        /\ o[g].exact /\ Undisturbed(store, s, o[g].ino)
    BY <1>7, <1>10, <1>12, <1>14, <2>1 DEF SameButExact
  <2>3. CASE g = h
    <3>1. Offset(dirOffsets, e.path) = 0
      BY <1>4, <1>6, <2>2, <2>3 DEF Offset
    <3>2. e.seen = {} /\ ~e.twice
      BY <1>4, <1>6, <2>2, <2>3
    <3> HIDE DEF e
    <3>3. ListedTo(s, e, 0)
      BY <1>2, <3>2, FreshListing
    <3> QED
      BY <3>1, <3>3 DEF e
  <2>4. CASE g # h
    <3> DEFINE b == open[g]
               r == Offset(dirOffsets, b.path)
    <3>1. g \in Live(open) /\ o[g] = b
      BY <1>7, <1>12, <2>4 DEF Live
    <3>2. ListedTo(store, b, r) /\ r \in Nat
      BY <1>14, <2>2, <3>1, OffsetIs DEF ListInv, Lists
    <3>3. Undisturbed(store, s, b.ino)
      BY <2>2, <3>1
    <3>4. /\ e.path = b.path /\ e.ino = b.ino /\ e.pattern = b.pattern
          /\ e.seen = b.seen /\ e.twice = b.twice
      BY <2>2, <3>1
    <3>5. Offset(dirOffsets, e.path) = r
      BY <3>4
    <3> HIDE DEF b, r, e
    <3>6. ListedTo(s, b, r)
      BY <1>0, <1>2, <1>13, <3>2, <3>3, ListingKept
    <3>7. ListedTo(s, e, r)
      BY <3>4, <3>6, ListedSame
    <3> QED
      BY <3>5, <3>7 DEF e
  <2> QED
    BY <2>3, <2>4
<1>15. Lists(store', dirOffsets', open')
  BY <1>2, <1>14 DEF Lists
<1>16. ArriveInv'
  BY <1>0, CreateFileArrives
<1>17. TablesOK'
  BY <1>2 DEF TablesOK, ListInv
<1> QED
  BY <1>11, <1>15, <1>16, <1>17 DEF ListInv

LEMMA ApartKept ==
  ASSUME Apart(open), NEW o,
         \A g \in Live(o) : /\ g \in Live(open) /\ (o[g].exact => open[g].exact)
                            /\ o[g].path = open[g].path /\ o[g].name = open[g].name
  PROVE  Apart(o)
BY DEF Apart

\* A step that leaves the store and the offsets alone.
LEMMA QuietLists ==
  ASSUME ListInv, ArriveInv', TablesOK', Apart(open'), store' = store,
         \A g \in Live(open') :
           /\ g \in Live(open) /\ SameListing(open[g], open'[g])
           /\ open'[g].exact =>
                Offset(dirOffsets', open'[g].path) = Offset(dirOffsets, open[g].path)
  PROVE  ListInv'
<1>1. Sound(store)
  BY DEF ListInv, ArriveInv
<1>2. NewAreLast(store, store) /\ \A i : Undisturbed(store, store, i)
  BY <1>1, UnchangedListing
<1>3. PICK o, offsets : o = open' /\ offsets = dirOffsets'
  OBVIOUS
<1>4. Lists(store, offsets, o)
  BY <1>1, <1>2, <1>3, ListsKept
<1> QED
  BY <1>3, <1>4 DEF ListInv

LEMMA SendLists ==
  ASSUME ListInv, NEW h \in Handles, NEW request, NEW from,
         request \notin {"none", "move"}, from # "none",
         Send(h, request, from)
  PROVE  ListInv'
<1>0. Shape(open) /\ ArriveInv
  BY DEF ListInv, ArriveInv, ContextsOK
<1>1. /\ open[h].at = from /\ store' = store /\ dirOffsets' = dirOffsets /\ handles' = handles
      /\ open' = Alone([open EXCEPT ![h].at = request, ![h].name = open[h].path])
  BY DEF Send
<1>2. h \in Live(open) /\ DOMAIN open[h] = ContextFields
  BY <1>0, <1>1, LiveContext DEF Live
<1> DEFINE c == [open[h] EXCEPT !.at = request, !.name = open[h].path]
<1>3. [open EXCEPT ![h].at = request, ![h].name = open[h].path] = [open EXCEPT ![h] = c]
  BY <1>0, <1>2 DEF Shape, ContextFields
<1>4. /\ DOMAIN c = ContextFields /\ c.at = request /\ SameListing(open[h], c)
      /\ c.path = open[h].path /\ c.at # "none"
  BY <1>2 DEF ContextFields, SameListing
<1>5. PICK o : o = [open EXCEPT ![h] = c]
  OBVIOUS
<1> HIDE DEF c
<1>6. /\ Shape(o) /\ o[h] = c /\ \A g \in Handles \ {h} : o[g] = open[g]
      /\ Live(o) = Live(open) \cup {h}
  <2> DEFINE e == [open EXCEPT ![h] = c]
  <2>1. c.at # "none" /\ DOMAIN c = ContextFields /\ Shape(open)
    BY <1>0, <1>4
  <2>2. /\ Shape(e) /\ e[h] = c /\ \A g \in Handles \ {h} : e[g] = open[g]
        /\ Live(e) = Live(open) \cup {h}
    BY <2>1, OneMore
  <2>3. o = e
    BY <1>5
  <2> HIDE DEF e
  <2> QED
    BY <2>2, <2>3
<1>7. open' = Alone(o)
  BY <1>1, <1>3, <1>5
<1>8. SameContexts(o, open') /\ Apart(open')
  BY <1>6, <1>7, AloneSame, AloneApart
<1>9. ASSUME NEW g \in Live(open')
      PROVE  g \in Live(open) /\ SameListing(open[g], open'[g]) /\ open'[g].path = open[g].path
  <2>1. g \in Live(o) /\ SameButExact(o[g], open'[g]) /\ (open'[g].exact => o[g].exact)
    BY <1>8 DEF SameContexts
  <2>2. g \in Live(open) /\ SameListing(open[g], o[g]) /\ o[g].path = open[g].path
    <3>1. CASE g = h
      BY <1>2, <1>4, <1>6, <3>1
    <3>2. CASE g # h
      BY <1>6, <2>1, <3>2 DEF Live, SameListing
    <3> QED
      BY <3>1, <3>2
  <2> QED
    BY <2>1, <2>2 DEF SameButExact, SameListing
<1>10. ArriveInv'
  BY <1>0, SendArrives
<1>11. TablesOK'
  BY <1>1 DEF ListInv, TablesOK
<1> QED
  BY <1>1, <1>8, <1>9, <1>10, <1>11, QuietLists

LEMMA FindLists ==
  ASSUME ListInv, NEW h \in Handles, Find(h)
  PROVE  ListInv'
<1>20. PICK b : b = open[h]
  OBVIOUS
<1>21. PICK from : from = Offset(dirOffsets, b.name)
  OBVIOUS
<1>22. PICK entries : entries = ReadDir(store, b.ino, from).entries
  OBVIOUS
<1>0. Shape(open) /\ ArriveInv /\ Sound(store) /\ TablesOK
  BY DEF ListInv, ArriveInv, ContextsOK
<1>1. b.at = "find" /\ store' = store /\ handles' = handles
  BY <1>0, <1>20, FindIs, Zenon
<1>2. PICK until \in {0} \cup {e.offset : e \in FindMatching(h)} : \E c : FindsWith(h, until, c)
  BY <1>0, FindIs, Zenon
<1>23. PICK c : FindsWith(h, until, c)
  BY <1>2
<1>3. /\ DOMAIN c = ContextFields /\ c.at = "idle" /\ c.path = b.path
      /\ c.name = b.name /\ c.ino = b.ino /\ c.displaced = b.displaced
      /\ c.pattern = b.pattern
      /\ c.seen = b.seen \cup {e.name : e \in FindSent(h, until)}
      /\ c.twice = (b.twice \/ {e.name : e \in FindSent(h, until)} \cap b.seen # {})
      /\ c.exact = (b.exact /\ b.name = b.path)
      /\ open' = [open EXCEPT ![h] = c]
      /\ dirOffsets' = With(dirOffsets, b.name, NextOffset(entries, FindSent(h, until), from))
  BY <1>20, <1>21, <1>22, <1>23, Zenon DEF FindsWith
<1>4. PICK M, S, n : /\ M = FindMatching(h) /\ S = FindSent(h, until)
                     /\ n = NextOffset(entries, S, from)
  OBVIOUS
<1>5. Taken(store, b, from, M, S, n)
  <2>1. M = Matching(store, b, from)
    BY <1>4, <1>20, <1>21 DEF FindMatching, Matching
  <2>2. S = {e \in M : e.offset <= until} /\ until \in {0} \cup {e.offset : e \in M}
    BY <1>4 DEF FindSent
  <2>3. \E x : n = NextOffset(x, S, from)
    BY <1>4
  <2> QED
    BY <2>1, <2>2, <2>3 DEF Taken
<1>6. h \in Live(open) /\ HandleOK(store, b)
  BY <1>0, <1>1, <1>20 DEF Live, ArriveInv, ContextsOK
<1>7. from \in Nat
  BY <1>0, <1>21, OffsetIs
<1>8. dirOffsets' = With(dirOffsets, b.name, n)
  BY <1>3, <1>4
<1>9. /\ c.at = "idle" /\ DOMAIN c = ContextFields /\ c.path = b.path /\ c.name = b.name
      /\ c.ino = b.ino /\ c.displaced = b.displaced /\ c.pattern = b.pattern
      /\ open' = [open EXCEPT ![h] = c]
  BY <1>3
<1>10. c.seen = b.seen \cup {e.name : e \in S}
  BY <1>3, <1>4
<1>11. c.twice = (b.twice \/ {e.name : e \in S} \cap b.seen # {})
  BY <1>3, <1>4, Zenon
<1>12. c.exact => b.exact /\ b.name = b.path
  BY <1>3, Zenon
<1>17. ArriveInv'
  BY <1>0, FindArrives
<1>13. n \in Nat
  <2>1. Sound(store)
    BY <1>0
  <2> QED
    BY <1>5, <1>7, <2>1, OffsetKeptType
<1>14. TablesOK'
  BY <1>0, <1>1, <1>6, <1>8, <1>13 DEF TablesOK, HandleOK, With
<1>15. /\ Live(open') = Live(open) /\ open'[h] = c
       /\ \A g \in Handles \ {h} : open'[g] = open[g]
  BY <1>0, <1>6, <1>9 DEF Live, Shape
<1>16. Apart(open')
  <2>1. \A g \in Live(open') : /\ g \in Live(open) /\ (open'[g].exact => open[g].exact)
                            /\ open'[g].path = open[g].path /\ open'[g].name = open[g].name
    BY <1>9, <1>12, <1>15, <1>20 DEF Live
  <2>2. PICK o : o = open'
    OBVIOUS
  <2>3. Apart(open)
    BY DEF ListInv
  <2>4. Apart(o)
    BY <2>1, <2>2, <2>3, ApartKept
  <2> QED
    BY <2>2, <2>4
<1>18. ASSUME NEW g \in Live(open'), open'[g].exact, ~open'[g].displaced
       PROVE  ListedTo(store, open'[g], Offset(dirOffsets', open'[g].path))
  <2>1. CASE g = h
    <3>1. b.exact /\ b.name = b.path /\ ~b.displaced
      BY <1>9, <1>12, <1>15, <1>18, <2>1
    <3>2. ListedTo(store, b, from)
      BY <1>6, <1>20, <1>21, <3>1 DEF ListInv, Lists
    <3>3. ListedTo(store, c, n)
      BY <1>0, <1>5, <1>7, <1>9, <1>10, <1>11, <3>2, ListingGoesOn
    <3>4. Offset(dirOffsets', c.path) = n
      BY <1>8, <1>9, <3>1 DEF Offset, With
    <3> QED
      BY <1>15, <2>1, <3>3, <3>4
  <2>2. CASE g # h
    <3>1. g \in Live(open) /\ open'[g] = open[g]
      BY <1>15, <2>2 DEF Live
    <3>2. open[g].path # b.name
      BY <1>6, <1>18, <1>20, <2>2, <3>1 DEF ListInv, Apart
    <3>3. Offset(dirOffsets', open[g].path) = Offset(dirOffsets, open[g].path)
      BY <1>8, <3>2 DEF Offset, With
    <3> QED
      BY <1>18, <3>1, <3>3 DEF ListInv, Lists
  <2> QED
    BY <2>1, <2>2
<1>19. Lists(store', dirOffsets', open')
  BY <1>1, <1>18 DEF Lists
<1> QED
  BY <1>14, <1>16, <1>17, <1>19 DEF ListInv

LEMMA CleanupLists ==
  ASSUME ListInv, NEW h \in Handles, Cleanup(h)
  PROVE  ListInv'
<1>0. ContextsOK(store, open) /\ ArriveInv /\ Sound(store) /\ TablesOK /\ Apart(open)
  BY DEF ListInv, ArriveInv
<1>1. open[h].at = "cleanup"
  BY DEF Cleanup
<1>2. open[h].name \in Seq(Names)
  BY <1>0, <1>1, PathsAre DEF Live, ContextsOK, HandleOK
<1>3. /\ UNCHANGED <<handles, dirOffsets>>
      /\ store' = store \/ Removes(store, store', KeyOf(store, open[h].name))
  BY <1>0, <1>2, CleanupIs
<1>4. NewAreLast(store, store')
  BY <1>0, <1>3, ChangesNewLast, UnchangedListing
<1>5. ArriveInv' /\ Sound(store')
  BY <1>0, CleanupArrives DEF ArriveInv
<1>6. /\ Live(open') = Live(open)
      /\ \A g \in Live(open) :
           /\ open'[g].path = open[g].path /\ open'[g].name = open[g].name
           /\ open'[g].ino = open[g].ino /\ open'[g].pattern = open[g].pattern
           /\ open'[g].seen = open[g].seen /\ open'[g].twice = open[g].twice
           /\ open'[g].exact => open[g].exact /\ Undisturbed(store, store', open[g].ino)
           /\ ~open'[g].displaced => ~open[g].displaced
  BY <1>0, <1>1, CleanupContexts
<1>7. PICK o, t : o = open' /\ t = store'
  OBVIOUS
<1>8. Apart(o)
  BY <1>0, <1>6, <1>7, ApartKept
<1>9. Lists(t, dirOffsets, o)
  <2>1. \A g \in Live(o) :
          /\ g \in Live(open) /\ SameListing(open[g], o[g])
          /\ o[g].exact => Undisturbed(store, t, open[g].ino)
          /\ o[g].exact /\ ~o[g].displaced =>
               Offset(dirOffsets, o[g].path) = Offset(dirOffsets, open[g].path)
    BY <1>6, <1>7 DEF SameListing
  <2> QED
    BY <1>4, <1>5, <1>7, <2>1, ListsKept
<1>10. TablesOK'
  BY <1>0, <1>3 DEF TablesOK
<1> QED
  BY <1>3, <1>5, <1>7, <1>8, <1>9, <1>10 DEF ListInv

LEMMA CloseFileLists ==
  ASSUME ListInv, NEW h \in Handles, CloseFile(h)
  PROVE  ListInv'
<1>0. ContextsOK(store, open) /\ ArriveInv /\ TablesOK /\ Apart(open)
  BY DEF ListInv, ArriveInv
<1>1. /\ open[h].at = "close" /\ store' = store /\ dirOffsets' = dirOffsets
      /\ handles' = handles \ {open[h].name} /\ open' = [open EXCEPT ![h].at = "unlisted"]
  BY DEF CloseFile
<1> DEFINE o == [open EXCEPT ![h].at = "unlisted"]
<1>2. open' = o
  BY <1>1
<1>3. h \in Live(open)
  BY <1>1 DEF Live
<1>4. /\ Live(o) = Live(open) /\ SameButAt(open[h], o[h])
      /\ \A g \in Handles \ {h} : o[g] = open[g]
  BY <1>0, <1>3, NowAt
<1> HIDE DEF o
<1>5. \A g \in Live(o) : /\ g \in Live(open) /\ SameListing(open[g], o[g])
                         /\ o[g].path = open[g].path /\ o[g].name = open[g].name
  BY <1>4 DEF SameListing, SameButAt, Live
<1>6. Apart(o)
  BY <1>0, <1>5, ApartKept DEF SameListing
<1>7. ArriveInv'
  BY <1>0, CloseFileArrives
<1>8. TablesOK'
  BY <1>0, <1>1 DEF TablesOK
<1> QED
  BY <1>1, <1>2, <1>5, <1>6, <1>7, <1>8, QuietLists

LEMMA CloseFileOffsetLists ==
  ASSUME ListInv, NEW h \in Handles, CloseFileOffset(h)
  PROVE  ListInv'
<1>0. Shape(open) /\ ArriveInv /\ TablesOK /\ Apart(open)
  BY DEF ListInv, ArriveInv, ContextsOK
<1>1. /\ open[h].at = "unlisted" /\ store' = store /\ handles' = handles
      /\ dirOffsets' = Removed(dirOffsets, open[h].name)
      /\ open' = [open EXCEPT ![h] = NotOpen]
  BY DEF CloseFileOffset
<1>2. h \in Live(open)
  BY <1>1 DEF Live
<1>3. \A g \in Live(open') : g \in Live(open) \ {h} /\ open'[g] = open[g]
  BY <1>0, <1>1 DEF Shape, Live, NotOpen
<1>4. PICK o : o = open'
  OBVIOUS
<1>5. Apart(o)
  BY <1>0, <1>3, <1>4, ApartKept
<1>6. ASSUME NEW g \in Live(open'), open'[g].exact
      PROVE  Offset(dirOffsets', open'[g].path) = Offset(dirOffsets, open[g].path)
  <2>1. open[g].path # open[h].name
    BY <1>0, <1>2, <1>3, <1>6 DEF Apart
  <2> QED
    <3>1. open'[g].path = open[g].path
      BY <1>3
    <3>2. PICK p, q : p = open[g].path /\ q = open[h].name
      OBVIOUS
    <3>3. dirOffsets' = Removed(dirOffsets, q) /\ p # q
      BY <1>1, <2>1, <3>2
    <3>4. Offset(dirOffsets', p) = Offset(dirOffsets, p)
      BY <3>3 DEF Offset, Removed
    <3> QED
      BY <3>1, <3>2, <3>4
<1>7. ArriveInv'
  BY <1>0, CloseFileOffsetArrives
<1>8. TablesOK'
  BY <1>0, <1>1 DEF TablesOK, Removed
<1>9. \A g \in Live(open') : SameListing(open[g], open'[g])
  BY <1>3 DEF SameListing
<1> QED
  BY <1>1, <1>3, <1>4, <1>5, <1>6, <1>7, <1>8, <1>9, QuietLists

LEMMA DeleteLists ==
  ASSUME ListInv, NEW h \in Handles, Delete(h)
  PROVE  ListInv'
<1>0. Shape(open) /\ ArriveInv /\ TablesOK /\ Apart(open)
  BY DEF ListInv, ArriveInv, ContextsOK
<1>1. /\ open[h].at = "idle" /\ store' = store /\ dirOffsets' = dirOffsets /\ handles' = handles
      /\ open' = [open EXCEPT ![h].delete = TRUE]
  BY DEF Delete
<1>2. h \in Live(open) /\ DOMAIN open[h] = ContextFields
  BY <1>0, <1>1, LiveContext DEF Live
<1>3. PICK o : o = open'
  OBVIOUS
<1>4. \A g \in Live(o) : /\ g \in Live(open) /\ SameListing(open[g], o[g])
                         /\ o[g].path = open[g].path /\ o[g].name = open[g].name
  BY <1>0, <1>1, <1>2, <1>3 DEF SameListing, Live, Shape, ContextFields
<1>5. Apart(o)
  BY <1>0, <1>4, ApartKept DEF SameListing
<1>6. ArriveInv'
  BY <1>0, DeleteArrives
<1>7. TablesOK'
  BY <1>0, <1>1 DEF TablesOK
<1> QED
  BY <1>1, <1>3, <1>4, <1>5, <1>6, <1>7, QuietLists

LEMMA SameTreeLists ==
  ASSUME ListInv, ArriveInv', SameTree(store, store'), UNCHANGED <<open, handles, dirOffsets>>
  PROVE  ListInv'
<1>1. Sound(store) /\ Sound(store') /\ TablesOK /\ Apart(open)
  BY DEF ListInv, ArriveInv
<1>2. NewAreLast(store, store') /\ \A i : Undisturbed(store, store', i)
  BY <1>1, ChangesNewLast
<1>3. PICK t : t = store'
  OBVIOUS
<1>4. Lists(t, dirOffsets, open)
  <2>1. \A g \in Live(open) : SameListing(open[g], open[g])
    BY DEF SameListing
  <2> QED
    BY <1>1, <1>2, <1>3, <2>1, ListsKept
<1>5. TablesOK' /\ Apart(open')
  BY <1>1 DEF TablesOK
<1> QED
  BY <1>3, <1>4, <1>5 DEF ListInv

(***************************************************************************)
(* The offsets move with what is renamed.                                  *)
(***************************************************************************)

LEMMA RebasedIs ==
  ASSUME NEW old \in Seq(Names), NEW new \in Seq(Names), NEW p \in Seq(Names), IsPrefix(old, p)
  PROVE  /\ NewPath(old, new, p) = Rebased(old, new, p)
         /\ Rebased(old, new, p) \in Seq(Names) /\ IsPrefix(new, Rebased(old, new, p))
<1> DEFINE b == SubSeq(p, Len(old) + 1, Len(p))
<1>1. b \in Seq(Names)
  BY Below
<1>2. Rebased(old, new, p) = new \o b /\ NewPath(old, new, p) = Rebased(old, new, p)
  BY DEF NewPath, AtOrBelow, Rebased
<1> HIDE DEF b
<1>3. IsPrefix(new, new \o SubSeq(b, 1, Len(b)))
  BY <1>1, ContinuedPrefix
<1>4. new \o SubSeq(b, 1, Len(b)) = new \o b
  BY <1>1, ContinuedWhole
<1>5. new \o b \in Seq(Names)
  BY <1>1
<1>6. IsPrefix(new, new \o b)
  BY <1>3, <1>4
<1>7. Rebased(old, new, p) \in Seq(Names)
  BY <1>2, <1>5
<1>8. IsPrefix(new, Rebased(old, new, p))
  BY <1>2, <1>6, Zenon
<1> QED
  BY <1>2, <1>7, <1>8, Zenon

LEMMA RebasedOnce ==
  ASSUME NEW old \in Seq(Names), NEW new \in Seq(Names), NEW p \in Seq(Names), NEW q \in Seq(Names),
         IsPrefix(old, p), IsPrefix(old, q), Rebased(old, new, p) = Rebased(old, new, q)
  PROVE  p = q
<1> DEFINE b == SubSeq(p, Len(old) + 1, Len(p))
           d == SubSeq(q, Len(old) + 1, Len(q))
<1>1. b \in Seq(Names) /\ p = old \o b
  BY Below
<1>2. d \in Seq(Names) /\ q = old \o d
  BY Below
<1>3. new \o b = new \o d
  BY DEF Rebased
<1> HIDE DEF b, d
<1>4. Len(b) = Len(d)
  <2>1. Len(new \o b) = Len(new) + Len(b) /\ Len(new \o d) = Len(new) + Len(d)
    BY <1>1, <1>2
  <2> QED
    BY <1>1, <1>2, <1>3, <2>1
<1>5. \A n \in 1 .. Len(b) : b[n] = d[n]
  <2> SUFFICES ASSUME NEW n \in 1 .. Len(b) PROVE b[n] = d[n]
    OBVIOUS
  <2>1. (new \o b)[Len(new) + n] = b[n]
    BY <1>1
  <2>2. (new \o d)[Len(new) + n] = d[n]
    BY <1>2, <1>4
  <2> QED
    BY <1>3, <2>1, <2>2
<1>6. b = d
  BY <1>1, <1>2, <1>4, <1>5, SeqEqual
<1> QED
  BY <1>1, <1>2, <1>6

\* Each key of u is that of an entry that moved there, or it and its entry stayed.
Moved(u, table, old, new) ==
  /\ DOMAIN u = {NewPath(old, new, k) : k \in DOMAIN table}
  /\ \A key \in DOMAIN u :
       \/ /\ \A k \in DOMAIN table : ~(IsPrefix(old, k) /\ Rebased(old, new, k) = key)
          /\ u[key] = table[key]
       \/ \E k \in DOMAIN table :
            IsPrefix(old, k) /\ Rebased(old, new, k) = key /\ u[key] = table[k]

LEMMA RemapIs ==
  ASSUME NEW table, NEW old, NEW new
  PROVE  Moved(Remap(table, old, new), table, old, new)
<1>0. PICK u : u = Remap(table, old, new)
  OBVIOUS
<1> DEFINE moved == {key \in DOMAIN table : AtOrBelow(old, key)}
           from(key) == {k \in moved : Rebased(old, new, k) = key}
<1>1. u = [key \in {NewPath(old, new, k) : k \in DOMAIN table} |->
             IF from(key) = {} THEN table[key] ELSE table[CHOOSE k \in from(key) : TRUE]]
  BY <1>0 DEF Remap
<1>2. ASSUME NEW key \in DOMAIN u
      PROVE  \/ /\ \A k \in DOMAIN table : ~(IsPrefix(old, k) /\ Rebased(old, new, k) = key)
                /\ u[key] = table[key]
             \/ \E k \in DOMAIN table :
                  IsPrefix(old, k) /\ Rebased(old, new, k) = key /\ u[key] = table[k]
  <2>1. CASE from(key) = {}
    <3>1. u[key] = table[key]
      BY <1>1, <2>1
    <3> QED
      BY <2>1, <3>1 DEF AtOrBelow
  <2>2. CASE from(key) # {}
    <3>1. PICK k : k = CHOOSE x \in from(key) : TRUE
      OBVIOUS
    <3>2. k \in from(key)
      BY <2>2, <3>1
    <3>3. u[key] = table[k]
      BY <1>1, <2>2, <3>1
    <3> QED
      BY <3>2, <3>3 DEF AtOrBelow
  <2> QED
    BY <2>1, <2>2
<1>3. DOMAIN u = {NewPath(old, new, k) : k \in DOMAIN table}
  BY <1>1
<1> HIDE DEF from, moved
<1>4. Moved(u, table, old, new)
  BY <1>2, <1>3 DEF Moved
<1> QED
  BY <1>0, <1>4

LEMMA RemapValues ==
  ASSUME NEW table, NEW old, NEW new, \A p \in DOMAIN table : table[p] \in Nat
  PROVE  \A key \in DOMAIN Remap(table, old, new) : Remap(table, old, new)[key] \in Nat
<1>1. PICK u : u = Remap(table, old, new)
  OBVIOUS
<1>0. Moved(u, table, old, new)
  BY <1>1, RemapIs
<1>2. ASSUME NEW key \in DOMAIN u PROVE u[key] \in Nat
  <2>1. CASE \E k \in DOMAIN table :
               IsPrefix(old, k) /\ Rebased(old, new, k) = key /\ u[key] = table[k]
    BY <2>1
  <2>2. CASE /\ \A k \in DOMAIN table : ~(IsPrefix(old, k) /\ Rebased(old, new, k) = key)
             /\ u[key] = table[key]
    <3>1. PICK k \in DOMAIN table : NewPath(old, new, k) = key
      BY <1>0 DEF Moved
    <3>2. key = k
      BY <2>2, <3>1 DEF NewPath, AtOrBelow
    <3> QED
      BY <2>2, <3>1, <3>2
  <2> QED
    BY <1>0, <2>1, <2>2 DEF Moved
<1> QED
  BY <1>1, <1>2

LEMMA OffsetMoves ==
  ASSUME NEW table, NEW old \in Seq(Names), NEW new \in Seq(Names), DOMAIN table \subseteq Seq(Names),
         NEW path \in Seq(Names), NEW p, p = NewPath(old, new, path),
         p # path => p \notin DOMAIN table,
         ~IsPrefix(old, path) => ~IsPrefix(new, path)
  PROVE  Offset(Remap(table, old, new), p) = Offset(table, path)
<1>1. PICK u : u = Remap(table, old, new)
  OBVIOUS
<1>2. /\ DOMAIN u = {NewPath(old, new, k) : k \in DOMAIN table}
      /\ \A key \in DOMAIN u :
              \/ /\ \A k \in DOMAIN table : ~(IsPrefix(old, k) /\ Rebased(old, new, k) = key)
                 /\ u[key] = table[key]
              \/ \E k \in DOMAIN table :
                   IsPrefix(old, k) /\ Rebased(old, new, k) = key /\ u[key] = table[k]
  <2>1. Moved(u, table, old, new)
    BY <1>1, RemapIs
  <2> QED
    BY <2>1 DEF Moved
<1>3. \A k \in DOMAIN table : k \in Seq(Names)
  OBVIOUS
<1>4. CASE IsPrefix(old, path)
  <2>1. p = Rebased(old, new, path)
    BY <1>4, RebasedIs
  <2>2. \A k \in DOMAIN table : IsPrefix(old, k) /\ Rebased(old, new, k) = p => k = path
    BY <1>3, <1>4, <2>1, RebasedOnce
  <2>3. CASE path \in DOMAIN table
    <3>1. p \in DOMAIN u
      BY <1>2, <2>3
    <3>2. u[p] = table[path]
      BY <1>2, <1>4, <2>1, <2>2, <2>3, <3>1
    <3> QED
      BY <1>1, <2>3, <3>1, <3>2 DEF Offset
  <2>4. CASE path \notin DOMAIN table
    <3>1. p \notin DOMAIN u
      <4> SUFFICES ASSUME p \in DOMAIN u PROVE FALSE
        OBVIOUS
      <4>1. PICK k \in DOMAIN table : NewPath(old, new, k) = p
        BY <1>2
      <4>2. CASE IsPrefix(old, k)
        BY <1>3, <2>2, <2>4, <4>1, <4>2, RebasedIs
      <4>3. CASE ~IsPrefix(old, k)
        <5>1. k = p
          BY <4>1, <4>3 DEF NewPath, AtOrBelow
        <5> QED
          BY <2>4, <4>1, <5>1
      <4> QED
        BY <4>2, <4>3
    <3> QED
      BY <1>1, <2>4, <3>1 DEF Offset
  <2> QED
    BY <2>3, <2>4
<1>5. CASE ~IsPrefix(old, path)
  <2>1. p = path /\ ~IsPrefix(new, path)
    BY <1>5 DEF NewPath, AtOrBelow
  <2>2. \A k \in DOMAIN table : ~(IsPrefix(old, k) /\ Rebased(old, new, k) = path)
    BY <1>3, <2>1, RebasedIs
  <2>3. path \in DOMAIN u <=> path \in DOMAIN table
    <3>1. ASSUME path \in DOMAIN u PROVE path \in DOMAIN table
      <4>1. PICK k \in DOMAIN table : NewPath(old, new, k) = path
        BY <1>2, <3>1
      <4>2. CASE IsPrefix(old, k)
        BY <1>3, <2>2, <4>1, <4>2, RebasedIs
      <4>3. CASE ~IsPrefix(old, k)
        BY <4>1, <4>3 DEF NewPath, AtOrBelow
      <4> QED
        BY <4>2, <4>3
    <3>2. ASSUME path \in DOMAIN table PROVE path \in DOMAIN u
      BY <1>2, <2>1, <3>2
    <3> QED
      BY <3>1, <3>2
  <2>4. path \in DOMAIN u => u[path] = table[path]
    BY <1>2, <2>2
  <2> QED
    BY <1>1, <2>1, <2>3, <2>4 DEF Offset
<1> QED
  BY <1>4, <1>5

LEMMA SendMoveLists ==
  ASSUME ListInv, NEW h \in Handles, NEW new \in Paths, NEW replace, SendMove(h, new, replace)
  PROVE  ListInv'
<1>0. Shape(open) /\ ArriveInv
  BY DEF ListInv, ArriveInv, ContextsOK
<1>1. store' = store /\ dirOffsets' = dirOffsets /\ handles' = handles
  BY DEF SendMove
<1>2. PICK c : SendsWith(h, new, replace, c)
  BY <1>0, SendMoveIs
<1>3. PICK o : o = [open EXCEPT ![h] = c]
  OBVIOUS
<1>4. /\ DOMAIN c = ContextFields /\ c.at # "none" /\ SameListing(open[h], c)
      /\ c.path = open[h].path /\ open' = Alone(o) /\ h \in Live(open)
  BY <1>0, <1>2, <1>3, SendMoveIs DEF SendsWith, SameListing
<1>6. /\ Shape(o) /\ o[h] = c /\ \A g \in Handles \ {h} : o[g] = open[g]
      /\ Live(o) = Live(open) \cup {h}
  <2> DEFINE e == [open EXCEPT ![h] = c]
  <2>1. c.at # "none" /\ DOMAIN c = ContextFields /\ Shape(open)
    BY <1>0, <1>4
  <2>2. /\ Shape(e) /\ e[h] = c /\ \A g \in Handles \ {h} : e[g] = open[g]
        /\ Live(e) = Live(open) \cup {h}
    BY <2>1, OneMore
  <2>3. o = e
    BY <1>3
  <2> HIDE DEF e
  <2> QED
    BY <2>2, <2>3
<1>8. SameContexts(o, open') /\ Apart(open')
  BY <1>4, <1>6, AloneSame, AloneApart
<1>9. ASSUME NEW g \in Live(open')
      PROVE  g \in Live(open) /\ SameListing(open[g], open'[g]) /\ open'[g].path = open[g].path
  <2>1. g \in Live(o) /\ SameButExact(o[g], open'[g]) /\ (open'[g].exact => o[g].exact)
    BY <1>8 DEF SameContexts
  <2>2. g \in Live(open) /\ SameListing(open[g], o[g]) /\ o[g].path = open[g].path
    <3>1. CASE g = h
      BY <1>4, <1>6, <3>1
    <3>2. CASE g # h
      BY <1>6, <2>1, <3>2 DEF Live, SameListing
    <3> QED
      BY <3>1, <3>2
  <2> QED
    BY <2>1, <2>2 DEF SameButExact, SameListing
<1>10. ArriveInv'
  BY <1>0, SendMoveArrives
<1>11. TablesOK'
  BY <1>1 DEF ListInv, TablesOK
<1> QED
  BY <1>1, <1>8, <1>9, <1>10, <1>11, QuietLists

LEMMA MoveFailsLists ==
  ASSUME ListInv, NEW h \in Handles, MoveFails(h)
  PROVE  ListInv'
<1>0. ContextsOK(store, open) /\ ArriveInv /\ TablesOK /\ Apart(open)
  BY DEF ListInv, ArriveInv
<1>1. /\ open[h].at = "move" /\ store' = store /\ dirOffsets' = dirOffsets
      /\ handles' = handles /\ open' = [open EXCEPT ![h].at = "idle"]
  BY DEF MoveFails
<1> DEFINE o == [open EXCEPT ![h].at = "idle"]
<1>2. open' = o
  BY <1>1
<1>3. h \in Live(open)
  BY <1>1 DEF Live
<1>4. /\ Live(o) = Live(open) /\ SameButAt(open[h], o[h])
      /\ \A g \in Handles \ {h} : o[g] = open[g]
  BY <1>0, <1>3, NowAt
<1> HIDE DEF o
<1>5. \A g \in Live(o) : /\ g \in Live(open) /\ SameListing(open[g], o[g])
                         /\ o[g].path = open[g].path /\ o[g].name = open[g].name
  BY <1>4 DEF SameListing, SameButAt, Live
<1>6. Apart(o)
  BY <1>0, <1>5, ApartKept DEF SameListing
<1>7. ArriveInv'
  BY <1>0, MoveFailsArrives
<1>8. TablesOK'
  BY <1>0, <1>1 DEF TablesOK
<1> QED
  BY <1>1, <1>2, <1>5, <1>6, <1>7, <1>8, QuietLists

LEMMA MoveFileLists ==
  ASSUME ListInv, NEW h \in Handles, MoveFile(h)
  PROVE  ListInv'
<1>0. ContextsOK(store, open) /\ ArriveInv /\ Sound(store) /\ TablesOK
  BY DEF ListInv, ArriveInv
<1>1. open[h].at = "move"
  BY Zenon DEF MoveFile
<1>2. PICK old, current, new : old = open[h].name /\ current = open[h].path /\ new = open[h].target
  OBVIOUS
<1>3. old \in Paths /\ current \in Paths /\ new \in Paths /\ old # << >> /\ new # << >>
  BY <1>0, <1>1, <1>2 DEF ContextsOK, HandleOK, Live
<1>4. old \in Seq(Names) /\ current \in Seq(Names) /\ new \in Seq(Names)
  BY <1>3, PathsAre
<1>5. /\ Sound(store') /\ Renames(store, store', KeyOf(store, old), KeyOf(store, new))
      /\ \A p \in handles \cup DOMAIN dirOffsets : Len(NewPath(old, new, p)) <= MaxDepth
      /\ handles' = {NewPath(old, new, p) : p \in handles}
      /\ dirOffsets' = Remap(dirOffsets, old, new)
  BY <1>0, <1>2, <1>3, MoveFileIs
<1>6. PICK o :
           /\ Shape(o) /\ Live(o) = Live(open) /\ SameContexts(o, open')
           /\ \A g \in Live(o) : \A k \in Live(o) \ {g} :
                open'[g].exact => o[g].path # o[k].path /\ o[g].path # o[k].name
           /\ \A g \in Live(open) :
                /\ MovedTo(open[g], o[g], old, current, new, DOMAIN dirOffsets)
                /\ o[g].exact => Undisturbed(store, store', open[g].ino)
  BY <1>0, <1>2, MoveContexts
<1>7. Apart(open')
  BY <1>6 DEF Apart, SameContexts, SameButExact
<1>8. NewAreLast(store, store')
  BY <1>0, <1>5, ChangesNewLast
<1>9. \A p \in DOMAIN dirOffsets : p \in Seq(Names)
  BY <1>0, PathsAre DEF TablesOK
<1>10. ASSUME NEW g \in Live(open')
       PROVE  /\ g \in Live(open) /\ SameListing(open[g], open'[g])
              /\ open'[g].exact => Undisturbed(store, store', open[g].ino)
              /\ open'[g].exact /\ ~open'[g].displaced =>
                   Offset(dirOffsets', open'[g].path) = Offset(dirOffsets, open[g].path)
  <2>1. PICK c, d, e : c = open[g] /\ d = o[g] /\ e = open'[g]
    OBVIOUS
  <2>2. g \in Live(open) /\ g \in Live(o)
    BY <1>6 DEF SameContexts
  <2>3. SameButExact(d, e) /\ (e.exact => d.exact)
    BY <1>6, <2>1, <2>2 DEF SameContexts
  <2>4. MovedTo(c, d, old, current, new, DOMAIN dirOffsets) /\ (d.exact => Undisturbed(store, store', c.ino))
    BY <1>6, <2>1, <2>2
  <2>5. SameListing(c, e)
    BY <2>3, <2>4 DEF MovedTo, SameButExact, SameListing
  <2>6. ASSUME e.exact, ~e.displaced
        PROVE  Offset(dirOffsets', e.path) = Offset(dirOffsets, c.path)
    <3>1. /\ e.path = NewPath(old, new, c.path) /\ ~c.displaced /\ ~Displaces(old, new, c.path)
          /\ e.path # c.path => e.path \notin DOMAIN dirOffsets
      BY <2>3, <2>4, <2>6, NotMistaken DEF MovedTo, SameButExact
    <3>2. HandleOK(store, c)
      BY <1>0, <2>1, <2>2 DEF ContextsOK
    <3>3. c.path \in Seq(Names) /\ Resolve(store, c.path) # NoIno
      BY <3>1, <3>2, PathsAre DEF HandleOK, NoIno, RootIno
    <3>4. ~(Resolve(store, new) # NoIno /\ IsPrefix(new, c.path) /\ ~IsPrefix(old, c.path))
      BY <3>1 DEF Displaces, AtOrBelow
    <3>5. ~IsPrefix(old, c.path) => ~IsPrefix(new, c.path)
      BY <1>0, <1>4, <3>3, <3>4, NotBelowTarget
    <3>6. DOMAIN dirOffsets \subseteq Seq(Names)
      BY <1>9
    <3>7. PICK p, path, table : p = e.path /\ path = c.path /\ table = dirOffsets
      OBVIOUS
    <3>8. Offset(Remap(table, old, new), p) = Offset(table, path)
      BY <1>4, <3>1, <3>3, <3>5, <3>6, <3>7, OffsetMoves
    <3> QED
      BY <1>5, <3>7, <3>8
  <2> QED
    BY <2>1, <2>2, <2>3, <2>4, <2>5, <2>6
<1>11. PICK t, offsets, oo : t = store' /\ offsets = dirOffsets' /\ oo = open'
  OBVIOUS
<1>12. Lists(t, offsets, oo)
  BY <1>5, <1>8, <1>10, <1>11, ListsKept
<1>13. TablesOK'
  <2>1. ASSUME NEW p \in handles \cup DOMAIN dirOffsets PROVE NewPath(old, new, p) \in Paths
    <3>1. p \in Seq(Names)
      BY <1>0, <2>1, PathsAre DEF TablesOK
    <3>2. NewPath(old, new, p) \in Seq(Names)
      BY <1>4, <3>1, NewPathIs
    <3> QED
      BY <1>5, <2>1, <3>2, PathsAre
  <2>2. handles' \subseteq Paths
    BY <1>5, <2>1
  <2>3. DOMAIN dirOffsets' \subseteq Paths
    <3>1. DOMAIN dirOffsets' = {NewPath(old, new, k) : k \in DOMAIN dirOffsets}
      <4>1. PICK table : table = dirOffsets
        OBVIOUS
      <4>2. Moved(Remap(table, old, new), table, old, new)
        BY RemapIs
      <4>3. DOMAIN Remap(table, old, new) = {NewPath(old, new, k) : k \in DOMAIN table}
        BY <4>2 DEF Moved
      <4> QED
        BY <1>5, <4>1, <4>3
    <3> QED
      BY <2>1, <3>1
  <2>4. \A p \in DOMAIN dirOffsets' : dirOffsets'[p] \in Nat
    BY <1>0, <1>5, RemapValues DEF TablesOK
  <2> QED
    BY <2>2, <2>3, <2>4 DEF TablesOK
<1>14. ArriveInv'
  BY <1>0, MoveFileArrives
<1> QED
  BY <1>7, <1>11, <1>12, <1>13, <1>14 DEF ListInv

LEMMA WriteFileLists ==
  ASSUME ListInv, NEW h, NEW offset, NEW bytes, NEW toEof, NEW paging,
         WriteFile(h, offset, bytes, toEof, paging)
  PROVE  ListInv'
<1>1. PICK n, data : store' = Write(store, open[h].ino, n, data).store
  BY DEF WriteFile
<1>2. UNCHANGED <<open, handles, dirOffsets>>
  BY DEF WriteFile
<1>3. ArriveInv /\ Sound(store)
  BY DEF ListInv, ArriveInv
<1>4. SameTree(store, store')
  BY <1>1, <1>3, WriteIs
<1>5. ArriveInv'
  BY <1>3, WriteFileArrives
<1> QED
  BY <1>2, <1>4, <1>5, SameTreeLists

LEMMA SetEndOfFileLists ==
  ASSUME ListInv, NEW h, NEW size, SetEndOfFile(h, size)
  PROVE  ListInv'
<1>1. store' = SetSize(store, open[h].ino, size).store /\ UNCHANGED <<open, handles, dirOffsets>>
  BY DEF SetEndOfFile
<1>2. ArriveInv /\ Sound(store)
  BY DEF ListInv, ArriveInv
<1>3. SameTree(store, store')
  BY <1>1, <1>2, SetSizeIs
<1>4. ArriveInv'
  BY <1>2, SetEndOfFileArrives
<1> QED
  BY <1>1, <1>3, <1>4, SameTreeLists

LEMMA NextLists == ListInv /\ [Next]_vars => ListInv'
<1> SUFFICES ASSUME ListInv, [Next]_vars PROVE ListInv'
  OBVIOUS
<1>0. RequestsOK
  BY DEF ListInv, ArriveInv
<1>1. CASE Opening
  BY <1>0, <1>1, CreateFileLists DEF Opening, RequestsOK
<1>2. CASE Listing
  BY <1>2, SendLists DEF Listing
<1>3. CASE Cleaning
  BY <1>3, SendLists DEF Cleaning
<1>4. CASE Closing
  BY <1>4, SendLists DEF Closing
<1>5. ASSUME NEW h \in Handles, Find(h) PROVE ListInv'
  BY <1>5, FindLists
<1>6. ASSUME NEW h \in Handles, Cleanup(h) PROVE ListInv'
  BY <1>6, CleanupLists
<1>7. ASSUME NEW h \in Handles, CloseFile(h) PROVE ListInv'
  BY <1>7, CloseFileLists
<1>8. ASSUME NEW h \in Handles, CloseFileOffset(h) PROVE ListInv'
  BY <1>8, CloseFileOffsetLists
<1>9. CASE Deleting
  BY <1>9, DeleteLists DEF Deleting
<1>10. CASE Moving
  BY <1>0, <1>10, SendMoveLists DEF Moving, RequestsOK
<1>11. CASE Writing
  BY <1>11, WriteFileLists DEF Writing
<1>12. CASE Resizing
  BY <1>12, SetEndOfFileLists DEF Resizing
<1>13. CASE UNCHANGED vars
  <2>1. ArriveInv'
    BY <1>13, NextArrives DEF ListInv
  <2>2. UNCHANGED <<store, open, handles, dirOffsets>>
    BY <1>13 DEF vars
  <2> QED
    BY <2>1, <2>2 DEF ListInv, TablesOK, Apart, Lists, Live
<1>14. ASSUME NEW h \in Handles, MoveFile(h) PROVE ListInv'
  BY <1>14, MoveFileLists
<1>15. ASSUME NEW h \in Handles, MoveFails(h) PROVE ListInv'
  BY <1>15, MoveFailsLists
<1> QED
  BY <1>1, <1>2, <1>3, <1>4, <1>5, <1>6, <1>7, <1>8, <1>9, <1>10, <1>11, <1>12, <1>13, <1>14,
     <1>15 DEF Next

LEMMA AlwaysList == Spec => []ListInv
BY InitLists, NextLists, PTL DEF Spec

\* The state keeps its shape: offsets are counted from 0, tables are keyed by
\* paths, an inode number is given out once.
THEOREM MountedTypeCorrect == Spec => []TypeOK
<1>1. ListInv => TypeOK
  BY DEF ListInv, ArriveInv, TablesOK, ContextsOK, HandleOK, Sound, TypeOK
<1> QED
  BY <1>1, AlwaysList, PTL

\* A listing in several calls delivers every entry that matches once, from the
\* offset kept for the path, whatever is renamed, made or deleted elsewhere in
\* between (dispatch.rs:140).
THEOREM MountedListingExact == Spec => []ListingExact
<1>1. ListInv => ListingExact
  <2> SUFFICES ASSUME ListInv, NEW h \in Live(open), open[h].exact, ~open[h].displaced,
                      NEW r, r = Offset(dirOffsets, open[h].path)
               PROVE  /\ ~open[h].twice
                      /\ \A e \in ReadDir(store, open[h].ino, 0).entries :
                           (e.name \in open[h].pattern /\ e.offset <= r) <=> e.name \in open[h].seen
    BY DEF ListingExact
  <2>1. PICK c : c = open[h]
    OBVIOUS
  <2>2. Sound(store) /\ r \in Nat /\ ListedTo(store, c, r)
    BY <2>1, OffsetIs DEF ListInv, ArriveInv, Lists
  <2> QED
    BY <2>1, <2>2, ListedToExact
<1> QED
  BY <1>1, AlwaysList, PTL

(***************************************************************************)
(* What a move that replaces nothing leaves within reach.                  *)
(***************************************************************************)

LEMMA PrefixOfParent ==
  ASSUME NEW a \in Seq(Names), NEW q \in Seq(Names), q # << >>
  PROVE  IsPrefix(a, a) /\ (IsPrefix(a, Parent(q)) => IsPrefix(a, q))
<1>1. Parent(q) \in Seq(Names) /\ \A j \in 1 .. Len(q) - 1 : Parent(q)[j] = q[j]
  BY Parents
<1>2. Len(Parent(q)) = Len(q) - 1 /\ Len(q) \in Nat \ {0}
  BY Parents
<1>3. IsPrefix(a, a)
  BY DEF IsPrefix
<1>4. ASSUME IsPrefix(a, Parent(q)) PROVE IsPrefix(a, q)
  <2>1. Len(a) <= Len(q) - 1 /\ a = SubSeq(Parent(q), 1, Len(a))
    BY <1>1, <1>2, <1>4 DEF IsPrefix
  <2>2. Len(a) \in 0 .. Len(Parent(q)) /\ Len(a) \in 0 .. Len(q)
    BY <1>2, <2>1
  <2>3. \A j \in 1 .. Len(a) : a[j] = q[j]
    <3>1. PICK c : c = Parent(q)
      OBVIOUS
    <3>2. c \in Seq(Names) /\ Len(a) \in 0 .. Len(c) /\ a = SubSeq(c, 1, Len(a))
      BY <1>1, <2>1, <2>2, <3>1
    <3>3. \A j \in 1 .. Len(a) : a[j] = c[j]
      BY <3>2, PrefixFacts
    <3> QED
      BY <1>1, <1>2, <2>1, <3>1, <3>3
  <2>4. a = SubSeq(q, 1, Len(a))
    BY <2>2, <2>3, PrefixFacts, SeqEqual
  <2> QED
    BY <2>1, <2>4 DEF IsPrefix
<1> QED
  BY <1>3, <1>4

\* What is closed under the new tree has the inodes of all paths that were not
\* moved.
LEMMA StillReached ==
  ASSUME NEW s, Sound(s), NEW t, NEW old \in Seq(Names), old # << >>, NEW n,
         Renames(s, t, KeyOf(s, old), n), n \notin DOMAIN s.children,
         NEW W, Closed(t, W)
  PROVE  \A q \in Seq(Names) :
           Resolve(s, q) # NoIno /\ ~IsPrefix(old, q) => Resolve(s, q) \in W
<1> DEFINE S == {m \in Nat : \A q \in Seq(Names) :
                   Len(q) = m /\ Resolve(s, q) # NoIno /\ ~IsPrefix(old, q) => Resolve(s, q) \in W}
<1>1. 0 \in S
  <2> SUFFICES ASSUME NEW q \in Seq(Names), Len(q) = 0 PROVE Resolve(s, q) \in W
    OBVIOUS
  <2>1. q = << >>
    OBVIOUS
  <2> QED
    BY <2>1, ResolveRoot DEF Closed
<1>2. ASSUME NEW m \in Nat, m \in S PROVE m + 1 \in S
  <2> SUFFICES ASSUME NEW q \in Seq(Names), Len(q) = m + 1, Resolve(s, q) # NoIno, ~IsPrefix(old, q)
               PROVE  Resolve(s, q) \in W
    OBVIOUS
  <2>1. q # << >>
    OBVIOUS
  <2>2. PICK i, j : i = Resolve(s, Parent(q)) /\ j = Resolve(s, q)
    OBVIOUS
  <2>3. HasEntry(s, i, Leaf(q)) /\ s.children[<<i, Leaf(q)>>] = j /\ i # NoIno
    BY <2>1, <2>2, ResolveFinds
  <2>4. Parent(q) \in Seq(Names) /\ Len(Parent(q)) = m
    BY <2>1, Parents
  <2>5. ~IsPrefix(old, Parent(q))
    BY <2>1, PrefixOfParent
  <2>6. i \in W
    BY <1>2, <2>2, <2>3, <2>4, <2>5
  <2>7. <<i, Leaf(q)>> \in DOMAIN s.children
    BY <2>3 DEF HasEntry
  <2>8. <<i, Leaf(q)>> # KeyOf(s, old)
    <3> SUFFICES ASSUME <<i, Leaf(q)>> = KeyOf(s, old) PROVE FALSE
      OBVIOUS
    <3>1. i = Resolve(s, Parent(old)) /\ Leaf(q) = Leaf(old)
      BY DEF KeyOf
    <3>2. Parent(old) \in Seq(Names)
      BY Parents
    <3>3. Parent(q) = Parent(old)
      BY <2>2, <2>3, <2>4, <3>1, <3>2, ResolveUnique
    <3>4. q = old
      BY <2>1, <3>1, <3>3, ParentLeafEqual
    <3> QED
      BY <3>4, PrefixOfParent
  <2>9. <<i, Leaf(q)>> \in DOMAIN t.children /\ t.children[<<i, Leaf(q)>>] = j
    BY <2>3, <2>7, <2>8 DEF Renames
  <2>10. t.children[<<i, Leaf(q)>>] \in W
    BY <2>6, <2>9 DEF Closed
  <2> QED
    BY <2>2, <2>9, <2>10
<1> HIDE DEF S
<1>3. Nat \subseteq S
  BY <1>1, <1>2, SetInduction
<1> QED
  BY <1>3 DEF S

LEMMA MoveReaches ==
  ASSUME NEW s, Sound(s), NEW t, NEW old \in Seq(Names), old # << >>,
         NEW new \in Seq(Names), new # << >>, Renames(s, t, KeyOf(s, old), KeyOf(s, new)),
         Resolve(s, Parent(new)) # NoIno, Resolve(s, new) = NoIno, ~IsPrefix(old, new)
  PROVE  Reached(s) \subseteq Reached(t)
<1> DEFINE k == KeyOf(s, old)
           n == KeyOf(s, new)
<1>1. n \notin DOMAIN s.children
  <2> SUFFICES ASSUME n \in DOMAIN s.children PROVE FALSE
    OBVIOUS
  <2>1. PICK i : i = Resolve(s, Parent(new))
    OBVIOUS
  <2>2. HasEntry(s, i, Leaf(new))
    BY <2>1 DEF HasEntry, KeyOf
  <2>3. StepIn(s, i, Leaf(new)) # NoIno
    BY <2>2, EntriesAreFound
  <2> QED
    BY <2>1, <2>3, ResolveChild
<1>2. Parent(new) \in Seq(Names) /\ ~IsPrefix(old, Parent(new))
  BY Parents, PrefixOfParent
<1>3. ASSUME NEW W, Closed(t, W) PROVE Closed(s, W)
  <2>1. Resolve(s, Parent(new)) \in W
    BY <1>1, <1>2, <1>3, StillReached
  <2>2. t.children[n] \in W
    <3>1. n \in DOMAIN t.children /\ n[1] \in W
      BY <2>1 DEF Renames, KeyOf
    <3> QED
      BY <1>3, <3>1 DEF Closed
  <2> HIDE DEF n, k
  <2>3. Renames(s, t, k, n)
    BY DEF k, n
  <2>4. ASSUME NEW key \in DOMAIN s.children, key[1] \in W PROVE s.children[key] \in W
    <3>1. CASE key = k
      BY <2>2, <2>3, <3>1 DEF Renames
    <3>2. CASE key # k
      <4>1. key \in DOMAIN t.children /\ t.children[key] = s.children[key]
        BY <1>1, <2>3, <2>4, <3>2 DEF Renames
      <4> QED
        BY <1>3, <2>4, <4>1 DEF Closed
    <3> QED
      BY <3>1, <3>2
  <2> QED
    BY <1>3, <2>4 DEF Closed
<1>4. DOMAIN t.nodes = DOMAIN s.nodes
  BY DEF Renames
<1> HIDE DEF k, n
<1> QED
  BY <1>3, <1>4 DEF Reached

\* A move that must not replace anything leaves every file within reach of the
\* root, with any trees, names and handles (dispatch.rs:50).
THEOREM MountedMovesKeepFiles == Spec => MovesKeepFiles
<1> DEFINE M == \A h \in Handles :
                  store' # store /\ MoveFile(h) /\ ~open[h].replace
                  /\ ~AtOrBelow(open[h].name, open[h].target) =>
                    Reached(store) \subseteq Reached(store')
<1>1. ArriveInv => M
  <2> SUFFICES ASSUME ArriveInv, NEW h \in Handles, MoveFile(h), ~open[h].replace,
                      ~AtOrBelow(open[h].name, open[h].target)
               PROVE  Reached(store) \subseteq Reached(store')
    OBVIOUS
  <2>1. PICK old, new : old = open[h].name /\ new = open[h].target
    OBVIOUS
  <2>2. open[h].at = "move"
    BY Zenon DEF MoveFile
  <2>3. HandleOK(store, open[h]) /\ Sound(store)
    BY <2>2 DEF ArriveInv, ContextsOK, Live
  <2>4. old \in Paths /\ new \in Paths /\ old # << >> /\ new # << >>
    BY <2>1, <2>2, <2>3 DEF HandleOK
  <2>5. old \in Seq(Names) /\ new \in Seq(Names)
    BY <2>4, PathsAre
  <2>6. /\ Renames(store, store', KeyOf(store, old), KeyOf(store, new))
        /\ Resolve(store, Parent(new)) # NoIno /\ Resolve(store, new) = NoIno
    BY <2>1, <2>3, <2>4, MoveFileIs
  <2>7. ~IsPrefix(old, new)
    BY <2>1 DEF AtOrBelow
  <2>8. PICK s, t : s = store /\ t = store'
    OBVIOUS
  <2>9. Reached(s) \subseteq Reached(t)
    BY <2>3, <2>4, <2>5, <2>6, <2>7, <2>8, MoveReaches
  <2> QED
    BY <2>8, <2>9
<1>2. ArriveInv => [M]_vars
  BY <1>1
<1>3. [][M]_vars => MovesKeepFiles
  BY DEF MovesKeepFiles
<1> HIDE DEF M
<1> QED
  BY <1>2, <1>3, AlwaysArrive, PTL

(***************************************************************************)
(* What the files hold.                                                    *)
(***************************************************************************)

LEMMA ResizedIs ==
  ASSUME NEW data \in Seq(Byte), NEW n \in Nat
  PROVE  /\ Resized(data, n) \in Seq(Byte) /\ Len(Resized(data, n)) = n
         /\ \A k \in 1 .. n : Resized(data, n)[k] = IF k <= Len(data) THEN data[k] ELSE 0
<1> DEFINE r == Resized(data, n)
<1>1. \A k \in 1 .. n : r[k] = (IF k <= Len(data) THEN data[k] ELSE 0)
  BY DEF Resized
<1>2. \A k \in 1 .. n : (IF k <= Len(data) THEN data[k] ELSE 0) \in Byte
  <2>1. \A k \in 1 .. Len(data) : data[k] \in Byte
    OBVIOUS
  <2>2. 0 \in Byte
    BY DEF Byte
  <2> QED
    BY <2>1, <2>2
<1>3. DOMAIN r = 1 .. n
  BY DEF Resized
<1>4. r \in [1 .. n -> Byte]
  BY <1>2 DEF Resized
<1>5. r \in Seq(Byte)
  BY <1>4
<1> HIDE DEF r
<1>6. Len(r) = n
  BY <1>3, <1>5
<1> QED
  BY <1>1, <1>5, <1>6 DEF r

LEMMA OverwrittenIs ==
  ASSUME NEW data \in Seq(Byte), NEW bytes \in Seq(Byte), NEW offset \in Nat
  PROVE  LET r == Overwritten(data, offset, bytes) IN
         /\ r \in Seq(Byte)
         /\ Len(r) = IF offset + Len(bytes) > Len(data) THEN offset + Len(bytes) ELSE Len(data)
         /\ \A k \in 1 .. Len(r) :
              /\ k - offset \in 1 .. Len(bytes) => r[k] = bytes[k - offset]
              /\ k - offset \notin 1 .. Len(bytes) => r[k] = IF k <= Len(data) THEN data[k] ELSE 0
<1> DEFINE n == IF offset + Len(bytes) > Len(data) THEN offset + Len(bytes) ELSE Len(data)
           long == Resized(data, n)
           r == [k \in 1 .. Len(long) |->
                   IF k - offset \in 1 .. Len(bytes) THEN bytes[k - offset] ELSE long[k]]
<1>1. n \in Nat
  OBVIOUS
<1> HIDE DEF n
<1>2. /\ long \in Seq(Byte) /\ Len(long) = n
      /\ \A k \in 1 .. n : long[k] = IF k <= Len(data) THEN data[k] ELSE 0
  BY <1>1, ResizedIs
<1> HIDE DEF long
<1>3. r = [k \in 1 .. n |-> IF k - offset \in 1 .. Len(bytes) THEN bytes[k - offset] ELSE long[k]]
  BY <1>2
<1>4. \A k \in 1 .. n :
        (IF k - offset \in 1 .. Len(bytes) THEN bytes[k - offset] ELSE long[k]) \in Byte
  BY <1>2
<1>5. DOMAIN r = 1 .. n /\ r \in [1 .. n -> Byte]
  BY <1>3, <1>4
<1>6. \A k \in 1 .. n :
        /\ k - offset \in 1 .. Len(bytes) => r[k] = bytes[k - offset]
        /\ k - offset \notin 1 .. Len(bytes) => r[k] = long[k]
  BY <1>3
<1> HIDE DEF r
<1>7. r \in Seq(Byte)
  BY <1>1, <1>5
<1>8. Len(r) = n
  BY <1>1, <1>5, <1>7
<1>9. Overwritten(data, offset, bytes) = r
  BY DEF Overwritten, r, long, n
<1>10. \A k \in 1 .. Len(r) :
        /\ k - offset \in 1 .. Len(bytes) => r[k] = bytes[k - offset]
        /\ k - offset \notin 1 .. Len(bytes) => r[k] = IF k <= Len(data) THEN data[k] ELSE 0
  BY <1>2, <1>6, <1>8
<1>11. Len(r) = IF offset + Len(bytes) > Len(data) THEN offset + Len(bytes) ELSE Len(data)
  BY <1>8 DEF n
<1> QED
  BY <1>7, <1>9, <1>10, <1>11

LEMMA InsertHeld ==
  ASSUME NEW s, NEW dir, NEW name, NEW kind, Good(s), Held(s)
  PROVE  Held(InsertNode(s, dir, name, kind).store)
<1> DEFINE t == [nodes |-> With(s.nodes, s.next, Node(kind, dir, name)),
                 children |-> With(s.children, <<dir, name>>, s.next),
                 next |-> s.next + 1]
           n == IF kind = "dir" THEN 1 ELSE 0
<1>1. CASE HasEntry(s, dir, name)
  BY <1>1 DEF InsertNode, Fails
<1>2. CASE ~HasEntry(s, dir, name)
  <2>1. Held(t)
    <3>1. Node(kind, dir, name).data \in Seq(Byte)
      BY DEF Node
    <3> QED
      BY <3>1 DEF Held, With
  <2> HIDE DEF t
  <2>2. Held(AddLinks(t, dir, n))
    BY <2>1 DEF Held, AddLinks
  <2> QED
    BY <1>2, <2>2 DEF InsertNode, Ok, t
<1> QED
  BY <1>1, <1>2

LEMMA UnlinkHeld ==
  ASSUME NEW s, NEW dir, NEW name, Held(s)
  PROVE  Held(Unlink(s, dir, name).store)
BY DEF Held, Unlink, Ok, Fails, Removed

LEMMA RmdirHeld ==
  ASSUME NEW s, NEW dir, NEW name, Held(s)
  PROVE  Held(Rmdir(s, dir, name).store)
<1> DEFINE u == Unlink(s, dir, name)
<1>1. Held(u.store)
  BY UnlinkHeld
<1> HIDE DEF u
<1>2. \/ Rmdir(s, dir, name) = u
      \/ Rmdir(s, dir, name) = Fails("ENOTEMPTY", s)
      \/ Rmdir(s, dir, name) = Ok(AddLinks(u.store, dir, -1))
  BY DEF Rmdir, u
<1>3. Held(AddLinks(u.store, dir, -1))
  BY <1>1 DEF Held, AddLinks
<1> QED
  BY <1>1, <1>2, <1>3 DEF Fails, Ok

LEMMA RenameHeld ==
  ASSUME NEW s, NEW dir, NEW name, NEW newDir, NEW newName, Held(s)
  PROVE  Held(Rename(s, dir, name, newDir, newName).store)
BY DEF Held, Rename, Ok, Fails, Exists

LEMMA DataHeld ==
  ASSUME NEW s, NEW i, NEW data \in Seq(Byte), Held(s)
  PROVE  Held([s EXCEPT !.nodes[i].data = data])
BY DEF Held

LEMMA SetSizeHeld ==
  ASSUME NEW s, NEW i, NEW size \in Nat, Held(s)
  PROVE  Held(SetSize(s, i, size).store)
<1>1. CASE Exists(s, i)
  <2>1. SetSize(s, i, size).store = [s EXCEPT !.nodes[i].data = Resized(s.nodes[i].data, size)]
    BY <1>1 DEF SetSize, Ok
  <2>2. Resized(s.nodes[i].data, size) \in Seq(Byte)
    BY <1>1, ResizedIs DEF Held, Exists
  <2>3. PICK data \in Seq(Byte) : data = Resized(s.nodes[i].data, size)
    BY <2>2
  <2>4. Held([s EXCEPT !.nodes[i].data = data])
    BY DataHeld
  <2> QED
    BY <2>1, <2>3, <2>4
<1>2. CASE ~Exists(s, i)
  BY <1>2 DEF SetSize, Fails
<1> QED
  BY <1>1, <1>2

LEMMA WriteHeld ==
  ASSUME NEW s, NEW i, NEW offset \in Nat, NEW bytes \in Seq(Byte), Held(s)
  PROVE  Held(Write(s, i, offset, bytes).store)
<1>1. CASE FileStatus(s, i) = "ok"
  <2>1. Write(s, i, offset, bytes).store
          = [s EXCEPT !.nodes[i].data = Overwritten(s.nodes[i].data, offset, bytes)]
    BY <1>1 DEF Write, Ok
  <2>2. s.nodes[i].data \in Seq(Byte)
    BY <1>1 DEF Held, FileStatus, Exists
  <2>3. Overwritten(s.nodes[i].data, offset, bytes) \in Seq(Byte)
    BY <2>2, OverwrittenIs
  <2>4. PICK data \in Seq(Byte) : data = Overwritten(s.nodes[i].data, offset, bytes)
    BY <2>3
  <2>5. Held([s EXCEPT !.nodes[i].data = data])
    BY DataHeld
  <2> QED
    BY <2>1, <2>4, <2>5
<1>2. CASE FileStatus(s, i) # "ok"
  BY <1>2 DEF Write, Fails
<1> QED
  BY <1>1, <1>2

LEMMA PartIs ==
  ASSUME NEW bytes \in Seq(Byte), NEW n \in 0 .. Len(bytes)
  PROVE  /\ SubSeq(bytes, 1, n) \in Seq(Byte) /\ Len(SubSeq(bytes, 1, n)) = n
         /\ \A k \in 1 .. n : SubSeq(bytes, 1, n)[k] = bytes[k]
OBVIOUS

\* How much of a buffer is written: all of it, or with paging what fits.
Fits(size, at, length, paging) ==
  IF paging /\ at + length > size THEN (IF at >= size THEN 0 ELSE size - at) ELSE length

LEMMA PlanIs ==
  ASSUME NEW size \in Nat, NEW offset \in Offsets, NEW length \in Nat,
         NEW toEof \in BOOLEAN, NEW paging \in BOOLEAN,
         WritePlan(size, offset, length, toEof, paging).ok
  PROVE  LET plan == WritePlan(size, offset, length, toEof, paging)
             at == IF toEof THEN size ELSE offset IN
         /\ at \in Nat /\ plan.start = at
         /\ plan.length = Fits(size, at, length, paging) /\ plan.length \in 0 .. length
<1> DEFINE at == IF toEof THEN size ELSE offset
           room == IF at >= size THEN 0 ELSE size - at
<1>1. toEof \/ offset >= 0
  BY DEF WritePlan, Invalid, Offsets
<1>2. at \in Nat /\ room \in Nat
  BY <1>1, WidthsAssumption DEF Offsets
<1>3. WritePlan(size, offset, length, toEof, paging)
        = [ok |-> TRUE, start |-> at,
           length |-> IF paging /\ room < length THEN room ELSE length]
  BY <1>1, WidthsAssumption DEF WritePlan, Offsets
<1> HIDE DEF at
<1>4. (IF paging /\ room < length THEN room ELSE length) = Fits(size, at, length, paging)
  BY <1>2 DEF Fits
<1>5. (IF paging /\ room < length THEN room ELSE length) \in 0 .. length
  BY <1>2
<1> HIDE DEF room
<1>6. /\ at \in Nat /\ WritePlan(size, offset, length, toEof, paging).start = at
      /\ WritePlan(size, offset, length, toEof, paging).length = Fits(size, at, length, paging)
      /\ WritePlan(size, offset, length, toEof, paging).length \in 0 .. length
  BY <1>2, <1>3, <1>4, <1>5
<1> QED
  BY <1>6 DEF at

\* The length of the file an inode is of, as getattr has it.
SizeOf(s, i) == IF Exists(s, i) THEN Len(s.nodes[i].data) ELSE 0

LEMMA WriteFileIs ==
  ASSUME Held(store), NEW h, NEW offset \in Sizes, NEW bytes \in Contents,
         NEW toEof \in BOOLEAN, NEW paging \in BOOLEAN,
         WriteFile(h, offset, bytes, toEof, paging),
         NEW i, i = open[h].ino, NEW size, size = SizeOf(store, i),
         NEW at, at = IF toEof THEN size ELSE offset
  PROVE  /\ size \in Nat /\ at \in Nat /\ Fits(size, at, Len(bytes), paging) \in 0 .. Len(bytes)
         /\ store' = Write(store, i, at, SubSeq(bytes, 1, Fits(size, at, Len(bytes), paging))).store
<1>1. bytes \in Seq(Byte) /\ offset \in Offsets
  BY BuffersAssumption
<1>2. Len(bytes) \in Nat
  BY <1>1
<1>3. size \in Nat
  BY DEF SizeOf, Held, Exists
<1> DEFINE attr == GetAttr(store, open[h].ino)
<1>4. (IF attr.status = "ok" THEN attr.size ELSE 0) = size
  BY DEF GetAttr, SizeOf
<1> DEFINE length == Len(bytes)
           plan == WritePlan(size, offset, length, toEof, paging)
<1>5. /\ plan.ok /\ store' = Write(store, i, plan.start, SubSeq(bytes, 1, plan.length)).store
  BY <1>4 DEF WriteFile
<1>6. length \in Nat
  BY <1>2
<1> HIDE DEF length
<1>7. at \in Nat /\ plan.start = at
  BY <1>1, <1>3, <1>5, <1>6, PlanIs
<1>8. plan.length = Fits(size, at, length, paging) /\ plan.length \in 0 .. length
  BY <1>1, <1>3, <1>5, <1>6, PlanIs
<1> HIDE DEF plan
<1> QED
  BY <1>3, <1>5, <1>7, <1>8 DEF length

\* What is written of the buffer, and where.
WritesAt(i, size, at, bytes, paging) ==
  /\ size \in Nat /\ at \in Nat /\ Fits(size, at, Len(bytes), paging) \in 0 .. Len(bytes)
  /\ store' = Write(store, i, at, SubSeq(bytes, 1, Fits(size, at, Len(bytes), paging))).store

LEMMA WriteFileWrites ==
  ASSUME Held(store), NEW h, NEW offset \in Sizes, NEW bytes \in Contents,
         NEW toEof \in BOOLEAN, NEW paging \in BOOLEAN,
         WriteFile(h, offset, bytes, toEof, paging)
  PROVE  WritesAt(open[h].ino, SizeOf(store, open[h].ino),
                  IF toEof THEN SizeOf(store, open[h].ino) ELSE offset, bytes, paging)
<1>1. PICK i, size, at : /\ i = open[h].ino /\ size = SizeOf(store, i)
                         /\ at = IF toEof THEN size ELSE offset
  OBVIOUS
<1>2. WritesAt(i, size, at, bytes, paging)
  BY <1>1, WriteFileIs DEF WritesAt
<1> QED
  BY <1>1, <1>2

LEMMA WriteFileHeld ==
  ASSUME Held(store), NEW h, NEW offset \in Sizes, NEW bytes \in Contents,
         NEW toEof \in BOOLEAN, NEW paging \in BOOLEAN,
         WriteFile(h, offset, bytes, toEof, paging)
  PROVE  Held(store')
<1>1. PICK s, i, size, at : /\ s = store /\ i = open[h].ino /\ size = SizeOf(store, i)
                            /\ at = IF toEof THEN size ELSE offset
  OBVIOUS
<1>2. /\ at \in Nat /\ Fits(size, at, Len(bytes), paging) \in 0 .. Len(bytes)
      /\ store' = Write(s, i, at, SubSeq(bytes, 1, Fits(size, at, Len(bytes), paging))).store
  <2>1. i = open[h].ino /\ size = SizeOf(store, i) /\ at = IF toEof THEN size ELSE offset
    BY <1>1
  <2>2. /\ size \in Nat /\ at \in Nat /\ Fits(size, at, Len(bytes), paging) \in 0 .. Len(bytes)
        /\ store' = Write(store, i, at, SubSeq(bytes, 1, Fits(size, at, Len(bytes), paging))).store
    BY <2>1, WriteFileIs
  <2> QED
    BY <1>1, <2>2
<1>3. PICK n \in 0 .. Len(bytes) : n = Fits(size, at, Len(bytes), paging)
  BY <1>2
<1>4. PICK part \in Seq(Byte) : part = SubSeq(bytes, 1, n)
  BY <1>3, PartIs, BuffersAssumption
<1>5. Held(Write(s, i, at, part).store)
  BY <1>1, <1>2, WriteHeld
<1> QED
  BY <1>2, <1>3, <1>4, <1>5

LEMMA SetEndOfFileHeld ==
  ASSUME Held(store), NEW h, NEW size \in Sizes, SetEndOfFile(h, size)
  PROVE  Held(store')
<1>1. PICK s, i : s = store /\ i = open[h].ino
  OBVIOUS
<1>2. size \in Nat
  BY BuffersAssumption, WidthsAssumption DEF SetEndOfFile, Nonnegative, Invalid, Offsets
<1>3. Held(SetSize(s, i, size).store)
  BY <1>1, <1>2, SetSizeHeld
<1> QED
  BY <1>1, <1>3 DEF SetEndOfFile

LEMMA CreateFileHeld ==
  ASSUME NEW h, NEW path, NEW disposition, NEW asDir, Good(store), Held(store),
         CreateFile(h, path, disposition, asDir)
  PROVE  Held(store')
<1> DEFINE made == InsertNode(store, Resolve(store, Parent(path)), Leaf(path),
                              IF asDir THEN "dir" ELSE "file")
<1>1. Held(made.store)
  BY InsertHeld
<1> HIDE DEF made
<1>2. store' = store \/ store' = made.store
  BY DEF CreateFile, OpenExisting, OpensAs, made
<1> QED
  BY <1>1, <1>2

LEMMA CleanupHeld ==
  ASSUME NEW h, Held(store), Cleanup(h)
  PROVE  Held(store')
<1> DEFINE o == open[h]
           dir == Resolve(store, Parent(o.name))
           r == IF o.isDir THEN Rmdir(store, dir, Leaf(o.name)) ELSE Unlink(store, dir, Leaf(o.name))
<1>1. Held(r.store)
  BY RmdirHeld, UnlinkHeld
<1> HIDE DEF r
<1>2. store' = store \/ store' = r.store
  BY DEF Cleanup, r
<1> QED
  BY <1>1, <1>2

LEMMA MoveFileHeld ==
  ASSUME NEW h, Held(store), MoveFile(h)
  PROVE  Held(store')
<1> DEFINE o == open[h]
           r == Rename(store, Resolve(store, Parent(o.name)), Leaf(o.name),
                       Resolve(store, Parent(o.target)), Leaf(o.target))
<1>1. Held(r.store)
  BY RenameHeld
<1> HIDE DEF r
<1>2. store' = store \/ store' = r.store
  BY DEF MoveFile, Renamed, Fails, r
<1> QED
  BY <1>1, <1>2

HeldInv == Good(store) /\ Held(store)

LEMMA NextHeld == HeldInv /\ [Next]_vars => HeldInv'
<1> SUFFICES ASSUME Good(store), Held(store), [Next]_vars PROVE Held(store')
  BY NextGood DEF HeldInv
<1>1. CASE Opening
  BY <1>1, CreateFileHeld DEF Opening
<1>2. CASE Listing \/ Cleaning \/ Closing
  BY <1>2 DEF Listing, Cleaning, Closing, Send
<1>3. CASE \E h \in Handles : Find(h) \/ CloseFile(h) \/ CloseFileOffset(h) \/ MoveFails(h)
  BY <1>3 DEF Find, CloseFile, CloseFileOffset, MoveFails
<1>4. CASE \E h \in Handles : Cleanup(h) \/ MoveFile(h)
  BY <1>4, CleanupHeld, MoveFileHeld
<1>5. CASE Deleting
  <2>1. PICK h \in Handles : Delete(h)
    BY <1>5 DEF Deleting
  <2> QED
    BY <2>1 DEF Delete
<1>6. CASE Moving
  BY <1>6 DEF Moving, SendMove
<1>7. CASE Writing
  BY <1>7, WriteFileHeld DEF Writing
<1>8. CASE Resizing
  BY <1>8, SetEndOfFileHeld DEF Resizing
<1>9. CASE UNCHANGED vars
  BY <1>9 DEF vars
<1> QED
  BY <1>1, <1>2, <1>3, <1>4, <1>5, <1>6, <1>7, <1>8, <1>9 DEF Next

LEMMA WriteLands ==
  ASSUME NEW old \in Seq(Byte), NEW bytes \in Seq(Byte), NEW at \in Nat, NEW paging \in BOOLEAN,
         at <= Len(old) \/ (~paging /\ bytes # << >>),
         NEW n \in 0 .. Len(bytes), n = Fits(Len(old), at, Len(bytes), paging),
         NEW new, new = Overwritten(old, at, SubSeq(bytes, 1, n)),
         NEW length, length = IF paging \/ at + Len(bytes) < Len(old) THEN Len(old) ELSE at + Len(bytes)
  PROVE  Rewritten(old, new, at, bytes, length)
<1>1. PICK part \in Seq(Byte) : part = SubSeq(bytes, 1, n)
  BY PartIs
<1>2. Len(part) = n /\ \A k \in 1 .. n : part[k] = bytes[k]
  BY <1>1, PartIs
<1>3. PICK size, all : size = Len(old) /\ all = Len(bytes)
  OBVIOUS
<1>4. size \in Nat /\ all \in Nat /\ n \in 0 .. all /\ n = Fits(size, at, all, paging)
  BY <1>3
<1>5. at <= size \/ (~paging /\ all # 0)
  BY <1>3
<1>6. /\ new \in Seq(Byte)
      /\ Len(new) = IF at + n > size THEN at + n ELSE size
      /\ \A k \in 1 .. Len(new) :
           /\ k - at \in 1 .. n => new[k] = part[k - at]
           /\ k - at \notin 1 .. n => new[k] = IF k <= size THEN old[k] ELSE 0
  <2>1. new = Overwritten(old, at, part)
    BY <1>1
  <2>2. LET r == Overwritten(old, at, part) IN
         /\ r \in Seq(Byte)
         /\ Len(r) = IF at + Len(part) > Len(old) THEN at + Len(part) ELSE Len(old)
         /\ \A k \in 1 .. Len(r) :
              /\ k - at \in 1 .. Len(part) => r[k] = part[k - at]
              /\ k - at \notin 1 .. Len(part) => r[k] = IF k <= Len(old) THEN old[k] ELSE 0
    BY OverwrittenIs
  <2> QED
    BY <1>2, <1>3, <2>1, <2>2
<1>7. length = IF paging \/ at + all < size THEN size ELSE at + all
  BY <1>3
<1>8. Len(new) = length /\ length \in Nat
  BY <1>4, <1>5, <1>6, <1>7 DEF Fits
<1>9. \A k \in 1 .. length : k - at \in 1 .. all <=> k - at \in 1 .. n
  BY <1>4, <1>5, <1>7 DEF Fits
<1>10. \A k \in 1 .. length :
         new[k] = IF k - at \in 1 .. all THEN bytes[k - at] ELSE IF k <= size THEN old[k] ELSE 0
  <2> SUFFICES ASSUME NEW k \in 1 .. length
               PROVE  new[k] = IF k - at \in 1 .. all THEN bytes[k - at]
                               ELSE IF k <= size THEN old[k] ELSE 0
    OBVIOUS
  <2>1. CASE k - at \in 1 .. all
    <3>1. k - at \in 1 .. n
      BY <1>9, <2>1
    <3>2. new[k] = bytes[k - at]
      BY <1>2, <1>6, <1>8, <3>1
    <3> QED
      BY <2>1, <3>2
  <2>2. CASE k - at \notin 1 .. all
    <3>1. new[k] = IF k <= size THEN old[k] ELSE 0
      BY <1>6, <1>8, <1>9, <2>2
    <3> QED
      BY <2>2, <3>1
  <2> QED
    BY <2>1, <2>2
<1> QED
  BY <1>3, <1>8, <1>10 DEF Rewritten

\* What is read where bytes were written.
ReadBack(new, at, bytes) ==
  LET data == SubSeq(new, at + 1, Least(at + Len(bytes), Len(new))) IN
  SubSeq(data, 1, Least(Len(data), Len(bytes)))

LEMMA WriteReadBack ==
  ASSUME NEW old \in Seq(Byte), NEW bytes \in Seq(Byte), NEW at \in Nat,
         at <= Len(old) \/ bytes # << >>
  PROVE  ReadBack(Overwritten(old, at, bytes), at, bytes) = bytes
<1>0. PICK new, data : /\ new = Overwritten(old, at, bytes)
                       /\ data = SubSeq(new, at + 1, Least(at + Len(bytes), Len(new)))
  OBVIOUS
<1>1. PICK n : n = Len(bytes)
  OBVIOUS
<1>2. n \in Nat /\ Len(old) \in Nat
  BY <1>1
<1>3. /\ new \in Seq(Byte)
      /\ Len(new) = IF at + n > Len(old) THEN at + n ELSE Len(old)
      /\ \A k \in 1 .. Len(new) : k - at \in 1 .. n => new[k] = bytes[k - at]
  BY <1>0, <1>1, OverwrittenIs
<1>4. Least(at + n, Len(new)) = at + n
  BY <1>2, <1>3 DEF Least
<1>5. at + n <= Len(new)
  BY <1>2, <1>3
<1>6. data = SubSeq(new, at + 1, at + n)
  BY <1>0, <1>1, <1>4
<1>7. data \in Seq(Byte) /\ Len(data) = n /\ \A k \in 1 .. n : data[k] = new[at + k]
  <2> DEFINE b == SubSeq(new, at + 1, at + n)
  <2>1. \A j \in 1 .. n : at + j \in 1 .. Len(new)
    BY <1>2, <1>3, <1>5
  <2>2. b \in Seq(Byte) /\ Len(b) = n /\ \A k \in 1 .. n : b[k] = new[at + k]
    BY <1>2, <1>3, <1>5, <2>1
  <2> QED
    BY <1>6, <2>2
<1>8. \A k \in 1 .. n : data[k] = bytes[k]
  <2> SUFFICES ASSUME NEW k \in 1 .. n PROVE data[k] = bytes[k]
    OBVIOUS
  <2>1. PICK m : m = at + k
    OBVIOUS
  <2>2. m \in 1 .. Len(new) /\ m - at = k
    BY <1>2, <1>5, <2>1
  <2>3. new[m] = bytes[k]
    BY <1>3, <2>2
  <2> QED
    BY <1>7, <2>1, <2>3
<1>9. Least(Len(data), Len(bytes)) = n
  BY <1>1, <1>2, <1>7 DEF Least
<1>10. SubSeq(data, 1, n) = bytes
  BY <1>1, <1>2, <1>7, <1>8
<1> QED
  BY <1>0, <1>9, <1>10 DEF ReadBack

LEMMA SizeLands ==
  ASSUME NEW old \in Seq(Byte), NEW size \in Nat, NEW new, new = Resized(old, size)
  PROVE  Rewritten(SubSeq(old, 1, Least(size, Len(old))), new, 0, << >>, size)
<1>1. PICK n : n = Least(size, Len(old))
  OBVIOUS
<1>2. n \in 0 .. Len(old) /\ n = IF size <= Len(old) THEN size ELSE Len(old)
  BY <1>1 DEF Least
<1>3. PICK part : part = SubSeq(old, 1, n)
  OBVIOUS
<1>4. Len(part) = n /\ \A k \in 1 .. n : part[k] = old[k]
  BY <1>2, <1>3, PartIs
<1>5. Len(new) = size /\ \A k \in 1 .. size : new[k] = IF k <= Len(old) THEN old[k] ELSE 0
  BY ResizedIs
<1>6. \A k \in 1 .. size : k - 0 \notin 1 .. Len(<< >>)
  OBVIOUS
<1>7. \A k \in 1 .. size : new[k] = IF k <= n THEN part[k] ELSE 0
  BY <1>2, <1>4, <1>5
<1>8. \A k \in 1 .. size :
        new[k] = IF k - 0 \in 1 .. Len(<< >>) THEN << >>[k - 0]
                 ELSE IF k <= Len(part) THEN part[k] ELSE 0
  BY <1>4, <1>6, <1>7
<1> QED
  BY <1>1, <1>3, <1>5, <1>8 DEF Rewritten

LEMMA SizeFollows ==
  ASSUME Good(store), Held(store), NEW h, NEW i, i = open[h].ino, FileStatus(store, i) = "ok",
         NEW size \in Sizes, SetEndOfFile(h, size), NEW old, old = store.nodes[i].data
  PROVE  Rewritten(SubSeq(old, 1, Least(size, Len(old))), store'.nodes[i].data, 0, << >>, size)
<1>1. PICK s, t : s = store /\ t = store'
  OBVIOUS
<1>2. size \in Nat
  BY BuffersAssumption, WidthsAssumption DEF SetEndOfFile, Nonnegative, Invalid, Offsets
<1>3. t = SetSize(s, i, size).store
  BY <1>1 DEF SetEndOfFile
<1>4. i \in DOMAIN s.nodes /\ Exists(s, i)
  BY <1>1 DEF FileStatus, Exists
<1>5. old \in Seq(Byte)
  BY <1>1, <1>4 DEF Held
<1>6. PICK new : new = Resized(old, size)
  OBVIOUS
<1>7. t = [s EXCEPT !.nodes[i].data = new]
  BY <1>1, <1>3, <1>4, <1>6 DEF SetSize, Ok
<1>8. "nodes" \in DOMAIN s /\ "data" \in DOMAIN s.nodes[i]
  BY <1>1, <1>4 DEF Good, IsStore, NodeFields
<1>9. t.nodes[i].data = new
  BY <1>4, <1>7, <1>8
<1>10. Rewritten(SubSeq(old, 1, Least(size, Len(old))), new, 0, << >>, size)
  BY <1>2, <1>5, <1>6, SizeLands
<1> QED
  BY <1>1, <1>9, <1>10

\* The file i after a write, and the others.
Follows(i, old, at, bytes, paging) ==
  /\ Rewritten(old, store'.nodes[i].data, at, bytes,
               IF paging \/ at + Len(bytes) < Len(old) THEN Len(old) ELSE at + Len(bytes))
  /\ ~paging => ReadFile(store', i, at, Len(bytes)) = bytes
  /\ \A j \in DOMAIN store.nodes \ {i} : store'.nodes[j] = store.nodes[j]

LEMMA InWidth ==
  /\ \A n \in Nat : Nonnegative(n).ok
  /\ \A n \in Seq(Byte) : Len(n) <= U32Max => CheckedLen(Len(n)).ok
<1>1. ASSUME NEW n \in Nat PROVE Nonnegative(n).ok
  BY DEF Nonnegative, Value
<1>2. ASSUME NEW n \in Seq(Byte), Len(n) <= U32Max PROVE CheckedLen(Len(n)).ok
  <2>1. ~(Len(n) > U32Max)
    BY <1>2, WidthsAssumption
  <2> QED
    BY <2>1 DEF CheckedLen, Value
<1> QED
  BY <1>1, <1>2

LEMMA WriteFollows ==
  ASSUME Good(store), Held(store), NEW h, NEW i, i = open[h].ino, FileStatus(store, i) = "ok",
         NEW offset \in Sizes, NEW bytes \in Contents, NEW toEof \in BOOLEAN, NEW paging \in BOOLEAN,
         WriteFile(h, offset, bytes, toEof, paging),
         NEW old, old = store.nodes[i].data,
         NEW at, at = IF toEof THEN Len(old) ELSE offset,
         at <= Len(old) \/ (~paging /\ bytes # << >>)
  PROVE  Follows(i, old, at, bytes, paging)
<1>1. PICK s, t : s = store /\ t = store'
  OBVIOUS
<1>2. i \in DOMAIN s.nodes /\ Exists(s, i) /\ FileStatus(s, i) = "ok"
  BY <1>1 DEF FileStatus, Exists
<1>3. old \in Seq(Byte) /\ bytes \in Seq(Byte) /\ Len(bytes) <= U32Max
  BY <1>1, <1>2, BuffersAssumption DEF Held
<1>4. PICK size : size = SizeOf(store, i)
  OBVIOUS
<1>5. size = Len(old)
  BY <1>1, <1>2, <1>4 DEF SizeOf
<1>6. at = IF toEof THEN size ELSE offset
  BY <1>5
<1>7. PICK n : n = Fits(size, at, Len(bytes), paging)
  OBVIOUS
<1>8. /\ size \in Nat /\ at \in Nat /\ n \in 0 .. Len(bytes)
      /\ store' = Write(store, i, at, SubSeq(bytes, 1, n)).store
  <2>1. /\ size \in Nat /\ at \in Nat /\ Fits(size, at, Len(bytes), paging) \in 0 .. Len(bytes)
        /\ store' = Write(store, i, at, SubSeq(bytes, 1, Fits(size, at, Len(bytes), paging))).store
    <3>1. WritesAt(open[h].ino, SizeOf(store, open[h].ino),
                   IF toEof THEN SizeOf(store, open[h].ino) ELSE offset, bytes, paging)
      BY WriteFileWrites
    <3>2. WritesAt(i, size, at, bytes, paging)
      BY <1>4, <1>6, <3>1
    <3> QED
      BY <3>2 DEF WritesAt
  <2> QED
    BY <1>7, <2>1
<1>9. PICK new : new = Overwritten(old, at, SubSeq(bytes, 1, n))
  OBVIOUS
<1>10. t = [s EXCEPT !.nodes[i].data = new]
  BY <1>1, <1>2, <1>8, <1>9 DEF Write, Ok
<1>11. "nodes" \in DOMAIN s /\ DOMAIN s.nodes[i] = NodeFields
  BY <1>1, <1>2 DEF Good, IsStore
<1>12. /\ t.nodes[i].data = new /\ t.nodes[i].kind = s.nodes[i].kind
       /\ DOMAIN t.nodes = DOMAIN s.nodes
       /\ \A j \in DOMAIN s.nodes \ {i} : t.nodes[j] = s.nodes[j]
  BY <1>2, <1>10, <1>11 DEF NodeFields
<1>13. PICK length :
         length = IF paging \/ at + Len(bytes) < Len(old) THEN Len(old) ELSE at + Len(bytes)
  OBVIOUS
<1>14. n = Fits(Len(old), at, Len(bytes), paging)
  BY <1>5, <1>7
<1>15. Rewritten(old, new, at, bytes, length)
  BY <1>3, <1>8, <1>9, <1>13, <1>14, WriteLands
<1>16. ASSUME ~paging PROVE ReadFile(t, i, at, Len(bytes)) = bytes
  <2>1. n = Len(bytes)
    BY <1>16, <1>7 DEF Fits
  <2>2. SubSeq(bytes, 1, n) = bytes
    BY <1>3, <2>1
  <2>3. new = Overwritten(old, at, bytes)
    BY <1>9, <2>2
  <2>4. PICK data : data = SubSeq(new, at + 1, Least(at + Len(bytes), Len(new)))
    OBVIOUS
  <2>5. at <= Len(old) \/ bytes # << >>
    OBVIOUS
  <2>6. SubSeq(data, 1, Least(Len(data), Len(bytes))) = bytes
    <3>1. ReadBack(Overwritten(old, at, bytes), at, bytes) = bytes
      BY <1>3, <1>8, <2>5, WriteReadBack
    <3> QED
      BY <2>3, <2>4, <3>1 DEF ReadBack
  <2>7. FileStatus(t, i) = "ok"
    BY <1>2, <1>12 DEF FileStatus, Exists, IsDir
  <2>8. Read(t, i, at, Len(bytes)).data = data
    BY <1>12, <2>4, <2>7 DEF Read
  <2>9. Nonnegative(at).ok
    BY <1>8, InWidth, Zenon
  <2>10. CheckedLen(Len(bytes)).ok
    BY <1>3, InWidth, Zenon
  <2> QED
    BY <2>6, <2>8, <2>9, <2>10 DEF ReadFile
<1> QED
  BY <1>1, <1>12, <1>13, <1>15, <1>16 DEF Follows

LEMMA ContentsAt ==
  ASSUME Good(store), Held(store), NEW h, FileStatus(store, open[h].ino) = "ok"
  PROVE  LET i == open[h].ino
             old == store.nodes[i].data
             new == store'.nodes[i].data IN
         /\ \A size \in Sizes :
              SetEndOfFile(h, size) =>
                Rewritten(SubSeq(old, 1, Least(size, Len(old))), new, 0, << >>, size)
         /\ \A offset \in Sizes, bytes \in Contents, toEof, paging \in BOOLEAN :
              LET at == IF toEof THEN Len(old) ELSE offset
                  end == at + Len(bytes) IN
              WriteFile(h, offset, bytes, toEof, paging)
              /\ (at <= Len(old) \/ (~paging /\ bytes # << >>)) =>
                /\ Rewritten(old, new, at, bytes,
                             IF paging \/ end < Len(old) THEN Len(old) ELSE end)
                /\ ~paging => ReadFile(store', i, at, Len(bytes)) = bytes
                /\ \A j \in DOMAIN store.nodes \ {i} : store'.nodes[j] = store.nodes[j]
<1> DEFINE i == open[h].ino
           old == store.nodes[i].data
<1>1. i = open[h].ino /\ old = store.nodes[i].data
  OBVIOUS
<1> HIDE DEF i, old
<1>2. ASSUME NEW size \in Sizes, SetEndOfFile(h, size)
      PROVE  Rewritten(SubSeq(old, 1, Least(size, Len(old))), store'.nodes[i].data, 0, << >>, size)
  BY <1>1, <1>2, SizeFollows
<1>3. ASSUME NEW offset \in Sizes, NEW bytes \in Contents, NEW toEof \in BOOLEAN, NEW paging \in BOOLEAN
      PROVE  LET at == IF toEof THEN Len(old) ELSE offset IN
             WriteFile(h, offset, bytes, toEof, paging)
             /\ (at <= Len(old) \/ (~paging /\ bytes # << >>)) =>
               Follows(i, old, at, bytes, paging)
  <2>1. PICK at : at = IF toEof THEN Len(old) ELSE offset
    OBVIOUS
  <2>2. ASSUME WriteFile(h, offset, bytes, toEof, paging), at <= Len(old) \/ (~paging /\ bytes # << >>)
        PROVE  Follows(i, old, at, bytes, paging)
    <3>1. FileStatus(store, i) = "ok"
      BY <1>1
    <3> QED
      BY <1>1, <2>1, <2>2, <3>1, WriteFollows
  <2> QED
    BY <2>1, <2>2
<1>4. \A size \in Sizes :
        SetEndOfFile(h, size) =>
          Rewritten(SubSeq(old, 1, Least(size, Len(old))), store'.nodes[i].data, 0, << >>, size)
  BY <1>2
<1>5. \A offset \in Sizes, bytes \in Contents, toEof, paging \in BOOLEAN :
        LET at == IF toEof THEN Len(old) ELSE offset IN
        WriteFile(h, offset, bytes, toEof, paging)
        /\ (at <= Len(old) \/ (~paging /\ bytes # << >>)) =>
          Follows(i, old, at, bytes, paging)
  BY <1>3
<1> QED
  BY <1>4, <1>5 DEF Follows, i, old

\* A write or a change of the size leaves in the file what it asked for, the
\* rest as it was and zeros where there was nothing, for any contents, widths
\* and numbers (operations.rs:154, main.rs:285).
THEOREM MountedContentsFollow == Spec => ContentsFollow
<1> DEFINE C ==
      \A h \in Handles : "write" \in requests.kinds /\ open[h].at = "idle" /\ FileStatus(store, open[h].ino) = "ok" =>
        LET i == open[h].ino
            old == store.nodes[i].data
            new == store'.nodes[i].data IN
        /\ \A size \in Sizes :
             SetEndOfFile(h, size) =>
               Rewritten(SubSeq(old, 1, Least(size, Len(old))), new, 0, << >>, size)
        /\ \A offset \in Sizes, bytes \in Contents, toEof, paging \in BOOLEAN :
             LET at == IF toEof THEN Len(old) ELSE offset
                 end == at + Len(bytes) IN
             WriteFile(h, offset, bytes, toEof, paging)
             /\ (at <= Len(old) \/ (~paging /\ bytes # << >>)) =>
               /\ Rewritten(old, new, at, bytes,
                            IF paging \/ end < Len(old) THEN Len(old) ELSE end)
               /\ ~paging => ReadFile(store', i, at, Len(bytes)) = bytes
               /\ \A j \in DOMAIN store.nodes \ {i} : store'.nodes[j] = store.nodes[j]
<1>1. Init => HeldInv
  BY InitGood, ScenariosAssumption DEF Init, HeldInv
<1>2. HeldInv /\ [Next]_vars => HeldInv'
  BY NextHeld
<1>3. HeldInv => C
  BY ContentsAt DEF HeldInv
<1>4. HeldInv => [C]_vars
  BY <1>3
<1>5. [][C]_vars => ContentsFollow
  BY DEF ContentsFollow
<1> HIDE DEF C
<1> QED
  BY <1>1, <1>2, <1>4, <1>5, PTL DEF Spec

=============================================================================
