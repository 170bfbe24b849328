---------------------------- MODULE FileTree_proofs ----------------------------
(***************************************************************************)
(* Lemmas about the file system behind the adapter: what a path leads to,  *)
(* component by component, and what each change does to the record.        *)
(*                                                                         *)
(* InodeAt is defined by recursion along the path.  That the recursion     *)
(* defines what it seems to is shown by induction on its length, and the   *)
(* induction is derived from the well-foundedness of < on Nat.             *)
(***************************************************************************)
EXTENDS FileTree, WellFoundedInduction, TLAPS

Less == {p \in Nat \X Nat : p[1] < p[2]}

\* The order of the natural numbers, as a relation, is well-founded.
LEMMA LessIsWellFounded == IsWellFoundedOn(Less, Nat)
BY NatLessThanWellFounded DEF OpToRel, Less

\* A set of natural numbers that is not empty has a least element.
LEMMA LeastElement ==
  ASSUME NEW T \in SUBSET Nat, T # {}
  PROVE  \E x \in T : \A y \in T : x <= y
<1>1. PICK x \in T : \A y \in T : <<y, x>> \notin Less
  BY LessIsWellFounded, WFMin
<1>2. ASSUME NEW y \in T PROVE x <= y
  <2>1. x \in Nat /\ y \in Nat
    OBVIOUS
  <2>2. <<y, x>> \in Less <=> y < x
    BY <2>1 DEF Less
  <2>3. QED BY <1>1, <2>1, <2>2
<1>3. QED BY <1>2

\* Induction over a set: the form of the principle that needs no operator.
LEMMA SetInduction ==
  ASSUME NEW S, 0 \in S, \A n \in Nat : n \in S => n + 1 \in S
  PROVE  Nat \subseteq S
<1> SUFFICES ASSUME ~(Nat \subseteq S) PROVE FALSE
  OBVIOUS
<1> DEFINE T == {n \in Nat : n \notin S}
<1>1. T \in SUBSET Nat /\ T # {}
  OBVIOUS
<1>2. PICK x \in T : \A y \in T : x <= y
  BY <1>1, LeastElement
<1>3. x # 0 /\ x - 1 \in Nat
  BY <1>2
<1>4. x - 1 \in S
  BY <1>2, <1>3
<1>5. QED BY <1>2, <1>3, <1>4

-----------------------------------------------------------------------------
(* Paths *)

\* The first components of a path, and its last one.
LEMMA Prefixes ==
  ASSUME NEW k \in Seq(Names), NEW n \in 0 .. Len(k)
  PROVE  /\ SubSeq(k, 1, n) \in Seq(Names)
         /\ Len(SubSeq(k, 1, n)) = n
         /\ \A j \in 1 .. n : SubSeq(k, 1, n)[j] = k[j]
         /\ k # Root => Len(k) \in 1 .. Len(k) /\ k[Len(k)] \in Names
<1>1. Len(k) \in Nat /\ \A j \in 1 .. Len(k) : k[j] \in Names
  OBVIOUS
<1>2. \A j \in 1 .. n : k[j] \in Names
  BY <1>1
<1>3. SubSeq(k, 1, n) = [j \in 1 .. n |-> k[j]]
  BY <1>1, <1>2
<1>4. SubSeq(k, 1, n) \in Seq(Names) /\ Len(SubSeq(k, 1, n)) = n
  BY <1>2, <1>3
<1>5. k # Root => Len(k) \in 1 .. Len(k) /\ k[Len(k)] \in Names
  BY DEF Root
<1>6. QED BY <1>3, <1>4, <1>5

\* The inodes a path leads through, up to its component m.
IsSteps(st, f, k, m) ==
  st = [n \in 0 .. m |->
          IF n = 0 THEN RootIno
          ELSE IF st[n - 1] \in Dirs THEN f.tree[<<st[n - 1], k[n]>>]
                                     ELSE NoInode]

\* What follows the component that leads to i.
StepFrom(f, i, name) == IF i \in Dirs THEN f.tree[<<i, name>>] ELSE NoInode

\* IsSteps says what the first component is and how the others follow.
LEMMA StepsAre ==
  ASSUME NEW st, NEW f, NEW k, NEW m \in Nat, IsSteps(st, f, k, m)
  PROVE  /\ st[0] = RootIno
         /\ \A n \in 1 .. m : st[n] = StepFrom(f, st[n - 1], k[n])
<1>1. 0 \in 0 .. m
  OBVIOUS
<1>2. ASSUME NEW n \in 1 .. m PROVE n \in 0 .. m /\ n # 0
  OBVIOUS
<1>3. \A n \in 0 .. m :
        st[n] = IF n = 0 THEN RootIno
                ELSE IF st[n - 1] \in Dirs THEN f.tree[<<st[n - 1], k[n]>>]
                                           ELSE NoInode
  BY DEF IsSteps
<1>4. QED BY <1>1, <1>2, <1>3 DEF StepFrom

\* A path of any length has its steps.
LEMMA StepsExist ==
  ASSUME NEW f, NEW k
  PROVE  \A m \in Nat : \E st : IsSteps(st, f, k, m)
<1> DEFINE S == {m \in Nat : \E st : IsSteps(st, f, k, m)}
<1>1. 0 \in S
  <2>1. IsSteps([n \in 0 .. 0 |-> RootIno], f, k, 0)
    BY DEF IsSteps
  <2>2. QED BY <2>1
<1>2. ASSUME NEW m \in Nat, m \in S PROVE m + 1 \in S
  <2>1. PICK st : IsSteps(st, f, k, m)
    BY <1>2
  <2> DEFINE last == StepFrom(f, st[m], k[m + 1])
             more == [n \in 0 .. m + 1 |-> IF n = m + 1 THEN last ELSE st[n]]
  <2>2. st[0] = RootIno /\ \A n \in 1 .. m : st[n] = StepFrom(f, st[n - 1], k[n])
    BY <2>1, StepsAre
  <2>3. ASSUME NEW n \in 0 .. m + 1
        PROVE  more[n] = IF n = 0 THEN RootIno ELSE StepFrom(f, more[n - 1], k[n])
    <3>1. CASE n = m + 1
      BY <3>1
    <3>2. CASE n = 0
      BY <2>2, <3>2
    <3>3. CASE n # m + 1 /\ n # 0
      <4>1. n \in 1 .. m /\ n - 1 \in 0 .. m + 1 /\ n - 1 # m + 1
        BY <3>3
      <4>2. more[n] = st[n] /\ more[n - 1] = st[n - 1]
        BY <3>3, <4>1
      <4>3. QED BY <2>2, <3>3, <4>1, <4>2
    <3>4. QED BY <3>1, <3>2, <3>3
  <2>4. more = [n \in 0 .. m + 1 |-> more[n]]
    OBVIOUS
  <2> HIDE DEF more
  <2>5. IsSteps(more, f, k, m + 1)
    BY <2>3, <2>4 DEF IsSteps, StepFrom
  <2>6. QED BY <2>5
<1> HIDE DEF S
<1>3. Nat \subseteq S
  BY <1>1, <1>2, SetInduction
<1>4. QED BY <1>3 DEF S

\* InodeAt is the last of the steps of the path.
LEMMA InodeAtIsLast ==
  ASSUME NEW f, NEW k \in Seq(Names)
  PROVE  \E st : IsSteps(st, f, k, Len(k)) /\ InodeAt(f, k) = st[Len(k)]
<1>1. Len(k) \in Nat
  OBVIOUS
<1>2. PICK st : IsSteps(st, f, k, Len(k))
  BY <1>1, StepsExist
<1> DEFINE steps == CHOOSE s : IsSteps(s, f, k, Len(k))
<1>3. IsSteps(steps, f, k, Len(k))
  BY <1>2
<1>4. InodeAt(f, k) = steps[Len(k)]
  BY DEF InodeAt, IsSteps
<1>5. QED BY <1>3, <1>4

\* Two paths that begin alike lead through the same inodes.
LEMMA StepsAgree ==
  ASSUME NEW f, NEW k, NEW c, NEW m \in Nat, NEW p \in Nat, p <= m,
         \A n \in 1 .. p : k[n] = c[n],
         NEW st, IsSteps(st, f, k, m), NEW su, IsSteps(su, f, c, p)
  PROVE  st[p] = su[p]
<1> DEFINE S == {n \in Nat : n <= p => st[n] = su[n]}
<1>1. 0 \in S
  BY StepsAre
<1>2. ASSUME NEW n \in Nat, n \in S PROVE n + 1 \in S
  <2> SUFFICES ASSUME n + 1 <= p PROVE st[n + 1] = su[n + 1]
    OBVIOUS
  <2>1. n + 1 \in 1 .. p /\ n + 1 \in 1 .. m /\ n <= p /\ (n + 1) - 1 = n
    OBVIOUS
  <2>2. st[n] = su[n]
    BY <1>2, <2>1
  <2>3. st[n + 1] = StepFrom(f, st[n], k[n + 1])
    BY <2>1, StepsAre
  <2>4. su[n + 1] = StepFrom(f, su[n], c[n + 1])
    BY <2>1, StepsAre
  <2>5. QED BY <2>1, <2>2, <2>3, <2>4
<1> HIDE DEF S
<1>3. p \in S
  BY <1>1, <1>2, SetInduction
<1>4. QED BY <1>3 DEF S

\* "\" leads to the root.
LEMMA InodeAtRoot ==
  ASSUME NEW f
  PROVE  InodeAt(f, Root) = RootIno
<1>1. Root \in Seq(Names) /\ Len(Root) = 0
  BY DEF Root
<1>2. PICK st : IsSteps(st, f, Root, 0) /\ InodeAt(f, Root) = st[0]
  BY <1>1, InodeAtIsLast
<1>3. QED BY <1>2, StepsAre

\* A path leads where its last component leads from where the others lead.
LEMMA InodeAtChild ==
  ASSUME NEW f, NEW k \in Seq(Names), k # Root
  PROVE  InodeAt(f, k) =
           StepFrom(f, InodeAt(f, SubSeq(k, 1, Len(k) - 1)), k[Len(k)])
<1> DEFINE c == SubSeq(k, 1, Len(k) - 1)
           m == Len(k)
           p == Len(k) - 1
<1>1. m \in Nat /\ p \in Nat /\ p <= m /\ m \in 1 .. m /\ m - 1 = p
  BY Prefixes
<1>2. c \in Seq(Names) /\ Len(c) = p /\ \A n \in 1 .. p : k[n] = c[n]
  <2>1. p \in 0 .. Len(k)
    BY <1>1
  <2>2. QED BY <2>1, Prefixes
<1>3. PICK st : IsSteps(st, f, k, m) /\ InodeAt(f, k) = st[m]
  BY InodeAtIsLast
<1>4. PICK su : IsSteps(su, f, c, p) /\ InodeAt(f, c) = su[p]
  BY <1>2, InodeAtIsLast
<1> HIDE DEF c, m, p
<1>5. st[p] = su[p]
  BY <1>1, <1>2, <1>3, <1>4, StepsAgree
<1>6. st[m] = StepFrom(f, st[p], k[m])
  BY <1>1, <1>3, StepsAre
<1>7. QED BY <1>3, <1>4, <1>5, <1>6 DEF c, m, p

\* A path leads to an inode or nowhere.
LEMMA InodeAtType ==
  ASSUME NEW f \in FileSystems, NEW k \in Seq(Names)
  PROVE  InodeAt(f, k) \in Inodes \cup {NoInode}
<1>1. CASE k = Root
  BY <1>1, InodeAtRoot, FileTreeAssumption
<1>2. CASE k # Root
  <2>1. k[Len(k)] \in Names
    BY <1>2 DEF Root
  <2>2. InodeAt(f, k) =
          StepFrom(f, InodeAt(f, SubSeq(k, 1, Len(k) - 1)), k[Len(k)])
    BY <1>2, InodeAtChild
  <2>3. \A i : StepFrom(f, i, k[Len(k)]) \in Inodes \cup {NoInode}
    BY <2>1 DEF StepFrom, FileSystems
  <2>4. QED BY <2>2, <2>3
<1>3. QED BY <1>1, <1>2

-----------------------------------------------------------------------------
(* Changes *)

Put(tree, at, i) == [tree EXCEPT ![at] = i]

\* Something that changes has other attributes and is otherwise the same.
LEMMA ChangedFields ==
  ASSUME NEW f \in FileSystems, NEW S
  PROVE  /\ Changed(f, S) \in FileSystems
         /\ Changed(f, S).tree = f.tree /\ Changed(f, S).gen = f.gen
         /\ Changed(f, S).nlookup = f.nlookup
         /\ \A i \in Inodes \ S : Changed(f, S).attr[i] = f.attr[i]
<1> DEFINE a == [i \in Inodes |->
                   IF i \in S /\ Attrs # {f.attr[i]}
                     THEN CHOOSE x \in Attrs : x # f.attr[i] ELSE f.attr[i]]
<1>1. Changed(f, S) = [f EXCEPT !.attr = a]
  BY DEF Changed
<1>2. ASSUME NEW i \in Inodes PROVE a[i] \in Attrs
  <2>1. f.attr[i] \in Attrs
    BY DEF FileSystems
  <2>2. Attrs # {f.attr[i]} => \E x \in Attrs : x # f.attr[i]
    BY <2>1
  <2>3. Attrs # {f.attr[i]} => (CHOOSE x \in Attrs : x # f.attr[i]) \in Attrs
    BY <2>2
  <2>4. QED BY <2>1, <2>3
<1>3. a \in [Inodes -> Attrs] /\ \A i \in Inodes \ S : a[i] = f.attr[i]
  BY <1>2
<1> HIDE DEF a
<1>4. QED BY <1>1, <1>3 DEF FileSystems

\* A lookup that is granted, and lookups that are forgotten.
LEMMA LookupFields ==
  ASSUME NEW f \in FileSystems, NEW i \in Inodes, NEW forgets \in [Inodes -> Nat]
  PROVE  /\ Granted(f, i) \in FileSystems /\ Forgot(f, forgets) \in FileSystems
         /\ Granted(f, i).nlookup = [f.nlookup EXCEPT ![i] = @ + 1]
         /\ Granted(f, i).tree = f.tree /\ Granted(f, i).gen = f.gen
         /\ Granted(f, i).attr = f.attr
         /\ Forgot(f, forgets).nlookup = [j \in Inodes |-> f.nlookup[j] - forgets[j]]
         /\ Forgot(f, forgets).tree = f.tree /\ Forgot(f, forgets).gen = f.gen
         /\ Forgot(f, forgets).attr = f.attr
BY DEF Granted, Forgot, FileSystems

\* A new entry, whose inode number comes with its next generation.
LEMMA MadeFields ==
  ASSUME NEW f \in FileSystems, NEW dir \in Dirs, NEW name \in Names,
         NEW i \in Inodes, f.gen[i] + 1 \in Generations
  PROVE  /\ Made(f, dir, name, i) \in FileSystems
         /\ Made(f, dir, name, i).tree = Put(f.tree, <<dir, name>>, i)
         /\ Made(f, dir, name, i).gen = Put(f.gen, i, f.gen[i] + 1)
         /\ Made(f, dir, name, i).nlookup = f.nlookup
<1> DEFINE m == [f EXCEPT !.tree[<<dir, name>>] = i, !.gen[i] = @ + 1]
<1>1. /\ m \in FileSystems /\ m.nlookup = f.nlookup
      /\ m.tree = Put(f.tree, <<dir, name>>, i)
      /\ m.gen = Put(f.gen, i, f.gen[i] + 1)
  BY DEF FileSystems, Put
<1> HIDE DEF m
<1>2. Made(f, dir, name, i) = Changed(m, {dir, i})
  BY DEF Made, m
<1>3. QED BY <1>1, <1>2, ChangedFields

\* A new entry is looked up once when it is made.
LEMMA MadeGrantedFields ==
  ASSUME NEW f \in FileSystems, NEW dir \in Dirs, NEW name \in Names,
         NEW i \in Inodes, f.gen[i] + 1 \in Generations
  PROVE  /\ Granted(Made(f, dir, name, i), i) \in FileSystems
         /\ Granted(Made(f, dir, name, i), i).nlookup = Granted(f, i).nlookup
<1>1. PICK m \in FileSystems : m = Made(f, dir, name, i)
  BY MadeFields
<1>2. NoForgets \in [Inodes -> Nat]
  BY DEF NoForgets
<1>3. /\ Granted(m, i) \in FileSystems
      /\ Granted(m, i).nlookup = [m.nlookup EXCEPT ![i] = @ + 1]
      /\ Granted(f, i).nlookup = [f.nlookup EXCEPT ![i] = @ + 1]
  BY <1>2, LookupFields
<1>4. m.nlookup = f.nlookup
  BY <1>1, MadeFields
<1>5. QED BY <1>1, <1>3, <1>4

\* An entry that goes.
LEMMA UnlinkedFields ==
  ASSUME NEW f \in FileSystems, NEW dir \in Dirs, NEW name \in Names
  PROVE  /\ Unlinked(f, dir, name) \in FileSystems
         /\ Unlinked(f, dir, name).tree = Put(f.tree, <<dir, name>>, NoInode)
         /\ Unlinked(f, dir, name).gen = f.gen
         /\ Unlinked(f, dir, name).nlookup = f.nlookup
<1> DEFINE m == [f EXCEPT !.tree[<<dir, name>>] = NoInode]
<1>1. /\ m \in FileSystems /\ m.nlookup = f.nlookup /\ m.gen = f.gen
      /\ m.tree = Put(f.tree, <<dir, name>>, NoInode)
  BY DEF FileSystems, Put
<1> HIDE DEF m
<1>2. Unlinked(f, dir, name) = Changed(m, {dir, f.tree[<<dir, name>>]})
  BY DEF Unlinked, m
<1>3. QED BY <1>1, <1>2, ChangedFields

\* An entry that goes with all that is below it.
LEMMA RemovedFields ==
  ASSUME NEW f \in FileSystems, NEW dir \in Dirs, NEW name \in Names
  PROVE  /\ Removed(f, dir, name) \in FileSystems
         /\ Removed(f, dir, name).tree =
              [at \in Dirs \X Names |->
                 IF at = <<dir, name>> \/ at[1] = f.tree[<<dir, name>>]
                   THEN NoInode ELSE f.tree[at]]
         /\ Removed(f, dir, name).gen = f.gen
         /\ Removed(f, dir, name).nlookup = f.nlookup
<1> DEFINE i == f.tree[<<dir, name>>]
           gone == {<<dir, name>>} \cup {at \in DOMAIN f.tree : at[1] = i}
           t == [at \in Dirs \X Names |-> IF at \in gone THEN NoInode ELSE f.tree[at]]
           m == [f EXCEPT !.tree = t]
<1>1. DOMAIN f.tree = Dirs \X Names /\ t \in [Dirs \X Names -> Inodes \cup {NoInode}]
  BY DEF FileSystems
<1>2. t = [at \in Dirs \X Names |->
             IF at = <<dir, name>> \/ at[1] = f.tree[<<dir, name>>]
               THEN NoInode ELSE f.tree[at]]
  BY <1>1
<1>3. Removed(f, dir, name) = Changed(m, {dir} \cup {f.tree[at] : at \in gone})
  BY <1>1 DEF Removed
<1> HIDE DEF t
<1>4. m \in FileSystems /\ m.tree = t /\ m.gen = f.gen /\ m.nlookup = f.nlookup
  BY <1>1 DEF FileSystems
<1> HIDE DEF m, gone
<1>5. QED BY <1>2, <1>3, <1>4, ChangedFields

\* An entry that moves, over another one or not.
LEMMA RenamedFields ==
  ASSUME NEW f \in FileSystems, NEW dir \in Dirs, NEW name \in Names,
         NEW newDir \in Dirs, NEW newName \in Names
  PROVE  /\ Renamed(f, dir, name, newDir, newName) \in FileSystems
         /\ Renamed(f, dir, name, newDir, newName).tree =
              Put(Put(f.tree, <<dir, name>>, NoInode),
                  <<newDir, newName>>, f.tree[<<dir, name>>])
         /\ Renamed(f, dir, name, newDir, newName).gen = f.gen
         /\ Renamed(f, dir, name, newDir, newName).nlookup = f.nlookup
<1> DEFINE t == [f.tree EXCEPT ![<<dir, name>>] = NoInode,
                               ![<<newDir, newName>>] = f.tree[<<dir, name>>]]
           m == [f EXCEPT !.tree = t]
<1>1. t \in [Dirs \X Names -> Inodes \cup {NoInode}]
  BY DEF FileSystems
<1>2. Renamed(f, dir, name, newDir, newName) =
        Changed(m, {dir, newDir, f.tree[<<dir, name>>], f.tree[<<newDir, newName>>]})
  BY DEF Renamed
<1> HIDE DEF t
<1>3. m \in FileSystems /\ m.tree = t /\ m.gen = f.gen /\ m.nlookup = f.nlookup
  BY <1>1 DEF FileSystems
<1> HIDE DEF m
<1>4. t = Put(Put(f.tree, <<dir, name>>, NoInode),
              <<newDir, newName>>, f.tree[<<dir, name>>])
  BY DEF t, Put
<1>5. QED BY <1>2, <1>3, <1>4, ChangedFields

\* A rename moves no lookup.
LEMMA RenamedKeeps ==
  ASSUME NEW f \in FileSystems, NEW dir \in Dirs, NEW name \in Names,
         NEW newDir \in Dirs, NEW newName \in Names
  PROVE  /\ Renamed(f, dir, name, newDir, newName) \in FileSystems
         /\ Renamed(f, dir, name, newDir, newName).nlookup = f.nlookup
<1> DEFINE g == Renamed(f, dir, name, newDir, newName)
<1>1. /\ g \in FileSystems
      /\ g.tree = Put(Put(f.tree, <<dir, name>>, NoInode),
                      <<newDir, newName>>, f.tree[<<dir, name>>])
      /\ g.gen = f.gen /\ g.nlookup = f.nlookup
  BY RenamedFields
<1>2. QED BY <1>1

-----------------------------------------------------------------------------
(* What is linked, and the shape of the tree *)

LEMMA LinkedMeans ==
  ASSUME NEW f \in FileSystems, NEW i
  PROVE  Linked(f, i) <=> \/ i = RootIno
                          \/ \E d \in Dirs, n \in Names : f.tree[<<d, n>>] = i
<1>1. DOMAIN f.tree = Dirs \X Names
  BY DEF FileSystems
<1>2. Named(f, i) # {} <=> \E at \in Dirs \X Names : f.tree[at] = i
  BY <1>1 DEF Named
<1>3. (\E at \in Dirs \X Names : f.tree[at] = i)
        <=> \E d \in Dirs, n \in Names : f.tree[<<d, n>>] = i
  <2>1. \A d \in Dirs, n \in Names : <<d, n>> \in Dirs \X Names
    OBVIOUS
  <2>2. ASSUME NEW at \in Dirs \X Names PROVE \E d \in Dirs, n \in Names : at = <<d, n>>
    OBVIOUS
  <2>3. QED BY <2>1, <2>2
<1>4. QED BY <1>2, <1>3 DEF Linked

\* Names that go.
LEMMA TreeShrinks ==
  ASSUME NEW f \in FileSystems, NEW g \in FileSystems, IsTree(f), g.gen = f.gen,
         \A d \in Dirs, n \in Names : g.tree[<<d, n>>] \in {f.tree[<<d, n>>], NoInode}
  PROVE  IsTree(g) /\ \A i \in Inodes : Linked(g, i) => Linked(f, i)
<1>1. NoInode \notin Dirs /\ NoInode \notin Inodes
  BY FileTreeAssumption
<1>2. IsTree(g)
  BY <1>1 DEF IsTree
<1>3. ASSUME NEW i \in Inodes, Linked(g, i) PROVE Linked(f, i)
  <2>1. CASE i = RootIno
    BY <2>1 DEF Linked
  <2>2. CASE i # RootIno
    <3>1. PICK d \in Dirs, n \in Names : g.tree[<<d, n>>] = i
      BY <1>3, <2>2, LinkedMeans
    <3>2. f.tree[<<d, n>>] = i
      BY <1>1, <3>1
    <3>3. QED BY <3>2, LinkedMeans
  <2>3. QED BY <2>1, <2>2
<1>4. QED BY <1>2, <1>3

\* A name that comes, of an inode that had none.
LEMMA TreeGrows ==
  ASSUME NEW f \in FileSystems, NEW g \in FileSystems, IsTree(f),
         NEW dir \in Dirs, NEW name \in Names, NEW i \in Inodes,
         ~Linked(f, i), i \in Dirs => dir = RootIno, g.gen[RootIno] = f.gen[RootIno],
         g.tree[<<dir, name>>] = i,
         \A d \in Dirs, n \in Names :
           <<d, n>> # <<dir, name>> => g.tree[<<d, n>>] = f.tree[<<d, n>>]
  PROVE  IsTree(g) /\ \A j \in Inodes \ {i} : Linked(g, j) => Linked(f, j)
<1>1. i # RootIno /\ \A d \in Dirs, n \in Names : f.tree[<<d, n>>] # i
  BY LinkedMeans
<1>2. IsTree(g)
  <2>1. ASSUME NEW c \in Dirs, NEW d \in Dirs, NEW m \in Names, NEW n \in Names,
               g.tree[<<c, m>>] = g.tree[<<d, n>>], g.tree[<<c, m>>] # NoInode
        PROVE  c = d /\ m = n
    <3>1. CASE <<c, m>> = <<dir, name>>
      BY <1>1, <2>1, <3>1
    <3>2. CASE <<d, n>> = <<dir, name>>
      BY <1>1, <2>1, <3>2
    <3>3. CASE <<c, m>> # <<dir, name>> /\ <<d, n>> # <<dir, name>>
      BY <2>1, <3>3 DEF IsTree
    <3>4. QED BY <3>1, <3>2, <3>3
  <2>2. ASSUME NEW d \in Dirs, NEW n \in Names, g.tree[<<d, n>>] \in Dirs
        PROVE  d = RootIno /\ g.tree[<<d, n>>] # RootIno
    <3>1. CASE <<d, n>> = <<dir, name>>
      BY <1>1, <2>2, <3>1
    <3>2. CASE <<d, n>> # <<dir, name>>
      BY <2>2, <3>2 DEF IsTree
    <3>3. QED BY <3>1, <3>2
  <2>3. QED BY <2>1, <2>2 DEF IsTree
<1>3. ASSUME NEW j \in Inodes \ {i}, Linked(g, j) PROVE Linked(f, j)
  <2>1. CASE j = RootIno
    BY <2>1 DEF Linked
  <2>2. CASE j # RootIno
    <3>1. PICK d \in Dirs, n \in Names : g.tree[<<d, n>>] = j
      BY <1>3, <2>2, LinkedMeans
    <3>2. <<d, n>> # <<dir, name>>
      BY <1>3, <3>1
    <3>3. f.tree[<<d, n>>] = j
      BY <3>1, <3>2
    <3>4. QED BY <3>3, LinkedMeans
  <2>3. QED BY <2>1, <2>2
<1>4. QED BY <1>2, <1>3

\* A name that moves, over another one or not.
LEMMA TreeMoves ==
  ASSUME NEW f \in FileSystems, NEW g \in FileSystems, IsTree(f), g.gen = f.gen,
         NEW dir \in Dirs, NEW name \in Names, NEW newDir \in Dirs, NEW newName \in Names,
         CanRename(f, dir, name, newDir, newName),
         g.tree = Put(Put(f.tree, <<dir, name>>, NoInode),
                      <<newDir, newName>>, f.tree[<<dir, name>>])
  PROVE  /\ <<dir, name>> # <<newDir, newName>>
         /\ g.tree[<<dir, name>>] = NoInode
         /\ g.tree[<<newDir, newName>>] = f.tree[<<dir, name>>]
         /\ \A d \in Dirs, n \in Names :
              <<d, n>> \notin {<<dir, name>>, <<newDir, newName>>} =>
                g.tree[<<d, n>>] = f.tree[<<d, n>>]
         /\ IsTree(g)
         /\ \A i \in Inodes : Linked(g, i) => Linked(f, i)
         /\ f.tree[<<newDir, newName>>] # NoInode => ~Linked(g, f.tree[<<newDir, newName>>])
<1> DEFINE a == <<dir, name>>
           b == <<newDir, newName>>
<1>1. /\ f.tree[a] # NoInode /\ f.tree[a] # f.tree[b]
      /\ f.tree[a] \in Dirs => newDir = RootIno
  BY DEF CanRename
<1>2. a # b
  BY <1>1
<1>3. /\ g.tree[a] = NoInode /\ g.tree[b] = f.tree[a]
      /\ \A d \in Dirs, n \in Names : <<d, n>> \notin {a, b} => g.tree[<<d, n>>] = f.tree[<<d, n>>]
  <2>1. f.tree \in [Dirs \X Names -> Inodes \cup {NoInode}] /\ a \in Dirs \X Names /\ b \in Dirs \X Names
    BY DEF FileSystems
  <2>2. \A d \in Dirs, n \in Names : <<d, n>> \in Dirs \X Names
    OBVIOUS
  <2> HIDE DEF a, b
  <2>3. g.tree = [[f.tree EXCEPT ![a] = NoInode] EXCEPT ![b] = f.tree[a]]
    BY DEF Put, a, b
  <2>4. QED BY <1>2, <2>1, <2>2, <2>3
<1>4. NoInode \notin Inodes /\ Dirs \subseteq Inodes
  BY FileTreeAssumption
<1> HIDE DEF a, b
<1>5. \A d \in Dirs, n \in Names : f.tree[<<d, n>>] = f.tree[a] => <<d, n>> = a
  BY <1>1 DEF IsTree, a
<1>6. IsTree(g)
  <2>1. ASSUME NEW c \in Dirs, NEW d \in Dirs, NEW m \in Names, NEW n \in Names,
               g.tree[<<c, m>>] = g.tree[<<d, n>>], g.tree[<<c, m>>] # NoInode
        PROVE  c = d /\ m = n
    <3>1. <<c, m>> # a /\ <<d, n>> # a
      BY <1>3, <2>1
    <3>2. CASE <<c, m>> = b /\ <<d, n>> = b
      BY <3>2
    <3>3. CASE <<c, m>> = b /\ <<d, n>> # b
      BY <1>3, <1>5, <2>1, <3>1, <3>3
    <3>4. CASE <<c, m>> # b /\ <<d, n>> = b
      BY <1>3, <1>5, <2>1, <3>1, <3>4
    <3>5. CASE <<c, m>> # b /\ <<d, n>> # b
      BY <1>3, <2>1, <3>1, <3>5 DEF IsTree
    <3>6. QED BY <3>2, <3>3, <3>4, <3>5
  <2>2. ASSUME NEW d \in Dirs, NEW n \in Names, g.tree[<<d, n>>] \in Dirs
        PROVE  d = RootIno /\ g.tree[<<d, n>>] # RootIno
    <3>1. CASE <<d, n>> = b
      <4>1. f.tree[a] \in Dirs /\ d = newDir
        BY <1>3, <2>2, <3>1 DEF b
      <4>2. QED BY <1>1, <1>3, <3>1, <4>1 DEF IsTree, a
    <3>2. CASE <<d, n>> = a
      BY <1>3, <1>4, <2>2, <3>2
    <3>3. CASE <<d, n>> \notin {a, b}
      <4>1. g.tree[<<d, n>>] = f.tree[<<d, n>>]
        BY <1>3, <3>3
      <4>2. f.tree[<<d, n>>] \in Dirs => d = RootIno /\ f.tree[<<d, n>>] # RootIno
        BY DEF IsTree
      <4>3. QED BY <2>2, <4>1, <4>2
    <3>4. QED BY <3>1, <3>2, <3>3
  <2>3. QED BY <2>1, <2>2 DEF IsTree
<1>7. ASSUME NEW i \in Inodes, Linked(g, i) PROVE Linked(f, i)
  <2>1. CASE i = RootIno
    BY <2>1 DEF Linked
  <2>2. CASE i # RootIno
    <3>1. PICK d \in Dirs, n \in Names : g.tree[<<d, n>>] = i
      BY <1>7, <2>2, LinkedMeans
    <3>2. f.tree[<<dir, name>>] = i \/ f.tree[<<d, n>>] = i
      BY <1>3, <1>4, <3>1 DEF a
    <3>3. QED BY <3>2, LinkedMeans
  <2>3. QED BY <2>1, <2>2
<1>8. ASSUME f.tree[b] # NoInode PROVE ~Linked(g, f.tree[b])
  <2>1. f.tree[b] # RootIno
    <3>1. f.tree[<<newDir, newName>>] \in Dirs => f.tree[<<newDir, newName>>] # RootIno
      BY DEF IsTree
    <3>2. QED BY <3>1, FileTreeAssumption DEF b
  <2>2. ASSUME NEW d \in Dirs, NEW n \in Names PROVE g.tree[<<d, n>>] # f.tree[b]
    <3>1. CASE <<d, n>> = b
      BY <1>1, <1>3, <3>1
    <3>2. CASE <<d, n>> = a
      BY <1>3, <1>8, <3>2
    <3>3. CASE <<d, n>> \notin {a, b}
      <4>1. g.tree[<<d, n>>] = f.tree[<<d, n>>]
        BY <1>3, <3>3
      <4>2. QED BY <1>8, <3>3, <4>1 DEF IsTree, b
    <3>4. QED BY <3>1, <3>2, <3>3
  <2>3. QED BY <2>1, <2>2, LinkedMeans
<1>9. QED BY <1>2, <1>3, <1>6, <1>7, <1>8 DEF a, b

-----------------------------------------------------------------------------
(* Whose attributes change *)

LEMMA ChangedDiffers ==
  ASSUME NEW f \in FileSystems, NEW S, NEW i \in Inodes \cap S
  PROVE  Changed(f, S).attr[i] # f.attr[i] \/ Attrs = {f.attr[i]}
<1>1. f.attr[i] \in Attrs
  BY DEF FileSystems
<1>2. Changed(f, S).attr[i] = IF Attrs # {f.attr[i]}
        THEN CHOOSE x \in Attrs : x # f.attr[i] ELSE f.attr[i]
  BY DEF Changed, FileSystems
<1>3. CASE Attrs # {f.attr[i]}
  <2>1. \E x \in Attrs : x # f.attr[i]
    BY <1>1, <1>3
  <2>2. (CHOOSE x \in Attrs : x # f.attr[i]) # f.attr[i]
    BY <2>1
  <2>3. QED BY <1>2, <1>3, <2>2
<1>4. QED BY <1>3

LEMMA MadeAttrs ==
  ASSUME NEW f \in FileSystems, NEW dir \in Dirs, NEW name \in Names,
         NEW i \in Inodes, f.gen[i] + 1 \in Generations
  PROVE  /\ \A j \in Inodes \ {dir, i} : Made(f, dir, name, i).attr[j] = f.attr[j]
         /\ Made(f, dir, name, i).attr[i] # f.attr[i] \/ Attrs = {f.attr[i]}
<1> DEFINE m == [f EXCEPT !.tree[<<dir, name>>] = i, !.gen[i] = @ + 1]
<1>1. m \in FileSystems /\ m.attr = f.attr
  BY DEF FileSystems
<1> HIDE DEF m
<1>2. Made(f, dir, name, i) = Changed(m, {dir, i})
  BY DEF Made, m
<1>3. i \in Inodes \cap {dir, i}
  OBVIOUS
<1>4. Changed(m, {dir, i}).attr[i] # m.attr[i] \/ Attrs = {m.attr[i]}
  BY <1>1, <1>3, ChangedDiffers
<1>5. QED BY <1>1, <1>2, <1>4, ChangedFields

LEMMA UnlinkedAttrs ==
  ASSUME NEW f \in FileSystems, NEW dir \in Dirs, NEW name \in Names
  PROVE  \A j \in Inodes \ {dir, f.tree[<<dir, name>>]} :
           Unlinked(f, dir, name).attr[j] = f.attr[j]
<1> DEFINE m == [f EXCEPT !.tree[<<dir, name>>] = NoInode]
<1>1. m \in FileSystems /\ m.attr = f.attr
  BY DEF FileSystems
<1> HIDE DEF m
<1>2. Unlinked(f, dir, name) = Changed(m, {dir, f.tree[<<dir, name>>]})
  BY DEF Unlinked, m
<1>3. QED BY <1>1, <1>2, ChangedFields

LEMMA RenamedAttrs ==
  ASSUME NEW f \in FileSystems, NEW dir \in Dirs, NEW name \in Names,
         NEW newDir \in Dirs, NEW newName \in Names
  PROVE  \A j \in Inodes \ {dir, newDir, f.tree[<<dir, name>>], f.tree[<<newDir, newName>>]} :
           Renamed(f, dir, name, newDir, newName).attr[j] = f.attr[j]
<1> DEFINE t == [f.tree EXCEPT ![<<dir, name>>] = NoInode,
                               ![<<newDir, newName>>] = f.tree[<<dir, name>>]]
           m == [f EXCEPT !.tree = t]
<1>1. t \in [Dirs \X Names -> Inodes \cup {NoInode}]
  BY DEF FileSystems
<1>2. Renamed(f, dir, name, newDir, newName) =
        Changed(m, {dir, newDir, f.tree[<<dir, name>>], f.tree[<<newDir, newName>>]})
  BY DEF Renamed
<1> HIDE DEF t
<1>3. m \in FileSystems /\ m.attr = f.attr
  BY <1>1 DEF FileSystems
<1> HIDE DEF m
<1>4. QED BY <1>2, <1>3, ChangedFields

=============================================================================
