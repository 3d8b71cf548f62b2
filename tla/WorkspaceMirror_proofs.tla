-------------------------- MODULE WorkspaceMirror_proofs --------------------------
(***************************************************************************)
(* Proofs about /workspace, its table and its mirrors, for every set of    *)
(* paths, interpreters and faults.                                         *)
(***************************************************************************)
EXTENDS WorkspaceMirror, SequenceTheorems, FiniteSetTheorems, WellFoundedInduction, TLAPS

(***************************************************************************)
(* Paths.  The order of prefixes; a path's parent is its longest ancestor. *)
(***************************************************************************)
LEMMA PathIsSeq ==
  ASSUME NEW p \in Paths
  PROVE  p \in Seq(Names) /\ Len(p) \in Nat \ {0} /\ p # <<>>
  BY PathsAssumption, EmptySeq

\* IsPrefix says what it says: the shorter sequence agrees with the longer one.
LEMMA PrefixPointwise ==
  ASSUME NEW s \in Seq(Names), NEW t \in Seq(Names)
  PROVE  IsPrefix(s, t) <=> Len(s) <= Len(t) /\ \A i \in 1 .. Len(s) : s[i] = t[i]
  <1>1. Len(s) \in Nat /\ Len(t) \in Nat
    BY LenProperties
  <1>2. SubSeq(s, 1, Len(s)) = s
    BY SubSeqFull
  <1>3. ASSUME Len(s) <= Len(t)
        PROVE  /\ SubSeq(t, 1, Len(s)) \in Seq(Names)
               /\ Len(SubSeq(t, 1, Len(s))) = Len(s)
               /\ \A i \in 1 .. Len(s) : SubSeq(t, 1, Len(s))[i] = t[i]
    <2>1. \A i \in 1 .. Len(s) : t[i] \in Names
      BY <1>1, <1>3, ElementOfSeq
    <2>. QED
      BY <1>1, <1>3, <2>1, SubSeqProperties
  <1>4. ASSUME Len(s) <= Len(t), \A i \in 1 .. Len(s) : s[i] = t[i]
        PROVE  s = SubSeq(t, 1, Len(s))
    BY <1>3, <1>4, SeqEqual
  <1>. QED
    BY <1>2, <1>3, <1>4 DEF IsPrefix

\* A path is a prefix of itself.
LEMMA PrefixReflexive ==
  ASSUME NEW p \in Paths PROVE IsPrefix(p, p)
  BY PathIsSeq, PrefixPointwise

\* A prefix of a prefix is a prefix.
LEMMA PrefixTransitive ==
  ASSUME NEW p \in Paths, NEW q \in Paths, NEW r \in Paths, IsPrefix(p, q), IsPrefix(q, r)
  PROVE  IsPrefix(p, r)
  BY PathIsSeq, PrefixPointwise

\* Two paths that are prefixes of each other are one.
LEMMA PrefixAntisymmetric ==
  ASSUME NEW p \in Paths, NEW q \in Paths, IsPrefix(p, q), IsPrefix(q, p)
  PROVE  p = q
  BY PathIsSeq, PrefixPointwise, SeqEqual

\* Two prefixes of one path are prefixes of one another.
LEMMA PrefixesAreComparable ==
  ASSUME NEW p \in Paths, NEW q \in Paths, NEW r \in Paths, IsPrefix(p, r), IsPrefix(q, r)
  PROVE  IsPrefix(p, q) \/ IsPrefix(q, p)
  BY PathIsSeq, PrefixPointwise

\* The directories a path needs are its prefixes among the model's paths.
LEMMA ComponentsArePrefixes ==
  ASSUME NEW p \in Paths
  PROVE  Components(p) = {q \in Paths : IsPrefix(q, p)}
  <1>1. p \in Seq(Names) /\ Len(p) \in Nat
    BY PathIsSeq
  <1>2. ASSUME NEW q \in Components(p) PROVE q \in Paths /\ IsPrefix(q, p)
    <2>1. q \in Paths
      BY <1>2, PathsAssumption
    <2>2. PICK n \in 1 .. Len(p) : q = SubSeq(p, 1, n)
      BY <1>2 DEF Components
    <2>3. \A i \in 1 .. n : p[i] \in Names
      BY <1>1, ElementOfSeq
    <2>4. Len(q) = n /\ \A i \in 1 .. n : q[i] = p[i]
      BY <1>1, <2>2, <2>3, SubSeqProperties
    <2>. QED
      BY <1>1, <2>1, <2>4, PathIsSeq, PrefixPointwise
  <1>3. ASSUME NEW q \in Paths, IsPrefix(q, p) PROVE q \in Components(p)
    <2>1. Len(q) \in Nat \ {0} /\ Len(q) <= Len(p)
      BY <1>3, PathIsSeq DEF IsPrefix
    <2>2. q = SubSeq(p, 1, Len(q))
      BY <1>3, PathIsSeq, SubSeqFull DEF IsPrefix
    <2>3. Len(q) \in 1 .. Len(p)
      BY <1>1, <2>1
    <2>. QED
      BY <2>2, <2>3, Zenon DEF Components
  <1>. QED
    BY <1>2, <1>3

\* Its ancestors are its proper prefixes.
LEMMA AncestorsArePrefixes ==
  ASSUME NEW p \in Paths
  PROVE  Ancestors(p) = {q \in Paths : IsPrefix(q, p) /\ q # p}
  BY ComponentsArePrefixes DEF Ancestors

\* The parent is the root or an ancestor, and the longest one.
LEMMA ParentIsLongest ==
  ASSUME NEW p \in Paths
  PROVE  /\ Front(p) = <<>> \/ Front(p) \in Ancestors(p)
         /\ \A q \in Ancestors(p) : Front(p) \in Paths /\ IsPrefix(q, Front(p))
  <1>1. p \in Seq(Names) /\ Len(p) \in Nat \ {0}
    BY PathIsSeq
  <1>2. CASE Len(p) = 1
    <2>1. Front(p) = <<>>
      BY <1>1, <1>2, SubSeqEmpty DEF Front
    <2>2. ASSUME NEW q \in Ancestors(p) PROVE FALSE
      <3>1. q \in Paths /\ IsPrefix(q, p) /\ q # p
        BY <2>2, AncestorsArePrefixes
      <3>2. Len(q) = 1 /\ q \in Seq(Names) /\ q[1] = p[1]
        BY <1>1, <1>2, <3>1, PathIsSeq, PrefixPointwise
      <3>. QED
        BY <1>1, <1>2, <3>1, <3>2, SeqEqual
    <2>. QED
      BY <2>1, <2>2
  <1>3. CASE Len(p) > 1
    <2>0. Len(p) - 1 \in 1 .. Len(p)
      BY <1>1, <1>3
    <2>1. Front(p) \in Components(p)
      BY <2>0, Zenon DEF Components, Front
    <2>2. \A i \in 1 .. Len(p) - 1 : p[i] \in Names
      BY <1>1, ElementOfSeq
    <2>3. /\ Front(p) \in Paths /\ Len(Front(p)) = Len(p) - 1
          /\ \A i \in 1 .. Len(p) - 1 : Front(p)[i] = p[i]
      BY <1>1, <1>3, <2>1, <2>2, PathsAssumption, SubSeqProperties DEF Front
    <2>4. Front(p) \in Ancestors(p)
      BY <1>1, <2>1, <2>3 DEF Ancestors
    <2>5. ASSUME NEW q \in Ancestors(p) PROVE IsPrefix(q, Front(p))
      <3>1. q \in Paths /\ IsPrefix(q, p) /\ q # p
        BY <2>5, AncestorsArePrefixes
      <3>2. q \in Seq(Names) /\ Len(q) \in Nat /\ Len(q) <= Len(p)
            /\ \A i \in 1 .. Len(q) : q[i] = p[i]
        BY <1>1, <3>1, PathIsSeq, PrefixPointwise
      <3>3. Len(q) # Len(p)
        BY <1>1, <3>1, <3>2, SeqEqual
      <3>4. Len(q) <= Len(p) - 1
        BY <1>1, <3>2, <3>3
      <3>5. Front(p) \in Seq(Names)
        BY <2>3, PathIsSeq
      <3>6. Len(q) <= Len(Front(p))
        BY <2>3, <3>4
      <3>7. ASSUME NEW i \in 1 .. Len(q) PROVE q[i] = Front(p)[i]
        <4>1. i \in 1 .. Len(p) - 1
          BY <1>1, <3>2, <3>4
        <4>. QED
          BY <2>3, <3>2, <4>1
      <3>. QED
        BY <3>2, <3>5, <3>6, <3>7, PrefixPointwise
    <2>. QED
      BY <2>3, <2>4, <2>5
  <1>4. Len(p) = 1 \/ Len(p) > 1
    <2>1. \A n \in Nat \ {0} : n = 1 \/ n > 1
      OBVIOUS
    <2>. QED
      BY <1>1, <2>1, Zenon
  <1>. QED
    BY <1>2, <1>3, <1>4, Zenon

(***************************************************************************)
(* Trees.  The definition asks each entry for its parent; what follows     *)
(* needs all its ancestors.  The proof looks at the longest ancestor that  *)
(* would be missing: its child on the way is there, and has a parent.      *)
(***************************************************************************)
Nodes == Contents \cup {DIR}
Rows  == UNION {[S -> Nodes] : S \in SUBSET Paths}

\* Membership in Rows, pointwise.
LEMMA RowsAre ==
  ASSUME NEW t
  PROVE  t \in Rows <=> /\ t = [p \in DOMAIN t |-> t[p]]
                        /\ DOMAIN t \subseteq Paths
                        /\ \A p \in DOMAIN t : t[p] \in Nodes
  <1>1. ASSUME t \in Rows
        PROVE  /\ t = [p \in DOMAIN t |-> t[p]]
               /\ DOMAIN t \subseteq Paths
               /\ \A p \in DOMAIN t : t[p] \in Nodes
    <2>1. PICK S \in SUBSET Paths : t \in [S -> Nodes]
      BY <1>1 DEF Rows
    <2>. QED
      BY <2>1
  <1>2. ASSUME t = [p \in DOMAIN t |-> t[p]], DOMAIN t \subseteq Paths,
               \A p \in DOMAIN t : t[p] \in Nodes
        PROVE  t \in Rows
    <2>1. t \in [DOMAIN t -> Nodes] /\ DOMAIN t \in SUBSET Paths
      BY <1>2
    <2>. QED
      BY <2>1 DEF Rows
  <1>. QED
    BY <1>1, <1>2

\* Membership in FileMaps, pointwise.
LEMMA FileMapsAre ==
  ASSUME NEW t
  PROVE  t \in FileMaps <=> /\ t = [p \in DOMAIN t |-> t[p]]
                            /\ DOMAIN t \subseteq Paths
                            /\ \A p \in DOMAIN t : t[p] \in Contents
  <1>1. ASSUME t \in FileMaps
        PROVE  /\ t = [p \in DOMAIN t |-> t[p]]
               /\ DOMAIN t \subseteq Paths
               /\ \A p \in DOMAIN t : t[p] \in Contents
    <2>1. PICK S \in SUBSET Paths : t \in [S -> Contents]
      BY <1>1 DEF FileMaps
    <2>. QED
      BY <2>1
  <1>2. ASSUME t = [p \in DOMAIN t |-> t[p]], DOMAIN t \subseteq Paths,
               \A p \in DOMAIN t : t[p] \in Contents
        PROVE  t \in FileMaps
    <2>1. t \in [DOMAIN t -> Contents] /\ DOMAIN t \in SUBSET Paths
      BY <1>2
    <2>. QED
      BY <2>1 DEF FileMaps
  <1>. QED
    BY <1>1, <1>2

\* A set of natural numbers that is not empty has a least element.
LEMMA LeastNumber ==
  ASSUME NEW T, T \subseteq Nat, T # {}
  PROVE  \E n \in T : \A m \in T : ~(m < n)
  <1>1. PICK n \in T : \A m \in T : ~(<<m, n>> \in OpToRel(<, Nat))
    BY WFMin, NatLessThanWellFounded
  <1>. QED
    BY <1>1 DEF OpToRel

\* In a tree every ancestor of an entry is a directory: by minimality, from the parent alone.
LEMMA AncestorsExist ==
  ASSUME NEW t \in Trees, NEW p \in DOMAIN t, NEW q \in Ancestors(p)
  PROVE  q \in DOMAIN t /\ t[q] = DIR
  <1>0. t \in Rows /\ \A r \in DOMAIN t : IsDir(t, Front(r))
    BY DEF Trees, Rows, Nodes
  <1>1. p \in Paths
    BY <1>0, RowsAre
  <1>2. \A r \in Ancestors(p) : r \in Paths /\ IsPrefix(r, p) /\ r # p
    BY <1>1, AncestorsArePrefixes
  <1> DEFINE bad == {r \in Ancestors(p) : ~(r \in DOMAIN t /\ t[r] = DIR)}
             distance == {Len(p) - Len(r) : r \in bad}
  <1>3. SUFFICES ASSUME bad # {} PROVE FALSE
    OBVIOUS
  <1>4. \A r \in Ancestors(p) : Len(r) \in Nat \ {0} /\ Len(r) <= Len(p) /\ Len(p) \in Nat
    BY <1>1, <1>2, PathIsSeq DEF IsPrefix
  <1>5. distance \subseteq Nat /\ distance # {}
    BY <1>3, <1>4
  <1>6. PICK n \in distance : \A m \in distance : ~(m < n)
    BY <1>5, LeastNumber
  <1>7. PICK r \in bad : n = Len(p) - Len(r)
    BY <1>6
  <1>8. r \in Paths /\ IsPrefix(r, p) /\ r # p /\ r \in Ancestors(p)
    BY <1>2, <1>7
  <1>9. Len(r) < Len(p)
    <2>1. r \in Seq(Names) /\ p \in Seq(Names)
      BY <1>1, <1>8, PathIsSeq
    <2>. QED
      BY <1>4, <1>8, <2>1, PrefixPointwise, SeqEqual
  <1> DEFINE child == SubSeq(p, 1, Len(r) + 1)
  <1>10. child \in Components(p)
    <2>1. Len(r) + 1 \in 1 .. Len(p)
      BY <1>4, <1>8, <1>9
    <2>. QED
      BY <2>1, Zenon DEF Components
  <1>11. child \in Paths /\ Len(child) = Len(r) + 1
    <2>1. \A i \in 1 .. Len(r) + 1 : p[i] \in Names
      BY <1>1, <1>4, <1>8, <1>9, PathIsSeq, ElementOfSeq
    <2>2. child \in Paths
      BY <1>1, <1>10, PathsAssumption
    <2>3. Len(child) = Len(r) + 1
      BY <1>1, <1>4, <1>8, <1>9, <2>1, PathIsSeq, SubSeqProperties
    <2>. QED
      BY <2>2, <2>3
  <1>12. child \in DOMAIN t
    <2>1. CASE child = p
      BY <2>1
    <2>2. CASE child # p
      <3>1. child \in Ancestors(p)
        BY <1>10, <2>2 DEF Ancestors
      <3>2. Len(p) - Len(child) < n
        BY <1>4, <1>7, <1>8, <1>11
      <3>3. child \notin bad
        BY <1>6, <3>2
      <3>. QED
        BY <3>1, <3>3
    <2>. QED
      BY <2>1, <2>2
  <1>13. Front(child) = r
    <2>1. SubSeq(p, 1, Len(r)) = r
      BY <1>8, PathIsSeq, SubSeqFull DEF IsPrefix
    <2>2. Front(child) = SubSeq(child, 1, Len(r))
      BY <1>4, <1>8, <1>11 DEF Front
    <2>3. r \in Ancestors(child)
      <3>1. IsPrefix(child, p)
        BY <1>1, <1>10, ComponentsArePrefixes
      <3>2. IsPrefix(r, child) \/ IsPrefix(child, r)
        BY <1>1, <1>8, <1>11, <3>1, PrefixesAreComparable
      <3>3. ~IsPrefix(child, r) /\ r # child
        BY <1>4, <1>8, <1>11 DEF IsPrefix
      <3>. QED
        BY <1>8, <1>11, <3>2, <3>3, AncestorsArePrefixes
    <2>4. Front(child) \in Paths /\ IsPrefix(r, Front(child))
      BY <1>11, <2>3, ParentIsLongest
    <2>5. Len(Front(child)) = Len(r)
      <3>1. Front(child) \in Ancestors(child)
        BY <1>11, <2>4, ParentIsLongest, PathIsSeq
      <3>2. IsPrefix(Front(child), child) /\ Front(child) # child
        BY <1>11, <3>1, AncestorsArePrefixes
      <3>3. Len(Front(child)) # Len(child)
        BY <1>11, <2>4, <3>2, PathIsSeq, PrefixPointwise, SeqEqual
      <3>. QED
        BY <1>4, <1>8, <1>11, <2>4, <3>2, <3>3, PathIsSeq DEF IsPrefix
    <2>. QED
      BY <1>8, <2>4, <2>5, PathIsSeq, PrefixPointwise, SeqEqual
  <1>14. IsDir(t, r) /\ r # <<>>
    BY <1>0, <1>8, <1>12, <1>13, PathIsSeq
  <1>. QED
    BY <1>7, <1>14 DEF IsDir

\* What a tree is, without parents ...
LEMMA TreeIs ==
  ASSUME NEW t \in Trees
  PROVE  /\ t \in Rows
         /\ \A p \in DOMAIN t : p \in Paths /\ t[p] \in Nodes
         /\ \A p \in DOMAIN t : \A q \in Ancestors(p) : q \in DOMAIN t /\ t[q] = DIR
  <1>1. t \in Rows
    BY DEF Trees, Rows, Nodes
  <1>. QED
    BY <1>1, RowsAre, AncestorsExist

\* ... and conversely.
LEMMA IsTree ==
  ASSUME NEW t \in Rows,
         \A p \in DOMAIN t : \A q \in Ancestors(p) : q \in DOMAIN t /\ t[q] = DIR
  PROVE  t \in Trees
  <1>1. ASSUME NEW p \in DOMAIN t PROVE IsDir(t, Front(p))
    <2>1. p \in Paths
      BY RowsAre
    <2>. QED
      BY <2>1, ParentIsLongest DEF IsDir
  <1>. QED
    BY <1>1 DEF Trees, Rows, Nodes

(***************************************************************************)
(* The operations on trees: what they leave where, and that it is a tree.  *)
(***************************************************************************)
LEMMA RowsEqual ==
  ASSUME NEW t \in Rows, NEW u \in Rows, DOMAIN t = DOMAIN u,
         \A p \in DOMAIN t : t[p] = u[p]
  PROVE  t = u
  <1>1. t = [p \in DOMAIN t |-> t[p]] /\ u = [p \in DOMAIN u |-> u[p]]
    BY RowsAre
  <1>. QED
    BY <1>1

\* A map given by its domain and values is a map of rows.
LEMMA MakesRows ==
  ASSUME NEW S, S \subseteq Paths, NEW f, f = [p \in S |-> f[p]],
         \A p \in S : f[p] \in Nodes
  PROVE  f \in Rows
  <1>1. DOMAIN f = S
    OBVIOUS
  <1>. QED
    BY <1>1, RowsAre

\* The initial workspace is a tree.
LEMMA EmptyTreeIsTree == EmptyTree \in Trees
  <1>1. EmptyTree \in Rows /\ DOMAIN EmptyTree = {}
    BY RowsAre DEF EmptyTree
  <1>. QED
    BY <1>1, IsTree

\* An entry is a file or a directory and not both.
LEMMA FilesAndDirectories ==
  ASSUME NEW t \in Trees
  PROVE  /\ \A p \in Directories(t) : p \in DOMAIN t /\ p \in Paths /\ t[p] = DIR
         /\ \A p \in Files(t) : p \in DOMAIN t /\ p \in Paths /\ t[p] \in Contents
         /\ \A p \in DOMAIN t : p \in Directories(t) \/ p \in Files(t)
         /\ Directories(t) \cap Files(t) = {}
  BY TreeIs, NodesAssumption DEF Directories, Files, Nodes

\* Nothing lies below a file.
LEMMA FilesAreLeaves ==
  ASSUME NEW t \in Trees, NEW p \in Files(t), NEW q \in DOMAIN t, IsPrefix(p, q)
  PROVE  p = q
  <1>1. p \in Paths /\ q \in Paths /\ p \in DOMAIN t /\ t[p] # DIR
    BY FilesAndDirectories, TreeIs, NodesAssumption
  <1>2. SUFFICES ASSUME p # q PROVE FALSE
    OBVIOUS
  <1>3. p \in Ancestors(q)
    BY <1>1, <1>2, AncestorsArePrefixes
  <1>. QED
    BY <1>1, <1>3, TreeIs

\* The hashes of a tree are its files.
LEMMA FileHashesAreFiles ==
  ASSUME NEW t \in Trees
  PROVE  /\ FileHashes(t) \in FileMaps /\ DOMAIN FileHashes(t) = Files(t)
         /\ \A p \in Files(t) : FileHashes(t)[p] = t[p]
  <1>1. DOMAIN FileHashes(t) = Files(t) /\ \A p \in Files(t) : FileHashes(t)[p] = t[p]
    BY DEF FileHashes
  <1>2. FileHashes(t) = [p \in DOMAIN FileHashes(t) |-> FileHashes(t)[p]]
    BY DEF FileHashes
  <1>. QED
    BY <1>1, <1>2, FilesAndDirectories, FileMapsAre

\* Cutting entries with everything below them leaves a tree.
IsCut(u, t, R) ==
  /\ u \in Trees
  /\ DOMAIN u = {p \in DOMAIN t : \A r \in R : ~IsPrefix(r, p)}
  /\ \A p \in DOMAIN u : u[p] = t[p]

\* Removing entries with all below them leaves a tree.
LEMMA CutIsTree ==
  ASSUME NEW t \in Trees, NEW R, R \subseteq Paths
  PROVE  IsCut(removePaths(t, R), t, R)
  <1> DEFINE u == removePaths(t, R)
  <1>1. DOMAIN u = {p \in DOMAIN t : \A r \in R : ~IsPrefix(r, p)}
    BY TreeIs DEF removePaths, Restricted
  <1>2. \A p \in DOMAIN u : u[p] = t[p]
    BY DEF removePaths, Restricted
  <1>3. u = [p \in DOMAIN u |-> u[p]]
    BY DEF removePaths, Restricted
  <1> HIDE DEF u
  <1>4. u \in Rows
    BY <1>1, <1>2, <1>3, TreeIs, MakesRows
  <1>5. ASSUME NEW p \in DOMAIN u, NEW q \in Ancestors(p)
        PROVE  q \in DOMAIN u /\ u[q] = DIR
    <2>1. p \in DOMAIN t /\ p \in Paths /\ q \in DOMAIN t /\ t[q] = DIR /\ q \in Paths
      BY <1>1, <1>5, TreeIs
    <2>2. IsPrefix(q, p)
      BY <1>5, <2>1, AncestorsArePrefixes
    <2>3. \A r \in R : ~IsPrefix(r, q)
      BY <1>1, <1>5, <2>1, <2>2, PrefixTransitive
    <2>. QED
      BY <1>1, <1>2, <2>1, <2>3
  <1>6. u \in Trees
    BY <1>4, <1>5, IsTree
  <1>. QED
    BY <1>1, <1>2, <1>6 DEF u, IsCut

\* delete() removes one entry with all below it.
LEMMA DeleteIsCut ==
  ASSUME NEW t \in Trees, NEW p \in Paths
  PROVE  delete(t, p) = removePaths(t, {p})
  <1>1. {q \in Paths : ~IsPrefix(p, q)} = {q \in Paths : \A r \in {p} : ~IsPrefix(r, q)}
    OBVIOUS
  <1>. QED
    BY <1>1 DEF delete, removePaths

\* An entry with a parent to lie in may be added, or a file overwritten.
LEMMA AddedIsTree ==
  ASSUME NEW t \in Trees, NEW p \in Paths, NEW node \in Nodes,
         \A q \in Ancestors(p) : q \in DOMAIN t /\ t[q] = DIR,
         \A q \in DOMAIN t : IsPrefix(p, q) => p = q
  PROVE  Override([q \in {p} |-> node], t) \in Trees
  <1> DEFINE u == Override([q \in {p} |-> node], t)
  <1>1. /\ DOMAIN u = DOMAIN t \cup {p}
        /\ \A q \in DOMAIN u : u[q] = IF q = p THEN node ELSE t[q]
        /\ u = [q \in DOMAIN u |-> u[q]]
    BY DEF Override
  <1> HIDE DEF u
  <1>2. u \in Rows
    BY <1>1, TreeIs, MakesRows
  <1>3. ASSUME NEW q \in DOMAIN u, NEW r \in Ancestors(q)
        PROVE  r \in DOMAIN u /\ u[r] = DIR
    <2>1. q \in Paths
      BY <1>1, <1>3, TreeIs
    <2>2. r \in DOMAIN t /\ t[r] = DIR /\ r \in Paths /\ IsPrefix(r, q) /\ r # q
      BY <1>1, <1>3, <2>1, TreeIs, AncestorsArePrefixes
    <2>3. r # p
      BY <1>1, <1>3, <2>2
    <2>. QED
      BY <1>1, <2>2, <2>3
  <1>. QED
    BY <1>2, <1>3, IsTree DEF u

\* A path whose parent is a directory has directories all the way.
LEMMA DirectoryAbove ==
  ASSUME NEW t \in Trees, NEW p \in Paths, IsDir(t, Front(p))
  PROVE  \A q \in Ancestors(p) : q \in DOMAIN t /\ t[q] = DIR
  <1>1. SUFFICES ASSUME NEW q \in Ancestors(p) PROVE q \in DOMAIN t /\ t[q] = DIR
    OBVIOUS
  <1>2. q \in Paths /\ Front(p) \in Paths /\ IsPrefix(q, Front(p))
    BY <1>1, ParentIsLongest, AncestorsArePrefixes
  <1>3. Front(p) \in DOMAIN t /\ t[Front(p)] = DIR
    BY <1>2, PathIsSeq DEF IsDir
  <1>4. q = Front(p) \/ q \in Ancestors(Front(p))
    BY <1>2, AncestorsArePrefixes
  <1>. QED
    BY <1>3, <1>4, TreeIs

\* writeFile() leaves a tree.
LEMMA WriteIsTree ==
  ASSUME NEW t \in Trees, NEW p \in Paths, NEW content \in Contents, CanWrite(t, p)
  PROVE  write(t, p, content) \in Trees
  <1>1. \A q \in Ancestors(p) : q \in DOMAIN t /\ t[q] = DIR
    BY DirectoryAbove DEF CanWrite
  <1>2. ASSUME NEW q \in DOMAIN t, IsPrefix(p, q), p # q PROVE FALSE
    <2>1. q \in Paths /\ p \in Ancestors(q)
      BY <1>2, TreeIs, AncestorsArePrefixes
    <2>. QED
      BY <2>1, TreeIs DEF CanWrite, IsDir
  <1>. QED
    BY <1>1, <1>2, AddedIsTree DEF write, Nodes

\* mkdir() leaves a tree.
LEMMA MkdirIsTree ==
  ASSUME NEW t \in Trees, NEW p \in Paths, CanMkdir(t, p)
  PROVE  mkdir(t, p) \in Trees
  <1>1. \A q \in Ancestors(p) : q \in DOMAIN t /\ t[q] = DIR
    BY DirectoryAbove DEF CanMkdir
  <1>2. ASSUME NEW q \in DOMAIN t, IsPrefix(p, q), p # q PROVE FALSE
    <2>1. q \in Paths /\ p \in Ancestors(q)
      BY <1>2, TreeIs, AncestorsArePrefixes
    <2>. QED
      BY <2>1, TreeIs DEF CanMkdir
  <1>. QED
    BY <1>1, <1>2, AddedIsTree DEF mkdir, Nodes

\* Directories that mkdir -p makes: every component above one it makes is there
\* or made too, since the limit stops it on the way down.
LEMMA MkdirRecursiveIsTree ==
  ASSUME NEW t \in Trees, NEW p \in Paths, NoFileOnTheWay(t, p)
  PROVE  /\ mkdirRecursive(t, p) \in Trees
         /\ DOMAIN t \subseteq DOMAIN mkdirRecursive(t, p)
         /\ \A q \in DOMAIN mkdirRecursive(t, p) :
              mkdirRecursive(t, p)[q] = IF q \in DOMAIN t THEN t[q] ELSE DIR
  <1> DEFINE limit == Len(p) - Cardinality(MissingComponents(t, p)) + Room(t)
             made == {q \in MissingComponents(t, p) : Len(q) <= limit}
             u == mkdirRecursive(t, p)
  <1>1. /\ DOMAIN u = DOMAIN t \cup made
        /\ \A q \in DOMAIN u : u[q] = IF q \in made THEN DIR ELSE t[q]
        /\ u = [q \in DOMAIN u |-> u[q]]
    BY DEF mkdirRecursive
  <1>2. limit \in Int
    <2>1. IsFiniteSet(DOMAIN t)
      BY TreeIs, PathsAssumption, FS_Subset
    <2>2. IsFiniteSet(MissingComponents(t, p))
      BY PathsAssumption, FS_Subset DEF MissingComponents
    <2>. QED
      BY <2>1, <2>2, FS_CardinalityType, PathIsSeq, NodesAssumption DEF Room
  <1>3. \A q \in made : q \in Paths /\ q \in Components(p) /\ q \notin DOMAIN t
                        /\ Len(q) <= limit
    BY PathsAssumption DEF MissingComponents
  <1>4. \A q \in Components(p) : q \notin DOMAIN t /\ Len(q) <= limit => q \in made
    BY DEF MissingComponents
  <1> HIDE DEF u, made, limit
  <1>5. u \in Rows
    BY <1>1, <1>3, TreeIs, MakesRows DEF Nodes
  <1>6. ASSUME NEW q \in DOMAIN u, NEW r \in Ancestors(q)
        PROVE  r \in DOMAIN u /\ u[r] = DIR
    <2>1. CASE q \in made
      <3>1. q \in Paths /\ r \in Paths /\ IsPrefix(r, q) /\ IsPrefix(q, p)
        BY <1>3, <1>6, <2>1, AncestorsArePrefixes, ComponentsArePrefixes
      <3>2. r \in Components(p)
        BY <3>1, PrefixTransitive, ComponentsArePrefixes
      <3>3. CASE r \in DOMAIN t
        BY <1>1, <1>3, <3>2, <3>3 DEF NoFileOnTheWay
      <3>4. CASE r \notin DOMAIN t
        <4>1. Len(r) <= limit
          <5>1. Len(r) \in Nat /\ Len(q) \in Nat /\ Len(r) <= Len(q)
            BY <3>1, PathIsSeq DEF IsPrefix
          <5>. QED
            BY <1>2, <1>3, <2>1, <5>1
        <4>. QED
          BY <1>1, <1>4, <3>2, <3>4, <4>1
      <3>. QED
        BY <3>3, <3>4
    <2>2. CASE q \in DOMAIN t
      BY <1>1, <1>3, <1>6, <2>2, TreeIs
    <2>. QED
      BY <1>1, <2>1, <2>2
  <1>7. u \in Trees
    BY <1>5, <1>6, IsTree
  <1>. QED
    BY <1>1, <1>3, <1>7 DEF u

(***************************************************************************)
(* Renaming.  Moved(p, q, r) is the path r below p seen from q.            *)
(***************************************************************************)
Moved(p, q, r) == q \o SubSeq(r, Len(p) + 1, Len(r))

IsMoved(s, p, q, r) ==
  /\ s \in Seq(Names)
  /\ Len(s) = Len(q) + Len(r) - Len(p)
  /\ \A i \in 1 .. Len(q) : s[i] = q[i]
  /\ \A i \in Len(q) + 1 .. Len(q) + Len(r) - Len(p) : s[i] = r[Len(p) + i - Len(q)]

\* A moved path: the target's components, then what was below the source.
LEMMA MovedPointwise ==
  ASSUME NEW p \in Paths, NEW q \in Paths, NEW r \in Paths, IsPrefix(p, r)
  PROVE  IsMoved(Moved(p, q, r), p, q, r)
  <1>1. /\ p \in Seq(Names) /\ q \in Seq(Names) /\ r \in Seq(Names)
        /\ Len(p) \in Nat \ {0} /\ Len(q) \in Nat \ {0} /\ Len(r) \in Nat \ {0}
        /\ Len(p) <= Len(r)
    BY PathIsSeq DEF IsPrefix
  <1> DEFINE rest == SubSeq(r, Len(p) + 1, Len(r))
  <1>2. \A i \in Len(p) + 1 .. Len(r) : r[i] \in Names
    BY <1>1, ElementOfSeq
  <1>3. /\ rest \in Seq(Names)
        /\ Len(rest) = Len(r) - Len(p)
        /\ \A i \in 1 .. Len(r) - Len(p) : rest[i] = r[Len(p) + i]
    BY <1>1, <1>2, SubSeqProperties
  <1> HIDE DEF rest
  <1>4. /\ q \o rest \in Seq(Names)
        /\ Len(q \o rest) = Len(q) + Len(rest)
        /\ \A i \in 1 .. Len(q) + Len(rest) :
             (q \o rest)[i] = IF i <= Len(q) THEN q[i] ELSE rest[i - Len(q)]
    BY <1>1, <1>3, ConcatProperties
  <1>5. Moved(p, q, r) = q \o rest
    BY DEF Moved, rest
  <1>6. ASSUME NEW i \in Len(q) + 1 .. Len(q) + Len(r) - Len(p)
        PROVE  (q \o rest)[i] = r[Len(p) + i - Len(q)]
    <2>1. i - Len(q) \in 1 .. Len(r) - Len(p) /\ i \in 1 .. Len(q) + Len(rest) /\ ~(i <= Len(q))
      BY <1>1, <1>3
    <2>. QED
      BY <1>1, <1>3, <1>4, <2>1
  <1>7. \A i \in 1 .. Len(q) : (q \o rest)[i] = q[i]
    BY <1>1, <1>3, <1>4
  <1>8. Len(q \o rest) = Len(q) + Len(r) - Len(p)
    BY <1>1, <1>3, <1>4
  <1>. QED
    BY <1>4, <1>5, <1>6, <1>7, <1>8 DEF IsMoved

\* It lies below q, and seen from p again it is r.
LEMMA MovedBack ==
  ASSUME NEW p \in Paths, NEW q \in Paths, NEW r \in Paths, IsPrefix(p, r),
         Moved(p, q, r) \in Paths
  PROVE  /\ IsPrefix(q, Moved(p, q, r))
         /\ Moved(q, p, Moved(p, q, r)) = r
         /\ Moved(p, q, r) = q => r = p
  <1> DEFINE s == Moved(p, q, r)
  <1>1. /\ p \in Seq(Names) /\ q \in Seq(Names) /\ r \in Seq(Names)
        /\ Len(p) \in Nat \ {0} /\ Len(q) \in Nat \ {0} /\ Len(r) \in Nat \ {0}
        /\ Len(p) <= Len(r) /\ \A i \in 1 .. Len(p) : p[i] = r[i]
    BY PathIsSeq, PrefixPointwise
  <1>2. /\ s \in Seq(Names) /\ s \in Paths
        /\ Len(s) = Len(q) + Len(r) - Len(p)
        /\ \A i \in 1 .. Len(q) : s[i] = q[i]
        /\ \A i \in Len(q) + 1 .. Len(q) + Len(r) - Len(p) : s[i] = r[Len(p) + i - Len(q)]
    BY MovedPointwise DEF IsMoved
  <1> HIDE DEF s
  <1>3. IsPrefix(q, s)
    BY <1>1, <1>2, PrefixPointwise
  <1>4. /\ Moved(q, p, s) \in Seq(Names)
        /\ Len(Moved(q, p, s)) = Len(p) + Len(s) - Len(q)
        /\ \A i \in 1 .. Len(p) : Moved(q, p, s)[i] = p[i]
        /\ \A i \in Len(p) + 1 .. Len(p) + Len(s) - Len(q) :
             Moved(q, p, s)[i] = s[Len(q) + i - Len(p)]
    <2>1. IsMoved(Moved(q, p, s), q, p, s)
      BY <1>2, <1>3, MovedPointwise
    <2>. QED
      BY <2>1 DEF IsMoved
  <1>5. Len(Moved(q, p, s)) = Len(r)
    BY <1>1, <1>2, <1>4
  <1>6. ASSUME NEW i \in 1 .. Len(r) PROVE Moved(q, p, s)[i] = r[i]
    <2>1. CASE i <= Len(p)
      BY <1>1, <1>4, <2>1
    <2>2. CASE i > Len(p)
      <3>1. i \in Len(p) + 1 .. Len(p) + Len(s) - Len(q)
            /\ Len(q) + i - Len(p) \in Len(q) + 1 .. Len(q) + Len(r) - Len(p)
            /\ Len(p) + (Len(q) + i - Len(p)) - Len(q) = i
        BY <1>1, <1>2, <2>2
      <3>2. Moved(q, p, s)[i] = s[Len(q) + i - Len(p)]
        BY <1>4, <3>1
      <3>3. s[Len(q) + i - Len(p)] = r[Len(p) + (Len(q) + i - Len(p)) - Len(q)]
        BY <1>2, <3>1
      <3>. QED
        BY <3>1, <3>2, <3>3
    <2>. QED
      BY <1>1, <2>1, <2>2
  <1>7. Moved(q, p, s) = r
    BY <1>1, <1>4, <1>5, <1>6, SeqEqual
  <1>8. ASSUME s = q PROVE r = p
    BY <1>1, <1>2, <1>8, SeqEqual
  <1>. QED
    BY <1>3, <1>7, <1>8 DEF s

\* What is moved from above r is above what is moved from r, and in between
\* there is nothing else.
LEMMA MovedAncestor ==
  ASSUME NEW p \in Paths, NEW q \in Paths, NEW r \in Paths, IsPrefix(p, r),
         Moved(p, q, r) \in Paths,
         NEW a \in Ancestors(Moved(p, q, r)), IsPrefix(q, a)
  PROVE  \E b \in Paths : /\ IsPrefix(p, b) /\ IsPrefix(b, r) /\ b # r
                          /\ a = Moved(p, q, b)
  <1> DEFINE s == Moved(p, q, r)
             n == Len(a) - Len(q) + Len(p)
             b == SubSeq(r, 1, n)
  <1>1. /\ p \in Seq(Names) /\ q \in Seq(Names) /\ r \in Seq(Names)
        /\ Len(p) \in Nat \ {0} /\ Len(q) \in Nat \ {0} /\ Len(r) \in Nat \ {0}
        /\ Len(p) <= Len(r) /\ \A i \in 1 .. Len(p) : p[i] = r[i]
    BY PathIsSeq, PrefixPointwise
  <1>2. /\ s \in Seq(Names) /\ s \in Paths
        /\ Len(s) = Len(q) + Len(r) - Len(p)
        /\ \A i \in 1 .. Len(q) : s[i] = q[i]
        /\ \A i \in Len(q) + 1 .. Len(q) + Len(r) - Len(p) : s[i] = r[Len(p) + i - Len(q)]
    BY MovedPointwise DEF IsMoved
  <1>3. a \in Paths /\ IsPrefix(a, s) /\ a # s
    BY <1>2, AncestorsArePrefixes
  <1> HIDE DEF s
  <1>4. /\ a \in Seq(Names) /\ Len(a) \in Nat \ {0} /\ Len(a) <= Len(s)
        /\ \A i \in 1 .. Len(a) : a[i] = s[i]
        /\ Len(q) <= Len(a) /\ \A i \in 1 .. Len(q) : q[i] = a[i]
    BY <1>1, <1>2, <1>3, PathIsSeq, PrefixPointwise
  <1>5. Len(a) # Len(s)
    BY <1>2, <1>3, <1>4, SeqEqual
  <1>6. n \in 1 .. Len(r) /\ n < Len(r) /\ Len(p) <= n
    <2>1. \A k, l, m, o \in Nat \ {0} : k <= l /\ m <= o /\ o < m + l - k =>
            LET x == o - m + k IN x \in 1 .. l /\ x < l /\ k <= x
      OBVIOUS
    <2>2. Len(q) <= Len(a) /\ Len(a) < Len(q) + Len(r) - Len(p)
      <3>1. \A k, l \in Int : k <= l /\ k # l => k < l
        OBVIOUS
      <3>2. Len(a) <= Len(q) + Len(r) - Len(p) /\ Len(a) # Len(q) + Len(r) - Len(p)
        BY <1>2, <1>4, <1>5, Zenon
      <3>3. Len(a) \in Int /\ Len(q) + Len(r) - Len(p) \in Int
        BY <1>1, <1>4
      <3>. QED
        BY <1>4, <3>1, <3>2, <3>3, Zenon
    <2>. QED
      BY <1>1, <1>4, <2>1, <2>2
  <1>7. b \in Components(r)
    BY <1>6, Zenon DEF Components
  <1>8. b \in Paths /\ IsPrefix(b, r)
    BY <1>7, ComponentsArePrefixes
  <1>9. Len(b) = n /\ \A i \in 1 .. n : b[i] = r[i]
    <2>1. \A i \in 1 .. n : r[i] \in Names
      BY <1>1, <1>6, ElementOfSeq
    <2>. QED
      BY <1>1, <1>6, <2>1, SubSeqProperties
  <1>10. b # r
    BY <1>1, <1>6, <1>9
  <1>11. n \in Nat /\ b \in Seq(Names)
    BY <1>6, <1>8, PathIsSeq
  <1> HIDE DEF b
  <1>12. IsPrefix(p, b)
    BY <1>1, <1>6, <1>9, <1>11, PrefixPointwise
  <1>13. /\ Moved(p, q, b) \in Seq(Names)
         /\ Len(Moved(p, q, b)) = Len(q) + Len(b) - Len(p)
         /\ \A i \in 1 .. Len(q) : Moved(p, q, b)[i] = q[i]
         /\ \A i \in Len(q) + 1 .. Len(q) + Len(b) - Len(p) :
              Moved(p, q, b)[i] = b[Len(p) + i - Len(q)]
    <2>1. IsMoved(Moved(p, q, b), p, q, b)
      BY <1>8, <1>12, MovedPointwise
    <2>. QED
      BY <2>1 DEF IsMoved
  <1>14. Len(Moved(p, q, b)) = Len(a)
    BY <1>1, <1>4, <1>9, <1>13
  <1>15. ASSUME NEW i \in 1 .. Len(a) PROVE Moved(p, q, b)[i] = a[i]
    <2>1. CASE i <= Len(q)
      BY <1>1, <1>4, <1>13, <2>1
    <2>2. CASE i > Len(q)
      <3>1. /\ i \in Len(q) + 1 .. Len(q) + Len(b) - Len(p)
            /\ i \in Len(q) + 1 .. Len(q) + Len(r) - Len(p)
            /\ Len(p) + i - Len(q) \in 1 .. n
        BY <1>1, <1>2, <1>4, <1>6, <1>9, <2>2
      <3>2. Moved(p, q, b)[i] = b[Len(p) + i - Len(q)]
        BY <1>13, <3>1
      <3>3. b[Len(p) + i - Len(q)] = r[Len(p) + i - Len(q)]
        BY <1>9, <3>1
      <3>4. s[i] = r[Len(p) + i - Len(q)] /\ a[i] = s[i]
        BY <1>2, <1>4, <3>1
      <3>. QED
        BY <3>2, <3>3, <3>4
    <2>. QED
      BY <1>1, <1>4, <2>1, <2>2
  <1>16. a = Moved(p, q, b)
    BY <1>4, <1>13, <1>14, <1>15, SeqEqual
  <1>. QED
    BY <1>8, <1>10, <1>12, <1>16

\* The subtree of p becomes the subtree of q; where p lies above q both are cut off.
LEMMA RenameIsTree ==
  ASSUME NEW t \in Trees, NEW p \in Paths, NEW q \in Paths, CanRename(t, p, q),
         DOMAIN rename(t, p, q) \subseteq Paths
  PROVE  /\ rename(t, p, q) \in Trees
         /\ \A s \in DOMAIN t \cap DOMAIN rename(t, p, q) : t[s] = DIR => rename(t, p, q)[s] = DIR
  <1> DEFINE rest == delete(t, p)
             moved == {r \in DOMAIN t : IsPrefix(p, r)}
             targets == {Moved(p, q, r) : r \in moved}
             u == rename(t, p, q)
  <1>1. /\ rest \in Trees
        /\ DOMAIN rest = {s \in DOMAIN t : ~IsPrefix(p, s)}
        /\ \A s \in DOMAIN rest : rest[s] = t[s]
    <2>1. rest = removePaths(t, {p}) /\ {p} \subseteq Paths
      BY DeleteIsCut
    <2>2. /\ removePaths(t, {p}) \in Trees
          /\ DOMAIN removePaths(t, {p}) = {s \in DOMAIN t : \A r \in {p} : ~IsPrefix(r, s)}
          /\ \A s \in DOMAIN removePaths(t, {p}) : removePaths(t, {p})[s] = t[s]
      BY <2>1, CutIsTree DEF IsCut
    <2> HIDE DEF rest
    <2>3. {s \in DOMAIN t : \A r \in {p} : ~IsPrefix(r, s)} = {s \in DOMAIN t : ~IsPrefix(p, s)}
      OBVIOUS
    <2>. QED
      BY <2>1, <2>2, <2>3, Zenon
  <1>2. CASE IsStrictPrefix(p, q)
    <2>1. u = rest
      BY <1>2 DEF rename
    <2>. QED
      BY <1>1, <2>1
  <1>3. CASE ~IsStrictPrefix(p, q)
    <2>1. /\ DOMAIN u = DOMAIN rest \cup targets
          /\ \A s \in DOMAIN u : u[s] = IF IsPrefix(q, s) THEN t[Moved(q, p, s)] ELSE rest[s]
          /\ u = [s \in DOMAIN u |-> u[s]]
      BY <1>3 DEF rename, Moved
    <2>2. \A r \in moved : r \in Paths /\ r \in DOMAIN t /\ IsPrefix(p, r)
      BY TreeIs
    <2>3. \A s \in targets : s \in Paths /\ \E r \in moved : s = Moved(p, q, r)
      BY <2>1
    <2>4. \A r \in moved : Moved(p, q, r) \in targets
      OBVIOUS
    <2>5. \A s \in DOMAIN rest : s \in DOMAIN t /\ s \in Paths /\ ~IsPrefix(p, s) /\ rest[s] = t[s]
      BY <1>1, TreeIs
    <2> HIDE DEF u, rest, moved, targets
    <2>6. p \in DOMAIN t /\ ~(IsPrefix(p, q) /\ p # q)
      BY <1>3 DEF CanRename, IsStrictPrefix
    <2>7. \A s \in Ancestors(q) : s \in DOMAIN t /\ t[s] = DIR
      BY DirectoryAbove DEF CanRename
    \* What t has below q is below p as well.
    <2>8. ASSUME NEW s \in DOMAIN t, IsPrefix(q, s), s # q PROVE FALSE
      <3>1. s \in Paths /\ q \in Ancestors(s)
        BY <2>8, TreeIs, AncestorsArePrefixes
      <3>2. q \in DOMAIN t
        BY <3>1, TreeIs
      <3>. QED
        BY <2>8, <3>2 DEF CanRename, IsStrictPrefix
    <2>9. ASSUME NEW r \in moved
          PROVE  /\ IsPrefix(q, Moved(p, q, r)) /\ Moved(p, q, r) \in DOMAIN u
                 /\ u[Moved(p, q, r)] = t[r]
      <3>1. Moved(p, q, r) \in Paths
        BY <2>3, <2>4
      <3>2. IsPrefix(q, Moved(p, q, r)) /\ Moved(q, p, Moved(p, q, r)) = r
        BY <2>2, <3>1, MovedBack
      <3>. QED
        BY <2>1, <2>4, <3>2
    <2>10. ASSUME NEW s \in DOMAIN u, IsPrefix(q, s) 
                 PROVE  s \in targets \/ (s = q /\ q \in DOMAIN rest)
      <3>1. s \in targets \/ s \in DOMAIN rest
        BY <2>1, <2>10
      <3>2. ASSUME s \in DOMAIN rest PROVE s = q
        BY <2>5, <2>8, <2>10, <3>2
      <3>. QED
        BY <3>1, <3>2
    \* The target itself is the source: what q was is replaced.
    <2>11. q \in DOMAIN rest => q \in targets
      <3>1. IsPrefix(p, p) /\ p \in moved
        BY <2>6, PrefixReflexive DEF moved
      <3>2. Moved(p, q, p) = q
        <4>1. p \in Seq(Names) /\ q \in Seq(Names) /\ Len(p) \in Nat
          BY PathIsSeq
        <4>2. SubSeq(p, Len(p) + 1, Len(p)) = <<>>
          BY <4>1, SubSeqEmpty
        <4>. QED
          BY <4>1, <4>2, ConcatEmptySeq DEF Moved
      <3>. QED
        BY <2>4, <3>1, <3>2
    <2>12. ASSUME NEW s \in DOMAIN u
           PROVE  /\ s \in Paths /\ u[s] \in Nodes
                  /\ \A a \in Ancestors(s) : a \in DOMAIN u /\ u[a] = DIR
      <3>1. CASE s \in targets
        <4>1. PICK r \in moved : s = Moved(p, q, r)
          BY <2>3, <3>1
        <4>2. s \in Paths /\ u[s] = t[r] /\ IsPrefix(q, s) /\ r \in DOMAIN t /\ r \in Paths
          BY <2>2, <2>3, <2>9, <3>1, <4>1
        <4>3. ASSUME NEW a \in Ancestors(s) PROVE a \in DOMAIN u /\ u[a] = DIR
          <5>1. a \in Paths /\ IsPrefix(a, s) /\ a # s
            BY <4>2, <4>3, AncestorsArePrefixes
          <5>2. CASE IsPrefix(q, a)
            <6>1. PICK b \in Paths : /\ IsPrefix(p, b) /\ IsPrefix(b, r) /\ b # r
                                     /\ a = Moved(p, q, b)
              BY <2>2, <4>1, <4>2, <4>3, <5>2, MovedAncestor
            <6>2. b \in Ancestors(r)
              BY <4>2, <6>1, AncestorsArePrefixes
            <6>3. b \in DOMAIN t /\ t[b] = DIR
              BY <4>2, <6>2, TreeIs
            <6>4. b \in moved
              BY <6>1, <6>3 DEF moved
            <6>. QED
              BY <2>9, <6>1, <6>3, <6>4
          <5>3. CASE ~IsPrefix(q, a)
            <6>1. IsPrefix(a, q) /\ a # q
              BY <4>2, <5>1, <5>3, PrefixesAreComparable, PrefixReflexive
            <6>2. a \in DOMAIN t /\ t[a] = DIR
              BY <2>7, <5>1, <6>1, AncestorsArePrefixes
            <6>3. ~IsPrefix(p, a)
              BY <2>6, <5>1, <6>1, PrefixTransitive, PrefixAntisymmetric
            <6>4. a \in DOMAIN rest
              BY <1>1, <6>2, <6>3 DEF rest
            <6>. QED
              BY <2>1, <2>5, <5>3, <6>2, <6>4
          <5>. QED
            BY <5>2, <5>3
        <4>. QED
          BY <4>2, <4>3, TreeIs
      <3>2. CASE s \notin targets
        <4>1. s \in DOMAIN rest /\ ~IsPrefix(q, s)
          BY <2>1, <2>10, <2>11, <3>2
        <4>2. s \in DOMAIN t /\ s \in Paths /\ ~IsPrefix(p, s) /\ u[s] = t[s]
          BY <2>1, <2>5, <4>1
        <4>3. ASSUME NEW a \in Ancestors(s) PROVE a \in DOMAIN u /\ u[a] = DIR
          <5>1. a \in Paths /\ IsPrefix(a, s) /\ a \in DOMAIN t /\ t[a] = DIR
            BY <4>2, <4>3, AncestorsArePrefixes, TreeIs
          <5>2. ~IsPrefix(p, a) /\ ~IsPrefix(q, a)
            BY <4>1, <4>2, <5>1, PrefixTransitive
          <5>3. a \in DOMAIN rest
            BY <1>1, <5>1, <5>2 DEF rest
          <5>. QED
            BY <2>1, <2>5, <5>1, <5>2, <5>3
        <4>. QED
          BY <4>2, <4>3, TreeIs
      <3>. QED
        BY <3>1, <3>2
    <2>13. u \in Rows
      BY <2>1, <2>12, RowsAre
    <2>14. u \in Trees
      BY <2>12, <2>13, IsTree
    <2>15. ASSUME NEW s \in DOMAIN t \cap DOMAIN u, t[s] = DIR PROVE u[s] = DIR
      <3>1. CASE IsPrefix(q, s)
        <4>1. s = q
          BY <2>8, <2>15, <3>1
        <4>2. t[p] = DIR
          BY <2>6, <2>15, <4>1, PathIsSeq DEF CanRename, IsDir
        <4>3. p \in moved /\ Moved(p, q, p) = q
          <5>1. p \in Seq(Names) /\ q \in Seq(Names) /\ Len(p) \in Nat
            BY PathIsSeq
          <5>2. SubSeq(p, Len(p) + 1, Len(p)) = <<>>
            BY <5>1, SubSeqEmpty
          <5>. QED
            BY <2>6, <5>1, <5>2, ConcatEmptySeq, PrefixReflexive DEF Moved, moved
        <4>. QED
          BY <2>9, <4>1, <4>2, <4>3
      <3>2. CASE ~IsPrefix(q, s)
        <4>1. s \in DOMAIN rest
          BY <2>1, <2>9, <2>15, <3>2, <2>3
        <4>. QED
          BY <2>1, <2>5, <2>15, <3>2, <4>1
      <3>. QED
        BY <3>1, <3>2
    <2>. QED
      BY <2>14, <2>15 DEF u
  <1>. QED
    BY <1>2, <1>3

(***************************************************************************)
(* applySync.                                                              *)
(***************************************************************************)
Wanted(dirs)  == UNION {Components(d) : d \in dirs}
Above(paths)  == UNION {Ancestors(p) : p \in paths}

\* Files of one tree: none lies below another.
Apart(new) == \A p, q \in DOMAIN new : IsPrefix(p, q) => p = q

\* The directories ensureDirPaths makes, and that they are closed under ancestors.
LEMMA WantedAre ==
  ASSUME NEW dirs, dirs \subseteq Paths
  PROVE  /\ Wanted(dirs) = {p \in Paths : \E d \in dirs : IsPrefix(p, d)}
         /\ dirs \subseteq Wanted(dirs)
         /\ \A p \in Wanted(dirs) : p \in Paths /\ Ancestors(p) \subseteq Wanted(dirs)
  <1>1. Wanted(dirs) = {p \in Paths : \E d \in dirs : IsPrefix(p, d)}
    <2>1. \A d \in dirs : Components(d) = {q \in Paths : IsPrefix(q, d)}
      BY ComponentsArePrefixes
    <2>. QED
      BY <2>1 DEF Wanted
  <1>2. dirs \subseteq Wanted(dirs)
    BY <1>1, PrefixReflexive
  <1>3. ASSUME NEW p \in Wanted(dirs), NEW q \in Ancestors(p)
        PROVE  q \in Wanted(dirs)
    <2>1. p \in Paths /\ q \in Paths /\ IsPrefix(q, p)
      BY <1>1, AncestorsArePrefixes
    <2>2. PICK d \in dirs : IsPrefix(p, d)
      BY <1>1
    <2>. QED
      BY <1>1, <2>1, <2>2, PrefixTransitive
  <1>. QED
    BY <1>1, <1>2, <1>3

\* The parent directories putFiles makes.
LEMMA AboveAre ==
  ASSUME NEW paths, paths \subseteq Paths
  PROVE  /\ Above(paths) = {p \in Paths : \E q \in paths : IsPrefix(p, q) /\ p # q}
         /\ Wanted(Above(paths)) = Above(paths)
  <1>1. Above(paths) = {p \in Paths : \E q \in paths : IsPrefix(p, q) /\ p # q}
    <2>1. \A d \in paths : Ancestors(d) = {q \in Paths : IsPrefix(q, d) /\ q # d}
      BY AncestorsArePrefixes
    <2>. QED
      BY <2>1 DEF Above
  <1>2. Above(paths) \subseteq Paths /\ Above(paths) \subseteq Wanted(Above(paths))
    BY <1>1, WantedAre
  <1>3. ASSUME NEW p \in Wanted(Above(paths)) PROVE p \in Above(paths)
    <2>1. PICK d \in Above(paths) : p \in Paths /\ IsPrefix(p, d)
      BY <1>2, WantedAre
    <2>2. PICK q \in paths : IsPrefix(d, q) /\ d # q /\ d \in Paths
      BY <1>1
    <2>3. IsPrefix(p, q) /\ p # q
      BY <2>1, <2>2, PrefixTransitive, PrefixAntisymmetric
    <2>. QED
      BY <1>1, <2>1, <2>2, <2>3
  <1>. QED
    BY <1>1, <1>2, <1>3

\* A directory and everything it needs, made or put in the place of files.
IsEnsured(u, t, made) ==
  /\ u \in Trees
  /\ DOMAIN u = DOMAIN t \cup made
  /\ \A p \in DOMAIN u : u[p] = IF p \in made THEN DIR ELSE t[p]

\* ensureDirPaths leaves a tree, with a directory wherever one is wanted.
LEMMA EnsuredIsTree ==
  ASSUME NEW t \in Trees, NEW dirs, dirs \subseteq Paths
  PROVE  IsEnsured(ensureDirPaths(t, dirs), t, Wanted(dirs))
  <1> DEFINE u == ensureDirPaths(t, dirs)
  <1>1. /\ DOMAIN u = DOMAIN t \cup Wanted(dirs)
        /\ \A p \in DOMAIN u : u[p] = IF p \in Wanted(dirs) THEN DIR ELSE t[p]
        /\ u = [p \in DOMAIN u |-> u[p]]
    BY DEF ensureDirPaths, Wanted
  <1> HIDE DEF u
  <1>2. \A p \in Wanted(dirs) : p \in Paths /\ Ancestors(p) \subseteq Wanted(dirs)
    BY WantedAre
  <1>3. u \in Rows
    BY <1>1, <1>2, TreeIs, RowsAre DEF Nodes
  <1>4. ASSUME NEW p \in DOMAIN u, NEW q \in Ancestors(p) PROVE q \in DOMAIN u /\ u[q] = DIR
    BY <1>1, <1>2, <1>4, TreeIs
  <1>. QED
    BY <1>1, <1>3, <1>4, IsTree DEF u, IsEnsured

\* Directories made, then files put in the place of what was there.
IsPlaced(u, t, made, new) ==
  /\ u \in Trees
  /\ DOMAIN u = DOMAIN new \cup {p \in DOMAIN t \cup made : \A r \in DOMAIN new : ~IsPrefix(r, p)}
  /\ \A p \in DOMAIN u :
       u[p] = IF p \in DOMAIN new THEN new[p] ELSE IF p \in made THEN DIR ELSE t[p]

\* Directories, then files: a tree, with the new files in it and nothing below them.
LEMMA PlacedIsTree ==
  ASSUME NEW t \in Trees, NEW dirs, dirs \subseteq Paths, NEW new \in FileMaps, Apart(new)
  PROVE  IsPlaced(Placed(t, dirs, new), t, Wanted(dirs) \cup Above(DOMAIN new), new)
  <1> DEFINE u == Placed(t, dirs, new)
             above == Above(DOMAIN new)
             made == Wanted(dirs) \cup above
             t1 == ensureDirPaths(t, dirs)
             t2 == ensureDirPaths(t1, above)
             t3 == removePaths(t2, DOMAIN new)
  <1>1. /\ new = [p \in DOMAIN new |-> new[p]] /\ DOMAIN new \subseteq Paths
        /\ \A p \in DOMAIN new : new[p] \in Contents /\ new[p] \in Nodes
    BY FileMapsAre DEF Nodes
  <1>2. /\ t1 \in Trees /\ DOMAIN t1 = DOMAIN t \cup Wanted(dirs)
        /\ \A p \in DOMAIN t1 : t1[p] = IF p \in Wanted(dirs) THEN DIR ELSE t[p]
    <2>1. IsEnsured(t1, t, Wanted(dirs))
      BY EnsuredIsTree
    <2>. QED
      BY <2>1 DEF IsEnsured
  <1>3. above = {p \in Paths : \E q \in DOMAIN new : IsPrefix(p, q) /\ p # q}
        /\ Wanted(above) = above
    BY <1>1, AboveAre
  <1> HIDE DEF above, t1
  <1>4. /\ t2 \in Trees /\ DOMAIN t2 = DOMAIN t1 \cup above
        /\ \A p \in DOMAIN t2 : t2[p] = IF p \in above THEN DIR ELSE t1[p]
    <2>1. above \subseteq Paths
      BY <1>3
    <2>2. IsEnsured(t2, t1, Wanted(above))
      BY <1>2, <2>1, EnsuredIsTree
    <2>. QED
      BY <1>3, <2>2 DEF IsEnsured
  <1> HIDE DEF t2
  <1>5. /\ t3 \in Trees
        /\ DOMAIN t3 = {p \in DOMAIN t2 : \A r \in DOMAIN new : ~IsPrefix(r, p)}
        /\ \A p \in DOMAIN t3 : t3[p] = t2[p]
    <2>1. IsCut(t3, t2, DOMAIN new)
      BY <1>1, <1>4, CutIsTree
    <2>. QED
      BY <2>1 DEF IsCut
  <1> HIDE DEF t3
  <1>6. u = Override(new, t3)
    BY DEF Placed, putFiles, t3, t2, t1, above, Above
  <1>7. /\ DOMAIN u = DOMAIN new \cup DOMAIN t3
        /\ \A p \in DOMAIN u : u[p] = IF p \in DOMAIN new THEN new[p] ELSE t3[p]
        /\ u = [p \in DOMAIN u |-> u[p]]
    BY <1>6 DEF Override
  <1> HIDE DEF u
  <1>8. u \in Rows
    BY <1>1, <1>5, <1>7, TreeIs, RowsAre
  <1>9. ASSUME NEW p \in DOMAIN u, NEW q \in Ancestors(p) PROVE q \in DOMAIN u /\ u[q] = DIR
    <2>1. p \in Paths
      BY <1>8, RowsAre
    <2>2. q \in Paths /\ IsPrefix(q, p) /\ q # p
      BY <2>1, <1>9, AncestorsArePrefixes
    <2>3. CASE p \in DOMAIN new
      <3>1. q \in above /\ q \in DOMAIN t2 /\ t2[q] = DIR
        BY <1>3, <1>4, <2>2, <2>3
      <3>2. ASSUME NEW r \in DOMAIN new, IsPrefix(r, q) PROVE FALSE
        <4>1. r \in Paths /\ IsPrefix(r, p)
          BY <1>1, <2>1, <2>2, <3>2, PrefixTransitive
        <4>2. r = p
          BY <2>3, <3>2, <4>1 DEF Apart
        <4>. QED
          BY <2>1, <2>2, <3>2, <4>1, <4>2, PrefixAntisymmetric
      <3>3. q \notin DOMAIN new
        BY <2>2, <3>2, PrefixReflexive
      <3>. QED
        BY <1>5, <1>7, <3>1, <3>2, <3>3
    <2>4. CASE p \notin DOMAIN new
      <3>1. p \in DOMAIN t3
        BY <1>7, <1>9, <2>4
      <3>2. q \in DOMAIN t3 /\ t3[q] = DIR
        BY <1>5, <1>9, <3>1, TreeIs
      <3>3. q \notin DOMAIN new
        BY <1>5, <2>2, <3>2, PrefixReflexive
      <3>. QED
        BY <1>7, <3>2, <3>3
    <2>. QED
      BY <2>3, <2>4
  <1>10. u \in Trees
    BY <1>8, <1>9, IsTree
  <1>11. DOMAIN t2 = DOMAIN t \cup made
    BY <1>2, <1>4
  <1>12. ASSUME NEW p \in DOMAIN u
         PROVE  u[p] = IF p \in DOMAIN new THEN new[p] ELSE IF p \in made THEN DIR ELSE t[p]
    <2>1. CASE p \in DOMAIN new
      BY <1>7, <2>1
    <2>2. CASE p \notin DOMAIN new
      <3>1. p \in DOMAIN t3 /\ u[p] = t3[p]
        BY <1>7, <2>2
      <3>2. p \in DOMAIN t2 /\ t3[p] = t2[p]
        BY <1>5, <3>1
      <3>. QED
        BY <1>2, <1>4, <2>2, <3>1, <3>2
    <2>. QED
      BY <2>1, <2>2
  <1>13. DOMAIN u = DOMAIN new \cup
                    {p \in DOMAIN t \cup made : \A r \in DOMAIN new : ~IsPrefix(r, p)}
    BY <1>5, <1>7, <1>11, Zenon
  <1>. QED
    BY <1>10, <1>12, <1>13 DEF u, above, IsPlaced

\* What is unwanted is cut, and then the directories that are not named.
IsPruned(u, t, dirs, unwanted) ==
  /\ u \in Trees
  /\ \A p \in DOMAIN u : /\ p \in DOMAIN t /\ u[p] = t[p]
                         /\ \A r \in unwanted : ~IsPrefix(r, p)
                         /\ t[p] = DIR => p \in dirs
  /\ \A p \in DOMAIN t : \/ p \in DOMAIN u
                         \/ \E r \in unwanted : IsPrefix(r, p)
                         \/ \E r \in DOMAIN t \ dirs : t[r] = DIR /\ IsPrefix(r, p)

\* Deletions, then surplus directories: a tree, and only what they name is gone.
LEMMA PrunedIsTree ==
  ASSUME NEW t \in Trees, NEW dirs, NEW unwanted, unwanted \subseteq Paths
  PROVE  IsPruned(Pruned(t, dirs, unwanted), t, dirs, unwanted)
  <1> DEFINE u == Pruned(t, dirs, unwanted)
             t1 == removePaths(t, unwanted)
             surplus == Directories(t1) \ dirs
  <1>1. /\ t1 \in Trees
        /\ DOMAIN t1 = {p \in DOMAIN t : \A r \in unwanted : ~IsPrefix(r, p)}
        /\ \A p \in DOMAIN t1 : t1[p] = t[p]
    BY CutIsTree DEF IsCut
  <1>2. u = removePaths(t1, surplus)
    BY DEF Pruned
  <1> HIDE DEF u, t1
  <1>3. surplus \subseteq Paths /\ \A r \in surplus : r \in DOMAIN t1 /\ t1[r] = DIR /\ r \notin dirs
    BY <1>1, FilesAndDirectories
  <1>4. \A r \in DOMAIN t1 : t1[r] = DIR /\ r \notin dirs => r \in surplus
    BY DEF Directories
  <1> HIDE DEF surplus
  <1>5. /\ u \in Trees
        /\ DOMAIN u = {p \in DOMAIN t1 : \A r \in surplus : ~IsPrefix(r, p)}
        /\ \A p \in DOMAIN u : u[p] = t1[p]
    BY <1>1, <1>2, <1>3, CutIsTree DEF IsCut
  <1>6. ASSUME NEW p \in DOMAIN u
        PROVE  /\ p \in DOMAIN t /\ u[p] = t[p]
               /\ \A r \in unwanted : ~IsPrefix(r, p)
               /\ t[p] = DIR => p \in dirs
    <2>1. p \in DOMAIN t1 /\ p \in DOMAIN t /\ u[p] = t[p] /\ t1[p] = t[p] /\ p \in Paths
      BY <1>1, <1>5, <1>6, TreeIs
    <2>2. ASSUME t[p] = DIR, p \notin dirs PROVE FALSE
      BY <1>4, <1>5, <1>6, <2>1, <2>2, PrefixReflexive
    <2>. QED
      BY <1>1, <2>1, <2>2
  <1>7. ASSUME NEW p \in DOMAIN t, p \notin DOMAIN u, \A r \in unwanted : ~IsPrefix(r, p)
        PROVE  \E r \in DOMAIN t \ dirs : t[r] = DIR /\ IsPrefix(r, p)
    <2>1. p \in DOMAIN t1
      BY <1>1, <1>7
    <2>2. PICK r \in surplus : IsPrefix(r, p)
      BY <1>5, <1>7, <2>1
    <2>. QED
      BY <1>1, <1>3, <2>2
  <1>. QED
    BY <1>5, <1>6, <1>7 DEF u, IsPruned

(***************************************************************************)
(* Reconciliation with a manifest: w is the sandbox's tree, m the mirror,  *)
(* pulled what getFiles gave.                                              *)
(***************************************************************************)
PulledFrom(pulled, w) ==
  /\ pulled \in FileMaps
  /\ \A p \in DOMAIN pulled : p \in Files(w) /\ pulled[p] = w[p]

\* A tree's directories need no others, nor do its entries.
LEMMA DirectoriesAreClosed ==
  ASSUME NEW w \in Trees, NEW S, S \subseteq DOMAIN w
  PROVE  /\ Wanted(Directories(w)) = Directories(w)
         /\ Above(S) \subseteq Directories(w)
  <1>1. ASSUME NEW p \in DOMAIN w, NEW q \in Paths, IsPrefix(q, p), q # p
        PROVE  q \in Directories(w)
    BY <1>1, TreeIs, AncestorsArePrefixes DEF Directories
  <1>2. Directories(w) \subseteq Paths /\ S \subseteq Paths
    BY TreeIs DEF Directories
  <1>3. Wanted(Directories(w)) = {p \in Paths : \E d \in Directories(w) : IsPrefix(p, d)}
        /\ Directories(w) \subseteq Wanted(Directories(w))
    BY <1>2, WantedAre
  <1>4. ASSUME NEW p \in Wanted(Directories(w)) PROVE p \in Directories(w)
    <2>1. PICK d \in Directories(w) : p \in Paths /\ IsPrefix(p, d)
      BY <1>3
    <2>. QED
      BY <1>1, <2>1, FilesAndDirectories
  <1>5. Above(S) = {p \in Paths : \E q \in S : IsPrefix(p, q) /\ p # q}
    BY <1>2, AboveAre
  <1>. QED
    BY <1>1, <1>3, <1>4, <1>5

\* Files of one tree do not lie below one another.
LEMMA FilesAreApart ==
  ASSUME NEW w \in Trees, NEW new, DOMAIN new \subseteq Files(w)
  PROVE  Apart(new)
  BY FilesAreLeaves, FilesAndDirectories DEF Apart

\* What reconciliation gives: the directories of the manifest, none but its files,
\* and those of its files that were pulled or were right before.
IsSynced(u, m, w, pulled) ==
  /\ u \in Trees
  /\ Directories(u) = Directories(w)
  /\ Files(u) \subseteq Files(w)
  /\ \A p \in Files(w) : p \in DOMAIN pulled \/ (p \in Files(m) /\ m[p] = w[p])
                           => p \in Files(u) /\ u[p] = w[p]

\* applySync with a manifest does what IsSynced says, for any mirror.
LEMMA Synced ==
  ASSUME NEW m \in Trees, NEW w \in Trees, NEW pulled, PulledFrom(pulled, w)
  PROVE  IsSynced(applySyncManifest(m, Directories(w), pulled, FileHashes(w)), m, w, pulled)
  <1> DEFINE dirs == Directories(w)
             placed == Placed(m, dirs, pulled)
             unwanted == Files(placed) \ DOMAIN FileHashes(w)
             u == applySyncManifest(m, dirs, pulled, FileHashes(w))
  <1>1. pulled \in FileMaps /\ Apart(pulled) /\ dirs \subseteq Paths /\ DOMAIN pulled \subseteq Files(w)
    BY FilesAreApart, FilesAndDirectories DEF PulledFrom
  <1>2. Wanted(dirs) \cup Above(DOMAIN pulled) = dirs
    <2>1. DOMAIN pulled \subseteq DOMAIN w
      BY <1>1, FilesAndDirectories
    <2>. QED
      BY <2>1, DirectoriesAreClosed
  <1>3. IsPlaced(placed, m, dirs, pulled)
    <2>1. IsPlaced(placed, m, Wanted(dirs) \cup Above(DOMAIN pulled), pulled)
      BY <1>1, PlacedIsTree
    <2>. QED
      BY <1>2, <2>1
  <1> HIDE DEF placed
  <1>4. placed \in Trees
    BY <1>3 DEF IsPlaced
  <1>5. \A p \in unwanted : p \in Files(placed) /\ p \notin Files(w) /\ p \in Paths
    BY <1>4, FileHashesAreFiles, FilesAndDirectories
  <1>6. \A p \in Files(placed) : p \in Files(w) \/ p \in unwanted
    BY FileHashesAreFiles
  <1>7. IsPruned(u, placed, dirs, unwanted)
    <2>1. unwanted \subseteq Paths
      BY <1>5
    <2>2. u = Pruned(placed, dirs, unwanted)
      BY DEF applySyncManifest, placed
    <2>. QED
      BY <1>4, <2>1, <2>2, PrunedIsTree
  <1> HIDE DEF u, unwanted, dirs
  <1>8. /\ \A p \in DOMAIN w : p \in Paths /\ (p \in dirs \/ p \in Files(w))
        /\ \A p \in dirs : p \in DOMAIN w /\ w[p] = DIR /\ p \notin Files(w)
        /\ \A p \in Files(w) : p \in DOMAIN w /\ w[p] \in Contents
    BY FilesAndDirectories DEF dirs
  <1>9. u \in Trees
    BY <1>7 DEF IsPruned
  \* Whatever of w is placed right is not pruned.
  <1>10. ASSUME NEW p \in DOMAIN w, p \in DOMAIN placed, placed[p] = w[p]
         PROVE  p \in DOMAIN u /\ u[p] = w[p]
    <2>1. p \in Paths
      BY <1>8
    <2>2. ASSUME NEW r \in unwanted, IsPrefix(r, p) PROVE FALSE
      <3>1. r = p
        BY <1>4, <1>5, <1>10, <2>2, FilesAreLeaves
      <3>2. p \in dirs
        BY <1>5, <1>8, <3>1
      <3>3. placed[p] \in Contents
        BY <1>4, <1>5, <3>1, FilesAndDirectories
      <3>. QED
        BY <1>8, <1>10, <3>2, <3>3, NodesAssumption
    <2>3. ASSUME NEW r \in DOMAIN placed \ dirs, placed[r] = DIR, IsPrefix(r, p) PROVE FALSE
      <3>1. CASE r = p
        BY <1>8, <1>10, <2>3, <3>1, NodesAssumption
      <3>2. CASE r # p
        <4>1. r \in Paths /\ r \in Ancestors(p)
          BY <1>4, <2>1, <2>3, <3>2, TreeIs, AncestorsArePrefixes
        <4>2. r \in DOMAIN w /\ w[r] = DIR
          BY <4>1, TreeIs
        <4>. QED
          BY <2>3, <4>2 DEF dirs, Directories
      <3>. QED
        BY <3>1, <3>2
    <2>4. p \in DOMAIN u
      BY <1>7, <1>10, <2>2, <2>3 DEF IsPruned
    <2>. QED
      BY <1>7, <1>10, <2>4 DEF IsPruned
  \* Nothing of w lies below a pulled file but that file.
  <1>11. ASSUME NEW p \in DOMAIN w, NEW r \in DOMAIN pulled, IsPrefix(r, p) PROVE r = p
    BY <1>1, <1>11, FilesAreLeaves
  <1>12. ASSUME NEW p \in dirs PROVE p \in DOMAIN placed /\ placed[p] = w[p]
    <2>1. p \notin DOMAIN pulled
      BY <1>1, <1>8, <1>12
    <2>2. p \in DOMAIN placed
      BY <1>3, <1>8, <1>11, <1>12, <2>1 DEF IsPlaced
    <2>. QED
      BY <1>3, <1>8, <1>12, <2>1, <2>2 DEF IsPlaced
  <1>13. ASSUME NEW p \in Files(w), p \in DOMAIN pulled \/ (p \in Files(m) /\ m[p] = w[p])
         PROVE  p \in DOMAIN placed /\ placed[p] = w[p]
    <2>1. p \in DOMAIN w /\ p \notin dirs
      BY <1>8
    <2>2. CASE p \in DOMAIN pulled
      BY <1>3, <2>2 DEF IsPlaced, PulledFrom
    <2>3. CASE p \notin DOMAIN pulled
      <3>1. p \in DOMAIN m /\ m[p] = w[p]
        BY <1>13, <2>3, FilesAndDirectories
      <3>2. p \in DOMAIN placed
        BY <1>3, <1>11, <2>1, <2>3, <3>1 DEF IsPlaced
      <3>. QED
        BY <1>3, <2>1, <2>3, <3>1, <3>2 DEF IsPlaced
    <2>. QED
      BY <2>2, <2>3
  <1>14. Directories(u) = dirs
    <2>1. ASSUME NEW p \in dirs PROVE p \in Directories(u)
      BY <1>8, <1>10, <1>12, <2>1 DEF Directories
    <2>2. ASSUME NEW p \in Directories(u) PROVE p \in dirs
      BY <1>7, <2>2 DEF Directories, IsPruned
    <2>. QED
      BY <2>1, <2>2
  <1>15. ASSUME NEW p \in Files(u) PROVE p \in Files(w)
    <2>1. p \in DOMAIN u /\ u[p] \in Contents
      BY <1>9, <1>15, FilesAndDirectories
    <2>2. p \in DOMAIN placed /\ placed[p] = u[p] /\ p \in Paths
          /\ \A r \in unwanted : ~IsPrefix(r, p)
      BY <1>7, <1>9, <2>1, TreeIs DEF IsPruned
    <2>3. p \in Files(placed)
      BY <2>1, <2>2, NodesAssumption DEF Files, Directories
    <2>. QED
      BY <1>6, <2>2, <2>3, PrefixReflexive
  <1>16. ASSUME NEW p \in Files(w), p \in DOMAIN pulled \/ (p \in Files(m) /\ m[p] = w[p])
         PROVE  p \in Files(u) /\ u[p] = w[p]
    <2>1. p \in DOMAIN u /\ u[p] = w[p] /\ w[p] \in Contents
      BY <1>8, <1>10, <1>13, <1>16
    <2>. QED
      BY <2>1, NodesAssumption DEF Files, Directories
  <1>17. Files(u) \subseteq Files(w)
    BY <1>15
  <1>18. \A p \in Files(w) : p \in DOMAIN pulled \/ (p \in Files(m) /\ m[p] = w[p])
                               => p \in Files(u) /\ u[p] = w[p]
    BY <1>16
  <1>. QED
    BY <1>9, <1>14, <1>17, <1>18 DEF IsSynced, u, dirs

\* A mirror from which no file of the manifest is missing is the sandbox's tree.
LEMMA NothingMissingIsEqual ==
  ASSUME NEW u \in Trees, NEW w \in Trees, Directories(u) = Directories(w),
         Files(u) \subseteq Files(w), missing(u, FileHashes(w)) = {}
  PROVE  u = w
  <1>1. \A p \in Files(w) : p \in Files(u) /\ u[p] = w[p]
    BY FileHashesAreFiles DEF missing
  <1>2. DOMAIN u = DOMAIN w /\ \A p \in DOMAIN u : u[p] = w[p]
    BY <1>1, FilesAndDirectories
  <1>. QED
    BY <1>2, TreeIs, RowsEqual

\* What is missing after a round is what was not pulled.
LEMMA PullingAllIsEnough ==
  ASSUME NEW u \in Trees, NEW m \in Trees, NEW w \in Trees, NEW pulled,
         IsSynced(u, m, w, pulled), missing(m, FileHashes(w)) \subseteq DOMAIN pulled
  PROVE  missing(u, FileHashes(w)) = {}
  <1>1. ASSUME NEW p \in Files(w) PROVE p \in Files(u) /\ u[p] = w[p]
    <2>1. p \in DOMAIN pulled \/ (p \in Files(m) /\ m[p] = w[p])
      BY FileHashesAreFiles DEF missing
    <2>. QED
      BY <2>1 DEF IsSynced
  <1>. QED
    BY <1>1, FileHashesAreFiles DEF missing

(***************************************************************************)
(* What the sandbox makes of a response, and what the diffs make of the    *)
(* files table.                                                            *)
(***************************************************************************)
\* A response with any directories, files and deletions leaves a tree, and no file
\* that is neither in the response nor a file already.
IsApplied(u, t, new) ==
  /\ u \in Trees
  /\ \A p \in Files(u) : p \in DOMAIN new \/ p \in Files(t)

\* applySync with a list of deletions leaves a tree, for any response.
LEMMA AppliedIsTree ==
  ASSUME NEW t \in Trees, NEW dirs, dirs \subseteq Paths, NEW new \in FileMaps, Apart(new),
         NEW deleted, deleted \subseteq Paths
  PROVE  IsApplied(applySyncDeleted(t, dirs, new, deleted), t, new)
  <1> DEFINE placed == Placed(t, dirs, new)
             u == applySyncDeleted(t, dirs, new, deleted)
             made == Wanted(dirs) \cup Above(DOMAIN new)
  <1>1. IsPlaced(placed, t, made, new)
    BY PlacedIsTree
  <1>2. placed \in Trees
    BY <1>1 DEF IsPlaced
  <1>3. u = Pruned(placed, dirs, deleted)
    BY DEF applySyncDeleted
  <1>4. IsPruned(u, placed, dirs, deleted)
    BY <1>2, <1>3, PrunedIsTree
  <1> HIDE DEF u, placed, made
  <1>5. u \in Trees
    BY <1>4 DEF IsPruned
  <1>6. ASSUME NEW p \in Files(u) PROVE p \in DOMAIN new \/ p \in Files(t)
    <2>1. p \in DOMAIN u /\ u[p] \in Contents
      BY <1>5, FilesAndDirectories
    <2>2. p \in DOMAIN placed /\ placed[p] = u[p]
      BY <1>4, <2>1 DEF IsPruned
    <2>3. CASE p \notin DOMAIN new
      <3>1. p \notin made
        BY <1>1, <2>1, <2>2, <2>3, NodesAssumption DEF IsPlaced
      <3>2. p \in DOMAIN t /\ placed[p] = t[p]
        BY <1>1, <2>2, <2>3, <3>1 DEF IsPlaced
      <3>. QED
        BY <2>1, <2>2, <3>2, NodesAssumption DEF Files, Directories
    <2>. QED
      BY <2>3
  <1>. QED
    BY <1>5, <1>6 DEF IsApplied, u

\* What a response is made of.
LEMMA ResponseIs ==
  ASSUME NEW w \in Trees, NEW after \in Trees
  PROVE  LET r == Response(w, after)
         IN  /\ r \in Responses
             /\ r.dirs = Directories(after)
             /\ DOMAIN r.files \subseteq Files(after)
             /\ \A p \in DOMAIN r.files : r.files[p] = after[p]
             /\ \A p \in Files(after) : p \in DOMAIN r.files \/ (p \in Files(w) /\ w[p] = after[p])
             /\ \A p \in Files(w) : p \in Files(after) \/ p \in r.deleted
             /\ \A p \in r.deleted : p \in Files(w) /\ p \notin Files(after)
  <1> DEFINE r == Response(w, after)
             changed == ChangedFiles(after, FileHashes(w))
             new == [p \in changed |-> after[p]]
  <1>1. /\ r = [dirs |-> Directories(after), files |-> new,
                deleted |-> DeletedFiles(after, FileHashes(w))]
        /\ r.dirs = Directories(after) /\ r.files = new
        /\ r.deleted = DeletedFiles(after, FileHashes(w))
    BY DEF Response
  <1>2. /\ \A p \in changed : p \in Files(after)
        /\ \A p \in Files(after) : p \in changed \/ (p \in Files(w) /\ w[p] = after[p])
    BY FileHashesAreFiles DEF ChangedFiles
  <1>3. DeletedFiles(after, FileHashes(w)) = Files(w) \ Files(after)
    BY FileHashesAreFiles DEF DeletedFiles
  <1> HIDE DEF changed
  <1>4. DOMAIN new = changed /\ \A p \in changed : new[p] = after[p]
    OBVIOUS
  <1>5. new \in FileMaps
    <2>1. \A p \in changed : p \in Paths /\ after[p] \in Contents
      BY <1>2, FilesAndDirectories
    <2>2. new \in [changed -> Contents] /\ changed \in SUBSET Paths
      BY <2>1
    <2> HIDE DEF new
    <2>. QED
      BY <2>2 DEF FileMaps
  <1>6. Directories(after) \subseteq Paths /\ Files(w) \subseteq Paths
    BY FilesAndDirectories
  <1> HIDE DEF new
  <1>7. r \in Responses
    BY <1>1, <1>3, <1>5, <1>6 DEF Responses
  <1> HIDE DEF r
  <1>8. /\ r \in Responses
        /\ r.dirs = Directories(after)
        /\ DOMAIN r.files \subseteq Files(after)
        /\ \A p \in DOMAIN r.files : r.files[p] = after[p]
        /\ \A p \in Files(after) : p \in DOMAIN r.files \/ (p \in Files(w) /\ w[p] = after[p])
        /\ \A p \in Files(w) : p \in Files(after) \/ p \in r.deleted
        /\ \A p \in r.deleted : p \in Files(w) /\ p \notin Files(after)
    BY <1>1, <1>2, <1>3, <1>4, <1>7
  <1>. QED
    BY <1>8 DEF r

\* Unless the run made a directory of a file, the sandbox arrives at the guest's tree.
LEMMA Delivered ==
  ASSUME NEW w \in Trees, NEW after \in Trees,
         \A p \in DOMAIN w \cap DOMAIN after : w[p] # DIR => after[p] # DIR
  PROVE  LET r == Response(w, after)
         IN  applySyncDeleted(w, r.dirs, r.files, r.deleted) = after
  <1> DEFINE r == Response(w, after)
  <1> DEFINE dirs == Directories(after)
             placed == Placed(w, dirs, r.files)
             u == applySyncDeleted(w, r.dirs, r.files, r.deleted)
  <1>1. /\ r \in Responses
        /\ r.dirs = dirs
        /\ DOMAIN r.files \subseteq Files(after)
        /\ \A p \in DOMAIN r.files : r.files[p] = after[p]
        /\ \A p \in Files(after) : p \in DOMAIN r.files \/ (p \in Files(w) /\ w[p] = after[p])
        /\ \A p \in Files(w) : p \in Files(after) \/ p \in r.deleted
        /\ \A p \in r.deleted : p \in Files(w) /\ p \notin Files(after)
    BY ResponseIs
  <1> HIDE DEF r
  <1>2. /\ \A p \in DOMAIN after : p \in Paths /\ (p \in dirs \/ p \in Files(after))
        /\ \A p \in dirs : p \in DOMAIN after /\ after[p] = DIR /\ p \notin Files(after) /\ p \in Paths
        /\ \A p \in Files(after) : p \in DOMAIN after /\ after[p] \in Contents
        /\ \A p \in Files(w) : p \in DOMAIN w /\ w[p] \in Contents /\ p \in Paths
    BY FilesAndDirectories
  <1>3. r.files \in FileMaps /\ r.deleted \subseteq Paths /\ dirs \subseteq Paths
    BY <1>1, <1>2 DEF Responses
  <1>4. Apart(r.files)
    BY <1>1, FilesAreApart
  <1>5. Wanted(dirs) \cup Above(DOMAIN r.files) = dirs
    <2>1. DOMAIN r.files \subseteq DOMAIN after
      BY <1>1, <1>2
    <2>. QED
      BY <2>1, DirectoriesAreClosed
  <1>6. IsPlaced(placed, w, dirs, r.files)
    <2>1. IsPlaced(placed, w, Wanted(dirs) \cup Above(DOMAIN r.files), r.files)
      BY <1>3, <1>4, PlacedIsTree
    <2>. QED
      BY <1>5, <2>1
  <1>7. placed \in Trees
    BY <1>6 DEF IsPlaced
  <1>8. u = Pruned(placed, dirs, r.deleted)
    BY <1>1 DEF applySyncDeleted
  <1>9. IsPruned(u, placed, dirs, r.deleted)
    BY <1>3, <1>7, <1>8, PrunedIsTree
  <1> HIDE DEF u, placed, dirs
  <1>10. u \in Trees
    BY <1>9 DEF IsPruned
  <1>11. ASSUME NEW p \in DOMAIN after PROVE p \in DOMAIN placed /\ placed[p] = after[p]
    <2>1. \A s \in DOMAIN r.files : IsPrefix(s, p) => s = p
      BY <1>1, FilesAreLeaves
    <2>2. CASE p \in DOMAIN r.files
      BY <1>1, <1>6, <2>2 DEF IsPlaced
    <2>3. CASE p \notin DOMAIN r.files /\ p \in dirs
      BY <1>2, <1>6, <2>1, <2>3 DEF IsPlaced
    <2>4. CASE p \notin DOMAIN r.files /\ p \notin dirs
      <3>1. p \in DOMAIN w /\ w[p] = after[p]
        BY <1>1, <1>2, <2>4
      <3>. QED
        BY <1>6, <2>1, <2>4, <3>1 DEF IsPlaced
    <2>. QED
      BY <2>2, <2>3, <2>4
  <1>12. ASSUME NEW p \in DOMAIN after, NEW s \in Paths, IsPrefix(s, p), s # p
         PROVE  s \in DOMAIN after /\ after[s] = DIR
    <2>1. s \in Ancestors(p)
      BY <1>2, <1>12, AncestorsArePrefixes
    <2>. QED
      BY <2>1, TreeIs
  <1>13. ASSUME NEW p \in DOMAIN after PROVE p \in DOMAIN u
    <2>1. ASSUME NEW s \in r.deleted, IsPrefix(s, p) PROVE FALSE
      <3>1. s \in DOMAIN w /\ w[s] # DIR /\ s \in Paths /\ s \notin Files(after)
        BY <1>1, <1>2, NodesAssumption
      <3>2. s \in DOMAIN after /\ after[s] = DIR
        <4>1. CASE s = p
          BY <1>2, <3>1, <4>1
        <4>2. CASE s # p
          BY <1>12, <2>1, <3>1, <4>2
        <4>. QED
          BY <4>1, <4>2
      <3>. QED
        BY <3>1, <3>2
    <2>2. ASSUME NEW s \in DOMAIN placed \ dirs, placed[s] = DIR, IsPrefix(s, p) PROVE FALSE
      <3>1. s \in DOMAIN after /\ after[s] = DIR
        <4>1. s \in Paths
          BY <1>7, TreeIs
        <4>2. CASE s = p
          BY <1>11, <2>2, <4>2
        <4>3. CASE s # p
          BY <1>12, <2>2, <4>1, <4>3
        <4>. QED
          BY <4>2, <4>3
      <3>. QED
        BY <2>2, <3>1 DEF dirs, Directories
    <2>. QED
      BY <1>9, <1>11, <2>1, <2>2 DEF IsPruned
  <1>14. ASSUME NEW p \in DOMAIN u PROVE p \in DOMAIN after /\ u[p] = after[p]
    <2>1. /\ p \in DOMAIN placed /\ u[p] = placed[p]
          /\ \A s \in r.deleted : ~IsPrefix(s, p)
          /\ placed[p] = DIR => p \in dirs
          /\ p \in Paths
      BY <1>9, <1>10, TreeIs DEF IsPruned
    <2>2. p \notin r.deleted
      BY <2>1, PrefixReflexive
    <2>3. CASE p \in DOMAIN r.files \/ p \in dirs
      BY <1>1, <1>2, <1>11, <2>1, <2>3
    <2>4. CASE p \notin DOMAIN r.files /\ p \notin dirs
      <3>1. p \in DOMAIN w /\ placed[p] = w[p] /\ w[p] # DIR
        BY <1>6, <2>1, <2>4 DEF IsPlaced
      <3>2. p \in Files(w)
        BY <3>1 DEF Files, Directories
      <3>3. p \in Files(after)
        BY <1>1, <2>2, <3>2
      <3>. QED
        BY <1>2, <1>11, <2>1, <3>3
    <2>. QED
      BY <2>3, <2>4
  <1>15. DOMAIN u = DOMAIN after /\ \A p \in DOMAIN u : u[p] = after[p]
    BY <1>13, <1>14
  <1>16. u = after
    BY <1>10, <1>15, TreeIs, RowsEqual
  <1>. QED
    BY <1>16 DEF u, r

\* An upsert and a deletion of rows.
LEMMA UpsertIs ==
  ASSUME NEW rows \in Rows, NEW new \in Rows
  PROVE  /\ UpsertRows(rows, new) \in Rows
         /\ DOMAIN UpsertRows(rows, new) = DOMAIN new \cup DOMAIN rows
         /\ \A p \in DOMAIN UpsertRows(rows, new) :
              UpsertRows(rows, new)[p] = IF p \in DOMAIN new THEN new[p] ELSE rows[p]
  <1> DEFINE u == UpsertRows(rows, new)
             S == DOMAIN new \cup DOMAIN rows
  <1>1. /\ u = [p \in S |-> IF p \in DOMAIN new THEN new[p] ELSE rows[p]]
        /\ DOMAIN u = S
        /\ \A p \in S : u[p] = IF p \in DOMAIN new THEN new[p] ELSE rows[p]
    BY DEF UpsertRows, Override
  <1>2. u = [p \in S |-> u[p]]
    BY <1>1
  <1> HIDE DEF u
  <1>3. S \subseteq Paths /\ \A p \in S : u[p] \in Nodes
    BY <1>1, RowsAre
  <1>4. u \in Rows
    BY <1>2, <1>3, MakesRows
  <1>. QED
    BY <1>1, <1>4 DEF u

\* A deletion of rows.
LEMMA DeletionIs ==
  ASSUME NEW rows \in Rows, NEW gone
  PROVE  /\ DeleteRows(rows, gone) \in Rows
         /\ DOMAIN DeleteRows(rows, gone) = DOMAIN rows \ gone
         /\ \A p \in DOMAIN DeleteRows(rows, gone) : DeleteRows(rows, gone)[p] = rows[p]
  <1> DEFINE u == DeleteRows(rows, gone)
             S == DOMAIN rows \cap (Paths \ gone)
  <1>1. u = [p \in S |-> rows[p]] /\ DOMAIN u = S /\ \A p \in S : u[p] = rows[p]
    BY DEF DeleteRows, Restricted
  <1>2. u = [p \in S |-> u[p]]
    BY <1>1
  <1> HIDE DEF u
  <1>3. S \subseteq Paths /\ \A p \in S : u[p] \in Nodes
    BY <1>1, RowsAre
  <1>4. u \in Rows
    BY <1>2, <1>3, MakesRows
  <1>5. S = DOMAIN rows \ gone
    BY RowsAre
  <1>. QED
    BY <1>1, <1>4, <1>5 DEF u

\* The transaction leaves rows, whatever the diffing state says, and when that
\* describes the table and no file has come where it has a directory, the tree.
LEMMA PersistedIsRows ==
  ASSUME NEW t \in Trees, files \in Rows
  PROVE  /\ PersistedRows(t) \in Rows
         /\ \A p \in DOMAIN PersistedRows(t) :
              \/ p \in Directories(t) \ persistedDirs /\ PersistedRows(t)[p] = DIR
              \/ /\ p \notin persistedDirs \ Directories(t)
                 /\ p \notin Directories(t) \ persistedDirs
                 /\ p \in ChangedFiles(t, changesSince) /\ PersistedRows(t)[p] = t[p]
              \/ /\ p \notin persistedDirs \ Directories(t)
                 /\ p \notin Directories(t) \ persistedDirs
                 /\ p \notin ChangedFiles(t, changesSince)
                 /\ p \notin DeletedFiles(t, changesSince)
                 /\ p \in DOMAIN files /\ PersistedRows(t)[p] = files[p]
         /\ Directories(t) \ persistedDirs \subseteq DOMAIN PersistedRows(t)
         /\ \A p \in ChangedFiles(t, changesSince) \cup
                     (DOMAIN files \ DeletedFiles(t, changesSince)) :
              p \in DOMAIN PersistedRows(t) \/ p \in persistedDirs \ Directories(t)
  <1> DEFINE changed == ChangedFiles(t, changesSince)
             gone    == DeletedFiles(t, changesSince)
             added   == Directories(t) \ persistedDirs
             removed == persistedDirs \ Directories(t)
             written == [p \in changed |-> t[p]]
             made    == [p \in added |-> DIR]
             rows1   == DeleteRows(files, gone)
             rows2   == UpsertRows(rows1, written)
             rows3   == DeleteRows(rows2, removed)
             rows4   == UpsertRows(rows3, made)
  <1>1. PersistedRows(t) = rows4
    BY DEF PersistedRows
  <1>2. \A p \in changed : p \in Files(t)
    BY DEF ChangedFiles
  <1>3. \A p \in added : p \in Directories(t)
    OBVIOUS
  <1> HIDE DEF changed, gone, added, removed
  <1>4. written \in Rows /\ DOMAIN written = changed /\ \A p \in changed : written[p] = t[p]
    <2>1. written = [p \in changed |-> written[p]] /\ \A p \in changed : written[p] = t[p]
      OBVIOUS
    <2>2. changed \subseteq Paths /\ \A p \in changed : t[p] \in Nodes
      BY <1>2, FilesAndDirectories, TreeIs
    <2> HIDE DEF written
    <2>3. written \in Rows
      BY <2>1, <2>2, MakesRows
    <2>. QED
      BY <2>1, <2>3
  <1>5. made \in Rows /\ DOMAIN made = added /\ \A p \in added : made[p] = DIR
    <2>1. made = [p \in added |-> made[p]] /\ \A p \in added : made[p] = DIR
      OBVIOUS
    <2>2. added \subseteq Paths /\ DIR \in Nodes
      BY <1>3, FilesAndDirectories DEF Nodes
    <2> HIDE DEF made
    <2>3. made \in Rows
      BY <2>1, <2>2, MakesRows
    <2>. QED
      BY <2>1, <2>3
  <1> HIDE DEF written, made
  <1>6. rows1 \in Rows /\ DOMAIN rows1 = DOMAIN files \ gone
        /\ \A p \in DOMAIN rows1 : rows1[p] = files[p]
    BY DeletionIs
  <1> HIDE DEF rows1
  <1>7. rows2 \in Rows /\ DOMAIN rows2 = DOMAIN written \cup DOMAIN rows1
        /\ \A p \in DOMAIN rows2 :
             rows2[p] = IF p \in DOMAIN written THEN written[p] ELSE rows1[p]
    BY <1>4, <1>6, UpsertIs
  <1> HIDE DEF rows2
  <1>8. rows3 \in Rows /\ DOMAIN rows3 = DOMAIN rows2 \ removed
        /\ \A p \in DOMAIN rows3 : rows3[p] = rows2[p]
    BY <1>7, DeletionIs
  <1> HIDE DEF rows3
  <1>9. /\ rows4 \in Rows
        /\ DOMAIN rows4 = DOMAIN made \cup DOMAIN rows3
        /\ \A p \in DOMAIN rows4 : rows4[p] = IF p \in DOMAIN made THEN made[p] ELSE rows3[p]
    <2>1. made \in Rows /\ rows3 \in Rows
      BY <1>5, <1>8
    <2>. QED
      BY ONLY <2>1, UpsertIs
  <1> HIDE DEF rows4
  <1>10. /\ \A p \in DOMAIN rows4 :
              \/ p \in added /\ rows4[p] = DIR
              \/ p \notin removed /\ p \notin added /\ p \in changed /\ rows4[p] = t[p]
              \/ /\ p \notin removed /\ p \notin added /\ p \notin changed /\ p \notin gone
                 /\ p \in DOMAIN files /\ rows4[p] = files[p]
         /\ added \subseteq DOMAIN rows4
         /\ \A p \in changed \cup (DOMAIN files \ gone) : p \in DOMAIN rows4 \/ p \in removed
    BY <1>4, <1>5, <1>6, <1>7, <1>8, <1>9
  <1>. QED
    BY <1>1, <1>9, <1>10 DEF added, removed, changed, gone

\* The transaction leaves exactly the tree, if the diffing state described the table.
LEMMA PersistedIsTheTree ==
  ASSUME NEW t \in Trees, files \in Trees, DiffingStateIsStored,
         Files(t) \cap persistedDirs = {}
  PROVE  PersistedRows(t) = t
  <1> DEFINE rows == PersistedRows(t)
  <1>1. /\ changesSince = FileHashes(files) /\ persistedDirs = Directories(files)
        /\ Files(t) \cap Directories(files) = {}
    BY DEF DiffingStateIsStored
  <1>2. files \in Rows /\ t \in Rows
    BY TreeIs
  <1>3. /\ \A p \in ChangedFiles(t, changesSince) : p \in Files(t)
        /\ \A p \in Files(t) :
             p \in ChangedFiles(t, changesSince) \/ (p \in Files(files) /\ files[p] = t[p])
        /\ DeletedFiles(t, changesSince) = Files(files) \ Files(t)
    BY <1>1, FileHashesAreFiles DEF ChangedFiles, DeletedFiles
  <1>4. /\ \A p \in DOMAIN t : p \in Directories(t) \/ p \in Files(t)
        /\ \A p \in Directories(t) : p \in DOMAIN t /\ t[p] = DIR
        /\ \A p \in Files(t) : p \in DOMAIN t /\ p \notin Directories(t)
        /\ \A p \in DOMAIN files : p \in Directories(files) \/ p \in Files(files)
        /\ \A p \in Directories(files) : p \in DOMAIN files /\ files[p] = DIR
        /\ \A p \in Files(files) : p \in DOMAIN files /\ p \notin Directories(files)
    BY FilesAndDirectories
  <1>5. /\ rows \in Rows
        /\ \A p \in DOMAIN rows :
             \/ p \in Directories(t) \ Directories(files) /\ rows[p] = DIR
             \/ /\ p \notin Directories(files) \ Directories(t)
                /\ p \notin Directories(t) \ Directories(files)
                /\ p \in ChangedFiles(t, changesSince) /\ rows[p] = t[p]
             \/ /\ p \notin Directories(files) \ Directories(t)
                /\ p \notin Directories(t) \ Directories(files)
                /\ p \notin ChangedFiles(t, changesSince)
                /\ p \notin Files(files) \ Files(t)
                /\ p \in DOMAIN files /\ rows[p] = files[p]
        /\ Directories(t) \ Directories(files) \subseteq DOMAIN rows
        /\ \A p \in ChangedFiles(t, changesSince) \cup (DOMAIN files \ (Files(files) \ Files(t))) :
             p \in DOMAIN rows \/ p \in Directories(files) \ Directories(t)
    BY <1>1, <1>2, <1>3, PersistedIsRows
  <1> HIDE DEF rows
  <1>6. ASSUME NEW p \in DOMAIN rows PROVE p \in DOMAIN t /\ rows[p] = t[p]
    BY <1>3, <1>4, <1>5
  <1>7. ASSUME NEW p \in DOMAIN t PROVE p \in DOMAIN rows
    <2>1. CASE p \in Directories(t)
      BY <1>4, <1>5, <2>1
    <2>2. CASE p \in Files(t)
      <3>1. p \notin Directories(files) \ Directories(t)
        BY <1>1, <2>2
      <3>. QED
        BY <1>3, <1>4, <1>5, <2>2, <3>1
    <2>. QED
      BY <1>4, <2>1, <2>2
  <1>8. DOMAIN rows = DOMAIN t /\ \A p \in DOMAIN rows : rows[p] = t[p]
    BY <1>6, <1>7
  <1>9. rows = t
    BY <1>2, <1>5, <1>8, RowsEqual
  <1>. QED
    BY <1>9 DEF rows

\* The rows of a tree load as that tree, and rows without one below a file's as a tree.
LEMMA LoadedIsTree ==
  ASSUME NEW rows \in Rows, Loads(rows)
  PROVE  load(rows) \in Trees
  <1> DEFINE S == DOMAIN rows \cup UNION {Ancestors(q) : q \in DOMAIN rows}
             u == load(rows)
  <1>1. u = [p \in S |-> IF p \in DOMAIN rows THEN rows[p] ELSE DIR]
    BY DEF load
  <1>2. /\ DOMAIN u = S
        /\ \A p \in S : u[p] = IF p \in DOMAIN rows THEN rows[p] ELSE DIR
        /\ u = [p \in S |-> u[p]]
    BY <1>1
  <1> HIDE DEF u
  <1>3. \A p \in DOMAIN rows : p \in Paths /\ rows[p] \in Nodes
    BY RowsAre
  <1>4. \A p \in S : p \in DOMAIN rows \/ \E q \in DOMAIN rows : p \in Ancestors(q)
    OBVIOUS
  <1>5. \A q \in DOMAIN rows : \A p \in Ancestors(q) : p \in S
    OBVIOUS
  <1> HIDE DEF S
  <1>6. \A p \in S : p \in Paths
    BY <1>3, <1>4, AncestorsArePrefixes
  <1>7. u \in Rows
    <2>1. \A p \in S : u[p] \in Nodes
      BY <1>2, <1>3 DEF Nodes
    <2>. QED
      BY <1>2, <1>6, <2>1, MakesRows
  <1>8. ASSUME NEW q \in DOMAIN rows, NEW p \in Ancestors(q) PROVE p \in S /\ u[p] = DIR
    BY <1>2, <1>5 DEF Loads
  <1>9. ASSUME NEW p \in S, NEW r \in Ancestors(p) PROVE r \in S /\ u[r] = DIR
    <2>1. CASE p \in DOMAIN rows
      BY <1>8, <2>1
    <2>2. CASE \E q \in DOMAIN rows : p \in Ancestors(q)
      <3>1. PICK q \in DOMAIN rows : p \in Ancestors(q)
        BY <2>2
      <3>2. p \in Paths /\ q \in Paths /\ r \in Paths /\ IsPrefix(r, p) /\ r # p /\ IsPrefix(p, q)
        BY <1>3, <1>6, <3>1, AncestorsArePrefixes
      <3>3. IsPrefix(r, q) /\ r # q
        BY <3>2, PrefixTransitive, PrefixAntisymmetric
      <3>4. r \in Ancestors(q)
        BY <3>2, <3>3, AncestorsArePrefixes
      <3>. QED
        BY <1>8, <3>1, <3>4
    <2>. QED
      BY <1>4, <2>1, <2>2
  <1>10. u \in Trees
    BY <1>2, <1>7, <1>9, IsTree
  <1>. QED
    BY <1>10 DEF u

\* A stored tree loads as that tree.
LEMMA TreeLoadsAsItself ==
  ASSUME NEW t \in Trees
  PROVE  Loads(t) /\ load(t) = t
  <1>1. \A p \in DOMAIN t : \A q \in Ancestors(p) : q \in DOMAIN t /\ t[q] = DIR
    BY TreeIs
  <1>2. DOMAIN t \cup UNION {Ancestors(q) : q \in DOMAIN t} = DOMAIN t
    BY <1>1
  <1>3. load(t) = [p \in DOMAIN t |-> IF p \in DOMAIN t THEN t[p] ELSE DIR]
    BY <1>2 DEF load
  <1>4. load(t) = [p \in DOMAIN t |-> t[p]]
    BY <1>3
  <1>5. t = [p \in DOMAIN t |-> t[p]]
    BY TreeIs, RowsAre
  <1>. QED
    BY <1>1, <1>4, <1>5 DEF Loads

--------------------------------------------------------------------------------
(***************************************************************************)
(* The inductive invariant: types, with a response whose files do not lie  *)
(* below one another (or applying it would not leave a tree); the          *)
(* workspace the guest is about to see; and, as long as nothing has gone   *)
(* wrong with the table, that it holds the acknowledged tree row by row.   *)
(***************************************************************************)
ResponseIsApart == call # NONE => Apart(call.response.files)
TableIsAcked == intact => files \in Trees /\ files = acked /\ DiffingStateIsStored

IInv == TypeOK /\ ResponseIsApart /\ GuestSeesTheWorkspace /\ TableIsAcked

\* The invariant holds of two new objects.
LEMMA InitHolds == Init => IInv
  <1> SUFFICES ASSUME Init PROVE IInv
    OBVIOUS
  <1>1. EmptyTree \in Trees /\ EmptyTree \in Rows /\ DOMAIN EmptyTree = {}
    BY EmptyTreeIsTree, TreeIs DEF EmptyTree
  <1>2. Files(EmptyTree) = {} /\ Directories(EmptyTree) = {}
    BY <1>1 DEF Files, Directories
  <1>3. FileHashes(EmptyTree) = EmptyTree
    BY <1>2 DEF FileHashes, EmptyTree
  <1>4. EmptyTree \in FileMaps
    BY <1>1, <1>3, FileHashesAreFiles
  <1>5. TypeOK
    BY <1>1, <1>4 DEF Init, TypeOK, Rows, Nodes
  <1>6. ResponseIsApart /\ GuestSeesTheWorkspace
    BY DEF Init, ResponseIsApart, GuestSeesTheWorkspace, InPhase
  <1>7. TableIsAcked
    BY <1>1, <1>2, <1>3 DEF Init, TableIsAcked, DiffingStateIsStored
  <1>. QED
    BY <1>5, <1>6, <1>7 DEF IInv

\* The part of TypeOK that a persist writes.
SandboxTypes ==
  /\ tree \in Trees
  /\ acked \in Trees
  /\ files \in Rows
  /\ changesSince \in FileMaps
  /\ persistedDirs \subseteq Paths
  /\ intact \in BOOLEAN

\* TypeOK in two parts.
LEMMA TypesAre ==
  /\ TypeOK <=> SandboxTypes /\ mirror \in [Interpreters -> Trees] /\ call \in Calls \cup {NONE}
  /\ TypeOK' <=> SandboxTypes' /\ mirror' \in [Interpreters -> Trees] /\ call' \in Calls \cup {NONE}
  BY DEF TypeOK, SandboxTypes, Rows, Nodes

\* A request that persists a tree keeps the types of the sandbox and, if the
\* transaction goes through, the table exact.
LEMMA PersistStep ==
  ASSUME IInv, NEW t \in Trees, Persist(t)
  PROVE  SandboxTypes' /\ TableIsAcked' /\ tree' = t
  <1>1. SandboxTypes
    BY TypesAre DEF IInv
  <1>2. FileHashes(t) \in FileMaps /\ Directories(t) \subseteq Paths
    BY FileHashesAreFiles, FilesAndDirectories
  <1>3. CASE Succeed(t)
    <2>1. /\ tree' = t /\ acked' = t /\ files' = PersistedRows(t)
          /\ changesSince' = FileHashes(t) /\ persistedDirs' = Directories(t)
          /\ intact' = (intact /\ Files(t) \cap persistedDirs = {})
      BY <1>3 DEF Succeed
    <2>2. files' \in Rows
      BY <1>1, <2>1, PersistedIsRows DEF SandboxTypes
    <2>3. SandboxTypes'
      BY <1>2, <2>1, <2>2 DEF SandboxTypes
    <2>4. ASSUME intact' PROVE files' = t
      <3>1. intact /\ Files(t) \cap persistedDirs = {}
        BY <2>1, <2>4
      <3>2. files \in Trees /\ DiffingStateIsStored
        BY <3>1 DEF IInv, TableIsAcked
      <3>. QED
        BY <2>1, <3>1, <3>2, PersistedIsTheTree
    <2>5. TableIsAcked'
      BY <2>1, <2>4 DEF TableIsAcked, DiffingStateIsStored
    <2>. QED
      BY <2>1, <2>3, <2>5
  <1>4. CASE PersistFails(t)
    BY <1>1, <1>2, <1>4 DEF PersistFails, SandboxTypes, TableIsAcked
  <1>. QED
    BY <1>3, <1>4 DEF Persist

\* A request of handleFiles that persists keeps the invariant.
LEMMA FileOperationStep ==
  ASSUME IInv, Idle, NEW t \in Trees, Persist(t), UNCHANGED <<mirror, call>>
  PROVE  IInv'
  <1>1. SandboxTypes' /\ TableIsAcked'
    BY PersistStep
  <1>2. call' = NONE /\ mirror' = mirror
    BY DEF Idle
  <1>3. TypeOK'
    BY <1>1, <1>2, TypesAre DEF IInv
  <1>. QED
    BY <1>1, <1>2, <1>3 DEF IInv, ResponseIsApart, GuestSeesTheWorkspace, InPhase

\* A step of a call or of an interpreter, which leaves the sandbox alone.
LEMMA CallStep ==
  ASSUME IInv, UNCHANGED sandbox, mirror' \in [Interpreters -> Trees],
         call' \in Calls \cup {NONE}, ResponseIsApart', GuestSeesTheWorkspace'
  PROVE  IInv'
  <1>1. SandboxTypes' /\ TableIsAcked'
    BY TypesAre DEF IInv, sandbox, SandboxTypes, TableIsAcked, DiffingStateIsStored
  <1>2. TypeOK'
    BY <1>1, TypesAre
  <1>. QED
    BY <1>1, <1>2 DEF IInv

\* What reconciliation does to the mirror of the interpreter that is called.
LEMMA ReconciledIs ==
  ASSUME TypeOK, NEW i \in Interpreters, NEW pulled, PulledFrom(pulled, tree)
  PROVE  /\ Reconciled(i, pulled) \in Trees
         /\ IsSynced(Reconciled(i, pulled), mirror[i], tree, pulled)
         /\ missing(Reconciled(i, pulled), FileHashes(tree)) = {} => Reconciled(i, pulled) = tree
  <1> DEFINE u == Reconciled(i, pulled)
  <1>1. tree \in Trees /\ mirror[i] \in Trees
    BY DEF TypeOK
  <1>2. IsSynced(u, mirror[i], tree, pulled)
    BY <1>1, Synced DEF Reconciled
  <1>3. u \in Trees /\ Directories(u) = Directories(tree) /\ Files(u) \subseteq Files(tree)
    BY <1>2 DEF IsSynced
  <1> HIDE DEF u
  <1>4. missing(u, FileHashes(tree)) = {} => u = tree
    BY <1>1, <1>3, NothingMissingIsEqual
  <1>. QED
    BY <1>2, <1>3, <1>4 DEF u

\* The first reconciliation has no file contents.
LEMMA NothingPulled == ASSUME NEW w PROVE PulledFrom(EmptyTree, w)
  <1>1. EmptyTree = [p \in DOMAIN EmptyTree |-> EmptyTree[p]] /\ DOMAIN EmptyTree = {}
    BY DEF EmptyTree
  <1>2. EmptyTree \in FileMaps
    BY <1>1, FileMapsAre
  <1>. QED
    BY <1>1, <1>2 DEF PulledFrom

\* getFiles answers with contents of the sandbox's tree.
LEMMA FilesPulled ==
  ASSUME NEW w \in Trees, NEW S
  PROVE  PulledFrom([p \in S \cap Files(w) |-> w[p]], w)
  <1> DEFINE T == S \cap Files(w)
             f == [p \in T |-> w[p]]
  <1>1. DOMAIN f = T /\ (\A p \in T : f[p] = w[p]) /\ f = [p \in DOMAIN f |-> f[p]]
    OBVIOUS
  <1> HIDE DEF f
  <1>2. f \in FileMaps
    BY <1>1, FilesAndDirectories, FileMapsAre
  <1>3. PulledFrom(f, w)
    BY <1>1, <1>2 DEF PulledFrom
  <1>. QED
    BY <1>3 DEF f

\* The fields of a call in flight.
LEMMA CallHasTypes ==
  ASSUME TypeOK, call # NONE
  PROVE  /\ call \in Calls /\ call.interpreter \in Interpreters /\ call.response \in Responses
         /\ call.wanted \subseteq Paths /\ call.phase \in Phases
  BY DEF TypeOK, Calls

\* Sending the manifest keeps the invariant.
LEMMA ExecuteStep == ASSUME IInv, NEW i \in Interpreters, Execute(i) PROVE IInv'
  <1>1. /\ call' = [interpreter |-> i, phase |-> "sent", wanted |-> {}, response |-> NoResponse]
        /\ mirror' = mirror /\ UNCHANGED sandbox
    BY DEF Execute
  <1>2. EmptyTree \in FileMaps /\ DOMAIN EmptyTree = {}
    BY NothingPulled DEF PulledFrom, EmptyTree
  <1>3. NoResponse \in Responses /\ NoResponse.files = EmptyTree
    BY <1>2 DEF NoResponse, Responses
  <1>4. call' \in Calls /\ call'.response = NoResponse /\ call'.phase = "sent"
    BY <1>1, <1>3 DEF Calls, Phases
  <1>5. ResponseIsApart' /\ GuestSeesTheWorkspace'
    BY <1>2, <1>3, <1>4 DEF ResponseIsApart, Apart, GuestSeesTheWorkspace, InPhase
  <1>6. mirror' \in [Interpreters -> Trees]
    BY <1>1 DEF IInv, TypeOK
  <1>. QED
    BY <1>1, <1>4, <1>5, <1>6, CallStep

\* The first reconciliation keeps it: with nothing missing the mirror is the tree.
LEMMA ReconcileStep == ASSUME IInv, Reconcile PROVE IInv'
  <1> DEFINE i == call.interpreter
             t == Reconciled(i, EmptyTree)
             wanted == missing(t, FileHashes(tree))
  <1>1. /\ call # NONE
        /\ mirror' = [mirror EXCEPT ![i] = t]
        /\ call' = [call EXCEPT !.wanted = wanted,
                                !.phase = IF wanted = {} THEN "ready" ELSE "pulling"]
        /\ UNCHANGED sandbox
    BY DEF Reconcile, InPhase
  <1>2. call \in Calls /\ i \in Interpreters /\ call.response \in Responses
    BY <1>1, CallHasTypes DEF IInv
  <1>3. t \in Trees /\ (wanted = {} => t = tree)
    BY <1>2, NothingPulled, ReconciledIs DEF IInv
  <1>4. wanted \subseteq Paths
    <2>1. tree \in Trees
      BY DEF IInv, TypeOK
    <2>. QED
      BY <2>1, FileHashesAreFiles, FilesAndDirectories DEF missing
  <1> HIDE DEF t, wanted
  <1>5. mirror' \in [Interpreters -> Trees] /\ mirror'[i] = t
    BY <1>1, <1>2, <1>3 DEF IInv, TypeOK
  <1>6. /\ call' \in Calls /\ call'.interpreter = i /\ call'.response = call.response
        /\ call'.phase = "ready" => wanted = {}
    BY <1>1, <1>2, <1>4 DEF Calls, Phases
  <1>7. ResponseIsApart'
    BY <1>1, <1>6 DEF IInv, ResponseIsApart
  <1>8. GuestSeesTheWorkspace'
    BY <1>1, <1>3, <1>5, <1>6 DEF GuestSeesTheWorkspace, InPhase, sandbox
  <1>. QED
    BY <1>1, <1>5, <1>6, <1>7, <1>8, CallStep

\* So does the one after getFiles.
LEMMA PullStep == ASSUME IInv, Pull PROVE IInv'
  <1> DEFINE i == call.interpreter
             pulled == [p \in call.wanted \cap Files(tree) |-> tree[p]]
             t == Reconciled(i, pulled)
  <1>1. /\ call # NONE
        /\ mirror' = [mirror EXCEPT ![i] = t]
        /\ call' = IF missing(t, FileHashes(tree)) = {}
                   THEN [call EXCEPT !.phase = "ready"] ELSE NONE
        /\ UNCHANGED sandbox
    BY DEF Pull, PullOf, InPhase
  <1>2. call \in Calls /\ i \in Interpreters /\ call.response \in Responses
    BY <1>1, CallHasTypes DEF IInv
  <1>3. PulledFrom(pulled, tree)
    <2>1. tree \in Trees
      BY DEF IInv, TypeOK
    <2>. QED
      BY <2>1, FilesPulled
  <1> HIDE DEF pulled
  <1>4. t \in Trees /\ (missing(t, FileHashes(tree)) = {} => t = tree)
    BY <1>2, <1>3, ReconciledIs DEF IInv
  <1> HIDE DEF t
  <1>5. mirror' \in [Interpreters -> Trees] /\ mirror'[i] = t
    BY <1>1, <1>2, <1>4 DEF IInv, TypeOK
  <1>6. CASE missing(t, FileHashes(tree)) = {}
    <2>1. call' = [call EXCEPT !.phase = "ready"]
      BY <1>1, <1>6
    <2>2. call' \in Calls /\ call'.interpreter = i /\ call'.response = call.response
      BY <1>2, <2>1 DEF Calls, Phases
    <2>3. ResponseIsApart'
      BY <1>1, <2>2 DEF IInv, ResponseIsApart
    <2>4. GuestSeesTheWorkspace'
      BY <1>1, <1>4, <1>5, <1>6, <2>2 DEF GuestSeesTheWorkspace, sandbox
    <2>. QED
      BY <1>1, <1>5, <2>2, <2>3, <2>4, CallStep
  <1>7. CASE missing(t, FileHashes(tree)) # {}
    <2>1. call' = NONE
      BY <1>1, <1>7
    <2>2. ResponseIsApart' /\ GuestSeesTheWorkspace'
      BY <2>1 DEF ResponseIsApart, GuestSeesTheWorkspace, InPhase
    <2>. QED
      BY <1>1, <1>5, <2>1, <2>2, CallStep
  <1>. QED
    BY <1>6, <1>7

\* A run, or a raise, leaves a response: a response to the tree the guest saw.
LEMMA RanStep ==
  ASSUME IInv, InPhase("ready"), NEW after \in Trees, NEW r \in Responses, Apart(r.files),
         NEW phase \in {"ran", "raised"},
         mirror' = [mirror EXCEPT ![call.interpreter] = after],
         call' = [call EXCEPT !.phase = phase, !.response = r], UNCHANGED sandbox
  PROVE  IInv'
  <1>1. call \in Calls /\ call.interpreter \in Interpreters
    BY CallHasTypes DEF IInv, InPhase
  <1>2. mirror' \in [Interpreters -> Trees]
    BY <1>1 DEF IInv, TypeOK
  <1>3. call' \in Calls /\ call'.response = r /\ call'.phase = phase
    BY <1>1 DEF Calls, Phases
  <1>4. ResponseIsApart' /\ GuestSeesTheWorkspace'
    BY <1>3 DEF ResponseIsApart, Apart, GuestSeesTheWorkspace, InPhase
  <1>. QED
    BY <1>2, <1>3, <1>4, CallStep

\* A raise reports what a run that changes nothing would.
LEMMA RaiseIsResponse ==
  ASSUME NEW w \in Trees
  PROVE  [dirs |-> Directories(w), files |-> EmptyTree, deleted |-> {}] = Response(w, w)
  <1>1. ChangedFiles(w, FileHashes(w)) = {}
    BY FileHashesAreFiles DEF ChangedFiles
  <1>2. DeletedFiles(w, FileHashes(w)) = {}
    BY FileHashesAreFiles DEF DeletedFiles
  <1>3. [p \in ChangedFiles(w, FileHashes(w)) |-> w[p]] = EmptyTree
    BY <1>1 DEF EmptyTree
  <1>. QED
    BY <1>2, <1>3 DEF Response

\* What a run reports has its type, and its files come from one tree.
LEMMA ResponseFilesAreApart ==
  ASSUME NEW w \in Trees, NEW after \in Trees
  PROVE  Response(w, after) \in Responses /\ Apart(Response(w, after).files)
  <1>1. Response(w, after) \in Responses /\ DOMAIN Response(w, after).files \subseteq Files(after)
    BY ResponseIs
  <1>. QED
    BY <1>1, FilesAreApart

\* A run keeps the invariant.
LEMMA RunStep == ASSUME IInv, Run PROVE IInv'
  <1> DEFINE i == call.interpreter
  <1>1. PICK after \in Trees :
          /\ InPhase("ready") /\ UNCHANGED sandbox
          /\ mirror' = [mirror EXCEPT ![i] = after]
          /\ call' = [call EXCEPT !.phase = "ran", !.response = Response(mirror[i], after)]
    BY DEF Run
  <1>2. mirror[i] \in Trees
    BY <1>1, CallHasTypes DEF IInv, TypeOK, InPhase
  <1>3. Response(mirror[i], after) \in Responses /\ Apart(Response(mirror[i], after).files)
    BY <1>2, ResponseFilesAreApart
  <1>. QED
    BY <1>1, <1>3, RanStep

\* So does one that raises.
LEMMA RunRaisesStep == ASSUME IInv, RunRaises PROVE IInv'
  <1> DEFINE i == call.interpreter
  <1>1. PICK left \in Trees :
          /\ InPhase("ready") /\ UNCHANGED sandbox
          /\ mirror' = [mirror EXCEPT ![i] = left]
          /\ call' = [call EXCEPT !.phase = "raised",
                                  !.response = [dirs |-> Directories(left),
                                                files |-> EmptyTree, deleted |-> {}]]
    BY DEF RunRaises
  <1> DEFINE r == [dirs |-> Directories(left), files |-> EmptyTree, deleted |-> {}]
  <1>2. r \in Responses /\ Apart(r.files)
    BY RaiseIsResponse, ResponseFilesAreApart
  <1> HIDE DEF r
  <1>3. call' = [call EXCEPT !.phase = "raised", !.response = r]
    BY <1>1 DEF r
  <1>. QED
    BY <1>1, <1>2, <1>3, RanStep

\* Applying the response and persisting keeps it.
LEMMA DeliverStep == ASSUME IInv, Deliver PROVE IInv'
  <1> DEFINE r == call.response
             t == applySyncDeleted(tree, r.dirs, r.files, r.deleted)
  <1>1. call # NONE /\ Persist(t) /\ call' = NONE /\ mirror' = mirror
    BY DEF Deliver, Answered, InPhase
  <1>2. r \in Responses /\ Apart(r.files) /\ tree \in Trees
    BY <1>1, CallHasTypes DEF IInv, TypeOK, InPhase, ResponseIsApart
  <1>3. t \in Trees
    <2>1. r.dirs \subseteq Paths /\ r.files \in FileMaps /\ r.deleted \subseteq Paths
      BY <1>2 DEF Responses
    <2>. QED
      BY <1>2, <2>1, AppliedIsTree DEF IsApplied
  <1> HIDE DEF t
  <1>4. SandboxTypes' /\ TableIsAcked'
    BY <1>1, <1>3, PersistStep
  <1>5. TypeOK'
    BY <1>1, <1>4, TypesAre DEF IInv
  <1>. QED
    BY <1>1, <1>4, <1>5 DEF IInv, ResponseIsApart, GuestSeesTheWorkspace, InPhase

\* Lost calls, evicted interpreters and idle alarms keep it.
LEMMA FailureStep ==
  ASSUME IInv,
         CallLost \/ \E i \in Interpreters : EvictInterpreter(i) \/ InterpreterExpires(i)
  PROVE  IInv'
  <1>1. EmptyTree \in Trees
    BY EmptyTreeIsTree
  <1>2. mirror \in [Interpreters -> Trees] /\ call \in Calls \cup {NONE}
    BY DEF IInv, TypeOK
  <1>3. CASE CallLost
    <2>1. ResponseIsApart' /\ GuestSeesTheWorkspace'
      BY <1>3 DEF CallLost, ResponseIsApart, GuestSeesTheWorkspace, InPhase
    <2>. QED
      BY <1>2, <1>3, <2>1, CallStep DEF CallLost
  <1>4. ASSUME NEW i \in Interpreters, EvictInterpreter(i) \/ InterpreterExpires(i) PROVE IInv'
    <2>1. mirror' = [mirror EXCEPT ![i] = EmptyTree] /\ UNCHANGED sandbox
      BY <1>4 DEF EvictInterpreter, InterpreterExpires
    <2>2. /\ call' = NONE \/ call' = call
          /\ call' = call /\ InPhase("ready") => call.interpreter # i
      BY <1>4, NoneAssumption DEF EvictInterpreter, InterpreterExpires, InPhase
    <2>3. mirror' \in [Interpreters -> Trees] /\ call' \in Calls \cup {NONE}
      BY <1>1, <1>2, <2>1, <2>2
    <2>4. ResponseIsApart'
      BY <2>2 DEF ResponseIsApart, IInv
    <2>5. GuestSeesTheWorkspace'
      <3>1. CASE call' = NONE
        BY <3>1 DEF GuestSeesTheWorkspace, InPhase
      <3>2. CASE call' = call /\ InPhase("ready")
        <4>1. call.interpreter \in Interpreters
          BY <3>2, CallHasTypes DEF IInv, InPhase
        <4>2. mirror'[call.interpreter] = mirror[call.interpreter] /\ tree' = tree
          BY <1>2, <2>1, <2>2, <3>2, <4>1 DEF sandbox
        <4>. QED
          BY <3>2, <4>2 DEF IInv, GuestSeesTheWorkspace, InPhase
      <3>3. CASE call' = call /\ ~InPhase("ready")
        BY <3>3 DEF GuestSeesTheWorkspace, InPhase
      <3>. QED
        BY <2>2, <3>1, <3>2, <3>3
    <2>. QED
      BY <2>1, <2>3, <2>4, <2>5, CallStep
  <1>. QED
    BY <1>3, <1>4

\* A reload from the table keeps it.
LEMMA EvictSandboxStep == ASSUME IInv, EvictSandbox PROVE IInv'
  <1> DEFINE t == load(files)
  <1>1. /\ Loads(files) /\ tree' = t /\ changesSince' = FileHashes(t)
        /\ persistedDirs' = {p \in DOMAIN files : files[p] = DIR}
        /\ call' = NONE /\ files' = files /\ mirror' = mirror /\ acked' = acked /\ intact' = intact
    BY DEF EvictSandbox
  <1>2. SandboxTypes
    BY TypesAre DEF IInv
  <1>3. t \in Trees /\ \A p \in DOMAIN files : p \in Paths
    BY <1>1, <1>2, LoadedIsTree, RowsAre DEF SandboxTypes
  <1>4. FileHashes(t) \in FileMaps
    BY <1>3, FileHashesAreFiles
  <1>5. ASSUME files \in Trees PROVE t = files
    BY <1>5, TreeLoadsAsItself
  <1> HIDE DEF t
  <1>6. SandboxTypes'
    BY <1>1, <1>2, <1>3, <1>4 DEF SandboxTypes
  <1>7. TableIsAcked'
    BY <1>1, <1>5 DEF IInv, TableIsAcked, DiffingStateIsStored, Directories
  <1>8. TypeOK'
    BY <1>1, <1>6, TypesAre DEF IInv
  <1>. QED
    BY <1>1, <1>7, <1>8 DEF IInv, ResponseIsApart, GuestSeesTheWorkspace, InPhase

\* Each file operation that succeeds leaves a tree.
LEMMA OperationsLeaveTrees ==
  ASSUME tree \in Trees, NEW p \in Paths
  PROVE  /\ \A content \in Contents : CanWrite(tree, p) => write(tree, p, content) \in Trees
         /\ CanMkdir(tree, p) => mkdir(tree, p) \in Trees
         /\ NoFileOnTheWay(tree, p) => mkdirRecursive(tree, p) \in Trees
         /\ delete(tree, p) \in Trees
         /\ \A q \in Paths : CanRename(tree, p, q) /\ DOMAIN rename(tree, p, q) \subseteq Paths
                               => rename(tree, p, q) \in Trees
  <1>1. delete(tree, p) \in Trees
    BY DeleteIsCut, CutIsTree DEF IsCut
  <1>. QED
    BY <1>1, WriteIsTree, MkdirIsTree, MkdirRecursiveIsTree, RenameIsTree

\* A step of a request, as the tree it persists.
FileOperation(t) ==
  \/ \E p \in Paths :
       \/ \E content \in Contents : CanWrite(tree, p) /\ t = write(tree, p, content)
       \/ CanMkdir(tree, p) /\ t = mkdir(tree, p)
       \/ CanMkdirRecursive(tree, p) /\ t = mkdirRecursive(tree, p)
       \/ t = delete(tree, p)
       \/ \E q \in Paths : /\ CanRename(tree, p, q) /\ DOMAIN rename(tree, p, q) \subseteq Paths
                           /\ t = rename(tree, p, q)

FileOperations ==
  \E p \in Paths :
    \/ \E content \in Contents : WriteFile(p, content)
    \/ Mkdir(p)
    \/ MkdirRecursive(p)
    \/ DeleteFile(p)
    \/ \E q \in Paths : RenameFile(p, q)

\* Every file operation that succeeds persists the tree it leaves.
LEMMA FileOperationsPersist ==
  ASSUME tree \in Trees, FileOperations
  PROVE  \E t \in Trees : FileOperation(t) /\ Idle /\ Persist(t) /\ UNCHANGED <<mirror, call>>
  <1> PICK p \in Paths :
        \/ \E content \in Contents : WriteFile(p, content)
        \/ Mkdir(p)
        \/ MkdirRecursive(p)
        \/ DeleteFile(p)
        \/ \E q \in Paths : RenameFile(p, q)
    BY DEF FileOperations
  <1>1. CASE \E content \in Contents : WriteFile(p, content)
    <2>1. PICK content \in Contents : WriteFile(p, content)
      BY <1>1
    <2> DEFINE t == write(tree, p, content)
    <2>2. CanWrite(tree, p) /\ Idle /\ Persist(t) /\ UNCHANGED <<mirror, call>>
      BY <2>1 DEF WriteFile
    <2>3. t \in Trees
      BY <2>2, OperationsLeaveTrees
    <2>4. FileOperation(t)
      BY <2>2 DEF FileOperation
    <2>. QED
      BY <2>2, <2>3, <2>4
  <1>2. CASE Mkdir(p)
    <2> DEFINE t == mkdir(tree, p)
    <2>1. CanMkdir(tree, p) /\ Idle /\ Persist(t) /\ UNCHANGED <<mirror, call>>
      BY <1>2 DEF Mkdir
    <2>2. t \in Trees
      BY <2>1, OperationsLeaveTrees
    <2>3. FileOperation(t)
      BY <2>1 DEF FileOperation
    <2>. QED
      BY <2>1, <2>2, <2>3
  <1>3. CASE MkdirRecursive(p)
    <2> DEFINE t == mkdirRecursive(tree, p)
    <2>1. CanMkdirRecursive(tree, p) /\ Idle /\ Persist(t) /\ UNCHANGED <<mirror, call>>
      BY <1>3 DEF MkdirRecursive
    <2>2. t \in Trees
      BY <2>1, OperationsLeaveTrees DEF CanMkdirRecursive
    <2>3. FileOperation(t)
      BY <2>1 DEF FileOperation
    <2>. QED
      BY <2>1, <2>2, <2>3
  <1>4. CASE DeleteFile(p)
    <2> DEFINE t == delete(tree, p)
    <2>1. Idle /\ Persist(t) /\ UNCHANGED <<mirror, call>>
      BY <1>4 DEF DeleteFile
    <2>2. t \in Trees
      BY OperationsLeaveTrees
    <2>3. FileOperation(t)
      BY DEF FileOperation
    <2>. QED
      BY <2>1, <2>2, <2>3
  <1>5. CASE \E q \in Paths : RenameFile(p, q)
    <2>1. PICK q \in Paths : RenameFile(p, q)
      BY <1>5
    <2> DEFINE t == rename(tree, p, q)
    <2>2. CanRename(tree, p, q) /\ DOMAIN t \subseteq Paths
          /\ Idle /\ Persist(t) /\ UNCHANGED <<mirror, call>>
      BY <2>1 DEF RenameFile
    <2>3. t \in Trees
      BY <2>2, OperationsLeaveTrees
    <2>4. FileOperation(t)
      BY <2>2 DEF FileOperation
    <2>. QED
      BY <2>2, <2>3, <2>4
  <1>. QED
    BY <1>1, <1>2, <1>3, <1>4, <1>5

\* A mkdir -p that the entry limit stops changes the tree in memory only.
LEMMA MkdirRecursiveFailsStep ==
  ASSUME IInv, NEW p \in Paths, MkdirRecursiveFails(p) PROVE IInv'
  <1>1. /\ call = NONE /\ NoFileOnTheWay(tree, p) /\ tree' = mkdirRecursive(tree, p)
        /\ UNCHANGED <<files, changesSince, persistedDirs, mirror, call, acked, intact>>
    BY DEF MkdirRecursiveFails, Idle
  <1>2. tree' \in Trees
    BY <1>1, MkdirRecursiveIsTree DEF IInv, TypeOK
  <1>3. TypeOK'
    BY <1>1, <1>2 DEF IInv, TypeOK
  <1>4. TableIsAcked'
    BY <1>1 DEF IInv, TableIsAcked, DiffingStateIsStored
  <1>. QED
    BY <1>1, <1>3, <1>4 DEF IInv, ResponseIsApart, GuestSeesTheWorkspace, InPhase

\* Every step keeps the invariant.
LEMMA StepHolds == ASSUME IInv, [Next]_vars PROVE IInv'
  <1> USE DEF IInv
  <1>1. ASSUME FileOperations PROVE IInv'
    <2>1. tree \in Trees
      BY DEF TypeOK
    <2>. QED
      BY <1>1, <2>1, FileOperationsPersist, FileOperationStep
  <1>2. ASSUME NEW p \in Paths, MkdirRecursiveFails(p) PROVE IInv'
    BY <1>2, MkdirRecursiveFailsStep
  <1>3. ASSUME NEW i \in Interpreters, Execute(i) PROVE IInv'
    BY <1>3, ExecuteStep
  <1>4. CASE Reconcile
    BY <1>4, ReconcileStep
  <1>5. CASE Pull
    BY <1>5, PullStep
  <1>6. CASE Run
    BY <1>6, RunStep
  <1>7. CASE RunRaises
    BY <1>7, RunRaisesStep
  <1>8. CASE Deliver
    BY <1>8, DeliverStep
  <1>9. CASE CallLost \/ \E i \in Interpreters : EvictInterpreter(i) \/ InterpreterExpires(i)
    BY <1>9, FailureStep
  <1>10. CASE EvictSandbox
    BY <1>10, EvictSandboxStep
  <1>11. CASE UNCHANGED vars
    BY <1>11 DEF vars, TypeOK, ResponseIsApart, GuestSeesTheWorkspace, InPhase, TableIsAcked,
       DiffingStateIsStored
  <1> HIDE DEF IInv
  <1>12. CASE Next
    BY <1>1, <1>2, <1>3, <1>4, <1>5, <1>6, <1>7, <1>8, <1>9, <1>10, <1>12 DEF Next, FileOperations
  <1>. QED
    BY <1>11, <1>12

(***************************************************************************)
(* Whatever the paths, the contents, the entry limit, the guests and the   *)
(* failures, workspace, acknowledged tree and every mirror stay trees: no  *)
(* sequence of file operations, syncs and reloads leaves an entry without  *)
(* a directory above it.                                                   *)
(***************************************************************************)
THEOREM MirrorInvariant == Spec => []IInv
  <1>1. Init => IInv
    BY InitHolds
  <1>2. IInv /\ [Next]_vars => IInv'
    BY StepHolds
  <1>. QED
    BY <1>1, <1>2, PTL DEF Spec

(***************************************************************************)
(* The types of WorkspaceMirror hold, which is MirrorInvariant's first     *)
(* conjunct: every tree that handleFiles, applySync or load makes is one.  *)
(***************************************************************************)
THEOREM MirrorTypes == Spec => []TypeOK
  <1>1. IInv => TypeOK
    BY DEF IInv
  <1>. QED
    BY <1>1, MirrorInvariant, PTL

(***************************************************************************)
(* executeInContextImpl runs the guest on the sandbox's tree, whatever     *)
(* this interpreter's mirror held before, over any faults.                 *)
(***************************************************************************)
THEOREM GuestRunsOnTheWorkspace == Spec => []GuestSeesTheWorkspace
  <1>1. IInv => GuestSeesTheWorkspace
    BY DEF IInv
  <1>. QED
    BY <1>1, MirrorInvariant, PTL

(***************************************************************************)
(* The files table gives back what was acknowledged, and the diffing state *)
(* describes it, as long as no transaction failed and none found a file    *)
(* where the table had a directory.                                        *)
(***************************************************************************)
THEOREM AckedWorkspaceIsStored == Spec => []TableIsExact
  <1>1. ASSUME IInv PROVE TableIsExact
    <2>1. ASSUME intact PROVE AckedIsDurable /\ DiffingStateIsStored
      <3>1. files \in Trees /\ files = acked /\ DiffingStateIsStored
        BY <1>1, <2>1 DEF IInv, TableIsAcked
      <3>. QED
        BY <3>1, TreeLoadsAsItself DEF AckedIsDurable
    <2>. QED
      BY <2>1 DEF TableIsExact
  <1>. QED
    BY <1>1, MirrorInvariant, PTL

--------------------------------------------------------------------------------
(***************************************************************************)
(* Without an idle alarm in the middle of a call: what is pulled is what   *)
(* the mirror lacks, and the response is to the tree the sandbox still     *)
(* has.                                                                    *)
(***************************************************************************)
PulledIsMissing ==
  InPhase("pulling") => call.wanted = missing(mirror[call.interpreter], FileHashes(tree))
ResponseIsTheRuns ==
  /\ InPhase("ran") => /\ GuestMay(tree, mirror[call.interpreter])
                       /\ call.response = Response(tree, mirror[call.interpreter])
  /\ InPhase("raised") => call.response = Response(tree, tree)

CInv == IInv /\ PulledIsMissing /\ ResponseIsTheRuns

\* A step that ends the call, or starts it.
LEMMA NoCallStep ==
  ASSUME call' = NONE \/ call'.phase = "sent" \/ call'.phase = "ready"
  PROVE  PulledIsMissing' /\ ResponseIsTheRuns'
  BY DEF PulledIsMissing, ResponseIsTheRuns, InPhase

\* Every step keeps the two facts about the call, if no alarm strikes.
LEMMA CallInvariantStep ==
  ASSUME "alarm" \notin Faults, CInv, Next
  PROVE  PulledIsMissing' /\ ResponseIsTheRuns'
  <1> USE DEF CInv
  <1>1. TypeOK
    BY DEF IInv
  <1>2. mirror \in [Interpreters -> Trees] /\ tree \in Trees
    BY <1>1 DEF TypeOK
  <1>3. ASSUME FileOperations \/ (\E p \in Paths : MkdirRecursiveFails(p)) PROVE call' = NONE
    <2>1. FileOperations => \E t \in Trees : Idle /\ UNCHANGED <<mirror, call>>
      BY <1>2, FileOperationsPersist
    <2>. QED
      BY <1>3, <2>1 DEF MkdirRecursiveFails, Idle
  <1>4. ASSUME NEW i \in Interpreters, Execute(i) PROVE call'.phase = "sent"
    BY <1>4 DEF Execute
  <1>5. CASE Reconcile
    <2> DEFINE i == call.interpreter
               t == Reconciled(i, EmptyTree)
               wanted == missing(t, FileHashes(tree))
    <2>1. /\ call # NONE
          /\ mirror' = [mirror EXCEPT ![i] = t]
          /\ call' = [call EXCEPT !.wanted = wanted,
                                  !.phase = IF wanted = {} THEN "ready" ELSE "pulling"]
          /\ tree' = tree
      BY <1>5 DEF Reconcile, InPhase, sandbox
    <2>2. call \in Calls /\ i \in Interpreters
      BY <1>1, <2>1, CallHasTypes
    <2> HIDE DEF t
    <2>3. /\ call'.interpreter = i /\ mirror'[i] = t /\ call'.wanted = wanted
          /\ call'.phase \in {"ready", "pulling"}
      BY <1>2, <2>1, <2>2 DEF Calls
    <2>4. PulledIsMissing'
      BY <2>1, <2>3 DEF PulledIsMissing
    <2>5. ResponseIsTheRuns'
      BY <2>3 DEF ResponseIsTheRuns, InPhase
    <2>. QED
      BY <2>4, <2>5
  <1>6. CASE Pull
    <2>1. call # NONE /\ (call' = NONE \/ call' = [call EXCEPT !.phase = "ready"])
      BY <1>6 DEF Pull, PullOf, InPhase
    <2>2. call' = NONE \/ call'.phase = "ready"
      BY <1>1, <2>1, CallHasTypes DEF Calls
    <2>. QED
      BY <2>2, NoCallStep
  <1>7. CASE Run
    <2> DEFINE i == call.interpreter
    <2>1. PICK after \in Trees :
            /\ InPhase("ready") /\ tree' = tree
            /\ GuestMay(mirror[i], after)
            /\ mirror' = [mirror EXCEPT ![i] = after]
            /\ call' = [call EXCEPT !.phase = "ran", !.response = Response(mirror[i], after)]
      BY <1>7 DEF Run, sandbox
    <2>2. call \in Calls /\ i \in Interpreters /\ mirror[i] = tree
      BY <1>1, <2>1, CallHasTypes DEF InPhase, IInv, GuestSeesTheWorkspace
    <2>3. mirror'[i] = after
      BY <1>2, <2>1, <2>2
    <2>4. call' = [call EXCEPT !.phase = "ran", !.response = Response(tree, after)]
      BY <2>1, <2>2
    <2>5. call'.interpreter = i /\ call'.phase = "ran" /\ call'.response = Response(tree, after)
      BY <2>2, <2>4 DEF Calls
    <2>6. ResponseIsTheRuns'
      BY <2>1, <2>2, <2>3, <2>5 DEF ResponseIsTheRuns, InPhase
    <2>7. PulledIsMissing'
      BY <2>5 DEF PulledIsMissing, InPhase
    <2>. QED
      BY <2>6, <2>7
  <1>8. CASE RunRaises
    <2> DEFINE i == call.interpreter
    <2>1. PICK left \in Trees :
            /\ InPhase("ready") /\ tree' = tree
            /\ SameNames(mirror[i], left)
            /\ call' = [call EXCEPT !.phase = "raised",
                                    !.response = [dirs |-> Directories(left),
                                                  files |-> EmptyTree, deleted |-> {}]]
      BY <1>8 DEF RunRaises, sandbox
    <2>2. call \in Calls /\ mirror[i] = tree
      BY <1>1, <2>1, CallHasTypes DEF InPhase, IInv, GuestSeesTheWorkspace
    <2>3. Directories(left) = Directories(tree)
      BY <2>1, <2>2 DEF SameNames
    <2>4. [dirs |-> Directories(left), files |-> EmptyTree, deleted |-> {}] = Response(tree, tree)
      BY <1>2, <2>3, RaiseIsResponse
    <2>5. call' = [call EXCEPT !.phase = "raised", !.response = Response(tree, tree)]
      BY <2>1, <2>4
    <2>6. call'.phase = "raised" /\ call'.response = Response(tree, tree)
      BY <2>2, <2>5 DEF Calls
    <2>. QED
      BY <2>1, <2>6 DEF ResponseIsTheRuns, PulledIsMissing, InPhase
  <1>9. ASSUME Deliver \/ CallLost \/ EvictSandbox PROVE call' = NONE
    BY <1>9 DEF Deliver, CallLost, EvictSandbox
  <1>10. ASSUME NEW i \in Interpreters, EvictInterpreter(i) PROVE PulledIsMissing' /\ ResponseIsTheRuns'
    <2>1. CASE call # NONE /\ call.interpreter = i
      BY <1>10, <2>1, NoCallStep DEF EvictInterpreter
    <2>2. CASE call = NONE
      BY <1>10, <2>2, NoCallStep DEF EvictInterpreter
    <2>3. CASE call # NONE /\ call.interpreter # i
      <3>1. call' = call /\ tree' = tree /\ mirror'[call.interpreter] = mirror[call.interpreter]
        BY <1>1, <1>2, <1>10, <2>3, CallHasTypes DEF EvictInterpreter, sandbox
      <3>. QED
        BY <3>1 DEF PulledIsMissing, ResponseIsTheRuns, InPhase
    <2>. QED
      BY <2>1, <2>2, <2>3
  <1>11. ASSUME NEW i \in Interpreters, InterpreterExpires(i) PROVE FALSE
    BY <1>11 DEF InterpreterExpires
  <1>. QED
    BY <1>3, <1>4, <1>5, <1>6, <1>7, <1>8, <1>9, <1>10, <1>11, NoCallStep DEF Next, FileOperations

(***************************************************************************)
(* CInv is invariant when no alarm may strike.                             *)
(***************************************************************************)
LEMMA CallInvariant == ASSUME "alarm" \notin Faults PROVE Spec => []CInv
  <1>1. Init => CInv
    BY InitHolds DEF CInv, Init, PulledIsMissing, ResponseIsTheRuns, InPhase
  <1>2. CInv /\ [Next]_vars => CInv'
    <2> SUFFICES ASSUME CInv, [Next]_vars PROVE CInv'
      OBVIOUS
    <2>1. IInv'
      BY StepHolds DEF CInv
    <2>2. CASE Next
      BY <2>1, <2>2, CallInvariantStep DEF CInv
    <2>3. CASE UNCHANGED vars
      BY <2>1, <2>3 DEF CInv, vars, PulledIsMissing, ResponseIsTheRuns, InPhase
    <2>. QED
      BY <2>2, <2>3
  <1>. QED
    BY <1>1, <1>2, PTL DEF Spec

(***************************************************************************)
(* Without idle alarms, one round of getFiles is enough for any workspace  *)
(* and any state of the mirror.                                            *)
(***************************************************************************)
THEOREM OneRoundIsEnough == ASSUME "alarm" \notin Faults PROVE Spec => OnePullSuffices
  <1>1. CInv => (InPhase("pulling") /\ Pull => call' # NONE)
    <2> SUFFICES ASSUME CInv, InPhase("pulling"), Pull PROVE call' # NONE
      OBVIOUS
    <2> DEFINE i == call.interpreter
               pulled == [p \in call.wanted \cap Files(tree) |-> tree[p]]
               t == Reconciled(i, pulled)
    <2>1. /\ call # NONE
          /\ call' = IF missing(t, FileHashes(tree)) = {}
                     THEN [call EXCEPT !.phase = "ready"] ELSE NONE
      BY DEF Pull, PullOf, InPhase
    <2>2. /\ call \in Calls /\ i \in Interpreters /\ tree \in Trees /\ mirror[i] \in Trees
          /\ TypeOK /\ call.wanted = missing(mirror[i], FileHashes(tree))
      BY <2>1, CallHasTypes DEF CInv, IInv, TypeOK, PulledIsMissing
    <2>3. PulledFrom(pulled, tree)
      BY <2>2, FilesPulled
    <2>4. missing(mirror[i], FileHashes(tree)) \subseteq DOMAIN pulled
      BY <2>2, FileHashesAreFiles DEF missing
    <2> HIDE DEF pulled
    <2>5. t \in Trees /\ IsSynced(t, mirror[i], tree, pulled)
      BY <2>2, <2>3, ReconciledIs
    <2> HIDE DEF t
    <2>6. missing(t, FileHashes(tree)) = {}
      BY <2>2, <2>3, <2>4, <2>5, PullingAllIsEnough
    <2>7. call' = [call EXCEPT !.phase = "ready"]
      BY <2>1, <2>6
    <2>8. call' \in Calls
      BY <2>2, <2>7 DEF Calls, Phases
    <2>. QED
      BY <2>8, NoneAssumption
  <1>. QED
    BY <1>1, CallInvariant, PTL DEF OnePullSuffices

(***************************************************************************)
(* Without idle alarms, and with guests that make no directory of a file,  *)
(* applying the response to a run leaves the sandbox with the tree of the  *)
(* mirror that sent it, and the response to a run that raised leaves the   *)
(* sandbox's tree as it was, whatever that run wrote in place.             *)
(***************************************************************************)
THEOREM DeliveryReachesTheGuestsTree ==
  ASSUME "alarm" \notin Faults, "file to dir" \notin Retypes
  PROVE  Spec => DeliveryAgrees
  <1> DEFINE Guests == IF InPhase("ran") THEN mirror[call.interpreter] ELSE tree
  <1>1. CInv => (Deliver => tree' = Guests)
    <2> SUFFICES ASSUME CInv, Deliver PROVE tree' = Guests
      OBVIOUS
    <2> DEFINE r == call.response
               t == applySyncDeleted(tree, r.dirs, r.files, r.deleted)
    <2>1. Persist(t) /\ (InPhase("ran") \/ InPhase("raised"))
      BY DEF Deliver, Answered
    <2>2. tree \in Trees /\ Guests \in Trees
      BY <2>1, CallHasTypes DEF InPhase, CInv, IInv, TypeOK
    <2>3. InPhase("ran") => r = Response(tree, Guests) /\ GuestMay(tree, Guests)
      BY DEF CInv, ResponseIsTheRuns
    <2>4. ~InPhase("ran") => r = Response(tree, Guests) /\ Guests = tree
      BY <2>1 DEF CInv, ResponseIsTheRuns
    <2> HIDE DEF r, Guests
    <2>5. \A p \in DOMAIN tree \cap DOMAIN Guests : tree[p] # DIR => Guests[p] # DIR
      BY <2>3, <2>4 DEF GuestMay
    <2>6. t = Guests
      <3>1. applySyncDeleted(tree, Response(tree, Guests).dirs, Response(tree, Guests).files,
                             Response(tree, Guests).deleted) = Guests
        BY <2>2, <2>5, Delivered
      <3>. QED
        BY <2>3, <2>4, <3>1
    <2>. QED
      BY <2>1, <2>6 DEF Persist, Succeed, PersistFails
  <1>. QED
    BY <1>1, CallInvariant, PTL DEF DeliveryAgrees

--------------------------------------------------------------------------------
(***************************************************************************)
(* Without failing transactions, and with guests that make no file of a    *)
(* directory, the hypothesis of TableIsExact never fails: what the table   *)
(* lacks of the tree are directories of a mkdir -p cut short.              *)
(***************************************************************************)
Covers(t, rows) ==
  /\ DOMAIN rows \subseteq DOMAIN t
  /\ \A p \in DOMAIN rows : t[p] = rows[p]
  /\ \A p \in DOMAIN t \ DOMAIN rows : t[p] = DIR

ResponseKeepsDirectories ==
  Answered => DOMAIN call.response.files \cap Directories(tree) = {}

NInv == IInv /\ intact /\ Covers(tree, files) /\ ResponseKeepsDirectories

\* A request that makes no file of a directory passes through the table intact.
LEMMA PersistKeeps ==
  ASSUME NInv, "storage" \notin Faults, NEW t \in Trees, Persist(t),
         Files(t) \cap Directories(tree) = {}
  PROVE  intact' /\ Covers(tree', files')
  <1>1. Succeed(t)
    BY DEF Persist, PersistFails
  <1>2. files \in Trees /\ DiffingStateIsStored
    BY DEF NInv, IInv, TableIsAcked
  <1>3. Directories(files) \subseteq Directories(tree)
    BY DEF NInv, Covers, Directories
  <1>4. Files(t) \cap persistedDirs = {}
    BY <1>2, <1>3 DEF DiffingStateIsStored
  <1>5. PersistedRows(t) = t
    BY <1>2, <1>4, PersistedIsTheTree
  <1>6. intact' /\ tree' = t /\ files' = t
    BY <1>1, <1>4, <1>5 DEF Succeed, NInv
  <1>. QED
    BY <1>6 DEF Covers

\* No file operation makes a file of a directory.
LEMMA OperationsKeepDirectories ==
  ASSUME tree \in Trees, NEW t \in Trees, FileOperation(t)
  PROVE  Files(t) \cap Directories(tree) = {}
  <1> SUFFICES ASSUME NEW s \in DOMAIN t, s \in DOMAIN tree, tree[s] = DIR PROVE t[s] = DIR
    BY DEF Files, Directories
  <1> PICK p \in Paths :
        \/ \E content \in Contents : CanWrite(tree, p) /\ t = write(tree, p, content)
        \/ CanMkdir(tree, p) /\ t = mkdir(tree, p)
        \/ CanMkdirRecursive(tree, p) /\ t = mkdirRecursive(tree, p)
        \/ t = delete(tree, p)
        \/ \E q \in Paths : /\ CanRename(tree, p, q) /\ DOMAIN rename(tree, p, q) \subseteq Paths
                            /\ t = rename(tree, p, q)
    BY DEF FileOperation
  <1>1. ASSUME NEW content \in Contents, CanWrite(tree, p), t = write(tree, p, content)
        PROVE  t[s] = DIR
    <2>1. s # p
      BY <1>1 DEF CanWrite, IsDir
    <2>. QED
      BY <1>1, <2>1 DEF write, Override
  <1>2. CASE CanMkdir(tree, p) /\ t = mkdir(tree, p)
    BY <1>2 DEF mkdir, Override
  <1>3. CASE CanMkdirRecursive(tree, p) /\ t = mkdirRecursive(tree, p)
    BY <1>3, MkdirRecursiveIsTree DEF CanMkdirRecursive
  <1>4. CASE t = delete(tree, p)
    <2>1. t = removePaths(tree, {p})
      BY <1>4, DeleteIsCut
    <2>2. IsCut(t, tree, {p})
      BY <2>1, CutIsTree
    <2>. QED
      BY <2>2 DEF IsCut
  <1>5. ASSUME NEW q \in Paths, CanRename(tree, p, q), DOMAIN rename(tree, p, q) \subseteq Paths,
               t = rename(tree, p, q)
        PROVE  t[s] = DIR
    BY <1>5, RenameIsTree
  <1>. QED
    BY <1>1, <1>2, <1>3, <1>4, <1>5

\* The steps of a call that leave the sandbox alone, but for a run.
LEMMA QuietStep ==
  ASSUME NInv, UNCHANGED sandbox,
         call' = NONE \/ call'.phase \in {"sent", "pulling", "ready"} \/ call' = call
  PROVE  intact' /\ Covers(tree', files') /\ ResponseKeepsDirectories'
  BY DEF NInv, sandbox, ResponseKeepsDirectories, Answered, InPhase

\* Every step keeps the table covered by the tree.
LEMMA NothingIsLostStep ==
  ASSUME NInv, "storage" \notin Faults, "dir to file" \notin Retypes, Next
  PROVE  intact' /\ Covers(tree', files') /\ ResponseKeepsDirectories'
  <1> DEFINE Goal == intact' /\ Covers(tree', files') /\ ResponseKeepsDirectories'
             i == call.interpreter
  <1>1. TypeOK /\ tree \in Trees /\ files \in Trees
    BY DEF NInv, IInv, TypeOK, TableIsAcked
  <1>2. ASSUME FileOperations PROVE Goal
    <2>1. PICK t \in Trees : FileOperation(t) /\ Idle /\ Persist(t) /\ UNCHANGED <<mirror, call>>
      BY <1>1, <1>2, FileOperationsPersist
    <2>2. Files(t) \cap Directories(tree) = {}
      BY <1>1, <2>1, OperationsKeepDirectories
    <2>3. intact' /\ Covers(tree', files')
      BY <2>1, <2>2, PersistKeeps
    <2>4. ResponseKeepsDirectories'
      BY <2>1 DEF Idle, ResponseKeepsDirectories, Answered, InPhase
    <2>. QED
      BY <2>3, <2>4
  <1>3. ASSUME NEW p \in Paths, MkdirRecursiveFails(p) PROVE Goal
    <2>1. /\ call = NONE /\ call' = call /\ tree' = mkdirRecursive(tree, p) /\ files' = files
          /\ intact' = intact /\ NoFileOnTheWay(tree, p)
      BY <1>3 DEF MkdirRecursiveFails, Idle
    <2>2. /\ DOMAIN tree \subseteq DOMAIN tree'
          /\ \A q \in DOMAIN tree' : tree'[q] = IF q \in DOMAIN tree THEN tree[q] ELSE DIR
      BY <1>1, <2>1, MkdirRecursiveIsTree
    <2>3. Covers(tree', files')
      BY <2>1, <2>2 DEF NInv, Covers
    <2>4. ResponseKeepsDirectories'
      BY <2>1 DEF ResponseKeepsDirectories, Answered, InPhase
    <2>. QED
      BY <2>1, <2>3, <2>4 DEF NInv
  <1>4. ASSUME NEW j \in Interpreters, Execute(j) PROVE Goal
    BY <1>4, QuietStep DEF Execute
  <1>5. CASE Reconcile
    <2>1. call # NONE /\ UNCHANGED sandbox
      BY <1>5 DEF Reconcile, InPhase
    <2>2. call \in Calls
      BY <1>1, <2>1, CallHasTypes
    <2>3. call'.phase = "ready" \/ call'.phase = "pulling"
      BY <1>5, <2>2 DEF Reconcile, Calls
    <2>. QED
      BY <2>1, <2>3, QuietStep
  <1>6. CASE Pull
    <2>1. /\ call # NONE /\ UNCHANGED sandbox
          /\ call' = NONE \/ call' = [call EXCEPT !.phase = "ready"]
      BY <1>6 DEF Pull, PullOf, InPhase
    <2>2. call' = NONE \/ call'.phase = "ready"
      BY <1>1, <2>1, CallHasTypes DEF Calls
    <2>. QED
      BY <2>1, <2>2, QuietStep
  <1>7. CASE Run
    <2>1. PICK after \in Trees :
            /\ InPhase("ready") /\ UNCHANGED sandbox
            /\ GuestMay(mirror[i], after)
            /\ call' = [call EXCEPT !.phase = "ran", !.response = Response(mirror[i], after)]
      BY <1>7 DEF Run
    <2>2. call \in Calls /\ mirror[i] = tree
      BY <1>1, <2>1, CallHasTypes DEF InPhase, NInv, IInv, GuestSeesTheWorkspace
    <2>3. call'.response = Response(tree, after)
      BY <2>1, <2>2 DEF Calls
    <2>4. DOMAIN call'.response.files \subseteq Files(after)
      BY <1>1, <2>3, ResponseIs
    <2>5. Files(after) \cap Directories(tree) = {}
      BY <2>1, <2>2 DEF GuestMay, Files, Directories
    <2>6. ResponseKeepsDirectories'
      BY <2>1, <2>4, <2>5 DEF ResponseKeepsDirectories, sandbox
    <2>. QED
      BY <2>1, <2>6 DEF sandbox, NInv
  <1>8. CASE RunRaises
    <2>1. PICK left \in Trees :
            /\ InPhase("ready") /\ UNCHANGED sandbox
            /\ call' = [call EXCEPT !.phase = "raised",
                                    !.response = [dirs |-> Directories(left),
                                                  files |-> EmptyTree, deleted |-> {}]]
      BY <1>8 DEF RunRaises
    <2>2. call \in Calls
      BY <1>1, <2>1, CallHasTypes DEF InPhase
    <2>3. call'.response.files = EmptyTree
      BY <2>1, <2>2 DEF Calls
    <2>4. DOMAIN call'.response.files = {}
      BY <2>3 DEF EmptyTree
    <2>5. ResponseKeepsDirectories'
      BY <2>4 DEF ResponseKeepsDirectories
    <2>. QED
      BY <2>1, <2>5 DEF sandbox, NInv
  <1>9. CASE Deliver
    <2> DEFINE r == call.response
               t == applySyncDeleted(tree, r.dirs, r.files, r.deleted)
    <2>1. Answered /\ Persist(t) /\ call' = NONE
      BY <1>9 DEF Deliver
    <2>2. r \in Responses /\ Apart(r.files)
      BY <1>1, <2>1, CallHasTypes DEF NInv, IInv, Answered, InPhase, ResponseIsApart
    <2>3. r.dirs \subseteq Paths /\ r.files \in FileMaps /\ r.deleted \subseteq Paths
      BY <2>2 DEF Responses
    <2>4. IsApplied(t, tree, r.files)
      BY <1>1, <2>2, <2>3, AppliedIsTree
    <2> HIDE DEF t
    <2>5. t \in Trees /\ \A p \in Files(t) : p \in DOMAIN r.files \/ p \in Files(tree)
      BY <2>4 DEF IsApplied
    <2>6. DOMAIN r.files \cap Directories(tree) = {} /\ Files(tree) \cap Directories(tree) = {}
      BY <1>1, <2>1, FilesAndDirectories DEF NInv, ResponseKeepsDirectories
    <2>7. Files(t) \cap Directories(tree) = {}
      BY <2>5, <2>6
    <2>8. intact' /\ Covers(tree', files')
      BY <2>1, <2>5, <2>7, PersistKeeps
    <2>9. ResponseKeepsDirectories'
      BY <2>1 DEF ResponseKeepsDirectories, Answered, InPhase
    <2>. QED
      BY <2>8, <2>9
  <1>10. CASE CallLost
    BY <1>10, QuietStep DEF CallLost
  <1>11. ASSUME NEW j \in Interpreters, EvictInterpreter(j) \/ InterpreterExpires(j) PROVE Goal
    <2>1. UNCHANGED sandbox /\ (call' = NONE \/ call' = call)
      BY <1>11 DEF EvictInterpreter, InterpreterExpires
    <2>. QED
      BY <2>1, QuietStep
  <1>12. CASE EvictSandbox
    <2>1. tree' = load(files) /\ files' = files /\ intact' = intact /\ call' = NONE
      BY <1>12 DEF EvictSandbox
    <2>2. tree' = files
      BY <1>1, <2>1, TreeLoadsAsItself
    <2>3. Covers(tree', files')
      BY <2>1, <2>2 DEF Covers
    <2>4. ResponseKeepsDirectories'
      BY <2>1 DEF ResponseKeepsDirectories, Answered, InPhase
    <2>. QED
      BY <2>1, <2>3, <2>4 DEF NInv
  <1>13. \/ FileOperations
         \/ \E p \in Paths : MkdirRecursiveFails(p)
         \/ \E j \in Interpreters : Execute(j) \/ EvictInterpreter(j) \/ InterpreterExpires(j)
         \/ Reconcile \/ Pull \/ Run \/ RunRaises \/ Deliver \/ CallLost \/ EvictSandbox
    BY DEF Next, FileOperations
  <1>. QED
    BY <1>2, <1>3, <1>4, <1>5, <1>6, <1>7, <1>8, <1>9, <1>10, <1>11, <1>12, <1>13

(***************************************************************************)
(* Without failing transactions, and with guests that make no file of a    *)
(* directory, what a successful request left is always what an eviction    *)
(* would give back, and the diffing state always describes the table.      *)
(***************************************************************************)
THEOREM NothingIsLost ==
  ASSUME "storage" \notin Faults, "dir to file" \notin Retypes
  PROVE  Spec => [](AckedIsDurable /\ DiffingStateIsStored)
  <1>1. Init => NInv
    <2> SUFFICES ASSUME Init PROVE NInv
      OBVIOUS
    <2>1. IInv
      BY InitHolds
    <2>2. intact /\ Covers(tree, files)
      BY DEF Init, Covers
    <2>3. ResponseKeepsDirectories
      BY DEF Init, ResponseKeepsDirectories, Answered, InPhase
    <2>. QED
      BY <2>1, <2>2, <2>3 DEF NInv
  <1>2. NInv /\ [Next]_vars => NInv'
    <2> SUFFICES ASSUME NInv, [Next]_vars PROVE NInv'
      OBVIOUS
    <2>1. IInv'
      BY StepHolds DEF NInv
    <2>2. CASE Next
      BY <2>1, <2>2, NothingIsLostStep DEF NInv
    <2>3. CASE UNCHANGED vars
      BY <2>1, <2>3 DEF NInv, vars, ResponseKeepsDirectories, Answered, InPhase
    <2>. QED
      BY <2>2, <2>3
  <1>3. NInv => AckedIsDurable /\ DiffingStateIsStored
    BY TreeLoadsAsItself DEF NInv, IInv, TableIsAcked, AckedIsDurable
  <1>. QED
    BY <1>1, <1>2, <1>3, PTL DEF Spec
================================================================================
