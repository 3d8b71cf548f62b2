------------------------------ MODULE WorkspaceTree ------------------------------
(***************************************************************************)
(* The /workspace tree as pure operators (class Workspace in               *)
(* packages/core/src/workspace.ts).  A tree is a function from the paths   *)
(* that exist to their nodes, a file's contents or DIR; the root is not    *)
(* listed.  A content hash stands for the content (no two collide).        *)
(***************************************************************************)
EXTENDS Integers, FiniteSets, Sequences, SequencesExt

CONSTANTS
  Paths,        \* the paths of the model: sequences of names, closed under prefixes
  Contents,     \* file contents
  DIR,          \* a directory
  MAX_ENTRIES   \* LIMITS.MAX_ENTRIES

\* Every directory a path needs, itself included.
Components(p) == {SubSeq(p, 1, n) : n \in 1 .. Len(p)}
Names == UNION {Range(p) : p \in Paths}

ASSUME PathsAssumption ==
  /\ IsFiniteSet(Paths)
  /\ Paths \subseteq Seq(Names) \ {<<>>}
  /\ \A p \in Paths : Components(p) \subseteq Paths
ASSUME NodesAssumption == DIR \notin Contents /\ MAX_ENTRIES \in Nat

EmptyTree == [p \in {} |-> DIR]

IsDir(t, p) == p = <<>> \/ (p \in DOMAIN t /\ t[p] = DIR)

Trees ==
  {t \in UNION {[S -> Contents \cup {DIR}] : S \in SUBSET Paths} :
     \A p \in DOMAIN t : IsDir(t, Front(p))}

Directories(t) == {p \in DOMAIN t : t[p] = DIR}
Files(t)       == DOMAIN t \ Directories(t)
FileHashes(t)  == [p \in Files(t) |-> t[p]]

Restricted(t, S) == [p \in DOMAIN t \cap S |-> t[p]]
Override(new, t) ==
  [p \in DOMAIN new \cup DOMAIN t |-> IF p \in DOMAIN new THEN new[p] ELSE t[p]]

Ancestors(p) == Components(p) \ {p}

--------------------------------------------------------------------------------
(***************************************************************************)
(* The file operations: when they succeed and the tree they leave.         *)
(***************************************************************************)
CanWrite(t, p) ==
  /\ IsDir(t, Front(p))
  /\ ~IsDir(t, p)
  /\ p \in DOMAIN t \/ Cardinality(DOMAIN t) < MAX_ENTRIES
write(t, p, content) == Override([q \in {p} |-> content], t)

CanMkdir(t, p) ==
  /\ IsDir(t, Front(p))
  /\ p \notin DOMAIN t
  /\ Cardinality(DOMAIN t) < MAX_ENTRIES
mkdir(t, p) == Override([q \in {p} |-> DIR], t)

\* mkdir -p creates components one by one, and keeps those it has created
\* when the entry limit stops it.
NoFileOnTheWay(t, p) == \A q \in Components(p) : q \in DOMAIN t => t[q] = DIR
MissingComponents(t, p) == Components(p) \ DOMAIN t
Room(t) == MAX_ENTRIES - Cardinality(DOMAIN t)
CanMkdirRecursive(t, p) ==
  NoFileOnTheWay(t, p) /\ Cardinality(MissingComponents(t, p)) <= Room(t)
mkdirRecursive(t, p) ==
  LET existing == Len(p) - Cardinality(MissingComponents(t, p))
      made     == {q \in MissingComponents(t, p) : Len(q) <= existing + Room(t)}
  IN  [q \in DOMAIN t \cup made |-> IF q \in made THEN DIR ELSE t[q]]

CanDelete(t, p, recursive, force) ==
  /\ \A q \in Ancestors(p) : q \in DOMAIN t => t[q] = DIR
  /\ p \in DOMAIN t \/ force
  /\ p \in DOMAIN t /\ t[p] = DIR => recursive
delete(t, p) == Restricted(t, {q \in Paths : ~IsPrefix(p, q)})

CanRename(t, p, q) ==
  /\ p \in DOMAIN t
  /\ IsDir(t, Front(q))
  /\ q \in DOMAIN t =>
       /\ IsDir(t, p) <=> IsDir(t, q)
       /\ {r \in DOMAIN t : IsStrictPrefix(q, r)} = {}
\* Mutant: only the node itself moves.
renameNode(t, p, q) == Override([r \in {q} |-> t[p]], Restricted(t, Paths \ {p}))

\* A directory moved below itself is cut off from the root with its subtree.
rename(t, p, q) ==
  LET rest  == delete(t, p)
      moved == {r \in DOMAIN t : IsPrefix(p, r)}
      Target(r) == q \o SubSeq(r, Len(p) + 1, Len(r))
  IN  IF IsStrictPrefix(p, q) THEN rest
      ELSE [s \in DOMAIN rest \cup {Target(r) : r \in moved} |->
              IF IsPrefix(q, s)
              THEN t[p \o SubSeq(s, Len(q) + 1, Len(s))]
              ELSE rest[s]]

--------------------------------------------------------------------------------
\* Mutant: a file on the way of a directory stays.
ensureMissingDirPaths(t, dirs) ==
  LET wanted == UNION {Components(d) : d \in dirs}
  IN  [p \in DOMAIN t \cup wanted |-> IF p \in DOMAIN t THEN t[p] ELSE DIR]

(***************************************************************************)
(* applySync and its helpers.                                              *)
(***************************************************************************)
\* A file on the way of a directory is replaced by it.
ensureDirPaths(t, dirs) ==
  LET wanted == UNION {Components(d) : d \in dirs}
  IN  [p \in DOMAIN t \cup wanted |-> IF p \in wanted THEN DIR ELSE t[p]]

removePaths(t, removed) ==
  Restricted(t, {p \in Paths : \A r \in removed : ~IsPrefix(r, p)})

\* A directory in the place of a file is replaced, and its subtree is lost.
putFiles(t, files) ==
  LET parents == UNION {Ancestors(p) : p \in DOMAIN files}
  IN  Override(files, removePaths(ensureDirPaths(t, parents), DOMAIN files))

\* Directories first, then files ...
Placed(t, dirs, files) == putFiles(ensureDirPaths(t, dirs), files)

\* ... then deletions, then the surplus directories.
Pruned(t, dirs, unwanted) ==
  LET pruned == removePaths(t, unwanted)
  IN  removePaths(pruned, Directories(pruned) \ dirs)

applySyncManifest(t, dirs, files, manifest) ==
  LET placed == Placed(t, dirs, files)
  IN  Pruned(placed, dirs, Files(placed) \ DOMAIN manifest)

applySyncDeleted(t, dirs, files, deleted) ==
  Pruned(Placed(t, dirs, files), dirs, deleted)

\* Mutant: hashes are not compared.
missingByName(t, manifest) == {p \in DOMAIN manifest : p \notin Files(t)}

missing(t, manifest) ==
  {p \in DOMAIN manifest : p \notin Files(t) \/ t[p] # manifest[p]}

--------------------------------------------------------------------------------
(***************************************************************************)
(* changes(): the file diff against an earlier snapshot of hashes.         *)
(***************************************************************************)
ChangedFiles(t, since) ==
  {p \in Files(t) : p \in DOMAIN since => since[p] # t[p]}
DeletedFiles(t, since) == DOMAIN since \ Files(t)

\* load(): rows of paths; a missing parent row is made up.
load(rows) ==
  [p \in DOMAIN rows \cup UNION {Ancestors(q) : q \in DOMAIN rows} |->
     IF p \in DOMAIN rows THEN rows[p] ELSE DIR]
================================================================================
