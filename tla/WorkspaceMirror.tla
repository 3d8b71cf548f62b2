----------------------------- MODULE WorkspaceMirror -----------------------------
(***************************************************************************)
(* /workspace between the sandbox Durable Object, which owns it, its files *)
(* table, and the in-memory mirror each interpreter keeps                  *)
(* (packages/core/src/sandbox.ts, handleFiles and handleExecute;           *)
(* packages/interpreter/src/server.ts, executeInContextImpl and run).      *)
(*                                                                         *)
(* Sandbox requests are serialized, so at most one execution is in flight  *)
(* and no file operation runs beside it; but either object can be evicted, *)
(* and the call or its answer lost, at each of its steps.                  *)
(***************************************************************************)
EXTENDS WorkspaceTree

CONSTANTS
  Interpreters,  \* the bindings that hold a context of this sandbox
  Retypes,       \* which of "file to dir", "dir to file" a guest may do in one run
  Faults,        \* which of "storage", "alarm" this model admits
  NONE           \* no call in flight

VARIABLES
  tree,           \* the sandbox's workspace, in memory
  files,          \* the files table: rows by path
  changesSince,   \* hashes of the files as of the last persist
  persistedDirs,  \* directories as of the last persist
  mirror,         \* per interpreter: its workspace, in memory only
  call,           \* the executeInContext call in flight, or NONE
  acked,          \* history: the tree when a request last succeeded
  intact          \* history: no transaction has failed, and none has found a file
                  \* where the table had a directory

vars == <<tree, files, changesSince, persistedDirs, mirror, call, acked, intact>>
sandbox == <<tree, files, changesSince, persistedDirs, acked, intact>>

Phases == {"sent", "pulling", "ready", "ran", "raised"}
FileMaps  == UNION {[S -> Contents] : S \in SUBSET Paths}
Responses == [dirs : SUBSET Paths, files : FileMaps, deleted : SUBSET Paths]
Calls == [interpreter : Interpreters, phase : Phases, wanted : SUBSET Paths,
          response : Responses]

ASSUME NoneAssumption == NONE \notin Calls

NoResponse == [dirs |-> {}, files |-> EmptyTree, deleted |-> {}]

Init ==
  /\ tree = EmptyTree
  /\ files = EmptyTree
  /\ changesSince = EmptyTree
  /\ persistedDirs = {}
  /\ mirror = [i \in Interpreters |-> EmptyTree]
  /\ call = NONE
  /\ acked = EmptyTree
  /\ intact = TRUE

--------------------------------------------------------------------------------
(***************************************************************************)
(* persistWorkspace: the file diff and the directory diff against what the *)
(* object believes is stored, in one transaction, in this order: files     *)
(* deleted, files written, directories deleted, directories added.         *)
(***************************************************************************)
DeleteRows(rows, paths) == Restricted(rows, Paths \ paths)
UpsertRows(rows, new)   == Override(new, rows)

\* Mutant: directories are not persisted.
PersistedFileRows(t) ==
  LET changed == ChangedFiles(t, changesSince)
      rows1   == DeleteRows(files, DeletedFiles(t, changesSince))
  IN  UpsertRows(rows1, [p \in changed |-> t[p]])

PersistedRows(t) ==
  LET changed == ChangedFiles(t, changesSince)
      added   == Directories(t) \ persistedDirs
      removed == persistedDirs \ Directories(t)
      rows1   == DeleteRows(files, DeletedFiles(t, changesSince))
      rows2   == UpsertRows(rows1, [p \in changed |-> t[p]])
      rows3   == DeleteRows(rows2, removed)
  IN  UpsertRows(rows3, [p \in added |-> DIR])

\* The request succeeds with tree t.
Succeed(t) ==
  /\ tree' = t
  /\ files' = PersistedRows(t)
  /\ changesSince' = FileHashes(t)
  /\ persistedDirs' = Directories(t)
  /\ acked' = t
  /\ intact' = (intact /\ Files(t) \cap persistedDirs = {})

\* "storage": the transaction fails after the diffing state has advanced.
PersistFails(t) ==
  /\ "storage" \in Faults
  /\ tree' = t
  /\ changesSince' = FileHashes(t)
  /\ persistedDirs' = Directories(t)
  /\ intact' = FALSE
  /\ UNCHANGED <<files, acked>>

Persist(t) == Succeed(t) \/ PersistFails(t)

--------------------------------------------------------------------------------
(***************************************************************************)
(* The file operations of handleFiles.  One that fails changes nothing,    *)
(* but for the directories a recursive mkdir made before the limit.        *)
(***************************************************************************)
Idle == call = NONE

WriteFile(p, content) ==
  /\ Idle
  /\ CanWrite(tree, p)
  /\ Persist(write(tree, p, content))
  /\ UNCHANGED <<mirror, call>>

Mkdir(p) ==
  /\ Idle
  /\ CanMkdir(tree, p)
  /\ Persist(mkdir(tree, p))
  /\ UNCHANGED <<mirror, call>>

MkdirRecursive(p) ==
  /\ Idle
  /\ CanMkdirRecursive(tree, p)
  /\ Persist(mkdirRecursive(tree, p))
  /\ UNCHANGED <<mirror, call>>

MkdirRecursiveFails(p) ==
  /\ Idle
  /\ NoFileOnTheWay(tree, p)
  /\ ~CanMkdirRecursive(tree, p)
  /\ tree' = mkdirRecursive(tree, p)
  /\ UNCHANGED <<files, changesSince, persistedDirs, mirror, call, acked, intact>>

DeleteFile(p) ==
  /\ Idle
  /\ \E recursive, force \in BOOLEAN : CanDelete(tree, p, recursive, force)
  /\ Persist(delete(tree, p))
  /\ UNCHANGED <<mirror, call>>

RenameFile(p, q) ==
  /\ Idle
  /\ CanRename(tree, p, q)
  /\ DOMAIN rename(tree, p, q) \subseteq Paths   \* bound: stay in the model's paths
  /\ Persist(rename(tree, p, q))
  /\ UNCHANGED <<mirror, call>>

--------------------------------------------------------------------------------
(***************************************************************************)
(* handleExecute: the manifest of tree is sent; the tree cannot change     *)
(* while the call is in flight, so the payload is not stored.              *)
(***************************************************************************)
Execute(i) ==
  /\ Idle
  /\ call' = [interpreter |-> i, phase |-> "sent", wanted |-> {},
              response |-> NoResponse]
  /\ UNCHANGED <<sandbox, mirror>>

InPhase(phase) == call # NONE /\ call.phase = phase

\* The mirror after applySync with the manifest and the given file contents.
Reconciled(i, pulled) ==
  applySyncManifest(mirror[i], Directories(tree), pulled, FileHashes(tree))

Reconcile ==
  /\ InPhase("sent")
  /\ LET i      == call.interpreter
         t      == Reconciled(i, EmptyTree)
         wanted == missing(t, FileHashes(tree))
     IN  /\ mirror' = [mirror EXCEPT ![i] = t]
         /\ call' = [call EXCEPT !.wanted = wanted,
                                 !.phase = IF wanted = {} THEN "ready" ELSE "pulling"]
  /\ UNCHANGED sandbox

\* getFiles has answered for paths; if any file is still missing the call fails.
PullOf(paths) ==
  /\ InPhase("pulling")
  /\ LET i == call.interpreter
         t == Reconciled(i, [p \in paths \cap Files(tree) |-> tree[p]])
     IN  /\ mirror' = [mirror EXCEPT ![i] = t]
         /\ call' = IF missing(t, FileHashes(tree)) = {}
                    THEN [call EXCEPT !.phase = "ready"] ELSE NONE
  /\ UNCHANGED sandbox

\* Mutant: one path per round.
PullOnePath == PullOf({CHOOSE p \in call.wanted : TRUE})

Pull == PullOf(call.wanted)

\* What a guest run may turn a tree into.
GuestMay(before, after) ==
  \A p \in DOMAIN before \cap DOMAIN after :
    /\ before[p] # DIR /\ after[p] = DIR => "file to dir" \in Retypes
    /\ before[p] = DIR /\ after[p] # DIR => "dir to file" \in Retypes

\* Mutant: deletions are not reported.
ResponseWithoutDeleted(before, after) ==
  [dirs    |-> Directories(after),
   files   |-> [p \in ChangedFiles(after, FileHashes(before)) |-> after[p]],
   deleted |-> {}]

\* buildWorkspaceResponse after a run without error.
Response(before, after) ==
  [dirs    |-> Directories(after),
   files   |-> [p \in ChangedFiles(after, FileHashes(before)) |-> after[p]],
   deleted |-> DeletedFiles(after, FileHashes(before))]

Run ==
  /\ InPhase("ready")
  /\ LET i == call.interpreter
     IN  \E after \in Trees :
           /\ GuestMay(mirror[i], after)
           /\ mirror' = [mirror EXCEPT ![i] = after]
           /\ call' = [call EXCEPT !.phase = "ran",
                                   !.response = Response(mirror[i], after)]
  /\ UNCHANGED sandbox

\* The same names, of the same kinds.
SameNames(t, u) == Directories(t) = Directories(u) /\ Files(t) = Files(u)

(***************************************************************************)
(* A guest error rolls the mirror back and reports no files.  The rows that*)
(* restoreFrom puts back hold the files' own buffers: what the guest wrote *)
(* into one in place is still there.                                       *)
(***************************************************************************)
RunRaises ==
  /\ InPhase("ready")
  /\ LET i == call.interpreter
     IN  \E left \in Trees :
           /\ SameNames(mirror[i], left)
           /\ mirror' = [mirror EXCEPT ![i] = left]
           /\ call' = [call EXCEPT !.phase = "raised",
                                   !.response = [dirs |-> Directories(left),
                                                 files |-> EmptyTree, deleted |-> {}]]
  /\ UNCHANGED sandbox

Answered == InPhase("ran") \/ InPhase("raised")

\* The sandbox applies the response to its own tree and persists.
Deliver ==
  /\ Answered
  /\ Persist(applySyncDeleted(tree, call.response.dirs, call.response.files,
                              call.response.deleted))
  /\ call' = NONE
  /\ UNCHANGED mirror

--------------------------------------------------------------------------------
(***************************************************************************)
(* Failures.  A lost call or answer is a thrown RPC error (502).  An       *)
(* evicted sandbox forgets its call and loads the files table again, here  *)
(* at once, in the code with its next request.  load() raises a TypeError  *)
(* on a row below a file's row, and no request gets any further.           *)
(***************************************************************************)
CallLost == call # NONE /\ call' = NONE /\ UNCHANGED <<sandbox, mirror>>

EvictInterpreter(i) ==
  /\ mirror' = [mirror EXCEPT ![i] = EmptyTree]
  /\ call' = IF call # NONE /\ call.interpreter = i THEN NONE ELSE call
  /\ UNCHANGED sandbox

\* "alarm": alarm() is not queued, so the idle alarm may destroy the mirror at
\* any await of a call -- but not in run(), where there is none.
InterpreterExpires(i) ==
  /\ "alarm" \in Faults
  /\ mirror[i] # EmptyTree
  /\ InPhase("ready") => call.interpreter # i
  /\ mirror' = [mirror EXCEPT ![i] = EmptyTree]
  /\ UNCHANGED <<sandbox, call>>

Loads(rows) == \A p \in DOMAIN rows : \A q \in Ancestors(p) :
  q \in DOMAIN rows => rows[q] = DIR

\* Mutant: the diffing state is not rebuilt from the table.
EvictForgettingHashes ==
  /\ Loads(files)
  /\ tree' = load(files)
  /\ changesSince' = EmptyTree
  /\ persistedDirs' = {p \in DOMAIN files : files[p] = DIR}
  /\ call' = NONE
  /\ UNCHANGED <<files, mirror, acked, intact>>

EvictSandbox ==
  /\ Loads(files)
  /\ tree' = load(files)
  /\ changesSince' = FileHashes(load(files))
  /\ persistedDirs' = {p \in DOMAIN files : files[p] = DIR}
  /\ call' = NONE
  /\ UNCHANGED <<files, mirror, acked, intact>>

Next ==
  \/ \E p \in Paths :
       \/ \E content \in Contents : WriteFile(p, content)
       \/ Mkdir(p)
       \/ MkdirRecursive(p)
       \/ MkdirRecursiveFails(p)
       \/ DeleteFile(p)
       \/ \E q \in Paths : RenameFile(p, q)
  \/ \E i \in Interpreters : Execute(i) \/ EvictInterpreter(i) \/ InterpreterExpires(i)
  \/ Reconcile
  \/ Pull
  \/ Run
  \/ RunRaises
  \/ Deliver
  \/ CallLost
  \/ EvictSandbox

Spec == Init /\ [][Next]_vars

--------------------------------------------------------------------------------
(***************************************************************************)
(* Every variable has its type; in particular every tree is a tree.        *)
(***************************************************************************)
TypeOK ==
  /\ tree \in Trees
  /\ acked \in Trees
  /\ files \in UNION {[S -> Contents \cup {DIR}] : S \in SUBSET Paths}
  /\ changesSince \in FileMaps
  /\ persistedDirs \subseteq Paths
  /\ mirror \in [Interpreters -> Trees]
  /\ call \in Calls \cup {NONE}
  /\ intact \in BOOLEAN

(***************************************************************************)
(* What a successful request left is what the files table would give back  *)
(* after an eviction, empty directories included ("survive across          *)
(* executions, redeploys, and Durable Object eviction"); and the two       *)
(* in-memory diffing states, from which every later write to the table is  *)
(* computed and which are never checked against it, describe it.           *)
(***************************************************************************)
AckedIsDurable == load(files) = acked

DiffingStateIsStored ==
  /\ changesSince = FileHashes(files)
  /\ persistedDirs = Directories(files)

TableIsExact == intact => AckedIsDurable /\ DiffingStateIsStored

(***************************************************************************)
(* Guest code runs on exactly the sandbox's files and directories,         *)
(* whatever the mirror held before: stale contents, paths of another type, *)
(* leftovers of a lost answer, nothing after an eviction.                  *)
(***************************************************************************)
GuestSeesTheWorkspace == InPhase("ready") => mirror[call.interpreter] = tree

(***************************************************************************)
(* One round of getFiles is enough: the error "Sandbox did not provide     *)
(* workspace file(s)" is never raised, unless the interpreter's alarm      *)
(* destroys the mirror during the pull.                                    *)
(***************************************************************************)
OnePullSuffices == [][InPhase("pulling") /\ Pull => call' # NONE]_vars

(***************************************************************************)
(* Once the response to a run is applied, sandbox and interpreter agree    *)
(* ("nothing but eviction can make an interpreter's mirror diverge from    *)
(* the manifest").  The response to a run that raised leaves the sandbox's *)
(* tree alone, whatever the mirror is left with.                           *)
(***************************************************************************)
DeliveryAgrees ==
  [][Deliver => tree' = IF InPhase("ran") THEN mirror[call.interpreter] ELSE tree]_vars

================================================================================
