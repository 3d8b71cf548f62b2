------------------------------- MODULE GuestFiles -------------------------------
(***************************************************************************)
(* The interpreter's /workspace as a guest compiled to Wasm sees it: the   *)
(* in-memory Workspace of InterpreterServer                                *)
(* (packages/interpreter/src/server.ts), mounted into the resident         *)
(* instance by the WASI host (packages/interpreter/src/wasi.ts), with the  *)
(* file objects, the byte buffers they point to and the descriptors the    *)
(* guest may keep open from one execution to the next.                     *)
(*                                                                         *)
(* WorkspaceMirror treats a mirror as a tree of contents.  Here the same   *)
(* mirror has identities: serialize() and restoreFrom() hand buffers       *)
(* around, and a descriptor keeps the file object it was opened on.  Files *)
(* lie directly under /workspace.                                          *)
(***************************************************************************)
EXTENDS Naturals, FiniteSets, Functions

CONSTANTS
  Names,            \* file names
  Texts,            \* what the bytes of a file say
  Fds,              \* descriptors beyond fdBase
  MAX_FILE_BYTES,   \* LIMITS of packages/core/src/workspace.ts
  MAX_TOTAL_BYTES,
  MaxSize,          \* bound: the size a guest lets a file grow to
  MaxCalls,         \* bound: system calls in one execution
  NONE              \* null

ASSUME SizesAssumption == /\ MAX_FILE_BYTES \in Nat /\ MAX_TOTAL_BYTES \in Nat
                          /\ MaxSize \in Nat /\ MaxCalls \in Nat
ASSUME FiniteAssumption == IsFiniteSet(Names) /\ IsFiniteSet(Fds)

\* Enough identities for everything that can be reachable at once.
Inodes  == 1 .. (Cardinality(Names) + Cardinality(Fds))
Buffers == 1 .. (2 * Cardinality(Names) + Cardinality(Fds) + 1)

Content == [size : 0 .. MaxSize, text : Texts \cup {NONE}]
EmptyContent == [size |-> 0, text |-> NONE]
Tree == [Names -> Content \cup {NONE}]
EmptyTree == [n \in Names |-> NONE]

VARIABLES
  enabled,   \* the sandbox: SANDBOX_FILE_API # "disabled"
  tree,      \* the sandbox: its workspace
  disabled,  \* workspace.disabled of the interpreter
  root,      \* which Workspace object the interpreter holds (two take turns)
  mirror,    \* its root.contents: file object by name, or NONE
  file,      \* File.data: the buffer of each file object
  heap,      \* what each buffer holds
  fds,       \* the file object each descriptor was opened on, or NONE
  resident,  \* the root the resident instance has mounted, or NONE
  before,    \* run(): rows of serialize(), as buffers
  call       \* the executeInContext in progress, or NONE

vars == <<enabled, tree, disabled, root, mirror, file, heap, fds, resident,
          before, call>>

Init ==
  /\ enabled \in BOOLEAN
  /\ tree = EmptyTree
  /\ disabled = FALSE
  /\ root = 0
  /\ mirror = EmptyTree
  /\ file = <<>>
  /\ heap = <<>>
  /\ fds = [d \in Fds |-> NONE]
  /\ resident = NONE
  /\ before = EmptyTree
  /\ call = NONE

--------------------------------------------------------------------------------
(***************************************************************************)
(* The heap.                                                               *)
(***************************************************************************)
Held(f) == Range(f) \ {NONE}

\* The objects after a step; what nothing reaches any more is garbage.
Objects(m, d, f, h, b) ==
  LET inodes  == Held(m) \cup Held(d)
      buffers == {f[i] : i \in inodes} \cup Held(b)
  IN  /\ mirror' = m
      /\ fds' = d
      /\ before' = b
      /\ file' = [i \in inodes |-> f[i]]
      /\ heap' = [x \in buffers |-> h[x]]

Free(ids, used) == CHOOSE i \in ids \ used : TRUE

\* A file object or a buffer, new or not, comes to hold v.
Put(f, x, v) == [y \in DOMAIN f \cup {x} |-> IF y = x THEN v ELSE f[y]]

\* So do those of new, one for each of some names.
PutAll(f, new, v) ==
  LET objects == Range(new)
  IN  [y \in DOMAIN f \cup objects |->
         IF y \in objects THEN v[CHOOSE n \in DOMAIN new : new[n] = y] ELSE f[y]]

\* New file objects for some names, each on a buffer of its own.
Numbering(S, ids) == CHOOSE g \in [S -> ids] : IsInjective(g)

ContentsOf(m, f, h) == [n \in Names |-> IF m[n] = NONE THEN NONE ELSE h[f[m[n]]]]
Contents == ContentsOf(mirror, file, heap)

NoBefore == EmptyTree
NoFds == [d \in Fds |-> NONE]

--------------------------------------------------------------------------------
(***************************************************************************)
(* The sandbox: its File API between executions, and its setting, which    *)
(* changes when the caller's Worker is deployed anew.                      *)
(***************************************************************************)
Bytes(t) == FoldFunction(+, 0, [n \in Names |-> IF t[n] = NONE THEN 0 ELSE t[n].size])

CanWrite(n, c) ==
  /\ c.size <= MAX_FILE_BYTES
  /\ Bytes([tree EXCEPT ![n] = c]) <= MAX_TOTAL_BYTES

interpreter == <<disabled, root, mirror, file, heap, fds, resident, before, call>>

WriteFile(n) ==
  /\ call = NONE /\ enabled
  /\ \E c \in Content :
       /\ c.size = 0 <=> c.text = NONE
       /\ CanWrite(n, c)
       /\ tree' = [tree EXCEPT ![n] = c]
  /\ UNCHANGED <<enabled, interpreter>>

DeleteFile(n) ==
  /\ call = NONE /\ enabled
  /\ tree[n] # NONE
  /\ tree' = [tree EXCEPT ![n] = NONE]
  /\ UNCHANGED <<enabled, interpreter>>

SetFileApi ==
  /\ call = NONE
  /\ enabled' = ~enabled
  /\ UNCHANGED <<tree, interpreter>>

--------------------------------------------------------------------------------
(***************************************************************************)
(* executeInContext: the mirror is reconciled with the manifest, then the  *)
(* files whose hash differs are pulled, and the guest runs.                *)
(***************************************************************************)
\* Mutant: a file that is there is taken to be the right one.
OutdatedByName(now, manifest) ==
  {n \in Names : manifest[n] # NONE /\ now[n] = NONE}

Outdated(now, manifest) == {n \in Names : manifest[n] # NONE /\ now[n] # manifest[n]}

Named(m, manifest) == [n \in Names |-> IF manifest[n] = NONE THEN NONE ELSE m[n]]

\* buildSyncPayload: an empty manifest while the File API is disabled.
Manifest == IF enabled THEN tree ELSE EmptyTree

Running(manifest, missing, phase) ==
  [phase |-> phase, manifest |-> manifest, missing |-> missing, calls |-> 0, since |-> EmptyTree]

\* run() up to the guest: the instance is the resident one, or a new one without descriptors.
StartRun(m, f, h, manifest) ==
  \E reuse \in {r \in BOOLEAN : r => resident # NONE} :
    /\ Objects(m, IF reuse THEN fds ELSE NoFds, f, h,
               [n \in Names |-> IF m[n] = NONE THEN NONE ELSE f[m[n]]])
    /\ resident' = IF reuse THEN resident ELSE root
    /\ call' = [Running(manifest, {}, "run") EXCEPT !.since = ContentsOf(m, f, h)]

Execute ==
  /\ call = NONE
  /\ disabled' = ~enabled
  /\ LET kept    == Named(mirror, Manifest)
         missing == Outdated(ContentsOf(kept, file, heap), Manifest)
     IN  \/ /\ missing = {}
            /\ StartRun(kept, file, heap, Manifest)
         \/ /\ missing # {}
            /\ Objects(kept, fds, file, heap, NoBefore)
            /\ call' = Running(Manifest, missing, "pull")
            /\ UNCHANGED resident
  /\ UNCHANGED <<enabled, tree, root>>

InPhase(p) == call # NONE /\ call.phase = p

\* The file objects _putFile makes for what was pulled.
PulledFiles(pulled) ==
  Numbering(pulled, Inodes \ ({mirror[n] : n \in Names \ pulled} \cup Held(fds)))

\* The second applySync: _putFile makes a new file of what was pulled.
Pull ==
  /\ InPhase("pull")
  /\ LET pulled == call.missing
         node   == PulledFiles(pulled)
         buffer == Numbering(pulled, Buffers \ Range(file))
         m == [n \in Names |-> IF n \in pulled THEN node[n] ELSE mirror[n]]
         f == PutAll(file, node, buffer)
         h == PutAll(heap, buffer, call.manifest)
     IN  IF Outdated(ContentsOf(m, f, h), call.manifest) = {}
         THEN StartRun(m, f, h, call.manifest)
         ELSE /\ Objects(m, fds, f, h, NoBefore)
              /\ call' = NONE
              /\ UNCHANGED resident
  /\ UNCHANGED <<enabled, tree, disabled, root>>

\* getFiles throws, or its answer is refused.
PullFails ==
  /\ InPhase("pull")
  /\ call' = NONE
  /\ UNCHANGED <<enabled, tree, disabled, root, mirror, file, heap, fds, resident, before>>

--------------------------------------------------------------------------------
(***************************************************************************)
(* System calls.  The path operations ask workspaceDisabled() each time;   *)
(* reading, writing and closing a descriptor do not.                       *)
(***************************************************************************)
\* Mutant: the flag is not consulted.
gateAlways == TRUE

gate == ~disabled

Calling ==
  /\ InPhase("run")
  /\ call.calls < MaxCalls
  /\ call' = [call EXCEPT !.calls = @ + 1]
  /\ UNCHANGED <<enabled, tree, disabled, root, resident>>

FreshFile == Free(Inodes, Held(mirror) \cup Held(fds))
FreshBuffer == Free(Buffers, DOMAIN heap)

PathOpen(d, n) ==
  /\ fds[d] = NONE /\ mirror[n] # NONE
  /\ gate
  /\ Calling
  /\ Objects(mirror, [fds EXCEPT ![d] = mirror[n]], file, heap, before)

\* O_TRUNC: the file gets a new, empty buffer.
PathOpenTruncating(d, n) ==
  /\ fds[d] = NONE /\ mirror[n] # NONE
  /\ gate
  /\ Calling
  /\ Objects(mirror, [fds EXCEPT ![d] = mirror[n]],
             Put(file, mirror[n], FreshBuffer), Put(heap, FreshBuffer, EmptyContent), before)

\* O_CREAT: create_entry_for_path, whose entry becomes a WorkspaceFile.
PathOpenCreating(d, n) ==
  /\ fds[d] = NONE /\ mirror[n] = NONE
  /\ gate
  /\ Calling
  /\ Objects([mirror EXCEPT ![n] = FreshFile], [fds EXCEPT ![d] = FreshFile],
             Put(file, FreshFile, FreshBuffer), Put(heap, FreshBuffer, EmptyContent), before)

\* Inside the file the bytes are set in the buffer it has ...
FdOverwrite(d, t) ==
  /\ fds[d] # NONE
  /\ heap[file[fds[d]]].size > 0
  /\ Calling
  /\ Objects(mirror, fds, file, [heap EXCEPT ![file[fds[d]]].text = t], before)

\* ... and past its end they are set in a larger copy.  No limit applies.
FdGrow(d, t) ==
  /\ fds[d] # NONE
  /\ heap[file[fds[d]]].size < MaxSize
  /\ Calling
  /\ Objects(mirror, fds, Put(file, fds[d], FreshBuffer),
             Put(heap, FreshBuffer, [size |-> heap[file[fds[d]]].size + 1, text |-> t]), before)

FdClose(d) ==
  /\ fds[d] # NONE
  /\ Calling
  /\ Objects(mirror, [fds EXCEPT ![d] = NONE], file, heap, before)

\* Mutant: the entry is left undefined.
UnlinkedBlank(m, n) == [x \in DOMAIN m \ {n} |-> m[x]]

Unlinked(m, n) == [m EXCEPT ![n] = NONE]

PathUnlink(n) ==
  /\ mirror[n] # NONE
  /\ gate
  /\ Calling
  /\ Objects(Unlinked(mirror, n), fds, file, heap, before)

\* Mutant: the old name stays.
RenamedKeeping(m, from, to) == [m EXCEPT ![to] = m[from]]

Renamed(m, from, to) == [m EXCEPT ![to] = m[from], ![from] = NONE]

PathRename(from, to) ==
  /\ from # to /\ mirror[from] # NONE
  /\ gate
  /\ Calling
  /\ Objects(Renamed(mirror, from, to), fds, file, heap, before)

--------------------------------------------------------------------------------
(***************************************************************************)
(* The end of an execution.                                                *)
(***************************************************************************)
\* Mutant: a file counts as changed when it has another buffer.
ChangedBuffers == {n \in Names : mirror[n] # NONE => before[n] # file[mirror[n]]}

Changed == {n \in Names : Contents[n] # call.since[n]}

Succeeds ==
  /\ InPhase("run")
  /\ Objects(mirror, fds, file, heap, NoBefore)
  /\ call' = NONE
  /\ UNCHANGED <<enabled, disabled, root, resident>>

\* The sandbox applies the difference ...
IsStored ==
  /\ InPhase("run") /\ enabled
  /\ tree' = [n \in Names |-> IF n \in Changed THEN Contents[n] ELSE tree[n]]
  /\ Succeeds

\* ... unless the File API is disabled, or the answer is lost.
IsNotStored == Succeeds /\ UNCHANGED tree

\* restoreFrom(before): new file objects on the buffers of the rows.
RollBack(d) ==
  LET names == {n \in Names : before[n] # NONE}
      node  == Numbering(names, Inodes \ Held(d))
  IN  Objects([n \in Names |-> IF n \in names THEN node[n] ELSE NONE], d,
              PutAll(file, node, before), heap, NoBefore)

Raises ==
  /\ InPhase("run")
  /\ RollBack(fds)
  /\ call' = NONE
  /\ UNCHANGED <<enabled, tree, disabled, root, resident>>

\* The instance is invalid afterwards, and dropped.
Traps ==
  /\ InPhase("run")
  /\ RollBack(NoFds)
  /\ resident' = NONE
  /\ call' = NONE
  /\ UNCHANGED <<enabled, tree, disabled, root>>

\* Mutant: the instance stays.
KeepResident == resident

NoResident == NONE

\* DELETE, or the alarm, which may fire while files are pulled: a new Workspace.
Destroy ==
  /\ call = NONE \/ InPhase("pull")
  /\ Objects(EmptyTree, NoFds, file, heap, NoBefore)
  /\ root' = 1 - root
  /\ resident' = NoResident
  /\ disabled' = FALSE
  /\ UNCHANGED <<enabled, tree, call>>

\* The interpreter is evicted, and the call in progress is lost.
Evict ==
  /\ Objects(EmptyTree, NoFds, file, heap, NoBefore)
  /\ root' = 1 - root
  /\ resident' = NONE
  /\ disabled' = FALSE
  /\ call' = NONE
  /\ UNCHANGED <<enabled, tree>>

Next ==
  \/ \E n \in Names : WriteFile(n) \/ DeleteFile(n)
  \/ SetFileApi
  \/ Execute
  \/ Pull
  \/ PullFails
  \/ \E d \in Fds, n \in Names :
       PathOpen(d, n) \/ PathOpenTruncating(d, n) \/ PathOpenCreating(d, n)
  \/ \E d \in Fds, t \in Texts : FdOverwrite(d, t) \/ FdGrow(d, t)
  \/ \E d \in Fds : FdClose(d)
  \/ \E n \in Names : PathUnlink(n)
  \/ \E n, m \in Names : PathRename(n, m)
  \/ IsStored
  \/ IsNotStored
  \/ Raises
  \/ Traps
  \/ Destroy
  \/ Evict

Spec == Init /\ [][Next]_vars

--------------------------------------------------------------------------------
(***************************************************************************)
(* Every variable has its type: the file objects and buffers in the heap   *)
(* are those that something reaches.                                       *)
(***************************************************************************)
TypeOK ==
  /\ enabled \in BOOLEAN /\ disabled \in BOOLEAN
  /\ tree \in Tree
  /\ root \in {0, 1} /\ resident \in {NONE, 0, 1}
  /\ mirror \in [Names -> Inodes \cup {NONE}]
  /\ fds \in [Fds -> Inodes \cup {NONE}]
  /\ before \in [Names -> Buffers \cup {NONE}]
  /\ file \in [Held(mirror) \cup Held(fds) -> Buffers]
  /\ heap \in [Range(file) \cup Held(before) -> Content]

(***************************************************************************)
(* Whatever executions, rollbacks and lost answers did to the mirror, the  *)
(* guest starts from the sandbox's workspace, or from an empty one while   *)
(* the File API is disabled.                                               *)
(***************************************************************************)
GuestStartsFromTheWorkspace ==
  InPhase("run") /\ call.calls = 0 => Contents = Manifest

(***************************************************************************)
(* While an execution runs with the File API disabled there is no file     *)
(* under /workspace, and the guest makes none.                             *)
(***************************************************************************)
DisabledMirrorStaysEmpty == InPhase("run") /\ disabled => mirror = EmptyTree

(***************************************************************************)
(* The resident instance has mounted the Workspace the interpreter         *)
(* reconciles and diffs, and not one that destroy() has replaced.          *)
(***************************************************************************)
InstanceMountsTheMirror == resident # NONE => resident = root

(***************************************************************************)
(* Two names never lead to the same file or the same bytes: a write to one *)
(* file cannot change another.                                             *)
(***************************************************************************)
NamesNeverAlias ==
  \A n, m \in Names : n # m /\ mirror[n] # NONE /\ mirror[m] # NONE =>
                        file[mirror[n]] # file[mirror[m]]

(***************************************************************************)
(* The mirror guests work on is the interpreter's, and a function from     *)
(* names to files.                                                         *)
(***************************************************************************)
MirrorIsSound ==
  TypeOK /\ DisabledMirrorStaysEmpty /\ InstanceMountsTheMirror /\ NamesNeverAlias

(***************************************************************************)
(* When the sandbox has stored what an execution changed, both sides hold  *)
(* the same files, those written in place included.                        *)
(***************************************************************************)
StoredIsWhatTheGuestLeft ==
  [][IsStored => tree' = ContentsOf(mirror', file', heap')]_vars

(***************************************************************************)
(* docs/sandbox-1-0-design.md says that a guest error makes the            *)
(* interpreter roll its mirror back to the pre-run state.                  *)
(***************************************************************************)
RollbackDiscardsWrites ==
  [][Raises \/ Traps => ContentsOf(mirror', file', heap') = call.since]_vars

(***************************************************************************)
(* The same document says that with `disabled` every read and write of     *)
(* /workspace is refused: no byte of a file changes under such a run.      *)
(***************************************************************************)
DisabledRefusesWrites ==
  [][InPhase("run") /\ disabled =>
       \A b \in DOMAIN heap' : b \in DOMAIN heap /\ heap'[b] = heap[b]]_vars

(***************************************************************************)
(* packages/core/README.md gives the limits of a workspace: so much per    *)
(* file, and so much in all.                                               *)
(***************************************************************************)
WorkspaceWithinLimits ==
  /\ \A n \in Names : tree[n] # NONE => tree[n].size <= MAX_FILE_BYTES
  /\ Bytes(tree) <= MAX_TOTAL_BYTES
================================================================================
