-------------------------- MODULE InterpreterSnapshots --------------------------
(***************************************************************************)
(* The memory half of the interpreter Durable Object (InterpreterServer in *)
(* packages/interpreter/src/server.ts): context rows with their embedded   *)
(* snapshot record, the chunks table, the one resident instance, and the   *)
(* executions that move a context's memory between them.  Workspace files, *)
(* cwd, envVars and execution counters are left to other modules.          *)
(*                                                                         *)
(* Requests are serialized by a promise chain, so at most one execution is *)
(* in progress; its only await is the getFiles pull, between loading the   *)
(* context row and run(), which is synchronous.                            *)
(***************************************************************************)
EXTENDS LinearMemory, FiniteSets

CONSTANTS
  Contexts,      \* context ids
  MAX_CONTEXTS,  \* the interpreter's own cap
  BootMemory,    \* the memory of a freshly booted engine
  Builds,        \* engine builds
  Hooked,        \* the builds whose driver has an afterRestore hook
  Faults,        \* which of "boot", "storage", "alarm" this model admits
  PagesPerRun,   \* bound: how many pages one execution, or one hook, changes
  GuestPages,    \* bound: the pages an execution may change
  HookPages,     \* bound: the pages a hook may change
  MaxLifetimes,  \* bound: times the object is destroyed
  NONE           \* null

SnapshotRecord ==
  [build : Builds, memoryPages : Nat, chunkCount : Nat, stale : BOOLEAN]
ContextRow == [snapshot : SnapshotRecord \cup {NONE}]

Pages == 0 .. MaxPages - 1

\* What diffing keeps of a memory: some of its pages, with their hashes.
HashTables ==
  UNION {[S -> {HashOf[d] : d \in PageData}] : S \in SUBSET Pages}

(***************************************************************************)
(* The resident instance.  History: limited, a round since its last        *)
(* snapshot hit a limit; rewritten, the pages afterRestore changed when    *)
(* the instance was restored, and no snapshot has written since.           *)
(***************************************************************************)
Resident ==
  [contextId : Contexts, memory : Memory, limited : BOOLEAN, rewritten : SUBSET Pages,
   prevPageHashes : HashTables, chunkIds : SUBSET Nat]

\* History: what a snapshot was taken of.
Taken == [memory : Memory, rewritten : SUBSET Pages]

\* The images and instances of the abstract specification.
SavedImages   == [build : Builds, memory : Memory]
LiveInstances == [owner : Contexts, memory : Memory, unseen : SUBSET Pages]

ASSUME BootAssumption   == BootMemory \in Memory
ASSUME CapAssumption    == MAX_CONTEXTS \in Nat /\ MaxLifetimes \in Nat /\ PagesPerRun \in Nat
ASSUME HookedAssumption == Hooked \subseteq Builds
ASSUME NoneAssumption   == NONE \notin SnapshotRecord \cup ContextRow \cup Taken
ASSUME NoInstanceAssumption == NONE \notin Resident \cup SavedImages \cup LiveInstances

VARIABLES
  build,      \* engine.build of the running deployment
  contexts,   \* contexts table: NONE (no row) or [snapshot]
  chunks,     \* chunks table: per context, a function from stored chunk numbers
  resident,   \* the resident instance with its diffing state, or NONE
  running,    \* the execution in progress with the row it loaded, or NONE
  lifetime,   \* meta.lifetime: changes whenever the object is destroyed
  taken       \* history: the instance each stored snapshot was taken of, or NONE

vars == <<build, contexts, chunks, resident, running, lifetime, taken>>

Init ==
  /\ build \in Builds
  /\ contexts = [c \in Contexts |-> NONE]
  /\ chunks = [c \in Contexts |-> NoRows]
  /\ resident = NONE
  /\ running = NONE
  /\ lifetime = 0
  /\ taken = [c \in Contexts |-> NONE]

--------------------------------------------------------------------------------
(***************************************************************************)
(* Contexts.                                                               *)
(***************************************************************************)
LiveContexts == {c \in Contexts : contexts[c] # NONE}

CreateContext(c) ==
  /\ running = NONE
  /\ contexts[c] = NONE
  /\ Cardinality(LiveContexts) < MAX_CONTEXTS
  /\ contexts' = [contexts EXCEPT ![c] = [snapshot |-> NONE]]
  /\ UNCHANGED <<build, chunks, resident, running, lifetime, taken>>

\* Mutant: the chunk rows are left behind.
DeleteContextRowOnly(c) ==
  /\ running = NONE
  /\ contexts[c] # NONE
  /\ resident' = IF resident # NONE /\ resident.contextId = c THEN NONE ELSE resident
  /\ contexts' = [contexts EXCEPT ![c] = NONE]
  /\ taken' = [taken EXCEPT ![c] = NONE]
  /\ UNCHANGED <<build, chunks, running, lifetime>>

DeleteContext(c) ==
  /\ running = NONE
  /\ contexts[c] # NONE
  /\ resident' = IF resident # NONE /\ resident.contextId = c THEN NONE ELSE resident
  /\ chunks' = [chunks EXCEPT ![c] = NoRows]
  /\ contexts' = [contexts EXCEPT ![c] = NONE]
  /\ taken' = [taken EXCEPT ![c] = NONE]
  /\ UNCHANGED <<build, running, lifetime>>

--------------------------------------------------------------------------------
(***************************************************************************)
(* executeInContext up to its await: the row is loaded, and kept.          *)
(***************************************************************************)
BeginExecute(c) ==
  /\ running = NONE
  /\ contexts[c] # NONE
  /\ running' = [contextId |-> c, row |-> contexts[c], since |-> lifetime]
  /\ UNCHANGED <<build, contexts, chunks, resident, lifetime, taken>>

\* The pull throws, or leaves files missing: an error result, nothing done.
PullFails ==
  /\ running # NONE
  /\ running' = NONE
  /\ UNCHANGED <<build, contexts, chunks, resident, lifetime, taken>>

(***************************************************************************)
(* ensureInstance: reuse the resident instance, restore the stored         *)
(* snapshot of this build, or boot.  A snapshot of another build is        *)
(* dropped: its chunks at once, its record in memory only.                 *)
(***************************************************************************)
Reused(c) == resident # NONE /\ resident.contextId = c

\* Mutant: a snapshot of any build is restored.
UsableByAny(row) == row.snapshot # NONE

Usable(row) == row.snapshot # NONE /\ row.snapshot.build = build

DropsStaleBuild(c, row) == ~Reused(c) /\ row.snapshot # NONE /\ ~Usable(row)

\* The stored pages, replayed.
StoredMemory(c, row) == RestoredMemory(chunks[c], row.snapshot.memoryPages)

\* Guest code that writes only these pages can turn memory m into n.
Becomes(m, n, pages) ==
  LET changed == {p \in DOMAIN n : PageAt(n, p) # PageAt(m, p)}
  IN  /\ DOMAIN m \subseteq DOMAIN n
      /\ changed \subseteq pages
      /\ Cardinality(changed) <= PagesPerRun

GuestRun(m, n) == Becomes(m, n, GuestPages)
HookRun(m, n)  == Becomes(m, n, HookPages)

\* afterRestore evaluates guest code in the memory just restored.
AfterRestore(m, n) == IF build \in Hooked THEN HookRun(m, n) ELSE n = m

\* Mutant: the ids of the restored chunks are not recorded.
RestoredWithoutIds(c, row, memory) ==
  [contextId |-> c, memory |-> memory, limited |-> FALSE,
   rewritten |-> Differ(StoredMemory(c, row), memory),
   prevPageHashes |-> hashMemory(memory), chunkIds |-> {}]

\* The pages are hashed as the hook left them.
RestoredInstance(c, row, memory) ==
  [contextId |-> c, memory |-> memory, limited |-> FALSE,
   rewritten |-> Differ(StoredMemory(c, row), memory),
   prevPageHashes |-> hashMemory(memory), chunkIds |-> DOMAIN chunks[c]]

BootedInstance(c) ==
  [contextId |-> c, memory |-> BootMemory, limited |-> FALSE, rewritten |-> {},
   prevPageHashes |-> NoRows, chunkIds |-> {}]

\* Mutant: whoever is resident runs.
InstancesOfAnyone(c, row) ==
  IF resident # NONE THEN {[resident EXCEPT !.contextId = c]}
  ELSE IF Usable(row)
  THEN {RestoredInstance(c, row, memory) :
          memory \in {n \in Memory : AfterRestore(StoredMemory(c, row), n)}}
  ELSE {BootedInstance(c)}

Instances(c, row) ==
  IF Reused(c) THEN {resident}
  ELSE IF Usable(row)
  THEN {RestoredInstance(c, row, memory) :
          memory \in {n \in Memory : AfterRestore(StoredMemory(c, row), n)}}
  ELSE {BootedInstance(c)}

RowAfterEnsure(c, row) == IF DropsStaleBuild(c, row) THEN [snapshot |-> NONE] ELSE row
\* Mutant: the chunks of a stale build stay.
ChunksKept(c, row) == chunks[c]

ChunksAfterEnsure(c, row) == IF DropsStaleBuild(c, row) THEN NoRows ELSE chunks[c]
TakenAfterEnsure(c, row) == IF DropsStaleBuild(c, row) THEN NONE ELSE taken[c]

\* The pages among these that a snapshot does not write.
Unwritten(pages, hashes, prev) == {p \in pages : chunkOf(p) \notin TouchedChunks(hashes, prev)}

\* Mutant: removed chunks stay in chunkIds.
AfterSnapshotKeepingIds(inst, memory) ==
  LET hashes == hashMemory(memory)
  IN  [inst EXCEPT !.memory = memory,
                   !.limited = FALSE,
                   !.rewritten = Unwritten(@, hashes, inst.prevPageHashes),
                   !.prevPageHashes = hashes,
                   !.chunkIds = @ \cup UpsertChunks(hashes, inst.prevPageHashes)]

(***************************************************************************)
(* run(), rule 3: still resident, canSnapshot() and not a limit error.     *)
(* The diff is taken against prevPageHashes, and the writes, the record    *)
(* and the row are persisted in one transaction.                           *)
(***************************************************************************)
AfterSnapshot(inst, memory) ==
  LET hashes == hashMemory(memory)
  IN  [inst EXCEPT !.memory = memory,
                   !.limited = FALSE,
                   !.rewritten = Unwritten(@, hashes, inst.prevPageHashes),
                   !.prevPageHashes = hashes,
                   !.chunkIds = (@ \ RemoveChunks(hashes, inst.prevPageHashes))
                                \cup UpsertChunks(hashes, inst.prevPageHashes)]

RunSnapshots ==
  /\ running # NONE
  /\ LET c == running.contextId
     IN  \E inst \in Instances(c, running.row), memory \in Memory :
           /\ GuestRun(inst.memory, memory)
           /\ resident' = AfterSnapshot(inst, memory)
           /\ chunks' = [chunks EXCEPT ![c] =
                WriteChunks(ChunksAfterEnsure(c, running.row), memory,
                            inst.prevPageHashes)]
           /\ contexts' = [contexts EXCEPT ![c] =
                [snapshot |-> [build |-> build,
                               memoryPages |-> Cardinality(DOMAIN memory),
                               chunkCount |-> Cardinality(resident'.chunkIds),
                               stale |-> FALSE]]]
           /\ taken' = [taken EXCEPT ![c] =
                [memory |-> memory, rewritten |-> resident'.rewritten]]
  /\ running' = NONE
  /\ UNCHANGED <<build, lifetime>>

\* Mutant: no flag.
RowUnflagged(row, limited) == row

(***************************************************************************)
(* The guest keeps a file descriptor open (canSnapshot() is false): the    *)
(* record is flagged stale.  A limit error skips the snapshot as well, but *)
(* then `existing` is null and the record is left as it was.               *)
(***************************************************************************)
RowUnsnapshotted(row, limited) ==
  IF row.snapshot # NONE /\ ~limited THEN [row EXCEPT !.snapshot.stale = TRUE] ELSE row

RunWithoutSnapshot(limited) ==
  /\ running # NONE
  /\ LET c   == running.contextId
         row == RowAfterEnsure(c, running.row)
     IN  \E inst \in Instances(c, running.row), memory \in Memory :
           /\ GuestRun(inst.memory, memory)
           /\ resident' = [inst EXCEPT !.memory = memory,
                                       !.limited = limited \/ inst.limited]
           /\ chunks' = [chunks EXCEPT ![c] = ChunksAfterEnsure(c, running.row)]
           /\ contexts' = [contexts EXCEPT ![c] = RowUnsnapshotted(row, limited)]
           /\ taken' = [taken EXCEPT ![c] = TakenAfterEnsure(c, running.row)]
  /\ running' = NONE
  /\ UNCHANGED <<build, lifetime>>

RunHoldsDescriptor == RunWithoutSnapshot(FALSE)
RunHitsLimit       == RunWithoutSnapshot(TRUE)

\* Rules 1 and 2: execute() threw or left the instance invalid.
RunTraps ==
  /\ running # NONE
  /\ LET c == running.contextId
     IN  /\ chunks' = [chunks EXCEPT ![c] = ChunksAfterEnsure(c, running.row)]
         /\ contexts' = [contexts EXCEPT ![c] = RowAfterEnsure(c, running.row)]
         /\ taken' = [taken EXCEPT ![c] = TakenAfterEnsure(c, running.row)]
  /\ resident' = NONE
  /\ running' = NONE
  /\ UNCHANGED <<build, lifetime>>

(***************************************************************************)
(* "boot": the engine fails to boot or restore.  run() throws before       *)
(* persist(), so a stale build's chunks are gone but its record is kept.   *)
(***************************************************************************)
BootFails ==
  /\ "boot" \in Faults
  /\ running # NONE
  /\ LET c == running.contextId
     IN  /\ ~Reused(c)
         /\ chunks' = [chunks EXCEPT ![c] = ChunksAfterEnsure(c, running.row)]
  /\ resident' = NONE
  /\ running' = NONE
  /\ UNCHANGED <<build, contexts, lifetime, taken>>

(***************************************************************************)
(* "storage": the transaction of persist() fails and is rolled back.  When *)
(* it held a snapshot, prevPageHashes and chunkIds were advanced before it.*)
(***************************************************************************)
PersistFails ==
  /\ "storage" \in Faults
  /\ running # NONE
  /\ LET c == running.contextId
     IN  \E inst \in Instances(c, running.row), memory \in Memory :
           /\ GuestRun(inst.memory, memory)
           /\ resident' \in {AfterSnapshot(inst, memory), [inst EXCEPT !.memory = memory]}
           /\ chunks' = [chunks EXCEPT ![c] = ChunksAfterEnsure(c, running.row)]
  /\ running' = NONE
  /\ UNCHANGED <<build, contexts, lifetime, taken>>

--------------------------------------------------------------------------------
(***************************************************************************)
(* The object's own life: eviction or a crash, a deployment of another     *)
(* build (or a rollback), and destroy() by DELETE or by the idle alarm.   *)
(***************************************************************************)
Evict ==
  /\ resident # NONE \/ running # NONE
  /\ resident' = NONE
  /\ running' = NONE
  /\ UNCHANGED <<build, contexts, chunks, lifetime, taken>>

Deploy ==
  /\ \E b \in Builds \ {build} : build' = b
  /\ resident' = NONE
  /\ running' = NONE
  /\ UNCHANGED <<contexts, chunks, lifetime, taken>>

\* Mutant: the chunks table is not wiped.
DestroyKeepingChunks ==
  /\ lifetime < MaxLifetimes
  /\ contexts' = [c \in Contexts |-> NONE]
  /\ taken' = [c \in Contexts |-> NONE]
  /\ resident' = NONE
  /\ lifetime' = lifetime + 1
  /\ UNCHANGED <<build, chunks, running>>

Destroy ==
  /\ lifetime < MaxLifetimes
  /\ contexts' = [c \in Contexts |-> NONE]
  /\ chunks' = [c \in Contexts |-> NoRows]
  /\ taken' = [c \in Contexts |-> NONE]
  /\ resident' = NONE
  /\ lifetime' = lifetime + 1
  /\ UNCHANGED <<build, running>>

DestroyWhileIdle == running = NONE /\ Destroy

\* "alarm": alarm() is not queued, so it can run during the getFiles await.
AlarmDuringPull == "alarm" \in Faults /\ running # NONE /\ Destroy

Next ==
  \/ \E c \in Contexts : CreateContext(c) \/ DeleteContext(c) \/ BeginExecute(c)
  \/ PullFails
  \/ RunSnapshots
  \/ RunHoldsDescriptor
  \/ RunHitsLimit
  \/ RunTraps
  \/ BootFails
  \/ PersistFails
  \/ Evict
  \/ Deploy
  \/ DestroyWhileIdle
  \/ AlarmDuringPull

Spec == Init /\ [][Next]_vars

--------------------------------------------------------------------------------
ChunkData == [0 .. CHUNK_PAGES - 1 -> PageContents]

(***************************************************************************)
(* Every variable has its type (ContextRow, Resident and the tables).      *)
(***************************************************************************)
TypeOK ==
  /\ build \in Builds
  /\ contexts \in [Contexts -> ContextRow \cup {NONE}]
  /\ \A c \in Contexts :
       /\ DOMAIN chunks[c] \subseteq Nat
       /\ \A k \in DOMAIN chunks[c] : chunks[c][k] \in ChunkData
  /\ resident \in Resident \cup {NONE}
  /\ running # NONE =>
       /\ running.contextId \in Contexts
       /\ running.row \in ContextRow
       /\ running.since \in Nat
  /\ lifetime \in Nat
  /\ taken \in [Contexts -> Taken \cup {NONE}]

SnapshotOf(c) == IF contexts[c] = NONE THEN NONE ELSE contexts[c].snapshot

\* What a restore would replay.
SavedMemory(c) == StoredMemory(c, contexts[c])

(***************************************************************************)
(* Restoring what is stored gives the memory the snapshot was taken of,    *)
(* but for pages that afterRestore rewrote when the instance snapshotted   *)
(* was itself restored, in chunks no snapshot has written since -- so      *)
(* exactly that memory, for an engine without the hook.  A long history of *)
(* incremental chunk diffs over boots, restores, context switches,         *)
(* stale-build drops and evictions leaves no other stale, missing or       *)
(* surplus page ("leave the existing snapshot record untouched -- it still *)
(* describes a genuinely valid prior state").                              *)
(***************************************************************************)
StoredImageIsLastSnapshot ==
  \A c \in Contexts : SnapshotOf(c) # NONE =>
    /\ DOMAIN SavedMemory(c) = DOMAIN taken[c].memory
    /\ Differ(SavedMemory(c), taken[c].memory) \subseteq taken[c].rewritten
    /\ SnapshotOf(c).build \notin Hooked => SavedMemory(c) = taken[c].memory

(***************************************************************************)
(* The comment in ensureInstance: "The restored instance's memory isn't    *)
(* necessarily identical to what was stored [...] -- hash it once so the   *)
(* next diff is exact."  An exact diff would store the memory whole; the   *)
(* pages afterRestore rewrote are hashed as if they were stored already.   *)
(***************************************************************************)
DiffAfterRestoreIsExact ==
  \A c \in Contexts : SnapshotOf(c) # NONE => SavedMemory(c) = taken[c].memory

(***************************************************************************)
(* The resident's chunkIds, kept incrementally, are "the chunks actually   *)
(* stored for this context".                                               *)
(***************************************************************************)
ChunkIdsAreStored ==
  resident # NONE => resident.chunkIds = DOMAIN chunks[resident.contextId]

(***************************************************************************)
(* The footprint reported as storedBytes is the number of rows stored,     *)
(* although the count is kept in memory and never read back.               *)
(***************************************************************************)
ChunkCountIsExact ==
  \A c \in Contexts : SnapshotOf(c) # NONE =>
    SnapshotOf(c).chunkCount = Cardinality(DOMAIN chunks[c])

(***************************************************************************)
(* No chunk row outlives the snapshot record it belongs to: nothing would  *)
(* ever delete it, and the next snapshot of that context would adopt it.   *)
(* This holds through failed boots, failed transactions and an alarm in    *)
(* the middle of an execution.                                             *)
(***************************************************************************)
NoOrphanChunks ==
  \A c \in Contexts : SnapshotOf(c) = NONE => chunks[c] = NoRows

\* The stored snapshot of the resident's context is the memory it runs on.
StoredIsCurrent ==
  Differ(SavedMemory(resident.contextId), resident.memory) \subseteq resident.rewritten

(***************************************************************************)
(* While a context is resident, either its stored snapshot is the memory   *)
(* it runs on (but for what afterRestore rewrote), or the record says      *)
(* stale -- unless a round ended by an ExecutionLimitError, which the code *)
(* does not flag.                                                          *)
(***************************************************************************)
BehindIsFlaggedOrLimited ==
  resident # NONE /\ SnapshotOf(resident.contextId) # NONE =>
    \/ SnapshotOf(resident.contextId).stale
    \/ resident.limited
    \/ StoredIsCurrent

(***************************************************************************)
(* The comment in run() about an open descriptor or an ExecutionLimitError:*)
(* "restoring the on-disk snapshot later would replay an older memory      *)
(* image than what this execution produced. Flag it so the response's      *)
(* context.snapshot.stale is true".                                        *)
(***************************************************************************)
BehindIsFlagged ==
  resident # NONE /\ SnapshotOf(resident.contextId) # NONE =>
    \/ SnapshotOf(resident.contextId).stale
    \/ StoredIsCurrent

(***************************************************************************)
(* "in-flight work started before a destroy cannot write into the new      *)
(* session": an execution begun in an earlier lifetime stores nothing.     *)
(***************************************************************************)
InFlightCannotWrite ==
  [][running # NONE /\ running.since # lifetime =>
       /\ \A c \in Contexts : contexts'[c] # NONE => contexts'[c] = contexts[c]
       /\ \A c \in Contexts : chunks'[c] # NoRows => chunks'[c] = chunks[c]]_vars

(***************************************************************************)
(* The chunked, incremental storage implements plain per-context images.   *)
(***************************************************************************)
SavedImage(c) ==
  IF SnapshotOf(c) = NONE THEN NONE
  ELSE [build |-> SnapshotOf(c).build, memory |-> SavedMemory(c)]

LiveInstance ==
  IF resident = NONE THEN NONE
  ELSE [owner |-> resident.contextId, memory |-> resident.memory,
        unseen |-> resident.rewritten]

Abstract == INSTANCE ContextMemory WITH
  Boot <- BootMemory, Runs <- GuestRun, Images <- Memory,
  Rewrites <- HookRun, Places <- Pages, engine <- build,
  known <- LiveContexts, saved <- [c \in Contexts |-> SavedImage(c)],
  live <- LiveInstance

(***************************************************************************)
(* Every step of the interpreter is a step of ContextMemory: a context     *)
(* never continues from anything but its live, its last saved (as the      *)
(* engine restores it), or a fresh memory, and what is saved of a memory   *)
(* lacks at most what afterRestore rewrote in it.                          *)
(***************************************************************************)
ImplementsContextMemory == Abstract!Spec

================================================================================
