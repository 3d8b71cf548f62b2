----------------------- MODULE InterpreterSnapshots_proofs -----------------------
(***************************************************************************)
(* Proofs about the interpreter's snapshots, for every set of contexts,    *)
(* every engine build, memory size and chunk size.                         *)
(***************************************************************************)
EXTENDS InterpreterSnapshots, FiniteSetTheorems, TLAPS

USE ChunkPagesAssumption, MaxPagesAssumption, ZeroAssumption

(***************************************************************************)
(* What the snapshot operators of LinearMemory compute, for every memory   *)
(* and chunk size.                                                         *)
(***************************************************************************)

\* A page lies in its chunk, at its offset.
LEMMA PageInChunk ==
  ASSUME NEW p \in Nat
  PROVE  /\ chunkOf(p) \in Nat /\ (p % CHUNK_PAGES) \in 0 .. CHUNK_PAGES - 1
         /\ chunkOf(p) * CHUNK_PAGES + (p % CHUNK_PAGES) = p
         /\ chunkOf(p) <= p
  BY Z3 DEF chunkOf

LEMMA ChunkOfOffset ==
  ASSUME NEW k \in Nat, NEW i \in 0 .. CHUNK_PAGES - 1
  PROVE  k * CHUNK_PAGES + i \in Nat /\ chunkOf(k * CHUNK_PAGES + i) = k
  BY Z3 DEF chunkOf

EmptyMemory == [p \in 0 .. -1 |-> ZERO]

\* The chunks a memory needs: those with a non-zero page.
ChunksOf(mem) == {chunkOf(p) : p \in NonZeroPages(mem)}

LEMMA MemoryShape ==
  ASSUME NEW mem \in Memory
  PROVE  \E n \in 0 .. MaxPages :
           /\ DOMAIN mem = 0 .. n - 1 /\ mem \in [0 .. n - 1 -> PageContents]
           /\ IsFiniteSet(DOMAIN mem) /\ Cardinality(DOMAIN mem) = n
  <1>1. PICK n \in 0 .. MaxPages : mem \in [0 .. n - 1 -> PageContents]
    BY DEF Memory
  <1>2. n \in Int /\ n - 1 \in Int /\ DOMAIN mem = 0 .. n - 1
    BY <1>1
  <1>3. IsFiniteSet(0 .. n - 1) /\ Cardinality(0 .. n - 1) = n
    BY <1>2, FS_Interval
  <1>. QED
    BY <1>1, <1>2, <1>3

LEMMA EmptyIsMemory == EmptyMemory \in Memory
  BY DEF EmptyMemory, Memory

LEMMA PageAtType ==
  ASSUME NEW mem \in Memory, NEW p
  PROVE  PageAt(mem, p) \in PageContents /\ (PageAt(mem, p) # ZERO <=> p \in NonZeroPages(mem))
  BY MemoryShape DEF PageAt, NonZeroPages, PageContents

LEMMA PagesAreNumbers ==
  ASSUME NEW mem \in Memory
  PROVE  NonZeroPages(mem) \subseteq Nat
  BY MemoryShape DEF NonZeroPages

LEMMA PagesAreInRange ==
  ASSUME NEW mem \in Memory
  PROVE  NonZeroPages(mem) \subseteq 0 .. MaxPages - 1
  BY MemoryShape, MaxPagesAssumption DEF NonZeroPages

LEMMA ChunksAreFinite ==
  ASSUME NEW mem \in Memory
  PROVE  IsFiniteSet(ChunksOf(mem)) /\ ChunksOf(mem) \subseteq Nat
  <1>1. PICK n \in 0 .. MaxPages : DOMAIN mem = 0 .. n - 1
    BY MemoryShape
  <1>2. ASSUME NEW p \in NonZeroPages(mem) PROVE chunkOf(p) \in 0 .. n
    <2>1. p \in Nat /\ p <= n
      BY <1>1 DEF NonZeroPages
    <2>. QED
      BY <2>1, PageInChunk
  <1>3. ChunksOf(mem) \subseteq 0 .. n
    BY <1>2 DEF ChunksOf
  <1>4. IsFiniteSet(0 .. n)
    BY FS_Interval
  <1>. QED
    BY <1>3, <1>4, FS_Subset

LEMMA ChunkType ==
  ASSUME NEW mem \in Memory, NEW k
  PROVE  readChunk(mem, k) \in [0 .. CHUNK_PAGES - 1 -> PageContents]
  BY PageAtType DEF readChunk

(***************************************************************************)
(* A chunk that no changed or removed page touches reads the same in both  *)
(* memories: this is where hashes stand for contents.                      *)
(***************************************************************************)
LEMMA UntouchedChunkIsUnchanged ==
  ASSUME NEW old \in Memory, NEW new \in Memory, NEW k \in Nat,
         k \notin TouchedChunks(hashMemory(new), hashMemory(old))
  PROVE  readChunk(new, k) = readChunk(old, k)
  <1> SUFFICES ASSUME NEW i \in 0 .. CHUNK_PAGES - 1
               PROVE  PageAt(new, k * CHUNK_PAGES + i) = PageAt(old, k * CHUNK_PAGES + i)
    BY DEF readChunk
  <1> DEFINE p == k * CHUNK_PAGES + i
  <1>1. chunkOf(p) = k
    BY ChunkOfOffset
  <1> HIDE DEF p
  <1>2. /\ p \notin ChangedPages(hashMemory(new), hashMemory(old))
        /\ p \notin RemovedPages(hashMemory(new), hashMemory(old))
    BY <1>1 DEF TouchedChunks
  <1>3. CASE p \in NonZeroPages(new)
    <2>1. p \in NonZeroPages(old) /\ HashOf[new[p]] = HashOf[old[p]]
      BY <1>2, <1>3 DEF ChangedPages, hashMemory
    <2>2. new[p] \in PageData /\ old[p] \in PageData
      BY <1>3, <2>1, MemoryShape DEF NonZeroPages, PageContents
    <2>. QED
      BY <1>3, <2>1, <2>2, HashAssumption DEF PageAt, NonZeroPages, p
  <1>4. CASE p \notin NonZeroPages(new)
    <2>1. p \notin NonZeroPages(old)
      BY <1>2, <1>4 DEF RemovedPages, hashMemory
    <2>2. PageAt(new, p) = ZERO /\ PageAt(old, p) = ZERO
      BY <1>4, <2>1, PageAtType
    <2>. QED
      BY <2>2 DEF p
  <1>. QED
    BY <1>3, <1>4

\* The chunks a memory needs are those that do not read zero.
LEMMA ChunksAreRead ==
  ASSUME NEW mem \in Memory
  PROVE  ChunksOf(mem) =
           {k \in Nat : \E i \in 0 .. CHUNK_PAGES - 1 : readChunk(mem, k)[i] # ZERO}
  <1>1. ASSUME NEW k \in ChunksOf(mem)
        PROVE  k \in Nat /\ \E i \in 0 .. CHUNK_PAGES - 1 : readChunk(mem, k)[i] # ZERO
    <2>1. PICK p \in NonZeroPages(mem) : k = chunkOf(p)
      BY DEF ChunksOf
    <2> DEFINE i == p % CHUNK_PAGES
    <2>2. p \in Nat /\ PageAt(mem, p) # ZERO
      BY PagesAreNumbers, PageAtType
    <2>3. k \in Nat /\ i \in 0 .. CHUNK_PAGES - 1 /\ k * CHUNK_PAGES + i = p
      BY <2>1, <2>2, PageInChunk
    <2> HIDE DEF i
    <2>4. readChunk(mem, k)[i] = PageAt(mem, p)
      BY <2>3 DEF readChunk
    <2>. QED
      BY <2>2, <2>3, <2>4
  <1>2. ASSUME NEW k \in Nat, NEW i \in 0 .. CHUNK_PAGES - 1, readChunk(mem, k)[i] # ZERO
        PROVE  k \in ChunksOf(mem)
    <2> DEFINE p == k * CHUNK_PAGES + i
    <2>1. p \in Nat /\ chunkOf(p) = k
      BY ChunkOfOffset
    <2>2. PageAt(mem, p) # ZERO
      BY <1>2 DEF readChunk
    <2> HIDE DEF p
    <2>. QED
      BY <2>1, <2>2, PageAtType DEF ChunksOf
  <1>. QED
    BY <1>1, <1>2

(***************************************************************************)
(* What is stored after the diff of new against old has been written over  *)
(* the image of base: the chunks touched are those of new, the others stay.*)
(***************************************************************************)
Overwritten(base, old, new) ==
  [p \in DOMAIN new |->
     IF chunkOf(p) \in TouchedChunks(hashMemory(new), hashMemory(old))
     THEN new[p] ELSE PageAt(base, p)]

LEMMA OverwrittenIsMemory ==
  ASSUME NEW base \in Memory, NEW old, NEW new \in Memory
  PROVE  /\ Overwritten(base, old, new) \in Memory
         /\ DOMAIN Overwritten(base, old, new) = DOMAIN new
  <1>1. PICK n \in 0 .. MaxPages :
          DOMAIN new = 0 .. n - 1 /\ new \in [0 .. n - 1 -> PageContents]
    BY MemoryShape
  <1>2. \A p \in DOMAIN new : new[p] \in PageContents /\ PageAt(base, p) \in PageContents
    BY <1>1, PageAtType
  <1>3. Overwritten(base, old, new) \in [0 .. n - 1 -> PageContents]
    BY <1>1, <1>2 DEF Overwritten
  <1>. QED
    BY <1>1, <1>3 DEF Memory, Overwritten

\* Incremental writes compose: on top of an image they leave an image.
LEMMA WritingGivesImage ==
  ASSUME NEW base \in Memory, NEW old \in Memory, NEW new \in Memory,
         DOMAIN base \subseteq DOMAIN new
  PROVE  WriteChunks(ChunkImage(base), new, hashMemory(old))
           = ChunkImage(Overwritten(base, old, new))
  <1> DEFINE touched == TouchedChunks(hashMemory(new), hashMemory(old))
             written == WriteChunks(ChunkImage(base), new, hashMemory(old))
             mixed == Overwritten(base, old, new)
  <1>m. mixed \in Memory /\ DOMAIN mixed = DOMAIN new
    BY OverwrittenIsMemory
  <1>1. /\ DOMAIN ChunkImage(base) = ChunksOf(base) /\ DOMAIN ChunkImage(mixed) = ChunksOf(mixed)
        /\ {chunkOf(p) : p \in DOMAIN hashMemory(new)} = ChunksOf(new)
    BY DEF ChunkImage, ChunksOf, hashMemory
  <1>2. /\ UpsertChunks(hashMemory(new), hashMemory(old)) = touched \cap ChunksOf(new)
        /\ RemoveChunks(hashMemory(new), hashMemory(old)) = touched \ ChunksOf(new)
    BY <1>1 DEF UpsertChunks, RemoveChunks
  <1>3. ASSUME NEW k \in Nat
        PROVE  readChunk(mixed, k) = IF k \in touched THEN readChunk(new, k) ELSE readChunk(base, k)
    <2>1. ASSUME NEW i \in 0 .. CHUNK_PAGES - 1
          PROVE  LET p == k * CHUNK_PAGES + i
                 IN  PageAt(mixed, p) = IF k \in touched THEN PageAt(new, p) ELSE PageAt(base, p)
      <3> DEFINE p == k * CHUNK_PAGES + i
      <3>1. chunkOf(p) = k
        BY ChunkOfOffset
      <3> HIDE DEF p
      <3>2. CASE p \in DOMAIN new
        <4>1. mixed[p] = IF k \in touched THEN new[p] ELSE PageAt(base, p)
          BY <3>1, <3>2 DEF Overwritten
        <4> HIDE DEF mixed, touched
        <4>. QED
          BY <1>m, <3>2, <4>1 DEF PageAt, p
      <3>3. CASE p \notin DOMAIN new
        <4> HIDE DEF mixed, touched
        <4>. QED
          BY <1>m, <3>3 DEF PageAt, p
      <3>. QED
        BY <3>2, <3>3
    <2> HIDE DEF mixed, touched
    <2>2. CASE k \in touched
      BY <2>1, <2>2 DEF readChunk
    <2>3. CASE k \notin touched
      BY <2>1, <2>3 DEF readChunk
    <2>. QED
      BY <2>2, <2>3
  <1>4. ChunksOf(mixed) = (touched \cap ChunksOf(new)) \cup (ChunksOf(base) \ touched)
    <2>1. \A k \in Nat : k \in ChunksOf(mixed) <=>
            IF k \in touched THEN k \in ChunksOf(new) ELSE k \in ChunksOf(base)
      <3> HIDE DEF mixed, touched
      <3>. QED
        BY <1>m, <1>3, ChunksAreRead
    <2>2. /\ ChunksOf(mixed) \subseteq Nat /\ ChunksOf(new) \subseteq Nat
          /\ ChunksOf(base) \subseteq Nat
      <3> HIDE DEF mixed
      <3>. QED
        BY <1>m, ChunksAreFinite
    <2> HIDE DEF mixed, touched
    <2>. QED
      BY <2>1, <2>2
  <1>5. DOMAIN written = ChunksOf(mixed)
    <2>1. DOMAIN written = (ChunksOf(base) \ (touched \ ChunksOf(new)))
                           \cup (touched \cap ChunksOf(new))
      BY <1>1, <1>2 DEF WriteChunks
    <2> HIDE DEF touched, written, mixed
    <2>. QED
      BY <1>4, <2>1
  <1>6. ASSUME NEW k \in ChunksOf(mixed) PROVE written[k] = readChunk(mixed, k)
    <2>1. written[k] = IF k \in touched \cap ChunksOf(new) THEN readChunk(new, k)
                       ELSE ChunkImage(base)[k]
      BY <1>1, <1>2, <1>5, <1>6 DEF WriteChunks
    <2>2. k \in Nat
      <3> HIDE DEF mixed
      <3>. QED
        BY <1>m, <1>6, ChunksAreFinite
    <2>3. k \in ChunksOf(base) => ChunkImage(base)[k] = readChunk(base, k)
      BY DEF ChunkImage, ChunksOf
    <2> HIDE DEF touched, written, mixed
    <2>. QED
      BY <1>3, <1>4, <1>6, <2>1, <2>2, <2>3
  <1>7. written = [k \in ChunksOf(mixed) |-> written[k]]
    BY <1>5 DEF WriteChunks
  <1>8. ChunkImage(mixed) = [k \in ChunksOf(mixed) |-> readChunk(mixed, k)]
    BY DEF ChunkImage, ChunksOf
  <1> HIDE DEF written, mixed
  <1>9. [k \in ChunksOf(mixed) |-> written[k]] = [k \in ChunksOf(mixed) |-> readChunk(mixed, k)]
    BY <1>6
  <1>. QED
    BY <1>7, <1>8, <1>9, Zenon DEF written, mixed

\* Pages beyond two memories read the same in both.
LEMMA DifferenceIsRead ==
  ASSUME NEW m \in Memory, NEW n \in Memory
  PROVE  /\ \A p : PageAt(m, p) # PageAt(n, p) => p \in Differ(m, n)
         /\ Differ(m, n) = {} => m = n
         /\ Differ(m, n) \subseteq Pages /\ Differ(m, m) = {}
  <1>1. \A p : PageAt(m, p) # PageAt(n, p) => p \in Differ(m, n)
    BY DEF PageAt, Differ
  <1>2. PICK i \in 0 .. MaxPages : DOMAIN m = 0 .. i - 1 /\ m \in [0 .. i - 1 -> PageContents]
    BY MemoryShape
  <1>3. PICK j \in 0 .. MaxPages : DOMAIN n = 0 .. j - 1 /\ n \in [0 .. j - 1 -> PageContents]
    BY MemoryShape
  <1>4. ASSUME Differ(m, n) = {} PROVE m = n
    <2>1. DOMAIN m = DOMAIN n /\ \A p \in DOMAIN m : m[p] = n[p]
      BY <1>4 DEF Differ
    <2>. QED
      BY <1>2, <1>3, <2>1
  <1>5. Differ(m, n) \subseteq Pages /\ Differ(m, m) = {}
    BY <1>2, <1>3 DEF Differ, Pages
  <1>. QED
    BY <1>1, <1>4, <1>5

(***************************************************************************)
(* What the stored image lacks of a memory it lacked before, in chunks the *)
(* writes leave alone.                                                     *)
(***************************************************************************)
LEMMA WritingTracks ==
  ASSUME NEW base \in Memory, NEW old \in Memory, NEW new \in Memory, NEW pages,
         Differ(base, old) \subseteq pages
  PROVE  Differ(Overwritten(base, old, new), new)
           \subseteq Unwritten(pages, hashMemory(new), hashMemory(old))
  <1> DEFINE mixed == Overwritten(base, old, new)
  <1> SUFFICES ASSUME NEW p \in Differ(mixed, new)
               PROVE  p \in Unwritten(pages, hashMemory(new), hashMemory(old))
    OBVIOUS
  <1>1. DOMAIN mixed = DOMAIN new
    BY OverwrittenIsMemory
  <1>2. p \in DOMAIN new /\ mixed[p] # new[p]
    BY <1>1 DEF Differ
  <1>3. /\ chunkOf(p) \notin TouchedChunks(hashMemory(new), hashMemory(old))
        /\ PageAt(base, p) # PageAt(new, p)
    BY <1>2 DEF Overwritten, PageAt
  <1>4. p \in Nat
    BY <1>2, MemoryShape
  <1> DEFINE k == chunkOf(p)
             i == p % CHUNK_PAGES
  <1>5. k \in Nat /\ i \in 0 .. CHUNK_PAGES - 1 /\ k * CHUNK_PAGES + i = p
    BY <1>4, PageInChunk
  <1>6. readChunk(new, k) = readChunk(old, k)
    BY <1>3, <1>5, UntouchedChunkIsUnchanged
  <1> HIDE DEF k, i
  <1>7. readChunk(new, k)[i] = PageAt(new, p) /\ readChunk(old, k)[i] = PageAt(old, p)
    BY <1>5 DEF readChunk
  <1>8. PageAt(base, p) # PageAt(old, p)
    BY <1>3, <1>6, <1>7
  <1>. QED
    BY <1>3, <1>8, DifferenceIsRead DEF Unwritten, k

(***************************************************************************)
(* Restoring the image of a memory gives that memory back.                 *)
(***************************************************************************)
LEMMA RestoringGivesMemory ==
  ASSUME NEW mem \in Memory
  PROVE  RestoredMemory(ChunkImage(mem), Cardinality(DOMAIN mem)) = mem
  <1>1. PICK n \in 0 .. MaxPages :
          DOMAIN mem = 0 .. n - 1 /\ Cardinality(DOMAIN mem) = n
          /\ mem \in [0 .. n - 1 -> PageContents]
    BY MemoryShape
  <1>2. ASSUME NEW p \in 0 .. n - 1 PROVE StoredPage(ChunkImage(mem), p) = mem[p]
    <2>1. p \in Nat
      OBVIOUS
    <2>2. /\ (p % CHUNK_PAGES) \in 0 .. CHUNK_PAGES - 1
          /\ chunkOf(p) * CHUNK_PAGES + (p % CHUNK_PAGES) = p
      BY <2>1, PageInChunk
    <2>3. DOMAIN ChunkImage(mem) = ChunksOf(mem)
      BY DEF ChunkImage, ChunksOf
    <2>4. CASE chunkOf(p) \in ChunksOf(mem)
      <3>1. ChunkImage(mem)[chunkOf(p)] = readChunk(mem, chunkOf(p))
        BY <2>4 DEF ChunkImage, ChunksOf
      <3>2. readChunk(mem, chunkOf(p))[p % CHUNK_PAGES] = PageAt(mem, p)
        BY <2>2 DEF readChunk
      <3>. QED
        BY <1>1, <2>3, <2>4, <3>1, <3>2 DEF StoredPage, PageAt
    <2>5. CASE chunkOf(p) \notin ChunksOf(mem)
      <3>1. p \notin NonZeroPages(mem)
        BY <2>5 DEF ChunksOf
      <3>. QED
        BY <1>1, <2>3, <2>5, <3>1 DEF StoredPage, NonZeroPages
    <2>. QED
      BY <2>4, <2>5
  <1>. QED
    BY <1>1, <1>2 DEF RestoredMemory

LEMMA NothingStored ==
  /\ NoRows = ChunkImage(EmptyMemory)
  /\ NoRows = hashMemory(EmptyMemory)
  <1>1. NonZeroPages(EmptyMemory) = {}
    BY DEF NonZeroPages, EmptyMemory
  <1>. QED
    BY <1>1 DEF NoRows, ChunkImage, hashMemory

USE BootAssumption, CapAssumption, NoneAssumption, HookedAssumption

(***************************************************************************)
(* Part one: types, and no orphans, whatever fails.                        *)
(***************************************************************************)
RowsOK(rows) ==
  /\ IsFiniteSet(DOMAIN rows) /\ DOMAIN rows \subseteq Nat
  /\ \A k \in DOMAIN rows : rows[k] \in ChunkData

RowOK(row) ==
  row \in ContextRow
  /\ (row.snapshot # NONE => row.snapshot.memoryPages <= MaxPages)

InstanceOK(r) == r \in Resident /\ IsFiniteSet(r.chunkIds)

NothingIn(c) == contexts[c] = NONE \/ contexts[c].snapshot = NONE

TInv ==
  /\ build \in Builds
  /\ contexts \in [Contexts -> ContextRow \cup {NONE}]
  /\ chunks = [c \in Contexts |-> chunks[c]]
  /\ \A c \in Contexts : RowsOK(chunks[c]) /\ (contexts[c] # NONE => RowOK(contexts[c]))
  /\ resident # NONE => InstanceOK(resident)
  /\ running # NONE =>
       /\ running.contextId \in Contexts /\ RowOK(running.row) /\ running.since \in Nat
       /\ running.row.snapshot = NONE => chunks[running.contextId] = NoRows
  /\ lifetime \in Nat
  /\ taken \in [Contexts -> Taken \cup {NONE}]
  /\ \A c \in Contexts : NothingIn(c) => chunks[c] = NoRows

LEMMA NoRowsOK == RowsOK(NoRows)
  BY FS_EmptySet DEF RowsOK, NoRows

LEMMA WritesOK ==
  ASSUME NEW rows, RowsOK(rows), NEW mem \in Memory, NEW prev
  PROVE  RowsOK(WriteChunks(rows, mem, prev))
  <1> DEFINE upsert == UpsertChunks(hashMemory(mem), prev)
             remove == RemoveChunks(hashMemory(mem), prev)
             result == WriteChunks(rows, mem, prev)
  <1>1. upsert \subseteq ChunksOf(mem)
    BY DEF UpsertChunks, ChunksOf, hashMemory
  <1>2. IsFiniteSet(upsert) /\ upsert \subseteq Nat
    BY <1>1, ChunksAreFinite, FS_Subset
  <1>3. IsFiniteSet(DOMAIN rows \ remove)
    BY FS_Subset DEF RowsOK
  <1>4. DOMAIN result = (DOMAIN rows \ remove) \cup upsert
    BY DEF WriteChunks
  <1>5. IsFiniteSet(DOMAIN result) /\ DOMAIN result \subseteq Nat
    BY <1>2, <1>3, <1>4, FS_Union DEF RowsOK
  <1>6. ASSUME NEW k \in DOMAIN result PROVE result[k] \in ChunkData
    <2>1. result[k] = IF k \in upsert THEN readChunk(mem, k) ELSE rows[k]
      BY <1>4, <1>6 DEF WriteChunks
    <2> HIDE DEF upsert, remove, result
    <2>. QED
      BY <1>4, <1>6, <2>1, ChunkType DEF RowsOK, ChunkData
  <1>. QED
    BY <1>5, <1>6 DEF RowsOK

LEMMA RestoredOK ==
  ASSUME NEW rows, RowsOK(rows), NEW n \in 0 .. MaxPages
  PROVE  RestoredMemory(rows, n) \in Memory
  <1>1. ASSUME NEW p \in 0 .. n - 1 PROVE StoredPage(rows, p) \in PageContents
    <2>1. (p % CHUNK_PAGES) \in 0 .. CHUNK_PAGES - 1
      BY PageInChunk
    <2>. QED
      BY <2>1 DEF StoredPage, RowsOK, ChunkData, PageContents
  <1>2. RestoredMemory(rows, n) \in [0 .. n - 1 -> PageContents]
    BY <1>1 DEF RestoredMemory
  <1>. QED
    BY <1>2 DEF Memory

LEMMA HashesOK ==
  /\ \A mem \in Memory : hashMemory(mem) \in HashTables
  /\ NoRows \in HashTables
  <1>1. ASSUME NEW mem \in Memory PROVE hashMemory(mem) \in HashTables
    <2>1. NonZeroPages(mem) \in SUBSET Pages
      BY PagesAreInRange DEF Pages
    <2>2. \A p \in NonZeroPages(mem) : mem[p] \in PageData
      BY MemoryShape DEF NonZeroPages, PageContents
    <2>3. hashMemory(mem) \in [NonZeroPages(mem) -> {HashOf[d] : d \in PageData}]
      BY <2>2 DEF hashMemory
    <2>. QED
      BY <2>1, <2>3 DEF HashTables
  <1>2. NoRows \in [{} -> {HashOf[d] : d \in PageData}]
    BY DEF NoRows
  <1>. QED
    BY <1>1, <1>2 DEF HashTables

(***************************************************************************)
(* ensureInstance yields an instance, and leaves rows that the row it      *)
(* leaves accounts for.                                                    *)
(***************************************************************************)
LEMMA EnsureOK ==
  ASSUME TInv, running # NONE
  PROVE  LET c == running.contextId row == running.row
         IN  /\ \A inst \in Instances(c, row) : InstanceOK(inst) /\ inst.contextId = c
             /\ RowsOK(ChunksAfterEnsure(c, row))
             /\ RowOK(RowAfterEnsure(c, row))
             /\ RowAfterEnsure(c, row).snapshot = NONE => ChunksAfterEnsure(c, row) = NoRows
             /\ ChunksAfterEnsure(c, row) \in {chunks[c], NoRows}
             /\ TakenAfterEnsure(c, row) \in Taken \cup {NONE}
  <1> DEFINE c == running.contextId
             row == running.row
  <1>1. /\ c \in Contexts /\ RowOK(row) /\ RowsOK(chunks[c])
        /\ row.snapshot = NONE => chunks[c] = NoRows
    BY DEF TInv
  <1>2. ASSUME NEW inst \in Instances(c, row) PROVE InstanceOK(inst) /\ inst.contextId = c
    <2>1. CASE Reused(c)
      BY <2>1 DEF Instances, Reused, TInv
    <2>2. CASE ~Reused(c) /\ Usable(row)
      <3>1. row.snapshot.memoryPages \in 0 .. MaxPages
        BY <1>1, <2>2 DEF RowOK, Usable, ContextRow, SnapshotRecord
      <3>2. StoredMemory(c, row) \in Memory
        BY <1>1, <3>1, RestoredOK DEF StoredMemory
      <3>3. PICK memory \in Memory : inst = RestoredInstance(c, row, memory)
        BY <2>2 DEF Instances
      <3>4. Differ(StoredMemory(c, row), memory) \subseteq Pages
        BY <3>2, DifferenceIsRead
      <3> HIDE DEF c, row
      <3>5. DOMAIN chunks[c] \in SUBSET Nat /\ IsFiniteSet(DOMAIN chunks[c])
        BY <1>1 DEF RowsOK
      <3>. QED
        BY <1>1, <3>3, <3>4, <3>5, HashesOK DEF RestoredInstance, InstanceOK, Resident
    <2>3. CASE ~Reused(c) /\ ~Usable(row)
      <3>1. inst = BootedInstance(c)
        BY <2>3 DEF Instances
      <3> HIDE DEF c, row
      <3>. QED
        BY <1>1, <3>1, FS_EmptySet, HashesOK DEF BootedInstance, InstanceOK, Resident
    <2>. QED
      BY <2>1, <2>2, <2>3
  <1>3. RowsOK(ChunksAfterEnsure(c, row)) /\ ChunksAfterEnsure(c, row) \in {chunks[c], NoRows}
    BY <1>1, NoRowsOK DEF ChunksAfterEnsure
  <1>4. /\ RowOK(RowAfterEnsure(c, row))
        /\ RowAfterEnsure(c, row).snapshot = NONE => ChunksAfterEnsure(c, row) = NoRows
    <2>1. [snapshot |-> NONE] \in ContextRow
      BY DEF ContextRow
    <2>. QED
      BY <1>1, <2>1 DEF RowAfterEnsure, ChunksAfterEnsure, RowOK
  <1>5. TakenAfterEnsure(c, row) \in Taken \cup {NONE}
    BY <1>1 DEF TakenAfterEnsure, TInv
  <1>. QED
    BY <1>2, <1>3, <1>4, <1>5, Zenon

\* There always is one: a hook may leave the memory alone.
LEMMA EnsureSome ==
  ASSUME TInv, running # NONE
  PROVE  \E inst \in Instances(running.contextId, running.row) : TRUE
  <1> DEFINE c == running.contextId
             row == running.row
             stored == StoredMemory(c, row)
  <1>1. CASE Reused(c) \/ ~Usable(row)
    BY <1>1 DEF Instances
  <1>2. CASE ~Reused(c) /\ Usable(row)
    <2>1. RowsOK(chunks[c]) /\ row.snapshot.memoryPages \in 0 .. MaxPages
      BY <1>2 DEF TInv, RowOK, Usable, ContextRow, SnapshotRecord
    <2>2. stored \in Memory
      BY <2>1, RestoredOK DEF StoredMemory
    <2>3. Becomes(stored, stored, HookPages)
      <3>1. {p \in DOMAIN stored : PageAt(stored, p) # PageAt(stored, p)} = {}
        OBVIOUS
      <3> HIDE DEF stored
      <3>. QED
        BY <3>1, FS_EmptySet DEF Becomes
    <2>4. AfterRestore(stored, stored)
      BY <2>3 DEF AfterRestore, HookRun
    <2>5. RestoredInstance(c, row, stored) \in Instances(c, row)
      BY <1>2, <2>2, <2>4 DEF Instances
    <2>. QED
      BY <2>5
  <1>. QED
    BY <1>1, <1>2

LEMMA SnapshotOK ==
  ASSUME NEW inst, InstanceOK(inst), NEW mem \in Memory
  PROVE  /\ InstanceOK(AfterSnapshot(inst, mem))
         /\ AfterSnapshot(inst, mem).contextId = inst.contextId
  <1> DEFINE upsert == UpsertChunks(hashMemory(mem), inst.prevPageHashes)
             remove == RemoveChunks(hashMemory(mem), inst.prevPageHashes)
             unwritten == Unwritten(inst.rewritten, hashMemory(mem), inst.prevPageHashes)
  <1>1. upsert \subseteq ChunksOf(mem)
    BY DEF UpsertChunks, ChunksOf, hashMemory
  <1>2. IsFiniteSet(upsert) /\ upsert \subseteq Nat
    BY <1>1, ChunksAreFinite, FS_Subset
  <1>3. IsFiniteSet(inst.chunkIds \ remove)
    BY FS_Subset DEF InstanceOK, Resident
  <1>4. IsFiniteSet((inst.chunkIds \ remove) \cup upsert)
    BY <1>2, <1>3, FS_Union
  <1>5. AfterSnapshot(inst, mem) =
          [inst EXCEPT !.memory = mem, !.limited = FALSE,
                       !.rewritten = unwritten,
                       !.prevPageHashes = hashMemory(mem),
                       !.chunkIds = (inst.chunkIds \ remove) \cup upsert]
    BY DEF AfterSnapshot, InstanceOK, Resident
  <1>6. hashMemory(mem) \in HashTables
    BY HashesOK
  <1>7. (inst.chunkIds \ remove) \cup upsert \in SUBSET Nat
    BY <1>2 DEF InstanceOK, Resident
  <1>9. unwritten \in SUBSET Pages
    BY DEF Unwritten, InstanceOK, Resident
  <1> HIDE DEF upsert, remove, unwritten
  <1>8. AfterSnapshot(inst, mem).chunkIds = (inst.chunkIds \ remove) \cup upsert
    BY <1>5 DEF InstanceOK, Resident
  <1>. QED
    BY <1>4, <1>5, <1>6, <1>7, <1>8, <1>9 DEF InstanceOK, Resident

LEMMA InitTyped == Init => TInv
  BY NoRowsOK, FS_EmptySet DEF Init, TInv, NothingIn

(***************************************************************************)
(* An execution ends: it leaves these rows, and this row, in its context.  *)
(***************************************************************************)
LEMMA FinishTyped ==
  ASSUME TInv, NEW c \in Contexts, NEW rows, NEW row, RowsOK(rows),
         row # NONE => RowOK(row),
         row = NONE \/ row.snapshot = NONE => rows = NoRows,
         chunks' = [chunks EXCEPT ![c] = rows],
         contexts' = [contexts EXCEPT ![c] = row],
         resident' # NONE => InstanceOK(resident'),
         running' = NONE,
         taken' \in [Contexts -> Taken \cup {NONE}],
         UNCHANGED <<build, lifetime>>
  PROVE  TInv'
  <1>1. /\ contexts' \in [Contexts -> ContextRow \cup {NONE}]
        /\ \A d \in Contexts : contexts'[d] = IF d = c THEN row ELSE contexts[d]
    BY DEF TInv, RowOK
  <1>2. /\ chunks' = [d \in Contexts |-> IF d = c THEN rows ELSE chunks[d]]
    BY DEF TInv
  <1>3. /\ chunks' = [d \in Contexts |-> chunks'[d]]
        /\ \A d \in Contexts : chunks'[d] = IF d = c THEN rows ELSE chunks[d]
    BY <1>2
  <1>4. \A d \in Contexts : RowsOK(chunks'[d]) /\ (contexts'[d] # NONE => RowOK(contexts'[d]))
    BY <1>1, <1>3 DEF TInv
  <1>5. \A d \in Contexts : NothingIn(d)' => chunks'[d] = NoRows
    BY <1>1, <1>3 DEF TInv, NothingIn
  <1>. QED
    BY <1>1, <1>3, <1>4, <1>5 DEF TInv

\* A step that only lets instances and executions go.
LEMMA LettingGoTyped ==
  ASSUME TInv, build' \in Builds, resident' \in {resident, NONE}, running' = NONE,
         UNCHANGED <<contexts, chunks, lifetime, taken>>
  PROVE  TInv'
  BY DEF TInv, NothingIn

LEMMA DestroyTyped == TInv /\ Destroy => TInv'
  <1> SUFFICES ASSUME TInv, Destroy PROVE TInv'
    OBVIOUS
  <1>1. /\ chunks' = [c \in Contexts |-> chunks'[c]] /\ \A c \in Contexts : chunks'[c] = NoRows
        /\ contexts' \in [Contexts -> {NONE}] /\ taken' \in [Contexts -> {NONE}]
    BY DEF Destroy
  <1>. QED
    BY <1>1, NoRowsOK DEF Destroy, TInv

LEMMA TypedInvariant == TInv /\ [Next]_vars => TInv'
  <1> SUFFICES ASSUME TInv, [Next]_vars PROVE TInv'
    OBVIOUS
  <1> DEFINE c == running.contextId
             row == running.row
             rows == ChunksAfterEnsure(c, row)
             left == RowAfterEnsure(c, row)
  <1>e. ASSUME running # NONE
        PROVE  /\ c \in Contexts
               /\ \A inst \in Instances(c, row) : InstanceOK(inst) /\ inst.contextId = c
               /\ RowsOK(rows) /\ RowOK(left) /\ (left.snapshot = NONE => rows = NoRows)
               /\ rows \in {chunks[c], NoRows}
               /\ TakenAfterEnsure(c, row) \in Taken \cup {NONE}
    BY <1>e, EnsureOK DEF TInv
  <1>m. ASSUME NEW memory \in Memory, NEW limited \in BOOLEAN, running # NONE,
               NEW inst \in Instances(c, row)
        PROVE  /\ InstanceOK([inst EXCEPT !.memory = memory, !.limited = limited])
               /\ InstanceOK([inst EXCEPT !.memory = memory])
    <2>1. InstanceOK(inst)
      BY <1>e, <1>m, Zenon
    <2> HIDE DEF c, row
    <2>. QED
      BY <2>1, <1>m DEF InstanceOK, Resident
  <1>1. ASSUME NEW d \in Contexts, CreateContext(d) PROVE TInv'
    <2>1. RowOK([snapshot |-> NONE])
      BY DEF RowOK, ContextRow
    <2>2. /\ contexts' \in [Contexts -> ContextRow \cup {NONE}]
          /\ \A i \in Contexts :
               contexts'[i] = IF i = d THEN [snapshot |-> NONE] ELSE contexts[i]
          /\ UNCHANGED <<build, chunks, resident, running, lifetime, taken>>
      BY <1>1, <2>1 DEF CreateContext, TInv, RowOK
    <2>3. \A i \in Contexts : contexts'[i] # NONE => RowOK(contexts'[i])
      BY <2>1, <2>2 DEF TInv
    <2>4. \A i \in Contexts : NothingIn(i)' => NothingIn(i)
      BY <1>1, <2>2 DEF CreateContext, NothingIn
    <2>. QED
      BY <1>1, <2>2, <2>3, <2>4 DEF CreateContext, TInv
  <1>2. ASSUME NEW d \in Contexts, DeleteContext(d) PROVE TInv'
    <2>1. \A i \in Contexts : chunks'[i] = IF i = d THEN NoRows ELSE chunks[i]
      BY <1>2 DEF DeleteContext, TInv
    <2>2. chunks' = [i \in Contexts |-> chunks'[i]]
      BY <1>2 DEF DeleteContext, TInv
    <2>. QED
      BY <1>2, <2>1, <2>2, NoRowsOK DEF DeleteContext, TInv, NothingIn
  <1>3. ASSUME NEW d \in Contexts, BeginExecute(d) PROVE TInv'
    BY <1>3 DEF BeginExecute, TInv, NothingIn
  <1>4. CASE PullFails
    BY <1>4, LettingGoTyped DEF PullFails, TInv
  <1>5. CASE RunSnapshots
    <2>0. running # NONE
      BY <1>5 DEF RunSnapshots
    <2>1. PICK inst \in Instances(c, row), memory \in Memory :
            /\ resident' = AfterSnapshot(inst, memory)
            /\ chunks' = [chunks EXCEPT ![c] = WriteChunks(rows, memory, inst.prevPageHashes)]
            /\ contexts' = [contexts EXCEPT ![c] =
                 [snapshot |-> [build |-> build,
                                memoryPages |-> Cardinality(DOMAIN memory),
                                chunkCount |-> Cardinality(resident'.chunkIds),
                                stale |-> FALSE]]]
            /\ taken' = [taken EXCEPT ![c] =
                 [memory |-> memory, rewritten |-> resident'.rewritten]]
      BY <1>5 DEF RunSnapshots
    <2> DEFINE record == [build |-> build, memoryPages |-> Cardinality(DOMAIN memory),
                          chunkCount |-> Cardinality(resident'.chunkIds), stale |-> FALSE]
               written == WriteChunks(rows, memory, inst.prevPageHashes)
    <2>2. InstanceOK(resident')
      BY <1>e, <2>0, <2>1, SnapshotOK
    <2>3. /\ Cardinality(DOMAIN memory) \in 0 .. MaxPages
          /\ Cardinality(resident'.chunkIds) \in Nat
      BY <2>2, MemoryShape, FS_CardinalityType DEF InstanceOK, Resident
    <2>4. record \in SnapshotRecord /\ record.memoryPages <= MaxPages
      BY <2>3 DEF SnapshotRecord, TInv
    <2>5. RowOK([snapshot |-> record]) /\ [snapshot |-> record].snapshot # NONE
          /\ [snapshot |-> record] # NONE
      <3> HIDE DEF record
      <3>. QED
        BY <2>4 DEF RowOK, ContextRow
    <2>6. RowsOK(written)
      BY <1>e, <2>0, WritesOK
    <2>7. taken' \in [Contexts -> Taken \cup {NONE}]
      <3>1. [memory |-> memory, rewritten |-> resident'.rewritten] \in Taken
        BY <2>2 DEF InstanceOK, Resident, Taken
      <3>. QED
        BY <2>1, <3>1 DEF TInv
    <2>8. /\ chunks' = [chunks EXCEPT ![c] = written]
          /\ contexts' = [contexts EXCEPT ![c] = [snapshot |-> record]]
          /\ running' = NONE /\ UNCHANGED <<build, lifetime>> /\ c \in Contexts
      BY <1>5, <1>e, <2>0, <2>1 DEF RunSnapshots
    <2> HIDE DEF record, written, c
    <2>. QED
      BY <2>2, <2>5, <2>6, <2>7, <2>8, FinishTyped
  <1>6. ASSUME NEW limited \in BOOLEAN, RunWithoutSnapshot(limited) PROVE TInv'
    <2>0. running # NONE
      BY <1>6 DEF RunWithoutSnapshot
    <2>1. /\ chunks' = [chunks EXCEPT ![c] = rows]
          /\ contexts' = [contexts EXCEPT ![c] = RowUnsnapshotted(left, limited)]
          /\ taken' = [taken EXCEPT ![c] = TakenAfterEnsure(c, row)]
          /\ running' = NONE /\ UNCHANGED <<build, lifetime>>
      BY <1>6, Zenon DEF RunWithoutSnapshot
    <2>2. InstanceOK(resident')
      <3>1. \E inst \in Instances(c, row), memory \in Memory :
              resident' = [inst EXCEPT !.memory = memory, !.limited = limited \/ inst.limited]
        BY <1>6, Zenon DEF RunWithoutSnapshot
      <3> HIDE DEF c, row
      <3>2. PICK inst \in Instances(c, row), memory \in Memory :
              resident' = [inst EXCEPT !.memory = memory, !.limited = limited \/ inst.limited]
        BY <3>1, Zenon
      <3>3. InstanceOK(inst)
        BY <1>e, <2>0, Zenon DEF c, row
      <3>4. (limited \/ inst.limited) \in BOOLEAN
        BY <1>6, <3>3 DEF InstanceOK, Resident
      <3>. QED
        BY <3>2, <3>3, <3>4 DEF InstanceOK, Resident
    <2>3. /\ RowOK(RowUnsnapshotted(left, limited))
          /\ RowUnsnapshotted(left, limited).snapshot = NONE => left.snapshot = NONE
          /\ RowUnsnapshotted(left, limited) # NONE
      <3> HIDE DEF left
      <3>1. RowOK(left)
        BY <1>e, <2>0 DEF left
      <3>2. CASE ~(left.snapshot # NONE /\ ~limited)
        BY <3>1, <3>2 DEF RowUnsnapshotted, RowOK
      <3>3. CASE left.snapshot # NONE /\ ~limited
        <4> DEFINE record == [left.snapshot EXCEPT !.stale = TRUE]
        <4>1. left.snapshot \in SnapshotRecord /\ left.snapshot.memoryPages <= MaxPages
          BY <3>1, <3>3 DEF RowOK, ContextRow
        <4>2. record \in SnapshotRecord /\ record.memoryPages <= MaxPages
          BY <4>1 DEF SnapshotRecord
        <4>3. RowUnsnapshotted(left, limited) = [snapshot |-> record]
          BY <3>1, <3>3 DEF RowUnsnapshotted, RowOK, ContextRow
        <4> HIDE DEF record
        <4>. QED
          BY <4>2, <4>3 DEF RowOK, ContextRow
      <3>. QED
        BY <3>2, <3>3
    <2>4. taken' \in [Contexts -> Taken \cup {NONE}]
      BY <1>e, <2>0, <2>1 DEF TInv
    <2> HIDE DEF c, row, rows, left
    <2>. QED
      BY <1>e, <2>0, <2>1, <2>2, <2>3, <2>4, FinishTyped
  <1>7. CASE RunHoldsDescriptor \/ RunHitsLimit
    BY <1>6, <1>7 DEF RunHoldsDescriptor, RunHitsLimit
  <1>8. CASE RunTraps
    <2>1. /\ running # NONE /\ resident' = NONE
          /\ chunks' = [chunks EXCEPT ![c] = rows]
          /\ contexts' = [contexts EXCEPT ![c] = left]
          /\ taken' = [taken EXCEPT ![c] = TakenAfterEnsure(c, row)]
          /\ running' = NONE /\ UNCHANGED <<build, lifetime>>
      BY <1>8 DEF RunTraps
    <2>2. taken' \in [Contexts -> Taken \cup {NONE}]
      BY <1>e, <2>1 DEF TInv
    <2>3. left # NONE
      BY <1>e, <2>1 DEF RowOK
    <2> HIDE DEF c, row, rows, left
    <2>. QED
      BY <1>e, <2>1, <2>2, <2>3, FinishTyped
  <1>9. CASE BootFails \/ PersistFails
    <2>1. /\ running # NONE /\ running' = NONE
          /\ chunks' = [chunks EXCEPT ![c] = rows]
          /\ UNCHANGED <<build, contexts, lifetime, taken>>
          /\ \/ resident' = NONE
             \/ \E inst \in Instances(c, row), memory \in Memory :
                  resident' \in {AfterSnapshot(inst, memory), [inst EXCEPT !.memory = memory]}
      BY <1>9 DEF BootFails, PersistFails
    <2>2. resident' # NONE => InstanceOK(resident')
      <3>1. CASE resident' = NONE
        BY <3>1
      <3>2. ASSUME NEW inst \in Instances(c, row), NEW memory \in Memory,
                   resident' \in {AfterSnapshot(inst, memory), [inst EXCEPT !.memory = memory]}
            PROVE  InstanceOK(resident')
        <4>1. InstanceOK(AfterSnapshot(inst, memory))
          BY <1>e, <2>1, SnapshotOK
        <4>2. InstanceOK([inst EXCEPT !.memory = memory])
          <5>1. InstanceOK(inst)
            BY <1>e, <2>1, Zenon
          <5> HIDE DEF c, row
          <5>. QED
            BY <5>1 DEF InstanceOK, Resident
        <4>. QED
          BY <3>2, <4>1, <4>2
      <3>. QED
        BY <2>1, <3>1, <3>2
    <2>3. contexts' = [contexts EXCEPT ![c] = contexts[c]]
      BY <2>1 DEF TInv
    <2>4. /\ contexts[c] # NONE => RowOK(contexts[c])
          /\ contexts[c] = NONE \/ contexts[c].snapshot = NONE => rows = NoRows
      BY <1>e, <2>1 DEF TInv, NothingIn
    <2>5. taken' \in [Contexts -> Taken \cup {NONE}]
      BY <2>1 DEF TInv
    <2> HIDE DEF c, row, rows
    <2>. QED
      BY <1>e, <2>1, <2>2, <2>3, <2>4, <2>5, FinishTyped
  <1>10. CASE Evict \/ Deploy
    BY <1>10, LettingGoTyped DEF Evict, Deploy, TInv
  <1>11. CASE DestroyWhileIdle \/ AlarmDuringPull
    BY <1>11, DestroyTyped DEF DestroyWhileIdle, AlarmDuringPull
  <1>12. CASE UNCHANGED vars
    BY <1>12 DEF vars, TInv, NothingIn
  <1>. QED
    BY <1>1, <1>2, <1>3, <1>4, <1>5, <1>7, <1>8, <1>9, <1>10, <1>11, <1>12 DEF Next

LEMMA TypedAlways == Spec => []TInv
  BY InitTyped, TypedInvariant, PTL DEF Spec

(***************************************************************************)
(* Type correctness, for every combination of faults.                      *)
(***************************************************************************)
THEOREM TypeCorrect == Spec => []TypeOK
  <1>1. TInv => TypeOK
    <2> SUFFICES ASSUME TInv PROVE TypeOK
      OBVIOUS
    <2>2. resident \in Resident \cup {NONE}
      BY DEF TInv, InstanceOK, Resident
    <2>3. \A c \in Contexts : /\ DOMAIN chunks[c] \subseteq Nat
                             /\ \A k \in DOMAIN chunks[c] : chunks[c][k] \in ChunkData
      BY DEF TInv, RowsOK
    <2>4. running # NONE => /\ running.contextId \in Contexts /\ running.row \in ContextRow
                            /\ running.since \in Nat
      BY DEF TInv, RowOK
    <2>. QED
      BY <2>2, <2>3, <2>4 DEF TInv, TypeOK
  <1>. QED
    BY <1>1, TypedAlways, PTL

(***************************************************************************)
(* No chunk row outlives its snapshot record, through failed boots, failed *)
(* transactions, and alarms in the middle of an execution.                 *)
(***************************************************************************)
THEOREM NoOrphans == Spec => []NoOrphanChunks
  <1>1. TInv => NoOrphanChunks
    BY DEF TInv, NoOrphanChunks, NothingIn, SnapshotOf
  <1>. QED
    BY <1>1, TypedAlways, PTL

--------------------------------------------------------------------------------
(***************************************************************************)
(* Part two: what is stored, when boots and transactions succeed and no    *)
(* alarm runs during an execution.  The base of a context is the memory    *)
(* its chunks are the image of; the resident's diffing state describes a   *)
(* memory that differs from the base of its context at most in the pages   *)
(* afterRestore rewrote.                                                   *)
(***************************************************************************)
Base(c) == IF SnapshotOf(c) # NONE THEN SavedMemory(c) ELSE EmptyMemory

\* A record that describes the image of mem, and what it was taken of.
Describes(record, tk, mem) ==
  /\ mem \in Memory
  /\ record.memoryPages = Cardinality(DOMAIN mem)
  /\ record.chunkCount = Cardinality(DOMAIN ChunkImage(mem))
  /\ tk \in Taken
  /\ DOMAIN tk.memory = DOMAIN mem
  /\ Differ(mem, tk.memory) \subseteq tk.rewritten
  /\ record.build \notin Hooked => tk.rewritten = {}

DiffsAgainst(r, mem) ==
  /\ \E old \in Memory :
       r.prevPageHashes = hashMemory(old) /\ Differ(mem, old) \subseteq r.rewritten
  /\ r.chunkIds = DOMAIN ChunkImage(mem)
  /\ DOMAIN mem \subseteq DOMAIN r.memory

Unhooked(r, b) == b \notin Hooked => r.rewritten = {}

Current(r, record, mem) ==
  record.stale \/ r.limited \/ Differ(mem, r.memory) \subseteq r.rewritten

SInv ==
  /\ \A c \in Contexts : SnapshotOf(c) # NONE => Describes(SnapshotOf(c), taken[c], Base(c))
  /\ \A c \in Contexts : chunks[c] = ChunkImage(Base(c))
  /\ resident # NONE =>
       /\ DiffsAgainst(resident, Base(resident.contextId))
       /\ Unhooked(resident, build)
       /\ SnapshotOf(resident.contextId) # NONE =>
            Current(resident, SnapshotOf(resident.contextId), Base(resident.contextId))
  /\ running # NONE => contexts[running.contextId] = running.row

LEMMA InitStored == Init => SInv
  BY NothingStored DEF Init, SInv, Base, SnapshotOf

LEMMA BaseIsMemory ==
  ASSUME SInv, NEW c \in Contexts
  PROVE  Base(c) \in Memory
  <1>1. CASE SnapshotOf(c) # NONE
    BY <1>1 DEF SInv, Describes
  <1>2. CASE SnapshotOf(c) = NONE
    BY <1>2, EmptyIsMemory DEF Base
  <1>. QED
    BY <1>1, <1>2

(***************************************************************************)
(* After ensureInstance the instance diffs against what is stored, but for *)
(* what a hook rewrote, and what is stored is what the row says: whether   *)
(* the instance was reused, restored or booted, and whether a stale build  *)
(* was dropped.                                                            *)
(***************************************************************************)
LEMMA EnsureStored ==
  ASSUME TInv, SInv, running # NONE, NEW inst \in Instances(running.contextId, running.row)
  PROVE  LET c    == running.contextId
             row  == running.row
             left == RowAfterEnsure(c, row)
         IN  \E mem \in Memory :
               /\ ChunksAfterEnsure(c, row) = ChunkImage(mem)
               /\ DiffsAgainst(inst, mem) /\ Unhooked(inst, build)
               /\ left.snapshot = NONE => mem = EmptyMemory
               /\ left.snapshot # NONE =>
                    /\ Describes(left.snapshot, TakenAfterEnsure(c, row), mem)
                    /\ Current(inst, left.snapshot, mem)
  <1> DEFINE c    == running.contextId
             row  == running.row
             left == RowAfterEnsure(c, row)
             rows == ChunksAfterEnsure(c, row)
             tk   == TakenAfterEnsure(c, row)
  <1>1. /\ c \in Contexts /\ row = contexts[c] /\ row \in ContextRow /\ row # NONE
        /\ SnapshotOf(c) = row.snapshot
    BY DEF TInv, SInv, RowOK, SnapshotOf
  <1>2. /\ chunks[c] = ChunkImage(Base(c)) /\ Base(c) \in Memory
        /\ row.snapshot # NONE =>
             Describes(row.snapshot, taken[c], Base(c)) /\ Base(c) = StoredMemory(c, row)
        /\ row.snapshot = NONE => Base(c) = EmptyMemory
    BY <1>1, BaseIsMemory DEF SInv, Base, SavedMemory
  <1>3. CASE Reused(c)
    <2>1. inst = resident /\ left = row /\ rows = chunks[c] /\ tk = taken[c]
      BY <1>3
      DEF Instances, RowAfterEnsure, ChunksAfterEnsure, TakenAfterEnsure, DropsStaleBuild
    <2>2. /\ DiffsAgainst(resident, Base(c)) /\ Unhooked(resident, build)
          /\ row.snapshot # NONE => Current(resident, row.snapshot, Base(c))
      BY <1>1, <1>3 DEF Reused, SInv
    <2> HIDE DEF c, row, left, rows, tk
    <2>. QED
      BY <1>2, <2>1, <2>2, Zenon DEF c, row, left, rows, tk
  <1>4. CASE ~Reused(c) /\ Usable(row)
    <2>1. /\ left = row /\ rows = chunks[c] /\ tk = taken[c] /\ row.snapshot # NONE
      BY <1>4
      DEF RowAfterEnsure, ChunksAfterEnsure, TakenAfterEnsure, DropsStaleBuild, Usable
    <2>2. PICK memory \in Memory :
            inst = RestoredInstance(c, row, memory) /\ AfterRestore(StoredMemory(c, row), memory)
      BY <1>4 DEF Instances
    <2> HIDE DEF c, row, left, rows, tk
    <2>3. /\ inst.memory = memory /\ inst.prevPageHashes = hashMemory(memory)
          /\ inst.chunkIds = DOMAIN chunks[c] /\ inst.rewritten = Differ(Base(c), memory)
      BY <1>2, <2>1, <2>2 DEF RestoredInstance
    <2>4. /\ DOMAIN Base(c) \subseteq DOMAIN memory
          /\ build \notin Hooked => memory = Base(c)
      BY <1>2, <2>1, <2>2 DEF AfterRestore, HookRun, Becomes
    <2>5. Unhooked(inst, build)
      BY <1>2, <2>3, <2>4, DifferenceIsRead DEF Unhooked
    <2>6. DiffsAgainst(inst, Base(c)) /\ Current(inst, row.snapshot, Base(c))
      BY <1>2, <2>3, <2>4 DEF DiffsAgainst, Current
    <2>. QED
      BY <1>2, <2>1, <2>5, <2>6, Zenon DEF c, row, left, rows, tk
  <1>5. CASE ~Reused(c) /\ ~Usable(row)
    <2>1. inst = BootedInstance(c)
      BY <1>5 DEF Instances
    <2>2. left.snapshot = NONE /\ rows = ChunkImage(EmptyMemory)
      <3>1. CASE row.snapshot = NONE
        BY <1>2, <1>5, <3>1 DEF RowAfterEnsure, ChunksAfterEnsure, DropsStaleBuild
      <3>2. CASE row.snapshot # NONE
        BY <1>5, <3>2, NothingStored DEF RowAfterEnsure, ChunksAfterEnsure, DropsStaleBuild
      <3>. QED
        BY <3>1, <3>2
    <2>3. /\ inst.prevPageHashes = hashMemory(EmptyMemory) /\ inst.chunkIds = DOMAIN NoRows
          /\ inst.rewritten = {} /\ Differ(EmptyMemory, EmptyMemory) = {}
      BY <2>1, NothingStored, EmptyIsMemory, DifferenceIsRead DEF BootedInstance, NoRows
    <2>4. DiffsAgainst(inst, EmptyMemory) /\ Unhooked(inst, build)
      <3>1. DOMAIN EmptyMemory = {}
        BY DEF EmptyMemory
      <3>. QED
        BY <2>3, <3>1, EmptyIsMemory, NothingStored DEF DiffsAgainst, Unhooked
    <2> HIDE DEF c, row, left, rows, tk
    <2>. QED
      BY <2>2, <2>4, EmptyIsMemory, Zenon DEF c, row, left, rows, tk
  <1>. QED
    BY <1>3, <1>4, <1>5

(***************************************************************************)
(* An execution ends, leaving the image of mem and a row about it.         *)
(***************************************************************************)
LEMMA FinishStored ==
  ASSUME TInv, SInv, NEW c \in Contexts, NEW mem \in Memory, NEW row, NEW tk, row # NONE,
         chunks' = [chunks EXCEPT ![c] = ChunkImage(mem)],
         contexts' = [contexts EXCEPT ![c] = row],
         taken' = [taken EXCEPT ![c] = tk],
         running' = NONE,
         build' = build,
         row.snapshot = NONE => mem = EmptyMemory,
         row.snapshot # NONE => Describes(row.snapshot, tk, mem),
         resident' # NONE =>
           /\ resident'.contextId = c
           /\ DiffsAgainst(resident', mem) /\ Unhooked(resident', build)
           /\ row.snapshot # NONE => Current(resident', row.snapshot, mem)
  PROVE  SInv'
  <1>1. /\ \A d \in Contexts : contexts'[d] = IF d = c THEN row ELSE contexts[d]
        /\ \A d \in Contexts : taken'[d] = IF d = c THEN tk ELSE taken[d]
        /\ \A d \in Contexts : chunks'[d] = IF d = c THEN ChunkImage(mem) ELSE chunks[d]
    BY DEF TInv
  <1>2. SnapshotOf(c)' = row.snapshot /\ Base(c)' = mem
    <2>1. SnapshotOf(c)' = row.snapshot
      BY <1>1 DEF SnapshotOf
    <2>2. row.snapshot # NONE => StoredMemory(c, contexts[c])' = mem
      BY <1>1, RestoringGivesMemory DEF StoredMemory, Describes
    <2>. QED
      BY <2>1, <2>2 DEF Base, SavedMemory
  <1>3. \A d \in Contexts : d # c => SnapshotOf(d)' = SnapshotOf(d) /\ Base(d)' = Base(d)
    BY <1>1 DEF SnapshotOf, Base, SavedMemory, StoredMemory
  <1>4. \A d \in Contexts : SnapshotOf(d)' # NONE => Describes(SnapshotOf(d)', taken'[d], Base(d)')
    BY <1>1, <1>2, <1>3 DEF SInv
  <1>5. \A d \in Contexts : chunks'[d] = ChunkImage(Base(d)')
    BY <1>1, <1>2, <1>3 DEF SInv
  <1>6. resident' # NONE =>
          /\ DiffsAgainst(resident', Base(resident.contextId)')
          /\ Unhooked(resident', build')
          /\ SnapshotOf(resident.contextId)' # NONE =>
               Current(resident', SnapshotOf(resident.contextId)', Base(resident.contextId)')
    BY <1>2
  <1>. QED
    BY <1>4, <1>5, <1>6 DEF SInv, Current, DiffsAgainst, Describes, Unhooked

LEMMA LettingGoStored ==
  ASSUME SInv, running' = NONE, UNCHANGED <<contexts, chunks, taken>>,
         resident' = NONE \/ UNCHANGED <<resident, build>>
  PROVE  SInv'
  <1>1. \A c \in Contexts : SnapshotOf(c)' = SnapshotOf(c) /\ Base(c)' = Base(c)
    BY DEF SnapshotOf, Base, SavedMemory, StoredMemory
  <1>2. resident' # NONE =>
          /\ resident' = resident /\ build' = build
          /\ SnapshotOf(resident.contextId)' = SnapshotOf(resident.contextId)
          /\ Base(resident.contextId)' = Base(resident.contextId)
    BY DEF SnapshotOf, Base, SavedMemory, StoredMemory
  <1>. QED
    BY <1>1, <1>2 DEF SInv, Describes, DiffsAgainst, Current, Unhooked

LEMMA StoredInvariant ==
  ASSUME Faults = {}
  PROVE  TInv /\ SInv /\ [Next]_vars => SInv'
  <1> SUFFICES ASSUME TInv, SInv, [Next]_vars PROVE SInv'
    OBVIOUS
  <1> DEFINE c    == running.contextId
             row  == running.row
             rows == ChunksAfterEnsure(c, row)
             left == RowAfterEnsure(c, row)
             tk   == TakenAfterEnsure(c, row)
  <1>e. ASSUME running # NONE
        PROVE  /\ c \in Contexts
               /\ left \in ContextRow /\ left # NONE
    BY <1>e, EnsureOK DEF TInv, RowOK
  <1>i. ASSUME running # NONE, NEW inst \in Instances(c, row)
        PROVE  /\ InstanceOK(inst) /\ inst.contextId = c
               /\ \E mem \in Memory :
                    /\ rows = ChunkImage(mem)
                    /\ DiffsAgainst(inst, mem) /\ Unhooked(inst, build)
                    /\ left.snapshot = NONE => mem = EmptyMemory
                    /\ left.snapshot # NONE =>
                         Describes(left.snapshot, tk, mem) /\ Current(inst, left.snapshot, mem)
    BY <1>i, EnsureOK, EnsureStored, Zenon
  <1>1. ASSUME NEW d \in Contexts, CreateContext(d) PROVE SInv'
    <2>1. \A i \in Contexts : contexts'[i] = IF i = d THEN [snapshot |-> NONE] ELSE contexts[i]
      BY <1>1 DEF CreateContext, TInv
    <2>2. /\ \A i \in Contexts : SnapshotOf(i)' = SnapshotOf(i)
          /\ [snapshot |-> NONE] # NONE
      BY <1>1, <2>1 DEF CreateContext, SnapshotOf, ContextRow
    <2>3. \A i \in Contexts : Base(i)' = Base(i)
      <3>1. \A i \in Contexts : SnapshotOf(i) # NONE => contexts'[i] = contexts[i]
        BY <1>1, <2>1 DEF CreateContext, SnapshotOf
      <3>. QED
        BY <1>1, <2>2, <3>1 DEF CreateContext, Base, SavedMemory, StoredMemory
    <2>4. resident # NONE => resident.contextId \in Contexts
      BY DEF TInv, InstanceOK, Resident
    <2>. QED
      BY <1>1, <2>2, <2>3, <2>4 DEF CreateContext, SInv
  <1>2. ASSUME NEW d \in Contexts, DeleteContext(d) PROVE SInv'
    <2>1. /\ \A i \in Contexts : contexts'[i] = IF i = d THEN NONE ELSE contexts[i]
          /\ \A i \in Contexts : taken'[i] = IF i = d THEN NONE ELSE taken[i]
          /\ \A i \in Contexts : chunks'[i] = IF i = d THEN NoRows ELSE chunks[i]
      BY <1>2 DEF DeleteContext, TInv
    <2>2. /\ SnapshotOf(d)' = NONE /\ Base(d)' = EmptyMemory
          /\ \A i \in Contexts \ {d} : SnapshotOf(i)' = SnapshotOf(i) /\ Base(i)' = Base(i)
      BY <2>1 DEF SnapshotOf, Base, SavedMemory, StoredMemory
    <2>3. /\ resident # NONE => resident.contextId \in Contexts
          /\ resident' # NONE => resident' = resident /\ resident.contextId # d
          /\ running' = NONE
      <3>1. resident # NONE => resident.contextId \in Contexts
        BY DEF TInv, InstanceOK, Resident
      <3>2. /\ resident' # NONE => resident' = resident /\ resident.contextId # d
            /\ running' = NONE
        BY <1>2 DEF DeleteContext
      <3>. QED
        BY <3>1, <3>2
    <2>4. ASSUME NEW i \in Contexts
          PROVE  /\ SnapshotOf(i)' # NONE => Describes(SnapshotOf(i)', taken'[i], Base(i)')
                 /\ chunks'[i] = ChunkImage(Base(i)')
      <3>1. CASE i = d
        BY <2>1, <2>2, <3>1, NothingStored
      <3>2. CASE i # d
        BY <2>1, <2>2, <3>2 DEF SInv
      <3>. QED
        BY <3>1, <3>2
    <2>5. resident' # NONE =>
            /\ DiffsAgainst(resident', Base(resident.contextId)')
            /\ Unhooked(resident', build)
            /\ SnapshotOf(resident.contextId)' # NONE =>
                 Current(resident', SnapshotOf(resident.contextId)', Base(resident.contextId)')
      BY <2>2, <2>3 DEF SInv, Unhooked
    <2>6. \A i \in Contexts : SnapshotOf(i)' # NONE => Describes(SnapshotOf(i), taken[i], Base(i))'
      BY <2>4 DEF Describes
    <2>7. resident' # NONE =>
            /\ DiffsAgainst(resident, Base(resident.contextId))'
            /\ Unhooked(resident, build)'
            /\ (SnapshotOf(resident.contextId) # NONE)' =>
                 Current(resident, SnapshotOf(resident.contextId), Base(resident.contextId))'
      BY <1>2, <2>3, <2>5 DEF DiffsAgainst, Current, Unhooked, DeleteContext
    <2>. QED
      BY <2>3, <2>4, <2>6, <2>7 DEF SInv
  <1>3. ASSUME NEW d \in Contexts, BeginExecute(d) PROVE SInv'
    <2>1. /\ UNCHANGED <<contexts, chunks, taken, resident, build>>
          /\ running'.contextId = d /\ running'.row = contexts[d]
      BY <1>3 DEF BeginExecute
    <2>. QED
      BY <2>1
      DEF SInv, SnapshotOf, Base, SavedMemory, StoredMemory, Describes, DiffsAgainst, Current,
          Unhooked
  <1>4. CASE PullFails \/ Evict \/ Deploy
    BY <1>4, LettingGoStored DEF PullFails, Evict, Deploy
  <1>5. CASE RunSnapshots
    <2>0. running # NONE
      BY <1>5 DEF RunSnapshots
    <2>1. PICK inst \in Instances(c, row), memory \in Memory :
            /\ GuestRun(inst.memory, memory)
            /\ resident' = AfterSnapshot(inst, memory)
            /\ chunks' = [chunks EXCEPT ![c] = WriteChunks(rows, memory, inst.prevPageHashes)]
            /\ contexts' = [contexts EXCEPT ![c] =
                 [snapshot |-> [build |-> build,
                                memoryPages |-> Cardinality(DOMAIN memory),
                                chunkCount |-> Cardinality(resident'.chunkIds),
                                stale |-> FALSE]]]
            /\ taken' = [taken EXCEPT ![c] =
                 [memory |-> memory, rewritten |-> resident'.rewritten]]
            /\ running' = NONE /\ build' = build
      BY <1>5 DEF RunSnapshots
    <2>2. PICK mem \in Memory :
            rows = ChunkImage(mem) /\ DiffsAgainst(inst, mem) /\ Unhooked(inst, build)
      BY <1>i, <2>0, Zenon
    <2>3. PICK old \in Memory :
            inst.prevPageHashes = hashMemory(old) /\ Differ(mem, old) \subseteq inst.rewritten
      BY <2>2 DEF DiffsAgainst
    <2> DEFINE record == [build |-> build, memoryPages |-> Cardinality(DOMAIN memory),
                          chunkCount |-> Cardinality(resident'.chunkIds), stale |-> FALSE]
               tkn == [memory |-> memory, rewritten |-> resident'.rewritten]
               hashes == hashMemory(memory)
               prev   == hashMemory(old)
               stored == Overwritten(mem, old, memory)
    <2>4. InstanceOK(inst) /\ inst.contextId = c
      BY <1>i, <2>0, Zenon
    <2>5. /\ resident'.contextId = c /\ resident'.memory = memory
          /\ resident'.prevPageHashes = hashes
          /\ resident'.rewritten = Unwritten(inst.rewritten, hashes, prev)
          /\ resident'.chunkIds = (inst.chunkIds \ RemoveChunks(hashes, prev))
                                  \cup UpsertChunks(hashes, prev)
      <3> HIDE DEF c, row
      <3>1. resident' = AfterSnapshot(inst, memory)
        BY <2>1
      <3>. QED
        BY <2>3, <2>4, <3>1 DEF AfterSnapshot, InstanceOK, Resident
    <2> HIDE DEF c, row, rows
    <2>6. /\ stored \in Memory /\ DOMAIN stored = DOMAIN memory
          /\ Differ(stored, memory) \subseteq resident'.rewritten
      BY <2>3, <2>5, OverwrittenIsMemory, WritingTracks
    <2>7. /\ WriteChunks(rows, memory, prev) = ChunkImage(stored)
          /\ resident'.chunkIds = DOMAIN ChunkImage(stored)
      <3>1. DOMAIN mem \subseteq DOMAIN memory
        BY <2>1, <2>2 DEF DiffsAgainst, GuestRun, Becomes
      <3>2. WriteChunks(rows, memory, prev) = ChunkImage(stored)
        BY <2>2, <3>1, WritingGivesImage
      <3>3. DOMAIN WriteChunks(rows, memory, prev) =
              (DOMAIN rows \ RemoveChunks(hashes, prev)) \cup UpsertChunks(hashes, prev)
        BY DEF WriteChunks
      <3> HIDE DEF stored, hashes, prev
      <3>. QED
        BY <2>2, <2>5, <3>2, <3>3 DEF DiffsAgainst
    <2>8. /\ InstanceOK(resident') /\ Cardinality(DOMAIN memory) \in Nat
          /\ Cardinality(resident'.chunkIds) \in Nat
      BY <2>1, <2>4, SnapshotOK, MemoryShape, FS_CardinalityType DEF InstanceOK, Resident
    <2>9. record \in SnapshotRecord /\ tkn \in Taken
      BY <2>8 DEF SnapshotRecord, TInv, Taken, InstanceOK, Resident
    <2>u. Unhooked(resident', build)
      BY <2>2, <2>5 DEF Unhooked, Unwritten
    <2>10. /\ record # NONE /\ [snapshot |-> record] # NONE
           /\ Describes(record, tkn, stored)
      <3>1. record # NONE /\ [snapshot |-> record] \in ContextRow
        BY <2>9 DEF ContextRow
      <3> HIDE DEF stored
      <3>2. Describes(record, tkn, stored)
        BY <2>6, <2>7, <2>9, <2>u DEF Describes, Unhooked
      <3>. QED
        BY <3>1, <3>2
    <2> HIDE DEF stored
    <2>11. DiffsAgainst(resident', stored) /\ Current(resident', record, stored)
      BY <2>5, <2>6, <2>7 DEF DiffsAgainst, Current
    <2>12. /\ chunks' = [chunks EXCEPT ![c] = ChunkImage(stored)]
           /\ contexts' = [contexts EXCEPT ![c] = [snapshot |-> record]]
           /\ taken' = [taken EXCEPT ![c] = tkn] /\ running' = NONE /\ build' = build
           /\ resident'.contextId = c
      BY <2>1, <2>3, <2>5, <2>7
    <2>13. c \in Contexts
      BY <1>e, <2>0 DEF c
    <2> HIDE DEF record, tkn
    <2>. QED
      BY <2>6, <2>10, <2>11, <2>12, <2>13, <2>u, FinishStored
  <1>6. ASSUME NEW limited \in BOOLEAN, RunWithoutSnapshot(limited) PROVE SInv'
    <2>0. running # NONE
      BY <1>6 DEF RunWithoutSnapshot
    <2>1. PICK inst \in Instances(c, row), memory \in Memory :
            /\ GuestRun(inst.memory, memory)
            /\ resident' = [inst EXCEPT !.memory = memory, !.limited = limited \/ inst.limited]
      BY <1>6, Zenon DEF RunWithoutSnapshot
    <2>2. /\ chunks' = [chunks EXCEPT ![c] = rows]
          /\ contexts' = [contexts EXCEPT ![c] = RowUnsnapshotted(left, limited)]
          /\ taken' = [taken EXCEPT ![c] = tk] /\ running' = NONE /\ build' = build
      BY <1>6, Zenon DEF RunWithoutSnapshot
    <2>3. PICK mem \in Memory :
            /\ rows = ChunkImage(mem) /\ DiffsAgainst(inst, mem) /\ Unhooked(inst, build)
            /\ left.snapshot = NONE => mem = EmptyMemory
            /\ left.snapshot # NONE => Describes(left.snapshot, tk, mem)
      BY <1>i, <2>0, Zenon
    <2>4. /\ InstanceOK(inst) /\ inst.contextId = c /\ left \in ContextRow /\ left # NONE
          /\ c \in Contexts
      BY <1>e, <1>i, <2>0, Zenon
    <2>5. /\ resident'.contextId = c /\ DiffsAgainst(resident', mem)
          /\ Unhooked(resident', build)
          /\ limited => resident'.limited
      <3> HIDE DEF c, row
      <3>1. /\ resident'.contextId = c /\ resident'.prevPageHashes = inst.prevPageHashes
            /\ resident'.chunkIds = inst.chunkIds /\ resident'.memory = memory
            /\ resident'.rewritten = inst.rewritten
            /\ resident'.limited = (limited \/ inst.limited)
        BY <2>1, <2>4 DEF InstanceOK, Resident
      <3>2. DOMAIN inst.memory \subseteq DOMAIN memory
        BY <2>1 DEF GuestRun, Becomes
      <3>. QED
        BY <2>3, <3>1, <3>2 DEF DiffsAgainst, Unhooked
    <2> DEFINE new == RowUnsnapshotted(left, limited)
    <2>6. /\ new # NONE
          /\ new.snapshot = NONE => left.snapshot = NONE
          /\ new.snapshot # NONE =>
               /\ left.snapshot # NONE /\ Describes(new.snapshot, tk, mem)
               /\ limited \/ new.snapshot.stale
      <3> HIDE DEF left, tk
      <3>1. CASE left.snapshot = NONE
        BY <2>4, <3>1 DEF RowUnsnapshotted
      <3>2. CASE left.snapshot # NONE /\ limited
        BY <2>3, <2>4, <3>2 DEF RowUnsnapshotted
      <3>3. CASE left.snapshot # NONE /\ ~limited
        <4> DEFINE record == [left.snapshot EXCEPT !.stale = TRUE]
        <4>1. left.snapshot \in SnapshotRecord
          BY <2>4, <3>3 DEF ContextRow
        <4>2. /\ record \in SnapshotRecord /\ record.stale
              /\ record.memoryPages = left.snapshot.memoryPages
              /\ record.build = left.snapshot.build
              /\ record.chunkCount = left.snapshot.chunkCount
          BY <4>1 DEF SnapshotRecord
        <4>3. new = [snapshot |-> record]
          BY <2>4, <3>3 DEF RowUnsnapshotted, ContextRow
        <4> HIDE DEF record, new
        <4>4. new # NONE /\ new.snapshot = record /\ record # NONE
          BY <4>2, <4>3 DEF ContextRow
        <4>. QED
          BY <2>3, <3>3, <4>2, <4>4 DEF Describes
      <3>. QED
        BY <3>1, <3>2, <3>3
    <2>7. new.snapshot # NONE => Current(resident', new.snapshot, mem)
      BY <2>5, <2>6 DEF Current
    <2> HIDE DEF c, rows, left, tk, new
    <2>. QED
      BY <2>2, <2>3, <2>4, <2>5, <2>6, <2>7, FinishStored DEF new
  <1>7. CASE RunHoldsDescriptor \/ RunHitsLimit
    BY <1>6, <1>7 DEF RunHoldsDescriptor, RunHitsLimit
  <1>8. CASE RunTraps
    <2>1. /\ running # NONE /\ resident' = NONE
          /\ chunks' = [chunks EXCEPT ![c] = rows]
          /\ contexts' = [contexts EXCEPT ![c] = left]
          /\ taken' = [taken EXCEPT ![c] = tk] /\ running' = NONE /\ build' = build
      BY <1>8, Zenon DEF RunTraps
    <2>2. PICK mem \in Memory :
            /\ rows = ChunkImage(mem)
            /\ left.snapshot = NONE => mem = EmptyMemory
            /\ left.snapshot # NONE => Describes(left.snapshot, tk, mem)
      <3>1. PICK inst \in Instances(c, row) : TRUE
        BY <2>1, EnsureSome, Zenon
      <3>. QED
        BY <1>i, <2>1, Zenon
    <2>3. c \in Contexts /\ left # NONE
      BY <1>e, <2>1
    <2> HIDE DEF c, rows, left, tk
    <2>. QED
      BY <2>1, <2>2, <2>3, FinishStored
  <1>9. CASE BootFails \/ PersistFails \/ AlarmDuringPull
    BY <1>9 DEF BootFails, PersistFails, AlarmDuringPull
  <1>10. CASE DestroyWhileIdle
    <2>1. /\ \A i \in Contexts : contexts'[i] = NONE /\ chunks'[i] = NoRows
          /\ resident' = NONE /\ running' = NONE
      BY <1>10 DEF DestroyWhileIdle, Destroy
    <2>2. \A i \in Contexts : SnapshotOf(i)' = NONE /\ Base(i)' = EmptyMemory
      BY <2>1 DEF SnapshotOf, Base
    <2>. QED
      BY <2>1, <2>2, NothingStored DEF SInv
  <1>11. CASE UNCHANGED vars
    BY <1>11
    DEF vars, SInv, SnapshotOf, Base, SavedMemory, StoredMemory, Describes, DiffsAgainst, Current,
        Unhooked
  <1>. QED
    BY <1>1, <1>2, <1>3, <1>4, <1>5, <1>7, <1>8, <1>9, <1>10, <1>11 DEF Next

LEMMA StoredAlways ==
  ASSUME Faults = {}
  PROVE  Spec => [](TInv /\ SInv)
  <1>1. Init => TInv /\ SInv
    BY InitTyped, InitStored
  <1>2. TInv /\ SInv /\ [Next]_vars => TInv' /\ SInv'
    BY TypedInvariant, StoredInvariant
  <1>. QED
    BY <1>1, <1>2, PTL DEF Spec

(***************************************************************************)
(* Restoring what is stored gives the memory of the last snapshot, but for *)
(* the pages a restore hook rewrote in the instance snapshotted:           *)
(* incremental chunk writes never leave another stale, missing or surplus  *)
(* page, for every chunk size, memory size and number of builds, with or   *)
(* without the hook.                                                       *)
(***************************************************************************)
THEOREM StoredIsLastSnapshot ==
  ASSUME Faults = {}
  PROVE  Spec => []StoredImageIsLastSnapshot
  <1>1. TInv /\ SInv => StoredImageIsLastSnapshot
    <2> SUFFICES ASSUME TInv, SInv, NEW c \in Contexts, SnapshotOf(c) # NONE
                 PROVE  /\ DOMAIN SavedMemory(c) = DOMAIN taken[c].memory
                        /\ Differ(SavedMemory(c), taken[c].memory) \subseteq taken[c].rewritten
                        /\ SnapshotOf(c).build \notin Hooked => SavedMemory(c) = taken[c].memory
      BY DEF StoredImageIsLastSnapshot
    <2>1. Describes(SnapshotOf(c), taken[c], SavedMemory(c))
      BY DEF SInv, Base
    <2>2. SavedMemory(c) \in Memory /\ taken[c].memory \in Memory
      BY <2>1 DEF Describes, Taken
    <2>. QED
      BY <2>1, <2>2, DifferenceIsRead DEF Describes
  <1>. QED
    BY <1>1, StoredAlways, PTL

(***************************************************************************)
(* The resident's chunk ids are the chunks stored for its context.         *)
(***************************************************************************)
THEOREM ChunkIdsAreExact ==
  ASSUME Faults = {}
  PROVE  Spec => []ChunkIdsAreStored
  <1>1. TInv /\ SInv => ChunkIdsAreStored
    BY DEF TInv, InstanceOK, Resident, SInv, DiffsAgainst, ChunkIdsAreStored
  <1>. QED
    BY <1>1, StoredAlways, PTL

(***************************************************************************)
(* The footprint in a snapshot record is the number of rows stored.        *)
(***************************************************************************)
THEOREM ReportedCountIsExact ==
  ASSUME Faults = {}
  PROVE  Spec => []ChunkCountIsExact
  <1>1. TInv /\ SInv => ChunkCountIsExact
    BY DEF SInv, Describes, ChunkCountIsExact
  <1>. QED
    BY <1>1, StoredAlways, PTL

(***************************************************************************)
(* A stored snapshot that is behind the resident memory says so, or a      *)
(* round of the resident hit its limit.                                    *)
(***************************************************************************)
THEOREM BehindIsKnown ==
  ASSUME Faults = {}
  PROVE  Spec => []BehindIsFlaggedOrLimited
  <1>1. TInv /\ SInv => BehindIsFlaggedOrLimited
    BY DEF TInv, InstanceOK, Resident, SInv, Base, Current, BehindIsFlaggedOrLimited,
       StoredIsCurrent
  <1>. QED
    BY <1>1, StoredAlways, PTL

(***************************************************************************)
(* Part three: the interpreter implements ContextMemory, when boots and    *)
(* transactions succeed and no alarm runs during an execution. Chunks,     *)
(* hashes and incremental writes are invisible in what a context runs on.  *)
(***************************************************************************)
USE NoInstanceAssumption

\* What ContextMemory calls saved.
Saved == [c \in Contexts |-> SavedImage(c)]

LEMMA InitRefines == Init => Abstract!Init
  BY DEF Init, Abstract!Init, LiveContexts, SavedImage, SnapshotOf, LiveInstance

\* A step that writes one context's row and chunks changes one image.
WritesOnly(c, row, mem) ==
  /\ contexts' = [contexts EXCEPT ![c] = row]
  /\ chunks' = [chunks EXCEPT ![c] = ChunkImage(mem)]
  /\ row # NONE
  /\ row.snapshot # NONE => row.snapshot.memoryPages = Cardinality(DOMAIN mem)

ImageOf(row, mem) ==
  IF row.snapshot = NONE THEN NONE ELSE [build |-> row.snapshot.build, memory |-> mem]

LEMMA OneImage ==
  ASSUME TInv, NEW c \in Contexts, NEW row, NEW mem \in Memory, WritesOnly(c, row, mem)
  PROVE  Saved' = [Saved EXCEPT ![c] = ImageOf(row, mem)]
  <1>1. /\ \A d \in Contexts : contexts'[d] = IF d = c THEN row ELSE contexts[d]
        /\ \A d \in Contexts : chunks'[d] = IF d = c THEN ChunkImage(mem) ELSE chunks[d]
    BY DEF TInv, WritesOnly
  <1>2. row.snapshot # NONE => StoredMemory(c, contexts[c])' = mem
    BY <1>1, RestoringGivesMemory DEF StoredMemory, WritesOnly
  <1>3. SavedImage(c)' = ImageOf(row, mem)
    BY <1>1, <1>2 DEF SavedImage, SavedMemory, SnapshotOf, WritesOnly, ImageOf
  <1>4. \A d \in Contexts \ {c} : SavedImage(d)' = SavedImage(d)
    BY <1>1 DEF SavedImage, SavedMemory, StoredMemory, SnapshotOf
  <1>. QED
    BY <1>3, <1>4 DEF Saved

(***************************************************************************)
(* What an execution starts from is what ContextMemory says: the instances *)
(* of ensureInstance are those of Starts, and it drops the images that are *)
(* of no use to it.                                                        *)
(***************************************************************************)
LEMMA EnsureRefines ==
  ASSUME TInv, SInv, running # NONE
  PROVE  LET c == running.contextId row == running.row
         IN  /\ c \in LiveContexts /\ row = contexts[c]
             /\ \A inst \in Instances(c, row) :
                  \E start \in Abstract!Starts(c) :
                    start.memory = inst.memory /\ start.unseen = inst.rewritten
             /\ Abstract!KeptImage(c) = IF DropsStaleBuild(c, row) THEN NONE ELSE Saved[c]
  <1> DEFINE c == running.contextId
             row == running.row
  <1>1. /\ c \in Contexts /\ row = contexts[c] /\ row \in ContextRow
        /\ contexts[c] # NONE /\ SnapshotOf(c) = row.snapshot
    BY DEF TInv, RowOK, SInv, SnapshotOf
  <1>2. Saved[c] = SavedImage(c)
    BY <1>1 DEF Saved
  <1>3. row.snapshot # NONE =>
          /\ SavedImage(c) \in SavedImages /\ SavedImage(c).build = row.snapshot.build
          /\ SavedImage(c).memory = StoredMemory(c, row)
    <2>1. row.snapshot # NONE => StoredMemory(c, row) \in Memory
      BY <1>1, BaseIsMemory DEF Base, SavedMemory
    <2>2. row.snapshot # NONE =>
            SavedImage(c) = [build |-> row.snapshot.build, memory |-> StoredMemory(c, row)]
      BY <1>1 DEF SavedImage, SavedMemory
    <2>3. row.snapshot # NONE => row.snapshot.build \in Builds
      BY <1>1 DEF ContextRow, SnapshotRecord
    <2> HIDE DEF c, row
    <2>. QED
      BY <2>1, <2>2, <2>3 DEF SavedImages
  <1>4. row.snapshot = NONE => SavedImage(c) = NONE
    BY <1>1 DEF SavedImage
  <1>5. resident # NONE => LiveInstance \in LiveInstances
    BY DEF TInv, InstanceOK, Resident, LiveInstance, LiveInstances
  <1>6. Abstract!Owns(c) <=> Reused(c)
    BY <1>5 DEF Abstract!Owns, Reused, LiveInstance
  <1>7. Abstract!Usable(c) <=> Usable(row)
    <2>1. Abstract!Usable(c) <=> Saved[c] # NONE /\ Saved[c].build = build
      BY DEF Abstract!Usable, Saved
    <2>. QED
      BY <1>2, <1>3, <1>4, <2>1 DEF Usable
  <1>8. ASSUME NEW inst \in Instances(c, row)
        PROVE  \E start \in Abstract!Starts(c) :
                 start.memory = inst.memory /\ start.unseen = inst.rewritten
    <2> DEFINE start == [memory |-> inst.memory, unseen |-> inst.rewritten]
    <2> SUFFICES start \in Abstract!Starts(c)
      OBVIOUS
    <2>1. CASE Reused(c)
      <3>1. inst = resident /\ resident # NONE
        BY <2>1 DEF Instances, Reused
      <3>2. Abstract!Starts(c) = {[memory |-> LiveInstance.memory, unseen |-> LiveInstance.unseen]}
        BY <1>6, <2>1 DEF Abstract!Starts
      <3>. QED
        BY <3>1, <3>2 DEF LiveInstance
    <2>2. CASE ~Reused(c) /\ Usable(row)
      <3>1. row.snapshot # NONE
        BY <2>2 DEF Usable
      <3>2. PICK memory \in Memory :
              /\ inst = RestoredInstance(c, row, memory)
              /\ AfterRestore(StoredMemory(c, row), memory)
        BY <2>2 DEF Instances
      <3>3. inst.memory = memory /\ inst.rewritten = Differ(StoredMemory(c, row), memory)
        <4> HIDE DEF c, row
        <4>. QED
          BY <3>2 DEF RestoredInstance
      <3>4. Abstract!Starts(c) =
              {[memory |-> n, unseen |-> Differ(Saved[c].memory, n)] :
                 n \in Abstract!Restored(Saved[c].memory)}
        BY <1>6, <1>7, <2>2 DEF Abstract!Starts, Saved
      <3>5. memory \in Abstract!Restored(StoredMemory(c, row))
        BY <3>2 DEF Abstract!Restored, AfterRestore
      <3>6. Saved[c].memory = StoredMemory(c, row)
        BY <1>2, <1>3, <3>1
      <3> HIDE DEF c, row
      <3>. QED
        BY <3>3, <3>4, <3>5, <3>6
    <2>3. CASE ~Reused(c) /\ ~Usable(row)
      <3>1. inst = BootedInstance(c)
        BY <2>3 DEF Instances
      <3>2. Abstract!Starts(c) = {[memory |-> BootMemory, unseen |-> {}]}
        BY <1>6, <1>7, <2>3 DEF Abstract!Starts
      <3>. QED
        BY <3>1, <3>2 DEF BootedInstance
    <2>. QED
      BY <2>1, <2>2, <2>3
  <1>9. Abstract!KeptImage(c) = IF DropsStaleBuild(c, row) THEN NONE ELSE Saved[c]
    <2>1. Abstract!KeptImage(c) = IF Reused(c) \/ Usable(row) THEN Saved[c] ELSE NONE
      BY <1>6, <1>7 DEF Abstract!KeptImage, Saved
    <2>. QED
      BY <1>2, <1>4, <2>1 DEF DropsStaleBuild
  <1>. QED
    BY <1>1, <1>8, <1>9 DEF LiveContexts

(***************************************************************************)
(* An execution that takes no snapshot leaves the image ContextMemory says *)
(* it keeps, whatever else it writes in the row.                           *)
(***************************************************************************)
LEMMA KeepingRefines ==
  ASSUME TInv, SInv, running # NONE, NEW new \in ContextRow,
         contexts' = [contexts EXCEPT ![running.contextId] = new],
         chunks' = [chunks EXCEPT ![running.contextId] =
                      ChunksAfterEnsure(running.contextId, running.row)],
         LET left == RowAfterEnsure(running.contextId, running.row)
         IN  /\ new.snapshot = NONE <=> left.snapshot = NONE
             /\ new.snapshot # NONE =>
                  /\ new.snapshot.build = left.snapshot.build
                  /\ new.snapshot.memoryPages = left.snapshot.memoryPages
  PROVE  Saved' = [Saved EXCEPT ![running.contextId] = Abstract!KeptImage(running.contextId)]
  <1> DEFINE c == running.contextId
             row == running.row
             left == RowAfterEnsure(c, row)
  <1>1. /\ c \in Contexts /\ row = contexts[c] /\ row \in ContextRow /\ row # NONE
        /\ SnapshotOf(c) = row.snapshot /\ new # NONE
    BY DEF TInv, RowOK, SInv, SnapshotOf
  <1>2. Abstract!KeptImage(c) = IF DropsStaleBuild(c, row) THEN NONE ELSE Saved[c]
    BY EnsureRefines, Zenon
  <1>3. Saved[c] = SavedImage(c)
    BY <1>1 DEF Saved
  <1>4. CASE DropsStaleBuild(c, row)
    <2>1. left.snapshot = NONE /\ ChunksAfterEnsure(c, row) = ChunkImage(EmptyMemory)
      BY <1>4, NothingStored DEF RowAfterEnsure, ChunksAfterEnsure
    <2> HIDE DEF c, row, left
    <2>2. chunks' = [chunks EXCEPT ![c] = ChunkImage(EmptyMemory)]
      BY <2>1 DEF c, row
    <2>3. new.snapshot = NONE
      BY <2>1 DEF c, row, left
    <2>4. WritesOnly(c, new, EmptyMemory)
      BY <1>1, <2>2, <2>3 DEF WritesOnly, c
    <2>5. Saved' = [Saved EXCEPT ![c] = ImageOf(new, EmptyMemory)]
      BY <1>1, <2>4, EmptyIsMemory, OneImage
    <2>. QED
      BY <1>2, <1>4, <2>3, <2>5 DEF c, ImageOf
  <1>5. CASE ~DropsStaleBuild(c, row)
    <2>1. left = row /\ ChunksAfterEnsure(c, row) = ChunkImage(Base(c)) /\ Base(c) \in Memory
      BY <1>1, <1>5, BaseIsMemory DEF RowAfterEnsure, ChunksAfterEnsure, SInv
    <2>2. row.snapshot # NONE =>
            /\ row.snapshot.memoryPages = Cardinality(DOMAIN Base(c))
            /\ SavedImage(c) = [build |-> row.snapshot.build, memory |-> Base(c)]
      BY <1>1 DEF SInv, Describes, SavedImage, Base
    <2>3. row.snapshot = NONE => SavedImage(c) = NONE
      BY <1>1 DEF SavedImage
    <2> HIDE DEF c, row
    <2>4. WritesOnly(c, new, Base(c))
      BY <1>1, <2>1, <2>2 DEF WritesOnly, c, row
    <2>5. Saved' = [Saved EXCEPT ![c] = ImageOf(new, Base(c))]
      BY <1>1, <2>1, <2>4, OneImage
    <2>6. ImageOf(new, Base(c)) = SavedImage(c)
      BY <2>1, <2>2, <2>3 DEF c, row, ImageOf
    <2>. QED
      BY <1>2, <1>3, <1>5, <2>5, <2>6 DEF c, row
  <1>. QED
    BY <1>4, <1>5

LEMMA StepRefines ==
  ASSUME Faults = {}
  PROVE  TInv /\ SInv /\ TInv' /\ [Next]_vars => [Abstract!Next]_Abstract!vars
  <1> SUFFICES ASSUME TInv, SInv, TInv', [Next]_vars
               PROVE  [Abstract!Next]_Abstract!vars
    OBVIOUS
  <1>1. ASSUME NEW c \in Contexts, CreateContext(c) PROVE Abstract!Create(c)
    <2>1. \A d \in Contexts : SavedImage(d)' = SavedImage(d)
      <3>1. \A d \in Contexts : contexts'[d] = IF d = c THEN [snapshot |-> NONE] ELSE contexts[d]
        BY <1>1 DEF CreateContext, TInv
      <3>2. contexts[c] = NONE /\ UNCHANGED chunks /\ [snapshot |-> NONE] # NONE
        BY <1>1 DEF CreateContext, ContextRow
      <3>. QED
        BY <3>1, <3>2 DEF SavedImage, SavedMemory, StoredMemory, SnapshotOf
    <2>2. UNCHANGED Saved
      BY <2>1 DEF Saved
    <2>3. LiveContexts' = LiveContexts \cup {c} /\ c \notin LiveContexts
      BY <1>1 DEF CreateContext, LiveContexts, TInv, ContextRow
    <2>4. UNCHANGED <<LiveInstance, build>>
      BY <1>1 DEF CreateContext, LiveInstance
    <2>. QED
      BY <2>2, <2>3, <2>4 DEF Abstract!Create, Saved
  <1>2. ASSUME NEW c \in Contexts, DeleteContext(c) PROVE Abstract!Remove(c)
    <2>1. /\ \A d \in Contexts : contexts'[d] = IF d = c THEN NONE ELSE contexts[d]
          /\ \A d \in Contexts : chunks'[d] = IF d = c THEN NoRows ELSE chunks[d]
      BY <1>2 DEF DeleteContext, TInv
    <2>2. Saved' = [Saved EXCEPT ![c] = NONE]
      BY <2>1 DEF Saved, SavedImage, SavedMemory, StoredMemory, SnapshotOf
    <2>3. LiveContexts' = LiveContexts \ {c} /\ c \in LiveContexts
      BY <1>2 DEF DeleteContext, LiveContexts, TInv
    <2>4. resident # NONE => LiveInstance \in LiveInstances
      BY DEF TInv, InstanceOK, Resident, LiveInstance, LiveInstances
    <2>5. LiveInstance' = IF Abstract!Owns(c) THEN NONE ELSE LiveInstance
      BY <1>2, <2>4 DEF DeleteContext, LiveInstance, Abstract!Owns
    <2>6. UNCHANGED build
      BY <1>2 DEF DeleteContext
    <2>. QED
      BY <2>2, <2>3, <2>5, <2>6 DEF Abstract!Remove, Saved
  <1>3. ASSUME NEW c \in Contexts, BeginExecute(c) PROVE UNCHANGED Abstract!vars
    BY <1>3
    DEF BeginExecute, Abstract!vars, LiveContexts, SavedImage, SavedMemory, StoredMemory,
        SnapshotOf, LiveInstance
  <1>4. CASE PullFails
    BY <1>4
    DEF PullFails, Abstract!vars, LiveContexts, SavedImage, SavedMemory, StoredMemory,
        SnapshotOf, LiveInstance
  <1> DEFINE c == running.contextId
             row == running.row
             kept == Abstract!KeptImage(c)
             left == RowAfterEnsure(c, row)
  <1>e. ASSUME running # NONE
        PROVE  /\ c \in Contexts /\ c \in LiveContexts /\ row = contexts[c]
               /\ row \in ContextRow
               /\ left \in ContextRow /\ left # NONE
    BY <1>e, EnsureRefines DEF LiveContexts, TInv, RowOK, RowAfterEnsure, ContextRow
  <1>i. ASSUME running # NONE, NEW inst \in Instances(c, row)
        PROVE  /\ InstanceOK(inst) /\ inst.contextId = c
               /\ \E start \in Abstract!Starts(c) :
                    start.memory = inst.memory /\ start.unseen = inst.rewritten
    BY <1>i, EnsureRefines, EnsureOK, Zenon
  <1>l. ASSUME resident' \in Resident, resident'.contextId = c
        PROVE  /\ LiveInstance' = [owner |-> c, memory |-> resident'.memory,
                                   unseen |-> resident'.rewritten]
               /\ resident'.memory \in Memory /\ resident'.rewritten \in SUBSET Pages
    BY <1>l, NoInstanceAssumption DEF LiveInstance, Resident
  \* A row stays a row, so no context appears or disappears.
  <1>k. ASSUME running # NONE, NEW new \in ContextRow, contexts' = [contexts EXCEPT ![c] = new]
        PROVE  UNCHANGED LiveContexts
    BY <1>e, <1>k DEF LiveContexts, TInv
  \* Either an image is kept and nothing becomes seen, or the memory is saved.
  <1>x. ASSUME running # NONE, NEW inst \in Instances(c, row), resident' \in Resident,
               resident'.contextId = c, GuestRun(inst.memory, resident'.memory),
               UNCHANGED <<LiveContexts, build>>,
               \/ /\ resident'.rewritten = inst.rewritten
                  /\ Saved' = [Saved EXCEPT ![c] = kept]
               \/ /\ resident'.rewritten \subseteq inst.rewritten
                  /\ \E memory \in Memory :
                       /\ Differ(memory, resident'.memory) \subseteq resident'.rewritten
                       /\ Saved' = [Saved EXCEPT ![c] = [build |-> build, memory |-> memory]]
        PROVE  Abstract!Execute(c)
    <2> HIDE DEF c, row, kept
    <2>1. PICK start \in Abstract!Starts(c) :
            start.memory = inst.memory /\ start.unseen = inst.rewritten
      BY <1>i, <1>x, Zenon
    <2>2. /\ LiveInstance' \in [owner : {c}, memory : Memory, unseen : SUBSET Pages]
          /\ LiveInstance'.memory = resident'.memory
          /\ LiveInstance'.unseen = resident'.rewritten
      BY <1>l, <1>x
    <2>3. c \in LiveContexts
      BY <1>e, <1>x
    <2>4. GuestRun(start.memory, LiveInstance'.memory)
      BY <1>x, <2>1, <2>2
    <2>5. \/ LiveInstance'.unseen = start.unseen /\ Saved' = [Saved EXCEPT ![c] = kept]
          \/ /\ LiveInstance'.unseen \subseteq start.unseen
             /\ \E memory \in Abstract!Saves(LiveInstance'.memory, LiveInstance'.unseen) :
                  Saved' = [Saved EXCEPT ![c] = [build |-> build, memory |-> memory]]
      BY <1>x, <2>1, <2>2 DEF Abstract!Saves
    <2>. QED
      BY <1>x, <2>1, <2>2, <2>3, <2>4, <2>5, Zenon DEF Abstract!Execute, Saved, kept
  <1>5. ASSUME RunSnapshots PROVE Abstract!Execute(c)
    <2>0. running # NONE
      BY <1>5 DEF RunSnapshots
    <2> HIDE DEF kept
    <2>1. PICK inst \in Instances(c, row), memory \in Memory :
            /\ GuestRun(inst.memory, memory)
            /\ resident' = AfterSnapshot(inst, memory)
            /\ chunks' = [chunks EXCEPT ![c] =
                 WriteChunks(ChunksAfterEnsure(c, row), memory, inst.prevPageHashes)]
            /\ contexts' = [contexts EXCEPT ![c] =
                 [snapshot |-> [build |-> build,
                                memoryPages |-> Cardinality(DOMAIN memory),
                                chunkCount |-> Cardinality(resident'.chunkIds),
                                stale |-> FALSE]]]
            /\ UNCHANGED build
      BY <1>5 DEF RunSnapshots
    <2> HIDE DEF c, row
    <2>2. InstanceOK(inst) /\ inst.contextId = c
      BY <1>i, <2>0, Zenon
    <2>3. PICK mem \in Memory : ChunksAfterEnsure(c, row) = ChunkImage(mem) /\ DiffsAgainst(inst, mem)
      BY <2>0, EnsureStored, Zenon DEF c, row
    <2>4. PICK old \in Memory :
            inst.prevPageHashes = hashMemory(old) /\ Differ(mem, old) \subseteq inst.rewritten
      BY <2>3 DEF DiffsAgainst
    <2> DEFINE stored == Overwritten(mem, old, memory)
               record == [build |-> build, memoryPages |-> Cardinality(DOMAIN memory),
                          chunkCount |-> Cardinality(resident'.chunkIds), stale |-> FALSE]
               new == [snapshot |-> record]
    <2>5. /\ InstanceOK(resident') /\ resident'.contextId = c
          /\ resident'.memory = memory
          /\ resident'.rewritten = Unwritten(inst.rewritten, hashMemory(memory), hashMemory(old))
      <3>1. InstanceOK(resident') /\ resident'.contextId = c
        BY <2>1, <2>2, SnapshotOK
      <3>2. inst \in Resident
        BY <2>2 DEF InstanceOK
      <3>3. /\ resident'.memory = memory
            /\ resident'.rewritten =
                 Unwritten(inst.rewritten, hashMemory(memory), inst.prevPageHashes)
        BY <2>1, <3>2 DEF AfterSnapshot, Resident
      <3>. QED
        BY <2>4, <3>1, <3>3
    <2>6. /\ stored \in Memory /\ DOMAIN stored = DOMAIN memory
          /\ Differ(stored, memory) \subseteq resident'.rewritten
      BY <2>4, <2>5, OverwrittenIsMemory, WritingTracks
    <2>7. chunks' = [chunks EXCEPT ![c] = ChunkImage(stored)]
      <3>1. DOMAIN mem \subseteq DOMAIN memory
        BY <2>1, <2>3 DEF DiffsAgainst, GuestRun, Becomes
      <3>2. WriteChunks(ChunkImage(mem), memory, hashMemory(old)) = ChunkImage(stored)
        BY <3>1, WritingGivesImage
      <3> HIDE DEF stored
      <3>. QED
        BY <2>1, <2>3, <2>4, <3>2
    <2>8. record \in SnapshotRecord /\ new \in ContextRow
      BY <2>5, MemoryShape, FS_CardinalityType
      DEF SnapshotRecord, ContextRow, InstanceOK, TInv, Resident
    <2>9. new # NONE /\ new.snapshot # NONE /\ new.snapshot.build = build
          /\ new.snapshot.memoryPages = Cardinality(DOMAIN stored)
      <3> HIDE DEF stored
      <3>. QED
        BY <2>6, <2>8
    <2>10. contexts' = [contexts EXCEPT ![c] = new]
      BY <2>1
    <2> HIDE DEF stored, record, new
    <2>11. Saved' = [Saved EXCEPT ![c] = [build |-> build, memory |-> stored]]
      <3>1. WritesOnly(c, new, stored)
        BY <2>7, <2>9, <2>10 DEF WritesOnly
      <3>2. Saved' = [Saved EXCEPT ![c] = ImageOf(new, stored)]
        BY <1>e, <2>0, <2>6, <3>1, OneImage
      <3>. QED
        BY <2>9, <3>2 DEF ImageOf
    <2>12. UNCHANGED LiveContexts
      BY <1>k, <2>0, <2>8, <2>10
    <2>13. resident'.rewritten \subseteq inst.rewritten /\ resident' \in Resident
      BY <2>5 DEF Unwritten, InstanceOK
    <2>. QED
      BY <1>x, <2>0, <2>1, <2>5, <2>6, <2>11, <2>12, <2>13
  <1>6. ASSUME NEW limited \in BOOLEAN, RunWithoutSnapshot(limited) PROVE Abstract!Execute(c)
    <2>0. running # NONE
      BY <1>6 DEF RunWithoutSnapshot
    <2> DEFINE new == RowUnsnapshotted(left, limited)
    <2> HIDE DEF kept
    <2>1. PICK inst \in Instances(c, row), memory \in Memory :
            /\ GuestRun(inst.memory, memory)
            /\ resident' = [inst EXCEPT !.memory = memory, !.limited = limited \/ inst.limited]
      BY <1>6, Zenon DEF RunWithoutSnapshot
    <2>2. /\ contexts' = [contexts EXCEPT ![c] = new]
          /\ chunks' = [chunks EXCEPT ![c] = ChunksAfterEnsure(c, row)]
          /\ UNCHANGED build
      BY <1>6, Zenon DEF RunWithoutSnapshot
    <2> HIDE DEF c, row, left, new
    <2>3. InstanceOK(inst) /\ inst.contextId = c
      BY <1>i, <2>0, Zenon
    <2>4. /\ resident' \in Resident /\ resident'.contextId = c /\ resident'.memory = memory
          /\ resident'.rewritten = inst.rewritten
      BY <2>1, <2>3 DEF InstanceOK, Resident
    <2>5. left \in ContextRow
      BY <1>e, <2>0
    <2>6. /\ new \in ContextRow /\ new # NONE
          /\ new.snapshot = NONE <=> left.snapshot = NONE
          /\ new.snapshot # NONE =>
               /\ new.snapshot.build = left.snapshot.build
               /\ new.snapshot.memoryPages = left.snapshot.memoryPages
      <3>1. CASE left.snapshot = NONE \/ limited
        BY <2>5, <3>1 DEF new, RowUnsnapshotted
      <3>2. CASE left.snapshot # NONE /\ ~limited
        <4> DEFINE flagged == [left.snapshot EXCEPT !.stale = TRUE]
        <4>1. left.snapshot \in SnapshotRecord
          BY <2>5, <3>2 DEF ContextRow
        <4>2. /\ flagged \in SnapshotRecord /\ flagged.build = left.snapshot.build
              /\ flagged.memoryPages = left.snapshot.memoryPages
          BY <4>1 DEF SnapshotRecord
        <4>3. new = [snapshot |-> flagged]
          BY <2>5, <3>2 DEF new, RowUnsnapshotted, ContextRow
        <4> HIDE DEF flagged
        <4>4. new \in ContextRow /\ new.snapshot = flagged
          BY <4>2, <4>3 DEF ContextRow
        <4>. QED
          BY <3>2, <4>2, <4>4
      <3>. QED
        BY <3>1, <3>2
    <2>7. Saved' = [Saved EXCEPT ![c] = kept]
      BY <2>0, <2>2, <2>6, KeepingRefines DEF c, row, left, kept
    <2>8. UNCHANGED LiveContexts
      BY <1>k, <2>0, <2>2, <2>6
    <2>. QED
      BY <1>x, <2>0, <2>1, <2>2, <2>4, <2>7, <2>8
  <1>7. ASSUME RunTraps PROVE Abstract!Fail(c)
    <2>1. /\ running # NONE /\ resident' = NONE
          /\ contexts' = [contexts EXCEPT ![c] = left]
          /\ chunks' = [chunks EXCEPT ![c] = ChunksAfterEnsure(c, row)]
          /\ UNCHANGED build
      BY <1>7, Zenon DEF RunTraps
    <2> HIDE DEF c, row, left, kept
    <2>2. left \in ContextRow
      BY <1>e, <2>1
    <2>3. Saved' = [Saved EXCEPT ![c] = kept]
      BY <2>1, <2>2, KeepingRefines DEF c, row, left, kept
    <2>4. LiveInstance' = NONE
      BY <2>1 DEF LiveInstance
    <2>5. UNCHANGED LiveContexts
      BY <1>k, <2>1, <2>2
    <2>. QED
      BY <1>e, <2>1, <2>3, <2>4, <2>5 DEF Abstract!Fail, Saved, kept
  <1>8. CASE Evict \/ Deploy
    <2>1. UNCHANGED LiveContexts /\ LiveInstance' = NONE
      BY <1>8 DEF Evict, Deploy, LiveContexts, LiveInstance
    <2>2. UNCHANGED Saved
      BY <1>8 DEF Evict, Deploy, Saved, SavedImage, SavedMemory, StoredMemory, SnapshotOf
    <2>3. build' = build \/ \E b \in Builds : build' = b
      BY <1>8 DEF Evict, Deploy
    <2>. QED
      BY <2>1, <2>2, <2>3 DEF Abstract!Next, Abstract!Lose, Abstract!Deploy, Saved
  <1>9. ASSUME DestroyWhileIdle PROVE Abstract!RemoveAll
    <2>1. /\ LiveContexts' = {} /\ LiveInstance' = NONE /\ UNCHANGED build
          /\ Saved' = [i \in Contexts |-> NONE]
      BY <1>9
      DEF DestroyWhileIdle, Destroy, LiveContexts, LiveInstance, Saved, SavedImage, SnapshotOf
    <2>. QED
      BY <2>1 DEF Abstract!RemoveAll, Saved
  <1>10. CASE UNCHANGED vars
    BY <1>10
    DEF vars, Abstract!vars, LiveContexts, SavedImage, SavedMemory, StoredMemory, SnapshotOf,
        LiveInstance
  <1>11. ~BootFails /\ ~PersistFails /\ ~AlarmDuringPull
    BY DEF BootFails, PersistFails, AlarmDuringPull
  <1>12. \A d \in Contexts : Abstract!Execute(d) \/ Abstract!Fail(d) => Abstract!Next
    BY DEF Abstract!Next
  <1>13. RunSnapshots \/ (\E limited \in BOOLEAN : RunWithoutSnapshot(limited)) \/ RunTraps
           => Abstract!Next
    <2>1. RunSnapshots \/ (\E limited \in BOOLEAN : RunWithoutSnapshot(limited)) \/ RunTraps
            => running # NONE
      <3>1. RunSnapshots => running # NONE
        BY Zenon DEF RunSnapshots
      <3>2. \A limited \in BOOLEAN : RunWithoutSnapshot(limited) => running # NONE
        BY Zenon DEF RunWithoutSnapshot
      <3>3. RunTraps => running # NONE
        BY Zenon DEF RunTraps
      <3>. QED
        BY <3>1, <3>2, <3>3
    <2> HIDE DEF c
    <2>. QED
      BY <1>5, <1>6, <1>7, <1>12, <1>e, <2>1
  <1>14. RunHoldsDescriptor \/ RunHitsLimit
           => \E limited \in BOOLEAN : RunWithoutSnapshot(limited)
    BY DEF RunHoldsDescriptor, RunHitsLimit
  <1>. QED
    BY <1>1, <1>2, <1>3, <1>4, <1>8, <1>9, <1>10, <1>11, <1>13, <1>14
    DEF Next, Abstract!Next

(***************************************************************************)
(* The chunked, incremental storage of the interpreter implements plain    *)
(* per-context images: a context continues from its live, its last saved   *)
(* (as its engine's hook leaves it) or a fresh memory and nothing else,    *)
(* and a saved image lacks at most what the hook rewrote, for every memory *)
(* size, chunk size and number of contexts, builds and hooked builds.      *)
(***************************************************************************)
THEOREM Refinement ==
  ASSUME Faults = {}
  PROVE  Spec => ImplementsContextMemory
  <1>1. TInv /\ SInv /\ TInv' /\ [Next]_vars => [Abstract!Next]_Abstract!vars
    BY StepRefines
  <1>. QED
    BY <1>1, InitRefines, StoredAlways, PTL DEF Spec, ImplementsContextMemory, Abstract!Spec

================================================================================
