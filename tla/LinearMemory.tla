------------------------------ MODULE LinearMemory ------------------------------
(***************************************************************************)
(* Linear-memory snapshots as pure operators                               *)
(* (packages/interpreter/src/snapshot.ts).  A memory is a function from    *)
(* its page numbers to page contents; a chunk is CHUNK_PAGES consecutive   *)
(* pages, the unit the chunks table stores.                                *)
(***************************************************************************)
EXTENDS Integers

CONSTANTS
  CHUNK_PAGES,  \* pages per chunk (16 in the code)
  MaxPages,     \* bound on the size of a memory
  PageData,     \* the contents a non-zero page may have
  ZERO,         \* the all-zero page
  HashOf        \* hashWords: one hash per page content

ASSUME ChunkPagesAssumption == CHUNK_PAGES \in Nat \ {0}
ASSUME MaxPagesAssumption   == MaxPages \in Nat
ASSUME ZeroAssumption       == ZERO \notin PageData
(***************************************************************************)
(* The design relies on no two contents of one page colliding.             *)
(***************************************************************************)
ASSUME HashAssumption ==
  \A d, e \in PageData : HashOf[d] = HashOf[e] => d = e

PageContents == PageData \cup {ZERO}

\* Memory grows by whole pages and never shrinks.
Memory == UNION {[0 .. n - 1 -> PageContents] : n \in 0 .. MaxPages}

\* The content of page p; beyond the end a fresh memory would read zero.
PageAt(mem, p) == IF p \in DOMAIN mem THEN mem[p] ELSE ZERO

\* The pages in which two memories differ; one that only one of them has counts.
Differ(m, n) ==
  {p \in DOMAIN m \cup DOMAIN n : p \in DOMAIN m \cap DOMAIN n => m[p] # n[p]}

NonZeroPages(mem) == {p \in DOMAIN mem : mem[p] # ZERO}

hashMemory(mem) == [p \in NonZeroPages(mem) |-> HashOf[mem[p]]]

\* diffPages: the pages to rewrite and the pages that went back to zero.
ChangedPages(hashes, prev) ==
  {p \in DOMAIN hashes : p \in DOMAIN prev => prev[p] # hashes[p]}
RemovedPages(hashes, prev) == DOMAIN prev \ DOMAIN hashes

chunkOf(page) == page \div CHUNK_PAGES

\* Mutant: the chunk at the end of memory is not padded.
readChunkUnpadded(mem, chunk) ==
  [i \in {j \in 0 .. CHUNK_PAGES - 1 : chunk * CHUNK_PAGES + j \in DOMAIN mem} |->
     mem[chunk * CHUNK_PAGES + i]]

\* A chunk is copied whole; the part past the end of memory is zero-filled.
readChunk(mem, chunk) ==
  [i \in 0 .. CHUNK_PAGES - 1 |-> PageAt(mem, chunk * CHUNK_PAGES + i)]

\* Mutant: a page that went back to zero touches nothing.
TouchedChunksChanged(hashes, prev) == {chunkOf(p) : p \in ChangedPages(hashes, prev)}

\* chunksToWrite: a touched chunk is rewritten unless all its pages are zero.
TouchedChunks(hashes, prev) ==
  {chunkOf(p) : p \in ChangedPages(hashes, prev) \cup RemovedPages(hashes, prev)}
UpsertChunks(hashes, prev) ==
  TouchedChunks(hashes, prev) \cap {chunkOf(p) : p \in DOMAIN hashes}
RemoveChunks(hashes, prev) ==
  TouchedChunks(hashes, prev) \ {chunkOf(p) : p \in DOMAIN hashes}

\* The chunk rows after the writes for mem have been applied to rows.
WriteChunks(rows, mem, prev) ==
  LET hashes == hashMemory(mem)
      upsert == UpsertChunks(hashes, prev)
  IN  [k \in (DOMAIN rows \ RemoveChunks(hashes, prev)) \cup upsert |->
         IF k \in upsert THEN readChunk(mem, k) ELSE rows[k]]

\* readPage of a restore: a page whose chunk has no row stays zero.
StoredPage(rows, page) ==
  IF chunkOf(page) \in DOMAIN rows
  THEN rows[chunkOf(page)][page % CHUNK_PAGES]
  ELSE ZERO

RestoredMemory(rows, memoryPages) ==
  [p \in 0 .. memoryPages - 1 |-> StoredPage(rows, p)]

\* What a full, non-incremental write of mem would store.
ChunkImage(mem) ==
  [k \in {chunkOf(p) : p \in NonZeroPages(mem)} |-> readChunk(mem, k)]

NoRows == [k \in {} |-> ZERO]
================================================================================
