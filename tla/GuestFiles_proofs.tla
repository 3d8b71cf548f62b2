---------------------------- MODULE GuestFiles_proofs ----------------------------
(***************************************************************************)
(* Proofs about what a guest finds under /workspace: its files, for every  *)
(* set of names, descriptors and texts and every size, and where its       *)
(* working directory is, for every set of directories.                     *)
(***************************************************************************)
EXTENDS MCGuestFiles, FiniteSetTheorems, TLAPS

(***************************************************************************)
(* Part one: the files.                                                    *)
(*                                                                         *)
(* Five things make a heap: the mirror ms, the descriptors ds, where file  *)
(* objects point to (fs), what buffers hold (hs), and the buffers that a   *)
(* roll-back would use (bs).                                               *)
(***************************************************************************)
\* A file object leads to its content.
Leads(i, fs, hs) ==
  /\ i \in Inodes /\ i \in DOMAIN fs /\ fs[i] \in Buffers
  /\ fs[i] \in DOMAIN hs /\ hs[fs[i]] \in Content

Typed(ms, ds, fs, hs, bs) ==
  /\ ms \in [Names -> Inodes \cup {NONE}] /\ ds \in [Fds -> Inodes \cup {NONE}]
  /\ bs \in [Names -> Buffers \cup {NONE}]
  /\ \A n \in Names : ms[n] # NONE => Leads(ms[n], fs, hs)
  /\ \A k \in Fds : ds[k] # NONE => Leads(ds[k], fs, hs)
  /\ \A n \in Names : bs[n] # NONE => bs[n] \in DOMAIN hs /\ hs[bs[n]] \in Content

\* Two names lead to two buffers.
Distinct(ms, fs) ==
  \A n, p \in Names : n # p /\ ms[n] # NONE /\ ms[p] # NONE => fs[ms[n]] # fs[ms[p]]

\* So they would after a roll-back.
Apart(bs) ==
  \A n, p \in Names : n # p /\ bs[n] # NONE /\ bs[p] # NONE => bs[n] # bs[p]

Sound(ms, ds, fs, hs, bs) == Typed(ms, ds, fs, hs, bs) /\ Distinct(ms, fs) /\ Apart(bs)

\* The heap is sound, and there is nothing in it but what something reaches.
HeapOK ==
  /\ Sound(mirror, fds, file, heap, before)
  /\ file \in [Held(mirror) \cup Held(fds) -> Buffers]
  /\ heap \in [Range(file) \cup Held(before) -> Content]

--------------------------------------------------------------------------------
(***************************************************************************)
(* The heap's operators.                                                   *)
(***************************************************************************)
\* What Objects collects changes nothing that is reachable.
LEMMA Collected ==
  ASSUME NEW ms, NEW ds, NEW fs, NEW hs, NEW bs,
         Sound(ms, ds, fs, hs, bs), Objects(ms, ds, fs, hs, bs)
  PROVE  HeapOK' /\ Contents' = ContentsOf(ms, fs, hs)
  <1> DEFINE inodes  == Held(ms) \cup Held(ds)
             buffers == {fs[i] : i \in inodes} \cup Held(bs)
  <1>1. /\ mirror' = ms /\ fds' = ds /\ before' = bs
        /\ file' = [i \in inodes |-> fs[i]] /\ heap' = [x \in buffers |-> hs[x]]
    BY DEF Objects
  <1>2. \A i : i \in Held(ms) <=> \E n \in Names : ms[n] = i /\ i # NONE
    BY DEF Sound, Typed, Held, Range
  <1>3. \A i : i \in Held(ds) <=> \E k \in Fds : ds[k] = i /\ i # NONE
    BY DEF Sound, Typed, Held, Range
  <1>4. \A x : x \in Held(bs) <=> \E n \in Names : bs[n] = x /\ x # NONE
    BY DEF Sound, Typed, Held, Range
  <1>5. \A i \in inodes : Leads(i, fs, hs)
    BY <1>2, <1>3 DEF Sound, Typed
  <1>6. \A x \in buffers : x \in DOMAIN hs /\ hs[x] \in Content
    BY <1>4, <1>5 DEF Sound, Typed, Leads
  <1>7. file' \in [inodes -> Buffers] /\ \A i \in inodes : file'[i] = fs[i]
    BY <1>1, <1>5 DEF Leads
  <1>8. heap' \in [buffers -> Content] /\ \A x \in buffers : heap'[x] = hs[x]
    BY <1>1, <1>6
  <1>9. Range(file') = {fs[i] : i \in inodes}
    BY <1>7 DEF Range
  <1>10. \A i \in inodes : Leads(i, file', heap')
    <2> SUFFICES ASSUME NEW i \in inodes PROVE Leads(i, file', heap')
      OBVIOUS
    <2>1. Leads(i, fs, hs) /\ fs[i] \in buffers /\ file'[i] = fs[i] /\ i \in DOMAIN file'
      BY <1>5, <1>7
    <2> QED
      BY <2>1, <1>8 DEF Leads
  <1>11. Typed(ms, ds, file', heap', bs)
    <2>1. \A n \in Names : ms[n] # NONE => ms[n] \in inodes
      BY <1>2
    <2>2. \A k \in Fds : ds[k] # NONE => ds[k] \in inodes
      BY <1>3
    <2>3. \A n \in Names : bs[n] # NONE => bs[n] \in buffers
      BY <1>4
    <2> HIDE DEF inodes, buffers
    <2> QED
      BY <2>1, <2>2, <2>3, <1>8, <1>10 DEF Sound, Typed
  <1>12. \A n \in Names : ms[n] # NONE => ms[n] \in inodes /\ file'[ms[n]] = fs[ms[n]]
    BY <1>2, <1>7
  <1>13. Distinct(ms, file')
    BY <1>12 DEF Sound, Distinct
  <1>14. Sound(ms, ds, file', heap', bs)
    BY <1>11, <1>13 DEF Sound
  <1>15. HeapOK'
    <2>1. file' \in [Held(mirror') \cup Held(fds') -> Buffers]
      BY <1>1, <1>7
    <2>2. heap' \in [Range(file') \cup Held(before') -> Content]
      BY <1>1, <1>8, <1>9
    <2>3. Sound(mirror', fds', file', heap', before')
      BY <1>1, <1>14
    <2> QED
      BY <2>1, <2>2, <2>3 DEF HeapOK
  <1>16. Contents' = ContentsOf(ms, fs, hs)
    <2>1. \A n \in Names : ms[n] # NONE => heap'[file'[ms[n]]] = hs[fs[ms[n]]]
      BY <1>8, <1>12
    <2>2. Contents' = [n \in Names |-> IF ms[n] = NONE THEN NONE ELSE heap'[file'[ms[n]]]]
      BY <1>1 DEF Contents, ContentsOf
    <2> QED
      BY <2>1, <2>2 DEF ContentsOf
  <1> QED
    BY <1>15, <1>16

\* Forgetting a name, a descriptor or a row breaks nothing.
LEMMA Fewer ==
  ASSUME NEW ms, NEW ds, NEW fs, NEW hs, NEW bs, Sound(ms, ds, fs, hs, bs),
         NEW less \in [Names -> Inodes \cup {NONE}], NEW lower \in [Fds -> Inodes \cup {NONE}],
         NEW rows \in [Names -> Buffers \cup {NONE}],
         \A n \in Names : less[n] \in {ms[n], NONE},
         \A k \in Fds : lower[k] \in {ds[k], NONE},
         \A n \in Names : rows[n] \in {bs[n], NONE}
  PROVE  Sound(less, lower, fs, hs, rows)
  BY DEF Sound, Typed, Distinct, Apart

\* A mirror without files, descriptors or rows is forgetting all of it.
LEMMA NothingOpen ==
  /\ EmptyTree \in [Names -> Inodes \cup {NONE}] /\ NoFds \in [Fds -> Inodes \cup {NONE}]
  /\ NoBefore \in [Names -> Buffers \cup {NONE}]
  /\ \A n \in Names : EmptyTree[n] = NONE /\ NoBefore[n] = NONE
  /\ \A k \in Fds : NoFds[k] = NONE
  BY DEF EmptyTree, NoFds, NoBefore

\* A file object, new or not, gets a new buffer.
LEMMA Repointed ==
  ASSUME NEW ms, NEW ds, NEW fs, NEW hs, NEW bs, Sound(ms, ds, fs, hs, bs),
         NEW i \in Inodes, NEW x \in Buffers, x \notin DOMAIN hs, NEW c \in Content
  PROVE  /\ Sound(ms, ds, Put(fs, i, x), Put(hs, x, c), bs)
         /\ Leads(i, Put(fs, i, x), Put(hs, x, c))
         /\ Put(fs, i, x)[i] = x
         /\ \A n \in Names : ms[n] # NONE /\ ms[n] # i => Put(fs, i, x)[ms[n]] # x
  <1> DEFINE gs == Put(fs, i, x)
             js == Put(hs, x, c)
  <1>1. /\ i \in DOMAIN gs /\ gs[i] = x
        /\ \A j \in DOMAIN fs : j \in DOMAIN gs /\ (j # i => gs[j] = fs[j])
    BY DEF Put
  <1>2. x \in DOMAIN js /\ js[x] = c /\ \A y \in DOMAIN hs : y \in DOMAIN js /\ js[y] = hs[y]
    BY DEF Put
  <1> HIDE DEF gs, js
  <1>3. Leads(i, gs, js)
    BY <1>1, <1>2 DEF Leads
  <1>4. \A j : Leads(j, fs, hs) => Leads(j, gs, js) /\ (j # i => gs[j] # x)
    BY <1>1, <1>2, <1>3 DEF Leads
  <1>5. Typed(ms, ds, gs, js, bs)
    BY <1>2, <1>4 DEF Sound, Typed
  <1>6. \A n \in Names : ms[n] # NONE => ms[n] \in DOMAIN fs /\ (ms[n] # i => gs[ms[n]] # x)
    BY <1>4 DEF Sound, Typed, Leads
  <1>7. Distinct(ms, gs)
    <2> SUFFICES ASSUME NEW n \in Names, NEW p \in Names, n # p, ms[n] # NONE, ms[p] # NONE
                 PROVE  gs[ms[n]] # gs[ms[p]]
      BY DEF Distinct
    <2>1. fs[ms[n]] # fs[ms[p]]
      BY DEF Sound, Distinct
    <2>2. CASE ms[n] = i
      BY <2>1, <2>2, <1>1, <1>6
    <2>3. CASE ms[p] = i
      BY <2>1, <2>3, <1>1, <1>6
    <2>4. CASE ms[n] # i /\ ms[p] # i
      BY <2>1, <2>4, <1>1, <1>6
    <2> QED
      BY <2>2, <2>3, <2>4
  <1> QED
    BY <1>1, <1>3, <1>5, <1>6, <1>7 DEF Sound, gs, js

\* One new object each.
OneToOne(new, S, T) == new \in [S -> T] /\ \A p, q \in S : new[p] = new[q] => p = q

\* They hold their values in gs, and the others what they held in fs.
Installed(fs, gs, S, new, v) ==
  /\ \A n \in S : new[n] \in DOMAIN gs /\ gs[new[n]] = v[n]
  /\ \A y \in DOMAIN fs : y \in DOMAIN gs
  /\ \A y \in DOMAIN fs : (\A n \in S : new[n] # y) => gs[y] = fs[y]

\* That is what PutAll does.
LEMMA PutAllHolds ==
  ASSUME NEW fs, NEW S, NEW T, NEW new, OneToOne(new, S, T), NEW v
  PROVE  Installed(fs, PutAll(fs, new, v), S, new, v)
  <1>0. new \in [S -> T] /\ \A p, q \in S : new[p] = new[q] => p = q
    BY DEF OneToOne
  <1>1. DOMAIN new = S /\ Range(new) = {new[n] : n \in S}
    BY <1>0 DEF Range
  <1>2. \A n \in S : (CHOOSE p \in S : new[p] = new[n]) = n
    BY <1>0
  <1> QED
    BY <1>1, <1>2 DEF PutAll, Installed

--------------------------------------------------------------------------------
(***************************************************************************)
(* There are identities enough: the garbage that Objects leaves out is     *)
(* what a new file or buffer may use.                                      *)
(***************************************************************************)
\* A function to values or NONE holds at most one value an argument.
LEMMA HeldIsSmall ==
  ASSUME NEW S, IsFiniteSet(S), NEW T, NEW f \in [S -> T \cup {NONE}],
         NEW R \in SUBSET S, \A s \in S \ R : f[s] = NONE
  PROVE  IsFiniteSet(Held(f)) /\ Cardinality(Held(f)) <= Cardinality(R)
  <1> DEFINE Q == {s \in S : f[s] # NONE}
             h == [s \in Q |-> f[s]]
  <1>1. Held(f) = {f[s] : s \in Q}
    BY DEF Held, Range
  <1>2. h \in Surjection(Q, Held(f))
    BY <1>1 DEF Surjection
  <1>3. Q \in SUBSET R
    OBVIOUS
  <1>4. IsFiniteSet(R) /\ IsFiniteSet(Q) /\ Cardinality(Q) <= Cardinality(R)
    BY <1>3, FS_Subset
  <1>5. IsFiniteSet(Held(f)) /\ Cardinality(Held(f)) <= Cardinality(Q)
    BY <1>2, <1>4, FS_Surjection
  <1> QED
    BY <1>4, <1>5, FS_CardinalityType

\* The range of a function has at most the size of its domain.
LEMMA RangeIsSmall ==
  ASSUME NEW S, IsFiniteSet(S), NEW T, NEW f \in [S -> T]
  PROVE  IsFiniteSet(Range(f)) /\ Cardinality(Range(f)) <= Cardinality(S)
  <1>1. f \in Surjection(S, Range(f))
    BY DEF Surjection, Range
  <1> QED
    BY <1>1, FS_Surjection

\* A union has at most the sum of the sizes.
LEMMA UnionIsSmall ==
  ASSUME NEW S, IsFiniteSet(S), NEW T, IsFiniteSet(T)
  PROVE  IsFiniteSet(S \cup T) /\ Cardinality(S \cup T) <= Cardinality(S) + Cardinality(T)
  <1>1. IsFiniteSet(S \cap T)
    BY FS_Subset
  <1>2. /\ Cardinality(S \cap T) \in Nat /\ Cardinality(S) \in Nat /\ Cardinality(T) \in Nat
    BY <1>1, FS_CardinalityType
  <1>3. /\ IsFiniteSet(S \cup T)
        /\ Cardinality(S \cup T) = Cardinality(S) + Cardinality(T) - Cardinality(S \cap T)
    BY FS_Union
  <1> QED
    BY <1>2, <1>3

\* One of n identities is free when fewer are used.
LEMMA OneIsFree ==
  ASSUME NEW n \in Nat, NEW used, IsFiniteSet(used), Cardinality(used) < n
  PROVE  Free(1 .. n, used) \in (1 .. n) \ used
  <1>1. (1 .. n) \ used # {}
    <2> SUFFICES ASSUME 1 .. n \subseteq used PROVE FALSE
      OBVIOUS
    <2>1. Cardinality(1 .. n) = n
      BY FS_Interval
    <2>2. Cardinality(1 .. n) <= Cardinality(used)
      BY FS_Subset
    <2> QED
      BY <2>1, <2>2, FS_CardinalityType
  <1> QED
    BY <1>1 DEF Free

\* For k of them when n - k are.
LEMMA SomeAreFree ==
  ASSUME NEW n \in Nat, NEW used, IsFiniteSet(used), NEW k \in Nat, Cardinality(used) + k <= n
  PROVE  IsFiniteSet((1 .. n) \ used) /\ k <= Cardinality((1 .. n) \ used)
  <1> DEFINE rest == (1 .. n) \ used
  <1>1. IsFiniteSet(1 .. n) /\ Cardinality(1 .. n) = n
    BY FS_Interval
  <1>2. IsFiniteSet(rest)
    BY <1>1, FS_Subset
  <1>3. 1 .. n \in SUBSET (rest \cup used)
    OBVIOUS
  <1> HIDE DEF rest
  <1>4. /\ IsFiniteSet(rest \cup used)
        /\ Cardinality(rest \cup used) <= Cardinality(rest) + Cardinality(used)
    BY <1>2, UnionIsSmall
  <1>5. Cardinality(1 .. n) <= Cardinality(rest \cup used)
    BY <1>3, <1>4, FS_Subset
  <1>6. /\ Cardinality(rest \cup used) \in Nat
        /\ Cardinality(rest) \in Nat /\ Cardinality(used) \in Nat
    BY <1>2, <1>4, FS_CardinalityType
  <1>7. k <= Cardinality(rest)
    BY <1>1, <1>4, <1>5, <1>6
  <1> QED
    BY <1>2, <1>7 DEF rest

\* Numbering finds one for each.
LEMMA NumberingIsOneToOne ==
  ASSUME NEW S, IsFiniteSet(S), NEW T, IsFiniteSet(T), Cardinality(S) <= Cardinality(T)
  PROVE  OneToOne(Numbering(S, T), S, T)
  <1>1. Cardinality(S) \in Nat /\ Cardinality(T) \in Nat
    BY FS_CardinalityType
  <1>2. PICK u : u \in Bijection(1 .. Cardinality(S), S)
    BY FS_CardinalityType DEF ExistsBijection
  <1>3. PICK w : w \in Bijection(1 .. Cardinality(T), T)
    BY FS_CardinalityType DEF ExistsBijection
  <1> DEFINE place(s) == CHOOSE i \in 1 .. Cardinality(S) : u[i] = s
             g == [s \in S |-> w[place(s)]]
  <1>4. \A s \in S : place(s) \in 1 .. Cardinality(S) /\ u[place(s)] = s
    BY <1>2 DEF Bijection, Surjection
  <1>5. \A s \in S : place(s) \in 1 .. Cardinality(T)
    BY <1>1, <1>4
  <1>6. w \in [1 .. Cardinality(T) -> T]
        /\ \A i, j \in 1 .. Cardinality(T) : w[i] = w[j] => i = j
    BY <1>3 DEF Bijection, Injection, IsInjective
  <1> HIDE DEF place
  <1>7. g \in [S -> T] /\ \A p, q \in S : g[p] = g[q] => p = q
    BY <1>4, <1>5, <1>6
  <1>8. IsInjective(g)
    BY <1>7 DEF IsInjective
  <1>9. Numbering(S, T) \in [S -> T] /\ IsInjective(Numbering(S, T))
    BY <1>7, <1>8 DEF Numbering
  <1> QED
    BY <1>9 DEF IsInjective, OneToOne

--------------------------------------------------------------------------------
(***************************************************************************)
(* What holds between the steps.                                           *)
(***************************************************************************)
\* The instance mounts the mirror there is.
Others ==
  /\ enabled \in BOOLEAN /\ disabled \in BOOLEAN /\ tree \in Tree
  /\ root \in {0, 1} /\ resident \in {NONE, root}

Calls ==
  [phase : {"pull", "run"}, manifest : Tree, missing : SUBSET Names, calls : Nat, since : Tree]

\* A call has the manifest of what the sandbox holds, since no other request is
\* served until it ends.  While files are pulled the File API is on, and the
\* mirror has no file that the manifest has not; the guest then starts from the
\* manifest, and with the File API disabled never has a file.
CallOK ==
  call # NONE =>
    /\ call \in Calls /\ call.manifest = Manifest
    /\ call.phase = "pull" =>
         /\ ~disabled
         /\ \A n \in call.missing : call.manifest[n] # NONE
         /\ \A n \in Names : call.manifest[n] = NONE => mirror[n] = NONE
    /\ call.phase = "run" =>
         /\ call.since = call.manifest
         /\ disabled => mirror = EmptyTree
         /\ call.calls = 0 => Contents = call.manifest

GInv == HeapOK /\ Others /\ CallOK

\* A manifest is a tree.
LEMMA ManifestIsTree == Others => Manifest \in Tree
  BY DEF Others, Manifest, EmptyTree, Tree

\* So is what a sound heap holds.
LEMMA ContentsAreTree ==
  ASSUME NEW ms, NEW ds, NEW fs, NEW hs, NEW bs, Sound(ms, ds, fs, hs, bs)
  PROVE  ContentsOf(ms, fs, hs) \in Tree
  BY DEF Sound, Typed, Leads, ContentsOf, Tree

\* What holds of the properties of the model.
LEMMA FilesFromInvariant == GInv => MirrorIsSound /\ GuestStartsFromTheWorkspace
  <1> SUFFICES ASSUME GInv PROVE MirrorIsSound /\ GuestStartsFromTheWorkspace
    OBVIOUS
  <1>1. TypeOK
    BY DEF GInv, HeapOK, Others, Sound, Typed, TypeOK
  <1>2. DisabledMirrorStaysEmpty
    BY DEF GInv, CallOK, InPhase, DisabledMirrorStaysEmpty
  <1>3. InstanceMountsTheMirror
    BY DEF GInv, Others, InstanceMountsTheMirror
  <1>4. NamesNeverAlias
    BY DEF GInv, HeapOK, Sound, Distinct, NamesNeverAlias
  <1>5. GuestStartsFromTheWorkspace
    BY DEF GInv, CallOK, InPhase, GuestStartsFromTheWorkspace
  <1> QED
    BY <1>1, <1>2, <1>3, <1>4, <1>5 DEF MirrorIsSound

\* Nothing is there at first.
LEMMA FilesInit == Init => GInv
  <1> SUFFICES ASSUME Init PROVE GInv
    OBVIOUS
  <1>1. Sound(mirror, fds, file, heap, before)
    BY DEF Init, Sound, Typed, Distinct, Apart, EmptyTree
  <1>2. Held(mirror) = {} /\ Held(fds) = {} /\ Held(before) = {}
    BY DEF Init, Held, Range, EmptyTree
  <1>3. DOMAIN file = {} /\ DOMAIN heap = {}
    BY DEF Init
  <1>4. file \in [{} -> Buffers] /\ heap \in [{} -> Content] /\ Range(file) = {}
    BY <1>3 DEF Init, Range
  <1>5. HeapOK
    BY <1>1, <1>2, <1>4 DEF HeapOK
  <1> QED
    BY <1>5 DEF Init, GInv, Others, CallOK, Tree, EmptyTree

--------------------------------------------------------------------------------
(***************************************************************************)
(* The identities in use.                                                  *)
(***************************************************************************)
\* There are so many names and descriptors.
LEMMA Sizes ==
  /\ IsFiniteSet(Names) /\ Cardinality(Names) \in Nat
  /\ IsFiniteSet(Fds) /\ Cardinality(Fds) \in Nat
  BY FiniteAssumption, FS_CardinalityType

\* The file objects that names other than those of S and the descriptors hold.
LEMMA InodesInUse ==
  ASSUME HeapOK, NEW S \in SUBSET Names, \A n \in Names \ S : mirror[n] = NONE
  PROVE  /\ IsFiniteSet(Held(mirror)) /\ Cardinality(Held(mirror)) <= Cardinality(S)
         /\ IsFiniteSet(Held(fds)) /\ Cardinality(Held(fds)) <= Cardinality(Fds)
         /\ Cardinality(Held(mirror)) \in Nat /\ Cardinality(Held(fds)) \in Nat
  <1>1. mirror \in [Names -> Inodes \cup {NONE}] /\ fds \in [Fds -> Inodes \cup {NONE}]
    BY DEF HeapOK, Sound, Typed
  <1>2. IsFiniteSet(Held(mirror)) /\ Cardinality(Held(mirror)) <= Cardinality(S)
    BY <1>1, Sizes, HeldIsSmall
  <1>3. Fds \in SUBSET Fds /\ \A k \in Fds \ Fds : fds[k] = NONE
    OBVIOUS
  <1>4. IsFiniteSet(Held(fds)) /\ Cardinality(Held(fds)) <= Cardinality(Fds)
    BY <1>1, <1>3, Sizes, HeldIsSmall
  <1> QED
    BY <1>2, <1>4, FS_CardinalityType

\* The buffers there are, a roll-back's included.
LEMMA BuffersInUse ==
  ASSUME HeapOK
  PROVE  /\ IsFiniteSet(Range(file)) /\ Cardinality(Range(file)) \in Nat
         /\ Cardinality(Range(file)) <= Cardinality(Names) + Cardinality(Fds)
         /\ IsFiniteSet(DOMAIN heap) /\ Cardinality(DOMAIN heap) \in Nat
         /\ Cardinality(DOMAIN heap) <= 2 * Cardinality(Names) + Cardinality(Fds)
  <1>1. /\ IsFiniteSet(Held(mirror)) /\ Cardinality(Held(mirror)) <= Cardinality(Names)
        /\ IsFiniteSet(Held(fds)) /\ Cardinality(Held(fds)) <= Cardinality(Fds)
        /\ Cardinality(Held(mirror)) \in Nat /\ Cardinality(Held(fds)) \in Nat
    BY InodesInUse
  <1> DEFINE reached == Held(mirror) \cup Held(fds)
  <1>2. /\ IsFiniteSet(reached)
        /\ Cardinality(reached) <= Cardinality(Held(mirror)) + Cardinality(Held(fds))
    BY <1>1, UnionIsSmall
  <1>3. file \in [reached -> Buffers] /\ heap \in [Range(file) \cup Held(before) -> Content]
    BY DEF HeapOK
  <1> HIDE DEF reached
  <1>4. IsFiniteSet(Range(file)) /\ Cardinality(Range(file)) <= Cardinality(reached)
    BY <1>2, <1>3, RangeIsSmall
  <1>5. before \in [Names -> Buffers \cup {NONE}] /\ Names \in SUBSET Names
        /\ \A n \in Names \ Names : before[n] = NONE
    BY DEF HeapOK, Sound, Typed
  <1>6. IsFiniteSet(Held(before)) /\ Cardinality(Held(before)) <= Cardinality(Names)
    BY <1>5, Sizes, HeldIsSmall
  <1>7. /\ IsFiniteSet(DOMAIN heap)
        /\ Cardinality(DOMAIN heap) <= Cardinality(Range(file)) + Cardinality(Held(before))
    BY <1>3, <1>4, <1>6, UnionIsSmall
  <1>8. /\ Cardinality(DOMAIN heap) \in Nat /\ Cardinality(Range(file)) \in Nat
        /\ Cardinality(Held(before)) \in Nat /\ Cardinality(reached) \in Nat
    BY <1>2, <1>4, <1>6, <1>7, FS_CardinalityType
  <1> QED
    BY <1>1, <1>2, <1>4, <1>6, <1>7, <1>8, Sizes

\* A new buffer is not one that is there.
LEMMA FreshBufferIsFree == HeapOK => FreshBuffer \in Buffers \ DOMAIN heap
  <1> SUFFICES ASSUME HeapOK PROVE FreshBuffer \in Buffers \ DOMAIN heap
    OBVIOUS
  <1>1. /\ IsFiniteSet(DOMAIN heap) /\ Cardinality(DOMAIN heap) \in Nat
        /\ Cardinality(DOMAIN heap) <= 2 * Cardinality(Names) + Cardinality(Fds)
    BY BuffersInUse
  <1> DEFINE bound == 2 * Cardinality(Names) + Cardinality(Fds) + 1
  <1>2. bound \in Nat /\ Cardinality(DOMAIN heap) < bound
    BY <1>1, Sizes
  <1>3. Free(1 .. bound, DOMAIN heap) \in (1 .. bound) \ DOMAIN heap
    <2> HIDE DEF bound
    <2> QED
      BY <1>1, <1>2, OneIsFree
  <1> QED
    BY <1>3 DEF FreshBuffer, Buffers

\* A new file object neither, when a name and a descriptor hold none.
LEMMA FreshFileIsFree ==
  ASSUME HeapOK, NEW n \in Names, mirror[n] = NONE, NEW k \in Fds, fds[k] = NONE
  PROVE  FreshFile \in Inodes \ (Held(mirror) \cup Held(fds))
  <1> DEFINE used  == Held(mirror) \cup Held(fds)
             bound == Cardinality(Names) + Cardinality(Fds)
             S     == Names \ {n}
  <1>0. S \in SUBSET Names /\ \A p \in Names \ S : mirror[p] = NONE
    OBVIOUS
  <1>1. Cardinality(S) = Cardinality(Names) - 1
    BY Sizes, FS_RemoveElement
  <1> HIDE DEF S
  <1>2. /\ IsFiniteSet(Held(mirror)) /\ Cardinality(Held(mirror)) <= Cardinality(S)
        /\ IsFiniteSet(Held(fds)) /\ Cardinality(Held(fds)) <= Cardinality(Fds)
        /\ Cardinality(Held(mirror)) \in Nat /\ Cardinality(Held(fds)) \in Nat
    BY <1>0, InodesInUse
  <1>3. IsFiniteSet(used) /\ Cardinality(used) <= Cardinality(Held(mirror)) + Cardinality(Held(fds))
    BY <1>2, UnionIsSmall
  <1>4. bound \in Nat /\ Cardinality(used) < bound
    <2>1. Cardinality(used) \in Nat
      BY <1>3, FS_CardinalityType
    <2> QED
      BY <2>1, <1>1, <1>2, <1>3, Sizes
  <1>5. Free(1 .. bound, used) \in (1 .. bound) \ used
    <2> HIDE DEF bound, used
    <2> QED
      BY <1>3, <1>4, OneIsFree
  <1> QED
    BY <1>5 DEF FreshFile, Inodes

--------------------------------------------------------------------------------
(***************************************************************************)
(* An execution's start and its end.                                       *)
(***************************************************************************)
\* The guest starts on a sound heap that holds the manifest.
LEMMA StartStep ==
  ASSUME GInv, NEW ms, NEW fs, NEW hs, NEW mf,
         Sound(ms, fds, fs, hs, NoBefore), ContentsOf(ms, fs, hs) = mf, mf = Manifest,
         disabled' \in BOOLEAN, disabled' => ms = EmptyTree,
         StartRun(ms, fs, hs, mf), UNCHANGED <<enabled, tree, root>>
  PROVE  GInv'
  <1> DEFINE bs == [n \in Names |-> IF ms[n] = NONE THEN NONE ELSE fs[ms[n]]]
  <1>1. PICK reuse \in {r \in BOOLEAN : r => resident # NONE} :
          /\ Objects(ms, IF reuse THEN fds ELSE NoFds, fs, hs, bs)
          /\ resident' = IF reuse THEN resident ELSE root
          /\ call' = [Running(mf, {}, "run") EXCEPT !.since = ContentsOf(ms, fs, hs)]
    BY DEF StartRun
  <1> DEFINE ds == IF reuse THEN fds ELSE NoFds
  <1>2. resident' \in {NONE, root}
    BY <1>1 DEF GInv, Others
  <1>3. ds \in {fds, NoFds}
    BY <1>1
  <1>4. Sound(ms, ds, fs, hs, bs)
    <2> HIDE DEF ds
    <2>1. bs \in [Names -> Buffers \cup {NONE}]
          /\ \A n \in Names : bs[n] # NONE => ms[n] # NONE /\ bs[n] = fs[ms[n]]
      BY DEF Sound, Typed, Leads
    <2> HIDE DEF bs
    <2>2. \A n \in Names : bs[n] # NONE => bs[n] \in DOMAIN hs /\ hs[bs[n]] \in Content
      BY <2>1 DEF Sound, Typed, Leads
    <2>3. Apart(bs)
      BY <2>1 DEF Sound, Distinct, Apart
    <2>4. ds \in [Fds -> Inodes \cup {NONE}] /\ \A k \in Fds : ds[k] \in {fds[k], NONE}
      BY <1>3, NothingOpen DEF Sound, Typed
    <2> QED
      BY <2>1, <2>2, <2>3, <2>4 DEF Sound, Typed
  <1>5. HeapOK' /\ Contents' = mf
    <2> HIDE DEF ds, bs
    <2>1. Objects(ms, ds, fs, hs, bs)
      BY <1>1 DEF ds, bs
    <2> QED
      BY <2>1, <1>4, Collected
  <1>6. /\ call' = [phase |-> "run", manifest |-> mf, missing |-> {}, calls |-> 0, since |-> mf]
        /\ mirror' = ms
    BY <1>1 DEF Running, Objects
  <1>7. mf \in Tree
    BY ManifestIsTree DEF GInv
  <1>8. call' \in Calls
    BY <1>6, <1>7 DEF Calls
  <1>9. Manifest' = mf
    BY DEF Manifest
  <1>10. CallOK'
    BY <1>5, <1>6, <1>8, <1>9 DEF CallOK
  <1>11. Others'
    BY <1>2 DEF GInv, Others
  <1> QED
    BY <1>5, <1>10, <1>11 DEF GInv

\* What the manifest does not have is taken away; the rest is there or missing.
LEMMA NamedKeeps ==
  ASSUME HeapOK, NEW mf \in Tree
  PROVE  /\ Sound(Named(mirror, mf), fds, file, heap, NoBefore)
         /\ \A n \in Names : mf[n] = NONE => Named(mirror, mf)[n] = NONE
  <1>1. /\ Named(mirror, mf) \in [Names -> Inodes \cup {NONE}]
        /\ \A n \in Names : /\ Named(mirror, mf)[n] \in {mirror[n], NONE}
                            /\ mf[n] = NONE => Named(mirror, mf)[n] = NONE
    BY DEF Named, HeapOK, Sound, Typed
  <1>2. fds \in [Fds -> Inodes \cup {NONE}]
    BY DEF HeapOK, Sound, Typed
  <1> QED
    BY <1>1, <1>2, NothingOpen, Fewer DEF HeapOK

\* Where nothing is outdated and no other file is left, the contents are the manifest's.
LEMMA NothingOutdated ==
  ASSUME NEW ms, NEW fs, NEW hs, NEW mf \in Tree, Outdated(ContentsOf(ms, fs, hs), mf) = {},
         \A n \in Names : mf[n] = NONE => ms[n] = NONE
  PROVE  ContentsOf(ms, fs, hs) = mf
  <1>1. \A n \in Names : mf[n] # NONE => ContentsOf(ms, fs, hs)[n] = mf[n]
    BY DEF Outdated
  <1>2. \A n \in Names : mf[n] = NONE => ContentsOf(ms, fs, hs)[n] = mf[n]
    BY DEF ContentsOf
  <1> QED
    BY <1>1, <1>2 DEF ContentsOf, Tree

\* The mirror is reconciled, and the guest starts or files are pulled.
LEMMA ExecuteStep == GInv /\ Execute => GInv'
  <1> SUFFICES ASSUME GInv, Execute PROVE GInv'
    OBVIOUS
  <1> DEFINE mf      == Manifest
             kept    == Named(mirror, mf)
             missing == Outdated(ContentsOf(kept, file, heap), mf)
  <1>1. mf \in Tree
    BY ManifestIsTree DEF GInv
  <1>2. /\ Sound(kept, fds, file, heap, NoBefore)
        /\ \A n \in Names : mf[n] = NONE => kept[n] = NONE
    BY <1>1, NamedKeeps DEF GInv
  <1>3. disabled' = ~enabled /\ UNCHANGED <<enabled, tree, root>> /\ call = NONE
    BY DEF Execute
  <1>4. \/ missing = {} /\ StartRun(kept, file, heap, mf)
        \/ /\ missing # {} /\ Objects(kept, fds, file, heap, NoBefore)
           /\ call' = Running(mf, missing, "pull") /\ UNCHANGED resident
    BY DEF Execute
  <1>5. ~enabled => mf = EmptyTree
    BY DEF Manifest
  <1>6. ~enabled => kept = EmptyTree
    BY <1>2, <1>5 DEF EmptyTree, Named
  <1>7. CASE missing = {} /\ StartRun(kept, file, heap, mf)
    <2>1. ContentsOf(kept, file, heap) = mf
      BY <1>1, <1>2, <1>7, NothingOutdated
    <2>2. disabled' \in BOOLEAN /\ (disabled' => kept = EmptyTree)
      BY <1>3, <1>6 DEF GInv, Others
    <2>3. mf = Manifest
      OBVIOUS
    <2> HIDE DEF kept, mf, missing
    <2> QED
      BY <1>2, <1>3, <1>7, <2>1, <2>2, <2>3, StartStep
  <1>8. CASE /\ missing # {} /\ Objects(kept, fds, file, heap, NoBefore)
             /\ call' = Running(mf, missing, "pull") /\ UNCHANGED resident
    <2>1. missing \subseteq {n \in Names : mf[n] # NONE}
      BY DEF Outdated
    <2>2. enabled
      <3> SUFFICES ASSUME ~enabled PROVE FALSE
        OBVIOUS
      <3> QED
        BY <1>5, <1>8, <2>1 DEF EmptyTree
    <2> HIDE DEF kept, mf, missing
    <2>3. HeapOK' /\ mirror' = kept
      BY <1>2, <1>8, Collected DEF Objects
    <2>4. Manifest' = mf
      BY <1>3 DEF Manifest, mf
    <2>5. mf \in Tree /\ EmptyTree \in Tree /\ missing \in SUBSET Names
      BY <1>1, <2>1 DEF Tree, EmptyTree
    <2>6. call' \in Calls /\ call'.manifest = mf /\ call'.phase = "pull" /\ call'.missing = missing
      BY <1>8, <2>5 DEF Running, Calls
    <2>7. ~disabled'
      BY <1>3, <2>2
    <2>8. CallOK'
      BY <1>2, <2>1, <2>3, <2>4, <2>6, <2>7 DEF CallOK
    <2>9. Others'
      BY <1>3, <1>8 DEF GInv, Others
    <2> QED
      BY <2>3, <2>8, <2>9 DEF GInv
  <1> QED
    BY <1>4, <1>7, <1>8

\* A step that ends the call leaves a sound heap and nothing else to say.
LEMMA EndStep ==
  ASSUME GInv, NEW ms, NEW ds, NEW fs, NEW hs, Sound(ms, ds, fs, hs, NoBefore),
         Objects(ms, ds, fs, hs, NoBefore), call' = NONE, Others'
  PROVE  GInv'
  <1>1. HeapOK'
    BY Collected
  <1> QED
    BY <1>1 DEF GInv, CallOK

\* The heap without what a roll-back would use.
LEMMA HeapStays ==
  ASSUME HeapOK, NEW ds \in {fds, NoFds}
  PROVE  Sound(mirror, ds, file, heap, NoBefore) /\ Sound(EmptyTree, ds, file, heap, NoBefore)
  <1>1. /\ mirror \in [Names -> Inodes \cup {NONE}] /\ ds \in [Fds -> Inodes \cup {NONE}]
        /\ \A k \in Fds : ds[k] \in {fds[k], NONE}
    BY NothingOpen DEF HeapOK, Sound, Typed
  <1>2. \A n \in Names : /\ mirror[n] \in {mirror[n], NONE} /\ EmptyTree[n] \in {mirror[n], NONE}
                         /\ NoBefore[n] \in {before[n], NONE}
    BY NothingOpen
  <1>3. Sound(mirror, ds, file, heap, NoBefore)
    BY <1>1, <1>2, NothingOpen, Fewer DEF HeapOK
  <1>4. Sound(EmptyTree, ds, file, heap, NoBefore)
    BY <1>1, <1>2, NothingOpen, Fewer DEF HeapOK
  <1> QED
    BY <1>3, <1>4

\* What was pulled gets new file objects on new buffers.
LEMMA PulledAreNew ==
  ASSUME HeapOK, NEW S \in SUBSET Names
  PROVE  /\ OneToOne(PulledFiles(S), S, Inodes \ ({mirror[n] : n \in Names \ S} \cup Held(fds)))
         /\ OneToOne(Numbering(S, Buffers \ Range(file)), S, Buffers \ Range(file))
  <1>0. IsFiniteSet(S) /\ Cardinality(S) \in Nat /\ Cardinality(S) <= Cardinality(Names)
    BY Sizes, FS_Subset, FS_CardinalityType
  <1>1. IsFiniteSet(Inodes \ ({mirror[n] : n \in Names \ S} \cup Held(fds)))
        /\ Cardinality(S) <= Cardinality(Inodes \ ({mirror[n] : n \in Names \ S} \cup Held(fds)))
    <2> DEFINE rest  == Names \ S
               old   == {mirror[n] : n \in rest}
               bound == Cardinality(Names) + Cardinality(Fds)
               g     == [n \in rest |-> mirror[n]]
    <2>1. IsFiniteSet(rest) /\ Cardinality(rest) \in Nat
      BY Sizes, FS_Subset, FS_CardinalityType
    <2>2. Cardinality(rest) = Cardinality(Names) - Cardinality(S)
      <3>1. Names \cap S = S
        OBVIOUS
      <3>2. Cardinality(Names \ S) = Cardinality(Names) - Cardinality(Names \cap S)
        BY Sizes, FS_Difference
      <3> QED
        BY <3>1, <3>2
    <2>3. IsFiniteSet(old) /\ Cardinality(old) <= Cardinality(rest)
      <3>1. g \in Surjection(rest, old)
        BY DEF Surjection
      <3> HIDE DEF rest, old, g
      <3> QED
        BY <2>1, <3>1, FS_Surjection
    <2>4. /\ IsFiniteSet(Held(fds)) /\ Cardinality(Held(fds)) <= Cardinality(Fds)
          /\ Cardinality(Held(fds)) \in Nat
      BY InodesInUse
    <2> HIDE DEF rest, old, g
    <2>5. IsFiniteSet(old \cup Held(fds))
          /\ Cardinality(old \cup Held(fds)) <= Cardinality(old) + Cardinality(Held(fds))
      BY <2>3, <2>4, UnionIsSmall
    <2>6. Cardinality(old \cup Held(fds)) \in Nat /\ Cardinality(old) \in Nat
      BY <2>3, <2>5, FS_CardinalityType
    <2>7. bound \in Nat /\ Cardinality(old \cup Held(fds)) + Cardinality(S) <= bound
      BY <1>0, <2>1, <2>2, <2>3, <2>4, <2>5, <2>6, Sizes
    <2> HIDE DEF bound
    <2>8. IsFiniteSet((1 .. bound) \ (old \cup Held(fds)))
          /\ Cardinality(S) <= Cardinality((1 .. bound) \ (old \cup Held(fds)))
      BY <1>0, <2>5, <2>7, SomeAreFree
    <2> QED
      BY <2>8 DEF bound, old, rest, Inodes
  <1>2. /\ IsFiniteSet(Buffers \ Range(file))
        /\ Cardinality(S) <= Cardinality(Buffers \ Range(file))
    <2> DEFINE bound == 2 * Cardinality(Names) + Cardinality(Fds) + 1
    <2>1. /\ IsFiniteSet(Range(file)) /\ Cardinality(Range(file)) \in Nat
          /\ Cardinality(Range(file)) <= Cardinality(Names) + Cardinality(Fds)
      BY BuffersInUse
    <2>2. bound \in Nat /\ Cardinality(Range(file)) + Cardinality(S) <= bound
      BY <1>0, <2>1, Sizes
    <2>3. Buffers = 1 .. bound
      BY DEF Buffers
    <2> HIDE DEF bound
    <2> QED
      BY <1>0, <2>1, <2>2, <2>3, SomeAreFree
  <1>3. OneToOne(PulledFiles(S), S, Inodes \ ({mirror[n] : n \in Names \ S} \cup Held(fds)))
    BY <1>0, <1>1, NumberingIsOneToOne DEF PulledFiles
  <1> QED
    BY <1>0, <1>2, <1>3, NumberingIsOneToOne

\* A mirror with what was pulled is sound, and holds what the manifest says of it.
LEMMA PulledIsSound ==
  ASSUME HeapOK, NEW S \in SUBSET Names, NEW mf \in Tree, \A n \in S : mf[n] # NONE,
         NEW node, OneToOne(node, S, Inodes \ ({mirror[n] : n \in Names \ S} \cup Held(fds))),
         NEW buffer, OneToOne(buffer, S, Buffers \ Range(file)),
         NEW ms, ms = [n \in Names |-> IF n \in S THEN node[n] ELSE mirror[n]],
         NEW fs, Installed(file, fs, S, node, buffer),
         NEW hs, Installed(heap, hs, S, buffer, mf)
  PROVE  Sound(ms, fds, fs, hs, NoBefore)
  <1> DEFINE free == Inodes \ ({mirror[n] : n \in Names \ S} \cup Held(fds))
  <1>1. /\ node \in [S -> free] /\ \A p, q \in S : node[p] = node[q] => p = q
        /\ buffer \in [S -> Buffers \ Range(file)] /\ \A p, q \in S : buffer[p] = buffer[q] => p = q
    BY DEF OneToOne
  <1>2. /\ \A n \in S : node[n] \in Inodes
        /\ \A n \in S, p \in Names \ S : node[n] # mirror[p]
        /\ \A n \in S, k \in Fds : fds[k] # NONE => node[n] # fds[k]
    <2>1. \A n \in S : node[n] \in free
      BY <1>1
    <2>2. \A k \in Fds : fds[k] # NONE => fds[k] \in Held(fds)
      BY DEF HeapOK, Sound, Typed, Held, Range
    <2> QED
      BY <2>1, <2>2
  <1>3. \A n \in S : buffer[n] \in Buffers /\ \A i \in DOMAIN file : buffer[n] # file[i]
    <2>1. \A i \in DOMAIN file : file[i] \in Range(file)
      BY DEF Range
    <2> QED
      BY <1>1, <2>1
  <1> HIDE DEF free
  <1>4. /\ \A n \in S : node[n] \in DOMAIN fs /\ fs[node[n]] = buffer[n]
        /\ \A i \in DOMAIN file : i \in DOMAIN fs
        /\ \A i \in DOMAIN file : (\A n \in S : node[n] # i) => fs[i] = file[i]
    BY DEF Installed
  <1>5. /\ \A n \in S : buffer[n] \in DOMAIN hs /\ hs[buffer[n]] = mf[n]
        /\ \A x \in DOMAIN heap : x \in DOMAIN hs
        /\ \A x \in DOMAIN heap : (\A n \in S : buffer[n] # x) => hs[x] = heap[x]
    BY DEF Installed
  <1>6. \A n \in S : ms[n] = node[n] /\ Leads(node[n], fs, hs)
    <2> TAKE n \in S
    <2>1. ms[n] = node[n] /\ mf[n] \in Content
      BY DEF Tree
    <2> QED
      BY <2>1, <1>2, <1>3, <1>4, <1>5 DEF Leads
  <1>7. ASSUME NEW i, Leads(i, file, heap), \A n \in S : node[n] # i
        PROVE  Leads(i, fs, hs) /\ fs[i] = file[i] /\ \A n \in S : buffer[n] # fs[i]
    BY <1>7, <1>3, <1>4, <1>5 DEF Leads
  <1>8. \A n \in Names \ S : ms[n] = mirror[n] /\ (ms[n] # NONE =>
          Leads(ms[n], fs, hs) /\ fs[ms[n]] = file[ms[n]] /\ \A p \in S : buffer[p] # fs[ms[n]])
    BY <1>2, <1>7 DEF HeapOK, Sound, Typed
  <1>9. \A k \in Fds : fds[k] # NONE => Leads(fds[k], fs, hs)
    BY <1>2, <1>7 DEF HeapOK, Sound, Typed
  <1>10. ms \in [Names -> Inodes \cup {NONE}]
    BY <1>2 DEF HeapOK, Sound, Typed
  <1>11. Typed(ms, fds, fs, hs, NoBefore)
    <2>1. \A n \in Names : ms[n] # NONE => Leads(ms[n], fs, hs)
      BY <1>6, <1>8
    <2> QED
      BY <2>1, <1>9, <1>10, NothingOpen DEF HeapOK, Sound, Typed
  <1>12. Distinct(ms, fs)
    <2> SUFFICES ASSUME NEW n \in Names, NEW p \in Names, n # p, ms[n] # NONE, ms[p] # NONE
                 PROVE  fs[ms[n]] # fs[ms[p]]
      BY DEF Distinct
    <2>1. CASE n \in S /\ p \in S
      BY <2>1, <1>1, <1>4, <1>6
    <2>2. CASE n \in S /\ p \notin S
      BY <2>2, <1>4, <1>6, <1>8
    <2>3. CASE n \notin S /\ p \in S
      BY <2>3, <1>4, <1>6, <1>8
    <2>4. CASE n \notin S /\ p \notin S
      BY <2>4, <1>8 DEF HeapOK, Sound, Distinct
    <2> QED
      BY <2>1, <2>2, <2>3, <2>4
  <1>13. Apart(NoBefore)
    BY NothingOpen DEF Apart
  <1> QED
    BY <1>11, <1>12, <1>13 DEF Sound

\* After the pull the guest starts, or the call ends.
LEMMA PullStep == GInv /\ Pull => GInv'
  <1> SUFFICES ASSUME GInv, Pull PROVE GInv'
    OBVIOUS
  <1> DEFINE S      == call.missing
             mf     == call.manifest
             node   == PulledFiles(S)
             buffer == Numbering(S, Buffers \ Range(file))
             ms     == [n \in Names |-> IF n \in S THEN node[n] ELSE mirror[n]]
             fs     == PutAll(file, node, buffer)
             hs     == PutAll(heap, buffer, mf)
  <1>1. /\ S \in SUBSET Names /\ mf \in Tree /\ mf = Manifest /\ ~disabled
        /\ \A n \in S : mf[n] # NONE
        /\ \A n \in Names : mf[n] = NONE => mirror[n] = NONE
    BY DEF Pull, InPhase, GInv, CallOK, Calls
  <1>2. UNCHANGED <<enabled, tree, disabled, root>>
    BY DEF Pull
  <1>3. IF Outdated(ContentsOf(ms, fs, hs), mf) = {}
        THEN StartRun(ms, fs, hs, mf)
        ELSE Objects(ms, fds, fs, hs, NoBefore) /\ call' = NONE /\ UNCHANGED resident
    BY DEF Pull
  <1>4. Sound(ms, fds, fs, hs, NoBefore)
    <2>1. OneToOne(node, S, Inodes \ ({mirror[n] : n \in Names \ S} \cup Held(fds)))
          /\ OneToOne(buffer, S, Buffers \ Range(file))
      BY <1>1, PulledAreNew DEF GInv
    <2>2. ms = [n \in Names |-> IF n \in S THEN node[n] ELSE mirror[n]]
      OBVIOUS
    <2> HIDE DEF S, mf, node, buffer, ms
    <2>3. Installed(file, fs, S, node, buffer) /\ Installed(heap, hs, S, buffer, mf)
      BY <2>1, PutAllHolds
    <2> HIDE DEF fs, hs
    <2> QED
      BY <1>1, <2>1, <2>2, <2>3, PulledIsSound DEF GInv
  <1>5. \A n \in Names : mf[n] = NONE => ms[n] = NONE
    BY <1>1
  <1> HIDE DEF S, mf, node, buffer, ms, fs, hs
  <1>6. CASE Outdated(ContentsOf(ms, fs, hs), mf) = {}
    <2>1. ContentsOf(ms, fs, hs) = mf
      BY <1>1, <1>5, <1>6, NothingOutdated
    <2>2. disabled' \in BOOLEAN /\ (disabled' => ms = EmptyTree)
      BY <1>1, <1>2 DEF GInv, Others
    <2> QED
      BY <1>1, <1>2, <1>3, <1>4, <1>6, <2>1, <2>2, StartStep
  <1>7. CASE Outdated(ContentsOf(ms, fs, hs), mf) # {}
    <2>1. Objects(ms, fds, fs, hs, NoBefore) /\ call' = NONE /\ UNCHANGED resident
      BY <1>3, <1>7
    <2>2. Others'
      BY <1>2, <2>1 DEF GInv, Others
    <2> QED
      BY <1>4, <2>1, <2>2, EndStep
  <1> QED
    BY <1>6, <1>7

\* A roll-back puts the rows' buffers under new file objects.
LEMMA RolledBackIsSound ==
  ASSUME HeapOK, NEW ds \in {fds, NoFds},
         NEW S \in SUBSET Names, \A n \in Names : n \in S <=> before[n] # NONE,
         NEW node, node = Numbering(S, Inodes \ Held(ds)),
         NEW ms, ms = [n \in Names |-> IF n \in S THEN node[n] ELSE NONE]
  PROVE  Sound(ms, ds, PutAll(file, node, before), heap, NoBefore)
  <1> DEFINE fs == PutAll(file, node, before)
  <1>1. IsFiniteSet(S) /\ Cardinality(S) \in Nat /\ Cardinality(S) <= Cardinality(Names)
    BY Sizes, FS_Subset, FS_CardinalityType
  <1>2. ds \in [Fds -> Inodes \cup {NONE}] /\ \A k \in Fds : ds[k] \in {fds[k], NONE}
    BY NothingOpen DEF HeapOK, Sound, Typed
  <1>3. /\ IsFiniteSet(Held(ds)) /\ Cardinality(Held(ds)) <= Cardinality(Fds)
        /\ Cardinality(Held(ds)) \in Nat
    <2>1. Fds \in SUBSET Fds /\ \A k \in Fds \ Fds : ds[k] = NONE
      OBVIOUS
    <2>2. IsFiniteSet(Held(ds)) /\ Cardinality(Held(ds)) <= Cardinality(Fds)
      BY <1>2, <2>1, Sizes, HeldIsSmall
    <2> QED
      BY <2>2, FS_CardinalityType
  <1>4. /\ IsFiniteSet(Inodes \ Held(ds))
        /\ Cardinality(S) <= Cardinality(Inodes \ Held(ds))
    <2> DEFINE bound == Cardinality(Names) + Cardinality(Fds)
    <2>1. bound \in Nat /\ Cardinality(Held(ds)) + Cardinality(S) <= bound
      BY <1>1, <1>3, Sizes
    <2>2. Inodes = 1 .. bound
      BY DEF Inodes
    <2> HIDE DEF bound
    <2> QED
      BY <1>1, <1>3, <2>1, <2>2, SomeAreFree
  <1>5. OneToOne(node, S, Inodes \ Held(ds))
    BY <1>1, <1>4, NumberingIsOneToOne
  <1>6. /\ \A n \in S : node[n] \in Inodes
        /\ \A n \in S, k \in Fds : ds[k] # NONE => node[n] # ds[k]
    <2>1. \A k \in Fds : ds[k] # NONE => ds[k] \in Held(ds)
      BY <1>2 DEF Held, Range
    <2> QED
      BY <1>5, <2>1 DEF OneToOne
  <1>7. /\ \A n \in S : node[n] \in DOMAIN fs /\ fs[node[n]] = before[n]
        /\ \A i \in DOMAIN file : i \in DOMAIN fs
        /\ \A i \in DOMAIN file : (\A n \in S : node[n] # i) => fs[i] = file[i]
    <2>1. Installed(file, fs, S, node, before)
      BY <1>5, PutAllHolds
    <2> QED
      BY <2>1 DEF Installed
  <1> HIDE DEF fs
  <1>8. \A n \in S : /\ before[n] \in Buffers /\ before[n] \in DOMAIN heap
                     /\ heap[before[n]] \in Content
    BY DEF HeapOK, Sound, Typed
  <1>9. \A n \in S : ms[n] = node[n] /\ Leads(node[n], fs, heap)
    BY <1>6, <1>7, <1>8 DEF Leads
  <1>10. \A n \in Names \ S : ms[n] = NONE
    OBVIOUS
  <1>11. \A k \in Fds : ds[k] # NONE => Leads(ds[k], fs, heap)
    <2> SUFFICES ASSUME NEW k \in Fds, ds[k] # NONE PROVE Leads(ds[k], fs, heap)
      OBVIOUS
    <2>1. Leads(ds[k], file, heap)
      BY <1>2 DEF HeapOK, Sound, Typed
    <2>2. \A n \in S : node[n] # ds[k]
      BY <1>6
    <2> QED
      BY <2>1, <2>2, <1>7 DEF Leads
  <1>12. ms \in [Names -> Inodes \cup {NONE}]
    BY <1>6
  <1>13. Typed(ms, ds, fs, heap, NoBefore)
    BY <1>2, <1>9, <1>10, <1>11, <1>12, NothingOpen DEF Typed
  <1>14. Distinct(ms, fs)
    <2> SUFFICES ASSUME NEW n \in Names, NEW p \in Names, n # p, ms[n] # NONE, ms[p] # NONE
                 PROVE  fs[ms[n]] # fs[ms[p]]
      BY DEF Distinct
    <2>1. n \in S /\ p \in S
      BY <1>10
    <2>2. before[n] # before[p]
      BY <2>1 DEF HeapOK, Sound, Apart
    <2> QED
      BY <2>1, <2>2, <1>7, <1>9
  <1>15. Apart(NoBefore)
    BY NothingOpen DEF Apart
  <1> QED
    BY <1>13, <1>14, <1>15 DEF Sound, fs

\* However a script that fails ends.
LEMMA RollBackStep == GInv /\ (Raises \/ Traps) => GInv'
  <1> SUFFICES ASSUME GInv, Raises \/ Traps PROVE GInv'
    OBVIOUS
  <1>1. PICK ds \in {fds, NoFds} : RollBack(ds)
    BY DEF Raises, Traps
  <1> DEFINE S    == {n \in Names : before[n] # NONE}
             node == Numbering(S, Inodes \ Held(ds))
             ms   == [n \in Names |-> IF n \in S THEN node[n] ELSE NONE]
             fs   == PutAll(file, node, before)
  <1>2. Objects(ms, ds, fs, heap, NoBefore)
    BY <1>1 DEF RollBack
  <1>3. Sound(ms, ds, fs, heap, NoBefore)
    <2>1. S \in SUBSET Names /\ \A n \in Names : n \in S <=> before[n] # NONE
      OBVIOUS
    <2>2. node = Numbering(S, Inodes \ Held(ds))
          /\ ms = [n \in Names |-> IF n \in S THEN node[n] ELSE NONE]
      OBVIOUS
    <2> HIDE DEF S, node, ms
    <2> QED
      BY <2>1, <2>2, RolledBackIsSound DEF GInv
  <1>4. call' = NONE /\ Others'
    BY DEF Raises, Traps, GInv, Others
  <1> HIDE DEF S, node, ms, fs
  <1> QED
    BY <1>2, <1>3, <1>4, EndStep

\* Or one that does not.
LEMMA SuccessStep == GInv /\ (IsStored \/ IsNotStored) => GInv'
  <1> SUFFICES ASSUME GInv, IsStored \/ IsNotStored PROVE GInv'
    OBVIOUS
  <1>1. /\ Objects(mirror, fds, file, heap, NoBefore) /\ call' = NONE
        /\ UNCHANGED <<enabled, disabled, root, resident>>
    BY DEF IsStored, IsNotStored, Succeeds
  <1>2. Sound(mirror, fds, file, heap, NoBefore)
    BY HeapStays DEF GInv
  <1>3. Contents \in Tree
    BY ContentsAreTree DEF GInv, HeapOK, Contents
  <1>4. tree' \in Tree
    BY <1>3 DEF IsStored, IsNotStored, GInv, Others, Tree
  <1>5. Others'
    BY <1>1, <1>4 DEF GInv, Others
  <1> QED
    BY <1>1, <1>2, <1>5, EndStep

\* When the interpreter forgets its mirror.
LEMMA ForgetStep == GInv /\ (Destroy \/ Evict) => GInv'
  <1> SUFFICES ASSUME GInv, Destroy \/ Evict PROVE GInv'
    OBVIOUS
  <1>1. /\ Objects(EmptyTree, NoFds, file, heap, NoBefore)
        /\ root' = 1 - root /\ resident' = NONE /\ disabled' = FALSE /\ UNCHANGED <<enabled, tree>>
    BY DEF Destroy, Evict, NoResident
  <1>2. Sound(EmptyTree, NoFds, file, heap, NoBefore)
    BY HeapStays DEF GInv
  <1>3. HeapOK' /\ mirror' = EmptyTree
    BY <1>1, <1>2, Collected DEF Objects
  <1>4. Others'
    <2>1. root' \in {0, 1}
      BY <1>1 DEF GInv, Others
    <2>2. resident' \in {NONE, root'} /\ disabled' \in BOOLEAN
      BY <1>1
    <2> QED
      BY <1>1, <2>1, <2>2 DEF GInv, Others
  <1>5. call' = NONE \/ (call' = call /\ InPhase("pull"))
    BY DEF Destroy, Evict
  <1>6. CallOK'
    <2>1. CASE call' = NONE
      BY <2>1 DEF CallOK
    <2>2. CASE call' = call /\ InPhase("pull")
      <3>1. Manifest' = Manifest
        BY <1>1 DEF Manifest
      <3>2. \A n \in Names : mirror'[n] = NONE
        BY <1>3, NothingOpen
      <3> QED
        BY <1>1, <2>2, <3>1, <3>2 DEF GInv, CallOK, InPhase
    <2> QED
      BY <1>5, <2>1, <2>2
  <1> QED
    BY <1>3, <1>4, <1>6 DEF GInv

\* What the sandbox does between executions.
LEMMA SandboxStep ==
  ASSUME GInv, UNCHANGED interpreter, call = NONE, enabled' \in BOOLEAN, tree' \in Tree
  PROVE  GInv'
  BY DEF GInv, HeapOK, Others, CallOK, interpreter

\* Writing and deleting a file through the File API.
LEMMA FileApiStep ==
  ASSUME GInv, NEW n \in Names, WriteFile(n) \/ DeleteFile(n)
  PROVE  GInv'
  <1>1. UNCHANGED interpreter /\ call = NONE /\ enabled' \in BOOLEAN
    BY DEF WriteFile, DeleteFile, GInv, Others
  <1>2. tree' \in Tree
    BY DEF WriteFile, DeleteFile, GInv, Others, Tree
  <1> QED
    BY <1>1, <1>2, SandboxStep

--------------------------------------------------------------------------------
(***************************************************************************)
(* System calls.                                                           *)
(***************************************************************************)
\* A system call that leaves a sound heap, and none with the File API disabled.
LEMMA CallStep ==
  ASSUME GInv, NEW ms, NEW ds, NEW fs, NEW hs,
         Calling, Objects(ms, ds, fs, hs, before), Sound(ms, ds, fs, hs, before),
         disabled => ms = mirror
  PROVE  GInv'
  <1>1. HeapOK' /\ mirror' = ms
    BY Collected DEF Objects
  <1>2. /\ call # NONE /\ call.phase = "run" /\ call' = [call EXCEPT !.calls = @ + 1]
        /\ UNCHANGED <<enabled, tree, disabled, root, resident>>
    BY DEF Calling, InPhase
  <1>3. /\ call \in Calls /\ call.manifest = Manifest /\ call.since = call.manifest
        /\ disabled => mirror = EmptyTree
    BY <1>2 DEF GInv, CallOK
  <1>4. /\ call' \in Calls /\ call'.phase = "run" /\ call'.manifest = call.manifest
        /\ call'.since = call.since /\ call'.calls # 0
    BY <1>2, <1>3 DEF Calls
  <1>5. Manifest' = Manifest
    BY <1>2 DEF Manifest
  <1>6. CallOK'
    BY <1>1, <1>2, <1>3, <1>4, <1>5 DEF CallOK
  <1>7. Others'
    BY <1>2 DEF GInv, Others
  <1> QED
    BY <1>1, <1>6, <1>7 DEF GInv

\* Another descriptor, or one less, is no other heap.
LEMMA DescriptorStep ==
  ASSUME GInv, NEW k \in Fds, NEW i, i = NONE \/ Leads(i, file, heap),
         Calling, Objects(mirror, [fds EXCEPT ![k] = i], file, heap, before)
  PROVE  GInv'
  <1>1. i \in Inodes \cup {NONE}
    BY DEF Leads
  <1>2. Sound(mirror, [fds EXCEPT ![k] = i], file, heap, before)
    BY <1>1 DEF GInv, HeapOK, Sound, Typed
  <1> QED
    BY <1>2, CallStep

\* path_open, with its two flags.
LEMMA OpenStep ==
  ASSUME GInv, NEW k \in Fds, NEW n \in Names,
         PathOpen(k, n) \/ PathOpenTruncating(k, n) \/ PathOpenCreating(k, n)
  PROVE  GInv'
  <1>1. CASE PathOpen(k, n)
    <2>1. Leads(mirror[n], file, heap)
      BY <1>1 DEF PathOpen, GInv, HeapOK, Sound, Typed
    <2> QED
      BY <1>1, <2>1, DescriptorStep DEF PathOpen
  <1>2. CASE PathOpenTruncating(k, n)
    <2> DEFINE i  == mirror[n]
               fs == Put(file, i, FreshBuffer)
               hs == Put(heap, FreshBuffer, EmptyContent)
               ds == [fds EXCEPT ![k] = i]
    <2>1. Leads(i, file, heap) /\ i \in Inodes
      BY <1>2 DEF PathOpenTruncating, GInv, HeapOK, Sound, Typed, Leads
    <2>2. FreshBuffer \in Buffers /\ FreshBuffer \notin DOMAIN heap /\ EmptyContent \in Content
      BY FreshBufferIsFree, SizesAssumption DEF GInv, EmptyContent, Content
    <2>3. Sound(mirror, fds, file, heap, before)
      BY DEF GInv, HeapOK
    <2>4. Sound(mirror, fds, fs, hs, before) /\ Leads(i, fs, hs)
      <3> HIDE DEF i
      <3> QED
        BY <2>1, <2>2, <2>3, Repointed
    <2>5. Objects(mirror, ds, fs, hs, before) /\ Calling
      BY <1>2 DEF PathOpenTruncating
    <2> HIDE DEF i, fs, hs
    <2>6. Sound(mirror, ds, fs, hs, before)
      BY <2>1, <2>4 DEF Sound, Typed
    <2> HIDE DEF ds
    <2> QED
      BY <2>5, <2>6, CallStep
  <1>3. CASE PathOpenCreating(k, n)
    <2> DEFINE i  == FreshFile
               fs == Put(file, i, FreshBuffer)
               hs == Put(heap, FreshBuffer, EmptyContent)
               ms == [mirror EXCEPT ![n] = i]
               ds == [fds EXCEPT ![k] = i]
    <2>1. /\ fds[k] = NONE /\ mirror[n] = NONE /\ ~disabled
          /\ Objects(ms, ds, fs, hs, before) /\ Calling
      BY <1>3 DEF PathOpenCreating, gate
    <2>2. i \in Inodes \ (Held(mirror) \cup Held(fds))
      BY <2>1, FreshFileIsFree DEF GInv
    <2>3. FreshBuffer \in Buffers /\ FreshBuffer \notin DOMAIN heap /\ EmptyContent \in Content
      BY FreshBufferIsFree, SizesAssumption DEF GInv, EmptyContent, Content
    <2>4. Sound(mirror, fds, file, heap, before)
      BY DEF GInv, HeapOK
    <2> HIDE DEF i, fs, hs
    <2>5. /\ Sound(mirror, fds, fs, hs, before) /\ Leads(i, fs, hs) /\ fs[i] = FreshBuffer
          /\ \A p \in Names : mirror[p] # NONE /\ mirror[p] # i => fs[mirror[p]] # FreshBuffer
      BY <2>2, <2>3, <2>4, Repointed DEF fs, hs
    <2>6. \A p \in Names : mirror[p] # NONE => mirror[p] # i
      BY <2>2, <2>4 DEF Sound, Typed, Held, Range
    <2>7. Typed(ms, ds, fs, hs, before)
      BY <2>2, <2>5 DEF Sound, Typed
    <2>8. Distinct(ms, fs)
      BY <2>4, <2>5, <2>6 DEF Sound, Typed, Distinct
    <2>9. Sound(ms, ds, fs, hs, before)
      BY <2>5, <2>7, <2>8 DEF Sound
    <2> HIDE DEF ms, ds
    <2> QED
      BY <2>1, <2>9, CallStep
  <1> QED
    BY <1>1, <1>2, <1>3

\* fd_write, inside the file and past its end.
LEMMA WriteStep ==
  ASSUME GInv, NEW k \in Fds, NEW t \in Texts, FdOverwrite(k, t) \/ FdGrow(k, t)
  PROVE  GInv'
  <1>0. fds[k] # NONE /\ Leads(fds[k], file, heap) /\ Sound(mirror, fds, file, heap, before)
    BY DEF FdOverwrite, FdGrow, GInv, HeapOK, Sound, Typed
  <1>1. CASE FdOverwrite(k, t)
    <2> DEFINE x  == file[fds[k]]
               hs == [heap EXCEPT ![x].text = t]
    <2>1. x \in DOMAIN heap /\ heap[x] \in Content
      BY <1>0 DEF Leads
    <2>2. [heap[x] EXCEPT !.text = t] \in Content
      BY <2>1 DEF Content
    <2>3. DOMAIN hs = DOMAIN heap
          /\ \A y \in DOMAIN heap : hs[y] = heap[y] \/ hs[y] \in Content
      BY <2>1, <2>2
    <2>4. Objects(mirror, fds, file, hs, before) /\ Calling
      BY <1>1 DEF FdOverwrite
    <2> HIDE DEF hs
    <2>5. \A i : Leads(i, file, heap) => Leads(i, file, hs)
      BY <2>3 DEF Leads
    <2>6. Sound(mirror, fds, file, hs, before)
      BY <1>0, <2>3, <2>5 DEF Sound, Typed
    <2> QED
      BY <2>4, <2>6, CallStep
  <1>2. CASE FdGrow(k, t)
    <2> DEFINE i  == fds[k]
               c  == [size |-> heap[file[i]].size + 1, text |-> t]
               fs == Put(file, i, FreshBuffer)
               hs == Put(heap, FreshBuffer, c)
    <2>1. c \in Content
      BY <1>0, <1>2, SizesAssumption DEF FdGrow, Leads, Content
    <2>2. FreshBuffer \in Buffers /\ FreshBuffer \notin DOMAIN heap
      BY FreshBufferIsFree DEF GInv
    <2>3. Objects(mirror, fds, fs, hs, before) /\ Calling
      BY <1>2 DEF FdGrow
    <2>4. i \in Inodes
      BY <1>0 DEF Leads
    <2> HIDE DEF i, c
    <2>5. Sound(mirror, fds, fs, hs, before)
      BY <1>0, <2>1, <2>2, <2>4, Repointed
    <2> HIDE DEF fs, hs
    <2> QED
      BY <2>3, <2>5, CallStep
  <1> QED
    BY <1>1, <1>2

\* fd_close.
LEMMA CloseStep == ASSUME GInv, NEW k \in Fds, FdClose(k) PROVE GInv'
  BY DescriptorStep DEF FdClose

\* path_unlink_file.
LEMMA UnlinkStep == ASSUME GInv, NEW n \in Names, PathUnlink(n) PROVE GInv'
  <1>1. /\ Objects(Unlinked(mirror, n), fds, file, heap, before) /\ Calling /\ ~disabled
    BY DEF PathUnlink, gate
  <1>2. Sound(Unlinked(mirror, n), fds, file, heap, before)
    BY DEF GInv, HeapOK, Sound, Typed, Distinct, Unlinked
  <1> QED
    BY <1>1, <1>2, CallStep

\* path_rename, also onto a file that is there.
LEMMA RenameStep ==
  ASSUME GInv, NEW from \in Names, NEW to \in Names, PathRename(from, to)
  PROVE  GInv'
  <1> DEFINE ms == Renamed(mirror, from, to)
  <1>1. Objects(ms, fds, file, heap, before) /\ Calling /\ ~disabled /\ from # to
    BY DEF PathRename, gate
  <1>2. /\ mirror \in [Names -> Inodes \cup {NONE}]
        /\ ms \in [Names -> Inodes \cup {NONE}] /\ ms[from] = NONE /\ ms[to] = mirror[from]
        /\ \A n \in Names : n # from /\ n # to => ms[n] = mirror[n]
    BY <1>1 DEF GInv, HeapOK, Sound, Typed, Renamed
  <1> HIDE DEF ms
  <1>3. Typed(ms, fds, file, heap, before)
    BY <1>2 DEF GInv, HeapOK, Sound, Typed
  <1>4. Distinct(ms, file)
    <2> SUFFICES ASSUME NEW n \in Names, NEW p \in Names, n # p, ms[n] # NONE, ms[p] # NONE
                 PROVE  file[ms[n]] # file[ms[p]]
      BY DEF Distinct
    <2>1. n # from /\ p # from
      BY <1>2
    <2>2. \A q \in Names : q # from => q = to \/ ms[q] = mirror[q]
      BY <1>2
    <2> QED
      BY <1>2, <2>1, <2>2 DEF GInv, HeapOK, Sound, Distinct
  <1>5. Sound(ms, fds, file, heap, before)
    BY <1>3, <1>4 DEF GInv, HeapOK, Sound
  <1> QED
    BY <1>1, <1>5, CallStep

--------------------------------------------------------------------------------
(***************************************************************************)
(* The theorems.                                                           *)
(***************************************************************************)
\* The invariant is inductive.
LEMMA FilesStep == GInv /\ [Next]_vars => GInv'
  <1> SUFFICES ASSUME GInv, [Next]_vars PROVE GInv'
    OBVIOUS
  <1>1. CASE SetFileApi
    BY <1>1, SandboxStep DEF SetFileApi, GInv, Others
  <1>2. CASE PullFails
    <2>1. /\ HeapOK' /\ Others' /\ call' = NONE
      BY <1>2 DEF PullFails, GInv, HeapOK, Others
    <2> QED
      BY <2>1 DEF GInv, CallOK
  <1>3. CASE UNCHANGED vars
    BY <1>3 DEF vars, GInv, HeapOK, Others, CallOK, Manifest, Contents
  <1> QED
    BY <1>1, <1>2, <1>3, FileApiStep, ExecuteStep, PullStep, OpenStep, WriteStep, CloseStep,
       UnlinkStep, RenameStep, SuccessStep, RollBackStep, ForgetStep DEF Next

\* The mirror is sound for every number of names and descriptors and every size:
\* two names never lead to the same bytes, the instance has mounted the mirror
\* there is, and without the File API there is no file in it.
THEOREM MirrorStaysSound == Spec => []MirrorIsSound
  <1>1. GInv => MirrorIsSound
    BY FilesFromInvariant
  <1> QED
    BY <1>1, FilesInit, FilesStep, PTL DEF Spec

\* Every guest starts from the sandbox's files, or from none, whatever earlier
\* executions, roll-backs, lost answers and evictions left in the mirror.
THEOREM StartsFromTheWorkspace == Spec => []GuestStartsFromTheWorkspace
  <1>1. GInv => GuestStartsFromTheWorkspace
    BY FilesFromInvariant
  <1> QED
    BY <1>1, FilesInit, FilesStep, PTL DEF Spec

\* What is stored is compared by content with what the guest started from.
LEMMA StoredStep == GInv /\ IsStored => tree' = ContentsOf(mirror', file', heap')
  <1> SUFFICES ASSUME GInv, IsStored PROVE tree' = ContentsOf(mirror', file', heap')
    OBVIOUS
  <1>1. /\ call # NONE /\ call.phase = "run" /\ enabled
        /\ tree' = [n \in Names |-> IF n \in Changed THEN Contents[n] ELSE tree[n]]
        /\ Objects(mirror, fds, file, heap, NoBefore)
    BY DEF IsStored, Succeeds, InPhase
  <1>2. call.since = tree
    BY <1>1 DEF GInv, CallOK, Manifest
  <1>3. Sound(mirror, fds, file, heap, NoBefore)
    BY HeapStays DEF GInv
  <1>4. Contents' = Contents
    BY <1>1, <1>3, Collected DEF Contents
  <1>5. \A n \in Names : tree'[n] = Contents[n]
    BY <1>1, <1>2 DEF Changed
  <1>6. tree' = Contents
    BY <1>1, <1>5 DEF Contents, ContentsOf
  <1> QED
    BY <1>4, <1>6 DEF Contents

\* After an execution whose changes the sandbox has applied, both sides hold
\* the same files, however they were written.
THEOREM StoredIsLeft == Spec => StoredIsWhatTheGuestLeft
  <1>1. GInv /\ [Next]_vars => [IsStored => tree' = ContentsOf(mirror', file', heap')]_vars
    BY StoredStep
  <1> QED
    BY <1>1, FilesInit, FilesStep, PTL DEF Spec, StoredIsWhatTheGuestLeft

--------------------------------------------------------------------------------
(***************************************************************************)
(* Part two: the working directory.                                        *)
(*                                                                         *)
(* The session's object and the context's row may differ while a script    *)
(* runs and when it ended in a way that drops the instance; when it ended  *)
(* in one of the other two ways they agree already.                        *)
(***************************************************************************)
AgreedAtTheEnd == at \in {"ok", "error"} => cwd = row

DInv == DirectoryIsTracked /\ AgreedAtTheEnd

\* A new session agrees with the row it was made from.
LEMMA DirectoryInit == Directory!Init => DInv
  BY DEF Directory!Init, DInv, DirectoryIsTracked, AgreedAtTheEnd, Directory!DirectoryIsTracked,
         Directory!TypeOK, Directory!CwdIsAgreed, Directory!StartsWhereItSays,
         Directory!EndsSomewhere

\* Whatever a script, its end, its roll-back, the File API or an eviction does to it.
LEMMA DirectoryStep == DInv /\ [Directory!Next]_(Directory!vars) => DInv'
  <1> SUFFICES ASSUME DInv, [Directory!Next]_(Directory!vars) PROVE DInv'
    OBVIOUS
  <1> USE DEF DInv, DirectoryIsTracked, AgreedAtTheEnd, Directory!DirectoryIsTracked,
              Directory!TypeOK, Directory!CwdIsAgreed, Directory!StartsWhereItSays,
              Directory!EndsSomewhere
  <1>1. CASE Directory!ChangeTree
    BY <1>1 DEF Directory!ChangeTree
  <1>2. CASE Directory!SetDisabled
    BY <1>2 DEF Directory!SetDisabled
  <1>3. CASE Directory!Evict
    BY <1>3 DEF Directory!Evict
  <1>4. CASE Directory!Execute
    BY <1>4 DEF Directory!Execute, Directory!Entered, Directory!SessionCwd,
                Directory!SessionGuest, Directory!CanEnter, Directory!Visible
  <1>5. ASSUME NEW x \in Dirs, Directory!MakeDirectory(x) \/ Directory!RemoveDirectory(x)
        PROVE  DInv'
    BY <1>5 DEF Directory!MakeDirectory, Directory!RemoveDirectory, Directory!Running,
                Directory!Visible
  <1>6. ASSUME NEW x \in Dirs \union {Root, Outside},
               Directory!GuestChdir(x) \/ Directory!ProcessChdir(x)
        PROVE  DInv'
    BY <1>6 DEF Directory!GuestChdir, Directory!ProcessChdir, Directory!Running,
                Directory!IsDirectory, Directory!onCwdChange, Directory!CanEnter,
                Directory!Visible
  <1>7. ASSUME NEW end \in {"ok", "error", "unfit", "trap"}, Directory!End(end)
        PROVE  DInv'
    BY <1>7 DEF Directory!End, Directory!Running, Directory!EndCwd, Directory!RowAfter,
                Directory!Comes, Directory!Persisted, Directory!IsDirectory
  <1>8. CASE Directory!Conclude
    <2>1. /\ at \in {"ok", "error", "unfit", "trap"} /\ at' = "idle"
          /\ dirs' = (IF at = "ok" THEN dirs ELSE dirsBefore)
          /\ inMemory' = (at \in {"ok", "error"})
          /\ snapshot' \in {snapshot, guest} /\ stored' \in {stored, TRUE}
          /\ UNCHANGED <<kind, fileApiOff, row, cwd, guest, dirsBefore, wired>>
      BY <1>8 DEF Directory!Conclude
    <2>2. Directory!TypeOK'
      <3>0. (at \in {"ok", "error"}) = TRUE \/ (at \in {"ok", "error"}) = FALSE
        OBVIOUS
      <3>1. inMemory' \in BOOLEAN
        BY <2>1, <3>0
      <3>2. stored' \in BOOLEAN
        BY <2>1, Zenon
      <3>3. snapshot' \in {Root, Outside} \union Dirs /\ dirs' \subseteq Dirs /\ at' = "idle"
        BY <2>1
      <3> QED
        BY <2>1, <3>1, <3>2, <3>3
    <2>3. Directory!CwdIsAgreed'
      BY <2>1
    <2> QED
      BY <2>1, <2>2, <2>3
  <1>9. CASE UNCHANGED Directory!vars
    BY <1>9 DEF Directory!vars, Directory!CanEnter, Directory!Visible, Directory!IsDirectory
  <1> QED
    BY <1>1, <1>2, <1>3, <1>4, <1>5, <1>6, <1>7, <1>8, <1>9 DEF Directory!Next

(***************************************************************************)
(* The guest's own directory, the session's and the row's never lose each  *)
(* other.                                                                  *)
(***************************************************************************)
THEOREM DirectoryTracked == Directory!Spec => []DirectoryIsTracked
  <1>1. DInv => DirectoryIsTracked
    BY DEF DInv
  <1> QED
    BY <1>1, DirectoryInit, DirectoryStep, PTL DEF Directory!Spec
================================================================================
