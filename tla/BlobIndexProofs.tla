--------------------------- MODULE BlobIndexProofs ---------------------------
(***************************************************************************)
(* Machine-checked proofs about BlobIndex: type correctness for every      *)
(* value of the constants; that the reference counts of manifests never    *)
(* fall below the number of live references they stand for; when one       *)
(* chunker configuration is used and namespaces store no common chunk,     *)
(* that neither do those of chunks; and that the counters of each          *)
(* namespace are sums over its live references, for any number of them.    *)
(*                                                                         *)
(* The argument counts: Uses(c) is a finite set of places <<ns, key, i>>,  *)
(* a transaction on one key replaces the places of that key by others, and *)
(* the record's RefCount moves by no less.  A sum is the number of the     *)
(* units it is made of, so that a transaction on one key exchanges that    *)
(* key's units for others.                                                 *)
(***************************************************************************)
EXTENDS BlobIndex, FiniteSetTheorems, WellFoundedInduction, TLAPS

-----------------------------------------------------------------------------
(* Finite sets and sequences                                               *)

\* Swapping a part A of a finite set U for a set B disjoint from the rest.
LEMMA Exchange ==
    ASSUME NEW U, IsFiniteSet(U), NEW A \in SUBSET U, NEW B, IsFiniteSet(B),
           (U \ A) \cap B = {}
    PROVE  /\ IsFiniteSet((U \ A) \cup B)
           /\ Cardinality((U \ A) \cup B) = Cardinality(U) - Cardinality(A) + Cardinality(B)
           /\ Cardinality(A) <= Cardinality(U)
           /\ Cardinality(A) \in Nat /\ Cardinality(B) \in Nat /\ Cardinality(U) \in Nat
<1>1. IsFiniteSet(A) /\ Cardinality(A) <= Cardinality(U)
    BY FS_Subset
<1>2. /\ IsFiniteSet(U \ A)
      /\ Cardinality(U \ A) = Cardinality(U) - Cardinality(U \cap A)
    BY FS_Difference
<1>3. U \cap A = A
    OBVIOUS
<1>4. /\ IsFiniteSet((U \ A) \cup B)
      /\ Cardinality((U \ A) \cup B)
           = Cardinality(U \ A) + Cardinality(B) - Cardinality((U \ A) \cap B)
    BY <1>2, FS_Union
<1>5. Cardinality((U \ A) \cap B) = 0
    BY FS_EmptySet
<1>6. Cardinality(A) \in Nat /\ Cardinality(B) \in Nat /\ Cardinality(U) \in Nat
    BY <1>1, FS_CardinalityType
<1>7. Cardinality(U \ A) = Cardinality(U) - Cardinality(A)
    BY <1>2, <1>3, Zenon
<1>8. Cardinality((U \ A) \cup B) = (Cardinality(U) - Cardinality(A)) + Cardinality(B) - 0
    BY <1>4, <1>5, <1>7, Zenon
<1> QED
    BY <1>1, <1>4, <1>6, <1>8

\* The positions of a sequence that hold c are finite in number.
LEMMA CountType ==
    ASSUME NEW ids \in Seq(ChunkId), NEW c
    PROVE  /\ IsFiniteSet({i \in DOMAIN ids : ids[i] = c})
           /\ Count(ids, c) \in Nat
           /\ Count(ids, c) > 0 <=> \E i \in DOMAIN ids : ids[i] = c
<1> DEFINE P == {i \in DOMAIN ids : ids[i] = c}
<1>1. DOMAIN ids = 1..Len(ids) /\ Len(ids) \in Nat
    OBVIOUS
<1>2. IsFiniteSet(1..Len(ids))
    BY <1>1, FS_Interval
<1>3. P \in SUBSET (1..Len(ids))
    BY <1>1
<1>4. IsFiniteSet(P)
    BY <1>2, <1>3, FS_Subset
<1>5. Cardinality(P) \in Nat /\ (Cardinality(P) = 0 <=> P = {})
    BY <1>4, FS_CardinalityType, FS_EmptySet
<1> QED
    BY <1>4, <1>5 DEF Count

\* The empty manifest holds nothing.
LEMMA CountEmpty ==
    ASSUME NEW c
    PROVE  Count(<< >>, c) = 0
<1>1. {i \in DOMAIN << >> : << >>[i] = c} = {}
    OBVIOUS
<1> QED
    BY <1>1, FS_EmptySet DEF Count

\* The chunks that occur in a manifest are finite in number.
LEMMA OccurringFinite ==
    ASSUME NEW ids \in Seq(ChunkId), NEW S,
           \A c \in S : \E i \in DOMAIN ids : ids[i] = c
    PROVE  IsFiniteSet(S) /\ Cardinality(S) \in Nat
<1> DEFINE R == {ids[i] : i \in 1..Len(ids)}
           f == [i \in 1..Len(ids) |-> ids[i]]
<1>1. DOMAIN ids = 1..Len(ids) /\ Len(ids) \in Nat
    OBVIOUS
<1>2. IsFiniteSet(1..Len(ids))
    BY <1>1, FS_Interval
<1>3. f \in Surjection(1..Len(ids), R)
    BY DEF Surjection
<1>4. IsFiniteSet(R)
    BY <1>2, <1>3, FS_Surjection
<1>5. S \in SUBSET R
    BY <1>1
<1> QED
    BY <1>4, <1>5, FS_Subset, FS_CardinalityType

\* A chunk that occurs in a manifest has a first occurrence.
LEMMA FirstAtType ==
    ASSUME NEW ids \in Seq(ChunkId), NEW c, NEW i \in DOMAIN ids, ids[i] = c
    PROVE  FirstAt(ids, c) \in DOMAIN ids /\ ids[FirstAt(ids, c)] = c
<1> DEFINE P == {j \in DOMAIN ids : ids[j] = c}
           T == {1..j : j \in P}
<1>1. P \in SUBSET Nat /\ DOMAIN ids = 1..Len(ids) /\ Len(ids) \in Nat
    OBVIOUS
<1>2. T \subseteq FiniteSubsetsOf(Nat) /\ T # {}
  <2>1. \A j \in P : IsFiniteSet(1..j)
      BY <1>1, FS_Interval
  <2>2. \A j \in P : 1..j \in SUBSET Nat
      BY <1>1
  <2> QED
      BY <1>1, <2>1, <2>2 DEF FiniteSubsetsOf
<1>3. IsWellFoundedOn(StrictSubsetOrdering(Nat), FiniteSubsetsOf(Nat))
    BY FS_StrictSubsetOrderingWellFounded
<1>4. \E t \in T : \A u \in T : ~ (<<u, t>> \in StrictSubsetOrdering(Nat))
  <2> HIDE DEF T
  <2> QED
      BY <1>2, <1>3, WFMin
<1>5. PICK m \in P : \A j \in P : <<1..j, 1..m>> \notin StrictSubsetOrdering(Nat)
    BY <1>4
<1>6. \A j \in P : ~(j < m)
  <2> SUFFICES ASSUME NEW j \in P, j < m PROVE FALSE
      OBVIOUS
  <2>1. j \in Nat /\ m \in Nat /\ m >= 1
      BY <1>1
  <2>2. m \in 1..m /\ m \notin 1..j /\ 1..j \in SUBSET Nat /\ 1..m \in SUBSET Nat
      BY <2>1
  <2>3. \A x \in 1..j : x \in 1..m
      BY <2>1
  <2> QED
      BY <1>5, <2>2, <2>3 DEF StrictSubsetOrdering
<1>7. \A j \in DOMAIN ids : ids[j] = c => m <= j
    BY <1>1, <1>6
<1> QED
    BY <1>7 DEF FirstAt

\* The places a manifest gives chunk c at key (n, k).
Places(n, k, ids, c) == {<<n, k, i>> : i \in {j \in DOMAIN ids : ids[j] = c}}

\* There are as many of them as occurrences.
LEMMA PlacesCount ==
    ASSUME NEW n, NEW k, NEW ids \in Seq(ChunkId), NEW c
    PROVE  IsFiniteSet(Places(n, k, ids, c)) /\ Cardinality(Places(n, k, ids, c)) = Count(ids, c)
<1> DEFINE P == {i \in DOMAIN ids : ids[i] = c}
           T == {<<n, k, i>> : i \in P}
           f == [i \in P |-> <<n, k, i>>]
<1>1. IsFiniteSet(P)
    BY CountType
<1>2. f \in Bijection(P, T)
  <2>1. f \in [P -> T]
      OBVIOUS
  <2>2. \A i, j \in P : f[i] = f[j] => i = j
      OBVIOUS
  <2>3. \A t \in T : \E i \in P : f[i] = t
      OBVIOUS
  <2> QED
      BY <2>1, <2>2, <2>3 DEF Bijection, Injection, Surjection, IsInjective
<1>3. ExistsBijection(P, T)
    BY <1>2 DEF ExistsBijection
<1>4. IsFiniteSet(T) /\ Cardinality(T) = Cardinality(P)
    BY <1>1, <1>3, FS_Bijection
<1> QED
    BY <1>4 DEF Places, Count

-----------------------------------------------------------------------------
(* Chunk records                                                           *)

ChunkRecords == [ChunkId -> ChunkEntry \cup {None}]

\* Giving up the references of a manifest lowers each counter by at most its
\* occurrences, and drops, moves or transfers no record.
LEMMA ReleaseHeld ==
    ASSUME NEW ch \in ChunkRecords, NEW ids \in Seq(ChunkId)
    PROVE  /\ Release(ch, ids) \in ChunkRecords
           /\ \A c \in ChunkId :
                /\ ChunkHeld(Release(ch, ids), c) >= ChunkHeld(ch, c) - Count(ids, c)
                /\ ChunkHeld(Release(ch, ids), c) >= 0
                /\ ChunkHeld(Release(ch, ids), c) \in Nat
                /\ Release(ch, ids)[c] = None <=> ch[c] = None
                /\ ch[c] # None => /\ Release(ch, ids)[c].ns = ch[c].ns
                                   /\ Release(ch, ids)[c].loc = ch[c].loc
<1> SUFFICES ASSUME NEW c \in ChunkId
             PROVE  /\ Release(ch, ids)[c] \in ChunkEntry \cup {None}
                    /\ ChunkHeld(Release(ch, ids), c) >= ChunkHeld(ch, c) - Count(ids, c)
                    /\ ChunkHeld(Release(ch, ids), c) >= 0
                    /\ ChunkHeld(Release(ch, ids), c) \in Nat
                    /\ Release(ch, ids)[c] = None <=> ch[c] = None
                    /\ ch[c] # None => /\ Release(ch, ids)[c].ns = ch[c].ns
                                       /\ Release(ch, ids)[c].loc = ch[c].loc
    BY DEF Release, ChunkRecords
<1> DEFINE k == Count(ids, c)
<1>1. k \in Nat
    BY CountType
<1>2. CASE ch[c] = None
    BY <1>1, <1>2 DEF Release, ChunkHeld
<1>3. CASE ch[c] # None
  <2>1. ch[c] \in ChunkEntry
      BY <1>3 DEF ChunkRecords
  <2>2. /\ ch[c].ns \in Namespace /\ ch[c].rc \in Nat /\ ch[c].loc \in Loc
        /\ ch[c] = [ns |-> ch[c].ns, rc |-> ch[c].rc, loc |-> ch[c].loc]
      BY <2>1 DEF ChunkEntry
  <2> DEFINE r == IF ch[c].rc > k THEN ch[c].rc - k ELSE 0
  <2>3. r \in Nat /\ r >= ch[c].rc - k
      BY <1>1, <2>2
  <2>4. Release(ch, ids)[c] = [ns |-> ch[c].ns, rc |-> r, loc |-> ch[c].loc]
      BY <1>3, <2>2 DEF Release
  <2>5. Release(ch, ids)[c] \in ChunkEntry
      BY <2>2, <2>3, <2>4 DEF ChunkEntry
  <2>6. Release(ch, ids)[c] # None
      BY <2>5, NoneAssumption
  <2> HIDE DEF r, k
  <2>7. ChunkHeld(Release(ch, ids), c) = r /\ ChunkHeld(ch, c) = ch[c].rc
      BY <1>3, <2>4, <2>6 DEF ChunkHeld
  <2> QED
      BY <1>1, <1>3, <2>2, <2>3, <2>4, <2>5, <2>6, <2>7 DEF k
<1> QED
    BY <1>2, <1>3

\* Registering a manifest leaves well-formed records, whoever owned them.
LEMMA AcquireType ==
    ASSUME NEW ch \in ChunkRecords, NEW n \in Namespace, NEW ids \in Seq(ChunkId),
           NEW at \in [DOMAIN ids -> Loc]
    PROVE  Acquire(ch, n, ids, at) \in ChunkRecords
<1> SUFFICES ASSUME NEW c \in ChunkId
             PROVE  Acquire(ch, n, ids, at)[c] \in ChunkEntry \cup {None}
    BY DEF Acquire, ChunkRecords
<1> DEFINE k == Count(ids, c)
<1>1. k \in Nat /\ (k > 0 <=> \E i \in DOMAIN ids : ids[i] = c)
    BY CountType
<1>2. ch[c] # None => /\ ch[c].ns \in Namespace /\ ch[c].rc \in Nat /\ ch[c].loc \in Loc
                      /\ ch[c] = [ns |-> ch[c].ns, rc |-> ch[c].rc, loc |-> ch[c].loc]
    BY DEF ChunkRecords, ChunkEntry
<1>3. CASE k = 0
    BY <1>3 DEF Acquire, ChunkRecords
<1>4. CASE k # 0 /\ Owned(ch, n, c)
  <2>1. Acquire(ch, n, ids, at)[c] = [ns |-> ch[c].ns, rc |-> ch[c].rc + k, loc |-> ch[c].loc]
      BY <1>2, <1>4 DEF Acquire, Owned
  <2> QED
      BY <1>1, <1>2, <1>4, <2>1 DEF ChunkEntry, Owned
<1>5. CASE k # 0 /\ ~Owned(ch, n, c)
  <2>1. PICK i \in DOMAIN ids : ids[i] = c
      BY <1>1, <1>5
  <2>2. FirstAt(ids, c) \in DOMAIN ids
      BY <2>1, FirstAtType
  <2>3. Acquire(ch, n, ids, at)[c] = [ns |-> n, rc |-> k, loc |-> at[FirstAt(ids, c)]]
      BY <1>5 DEF Acquire
  <2> QED
      BY <1>1, <2>2, <2>3 DEF ChunkEntry
<1> QED
    BY <1>3, <1>4, <1>5

\* Registering a manifest raises the counter of each of its chunks by its
\* occurrences, provided no record of another namespace is in the way, and
\* leaves every other record alone.
LEMMA AcquireHeld ==
    ASSUME NEW ch \in ChunkRecords, NEW n \in Namespace, NEW ids \in Seq(ChunkId),
           NEW at \in [DOMAIN ids -> Loc],
           \A i \in DOMAIN ids : ch[ids[i]] # None => ch[ids[i]].ns = n
    PROVE  /\ Acquire(ch, n, ids, at) \in ChunkRecords
           /\ \A c \in ChunkId :
                /\ ChunkHeld(Acquire(ch, n, ids, at), c) = ChunkHeld(ch, c) + Count(ids, c)
                /\ ch[c] # None => /\ Acquire(ch, n, ids, at)[c] # None
                                   /\ Acquire(ch, n, ids, at)[c].ns = ch[c].ns
                                   /\ Acquire(ch, n, ids, at)[c].loc = ch[c].loc
                /\ ch[c] = None /\ Acquire(ch, n, ids, at)[c] # None =>
                      /\ Acquire(ch, n, ids, at)[c].ns = n
                      /\ \E i \in DOMAIN ids : ids[i] = c
<1> DEFINE new == Acquire(ch, n, ids, at)
<1> SUFFICES ASSUME NEW c \in ChunkId
             PROVE  /\ new[c] \in ChunkEntry \cup {None}
                    /\ ChunkHeld(new, c) = ChunkHeld(ch, c) + Count(ids, c)
                    /\ ch[c] # None => /\ new[c] # None
                                       /\ new[c].ns = ch[c].ns
                                       /\ new[c].loc = ch[c].loc
                    /\ ch[c] = None /\ new[c] # None =>
                          new[c].ns = n /\ \E i \in DOMAIN ids : ids[i] = c
    BY DEF Acquire, ChunkRecords
<1> DEFINE k == Count(ids, c)
<1>1. k \in Nat /\ (k > 0 <=> \E i \in DOMAIN ids : ids[i] = c)
    BY CountType
<1>2. ch[c] # None => /\ ch[c].ns \in Namespace /\ ch[c].rc \in Nat /\ ch[c].loc \in Loc
                      /\ ch[c] = [ns |-> ch[c].ns, rc |-> ch[c].rc, loc |-> ch[c].loc]
                      /\ ch[c] \in ChunkEntry
    BY DEF ChunkRecords, ChunkEntry
<1>3. CASE k = 0
  <2>1. new[c] = ch[c]
      BY <1>3 DEF Acquire
  <2>2. ChunkHeld(new, c) = ChunkHeld(ch, c) /\ ChunkHeld(ch, c) \in Nat
      BY <1>2, <2>1 DEF ChunkHeld
  <2> QED
      BY <1>2, <1>3, <2>1, <2>2
<1>4. CASE k # 0 /\ ch[c] # None
  <2>1. Owned(ch, n, c)
      BY <1>1, <1>4 DEF Owned
  <2>2. new[c] = [ns |-> ch[c].ns, rc |-> ch[c].rc + k, loc |-> ch[c].loc]
      BY <1>2, <1>4, <2>1 DEF Acquire
  <2>3. new[c] \in ChunkEntry
      BY <1>1, <1>2, <1>4, <2>2 DEF ChunkEntry
  <2>4. new[c] # None
      BY <2>3, NoneAssumption
  <2> QED
      BY <1>4, <2>2, <2>3, <2>4 DEF ChunkHeld
<1>5. CASE k # 0 /\ ch[c] = None
  <2>1. PICK i \in DOMAIN ids : ids[i] = c
      BY <1>1, <1>5
  <2>2. new[c] = [ns |-> n, rc |-> k, loc |-> at[FirstAt(ids, c)]]
      BY <1>5 DEF Acquire, Owned
  <2>3. FirstAt(ids, c) \in DOMAIN ids
      BY <2>1, FirstAtType
  <2>4. new[c] \in ChunkEntry
      BY <1>1, <2>2, <2>3 DEF ChunkEntry
  <2>5. new[c] # None
      BY <2>4, NoneAssumption
  <2> QED
      BY <1>1, <1>5, <2>1, <2>2, <2>4, <2>5 DEF ChunkHeld
<1> QED
    BY <1>3, <1>4, <1>5

-----------------------------------------------------------------------------
(* Type correctness                                                        *)

LEMMA TypeInit == IndexInit => IndexTypeOK
BY DEF IndexInit, IndexTypeOK, Stats

\* The manifest an overwrite gives up is a sequence of chunks.
LEMMA ReplacedType ==
    ASSUME IndexTypeOK, NEW n \in Namespace, NEW k \in Key, NEW b
    PROVE  Replaced(n, k, b) \in Seq(ChunkId)
<1>1. refs[n][k] # None => refs[n][k].blob \in Blob
    BY DEF IndexTypeOK, RefEntry
<1>2. \A x \in Blob : blobs[x] # None => blobs[x].ids \in Seq(ChunkId)
    BY DEF IndexTypeOK, BlobEntry
<1> QED
    BY <1>1, <1>2 DEF Replaced, IsOverwrite

\* Only finitely many chunks die or come back in one transaction.
LEMMA DiedType ==
    ASSUME NEW ch \in ChunkRecords, NEW n, NEW ids \in Seq(ChunkId)
    PROVE  Cardinality(Died(ch, ids)) \in Nat /\ Cardinality(Revived(ch, n, ids)) \in Nat
<1>1. \A c \in Died(ch, ids) : \E i \in DOMAIN ids : ids[i] = c
  <2> SUFFICES ASSUME NEW c \in Died(ch, ids) PROVE \E i \in DOMAIN ids : ids[i] = c
      OBVIOUS
  <2>1. c \in ChunkId /\ ch[c].rc \in Nat /\ 0 < ch[c].rc /\ ch[c].rc <= Count(ids, c)
      BY DEF Died, ChunkRecords, ChunkEntry
  <2>2. Count(ids, c) \in Nat /\ (Count(ids, c) > 0 <=> \E i \in DOMAIN ids : ids[i] = c)
      BY CountType
  <2> QED
      BY <2>1, <2>2
<1>2. \A c \in Revived(ch, n, ids) : \E i \in DOMAIN ids : ids[i] = c
    BY CountType DEF Revived
<1> QED
    BY <1>1, <1>2, OccurringFinite

LEMMA PutType ==
    ASSUME IndexTypeOK, NEW n \in Namespace, NEW k \in Key, NEW b \in Blob,
           NEW ids \in Seq(ChunkId), NEW at \in [DOMAIN ids -> Loc], NEW custom \in Meta,
           CommitPut(n, k, b, ids, at, custom), UNCHANGED candidates
    PROVE  IndexTypeOK'
<1> DEFINE old  == Replaced(n, k, b)
           left == Release(chunks, old)
<1>1. refs' \in [Namespace -> [Key -> RefEntry \cup {None}]]
    BY DEF CommitPut, IndexTypeOK, RefEntry
<1>2. blobs' \in [Blob -> BlobEntry \cup {None}]
  <2> SUFFICES ASSUME NEW x \in Blob
               PROVE  BlobsAfterPut(n, k, b, ids)[x] \in BlobEntry \cup {None}
      BY DEF CommitPut, BlobsAfterPut
  <2>1. blobs[x] # None => /\ blobs[x].rc \in Int /\ blobs[x].ids \in Seq(ChunkId)
                           /\ blobs[x] = [rc |-> blobs[x].rc, ids |-> blobs[x].ids]
      BY DEF IndexTypeOK, BlobEntry
  <2>2. ASSUME blobs[x] # None, NEW d \in Int
        PROVE  [rc |-> blobs[x].rc + d, ids |-> blobs[x].ids] \in BlobEntry
      BY <2>1, <2>2 DEF BlobEntry
  <2>3. CASE blobs[x] = None
      BY <2>3 DEF BlobsAfterPut, BlobEntry
  <2>4. CASE blobs[x] # None /\ x = b
    <3>1. BlobsAfterPut(n, k, b, ids)[x] = [rc |-> blobs[x].rc + 1, ids |-> blobs[x].ids]
        BY <2>1, <2>4 DEF BlobsAfterPut
    <3> QED
        BY <2>2, <2>4, <3>1
  <2>5. CASE blobs[x] # None /\ x # b
    <3>1. \/ BlobsAfterPut(n, k, b, ids)[x] = [rc |-> blobs[x].rc + (-1), ids |-> blobs[x].ids]
          \/ BlobsAfterPut(n, k, b, ids)[x] = blobs[x]
        BY <2>1, <2>5 DEF BlobsAfterPut
    <3>2. blobs[x] \in BlobEntry
        BY <2>5 DEF IndexTypeOK
    <3> QED
        BY <2>2, <2>5, <3>1, <3>2
  <2> QED
      BY <2>3, <2>4, <2>5
<1>3. old \in Seq(ChunkId) /\ chunks \in ChunkRecords
    BY ReplacedType DEF IndexTypeOK, ChunkRecords
<1>4. left \in ChunkRecords
    BY <1>3, ReleaseHeld
<1>5. chunks' \in ChunkRecords
    BY <1>4, AcquireType DEF CommitPut
<1>6. stats' \in [Namespace -> Stats]
  <2>1. Cardinality(Died(chunks, old)) \in Nat /\ Cardinality(Revived(left, n, ids)) \in Nat
      BY <1>3, <1>4, DiedType
  <2>2. Size[b] \in Nat /\ Len(ids) \in Nat
      BY SizeAssumption
  <2>3. IsOverwrite(n, k) => Size[refs[n][k].blob] \in Nat /\ refs[n][k].count \in Nat
      BY SizeAssumption DEF IndexTypeOK, IsOverwrite, RefEntry
  <2>4. stats[n].blobCount \in Int /\ stats[n].bytesStored \in Int
        /\ stats[n].chunkCount \in Int /\ stats[n].deadChunks \in Int
      BY DEF IndexTypeOK, Stats
  <2>5. StatsAfterPut(n, k, b, ids) \in Stats
    <3> DEFINE over == IsOverwrite(n, k)
               same == SameContent(n, k, b)
               died == Cardinality(Died(chunks, old))
               back == Cardinality(Revived(left, n, ids))
               s    == stats[n]
               t    == StatsAfterPut(n, k, b, ids)
    <3> HIDE DEF died, back
    <3>1. s.blobCount + (IF over THEN 0 ELSE 1) \in Int
        BY <2>4
    <3>2. s.bytesStored + (IF ~over THEN Size[b]
                           ELSE IF same THEN 0 ELSE Size[b] - Size[refs[n][k].blob]) \in Int
        BY <2>2, <2>3, <2>4
    <3>3. s.chunkCount + (IF ~over THEN Len(ids)
                          ELSE IF same THEN 0 ELSE Len(ids) - refs[n][k].count) \in Int
        BY <2>2, <2>3, <2>4
    <3>4. s.deadChunks + died - back \in Int
        BY <2>1, <2>4 DEF died, back
    <3> QED
        BY <3>1, <3>2, <3>3, <3>4 DEF StatsAfterPut, Stats, died, back
  <2> QED
      BY <2>5 DEF CommitPut, IndexTypeOK
<1> QED
    BY <1>1, <1>2, <1>5, <1>6 DEF IndexTypeOK, ChunkRecords

LEMMA DeleteType ==
    ASSUME IndexTypeOK, NEW n \in Namespace, NEW k \in Key,
           CommitDelete(n, k), UNCHANGED candidates
    PROVE  IndexTypeOK'
<1> DEFINE r   == refs[n][k]
           ids == DeletedIds(n, k)
<1>1. r.blob \in Blob /\ r.count \in Nat
    BY DEF CommitDelete, IndexTypeOK, RefEntry
<1>2. \A x \in Blob : blobs[x] # None =>
        /\ blobs[x].rc \in Int /\ blobs[x].ids \in Seq(ChunkId)
        /\ blobs[x] = [rc |-> blobs[x].rc, ids |-> blobs[x].ids]
    BY DEF IndexTypeOK, BlobEntry
<1>3. ids \in Seq(ChunkId) /\ chunks \in ChunkRecords
    BY <1>1, <1>2 DEF IndexTypeOK, ChunkRecords, DeletedIds
<1>4. refs' \in [Namespace -> [Key -> RefEntry \cup {None}]]
    BY DEF CommitDelete, IndexTypeOK
<1>5. blobs' \in [Blob -> BlobEntry \cup {None}]
  <2> SUFFICES ASSUME NEW x \in Blob
               PROVE  BlobsAfterDelete(n, k)[x] \in BlobEntry \cup {None}
      BY DEF CommitDelete, BlobsAfterDelete
  <2>1. CASE r.blob = x /\ blobs[x] # None
    <3>1. /\ blobs[x].rc \in Int /\ blobs[x].ids \in Seq(ChunkId)
          /\ blobs[x] = [rc |-> blobs[x].rc, ids |-> blobs[x].ids]
        BY <1>2, <2>1
    <3>2. BlobsAfterDelete(n, k)[x] = [rc |-> blobs[x].rc - 1, ids |-> blobs[x].ids]
        BY <2>1, <3>1 DEF BlobsAfterDelete
    <3> QED
        BY <3>1, <3>2 DEF BlobEntry
  <2>2. CASE ~(r.blob = x /\ blobs[x] # None)
      BY <2>2 DEF BlobsAfterDelete, IndexTypeOK
  <2> QED
      BY <2>1, <2>2
<1>6. chunks' \in ChunkRecords
    BY <1>3, ReleaseHeld DEF CommitDelete
<1>7. stats' \in [Namespace -> Stats]
  <2>1. Cardinality(Died(chunks, ids)) \in Nat
      BY <1>3, DiedType
  <2>2. Size[r.blob] \in Nat
      BY <1>1, SizeAssumption
  <2>3. stats[n].blobCount \in Int /\ stats[n].bytesStored \in Int
        /\ stats[n].chunkCount \in Int /\ stats[n].deadChunks \in Int
      BY DEF IndexTypeOK, Stats
  <2>4. StatsAfterDelete(n, k) \in Stats
      BY <1>1, <2>1, <2>2, <2>3 DEF StatsAfterDelete, Stats
  <2> QED
      BY <2>4 DEF CommitDelete, IndexTypeOK
<1> QED
    BY <1>4, <1>5, <1>6, <1>7 DEF IndexTypeOK, ChunkRecords

\* Each step of the index keeps the types.
LEMMA TypeStep == IndexTypeOK /\ [IndexNext]_ixVars => IndexTypeOK'
<1> SUFFICES ASSUME IndexTypeOK, [IndexNext]_ixVars PROVE IndexTypeOK'
    OBVIOUS
<1>1. ASSUME NEW n \in Namespace, NEW k \in Key, NEW b \in Content[n], Put(n, k, b)
      PROVE  IndexTypeOK'
  <2>1. b \in Blob
      BY ContentAssumption
  <2>2. PICK ids \in Manifests[b], custom \in Meta :
              \E at \in FreshPages(ids) : CommitPut(n, k, b, ids, at, custom)
      BY <1>1 DEF Put
  <2>3. PICK at \in FreshPages(ids) : CommitPut(n, k, b, ids, at, custom)
      BY <2>2
  <2>4. ids \in Seq(ChunkId) /\ at \in [DOMAIN ids -> Loc]
      BY <2>1, ManifestAssumption DEF FreshPages
  <2> QED
      BY <1>1, <2>1, <2>3, <2>4, PutType DEF Put
<1>2. ASSUME NEW n \in Namespace, NEW k \in Key, CommitDelete(n, k), UNCHANGED candidates
      PROVE  IndexTypeOK'
    BY <1>2, DeleteType
<1>3. ASSUME NEW n \in Namespace, NEW old \in Key, NEW new \in Key,
             CommitRenameRef(n, old, new), UNCHANGED candidates
      PROVE  IndexTypeOK'
    BY <1>3 DEF CommitRenameRef, IndexTypeOK
<1>4. ASSUME NEW n \in Namespace, NEW k \in Key, NEW custom \in Meta,
             CommitUpdateRefMetadata(n, k, custom), UNCHANGED candidates
      PROVE  IndexTypeOK'
  <2>1. refs[n][k] = [blob |-> refs[n][k].blob, count |-> refs[n][k].count,
                      custom |-> refs[n][k].custom]
        /\ refs[n][k].blob \in Blob /\ refs[n][k].count \in Nat
      BY <1>4 DEF CommitUpdateRefMetadata, IndexTypeOK, RefEntry
  <2> QED
      BY <1>4, <2>1 DEF CommitUpdateRefMetadata, IndexTypeOK, RefEntry
<1>5. ASSUME NEW c \in ChunkId, NEW l \in Loc, ReapPhysicalPageIfDead(c, l), UNCHANGED candidates
      PROVE  IndexTypeOK'
    BY <1>5 DEF ReapPhysicalPageIfDead, IndexTypeOK
<1>6. ASSUME NEW n \in Namespace, NEW pages \in 1..Cardinality(ChunkId),
             ReconcileDeadStats(n, pages), UNCHANGED candidates
      PROVE  IndexTypeOK'
  <2>1. pages \in Int
      OBVIOUS
  <2>2. stats[n] = [blobCount |-> stats[n].blobCount, bytesStored |-> stats[n].bytesStored,
                    chunkCount |-> stats[n].chunkCount, deadChunks |-> stats[n].deadChunks]
        /\ stats[n].blobCount \in Int /\ stats[n].bytesStored \in Int
        /\ stats[n].chunkCount \in Int /\ stats[n].deadChunks \in Int
      BY DEF IndexTypeOK, Stats
  <2>3. stats' \in [Namespace -> Stats]
      BY <1>6, <2>1, <2>2 DEF ReconcileDeadStats, IndexTypeOK, Stats
  <2> QED
      BY <1>6, <2>3 DEF ReconcileDeadStats, IndexTypeOK
<1>7. CASE PurgeScan
    BY <1>7 DEF PurgeScan, IndexTypeOK
<1>8. ASSUME NEW b \in Blob, PurgeBlob(b)
      PROVE  IndexTypeOK'
    BY <1>8 DEF PurgeBlob, IndexTypeOK
<1>9. CASE UNCHANGED ixVars
    BY <1>9 DEF ixVars, IndexTypeOK
<1> QED
    BY <1>1, <1>2, <1>3, <1>4, <1>5, <1>6, <1>7, <1>8, <1>9 DEF IndexNext

\* Every record of the index stays well formed, whatever the namespaces share
\* and however the contents are cut.
THEOREM IndexTypeCorrect == IndexSpec => []IndexTypeOK
BY TypeInit, TypeStep, PTL DEF IndexSpec

-----------------------------------------------------------------------------
(* Reference counting                                                      *)

\* The part of the invariant that rests on no hypothesis: the references to a blob
\* are finite in number, and counted.
BlobInv ==
    /\ IndexTypeOK
    /\ \A b \in Blob : IsFiniteSet(RefsTo(b)) /\ Cardinality(RefsTo(b)) <= BlobHeld(b)

LEMMA InvCountsBlobs == IndexInv => BlobInv
    BY DEF IndexInv, BlobInv

\* What it says of a live reference: its manifest is recorded.
LEMMA BlobPresent ==
    ASSUME BlobInv, NEW n \in Namespace, NEW k \in Key, refs[n][k] # None
    PROVE  refs[n][k].blob \in Blob /\ blobs[refs[n][k].blob] # None
<1> DEFINE b == refs[n][k].blob
<1>1. b \in Blob
    BY DEF BlobInv, IndexTypeOK, RefEntry
<1>2. <<n, k>> \in RefsTo(b)
    BY DEF RefsTo
<1>3. IsFiniteSet(RefsTo(b)) /\ Cardinality(RefsTo(b)) <= BlobHeld(b)
    BY <1>1 DEF BlobInv
<1>4. Cardinality(RefsTo(b)) \in Nat /\ Cardinality(RefsTo(b)) # 0
    BY <1>2, <1>3, FS_CardinalityType, FS_EmptySet
<1>5. blobs[b] # None
    BY <1>3, <1>4 DEF BlobHeld
<1> QED
    BY <1>1, <1>5

LEMMA ManifestPresent ==
    ASSUME IndexInv, NEW n \in Namespace, NEW k \in Key, refs[n][k] # None
    PROVE  /\ refs[n][k].blob \in Blob
           /\ blobs[refs[n][k].blob] # None
           /\ ManifestOf(n, k) = blobs[refs[n][k].blob].ids
    BY InvCountsBlobs, BlobPresent DEF ManifestOf

\* Manifests are sequences of chunks.
LEMMA ManifestType ==
    ASSUME IndexTypeOK, NEW n \in Namespace, NEW k \in Key
    PROVE  ManifestOf(n, k) \in Seq(ChunkId)
<1>1. refs[n][k] # None => refs[n][k].blob \in Blob
    BY DEF IndexTypeOK, RefEntry
<1>2. \A x \in Blob : blobs[x] # None => blobs[x].ids \in Seq(ChunkId)
    BY DEF IndexTypeOK, BlobEntry
<1> QED
    BY <1>1, <1>2 DEF ManifestOf

\* The places of a key are counted by its manifest.
LEMMA UsesAtCount ==
    ASSUME IndexTypeOK, NEW n \in Namespace, NEW k \in Key, NEW c
    PROVE  /\ UsesAt(n, k, c) = Places(n, k, ManifestOf(n, k), c)
           /\ IsFiniteSet(UsesAt(n, k, c))
           /\ Cardinality(UsesAt(n, k, c)) = Count(ManifestOf(n, k), c)
           /\ UsesAt(n, k, c) \in SUBSET Uses(c)
<1>1. UsesAt(n, k, c) = Places(n, k, ManifestOf(n, k), c)
    BY DEF UsesAt, Places
<1>2. UsesAt(n, k, c) \in SUBSET Uses(c)
  <2>1. <<n, k>> \in Namespace \X Key
      OBVIOUS
  <2> QED
      BY <2>1 DEF Uses
<1> QED
    BY <1>1, <1>2, ManifestType, PlacesCount

\* A step that changes the manifest of one key only exchanges that key's
\* places for others.
LEMMA UsesExchange ==
    ASSUME NEW n \in Namespace, NEW k \in Key, NEW c,
           \A n2 \in Namespace, k2 \in Key : <<n2, k2>> # <<n, k>> =>
               ManifestOf(n2, k2)' = ManifestOf(n2, k2)
    PROVE  /\ Uses(c)' = (Uses(c) \ UsesAt(n, k, c)) \cup UsesAt(n, k, c)'
           /\ (Uses(c) \ UsesAt(n, k, c)) \cap UsesAt(n, k, c)' = {}
<1>1. \A n2 \in Namespace, k2 \in Key : <<n2, k2>> # <<n, k>> =>
          UsesAt(n2, k2, c)' = UsesAt(n2, k2, c)
    BY DEF UsesAt
<1>2. \A u : u \in Uses(c) <=>
          \E n2 \in Namespace, k2 \in Key : u \in UsesAt(n2, k2, c)
  <2>1. \A p \in Namespace \X Key : p[1] \in Namespace /\ p[2] \in Key /\ p = <<p[1], p[2]>>
      OBVIOUS
  <2>2. \A n2 \in Namespace, k2 \in Key : UsesAt(n2, k2, c) \subseteq Uses(c)
    <3> SUFFICES ASSUME NEW n2 \in Namespace, NEW k2 \in Key
                 PROVE  UsesAt(n2, k2, c) \subseteq Uses(c)
        OBVIOUS
    <3>1. <<n2, k2>> \in Namespace \X Key
        OBVIOUS
    <3> QED
        BY <3>1 DEF Uses
  <2> QED
      BY <2>1, <2>2 DEF Uses
<1>3. \A u : u \in Uses(c)' <=>
          \E n2 \in Namespace, k2 \in Key : u \in UsesAt(n2, k2, c)'
  <2>1. \A p \in Namespace \X Key : p[1] \in Namespace /\ p[2] \in Key /\ p = <<p[1], p[2]>>
      OBVIOUS
  <2>2. \A n2 \in Namespace, k2 \in Key : UsesAt(n2, k2, c)' \subseteq Uses(c)'
    <3> SUFFICES ASSUME NEW n2 \in Namespace, NEW k2 \in Key
                 PROVE  UsesAt(n2, k2, c)' \subseteq Uses(c)'
        OBVIOUS
    <3>1. <<n2, k2>> \in Namespace \X Key
        OBVIOUS
    <3> QED
        BY <3>1 DEF Uses
  <2> QED
      BY <2>1, <2>2 DEF Uses
<1>4. \A n2, k2, u : u \in UsesAt(n2, k2, c) => u[1] = n2 /\ u[2] = k2
    BY DEF UsesAt
<1>5. \A u : u \in UsesAt(n, k, c)' => u[1] = n /\ u[2] = k
    BY DEF UsesAt
<1>6. \A n2, k2 : <<n2, k2>> = <<n, k>> <=> n2 = n /\ k2 = k
    OBVIOUS
<1>7. ASSUME NEW u
      PROVE  u \in Uses(c)' <=> \/ u \in Uses(c) /\ u \notin UsesAt(n, k, c)
                                \/ u \in UsesAt(n, k, c)'
  <2>1. CASE u \in UsesAt(n, k, c)'
      BY <1>3, <2>1
  <2>2. CASE u \notin UsesAt(n, k, c)'
    <3>1. ASSUME u \in Uses(c)'
          PROVE  u \in Uses(c) /\ u \notin UsesAt(n, k, c)
      <4>1. PICK n2 \in Namespace, k2 \in Key : u \in UsesAt(n2, k2, c)'
          BY <1>3, <3>1
      <4>2. <<n2, k2>> # <<n, k>>
          BY <2>2, <4>1
      <4>3. u \in UsesAt(n2, k2, c)
          BY <1>1, <4>1, <4>2
      <4> QED
          BY <1>2, <1>4, <1>6, <4>2, <4>3
    <3>2. ASSUME u \in Uses(c), u \notin UsesAt(n, k, c)
          PROVE  u \in Uses(c)'
      <4>1. PICK n2 \in Namespace, k2 \in Key : u \in UsesAt(n2, k2, c)
          BY <1>2, <3>2
      <4>2. <<n2, k2>> # <<n, k>>
          BY <3>2, <4>1
      <4>3. u \in UsesAt(n2, k2, c)'
          BY <1>1, <4>1, <4>2
      <4> QED
          BY <1>3, <4>3
    <3> QED
        BY <2>2, <3>1, <3>2
  <2> QED
      BY <2>1, <2>2
<1>8. Uses(c)' = (Uses(c) \ UsesAt(n, k, c)) \cup UsesAt(n, k, c)'
    BY <1>7
<1>9. (Uses(c) \ UsesAt(n, k, c)) \cap UsesAt(n, k, c)' = {}
  <2> SUFFICES ASSUME NEW u \in Uses(c), u \notin UsesAt(n, k, c), u \in UsesAt(n, k, c)'
               PROVE  FALSE
      OBVIOUS
  <2>1. PICK n2 \in Namespace, k2 \in Key : u \in UsesAt(n2, k2, c)
      BY <1>2
  <2> QED
      BY <1>4, <1>5, <2>1
<1> QED
    BY <1>8, <1>9

\* The chunk part of the invariant, for a step that changes the manifest of
\* one key and lowers a counter by no more than the places that go.
LEMMA ChunkCountStep ==
    ASSUME IndexInv, NEW n \in Namespace, NEW k \in Key, NEW c \in ChunkId,
           \A n2 \in Namespace, k2 \in Key : <<n2, k2>> # <<n, k>> =>
               ManifestOf(n2, k2)' = ManifestOf(n2, k2),
           ManifestOf(n, k)' \in Seq(ChunkId),
           ChunkHeld(chunks', c) \in Nat,
           ChunkHeld(chunks', c) >=
               ChunkHeld(chunks, c) - Count(ManifestOf(n, k), c) + Count(ManifestOf(n, k)', c)
    PROVE  IsFiniteSet(Uses(c)') /\ Cardinality(Uses(c)') <= ChunkHeld(chunks', c)
<1> DEFINE U == Uses(c)
           A == UsesAt(n, k, c)
           B == UsesAt(n, k, c)'
<1>1. /\ IsFiniteSet(U) /\ Cardinality(U) <= ChunkHeld(chunks, c)
      /\ IndexTypeOK
    BY DEF IndexInv
<1>2. /\ A \in SUBSET U
      /\ Cardinality(A) = Count(ManifestOf(n, k), c)
    BY <1>1, UsesAtCount
<1>3. B = Places(n, k, ManifestOf(n, k)', c)
    BY DEF UsesAt, Places
<1>4. IsFiniteSet(B) /\ Cardinality(B) = Count(ManifestOf(n, k)', c)
    BY <1>3, PlacesCount
<1>5. Uses(c)' = (U \ A) \cup B /\ (U \ A) \cap B = {}
    BY UsesExchange
<1>6. /\ IsFiniteSet((U \ A) \cup B)
      /\ Cardinality((U \ A) \cup B) = Cardinality(U) - Cardinality(A) + Cardinality(B)
      /\ Cardinality(A) \in Nat /\ Cardinality(B) \in Nat /\ Cardinality(U) \in Nat
    BY <1>1, <1>2, <1>4, <1>5, Exchange
<1>7. ChunkHeld(chunks, c) \in Nat
    BY <1>1 DEF IndexTypeOK, ChunkHeld, ChunkEntry
<1> HIDE DEF U, A, B
<1>8. Cardinality((U \ A) \cup B) <= ChunkHeld(chunks', c)
    BY <1>1, <1>2, <1>4, <1>6, <1>7
<1> QED
    BY <1>5, <1>6, <1>8

\* Under the two hypotheses a put finds no foreign record in its way, and ends
\* with exactly the manifest it was given.
LEMMA PutManifests ==
    ASSUME OneManifest, IndexInv, NEW n \in Namespace, NEW k \in Key, NEW b \in Content[n],
           NEW ids \in Manifests[b], NEW at \in [DOMAIN ids -> Loc], NEW custom \in Meta,
           CommitPut(n, k, b, ids, at, custom)
    PROVE  /\ ManifestOf(n, k)' = ids
           /\ \A n2 \in Namespace, k2 \in Key : <<n2, k2>> # <<n, k>> =>
                  ManifestOf(n2, k2)' = ManifestOf(n2, k2)
           /\ \A x \in Blob : blobs'[x] # None => blobs'[x].ids \in Manifests[x]
<1>1. IndexTypeOK /\ b \in Blob
    BY ContentAssumption DEF IndexInv
<1>2. \A n2 \in Namespace, k2 \in Key :
          refs'[n2][k2] = IF n2 = n /\ k2 = k
                          THEN [blob |-> b, count |-> Len(ids), custom |-> custom]
                          ELSE refs[n2][k2]
    BY <1>1 DEF CommitPut, IndexTypeOK
<1>3. \A x \in Blob : blobs[x] # None =>
          /\ blobs[x] = [rc |-> blobs[x].rc, ids |-> blobs[x].ids]
          /\ blobs[x].rc \in Int /\ blobs[x].ids \in Seq(ChunkId)
    BY <1>1 DEF IndexTypeOK, BlobEntry
<1>4. ASSUME NEW x \in Blob
      PROVE  /\ blobs[x] # None => blobs'[x] # None /\ blobs'[x].ids = blobs[x].ids
             /\ blobs[x] = None /\ x # b => blobs'[x] = None
             /\ blobs[x] = None /\ x = b => blobs'[x] # None /\ blobs'[x].ids = ids
  <2>1. blobs'[x] = BlobsAfterPut(n, k, b, ids)[x]
      BY DEF CommitPut
  <2>2. CASE blobs[x] = None
    <3>1. x = b => blobs'[x] = [rc |-> 1, ids |-> ids]
        BY <2>1, <2>2 DEF BlobsAfterPut
    <3>2. x # b => blobs'[x] = None
        BY <2>1, <2>2 DEF BlobsAfterPut
    <3>3. [rc |-> 1, ids |-> ids] \in BlobEntry
        BY <1>1, ManifestAssumption DEF BlobEntry
    <3> QED
        BY <2>2, <3>1, <3>2, <3>3, NoneAssumption
  <2>3. CASE blobs[x] # None
    <3>1. /\ blobs[x] = [rc |-> blobs[x].rc, ids |-> blobs[x].ids]
          /\ blobs[x].rc \in Int /\ blobs[x].ids \in Seq(ChunkId)
        BY <1>3, <2>3
    <3>2. \E r \in Int : blobs'[x] = [rc |-> r, ids |-> blobs[x].ids]
      <4>1. \/ blobs'[x] = [rc |-> blobs[x].rc + 1, ids |-> blobs[x].ids]
            \/ blobs'[x] = [rc |-> blobs[x].rc - 1, ids |-> blobs[x].ids]
            \/ blobs'[x] = [rc |-> blobs[x].rc, ids |-> blobs[x].ids]
          BY <2>1, <2>3, <3>1 DEF BlobsAfterPut
      <4> QED
          BY <3>1, <4>1
    <3>3. blobs'[x] \in BlobEntry
        BY <3>1, <3>2 DEF BlobEntry
    <3> QED
        BY <2>3, <3>2, <3>3, NoneAssumption
  <2> QED
      BY <2>2, <2>3
<1>5. \A x \in Blob : blobs'[x] # None => blobs'[x].ids \in Manifests[x]
    BY <1>4 DEF IndexInv
<1>6. ManifestOf(n, k)' = ids
  <2>1. refs'[n][k] = [blob |-> b, count |-> Len(ids), custom |-> custom]
      BY <1>2
  <2>2. refs'[n][k] # None
    <3>1. Len(ids) \in Nat
        BY <1>1, ManifestAssumption
    <3>2. refs'[n][k] \in RefEntry
        BY <1>1, <2>1, <3>1 DEF RefEntry
    <3> QED
        BY <3>2, NoneAssumption
  <2>3. blobs'[b] # None /\ blobs'[b].ids = ids
    <3>1. blobs'[b] # None
        BY <1>1, <1>4
    <3>2. blobs'[b].ids \in Manifests[b]
        BY <1>1, <1>5, <3>1
    <3> QED
        BY <1>1, <3>1, <3>2 DEF OneManifest
  <2> QED
      BY <2>1, <2>2, <2>3 DEF ManifestOf
<1>7. ASSUME NEW n2 \in Namespace, NEW k2 \in Key, <<n2, k2>> # <<n, k>>
      PROVE  ManifestOf(n2, k2)' = ManifestOf(n2, k2)
  <2>1. refs'[n2][k2] = refs[n2][k2]
      BY <1>2, <1>7
  <2>2. CASE refs[n2][k2] = None
      BY <2>1, <2>2 DEF ManifestOf
  <2>3. CASE refs[n2][k2] # None
    <3>1. /\ refs[n2][k2].blob \in Blob
          /\ blobs[refs[n2][k2].blob] # None
          /\ ManifestOf(n2, k2) = blobs[refs[n2][k2].blob].ids
        BY <2>3, ManifestPresent
    <3>2. /\ blobs'[refs[n2][k2].blob] # None
          /\ blobs'[refs[n2][k2].blob].ids = blobs[refs[n2][k2].blob].ids
        BY <1>4, <3>1
    <3> QED
        BY <2>1, <2>3, <3>1, <3>2 DEF ManifestOf
  <2> QED
      BY <2>2, <2>3
<1> QED
    BY <1>5, <1>6, <1>7

\* The chunk records a put leaves.
LEMMA PutChunks ==
    ASSUME OneManifest, NoSharedContent, IndexInv,
           NEW n \in Namespace, NEW k \in Key, NEW b \in Content[n],
           NEW ids \in Manifests[b], NEW at \in [DOMAIN ids -> Loc], NEW custom \in Meta,
           CommitPut(n, k, b, ids, at, custom), NEW c \in ChunkId
    PROVE  /\ IsFiniteSet(Uses(c)') /\ Cardinality(Uses(c)') <= ChunkHeld(chunks', c)
           /\ chunks[c] # None => /\ chunks'[c] # None
                                  /\ chunks'[c].ns = chunks[c].ns
                                  /\ chunks'[c].loc = chunks[c].loc
           /\ chunks'[c] # None =>
                \E b2 \in Content[chunks'[c].ns] : \E ids2 \in Manifests[b2] :
                   \E i \in DOMAIN ids2 : ids2[i] = c
<1> DEFINE old  == Replaced(n, k, b)
           left == Release(chunks, old)
           M    == ManifestOf(n, k)
<1>1. /\ IndexTypeOK /\ b \in Blob /\ ids \in Seq(ChunkId)
      /\ chunks \in ChunkRecords /\ old \in Seq(ChunkId) /\ M \in Seq(ChunkId)
  <2>1. IndexTypeOK /\ b \in Blob /\ ids \in Seq(ChunkId)
      BY ContentAssumption, ManifestAssumption DEF IndexInv
  <2> QED
      BY <2>1, ReplacedType, ManifestType DEF IndexTypeOK, ChunkRecords
<1>2. left \in ChunkRecords
      /\ \A x \in ChunkId : /\ left[x] = None <=> chunks[x] = None
                            /\ chunks[x] # None => /\ left[x].ns = chunks[x].ns
                                                   /\ left[x].loc = chunks[x].loc
    BY <1>1, ReleaseHeld
<1>3. ASSUME NEW i \in DOMAIN ids, left[ids[i]] # None
      PROVE  left[ids[i]].ns = n
  <2> DEFINE x == ids[i]
  <2>1. x \in ChunkId
      BY <1>1
  <2>2. chunks[x] # None /\ left[x].ns = chunks[x].ns /\ chunks[x].ns \in Namespace
      BY <1>1, <1>2, <1>3, <2>1 DEF ChunkRecords, ChunkEntry
  <2>3. PICK b2 \in Content[chunks[x].ns] : \E ids2 \in Manifests[b2] :
            \E j \in DOMAIN ids2 : ids2[j] = x
      BY <2>1, <2>2 DEF IndexInv
  <2>4. PICK ids2 \in Manifests[b2] : \E j \in DOMAIN ids2 : ids2[j] = x
      BY <2>3
  <2> QED
      BY <2>2, <2>4 DEF NoSharedContent
<1>4. chunks' = Acquire(left, n, ids, at)
    BY DEF CommitPut
<1>5. /\ chunks' \in ChunkRecords
      /\ ChunkHeld(chunks', c) = ChunkHeld(left, c) + Count(ids, c)
      /\ left[c] # None => /\ chunks'[c] # None
                           /\ chunks'[c].ns = left[c].ns
                           /\ chunks'[c].loc = left[c].loc
      /\ left[c] = None /\ chunks'[c] # None =>
            chunks'[c].ns = n /\ \E i \in DOMAIN ids : ids[i] = c
    BY <1>1, <1>2, <1>3, <1>4, AcquireHeld
<1>6. Count(old, c) <= Count(M, c) /\ Count(M, c) \in Nat /\ Count(old, c) \in Nat
      /\ Count(ids, c) \in Nat
  <2>1. old = << >> \/ old = M
      BY DEF Replaced, ManifestOf, IsOverwrite
  <2>2. Count(M, c) \in Nat /\ Count(old, c) \in Nat /\ Count(ids, c) \in Nat
      BY <1>1, CountType
  <2>3. Count(<< >>, c) = 0
      BY CountEmpty
  <2> HIDE DEF old, M
  <2> QED
      BY <2>1, <2>2, <2>3
<1>7. /\ ChunkHeld(left, c) >= ChunkHeld(chunks, c) - Count(old, c)
      /\ ChunkHeld(left, c) \in Nat
    BY <1>1, ReleaseHeld
<1>8. ChunkHeld(chunks, c) \in Nat
    BY <1>1 DEF IndexTypeOK, ChunkHeld, ChunkEntry
<1>9. /\ ManifestOf(n, k)' = ids
      /\ \A n2 \in Namespace, k2 \in Key : <<n2, k2>> # <<n, k>> =>
             ManifestOf(n2, k2)' = ManifestOf(n2, k2)
    BY PutManifests
<1>10. /\ ChunkHeld(chunks', c) \in Nat
       /\ ChunkHeld(chunks', c) >= ChunkHeld(chunks, c) - Count(M, c) + Count(ManifestOf(n, k)', c)
  <2> HIDE DEF old, M, left
  <2> QED
      BY <1>5, <1>6, <1>7, <1>8, <1>9
<1>11. IsFiniteSet(Uses(c)') /\ Cardinality(Uses(c)') <= ChunkHeld(chunks', c)
    BY <1>1, <1>9, <1>10, ChunkCountStep
<1>12. chunks[c] # None => /\ chunks'[c] # None
                           /\ chunks'[c].ns = chunks[c].ns
                           /\ chunks'[c].loc = chunks[c].loc
    BY <1>2, <1>5
<1>13. chunks'[c] # None =>
         \E b2 \in Content[chunks'[c].ns] : \E ids2 \in Manifests[b2] :
            \E i \in DOMAIN ids2 : ids2[i] = c
  <2>1. CASE chunks[c] # None
      BY <1>12, <2>1 DEF IndexInv
  <2>2. CASE chunks[c] = None
      BY <1>2, <1>5, <2>2
  <2> QED
      BY <2>1, <2>2
<1> QED
    BY <1>11, <1>12, <1>13

\* The blob records a put leaves.
LEMMA PutBlobs ==
    ASSUME BlobInv, NEW n \in Namespace, NEW k \in Key, NEW b \in Blob,
           NEW ids \in Seq(ChunkId), NEW at, NEW custom \in Meta,
           CommitPut(n, k, b, ids, at, custom), NEW x \in Blob
    PROVE  IsFiniteSet(RefsTo(x)') /\ Cardinality(RefsTo(x)') <= BlobHeld(x)'
<1>1. /\ IsFiniteSet(RefsTo(x)) /\ Cardinality(RefsTo(x)) <= BlobHeld(x)
      /\ Cardinality(RefsTo(x)) \in Nat /\ IndexTypeOK
    BY FS_CardinalityType DEF BlobInv
<1>2. refs' = [refs EXCEPT ![n][k] = [blob |-> b, count |-> Len(ids), custom |-> custom]]
      /\ blobs'[x] = BlobsAfterPut(n, k, b, ids)[x]
    BY DEF CommitPut
<1>3. \A n2 \in Namespace, k2 \in Key :
          refs'[n2][k2] = IF n2 = n /\ k2 = k
                          THEN [blob |-> b, count |-> Len(ids), custom |-> custom]
                          ELSE refs[n2][k2]
    BY <1>1, <1>2 DEF IndexTypeOK
<1>4. refs'[n][k] # None /\ refs'[n][k].blob = b
  <2>1. [blob |-> b, count |-> Len(ids), custom |-> custom] \in RefEntry
      BY DEF RefEntry
  <2> QED
      BY <1>3, <2>1, NoneAssumption
<1>5. blobs[x] # None => /\ blobs[x] = [rc |-> blobs[x].rc, ids |-> blobs[x].ids]
                         /\ blobs[x].rc \in Int /\ blobs[x].ids \in Seq(ChunkId)
    BY <1>1 DEF IndexTypeOK, BlobEntry
<1>6. \A r \in Int, s \in Seq(ChunkId) : [rc |-> r, ids |-> s] # None
    BY NoneAssumption DEF BlobEntry
<1>7. CASE x = b
  <2>1. RefsTo(x)' = RefsTo(x) \cup {<<n, k>>}
      BY <1>3, <1>4, <1>7 DEF RefsTo
  <2>2. IsFiniteSet(RefsTo(x)') /\ Cardinality(RefsTo(x)') <= Cardinality(RefsTo(x)) + 1
    <3>1. /\ IsFiniteSet(RefsTo(x) \cup {<<n, k>>})
          /\ Cardinality(RefsTo(x) \cup {<<n, k>>}) <= Cardinality(RefsTo(x)) + 1
      <4> DEFINE R == RefsTo(x)
                 T == R \cup {<<n, k>>}
      <4> HIDE DEF R
      <4>1. IsFiniteSet(T)
            /\ Cardinality(T) = IF <<n, k>> \in R THEN Cardinality(R) ELSE Cardinality(R) + 1
          BY <1>1, FS_AddElement DEF R
      <4>2. Cardinality(R) \in Nat
          BY <1>1 DEF R
      <4> HIDE DEF T
      <4>3. Cardinality(T) <= Cardinality(R) + 1
          BY <4>1, <4>2
      <4> QED
          BY <4>1, <4>3 DEF R, T
    <3> QED
        BY <2>1, <3>1, Zenon
  <2>3. BlobHeld(x)' = BlobHeld(x) + 1
    <3>1. CASE blobs[x] = None
      <4>1. blobs'[x] = [rc |-> 1, ids |-> ids]
          BY <1>2, <1>7, <3>1 DEF BlobsAfterPut
      <4>2. blobs'[x] # None /\ blobs'[x].rc = 1
          BY <1>6, <4>1
      <4> QED
          BY <3>1, <4>2 DEF BlobHeld
    <3>2. CASE blobs[x] # None
      <4>1. blobs'[x] = [rc |-> blobs[x].rc + 1, ids |-> blobs[x].ids]
          BY <1>2, <1>5, <1>7, <3>2 DEF BlobsAfterPut
      <4>2. blobs'[x] # None /\ blobs'[x].rc = blobs[x].rc + 1
          BY <1>5, <1>6, <3>2, <4>1
      <4> QED
          BY <3>2, <4>2 DEF BlobHeld
    <3> QED
        BY <3>1, <3>2
  <2>4. BlobHeld(x) \in Int
      BY <1>5 DEF BlobHeld
  <2>5. Cardinality(RefsTo(x)') \in Nat
      BY <2>2, FS_CardinalityType
  <2> QED
      BY <1>1, <2>2, <2>3, <2>4, <2>5
<1>8. CASE x # b /\ refs[n][k] # None /\ refs[n][k].blob = x
  <2>1. RefsTo(x)' = RefsTo(x) \ {<<n, k>>}
      BY <1>3, <1>4, <1>8 DEF RefsTo
  <2>2. <<n, k>> \in RefsTo(x)
      BY <1>8 DEF RefsTo
  <2>3. IsFiniteSet(RefsTo(x)') /\ Cardinality(RefsTo(x)') = Cardinality(RefsTo(x)) - 1
    <3>1. /\ IsFiniteSet(RefsTo(x) \ {<<n, k>>})
          /\ Cardinality(RefsTo(x) \ {<<n, k>>}) = Cardinality(RefsTo(x)) - 1
        BY <1>1, <2>2, FS_RemoveElement
    <3> QED
        BY <2>1, <3>1, Zenon
  <2>4. blobs[x] # None
      BY <1>8, BlobPresent
  <2>5. blobs'[x] = [rc |-> blobs[x].rc - 1, ids |-> blobs[x].ids]
      BY <1>2, <1>5, <1>8, <2>4 DEF BlobsAfterPut, IsOverwrite
  <2>6. blobs'[x] # None /\ blobs'[x].rc = blobs[x].rc - 1
      BY <1>5, <1>6, <2>4, <2>5
  <2>7. BlobHeld(x)' = BlobHeld(x) - 1 /\ BlobHeld(x) \in Int
      BY <1>5, <2>4, <2>6 DEF BlobHeld
  <2> QED
      BY <1>1, <2>3, <2>7
<1>9. CASE x # b /\ ~(refs[n][k] # None /\ refs[n][k].blob = x)
  <2>1. RefsTo(x)' = RefsTo(x)
      BY <1>3, <1>4, <1>9 DEF RefsTo
  <2>2. blobs'[x] = blobs[x]
      BY <1>2, <1>9 DEF BlobsAfterPut, IsOverwrite
  <2> QED
      BY <1>1, <2>1, <2>2 DEF BlobHeld
<1> QED
    BY <1>7, <1>8, <1>9

\* A put keeps the invariant.
LEMMA PutInv ==
    ASSUME OneManifest, NoSharedContent, IndexInv,
           NEW n \in Namespace, NEW k \in Key, NEW b \in Content[n],
           NEW ids \in Manifests[b], NEW at \in [DOMAIN ids -> Loc], NEW custom \in Meta,
           CommitPut(n, k, b, ids, at, custom), UNCHANGED candidates
    PROVE  IndexInv'
<1>1. IndexTypeOK /\ b \in Blob /\ ids \in Seq(ChunkId)
    BY ContentAssumption, ManifestAssumption DEF IndexInv
<1>2. IndexTypeOK'
    BY <1>1, PutType
<1>3. \A x \in Blob : IsFiniteSet(RefsTo(x)') /\ Cardinality(RefsTo(x)') <= BlobHeld(x)'
    BY <1>1, PutBlobs, InvCountsBlobs
<1>4. \A x \in Blob : blobs'[x] # None => blobs'[x].ids \in Manifests[x]
    BY PutManifests
<1>5. \A c \in ChunkId :
         /\ IsFiniteSet(Uses(c)') /\ Cardinality(Uses(c)') <= ChunkHeld(chunks', c)
         /\ chunks'[c] # None =>
              \E b2 \in Content[chunks'[c].ns] : \E ids2 \in Manifests[b2] :
                 \E i \in DOMAIN ids2 : ids2[i] = c
    BY PutChunks
<1>6. \A n2 \in Namespace, k2 \in Key : refs'[n2][k2] # None => refs'[n2][k2].blob \in Content[n2]
  <2> SUFFICES ASSUME NEW n2 \in Namespace, NEW k2 \in Key, refs'[n2][k2] # None
               PROVE  refs'[n2][k2].blob \in Content[n2]
      OBVIOUS
  <2>1. refs'[n2][k2] = IF n2 = n /\ k2 = k
                        THEN [blob |-> b, count |-> Len(ids), custom |-> custom]
                        ELSE refs[n2][k2]
      BY <1>1 DEF CommitPut, IndexTypeOK
  <2> QED
      BY <2>1 DEF IndexInv
<1> QED
    BY <1>2, <1>3, <1>4, <1>5, <1>6 DEF IndexInv, ChunkHeld

\* The blob records a delete leaves.
LEMMA DeleteBlobs ==
    ASSUME BlobInv, NEW n \in Namespace, NEW k \in Key, CommitDelete(n, k), NEW x \in Blob
    PROVE  /\ IsFiniteSet(RefsTo(x)') /\ Cardinality(RefsTo(x)') <= BlobHeld(x)'
           /\ blobs[x] = None => blobs'[x] = None
           /\ blobs[x] # None => blobs'[x] # None /\ blobs'[x].ids = blobs[x].ids
<1> DEFINE d == refs[n][k].blob
<1>1. IndexTypeOK
    BY DEF BlobInv
<1>2. refs[n][k] # None /\ d \in Blob /\ blobs[d] # None
    BY BlobPresent DEF CommitDelete
<1>3. \A n2 \in Namespace, k2 \in Key :
          refs'[n2][k2] = IF n2 = n /\ k2 = k THEN None ELSE refs[n2][k2]
    BY <1>1 DEF CommitDelete, IndexTypeOK
<1>4. ASSUME blobs[x] # None
      PROVE  /\ blobs'[x] # None /\ blobs'[x].ids = blobs[x].ids
             /\ blobs'[x].rc = IF x = d THEN blobs[x].rc - 1 ELSE blobs[x].rc
             /\ blobs[x].rc \in Int
  <2>1. /\ blobs[x] = [rc |-> blobs[x].rc, ids |-> blobs[x].ids]
        /\ blobs[x].rc \in Int /\ blobs[x].ids \in Seq(ChunkId)
      BY <1>1, <1>4 DEF IndexTypeOK, BlobEntry
  <2>2. blobs'[x] = IF x = d THEN [rc |-> blobs[x].rc - 1, ids |-> blobs[x].ids] ELSE blobs[x]
      BY <1>4, <2>1 DEF CommitDelete, BlobsAfterDelete
  <2>3. blobs'[x] \in BlobEntry
      BY <2>1, <2>2 DEF BlobEntry
  <2> QED
      BY <2>1, <2>2, <2>3, NoneAssumption
<1>5. blobs[x] = None => blobs'[x] = None
    BY DEF CommitDelete, BlobsAfterDelete
<1>6. IsFiniteSet(RefsTo(x)') /\ Cardinality(RefsTo(x)') <= BlobHeld(x)'
  <2>1. /\ IsFiniteSet(RefsTo(x)) /\ Cardinality(RefsTo(x)) <= BlobHeld(x)
        /\ Cardinality(RefsTo(x)) \in Nat
      BY FS_CardinalityType DEF BlobInv
  <2>2. CASE x = d
    <3>1. RefsTo(x)' = RefsTo(x) \ {<<n, k>>}
        BY <1>3, <2>2 DEF RefsTo
    <3>2. <<n, k>> \in RefsTo(x)
        BY <1>2, <2>2 DEF RefsTo
    <3>3. /\ IsFiniteSet(RefsTo(x) \ {<<n, k>>})
          /\ Cardinality(RefsTo(x) \ {<<n, k>>}) = Cardinality(RefsTo(x)) - 1
        BY <2>1, <3>2, FS_RemoveElement
    <3>4. IsFiniteSet(RefsTo(x)') /\ Cardinality(RefsTo(x)') = Cardinality(RefsTo(x)) - 1
        BY <3>1, <3>3, Zenon
    <3>5. BlobHeld(x)' = BlobHeld(x) - 1 /\ BlobHeld(x) \in Int
        BY <1>2, <1>4, <2>2 DEF BlobHeld
    <3> QED
        BY <2>1, <3>4, <3>5
  <2>3. CASE x # d
    <3>1. RefsTo(x)' = RefsTo(x)
        BY <1>2, <1>3, <2>3 DEF RefsTo
    <3>2. BlobHeld(x)' = BlobHeld(x)
        BY <1>4, <1>5, <2>3 DEF BlobHeld
    <3> QED
        BY <2>1, <3>1, <3>2, Zenon
  <2> QED
      BY <2>2, <2>3
<1> QED
    BY <1>4, <1>5, <1>6

\* A delete keeps the invariant.
LEMMA DeleteInv ==
    ASSUME IndexInv, NEW n \in Namespace, NEW k \in Key,
           CommitDelete(n, k), UNCHANGED candidates
    PROVE  IndexInv'
<1> DEFINE M == ManifestOf(n, k)
           d == refs[n][k].blob
<1>1. IndexTypeOK /\ IndexTypeOK' /\ chunks \in ChunkRecords /\ M \in Seq(ChunkId)
  <2>1. IndexTypeOK
      BY DEF IndexInv
  <2> QED
      BY <2>1, DeleteType, ManifestType DEF IndexTypeOK, ChunkRecords
<1>2. /\ refs[n][k] # None /\ d \in Blob /\ blobs[d] # None
      /\ M = blobs[d].ids /\ DeletedIds(n, k) = M
    BY ManifestPresent DEF CommitDelete, DeletedIds
<1>3. \A n2 \in Namespace, k2 \in Key :
          refs'[n2][k2] = IF n2 = n /\ k2 = k THEN None ELSE refs[n2][k2]
    BY <1>1 DEF CommitDelete, IndexTypeOK
<1>4. /\ \A x \in Blob : blobs[x] # None => blobs'[x] # None /\ blobs'[x].ids = blobs[x].ids
      /\ \A x \in Blob : blobs[x] = None => blobs'[x] = None
      /\ \A x \in Blob : IsFiniteSet(RefsTo(x)') /\ Cardinality(RefsTo(x)') <= BlobHeld(x)'
    BY InvCountsBlobs, DeleteBlobs
<1>7. \A x \in Blob : blobs'[x] # None => blobs'[x].ids \in Manifests[x]
    BY <1>4 DEF IndexInv
<1>8. ASSUME NEW n2 \in Namespace, NEW k2 \in Key, <<n2, k2>> # <<n, k>>
      PROVE  ManifestOf(n2, k2)' = ManifestOf(n2, k2)
  <2>1. refs'[n2][k2] = refs[n2][k2]
      BY <1>3, <1>8
  <2>2. CASE refs[n2][k2] = None
      BY <2>1, <2>2 DEF ManifestOf
  <2>3. CASE refs[n2][k2] # None
      BY <1>4, <2>1, <2>3, ManifestPresent DEF ManifestOf
  <2> QED
      BY <2>2, <2>3
<1>9. ManifestOf(n, k)' = << >>
    BY <1>3 DEF ManifestOf
<1>10. ASSUME NEW c \in ChunkId
       PROVE  /\ IsFiniteSet(Uses(c)') /\ Cardinality(Uses(c)') <= ChunkHeld(chunks', c)
              /\ chunks'[c] # None => chunks[c] # None /\ chunks'[c].ns = chunks[c].ns
  <2>1. chunks' = Release(chunks, M)
      BY <1>2 DEF CommitDelete
  <2>2. /\ ChunkHeld(chunks', c) >= ChunkHeld(chunks, c) - Count(M, c)
        /\ ChunkHeld(chunks', c) \in Nat
        /\ chunks'[c] # None => chunks[c] # None /\ chunks'[c].ns = chunks[c].ns
      BY <1>1, <2>1, ReleaseHeld
  <2>3. Count(ManifestOf(n, k)', c) = 0
      BY <1>9, CountEmpty
  <2>4. Count(M, c) \in Nat /\ ChunkHeld(chunks, c) \in Nat
      BY <1>1, CountType DEF IndexTypeOK, ChunkHeld, ChunkEntry
  <2>5. ChunkHeld(chunks', c) >= ChunkHeld(chunks, c) - Count(M, c) + Count(ManifestOf(n, k)', c)
    <3> HIDE DEF M
    <3> QED
        BY <2>2, <2>3, <2>4
  <2>6. ManifestOf(n, k)' \in Seq(ChunkId)
      BY <1>9
  <2> QED
      BY <1>8, <2>2, <2>5, <2>6, ChunkCountStep
<1>11. \A c \in ChunkId : chunks'[c] # None =>
         \E b2 \in Content[chunks'[c].ns] : \E ids2 \in Manifests[b2] :
            \E i \in DOMAIN ids2 : ids2[i] = c
    BY <1>10 DEF IndexInv
<1>12. \A n2 \in Namespace, k2 \in Key :
          refs'[n2][k2] # None => refs'[n2][k2].blob \in Content[n2]
    BY <1>3 DEF IndexInv
<1> QED
    BY <1>1, <1>4, <1>7, <1>10, <1>11, <1>12 DEF IndexInv, ChunkHeld

\* A step that leaves blobs and every key's blob alone.
LEMMA SameBlobs ==
    ASSUME BlobInv, UNCHANGED blobs,
           \A n \in Namespace, k \in Key :
               /\ refs'[n][k] = None <=> refs[n][k] = None
               /\ refs[n][k] # None => refs'[n][k].blob = refs[n][k].blob,
           NEW x \in Blob
    PROVE  IsFiniteSet(RefsTo(x)') /\ Cardinality(RefsTo(x)') <= BlobHeld(x)'
<1>1. RefsTo(x)' = RefsTo(x)
    BY DEF RefsTo
<1> QED
    BY <1>1 DEF BlobInv, BlobHeld

\* A step that leaves blobs, chunks and every key's blob alone keeps the
\* invariant.
LEMMA SameManifestsInv ==
    ASSUME IndexInv, IndexTypeOK', UNCHANGED <<blobs, chunks>>,
           \A n \in Namespace, k \in Key :
               /\ refs'[n][k] = None <=> refs[n][k] = None
               /\ refs[n][k] # None => refs'[n][k].blob = refs[n][k].blob
    PROVE  IndexInv'
<1>2. \A n \in Namespace, k \in Key : ManifestOf(n, k)' = ManifestOf(n, k)
    BY DEF ManifestOf
<1>3. \A c \in ChunkId : Uses(c)' = Uses(c)
  <2>1. \A n \in Namespace, k \in Key, c \in ChunkId : UsesAt(n, k, c)' = UsesAt(n, k, c)
      BY <1>2 DEF UsesAt
  <2>2. \A p \in Namespace \X Key : p[1] \in Namespace /\ p[2] \in Key
      OBVIOUS
  <2> QED
      BY <2>1, <2>2 DEF Uses
<1>4. \A b \in Blob : IsFiniteSet(RefsTo(b)') /\ Cardinality(RefsTo(b)') <= BlobHeld(b)'
    BY InvCountsBlobs, SameBlobs
<1>5. \A c \in ChunkId : IsFiniteSet(Uses(c)') /\ Cardinality(Uses(c)') <= ChunkHeld(chunks', c)
    BY <1>3 DEF IndexInv, ChunkHeld
<1>6. \A b \in Blob : blobs'[b] # None => blobs'[b].ids \in Manifests[b]
    BY DEF IndexInv
<1>7. \A c \in ChunkId : chunks'[c] # None =>
         \E b \in Content[chunks'[c].ns] : \E ids \in Manifests[b] :
            \E i \in DOMAIN ids : ids[i] = c
    BY DEF IndexInv
<1>8. \A n \in Namespace, k \in Key : refs'[n][k] # None => refs'[n][k].blob \in Content[n]
    BY DEF IndexInv
<1> QED
    BY <1>4, <1>5, <1>6, <1>7, <1>8 DEF IndexInv, ChunkHeld

\* Renaming moves a reference from one key to a free one.
LEMMA RenameBlobs ==
    ASSUME BlobInv, NEW n \in Namespace, NEW old \in Key, NEW new \in Key,
           CommitRenameRef(n, old, new), NEW x \in Blob
    PROVE  IsFiniteSet(RefsTo(x)') /\ Cardinality(RefsTo(x)') <= BlobHeld(x)'
<1>1. /\ IndexTypeOK /\ refs[n][old] # None /\ refs[n][new] = None /\ old # new
      /\ blobs' = blobs
    BY DEF CommitRenameRef, BlobInv
<1>2. \A n2 \in Namespace, k2 \in Key :
          refs'[n2][k2] = IF n2 = n /\ k2 = old THEN None
                          ELSE IF n2 = n /\ k2 = new THEN refs[n][old]
                          ELSE refs[n2][k2]
    BY <1>1 DEF CommitRenameRef, IndexTypeOK
<1>3. IsFiniteSet(RefsTo(x)) /\ Cardinality(RefsTo(x)) <= BlobHeld(x)
    BY DEF BlobInv
<1>4. BlobHeld(x)' = BlobHeld(x)
    BY <1>1 DEF BlobHeld
<1>5. CASE refs[n][old].blob = x
  <2> DEFINE R == RefsTo(x)
             A == {<<n, old>>}
             B == {<<n, new>>}
  <2>1. RefsTo(x)' = (R \ A) \cup B
      BY <1>1, <1>2, <1>5 DEF RefsTo
  <2>2. A \in SUBSET R /\ (R \ A) \cap B = {}
      BY <1>1, <1>5 DEF RefsTo
  <2>3. IsFiniteSet(B) /\ Cardinality(A) = 1 /\ Cardinality(B) = 1
      BY FS_Singleton
  <2>4. /\ IsFiniteSet((R \ A) \cup B)
        /\ Cardinality((R \ A) \cup B) = Cardinality(R) - Cardinality(A) + Cardinality(B)
        /\ Cardinality(R) \in Nat
    <3>1. IsFiniteSet(R)
        BY <1>3
    <3> HIDE DEF R, A, B
    <3> QED
        BY <2>2, <2>3, <3>1, Exchange
  <2> HIDE DEF R, A, B
  <2>5. Cardinality((R \ A) \cup B) = Cardinality(R)
      BY <2>3, <2>4
  <2> QED
      BY <1>3, <1>4, <2>1, <2>4, <2>5, Zenon DEF R
<1>6. CASE refs[n][old].blob # x
  <2>1. RefsTo(x)' = RefsTo(x)
      BY <1>1, <1>2, <1>6 DEF RefsTo
  <2> QED
      BY <1>3, <1>4, <2>1, Zenon
<1> QED
    BY <1>5, <1>6

\* Deleting a reference takes its places away and touches no other.
LEMMA DeleteUses ==
    ASSUME IndexInv, NEW n \in Namespace, NEW k \in Key, CommitDelete(n, k), NEW c \in ChunkId
    PROVE  Cardinality(Uses(c)') <= Cardinality(Uses(c))
<1>1. IndexTypeOK /\ IsFiniteSet(Uses(c))
    BY DEF IndexInv
<1>2. \A n2 \in Namespace, k2 \in Key :
          refs'[n2][k2] = IF n2 = n /\ k2 = k THEN None ELSE refs[n2][k2]
    BY <1>1 DEF CommitDelete, IndexTypeOK
<1>3. \A x \in Blob : /\ (blobs'[x] = None <=> blobs[x] = None)
                       /\ (blobs[x] # None => blobs'[x].ids = blobs[x].ids)
  <2>1. SUFFICES ASSUME NEW x \in Blob
                 PROVE  /\ (blobs'[x] = None <=> blobs[x] = None)
                        /\ (blobs[x] # None => blobs'[x].ids = blobs[x].ids)
      OBVIOUS
  <2>2. blobs'[x] = blobs[x] \/ (blobs[x] # None /\ blobs'[x] = [blobs[x] EXCEPT !.rc = @ - 1])
      BY DEF CommitDelete, BlobsAfterDelete
  <2>3. ASSUME blobs[x] # None
        PROVE  /\ blobs[x] = [rc |-> blobs[x].rc, ids |-> blobs[x].ids]
               /\ blobs[x].rc \in Int /\ blobs[x].ids \in Seq(ChunkId)
      BY <1>1, <2>3 DEF IndexTypeOK, BlobEntry
  <2>4. ASSUME blobs[x] # None
        PROVE  LET e == [blobs[x] EXCEPT !.rc = @ - 1]
               IN  e \in BlobEntry /\ e.ids = blobs[x].ids
      BY <2>3, <2>4 DEF BlobEntry
  <2> QED
      BY <2>2, <2>4, NoneAssumption
<1>4. \A n2 \in Namespace, k2 \in Key : refs[n2][k2] # None => refs[n2][k2].blob \in Blob
    BY <1>1 DEF IndexTypeOK, RefEntry
<1>5. \A n2 \in Namespace, k2 \in Key :
          ManifestOf(n2, k2)' = ManifestOf(n2, k2) \/ ManifestOf(n2, k2)' = << >>
  <2>1. SUFFICES ASSUME NEW n2 \in Namespace, NEW k2 \in Key
                 PROVE  ManifestOf(n2, k2)' = ManifestOf(n2, k2) \/ ManifestOf(n2, k2)' = << >>
      OBVIOUS
  <2>2. CASE refs'[n2][k2] = None
      BY <2>2 DEF ManifestOf
  <2>3. CASE refs'[n2][k2] # None
    <3>1. refs'[n2][k2] = refs[n2][k2] /\ refs[n2][k2] # None /\ refs[n2][k2].blob \in Blob
        BY <1>2, <1>4, <2>3
    <3> DEFINE x == refs[n2][k2].blob
    <3>2. /\ blobs'[x] = None <=> blobs[x] = None
          /\ blobs[x] # None => blobs'[x].ids = blobs[x].ids
        BY <1>3, <3>1
    <3> QED
        BY <3>1, <3>2 DEF ManifestOf
  <2> QED
      BY <2>2, <2>3
<1>6. \A n2 \in Namespace, k2 \in Key : UsesAt(n2, k2, c)' \subseteq UsesAt(n2, k2, c)
  <2>1. SUFFICES ASSUME NEW n2 \in Namespace, NEW k2 \in Key
                 PROVE  UsesAt(n2, k2, c)' \subseteq UsesAt(n2, k2, c)
      OBVIOUS
  <2>2. CASE ManifestOf(n2, k2)' = ManifestOf(n2, k2)
      BY <2>2 DEF UsesAt
  <2>3. CASE ManifestOf(n2, k2)' = << >>
      BY <2>3 DEF UsesAt
  <2> QED
      BY <1>5, <2>2, <2>3
<1>7. Uses(c)' \in SUBSET Uses(c)
  <2>1. \A p \in Namespace \X Key : p[1] \in Namespace /\ p[2] \in Key
      OBVIOUS
  <2> QED
      BY <1>6, <2>1 DEF Uses
<1> QED
    BY <1>1, <1>7, FS_Subset

\* It moves its places as well, and leaves as many.
LEMMA RenameUses ==
    ASSUME IndexInv, NEW n \in Namespace, NEW old \in Key, NEW new \in Key,
           CommitRenameRef(n, old, new), NEW c \in ChunkId
    PROVE  IsFiniteSet(Uses(c)') /\ Cardinality(Uses(c)') = Cardinality(Uses(c))
<1> DEFINE M == ManifestOf(n, old)
<1>1. /\ IndexTypeOK /\ refs[n][old] # None /\ refs[n][new] = None /\ old # new
      /\ blobs' = blobs /\ chunks' = chunks
    BY DEF CommitRenameRef, IndexInv
<1>2. \A n2 \in Namespace, k2 \in Key :
          refs'[n2][k2] = IF n2 = n /\ k2 = old THEN None
                          ELSE IF n2 = n /\ k2 = new THEN refs[n][old]
                          ELSE refs[n2][k2]
    BY <1>1 DEF CommitRenameRef, IndexTypeOK
<1>3. \A n2 \in Namespace, k2 \in Key :
          ManifestOf(n2, k2)' = IF n2 = n /\ k2 = old THEN << >>
                                ELSE IF n2 = n /\ k2 = new THEN M
                                ELSE ManifestOf(n2, k2)
    BY <1>1, <1>2 DEF ManifestOf
<1>4. ManifestOf(n, new) = << >> /\ M \in Seq(ChunkId)
    BY <1>1, ManifestType DEF ManifestOf
<1> DEFINE U == Uses(c)
           A == UsesAt(n, old, c)
           B == Places(n, new, M, c)
<1>5. \A n2 \in Namespace, k2 \in Key :
         UsesAt(n2, k2, c)' = IF n2 = n /\ k2 = old THEN {}
                              ELSE IF n2 = n /\ k2 = new THEN B
                              ELSE UsesAt(n2, k2, c)
    BY <1>3 DEF UsesAt, Places
<1>6. UsesAt(n, new, c) = {}
    BY <1>4 DEF UsesAt
<1>7. \A u : u \in U <=> \E n2 \in Namespace, k2 \in Key : u \in UsesAt(n2, k2, c)
  <2>1. \A n2 \in Namespace, k2 \in Key : UsesAt(n2, k2, c) \in SUBSET U
      BY <1>1, UsesAtCount
  <2>2. \A p \in Namespace \X Key : p[1] \in Namespace /\ p[2] \in Key
      OBVIOUS
  <2> QED
      BY <2>1, <2>2 DEF Uses
<1>8. \A u : u \in Uses(c)' <=> \E n2 \in Namespace, k2 \in Key : u \in UsesAt(n2, k2, c)'
  <2>1. \A n2 \in Namespace, k2 \in Key : UsesAt(n2, k2, c)' \subseteq Uses(c)'
    <3> SUFFICES ASSUME NEW n2 \in Namespace, NEW k2 \in Key
                 PROVE  UsesAt(n2, k2, c)' \subseteq Uses(c)'
        OBVIOUS
    <3>1. <<n2, k2>> \in Namespace \X Key
        OBVIOUS
    <3> QED
        BY <3>1 DEF Uses
  <2>2. \A p \in Namespace \X Key : p[1] \in Namespace /\ p[2] \in Key
      OBVIOUS
  <2> QED
      BY <2>1, <2>2 DEF Uses
<1>9. \A n2, k2, u : u \in UsesAt(n2, k2, c) => u[1] = n2 /\ u[2] = k2
    BY DEF UsesAt
<1>10. \A u : u \in B => u[1] = n /\ u[2] = new
    BY DEF Places
<1>11. \A u : u \in Uses(c)' <=> (u \in U /\ u \notin A) \/ u \in B
  <2> HIDE DEF U, B
  <2> SUFFICES ASSUME NEW u
               PROVE  u \in Uses(c)' <=> (u \in U /\ u \notin A) \/ u \in B
      OBVIOUS
  <2>1. ASSUME u \in Uses(c)' PROVE (u \in U /\ u \notin A) \/ u \in B
    <3>1. PICK n2 \in Namespace, k2 \in Key : u \in UsesAt(n2, k2, c)'
        BY <1>8, <2>1
    <3> QED
        BY <1>5, <1>7, <1>9, <3>1
  <2>2. ASSUME u \in U, u \notin A PROVE u \in Uses(c)'
    <3>1. PICK n2 \in Namespace, k2 \in Key : u \in UsesAt(n2, k2, c)
        BY <1>7, <2>2
    <3>2. u \in UsesAt(n2, k2, c)'
        BY <1>5, <1>6, <2>2, <3>1
    <3> QED
        BY <1>8, <3>2
  <2>3. ASSUME u \in B PROVE u \in Uses(c)'
    <3>1. UsesAt(n, new, c)' = B
        BY <1>1, <1>5
    <3> QED
        BY <1>8, <2>3, <3>1
  <2> QED
      BY <2>1, <2>2, <2>3
<1>12. Uses(c)' = (U \ A) \cup B
    BY <1>11
<1>13. (U \ A) \cap B = {}
  <2> SUFFICES ASSUME NEW u \in U, u \in B PROVE FALSE
      OBVIOUS
  <2>1. PICK n2 \in Namespace, k2 \in Key : u \in UsesAt(n2, k2, c)
      BY <1>7
  <2>2. n2 = n /\ k2 = new
      BY <1>9, <1>10, <2>1
  <2> QED
      BY <1>6, <2>1, <2>2
<1>14. IsFiniteSet(U) /\ Cardinality(U) <= ChunkHeld(chunks, c)
    BY DEF IndexInv
<1>15. A \in SUBSET U /\ Cardinality(A) = Count(M, c)
    BY <1>1, UsesAtCount
<1>16. IsFiniteSet(B) /\ Cardinality(B) = Count(M, c)
    BY <1>4, PlacesCount
<1>17. /\ IsFiniteSet((U \ A) \cup B)
       /\ Cardinality((U \ A) \cup B) = Cardinality(U) - Cardinality(A) + Cardinality(B)
       /\ Cardinality(U) \in Nat /\ Cardinality(A) \in Nat
    BY <1>13, <1>14, <1>15, <1>16, Exchange
<1> HIDE DEF U, A, B
<1>18. Cardinality((U \ A) \cup B) = Cardinality(U)
    BY <1>15, <1>16, <1>17
<1> QED
    BY <1>12, <1>17, <1>18 DEF U

\* Renaming keeps the invariant.
LEMMA RenameInv ==
    ASSUME IndexInv, NEW n \in Namespace, NEW old \in Key, NEW new \in Key,
           CommitRenameRef(n, old, new), IndexTypeOK'
    PROVE  IndexInv'
<1>1. /\ IndexTypeOK /\ refs[n][old] # None /\ refs[n][new] = None /\ old # new
      /\ blobs' = blobs /\ chunks' = chunks
    BY DEF CommitRenameRef, IndexInv
<1>2. \A n2 \in Namespace, k2 \in Key :
          refs'[n2][k2] = IF n2 = n /\ k2 = old THEN None
                          ELSE IF n2 = n /\ k2 = new THEN refs[n][old]
                          ELSE refs[n2][k2]
    BY <1>1 DEF CommitRenameRef, IndexTypeOK
<1>5. \A x \in Blob : IsFiniteSet(RefsTo(x)') /\ Cardinality(RefsTo(x)') <= BlobHeld(x)'
    BY InvCountsBlobs, RenameBlobs
<1>6. ASSUME NEW c \in ChunkId
      PROVE  IsFiniteSet(Uses(c)') /\ Cardinality(Uses(c)') <= ChunkHeld(chunks', c)
  <2>1. IsFiniteSet(Uses(c)') /\ Cardinality(Uses(c)') = Cardinality(Uses(c))
      BY RenameUses
  <2>2. Cardinality(Uses(c)) <= ChunkHeld(chunks, c)
      BY DEF IndexInv
  <2> QED
      BY <1>1, <2>1, <2>2, Zenon
<1>7. \A b \in Blob : blobs'[b] # None => blobs'[b].ids \in Manifests[b]
    BY <1>1 DEF IndexInv
<1>8. \A c \in ChunkId : chunks'[c] # None =>
         \E b \in Content[chunks'[c].ns] : \E ids \in Manifests[b] :
            \E i \in DOMAIN ids : ids[i] = c
    BY <1>1 DEF IndexInv
<1>9. \A n2 \in Namespace, k2 \in Key :
          refs'[n2][k2] # None => refs'[n2][k2].blob \in Content[n2]
    BY <1>1, <1>2 DEF IndexInv
<1> QED
    BY <1>5, <1>6, <1>7, <1>8, <1>9 DEF IndexInv, ChunkHeld

\* A reap removes a record only at RefCount zero, where it supports no place.
LEMMA ReapInv ==
    ASSUME IndexInv, NEW c \in ChunkId, NEW l \in Loc,
           ReapPhysicalPageIfDead(c, l), IndexTypeOK'
    PROVE  IndexInv'
<1>1. refs' = refs /\ blobs' = blobs
    BY DEF ReapPhysicalPageIfDead
<1>2. \A x \in ChunkId : /\ chunks'[x] # None => chunks'[x] = chunks[x]
                         /\ ChunkHeld(chunks', x) = ChunkHeld(chunks, x)
    BY DEF ReapPhysicalPageIfDead, SafeToReap, ChunkHeld, IndexInv, IndexTypeOK
<1>3. \A b \in Blob : RefsTo(b)' = RefsTo(b) /\ BlobHeld(b)' = BlobHeld(b)
    BY <1>1 DEF RefsTo, BlobHeld
<1>4. \A x \in ChunkId : Uses(x)' = Uses(x)
    BY <1>1 DEF Uses, UsesAt, ManifestOf
<1>5. \A b \in Blob : IsFiniteSet(RefsTo(b)') /\ Cardinality(RefsTo(b)') <= BlobHeld(b)'
    BY <1>3 DEF IndexInv
<1>6. \A x \in ChunkId : IsFiniteSet(Uses(x)') /\ Cardinality(Uses(x)') <= ChunkHeld(chunks', x)
    BY <1>2, <1>4 DEF IndexInv
<1>7. \A x \in ChunkId : chunks'[x] # None =>
         \E b \in Content[chunks'[x].ns] : \E ids \in Manifests[b] :
            \E i \in DOMAIN ids : ids[i] = x
    BY <1>2 DEF IndexInv
<1> QED
    BY <1>1, <1>5, <1>6, <1>7 DEF IndexInv, ChunkHeld

\* A purge removes a manifest only when nothing refers to it.
LEMMA PurgeBlobs ==
    ASSUME BlobInv, NEW b \in Blob, PurgeBlob(b)
    PROVE  /\ blobs' # blobs => RefsTo(b) = {}
           /\ \A x \in Blob : IsFiniteSet(RefsTo(x)') /\ Cardinality(RefsTo(x)') <= BlobHeld(x)'
<1>1. refs' = refs /\ IndexTypeOK
    BY DEF PurgeBlob, BlobInv
<1>2. \A x \in Blob : x # b => blobs'[x] = blobs[x]
    BY <1>1 DEF PurgeBlob, IndexTypeOK
<1>3. \A x \in Blob : /\ IsFiniteSet(RefsTo(x)) /\ Cardinality(RefsTo(x)) \in Nat
                      /\ Cardinality(RefsTo(x)) <= BlobHeld(x)
    BY FS_CardinalityType DEF BlobInv
<1>4. \A x \in Blob : RefsTo(x)' = RefsTo(x)
    BY <1>1 DEF RefsTo
<1>5. CASE blobs' = blobs
    BY <1>3, <1>4, <1>5 DEF BlobHeld
<1>6. CASE blobs' # blobs
  <2>1. blobs' = [blobs EXCEPT ![b] = IF blobs[b] # None /\ blobs[b].rc > 0 THEN blobs[b] ELSE None]
      BY DEF PurgeBlob
  <2>2. blobs[b] # None
      BY <1>1, <1>6, <2>1 DEF IndexTypeOK
  <2>3. ~(blobs[b].rc > 0) /\ blobs[b].rc \in Int
      BY <1>1, <1>6, <2>1, <2>2 DEF IndexTypeOK, BlobEntry
  <2>4. blobs'[b] = None
      BY <1>1, <2>1, <2>3 DEF IndexTypeOK
  <2>5. Cardinality(RefsTo(b)) = 0
      BY <1>3, <2>2, <2>3 DEF BlobHeld
  <2>6. RefsTo(b) = {}
      BY <1>3, <2>5, FS_EmptySet
  <2>7. ASSUME NEW x \in Blob
        PROVE  IsFiniteSet(RefsTo(x)') /\ Cardinality(RefsTo(x)') <= BlobHeld(x)'
    <3>1. CASE x = b
      <4>1. BlobHeld(x)' = 0
          BY <2>4, <3>1 DEF BlobHeld
      <4> QED
          BY <1>3, <1>4, <2>5, <3>1, <4>1
    <3>2. CASE x # b
      <4>1. BlobHeld(x)' = BlobHeld(x)
          BY <1>2, <3>2 DEF BlobHeld
      <4> QED
          BY <1>3, <1>4, <4>1
    <3> QED
        BY <3>1, <3>2
  <2> QED
      BY <2>6, <2>7
<1> QED
    BY <1>5, <1>6

LEMMA PurgeInv ==
    ASSUME IndexInv, NEW b \in Blob, PurgeBlob(b), IndexTypeOK'
    PROVE  IndexInv'
<1>1. refs' = refs /\ chunks' = chunks /\ IndexTypeOK
    BY DEF PurgeBlob, IndexInv
<1>2. \A x \in Blob : /\ blobs'[x] # None => blobs'[x] = blobs[x]
                      /\ x # b => blobs'[x] = blobs[x]
    BY <1>1 DEF PurgeBlob, IndexTypeOK
<1>3. /\ blobs' # blobs => RefsTo(b) = {}
      /\ \A x \in Blob : IsFiniteSet(RefsTo(x)') /\ Cardinality(RefsTo(x)') <= BlobHeld(x)'
    BY InvCountsBlobs, PurgeBlobs
<1>4. CASE blobs' = blobs
    BY <1>1, <1>4, SameManifestsInv
<1>5. CASE blobs' # blobs
  <2>1. ASSUME NEW n \in Namespace, NEW k \in Key
        PROVE  ManifestOf(n, k)' = ManifestOf(n, k)
    <3>1. CASE refs[n][k] = None
        BY <1>1, <3>1 DEF ManifestOf
    <3>2. CASE refs[n][k] # None
      <4>1. refs[n][k].blob \in Blob
          BY <3>2, ManifestPresent
      <4>2. <<n, k>> \in RefsTo(refs[n][k].blob)
          BY <3>2 DEF RefsTo
      <4>3. refs[n][k].blob # b
          BY <1>3, <1>5, <4>2
      <4> QED
          BY <1>1, <1>2, <3>2, <4>1, <4>3 DEF ManifestOf
    <3> QED
        BY <3>1, <3>2
  <2>2. \A c \in ChunkId : Uses(c)' = Uses(c)
    <3>1. \A n \in Namespace, k \in Key, c \in ChunkId : UsesAt(n, k, c)' = UsesAt(n, k, c)
        BY <2>1 DEF UsesAt
    <3>2. \A p \in Namespace \X Key : p[1] \in Namespace /\ p[2] \in Key
        OBVIOUS
    <3> QED
        BY <3>1, <3>2 DEF Uses
  <2>3. \A c \in ChunkId : IsFiniteSet(Uses(c)') /\ Cardinality(Uses(c)') <= ChunkHeld(chunks', c)
      BY <1>1, <2>2 DEF IndexInv, ChunkHeld
  <2>4. \A x \in Blob : blobs'[x] # None => blobs'[x].ids \in Manifests[x]
      BY <1>2 DEF IndexInv
  <2>5. \A c \in ChunkId : chunks'[c] # None =>
           \E x \in Content[chunks'[c].ns] : \E ids \in Manifests[x] :
              \E i \in DOMAIN ids : ids[i] = c
      BY <1>1 DEF IndexInv
  <2>6. \A n \in Namespace, k \in Key : refs'[n][k] # None => refs'[n][k].blob \in Content[n]
      BY <1>1 DEF IndexInv
  <2> QED
      BY <1>3, <2>3, <2>4, <2>5, <2>6 DEF IndexInv, ChunkHeld
<1> QED
    BY <1>4, <1>5

LEMMA InvInit == IndexInit => IndexInv
<1> SUFFICES ASSUME IndexInit PROVE IndexInv
    OBVIOUS
<1>1. IndexTypeOK
    BY TypeInit
<1>2. \A n \in Namespace, k \in Key : refs[n][k] = None
    BY DEF IndexInit
<1>3. \A b \in Blob : RefsTo(b) = {}
    BY <1>2 DEF RefsTo
<1>4. \A n \in Namespace, k \in Key : ManifestOf(n, k) = << >>
    BY <1>2 DEF ManifestOf
<1>5. \A c \in ChunkId : Uses(c) = {}
  <2>1. \A n \in Namespace, k \in Key, c \in ChunkId : UsesAt(n, k, c) = {}
      BY <1>4 DEF UsesAt
  <2>2. \A p \in Namespace \X Key : p[1] \in Namespace /\ p[2] \in Key
      OBVIOUS
  <2> QED
      BY <2>1, <2>2 DEF Uses
<1>6. IsFiniteSet({}) /\ Cardinality({}) = 0
    BY FS_EmptySet
<1>7. (\A b \in Blob : blobs[b] = None) /\ (\A c \in ChunkId : chunks[c] = None)
    BY DEF IndexInit
<1>8. \A b \in Blob : IsFiniteSet(RefsTo(b)) /\ Cardinality(RefsTo(b)) = 0 /\ BlobHeld(b) = 0
    BY <1>3, <1>6, <1>7 DEF BlobHeld
<1>9. \A c \in ChunkId : /\ IsFiniteSet(Uses(c)) /\ Cardinality(Uses(c)) = 0
                         /\ ChunkHeld(chunks, c) = 0
    BY <1>5, <1>6, <1>7 DEF ChunkHeld
<1> QED
    BY <1>1, <1>2, <1>7, <1>8, <1>9 DEF IndexInv

\* Each step keeps the invariant.
LEMMA InvStep ==
    ASSUME OneManifest, NoSharedContent
    PROVE  IndexInv /\ [IndexNext]_ixVars => IndexInv'
<1> SUFFICES ASSUME IndexInv, [IndexNext]_ixVars PROVE IndexInv'
    OBVIOUS
<1>0. IndexTypeOK'
    BY TypeStep DEF IndexInv
<1>1. ASSUME NEW n \in Namespace, NEW k \in Key, NEW b \in Content[n], Put(n, k, b)
      PROVE  IndexInv'
  <2>1. PICK ids \in Manifests[b], custom \in Meta :
              \E at \in FreshPages(ids) : CommitPut(n, k, b, ids, at, custom)
      BY <1>1 DEF Put
  <2>2. PICK at \in FreshPages(ids) : CommitPut(n, k, b, ids, at, custom)
      BY <2>1
  <2> QED
      BY <1>1, <2>2, PutInv DEF Put, FreshPages
<1>2. ASSUME NEW n \in Namespace, NEW k \in Key, CommitDelete(n, k), UNCHANGED candidates
      PROVE  IndexInv'
    BY <1>2, DeleteInv
<1>3. ASSUME NEW n \in Namespace, NEW old \in Key, NEW new \in Key,
             CommitRenameRef(n, old, new), UNCHANGED candidates
      PROVE  IndexInv'
    BY <1>0, <1>3, RenameInv
<1>4. ASSUME NEW n \in Namespace, NEW k \in Key, NEW custom \in Meta,
             CommitUpdateRefMetadata(n, k, custom), UNCHANGED candidates
      PROVE  IndexInv'
  <2>1. refs[n][k] # None /\ refs' = [refs EXCEPT ![n][k] = [@ EXCEPT !.custom = custom]]
        /\ blobs' = blobs /\ chunks' = chunks /\ IndexTypeOK
      BY <1>4 DEF CommitUpdateRefMetadata, IndexInv
  <2>2. refs[n][k] \in RefEntry
      BY <2>1 DEF IndexTypeOK
  <2>3. [refs[n][k] EXCEPT !.custom = custom] \in RefEntry
        /\ [refs[n][k] EXCEPT !.custom = custom].blob = refs[n][k].blob
      BY <2>2 DEF RefEntry
  <2>4. \A n2 \in Namespace, k2 \in Key :
           /\ refs'[n2][k2] = None <=> refs[n2][k2] = None
           /\ refs[n2][k2] # None => refs'[n2][k2].blob = refs[n2][k2].blob
      BY <2>1, <2>3, NoneAssumption DEF IndexTypeOK
  <2> QED
      BY <1>0, <2>1, <2>4, SameManifestsInv
<1>5. ASSUME NEW c \in ChunkId, NEW l \in Loc, ReapPhysicalPageIfDead(c, l), UNCHANGED candidates
      PROVE  IndexInv'
    BY <1>0, <1>5, ReapInv
<1>6. ASSUME NEW n \in Namespace, NEW pages \in 1..Cardinality(ChunkId),
             ReconcileDeadStats(n, pages), UNCHANGED candidates
      PROVE  IndexInv'
    BY <1>0, <1>6, SameManifestsInv DEF ReconcileDeadStats
<1>7. CASE PurgeScan
    BY <1>0, <1>7, SameManifestsInv DEF PurgeScan
<1>8. ASSUME NEW b \in Blob, PurgeBlob(b)
      PROVE  IndexInv'
    BY <1>0, <1>8, PurgeInv
<1>9. CASE UNCHANGED ixVars
    BY <1>0, <1>9, SameManifestsInv DEF ixVars
<1> QED
    BY <1>1, <1>2, <1>3, <1>4, <1>5, <1>6, <1>7, <1>8, <1>9 DEF IndexNext

\* What a reference to a blob needs of the blob's record.
LEMMA ReferredIsCounted ==
    ASSUME BlobInv, NEW b \in Blob, RefsTo(b) # {}
    PROVE  blobs[b] # None /\ blobs[b].rc >= Cardinality(RefsTo(b))
<1>1. IsFiniteSet(RefsTo(b)) /\ Cardinality(RefsTo(b)) <= BlobHeld(b)
    BY DEF BlobInv
<1>2. Cardinality(RefsTo(b)) \in Nat /\ Cardinality(RefsTo(b)) # 0
    BY <1>1, FS_CardinalityType, FS_EmptySet
<1>3. blobs[b] # None => blobs[b].rc \in Int
    BY DEF BlobInv, IndexTypeOK, BlobEntry
<1> QED
    BY <1>1, <1>2, <1>3 DEF BlobHeld

\* What a use of a chunk needs of the chunk's record.
LEMMA UsedIsRecorded ==
    ASSUME IndexInv, NEW c \in ChunkId, Uses(c) # {}
    PROVE  chunks[c] # None /\ chunks[c].rc >= Cardinality(Uses(c))
<1>1. IsFiniteSet(Uses(c)) /\ Cardinality(Uses(c)) <= ChunkHeld(chunks, c)
    BY DEF IndexInv
<1>2. Cardinality(Uses(c)) \in Nat /\ Cardinality(Uses(c)) # 0
    BY <1>1, FS_CardinalityType, FS_EmptySet
<1>3. chunks[c] # None => chunks[c].rc \in Int
    BY DEF IndexInv, IndexTypeOK, ChunkEntry
<1> QED
    BY <1>1, <1>2, <1>3 DEF ChunkHeld

\* The one namespace whose contents have a chunk in them has its record.
LEMMA UsedIsOwned ==
    ASSUME NoSharedContent, IndexInv, NEW n \in Namespace, NEW k \in Key,
           NEW i \in DOMAIN ManifestOf(n, k)
    PROVE  Owned(chunks, n, ManifestOf(n, k)[i])
<1> DEFINE c == ManifestOf(n, k)[i]
<1>1. refs[n][k] # None
    BY DEF ManifestOf
<1>2. /\ refs[n][k].blob \in Blob /\ blobs[refs[n][k].blob] # None
      /\ ManifestOf(n, k) = blobs[refs[n][k].blob].ids
    BY <1>1, ManifestPresent
<1>3. /\ ManifestOf(n, k) \in Manifests[refs[n][k].blob]
      /\ refs[n][k].blob \in Content[n]
    BY <1>1, <1>2 DEF IndexInv
<1>4. c \in ChunkId
    BY ManifestType DEF IndexInv
<1>5. Uses(c) # {}
  <2>1. <<n, k, i>> \in UsesAt(n, k, c)
      BY DEF UsesAt
  <2> QED
      BY <2>1, UsesAtCount DEF IndexInv
<1>6. chunks[c] # None
    BY <1>4, <1>5, UsedIsRecorded
<1>7. PICK b2 \in Content[chunks[c].ns] : \E ids2 \in Manifests[b2] :
          \E j \in DOMAIN ids2 : ids2[j] = c
    BY <1>4, <1>6 DEF IndexInv
<1>8. PICK ids2 \in Manifests[b2] : \E j \in DOMAIN ids2 : ids2[j] = c
    BY <1>7
<1>9. chunks[c].ns \in Namespace
    BY <1>4, <1>6 DEF IndexInv, IndexTypeOK, ChunkEntry
<1>10. chunks[c].ns = n
    BY <1>3, <1>8, <1>9 DEF NoSharedContent
<1> QED
    BY <1>6, <1>10 DEF Owned

\* Each step keeps the references to blobs counted, whatever namespaces share.
LEMMA BlobStep == BlobInv /\ [IndexNext]_ixVars => BlobInv'
<1> SUFFICES ASSUME BlobInv, [IndexNext]_ixVars PROVE BlobInv'
    OBVIOUS
<1>0. IndexTypeOK /\ IndexTypeOK'
    BY TypeStep DEF BlobInv
<1> SUFFICES ASSUME NEW x \in Blob
             PROVE  IsFiniteSet(RefsTo(x)') /\ Cardinality(RefsTo(x)') <= BlobHeld(x)'
    BY <1>0 DEF BlobInv
<1>1. ASSUME NEW n \in Namespace, NEW k \in Key, NEW b \in Content[n], Put(n, k, b)
      PROVE  IsFiniteSet(RefsTo(x)') /\ Cardinality(RefsTo(x)') <= BlobHeld(x)'
  <2>1. PICK ids \in Manifests[b], custom \in Meta :
              \E at \in FreshPages(ids) : CommitPut(n, k, b, ids, at, custom)
      BY <1>1 DEF Put
  <2>2. b \in Blob /\ ids \in Seq(ChunkId)
      BY ContentAssumption, ManifestAssumption
  <2> QED
      BY <2>1, <2>2, PutBlobs
<1>2. ASSUME NEW n \in Namespace, NEW k \in Key, CommitDelete(n, k)
      PROVE  IsFiniteSet(RefsTo(x)') /\ Cardinality(RefsTo(x)') <= BlobHeld(x)'
    BY <1>2, DeleteBlobs
<1>3. ASSUME NEW n \in Namespace, NEW old \in Key, NEW new \in Key,
             CommitRenameRef(n, old, new)
      PROVE  IsFiniteSet(RefsTo(x)') /\ Cardinality(RefsTo(x)') <= BlobHeld(x)'
    BY <1>3, RenameBlobs
<1>4. ASSUME NEW n \in Namespace, NEW k \in Key, NEW custom \in Meta,
             CommitUpdateRefMetadata(n, k, custom)
      PROVE  IsFiniteSet(RefsTo(x)') /\ Cardinality(RefsTo(x)') <= BlobHeld(x)'
  <2>1. refs[n][k] # None /\ blobs' = blobs
        /\ refs' = [refs EXCEPT ![n][k] = [@ EXCEPT !.custom = custom]]
      BY <1>4 DEF CommitUpdateRefMetadata
  <2>2. [refs[n][k] EXCEPT !.custom = custom] \in RefEntry
        /\ [refs[n][k] EXCEPT !.custom = custom].blob = refs[n][k].blob
      BY SMTT(30), <1>0, <2>1 DEF IndexTypeOK, RefEntry
  <2>3. \A n2 \in Namespace, k2 \in Key :
           /\ refs'[n2][k2] = None <=> refs[n2][k2] = None
           /\ refs[n2][k2] # None => refs'[n2][k2].blob = refs[n2][k2].blob
      BY <1>0, <2>1, <2>2, NoneAssumption DEF IndexTypeOK
  <2> QED
      BY <2>1, <2>3, SameBlobs
<1>5. ASSUME NEW b \in Blob, PurgeBlob(b)
      PROVE  IsFiniteSet(RefsTo(x)') /\ Cardinality(RefsTo(x)') <= BlobHeld(x)'
    BY <1>5, PurgeBlobs
<1>6. CASE UNCHANGED <<refs, blobs>>
    BY <1>6, SameBlobs
<1> QED
    BY <1>1, <1>2, <1>3, <1>4, <1>5, <1>6
    DEF IndexNext, ReapPhysicalPageIfDead, ReconcileDeadStats, PurgeScan, ixVars

\* Whatever namespaces store and however contents are cut, no reference loses its
\* manifest, and no manifest's RefCount is below the number of live references to it.
THEOREM BlobsAreCounted == IndexSpec => []BlobRefCountCoversRefs
<1>1. IndexInit => BlobInv
    BY InvInit, InvCountsBlobs
<1>2. BlobInv => BlobRefCountCoversRefs
    BY ReferredIsCounted DEF BlobRefCountCoversRefs
<1> QED
    BY <1>1, <1>2, BlobStep, PTL DEF IndexSpec

\* With one chunker configuration and no content common to two namespaces, every chunk of
\* a live reference is recorded, with a RefCount no smaller than its uses.
THEOREM ChunksAreCounted ==
    ASSUME OneManifest, NoSharedContent
    PROVE  IndexSpec => []ChunkRefCountCoversUses
<1>1. IndexInv /\ [IndexNext]_ixVars => IndexInv'
    BY InvStep
<1>2. IndexInv => ChunkRefCountCoversUses
    BY UsedIsRecorded DEF ChunkRefCountCoversUses
<1> QED
    BY <1>1, <1>2, InvInit, PTL DEF IndexSpec

\* Under the same hypotheses no transaction drops or moves a chunk record that
\* has references.
THEOREM ReferencedChunksStay ==
    ASSUME OneManifest, NoSharedContent
    PROVE  IndexSpec => ReferencedChunkStays
<1> DEFINE Stays == \A c \in ChunkId : chunks[c] # None /\ chunks[c].rc > 0 =>
                        chunks'[c] # None /\ chunks'[c].loc = chunks[c].loc
<1>1. IndexInit => IndexInv
    BY InvInit
<1>2. IndexInv /\ [IndexNext]_ixVars => IndexInv'
    BY InvStep
<1>3. ASSUME IndexInv, IndexNext PROVE Stays
  <2>0. chunks \in ChunkRecords /\ IndexTypeOK
      BY <1>3 DEF IndexInv, IndexTypeOK, ChunkRecords
  <2>1. ASSUME NEW n \in Namespace, NEW k \in Key, NEW b \in Content[n], Put(n, k, b)
        PROVE  Stays
    <3>1. PICK ids \in Manifests[b], custom \in Meta :
                \E at \in FreshPages(ids) : CommitPut(n, k, b, ids, at, custom)
        BY <2>1 DEF Put
    <3>2. PICK at \in FreshPages(ids) : CommitPut(n, k, b, ids, at, custom)
        BY <3>1
    <3>3. at \in [DOMAIN ids -> Loc]
        BY DEF FreshPages
    <3> QED
        BY <1>3, <3>2, <3>3, PutChunks
  <2>2. ASSUME NEW n \in Namespace, NEW k \in Key, CommitDelete(n, k)
        PROVE  Stays
    <3>1. refs[n][k].blob \in Blob
        BY <2>0, <2>2 DEF CommitDelete, IndexTypeOK, RefEntry
    <3>2. DeletedIds(n, k) \in Seq(ChunkId)
        BY <2>0, <3>1 DEF DeletedIds, IndexTypeOK, BlobEntry
    <3> QED
        BY <2>0, <2>2, <3>2, ReleaseHeld DEF CommitDelete
  <2>3. ASSUME NEW c \in ChunkId, NEW l \in Loc, ReapPhysicalPageIfDead(c, l)
        PROVE  Stays
    <3> SUFFICES ASSUME NEW x \in ChunkId, chunks[x] # None, chunks[x].rc > 0
                 PROVE  chunks'[x] = chunks[x]
        OBVIOUS
    <3> QED
        BY <2>0, <2>3 DEF ReapPhysicalPageIfDead, SafeToReap, IndexTypeOK
  <2>4. chunks' = chunks => Stays
      OBVIOUS
  <2> HIDE DEF Stays
  <2> QED
      BY <1>3, <2>1, <2>2, <2>3, <2>4
      DEF IndexNext, CommitRenameRef, CommitUpdateRefMetadata, ReconcileDeadStats, PurgeScan,
          PurgeBlob
<1>4. IndexInv /\ [IndexNext]_ixVars => [Stays]_ixVars
    BY <1>3
<1> QED
    BY <1>1, <1>2, <1>4, PTL DEF IndexSpec, ReferencedChunkStays

-----------------------------------------------------------------------------
(* Sums                                                                    *)

Weights == [Key -> Nat]

\* A sum over finitely many units.
Counted(w) == w \in Weights /\ IsFiniteSet(Units(w))

\* A unit belongs to one key.
LEMMA UnitsOf ==
    ASSUME NEW w \in Weights, NEW u
    PROVE  u \in Units(w) <=> \E k \in Key : u \in {k} \X (1..w[k])
BY DEF Units, Weights

\* A key that comes to count for v adds that to the sum, and takes away what it counted for.
LEMMA OneKeyChanges ==
    ASSUME NEW w, Counted(w), NEW k \in Key, NEW v \in Nat
    PROVE  /\ Counted([w EXCEPT ![k] = v])
           /\ Total([w EXCEPT ![k] = v]) = Total(w) - w[k] + v
           /\ Total(w) \in Int
<1> DEFINE x == [w EXCEPT ![k] = v]
           U == Units(w)
           A == {k} \X (1..w[k])
           B == {k} \X (1..v)
<1>1. w \in Weights /\ x \in Weights /\ w[k] \in Nat /\ IsFiniteSet(U)
    BY DEF Weights, Counted
<1>2. \A q \in Key : x[q] = IF q = k THEN v ELSE w[q]
    BY <1>1 DEF Weights
<1>3. Units(x) = (U \ A) \cup B
  <2>1. ASSUME NEW u PROVE u \in Units(x) <=> u \in (U \ A) \cup B
    <3>1. u \in Units(x) <=> \E q \in Key : u \in {q} \X (1..x[q])
        BY <1>1, UnitsOf
    <3>2. u \in U <=> \E q \in Key : u \in {q} \X (1..w[q])
        BY <1>1, UnitsOf
    <3>3. \A q, S : u \in {q} \X S <=> u = <<u[1], u[2]>> /\ u[1] = q /\ u[2] \in S
        OBVIOUS
    <3> HIDE DEF x, U
    <3> QED
        BY <1>2, <3>1, <3>2, <3>3
  <2> QED
      BY <2>1
<1>4. A \in SUBSET U /\ (U \ A) \cap B = {}
  <2>1. \A u \in A : u \in U
      BY <1>1, UnitsOf
  <2>2. ASSUME NEW u \in U, u \in B PROVE u \in A
    <3>1. PICK q \in Key : u \in {q} \X (1..w[q])
        BY <1>1, UnitsOf
    <3>2. q = k
        BY <2>2, <3>1
    <3> QED
        BY <3>1, <3>2
  <2> QED
      BY <2>1, <2>2
<1>5. ASSUME NEW m \in Nat
      PROVE  IsFiniteSet({k} \X (1..m)) /\ Cardinality({k} \X (1..m)) = m
  <2>1. IsFiniteSet({k}) /\ Cardinality({k}) = 1
      BY FS_Singleton
  <2>2. IsFiniteSet(1..m) /\ Cardinality(1..m) = m
      BY FS_Interval
  <2>3. /\ IsFiniteSet({k} \X (1..m))
        /\ Cardinality({k} \X (1..m)) = Cardinality({k}) * Cardinality(1..m)
      BY <2>1, <2>2, FS_Product
  <2> QED
      BY <2>1, <2>2, <2>3
<1>6. Cardinality(A) = w[k] /\ Cardinality(B) = v /\ IsFiniteSet(B)
    BY <1>1, <1>5
<1> HIDE DEF U, A, B, x
<1>7. /\ IsFiniteSet((U \ A) \cup B)
      /\ Cardinality((U \ A) \cup B) = Cardinality(U) - Cardinality(A) + Cardinality(B)
      /\ Cardinality(U) \in Nat
  <2>1. IsFiniteSet(U) /\ A \in SUBSET U /\ IsFiniteSet(B) /\ (U \ A) \cap B = {}
      BY <1>1, <1>4, <1>6
  <2> QED
      BY SMTT(30), <2>1, Exchange
<1>8. Cardinality(U) = Total(w)
    BY DEF Total, U
<1>9. Cardinality((U \ A) \cup B) = Total(x)
    BY <1>3, Zenon DEF Total
<1>10. IsFiniteSet(Units(x))
    BY <1>3, <1>7, Zenon
<1>11. Counted(x)
    BY <1>1, <1>10 DEF Counted
<1>12. Total(x) = Total(w) - w[k] + v
    BY <1>6, <1>7, <1>8, <1>9
<1> QED
    BY <1>7, <1>8, <1>11, <1>12 DEF x

\* Nothing counts for nothing.
LEMMA NothingCounts ==
    ASSUME NEW w, w = [k \in Key |-> 0]
    PROVE  Counted(w) /\ Total(w) = 0
<1>1. w \in Weights /\ \A k \in Key : w[k] = 0
    BY DEF Weights
<1>2. Units(w) = {}
    BY <1>1, UnitsOf
<1> QED
    BY <1>1, <1>2, FS_EmptySet DEF Counted, Total

-----------------------------------------------------------------------------
(* The inductive invariant                                                 *)

\* The sums are over finitely many units.
SumsAreFinite ==
    \A n \in Namespace : Counted(BlobsAt(n)) /\ Counted(BytesAt(n)) /\ Counted(ChunksAt(n))

QuotaInv == IndexTypeOK /\ SumsAreFinite /\ QuotasCountRefs

\* A reference's own count is the length of a manifest of its content; with one chunker
\* configuration, of the manifest.
RefsCountChunks ==
    \A n \in Namespace, k \in Key : refs[n][k] # None =>
        \E ids \in Manifests[refs[n][k].blob] : refs[n][k].count = Len(ids)

StatsInv == QuotaInv /\ StatsCountRefs /\ RefsCountChunks

LEMMA WeightTypes ==
    IndexTypeOK => \A n \in Namespace :
        BlobsAt(n) \in Weights /\ BytesAt(n) \in Weights /\ ChunksAt(n) \in Weights
<1> SUFFICES ASSUME IndexTypeOK, NEW n \in Namespace
             PROVE  BlobsAt(n) \in Weights /\ BytesAt(n) \in Weights /\ ChunksAt(n) \in Weights
    OBVIOUS
<1>1. \A k \in Key : refs[n][k] # None =>
          Size[refs[n][k].blob] \in Nat /\ refs[n][k].count \in Nat
    BY SizeAssumption DEF IndexTypeOK, RefEntry
<1> QED
    BY <1>1 DEF BlobsAt, BytesAt, ChunksAt, Weights

\* A transaction on one key of namespace n leaves the others' weights alone.
LEMMA KeyChanges ==
    ASSUME IndexTypeOK, IndexTypeOK', NEW n \in Namespace, NEW k \in Key,
           \A n2 \in Namespace, k2 \in Key :
               n2 # n \/ k2 # k => refs'[n2][k2] = refs[n2][k2]
    PROVE  /\ BlobsAt(n)' = [BlobsAt(n) EXCEPT ![k] = BlobsAt(n)'[k]]
           /\ BytesAt(n)' = [BytesAt(n) EXCEPT ![k] = BytesAt(n)'[k]]
           /\ ChunksAt(n)' = [ChunksAt(n) EXCEPT ![k] = ChunksAt(n)'[k]]
           /\ BlobsAt(n)'[k] \in Nat /\ BytesAt(n)'[k] \in Nat /\ ChunksAt(n)'[k] \in Nat
           /\ \A n2 \in Namespace : n2 # n =>
                 /\ BlobsAt(n2)' = BlobsAt(n2)
                 /\ BytesAt(n2)' = BytesAt(n2)
                 /\ ChunksAt(n2)' = ChunksAt(n2)
<1>1. \A q \in Key : refs'[n][q] # None =>
          Size[refs'[n][q].blob] \in Nat /\ refs'[n][q].count \in Nat
    BY SizeAssumption DEF IndexTypeOK, RefEntry
<1> QED
    BY ZenonT(40), <1>1 DEF BlobsAt, BytesAt, ChunksAt

\* The sums after a transaction on one key.
LEMMA OneKeyStep ==
    ASSUME IndexTypeOK, IndexTypeOK', SumsAreFinite, NEW n \in Namespace, NEW k \in Key,
           \A n2 \in Namespace, k2 \in Key :
               n2 # n \/ k2 # k => refs'[n2][k2] = refs[n2][k2]
    PROVE  /\ SumsAreFinite'
           /\ Total(BlobsAt(n)') = Total(BlobsAt(n)) - BlobsAt(n)[k] + BlobsAt(n)'[k]
           /\ Total(BytesAt(n)') = Total(BytesAt(n)) - BytesAt(n)[k] + BytesAt(n)'[k]
           /\ Total(ChunksAt(n)') = Total(ChunksAt(n)) - ChunksAt(n)[k] + ChunksAt(n)'[k]
           /\ \A n2 \in Namespace : n2 # n =>
                 /\ Total(BlobsAt(n2)') = Total(BlobsAt(n2))
                 /\ Total(BytesAt(n2)') = Total(BytesAt(n2))
                 /\ Total(ChunksAt(n2)') = Total(ChunksAt(n2))
<1>1. /\ Counted(BlobsAt(n)') /\ Counted(BytesAt(n)') /\ Counted(ChunksAt(n)')
      /\ Total(BlobsAt(n)') = Total(BlobsAt(n)) - BlobsAt(n)[k] + BlobsAt(n)'[k]
      /\ Total(BytesAt(n)') = Total(BytesAt(n)) - BytesAt(n)[k] + BytesAt(n)'[k]
      /\ Total(ChunksAt(n)') = Total(ChunksAt(n)) - ChunksAt(n)[k] + ChunksAt(n)'[k]
  <2>0. /\ Counted(BlobsAt(n)) /\ Counted(BytesAt(n)) /\ Counted(ChunksAt(n))
        /\ BlobsAt(n)'[k] \in Nat /\ BytesAt(n)'[k] \in Nat /\ ChunksAt(n)'[k] \in Nat
      BY KeyChanges DEF SumsAreFinite
  <2>1. /\ Counted([BlobsAt(n) EXCEPT ![k] = BlobsAt(n)'[k]])
        /\ Total([BlobsAt(n) EXCEPT ![k] = BlobsAt(n)'[k]])
             = Total(BlobsAt(n)) - BlobsAt(n)[k] + BlobsAt(n)'[k]
      BY <2>0, OneKeyChanges
  <2>2. /\ Counted([BytesAt(n) EXCEPT ![k] = BytesAt(n)'[k]])
        /\ Total([BytesAt(n) EXCEPT ![k] = BytesAt(n)'[k]])
             = Total(BytesAt(n)) - BytesAt(n)[k] + BytesAt(n)'[k]
      BY <2>0, OneKeyChanges
  <2>3. /\ Counted([ChunksAt(n) EXCEPT ![k] = ChunksAt(n)'[k]])
        /\ Total([ChunksAt(n) EXCEPT ![k] = ChunksAt(n)'[k]])
             = Total(ChunksAt(n)) - ChunksAt(n)[k] + ChunksAt(n)'[k]
      BY <2>0, OneKeyChanges
  <2>4. /\ BlobsAt(n)' = [BlobsAt(n) EXCEPT ![k] = BlobsAt(n)'[k]]
        /\ BytesAt(n)' = [BytesAt(n) EXCEPT ![k] = BytesAt(n)'[k]]
        /\ ChunksAt(n)' = [ChunksAt(n) EXCEPT ![k] = ChunksAt(n)'[k]]
      BY KeyChanges
  <2> QED
      BY <2>1, <2>2, <2>3, <2>4
<1>2. ASSUME NEW n2 \in Namespace, n2 # n
      PROVE  /\ BlobsAt(n2)' = BlobsAt(n2)
             /\ BytesAt(n2)' = BytesAt(n2)
             /\ ChunksAt(n2)' = ChunksAt(n2)
    BY <1>2, KeyChanges
<1> QED
    BY <1>1, <1>2 DEF SumsAreFinite

\* A put.
LEMMA PutStats ==
    ASSUME QuotaInv, IndexTypeOK', NEW n \in Namespace, NEW k \in Key,
           NEW b \in Blob, NEW ids \in Manifests[b], NEW at, NEW custom \in Meta,
           CommitPut(n, k, b, ids, at, custom)
    PROVE  QuotaInv' /\ (OneManifest /\ StatsInv => StatsInv')
<1> DEFINE over == refs[n][k] # None
           same == over /\ refs[n][k].blob = b
           s == stats[n]
           new == [blob |-> b, count |-> Len(ids), custom |-> custom]
<1>1. /\ IndexTypeOK /\ SumsAreFinite /\ Size[b] \in Nat /\ Len(ids) \in Nat
      /\ new # None
  <2>1. ids \in Seq(ChunkId)
      BY ManifestAssumption
  <2>2. new \in RefEntry
      BY <2>1 DEF RefEntry
  <2> QED
      BY <2>1, <2>2, SizeAssumption, NoneAssumption DEF QuotaInv
<1>2. \A n2 \in Namespace, k2 \in Key :
          refs'[n2][k2] = IF n2 = n /\ k2 = k THEN new ELSE refs[n2][k2]
    BY <1>1 DEF CommitPut, IndexTypeOK
<1>3. /\ stats'[n].blobCount = s.blobCount + IF over THEN 0 ELSE 1
      /\ stats'[n].bytesStored = s.bytesStored +
             (IF ~over THEN Size[b] ELSE IF same THEN 0 ELSE Size[b] - Size[refs[n][k].blob])
      /\ stats'[n].chunkCount = s.chunkCount +
             (IF ~over THEN Len(ids) ELSE IF same THEN 0 ELSE Len(ids) - refs[n][k].count)
      /\ \A n2 \in Namespace : n2 # n => stats'[n2] = stats[n2]
  <2>1. stats' = [stats EXCEPT ![n] = StatsAfterPut(n, k, b, ids)] /\ n \in DOMAIN stats
      BY <1>1 DEF CommitPut, IndexTypeOK
  <2>2. stats'[n] = StatsAfterPut(n, k, b, ids)
      BY <2>1
  <2>3. \A n2 \in Namespace : n2 # n => stats'[n2] = stats[n2]
      BY <1>1, <2>1 DEF IndexTypeOK
  <2> QED
      BY <2>2, <2>3 DEF StatsAfterPut, IsOverwrite, SameContent
<1>4. /\ BlobsAt(n)[k] = IF over THEN 1 ELSE 0
      /\ BlobsAt(n)'[k] = 1
      /\ BytesAt(n)[k] = IF over THEN Size[refs[n][k].blob] ELSE 0
      /\ BytesAt(n)'[k] = Size[b]
      /\ ChunksAt(n)[k] = IF over THEN refs[n][k].count ELSE 0
      /\ ChunksAt(n)'[k] = Len(ids)
      /\ over => Size[refs[n][k].blob] \in Nat /\ refs[n][k].count \in Nat
    BY <1>1, <1>2, SizeAssumption DEF BlobsAt, BytesAt, ChunksAt, IndexTypeOK, RefEntry
<1>5. /\ SumsAreFinite'
      /\ Total(BlobsAt(n)') = Total(BlobsAt(n)) - BlobsAt(n)[k] + BlobsAt(n)'[k]
      /\ Total(BytesAt(n)') = Total(BytesAt(n)) - BytesAt(n)[k] + BytesAt(n)'[k]
      /\ Total(ChunksAt(n)') = Total(ChunksAt(n)) - ChunksAt(n)[k] + ChunksAt(n)'[k]
      /\ \A n2 \in Namespace : n2 # n =>
            /\ Total(BlobsAt(n2)') = Total(BlobsAt(n2))
            /\ Total(BytesAt(n2)') = Total(BytesAt(n2))
            /\ Total(ChunksAt(n2)') = Total(ChunksAt(n2))
    BY <1>1, <1>2, OneKeyStep
<1>6. /\ Total(BlobsAt(n)) = s.blobCount /\ Total(BytesAt(n)) = s.bytesStored
      /\ s.blobCount \in Int /\ s.bytesStored \in Int /\ s.chunkCount \in Int
    BY <1>1 DEF QuotaInv, QuotasCountRefs, IndexTypeOK, Stats
<1>7. QuotasCountRefs'
  <2>1. stats'[n].blobCount = Total(BlobsAt(n)')
      BY <1>3, <1>4, <1>5, <1>6
  <2>2. stats'[n].bytesStored = Total(BytesAt(n)')
      BY <1>1, <1>3, <1>4, <1>5, <1>6
  <2> QED
      BY <1>3, <1>5, <2>1, <2>2 DEF QuotasCountRefs, QuotaInv
<1>8. ASSUME OneManifest, StatsInv PROVE StatsInv'
  <2>1. Total(ChunksAt(n)) = s.chunkCount
      BY <1>8 DEF StatsInv, StatsCountRefs
  <2>2. same => refs[n][k].count = Len(ids)
      BY <1>8 DEF StatsInv, RefsCountChunks, OneManifest
  <2>3. stats'[n].chunkCount = Total(ChunksAt(n)')
      BY <1>1, <1>3, <1>4, <1>5, <1>6, <2>1, <2>2
  <2>4. StatsCountRefs'
      BY <1>3, <1>5, <1>7, <1>8, <2>3 DEF StatsInv, StatsCountRefs
  <2>5. RefsCountChunks'
      BY <1>2, <1>8 DEF StatsInv, RefsCountChunks
  <2> QED
      BY <1>5, <1>7, <2>4, <2>5 DEF StatsInv, QuotaInv
<1> QED
    BY <1>5, <1>7, <1>8 DEF QuotaInv

\* A delete.
LEMMA DeleteStats ==
    ASSUME QuotaInv, IndexTypeOK', NEW n \in Namespace, NEW k \in Key, CommitDelete(n, k)
    PROVE  QuotaInv' /\ (StatsInv => StatsInv')
<1> DEFINE s == stats[n]
<1>1. IndexTypeOK /\ SumsAreFinite /\ refs[n][k] # None
    BY DEF QuotaInv, CommitDelete
<1>2. \A n2 \in Namespace, k2 \in Key :
          refs'[n2][k2] = IF n2 = n /\ k2 = k THEN None ELSE refs[n2][k2]
    BY <1>1 DEF CommitDelete, IndexTypeOK
<1>3. /\ stats'[n].blobCount = s.blobCount - 1
      /\ stats'[n].bytesStored = s.bytesStored - Size[refs[n][k].blob]
      /\ stats'[n].chunkCount = s.chunkCount - refs[n][k].count
      /\ \A n2 \in Namespace : n2 # n => stats'[n2] = stats[n2]
  <2>1. stats' = [stats EXCEPT ![n] = StatsAfterDelete(n, k)] /\ n \in DOMAIN stats
      BY <1>1 DEF CommitDelete, IndexTypeOK
  <2>2. stats'[n] = StatsAfterDelete(n, k)
      BY <2>1
  <2>3. \A n2 \in Namespace : n2 # n => stats'[n2] = stats[n2]
      BY <1>1, <2>1 DEF IndexTypeOK
  <2> QED
      BY <2>2, <2>3 DEF StatsAfterDelete
<1>4. /\ BlobsAt(n)[k] = 1 /\ BlobsAt(n)'[k] = 0
      /\ BytesAt(n)[k] = Size[refs[n][k].blob] /\ BytesAt(n)'[k] = 0
      /\ ChunksAt(n)[k] = refs[n][k].count /\ ChunksAt(n)'[k] = 0
      /\ Size[refs[n][k].blob] \in Nat /\ refs[n][k].count \in Nat
    BY <1>1, <1>2, SizeAssumption DEF BlobsAt, BytesAt, ChunksAt, IndexTypeOK, RefEntry
<1>5. /\ SumsAreFinite'
      /\ Total(BlobsAt(n)') = Total(BlobsAt(n)) - BlobsAt(n)[k] + BlobsAt(n)'[k]
      /\ Total(BytesAt(n)') = Total(BytesAt(n)) - BytesAt(n)[k] + BytesAt(n)'[k]
      /\ Total(ChunksAt(n)') = Total(ChunksAt(n)) - ChunksAt(n)[k] + ChunksAt(n)'[k]
      /\ \A n2 \in Namespace : n2 # n =>
            /\ Total(BlobsAt(n2)') = Total(BlobsAt(n2))
            /\ Total(BytesAt(n2)') = Total(BytesAt(n2))
            /\ Total(ChunksAt(n2)') = Total(ChunksAt(n2))
    BY <1>1, <1>2, OneKeyStep
<1>6. /\ Total(BlobsAt(n)) = s.blobCount /\ Total(BytesAt(n)) = s.bytesStored
      /\ s.blobCount \in Int /\ s.bytesStored \in Int /\ s.chunkCount \in Int
    BY <1>1 DEF QuotaInv, QuotasCountRefs, IndexTypeOK, Stats
<1>7. QuotasCountRefs'
  <2>1. stats'[n].blobCount = Total(BlobsAt(n)') /\ stats'[n].bytesStored = Total(BytesAt(n)')
      BY <1>3, <1>4, <1>5, <1>6
  <2> QED
      BY <1>3, <1>5, <2>1 DEF QuotasCountRefs, QuotaInv
<1>8. ASSUME StatsInv PROVE StatsInv'
  <2>1. Total(ChunksAt(n)) = s.chunkCount
      BY <1>8 DEF StatsInv, StatsCountRefs
  <2>2. stats'[n].chunkCount = Total(ChunksAt(n)')
      BY <1>3, <1>4, <1>5, <1>6, <2>1
  <2>3. StatsCountRefs'
      BY <1>3, <1>5, <1>7, <1>8, <2>2 DEF StatsInv, StatsCountRefs
  <2>4. RefsCountChunks'
      BY <1>2, <1>8 DEF StatsInv, RefsCountChunks
  <2> QED
      BY <1>5, <1>7, <2>3, <2>4 DEF StatsInv, QuotaInv
<1> QED
    BY <1>5, <1>7, <1>8 DEF QuotaInv

\* What a key counted for is counted under its new name.
LEMMA WeightMoves ==
    ASSUME NEW w, Counted(w), NEW old \in Key, NEW new \in Key, old # new, w[new] = 0
    PROVE  LET x == [[w EXCEPT ![old] = 0] EXCEPT ![new] = w[old]]
           IN  Counted(x) /\ Total(x) = Total(w)
<1> DEFINE y == [w EXCEPT ![old] = 0]
           x == [y EXCEPT ![new] = w[old]]
<1>1. w[old] \in Nat /\ w \in Weights
    BY DEF Counted, Weights
<1>2. Counted(y) /\ Total(y) = Total(w) - w[old] + 0 /\ Total(w) \in Int
  <2>1. 0 \in Nat
      OBVIOUS
  <2> QED
      BY <2>1, OneKeyChanges
<1>3. y[new] = 0
    BY <1>1 DEF Weights
<1> HIDE DEF y
<1>4. Counted(x) /\ Total(x) = Total(y) - y[new] + w[old]
    BY <1>1, <1>2, OneKeyChanges
<1> QED
    BY <1>1, <1>2, <1>3, <1>4 DEF y

\* A rename. No counter moves: the reference keeps its content.
LEMMA RenameStats ==
    ASSUME QuotaInv, IndexTypeOK', NEW n \in Namespace, NEW old \in Key, NEW new \in Key,
           CommitRenameRef(n, old, new)
    PROVE  QuotaInv' /\ (StatsInv => StatsInv')
<1> DEFINE Moved(w) == [[w EXCEPT ![old] = 0] EXCEPT ![new] = w[old]]
<1>1. /\ IndexTypeOK /\ SumsAreFinite /\ old # new
      /\ refs[n][old] # None /\ refs[n][new] = None /\ stats' = stats
    BY DEF QuotaInv, CommitRenameRef
<1>2. \A n2 \in Namespace, k \in Key :
          refs'[n2][k] = IF n2 = n /\ k = new THEN refs[n][old]
                         ELSE IF n2 = n /\ k = old THEN None ELSE refs[n2][k]
    BY <1>1 DEF CommitRenameRef, IndexTypeOK
<1>3. /\ BlobsAt(n)' = Moved(BlobsAt(n))
      /\ BytesAt(n)' = Moved(BytesAt(n))
      /\ ChunksAt(n)' = Moved(ChunksAt(n))
    BY <1>1, <1>2 DEF BlobsAt, BytesAt, ChunksAt
<1>4. BlobsAt(n)[new] = 0 /\ BytesAt(n)[new] = 0 /\ ChunksAt(n)[new] = 0
    BY <1>1 DEF BlobsAt, BytesAt, ChunksAt
<1>5. \A n2 \in Namespace : n2 # n =>
          /\ BlobsAt(n2)' = BlobsAt(n2)
          /\ BytesAt(n2)' = BytesAt(n2)
          /\ ChunksAt(n2)' = ChunksAt(n2)
    BY <1>2 DEF BlobsAt, BytesAt, ChunksAt
<1>6. /\ Counted(Moved(BlobsAt(n))) /\ Total(Moved(BlobsAt(n))) = Total(BlobsAt(n))
      /\ Counted(Moved(BytesAt(n))) /\ Total(Moved(BytesAt(n))) = Total(BytesAt(n))
      /\ Counted(Moved(ChunksAt(n))) /\ Total(Moved(ChunksAt(n))) = Total(ChunksAt(n))
  <2>1. /\ Counted(BlobsAt(n)) /\ Counted(BytesAt(n)) /\ Counted(ChunksAt(n))
      BY <1>1 DEF SumsAreFinite
  <2>2. Counted(Moved(BlobsAt(n))) /\ Total(Moved(BlobsAt(n))) = Total(BlobsAt(n))
      BY <1>1, <1>4, <2>1, WeightMoves
  <2>3. Counted(Moved(BytesAt(n))) /\ Total(Moved(BytesAt(n))) = Total(BytesAt(n))
      BY <1>1, <1>4, <2>1, WeightMoves
  <2>4. Counted(Moved(ChunksAt(n))) /\ Total(Moved(ChunksAt(n))) = Total(ChunksAt(n))
      BY <1>1, <1>4, <2>1, WeightMoves
  <2> QED
      BY <2>2, <2>3, <2>4
<1> HIDE DEF Moved
<1>7. /\ SumsAreFinite'
      /\ \A n2 \in Namespace :
            /\ Total(BlobsAt(n2)') = Total(BlobsAt(n2))
            /\ Total(BytesAt(n2)') = Total(BytesAt(n2))
            /\ Total(ChunksAt(n2)') = Total(ChunksAt(n2))
    BY <1>1, <1>3, <1>5, <1>6 DEF SumsAreFinite
<1>8. QuotaInv'
    BY <1>1, <1>7 DEF QuotaInv, QuotasCountRefs
<1>9. ASSUME StatsInv PROVE StatsInv'
  <2>1. StatsCountRefs'
      BY <1>1, <1>7, <1>8, <1>9 DEF QuotaInv, StatsInv, StatsCountRefs
  <2>2. RefsCountChunks'
      BY <1>1, <1>2, <1>9 DEF StatsInv, RefsCountChunks
  <2> QED
      BY <1>8, <2>1, <2>2 DEF StatsInv
<1> QED
    BY <1>8, <1>9

\* A step that leaves every reference's content, and the counters, as they are.
LEMMA SameStats ==
    ASSUME QuotaInv, IndexTypeOK',
           \A n \in Namespace, k \in Key :
               \/ refs'[n][k] = None /\ refs[n][k] = None
               \/ /\ refs'[n][k] # None /\ refs[n][k] # None
                  /\ refs'[n][k].blob = refs[n][k].blob
                  /\ refs'[n][k].count = refs[n][k].count,
           \A n \in Namespace :
               /\ stats'[n].blobCount = stats[n].blobCount
               /\ stats'[n].bytesStored = stats[n].bytesStored
               /\ stats'[n].chunkCount = stats[n].chunkCount
    PROVE  QuotaInv' /\ (StatsInv => StatsInv')
<1>1. \A n \in Namespace :
          /\ BlobsAt(n)' = BlobsAt(n)
          /\ BytesAt(n)' = BytesAt(n)
          /\ ChunksAt(n)' = ChunksAt(n)
    BY DEF BlobsAt, BytesAt, ChunksAt
<1>2. SumsAreFinite' /\ QuotasCountRefs'
    BY <1>1 DEF QuotaInv, SumsAreFinite, QuotasCountRefs
<1>3. ASSUME StatsInv PROVE StatsInv'
  <2>1. StatsCountRefs'
      BY <1>1, <1>2, <1>3 DEF StatsInv, StatsCountRefs
  <2>2. RefsCountChunks'
      BY <1>3 DEF StatsInv, RefsCountChunks
  <2> QED
      BY <1>2, <2>1, <2>2 DEF StatsInv, QuotaInv
<1> QED
    BY <1>2, <1>3 DEF QuotaInv

-----------------------------------------------------------------------------
(* Every step                                                              *)

LEMMA StatsInitially ==
    ASSUME IndexInit PROVE QuotaInv /\ StatsInv
<1>1. IndexTypeOK
    BY TypeInit
<1>2. \A n \in Namespace :
          /\ BlobsAt(n) = [k \in Key |-> 0]
          /\ BytesAt(n) = [k \in Key |-> 0]
          /\ ChunksAt(n) = [k \in Key |-> 0]
    BY DEF IndexInit, BlobsAt, BytesAt, ChunksAt
<1>3. \A n \in Namespace :
          /\ Counted(BlobsAt(n)) /\ Total(BlobsAt(n)) = 0
          /\ Counted(BytesAt(n)) /\ Total(BytesAt(n)) = 0
          /\ Counted(ChunksAt(n)) /\ Total(ChunksAt(n)) = 0
    BY <1>2, NothingCounts
<1>4. \A n \in Namespace :
          stats[n].blobCount = 0 /\ stats[n].bytesStored = 0 /\ stats[n].chunkCount = 0
    BY DEF IndexInit
<1>5. RefsCountChunks
    BY DEF IndexInit, RefsCountChunks
<1> QED
    BY <1>1, <1>3, <1>4, <1>5
    DEF QuotaInv, StatsInv, SumsAreFinite, QuotasCountRefs, StatsCountRefs

LEMMA StatsStep ==
    ASSUME QuotaInv, [IndexNext]_ixVars
    PROVE  QuotaInv' /\ (OneManifest /\ StatsInv => StatsInv')
<1>1. IndexTypeOK'
    BY TypeStep DEF QuotaInv
<1>2. ASSUME NEW n \in Namespace, NEW k \in Key, NEW b \in Content[n], Put(n, k, b)
      PROVE  QuotaInv' /\ (OneManifest /\ StatsInv => StatsInv')
  <2>1. b \in Blob
      BY ContentAssumption
  <2>2. PICK ids \in Manifests[b], custom \in Meta :
            \E at \in FreshPages(ids) : CommitPut(n, k, b, ids, at, custom)
      BY <1>2 DEF Put
  <2>3. PICK at \in FreshPages(ids) : CommitPut(n, k, b, ids, at, custom)
      BY <2>2
  <2> QED
      BY <1>1, <2>1, <2>3, PutStats
<1>3. ASSUME NEW n \in Namespace, NEW k \in Key, CommitDelete(n, k)
      PROVE  QuotaInv' /\ (OneManifest /\ StatsInv => StatsInv')
    BY <1>1, <1>3, DeleteStats
<1>4. ASSUME NEW n \in Namespace, NEW old \in Key, NEW new \in Key, CommitRenameRef(n, old, new)
      PROVE  QuotaInv' /\ (OneManifest /\ StatsInv => StatsInv')
    BY <1>1, <1>4, RenameStats
<1>5. ASSUME NEW n \in Namespace, NEW k \in Key, NEW custom \in Meta,
             CommitUpdateRefMetadata(n, k, custom)
      PROVE  QuotaInv' /\ (OneManifest /\ StatsInv => StatsInv')
  <2>1. stats' = stats /\ refs[n][k] # None
        /\ refs' = [refs EXCEPT ![n][k] = [@ EXCEPT !.custom = custom]]
      BY <1>5 DEF CommitUpdateRefMetadata
  <2>2. refs[n][k] \in RefEntry /\ [refs[n][k] EXCEPT !.custom = custom] \in RefEntry
      BY <2>1 DEF QuotaInv, IndexTypeOK, RefEntry
  <2>3. /\ refs'[n][k] = [refs[n][k] EXCEPT !.custom = custom]
        /\ \A n2 \in Namespace, k2 \in Key :
              n2 # n \/ k2 # k => refs'[n2][k2] = refs[n2][k2]
      BY <2>1 DEF QuotaInv, IndexTypeOK
  <2>4. /\ refs'[n][k] # None
        /\ refs'[n][k].blob = refs[n][k].blob
        /\ refs'[n][k].count = refs[n][k].count
      BY <2>2, <2>3, NoneAssumption DEF RefEntry
  <2>5. \A n2 \in Namespace, k2 \in Key :
            \/ refs'[n2][k2] = None /\ refs[n2][k2] = None
            \/ /\ refs'[n2][k2] # None /\ refs[n2][k2] # None
               /\ refs'[n2][k2].blob = refs[n2][k2].blob
               /\ refs'[n2][k2].count = refs[n2][k2].count
      BY <2>1, <2>3, <2>4
  <2> QED
      BY <1>1, <2>1, <2>5, SameStats
<1>6. ASSUME NEW n \in Namespace, NEW pages \in 1..Cardinality(ChunkId),
             ReconcileDeadStats(n, pages)
      PROVE  QuotaInv' /\ (OneManifest /\ StatsInv => StatsInv')
  <2>1. refs' = refs
      BY <1>6 DEF ReconcileDeadStats
  <2>2. \A m \in Namespace :
            /\ stats'[m].blobCount = stats[m].blobCount
            /\ stats'[m].bytesStored = stats[m].bytesStored
            /\ stats'[m].chunkCount = stats[m].chunkCount
      BY <1>6 DEF ReconcileDeadStats, QuotaInv, IndexTypeOK, Stats
  <2> QED
      BY <1>1, <2>1, <2>2, SameStats
<1>7. CASE /\ refs' = refs
           /\ stats' = stats
    BY <1>1, <1>7, SameStats
<1>8. ASSUME NEW c \in ChunkId, NEW l \in Loc, ReapPhysicalPageIfDead(c, l)
      PROVE  refs' = refs /\ stats' = stats
    BY <1>8 DEF ReapPhysicalPageIfDead
<1>9. PurgeScan \/ (\E b \in Blob : PurgeBlob(b)) \/ UNCHANGED ixVars
          => refs' = refs /\ stats' = stats
    BY DEF PurgeScan, PurgeBlob, ixVars
<1> QED
    BY <1>2, <1>3, <1>4, <1>5, <1>6, <1>7, <1>8, <1>9 DEF IndexNext

-----------------------------------------------------------------------------
(* The theorems                                                            *)

\* BlobCount and BytesStored, which Put compares with the namespace's quotas,
\* are at all times the number and the total size of its live references:
\* whichever overwrites, deletes and renames came before, and whatever the
\* other namespaces do with the same contents (StatsAfterPut, StatsAfterDelete:
\* index.go, CommitPut step 6 and CommitDelete).
THEOREM QuotasAreTrue == IndexSpec => []QuotasCountRefs
<1>1. IndexInit => QuotaInv
    BY StatsInitially
<1>2. QuotaInv /\ [IndexNext]_ixVars => QuotaInv'
    BY StatsStep
<1>3. QuotaInv => QuotasCountRefs
    BY DEF QuotaInv
<1> QED
    BY <1>1, <1>2, <1>3, PTL DEF IndexSpec

\* ChunkCount too is the sum over the live references, as long as a content is
\* always cut the same way: an overwrite with the same content replaces the
\* reference's own count and leaves the counter (index.go, CommitPut step 6).
THEOREM StatsAreTrue ==
    ASSUME OneManifest
    PROVE  IndexSpec => []StatsCountRefs
<1>1. IndexInit => StatsInv
    BY StatsInitially
<1>2. StatsInv /\ [IndexNext]_ixVars => StatsInv'
    BY StatsStep DEF StatsInv
<1>3. StatsInv => StatsCountRefs
    BY DEF StatsInv
<1> QED
    BY <1>1, <1>2, <1>3, PTL DEF IndexSpec
=============================================================================
