----------------------------- MODULE BlobIndex -----------------------------
(***************************************************************************)
(* The metadata index of the blob store (src/index/index.go): references   *)
(* (namespace, key) -> blob, blob manifests, content-addressed chunk       *)
(* records and the per-namespace statistics.  Every exported Commit*,      *)
(* Reap* and Reconcile* operation runs in one backend transaction, so each *)
(* is one atomic action here; PurgeDeadBlobs is a scan followed by one     *)
(* transaction per candidate, and is modelled as such.                     *)
(*                                                                         *)
(* Simplifications:                                                        *)
(*   - A content hash is the content: a blob is a member of Blob and its   *)
(*     chunks are the members of ChunkId its manifest lists.               *)
(*   - A location (SegmentID, PageOffset) is a member of Loc.              *)
(*   - Byte counters that move in lock step with a chunk counter           *)
(*     (DeadBytes with DeadChunks) are represented by the chunk counter;   *)
(*     BytesPhysical is only ever added to and read by nobody but Stats,   *)
(*     and is left out.                                                    *)
(*   - Nonce, Tag and timestamps are left out: no operation tests them.    *)
(***************************************************************************)
EXTENDS Integers, Sequences, FiniteSets

CONSTANTS
    Namespace,   \* namespace ids
    Key,         \* user keys
    Blob,        \* blob ids: hashes of whole contents
    ChunkId,     \* chunk ids: hashes of chunk contents
    Content,     \* [Namespace -> SUBSET Blob]: what the callers of a namespace store
    Manifests,   \* [Blob -> SUBSET Seq(ChunkId)]: the ways the chunkers in use cut it
    Size,        \* [Blob -> Nat]: BlobEntry.TotalSize
    Loc,         \* physical locations: a segment and a page offset
    Meta,        \* values of RefMetadata.Custom
    None,        \* stands for a record that is absent from the backend
    MaxRefCount, \* bound on a blob's RefCount in Put (model checking only)
    MaxDead      \* bound on a namespace's DeadChunks in Put (model checking only)

RefEntry   == [blob : Blob, count : Nat, custom : Meta]
BlobEntry  == [rc : Int, ids : Seq(ChunkId)]
ChunkEntry == [ns : Namespace, rc : Nat, loc : Loc]
Stats      == [blobCount : Int, bytesStored : Int, chunkCount : Int, deadChunks : Int]

ASSUME ContentAssumption   == Content \in [Namespace -> SUBSET Blob]
ASSUME ManifestAssumption  ==
    /\ DOMAIN Manifests = Blob
    /\ \A b \in Blob : \A m \in Manifests[b] : m \in Seq(ChunkId)
ASSUME SizeAssumption      == Size \in [Blob -> Nat]
ASSUME NoneAssumption      ==
    None \notin RefEntry /\ None \notin BlobEntry /\ None \notin ChunkEntry
ASSUME BoundAssumption     == MaxRefCount \in Nat /\ MaxDead \in Nat

VARIABLES
    refs,        \* "ref:<ns>:<key>" records
    blobs,       \* "blob:<id>" records, shared by all namespaces
    chunks,      \* "chunk:<id>" records, shared by all namespaces
    stats,       \* "stats:<ns>" records
    candidates   \* the BlobIDs a running PurgeDeadBlobs has yet to re-check

ixVars == <<refs, blobs, chunks, stats, candidates>>

IndexTypeOK ==
    /\ refs \in [Namespace -> [Key -> RefEntry \cup {None}]]
    /\ blobs \in [Blob -> BlobEntry \cup {None}]
    /\ chunks \in [ChunkId -> ChunkEntry \cup {None}]
    /\ stats \in [Namespace -> Stats]
    /\ candidates \in SUBSET Blob

IndexInit ==
    /\ refs = [n \in Namespace |-> [k \in Key |-> None]]
    /\ blobs = [b \in Blob |-> None]
    /\ chunks = [c \in ChunkId |-> None]
    /\ stats = [n \in Namespace |->
                 [blobCount |-> 0, bytesStored |-> 0, chunkCount |-> 0, deadChunks |-> 0]]
    /\ candidates = {}

-----------------------------------------------------------------------------
(* Reference counting on chunk records                                     *)

\* How often chunk c occurs in the manifest ids.
Count(ids, c) == Cardinality({i \in DOMAIN ids : ids[i] = c})

\* The position of the first occurrence of c in ids.
FirstAt(ids, c) ==
    CHOOSE i \in DOMAIN ids : ids[i] = c /\ \A j \in DOMAIN ids : ids[j] = c => i <= j

\* c has a record, and n is the namespace it says its bytes are in.
Owned(ch, n, c) == ch[c] # None /\ ch[c].ns = n

\* Faulty variant of Release: a chunk loses one reference for every chunk of
\* the manifest, with no floor.
ReleaseLength(ch, ids) ==
    [c \in ChunkId |->
        IF ch[c] = None \/ Count(ids, c) = 0 THEN ch[c]
        ELSE [ch[c] EXCEPT !.rc = @ - Len(ids)]]

\* decrementChunkRefTx for every member of ids: absent records are skipped,
\* counters stop at zero.
Release(ch, ids) ==
    [c \in ChunkId |->
        IF ch[c] = None THEN None
        ELSE [ch[c] EXCEPT !.rc = IF @ > Count(ids, c) THEN @ - Count(ids, c) ELSE 0]]

\* The chunks whose last reference Release takes away: the new dead chunks.
Died(ch, ids) ==
    {c \in ChunkId : ch[c] # None /\ 0 < ch[c].rc /\ ch[c].rc <= Count(ids, c)}

\* Faulty variant of Acquire: a repeated chunk is counted once.
AcquireOnce(ch, n, ids, at) ==
    [c \in ChunkId |->
        IF Count(ids, c) = 0 THEN ch[c]
        ELSE IF Owned(ch, n, c)
             THEN [ch[c] EXCEPT !.rc = @ + 1]
             ELSE [ns |-> n, rc |-> 1, loc |-> at[FirstAt(ids, c)]]]

\* CommitPut's step 5 for a manifest ids whose i-th chunk was just written at
\* at[i]: a chunk this namespace has indexed keeps its location and gains the
\* references; any other record, a foreign namespace's included, is replaced
\* by the first of the new copies.
Acquire(ch, n, ids, at) ==
    [c \in ChunkId |->
        IF Count(ids, c) = 0 THEN ch[c]
        ELSE IF Owned(ch, n, c)
             THEN [ch[c] EXCEPT !.rc = @ + Count(ids, c)]
             ELSE [ns |-> n, rc |-> Count(ids, c), loc |-> at[FirstAt(ids, c)]]]

\* The dead chunks that Acquire brings back to life.
Revived(ch, n, ids) ==
    {c \in ChunkId : Count(ids, c) > 0 /\ Owned(ch, n, c) /\ ch[c].rc = 0}

\* The positions of ids whose freshly written copy Acquire does not use: the
\* "reused" result of CommitPut, which the caller marks deleted.
Duplicates(ch, n, ids) ==
    {i \in DOMAIN ids : Owned(ch, n, ids[i]) \/ i # FirstAt(ids, ids[i])}

-----------------------------------------------------------------------------
(* CommitPut: steps 1 to 6 of the transaction.                             *)

IsOverwrite(n, k)    == refs[n][k] # None
SameContent(n, k, b) == IsOverwrite(n, k) /\ refs[n][k].blob = b

\* Step 4's input: the manifest whose references an overwrite gives up.
Replaced(n, k, b) ==
    IF IsOverwrite(n, k) /\ ~SameContent(n, k, b) /\ blobs[refs[n][k].blob] # None
    THEN blobs[refs[n][k].blob].ids
    ELSE << >>

\* Steps 3 and 4 on the blob records. A record that exists keeps its own ids.
BlobsAfterPut(n, k, b, ids) ==
    [x \in Blob |->
        IF x = b
        THEN IF blobs[b] = None THEN [rc |-> 1, ids |-> ids]
             ELSE [blobs[b] EXCEPT !.rc = @ + 1]
        ELSE IF IsOverwrite(n, k) /\ refs[n][k].blob = x /\ blobs[x] # None
             THEN [blobs[x] EXCEPT !.rc = @ - 1]
             ELSE blobs[x]]

\* Step 6. Overwriting with the same content changes no logical counter.
StatsAfterPut(n, k, b, ids) ==
    LET s       == stats[n]
        over    == IsOverwrite(n, k)
        same    == SameContent(n, k, b)
        left    == Release(chunks, Replaced(n, k, b))
        died    == Cardinality(Died(chunks, Replaced(n, k, b)))
        revived == Cardinality(Revived(left, n, ids))
    IN  [blobCount   |-> s.blobCount + IF over THEN 0 ELSE 1,
         bytesStored |-> s.bytesStored +
                           (IF ~over THEN Size[b]
                            ELSE IF same THEN 0 ELSE Size[b] - Size[refs[n][k].blob]),
         chunkCount  |-> s.chunkCount +
                           (IF ~over THEN Len(ids)
                            ELSE IF same THEN 0 ELSE Len(ids) - refs[n][k].count),
         deadChunks  |-> s.deadChunks + died - revived]

CommitPut(n, k, b, ids, at, custom) ==
    LET left == Release(chunks, Replaced(n, k, b))
    IN  /\ refs' = [refs EXCEPT ![n][k] = [blob |-> b, count |-> Len(ids), custom |-> custom]]
        /\ blobs' = BlobsAfterPut(n, k, b, ids)
        /\ chunks' = Acquire(left, n, ids, at)
        /\ stats' = [stats EXCEPT ![n] = StatsAfterPut(n, k, b, ids)]

\* The positions CommitPut reports as reused.
PutDuplicates(n, k, b, ids) ==
    Duplicates(Release(chunks, Replaced(n, k, b)), n, ids)

-----------------------------------------------------------------------------
(* The other transactions                                                  *)

\* The chunks a deleted reference gives up: none if its manifest is missing.
DeletedIds(n, k) ==
    IF blobs[refs[n][k].blob] = None THEN << >> ELSE blobs[refs[n][k].blob].ids

BlobsAfterDelete(n, k) ==
    [x \in Blob |->
        IF refs[n][k].blob = x /\ blobs[x] # None
        THEN [blobs[x] EXCEPT !.rc = @ - 1] ELSE blobs[x]]

StatsAfterDelete(n, k) ==
    LET s == stats[n]
    IN  [blobCount   |-> s.blobCount - 1,
         bytesStored |-> s.bytesStored - Size[refs[n][k].blob],
         chunkCount  |-> s.chunkCount - refs[n][k].count,
         deadChunks  |-> s.deadChunks + Cardinality(Died(chunks, DeletedIds(n, k)))]

CommitDelete(n, k) ==
    /\ refs[n][k] # None
    /\ refs' = [refs EXCEPT ![n][k] = None]
    /\ blobs' = BlobsAfterDelete(n, k)
    /\ chunks' = Release(chunks, DeletedIds(n, k))
    /\ stats' = [stats EXCEPT ![n] = StatsAfterDelete(n, k)]

\* Faulty variant of CommitRenameRef: the new key may be taken.
RenameOver(n, old, new) ==
    /\ refs[n][old] # None
    /\ refs' = [refs EXCEPT ![n] = [@ EXCEPT ![new] = refs[n][old], ![old] = None]]
    /\ UNCHANGED <<blobs, chunks, stats>>

\* Fails, changing nothing, unless the old key exists and the new one does not.
CommitRenameRef(n, old, new) ==
    /\ refs[n][old] # None
    /\ refs[n][new] = None
    /\ refs' = [refs EXCEPT ![n] = [@ EXCEPT ![new] = refs[n][old], ![old] = None]]
    /\ UNCHANGED <<blobs, chunks, stats>>

CommitUpdateRefMetadata(n, k, custom) ==
    /\ refs[n][k] # None
    /\ refs' = [refs EXCEPT ![n][k] = [@ EXCEPT !.custom = custom]]
    /\ UNCHANGED <<blobs, chunks, stats>>

\* Whether a page scanned as chunk c at location l may be marked deleted. The
\* namespace of the record plays no part in the decision.
SafeToReap(c, l) ==
    chunks[c] # None => chunks[c].loc # l \/ chunks[c].rc = 0

\* Faulty variant of ReapPhysicalPageIfDead: the verdict on any copy of a chunk
\* takes the record with it.
ReapAnyGeneration(c, l) ==
    /\ SafeToReap(c, l)
    /\ chunks' = [chunks EXCEPT ![c] = None]
    /\ UNCHANGED <<refs, blobs, stats>>

\* The record goes only with its own, unreferenced page.
ReapPhysicalPageIfDead(c, l) ==
    /\ SafeToReap(c, l)
    /\ chunks' = [chunks EXCEPT ![c] = IF @ # None /\ @.loc = l THEN None ELSE @]
    /\ UNCHANGED <<refs, blobs, stats>>

\* n pages were marked deleted; the counter is clamped at zero.
ReconcileDeadStats(n, pages) ==
    /\ stats' = [stats EXCEPT ![n].deadChunks = IF @ > pages THEN @ - pages ELSE 0]
    /\ UNCHANGED <<refs, blobs, chunks>>

\* PurgeDeadBlobs, first half: a scan of all manifests.
PurgeScan ==
    /\ candidates = {}
    /\ candidates' = {b \in Blob : blobs[b] # None /\ blobs[b].rc = 0}
    /\ UNCHANGED <<refs, blobs, chunks, stats>>

\* Faulty variant of PurgeBlob: the scan's verdict is not re-checked.
PurgeUnchecked(b) ==
    /\ b \in candidates
    /\ candidates' = candidates \ {b}
    /\ blobs' = [blobs EXCEPT ![b] = None]
    /\ UNCHANGED <<refs, chunks, stats>>

\* Second half: a transaction per candidate deletes the manifest only if its
\* RefCount is still not positive.
PurgeBlob(b) ==
    /\ b \in candidates
    /\ candidates' = candidates \ {b}
    /\ blobs' = [blobs EXCEPT ![b] = IF @ # None /\ @.rc > 0 THEN @ ELSE None]
    /\ UNCHANGED <<refs, chunks, stats>>

-----------------------------------------------------------------------------
(* The index on its own: callers put, delete, rename and update; a         *)
(* compaction, whose scan may be arbitrarily out of date, reaps and purges.*)

\* Places for the chunks of ids that no record points at: WriteBlob appended
\* them before CommitPut runs.
FreshPages(ids) ==
    {at \in [DOMAIN ids -> Loc] :
        /\ \A i, j \in DOMAIN ids : at[i] = at[j] => i = j
        /\ \A i \in DOMAIN ids, c \in ChunkId : chunks[c] # None => chunks[c].loc # at[i]}

Put(n, k, b) ==
    /\ blobs[b] # None => blobs[b].rc < MaxRefCount
    /\ stats[n].deadChunks <= MaxDead
    /\ \E ids \in Manifests[b], custom \in Meta :
          \E at \in FreshPages(ids) : CommitPut(n, k, b, ids, at, custom)
    /\ UNCHANGED candidates

IndexNext ==
    \/ \E n \in Namespace, k \in Key : \E b \in Content[n] : Put(n, k, b)
    \/ \E n \in Namespace, k \in Key : CommitDelete(n, k) /\ UNCHANGED candidates
    \/ \E n \in Namespace, old, new \in Key :
          CommitRenameRef(n, old, new) /\ UNCHANGED candidates
    \/ \E n \in Namespace, k \in Key, custom \in Meta :
          CommitUpdateRefMetadata(n, k, custom) /\ UNCHANGED candidates
    \/ \E c \in ChunkId, l \in Loc :
          ReapPhysicalPageIfDead(c, l) /\ UNCHANGED candidates
    \/ \E n \in Namespace, pages \in 1..Cardinality(ChunkId) :
          ReconcileDeadStats(n, pages) /\ UNCHANGED candidates
    \/ PurgeScan
    \/ \E b \in Blob : PurgeBlob(b)

IndexSpec == IndexInit /\ [][IndexNext]_ixVars

-----------------------------------------------------------------------------
(* Properties                                                              *)

\* The references to blob b, from every namespace.
RefsTo(b) ==
    {p \in Namespace \X Key : refs[p[1]][p[2]] # None /\ refs[p[1]][p[2]].blob = b}

\* The chunks a reader of (n, k) will be sent to.
ManifestOf(n, k) ==
    IF refs[n][k] = None THEN << >>
    ELSE IF blobs[refs[n][k].blob] = None THEN << >> ELSE blobs[refs[n][k].blob].ids

UsesAt(n, k, c) ==
    {<<n, k, i>> : i \in {j \in DOMAIN ManifestOf(n, k) : ManifestOf(n, k)[j] = c}}

\* Every place where a live reference needs chunk c.
Uses(c) == UNION {UsesAt(p[1], p[2], c) : p \in Namespace \X Key}

\* A manifest some reference points at is recorded, with a RefCount no smaller
\* than the number of those references (in all namespaces): deleting some of
\* them, in any order, can never bring it to the zero that PurgeDeadBlobs
\* collects while one remains.
BlobRefCountCoversRefs ==
    \A b \in Blob : RefsTo(b) # {} =>
        blobs[b] # None /\ blobs[b].rc >= Cardinality(RefsTo(b))

\* The same for chunk records, counting a chunk once per occurrence in the
\* manifest of each live reference: Compact never finds the chunk of a
\* readable key at RefCount zero.
ChunkRefCountCoversUses ==
    \A c \in ChunkId : Uses(c) # {} =>
        chunks[c] # None /\ chunks[c].rc >= Cardinality(Uses(c))

\* What each key of namespace n counts for in the statistics.
BlobsAt(n)  == [k \in Key |-> IF refs[n][k] = None THEN 0 ELSE 1]
BytesAt(n)  == [k \in Key |-> IF refs[n][k] = None THEN 0 ELSE Size[refs[n][k].blob]]
ChunksAt(n) == [k \in Key |-> IF refs[n][k] = None THEN 0 ELSE refs[n][k].count]

\* A sum is the number of all units it is made of.
Units(weight) == UNION {{k} \X (1..weight[k]) : k \in DOMAIN weight}
Total(weight) == Cardinality(Units(weight))

\* The counters that the quota check of Put compares against are those of the live
\* references: an overwrite, a rename and a delete each adjust them by exactly what changed.
QuotasCountRefs ==
    \A n \in Namespace :
        /\ stats[n].blobCount = Total(BlobsAt(n))
        /\ stats[n].bytesStored = Total(BytesAt(n))

\* All counters of NamespaceStats agree with the references they summarise.
StatsCountRefs ==
    /\ QuotasCountRefs
    /\ \A n \in Namespace : stats[n].chunkCount = Total(ChunksAt(n))

\* A record with references is neither dropped nor moved by any index
\* transaction: not by a reap working from a stale scan, not by a put of the
\* same content that has just written another copy.
ReferencedChunkStays ==
    [][\A c \in ChunkId : chunks[c] # None /\ chunks[c].rc > 0 =>
          chunks'[c] # None /\ chunks'[c].loc = chunks[c].loc]_ixVars

\* Every Open of the store used chunkers that cut a content the same way.
OneManifest ==
    \A b \in Blob : \A ids1, ids2 \in Manifests[b] : ids1 = ids2

\* No two namespaces store contents that have a chunk in common.
NoSharedContent ==
    \A n1, n2 \in Namespace : n1 # n2 =>
        \A b1 \in Content[n1], b2 \in Content[n2] :
            \A ids1 \in Manifests[b1], ids2 \in Manifests[b2] :
                \A i \in DOMAIN ids1, j \in DOMAIN ids2 : ids1[i] # ids2[j]

BlobHeld(b)      == IF blobs[b] = None THEN 0 ELSE blobs[b].rc
ChunkHeld(ch, c) == IF ch[c] = None THEN 0 ELSE ch[c].rc

\* The inductive invariant behind what is said above of the chunk records, under
\* OneManifest and NoSharedContent.
IndexInv ==
    /\ IndexTypeOK
    /\ \A b \in Blob : IsFiniteSet(RefsTo(b)) /\ Cardinality(RefsTo(b)) <= BlobHeld(b)
    /\ \A b \in Blob : blobs[b] # None => blobs[b].ids \in Manifests[b]
    /\ \A c \in ChunkId : IsFiniteSet(Uses(c)) /\ Cardinality(Uses(c)) <= ChunkHeld(chunks, c)
    /\ \A c \in ChunkId : chunks[c] # None =>
          \E b \in Content[chunks[c].ns] : \E ids \in Manifests[b] :
             \E i \in DOMAIN ids : ids[i] = c
    /\ \A n \in Namespace, k \in Key : refs[n][k] # None => refs[n][k].blob \in Content[n]
=============================================================================
