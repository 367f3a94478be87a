# Verification of the blob store

TLA+ modules, TLC instances and TLAPS proofs for the blob store of this repository: a Go
library that keeps content-addressed, chunked blobs in segment files on disk and finds them
through a metadata index in a transactional key-value backend. The modules are translated from
the source under `src/`; comments in the source and the package documentation are used as claims
to check, never as definitions.

## 1. The system

| Part | Source | State | Operations |
|---|---|---|---|
| metadata index | `src/index/index.go` | `ref:`, `blob:`, `chunk:`, `stats:`, `ns:` records | `CommitPut`, `CommitDelete`, `CommitRenameRef`, `CommitUpdateRefMetadata`, `ReapPhysicalPageIfDead`, `PurgeDeadBlobs`, `ReconcileDeadStats`, single-record gets and puts |
| index backends | `src/index/index.go`, `src/index/backend/bbolt.go` | a key-value map | serializable transactions, scans |
| store | `src/store/store.go` | engines, two levels of guards, per-namespace quota mutexes | `Put`, `Get`, `GetSeekable`, `Head`, `Delete`, `Rename`, `Update`, `List`, `Verify`, `Compact`, `RebuildIndex`, `CreateNamespace`, `DeleteNamespace`, `Open`, `Close` |
| chunk reader | `src/store/store.go` | position, buffered chunk, the guards it holds | `Read`, `Seek`, `Close` |
| volume engine | `src/volume/volume.go` | segment and WAL files, active segment, file cache | `WriteBlob`, `ReadChunk`, `MarkDeleted`, `ScanSegments`, `SegmentStats`, `RewriteSegment`, `DeleteSegmentFile`, `ParseWAL`, `Open`, `Close` |
| staging uploads | `src/staging/staging.go` | sessions: received ranges or blocks, verified pieces, a data file, metadata | `Begin`, `WriteChunk`, `Ranges`, `Complete`, `Abort`, `Reap` |
| chunking, encryption, streaming, preallocation, types | `src/chunking`, `src/encryption`, `src/streaming`, `src/staging/preallocate_*`, `src/object`, `src/errors` | none | functions |

How they interact. A `Put` cuts its input into chunks and the volume engine appends them to the
active segment (`WriteBlob`), syncs, and logs the blob in the segment's WAL; then one index
transaction (`CommitPut`) registers reference, manifest and chunk records and says which of the
fresh copies it did not need; those pages are flagged deleted. A `Get` follows reference, manifest
and chunk records in three separate transactions and returns a reader that holds the guards of the
store and the namespace until it is closed. `Compact` scans the pages of the segments and the index
in turn, flags pages that nothing references (phase 1, beside other operations), then rewrites
segments with many flagged pages and tells the index where their chunks went (phase 2, alone in the
namespace). Opening the store replays WAL entries whose blob the index does not know;
`RebuildIndex` reconstructs records from the page headers.

What is hard about it, and what makes each part correct:

- **Index.** Two levels of counting (references per manifest, uses per chunk) survive puts,
  overwrites, deletes and purges of contents that share and repeat chunks, while a compaction whose
  scan is long out of date reaps and purges. Correct: no live reference loses its manifest or one
  of its chunks; the counters used for quotas agree with the references.
- **Store.** Puts, Gets, Deletes and Compact are sequences of transactions and file operations that
  interleave; the process may stop between any two. Correct: a key that is there can be read, with
  the content last put; nothing but a commit changes that, neither compaction, nor recovery, nor a
  concurrent Put; quotas hold.
- **Guards.** Readers hold two nested locks between calls; `Close`, `DeleteNamespace` and phase 2
  wait for them. Correct: no engine is closed under a user, a rewrite is alone, every call returns.
- **Volume engine.** Writers share a buffered active segment that rolls over; partial writes, unsynced
  segments, flag updates without a lock, write errors, power loss. Correct: what `WriteBlob` returned can be
  read and is in the log, what the log says is there, a deleted flag stays.
- **Chunk reader.** A position over chunks of different lengths: ends, boundaries, beyond the end, a
  chunk that cannot be loaded. Correct: it is one stream of bytes, read without the guards never.
- **Backends.** Staged writes and deletes, scans with callbacks, crashes. Correct: a map with atomic
  transactions, on which everything above rests.
- **Staging.** Parallel chunks of one upload race each other, `Complete`, `Abort`, `Reap`, restarts. Correct:
  what is delivered is what was sent, what was accepted stays known, what was removed stays removed and is all removed.

`PROJECT.json` lists every component with what is modelled of it, and every hazard at its line.

## 2. Modules

| Module | What it is |
|---|---|
| `BlobIndex` | the metadata index: one action per transaction |
| `BlobIndexProofs` | TLAPS proofs about `BlobIndex`: types, counts, and the statistics on which quotas rest |
| `MCBlobIndex` | its instances for TLC |
| `BlobMap` | abstract specification: a map from keys to contents, under quotas |
| `BlobStore` | one namespace over index and segment files: Put, Get, Delete, Rename, Compact, stop, reopening, RebuildIndex; `EXTENDS BlobIndex`, implements `BlobMap` |
| `BlobStoreTypeProofs` | TLAPS proofs about `BlobStore`: types, and the pages under open readers |
| `BlobStoreProofs` | TLAPS proofs about `BlobStore`: readability, accounting of pages, quotas, counts, recovery, and the refinement of `BlobMap` |
| `MCBlobStore` | its instances for TLC |
| `SegmentFile` | the files of one volume engine, page by page: appends, rolls, patches, syncs, logs, flags, errors, crashes, power loss |
| `SegmentFileProofs` | TLAPS proofs about `SegmentFile` |
| `MCSegmentFile` | its instance for TLC |
| `ByteStream` | abstract specification: the bytes of a blob, read from a position |
| `ChunkReader` | the reader over chunks that `Get` and `GetSeekable` return; implements `ByteStream` |
| `ChunkReaderProofs` | TLAPS proofs about `ChunkReader` |
| `MCChunkReader` | its instance for TLC |
| `KeyValue` | abstract specification: what the index asks of a backend |
| `MemoryBackend`, `BboltBackend` | the two backends |
| `Backends` | an index that has one or the other, and the mapping under which both implement `KeyValue` |
| `BackendsProofs` | TLAPS proofs about `Backends` |
| `MCBackends` | its instance for TLC |
| `StoreGuard` | the store's and the namespaces' read-write locks, their users, Close, creation and deletion of namespaces |
| `StoreGuardProofs` | TLAPS proofs about `StoreGuard` |
| `MCStoreGuard` | its instance for TLC |
| `Staging` | one resumable upload: Begin, chunk writes, Complete, Abort, Reap, restart |
| `StagingProofs` | TLAPS proofs about `Staging` and the lists of ranges that a session keeps |
| `MCStaging` | its instance for TLC |

### BlobIndex

`refs`, `blobs`, `chunks` and `stats` are the backend's records by prefix, with `None` for an absent
one. Every exported operation of the index runs in one backend transaction, so it is one action.
`PurgeDeadBlobs` is the exception: it scans, then runs one transaction for each candidate, so it is
`PurgeScan` and `PurgeBlob`, with what the scan found in `candidates`. Hashes are taken to identify
contents: a blob is a member of `Blob`, and `Manifests` says which chunk sequences the chunkers in
use make of it. Several sequences for one blob mean that the store was reopened with another
`ChunkSize`. `Release` and `Acquire` are the effect of the loops over a manifest in `CommitPut` and
`CommitDelete`; they count repeated chunks by occurrence, as the loops do, and `Acquire` takes a
foreign namespace's record over, as `CommitPut` does. `IndexNext` lets the pages a compaction looks
at be any location at all: whatever its scan saw, it may be out of date.

Left out: nonces and tags (`BlobStore` has them), timestamps (no operation tests them), `BytesPhysical` (only `Stats` reads
it), `DeadBytes` (moves with `DeadChunks`), segment records (no code writes them).

### BlobStore and BlobMap

`files` maps segment ids to pages and WAL entries. A page carries what its header says: chunk, position in the chunk,
position of the chunk in the blob, blob and total (patched into the first page of a chunk), and the deleted flag, and,
which no header says, what its bytes were sealed with. `put`, `reader` and `compact` are the program counters and
locals of the goroutines. The steps are:

| Code | Actions |
|---|---|
| `Put` (store.go:664) | `WriteBlob` (pages written and patched), `LogBlob` (sync and WAL entry), `CheckQuota` (takes the quota mutex), `CommitBlob` (the transaction), `MarkDuplicate` for each reused copy; `CancelPut` for a context that is done at the quota check or the commit |
| `Get` (store.go:788) | `GetRef`, `GetBlob`, `GetChunks`, `ReadChunk` for each chunk; `GetFailed` for an error |
| `Delete`, `Rename` | `Delete`, `Rename` |
| `Compact` phase 1 (store.go:1219) | `ScanPages`, `ReapPage` and `MarkPage` for each queued page, `SweepBlobs` and `SweepBlob`, `Reconcile` |
| `Compact` phase 2 (store.go:1366) | `BeginRewrite`, `RewriteSegment`, `FetchRecord` and `StoreRecord` for each chunk, `DeleteSegmentFile` |
| cancelled `Compact` | `CancelCompact`, at any of its transactions: before a queued page (store.go:1305), in `PurgeDeadBlobs` (1325) and `ReconcileDeadStats` (1352), before a segment (1380), in `GetChunk` (1416) and `PutChunk` (1425) of a relocated chunk |
| process death, `Close`, `Open` | `Crash`, `Close`, `Reopen` (with WAL replay) |
| `DeleteNamespace` (store.go:309) | `BeginDrop` (the engine goes, the references are listed), `DropRef` for each, `DropRecord`; `CancelDrop` for a context that is done |
| `CreateNamespace` (store.go:240) | `CreateNamespace`, whose engine finds the files of an earlier namespace of that id, or fails to open |
| `RebuildIndex` | `RebuildIndex`, while nothing else runs |

`short` holds the chunks whose record says one page although the chunk fills more: records that
phase 2 or `RebuildIndex` made from a single page's header. `nonce` is what a chunk's record knows of the
sealing: in a namespace that is `Encrypted`, a page can be read only with the nonce it was sealed with and
under the key of the namespace's latest creation (`ChunkReadable`). A rewrite copies pages with what they were
sealed with; commit, relocation and replay each decide what the record has. Guards appear by their effect: phase 2
waits for Puts and readers to end (`BeginRewrite`) and keeps new ones out (`~Rewriting`); `Delete` and
`Rename` take no namespace guard in the code, so none here. `StoreGuard` models the locks themselves.
What is abstracted is listed in the module's header; the constant `Alongside` says which operations
callers let overlap with a Compact, so that a run can show what holds when they do not and where it
breaks when they do; `Cancels` says in the same way whose contexts may be done before the call has ended (the backends
return `ctx.Err()` from any transaction, bbolt.go:161, 180).

`BlobMap` knows only `map`, from keys to contents. `BlobStore` implements it under the mapping that
gives a key the content a complete `Get` would return at that moment (`Fetched`), or `"error"` when it
would fail. As `BlobMap` has no step to or from an error, `ImplementsMap` says at once that live keys
are readable at every moment, with the right content, that every step but a commit, a delete and a
rename is invisible, that each of these changes exactly its key, and that quotas hold.

### SegmentFile

Every `Writer` stores one blob through `WriteBlob`: `AppendToActive` or `AppendToNew` for each chunk, `Flush`, a patch
for each chunk (`PatchActive` under the mutex, `PatchSealed` and `PatchFlag` without it, as in `patchPage`), `Sync`,
`AppendWAL`, `SyncWAL`. `ParseWAL` is the set of what it may return, which is one result where the log has nothing
behind a torn entry, and several where it has (`AppendedBehindTorn`). `file` is what the system has of each segment
and `disk` what a sync has made certain; the pages in `active.buffer` are in neither. An offset is known before its
page is written, so what was given out must still be right after anything that happens to the file in between. `Crash`
loses the buffer except for what had gone out of it, which may end within a page (`Torn`); `PowerLoss` keeps any of
the unsynced pages and log entries, each on its own, and may tear the last entry. Errors (`WriteError`, `RollError`,
`LogError`, `SyncError`, ...) leave the engine as the code does: a `bufio.Writer` does not forget an error, and
`rollIfNeeded` closes the old segment before it has a new one. Without headers, offsets or checksums, a page is who
wrote it and which part it is; reading a place that has another page is an error. `BlobStore` takes all of `WriteBlob`
up to the patches as one step, and has the operations that `SegmentFile` leaves out (scan, rewrite, deletion of
segments).

### ChunkReader and ByteStream

`idx`, `pendingSkip`, `buf`, `pos` and `absPos` are the fields of `chunkReader`. A byte is its position in the
blob, a slice two positions, the chunks' lengths are given by boundaries. `Read` is `BeginRead` and one step for
each turn of its loop, so that a load may fail after others have succeeded. `ByteStream` has one
position and no chunks; the mapping gives it `absPos`.

### KeyValue and the backends

`KeyValue` is a map, one transaction at a time with its own view, and scans that visit what was there when they
began. `MemoryBackend` keeps writes and deletes apart and merges them in two steps. `BboltBackend` is the adapter, on
what it relies on of bbolt; a crash (`Reopen`) loses the transaction under way and nothing else. `Backends` gives the
index one of the two and states the refinement, `BothImplementKeyValue`; its mapping counts a merge
as done at its first step, since nobody else gets the mutex before the last. `BlobIndex`
has whole transactions as its actions because of this.

### StoreGuard

A `sync.RWMutex` is a record of who holds it shared, who waits to, which writer has announced itself
and which is inside; its preference for writers is in `RLock` and `Unlock`. `mu` is `Store.mu`, `nsRW`
the per-namespace mutexes. A call goes through `beginOp`, `beginNSOp` or `beginExclusiveNSOp`, its
body, and the deferred release; `GetReturns` hands the holds over to the reader that the caller has
now open, and `CloseReader` gives them back. `running` is the set of open engines: closing one that
somebody works on is what the guards are there to prevent.

### Staging

One session. `Begin` makes the data file, the metadata file and the state object in three steps, between which the
process may stop; callers know the id when it has returned, `Reap` finds the metadata file. `data` is the data file,
`meta` the ranges in the metadata file, `states` the `sessionState` objects of this process and `current` the one in
`Manager.sessions`: a goroutine that looked its object up before a clean-up goes on with one that is no longer there
(`Enter`, `LoadOrStore`). A unit of data is good, bad (not what the sender has) or a hole. `WriteChunkRangeSet` is one
step because the code holds the session's mutex throughout; the block modes hold none, so `OpenFile`, `WriteBlocks`,
`MarkReceived`, `VerifyPieces` and `FlushMeta` are steps of their own. `Complete` is `Lock` (ranges mode only),
`Check` and `SaveMeta`; the caller then reads the upload and `CloseUpload` cleans up, if it called `Finalize`, by
`CloseHandle`, `RemoveData` and `Forget`, as `Abort` and `Reap` do. `UnlockAgain` is the second unlock of a `Complete`
that finds the data file gone (staging.go:828 and the deferred call); it stops the process unless another call has
taken the mutex in between, in which case it takes it from that one. `Restart` leaves the two files.

## 3. Runs

`CHECK_DEADLOCK FALSE` stands where the system really may stop: in the `BlobStore` instances, whose
bounded supplies of segments, Compacts and crashes run out, in `segment` likewise, and in `staging`, where a session that was
removed is the end. `guard` and the index runs check for deadlock.

### What holds

| Run | Question | Bounds |
|---|---|---|
| `index` | do counts cover references and uses, does no referenced chunk's record vanish or move, are statistics the sums over the references | 2 namespaces, 2 keys, 3 blobs of 1 to 3 chunks, two of which share a chunk that one lists twice; 5 locations |
| `store` | is the store a map, do both levels of counting agree, is no page lost track of, around two Compacts, and does an encrypted chunk keep its nonce | 1 writer, 2 keys, 2 blobs that share a chunk, 4 segments of 2 pages, encrypted, no context done early |
| `store_limits` | do limits on bytes, number and size of blobs hold against interleaved Puts (`QuotaHolds`, on the live references themselves and not on the counters that the check reads), and does phase 1 spare every page of a chunk that fills two | 2 writers, 3 keys, blobs of different sizes, chunks of 2 pages, 1 Compact that rewrites nothing |
| `store_overlap` | Gets and Deletes that overlap with a Compact, which may be cancelled at any transaction: is anything visible, do counts stay safe, does a file disappear under a reader | 1 writer, 1 reader, 2 keys, 3 segments, 1 Compact, encrypted |
| `store_crash` | are keys unharmed by a crash anywhere, a cancelled Put, a clean close and a rebuild, without Compact; does a deletion of the namespace that is cancelled or interrupted leave what it had not deleted, and does a new namespace under its id begin empty and work | 1 of each, 2 segments |
| `store_rewrite_crash` | is a live key ever lost by a cancellation or a crash in a Compact, between two relocations of a segment too, and by a second Compact that relocates what the first left behind | a blob of 2 chunks under 2 keys, 4 segments of 3 pages, 2 Compacts that may be cancelled at any transaction, 1 crash, 1 close |
| `segment` | is what `WriteBlob` returned kept and logged, is what a log says there (but for what `ParseWAL` makes up behind a torn entry), does a flag stay, whatever rolls, errors, two deaths of the process and a loss of power do | 2 writers, chunks of 1 and 2 pages, 3 segments of 2 pages, 1 error, 2 crashes, 1 power loss |
| `reader` | is the reader a stream of bytes, are its two positions one, is nothing loaded without the guards | 3 chunks of different lengths, reads of several sizes, seeks to every edge and beyond the end |
| `backends` | is either backend the map that the index relies on | 2 threads, 2 keys, 2 values, 2 prefixes |
| `guard` | do engines stay open under their users, is a rewrite alone, is no state a deadlock, does every call return | 3 goroutines, 1 namespace that comes and goes, all operations |
| `staging` | is what Complete hands out the sender's file, does what was accepted stay known, is no data left that a reaper cannot find, does a removed session stay removed, is nobody writing while an upload is read, does every call return | 2 goroutines, 2 units, parts and the whole, a damaged and an oversized chunk, streams that break off, 1 restart, four kinds of session |

Why the bounds are enough. Two keys make a reference that stays while another goes, an overwrite and a rename; two
blobs that share one chunk and differ in another make counts above one, reuse and death of a chunk apart from that of
its blob; a repeated chunk makes a count go up by more than one. Two pages per segment with a threshold of 30 per cent
make a rewrite with a survivor as soon as one page is dead; one more segment is active and one receives the rewritten
pages. Two Compacts let the second meet what the first one left behind; segments of three pages hold the two chunks of
a blob and one page that is dead, so that a Compact can be cancelled between two relocations. Two writers are enough
for the quota, which is decided between two Puts. Three goroutines are one that holds, one that waits for it
exclusively and one that comes later and waits behind the second: a chain of waiting cannot be longer in kind with two
levels of locks. Two goroutines on a session are the one that completes or removes it and the one that is late; two
units make parts that are adjacent, a whole that covers both, and blocks that are verified apart. A blob of a short
and a long chunk in segments of two pages has its chunks in two segments when the other writer's comes in between, and
so patches a sealed one; a second crash hits what was appended behind the torn page of the first. Two writers log at
most one entry behind a torn one: that `ParseWAL` may find its way back to later ones is in the definition, and its
theorem covers it. One thread in a transaction or a scan and one that calls in between are all a mutex can tell apart.
All bounds are constants (`MaxSegment`, `MaxCompacts`, `MaxCrashes`, `MaxCloses`, `MaxRebuilds`, `MaxDrops`,
`MaxPowerLosses`, `MaxErrors`, `Farthest`, `MaxRefCount`, `MaxDead`, `MaxRestarts`, `MaxLoads`) that occur in guards
only. Keys and locations are interchangeable; symmetry is used in runs without liveness.

### What the code does not keep

One run shows TLC breaking what a comment of the code states; `PROJECT.json` quotes it under `findings`.

| Run | What happens |
|---|---|
| `store_span_rewrite` | a rewrite moves a chunk of several pages page by page and registers each page as the chunk; the key can no longer be read |

The rest no run shows, but changing constants does. In `BlobStore`, with `LiveKeysReadable` as the invariant:

- *A Put beside phase 1* (`"put"` in `Calls` and `Alongside`): phase 1 flags the pages of a Put between
  `WriteBlob` and `CommitPut`, which then registers flagged pages. store.go:1158-1161 calls phase 1 "safe
  alongside other namespaces', and this namespace's, concurrent Puts and Gets".
- *Replay of what was purged* (`"delete"`, 1 Compact, 1 close): logs are never truncated and replay asks only
  whether the blob has a manifest, so a blob that was deleted and purged is replayed on every opening,
  over the records of chunks it shared and with their old places. With a crash, the replay of an uncommitted
  Put resets the count of a chunk that committed blobs share; so does `RebuildIndex`, and a delete and a
  Compact later other keys of the content are unreadable.
- *Replay of an encrypted Put* (`Encrypted`, 1 crash): the log has no nonces, which the comment at
  store.go:462-480 admits for the blob whose Put was interrupted. It goes further: when the same content is
  put again, as store.go:393-394 advises, the commit finds the replayed record, keeps it, and flags the good copy;
  the Put succeeds and its key cannot be read. Nor can other keys that share a chunk.
- *A new namespace under an old id* (`Encrypted`, `"drop"`, 1 drop): chunk records of the deleted namespace remain
  until a Compact, and a Put of a content that was there before is deduplicated onto one of them, sealed
  with a key that is gone. The Put succeeds and its key cannot be read. (If only one of the two namespaces was
  encrypted the model's reader fails as well; the code, without a cipher, returns the ciphertext.)
- *A rejected Put in an encrypted namespace* (`Encrypted`, a quota of 1 blob, 1 Compact): the rejected Put leaves
  unflagged copies of chunks that are indexed elsewhere. A rewrite moves the copy and `compactPhase2` gives the record
  the copy's place and the original's nonce. store.go:1413-1414 says "only the location fields
  (SegmentID/PageOffset/PageCount) actually change here".
- *A cancelled Compact* (`"compact"` in `Cancels`). Between `RewriteSegment` and the removal of the old file, a
  context that is done ends Compact with unflagged copies of live pages in two segments, of which the records name one
  each: `PagesAccountedFor` fails after one cancellation in the `store` run. store.go:1293-1295 relies on "at most one
  live physical page per index-record 'generation'", which is not so then: the next Compact counts the second copy as
  a chunk freed although none died. Unless the namespace is encrypted no key is lost (`store_rewrite_crash`,
  `KeysStayReadable`): the copies are the same bytes. If it is, three Compacts can lose one: with one key, `Content <-
  TwoChunks`, segments of three pages, `MaxSegment = 5` and `MaxCompacts = 3`, a Compact is cancelled after
  `RewriteSegment`, the key is deleted, a second Compact is cancelled in the loop over queued pages with a stale copy
  still unflagged, the content is put again, and the third Compact relocates the stale copy and gives it the nonce of
  the new page. The key cannot be read.
- *A failed Put, a Compact and a crash* (`"put"` in `Cancels` of the `store_rewrite_crash` run, or a quota): a Put
  that was logged and then rejected or cancelled leaves a log entry. A Compact flags its pages; after a crash the
  entry is replayed and registers a flagged page, and the next Put of the content is deduplicated onto it: its key
  cannot be read. store.go:696-697 says "the orphaned chunks are reclaimed by the next Compact".
- *Another `ChunkSize`* (two members of `Manifests` for a blob): a put counts the new chunks while the recorded
  manifest keeps the old ones.
- *Gets and Deletes that overlap with Compact*: a Get fails when its key is overwritten and phase 1 comes in
  between; a Delete between the two transactions in which phase 2 moves a record is lost.

In the other modules:

- `BlobIndex`, with two namespaces that store the same content: the second takes the chunk
  record over, and the first one's readers are sent to a place in a foreign namespace, which is what
  index.go:668-674 means to avoid. An overwrite of a key with the content it has adds a reference nobody
  holds (that `refCount` equals the number of references fails; that it is at least that holds).
- `SegmentFile`, without `SurelySynced`: the pages in a segment that rolled over before the end of the call are
  never synced, so that after a loss of power a blob whose Put has returned may lack chunks; store.go:660-662
  promises that "a crash after Put returns will not lose the write".
- `SegmentFile`, where a log has something behind a torn entry (`AppendedBehindTorn`): `appendWAL` opens the file for
  appending after a failed write or a crash alike. `decodeWALEntry` has no length of an entry and no checksum, so it
  reads the torn one on into the next. volume.go:1039-1048 calls the torn record "the very last bytes in the file" and
  treating it as the end correct. What comes of it is one of three (`ParseWAL`): the log ends there, and what was
  logged behind is never replayed; an entry that nobody wrote is returned, say with the length of its last chunk made
  of two, and replay registers it; or the number of chunks is made up, and `make` is asked for room for as many as
  2^32 of them (1140). `ReplayFindsPages` says that nothing else is wrong, and `ReturnedIsLogged` that an entry in a
  log with nothing behind a torn one is returned. What a replay of a made-up entry does to the index is not modelled,
  nor is a file system that leaves zeros in place of the rest of an entry: a torn entry is a beginning of one.
- `SegmentFile`, where a scan stops at a torn page: reads are by offset and
  find what is behind it, but `RebuildIndex` and a rewrite do not. A crash between the
  creation of a segment file and its header leaves a file with which no `Open` succeeds (`CrashInCreate`).
  After an error while a segment is sealed, the closed one stays active and every `WriteBlob` fails
  until the engine is opened again (`SegmentUnusable`). A page that phase 1 flags while its `WriteBlob` still
  runs may be patched back to unflagged (`PatchFlag`).
- `BlobStore`, after `CancelDrop`: a namespace whose deletion failed half way has no engine, so it cannot be
  used or deleted, and has a record, so it cannot be created, until the store is opened again.
- `ChunkReader`: a `Seek` after `Close` sets the index back, and the next `Read` would load a chunk without
  the guards; the model's callers do not.
- `StoreGuard`, with a goroutine in `Nested`, which calls the store while it has a reader
  open: that goroutine and a waiting `Close` wait for each other.
- `Staging`, with `Options <- OnlyPieceHashes`: a damaged copy of a block that was verified is written over it and
  not looked at, so that `DeliveredIntact` fails; a session in ranges mode without a checksum of the whole
  file fares no better with checksums of its chunks, as a chunk that was received before is accepted
  before its checksum is looked at (so `Vouched` does not count those).
- `Staging`, with `ReapsEarly`: a `Reap` that finds the metadata file before `Begin` has stored its `sessionState`
  stores one of its own, which `Begin` replaces (staging.go:466 is a `Store`, where `getOrLoadSession` has
  `LoadOrStore`). The two have different mutexes; if the session is old enough for that `Reap`, it is removed under a
  writer, who then writes its metadata file again, and `RemovedStaysRemoved` fails.
- `Staging`, with a `Restart` between `BeginCreatesData` and `BeginSavesMeta`: the data file, preallocated at its full
  size, is left without a metadata file. `Reap` lists metadata files, so nobody removes it (`DataIsReapable` is about
  sessions that `Begin` returned).

The passing runs are the other half of these: they exclude just what breaks, by `Alongside`, by single page chunks, by
`Options`, by `ReapsEarly`, by `SurelySynced`, by `Cancels`, by the bounds on Compacts and crashes of an encrypted
namespace, and show that everything else holds.

### Fairness

`StoreGuard` and `Staging` have liveness properties. A goroutine inside a call goes on (weak fairness
of `Progress`, for each goroutine). A goroutine that competes for a lock gets its turn in the end
(strong fairness of `CloseReader \/ AnnounceRewrite \/ AnnounceExclusive` and of `Locked`): a
`sync.RWMutex` queues writers on a `sync.Mutex`, and a `sync.Mutex` is handed over in order once
a waiter has been passed over for a millisecond. Callers close their readers, which the comment on
`Close` demands of them, strongly because they may make other calls in between, and the uploads that
`Complete` gave them. Nothing obliges a caller to make a call. `guard` takes `Nested = {}`: a goroutine that
has a reader open does not call the store again before it is closed.

Every property of a passing run has a mutant in `PROJECT.json`: a plausible bug in the code, written
as a faulty variant beside the definition, under which TLC finds the property violated.

## 4. Proofs

Every safety property and every refinement that a run checks is also proved for all values of the constants, those of
`BlobStore` under hypotheses on how the process is used that are named below. Each proof follows the same line: the
properties are not inductive by themselves, so an invariant that implies them is stated first, with parts named for
what they say; TLC checked each on the instance of its run before it was proved; then there is one lemma for every
action, or for what a group of actions has in common. The bounds in guards are constants like all others, so that the
theorems hold for any.

### Index

`BlobIndexProofs` proves, for every number of namespaces, keys, blobs, chunks and locations:

- `IndexTypeCorrect`: `IndexSpec => []IndexTypeOK`, with no assumption beyond those named in `BlobIndex`.
- `BlobsAreCounted`: a manifest that references point at is recorded and counts at least as many as there are. This holds
  whatever namespaces share and however contents are cut.
- `ChunksAreCounted`: the same for chunks and the places where references need them,
  under the two hypotheses `OneManifest` (each content is cut in one way) and
  `NoSharedContent` (no chunk belongs to contents of two namespaces). Neither can be dropped: the section
  above says what happens without them.
- `ReferencedChunksStay`: under the same hypotheses no step drops or moves the record of a chunk that still has references.

The argument. `BlobInv`, for manifests, stands by itself. That counts of chunks cover uses is not inductive: a delete
subtracts the occurrences in the *recorded* manifest, and the first to store a chunk sets its owner. `IndexInv`
therefore adds that a recorded manifest is the one way its content is cut, that references point at contents of their
namespace, and that a record belongs to the namespace whose contents use the chunk. From there it is a matter of
counting. `Uses(c)` is the finite set of places `<<namespace, key, position>>` where a live reference needs chunk `c`.
A transaction on one key takes that key's places away and puts others there (`Exchange`); there are as many as
occurrences in the manifest (`PlacesCount`); `Release` lowers a count by no more than the occurrences (`ReleaseHeld`),
`Acquire` raises it by exactly those (`AcquireHeld`). `TypeStep` and the invariant's step have one case per action.

It also proves that a namespace's statistics are sums over its live references: `QuotasAreTrue`, for the number and
the total size that `Put` compares with its quotas, with no hypothesis, and `StatsAreTrue`, for the count of chunks as
well, under `OneManifest`. A sum over keys is defined as the number of its units, pairs of a key and a number, because
a fold could not be proved about. A transaction on one key exchanges that key's units for others (`OneKeyChanges`), a
rename moves them to another key (`WeightMoves`).

### Store

`BlobStoreTypeProofs` and `BlobStoreProofs` prove, for every number of writers, readers, keys, contents, chunks,
segments and Compacts:

| Theorem | Property | Hypotheses |
|---|---|---|
| `StoreTypeCorrect` | `StoreTypeOK` | none |
| `ReadersKeepTheirPages` | `ReaderKeepsPages`: no page goes under an open reader | none |
| `QuotaAlwaysHolds` | `QuotaHolds`: the live references are within the limits | none |
| `KeysStayReadable` | `LiveKeysReadable`: each page of each live key can be read | `OneManifest`, `NoSharedContent`, `CompactsOnly` |
| `StoreChunksAreCounted` | `ChunkRefCountCoversUses` | the same |
| `StoreIsAMap` | `ImplementsMap`: the refinement of `BlobMap` | the same |
| `PagesStayAccountedFor` | `PagesAccountedFor`: no unflagged page is forgotten | the same, `OnePage`, `NothingLeft` |
| `StoreCountsMatch` | `ChunkCountsMatchManifests` | the same as for `KeysStayReadable`, and no Delete beside a Compact |
| `KeysSurviveRecovery` | `LiveKeysReadable` | `RecoversOnly` |
| `RecoveryIsAMap` | `ImplementsMap` | `RecoversOnly` |

The hypotheses are on the constants, and each excludes what section 3 shows the code not to keep: `CompactsOnly` says
that the process runs on (`RunsOn`: no crash, `Close`, `RebuildIndex` or `DeleteNamespace`), that no Put runs beside a
Compact, that either no segment is rewritten or no chunk fills more than one page, and that an encrypted namespace
whose segments are rewritten is one of which `NothingLeft` holds: no quota rejects a Put, and no Put or Compact is
cancelled. Everywhere else Puts and Compacts may be cancelled at any of their transactions. `OnePage` and
`NothingLeft` are asked for where pages are accounted for: a rejected or cancelled Put leaves its pages behind, a
cancelled Compact those it had copied. Gets, Deletes and Renames may overlap with anything in all of these but
`StoreCountsMatch`.

`RecoversOnly` is the other half: any number of crashes, `Close`s, replays, rebuilds and deletions and creations of
the namespace, in which no Compact has run (after which logs name pages that are flagged or gone), nothing is
encrypted (neither the logs nor the pages have the nonces) and `RebuildIndex`, if it is called at all, finds chunks of
one page and contents that were always cut the same way (it registers every page as a chunk of its own, and puts a
content together from the headers of all its copies). Chunks of any number of pages, any quota, contents cut in
several ways and any overlap of Puts are in it; counts are not needed, as nothing collects.

`TypeInv`, the invariant of the first two, is about locals that outlive the step they were taken in. The places that a
Put was given, the queue of phase 1 and the pages that phase 2 has moved are in the files; the segments to be
rewritten are there, and the active one is not among them; while they are rewritten no Put or Get is under way. Every
other theorem rests on it.

`QuotaHeld` says what the quota mutex is for: at most one Put is between its check and the end of its commit
(`Admitting`), and the counters leave room for it. That the counters are the sums over the references is
`QuotasAreTrue` of `BlobIndexProofs`.

`CompactingInv` is the invariant of the theorems under `CompactsOnly`:

- `RecordsInv`: where a chunk record points there are all its pages, unflagged, sealed with the nonce that the record has.
- `PendingInv`: the copies of a Put that the index does not know are whole, and no record and no other Put has their
  places. It makes a commit keep `RecordsInv`, and the flagging of the unneeded copies (`MarkDuplicate`) harmless.
- `QueueInv`: what phase 1 has queued belongs to a chunk that nothing uses, and stays so, since with no Put running a count
  of zero does not rise again. When a page is about to be flagged, its chunk's record is gone or elsewhere.
- `MovedInv`: in phase 2 a record that points into the old segment has a page that is still to be relocated, with the
  same nonce; the count fetched in one transaction and stored in the next covers the uses, because in between only
  Deletes commit.
- `IndexInv`, of `BlobIndexProofs`: counts cover uses. The transactions of the index keep it by the lemmas there.
  `StoreRecord` is none of them and has one of its own.
- `AccountedInv`, under `OnePage` and `NothingLeft`: why an unflagged page is there (`Recorded`, `InPut`, `InCompact`).

`StoreIsAMap` follows in two steps: what a complete Get would return is what the reference names
(`GetsWhatIsReferred`, from `CompactingInv`), and what the references name changes as in `BlobMap` (`MapStep`, with
`QuotaHeld` for the limits). `CountsInv`, for `StoreCountsMatch`, sums over recorded manifests as `IndexInv` does over
references: a commit adds the manifest's occurrences to both sides or takes them from both (`HeldUp`, `HeldDown`), a
purge takes a manifest that counts for nothing, and the count that phase 2 carries from one transaction to the next is
still the record's.

`RecoveryInv` is the invariant of the last two. To `RecordsInv` and `PendingInv` it adds what a recovery works from:

- `LogsInv`: an entry of a log, *as long as its blob is not recorded*, names whole unflagged copies; and no Put of
  another blob is going to flag one of them. The condition is what makes it inductive: a Put that turns out to be a
  duplicate flags copies that its own entry names, but its commit has recorded the blob first, and replay passes over
  recorded blobs.
- `HeadersInv`: the header of a chunk's first page names a blob, one of the blob's manifests, and the chunk's place in it.
- `ManifestsInv`, `RefsInv`, `MarkingInv`: references are to recorded blobs, these are of recorded chunks, and a Put
  that flags has recorded its blob. Crashes, deletions of half a namespace and its creation over the old files leave
  these three alone.

A replay then registers true records in place of true records (`RecoveryOpenEngine`), and so does a rebuild
(`RecoveryRebuildIndex`).

### Backends

`BackendsProofs` proves `BackendTypesCorrect` and `BackendsImplementKeyValue`, for every number of threads, keys,
values and prefixes: each step of `MemoryBackend` or of `BboltBackend` is one of `KeyValue` under the mapping, or
invisible. The invariant adds to the types that a thread in a transaction is in no scan (`TxIsNotInScan`), without
which the end of a transaction and the end of a scan could give one answer for the other, and that bbolt stages
nothing (`BoltStagesNothing`).

### Guards

`StoreGuardProofs` proves, for every number of goroutines and namespaces, nested calls included: `GuardTypeCorrect`;
`EnginesAreKept` (no engine is closed under a user or an open reader); `RewritesAreAlone` (a rewrite has its namespace
to itself). The invariant `GuardInv` says that who has, shares or waits for which mutex can be told from where each
goroutine is in its call and from the reader it has open (`CallShape`, `StoreMutex`, `NSMutex`), and that whoever
works on an engine shares the mutex that keeps it (`Works`). With that, exclusion of the locks is exclusion of the
calls.

### Staging

`StagingProofs` proves, for every number of goroutines, any size, any chunks and all kinds of session:
`StagingTypesCorrect`, `UploadsAreIntact` (`DeliveredIntact`), `AcknowledgedIsKept`, `ReapersFindData`,
`RemovedIsGone` and `ReadersAreAlone`. The parts of `StagingInv` say what the types are (`TypeInv`, `CallsInv`), that
lists of ranges are sorted with gaps (`ListsInv`), how far `Begin` has come (`BeginInv`), that no more than one state
object stands for a data file that has its name (`OneState`), so that its mutex is worth something (`MutexInv`), that
in ranges mode the metadata file says what the object says (`RangesInv`), that in the block modes a bit is set after
the write (`BlocksInv`), and what the data is where a checksum vouches for it (`DataInv`). Most steps are shown to be
`Orderly`, and an orderly step to keep the invariant; `Begin`, a new object, `WriteChunkRangeSet` and `Restart` are
done by themselves.

The hypotheses are those of the run. `ReapsEarly = FALSE` leaves out the race of `Reap` with `Begin`, after which
`OneState` and then `RemovedStaysRemoved` fail. `UploadsAreIntact` also asks that sessions with piece hashes have
checksums of their chunks (`o.mode = "pieces" => o.checked`), since without these `DeliveredIntact` fails. The section
above describes both.

The module begins with what the rest needs of `RangeSet.Add`, for every list and every range: that a list that is
sorted and has gaps stays so, and covers what it did and the new range, and nothing else.

### Volume engine

`SegmentFileProofs` proves, for any number of writers, blobs of any chunks, segments of any size, and any number of
crashes, errors and losses of power:

- `SegmentTypesCorrect`: the types, and that no segment has a number that is yet to be given.
- `ReturnedBlobsAreKept`, `ReturnedBlobsAreLogged`: what `WriteBlob` returned is found whole and named where it was
  placed, and its entry is in a log, and returned by `ParseWAL` if nothing is behind a torn entry there; after a loss
  of power the former for the chunks in the segment that was synced (`SurelySynced`).
- `ReplayFindsItsPages`: what `ParseWAL` returns was written and named before, in every log and whatever it goes on
  with behind a torn entry, except the entry that it makes up there.
- `FlaggedPagesStayFlagged`: a page flagged after its `WriteBlob` returned stays so.

The argument. A place is given out before its page is written, so that the invariant `SegInv` has to follow a chunk
through the life of its call (`ChunksInv`): in the file followed by the buffer, then in the file, then named there,
then on the disk, if its segment is the one that is active. An entry of a log outlives its call, which may have failed
after it was written; so what it says of its chunks is an invariant of the entry (`LogsInv`). Besides, the disk has no
page or entry that the system lacks (`FilesInv`), the active segment is the newest (`EngineInv`), every call is where
its locals say (`CallsInv`), and a flag is in the file and on the disk (`MarksInv`). A step either is `Steady` (it
appends to files or edits pages in place, so that everything other writers know stays true: `SteadyKeeps`) or stops
the engine; then only returned and failed calls are left, and what those need is not lost by a crash (`StopKeeps`)
nor, as far as it was synced, with the power (`LossIs`).

### Chunk reader

`ChunkReaderProofs` proves, for every number of chunks, all lengths, and all reads and seeks:

- `ReaderTypeCorrect`: the types, and that the guards are given back at most once.
- `ReaderPositionsAgree`, `ReaderLoadsUnderGuard`: the properties of these names.
- `ReaderImplementsStream`: `ReaderSpec => Stream!StreamSpec`, the refinement the `reader` run checks.

The argument. `ReaderInv` adds to `PositionsAgree` the types and `ClosedIsDone`: a closed reader
stands at the end with an empty buffer. That `resolveChunkOffset` returns the one
chunk that holds an offset is a lemma (`ResolveFinds`) from the order of the boundaries; the least
number behind its `CHOOSE` exists because there are finitely many chunks. Loading a chunk is a stutter of the stream.
The assumptions are those named in the module: no chunk is empty, and callers do not seek after `Close`.

### Only model-checked

- `BlobStore` where both Compact and a recovery happen: `ImplementsMap` in `store_rewrite_crash`. The theorems about
  types, quotas and readers cover that too; the others ask for `CompactsOnly` or for `RecoversOnly`. What fails in the
  combination (section 3) depends on the order, so an invariant would have to say of every log entry which of its
  pages Compact has since taken; the run searches that instead. The recovery of an encrypted namespace with a Put
  under way is in no passing run, since keys get lost there.
- Liveness of `StoreGuard` and `Staging`: the prover has neither fairness arguments nor `ENABLED`.

## 5. What is not modelled, and the plan

Done in this order, most important first: index, store with recovery and compaction, guards, staging,
chunk reader, backends, segment files, then in `BlobStore` encryption and the deletion of namespaces. Next:

1. Proofs: `KeysSurviveRecovery` where Compacts ran and no content was deleted between them and the recovery.
2. `Staging`: blocks shorter than the block size.
3. `BlobStore`: `List`, which resumes after a key that may be gone by then and returns nothing, and the two
   index reads of `ServeBlob`, which may pair one content with the other's `ETag`.

Not modelled, and not planned: chunk boundaries (a FastCDC library; what matters is the constant `Manifests`), AES-GCM
and key wrapping (no state of its own), the preallocation system calls, `Head`, `Update`, `Verify`,
`Stats` (they read, or change metadata that nothing tests), the dirty file of an engine (a hint that is there
from `Open` to `Close`), examples. A rewrite together with a loss of power is not modelled: `SegmentFile` has
the power, `BlobStore` the rewrite, and both at once is more than TLC can search.
