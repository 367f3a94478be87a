----------------------------- MODULE BlobStore -----------------------------
(***************************************************************************)
(* One namespace of the store (src/store/store.go) over the metadata index *)
(* and over its volume engine's segment files (src/volume/volume.go).      *)
(* Puts, Gets and Compact are multi-step processes whose steps interleave  *)
(* as their guards allow; the process may stop at any moment and the store *)
(* be opened again, which replays the write-ahead logs.                    *)
(*                                                                         *)
(* Simplifications:                                                        *)
(*   - WriteBlob's appends, flush and header patches are one step.         *)
(*   - What was flushed survives a stop: the process dies, the machine     *)
(*     does not.                                                           *)
(*   - No I/O call fails. A caller's context may be done (Cancels) while   *)
(*     Put, Compact or DeleteNamespace runs; what else takes one, a Get, a *)
(*     Delete, a replay or RebuildIndex, runs to its end.                  *)
(*   - One Compact at a time; its scan of the pages is one step.           *)
(*   - Of a ciphertext and its nonce and tag only this is kept: they       *)
(*     belong together.  Both are named by the place the page was first    *)
(*     written at.                                                         *)
(***************************************************************************)
EXTENDS BlobIndex, SequencesExt

CONSTANTS
    NS,             \* the namespace
    Writer,         \* goroutines that put
    Reader,         \* goroutines that get
    Pages,          \* [ChunkId -> Nat \ {0}]: how many pages a chunk fills
    SegmentPages,   \* MaxSegmentSize, in pages
    RewritePercent, \* CompactOptions.RewriteThreshold, in per cent
    Quota,          \* the namespace's quota; zero is no limit
    Encrypted,      \* whether the namespace is
    Cancels,        \* the operations whose context may be done before they have ended
    Calls,          \* the operations callers make
    Alongside,      \* the operations they let overlap with a Compact
    MaxSegment,     \* bound on segment ids (model checking only)
    MaxCompacts,    \* bound on the calls of Compact (model checking only)
    MaxCrashes,     \* bound on crashes (model checking only)
    MaxCloses,      \* bound on calls of Close (model checking only)
    MaxRebuilds,    \* bound on calls of RebuildIndex (model checking only)
    MaxDrops        \* bound on calls of DeleteNamespace (model checking only)

SegmentId == 1..MaxSegment
Operation == {"put", "get", "delete", "rename", "drop"}

ASSUME NSAssumption        == NS \in Namespace
ASSUME PagesAssumption     == Pages \in [ChunkId -> Nat \ {0}]
ASSUME CallsAssumption     == Calls \subseteq Operation /\ Alongside \subseteq Calls \ {"drop"}
ASSUME EncryptedAssumption == Encrypted \in BOOLEAN
ASSUME CancelsAssumption   == Cancels \subseteq {"put", "compact", "drop"}
ASSUME QuotaAssumption     == Quota \in [maxBytes : Nat, maxBlobCount : Nat, maxBlobSize : Nat]
ASSUME LocAssumption       ==
    /\ Loc \subseteq Nat \X Nat
    /\ \A c \in ChunkId : SegmentId \X (1..(SegmentPages + Pages[c])) \subseteq Loc
ASSUME StoreBoundAssumption ==
    {SegmentPages, RewritePercent, MaxSegment, MaxCompacts, MaxCrashes,
     MaxCloses, MaxRebuilds, MaxDrops} \subseteq Nat

VARIABLES
    files,      \* [segment ids on disk -> pages and WAL entries]
    active,     \* Engine.active: the id of the segment being written, 0 if none
    nextSeq,    \* Engine.nextSeq
    short,      \* chunks whose record was built from a page header: PageCount is 1
    nonce,      \* per chunk, the nonce and tag in its record, or None
    open,       \* the store is open
    space,      \* the namespace: whether its record is in the index, whether it
                \* has an engine, how often it was created (the last time with a
                \* key of its own), and the references DeleteNamespace has yet to
                \* delete, or None
    put,        \* the Put each writer is in
    reader,     \* the Get, or its open chunkReader, each reader is in
    compact,    \* the Compact in progress
    used        \* how many Compacts, crashes, closes and rebuilds there were

volVars == <<files, active, nextSeq>>
recVars == <<short, nonce>>
lifeVars == <<open, space>>
vars    == <<ixVars, volVars, recVars, lifeVars, put, reader, compact, used>>

\* What was sealed at a place under a key of the namespace.
Nonce == [at : Loc, key : Nat]

\* A page as its header describes it. BlobID and TotalChunks are patched into
\* the first page of a chunk only.
Page == [chunk : ChunkId, part : Nat, seq : Nat, blob : Blob \cup {None}, total : Nat,
         deleted : BOOLEAN, sealed : Nonce \cup {None}]

IdlePut     == [pc |-> "idle", key |-> None, blob |-> None, ids |-> << >>, at |-> << >>,
                dups |-> {}]
IdleReader  == [pc |-> "idle", key |-> None, blob |-> None, ids |-> << >>, at |-> << >>,
                nonces |-> << >>]
IdleCompact == [pc |-> "idle", queue |-> {}, freed |-> 0, todo |-> {}, moved |-> {},
                held |-> 0, nonce |-> None]

ASSUME StoreNoneAssumption ==
    None \notin Blob /\ None \notin Nonce /\ \A keys \in SUBSET Key : keys # None
ASSUME ErrorAssumption == "error" \notin Blob \cup {None}

StoreTypeOK ==
    /\ IndexTypeOK
    /\ DOMAIN files \subseteq SegmentId
    /\ \A s \in DOMAIN files :
          /\ files[s].pages \in Seq(Page)
          /\ \A i \in DOMAIN files[s].wal : files[s].wal[i].blob \in Blob
    /\ active \in DOMAIN files \cup {0}
    /\ nextSeq \in Nat
    /\ short \subseteq ChunkId
    /\ nonce \in [ChunkId -> Nonce \cup {None}]
    /\ ~Encrypted => nonce = [c \in ChunkId |-> None]
    /\ open \in BOOLEAN
    /\ space \in [recorded : BOOLEAN, engine : BOOLEAN, created : Nat,
                  dropping : (SUBSET Key) \cup {None}]
    /\ space.engine => open /\ space.recorded
    /\ \A w \in Writer : put[w].pc \in {"idle", "written", "logged", "checked", "marking"}
    /\ \A r \in Reader : reader[r].pc \in {"idle", "ref", "manifest", "open", "failed"}
    /\ compact.pc \in {"idle", "reap", "mark", "sweep", "purge", "wait", "rewrite",
                       "relocate", "store"}

StoreInit ==
    /\ IndexInit
    /\ files = << >>
    /\ active = 0
    /\ nextSeq = 1
    /\ short = {}
    /\ nonce = [c \in ChunkId |-> None]
    /\ open = TRUE
    /\ space = [recorded |-> TRUE, engine |-> TRUE, created |-> 1, dropping |-> None]
    /\ put = [w \in Writer |-> IdlePut]
    /\ reader = [r \in Reader |-> IdleReader]
    /\ compact = IdleCompact
    /\ used = [compacts |-> 0, crashes |-> 0, closes |-> 0, rebuilds |-> 0,
               drops |-> 0]

-----------------------------------------------------------------------------
(* Segment files                                                           *)

HasPage(l) == l[1] \in DOMAIN files /\ l[2] \in DOMAIN files[l[1]].pages
PageAt(l)  == files[l[1]].pages[l[2]]

\* Every page on disk. The header of a page says how many bytes that page holds,
\* so each page is an entry of its own, the later pages of a chunk included.
AllPages == {l \in Loc : HasPage(l)}

\* The order in which ScanSegments and ParseWAL visit places.
Before(l, m) == l[1] < m[1] \/ (l[1] = m[1] /\ l[2] < m[2])
FirstOf(places) == CHOOSE l \in places : \A m \in places : m = l \/ Before(l, m)
LastOf(places)  == CHOOSE l \in places : \A m \in places : m = l \/ Before(m, l)

\* Cipher.Seal: the nonce of what is first written at l.
Sealed(l) == IF Encrypted THEN [at |-> l, key |-> space.created] ELSE None

\* The pages of the i-th of total chunks of blob b, from l on.
ChunkPages(c, b, i, total, l) ==
    [p \in 1..Pages[c] |->
        [chunk |-> c, part |-> p, seq |-> i, blob |-> IF p = 1 THEN b ELSE None,
         total |-> IF p = 1 THEN total ELSE 0, deleted |-> FALSE, sealed |-> Sealed(l)]]

WithFile(fs, s, content) ==
    [t \in DOMAIN fs \cup {s} |-> IF t = s THEN content ELSE fs[t]]

\* ensureActive, rollIfNeeded and appendChunk: a chunk never spans segments.
AppendChunk(v, c, b, i, total) ==
    LET roll == v.active = 0 \/ Len(v.files[v.active].pages) >= SegmentPages
        s    == IF roll THEN v.next ELSE v.active
        old  == IF roll THEN [pages |-> << >>, wal |-> << >>] ELSE v.files[s]
        l    == <<s, Len(old.pages) + 1>>
    IN  [files  |-> WithFile(v.files, s,
                             [old EXCEPT !.pages = @ \o ChunkPages(c, b, i, total, l)]),
         active |-> s,
         next   |-> IF roll THEN s + 1 ELSE v.next,
         at     |-> Append(v.at, l)]

\* The engine after the first n chunks of blob b, cut into ids.
WrittenUpTo(b, ids) ==
    LET v[n \in 0..Len(ids)] ==
            IF n = 0 THEN [files |-> files, active |-> active, next |-> nextSeq, at |-> << >>]
            ELSE AppendChunk(v[n - 1], ids[n], b, n, Len(ids))
    IN  v

Written(b, ids) == WrittenUpTo(b, ids)[Len(ids)]

SetDeleted(l) == files' = [files EXCEPT ![l[1]].pages[l[2]].deleted = TRUE]

PageCount(c) == IF c \in short THEN 1 ELSE Pages[c]

\* ReadChunk succeeds: all the pages the record spans are there, none is
\* flagged, together they have the CRC in the header of the first, and they
\* can be decrypted with the nonce and tag of the record.
ChunkReadable(c, l, n) ==
    /\ PageCount(c) = Pages[c]
    /\ \A p \in 1..Pages[c] :
          LET at == <<l[1], l[2] + p - 1>>
          IN  /\ HasPage(at)
              /\ PageAt(at).chunk = c /\ PageAt(at).part = p
              /\ ~PageAt(at).deleted
              /\ PageAt(at).sealed = n
              /\ Encrypted => n # None /\ n.key = space.created

\* The chunks whose PutChunk-ed record has fewer pages than the chunk.
Spanning(ids) == {c \in ids : Pages[c] > 1}

-----------------------------------------------------------------------------
(* Guards: Put, Get and phase 1 of Compact share the namespace, phase 2    *)
(* excludes them; Delete and Rename take no guard but the store's.         *)

Rewriting   == compact.pc \in {"rewrite", "relocate", "store"}
Compacting  == compact.pc # "idle"
PutsRunning == \E w \in Writer : put[w].pc # "idle"
GetsRunning == \E r \in Reader : reader[r].pc \in {"ref", "manifest", "open"}

\* A caller may start op: the store is open, no DeleteNamespace is running, and
\* the callers of this instance make that call, while a Compact is running only
\* if they let it overlap.
MayCall(op) ==
    /\ open /\ space.dropping = None
    /\ op \in Calls
    /\ Compacting => op \in Alongside

\* Nothing else is running and nothing waits for the namespace's engine.
Quiet == ~PutsRunning /\ ~GetsRunning /\ ~Compacting /\ space.dropping = None

-----------------------------------------------------------------------------
(* Put                                                                     *)

\* WriteBlob up to the flush: the pages are in the files, unknown to the index.
\* It refuses a content without chunks.
WriteBlob(w, k, b) ==
    /\ MayCall("put") /\ space.engine /\ ~Rewriting
    /\ put[w].pc = "idle"
    /\ \E ids \in Manifests[b] \ {<< >>} :
          LET v == Written(b, ids)
          IN  /\ v.next <= MaxSegment + 1
              /\ files' = v.files /\ active' = v.active /\ nextSeq' = v.next
              /\ put' = [put EXCEPT ![w] =
                           [pc |-> "written", key |-> k, blob |-> b, ids |-> ids,
                            at |-> v.at, dups |-> {}]]
    /\ UNCHANGED <<ixVars, recVars, lifeVars, reader, compact, used>>

\* The end of WriteBlob: fsync, then an entry in the active segment's WAL.
LogBlob(w) ==
    /\ put[w].pc = "written"
    /\ files' = [files EXCEPT ![active].wal =
                    Append(@, [blob |-> put[w].blob, ids |-> put[w].ids, at |-> put[w].at])]
    /\ put' = [put EXCEPT ![w].pc = "logged"]
    /\ UNCHANGED <<ixVars, active, nextSeq, recVars, lifeVars, reader, compact, used>>

\* Faulty variant of QuotaMutexFree: nothing serialises check and commit.
NoQuotaMutex == TRUE

QuotaMutexFree == \A w \in Writer : put[w].pc \notin {"checked", "marking"}

WithinQuota(b) ==
    /\ Quota.maxBlobCount > 0 => stats[NS].blobCount < Quota.maxBlobCount
    /\ Quota.maxBytes > 0 => stats[NS].bytesStored + Size[b] <= Quota.maxBytes
    /\ Quota.maxBlobSize > 0 => Size[b] <= Quota.maxBlobSize

\* Takes the namespace's quota mutex; a put beyond the quota fails and leaves
\* its pages behind.
CheckQuota(w) ==
    /\ put[w].pc = "logged"
    /\ QuotaMutexFree
    /\ put' = [put EXCEPT ![w] =
                 IF WithinQuota(put[w].blob) THEN [@ EXCEPT !.pc = "checked"] ELSE IdlePut]
    /\ UNCHANGED <<ixVars, volVars, recVars, lifeVars, reader, compact, used>>

\* The context is done when the quota is checked or the commit starts: as after a
\* refusal the pages stay, and here their log entry too.
CancelPut(w) ==
    /\ "put" \in Cancels
    /\ put[w].pc \in {"logged", "checked"}
    /\ put' = [put EXCEPT ![w] = IdlePut]
    /\ UNCHANGED <<ixVars, volVars, recVars, lifeVars, reader, compact, used>>

CommitBlob(w) ==
    LET p     == put[w]
        dups  == PutDuplicates(NS, p.key, p.blob, p.ids)
        fresh == DOMAIN p.ids \ dups
    IN  /\ p.pc = "checked"
        /\ \E custom \in Meta : CommitPut(NS, p.key, p.blob, p.ids, p.at, custom)
        /\ put' = [put EXCEPT ![w] =
                     IF dups = {} THEN IdlePut ELSE [p EXCEPT !.pc = "marking", !.dups = dups]]
        /\ short' = short \ {p.ids[i] : i \in fresh}
        /\ nonce' = [c \in ChunkId |->
                       IF \E i \in fresh : p.ids[i] = c
                       THEN Sealed(p.at[FirstAt(p.ids, c)]) ELSE nonce[c]]
        /\ UNCHANGED <<candidates, volVars, lifeVars, reader, compact, used>>

\* Faulty variant of MarkDuplicate: the Put returns after the first.
MarkFirstDuplicate(w) ==
    /\ put[w].pc = "marking"
    /\ SetDeleted(put[w].at[Min(put[w].dups)])
    /\ put' = [put EXCEPT ![w] = IdlePut]
    /\ UNCHANGED <<ixVars, active, nextSeq, recVars, lifeVars, reader, compact, used>>

\* MarkDeleted of the next copy the commit did not use: its first page only.
MarkDuplicate(w) ==
    LET p == put[w]
    IN  /\ p.pc = "marking"
        /\ SetDeleted(p.at[Min(p.dups)])
        /\ put' = [put EXCEPT ![w] =
                     IF p.dups = {Min(p.dups)} THEN IdlePut
                     ELSE [p EXCEPT !.dups = @ \ {Min(p.dups)}]]
        /\ UNCHANGED <<ixVars, active, nextSeq, recVars, lifeVars, reader, compact, used>>

-----------------------------------------------------------------------------
(* Get: three index reads, each its own transaction, then a reader that    *)
(* holds the namespace's shared guard until its caller closes it.          *)

Advance(r, to) == reader' = [reader EXCEPT ![r] = to]
OnlyReads      == UNCHANGED <<ixVars, volVars, recVars, lifeVars, put, compact, used>>

GetRef(r, k) ==
    /\ MayCall("get") /\ space.engine /\ ~Rewriting
    /\ reader[r].pc = "idle"
    /\ refs[NS][k] # None
    /\ Advance(r, [IdleReader EXCEPT !.pc = "ref", !.key = k, !.blob = refs[NS][k].blob])
    /\ OnlyReads

GetBlob(r) ==
    LET g == reader[r]
    IN  /\ g.pc = "ref"
        /\ Advance(r, IF blobs[g.blob] = None THEN [g EXCEPT !.pc = "failed"]
                      ELSE [g EXCEPT !.pc = "manifest", !.ids = blobs[g.blob].ids])
        /\ OnlyReads

GetChunks(r) ==
    LET g == reader[r]
    IN  /\ g.pc = "manifest"
        /\ Advance(r, IF \E i \in DOMAIN g.ids : chunks[g.ids[i]] = None
                      THEN [g EXCEPT !.pc = "failed"]
                      ELSE [g EXCEPT !.pc = "open",
                                     !.at = [i \in DOMAIN g.ids |-> chunks[g.ids[i]].loc],
                                     !.nonces = [i \in DOMAIN g.ids |-> nonce[g.ids[i]]]])
        /\ OnlyReads

\* The next chunk is read; after the last the caller closes the reader.
ReadChunk(r) ==
    LET g == reader[r]
    IN  /\ g.pc = "open"
        /\ Advance(r, IF ~ChunkReadable(Head(g.ids), Head(g.at), Head(g.nonces))
                      THEN [g EXCEPT !.pc = "failed"]
                      ELSE IF Len(g.ids) = 1 THEN IdleReader
                      ELSE [g EXCEPT !.ids = Tail(@), !.at = Tail(@), !.nonces = Tail(@)])
        /\ OnlyReads

\* After an error the caller closes the reader, or never had one.
GetFailed(r) ==
    /\ reader[r].pc = "failed"
    /\ Advance(r, IdleReader)
    /\ OnlyReads

-----------------------------------------------------------------------------
(* Delete and Rename                                                       *)

OnlyIndex == UNCHANGED <<candidates, volVars, recVars, lifeVars, put, reader, compact, used>>

Delete(k) ==
    /\ MayCall("delete")
    /\ CommitDelete(NS, k)
    /\ OnlyIndex

Rename(old, new) ==
    /\ MayCall("rename")
    /\ CommitRenameRef(NS, old, new)
    /\ OnlyIndex

-----------------------------------------------------------------------------
(* Compact, phase 1: flag the pages nothing references.                    *)

Step(to)     == compact' = to
OnlyCompacts == UNCHANGED <<active, nextSeq, lifeVars, put, reader, used>>

\* What the scan queues: unflagged pages whose chunk has no referenced record.
LooksDead(l) ==
    /\ ~PageAt(l).deleted
    /\ chunks[PageAt(l).chunk] # None => chunks[PageAt(l).chunk].rc = 0

ScanPages ==
    /\ space.engine /\ space.dropping = None /\ compact.pc = "idle"
    /\ used.compacts < MaxCompacts
    /\ PutsRunning => "put" \in Alongside
    /\ GetsRunning => "get" \in Alongside
    /\ used' = [used EXCEPT !.compacts = @ + 1]
    /\ LET queue == {l \in AllPages : LooksDead(l)}
       IN  Step([IdleCompact EXCEPT !.pc = IF queue = {} THEN "sweep" ELSE "reap",
                                    !.queue = queue])
    /\ UNCHANGED <<ixVars, volVars, recVars, lifeVars, put, reader>>

NextInQueue ==
    LET rest == compact.queue \ {FirstOf(compact.queue)}
    IN  [compact EXCEPT !.pc = IF rest = {} THEN "sweep" ELSE "reap", !.queue = rest]

\* One queued page is checked again, against the index as it is now, ...
ReapPage ==
    LET l == FirstOf(compact.queue)
        c == PageAt(l).chunk
    IN  /\ compact.pc = "reap"
        /\ IF SafeToReap(c, l)
           THEN /\ ReapPhysicalPageIfDead(c, l)
                /\ Step([compact EXCEPT !.pc = "mark", !.freed = @ + 1])
           ELSE /\ Step(NextInQueue)
                /\ UNCHANGED <<refs, blobs, chunks, stats>>
        /\ nonce' = IF chunks'[c] = None THEN [nonce EXCEPT ![c] = None] ELSE nonce
        /\ UNCHANGED <<candidates, files, short>> /\ OnlyCompacts

\* ... and flagged if that said so.
MarkPage ==
    /\ compact.pc = "mark"
    /\ SetDeleted(FirstOf(compact.queue))
    /\ Step(NextInQueue)
    /\ UNCHANGED <<ixVars, recVars>> /\ OnlyCompacts

SweepBlobs ==
    /\ compact.pc = "sweep"
    /\ PurgeScan
    /\ Step([compact EXCEPT !.pc = "purge"])
    /\ UNCHANGED <<files, recVars>> /\ OnlyCompacts

SweepBlob ==
    /\ compact.pc = "purge"
    /\ \E b \in candidates : PurgeBlob(b)
    /\ UNCHANGED <<files, recVars, compact>> /\ OnlyCompacts

\* The end of phase 1: the shared guard is released.
Reconcile ==
    /\ compact.pc = "purge" /\ candidates = {}
    /\ ReconcileDeadStats(NS, compact.freed)
    /\ Step([IdleCompact EXCEPT !.pc = "wait"])
    /\ UNCHANGED <<candidates, files, recVars>> /\ OnlyCompacts

-----------------------------------------------------------------------------
(* Compact, phase 2: rewrite the segments with enough flagged pages.       *)

\* DeadRatio is at least the threshold.
WorthRewriting(s) ==
    LET pages == files[s].pages
        dead  == {i \in DOMAIN pages : pages[i].deleted}
    IN  pages # << >> /\ 100 * Cardinality(dead) >= RewritePercent * Len(pages)

\* Faulty variant of BeginRewrite: the active segment is rewritten too.
RewriteActive ==
    /\ compact.pc = "wait"
    /\ ~PutsRunning /\ ~GetsRunning
    /\ LET todo == {s \in DOMAIN files : WorthRewriting(s)}
       IN  Step(IF todo = {} THEN IdleCompact
                ELSE [compact EXCEPT !.pc = "rewrite", !.todo = todo])
    /\ UNCHANGED <<ixVars, files, recVars>> /\ OnlyCompacts

\* Faulty variant of BeginRewrite: phase 2 runs under the shared guard.
RewriteUnderReaders ==
    /\ compact.pc = "wait"
    /\ LET todo == {s \in DOMAIN files \ {active} : WorthRewriting(s)}
       IN  Step(IF todo = {} THEN IdleCompact
                ELSE [compact EXCEPT !.pc = "rewrite", !.todo = todo])
    /\ UNCHANGED <<ixVars, files, recVars>> /\ OnlyCompacts

\* SegmentStats under the exclusive guard, which waits for every Put to return
\* and every reader to be closed.
BeginRewrite ==
    /\ compact.pc = "wait"
    /\ ~PutsRunning /\ ~GetsRunning
    /\ LET todo == {s \in DOMAIN files \ {active} : WorthRewriting(s)}
       IN  Step(IF todo = {} THEN IdleCompact
                ELSE [compact EXCEPT !.pc = "rewrite", !.todo = todo])
    /\ UNCHANGED <<ixVars, files, recVars>> /\ OnlyCompacts

\* The n-th in order of a set of positions.
Nth(positions, n) ==
    CHOOSE i \in positions : Cardinality({j \in positions : j < i}) = n - 1

Unflagged(pages) == {i \in DOMAIN pages : ~pages[i].deleted}

\* The unflagged pages, verbatim and in order.
Compacted(pages) ==
    [n \in 1..Cardinality(Unflagged(pages)) |-> pages[Nth(Unflagged(pages), n)]]

\* What is left of a segment, in a new one.
RewriteSegment ==
    LET kept == Compacted(files[Min(compact.todo)].pages)
    IN  /\ compact.pc = "rewrite"
        /\ nextSeq <= MaxSegment
        /\ files' = WithFile(files, nextSeq, [pages |-> kept, wal |-> << >>])
        /\ nextSeq' = nextSeq + 1
        /\ Step([compact EXCEPT !.pc = "relocate",
                                !.moved = {<<nextSeq, n>> : n \in DOMAIN kept}])
        /\ UNCHANGED <<ixVars, active, recVars, lifeVars, put, reader, used>>

\* The current record of a relocated chunk is fetched; without one Compact fails.
FetchRecord ==
    LET c == PageAt(FirstOf(compact.moved)).chunk
    IN  /\ compact.pc = "relocate" /\ compact.moved # {}
        /\ Step(IF chunks[c] = None THEN IdleCompact
                ELSE [compact EXCEPT !.pc = "store", !.held = chunks[c].rc, !.nonce = nonce[c]])
        /\ UNCHANGED <<ixVars, files, recVars>> /\ OnlyCompacts

NextMoved ==
    [compact EXCEPT !.pc = "relocate", !.moved = @ \ {FirstOf(@)}, !.held = 0, !.nonce = None]

\* Faulty variant of StoreRecord: the entry RewriteSegment returned, whose
\* RefCount is zero, is stored as it is.
StoreBlindly ==
    LET l == FirstOf(compact.moved)
        c == PageAt(l).chunk
    IN  /\ compact.pc = "store"
        /\ chunks' = [chunks EXCEPT ![c] = [ns |-> NS, rc |-> 0, loc |-> l]]
        /\ short' = short \cup Spanning({c})
        /\ nonce' = [nonce EXCEPT ![c] = None]
        /\ Step(NextMoved)
        /\ UNCHANGED <<refs, blobs, stats, candidates, files>> /\ OnlyCompacts

\* Faulty variant of StoreRecord: only the count is carried over.
StoreWithoutNonce ==
    LET l == FirstOf(compact.moved)
        c == PageAt(l).chunk
    IN  /\ compact.pc = "store"
        /\ chunks' = [chunks EXCEPT ![c] = [ns |-> NS, rc |-> compact.held, loc |-> l]]
        /\ short' = short \cup Spanning({c})
        /\ nonce' = [nonce EXCEPT ![c] = None]
        /\ Step(NextMoved)
        /\ UNCHANGED <<refs, blobs, stats, candidates, files>> /\ OnlyCompacts

\* PutChunk: the fetched count, nonce and tag with the new location, whatever
\* happened since.
StoreRecord ==
    LET l == FirstOf(compact.moved)
        c == PageAt(l).chunk
    IN  /\ compact.pc = "store"
        /\ chunks' = [chunks EXCEPT ![c] = [ns |-> NS, rc |-> compact.held, loc |-> l]]
        /\ short' = short \cup Spanning({c})
        /\ nonce' = [nonce EXCEPT ![c] = compact.nonce]
        /\ Step(NextMoved)
        /\ UNCHANGED <<refs, blobs, stats, candidates, files>> /\ OnlyCompacts

NextSegment ==
    IF compact.todo = {Min(compact.todo)} THEN IdleCompact
    ELSE [compact EXCEPT !.pc = "rewrite", !.todo = @ \ {Min(@)}]

\* Faulty variant of DeleteSegmentFile: before the index was told.
UnlinkFirst ==
    /\ compact.pc = "relocate"
    /\ files' = [s \in DOMAIN files \ {Min(compact.todo)} |-> files[s]]
    /\ Step(NextSegment)
    /\ UNCHANGED <<ixVars, recVars>> /\ OnlyCompacts

DeleteSegmentFile ==
    /\ compact.pc = "relocate" /\ compact.moved = {}
    /\ files' = [s \in DOMAIN files \ {Min(compact.todo)} |-> files[s]]
    /\ Step(NextSegment)
    /\ UNCHANGED <<ixVars, recVars>> /\ OnlyCompacts

\* Compact looks at its context before each page and before each segment, and so
\* does the index at the start of each of its transactions: the purge of the dead
\* manifests, the one of the statistics, and the fetch and the store of a relocated
\* record. From there on the segment stays where it is, beside its copy.
CancelCompact ==
    /\ "compact" \in Cancels
    /\ \/ compact.pc \in {"reap", "sweep", "purge", "rewrite", "store"}
       \/ compact.pc = "relocate" /\ compact.moved # {}
    /\ candidates' = {}
    /\ Step(IdleCompact)
    /\ UNCHANGED <<refs, blobs, chunks, stats, files, recVars>> /\ OnlyCompacts

-----------------------------------------------------------------------------
(* Stopping and opening again                                              *)

\* What is left of a process: the index and the files.
Stop(how) ==
    /\ open' = FALSE
    /\ space' = [space EXCEPT !.engine = FALSE, !.dropping = None]
    /\ put' = [w \in Writer |-> IdlePut]
    /\ reader' = [r \in Reader |-> IdleReader]
    /\ compact' = IdleCompact
    /\ candidates' = {}
    /\ active' = 0
    /\ used' = [used EXCEPT ![how] = @ + 1]
    /\ UNCHANGED <<refs, blobs, chunks, stats, files, nextSeq, recVars>>

Crash == open /\ used.crashes < MaxCrashes /\ Stop("crashes")

\* Close waits for every operation and every open reader.
Close ==
    /\ open /\ used.closes < MaxCloses
    /\ Quiet
    /\ Stop("closes")

\* Every entry ever logged, which ParseWAL returns segment by segment.
Logged   == UNION {{s} \X DOMAIN files[s].wal : s \in DOMAIN files}
Entry(e) == files[e[1]].wal[e[2]]

\* Faulty variant of Replayed: blobs that are recorded are replayed as well.
ReplayedAlways == Logged

\* replayWAL: an entry is registered again if at its turn its blob has no
\* manifest, in the index or from an entry before it.
Replayed ==
    {e \in Logged :
        /\ blobs[Entry(e).blob] = None
        /\ \A f \in Logged : Entry(f).blob = Entry(e).blob => ~Before(f, e)}

Replaying(b)    == {e \in Replayed : Entry(e).blob = b}
ReplayedWith(c) == {e \in Replayed : Count(Entry(e).ids, c) > 0}

\* Its chunks get one reference each, at the places the log names; of entries and
\* occurrences with the same chunk the last one counts.  The log has no nonces.
ReplayedRecord(c) ==
    LET entry == Entry(LastOf(ReplayedWith(c)))
    IN  [ns |-> NS, rc |-> 1,
         loc |-> entry.at[Max({i \in DOMAIN entry.ids : entry.ids[i] = c})]]

ReplayWAL ==
    /\ blobs' = [b \in Blob |-> IF Replaying(b) = {} THEN blobs[b]
                                ELSE [rc |-> 1, ids |-> Entry(LastOf(Replaying(b))).ids]]
    /\ chunks' = [c \in ChunkId |-> IF ReplayedWith(c) = {} THEN chunks[c]
                                    ELSE ReplayedRecord(c)]
    /\ short' = {c \in short : ReplayedWith(c) = {}}
    /\ nonce' = [c \in ChunkId |-> IF ReplayedWith(c) = {} THEN nonce[c] ELSE None]

\* openEngine: the segment with the highest id becomes the active one.
OpenEngine ==
    LET last == IF DOMAIN files = {} THEN 0 ELSE Max(DOMAIN files)
    IN  /\ active' = last
        /\ nextSeq' = last + 1
        /\ ReplayWAL
        /\ UNCHANGED <<refs, stats, candidates, files>>

Reopen ==
    /\ ~open
    /\ open' = TRUE
    /\ space' = [space EXCEPT !.engine = space.recorded]
    /\ IF space.recorded THEN OpenEngine ELSE UNCHANGED <<ixVars, volVars, recVars>>
    /\ UNCHANGED <<put, reader, compact, used>>

\* RebuildIndex, run while nothing else is: every unflagged page is registered
\* with one reference, the last page of a chunk winning, and every blob all of
\* whose chunks were met gets a manifest with one reference.  It refuses an
\* encrypted namespace.
RebuildIndex ==
    LET pages == {l \in AllPages : ~PageAt(l).deleted}
        met(b) == {l \in pages : PageAt(l).blob = b}
        chunkAt(b, i) == PageAt(CHOOSE l \in met(b) : PageAt(l).seq = i).chunk
        total(b) == Max({PageAt(l).total : l \in met(b)})
        complete(b) == met(b) # {} /\ {PageAt(l).seq : l \in met(b)} = 1..total(b)
        holding(c) == {l \in pages : PageAt(l).chunk = c}
        found == {c \in ChunkId : holding(c) # {}}
    IN  /\ space.engine /\ Quiet /\ ~Encrypted
        /\ used.rebuilds < MaxRebuilds
        /\ used' = [used EXCEPT !.rebuilds = @ + 1]
        /\ chunks' = [c \in ChunkId |->
                        IF c \in found THEN [ns |-> NS, rc |-> 1, loc |-> LastOf(holding(c))]
                        ELSE chunks[c]]
        /\ short' = short \cup Spanning(found)
        /\ blobs' = [b \in Blob |->
                        IF complete(b)
                        THEN [rc |-> 1, ids |-> [i \in 1..total(b) |-> chunkAt(b, i)]]
                        ELSE blobs[b]]
        /\ UNCHANGED <<refs, stats, candidates, volVars, nonce, lifeVars, put, reader, compact>>

-----------------------------------------------------------------------------
(* DeleteNamespace and CreateNamespace, which exclude every operation      *)

OnlySpace == UNCHANGED <<candidates, files, recVars, open, put, reader, compact>>

\* The engine is closed and forgotten, the references are listed.
BeginDrop ==
    /\ MayCall("drop") /\ Quiet /\ space.engine
    /\ used.drops < MaxDrops
    /\ used' = [used EXCEPT !.drops = @ + 1]
    /\ space' = [space EXCEPT !.engine = FALSE,
                              !.dropping = {k \in Key : refs[NS][k] # None}]
    /\ active' = 0
    /\ UNCHANGED <<refs, blobs, chunks, stats, nextSeq>> /\ OnlySpace

DropRef ==
    /\ space.dropping # None
    /\ \E k \in space.dropping :
          /\ CommitDelete(NS, k)
          /\ space' = [space EXCEPT !.dropping = @ \ {k}]
    /\ UNCHANGED <<active, nextSeq, used>> /\ OnlySpace

\* At last the namespace's record.  Its files stay.
DropRecord ==
    /\ space.dropping = {}
    /\ space' = [space EXCEPT !.recorded = FALSE, !.dropping = None]
    /\ UNCHANGED <<refs, blobs, chunks, stats, active, nextSeq, used>> /\ OnlySpace

\* The context is done: what was deleted is, the rest stays, without an engine.
CancelDrop ==
    /\ "drop" \in Cancels
    /\ space.dropping # None
    /\ space' = [space EXCEPT !.dropping = None]
    /\ UNCHANGED <<refs, blobs, chunks, stats, active, nextSeq, used>> /\ OnlySpace

\* A namespace under the same id, with a key of its own, finds the files of the
\* earlier one; its engine may fail to open.
CreateNamespace ==
    /\ MayCall("drop") /\ Quiet /\ ~space.recorded
    /\ \E opened \in BOOLEAN :
          /\ space' = [space EXCEPT !.recorded = TRUE, !.engine = opened, !.created = @ + 1]
          /\ IF opened THEN OpenEngine ELSE UNCHANGED <<ixVars, volVars, recVars>>
    /\ UNCHANGED <<open, put, reader, compact, used>>

-----------------------------------------------------------------------------
PutNext ==
    \/ \E w \in Writer, k \in Key : \E b \in Content[NS] : WriteBlob(w, k, b)
    \/ \E w \in Writer :
          LogBlob(w) \/ CheckQuota(w) \/ CancelPut(w) \/ CommitBlob(w) \/ MarkDuplicate(w)

GetNext ==
    \/ \E r \in Reader, k \in Key : GetRef(r, k)
    \/ \E r \in Reader : GetBlob(r) \/ GetChunks(r) \/ ReadChunk(r) \/ GetFailed(r)

CompactNext ==
    \/ ScanPages \/ ReapPage \/ MarkPage \/ SweepBlobs \/ SweepBlob \/ Reconcile
    \/ BeginRewrite \/ RewriteSegment \/ FetchRecord \/ StoreRecord \/ DeleteSegmentFile
    \/ CancelCompact

StoreNext ==
    \/ PutNext
    \/ GetNext
    \/ \E k \in Key : Delete(k)
    \/ \E old, new \in Key : Rename(old, new)
    \/ CompactNext
    \/ Crash \/ Close \/ Reopen
    \/ RebuildIndex
    \/ BeginDrop \/ DropRef \/ DropRecord \/ CancelDrop \/ CreateNamespace

StoreSpec == StoreInit /\ [][StoreNext]_vars

-----------------------------------------------------------------------------
(* Properties                                                              *)

\* What a Get of k would return now: nothing, the blob, or an error.
Fetched(k) ==
    IF refs[NS][k] = None THEN None
    ELSE LET b == refs[NS][k].blob
         IN  IF /\ blobs[b] # None
                /\ blobs[b].ids \in Manifests[b]
                /\ \A i \in DOMAIN blobs[b].ids :
                      LET c == blobs[b].ids[i]
                      IN  chunks[c] # None /\ ChunkReadable(c, chunks[c].loc, nonce[c])
             THEN b ELSE "error"

\* A key that is present can be read: its manifest is recorded and every chunk
\* of it is where the index says, whole and unflagged, at every moment and
\* whatever step Put, Compact or recovery is in.
LiveKeysReadable == \A k \in Key : Fetched(k) # "error"

\* The store implements the map of BlobMap, where a key has the content a Get
\* would return now: nothing but the commit of a Put, a Delete and a Rename is
\* observable, in particular no step of Compact and no recovery, a commit
\* changes one key, and the quota holds whoever commits at the same time.
Map == INSTANCE BlobMap WITH map <- [k \in Key |-> Fetched(k)]
ImplementsMap == Map!MapSpec

\* What the namespace's references hold stays within its quota, whoever puts at the
\* same time, whatever was overwritten, renamed or recovered between a check and its
\* commit, and whatever the counters that the check reads went through.
QuotaHolds ==
    /\ Quota.maxBlobCount > 0 => Total(BlobsAt(NS)) <= Quota.maxBlobCount
    /\ Quota.maxBytes > 0 => Total(BytesAt(NS)) <= Quota.maxBytes
    /\ Quota.maxBlobSize > 0 => \A k \in Key : BytesAt(NS)[k] <= Quota.maxBlobSize

\* A page that an open reader has still to read is not removed under it: the
\* rewriting of segments waits for every reader, and starts none.
ReaderKeepsPages ==
    [][\A r \in Reader : reader[r].pc = "open" =>
          \A l \in ToSet(reader[r].at) : HasPage(l) => HasPage(l)']_vars

\* What blob b counts for in the count of chunk c: one for each of its occurrences
\* and each count of the manifest.
HeldBy(b, c) ==
    IF blobs[b] = None THEN {}
    ELSE {b} \X (1..blobs[b].rc) \X {i \in DOMAIN blobs[b].ids : blobs[b].ids[i] = c}

\* The count of a chunk is the sum, over the recorded manifests, of their own
\* counts times the occurrences of the chunk: commits, reaps, purges and
\* relocations keep the two levels of counting in step, so that a manifest and
\* its chunks become collectable together.
ChunkCountsMatchManifests ==
    \A c \in ChunkId :
        ChunkHeld(chunks, c) = Cardinality(UNION {HeldBy(b, c) : b \in Blob})

\* When no Put and no Compact is in progress each unflagged page is the one its
\* chunk's record points at: there is no second copy and none that only the
\* death of every reference would reveal.
PagesAccountedFor ==
    ~PutsRunning /\ ~Compacting =>
        \A l \in AllPages :
            ~PageAt(l).deleted =>
                chunks[PageAt(l).chunk] # None /\ chunks[PageAt(l).chunk].loc = l
=============================================================================
