---------------------------- MODULE SegmentFile ----------------------------
(***************************************************************************)
(* The volume engine of one namespace (volume.go), page by page: writers   *)
(* that append their blobs to the active segment side by side, its buffer, *)
(* rolling over to the next segment, patches of headers, syncs, the log,   *)
(* deleted flags; write errors, a process that dies, a machine that loses  *)
(* its power; Close and Open.                                              *)
(*                                                                         *)
(* Every writer stores one blob.  A page is what its header says: whose it *)
(* is and which page of which chunk, whether BlobID and TotalChunks have   *)
(* been patched in, and the deleted flag.  A page that was not written in  *)
(* full is Torn: no header can be decoded at its place, or at any page     *)
(* boundary counted from there.  An offset in a segment is the number of   *)
(* pages, whole or torn, before it.  A file that was synced is found in    *)
(* its directory.                                                          *)
(*                                                                         *)
(* Rewriting and deleting segments are in BlobStore: the store keeps       *)
(* writers out meanwhile.  It also calls Close only between calls          *)
(* (StoreGuard).  Chunking, hashing and encryption have happened before.   *)
(***************************************************************************)
EXTENDS Integers, Sequences, FiniteSets, SequencesExt, FiniteSetsExt

CONSTANTS
    Writer,
    PagesOf,       \* per writer, the number of pages of each chunk of its blob
    SegmentPages,  \* MaxSegmentSize
    MaxSegment,    \* bounds
    MaxCrashes, MaxPowerLosses, MaxErrors,
    None, Torn,
    Garbled        \* an entry of a log that nobody wrote

ASSUME SegmentAssumption ==
    /\ PagesOf \in [Writer -> Seq(Nat \ {0})]
    /\ \A w \in Writer : PagesOf[w] # <<>>
    /\ SegmentPages \in Nat \ {0} /\ MaxSegment \in Nat \ {0}

Segment == 1..MaxSegment
Page == [of : Writer, chunk : Nat, part : Nat, named : BOOLEAN, deleted : BOOLEAN]
SegFile == [header : BOOLEAN, pages : Seq(Page \cup {Torn}), log : Seq(Writer \cup {Torn})]
SegActive == [seq : Segment, broken : SUBSET {"buffer", "file"}, buffer : Seq(Page)]

\* What stands for absence, or for what cannot be read, is nothing else.
ASSUME SegmentNoneAssumption ==
    /\ None \notin Writer /\ None \notin SegFile /\ None \notin SegActive
    /\ Torn \notin Writer /\ Torn \notin Page
    /\ Garbled \notin Writer \cup {Torn}
    /\ \A entries \in SUBSET (Writer \cup {Garbled}) : None # entries

VARIABLES
    file,      \* per segment, what the system has of it, or None
    disk,      \* per segment, what is on the disk for certain, or None
    active,    \* e.active, or None; "broken" is what has failed for good: its bufio.Writer
               \* ("buffer"), or its file, which is closed ("file")
    nextSeq,
    up,        \* the engine is open
    mu,        \* the writer that holds e.mu between two steps, or None
    pc, placed, patched, seen,  \* of WriteBlob: places of the chunks so far, pages patched,
               \* and the flag that patchPage has read and not yet written back
    marked,    \* places whose MarkDeleted succeeded after their WriteBlob had returned
    spent      \* [crashes, powerLosses, errors]

fileVars == <<file, disk>>
engineVars == <<active, nextSeq, up, mu>>
writerVars == <<pc, placed, patched, seen>>
vars == <<fileVars, engineVars, writerVars, marked, spent>>

NewFile == [header |-> TRUE, pages |-> <<>>, log |-> <<>>]
Headless == [NewFile EXCEPT !.header = FALSE]
Exists(s) == file[s] # None
IsActive(s) == active # None /\ active.seq = s
Works == active.broken = {}

\* The pages of a chunk, as appendChunk makes them.
ChunkPages(w, i) ==
    [part \in 1..PagesOf[w][i] |->
        [of |-> w, chunk |-> i, part |-> part, named |-> FALSE, deleted |-> FALSE]]

SegInit ==
    /\ file = [s \in Segment |-> None] /\ disk = file
    /\ active = None /\ nextSeq = 1 /\ up = TRUE /\ mu = None
    /\ pc = [w \in Writer |-> "append"]
    /\ placed = [w \in Writer |-> <<>>]
    /\ patched = [w \in Writer |-> 0]
    /\ seen = [w \in Writer |-> FALSE]
    /\ marked = {}
    /\ spent = [crashes |-> 0, powerLosses |-> 0, errors |-> 0]

\* A writer at a step of WriteBlob that takes the mutex.
Locked(w, step) == up /\ mu = None /\ pc[w] = step
Goes(w, step) == pc' = [pc EXCEPT ![w] = step]

\* The files with the active segment's buffer, or a part of it, written out.
Flushed(written) == [file EXCEPT ![active.seq].pages = @ \o written]
Synced(s, files) == [disk EXCEPT ![s].pages = files[s].pages]

-----------------------------------------------------------------------------
(* Appending: ensureActive, rollIfNeeded, appendChunk                      *)

Offset == Len(file[active.seq].pages) + Len(active.buffer)
IsFull == active # None /\ Offset >= SegmentPages
NeedsSegment == active = None \/ IsFull

\* Where the chunk goes is known from the offset that the segFile counts itself.
Places(w, s, at) ==
    /\ placed' = [placed EXCEPT ![w] = Append(@, [seg |-> s, at |-> at])]
    /\ IF Len(placed'[w]) = Len(PagesOf[w]) THEN Goes(w, "flush") ELSE UNCHANGED pc

AppendToActive(w) ==
    /\ Locked(w, "append") /\ ~NeedsSegment /\ Works
    /\ active' = [active EXCEPT !.buffer = @ \o ChunkPages(w, Len(placed[w]) + 1)]
    /\ Places(w, active.seq, Offset + 1)
    /\ UNCHANGED <<fileVars, nextSeq, up, mu, patched, seen, marked, spent>>

\* The full segment is flushed and closed, and not synced; the new one's header is synced.
AppendToNew(w) ==
    /\ Locked(w, "append") /\ NeedsSegment /\ nextSeq \in Segment
    /\ active # None => Works
    /\ LET sealed == IF active = None THEN file ELSE Flushed(active.buffer)
       IN file' = [sealed EXCEPT ![nextSeq] = NewFile]
    /\ disk' = [disk EXCEPT ![nextSeq] = NewFile]
    /\ active' = [seq |-> nextSeq, broken |-> {},
                  buffer |-> ChunkPages(w, Len(placed[w]) + 1)]
    /\ nextSeq' = nextSeq + 1
    /\ Places(w, nextSeq, 1)
    /\ UNCHANGED <<up, mu, patched, seen, marked, spent>>

-----------------------------------------------------------------------------
(* Naming the pages, and the log                                           *)

Flush(w) ==
    /\ Locked(w, "flush") /\ "buffer" \notin active.broken
    /\ file' = Flushed(active.buffer)
    /\ active' = [active EXCEPT !.buffer = <<>>]
    /\ Goes(w, "patch")
    /\ UNCHANGED <<disk, nextSeq, up, mu, placed, patched, seen, marked, spent>>

\* The first page of the chunk whose turn it is in the loop over patches.
Target(w) == placed[w][patched[w] + 1]
PageAt(place) == file[place.seg].pages[place.at]

\* Faulty variant of Patches: the loop ends one page early.
PatchesButLast(w) ==
    /\ patched' = [patched EXCEPT ![w] = @ + 1]
    /\ Goes(w, IF patched'[w] >= Len(placed[w]) - 1 THEN "sync" ELSE "patch")

Patches(w) ==
    /\ patched' = [patched EXCEPT ![w] = @ + 1]
    /\ Goes(w, IF patched'[w] = Len(placed[w]) THEN "sync" ELSE "patch")

\* A page of the active segment is patched under the mutex.
PatchActive(w) ==
    /\ Locked(w, "patch")
    /\ IsActive(Target(w).seg) /\ "file" \notin active.broken
    /\ file' = [file EXCEPT ![Target(w).seg].pages[Target(w).at].named = TRUE]
    /\ Patches(w)
    /\ UNCHANGED <<disk, engineVars, placed, seen, marked, spent>>

\* One of a sealed segment without it, and the flag is read before it is written.
PatchSealed(w) ==
    /\ Locked(w, "patch") /\ ~IsActive(Target(w).seg)
    /\ file' = [file EXCEPT ![Target(w).seg].pages[Target(w).at].named = TRUE]
    /\ seen' = [seen EXCEPT ![w] = PageAt(Target(w)).deleted]
    /\ Goes(w, "patchFlag")
    /\ UNCHANGED <<disk, engineVars, placed, patched, marked, spent>>

PatchFlag(w) ==
    /\ up /\ pc[w] = "patchFlag"
    /\ file' = [file EXCEPT ![Target(w).seg].pages[Target(w).at].deleted = seen[w]]
    /\ seen' = [seen EXCEPT ![w] = FALSE]
    /\ Patches(w)
    /\ UNCHANGED <<disk, engineVars, placed, marked, spent>>

\* Faulty variant of Sync: nothing is synced before the log.
SyncNothing(w) ==
    /\ Locked(w, "sync") /\ Works
    /\ file' = Flushed(active.buffer)
    /\ active' = [active EXCEPT !.buffer = <<>>]
    /\ mu' = w
    /\ Goes(w, "log")
    /\ UNCHANGED <<disk, nextSeq, up, placed, patched, seen, marked, spent>>

\* The segment that is active now, whichever it is.
Sync(w) ==
    /\ Locked(w, "sync") /\ Works
    /\ file' = Flushed(active.buffer)
    /\ disk' = Synced(active.seq, file')
    /\ active' = [active EXCEPT !.buffer = <<>>]
    /\ mu' = w
    /\ Goes(w, "log")
    /\ UNCHANGED <<nextSeq, up, placed, patched, seen, marked, spent>>

\* Faulty variant of AppendWAL: WriteBlob returns without the sync of the log.
AppendWALUnsynced(w) ==
    /\ up /\ mu = w /\ pc[w] = "log"
    /\ file' = [file EXCEPT ![active.seq].log = Append(@, w)]
    /\ mu' = None
    /\ Goes(w, "returned")
    /\ UNCHANGED <<disk, active, nextSeq, up, placed, patched, seen, marked, spent>>

AppendWAL(w) ==
    /\ up /\ mu = w /\ pc[w] = "log"
    /\ file' = [file EXCEPT ![active.seq].log = Append(@, w)]
    /\ Goes(w, "syncLog")
    /\ UNCHANGED <<disk, engineVars, placed, patched, seen, marked, spent>>

SyncWAL(w) ==
    /\ up /\ mu = w /\ pc[w] = "syncLog"
    /\ disk' = [disk EXCEPT ![active.seq].log = file[active.seq].log]
    /\ mu' = None
    /\ Goes(w, "returned")
    /\ UNCHANGED <<file, active, nextSeq, up, placed, patched, seen, marked, spent>>

-----------------------------------------------------------------------------
(* Errors                                                                  *)

Fails(w) == Goes(w, "failed") /\ UNCHANGED <<placed, patched, seen, marked>>
Errs == spent.errors < MaxErrors /\ spent' = [spent EXCEPT !.errors = @ + 1]

\* What may have got out of a buffer: some of its pages, the last perhaps in part.
PartsOf(buffer) ==
    {SubSeq(buffer, 1, n) : n \in 0..Len(buffer)}
      \cup {Append(SubSeq(buffer, 1, n), Torn) : n \in 0..Len(buffer) - 1}

\* What a step of the writer would have in the buffer.
Pending(w) ==
    IF pc[w] = "append" THEN active.buffer \o ChunkPages(w, Len(placed[w]) + 1)
    ELSE active.buffer

\* The buffer cannot be written out.  A bufio.Writer never forgets an error.
WriteError(w) ==
    /\ \/ Locked(w, "append") /\ ~NeedsSegment
       \/ Locked(w, "flush") \/ Locked(w, "sync")
    /\ Works /\ Pending(w) # <<>>
    /\ \E out \in PartsOf(Pending(w)) : file' = Flushed(out)
    /\ active' = [active EXCEPT !.buffer = <<>>, !.broken = {"buffer"}]
    /\ Errs /\ Fails(w)
    /\ UNCHANGED <<disk, nextSeq, up, mu>>

\* The first segment cannot be made.
CreateError(w) ==
    /\ Locked(w, "append") /\ active = None
    /\ Errs /\ Fails(w)
    /\ UNCHANGED <<fileVars, engineVars>>

\* A full segment cannot be flushed, or the next one cannot be made: it is closed all the
\* same, and stays the active one.
RollError(w) ==
    /\ Locked(w, "append") /\ IsFull /\ Works
    /\ \/ /\ file' = Flushed(active.buffer)
          /\ active' = [active EXCEPT !.buffer = <<>>, !.broken = {"file"}]
       \/ /\ active.buffer # <<>>
          /\ \E out \in PartsOf(active.buffer) : file' = Flushed(out)
          /\ active' = [active EXCEPT !.buffer = <<>>, !.broken = {"buffer", "file"}]
    /\ Errs /\ Fails(w)
    /\ UNCHANGED <<disk, nextSeq, up, mu>>

\* The log cannot be written, or only in part.
LogError(w) ==
    /\ up /\ mu = w /\ pc[w] = "log"
    /\ \/ UNCHANGED file
       \/ file' = [file EXCEPT ![active.seq].log = Append(@, Torn)]
    /\ mu' = None
    /\ Errs /\ Fails(w)
    /\ UNCHANGED <<disk, active, nextSeq, up>>

\* One of the two syncs fails, after everything was written.
SyncError(w) ==
    /\ \/ /\ Locked(w, "sync") /\ Works
          /\ file' = Flushed(active.buffer)
          /\ active' = [active EXCEPT !.buffer = <<>>]
       \/ up /\ mu = w /\ pc[w] = "syncLog" /\ UNCHANGED <<file, active>>
    /\ mu' = None
    /\ Errs /\ Fails(w)
    /\ UNCHANGED <<disk, nextSeq, up>>

\* A call meets what is broken; to seal a segment whose buffer has failed closes its file.
SegmentUnusable(w) ==
    /\ \/ /\ Locked(w, "append") /\ active # None /\ ~Works
          /\ active' \in {active, [active EXCEPT !.broken = @ \cup {"file"}]}
       \/ /\ \/ Locked(w, "flush") /\ "buffer" \in active.broken
             \/ Locked(w, "patch") /\ IsActive(Target(w).seg) /\ "file" \in active.broken
             \/ Locked(w, "sync") /\ ~Works
          /\ UNCHANGED active
    /\ Fails(w)
    /\ UNCHANGED <<fileVars, nextSeq, up, mu, spent>>

-----------------------------------------------------------------------------
(* Deleted flags                                                           *)

IsPage(place) ==
    /\ Exists(place.seg) /\ place.at \in 1..Len(file[place.seg].pages)
    /\ PageAt(place) # Torn

\* ScanSegments goes from page to page, up to the first that does not decode.
Scanned(place) == IsPage(place) /\ \A j \in 1..place.at : file[place.seg].pages[j] # Torn

\* The copy that a Put did not need, or a page that a scan has met.
Markable(w, i) ==
    /\ up /\ mu = None
    /\ IF pc[w] = "returned" THEN IsPage(placed[w][i]) ELSE Scanned(placed[w][i])
    /\ ~PageAt(placed[w][i]).deleted

Flag(w, i) ==
    /\ file' = [file EXCEPT ![placed[w][i].seg].pages[placed[w][i].at].deleted = TRUE]
    /\ marked' = IF pc[w] = "returned" THEN marked \cup {placed[w][i]} ELSE marked

\* Faulty variant of MarkDeleted: the flag is not synced.
MarkUnsynced(w, i) ==
    /\ Markable(w, i) /\ Flag(w, i)
    /\ UNCHANGED <<disk, engineVars, writerVars, spent>>

MarkDeleted(w, i) ==
    /\ Markable(w, i) /\ Flag(w, i)
    /\ disk' = Synced(placed[w][i].seg, file')
    /\ UNCHANGED <<engineVars, writerVars, spent>>

-----------------------------------------------------------------------------
(* Stopping and starting                                                   *)

Busy(w) == placed[w] # <<>> /\ pc[w] \notin {"returned", "failed"}

\* What is left of the writers, and of the engine's memory.
Stops ==
    /\ active' = None /\ up' = FALSE /\ mu' = None
    /\ pc' = [w \in Writer |-> IF Busy(w) THEN "failed" ELSE pc[w]]
    /\ seen' = [w \in Writer |-> FALSE]
    /\ UNCHANGED <<nextSeq, placed, patched, marked>>

\* The process dies.  The buffer is out as far as it had been full: with a page size that
\* does not divide it, in the middle of a page.
Crash ==
    /\ up /\ spent.crashes < MaxCrashes
    /\ IF active = None THEN UNCHANGED file
       ELSE \E out \in PartsOf(active.buffer) : file' = Flushed(out)
    /\ Stops
    /\ spent' = [spent EXCEPT !.crashes = @ + 1]
    /\ UNCHANGED disk

\* It dies in createSegFile, after the file was made and before it has a header.
CrashInCreate ==
    /\ up /\ spent.crashes < MaxCrashes
    /\ NeedsSegment /\ \E w \in Writer : Locked(w, "append")
    /\ active # None => Works
    /\ nextSeq \in Segment
    /\ LET sealed == IF active = None THEN file ELSE Flushed(active.buffer)
       IN file' = [sealed EXCEPT ![nextSeq] = Headless]
    /\ disk' = [disk EXCEPT ![nextSeq] = Headless]
    /\ Stops
    /\ spent' = [spent EXCEPT !.crashes = @ + 1]

\* What the disk need not have: pages it lacks or has in an earlier state.
Unsynced ==
    {p \in UNION {{s} \X DOMAIN file[s].pages : s \in {q \in Segment : Exists(q)}} :
        p[2] <= Len(disk[p[1]].pages) => disk[p[1]].pages[p[2]] # file[p[1]].pages[p[2]]}

\* The segment after a power loss in which the unsynced pages in "kept" had been written, and
\* of the log all entries but the last "cut", the next one in part if it is "torn".
AfterLoss(s, kept, cut, torn) ==
    LET now == file[s]
        then == disk[s]
        whole == Max({Len(then.log), Len(now.log) - cut})
    IN [header |-> now.header,
        pages |-> [j \in 1..Max({Len(then.pages)} \cup {p[2] : p \in {q \in kept : q[1] = s}}) |->
                     IF <<s, j>> \in kept THEN now.pages[j]
                     ELSE IF j <= Len(then.pages) THEN then.pages[j] ELSE Torn],
        log |-> SubSeq(now.log, 1, whole)
                  \o (IF torn /\ whole < Len(now.log) THEN <<Torn>> ELSE <<>>)]

\* The machine loses its power, whether or not the engine is open.
PowerLoss ==
    /\ spent.powerLosses < MaxPowerLosses
    /\ \E kept \in SUBSET Unsynced, cut \in 0..1, torn \in BOOLEAN :
         file' = [s \in Segment |-> IF Exists(s) THEN AfterLoss(s, kept, cut, torn) ELSE None]
    /\ disk' = file'
    /\ Stops
    /\ spent' = [spent EXCEPT !.powerLosses = @ + 1]

\* Flushes and closes; with a segment that is no longer usable it returns an error instead.
Close ==
    /\ up /\ \A w \in Writer : ~Busy(w)
    /\ active # None => Works
    /\ file' = IF active = None THEN file ELSE Flushed(active.buffer)
    /\ Stops
    /\ UNCHANGED <<disk, spent>>

NewestSegment == Max({0} \cup {s \in Segment : Exists(s)})

Opens(next) ==
    /\ ~up
    /\ NewestSegment > 0 => file[NewestSegment].header
    /\ active' = IF NewestSegment = 0 THEN None
                 ELSE [seq |-> NewestSegment, broken |-> {}, buffer |-> <<>>]
    /\ nextSeq' = next
    /\ up' = TRUE
    /\ UNCHANGED <<fileVars, mu, writerVars, marked, spent>>

\* Faulty variant of Open: the next segment gets the number of the newest.
OpenSameNumber == Opens(Max({1, NewestSegment}))

\* Appends to the end of the newest segment.  If that has no header Open fails, for good.
Open == Opens(NewestSegment + 1)

SegNext ==
    \/ \E w \in Writer :
         \/ AppendToActive(w) \/ AppendToNew(w)
         \/ Flush(w) \/ PatchActive(w) \/ PatchSealed(w) \/ PatchFlag(w)
         \/ Sync(w) \/ AppendWAL(w) \/ SyncWAL(w)
         \/ WriteError(w) \/ CreateError(w) \/ RollError(w)
         \/ LogError(w) \/ SyncError(w) \/ SegmentUnusable(w)
         \/ \E i \in DOMAIN placed[w] : MarkDeleted(w, i)
    \/ Crash \/ CrashInCreate \/ PowerLoss \/ Close \/ Open

SegSpec == SegInit /\ [][SegNext]_vars

-----------------------------------------------------------------------------
(* Properties                                                              *)

\* The types of the state.  What the disk has is no more than what the system has; no
\* segment has a number that is yet to be given; a writer past its loop has placed every chunk.
SegmentTypeOK ==
    /\ \A s \in Segment :
         /\ Exists(s) => /\ file[s] \in SegFile /\ disk[s] \in SegFile
                         /\ Len(disk[s].pages) <= Len(file[s].pages)
                         /\ IsPrefix(disk[s].log, file[s].log)
         /\ ~Exists(s) => disk[s] = None
         /\ up /\ s >= nextSeq => ~Exists(s)
    /\ active # None => /\ active.seq \in Segment /\ Exists(active.seq)
                        /\ active.buffer \in Seq(Page)
                        /\ active.broken \subseteq {"buffer", "file"}
    /\ nextSeq \in 1..MaxSegment + 1 /\ up \in BOOLEAN /\ mu \in Writer \cup {None}
    /\ mu # None => pc[mu] \in {"log", "syncLog"}
    /\ \A w \in Writer :
         /\ pc[w] \in {"append", "flush", "patch", "patchFlag", "sync", "log", "syncLog",
                       "returned", "failed"}
         /\ placed[w] \in Seq([seg : Segment, at : Nat])
         /\ pc[w] \notin {"append", "failed"} => Len(placed[w]) = Len(PagesOf[w])
         /\ seen[w] => pc[w] = "patchFlag"

\* ReadChunk finds the chunk, flagged or not: every page at its place is whole, and its own.
ReadChunk(w, i) ==
    \A part \in 1..PagesOf[w][i] :
      LET at == [placed[w][i] EXCEPT !.at = @ + part - 1]
      IN /\ IsPage(at)
         /\ <<PageAt(at).of, PageAt(at).chunk, PageAt(at).part>> = <<w, i, part>>
Kept(w, i) == ReadChunk(w, i) /\ PageAt(placed[w][i]).named

\* Something was appended behind a torn entry.
AppendedBehindTorn(s) == \E j \in 1..Len(file[s].log) - 1 : file[s].log[j] = Torn

\* What ParseWAL may return.  A torn entry is the beginning of one; at the end of the log it is
\* passed over.  An entry has no length and no checksum: a torn one with something behind it is
\* decoded together with the beginning of that.  The process dies if that makes up a number of
\* chunks too large to allocate (None).  Otherwise it ends the log there, or is an entry that
\* nobody wrote: and then it may go on with any entry behind the one it began to eat.
ParseWAL(s) ==
    LET log == file[s].log
        whole == {j \in DOMAIN log : log[j] # Torn}
        front == {j \in whole : 1..j \subseteq whole}
        behind == {j \in whole : \E k \in 1..j - 2 : log[k] = Torn}
        Entries(places) == {log[j] : j \in places}
    IN {Entries(front)}
         \cup (IF AppendedBehindTorn(s)
               THEN {None} \cup {Entries(front \cup more) \cup {Garbled} : more \in SUBSET behind}
               ELSE {})
LoggedIn(w, s) == Exists(s) /\ w \in ToSet(file[s].log)

\* The last sync was sure to reach the chunk: it is in the segment of the log entry.  The
\* others are at the mercy of the power.
SurelySynced(w, i, s) == placed[w][i].seg = s \/ spent.powerLosses = 0

\* Once WriteBlob has returned the blob is kept, and named in its pages: whatever other writers,
\* rolls, errors, a dead process and an Open behind a torn page do; and after a loss of power
\* too, for chunks in the segment that was synced.
ReturnedIsKept ==
    \A w \in Writer : pc[w] = "returned" =>
      \A i \in DOMAIN placed[w], s \in Segment :
        LoggedIn(w, s) /\ SurelySynced(w, i, s) => Kept(w, i)

\* It also stays in a log, for good, and ParseWAL returns it, unless something was appended to
\* that log behind a torn entry: what the store may have to replay is not lost.
ReturnedIsLogged ==
    \A w \in Writer : pc[w] = "returned" =>
      \E s \in Segment :
        /\ LoggedIn(w, s)
        /\ ~AppendedBehindTorn(s) => \A entries \in ParseWAL(s) : w \in entries

\* A replay registers no chunk that is not there, except from a log with an entry behind a torn
\* one: any other entry that ParseWAL returns was written, and named before, and in its own
\* segment synced, whenever the process or the power was lost.
ReplayFindsPages ==
    \A s \in Segment : Exists(s) =>
      \A entries \in ParseWAL(s) \ {None} : \A w \in entries :
        \/ w = Garbled /\ AppendedBehindTorn(s)
        \/ /\ w \in Writer
           /\ \A i \in DOMAIN PagesOf[w] : SurelySynced(w, i, s) => Kept(w, i)

\* A page that was flagged after its WriteBlob had returned stays flagged: neither a patch nor
\* a loss of power brings a deleted chunk back.
FlaggedStaysFlagged ==
    \A place \in marked : IsPage(place) /\ PageAt(place).deleted
=============================================================================
