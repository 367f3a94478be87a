------------------------------ MODULE Staging ------------------------------
(***************************************************************************)
(* One resumable upload of the staging manager (src/staging/staging.go):   *)
(* its data file, its metadata file, the state objects that stand for it   *)
(* in memory and the goroutines that write chunks to it, complete it, hand *)
(* it on, abort or reap it, while the process may stop at any moment.      *)
(*                                                                         *)
(* Simplifications:                                                        *)
(*   - A unit stands for a run of bytes that chunks do not divide; in the  *)
(*     two block modes it is a block.                                      *)
(*   - What a write puts into the file survives a stop of the process.     *)
(*   - No I/O call fails but by a file that is gone or a handle that is    *)
(*     closed; the sender's connection may fail.                           *)
(*   - How old a session is is left open: Reap may find any too old.       *)
(*   - Complete looks at the size and at the bits of the blocks at once,   *)
(*     and a writer sets its bits at once: bits are only ever set.         *)
(***************************************************************************)
EXTENDS Integers, Sequences, FiniteSetsExt, TLC

S == INSTANCE SequencesExt

CONSTANTS
    Caller,      \* goroutines
    Size,        \* how many units the sender has
    Options,     \* BeginOptions the session may have been begun with
    Sent,        \* the chunks that may arrive
    Breaks,      \* whether a stream may break off
    ReapsEarly,  \* whether Reap may meet a session that Begin has not returned
    Calls,       \* the operations callers make
    None,
    MaxRestarts, \* bound on stops of the process (model checking only)
    MaxLoads     \* bound on the state objects of one process (model checking only)

Unit == 1..Size

\* mode: BlockSize = 0, BlockSize > 0, or that with PieceHashes. sized: an
\* ExpectedSize was given. whole: so was ExpectedSHA256. checked: senders give
\* every chunk's SHA-256.
BeginOptions == {o \in [mode : {"ranges", "blocks", "pieces"}, sized : BOOLEAN,
                        whole : BOOLEAN, checked : BOOLEAN] :
                    o.mode # "ranges" => o.sized}

\* A chunk: units lo to hi, some of them not what the sender has.
Chunk == {c \in [lo : Unit, hi : 1..Size + 1, bad : SUBSET Unit] :
            c.lo <= c.hi /\ c.bad \subseteq c.lo..c.hi}

\* The byte ranges [start, end) of the code, in units.
ByteRange == [start : 0..Size, end : 1..Size + 1]

ASSUME SizeAssumption    == Size \in Nat \ {0}
ASSUME OptionsAssumption == Options \subseteq BeginOptions
ASSUME SentAssumption    == Sent \subseteq Chunk /\ {Breaks, ReapsEarly} \subseteq BOOLEAN
ASSUME StagingCallsAssumption == Calls \subseteq {"write", "complete", "abort", "reap"}
ASSUME StagingNoneAssumption  == None \notin Caller /\ None \notin Seq(ByteRange)
ASSUME StagingBoundAssumption == {MaxRestarts, MaxLoads} \subseteq Nat

VARIABLES
    opts,      \* the options of Begin
    begin,     \* what Begin does next; "done" when it has returned, "lost" when it never will
    data,      \* the contents of the data file; unit Size + 1 is what is too much
    linked,    \* the data file has a name
    meta,      \* Ranges in the metadata file, None if there is no such file
    states,    \* the sessionStates of this process
    current,   \* the one in Manager.sessions, 0 if none
    call,      \* the call each goroutine is in
    acked,     \* the units of the chunks that WriteChunk accepted
    fatal,     \* an unlocked mutex was unlocked: the Go runtime ended the process
    restarts   \* how often the process was stopped

vars == <<opts, begin, data, linked, meta, states, current, call, acked, fatal, restarts>>

-----------------------------------------------------------------------------
(* RangeSet                                                                *)

\* The next range is merged with the last one if they overlap or meet.
Merge(merged, r) ==
    IF r.start <= S!Last(merged).end
    THEN IF r.end > S!Last(merged).end THEN [merged EXCEPT ![Len(merged)].end = r.end] ELSE merged
    ELSE Append(merged, r)

\* What the loop has made of the first ranges of rs, for each number of them.
MergedUpTo(rs) ==
    LET upTo[i \in DOMAIN rs] == IF i = 1 THEN <<rs[1]>> ELSE Merge(upTo[i - 1], rs[i])
    IN  upTo

\* The list is sorted already (StagingTypeOK): the new range goes where its start belongs.
Sorted(rs, r) ==
    CHOOSE s \in {S!InsertAt(rs, i, r) : i \in 1..Len(rs) + 1} :
        \A i, j \in DOMAIN s : i < j => s[i].start <= s[j].start

\* Faulty variant of Add: only ranges that overlap are merged.
AddUnmerged(rs, start, end) == Append(rs, [start |-> start, end |-> end])

\* The new range is sorted in; then ranges that overlap or meet are merged.
Add(rs, start, end) ==
    LET all == Sorted(rs, [start |-> start, end |-> end]) IN MergedUpTo(all)[Len(all)]

Contains(rs, start, end) == \E i \in DOMAIN rs : rs[i].start <= start /\ end <= rs[i].end

IsComplete(rs, size) ==
    IF size = 0 THEN rs = << >> ELSE rs = << [start |-> 0, end |-> size] >>

\* The units a RangeSet covers.
Covered(rs) == UNION {rs[i].start + 1 .. rs[i].end : i \in DOMAIN rs}

-----------------------------------------------------------------------------
(* State                                                                   *)

\* A sessionState: meta.Ranges, bitmap, verified, whether dataFile is open and
\* who holds mu.
State == [ranges : Seq(ByteRange), received : SUBSET Unit, verified : SUBSET Unit,
          handle : BOOLEAN, mu : Caller \cup {None}]

NewState(ranges) ==
    [ranges |-> ranges, received |-> {}, verified |-> {}, handle |-> FALSE, mu |-> None]

NoChunk == [lo |-> 1, hi |-> 1, bad |-> {}]
Idle    == [pc |-> "idle", op |-> None, st |-> 0, chunk |-> NoChunk, seen |-> << >>, file |-> FALSE]

RangesMode == opts.mode = "ranges"

StagingTypeOK ==
    /\ opts \in Options
    /\ begin \in {"create", "save", "store", "done", "lost"}
    /\ data \in [1..Size + 1 -> {"hole", "good", "bad"}]
    /\ meta = None \/ meta \in Seq(ByteRange)
    /\ \A g \in DOMAIN states : states[g] \in State
    /\ current \in DOMAIN states \cup {0}
    /\ \A t \in Caller : call[t].st \in DOMAIN states \cup {0} /\ call[t].chunk \in Chunk
    /\ acked \subseteq 1..Size + 1
    /\ \A g \in DOMAIN states : \A i, j \in DOMAIN states[g].ranges :
          i < j => states[g].ranges[i].end < states[g].ranges[j].start

\* Begin has looked at its options.
StagingInit ==
    /\ opts \in Options
    /\ begin = "create"
    /\ data = [u \in 1..Size + 1 |-> "hole"]
    /\ linked = FALSE
    /\ meta = None
    /\ states = << >>
    /\ current = 0
    /\ call = [t \in Caller |-> Idle]
    /\ acked = {}
    /\ fatal = FALSE /\ restarts = 0

\* The size of the data file: what was preallocated, or more.
FileSize ==
    LET written == {u \in DOMAIN data : data[u] # "hole"}
    IN  Max(written \cup {IF opts.sized THEN Size ELSE 0})

Goto(t, pc) == call' = [call EXCEPT ![t].pc = pc]
Return(t)   == call' = [call EXCEPT ![t] = Idle]
My(t)       == states[call[t].st]

\* The state objects are as they were but for the one t works on.
MyBecomes(t, s) == states' = [states EXCEPT ![call[t].st] = s]

OnlyCalls == UNCHANGED <<opts, begin, data, linked, meta, states, current, acked, fatal, restarts>>

-----------------------------------------------------------------------------
(* Begin                                                                   *)

\* The data file is made, and preallocated if the size is known.
BeginCreatesData ==
    /\ begin = "create"
    /\ linked' = TRUE
    /\ begin' = "save"
    /\ UNCHANGED <<opts, data, meta, states, current, call, acked, fatal, restarts>>

\* saveMeta: from here on a reaper can see the session. If it fails the data
\* file is removed.
BeginSavesMeta ==
    /\ begin = "save"
    /\ \/ meta' = << >> /\ begin' = "store" /\ UNCHANGED linked
       \/ linked' = FALSE /\ begin' = "lost" /\ UNCHANGED meta
    /\ UNCHANGED <<opts, data, states, current, call, acked, fatal, restarts>>

\* sessions.Store: an object that a reaper has put there is replaced.
BeginStores ==
    /\ begin = "store"
    /\ states' = Append(states, NewState(<< >>))
    /\ current' = Len(states')
    /\ begin' = "done"
    /\ UNCHANGED <<opts, data, linked, meta, call, acked, fatal, restarts>>

Begin == BeginCreatesData \/ BeginSavesMeta \/ BeginStores

-----------------------------------------------------------------------------
(* getOrLoadSession                                                        *)

\* Only Begin tells the session's id; Reap finds it in the directory.
Known(op) == begin = "done" \/ (op = "reap" /\ (ReapsEarly \/ begin = "lost"))

\* What a call does once it has its state object.
First(op) ==
    CASE op = "write"           -> IF RangesMode THEN "lock" ELSE "open"
      [] op = "complete"        -> IF RangesMode THEN "lock" ELSE "check"
      [] op \in {"abort", "reap"} -> "lock"

\* The object in Manager.sessions, or else the metadata file is read; without
\* either the call fails. The listing that Reap goes through may be an old one.
Enter(t, op, c) ==
    /\ call[t].pc = "idle"
    /\ op \in Calls /\ Known(op)
    /\ current = 0 => meta # None
    /\ current = 0 => Len(states) < MaxLoads
    /\ call' = [call EXCEPT ![t] =
                 [Idle EXCEPT !.op = op, !.chunk = c, !.st = current,
                              !.pc = IF current = 0 THEN "load" ELSE First(op),
                              !.seen = IF current = 0 THEN meta ELSE << >>]]
    /\ OnlyCalls

\* LoadOrStore: whoever comes first, its object is everybody's.
LoadOrStore(t) ==
    LET mine == Len(states) + 1
        st   == IF current # 0 THEN current ELSE mine
    IN  /\ call[t].pc = "load"
        /\ states' = IF current # 0 THEN states ELSE Append(states, NewState(call[t].seen))
        /\ current' = st
        /\ call' = [call EXCEPT ![t].pc = First(call[t].op), ![t].st = st, ![t].seen = << >>]
        /\ UNCHANGED <<opts, begin, data, linked, meta, acked, fatal, restarts>>

-----------------------------------------------------------------------------
(* WriteChunk                                                              *)

\* The file after units lo to last of chunk c were written to it.
WrittenTo(c, last) ==
    [u \in DOMAIN data |->
        IF u \in c.lo..last THEN IF u \in c.bad \/ u > Size THEN "bad" ELSE "good"
        ELSE data[u]]

\* Where the stream from the sender may break off.
CutAt(c) == IF Breaks THEN c.lo - 1 .. c.hi ELSE {}

CanOpen(t) == My(t).handle \/ linked

\* validBlockChunk, and the bound of ranges mode when the size is known.
Fits(c) == opts.sized => c.hi <= Size

\* What saveMeta writes: a temporary file is renamed over the metadata file, so
\* that there is always a whole one.
SavedMeta(t) == My(t).ranges

\* Faulty variant of Accept: a new range is not written to the metadata file.
AcceptUnsaved(t, c) ==
    /\ MyBecomes(t, [My(t) EXCEPT !.handle = TRUE, !.ranges = Add(@, c.lo - 1, c.hi)])
    /\ UNCHANGED meta

\* The chunk is received: its range is added and the metadata file written.
Accept(t, c) ==
    LET ranges == Add(My(t).ranges, c.lo - 1, c.hi)
    IN  /\ MyBecomes(t, [My(t) EXCEPT !.handle = TRUE, !.ranges = ranges])
        /\ meta' = ranges

\* writeChunkRangeSet, all of it with mu held: the chunk is written first and
\* looked at afterwards.
WriteChunkRangeSet(t) ==
    LET c     == call[t].chunk
        known == Contains(My(t).ranges, c.lo - 1, c.hi)
        sound == opts.checked => c.bad = {}
        opened == MyBecomes(t, [My(t) EXCEPT !.handle = TRUE])
    IN  /\ call[t].pc = "lock" /\ call[t].op = "write"
        /\ My(t).mu = None
        /\ Return(t)
        /\ \/ /\ ~CanOpen(t)
              /\ UNCHANGED <<data, meta, states, acked>>
           \/ /\ CanOpen(t)
              /\ \E last \in CutAt(c) : data' = WrittenTo(c, last)
              /\ opened
              /\ UNCHANGED <<meta, acked>>
           \/ /\ CanOpen(t)
              /\ data' = WrittenTo(c, c.hi)
              /\ IF ~Fits(c) \/ (~known /\ ~sound)
                 THEN opened /\ UNCHANGED <<meta, acked>>
                 ELSE /\ IF known THEN opened /\ (UNCHANGED meta \/ meta' = SavedMeta(t))
                         ELSE Accept(t, c)
                      /\ acked' = acked \cup c.lo..c.hi
        /\ UNCHANGED <<opts, begin, linked, current, fatal, restarts>>

\* sessionDataFile, in the block modes.
OpenFile(t) ==
    /\ call[t].pc = "open"
    /\ IF CanOpen(t)
       THEN /\ call' = [call EXCEPT ![t].pc = "write", ![t].file = TRUE]
            /\ MyBecomes(t, [My(t) EXCEPT !.handle = TRUE])
       ELSE Return(t) /\ UNCHANGED states
    /\ UNCHANGED <<opts, begin, data, linked, meta, current, acked, fatal, restarts>>

\* Without a checksum or piece hashes the stream goes straight to the file.
Streams == ~opts.checked /\ opts.mode = "blocks"

\* Faulty variant of WriteBlocks: a chunk is written before it is looked at.
WriteBlocksFirst(t) ==
    LET c == call[t].chunk
    IN  /\ call[t].pc = "write"
        /\ data' = IF call[t].file THEN WrittenTo(c, c.hi) ELSE data
        /\ IF call[t].file /\ Fits(c) /\ c.bad = {} THEN Goto(t, "mark") ELSE Return(t)
        /\ UNCHANGED <<opts, begin, linked, meta, states, current, acked, fatal, restarts>>

\* WriteAt: through the handle as it was opened, which a clean-up may have
\* closed since. Otherwise the whole chunk is read and checked before.
WriteBlocks(t) ==
    LET c == call[t].chunk
        sound == Fits(c) /\ (opts.checked => c.bad = {})
    IN  /\ call[t].pc = "write"
        /\ \/ /\ Streams /\ call[t].file
              /\ \E last \in CutAt(c) : data' = WrittenTo(c, last)
              /\ Return(t)
           \/ /\ call[t].file /\ (Streams \/ sound)
              /\ data' = WrittenTo(c, c.hi)
              /\ IF Fits(c) THEN Goto(t, "mark") ELSE Return(t)
           \/ /\ ~call[t].file \/ (~Streams /\ (~sound \/ Breaks))
              /\ Return(t)
              /\ UNCHANGED data
        /\ UNCHANGED <<opts, begin, linked, meta, states, current, acked, fatal, restarts>>

\* blockBitmap: the set of the bits that are set.
Mark(bits, c)   == bits \cup c.lo..c.hi
AllMarked(bits) == bits = Unit

\* Every block of the chunk is marked in the bitmap.
MarkReceived(t) ==
    LET c == call[t].chunk
    IN  /\ call[t].pc = "mark"
        /\ MyBecomes(t, [My(t) EXCEPT !.received = Mark(@, c)])
        /\ Goto(t, IF opts.mode = "pieces" THEN "verify" ELSE "flush")
        /\ UNCHANGED <<opts, begin, data, linked, meta, current, acked, fatal, restarts>>

\* Each block in turn, in the buffer and not in the file; blocks that were
\* verified already are skipped, the first that does not match ends the call.
VerifyPieces(t) ==
    LET c     == call[t].chunk
        wrong == c.bad \ My(t).verified
        good  == IF wrong = {} THEN c.lo..c.hi ELSE c.lo .. Min(wrong) - 1
    IN  /\ call[t].pc = "verify"
        /\ MyBecomes(t, [My(t) EXCEPT !.verified = @ \cup good])
        /\ IF wrong = {} THEN Goto(t, "flush") ELSE Return(t)
        /\ UNCHANGED <<opts, begin, data, linked, meta, current, acked, fatal, restarts>>

\* maybeFlushMeta: the metadata file, which has no ranges in the block modes,
\* is written if five seconds have passed since the last time.
FlushMeta(t) ==
    LET c == call[t].chunk
    IN  /\ call[t].pc = "flush"
        /\ My(t).mu = None
        /\ UNCHANGED meta \/ meta' = SavedMeta(t)
        /\ acked' = acked \cup c.lo..c.hi
        /\ Return(t)
        /\ UNCHANGED <<opts, begin, data, linked, states, current, fatal, restarts>>

-----------------------------------------------------------------------------
(* Complete, and the CompletedUpload it returns                            *)

\* Faulty variant of Lock: Abort does not wait for a Complete.
LockOrAbort(t) ==
    /\ call[t].pc = "lock" /\ call[t].op # "write"
    /\ My(t).mu = None \/ call[t].op = "abort"
    /\ MyBecomes(t, [My(t) EXCEPT !.mu = t])
    /\ Goto(t, IF call[t].op = "complete" THEN "check" ELSE "closing")
    /\ UNCHANGED <<opts, begin, data, linked, meta, current, acked, fatal, restarts>>

\* Complete in ranges mode, Abort and Reap take the session's mutex. Reap lets
\* go of it at once if the session is not old enough.
Lock(t) ==
    /\ call[t].pc = "lock" /\ call[t].op # "write"
    /\ My(t).mu = None
    /\ \/ /\ MyBecomes(t, [My(t) EXCEPT !.mu = t])
          /\ Goto(t, IF call[t].op = "complete" THEN "check" ELSE "closing")
       \/ /\ call[t].op = "reap"
          /\ Return(t)
          /\ UNCHANGED states
    /\ UNCHANGED <<opts, begin, data, linked, meta, current, acked, fatal, restarts>>

\* All units of the file are what the sender has.
Intact == FileSize = Size /\ \A u \in Unit : data[u] = "good"

\* The tests of Complete, on the size, the bookkeeping and the whole-file
\* checksum. The last is left out in the block modes.
Ready(s) ==
    /\ opts.sized => FileSize = Size
    /\ CASE opts.mode = "ranges" ->
              /\ IsComplete(s.ranges, IF opts.sized THEN Size ELSE FileSize)
              /\ opts.whole => Intact
         [] opts.mode = "blocks" -> AllMarked(s.received)
         [] opts.mode = "pieces" -> AllMarked(s.received) /\ AllMarked(s.verified)

\* What is left when the process has stopped.
Stopped ==
    /\ states' = << >> /\ current' = 0
    /\ call' = [t \in Caller |-> Idle]

\* The call ends with sync.Mutex.Unlock, which stops the program if nobody has
\* the mutex. Who it is that has the mutex does not matter.
UnlockAndReturn(t, sessions) ==
    IF My(t).mu = None
    THEN fatal' = TRUE /\ Stopped
    ELSE /\ MyBecomes(t, [My(t) EXCEPT !.mu = None])
         /\ current' = sessions
         /\ Return(t)
         /\ UNCHANGED fatal

\* The call ends; Complete took no mutex in the block modes.
Leave(t, sessions) ==
    IF call[t].op = "complete" /\ ~RangesMode
    THEN current' = sessions /\ Return(t) /\ UNCHANGED <<states, fatal>>
    ELSE UnlockAndReturn(t, sessions)

\* Faulty variant of Check: an upload that is not complete stays locked.
CheckHolding(t) ==
    /\ call[t].pc = "check"
    /\ IF linked /\ Ready(My(t)) THEN Goto(t, "save") ELSE Return(t)
    /\ UNCHANGED <<opts, begin, data, linked, meta, states, current, acked, fatal, restarts>>

\* The file is gone: the mutex is let go, and by the deferred call once more.
\* Otherwise the tests decide.
Check(t) ==
    /\ call[t].pc = "check"
    /\ \/ /\ ~linked /\ RangesMode
          /\ MyBecomes(t, [My(t) EXCEPT !.mu = None])
          /\ Goto(t, "unlock again")
          /\ UNCHANGED <<current, fatal>>
       \/ /\ linked /\ Ready(My(t))
          /\ Goto(t, "save")
          /\ UNCHANGED <<states, current, fatal>>
       \/ /\ IF linked THEN ~Ready(My(t)) ELSE ~RangesMode
          /\ Leave(t, current)
    /\ UNCHANGED <<opts, begin, data, linked, meta, acked, restarts>>

\* Somebody may have taken the mutex in between; it is then taken from him.
UnlockAgain(t) ==
    /\ call[t].pc = "unlock again"
    /\ UnlockAndReturn(t, current)
    /\ UNCHANGED <<opts, begin, data, linked, meta, acked, restarts>>

\* Faulty variant of SaveMeta: the deferred call unlocks the mutex here too.
SaveMetaUnlocks(t) ==
    /\ call[t].pc = "save"
    /\ meta' = SavedMeta(t)
    /\ MyBecomes(t, [My(t) EXCEPT !.mu = None])
    /\ Goto(t, "commit")
    /\ UNCHANGED <<opts, begin, data, linked, current, acked, fatal, restarts>>

\* The metadata file is written, the CompletedUpload returned with the mutex.
SaveMeta(t) ==
    /\ call[t].pc = "save"
    /\ meta' = SavedMeta(t)
    /\ Goto(t, "commit")
    /\ UNCHANGED <<opts, begin, data, linked, states, current, acked, fatal, restarts>>

\* The caller has read the upload. If it put it into the store it calls
\* Finalize, and Close cleans up; if not, the session stays.
CloseUpload(t) ==
    /\ call[t].pc = "commit"
    /\ \/ Goto(t, "closing") /\ UNCHANGED <<states, current, fatal>>
       \/ Leave(t, current)
    /\ UNCHANGED <<opts, begin, data, linked, meta, acked, restarts>>

-----------------------------------------------------------------------------
(* cleanup and cleanupLocked                                               *)

\* The cached handle is closed: that of the object in Manager.sessions, or of
\* the object Reap has. Writers that use it will fail.
CloseHandle(t) ==
    LET g == IF call[t].op = "reap" THEN call[t].st ELSE current
    IN  /\ call[t].pc = "closing"
        /\ states' = IF g = 0 THEN states ELSE [states EXCEPT ![g].handle = FALSE]
        /\ call' = [u \in Caller |->
                      IF u = t THEN [call[t] EXCEPT !.pc = "unlinking"]
                      ELSE IF call[u].st = g THEN [call[u] EXCEPT !.file = FALSE] ELSE call[u]]
        /\ UNCHANGED <<opts, begin, data, linked, meta, current, acked, fatal, restarts>>

\* Faulty variant of RemoveData: the metadata file is removed first.
RemoveMetaFirst(t) ==
    /\ call[t].pc = "unlinking"
    /\ meta' = None
    /\ Goto(t, "forgetting")
    /\ UNCHANGED <<opts, begin, data, linked, states, current, acked, fatal, restarts>>

RemoveData(t) ==
    /\ call[t].pc = "unlinking"
    /\ linked' = FALSE
    /\ Goto(t, "forgetting")
    /\ UNCHANGED <<opts, begin, data, meta, states, current, acked, fatal, restarts>>

\* The metadata file and the entry in Manager.sessions go, and the call ends.
Forget(t) ==
    /\ call[t].pc = "forgetting"
    /\ meta' = None
    /\ Leave(t, 0)
    /\ UNCHANGED <<opts, begin, data, linked, acked, restarts>>

\* The process stops and another one is started.
Restart ==
    /\ restarts < MaxRestarts
    /\ restarts' = restarts + 1
    /\ Stopped
    /\ begin' = IF begin = "done" THEN "done" ELSE "lost"
    /\ UNCHANGED <<opts, data, linked, meta, acked, fatal>>

-----------------------------------------------------------------------------
\* What a goroutine carries on with; a caller closes the upload it was given.
Progress(t) ==
    \/ LoadOrStore(t)
    \/ OpenFile(t) \/ WriteBlocks(t) \/ MarkReceived(t) \/ VerifyPieces(t)
    \/ Check(t) \/ UnlockAgain(t) \/ SaveMeta(t) \/ CloseUpload(t)
    \/ CloseHandle(t) \/ RemoveData(t) \/ Forget(t)

\* What it waits for the session's mutex to do.
Locked(t) == WriteChunkRangeSet(t) \/ FlushMeta(t) \/ Lock(t)

StagingNext ==
    \/ Begin
    \/ \E t \in Caller : \E c \in Sent : Enter(t, "write", c)
    \/ \E t \in Caller, op \in {"complete", "abort", "reap"} : Enter(t, op, NoChunk)
    \/ \E t \in Caller : Progress(t) \/ Locked(t)
    \/ Restart

\* Goroutines are scheduled, callers close their uploads, and a sync.Mutex is
\* handed over in order to those that wait long.
StagingFairness == \A t \in Caller : WF_vars(Progress(t)) /\ SF_vars(Locked(t))

StagingSpec == StagingInit /\ [][StagingNext]_vars /\ StagingFairness

-----------------------------------------------------------------------------
(* Properties                                                              *)

\* Something vouches for the contents: the checksum of the whole file in ranges
\* mode, those of the chunks or the hashes of the blocks in the block modes.
Vouched ==
    \/ RangesMode /\ opts.whole
    \/ opts.mode = "blocks" /\ opts.checked
    \/ opts.mode = "pieces"

\* An upload that Complete hands out has no holes, and is the sender's file if
\* something vouches for it, from then until the caller closes it, whatever
\* arrives again, damaged or cut off, in the meantime.
DeliveredIntact ==
    \A t \in Caller : call[t].pc = "commit" =>
        /\ \A u \in 1..FileSize : data[u] # "hole"
        /\ Vouched => Intact

\* The units Ranges reports, from the state object or from the metadata file.
Reported ==
    IF current # 0 THEN Covered(states[current].ranges) \cup states[current].received
    ELSE IF meta # None THEN Covered(meta) ELSE {}

\* What WriteChunk accepted is reported as received as long as the session has
\* its data, by whichever state object stands for it; in ranges mode also by
\* the processes that come after.
AcknowledgedStaysReceived ==
    linked /\ (restarts = 0 \/ RangesMode) => acked \subseteq Reported

\* Nothing is left that no reaper would find: once Begin has returned, the data
\* file has a metadata file beside it as long as it is there, whenever a
\* clean-up is interrupted and whoever comes late.
DataIsReapable == begin = "done" /\ linked => meta # None

\* In ranges mode a session that was completed, aborted or reaped does not come
\* back: nobody who still works on it writes its metadata file again.
RemovedStaysRemoved ==
    [][~linked /\ meta = None /\ RangesMode => meta' = None]_vars

\* In ranges mode nobody writes to the file while a caller reads an upload.
CommitReadsStable ==
    [][\A t \in Caller : call[t].pc = "commit" /\ RangesMode => data' = data]_vars

\* Every call returns: none waits forever for a mutex that a call which failed,
\* or a session that was removed, took with it.
CallsReturn ==
    \A t \in Caller : call[t].pc # "idle" ~> call[t].pc = "idle"
=============================================================================
