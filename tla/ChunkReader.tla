---------------------------- MODULE ChunkReader ----------------------------
(***************************************************************************)
(* The reader that Get and GetSeekable return (chunkReader, store.go): a   *)
(* position in a blob kept as a chunk index, bytes to skip, the chunk that *)
(* is buffered and a place in it.  It holds the guards of store and        *)
(* namespace until it is closed.  It implements ByteStream.                *)
(*                                                                         *)
(* A byte is identified by its position in the blob, and a slice by the    *)
(* positions it runs from and to.  The lengths of the chunks are given by  *)
(* their boundaries: chunk i, counted from 0, has the bytes from Bound[i]  *)
(* up to Bound[i + 1].  No chunk is empty: the chunker makes none and      *)
(* WriteBlob refuses an empty blob.  Callers use a reader from one         *)
(* goroutine and do not Seek in one they have closed (Seek would set the   *)
(* index back, and the next Read would load a chunk without a guard); they *)
(* may Read from it and Close it again.                                    *)
(***************************************************************************)
EXTENDS Integers

CONSTANTS
    N,          \* number of chunks
    Bound,      \* their boundaries
    ReadSizes,  \* lengths of the slices callers pass to Read
    Offsets,    \* offsets they pass to Seek
    Farthest,   \* bound on positions they seek to
    None

ASSUME ChunksAssumption ==
    /\ N \in Nat \ {0}
    /\ Bound \in [0..N -> Nat]
    /\ Bound[0] = 0
    /\ \A i, j \in 0..N : i < j => Bound[i] < Bound[j]

ASSUME CallerAssumption ==
    /\ ReadSizes \subseteq Nat
    /\ Offsets \subseteq Int /\ Farthest \in Nat
    /\ None \notin Nat

VARIABLES
    idx,          \* next chunk to load
    pendingSkip,  \* bytes to drop from it
    buf,          \* the slice of the blob that is buffered
    pos,          \* read position in buf
    absPos,       \* position in the blob, for Seek
    releases,     \* times the guards were given back
    wanted,       \* len(p) of the Read under way, or None
    answer        \* what the last call returned

vars == <<idx, pendingSkip, buf, pos, absPos, releases, wanted, answer>>

totalSize == Bound[N]
Slice(from, to) == [from |-> from, to |-> to]
Empty == Slice(0, 0)
Length(slice) == slice.to - slice.from
Bytes(from, to) == [kind |-> "bytes", from |-> from, to |-> to]
At(p) == [kind |-> "position", from |-> p, to |-> p]
Says(kind) == [kind |-> kind, from |-> 0, to |-> 0]
Least(x, y) == IF x < y THEN x ELSE y

ReaderInit ==
    /\ idx = 0 /\ pendingSkip = 0
    /\ buf = Empty /\ pos = 0 /\ absPos = 0
    /\ releases = 0
    /\ wanted = None
    /\ answer = At(0)

-----------------------------------------------------------------------------
(* Read, with one step for each turn of its loop                           *)

BeginRead(n) ==
    /\ wanted = None
    /\ wanted' = n
    /\ UNCHANGED <<idx, pendingSkip, buf, pos, absPos, releases, answer>>

\* As many bytes as there are in the buffer and room for in p.
Serve ==
    /\ wanted # None /\ pos < Length(buf)
    /\ LET n == Least(wanted, Length(buf) - pos)
       IN /\ answer' = Bytes(buf.from + pos, buf.from + pos + n)
          /\ pos' = pos + n
          /\ absPos' = absPos + n
    /\ wanted' = None
    /\ UNCHANGED <<idx, pendingSkip, buf, releases>>

ReadEnds ==
    /\ wanted # None /\ pos >= Length(buf)
    /\ idx >= N
    /\ answer' = Says("EOF")
    /\ wanted' = None
    /\ UNCHANGED <<idx, pendingSkip, buf, pos, absPos, releases>>

\* Faulty variant of LoadFails: what is to be skipped is forgotten before it is known that
\* the chunk could be read.
LoadFailsForgetful ==
    /\ wanted # None /\ pos >= Length(buf) /\ idx < N
    /\ pendingSkip' = 0
    /\ answer' = Says("error")
    /\ wanted' = None
    /\ UNCHANGED <<idx, buf, pos, absPos, releases>>

\* ReadChunk returns an error: nothing has moved yet, and wanted is forgotten.
LoadFails ==
    /\ wanted # None /\ pos >= Length(buf) /\ idx < N
    /\ answer' = Says("error")
    /\ wanted' = None
    /\ UNCHANGED <<idx, pendingSkip, buf, pos, absPos, releases>>

\* A chunk is read and buffered without what a Seek left to skip.
LoadChunk ==
    /\ wanted # None /\ pos >= Length(buf) /\ idx < N
    /\ idx' = idx + 1
    /\ LET skip == Least(pendingSkip, Bound[idx + 1] - Bound[idx])
       IN /\ buf' = Slice(Bound[idx] + skip, Bound[idx + 1])
          /\ pendingSkip' = pendingSkip - skip
    /\ pos' = 0
    /\ UNCHANGED <<absPos, releases, wanted, answer>>

-----------------------------------------------------------------------------
(* Seek and Close                                                          *)

\* Faulty variant of ResolveChunkOffset: the first byte of the next chunk is taken for one
\* of this chunk.
ResolveOffByOne(offset) ==
    IF offset > totalSize THEN [chunk |-> N, intra |-> 0]
    ELSE LET i == CHOOSE j \in 0..(N - 1) :
                        /\ offset <= Bound[j + 1]
                        /\ \A h \in 0..(j - 1) : offset > Bound[h + 1]
         IN [chunk |-> i, intra |-> offset - Bound[i]]

\* resolveChunkOffset: the first chunk that ends behind the offset, and the place in it;
\* no chunk at all at the end of the blob and beyond.
ResolveChunkOffset(offset) ==
    IF offset >= totalSize THEN [chunk |-> N, intra |-> 0]
    ELSE LET i == CHOOSE j \in 0..(N - 1) :
                        /\ offset < Bound[j + 1]
                        /\ \A h \in 0..(j - 1) : offset >= Bound[h + 1]
         IN [chunk |-> i, intra |-> offset - Bound[i]]

Target(offset, whence) ==
    offset + (CASE whence = "start"   -> 0
                [] whence = "current" -> absPos
                [] whence = "end"     -> totalSize)

Seek(offset, whence) ==
    /\ wanted = None /\ releases = 0
    /\ Target(offset, whence) <= Farthest
    /\ LET target == Target(offset, whence)
           found  == ResolveChunkOffset(target)
       IN IF target < 0
          THEN answer' = Says("error") /\ UNCHANGED <<idx, pendingSkip, buf, pos, absPos>>
          ELSE /\ idx' = found.chunk
               /\ pendingSkip' = found.intra
               /\ buf' = Empty /\ pos' = 0
               /\ absPos' = target
               /\ answer' = At(target)
    /\ UNCHANGED <<releases, wanted>>

\* Faulty variant of Close: the index stays where it is.
CloseKeepsPlace ==
    /\ wanted = None
    /\ buf' = Empty
    /\ releases' = IF releases = 0 THEN 1 ELSE releases
    /\ answer' = Says("closed")
    /\ UNCHANGED <<idx, pendingSkip, pos, absPos, wanted>>

\* Faulty variant of Close: the guards are given back each time.
CloseAgain ==
    /\ wanted = None
    /\ buf' = Empty /\ idx' = N /\ pendingSkip' = 0
    /\ releases' = releases + 1
    /\ answer' = Says("closed")
    /\ UNCHANGED <<pos, absPos, wanted>>

\* The buffer goes, the index moves to the end, the guards are given back the first time.
Close ==
    /\ wanted = None
    /\ buf' = Empty /\ idx' = N /\ pendingSkip' = 0
    /\ releases' = IF releases = 0 THEN 1 ELSE releases
    /\ answer' = Says("closed")
    /\ UNCHANGED <<pos, absPos, wanted>>

ReaderNext ==
    \/ \E n \in ReadSizes : BeginRead(n)
    \/ Serve \/ ReadEnds \/ LoadFails \/ LoadChunk
    \/ \E offset \in Offsets, whence \in {"start", "current", "end"} : Seek(offset, whence)
    \/ Close

ReaderSpec == ReaderInit /\ [][ReaderNext]_vars

-----------------------------------------------------------------------------
(* Properties                                                              *)

Answer == [kind : {"bytes", "position", "EOF", "error", "closed"}, from : Nat, to : Nat]

\* The types of the reader's state; the guards are given back at most once (an
\* RWMutex that is unlocked twice stops the process).
ReaderTypeOK ==
    /\ idx \in 0..N
    /\ pendingSkip \in Nat
    /\ buf \in [from : Nat, to : Nat]
    /\ pos \in Nat /\ absPos \in Nat
    /\ releases \in 0..1
    /\ wanted \in ReadSizes \cup {None}
    /\ answer \in Answer

\* The two records of the position agree: what is buffered and unread begins at absPos
\* and ends where the next chunk begins; with nothing to serve, the next chunk and the bytes
\* to skip in it lead to absPos, or absPos is at or beyond the end.  (Seek works with absPos,
\* Read with the others.)
PositionsAgree ==
    releases = 0 =>
      /\ pos < Length(buf) =>
            buf.from + pos = absPos /\ buf.to = Bound[idx] /\ pendingSkip = 0
      /\ pos >= Length(buf) /\ idx < N =>
            Bound[idx] + pendingSkip = absPos /\ absPos < Bound[idx + 1]
      /\ pos >= Length(buf) /\ idx = N => absPos >= totalSize

\* The engine is asked for a chunk only while the guards are held that keep it open and
\* its segments in place: not by a Read after Close either.
LoadsUnderGuard ==
    [][idx' = idx + 1 /\ wanted # None => releases = 0]_vars

\* The reader is a byte stream: it returns the blob's bytes in order from where the
\* caller is, ends where they end, and an error moves nothing.
Stream == INSTANCE ByteStream WITH
    Total <- totalSize, position <- absPos, closed <- (releases > 0)
ImplementsStream == Stream!StreamSpec
=============================================================================
