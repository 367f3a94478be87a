------------------------- MODULE ChunkReaderProofs -------------------------
(***************************************************************************)
(* Machine-checked proofs about ChunkReader, for any number of chunks of   *)
(* any lengths, any reads and any seeks: its records of the position       *)
(* agree, and it implements a byte stream.                                 *)
(***************************************************************************)
EXTENDS ChunkReader, WellFoundedInduction, NaturalsInduction, TLAPS

\* A boundary is a natural number, and none is beyond the end.
LEMMA Boundaries ==
    /\ N \in Nat /\ N > 0 /\ totalSize \in Nat /\ Bound[0] = 0
    /\ \A i \in 0..N : Bound[i] \in Nat /\ Bound[i] <= totalSize
    /\ \A i \in 0..N : i < N => i + 1 \in 0..N /\ Bound[i] < Bound[i + 1]
<1>1. \A i \in 0..N : i < N => i + 1 \in 0..N /\ Bound[i] < Bound[i + 1]
    BY ChunksAssumption
<1>2. ASSUME NEW i \in 0..N PROVE Bound[i] \in Nat /\ Bound[i] <= Bound[N]
    <2>1. CASE i = N
        BY <2>1, ChunksAssumption
    <2>2. CASE i < N
        BY <2>2, ChunksAssumption
    <2> QED
        BY <2>1, <2>2, ChunksAssumption
<1> QED
    BY <1>1, <1>2, ChunksAssumption DEF totalSize

\* resolveChunkOffset finds the chunk that an offset before the end falls in.
LEMMA ResolveFinds ==
    ASSUME NEW offset \in Nat, offset < totalSize
    PROVE  LET found == ResolveChunkOffset(offset)
           IN /\ found.chunk \in 0..(N - 1)
              /\ found.intra \in Nat
              /\ Bound[found.chunk] + found.intra = offset
              /\ offset < Bound[found.chunk + 1]
<1> DEFINE Behind == {j \in 0..(N - 1) : offset < Bound[j + 1]}
           First(j) == /\ offset < Bound[j + 1]
                       /\ \A h \in 0..(j - 1) : offset >= Bound[h + 1]
           i == CHOOSE j \in 0..(N - 1) : First(j)
<1>0. N \in Nat /\ N > 0
    BY Boundaries
<1>1. N - 1 \in Behind
    <2>1. N - 1 \in 0..(N - 1) /\ (N - 1) + 1 = N
        BY <1>0
    <2> QED
        BY <2>1 DEF totalSize
<1>2. \A j \in Behind : j \in Nat /\ j \in 0..(N - 1)
    BY <1>0
<1>3. PICK least \in Behind : \A j \in Behind : <<j, least>> \notin OpToRel(<, Nat)
    <2>1. Behind \in SUBSET Nat /\ Behind # {}
        <3> HIDE DEF Behind
        <3> QED
            BY <1>1, <1>2
    <2> HIDE DEF Behind
    <2> QED
        BY <2>1, NatLessThanWellFounded, WFMin
<1>4. \A j \in Behind : ~(j < least)
    <2> SUFFICES ASSUME NEW j \in Behind, j < least PROVE FALSE
        OBVIOUS
    <2> HIDE DEF Behind
    <2>1. <<j, least>> \in OpToRel(<, Nat)
        BY <1>2 DEF OpToRel
    <2> QED
        BY <2>1, <1>3
<1>5. ASSUME NEW h \in 0..(least - 1) PROVE offset >= Bound[h + 1]
    <2>1. least \in 0..(N - 1)
        BY <1>2
    <2>2. h \in 0..(N - 1) /\ h < least /\ h + 1 \in 0..N
        BY <1>0, <2>1
    <2>3. ~(offset < Bound[h + 1])
        BY <1>4, <2>2
    <2>4. Bound[h + 1] \in Nat
        BY <2>2, Boundaries
    <2> QED
        BY <2>3, <2>4
<1>6. least \in 0..(N - 1) /\ First(least)
    BY <1>5
<1>7. i \in 0..(N - 1) /\ First(i)
    <2> HIDE DEF First
    <2> QED
        BY <1>6
<1>8. ResolveChunkOffset(offset) = [chunk |-> i, intra |-> offset - Bound[i]]
    <2>1. totalSize \in Nat
        BY Boundaries
    <2>2. ~(offset >= totalSize)
        BY <2>1
    <2> QED
        BY <2>2 DEF ResolveChunkOffset
<1> HIDE DEF i
<1>9. i \in 0..N /\ Bound[i] \in Nat
    <2>1. i \in 0..N
        BY <1>0, <1>7
    <2> QED
        BY <2>1, Boundaries
<1>10. Bound[i] <= offset
    <2>1. CASE i = 0
        <3>1. Bound[0] = 0
            BY Boundaries
        <3> QED
            BY <2>1, <3>1
    <2>2. CASE i > 0
        <3>1. i - 1 \in 0..(i - 1) /\ (i - 1) + 1 = i
            BY <1>9, <2>2
        <3> QED
            BY <3>1, <1>7
    <2> QED
        BY <2>1, <2>2, <1>9
<1> QED
    BY <1>7, <1>8, <1>9, <1>10

\* And no chunk for any other.
LEMMA ResolveBeyond ==
    ASSUME NEW offset \in Nat, offset >= totalSize
    PROVE  ResolveChunkOffset(offset) = [chunk |-> N, intra |-> 0]
    BY DEF ResolveChunkOffset

-----------------------------------------------------------------------------
(* The invariant                                                           *)

\* A reader that was closed has nothing to serve and nothing to load.
ClosedIsDone == releases > 0 => idx = N /\ pos >= Length(buf)

ReaderInv == ReaderTypeOK /\ PositionsAgree /\ ClosedIsDone

LEMMA InitInv == ReaderInit => ReaderInv
    BY Boundaries, CallerAssumption
    DEF ReaderInit, ReaderInv, ReaderTypeOK, PositionsAgree, ClosedIsDone, Empty, Slice,
        Length, At, Answer, totalSize

LEMMA SeekInv ==
    ASSUME ReaderInv, NEW offset \in Offsets, NEW whence \in {"start", "current", "end"},
           Seek(offset, whence)
    PROVE  ReaderInv'
<1> DEFINE target == Target(offset, whence)
<1>1. target \in Int
    BY Boundaries, CallerAssumption DEF Target, ReaderInv, ReaderTypeOK
<1>2. CASE target < 0
    BY <1>2, Boundaries DEF Seek, ReaderInv, ReaderTypeOK, PositionsAgree, ClosedIsDone, Says,
        Answer, Length
<1>3. CASE target >= 0 /\ target < totalSize
    <2>1. ~(target < 0) /\ target \in Nat
        BY <1>1, <1>3
    <2> HIDE DEF target
    <2>2. LET found == ResolveChunkOffset(target)
          IN /\ found.chunk \in 0..(N - 1)
             /\ found.intra \in Nat
             /\ Bound[found.chunk] + found.intra = target
             /\ target < Bound[found.chunk + 1]
        BY <2>1, <1>3, ResolveFinds
    <2>3. /\ idx' = ResolveChunkOffset(target).chunk
          /\ pendingSkip' = ResolveChunkOffset(target).intra
          /\ buf' = Empty /\ pos' = 0 /\ absPos' = target
          /\ answer' = At(target) /\ releases' = releases /\ wanted' = wanted
        BY <2>1 DEF Seek, target
    <2>4. ReaderTypeOK'
        BY <2>1, <2>2, <2>3, Boundaries
        DEF ReaderInv, ReaderTypeOK, Empty, Slice, At, Answer
    <2>5. PositionsAgree' /\ ClosedIsDone'
        BY <2>1, <2>2, <2>3, Boundaries
        DEF Seek, ReaderInv, ReaderTypeOK, PositionsAgree, ClosedIsDone, Empty, Slice, Length
    <2> QED
        BY <2>4, <2>5 DEF ReaderInv
<1>4. CASE target >= totalSize
    <2>1. ~(target < 0) /\ target \in Nat
        BY <1>1, <1>4, Boundaries
    <2> HIDE DEF target
    <2>2. ResolveChunkOffset(target) = [chunk |-> N, intra |-> 0]
        BY <2>1, <1>4, ResolveBeyond
    <2>3. /\ idx' = N /\ pendingSkip' = 0
          /\ buf' = Empty /\ pos' = 0 /\ absPos' = target
          /\ answer' = At(target) /\ releases' = releases /\ wanted' = wanted
          /\ releases = 0
        BY <2>1, <2>2 DEF Seek, target
    <2> QED
        BY <1>4, <2>1, <2>3, Boundaries
        DEF ReaderInv, ReaderTypeOK, PositionsAgree, ClosedIsDone, Empty, Slice, Length,
            At, Answer
<1> QED
    BY <1>1, <1>2, <1>3, <1>4, Boundaries

LEMMA LoadInv == ReaderInv /\ LoadChunk => ReaderInv'
<1> SUFFICES ASSUME ReaderInv, LoadChunk PROVE ReaderInv'
    OBVIOUS
<1>1. releases = 0 /\ idx \in 0..N /\ idx < N /\ Bound[idx] \in Nat /\ Bound[idx + 1] \in Nat
      /\ Bound[idx] < Bound[idx + 1] /\ Bound[idx] + pendingSkip = absPos
      /\ absPos < Bound[idx + 1] /\ pendingSkip \in Nat /\ absPos \in Nat
    BY Boundaries DEF ReaderInv, ReaderTypeOK, PositionsAgree, ClosedIsDone, LoadChunk
<1>2. Least(pendingSkip, Bound[idx + 1] - Bound[idx]) = pendingSkip
    BY <1>1 DEF Least
<1>3. /\ idx' = idx + 1 /\ buf' = Slice(absPos, Bound[idx + 1]) /\ pendingSkip' = 0
      /\ pos' = 0 /\ absPos' = absPos /\ releases' = releases /\ wanted' = wanted
      /\ answer' = answer
    BY <1>1, <1>2 DEF LoadChunk
<1>4. ReaderTypeOK'
    BY <1>1, <1>3, Boundaries DEF ReaderInv, ReaderTypeOK, Slice
<1>5. PositionsAgree' /\ ClosedIsDone'
    BY <1>1, <1>3 DEF PositionsAgree, ClosedIsDone, Slice, Length
<1> QED
    BY <1>4, <1>5 DEF ReaderInv

\* What Serve returns, and that it returns something unless nothing was asked for.
LEMMA ServeDelivers ==
    ASSUME ReaderInv, Serve
    PROVE  \E n \in 0..wanted :
              /\ wanted \in Nat /\ (wanted > 0 => n > 0)
              /\ releases = 0 /\ absPos + n <= totalSize /\ absPos < totalSize
              /\ answer' = Bytes(absPos, absPos + n)
              /\ pos' = pos + n /\ absPos' = absPos + n /\ wanted' = None
              /\ n <= Length(buf) - pos
              /\ UNCHANGED <<idx, pendingSkip, buf, releases>>
<1> DEFINE n == Least(wanted, Length(buf) - pos)
<1>1. wanted \in Nat /\ Length(buf) - pos \in Nat /\ Length(buf) - pos > 0
    BY CallerAssumption DEF ReaderInv, ReaderTypeOK, Serve, Length
<1>2. n \in 0..wanted /\ n <= Length(buf) - pos /\ (wanted > 0 => n > 0)
    BY <1>1 DEF Least
<1>3. releases = 0 /\ buf.from + pos = absPos /\ buf.to = Bound[idx] /\ idx \in 0..N
    BY DEF ReaderInv, ReaderTypeOK, PositionsAgree, ClosedIsDone, Serve, Length
<1>4. absPos + (Length(buf) - pos) = buf.to /\ buf.to <= totalSize /\ absPos \in Nat
      /\ totalSize \in Nat
    BY <1>3, Boundaries DEF ReaderInv, ReaderTypeOK, Length
<1>5. absPos + n <= totalSize /\ absPos < totalSize
    <2> HIDE DEF n
    <2> QED
        BY <1>1, <1>2, <1>4 DEF ReaderInv, ReaderTypeOK, Length
<1>6. /\ answer' = Bytes(absPos, absPos + n) /\ pos' = pos + n /\ absPos' = absPos + n
      /\ wanted' = None /\ UNCHANGED <<idx, pendingSkip, buf, releases>>
    BY <1>3 DEF Serve
<1> HIDE DEF n
<1> QED
    BY <1>1, <1>2, <1>3, <1>5, <1>6

LEMMA ServeInv == ReaderInv /\ Serve => ReaderInv'
<1> SUFFICES ASSUME ReaderInv, Serve PROVE ReaderInv'
    OBVIOUS
<1>1. PICK n \in 0..wanted :
          /\ wanted \in Nat /\ (wanted > 0 => n > 0)
          /\ releases = 0 /\ absPos + n <= totalSize /\ absPos < totalSize
          /\ answer' = Bytes(absPos, absPos + n)
          /\ pos' = pos + n /\ absPos' = absPos + n /\ wanted' = None
          /\ n <= Length(buf) - pos
          /\ UNCHANGED <<idx, pendingSkip, buf, releases>>
    BY ServeDelivers
<1>2. ReaderTypeOK'
    BY <1>1 DEF ReaderInv, ReaderTypeOK, Answer, Bytes
<1>3. /\ buf.from + pos = absPos /\ buf.to = Bound[idx] /\ pendingSkip = 0
      /\ pos < Length(buf) /\ idx \in 0..N /\ pos \in Nat /\ absPos \in Nat
      /\ buf.from \in Nat /\ buf.to \in Nat
    BY <1>1 DEF ReaderInv, ReaderTypeOK, PositionsAgree, Serve
<1>4. PositionsAgree'
    <2>1. buf' = buf /\ idx' = idx /\ pendingSkip' = 0 /\ pos' = pos + n /\ absPos' = absPos + n
          /\ n \in Nat /\ pos + n <= Length(buf)
        BY <1>1, <1>3 DEF Length
    <2>2. buf.from + (pos + n) = absPos + n
        BY <1>3, <2>1
    <2>3. pos + n >= Length(buf) => absPos + n = Bound[idx]
        BY <1>3, <2>1 DEF Length
    <2>4. Bound[N] = totalSize
        BY DEF totalSize
    <2> QED
        BY <1>3, <2>1, <2>2, <2>3, <2>4, Boundaries DEF PositionsAgree, Length, totalSize
<1>5. ClosedIsDone'
    BY <1>1 DEF ClosedIsDone
<1> QED
    BY <1>2, <1>4, <1>5 DEF ReaderInv

LEMMA StepInv == ReaderInv /\ [ReaderNext]_vars => ReaderInv'
<1> SUFFICES ASSUME ReaderInv, [ReaderNext]_vars PROVE ReaderInv'
    OBVIOUS
<1> USE DEF ReaderInv, ReaderTypeOK, PositionsAgree, ClosedIsDone
<1>1. ASSUME NEW n \in ReadSizes, BeginRead(n) PROVE ReaderInv'
    BY <1>1 DEF BeginRead, Length
<1>2. CASE Serve
    BY <1>2, ServeInv
<1>3. CASE ReadEnds
    BY <1>3 DEF ReadEnds, Says, Answer, Length
<1>4. CASE LoadFails
    BY <1>4 DEF LoadFails, Says, Answer, Length
<1>5. CASE LoadChunk
    BY <1>5, LoadInv
<1>6. ASSUME NEW offset \in Offsets, NEW whence \in {"start", "current", "end"},
             Seek(offset, whence)
      PROVE  ReaderInv'
    BY <1>6, SeekInv
<1>7. CASE Close
    BY <1>7, Boundaries DEF Close, Says, Answer, Length, Empty, Slice
<1>8. CASE UNCHANGED vars
    BY <1>8 DEF vars, Length
<1> QED
    BY <1>1, <1>2, <1>3, <1>4, <1>5, <1>6, <1>7, <1>8 DEF ReaderNext

\* The types, and that the guards are given back no more than once.
THEOREM ReaderTypeCorrect == ReaderSpec => []ReaderTypeOK
<1>1. ReaderInv => ReaderTypeOK
    BY DEF ReaderInv
<1> QED
    BY <1>1, InitInv, StepInv, PTL DEF ReaderSpec

\* Read and Seek keep agreeing on where the reader is.
THEOREM ReaderPositionsAgree == ReaderSpec => []PositionsAgree
<1>1. ReaderInv => PositionsAgree
    BY DEF ReaderInv
<1> QED
    BY <1>1, InitInv, StepInv, PTL DEF ReaderSpec

\* No chunk is loaded without the guards.
THEOREM ReaderLoadsUnderGuard == ReaderSpec => LoadsUnderGuard
<1>1. ReaderInv /\ [ReaderNext]_vars => [idx' = idx + 1 /\ wanted # None => releases = 0]_vars
    <2> SUFFICES ASSUME ReaderInv, [ReaderNext]_vars, idx' = idx + 1, wanted # None,
                        releases # 0
                 PROVE  FALSE
        OBVIOUS
    <2>1. idx = N /\ releases > 0 /\ pos >= Length(buf) /\ N \in Nat
        BY Boundaries DEF ReaderInv, ReaderTypeOK, ClosedIsDone
    <2>2. idx' = idx \/ idx' = N
        BY <2>1 DEF ReaderNext, BeginRead, Serve, ReadEnds, LoadFails, LoadChunk, Seek, Close,
                    vars
    <2> QED
        BY <2>1, <2>2
<1> QED
    BY <1>1, InitInv, StepInv, PTL DEF ReaderSpec, LoadsUnderGuard

-----------------------------------------------------------------------------
(* The reader implements the stream                                        *)

LEMMA StreamStart == ReaderInit => Stream!StreamInit
    BY DEF ReaderInit, Stream!StreamInit, Stream!At, At

LEMMA StreamStep == ReaderInv /\ [ReaderNext]_vars => [Stream!StreamNext]_(Stream!streamVars)
<1> SUFFICES ASSUME ReaderInv, [ReaderNext]_vars
             PROVE  Stream!StreamNext \/ UNCHANGED Stream!streamVars
    OBVIOUS
<1> USE DEF Stream!StreamNext, Stream!streamVars
<1>1. ASSUME NEW n \in ReadSizes, BeginRead(n) PROVE Stream!StreamNext
    BY <1>1 DEF BeginRead, Stream!Ask
<1>2. CASE Serve
    <2>1. PICK k \in 0..wanted :
              /\ wanted \in Nat /\ (wanted > 0 => k > 0)
              /\ releases = 0 /\ absPos + k <= totalSize /\ absPos < totalSize
              /\ answer' = Bytes(absPos, absPos + k)
              /\ pos' = pos + k /\ absPos' = absPos + k /\ wanted' = None
              /\ k <= Length(buf) - pos
              /\ UNCHANGED <<idx, pendingSkip, buf, releases>>
        BY <1>2, ServeDelivers
    <2>2. wanted \in ReadSizes /\ wanted # None
        BY <1>2 DEF Serve, ReaderInv, ReaderTypeOK
    <2>3. Stream!Deliver(k)
        BY <2>1, <2>2 DEF Stream!Deliver, Stream!Bytes, Bytes
    <2> QED
        BY <2>1, <2>2, <2>3
<1>3. CASE ReadEnds
    <2>1. releases > 0 \/ absPos >= totalSize
        BY <1>3, Boundaries DEF ReaderInv, ReaderTypeOK, PositionsAgree, ReadEnds
    <2> QED
        BY <1>3, <2>1 DEF ReadEnds, Stream!End, Stream!Says, Says
<1>4. CASE LoadFails
    <2>1. ~(releases > 0) /\ absPos < totalSize
        <3>1. releases = 0 /\ idx \in 0..N /\ idx < N
            BY <1>4 DEF ReaderInv, ReaderTypeOK, ClosedIsDone, LoadFails
        <3>2. absPos < Bound[idx + 1] /\ absPos \in Nat
            BY <1>4, <3>1 DEF ReaderInv, ReaderTypeOK, PositionsAgree, LoadFails
        <3>3. Bound[idx + 1] \in Nat /\ Bound[idx + 1] <= totalSize /\ totalSize \in Nat
            BY <3>1, Boundaries
        <3> QED
            BY <3>1, <3>2, <3>3
    <2> QED
        BY <1>4, <2>1 DEF LoadFails, Stream!ReadFails, Stream!Says, Says
<1>5. CASE LoadChunk
    BY <1>5 DEF LoadChunk
<1>6. ASSUME NEW offset \in Offsets, NEW whence \in {"start", "current", "end"},
             Seek(offset, whence)
      PROVE  Stream!StreamNext
    <2>1. Stream!Seek(offset, whence)
        BY <1>6 DEF Seek, Stream!Seek, Target, Stream!Target, Stream!At, At, Stream!Says, Says
    <2> QED
        BY <2>1
<1>7. CASE Close
    BY <1>7 DEF Close, Stream!Close, Stream!Says, Says, ReaderInv, ReaderTypeOK
<1>8. CASE UNCHANGED vars
    BY <1>8 DEF vars
<1> QED
    BY <1>1, <1>2, <1>3, <1>4, <1>5, <1>6, <1>7, <1>8 DEF ReaderNext

\* Every behaviour of the reader is one of a byte stream: the loading of chunks does not
\* show.
THEOREM ReaderImplementsStream == ReaderSpec => ImplementsStream
    BY InitInv, StepInv, StreamStart, StreamStep, PTL
    DEF ReaderSpec, ImplementsStream, Stream!StreamSpec
=============================================================================
