----------------------------- MODULE ByteStream -----------------------------
(***************************************************************************)
(* What an open reader promises its caller: the bytes of one blob, from a  *)
(* position that Read moves past what it returned and Seek sets at will.   *)
(* A failed Read or Seek moves nothing, so that it can be tried again, and *)
(* the end is reported exactly where there is no byte left.  There are no  *)
(* chunks here.                                                            *)
(***************************************************************************)
EXTENDS Integers

CONSTANTS
    Total,      \* length of the blob
    ReadSizes,  \* buffer sizes a caller reads with
    Offsets,    \* offsets a caller seeks with
    None

VARIABLES
    position,   \* of the next byte; may lie beyond the end
    wanted,     \* size asked for by the Read under way, or None
    closed,
    answer      \* of the last call: a range of bytes, a position, or what went wrong

streamVars == <<position, wanted, closed, answer>>

\* The bytes of the blob from one position up to, not including, another.
Bytes(from, to) == [kind |-> "bytes", from |-> from, to |-> to]

At(p) == [kind |-> "position", from |-> p, to |-> p]

Says(kind) == [kind |-> kind, from |-> 0, to |-> 0]

StreamInit ==
    /\ position = 0
    /\ wanted = None
    /\ closed = FALSE
    /\ answer = At(0)

Ask(n) ==
    /\ wanted = None
    /\ wanted' = n
    /\ UNCHANGED <<position, closed, answer>>

\* Read delivers at least one byte, unless none was asked for.
Deliver(k) ==
    /\ wanted # None /\ k \in 0..wanted
    /\ wanted > 0 => k > 0
    /\ ~closed /\ position + k <= Total /\ position < Total
    /\ answer' = Bytes(position, position + k)
    /\ position' = position + k
    /\ wanted' = None
    /\ UNCHANGED closed

End ==
    /\ wanted # None
    /\ closed \/ position >= Total
    /\ answer' = Says("EOF")
    /\ wanted' = None
    /\ UNCHANGED <<position, closed>>

ReadFails ==
    /\ wanted # None /\ ~closed /\ position < Total
    /\ answer' = Says("error")
    /\ wanted' = None
    /\ UNCHANGED <<position, closed>>

\* Where a Seek leads, for the three ways of counting.
Target(offset, whence) ==
    offset + (CASE whence = "start"   -> 0
                [] whence = "current" -> position
                [] whence = "end"     -> Total)

Seek(offset, whence) ==
    /\ wanted = None /\ ~closed
    /\ IF Target(offset, whence) < 0
       THEN answer' = Says("error") /\ UNCHANGED position
       ELSE position' = Target(offset, whence) /\ answer' = At(position')
    /\ UNCHANGED <<wanted, closed>>

Close ==
    /\ wanted = None
    /\ closed' = TRUE
    /\ answer' = Says("closed")
    /\ UNCHANGED <<position, wanted>>

StreamNext ==
    \/ \E n \in ReadSizes : Ask(n)
    \/ \E n \in ReadSizes : \E k \in 0..n : Deliver(k)
    \/ End \/ ReadFails \/ Close
    \/ \E offset \in Offsets, whence \in {"start", "current", "end"} : Seek(offset, whence)

StreamSpec == StreamInit /\ [][StreamNext]_streamVars
=============================================================================
