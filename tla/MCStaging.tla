---------------------------- MODULE MCStaging ----------------------------
(* Small instances of Staging. *)
EXTENDS Staging

Begun(mode, sized, whole, checked) ==
    [mode |-> mode, sized |-> sized, whole |-> whole, checked |-> checked]

Part(lo, hi, bad) == [lo |-> lo, hi |-> hi, bad |-> bad]

\* Parts and the whole, one of them damaged, one that is too long.
Arriving == {Part(1, 1, {}), Part(2, 2, {}), Part(1, 2, {}), Part(1, 1, {1}), Part(2, 3, {})}

\* Both kinds of ranges mode with a checksum of the whole file, blocks that are
\* streamed, and piece hashes together with a checksum for every chunk.
Several == {Begun("ranges", TRUE, TRUE, FALSE), Begun("ranges", FALSE, TRUE, TRUE),
            Begun("blocks", TRUE, FALSE, FALSE), Begun("pieces", TRUE, FALSE, TRUE)}

\* Piece hashes and no other checksum.
OnlyPieceHashes == {Begun("pieces", TRUE, FALSE, FALSE)}
==========================================================================
