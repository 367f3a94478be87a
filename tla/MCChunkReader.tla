--------------------------- MODULE MCChunkReader ---------------------------
(***************************************************************************)
(* An instance of ChunkReader for TLC.                                     *)
(***************************************************************************)
EXTENDS ChunkReader, TLC

Bounds == (0 :> 0) @@ (1 :> 2) @@ (2 :> 3) @@ (3 :> 6)
Around == -7..7
=============================================================================
