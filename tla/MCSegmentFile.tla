--------------------------- MODULE MCSegmentFile ---------------------------
(***************************************************************************)
(* An instance of SegmentFile for TLC.                                     *)
(***************************************************************************)
EXTENDS SegmentFile, TLC

CONSTANTS w1, w2

\* A blob of a short chunk and a long one, which a roll may separate, and a short blob.
Blobs == (w1 :> <<1, 2>>) @@ (w2 :> <<1>>)
=============================================================================
