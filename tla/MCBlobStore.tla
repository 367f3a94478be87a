---------------------------- MODULE MCBlobStore ----------------------------
(***************************************************************************)
(* Instances of BlobStore for TLC.                                         *)
(***************************************************************************)
EXTENDS BlobStore

CONSTANTS ns, a, ab, d, ca, cb, cd

Locations   == (1..MaxSegment) \X (1..8)
TwoChunks   == (ns :> {ab})
Sharing     == (ns :> {a, ab})
Various     == (ns :> {a, ab, d})
Cuts        == (a :> {<<ca>>}) @@ (ab :> {<<ca, cb>>}) @@ (d :> {<<cd>>})
Sizes       == (a :> 1) @@ (ab :> 2) @@ (d :> 3)
SinglePage  == [c \in ChunkId |-> 1]
TwoPages    == [c \in ChunkId |-> 2]

NoQuota     == [maxBytes |-> 0, maxBlobCount |-> 0, maxBlobSize |-> 0]
AllLimits   == [maxBytes |-> 3, maxBlobCount |-> 2, maxBlobSize |-> 2]

Symmetry == Permutations(Key)
=============================================================================
