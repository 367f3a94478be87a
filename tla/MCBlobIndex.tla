---------------------------- MODULE MCBlobIndex ----------------------------
(***************************************************************************)
(* Instances of BlobIndex for TLC.  Contents a and aba share a chunk, which *)
(* aba lists twice; d has a chunk of its own.                              *)
(***************************************************************************)
EXTENDS BlobIndex, TLC

CONSTANTS n1, n2, a, aba, d, ca, cb, cd

\* Two namespaces that store nothing in common, one chunker configuration.
SeparateContent == [n \in Namespace |-> IF n = n1 THEN {a, aba} ELSE {d}]
OneCut          == (a :> {<<ca>>}) @@ (aba :> {<<ca, cb, ca>>}) @@ (d :> {<<cd>>})
MCSize          == (a :> 1) @@ (aba :> 3) @@ (d :> 1)

\* Namespaces that store the same content.
CommonContent   == [n \in Namespace |-> {a}]

\* The hypotheses of the theorems about this instance.
ASSUME HypothesesAssumption ==
    (Manifests = OneCut => OneManifest) /\ (Content = SeparateContent => NoSharedContent)

Symmetry == Permutations(Loc) \cup Permutations(Key)
=============================================================================
