----------------------------- MODULE MCBackends -----------------------------
(***************************************************************************)
(* An instance of Backends for TLC.                                        *)
(***************************************************************************)
EXTENDS Backends, TLC

Ranges == {{1, 2}, {2}}
Symmetry == Permutations(Thread) \cup Permutations(Value)
=============================================================================
