-------------------------- MODULE MCStagedStore ---------------------------
(***************************************************************************)
(* An instance of StagedStore for TLC: two callers, which are              *)
(* interchangeable.                                                        *)
(***************************************************************************)
EXTENDS StagedStore, TLC

CONSTANTS c0, c1, c2, k1, k2

Interchangeable == Permutations({k1, k2})

=============================================================================
