-------------------------------- MODULE MCMvcc --------------------------------
(***************************************************************************)
(* Instances of Mvcc for TLC.                                              *)
(***************************************************************************)
EXTENDS Mvcc, TLC

CONSTANTS x, y, a, b

Symmetry == Permutations({a, b}) \cup Permutations({x, y})
===============================================================================
