------------------------------ MODULE MCDbEngine ------------------------------
(***************************************************************************)
(* Instances of DbEngine for TLC.                                          *)
(***************************************************************************)
EXTENDS DbEngine, TLC

CONSTANTS x, y

Symmetry == Permutations({x, y})
===============================================================================
