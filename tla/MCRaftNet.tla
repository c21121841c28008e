------------------------------- MODULE MCRaftNet -------------------------------
(***************************************************************************)
(* Instances of RaftNet for TLC.  Node ids are ordered, so only keys and   *)
(* values are symmetric.                                                   *)
(***************************************************************************)
EXTENDS RaftNet, TLC

CONSTANTS x, y, a, b

Symmetry == Permutations(Key) \cup Permutations(Val)
===============================================================================
