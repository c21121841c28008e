----------------------------- MODULE MCBufferPool -----------------------------
(***************************************************************************)
(* Instances of BufferPool for TLC.                                        *)
(***************************************************************************)
EXTENDS BufferPool, TLC

CONSTANTS c1, c2, c3, c4, a, b

Symmetry == Permutations(Client) \cup Permutations(Content)
===============================================================================
