-------------------------------- MODULE MCBTree --------------------------------
(***************************************************************************)
(* Instances of BTree for TLC.                                             *)
(***************************************************************************)
EXTENDS BTree

CONSTANTS small, big

\* Short and long keys and values: a leaf has room for one, two or three pairs, an
\* internal page for one long separator or many short ones.
KeyLengths == [k \in Key |-> IF k \in {2, 4} THEN 2100 ELSE 500]
ValLengths == [v \in Val |-> IF v = big THEN 1900 ELSE 400]
===============================================================================
