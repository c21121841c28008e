---------------------------- MODULE MCPlayground ----------------------------
(* Small instances of Playground: enough runs for a second to start beside  *)
(* the first, and for one to find the worker occupied by another.           *)
EXTENDS Playground

CONSTANTS hello, loop

MCKeys == {hello, loop}

=============================================================================
