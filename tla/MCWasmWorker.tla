---------------------------- MODULE MCWasmWorker ----------------------------
(* Messages in every order, none, one or two texts per program, with and    *)
(* without a runner; the messages are interchangeable names.                *)
EXTENDS WasmWorker

=============================================================================
