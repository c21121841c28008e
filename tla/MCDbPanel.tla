----------------------------- MODULE MCDbPanel -----------------------------
(* Small instances of DbPanel: a file of no or one record, two clicks, two  *)
(* preview records, of which one or both the file may lack.                 *)
EXTENDS DbPanel

=============================================================================
