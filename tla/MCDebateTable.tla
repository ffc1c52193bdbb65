--------------------------- MODULE MCDebateTable ---------------------------
(* Small instances of the Debate Table for TLC. *)
EXTENDS DebateTable, TLC
============================================================================
