--------------------------- MODULE MCLeaseLedger ---------------------------
(* The bounds of the runs are in their .cfg files; liveness is checked, so  *)
(* no symmetry is declared.                                                 *)
EXTENDS LeaseLedger
============================================================================
