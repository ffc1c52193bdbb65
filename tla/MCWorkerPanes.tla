--------------------------- MODULE MCWorkerPanes ---------------------------
(* Every terminal can be taken, refused and handed to a second launch of   *)
(* the same pane.  No symmetry: the run checks a liveness property.        *)
EXTENDS WorkerPanes
============================================================================
