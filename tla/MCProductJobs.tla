--------------------------- MODULE MCProductJobs ---------------------------
(* Small instances of the product service for TLC. *)
EXTENDS ProductJobs, TLC

Interchangeable == Permutations(Job) \cup Permutations(Service)
============================================================================
