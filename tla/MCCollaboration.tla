-------------------------- MODULE MCCollaboration --------------------------
(* Small instances of the collaboration service for TLC. *)
EXTENDS Collaboration, TLC

Interchangeable == Permutations(Worker) \cup Permutations(Hash) \cup Permutations(Debate)
============================================================================
