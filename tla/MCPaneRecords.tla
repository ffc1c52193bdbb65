---------------------------- MODULE MCPaneRecords ----------------------------
(* The emitters are interchangeable; the sessions come one after another.   *)
EXTENDS PaneRecords, TLC

Symmetry == Permutations(Emitter) \cup Permutations(Session)
============================================================================
