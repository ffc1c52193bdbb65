-------------------------- MODULE MCNodeRegistry --------------------------
(* One incarnation (they share nothing but the end of their process), and  *)
(* two processes: one may overtake what the other has read.                *)
EXTENDS NodeRegistry
============================================================================
