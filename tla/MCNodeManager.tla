--------------------------- MODULE MCNodeManager ---------------------------
(* One node with one restart.                                              *)
EXTENDS NodeManager
============================================================================
