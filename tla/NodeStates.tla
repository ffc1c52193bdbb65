---------------------------- MODULE NodeStates ----------------------------
(***************************************************************************)
(* The node state machine of control_plane/nodes/states.py: the closed set *)
(* of states and the table of legal moves every writer consults.           *)
(***************************************************************************)

NodeState == {"SPAWNING", "READY", "ASSIGNED", "BUSY",
              "PAUSED", "DISCONNECTED", "TERMINATED"}

\* "No state": a key the view or the log does not carry.
None == "NONE"

\* The states a pause may interrupt, and the only ones it may resume to.
RESUMABLE == {"READY", "ASSIGNED", "BUSY"}

\* The moves validate_transition accepts out of each state.
LEGAL == [s \in NodeState |->
    CASE s = "SPAWNING"     -> {"READY", "DISCONNECTED", "TERMINATED"}
      [] s = "READY"        -> {"ASSIGNED", "PAUSED", "DISCONNECTED", "TERMINATED"}
      [] s = "ASSIGNED"     -> {"BUSY", "READY", "PAUSED", "DISCONNECTED", "TERMINATED"}
      [] s = "BUSY"         -> {"READY", "PAUSED", "DISCONNECTED", "TERMINATED"}
      [] s = "PAUSED"       -> {"READY", "ASSIGNED", "BUSY", "DISCONNECTED", "TERMINATED"}
      [] s = "DISCONNECTED" -> {"READY", "TERMINATED"}
      [] s = "TERMINATED"   -> {}]
============================================================================
