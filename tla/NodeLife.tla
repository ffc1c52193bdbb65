----------------------------- MODULE NodeLife -----------------------------
(***************************************************************************)
(* What the node registry promises about one incarnation of a node, with   *)
(* no view, no log and no crash in sight (states.py, module docstring):    *)
(* it is born SPAWNING, moves only along the LEGAL table, ends in          *)
(* TERMINATED for good, and a pause gives way only to the state it         *)
(* interrupted.                                                            *)
(***************************************************************************)
EXTENDS NodeStates

CONSTANT Key          \* the incarnations, (node_id, incarnation) pairs

VARIABLES
    life,             \* life[k]: the state of incarnation k, None before its birth
    interrupted       \* interrupted[k]: while k is PAUSED, the state it left

lifeVars == <<life, interrupted>>

Init == /\ life = [k \in Key |-> None]
        /\ interrupted = [k \in Key |-> None]

\* An incarnation is born once.
Spawn(k) == /\ life[k] = None
            /\ life' = [life EXCEPT ![k] = "SPAWNING"]
            /\ UNCHANGED interrupted

\* A pause remembers what it interrupts.
Pause(k) == /\ life[k] \in RESUMABLE
            /\ life' = [life EXCEPT ![k] = "PAUSED"]
            /\ interrupted' = [interrupted EXCEPT ![k] = life[k]]

\* A paused node takes up exactly what it was doing.
Resume(k) == /\ life[k] = "PAUSED"
             /\ life' = [life EXCEPT ![k] = interrupted[k]]
             /\ interrupted' = [interrupted EXCEPT ![k] = None]

\* Any other legal move; out of PAUSED only the two failure moves are left.
Move(k, s) == /\ life[k] \in NodeState
              /\ s \in LEGAL[life[k]]
              /\ s # "PAUSED"
              /\ life[k] = "PAUSED" => s \in {"DISCONNECTED", "TERMINATED"}
              /\ life' = [life EXCEPT ![k] = s]
              /\ interrupted' = [interrupted EXCEPT ![k] = None]

Next == \E k \in Key : \/ Spawn(k)
                       \/ Pause(k)
                       \/ Resume(k)
                       \/ \E s \in NodeState : Move(k, s)

Spec == Init /\ [][Next]_lifeVars
============================================================================
