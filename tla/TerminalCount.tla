--------------------------- MODULE TerminalCount ---------------------------
(***************************************************************************)
(* What the accounting of subscription terminals promises (terminal_lease  *)
(* and D-LOOP-1): a session is counted before its process is born, stays   *)
(* counted while that process may be alive, is counted back afterwards,    *)
(* and no more than Allowance are counted at any time.                     *)
(***************************************************************************)
EXTENDS Naturals, FiniteSets

CONSTANTS Session, Allowance

VARIABLES
    counted,          \* sessions that hold one of the operator's terminals
    alive             \* sessions with a process whose exit is not confirmed

countVars == <<counted, alive>>

Init == counted = {} /\ alive = {}

\* One terminal is taken for a session, while one is left.
Take(s) == /\ Cardinality(counted) < Allowance
           /\ counted' = counted \cup {s}
           /\ UNCHANGED alive

\* Only a counted session gets a process.
Birth(s) == /\ s \in counted
            /\ alive' = alive \cup {s}
            /\ UNCHANGED counted

Death(s) == /\ alive' = alive \ {s}
            /\ UNCHANGED counted

\* A terminal goes back only when no process can be using it.
Return(s) == /\ s \notin alive
             /\ counted' = counted \ {s}
             /\ UNCHANGED alive

Next == \E s \in Session : Take(s) \/ Birth(s) \/ Death(s) \/ Return(s)

Spec == Init /\ [][Next]_countVars
============================================================================
