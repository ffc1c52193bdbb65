---------------------------- MODULE NodeManager ----------------------------
(***************************************************************************)
(* control_plane/nodes/process_manager.py with heartbeat.py: the manager   *)
(* spawns real processes, watches them, detects crashes, kills what stops  *)
(* beating, and respawns a crashed node as its next incarnation.  It holds *)
(* the state of its nodes in a NodeRegistry, the module composed here.     *)
(*                                                                         *)
(* poll() is a pass of loops: over exits, over heartbeat deadlines, over   *)
(* processes still to be reclaimed - all under the manager's lock - and    *)
(* then, outside it, over the respawns.  The reader threads feed           *)
(* heartbeats to the registry at any time; they take only its own lock.    *)
(***************************************************************************)
EXTENDS NodeStates, Naturals

CONSTANTS
    Node,             \* node ids
    MaxRestarts,      \* RestartPolicy.max_restarts
    KillFails,        \* process.kill() may raise OSError
    SpawnFails        \* Popen or register may raise during a respawn

ASSUME ManagerAssumption == /\ MaxRestarts \in Nat
                            /\ KillFails \in BOOLEAN
                            /\ SpawnFails \in BOOLEAN

Incarnation == 1..(MaxRestarts + 2)     \* one more than the policy allows
Key == Node \X Incarnation

VARIABLES
    nodes, log,       \* the registry and its durable log (NodeRegistry)
    proc,             \* proc[k]: the OS process of incarnation k
    pipe,             \* pipe[k]: a heartbeat line k wrote that nobody has read
    managed,          \* the keys of _managed
    managerKilled,    \* managerKilled[k]: _Managed.manager_killed
    restarts,         \* restarts[n]: _restarts
    stopping,         \* _stopping
    phase,            \* where the current poll() is
    todo,             \* the keys its current loop has yet to visit
    respawn,          \* the keys whose next incarnation it has yet to spawn
    failed            \* history: respawns of each node that raised

registryVars == <<nodes, log>>
pollVars == <<phase, todo, respawn>>
vars == <<nodes, log, proc, pipe, managed, managerKilled, restarts, stopping,
          phase, todo, respawn, failed>>

\* The lives the log tells.
LivesTold == [k \in Key |->
    [state |-> log[k].last,
     interrupted |-> IF log[k].last = "PAUSED" THEN log[k].pause ELSE None]]

\* The manager registers its own nodes and rehydrates none: nobody hands a record in.
Reg == INSTANCE NodeRegistry WITH
           Client <- {}, read <- [c \in {} |-> [key |-> None, state |-> None]],
           late <- {}, astray <- {}, torn <- {}, sound <- LivesTold

\* "spared": a kill() of it raised and left a kill_failed row; "dying":
\* signalled, not gone yet.
ProcState == {"none", "alive", "spared", "dying", "dead"}
Untouched == {"alive", "spared"}
Running == {"alive", "spared", "dying"}
Phase == {"idle", "exits", "deadlines", "reclaim", "backoff"}

Init == /\ Reg!Init
        /\ proc = [k \in Key |-> "none"]
        /\ pipe = [k \in Key |-> FALSE]
        /\ managed = {}
        /\ managerKilled = [k \in Key |-> FALSE]
        /\ restarts = [n \in Node |-> 0]
        /\ stopping = FALSE
        /\ phase = "idle" /\ todo = {} /\ respawn = {}
        /\ failed = [n \in Node |-> 0]

\* One thread drives the manager: it calls in between its polls.
MayCall == phase = "idle"

\* _kill: the process is signalled, or kill() raises and the log says so.
AfterKill(k) == IF proc[k] \in Untouched
                THEN {"dying"} \cup (IF KillFails THEN {"spared"} ELSE {})
                ELSE {proc[k]}
Signalled(k) == {[proc EXCEPT ![k] = st] : st \in AfterKill(k)}

\* spawn(): the process, then its registration, then the managed entry.
Spawn(k) ==
    /\ Reg!Register(k)
    /\ proc' = [proc EXCEPT ![k] = "alive"]
    /\ managed' = managed \cup {k}
    /\ managerKilled' = [managerKilled EXCEPT ![k] = FALSE]

\* A client spawns a node for the first time.
FirstSpawn(n) ==
    /\ MayCall
    /\ ~stopping
    /\ Spawn(<<n, 1>>)
    /\ UNCHANGED <<pipe, restarts, stopping, pollVars, failed>>

----------------------------------------------------------------------------
(* The processes, and the reader thread of each.                           *)

Beats(k) == /\ proc[k] \in Untouched
            /\ ~pipe[k]
            /\ pipe' = [pipe EXCEPT ![k] = TRUE]
            /\ UNCHANGED <<registryVars, proc, managed, managerKilled, restarts, stopping,
                           pollVars, failed>>

\* _read_stdout: a line in the pipe outlives the process that wrote it.
ReadBeat(k) == /\ pipe[k]
               /\ pipe' = [pipe EXCEPT ![k] = FALSE]
               /\ Reg!Heartbeat(k)
               /\ UNCHANGED <<proc, managed, managerKilled, restarts, stopping, pollVars,
                              failed>>

Dies(k) == /\ proc' = [proc EXCEPT ![k] = "dead"]
           /\ UNCHANGED <<registryVars, pipe, managed, managerKilled, restarts, stopping,
                          pollVars, failed>>
Crashes(k) == proc[k] \in Untouched /\ Dies(k)
DiesOfKill(k) == proc[k] = "dying" /\ Dies(k)

\* A client pauses a node, or resumes it, through the registry.
PauseOrResume(k, s) ==
    /\ MayCall
    /\ \/ s = "PAUSED" /\ nodes[k].state \in RESUMABLE
       \/ s = "READY" /\ nodes[k].state = "PAUSED"
    /\ Reg!Transition(k, s)
    /\ UNCHANGED <<proc, pipe, managed, managerKilled, restarts, stopping, pollVars, failed>>

----------------------------------------------------------------------------
(* One pass of poll().                                                     *)

PollStarts ==
    /\ phase = "idle"
    /\ phase' = "exits"
    /\ todo' = managed
    /\ UNCHANGED <<registryVars, proc, pipe, managed, managerKilled, restarts, stopping,
                   respawn, failed>>

\* Mutant of Reserves: the budget is checked one restart too early.
ReservesOneTooFew(k) == /\ ~(managerKilled[k] \/ stopping)
                        /\ restarts[k[1]] + 1 < MaxRestarts

\* _reserve_restart, for an exit nobody asked for.
Reserves(k) == /\ ~(managerKilled[k] \/ stopping)
               /\ restarts[k[1]] < MaxRestarts

\* The first loop, over a snapshot of _managed.
PollExit(k) ==
    /\ phase = "exits"
    /\ k \in todo
    /\ todo' = todo \ {k}
    /\ IF proc[k] = "dead"
       THEN /\ managed' = managed \ {k}
            /\ Reg!RecordExit(k)
            /\ IF Reserves(k)
               THEN /\ restarts' = [restarts EXCEPT ![k[1]] = @ + 1]
                    /\ respawn' = respawn \cup {k}
               ELSE UNCHANGED <<restarts, respawn>>
       ELSE UNCHANGED <<registryVars, managed, restarts, respawn>>
    /\ UNCHANGED <<proc, pipe, managerKilled, stopping, phase, failed>>

\* A record check() does not skip.
Watched(k) == nodes[k].state \in NodeState \ {"TERMINATED", "DISCONNECTED", "PAUSED"}

\* HeartbeatMonitor.check on one record, and the disconnect-kill it leads to.
\* Which record is overdue is up to the clock and the readers.
PollDeadline(k) ==
    /\ phase = "deadlines"
    /\ k \in todo
    /\ todo' = todo \ {k}
    /\ \/ UNCHANGED <<registryVars, managerKilled, proc>>
       \/ /\ Watched(k)
          /\ Reg!Transition(k, "DISCONNECTED")
          /\ IF k \in managed /\ ~stopping
             THEN /\ managerKilled' = [managerKilled EXCEPT ![k] = FALSE]
                  /\ proc' \in Signalled(k)
             ELSE UNCHANGED <<managerKilled, proc>>
    /\ UNCHANGED <<pipe, managed, restarts, stopping, phase, respawn, failed>>

\* The retry of a reclaim that has not killed its process yet.
PollReclaim(k) ==
    /\ phase = "reclaim"
    /\ k \in todo
    /\ todo' = todo \ {k}
    /\ IF nodes[k].state = "DISCONNECTED" /\ proc[k] \in Running
       THEN proc' \in Signalled(k)
       ELSE UNCHANGED proc
    /\ UNCHANGED <<registryVars, pipe, managed, managerKilled, restarts, stopping, phase,
                   respawn, failed>>

\* From one loop to the next; the last loop runs only while not stopping.
PollTurns ==
    /\ todo = {}
    /\ \/ /\ phase = "exits"
          /\ phase' = "deadlines"
          /\ todo' = {k \in Key : nodes[k].state \notin {None, "TERMINATED"}}
       \/ /\ phase = "deadlines"
          /\ phase' = "reclaim"
          /\ todo' = IF stopping THEN {} ELSE managed
       \/ /\ phase = "reclaim"
          /\ phase' = "backoff"
          /\ UNCHANGED todo
       \/ /\ phase = "backoff" /\ respawn = {}
          /\ phase' = "idle"
          /\ UNCHANGED todo
    /\ UNCHANGED <<registryVars, proc, pipe, managed, managerKilled, restarts, stopping,
                   respawn, failed>>

NextIncarnation(k) == <<k[1], k[2] + 1>>

\* Outside the lock, after the backoff: nothing is asked again.
Respawn(k) ==
    /\ phase = "backoff"
    /\ k \in respawn
    /\ respawn' = respawn \ {k}
    /\ Spawn(NextIncarnation(k))
    /\ UNCHANGED <<pipe, restarts, stopping, phase, todo, failed>>

\* Mutant of RespawnRaises: registration failed, the process is left running.
RespawnRaisesUnreaped(k) ==
    /\ SpawnFails
    /\ phase = "backoff"
    /\ k \in respawn
    /\ respawn' = {}
    /\ phase' = "idle"
    /\ failed' = [failed EXCEPT ![k[1]] = @ + 1]
    /\ proc' = [proc EXCEPT ![NextIncarnation(k)] = "alive"]
    /\ UNCHANGED <<registryVars, pipe, managed, managerKilled, restarts, stopping, todo>>

\* The spawn raises: its process is reaped, the exception leaves poll() and
\* with it the respawns that were still to come.
RespawnRaises(k) ==
    /\ SpawnFails
    /\ phase = "backoff"
    /\ k \in respawn
    /\ respawn' = {}
    /\ phase' = "idle"
    /\ failed' = [failed EXCEPT ![k[1]] = @ + 1]
    /\ UNCHANGED <<registryVars, proc, pipe, managed, managerKilled, restarts, stopping,
                   todo>>

----------------------------------------------------------------------------
(* The manager's other callers.                                            *)

\* kill_node() on the latest incarnation of n.
KillNode(n, expected) ==
    LET incarnations == {i \in Incarnation : Reg!InView(<<n, i>>)}
    IN  /\ MayCall
        /\ \E i \in incarnations :
              /\ \A j \in incarnations : j <= i
              /\ <<n, i>> \in managed
              /\ managerKilled' = [managerKilled EXCEPT ![<<n, i>>] = expected]
              /\ proc' \in Signalled(<<n, i>>)
        /\ UNCHANGED <<registryVars, pipe, managed, restarts, stopping, pollVars, failed>>

\* Mutant of TerminateAll: only the processes the registry calls READY.
TerminateReady ==
    /\ MayCall
    /\ stopping' = TRUE
    /\ managerKilled' = [k \in Key |-> k \in managed \/ managerKilled[k]]
    /\ proc' = [k \in Key |-> IF nodes[k].state = "READY" /\ proc[k] = "alive"
                              THEN "dying" ELSE proc[k]]
    /\ UNCHANGED <<registryVars, pipe, managed, restarts, pollVars, failed>>

\* terminate_all() up to its wait; the poll() it ends with is the next pass.
TerminateAll ==
    /\ MayCall
    /\ stopping' = TRUE
    /\ managerKilled' = [k \in Key |-> k \in managed \/ managerKilled[k]]
    /\ proc' \in {killed \in [Key -> ProcState] :
                    \A k \in Key : killed[k] \in IF k \in managed THEN AfterKill(k) ELSE {proc[k]}}
    /\ UNCHANGED <<registryVars, pipe, managed, restarts, pollVars, failed>>

Poll == \/ PollStarts \/ PollTurns
        \/ \E k \in Key : \/ PollExit(k) \/ PollDeadline(k) \/ PollReclaim(k)
                          \/ Respawn(k) \/ RespawnRaises(k)

Next == \/ Poll
        \/ \E n \in Node : FirstSpawn(n) \/ \E e \in BOOLEAN : KillNode(n, e)
        \/ \E k \in Key : \/ Beats(k) \/ ReadBeat(k) \/ Crashes(k) \/ DiesOfKill(k)
                          \/ \E s \in {"PAUSED", "READY"} : PauseOrResume(k, s)
        \/ TerminateAll

Spec == Init /\ [][Next]_vars

----------------------------------------------------------------------------
\* Type invariant of the manager's tables, processes and poll position.
TypeOK ==
    /\ Reg!TypeOK
    /\ proc \in [Key -> ProcState]
    /\ pipe \in [Key -> BOOLEAN]
    /\ managed \subseteq Key
    /\ managerKilled \in [Key -> BOOLEAN]
    /\ restarts \in [Node -> 0..MaxRestarts]
    /\ stopping \in BOOLEAN
    /\ phase \in Phase
    /\ todo \subseteq Key
    /\ respawn \subseteq Key
    /\ failed \in [Node -> Nat]

\* No process is ever out of the manager's sight: whatever runs is managed, and
\* what is managed is exactly what the registry records as not yet TERMINATED.
NoOrphan ==
    \A k \in Key : /\ proc[k] \in Running => k \in managed
                   /\ k \in managed <=> nodes[k].state \notin {None, "TERMINATED"}

\* After terminate_all whatever still runs unsignalled is a process whose kill
\* is in the log as failed: none is spawned, adopted or overlooked later
\* ("terminate_all is the no-orphan guarantee"; "never silent").
NothingSurvivesTerminate == stopping => \A k \in Key : proc[k] # "alive"

----------------------------------------------------------------------------
(* The driver polls for ever; a signalled process dies; a kill that is      *)
(* retried succeeds at last; readers read.                                  *)

PollOf(k) == PollExit(k) \/ PollDeadline(k) \/ PollReclaim(k) \/ Respawn(k)

Fairness == /\ WF_vars(PollStarts) /\ WF_vars(PollTurns)
            /\ \A k \in Key : /\ WF_vars(PollOf(k))
                              /\ WF_vars(DiesOfKill(k))
                              /\ SF_vars(PollReclaim(k) /\ proc'[k] = "dying")

FairSpec == Spec /\ Fairness

\* A crash is answered: an exited process is taken off the books, and within the
\* budget the node runs again as its next incarnation, unless that spawn raised,
\* the manager stops or was told to kill it.
CrashesAreAnswered ==
    \A n \in Node, i \in 1..MaxRestarts :
        (<<n, i>> \in managed /\ proc[<<n, i>>] = "dead")
          ~> /\ <<n, i>> \notin managed
             /\ \/ Reg!InView(<<n, i + 1>>) \/ failed[n] > 0
                \/ managerKilled[<<n, i>>] \/ stopping

============================================================================
