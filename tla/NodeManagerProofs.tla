-------------------------- MODULE NodeManagerProofs --------------------------
(***************************************************************************)
(* Theorems about the process manager, for any nodes, any restart budget   *)
(* and whether or not kills and respawns may fail: the types, that no      *)
(* process escapes it, that none survives terminate_all unrecorded, that   *)
(* no node runs twice, and that it is a client its registry can rely on.   *)
(***************************************************************************)
EXTENDS NodeManager, TLAPS

\* A record belongs to an incarnation the budget has paid for, and a respawn
\* waits only while the manager is not stopping, with its restart reserved.
Budgeted ==
    /\ \A k \in Key : nodes[k].state # None => k[2] <= restarts[k[1]] + 1
    /\ \A k \in respawn : k[2] <= restarts[k[1]]
RespawnsArePolls == /\ phase = "idle" => respawn = {}
                    /\ stopping => respawn = {}
IInv == TypeOK /\ NoOrphan /\ Budgeted /\ RespawnsArePolls /\ NothingSurvivesTerminate

-----------------------------------------------------------------------------
(* The registry, as the manager uses it. *)

Recorded(k) == nodes[k].state \notin {None, "TERMINATED"}
RegistryTypes == nodes \in [Key -> Reg!Records] /\ log \in [Key -> Reg!Rows]

\* The registry's table is the manager's.
LEMMA SameTable ==
    /\ Reg!NodeState = NodeState /\ Reg!None = None /\ Reg!RESUMABLE = RESUMABLE
    /\ Reg!LEGAL = LEGAL
<1>1. Reg!NodeState = NodeState /\ Reg!None = None /\ Reg!RESUMABLE = RESUMABLE
  BY DEF NodeState, None, RESUMABLE, Reg!NodeState, Reg!None, Reg!RESUMABLE
<1>2. Reg!LEGAL = LEGAL
  BY DEF LEGAL, Reg!LEGAL, NodeState, Reg!NodeState
<1> QED BY <1>1, <1>2

\* What the registry's types say of the states.
LEMMA StateFacts ==
    /\ None \notin NodeState
    /\ {"SPAWNING", "READY", "PAUSED", "DISCONNECTED", "TERMINATED"} \subseteq NodeState
    /\ RESUMABLE \subseteq NodeState \ {"TERMINATED"} /\ None \notin RESUMABLE
    /\ \A s \in NodeState : LEGAL[s] \subseteq NodeState
    /\ LEGAL["TERMINATED"] = {}
BY DEF NodeState, None, RESUMABLE, LEGAL

\* Only record k moves, to state s.
MovesTo(k, s) ==
    /\ RegistryTypes'
    /\ nodes'[k].state = s
    /\ \A j \in Key \ {k} : nodes'[j] = nodes[j]

\* register() gives a record that was not in the view.
LEMMA RegisterMoves ==
    ASSUME RegistryTypes, NEW k \in Key, Reg!Register(k)
    PROVE  nodes[k].state = None /\ MovesTo(k, "SPAWNING")
<1> USE SameTable
<1>1. /\ nodes[k].state = None
      /\ log' = [log EXCEPT ![k] = Reg!SpawnRow(k)]
      /\ nodes' = [nodes EXCEPT ![k] = [state |-> "SPAWNING", paused_from |-> None]]
  BY DEF Reg!Register, Reg!InView
<1>2. [state |-> "SPAWNING", paused_from |-> None] \in Reg!Records
  BY StateFacts DEF Reg!Records
<1>3. Reg!SpawnRow(k) \in Reg!Rows
  BY StateFacts DEF RegistryTypes, Reg!SpawnRow, Reg!Rows, Reg!RowKind
<1> QED BY <1>1, <1>2, <1>3 DEF RegistryTypes, MovesTo

\* transition() moves a record between states that are not TERMINATED, or to
\* TERMINATED.
LEMMA TransitionMoves ==
    ASSUME RegistryTypes, NEW k \in Key, NEW s \in NodeState, Reg!Transition(k, s),
           s = "PAUSED" => nodes[k].state \in RESUMABLE
    PROVE  Recorded(k) /\ MovesTo(k, s)
<1> USE SameTable
<1>1. /\ nodes[k].state # None /\ s \in LEGAL[nodes[k].state]
      /\ log' = [log EXCEPT ![k] = Reg!AppendTransition(k, s)]
      /\ nodes' = [nodes EXCEPT ![k] =
            [state |-> s,
             paused_from |-> IF nodes[k].state = "PAUSED" THEN None ELSE Reg!PausedFrom(k, s)]]
  BY DEF Reg!Transition, Reg!InView, Reg!Admits
<1>2. nodes[k] \in Reg!Records /\ log[k] \in Reg!Rows
  BY DEF RegistryTypes
<1>3. Recorded(k)
  BY <1>1, <1>2, StateFacts DEF Recorded
<1>4. Reg!PausedFrom(k, s) \in RESUMABLE \cup {None}
  BY <1>2 DEF Reg!PausedFrom, Reg!Records, Reg!Rows
<1>5. [state |-> s,
       paused_from |-> IF nodes[k].state = "PAUSED" THEN None ELSE Reg!PausedFrom(k, s)]
          \in Reg!Records
  BY <1>4 DEF Reg!Records
<1>6. Reg!AppendTransition(k, s) \in Reg!Rows
  BY <1>2 DEF Reg!AppendTransition, Reg!Rows, Reg!RowKind
<1> QED BY <1>1, <1>3, <1>5, <1>6 DEF RegistryTypes, MovesTo

\* record_exit() ends a record.
LEMMA ExitMoves ==
    ASSUME RegistryTypes, NEW k \in Key, Reg!RecordExit(k)
    PROVE  nodes[k].state # None /\ MovesTo(k, "TERMINATED")
<1> USE SameTable
<1>1. /\ nodes[k].state # None
      /\ log' = [log EXCEPT ![k] = Reg!ExitRows(k)]
      /\ nodes' = [nodes EXCEPT ![k].state = "TERMINATED"]
  BY DEF Reg!RecordExit, Reg!InView
<1>2. nodes[k] \in Reg!Records /\ log[k] \in Reg!Rows
  BY DEF RegistryTypes
<1>3. [nodes[k] EXCEPT !.state = "TERMINATED"] \in Reg!Records
  BY <1>2, StateFacts DEF Reg!Records
<1>4. Reg!ExitRows(k) \in Reg!Rows
  BY <1>2, StateFacts DEF Reg!ExitRows, Reg!Rows, Reg!RowKind
<1>5. [nodes[k] EXCEPT !.state = "TERMINATED"].state = "TERMINATED"
  BY <1>2 DEF Reg!Records
<1>6. nodes' = [nodes EXCEPT ![k] = [nodes[k] EXCEPT !.state = "TERMINATED"]]
  BY <1>1
<1>7. RegistryTypes'
  BY <1>1, <1>3, <1>4, <1>6 DEF RegistryTypes
<1>8. /\ nodes'[k] = [nodes[k] EXCEPT !.state = "TERMINATED"]
      /\ \A j \in Key \ {k} : nodes'[j] = nodes[j]
  BY <1>6 DEF RegistryTypes
<1> QED BY <1>1, <1>5, <1>7, <1>8 DEF MovesTo

\* A beat leaves the record alone, or moves it to READY.
LEMMA HeartbeatMoves ==
    ASSUME RegistryTypes, NEW k \in Key, Reg!Heartbeat(k)
    PROVE  UNCHANGED registryVars \/ (Recorded(k) /\ MovesTo(k, "READY"))
<1>1. CASE Reg!Transition(k, "READY")
  BY <1>1, TransitionMoves, StateFacts
<1> QED BY <1>1 DEF Reg!Heartbeat, registryVars, Reg!registryVars

\* A move of a record that stays recorded.
Moved == \/ UNCHANGED registryVars
         \/ \E k \in Key, s \in NodeState \ {"TERMINATED"} : Recorded(k) /\ MovesTo(k, s)

\* Such a move leaves everybody on the books.
LEMMA MovedKeeps ==
    ASSUME RegistryTypes, Moved
    PROVE  /\ RegistryTypes'
           /\ \A j \in Key : /\ Recorded(j)' <=> Recorded(j)
                             /\ nodes'[j].state # None <=> nodes[j].state # None
<1>1. CASE UNCHANGED registryVars
  BY <1>1 DEF registryVars, RegistryTypes, Recorded
<1>2. CASE \E k \in Key, s \in NodeState \ {"TERMINATED"} : Recorded(k) /\ MovesTo(k, s)
  <2>1. PICK k \in Key, s \in NodeState \ {"TERMINATED"} : Recorded(k) /\ MovesTo(k, s)
    BY <1>2
  <2>2. RegistryTypes' /\ nodes'[k].state = s /\ \A j \in Key \ {k} : nodes'[j] = nodes[j]
    BY <2>1 DEF MovesTo
  <2> QED BY <2>1, <2>2, StateFacts DEF Recorded
<1> QED BY <1>1, <1>2 DEF Moved

-----------------------------------------------------------------------------
(* The manager's steps. *)

Rest == /\ pipe \in [Key -> BOOLEAN] /\ managerKilled \in [Key -> BOOLEAN]
        /\ stopping \in BOOLEAN /\ phase \in Phase /\ todo \subseteq Key
        /\ failed \in [Node -> Nat]

\* Nobody hands records in, and the lives told have their types.
LEMMA RegistryTypeOK == RegistryTypes <=> Reg!TypeOK
<1>1. \A k \in Key : log[k] \in Reg!Rows => LivesTold[k] \in Reg!Lives
  BY SameTable DEF LivesTold, Reg!Rows, Reg!Lives
<1>2. RegistryTypes => LivesTold \in [Key -> Reg!Lives]
  BY <1>1 DEF RegistryTypes, LivesTold
<1> QED BY <1>2 DEF RegistryTypes, Reg!TypeOK

\* What the invariant says, in these words.
LEMMA Known ==
    ASSUME IInv
    PROVE  /\ RegistryTypes /\ Rest /\ proc \in [Key -> ProcState] /\ managed \subseteq Key
           /\ restarts \in [Node -> 0..MaxRestarts] /\ respawn \subseteq Key
           /\ \A k \in Key : /\ proc[k] \in Running => k \in managed
                             /\ k \in managed <=> Recorded(k)
BY RegistryTypeOK DEF IInv, TypeOK, Rest, NoOrphan, Recorded

\* A key's parts.
LEMMA KeyParts == \A k \in Key : k[1] \in Node /\ k[2] \in Nat /\ k[2] \in 1..(MaxRestarts + 2)
BY ManagerAssumption DEF Key, Incarnation

\* The parts make the invariant.
LEMMA Together ==
    ASSUME RegistryTypes', Rest', (proc \in [Key -> ProcState])', (managed \subseteq Key)',
           (restarts \in [Node -> 0..MaxRestarts])', (respawn \subseteq Key)',
           NoOrphan', Budgeted', RespawnsArePolls', NothingSurvivesTerminate'
    PROVE  IInv'
<1>1. Reg!TypeOK'
  <2>1. RegistryTypes' => Reg!TypeOK'
    BY RegistryTypeOK, PTL
  <2> QED BY <2>1
<1> QED BY <1>1 DEF IInv, TypeOK, Rest

\* A step that moves no process on or off the books.
LEMMA QuietKeeps ==
    ASSUME IInv, Moved, UNCHANGED <<managed, restarts>>, respawn' \in {respawn, {}}, Rest',
           (proc \in [Key -> ProcState])',
           \A k \in Key : proc'[k] \in Running => proc[k] \in Running,
           RespawnsArePolls', NothingSurvivesTerminate'
    PROVE  IInv'
<1>1. /\ RegistryTypes /\ managed \subseteq Key /\ restarts \in [Node -> 0..MaxRestarts]
      /\ respawn \subseteq Key
      /\ \A k \in Key : (proc[k] \in Running => k \in managed) /\ (k \in managed <=> Recorded(k))
  BY Known
<1>2. /\ RegistryTypes'
      /\ \A j \in Key : /\ Recorded(j)' <=> Recorded(j)
                        /\ nodes'[j].state # None <=> nodes[j].state # None
  BY <1>1, MovedKeeps
<1>3. NoOrphan'
  BY <1>1, <1>2 DEF NoOrphan, Recorded
<1>4. Budgeted'
  BY <1>1, <1>2 DEF IInv, Budgeted
<1> QED BY <1>1, <1>2, <1>3, <1>4, Together

\* A kill signals a process or is refused; it starts none.
LEMMA KillFacts ==
    ASSUME proc \in [Key -> ProcState], NEW k \in Key, NEW st \in AfterKill(k)
    PROVE  /\ st \in ProcState /\ st # "alive"
           /\ st \in Running => proc[k] \in Running
<1>1. CASE proc[k] \notin Untouched
  <2>1. st = proc[k]
    BY <1>1 DEF AfterKill
  <2> QED BY <1>1, <2>1 DEF ProcState, Untouched
<1>2. CASE proc[k] \in Untouched
  <2>1. st \in {"dying", "spared"}
    BY <1>2, ManagerAssumption DEF AfterKill
  <2> QED BY <1>2, <2>1 DEF ProcState, Untouched, Running
<1> QED BY <1>1, <1>2

\* ... nor does a kill of one process touch the others.
LEMMA SignalledFacts ==
    ASSUME proc \in [Key -> ProcState], NEW k \in Key, proc' \in Signalled(k)
    PROVE  /\ proc' \in [Key -> ProcState]
           /\ \A j \in Key : /\ proc'[j] \in Running => proc[j] \in Running
                             /\ proc'[j] = "alive" => proc[j] = "alive"
<1>1. PICK st \in AfterKill(k) : proc' = [proc EXCEPT ![k] = st]
  BY DEF Signalled
<1>2. st \in ProcState /\ st # "alive" /\ (st \in Running => proc[k] \in Running)
  BY KillFacts
<1> QED BY <1>1, <1>2

\* Processes, readers and the client's pauses.
LEMMA ProcessesKeep ==
    ASSUME IInv, NEW k \in Key,
           \/ Beats(k) \/ ReadBeat(k) \/ Crashes(k) \/ DiesOfKill(k)
           \/ \E s \in {"PAUSED", "READY"} : PauseOrResume(k, s)
    PROVE  IInv'
<1> USE Known
<1>1. Moved
  <2>1. CASE ReadBeat(k)
    <3>1. UNCHANGED registryVars \/ (Recorded(k) /\ MovesTo(k, "READY"))
      BY <2>1, HeartbeatMoves DEF ReadBeat
    <3> QED BY <3>1, StateFacts DEF Moved
  <2>2. ASSUME NEW s \in {"PAUSED", "READY"}, PauseOrResume(k, s) PROVE Moved
    <3>1. Reg!Transition(k, s) /\ (s = "PAUSED" => nodes[k].state \in RESUMABLE)
      BY <2>2 DEF PauseOrResume
    <3>2. s \in NodeState \ {"TERMINATED"}
      BY StateFacts
    <3>3. Recorded(k) /\ MovesTo(k, s)
      BY <3>1, <3>2, TransitionMoves
    <3> QED BY <3>2, <3>3 DEF Moved
  <2>3. CASE Beats(k) \/ Crashes(k) \/ DiesOfKill(k)
    BY <2>3 DEF Beats, Crashes, DiesOfKill, Dies, Moved
  <2> QED BY <2>1, <2>2, <2>3
<1>2. /\ UNCHANGED <<managed, restarts, respawn, managerKilled, stopping, phase, todo, failed>>
      /\ \/ pipe' = pipe \/ pipe' = [pipe EXCEPT ![k] = TRUE] \/ pipe' = [pipe EXCEPT ![k] = FALSE]
      /\ proc' = proc \/ proc' = [proc EXCEPT ![k] = "dead"]
  BY DEF Beats, ReadBeat, Crashes, DiesOfKill, Dies, PauseOrResume, pollVars
<1>3. Rest' /\ (proc \in [Key -> ProcState])'
  BY <1>2 DEF Rest, ProcState
<1>4. \A j \in Key : proc'[j] = proc[j] \/ proc'[j] = "dead"
  BY <1>2
<1>5. RespawnsArePolls' /\ NothingSurvivesTerminate'
  BY <1>2, <1>4 DEF IInv, RespawnsArePolls, NothingSurvivesTerminate
<1> QED BY <1>1, <1>2, <1>3, <1>4, <1>5, QuietKeeps DEF Running

\* The passes of poll() that take nothing off the books.
LEMMA LoopsKeep ==
    ASSUME IInv, \/ PollStarts \/ PollTurns
                 \/ \E k \in Key : PollDeadline(k) \/ PollReclaim(k) \/ RespawnRaises(k)
    PROVE  IInv'
<1> USE Known
<1>1. CASE PollStarts \/ PollTurns
  <2>1. /\ UNCHANGED <<registryVars, proc, pipe, managed, managerKilled, restarts, stopping,
                       respawn, failed>>
        /\ phase' \in Phase /\ todo' \subseteq Key
        /\ phase' = "idle" => respawn = {}
    BY <1>1 DEF PollStarts, PollTurns, Phase
  <2>2. Rest' /\ RespawnsArePolls' /\ NothingSurvivesTerminate'
    BY <2>1 DEF Rest, IInv, RespawnsArePolls, NothingSurvivesTerminate
  <2> QED BY <2>1, <2>2, QuietKeeps DEF Moved
<1>2. ASSUME NEW k \in Key, PollDeadline(k) PROVE IInv'
  <2>1. /\ UNCHANGED <<pipe, managed, restarts, stopping, phase, respawn, failed>>
        /\ todo' = todo \ {k}
        /\ proc' = proc \/ proc' \in Signalled(k)
        /\ managerKilled' = managerKilled \/ managerKilled' = [managerKilled EXCEPT ![k] = FALSE]
    BY <1>2 DEF PollDeadline
  <2>2. Moved
    <3>1. CASE Reg!Transition(k, "DISCONNECTED")
      <4>1. Recorded(k) /\ MovesTo(k, "DISCONNECTED")
        BY <3>1, TransitionMoves, StateFacts
      <4> QED BY <4>1, StateFacts DEF Moved
    <3> QED BY <1>2, <3>1 DEF PollDeadline, Moved
  <2>3. /\ (proc \in [Key -> ProcState])'
        /\ \A j \in Key : /\ proc'[j] \in Running => proc[j] \in Running
                          /\ proc'[j] = "alive" => proc[j] = "alive"
    BY <2>1, SignalledFacts
  <2>4. Rest' /\ RespawnsArePolls' /\ NothingSurvivesTerminate'
    BY <2>1, <2>3 DEF Rest, IInv, RespawnsArePolls, NothingSurvivesTerminate
  <2> QED BY <2>1, <2>2, <2>3, <2>4, QuietKeeps
<1>3. ASSUME NEW k \in Key, PollReclaim(k) PROVE IInv'
  <2>1. /\ UNCHANGED <<registryVars, pipe, managed, managerKilled, restarts, stopping, phase,
                       respawn, failed>>
        /\ todo' = todo \ {k}
        /\ proc' = proc \/ proc' \in Signalled(k)
    BY <1>3 DEF PollReclaim
  <2>2. /\ (proc \in [Key -> ProcState])'
        /\ \A j \in Key : /\ proc'[j] \in Running => proc[j] \in Running
                          /\ proc'[j] = "alive" => proc[j] = "alive"
    BY <2>1, SignalledFacts
  <2>3. Rest' /\ RespawnsArePolls' /\ NothingSurvivesTerminate'
    BY <2>1, <2>2 DEF Rest, IInv, RespawnsArePolls, NothingSurvivesTerminate
  <2> QED BY <2>1, <2>2, <2>3, QuietKeeps DEF Moved
<1>4. ASSUME NEW k \in Key, RespawnRaises(k) PROVE IInv'
  <2>1. /\ UNCHANGED <<registryVars, proc, pipe, managed, managerKilled, restarts, stopping, todo>>
        /\ respawn' = {} /\ phase' = "idle" /\ failed' = [failed EXCEPT ![k[1]] = @ + 1]
    BY <1>4 DEF RespawnRaises
  <2>2. failed' \in [Node -> Nat]
    <3>1. failed[k[1]] + 1 \in Nat
      BY KeyParts DEF Rest
    <3> QED BY <2>1, <3>1 DEF Rest
  <2>3. Rest' /\ RespawnsArePolls' /\ NothingSurvivesTerminate'
    BY <2>1, <2>2 DEF Rest, Phase, IInv, RespawnsArePolls, NothingSurvivesTerminate
  <2> QED BY <2>1, <2>3, QuietKeeps DEF Moved
<1> QED BY <1>1, <1>2, <1>3, <1>4

\* The kills, of one node and of all.
LEMMA KillsKeep ==
    ASSUME IInv, \/ \E n \in Node, e \in BOOLEAN : KillNode(n, e)
                 \/ TerminateAll
    PROVE  IInv'
<1> USE Known
<1>1. ASSUME NEW n \in Node, NEW e \in BOOLEAN, KillNode(n, e) PROVE IInv'
  <2>1. PICK i \in Incarnation :
            /\ managerKilled' = [managerKilled EXCEPT ![<<n, i>>] = e]
            /\ proc' \in Signalled(<<n, i>>)
            /\ UNCHANGED <<registryVars, pipe, managed, restarts, stopping, pollVars, failed>>
    BY <1>1 DEF KillNode
  <2>2. <<n, i>> \in Key
    BY DEF Key
  <2>3. /\ (proc \in [Key -> ProcState])'
        /\ \A j \in Key : /\ proc'[j] \in Running => proc[j] \in Running
                          /\ proc'[j] = "alive" => proc[j] = "alive"
    BY <2>1, <2>2, SignalledFacts
  <2>4. Rest' /\ RespawnsArePolls' /\ NothingSurvivesTerminate'
    BY <2>1, <2>3 DEF Rest, pollVars, IInv, RespawnsArePolls, NothingSurvivesTerminate
  <2> QED BY <2>1, <2>3, <2>4, QuietKeeps DEF Moved, pollVars
<1>2. CASE TerminateAll
  <2>1. /\ phase = "idle" /\ stopping' = TRUE
        /\ managerKilled' = [k \in Key |-> k \in managed \/ managerKilled[k]]
        /\ proc' \in [Key -> ProcState]
        /\ \A k \in Key : proc'[k] \in IF k \in managed THEN AfterKill(k) ELSE {proc[k]}
        /\ UNCHANGED <<registryVars, pipe, managed, restarts, pollVars, failed>>
    BY <1>2 DEF TerminateAll, MayCall
  <2>2. \A k \in Key : /\ proc'[k] \in Running => proc[k] \in Running
                       /\ proc'[k] # "alive"
    <3> SUFFICES ASSUME NEW k \in Key
                 PROVE  (proc'[k] \in Running => proc[k] \in Running) /\ proc'[k] # "alive"
      OBVIOUS
    <3>1. CASE k \in managed
      BY <2>1, <3>1, KillFacts
    <3>2. CASE k \notin managed
      BY <2>1, <3>2 DEF Running
    <3> QED BY <3>1, <3>2
  <2>3. managerKilled' \in [Key -> BOOLEAN]
    BY <2>1 DEF Rest
  <2>4. Rest' /\ RespawnsArePolls' /\ NothingSurvivesTerminate'
    BY <2>1, <2>2, <2>3 DEF Rest, pollVars, IInv, RespawnsArePolls, NothingSurvivesTerminate
  <2> QED BY <2>1, <2>2, <2>4, QuietKeeps DEF Moved, pollVars
<1> QED BY <1>1, <1>2

\* A spawn the budget has paid for, while the manager is not stopping.
LEMMA SpawnKeeps ==
    ASSUME IInv, NEW k \in Key, Spawn(k), ~stopping, k[2] <= restarts[k[1]] + 1,
           UNCHANGED <<pipe, restarts, stopping, phase, todo, failed>>,
           respawn' \subseteq respawn
    PROVE  IInv'
<1> USE Known
<1>1. /\ nodes[k].state = None /\ MovesTo(k, "SPAWNING")
      /\ proc' = [proc EXCEPT ![k] = "alive"] /\ managed' = managed \cup {k}
      /\ managerKilled' = [managerKilled EXCEPT ![k] = FALSE]
  BY RegisterMoves DEF Spawn
<1>2. /\ RegistryTypes' /\ nodes'[k].state = "SPAWNING"
      /\ \A j \in Key \ {k} : nodes'[j] = nodes[j]
  BY <1>1 DEF MovesTo
<1>3. (proc \in [Key -> ProcState])' /\ Rest' /\ (managed \subseteq Key)'
  BY <1>1 DEF Rest, ProcState
<1>4. NoOrphan'
  <2>1. ASSUME NEW j \in Key
        PROVE  /\ proc'[j] \in Running => j \in managed'
               /\ j \in managed' <=> nodes'[j].state \notin {None, "TERMINATED"}
    <3>1. CASE j = k
      BY <1>1, <1>2, <3>1 DEF None
    <3>2. CASE j # k
      BY <1>1, <1>2, <3>2 DEF Recorded
    <3> QED BY <3>1, <3>2
  <2> QED BY <2>1 DEF NoOrphan
<1>5. Budgeted'
  BY <1>1, <1>2 DEF IInv, Budgeted
<1>6. RespawnsArePolls' /\ NothingSurvivesTerminate'
  BY DEF IInv, RespawnsArePolls, NothingSurvivesTerminate
<1> QED BY <1>2, <1>3, <1>4, <1>5, <1>6, Together

\* The first spawn of a node, and the respawn of a crashed one.
LEMMA SpawnsKeep ==
    ASSUME IInv, \/ \E n \in Node : FirstSpawn(n)
                 \/ \E k \in Key : Respawn(k)
    PROVE  IInv'
<1> USE Known
<1>1. ASSUME NEW n \in Node, FirstSpawn(n) PROVE IInv'
  <2>1. <<n, 1>> \in Key /\ 1 <= restarts[n] + 1
    BY ManagerAssumption DEF Key, Incarnation
  <2> QED BY <1>1, <2>1, SpawnKeeps DEF FirstSpawn, pollVars
<1>2. ASSUME NEW k \in Key, Respawn(k) PROVE IInv'
  <2>1. k[1] \in Node /\ k[2] \in Nat /\ restarts[k[1]] \in 0..MaxRestarts
    BY KeyParts
  <2>2. k[2] <= restarts[k[1]] /\ ~stopping
    BY <1>2 DEF Respawn, IInv, Budgeted, RespawnsArePolls
  <2>3. /\ NextIncarnation(k) \in Key /\ NextIncarnation(k)[1] = k[1]
        /\ NextIncarnation(k)[2] = k[2] + 1
    BY <2>1, <2>2, ManagerAssumption DEF NextIncarnation, Key, Incarnation
  <2>4. NextIncarnation(k)[2] <= restarts[NextIncarnation(k)[1]] + 1
    BY <2>1, <2>2, <2>3
  <2> QED BY <1>2, <2>2, <2>3, <2>4, SpawnKeeps DEF Respawn
<1> QED BY <1>1, <1>2

\* An exited process is taken off the books, and its restart reserved.
LEMMA ExitKeeps ==
    ASSUME IInv, NEW k \in Key, PollExit(k)
    PROVE  IInv'
<1> USE Known
<1>1. /\ UNCHANGED <<proc, pipe, managerKilled, stopping, phase, failed>> /\ todo' = todo \ {k}
      /\ phase = "exits"
  BY DEF PollExit
<1>2. Rest' /\ NothingSurvivesTerminate'
  BY <1>1 DEF Rest, IInv, NothingSurvivesTerminate
<1>3. CASE proc[k] = "dead"
  <2>1. /\ managed' = managed \ {k} /\ Reg!RecordExit(k)
        /\ \/ UNCHANGED <<restarts, respawn>>
           \/ /\ Reserves(k) /\ restarts' = [restarts EXCEPT ![k[1]] = @ + 1]
              /\ respawn' = respawn \cup {k}
    BY <1>3 DEF PollExit
  <2>2. /\ nodes[k].state # None /\ RegistryTypes' /\ nodes'[k].state = "TERMINATED"
        /\ \A j \in Key \ {k} : nodes'[j] = nodes[j]
    BY <2>1, ExitMoves DEF MovesTo
  <2>3. NoOrphan'
    <3>1. ASSUME NEW j \in Key
          PROVE  /\ proc'[j] \in Running => j \in managed'
                 /\ j \in managed' <=> nodes'[j].state \notin {None, "TERMINATED"}
      <4>1. CASE j = k
        BY <1>1, <1>3, <2>1, <2>2, <4>1 DEF Running
      <4>2. CASE j # k
        BY <1>1, <2>1, <2>2, <4>2 DEF Recorded
      <4> QED BY <4>1, <4>2
    <3> QED BY <3>1 DEF NoOrphan
  <2>4. CASE UNCHANGED <<restarts, respawn>>
    <3>1. Budgeted' /\ RespawnsArePolls'
      BY <1>1, <2>2, <2>4 DEF IInv, Budgeted, RespawnsArePolls
    <3> QED BY <1>1, <1>2, <2>1, <2>2, <2>3, <2>4, <3>1, Together
  <2>5. CASE /\ Reserves(k) /\ restarts' = [restarts EXCEPT ![k[1]] = @ + 1]
             /\ respawn' = respawn \cup {k}
    <3>1. k[1] \in Node /\ restarts[k[1]] \in 0..MaxRestarts /\ restarts[k[1]] < MaxRestarts
          /\ ~stopping
      BY <2>5, KeyParts DEF Reserves
    <3>2. restarts' \in [Node -> 0..MaxRestarts]
      BY <2>5, <3>1, ManagerAssumption
    <3>3. \A n \in Node : restarts[n] <= restarts'[n] /\ restarts'[k[1]] = restarts[k[1]] + 1
      BY <2>5, <3>1
    <3>4. k[2] <= restarts[k[1]] + 1
      BY <2>2 DEF IInv, Budgeted
    <3>5. Budgeted'
      <4>1. \A j \in Key : nodes'[j].state # None => nodes[j].state # None
        BY <2>2
      <4>2. ASSUME NEW j \in Key, nodes'[j].state # None PROVE j[2] <= restarts'[j[1]] + 1
        <5>1. j[2] <= restarts[j[1]] + 1 /\ j[1] \in Node /\ j[2] \in Nat
          BY <4>1, <4>2, KeyParts DEF IInv, Budgeted
        <5>2. restarts[j[1]] \in Nat /\ restarts'[j[1]] \in Nat /\ restarts[j[1]] <= restarts'[j[1]]
          BY <3>2, <3>3, <5>1
        <5> QED BY <5>1, <5>2
      <4>3. ASSUME NEW j \in respawn PROVE j[2] <= restarts'[j[1]]
        <5>1. j[2] <= restarts[j[1]] /\ j[1] \in Node /\ j[2] \in Nat
          BY KeyParts DEF IInv, Budgeted
        <5>2. restarts[j[1]] \in Nat /\ restarts'[j[1]] \in Nat /\ restarts[j[1]] <= restarts'[j[1]]
          BY <3>2, <3>3, <5>1
        <5> QED BY <5>1, <5>2
      <4>4. k[2] <= restarts'[k[1]]
        BY <3>1, <3>3, <3>4
      <4> QED BY <2>5, <4>2, <4>3, <4>4 DEF Budgeted
    <3>6. RespawnsArePolls'
      BY <1>1, <3>1 DEF RespawnsArePolls
    <3> QED BY <1>1, <1>2, <2>1, <2>2, <2>3, <2>5, <3>2, <3>5, <3>6, Together
  <2> QED BY <2>1, <2>4, <2>5
<1>4. CASE proc[k] # "dead"
  <2>1. UNCHANGED <<registryVars, managed, restarts, respawn>>
    BY <1>4 DEF PollExit
  <2>2. RespawnsArePolls'
    BY <1>1, <2>1 DEF IInv, RespawnsArePolls
  <2> QED BY <1>1, <1>2, <2>1, <2>2, QuietKeeps DEF Moved
<1> QED BY <1>3, <1>4

\* The inductive step.
LEMMA StepKeeps == ASSUME IInv, [Next]_vars PROVE IInv'
<1>1. CASE UNCHANGED vars
  <2>1. UNCHANGED <<registryVars, proc, pipe, managed, managerKilled, restarts, stopping, phase,
                    todo, respawn, failed>>
    BY <1>1 DEF vars, registryVars
  <2>2. Rest' /\ RespawnsArePolls' /\ NothingSurvivesTerminate' /\ (proc \in [Key -> ProcState])'
    BY <2>1, Known DEF Rest, IInv, RespawnsArePolls, NothingSurvivesTerminate
  <2> QED BY <2>1, <2>2, QuietKeeps DEF Moved
<1>2. CASE Poll
  BY <1>2, LoopsKeep, SpawnsKeep, ExitKeeps DEF Poll
<1>3. CASE Next
  BY <1>2, <1>3, ProcessesKeep, KillsKeep, SpawnsKeep DEF Next
<1> QED BY <1>1, <1>3

\* Nothing runs and nothing is recorded.
LEMMA InitHolds == Init => IInv
<1> SUFFICES ASSUME Init PROVE IInv
  OBVIOUS
<1>1. \A k \in Key : nodes[k].state = None
  BY SameTable DEF Init, Reg!Init, Reg!Absent
<1>2. RegistryTypes
  <2>1. Reg!Absent \in Reg!Records
    BY DEF Reg!Absent, Reg!Records
  <2>2. Reg!NoRows \in Reg!Rows
    BY DEF Reg!NoRows, Reg!Rows
  <2> QED BY <2>1, <2>2 DEF Init, Reg!Init, RegistryTypes
<1>3. /\ proc = [k \in Key |-> "none"] /\ pipe = [k \in Key |-> FALSE] /\ managed = {}
      /\ managerKilled = [k \in Key |-> FALSE] /\ restarts = [n \in Node |-> 0] /\ stopping = FALSE
      /\ phase = "idle" /\ todo = {} /\ respawn = {} /\ failed = [n \in Node |-> 0]
  BY DEF Init
<1>4. TypeOK
  <2>1. restarts \in [Node -> 0..MaxRestarts] /\ failed \in [Node -> Nat]
    BY <1>3, ManagerAssumption
  <2>2. proc \in [Key -> ProcState] /\ phase \in Phase
    BY <1>3 DEF ProcState, Phase
  <2>3. pipe \in [Key -> BOOLEAN] /\ managerKilled \in [Key -> BOOLEAN] /\ stopping \in BOOLEAN
    BY <1>3
  <2> QED BY <1>2, <1>3, <2>1, <2>2, <2>3, RegistryTypeOK DEF TypeOK
<1>5. NoOrphan /\ Budgeted /\ RespawnsArePolls /\ NothingSurvivesTerminate
  BY <1>1, <1>3 DEF NoOrphan, Running, Budgeted, RespawnsArePolls, NothingSurvivesTerminate
<1> QED BY <1>4, <1>5 DEF IInv

\* The invariant in every state of every behaviour.
LEMMA Inductive == Spec => []IInv
<1>1. IInv /\ [Next]_vars => IInv'
  BY StepKeeps
<1> QED BY InitHolds, <1>1, PTL DEF Spec

\* The manager's tables, processes and poll keep their types; in particular no
\* restart count passes the policy's, and no incarnation the budget.
THEOREM TypeCorrect == Spec => []TypeOK
<1>1. IInv => TypeOK
  BY DEF IInv
<1> QED BY Inductive, <1>1, PTL

\* Every running process is managed, and managed is what the registry records.
THEOREM NoProcessEscapes == Spec => []NoOrphan
<1>1. IInv => NoOrphan
  BY DEF IInv
<1> QED BY Inductive, <1>1, PTL

\* After terminate_all whatever runs unsignalled has its failed kill on record.
THEOREM TerminateReachesAll == Spec => []NothingSurvivesTerminate
<1>1. IInv => NothingSurvivesTerminate
  BY DEF IInv
<1> QED BY Inductive, <1>1, PTL

-----------------------------------------------------------------------------
(* The manager is a client of the registry: every step of it is one of the  *)
(* registry's, so what is proved of the registry under any client holds of  *)
(* the manager's nodes and of their log.                                    *)

\* A record not in the view has no spawn row yet, an exit row is that of an
\* ended record, and the loop over exits has only managed keys to visit.
LogKeeps ==
    /\ \A k \in Key : /\ nodes[k].state = None => log[k] = Reg!NoRows
                      /\ Reg!HasRow(k, "exit") => nodes[k].state = "TERMINATED"
    /\ phase = "exits" => todo \subseteq managed

\* What a step of the registry does to the rows of record k.
RowsMove(k) ==
    /\ \A j \in Key \ {k} : nodes'[j] = nodes[j] /\ log'[j] = log[j]
    /\ nodes'[k].state # None
    /\ Reg!HasRow(k, "exit")' => nodes'[k].state = "TERMINATED"
RowsKeep == UNCHANGED registryVars \/ \E k \in Key : RowsMove(k)

\* A transition keeps the exits of a record that is not ended.
LEMMA TransitionRows ==
    ASSUME RegistryTypes, LogKeeps, NEW k \in Key, NEW s \in NodeState, Reg!Transition(k, s)
    PROVE  RowsMove(k)
<1> USE SameTable
<1>1. /\ nodes[k].state # None /\ s \in LEGAL[nodes[k].state]
      /\ log' = [log EXCEPT ![k] = Reg!AppendTransition(k, s)]
      /\ nodes' = [nodes EXCEPT ![k] =
            [state |-> s,
             paused_from |-> IF nodes[k].state = "PAUSED" THEN None ELSE Reg!PausedFrom(k, s)]]
  BY DEF Reg!Transition, Reg!InView, Reg!Admits
<1>2. nodes[k].state # "TERMINATED"
  BY <1>1, StateFacts
<1>3. "exit" \notin log[k].kinds
  BY <1>2 DEF LogKeeps, Reg!HasRow
<1>4. "exit" \notin Reg!AppendTransition(k, s).kinds
  BY <1>3 DEF RegistryTypes, Reg!Rows, Reg!AppendTransition
<1>5. nodes'[k].state = s /\ ~Reg!HasRow(k, "exit")'
  BY <1>1, <1>4 DEF RegistryTypes, Reg!HasRow
<1>6. \A j \in Key \ {k} : nodes'[j] = nodes[j] /\ log'[j] = log[j]
  BY <1>1 DEF RegistryTypes
<1> QED BY <1>5, <1>6, StateFacts DEF RowsMove

\* A step that is a transition, a registration of a key with no row, or the
\* exit of a record that is not ended, keeps the rows in order.
LEMMA RegisterRows ==
    ASSUME RegistryTypes, LogKeeps, NEW k \in Key, Reg!Register(k)
    PROVE  ~Reg!HasRow(k, "spawn") /\ RowsMove(k)
<1> USE SameTable
<1>1. /\ nodes[k].state = None
      /\ log' = [log EXCEPT ![k] = Reg!SpawnRow(k)]
      /\ nodes' = [nodes EXCEPT ![k] = [state |-> "SPAWNING", paused_from |-> None]]
  BY DEF Reg!Register, Reg!InView
<1>2. log[k].kinds = {}
  BY <1>1 DEF LogKeeps, Reg!NoRows
<1>3. "exit" \notin Reg!SpawnRow(k).kinds
  BY <1>2 DEF RegistryTypes, Reg!Rows, Reg!SpawnRow
<1>4. nodes'[k].state = "SPAWNING" /\ ~Reg!HasRow(k, "exit")'
  BY <1>1, <1>3 DEF RegistryTypes, Reg!HasRow
<1>5. \A j \in Key \ {k} : nodes'[j] = nodes[j] /\ log'[j] = log[j]
  BY <1>1 DEF RegistryTypes
<1> QED BY <1>2, <1>4, <1>5, StateFacts DEF RowsMove, Reg!HasRow

LEMMA ExitRows ==
    ASSUME RegistryTypes, NEW k \in Key, Reg!RecordExit(k)
    PROVE  RowsMove(k)
<1>1. nodes'[k].state = "TERMINATED" /\ \A j \in Key \ {k} : nodes'[j] = nodes[j]
  BY ExitMoves DEF MovesTo
<1>2. log' = [log EXCEPT ![k] = Reg!ExitRows(k)]
  BY DEF Reg!RecordExit
<1>3. \A j \in Key \ {k} : log'[j] = log[j]
  BY <1>2 DEF RegistryTypes
<1> QED BY <1>1, <1>3, StateFacts DEF RowsMove

\* The order of the rows, kept by a step that keeps the poll's snapshot in order.
LEMMA RowsKeepLog ==
    ASSUME LogKeeps, RowsKeep, phase' = "exits" => todo' \subseteq managed'
    PROVE  LogKeeps'
<1>1. CASE UNCHANGED registryVars
  BY <1>1 DEF LogKeeps, registryVars, Reg!HasRow
<1>2. ASSUME NEW k \in Key, RowsMove(k) PROVE LogKeeps'
  BY <1>2 DEF LogKeeps, RowsMove, Reg!HasRow
<1> QED BY <1>1, <1>2 DEF RowsKeep

\* With nobody to hand records in, a call of the registry is a step of it.
LEMMA ServedIsAStep ==
    /\ Reg!Served => Reg!Next
    /\ UNCHANGED <<nodes, log>> => UNCHANGED Reg!allVars
<1>1. Reg!Overtakes
  BY DEF Reg!Overtakes, Reg!LifeOf, LivesTold, None, Reg!None
<1> QED BY <1>1 DEF Reg!Next, Reg!allVars, LivesTold

\* Every step of the manager is a step of the registry, and keeps the rows.
LEMMA StepsOfTheRegistry ==
    ASSUME IInv, LogKeeps, [Next]_vars
    PROVE  [Reg!Next]_(Reg!allVars) /\ RowsKeep /\ (phase' = "exits" => todo' \subseteq managed')
<1> USE Known, SameTable
<1> DEFINE Good == /\ [Reg!Next]_(Reg!allVars) /\ RowsKeep
                   /\ phase' = "exits" => todo' \subseteq managed'
<1>q. ASSUME UNCHANGED <<nodes, log>>, phase' = "exits" => todo' \subseteq managed' PROVE Good
  BY <1>q, ServedIsAStep DEF RowsKeep, registryVars
<1>s. ASSUME NEW k \in Key, Reg!Register(k), phase \in {"idle", "backoff"}, phase' = phase
      PROVE  Good
  <2>1. ~Reg!HasRow(k, "spawn") /\ RowsMove(k)
    BY <1>s, RegisterRows
  <2>2. Reg!Served
    BY <1>s, <2>1 DEF Reg!Served
  <2> QED BY <1>s, <2>1, <2>2, ServedIsAStep DEF RowsKeep
<1>t. ASSUME NEW k \in Key, NEW s \in NodeState, Reg!Transition(k, s),
             phase' = "exits" => todo' \subseteq managed'
      PROVE  Good
  <2>1. Reg!Served
    BY <1>t DEF Reg!Served
  <2> QED BY <1>t, <2>1, TransitionRows, ServedIsAStep DEF RowsKeep
<1>1. ASSUME NEW n \in Node, FirstSpawn(n) PROVE Good
  <2>1. <<n, 1>> \in Key
    BY ManagerAssumption DEF Key, Incarnation
  <2>2. Reg!Register(<<n, 1>>) /\ phase = "idle" /\ phase' = phase
    BY <1>1 DEF FirstSpawn, MayCall, Spawn, pollVars
  <2> QED BY <1>s, <2>1, <2>2
<1>2. ASSUME NEW k \in Key, Respawn(k) PROVE Good
  <2>1. Reg!Register(NextIncarnation(k)) /\ phase = "backoff" /\ phase' = phase /\ k \in respawn
    BY <1>2 DEF Respawn, Spawn
  <2>2. NextIncarnation(k) \in Key
    <3>1. k[2] <= restarts[k[1]] /\ restarts[k[1]] \in 0..MaxRestarts
      BY <2>1, KeyParts DEF IInv, Budgeted
    <3> QED BY <3>1, KeyParts, ManagerAssumption DEF NextIncarnation, Key, Incarnation
  <2> QED BY <1>s, <2>1, <2>2
<1>3. ASSUME NEW k \in Key, ReadBeat(k) PROVE Good
  <2>1. Reg!Heartbeat(k) /\ UNCHANGED <<managed, pollVars>>
    BY <1>3 DEF ReadBeat
  <2>2. phase' = "exits" => todo' \subseteq managed'
    BY <2>1 DEF pollVars, LogKeeps
  <2>3. Reg!Transition(k, "READY") \/ UNCHANGED <<nodes, log>>
    BY <2>1 DEF Reg!Heartbeat, Reg!registryVars
  <2> QED BY <1>q, <1>t, <2>2, <2>3, StateFacts
<1>4. ASSUME NEW k \in Key, NEW s \in {"PAUSED", "READY"}, PauseOrResume(k, s) PROVE Good
  <2>1. Reg!Transition(k, s) /\ UNCHANGED <<managed, pollVars>>
    BY <1>4 DEF PauseOrResume
  <2>2. phase' = "exits" => todo' \subseteq managed'
    BY <2>1 DEF pollVars, LogKeeps
  <2> QED BY <1>t, <2>1, <2>2, StateFacts
<1>5. ASSUME NEW k \in Key, PollDeadline(k) PROVE Good
  <2>1. phase' # "exits" /\ (UNCHANGED <<nodes, log>> \/ Reg!Transition(k, "DISCONNECTED"))
    BY <1>5 DEF PollDeadline, registryVars
  <2> QED BY <1>q, <1>t, <2>1, StateFacts
<1>6. ASSUME NEW k \in Key, PollExit(k) PROVE Good
  <2>1. k \in todo /\ k \in managed /\ todo' = todo \ {k} /\ todo \subseteq managed
    BY <1>6 DEF PollExit, LogKeeps
  <2>2. CASE proc[k] = "dead"
    <3>1. Reg!RecordExit(k) /\ managed' = managed \ {k}
      BY <1>6, <2>2 DEF PollExit
    <3>3. RowsMove(k)
      BY <3>1, ExitRows
    <3>4. Reg!Served
      BY <3>1 DEF Reg!Served
    <3>5. todo' \subseteq managed'
      BY <2>1, <3>1
    <3> QED BY <3>3, <3>4, <3>5, ServedIsAStep DEF RowsKeep
  <2>3. CASE proc[k] # "dead"
    <3>1. UNCHANGED <<nodes, log, managed>>
      BY <1>6, <2>3 DEF PollExit, registryVars
    <3> QED BY <1>q, <2>1, <3>1
  <2> QED BY <2>2, <2>3
<1>7. ASSUME PollStarts \/ PollTurns PROVE Good
  <2>1. UNCHANGED <<nodes, log>> /\ (phase' = "exits" => todo' = managed /\ managed' = managed)
    BY <1>7 DEF PollStarts, PollTurns, registryVars
  <2> QED BY <1>q, <2>1
<1>8. ASSUME NEW k \in Key, PollReclaim(k) \/ RespawnRaises(k) PROVE Good
  BY <1>8, <1>q DEF PollReclaim, RespawnRaises, registryVars
<1>9. ASSUME NEW n \in Node, NEW e \in BOOLEAN, KillNode(n, e) PROVE Good
  <2>1. UNCHANGED <<nodes, log, managed, phase, todo>>
    BY <1>9 DEF KillNode, registryVars, pollVars
  <2> QED BY <1>q, <2>1 DEF LogKeeps
<1>10. ASSUME NEW k \in Key, Beats(k) \/ Crashes(k) \/ DiesOfKill(k) PROVE Good
  <2>1. UNCHANGED <<nodes, log, managed, phase, todo>>
    BY <1>10 DEF Beats, Crashes, DiesOfKill, Dies, registryVars, pollVars
  <2> QED BY <1>q, <2>1 DEF LogKeeps
<1>11. ASSUME TerminateAll \/ UNCHANGED vars PROVE Good
  <2>1. UNCHANGED <<nodes, log, managed, phase, todo>>
    BY <1>11 DEF TerminateAll, registryVars, pollVars, vars
  <2> QED BY <1>q, <2>1 DEF LogKeeps
<1> HIDE DEF Good
<1>12. Good
  BY <1>1, <1>2, <1>3, <1>4, <1>5, <1>6, <1>7, <1>8, <1>9, <1>10, <1>11 DEF Next, Poll
<1> QED BY <1>12 DEF Good

\* The order of the rows, in every state.
LEMMA LogAlways == Spec => []LogKeeps
<1>1. Init => LogKeeps
  <2> SUFFICES ASSUME Init PROVE LogKeeps
    OBVIOUS
  <2>1. \A k \in Key : nodes[k] = Reg!Absent /\ log[k] = Reg!NoRows
    BY DEF Init, Reg!Init
  <2>2. Reg!Absent.state = None /\ "exit" \notin Reg!NoRows.kinds
    BY SameTable DEF Reg!Absent, Reg!NoRows
  <2> QED BY <2>1, <2>2 DEF Init, LogKeeps, Reg!HasRow
<1>2. IInv /\ LogKeeps /\ [Next]_vars => LogKeeps'
  BY StepsOfTheRegistry, RowsKeepLog
<1> QED BY <1>1, <1>2, Inductive, PTL DEF Spec

\* The manager with its processes, polls, kills and respawns is a process the
\* registry serves: it registers an incarnation only when the log has no spawn row
\* of it, and hands in no record it read before.
THEOREM ManagerRunsTheRegistry == Spec => Reg!Spec
<1>1. Init => Reg!Init
  BY DEF Init
<1>2. IInv /\ LogKeeps /\ [Next]_vars => [Reg!Next]_(Reg!allVars)
  BY StepsOfTheRegistry
<1> QED BY <1>1, <1>2, Inductive, LogAlways, PTL DEF Spec, Reg!Spec

-----------------------------------------------------------------------------
(* One process per node: a respawn may not meet the process it replaces,     *)
(* nor the first spawn an incarnation that is still there.                   *)

\* A node has at most one incarnation that is managed or waits to be followed,
\* and once it has any, its first one is in the view.
OnePlace ==
    /\ \A j, k \in managed \cup respawn : j[1] = k[1] => j = k
    /\ managed \cap respawn = {}
    /\ \A k \in respawn : nodes[k].state # None
    /\ \A k \in Key : nodes[k].state # None => nodes[<<k[1], 1>>].state # None

\* No node ever has two running processes, however crashes, kills, overdue beats
\* and respawns meet: an incarnation runs only after the one before it is gone.
OneProcessPerNode ==
    \A j, k \in Key : proc[j] \in Running /\ proc[k] \in Running /\ j[1] = k[1] => j = k

LEMMA OnePlaceKeeps ==
    ASSUME IInv, OnePlace, LogKeeps, [Next]_vars
    PROVE  OnePlace'
<1> USE Known
<1>1. RowsKeep
  BY StepsOfTheRegistry
<1>2. \A k \in Key : nodes[k].state # None => nodes'[k].state # None
  BY <1>1 DEF RowsKeep, RowsMove, registryVars
<1>f. \A k \in Key : <<k[1], 1>> \in Key
  BY KeyParts, ManagerAssumption DEF Key, Incarnation
<1>q. ASSUME managed' = managed, respawn' \in {respawn, {}},
             \A k \in Key : nodes'[k].state # None => nodes[k].state # None
      PROVE  OnePlace'
  BY <1>q, <1>2, <1>f DEF OnePlace
<1>r. ASSUME managed' = managed, respawn' \in {respawn, {}},
             Moved
      PROVE  OnePlace'
  BY <1>q, <1>r, MovedKeeps
<1>s. ASSUME NEW k \in Key, Spawn(k),
             \A j \in managed \cup respawn' : j[1] # k[1],
             respawn' \subseteq respawn,
             k[2] = 1 \/ nodes[<<k[1], 1>>].state # None
      PROVE  OnePlace'
  <2>1. /\ managed' = managed \cup {k} /\ nodes'[k].state # None
        /\ \A j \in Key \ {k} : nodes'[j] = nodes[j]
    BY <1>s, RegisterMoves, StateFacts DEF Spawn, MovesTo
  <2>2. \A j \in Key : nodes'[j].state # None => nodes'[<<j[1], 1>>].state # None
    <3> SUFFICES ASSUME NEW j \in Key, nodes'[j].state # None
                 PROVE  nodes'[<<j[1], 1>>].state # None
      OBVIOUS
    <3>1. CASE j = k
      <4>1. k[2] = 1 => <<k[1], 1>> = k
        BY DEF Key
      <4> QED BY <1>2, <1>f, <1>s, <2>1, <3>1, <4>1
    <3>2. CASE j # k
      BY <1>2, <1>f, <2>1, <3>2 DEF OnePlace
    <3> QED BY <3>1, <3>2
  <2>3. \A i, j \in managed' \cup respawn' : i[1] = j[1] => i = j
    BY <1>s, <2>1 DEF OnePlace
  <2>4. managed' \cap respawn' = {}
    BY <1>s, <2>1 DEF OnePlace
  <2>5. \A j \in respawn' : nodes'[j].state # None
    BY <1>2, <1>s DEF OnePlace
  <2> QED BY <2>2, <2>3, <2>4, <2>5 DEF OnePlace
<1>3. ASSUME NEW n \in Node, FirstSpawn(n) PROVE OnePlace'
  <2>1. <<n, 1>> \in Key /\ <<n, 1>>[1] = n /\ <<n, 1>>[2] = 1
    BY ManagerAssumption DEF Key, Incarnation
  <2>2. Spawn(<<n, 1>>) /\ respawn' = respawn
    BY <1>3 DEF FirstSpawn, pollVars
  <2>3. nodes[<<n, 1>>].state = None
    BY <2>1, <2>2, RegisterMoves DEF Spawn
  <2>4. \A j \in managed \cup respawn : nodes[j].state # None
    BY DEF OnePlace, Recorded
  <2>5. \A j \in managed \cup respawn : j[1] # n
    BY <2>3, <2>4 DEF OnePlace
  <2> QED BY <1>s, <2>1, <2>2, <2>5
<1>4. ASSUME NEW k \in Key, Respawn(k) PROVE OnePlace'
  <2>1. Spawn(NextIncarnation(k)) /\ k \in respawn /\ respawn' = respawn \ {k}
    BY <1>4 DEF Respawn
  <2>2. /\ NextIncarnation(k) \in Key /\ NextIncarnation(k)[1] = k[1]
    <3>1. k[2] <= restarts[k[1]] /\ restarts[k[1]] \in 0..MaxRestarts
      BY <2>1, KeyParts DEF IInv, Budgeted
    <3> QED BY <3>1, KeyParts, ManagerAssumption DEF NextIncarnation, Key, Incarnation
  <2>3. \A j \in managed \cup respawn' : j[1] # k[1]
    BY <2>1 DEF OnePlace
  <2>4. nodes[<<k[1], 1>>].state # None
    BY <2>1 DEF OnePlace
  <2> QED BY <1>s, <2>1, <2>2, <2>3, <2>4
<1>5. ASSUME NEW k \in Key, PollExit(k) PROVE OnePlace'
  <2>1. CASE proc[k] = "dead"
    <3>1. /\ k \in managed /\ managed' = managed \ {k} /\ Reg!RecordExit(k)
          /\ respawn' \in {respawn, respawn \cup {k}}
      BY <1>5, <2>1 DEF PollExit, LogKeeps
    <3>2. /\ nodes[k].state # None /\ \A j \in Key \ {k} : nodes'[j] = nodes[j]
      BY <3>1, ExitMoves DEF MovesTo
    <3>3. \A i, j \in managed' \cup respawn' : i[1] = j[1] => i = j
      BY <3>1 DEF OnePlace
    <3>4. managed' \cap respawn' = {}
      BY <3>1 DEF OnePlace
    <3>5. \A j \in respawn' : nodes'[j].state # None
      BY <1>2, <3>1, <3>2 DEF OnePlace
    <3>6. \A j \in Key : nodes'[j].state # None => nodes'[<<j[1], 1>>].state # None
      BY <1>2, <1>f, <3>2 DEF OnePlace
    <3> QED BY <3>3, <3>4, <3>5, <3>6 DEF OnePlace
  <2>2. CASE proc[k] # "dead"
    BY <1>5, <1>r, <2>2 DEF PollExit, Moved
  <2> QED BY <2>1, <2>2
<1>6. ASSUME NEW k \in Key, ReadBeat(k) PROVE OnePlace'
  <2>1. UNCHANGED registryVars \/ (Recorded(k) /\ MovesTo(k, "READY"))
    BY <1>6, HeartbeatMoves DEF ReadBeat
  <2>2. Moved
    BY <2>1, StateFacts DEF Moved
  <2> QED BY <1>6, <1>r, <2>2 DEF ReadBeat, pollVars
<1>7. ASSUME NEW k \in Key, NEW s \in {"PAUSED", "READY"}, PauseOrResume(k, s) PROVE OnePlace'
  <2>1. Reg!Transition(k, s) /\ (s = "PAUSED" => nodes[k].state \in RESUMABLE)
    BY <1>7 DEF PauseOrResume
  <2>2. s \in NodeState \ {"TERMINATED"}
    BY StateFacts
  <2>3. Moved
    BY <2>1, <2>2, TransitionMoves DEF Moved
  <2> QED BY <1>7, <1>r, <2>3 DEF PauseOrResume, pollVars
<1>8. ASSUME NEW k \in Key, PollDeadline(k) PROVE OnePlace'
  <2>1. CASE Reg!Transition(k, "DISCONNECTED")
    <3>1. Moved
      BY <2>1, TransitionMoves, StateFacts DEF Moved
    <3> QED BY <1>8, <1>r, <3>1 DEF PollDeadline
  <2> QED BY <1>8, <1>r, <2>1 DEF PollDeadline, Moved
<1>9. ASSUME UNCHANGED <<registryVars, managed>>, respawn' \in {respawn, {}} PROVE OnePlace'
  BY <1>9, <1>r DEF Moved
<1>10. ASSUME \/ PollStarts \/ PollTurns \/ TerminateAll \/ UNCHANGED vars
              \/ \E k \in Key : \/ PollReclaim(k) \/ RespawnRaises(k) \/ Beats(k)
                                \/ Crashes(k) \/ DiesOfKill(k)
              \/ \E n \in Node, e \in BOOLEAN : KillNode(n, e)
       PROVE  UNCHANGED <<registryVars, managed>> /\ respawn' \in {respawn, {}}
  BY <1>10 DEF PollStarts, PollTurns, TerminateAll, vars, registryVars, pollVars, PollReclaim,
               RespawnRaises, Beats, Crashes, DiesOfKill, Dies, KillNode
<1> QED BY <1>3, <1>4, <1>5, <1>6, <1>7, <1>8, <1>9, <1>10 DEF Next, Poll

\* No node ever has two running processes, for any nodes and restart budget.
THEOREM NodesRunOnce == Spec => []OneProcessPerNode
<1>1. Init => OnePlace
  <2> SUFFICES ASSUME Init PROVE OnePlace
    OBVIOUS
  <2>1. \A k \in Key : nodes[k].state = None
    BY SameTable DEF Init, Reg!Init, Reg!Absent
  <2> QED BY <2>1 DEF Init, OnePlace
<1>2. IInv /\ LogKeeps /\ OnePlace /\ [Next]_vars => OnePlace'
  BY OnePlaceKeeps
<1>3. IInv /\ OnePlace => OneProcessPerNode
  BY Known DEF OnePlace, OneProcessPerNode
<1> QED BY <1>1, <1>2, <1>3, Inductive, LogAlways, PTL DEF Spec

----------------------------------------------------------------------------
(* What NodeRegistryProofs proves of the registry holds of the manager's.  *)

Registry == INSTANCE NodeRegistryProofs WITH
                Client <- {}, read <- [c \in {} |-> [key |-> None, state |-> None]],
                late <- {}, astray <- {}, torn <- {}, sound <- LivesTold

LEMMA SameRegistryTable ==
    /\ Registry!NodeState = Reg!NodeState /\ Registry!None = Reg!None
    /\ Registry!RESUMABLE = Reg!RESUMABLE /\ Registry!LEGAL = Reg!LEGAL
    /\ Registry!Absent = Reg!Absent /\ Registry!NoRows = Reg!NoRows
<1>1. /\ Registry!NodeState = Reg!NodeState /\ Registry!None = Reg!None
      /\ Registry!RESUMABLE = Reg!RESUMABLE
  BY DEF Registry!NodeState, Registry!None, Registry!RESUMABLE,
         Reg!NodeState, Reg!None, Reg!RESUMABLE
<1>2. Registry!LEGAL = Reg!LEGAL
  BY <1>1 DEF Registry!LEGAL, Reg!LEGAL
<1>3. Registry!Absent = Reg!Absent /\ Registry!NoRows = Reg!NoRows
  BY <1>1 DEF Registry!Absent, Reg!Absent, Registry!NoRows, Reg!NoRows
<1> QED BY <1>1, <1>2, <1>3

LEMMA SameRegistryMoves ==
    ASSUME NEW k, NEW s
    PROVE  /\ Registry!Register(k) <=> Reg!Register(k)
           /\ Registry!Transition(k, s) <=> Reg!Transition(k, s)
           /\ Registry!TransitionRefused(k, s) <=> Reg!TransitionRefused(k, s)
           /\ Registry!Heartbeat(k) <=> Reg!Heartbeat(k)
           /\ Registry!RecordExit(k) <=> Reg!RecordExit(k)
           /\ Registry!CrashInRecordExit(k) <=> Reg!CrashInRecordExit(k)
           /\ Registry!LoseView <=> Reg!LoseView
<1> USE SameRegistryTable
<1>0. Registry!InView(k) <=> Reg!InView(k)
  BY DEF Registry!InView, Reg!InView
<1>1. Registry!Register(k) <=> Reg!Register(k)
  BY <1>0 DEF Registry!Register, Reg!Register, Registry!SpawnRow, Reg!SpawnRow
<1>2. \A r : Registry!PausedFrom(k, r) = Reg!PausedFrom(k, r)
  BY DEF Registry!PausedFrom, Reg!PausedFrom
<1>3. \A r : Registry!Admits(k, r) <=> Reg!Admits(k, r)
  BY <1>2 DEF Registry!Admits, Reg!Admits
<1>4. \A r : Registry!AppendTransition(k, r) = Reg!AppendTransition(k, r)
  BY DEF Registry!AppendTransition, Reg!AppendTransition
<1>5. \A r : Registry!Transition(k, r) <=> Reg!Transition(k, r)
  BY <1>0, <1>2, <1>3, <1>4 DEF Registry!Transition, Reg!Transition
<1>6. Registry!TransitionRefused(k, s) <=> Reg!TransitionRefused(k, s)
  BY <1>0, <1>2, <1>3 DEF Registry!TransitionRefused, Reg!TransitionRefused
<1>7. Registry!Heartbeat(k) <=> Reg!Heartbeat(k)
  BY <1>0, <1>5 DEF Registry!Heartbeat, Reg!Heartbeat, Registry!registryVars, Reg!registryVars
<1>8. Registry!RecordExit(k) <=> Reg!RecordExit(k)
  BY <1>0 DEF Registry!RecordExit, Reg!RecordExit, Registry!ExitRows, Reg!ExitRows
<1>10. Registry!CrashInRecordExit(k) <=> Reg!CrashInRecordExit(k)
  BY <1>0, <1>4 DEF Registry!CrashInRecordExit, Reg!CrashInRecordExit
<1>11. Registry!LoseView <=> Reg!LoseView
  BY DEF Registry!LoseView, Reg!LoseView
<1> QED BY <1>1, <1>5, <1>6, <1>7, <1>8, <1>10, <1>11

LEMMA SameRegistry == Reg!Spec <=> Registry!Spec
<1>1. Reg!Init <=> Registry!Init
  BY SameRegistryTable DEF Reg!Init, Registry!Init, Reg!LifeOf, Registry!LifeOf,
                           Reg!Unread, Registry!Unread
<1>2. Reg!Served <=> Registry!Served
  BY SameRegistryTable, SameRegistryMoves
     DEF Reg!Served, Registry!Served, Reg!HasRow, Registry!HasRow
<1>3. Reg!Next <=> Registry!Next
  <2>1. Reg!Overtakes <=> Registry!Overtakes
    BY SameRegistryTable DEF Reg!Overtakes, Registry!Overtakes, Reg!LifeOf, Registry!LifeOf,
                             Reg!Unread, Registry!Unread
  <2> QED BY <1>2, <2>1 DEF Reg!Next, Registry!Next
<1>4. [Reg!Next]_(Reg!allVars) <=> [Registry!Next]_(Registry!allVars)
  BY <1>3 DEF Reg!allVars, Registry!allVars
<1> QED BY <1>1, <1>4, PTL DEF Reg!Spec, Registry!Spec

\* However processes crash, are killed and come back, the manager's view of its
\* nodes is what its log says, and every exit row follows its spawn row.
THEOREM ManagersViewIsItsLog == Spec => [](Reg!CacheAgreesWithLog /\ Reg!RowsFollowSpawn)
<1>1. Registry!CacheAgreesWithLog => Reg!CacheAgreesWithLog
  BY SameRegistryTable DEF Reg!CacheAgreesWithLog, Registry!CacheAgreesWithLog,
                           Reg!InView, Registry!InView
<1>2. Registry!RowsFollowSpawn => Reg!RowsFollowSpawn
  BY SameRegistryTable DEF Reg!RowsFollowSpawn, Registry!RowsFollowSpawn,
                           Reg!HasRow, Registry!HasRow
<1> QED BY <1>1, <1>2, ManagerRunsTheRegistry, SameRegistry, Registry!CacheIsACache,
           Registry!RowsArePaired, PTL

\* The durable history the manager writes of every incarnation is a legal life
\* (NodeLife): it is spawned once, moves as the table allows and ends once.
THEOREM ManagerImplementsNodeLife == Spec => Reg!ImplementsNodeLife
<1>t. /\ Registry!Life!NodeState = Reg!Life!NodeState /\ Registry!Life!None = Reg!Life!None
      /\ Registry!Life!RESUMABLE = Reg!Life!RESUMABLE /\ Registry!Life!LEGAL = Reg!Life!LEGAL
  <2>1. /\ Registry!Life!NodeState = Reg!Life!NodeState
        /\ Registry!Life!None = Reg!Life!None /\ Registry!Life!RESUMABLE = Reg!Life!RESUMABLE
    BY DEF Registry!Life!NodeState, Reg!Life!NodeState, Registry!Life!None, Reg!Life!None,
           Registry!Life!RESUMABLE, Reg!Life!RESUMABLE
  <2> QED BY <2>1 DEF Registry!Life!LEGAL, Reg!Life!LEGAL
<1> USE <1>t, SameRegistryTable
<1>1. Registry!Life!Init => Reg!Life!Init
  BY DEF Registry!Life!Init, Reg!Life!Init
<1>2. Registry!Life!Next => Reg!Life!Next
  <2> SUFFICES ASSUME Registry!Life!Next PROVE Reg!Life!Next
    OBVIOUS
  <2>1. \A k : Registry!Life!Spawn(k) => Reg!Life!Spawn(k)
    BY DEF Registry!Life!Spawn, Reg!Life!Spawn
  <2>2. \A k : Registry!Life!Pause(k) => Reg!Life!Pause(k)
    BY DEF Registry!Life!Pause, Reg!Life!Pause
  <2>3. \A k : Registry!Life!Resume(k) => Reg!Life!Resume(k)
    BY DEF Registry!Life!Resume, Reg!Life!Resume
  <2>4. \A k, s : Registry!Life!Move(k, s) => Reg!Life!Move(k, s)
    BY DEF Registry!Life!Move, Reg!Life!Move
  <2> QED BY <2>1, <2>2, <2>3, <2>4 DEF Registry!Life!Next, Reg!Life!Next
<1>3. [Registry!Life!Next]_(Registry!Life!lifeVars) => [Reg!Life!Next]_(Reg!Life!lifeVars)
  BY <1>2 DEF Registry!Life!lifeVars, Reg!Life!lifeVars
<1>4. Registry!ImplementsNodeLife => Reg!ImplementsNodeLife
  BY <1>1, <1>3, PTL DEF Registry!ImplementsNodeLife, Reg!ImplementsNodeLife,
                         Registry!Life!Spec, Reg!Life!Spec
<1> QED BY <1>4, ManagerRunsTheRegistry, SameRegistry, Registry!RegistryImplementsNodeLife, PTL
=============================================================================
