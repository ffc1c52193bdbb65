--------------------------- MODULE NodeRegistry ---------------------------
(***************************************************************************)
(* control_plane/nodes/registry.py: the single state authority for node    *)
(* incarnations.  "The log is the record, the dict is a cache of it": every *)
(* mutation appends to the durable event log and then updates the view;    *)
(* the view dies with its process and rehydrate restores entries of it.    *)
(*                                                                         *)
(* One process at a time holds the log and so the view, but any process    *)
(* reads the log at any time: rehydrate is handed a record that was read   *)
(* (adopt_from_log) before the log was locked, and puts it into the view   *)
(* as it is.  Rows may have been written in between.                       *)
(*                                                                         *)
(* The append-only log is kept as what its readers recover from it: per    *)
(* incarnation, the kinds of rows it has, the state of the last row that   *)
(* names one, and the `frm` of the last row to PAUSED.  The lock, and the  *)
(* hash chain over the rows of several writers, are the matter of          *)
(* PaneRecords.                                                            *)
(***************************************************************************)
EXTENDS NodeStates

CONSTANTS
    Key,              \* the incarnations: (node_id, incarnation) pairs
    Client            \* the processes that read the log, to take a record over later

VARIABLES
    nodes,            \* nodes[k]: the in-memory NodeRecord, state None when absent
    log,              \* log[k]: what the durable rows of k say
    read,             \* read[c]: the record c has read and not handed in yet
    late,             \* history: the clients whose record was overtaken since by a row
    astray,           \* history: the records of the view that were late when handed in
    torn,             \* history: the incarnations that ever had one
    sound             \* history: the life of each, up to its first one

registryVars == <<nodes, log>>
histories == <<astray, torn, sound>>
allVars == <<nodes, log, read, late, astray, torn, sound>>

\* A spawn row, a transition row to TERMINATED, an exit row.
RowKind == {"spawn", "end", "exit"}

Absent == [state |-> None, paused_from |-> None]
NoRows == [kinds |-> {}, last |-> None, pause |-> None]
Unread == [key |-> None, state |-> None]

\* The life the rows tell.
LifeOf(rows) == [state |-> rows.last,
                 interrupted |-> IF rows.last = "PAUSED" THEN rows.pause ELSE None]

Init == /\ nodes = [k \in Key |-> Absent]
        /\ log = [k \in Key |-> NoRows]
        /\ read = [c \in Client |-> Unread]
        /\ late = {} /\ astray = {} /\ torn = {}
        /\ sound = [k \in Key |-> LifeOf(NoRows)]

InView(k) == nodes[k].state # None
HasRow(k, kind) == kind \in log[k].kinds

\* A transition row: `to` becomes the recorded state; the `frm` of a row to
\* PAUSED is the state the view says it interrupts.
AppendTransition(k, to) ==
    [log[k] EXCEPT !.last = to,
                   !.pause = IF to = "PAUSED" THEN nodes[k].state ELSE @,
                   !.kinds = @ \cup (IF to = "TERMINATED" THEN {"end"} ELSE {})]

SpawnRow(k) == [log[k] EXCEPT !.last = "SPAWNING", !.kinds = @ \cup {"spawn"}]

\* register(): the spawn row, then the view.  A key already in the view is
\* refused (the refusal changes neither).
Register(k) ==
    /\ ~InView(k)
    /\ log' = [log EXCEPT ![k] = SpawnRow(k)]
    /\ nodes' = [nodes EXCEPT ![k] = [state |-> "SPAWNING", paused_from |-> None]]

\* The paused_from that transition() decides with: taken from the state being
\* paused, kept from memory, or read back from the log when memory lost it.
PausedFrom(k, requested) ==
    LET current == nodes[k].state
        kept    == nodes[k].paused_from
    IN  IF requested = "PAUSED" /\ current \in RESUMABLE THEN current
        ELSE IF /\ current = "PAUSED"
                /\ requested \notin {"TERMINATED", "DISCONNECTED"}
                /\ kept = None
             THEN log[k].pause
             ELSE kept

\* Mutant of Admits: a record whose paused_from memory lost resumes anywhere the
\* table allows.
AdmitsUnanchored(k, requested) ==
    /\ nodes[k].state = "PAUSED" => nodes[k].paused_from \in {None, requested}
    /\ requested \in LEGAL[nodes[k].state]

\* Both checks of transition(): a resume goes where the pause came from, and
\* the table admits the move.
Admits(k, requested) ==
    LET current == nodes[k].state
    IN  /\ \/ current # "PAUSED"
           \/ requested \in {"TERMINATED", "DISCONNECTED"}
           \/ requested = PausedFrom(k, requested) /\ requested # None
        /\ requested \in LEGAL[current]

\* transition() on a legal request: log first, then the view.
Transition(k, requested) ==
    /\ InView(k)
    /\ Admits(k, requested)
    /\ log' = [log EXCEPT ![k] = AppendTransition(k, requested)]
    /\ nodes' = [nodes EXCEPT ![k] =
          [state |-> requested,
           paused_from |-> IF nodes[k].state = "PAUSED" THEN None
                           ELSE PausedFrom(k, requested)]]

\* transition() on any other request raises IllegalTransition; what it already
\* wrote to paused_from stays.
TransitionRefused(k, requested) ==
    /\ InView(k)
    /\ ~Admits(k, requested)
    /\ nodes' = [nodes EXCEPT ![k].paused_from = PausedFrom(k, requested)]
    /\ UNCHANGED log

\* heartbeat(): the first beat and a resumed beat re-enter READY, any other
\* beat leaves the state alone.
Heartbeat(k) ==
    /\ InView(k)
    /\ IF nodes[k].state \in {"SPAWNING", "DISCONNECTED"}
       THEN Transition(k, "READY")
       ELSE UNCHANGED registryVars

\* A transition row unless the record is already TERMINATED, then the exit row.
ExitRows(k) ==
    IF nodes[k].state = "TERMINATED"
    THEN [log[k] EXCEPT !.kinds = @ \cup {"exit"}]
    ELSE [log[k] EXCEPT !.last = "TERMINATED", !.kinds = @ \cup {"end", "exit"}]

\* Mutant of RecordExit: the rows are written, the record keeps its state.
RecordExitViewStale(k) ==
    /\ InView(k)
    /\ log' = [log EXCEPT ![k] = ExitRows(k)]
    /\ UNCHANGED nodes

\* record_exit(): the rows, and the record is TERMINATED.
RecordExit(k) ==
    /\ InView(k)
    /\ \/ nodes[k].state = "TERMINATED"
       \/ "TERMINATED" \in LEGAL[nodes[k].state]
    /\ log' = [log EXCEPT ![k] = ExitRows(k)]
    /\ nodes' = [nodes EXCEPT ![k].state = "TERMINATED"]

\* Mutant of Rehydrate: the record handed in is believed, with no spawn row asked for.
RehydrateUnchecked(k, state) ==
    /\ ~InView(k)
    /\ nodes' = [nodes EXCEPT ![k] = [state |-> state, paused_from |-> None]]
    /\ UNCHANGED log

\* rehydrate(): only over a spawn row, never over a live entry; writes no row.
\* The record is restored as it is handed in: adopt_from_log's have no paused_from.
Rehydrate(k, state) ==
    /\ ~InView(k)
    /\ HasRow(k, "spawn")
    /\ nodes' = [nodes EXCEPT ![k] = [state |-> state, paused_from |-> None]]
    /\ UNCHANGED log

\* The process ends, cleanly or not, and takes the view with it.
LoseView == /\ nodes' = [k \in Key |-> Absent]
            /\ UNCHANGED log

\* The process dies inside record_exit, after its first append.
CrashInRecordExit(k) ==
    /\ InView(k)
    /\ nodes[k].state # "TERMINATED"
    /\ log' = [log EXCEPT ![k] = AppendTransition(k, "TERMINATED")]
    /\ nodes' = [x \in Key |-> Absent]

----------------------------------------------------------------------------
(* The registry under any process that registers a key only when the log    *)
(* has no spawn row for it (_next_incarnation, under the lock).             *)

Served == \/ \E k \in Key :
               \/ ~HasRow(k, "spawn") /\ Register(k)
               \/ Heartbeat(k) \/ RecordExit(k) \/ CrashInRecordExit(k)
               \/ \E s \in NodeState : Transition(k, s) \/ TransitionRefused(k, s)
          \/ LoseView

\* What a served call does to the records read before, and to the histories.
Overtakes ==
    /\ late' = late \cup {c \in Client : /\ read[c] # Unread
                                        /\ log'[read[c].key] # log[read[c].key]}
    /\ astray' = {k \in astray : nodes'[k].state # None}
    /\ sound' = [k \in Key |-> IF k \in torn THEN sound[k] ELSE LifeOf(log'[k])]
    /\ UNCHANGED <<read, torn>>

\* adopt_from_log reads, without the lock.
Reads(c, k) ==
    /\ HasRow(k, "spawn")
    /\ read' = [read EXCEPT ![c] = [key |-> k, state |-> log[k].last]]
    /\ late' = late \ {c}
    /\ UNCHANGED <<registryVars, histories>>

\* Some caller comes with a record the log does not have.
Invents(c, k) ==
    /\ ~HasRow(k, "spawn")
    /\ read' = [read EXCEPT ![c] = [key |-> k, state |-> "SPAWNING"]]
    /\ late' = late \cup {c}
    /\ UNCHANGED <<registryVars, histories>>

\* The process gets the lock at last, and hands in what it has read.
HandsIn(c) ==
    LET k == read[c].key IN
    /\ read[c] # Unread
    /\ Rehydrate(k, read[c].state)
    /\ read' = [read EXCEPT ![c] = Unread]
    /\ astray' = IF c \in late THEN astray \cup {k} ELSE astray
    /\ torn' = IF c \in late THEN torn \cup {k} ELSE torn
    /\ late' = late \ {c}
    /\ UNCHANGED sound

Next == \/ Served /\ Overtakes
        \/ \E c \in Client : \/ \E k \in Key : Reads(c, k) \/ Invents(c, k)
                             \/ HandsIn(c)

Spec == Init /\ [][Next]_allVars

----------------------------------------------------------------------------
Records == [state : NodeState \cup {None}, paused_from : RESUMABLE \cup {None}]
Rows == [kinds : SUBSET RowKind, last : NodeState \cup {None}, pause : RESUMABLE \cup {None}]
Lives == [state : NodeState \cup {None}, interrupted : RESUMABLE \cup {None}]

\* Type invariant of the registry's view (NodeRecord) and of the log digest.
TypeOK == /\ nodes \in [Key -> Records]
          /\ log \in [Key -> Rows]
          /\ read \in [Client -> [key : Key, state : NodeState] \cup {Unread}]
          /\ late \subseteq Client /\ astray \subseteq Key /\ torn \subseteq Key
          /\ sound \in [Key -> Lives]

\* The view parts from the durable log only over a record that was overtaken
\* between its reading and its rehydration: any other record has the state of
\* the last row, after any number of restarts, reads and refused requests.  And
\* overtaken or not, a paused record resumes to what the last pause row carries.
CacheAgreesWithLog ==
    \A k \in Key : InView(k) =>
        /\ k \in astray \/ nodes[k].state = log[k].last
        /\ nodes[k].state = "PAUSED" => nodes[k].paused_from \in {None, log[k].pause}

\* No row is ever written for an incarnation the log has no spawn row for, and
\* no exit row without a row to TERMINATED (the spawn/exit pairing that
\* event_log.py names as its control against a truncated log), whatever records
\* are handed in; and if none was overtaken, a closed life stays TERMINATED.
RowsFollowSpawn ==
    \A k \in Key : /\ ~HasRow(k, "spawn") => log[k] = NoRows
                   /\ HasRow(k, "exit") => HasRow(k, "end")
                   /\ HasRow(k, "end") /\ k \notin torn => log[k].last = "TERMINATED"

\* The durable history of every incarnation is a legal life, whatever processes
\* came and went between its rows, up to the first overtaken record of it that is
\* handed in: until then the registry implements NodeLife.
Life == INSTANCE NodeLife WITH
            life <- [k \in Key |-> sound[k].state],
            interrupted <- [k \in Key |-> sound[k].interrupted]
ImplementsNodeLife == Life!Spec
============================================================================
