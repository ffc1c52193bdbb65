------------------------ MODULE NodeRegistryProofs ------------------------
(***************************************************************************)
(* The registry's view is a cache of its log but for the records that were *)
(* overtaken, and up to the first of those every durable history is a      *)
(* legal life, for any incarnations and any processes that read the log.   *)
(***************************************************************************)
EXTENDS NodeRegistry, TLAPS

\* While no overtaken record was handed in, the digest is the life, and the view
\* is not astray.
Soundness ==
    \A k \in Key : k \notin torn => sound[k] = LifeOf(log[k]) /\ k \notin astray

\* What a record that was read can be: of an incarnation with a spawn row, unless
\* somebody made it up; of a life that has ended, if it says so; and of the log's
\* last state, if nothing was written since.
Recorded ==
    \A c \in Client : read[c] # Unread =>
        /\ c \notin late => read[c].state = log[read[c].key].last
        /\ read[c].state = "TERMINATED" => HasRow(read[c].key, "end")

\* What is in the view has a spawn row, and what it calls TERMINATED ended once,
\* however old the record it came from.
Spawned ==
    \A k \in Key : /\ InView(k) => HasRow(k, "spawn")
                   /\ nodes[k].state = "TERMINATED" => HasRow(k, "end")
                   /\ log[k].last = "TERMINATED" => HasRow(k, "end")

\* An incarnation that was spawned has a state.
LastIsNamed == \A k \in Key : HasRow(k, "spawn") => log[k].last # None

\* The agreement of view and log is not inductive alone: whether a record handed in
\* keeps it was settled when the record was read, so what was read, and what was
\* written since, belong to the invariant.
IInv == TypeOK /\ CacheAgreesWithLog /\ RowsFollowSpawn /\ Soundness /\ Recorded /\ Spawned
        /\ LastIsNamed

\* The moves of the table stay in the table, and only a resumable state may
\* be paused.
LEMMA LegalFacts ==
    /\ \A s \in NodeState : LEGAL[s] \subseteq NodeState
    /\ \A s \in NodeState : "PAUSED" \in LEGAL[s] => s \in RESUMABLE
    /\ \A s \in NodeState : s # "TERMINATED" => "TERMINATED" \in LEGAL[s]
    /\ LEGAL["TERMINATED"] = {}
    /\ RESUMABLE \subseteq NodeState
    /\ None \notin NodeState
  BY DEF LEGAL, NodeState, RESUMABLE, None

----------------------------------------------------------------------------
(* What a served call does to each incarnation.                            *)

\* What the invariant will ask of an incarnation after a call.
Kept(k) ==
    /\ nodes'[k] \in Records /\ log'[k] \in Rows
    /\ nodes'[k].state # None =>
          /\ k \in astray \/ nodes'[k].state = log'[k].last
          /\ nodes'[k].state = "PAUSED" => nodes'[k].paused_from \in {None, log'[k].pause}
          /\ HasRow(k, "spawn")'
    /\ ~HasRow(k, "spawn")' => log'[k] = NoRows
    /\ HasRow(k, "exit")' => HasRow(k, "end")'
    /\ nodes'[k].state = "TERMINATED" => HasRow(k, "end")'
    /\ log'[k].last = "TERMINATED" => HasRow(k, "end")'
    /\ HasRow(k, "end") => HasRow(k, "end")'
    /\ HasRow(k, "spawn")' => log'[k].last # None
    /\ HasRow(k, "end")' /\ k \notin torn => log'[k].last = "TERMINATED"

\* What the invariant says of one incarnation before it.
LEMMA Known ==
    ASSUME IInv, NEW k \in Key
    PROVE  /\ nodes \in [Key -> Records] /\ log \in [Key -> Rows]
           /\ nodes[k] \in Records /\ log[k] \in Rows
           /\ InView(k) =>
                 /\ k \in astray \/ nodes[k].state = log[k].last
                 /\ nodes[k].state = "PAUSED" => nodes[k].paused_from \in {None, log[k].pause}
                 /\ HasRow(k, "spawn")
                 /\ nodes[k].state \in NodeState
           /\ ~HasRow(k, "spawn") => log[k] = NoRows
           /\ HasRow(k, "exit") => HasRow(k, "end")
           /\ nodes[k].state = "TERMINATED" => HasRow(k, "end")
           /\ log[k].last = "TERMINATED" => HasRow(k, "end")
           /\ HasRow(k, "spawn") => log[k].last # None
           /\ HasRow(k, "end") /\ k \notin torn => log[k].last = "TERMINATED"
           /\ k \notin torn => sound[k] = LifeOf(log[k]) /\ k \notin astray
  BY DEF IInv, TypeOK, CacheAgreesWithLog, RowsFollowSpawn, Soundness, Spawned, LastIsNamed,
         InView, Records

\* An incarnation that no row was written for, whose record stays or is lost.
LEMMA UntouchedKept ==
    ASSUME IInv, NEW k \in Key, log'[k] = log[k], nodes'[k] \in {nodes[k], Absent}
    PROVE  Kept(k)
<1>1. Absent \in Records /\ Absent.state = None
  BY DEF Absent, Records
<1>2. CASE nodes'[k] = nodes[k]
  BY <1>2, Known DEF Kept, InView, HasRow
<1>3. CASE nodes'[k] = Absent
  BY <1>1, <1>3, Known DEF Kept, None, HasRow
<1> QED BY <1>2, <1>3

\* The reads of the processes, the histories, and so the invariant, after any call
\* that keeps every incarnation.
LEMMA KeptSuffices ==
    ASSUME IInv, Overtakes, \A k \in Key : Kept(k),
           nodes' \in [Key -> Records], log' \in [Key -> Rows]
    PROVE  IInv'
<1>1. /\ read' = read /\ torn' = torn
      /\ \A k \in Key : k \notin torn => sound'[k] = LifeOf(log'[k])
  BY DEF Overtakes
<1>2. \A k \in Key : k \in astray' <=> k \in astray /\ nodes'[k].state # None
  BY DEF Overtakes
<1>3. \A c \in Client : c \notin late' =>
          /\ c \notin late
          /\ read[c] # Unread => log'[read[c].key] = log[read[c].key]
  BY DEF Overtakes
<1>4. TypeOK'
  <2>1. \A k \in Key : LifeOf(log'[k]) \in Lives
    BY DEF LifeOf, Rows, Lives
  <2>2. sound' \in [Key -> Lives]
    BY <2>1 DEF Overtakes, IInv, TypeOK
  <2>3. late' \subseteq Client /\ astray' \subseteq Key
    BY DEF Overtakes, IInv, TypeOK
  <2> QED BY <1>1, <2>2, <2>3 DEF IInv, TypeOK
<1>5. CacheAgreesWithLog'
  BY <1>2 DEF Kept, CacheAgreesWithLog, InView
<1>6. RowsFollowSpawn'
  BY <1>1 DEF Kept, RowsFollowSpawn
<1>7. Soundness'
  BY <1>1, <1>2 DEF IInv, Soundness
<1>8. Recorded'
  <2> SUFFICES ASSUME NEW c \in Client, read[c] # Unread
               PROVE  /\ c \notin late' => read[c].state = log'[read[c].key].last
                      /\ read[c].state = "TERMINATED" => HasRow(read[c].key, "end")'
    BY <1>1 DEF Recorded
  <2>1. read[c].key \in Key
    BY DEF IInv, TypeOK
  <2>2. c \notin late' => read[c].state = log'[read[c].key].last
    BY <1>3, <2>1 DEF IInv, Recorded
  <2>3. HasRow(read[c].key, "end") => HasRow(read[c].key, "end")'
    BY <1>1, <2>1 DEF Kept, HasRow
  <2> QED BY <2>2, <2>3 DEF IInv, Recorded
<1>9. Spawned'
  BY DEF Kept, Spawned, InView
<1>10. LastIsNamed'
  BY DEF Kept, LastIsNamed
<1> QED BY <1>4, <1>5, <1>6, <1>7, <1>8, <1>9, <1>10 DEF IInv

\* What an accepted transition decides with: the resume target is the logged one.
LEMMA AdmittedResume ==
    ASSUME NEW k \in Key, NEW s \in NodeState, IInv, InView(k), Admits(k, s),
           nodes[k].state = "PAUSED", s \notin {"TERMINATED", "DISCONNECTED"}
    PROVE  s = log[k].pause
  BY DEF IInv, TypeOK, CacheAgreesWithLog, InView, Admits, PausedFrom,
         Records, Rows, RESUMABLE, None

\* The first row of an incarnation.
LEMMA FirstRow ==
    ASSUME NEW k \in Key, log[k] = NoRows
    PROVE  /\ SpawnRow(k) = [kinds |-> {"spawn"}, last |-> "SPAWNING", pause |-> None]
           /\ SpawnRow(k) \in Rows
           /\ "end" \notin SpawnRow(k).kinds /\ ~HasRow(k, "end")
<1>1. {} \cup {"spawn"} = {"spawn"}
  OBVIOUS
<1>2. SpawnRow(k) = [NoRows EXCEPT !.last = "SPAWNING", !.kinds = @ \cup {"spawn"}]
  BY DEF SpawnRow
<1>3. SpawnRow(k) = [kinds |-> {} \cup {"spawn"}, last |-> "SPAWNING", pause |-> None]
  BY <1>2 DEF NoRows
<1>4. SpawnRow(k) = [kinds |-> {"spawn"}, last |-> "SPAWNING", pause |-> None]
  BY <1>1, <1>3
<1>5. ~HasRow(k, "end")
  BY DEF NoRows, HasRow
<1>6. {"spawn"} \subseteq RowKind /\ "SPAWNING" \in NodeState
  BY DEF RowKind, NodeState
<1> QED BY <1>4, <1>5, <1>6 DEF Rows

\* One accepted transition.
LEMMA TransitionKeeps ==
    ASSUME NEW k \in Key, NEW s \in NodeState, IInv, Transition(k, s), Overtakes
    PROVE  IInv'
<1> DEFINE row == AppendTransition(k, s)
           rec == [state |-> s,
                   paused_from |-> IF nodes[k].state = "PAUSED" THEN None
                                   ELSE PausedFrom(k, s)]
<1>1. /\ InView(k) /\ Admits(k, s)
      /\ log' = [log EXCEPT ![k] = row] /\ nodes' = [nodes EXCEPT ![k] = rec]
  BY DEF Transition
<1>2. /\ nodes \in [Key -> Records] /\ log \in [Key -> Rows]
      /\ nodes[k] \in Records /\ log[k] \in Rows /\ nodes[k].state \in NodeState
      /\ HasRow(k, "spawn")
  BY <1>1, Known
<1>3. s = "PAUSED" => nodes[k].state \in RESUMABLE
  BY <1>1, <1>2, LegalFacts DEF Admits
<1>4. /\ row.last = s
      /\ row.pause = IF s = "PAUSED" THEN nodes[k].state ELSE log[k].pause
      /\ row.kinds = log[k].kinds \cup (IF s = "TERMINATED" THEN {"end"} ELSE {})
  BY <1>2 DEF AppendTransition, Rows
<1>5. row \in Rows
  BY <1>2, <1>3 DEF AppendTransition, Rows, RowKind
<1>6. PausedFrom(k, s) \in RESUMABLE \cup {None}
  BY <1>2 DEF PausedFrom, Records, Rows
<1>7. rec \in Records
  BY <1>6 DEF Records
<1>8. rec.state = "PAUSED" => rec.paused_from = row.pause
  <2>1. s = "PAUSED" => nodes[k].state # "PAUSED" /\ PausedFrom(k, s) = nodes[k].state
    BY <1>3 DEF RESUMABLE, PausedFrom
  <2> QED BY <1>4, <2>1
<1>9. HasRow(k, "end") /\ k \notin torn => FALSE
  <2>1. HasRow(k, "end") /\ k \notin torn => nodes[k].state = "TERMINATED"
    BY <1>1, Known
  <2> QED BY <1>1, <2>1, LegalFacts DEF Admits
<1>10. Kept(k)
  <2>1. /\ nodes'[k] = rec /\ log'[k] = row /\ row.last # None
        /\ row.last = "TERMINATED" => "end" \in row.kinds
        /\ "end" \in row.kinds => HasRow(k, "end") \/ s = "TERMINATED"
    BY <1>1, <1>2, <1>4, LegalFacts DEF HasRow
  <2>2. \A kind \in RowKind : HasRow(k, kind) => kind \in row.kinds
    BY <1>4 DEF HasRow
  <2>3. HasRow(k, "exit") => HasRow(k, "end")
    BY Known
  <2>4. "exit" \in row.kinds => HasRow(k, "exit")
    BY <1>4 DEF HasRow
  <2> QED BY <1>2, <1>4, <1>5, <1>7, <1>8, <1>9, <2>1, <2>2, <2>3, <2>4 DEF Kept, HasRow, RowKind
<1>11. \A x \in Key \ {k} : Kept(x)
  BY <1>1, <1>2, UntouchedKept
<1> QED BY <1>1, <1>2, <1>5, <1>7, <1>10, <1>11, KeptSuffices

\* Every other call.
LEMMA ServedKeeps == IInv /\ Served /\ Overtakes => IInv'
<1> SUFFICES ASSUME IInv, Served, Overtakes PROVE IInv'
  OBVIOUS
<1>0. nodes \in [Key -> Records] /\ log \in [Key -> Rows]
  BY DEF IInv, TypeOK
<1>1. ASSUME NEW k \in Key, ~HasRow(k, "spawn"), Register(k) PROVE IInv'
  <2> DEFINE row == SpawnRow(k)
             rec == [state |-> "SPAWNING", paused_from |-> None]
  <2>1. log[k] = NoRows
    BY <1>1, Known
  <2>2. row = [kinds |-> {"spawn"}, last |-> "SPAWNING", pause |-> None]
    BY <2>1, FirstRow
  <2>3. row \in Rows /\ rec \in Records
    BY <2>1, FirstRow DEF Records, NodeState
  <2>4. log' = [log EXCEPT ![k] = row] /\ nodes' = [nodes EXCEPT ![k] = rec]
    BY <1>1 DEF Register
  <2>5. Kept(k)
    BY <1>0, <2>1, <2>2, <2>3, <2>4, FirstRow DEF Kept, None, HasRow
  <2>6. \A x \in Key \ {k} : Kept(x)
    BY <1>0, <2>4, UntouchedKept
  <2> QED BY <1>0, <2>3, <2>4, <2>5, <2>6, KeptSuffices
<1>2. ASSUME NEW k \in Key, NEW s \in NodeState, Transition(k, s) PROVE IInv'
  BY <1>2, TransitionKeeps
<1>3. ASSUME NEW k \in Key, NEW s \in NodeState, TransitionRefused(k, s) PROVE IInv'
  <2> DEFINE pf == PausedFrom(k, s)
  <2>1. /\ InView(k) /\ ~Admits(k, s) /\ log' = log
        /\ nodes' = [nodes EXCEPT ![k].paused_from = pf]
    BY <1>3 DEF TransitionRefused
  <2>2. pf \in RESUMABLE \cup {None}
    BY <1>0 DEF PausedFrom, Records, Rows
  <2>3. nodes[k].state = "PAUSED" => pf \in {None, log[k].pause}
    BY <2>1, Known DEF PausedFrom, RESUMABLE
  <2>4. /\ nodes'[k].state = nodes[k].state /\ nodes'[k].paused_from = pf
        /\ nodes'[k] \in Records
    BY <1>0, <2>1, <2>2 DEF Records
  <2>5. nodes' \in [Key -> Records]
    BY <1>0, <2>1, <2>2 DEF Records
  <2>6. Kept(k)
    BY <2>1, <2>3, <2>4, Known DEF Kept, HasRow
  <2>7. \A x \in Key \ {k} : Kept(x)
    BY <1>0, <2>1, UntouchedKept
  <2> QED BY <1>0, <2>1, <2>5, <2>6, <2>7, KeptSuffices
<1>4. ASSUME NEW k \in Key, Heartbeat(k) PROVE IInv'
  <2>1. CASE nodes[k].state \in {"SPAWNING", "DISCONNECTED"}
    BY <1>4, <2>1, TransitionKeeps DEF Heartbeat, NodeState
  <2>2. CASE nodes[k].state \notin {"SPAWNING", "DISCONNECTED"}
    <3>1. nodes' = nodes /\ log' = log
      BY <1>4, <2>2 DEF Heartbeat, registryVars
    <3> QED BY <1>0, <3>1, UntouchedKept, KeptSuffices
  <2>3. QED
    BY <2>1, <2>2
<1>5. ASSUME NEW k \in Key, RecordExit(k) PROVE IInv'
  <2> DEFINE row == ExitRows(k)
  <2>1. /\ InView(k) /\ log' = [log EXCEPT ![k] = row]
        /\ nodes' = [nodes EXCEPT ![k].state = "TERMINATED"]
    BY <1>5 DEF RecordExit
  <2>2. /\ row.last = IF nodes[k].state = "TERMINATED" THEN log[k].last ELSE "TERMINATED"
        /\ row.pause = log[k].pause
        /\ row.kinds = log[k].kinds \cup (IF nodes[k].state = "TERMINATED" THEN {"exit"}
                                         ELSE {"end", "exit"})
    BY <1>0 DEF ExitRows, Rows
  <2>3. row \in Rows
    BY <1>0 DEF ExitRows, Rows, RowKind, NodeState
  <2>4. /\ nodes' \in [Key -> Records]
        /\ nodes'[k].state = "TERMINATED"
    BY <1>0, <2>1 DEF Records, NodeState
  <2>5. "end" \in row.kinds /\ HasRow(k, "spawn")
    BY <2>1, <2>2, Known DEF HasRow
  <2>6. k \in astray \/ row.last = "TERMINATED"
    BY <2>1, <2>2, Known
  <2>7. k \notin torn => k \notin astray
    BY Known
  <2>8. Kept(k)
    <3>1. log'[k] = row /\ nodes'[k] \in Records /\ log[k] \in Rows
      BY <1>0, <2>1, <2>4
    <3>2. \A kind \in RowKind : HasRow(k, kind) => kind \in row.kinds
      BY <2>2 DEF HasRow
    <3>3. row.last # None
      BY <2>2, <2>5, Known DEF None
    <3> QED BY <2>3, <2>4, <2>5, <2>6, <2>7, <3>1, <3>2, <3>3 DEF Kept, HasRow, RowKind
  <2>9. \A x \in Key \ {k} : Kept(x)
    BY <1>0, <2>1, UntouchedKept
  <2> QED BY <1>0, <2>1, <2>3, <2>4, <2>8, <2>9, KeptSuffices
<1>6. ASSUME LoseView PROVE IInv'
  <2>1. Absent \in Records
    BY DEF Absent, Records
  <2>2. nodes' = [k \in Key |-> Absent] /\ log' = log
    BY <1>6 DEF LoseView
  <2> QED BY <1>0, <2>1, <2>2, UntouchedKept, KeptSuffices
<1>7. ASSUME NEW k \in Key, CrashInRecordExit(k) PROVE IInv'
  <2> DEFINE row == AppendTransition(k, "TERMINATED")
  <2>1. /\ InView(k) /\ log' = [log EXCEPT ![k] = row]
        /\ nodes' = [x \in Key |-> Absent]
    BY <1>7 DEF CrashInRecordExit
  <2>2. /\ row.last = "TERMINATED" /\ row.pause = log[k].pause
        /\ row.kinds = log[k].kinds \cup {"end"}
    BY <1>0 DEF AppendTransition, Rows
  <2>3. row \in Rows /\ Absent \in Records /\ Absent.state = None
    BY <1>0 DEF AppendTransition, Rows, RowKind, NodeState, Absent, Records
  <2>4. Kept(k)
    BY <1>0, <2>1, <2>2, <2>3, Known DEF Kept, None, HasRow
  <2>5. \A x \in Key \ {k} : Kept(x)
    BY <1>0, <2>1, UntouchedKept
  <2> QED BY <1>0, <2>1, <2>3, <2>4, <2>5, KeptSuffices
<1>8. QED
  BY <1>1, <1>2, <1>3, <1>4, <1>5, <1>6, <1>7 DEF Served

----------------------------------------------------------------------------
(* The records handed in.                                                  *)

\* Reading puts a record in a process's hands, and nothing else.
LEMMA ReadsKeep ==
    ASSUME IInv, NEW c \in Client, NEW k \in Key, Reads(c, k) \/ Invents(c, k)
    PROVE  IInv'
<1>1. UNCHANGED <<nodes, log, astray, torn, sound>>
  BY DEF Reads, Invents, registryVars, histories
<1>2. PICK r \in [key : Key, state : NodeState] :
          /\ read' = [read EXCEPT ![c] = r] /\ r.key = k
          /\ c \notin late' => r.state = log[k].last
          /\ r.state = "TERMINATED" => HasRow(k, "end")
  <2>1. CASE Reads(c, k)
    <3> DEFINE r == [key |-> k, state |-> log[k].last]
    <3>1. log[k].last \in NodeState
      BY <2>1 DEF Reads, IInv, LastIsNamed, TypeOK, Rows
    <3>2. r \in [key : Key, state : NodeState]
      BY <3>1
    <3> QED BY <2>1, <3>2 DEF Reads, IInv, Spawned
  <2>2. CASE Invents(c, k)
    <3> DEFINE r == [key |-> k, state |-> "SPAWNING"]
    <3>1. r \in [key : Key, state : NodeState]
      BY DEF NodeState
    <3> QED BY <2>2, <3>1 DEF Invents
  <2> QED BY <2>1, <2>2
<1>3. \A d \in Client \ {c} : read'[d] = read[d] /\ (d \in late' <=> d \in late)
  BY <1>2 DEF Reads, Invents, IInv, TypeOK
<1>4. Recorded'
  <2> SUFFICES ASSUME NEW d \in Client, read'[d] # Unread
               PROVE  /\ d \notin late' => read'[d].state = log[read'[d].key].last
                      /\ read'[d].state = "TERMINATED" => HasRow(read'[d].key, "end")
    BY <1>1 DEF Recorded, HasRow
  <2>1. CASE d = c
    BY <1>2, <2>1 DEF IInv, TypeOK
  <2>2. CASE d # c
    BY <1>3, <2>2 DEF IInv, Recorded
  <2> QED BY <2>1, <2>2
<1>5. TypeOK'
  BY <1>1, <1>2 DEF Reads, Invents, IInv, TypeOK
<1> QED BY <1>1, <1>4, <1>5
        DEF IInv, CacheAgreesWithLog, RowsFollowSpawn, Soundness, Spawned, LastIsNamed,
            InView, HasRow

\* A record is restored as it was read.  What was not overtaken is the log's last
\* state; what was overtaken is known for it.
LEMMA HandsInKeeps ==
    ASSUME IInv, NEW c \in Client, HandsIn(c)
    PROVE  IInv'
<1> DEFINE k == read[c].key
           rec == [state |-> read[c].state, paused_from |-> None]
<1>1. /\ k \in Key /\ ~InView(k) /\ HasRow(k, "spawn")
      /\ nodes' = [nodes EXCEPT ![k] = rec] /\ log' = log
      /\ read' = [read EXCEPT ![c] = Unread]
      /\ astray' = IF c \in late THEN astray \cup {k} ELSE astray
      /\ torn' = IF c \in late THEN torn \cup {k} ELSE torn
      /\ late' = late \ {c} /\ sound' = sound
  BY DEF HandsIn, Rehydrate, IInv, TypeOK
<1>2. rec \in Records
  BY DEF HandsIn, IInv, TypeOK, Records
<1>3. TypeOK'
  BY <1>1, <1>2 DEF IInv, TypeOK
<1>4. CacheAgreesWithLog'
  <2> SUFFICES ASSUME NEW x \in Key, nodes'[x].state # None
               PROVE  /\ x \in astray' \/ nodes'[x].state = log[x].last
                      /\ nodes'[x].state = "PAUSED" =>
                            nodes'[x].paused_from \in {None, log[x].pause}
    BY <1>1 DEF CacheAgreesWithLog, InView
  <2>1. CASE x = k
    BY <1>1, <2>1 DEF HandsIn, IInv, TypeOK, Recorded
  <2>2. CASE x # k
    BY <1>1, <2>2 DEF IInv, TypeOK, CacheAgreesWithLog, InView
  <2> QED BY <2>1, <2>2
<1>5. RowsFollowSpawn' /\ Soundness' /\ LastIsNamed'
  BY <1>1 DEF IInv, RowsFollowSpawn, Soundness, LastIsNamed, HasRow
<1>6. \A d \in Client \ {c} : read'[d] = read[d] /\ (d \in late' <=> d \in late)
  BY <1>1 DEF IInv, TypeOK
<1>7. Recorded'
  <2> SUFFICES ASSUME NEW d \in Client, read'[d] # Unread
               PROVE  /\ d \notin late' => read'[d].state = log[read'[d].key].last
                      /\ read'[d].state = "TERMINATED" => HasRow(read'[d].key, "end")
    BY <1>1 DEF Recorded, HasRow
  <2>1. CASE d = c
    BY <1>1, <2>1 DEF IInv, TypeOK
  <2>2. CASE d # c
    BY <1>6, <2>2 DEF IInv, Recorded
  <2> QED BY <2>1, <2>2
<1>8. Spawned'
  BY <1>1 DEF HandsIn, IInv, TypeOK, Spawned, Recorded, InView, HasRow
<1> QED BY <1>3, <1>4, <1>5, <1>7, <1>8 DEF IInv

\* A step of any kind keeps the invariant.
LEMMA StepKeeps == IInv /\ [Next]_allVars => IInv'
<1>1. IInv /\ UNCHANGED allVars => IInv'
  BY DEF allVars, IInv, TypeOK, CacheAgreesWithLog, RowsFollowSpawn, Soundness, Recorded,
         Spawned, LastIsNamed, InView, HasRow
<1> QED BY <1>1, ServedKeeps, ReadsKeep, HandsInKeeps DEF Next

LEMMA InitHolds == Init => IInv
  BY DEF Init, IInv, TypeOK, CacheAgreesWithLog, RowsFollowSpawn, Soundness, Recorded,
         Spawned, LastIsNamed, InView, HasRow, Absent, NoRows, Unread, LifeOf, Records, Rows,
         Lives, RowKind, None, RESUMABLE

\* The registry's view, its digest and what was read of it keep their types.
THEOREM TypeCorrect == Spec => []TypeOK
<1>1. Spec => []IInv
  BY InitHolds, StepKeeps, PTL DEF Spec
<1>2. IInv => TypeOK
  BY DEF IInv
<1>3. QED
  BY <1>1, <1>2, PTL

\* Only an overtaken record ever parts the in-memory view from the durable log in a
\* node's state, and nothing parts them in what a paused node resumes to
\* (registry.py, "the log is the record, the dict is a cache of it").
THEOREM CacheIsACache == Spec => []CacheAgreesWithLog
<1>1. Spec => []IInv
  BY InitHolds, StepKeeps, PTL DEF Spec
<1>2. IInv => CacheAgreesWithLog
  BY DEF IInv
<1>3. QED
  BY <1>1, <1>2, PTL

\* Whatever records are handed in, every row is preceded by a spawn row of its
\* incarnation and every exit row by a row to TERMINATED; and until a record of it
\* is handed in that was overtaken, a closed life stays closed.
THEOREM RowsArePaired == Spec => []RowsFollowSpawn
<1>1. Spec => []IInv
  BY InitHolds, StepKeeps, PTL DEF Spec
<1>2. IInv => RowsFollowSpawn
  BY DEF IInv
<1>3. QED
  BY <1>1, <1>2, PTL

----------------------------------------------------------------------------
(* The refinement: each step of the registry, seen through the life the    *)
(* log tells, is a step of NodeLife or none.                               *)

\* The abstract module reads the same states and the same table.
LEMMA SameTable == /\ Life!None = None
                   /\ Life!NodeState = NodeState
                   /\ Life!RESUMABLE = RESUMABLE
                   /\ Life!LEGAL = LEGAL
  BY DEF None, NodeState, RESUMABLE, LEGAL,
         Life!None, Life!NodeState, Life!RESUMABLE, Life!LEGAL

\* The incarnation k now has the row `row`, which the view's own state led to.
Writes(k, row) == log' = [log EXCEPT ![k] = row]

\* A step that writes no row, or none that changes what the rows tell of the life,
\* is a stutter; so is one of an incarnation whose view is astray.
LEMMA SameLifeStutters ==
    ASSUME IInv, Overtakes, log \in [Key -> Rows], log' \in [Key -> Rows],
           \A k \in Key : \/ k \in torn
                          \/ /\ log'[k].last = log[k].last
                             /\ log'[k].last = "PAUSED" => log'[k].pause = log[k].pause
    PROVE  UNCHANGED Life!lifeVars
<1>1. \A k \in Key : sound'[k] = sound[k]
  BY DEF Overtakes, IInv, Soundness, LifeOf
<1> QED BY <1>1 DEF Life!lifeVars

\* The step of the life of k that a row of it is, while no overtaken record was in.
LEMMA RowMoves ==
    ASSUME IInv, Overtakes, NEW k \in Key, NEW row \in Rows, Writes(k, row), k \notin torn
    PROVE  /\ \A x \in Key \ {k} : sound'[x] = sound[x]
           /\ sound'[k].state = row.last
           /\ sound'[k].interrupted = IF row.last = "PAUSED" THEN row.pause ELSE None
           /\ sound[k].state = log[k].last
           /\ sound[k].interrupted = IF log[k].last = "PAUSED" THEN log[k].pause ELSE None
<1>1. log'[k] = row /\ \A x \in Key \ {k} : log'[x] = log[x]
  BY DEF Writes, IInv, TypeOK
<1>2. /\ sound'[k] = LifeOf(row) /\ sound[k] = LifeOf(log[k])
      /\ \A x \in Key \ {k} : sound'[x] = sound[x]
  BY <1>1 DEF Overtakes, IInv, Soundness
<1> QED BY <1>2 DEF LifeOf

\* What the abstract step for an appended transition row is.
LEMMA TransitionRefines ==
    ASSUME NEW k \in Key, NEW s \in NodeState, IInv, InView(k), Admits(k, s),
           Overtakes, Writes(k, AppendTransition(k, s))
    PROVE  [Life!Next]_(Life!lifeVars)
<1> DEFINE life == [x \in Key |-> sound[x].state]
           intr == [x \in Key |-> sound[x].interrupted]
           row == AppendTransition(k, s)
<1>1. /\ log \in [Key -> Rows] /\ log[k] \in Rows /\ nodes[k].state \in NodeState
      /\ k \notin torn => nodes[k].state = log[k].last
  BY Known
<1>2. s \in LEGAL[nodes[k].state]
  BY DEF Admits
<1>3. s = "PAUSED" => nodes[k].state \in RESUMABLE
  BY <1>1, <1>2, LegalFacts
<1>4. /\ row \in Rows /\ row.last = s
      /\ row.pause = IF s = "PAUSED" THEN nodes[k].state ELSE log[k].pause
  BY <1>1, <1>3 DEF AppendTransition, Rows, RowKind
<1>5. CASE k \in torn
  <2>1. log' \in [Key -> Rows] /\ \A x \in Key \ {k} : log'[x] = log[x]
    BY <1>1, <1>4 DEF Writes
  <2> QED BY <1>1, <1>5, <2>1, SameLifeStutters
<1>6. CASE k \notin torn
  <2>0. /\ \A x \in Key \ {k} : sound'[x] = sound[x]
        /\ sound'[k].state = s
        /\ sound'[k].interrupted = IF s = "PAUSED" THEN nodes[k].state ELSE None
        /\ sound[k].state = nodes[k].state
        /\ sound[k].interrupted = IF nodes[k].state = "PAUSED" THEN log[k].pause ELSE None
    BY <1>1, <1>4, <1>6, RowMoves
  <2>1. /\ life' = [life EXCEPT ![k] = s]
        /\ intr' = [intr EXCEPT ![k] = IF s = "PAUSED" THEN nodes[k].state ELSE None]
        /\ life[k] = nodes[k].state
        /\ intr[k] = IF nodes[k].state = "PAUSED" THEN log[k].pause ELSE None
    BY <2>0
  <2>2. CASE s = "PAUSED"
    <3>1. Life!Pause(k)
      BY <1>3, <2>1, <2>2, SameTable DEF Life!Pause
    <3> QED BY <3>1 DEF Life!Next
  <2>3. CASE s # "PAUSED" /\ nodes[k].state = "PAUSED" /\ s \notin {"TERMINATED", "DISCONNECTED"}
    <3>1. s = log[k].pause
      BY <2>3, AdmittedResume
    <3>2. Life!Resume(k)
      BY <2>1, <2>3, <3>1, SameTable DEF Life!Resume
    <3> QED BY <3>2 DEF Life!Next
  <2>4. CASE s # "PAUSED" /\ (nodes[k].state = "PAUSED" => s \in {"TERMINATED", "DISCONNECTED"})
    <3>1. Life!Move(k, s)
      BY <1>1, <1>2, <2>1, <2>4, SameTable DEF Life!Move
    <3> QED BY <3>1, SameTable DEF Life!Next
  <2> QED BY <2>2, <2>3, <2>4
<1> QED BY <1>5, <1>6

\* Every step of the registry is a step of NodeLife or a stutter.
LEMMA StepRefines == IInv /\ [Next]_allVars => [Life!Next]_(Life!lifeVars)
<1> SUFFICES ASSUME IInv, [Next]_allVars PROVE [Life!Next]_(Life!lifeVars)
  OBVIOUS
<1> DEFINE life == [x \in Key |-> sound[x].state]
           intr == [x \in Key |-> sound[x].interrupted]
<1>0. nodes \in [Key -> Records] /\ log \in [Key -> Rows]
  BY DEF IInv, TypeOK
<1>1. ASSUME NEW k \in Key, ~HasRow(k, "spawn"), Register(k), Overtakes
      PROVE  [Life!Next]_(Life!lifeVars)
  <2>1. log[k] = NoRows
    BY <1>1, Known
  <2>2. /\ SpawnRow(k) = [kinds |-> {"spawn"}, last |-> "SPAWNING", pause |-> None]
        /\ SpawnRow(k) \in Rows /\ Writes(k, SpawnRow(k))
    BY <1>1, <2>1, FirstRow DEF Register, Writes
  <2>3. CASE k \notin torn
    <3>1. /\ \A x \in Key \ {k} : sound'[x] = sound[x]
          /\ sound'[k].state = "SPAWNING" /\ sound'[k].interrupted = None
          /\ sound[k].state = None /\ sound[k].interrupted = None
      BY <1>1, <2>1, <2>2, <2>3, RowMoves DEF NoRows, None
    <3>2. life[k] = None /\ life' = [life EXCEPT ![k] = "SPAWNING"] /\ intr' = intr
      BY <3>1
    <3>3. Life!Spawn(k)
      BY <3>2, SameTable DEF Life!Spawn
    <3> QED BY <3>3 DEF Life!Next
  <2>4. CASE k \in torn
    <3>1. log' \in [Key -> Rows] /\ \A x \in Key \ {k} : log'[x] = log[x]
      BY <1>0, <2>2 DEF Writes
    <3> QED BY <1>0, <1>1, <2>4, <3>1, SameLifeStutters
  <2> QED BY <2>3, <2>4
<1>2. ASSUME NEW k \in Key, NEW s \in NodeState, Transition(k, s), Overtakes
      PROVE  [Life!Next]_(Life!lifeVars)
  BY <1>2, TransitionRefines DEF Transition, Writes
<1>3. ASSUME Overtakes, log' = log PROVE [Life!Next]_(Life!lifeVars)
  BY <1>0, <1>3, SameLifeStutters
<1>4. ASSUME NEW k \in Key, Heartbeat(k), Overtakes PROVE [Life!Next]_(Life!lifeVars)
  <2>1. CASE nodes[k].state \in {"SPAWNING", "DISCONNECTED"}
    BY <1>2, <1>4, <2>1 DEF Heartbeat, NodeState
  <2>2. CASE nodes[k].state \notin {"SPAWNING", "DISCONNECTED"}
    BY <1>3, <1>4, <2>2 DEF Heartbeat, registryVars
  <2>3. QED
    BY <2>1, <2>2
<1>5. ASSUME NEW k \in Key, RecordExit(k), Overtakes PROVE [Life!Next]_(Life!lifeVars)
  <2> DEFINE row == ExitRows(k)
  <2>1. /\ InView(k) /\ Writes(k, row) /\ nodes[k].state \in NodeState
        /\ k \notin torn => nodes[k].state = log[k].last
    BY <1>5, Known DEF RecordExit, Writes
  <2>2. /\ row \in Rows /\ row.pause = log[k].pause
        /\ row.last = IF nodes[k].state = "TERMINATED" THEN log[k].last ELSE "TERMINATED"
    BY <1>0 DEF ExitRows, Rows, RowKind, NodeState
  <2>3. log' \in [Key -> Rows] /\ log'[k] = row /\ \A x \in Key \ {k} : log'[x] = log[x]
    BY <1>0, <2>1, <2>2 DEF Writes
  <2>4. CASE k \in torn \/ nodes[k].state = "TERMINATED"
    BY <1>0, <1>5, <2>1, <2>2, <2>3, <2>4, SameLifeStutters
  <2>5. CASE k \notin torn /\ nodes[k].state # "TERMINATED"
    <3>0. /\ \A x \in Key \ {k} : sound'[x] = sound[x]
          /\ sound'[k].state = "TERMINATED" /\ sound'[k].interrupted = None
          /\ sound[k].state = nodes[k].state
      BY <1>5, <2>1, <2>2, <2>5, RowMoves
    <3>1. /\ life' = [life EXCEPT ![k] = "TERMINATED"] /\ intr' = [intr EXCEPT ![k] = None]
          /\ life[k] = nodes[k].state
      BY <3>0
    <3>2. "TERMINATED" \in LEGAL[nodes[k].state]
      BY <2>1, <2>5, LegalFacts
    <3>3. Life!Move(k, "TERMINATED")
      BY <2>1, <3>1, <3>2, SameTable DEF Life!Move
    <3> QED BY <3>3, SameTable DEF Life!Next, NodeState
  <2> QED BY <2>4, <2>5
<1>6. ASSUME NEW k \in Key, CrashInRecordExit(k), Overtakes PROVE [Life!Next]_(Life!lifeVars)
  <2>1. /\ InView(k) /\ nodes[k].state # "TERMINATED" /\ nodes[k].state \in NodeState
        /\ Writes(k, AppendTransition(k, "TERMINATED"))
    BY <1>0, <1>6 DEF CrashInRecordExit, InView, Records, Writes
  <2>2. Admits(k, "TERMINATED")
    BY <2>1, LegalFacts DEF Admits
  <2>3. QED
    BY <1>6, <2>1, <2>2, TransitionRefines DEF NodeState
<1>7. CASE Served /\ Overtakes
  BY <1>1, <1>2, <1>3, <1>4, <1>5, <1>6, <1>7 DEF Served, LoseView, TransitionRefused
<1>8. ASSUME UNCHANGED sound PROVE [Life!Next]_(Life!lifeVars)
  BY <1>8 DEF Life!lifeVars
<1>9. ASSUME NEW c \in Client, HandsIn(c) PROVE [Life!Next]_(Life!lifeVars)
  <2>1. sound' = sound
    BY <1>9 DEF HandsIn
  <2> QED BY <1>8, <2>1
<1> QED BY <1>7, <1>8, <1>9 DEF Next, Reads, Invents, histories, allVars

\* Up to the first overtaken record of it that is handed in, the durable history of
\* every incarnation is a legal life whatever processes came and went between its
\* rows: states.py's table and the pause rule hold across crashes, restarts and
\* records that were read in time (registry.py implements NodeLife).
THEOREM RegistryImplementsNodeLife == Spec => ImplementsNodeLife
<1>1. Init => Life!Init
  BY SameTable DEF Init, Life!Init, NoRows, LifeOf, None
<1>2. QED
  BY <1>1, InitHolds, StepKeeps, StepRefines, PTL DEF Spec, ImplementsNodeLife, Life!Spec
============================================================================
