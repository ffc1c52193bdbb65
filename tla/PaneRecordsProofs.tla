--------------------------- MODULE PaneRecordsProofs ---------------------------
(***************************************************************************)
(* Theorems about the durable records of a pane, for any number of         *)
(* emitters and sessions: the types, the unbroken chain, whose processes   *)
(* the records name, and that a live session's record is open.             *)
(***************************************************************************)
EXTENDS PaneRecords, SequenceTheorems, TLAPS

States == {None, "SPAWNING", "READY", "TERMINATED"}
Acts == {"ticket", "attest", "release"}

\* What an emitter has read or registered is there, and only an emitter at work
\* has a task and a record.
Place(e) ==
    /\ view[e].inc <= Len(log)
    /\ view[e].inc = 0 => view[e] = NoView
    /\ pc[e] = "gone" => task[e] = NoTask /\ view[e] = NoView
    /\ pc[e] # "gone" => task[e] # NoTask
    /\ pc[e] = "checked" => task[e].act # "ticket"
    /\ pc[e] = "registered" => task[e].act = "ticket"
    /\ pc[e] \in {"registered", "exits"} => view[e].inc > 0
    /\ pc[e] \notin {"gone", "checked", "closed"} /\ task[e].act # "ticket" => view[e].inc > 0
View == [inc : Nat, state : States, exited : BOOLEAN]
TInv == /\ EmittersOK /\ view \in [Emitter -> View]
        /\ \A e \in Emitter : Place(e)

-----------------------------------------------------------------------------
(* The log. *)

\* A row about incarnation i is appended: the record stays its session's.
Written(i, r) ==
    /\ log' \in Seq(Rows)
    /\ Len(log') = Len(log)
    /\ \A k \in 1..Len(log) : log'[k] = IF k = i THEN r ELSE log[k]
    /\ r.session = log[i].session

\* A record with an exit row.
LEMMA WithAnExit ==
    ASSUME NEW row \in Rows
    PROVE  /\ [row EXCEPT !.exits = 1] \in Rows
           /\ [row EXCEPT !.exits = 1].pid = row.pid
BY DEF Rows

\* The three kinds of rows after the first.
LEMMA RowWritten ==
    ASSUME log \in Seq(Rows), NEW i \in 1..Len(log), NEW s \in Session
    PROVE  /\ log' = [log EXCEPT ![i].state = "TERMINATED"]
                => Written(i, [log[i] EXCEPT !.state = "TERMINATED"])
           /\ log' = [log EXCEPT ![i].exits = 1]
                => Written(i, [log[i] EXCEPT !.exits = 1])
           /\ log' = [log EXCEPT ![i].state = "READY", ![i].pid = s]
                => Written(i, [log[i] EXCEPT !.state = "READY", !.pid = s])
<1>1. log[i] \in Rows
  OBVIOUS
<1>2. [log[i] EXCEPT !.state = "TERMINATED"] \in Rows
  BY <1>1 DEF Rows
<1>3. [log[i] EXCEPT !.exits = 1] \in Rows
  BY <1>1, WithAnExit
<1>4. [log[i] EXCEPT !.state = "READY", !.pid = s] \in Rows
  BY <1>1 DEF Rows
<1>5. ASSUME NEW r \in Rows, log' = [log EXCEPT ![i] = r], r.session = log[i].session
      PROVE  Written(i, r)
  BY <1>5, ExceptSeq DEF Written
<1>6. ASSUME log' = [log EXCEPT ![i].state = "TERMINATED"]
      PROVE  Written(i, [log[i] EXCEPT !.state = "TERMINATED"])
  BY <1>1, <1>2, <1>5, <1>6 DEF Rows
<1>7. ASSUME log' = [log EXCEPT ![i].exits = 1]
      PROVE  Written(i, [log[i] EXCEPT !.exits = 1])
  BY <1>1, <1>3, <1>5, <1>7 DEF Rows
<1>8. ASSUME log' = [log EXCEPT ![i].state = "READY", ![i].pid = s]
      PROVE  Written(i, [log[i] EXCEPT !.state = "READY", !.pid = s])
  BY <1>1, <1>4, <1>5, <1>8 DEF Rows
<1> QED BY <1>6, <1>7, <1>8

\* A spawn row begins the next incarnation.
LEMMA SpawnWritten ==
    ASSUME log \in Seq(Rows), NEW s \in Session, log' = Append(log, SpawnRow(s))
    PROVE  /\ log' \in Seq(Rows)
           /\ Len(log') = Len(log) + 1
           /\ \A k \in 1..Len(log) : log'[k] = log[k]
           /\ log'[Len(log) + 1] = SpawnRow(s)
<1>1. SpawnRow(s) \in Rows
  BY DEF SpawnRow, Rows
<1> QED BY <1>1, AppendProperties

-----------------------------------------------------------------------------
(* Types. *)

Task == [act : Acts, session : Session]

\* A step of e leaves the other emitters where they are.
OthersStay(e) == \A f \in Emitter \ {e} :
    pc'[f] = pc[f] /\ task'[f] = task[f] /\ view'[f] = view[f]
LogGrows == log' \in Seq(Rows) /\ Len(log) <= Len(log')

\* What the types take.
LEMMA TypeRows ==
    ASSUME TInv
    PROVE  /\ log \in Seq(Rows) /\ Len(log) \in Nat
           /\ pc \in [Emitter -> PC] /\ view \in [Emitter -> View]
           /\ task \in [Emitter -> Task \cup {NoTask}]
           /\ life \in [Session -> Life]
           /\ NoTask \notin Task /\ NoTask.act \notin Acts /\ NoView \in View /\ NoView.inc = 0
<1>1. log \in Seq(Rows)
  BY DEF TInv, EmittersOK
<1>2. Len(log) \in Nat
  BY <1>1
<1> QED BY <1>1, <1>2 DEF TInv, EmittersOK, Task, NoTask, Acts, None, NoView, View, States

\* One emitter moves.
LEMMA OneMoves ==
    ASSUME TInv, NEW e \in Emitter, OthersStay(e), LogGrows, Place(e)',
           pc' \in [Emitter -> PC], task' \in [Emitter -> Task \cup {NoTask}],
           view' \in [Emitter -> View], life' \in [Session -> Life],
           lock' \in [by : Emitter, written : BOOLEAN] \cup {NoLock},
           current' \subseteq Emitter, chained' \in BOOLEAN
    PROVE  TInv'
<1>1. \A f \in Emitter : Place(f)'
  <2> SUFFICES ASSUME NEW f \in Emitter, f # e PROVE Place(f)'
    OBVIOUS
  <2>1. Place(f) /\ view[f].inc \in Nat /\ Len(log) \in Nat /\ Len(log') \in Nat
    BY TypeRows DEF TInv, View, LogGrows
  <2> QED BY <2>1 DEF OthersStay, LogGrows, Place
<1>2. \A f \in Emitter : view'[f] = NoView \/ view'[f].inc \in DOMAIN log'
  <2> SUFFICES ASSUME NEW f \in Emitter, view'[f].inc # 0 PROVE view'[f].inc \in DOMAIN log'
    BY <1>1 DEF Place
  <2>1. view'[f].inc \in Nat /\ view'[f].inc <= Len(log') /\ Len(log') \in Nat
    BY <1>1 DEF Place, View, LogGrows
  <2>2. DOMAIN log' = 1..Len(log')
    BY DEF LogGrows
  <2> QED BY <2>1, <2>2
<1> QED BY <1>1, <1>2 DEF TInv, EmittersOK, LogGrows, Task, Acts

\* Ends and Starts write one emitter's rows.
LEMMA EndsRows ==
    ASSUME TInv, NEW e \in Emitter, Ends(e), UNCHANGED log
    PROVE  /\ OthersStay(e) /\ LogGrows /\ Place(e)'
           /\ pc' \in [Emitter -> PC] /\ task' \in [Emitter -> Task \cup {NoTask}]
           /\ view' \in [Emitter -> View] /\ current' \subseteq Emitter
<1>1. /\ pc' = [pc EXCEPT ![e] = "gone"] /\ task' = [task EXCEPT ![e] = NoTask]
      /\ view' = [view EXCEPT ![e] = NoView] /\ current' = current \ {e}
  BY DEF Ends, Goes
<1>2. current \subseteq Emitter /\ "gone" \in PC
  BY DEF TInv, EmittersOK, PC
<1> QED BY <1>1, <1>2, TypeRows DEF OthersStay, LogGrows, Place

\* A ticket given up.
LEMMA LifeOfGivenUp ==
    ASSUME life \in [Session -> Life], NEW e \in Emitter, GivenUp(e)
    PROVE  life' \in [Session -> Life]
BY DEF GivenUp, Life

\* The emitters' steps around the lock.
LEMMA LockType ==
    ASSUME TInv, NEW e \in Emitter,
           \/ Adopts(e) \/ AdoptsNothing(e) \/ Creates(e) \/ WritesPid(e) \/ JudgesGone(e)
           \/ Breaks(e) \/ Refused(e) \/ Opens(e) \/ Unlinks(e) \/ Dies(e)
    PROVE  TInv'
<1> USE TypeRows
<1>1. /\ lock \in [by : Emitter, written : BOOLEAN] \cup {NoLock} /\ current \subseteq Emitter
      /\ chained \in BOOLEAN /\ Place(e)
  BY DEF TInv, EmittersOK
<1>2. LogGrows
  BY DEF LogGrows, Adopts, AdoptsNothing, Creates, WritesPid, JudgesGone, Breaks, Refused, Opens,
         Unlinks, Dies
<1>3. CASE AdoptsNothing(e) \/ Refused(e) \/ Unlinks(e) \/ Dies(e)
  <2>1. Ends(e) /\ UNCHANGED <<log, chained>>
    BY <1>3 DEF AdoptsNothing, Refused, Unlinks, Dies
  <2>2. life' \in [Session -> Life]
    BY <1>3, LifeOfGivenUp DEF AdoptsNothing, Refused, Unlinks, Dies, Becomes, Life
  <2>3. lock' \in [by : Emitter, written : BOOLEAN] \cup {NoLock}
    BY <1>1, <1>3 DEF AdoptsNothing, Refused, Unlinks, Dies
  <2> QED BY <1>1, <2>1, <2>2, <2>3, EndsRows, OneMoves
<1>4. CASE Adopts(e)
  <2>1. view' = [view EXCEPT ![e] = [inc |-> Len(log), state |-> log[Len(log)].state,
                                     exited |-> log[Len(log)].exits > 0]]
    BY <1>4 DEF Adopts
  <2>2. log[Len(log)] \in Rows /\ Len(log) > 0
    BY <1>4 DEF Adopts
  <2>3. view'[e] \in View /\ view'[e].inc = Len(log)
    BY <2>1, <2>2 DEF View, States, Rows
  <2>4. Place(e)'
    BY <1>1, <1>4, <2>2, <2>3 DEF Adopts, Goes, Place
  <2>5. view' \in [Emitter -> View] /\ pc' \in [Emitter -> PC] /\ OthersStay(e)
    BY <1>4, <2>1, <2>3 DEF Adopts, Goes, PC, OthersStay
  <2> QED BY <1>1, <1>2, <1>4, <2>4, <2>5, OneMoves DEF Adopts
<1>5. CASE Creates(e) \/ WritesPid(e) \/ JudgesGone(e) \/ Breaks(e) \/ Opens(e)
  <2>1. /\ UNCHANGED <<log, task, view, chained, life>>
        /\ pc[e] \in {"wants", "retries", "breaks", "created", "locked"}
        /\ \E to \in {"created", "locked", "breaks", "retries", "open"} : Goes(e, to)
    BY <1>5 DEF Creates, WritesPid, JudgesGone, Breaks, Opens
  <2>2. pc' \in [Emitter -> PC] /\ OthersStay(e) /\ Place(e)'
    BY <1>1, <2>1 DEF Goes, PC, OthersStay, Place
  <2>3. current' \subseteq Emitter
    BY <1>1, <1>5 DEF Creates, WritesPid, JudgesGone, Breaks, Opens
  <2>4. lock' \in {lock, NoLock, [by |-> e, written |-> FALSE], [by |-> e, written |-> TRUE]}
    BY <1>5 DEF Creates, WritesPid, JudgesGone, Breaks, Opens
  <2>5. lock' \in [by : Emitter, written : BOOLEAN] \cup {NoLock}
    <3>1. [by |-> e, written |-> FALSE] \in [by : Emitter, written : BOOLEAN]
      OBVIOUS
    <3>2. [by |-> e, written |-> TRUE] \in [by : Emitter, written : BOOLEAN]
      OBVIOUS
    <3> QED BY <1>1, <2>4, <3>1, <3>2, Zenon
  <2> QED BY <1>1, <1>2, <2>1, <2>2, <2>3, <2>5, OneMoves
<1> QED BY <1>3, <1>4, <1>5

\* Rows that end a call, and what closes without one.
LEMMA ClosesRows ==
    ASSUME TInv, NEW e \in Emitter, Closes(e), pc[e] # "gone"
    PROVE  /\ OthersStay(e)
           /\ pc' \in [Emitter -> PC] /\ task' = task /\ view' \in [Emitter -> View]
           /\ view'[e] \in {view[e], NoView} /\ pc'[e] = "closed" /\ lock' = lock
BY TypeRows DEF Closes, Goes, PC, OthersStay

\* What is appended, and the record it leaves with its emitter.
LEMMA AppendsTypes ==
    ASSUME TInv, NEW e \in Emitter, NEW rows, Appends(e, rows)
    PROVE  log' = rows /\ current' \subseteq Emitter /\ chained' \in BOOLEAN
BY DEF Appends, TInv, EmittersOK

\* The record e acts on; there is one whenever it acts on one.
Acted(e) == IF Does(e, "ticket") /\ pc[e] = "open" THEN Prior ELSE view[e].inc
TerminatedRow(i) == [log[i] EXCEPT !.state = "TERMINATED"]

\* The TERMINATED row of record_exit.
LEMMA TerminatedRows ==
    ASSUME TInv, NEW e \in Emitter, NEW i \in 1..Len(log), AppendsTerminated(e, i),
           task[e] # NoTask, UNCHANGED <<lock, task, life>>
    PROVE  /\ TInv' /\ OthersStay(e) /\ Written(i, TerminatedRow(i))
           /\ view'[e] = [inc |-> i, state |-> "TERMINATED", exited |-> FALSE]
           /\ pc'[e] = "exits" /\ current' = current \cap {e}
           /\ chained' = (chained /\ e \in current)
<1> USE TypeRows
<1>1. log' = [log EXCEPT ![i].state = "TERMINATED"] /\ current' \subseteq Emitter /\ chained' \in BOOLEAN
  BY AppendsTypes DEF AppendsTerminated
<1>2. Written(i, TerminatedRow(i))
  <2>1. task[e].session \in Session
    BY DEF Task
  <2> QED BY <1>1, <2>1, RowWritten DEF TerminatedRow
<1>3. LogGrows /\ Len(log') = Len(log)
  BY <1>2 DEF Written, LogGrows
<1>4. /\ view' = [view EXCEPT ![e] = [inc |-> i, state |-> "TERMINATED", exited |-> FALSE]]
      /\ pc' = [pc EXCEPT ![e] = "exits"]
      /\ current' = current \cap {e} /\ chained' = (chained /\ e \in current)
  BY DEF AppendsTerminated, Appends, Goes
<1>5. view'[e] = [inc |-> i, state |-> "TERMINATED", exited |-> FALSE] /\ view'[e] \in View
  BY <1>4 DEF View, States
<1>6. pc' \in [Emitter -> PC] /\ view' \in [Emitter -> View] /\ OthersStay(e) /\ pc'[e] = "exits"
  BY <1>4, <1>5 DEF PC, OthersStay
<1>7. Place(e)'
  BY <1>3, <1>5, <1>6 DEF Place
<1>8. lock \in [by : Emitter, written : BOOLEAN] \cup {NoLock}
  BY DEF TInv, EmittersOK
<1> QED BY <1>1, <1>2, <1>3, <1>4, <1>5, <1>6, <1>7, <1>8, OneMoves

\* A call that ends in close(), having appended nothing or one row.
LEMMA ClosedType ==
    ASSUME TInv, NEW e \in Emitter, pc[e] # "gone", Closes(e), LogGrows,
           current' \subseteq Emitter, chained' \in BOOLEAN, UNCHANGED life
    PROVE  TInv'
<1>1. Place(e)'
  <2>1. Len(log) \in Nat /\ Len(log') \in Nat /\ Len(log) <= Len(log') /\ view[e].inc \in Nat
    BY TypeRows DEF LogGrows, View
  <2> QED BY <2>1, ClosesRows, TypeRows DEF Place, TInv
<1>2. lock \in [by : Emitter, written : BOOLEAN] \cup {NoLock}
  BY DEF TInv, EmittersOK
<1> QED BY <1>1, <1>2, ClosesRows, TypeRows, OneMoves

\* An emitter with the log open has a task.
LEMMA AtWork ==
    ASSUME TInv, NEW e \in Emitter, pc[e] # "gone"
    PROVE  task[e] \in Task /\ task[e].session \in Session
BY TypeRows DEF TInv, Place, Task

\* A record that is there has its number.
LEMMA RecordThere ==
    ASSUME TInv, NEW e \in Emitter, view[e].inc > 0
    PROVE  view[e].inc \in 1..Len(log)
BY TypeRows DEF TInv, Place, View

AttestedRow(e) == [log[view[e].inc] EXCEPT !.state = "READY", !.pid = task[e].session]
ExitedRow(e) == [log[view[e].inc] EXCEPT !.exits = 1]

\* A row about a record that is there makes no record.
LEMMA WrittenGrows ==
    ASSUME TInv, NEW i, NEW r, Written(i, r)
    PROVE  LogGrows /\ Len(log') = Len(log)
BY TypeRows DEF Written, LogGrows

\* The records' steps.
LEMMA RowType ==
    ASSUME TInv, NEW e \in Emitter,
           \/ AppendsExit(e) \/ TicketRefused(e) \/ TicketReaps(e) \/ TicketRegisters(e)
           \/ Issues(e) \/ RefusedAfterwards(e) \/ NotItsRecord(e) \/ Attests(e)
           \/ AttestRefused(e) \/ ReleaseCloses(e) \/ ReleaseFindsClosed(e)
    PROVE  TInv'
<1> USE TypeRows
<1>1. pc[e] # "gone" /\ Place(e) /\ current \subseteq Emitter /\ chained \in BOOLEAN
  BY DEF TInv, EmittersOK, AppendsExit, TicketRefused, TicketReaps, TicketRegisters, Issues,
         RefusedAfterwards, NotItsRecord, Attests, AttestRefused, ReleaseCloses,
         ReleaseFindsClosed, ItsRecord
<1>2. task[e] # NoTask /\ task[e].session \in Session
  BY <1>1, AtWork
<1>3. CASE \/ TicketRefused(e) \/ Issues(e) \/ NotItsRecord(e) \/ AttestRefused(e)
          \/ ReleaseFindsClosed(e)
  <2>1. Closes(e) /\ UNCHANGED <<log, current, chained, life>>
    BY <1>3 DEF TicketRefused, Issues, NotItsRecord, AttestRefused, ReleaseFindsClosed
  <2> QED BY <1>1, <2>1, ClosedType DEF LogGrows
<1>4. CASE TicketReaps(e)
  <2>1. Prior \in 1..Len(log)
    BY <1>4 DEF TicketReaps, IsStale, PriorIsOpen, Prior
  <2> QED BY <1>2, <1>4, <2>1, TerminatedRows DEF TicketReaps
<1>5. CASE RefusedAfterwards(e)
  <2>1. view[e].inc \in 1..Len(log)
    BY <1>1, <1>5, RecordThere DEF RefusedAfterwards, Place
  <2> QED BY <1>2, <1>5, <2>1, TerminatedRows DEF RefusedAfterwards
<1>6. CASE ReleaseCloses(e)
  <2>1. view[e].inc \in 1..Len(log)
    BY <1>1, <1>6, RecordThere DEF ReleaseCloses, ItsRecord, Does, Place
  <2> QED BY <1>2, <1>6, <2>1, TerminatedRows DEF ReleaseCloses
<1>7. CASE Attests(e)
  <2>1. view[e].inc \in 1..Len(log)
    BY <1>1, <1>7, RecordThere DEF Attests, ItsRecord, Does, Place
  <2>2. /\ log' = [log EXCEPT ![view[e].inc].state = "READY", ![view[e].inc].pid = task[e].session]
        /\ current' \subseteq Emitter /\ chained' \in BOOLEAN /\ Closes(e) /\ UNCHANGED life
    BY <1>7, AppendsTypes DEF Attests
  <2>3. Written(view[e].inc, AttestedRow(e))
    BY <1>2, <2>1, <2>2, RowWritten DEF AttestedRow
  <2>4. LogGrows
    BY <2>3, WrittenGrows
  <2> QED BY <1>1, <2>2, <2>4, ClosedType
<1>8. CASE AppendsExit(e)
  <2>1. view[e].inc \in 1..Len(log)
    BY <1>1, <1>8, RecordThere DEF AppendsExit, Place
  <2>2. /\ log' = [log EXCEPT ![view[e].inc].exits = 1]
        /\ current' \subseteq Emitter /\ chained' \in BOOLEAN /\ UNCHANGED life
    BY <1>8, AppendsTypes DEF AppendsExit
  <2>3. LogGrows /\ Len(log') = Len(log)
    <3>1. Written(view[e].inc, ExitedRow(e))
      BY <1>2, <2>1, <2>2, RowWritten DEF ExitedRow
    <3> QED BY <3>1, WrittenGrows
  <2>4. CASE Closes(e)
    BY <1>1, <2>2, <2>3, <2>4, ClosedType
  <2>5. CASE Does(e, "ticket") /\ Goes(e, "open") /\ UNCHANGED <<lock, task, view>>
    <3>1. OthersStay(e) /\ Place(e)' /\ pc' \in [Emitter -> PC]
      BY <1>1, <2>3, <2>5 DEF Goes, Does, OthersStay, Place, PC
    <3>2. lock \in [by : Emitter, written : BOOLEAN] \cup {NoLock}
      BY DEF TInv, EmittersOK
    <3> QED BY <2>2, <2>3, <2>5, <3>1, <3>2, OneMoves
  <2> QED BY <1>8, <2>4, <2>5 DEF AppendsExit
<1>9. CASE TicketRegisters(e)
  <2>1. /\ log' = Append(log, SpawnRow(task[e].session))
        /\ current' \subseteq Emitter /\ chained' \in BOOLEAN
    BY <1>9, AppendsTypes DEF TicketRegisters
  <2>2. LogGrows /\ Len(log') = Len(log) + 1
    BY <1>2, <2>1, SpawnWritten DEF LogGrows
  <2>3. /\ view' = [view EXCEPT ![e] = [inc |-> Len(log) + 1, state |-> "SPAWNING", exited |-> FALSE]]
        /\ pc' = [pc EXCEPT ![e] = "registered"] /\ UNCHANGED <<lock, task, life>>
        /\ task[e].act = "ticket"
    BY <1>9 DEF TicketRegisters, Prior, Goes, Does
  <2>4. view'[e] = [inc |-> Len(log) + 1, state |-> "SPAWNING", exited |-> FALSE] /\ view'[e] \in View
    BY <2>3 DEF View, States
  <2>5. pc' \in [Emitter -> PC] /\ view' \in [Emitter -> View] /\ OthersStay(e) /\ pc'[e] = "registered"
    BY <2>3, <2>4 DEF PC, OthersStay
  <2>6. Place(e)'
    BY <1>2, <2>2, <2>3, <2>4, <2>5 DEF Place
  <2>7. lock \in [by : Emitter, written : BOOLEAN] \cup {NoLock}
    BY DEF TInv, EmittersOK
  <2> QED BY <2>1, <2>2, <2>3, <2>5, <2>6, <2>7, OneMoves
<1> QED BY <1>3, <1>4, <1>5, <1>6, <1>7, <1>8, <1>9

\* An emitter is started.
LEMMA StartType ==
    ASSUME TInv, NEW e \in Emitter, NEW s \in Session, NEW act \in Acts, NEW at \in {"wants", "checked"},
           Starts(e, act, s, at), at = "checked" <=> act # "ticket",
           life' \in [Session -> Life]
    PROVE  TInv' /\ OthersStay(e)
<1> USE TypeRows
<1>1. /\ pc' = [pc EXCEPT ![e] = at] /\ task' = [task EXCEPT ![e] = [act |-> act, session |-> s]]
      /\ pc[e] = "gone" /\ UNCHANGED <<log, lock, view, current, chained>>
  BY DEF Starts, Goes
<1>2. /\ lock \in [by : Emitter, written : BOOLEAN] \cup {NoLock} /\ current \subseteq Emitter
      /\ chained \in BOOLEAN /\ Place(e)
  BY DEF TInv, EmittersOK
<1>3. [act |-> act, session |-> s] \in Task
  BY DEF Task
<1>4. pc' \in [Emitter -> PC] /\ task' \in [Emitter -> Task \cup {NoTask}]
  BY <1>1, <1>3 DEF PC
<1>5. OthersStay(e)
  BY <1>1 DEF OthersStay
<1>6. Place(e)'
  <2>1. task'[e] \in Task /\ task'[e].act = act /\ pc'[e] = at
    BY <1>1, <1>3
  <2>2. at \in {"wants", "checked"} /\ (at = "wants" => act = "ticket")
    OBVIOUS
  <2> QED BY <1>1, <1>2, <2>1, <2>2 DEF Place
<1> QED BY <1>1, <1>2, <1>4, <1>5, <1>6, OneMoves DEF LogGrows

\* The launcher's steps.
LEMMA LauncherType ==
    ASSUME TInv, NEW e \in Emitter, NEW s \in Session,
           AsksTicket(e, s) \/ AsksAttest(e, s) \/ AsksRelease(e, s)
    PROVE  TInv'
<1>1. life \in [Session -> Life]
  BY TypeRows
<1>2. CASE AsksTicket(e, s)
  <2>1. life' \in [Session -> Life]
    BY <1>1, <1>2 DEF AsksTicket, Becomes, Life
  <2> QED BY <1>2, <2>1, StartType DEF AsksTicket, Acts
<1>3. CASE AsksAttest(e, s) \/ AsksRelease(e, s)
  <2>1. \E act \in {"attest", "release"} : Starts(e, act, s, "checked")
    BY <1>3 DEF AsksAttest, AsksRelease
  <2>2. life' = life
    BY <1>3 DEF AsksAttest, AsksRelease
  <2> QED BY <1>1, <2>1, <2>2, StartType DEF Acts
<1> QED BY <1>2, <1>3

\* The sessions' own steps, and no step at all.
LEMMA SessionType ==
    ASSUME TInv, \/ \E s \in Session : Born(s) \/ SessionEnds(s)
                 \/ UNCHANGED vars
    PROVE  TInv'
<1>1. UNCHANGED <<log, lock, pc, task, view, current, chained>>
  BY DEF Born, SessionEnds, vars
<1>2. life' \in [Session -> Life]
  BY TypeRows DEF Born, SessionEnds, vars, Becomes, Life
<1>3. \A e \in Emitter : Place(e)'
  BY <1>1 DEF TInv, Place
<1> QED BY <1>1, <1>2, <1>3 DEF TInv, EmittersOK

\* The inductive step of the types.
LEMMA TypeStep == ASSUME TInv, [Next]_vars PROVE TInv'
<1>1. ASSUME NEW e \in Emitter, Steps(e) \/ Dies(e) PROVE TInv'
  BY <1>1, LockType, RowType DEF Steps
<1> QED BY <1>1, LauncherType, SessionType DEF Next

\* The records start empty.
LEMMA TypeInit == Init => TInv
<1> SUFFICES ASSUME Init PROVE TInv
  OBVIOUS
<1>1. log = <<>> /\ log \in Seq(Rows) /\ Len(log) = 0
  BY DEF Init
<1>2. NoView \in View /\ NoView.inc = 0
  BY DEF NoView, View, States
<1>3. /\ pc = [e \in Emitter |-> "gone"] /\ task = [e \in Emitter |-> NoTask]
      /\ view = [e \in Emitter |-> NoView] /\ life = [s \in Session |-> "unborn"]
      /\ lock = NoLock /\ current = {} /\ chained = TRUE
  BY DEF Init
<1> QED BY <1>1, <1>2, <1>3 DEF TInv, EmittersOK, Place, PC, Life

\* The log, its lock and the emitters keep their types, whoever is killed when.
THEOREM TypeCorrect == Spec => []TypeOK
<1>1. TInv /\ [Next]_vars => TInv'
  BY TypeStep
<1>2. Init => crossed \subseteq Session
  BY DEF Init
<1>3. crossed \subseteq Session /\ [Next]_vars => (crossed \subseteq Session)'
  BY DEF Next, vars, AsksTicket, Pending
<1>4. TInv /\ crossed \subseteq Session => TypeOK
  BY DEF TInv, TypeOK
<1> QED BY TypeInit, <1>1, <1>2, <1>3, <1>4, PTL DEF Spec

-----------------------------------------------------------------------------
(* The lock and the chain. *)

Writers == {"open", "registered", "exits"}

\* One emitter at most has the lock's file open, and the one at work on the log
\* has read its last hash.
HoldersHaveTheLock == \A e \in Emitter : HasItOpen(e) => lock.by = e
WritersAreCurrent == \A e \in Emitter : pc[e] \in Writers => e \in current
CInv == TInv /\ HoldersHaveTheLock /\ WritersAreCurrent /\ chained

RowAct(e) == \/ AppendsExit(e) \/ TicketRefused(e) \/ TicketReaps(e) \/ TicketRegisters(e)
             \/ Issues(e) \/ RefusedAfterwards(e) \/ NotItsRecord(e) \/ Attests(e)
             \/ AttestRefused(e) \/ ReleaseCloses(e) \/ ReleaseFindsClosed(e)
LockAct(e) == \/ Adopts(e) \/ AdoptsNothing(e) \/ Creates(e) \/ WritesPid(e) \/ JudgesGone(e)
              \/ Breaks(e) \/ Refused(e) \/ Opens(e) \/ Unlinks(e) \/ Dies(e)

\* What every step on the open log does to the lock and the chain.
LEMMA RowSteps ==
    ASSUME TInv, NEW e \in Emitter, RowAct(e)
    PROVE  /\ OthersStay(e) /\ UNCHANGED <<lock, task, life>>
           /\ pc[e] \in Writers /\ pc'[e] \in Writers \cup {"closed"}
           /\ \/ UNCHANGED <<log, current, chained>>
              \/ current' = current \cap {e} /\ chained' = (chained /\ e \in current)
<1> USE TypeRows
<1>1. CASE \/ TicketRefused(e) \/ Issues(e) \/ NotItsRecord(e) \/ AttestRefused(e)
           \/ ReleaseFindsClosed(e)
  <2>1. Closes(e) /\ UNCHANGED <<log, current, chained, life>> /\ pc[e] \in Writers
    BY <1>1 DEF TicketRefused, Issues, NotItsRecord, AttestRefused, ReleaseFindsClosed, ItsRecord,
                Writers
  <2> QED BY <2>1, ClosesRows DEF Writers
<1>2. CASE TicketReaps(e) \/ RefusedAfterwards(e) \/ ReleaseCloses(e)
  <2>1. /\ \E i : AppendsTerminated(e, i)
        /\ UNCHANGED <<lock, task, life>> /\ pc[e] \in Writers
    BY <1>2 DEF TicketReaps, RefusedAfterwards, ReleaseCloses, ItsRecord, Writers
  <2> QED BY <2>1 DEF AppendsTerminated, Appends, Goes, OthersStay, Writers
<1>3. CASE Attests(e)
  <2>1. /\ Closes(e) /\ UNCHANGED life /\ pc[e] \in Writers
        /\ current' = current \cap {e} /\ chained' = (chained /\ e \in current)
    BY <1>3 DEF Attests, ItsRecord, Appends, Writers
  <2> QED BY <2>1, ClosesRows DEF Writers
<1>4. CASE AppendsExit(e)
  <2>1. /\ current' = current \cap {e} /\ chained' = (chained /\ e \in current)
        /\ UNCHANGED life /\ pc[e] \in Writers
    BY <1>4 DEF AppendsExit, Appends, Writers
  <2>2. CASE Closes(e)
    BY <2>1, <2>2, ClosesRows DEF Writers
  <2>3. CASE Goes(e, "open") /\ UNCHANGED <<lock, task, view>>
    BY <2>1, <2>3 DEF Goes, OthersStay, Writers
  <2> QED BY <1>4, <2>2, <2>3 DEF AppendsExit
<1>5. CASE TicketRegisters(e)
  BY <1>5 DEF TicketRegisters, Appends, Goes, OthersStay, Writers
<1> QED BY <1>1, <1>2, <1>3, <1>4, <1>5 DEF RowAct

\* A lock file is unlinked only when nobody has it open.
LEMMA Unlinkable ==
    ASSUME HoldersHaveTheLock, Deletable \/ lock = NoLock
    PROVE  \A e \in Emitter : ~HasItOpen(e)
<1>1. CASE Deletable
  BY <1>1, Zenon DEF HoldersHaveTheLock, Deletable
<1>2. CASE lock = NoLock
  <2>1. lock.by \notin Emitter
    BY <1>2, PaneAssumption DEF NoLock
  <2> QED BY <2>1, Zenon DEF HoldersHaveTheLock
<1> QED BY <1>1, <1>2

\* The chain survives every step around the lock.
LEMMA LockChain ==
    ASSUME CInv, NEW e \in Emitter, LockAct(e)
    PROVE  HoldersHaveTheLock' /\ WritersAreCurrent' /\ chained'
<1> USE TypeRows DEF CInv, Writers
<1>1. CASE AdoptsNothing(e) \/ Refused(e) \/ Unlinks(e) \/ Dies(e)
  <2>1. /\ Ends(e) /\ UNCHANGED <<log, chained>>
        /\ lock' = lock \/ Deletable
    BY <1>1 DEF AdoptsNothing, Refused, Unlinks, Dies
  <2>2. pc' = [pc EXCEPT ![e] = "gone"] /\ current' = current \ {e}
    BY <2>1 DEF Ends, Goes
  <2>3. HoldersHaveTheLock'
    BY <2>1, <2>2, Unlinkable DEF HoldersHaveTheLock, HasItOpen
  <2> QED BY <2>1, <2>2, <2>3 DEF WritersAreCurrent
<1>2. CASE Adopts(e) \/ JudgesGone(e)
  <2>1. /\ UNCHANGED <<lock, current, chained>>
        /\ \E to \in {"wants", "breaks"} : pc' = [pc EXCEPT ![e] = to]
    BY <1>2 DEF Adopts, JudgesGone, Goes
  <2> QED BY <2>1 DEF HoldersHaveTheLock, HasItOpen, WritersAreCurrent
<1>3. CASE Creates(e) \/ WritesPid(e) \/ Breaks(e)
  <2>1. /\ UNCHANGED <<current, chained>>
        /\ \E to \in {"created", "locked", "retries"} : pc' = [pc EXCEPT ![e] = to]
    BY <1>3 DEF Creates, WritesPid, Breaks, Goes
  <2>2. WritersAreCurrent'
    BY <2>1 DEF WritersAreCurrent
  <2>3. HoldersHaveTheLock'
    <3>1. CASE Creates(e)
      BY <3>1, Unlinkable DEF Creates, Goes, HoldersHaveTheLock, HasItOpen
    <3>2. CASE WritesPid(e)
      BY <3>2 DEF WritesPid, Goes, HoldersHaveTheLock, HasItOpen
    <3>3. CASE Breaks(e)
      BY <3>3, Unlinkable DEF Breaks, Goes, HoldersHaveTheLock, HasItOpen
    <3> QED BY <1>3, <3>1, <3>2, <3>3
  <2> QED BY <2>1, <2>2, <2>3
<1>4. CASE Opens(e)
  BY <1>4 DEF Opens, Goes, HoldersHaveTheLock, HasItOpen, WritersAreCurrent
<1> QED BY <1>1, <1>2, <1>3, <1>4 DEF LockAct

\* ... and every row, since the emitter that appends it is alone.
LEMMA RowChain ==
    ASSUME CInv, NEW e \in Emitter, RowAct(e)
    PROVE  HoldersHaveTheLock' /\ WritersAreCurrent' /\ chained'
<1>1. TInv /\ HoldersHaveTheLock /\ WritersAreCurrent /\ chained
  BY DEF CInv
<1>2. /\ \A f \in Emitter \ {e} : pc'[f] = pc[f]
      /\ lock' = lock /\ pc[e] \in Writers /\ pc'[e] \in Writers \cup {"closed"}
      /\ \/ UNCHANGED <<current, chained>>
         \/ current' = current \cap {e} /\ chained' = (chained /\ e \in current)
  BY <1>1, RowSteps DEF OthersStay
<1>3. lock.by = e /\ e \in current
  BY <1>1, <1>2 DEF HoldersHaveTheLock, WritersAreCurrent, HasItOpen, Writers
<1>4. HoldersHaveTheLock'
  BY <1>1, <1>2, <1>3 DEF HoldersHaveTheLock, HasItOpen, Writers
<1>5. \A f \in Emitter \ {e} : pc'[f] \notin Writers
  BY <1>1, <1>2, <1>3 DEF HoldersHaveTheLock, HasItOpen, Writers
<1>6. WritersAreCurrent' /\ chained'
  BY <1>1, <1>2, <1>3, <1>5 DEF WritersAreCurrent
<1> QED BY <1>4, <1>6

\* Nothing the launcher or a session does touches the lock or the log.
LEMMA LauncherChain ==
    ASSUME CInv, \/ \E e \in Emitter, s \in Session :
                       AsksTicket(e, s) \/ AsksAttest(e, s) \/ AsksRelease(e, s)
                 \/ \E s \in Session : Born(s) \/ SessionEnds(s)
                 \/ UNCHANGED vars
    PROVE  HoldersHaveTheLock' /\ WritersAreCurrent' /\ chained'
<1>1. UNCHANGED <<lock, current, chained, log>>
  BY DEF AsksTicket, AsksAttest, AsksRelease, Starts, Born, SessionEnds, vars
<1>2. \/ pc' = pc
      \/ \E e \in Emitter, to \in {"wants", "checked"} : pc' = [pc EXCEPT ![e] = to]
  BY DEF AsksTicket, AsksAttest, AsksRelease, Starts, Goes, Born, SessionEnds, vars
<1>3. \A f \in Emitter : pc'[f] = pc[f] \/ pc'[f] \in {"wants", "checked"}
  BY <1>2, TypeRows DEF CInv
<1> QED BY <1>1, <1>3 DEF CInv, HoldersHaveTheLock, WritersAreCurrent, HasItOpen, Writers

\* The inductive step of the chain.
LEMMA ChainStep == ASSUME CInv, [Next]_vars PROVE CInv'
<1>1. TInv'
  BY TypeStep DEF CInv
<1>2. ASSUME NEW e \in Emitter, Steps(e) \/ Dies(e)
      PROVE  HoldersHaveTheLock' /\ WritersAreCurrent' /\ chained'
  BY <1>2, LockChain, RowChain DEF Steps, LockAct, RowAct
<1> QED BY <1>1, <1>2, LauncherChain DEF Next, CInv

\* Nobody has the lock, and the empty chain is whole.
LEMMA ChainInit == Init => CInv
<1> SUFFICES ASSUME Init PROVE CInv
  OBVIOUS
<1>1. \A e \in Emitter : pc[e] = "gone"
  BY DEF Init
<1>2. chained
  BY DEF Init
<1> QED BY <1>1, <1>2, TypeInit DEF CInv, HoldersHaveTheLock, WritersAreCurrent, HasItOpen, Writers

\* Whoever is killed holding the lock, and whoever breaks it, no emitter appends
\* a row with a hash that is no longer the log's last.
THEOREM ChainNeverBreaks == Spec => []ChainIsUnbroken
<1>1. CInv /\ [Next]_vars => CInv'
  BY ChainStep
<1>2. CInv => ChainIsUnbroken
  BY DEF CInv, ChainIsUnbroken
<1> QED BY ChainInit, <1>1, <1>2, PTL DEF Spec

-----------------------------------------------------------------------------
(* Whose processes the records name. *)

\* The steps that append no row leave the log alone.
LEMMA LogStays ==
    ASSUME NEW e \in Emitter, LockAct(e)
    PROVE  log' = log
BY DEF LockAct, Adopts, AdoptsNothing, Creates, WritesPid, JudgesGone, Breaks, Refused, Opens,
       Unlinks, Dies

\* What a record is.
LEMMA Recorded == TInv => \A i \in 1..Len(log) : log[i] \in Rows
BY DEF TInv, EmittersOK

\* A row either continues a record without changing its session, and without
\* giving it a process that is not its session's, or is a spawn row.
LEMMA RowKinds ==
    ASSUME TInv, NEW e \in Emitter, RowAct(e)
    PROVE  \/ log' = log
           \/ \E i \in 1..Len(log), r \in Rows : /\ Written(i, r)
                                                 /\ r.pid \in {log[i].pid, log[i].session}
           \/ log' = Append(log, SpawnRow(task[e].session)) /\ task[e].session \in Session
<1> USE TypeRows
<1>1. pc[e] # "gone" /\ Place(e)
  BY RowSteps DEF TInv, Writers
<1>2. task[e] # NoTask /\ task[e].session \in Session
  BY <1>1, AtWork
<1>3. CASE \/ TicketRefused(e) \/ Issues(e) \/ NotItsRecord(e) \/ AttestRefused(e)
           \/ ReleaseFindsClosed(e)
  BY <1>3 DEF TicketRefused, Issues, NotItsRecord, AttestRefused, ReleaseFindsClosed
<1>4. CASE TicketReaps(e) \/ RefusedAfterwards(e) \/ ReleaseCloses(e)
  <2>1. PICK i \in 1..Len(log) : AppendsTerminated(e, i) /\ UNCHANGED <<lock, task, life>>
    <3>1. CASE TicketReaps(e)
      BY <3>1 DEF TicketReaps, IsStale, PriorIsOpen, Prior
    <3>2. CASE RefusedAfterwards(e) \/ ReleaseCloses(e)
      <4>1. view[e].inc \in 1..Len(log)
        BY <1>1, <3>2, RecordThere DEF RefusedAfterwards, ReleaseCloses, ItsRecord, Does, Place
      <4> QED BY <3>2, <4>1 DEF RefusedAfterwards, ReleaseCloses
    <3> QED BY <1>4, <3>1, <3>2
  <2>2. Written(i, TerminatedRow(i))
    BY <1>2, <2>1, TerminatedRows
  <2>3. TerminatedRow(i) \in Rows /\ TerminatedRow(i).pid = log[i].pid
    BY Recorded DEF TerminatedRow, Rows
  <2> QED BY <2>2, <2>3
<1>5. CASE Attests(e)
  <2>1. view[e].inc \in 1..Len(log) /\ log[view[e].inc].session = task[e].session
    BY <1>1, <1>5, RecordThere DEF Attests, ItsRecord, Does, Place
  <2>2. log' = [log EXCEPT ![view[e].inc].state = "READY", ![view[e].inc].pid = task[e].session]
    BY <1>5 DEF Attests, Appends
  <2>3. Written(view[e].inc, AttestedRow(e))
    BY <1>2, <2>1, <2>2, RowWritten DEF AttestedRow
  <2>4. AttestedRow(e) \in Rows /\ AttestedRow(e).pid = task[e].session
    <3>1. log[view[e].inc] \in Rows
      BY <2>1, Recorded
    <3> QED BY <1>2, <3>1 DEF AttestedRow, Rows
  <2> QED BY <2>1, <2>3, <2>4
<1>6. CASE AppendsExit(e)
  <2>1. view[e].inc \in 1..Len(log)
    BY <1>1, <1>6, RecordThere DEF AppendsExit, Place
  <2>2. log' = [log EXCEPT ![view[e].inc].exits = 1]
    BY <1>6 DEF AppendsExit, Appends
  <2>3. Written(view[e].inc, ExitedRow(e))
    BY <1>2, <2>1, <2>2, RowWritten DEF ExitedRow
  <2>4. ExitedRow(e) \in Rows /\ ExitedRow(e).pid = log[view[e].inc].pid
    <3>1. log[view[e].inc] \in Rows
      BY <2>1, Recorded
    <3> QED BY <3>1, WithAnExit DEF ExitedRow
  <2> QED BY <2>1, <2>3, <2>4
<1>7. CASE TicketRegisters(e)
  BY <1>2, <1>7 DEF TicketRegisters, Appends
<1> QED BY <1>3, <1>4, <1>5, <1>6, <1>7 DEF RowAct

\* The inductive step of whose processes the records name.
LEMMA PidStep ==
    ASSUME TInv, PidsAreTheSessions, [Next]_vars
    PROVE  PidsAreTheSessions'
<1> USE TypeRows
<1>1. CASE log' = log
  BY <1>1 DEF PidsAreTheSessions
<1>2. ASSUME NEW i \in 1..Len(log), NEW r \in Rows, Written(i, r),
             r.pid \in {log[i].pid, log[i].session}
      PROVE  PidsAreTheSessions'
  <2>1. \A k \in 1..Len(log) : log[k].pid \in {None, log[k].session}
    BY DEF PidsAreTheSessions
  <2>2. r.pid \in {None, r.session}
    BY <1>2, <2>1 DEF Written
  <2>3. DOMAIN log' = 1..Len(log)
    BY <1>2 DEF Written
  <2>4. \A k \in 1..Len(log) : log'[k] \in {r, log[k]}
    BY <1>2 DEF Written
  <2> QED BY <2>1, <2>2, <2>3, <2>4 DEF PidsAreTheSessions
<1>3. ASSUME NEW s \in Session, log' = Append(log, SpawnRow(s))
      PROVE  PidsAreTheSessions'
  <2>1. /\ \A k \in 1..Len(log) : log'[k].pid \in {None, log'[k].session}
        /\ log'[Len(log) + 1].pid = None
    BY <1>3, SpawnWritten DEF PidsAreTheSessions, SpawnRow
  <2>2. DOMAIN log' = 1..(Len(log) + 1)
    BY <1>3, SpawnWritten
  <2> QED BY <2>1, <2>2 DEF PidsAreTheSessions
<1>4. ASSUME NEW e \in Emitter, Steps(e) \/ Dies(e) PROVE PidsAreTheSessions'
  <2>1. LockAct(e) \/ RowAct(e)
    BY <1>4 DEF Steps, LockAct, RowAct
  <2> QED BY <1>1, <1>2, <1>3, <2>1, LogStays, RowKinds
<1>5. ASSUME \/ \E e \in Emitter, s \in Session :
                   AsksTicket(e, s) \/ AsksAttest(e, s) \/ AsksRelease(e, s)
             \/ \E s \in Session : Born(s) \/ SessionEnds(s)
             \/ UNCHANGED vars
      PROVE  log' = log
  BY <1>5 DEF AsksTicket, AsksAttest, AsksRelease, Starts, Born, SessionEnds, vars
<1> QED BY <1>1, <1>4, <1>5 DEF Next

\* No record is attested with another session's process, however late.
THEOREM PidsAreTheirSessions == Spec => []PidsAreTheSessions
<1>1. Init => PidsAreTheSessions
  BY DEF Init, PidsAreTheSessions
<1>2. TInv /\ PidsAreTheSessions /\ [Next]_vars => TInv' /\ PidsAreTheSessions'
  BY TypeStep, PidStep
<1> QED BY TypeInit, <1>1, <1>2, PTL DEF Spec

-----------------------------------------------------------------------------
(* Live sessions and their records.  A session has one record.  While an     *)
(* uncrossed session is launched its record is the last incarnation, and     *)
(* while another is asked for, it is alive and attested or not there, so that *)
(* no ticket can take its record for a stale one.                            *)

RowOpen(row) == row.state # "TERMINATED" /\ row.exits = 0
LastIs(s) == Len(log) > 0 /\ log[Len(log)].session = s /\ RowOpen(log[Len(log)])
NoRecord(s) == \A i \in 1..Len(log) : log[i].session # s
OneRecord == \A i, j \in 1..Len(log) : log[i].session = log[j].session => i = j
UnbornHaveNone == \A s \in Session : life[s] = "unborn" => NoRecord(s)
LaunchedAreLast == \A s \in Session :
    s \notin crossed /\ life[s] \in {"ticketed", "alive"} => LastIs(s)
OneAsked == \A s, t \in Session : life[s] = "asked" /\ t # s /\ t \notin crossed =>
    \/ life[t] \in {"unborn", "over"}
    \/ life[t] = "alive" /\ log[Len(log)].pid = t

Asking == {"wants", "retries", "breaks", "created", "locked", "open"}

\* A ticket is its session's only one, its session has no record before the
\* ticket registers it, and an uncrossed one keeps the record it has registered.
TicketOf(e) == Does(e, "ticket") =>
    /\ life[task[e].session] = "asked"
    /\ \A f \in Emitter : task[f] = task[e] => f = e
    /\ pc[e] \in Asking => NoRecord(task[e].session)
    /\ pc[e] = "exits" /\ log[view[e].inc].session # task[e].session => NoRecord(task[e].session)
    /\ view[e].state = "SPAWNING" /\ task[e].session \notin crossed => LastIs(task[e].session)
    /\ pc[e] = "registered" => /\ view[e].state = "SPAWNING"
                               /\ log[view[e].inc].session = task[e].session
Errand(e) == /\ Does(e, "release") => \/ life[task[e].session] = "over"
                                      \/ task[e].session \in crossed
             /\ pc[e] = "exits" => /\ log[view[e].inc].state = "TERMINATED"
                                   /\ view[e].state = "TERMINATED"
Records == OneRecord /\ UnbornHaveNone /\ LaunchedAreLast /\ OneAsked
LInv == CInv /\ Records /\ \A e \in Emitter : TicketOf(e) /\ Errand(e)

\* Two tickets are for two sessions, and both of these are crossed.
LEMMA TwoTickets ==
    ASSUME LInv, NEW e \in Emitter, NEW f \in Emitter, Does(e, "ticket"), Does(f, "ticket"),
           e # f
    PROVE  /\ task[e].session # task[f].session
           /\ task[e].session \in crossed /\ task[f].session \in crossed
<1>1. task[e] # NoTask /\ task[f] # NoTask
  BY TypeRows DEF LInv, CInv, Does, NoTask, None
<1>2. task[e] \in Task /\ task[f] \in Task
  BY <1>1, TypeRows DEF LInv, CInv
<1>3. life[task[e].session] = "asked" /\ life[task[f].session] = "asked"
  BY DEF LInv, TicketOf
<1>4. task[e].session # task[f].session
  <2> SUFFICES ASSUME task[e].session = task[f].session PROVE FALSE
    OBVIOUS
  <2>1. task[f] = task[e]
    BY <1>2 DEF Task, Does
  <2> QED BY <2>1 DEF LInv, TicketOf
<1> QED BY <1>2, <1>3, <1>4 DEF LInv, Records, OneAsked, Task

\* The emitter that acts on the log is the only one that has it open.
LEMMA WritesAlone ==
    ASSUME LInv, NEW e \in Emitter, RowAct(e)
    PROVE  \A f \in Emitter \ {e} : pc[f] \notin Writers
<1>1. TInv /\ HoldersHaveTheLock
  BY DEF LInv, CInv
<1>2. lock.by = e
  BY <1>1, RowSteps DEF HoldersHaveTheLock, HasItOpen, Writers
<1> QED BY <1>1, <1>2 DEF HoldersHaveTheLock, HasItOpen, Writers

\* What a row about incarnation i leaves of the records.
LEMMA WrittenRecords ==
    ASSUME TInv, NEW i \in 1..Len(log), NEW r \in Rows, Written(i, r)
    PROVE  /\ Len(log') = Len(log)
           /\ OneRecord => OneRecord'
           /\ \A s : NoRecord(s) => NoRecord(s)'
           /\ \A s : LastIs(s) /\ (i = Len(log) => RowOpen(r)) => LastIs(s)'
           /\ Len(log) > 0 => log'[Len(log')] = IF i = Len(log) THEN r ELSE log[Len(log)]
<1>1. /\ Len(log) \in Nat /\ Len(log') = Len(log)
      /\ \A k \in 1..Len(log) : log'[k] = IF k = i THEN r ELSE log[k]
      /\ r.session = log[i].session
  BY TypeRows DEF Written
<1>2. \A k \in 1..Len(log) : log'[k].session = log[k].session
  BY <1>1
<1>3. OneRecord => OneRecord'
  BY <1>1, <1>2 DEF OneRecord
<1>4. \A s : NoRecord(s) => NoRecord(s)'
  BY <1>1, <1>2 DEF NoRecord
<1>5. Len(log) > 0 => log'[Len(log')] = IF i = Len(log) THEN r ELSE log[Len(log)]
  BY <1>1
<1>6. \A s : LastIs(s) /\ (i = Len(log) => RowOpen(r)) => LastIs(s)'
  BY <1>1, <1>5 DEF LastIs, RowOpen
<1> QED BY <1>1, <1>3, <1>4, <1>5, <1>6

\* A row may close a record only when its session is over or crossed, or when it
\* is the one the ticket is for.
Closable(e, i, r) ==
    RowOpen(log[i]) /\ ~RowOpen(r) =>
        \/ life[log[i].session] = "over" \/ log[i].session \in crossed
        \/ Does(e, "ticket") /\ log[i].session = task[e].session

\* Such a row disturbs neither the records nor another emitter.
LEMMA WrittenLive ==
    ASSUME LInv, crossed' = crossed, NEW e \in Emitter, RowAct(e), NEW i \in 1..Len(log), NEW r \in Rows,
           Written(i, r), r.pid \in {log[i].pid, log[i].session}, Closable(e, i, r)
    PROVE  Records' /\ \A f \in Emitter \ {e} : (TicketOf(f) /\ Errand(f))'
<1>1. TInv /\ Records /\ \A f \in Emitter : TicketOf(f) /\ Errand(f)
  BY DEF LInv, CInv
<1>2. OthersStay(e) /\ life' = life /\ task' = task
  BY <1>1, RowSteps
<1>3. /\ Len(log') = Len(log) /\ OneRecord'
      /\ \A s : NoRecord(s) => NoRecord(s)'
      /\ \A s : LastIs(s) /\ (i = Len(log) => RowOpen(r)) => LastIs(s)'
      /\ Len(log) > 0 => log'[Len(log')] = IF i = Len(log) THEN r ELSE log[Len(log)]
  BY <1>1, WrittenRecords DEF Records
<1>4. ASSUME NEW s \in Session, LastIs(s), life[s] # "over", s \notin crossed,
             Does(e, "ticket") => s # task[e].session
      PROVE  LastIs(s)'
  <2>1. i = Len(log) => RowOpen(r)
    BY <1>4 DEF LastIs, Closable
  <2> QED BY <1>3, <1>4, <2>1
<1>5. UnbornHaveNone'
  BY <1>1, <1>2, <1>3 DEF Records, UnbornHaveNone
<1>6. LaunchedAreLast'
  <2>1. Does(e, "ticket") => life[task[e].session] = "asked"
    BY <1>1 DEF TicketOf
  <2>2. \A s \in Session : s \notin crossed /\ life[s] \in {"ticketed", "alive"} => LastIs(s)'
    BY <1>1, <1>4, <2>1 DEF Records, LaunchedAreLast
  <2> QED BY <1>2, <2>2 DEF LaunchedAreLast, LastIs
<1>7. OneAsked'
  <2> SUFFICES ASSUME NEW s \in Session, NEW t \in Session, life[s] = "asked", t # s,
                      t \notin crossed, life[t] = "alive", log[Len(log)].pid = t
               PROVE  log'[Len(log')].pid = t
    BY <1>1, <1>2 DEF Records, OneAsked
  <2>1. LastIs(t)
    BY <1>1 DEF Records, LaunchedAreLast
  <2> QED BY <1>3, <2>1 DEF LastIs
<1>8. ASSUME NEW f \in Emitter \ {e} PROVE TicketOf(f)' /\ Errand(f)'
  <2>1. pc'[f] = pc[f] /\ view'[f] = view[f] /\ pc[f] \notin Writers
    BY <1>2, WritesAlone DEF OthersStay
  <2>2. Errand(f)'
    BY <1>1, <1>2, <2>1 DEF Errand, Does, Writers
  <2>3. ASSUME Does(f, "ticket"), view[f].state = "SPAWNING", task[f].session \notin crossed
        PROVE  LastIs(task[f].session)'
    <3>1. ~Does(e, "ticket")
      BY <2>3, TwoTickets
    <3>2. task[f].session \in Session /\ life[task[f].session] = "asked" /\ LastIs(task[f].session)
      BY <1>1, <2>3, AtWork DEF TicketOf, TInv, Place, Does, NoTask, None
    <3>3. PICK s \in Session : s = task[f].session
      BY <3>2
    <3>4. LastIs(s)'
      BY <1>4, <2>3, <3>1, <3>2, <3>3
    <3> QED BY <1>2, <3>3, <3>4 DEF LastIs
  <2>4. TicketOf(f)'
    BY <1>1, <1>2, <1>3, <2>1, <2>3 DEF TicketOf, Does, Writers
  <2> QED BY <2>2, <2>4
<1> QED BY <1>3, <1>5, <1>6, <1>7, <1>8 DEF Records

\* A call that closes without a row.
LEMMA ClosesLive ==
    ASSUME LInv, crossed' = crossed, NEW e \in Emitter,
           \/ TicketRefused(e) \/ Issues(e) \/ NotItsRecord(e) \/ AttestRefused(e)
           \/ ReleaseFindsClosed(e)
    PROVE  Records' /\ \A f \in Emitter : (TicketOf(f) /\ Errand(f))'
<1>1. TInv /\ Records /\ \A f \in Emitter : TicketOf(f) /\ Errand(f)
  BY DEF LInv, CInv
<1>2. RowAct(e)
  BY DEF RowAct
<1>3. Closes(e) /\ UNCHANGED <<log, life>>
  BY DEF TicketRefused, Issues, NotItsRecord, AttestRefused, ReleaseFindsClosed
<1>4. /\ OthersStay(e) /\ task' = task /\ pc'[e] = "closed"
      /\ Does(e, "ticket") => view'[e] = view[e]
  BY <1>1, <1>2, <1>3, RowSteps, ClosesRows, TypeRows DEF Closes, Writers
<1>5. Records'
  BY <1>1, <1>3 DEF Records, OneRecord, UnbornHaveNone, LaunchedAreLast, OneAsked, NoRecord, LastIs
<1>6. ASSUME NEW f \in Emitter PROVE TicketOf(f)' /\ Errand(f)'
  BY <1>1, <1>3, <1>4 DEF OthersStay, TicketOf, Errand, Does, NoRecord, LastIs, Asking
<1> QED BY <1>5, <1>6

\* The TERMINATED row, with what its emitter knows.
LEMMA TerminatedLive ==
    ASSUME LInv, crossed' = crossed, NEW e \in Emitter, RowAct(e), NEW i \in 1..Len(log), AppendsTerminated(e, i),
           Closable(e, i, TerminatedRow(i)),
           Does(e, "ticket") => \/ NoRecord(task[e].session)
                                \/ log[i].session = task[e].session
    PROVE  Records' /\ \A f \in Emitter : (TicketOf(f) /\ Errand(f))'
<1>1. TInv /\ Records /\ \A f \in Emitter : TicketOf(f) /\ Errand(f)
  BY DEF LInv, CInv
<1>2. OthersStay(e) /\ UNCHANGED <<lock, task, life>> /\ pc[e] # "gone"
  BY <1>1, RowSteps DEF Writers
<1>3. task[e] # NoTask
  BY <1>1, <1>2 DEF TInv, Place
<1>4. /\ Written(i, TerminatedRow(i)) /\ pc'[e] = "exits"
      /\ view'[e] = [inc |-> i, state |-> "TERMINATED", exited |-> FALSE]
  BY <1>1, <1>2, <1>3, TerminatedRows
<1>5. log[i] \in Rows
  BY <1>1, Recorded
<1>6. /\ TerminatedRow(i) \in Rows /\ TerminatedRow(i).pid = log[i].pid
      /\ TerminatedRow(i).state = "TERMINATED" /\ TerminatedRow(i).session = log[i].session
  BY <1>5 DEF TerminatedRow, Rows
<1>7. Records' /\ \A f \in Emitter \ {e} : (TicketOf(f) /\ Errand(f))'
  BY <1>4, <1>6, WrittenLive
<1>8. /\ log'[i].state = "TERMINATED" /\ log'[i].session = log[i].session
      /\ \A s : NoRecord(s) => NoRecord(s)'
  BY <1>1, <1>4, <1>6, WrittenRecords DEF Written
<1>9. Errand(e)'
  BY <1>1, <1>2, <1>4, <1>8 DEF Errand, Does
<1>10. NoRecord(task[e].session) => NoRecord(task[e].session)'
  <2>1. task' = task /\ DOMAIN log' = DOMAIN log /\ Len(log') = Len(log)
        /\ \A k \in 1..Len(log) : log'[k].session = log[k].session
    BY <1>2, <1>4, <1>6 DEF Written
  <2> QED BY <2>1 DEF NoRecord
<1>11. TicketOf(e)'
  BY <1>1, <1>2, <1>4, <1>8, <1>10 DEF TicketOf, Does, Asking
<1> QED BY <1>7, <1>9, <1>11

\* The reap, the refusal after the registration, and the release.
LEMMA ReapLive ==
    ASSUME LInv, crossed' = crossed, NEW e \in Emitter, TicketReaps(e) \/ RefusedAfterwards(e) \/ ReleaseCloses(e)
    PROVE  Records' /\ \A f \in Emitter : (TicketOf(f) /\ Errand(f))'
<1>1. TInv /\ Records /\ TicketOf(e) /\ Errand(e) /\ Place(e)
  BY DEF LInv, CInv, TInv
<1>2. RowAct(e) /\ pc[e] # "gone"
  BY DEF RowAct, TicketReaps, RefusedAfterwards, ReleaseCloses, ItsRecord
<1>3. task[e].session \in Session /\ Len(log) \in Nat
  BY <1>1, <1>2, AtWork, TypeRows
<1>4. CASE TicketReaps(e)
  <2>1. /\ Does(e, "ticket") /\ pc[e] = "open" /\ IsStale /\ AppendsTerminated(e, Len(log))
        /\ Len(log) > 0 /\ log[Len(log)].exits = 0 /\ log[Len(log)].state # "TERMINATED"
    BY <1>4 DEF TicketReaps, IsStale, PriorIsOpen, Prior
  <2>4. NoRecord(task[e].session) /\ Len(log) \in 1..Len(log)
    BY <1>1, <1>3, <2>1 DEF TicketOf, Asking
  <2>5. PICK s \in Session : s = log[Len(log)].session
    <3>1. log[Len(log)] \in Rows
      BY <1>1, <2>4, Recorded
    <3> QED BY <3>1 DEF Rows
  <2>2. life[s] = "over" \/ s \in crossed
    <3> SUFFICES ASSUME life[s] # "over", s \notin crossed PROVE FALSE
      OBVIOUS
    <3>1. life[task[e].session] = "asked" /\ s # task[e].session
      BY <1>1, <2>1, <2>4, <2>5 DEF TicketOf, NoRecord
    <3>2. life[s] # "unborn"
      BY <1>1, <2>4, <2>5 DEF Records, UnbornHaveNone, NoRecord
    <3>3. life[s] = "alive" /\ log[Len(log)].pid = s
      BY <1>1, <1>3, <3>1, <3>2 DEF Records, OneAsked
    <3>4. PriorIsLive
      BY <2>1, <3>3, PaneAssumption DEF PriorIsLive, PriorIsOpen, Prior
    <3> QED BY <2>1, <3>4 DEF IsStale
  <2>3. Closable(e, Len(log), TerminatedRow(Len(log)))
    BY <2>2, <2>5 DEF Closable
  <2> QED BY <1>2, <2>1, <2>3, <2>4, TerminatedLive
<1>5. CASE RefusedAfterwards(e)
  <2>1. pc[e] = "registered" /\ AppendsTerminated(e, view[e].inc) /\ Does(e, "ticket")
    BY <1>1, <1>5 DEF RefusedAfterwards, Place, Does
  <2>2. log[view[e].inc].session = task[e].session /\ view[e].inc \in 1..Len(log)
    BY <1>1, <2>1, RecordThere DEF TicketOf, Place
  <2>3. Closable(e, view[e].inc, TerminatedRow(view[e].inc))
    BY <2>1, <2>2 DEF Closable
  <2> QED BY <1>2, <2>1, <2>2, <2>3, TerminatedLive
<1>6. CASE ReleaseCloses(e)
  <2>1. /\ AppendsTerminated(e, view[e].inc) /\ Does(e, "release") /\ ~Does(e, "ticket")
        /\ log[view[e].inc].session = task[e].session /\ pc[e] = "open"
    BY <1>6 DEF ReleaseCloses, ItsRecord, Does
  <2>2. view[e].inc \in 1..Len(log)
    BY <1>1, <2>1, RecordThere DEF Does, Place
  <2>3. Closable(e, view[e].inc, TerminatedRow(view[e].inc))
    BY <1>1, <2>1 DEF Closable, Errand
  <2> QED BY <1>2, <2>1, <2>2, <2>3, TerminatedLive
<1> QED BY <1>4, <1>5, <1>6

\* The attestation keeps its record open.
LEMMA AttestLive ==
    ASSUME LInv, crossed' = crossed, NEW e \in Emitter, Attests(e)
    PROVE  Records' /\ \A f \in Emitter : (TicketOf(f) /\ Errand(f))'
<1>1. TInv /\ Records /\ TicketOf(e) /\ Errand(e) /\ Place(e)
  BY DEF LInv, CInv, TInv
<1>2. RowAct(e) /\ Does(e, "attest") /\ pc[e] = "open" /\ log[view[e].inc].session = task[e].session
  BY DEF RowAct, Attests, ItsRecord
<1>3. view[e].inc \in 1..Len(log) /\ task[e].session \in Session
  BY <1>1, <1>2, RecordThere, AtWork DEF Does, Place
<1>4. log' = [log EXCEPT ![view[e].inc].state = "READY", ![view[e].inc].pid = task[e].session]
      /\ Closes(e)
  BY DEF Attests, Appends
<1>5. Written(view[e].inc, AttestedRow(e))
  BY <1>1, <1>3, <1>4, TypeRows, RowWritten DEF AttestedRow
<1>6. log[view[e].inc] \in Rows
  BY <1>1, <1>3, Recorded
<1>7. /\ AttestedRow(e) \in Rows /\ AttestedRow(e).pid = task[e].session
      /\ AttestedRow(e).state = "READY" /\ AttestedRow(e).exits = log[view[e].inc].exits
  BY <1>3, <1>6 DEF AttestedRow, Rows
<1>8. Closable(e, view[e].inc, AttestedRow(e))
  BY <1>7 DEF Closable, RowOpen
<1>9. Records' /\ \A f \in Emitter \ {e} : (TicketOf(f) /\ Errand(f))'
  BY <1>2, <1>3, <1>5, <1>7, <1>8, WrittenLive
<1>10. task' = task /\ life' = life /\ pc'[e] = "closed"
  BY <1>1, <1>2, <1>4, RowSteps, ClosesRows
<1>11. TicketOf(e)' /\ Errand(e)'
  BY <1>2, <1>10 DEF TicketOf, Errand, Does
<1> QED BY <1>9, <1>11

\* The exit row ends what the TERMINATED row began, or lets the ticket register.
LEMMA ExitLive ==
    ASSUME LInv, crossed' = crossed, NEW e \in Emitter, AppendsExit(e)
    PROVE  Records' /\ \A f \in Emitter : (TicketOf(f) /\ Errand(f))'
<1>1. TInv /\ Records /\ TicketOf(e) /\ Errand(e) /\ Place(e)
  BY DEF LInv, CInv, TInv
<1>2. RowAct(e) /\ pc[e] = "exits"
  BY DEF RowAct, AppendsExit
<1>3. view[e].inc \in 1..Len(log) /\ task[e].session \in Session
  BY <1>1, <1>2, RecordThere, AtWork DEF Place
<1>4. log' = [log EXCEPT ![view[e].inc].exits = 1] /\ UNCHANGED life
  BY DEF AppendsExit, Appends
<1>5. Written(view[e].inc, ExitedRow(e))
  BY <1>1, <1>3, <1>4, TypeRows, RowWritten DEF ExitedRow
<1>6. log[view[e].inc] \in Rows /\ log[view[e].inc].state = "TERMINATED"
  BY <1>1, <1>2, <1>3, Recorded DEF Errand
<1>8. ExitedRow(e) \in Rows /\ ExitedRow(e).pid = log[view[e].inc].pid
  BY <1>6, WithAnExit DEF ExitedRow
<1>9. Closable(e, view[e].inc, ExitedRow(e))
  BY <1>6 DEF Closable, RowOpen
<1>10. Records' /\ \A f \in Emitter \ {e} : (TicketOf(f) /\ Errand(f))'
  BY <1>2, <1>3, <1>5, <1>8, <1>9, WrittenLive
<1>11. task' = task /\ pc'[e] \in {"open", "closed"}
       /\ (Does(e, "ticket") => view'[e] = view[e])
       /\ (pc'[e] = "open" => Does(e, "ticket") /\ log[view[e].inc].session # task[e].session)
  <2>1. CASE Closes(e)
    BY <1>1, <1>2, <2>1, ClosesRows, TypeRows DEF Closes
  <2>2. CASE /\ Does(e, "ticket") /\ log[view[e].inc].session # task[e].session
             /\ Goes(e, "open") /\ UNCHANGED <<lock, task, view>>
    BY <1>1, <2>2, TypeRows DEF Goes
  <2> QED BY <2>1, <2>2 DEF AppendsExit
<1>12. NoRecord(task[e].session) => NoRecord(task[e].session)'
  <2>1. task' = task /\ Len(log') = Len(log)
        /\ \A k \in 1..Len(log) : log'[k].session = log[k].session
    BY <1>5, <1>8, <1>11 DEF Written
  <2> QED BY <2>1 DEF NoRecord
<1>13. view[e].state # "SPAWNING"
  BY <1>1, <1>2 DEF Errand
<1>14. TicketOf(e)'
  BY <1>1, <1>2, <1>4, <1>11, <1>12, <1>13 DEF TicketOf, Does, Asking
<1>15. Errand(e)'
  BY <1>1, <1>4, <1>11 DEF Errand, Does
<1> QED BY <1>10, <1>14, <1>15

\* A ticket registers its session when the pane has no open record.
LEMMA RegisterLive ==
    ASSUME LInv, crossed' = crossed, NEW e \in Emitter, TicketRegisters(e)
    PROVE  Records' /\ \A f \in Emitter : (TicketOf(f) /\ Errand(f))'
<1>1. TInv /\ Records /\ \A f \in Emitter : TicketOf(f) /\ Errand(f)
  BY DEF LInv, CInv
<1>2. RowAct(e) /\ pc[e] = "open" /\ Does(e, "ticket")
  BY DEF RowAct, TicketRegisters
<1>3. PICK s \in Session : s = task[e].session
  BY <1>1, <1>2, AtWork
<1>4. log' = Append(log, SpawnRow(s)) /\ log \in Seq(Rows) /\ Len(log) \in Nat
  BY <1>1, <1>3, TypeRows DEF TicketRegisters, Appends
<1>5. /\ Len(log') = Len(log) + 1 /\ \A k \in 1..Len(log) : log'[k] = log[k]
      /\ log'[Len(log')] = SpawnRow(s) /\ DOMAIN log' = 1..Len(log')
  BY <1>3, <1>4, SpawnWritten
<1>6. /\ view'[e] = [inc |-> Len(log'), state |-> "SPAWNING", exited |-> FALSE]
      /\ pc'[e] = "registered" /\ UNCHANGED <<task, life>> /\ OthersStay(e)
  BY <1>1, <1>2, <1>5, RowSteps, TypeRows DEF TicketRegisters, Prior, Goes
<1>7. NoRecord(s) /\ life[s] = "asked" /\ \A f \in Emitter : task[f] = task[e] => f = e
  BY <1>1, <1>2, <1>3 DEF TicketOf, Asking
<1>8. ASSUME NEW t \in Session, life[t] \in {"ticketed", "alive"}, t \notin crossed PROVE FALSE
  <2>1. LastIs(t)
    BY <1>1, <1>8 DEF Records, LaunchedAreLast
  <2>2. PriorIsOpen
    BY <2>1 DEF LastIs, RowOpen, PriorIsOpen, Prior
  <2> QED BY <2>2 DEF TicketRegisters, IsStale
<1>9. SpawnRow(s).session = s /\ RowOpen(SpawnRow(s))
  BY DEF SpawnRow, RowOpen
<1>10. OneRecord'
  <2>1. ASSUME NEW i \in 1..Len(log'), NEW j \in 1..Len(log'), log'[i].session = log'[j].session,
               i \in 1..Len(log), j \in 1..Len(log)
        PROVE  i = j
    BY <1>1, <1>5, <2>1 DEF Records, OneRecord
  <2>2. \A k \in 1..Len(log) : log'[k].session # s
    BY <1>5, <1>7 DEF NoRecord
  <2>3. \A k \in 1..Len(log') : k \in 1..Len(log) \/ k = Len(log')
    BY <1>4, <1>5
  <2>4. log'[Len(log')].session = s
    BY <1>5, <1>9
  <2> QED BY <2>1, <2>2, <2>3, <2>4 DEF OneRecord
<1>11. UnbornHaveNone'
  <2> SUFFICES ASSUME NEW t \in Session, life[t] = "unborn", NEW k \in 1..Len(log')
               PROVE  log'[k].session # t
    BY <1>6 DEF UnbornHaveNone, NoRecord
  <2>1. CASE k \in 1..Len(log)
    BY <1>1, <1>5, <2>1 DEF Records, UnbornHaveNone, NoRecord
  <2>2. CASE k = Len(log')
    BY <1>5, <1>7, <1>9, <2>2
  <2> QED BY <1>4, <1>5, <2>1, <2>2
<1>12. LaunchedAreLast' /\ OneAsked'
  BY <1>1, <1>6, <1>8 DEF Records, LaunchedAreLast, OneAsked
<1>13. ASSUME NEW f \in Emitter \ {e} PROVE TicketOf(f)' /\ Errand(f)'
  <2>1. Does(f, "ticket") => task[f].session # s /\ task[f].session \in crossed
    BY <1>2, <1>3, TwoTickets
  <2>2. pc'[f] = pc[f] /\ pc[f] \notin Writers /\ view'[f] = view[f]
    BY <1>2, <1>6, WritesAlone DEF OthersStay
  <2>3. task[f].session # s /\ NoRecord(task[f].session) => NoRecord(task[f].session)'
    <3>1. \A k \in 1..Len(log') : k \in 1..Len(log) \/ k = Len(log')
      BY <1>4, <1>5
    <3> QED BY <1>5, <1>6, <1>9, <3>1 DEF NoRecord
  <2> QED BY <1>1, <1>6, <2>1, <2>2, <2>3 DEF TicketOf, Errand, Does, Writers
<1>14. LastIs(s)'
  BY <1>4, <1>5, <1>9 DEF LastIs
<1>15. TicketOf(e)' /\ Errand(e)'
  <2>1. LastIs(task[e].session)'
    BY <1>3, <1>6, <1>14 DEF LastIs
  <2>2. log'[view'[e].inc].session = task[e].session
    BY <1>3, <1>5, <1>6, <1>9
  <2> QED BY <1>1, <1>2, <1>3, <1>6, <1>7, <2>1, <2>2 DEF TicketOf, Errand, Does, Asking
<1> QED BY <1>10, <1>11, <1>12, <1>13, <1>15 DEF Records

\* The records and their emitters survive every row.
LEMMA RowLive ==
    ASSUME LInv, crossed' = crossed, NEW e \in Emitter, RowAct(e)
    PROVE  Records' /\ \A f \in Emitter : (TicketOf(f) /\ Errand(f))'
BY ClosesLive, ReapLive, AttestLive, ExitLive, RegisterLive DEF RowAct

\* An emitter that ends takes its ticket with it, given up or handed over.
LEMMA EndsLive ==
    ASSUME LInv, crossed' = crossed, NEW e \in Emitter, Ends(e), log' = log,
           \A s \in Session :
               \/ life'[s] = life[s]
               \/ /\ task[e] = [act |-> "ticket", session |-> s] /\ life[s] = "asked"
                  /\ life'[s] = "over" \/ (life'[s] = "ticketed" /\ (s \in crossed \/ LastIs(s)))
    PROVE  Records' /\ \A f \in Emitter : (TicketOf(f) /\ Errand(f))'
<1>1. TInv /\ Records /\ \A f \in Emitter : TicketOf(f) /\ Errand(f)
  BY DEF LInv, CInv
<1>2. OthersStay(e) /\ pc'[e] = "gone" /\ task'[e] = NoTask
  <2>1. OthersStay(e)
    BY <1>1, EndsRows
  <2>2. pc' = [pc EXCEPT ![e] = "gone"] /\ task' = [task EXCEPT ![e] = NoTask]
    BY DEF Ends, Goes
  <2> QED BY <1>1, <2>1, <2>2, TypeRows
<1>3. OneRecord' /\ UnbornHaveNone' /\ LaunchedAreLast'
  <2>1. OneRecord' /\ UnbornHaveNone'
    BY <1>1 DEF Records, OneRecord, UnbornHaveNone, NoRecord
  <2>2. \A s \in Session : life'[s] \in {"ticketed", "alive"} =>
            life[s] \in {"ticketed", "alive"} \/ s \in crossed \/ LastIs(s)
    OBVIOUS
  <2>3. \A s \in Session : LastIs(s) => LastIs(s)'
    BY DEF LastIs
  <2> QED BY <1>1, <2>1, <2>2, <2>3 DEF Records, LaunchedAreLast
<1>4. \A s \in Session : \/ life'[s] = life[s]
                         \/ life[s] = "asked" /\ life'[s] \in {"over", "ticketed"}
  OBVIOUS
<1>5. ~Does(e, "ticket") => \A s \in Session : life'[s] = life[s]
  <2>1. \A s \in Session : [act |-> "ticket", session |-> s].act = "ticket"
    OBVIOUS
  <2>2. ASSUME NEW s \in Session, life'[s] # life[s] PROVE Does(e, "ticket")
    <3>1. task[e] = [act |-> "ticket", session |-> s]
      BY <2>2
    <3> QED BY <2>1, <3>1 DEF Does
  <2> QED BY <2>2
<1>6. OneAsked'
  <2>1. OneAsked
    BY <1>1 DEF Records
  <2> QED BY <1>4, <2>1 DEF OneAsked
<1>7. TicketOf(e)' /\ Errand(e)'
  BY <1>2 DEF TicketOf, Errand, Does, NoTask, None
<1>8. ASSUME NEW f \in Emitter \ {e} PROVE TicketOf(f)' /\ Errand(f)'
  <2>1. pc'[f] = pc[f] /\ task'[f] = task[f] /\ view'[f] = view[f]
    BY <1>2 DEF OthersStay
  <2>2. Errand(f)'
    <3>1. Does(f, "release") => task[f].session \in Session
      BY <1>1, AtWork DEF TInv, Place, Does, NoTask, None
    <3>2. Does(f, "release") => life'[task[f].session] = "over" \/ task[f].session \in crossed
      BY <1>1, <1>4, <3>1 DEF Errand
    <3> QED BY <1>1, <2>1, <3>2 DEF Errand, Does
  <2>3. ASSUME Does(f, "ticket") PROVE TicketOf(f)'
    <3>1. task[f] \in Task /\ task[f].session \in Session
      BY <1>1, <2>3, AtWork DEF TInv, Place, Does, NoTask, None
    <3>2. ASSUME NEW s \in Session, s = task[f].session PROVE life'[s] = life[s]
      <4>1. ASSUME task[e] = [act |-> "ticket", session |-> s] PROVE FALSE
        <5>1. Does(e, "ticket") /\ task[e].session = s
          BY <4>1 DEF Does
        <5> QED BY <2>3, <3>2, <5>1, TwoTickets
      <4> QED BY <4>1
    <3>3. life'[task[f].session] = life[task[f].session]
      BY <3>1, <3>2
    <3>4. task'[e] # task'[f]
      BY <1>2, <2>1, <2>3 DEF Does, NoTask, None
    <3>5. \A g \in Emitter : task'[g] = task'[f] => g = f
      BY <1>1, <1>2, <2>1, <2>3, <3>4 DEF TicketOf, OthersStay
    <3> QED BY <1>1, <2>1, <2>3, <3>3, <3>5 DEF TicketOf, Does, NoRecord, LastIs
  <2>4. ~Does(f, "ticket") => TicketOf(f)'
    BY <2>1 DEF TicketOf, Does
  <2> QED BY <2>2, <2>3, <2>4
<1> QED BY <1>3, <1>6, <1>7, <1>8 DEF Records

\* The records survive every step around the lock.
LEMMA LockLive ==
    ASSUME LInv, crossed' = crossed, NEW e \in Emitter, LockAct(e)
    PROVE  Records' /\ \A f \in Emitter : (TicketOf(f) /\ Errand(f))'
<1>1. TInv /\ Records /\ Place(e) /\ \A f \in Emitter : TicketOf(f) /\ Errand(f)
  BY DEF LInv, CInv, TInv
<1>2. log' = log
  BY LogStays
<1>3. CASE AdoptsNothing(e)
  BY <1>2, <1>3, EndsLive DEF AdoptsNothing
<1>4. CASE Refused(e) \/ Dies(e)
  <2>1. Ends(e) /\ GivenUp(e)
    BY <1>4 DEF Refused, Dies
  <2> QED BY <1>2, <2>1, EndsLive DEF GivenUp
<1>5. CASE Unlinks(e)
  <2>1. Ends(e)
    BY <1>5 DEF Unlinks
  <2>2. CASE GivenUp(e)
    BY <1>2, <2>1, <2>2, EndsLive DEF GivenUp
  <2>3. CASE Does(e, "ticket") /\ view[e].state = "SPAWNING" /\ Becomes(task[e].session, "ticketed")
    <3>1. /\ life[task[e].session] = "asked"
          /\ task[e].session \in crossed \/ LastIs(task[e].session)
      BY <1>1, <2>3 DEF TicketOf
    <3>2. task[e] \in Task
      BY <1>1, <1>5, AtWork DEF Unlinks
    <3>3. task[e] = [act |-> "ticket", session |-> task[e].session]
      BY <2>3, <3>2 DEF Task, Does
    <3>4. life' = [life EXCEPT ![task[e].session] = "ticketed"]
      BY <2>3 DEF Becomes
    <3> QED BY <1>1, <1>2, <2>1, <3>1, <3>3, <3>4, TypeRows, EndsLive
  <2> QED BY <1>5, <2>2, <2>3 DEF Unlinks
<1>6. CASE \/ Adopts(e) \/ Creates(e) \/ WritesPid(e) \/ JudgesGone(e) \/ Breaks(e) \/ Opens(e)
  <2>1. life' = life /\ task' = task /\ \A f \in Emitter \ {e} : view'[f] = view[f]
    BY <1>1, <1>6, TypeRows DEF Adopts, Creates, WritesPid, JudgesGone, Breaks, Opens
  <2>2. \E to \in Asking : pc' = [pc EXCEPT ![e] = to]
    BY <1>6 DEF Adopts, Creates, WritesPid, JudgesGone, Breaks, Opens, Goes, Asking
  <2>3. Does(e, "ticket") => pc[e] \in Asking /\ view'[e] = view[e]
    BY <1>1, <1>6 DEF Adopts, Creates, WritesPid, JudgesGone, Breaks, Opens, Does, Place, Asking
  <2>4. Records'
    BY <1>1, <1>2, <2>1 DEF Records, OneRecord, UnbornHaveNone, LaunchedAreLast, OneAsked,
                            NoRecord, LastIs
  <2>5. pc'[e] \in Asking /\ \A f \in Emitter \ {e} : pc'[f] = pc[f]
    BY <1>1, <2>2, TypeRows
  <2>6. TicketOf(e)' /\ Errand(e)'
    BY <1>1, <1>2, <2>1, <2>3, <2>5 DEF TicketOf, Errand, Does, NoRecord, LastIs, Asking
  <2>7. ASSUME NEW f \in Emitter \ {e} PROVE TicketOf(f)' /\ Errand(f)'
    BY <1>1, <1>2, <2>1, <2>5 DEF TicketOf, Errand, Does, NoRecord, LastIs
  <2> QED BY <2>4, <2>6, <2>7
<1> QED BY <1>3, <1>4, <1>5, <1>6 DEF LockAct

\* A ticket asked for while others are not attested crosses them, and itself
\* when one of them is not granted yet.
LEMMA AsksTicketLive ==
    ASSUME LInv, NEW e \in Emitter, NEW s \in Session, AsksTicket(e, s)
    PROVE  Records' /\ \A f \in Emitter : (TicketOf(f) /\ Errand(f))'
<1>1. TInv /\ Records /\ Place(e) /\ \A f \in Emitter : TicketOf(f) /\ Errand(f)
  BY DEF LInv, CInv, TInv
<1>2. /\ life[s] = "unborn" /\ life' = [life EXCEPT ![s] = "asked"] /\ pc[e] = "gone"
      /\ pc' = [pc EXCEPT ![e] = "wants"]
      /\ task' = [task EXCEPT ![e] = [act |-> "ticket", session |-> s]]
      /\ UNCHANGED <<log, lock, view, current, chained>>
  BY DEF AsksTicket, Becomes, Starts, Goes
<1>3. /\ life'[s] = "asked" /\ \A t \in Session \ {s} : life'[t] = life[t]
      /\ pc'[e] = "wants" /\ \A f \in Emitter \ {e} : pc'[f] = pc[f]
      /\ task'[e] = [act |-> "ticket", session |-> s]
      /\ \A f \in Emitter \ {e} : task'[f] = task[f]
  BY <1>1, <1>2, TypeRows
<1>4. /\ crossed \subseteq crossed' /\ Pending(s) \subseteq crossed'
      /\ (\E t \in Pending(s) : life[t] = "asked") => s \in crossed'
  BY DEF AsksTicket
<1>5. OneRecord' /\ UnbornHaveNone' /\ LaunchedAreLast'
  <2>1. OneRecord' /\ UnbornHaveNone'
    BY <1>1, <1>2, <1>3 DEF Records, OneRecord, UnbornHaveNone, NoRecord
  <2>2. ASSUME NEW t \in Session, t \notin crossed', life'[t] \in {"ticketed", "alive"}
        PROVE  LastIs(t)
    BY <1>1, <1>3, <1>4, <2>2 DEF Records, LaunchedAreLast
  <2> QED BY <1>2, <2>1, <2>2 DEF LaunchedAreLast, LastIs
<1>6. ASSUME NEW t \in Session \ {s}, t \notin crossed'
      PROVE  \/ life[t] \in {"unborn", "over"}
             \/ life[t] = "alive" /\ log[Len(log)].pid = t
  <2>1. t \notin Pending(s) /\ t \notin crossed
    BY <1>4, <1>6
  <2>2. life[t] \in {"unborn", "over"} \/ (life[t] = "alive" /\ Attested(t))
    BY <1>1, <2>1, TypeRows DEF Pending, Life
  <2>3. CASE life[t] = "alive" /\ Attested(t)
    <3>1. PICK i \in DOMAIN log : log[i].session = t /\ log[i].pid = t
      BY <2>3 DEF Attested
    <3>2. log[Len(log)].session = t /\ Len(log) \in 1..Len(log) /\ DOMAIN log = 1..Len(log)
      BY <1>1, <2>1, <2>3, TypeRows DEF Records, LaunchedAreLast, LastIs
    <3>3. i = Len(log)
      BY <1>1, <3>1, <3>2 DEF Records, OneRecord
    <3> QED BY <2>3, <3>1, <3>3
  <2> QED BY <2>2, <2>3
<1>7. OneAsked'
  <2> SUFFICES ASSUME NEW a \in Session, NEW t \in Session, life'[a] = "asked", t # a,
                      t \notin crossed'
               PROVE  \/ life'[t] \in {"unborn", "over"}
                      \/ life'[t] = "alive" /\ log'[Len(log')].pid = t
    BY DEF OneAsked
  <2>1. CASE t = s
    <3>1. life[a] = "asked" /\ a \in Pending(s)
      BY <1>3, <2>1 DEF Pending
    <3> QED BY <1>4, <2>1, <3>1
  <2>2. CASE t # s
    BY <1>2, <1>3, <1>6, <2>2
  <2> QED BY <2>1, <2>2
<1>8. ASSUME NEW f \in Emitter, Does(f, "ticket")
      PROVE  /\ task[f].session \in Session /\ task[f].session # s
             /\ task[f].session \in crossed'
  <2>1. task[f].session \in Session /\ life[task[f].session] = "asked"
    BY <1>1, <1>8, AtWork DEF TicketOf, TInv, Place, Does, NoTask, None
  <2>2. task[f].session \in Pending(s)
    BY <1>2, <2>1 DEF Pending
  <2> QED BY <1>2, <1>4, <2>1, <2>2
<1>9. TicketOf(e)' /\ Errand(e)'
  <2>1. view'[e] = NoView /\ NoRecord(s) /\ NoView.state # "SPAWNING"
    BY <1>1, <1>2 DEF Place, Records, UnbornHaveNone, NoView, None
  <2>2. \A f \in Emitter : task'[f] = task'[e] => f = e
    BY <1>3, <1>8 DEF Does
  <2> QED BY <1>2, <1>3, <2>1, <2>2 DEF TicketOf, Errand, Does, NoRecord
<1>10. ASSUME NEW f \in Emitter \ {e} PROVE TicketOf(f)' /\ Errand(f)'
  <2>1. Does(f, "release") => /\ task[f].session \in Session
                              /\ task[f].session = s => s \in crossed
    BY <1>1, <1>2, AtWork DEF Errand, TInv, Place, Does, NoTask, None
  <2>2. Errand(f)'
    BY <1>1, <1>2, <1>3, <1>4, <2>1 DEF Errand, Does
  <2>3. Does(f, "ticket") => task'[e] # task'[f]
    BY <1>3, <1>8 DEF Does
  <2>4. TicketOf(f)'
    BY <1>1, <1>2, <1>3, <1>8, <2>3 DEF TicketOf, Does, NoRecord, LastIs
  <2> QED BY <2>2, <2>4
<1> QED BY <1>5, <1>7, <1>9, <1>10 DEF Records

\* Attestations and releases ask for no ticket.
LEMMA AsksLive ==
    ASSUME LInv, crossed' = crossed, NEW e \in Emitter, NEW s \in Session, AsksAttest(e, s) \/ AsksRelease(e, s)
    PROVE  Records' /\ \A f \in Emitter : (TicketOf(f) /\ Errand(f))'
<1>1. TInv /\ Records /\ Place(e) /\ \A f \in Emitter : TicketOf(f) /\ Errand(f)
  BY DEF LInv, CInv, TInv
<1>2. PICK act \in {"attest", "release"} :
          /\ pc' = [pc EXCEPT ![e] = "checked"]
          /\ task' = [task EXCEPT ![e] = [act |-> act, session |-> s]]
          /\ UNCHANGED <<log, view, life>> /\ pc[e] = "gone"
          /\ act = "release" => life[s] = "over" \/ s \in crossed
  BY DEF AsksAttest, AsksRelease, Starts, Goes
<1>3. /\ pc'[e] = "checked" /\ \A f \in Emitter \ {e} : pc'[f] = pc[f]
      /\ task'[e] = [act |-> act, session |-> s]
      /\ \A f \in Emitter \ {e} : task'[f] = task[f]
  BY <1>1, <1>2, TypeRows
<1>4. Records'
  BY <1>1, <1>2 DEF Records, OneRecord, UnbornHaveNone, LaunchedAreLast, OneAsked, NoRecord, LastIs
<1>5. TicketOf(e)' /\ Errand(e)'
  BY <1>2, <1>3 DEF TicketOf, Errand, Does
<1>6. ASSUME NEW f \in Emitter \ {e} PROVE TicketOf(f)' /\ Errand(f)'
  <2>1. Errand(f)'
    BY <1>1, <1>2, <1>3 DEF Errand, Does
  <2>2. Does(f, "ticket") => task'[e] # task'[f]
    BY <1>2, <1>3 DEF Does
  <2>3. TicketOf(f)'
    BY <1>1, <1>2, <1>3, <2>2 DEF TicketOf, Does, NoRecord, LastIs
  <2> QED BY <2>1, <2>3
<1> QED BY <1>4, <1>5, <1>6

\* Nor does a session that comes alive or ends.
LEMMA SessionLive ==
    ASSUME LInv, crossed' = crossed,
           (\E s \in Session : Born(s) \/ SessionEnds(s)) \/ UNCHANGED vars
    PROVE  Records' /\ \A f \in Emitter : (TicketOf(f) /\ Errand(f))'
<1>1. TInv /\ Records /\ \A f \in Emitter : TicketOf(f) /\ Errand(f)
  BY DEF LInv, CInv, TInv
<1>2. /\ UNCHANGED <<log, pc, task, view>>
      /\ \A s \in Session : \/ life'[s] = life[s]
                            \/ life[s] = "ticketed" /\ life'[s] = "alive"
                            \/ life[s] \in {"ticketed", "alive"} /\ life'[s] = "over"
  BY <1>1, TypeRows DEF Born, SessionEnds, Becomes, vars
<1>3. OneRecord' /\ UnbornHaveNone' /\ LaunchedAreLast'
  BY <1>1, <1>2 DEF Records, OneRecord, UnbornHaveNone, LaunchedAreLast, NoRecord, LastIs
<1>4. OneAsked'
  BY <1>1, <1>2 DEF Records, OneAsked
<1>5. ASSUME NEW f \in Emitter PROVE TicketOf(f)' /\ Errand(f)'
  <2>1. Does(f, "ticket") \/ Does(f, "release") => task[f].session \in Session
    BY <1>1, AtWork DEF TInv, Place, Does, NoTask, None
  <2> QED BY <1>1, <1>2, <2>1 DEF TicketOf, Errand, Does, NoRecord, LastIs
<1> QED BY <1>3, <1>4, <1>5 DEF Records

\* The inductive step of the records.
LEMMA LiveStep == ASSUME LInv, [Next]_vars PROVE LInv'
<1>1. CInv'
  BY ChainStep DEF LInv
<1>2. ASSUME NEW e \in Emitter, Steps(e) \/ Dies(e), UNCHANGED crossed
      PROVE  Records' /\ \A f \in Emitter : (TicketOf(f) /\ Errand(f))'
  BY <1>2, LockLive, RowLive DEF Steps, LockAct, RowAct
<1>3. Records' /\ \A f \in Emitter : (TicketOf(f) /\ Errand(f))'
  <2>1. CASE \E e \in Emitter, s \in Session : AsksTicket(e, s)
    BY <2>1, AsksTicketLive
  <2>2. CASE UNCHANGED crossed /\ \E e \in Emitter, s \in Session : AsksAttest(e, s) \/ AsksRelease(e, s)
    BY <2>2, AsksLive
  <2>3. CASE UNCHANGED crossed /\ \E e \in Emitter : Steps(e) \/ Dies(e)
    BY <1>2, <2>3
  <2>4. CASE UNCHANGED crossed /\ \E s \in Session : Born(s) \/ SessionEnds(s)
    BY <2>4, SessionLive
  <2>5. CASE UNCHANGED vars
    BY <2>5, SessionLive DEF vars
  <2> QED BY <2>1, <2>2, <2>3, <2>4, <2>5 DEF Next
<1> QED BY <1>1, <1>3 DEF LInv

\* No session is born and no emitter at work.
LEMMA LiveInit == Init => LInv
<1> SUFFICES ASSUME Init PROVE LInv
  OBVIOUS
<1>1. Records
  BY DEF Init, Records, OneRecord, UnbornHaveNone, LaunchedAreLast, OneAsked, NoRecord
<1>2. \A e \in Emitter : TicketOf(e) /\ Errand(e)
  BY DEF Init, TicketOf, Errand, Does, NoTask, None
<1> QED BY <1>1, <1>2, ChainInit DEF LInv

\* While a pane's process lives, its record stays open, unless another launch or
\* release of the pane met its own: whichever release or attestation comes late,
\* and whatever becomes of the tickets asked for over it.
THEOREM LiveRecordsStayOpen == Spec => []LiveRecordsAreOpen
<1>1. LInv /\ [Next]_vars => LInv'
  BY LiveStep
<1>2. LInv => LiveRecordsAreOpen
  <2> SUFFICES ASSUME LInv, NEW s \in Session \ crossed, life[s] = "alive"
               PROVE  \E i \in DOMAIN log : /\ log[i].session = s
                                            /\ log[i].state # "TERMINATED" /\ log[i].exits = 0
    BY DEF LiveRecordsAreOpen
  <2>1. LastIs(s) /\ TInv
    BY DEF LInv, CInv, Records, LaunchedAreLast
  <2>2. Len(log) \in DOMAIN log
    BY <2>1, TypeRows DEF LastIs
  <2> QED BY <2>1, <2>2 DEF LastIs, RowOpen
<1> QED BY LiveInit, <1>1, <1>2, PTL DEF Spec

=============================================================================
