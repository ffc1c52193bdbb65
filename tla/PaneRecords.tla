----------------------------- MODULE PaneRecords -----------------------------
(***************************************************************************)
(* node_runtime/supervisor/provider_node_registration.py: the durable node *)
(* record of a worker pane, written by three kinds of short-lived          *)
(* processes (tools/live/emit_worker_launch.py).  The ticket registers the *)
(* next incarnation in SPAWNING, the attestation moves it to READY once    *)
(* the pane's process is seen, and the release closes it.                  *)
(*                                                                         *)
(* Each emitter opens one registrar, which locks the node log when it      *)
(* first needs the registry and unlocks it when it closes.  A ticket needs *)
(* it from the start.  The other two first read the log to find the        *)
(* session's record (adopt_from_log) and lock only then, to put what they  *)
(* read into the registry.                                                 *)
(*                                                                         *)
(* One pane, whose node key every session of it shares.  Of the log the    *)
(* model keeps, per incarnation, what its readers recover from the rows.   *)
(* An open file cannot be unlinked, as on Windows, which the product runs  *)
(* on; a pid is not used again while a lock file names it.                 *)
(***************************************************************************)
EXTENDS Naturals, Sequences, FiniteSets

CONSTANTS
    Emitter,          \* the emitter processes
    MaxAtWork,        \* bound: emitters at work at a time
    Session           \* the pane's sessions; also the process each one becomes

None == "none"
ASSUME PaneAssumption == None \notin Emitter /\ None \notin Session

VARIABLES
    log,              \* log[i]: what the rows of incarnation i say
    lock,             \* the lock file: who created it, and is the pid written
    pc, task,         \* where each emitter is, and what for
    view,             \* view[e]: the record e has adopted or registered
    current,          \* emitters whose cached prev_hash is the log's last hash
    chained,          \* every row so far continued the hash chain
    life,             \* life[s]: how far the pane's session s has come
    crossed           \* history: the sessions whose launch met another one of
                      \* the pane, or a release of it

vars == <<log, lock, pc, task, view, current, chained, life, crossed>>

NoLock == [by |-> None, written |-> FALSE]
NoTask == [act |-> None, session |-> None]
NoView == [inc |-> 0, state |-> None, exited |-> FALSE]

\* "unborn", or "over" once it cannot come alive any more.
Life == {"unborn", "asked", "ticketed", "alive", "over"}
\* "checked": attest has seen the pid alive, release has its arguments; "wants",
\* "retries": first and second attempt at the lock; "breaks": about to unlink a
\* dead holder's lock; "created": the lock file has no pid yet; "locked": it
\* has; "open": the log is open; "registered": the ticket has its spawn row;
\* "exits": record_exit between its two rows; "closed": the lock's file closed.
PC == {"gone", "checked", "wants", "retries", "breaks", "created", "locked",
       "open", "registered", "exits", "closed"}
HasItOpen(e) == pc[e] \in {"created", "locked", "open", "registered", "exits"}

Init == /\ log = <<>>
        /\ lock = NoLock
        /\ pc = [e \in Emitter |-> "gone"]
        /\ task = [e \in Emitter |-> NoTask]
        /\ view = [e \in Emitter |-> NoView]
        /\ current = {}
        /\ chained = TRUE
        /\ life = [s \in Session |-> "unborn"]
        /\ crossed = {}

Goes(e, to) == pc' = [pc EXCEPT ![e] = to]
Becomes(s, to) == life' = [life EXCEPT ![s] = to]
Does(e, act) == task[e].act = act

\* The ticket e was asked for has come to nothing.
GivenUp(e) == life' = [s \in Session |-> IF /\ task[e] = [act |-> "ticket", session |-> s]
                                            /\ life[s] = "asked"
                                         THEN "over" ELSE life[s]]

\* An emitter process ends; what it leaves is on disk.
Ends(e) == /\ Goes(e, "gone")
           /\ task' = [task EXCEPT ![e] = NoTask]
           /\ view' = [view EXCEPT ![e] = NoView]
           /\ current' = current \ {e}

Starts(e, act, s, at) ==
    /\ pc[e] = "gone" /\ lock.by # e
    /\ Cardinality({f \in Emitter : pc[f] # "gone"}) < MaxAtWork
    /\ Goes(e, at)
    /\ task' = [task EXCEPT ![e] = [act |-> act, session |-> s]]
    /\ UNCHANGED <<log, lock, view, current, chained>>

----------------------------------------------------------------------------
(* The launcher, as the shell's worker-spawn.js drives the emitters.  A     *)
(* shell may be killed and another started at any point: emitters go on.   *)

Attested(s) == \E i \in DOMAIN log : log[i].session = s /\ log[i].pid = s

\* The other sessions whose tickets are asked for and not yet attested.
Pending(s) == {t \in Session \ {s} : \/ life[t] \in {"asked", "ticketed"}
                                     \/ life[t] = "alive" /\ ~Attested(t)}

\* A launch is asked for, whatever the pane has: neither a second click nor a
\* restarted shell asks whether an earlier launch is over.  The launcher may
\* also have an earlier launch or release of the pane before it, which the
\* model does not keep; then it is s that the earlier one's end releases.
AsksTicket(e, s) ==
    /\ life[s] = "unborn"
    /\ Starts(e, "ticket", s, "wants")
    /\ Becomes(s, "asked")
    /\ \E met \in SUBSET {s} :
          /\ (\E t \in Pending(s) : life[t] = "asked") => s \in met
          /\ crossed' = crossed \cup Pending(s) \cup met

Born(s) == /\ life[s] = "ticketed"
           /\ Becomes(s, "alive")
           /\ UNCHANGED <<log, lock, pc, task, view, current, chained>>

\* The process exits, or cannot be spawned.
SessionEnds(s) == /\ life[s] \in {"ticketed", "alive"}
                  /\ Becomes(s, "over")
                  /\ UNCHANGED <<log, lock, pc, task, view, current, chained>>

\* attest_spawned() with a pid that is alive when it asks.
AsksAttest(e, s) == /\ life[s] = "alive"
                    /\ Starts(e, "attest", s, "checked")
                    /\ UNCHANGED life

\* A session that is over is released, and again when that failed; a crossed one
\* at any time, since the pane's record may carry its key and another's process.
AsksRelease(e, s) == /\ life[s] = "over" \/ s \in crossed
                     /\ Starts(e, "release", s, "checked")
                     /\ UNCHANGED life

----------------------------------------------------------------------------
(* What is read without the lock: the latest incarnation of the node key   *)
(* (adopt_from_log).                                                       *)

Adopts(e) ==
    /\ pc[e] = "checked"
    /\ Len(log) > 0
    /\ view' = [view EXCEPT ![e] = [inc |-> Len(log),
                                    state |-> log[Len(log)].state,
                                    exited |-> log[Len(log)].exits > 0]]
    /\ Goes(e, "wants")
    /\ UNCHANGED <<log, lock, task, current, chained, life>>

AdoptsNothing(e) ==
    /\ pc[e] = "checked"
    /\ Len(log) = 0
    /\ Ends(e)
    /\ UNCHANGED <<log, lock, chained, life>>

----------------------------------------------------------------------------
(* The log's lock (_acquire_lock, _release_lock).                          *)

Creates(e) ==
    /\ pc[e] \in {"wants", "retries"}
    /\ lock = NoLock
    /\ lock' = [by |-> e, written |-> FALSE]
    /\ Goes(e, "created")
    /\ UNCHANGED <<log, task, view, current, chained, life>>

WritesPid(e) ==
    /\ pc[e] = "created"
    /\ lock' = IF lock.by = e THEN [by |-> e, written |-> TRUE] ELSE lock
    /\ Goes(e, "locked")
    /\ UNCHANGED <<log, task, view, current, chained, life>>

\* A stamp that is not there is a live holder's.
HolderIsGone == lock # NoLock /\ lock.written /\ pc[lock.by] = "gone"

JudgesGone(e) ==
    /\ pc[e] = "wants"
    /\ HolderIsGone
    /\ Goes(e, "breaks")
    /\ UNCHANGED <<log, lock, task, view, current, chained, life>>

Deletable == \A e \in Emitter : lock.by = e => ~HasItOpen(e)

Breaks(e) ==
    /\ pc[e] = "breaks"
    /\ lock' = IF Deletable THEN NoLock ELSE lock
    /\ Goes(e, "retries")
    /\ UNCHANGED <<log, task, view, current, chained, life>>

\* Mutant of Refused: after the second attempt the log is opened anyway.
RefusedOnce(e) ==
    /\ pc[e] \in {"wants", "retries"}
    /\ lock # NoLock
    /\ pc[e] = "wants" => ~HolderIsGone
    /\ Goes(e, IF pc[e] = "wants" THEN "wants" ELSE "locked")
    /\ UNCHANGED <<log, lock, task, view, current, chained, life>>

\* A live holder at the first attempt, any holder at the second: no wait.
Refused(e) ==
    /\ pc[e] \in {"wants", "retries"}
    /\ lock # NoLock
    /\ pc[e] = "wants" => ~HolderIsGone
    /\ Ends(e)
    /\ GivenUp(e)
    /\ UNCHANGED <<log, lock, chained>>

\* AppendOnlyEventLog opens: the last row's hash is cached.
Opens(e) ==
    /\ pc[e] = "locked"
    /\ current' = current \cup {e}
    /\ Goes(e, "open")
    /\ UNCHANGED <<log, lock, task, view, chained, life>>

\* close(): the registry's view goes, the log is closed, then the lock's file ...
Closes(e) == /\ Goes(e, "closed")
             /\ view' = [view EXCEPT ![e] = IF Does(e, "ticket") THEN @ ELSE NoView]
             /\ UNCHANGED <<lock, task>>

\* ... which is unlinked then, if the system lets it.  The launcher reads what
\* the emitter prints: a ticket, when its record is the one it registered.
Unlinks(e) ==
    /\ pc[e] = "closed"
    /\ lock' \in {lock} \cup (IF Deletable THEN {NoLock} ELSE {})
    /\ Ends(e)
    /\ IF Does(e, "ticket") /\ view[e].state = "SPAWNING"
       THEN Becomes(task[e].session, "ticketed")
       ELSE GivenUp(e)
    /\ UNCHANGED <<log, chained>>

----------------------------------------------------------------------------
(* The rows.                                                               *)

\* e appends a row, which turns the digest of the log into `rows`; it continues
\* the chain if nobody has appended since e opened the log.
Appends(e, rows) == /\ log' = rows
                    /\ chained' = (chained /\ e \in current)
                    /\ current' = current \cap {e}

SpawnRow(s) == [session |-> s, state |-> "SPAWNING", pid |-> None, exits |-> 0]

\* record_exit(): the TERMINATED row, and from "exits" the exit row.  Whether an
\* incarnation has one is all its readers ask, so two of them count as one.
AppendsTerminated(e, i) == /\ Appends(e, [log EXCEPT ![i].state = "TERMINATED"])
                           /\ view' = [view EXCEPT ![e] = [inc |-> i, state |-> "TERMINATED",
                                                           exited |-> FALSE]]
                           /\ Goes(e, "exits")

AppendsExit(e) ==
    /\ pc[e] = "exits"
    /\ Appends(e, [log EXCEPT ![view[e].inc].exits = 1])
    /\ IF Does(e, "ticket") /\ log[view[e].inc].session # task[e].session
       THEN Goes(e, "open") /\ UNCHANGED <<lock, task, view>>
       ELSE Closes(e)
    /\ UNCHANGED life

\* What _reap_stale_incarnation asks of the incarnation before the next one.
Prior == Len(log)
PriorIsOpen == Prior > 0 /\ log[Prior].exits = 0 /\ log[Prior].state # "TERMINATED"

\* Mutant of PriorIsLive: the recorded pid is not asked for.
PriorIsNeverLive == FALSE

PriorIsLive == PriorIsOpen /\ log[Prior].pid # None /\ life[log[Prior].pid] = "alive"

TicketRefused(e) ==
    /\ pc[e] = "open" /\ Does(e, "ticket")
    /\ PriorIsLive
    /\ Closes(e)
    /\ UNCHANGED <<log, current, chained, life>>

\* Left open, and its pid is no live process or was never recorded.
IsStale == PriorIsOpen /\ ~PriorIsLive

TicketReaps(e) ==
    /\ pc[e] = "open" /\ Does(e, "ticket")
    /\ IsStale
    /\ AppendsTerminated(e, Prior)
    /\ UNCHANGED <<lock, task, life>>

TicketRegisters(e) ==
    /\ pc[e] = "open" /\ Does(e, "ticket")
    /\ ~IsStale /\ ~PriorIsLive
    /\ Appends(e, Append(log, SpawnRow(task[e].session)))
    /\ view' = [view EXCEPT ![e] = [inc |-> Prior + 1, state |-> "SPAWNING",
                                    exited |-> FALSE]]
    /\ Goes(e, "registered")
    /\ UNCHANGED <<lock, task, life>>

\* The gates after the registration admit the launch ...
Issues(e) ==
    /\ pc[e] = "registered"
    /\ Closes(e)
    /\ UNCHANGED <<log, current, chained, life>>

\* ... or one of them refuses it, and the record is closed again.
RefusedAfterwards(e) ==
    /\ pc[e] = "registered"
    /\ AppendsTerminated(e, view[e].inc)
    /\ UNCHANGED <<lock, task, life>>

\* Mutant of ItsRecord: the latest record for the node key will do.
AnyRecord(e) == pc[e] = "open" /\ view[e].inc > 0

\* The record read is the session's: its node_id is the one derived from this
\* session and incarnation (_adopt_for_session).
ItsRecord(e) == pc[e] = "open" /\ log[view[e].inc].session = task[e].session

NotItsRecord(e) ==
    /\ pc[e] = "open" /\ task[e].act \in {"attest", "release"}
    /\ ~ItsRecord(e)
    /\ Closes(e)
    /\ UNCHANGED <<log, current, chained, life>>

\* attest_spawned(), judging by the state it has read.
Attests(e) ==
    /\ Does(e, "attest") /\ ItsRecord(e)
    /\ view[e].state = "SPAWNING"
    /\ Appends(e, [log EXCEPT ![view[e].inc].state = "READY",
                              ![view[e].inc].pid = task[e].session])
    /\ Closes(e)
    /\ UNCHANGED life

AttestRefused(e) ==
    /\ Does(e, "attest") /\ ItsRecord(e)
    /\ view[e].state # "SPAWNING"
    /\ Closes(e)
    /\ UNCHANGED <<log, current, chained, life>>

\* close_session_record(), judging by the record it has read.
AlreadyClosed(e) == view[e].state = "TERMINATED" \/ view[e].exited

ReleaseCloses(e) ==
    /\ Does(e, "release") /\ ItsRecord(e)
    /\ ~AlreadyClosed(e)
    /\ AppendsTerminated(e, view[e].inc)
    /\ UNCHANGED <<lock, task, life>>

ReleaseFindsClosed(e) ==
    /\ Does(e, "release") /\ ItsRecord(e)
    /\ AlreadyClosed(e)
    /\ Closes(e)
    /\ UNCHANGED <<log, current, chained, life>>

----------------------------------------------------------------------------
\* An emitter is killed (the launcher's timeout, the end of the shell).
Dies(e) == /\ pc[e] # "gone"
           /\ Ends(e)
           /\ GivenUp(e)
           /\ UNCHANGED <<log, lock, chained>>

Steps(e) == \/ Adopts(e) \/ AdoptsNothing(e)
            \/ Creates(e) \/ WritesPid(e) \/ JudgesGone(e) \/ Breaks(e) \/ Refused(e)
            \/ Opens(e) \/ Unlinks(e) \/ AppendsExit(e)
            \/ TicketRefused(e) \/ TicketReaps(e) \/ TicketRegisters(e)
            \/ Issues(e) \/ RefusedAfterwards(e)
            \/ NotItsRecord(e) \/ Attests(e) \/ AttestRefused(e)
            \/ ReleaseCloses(e) \/ ReleaseFindsClosed(e)

Next == \/ \E e \in Emitter, s \in Session : AsksTicket(e, s)
        \/ /\ UNCHANGED crossed
           /\ \/ \E e \in Emitter, s \in Session : AsksAttest(e, s) \/ AsksRelease(e, s)
              \/ \E e \in Emitter : Steps(e) \/ Dies(e)
              \/ \E s \in Session : Born(s) \/ SessionEnds(s)

Spec == Init /\ [][Next]_vars

----------------------------------------------------------------------------
Rows == [session : Session, state : {"SPAWNING", "READY", "TERMINATED"},
         pid : Session \cup {None}, exits : {0, 1}]

\* Type invariant of the log, its lock and the emitters ...
EmittersOK ==
    /\ log \in Seq(Rows)
    /\ lock \in [by : Emitter, written : BOOLEAN] \cup {NoLock}
    /\ pc \in [Emitter -> PC]
    /\ task \in [Emitter -> [act : {"ticket", "attest", "release"}, session : Session]
                              \cup {NoTask}]
    /\ \A e \in Emitter : view[e] = NoView \/ view[e].inc \in DOMAIN log
    /\ current \subseteq Emitter
    /\ chained \in BOOLEAN
    /\ life \in [Session -> Life]

\* ... and of the history.
TypeOK == EmittersOK /\ crossed \subseteq Session

\* Whoever crashes or reclaims the lock, no emitter appends with a stale
\* prev_hash: the chain that AppendOnlyEventLog refuses to reopen once broken
\* ("a permanently broken chain") never breaks.
ChainIsUnbroken == chained

\* No record is ever attested with the process of another session of the pane,
\* however late an attestation comes (the fence of _adopt_for_session).
PidsAreTheSessions == \A i \in DOMAIN log : log[i].pid \in {None, log[i].session}

\* While a pane's process lives its record is open, when its launch met no other
\* launch or release of the pane before it was attested: no late release or
\* attestation of another session closes it, nor a ticket asked for over it,
\* granted, refused or killed at any point, nor the reap (_reap_stale_incarnation).
LiveRecordsAreOpen ==
    \A s \in Session \ crossed : life[s] = "alive" =>
        \E i \in DOMAIN log : /\ log[i].session = s
                              /\ log[i].state # "TERMINATED" /\ log[i].exits = 0

============================================================================
