---------------------------- MODULE WorkerPanes ----------------------------
(***************************************************************************)
(* The governed worker panes of the desktop shell: the launcher of          *)
(* apps/desktop/picker/worker-spawn.js over the SessionManager of           *)
(* terminal/conpty/session-manager.js, its registry                         *)
(* terminal/session/session-registry.js, and the durable terminal ledger.   *)
(*                                                                         *)
(* All of it runs on one event loop.  An action is what runs between two    *)
(* awaits: a click up to its ticket request, the answer of the ticket       *)
(* emitter, a terminal release starting, the answer of that release, a      *)
(* process-exit callback, a kill.  Between them any other may run.          *)
(*                                                                         *)
(* A session key is the number of its launch; the process a launch gives    *)
(* birth to (its pid and generation) goes by the same number.  Every launch *)
(* here is of a frontier model: a local one takes no terminal, and its      *)
(* releases reclaim nothing.                                                *)
(***************************************************************************)
EXTENDS Naturals, FiniteSets

CONSTANTS
    Pane,             \* the panes of the shell
    MaxLaunch,        \* bound: launches that get as far as a session key
    Allowance,        \* durable terminals the operator's subscription grants
    MaxPass           \* bound: passes of the retry timer under way at a time

ASSUME PanesAssumption == /\ MaxLaunch \in Nat \ {0}
                          /\ Allowance \in Nat \ {0}
                          /\ MaxPass \in Nat \ {0}

Session == 1..MaxLaunch
Pass == 1..MaxPass
Direct == 0           \* a release that no retry pass made
NoSession == 0        \* no session key, no process

VARIABLES
    record,           \* record[p]: the launcher's record of pane p
    registry,         \* registry[p]: the SessionRegistry entry of p and whose it is
    pty,              \* pty[p]: the process whose exit ConPTY has not confirmed
    ledger,           \* the sessions that hold a durable terminal
    asking,           \* <<s, p>>: launches awaiting their ticket
    granted,          \* the sessions whose emitter got a terminal: their tickets authorize
    releasing,        \* terminal releases awaiting their answer
    todo,             \* todo[k]: the records retry pass k has yet to release, as it found them
    retryArmed,       \* the 30 s retry timer is set
    launches,         \* the launcher's seq
    supervised,       \* supervisor.ready
    crossed           \* history: the sessions whose launches crossed, see LaunchAsks

vars == <<record, registry, pty, ledger, asking, granted, releasing, todo, retryArmed, launches,
          supervised, crossed>>

\* "ended" stands for refused, unavailable, failed and exited alike.
HELD == {"running", "launching", "terminating", "release_pending", "release_failed"}
RecordState == HELD \cup {"unstarted", "ended"}
\* "ENDED" stands for EXITED, KILLED and REFUSED: none is live, none is left.
SessionState == {"RUNNING", "ENDED"}
NoEntry == "none"

\* prebirth: the release that failed was of a launch with no process
\* (releaseTargetState is set).
emptyRecord == [state |-> "unstarted", session |-> NoSession, process |-> NoSession,
                prebirth |-> FALSE]

Init == /\ record = [p \in Pane |-> emptyRecord]
        /\ registry = [p \in Pane |-> [state |-> NoEntry, process |-> NoSession]]
        /\ pty = [p \in Pane |-> NoSession]
        /\ ledger = {}
        /\ asking = {}
        /\ granted = {}
        /\ releasing = {}
        /\ todo = [k \in Pass |-> {}]
        /\ retryArmed = FALSE
        /\ launches = 0
        /\ supervised = TRUE
        /\ crossed = {}

\* Is this pane's record a session this launcher still holds?
isHeld(p) == record[p].state \in HELD /\ record[p].session # NoSession

hasLiveSession(p) == registry[p].state = "RUNNING"

\* set(): a patch over the pane's record, whatever that record is by now.
Patch(p, state, prebirth) ==
    [record EXCEPT ![p] = [state |-> state, session |-> record[p].session,
                           process |-> record[p].process, prebirth |-> prebirth]]

PatchBorn(p, state, s) ==
    [record EXCEPT ![p] = [state |-> state, session |-> record[p].session,
                           process |-> s, prebirth |-> record[p].prebirth]]

Release(p, s, prebirth, by) == [pane |-> p, session |-> s, prebirth |-> prebirth, by |-> by]

\* The sessions of pane p whose launch or release is not over: a ticket or a
\* release is awaited, a retry pass has the release before it, or the record
\* is held still.
UnderWay(p) == {s \in Session :
    \/ <<s, p>> \in asking
    \/ \E r \in releasing : r.pane = p /\ r.session = s
    \/ \E k \in Pass : \E e \in todo[k] : e.pane = p /\ e.session = s
    \/ isHeld(p) /\ record[p].session = s}

\* Mutant of LaunchRefused: a refusal marks whatever record the pane has.
LaunchRefusedMarks(p) ==
    /\ ~supervised \/ hasLiveSession(p) \/ pty[p] # NoSession
    /\ record' = Patch(p, "ended", record[p].prebirth)
    /\ UNCHANGED <<registry, pty, ledger, asking, granted, releasing, todo, retryArmed,
                   launches, supervised, crossed>>

\* Steps (1) and (2) of a launch refuse: no supervision, a live session in the
\* pane, or an ended one whose process has not confirmed its exit.  refuse()
\* marks the record only when it holds nothing.
LaunchRefused(p) ==
    /\ ~supervised \/ hasLiveSession(p) \/ pty[p] # NoSession
    /\ record' = IF isHeld(p) THEN record ELSE Patch(p, "ended", record[p].prebirth)
    /\ UNCHANGED <<registry, pty, ledger, asking, granted, releasing, todo, retryArmed,
                   launches, supervised, crossed>>

\* Step (3): the pane has no live session, so the ended entry is forgotten, the
\* session key is chosen, the record starts over, and the ticket is requested:
\* also when an earlier launch or release of the pane is still under way, whose
\* record this one replaces and whose answer will mark this one's.
LaunchAsks(p) ==
    /\ supervised /\ ~hasLiveSession(p) /\ pty[p] = NoSession
    /\ launches < MaxLaunch
    /\ launches' = launches + 1
    /\ registry' = [registry EXCEPT ![p] = [state |-> NoEntry, process |-> NoSession]]
    /\ record' = [record EXCEPT ![p] = [state |-> "launching", session |-> launches + 1,
                                        process |-> NoSession, prebirth |-> FALSE]]
    /\ asking' = asking \cup {<<launches + 1, p>>}
    /\ crossed' = IF UnderWay(p) = {} THEN crossed
                  ELSE crossed \cup UnderWay(p) \cup {launches + 1}
    /\ UNCHANGED <<pty, ledger, granted, releasing, todo, retryArmed, supervised>>

\* The emitter process counts the session's terminal, if one is left.
EmitterAcquires(s, p) ==
    /\ <<s, p>> \in asking
    /\ s \notin granted
    /\ Cardinality(ledger) < Allowance
    /\ ledger' = ledger \cup {s}
    /\ granted' = granted \cup {s}
    /\ UNCHANGED <<record, registry, pty, asking, releasing, todo, retryArmed, launches,
                   supervised, crossed>>

\* The launch is over before any process was born: releasePrebirthRecord.  The
\* emitter of a refused ticket has handed its own terminal back already.
GiveUpLaunch(s, p) ==
    /\ asking' = asking \ {<<s, p>>}
    /\ granted' = granted \ {s}
    /\ releasing' = releasing \cup {Release(p, s, TRUE, Direct)}
    /\ UNCHANGED <<record, registry, pty, todo, retryArmed, launches, supervised, crossed>>

\* Mutant of TicketUndelivered: no lease id was learned, so nothing is released.
TicketUndeliveredForgets(s, p) ==
    /\ <<s, p>> \in asking
    /\ asking' = asking \ {<<s, p>>}
    /\ granted' = granted \ {s}
    /\ record' = Patch(p, "ended", FALSE)
    /\ UNCHANGED <<registry, pty, ledger, releasing, todo, retryArmed, launches, supervised,
                   crossed>>

TicketUndelivered(s, p) ==
    /\ <<s, p>> \in asking
    /\ GiveUpLaunch(s, p)
    /\ UNCHANGED ledger

TicketRefused(s, p) ==
    /\ <<s, p>> \in asking
    /\ ledger' = ledger \ {s}
    /\ GiveUpLaunch(s, p)

\* An authorized ticket, and SessionManager.spawn or a check before it throws
\* with no process born: a leftover credential, a live handle or entry in the
\* pane, admission refused, the ConPTY factory.
SpawnFailsBeforeBirth(s, p) ==
    /\ <<s, p>> \in asking
    /\ s \in granted
    /\ GiveUpLaunch(s, p)
    /\ UNCHANGED ledger

CanBeBorn(s, p) == /\ <<s, p>> \in asking
                   /\ s \in granted
                   /\ supervised
                   /\ pty[p] = NoSession
                   /\ registry[p].state = NoEntry

\* The governed spawn: admitted, born, admitted again, running.
SpawnRuns(s, p) ==
    /\ CanBeBorn(s, p)
    /\ pty' = [pty EXCEPT ![p] = s]
    /\ registry' = [registry EXCEPT ![p] = [state |-> "RUNNING", process |-> s]]
    /\ record' = PatchBorn(p, "running", s)
    /\ asking' = asking \ {<<s, p>>}
    /\ granted' = granted \ {s}
    /\ UNCHANGED <<ledger, releasing, todo, retryArmed, launches, supervised, crossed>>

\* Mutant of SpawnRolledBack: any throw of the spawn is taken for a pre-birth one.
SpawnRolledBackReleases(s, p) ==
    /\ CanBeBorn(s, p)
    /\ pty' = [pty EXCEPT ![p] = s]
    /\ registry' = [registry EXCEPT ![p] = [state |-> "ENDED", process |-> s]]
    /\ asking' = asking \ {<<s, p>>}
    /\ granted' = granted \ {s}
    /\ releasing' = releasing \cup {Release(p, s, TRUE, Direct)}
    /\ UNCHANGED <<record, ledger, todo, retryArmed, launches, supervised, crossed>>

\* Born and then not admitted (REFUSED), or rolled back by the pane wiring
\* (KILLED): the process is signalled and its terminal kept until it exits.
SpawnRolledBack(s, p) ==
    /\ CanBeBorn(s, p)
    /\ pty' = [pty EXCEPT ![p] = s]
    /\ registry' = [registry EXCEPT ![p] = [state |-> "ENDED", process |-> s]]
    /\ record' = PatchBorn(p, "terminating", s)
    /\ asking' = asking \ {<<s, p>>}
    /\ granted' = granted \ {s}
    /\ UNCHANGED <<ledger, releasing, todo, retryArmed, launches, supervised, crossed>>

\* SessionManager.kill, and the "kill" event the launcher sees.
KilledEntries(P) ==
    [p \in Pane |-> IF p \in P THEN [state |-> "ENDED", process |-> registry[p].process]
                    ELSE registry[p]]
KilledRecords(P) ==
    [p \in Pane |-> IF /\ p \in P
                       /\ record[p].state \in {"running", "terminating"}
                       /\ record[p].process = pty[p]
                    THEN [state |-> "terminating", session |-> record[p].session,
                          process |-> record[p].process, prebirth |-> record[p].prebirth]
                    ELSE record[p]]

\* An operator or the conductor ends a session.  A session that is KILLED or
\* REFUSED already cannot be killed again (an illegal transition).
Kill(p) ==
    /\ hasLiveSession(p)
    /\ registry' = KilledEntries({p})
    /\ record' = KilledRecords({p})
    /\ UNCHANGED <<pty, ledger, asking, granted, releasing, todo, retryArmed, launches,
                   supervised, crossed>>

\* Supervision goes: the fail-closed killAll.
SupervisionLost ==
    LET running == {p \in Pane : hasLiveSession(p)}
    IN  /\ supervised
        /\ supervised' = FALSE
        /\ registry' = KilledEntries(running)
        /\ record' = KilledRecords(running)
        /\ UNCHANGED <<pty, ledger, asking, granted, releasing, todo, retryArmed, launches,
                       crossed>>

SupervisionReady ==
    /\ ~supervised
    /\ supervised' = TRUE
    /\ UNCHANGED <<record, registry, pty, ledger, asking, granted, releasing, todo, retryArmed,
                   launches, crossed>>

\* ConPTY confirms the exit: the handle goes, the entry ends, and the launcher,
\* when its record names exactly this process, starts releasing the record's
\* session key (onWorkerSessionEnded, releaseEndedRecord up to its await).
ProcessExits(p) ==
    /\ pty[p] # NoSession
    /\ pty' = [pty EXCEPT ![p] = NoSession]
    /\ registry' = IF registry[p] = [state |-> "RUNNING", process |-> pty[p]]
                   THEN [registry EXCEPT ![p] = [state |-> "ENDED", process |-> pty[p]]]
                   ELSE registry
    /\ IF /\ record[p].state \in {"running", "terminating"}
          /\ record[p].process = pty[p]
       THEN /\ record' = Patch(p, "release_pending", record[p].prebirth)
            /\ releasing' = releasing \cup {Release(p, record[p].session, FALSE, Direct)}
       ELSE UNCHANGED <<record, releasing>>
    /\ UNCHANGED <<ledger, asking, granted, todo, retryArmed, launches, supervised, crossed>>

\* The ledger confirms a release; the continuation marks the pane's record.
ReleaseSucceeds(r) ==
    /\ r \in releasing
    /\ ledger' = ledger \ {r.session}
    /\ releasing' = releasing \ {r}
    /\ record' = Patch(r.pane, "ended", record[r.pane].prebirth /\ ~r.prebirth)
    /\ UNCHANGED <<registry, pty, asking, granted, todo, retryArmed, launches, supervised,
                   crossed>>

\* Mutant of ReleaseFails: the timer is not set.
ReleaseFailsSilently(r) ==
    /\ r \in releasing
    /\ releasing' = releasing \ {r}
    /\ record' = Patch(r.pane, "release_failed", r.prebirth \/ record[r.pane].prebirth)
    /\ UNCHANGED <<registry, pty, ledger, asking, granted, todo, retryArmed, launches,
                   supervised, crossed>>

\* The release faults, before or after it reached the ledger: the record waits
\* for the retry timer.
ReleaseFails(r) ==
    /\ r \in releasing
    /\ ledger' \in {ledger, ledger \ {r.session}}
    /\ releasing' = releasing \ {r}
    /\ record' = Patch(r.pane, "release_failed", r.prebirth \/ record[r.pane].prebirth)
    /\ retryArmed' = TRUE
    /\ UNCHANGED <<registry, pty, asking, granted, todo, launches, supervised, crossed>>

\* Pass k starts the release of a record as it found it: releaseEndedRecord
\* marks the pane's record first, releasePrebirthRecord does not.
Begins(k, e) ==
    /\ releasing' = releasing \cup {Release(e.pane, e.session, e.prebirth, k)}
    /\ record' = IF e.prebirth THEN record
                 ELSE Patch(e.pane, "release_pending", record[e.pane].prebirth)

Idle(k) == todo[k] = {} /\ \A r \in releasing : r.by # k

\* The retry timer fires: a pass over the records of P, as they are now, the
\* first of them at once.
RetryOver(k, P) ==
    LET found == {[pane |-> p, session |-> record[p].session, prebirth |-> record[p].prebirth] :
                     p \in P}
    IN  /\ retryArmed
        /\ Idle(k)
        /\ retryArmed' = FALSE
        /\ \/ found = {} /\ UNCHANGED <<record, releasing, todo>>
           \/ \E e \in found : Begins(k, e) /\ todo' = [todo EXCEPT ![k] = found \ {e}]
        /\ UNCHANGED <<registry, pty, ledger, asking, granted, launches, supervised, crossed>>

\* Mutant of Retry: it goes over the records in every state.
RetryEveryRecord(k) == RetryOver(k, Pane)

\* retryPendingReleases, over every record in release_failed.  The timer may be
\* set again and fire before an earlier pass is over (pass k is one that is not
\* under way), and then a key may have two releases awaited at a time.
Retry(k) == RetryOver(k, {p \in Pane : record[p].state = "release_failed"})

\* A release of pass k is answered, and the pass goes on to its next record,
\* whatever became of it meanwhile.
PassGoesOn(k) ==
    /\ \A r \in releasing : r.by # k
    /\ \E e \in todo[k] : Begins(k, e) /\ todo' = [todo EXCEPT ![k] = @ \ {e}]
    /\ UNCHANGED <<registry, pty, ledger, asking, granted, retryArmed, launches, supervised,
                   crossed>>

Next == \/ \E p \in Pane : \/ LaunchRefused(p) \/ LaunchAsks(p)
                           \/ Kill(p) \/ ProcessExits(p)
        \/ \E p \in Pane, s \in Session :
              \/ EmitterAcquires(s, p)
              \/ TicketUndelivered(s, p) \/ TicketRefused(s, p)
              \/ SpawnFailsBeforeBirth(s, p) \/ SpawnRuns(s, p) \/ SpawnRolledBack(s, p)
        \/ \E r \in releasing : ReleaseSucceeds(r) \/ ReleaseFails(r)
        \/ \E k \in Pass : Retry(k) \/ PassGoesOn(k)
        \/ SupervisionLost \/ SupervisionReady

Spec == Init /\ [][Next]_vars

----------------------------------------------------------------------------
\* Type invariant of the launcher, the session manager and the ledger.
TypeOK ==
    /\ record \in [Pane -> [state : RecordState, session : Session \cup {NoSession},
                            process : Session \cup {NoSession}, prebirth : BOOLEAN]]
    /\ registry \in [Pane -> [state : SessionState \cup {NoEntry},
                              process : Session \cup {NoSession}]]
    /\ pty \in [Pane -> Session \cup {NoSession}]
    /\ ledger \subseteq Session
    /\ asking \subseteq Session \X Pane
    /\ granted \subseteq Session
    /\ releasing \subseteq [pane : Pane, session : Session, prebirth : BOOLEAN,
                            by : Pass \cup {Direct}]
    /\ todo \in [Pass -> SUBSET [pane : Pane, session : Session, prebirth : BOOLEAN]]
    /\ retryArmed \in BOOLEAN
    /\ launches \in 0..MaxLaunch
    /\ supervised \in BOOLEAN
    /\ crossed \subseteq Session

\* The properties below are of the sessions whose launches did not cross
\* another launch or release of their pane; what happens to the others is in
\* every behaviour, and is where the code loses terminals (README, section 6).

\* A record never loses the process it stands for: as long as ConPTY has not
\* confirmed the exit of a pane's process, the pane's record is running or
\* terminating under that very process and the session key that was counted for
\* it ("a refusal NEVER overwrites the record of a session this launcher still
\* holds"; every later release keys on this record).
RecordNamesItsProcess ==
    \A p \in Pane : pty[p] \notin crossed \cup {NoSession} =>
        /\ record[p].state \in {"running", "terminating"}
        /\ record[p].process = pty[p]
        /\ record[p].session = pty[p]

\* heldSessions() accounts for the ledger: every counted terminal belongs to a
\* record the launcher still holds, so the quit check that finds no held session
\* leaves no terminal counted (D-LOOP-1).
HeldAccountsForLedger ==
    \A s \in ledger \ crossed : \E p \in Pane : isHeld(p) /\ record[p].session = s

\* The launcher and its ledger keep the subscription's accounts: TerminalCount,
\* of the whole ledger and of the processes whose launches did not cross.
Count == INSTANCE TerminalCount WITH
            counted <- ledger,
            alive <- {pty[p] : p \in Pane} \ (crossed \cup {NoSession})
ImplementsTerminalCount == Count!Spec

----------------------------------------------------------------------------
(* Every answer comes: ticket requests and releases have timeouts, a        *)
(* signalled process exits, the retry timer fires; and a release that is    *)
(* retried for ever is confirmed at last.                                   *)

SignalledExits(p) == registry[p].state = "ENDED" /\ ProcessExits(p)

TicketAnswered(s, p) == \/ TicketUndelivered(s, p) \/ TicketRefused(s, p)
                        \/ SpawnFailsBeforeBirth(s, p) \/ SpawnRuns(s, p)
                        \/ SpawnRolledBack(s, p)

Fairness ==
    /\ \A p \in Pane : /\ WF_vars(SignalledExits(p))
                      /\ WF_vars(\E s \in Session : TicketAnswered(s, p))
                      /\ SF_vars(\E r \in releasing : r.pane = p /\ ReleaseSucceeds(r))
    /\ WF_vars(\E k \in Pass : Retry(k))
    /\ \A k \in Pass : WF_vars(PassGoesOn(k))

FairSpec == Spec /\ Fairness

\* Every counted terminal comes back unless its process runs on or its launch
\* crossed another: no ticket failure, failed spawn, kill or failed release
\* leaves one counted for ever.
TerminalsComeBack ==
    \A s \in Session :
        s \in ledger ~> \/ s \notin ledger \ crossed
                       \/ \E p \in Pane : registry[p] = [state |-> "RUNNING", process |-> s]
============================================================================
