# A TLA+ development of Sovereign Workspace

Sovereign Workspace is a desktop program in which one operator runs several
command-line model sessions ("nodes") at once: a conductor and its workers, each
in a terminal pane or as a managed child process.  The program counts the
terminals the operator's subscriptions grant, keeps durable records of every
node in an append-only log, and gives the nodes a collaboration service with
tasks, debates and syntheses.  Most of it is `src/modules/sow/`; a portable shell
(`src/shell/`) starts that program and five other, independent ones, among them
the SOVEREIGN product (`src/modules/sovereign/`), a local service that answers
messages with long-running jobs, and the Debate Table (`src/modules/debate/`),
where model seats argue about a topic under an operator's eye.

This directory holds TLA+ models of the parts of it in which several
actors share state, the TLC configurations that check them on small instances,
and proofs, checked by TLAPS, of what holds for every instance.  `PROJECT.json`
lists, definition by definition, the source lines each one stands for.

    tlc -workers 2 -config MCNodeRegistry.cfg MCNodeRegistry
    tlapm NodeRegistryProofs.tla

Paths below are relative to `src/modules/sow/` unless they begin with `src/`.


## 1. The system

### 1.1 How the parts meet

    Electron main (one event loop)                       operator
      apps/desktop/main.js                                  |
      apps/desktop/picker/worker-spawn.js <--- clicks ------+
        |  session-manager.js, session-registry.js (ConPTY children)
        |
        |  runs a Python process per step: --launch / --attest / --release
        v
      tools/live/emit_worker_launch.py                 (short-lived, many at once)
        |-> node_runtime/supervisor/terminal_lease.py           ledger file + lock file
        |-> node_runtime/supervisor/provider_node_registration.py   node log + lock file
                 |
                 v
      control_plane/nodes/registry.py + event_log.py   the log is the record
                 ^
                 |
      control_plane/nodes/process_manager.py + heartbeat.py   (managed children)

      panes' model sessions --- MCP tools --->  mcp_server/sovereign_tools.py
                                                mcp_server/collaboration_service.py
                                                persistence/store.py (SQLite)

The launcher never shares memory with the emitters: what they share is on disk
(the ledger and the log), and what the launcher learns of them are exit codes,
one JSON line, or a timeout.  Around them, each a process of its own:

    portable shell (src/shell/src)              a browser page, one thread per gesture
      server.py -> states.py (ModuleRunner) -> supervisor.py (JobSupervisor)
         |            ^
         |            +-- poller thread: readiness, exits, programs outside
         +-- spawns: sow | SOVEREIGN product | Debate Table | ...

    SOVEREIGN product (server.py)    request threads --> SQLite (store.py) <-- workers
                                     at a start: recovery of what the last process left
    Debate Table (app.py)            one event loop: orchestrator and HTTP requests

These three share nothing with the workspace or each other but the shell that
starts them.  Inside Electron main, a spoken or typed message for the conductor goes

    turn-authority.js <--arm, cancel, fate-- conductor-write.js --body, Enter--> conductor's pty
       ^   ^    ^                                                                    |
       |   |    +--- UserPromptSubmit, PreToolUse (loopback socket) -----------  vendor's CLI
       |   +-- reset: observed exit      pane-writer.js --notices--> the same pty
       +-- disarm: the operator's keys, which reach the pty later, through the page

The registry is used in two ways: inside the process
manager, which holds its whole view for as long as it runs, and inside each
emitter, which rebuilds one entry from the log, appends a row or two and goes.

### 1.2 Components, state, operations, and what makes each correct

| component | state | operations | correct when |
|---|---|---|---|
| Node registry, `control_plane/nodes/registry.py`, `states.py` | records per (node, incarnation); event log | register, transition, heartbeat, record_exit, rehydrate | the view never disagrees with the log; the log of each incarnation is a legal life, across any restarts |
| Event log, `event_log.py` | rows in a file, hash-chained | append, reopen, verify | the chain never breaks, whoever writes |
| Process manager, `process_manager.py`, `heartbeat.py` | managed children, restart counts, `_stopping` | spawn, poll, kill_node, terminate_all, read a beat | no orphan; one process per node; crashes answered within the budget; nothing survives the teardown |
| Worker panes, `apps/desktop/picker/worker-spawn.js`, `terminal/conpty/session-manager.js`, `terminal/session/session-registry.js` | a record per pane, session entries, process handles | launch, kill, exit callback, release, retry timer, loss of supervision | a terminal is counted as long as its process may live, and comes back afterwards |
| Terminal lease ledger, `node_runtime/supervisor/terminal_lease.py` | leases in a JSON file; lock file | acquire, release, release_node, release_session, reap | no lost update; never more live leases than the allowance; no dead lock for ever |
| Pane node records, `provider_node_registration.py`, `tools/live/emit_worker_launch.py` | the node log and its lock file | ticket (register, reap), attest, release (close) | unbroken chain; a record per session, open exactly while its process lives |
| Collaboration service, `mcp_server/collaboration_service.py`, `sovereign_tools.py` | task, candidate, debate and synthesis rows | create, update, publish, open/post/close/abort debate, record synthesis | a synthesis binds what is there and covers every debate; debates are bounded and final |
| Authorization policy, `control_plane/policy.py` | none (a table) | authorize | who may call what |
| Task graph, scheduler, gates, `control_plane/tasks`, `scheduler`, `control_plane/gates` | dependency graph, queues, gate verdicts | add, ready, assign, promote | nothing runs before what it depends on; nothing is promoted without its gate |
| Residency planner, `scheduler/residency_planner` | VRAM reservations | plan, commit, evict | never over budget; nothing pinned is evicted |
| Succession and live debate, `control_plane/recovery/succession.py`, `orchestration/live_*` | conductor epoch | hand over, fence, replay | one conductor per epoch |
| IPC gateway, `control_plane/ipc`, `apps/desktop/supervisor.js` | sessions, sequence numbers | connect, authenticate, send | each message at most once, in order |
| Session approvals, command broker | pending approvals of a session | request, approve, deny | a command runs once, and only as approved |
| Conductor dispatch, spawn requests | request files, tickets | request, claim, answer | a request is answered once |
| Voice and turn authority, `apps/desktop/voice`, `control/pane-writer.js` | the pending, active and ended turn, each turn's fate, the residue mark; the conductor's input box | arm, write, submit, cancel, disarm by a key, admit or block a prompt, reset at the exit | an utterance's answer has no tools; "delivered" means accepted; nothing is spliced onto a withheld utterance |
| Desktop control journal, `apps/desktop/control` | journalled workspace | append, replay, assign | the replay is what was acknowledged |
| Terminal recovery, `terminal/recovery` | snapshots | snapshot, reconstruct | nothing is revived that was not alive |
| Debate service, MCP memory, artifacts | debates, shared entries | propose, accept, read | rounds and cost bounded; accepted entries are what was proposed |
| Portable shell, `src/shell/src` | a runner per module (its view), the supervisor's table of processes, job objects | start, stop, cancel, restart, start-up test, poll, close | what is shown is what runs; wrong views pass; nothing outlives the shell; a start ends |
| SOVEREIGN product service, `src/modules/sovereign/sovereign_product/server.py`, `store.py` | sessions, jobs and answers in SQLite; queue, executors and cancel events in memory | submit, run, publish, cancel, delete, STATUS, recover, close | one thread drives a job; completed means answered; a cancel in time holds; every job ends |
| Debate Table, `src/modules/debate/app.py` | topic, speaker, completed turns, pause, interrupt event, queued note | topic, rotation, turn, anchor, note, pause, resume | no turn while paused; a posted topic comes up; notes stay with their topic; the table goes on |
| Token Center, Distillery, research cycle | each its own | each its own | separate applications |

The remaining parts (governor, spawn authorizers, containment and worktrees,
canonical registry and routing, adapters, renderer, tooling) keep no shared
state, or only configuration; `PROJECT.json` lists them with reasons.

### 1.3 What is hard in it

* **Await points.** The launcher awaits a ticket, a release or an attestation, and in the
  meantime exit callbacks, kills, other panes and a second click run.
* **Lock files.** Two independent lock-file protocols (ledger, node log), each
  with a rule for breaking the lock of a dead owner, each used by processes that
  can be killed at any instruction.
* **Read, then lock.** Attest and release judge by a record they read from
  the log before they hold its lock; the synthesis tool reads a task and its
  debates before the transaction that writes.
* **Failure in the middle.** record_exit writes two rows; a spawn can fail
  after the process was born; a ticket emitter can time out after it counted the
  terminal; a release can fail before or after it reached the ledger.
* **Restarts.** The log outlives every process; `paused_from` and all views
  do not.
* **One flag, many waits.** The Debate Table's interrupt event is set by three
  requests and cleared in one place; the product's cancel is a flag in the
  database, an event in memory and a call to whatever the executor runs by then.
* **No common lock.** The shell's gestures and its poller block for seconds in
  probes and grace periods and then write the module's state over what the others wrote.
* **A second instance.** The product recovers the database before it
  finds its port taken, so two processes drive the same jobs for a while.
* **Two ends of one input box.** A delivery, a system notice and the operator's keys
  write into the same box with waits between body and Enter; what was submitted
  comes back as a prompt when the CLI gets to it.
* **Late events.** Heartbeat lines outlive the process that wrote them; a
  process dies long after it was signalled; an emitter outlives its shell.

`PROJECT.json`, "hazards", lists them at their lines with the property that
would catch each, or why none does.


## 2. The modules

### 2.1 Registry: `NodeStates`, `NodeLife`, `NodeRegistry`, `NodeRegistryProofs`

`NodeStates` is `states.py`: the states, the LEGAL table, RESUMABLE.

`NodeRegistry` has the in-memory `nodes` and the durable `log`, kept as the digest its
readers recover: the kinds of rows an incarnation has, the state of the last row, the `frm`
of the last pause row.  One action per method: `Register`, `Transition` and
`TransitionRefused` (the raise, after `paused_from` may already have been written),
`Heartbeat`, `RecordExit`, `Rehydrate`; `LoseView` is the end of the process that holds the
registry and `CrashInRecordExit` its end between the two appends of record_exit.

`Served` is a process that makes any of these calls in any order; it registers a
key only when the log has no spawn row for it (`_next_incarnation`, under the lock).
A record to rehydrate was read earlier and without the lock, as `adopt_from_log` does:
`Reads` takes the log's last state, `HandsIn` hands it to `Rehydrate` when the process holds
the lock, any number of rows later.  `Invents` is a caller whose record is of no row at all.
What the code cannot see the histories tell: `late` (the reader's record was overtaken
by a row), `astray` (the view has such a record), `torn` (the incarnation ever had one).
The properties say both what holds in spite of overtaken records and what
holds until the first of them; section 6 says what one can do.

`NodeLife` is what it promises: each incarnation is born once, moves along
LEGAL, ends for good, and a pause gives way only to what it interrupted - with
no view, no log and no crash in sight.  `ImplementsNodeLife` maps each life to
what the log tells of it, up to the first overtaken record.

### 2.2 Manager: `NodeManager`, `NodeManagerProofs`

Composes `NodeRegistry` (`Reg == INSTANCE NodeRegistry`): every registry change
the manager makes is an action of that module, so its guards and errors apply.
`poll()` is split where something else can run: `PollStarts` takes the snapshot,
`PollExit`, `PollDeadline` and `PollReclaim` visit one key each, `Respawn` is
outside the lock, and `PollTurns` goes from one loop to the next.  Children
beat, hang, crash, or die some time after they are signalled; a line in a pipe
is read after its writer is gone.  `KillFails` and `SpawnFails` switch on the
two exceptions the code handles.  `RespawnRaises` leaves poll() with the
remaining respawns forgotten, as the exception does.

One thread drives the manager (`MayCall`), because every caller in
the repository does.  With a second thread, `terminate_all` during a poll's backoff,
which is outside the lock, would be followed by a respawn nobody tears down.

### 2.3 Panes: `WorkerPanes`, `TerminalCount`, `DesktopProofs`

`record` is the launcher's record per pane, `registry` the session registry's
entry, `pty` the process whose exit ConPTY has not confirmed, `ledger` the
sessions with a durable terminal.  An action is what runs between two awaits of
the event loop; `asking` and `releasing` are the awaits under way, and the
emitter's acquisition is a step of its own, because the launcher may time out
before or after it.  `Patch` is the code's `set()`: it patches whatever record the
pane has *by then*.  All launches are of frontier models; a local one takes
no terminal and its release reclaims nothing.  The operator clicks at any time: a
launch may begin while an earlier launch or release of its pane is under way
(`UnderWay`), and then it and the sessions it met are in the history `crossed`.
`Retry` and `PassGoesOn` are the retry timer's pass, which takes the records as it
found them (`todo`), awaits one release after the other, and may meet a later
pass or a launch; the code goes from one answer to the next release in one run of the
event loop, the model lets others come between.

`TerminalCount` is what the accounting promises: counted before birth, as long as
the process may live, and back afterwards.

### 2.4 Ledger: `LeaseLedger`, `LeaseBook`, `LeaseLedgerProofs`

Processes create the lock file, write their pid into it, read the ledger,
write it back, close and unlink; each of these is a step and a process may die
between any two.  A waiter that judges the lock stale (`JudgesStale`: the
owner is dead, or there is no pid and the file is old) unlinks *whatever has the
name then* (`Breaks`).  `OpenIsUndeletable` is the difference between Windows,
where that unlink is denied as long as some process has the file open, and
POSIX.  `SlowWriter` lets a live process take longer than `stale_lock_s` to write
its pid.  The five calls are their code's selections over the leases that were
read: the same node and session, a sessionless lease to upgrade, the count
against the allowance, the matches to drop, and dead holders reaped by all of
them.  `LeaseBook` is the same ledger with every operation in one step.

### 2.5 Node records: `PaneRecords`, `PaneRecordsProofs`

One pane whose sessions share a node key, and the emitters that write its
records.  A ticket locks first; an attestation or a release first reads the log
(`Adopts`) and then locks, as `adopt_from_log` precedes `registry.rehydrate`.
The lock is that of `_acquire_lock`: no wait in effect (a live holder refuses at the first
attempt, any holder at the second), and a dead holder's file is unlinked.
`current` are the emitters whose cached `prev_hash` is still the last row's
hash, and an append of any other breaks the chain (`chained`).  `life` is the
session as its launcher and the system see it.  A ticket may be asked for at any
time (`AsksTicket`): neither a second click nor a restarted shell asks whether an earlier
launch of the pane is over.  The history `crossed` has the sessions whose launch met another one:
those not attested yet (`Pending`) when a ticket is asked for, and the asking one
itself if one of them has no ticket yet or, by choice, if its launcher has a launch or release of
the pane before it (the module does not keep the launcher's side, which is `WorkerPanes`).  A
crossed session may be released while it lives.  Emitters, shells and sessions
die at any point.  Windows semantics of unlink are assumed (the product runs on
Windows), and that a pid is not reused while a lock file names it.

### 2.6 Collaboration: `Collaboration`, `DebateProofs`

One task with its debates.  Every service method decides and writes in one
`BEGIN IMMEDIATE` transaction and is one action.  The MCP tools are longer: `assign_task`
creates and then delivers (`CreateTask`, `AssignmentUndelivered`), and
`publish_synthesis` reads the task (`ReadsTask`), then the debates
(`ReadsDebates`), then records (`RecordSynthesis`), while every worker goes on.
A director's process serves one call at a time (`Free`).

### 2.7 Product service: `ProductJobs`, `ProductJobsProofs`

The database is `job`, `answers` and `deleted`; a transaction is one step.  Of
a process the model keeps `up`, its `queue` and its workers (`work`).  A
submission is `SubmitChecks` (the session has no active job), `SubmitCreates` and
`SubmitEnqueues`, three steps of one request thread as in the code; a STATUS
message is answered by its request (`StatusBegins` to `StatusCompletes`).
A worker takes an entry, moves the job to running, executes (a deep executor is shared and may
refuse a second execution in the session, `Busy`; a quick one is made for the job), and publishes
in two transactions: the answer (`Publishes`), then the completion (`Completes`).  Any
refused step leads to the handler `Fails`.  `CancelRequests` writes the flag, and
`CancelSignals` later stops whatever the executor runs for *that session*
(`Stops`).  `Starts` is `recover_incomplete_jobs` with the re-queueing, before
`Binds` finds out whether the port is free: with two members in `Service` the
second process recovers the first one's jobs.  `Crashes` and `Exits` take queue,
workers and requests with them.  "failed" stands for every unanswered end but
cancelled and interrupted.  `starts` bounds the restarts; `overlapped` and
`lateCancel` are history that two properties speak of.

### 2.8 Debate Table: `DebateTable`, `DebateProofs`

`pc` is what the orchestrator awaits; a step is what runs between two awaits,
and the four requests (`Post`, `Interject`, `Pause`, `Resume`) run at any of
them.  `interrupt` is `interrupt_generation`: a call begun or waiting while it is
set raises `TurnInterrupted` (`Interrupted`), and only `BeginsTurn` clears it; `TakesNote`
follows when the insight job it called off is gone.  A note
and the prompt that takes it are kept as the topic they were written for.
`Silent` are the seats whose stream the inactivity timer may cut off.
`counted` is history: the seat whose turn advanced the microphone last.

### 2.9 Shell: `ShellModules`, `ShellModulesProofs`

`state` is what a `ModuleRunner` shows, `table` the supervisor's `_processes`,
`process` the operating system's processes, `outside` the modules whose
endpoint somebody else's program holds.  `thread` are the gestures under way: a
start goes through `BeginStart`, `CheckPort`, `Spawn`, `Probed` and
`Identified`, a stop through `Signal`, `Terminate` and `Stopped`; a restart is a stop
whose thread starts again, and a start-up test a start that stops what it
started.  `poller` is the loop thread with its own probes.  The port check asks
for a listener and not for an answer, so it may also find one that does not answer.  A probe's answer is
evaluated when it returns (`Held`), and what a thread writes then it writes over
whatever the state is by then, as the code does.  `CloseShell` is the end of the
shell, which closes the job object all processes are in; `Assignable`
is what becomes of a process created after that.

Abstractions: modules with an http endpoint (the workspace itself reports through a
receipt file); whether the identity probe recognises what answers is left open, each time;
of the failure reasons only the occupied endpoint and the limit are told apart; the rate limit
of two seconds and the poller's cadence are time and left out, as is a handle number the
system gives out again after its close; threads and poller run on after the close until
the process is gone.
`made`, `Spawns` and `Gestures` are bounds; `crossed` is history: modules
on which two threads overlapped.

### 2.10 Voice: `VoiceTurns`, `DesktopProofs`

`pending`, `active` and `ended` are the authority's three turns and `fate` its
`_fates`; a turn is named by its utterance.  `stage` is where `deliverChat` of an utterance
is: `Speaks` runs from the guards to the body write, which lie in one turn of the
event loop; `Enters` and `Withholds` end the echo loop, `Settles` the wait for
the fate.  Two deliveries can overlap, because voice and the text card call the
same function and nothing but the authority's pending turn keeps them apart.
`residue` is the mark that makes the next delivery refuse.

The pane is external: `box` is the CLI's input, `sent` what it has still to
present, `here` which utterances this process can echo.  `Presents`
is the authority's answer to UserPromptSubmit.  A prompt that nothing admits is
blocked; the code leaves open whether the CLI then drops the text or puts it
back (`conductor-write.js:300-304`), so the model does both.  A key is seen by
main first (`Presses`) and reaches the pane later, or another pane, or nothing
(`KeyArrives`); the recovery chord is a key for no pane.

Abstractions: what an echo loop or a screen reading finds is a choice; text that is
not an utterance is one piece wherever it meets; the hook and its bytes may fail, so
any prompt may be blocked; the CLI presents a prompt when the answer before it is
over, which is what the code relies on (`turn-authority.js:501-503`); an utterance
refused by a guard is not said.  `MaxSent` is the only bound.  `answering`
holds every piece of the prompt being answered, an utterance behind other text included:
a text that no marker begins counts as the operator's own (`_markedPrompt`,
`turn-authority.js:410`).  `admitted`, `answered`, `spliced`, `resolved`, `lapsed` and
`misjudged` are history; `spliced` (the utterances that ever lay behind other text), `lapsed` and
`misjudged` name the exceptions of section 6.

Where one module holds the proofs of two parts (`DesktopProofs`: panes and voice;
`DebateProofs`: collaboration and Debate Table), it extends both; the parts share
nothing, and the second one's specification is named for it (`VoiceSpec`, `TableSpec`).

### 2.11 MC modules

`MCNodeRegistry`, `MCNodeManager`, `MCWorkerPanes`, `MCLeaseLedger`,
`MCCollaboration`, `MCPaneRecords`, `MCProductJobs`, `MCDebateTable`,
`MCShellModules` and `MCVoiceTurns` extend their module and define the symmetry
sets.  Definitions commented "Mutant ..." are wrong versions of the definition
that follows them, what a plausible bug there would be; `PROJECT.json` pairs each
with the property that must fail when it takes the definition's place.


## 3. What the runs check

Twelve runs; eleven must pass, one must find a violation (section 5).

| run | instance | what it shows |
|---|---|---|
| `registry` | one incarnation, two processes that read it, no bound on steps: the whole space, 227,258 states | view and log part only over an overtaken record, rows are paired, refinement of NodeLife up to one |
| `manager` | one node, one restart, kills and respawns may raise; 8,912 states, fairness | no orphan, nothing survives the teardown, crashes are answered |
| `panes` | two panes, three launches, two terminals, one retry pass at a time; 180,984 states, fairness | of what did not cross: records name their process, held sessions account for the ledger, refinement of TerminalCount, terminals come back |
| `ledger` | two processes, two holders, one terminal, two acquires, one session; 196,032 states, fairness | no lost update, allowance, refinement of LeaseBook, a dead owner's lock goes |
| `collaboration` | two workers, one director, two hashes, two debates of one round; 216,020 states up to symmetry | bindings, coverage of debates, bounded and final debates |
| `panerecords` | three emitters, two at work at a time, two sessions; 1,483,743 states up to symmetry | the chain, pids, live records open |
| `product` | one process with one worker and two starts, two sessions, two jobs; 487,412 states, fairness | active jobs are in somebody's hands, every job ends, a cancel does not leave its session |
| `product_overlap` | two processes that overlap, one session, two jobs; 788,919 states up to symmetry | one driver per job, completed means answered, cancels in time hold, answers stay |
| `debate` | three seats, one silent, two topics, rotation 3, anchor 2; 3,177 states, no bound on steps, fairness | no turn while paused, notes with their topic, posted topics heard, the table goes on |
| `shell` | one module, three gestures two at a time, two processes; 392,871 states, fairness | accounts hold when nothing crossed, nothing outlives the shell, wrong views pass, starts end |
| `voice` | two utterances, two prompts in the CLI's queue, any number of keys, notices and sessions; 3,078,210 states up to symmetry | an utterance's answer is denied tools, reports are true, what lies in the input is marked |
| `debate_resume` | as `debate` | violation: ResumedTableSpeaks |

The type invariants of the modules with proofs, and `NobodySpeaksTwice` of the Debate
Table, are proved (section 4) and are in no run.

Why these bounds are enough:

* `registry`: incarnations do not interact except through `LoseView`, which takes all of
  them.  Two readers are enough for one to hand in what it read before the other's record
  ended the life.  There is no other bound; the proofs cover any number of both.
* `manager`: with one restart the model reaches the budget, one incarnation beyond it
  would be visible (`Incarnation` is one longer than the policy allows), and
  every interleaving of beat, crash, deadline, kill and teardown around two incarnations occurs.
  Two nodes matter only to what one node's exception does to the other's
  respawn, which section 6 describes.
* `panes`: three launches on two panes give a second launch of one pane, and
  two launches at the same time.  Two terminals of three launches makes the
  count reach the allowance; a third launch finds what two that crossed have left,
  in its pane or beside it.  `MaxLaunch` caps the counter `seq`.  `MaxPass` is 1 to keep the
  liveness check small; the theorems have any number of passes at a time.
* `ledger`: two processes are enough for a holder and a waiter, for a dead lock and its
  finder, and for each pair of operations; a second waiter only matters where an open
  file can be unlinked (section 6), and the theorems have any number.  `MaxAcquire` caps
  the lease ids; two acquires against an allowance of one are a refusal, a
  reap and a re-grant, an idempotent hit and an upgrade.
* `collaboration`: two workers are a task whose candidates are partial and then complete;
  a second debate is one opened while another is concluded; one round
  reaches its limit with a participant's first turn.  The proofs cover all
  numbers.
* `panerecords`: three emitters are a dead holder and two breakers of its lock;
  two at work at a time (`MaxAtWork`) are any two of a ticket, another ticket, an
  attestation and a release; two sessions are a reuse of
  the pane with late emitters of the session before, or a second click.  The proofs have no bound.
* `product`: two jobs race for one session or run in two; two starts are a recovery;
  one worker suffices because the interleavings of two are those of
  `product_overlap`, where each of two processes has one.
  There one session is enough: what it asks is who drives a job, and the second
  start is the second process.
* `debate`: nothing is bounded but the data; three seats make "another seat"
  different from "the next but one", three turns let a rotation fall on and between
  anchors, and two topics replace each other.
* `shell`: two gestures at once are every pair of handlers, a third is the gesture
  after a crossing; two processes are an orphan and its successor.  A second module adds
  only the table's limit, and the inductive invariant was checked with two.
* `voice`: two utterances are one whose answer is in flight, or whose text lies in the
  box, and the next; keys, notices, answers and sessions are not counted.  Two waiting
  prompts are an utterance's and another before or behind it.

Symmetry is used only in runs without liveness properties and only over sets
whose members the specification never tells apart (workers, hashes and debates;
emitters and sessions; jobs and processes; utterances).

`CHECK_DEADLOCK FALSE` stands in the runs of `LeaseLedger`, `PaneRecords` and `ProductJobs`, where
every process may be dead, every session of the bounded set over, or every
submission of the bounded set done, and the system really stops.

### Fairness, and why the code has it

* `NodeManager`: the driver polls for ever, so each step of a poll is weakly
  fair; a signalled process dies; a kill that is retried on every poll succeeds at
  some time (strong fairness, since the retry is not continuously enabled).
  No process is obliged to beat, hang or crash.
* `WorkerPanes`: ticket requests and releases are child processes with
  timeouts, so they are answered (weak, per pane); a signalled process
  exits; `setTimeout` fires; a release that is retried every 30 s for ever is
  confirmed at some time (strong, per pane).  Nobody is obliged to click.
* `LeaseLedger`: a process in a call continues and callers keep calling (weak);
  a lock file without a pid becomes older than `stale_lock_s` for some
  call that looks at it (strong).  Nobody is obliged to die.
* `ProductJobs`: threads of a live process go on (weak, per request and worker;
  an executor ends, by its answer or its model timeout); a process that is starting binds or
  closes, a closing one exits, and a service that is down altogether is
  started again, within the bound.  No operator is obliged to submit, cancel or stop.
* `DebateTable`: the event loop runs the orchestrator, and every model call
  returns, fails or is cut off by its timer (weak, on the orchestrator as a
  whole; the operator's requests need no fairness and get none).
* `ShellModules`: probes have deadlines and grace periods end (weak, per
  thread), and the poller loops (weak).  No process is obliged to serve or to
  die, no endpoint to be released, no operator to act.
* `NodeRegistry`, `Collaboration`, `PaneRecords` are passive and have only safety
  properties: nothing obliges their callers to call.


## 4. What is proved

Every safety invariant, action property and refinement that a run checks is also a
theorem.  All proofs are about the modules above as they stand, for every value of the
constants.  What is assumed of constants is an ASSUME in the module that
declares them (finite-allowance and distinct-name facts only), except for two
hypotheses, which stand in the theorems: `OpenIsUndeletable` and one directing node.

**`NodeRegistryProofs`.**  `IInv` adds to `TypeOK`, `CacheAgreesWithLog` and
`RowsFollowSpawn` what a record in a reader's hands can be (`Recorded`: if nothing overtook
it, it is the log's last state, and if it says TERMINATED there is a row that says so), what the view can
be however old (`Spawned`), and that an incarnation that is not torn is told by its log and not astray
(`Soundness`).  Whether a rehydration keeps the agreement was settled when the record was read.
`Kept` says what a call must leave behind of one incarnation, `UntouchedKept` that of any
other, and `KeptSuffices` makes the invariant of it; `TransitionKeeps` treats the accepted
transition, which three actions share.
From it `TypeCorrect`, `CacheIsACache`, `RowsArePaired`; and
`RegistryImplementsNodeLife`, where every append to an incarnation that is not torn maps to a
move of its life and everything else to a stutter.  The key of that proof is `AdmittedResume`: what
`paused_from` admits is what the log's pause row says, whether memory kept it or lost it.

**`NodeManagerProofs`.**  `IInv` is `TypeOK`, `NoOrphan` and `NothingSurvivesTerminate` with two
parts they cannot do without.  `Budgeted`: a record's incarnation is at most one more than
its node's restarts, and a waiting respawn has its restart reserved; only so does a
respawn find an incarnation in range.  `RespawnsArePolls`: respawns wait only
inside a poll and never in a stopping manager.  The registry's operations are taken
one by one (`RegisterMoves`, `TransitionMoves`, `ExitMoves`, `HeartbeatMoves`) for what they do to
the manager's records, since the manager holds the registry as an instance (`SameTable`).
From the one invariant follow `TypeCorrect`, `NoProcessEscapes` and `TerminateReachesAll`.
`NodesRunOnce` needs `OnePlace`: of a node's incarnations one at most is managed or waits to
be followed, no incarnation is both, and a node that ever ran has its first incarnation in the
view, which refuses another first spawn.

The manager and the registry are then composed.  `StepsOfTheRegistry` shows step by step that
the manager is a process the registry serves: `LogKeeps` says that what is not in the view
has no row, so nothing is registered over a spawn row, and what has an exit row is TERMINATED.
The manager hands no record in; with no reader, the exceptions of the registry's
properties are empty (`astray` and `torn` are `{}` in its instance).  Hence
`ManagerRunsTheRegistry`, and through an instance of the registry's theorems (`SameRegistry`
says that both instances are the same module) `ManagersViewIsItsLog` and
`ManagerImplementsNodeLife`, in full: none of these needs a second proof of what the registry does.

**`LeaseLedgerProofs`.**  Under `OpenIsUndeletable`.  `IInv` strengthens
`TypeOK` by `LockExcludes` (a process that has the lock's file open is the
one that the existing file names), `ReadIsFresh` (what a process has read is what the file
holds) and `Books` (file and promises agree on live leases, which are finite and
within the allowance).  Exclusion comes first: nobody can unlink the file of a process
inside, so `Alone` gives at most one, and then a write-back cannot lose anything.
`UpdatesAreKept`, `CountWithinAllowance`, `LedgerImplementsBook`; `TypeCorrect`
needs no hypothesis.  That the hypothesis is needed shows the POSIX trace of section 6.

**`PaneRecordsProofs`.**  `TInv` adds to the types what an emitter's place says of its
task and its record (`Place`).  `CInv` is the exclusion: who has the lock's file open is
the one it names (`HoldersHaveTheLock`), since an open file cannot be unlinked, and so
who is at work on the log has read its last hash; from it `ChainNeverBreaks`.
`PidsAreTheirSessions` needs only the types.  `LiveRecordsStayOpen` rests on `LInv`: a session has
one record (`OneRecord`); a launched, uncrossed one has the last, open (`LaunchedAreLast`); while a
ticket is asked for, any other uncrossed session is unborn, over, or alive and attested in the last
record, which then does not look stale (`OneAsked`); of two tickets at a time both
sessions are crossed (`TwoTickets`); a ticket is its session's
only one and nothing is registered before it (`TicketOf`); and a release knows its session over
or crossed (`Errand`).  Rows are classed by `Closable`, whose record an emitter may close.

**`DebateProofs`, collaboration.**  `SynthesisIsBound` from `Bindings` (the freeze and the
comparison in the fence); `DebatesAreBounded` from `HeardIInv` (turns within rounds,
turns only of participants, a closed debate heard from everybody);
`ConcludedIsFinal` directly from the actions; `SynthesisIsComplete`, for one directing
node: between the tool's look and its write the closed debates do not change,
because the director who would close one is the one in the call, and an open
one is refused in the fence.  With two directors it is false (section 6).

**`ProductJobsProofs`.**  `TInv` adds to `TypeOK` that a worker at work holds a job
that exists and that jobs know their sessions (without it a queue entry or an empty
worker could be dereferenced).  On top of it stands `Knowledge`, what each thread may rely on:
`RequestKnows` (a STATUS job leaves "queued" by its own request only), `WorkerKnows` (a driven
job has left "queued"; an answer precedes "posted"; a cancel seen while publishing came late) and
`JobKeeps`.  `OneDriver` is inductive with these, because a job enters a worker's
hands only through the compare-and-set from "queued" (`CanMove`) and recovery never
puts a running job back in "queued".  From the one invariant follow
`JobsHaveOneDriver`, `CompletionsAreAnswered` and `CancelsHold`;
`AnswersStayShown` follows with `CompletedJobsStand`: no step changes a completed job.
All of it for any number of processes that recover over each other.
Two more invariants stand on this one.  `Hands` says where an active job is held: a queued one in
a live queue, with its request or just taken; a running one with a worker that drives
it or the request that answers it.  Its other parts are `OneUp` and `RequestsLive`, which fail
after an overlap; `ActiveJobsAreHeld` follows.  `CancelsAreAsked` gives each stop and each
cancelled verdict its reason, which `CancelsPersist` carries to the step that ends the
job; `CancelsKeepToTheirSession` follows.

**`DebateProofs`, Debate Table.**  `TableInv` adds to the types that a topic is fresh while it is
announced, that a turn under way may still be counted (which bounds `completed` by the
rotation), that only a turn uses a note, and that the last counted seat does not
hold the microphone.  `TableTypeCorrect`, `NotesAreOfTheTopic`, `PausesHold`, `MicrophonesMove`.

**`ShellModulesProofs`.**  `NothingOutlivesTheShell` is inductive with the types: after the
close nothing is assignable to the shell's job and nothing can start.
`UncrossedIsAccounted` is not: `Accounts` adds `OneThread` (a module nothing crossed has one
thread), `PollerAlone` (none while the poller looks outside, when nothing is listed),
`LiveIsListed`, and `ThreadRelies`, which says place by place what the one thread relies on.
Arrivals, threads, poller and the rest are each a lemma; `ThreadFrame` says what a thread's
step leaves alone on other modules.

**`DesktopProofs`, panes.**  `PanesTypeCorrect` needs no hypothesis; it needs `HasSession` (whatever
holds, runs, asks or releases has a session key), or a release could be started
with none.  The rest is of the sessions that are not in `crossed`, beside any number that are:
section 6 has the trace, in which a second launch replaces the record
under a release, and the release hands back the wrong terminal.  `PanesKeep` is inductive with the types,
and turns on `Own`: whatever a pane has under way is of its record's session, unless both
crossed; so a session that did not cross shares its pane with nothing.
`RecordsKeep`: a record in hand names the pane's process under a counted key; `ProcessKeeps`: only such a record
has a process.  `AskingKeeps` says what a launch that awaits its ticket relies on, and `OwedKeeps` what a
release, awaited or before a retry pass, relies on, however many there are of one key: its process is over and
no launch asks under it.  `KeysAreDistinct`: no two records share a session key.
`GrantedKeeps`: a terminal granted to a launch is counted as long as it asks.
`RecordNamesItsProcess` and `HeldAccountsForLedger` follow.  For the refinement each step changes either the
processes or the ledger: a birth finds its session counted (`CountBirth`), an exit takes a
process (`CountDeath`), an emitter's answer is a Take, and a confirmed release (`CountReturn`) returns a
session with no living process (`OwedIsNotAlive`); a launch that crosses others takes
nothing from the account (`CountLaunch`).

**`DesktopProofs`, voice.**  `Placed` says where a text is: an utterance lies in the box or
in one prompt, never both.  `TurnsKeep` relates the three turns to what was accepted (whose answer
is produced is the active or the ended turn, or was forgotten, or came behind other text; a pending
one was not accepted before); `FatesKeep` each fate to its history, and says that an accepted utterance lies nowhere any
more; `MarksKeep` each text whose delivery is over to the residue mark.  `FatesKeep` cannot do
without `Placed`: were an utterance in two prompts, the second would still lie there after the first
was accepted.  The lemmas on texts (`InAppended`, `InConcatenation`, `InTail`, `Joined`) say what
joining, submitting and presenting do to the pieces of a text.  Two
invariants of the texts are kept beside it: what lies behind other text is on record (`BehindKnown`),
so that an unmarked prompt answers no other utterance; a process that is gone keeps no text
(`DownIsEmpty`), so that a launch may clear the mark.  From them follow
`AnswersAreDenied`, `ReportsHold`, `LeftInputIsMarked`, `UtterancesLieOnce`, and as an action property
`NoTurnIsTakenTwice`.  The exceptions are those of the properties themselves
(`spliced`, `lapsed`, `misjudged`; section 6).

**Model-checked only.**  Liveness, everywhere: `CrashesAreAnswered`, `TerminalsComeBack`,
`DeadOwnersLockGoes`, `JobsEnd`, `TopicIsHeard`, `TableGoesOn`, `WrongViewsPass`, `StartsEnd`
(fairness and ENABLED are outside the prover's reach).  No safety property is left to TLC alone.


## 5. Where code and documentation disagree

Each of these is a run that finds a trace; `PROJECT.json`, "findings", quotes both sides.

* `debate_resume` - a pause between turns leaves the interrupt event set, and only the
  start of a turn clears it.  When a rotation is due at Resume its model call is refused
  because the event is set, the handler returns to the top of the loop,
  the rotation is still due, and no turn starts until somebody posts a topic.  The
  README of the Debate Table promises a pause "until Resume".

## 6. Other divergences met while modelling

They have no run of their own.  The first nine were found with TLC on these
modules: by the configuration named, and a property that says what the quoted text says.

* `worker-spawn.js:274` - `launch()` has no guard against a launch of the same pane that is
  under way (`crossed` left out of ImplementsTerminalCount).  The second click replaces
  the record; the first launch's failed release patches the second's record
  (546-556); the retry (589-601) then returns the terminal of the live second session.  Header,
  34-35: "keeps the terminal until that process's confirmed exit".
* `process_manager.py:114` - an overdue heartbeat in the poll after `kill_node` resets
  `manager_killed`, so the node the operator killed is respawned.  Line 5: "Crash
  detection = process exit without a manager-issued terminate".
* `process_manager.py:125` - one respawn that raises makes poll() forget the others, whose
  restarts are already logged and paid for (two nodes, CrashesAreAnswered).
* `terminal_lease.py:337` - where open files can be unlinked (`OpenIsUndeletable = FALSE`,
  three processes, NoLostUpdate) two waiters that break the same dead lock can both get
  inside, and an update is lost; the comment at 320-326 takes the owner-pid rule for enough.
* `collaboration_service.py:569` - `record_synthesis` completes a task that
  was FAILED or CANCELLED, against the table's "terminal: no outbound edges at all" (98).
* `provider_node_registration.py:925` - attest and release judge by a record read before
  the lock: an attestation can write READY, with a dead pid, after the exit row, and two
  closers write two exit rows, against 948-950, "`closed:false` ... rather than a second exit row".
  These are the overtaken records of `NodeRegistry` (`torn`), whose properties say what is left then.
* `turn-authority.js:397` - `reset()` gives a pending turn the fate of an admitted one when an
  earlier turn is still held as ended: speak, end it by a key, speak again, and
  let the process exit after the submit key (`misjudged` left out of ReportsAreTrue).  The operator
  is told "delivered" for an utterance nobody accepted, against
  `conductor-write.js:309`, "the conductor session ended before it accepted the utterance, so it was
  NOT delivered".
* `turn-authority.js:412` - an utterance behind other text carries no marker in front, so once
  its turn is settled the prompt counts as the operator's own (493-517) and the utterance is answered
  with tools allowed (`spliced` left out of VoiceAnswersAreDenied and ReportsAreTrue).  Four steps do
  it: a notice is typed, the body write behind it raises, the notice's Enter, the prompt.  A key that
  ends a pending turn behind other text leads there too: the operator is told NOT delivered
  (`conductor-write.js:307`), and the comment at 320-322 holds that the payload "can no longer be admitted at all".
* `turn-authority.js:323` - disarming a pending turn forgets the ended one before it, whose
  answer may still be produced (`lapsed` left out of VoiceAnswersAreDenied): its denial is
  gone though no prompt came, against 186-187, "cleared only by the operator's next prompt or a release".
* Shell, `supervisor.py:421` - the limit counts table entries, and a module that died by
  itself keeps its entry.  With four crashed modules of six every Start is refused as
  "Max 4 managed processes reached" while nothing is alive, and the page offers Stop only
  for modules that are up or starting.
* Voice, more: a disarm or a reset that finds an active and a pending turn leaves the
  pending one's fate "pending" for ever (`turn-authority.js:326, 397`); a delivery that outlives its session
  marks the residue after the exit cleared it (`conductor-write.js:222, 255`, `main.js:1244`), and if it
  does so after the relaunch, which clears the mark again (`main.js:1151`), the new session's first utterance
  is refused over an empty box; Enter or a chord in any pane lifts the mark (`main.js:3025`); a notice's Enter
  submits whatever lies in the box, a withheld utterance behind other text included.
* `update_task` completes a task over an open debate (CANDIDATE_READY to
  COMPLETED by any owner), which the comment at `collaboration_service.py:526`
  excludes "for either layer".  A second synthesis overwrites the first, and a
  debate may be opened on a completed task.
* With two directing nodes, one can close a debate between the other's look at
  the debates and its write, and the synthesis omits a closed debate.  The
  product creates one conductor identity per project.
* `_acquire_lock` (`provider_node_registration.py:510`) has a bounded wait it never
  reaches: both attempts raise.  A release that meets an attestation is
  therefore refused at once, and is left to the launcher's retry.
* An emitter that dies between creating the log's lock file and writing its pid
  leaves an empty stamp, which is taken for a live holder for ever (lines 534-556);
  the docstring (503) reads otherwise.
* A crash between the TERMINATED and the exit row leaves a record that counts as
  closed and never gets its exit row.
* The reap closes a record that was never attested because "nothing was ever
  running under it" (`provider_node_registration.py:1001-1005`); a session may be: after a second click in the
  same pane (`main.js:2444`, `worker-spawn.js:274` ask nothing), whose ticket comes between the first
  ticket and its attestation, or after a restart of the shell under a
  session whose attestation was refused at the lock.  TLC shows both when `crossed` is left out of
  `LiveRecordsAreOpen`.
* `control_plane/policy.py:336-337` says that `record_synthesis` "has no debate check
  of its own"; it has one, inside its transaction (`collaboration_service.py:527-532`).

* Shell, `states.py:338-360` - a look outside that begins without an entry may end,
  seconds later, after a start: EXTERNAL or OCCUPIED is then written over the shell's own
  process, Stop only resets the view, the process lives on, and with an entry listed poll
  does not look again.  The directive (`BUILD-DIRECTIVE-SWS-UI-001.md:251`) has that edge only for
  a module without a managed process.  `WrongViewsPass` therefore speaks of endpoints nobody holds.
* Shell, more of the same kind, all behind `crossed`: a stop during a start's probe is overwritten by
  READY or FAILED; a cancelled start's failing probe stops its successor's process;
  of two stops one removes its successor's entry; a second spawn replaces the
  entry, and the first process is out of reach until the shell closes.
* Debate Table - a silent seat is announced as skipped but is not passed over
  (`app.py:1956` against 934-939 and 1968-1998); an interrupt during the anchor announces a completed turn
  as skipped; a topic posted while a topic is being broadcast loses its interrupt; a note taken by an
  interrupted turn is lost; the queueing of insights stands after a return (1911).


## 7. What is not modelled

Of the parts modelled: formatting, schema and hash computation of log rows, torn
writes; diagnostic scopes and corrupt files of the ledger; local launches; the
order in which one retry pass takes its records, and in the run, not in the
theorems, a second pass during the first; register_session of
provider probes; messages, inboxes and read-only tools of the collaboration
service; the clock (a deadline is a choice); of the product, sources, memory, evaluations and
what an executor does inside; of the Debate Table, the hub, seats' edits, moves and insights; of the
shell, modules without endpoint, logs and tokens; of the voice path, capture, routing,
screen reading and the retry of the conductor's release; the ledger's
diagnostic baseline, read before the lock (`terminal_lease.py:504`), and its narrowed window;
what a caller is told when an assignment's delivery fails after its owner moved the
task (`sovereign_tools.py:312`; the step is there).  The components without a
module are in section 1.2 and in `PROJECT.json`, each with its reason.

## 8. Plan

Done: the registry and what it implements, the manager, panes, ledger,
collaboration, node records, the product's jobs, the Debate Table, the shell's modules
and voice turns, each with proofs.

Next, in this order:

1. `ResearchRun` - `src/modules/sovereign/sovereign_product/research.py`: the run's lock, its stages,
   checkpoints and resume, under crashes.  Hazards known: a crash between the final
   checkpoint and the completion record, after which a resume must not fail for ever; callbacks
   shared by concurrent jobs.  It gives `ProductJobs` the executor it leaves open.
2. `Succession` and `Gateway` - epochs and fencing, sequence numbers and
   replay; abstract specification: one conductor, exactly-once delivery.
3. `TaskGraph` with the gates and the residency planner - sequential, as pure
   operators against reference definitions and one state machine.
4. Approvals, conductor dispatch, terminal recovery.
5. The Distillery's promotion, Token Center's budget arithmetic.

Runs of new modules share a configuration where the questions allow it.

Theorems to prove next: for `WorkerPanes`, what of a crossed
session still holds; for `ShellModules`, which of the
accounts survive a crossing; for `ProductJobs`, an abstract specification of one job seen by its
session, implemented across restarts.
