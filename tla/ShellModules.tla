---- MODULE ShellModules ----
(***************************************************************************)
(* The portable shell's module lifecycle: ModuleRunner (shell/src/         *)
(* states.py), JobSupervisor (supervisor.py) and the handlers and poller   *)
(* of server.py that share them without a common lock.  Every gesture is a *)
(* thread that blocks in probes and grace periods; whatever it writes      *)
(* after a wait it writes over whatever the others wrote meanwhile.        *)
(***************************************************************************)
EXTENDS Naturals, FiniteSets

CONSTANTS
    ModuleCount,   \* modules with an http endpoint
    Spawns,        \* bound: processes ever created
    Threads,       \* bound: gestures served at the same time
    Gestures,      \* bound: gestures ever made
    MaxProcesses   \* JobSupervisor's max_processes

ASSUME ShellAssumption ==
    /\ ModuleCount \in Nat \ {0}
    /\ Spawns \in Nat \ {0}
    /\ Threads \in Nat \ {0}
    /\ Gestures \in Nat
    /\ MaxProcesses \in Nat \ {0}

Module == 1 .. ModuleCount
Process == 1 .. Spawns
Thread == 1 .. Threads
NoProcess == 0

VARIABLES
    state,     \* ModuleRunner.state; three of the FAILED reasons are told apart
    table,     \* JobSupervisor._processes: the process listed for a module
    process,   \* each process: its module and what it does
    outside,   \* modules whose endpoint a program of somebody else's holds
    shell,     \* "up", or "closed" once supervisor.close() ran
    thread,    \* each gesture under way: its handler or start thread
    made,      \* gestures made so far (a bound, no variable of the code)
    poller,    \* the _poll_loop thread
    crossed    \* history: modules two of whose threads overlapped

vars == <<state, table, process, outside, shell, thread, made, poller, crossed>>

Failed == {"FAILED", "OCCUPIED", "FULL"}
Running == {"READY", "DEGRADED"}

Idle == [test |-> FALSE, module |-> 1, pc |-> "idle", goal |-> "STOPPED", proc |-> NoProcess]
Active(g) == thread[g].pc # "idle"
Busy(m) == \E g \in Thread : Active(g) /\ thread[g].module = m
Live(p) == process[p].is \in {"up", "serving"}
Of(m) == {p \in Process : process[p].of = m}
Listed == {m \in Module : table[m] # NoProcess}
ListedDead(m) == table[m] # NoProcess /\ ~Live(table[m])

\* Somebody answers at the module's url; whether as the module is left open.
Held(m) == m \in outside \/ \E p \in Of(m) : process[p].is = "serving"

Init ==
    /\ state = [m \in Module |-> "STOPPED"]
    /\ table = [m \in Module |-> NoProcess]
    /\ process = [p \in Process |-> [of |-> 0, is |-> "unborn"]]
    /\ outside \in SUBSET Module
    /\ shell = "up"
    /\ thread = [g \in Thread |-> Idle]
    /\ made = 0
    /\ poller = [pc |-> "idle", module |-> 1]
    /\ crossed = {}

-----------------------------------------------------------------------------
UpOrStarting(m) == state[m] \in Running \union {"STARTING"}
CanStart(m) == state[m] \in {"STOPPED", "FAILED", "FULL"}

Goes(g, pc) == thread' = [thread EXCEPT ![g].pc = pc]
Says(m, s) == state' = [state EXCEPT ![m] = s]
Ends(g) == thread' = [thread EXCEPT ![g] = Idle]
Finishes(g, s) == Ends(g) /\ Says(thread[g].module, s)
Stops(g, goal) == thread' = [thread EXCEPT ![g].pc = "stopping", ![g].goal = goal]

\* A handler takes a gesture on module m in thread g, the first idle one.
Arrives(g, m) ==
    /\ ~Active(g)
    /\ \A h \in 1 .. g - 1 : Active(h)
    /\ shell = "up"
    /\ made < Gestures
    /\ made' = made + 1
    /\ crossed' = IF Busy(m) \/ (poller.module = m /\ poller.pc \in {"outside", "naming"})
                  THEN crossed \union {m} ELSE crossed
    /\ UNCHANGED <<table, process, outside, shell, poller>>

Takes(g, test, m, pc, goal) ==
    thread' = [thread EXCEPT ![g] =
                 [test |-> test, module |-> m, pc |-> pc, goal |-> goal, proc |-> NoProcess]]

Start(g, m) ==
    /\ CanStart(m)
    /\ Takes(g, FALSE, m, "accepted", "STOPPED")
    /\ Arrives(g, m)
    /\ UNCHANGED state

\* In EXTERNAL only the view is reset; a cancel in STARTING stops the same way.
Stop(g, m) ==
    /\ \/ state[m] = "EXTERNAL" /\ Says(m, "STOPPED") /\ UNCHANGED thread
       \/ state[m] \notin {"EXTERNAL", "STOPPED"} /\ Takes(g, FALSE, m, "stopping", "STOPPED") /\ UNCHANGED state
    /\ Arrives(g, m)

\* A running module is stopped first; the startup test asks no can_start.
Restart(g, m) ==
    /\ \/ UpOrStarting(m) /\ Takes(g, FALSE, m, "stopping", "AGAIN")
       \/ CanStart(m) /\ Takes(g, FALSE, m, "accepted", "STOPPED")
    /\ Arrives(g, m)
    /\ UNCHANGED state

StartupTest(g, m) ==
    /\ IF UpOrStarting(m) THEN Takes(g, TRUE, m, "stopping", "AGAIN")
       ELSE Takes(g, TRUE, m, "accepted", "STOPPED")
    /\ Arrives(g, m)
    /\ UNCHANGED state

-----------------------------------------------------------------------------
\* ModuleRunner.start, up to its first wait: the write targets and the quota
\* guard may fail; a ValueError is recorded by the start worker alone.
BeginStart(g) ==
    LET m == thread[g].module
    IN  /\ thread[g].pc = "accepted"
        /\ \/ /\ state[m] \in {"STOPPED"} \union Failed
              /\ \/ Goes(g, "checking") /\ Says(m, "STARTING")
                 \/ Finishes(g, "FAILED")
           \/ /\ state[m] \notin {"STOPPED"} \union Failed
              /\ IF thread[g].test THEN Ends(g) /\ UNCHANGED state
                 ELSE Finishes(g, "FAILED")
        /\ UNCHANGED <<table, process, outside, shell, made, poller, crossed>>

\* Mutant: the refusal is returned to the caller and never recorded.
CheckPortQuietly(g) ==
    /\ thread[g].pc = "checking"
    /\ Ends(g) \/ (~Held(thread[g].module) /\ Goes(g, "spawning"))
    /\ UNCHANGED <<state, table, process, outside, shell, made, poller, crossed>>

\* The port check names its own class, before any spawn: somebody who answers
\* listens, and whether somebody who does not listens is left open.
CheckPort(g) ==
    /\ thread[g].pc = "checking"
    /\ \/ Finishes(g, "FAILED")
       \/ ~Held(thread[g].module) /\ Goes(g, "spawning") /\ UNCHANGED state
    /\ UNCHANGED <<table, process, outside, shell, made, poller, crossed>>

\* Mutant: the process is not assigned to the shell's own job.
AssignableAlways == TRUE

\* Assignment to the shell job fails once its handle is closed.
Assignable == shell = "up"

AtLimit == Cardinality(Listed) >= MaxProcesses

\* JobSupervisor.spawn: refused at the limit, failed by the system, or listed.
Spawn(g) ==
    LET m == thread[g].module
    IN  /\ thread[g].pc = "spawning"
        /\ \/ AtLimit /\ Finishes(g, "FULL") /\ UNCHANGED <<table, process>>
           \/ ~AtLimit /\ Finishes(g, "FAILED") /\ UNCHANGED <<table, process>>
           \/ /\ ~AtLimit /\ Assignable
              /\ \E p \in Process :
                   /\ process[p].is = "unborn"
                   /\ \A q \in 1 .. p - 1 : process[q].is # "unborn"
                   /\ process' = [process EXCEPT ![p] = [of |-> m, is |-> "up"]]
                   /\ table' = [table EXCEPT ![m] = p]
              /\ Goes(g, "probing")
              /\ UNCHANGED state
        /\ UNCHANGED <<outside, shell, made, poller, crossed>>

\* The readiness probe asks the url, whoever answers it, until its deadline.
Probed(g) ==
    /\ thread[g].pc = "probing"
    /\ \/ Held(thread[g].module) /\ Goes(g, "identifying")
       \/ Stops(g, "FAILED")
    /\ UNCHANGED <<state, table, process, outside, shell, made, poller, crossed>>

\* Identity, the last word of start(); a startup test then keeps or stops it.
Identified(g) ==
    LET m == thread[g].module
    IN  /\ thread[g].pc = "identifying"
        /\ \/ /\ Held(m)
              /\ Says(m, "READY")
              /\ IF thread[g].test THEN Goes(g, "tested") ELSE Ends(g)
           \/ Stops(g, "FAILED") /\ UNCHANGED state
        /\ UNCHANGED <<table, process, outside, shell, made, poller, crossed>>

TestEnds(g) ==
    LET m == thread[g].module
    IN  /\ thread[g].pc = "tested"
        /\ \/ Ends(g) /\ UNCHANGED state
           \/ state[m] = "EXTERNAL" /\ Finishes(g, "STOPPED")
           \/ state[m] \notin {"EXTERNAL", "STOPPED"} /\ Stops(g, "STOPPED") /\ UNCHANGED state
        /\ UNCHANGED <<table, process, outside, shell, made, poller, crossed>>

-----------------------------------------------------------------------------
\* Mutant: a module still STARTING counts as having nothing to signal.
NothingWhileStarting(m) == ListedDead(m) \/ table[m] = NoProcess \/ state[m] = "STARTING"

\* stop() has nothing to signal: no entry, or an entry whose process died.
NothingToSignal(m) == ListedDead(m) \/ table[m] = NoProcess

\* JobSupervisor.stop, its first block: a dead entry is cleaned up at once.
Signal(g) ==
    LET m == thread[g].module
    IN  /\ thread[g].pc = "stopping"
        /\ IF NothingToSignal(m)
           THEN Goes(g, "stopped") /\ table' = [table EXCEPT ![m] = NoProcess]
           ELSE /\ thread' = [thread EXCEPT ![g].pc = "gracing", ![g].proc = table[m]]
                /\ UNCHANGED table
        /\ UNCHANGED <<state, process, outside, shell, made, poller, crossed>>

\* After the grace period the job is terminated and the module's entry, by
\* then perhaps another process's, is removed.
Terminate(g) ==
    /\ thread[g].pc = "gracing"
    /\ process' = [process EXCEPT ![thread[g].proc].is = "dead"]
    /\ table' = [table EXCEPT ![thread[g].module] = NoProcess]
    /\ thread' = [thread EXCEPT ![g].pc = "stopped", ![g].proc = NoProcess]
    /\ UNCHANGED <<state, outside, shell, made, poller, crossed>>

\* The caller of stop() writes the state, after the reader thread was joined.
Stopped(g) ==
    /\ thread[g].pc = "stopped"
    /\ IF thread[g].goal = "AGAIN"
       THEN /\ thread' = [thread EXCEPT ![g].pc = "accepted", ![g].goal = "STOPPED"]
            /\ Says(thread[g].module, "STOPPED")
       ELSE Finishes(g, thread[g].goal)
    /\ UNCHANGED <<table, process, outside, shell, made, poller, crossed>>

-----------------------------------------------------------------------------

PollerMoves == poller' = [pc |-> "idle", module |-> (poller.module % ModuleCount) + 1]

Gone(m) == table[m] = NoProcess \/ ListedDead(m)

\* ModuleRunner.poll: an exit is recorded, a running module is probed, and a
\* module without an entry is looked for outside; the probes block.
Poll ==
    LET m == poller.module
    IN  /\ poller.pc = "idle"
        /\ \/ state[m] \in Running /\ Gone(m) /\ Says(m, "FAILED") /\ PollerMoves /\ UNCHANGED crossed
           \/ /\ state[m] \in Running /\ ~Gone(m)
              /\ poller' = [poller EXCEPT !.pc = "ready"]
              /\ UNCHANGED <<state, crossed>>
           \/ /\ state[m] \notin Running /\ table[m] = NoProcess
              /\ poller' = [poller EXCEPT !.pc = "outside"]
              /\ crossed' = IF Busy(m) THEN crossed \union {m} ELSE crossed
              /\ UNCHANGED state
           \/ state[m] \notin Running /\ table[m] # NoProcess /\ PollerMoves /\ UNCHANGED <<state, crossed>>
        /\ UNCHANGED <<table, process, outside, shell, thread, made>>

\* The periodic readiness probe returns: the state is read again, then written.
PolledReady ==
    LET m == poller.module
    IN  /\ poller.pc = "ready"
        /\ \/ Held(m) /\ state' = [state EXCEPT ![m] = IF @ = "DEGRADED" THEN "READY" ELSE @]
           \/ state' = [state EXCEPT ![m] = IF @ = "READY" THEN "DEGRADED" ELSE @]
        /\ PollerMoves
        /\ UNCHANGED <<table, process, outside, shell, thread, made, crossed>>

\* Mutant: a released endpoint clears the refusal only.
AfterReleaseFailed(s) == IF s \in Failed THEN "STOPPED" ELSE s

AfterRelease(s) == IF s \in {"EXTERNAL"} \union Failed THEN "STOPPED" ELSE s

PolledOutside ==
    LET m == poller.module
    IN  /\ poller.pc = "outside"
        /\ \/ Held(m) /\ poller' = [poller EXCEPT !.pc = "naming"] /\ UNCHANGED state
           \/ Says(m, AfterRelease(state[m])) /\ PollerMoves
        /\ UNCHANGED <<table, process, outside, shell, thread, made, crossed>>

\* The identity of what answered is written over whatever the state is by now.
PolledIdentity ==
    LET m == poller.module
    IN  /\ poller.pc = "naming"
        /\ \/ Held(m) /\ Says(m, "EXTERNAL")
           \/ Says(m, "OCCUPIED")
        /\ PollerMoves
        /\ UNCHANGED <<table, process, outside, shell, thread, made, crossed>>

\* supervisor.close(): every listed process, then the shell job with the rest.
CloseShell ==
    /\ shell = "up"
    /\ shell' = "closed"
    /\ table' = [m \in Module |-> NoProcess]
    /\ process' = [p \in Process |-> IF Live(p) THEN [process[p] EXCEPT !.is = "dead"] ELSE process[p]]
    /\ UNCHANGED <<state, outside, thread, made, poller, crossed>>

-----------------------------------------------------------------------------
\* The modules' processes, and programs that are not the shell's.
Serves(p) == process[p].is = "up" /\ ~Held(process[p].of) /\ process' = [process EXCEPT ![p].is = "serving"]
Hangs(p) == process[p].is = "serving" /\ process' = [process EXCEPT ![p].is = "up"]
Dies(p) == Live(p) /\ process' = [process EXCEPT ![p].is = "dead"]

ProcessStep(p) ==
    /\ Serves(p) \/ Hangs(p) \/ Dies(p)
    /\ UNCHANGED <<state, table, outside, shell, thread, made, poller, crossed>>

OutsideStep(m) ==
    /\ \/ ~Held(m) /\ outside' = outside \union {m}
       \/ m \in outside /\ outside' = outside \ {m}
    /\ UNCHANGED <<state, table, process, shell, thread, made, poller, crossed>>

ThreadStep(g) ==
    \/ BeginStart(g) \/ CheckPort(g) \/ Spawn(g) \/ Probed(g) \/ Identified(g) \/ TestEnds(g)
    \/ Signal(g) \/ Terminate(g) \/ Stopped(g)

PollerStep == Poll \/ PolledReady \/ PolledOutside \/ PolledIdentity

Next ==
    \/ \E g \in Thread, m \in Module : Start(g, m) \/ Stop(g, m) \/ Restart(g, m) \/ StartupTest(g, m)
    \/ \E g \in Thread : ThreadStep(g)
    \/ PollerStep
    \/ CloseShell
    \/ \E p \in Process : ProcessStep(p)
    \/ \E m \in Module : OutsideStep(m)

\* Every probe has a deadline and every grace period an end; nothing makes an
\* operator act, a process serve or an endpoint be released.
Fairness ==
    /\ \A g \in Thread : WF_vars(ThreadStep(g))
    /\ WF_vars(PollerStep)

Spec == Init /\ [][Next]_vars /\ Fairness

-----------------------------------------------------------------------------
View == {"STOPPED", "STARTING", "EXTERNAL"} \union Running \union Failed
Place == {"idle", "accepted", "checking", "spawning", "probing", "identifying", "tested",
          "stopping", "gracing", "stopped"}
ThreadRow == [test : BOOLEAN, module : Module, pc : Place, goal : {"STOPPED", "FAILED", "AGAIN"},
              proc : Process \union {NoProcess}]

\* Types of the variables of the shell's tables and threads.
TypeOK ==
    /\ state \in [Module -> View]
    /\ table \in [Module -> Process \union {NoProcess}]
    /\ process \in [Process -> [of : Module \union {0}, is : {"unborn", "up", "serving", "dead"}]]
    /\ outside \subseteq Module
    /\ shell \in {"up", "closed"}
    /\ thread \in [Thread -> ThreadRow]
    /\ made \in 0 .. Gestures
    /\ poller \in [pc : {"idle", "ready", "outside", "naming"}, module : Module]
    /\ crossed \subseteq Module

\* As long as no two gestures on a module overlapped, nor one with a look
\* outside, the supervisor accounts for the module between gestures: a live
\* process is the listed one and shown as running, and what is shown as
\* running is listed (states.py start, stop and poll).
UncrossedIsAccounted ==
    \A m \in Module \ crossed : Busy(m) \/
        /\ \A p \in Of(m) : Live(p) => table[m] = p /\ state[m] \in Running
        /\ shell = "up" /\ state[m] \in Running => table[m] # NoProcess

\* No managed process outlives the shell, not even one whose entry another
\* thread replaced or removed, or one a late start thread would create
\* (supervisor.py close and the two job assignments of spawn).
NothingOutlivesTheShell == shell = "closed" => \A p \in Process : ~Live(p)

\* What is shown does not stay wrong, however gestures and probes interleave:
\* a module shown as running though its process is gone, or as held from
\* outside though nobody holds it and no process is listed (states.py poll).
WrongViewsPass ==
    \A m \in Module :
        LET Wrong == \/ state[m] \in Running /\ Gone(m)
                     \/ state[m] \in {"EXTERNAL", "OCCUPIED"} /\ ~Held(m) /\ table[m] = NoProcess
        IN  Wrong ~> ~Wrong

\* A start ends: no module is STARTING for ever, whoever cancelled, replaced
\* or killed what it was waiting for (states.py start, server.py _start_worker).
StartsEnd == \A m \in Module : state[m] = "STARTING" ~> state[m] # "STARTING"
====
