---- MODULE ShellModulesProofs ----
(***************************************************************************)
(* What is proved of the shell's module lifecycle for any number of        *)
(* modules, processes, gestures and threads: its types, that no managed    *)
(* process outlives the shell, and that the supervisor accounts for every  *)
(* module two of whose threads never overlapped.                           *)
(***************************************************************************)
EXTENDS ShellModules, TLAPS

\* Nothing of module m is alive.
Down(m) == \A p \in Of(m) : ~Live(p)

Accounted(m) ==
    /\ \A p \in Of(m) : Live(p) => table[m] = p /\ state[m] \in Running
    /\ shell = "up" /\ state[m] \in Running => table[m] # NoProcess

\* A module nothing crossed has one thread at most,
OneThread ==
    \A g, h \in Thread :
        Active(g) /\ Active(h) /\ thread[g].module = thread[h].module /\ thread[g].module \notin crossed => g = h

\* none while the poller looks for it outside, when nothing is listed for it,
PollerAlone ==
    poller.pc \in {"outside", "naming"} /\ poller.module \notin crossed =>
        ~Busy(poller.module) /\ state[poller.module] \notin Running /\ table[poller.module] = NoProcess

\* and no live process but the listed one.
LiveIsListed == \A m \in Module \ crossed : \A p \in Of(m) : Live(p) => table[m] = p

\* What the one thread of such a module may rely on, place by place.
Relies(g, m) ==
    /\ thread[g].pc \in {"accepted", "checking", "spawning", "stopped"} => Down(m)
    /\ thread[g].pc = "accepted" => state[m] \notin Running
    /\ thread[g].pc \in {"checking", "spawning", "probing", "identifying"} => state[m] = "STARTING"
    /\ thread[g].pc \in {"probing", "identifying"} /\ shell = "up" => table[m] # NoProcess
    /\ thread[g].pc = "tested" => Accounted(m)
    /\ thread[g].pc = "gracing" => \A p \in Of(m) : Live(p) => p = thread[g].proc

ThreadRelies ==
    \A g \in Thread, m \in Module \ crossed : Active(g) /\ thread[g].module = m => Relies(g, m)

Accounts == OneThread /\ PollerAlone /\ LiveIsListed /\ ThreadRelies /\ UncrossedIsAccounted


-----------------------------------------------------------------------------
(* Types. *)

\* The sets the types are built from.
LEMMA NoProcessIsNone == NoProcess \notin Process
BY DEF NoProcess, Process

\* The poller's round stays among the modules.
LEMMA RoundStays ==
    ASSUME TypeOK
    PROVE  (poller.module % ModuleCount) + 1 \in Module
<1>1. poller.module \in 1 .. ModuleCount /\ ModuleCount \in Nat \ {0}
  BY ShellAssumption DEF TypeOK, Module
<1>2. poller.module % ModuleCount \in 0 .. ModuleCount - 1
  BY <1>1
<1> QED BY <1>1, <1>2 DEF Module

\* What a thread writes into its row is a row.
LEMMA RowsWritten ==
    ASSUME TypeOK, NEW g \in Thread
    PROVE  /\ thread[g].module \in Module
           /\ \A pc \in Place : Goes(g, pc) => thread' \in [Thread -> ThreadRow]
           /\ \A goal \in {"STOPPED", "FAILED", "AGAIN"} : Stops(g, goal) => thread' \in [Thread -> ThreadRow]
           /\ Ends(g) => thread' \in [Thread -> ThreadRow]
           /\ \A s \in View, m \in Module : Says(m, s) => state' \in [Module -> View]
<1>1. thread[g] \in ThreadRow /\ thread \in [Thread -> ThreadRow]
  BY DEF TypeOK
<1>2. thread[g].module \in Module
  BY <1>1 DEF ThreadRow
<1>3. \A pc \in Place : [thread[g] EXCEPT !.pc = pc] \in ThreadRow
  BY <1>1 DEF ThreadRow
<1>4. \A pc \in Place : Goes(g, pc) => thread' \in [Thread -> ThreadRow]
  BY <1>1, <1>3 DEF Goes
<1>5. \A goal \in {"STOPPED", "FAILED", "AGAIN"} :
        [thread[g] EXCEPT !.pc = "stopping", !.goal = goal] \in ThreadRow
  BY <1>1 DEF ThreadRow, Place
<1>6. \A goal \in {"STOPPED", "FAILED", "AGAIN"} : Stops(g, goal) => thread' \in [Thread -> ThreadRow]
  BY <1>1, <1>5 DEF Stops
<1>7. 1 \in Module
  BY ShellAssumption DEF Module
<1>8. Idle \in ThreadRow
  BY <1>7 DEF Idle, ThreadRow, Place
<1>9. Ends(g) => thread' \in [Thread -> ThreadRow]
  BY <1>1, <1>8 DEF Ends
<1>10. \A s \in View, m \in Module : Says(m, s) => state' \in [Module -> View]
  BY DEF Says, TypeOK
<1> QED BY <1>2, <1>4, <1>6, <1>9, <1>10

\* A gesture's arrival keeps the types.
LEMMA ArrivalsType ==
    ASSUME TypeOK, NEW g \in Thread, NEW m \in Module,
           Start(g, m) \/ Stop(g, m) \/ Restart(g, m) \/ StartupTest(g, m)
    PROVE  TypeOK'
<1>1. Arrives(g, m)
  BY DEF Start, Stop, Restart, StartupTest
<1>2. crossed' \subseteq Module
  BY <1>1 DEF TypeOK, Arrives
<1>3. made' \in 0 .. Gestures
  BY <1>1, ShellAssumption DEF TypeOK, Arrives
<1>4. \A test \in BOOLEAN, pc \in Place, goal \in {"STOPPED", "AGAIN"} :
        Takes(g, test, m, pc, goal) => thread' \in [Thread -> ThreadRow]
  <2> SUFFICES ASSUME NEW test \in BOOLEAN, NEW pc \in Place, NEW goal \in {"STOPPED", "AGAIN"},
                      Takes(g, test, m, pc, goal)
               PROVE  thread' \in [Thread -> ThreadRow]
    OBVIOUS
  <2>1. [test |-> test, module |-> m, pc |-> pc, goal |-> goal, proc |-> NoProcess] \in ThreadRow
    BY DEF ThreadRow
  <2> QED BY <2>1 DEF Takes, TypeOK
<1>5. thread' \in [Thread -> ThreadRow]
  BY <1>4 DEF TypeOK, Start, Stop, Restart, StartupTest, Place
<1>6. state' \in [Module -> View]
  BY DEF TypeOK, Start, Stop, Restart, StartupTest, Says, View
<1> QED BY <1>1, <1>2, <1>3, <1>5, <1>6 DEF TypeOK, Arrives

\* A step of a gesture's thread keeps the types.
LEMMA ThreadsType ==
    ASSUME TypeOK, NEW g \in Thread, ThreadStep(g)
    PROVE  TypeOK'
<1> DEFINE Rows == thread' \in [Thread -> ThreadRow]
           Views == state' \in [Module -> View]
<1>0. /\ thread[g].module \in Module
      /\ \A pc \in Place : Goes(g, pc) => Rows
      /\ \A goal \in {"STOPPED", "FAILED", "AGAIN"} : Stops(g, goal) => Rows
      /\ Ends(g) => Rows
      /\ \A s \in View, m \in Module : Says(m, s) => Views
      /\ UNCHANGED state => Views
  BY RowsWritten DEF TypeOK
<1>1. CASE BeginStart(g)
  BY <1>0, <1>1 DEF BeginStart, Finishes, Place, View, Failed, TypeOK
<1>2. CASE CheckPort(g)
  BY <1>0, <1>2 DEF CheckPort, Finishes, Place, View, Failed, TypeOK
<1>3. CASE Spawn(g)
  <2>1. Rows
    BY <1>0, <1>3 DEF Spawn, Finishes, Place
  <2>2. Views
    BY <1>0, <1>3 DEF Spawn, Finishes, View, Failed
  <2>3. table' \in [Module -> Process \union {NoProcess}]
    BY <1>0, <1>3 DEF Spawn, TypeOK
  <2>4. process' \in [Process -> [of : Module \union {0}, is : {"unborn", "up", "serving", "dead"}]]
    BY <1>0, <1>3 DEF Spawn, TypeOK
  <2> QED BY <1>3, <2>1, <2>2, <2>3, <2>4 DEF Spawn, TypeOK
<1>4. CASE Probed(g)
  BY <1>0, <1>4 DEF Probed, Place, TypeOK
<1>5. CASE Identified(g)
  BY <1>0, <1>5 DEF Identified, Place, View, Running, TypeOK
<1>6. CASE TestEnds(g)
  BY <1>0, <1>6 DEF TestEnds, Finishes, View, TypeOK
<1>7. CASE Signal(g)
  <2>1. table[thread[g].module] \in Process \union {NoProcess} /\ thread[g] \in ThreadRow
    BY <1>0 DEF TypeOK
  <2>2. [thread[g] EXCEPT !.pc = "gracing", !.proc = table[thread[g].module]] \in ThreadRow
    BY <2>1 DEF ThreadRow, Place
  <2>3. Rows
    BY <1>0, <1>7, <2>2 DEF Signal, Place, TypeOK
  <2> QED BY <1>0, <1>7, <2>3 DEF Signal, TypeOK
<1>8. CASE Terminate(g)
  <2>1. thread[g] \in ThreadRow
    BY DEF TypeOK
  <2>2. [thread[g] EXCEPT !.pc = "stopped", !.proc = NoProcess] \in ThreadRow
    BY <2>1 DEF ThreadRow, Place
  <2>3. Rows
    BY <1>8, <2>2 DEF Terminate, TypeOK
  <2> QED BY <1>0, <1>8, <2>3 DEF Terminate, TypeOK
<1>9. CASE Stopped(g)
  <2>1. thread[g] \in ThreadRow
    BY DEF TypeOK
  <2>2. [thread[g] EXCEPT !.pc = "accepted", !.goal = "STOPPED"] \in ThreadRow /\ thread[g].goal \in {"STOPPED", "FAILED", "AGAIN"}
    BY <2>1 DEF ThreadRow, Place
  <2>3. Rows
    BY <1>0, <1>9, <2>2 DEF Stopped, Finishes, TypeOK
  <2>4. Views
    BY <1>0, <1>9, <2>2 DEF Stopped, Finishes, View, Failed
  <2> QED BY <1>9, <2>3, <2>4 DEF Stopped, TypeOK
<1> QED BY <1>1, <1>2, <1>3, <1>4, <1>5, <1>6, <1>7, <1>8, <1>9 DEF ThreadStep

\* A step of the poller keeps the types.
LEMMA PollerType ==
    ASSUME TypeOK, PollerStep
    PROVE  TypeOK'
<1> USE DEF TypeOK
<1>0. poller.module \in Module /\ (poller.module % ModuleCount) + 1 \in Module
  BY RoundStays
<1>1. CASE Poll
  BY <1>0, <1>1 DEF Poll, PollerMoves, Says, View, Failed
<1>2. CASE PolledReady
  BY <1>0, <1>2 DEF PolledReady, PollerMoves, View, Running
<1>3. CASE PolledOutside
  BY <1>0, <1>3 DEF PolledOutside, PollerMoves, Says, View, AfterRelease
<1>4. CASE PolledIdentity
  BY <1>0, <1>4 DEF PolledIdentity, PollerMoves, Says, View, Failed
<1> QED BY <1>1, <1>2, <1>3, <1>4 DEF PollerStep

\* Types are kept by every step.
LEMMA TypeStep ==
    ASSUME TypeOK, [Next]_vars
    PROVE  TypeOK'
<1>1. CASE \E g \in Thread, m \in Module : Start(g, m) \/ Stop(g, m) \/ Restart(g, m) \/ StartupTest(g, m)
  BY <1>1, ArrivalsType
<1>2. CASE \E g \in Thread : ThreadStep(g)
  BY <1>2, ThreadsType
<1>3. CASE PollerStep
  BY <1>3, PollerType
<1>4. CASE CloseShell
  BY <1>4 DEF CloseShell, TypeOK
<1>5. CASE \E p \in Process : ProcessStep(p)
  BY <1>5 DEF ProcessStep, Serves, Hangs, Dies, TypeOK
<1>6. CASE \E m \in Module : OutsideStep(m)
  BY <1>6 DEF OutsideStep, TypeOK
<1>7. CASE UNCHANGED vars
  BY <1>7 DEF vars, TypeOK
<1> QED BY <1>1, <1>2, <1>3, <1>4, <1>5, <1>6, <1>7 DEF Next

\* The shell starts well typed.
LEMMA InitType == Init => TypeOK
<1> SUFFICES ASSUME Init PROVE TypeOK
  OBVIOUS
<1>1. 1 \in Module /\ 0 \in 0 .. Gestures
  BY ShellAssumption DEF Module
<1> QED BY <1>1 DEF Init, TypeOK, Idle, ThreadRow, Place, View

\* The types of the shell's tables and threads hold in every reachable state.
THEOREM TypeCorrect == Spec => []TypeOK
<1>1. TypeOK /\ [Next]_vars => TypeOK'
  BY TypeStep
<1> QED BY InitType, <1>1, PTL DEF Spec

-----------------------------------------------------------------------------
(* After the shell. *)

\* A closed shell has killed what lived, and creates nothing.
LEMMA OutlivesStep ==
    ASSUME TypeOK, NothingOutlivesTheShell, [Next]_vars
    PROVE  NothingOutlivesTheShell'
<1> USE DEF NothingOutlivesTheShell, Live
<1>1. CASE \E g \in Thread, m \in Module : Start(g, m) \/ Stop(g, m) \/ Restart(g, m) \/ StartupTest(g, m)
  BY <1>1 DEF Start, Stop, Restart, StartupTest, Arrives
<1>2. ASSUME NEW g \in Thread, ThreadStep(g)
      PROVE  NothingOutlivesTheShell'
  <2>1. CASE Spawn(g)
    BY <2>1 DEF Spawn, Assignable
  <2>2. CASE Terminate(g)
    BY <2>2 DEF Terminate, TypeOK
  <2>3. CASE UNCHANGED <<process, shell>>
    BY <2>3
  <2> QED BY <1>2, <2>1, <2>2, <2>3
        DEF ThreadStep, BeginStart, CheckPort, Probed, Identified, TestEnds, Signal, Stopped
<1>3. CASE PollerStep
  BY <1>3 DEF PollerStep, Poll, PolledReady, PolledOutside, PolledIdentity
<1>4. CASE CloseShell
  BY <1>4 DEF CloseShell, TypeOK
<1>5. CASE \E p \in Process : ProcessStep(p)
  BY <1>5 DEF ProcessStep, Serves, Hangs, Dies, TypeOK
<1>6. CASE \E m \in Module : OutsideStep(m)
  BY <1>6 DEF OutsideStep
<1>7. CASE UNCHANGED vars
  BY <1>7 DEF vars
<1> QED BY <1>1, <1>2, <1>3, <1>4, <1>5, <1>6, <1>7 DEF Next

\* No managed process outlives the shell, whatever gestures were under way.
THEOREM ShellIsSurvivedByNothing == Spec => []NothingOutlivesTheShell
<1>1. Init => TypeOK /\ NothingOutlivesTheShell
  BY InitType DEF Init, NothingOutlivesTheShell
<1>2. TypeOK /\ NothingOutlivesTheShell /\ [Next]_vars => (TypeOK /\ NothingOutlivesTheShell)'
  BY TypeStep, OutlivesStep
<1> QED BY <1>1, <1>2, PTL DEF Spec

-----------------------------------------------------------------------------
(* The accounts of a module nothing crossed. *)

\* A thread's step disturbs its own module's accounts only.
LEMMA ThreadFrame ==
    ASSUME TypeOK, Accounts, NEW g \in Thread, Active(g), NEW m \in Module, m = thread[g].module,
           \A h \in Thread \ {g} : thread'[h] = thread[h],
           thread'[g].pc = "idle" \/ thread'[g].module = m,
           \A n \in Module \ {m} : state'[n] = state[n] /\ table'[n] = table[n],
           \A p \in Process : process'[p] # process[p] => process'[p].of = m \/ ~Live(p)',
           UNCHANGED <<shell, poller, crossed>>,
           m \notin crossed =>
             /\ \A p \in Of(m)' : Live(p)' => table'[m] = p
             /\ IF thread'[g].pc = "idle" THEN Accounted(m)' ELSE Relies(g, m)'
    PROVE  Accounts'
<1> USE DEF Accounts
<1>1. \A h \in Thread : Active(h)' => Active(h) /\ thread'[h].module = thread[h].module
  BY DEF Active
<1>2. OneThread'
  BY <1>1 DEF OneThread
<1>3. ASSUME NEW n \in Module \ {m}
      PROVE  \A p \in Of(n)' : Live(p)' => p \in Of(n) /\ Live(p)
  BY DEF Of, Live
<1>4. PollerAlone'
  <2> SUFFICES ASSUME poller.pc \in {"outside", "naming"}, poller.module \notin crossed
               PROVE  ~Busy(poller.module)' /\ state'[poller.module] \notin Running /\ table'[poller.module] = NoProcess
    BY DEF PollerAlone
  <2>1. ~Busy(poller.module) /\ state[poller.module] \notin Running /\ table[poller.module] = NoProcess
    BY DEF PollerAlone
  <2>2. poller.module # m /\ poller.module \in Module
    BY <2>1 DEF Busy, TypeOK
  <2> QED BY <1>1, <2>1, <2>2 DEF Busy
<1>5. LiveIsListed'
  BY <1>3 DEF LiveIsListed
<1>6. ThreadRelies'
  <2> SUFFICES ASSUME NEW h \in Thread, NEW n \in Module \ crossed, Active(h)', thread'[h].module = n
               PROVE  Relies(h, n)'
    BY DEF ThreadRelies
  <2>1. CASE h = g
    BY <2>1, <1>1 DEF Active
  <2>2. CASE h # g
    <3>1. Active(h) /\ thread'[h] = thread[h] /\ n # m
      BY <2>2, <1>1 DEF OneThread
    <3>2. Relies(h, n)
      BY <3>1 DEF ThreadRelies
    <3>3. \A p \in Of(n)' : Live(p)' => p \in Of(n) /\ Live(p)
      BY <1>3, <3>1
    <3>4. state'[n] = state[n] /\ table'[n] = table[n]
      BY <3>1
    <3>5. (Down(n) => Down(n)') /\ (Accounted(n) => Accounted(n)')
      BY <3>3, <3>4 DEF Down, Accounted
    <3> QED BY <3>1, <3>2, <3>3, <3>4, <3>5 DEF Relies
  <2> QED BY <2>1, <2>2
<1>7. UncrossedIsAccounted'
  <2> SUFFICES ASSUME NEW n \in Module \ crossed, ~Busy(n)'
               PROVE  Accounted(n)'
    BY DEF UncrossedIsAccounted, Accounted
  <2>1. CASE n = m
    BY <2>1, <1>1 DEF Busy, Active
  <2>2. CASE n # m
    <3>1. ~Busy(n)
      BY <2>2 DEF Busy, Active
    <3>2. Accounted(n)
      BY <3>1 DEF UncrossedIsAccounted, Accounted
    <3> QED BY <2>2, <1>3, <3>2 DEF Accounted
  <2> QED BY <2>1, <2>2
<1> QED BY <1>2, <1>4, <1>5, <1>6, <1>7

\* What a thread on module m may use, with the rows it leaves alone.
LEMMA ThreadStarts ==
    ASSUME TypeOK, Accounts, NEW g \in Thread, NEW m \in Module, thread[g].module = m, thread[g].pc # "idle",
           m \notin crossed
    PROVE  Relies(g, m) /\ \A p \in Of(m) : Live(p) => table[m] = p
BY DEF Accounts, ThreadRelies, LiveIsListed, Active

\* Steps that leave the supervisor and its processes alone.
LEMMA ViewSteps ==
    ASSUME TypeOK, Accounts, NEW g \in Thread,
           BeginStart(g) \/ CheckPort(g) \/ Probed(g) \/ Identified(g) \/ TestEnds(g) \/ Stopped(g)
    PROVE  Accounts'
<1>1. PICK m \in Module : thread[g].module = m
  BY RowsWritten
<1>2. thread \in [Thread -> ThreadRow] /\ state \in [Module -> View]
  BY DEF TypeOK
<1>3. thread[g].pc # "idle" /\ Active(g)
  BY DEF BeginStart, CheckPort, Probed, Identified, TestEnds, Stopped, Active
<1>4. /\ UNCHANGED <<table, process, shell, poller, crossed>>
      /\ \A h \in Thread \ {g} : thread'[h] = thread[h]
      /\ thread'[g].pc = "idle" \/ thread'[g].module = m
      /\ \A n \in Module \ {m} : state'[n] = state[n]
  BY <1>1, <1>2 DEF BeginStart, CheckPort, Probed, Identified, TestEnds, Stopped,
                    Goes, Ends, Stops, Finishes, Says, Idle, ThreadRow
<1>5. ASSUME m \notin crossed
      PROVE  /\ \A p \in Of(m)' : Live(p)' => table'[m] = p
             /\ IF thread'[g].pc = "idle" THEN Accounted(m)' ELSE Relies(g, m)'
  <2>1. Relies(g, m) /\ \A p \in Of(m) : Live(p) => table[m] = p
    BY <1>1, <1>3, <1>5, ThreadStarts
  <2>2. \A p \in Of(m)' : Live(p)' => table'[m] = p /\ p \in Of(m) /\ Live(p)
    BY <1>4, <2>1 DEF Of, Live
  <2>3. Down(m) => Down(m)'
    BY <2>2 DEF Down
  <2> USE DEF ThreadRow
  <2>4. CASE BeginStart(g)
    <3>1. Down(m)' /\ state[m] \notin Running
      BY <2>1, <2>3, <2>4 DEF BeginStart, Relies
    <3>2. CASE thread'[g].pc = "idle"
      <4>1. state'[m] \notin Running
        BY <1>1, <1>2, <2>4, <3>1, <3>2 DEF BeginStart, Goes, Finishes, Says, Running
      <4> QED BY <3>1, <3>2, <4>1 DEF Accounted, Down
    <3>3. CASE thread'[g].pc # "idle"
      <4>1. thread'[g].pc = "checking" /\ state'[m] = "STARTING"
        BY <1>1, <1>2, <2>4, <3>3 DEF BeginStart, Goes, Finishes, Ends, Says, Idle
      <4> QED BY <2>2, <3>1, <4>1 DEF Relies
    <3> QED BY <2>2, <3>2, <3>3
  <2>5. CASE CheckPort(g)
    <3>1. Down(m)' /\ state[m] = "STARTING"
      BY <2>1, <2>3, <2>5 DEF CheckPort, Relies
    <3>2. CASE thread'[g].pc = "idle"
      <4>1. state'[m] \notin Running
        BY <1>1, <1>2, <2>5, <3>1, <3>2 DEF CheckPort, Goes, Finishes, Says, Running
      <4> QED BY <3>1, <3>2, <4>1 DEF Accounted, Down
    <3>3. CASE thread'[g].pc # "idle"
      <4>1. thread'[g].pc = "spawning" /\ state'[m] = "STARTING"
        BY <1>1, <1>2, <2>5, <3>1, <3>3 DEF CheckPort, Goes, Finishes, Ends, Idle
      <4> QED BY <2>2, <3>1, <4>1 DEF Relies
    <3> QED BY <2>2, <3>2, <3>3
  <2>6. CASE Probed(g)
    <3>1. state'[m] = "STARTING" /\ (shell' = "up" => table'[m] # NoProcess)
      BY <1>4, <2>1, <2>6 DEF Probed, Relies
    <3>2. thread'[g].pc \in {"identifying", "stopping"}
      BY <1>2, <2>6 DEF Probed, Goes, Stops
    <3> QED BY <2>2, <3>1, <3>2 DEF Relies
  <2>7. CASE Identified(g)
    <3>1. shell' = "up" => table'[m] # NoProcess
      BY <1>4, <2>1, <2>7 DEF Identified, Relies
    <3>2. CASE thread'[g].pc \in {"idle", "tested"}
      <4>1. state'[m] = "READY"
        BY <1>1, <1>2, <2>7, <3>2 DEF Identified, Stops, Says
      <4>2. Accounted(m)'
        BY <2>2, <3>1, <4>1 DEF Accounted, Running
      <4> QED BY <2>2, <3>2, <4>2 DEF Relies
    <3>3. CASE thread'[g].pc = "stopping"
      BY <2>2, <3>3 DEF Relies
    <3> QED BY <1>2, <2>7, <3>2, <3>3 DEF Identified, Goes, Ends, Stops, Idle
  <2>8. CASE TestEnds(g)
    <3>1. Accounted(m)
      BY <2>1, <2>8 DEF TestEnds, Relies
    <3>2. CASE thread'[g].pc = "idle"
      <4>1. state'[m] = state[m] \/ (state[m] \notin Running /\ state'[m] \notin Running)
        BY <1>1, <1>2, <2>8, <3>2 DEF TestEnds, Finishes, Says, Stops, Running
      <4>2. Accounted(m)'
        BY <1>4, <2>2, <3>1, <4>1 DEF Accounted
      <4> QED BY <2>2, <3>2, <4>2
    <3>3. CASE thread'[g].pc = "stopping"
      BY <2>2, <3>3 DEF Relies
    <3> QED BY <1>2, <2>8, <3>2, <3>3 DEF TestEnds, Finishes, Ends, Stops, Idle
  <2>9. CASE Stopped(g)
    <3>1. Down(m)'
      BY <2>1, <2>3, <2>9 DEF Stopped, Relies
    <3>2. state'[m] \in {"STOPPED", "FAILED"}
      BY <1>1, <1>2, <2>9 DEF Stopped, Finishes, Says
    <3>3. thread'[g].pc \in {"idle", "accepted"}
      BY <1>2, <2>9 DEF Stopped, Finishes, Ends, Idle
    <3> QED BY <2>2, <3>1, <3>2, <3>3 DEF Accounted, Relies, Down, Running
  <2> QED BY <2>4, <2>5, <2>6, <2>7, <2>8, <2>9
<1> QED BY <1>1, <1>3, <1>4, <1>5, ThreadFrame

\* Steps that touch the supervisor: a process is listed, signalled or killed.
LEMMA SupervisorSteps ==
    ASSUME TypeOK, Accounts, NEW g \in Thread, Spawn(g) \/ Signal(g) \/ Terminate(g)
    PROVE  Accounts'
<1>1. PICK m \in Module : thread[g].module = m
  BY RowsWritten
<1>2. /\ thread \in [Thread -> ThreadRow] /\ state \in [Module -> View]
      /\ table \in [Module -> Process \union {NoProcess}]
      /\ process \in [Process -> [of : Module \union {0}, is : {"unborn", "up", "serving", "dead"}]]
  BY DEF TypeOK
<1>3. thread[g].pc # "idle" /\ Active(g)
  BY DEF Spawn, Signal, Terminate, Active
<1>4. /\ UNCHANGED <<shell, poller, crossed>>
      /\ \A h \in Thread \ {g} : thread'[h] = thread[h]
      /\ thread'[g].pc = "idle" \/ thread'[g].module = m
      /\ \A n \in Module \ {m} : state'[n] = state[n] /\ table'[n] = table[n]
  BY <1>1, <1>2 DEF Spawn, Signal, Terminate, Goes, Ends, Finishes, Says, Idle, ThreadRow
<1>5. \A p \in Process : process'[p] # process[p] => process'[p].of = m \/ ~Live(p)'
  BY <1>1, <1>2 DEF Spawn, Signal, Terminate, Live
<1>6. ASSUME m \notin crossed
      PROVE  /\ \A p \in Of(m)' : Live(p)' => table'[m] = p
             /\ IF thread'[g].pc = "idle" THEN Accounted(m)' ELSE Relies(g, m)'
  <2>1. Relies(g, m) /\ \A p \in Of(m) : Live(p) => table[m] = p
    BY <1>1, <1>3, <1>6, ThreadStarts
  <2> USE DEF ThreadRow
  <2>2. CASE Spawn(g)
    <3>1. Down(m) /\ state[m] = "STARTING"
      BY <2>1, <2>2 DEF Spawn, Relies
    <3>2. CASE thread'[g].pc = "idle"
      <4>1. UNCHANGED <<table, process>> /\ state'[m] \in Failed
        BY <1>1, <1>2, <2>2, <3>2 DEF Spawn, Goes, Finishes, Says, Failed
      <4>2. Down(m)'
        BY <3>1, <4>1 DEF Down, Of, Live
      <4> QED BY <3>2, <4>1, <4>2 DEF Accounted, Down, Failed, Running
    <3>3. CASE thread'[g].pc # "idle"
      <4>1. thread'[g].pc = "probing" /\ UNCHANGED state
        BY <1>2, <2>2, <3>3 DEF Spawn, Goes, Finishes, Ends, Idle
      <4>2. PICK p \in Process : process' = [process EXCEPT ![p] = [of |-> m, is |-> "up"]]
                                  /\ table' = [table EXCEPT ![m] = p]
        BY <1>1, <1>2, <2>2, <3>3 DEF Spawn, Finishes, Ends, Idle
      <4>3. table'[m] = p /\ p # NoProcess
        BY <1>2, <4>2, NoProcessIsNone
      <4>4. \A q \in Of(m)' : Live(q)' => q = p
        BY <1>2, <3>1, <4>2 DEF Down, Of, Live
      <4> QED BY <3>1, <4>1, <4>3, <4>4 DEF Relies
    <3> QED BY <3>2, <3>3
  <2>3. CASE Signal(g)
    <3>1. UNCHANGED process /\ \A p \in Of(m)' : Live(p)' => p \in Of(m) /\ Live(p) /\ table[m] = p
      BY <2>1, <2>3 DEF Signal, Of, Live
    <3>2. CASE NothingToSignal(m)
      <4>1. Down(m)'
        BY <3>1, <3>2, NoProcessIsNone DEF NothingToSignal, ListedDead, Down, Of, Live
      <4>2. thread'[g].pc = "stopped"
        BY <1>1, <1>2, <2>3, <3>2 DEF Signal, Goes
      <4> QED BY <4>1, <4>2 DEF Down, Relies
    <3>3. CASE ~NothingToSignal(m)
      <4>1. thread'[g].pc = "gracing" /\ thread'[g].proc = table[m] /\ UNCHANGED table
        BY <1>1, <1>2, <2>3, <3>3 DEF Signal
      <4> QED BY <3>1, <4>1 DEF Relies
    <3> QED BY <3>2, <3>3
  <2>4. CASE Terminate(g)
    <3>1. thread'[g].pc = "stopped"
      BY <1>2, <2>4 DEF Terminate
    <3>2. \A p \in Of(m) : Live(p) => p = thread[g].proc
      BY <2>1, <2>4 DEF Terminate, Relies
    <3>3. Down(m)'
      BY <1>2, <2>4, <3>2 DEF Terminate, Down, Of, Live
    <3> QED BY <3>1, <3>3 DEF Relies, Down
  <2> QED BY <2>2, <2>3, <2>4
<1> QED BY <1>1, <1>3, <1>4, <1>5, <1>6, ThreadFrame

\* A gesture arrives at a module nothing is under way on, or crosses it.
LEMMA ArrivalsAccount ==
    ASSUME TypeOK, Accounts, NEW g \in Thread, NEW m \in Module,
           Start(g, m) \/ Stop(g, m) \/ Restart(g, m) \/ StartupTest(g, m)
    PROVE  Accounts'
<1> USE DEF Accounts
<1>1. /\ thread \in [Thread -> ThreadRow] /\ state \in [Module -> View]
      /\ poller.module \in Module
  BY DEF TypeOK
<1>2. /\ ~Active(g) /\ UNCHANGED <<table, process, shell, poller>>
      /\ crossed' = IF Busy(m) \/ (poller.module = m /\ poller.pc \in {"outside", "naming"})
                    THEN crossed \union {m} ELSE crossed
  BY DEF Start, Stop, Restart, StartupTest, Arrives
<1>3. \A n \in Module : \A p \in Process : (p \in Of(n))' = (p \in Of(n)) /\ Live(p)' = Live(p)
  BY <1>2 DEF Of, Live
<1>4. /\ \A h \in Thread \ {g} : thread'[h] = thread[h]
      /\ \A n \in Module \ {m} : state'[n] = state[n]
      /\ \/ thread' = thread /\ state[m] \notin Running /\ state'[m] \notin Running
         \/ /\ thread'[g].module = m /\ state'[m] = state[m]
            /\ \/ thread'[g].pc = "accepted" /\ state[m] \notin Running
               \/ thread'[g].pc = "stopping"
  BY <1>1 DEF Start, Stop, Restart, StartupTest, Takes, Says, CanStart, UpOrStarting, Running, ThreadRow
<1>5. m \notin crossed' => /\ ~Busy(m) /\ Accounted(m) /\ m \notin crossed
                          /\ ~(poller.module = m /\ poller.pc \in {"outside", "naming"})
  BY <1>2 DEF UncrossedIsAccounted, Accounted
<1>6. \A n \in Module : n \notin crossed' => n \notin crossed
  BY <1>2
<1>7. \A h \in Thread : h # g => Active(h)' = Active(h)
  BY <1>4 DEF Active
<1>8. Active(g)' => thread'[g].module = m
  BY <1>2, <1>4 DEF Active
<1>9. OneThread'
  <2> SUFFICES ASSUME NEW a \in Thread, NEW b \in Thread, Active(a)', Active(b)',
                      thread'[a].module = thread'[b].module, thread'[a].module \notin crossed', a # b
               PROVE  FALSE
    BY DEF OneThread
  <2>1. CASE a = g
    BY <1>4, <1>5, <1>7, <1>8, <2>1 DEF Busy
  <2>2. CASE b = g
    BY <1>4, <1>5, <1>7, <1>8, <2>2 DEF Busy
  <2>3. CASE a # g /\ b # g
    <3>1. thread[a].module \in Module
      BY <1>1 DEF ThreadRow
    <3> QED BY <1>4, <1>6, <1>7, <2>3, <3>1 DEF OneThread
  <2> QED BY <2>1, <2>2, <2>3
<1>10. PollerAlone'
  <2> SUFFICES ASSUME poller.pc \in {"outside", "naming"}, poller.module \notin crossed'
               PROVE  ~Busy(poller.module)' /\ state'[poller.module] \notin Running /\ table[poller.module] = NoProcess
    BY <1>2 DEF PollerAlone
  <2>1. poller.module # m /\ poller.module \notin crossed
    BY <1>1, <1>5, <1>6
  <2> QED BY <1>1, <1>2, <1>4, <1>7, <1>8, <2>1 DEF PollerAlone, Busy
<1>11. LiveIsListed'
  BY <1>2, <1>3, <1>6 DEF LiveIsListed, Of
<1>12. \A n \in Module : (Down(n) => Down(n)') /\ (Accounted(n) /\ n # m => Accounted(n)')
  BY <1>2, <1>3, <1>4 DEF Down, Accounted, Of
<1>13. ThreadRelies'
  <2> SUFFICES ASSUME NEW h \in Thread, NEW n \in Module \ crossed', Active(h)', thread'[h].module = n
               PROVE  Relies(h, n)'
    BY DEF ThreadRelies
  <2>1. CASE n = m
    <3>1. h = g /\ ~Busy(m) /\ Accounted(m)
      BY <1>4, <1>5, <1>7, <2>1 DEF Busy
    <3>2. thread' # thread
      BY <1>2, <3>1 DEF Active
    <3>3. thread'[g].pc \in {"accepted", "stopping"} /\ (thread'[g].pc = "accepted" => state'[m] \notin Running /\ Down(m)')
      BY <1>4, <1>12, <3>1, <3>2 DEF Accounted, Down
    <3> QED BY <2>1, <3>1, <3>3 DEF Relies
  <2>2. CASE n # m
    <3>1. h # g /\ Active(h) /\ thread'[h] = thread[h] /\ n \in Module \ crossed
      BY <1>4, <1>6, <1>7, <1>8, <2>2
    <3>2. Relies(h, n) /\ state'[n] = state[n]
      BY <1>4, <2>2, <3>1 DEF ThreadRelies
    <3> QED BY <1>2, <1>3, <1>12, <2>2, <3>1, <3>2 DEF Relies, Of
  <2> QED BY <2>1, <2>2
<1>14. UncrossedIsAccounted'
  <2> SUFFICES ASSUME NEW n \in Module \ crossed', ~Busy(n)'
               PROVE  Accounted(n)'
    BY DEF UncrossedIsAccounted, Accounted
  <2>1. CASE n = m
    <3>1. thread' = thread /\ state[m] \notin Running /\ state'[m] \notin Running
      BY <1>4, <2>1 DEF Busy, Active
    <3>2. Down(m)'
      BY <1>5, <1>12, <2>1, <3>1 DEF Accounted, Down
    <3> QED BY <2>1, <3>1, <3>2 DEF Accounted, Down
  <2>2. CASE n # m
    <3>1. ~Busy(n) /\ n \notin crossed
      BY <1>2, <1>4, <1>6, <1>7, <2>2 DEF Busy
    <3> QED BY <1>12, <2>2, <3>1 DEF UncrossedIsAccounted, Accounted
  <2> QED BY <2>1, <2>2
<1> QED BY <1>9, <1>10, <1>11, <1>13, <1>14

\* The poller writes over a module only where no thread relies on its state.
LEMMA PollerAccounts ==
    ASSUME TypeOK, Accounts, PollerStep
    PROVE  Accounts'
<1> USE DEF Accounts
<1>1. PICK m \in Module : poller.module = m
  BY DEF TypeOK
<1>2. state \in [Module -> View] /\ UNCHANGED <<table, process, shell, thread>>
  BY DEF TypeOK, PollerStep, Poll, PolledReady, PolledOutside, PolledIdentity
<1>3. /\ \A n \in Module \ {m} : state'[n] = state[n]
      /\ \A n \in Module : n \notin crossed' => n \notin crossed
  BY <1>1, <1>2 DEF PollerStep, Poll, PolledReady, PolledOutside, PolledIdentity, Says
<1>4. \A n \in Module : (Down(n))' = Down(n) /\ Busy(n)' = Busy(n)
  BY <1>2 DEF Down, Of, Live, Busy, Active
\* What may become of the state: it stays, an exit is recorded, a running
\* module changes face, or nobody was under way on the module.
<1>5. \/ state'[m] = state[m]
      \/ state[m] \in Running /\ Gone(m) /\ state'[m] = "FAILED"
      \/ state[m] \in Running /\ state'[m] \in Running
      \/ poller.pc \in {"outside", "naming"} /\ state'[m] \notin Running
  <2>1. CASE Poll
    BY <1>1, <1>2, <2>1 DEF Poll, Says
  <2>2. CASE PolledReady
    BY <1>1, <1>2, <2>2 DEF PolledReady, Running
  <2>3. CASE PolledOutside
    BY <1>1, <1>2, <2>3 DEF PolledOutside, Says, AfterRelease, Running
  <2>4. CASE PolledIdentity
    BY <1>1, <1>2, <2>4 DEF PolledIdentity, Says, Running
  <2> QED BY <2>1, <2>2, <2>3, <2>4 DEF PollerStep
<1>6. ASSUME m \notin crossed, poller.pc \in {"outside", "naming"}
      PROVE  ~Busy(m) /\ state[m] \notin Running /\ table[m] = NoProcess /\ Down(m)
  <2>1. ~Busy(m) /\ state[m] \notin Running /\ table[m] = NoProcess
    BY <1>1, <1>6 DEF PollerAlone
  <2>2. Down(m)
    BY <1>6, <2>1, NoProcessIsNone DEF LiveIsListed, Down, Of
  <2> QED BY <2>1, <2>2
<1>7. ASSUME m \notin crossed, Accounted(m)
      PROVE  Accounted(m)'
  <2>1. CASE state'[m] = state[m] \/ (state[m] \in Running /\ state'[m] \in Running)
    BY <1>2, <1>7, <2>1 DEF Accounted, Of, Live
  <2>2. CASE state[m] \in Running /\ Gone(m) /\ state'[m] = "FAILED"
    <3>1. Down(m)
      BY <1>7, <2>2, NoProcessIsNone DEF Accounted, Gone, ListedDead, Down, Of, Live
    <3> QED BY <1>4, <2>2, <3>1 DEF Accounted, Down, Running
  <2>3. CASE poller.pc \in {"outside", "naming"} /\ state'[m] \notin Running
    BY <1>4, <1>6, <1>7, <2>3 DEF Accounted, Down
  <2> QED BY <1>5, <2>1, <2>2, <2>3
<1>8. OneThread'
  BY <1>2, <1>3 DEF OneThread, Active, TypeOK, ThreadRow
<1>9. LiveIsListed'
  BY <1>2, <1>3 DEF LiveIsListed, Of, Live
<1>10. ThreadRelies'
  <2> SUFFICES ASSUME NEW g \in Thread, NEW n \in Module \ crossed', Active(g)', thread'[g].module = n
               PROVE  Relies(g, n)'
    BY DEF ThreadRelies
  <2>1. Active(g) /\ thread[g].module = n /\ n \notin crossed /\ Relies(g, n)
    BY <1>2, <1>3 DEF Active, ThreadRelies
  <2>2. CASE n # m
    BY <1>2, <1>3, <1>4, <2>1, <2>2 DEF Relies, Accounted, Of, Live
  <2>3. CASE n = m
    <3>1. ~(poller.pc \in {"outside", "naming"})
      BY <1>6, <2>1, <2>3 DEF Busy
    <3>2. state[m] \notin Running => state'[m] = state[m]
      BY <1>5, <3>1
    <3>3. state[m] \in Running => state'[m] # "STARTING" /\ state[m] # "STARTING"
      BY <1>5, <3>1 DEF Running
    <3> QED BY <1>2, <1>4, <1>7, <2>1, <2>3, <3>1, <3>2, <3>3 DEF Relies, Of, Live
  <2> QED BY <2>2, <2>3
<1>11. UncrossedIsAccounted'
  <2> SUFFICES ASSUME NEW n \in Module \ crossed', ~Busy(n)'
               PROVE  Accounted(n)'
    BY DEF UncrossedIsAccounted, Accounted
  <2>1. n \notin crossed /\ Accounted(n)
    BY <1>3, <1>4 DEF UncrossedIsAccounted, Accounted
  <2> QED BY <1>2, <1>3, <1>7, <2>1 DEF Accounted, Of, Live
<1>12. PollerAlone'
  <2>1. CASE Poll
    <3>1. CASE poller'.pc = "outside"
      <4>1. /\ poller'.module = m /\ m \in Module /\ UNCHANGED state
            /\ state[m] \notin Running /\ table[m] = NoProcess
            /\ Busy(m) => m \in crossed'
        BY <1>1, <2>1, <3>1 DEF Poll, PollerMoves, TypeOK
      <4>2. Busy(m)' = Busy(m)
        BY <1>4, <4>1
      <4> QED BY <1>2, <4>1, <4>2 DEF PollerAlone, Busy
    <3>2. CASE poller'.pc # "outside"
      BY <2>1, <3>2 DEF Poll, PollerMoves, PollerAlone, TypeOK
    <3> QED BY <3>1, <3>2
  <2>2. CASE PolledOutside
    <3>1. CASE poller'.pc = "naming"
      <4>1. poller'.module = m /\ UNCHANGED <<state, crossed>> /\ poller.pc = "outside"
        BY <1>1, <2>2, <3>1 DEF PolledOutside, PollerMoves, TypeOK
      <4> QED BY <1>2, <1>4, <1>6, <4>1 DEF PollerAlone
    <3>2. CASE poller'.pc # "naming"
      BY <2>2, <3>2 DEF PolledOutside, PollerMoves, PollerAlone, TypeOK
    <3> QED BY <3>1, <3>2
  <2>3. CASE PolledReady \/ PolledIdentity
    BY <2>3 DEF PolledReady, PolledIdentity, PollerMoves, PollerAlone
  <2> QED BY <2>1, <2>2, <2>3 DEF PollerStep
<1> QED BY <1>8, <1>9, <1>10, <1>11, <1>12

\* Dying processes, a closing shell and outside programs take nothing away.
LEMMA OthersAccount ==
    ASSUME TypeOK, Accounts,
           \/ CloseShell
           \/ \E p \in Process : ProcessStep(p)
           \/ \E m \in Module : OutsideStep(m)
           \/ UNCHANGED vars
    PROVE  Accounts'
<1> USE DEF Accounts
<1>1. UNCHANGED <<state, thread, poller, crossed>>
  BY DEF CloseShell, ProcessStep, OutsideStep, vars
<1>2. \A n \in Module : \A p \in Of(n)' : Live(p)' => p \in Of(n) /\ Live(p)
  BY DEF CloseShell, ProcessStep, Serves, Hangs, Dies, OutsideStep, vars, Of, Live, TypeOK
<1>3. \/ UNCHANGED <<table, shell>>
      \/ /\ shell' = "closed" /\ \A n \in Module : table'[n] = NoProcess
         /\ \A p \in Process : ~Live(p)'
  BY DEF CloseShell, ProcessStep, OutsideStep, vars, Live, TypeOK
<1>4. \A n \in Module : (Down(n) => Down(n)') /\ (Accounted(n) => Accounted(n)') /\ Busy(n)' = Busy(n)
  BY <1>1, <1>2, <1>3 DEF Down, Accounted, Busy, Active, Of
<1>5. OneThread'
  BY <1>1 DEF OneThread, Active
<1>6. PollerAlone'
  <2>1. poller.module \in Module
    BY DEF TypeOK
  <2> QED BY <1>1, <1>3, <1>4, <2>1 DEF PollerAlone
<1>7. LiveIsListed'
  BY <1>1, <1>2, <1>3 DEF LiveIsListed, Of
<1>8. ThreadRelies'
  <2> SUFFICES ASSUME NEW g \in Thread, NEW n \in Module \ crossed, Active(g), thread[g].module = n
               PROVE  Relies(g, n)'
    BY <1>1 DEF ThreadRelies, Active
  <2>1. Relies(g, n)
    BY DEF ThreadRelies
  <2> QED BY <1>1, <1>2, <1>3, <1>4, <2>1 DEF Relies
<1>9. UncrossedIsAccounted'
  BY <1>1, <1>4 DEF UncrossedIsAccounted, Accounted
<1> QED BY <1>5, <1>6, <1>7, <1>8, <1>9

\* The accounts are kept by every step.
LEMMA AccountsStep ==
    ASSUME TypeOK, Accounts, [Next]_vars
    PROVE  Accounts'
<1>1. CASE \E g \in Thread, m \in Module : Start(g, m) \/ Stop(g, m) \/ Restart(g, m) \/ StartupTest(g, m)
  BY <1>1, ArrivalsAccount
<1>2. CASE \E g \in Thread : ThreadStep(g)
  BY <1>2, ViewSteps, SupervisorSteps DEF ThreadStep
<1>3. CASE PollerStep
  BY <1>3, PollerAccounts
<1> QED BY <1>1, <1>2, <1>3, OthersAccount DEF Next

\* Nothing is under way at the start.
LEMMA InitAccounts == Init => Accounts
BY DEF Init, Accounts, OneThread, PollerAlone, LiveIsListed, ThreadRelies, UncrossedIsAccounted,
       Active, Busy, Idle, Of, Live, Running

\* Between gestures the supervisor accounts for every module two of whose
\* threads never overlapped: what lives is listed and shown as running.
THEOREM UncrossedModulesAreAccounted == Spec => []UncrossedIsAccounted
<1>1. Init => TypeOK /\ Accounts
  BY InitType, InitAccounts
<1>2. TypeOK /\ Accounts /\ [Next]_vars => (TypeOK /\ Accounts)'
  BY TypeStep, AccountsStep
<1>3. Accounts => UncrossedIsAccounted
  BY DEF Accounts
<1> QED BY <1>1, <1>2, <1>3, PTL DEF Spec
====
