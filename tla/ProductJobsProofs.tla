-------------------------- MODULE ProductJobsProofs --------------------------
(***************************************************************************)
(* Theorems about the product service, for any number of processes, worker *)
(* threads, sessions and jobs, and any number of starts.                   *)
(***************************************************************************)
EXTENDS ProductJobs, FiniteSetTheorems, TLAPS

-----------------------------------------------------------------------------
(* Types. *)

\* Whoever is past taking a job has one.
WorkersHoldJobs == \A w \in Worker : work[w].at \notin {"gone", "idle"} => work[w].job \in Job
\* A request has its session, and so has every job.
SessionsKnown ==
    \A j \in Job : /\ sub[j].at \notin {"none", "done"} => sub[j].session \in Session
                   /\ job[j].status # "unborn" => job[j].session \in Session
TInv == TypeOK /\ WorkersHoldJobs /\ SessionsKnown

\* A job of which the status moves stays a job.
LEMMA MovedType ==
    ASSUME job \in [Job -> JobRow], NEW j \in Job, NEW from \in {"queued", "running"}, NEW to,
           CanMove(j, from, to)
    PROVE  Moved(j, to) \in [Job -> JobRow]
<1>1. to \in Terminal \cup Active
  BY DEF CanMove, Legal, Terminal, Active
<1>2. [job[j] EXCEPT !.status = to] \in JobRow
  <2>1. job[j] \in JobRow
    OBVIOUS
  <2> QED
    BY <1>1, <2>1 DEF JobRow
<1> QED
  BY <1>2 DEF Moved

\* What a move changes.
LEMMA MovedRows ==
    ASSUME job \in [Job -> JobRow], NEW j \in Job, NEW to, job' = Moved(j, to)
    PROVE  /\ \A k \in Job \ {j} : job'[k] = job[k]
           /\ job'[j].status = to /\ job'[j].session = job[j].session
           /\ job'[j].status_route = job[j].status_route
           /\ job'[j].cancel = job[j].cancel /\ job'[j].output = job[j].output
<1>1. job[j] \in JobRow
  OBVIOUS
<1>2. job' = [job EXCEPT ![j] = [job[j] EXCEPT !.status = to]]
  BY DEF Moved
<1> QED
  BY <1>1, <1>2 DEF JobRow

\* What a step of a request changes in its row.
LEMMA RequestMoves ==
    ASSUME sub \in [Job -> SubRow], NEW j \in Job
    PROVE  /\ \A at \in {"created", "answering", "answered"} : Goes(j, at) =>
                  /\ \A k \in Job \ {j} : sub'[k] = sub[k]
                  /\ sub'[j].at = at /\ sub'[j].session = sub[j].session
                  /\ sub'[j].service = sub[j].service
                  /\ sub'[j].status_route = sub[j].status_route
           /\ SubmitEnds(j) => /\ \A k \in Job \ {j} : sub'[k] = sub[k]
                               /\ sub'[j].at = "done"
<1>1. sub[j] \in SubRow
  OBVIOUS
<1>2. ASSUME NEW at \in {"created", "answering", "answered"}, Goes(j, at)
      PROVE  sub' = [sub EXCEPT ![j] = [sub[j] EXCEPT !.at = at]]
  BY <1>2 DEF Goes
<1>3. DoneSub.at = "done"
  BY DEF DoneSub, NoSub
<1> QED
  BY <1>1, <1>2, <1>3 DEF SubRow, SubmitEnds

\* An order of a set of jobs is a queue.
LEMMA OrdersAreQueues ==
    ASSUME NEW S \in SUBSET Job, NEW q \in Orders(S)
    PROVE  q \in Seq(Job \cup {None})
<1>1. Cardinality(S) \in Nat
  BY FS_Subset, FS_CardinalityType, ProductAssumption
<1>2. q \in [1..Cardinality(S) -> S]
  BY DEF Orders
<1> QED
  BY <1>1, <1>2

\* A worker that puts its job down, or moves on with it, keeps its type.
LEMMA WorkerRows ==
    ASSUME work \in [Worker -> WorkRow], NEW w \in Worker
    PROVE  /\ \A at \in {"executing", "publishes", "posted", "judged", "fails"} :
                  Steps(w, at) => work' \in [Worker -> WorkRow]
           /\ Loops(w) => work' \in [Worker -> WorkRow]
           /\ \A verdict \in Terminal : Judges(w, verdict) => work' \in [Worker -> WorkRow]
           /\ Idle \in WorkRow /\ Gone \in WorkRow
<1>1. work[w] \in WorkRow
  OBVIOUS
<1>2. Idle \in WorkRow /\ Gone \in WorkRow
  BY DEF Idle, Gone, WorkRow
<1>3. \A at \in {"executing", "publishes", "posted", "judged", "fails"} :
         [work[w] EXCEPT !.at = at] \in WorkRow
  BY <1>1 DEF WorkRow
<1>4. \A verdict \in Terminal : [work[w] EXCEPT !.at = "judged", !.verdict = verdict] \in WorkRow
  BY <1>1 DEF WorkRow
<1>5. ASSUME NEW at \in {"executing", "publishes", "posted", "judged", "fails"}, Steps(w, at)
      PROVE  work' \in [Worker -> WorkRow]
  <2>1. work' = [work EXCEPT ![w] = [work[w] EXCEPT !.at = at]]
    BY <1>5 DEF Steps
  <2> QED
    BY <1>3, <2>1
<1>6. ASSUME NEW verdict \in Terminal, Judges(w, verdict) PROVE work' \in [Worker -> WorkRow]
  <2>1. work' = [work EXCEPT ![w] = [work[w] EXCEPT !.at = "judged", !.verdict = verdict]]
    BY <1>6 DEF Judges
  <2> QED
    BY <1>4, <2>1
<1>7. Loops(w) => work' \in [Worker -> WorkRow]
  BY <1>2 DEF Loops
<1> QED
  BY <1>2, <1>5, <1>6, <1>7

\* A request that goes on, or ends, keeps its type.
LEMMA RequestRows ==
    ASSUME sub \in [Job -> SubRow], NEW j \in Job
    PROVE  /\ \A at \in {"created", "answering", "answered"} :
                  Goes(j, at) => sub' \in [Job -> SubRow]
           /\ SubmitEnds(j) => sub' \in [Job -> SubRow]
           /\ NoSub \in SubRow /\ DoneSub \in SubRow
<1>1. sub[j] \in SubRow
  OBVIOUS
<1>2. NoSub \in SubRow /\ DoneSub \in SubRow
  BY DEF NoSub, DoneSub, SubRow
<1>3. ASSUME NEW at \in {"created", "answering", "answered"}, Goes(j, at)
      PROVE  sub' \in [Job -> SubRow]
  <2>1. [sub[j] EXCEPT !.at = at] \in SubRow
    BY <1>1 DEF SubRow
  <2>2. sub' = [sub EXCEPT ![j] = [sub[j] EXCEPT !.at = at]]
    BY <1>3 DEF Goes
  <2> QED
    BY <2>1, <2>2
<1>4. SubmitEnds(j) => sub' \in [Job -> SubRow]
  BY <1>2 DEF SubmitEnds
<1> QED
  BY <1>2, <1>3, <1>4

\* An untouched database with no process up has the right types.
LEMMA InitType == Init => TInv
<1> SUFFICES ASSUME Init PROVE TInv
  OBVIOUS
<1>1. NoJob \in JobRow /\ NoSub \in SubRow /\ Gone \in WorkRow
  BY DEF NoJob, JobRow, NoSub, SubRow, Gone, Idle, WorkRow
<1>2. 0 \in 0..MaxStarts
  BY ProductAssumption
<1>3. [s \in Service |-> <<>>] \in [Service -> Seq(Job \cup {None})]
  OBVIOUS
<1>4. TypeOK
  BY <1>1, <1>2, <1>3 DEF Init, TypeOK
<1>5. WorkersHoldJobs /\ SessionsKnown
  BY DEF Init, WorkersHoldJobs, SessionsKnown, Gone, Idle, NoJob, NoSub
<1> QED
  BY <1>4, <1>5 DEF TInv

Requests == \/ \E s \in Service, j \in Job, x \in Session, r \in BOOLEAN : SubmitChecks(s, j, x, r)
            \/ \E j \in Job : RequestStep(j)
            \/ \E s \in Service, j \in Job : CancelRequests(s, j)
            \/ \E s \in Service, x \in Session : \/ CancelSignals(s, x)
                                                 \/ DeleteChecks(s, x) \/ DeleteCommits(s, x)
Workers == \E w \in Worker : WorkerStep(w)
Processes == \E s \in Service : Starts(s) \/ Binds(s) \/ Stop(s) \/ Exits(s) \/ Crashes(s)

\* The three parts of a step.
LEMMA NextParts == Next <=> Requests \/ Workers \/ Processes
BY DEF Next, Requests, Workers, Processes, RequestStep, WorkerStep

\* The steps of the requests keep the types.
LEMMA RequestsType == TInv /\ Requests => TInv'
<1> SUFFICES ASSUME TInv, Requests PROVE TInv'
  OBVIOUS
<1>0. TypeOK /\ WorkersHoldJobs /\ SessionsKnown
  BY DEF TInv
<1> USE <1>0 DEF TypeOK
<1>1. ASSUME NEW s \in Service, NEW j \in Job, NEW x \in Session, NEW r \in BOOLEAN,
             SubmitChecks(s, j, x, r)
      PROVE  TInv'
  <2>1. [at |-> "checked", service |-> s, session |-> x, status_route |-> r] \in SubRow
    BY DEF SubRow
  <2> QED
    BY <1>1, <2>1 DEF SubmitChecks, historyVars, TInv, WorkersHoldJobs, SessionsKnown
<1>2. ASSUME NEW j \in Job, SubmitCreates(j) PROVE TInv'
  <2>1. sub[j] \in SubRow
    OBVIOUS
  <2>2. ASSUME sub[j].session \notin deleted PROVE job' \in [Job -> JobRow]
    <3>1. [NoJob EXCEPT !.status = "queued", !.session = sub[j].session,
                        !.status_route = sub[j].status_route] \in JobRow
      BY <2>1 DEF NoJob, JobRow, SubRow, Active
    <3> QED
      BY <1>2, <2>2, <3>1 DEF SubmitCreates
  <2>3. SessionsKnown'
    <3>1. sub[j].session \in Session
      BY <1>2 DEF SubmitCreates, Does, SessionsKnown
    <3>2. CASE sub[j].session \in deleted
      BY <1>2, <3>2, RequestMoves DEF SubmitCreates, SessionsKnown
    <3>3. CASE sub[j].session \notin deleted
      <4>1. /\ \A k \in Job \ {j} : job'[k] = job[k]
            /\ job'[j].session = sub[j].session
        BY <1>2, <3>3 DEF SubmitCreates, NoJob
      <4>2. /\ \A k \in Job \ {j} : sub'[k] = sub[k]
            /\ sub'[j].session = sub[j].session
        BY <1>2, <3>3, RequestMoves DEF SubmitCreates
      <4> QED
        BY <3>1, <4>1, <4>2 DEF SessionsKnown
    <3> QED
      BY <3>2, <3>3
  <2>4. TypeOK'
    BY <1>2, <2>2, RequestRows DEF SubmitCreates, historyVars
  <2> QED
    BY <1>2, <2>3, <2>4 DEF SubmitCreates, TInv, WorkersHoldJobs
<1>3. ASSUME NEW j \in Job, SubmitEnqueues(j) PROVE TInv'
  <2>1. queue' \in [Service -> Seq(Job \cup {None})]
    <3>1. sub[j] \in SubRow
      OBVIOUS
    <3>2. CASE sub[j].service \in Service
      <4>1. queue[sub[j].service] \in Seq(Job \cup {None})
        BY <3>2
      <4>2. Append(queue[sub[j].service], j) \in Seq(Job \cup {None})
        BY <4>1
      <4> QED
        BY <1>3, <4>2 DEF SubmitEnqueues, Enqueue
    <3>3. CASE sub[j].service \notin Service
      BY <1>3, <3>3 DEF SubmitEnqueues, Enqueue
    <3> QED
      BY <3>2, <3>3
  <2> QED
    BY <1>3, <2>1, RequestRows, RequestMoves
       DEF SubmitEnqueues, historyVars, TInv, WorkersHoldJobs, SessionsKnown
<1>4. ASSUME NEW j \in Job, StatusBegins(j) \/ StatusHasNoAnswer(j) PROVE TInv'
  <2>1. job' = job \/ \E from \in {"queued", "running"}, to \in {"running", "failed"} :
                          CanMove(j, from, to) /\ job' = Moved(j, to)
    BY <1>4 DEF StatusBegins, StatusHasNoAnswer
  <2>2. job' \in [Job -> JobRow]
    BY <2>1, MovedType
  <2>3. \A k \in Job : /\ job'[k].session = job[k].session
                       /\ job'[k].status # "unborn" => job[k].status # "unborn"
    BY <2>1, MovedRows DEF CanMove
  <2>4. (Does(j, "created") /\ Goes(j, "answering")) \/ SubmitEnds(j)
    BY <1>4 DEF StatusBegins, StatusHasNoAnswer
  <2>5. SessionsKnown'
    BY <2>3, <2>4, RequestMoves DEF SessionsKnown, Does
  <2> QED
    BY <1>4, <2>2, <2>4, <2>5, RequestRows
       DEF StatusBegins, StatusHasNoAnswer, historyVars, TInv, WorkersHoldJobs
<1>5. ASSUME NEW j \in Job, StatusPosts(j) PROVE TInv'
  <2>1. SessionsKnown'
    BY <1>5, RequestMoves DEF StatusPosts, SessionsKnown, Does
  <2> QED
    BY <1>5, <2>1, RequestRows DEF StatusPosts, historyVars, TInv, WorkersHoldJobs
<1>6. ASSUME NEW j \in Job, StatusCompletes(j) PROVE TInv'
  <2>1. job' \in [Job -> JobRow]
    <3>1. job[j] \in JobRow
      OBVIOUS
    <3>2. [job[j] EXCEPT !.status = "completed", !.output = Request] \in JobRow
      BY <3>1 DEF JobRow, Terminal
    <3>3. job' = IF CanMove(j, "running", "completed")
                 THEN [job EXCEPT ![j] = [job[j] EXCEPT !.status = "completed", !.output = Request]]
                 ELSE job
      BY <1>6 DEF StatusCompletes
    <3> QED
      BY <3>2, <3>3
  <2>2. \A k \in Job : /\ job'[k].session = job[k].session
                       /\ job'[k].status # "unborn" => job[k].status # "unborn"
    BY <1>6 DEF StatusCompletes, CanMove, JobRow
  <2>3. SessionsKnown'
    BY <1>6, <2>2, RequestMoves DEF StatusCompletes, SessionsKnown
  <2> QED
    BY <1>6, <2>1, <2>3, RequestRows DEF StatusCompletes, historyVars, TInv, WorkersHoldJobs
<1>7. ASSUME NEW s \in Service, NEW j \in Job, CancelRequests(s, j) PROVE TInv'
  <2>1. job' \in [Job -> JobRow]
    <3>1. job[j] \in JobRow
      OBVIOUS
    <3> DEFINE row == [job[j] EXCEPT !.cancel = TRUE,
                          !.status = IF @ = "queued" THEN "cancelled" ELSE @]
    <3>2. row \in JobRow
      BY <3>1 DEF JobRow, Terminal
    <3>3. job' = [job EXCEPT ![j] = row]
      BY <1>7 DEF CancelRequests
    <3> QED
      BY <3>2, <3>3
  <2>2. \/ cancelling' = cancelling
        \/ /\ \E w \in Worker : work[w].job = j
           /\ cancelling' = cancelling \cup {<<s, job[j].session>>}
    BY <1>7 DEF CancelRequests
  <2>3. job[j].session \in Session
    BY <1>7 DEF CancelRequests, SessionsKnown, Active
  <2> QED
    BY <1>7, <2>1, <2>2, <2>3 DEF CancelRequests, TInv, WorkersHoldJobs, SessionsKnown
<1>8. ASSUME NEW s \in Service, NEW x \in Session, CancelSignals(s, x) PROVE TInv'
  <2>1. ASSUME NEW w \in Worker
        PROVE  /\ work'[w] \in WorkRow
               /\ work'[w].at = work[w].at /\ work'[w].job = work[w].job
    <3>1. work[w] \in WorkRow
      OBVIOUS
    <3>2. /\ [work[w] EXCEPT !.stopped = TRUE] \in WorkRow
          /\ [work[w] EXCEPT !.stopped = TRUE].at = work[w].at
          /\ [work[w] EXCEPT !.stopped = TRUE].job = work[w].job
      BY <3>1 DEF WorkRow
    <3>3. work'[w] = IF Stops(w, s, x) THEN [work[w] EXCEPT !.stopped = TRUE] ELSE work[w]
      BY <1>8 DEF CancelSignals
    <3> QED
      BY <3>1, <3>2, <3>3
  <2>2. work' \in [Worker -> WorkRow]
    BY <1>8, <2>1 DEF CancelSignals
  <2> QED
    BY <1>8, <2>1, <2>2 DEF CancelSignals, historyVars, TInv, WorkersHoldJobs, SessionsKnown
<1>9. ASSUME NEW s \in Service, NEW x \in Session, DeleteChecks(s, x) \/ DeleteCommits(s, x)
      PROVE  TInv'
  BY <1>9 DEF DeleteChecks, DeleteCommits, historyVars, TInv, WorkersHoldJobs, SessionsKnown
<1> QED
  BY <1>1, <1>2, <1>3, <1>4, <1>5, <1>6, <1>7, <1>8, <1>9 DEF Requests, RequestStep

\* What a step of a worker changes in its row.
LEMMA WorkerMoves ==
    ASSUME work \in [Worker -> WorkRow], NEW w \in Worker
    PROVE  /\ \A at \in {"executing", "publishes", "posted", "judged", "fails"} :
                 Steps(w, at) =>
                    /\ \A v \in Worker \ {w} : work'[v] = work[v]
                    /\ work'[w].at = at /\ work'[w].job = work[w].job
                    /\ work'[w].verdict = work[w].verdict /\ work'[w].stopped = work[w].stopped
           /\ Loops(w) => /\ \A v \in Worker \ {w} : work'[v] = work[v]
                          /\ work'[w] \in {Idle, Gone} /\ work'[w].at \in {"gone", "idle"}
           /\ \A verdict \in Terminal : Judges(w, verdict) =>
                    /\ \A v \in Worker \ {w} : work'[v] = work[v]
                    /\ work'[w].at = "judged" /\ work'[w].job = work[w].job
                    /\ work'[w].verdict = verdict /\ work'[w].stopped = work[w].stopped
<1>1. work[w] \in WorkRow
  OBVIOUS
<1>2. Idle.at = "idle" /\ Gone.at = "gone"
  BY DEF Idle, Gone
<1>3. ASSUME NEW at \in {"executing", "publishes", "posted", "judged", "fails"}, Steps(w, at)
      PROVE  work' = [work EXCEPT ![w] = [work[w] EXCEPT !.at = at]]
  BY <1>3 DEF Steps
<1>4. ASSUME NEW verdict \in Terminal, Judges(w, verdict)
      PROVE  work' = [work EXCEPT ![w] = [work[w] EXCEPT !.at = "judged", !.verdict = verdict]]
  BY <1>4 DEF Judges
<1>5. Loops(w) => work' = [work EXCEPT ![w] = IF Closed(w[1]) THEN Gone ELSE Idle]
  BY DEF Loops
<1>6. ASSUME NEW at \in {"executing", "publishes", "posted", "judged", "fails"}, Steps(w, at)
      PROVE  /\ \A v \in Worker \ {w} : work'[v] = work[v]
             /\ work'[w].at = at /\ work'[w].job = work[w].job
             /\ work'[w].verdict = work[w].verdict /\ work'[w].stopped = work[w].stopped
  BY <1>1, <1>3, <1>6 DEF WorkRow
<1>7. ASSUME NEW verdict \in Terminal, Judges(w, verdict)
      PROVE  /\ \A v \in Worker \ {w} : work'[v] = work[v]
             /\ work'[w].at = "judged" /\ work'[w].job = work[w].job
             /\ work'[w].verdict = verdict /\ work'[w].stopped = work[w].stopped
  <2> DEFINE row == [work[w] EXCEPT !.at = "judged", !.verdict = verdict]
  <2>1. /\ row.at = "judged" /\ row.job = work[w].job
        /\ row.verdict = verdict /\ row.stopped = work[w].stopped
    BY <1>1 DEF WorkRow
  <2>2. work' = [work EXCEPT ![w] = row]
    BY <1>4, <1>7
  <2>3. work'[w] = row /\ \A v \in Worker \ {w} : work'[v] = work[v]
    BY <2>2
  <2> QED
    BY <2>1, <2>3
<1>8. Loops(w) => /\ \A v \in Worker \ {w} : work'[v] = work[v]
                  /\ work'[w] \in {Idle, Gone} /\ work'[w].at \in {"gone", "idle"}
  BY <1>2, <1>5
<1> QED
  BY <1>6, <1>7, <1>8

\* A row of a job may change only so that its session stays and it is not unborn.
JobsStay == \A k \in Job : /\ job'[k].session = job[k].session
                           /\ job'[k].status # "unborn" => job[k].status # "unborn"

\* The steps of the workers keep the types.
LEMMA WorkersType == TInv /\ Workers => TInv'
<1> SUFFICES ASSUME TInv, NEW w \in Worker, WorkerStep(w) PROVE TInv'
  BY DEF Workers
<1> DEFINE j == work[w].job
<1>0. TypeOK /\ WorkersHoldJobs /\ SessionsKnown
  BY DEF TInv
<1> USE <1>0 DEF TypeOK
<1>a. /\ work[w].at \notin {"gone", "idle"} => work[w].job \in Job
      /\ \A v \in Worker \ {w} : work[v].at \notin {"gone", "idle"} => work[v].job \in Job
  BY DEF WorkersHoldJobs
<1>b. ASSUME NEW to, NEW from \in {"queued", "running"}, j \in Job, CanMove(j, from, to),
             job' = Moved(j, to)
      PROVE  job' \in [Job -> JobRow] /\ JobsStay
  <2>1. job' \in [Job -> JobRow]
    BY <1>b, MovedType
  <2>2. JobsStay
    BY <1>b, MovedRows DEF CanMove, JobsStay
  <2> QED
    BY <2>1, <2>2
<1>1. ASSUME Takes(w) PROVE TInv'
  <2> DEFINE q == queue[w[1]]
  <2>1. w[1] \in Service
    BY DEF Worker
  <2>2. q \in Seq(Job \cup {None}) /\ q # <<>>
    BY <1>1, <2>1 DEF Takes
  <2>3. Tail(q) \in Seq(Job \cup {None}) /\ Head(q) \in Job \cup {None}
    BY <2>2
  <2>4. queue' \in [Service -> Seq(Job \cup {None})]
    BY <1>1, <2>1, <2>3 DEF Takes
  <2>5. Head(q) \in Job => [Idle EXCEPT !.at = "taken", !.job = Head(q)] \in WorkRow
    BY DEF Idle, WorkRow
  <2>6. /\ Idle \in WorkRow /\ Gone \in WorkRow /\ Idle.at = "idle" /\ Gone.at = "gone"
        /\ \A k \in Job : [Idle EXCEPT !.at = "taken", !.job = k].job = k
    BY DEF Idle, Gone, WorkRow
  <2>7. \E row \in WorkRow : /\ work' = [work EXCEPT ![w] = row]
                             /\ row.at \notin {"gone", "idle"} => row.job \in Job
    <3>1. CASE Head(q) = None
      BY <1>1, <2>6, <3>1 DEF Takes
    <3>2. CASE Head(q) # None /\ job[Head(q)].status = "queued"
      <4>1. Head(q) \in Job
        BY <2>3, <3>2
      <4>2. work' = [work EXCEPT ![w] = [Idle EXCEPT !.at = "taken", !.job = Head(q)]]
        BY <1>1, <3>2 DEF Takes
      <4> QED
        BY <2>5, <2>6, <4>1, <4>2
    <3>3. CASE Head(q) # None /\ job[Head(q)].status # "queued"
      <4>1. work' = [work EXCEPT ![w] = IF Closed(w[1]) THEN Gone ELSE Idle]
        BY <1>1, <3>3 DEF Takes
      <4> QED
        BY <2>6, <4>1
    <3> QED
      BY <3>1, <3>2, <3>3
  <2>8. work' \in [Worker -> WorkRow] /\ WorkersHoldJobs'
    BY <1>a, <2>7 DEF WorkersHoldJobs
  <2> QED
    BY <1>1, <2>4, <2>8 DEF Takes, requestVars, historyVars, TInv, SessionsKnown
<1>2. ASSUME Begins(w) PROVE TInv'
  <2>1. work[w].at = "taken" /\ j \in Job
    BY <1>2, <1>a DEF Begins
  <2>2. job' \in [Job -> JobRow] /\ JobsStay
    BY <1>2, <1>b, <2>1 DEF Begins, JobsStay
  <2>3. Judges(w, "failed") \/ Steps(w, "executing") \/ Loops(w)
    BY <1>2 DEF Begins
  <2>4. work' \in [Worker -> WorkRow] /\ WorkersHoldJobs'
    BY <1>a, <2>1, <2>3, WorkerRows, WorkerMoves DEF WorkersHoldJobs, Terminal
  <2> QED
    BY <1>2, <2>2, <2>4 DEF Begins, requestVars, historyVars, TInv, SessionsKnown, JobsStay
<1>3. ASSUME Executes(w) PROVE TInv'
  <2>1. j \in Job
    BY <1>3, <1>a DEF Executes, Executing
  <2>2. PICK result \in Result(w) :
           work' = [work EXCEPT ![w].at =
                                  IF Verdict(w, result) = "completed" THEN "publishes" ELSE "judged",
                                ![w].verdict = Verdict(w, result)]
    BY <1>3 DEF Executes
  <2>3. Verdict(w, result) \in Terminal
    BY DEF Verdict, Result, Terminal
  <2> DEFINE row == [work[w] EXCEPT
                        !.at = IF Verdict(w, result) = "completed" THEN "publishes" ELSE "judged",
                        !.verdict = Verdict(w, result)]
  <2>4. row \in WorkRow /\ row.job = j
    <3>1. work[w] \in WorkRow
      OBVIOUS
    <3> QED
      BY <2>3, <3>1 DEF WorkRow
  <2>5. work' = [work EXCEPT ![w] = row]
    BY <2>2
  <2>6. work' \in [Worker -> WorkRow] /\ WorkersHoldJobs'
    BY <1>a, <2>1, <2>4, <2>5 DEF WorkersHoldJobs
  <2> QED
    BY <1>3, <2>6 DEF Executes, requestVars, historyVars, TInv, SessionsKnown
<1>4. ASSUME Raises(w) PROVE TInv'
  <2>1. work' \in [Worker -> WorkRow] /\ WorkersHoldJobs'
    BY <1>a, <1>4, WorkerRows, WorkerMoves DEF Raises, Executing, WorkersHoldJobs
  <2> QED
    BY <1>4, <2>1 DEF Raises, requestVars, historyVars, TInv, SessionsKnown
<1>5. ASSUME Publishes(w) PROVE TInv'
  <2>1. work[w].at = "publishes" /\ j \in Job
    BY <1>5, <1>a DEF Publishes
  <2>2. work' \in [Worker -> WorkRow] /\ WorkersHoldJobs'
    BY <1>a, <1>5, <2>1, WorkerRows, WorkerMoves DEF Publishes, WorkersHoldJobs
  <2>3. answers' \subseteq Job \X (Worker \cup {Request})
    BY <1>5, <2>1 DEF Publishes
  <2> QED
    BY <1>5, <2>2, <2>3 DEF Publishes, requestVars, historyVars, TInv, SessionsKnown
<1>6. ASSUME Completes(w) PROVE TInv'
  <2>1. work[w].at = "posted" /\ j \in Job
    BY <1>6, <1>a DEF Completes
  <2>2. work' \in [Worker -> WorkRow] /\ WorkersHoldJobs'
    <3>1. Steps(w, "fails") \/ Loops(w)
      BY <1>6 DEF Completes
    <3> QED
      BY <1>a, <2>1, <3>1, WorkerRows, WorkerMoves DEF WorkersHoldJobs
  <2>3. job' \in [Job -> JobRow] /\ JobsStay
    <3>1. CASE CanMove(j, "running", "completed")
      <4>1. job' = [job EXCEPT ![j] = [job[j] EXCEPT !.status = "completed", !.output = w]]
        BY <1>6, <3>1 DEF Completes
      <4>2. [job[j] EXCEPT !.status = "completed", !.output = w] \in JobRow
        <5>1. job[j] \in JobRow
          BY <2>1
        <5> QED
          BY <5>1 DEF JobRow, Terminal
      <4> QED
        BY <2>1, <3>1, <4>1, <4>2 DEF JobsStay, CanMove, JobRow
    <3>2. CASE ~CanMove(j, "running", "completed")
      BY <1>6, <3>2 DEF Completes, JobsStay
    <3> QED
      BY <3>1, <3>2
  <2> QED
    BY <1>6, <2>2, <2>3 DEF Completes, requestVars, historyVars, TInv, SessionsKnown, JobsStay
<1>7. ASSUME Ends(w) \/ Fails(w) PROVE TInv'
  <2>1. work[w].at \in {"judged", "fails"} /\ j \in Job
    BY <1>7, <1>a DEF Ends, Fails
  <2>2. work' \in [Worker -> WorkRow] /\ WorkersHoldJobs'
    <3>1. Steps(w, "fails") \/ Loops(w)
      BY <1>7 DEF Ends, Fails
    <3> QED
      BY <1>a, <2>1, <3>1, WorkerRows, WorkerMoves DEF WorkersHoldJobs
  <2>3. job' \in [Job -> JobRow] /\ JobsStay
    BY <1>7, <1>b, <2>1 DEF Ends, Fails, JobsStay
  <2> QED
    BY <1>7, <2>2, <2>3 DEF Ends, Fails, requestVars, historyVars, TInv, SessionsKnown, JobsStay
<1> QED
  BY <1>1, <1>2, <1>3, <1>4, <1>5, <1>6, <1>7 DEF WorkerStep

\* Starting, closing, stopping and crashing keep the types.
LEMMA ProcessesType == TInv /\ Processes => TInv'
<1> SUFFICES ASSUME TInv, NEW s \in Service,
                    Starts(s) \/ Binds(s) \/ Stop(s) \/ Exits(s) \/ Crashes(s)
             PROVE  TInv'
  BY DEF Processes
<1>0. TypeOK /\ WorkersHoldJobs /\ SessionsKnown
  BY DEF TInv
<1> USE <1>0 DEF TypeOK
<1>a. Idle \in WorkRow /\ Gone \in WorkRow /\ Idle.at = "idle" /\ Gone.at = "gone"
  BY DEF Idle, Gone, WorkRow
<1>1. ASSUME Starts(s) PROVE TInv'
  <2>1. starts' \in 0..MaxStarts
    BY <1>1, ProductAssumption DEF Starts
  <2>2. job' \in [Job -> JobRow] /\ JobsStay
    <3>1. \A k \in Job : [job[k] EXCEPT !.status = "interrupted"] \in JobRow
                         /\ [job[k] EXCEPT !.status = "interrupted"].session = job[k].session
      <4> SUFFICES ASSUME NEW k \in Job
                   PROVE  [job[k] EXCEPT !.status = "interrupted"] \in JobRow
                          /\ [job[k] EXCEPT !.status = "interrupted"].session = job[k].session
        OBVIOUS
      <4>1. job[k] \in JobRow
        OBVIOUS
      <4> QED
        BY <4>1 DEF JobRow, Terminal
    <3>2. job' = [k \in Job |-> IF job[k].status = "running"
                                THEN [job[k] EXCEPT !.status = "interrupted"] ELSE job[k]]
      BY <1>1 DEF Starts, Recovered
    <3> QED
      BY <3>1, <3>2 DEF JobsStay
  <2>3. queue' \in [Service -> Seq(Job \cup {None})]
    <3>1. PICK q \in Orders({k \in Job : job[k].status = "queued"}) :
             queue' = [queue EXCEPT ![s] = q]
      BY <1>1 DEF Starts
    <3>2. q \in Seq(Job \cup {None})
      BY OrdersAreQueues
    <3> QED
      BY <3>1, <3>2
  <2>4. work' \in [Worker -> WorkRow] /\ WorkersHoldJobs'
    BY <1>1, <1>a DEF Starts, WorkersHoldJobs
  <2>5. up' \in [Service -> {"down", "starting", "serving", "closing"}] /\ overlapped' \in BOOLEAN
    BY <1>1 DEF Starts
  <2> QED
    BY <1>1, <2>1, <2>2, <2>3, <2>4, <2>5 DEF Starts, requestVars, TInv, SessionsKnown, JobsStay
<1>2. ASSUME Closes(s) PROVE TInv'
  <2>1. [i \in 1..WorkerCount |-> None] \in Seq(Job \cup {None})
    BY ProductAssumption
  <2>2. queue[s] \o [i \in 1..WorkerCount |-> None] \in Seq(Job \cup {None})
    BY <2>1
  <2>3. queue' \in [Service -> Seq(Job \cup {None})]
    BY <1>2, <2>2 DEF Closes
  <2> QED
    BY <1>2, <2>3 DEF Closes, requestVars, historyVars, TInv, WorkersHoldJobs, SessionsKnown
<1>3. ASSUME Binds(s) PROVE TInv'
  <2>1. CASE Closes(s)
    BY <1>2, <2>1
  <2>2. CASE ~Closes(s)
    BY <1>3, <2>2 DEF Binds, requestVars, historyVars, TInv, WorkersHoldJobs, SessionsKnown
  <2> QED
    BY <2>1, <2>2
<1>4. ASSUME Dies(s) PROVE TInv'
  <2>1. work' \in [Worker -> WorkRow] /\ WorkersHoldJobs'
    BY <1>4, <1>a DEF Dies, WorkersHoldJobs
  <2>2. DoneSub \in SubRow /\ DoneSub.at = "done"
    BY DEF DoneSub, NoSub, SubRow
  <2>3. sub' \in [Job -> SubRow] /\ SessionsKnown'
    BY <1>4, <2>2 DEF Dies, SessionsKnown
  <2> QED
    BY <1>4, <2>1, <2>3 DEF Dies, historyVars, TInv
<1> QED
  BY <1>1, <1>2, <1>3, <1>4 DEF Stop, Exits, Crashes

\* The types hold throughout.
LEMMA NextType == TInv /\ [Next]_vars => TInv'
<1>1. TInv /\ UNCHANGED vars => TInv'
  BY DEF vars, TInv, TypeOK, WorkersHoldJobs, SessionsKnown
<1> QED
  BY <1>1, RequestsType, WorkersType, ProcessesType, NextParts

-----------------------------------------------------------------------------
(* One driver, one answer. *)

Driving == {"executing", "publishes", "posted", "judged", "fails"}

\* What each stage of a request knows of its job: none before it is created; a
\* STATUS job is taken out of "queued" by its own request, and by it alone.
RequestKnows(j) ==
    /\ sub[j].at \in {"none", "checked"} => job[j] = NoJob
    /\ sub[j].at \in {"created", "answering", "answered"} =>
          job[j].status # "unborn" /\ job[j].status_route = sub[j].status_route
    /\ sub[j].at \in {"answering", "answered"} =>
          sub[j].status_route /\ job[j].status # "queued"
    /\ sub[j].at = "answered" => <<j, Request>> \in answers
\* A driven job has left the queue for good, and a cancel that is up while its
\* result is published came late.
WorkerKnows(w) ==
    /\ work[w].at \in Driving => job[work[w].job].status \notin {"unborn", "queued"}
    /\ work[w].at \in {"publishes", "posted"} /\ job[work[w].job].cancel =>
          work[w].job \in lateCancel
    /\ work[w].at = "posted" => <<work[w].job, w>> \in answers
    /\ work[w].at = "judged" => work[w].verdict # "completed"
\* What is so of every job, whoever drives it.
JobKeeps(j) ==
    /\ job[j].status = "completed" => <<j, job[j].output>> \in answers
    /\ job[j].output # NoOutput => job[j].status = "completed"
    /\ job[j].status = "completed" /\ job[j].cancel /\ ~job[j].status_route => j \in lateCancel
Knowledge == /\ \A j \in Job : RequestKnows(j) /\ JobKeeps(j)
             /\ \A w \in Worker : WorkerKnows(w)
IInv == TInv /\ Knowledge /\ OneDriver

\* The inductive invariant holds of the empty service.
LEMMA InitInv == Init => IInv
<1> SUFFICES ASSUME Init PROVE IInv
  OBVIOUS
<1>1. TInv
  BY InitType
<1>2. Knowledge
  BY DEF Init, Knowledge, RequestKnows, WorkerKnows, JobKeeps, NoJob, NoSub, Gone, Idle, Driving
<1>3. OneDriver
  BY DEF Init, OneDriver, Drives, NoSub, Gone, Idle
<1> QED
  BY <1>1, <1>2, <1>3 DEF IInv

\* The step of a worker that drives a job: it changes its row and its job's, and
\* what it knows and what is so of the job stay so.
LEMMA DriverStep ==
    ASSUME IInv, NEW w \in Worker, NEW j \in Job, work[w].at \in Driving, work[w].job = j,
           \A v \in Worker \ {w} : work'[v] = work[v],
           \/ work'[w].at \in {"gone", "idle"}
           \/ work'[w].at \in Driving /\ work'[w].job = j,
           \A k \in Job \ {j} : job'[k] = job[k],
           job'[j].status \notin {"unborn", "queued"},
           job'[j].status_route = job[j].status_route,
           job'[j].cancel = job[j].cancel,
           sub' = sub, lateCancel' = lateCancel, answers \subseteq answers',
           WorkerKnows(w)', JobKeeps(j)'
    PROVE  Knowledge' /\ OneDriver'
<1>0. Knowledge /\ OneDriver
  BY DEF IInv, TInv, WorkersHoldJobs, Driving
<1>1. job[j].status \notin {"unborn", "queued"}
  BY <1>0 DEF Knowledge, WorkerKnows
<1>2. sub[j].at \notin {"none", "checked", "answering", "answered"}
  <2>1. RequestKnows(j) /\ NoJob.status = "unborn"
    BY <1>0 DEF Knowledge, NoJob
  <2>2. sub[j].at \notin {"answering", "answered"}
    BY <1>0 DEF OneDriver, Drives, Driving
  <2> QED
    BY <1>1, <2>1, <2>2 DEF RequestKnows
<1>3. ASSUME NEW k \in Job PROVE RequestKnows(k)' /\ JobKeeps(k)'
  <2>1. RequestKnows(k) /\ JobKeeps(k)
    BY <1>0 DEF Knowledge
  <2>2. CASE k = j
    BY <1>2, <2>1, <2>2 DEF RequestKnows
  <2>3. CASE k # j
    <3>1. job'[k] = job[k]
      BY <2>3
    <3> QED
      BY <2>1, <3>1 DEF RequestKnows, JobKeeps
  <2> QED
    BY <2>2, <2>3
<1>4. ASSUME NEW v \in Worker PROVE WorkerKnows(v)'
  <2>1. CASE v = w
    BY <2>1
  <2>2. CASE v # w
    <3>1. work[v].at \in Driving => work[v].job # j
      BY <1>0, <2>2 DEF OneDriver, Drives, Driving
    <3>2. work[v].at \in Driving => work[v].job \in Job
      BY DEF IInv, TInv, WorkersHoldJobs, Driving
    <3> QED
      BY <1>0, <2>2, <3>1, <3>2 DEF Knowledge, WorkerKnows, Driving
  <2> QED
    BY <2>1, <2>2
<1>5. OneDriver'
  BY <1>0 DEF OneDriver, Drives, Driving
<1> QED
  BY <1>3, <1>4, <1>5 DEF Knowledge

\* The steps of the workers keep what workers and requests know of their
\* jobs, and the single driver.
LEMMA WorkersKnow == IInv /\ Workers => Knowledge' /\ OneDriver'
<1> SUFFICES ASSUME IInv, NEW w \in Worker, WorkerStep(w) PROVE Knowledge' /\ OneDriver'
  BY DEF Workers
<1>i. PICK j : j = work[w].job
  OBVIOUS
<1> USE <1>i
<1>0. TInv /\ Knowledge /\ OneDriver
  BY DEF IInv
<1>t. job \in [Job -> JobRow] /\ work \in [Worker -> WorkRow]
  BY <1>0 DEF TInv, TypeOK
<1>j. work[w].at \notin {"gone", "idle"} => j \in Job
  BY <1>0 DEF TInv, WorkersHoldJobs
<1>k. WorkerKnows(w) /\ (j \in Job => RequestKnows(j) /\ JobKeeps(j))
  BY <1>0 DEF Knowledge
<1>m. ASSUME NEW to, NEW from \in {"queued", "running"}, j \in Job, CanMove(j, from, to),
             job' = Moved(j, to)
      PROVE  /\ \A k \in Job \ {j} : job'[k] = job[k]
             /\ job[j].status = from /\ job'[j].status = to
             /\ job'[j].session = job[j].session
             /\ job'[j].status_route = job[j].status_route
             /\ job'[j].cancel = job[j].cancel /\ job'[j].output = job[j].output
  BY <1>m, <1>t, MovedRows DEF CanMove
<1>1. ASSUME Takes(w) PROVE Knowledge' /\ OneDriver'
  <2> DEFINE q == queue[w[1]]
  <2>1. /\ \A v \in Worker \ {w} : work'[v] = work[v]
        /\ work'[w].at \in {"gone", "idle", "taken"}
    <3>1. /\ Idle.at = "idle" /\ Gone.at = "gone"
          /\ [Idle EXCEPT !.at = "taken", !.job = Head(q)].at = "taken"
      BY DEF Idle, Gone
    <3> QED
      BY <1>1, <1>t, <3>1 DEF Takes
  <2>2. job' = job /\ answers' = answers /\ sub' = sub /\ lateCancel' = lateCancel
    BY <1>1 DEF Takes, requestVars, historyVars
  <2>3. \A v \in Worker : WorkerKnows(v)'
    BY <1>0, <2>1, <2>2 DEF Knowledge, WorkerKnows, Driving
  <2>4. \A k \in Job : RequestKnows(k)' /\ JobKeeps(k)'
    BY <1>0, <2>2 DEF Knowledge, RequestKnows, JobKeeps
  <2>5. OneDriver'
    BY <1>0, <2>1, <2>2 DEF OneDriver, Drives
  <2> QED
    BY <2>3, <2>4, <2>5 DEF Knowledge
<1>2. ASSUME Begins(w) PROVE Knowledge' /\ OneDriver'
  <2>1. work[w].at = "taken" /\ j \in Job
    BY <1>2, <1>j DEF Begins
  <2>2. CASE CanMove(j, "queued", "running")
    <3>1. job' = Moved(j, "running")
      BY <1>2, <2>2 DEF Begins
    <3>2. /\ \A k \in Job \ {j} : job'[k] = job[k]
          /\ job[j].status = "queued" /\ job'[j].status = "running"
          /\ job'[j].status_route = job[j].status_route
          /\ job'[j].cancel = job[j].cancel /\ job'[j].output = job[j].output
      BY <1>m, <2>1, <2>2, <3>1
    <3>3. /\ \A v \in Worker \ {w} : work'[v] = work[v]
          /\ work'[w].at \in {"judged", "executing"} /\ work'[w].job = j
          /\ work'[w].at = "judged" => work'[w].verdict # "completed"
      <4>1. Judges(w, "failed") \/ Steps(w, "executing")
        BY <1>2, <2>2 DEF Begins
      <4> QED
        BY <1>t, <4>1, WorkerMoves DEF Terminal
    <3>4. \A v \in Worker : Drives(v, j)' => v = w
      BY <1>0, <2>1, <3>2, <3>3 DEF Knowledge, WorkerKnows, Drives, Driving
    <3>5. sub[j].at \notin {"none", "checked", "answering", "answered"}
      <4>1. NoJob.status = "unborn"
        BY DEF NoJob
      <4> QED
        BY <1>k, <2>1, <3>2, <4>1 DEF RequestKnows
    <3>6. OneDriver'
      BY <1>0, <1>2, <3>3, <3>4, <3>5 DEF Begins, requestVars, OneDriver, Drives
    <3>7. answers' = answers /\ sub' = sub /\ lateCancel' = lateCancel
      BY <1>2 DEF Begins, requestVars, historyVars
    <3>8. ASSUME NEW v \in Worker PROVE WorkerKnows(v)'
      <4>1. CASE v = w
        BY <3>2, <3>3, <4>1 DEF WorkerKnows, Driving
      <4>2. CASE v # w
        <5>1. WorkerKnows(v) /\ work'[v] = work[v]
          BY <1>0, <3>3, <4>2 DEF Knowledge
        <5>2. work[v].at \in Driving => work[v].job \in Job
          BY <1>0 DEF TInv, WorkersHoldJobs, Driving
        <5> QED
          BY <3>2, <3>7, <5>1, <5>2 DEF WorkerKnows, Driving
      <4> QED
        BY <4>1, <4>2
    <3>9. ASSUME NEW k \in Job PROVE RequestKnows(k)' /\ JobKeeps(k)'
      <4>1. RequestKnows(k) /\ JobKeeps(k)
        BY <1>0 DEF Knowledge
      <4> QED
        BY <2>1, <3>2, <3>5, <3>7, <4>1 DEF RequestKnows, JobKeeps
    <3> QED
      BY <3>6, <3>8, <3>9 DEF Knowledge
  <2>3. CASE ~CanMove(j, "queued", "running")
    <3>1. /\ \A v \in Worker \ {w} : work'[v] = work[v]
          /\ work'[w].at \in {"gone", "idle"} /\ job' = job
      BY <1>2, <1>t, <2>3, WorkerMoves DEF Begins
    <3> QED
      BY <1>0, <1>2, <3>1
         DEF Begins, requestVars, historyVars, Knowledge, RequestKnows, WorkerKnows, JobKeeps,
             OneDriver, Drives, Driving
  <2> QED
    BY <2>2, <2>3
<1>3. ASSUME Executes(w) PROVE Knowledge' /\ OneDriver'
  <2>1. work[w].at = "executing" /\ j \in Job
    BY <1>3, <1>j DEF Executes, Executing
  <2>2. PICK result \in Result(w) :
           work' = [work EXCEPT ![w].at =
                                  IF Verdict(w, result) = "completed" THEN "publishes" ELSE "judged",
                                ![w].verdict = Verdict(w, result)]
    BY <1>3 DEF Executes
  <2>3. /\ \A v \in Worker \ {w} : work'[v] = work[v]
        /\ work'[w].at \in {"publishes", "judged"} /\ work'[w].job = j
        /\ work'[w].at = "publishes" => Verdict(w, result) = "completed"
        /\ work'[w].at = "judged" => work'[w].verdict # "completed"
    <3> DEFINE row == [work[w] EXCEPT
                          !.at = IF Verdict(w, result) = "completed" THEN "publishes" ELSE "judged",
                          !.verdict = Verdict(w, result)]
    <3>1. /\ row.at = IF Verdict(w, result) = "completed" THEN "publishes" ELSE "judged"
          /\ row.job = j /\ row.verdict = Verdict(w, result)
      <4>1. work[w] \in WorkRow
        BY <1>t
      <4> QED
        BY <4>1 DEF WorkRow
    <3>2. work' = [work EXCEPT ![w] = row]
      BY <2>2
    <3> QED
      BY <1>t, <3>1, <3>2
  <2>4. work'[w].at = "publishes" => ~job[j].cancel
    BY <2>3 DEF Verdict
  <2>5. job' = job /\ answers' = answers /\ sub' = sub /\ lateCancel' = lateCancel
    BY <1>3 DEF Executes, requestVars, historyVars
  <2>6. WorkerKnows(w)' /\ JobKeeps(j)'
    BY <1>k, <2>1, <2>3, <2>4, <2>5 DEF WorkerKnows, JobKeeps, Driving
  <2>7. job[j].status \notin {"unborn", "queued"}
    BY <1>0, <2>1 DEF Knowledge, WorkerKnows, Driving
  <2> QED
    BY <2>1, <2>3, <2>5, <2>6, <2>7, DriverStep DEF Driving
<1>4. ASSUME Raises(w) \/ Publishes(w) PROVE Knowledge' /\ OneDriver'
  <2>1. work[w].at \in {"executing", "publishes"} /\ j \in Job
    BY <1>4, <1>j DEF Raises, Executing, Publishes
  <2>2. /\ \A v \in Worker \ {w} : work'[v] = work[v]
        /\ work'[w].at \in {"fails", "posted"} /\ work'[w].job = j
        /\ work'[w].at = "posted" => work[w].at = "publishes" /\ <<j, w>> \in answers'
    BY <1>4, <1>t, WorkerMoves DEF Raises, Publishes
  <2>3. job' = job /\ answers \subseteq answers' /\ sub' = sub /\ lateCancel' = lateCancel
    BY <1>4 DEF Raises, Publishes, requestVars, historyVars
  <2>4. WorkerKnows(w)' /\ JobKeeps(j)'
    BY <1>k, <2>1, <2>2, <2>3 DEF WorkerKnows, JobKeeps, Driving
  <2>5. job[j].status \notin {"unborn", "queued"}
    BY <1>0, <2>1 DEF Knowledge, WorkerKnows, Driving
  <2> QED
    BY <2>1, <2>2, <2>3, <2>4, <2>5, DriverStep DEF Driving
<1>5. ASSUME Completes(w) PROVE Knowledge' /\ OneDriver'
  <2>1. work[w].at = "posted" /\ j \in Job
    BY <1>5, <1>j DEF Completes
  <2>2. answers' = answers /\ sub' = sub /\ lateCancel' = lateCancel
    BY <1>5 DEF Completes, requestVars, historyVars
  <2>3. /\ \A v \in Worker \ {w} : work'[v] = work[v]
        /\ \/ work'[w].at \in {"gone", "idle"}
           \/ work'[w].at = "fails" /\ work'[w].job = j
    BY <1>5, <1>t, WorkerMoves DEF Completes
  <2>4. job[j].status \notin {"unborn", "queued"}
    BY <1>0, <2>1 DEF Knowledge, WorkerKnows, Driving
  <2>5. CASE CanMove(j, "running", "completed")
    <3>1. job' = [job EXCEPT ![j] = [job[j] EXCEPT !.status = "completed", !.output = w]]
      BY <1>5, <2>5 DEF Completes
    <3>2. /\ \A k \in Job \ {j} : job'[k] = job[k]
          /\ job'[j].status = "completed" /\ job'[j].output = w
          /\ job'[j].status_route = job[j].status_route /\ job'[j].cancel = job[j].cancel
      <4>1. job[j] \in JobRow
        BY <1>t, <2>1
      <4>2. job'[j] = [job[j] EXCEPT !.status = "completed", !.output = w]
        BY <1>t, <2>1, <3>1
      <4>3. \A k \in Job \ {j} : job'[k] = job[k]
        BY <1>t, <3>1
      <4> QED
        BY <4>1, <4>2, <4>3 DEF JobRow
    <3>3. WorkerKnows(w)' /\ JobKeeps(j)'
      BY <1>k, <2>1, <2>2, <2>3, <3>2 DEF WorkerKnows, JobKeeps, Driving
    <3> QED
      BY <2>1, <2>2, <2>3, <3>2, <3>3, DriverStep DEF Driving
  <2>6. CASE ~CanMove(j, "running", "completed")
    <3>1. job' = job
      BY <1>5, <2>6 DEF Completes
    <3>2. WorkerKnows(w)' /\ JobKeeps(j)'
      BY <1>k, <2>1, <2>2, <2>3, <2>4, <3>1 DEF WorkerKnows, JobKeeps, Driving
    <3> QED
      BY <2>1, <2>2, <2>3, <2>4, <3>1, <3>2, DriverStep DEF Driving
  <2> QED
    BY <2>5, <2>6
<1>6. ASSUME Ends(w) \/ Fails(w) PROVE Knowledge' /\ OneDriver'
  <2>1. work[w].at \in {"judged", "fails"} /\ j \in Job
    BY <1>6, <1>j DEF Ends, Fails
  <2>2. answers' = answers /\ sub' = sub /\ lateCancel' = lateCancel
    BY <1>6 DEF Ends, Fails, requestVars, historyVars
  <2>3. /\ \A v \in Worker \ {w} : work'[v] = work[v]
        /\ \/ work'[w].at \in {"gone", "idle"}
           \/ work'[w].at = "fails" /\ work'[w].job = j
    BY <1>6, <1>t, WorkerMoves DEF Ends, Fails
  <2>4. job[j].status \notin {"unborn", "queued"}
    BY <1>0, <2>1 DEF Knowledge, WorkerKnows, Driving
  <2>5. job' = job \/ \E to : CanMove(j, "running", to) /\ to # "completed" /\ job' = Moved(j, to)
    <3>1. work[w].at = "judged" => work[w].verdict # "completed"
      BY <1>0, <2>1 DEF Knowledge, WorkerKnows
    <3> QED
      BY <1>6, <3>1 DEF Ends, Fails
  <2>6. /\ \A k \in Job \ {j} : job'[k] = job[k]
        /\ job'[j].status \notin {"unborn", "queued"}
        /\ job'[j].status = "completed" => job' = job
        /\ job'[j].status_route = job[j].status_route
        /\ job'[j].cancel = job[j].cancel /\ job'[j].output = job[j].output
        /\ job' # job => job[j].status # "completed"
    BY <1>m, <2>1, <2>4, <2>5 DEF CanMove, Legal, Terminal
  <2>7. WorkerKnows(w)' /\ JobKeeps(j)'
    BY <1>k, <2>1, <2>2, <2>3, <2>6 DEF WorkerKnows, JobKeeps, Driving
  <2> QED
    BY <2>1, <2>2, <2>3, <2>6, <2>7, DriverStep DEF Driving
<1> QED
  BY <1>1, <1>2, <1>3, <1>4, <1>5, <1>6 DEF WorkerStep

\* The step of a request whose job no worker drives: it changes its row and the
\* job's, and what it knows and what is so of the job stay so.
LEMMA StatusStep ==
    ASSUME IInv, NEW j \in Job,
           \A w \in Worker : ~Drives(w, j),
           \A k \in Job \ {j} : sub'[k] = sub[k] /\ job'[k] = job[k],
           job'[j].status \notin {"unborn", "queued"} \/ job'[j] = job[j],
           work' = work, lateCancel' = lateCancel, answers \subseteq answers',
           job'[j].cancel = job[j].cancel,
           RequestKnows(j)', JobKeeps(j)'
    PROVE  Knowledge' /\ OneDriver'
<1>1. ASSUME NEW k \in Job PROVE RequestKnows(k)' /\ JobKeeps(k)'
  <2>1. RequestKnows(k) /\ JobKeeps(k)
    BY DEF IInv, Knowledge
  <2> QED
    BY <2>1 DEF RequestKnows, JobKeeps
<1>2. ASSUME NEW w \in Worker PROVE WorkerKnows(w)'
  <2>1. WorkerKnows(w) /\ (work[w].at \in Driving => work[w].job \in Job)
    BY DEF IInv, Knowledge, TInv, WorkersHoldJobs, Driving
  <2>2. work[w].at \in Driving => work[w].job # j
    BY DEF Drives, Driving
  <2> QED
    BY <2>1, <2>2 DEF WorkerKnows, Driving
<1>3. OneDriver'
  BY DEF IInv, OneDriver, Drives
<1> QED
  BY <1>1, <1>2, <1>3 DEF Knowledge

\* Every step of a request keeps what is known.
LEMMA RequestsKnow == IInv /\ Requests => Knowledge' /\ OneDriver'
<1> SUFFICES ASSUME IInv, Requests PROVE Knowledge' /\ OneDriver'
  OBVIOUS
<1>0. TInv /\ Knowledge /\ OneDriver
  BY DEF IInv
<1>t. job \in [Job -> JobRow] /\ work \in [Worker -> WorkRow] /\ sub \in [Job -> SubRow]
  BY <1>0 DEF TInv, TypeOK
<1>d. \A v \in Worker : work[v].at \in Driving => work[v].job \in Job
  BY <1>0 DEF TInv, WorkersHoldJobs, Driving
<1>k. /\ \A k \in Job : RequestKnows(k) /\ JobKeeps(k)
      /\ \A v \in Worker : WorkerKnows(v)
  BY <1>0 DEF Knowledge
<1>1. ASSUME NEW s \in Service, NEW j \in Job, NEW x \in Session, NEW r \in BOOLEAN,
             SubmitChecks(s, j, x, r)
      PROVE  Knowledge' /\ OneDriver'
  <2>1. /\ \A k \in Job \ {j} : sub'[k] = sub[k]
        /\ sub[j].at = "none" /\ sub'[j].at = "checked"
    BY <1>1, <1>t DEF SubmitChecks, NoSub
  <2>2. job' = job /\ answers' = answers /\ work' = work /\ lateCancel' = lateCancel
    BY <1>1 DEF SubmitChecks, historyVars
  <2>3. ASSUME NEW k \in Job PROVE RequestKnows(k)' /\ JobKeeps(k)'
    BY <1>k, <2>1, <2>2 DEF RequestKnows, JobKeeps
  <2>4. \A v \in Worker : WorkerKnows(v)'
    BY <1>k, <2>2 DEF WorkerKnows
  <2>5. OneDriver'
    BY <1>0, <2>1, <2>2 DEF OneDriver, Drives
  <2> QED
    BY <2>3, <2>4, <2>5 DEF Knowledge
<1>2. ASSUME NEW j \in Job, SubmitCreates(j) PROVE Knowledge' /\ OneDriver'
  <2>1. sub[j].at = "checked" /\ job[j] = NoJob /\ job[j].status = "unborn"
    <3>1. NoJob.status = "unborn"
      BY DEF NoJob
    <3> QED
      BY <1>2, <1>k, <3>1 DEF SubmitCreates, Does, RequestKnows
  <2>2. answers' = answers /\ work' = work /\ lateCancel' = lateCancel
    BY <1>2 DEF SubmitCreates, historyVars
  <2>3. /\ \A k \in Job \ {j} : sub'[k] = sub[k] /\ job'[k] = job[k]
        /\ \/ sub'[j].at = "done" /\ job' = job
           \/ /\ sub'[j].at = "created" /\ job'[j].status = "queued"
              /\ sub'[j].status_route = sub[j].status_route
              /\ job'[j].status_route = sub[j].status_route /\ job'[j].output = NoOutput
    <3>1. CASE sub[j].session \in deleted
      BY <1>2, <1>t, <3>1, RequestMoves DEF SubmitCreates
    <3>2. CASE sub[j].session \notin deleted
      <4>1. job' = [job EXCEPT ![j] = [NoJob EXCEPT !.status = "queued",
                       !.session = sub[j].session, !.status_route = sub[j].status_route]]
        BY <1>2, <3>2 DEF SubmitCreates
      <4>2. /\ \A k \in Job \ {j} : job'[k] = job[k]
            /\ job'[j].status = "queued" /\ job'[j].status_route = sub[j].status_route
            /\ job'[j].output = NoOutput
        BY <1>t, <4>1 DEF NoJob
      <4> QED
        BY <1>2, <1>t, <3>2, <4>2, RequestMoves DEF SubmitCreates
    <3> QED
      BY <3>1, <3>2
  <2>4. \A v \in Worker : work[v].at \in Driving => work[v].job # j
    BY <1>k, <2>1 DEF WorkerKnows
  <2>5. ASSUME NEW k \in Job PROVE RequestKnows(k)' /\ JobKeeps(k)'
    <3>1. RequestKnows(k) /\ JobKeeps(k)
      BY <1>k
    <3> QED
      BY <2>1, <2>2, <2>3, <3>1 DEF RequestKnows, JobKeeps
  <2>6. ASSUME NEW v \in Worker PROVE WorkerKnows(v)'
    <3>1. WorkerKnows(v)
      BY <1>k
    <3> QED
      BY <1>d, <2>2, <2>3, <2>4, <3>1 DEF WorkerKnows, Driving
  <2>7. OneDriver'
    BY <1>0, <2>2, <2>3 DEF OneDriver, Drives
  <2> QED
    BY <2>5, <2>6, <2>7 DEF Knowledge
<1>3. ASSUME NEW j \in Job, SubmitEnqueues(j) PROVE Knowledge' /\ OneDriver'
  <2>1. /\ \A k \in Job \ {j} : sub'[k] = sub[k]
        /\ sub'[j].at = "done"
    BY <1>3, <1>t, RequestMoves DEF SubmitEnqueues
  <2>2. job' = job /\ answers' = answers /\ work' = work /\ lateCancel' = lateCancel
    BY <1>3 DEF SubmitEnqueues, historyVars
  <2>3. ASSUME NEW k \in Job PROVE RequestKnows(k)' /\ JobKeeps(k)'
    BY <1>k, <2>1, <2>2 DEF RequestKnows, JobKeeps
  <2>4. \A v \in Worker : WorkerKnows(v)'
    BY <1>k, <2>2 DEF WorkerKnows
  <2>5. OneDriver'
    BY <1>0, <2>1, <2>2 DEF OneDriver, Drives
  <2> QED
    BY <2>3, <2>4, <2>5 DEF Knowledge
<1>4. ASSUME NEW j \in Job,
             StatusBegins(j) \/ StatusHasNoAnswer(j) \/ StatusPosts(j) \/ StatusCompletes(j)
      PROVE  Knowledge' /\ OneDriver'
  <2>1. work' = work /\ lateCancel' = lateCancel
    BY <1>4 DEF StatusBegins, StatusHasNoAnswer, StatusPosts, StatusCompletes, historyVars
  <2>2. RequestKnows(j) /\ JobKeeps(j)
    BY <1>k
  <2>3. CASE StatusBegins(j) /\ CanMove(j, "queued", "running")
    <3>1. sub[j].at = "created" /\ sub[j].status_route /\ answers' = answers
      BY <2>3 DEF StatusBegins, Does
    <3>2. /\ \A k \in Job \ {j} : sub'[k] = sub[k]
          /\ sub'[j].at = "answering" /\ sub'[j].status_route = sub[j].status_route
      BY <1>t, <2>3, RequestMoves DEF StatusBegins
    <3>3. /\ \A k \in Job \ {j} : job'[k] = job[k]
          /\ job[j].status = "queued" /\ job'[j].status = "running"
          /\ job'[j].status_route = job[j].status_route
          /\ job'[j].cancel = job[j].cancel /\ job'[j].output = job[j].output
      BY <1>t, <2>3, MovedRows DEF StatusBegins, CanMove
    <3>4. \A w \in Worker : ~Drives(w, j)
      BY <1>k, <3>3 DEF WorkerKnows, Drives, Driving
    <3>5. RequestKnows(j)' /\ JobKeeps(j)'
      BY <2>2, <3>1, <3>2, <3>3 DEF RequestKnows, JobKeeps
    <3> QED
      BY <1>0, <2>1, <3>1, <3>2, <3>3, <3>4, <3>5, StatusStep
  <2>4. CASE \/ StatusBegins(j) /\ ~CanMove(j, "queued", "running")
             \/ StatusPosts(j) /\ job[j].session \in deleted
    <3>1. job' = job /\ answers' = answers /\ SubmitEnds(j)
      BY <2>4 DEF StatusBegins, StatusPosts
    <3>2. \A k \in Job \ {j} : sub'[k] = sub[k]
      BY <1>t, <3>1, RequestMoves
    <3>3. sub'[j].at = "done"
      BY <1>t, <3>1, RequestMoves
    <3>4. ASSUME NEW k \in Job PROVE RequestKnows(k)' /\ JobKeeps(k)'
      BY <1>k, <2>1, <3>1, <3>2, <3>3 DEF RequestKnows, JobKeeps
    <3>5. \A v \in Worker : WorkerKnows(v)'
      BY <1>k, <2>1, <3>1 DEF WorkerKnows
    <3>6. OneDriver'
      BY <1>0, <2>1, <3>2, <3>3 DEF OneDriver, Drives
    <3> QED
      BY <3>4, <3>5, <3>6 DEF Knowledge
  <2>5. CASE StatusHasNoAnswer(j)
    <3>1. sub[j].at = "answering" /\ answers' = answers /\ SubmitEnds(j)
      BY <2>5 DEF StatusHasNoAnswer, Does
    <3>2. \A k \in Job \ {j} : sub'[k] = sub[k]
      BY <1>t, <3>1, RequestMoves
    <3>3. sub'[j].at = "done"
      BY <1>t, <3>1, RequestMoves
    <3>4. \/ job' = job
          \/ CanMove(j, "running", "failed") /\ job' = Moved(j, "failed")
      BY <2>5 DEF StatusHasNoAnswer
    <3>5. /\ \A k \in Job \ {j} : job'[k] = job[k]
          /\ job'[j].cancel = job[j].cancel /\ job'[j].output = job[j].output
          /\ \/ job'[j] = job[j]
             \/ job[j].status = "running" /\ job'[j].status = "failed"
      BY <1>t, <3>4, MovedRows DEF CanMove
    <3>6. \A w \in Worker : ~Drives(w, j)
      BY <1>0, <3>1 DEF OneDriver
    <3>7. RequestKnows(j)' /\ JobKeeps(j)'
      BY <2>1, <2>2, <3>1, <3>3, <3>5 DEF RequestKnows, JobKeeps
    <3> QED
      BY <1>0, <2>1, <3>1, <3>2, <3>5, <3>6, <3>7, StatusStep
  <2>6. CASE StatusPosts(j) /\ job[j].session \notin deleted
    <3>1. sub[j].at = "answering" /\ job' = job /\ answers' = answers \cup {<<j, Request>>}
      BY <2>6 DEF StatusPosts, Does
    <3>2. /\ \A k \in Job \ {j} : sub'[k] = sub[k]
          /\ sub'[j].at = "answered" /\ sub'[j].status_route = sub[j].status_route
      BY <1>t, <2>6, RequestMoves DEF StatusPosts
    <3>3. \A w \in Worker : ~Drives(w, j)
      BY <1>0, <3>1 DEF OneDriver
    <3>4. RequestKnows(j)' /\ JobKeeps(j)'
      BY <2>1, <2>2, <3>1, <3>2 DEF RequestKnows, JobKeeps
    <3> QED
      BY <1>0, <2>1, <3>1, <3>2, <3>3, <3>4, StatusStep
  <2>7. CASE StatusCompletes(j)
    <3>1. sub[j].at = "answered" /\ answers' = answers /\ SubmitEnds(j)
      BY <2>7 DEF StatusCompletes, Does
    <3>2. \A k \in Job \ {j} : sub'[k] = sub[k]
      BY <1>t, <3>1, RequestMoves
    <3>3. sub'[j].at = "done"
      BY <1>t, <3>1, RequestMoves
    <3>4. /\ \A k \in Job \ {j} : job'[k] = job[k]
          /\ job'[j].cancel = job[j].cancel /\ job'[j].status_route = job[j].status_route
          /\ \/ job'[j] = job[j]
             \/ job'[j].status = "completed" /\ job'[j].output = Request
      <4>1. job[j] \in JobRow
        BY <1>t
      <4>2. \/ job' = job
            \/ job' = [job EXCEPT ![j] = [job[j] EXCEPT !.status = "completed", !.output = Request]]
        BY <2>7 DEF StatusCompletes
      <4> QED
        BY <1>t, <4>1, <4>2 DEF JobRow
    <3>5. \A w \in Worker : ~Drives(w, j)
      BY <1>0, <3>1 DEF OneDriver
    <3>6. RequestKnows(j)' /\ JobKeeps(j)'
      BY <2>1, <2>2, <3>1, <3>3, <3>4 DEF RequestKnows, JobKeeps
    <3> QED
      BY <1>0, <2>1, <3>1, <3>2, <3>4, <3>5, <3>6, StatusStep
  <2> QED
    BY <1>4, <2>3, <2>4, <2>5, <2>6, <2>7
<1>5. ASSUME NEW s \in Service, NEW j \in Job, CancelRequests(s, j)
      PROVE  Knowledge' /\ OneDriver'
  <2>1. work' = work /\ sub' = sub /\ answers' = answers
    BY <1>5 DEF CancelRequests
  <2>2. lateCancel' = IF Judged(j) THEN lateCancel \cup {j} ELSE lateCancel
    BY <1>5 DEF CancelRequests
  <2>3. job[j].status \in {"queued", "running"}
    BY <1>5 DEF CancelRequests, Active
  <2>4. /\ \A k \in Job \ {j} : job'[k] = job[k]
        /\ job'[j].status = IF job[j].status = "queued" THEN "cancelled" ELSE job[j].status
        /\ job'[j].status_route = job[j].status_route /\ job'[j].output = job[j].output
    <3>1. job[j] \in JobRow
      BY <1>t
    <3>2. job' = [job EXCEPT ![j] = [job[j] EXCEPT !.cancel = TRUE,
                     !.status = IF @ = "queued" THEN "cancelled" ELSE @]]
      BY <1>5 DEF CancelRequests
    <3> QED
      BY <1>t, <3>1, <3>2 DEF JobRow
  <2>5. ASSUME NEW k \in Job PROVE RequestKnows(k)' /\ JobKeeps(k)'
    <3>1. RequestKnows(k) /\ JobKeeps(k)
      BY <1>k
    <3>2. NoJob.status = "unborn"
      BY DEF NoJob
    <3>3. CASE k = j
      <4>1. job'[j].status \in {"cancelled", "running"} /\ job[j] # NoJob
        BY <2>3, <2>4, <3>2
      <4>2. RequestKnows(j)'
        BY <2>1, <2>4, <3>1, <3>3, <4>1 DEF RequestKnows
      <4>3. JobKeeps(j)'
        BY <2>3, <2>4, <3>1, <3>3, <4>1 DEF JobKeeps
      <4> QED
        BY <3>3, <4>2, <4>3
    <3>4. CASE k # j
      BY <2>1, <2>2, <2>4, <3>1, <3>4 DEF RequestKnows, JobKeeps
    <3> QED
      BY <3>3, <3>4
  <2>6. ASSUME NEW v \in Worker PROVE WorkerKnows(v)'
    <3>1. WorkerKnows(v) /\ (work[v].at \in Driving => work[v].job \in Job)
      BY <1>k, <1>d
    <3>2. work[v].at \in {"publishes", "posted"} /\ work[v].job = j => j \in lateCancel'
      BY <2>2 DEF Judged
    <3> QED
      BY <2>1, <2>2, <2>3, <2>4, <3>1, <3>2 DEF WorkerKnows, Driving
  <2>7. OneDriver'
    BY <1>0, <2>1 DEF OneDriver, Drives
  <2> QED
    BY <2>5, <2>6, <2>7 DEF Knowledge
<1>6. ASSUME NEW s \in Service, NEW x \in Session,
             CancelSignals(s, x) \/ DeleteChecks(s, x) \/ DeleteCommits(s, x)
      PROVE  Knowledge' /\ OneDriver'
  <2>1. job' = job /\ sub' = sub /\ answers' = answers /\ lateCancel' = lateCancel
    BY <1>6 DEF CancelSignals, DeleteChecks, DeleteCommits, historyVars
  <2>2. ASSUME NEW v \in Worker
        PROVE  /\ work'[v].at = work[v].at /\ work'[v].job = work[v].job
               /\ work'[v].verdict = work[v].verdict
    <3>1. work[v] \in WorkRow
      BY <1>t
    <3>2. work'[v] = work[v] \/ work'[v] = [work[v] EXCEPT !.stopped = TRUE]
      BY <1>6 DEF CancelSignals, DeleteChecks, DeleteCommits
    <3> QED
      BY <3>1, <3>2 DEF WorkRow
  <2>3. \A k \in Job : RequestKnows(k)' /\ JobKeeps(k)'
    BY <1>k, <2>1 DEF RequestKnows, JobKeeps
  <2>4. \A v \in Worker : WorkerKnows(v)'
    BY <1>k, <2>1, <2>2 DEF WorkerKnows
  <2>5. OneDriver'
    BY <1>0, <2>1, <2>2 DEF OneDriver, Drives
  <2> QED
    BY <2>3, <2>4, <2>5 DEF Knowledge
<1> QED
  BY <1>1, <1>2, <1>3, <1>4, <1>5, <1>6 DEF Requests, RequestStep

\* A start, a close and the end of a process keep what is known.
LEMMA ProcessesKnow == IInv /\ Processes => Knowledge' /\ OneDriver'
<1> SUFFICES ASSUME IInv, NEW s \in Service,
                    Starts(s) \/ Binds(s) \/ Stop(s) \/ Exits(s) \/ Crashes(s)
             PROVE  Knowledge' /\ OneDriver'
  BY DEF Processes
<1>0. TInv /\ Knowledge /\ OneDriver
  BY DEF IInv
<1>t. job \in [Job -> JobRow] /\ work \in [Worker -> WorkRow] /\ sub \in [Job -> SubRow]
  BY <1>0 DEF TInv, TypeOK
<1>d. \A v \in Worker : work[v].at \in Driving => work[v].job \in Job
  BY <1>0 DEF TInv, WorkersHoldJobs, Driving
<1>k. /\ \A k \in Job : RequestKnows(k) /\ JobKeeps(k)
      /\ \A v \in Worker : WorkerKnows(v)
  BY <1>0 DEF Knowledge
<1>1. /\ answers' = answers /\ lateCancel' = lateCancel
      /\ \A k \in Job : \/ job'[k] = job[k]
                        \/ /\ job[k].status = "running" /\ job'[k].status = "interrupted"
                           /\ job'[k].status_route = job[k].status_route
                           /\ job'[k].cancel = job[k].cancel /\ job'[k].output = job[k].output
  <2>1. CASE Starts(s)
    <3>1. job' = [k \in Job |-> IF job[k].status = "running"
                                THEN [job[k] EXCEPT !.status = "interrupted"] ELSE job[k]]
      BY <2>1 DEF Starts, Recovered
    <3>2. \A k \in Job : job[k] \in JobRow
      BY <1>t
    <3>3. ASSUME NEW k \in Job
          PROVE  LET row == [job[k] EXCEPT !.status = "interrupted"]
                 IN  /\ row.status = "interrupted" /\ row.status_route = job[k].status_route
                     /\ row.cancel = job[k].cancel /\ row.output = job[k].output
      BY <3>2 DEF JobRow
    <3> QED
      BY <2>1, <3>1, <3>3 DEF Starts
  <2>2. CASE ~Starts(s)
    BY <2>2 DEF Binds, Stop, Exits, Crashes, Closes, Dies, historyVars
  <2> QED
    BY <2>1, <2>2
<1>2. \A v \in Worker : work'[v] = work[v] \/ work'[v].at \in {"gone", "idle"}
  BY <1>t DEF Starts, Binds, Stop, Exits, Crashes, Closes, Dies, requestVars, Idle, Gone
<1>3. \A k \in Job : sub'[k] = sub[k] \/ sub'[k].at = "done"
  BY DEF Starts, Binds, Stop, Exits, Crashes, Closes, Dies, requestVars, DoneSub, NoSub
<1>4. ASSUME NEW k \in Job PROVE RequestKnows(k)' /\ JobKeeps(k)'
  <2>1. RequestKnows(k) /\ JobKeeps(k)
    BY <1>k
  <2>2. NoJob.status = "unborn"
    BY DEF NoJob
  <2> QED
    BY <1>1, <1>3, <2>1, <2>2 DEF RequestKnows, JobKeeps
<1>5. ASSUME NEW v \in Worker PROVE WorkerKnows(v)'
  <2>1. WorkerKnows(v) /\ (work[v].at \in Driving => work[v].job \in Job)
    BY <1>k, <1>d
  <2> QED
    BY <1>1, <1>2, <2>1 DEF WorkerKnows, Driving
<1>6. OneDriver'
  BY <1>0, <1>2, <1>3 DEF OneDriver, Drives
<1> QED
  BY <1>4, <1>5, <1>6 DEF Knowledge

\* The invariant is inductive.
LEMMA NextInv == IInv /\ [Next]_vars => IInv'
<1>1. IInv /\ UNCHANGED vars => Knowledge' /\ OneDriver'
  BY DEF IInv, vars, Knowledge, RequestKnows, JobKeeps, WorkerKnows, OneDriver, Drives
<1>2. IInv /\ [Next]_vars => TInv'
  BY NextType DEF IInv
<1> QED
  BY <1>1, <1>2, RequestsKnow, WorkersKnow, ProcessesKnow, NextParts DEF IInv

\* The inductive invariant holds in every state.
LEMMA InvAlways == Spec => []IInv
BY InitInv, NextInv, PTL DEF Spec
\* A completed job is never touched again and no answer is taken off record.
LEMMA CompletedJobsStand ==
    IInv /\ [Next]_vars => /\ \A j \in Job : job[j].status = "completed" => job'[j] = job[j]
                           /\ answers \subseteq answers' /\ deleted \subseteq deleted'
<1> SUFFICES ASSUME IInv, [Next]_vars
             PROVE  /\ \A j \in Job : job[j].status = "completed" => job'[j] = job[j]
                    /\ answers \subseteq answers' /\ deleted \subseteq deleted'
  OBVIOUS
<1>t. job \in [Job -> JobRow] /\ \A j \in Job : RequestKnows(j)
  BY DEF IInv, TInv, TypeOK, Knowledge
<1>n. NoJob.status = "unborn"
  BY DEF NoJob
<1>1. ASSUME NEW w \in Worker, WorkerStep(w)
      PROVE  /\ \A j \in Job : job[j].status = "completed" => job'[j] = job[j]
             /\ answers \subseteq answers' /\ deleted \subseteq deleted'
  <2>1. answers \subseteq answers' /\ deleted' = deleted
    BY <1>1 DEF WorkerStep, Takes, Begins, Executes, Raises, Publishes, Completes, Ends, Fails
  <2>2. \/ job' = job
        \/ /\ job[work[w].job].status \in {"queued", "running"}
           /\ \E row : job' = [job EXCEPT ![work[w].job] = row]
    BY <1>1 DEF WorkerStep, Takes, Begins, Executes, Raises, Publishes, Completes, Ends, Fails,
       CanMove, Moved
  <2> QED
    BY <1>t, <2>1, <2>2
<1>2. ASSUME Requests
      PROVE  /\ \A j \in Job : job[j].status = "completed" => job'[j] = job[j]
             /\ answers \subseteq answers' /\ deleted \subseteq deleted'
  <2>1. answers \subseteq answers' /\ deleted \subseteq deleted'
    BY <1>2 DEF Requests, RequestStep, SubmitChecks, SubmitCreates, SubmitEnqueues, StatusBegins,
       StatusHasNoAnswer, StatusPosts, StatusCompletes, CancelRequests, CancelSignals,
       DeleteChecks, DeleteCommits
  <2>2. \/ job' = job
        \/ \E j \in Job : /\ job[j].status # "completed"
                          /\ \E row : job' = [job EXCEPT ![j] = row]
    <3>1. ASSUME NEW j \in Job, RequestStep(j)
          PROVE  \/ job' = job
                 \/ /\ job[j].status # "completed"
                    /\ \E row : job' = [job EXCEPT ![j] = row]
      <4>1. sub[j].at = "checked" => job[j].status = "unborn"
        BY <1>t, <1>n DEF RequestKnows
      <4> QED
        BY <3>1, <4>1 DEF RequestStep, SubmitCreates, SubmitEnqueues, StatusBegins,
           StatusHasNoAnswer, StatusPosts, StatusCompletes, CanMove, Moved, Does
    <3>2. ASSUME NEW s \in Service, NEW j \in Job, CancelRequests(s, j)
          PROVE  /\ job[j].status # "completed"
                 /\ \E row : job' = [job EXCEPT ![j] = row]
      BY <3>2 DEF CancelRequests, Active
    <3> QED
      BY <1>2, <3>1, <3>2
         DEF Requests, SubmitChecks, CancelSignals, DeleteChecks, DeleteCommits
  <2> QED
    BY <1>t, <2>1, <2>2
<1>3. ASSUME NEW s \in Service, Starts(s) \/ Binds(s) \/ Stop(s) \/ Exits(s) \/ Crashes(s)
      PROVE  /\ \A j \in Job : job[j].status = "completed" => job'[j] = job[j]
             /\ answers \subseteq answers' /\ deleted \subseteq deleted'
  BY <1>t, <1>3 DEF Starts, Recovered, Binds, Stop, Exits, Crashes, Closes, Dies
<1>4. ASSUME UNCHANGED vars
      PROVE  /\ \A j \in Job : job[j].status = "completed" => job'[j] = job[j]
             /\ answers \subseteq answers' /\ deleted \subseteq deleted'
  BY <1>4 DEF vars
<1> QED
  BY <1>1, <1>2, <1>3, <1>4, NextParts DEF Workers, Processes

-----------------------------------------------------------------------------
(* Active jobs are in somebody's hands. *)

\* A queued job waits in a live queue, or with its request, or has just been taken.
QueuedHeld(j) == \/ sub[j].at = "created"
                 \/ \E s \in Service : up[s] # "down" /\ Queued(s, j)
                 \/ \E w \in Worker : work[w].at = "taken" /\ work[w].job = j
\* A running job has a thread that will end it, or lost its session to a delete.
RunningHeld(j) == \/ sub[j].at \in {"answering", "answered"}
                  \/ \E w \in Worker : work[w].at \in Driving /\ work[w].job = j
                  \/ job[j].session \in deleted
JobHeld(j) == /\ job[j].status = "queued" => QueuedHeld(j)
              /\ job[j].status = "running" => RunningHeld(j)
\* A request belongs to a process that is up.
RequestsLive == \A j \in Job : sub[j].at \notin {"none", "done"} =>
                    sub[j].service \in Service /\ up[sub[j].service] # "down"
OneUp == \A s, t \in Service : up[s] # "down" /\ up[t] # "down" => s = t
AllDown == \A s \in Service : up[s] = "down"
Hands == \/ overlapped
         \/ OneUp /\ RequestsLive /\ (AllDown \/ \A j \in Job : JobHeld(j))

\* What a step of worker w leaves to every other worker and job, and how it
\* leaves the job it had in hand, keeps active jobs held.
LEMMA HandStep ==
    ASSUME NEW w \in Worker, Hands, sub' = sub, up' = up, queue' = queue, deleted' = deleted,
           overlapped' = overlapped,
           \A v \in Worker \ {w} : work'[v] = work[v],
           \A k \in Job : job'[k].session = job[k].session,
           \A k \in Job \ {work[w].job} : job'[k] = job[k],
           LET j == work[w].job IN
              \/ j \in Job => job'[j].status \notin {"queued", "running"}
              \/ job'[j].status # "queued" /\ work'[w].at \in Driving /\ work'[w].job = j
              \/ job' = job /\ job[j].status # "queued" /\ work[w].at = "taken"
    PROVE  Hands'
<1> DEFINE j == work[w].job
<1>1. CASE overlapped
  BY <1>1 DEF Hands
<1>2. CASE ~overlapped
  <2>1. OneUp' /\ RequestsLive' /\ (AllDown => AllDown')
    BY <1>2 DEF Hands, OneUp, RequestsLive, AllDown
  <2>2. ASSUME NEW k \in Job, JobHeld(k) PROVE JobHeld(k)'
    <3>1. ASSUME k # j PROVE JobHeld(k)'
      <4>1. job'[k] = job[k]
        BY <3>1
      <4>2. \A v \in Worker : work[v].job = k => v # w
        BY <3>1
      <4> QED
        BY <2>2, <4>1, <4>2 DEF JobHeld, QueuedHeld, RunningHeld, Queued
    <3>2. CASE k = j /\ job'[j].status \notin {"queued", "running"}
      BY <3>2 DEF JobHeld
    <3>3. CASE /\ k = j /\ job'[j].status # "queued"
               /\ work'[w].at \in Driving /\ work'[w].job = j
      BY <3>3 DEF JobHeld, RunningHeld
    <3>4. CASE k = j /\ job' = job /\ job[j].status # "queued" /\ work[w].at = "taken"
      <4>1. work[w].at \notin Driving
        BY <3>4 DEF Driving
      <4> QED
        BY <2>2, <3>4, <4>1 DEF JobHeld, RunningHeld
    <3> QED
      BY <3>1, <3>2, <3>3, <3>4
  <2> QED
    BY <1>2, <2>1, <2>2 DEF Hands
<1> QED
  BY <1>1, <1>2

\* No step of a worker drops a job that is still active.
LEMMA WorkersHold == IInv /\ Hands /\ Workers => Hands'
<1> SUFFICES ASSUME IInv, Hands, NEW w \in Worker, WorkerStep(w) PROVE Hands'
  BY DEF Workers
<1>i. PICK j : j = work[w].job
  OBVIOUS
<1> USE <1>i
<1>t. job \in [Job -> JobRow] /\ work \in [Worker -> WorkRow]
      /\ queue \in [Service -> Seq(Job \cup {None})]
  BY DEF IInv, TInv, TypeOK
<1>j. work[w].at \notin {"gone", "idle"} => j \in Job
  BY DEF IInv, TInv, WorkersHoldJobs
<1>k. work[w].at \in Driving => job[j].status # "queued"
  BY DEF IInv, Knowledge, WorkerKnows
<1>m. ASSUME NEW to, NEW from \in {"queued", "running"}, j \in Job, CanMove(j, from, to),
             job' = Moved(j, to)
      PROVE  /\ \A k \in Job \ {j} : job'[k] = job[k]
             /\ \A k \in Job : job'[k].session = job[k].session
             /\ job'[j].status = to /\ to \in Legal[from]
  BY <1>m, <1>t, MovedRows DEF CanMove
<1>l. /\ Legal.running = Terminal /\ "running" \in Legal.queued
      /\ Terminal \cap {"queued", "running"} = {}
  BY DEF Legal, Terminal
<1>1. ASSUME Takes(w) PROVE Hands'
  <2> DEFINE q == queue[w[1]]
  <2>1. /\ job' = job /\ up' = up /\ sub' = sub /\ deleted' = deleted
        /\ overlapped' = overlapped /\ w[1] \in Service
        /\ \A v \in Worker \ {w} : work'[v] = work[v]
        /\ work[w].at = "idle" /\ q # <<>>
    BY <1>1, <1>t DEF Takes, requestVars, historyVars, Worker
  <2>2. queue' = [queue EXCEPT ![w[1]] = Tail(q)]
    BY <1>1 DEF Takes
  <2>3. ASSUME NEW k \in Job, NEW s \in Service, Queued(s, k), s # w[1] \/ k # Head(q)
        PROVE  Queued(s, k)'
    <3>1. CASE s # w[1]
      BY <1>t, <2>2, <2>3, <3>1 DEF Queued
    <3>2. CASE s = w[1] /\ k # Head(q)
      <4>1. q \in Seq(Job \cup {None}) /\ queue'[s] = Tail(q)
        BY <1>t, <2>2, <3>2
      <4>2. PICK i \in 1..Len(q) : q[i] = k
        BY <2>3, <3>2 DEF Queued
      <4>3. i # 1
        BY <3>2, <4>2, <2>1
      <4>4. i - 1 \in 1..Len(Tail(q)) /\ Tail(q)[i - 1] = k
        BY <2>1, <4>1, <4>2, <4>3
      <4> QED
        BY <4>1, <4>4 DEF Queued
    <3> QED
      BY <2>3, <3>1, <3>2
  <2>4. ASSUME NEW k \in Job, k = Head(q), job[k].status = "queued"
        PROVE  work'[w].at = "taken" /\ work'[w].job = k
    <3>1. k # None
      BY ProductAssumption
    <3>2. work' = [work EXCEPT ![w] = [Idle EXCEPT !.at = "taken", !.job = k]]
      BY <1>1, <2>4, <3>1 DEF Takes
    <3> QED
      BY <1>t, <3>2 DEF Idle
  <2>5. ASSUME NEW k \in Job, JobHeld(k) PROVE JobHeld(k)'
    <3>1. ASSUME job[k].status = "queued" PROVE QueuedHeld(k)'
      <4>1. CASE \E s \in Service : up[s] # "down" /\ Queued(s, k)
        BY <2>1, <2>3, <2>4, <3>1, <4>1 DEF QueuedHeld
      <4>2. CASE sub[k].at = "created"
        BY <2>1, <4>2 DEF QueuedHeld
      <4>3. CASE \E v \in Worker : work[v].at = "taken" /\ work[v].job = k
        BY <2>1, <4>3 DEF QueuedHeld
      <4> QED
        BY <2>5, <3>1, <4>1, <4>2, <4>3 DEF JobHeld, QueuedHeld
    <3>2. ASSUME job[k].status = "running" PROVE RunningHeld(k)'
      <4>1. \A v \in Worker : work[v].at \in Driving => v # w
        BY <2>1 DEF Driving
      <4> QED
        BY <2>1, <2>5, <3>2, <4>1 DEF JobHeld, RunningHeld
    <3> QED
      BY <2>1, <3>1, <3>2 DEF JobHeld
  <2> QED
    BY <2>1, <2>5 DEF Hands, OneUp, RequestsLive, AllDown
<1>f. ~Takes(w) => /\ sub' = sub /\ up' = up /\ queue' = queue /\ deleted' = deleted
                   /\ overlapped' = overlapped
  BY DEF WorkerStep, Begins, Executes, Raises, Publishes, Completes, Ends, Fails, requestVars,
     historyVars
<1>s. ASSUME NEW at \in Driving, Steps(w, at)
      PROVE  /\ \A v \in Worker \ {w} : work'[v] = work[v]
             /\ work'[w].at \in Driving /\ work'[w].job = j
  BY <1>s, <1>t, WorkerMoves DEF Driving
<1>o. Loops(w) => \A v \in Worker \ {w} : work'[v] = work[v]
  BY <1>t, WorkerMoves
<1>2. ASSUME Begins(w), ~Takes(w) PROVE Hands'
  <2>1. work[w].at = "taken" /\ j \in Job
    BY <1>2, <1>j DEF Begins
  <2>2. CASE CanMove(j, "queued", "running")
    <3>1. job' = Moved(j, "running") /\ (Judges(w, "failed") \/ Steps(w, "executing"))
      BY <1>2, <2>2 DEF Begins
    <3>2. /\ \A v \in Worker \ {w} : work'[v] = work[v]
          /\ work'[w].at \in Driving /\ work'[w].job = j
      BY <1>s, <1>t, <3>1, WorkerMoves DEF Driving, Terminal
    <3> QED
      BY <1>f, <1>2, <1>m, <2>1, <2>2, <3>1, <3>2, HandStep
  <2>3. CASE ~CanMove(j, "queued", "running")
    <3>1. job' = job /\ Loops(w)
      BY <1>2, <2>3 DEF Begins
    <3>2. job[j].status # "queued"
      BY <1>l, <2>3 DEF CanMove
    <3> QED
      BY <1>f, <1>2, <1>o, <2>1, <3>1, <3>2, HandStep
  <2> QED
    BY <2>2, <2>3
<1>3. ASSUME job' = job, work[w].at \in Driving, ~Takes(w),
             \A v \in Worker \ {w} : work'[v] = work[v],
             work'[w].at \in Driving, work'[w].job = j
      PROVE  Hands'
  BY <1>f, <1>k, <1>3, HandStep
<1>4. ASSUME Executes(w), ~Takes(w) PROVE Hands'
  <2>1. job' = job /\ work[w].at \in Driving
    BY <1>4 DEF Executes, Executing, Driving
  <2>2. PICK result \in Result(w) :
          work' = [work EXCEPT ![w].at =
                                  IF Verdict(w, result) = "completed" THEN "publishes" ELSE "judged",
                               ![w].verdict = Verdict(w, result)]
    BY <1>4 DEF Executes
  <2>3. /\ \A v \in Worker \ {w} : work'[v] = work[v]
        /\ work'[w].at \in Driving /\ work'[w].job = j
    BY <1>t, <2>2 DEF WorkRow, Driving
  <2> QED
    BY <1>3, <1>4, <2>1, <2>3
<1>5. ASSUME Raises(w) \/ Publishes(w), ~Takes(w) PROVE Hands'
  <2>1. /\ job' = job /\ work[w].at \in Driving
        /\ \E at \in Driving : Steps(w, at)
    BY <1>5 DEF Raises, Publishes, Executing, Driving
  <2> QED
    BY <1>3, <1>5, <1>s, <2>1
<1>6. ASSUME Completes(w) \/ Ends(w) \/ Fails(w), ~Takes(w) PROVE Hands'
  <2>1. work[w].at \in Driving /\ j \in Job
    BY <1>6, <1>j DEF Completes, Ends, Fails, Driving
  <2>2. \/ Loops(w) /\ \E to : CanMove(j, "running", to) /\ job' = Moved(j, to)
        \/ Loops(w) /\ job' = job /\ job[j].status # "running"
        \/ Steps(w, "fails") /\ job' = job
    <3>1. "cancelled" \in Legal.running /\ "failed" \in Legal.running
      BY <1>l DEF Terminal
    <3> QED
      BY <1>6, <3>1 DEF Completes, Ends, Fails, CanMove, Moved
  <2>3. CASE Loops(w) /\ \E to : CanMove(j, "running", to) /\ job' = Moved(j, to)
    <3>1. PICK to : CanMove(j, "running", to) /\ job' = Moved(j, to)
      BY <2>3
    <3>2. /\ \A k \in Job \ {j} : job'[k] = job[k]
          /\ \A k \in Job : job'[k].session = job[k].session
          /\ job'[j].status \notin {"queued", "running"}
      BY <1>l, <1>m, <2>1, <3>1
    <3> QED
      BY <1>f, <1>6, <1>o, <2>3, <3>2, HandStep
  <2>4. CASE Loops(w) /\ job' = job /\ job[j].status # "running"
    BY <1>f, <1>6, <1>k, <1>o, <2>1, <2>4, HandStep
  <2>5. CASE Steps(w, "fails") /\ job' = job
    BY <1>3, <1>6, <1>s, <2>1, <2>5 DEF Driving
  <2> QED
    BY <2>2, <2>3, <2>4, <2>5
<1> QED
  BY <1>1, <1>2, <1>4, <1>5, <1>6 DEF WorkerStep

\* A request that puts its job down leaves it ended, queued or out of reach.
LEMMA RequestsHold == IInv /\ Hands /\ Requests => Hands'
<1> SUFFICES ASSUME IInv, Hands, Requests, ~overlapped PROVE Hands'
  <2>1. Requests => overlapped' = overlapped
    BY DEF Requests, RequestStep, SubmitChecks, SubmitCreates, SubmitEnqueues, StatusBegins,
       StatusHasNoAnswer, StatusPosts, StatusCompletes, CancelRequests, CancelSignals,
       DeleteChecks, DeleteCommits, historyVars
  <2> QED
    BY <2>1 DEF Hands
<1>t. /\ job \in [Job -> JobRow] /\ work \in [Worker -> WorkRow] /\ sub \in [Job -> SubRow]
      /\ queue \in [Service -> Seq(Job \cup {None})]
  BY DEF IInv, TInv, TypeOK
<1>k. \A k \in Job : RequestKnows(k)
  BY DEF IInv, Knowledge
<1>h. OneUp /\ RequestsLive /\ (AllDown \/ \A k \in Job : JobHeld(k))
  BY DEF Hands
<1>w. ASSUME up' = up, RequestsLive', \A k \in Job : JobHeld(k) => JobHeld(k)' PROVE Hands'
  BY <1>h, <1>w DEF Hands, OneUp, AllDown
<1>1. ASSUME NEW s \in Service, NEW j \in Job, NEW x \in Session, NEW r \in BOOLEAN,
             SubmitChecks(s, j, x, r)
      PROVE  Hands'
  <2>1. /\ \A k \in Job \ {j} : sub'[k] = sub[k]
        /\ sub[j].at = "none" /\ sub'[j].at = "checked" /\ sub'[j].service = s
        /\ up[s] # "down" /\ up' = up /\ job' = job /\ work' = work /\ queue' = queue
        /\ deleted' = deleted
    BY <1>1, <1>t DEF SubmitChecks, NoSub
  <2>2. RequestsLive'
    BY <1>h, <2>1 DEF RequestsLive
  <2>3. \A k \in Job : JobHeld(k) => JobHeld(k)'
    BY <2>1 DEF JobHeld, QueuedHeld, RunningHeld, Queued
  <2> QED
    BY <1>w, <2>1, <2>2, <2>3
<1>2. ASSUME NEW j \in Job, RequestStep(j) PROVE Hands'
  <2>1. /\ up' = up /\ work' = work /\ deleted' = deleted
        /\ \A s \in Service, k \in Job : Queued(s, k) => Queued(s, k)'
    <3>1. up' = up /\ work' = work /\ deleted' = deleted
      BY <1>2 DEF RequestStep, SubmitCreates, SubmitEnqueues, StatusBegins, StatusHasNoAnswer,
         StatusPosts, StatusCompletes
    <3>2. queue' = queue \/ \E s \in Service : queue' = [queue EXCEPT ![s] = Append(@, j)]
      BY <1>2, <1>h, <1>t DEF RequestStep, SubmitCreates, SubmitEnqueues, StatusBegins,
         StatusHasNoAnswer, StatusPosts, StatusCompletes, Enqueue, RequestsLive, Does
    <3>3. ASSUME NEW s \in Service, queue' = [queue EXCEPT ![s] = Append(@, j)],
                 NEW t \in Service, NEW k \in Job, Queued(t, k)
          PROVE  Queued(t, k)'
      <4>1. queue[s] \in Seq(Job \cup {None})
        BY <1>t
      <4>2. \A i \in 1..Len(queue[s]) : /\ i \in 1..Len(Append(queue[s], j))
                                        /\ Append(queue[s], j)[i] = queue[s][i]
        BY <4>1
      <4> QED
        BY <1>t, <3>3, <4>2 DEF Queued
    <3> QED
      BY <3>1, <3>2, <3>3 DEF Queued
  <2>2. /\ \A k \in Job \ {j} : sub'[k] = sub[k] /\ job'[k] = job[k]
        /\ sub[j].at \notin {"none", "done"}
        /\ sub'[j].at = "done" \/ sub'[j].service = sub[j].service
    <3>1. ASSUME NEW to, job' = Moved(j, to) PROVE \A k \in Job \ {j} : job'[k] = job[k]
      BY <3>1, <1>t, MovedRows
    <3> QED
      BY <1>2, <1>t, <3>1, RequestMoves DEF RequestStep, SubmitCreates, SubmitEnqueues,
         StatusBegins, StatusHasNoAnswer, StatusPosts, StatusCompletes, Does
  <2>3. RequestsLive'
    BY <1>h, <2>1, <2>2 DEF RequestsLive
  <2>4. ASSUME NEW k \in Job \ {j}, JobHeld(k) PROVE JobHeld(k)'
    BY <2>1, <2>2, <2>4 DEF JobHeld, QueuedHeld, RunningHeld
  <2>5. ASSUME JobHeld(j) PROVE JobHeld(j)'
    <3>1. CASE SubmitCreates(j)
      <4>n. NoJob.status = "unborn"
        BY DEF NoJob
      <4>1. job[j].status = "unborn"
        BY <1>k, <3>1, <4>n DEF SubmitCreates, Does, RequestKnows
      <4>2. CASE sub[j].session \in deleted
        BY <3>1, <4>1, <4>2 DEF SubmitCreates, JobHeld
      <4>3. CASE sub[j].session \notin deleted
        <5>1. job' = [job EXCEPT ![j] = [NoJob EXCEPT !.status = "queued",
                         !.session = sub[j].session, !.status_route = sub[j].status_route]]
          BY <3>1, <4>3 DEF SubmitCreates
        <5>2. job'[j].status = "queued"
          BY <1>t, <5>1 DEF NoJob
        <5>3. sub'[j].at = "created"
          BY <1>t, <3>1, <4>3, RequestMoves DEF SubmitCreates
        <5> QED
          BY <5>2, <5>3 DEF JobHeld, QueuedHeld
      <4> QED
        BY <4>2, <4>3
    <3>2. CASE SubmitEnqueues(j)
      <4>1. job' = job /\ sub[j].at = "created" /\ ~sub[j].status_route
        BY <3>2 DEF SubmitEnqueues, Does
      <4>2. ASSUME job[j].status = "queued" PROVE QueuedHeld(j)'
        <5> DEFINE s == sub[j].service
        <5>1. s \in Service /\ up[s] # "down" /\ queue[s] \in Seq(Job \cup {None})
          BY <1>h, <1>t, <4>1 DEF RequestsLive
        <5>2. Enqueue(s, j)
          BY <3>2, <4>2 DEF SubmitEnqueues, Terminal
        <5>3. CASE Queued(s, j)
          BY <2>1, <5>1, <5>3 DEF QueuedHeld
        <5>4. CASE ~Queued(s, j)
          <6>1. queue'[s] = Append(queue[s], j)
            BY <1>t, <5>1, <5>2, <5>4 DEF Enqueue
          <6>2. Len(queue'[s]) \in 1..Len(queue'[s]) /\ queue'[s][Len(queue'[s])] = j
            BY <5>1, <6>1
          <6> QED
            BY <2>1, <5>1, <6>2 DEF QueuedHeld, Queued
        <5> QED
          BY <5>3, <5>4
      <4> QED
        BY <2>1, <2>5, <4>1, <4>2 DEF JobHeld, RunningHeld
    <3>3. CASE StatusBegins(j)
      <4>1. CASE CanMove(j, "queued", "running")
        <5>1. job'[j].status = "running" /\ sub'[j].at = "answering"
          BY <1>t, <3>3, <4>1, MovedRows, RequestMoves DEF StatusBegins
        <5> QED
          BY <5>1 DEF JobHeld, RunningHeld
      <4>2. CASE ~CanMove(j, "queued", "running")
        <5>1. job' = job /\ sub[j].at = "created"
          BY <3>3, <4>2 DEF StatusBegins, Does
        <5>2. job[j].status # "queued"
          BY <4>2 DEF CanMove, Legal
        <5> QED
          BY <2>1, <2>5, <5>1, <5>2 DEF JobHeld, RunningHeld
      <4> QED
        BY <4>1, <4>2
    <3>4. CASE StatusHasNoAnswer(j) \/ StatusCompletes(j)
      <4>1. sub[j].at \in {"answering", "answered"} /\ job[j].status # "queued"
        BY <1>k, <3>4 DEF StatusHasNoAnswer, StatusCompletes, Does, RequestKnows
      <4>2. job'[j].status # "running" /\ job'[j].status # "queued"
        <5>1. CASE job[j].status = "running"
          <6>1. CanMove(j, "running", "failed") /\ CanMove(j, "running", "completed")
            BY <5>1 DEF CanMove, Legal, Terminal
          <6>2. \/ job' = [job EXCEPT ![j].status = "failed"]
                \/ job' = [job EXCEPT ![j].status = "completed", ![j].output = Request]
            BY <3>4, <6>1 DEF StatusHasNoAnswer, StatusCompletes, Moved
          <6> QED
            BY <1>t, <6>2 DEF JobRow
        <5>2. CASE job[j].status # "running"
          BY <3>4, <4>1, <5>2 DEF StatusHasNoAnswer, StatusCompletes, CanMove
        <5> QED
          BY <5>1, <5>2
      <4> QED
        BY <4>2 DEF JobHeld
    <3>5. CASE StatusPosts(j)
      <4>1. job' = job /\ job[j].status # "queued"
        BY <1>k, <3>5 DEF StatusPosts, Does, RequestKnows
      <4>2. job[j].session \in deleted \/ sub'[j].at = "answered"
        BY <1>t, <3>5, RequestMoves DEF StatusPosts
      <4> QED
        BY <2>1, <4>1, <4>2 DEF JobHeld, RunningHeld
    <3> QED
      BY <1>2, <3>1, <3>2, <3>3, <3>4, <3>5 DEF RequestStep
  <2> QED
    BY <1>w, <2>1, <2>3, <2>4, <2>5
<1>3. ASSUME NEW s \in Service, NEW j \in Job, CancelRequests(s, j) PROVE Hands'
  <2>1. /\ up' = up /\ work' = work /\ deleted' = deleted /\ sub' = sub /\ queue' = queue
        /\ job' = [job EXCEPT ![j].cancel = TRUE,
                              ![j].status = IF @ = "queued" THEN "cancelled" ELSE @]
    BY <1>3 DEF CancelRequests
  <2>2. /\ \A k \in Job \ {j} : job'[k] = job[k]
        /\ job'[j].session = job[j].session
        /\ job'[j].status = (IF job[j].status = "queued" THEN "cancelled" ELSE job[j].status)
    BY <1>t, <2>1 DEF JobRow
  <2>3. RequestsLive'
    BY <1>h, <2>1 DEF RequestsLive
  <2>4. ASSUME NEW k \in Job, JobHeld(k) PROVE JobHeld(k)'
    <3>1. /\ job'[k].session = job[k].session
          /\ job'[k].status \in {"queued", "running"} => job'[k].status = job[k].status
      BY <2>2
    <3>2. (QueuedHeld(k) => QueuedHeld(k)') /\ (RunningHeld(k) => RunningHeld(k)')
      BY <2>1, <3>1 DEF QueuedHeld, RunningHeld, Queued
    <3> QED
      BY <2>4, <3>1, <3>2 DEF JobHeld
  <2> QED
    BY <1>w, <2>1, <2>3, <2>4
<1>4. ASSUME NEW s \in Service, NEW x \in Session,
             CancelSignals(s, x) \/ DeleteChecks(s, x) \/ DeleteCommits(s, x)
      PROVE  Hands'
  <2>1. /\ up' = up /\ job' = job /\ sub' = sub /\ queue' = queue /\ deleted \subseteq deleted'
    BY <1>4 DEF CancelSignals, DeleteChecks, DeleteCommits
  <2>2. \A v \in Worker : work'[v].at = work[v].at /\ work'[v].job = work[v].job
    BY <1>4, <1>t DEF CancelSignals, DeleteChecks, DeleteCommits, WorkRow
  <2>3. RequestsLive'
    BY <1>h, <2>1 DEF RequestsLive
  <2>4. \A k \in Job : JobHeld(k) => JobHeld(k)'
    BY <2>1, <2>2 DEF JobHeld, QueuedHeld, RunningHeld, Queued
  <2> QED
    BY <1>w, <2>1, <2>3, <2>4
<1> QED
  BY <1>1, <1>2, <1>3, <1>4 DEF Requests

\* A start hands every active job to the new process; with the end of the only
\* process that is up, all are down.
LEMMA ProcessesHold == IInv /\ Hands /\ Processes => Hands'
<1> SUFFICES ASSUME IInv, Hands, Processes PROVE Hands'
  OBVIOUS
<1> SUFFICES ASSUME NEW s \in Service,
                    Starts(s) \/ Closes(s) \/ Dies(s) \/ (Binds(s) /\ ~Closes(s)),
                    Dies(s) => up[s] # "down", Closes(s) => up[s] # "down", ~overlapped'
             PROVE  Hands'
  <2>1. ASSUME NEW s \in Service, Starts(s) \/ Binds(s) \/ Stop(s) \/ Exits(s) \/ Crashes(s)
        PROVE  /\ Starts(s) \/ Closes(s) \/ Dies(s) \/ (Binds(s) /\ ~Closes(s))
               /\ Closes(s) => up[s] # "down" \/ Starts(s)
               /\ Dies(s) => up[s] # "down" \/ Starts(s)
    BY <2>1 DEF Binds, Stop, Exits, Crashes
  <2>2. overlapped' => Hands'
    BY DEF Hands
  <2>3. ASSUME NEW s \in Service, Starts(s) PROVE ~Closes(s) /\ ~Dies(s)
    <3>1. up[s] = "down" /\ up' = [up EXCEPT ![s] = "starting"]
      BY <2>3 DEF Starts
    <3>2. up \in [Service -> {"down", "starting", "serving", "closing"}]
      BY DEF IInv, TInv, TypeOK
    <3>3. /\ Closes(s) => up' = [up EXCEPT ![s] = "closing"]
          /\ Dies(s) => up' = [up EXCEPT ![s] = "down"]
      BY DEF Closes, Dies
    <3>4. up'[s] = "starting"
      BY <3>1, <3>2
    <3> QED
      BY <3>2, <3>3, <3>4
  <2> QED
    BY <2>1, <2>2, <2>3 DEF Processes
<1>t. /\ job \in [Job -> JobRow] /\ sub \in [Job -> SubRow]
      /\ queue \in [Service -> Seq(Job \cup {None})]
      /\ up \in [Service -> {"down", "starting", "serving", "closing"}]
  BY DEF IInv, TInv, TypeOK
<1>o. ~overlapped
  BY DEF Starts, Closes, Dies, Binds, historyVars
<1>h. OneUp /\ RequestsLive /\ (AllDown \/ \A k \in Job : JobHeld(k))
  BY <1>o DEF Hands
<1>1. CASE Starts(s)
  <2>1. AllDown /\ up'[s] = "starting" /\ \A t \in Service \ {s} : up'[t] = "down"
    BY <1>1, <1>t DEF Starts, AllDown
  <2>2. \A k \in Job : sub'[k].at \in {"none", "done"}
    BY <1>1, <1>h, <2>1 DEF Starts, requestVars, RequestsLive, AllDown
  <2>3. PICK q \in Orders({k \in Job : job[k].status = "queued"}) :
           queue' = [queue EXCEPT ![s] = q]
    BY <1>1 DEF Starts
  <2>4. ASSUME NEW k \in Job PROVE JobHeld(k)'
    <3>1. /\ job'[k].status # "running"
          /\ job'[k].status = "queued" => job[k].status = "queued"
      BY <1>1, <1>t DEF Starts, Recovered, JobRow
    <3>2. ASSUME job[k].status = "queued" PROVE Queued(s, k)'
      <4> DEFINE S == {i \in Job : job[i].status = "queued"}
      <4>1. Cardinality(S) \in Nat
        BY FS_Subset, FS_CardinalityType, ProductAssumption
      <4>2. q \in [1..Cardinality(S) -> S] /\ \E i \in DOMAIN q : q[i] = k
        BY <3>2 DEF Orders
      <4>3. Len(q) = Cardinality(S)
        BY <4>1, <4>2
      <4> QED
        BY <1>t, <2>3, <4>2, <4>3 DEF Queued
    <3> QED
      BY <2>1, <3>1, <3>2 DEF JobHeld, QueuedHeld
  <2> QED
    BY <2>1, <2>2, <2>4 DEF Hands, OneUp, RequestsLive
<1>2. CASE Closes(s) \/ (Binds(s) /\ ~Closes(s))
  <2>1. /\ job' = job /\ sub' = sub /\ work' = work /\ deleted' = deleted
        /\ \A t \in Service : up'[t] = up[t] \/ (t = s /\ up[t] # "down" /\ up'[t] # "down")
    BY <1>2, <1>t DEF Closes, Binds, requestVars
  <2>2. ASSUME NEW t \in Service, NEW k \in Job, Queued(t, k) PROVE Queued(t, k)'
    <3>1. CASE Closes(s)
      <4> DEFINE nones == [i \in 1..WorkerCount |-> None]
      <4>1. queue[s] \in Seq(Job \cup {None}) /\ nones \in Seq(Job \cup {None})
        BY <1>t, ProductAssumption
      <4>3. queue' = [queue EXCEPT ![s] = queue[s] \o nones]
        BY <3>1 DEF Closes
      <4> HIDE DEF nones
      <4>2. \A i \in 1..Len(queue[s]) : /\ i \in 1..Len(queue[s] \o nones)
                                        /\ (queue[s] \o nones)[i] = queue[s][i]
        BY <4>1
      <4> QED
        BY <1>t, <2>2, <4>2, <4>3 DEF Queued
    <3>2. CASE Binds(s) /\ ~Closes(s)
      BY <2>2, <3>2 DEF Binds, Queued
    <3> QED
      BY <1>2, <3>1, <3>2
  <2>3. OneUp' /\ RequestsLive' /\ (AllDown => AllDown')
    BY <1>h, <2>1 DEF OneUp, RequestsLive, AllDown
  <2>4. \A k \in Job : JobHeld(k) => JobHeld(k)'
    BY <2>1, <2>2 DEF JobHeld, QueuedHeld, RunningHeld
  <2> QED
    BY <1>h, <2>3, <2>4 DEF Hands
<1>3. CASE Dies(s)
  <2>1. AllDown'
    BY <1>3, <1>h, <1>t DEF Dies, AllDown, OneUp
  <2>2. \A k \in Job : sub'[k].at \in {"none", "done"}
    <3>1. DoneSub.at = "done"
      BY DEF DoneSub, NoSub
    <3>2. ASSUME NEW k \in Job, sub[k].at \notin {"none", "done"} PROVE sub[k].service = s
      BY <1>3, <1>h, <3>2 DEF RequestsLive, OneUp
    <3> QED
      BY <1>3, <3>1, <3>2 DEF Dies
  <2> QED
    BY <2>1, <2>2 DEF Hands, OneUp, RequestsLive, AllDown
<1> QED
  BY <1>1, <1>2, <1>3

\* Where active jobs are held, by induction over the steps.
LEMMA HandsAlways == Spec => []Hands
<1>1. Init => Hands
  BY DEF Init, Hands, OneUp, RequestsLive, AllDown, NoSub
<1>2. Hands /\ UNCHANGED vars => Hands'
  BY DEF vars, Hands, OneUp, RequestsLive, AllDown, JobHeld, QueuedHeld, RunningHeld, Queued
<1>3. IInv /\ Hands /\ [Next]_vars => Hands'
  BY <1>2, RequestsHold, WorkersHold, ProcessesHold, NextParts
<1> QED
  BY <1>1, <1>3, InvAlways, PTL DEF Spec

-----------------------------------------------------------------------------
(* Cancels stay in their session. *)

CancelAsked(x) == \E k \in Job : job[k].cancel /\ job[k].session = x
\* A worker is told to stop, and judges its job cancelled, for a cancel that was
\* asked for in its session or because its process is closing.
StopIsAsked(w) ==
    /\ work[w].stopped => work[w].at \in Driving /\ CancelAsked(job[work[w].job].session)
    /\ work[w].at = "judged" /\ work[w].verdict = "cancelled" =>
          CancelAsked(job[work[w].job].session) \/ Closed(w[1])
CancelsAreAsked == /\ \A w \in Worker : StopIsAsked(w)
                   /\ \A c \in cancelling : CancelAsked(c[2])

\* A job keeps its session, and its cancel.
LEMMA CancelsPersist ==
    ASSUME IInv, [Next]_vars, NEW k \in Job, job[k] # NoJob
    PROVE  job'[k].session = job[k].session /\ (job[k].cancel => job'[k].cancel)
<1>t. job \in [Job -> JobRow] /\ job[k] \in JobRow
  BY DEF IInv, TInv, TypeOK
<1>m. ASSUME NEW j \in Job, NEW to, job' = Moved(j, to)
      PROVE  job'[k].session = job[k].session /\ (job[k].cancel => job'[k].cancel)
  BY <1>m, <1>t, MovedRows
<1>o. ASSUME NEW j \in Job, NEW to, NEW out,
             job' = [job EXCEPT ![j].status = to, ![j].output = out]
      PROVE  job'[k].session = job[k].session /\ (job[k].cancel => job'[k].cancel)
  BY <1>o, <1>t DEF JobRow
<1>1. ASSUME NEW w \in Worker, WorkerStep(w)
      PROVE  job'[k].session = job[k].session /\ (job[k].cancel => job'[k].cancel)
  <2>1. work[w].at \notin {"gone", "idle"} => work[w].job \in Job
    BY DEF IInv, TInv, WorkersHoldJobs
  <2>2. \/ job' = job
        \/ work[w].job \in Job /\ \E to : job' = Moved(work[w].job, to)
        \/ /\ work[w].job \in Job
           /\ \E to, out : job' = [job EXCEPT ![work[w].job].status = to,
                                              ![work[w].job].output = out]
    BY <1>1, <2>1 DEF WorkerStep, Takes, Begins, Executes, Raises, Publishes, Completes, Ends,
       Fails, Executing
  <2> QED
    BY <1>m, <1>o, <2>2
<1>2. ASSUME NEW j \in Job, RequestStep(j)
      PROVE  job'[k].session = job[k].session /\ (job[k].cancel => job'[k].cancel)
  <2>1. CASE SubmitCreates(j)
    <3>1. job[j] = NoJob
      BY <2>1 DEF SubmitCreates, Does, IInv, Knowledge, RequestKnows
    <3> QED
      BY <1>t, <2>1, <3>1 DEF SubmitCreates
  <2>2. CASE ~SubmitCreates(j)
    <3>1. \/ job' = job
          \/ \E to : job' = Moved(j, to)
          \/ \E to, out : job' = [job EXCEPT ![j].status = to, ![j].output = out]
      BY <1>2, <2>2 DEF RequestStep, SubmitEnqueues, StatusBegins, StatusHasNoAnswer,
         StatusPosts, StatusCompletes
    <3> QED
      BY <1>m, <1>o, <3>1
  <2> QED
    BY <2>1, <2>2
<1>3. ASSUME NEW s \in Service, NEW j \in Job, CancelRequests(s, j)
      PROVE  job'[k].session = job[k].session /\ (job[k].cancel => job'[k].cancel)
  BY <1>3, <1>t DEF CancelRequests, JobRow
<1>4. ASSUME NEW s \in Service, Starts(s)
      PROVE  job'[k].session = job[k].session /\ (job[k].cancel => job'[k].cancel)
  BY <1>4, <1>t DEF Starts, Recovered, JobRow
<1>5. ASSUME job' = job
      PROVE  job'[k].session = job[k].session /\ (job[k].cancel => job'[k].cancel)
  BY <1>5
<1>6. \/ job' = job
      \/ \E w \in Worker : WorkerStep(w)
      \/ \E j \in Job : RequestStep(j)
      \/ \E s \in Service, j \in Job : CancelRequests(s, j)
      \/ \E s \in Service : Starts(s)
  <2>1. Requests \/ Workers \/ Processes \/ UNCHANGED vars
    BY NextParts
  <2>2. Processes => job' = job \/ \E s \in Service : Starts(s)
    BY DEF Processes, Binds, Stop, Exits, Crashes, Closes, Dies
  <2>3. \/ Requests => job' = job
        \/ \E j \in Job : RequestStep(j)
        \/ \E s \in Service, j \in Job : CancelRequests(s, j)
    BY DEF Requests, SubmitChecks, CancelSignals, DeleteChecks, DeleteCommits
  <2> QED
    BY <2>1, <2>2, <2>3 DEF Workers, vars
<1> QED
  BY <1>1, <1>2, <1>3, <1>4, <1>5, <1>6

\* Every step keeps the reasons of the cancels.
LEMMA NextAsked == IInv /\ CancelsAreAsked /\ [Next]_vars => CancelsAreAsked'
<1> SUFFICES ASSUME IInv, CancelsAreAsked, [Next]_vars PROVE CancelsAreAsked'
  OBVIOUS
<1>t. /\ job \in [Job -> JobRow] /\ work \in [Worker -> WorkRow]
      /\ up \in [Service -> {"down", "starting", "serving", "closing"}]
      /\ cancelling \subseteq Service \X Session
  BY DEF IInv, TInv, TypeOK
<1>a. ASSUME NEW x, CancelAsked(x) PROVE CancelAsked(x)'
  <2>1. PICK k \in Job : job[k].cancel /\ job[k].session = x
    BY <1>a DEF CancelAsked
  <2>2. job[k] # NoJob
    BY <2>1 DEF NoJob
  <2> QED
    BY <2>1, <2>2, CancelsPersist DEF CancelAsked
<1>j. ASSUME NEW w \in Worker, work[w].at \in Driving
      PROVE  /\ work[w].job \in Job
             /\ job'[work[w].job].session = job[work[w].job].session
  <2>1. work[w].job \in Job /\ job[work[w].job].status # "unborn"
    BY <1>j DEF IInv, TInv, WorkersHoldJobs, Knowledge, WorkerKnows, Driving
  <2>2. job[work[w].job] # NoJob
    BY <2>1 DEF NoJob
  <2> QED
    BY <2>1, <2>2, CancelsPersist
<1>k. ASSUME NEW w \in Worker, Closed(w[1])' \/ ~Closed(w[1]),
             \/ work'[w] = work[w]
             \/ /\ work[w].at \in Driving /\ work'[w].at \in Driving
                /\ work'[w].job = work[w].job /\ work'[w].stopped = work[w].stopped
                /\ work'[w].at # "judged"
      PROVE  StopIsAsked(w)'
  BY <1>a, <1>j, <1>k DEF CancelsAreAsked, StopIsAsked, Driving
<1>g. ASSUME NEW w \in Worker, work'[w].at \notin Driving, ~work'[w].stopped
      PROVE  StopIsAsked(w)'
  BY <1>g DEF StopIsAsked, Driving
<1>i. /\ Idle.at = "idle" /\ ~Idle.stopped /\ Gone.at = "gone" /\ ~Gone.stopped
      /\ "idle" \notin Driving /\ "gone" \notin Driving /\ "taken" \notin Driving
  BY DEF Idle, Gone, Driving
<1>1. ASSUME NEW w \in Worker, WorkerStep(w) PROVE CancelsAreAsked'
  <2>1. up' = up /\ cancelling' = cancelling
    BY <1>1 DEF WorkerStep, Takes, Begins, Executes, Raises, Publishes, Completes, Ends, Fails,
       requestVars
  <2>2. \A v \in Worker \ {w} : work'[v] = work[v]
    BY <1>1, <1>t DEF WorkerStep, Takes, Begins, Executes, Raises, Publishes, Completes, Ends,
       Fails, Steps, Judges, Loops
  <2>3. Loops(w) => StopIsAsked(w)'
    BY <1>g, <1>i, <1>t, WorkerMoves
  <2>4. ASSUME NEW at \in Driving \ {"judged"}, Steps(w, at), work[w].at \in Driving
        PROVE  StopIsAsked(w)'
    <3>1. work'[w].at = at /\ work'[w].job = work[w].job /\ work'[w].stopped = work[w].stopped
      BY <1>t, <2>4, WorkerMoves DEF Driving
    <3> QED
      BY <1>k, <2>1, <2>4, <3>1 DEF Closed
  <2>5. ASSUME Takes(w) PROVE StopIsAsked(w)'
    <3> DEFINE q == queue[w[1]]
    <3>1. \/ work' = [work EXCEPT ![w] = Gone]
          \/ work' = [work EXCEPT ![w] = Idle]
          \/ work' = [work EXCEPT ![w] = [Idle EXCEPT !.at = "taken", !.job = Head(q)]]
      BY <2>5 DEF Takes
    <3>2. LET row == [Idle EXCEPT !.at = "taken", !.job = Head(q)]
          IN  row.at = "taken" /\ ~row.stopped
      BY DEF Idle
    <3>3. work'[w].at \notin Driving /\ ~work'[w].stopped
      BY <1>i, <1>t, <3>1, <3>2
    <3> QED
      BY <1>g, <3>3
  <2>6. ASSUME Begins(w) PROVE StopIsAsked(w)'
    <3>1. ~work[w].stopped /\ work[w].at = "taken"
      BY <1>i, <2>6 DEF Begins, CancelsAreAsked, StopIsAsked
    <3>2. ASSUME Judges(w, "failed") \/ Steps(w, "executing")
          PROVE  /\ ~work'[w].stopped
                 /\ work'[w].at = "judged" => work'[w].verdict = "failed"
      BY <1>t, <3>1, <3>2, WorkerMoves DEF Terminal
    <3>3. Loops(w) \/ Judges(w, "failed") \/ Steps(w, "executing")
      BY <2>6 DEF Begins
    <3> QED
      BY <2>3, <3>2, <3>3 DEF StopIsAsked
  <2>7. ASSUME Executes(w) PROVE StopIsAsked(w)'
    <3>1. work[w].at = "executing" /\ work[w].at \in Driving
      BY <2>7 DEF Executes, Executing, Driving
    <3>2. PICK result \in Result(w) :
            work' = [work EXCEPT ![w].at =
                                  IF Verdict(w, result) = "completed" THEN "publishes" ELSE "judged",
                                 ![w].verdict = Verdict(w, result)]
      BY <2>7 DEF Executes
    <3>3. /\ work'[w].at \in Driving /\ work'[w].job = work[w].job
          /\ work'[w].stopped = work[w].stopped /\ work'[w].verdict = Verdict(w, result)
      BY <1>t, <3>2 DEF WorkRow, Driving
    <3>4. Verdict(w, result) = "cancelled" => ToldToStop(w)
      BY DEF Verdict, Result, ToldToStop
    <3>5. job[work[w].job].cancel => CancelAsked(job[work[w].job].session)
      BY <1>j, <3>1 DEF CancelAsked
    <3>6. ToldToStop(w) => CancelAsked(job[work[w].job].session) \/ Closed(w[1])
      BY <3>5 DEF ToldToStop, CancelsAreAsked, StopIsAsked
    <3>7. work[w].stopped => CancelAsked(job[work[w].job].session)
      BY DEF CancelsAreAsked, StopIsAsked
    <3>8. Closed(w[1])' <=> Closed(w[1])
      BY <2>1 DEF Closed
    <3> QED
      BY <1>a, <1>j, <3>1, <3>3, <3>4, <3>6, <3>7, <3>8 DEF StopIsAsked
  <2>8. ASSUME Raises(w) \/ Publishes(w) \/ Completes(w) \/ Ends(w) \/ Fails(w)
        PROVE  StopIsAsked(w)'
    <3>1. /\ work[w].at \in Driving
          /\ Loops(w) \/ Steps(w, "posted") \/ Steps(w, "fails")
      BY <2>8 DEF Raises, Publishes, Completes, Ends, Fails, Executing, Driving
    <3> QED
      BY <2>3, <2>4, <3>1 DEF Driving
  <2>9. StopIsAsked(w)'
    BY <1>1, <2>5, <2>6, <2>7, <2>8 DEF WorkerStep
  <2>10. ASSUME NEW v \in Worker \ {w} PROVE StopIsAsked(v)'
    BY <1>k, <2>1, <2>2 DEF Closed
  <2> QED
    BY <1>a, <2>1, <2>9, <2>10 DEF CancelsAreAsked
<1>2. ASSUME Requests PROVE CancelsAreAsked'
  <2>1. up' = up
    BY <1>2 DEF Requests, RequestStep, SubmitChecks, SubmitCreates, SubmitEnqueues, StatusBegins,
       StatusHasNoAnswer, StatusPosts, StatusCompletes, CancelRequests, CancelSignals,
       DeleteChecks, DeleteCommits
  <2>2. CASE \E s \in Service, x \in Session : CancelSignals(s, x)
    <3>1. PICK s \in Service, x \in Session : CancelSignals(s, x)
      BY <2>2
    <3>2. CancelAsked(x)
      BY <3>1 DEF CancelSignals, CancelsAreAsked
    <3>3. ASSUME NEW w \in Worker, Stops(w, s, x) PROVE StopIsAsked(w)'
      <4>1. work[w].at = "executing" /\ work[w].at \in Driving
        BY <3>3 DEF Stops, Executing, Driving
      <4>2. work'[w].at = "executing" /\ work'[w].job = work[w].job
        BY <1>t, <3>1, <3>3, <4>1 DEF CancelSignals, WorkRow
      <4>3. job[work[w].job].session = x
        BY <3>3 DEF Stops
      <4> QED
        BY <1>a, <1>j, <3>2, <4>1, <4>2, <4>3 DEF StopIsAsked
    <3>4. ASSUME NEW w \in Worker, ~Stops(w, s, x) PROVE StopIsAsked(w)'
      <4>1. work'[w] = work[w]
        BY <3>1, <3>4 DEF CancelSignals
      <4> QED
        BY <1>k, <2>1, <4>1 DEF Closed
    <3> QED
      BY <1>a, <3>1, <3>3, <3>4 DEF CancelSignals, CancelsAreAsked
  <2>3. CASE ~ \E s \in Service, x \in Session : CancelSignals(s, x)
    <3>1. work' = work
      BY <1>2, <2>3 DEF Requests, RequestStep, SubmitChecks, SubmitCreates, SubmitEnqueues,
         StatusBegins, StatusHasNoAnswer, StatusPosts, StatusCompletes, CancelRequests,
         DeleteChecks, DeleteCommits
    <3>2. \A w \in Worker : StopIsAsked(w)'
      BY <1>k, <2>1, <3>1 DEF Closed
    <3>3. CASE cancelling' = cancelling
      BY <1>a, <3>2, <3>3 DEF CancelsAreAsked
    <3>4. CASE cancelling' # cancelling
      <4>1. PICK s \in Service, j \in Job : CancelRequests(s, j)
        BY <1>2, <2>3, <3>4 DEF Requests, RequestStep, SubmitChecks, SubmitCreates,
           SubmitEnqueues, StatusBegins, StatusHasNoAnswer, StatusPosts, StatusCompletes,
           DeleteChecks, DeleteCommits
      <4>2. job'[j].cancel /\ job'[j].session = job[j].session
        BY <1>t, <4>1 DEF CancelRequests, JobRow
      <4>3. CancelAsked(job[j].session)'
        BY <4>2 DEF CancelAsked
      <4>4. cancelling' \subseteq cancelling \cup {<<s, job[j].session>>}
        BY <4>1 DEF CancelRequests
      <4> QED
        BY <1>a, <3>2, <4>2, <4>3, <4>4 DEF CancelsAreAsked
    <3> QED
      BY <3>3, <3>4
  <2> QED
    BY <2>2, <2>3
<1>3. ASSUME Processes PROVE CancelsAreAsked'
  <2>1. cancelling' \subseteq cancelling
    BY <1>3 DEF Processes, Starts, Binds, Stop, Exits, Crashes, Closes, Dies, requestVars
  <2>2. ASSUME NEW w \in Worker PROVE StopIsAsked(w)'
    <3>1. CASE work'[w] \in {Idle, Gone}
      BY <1>g, <1>i, <3>1
    <3>2. CASE work'[w] \notin {Idle, Gone}
      <4>1. PICK s \in Service : Starts(s) \/ Binds(s) \/ Closes(s) \/ Dies(s)
        BY <1>3 DEF Processes, Stop, Exits, Crashes
      <4>2. work'[w] = work[w] /\ (Starts(s) => w[1] # s)
        BY <1>t, <3>2, <4>1 DEF Starts, Binds, Closes, Dies
      <4>3. Closed(w[1])' \/ ~Closed(w[1])
        <5>1. w[1] \in Service
          BY DEF Worker
        <5> QED
          BY <1>t, <4>1, <4>2, <5>1 DEF Closed, Starts, Binds, Closes, Dies
      <4> QED
        BY <1>k, <4>2, <4>3
    <3> QED
      BY <3>1, <3>2
  <2> QED
    BY <1>a, <2>1, <2>2 DEF CancelsAreAsked
<1>4. ASSUME UNCHANGED vars PROVE CancelsAreAsked'
  BY <1>4 DEF vars, CancelsAreAsked, StopIsAsked, CancelAsked, Closed
<1> QED
  BY <1>1, <1>2, <1>3, <1>4, NextParts DEF Workers

\* The reasons are there in every state.
LEMMA AskedAlways == Spec => []CancelsAreAsked
<1>1. Init => CancelsAreAsked
  BY DEF Init, CancelsAreAsked, StopIsAsked, Gone, Idle
<1> QED
  BY <1>1, NextAsked, InvAlways, PTL DEF Spec

\* A step that ends a job as cancelled has its reason.
LEMMA CancelledForAReason ==
    ASSUME IInv, CancelsAreAsked, [Next]_vars, NEW j \in Job,
           job[j].status # "cancelled", job'[j].status = "cancelled"
    PROVE  \/ \E k \in Job : job'[k].cancel /\ job[k].session = job[j].session
           \/ \E s \in Service : Closed(s)
<1>t. job \in [Job -> JobRow]
  BY DEF IInv, TInv, TypeOK
<1>a. ASSUME CancelAsked(job[j].session)
      PROVE  \E k \in Job : job'[k].cancel /\ job[k].session = job[j].session
  <2>1. PICK k \in Job : job[k].cancel /\ job[k].session = job[j].session
    BY <1>a DEF CancelAsked
  <2>2. job[k] # NoJob
    BY <2>1 DEF NoJob
  <2> QED
    BY <2>1, <2>2, CancelsPersist
<1>1. ASSUME NEW w \in Worker, WorkerStep(w)
      PROVE  \/ \E k \in Job : job'[k].cancel /\ job[k].session = job[j].session
             \/ \E s \in Service : Closed(s)
  <2> DEFINE i == work[w].job
  <2>1. work[w].at \notin {"gone", "idle"} => i \in Job
    BY DEF IInv, TInv, WorkersHoldJobs
  <2>2. /\ j = i
        /\ \/ Ends(w) /\ work[w].verdict = "cancelled"
           \/ Fails(w) /\ job[i].cancel
    <3>1. ASSUME NEW to, i \in Job, job' = Moved(i, to) PROVE j = i /\ to = "cancelled"
      BY <1>t, <3>1, MovedRows
    <3>2. ASSUME i \in Job,
                 job' = [job EXCEPT ![i].status = "completed", ![i].output = w]
          PROVE  FALSE
      BY <1>t, <3>2 DEF JobRow
    <3>3. \/ job' = job
          \/ /\ i \in Job
             /\ \/ job' = Moved(i, "running")
                \/ Ends(w) /\ job' = Moved(i, work[w].verdict)
                \/ Fails(w) /\ job[i].cancel
                \/ Fails(w) /\ job' = Moved(i, "failed")
                \/ job' = [job EXCEPT ![i].status = "completed", ![i].output = w]
      BY <1>1, <2>1 DEF WorkerStep, Takes, Begins, Executes, Raises, Publishes, Completes, Ends,
         Fails
    <3>4. i \in Job
      BY <3>3
    <3>5. ASSUME Fails(w) PROVE job' = job \/ \E to : job' = Moved(i, to)
      BY <3>5 DEF Fails
    <3>6. job' # job
      OBVIOUS
    <3>7. CASE Fails(w) /\ job[i].cancel
      BY <3>1, <3>4, <3>5, <3>6, <3>7
    <3>8. CASE Ends(w) /\ job' = Moved(i, work[w].verdict)
      BY <3>1, <3>4, <3>8
    <3>9. ~(job' = Moved(i, "running")) /\ ~(job' = Moved(i, "failed"))
      BY <3>1, <3>4
    <3> QED
      BY <3>2, <3>3, <3>4, <3>6, <3>7, <3>8, <3>9
  <2>3. CASE Ends(w) /\ work[w].verdict = "cancelled"
    <3>1. CancelAsked(job[i].session) \/ Closed(w[1])
      BY <2>3 DEF Ends, CancelsAreAsked, StopIsAsked
    <3>2. w[1] \in Service
      BY DEF Worker
    <3> QED
      BY <1>a, <2>2, <3>1, <3>2
  <2>4. CASE Fails(w) /\ job[i].cancel
    BY <1>a, <2>2, <2>4 DEF CancelAsked
  <2> QED
    BY <2>2, <2>3, <2>4
<1>2. ASSUME NEW s \in Service, NEW k \in Job, CancelRequests(s, k)
      PROVE  \E i \in Job : job'[i].cancel /\ job[i].session = job[j].session
  BY <1>2, <1>t DEF CancelRequests, JobRow
<1>3. ASSUME ~ \E w \in Worker : WorkerStep(w),
             ~ \E s \in Service, k \in Job : CancelRequests(s, k)
      PROVE  FALSE
  <2>1. ASSUME NEW k \in Job, RequestStep(k) PROVE FALSE
    <3>1. ASSUME NEW to \in {"running", "failed"}, job' = Moved(k, to) PROVE FALSE
      BY <1>t, <3>1, MovedRows
    <3>2. ASSUME job' = [job EXCEPT ![k].status = "completed", ![k].output = Request]
          PROVE  FALSE
      BY <1>t, <3>2 DEF JobRow
    <3>3. CASE SubmitCreates(k)
      BY <1>t, <3>3 DEF SubmitCreates, NoJob
    <3> QED
      BY <2>1, <3>1, <3>2, <3>3 DEF RequestStep, SubmitEnqueues, StatusBegins,
         StatusHasNoAnswer, StatusPosts, StatusCompletes
  <2>2. Requests => job' = job \/ \E k \in Job : RequestStep(k)
    BY <1>3 DEF Requests, SubmitChecks, CancelSignals, DeleteChecks, DeleteCommits
  <2>3. ASSUME Processes PROVE FALSE
    <3>1. job' = job \/ job' = Recovered
      BY <2>3 DEF Processes, Starts, Binds, Stop, Exits, Crashes, Closes, Dies
    <3> QED
      BY <1>t, <3>1 DEF Recovered, JobRow
  <2> QED
    BY <1>3, <2>1, <2>2, <2>3, NextParts DEF Workers, vars
<1> QED
  BY <1>1, <1>2, <1>3

-----------------------------------------------------------------------------
(* The theorems. *)

\* The tables of the service, its queues and its threads keep their types over
\* every start, end and second process.
THEOREM TypeCorrect == Spec => []TypeOK
BY InvAlways, PTL DEF IInv, TInv

\* No job is executed or published by two threads, for any number of processes
\* on one database: each takes a job out of "queued" by a compare-and-set.
THEOREM JobsHaveOneDriver == Spec => []OneDriver
BY InvAlways, PTL DEF IInv

\* A completed job has its answer on record, and no other job has an output.
THEOREM CompletionsAreAnswered == Spec => []CompletedIsAnswered
<1>1. IInv => CompletedIsAnswered
  BY DEF IInv, Knowledge, JobKeeps, CompletedIsAnswered
<1> QED
  BY <1>1, InvAlways, PTL

\* A cancel recorded before the verdict on the job's result is never overridden.
THEOREM CancelsHold == Spec => []CancelHolds
<1>1. IInv => CancelHolds
  BY DEF IInv, Knowledge, JobKeeps, CancelHolds
<1> QED
  BY <1>1, InvAlways, PTL

\* A shown answer stays shown until its session is deleted, over restarts, late
\* cancels and second processes.
THEOREM AnswersStayShown == Spec => ShownStays
<1>1. IInv /\ [Next]_vars =>
         [\A m \in Shown : m \in Shown' \/ job[m[1]].session \in deleted']_vars
  <2> SUFFICES ASSUME IInv, [Next]_vars, NEW m \in Shown, job[m[1]].session \notin deleted'
               PROVE  m \in Shown'
    OBVIOUS
  <2>1. m \in answers /\ m[1] \in Job
    BY DEF Shown, IInv, TInv, TypeOK
  <2>2. job'[m[1]] = job[m[1]] /\ m \in answers'
    BY <2>1, CompletedJobsStand DEF Shown
  <2> QED
    BY <2>2 DEF Shown
<1> QED
  BY <1>1, InvAlways, PTL DEF Spec, ShownStays

\* While some process is serving or starting, every active job is in its hands,
\* through any number of crashes and restarts, unless two processes overlapped or
\* the job's session was deleted under it.
THEOREM ActiveJobsAreHeld == Spec => []ActiveIsHeld
<1>1. TInv /\ Hands => ActiveIsHeld
  <2> SUFFICES ASSUME TInv, Hands, ~overlapped, NEW s \in Service, ~Closed(s),
                      NEW j \in Job, job[j].status \in Active
               PROVE  Held(j) \/ job[j].session \in deleted
    BY DEF ActiveIsHeld
  <2>1. JobHeld(j)
    BY DEF Hands, AllDown, Closed
  <2>2. job[j].status = "queued" \/ job[j].status = "running"
    BY DEF Active
  <2> QED
    BY <2>1, <2>2 DEF JobHeld, QueuedHeld, RunningHeld, Held
<1>2. IInv => TInv
  BY DEF IInv
<1> QED
  BY <1>1, <1>2, InvAlways, HandsAlways, PTL

\* No cancel reaches a job of another session while no process is closed: not by
\* the flag, not by the executor's stop, not by the error handler.
THEOREM CancelsKeepToTheirSession == Spec => CancelsStayInSession
<1>1. IInv /\ CancelsAreAsked /\ [Next]_vars =>
         [\A j \in Job : job[j].status # "cancelled" /\ job'[j].status = "cancelled"
             => \/ \E k \in Job : job'[k].cancel /\ job[k].session = job[j].session
                \/ \E s \in Service : Closed(s)]_vars
  BY CancelledForAReason
<1> QED
  BY <1>1, InvAlways, AskedAlways, PTL DEF Spec, CancelsStayInSession
=============================================================================
