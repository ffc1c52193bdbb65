----------------------------- MODULE ProductJobs -----------------------------
(***************************************************************************)
(* sovereign_product/server.py and store.py: the SOVEREIGN product service *)
(* runs one job per message.  A request thread checks that the session has *)
(* no active job, writes the job and queues it (a STATUS job it answers    *)
(* itself); worker threads take queued jobs, execute them and publish the  *)
(* answer in several transactions; other requests cancel jobs and delete   *)
(* sessions meanwhile.  The database outlives the process: a start turns   *)
(* the running jobs it finds into interrupted ones and queues the rest.    *)
(*                                                                         *)
(* Every transaction (BEGIN IMMEDIATE) is one step; a progress row goes    *)
(* with the transaction beside it.  A second process may be started over a *)
(* running one: it recovers and takes jobs before it finds the port taken. *)
(* "failed" stands for every end without an answer but cancelled and       *)
(* interrupted.  Errors of SQLite and of the disk are left out.            *)
(***************************************************************************)
EXTENDS Naturals, Sequences, FiniteSets

CONSTANTS
    Service,          \* the processes that may run the service
    Session,          \* the sessions, all created beforehand
    Job,              \* the submissions, and the job each one creates
    WorkerCount,      \* worker threads per process
    MaxStarts         \* bound: how often a process starts

None == "none"
ASSUME ProductAssumption ==
    /\ None \notin Service /\ None \notin Session /\ None \notin Job
    /\ IsFiniteSet(Job) /\ WorkerCount \in Nat /\ MaxStarts \in Nat

Worker == Service \X (1..WorkerCount)
Request == <<None, 0>>                 \* the thread that answers a STATUS job
NoOutput == <<>>

VARIABLES
    job, answers, deleted,      \* the database: jobs, their answers, sessions
    up, queue, work,            \* per process: its state, queue and workers
    sub, deleting, cancelling,  \* requests under way
    starts, overlapped, lateCancel  \* history: starts, two at once, late flags

vars == <<job, answers, deleted, up, queue, work, sub, deleting, cancelling,
          starts, overlapped, lateCancel>>

Terminal == {"completed", "failed", "cancelled", "interrupted"}
Active == {"queued", "running"}
Legal == [unborn |-> {"queued"},
          queued |-> {"running", "cancelled", "failed", "interrupted"},
          running |-> Terminal,
          interrupted |-> {"queued"}, failed |-> {"queued"},
          completed |-> {}, cancelled |-> {}]

NoJob == [status |-> "unborn", session |-> None, status_route |-> FALSE,
          cancel |-> FALSE, output |-> NoOutput]
Idle == [at |-> "idle", job |-> None, verdict |-> None, stopped |-> FALSE]
Gone == [Idle EXCEPT !.at = "gone"]
NoSub == [at |-> "none", service |-> None, session |-> None, status_route |-> FALSE]
DoneSub == [NoSub EXCEPT !.at = "done"]

Init ==
    /\ job = [j \in Job |-> NoJob] /\ answers = {} /\ deleted = {}
    /\ up = [s \in Service |-> "down"]
    /\ queue = [s \in Service |-> <<>>]
    /\ work = [w \in Worker |-> Gone]
    /\ sub = [j \in Job |-> NoSub]
    /\ deleting = {} /\ cancelling = {}
    /\ starts = 0 /\ overlapped = FALSE /\ lateCancel = {}

ActiveIn(x) == {j \in Job : job[j].session = x /\ job[j].status \in Active}
Closed(s) == up[s] \in {"closing", "down"}
Executing(w) == work[w].at = "executing"
\* Its worker has judged j's result and goes on to publish it.
Judged(j) == \E w \in Worker : work[w].job = j /\ work[w].at \in {"publishes", "posted"}

\* transition_job(j, to, expected_status=from): one compare-and-set.
CanMove(j, from, to) == job[j].status = from /\ to \in Legal[from]
Moved(j, to) == [job EXCEPT ![j].status = to]

Queued(s, j) == \E i \in 1..Len(queue[s]) : queue[s][i] = j
Enqueue(s, j) ==
    queue' = IF Queued(s, j) THEN queue ELSE [queue EXCEPT ![s] = Append(@, j)]

historyVars == <<starts, overlapped, lateCancel>>
requestVars == <<sub, deleting, cancelling>>

-----------------------------------------------------------------------------
(* The request threads. *)

\* submit: the session is there and has no active job.
SubmitChecks(s, j, x, r) ==
    /\ up[s] = "serving" /\ sub[j] = NoSub
    /\ x \notin deleted /\ ActiveIn(x) = {}
    /\ sub' = [sub EXCEPT ![j] = [at |-> "checked", service |-> s, session |-> x,
                                  status_route |-> r]]
    /\ UNCHANGED <<job, answers, deleted, up, queue, work, deleting, cancelling, historyVars>>

Does(j, at) == sub[j].at = at
Goes(j, at) == sub' = [sub EXCEPT ![j].at = at]
SubmitEnds(j) == sub' = [sub EXCEPT ![j] = DoneSub]

\* The user's message and the job; both writes refuse a deleted session.
SubmitCreates(j) ==
    /\ Does(j, "checked")
    /\ IF sub[j].session \in deleted
       THEN SubmitEnds(j) /\ UNCHANGED job
       ELSE /\ job' = [job EXCEPT ![j] = [NoJob EXCEPT !.status = "queued",
                            !.session = sub[j].session, !.status_route = sub[j].status_route]]
            /\ Goes(j, "created")
    /\ UNCHANGED <<answers, deleted, up, queue, work, deleting, cancelling, historyVars>>

\* The progress row is refused when the job has ended already.
SubmitEnqueues(j) ==
    /\ Does(j, "created") /\ ~sub[j].status_route
    /\ IF job[j].status \in Terminal THEN UNCHANGED queue
                                     ELSE Enqueue(sub[j].service, j)
    /\ SubmitEnds(j)
    /\ UNCHANGED <<job, answers, deleted, up, work, deleting, cancelling, historyVars>>

\* _run_status_job, whose errors end the request and nothing else.
StatusBegins(j) ==
    /\ Does(j, "created") /\ sub[j].status_route
    /\ IF CanMove(j, "queued", "running")
       THEN Goes(j, "answering") /\ job' = Moved(j, "running")
       ELSE SubmitEnds(j) /\ UNCHANGED job
    /\ UNCHANGED <<answers, deleted, up, queue, work, deleting, cancelling, historyVars>>

StatusHasNoAnswer(j) ==
    /\ Does(j, "answering") /\ SubmitEnds(j)
    /\ job' = IF CanMove(j, "running", "failed") THEN Moved(j, "failed") ELSE job
    /\ UNCHANGED <<answers, deleted, up, queue, work, deleting, cancelling, historyVars>>

StatusPosts(j) ==
    /\ Does(j, "answering")
    /\ IF job[j].session \in deleted
       THEN SubmitEnds(j) /\ UNCHANGED answers
       ELSE Goes(j, "answered") /\ answers' = answers \cup {<<j, Request>>}
    /\ UNCHANGED <<job, deleted, up, queue, work, deleting, cancelling, historyVars>>

StatusCompletes(j) ==
    /\ Does(j, "answered") /\ SubmitEnds(j)
    /\ job' = IF CanMove(j, "running", "completed")
              THEN [job EXCEPT ![j].status = "completed", ![j].output = Request]
              ELSE job
    /\ UNCHANGED <<answers, deleted, up, queue, work, deleting, cancelling, historyVars>>

\* cancel_job: request_cancel, then the job's executor is looked up ...
CancelRequests(s, j) ==
    /\ up[s] = "serving" /\ job[j].status \in Active /\ ~job[j].cancel
    /\ job' = [job EXCEPT ![j].cancel = TRUE,
                          ![j].status = IF @ = "queued" THEN "cancelled" ELSE @]
    /\ cancelling' = IF \E w \in Worker : w[1] = s /\ work[w].job = j
                     THEN cancelling \cup {<<s, job[j].session>>} ELSE cancelling
    /\ lateCancel' = IF Judged(j) THEN lateCancel \cup {j} ELSE lateCancel
    /\ UNCHANGED <<answers, deleted, up, queue, work, sub, deleting, starts, overlapped>>

\* ... and told to stop whatever it is executing for the session by now.
\* Mutant: the executor's cancel does not look at the session.
StopsAny(w, s, x) == Executing(w) /\ w[1] = s
Stops(w, s, x) == Executing(w) /\ w[1] = s /\ job[work[w].job].session = x
CancelSignals(s, x) ==
    /\ <<s, x>> \in cancelling /\ cancelling' = cancelling \ {<<s, x>>}
    /\ work' = [w \in Worker |-> IF Stops(w, s, x) THEN [work[w] EXCEPT !.stopped = TRUE]
                                                   ELSE work[w]]
    /\ UNCHANGED <<job, answers, deleted, up, queue, sub, deleting, historyVars>>

\* DELETE /v1/sessions/x: no active job, and then the session is marked.
DeleteChecks(s, x) ==
    /\ up[s] = "serving" /\ x \notin deleted /\ ActiveIn(x) = {}
    /\ deleting' = deleting \cup {<<s, x>>}
    /\ UNCHANGED <<job, answers, deleted, up, queue, work, sub, cancelling, historyVars>>

DeleteCommits(s, x) ==
    /\ <<s, x>> \in deleting /\ deleting' = deleting \ {<<s, x>>}
    /\ deleted' = deleted \cup {x}
    /\ UNCHANGED <<job, answers, up, queue, work, sub, cancelling, historyVars>>

-----------------------------------------------------------------------------
(* The worker threads. *)

Steps(w, at) == work' = [work EXCEPT ![w].at = at]
\* The job is put down; the loop goes on until the service is closed.
Loops(w) == work' = [work EXCEPT ![w] = IF Closed(w[1]) THEN Gone ELSE Idle]
Judges(w, verdict) == work' = [work EXCEPT ![w].at = "judged", ![w].verdict = verdict]

\* A queued entry is taken; a job that is not queued any more is skipped.
Takes(w) ==
    LET q == queue[w[1]] IN
    /\ work[w].at = "idle" /\ q # <<>>
    /\ queue' = [queue EXCEPT ![w[1]] = Tail(@)]
    /\ work' = [work EXCEPT ![w] =
          CASE Head(q) = None -> Gone
            [] Head(q) # None /\ job[Head(q)].status = "queued" ->
                 [Idle EXCEPT !.at = "taken", !.job = Head(q)]
            [] OTHER -> IF Closed(w[1]) THEN Gone ELSE Idle]
    /\ UNCHANGED <<job, answers, deleted, up, requestVars, historyVars>>

\* An executor that serves all jobs of its engine refuses a second execution in
\* a session; one that is made for the job knows of no other.
Busy(w, x) == \E v \in Worker \ {w} : Stops(v, w[1], x)
\* Mutant: without the expected status a running job "moves" to running.
BeginsRunning(w) ==
    LET j == work[w].job IN
    /\ work[w].at = "taken"
    /\ IF job[j].status \in Active
       THEN job' = Moved(j, "running") /\ Steps(w, "executing")
       ELSE Loops(w) /\ UNCHANGED job
    /\ UNCHANGED <<answers, deleted, up, queue, requestVars, historyVars>>
Begins(w) ==
    LET j == work[w].job IN
    /\ work[w].at = "taken"
    /\ IF CanMove(j, "queued", "running")
       THEN /\ job' = Moved(j, "running")
            /\ Steps(w, "executing") \/ (Busy(w, job[j].session) /\ Judges(w, "failed"))
       ELSE Loops(w) /\ UNCHANGED job
    /\ UNCHANGED <<answers, deleted, up, queue, requestVars, historyVars>>

\* What the executor polls between its model calls.
ToldToStop(w) == work[w].stopped \/ Closed(w[1]) \/ job[work[w].job].cancel

\* The executor returns; a flag that is up by now decides, whatever it says.
Result(w) == {"completed", "failed", "interrupted"}
             \cup (IF ToldToStop(w) THEN {"cancelled"} ELSE {})
\* Mutant: the flag is not read; the executor's own words are stored.
VerdictOfEngine(w, result) == result
Verdict(w, result) == IF job[work[w].job].cancel THEN "cancelled" ELSE result
Executes(w) ==
    /\ Executing(w)
    /\ \E result \in Result(w) :
          work' = [work EXCEPT ![w].at =
                                  IF Verdict(w, result) = "completed" THEN "publishes" ELSE "judged",
                               ![w].verdict = Verdict(w, result)]
    /\ UNCHANGED <<job, answers, deleted, up, queue, requestVars, historyVars>>

Raises(w) ==
    /\ Executing(w) /\ Steps(w, "fails")
    /\ UNCHANGED <<job, answers, deleted, up, queue, requestVars, historyVars>>

\* Mutant: a refused answer is passed over.
PublishesIfThere(w) ==
    /\ work[w].at = "publishes" /\ Steps(w, "posted")
    /\ answers' = IF job[work[w].job].session \in deleted THEN answers
                  ELSE answers \cup {<<work[w].job, w>>}
    /\ UNCHANGED <<job, deleted, up, queue, requestVars, historyVars>>
Publishes(w) ==
    LET j == work[w].job IN
    /\ work[w].at = "publishes"
    /\ IF job[j].session \in deleted
       THEN Steps(w, "fails") /\ UNCHANGED answers
       ELSE Steps(w, "posted") /\ answers' = answers \cup {<<j, w>>}
    /\ UNCHANGED <<job, deleted, up, queue, requestVars, historyVars>>

Completes(w) ==
    LET j == work[w].job IN
    /\ work[w].at = "posted"
    /\ IF CanMove(j, "running", "completed")
       THEN /\ job' = [job EXCEPT ![j].status = "completed", ![j].output = w]
            /\ Loops(w)
       ELSE Steps(w, "fails") /\ UNCHANGED job
    /\ UNCHANGED <<answers, deleted, up, queue, requestVars, historyVars>>

Ends(w) ==
    LET j == work[w].job IN
    /\ work[w].at = "judged"
    /\ IF CanMove(j, "running", work[w].verdict)
       THEN job' = Moved(j, work[w].verdict) /\ Loops(w)
       ELSE Steps(w, "fails") /\ UNCHANGED job
    /\ UNCHANGED <<answers, deleted, up, queue, requestVars, historyVars>>

\* Mutant: the handler only logs.
FailsQuietly(w) ==
    /\ work[w].at = "fails" /\ Loops(w)
    /\ UNCHANGED <<job, answers, deleted, up, queue, requestVars, historyVars>>

\* The exception handler: a job that is still running ends here.
Fails(w) ==
    LET j == work[w].job
        to == IF job[j].cancel THEN "cancelled" ELSE "failed" IN
    /\ work[w].at = "fails" /\ Loops(w)
    /\ job' = IF CanMove(j, "running", to) THEN Moved(j, to) ELSE job
    /\ UNCHANGED <<answers, deleted, up, queue, requestVars, historyVars>>

-----------------------------------------------------------------------------
(* The process. *)

\* list_jobs and recovery read the table oldest first; any order will do.
Orders(S) == {q \in [1..Cardinality(S) -> S] : \A j \in S : \E i \in DOMAIN q : q[i] = j}

\* Mutant: all that is not queued is interrupted; nothing is.
RecoveredAll == [j \in Job |-> IF job[j].status \notin {"unborn", "queued"}
                               THEN [job[j] EXCEPT !.status = "interrupted"] ELSE job[j]]
RecoveredNone == job
Recovered == [j \in Job |-> IF job[j].status = "running"
                            THEN [job[j] EXCEPT !.status = "interrupted"] ELSE job[j]]

\* __init__: recovery, then the workers.  The port is not bound yet.
Starts(s) ==
    /\ up[s] = "down" /\ starts < MaxStarts /\ starts' = starts + 1
    /\ up' = [up EXCEPT ![s] = "starting"]
    /\ job' = Recovered
    /\ \E q \in Orders({j \in Job : job[j].status = "queued"}) :
          queue' = [queue EXCEPT ![s] = q]
    /\ work' = [w \in Worker |-> IF w[1] = s THEN Idle ELSE work[w]]
    /\ overlapped' = (overlapped \/ \E other \in Service : up[other] # "down")
    /\ UNCHANGED <<answers, deleted, requestVars, lateCancel>>

\* close: the flag is set and every worker gets a None.
Closes(s) ==
    /\ up' = [up EXCEPT ![s] = "closing"]
    /\ queue' = [queue EXCEPT ![s] = @ \o [i \in 1..WorkerCount |-> None]]
    /\ UNCHANGED <<job, answers, deleted, work, requestVars, historyVars>>

Binds(s) ==
    /\ up[s] = "starting"
    /\ IF \E other \in Service : up[other] = "serving"
       THEN Closes(s)
       ELSE /\ up' = [up EXCEPT ![s] = "serving"]
            /\ UNCHANGED <<job, answers, deleted, queue, work, requestVars, historyVars>>

\* Another start is possible after an end.
Stop(s) == up[s] = "serving" /\ starts < MaxStarts /\ Closes(s)

\* The process is gone, after close or by a crash, with its threads and queue.
Dies(s) ==
    /\ up' = [up EXCEPT ![s] = "down"]
    /\ queue' = [queue EXCEPT ![s] = <<>>]
    /\ work' = [w \in Worker |-> IF w[1] = s THEN Gone ELSE work[w]]
    /\ sub' = [j \in Job |-> IF sub[j].service = s THEN DoneSub ELSE sub[j]]
    /\ deleting' = {d \in deleting : d[1] # s}
    /\ cancelling' = {c \in cancelling : c[1] # s}
    /\ UNCHANGED <<job, answers, deleted, historyVars>>
Exits(s) == up[s] = "closing" /\ Dies(s)
Crashes(s) == up[s] \in {"starting", "serving"} /\ starts < MaxStarts /\ Dies(s)

Next ==
    \/ \E s \in Service, j \in Job, x \in Session, r \in BOOLEAN : SubmitChecks(s, j, x, r)
    \/ \E j \in Job : \/ SubmitCreates(j) \/ SubmitEnqueues(j)
                      \/ StatusBegins(j) \/ StatusHasNoAnswer(j)
                      \/ StatusPosts(j) \/ StatusCompletes(j)
    \/ \E s \in Service, j \in Job : CancelRequests(s, j)
    \/ \E s \in Service, x \in Session : \/ CancelSignals(s, x)
                                         \/ DeleteChecks(s, x) \/ DeleteCommits(s, x)
    \/ \E w \in Worker : \/ Takes(w) \/ Begins(w) \/ Executes(w) \/ Raises(w)
                         \/ Publishes(w) \/ Completes(w) \/ Ends(w) \/ Fails(w)
    \/ \E s \in Service : Starts(s) \/ Binds(s) \/ Stop(s) \/ Exits(s) \/ Crashes(s)

\* A service that is down altogether is started again.
Restarts == (\A s \in Service : up[s] = "down") /\ \E s \in Service : Starts(s)
RequestStep(j) == \/ SubmitCreates(j) \/ SubmitEnqueues(j) \/ StatusBegins(j)
                  \/ StatusHasNoAnswer(j) \/ StatusPosts(j) \/ StatusCompletes(j)
WorkerStep(w) == \/ Takes(w) \/ Begins(w) \/ Executes(w) \/ Raises(w)
                 \/ Publishes(w) \/ Completes(w) \/ Ends(w) \/ Fails(w)

Spec == /\ Init /\ [][Next]_vars
        /\ WF_vars(Restarts)
        /\ \A j \in Job : WF_vars(RequestStep(j))
        /\ \A w \in Worker : WF_vars(WorkerStep(w))
        /\ \A s \in Service : WF_vars(Binds(s)) /\ WF_vars(Exits(s))

-----------------------------------------------------------------------------
JobRow == [status : Terminal \cup Active \cup {"unborn"},
           session : Session \cup {None}, status_route : BOOLEAN,
           cancel : BOOLEAN, output : Worker \cup {Request, NoOutput}]
WorkRow == [at : {"gone", "idle", "taken", "executing", "publishes",
                  "posted", "judged", "fails"},
            job : Job \cup {None}, verdict : Terminal \cup {None}, stopped : BOOLEAN]
SubRow == [at : {"none", "checked", "created", "answering", "answered", "done"},
           service : Service \cup {None}, session : Session \cup {None},
           status_route : BOOLEAN]
\* Types of the database's rows, the queues, and the workers' and requests' places.
TypeOK ==
    /\ job \in [Job -> JobRow] /\ answers \subseteq Job \X (Worker \cup {Request})
    /\ deleted \subseteq Session
    /\ up \in [Service -> {"down", "starting", "serving", "closing"}]
    /\ queue \in [Service -> Seq(Job \cup {None})]
    /\ work \in [Worker -> WorkRow] /\ sub \in [Job -> SubRow]
    /\ deleting \subseteq Service \X Session /\ cancelling \subseteq Service \X Session
    /\ starts \in 0..MaxStarts /\ overlapped \in BOOLEAN /\ lateCancel \subseteq Job

Drives(w, j) == work[w].job = j /\ work[w].at \in {"executing", "publishes", "posted",
                                                   "judged", "fails"}
\* A job has one thread that may end it, over every start, restart and second
\* process: two threads never execute or publish the same job.
OneDriver ==
    \A j \in Job :
       /\ \A v, w \in Worker : Drives(v, j) /\ Drives(w, j) => v = w
       /\ sub[j].at \in {"answering", "answered"} => \A w \in Worker : ~Drives(w, j)

\* public_session shows a sovereign message only when its job is completed and
\* names it.
Shown == {m \in answers : /\ job[m[1]].status = "completed" /\ job[m[1]].output = m[2]
                          /\ job[m[1]].session \notin deleted}

\* A job is completed exactly when one answer of it is on record, posted while
\* its session lived; an answer whose job never got there stays hidden.
CompletedIsAnswered ==
    \A j \in Job : /\ job[j].status = "completed" => <<j, job[j].output>> \in answers
                   /\ job[j].output # NoOutput => job[j].status = "completed"

\* What a session has shown it shows until it is deleted: no restart, late
\* cancel or second process takes an answer back.
ShownStays == [][\A m \in Shown : m \in Shown' \/ job[m[1]].session \in deleted']_vars

Held(j) == \/ sub[j].at \notin {"none", "done"}
           \/ \E s \in Service : up[s] # "down" /\ Queued(s, j)
           \/ \E w \in Worker : work[w].job = j
\* An active job is in the hands of a live process: in its queue, with a worker
\* or with the request that created it.  Not after an overlap, whose survivor
\* does not know the other's jobs, nor in a session deleted under a STATUS job.
ActiveIsHeld ==
    \/ overlapped
    \/ \A s \in Service : Closed(s)
    \/ \A j \in Job : job[j].status \in Active => Held(j) \/ job[j].session \in deleted

\* A cancel that was recorded before the job's result was judged keeps it from
\* completing.
CancelHolds ==
    \A j \in Job : job[j].status = "completed" /\ job[j].cancel /\ ~job[j].status_route
                   => j \in lateCancel

\* While the service is not being closed, a job ends cancelled only if a cancel
\* was asked for in its session.
CancelsStayInSession ==
    [][\A j \in Job : job[j].status # "cancelled" /\ job'[j].status = "cancelled"
          => \/ \E k \in Job : job'[k].cancel /\ job[k].session = job[j].session
             \/ \E s \in Service : Closed(s)]_vars

\* Every job ends, across crashes and restarts; the exceptions are those of
\* ActiveIsHeld.
JobsEnd == \A j \in Job :
    job[j].status \in Active ~>
        (job[j].status \notin Active \/ job[j].session \in deleted \/ overlapped)
=============================================================================
