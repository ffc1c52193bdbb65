--------------------------- MODULE Collaboration ---------------------------
(***************************************************************************)
(* One operational task of the collaboration service, with its debates:    *)
(* workers report progress, argue in bounded debates and publish           *)
(* candidates, and a directing node (the conductor) assigns the task,      *)
(* concludes its debates and publishes the synthesis of the candidates.    *)
(*                                                                         *)
(* Every writer of the service decides inside one BEGIN IMMEDIATE          *)
(* transaction of the store, on the row read there, so each is one action. *)
(* The tools that the nodes call are longer than one transaction: the      *)
(* synthesis tool reads the task, reads its debates, and only then writes, *)
(* and the assignment tool creates the task and then delivers it.  A       *)
(* node's tool process serves one call at a time, so a directing node does *)
(* nothing else in between; everybody else may.                            *)
(***************************************************************************)
EXTENDS Naturals, FiniteSets

CONSTANTS
    Worker,           \* the worker nodes that tasks can be assigned to
    Director,         \* the conductor (and operator) nodes
    Hash,             \* content hashes of candidates
    NoHash,           \* no candidate published
    Debate,           \* debate ids
    RoundLimit,       \* the most rounds a debate may be given (5 in the code)
    NoNode            \* the creator of the task before there is one

ASSUME WorkersAreNotDirectors == Worker \cap Director = {}
ASSUME NoHashIsNone == NoHash \notin Hash
ASSUME RoundLimitIsPositive == RoundLimit \in Nat \ {0}
ASSUME NoNodeIsNone == NoNode \notin Worker \cup Director

Node == Worker \cup Director

VARIABLES
    status,           \* the task's status, "NONE" before it is created
    owners,           \* the workers it is assigned to
    creator,          \* the directing node that assigned it
    candidates,       \* per worker, the hash of its current candidate
    synthesis,        \* [made, bindings, debates]: what the last one stated
    debate,           \* per id, [state, participants, rounds, turns]
    call              \* per director, the tool call under way and what it read

vars == <<status, owners, creator, candidates, synthesis, debate, call>>

TASK_STATES == {"CREATED", "ASSIGNED", "ACCEPTED", "IN_PROGRESS", "WAITING_FOR_PEER",
    "BLOCKED", "CANDIDATE_READY", "UNDER_REVIEW", "COMPLETED", "FAILED", "CANCELLED"}

TERMINAL == {"COMPLETED", "FAILED", "CANCELLED"}

\* _LEGAL_TASK_TRANSITIONS: every state may fail or be cancelled until it is
\* terminal; the rest of the table is per state.
LEGAL == [s \in TASK_STATES |->
    IF s \in TERMINAL THEN {}
    ELSE {"CANCELLED", "FAILED"} \cup
      CASE s = "CREATED" -> {"ASSIGNED", "BLOCKED"}
        [] s = "ASSIGNED" -> {"ACCEPTED", "IN_PROGRESS", "WAITING_FOR_PEER", "BLOCKED",
                              "CANDIDATE_READY"}
        [] s = "ACCEPTED" -> {"IN_PROGRESS", "WAITING_FOR_PEER", "BLOCKED", "CANDIDATE_READY"}
        [] s = "IN_PROGRESS" -> {"WAITING_FOR_PEER", "BLOCKED", "CANDIDATE_READY", "UNDER_REVIEW"}
        [] s = "WAITING_FOR_PEER" -> {"IN_PROGRESS", "BLOCKED", "CANDIDATE_READY"}
        [] s = "BLOCKED" -> {"IN_PROGRESS", "ASSIGNED", "WAITING_FOR_PEER"}
        [] s = "CANDIDATE_READY" -> {"UNDER_REVIEW", "IN_PROGRESS", "COMPLETED"}
        [] s = "UNDER_REVIEW" -> {"COMPLETED", "CANDIDATE_READY", "IN_PROGRESS"}]

\* _assert_legal_transition: restating a status is not a transition.
Legal(s, t) == s = t \/ t \in LEGAL[s]

NoCandidates == [w \in Worker |-> NoHash]
Idle == [step |-> "idle", bindings |-> NoCandidates, debates |-> {}]
NoDebate == [state |-> "NONE", participants |-> {}, rounds |-> 0, turns |-> [n \in Node |-> 0]]

Init ==
    /\ status = "NONE"
    /\ owners = {}
    /\ creator = NoNode
    /\ candidates = NoCandidates
    /\ synthesis = [made |-> FALSE, bindings |-> NoCandidates, debates |-> {}]
    /\ debate = [x \in Debate |-> NoDebate]
    /\ call = [d \in Director |-> Idle]

Exists == status # "NONE"
Free(n) == n \in Director => call[n].step = "idle"

---------------------------------------------------------------------------
(* The task                                                                *)

\* assign_task, first half: the task is created for its owners.
CreateTask(d, o) ==
    /\ ~Exists
    /\ Free(d)
    /\ status' = "ASSIGNED"
    /\ owners' = o
    /\ creator' = d
    /\ call' = [call EXCEPT ![d].step = "assigning"]
    /\ UNCHANGED <<candidates, synthesis, debate>>

\* assign_task, second half: the panes did not take the assignment, and the
\* task is reported blocked, if what happened to it meanwhile still admits that.
AssignmentUndelivered(d) ==
    /\ call[d].step = "assigning"
    /\ status' = IF Legal(status, "BLOCKED") THEN "BLOCKED" ELSE status
    /\ call' = [call EXCEPT ![d] = Idle]
    /\ UNCHANGED <<owners, creator, candidates, synthesis, debate>>

\* update_task: any owner, gate or director reports a status.
UpdateTask(s) ==
    /\ Exists
    /\ Legal(status, s)
    /\ status' = s
    /\ UNCHANGED <<owners, creator, candidates, synthesis, debate, call>>

\* record_candidate: an owner publishes or replaces its candidate, unless the
\* committed synthesis cites the one it has.
Frozen(w) == synthesis.made /\ synthesis.bindings[w] # NoHash
PublishCandidate(w, h) ==
    LET published == [candidates EXCEPT ![w] = h]
        next == IF \A o \in owners : published[o] # NoHash
                  THEN "CANDIDATE_READY" ELSE "IN_PROGRESS"
    IN /\ Exists
       /\ w \in owners
       /\ ~Frozen(w)
       /\ Legal(status, next)
       /\ candidates' = published
       /\ status' = next
       /\ UNCHANGED <<owners, creator, synthesis, debate, call>>

---------------------------------------------------------------------------
(* Debates                                                                 *)

\* open_debate: nobody asks what status the task has.
OpenDebate(x, participants, rounds) ==
    /\ Exists
    /\ debate[x].state = "NONE"
    /\ participants \subseteq owners \cup {creator}
    /\ Cardinality(participants) >= 2
    /\ debate' = [debate EXCEPT ![x].state = "OPEN", ![x].participants = participants,
                                ![x].rounds = rounds]
    /\ UNCHANGED <<status, owners, creator, candidates, synthesis, call>>

Open(x) == debate[x].state = "OPEN"

\* Mutant: the state of the debate is asked of the row read before the fence.
PostTurnOnSnapshot(x, n) ==
    /\ debate[x].state # "NONE"
    /\ n \in debate[x].participants
    /\ Free(n)
    /\ debate[x].turns[n] < debate[x].rounds
    /\ debate' = [debate EXCEPT ![x].turns[n] = @ + 1]
    /\ UNCHANGED <<status, owners, creator, candidates, synthesis, call>>

MaySpeak(x, n) == debate[x].turns[n] < debate[x].rounds
PostTurn(x, n) ==
    /\ Open(x)
    /\ n \in debate[x].participants
    /\ Free(n)
    /\ MaySpeak(x, n)
    /\ debate' = [debate EXCEPT ![x].turns[n] = @ + 1]
    /\ UNCHANGED <<status, owners, creator, candidates, synthesis, call>>

\* Mutant of Heard: one participant's turn is enough.
HeardSomebody(x) == \E n \in debate[x].participants : debate[x].turns[n] > 0

\* close_debate: a decision, once every participant has had a turn.
Heard(x) == \A n \in debate[x].participants : debate[x].turns[n] > 0
CloseDebate(d, x) ==
    /\ Free(d)
    /\ Open(x)
    /\ Heard(x)
    /\ debate' = [debate EXCEPT ![x].state = "CLOSED"]
    /\ UNCHANGED <<status, owners, creator, candidates, synthesis, call>>

\* abort_debate: the debate can no longer reach a decision.
AbortDebate(d, x) ==
    /\ Free(d)
    /\ Open(x)
    /\ debate' = [debate EXCEPT ![x].state = "ABORTED"]
    /\ UNCHANGED <<status, owners, creator, candidates, synthesis, call>>

---------------------------------------------------------------------------
(* Synthesis                                                               *)

\* publish_synthesis reads the task: the contributions it will state carry the
\* hashes the candidates have now.
ReadsTask(d) ==
    /\ Exists
    /\ Free(d)
    /\ candidates # NoCandidates
    /\ call' = [call EXCEPT ![d] = [step |-> "reading", bindings |-> candidates, debates |-> {}]]
    /\ UNCHANGED <<status, owners, creator, candidates, synthesis, debate>>

\* ... then its debates (_considered_debates): none may be open, and the
\* caller must have named those that are closed and no others.
Closed == {x \in Debate : debate[x].state = "CLOSED"}
ReadsDebates(d) ==
    /\ call[d].step = "reading"
    /\ ~ \E x \in Debate : Open(x)
    /\ call' = [call EXCEPT ![d].step = "recording", ![d].debates = Closed]
    /\ UNCHANGED <<status, owners, creator, candidates, synthesis, debate>>

\* ... then writes (record_synthesis), if inside the fence every owner has a
\* candidate, no debate is open and what is stated is what is there.
CoversOwners == \A w \in owners : candidates[w] # NoHash
ConcludedBefore == TRUE                \* mutant: only the tool looks
ConcludedInFence == ~ \E x \in Debate : Open(x)
BoundByName(d) ==                      \* mutant: hashes are not compared
    \A w \in Worker : (call[d].bindings[w] = NoHash) = (candidates[w] = NoHash)
Bound(d) == call[d].bindings = candidates
RecordSynthesis(d) ==
    /\ call[d].step = "recording"
    /\ CoversOwners
    /\ ConcludedInFence
    /\ Bound(d)
    /\ synthesis' = [made |-> TRUE, bindings |-> call[d].bindings, debates |-> call[d].debates]
    /\ status' = "COMPLETED"
    /\ call' = [call EXCEPT ![d] = Idle]
    /\ UNCHANGED <<owners, creator, candidates, debate>>

\* A tool call ends without a write: an assignment was delivered, a synthesis
\* was refused, or the node died in the middle of either.
CallEnds(d) ==
    /\ ~Free(d)
    /\ call' = [call EXCEPT ![d] = Idle]
    /\ UNCHANGED <<status, owners, creator, candidates, synthesis, debate>>

---------------------------------------------------------------------------
TaskNext ==
    \/ \E d \in Director, o \in SUBSET Worker \ {{}} : CreateTask(d, o)
    \/ \E d \in Director : AssignmentUndelivered(d)
    \/ \E s \in TASK_STATES : UpdateTask(s)
    \/ \E w \in Worker, h \in Hash : PublishCandidate(w, h)

DebateNext ==
    \/ \E x \in Debate, p \in SUBSET Node, r \in 1..RoundLimit : OpenDebate(x, p, r)
    \/ \E x \in Debate, n \in Node : PostTurn(x, n)
    \/ \E d \in Director, x \in Debate : CloseDebate(d, x)
    \/ \E d \in Director, x \in Debate : AbortDebate(d, x)

SynthesisNext == \E d \in Director :
    ReadsTask(d) \/ ReadsDebates(d) \/ RecordSynthesis(d) \/ CallEnds(d)

Next == TaskNext \/ DebateNext \/ SynthesisNext
Spec == Init /\ [][Next]_vars

---------------------------------------------------------------------------
(* Properties                                                              *)

CallType == [step : {"idle", "assigning", "reading", "recording"},
             bindings : [Worker -> Hash \cup {NoHash}], debates : SUBSET Debate]
DebateType == [state : {"NONE", "OPEN", "CLOSED", "ABORTED"}, participants : SUBSET Node,
               rounds : 0..RoundLimit, turns : [Node -> 0..RoundLimit]]
\* Types of the task row, the debate rows and the tool calls under way; a
\* debate's turns stay within the limit the code gives it.
TypeOK ==
    /\ status \in TASK_STATES \cup {"NONE"}
    /\ owners \in SUBSET Worker
    /\ creator \in Director \cup {NoNode}
    /\ candidates \in [Worker -> Hash \cup {NoHash}]
    /\ synthesis \in [made : BOOLEAN, bindings : [Worker -> Hash \cup {NoHash}],
                      debates : SUBSET Debate]
    /\ debate \in [Debate -> DebateType]
    /\ call \in [Director -> CallType]

\* A stored synthesis binds exactly the candidates the task has, now and ever
\* after: what a worker publishes between the reading and the recording, or
\* after it, never leaves a synthesis citing a hash that is no longer there
\* (record_candidate's freeze and record_synthesis' comparison in the fence).
SynthesisBindsCandidates ==
    synthesis.made => /\ synthesis.bindings = candidates
                      /\ \A w \in owners : candidates[w] # NoHash

\* When a synthesis is recorded no debate of its task is open, and the debates
\* it states are all the closed ones, whatever was opened, argued, closed or
\* aborted since the tool looked at them.
SynthesisCoversDebates ==
    [][synthesis' # synthesis =>
         /\ \A x \in Debate : ~Open(x)
         /\ synthesis'.debates = Closed]_vars

\* A debate is bounded and fair: nobody but its participants speaks, nobody
\* more often than its rounds, and it closes with a turn of every participant.
DebatesAreHeard == \A x \in Debate :
    /\ \A n \in Node : /\ debate[x].turns[n] <= debate[x].rounds
                       /\ debate[x].turns[n] > 0 => n \in debate[x].participants
    /\ debate[x].state = "CLOSED" =>
          \A n \in debate[x].participants : debate[x].turns[n] > 0

\* A concluded debate is a record: no turn, closing or abort that was under way
\* when it was concluded changes it.
ConcludedDebatesStand ==
    [][\A x \in Debate : debate[x].state \in {"CLOSED", "ABORTED"} => debate'[x] = debate[x]]_vars

============================================================================
