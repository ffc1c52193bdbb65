---------------------------- MODULE DebateProofs ----------------------------
(***************************************************************************)
(* Theorems about the two places where models debate: the collaboration    *)
(* service of the workspace, for any workers, debates, hashes and round    *)
(* limit, and the Debate Table, for any number of seats, any topics and    *)
(* any rotation and anchor periods.                                        *)
(***************************************************************************)
EXTENDS Collaboration, DebateTable, TLAPS

(***************************************************************************)
(* The collaboration service.                                              *)
(***************************************************************************)

---------------------------------------------------------------------------
(* Types.                                                                  *)

\* The initial state has the right types.
LEMMA InitType == Init => TypeOK
<1>1. 0 \in 0..RoundLimit
  BY RoundLimitIsPositive
<1> QED
  BY <1>1 DEF Init, TypeOK, CallType, DebateType, NoCandidates, Idle, NoDebate

\* Every step keeps the types; a turn is only added below the debate's rounds.
LEMMA NextType == TypeOK /\ [Next]_vars => TypeOK'
<1> SUFFICES ASSUME TypeOK, [Next]_vars PROVE TypeOK'
  OBVIOUS
<1> USE DEF TypeOK
<1>1. ASSUME NEW d \in Director, NEW o \in SUBSET Worker \ {{}}, CreateTask(d, o) PROVE TypeOK'
  BY <1>1 DEF CreateTask, CallType, TASK_STATES
<1>2. ASSUME NEW d \in Director, AssignmentUndelivered(d) PROVE TypeOK'
  BY <1>2 DEF AssignmentUndelivered, CallType, TASK_STATES, Idle, NoCandidates
<1>3. ASSUME NEW s \in TASK_STATES, UpdateTask(s) PROVE TypeOK'
  BY <1>3 DEF UpdateTask
<1>4. ASSUME NEW w \in Worker, NEW h \in Hash, PublishCandidate(w, h) PROVE TypeOK'
  BY <1>4 DEF PublishCandidate, TASK_STATES
<1>5. ASSUME NEW x \in Debate, NEW p \in SUBSET Node, NEW r \in 1..RoundLimit,
             OpenDebate(x, p, r)
      PROVE  TypeOK'
  <2> DEFINE row == [debate[x] EXCEPT !.state = "OPEN", !.participants = p, !.rounds = r]
  <2>1. r \in 0..RoundLimit
    BY RoundLimitIsPositive
  <2>2. row \in DebateType
    <3>1. debate[x] \in DebateType
      OBVIOUS
    <3> QED
      BY <2>1, <3>1 DEF DebateType
  <2>3. debate' = [debate EXCEPT ![x] = row]
    BY <1>5 DEF OpenDebate
  <2> QED
    BY <1>5, <2>2, <2>3 DEF OpenDebate
<1>6. ASSUME NEW x \in Debate, NEW n \in Node, PostTurn(x, n) PROVE TypeOK'
  <2>1. debate[x].turns[n] + 1 \in 0..RoundLimit
    BY <1>6, RoundLimitIsPositive DEF PostTurn, MaySpeak, DebateType
  <2> DEFINE row == [debate[x] EXCEPT !.turns[n] = @ + 1]
  <2>2. row \in DebateType
    <3>1. debate[x] \in DebateType
      OBVIOUS
    <3>2. [debate[x].turns EXCEPT ![n] = @ + 1] \in [Node -> 0..RoundLimit]
      BY <2>1, <3>1 DEF DebateType
    <3> QED
      BY <3>1, <3>2 DEF DebateType
  <2>3. debate' = [debate EXCEPT ![x] = row]
    BY <1>6 DEF PostTurn
  <2> QED
    BY <1>6, <2>2, <2>3 DEF PostTurn
<1>7. ASSUME NEW d \in Director, NEW x \in Debate, CloseDebate(d, x) PROVE TypeOK'
  BY <1>7 DEF CloseDebate, DebateType
<1>8. ASSUME NEW d \in Director, NEW x \in Debate, AbortDebate(d, x) PROVE TypeOK'
  BY <1>8 DEF AbortDebate, DebateType
<1>9. ASSUME NEW d \in Director, ReadsTask(d) PROVE TypeOK'
  BY <1>9 DEF ReadsTask, CallType
<1>10. ASSUME NEW d \in Director, ReadsDebates(d) PROVE TypeOK'
  <2> DEFINE row == [call[d] EXCEPT !.step = "recording", !.debates = Closed]
  <2>1. row \in CallType
    <3>1. Closed \in SUBSET Debate
      BY DEF Closed
    <3>2. call[d] \in CallType
      OBVIOUS
    <3> QED
      BY <3>1, <3>2 DEF CallType
  <2>2. call' = [call EXCEPT ![d] = row]
    BY <1>10 DEF ReadsDebates
  <2> QED
    BY <1>10, <2>1, <2>2 DEF ReadsDebates
<1>11. ASSUME NEW d \in Director, RecordSynthesis(d) PROVE TypeOK'
  BY <1>11 DEF RecordSynthesis, CallType, TASK_STATES, Idle, NoCandidates
<1>12. ASSUME NEW d \in Director, CallEnds(d) PROVE TypeOK'
  BY <1>12 DEF CallEnds, CallType, Idle, NoCandidates
<1>13. CASE UNCHANGED vars
  BY <1>13 DEF vars
<1> QED
  BY <1>1, <1>2, <1>3, <1>4, <1>5, <1>6, <1>7, <1>8, <1>9, <1>10, <1>11, <1>12, <1>13
  DEF Next, TaskNext, DebateNext, SynthesisNext

\* The types of the task, its debates and the calls under way, in every
\* reachable state.
THEOREM TypeCorrect == Spec => []TypeOK
  BY InitType, NextType, PTL DEF Spec

---------------------------------------------------------------------------
(* The synthesis binds the candidates.  A worker whose candidate is cited  *)
(* is frozen, and a synthesis cites every owner, so after the first one    *)
(* nobody can publish; before it, the comparison in the fence decides.     *)

\* There is no synthesis of a task that does not exist.
Bindings == SynthesisBindsCandidates /\ (synthesis.made => Exists)

LEMMA NextBindings == TypeOK /\ Bindings /\ [Next]_vars => Bindings'
<1> SUFFICES ASSUME TypeOK, Bindings, [Next]_vars PROVE Bindings'
  OBVIOUS
<1> USE DEF Bindings, SynthesisBindsCandidates, Exists
<1>1. ASSUME NEW d \in Director, NEW o \in SUBSET Worker \ {{}}, CreateTask(d, o) PROVE Bindings'
  BY <1>1 DEF CreateTask
<1>2. ASSUME NEW d \in Director, AssignmentUndelivered(d) PROVE Bindings'
  BY <1>2 DEF AssignmentUndelivered
<1>3. ASSUME NEW s \in TASK_STATES, UpdateTask(s) PROVE Bindings'
  BY <1>3 DEF UpdateTask, TASK_STATES
<1>4. ASSUME NEW w \in Worker, NEW h \in Hash, PublishCandidate(w, h) PROVE Bindings'
  BY <1>4 DEF PublishCandidate, Frozen
<1>5. ASSUME NEW d \in Director, RecordSynthesis(d) PROVE Bindings'
  BY <1>5 DEF RecordSynthesis, Bound, CoversOwners
<1>6. ASSUME UNCHANGED <<status, owners, candidates, synthesis>> PROVE Bindings'
  BY <1>6
<1>7. ASSUME DebateNext PROVE Bindings'
  BY <1>6, <1>7 DEF DebateNext, OpenDebate, PostTurn, CloseDebate, AbortDebate
<1>8. ASSUME NEW d \in Director, ReadsTask(d) \/ ReadsDebates(d) \/ CallEnds(d) PROVE Bindings'
  BY <1>6, <1>8 DEF ReadsTask, ReadsDebates, CallEnds
<1>9. CASE UNCHANGED vars
  BY <1>6, <1>9 DEF vars
<1> QED
  BY <1>1, <1>2, <1>3, <1>4, <1>5, <1>7, <1>8, <1>9 DEF Next, TaskNext, SynthesisNext

\* A stored synthesis never cites a hash that is not the candidate's: for any
\* number of workers and of directing nodes recording at the same time.
THEOREM SynthesisIsBound == Spec => []SynthesisBindsCandidates
<1>1. Init => Bindings
  BY DEF Init, Bindings, SynthesisBindsCandidates
<1>2. Bindings => SynthesisBindsCandidates
  BY DEF Bindings
<1> QED
  BY <1>1, <1>2, NextBindings, TypeCorrect, PTL DEF Spec

---------------------------------------------------------------------------
(* Debates.                                                                *)

\* The debate rows are of participants: nobody else has a turn, nobody has
\* more than the rounds, and a debate that does not exist yet has no turns.
RowIsHeard(x) ==
    /\ \A n \in Node : /\ debate[x].turns[n] <= debate[x].rounds
                       /\ debate[x].turns[n] > 0 => n \in debate[x].participants
    /\ debate[x].state = "CLOSED" => Heard(x)
    /\ debate[x].state = "NONE" => \A n \in Node : debate[x].turns[n] = 0
HeardIInv == \A x \in Debate : RowIsHeard(x)

LEMMA NextHeard == TypeOK /\ HeardIInv /\ [Next]_vars => HeardIInv'
<1> SUFFICES ASSUME TypeOK, HeardIInv, [Next]_vars, NEW x \in Debate PROVE RowIsHeard(x)'
  BY DEF HeardIInv
<1>0. debate[x] \in DebateType /\ debate \in [Debate -> DebateType]
  BY DEF TypeOK
<1>1. ASSUME debate'[x] = debate[x] PROVE RowIsHeard(x)'
  BY <1>1 DEF HeardIInv, RowIsHeard, Heard
<1>2. ASSUME NEW p \in SUBSET Node, NEW r \in 1..RoundLimit, OpenDebate(x, p, r)
      PROVE  RowIsHeard(x)'
  <2>1. /\ debate'[x].state = "OPEN"
        /\ debate'[x].rounds = r
        /\ debate'[x].turns = debate[x].turns
    BY <1>0, <1>2 DEF OpenDebate, DebateType
  <2>2. \A n \in Node : debate[x].turns[n] = 0
    BY <1>2 DEF OpenDebate, HeardIInv, RowIsHeard
  <2> QED
    BY <2>1, <2>2, RoundLimitIsPositive DEF RowIsHeard
<1>3. ASSUME NEW n \in Node, PostTurn(x, n) PROVE RowIsHeard(x)'
  <2>1. /\ debate'[x].state = "OPEN"
        /\ debate'[x].rounds = debate[x].rounds
        /\ debate'[x].participants = debate[x].participants
        /\ debate'[x].turns = [debate[x].turns EXCEPT ![n] = @ + 1]
    BY <1>0, <1>3 DEF PostTurn, Open, DebateType
  <2>2. debate[x].turns \in [Node -> 0..RoundLimit] /\ debate[x].rounds \in 0..RoundLimit
    BY <1>0 DEF DebateType
  <2>3. debate[x].turns[n] < debate[x].rounds /\ n \in debate[x].participants
    BY <1>3 DEF PostTurn, MaySpeak
  <2> QED
    BY <2>1, <2>2, <2>3, RoundLimitIsPositive DEF HeardIInv, RowIsHeard
<1>4. ASSUME NEW d \in Director, CloseDebate(d, x) \/ AbortDebate(d, x) PROVE RowIsHeard(x)'
  <2>1. /\ debate'[x].rounds = debate[x].rounds
        /\ debate'[x].participants = debate[x].participants
        /\ debate'[x].turns = debate[x].turns
    BY <1>0, <1>4 DEF CloseDebate, AbortDebate, DebateType
  <2>2. CASE CloseDebate(d, x)
    <3>1. debate'[x].state = "CLOSED" /\ Heard(x)
      BY <1>0, <2>2 DEF CloseDebate, DebateType
    <3> QED
      BY <2>1, <3>1 DEF HeardIInv, RowIsHeard, Heard
  <2>3. CASE AbortDebate(d, x)
    <3>1. debate'[x].state = "ABORTED"
      BY <1>0, <2>3 DEF AbortDebate, DebateType
    <3> QED
      BY <2>1, <3>1 DEF HeardIInv, RowIsHeard
  <2> QED
    BY <1>4, <2>2, <2>3
<1>5. ASSUME DebateNext PROVE RowIsHeard(x)'
  <2>1. ASSUME NEW y \in Debate, y # x,
               \/ \E p \in SUBSET Node, r \in 1..RoundLimit : OpenDebate(y, p, r)
               \/ \E n \in Node : PostTurn(y, n)
               \/ \E d \in Director : CloseDebate(d, y) \/ AbortDebate(d, y)
        PROVE  RowIsHeard(x)'
    BY <1>0, <1>1, <2>1 DEF OpenDebate, PostTurn, CloseDebate, AbortDebate
  <2> QED
    BY <1>2, <1>3, <1>4, <1>5, <2>1 DEF DebateNext
<1>6. ASSUME TaskNext \/ SynthesisNext \/ UNCHANGED vars PROVE RowIsHeard(x)'
  <2>1. UNCHANGED debate
    BY <1>6 DEF TaskNext, SynthesisNext, vars, CreateTask, AssignmentUndelivered, UpdateTask,
       PublishCandidate, ReadsTask, ReadsDebates, RecordSynthesis, CallEnds
  <2> QED
    BY <1>1, <2>1
<1> QED
  BY <1>5, <1>6 DEF Next

\* Debates are bounded by their rounds and close with everybody heard, however
\* many of them are argued at once and whatever limit the code sets.
THEOREM DebatesAreBounded == Spec => []DebatesAreHeard
<1>1. Init => HeardIInv
  BY RoundLimitIsPositive DEF Init, HeardIInv, RowIsHeard, NoDebate, Heard
<1>2. HeardIInv => DebatesAreHeard
  BY DEF HeardIInv, RowIsHeard, DebatesAreHeard, Heard
<1> QED
  BY <1>1, <1>2, NextHeard, TypeCorrect, PTL DEF Spec

\* What a concluded debate says is final, whichever calls were under way.
THEOREM ConcludedIsFinal == Spec => ConcludedDebatesStand
<1>1. TypeOK /\ [Next]_vars
        => [\A x \in Debate :
               debate[x].state \in {"CLOSED", "ABORTED"} => debate'[x] = debate[x]]_vars
  <2> SUFFICES ASSUME TypeOK, Next, NEW x \in Debate, debate[x].state \in {"CLOSED", "ABORTED"}
               PROVE  debate'[x] = debate[x]
    OBVIOUS
  <2>1. CASE DebateNext
    <3>1. PICK y \in Debate :
             \/ \E p \in SUBSET Node, r \in 1..RoundLimit : OpenDebate(y, p, r)
             \/ \E n \in Node : PostTurn(y, n)
             \/ \E d \in Director : CloseDebate(d, y) \/ AbortDebate(d, y)
      BY <2>1 DEF DebateNext
    <3>2. debate[y].state \in {"NONE", "OPEN"}
      BY <3>1 DEF OpenDebate, PostTurn, CloseDebate, AbortDebate, Open
    <3> QED
      BY <3>1, <3>2 DEF TypeOK, OpenDebate, PostTurn, CloseDebate, AbortDebate
  <2>2. CASE TaskNext \/ SynthesisNext
    BY <2>2 DEF TaskNext, SynthesisNext, CreateTask, AssignmentUndelivered, UpdateTask,
       PublishCandidate, ReadsTask, ReadsDebates, RecordSynthesis, CallEnds
  <2> QED
    BY <2>1, <2>2 DEF Next
<1> QED
  BY <1>1, TypeCorrect, PTL DEF Spec, ConcludedDebatesStand

---------------------------------------------------------------------------
(* With one directing node, what the synthesis tool has read of the        *)
(* debates is still true when it writes: only that node could have closed  *)
(* one, and its process serves one call at a time.                         *)

DebatesReadAreClosed ==
    \A d \in Director : call[d].step = "recording" => call[d].debates = Closed

LEMMA NextRead ==
    ASSUME \A c, d \in Director : c = d
    PROVE  TypeOK /\ DebatesReadAreClosed /\ [Next]_vars => DebatesReadAreClosed'
<1> SUFFICES ASSUME TypeOK, DebatesReadAreClosed, [Next]_vars,
                    NEW d \in Director, call'[d].step = "recording"
             PROVE  call'[d].debates = Closed'
  BY DEF DebatesReadAreClosed
<1>0. call \in [Director -> CallType] /\ debate \in [Debate -> DebateType]
  BY DEF TypeOK
<1>1. ASSUME UNCHANGED <<call, debate>> PROVE call'[d].debates = Closed'
  BY <1>1 DEF DebatesReadAreClosed, Closed
<1>2. CASE TaskNext
  BY <1>0, <1>1, <1>2 DEF TaskNext, CreateTask, AssignmentUndelivered, UpdateTask,
     PublishCandidate, CallType, Idle
<1>3. ASSUME NEW x \in Debate, NEW p \in SUBSET Node, NEW r \in 1..RoundLimit, OpenDebate(x, p, r)
      PROVE  call'[d].debates = Closed'
  <2>1. Closed' = Closed
    BY <1>0, <1>3 DEF OpenDebate, Closed, DebateType
  <2> QED
    BY <1>3, <2>1 DEF OpenDebate, DebatesReadAreClosed
<1>4. ASSUME NEW x \in Debate, NEW n \in Node, PostTurn(x, n) PROVE call'[d].debates = Closed'
  <2>1. Closed' = Closed
    BY <1>0, <1>4 DEF PostTurn, Closed, DebateType
  <2> QED
    BY <1>4, <2>1 DEF PostTurn, DebatesReadAreClosed
<1>5. ASSUME NEW c \in Director, NEW x \in Debate, CloseDebate(c, x) \/ AbortDebate(c, x)
      PROVE  FALSE
  BY <1>5 DEF CloseDebate, AbortDebate, Free
<1>6. CASE DebateNext
  BY <1>3, <1>4, <1>5, <1>6 DEF DebateNext
<1>7. ASSUME ReadsDebates(d) PROVE call'[d].debates = Closed'
  <2>1. call'[d].debates = Closed
    BY <1>0, <1>7 DEF ReadsDebates, CallType
  <2> QED
    BY <1>7, <2>1 DEF ReadsDebates, Closed
<1>8. ASSUME ReadsTask(d) \/ RecordSynthesis(d) \/ CallEnds(d) PROVE FALSE
  BY <1>0, <1>8 DEF ReadsTask, RecordSynthesis, CallEnds, CallType, Idle
<1>9. CASE SynthesisNext
  BY <1>7, <1>8, <1>9 DEF SynthesisNext
<1>10. CASE UNCHANGED vars
  BY <1>1, <1>10 DEF vars
<1> QED
  BY <1>2, <1>6, <1>9, <1>10 DEF Next

\* The one node that may direct records no synthesis over an open debate, and
\* none that leaves a closed one unnamed.
THEOREM SynthesisIsComplete ==
    ASSUME \A c, d \in Director : c = d
    PROVE  Spec => SynthesisCoversDebates
<1>1. Init => DebatesReadAreClosed
  BY DEF Init, DebatesReadAreClosed, Idle
<1>2. TypeOK /\ DebatesReadAreClosed /\ [Next]_vars
        => [synthesis' # synthesis => /\ \A x \in Debate : ~Open(x)
                                     /\ synthesis'.debates = Closed]_vars
  <2> SUFFICES ASSUME DebatesReadAreClosed, Next, synthesis' # synthesis
               PROVE  /\ \A x \in Debate : ~Open(x)
                      /\ synthesis'.debates = Closed
    OBVIOUS
  <2>1. PICK d \in Director : RecordSynthesis(d)
    BY DEF Next, TaskNext, DebateNext, SynthesisNext, CreateTask, AssignmentUndelivered, UpdateTask,
       PublishCandidate, OpenDebate, PostTurn, CloseDebate, AbortDebate, ReadsTask, ReadsDebates,
       CallEnds
  <2> QED
    BY <2>1 DEF RecordSynthesis, ConcludedInFence, DebatesReadAreClosed
<1> QED
  BY <1>1, <1>2, NextRead, TypeCorrect, PTL DEF Spec, SynthesisCoversDebates

(***************************************************************************)
(* The Debate Table.                                                       *)
(***************************************************************************)

\* While set_topic is broadcast the topic is new; a turn that is under way may
\* still be counted; only a turn has a note in its prompt, and notes that wait
\* or are put are of the topic on the table.
Fresh == pc = "titling" => completed = 0 /\ counted = Nobody
MayCount == pc \in {"beginning", "speaking"} /\ Rotate > 0 => completed < Rotate
OnlySpeakersUse == pc # "speaking" => using = None
NotesAreCurrent == note \in {None, topic} /\ using \in {None, topic}
\* Whose turn was counted last does not hold the microphone, so that the one
\* who holds it may speak.
MicrophoneMoved == counted # speaker
TableInv == /\ TableTypeOK /\ Fresh /\ MayCount /\ OnlySpeakersUse /\ NotesAreCurrent
        /\ MicrophoneMoved

\* The microphone goes from a seat to another one.
LEMMA NextIsAnother ==
    ASSUME speaker \in Seat
    PROVE  NextSpeaker \in Seat /\ NextSpeaker # speaker
BY TableAssumption DEF Seat, NextSpeaker

\* The first topic's state satisfies the invariant.
LEMMA TableInitInv == TableInit => TableInv
<1> SUFFICES ASSUME TableInit PROVE TableInv
  OBVIOUS
<1>1. 0 \in Seat /\ Nobody # 0
  BY TableAssumption DEF Seat, Nobody
<1>2. 0 \in Nat /\ (Rotate > 0 => 0 <= Rotate)
  BY TableAssumption
<1>3. TableTypeOK
  BY <1>1, <1>2 DEF TableInit, TableTypeOK
<1> QED
  BY <1>1, <1>3 DEF TableInit, TableInv, Fresh, MayCount, OnlySpeakersUse, NotesAreCurrent,
     MicrophoneMoved

\* Setting a topic resets what the invariant speaks of.
LEMMA SetTopicResets ==
    ASSUME TableInv, NEW t \in Topic \cup {Generated}, SetTopic(t), pc' \in {"titling", "looping"},
           using' = None, UNCHANGED <<paused, interrupt>>, pending' \in {None, pending}
    PROVE  TableInv'
BY TableAssumption DEF TableInv, TableTypeOK, Fresh, MayCount, OnlySpeakersUse, NotesAreCurrent,
   MicrophoneMoved, SetTopic, ResetNote, Seat, Nobody

\* A turn begins below the rotation.
LEMMA BeginsTurnKeeps ==
    ASSUME TableInv, pc # "speaking", BeginsTurn, Rotate > 0 => completed < Rotate
    PROVE  TableInv'
BY TableAssumption DEF TableInv, TableTypeOK, Fresh, MayCount, OnlySpeakersUse, NotesAreCurrent,
   MicrophoneMoved, BeginsTurn, Goes, topicVars

\* A turn that is counted passes the microphone on.
LEMMA CountedTurnKeeps ==
    ASSUME TableInv, pc = "speaking", NEW n \in {completed, completed + 1}, completed' = n,
           counted' = speaker, PassesOn, AfterTurn(n),
           UNCHANGED <<topic, pending, paused, interrupt, note>>
    PROVE  TableInv'
<1>1. speaker' \in Seat /\ speaker' # counted' /\ counted' \in Seat
  BY NextIsAnother DEF TableInv, TableTypeOK, PassesOn
<1>2. completed' \in Nat /\ (Rotate > 0 => completed' <= Rotate)
  BY TableAssumption DEF TableInv, TableTypeOK, MayCount
<1>3. pc' \in {"resting", "announcing", "anchoring"} /\ using' = None
  BY DEF AfterTurn
<1> QED
  BY <1>1, <1>2, <1>3 DEF TableInv, TableTypeOK, Fresh, MayCount, OnlySpeakersUse, NotesAreCurrent,
     MicrophoneMoved

\* Every step keeps the invariant.
LEMMA TableNextInv == TableInv /\ [TableNext]_tableVars => TableInv'
<1> SUFFICES ASSUME TableInv, [TableNext]_tableVars PROVE TableInv'
  OBVIOUS
<1>1. CASE Opens
  <2>1. using = None
    BY <1>1 DEF Opens, Waits, TableInv, OnlySpeakersUse
  <2> QED
    BY <1>1, <2>1, SetTopicResets DEF Opens, Goes, Waits
<1>2. CASE TakesTopic
  <2>1. using = None
    BY <1>2 DEF TakesTopic, Waits, TableInv, OnlySpeakersUse
  <2>2. pending \in Topic
    BY <1>2 DEF TakesTopic, TableInv, TableTypeOK
  <2> QED
    BY <1>2, <2>1, <2>2, SetTopicResets DEF TakesTopic, Goes, Waits
<1>3. CASE Rotates
  BY <1>3 DEF Rotates, Waits, Goes, Interrupted, TableInv, TableTypeOK, Fresh, MayCount,
     OnlySpeakersUse, NotesAreCurrent, MicrophoneMoved, topicVars
<1>4. CASE RotationReturns
  <2>1. using = None
    BY <1>4 DEF RotationReturns, Waits, TableInv, OnlySpeakersUse
  <2> QED
    BY <1>4, <2>1, SetTopicResets DEF RotationReturns, Goes, Waits
<1>5. CASE RotationInterrupted \/ TurnInterrupted \/ AnchorInterrupted
  BY <1>5 DEF RotationInterrupted, TurnInterrupted, AnchorInterrupted, Waits, Goes, Interrupted,
     TableInv, TableTypeOK, Fresh, MayCount, OnlySpeakersUse, NotesAreCurrent, MicrophoneMoved,
     topicVars
<1>6. CASE GivesFloor
  <2>1. CASE paused
    BY <1>6, <2>1 DEF GivesFloor, Waits, Goes, TableInv, TableTypeOK, Fresh, MayCount,
       OnlySpeakersUse, NotesAreCurrent, MicrophoneMoved, topicVars
  <2>2. CASE ~paused
    <3>1. completed = 0 /\ pc = "titling"
      BY <1>6 DEF GivesFloor, Waits, TableInv, Fresh
    <3> QED
      BY <1>6, <2>2, <3>1, TableAssumption, BeginsTurnKeeps DEF GivesFloor
  <2> QED
    BY <2>1, <2>2
<1>7. CASE TurnBegins
  <2>1. pc = "looping" /\ (Rotate > 0 => completed < Rotate)
    BY <1>7, TableAssumption DEF TurnBegins, Waits, RotationDue, TableInv, TableTypeOK
  <2> QED
    BY <1>7, <2>1, BeginsTurnKeeps DEF TurnBegins
<1>14. CASE TakesNote
  BY <1>14 DEF TakesNote, Waits, Goes, TableInv, TableTypeOK, Fresh, MayCount, OnlySpeakersUse,
     NotesAreCurrent, MicrophoneMoved, topicVars
<1>8. CASE TurnCompletes
  BY <1>8, CountedTurnKeeps DEF TurnCompletes, Waits
<1>9. CASE TurnIsSkipped
  BY <1>9, CountedTurnKeeps DEF TurnIsSkipped, Waits
<1>10. CASE AnchorReturns \/ Rests
  BY <1>10 DEF AnchorReturns, Rests, Waits, Goes, TableInv, TableTypeOK, Fresh, MayCount,
     OnlySpeakersUse, NotesAreCurrent, MicrophoneMoved, topicVars
<1>11. CASE (\E t \in Topic : Post(t)) \/ Pause \/ Resume
  BY <1>11 DEF Post, Pause, Resume, TableInv, TableTypeOK, Fresh, MayCount, OnlySpeakersUse,
     NotesAreCurrent, MicrophoneMoved, topicVars
<1>12. CASE Interject
  BY <1>12 DEF Interject, TableInv, TableTypeOK, Fresh, MayCount, OnlySpeakersUse,
     NotesAreCurrent, MicrophoneMoved, topicVars
<1>13. CASE UNCHANGED tableVars
  BY <1>13 DEF tableVars, TableInv, TableTypeOK, Fresh, MayCount, OnlySpeakersUse, NotesAreCurrent,
     MicrophoneMoved
<1> QED
  BY <1>1, <1>2, <1>3, <1>4, <1>5, <1>6, <1>7, <1>8, <1>9, <1>10, <1>11, <1>12, <1>13,
     <1>14 DEF TableNext, Orchestrator

\* The inductive invariant holds in every state.
LEMMA TableInvAlways == TableSpec => []TableInv
BY TableInitInv, TableNextInv, PTL DEF TableSpec

---------------------------------------------------------------------------
(* The theorems.                                                           *)

\* The table's state keeps its types; a topic has no more counted turns than
\* the rotation allows.
THEOREM TableTypeCorrect == TableSpec => []TableTypeOK
BY TableInvAlways, PTL DEF TableInv

\* No interjection is put to a turn about another topic, wherever topics are
\* posted, rotated or interrupted.
THEOREM NotesAreOfTheTopic == TableSpec => []NotesStayInTopic
<1>1. TableInv => NotesStayInTopic
  BY DEF TableInv, NotesAreCurrent, NotesStayInTopic
<1> QED
  BY <1>1, TableInvAlways, PTL

\* No turn starts while the table is paused.
THEOREM PausesHold == TableSpec => NoTurnWhilePaused
<1>1. [TableNext]_tableVars => [TurnStarts => ~paused]_tableVars
  BY DEF TurnStarts, TableNext, Orchestrator, TakesNote, Opens, TakesTopic, Rotates, RotationReturns, RotationInterrupted,
     GivesFloor, BeginsTurn, TurnBegins, TurnCompletes, TurnIsSkipped, AfterTurn,
     TurnInterrupted, AnchorReturns, AnchorInterrupted, Rests, Interrupted, Waits, Goes,
     Post, Interject, Pause, Resume, tableVars
<1> QED
  BY <1>1, PTL DEF TableSpec, NoTurnWhilePaused

\* No seat whose turn was counted last gets the microphone again at once, for
\* any number of seats and whatever interrupts the anchor.
THEOREM MicrophonesMove == TableSpec => NobodySpeaksTwice
<1>1. TableInv /\ [TableNext]_tableVars
        => [TurnStarts => speaker # counted]_tableVars
  BY DEF TableInv, MicrophoneMoved
<1> QED
  BY <1>1, TableInvAlways, PTL DEF TableSpec, NobodySpeaksTwice
=============================================================================
