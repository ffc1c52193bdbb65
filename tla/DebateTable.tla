----------------------------- MODULE DebateTable -----------------------------
(***************************************************************************)
(* modules/debate/app.py: the Debate Table.  One coroutine, the            *)
(* orchestrator, sets topics, gives the microphone to seat after seat and  *)
(* refreshes the anchor; the operator's requests run on the same event     *)
(* loop wherever it waits.  What they want of it they leave in shared      *)
(* state: a pause, a topic, a note for the next turn, and an event that    *)
(* interrupts the model call it waits for.  Only the start of a turn       *)
(* clears that event.                                                      *)
(*                                                                         *)
(* A step is what runs between two waits.  Of a note the model keeps the   *)
(* topic it was written for.  Shutdown, the choice of the move, what is    *)
(* said and the handler of other exceptions, which no call in the loop is  *)
(* known to raise, are left out.                                           *)
(***************************************************************************)
EXTENDS Naturals

CONSTANTS
    Seats,            \* number of seats
    Topic,            \* what the operator may post
    Rotate,           \* TOPIC_ROTATE_TURNS; 0 turns the rotation off
    AnchorEvery,      \* ANCHOR_EVERY_TURNS; 0 turns the anchor off
    Silent            \* the seats whose stream may go silent

Seat == 0..(Seats - 1)
None == "none"
Nobody == Seats
Generated == "generated"               \* a topic of the table's own
ASSUME TableAssumption ==
    /\ Seats \in Nat \ {0, 1} /\ Rotate \in Nat /\ AnchorEvery \in Nat
    /\ Silent \subseteq Seat /\ None \notin Topic /\ Generated \notin Topic

VARIABLES
    pc,               \* what the orchestrator waits for
    topic, pending,   \* the topic on the table; the one posted
    paused, interrupt,\* state.paused; the interrupt event
    speaker,          \* speaker_idx
    counted,          \* history: whose turn was the last to be counted
    completed,        \* completed_turns of this topic
    note, using       \* the topic of the queued interjection; of the one being put

tableVars == <<pc, topic, pending, paused, interrupt, speaker, counted, completed, note,
               using>>
topicVars == <<topic, speaker, counted, completed>>

TableInit == /\ pc = "opening" /\ topic = None /\ pending = None
             /\ paused = FALSE /\ interrupt = FALSE
             /\ speaker = 0 /\ counted = Nobody /\ completed = 0
             /\ note = None /\ using = None

Waits(at) == pc = at
Goes(to) == pc' = to
RotationDue == Rotate > 0 /\ completed >= Rotate
AnchorDue(n) == AnchorEvery > 0 /\ n > 0 /\ n % AnchorEvery = 0

\* Mutant: the reset leaves the note.
ResetNoteKept == note' = note
\* A queued interjection belongs to the current topic only.
ResetNote == note' = None

\* set_topic, from any of its callers.
SetTopic(t) ==
    /\ topic' = t /\ speaker' = 0 /\ counted' = Nobody /\ completed' = 0
    /\ ResetNote

\* TurnInterrupted is raised; its handler announces the turn as skipped.
Interrupted == Goes("announcing") /\ using' = None

-----------------------------------------------------------------------------
(* The orchestrator. *)

\* The first topic, a fallback when the call was interrupted.
Opens ==
    /\ Waits("opening") /\ SetTopic(Generated) /\ Goes("looping")
    /\ UNCHANGED <<pending, paused, interrupt, using>>

\* The top of the loop, when not paused: a posted topic first,
TakesTopic ==
    /\ Waits("looping") /\ ~paused /\ pending # None
    /\ SetTopic(pending) /\ pending' = None /\ Goes("titling")
    /\ UNCHANGED <<paused, interrupt, using>>

\* then the rotation; a call made while the event is set is not even sent.
Rotates ==
    /\ Waits("looping") /\ ~paused /\ pending = None /\ RotationDue
    /\ IF interrupt THEN Interrupted ELSE (Goes("rotating") /\ UNCHANGED using)
    /\ UNCHANGED <<topicVars, pending, paused, interrupt, note>>

\* Mutant: the new topic takes the place of one posted meanwhile.
RotationReturnsAlone ==
    /\ Waits("rotating") /\ SetTopic(Generated) /\ Goes("titling")
    /\ pending' = None /\ UNCHANGED <<paused, interrupt, using>>
RotationReturns ==
    /\ Waits("rotating") /\ SetTopic(Generated) /\ Goes("titling")
    /\ UNCHANGED <<pending, paused, interrupt, using>>

RotationInterrupted ==
    /\ Waits("rotating") /\ interrupt /\ Interrupted
    /\ UNCHANGED <<topicVars, pending, paused, interrupt, note>>

\* run_turn begins: the event is cleared, and the insight job called off,
BeginsTurn ==
    /\ Goes("beginning") /\ interrupt' = FALSE
    /\ UNCHANGED <<topicVars, pending, paused, note, using>>

\* and when that job is gone the note is taken.
TakesNote ==
    /\ Waits("beginning") /\ Goes("speaking")
    /\ using' = note /\ note' = None
    /\ UNCHANGED <<topicVars, pending, paused, interrupt>>

\* Mutant: a topic that was set is followed by a turn in any case.
GivesFloorUnasked == Waits("titling") /\ BeginsTurn
\* After set_topic has been broadcast the pause is looked at again.
GivesFloor ==
    /\ Waits("titling")
    /\ IF paused
       THEN Goes("looping") /\ UNCHANGED <<topicVars, pending, paused, interrupt, note, using>>
       ELSE BeginsTurn

\* Mutant: an event that is still set is taken for a reason to wait.
TurnBeginsIfClear ==
    Waits("looping") /\ ~paused /\ ~interrupt /\ pending = None /\ ~RotationDue /\ BeginsTurn
TurnBegins ==
    Waits("looping") /\ ~paused /\ pending = None /\ ~RotationDue /\ BeginsTurn

\* After a turn that counted n: the anchor's call, which an interrupt ends as
\* if it were the turn's, or the delay.
AfterTurn(n) ==
    /\ pc' = IF ~AnchorDue(n) THEN "resting"
             ELSE IF interrupt THEN "announcing" ELSE "anchoring"
    /\ using' = None

NextSpeaker == IF speaker + 1 = Seats THEN 0 ELSE speaker + 1
PassesOn == speaker' = NextSpeaker

TurnCompletes ==
    /\ Waits("speaking")
    /\ counted' = speaker /\ completed' = completed + 1
    /\ PassesOn /\ AfterTurn(completed + 1)
    /\ UNCHANGED <<topic, pending, paused, interrupt, note>>

\* Protocol fault, generation error or nothing to say.
TurnIsSkipped ==
    /\ Waits("speaking") /\ counted' = speaker /\ PassesOn /\ AfterTurn(completed)
    /\ UNCHANGED <<topic, completed, pending, paused, interrupt, note>>

\* The operator's event, or the inactivity timer of a silent stream.
TurnInterrupted ==
    /\ Waits("speaking") /\ (interrupt \/ speaker \in Silent)
    /\ Interrupted
    /\ UNCHANGED <<topicVars, pending, paused, interrupt, note>>

AnchorReturns ==
    /\ Waits("anchoring") /\ Goes("resting")
    /\ UNCHANGED <<topicVars, pending, paused, interrupt, note, using>>

AnchorInterrupted ==
    /\ Waits("anchoring") /\ interrupt /\ Interrupted
    /\ UNCHANGED <<topicVars, pending, paused, interrupt, note>>

Rests ==
    /\ pc \in {"resting", "announcing"} /\ Goes("looping")
    /\ UNCHANGED <<topicVars, pending, paused, interrupt, note, using>>

Orchestrator ==
    \/ Opens \/ TakesTopic \/ Rotates \/ RotationReturns \/ RotationInterrupted
    \/ GivesFloor \/ TurnBegins \/ TakesNote \/ TurnCompletes \/ TurnIsSkipped \/ TurnInterrupted
    \/ AnchorReturns \/ AnchorInterrupted \/ Rests

-----------------------------------------------------------------------------
(* The operator. *)

Post(t) == /\ pending' = t /\ interrupt' = TRUE
           /\ UNCHANGED <<pc, topicVars, paused, note, using>>
Interject == /\ note' = topic
             /\ UNCHANGED <<pc, topicVars, pending, paused, interrupt, using>>
Pause == /\ paused' = TRUE /\ interrupt' = TRUE
         /\ UNCHANGED <<pc, topicVars, pending, note, using>>
Resume == /\ paused' = FALSE
          /\ UNCHANGED <<pc, topicVars, pending, interrupt, note, using>>

TableNext == Orchestrator \/ (\E t \in Topic : Post(t)) \/ Interject \/ Pause \/ Resume

\* The loop is scheduled and every model call ends: it returns, fails or is
\* cut off by its timer.
TableSpec == TableInit /\ [][TableNext]_tableVars /\ WF_tableVars(Orchestrator)

-----------------------------------------------------------------------------
\* Types of the table's state; a topic's completed turns stay within the rotation.
TableTypeOK ==
    /\ pc \in {"opening", "looping", "titling", "rotating", "beginning", "speaking", "anchoring",
               "announcing", "resting"}
    /\ topic \in Topic \cup {None, Generated} /\ pending \in Topic \cup {None}
    /\ paused \in BOOLEAN /\ interrupt \in BOOLEAN
    /\ speaker \in Seat /\ counted \in Seat \cup {Nobody}
    /\ completed \in Nat /\ (Rotate > 0 => completed <= Rotate)
    /\ {note, using} \subseteq Topic \cup {None, Generated}

TurnStarts == pc # "beginning" /\ pc' = "beginning"

\* No turn starts while the table is paused, wherever in the loop the pause
\* arrived.
NoTurnWhilePaused == [][TurnStarts => ~paused]_tableVars

\* A note is put only to a turn about the topic it was written for, however
\* many topics were posted, rotated or interrupted in between.
NotesStayInTopic == using \in {None, topic}

\* A seat whose turn was counted, spoken or skipped, does not get the microphone
\* again before another seat had it, whatever interrupted the anchor after it.
NobodySpeaksTwice == [][TurnStarts => speaker # counted]_tableVars

\* A posted topic comes to the table, unless another replaces it or the table
\* is paused.
TopicIsHeard == \A t \in Topic :
    pending = t ~> (topic = t \/ pending \in Topic \ {t} \/ paused)

\* The table goes on: a turn starts or the operator pauses.  The exception is a
\* rotation that is due while the event is still set, which is refused for ever.
RefusedRotation == RotationDue /\ interrupt
TableGoesOn == ~paused ~> (pc = "speaking" \/ paused \/ RefusedRotation)

\* README: "Pause interrupts the active turn and prevents new turns until
\* Resume"; a table that is not paused has a next turn.
ResumedTableSpeaks == ~paused ~> (pc = "speaking" \/ paused)
=============================================================================
