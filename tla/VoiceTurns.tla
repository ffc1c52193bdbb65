------------------------------ MODULE VoiceTurns ------------------------------
(***************************************************************************)
(* apps/desktop/voice/turn-authority.js, voice/conductor-write.js and      *)
(* their bindings in main.js: an utterance on its way into the conductor's *)
(* input.  A delivery arms a turn, types the body under the turn's marker, *)
(* presses Enter when the pane has echoed it, and asks the authority what  *)
(* became of the turn.  The authority denies tools while a turn is         *)
(* pending, active, or ended by the operator with its answer in flight.    *)
(* Around a delivery the operator's keys, system notices, other            *)
(* deliveries, the vendor's prompts and the end of the session come when   *)
(* they like.                                                              *)
(*                                                                         *)
(* A text, in the input box or submitted from it, is a sequence of pieces: *)
(* utterances with their markers, and what else is typed between them.     *)
(* Echo and screen readings are choices.                                   *)
(***************************************************************************)
EXTENDS Naturals, Sequences

CONSTANTS
    Utterance,        \* what is spoken, or sent from the card, each once
    MaxSent           \* bound: prompts the CLI keeps

None == "none"
Other == "other"      \* text of the operator or the system
ASSUME VoiceAssumption == MaxSent \in Nat \ {0} /\ {None, Other} \cap Utterance = {}

VARIABLES
    pending, active, ended,   \* the authority's three turns
    fate,             \* _fates, by utterance
    stage,            \* where the delivery of each utterance is
    residue,          \* conductorInputResidue
    session,          \* the conductor's process: up, terminating, down
    box,              \* the CLI's input
    sent,             \* prompts submitted and not yet presented
    answering,        \* the pieces of the prompt the CLI is answering
    here,             \* the utterances typed into this session
    key,              \* the operator's key between main and the pane
    notifying,        \* a notice is typed and its Enter is due
    admitted,         \* history: the turns the authority accepted
    answered,         \* history: the utterances in prompts the CLI answered
    spliced,          \* history: the utterances that lay behind other text
    resolved,         \* history: settled when the operator resolved the input
    lapsed,           \* history: ended turns forgotten by a later disarm
    misjudged         \* history: pending turns judged by an earlier one

authority == <<pending, active, ended, fate>>
cli == <<session, box, sent, answering, here>>
history == <<admitted, answered, resolved, lapsed, misjudged>>
voiceVars == <<authority, stage, residue, cli, key, notifying, history, spliced>>

VoiceInit ==
    /\ pending = None /\ active = None /\ ended = None
    /\ fate = [u \in Utterance |-> None] /\ stage = [u \in Utterance |-> "unsaid"]
    /\ residue = FALSE /\ session = "up" /\ box = <<>> /\ sent = <<>>
    /\ answering = {} /\ here = {} /\ key = None /\ notifying = FALSE
    /\ admitted = {} /\ answered = {} /\ spliced = {} /\ resolved = {} /\ lapsed = {} /\ misjudged = {}

Restricted == {pending, active, ended} # {None}
Settled == {"delivered", "withheld", "undelivered"}
Pieces(t) == {t[i] : i \in DOMAIN t}
\* The utterances of a text that other text begins: it carries no marker.
Behind(t) == IF t # <<>> /\ Head(t) \notin Utterance THEN Pieces(t) \cap Utterance ELSE {}
\* One text behind another; other text that meets is one piece.
Join(s, t) ==
    IF s # <<>> /\ t # <<>> /\ s[Len(s)] = Other /\ Head(t) = Other
    THEN s \o Tail(t) ELSE s \o t
\* An Enter in the pane.
Submit == \/ box = <<>> /\ UNCHANGED <<box, sent>>
          \/ /\ box # <<>> /\ Len(sent) < MaxSent
             /\ sent' = Append(sent, box) /\ box' = <<>>
Fates(turns, f) == fate' = [u \in Utterance |-> IF u \in turns THEN f ELSE fate[u]]

-----------------------------------------------------------------------------
(* The delivery. *)

\* arm(), and the body written in the same turn of the event loop.
Speaks(u) ==
    /\ stage[u] = "unsaid" /\ session = "up" /\ ~residue /\ pending = None
    /\ pending' = u /\ Fates({u}, "pending")
    /\ box' = Append(box, u) /\ here' = here \cup {u}
    /\ stage' = [stage EXCEPT ![u] = "echoing"]
    /\ UNCHANGED <<active, ended, residue, session, sent, answering, key, notifying, history>>

\* cancel(): only the turn that is pending.
Cancel(u) ==
    IF pending = u THEN pending' = None /\ Fates({u}, "cancelled")
                   ELSE UNCHANGED <<pending, fate>>

\* The body write raises, and some of the body may have been taken; or nothing
\* takes it, which needs no mark.
SpeaksInVain(u) ==
    /\ stage[u] = "unsaid" /\ session = "up" /\ ~residue /\ pending = None
    /\ Fates({u}, "cancelled")
    /\ \/ residue' = TRUE /\ box' \in {box, Append(box, u)}
       \/ UNCHANGED <<residue, box>>
    /\ stage' = [stage EXCEPT ![u] = "withheld"]
    /\ UNCHANGED <<pending, active, ended, session, sent, answering, here, key, notifying, history>>

\* The echo is seen and the submit key is taken.
Enters(u) ==
    /\ stage[u] = "echoing" /\ u \in here /\ session = "up"
    /\ Submit /\ stage' = [stage EXCEPT ![u] = "entered"]
    /\ UNCHANGED <<authority, residue, session, answering, here, key, notifying, history>>

\* The echo is lost, incomplete or late, or the session has ended.
Withholds(u) ==
    /\ stage[u] = "echoing"
    /\ Cancel(u) /\ residue' = TRUE /\ stage' = [stage EXCEPT ![u] = "withheld"]
    /\ UNCHANGED <<active, ended, cli, key, notifying, history>>

\* Mutant: a turn still pending at the deadline counts as submitted.
ReportOptimistic(f) == IF f \in {"submission", "pending"} THEN "delivered" ELSE "undelivered"
Report(f) == IF f = "submission" THEN "delivered" ELSE "undelivered"
\* Mutant: an unconfirmed delivery leaves no mark.
MarkOfRefusals(f) == f \notin {"submission", "pending"}
Mark(f) == f # "submission"

\* The fate is read; "pending" only at the deadline.
Settles(u) ==
    /\ stage[u] = "entered"
    /\ stage' = [stage EXCEPT ![u] = Report(fate[u])]
    /\ residue' = (residue \/ Mark(fate[u]))
    /\ UNCHANGED <<authority, cli, key, notifying, history>>

Deliver(u) == Speaks(u) \/ SpeaksInVain(u) \/ Enters(u) \/ Withholds(u) \/ Settles(u)

-----------------------------------------------------------------------------
(* The operator's keys and the system's notices. *)

\* Mutant: an active turn that is disarmed is over.
StaysNot == None
\* What a disarm leaves as ended.
Stays == active
\* disarm(): an active turn stays as ended; a pending one replaces what was
\* ended by nothing, and keeps its fate when an active one is there.
Disarm ==
    /\ pending' = None /\ active' = None
    /\ IF active # None THEN Fates({active}, "submission") ELSE Fates({pending}, "by_operator")
    /\ ended' = IF {active, pending} = {None} THEN ended ELSE Stays
    /\ lapsed' = lapsed \cup ({ended} \ {None, ended'})

\* handleOperatorResumeInput: main sees the key first, whatever pane it is for.
\* The chord is a key for no pane.
Presses(k) ==
    /\ key = None /\ Disarm /\ key' \in {k, None}
    /\ IF k = "char" THEN UNCHANGED <<residue, resolved>>
       ELSE /\ residue' = FALSE
            /\ resolved' = {u \in Utterance : stage[u] \in Settled}
    /\ UNCHANGED <<stage, cli, notifying, admitted, answered, misjudged>>

\* It reaches the pane later, by pane:input.
KeyArrives ==
    /\ key # None /\ key' = None
    /\ \/ session # "up" /\ UNCHANGED <<box, sent>>
       \/ session = "up" /\ key = "char" /\ box' = Join(box, <<Other>>) /\ UNCHANGED sent
       \/ session = "up" /\ key = "enter" /\ Submit
       \/ session = "up" /\ key = "clear" /\ box' = <<>> /\ UNCHANGED sent
    /\ UNCHANGED <<authority, stage, residue, session, answering, here, notifying, history>>

\* writePrompt: the body,
NoticeComes ==
    /\ ~notifying /\ session = "up"
    /\ box' = Join(box, <<Other>>) /\ notifying' = TRUE
    /\ UNCHANGED <<authority, stage, residue, session, sent, answering, here, key, history>>

\* and later its Enter, if the screen then allows it and the pane takes it.
NoticeEnds ==
    /\ notifying /\ notifying' = FALSE
    /\ \/ session = "up" /\ Submit
       \/ UNCHANGED <<box, sent>>
    /\ UNCHANGED <<authority, stage, residue, session, answering, here, key, history>>

-----------------------------------------------------------------------------
(* The vendor's CLI and the authority's answer to its prompts. *)

\* A prompt is blocked when no rule below admits it, and also when the hook or
\* its bytes fail; the CLI drops it or puts it back into the input.
Blocks(p) ==
    /\ box' \in {box, Join(p, box)} /\ UNCHANGED <<authority, answering, admitted, answered>>

\* A prompt that is not blocked is answered, with all it holds.
Answers(p) == answering' = Pieces(p) /\ answered' = answered \cup (Pieces(p) \cap Utterance)

\* The exact text of the pending turn, under its marker, and nothing else.
Admits(p) ==
    /\ p = <<pending>>
    /\ pending' = None /\ active' = pending /\ ended' = None
    /\ Fates({pending}, "submission")
    /\ Answers(p) /\ admitted' = admitted \cup {pending} /\ UNCHANGED box

\* A prompt without a marker in front counts as the operator's own, whatever
\* lies behind; it ends the denial of a turn they ended.
AdmitsOther(p) ==
    /\ Head(p) \notin Utterance /\ pending = None /\ active = None
    /\ ended' = None /\ Answers(p)
    /\ UNCHANGED <<pending, active, fate, box, admitted>>

\* UserPromptSubmit, when the answer before it is over.
Presents ==
    /\ sent # <<>> /\ answering = {} /\ session # "down"
    /\ sent' = Tail(sent)
    /\ \/ Blocks(Head(sent)) \/ Admits(Head(sent)) \/ AdmitsOther(Head(sent))
    /\ UNCHANGED <<stage, residue, session, here, key, notifying, resolved, lapsed, misjudged>>

AnswerEnds ==
    /\ answering # {} /\ answering' = {}
    /\ UNCHANGED <<authority, stage, residue, session, box, sent, here, key, notifying, history>>

\* manager.kill: the process is told to go; nothing is released yet.
KillsConductor ==
    /\ session = "up" /\ session' = "terminating"
    /\ UNCHANGED <<authority, stage, residue, box, sent, answering, here, key, notifying, history>>

\* reset(): the fate it gives is that of an admitted turn if it held one.
Reset ==
    LET turn == IF active # None THEN active ELSE IF pending # None THEN pending ELSE ended
        wasAdmitted == active # None \/ ended # None
    IN /\ pending' = None /\ active' = None /\ ended' = None
       /\ Fates({turn}, IF wasAdmitted THEN "submission" ELSE "by_exit")
       /\ misjudged' = IF wasAdmitted /\ turn = pending THEN misjudged \cup {turn} ELSE misjudged

\* onConductorSessionEnded, on the observed exit.
Exits ==
    /\ session # "down" /\ session' = "down"
    /\ Reset /\ residue' = FALSE
    /\ box' = <<>> /\ sent' = <<>> /\ answering' = {} /\ here' = {}
    /\ UNCHANGED <<stage, key, notifying, admitted, answered, resolved, lapsed>>

\* A fresh process has a fresh input.
Launches ==
    /\ session = "down" /\ session' = "up" /\ residue' = FALSE
    /\ UNCHANGED <<authority, stage, box, sent, answering, here, key, notifying, history>>

VoiceNext ==
    /\ \/ \E u \in Utterance : Deliver(u)
       \/ \E k \in {"char", "enter", "clear"} : Presses(k)
       \/ KeyArrives \/ NoticeComes \/ NoticeEnds
       \/ Presents \/ AnswerEnds \/ KillsConductor \/ Exits \/ Launches
    /\ spliced' = spliced \cup Behind(box')

VoiceSpec == VoiceInit /\ [][VoiceNext]_voiceVars

-----------------------------------------------------------------------------
\* While the CLI answers an utterance, tools are denied, whatever the operator
\* pressed since and whatever came before it out of the queue.  Excepted are an
\* utterance behind other text, which the authority cannot tell from the
\* operator's own prompt, and the answer of an ended turn when a second turn,
\* still pending, was disarmed over it.
VoiceAnswersAreDenied ==
    \A u \in answering \cap Utterance : Restricted \/ u \in lapsed \cup spliced

\* What the operator is told is so: "delivered" was accepted by the authority,
\* and a turn reported as ended before that is never answered, not even later
\* from the vendor's queue, unless it got behind other text there.  Excepted
\* too is a pending turn at an exit that also found an earlier turn ended.
ReportsAreTrue == \A u \in Utterance :
    /\ stage[u] = "delivered" => u \in admitted \cup misjudged
    /\ fate[u] \in {"by_operator", "cancelled", "by_exit"} => u \notin answered \ spliced

\* An utterance that lies in the input when its delivery is over is marked, so
\* that the next one is not spliced onto it, until the operator resolves it.
InputIsMarked == \A u \in Utterance :
    (\E i \in DOMAIN box : box[i] = u) /\ stage[u] \in Settled /\ u \notin resolved
        => residue
=============================================================================
