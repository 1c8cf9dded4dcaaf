------------------------------ MODULE TaskRoom ------------------------------
(***************************************************************************)
(* The room of a task attempt (livekit/tasks.rs): the provider's socket,   *)
(* what was asked of it and not answered yet, the mute, and the budget of  *)
(* replacements.  TaskSession has the attempt; here it is a phase.         *)
(*                                                                         *)
(* A request of the platform is a hint, a wrap-up question or a notice     *)
(* (the greeting, a nudge, a question on a run, the word that wrap-up      *)
(* began).  A send that fails and a socket that stalls or closes are one   *)
(* thing to the room: the socket is not alive.  How long a reply, a        *)
(* backoff or an absence lasts is left open.                               *)
(***************************************************************************)
EXTENDS Naturals, Sequences, FiniteSets, SequencesExt

CONSTANTS
    RestartLimit,   \* GEMINI_RESTART_LIMIT
    Hints,          \* how many hints the task has
    Questions,      \* the understanding checks still open at wrap-up
    WrapUpChecks,   \* wrapUpChecks: how many of them may be asked
    Notice,         \* any other request
    Nothing,
    MaxQueue        \* bound: no nudge is added to a queue this long

ASSUME RoomLimits ==
    /\ RestartLimit \in Nat \ {0} /\ Hints \in Nat /\ WrapUpChecks \in Nat
    /\ MaxQueue \in Nat
    /\ Notice \notin Questions \union Nat /\ Nothing \notin Questions \union Nat \union {Notice}
    /\ Questions \intersect Nat = {}

VARIABLES
    stage,      \* the attempt's phase, and whether Finish froze the code; here
                \* "feedback" is what feedback() ends, the rest is "ended"
    present,    \* the learner's page is in the room
    alive,      \* a socket is open
    budget,     \* replacements spent, and what the next one is for
    told,       \* the availability the page was told
    queue,      \* pending_context
    unanswered, \* unanswered_context
    inbox,      \* what the open socket was asked and has not begun to answer
    voice,      \* speech and reply in progress, and whether output is muted
    asked,      \* questions reserved, and whether one was sent
    history     \* hints spent, questions sent, requests whose reply was heard

roomVars == <<stage, present, alive, budget, told, queue, unanswered, inbox, voice, asked, history>>

Request == 1..Hints \union Questions \union {Notice}

RoomInit ==
    /\ stage = [phase |-> "ready", finished |-> FALSE]
    /\ present \in BOOLEAN /\ alive = TRUE
    /\ budget = [attempts |-> 0, intentional |-> FALSE, outage |-> FALSE, aged |-> FALSE]
    /\ told = "available"
    /\ queue = <<>> /\ unanswered = Nothing /\ inbox = {}
    /\ voice = [speech |-> FALSE, reply |-> FALSE, muted |-> FALSE, recording |-> FALSE]
    /\ asked = [reserved |-> {}, any |-> FALSE]
    /\ history = [hints |-> 0, questions |-> {}, heard |-> {}]

Ongoing == stage.phase \in {"ready", "work", "wrap-up"}
Working == stage.phase \in {"work", "wrap-up"}
Audible == present /\ ~voice.muted

SocketLost == alive' = FALSE /\ inbox' = {}

(***************************************************************************)
(* Requests of the platform                                                *)
(***************************************************************************)

\* send_or_queue.
SendOrQueue(request) ==
    \/ /\ alive
       /\ inbox' = inbox \union {request} /\ unanswered' = request
       /\ UNCHANGED <<alive, queue>>
    \/ SocketLost /\ queue' = Append(queue, request) /\ UNCHANGED unanswered

Exhausted == budget.attempts >= RestartLimit /\ ~budget.intentional

\* outage_availability: nothing new is told during a deliberate restart.
DuringOutage ==
    IF budget.intentional THEN told ELSE IF Exhausted THEN "unavailable" ELSE "degraded"

\* What on_data tells before it looks at a message.
ToldNow == IF alive \/ told = "unavailable" THEN told ELSE DuringOutage

BeginWork ==
    /\ stage.phase = "ready" /\ present
    /\ stage' = [stage EXCEPT !.phase = "work"]
    /\ told' = ToldNow
    /\ SendOrQueue(Notice)
    /\ UNCHANGED <<present, budget, voice, asked, history>>

AskForHint ==
    /\ Working /\ ~stage.finished /\ ToldNow = "available"
    /\ history.hints < Hints
    /\ history' = [history EXCEPT !.hints = @ + 1]
    /\ told' = ToldNow
    /\ SendOrQueue(history.hints + 1)
    /\ UNCHANGED <<stage, present, budget, voice, asked>>

\* A message of the page that asks nothing of the interviewer, or is refused.
OtherMessage ==
    /\ Ongoing /\ told' = ToldNow
    /\ UNCHANGED <<stage, present, alive, budget, queue, unanswered, inbox, voice, asked, history>>

\* A run, a Discuss or a nudge.
Prompt ==
    /\ Working /\ Len(queue) < MaxQueue
    /\ told' \in {told, ToldNow}
    /\ SendOrQueue(Notice)
    /\ UNCHANGED <<stage, present, budget, voice, asked, history>>

ConfirmFinish ==
    /\ Working /\ ~stage.finished
    /\ stage' = [phase |-> "wrap-up", finished |-> TRUE]
    /\ told' = ToldNow
    /\ SendOrQueue(Notice)
    /\ UNCHANGED <<present, budget, voice, asked, history>>

\* tick enters wrap-up; a learner who is away is told nothing yet.
BeginWrapUp ==
    /\ stage.phase = "work"
    /\ stage' = [stage EXCEPT !.phase = "wrap-up"]
    /\ IF present THEN SendOrQueue(Notice)
       ELSE queue' = Append(queue, Notice) /\ UNCHANGED <<alive, unanswered, inbox>>
    /\ UNCHANGED <<present, budget, told, voice, asked, history>>

\* Mutant: a question whose send failed stays reserved.
StaysReserved(question) == asked.reserved \union {question}

\* retry_wrap_up_check.
GivenBack(question) == asked.reserved \ {question}

\* ask_wrap_up goes on once what was to be recorded is, or its time ran out.
AfterRecording == [voice EXCEPT !.recording = FALSE, !.muted = @ /\ ~voice.recording]

MayAsk == stage.phase = "wrap-up" /\ present /\ alive

NothingLeftToAsk == Cardinality(asked.reserved) >= WrapUpChecks \/ Questions \subseteq asked.reserved

\* send_wrap_up_question.
AskWrapUp ==
    /\ MayAsk /\ Cardinality(asked.reserved) < WrapUpChecks
    /\ \E q \in Questions \ asked.reserved :
        \/ /\ asked' = [reserved |-> asked.reserved \union {q}, any |-> TRUE]
           /\ history' = [history EXCEPT !.questions = @ \union {q}]
           /\ inbox' = inbox \union {q} /\ unanswered' = q /\ UNCHANGED alive
        \/ /\ asked' = [asked EXCEPT !.reserved = GivenBack(q)]
           /\ SocketLost /\ UNCHANGED <<unanswered, history>>
    /\ voice' = AfterRecording
    /\ UNCHANGED <<stage, present, budget, told, queue>>

\* Nothing is left to ask; that ends the attempt of a learner who has finished.
AskNothing ==
    /\ MayAsk /\ NothingLeftToAsk
    /\ stage' = [stage EXCEPT !.phase = IF stage.finished THEN "feedback" ELSE @]
    /\ voice' = AfterRecording
    /\ UNCHANGED <<present, alive, budget, told, queue, unanswered, inbox, asked, history>>

\* finish_without_interviewer: nobody is left to ask.
EndWithoutInterviewer ==
    /\ stage.phase = "wrap-up" /\ stage.finished /\ present /\ ~alive /\ Exhausted
    /\ stage' = [stage EXCEPT !.phase = "feedback"]
    /\ UNCHANGED <<present, alive, budget, told, queue, unanswered, inbox, voice, asked, history>>

\* The deadline, a broken rule or a page that is gone for good.
EndOtherwise ==
    /\ Working
    /\ stage' = [stage EXCEPT !.phase = "ended"]
    /\ UNCHANGED <<present, alive, budget, told, queue, unanswered, inbox, voice, asked, history>>

(***************************************************************************)
(* The page and the socket                                                 *)
(***************************************************************************)

PageGoes ==
    /\ Ongoing /\ present /\ present' = FALSE
    /\ voice' = [voice EXCEPT !.muted = @ \/ stage.phase # "ready"]
    /\ UNCHANGED <<stage, alive, budget, told, queue, unanswered, inbox, asked, history>>

\* The page returns: the room restarts its interviewer once work has begun.
PageComesBack ==
    /\ Ongoing /\ ~present /\ present' = TRUE
    /\ IF stage.phase = "ready" THEN UNCHANGED <<alive, inbox, budget>>
       ELSE SocketLost /\ budget' = [budget EXCEPT !.intentional = TRUE]
    /\ UNCHANGED <<stage, told, queue, unanswered, voice, asked, history>>

SocketCloses ==
    /\ Ongoing /\ alive /\ SocketLost
    /\ UNCHANGED <<stage, present, budget, told, queue, unanswered, voice, asked, history>>

LearnerSpeaks ==
    /\ Working /\ present /\ alive
    /\ voice' = [voice EXCEPT !.speech = TRUE]
    /\ UNCHANGED <<stage, present, alive, budget, told, queue, unanswered, inbox, asked, history>>

\* Mutant: what was asked stays owed when its reply was heard.
StillOwed == unanswered

\* Output the page was not there to hear leaves the request owed.
OwedAfterOutput == IF Audible THEN Nothing ELSE unanswered

\* Output answers what the socket was asked; its transcript may come later.
ReplyBegins ==
    /\ Ongoing /\ alive /\ inbox # {}
    /\ inbox' = {}
    /\ unanswered' = OwedAfterOutput
    /\ history' = [history EXCEPT !.heard = IF Audible THEN @ \union inbox ELSE @]
    /\ \E transcribed \in BOOLEAN : voice' = [voice EXCEPT !.reply = @ \/ transcribed]
    /\ UNCHANGED <<stage, present, alive, budget, told, queue, asked>>

\* More of a reply that began before the latest request was sent.
ReplyContinues ==
    /\ Ongoing /\ alive /\ voice.reply
    /\ unanswered' = OwedAfterOutput
    /\ UNCHANGED <<stage, present, alive, budget, told, queue, inbox, voice, asked, history>>

\* captured_turn_context: an answer to a wrap-up question asks for a silent
\* reply that records it.
RecordNow == voice.speech /\ present /\ stage.phase = "wrap-up" /\ asked.any

\* on_turn_complete; the context that captures the learner's turn may not be
\* delivered.
TurnCompletes ==
    /\ Ongoing /\ alive
    /\ unanswered' = OwedAfterOutput
    /\ \/ /\ voice' = [speech |-> FALSE, reply |-> FALSE, muted |-> RecordNow, recording |-> RecordNow]
          /\ UNCHANGED <<alive, inbox>>
       \/ /\ voice.speech /\ present /\ SocketLost
          /\ voice' = [speech |-> FALSE, reply |-> FALSE, muted |-> FALSE, recording |-> FALSE]
    /\ UNCHANGED <<stage, present, budget, told, queue, asked, history>>

(***************************************************************************)
(* recover                                                                 *)
(***************************************************************************)

\* failed: the age of a socket is measured against the budget once.
AfterFailure == [budget EXCEPT !.outage = TRUE, !.aged = @ \/ ~budget.outage]

\* take_restart_attempt: a socket that lived long gives the budget back.
Spent == {AfterFailure.attempts} \union (IF AfterFailure.aged THEN {0} ELSE {})

\* start_attempt: a deliberate restart is always allowed, and counts only if it
\* fails.  Attempts past the limit are all alike, so the count stops there.
Attempts ==
    IF budget.intentional THEN {AfterFailure}
    ELSE {[AfterFailure EXCEPT !.attempts = n + 1, !.aged = FALSE] :
            n \in {m \in Spent : m < RestartLimit}}

\* failed_attempt.
AfterFailedAttempt ==
    {[spent EXCEPT !.intentional = FALSE,
                   !.attempts = IF budget.intentional /\ @ < RestartLimit THEN @ + 1 ELSE @] :
        spent \in Attempts}

MayReplace == ~alive /\ Ongoing /\ present

\* recover does no more while the page is away or the backoff lasts, or when the
\* budget is spent.
WaitForSocket ==
    /\ ~alive /\ Ongoing
    /\ \E used \in BOOLEAN : budget' =
         IF used /\ present /\ ~budget.intentional /\ budget.attempts >= RestartLimit
         THEN [AfterFailure EXCEPT !.aged = FALSE] ELSE AfterFailure
    /\ told' = DuringOutage
    /\ UNCHANGED <<stage, present, alive, queue, unanswered, inbox, voice, asked, history>>

ReplacementFails ==
    /\ MayReplace
    /\ budget' \in AfterFailedAttempt
    /\ told' = DuringOutage
    /\ UNCHANGED <<stage, present, alive, queue, unanswered, inbox, voice, asked, history>>

\* unanswered_request: a reply that had begun is taken to have been heard.
Owed == IF unanswered = Nothing \/ voice.reply THEN queue ELSE <<unanswered>> \o queue

\* brief_replacement fails: what was replayed before went to the new socket.
BriefingFails ==
    /\ MayReplace
    /\ budget' \in AfterFailedAttempt
    /\ told' = DuringOutage
    /\ \E sent \in 0..Len(Owed) : queue' = SubSeq(Owed, sent + 1, Len(Owed))
    /\ unanswered' = Nothing
    /\ voice' = [voice EXCEPT !.reply = FALSE]
    /\ UNCHANGED <<stage, present, alive, inbox, asked, history>>

\* Mutant: the replacement is as mute as the socket it replaces.
StaysMuted == [voice EXCEPT !.reply = FALSE, !.recording = FALSE]

Unmuted == [voice EXCEPT !.reply = FALSE, !.recording = FALSE, !.muted = FALSE]

ReplaceSocket ==
    /\ MayReplace
    /\ \E spent \in Attempts :
         budget' = [spent EXCEPT !.intentional = FALSE, !.outage = FALSE]
    /\ alive' = TRUE /\ told' = "available"
    /\ inbox' = ToSet(Owed) /\ queue' = <<>> /\ unanswered' = Nothing
    /\ voice' = Unmuted
    /\ UNCHANGED <<stage, present, asked, history>>

RoomNext ==
    \/ BeginWork
    \/ AskForHint
    \/ OtherMessage
    \/ Prompt
    \/ ConfirmFinish
    \/ BeginWrapUp
    \/ AskWrapUp
    \/ AskNothing
    \/ EndWithoutInterviewer
    \/ EndOtherwise
    \/ PageGoes
    \/ PageComesBack
    \/ SocketCloses
    \/ LearnerSpeaks
    \/ ReplyBegins
    \/ ReplyContinues
    \/ TurnCompletes
    \/ WaitForSocket
    \/ ReplacementFails
    \/ BriefingFails
    \/ ReplaceSocket

RoomSpec == RoomInit /\ [][RoomNext]_roomVars

(***************************************************************************)
(* Properties                                                              *)
(***************************************************************************)

\* Whatever muted the interviewer - a page that left, an answer to be recorded
\* in silence - a learner in the room with an open socket is muted only while
\* that recording is outstanding (suppress_output, livekit/tasks.rs).
NotMutedForNothing == Working /\ present /\ alive /\ voice.muted => voice.recording

\* The bounded wrap-up questions go to a socket and are not used up by sends
\* that failed: an attempt that was finished ends with as many asked as may be,
\* unless no interviewer was left to ask them (ask_wrap_up and
\* retry_wrap_up_check).
QuestionsAreAsked ==
    /\ asked.reserved \subseteq history.questions
    /\ stage.phase = "feedback" /\ stage.finished /\ alive =>
            Questions \subseteq history.questions \/ Cardinality(history.questions) >= WrapUpChecks

\* A reply the learner heard is not asked for again: the requests a replacement
\* socket will be given were not answered to anybody (unanswered_context,
\* livekit/tasks.rs).
OwedIsUnheard ==
    history.heard \intersect (ToSet(queue) \union {unanswered}) \subseteq {Notice}

\* "A replacement provider connection is briefed with ... any reply still owed,
\* including a platform request the dropped connection never began to answer"
\* (docs/task-mode.md): the last hint or question sent was heard, or it is put
\* to the replacement.
OwedIsAskedAgain ==
    [][~alive /\ alive' =>
         unanswered \in {Nothing, Notice} \union history.heard \union inbox']_roomVars

=============================================================================
