---------------------------- MODULE AgentRecovery ----------------------------
(***************************************************************************)
(* What the interviewer owes the candidate, and how a broken model session *)
(* is replaced while it owes it (livekit/turn.rs, session.rs, packets.rs,  *)
(* replacement.rs, recovery.rs, agent/turn_taking.rs).                     *)
(*                                                                         *)
(* The provider may send any event at any time.  Any send may fail, the    *)
(* replacement may break at every step, and the page's packets arrive at   *)
(* every wait.  Deadlines (a stall, a cooldown, a grace) are choices.      *)
(* The speech handoff of a planned rotation, reviews that silence may      *)
(* answer and the close are left out.                                      *)
(***************************************************************************)
EXTENDS Naturals

VARIABLES
    reply,      \* RuntimeActivity: what is owed, what goes on, the floor
    work,       \* SocketWork: what the open socket still owes the room
    notes,      \* the thinking hold, and the debt its end has to pay
    turnOpen,   \* a turn of the candidate is open
    model,      \* the session: whether it knows the interview, its handle
    driver,     \* the replacement under way
    stand       \* where the room stands

recoveryVars == <<reply, work, notes, turnOpen, model, driver, stand>>

NoReply ==
    [awaiting |-> FALSE, prompted |-> FALSE, unvoiced |-> FALSE,
     behind |-> FALSE, generating |-> FALSE, floor |-> "listening"]
NoWork ==
    [discarding |-> FALSE, deferred |-> FALSE, fallback |-> FALSE,
     interrupted |-> FALSE, stale |-> FALSE, tool |-> FALSE]
NoDriver ==
    [resumed |-> FALSE, second |-> FALSE, action |-> FALSE, contexts |-> FALSE,
     toggle |-> FALSE, asked |-> "no", obliged |-> FALSE, fresh |-> TRUE,
     wasHeld |-> FALSE, owed |-> FALSE, asks |-> FALSE, pays |-> "nothing"]

RecoveryInit ==
    /\ reply = NoReply /\ work = NoWork /\ turnOpen = FALSE
    /\ notes = [hold |-> "off", unheard |-> FALSE, owed |-> FALSE, cold |-> FALSE]
    /\ model = [memory |-> "told", handle |-> "no"]
    /\ driver = NoDriver /\ stand = "live"

(***************************************************************************)
(* What is owed.                                                           *)
(***************************************************************************)
ReplyUnfinished ==
    reply.awaiting \/ reply.prompted \/ reply.generating \/ work.tool \/ work.deferred

OwesContext == notes.cold \/ notes.unheard \/ notes.owed

MarkPrompted(r) ==
    [r EXCEPT !.behind = r.generating, !.floor = "speaking", !.prompted = TRUE, !.unvoiced = TRUE]
OwePrompt(r) == [r EXCEPT !.prompted = TRUE, !.unvoiced = TRUE, !.behind = FALSE]
NoteOutput(r) == [r EXCEPT !.generating = TRUE, !.prompted = @ /\ r.behind]
NoteAudible(r) ==
    [r EXCEPT !.unvoiced = @ /\ r.behind, !.awaiting = FALSE, !.floor = "speaking"]
Boundary(r) ==
    [r EXCEPT !.generating = FALSE, !.behind = FALSE, !.awaiting = FALSE,
              !.prompted = @ /\ r.behind, !.unvoiced = @ /\ r.behind]
KeepDebt(r, old) ==
    [r EXCEPT !.awaiting = old.awaiting, !.prompted = old.unvoiced, !.unvoiced = old.unvoiced]

\* interviewer_silenced: by the button, or by words that still may change.
Silenced(n) == n.hold # "off"

ClearDebt(n) == [n EXCEPT !.cold = FALSE, !.unheard = FALSE, !.owed = FALSE]
\* The text that pays the debt is the whole briefing where that is owed.
Learn(m) == [m EXCEPT !.memory = IF notes.cold THEN "told" ELSE @]

\* cut_off_for_hold: what the model is still saying is dropped to its end.
Discards(r, w, stalled, recent) ==
    \/ w.discarding
    \/ (r.floor = "speaking" \/ r.generating) /\ ~stalled
    \/ w.tool /\ recent
CutForHold(r, w, discards) ==
    [w EXCEPT !.discarding = discards, !.tool = FALSE, !.stale = @ \/ (r.generating /\ ~discards)]
Unheard(n, r) == [n EXCEPT !.unheard = @ \/ r.floor # "listening"]

\* The end of a turn is the end of the words that asked for time.
Confirmed(n) == [n EXCEPT !.hold = IF @ = "asked" THEN "held" ELSE @]

\* A reply that waited for its discard to end is asked for, and an answer of
\* tool calls alone is followed by a question.
AfterEvent(r, w, wordless) ==
    LET due == w.deferred /\ ~w.discarding /\ ~Silenced(notes')
    IN  /\ work' = [w EXCEPT !.deferred = @ /\ ~due]
        /\ \E quiet \in BOOLEAN :
             reply' = IF due \/ (wordless /\ quiet /\ ~Silenced(notes'))
                      THEN MarkPrompted(r) ELSE r

(***************************************************************************)
(* The candidate, the page and the clock, while a session is up.           *)
(***************************************************************************)
Serving == stand = "live" /\ UNCHANGED <<driver, stand>>

\* prepare_input_transcript.  Words may cut what is still playing, ask for
\* time, take that back, or end the hold and so pay what it left owed.
Speak ==
    /\ Serving
    /\ turnOpen' = TRUE
    /\ \E playing, tail \in BOOLEAN :
         LET drops == reply.floor = "playout" /\ playing
             cut == IF drops THEN NoReply
                    ELSE IF reply.floor = "playout" THEN [reply EXCEPT !.floor = "listening"]
                    ELSE reply
             spoken == IF cut.generating \/ tail THEN cut
                       ELSE [cut EXCEPT !.awaiting = TRUE, !.prompted = FALSE, !.unvoiced = FALSE]
             heard == [work EXCEPT !.fallback = FALSE, !.tool = @ /\ ~drops]
         IN  \/ UNCHANGED <<notes, model>> /\ AfterEvent(spoken, heard, FALSE)
             \/ /\ notes.hold = "off"
                /\ notes' = [Unheard(notes, spoken) EXCEPT !.hold = "asked"]
                /\ \E stalled, recent \in BOOLEAN :
                     /\ stalled => spoken.generating
                     /\ AfterEvent(NoReply, CutForHold(spoken, heard,
                                              Discards(spoken, heard, stalled, recent)), FALSE)
                /\ UNCHANGED model
             \/ /\ Silenced(notes)
                /\ \E sent \in BOOLEAN :
                     LET pays == OwesContext /\ sent
                         w == [heard EXCEPT !.deferred = @ \/ heard.discarding]
                     IN  /\ notes' = [(IF pays THEN ClearDebt(notes) ELSE notes) EXCEPT !.hold = "off"]
                         /\ model' = IF pays THEN Learn(model) ELSE model
                         /\ AfterEvent(IF OwesContext /\ ~sent THEN MarkPrompted(spoken) ELSE spoken,
                                       w, FALSE)

\* Nothing said that the words asking for time were all of it.
ConfirmLate ==
    /\ Serving /\ notes.hold = "asked"
    /\ notes' = Confirmed(notes) /\ work' = [work EXCEPT !.deferred = FALSE]
    /\ UNCHANGED <<reply, turnOpen, model>>

Think ==
    /\ Serving /\ notes.hold # "held"
    /\ \E stalled, recent \in BOOLEAN :
         LET w == [work EXCEPT !.deferred = @ /\ notes.hold # "asked"]
         IN  /\ stalled => reply.generating
             /\ work' = CutForHold(reply, w, Discards(reply, w, stalled, recent))
    /\ notes' = [Unheard(notes, reply) EXCEPT !.hold = "held"]
    /\ reply' = NoReply
    /\ turnOpen' = (turnOpen /\ reply.floor = "listening")
    /\ UNCHANGED model

\* Continue, a turn that is yielded, or a packet that may not wait for the
\* hold's end.  Continue soon after the last one may ask for nothing.
Ends(by, asks) ==
    CASE by = "button" -> Silenced(notes) /\ (asks \/ ~OwesContext)
      [] by = "yield" -> asks = (notes.hold = "held" \/ OwesContext)
      [] by = "packet" -> Silenced(notes) /\ asks

\* settle_hold: with a turn of the candidate still open the prompt goes as
\* context, and a reply is asked for later if none comes.
Release ==
    /\ Serving
    /\ \E by \in {"button", "yield", "packet"}, asks, sent, finalized \in BOOLEAN :
         LET finalizes == by = "yield" \/ (asks /\ (by = "button" \/ notes.hold = "held"))
             context == finalizes /\ asks /\ turnOpen /\ sent
             drops == work.discarding /\ (context \/ (by = "yield" /\ notes.hold = "asked"))
             r == IF context /\ work.discarding THEN OwePrompt(reply) ELSE reply
             unanswered == IF asks THEN ~(context /\ finalized) ELSE finalizes /\ ~finalized
         IN  /\ Ends(by, asks)
             /\ notes' = [(IF asks /\ sent THEN ClearDebt(notes) ELSE notes) EXCEPT !.hold = "off"]
             /\ model' = IF asks /\ sent THEN Learn(model) ELSE model
             /\ work' = [work EXCEPT !.deferred = @ \/ drops,
                                     !.fallback = @ \/ (context /\ ~work.discarding)]
             /\ reply' = IF unanswered THEN MarkPrompted(r) ELSE r
    /\ UNCHANGED turnOpen

\* A test report, a warning of the time: something the model is asked to say.
News ==
    /\ Serving /\ ~Silenced(notes)
    /\ reply' = MarkPrompted(reply)
    /\ UNCHANGED <<work, notes, turnOpen, model>>

CheckIn ==
    /\ Serving /\ notes.hold = "held"
    /\ \E sent \in BOOLEAN :
         /\ notes' = [(IF sent THEN ClearDebt(notes) ELSE notes) EXCEPT !.hold = "off"]
         /\ model' = IF sent THEN Learn(model) ELSE model
    /\ reply' = MarkPrompted(reply)
    /\ UNCHANGED <<work, turnOpen>>

Fallback ==
    /\ Serving /\ ~Silenced(notes)
    /\ work.fallback /\ reply.floor = "listening" /\ ~reply.generating
    /\ work' = [work EXCEPT !.fallback = FALSE]
    /\ reply' = MarkPrompted(reply)
    /\ UNCHANGED <<notes, turnOpen, model>>

\* settle_stalls: a prompt, a turn or a tool's continuation took too long.
Stall ==
    /\ Serving
    /\ \E prompt, tool, begun \in BOOLEAN :
         LET owes == reply.prompted \/ (reply.awaiting /\ ~reply.generating)
         IN  /\ prompt => reply.floor = "speaking" /\ owes
             /\ tool => work.tool
             /\ begun => reply.generating
             /\ work' = [work EXCEPT !.tool = @ /\ ~tool]
             /\ LET r == IF prompt THEN [reply EXCEPT !.floor = "listening"] ELSE reply
                IN  reply' = IF tool /\ ~begun /\ ~reply.prompted
                             THEN [r EXCEPT !.prompted = TRUE, !.behind = FALSE] ELSE r
    /\ UNCHANGED <<notes, turnOpen, model>>

PlayoutEnds ==
    /\ Serving /\ reply.floor = "playout"
    /\ reply' = [reply EXCEPT !.floor = "listening"]
    /\ UNCHANGED <<work, notes, turnOpen, model>>

(***************************************************************************)
(* The provider's events.                                                  *)
(***************************************************************************)
Checkpoint ==
    /\ Serving
    /\ model' = [model EXCEPT !.handle = model.memory]
    /\ UNCHANGED <<reply, work, notes, turnOpen>>

\* A hold drops the reply and the rest of it, and has to disown it later.
DropOutput ==
    /\ work.discarding \/ Silenced(notes)
    /\ notes' = [notes EXCEPT !.unheard = @ \/ Silenced(notes)]
    /\ AfterEvent(reply, [work EXCEPT !.discarding = @ \/ Silenced(notes)], FALSE)

Output ==
    /\ Serving
    /\ \/ DropOutput
       \/ /\ ~work.discarding /\ ~Silenced(notes)
          /\ UNCHANGED notes
          /\ \E audible, playing \in BOOLEAN :
               LET said == NoteOutput(reply)
                   cut == audible /\ playing /\ reply.floor = "playout"
               IN  AfterEvent(IF ~audible THEN said ELSE NoteAudible(IF cut THEN NoReply ELSE said),
                              [work EXCEPT !.fallback = FALSE, !.interrupted = FALSE,
                                           !.stale = FALSE, !.tool = @ /\ ~cut], FALSE)
    /\ UNCHANGED <<turnOpen, model>>

\* Tools are called whoever has the floor.
ToolCall ==
    /\ Serving /\ UNCHANGED <<notes, turnOpen, model>>
    /\ \E sent \in BOOLEAN :
         IF work.discarding THEN AfterEvent(reply, work, FALSE)
         ELSE AfterEvent(NoteOutput(reply),
                  [work EXCEPT !.fallback = FALSE, !.tool = @ \/ sent,
                               !.interrupted = @ /\ Silenced(notes),
                               !.stale = @ /\ Silenced(notes)], FALSE)

\* on_turn_complete, once the boundary is settled.
Completed(r, playing) ==
    [r EXCEPT !.awaiting = @ /\ ~Silenced(notes), !.floor = IF playing THEN "playout" ELSE "listening"]

TurnComplete ==
    /\ Serving /\ UNCHANGED model
    /\ notes' = Confirmed(notes)
    /\ LET wordless == reply.generating /\ reply.awaiting /\ ~reply.behind /\ ~work.discarding
           late == [reply EXCEPT !.awaiting = @ /\ ~Silenced(notes)]
           w == [work EXCEPT !.deferred = @ /\ notes.hold # "asked"]
       IN  \/ /\ work.stale
              /\ AfterEvent(late, [w EXCEPT !.stale = FALSE], wordless)
              /\ UNCHANGED turnOpen
           \/ /\ ~work.stale /\ (work.interrupted \/ work.discarding)
              /\ AfterEvent(late, [w EXCEPT !.interrupted = FALSE, !.discarding = FALSE], wordless)
              /\ UNCHANGED turnOpen
           \/ /\ ~work.stale /\ ~work.interrupted /\ ~work.discarding
              /\ \E playing \in BOOLEAN :
                   AfterEvent(Completed(Boundary(reply), playing), [w EXCEPT !.tool = FALSE], wordless)
              /\ turnOpen' = FALSE

\* A turn is kept to its end until the candidate has once been understood.
Interrupted ==
    /\ Serving /\ UNCHANGED model
    /\ \/ /\ work.stale /\ UNCHANGED <<notes, turnOpen>>
          /\ AfterEvent(reply, work, FALSE)
       \/ /\ ~work.stale /\ work.discarding /\ UNCHANGED <<notes, turnOpen>>
          /\ \E speaking \in BOOLEAN :
               AfterEvent(reply, [work EXCEPT !.interrupted = TRUE, !.discarding = FALSE,
                                              !.deferred = @ /\ ~speaking], FALSE)
       \/ /\ ~work.stale /\ ~work.discarding
          /\ turnOpen' = FALSE
          /\ LET w == [work EXCEPT !.interrupted = TRUE, !.tool = FALSE]
             IN  \/ /\ UNCHANGED notes
                    /\ AfterEvent(KeepDebt(NoReply, reply), w, FALSE)
                 \/ /\ notes' = Confirmed(notes)
                    /\ \E playing \in BOOLEAN :
                         AfterEvent(Completed(KeepDebt(Boundary(reply), reply), playing),
                                    [w EXCEPT !.deferred = @ /\ notes.hold # "asked"], FALSE)

(***************************************************************************)
(* The replacement.                                                        *)
(***************************************************************************)
\* hand_over: what was in flight died with the socket, what is owed did not.
Replace ==
    /\ stand = "live"
    /\ reply' = IF ReplyUnfinished THEN OwePrompt(NoReply) ELSE NoReply
    /\ work' = NoWork /\ turnOpen' = FALSE
    /\ notes' = [notes EXCEPT !.hold = IF @ = "asked" THEN "off" ELSE @]
    /\ driver' = NoDriver /\ stand' = "setup"
    /\ UNCHANGED model

Setup ==
    /\ stand = "setup" /\ stand' = "brief"
    /\ \E resumed \in BOOLEAN :
         /\ resumed => model.handle # "no"
         /\ driver' = [driver EXCEPT !.resumed = resumed]
         /\ model' = IF ~resumed THEN [memory |-> "none", handle |-> "no"]
                     ELSE [model EXCEPT !.memory =
                             IF model.handle = "none" /\ ~notes.cold THEN "behind" ELSE model.handle]
    /\ UNCHANGED <<reply, work, notes, turnOpen>>

\* prepare_recovery_brief: what the briefing asks for and what it will have
\* paid once it is sent.  It carries the request that was queued last.
Brief ==
    /\ stand = "brief" /\ stand' = "briefing"
    /\ LET update == driver.resumed /\ ~notes.cold
           asks == ~Silenced(notes) /\ (update => ReplyUnfinished)
       IN  driver' = [driver EXCEPT
               !.action = FALSE, !.obliged = FALSE, !.fresh = TRUE,
               !.wasHeld = Silenced(notes), !.owed = ReplyUnfinished, !.asks = asks,
               !.pays = IF asks THEN "debt" ELSE IF update THEN "nothing" ELSE "cold"]
    /\ notes' = [notes EXCEPT !.owed = @ \/ (ReplyUnfinished /\ Silenced(notes))]
    /\ UNCHANGED <<reply, work, turnOpen, model>>

\* A whole briefing went where the session was cold or still is.
BriefSent ==
    /\ stand = "briefing"
    /\ notes' = IF driver.obliged THEN notes
                ELSE CASE driver.pays = "debt" -> ClearDebt(notes)
                       [] driver.pays = "cold" -> [notes EXCEPT !.cold = FALSE]
                       [] OTHER -> notes
    /\ model' = IF driver.resumed THEN Learn(model) ELSE [model EXCEPT !.memory = "told"]
    /\ reply' = IF driver.fresh /\ driver.asks /\ ~Silenced(notes) THEN MarkPrompted(reply) ELSE reply
    /\ LET again == ~driver.second /\ (driver.action \/ driver.wasHeld # Silenced(notes))
       IN  /\ stand' = IF again THEN "brief" ELSE "contexts"
           /\ work' = [work EXCEPT !.discarding = @ \/ (again /\ driver.asks)]
           /\ driver' = [driver EXCEPT !.second = again,
                                       !.asked = IF driver.asks THEN "yes" ELSE @]
    /\ UNCHANGED turnOpen

\* Mutant: the session that was not briefed is installed as if it had been.
BriefFailsUnnoted ==
    /\ stand = "briefing" /\ stand' = "contexts"
    /\ reply' = IF driver.fresh /\ driver.owed THEN OwePrompt(reply) ELSE reply
    /\ driver' = [driver EXCEPT !.asked = "failed"]
    /\ UNCHANGED <<work, notes, turnOpen, model>>

BriefFails ==
    /\ stand = "briefing" /\ stand' = "contexts"
    /\ notes' = [notes EXCEPT !.cold = @ \/ ~driver.resumed]
    /\ reply' = IF driver.fresh /\ driver.owed THEN OwePrompt(reply) ELSE reply
    /\ driver' = [driver EXCEPT !.asked = "failed"]
    /\ UNCHANGED <<work, turnOpen, model>>

TellContexts ==
    /\ stand = "contexts"
    /\ stand' = IF driver.contexts THEN "telling" ELSE "actions"
    /\ driver' = [driver EXCEPT !.contexts = FALSE]
    /\ UNCHANGED <<reply, work, notes, turnOpen, model>>

ContextsTold ==
    /\ stand = "telling"
    /\ \/ stand' = "contexts" /\ UNCHANGED <<notes, driver>>
       \/ /\ stand' = "leaving"
          /\ notes' = [notes EXCEPT !.cold = TRUE]
          /\ driver' = [driver EXCEPT !.asked = "failed"]
    /\ UNCHANGED <<reply, work, turnOpen, model>>

Act ==
    /\ stand = "actions" /\ driver.action /\ ~Silenced(notes)
    /\ stand' = "acting"
    /\ driver' = [driver EXCEPT !.action = FALSE, !.obliged = FALSE, !.fresh = TRUE]
    /\ UNCHANGED <<reply, work, notes, turnOpen, model>>

\* Behind audio that still has to go out, a deadline stands by to ask again.
Acted ==
    /\ stand = "acting"
    /\ \/ /\ stand' = "actions"
          /\ reply' = IF driver.fresh THEN MarkPrompted(reply) ELSE reply
          /\ notes' = IF driver.obliged THEN notes ELSE ClearDebt(notes)
          /\ model' = Learn(model)
          /\ \E behind \in BOOLEAN :
               work' = [work EXCEPT !.fallback = @ \/ (behind /\ ~work.discarding)]
          /\ driver' = [driver EXCEPT !.asked = "yes"]
       \/ /\ stand' = "leaving"
          /\ notes' = [notes EXCEPT !.cold = @ \/ ~Silenced(notes)]
          /\ driver' = [driver EXCEPT !.asked = "failed"]
          /\ UNCHANGED <<reply, work, model>>
    /\ UNCHANGED turnOpen

DrainAgain ==
    /\ stand = "actions" /\ driver.contexts /\ ~(driver.action /\ ~Silenced(notes))
    /\ stand' = "contexts"
    /\ UNCHANGED <<reply, work, notes, turnOpen, model, driver>>

\* Only a session that is ready is committed.  A request still queued, under a
\* hold or after a failure, goes no further than the debt it left.
Install ==
    /\ \/ stand = "leaving"
       \/ stand = "actions" /\ ~driver.contexts /\ ~(driver.action /\ ~Silenced(notes))
    /\ stand' = "live" /\ driver' = NoDriver
    /\ UNCHANGED <<reply, work, notes, turnOpen, model>>

\* The candidate left, the time is up, no session can be had.
GiveUp ==
    /\ stand \notin {"live", "ended"}
    /\ stand' = "ended" /\ driver' = NoDriver
    /\ UNCHANGED <<reply, work, notes, turnOpen, model>>

(***************************************************************************)
(* The page's packets while the replacement waits (reduce_recovery_packet).*)
(***************************************************************************)
Waiting ==
    /\ stand \in {"setup", "brief", "briefing", "telling", "actions", "acting", "leaving"}
    /\ stand = "brief" => ~driver.second
    /\ UNCHANGED <<model, stand>>

\* Mutant: the reply that was marked is cut and not kept for the hold's end.
ThinkMeanwhileForgets ==
    /\ Waiting /\ ~Silenced(notes)
    /\ work' = CutForHold(reply, work, Discards(reply, work, FALSE, FALSE))
    /\ reply' = NoReply
    /\ notes' = [Unheard(notes, reply) EXCEPT
                    !.hold = "held", !.owed = @ \/ driver.toggle]
    /\ driver' = [driver EXCEPT !.obliged = TRUE]
    /\ turnOpen' = FALSE

ThinkMeanwhile ==
    /\ Waiting /\ ~Silenced(notes)
    /\ work' = CutForHold(reply, work, Discards(reply, work, FALSE, FALSE))
    /\ reply' = NoReply
    /\ notes' = [Unheard(notes, reply) EXCEPT
                    !.hold = "held", !.owed = @ \/ ReplyUnfinished \/ driver.toggle]
    /\ driver' = [driver EXCEPT !.obliged = TRUE]
    /\ turnOpen' = FALSE

ReleaseMeanwhile ==
    /\ Waiting
    /\ \E by \in {"button", "yield", "packet"}, asks \in BOOLEAN :
         /\ Ends(by, asks)
         /\ driver' = IF asks THEN [driver EXCEPT !.obliged = TRUE, !.fresh = FALSE,
                                                  !.action = TRUE, !.toggle = by = "button"]
                      ELSE [driver EXCEPT !.obliged = @ \/ Silenced(notes)]
         /\ reply' = IF asks THEN MarkPrompted(reply) ELSE reply
    /\ notes' = [notes EXCEPT !.hold = "off"]
    /\ UNCHANGED <<work, turnOpen>>

NewsMeanwhile ==
    /\ Waiting
    /\ driver' = IF Silenced(notes) THEN [driver EXCEPT !.contexts = TRUE, !.obliged = TRUE]
                 ELSE [driver EXCEPT !.action = TRUE, !.toggle = FALSE, !.obliged = TRUE,
                                     !.fresh = FALSE]
    /\ reply' = IF Silenced(notes) THEN reply ELSE MarkPrompted(reply)
    /\ UNCHANGED <<work, notes, turnOpen>>

RecoveryNext ==
    \/ Speak \/ ConfirmLate \/ Think \/ Release \/ News \/ CheckIn \/ Fallback \/ Stall \/ PlayoutEnds
    \/ Checkpoint \/ Output \/ ToolCall \/ TurnComplete \/ Interrupted
    \/ Replace \/ Setup \/ Brief \/ BriefSent \/ BriefFails
    \/ TellContexts \/ ContextsTold \/ Act \/ Acted \/ DrainAgain \/ Install \/ GiveUp
    \/ ThinkMeanwhile \/ ReleaseMeanwhile \/ NewsMeanwhile

RecoverySpec == RecoveryInit /\ [][RecoveryNext]_recoveryVars

(***************************************************************************)
(* Properties.                                                             *)
(***************************************************************************)
Owes == ReplyUnfinished \/ notes.owed \/ driver.action

\* From the moment a session breaks until the next one is installed, nothing
\* but the end of the interview lets a reply that is owed be forgotten; and a
\* session installed with a reply to give was asked for it, unless a hold keeps
\* it in the notes or a send to that session failed, which the next repairs
\* (hand_over, reduce_recovery_packet, replace).
OwedIsCarried ==
    [][/\ (stand # "live" \/ stand' # "live") /\ stand' # "ended" /\ Owes => Owes'
       /\ stand # "live" /\ stand' = "live" /\ ReplyUnfinished'
            => notes'.owed \/ driver.asked # "no"]_recoveryVars

\* A session in use that was opened cold and never briefed is known to be so:
\* the next hold's end, check-in or replacement briefs it (needs_cold_brief,
\* prepare_recovery_brief).
BriefingIsOwed == stand = "live" /\ model.memory = "none" => notes.cold
=============================================================================
