------------------------ MODULE AgentRecovery_proofs ------------------------
(***************************************************************************)
(* Why a reply that is owed survives the replacement of a broken session,  *)
(* and why a session that was never briefed is known to be so.  The model  *)
(* has no constants: the runs see all of its states, and what the proofs   *)
(* add is the reason.                                                      *)
(***************************************************************************)
EXTENDS AgentRecovery, TLAPS

(***************************************************************************)
(* Types                                                                   *)
(***************************************************************************)

Reply ==
    [awaiting : BOOLEAN, prompted : BOOLEAN, unvoiced : BOOLEAN, behind : BOOLEAN,
     generating : BOOLEAN, floor : {"listening", "speaking", "playout"}]
Work ==
    [discarding : BOOLEAN, deferred : BOOLEAN, fallback : BOOLEAN,
     interrupted : BOOLEAN, stale : BOOLEAN, tool : BOOLEAN]
Notes == [hold : {"off", "asked", "held"}, unheard : BOOLEAN, owed : BOOLEAN, cold : BOOLEAN]
Model == [memory : {"told", "none", "behind"}, handle : {"no", "told", "none", "behind"}]
Driver ==
    [resumed : BOOLEAN, second : BOOLEAN, action : BOOLEAN, contexts : BOOLEAN,
     toggle : BOOLEAN, asked : {"no", "yes", "failed"}, obliged : BOOLEAN, fresh : BOOLEAN,
     wasHeld : BOOLEAN, owed : BOOLEAN, asks : BOOLEAN, pays : {"nothing", "debt", "cold"}]
Stands ==
    {"live", "setup", "brief", "briefing", "contexts", "telling", "actions", "acting",
     "leaving", "ended"}

RecoveryTypeOK ==
    /\ reply \in Reply /\ work \in Work /\ notes \in Notes /\ turnOpen \in BOOLEAN
    /\ model \in Model /\ driver \in Driver /\ stand \in Stands

LEMMA ReplyTypes ==
    /\ NoReply \in Reply
    /\ \A r \in Reply :
          /\ MarkPrompted(r) \in Reply /\ OwePrompt(r) \in Reply /\ NoteOutput(r) \in Reply
          /\ NoteAudible(r) \in Reply /\ Boundary(r) \in Reply
          /\ \A old \in Reply : KeepDebt(r, old) \in Reply
          /\ [r EXCEPT !.floor = "listening"] \in Reply
          /\ [r EXCEPT !.awaiting = TRUE, !.prompted = FALSE, !.unvoiced = FALSE] \in Reply
          /\ [r EXCEPT !.prompted = TRUE, !.behind = FALSE] \in Reply
          /\ [r EXCEPT !.awaiting = @ /\ ~Silenced(notes)] \in Reply
          /\ \A playing \in BOOLEAN : Completed(r, playing) \in Reply
<1>1. NoReply \in Reply
  BY DEF NoReply, Reply
<1> SUFFICES ASSUME NEW r \in Reply
             PROVE  /\ MarkPrompted(r) \in Reply /\ OwePrompt(r) \in Reply /\ NoteOutput(r) \in Reply
                    /\ NoteAudible(r) \in Reply /\ Boundary(r) \in Reply
                    /\ \A old \in Reply : KeepDebt(r, old) \in Reply
                    /\ [r EXCEPT !.floor = "listening"] \in Reply
                    /\ [r EXCEPT !.awaiting = TRUE, !.prompted = FALSE, !.unvoiced = FALSE] \in Reply
                    /\ [r EXCEPT !.prompted = TRUE, !.behind = FALSE] \in Reply
                    /\ [r EXCEPT !.awaiting = @ /\ ~Silenced(notes)] \in Reply
                    /\ \A playing \in BOOLEAN : Completed(r, playing) \in Reply
  BY <1>1, Zenon
<1>2. MarkPrompted(r) \in Reply /\ OwePrompt(r) \in Reply
  BY DEF MarkPrompted, OwePrompt, Reply
<1>3. NoteOutput(r) \in Reply /\ NoteAudible(r) \in Reply
  BY DEF NoteOutput, NoteAudible, Reply
<1>4. Boundary(r) \in Reply
  BY DEF Boundary, Reply
<1>5. \A old \in Reply : KeepDebt(r, old) \in Reply
  BY DEF KeepDebt, Reply
<1>6. /\ [r EXCEPT !.floor = "listening"] \in Reply
      /\ [r EXCEPT !.awaiting = TRUE, !.prompted = FALSE, !.unvoiced = FALSE] \in Reply
      /\ [r EXCEPT !.prompted = TRUE, !.behind = FALSE] \in Reply
      /\ [r EXCEPT !.awaiting = @ /\ ~Silenced(notes)] \in Reply
  BY DEF Reply
<1>7. \A playing \in BOOLEAN : Completed(r, playing) \in Reply
  BY DEF Completed, Reply
<1> QED BY <1>2, <1>3, <1>4, <1>5, <1>6, <1>7

LEMMA WorkTypes ==
    /\ NoWork \in Work
    /\ \A w \in Work, b \in BOOLEAN :
          /\ [w EXCEPT !.discarding = b] \in Work /\ [w EXCEPT !.deferred = b] \in Work
          /\ [w EXCEPT !.fallback = b] \in Work /\ [w EXCEPT !.interrupted = b] \in Work
          /\ [w EXCEPT !.stale = b] \in Work /\ [w EXCEPT !.tool = b] \in Work
          /\ \A r \in Reply : CutForHold(r, w, b) \in Work
<1>1. NoWork \in Work
  BY DEF NoWork, Work
<1>2. ASSUME NEW w \in Work, NEW b \in BOOLEAN
      PROVE  /\ [w EXCEPT !.discarding = b] \in Work /\ [w EXCEPT !.deferred = b] \in Work
             /\ [w EXCEPT !.fallback = b] \in Work /\ [w EXCEPT !.interrupted = b] \in Work
             /\ [w EXCEPT !.stale = b] \in Work /\ [w EXCEPT !.tool = b] \in Work
  BY DEF Work
<1>3. ASSUME NEW w \in Work, NEW b \in BOOLEAN, NEW r \in Reply
      PROVE  CutForHold(r, w, b) \in Work
  BY DEF CutForHold, Work, Reply
<1> QED BY <1>1, <1>2, <1>3

LEMMA AfterEventTypes ==
    ASSUME NEW r \in Reply, NEW w \in Work, NEW wordless \in BOOLEAN, notes' \in Notes,
           AfterEvent(r, w, wordless)
    PROVE  reply' \in Reply /\ work' \in Work
<1> DEFINE due == w.deferred /\ ~w.discarding /\ ~Silenced(notes')
<1>1. work' = [w EXCEPT !.deferred = @ /\ ~due]
  BY DEF AfterEvent
<1>2. reply' = r \/ reply' = MarkPrompted(r)
  BY DEF AfterEvent
<1>3. work' \in Work
  BY <1>1 DEF Work
<1> QED BY <1>2, <1>3, ReplyTypes

LEMMA NotesTypes ==
    \A n \in Notes :
        /\ ClearDebt(n) \in Notes /\ Confirmed(n) \in Notes
        /\ \A r \in Reply : Unheard(n, r) \in Notes
        /\ \A h \in {"off", "asked", "held"} : [n EXCEPT !.hold = h] \in Notes
        /\ \A b \in BOOLEAN :
              /\ [n EXCEPT !.cold = b] \in Notes /\ [n EXCEPT !.owed = b] \in Notes
              /\ [n EXCEPT !.unheard = b] \in Notes
              /\ [n EXCEPT !.hold = "held", !.owed = b] \in Notes
<1> SUFFICES ASSUME NEW n \in Notes
             PROVE  /\ ClearDebt(n) \in Notes /\ Confirmed(n) \in Notes
                    /\ \A r \in Reply : Unheard(n, r) \in Notes
                    /\ \A h \in {"off", "asked", "held"} : [n EXCEPT !.hold = h] \in Notes
                    /\ \A b \in BOOLEAN :
                          /\ [n EXCEPT !.cold = b] \in Notes /\ [n EXCEPT !.owed = b] \in Notes
                          /\ [n EXCEPT !.unheard = b] \in Notes
                          /\ [n EXCEPT !.hold = "held", !.owed = b] \in Notes
  OBVIOUS
<1>1. ClearDebt(n) \in Notes /\ Confirmed(n) \in Notes
  BY DEF ClearDebt, Confirmed, Notes
<1>2. \A r \in Reply : Unheard(n, r) \in Notes
  BY DEF Unheard, Notes
<1>3. \A h \in {"off", "asked", "held"} : [n EXCEPT !.hold = h] \in Notes
  BY DEF Notes
<1>4. \A b \in BOOLEAN :
          /\ [n EXCEPT !.cold = b] \in Notes /\ [n EXCEPT !.owed = b] \in Notes
          /\ [n EXCEPT !.unheard = b] \in Notes
          /\ [n EXCEPT !.hold = "held", !.owed = b] \in Notes
  BY DEF Notes
<1> QED BY <1>1, <1>2, <1>3, <1>4

LEMMA ModelTypes ==
    \A m \in Model :
        /\ Learn(m) \in Model /\ Learn(m).handle = m.handle
        /\ Learn(m).memory = IF notes.cold THEN "told" ELSE m.memory
        /\ \A k \in {"told", "none", "behind"} : [m EXCEPT !.memory = k] \in Model
        /\ \A k \in {"told", "none", "behind"} : [m EXCEPT !.handle = k] \in Model
BY DEF Learn, Model

\* The candidate, the page, the clock and the provider, while a session is up;
Talks ==
    \/ Speak \/ ConfirmLate \/ Think \/ Release \/ News \/ CheckIn \/ Fallback \/ Stall \/ PlayoutEnds
    \/ Checkpoint \/ Output \/ ToolCall \/ TurnComplete \/ Interrupted
\* the replacement of one that broke, and the packets that come meanwhile.
Replaces ==
    \/ Replace \/ Setup \/ Brief \/ BriefSent \/ BriefFails
    \/ TellContexts \/ ContextsTold \/ Act \/ Acted \/ DrainAgain \/ Install \/ GiveUp
Packets == ThinkMeanwhile \/ ReleaseMeanwhile \/ NewsMeanwhile

LEMMA RecoverySplit == RecoveryNext => Talks \/ Replaces \/ Packets
BY DEF RecoveryNext, Talks, Replaces, Packets

\* What a step of a session that is up does to what the session knows: nothing, or
\* a text reached it that pays the debt.
Learns ==
    \/ model'.memory = model.memory /\ notes'.cold = notes.cold
    \/ model' = Learn(model)

LEMMA SpeakTypes ==
    ASSUME RecoveryTypeOK, Speak
    PROVE  /\ reply' \in Reply /\ work' \in Work /\ notes' \in Notes /\ model' \in Model
           /\ Learns
<1> USE DEF RecoveryTypeOK
<1>1. PICK playing \in BOOLEAN, tail \in BOOLEAN :
         LET drops == reply.floor = "playout" /\ playing
             cut == IF drops THEN NoReply
                    ELSE IF reply.floor = "playout" THEN [reply EXCEPT !.floor = "listening"]
                    ELSE reply
             spoken == IF cut.generating \/ tail THEN cut
                       ELSE [cut EXCEPT !.awaiting = TRUE, !.prompted = FALSE, !.unvoiced = FALSE]
             heard == [work EXCEPT !.fallback = FALSE, !.tool = @ /\ ~drops]
         IN  \/ UNCHANGED <<notes, model>> /\ AfterEvent(spoken, heard, FALSE)
             \/ /\ notes.hold = "off"
                /\ notes' = [Unheard(notes, spoken) EXCEPT !.hold = "asked"]
                /\ \E stalled, recent \in BOOLEAN :
                     /\ stalled => spoken.generating
                     /\ AfterEvent(NoReply, CutForHold(spoken, heard,
                                              Discards(spoken, heard, stalled, recent)), FALSE)
                /\ UNCHANGED model
             \/ /\ Silenced(notes)
                /\ \E sent \in BOOLEAN :
                     LET pays == OwesContext /\ sent
                         w == [heard EXCEPT !.deferred = @ \/ heard.discarding]
                     IN  /\ notes' = [(IF pays THEN ClearDebt(notes) ELSE notes) EXCEPT !.hold = "off"]
                         /\ model' = IF pays THEN Learn(model) ELSE model
                         /\ AfterEvent(IF OwesContext /\ ~sent THEN MarkPrompted(spoken) ELSE spoken,
                                       w, FALSE)
  BY DEF Speak
<1> DEFINE drops == reply.floor = "playout" /\ playing
           cut == IF drops THEN NoReply
                  ELSE IF reply.floor = "playout" THEN [reply EXCEPT !.floor = "listening"]
                  ELSE reply
           spoken == IF cut.generating \/ tail THEN cut
                     ELSE [cut EXCEPT !.awaiting = TRUE, !.prompted = FALSE, !.unvoiced = FALSE]
           heard == [work EXCEPT !.fallback = FALSE, !.tool = @ /\ ~drops]
           w == [heard EXCEPT !.deferred = @ \/ heard.discarding]
<1>2. cut \in Reply
  BY ReplyTypes
<1>3. spoken \in Reply
  <2> HIDE DEF cut
  <2> QED BY <1>2, ReplyTypes
<1>4. heard \in Work
  BY DEF Work
<1>5. w \in Work
  <2> HIDE DEF heard
  <2> QED BY <1>4 DEF Work
<1> HIDE DEF spoken, heard, w
<1>6. CASE UNCHANGED <<notes, model>> /\ AfterEvent(spoken, heard, FALSE)
  BY <1>3, <1>4, <1>6, AfterEventTypes DEF Learns
<1>7. ASSUME notes.hold = "off",
             notes' = [Unheard(notes, spoken) EXCEPT !.hold = "asked"],
             \E stalled, recent \in BOOLEAN :
                     /\ stalled => spoken.generating
                     /\ AfterEvent(NoReply, CutForHold(spoken, heard,
                                              Discards(spoken, heard, stalled, recent)), FALSE),
             UNCHANGED model
      PROVE  reply' \in Reply /\ work' \in Work /\ notes' \in Notes /\ model' \in Model /\ Learns
  <2>1. notes' \in Notes /\ notes'.cold = notes.cold
    BY <1>7 DEF Notes, Unheard
  <2>2. PICK stalled \in BOOLEAN, recent \in BOOLEAN :
            AfterEvent(NoReply, CutForHold(spoken, heard, Discards(spoken, heard, stalled, recent)), FALSE)
    BY <1>7
  <2>3. Discards(spoken, heard, stalled, recent) \in BOOLEAN
    BY DEF Discards
  <2>4. CutForHold(spoken, heard, Discards(spoken, heard, stalled, recent)) \in Work
    BY <1>3, <1>4, <2>3, WorkTypes
  <2> QED BY <1>7, <2>1, <2>2, <2>4, AfterEventTypes, ReplyTypes DEF Learns
<1>8. ASSUME NEW sent \in BOOLEAN,
             notes' = [(IF OwesContext /\ sent THEN ClearDebt(notes) ELSE notes) EXCEPT !.hold = "off"],
             model' = IF OwesContext /\ sent THEN Learn(model) ELSE model,
             AfterEvent(IF OwesContext /\ ~sent THEN MarkPrompted(spoken) ELSE spoken, w, FALSE)
      PROVE  reply' \in Reply /\ work' \in Work /\ notes' \in Notes /\ model' \in Model /\ Learns
  <2> DEFINE paid == IF OwesContext /\ sent THEN ClearDebt(notes) ELSE notes
             said == IF OwesContext /\ ~sent THEN MarkPrompted(spoken) ELSE spoken
  <2>1. paid \in Notes /\ said \in Reply
    BY <1>3, NotesTypes, ReplyTypes
  <2>2. notes' \in Notes
    <3> HIDE DEF paid
    <3> QED BY <1>8, <2>1, NotesTypes DEF paid
  <2>3. reply' \in Reply /\ work' \in Work
    <3>1. AfterEvent(said, w, FALSE)
      BY <1>8
    <3> HIDE DEF said
    <3> QED BY <1>5, <2>1, <2>2, <3>1, AfterEventTypes
  <2>4. model' \in Model
    BY <1>8, ModelTypes
  <2>5. Learns
    <3>1. CASE OwesContext /\ sent
      BY <1>8, <3>1 DEF Learns
    <3>2. CASE ~(OwesContext /\ sent)
      BY <1>8, <3>2 DEF Learns, Notes
    <3> QED BY <3>1, <3>2
  <2> QED BY <2>2, <2>3, <2>4, <2>5
<1>9. \/ UNCHANGED <<notes, model>> /\ AfterEvent(spoken, heard, FALSE)
      \/ /\ notes.hold = "off"
         /\ notes' = [Unheard(notes, spoken) EXCEPT !.hold = "asked"]
         /\ \E stalled, recent \in BOOLEAN :
              /\ stalled => spoken.generating
              /\ AfterEvent(NoReply, CutForHold(spoken, heard,
                                       Discards(spoken, heard, stalled, recent)), FALSE)
         /\ UNCHANGED model
      \/ \E sent \in BOOLEAN :
             /\ notes' = [(IF OwesContext /\ sent THEN ClearDebt(notes) ELSE notes) EXCEPT !.hold = "off"]
             /\ model' = IF OwesContext /\ sent THEN Learn(model) ELSE model
             /\ AfterEvent(IF OwesContext /\ ~sent THEN MarkPrompted(spoken) ELSE spoken, w, FALSE)
  BY <1>1 DEF spoken, heard, w
<1> QED BY <1>6, <1>7, <1>8, <1>9

\* What a hold does to the rest of an answer, and what its end does.
LEMMA HoldTypes ==
    ASSUME RecoveryTypeOK, ConfirmLate \/ Think \/ Release \/ CheckIn
    PROVE  /\ reply' \in Reply /\ work' \in Work /\ notes' \in Notes /\ turnOpen' \in BOOLEAN
           /\ model' \in Model
           /\ Learns
<1> USE DEF RecoveryTypeOK
<1>1. CASE ConfirmLate
  <2>1. UNCHANGED <<reply, turnOpen, model>> /\ notes' = Confirmed(notes)
    BY <1>1 DEF ConfirmLate
  <2>2. work' \in Work
    BY <1>1, WorkTypes DEF ConfirmLate
  <2>3. notes'.cold = notes.cold
    BY <2>1 DEF Confirmed, Notes
  <2> QED BY <2>1, <2>2, <2>3, NotesTypes DEF Learns
<1>2. CASE Think
  <2>1. PICK stalled \in BOOLEAN, recent \in BOOLEAN :
            LET w == [work EXCEPT !.deferred = @ /\ notes.hold # "asked"]
            IN  work' = CutForHold(reply, w, Discards(reply, w, stalled, recent))
    BY <1>2 DEF Think
  <2>2. [work EXCEPT !.deferred = @ /\ notes.hold # "asked"] \in Work
    BY DEF Work
  <2>3. work' \in Work
    BY <2>1, <2>2, WorkTypes DEF Discards
  <2>4. notes' \in Notes /\ notes'.cold = notes.cold
    BY <1>2 DEF Think, Unheard, Notes
  <2> QED BY <1>2, <2>3, <2>4, ReplyTypes DEF Think, Learns
<1>3. CASE Release
  <2>1. PICK by \in {"button", "yield", "packet"}, asks \in BOOLEAN, sent \in BOOLEAN, finalized \in BOOLEAN :
         LET finalizes == by = "yield" \/ (asks /\ (by = "button" \/ notes.hold = "held"))
             context == finalizes /\ asks /\ turnOpen /\ sent
             drops == work.discarding /\ (context \/ (by = "yield" /\ notes.hold = "asked"))
             r == IF context /\ work.discarding THEN OwePrompt(reply) ELSE reply
             unanswered == IF asks THEN ~(context /\ finalized) ELSE finalizes /\ ~finalized
         IN  /\ Ends(by, asks)
             /\ notes' = [(IF asks /\ sent THEN ClearDebt(notes) ELSE notes) EXCEPT !.hold = "off"]
             /\ model' = IF asks /\ sent THEN Learn(model) ELSE model
             /\ work' = [work EXCEPT !.deferred = @ \/ drops,
                                     !.fallback = @ \/ (context /\ ~work.discarding)]
             /\ reply' = IF unanswered THEN MarkPrompted(r) ELSE r
    BY <1>3, Zenon DEF Release
  <2>2. work' \in Work
    BY <2>1 DEF Work
  <2>3. reply' \in Reply
    <3>1. reply' \in {reply, OwePrompt(reply), MarkPrompted(reply), MarkPrompted(OwePrompt(reply))}
      BY <2>1
    <3> QED BY <3>1, ReplyTypes
  <2>4. notes' \in Notes
    <3>1. (IF asks /\ sent THEN ClearDebt(notes) ELSE notes) \in Notes
      BY NotesTypes
    <3> QED BY <2>1, <3>1, NotesTypes
  <2>5. model' \in Model
    BY <2>1, ModelTypes
  <2>6. Learns
    <3>1. CASE asks /\ sent
      BY <2>1, <3>1 DEF Learns
    <3>2. CASE ~(asks /\ sent)
      BY <2>1, <3>2 DEF Learns, Notes
    <3> QED BY <3>1, <3>2
  <2>7. UNCHANGED turnOpen
    BY <1>3 DEF Release
  <2> QED BY <2>2, <2>3, <2>4, <2>5, <2>6, <2>7
<1>4. CASE CheckIn
  <2>1. PICK sent \in BOOLEAN :
         /\ notes' = [(IF sent THEN ClearDebt(notes) ELSE notes) EXCEPT !.hold = "off"]
         /\ model' = IF sent THEN Learn(model) ELSE model
    BY <1>4 DEF CheckIn
  <2>2. notes' \in Notes
    <3>1. (IF sent THEN ClearDebt(notes) ELSE notes) \in Notes
      BY NotesTypes
    <3> QED BY <2>1, <3>1, NotesTypes
  <2>3. model' \in Model
    BY <2>1, ModelTypes
  <2>4. Learns
    <3>1. CASE sent
      BY <2>1, <3>1 DEF Learns
    <3>2. CASE ~sent
      BY <2>1, <3>2 DEF Learns, Notes
    <3> QED BY <3>1, <3>2
  <2> QED BY <1>4, <2>2, <2>3, <2>4, ReplyTypes DEF CheckIn
<1> QED BY <1>1, <1>2, <1>3, <1>4

\* What the provider says.
LEMMA EventTypes ==
    ASSUME RecoveryTypeOK, Output \/ ToolCall \/ TurnComplete \/ Interrupted
    PROVE  /\ reply' \in Reply /\ work' \in Work /\ notes' \in Notes
           /\ UNCHANGED model /\ notes'.cold = notes.cold
<1> USE DEF RecoveryTypeOK
<1>1. CASE Output
  <2>1. CASE DropOutput
    <3>1. [work EXCEPT !.discarding = @ \/ Silenced(notes)] \in Work
      BY DEF Work
    <3>2. notes' \in Notes /\ notes'.cold = notes.cold
      BY <2>1 DEF DropOutput, Notes
    <3>3. reply' \in Reply /\ work' \in Work
      BY <2>1, <3>1, <3>2, AfterEventTypes DEF DropOutput
    <3> QED BY <1>1, <3>2, <3>3 DEF Output
  <2>2. CASE ~DropOutput
    <3>1. UNCHANGED <<notes, model>>
      BY <1>1, <2>2 DEF Output
    <3>2. PICK audible \in BOOLEAN, playing \in BOOLEAN :
               LET said == NoteOutput(reply)
                   cut == audible /\ playing /\ reply.floor = "playout"
               IN  AfterEvent(IF ~audible THEN said ELSE NoteAudible(IF cut THEN NoReply ELSE said),
                              [work EXCEPT !.fallback = FALSE, !.interrupted = FALSE,
                                           !.stale = FALSE, !.tool = @ /\ ~cut], FALSE)
      BY <1>1, <2>2 DEF Output
    <3> DEFINE said == NoteOutput(reply)
               cut == audible /\ playing /\ reply.floor = "playout"
               r == IF ~audible THEN said ELSE NoteAudible(IF cut THEN NoReply ELSE said)
               w == [work EXCEPT !.fallback = FALSE, !.interrupted = FALSE,
                                 !.stale = FALSE, !.tool = @ /\ ~cut]
    <3>3. r \in Reply
      <4>1. (IF cut THEN NoReply ELSE said) \in Reply /\ said \in Reply
        BY ReplyTypes
      <4> QED BY <4>1, ReplyTypes
    <3>4. w \in Work
      BY DEF Work
    <3>5. AfterEvent(r, w, FALSE)
      BY <3>2
    <3> HIDE DEF r, w
    <3> QED BY <3>1, <3>3, <3>4, <3>5, AfterEventTypes
  <2> QED BY <2>1, <2>2
<1>2. CASE ToolCall
  <2>1. UNCHANGED <<notes, model>>
    BY <1>2 DEF ToolCall
  <2>2. PICK sent \in BOOLEAN :
         IF work.discarding THEN AfterEvent(reply, work, FALSE)
         ELSE AfterEvent(NoteOutput(reply),
                  [work EXCEPT !.fallback = FALSE, !.tool = @ \/ sent,
                               !.interrupted = @ /\ Silenced(notes),
                               !.stale = @ /\ Silenced(notes)], FALSE)
    BY <1>2 DEF ToolCall
  <2>3. [work EXCEPT !.fallback = FALSE, !.tool = @ \/ sent, !.interrupted = @ /\ Silenced(notes),
                     !.stale = @ /\ Silenced(notes)] \in Work
    BY DEF Work
  <2> QED BY <2>1, <2>2, <2>3, AfterEventTypes, ReplyTypes
<1>3. CASE TurnComplete
  <2>1. notes' \in Notes /\ notes'.cold = notes.cold /\ UNCHANGED model
    <3>1. notes' = Confirmed(notes) /\ UNCHANGED model
      BY <1>3 DEF TurnComplete
    <3>2. Confirmed(notes).cold = notes.cold
      BY DEF Confirmed, Notes
    <3> QED BY <3>1, <3>2, NotesTypes
  <2> DEFINE wordless == reply.generating /\ reply.awaiting /\ ~reply.behind /\ ~work.discarding
             late == [reply EXCEPT !.awaiting = @ /\ ~Silenced(notes)]
             w == [work EXCEPT !.deferred = @ /\ notes.hold # "asked"]
  <2>2. late \in Reply /\ w \in Work /\ wordless \in BOOLEAN
    <3>1. late \in Reply
      BY ReplyTypes
    <3>2. w \in Work
      BY DEF Work
    <3> QED BY <3>1, <3>2
  <2>3. \E r \in Reply, v \in Work : AfterEvent(r, v, wordless)
    <3>1. \/ AfterEvent(late, [w EXCEPT !.stale = FALSE], wordless)
          \/ AfterEvent(late, [w EXCEPT !.interrupted = FALSE, !.discarding = FALSE], wordless)
          \/ \E playing \in BOOLEAN :
                 AfterEvent(Completed(Boundary(reply), playing), [w EXCEPT !.tool = FALSE], wordless)
      BY <1>3 DEF TurnComplete
    <3> HIDE DEF wordless, late, w
    <3>2. /\ [w EXCEPT !.stale = FALSE] \in Work /\ [w EXCEPT !.tool = FALSE] \in Work
          /\ [w EXCEPT !.interrupted = FALSE, !.discarding = FALSE] \in Work
      BY <2>2 DEF Work
    <3>3. \A playing \in BOOLEAN : Completed(Boundary(reply), playing) \in Reply
      BY ReplyTypes
    <3> QED BY <2>2, <3>1, <3>2, <3>3
  <2> HIDE DEF wordless, late, w
  <2> QED BY <2>1, <2>2, <2>3, AfterEventTypes
<1>4. CASE Interrupted
  <2>1. notes' \in Notes /\ notes'.cold = notes.cold /\ UNCHANGED model
    <3>1. UNCHANGED notes \/ notes' = Confirmed(notes)
      BY <1>4 DEF Interrupted
    <3>2. Confirmed(notes).cold = notes.cold
      BY DEF Confirmed, Notes
    <3> QED BY <1>4, <3>1, <3>2, NotesTypes DEF Interrupted
  <2>2. \E r \in Reply, v \in Work : AfterEvent(r, v, FALSE)
    <3> DEFINE w == [work EXCEPT !.interrupted = TRUE, !.tool = FALSE]
    <3>1. \/ AfterEvent(reply, work, FALSE)
          \/ \E speaking \in BOOLEAN :
               AfterEvent(reply, [work EXCEPT !.interrupted = TRUE, !.discarding = FALSE,
                                              !.deferred = @ /\ ~speaking], FALSE)
          \/ AfterEvent(KeepDebt(NoReply, reply), w, FALSE)
          \/ \E playing \in BOOLEAN :
                 AfterEvent(Completed(KeepDebt(Boundary(reply), reply), playing),
                            [w EXCEPT !.deferred = @ /\ notes.hold # "asked"], FALSE)
      BY <1>4 DEF Interrupted
    <3>2. w \in Work
      BY DEF Work
    <3>3. [w EXCEPT !.deferred = @ /\ notes.hold # "asked"] \in Work
      BY <3>2 DEF Work
    <3>4. \A speaking \in BOOLEAN :
              [work EXCEPT !.interrupted = TRUE, !.discarding = FALSE, !.deferred = @ /\ ~speaking] \in Work
      BY DEF Work
    <3>5. KeepDebt(NoReply, reply) \in Reply
          /\ \A playing \in BOOLEAN : Completed(KeepDebt(Boundary(reply), reply), playing) \in Reply
      BY ReplyTypes
    <3> HIDE DEF w
    <3> QED BY <3>1, <3>2, <3>3, <3>4, <3>5
  <2> QED BY <2>1, <2>2, AfterEventTypes
<1> QED BY <1>1, <1>2, <1>3, <1>4

LEMMA ClockTypes ==
    ASSUME RecoveryTypeOK, News \/ Fallback \/ Stall \/ PlayoutEnds \/ Checkpoint
    PROVE  /\ reply' \in Reply /\ work' \in Work /\ UNCHANGED <<notes, turnOpen>>
           /\ model' \in Model /\ model'.memory = model.memory
<1> USE DEF RecoveryTypeOK
<1>1. CASE News
  <2>1. reply' = MarkPrompted(reply) /\ UNCHANGED <<work, notes, turnOpen, model>>
    BY <1>1 DEF News
  <2> QED BY <2>1, ReplyTypes
<1>2. CASE Fallback
  <2>1. /\ reply' = MarkPrompted(reply) /\ work' = [work EXCEPT !.fallback = FALSE]
        /\ UNCHANGED <<notes, turnOpen, model>>
    BY <1>2 DEF Fallback
  <2> QED BY <2>1, ReplyTypes, WorkTypes
<1>3. CASE Stall
  <2>1. UNCHANGED <<notes, turnOpen, model>>
    BY <1>3 DEF Stall
  <2>2. work' \in Work
    <3>1. \E tool \in BOOLEAN : work' = [work EXCEPT !.tool = @ /\ ~tool]
      BY <1>3 DEF Stall
    <3> QED BY <3>1 DEF Work
  <2>3. \E r \in {reply, [reply EXCEPT !.floor = "listening"]} :
            reply' = r \/ reply' = [r EXCEPT !.prompted = TRUE, !.behind = FALSE]
    BY <1>3 DEF Stall
  <2>4. [reply EXCEPT !.floor = "listening"] \in Reply
    BY ReplyTypes
  <2>5. reply' \in Reply
    <3>1. PICK r \in Reply :
                  reply' = r \/ reply' = [r EXCEPT !.prompted = TRUE, !.behind = FALSE]
      BY <2>3, <2>4
    <3>2. [r EXCEPT !.prompted = TRUE, !.behind = FALSE] \in Reply
      BY ReplyTypes
    <3> QED BY <3>1, <3>2
  <2> QED BY <2>1, <2>2, <2>5
<1>4. CASE PlayoutEnds
  BY <1>4, ReplyTypes DEF PlayoutEnds
<1>5. CASE Checkpoint
  BY <1>5, ModelTypes DEF Checkpoint, Model
<1> QED BY <1>1, <1>2, <1>3, <1>4, <1>5

LEMMA TalksTypes ==
    ASSUME RecoveryTypeOK, Talks
    PROVE  RecoveryTypeOK' /\ Learns /\ stand = "live" /\ UNCHANGED <<driver, stand>>
<1>1. stand = "live" /\ UNCHANGED <<driver, stand>>
  BY DEF Talks, Speak, ConfirmLate, Think, Release, News, CheckIn, Fallback, Stall, PlayoutEnds,
         Checkpoint, Output, ToolCall, TurnComplete, Interrupted, Serving
<1>2. turnOpen' \in BOOLEAN
  <2>1. Speak => turnOpen'
    BY DEF Speak
  <2>2. Output \/ ToolCall => UNCHANGED turnOpen
    BY DEF Output, ToolCall
  <2>3. TurnComplete \/ Interrupted => UNCHANGED turnOpen \/ turnOpen' = FALSE
    BY DEF TurnComplete, Interrupted
  <2> QED BY <2>1, <2>2, <2>3, HoldTypes, ClockTypes DEF Talks, RecoveryTypeOK
<1>3. reply' \in Reply /\ work' \in Work /\ notes' \in Notes /\ model' \in Model /\ Learns
  BY SpeakTypes, HoldTypes, EventTypes, ClockTypes DEF Talks, RecoveryTypeOK, Learns
<1> QED BY <1>1, <1>2, <1>3 DEF RecoveryTypeOK

LEMMA ReplacesTypes ==
    ASSUME RecoveryTypeOK, Replaces
    PROVE  RecoveryTypeOK'
<1> USE DEF RecoveryTypeOK
<1>1. /\ reply' \in Reply /\ work' \in Work /\ turnOpen' \in BOOLEAN /\ stand' \in Stands
  <2>1. CASE Replace
    <3>1. /\ reply' \in {NoReply, OwePrompt(NoReply)} /\ work' = NoWork /\ turnOpen' = FALSE
          /\ stand' = "setup"
      BY <2>1 DEF Replace
    <3> QED BY <3>1, ReplyTypes, WorkTypes DEF Stands
  <2>2. CASE BriefSent
    <3>1. /\ reply' \in {reply, MarkPrompted(reply)} /\ UNCHANGED turnOpen
          /\ stand' \in {"brief", "contexts"}
      BY <2>2 DEF BriefSent
    <3>2. \E b \in BOOLEAN : work' = [work EXCEPT !.discarding = @ \/ b]
      <4>1. driver.asks \in BOOLEAN
        BY DEF Driver
      <4> QED BY <2>2, <4>1 DEF BriefSent
    <3>3. work' \in Work
      BY <3>2 DEF Work
    <3> QED BY <3>1, <3>3, ReplyTypes DEF Stands
  <2>3. CASE Acted
    <3>1. reply' \in {reply, MarkPrompted(reply)} /\ UNCHANGED turnOpen /\ stand' \in Stands
      BY <2>3 DEF Acted, Stands
    <3>2. work' \in Work
      BY <2>3 DEF Acted, Work
    <3> QED BY <3>1, <3>2, ReplyTypes
  <2>4. CASE ~(Replace \/ BriefSent \/ Acted)
    <3>1. UNCHANGED <<work, turnOpen>> /\ reply' \in {reply, OwePrompt(reply)}
      BY <2>4 DEF Replaces, Setup, Brief, BriefFails, TellContexts, ContextsTold, Act, DrainAgain,
                  Install, GiveUp
    <3>2. stand' \in Stands
      BY <2>4 DEF Replaces, Setup, Brief, BriefFails, TellContexts, ContextsTold, Act, DrainAgain,
                  Install, GiveUp, Stands
    <3> QED BY <3>1, <3>2, ReplyTypes
  <2> QED BY <2>1, <2>2, <2>3, <2>4
<1>2. notes' \in Notes
  <2>1. \/ UNCHANGED notes
        \/ notes' = ClearDebt(notes)
        \/ \E h \in {"off", "asked", "held"} : notes' = [notes EXCEPT !.hold = h]
        \/ \E b \in BOOLEAN : notes' = [notes EXCEPT !.cold = b] \/ notes' = [notes EXCEPT !.owed = b]
    <3>1. CASE Replace
      BY <3>1 DEF Replace, Notes
    <3>2. CASE Brief
      <4>1. notes' = [notes EXCEPT !.owed = @ \/ (ReplyUnfinished /\ Silenced(notes))]
        BY <3>2 DEF Brief
      <4> QED BY <4>1 DEF Notes
    <3>3. CASE BriefSent
      BY <3>3 DEF BriefSent
    <3>4. CASE BriefFails
      BY <3>4 DEF BriefFails, Notes, Driver
    <3>5. CASE ContextsTold
      BY <3>5 DEF ContextsTold
    <3>6. CASE Acted
      BY <3>6 DEF Acted, Notes
    <3> QED BY <3>1, <3>2, <3>3, <3>4, <3>5, <3>6
            DEF Replaces, Setup, TellContexts, Act, DrainAgain, Install, GiveUp
  <2> QED BY <2>1, NotesTypes
<1>3. model' \in Model
  <2>1. CASE Setup
    <3>1. model' \in {[memory |-> "none", handle |-> "no"], [model EXCEPT !.memory = "behind"]}
          \/ (model.handle # "no" /\ model' = [model EXCEPT !.memory = model.handle])
      BY <2>1 DEF Setup
    <3>2. [memory |-> "none", handle |-> "no"] \in Model
      BY DEF Model
    <3>3. model.handle # "no" => model.handle \in {"told", "none", "behind"}
      BY DEF Model
    <3> QED BY <3>1, <3>2, <3>3, ModelTypes
  <2>2. CASE ~Setup
    <3>1. model' \in {model, Learn(model), [model EXCEPT !.memory = "told"]}
      BY <2>2 DEF Replaces, Replace, Brief, BriefSent, BriefFails, TellContexts, ContextsTold, Act,
                  Acted, DrainAgain, Install, GiveUp
    <3> QED BY <3>1, ModelTypes
  <2> QED BY <2>1, <2>2
<1>4. driver' \in Driver
  <2>1. NoDriver \in Driver
    BY DEF NoDriver, Driver
  <2>2. CASE Brief
    <3>1. \E held, owed, asks \in BOOLEAN, pays \in {"nothing", "debt", "cold"} :
              driver' = [driver EXCEPT
               !.action = FALSE, !.obliged = FALSE, !.fresh = TRUE,
               !.wasHeld = held, !.owed = owed, !.asks = asks, !.pays = pays]
      <4>1. Silenced(notes) \in BOOLEAN /\ ReplyUnfinished \in BOOLEAN
        BY DEF Silenced, ReplyUnfinished, Reply, Work
      <4> DEFINE update == driver.resumed /\ ~notes.cold
                 asks == ~Silenced(notes) /\ (update => ReplyUnfinished)
                 pays == IF asks THEN "debt" ELSE IF update THEN "nothing" ELSE "cold"
      <4>2. driver' = [driver EXCEPT
               !.action = FALSE, !.obliged = FALSE, !.fresh = TRUE,
               !.wasHeld = Silenced(notes), !.owed = ReplyUnfinished, !.asks = asks, !.pays = pays]
        BY <2>2 DEF Brief
      <4>3. asks \in BOOLEAN /\ pays \in {"nothing", "debt", "cold"}
        OBVIOUS
      <4> HIDE DEF asks, pays
      <4> QED BY <4>1, <4>2, <4>3
    <3>2. PICK held \in BOOLEAN, owed \in BOOLEAN, asks \in BOOLEAN,
               pays \in {"nothing", "debt", "cold"} :
              driver' = [driver EXCEPT
               !.action = FALSE, !.obliged = FALSE, !.fresh = TRUE,
               !.wasHeld = held, !.owed = owed, !.asks = asks, !.pays = pays]
      BY <3>1
    <3> HIDE DEF RecoveryTypeOK
    <3>3. driver \in Driver
      BY DEF RecoveryTypeOK
    <3>4. [driver EXCEPT !.action = FALSE, !.obliged = FALSE, !.fresh = TRUE] \in Driver
      BY <3>3 DEF Driver
    <3>5. \A d \in Driver :
              [d EXCEPT !.wasHeld = held, !.owed = owed, !.asks = asks, !.pays = pays] \in Driver
      BY DEF Driver
    <3>6. driver' = [[driver EXCEPT !.action = FALSE, !.obliged = FALSE, !.fresh = TRUE] EXCEPT
                         !.wasHeld = held, !.owed = owed, !.asks = asks, !.pays = pays]
      BY <3>2, <3>3 DEF Driver
    <3> QED BY <3>4, <3>5, <3>6
  <2>3. CASE Setup
    BY <2>3 DEF Setup, Driver
  <2>4. CASE BriefSent
    <3>1. \E b \in BOOLEAN, a \in {"yes", driver.asked} :
              driver' = [driver EXCEPT !.second = b, !.asked = a]
      BY <2>4 DEF BriefSent
    <3> QED BY <3>1 DEF Driver
  <2>5. CASE BriefFails \/ TellContexts \/ ContextsTold \/ Act \/ Acted
    <3>1. \/ driver' = driver
          \/ driver' = [driver EXCEPT !.contexts = FALSE]
          \/ driver' = [driver EXCEPT !.action = FALSE, !.obliged = FALSE, !.fresh = TRUE]
          \/ \E a \in {"yes", "failed"} : driver' = [driver EXCEPT !.asked = a]
      BY <2>5 DEF BriefFails, TellContexts, ContextsTold, Act, Acted
    <3>2. /\ [driver EXCEPT !.contexts = FALSE] \in Driver
          /\ [driver EXCEPT !.action = FALSE, !.obliged = FALSE, !.fresh = TRUE] \in Driver
      BY DEF Driver
    <3>3. \A a \in {"yes", "failed"} : [driver EXCEPT !.asked = a] \in Driver
      BY DEF Driver
    <3> QED BY <3>1, <3>2, <3>3
  <2>6. CASE Replace \/ DrainAgain \/ Install \/ GiveUp
    BY <2>1, <2>6 DEF Replace, DrainAgain, Install, GiveUp
  <2> QED BY <2>2, <2>3, <2>4, <2>5, <2>6 DEF Replaces
<1> QED BY <1>1, <1>2, <1>3, <1>4

LEMMA PacketsTypes ==
    ASSUME RecoveryTypeOK, Packets
    PROVE  RecoveryTypeOK'
<1> USE DEF RecoveryTypeOK
<1>1. UNCHANGED <<model, stand>>
  BY DEF Packets, ThinkMeanwhile, ReleaseMeanwhile, NewsMeanwhile, Waiting
<1>2. CASE ThinkMeanwhile
  <2>1. reply' \in Reply /\ turnOpen' \in BOOLEAN
    BY <1>2, ReplyTypes DEF ThinkMeanwhile
  <2>2. work' \in Work
    <3>1. Discards(reply, work, FALSE, FALSE) \in BOOLEAN
      BY DEF Discards
    <3> QED BY <1>2, <3>1, WorkTypes DEF ThinkMeanwhile
  <2>3. notes' \in Notes
    <3>1. Unheard(notes, reply) \in Notes
      BY NotesTypes
    <3>2. notes' = [Unheard(notes, reply) EXCEPT
                       !.hold = "held", !.owed = @ \/ ReplyUnfinished \/ driver.toggle]
      BY <1>2 DEF ThinkMeanwhile
    <3> HIDE DEF RecoveryTypeOK
    <3> QED BY <3>1, <3>2 DEF Notes
  <2>4. driver' \in Driver
    BY <1>2 DEF ThinkMeanwhile, Driver
  <2> QED BY <1>1, <2>1, <2>2, <2>3, <2>4
<1>3. CASE ReleaseMeanwhile
  <2>1. UNCHANGED <<work, turnOpen>> /\ notes' = [notes EXCEPT !.hold = "off"]
    BY <1>3 DEF ReleaseMeanwhile
  <2>2. PICK by \in {"button", "yield", "packet"}, asks \in BOOLEAN :
         /\ driver' = IF asks THEN [driver EXCEPT !.obliged = TRUE, !.fresh = FALSE,
                                                  !.action = TRUE, !.toggle = by = "button"]
                      ELSE [driver EXCEPT !.obliged = @ \/ Silenced(notes)]
         /\ reply' = IF asks THEN MarkPrompted(reply) ELSE reply
    BY <1>3 DEF ReleaseMeanwhile
  <2>3. driver' \in Driver
    BY <2>2 DEF Driver
  <2>4. reply' \in Reply
    BY <2>2, ReplyTypes
  <2> QED BY <1>1, <2>1, <2>3, <2>4, NotesTypes
<1>4. CASE NewsMeanwhile
  <2>1. UNCHANGED <<work, notes, turnOpen>> /\ reply' \in {reply, MarkPrompted(reply)}
    BY <1>4 DEF NewsMeanwhile
  <2>2. driver' \in Driver
    BY <1>4 DEF NewsMeanwhile, Driver
  <2> QED BY <1>1, <2>1, <2>2, ReplyTypes
<1> QED BY <1>2, <1>3, <1>4 DEF Packets

LEMMA RecoveryTypes ==
    /\ RecoveryInit => RecoveryTypeOK
    /\ RecoveryTypeOK /\ [RecoveryNext]_recoveryVars => RecoveryTypeOK'
<1>1. RecoveryInit => RecoveryTypeOK
  <2>1. NoDriver \in Driver
    BY DEF NoDriver, Driver
  <2>2. RecoveryInit => notes \in Notes /\ model \in Model /\ stand \in Stands
    BY DEF RecoveryInit, Notes, Model, Stands
  <2> QED BY <2>1, <2>2, ReplyTypes, WorkTypes DEF RecoveryInit, RecoveryTypeOK
<1>2. RecoveryTypeOK /\ UNCHANGED recoveryVars => RecoveryTypeOK'
  BY DEF RecoveryTypeOK, recoveryVars
<1> QED BY <1>1, <1>2, RecoverySplit, TalksTypes, ReplacesTypes, PacketsTypes

(***************************************************************************)
(* A session that was never briefed                                        *)
(***************************************************************************)

\* The notes say so whenever the session in hand was opened cold, except while its
\* briefing is written and sent.
ColdIsKnown ==
    model.memory = "none" /\ stand # "ended"
            /\ ~(stand \in {"brief", "briefing"} /\ ~driver.resumed)
        => notes.cold

LEMMA ColdStep ==
    ASSUME RecoveryTypeOK, ColdIsKnown, [RecoveryNext]_recoveryVars
    PROVE  ColdIsKnown'
<1>0. notes \in Notes /\ model \in Model /\ driver \in Driver
  BY DEF RecoveryTypeOK
<1>1. CASE Talks
  <2>1. stand = "live" /\ stand' = "live" /\ Learns
    BY <1>1, TalksTypes
  <2>2. model.memory = "none" => notes.cold
    BY <2>1 DEF ColdIsKnown
  <2>3. CASE model' = Learn(model)
    BY <1>0, <2>2, <2>3, ModelTypes DEF ColdIsKnown
  <2>4. CASE model'.memory = model.memory /\ notes'.cold = notes.cold
    BY <2>2, <2>4 DEF ColdIsKnown
  <2> QED BY <2>1, <2>3, <2>4 DEF Learns
<1>2. CASE Replace \/ Install
  <2>1. stand \notin {"brief", "briefing", "ended"} /\ UNCHANGED model /\ notes'.cold = notes.cold
    BY <1>0, <1>2 DEF Replace, Install, Notes
  <2> QED BY <2>1 DEF ColdIsKnown
<1>3. CASE Setup
  <2>1. PICK resumed \in BOOLEAN :
            /\ driver' = [driver EXCEPT !.resumed = resumed]
            /\ model' = IF ~resumed THEN [memory |-> "none", handle |-> "no"]
                        ELSE [model EXCEPT !.memory =
                             IF model.handle = "none" /\ ~notes.cold THEN "behind" ELSE model.handle]
    BY <1>3 DEF Setup
  <2>2. CASE resumed
    <3>1. model'.memory = "none" => notes.cold
      BY <1>0, <2>1, <2>2 DEF Model
    <3> QED BY <1>3, <3>1 DEF Setup, ColdIsKnown
  <2>3. CASE ~resumed
    <3>1. stand' = "brief" /\ ~driver'.resumed
      BY <1>0, <1>3, <2>1, <2>3 DEF Setup, Driver
    <3> QED BY <3>1 DEF ColdIsKnown
  <2> QED BY <2>2, <2>3
<1>4. CASE Brief
  <2>1. driver'.resumed = driver.resumed
    BY <1>0, <1>4 DEF Brief, Driver
  <2>2. notes'.cold = notes.cold /\ UNCHANGED model /\ stand = "brief" /\ stand' = "briefing"
    BY <1>0, <1>4 DEF Brief, Notes
  <2> QED BY <2>1, <2>2 DEF ColdIsKnown
<1>5. CASE BriefSent
  <2>1. CASE driver.resumed
    <3>1. model' = Learn(model) /\ stand = "briefing"
      BY <1>5, <2>1 DEF BriefSent
    <3>2. model.memory = "none" => notes.cold
      BY <2>1, <3>1 DEF ColdIsKnown
    <3>3. model'.memory # "none"
      BY <1>0, <3>1, <3>2, ModelTypes
    <3> QED BY <3>3 DEF ColdIsKnown
  <2>2. CASE ~driver.resumed
    <3>1. model' = [model EXCEPT !.memory = "told"]
      BY <1>5, <2>2 DEF BriefSent
    <3>2. model'.memory = "told"
      BY <1>0, <3>1 DEF Model
    <3> QED BY <3>2 DEF ColdIsKnown
  <2> QED BY <2>1, <2>2
<1>6. CASE BriefFails
  <2>1. CASE driver.resumed
    <3>1. stand = "briefing" /\ UNCHANGED model /\ (notes.cold => notes'.cold)
      BY <1>0, <1>6 DEF BriefFails, Notes
    <3> QED BY <2>1, <3>1 DEF ColdIsKnown
  <2>2. CASE ~driver.resumed
    <3>1. notes'.cold
      BY <1>0, <1>6, <2>2 DEF BriefFails, Notes
    <3> QED BY <3>1 DEF ColdIsKnown
  <2> QED BY <2>1, <2>2
<1>7. CASE ContextsTold
  <2>1. stand = "telling" /\ UNCHANGED model /\ (notes.cold => notes'.cold)
    BY <1>0, <1>7 DEF ContextsTold, Notes
  <2> QED BY <2>1 DEF ColdIsKnown
<1>8. CASE Acted
  <2>1. model.memory = "none" => notes.cold
    BY <1>8 DEF Acted, ColdIsKnown
  <2>2. CASE model' = Learn(model)
    BY <1>0, <2>1, <2>2, ModelTypes DEF ColdIsKnown
  <2>3. CASE UNCHANGED model /\ (notes.cold => notes'.cold)
    BY <2>1, <2>3 DEF ColdIsKnown
  <2> QED BY <1>0, <1>8, <2>2, <2>3 DEF Acted, Notes
<1>9. CASE TellContexts \/ Act \/ DrainAgain \/ GiveUp
  <2>1. UNCHANGED <<model, notes>>
    BY <1>9 DEF TellContexts, Act, DrainAgain, GiveUp
  <2>2. stand' = "ended" \/ stand \in {"contexts", "actions"}
    BY <1>9 DEF TellContexts, Act, DrainAgain, GiveUp
  <2> QED BY <2>1, <2>2 DEF ColdIsKnown
<1>10. CASE Packets
  <2>1. UNCHANGED <<model, stand>>
    BY <1>10 DEF Packets, ThinkMeanwhile, ReleaseMeanwhile, NewsMeanwhile, Waiting
  <2>2. notes'.cold = notes.cold
    <3>1. CASE ThinkMeanwhile
      <4>1. Unheard(notes, reply) \in Notes /\ Unheard(notes, reply).cold = notes.cold
        <5>1. Unheard(notes, reply).cold = notes.cold
          BY <1>0 DEF Unheard, Notes
        <5> QED BY <1>0, <5>1, NotesTypes DEF RecoveryTypeOK
      <4>2. notes' = [Unheard(notes, reply) EXCEPT
                         !.hold = "held", !.owed = @ \/ ReplyUnfinished \/ driver.toggle]
        BY <3>1 DEF ThinkMeanwhile
      <4> QED BY <4>1, <4>2 DEF Notes
    <3>2. CASE ReleaseMeanwhile
      BY <1>0, <3>2 DEF ReleaseMeanwhile, Notes
    <3>3. CASE NewsMeanwhile
      BY <3>3 DEF NewsMeanwhile
    <3> QED BY <1>10, <3>1, <3>2, <3>3 DEF Packets
  <2>3. driver'.resumed = driver.resumed
    <3>1. CASE ThinkMeanwhile \/ NewsMeanwhile
      BY <1>0, <3>1 DEF ThinkMeanwhile, NewsMeanwhile, Driver
    <3>2. CASE ReleaseMeanwhile
      <4>1. \E on \in BOOLEAN :
                \/ driver' = [driver EXCEPT !.obliged = TRUE, !.fresh = FALSE, !.action = TRUE,
                                            !.toggle = on]
                \/ driver' = [driver EXCEPT !.obliged = @ \/ Silenced(notes)]
        <5>1. PICK by \in {"button", "yield", "packet"}, asks \in BOOLEAN :
                  driver' = IF asks THEN [driver EXCEPT !.obliged = TRUE, !.fresh = FALSE,
                                                  !.action = TRUE, !.toggle = by = "button"]
                      ELSE [driver EXCEPT !.obliged = @ \/ Silenced(notes)]
          BY <3>2 DEF ReleaseMeanwhile
        <5>2. (by = "button") \in BOOLEAN
          OBVIOUS
        <5> QED BY <5>1, <5>2
      <4> QED BY <1>0, <4>1 DEF Driver
    <3> QED BY <1>10, <3>1, <3>2 DEF Packets
  <2> QED BY <2>1, <2>2, <2>3 DEF ColdIsKnown
<1>11. CASE UNCHANGED recoveryVars
  BY <1>11 DEF recoveryVars, ColdIsKnown
<1> QED BY <1>1, <1>2, <1>3, <1>4, <1>5, <1>6, <1>7, <1>8, <1>9, <1>10, <1>11, RecoverySplit
    DEF Replaces

\* The reply, the work of the socket, the notes of the hold and the locals of the
\* replacement stay well typed, whatever breaks and whatever arrives meanwhile.
THEOREM RecoveryIsTyped == RecoverySpec => []RecoveryTypeOK
BY RecoveryTypes, PTL DEF RecoverySpec

\* Whatever breaks, in whatever order: a session in use that was never briefed is
\* known to be so, and the next hold's end, check-in or replacement briefs it.
THEOREM ColdSessionsAreKnown == RecoverySpec => []BriefingIsOwed
<1>1. RecoveryInit => ColdIsKnown
  BY DEF RecoveryInit, ColdIsKnown
<1>2. ColdIsKnown => BriefingIsOwed
  BY DEF ColdIsKnown, BriefingIsOwed
<1> QED BY <1>1, <1>2, RecoveryTypes, ColdStep, PTL DEF RecoverySpec

(***************************************************************************)
(* A reply that is owed                                                    *)
(***************************************************************************)

\* What was in flight died with the socket.
NothingInFlight == stand # "live" => ~work.tool /\ ~work.deferred /\ notes.hold # "asked"

\* A request that is queued is also owed, in the reply or in the notes, and keeps the
\* debt from being cleared by what was sent before it.
RequestsAreOwed ==
    driver.action =>
        /\ driver.obliged /\ (ReplyUnfinished \/ notes.owed)
        /\ Silenced(notes) => notes.owed

\* What the driver says of itself.
DriverIsHonest ==
    /\ stand = "live" => driver = NoDriver
    /\ ~driver.obliged => driver.fresh
    /\ stand = "briefing" =>
           /\ driver.asks <=> driver.pays = "debt"
           /\ driver.asks /\ ~driver.obliged => ~Silenced(notes)
    /\ stand = "leaving" => driver.asked = "failed"

\* A reply the next session is not asked for is in the notes or will be requested.
NotAskedIsKept ==
    ReplyUnfinished /\
        \/ stand = "briefing" /\ ~driver.asks
        \/ stand \in {"contexts", "telling", "actions"} /\ driver.asked = "no"
    => notes.owed \/ driver.action

CarryInv == NothingInFlight /\ RequestsAreOwed /\ DriverIsHonest /\ NotAskedIsKept

Carries ==
    /\ (stand # "live" \/ stand' # "live") /\ stand' # "ended" /\ Owes => Owes'
    /\ stand # "live" /\ stand' = "live" /\ ReplyUnfinished' => notes'.owed \/ driver.asked # "no"

LEMMA PromptsOwe ==
    /\ \A r \in Reply : MarkPrompted(r).prompted /\ OwePrompt(r).prompted
    /\ reply.prompted => ReplyUnfinished
    /\ reply'.prompted => ReplyUnfinished'
    /\ \A n \in Notes : ClearDebt(n).hold = n.hold
<1>1. \A r \in Reply : MarkPrompted(r).prompted = TRUE /\ OwePrompt(r).prompted = TRUE
  BY DEF Reply, MarkPrompted, OwePrompt
<1>2. \A n \in Notes : ClearDebt(n).hold = n.hold
  BY DEF Notes, ClearDebt
<1> QED BY <1>1, <1>2 DEF ReplyUnfinished

\* While a session is up there is no driver.
LEMMA TalksCarry ==
    ASSUME RecoveryTypeOK, CarryInv, Talks
    PROVE  CarryInv' /\ Carries
<1>1. stand = "live" /\ stand' = "live" /\ driver' = NoDriver
  BY TalksTypes DEF CarryInv, DriverIsHonest
<1>2. ~driver'.action /\ driver'.fresh
  BY <1>1 DEF NoDriver
<1> QED BY <1>1, <1>2
    DEF CarryInv, NothingInFlight, RequestsAreOwed, DriverIsHonest, NotAskedIsKept, Carries

\* The session breaks, and the next one is opened.
LEMMA OpeningCarries ==
    ASSUME RecoveryTypeOK, RecoveryTypeOK', CarryInv, Replace \/ Setup
    PROVE  CarryInv' /\ Carries
<1>0. notes \in Notes /\ driver \in Driver /\ reply \in Reply /\ work \in Work
  BY DEF RecoveryTypeOK
<1>1. CASE Replace
  <2>1. stand = "live" /\ stand' = "setup" /\ work' = NoWork /\ driver = NoDriver /\ driver' = NoDriver
    BY <1>1 DEF Replace, CarryInv, DriverIsHonest
  <2>2. /\ ~driver.action /\ ~driver'.action /\ driver'.fresh /\ ~work'.tool /\ ~work'.deferred
    BY <2>1 DEF NoDriver, NoWork
  <2>3. notes'.owed = notes.owed /\ notes'.hold # "asked"
    BY <1>0, <1>1 DEF Replace, Notes
  <2>4. ReplyUnfinished => ReplyUnfinished'
    BY <1>1, ReplyTypes, PromptsOwe DEF Replace
  <2>5. Owes => Owes'
    BY <2>2, <2>3, <2>4 DEF Owes
  <2>6. CarryInv'
    BY <2>1, <2>2, <2>3 DEF CarryInv, NothingInFlight, RequestsAreOwed, DriverIsHonest, NotAskedIsKept
  <2> QED BY <2>1, <2>5, <2>6 DEF Carries
<1>2. CASE Setup
  <2>1. stand = "setup" /\ stand' = "brief" /\ UNCHANGED <<reply, work, notes>>
    BY <1>2 DEF Setup
  <2>2. /\ driver'.action = driver.action /\ driver'.obliged = driver.obliged
        /\ driver'.fresh = driver.fresh
    BY <1>0, <1>2 DEF Setup, Driver
  <2>3. ReplyUnfinished' = ReplyUnfinished /\ Owes' = Owes
    BY <2>1, <2>2 DEF ReplyUnfinished, Owes
  <2>4. CarryInv'
    BY <2>1, <2>2, <2>3
       DEF CarryInv, NothingInFlight, RequestsAreOwed, DriverIsHonest, NotAskedIsKept, Silenced
  <2> QED BY <2>1, <2>3, <2>4 DEF Carries
<1> QED BY <1>1, <1>2

LEMMA BriefCarries ==
    ASSUME RecoveryTypeOK, RecoveryTypeOK', CarryInv, Brief
    PROVE  CarryInv' /\ Carries
<1>0. notes \in Notes /\ driver \in Driver /\ reply \in Reply /\ work \in Work
  BY DEF RecoveryTypeOK
<1>1. stand = "brief" /\ stand' = "briefing" /\ UNCHANGED <<reply, work>>
  BY DEF Brief
<1>2. ReplyUnfinished' = ReplyUnfinished
  BY <1>1 DEF ReplyUnfinished
<1> DEFINE update == driver.resumed /\ ~notes.cold
           asks == ~Silenced(notes) /\ (update => ReplyUnfinished)
<1>3. /\ driver'.action = FALSE /\ driver'.obliged = FALSE /\ driver'.fresh = TRUE
      /\ driver'.asks = asks
      /\ driver'.pays = IF asks THEN "debt" ELSE IF update THEN "nothing" ELSE "cold"
  <2>1. driver' = [driver EXCEPT
               !.action = FALSE, !.obliged = FALSE, !.fresh = TRUE,
               !.wasHeld = Silenced(notes), !.owed = ReplyUnfinished, !.asks = asks,
               !.pays = IF asks THEN "debt" ELSE IF update THEN "nothing" ELSE "cold"]
    BY DEF Brief
  <2> HIDE DEF asks, update
  <2> QED BY <1>0, <2>1 DEF Driver
<1>4. notes'.hold = notes.hold /\ (notes'.owed <=> notes.owed \/ (ReplyUnfinished /\ Silenced(notes)))
  <2>1. notes' = [notes EXCEPT !.owed = @ \/ (ReplyUnfinished /\ Silenced(notes))]
    BY DEF Brief
  <2> QED BY <1>0, <2>1 DEF Notes
<1>5. Silenced(notes') = Silenced(notes)
  BY <1>4 DEF Silenced
<1>6. Owes => Owes'
  BY <1>2, <1>4 DEF Owes, CarryInv, RequestsAreOwed
<1>7. NothingInFlight' /\ RequestsAreOwed'
  BY <1>1, <1>3, <1>4 DEF CarryInv, NothingInFlight, RequestsAreOwed
<1>8. DriverIsHonest'
  BY <1>1, <1>3, <1>5 DEF DriverIsHonest
<1>9. NotAskedIsKept'
  BY <1>1, <1>2, <1>3, <1>4 DEF NotAskedIsKept
<1> QED BY <1>1, <1>6, <1>7, <1>8, <1>9 DEF CarryInv, Carries

\* What the briefing pays it asks for: where it clears the notes, a reply is marked.
LEMMA BriefSentCarries ==
    ASSUME RecoveryTypeOK, RecoveryTypeOK', CarryInv, BriefSent
    PROVE  CarryInv' /\ Carries
<1>0. notes \in Notes /\ driver \in Driver /\ reply \in Reply /\ work \in Work
  BY DEF RecoveryTypeOK
<1>1. stand = "briefing" /\ stand' \in {"brief", "contexts"}
  BY DEF BriefSent
<1>2. /\ driver'.action = driver.action /\ driver'.obliged = driver.obliged
      /\ driver'.fresh = driver.fresh
      /\ driver'.asked = IF driver.asks THEN "yes" ELSE driver.asked
  <2>1. PICK again \in BOOLEAN :
            driver' = [driver EXCEPT !.second = again, !.asked = IF driver.asks THEN "yes" ELSE @]
    BY DEF BriefSent
  <2> QED BY <1>0, <2>1 DEF Driver
<1>3. work'.tool = work.tool /\ work'.deferred = work.deferred
  BY <1>0 DEF BriefSent, Work
<1>4. /\ driver.obliged => UNCHANGED notes
      /\ driver.pays # "debt" => notes'.owed = notes.owed
      /\ notes'.hold = notes.hold
  <2>1. CASE driver.obliged
    BY <2>1 DEF BriefSent
  <2>2. CASE ~driver.obliged /\ driver.pays = "debt"
    BY <1>0, <2>2, PromptsOwe DEF BriefSent
  <2>3. CASE ~driver.obliged /\ driver.pays = "cold"
    <3>1. notes' = [notes EXCEPT !.cold = FALSE]
      BY <2>3 DEF BriefSent
    <3> QED BY <1>0, <2>3, <3>1 DEF Notes
  <2>4. CASE ~driver.obliged /\ driver.pays \notin {"debt", "cold"}
    BY <2>4 DEF BriefSent
  <2> QED BY <2>1, <2>2, <2>3, <2>4
<1>5. Silenced(notes') = Silenced(notes)
  BY <1>4 DEF Silenced
<1>6. /\ ReplyUnfinished => ReplyUnfinished'
      /\ driver.fresh /\ driver.asks /\ ~Silenced(notes) => ReplyUnfinished'
      /\ ~driver.asks => ReplyUnfinished' = ReplyUnfinished
  <2>1. reply' = IF driver.fresh /\ driver.asks /\ ~Silenced(notes) THEN MarkPrompted(reply) ELSE reply
    BY DEF BriefSent
  <2>2. CASE driver.fresh /\ driver.asks /\ ~Silenced(notes)
    BY <1>0, <2>1, <2>2, PromptsOwe
  <2>3. CASE ~(driver.fresh /\ driver.asks /\ ~Silenced(notes))
    BY <1>3, <2>1, <2>3 DEF ReplyUnfinished
  <2> QED BY <2>2, <2>3
<1>7. notes.owed => notes'.owed \/ ReplyUnfinished'
  <2>1. CASE driver.obliged \/ driver.pays # "debt"
    BY <1>4, <2>1
  <2>2. CASE ~driver.obliged /\ driver.pays = "debt"
    BY <1>1, <1>6, <2>2 DEF CarryInv, DriverIsHonest
  <2> QED BY <2>1, <2>2
<1>8. Owes => Owes'
  BY <1>2, <1>6, <1>7 DEF Owes
<1>9. NothingInFlight'
  BY <1>1, <1>3, <1>4 DEF CarryInv, NothingInFlight
<1>10. RequestsAreOwed'
  <2>1. driver'.action => driver.action /\ driver.obliged /\ UNCHANGED notes
    BY <1>2, <1>4 DEF CarryInv, RequestsAreOwed
  <2> QED BY <1>2, <1>6, <2>1 DEF CarryInv, RequestsAreOwed
<1>11. DriverIsHonest'
  BY <1>1, <1>2 DEF CarryInv, DriverIsHonest
<1>12. NotAskedIsKept'
  <2> SUFFICES ASSUME driver'.asked = "no", ReplyUnfinished', stand' = "contexts"
               PROVE  notes'.owed \/ driver'.action
    BY <1>1 DEF NotAskedIsKept
  <2>1. ~driver.asks
    BY <1>2
  <2>2. driver.pays # "debt"
    BY <1>1, <2>1 DEF CarryInv, DriverIsHonest
  <2> QED BY <1>1, <1>2, <1>4, <1>6, <2>1, <2>2 DEF CarryInv, NotAskedIsKept
<1> QED BY <1>1, <1>8, <1>9, <1>10, <1>11, <1>12 DEF CarryInv, Carries

LEMMA BriefFailsCarries ==
    ASSUME RecoveryTypeOK, RecoveryTypeOK', CarryInv, BriefFails
    PROVE  CarryInv' /\ Carries
<1>0. notes \in Notes /\ driver \in Driver /\ reply \in Reply
  BY DEF RecoveryTypeOK
<1>1. stand = "briefing" /\ stand' = "contexts" /\ UNCHANGED work
  BY DEF BriefFails
<1>2. /\ driver'.action = driver.action /\ driver'.obliged = driver.obliged
      /\ driver'.fresh = driver.fresh /\ driver'.asked = "failed"
  BY <1>0 DEF BriefFails, Driver
<1>3. notes'.hold = notes.hold /\ notes'.owed = notes.owed
  BY <1>0 DEF BriefFails, Notes
<1>4. Silenced(notes') = Silenced(notes)
  BY <1>3 DEF Silenced
<1>5. ReplyUnfinished => ReplyUnfinished'
  <2>1. reply' = reply \/ reply' = OwePrompt(reply)
    BY DEF BriefFails
  <2>2. CASE reply' = reply
    BY <1>1, <2>2 DEF ReplyUnfinished
  <2>3. CASE reply' = OwePrompt(reply)
    BY <1>0, <2>3, PromptsOwe
  <2> QED BY <2>1, <2>2, <2>3
<1>6. Owes => Owes'
  BY <1>2, <1>3, <1>5 DEF Owes
<1> QED BY <1>1, <1>2, <1>3, <1>4, <1>5, <1>6
    DEF CarryInv, NothingInFlight, RequestsAreOwed, DriverIsHonest, NotAskedIsKept, Carries

\* Between the steps that send something.
LEMMA MovingCarries ==
    ASSUME RecoveryTypeOK, RecoveryTypeOK', CarryInv,
           TellContexts \/ ContextsTold \/ Act \/ DrainAgain \/ Install \/ GiveUp
    PROVE  CarryInv' /\ Carries
<1>0. notes \in Notes /\ driver \in Driver
  BY DEF RecoveryTypeOK
<1>1. UNCHANGED <<reply, work>>
  BY DEF TellContexts, ContextsTold, Act, DrainAgain, Install, GiveUp
<1>2. ReplyUnfinished' = ReplyUnfinished
  BY <1>1 DEF ReplyUnfinished
<1>3. notes'.hold = notes.hold /\ notes'.owed = notes.owed
  BY <1>0 DEF TellContexts, ContextsTold, Act, DrainAgain, Install, GiveUp, Notes
<1>4. Silenced(notes') = Silenced(notes)
  BY <1>3 DEF Silenced
<1>5. NoDriver.action = FALSE /\ NoDriver.fresh = TRUE
  BY DEF NoDriver
<1>6. CASE TellContexts \/ ContextsTold \/ DrainAgain
  <2>1. /\ driver'.action = driver.action /\ driver'.obliged = driver.obliged
        /\ driver'.fresh = driver.fresh /\ driver'.asked \in {driver.asked, "failed"}
    BY <1>0, <1>6 DEF TellContexts, ContextsTold, DrainAgain, Driver
  <2>2. stand \in {"contexts", "telling", "actions"}
        /\ stand' \in {"contexts", "telling", "actions", "leaving"}
        /\ (stand' = "leaving" => driver'.asked = "failed")
    BY <1>0, <1>6 DEF TellContexts, ContextsTold, DrainAgain, Driver
  <2>3. Owes => Owes'
    BY <1>2, <1>3, <2>1 DEF Owes
  <2> QED BY <1>1, <1>2, <1>3, <1>4, <2>1, <2>2, <2>3
      DEF CarryInv, NothingInFlight, RequestsAreOwed, DriverIsHonest, NotAskedIsKept, Carries
<1>7. CASE Act
  <2>1. driver'.action = FALSE /\ driver'.obliged = FALSE /\ driver'.fresh = TRUE
    BY <1>0, <1>7 DEF Act, Driver
  <2>2. stand = "actions" /\ stand' = "acting"
    BY <1>7 DEF Act
  <2>3. Owes => Owes'
    BY <1>2, <1>3 DEF Owes, CarryInv, RequestsAreOwed
  <2> QED BY <1>1, <1>2, <1>3, <2>1, <2>2, <2>3
      DEF CarryInv, NothingInFlight, RequestsAreOwed, DriverIsHonest, NotAskedIsKept, Carries
<1>8. CASE Install
  <2>1. stand' = "live" /\ driver' = NoDriver /\ stand \in {"leaving", "actions"}
        /\ (stand = "actions" => ~(driver.action /\ ~Silenced(notes)))
    BY <1>8 DEF Install
  <2>2. Owes => Owes'
    BY <1>2, <1>3 DEF Owes, CarryInv, RequestsAreOwed
  <2>3. ReplyUnfinished => notes.owed \/ driver.asked # "no"
    <3>1. CASE stand = "leaving"
      BY <3>1 DEF CarryInv, DriverIsHonest
    <3>2. CASE stand = "actions"
      <4>1. driver.action => notes.owed
        BY <2>1, <3>2 DEF CarryInv, RequestsAreOwed
      <4> QED BY <3>2, <4>1 DEF CarryInv, NotAskedIsKept
    <3> QED BY <2>1, <3>1, <3>2
  <2>4. CarryInv'
    BY <1>5, <2>1
       DEF CarryInv, NothingInFlight, RequestsAreOwed, DriverIsHonest, NotAskedIsKept
  <2> QED BY <1>2, <1>3, <2>1, <2>2, <2>3, <2>4 DEF Carries
<1>9. CASE GiveUp
  <2>1. stand # "live" /\ stand' = "ended" /\ driver' = NoDriver
    BY <1>9 DEF GiveUp
  <2> QED BY <1>1, <1>3, <1>5, <2>1
      DEF CarryInv, NothingInFlight, RequestsAreOwed, DriverIsHonest, NotAskedIsKept, Carries
<1> QED BY <1>6, <1>7, <1>8, <1>9

\* The request that is sent pays what was owed before it, unless another came.
LEMMA ActedCarries ==
    ASSUME RecoveryTypeOK, RecoveryTypeOK', CarryInv, Acted
    PROVE  CarryInv' /\ Carries
<1>0. notes \in Notes /\ driver \in Driver /\ reply \in Reply /\ work \in Work
  BY DEF RecoveryTypeOK
<1>1. stand = "acting" /\ stand' \in {"actions", "leaving"}
  BY DEF Acted
<1>2. /\ driver'.action = driver.action /\ driver'.obliged = driver.obliged
      /\ driver'.fresh = driver.fresh /\ driver'.asked \in {"yes", "failed"}
      /\ stand' = "leaving" => driver'.asked = "failed"
  BY <1>0 DEF Acted, Driver
<1>3. work'.tool = work.tool /\ work'.deferred = work.deferred
  BY <1>0 DEF Acted, Work
<1>4. notes'.hold = notes.hold /\ (driver.obliged => notes'.owed = notes.owed)
  <2>1. CASE stand' = "actions"
    BY <1>0, <2>1, PromptsOwe DEF Acted
  <2>2. CASE stand' = "leaving"
    BY <1>0, <2>2 DEF Acted, Notes
  <2> QED BY <1>1, <2>1, <2>2
<1>5. Silenced(notes') = Silenced(notes)
  BY <1>4 DEF Silenced
<1>6. (ReplyUnfinished => ReplyUnfinished') /\ (notes.owed => notes'.owed \/ ReplyUnfinished')
  <2>1. CASE stand' = "actions" /\ driver.fresh
    <3>1. reply' = MarkPrompted(reply)
      BY <2>1 DEF Acted
    <3> QED BY <1>0, <3>1, PromptsOwe
  <2>2. CASE stand' = "actions" /\ ~driver.fresh
    <3>1. driver.obliged
      BY <2>2 DEF CarryInv, DriverIsHonest
    <3>2. UNCHANGED reply
      BY <2>2 DEF Acted
    <3>3. ReplyUnfinished' = ReplyUnfinished
      BY <1>3, <3>2 DEF ReplyUnfinished
    <3> QED BY <1>4, <3>1, <3>3
  <2>3. CASE stand' = "leaving"
    <3>1. UNCHANGED reply /\ notes'.owed = notes.owed
      BY <1>0, <2>3 DEF Acted, Notes
    <3>2. ReplyUnfinished' = ReplyUnfinished
      BY <1>3, <3>1 DEF ReplyUnfinished
    <3> QED BY <3>1, <3>2
  <2> QED BY <1>1, <2>1, <2>2, <2>3
<1>7. Owes => Owes'
  BY <1>2, <1>6 DEF Owes
<1>8. NothingInFlight' /\ NotAskedIsKept'
  BY <1>1, <1>2, <1>3, <1>4 DEF CarryInv, NothingInFlight, NotAskedIsKept
<1>9. RequestsAreOwed'
  BY <1>2, <1>4, <1>5, <1>6 DEF CarryInv, RequestsAreOwed
<1>10. DriverIsHonest'
  BY <1>1, <1>2 DEF CarryInv, DriverIsHonest
<1> QED BY <1>1, <1>7, <1>8, <1>9, <1>10 DEF CarryInv, Carries

\* The packets: a hold puts what is owed into the notes, and what is asked for is
\* marked and queued.
LEMMA PacketsCarry ==
    ASSUME RecoveryTypeOK, RecoveryTypeOK', CarryInv, Packets
    PROVE  CarryInv' /\ Carries
<1>0. notes \in Notes /\ driver \in Driver /\ reply \in Reply /\ work \in Work
  BY DEF RecoveryTypeOK
<1>1. stand \notin {"live", "ended"} /\ stand' = stand
  BY DEF Packets, ThinkMeanwhile, ReleaseMeanwhile, NewsMeanwhile, Waiting
<1>2. CASE ThinkMeanwhile
  <2>1. notes'.hold = "held" /\ (notes'.owed <=> notes.owed \/ ReplyUnfinished \/ driver.toggle)
    <3>1. Unheard(notes, reply) \in Notes /\ Unheard(notes, reply).owed = notes.owed
      <4>1. Unheard(notes, reply).owed = notes.owed
        BY <1>0 DEF Unheard, Notes
      <4> QED BY <1>0, <4>1, NotesTypes
    <3>2. notes' = [Unheard(notes, reply) EXCEPT
                       !.hold = "held", !.owed = @ \/ ReplyUnfinished \/ driver.toggle]
      BY <1>2 DEF ThinkMeanwhile
    <3> QED BY <3>1, <3>2 DEF Notes
  <2>2. /\ driver'.action = driver.action /\ driver'.obliged = TRUE
        /\ driver'.asks = driver.asks /\ driver'.pays = driver.pays /\ driver'.asked = driver.asked
    BY <1>0, <1>2 DEF ThinkMeanwhile, Driver
  <2>3. work'.tool = FALSE /\ work'.deferred = work.deferred
    <3>1. work' = CutForHold(reply, work, Discards(reply, work, FALSE, FALSE))
      BY <1>2 DEF ThinkMeanwhile
    <3> QED BY <1>0, <3>1 DEF CutForHold, Work
  <2>4. ~ReplyUnfinished'
    <3>1. reply' = NoReply
      BY <1>2 DEF ThinkMeanwhile
    <3>2. ~work.deferred
      BY <1>1 DEF CarryInv, NothingInFlight
    <3> QED BY <2>3, <3>1, <3>2 DEF ReplyUnfinished, NoReply
  <2>5. Owes => Owes'
    BY <2>1, <2>2 DEF Owes
  <2>6. RequestsAreOwed'
    BY <2>1, <2>2 DEF CarryInv, RequestsAreOwed
  <2>7. NothingInFlight' /\ NotAskedIsKept'
    BY <1>1, <2>1, <2>3, <2>4 DEF CarryInv, NothingInFlight, NotAskedIsKept
  <2>8. DriverIsHonest'
    BY <1>1, <2>2 DEF CarryInv, DriverIsHonest
  <2> QED BY <1>1, <2>5, <2>6, <2>7, <2>8 DEF CarryInv, Carries
<1>3. CASE ReleaseMeanwhile
  <2>1. notes'.hold = "off" /\ notes'.owed = notes.owed /\ UNCHANGED work
    BY <1>0, <1>3 DEF ReleaseMeanwhile, Notes
  <2>2. ~Silenced(notes')
    BY <2>1 DEF Silenced
  <2>3. PICK by \in {"button", "yield", "packet"}, asks \in BOOLEAN :
         /\ driver' = IF asks THEN [driver EXCEPT !.obliged = TRUE, !.fresh = FALSE,
                                                  !.action = TRUE, !.toggle = by = "button"]
                      ELSE [driver EXCEPT !.obliged = @ \/ Silenced(notes)]
         /\ reply' = IF asks THEN MarkPrompted(reply) ELSE reply
    BY <1>3 DEF ReleaseMeanwhile
  <2>4. driver'.asks = driver.asks /\ driver'.pays = driver.pays /\ driver'.asked = driver.asked
    BY <1>0, <2>3 DEF Driver
  <2>5. CASE asks
    <3>1. driver'.action = TRUE /\ driver'.obliged = TRUE
      BY <1>0, <2>3, <2>5 DEF Driver
    <3>2. ReplyUnfinished'
      BY <1>0, <2>3, <2>5, PromptsOwe
    <3>3. NothingInFlight' /\ RequestsAreOwed' /\ NotAskedIsKept'
      BY <1>1, <2>1, <2>2, <3>1, <3>2 DEF CarryInv, NothingInFlight, RequestsAreOwed, NotAskedIsKept
    <3>4. DriverIsHonest'
      BY <1>1, <2>4, <3>1 DEF CarryInv, DriverIsHonest
    <3> QED BY <1>1, <3>2, <3>3, <3>4 DEF CarryInv, Carries, Owes
  <2>6. CASE ~asks
    <3>1. /\ driver'.action = driver.action /\ driver'.fresh = driver.fresh
          /\ driver'.obliged <=> driver.obliged \/ Silenced(notes)
      BY <1>0, <2>3, <2>6 DEF Driver
    <3>2. ReplyUnfinished' = ReplyUnfinished
      BY <2>1, <2>3, <2>6 DEF ReplyUnfinished
    <3>3. Owes => Owes'
      BY <2>1, <3>1, <3>2 DEF Owes
    <3>4. NothingInFlight' /\ RequestsAreOwed' /\ NotAskedIsKept'
      BY <1>1, <2>1, <2>2, <2>4, <3>1, <3>2
         DEF CarryInv, NothingInFlight, RequestsAreOwed, NotAskedIsKept
    <3>5. DriverIsHonest'
      BY <1>1, <2>2, <2>4, <3>1 DEF CarryInv, DriverIsHonest
    <3> QED BY <1>1, <3>3, <3>4, <3>5 DEF CarryInv, Carries
  <2> QED BY <2>5, <2>6
<1>4. CASE NewsMeanwhile
  <2>1. UNCHANGED <<work, notes>>
    BY <1>4 DEF NewsMeanwhile
  <2>2. /\ driver'.asks = driver.asks /\ driver'.pays = driver.pays /\ driver'.asked = driver.asked
        /\ driver'.obliged = TRUE
    BY <1>0, <1>4 DEF NewsMeanwhile, Driver
  <2>3. DriverIsHonest'
    BY <1>1, <2>2 DEF CarryInv, DriverIsHonest
  <2>4. CASE Silenced(notes)
    <3>1. driver'.action = driver.action /\ UNCHANGED reply
      BY <1>0, <1>4, <2>4 DEF NewsMeanwhile, Driver
    <3>2. ReplyUnfinished' = ReplyUnfinished
      BY <2>1, <3>1 DEF ReplyUnfinished
    <3>3. Owes => Owes'
      BY <2>1, <3>1, <3>2 DEF Owes
    <3>4. NothingInFlight' /\ RequestsAreOwed' /\ NotAskedIsKept'
      BY <1>1, <2>1, <2>2, <3>1, <3>2
         DEF CarryInv, NothingInFlight, RequestsAreOwed, NotAskedIsKept, Silenced
    <3> QED BY <1>1, <2>3, <3>3, <3>4 DEF CarryInv, Carries
  <2>5. CASE ~Silenced(notes)
    <3>1. driver'.action = TRUE /\ reply' = MarkPrompted(reply)
      BY <1>0, <1>4, <2>5 DEF NewsMeanwhile, Driver
    <3>2. ReplyUnfinished'
      BY <1>0, <3>1, PromptsOwe
    <3>3. ~Silenced(notes')
      BY <2>1, <2>5
    <3>4. NothingInFlight' /\ RequestsAreOwed' /\ NotAskedIsKept'
      BY <1>1, <2>1, <2>2, <3>1, <3>2, <3>3
         DEF CarryInv, NothingInFlight, RequestsAreOwed, NotAskedIsKept
    <3> QED BY <1>1, <2>3, <3>2, <3>4 DEF CarryInv, Carries, Owes
  <2> QED BY <2>4, <2>5
<1> QED BY <1>2, <1>3, <1>4 DEF Packets

LEMMA CarryStep ==
    ASSUME RecoveryTypeOK, CarryInv, [RecoveryNext]_recoveryVars
    PROVE  CarryInv' /\ [Carries]_recoveryVars
<1>1. RecoveryTypeOK'
  BY RecoveryTypes
<1>2. CASE RecoveryNext
  BY <1>1, <1>2, RecoverySplit, TalksCarry, OpeningCarries, BriefCarries, BriefSentCarries,
     BriefFailsCarries, MovingCarries, ActedCarries, PacketsCarry DEF Replaces
<1>3. CASE UNCHANGED recoveryVars
  BY <1>3 DEF recoveryVars, CarryInv, NothingInFlight, RequestsAreOwed, DriverIsHonest,
              NotAskedIsKept, ReplyUnfinished, Silenced
<1> QED BY <1>2, <1>3

\* From the break of a session to the installation of the next one nothing but the
\* interview's end forgets a reply that is owed, and the next session was asked for it
\* unless a hold keeps it in the notes or a send failed.
THEOREM OwedRepliesAreCarried == RecoverySpec => OwedIsCarried
<1>1. RecoveryInit => CarryInv
  BY DEF RecoveryInit, NoDriver, CarryInv, NothingInFlight, RequestsAreOwed, DriverIsHonest,
         NotAskedIsKept
<1>2. RecoverySpec => [][Carries]_recoveryVars
  BY <1>1, RecoveryTypes, CarryStep, PTL DEF RecoverySpec
<1> QED BY <1>2, PTL DEF OwedIsCarried, Carries

=============================================================================
