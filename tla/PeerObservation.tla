-------------------------- MODULE PeerObservation --------------------------
(***************************************************************************)
(* The silent observer of a peer practice and what is kept of it: the      *)
(* transcript and its row, the audio record and its files, the members'    *)
(* withdrawals, and the sweeps that delete what is due.  The practice is   *)
(* the life of PeerLife.                                                   *)
(*                                                                         *)
(* A statement of the database is one step, and so is a call on a file.    *)
(* The observer is one task per session; a crash takes it, the start       *)
(* handlers and the withdrawal that was being answered.                    *)
(***************************************************************************)
EXTENDS PeerLife

CONSTANTS
    KeepTime,       \* 24 h: how long a finished record is kept
    ObserveTime,    \* 26 h: how long the row of an observation may be kept
    RecordTime,     \* how long the record of an unfinished recording is kept
    Savings,        \* which of "transcript" and "audio" a pair may have chosen
    MaxFaults       \* bound: crashes and refused calls on files

ASSUME ObservationTimes ==
    /\ KeepTime \in Nat \ {0} /\ RecordTime \in Nat \ {0}
    /\ ObserveTime = HardTime + KeepTime
    /\ Savings \subseteq SUBSET {"transcript", "audio"} /\ MaxFaults \in Nat

VARIABLES
    saved,      \* what the settings say is saved
    observer,   \* where the observer's task is; "none" if there is none
    cleared,    \* a start handler has seen that the observer is ready
    row,        \* the session's row in peer_observations
    transcript, \* lines of the session are in peer_transcripts
    record,     \* the session's row in peer_audio_records
    part, wav,  \* the files: "none", "empty" (its header alone) or "samples"
    writer,     \* the observer's audio slot holds the open writer
    cleaners,   \* the withdrawal of audio being answered, and the audio sweep
    refused,    \* history: what was withdrawn and answered
    faults      \* history: crashes and refused calls so far

audioVars == <<record, part, wav, writer, cleaners>>
observationVars == <<lifeVars, saved, observer, cleared, row, transcript, audioVars, refused, faults>>

Places == {"none", "joining", "waiting", "mark", "open", "keep", "recheck", "begin",
           "capture", "taken", "renamed", "process", "processing"}
Files == {"none", "empty", "samples"}
Bigger(a, b) == IF a > b THEN a ELSE b
Smaller(a, b) == IF a < b THEN a ELSE b

\* `left' is the time until the row expires.
Row ==
    [status : {"none", "observing", "processing", "ready", "unavailable"},
     withdrawn : BOOLEAN, left : 0..Bigger(ObserveTime, InviteTime)]
Record ==
    [status : {"none", "recording", "ready", "failed", "deleted"},
     left : 0..Bigger(RecordTime, KeepTime), purged : BOOLEAN]
Cleaner == [at : {"idle", "stop", "select", "part", "wav", "purge"}, removed : BOOLEAN]

NoRow == [status |-> "none", withdrawn |-> FALSE, left |-> 0]
Idle == [at |-> "idle", removed |-> TRUE]

ObservationTypeOK ==
    /\ TypeOfLife
    /\ saved \in Savings /\ observer \in Places /\ cleared \in BOOLEAN
    /\ row \in Row /\ transcript \in BOOLEAN
    /\ record \in Record /\ part \in Files /\ wav \in Files /\ writer \in BOOLEAN
    /\ cleaners \in [{"request", "sweep"} -> Cleaner]
    /\ refused \subseteq {"transcript", "audio"} /\ faults \in 0..MaxFaults

ObservationInit ==
    /\ InitLife
    /\ saved \in Savings
    /\ observer = "none" /\ cleared = FALSE
    /\ row = NoRow /\ transcript = FALSE
    /\ record = [status |-> "none", left |-> 0, purged |-> FALSE]
    /\ part = "none" /\ wav = "none" /\ writer = FALSE
    /\ cleaners = [c \in {"request", "sweep"} |-> Idle]
    /\ refused = {} /\ faults = 0

(***************************************************************************)
(* The practice.  A start that both have agreed to waits for the observer. *)
(***************************************************************************)

HandlerSeesReady ==
    /\ observer = "waiting" /\ phase = "lobby"
    /\ cleared' = TRUE
    /\ UNCHANGED <<lifeVars, saved, observer, row, transcript, audioVars, refused, faults>>

RoundBegins ==
    /\ cleared /\ StartRound /\ cleared' = FALSE
    /\ UNCHANGED <<saved, observer, row, transcript, audioVars, refused, faults>>

LifeGoesOn ==
    /\ Agree \/ EnterLobby \/ LobbyEmpties \/ Close
    /\ cleared' = FALSE
    /\ UNCHANGED <<saved, observer, row, transcript, audioVars, refused, faults>>

(***************************************************************************)
(* The observer's task                                                     *)
(***************************************************************************)

Goes(from, to) == observer = from /\ observer' = to

\* start: there is no task yet, or the one there was has ended.
Start ==
    /\ phase = "lobby" /\ agreed
    /\ Goes("none", "joining")
    /\ UNCHANGED <<lifeVars, saved, cleared, row, transcript, audioVars, refused, faults>>

Join ==
    /\ Goes("joining", "waiting")
    /\ UNCHANGED <<lifeVars, saved, cleared, row, transcript, audioVars, refused, faults>>

SeeRound ==
    /\ phase = "active"
    /\ Goes("waiting", IF "audio" \in saved THEN "mark" ELSE "begin")
    /\ UNCHANGED <<lifeVars, saved, cleared, row, transcript, audioVars, refused, faults>>

FailedRecord ==
    IF record.status = "recording" THEN [record EXCEPT !.status = "failed", !.left = 0]
    ELSE record

\* The writer is dropped and with it the file it was writing.
DropWriter == writer' = FALSE /\ part' = IF writer THEN "none" ELSE part

\* The task ends with an error: it could not join, waited in vain for the first
\* round, lost the room, ran into the deadline, or the database failed it.
Fail ==
    /\ observer \notin {"none", "keep", "taken", "renamed"}
    /\ observer' = "none"
    /\ DropWriter
    /\ record' = FailedRecord
    /\ row' = IF row.status = "none" THEN row ELSE [row EXCEPT !.status = "unavailable"]
    /\ UNCHANGED <<lifeVars, saved, cleared, transcript, wav, cleaners, refused, faults>>

\* mark_started keeps the record of a withdrawal, and is asked about it.
MarkStarted ==
    /\ record' = IF record.status = "none"
                 THEN [record EXCEPT !.status = "recording", !.left = RecordTime]
                 ELSE record
    /\ Goes("mark", IF record.status = "deleted" THEN "begin" ELSE "open")
    /\ UNCHANGED <<lifeVars, saved, cleared, row, transcript, part, wav, writer, cleaners,
                   refused, faults>>

\* The writer makes its own file, and only then is the writer put in the slot.
OpenFile ==
    /\ part = "none" /\ wav = "none"
    /\ Goes("open", "keep") /\ part' = "empty"
    /\ UNCHANGED <<lifeVars, saved, cleared, row, transcript, record, wav, writer, cleaners,
                   refused, faults>>

KeepWriter ==
    /\ Goes("keep", "recheck") /\ writer' = TRUE
    /\ UNCHANGED <<lifeVars, saved, cleared, row, transcript, record, part, wav, cleaners,
                   refused, faults>>

\* Mutant: nobody looks again.
WantedBefore == TRUE

StillWanted == record.status # "deleted"

Recheck ==
    /\ Goes("recheck", "begin")
    /\ IF StillWanted THEN UNCHANGED <<writer, part>> ELSE DropWriter
    /\ UNCHANGED <<lifeVars, saved, cleared, row, transcript, record, wav, cleaners,
                   refused, faults>>

NewRow(withdrawn, left) == [status |-> "observing", withdrawn |-> withdrawn, left |-> left]

\* Mutant: the observer's row replaces the one that is there.
RowAfresh(withdrawn, left) == NewRow(withdrawn, left)

\* ensure_row.
EnsuredRow(withdrawn, left) == IF row.status = "none" THEN NewRow(withdrawn, left) ELSE row

BeginRow ==
    /\ Goes("begin", "capture")
    /\ row' = EnsuredRow(FALSE, ObserveTime)
    /\ UNCHANGED <<lifeVars, saved, cleared, transcript, audioVars, refused, faults>>

\* A chunk reaches the file, if the file still has its name.
Chunk ==
    /\ observer = "capture" /\ writer /\ part = "empty"
    /\ part' = "samples"
    /\ UNCHANGED <<lifeVars, saved, observer, cleared, row, transcript, record, wav, writer,
                   cleaners, refused, faults>>

\* The disk refuses a chunk; the observer goes on without a recording.
ChunkRefused ==
    /\ observer = "capture" /\ writer
    /\ faults < MaxFaults /\ faults' = faults + 1
    /\ DropWriter
    /\ record' = FailedRecord
    /\ UNCHANGED <<lifeVars, saved, observer, cleared, row, transcript, wav, cleaners, refused>>

\* append: without its row nothing is stored.
AppendLine ==
    /\ observer \in {"capture", "processing"} /\ "transcript" \in saved
    /\ row.status # "none" /\ ~row.withdrawn
    /\ transcript' = TRUE
    /\ UNCHANGED <<lifeVars, saved, observer, cleared, row, audioVars, refused, faults>>

\* The practice is over, and the writer is taken from the slot to be finished.
EndCapture ==
    /\ phase = "closed"
    /\ Goes("capture", IF writer THEN "taken" ELSE "process")
    /\ writer' = FALSE
    /\ UNCHANGED <<lifeVars, saved, cleared, row, transcript, record, part, wav, cleaners,
                   refused, faults>>

RenamePart ==
    /\ part # "none"
    /\ Goes("taken", "renamed")
    /\ wav' = part /\ part' = "none"
    /\ UNCHANGED <<lifeVars, saved, cleared, row, transcript, record, writer, cleaners,
                   refused, faults>>

\* The file is gone, or the disk refuses: what there is of it goes.
RenameRefused ==
    /\ \/ part = "none" /\ UNCHANGED faults
       \/ faults < MaxFaults /\ faults' = faults + 1
    /\ Goes("taken", "process")
    /\ part' = "none"
    /\ record' = FailedRecord
    /\ UNCHANGED <<lifeVars, saved, cleared, row, transcript, wav, writer, cleaners, refused>>

MarkReady ==
    /\ Goes("renamed", "process")
    /\ record' = IF record.status = "recording"
                 THEN [record EXCEPT !.status = "ready", !.left = KeepTime] ELSE record
    /\ UNCHANGED <<lifeVars, saved, cleared, row, transcript, part, wav, writer, cleaners,
                   refused, faults>>

Process ==
    /\ Goes("process", "processing")
    /\ row' = IF row.status = "none" THEN row ELSE [row EXCEPT !.status = "processing"]
    /\ UNCHANGED <<lifeVars, saved, cleared, transcript, audioVars, refused, faults>>

FinishAdvice ==
    /\ Goes("processing", "none")
    /\ \E status \in {"ready", "unavailable"} :
         row' = IF row.status = "none" THEN row
                ELSE [row EXCEPT !.status = status, !.left = KeepTime]
    /\ UNCHANGED <<lifeVars, saved, cleared, transcript, audioVars, refused, faults>>

ObserverStep ==
    \/ Join
    \/ SeeRound
    \/ Fail
    \/ MarkStarted
    \/ OpenFile
    \/ KeepWriter
    \/ Recheck
    \/ BeginRow
    \/ Chunk
    \/ ChunkRefused
    \/ AppendLine
    \/ EndCapture
    \/ RenamePart
    \/ RenameRefused
    \/ MarkReady
    \/ Process
    \/ FinishAdvice

(***************************************************************************)
(* The transcript's row: withdrawal, recovery and sweep                    *)
(***************************************************************************)

\* The row that says so is made if there is none yet; one that has expired is
\* refused.  The history counts what is withdrawn once the practice has begun.
WithdrawTranscript ==
    LET kept == EnsuredRow(TRUE, Bigger(InviteTime - age, ObserveTime)) IN
    /\ "transcript" \in saved /\ kept.left > 0
    /\ row' = [kept EXCEPT !.withdrawn = TRUE]
    /\ transcript' = FALSE
    /\ refused' = IF phase \in {"active", "closed"} THEN refused \union {"transcript"} ELSE refused
    /\ UNCHANGED <<lifeVars, saved, observer, cleared, audioVars, faults>>

\* Mutant: what was being processed is not recovered.
InterruptedCapture == row.status = "observing"

Interrupted == row.status \in {"observing", "processing"}

\* recover: nobody has been heard of for two minutes, which a capturing observer
\* does not let happen.
Recoverable == Interrupted /\ row.left > 0 /\ observer # "capture"

Recover ==
    /\ Recoverable
    /\ row' = [row EXCEPT !.status = "unavailable",
                          !.left = IF row.withdrawn THEN @ ELSE Smaller(@, KeepTime)]
    /\ UNCHANGED <<lifeVars, saved, observer, cleared, transcript, audioVars, refused, faults>>

SweepRow ==
    /\ row.status # "none" /\ row.left = 0
    /\ row' = NoRow /\ transcript' = FALSE
    /\ UNCHANGED <<lifeVars, saved, observer, cleared, audioVars, refused, faults>>

(***************************************************************************)
(* The audio: withdrawal and sweep.  Both clean up in the same order.      *)
(***************************************************************************)

Cleaning(c, from, to) == cleaners[c].at = from /\ cleaners' = [cleaners EXCEPT ![c].at = to]

WithdrawAudio ==
    /\ "audio" \in saved
    /\ Cleaning("request", "idle", "stop")
    /\ record' = [record EXCEPT !.status = "deleted", !.left = 0]
    /\ UNCHANGED <<lifeVars, saved, observer, cleared, row, transcript, part, wav, writer,
                   refused, faults>>

StopWriter ==
    /\ Cleaning("request", "stop", "select")
    /\ DropWriter
    /\ UNCHANGED <<lifeVars, saved, observer, cleared, row, transcript, record, wav,
                   refused, faults>>

Due == record.status # "none" /\ record.left = 0 /\ ~record.purged

SelectDue(c) ==
    /\ Cleaning(c, IF c = "request" THEN "select" ELSE "idle", "part")
    /\ Due
    /\ UNCHANGED <<lifeVars, saved, observer, cleared, row, transcript, record, part, wav, writer,
                   refused, faults>>

\* What was purged before needs no more, and the withdrawal is answered.
NothingDue ==
    /\ Cleaning("request", "select", "idle")
    /\ ~Due
    /\ refused' = refused \union {"audio"}
    /\ UNCHANGED <<lifeVars, saved, observer, cleared, row, transcript, record, part, wav, writer,
                   faults>>

RemovePart(c) ==
    /\ Cleaning(c, "part", "wav")
    /\ part' = "none"
    /\ UNCHANGED <<lifeVars, saved, observer, cleared, row, transcript, record, wav, writer,
                   refused, faults>>

RemoveWav(c) ==
    /\ Cleaning(c, "wav", "purge")
    /\ wav' = "none"
    /\ UNCHANGED <<lifeVars, saved, observer, cleared, row, transcript, record, part, writer,
                   refused, faults>>

RemovalRefused(c) ==
    /\ cleaners[c].at \in {"part", "wav"}
    /\ faults < MaxFaults /\ faults' = faults + 1
    /\ cleaners' = [cleaners EXCEPT ![c] =
                        [at |-> IF @.at = "part" THEN "wav" ELSE "purge", removed |-> FALSE]]
    /\ UNCHANGED <<lifeVars, saved, observer, cleared, row, transcript, record, part, wav, writer,
                   refused>>

\* Mutant: the record is purged whether its files went or not.
PurgedAnyway(c) == TRUE

Purged(c) == cleaners[c].removed

\* Only a withdrawal whose files went is answered.
Purge(c) ==
    /\ cleaners[c].at = "purge"
    /\ record' = [record EXCEPT !.status = "deleted", !.purged = Purged(c)]
    /\ cleaners' = [cleaners EXCEPT ![c] = Idle]
    /\ refused' = IF c = "request" /\ Purged(c) THEN refused \union {"audio"} ELSE refused
    /\ UNCHANGED <<lifeVars, saved, observer, cleared, row, transcript, part, wav, writer, faults>>

Clean(c) ==
    \/ SelectDue(c)
    \/ RemovePart(c)
    \/ RemoveWav(c)
    \/ RemovalRefused(c)
    \/ Purge(c)

RequestStep == StopWriter \/ NothingDue \/ Clean("request")

(***************************************************************************)
(* Time, a crash, and the whole                                            *)
(***************************************************************************)

\* While it joins, from the first round to its row, and from the end of the practice
\* to the advice, the observer is seconds from its next step, and recovery comes
\* round every minute: no time on this clock.
Prompt ==
    \/ observer = "waiting" /\ phase = "active"
    \/ observer \in Places \ {"none", "waiting", "capture", "processing"}
    \/ Recoverable

Tick ==
    /\ ~Prompt
    /\ LifeTick
    /\ row' = [row EXCEPT !.left = Down(@)]
    /\ record' = [record EXCEPT !.left = Down(@)]
    /\ UNCHANGED <<saved, observer, cleared, transcript, part, wav, writer, cleaners,
                   refused, faults>>

\* Rows and files stay; a file that was open keeps what was written to it.
Crash ==
    /\ faults < MaxFaults /\ faults' = faults + 1
    /\ observer' = "none" /\ cleared' = FALSE /\ writer' = FALSE
    /\ cleaners' = [c \in DOMAIN cleaners |-> Idle]
    /\ UNCHANGED <<lifeVars, saved, row, transcript, record, part, wav, refused>>

ObservationNext ==
    \/ HandlerSeesReady
    \/ RoundBegins
    \/ LifeGoesOn
    \/ Start
    \/ ObserverStep
    \/ WithdrawTranscript
    \/ Recover
    \/ SweepRow
    \/ WithdrawAudio
    \/ RequestStep
    \/ Clean("sweep")
    \/ Tick
    \/ Crash

\* The sweeps come round every minute, the task and a request go on, time passes.
ObservationFairness ==
    /\ WF_observationVars(Recover)
    /\ WF_observationVars(SweepRow)
    /\ WF_observationVars(Clean("sweep"))
    /\ WF_observationVars(RequestStep)
    /\ WF_observationVars(ObserverStep)
    /\ WF_observationVars(Tick)

ObservationSpec == ObservationInit /\ [][ObservationNext]_observationVars /\ ObservationFairness

(***************************************************************************)
(* Properties                                                              *)
(***************************************************************************)

\* A transcript that was withdrawn once the practice had begun is not stored
\* again: not by the observer that had yet to begin its row, nor by the lines
\* still being transcribed, nor after a recovery (accounts/peer/observer.rs).
\* A withdrawal in the lobby can be forgotten before a late start; see README.
LateRefusalHolds == "transcript" \in refused => ~transcript

\* Once the withdrawal of the audio is answered no recording is on disk, under
\* either name, and none comes back: not from a writer being made, one being
\* finished, or a crash in between (peer_audio, web/peer/observer.rs).
AudioRefusalHolds == "audio" \in refused => part # "samples" /\ wav # "samples"

\* What is kept of a practice is deleted in the end, whatever the observer did
\* and whenever it died: the sweeps find it by rows that were there first.
RecordsAreCleared ==
    (transcript \/ part = "samples" \/ wav = "samples")
        ~> (~transcript /\ part # "samples" /\ wav # "samples")

\* The members of a practice whose observer died, or never came, are told so while
\* there is a row to say it, and are not shown an observation under way until the
\* row expires (recover).
EndIsTold ==
    observer = "none" /\ row.status \in {"observing", "processing"} /\ row.left > 0
        ~> observer # "none" \/ row.status = "unavailable"

=============================================================================
