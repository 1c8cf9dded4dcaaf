----------------------- MODULE PeerObservation_proofs -----------------------
(***************************************************************************)
(* A withdrawal of what is kept of a peer practice holds, for every length *)
(* of a practice and of its records, whatever a pair chose to save, and    *)
(* any number of crashes and refused calls.                                *)
(***************************************************************************)
EXTENDS PeerObservation, TLAPS

(***************************************************************************)
(* Types                                                                   *)
(***************************************************************************)

RowTime == Bigger(ObserveTime, InviteTime)
RecordSpan == Bigger(RecordTime, KeepTime)

LEMMA Spans ==
    /\ RowTime \in Nat /\ RecordSpan \in Nat
    /\ KeepTime \in 0..RowTime /\ ObserveTime \in 0..RowTime
    /\ KeepTime \in 0..RecordSpan /\ RecordTime \in 0..RecordSpan
    /\ InviteTime \in Nat /\ HardTime \in Nat
    /\ ObserveTime > 0 /\ RecordTime > 0
    /\ \A n \in 0..InviteTime : Bigger(InviteTime - n, ObserveTime) \in 1..RowTime
    /\ \A n \in 0..RowTime : Down(n) \in 0..RowTime /\ Smaller(n, KeepTime) \in 0..RowTime
    /\ \A n \in 0..RecordSpan : Down(n) \in 0..RecordSpan
BY ObservationTimes, LifeTimes DEF RowTime, RecordSpan, Bigger, Smaller, Down

RowTyped == row \in Row /\ transcript \in BOOLEAN
FilesTyped == record \in Record /\ part \in Files /\ wav \in Files /\ writer \in BOOLEAN
CleanersTyped == cleaners \in [{"request", "sweep"} -> Cleaner]
RestTyped ==
    /\ saved \in Savings /\ observer \in Places /\ cleared \in BOOLEAN
    /\ refused \subseteq {"transcript", "audio"} /\ faults \in 0..MaxFaults

\* Who writes what: every step is of one of these,
Lives == HandlerSeesReady \/ RoundBegins \/ LifeGoesOn \/ Start \/ Join \/ SeeRound
Observes ==
    \/ Fail \/ MarkStarted \/ OpenFile \/ KeepWriter \/ Recheck \/ BeginRow \/ Chunk
    \/ ChunkRefused \/ AppendLine \/ EndCapture \/ RenamePart \/ RenameRefused \/ MarkReady
    \/ Process \/ FinishAdvice
Keeps == WithdrawTranscript \/ Recover \/ SweepRow
Cleans == WithdrawAudio \/ StopWriter \/ NothingDue \/ (\E c \in {"request", "sweep"} : Clean(c))

LEMMA StepsSplit ==
    ASSUME ObservationNext
    PROVE  Lives \/ Observes \/ Keeps \/ Cleans \/ Tick \/ Crash
BY DEF ObservationNext, ObserverStep, RequestStep, Lives, Observes, Keeps, Cleans

LEMMA TypesStep ==
    ASSUME ObservationTypeOK, [ObservationNext]_observationVars
    PROVE  ObservationTypeOK'
<1>1. /\ TypeOfLife /\ RowTyped /\ FilesTyped /\ CleanersTyped /\ RestTyped
  BY DEF ObservationTypeOK, RowTyped, FilesTyped, CleanersTyped, RestTyped
<1> SUFFICES TypeOfLife' /\ RowTyped' /\ FilesTyped' /\ CleanersTyped' /\ RestTyped'
  BY DEF ObservationTypeOK, RowTyped, FilesTyped, CleanersTyped, RestTyped
<1> USE DEF lifeVars, audioVars
<1>2. CASE Lives
  <2>1. UNCHANGED <<saved, row, transcript, audioVars, refused, faults>>
    BY <1>2 DEF Lives, HandlerSeesReady, RoundBegins, LifeGoesOn, Start, Join, SeeRound
  <2>2. TypeOfLife'
    BY <1>1, <1>2 DEF Lives, HandlerSeesReady, RoundBegins, LifeGoesOn, Start, Join, SeeRound,
           Agree, EnterLobby, LobbyEmpties, StartRound, Close, Become, TypeOfLife, Phases
  <2>3. observer' \in Places /\ cleared' \in BOOLEAN
    BY <1>1, <1>2 DEF Lives, HandlerSeesReady, RoundBegins, LifeGoesOn, Start, Join, SeeRound, Goes,
           Places, RestTyped
  <2> QED BY <1>1, <2>1, <2>2, <2>3 DEF RowTyped, FilesTyped, CleanersTyped, RestTyped
<1>3. CASE Observes
  <2> USE DEF Observes, Fail, MarkStarted, OpenFile, KeepWriter, Recheck, BeginRow, Chunk,
              ChunkRefused, AppendLine, EndCapture, RenamePart, RenameRefused, MarkReady,
              Process, FinishAdvice, Goes, DropWriter, FailedRecord
  <2>1. UNCHANGED <<lifeVars, saved, cleared, cleaners, refused>>
    BY <1>3
  <2>2. observer' \in Places
    BY <1>1, <1>3 DEF Places, RestTyped
  <2>3. faults' \in 0..MaxFaults
    <3>1. UNCHANGED faults \/ (faults < MaxFaults /\ faults' = faults + 1)
      BY <1>3
    <3> QED BY <1>1, <3>1, ObservationTimes DEF RestTyped
  <2>4. part' \in Files /\ wav' \in Files /\ writer' \in BOOLEAN
    <3>1. writer' = writer \/ writer' \in BOOLEAN
      BY <1>3
    <3>2. part' \in {part, "none", "empty", "samples"} /\ wav' \in {wav, part}
      BY <1>3
    <3> QED BY <1>1, <3>1, <3>2 DEF FilesTyped, Files
  <2>5. record' \in Record
    <3>1. \/ UNCHANGED record
          \/ record' = [record EXCEPT !.status = "failed", !.left = 0]
          \/ record' = [record EXCEPT !.status = "recording", !.left = RecordTime]
          \/ record' = [record EXCEPT !.status = "ready", !.left = KeepTime]
      BY <1>3
    <3>2. 0 \in 0..RecordSpan /\ RecordTime \in 0..RecordSpan /\ KeepTime \in 0..RecordSpan
      BY Spans
    <3> QED BY <1>1, <3>1, <3>2 DEF FilesTyped, Record, RecordSpan
  <2>6. RowTyped'
    <3>1. \/ UNCHANGED row
          \/ row' = NewRow(FALSE, ObserveTime)
          \/ \E status \in {"unavailable", "processing"} : row' = [row EXCEPT !.status = status]
          \/ \E status \in {"ready", "unavailable"} :
                 row' = [row EXCEPT !.status = status, !.left = KeepTime]
      BY <1>3 DEF EnsuredRow
    <3>2. KeepTime \in 0..RowTime /\ ObserveTime \in 0..RowTime
      BY Spans
    <3>3. NewRow(FALSE, ObserveTime) \in Row
      BY <3>2 DEF NewRow, Row, RowTime
    <3>4. \A status \in {"ready", "unavailable", "processing"} :
              /\ [row EXCEPT !.status = status] \in Row
              /\ [row EXCEPT !.status = status, !.left = KeepTime] \in Row
      BY <1>1, <3>2 DEF RowTyped, Row, RowTime
    <3>5. row' \in Row
      BY <1>1, <3>1, <3>3, <3>4 DEF RowTyped
    <3> QED BY <1>1, <1>3, <3>5 DEF RowTyped
  <2>7. TypeOfLife' /\ CleanersTyped'
    BY <1>1, <2>1 DEF TypeOfLife, CleanersTyped
  <2>8. FilesTyped' /\ RestTyped'
    BY <1>1, <2>1, <2>2, <2>3, <2>4, <2>5 DEF FilesTyped, RestTyped
  <2> QED BY <2>6, <2>7, <2>8
<1>4. CASE Keeps
  <2>1. UNCHANGED <<lifeVars, saved, observer, cleared, audioVars, faults>>
        /\ refused' \subseteq {"transcript", "audio"} /\ transcript' \in BOOLEAN
    BY <1>1, <1>4 DEF Keeps, WithdrawTranscript, Recover, SweepRow, RestTyped, RowTyped
  <2>2. row' \in Row
    <3>1. CASE WithdrawTranscript
      <4> DEFINE kept == EnsuredRow(TRUE, Bigger(InviteTime - age, ObserveTime))
      <4>1. kept \in Row
        BY <1>1, Spans DEF RowTyped, Row, RowTime, EnsuredRow, NewRow, TypeOfLife
      <4>2. row' = [kept EXCEPT !.withdrawn = TRUE]
        BY <3>1 DEF WithdrawTranscript
      <4> QED BY <4>1, <4>2 DEF Row
    <3>2. CASE Recover
      <4>1. row.left \in 0..RowTime
        BY <1>1 DEF RowTyped, Row, RowTime
      <4>2. Smaller(row.left, KeepTime) \in 0..RowTime
        BY <4>1, Spans
      <4> QED BY <1>1, <3>2, <4>1, <4>2 DEF Recover, RowTyped, Row, RowTime
    <3>3. CASE SweepRow
      <4>1. 0 \in 0..RowTime
        BY Spans
      <4> QED BY <3>3, <4>1 DEF SweepRow, NoRow, Row, RowTime
    <3> QED BY <1>4, <3>1, <3>2, <3>3 DEF Keeps
  <2> QED BY <1>1, <2>1, <2>2 DEF TypeOfLife, RowTyped, FilesTyped, CleanersTyped, RestTyped
<1>5. CASE Cleans
  <2> USE DEF Cleans, WithdrawAudio, StopWriter, NothingDue, Clean, SelectDue, RemovePart, RemoveWav,
              RemovalRefused, Purge, Cleaning, DropWriter
  <2>1. UNCHANGED <<lifeVars, saved, observer, cleared, row, transcript>>
    <3>1. UNCHANGED <<lifeVars, saved, observer>>
      BY <1>5
    <3>2. UNCHANGED <<cleared, row, transcript>>
      BY <1>5
    <3> QED BY <3>1, <3>2
  <2>2. refused' \subseteq {"transcript", "audio"}
    BY <1>1, <1>5 DEF RestTyped
  <2>3. faults' \in 0..MaxFaults
    BY <1>1, <1>5, ObservationTimes DEF RestTyped
  <2>4. part' \in Files /\ wav' \in Files /\ writer' \in BOOLEAN
    BY <1>1, <1>5 DEF FilesTyped, Files
  <2>5. record' \in Record
    <3>1. \A c \in {"request", "sweep"} : Purged(c) \in BOOLEAN
      BY <1>1 DEF Purged, CleanersTyped, Cleaner
    <3>2. \/ UNCHANGED record
          \/ record' = [record EXCEPT !.status = "deleted", !.left = 0]
          \/ \E b \in BOOLEAN : record' = [record EXCEPT !.status = "deleted", !.purged = b]
      BY <1>5, <3>1
    <3>3. 0 \in 0..RecordSpan
      BY Spans
    <3> QED BY <1>1, <3>2, <3>3 DEF FilesTyped, Record, RecordSpan
  <2>6. cleaners' \in [{"request", "sweep"} -> Cleaner]
    <3>1. PICK c \in {"request", "sweep"} :
              \/ UNCHANGED cleaners
              \/ \E at \in {"stop", "select", "idle", "part", "wav", "purge"} :
                     cleaners' = [cleaners EXCEPT ![c].at = at]
              \/ \E at \in {"wav", "purge"} :
                     cleaners' = [cleaners EXCEPT ![c] = [at |-> at, removed |-> FALSE]]
              \/ cleaners' = [cleaners EXCEPT ![c] = [at |-> "idle", removed |-> TRUE]]
      BY <1>5 DEF Idle
    <3>2. cleaners[c] \in Cleaner
      BY <1>1 DEF CleanersTyped
    <3>3. \A at \in {"stop", "select", "idle", "part", "wav", "purge"} :
              /\ [cleaners[c] EXCEPT !.at = at] \in Cleaner
              /\ \A b \in BOOLEAN : [at |-> at, removed |-> b] \in Cleaner
      BY <3>2 DEF Cleaner
    <3> QED BY <1>1, <3>1, <3>3 DEF CleanersTyped
  <2>7. TypeOfLife' /\ RowTyped'
    BY <1>1, <2>1 DEF TypeOfLife, RowTyped
  <2>8. FilesTyped' /\ CleanersTyped' /\ RestTyped'
    BY <1>1, <2>1, <2>2, <2>3, <2>4, <2>5, <2>6 DEF FilesTyped, CleanersTyped, RestTyped
  <2> QED BY <2>7, <2>8
<1>6. CASE Tick
  <2>1. TypeOfLife'
    BY <1>1, <1>6, LifeTimes DEF Tick, LifeTick, TypeOfLife, Up, Down
  <2>2. row' \in Row /\ record' \in Record
    <3>1. Down(row.left) \in 0..RowTime /\ Down(record.left) \in 0..RecordSpan
      BY <1>1, Spans DEF RowTyped, FilesTyped, Row, Record, RowTime, RecordSpan
    <3> QED BY <1>1, <1>6, <3>1 DEF Tick, RowTyped, FilesTyped, Row, Record, RowTime, RecordSpan
  <2> QED BY <1>1, <1>6, <2>1, <2>2 DEF Tick, RowTyped, FilesTyped, CleanersTyped, RestTyped
<1>7. CASE Crash
  <2>1. faults' \in 0..MaxFaults
    BY <1>1, <1>7, ObservationTimes DEF Crash, RestTyped
  <2>2. CleanersTyped'
    BY <1>1, <1>7 DEF Crash, CleanersTyped, Cleaner, Idle
  <2> QED BY <1>1, <1>7, <2>1, <2>2
      DEF Crash, TypeOfLife, RowTyped, FilesTyped, RestTyped, Places
<1>8. CASE UNCHANGED observationVars
  BY <1>1, <1>8 DEF observationVars, TypeOfLife, RowTyped, FilesTyped, CleanersTyped, RestTyped
<1> QED BY <1>2, <1>3, <1>4, <1>5, <1>6, <1>7, <1>8, StepsSplit

LEMMA TypesInit == ObservationInit => ObservationTypeOK
<1>1. 0 \in 0..Bigger(ObserveTime, InviteTime) /\ 0 \in 0..Bigger(RecordTime, KeepTime)
  BY Spans DEF RowTime, RecordSpan
<1>2. 0 \in 0..InviteTime /\ HardTime \in 0..HardTime /\ 0 \in 0..MaxFaults
  BY LifeTimes, ObservationTimes
<1> SUFFICES ASSUME ObservationInit PROVE ObservationTypeOK
  OBVIOUS
<1>3. TypeOfLife
  BY <1>2 DEF ObservationInit, InitLife, TypeOfLife, Phases
<1>4. row \in Row /\ record \in Record
  BY <1>1 DEF ObservationInit, Row, NoRow, Record
<1>5. cleaners \in [{"request", "sweep"} -> Cleaner]
  BY DEF ObservationInit, Cleaner, Idle
<1> QED BY <1>2, <1>3, <1>4, <1>5 DEF ObservationInit, ObservationTypeOK, Places, Files

\* The rows and the tasks of an observation are of their types.
THEOREM ObservationTypes == ObservationSpec => []ObservationTypeOK
<1> QED BY TypesInit, TypesStep, PTL DEF ObservationSpec

(***************************************************************************)
(* The transcript                                                          *)
(***************************************************************************)

\* The observer may still make its row.  No time passes for it then, so that a row
\* of the members does not expire under it.
MayBegin ==
    \/ observer \in {"mark", "open", "keep", "recheck", "begin"}
    \/ observer \in {"joining", "waiting"} /\ phase = "active"

TranscriptStaysOut ==
    "transcript" \in refused =>
        /\ phase \in {"active", "closed"} /\ ~transcript
        /\ row.status # "none" => row.withdrawn
        /\ MayBegin => row.status # "none" /\ row.left > 0

\* A practice that has begun does not go back to its lobby, where observers start.
LEMMA NoNewObserver ==
    ASSUME [ObservationNext]_observationVars, phase \in {"active", "closed"}
    PROVE  phase' \in {"active", "closed"} /\ (MayBegin' => MayBegin)
<1> USE DEF lifeVars, MayBegin
<1>1. CASE Lives
  BY <1>1 DEF Lives, HandlerSeesReady, RoundBegins, LifeGoesOn, Start, Join, SeeRound, Agree,
              EnterLobby, LobbyEmpties, StartRound, Close, Become, Goes
<1>2. CASE Observes
  BY <1>2 DEF Observes, Fail, MarkStarted, OpenFile, KeepWriter, Recheck, BeginRow, Chunk,
              ChunkRefused, AppendLine, EndCapture, RenamePart, RenameRefused, MarkReady,
              Process, FinishAdvice, Goes
<1>3. CASE Keeps \/ Cleans
  BY <1>3 DEF Keeps, WithdrawTranscript, Recover, SweepRow, Cleans, WithdrawAudio, StopWriter,
              NothingDue, Clean, SelectDue, RemovePart, RemoveWav, RemovalRefused, Purge
<1>4. CASE Tick \/ Crash \/ UNCHANGED observationVars
  BY <1>4 DEF Tick, LifeTick, Crash, observationVars
<1> QED BY <1>1, <1>2, <1>3, <1>4, StepsSplit

LEMMA TranscriptStep ==
    ASSUME ObservationTypeOK, ObservationTypeOK', TranscriptStaysOut,
           [ObservationNext]_observationVars
    PROVE  TranscriptStaysOut'
<1> SUFFICES ASSUME "transcript" \in refused'
             PROVE  /\ phase' \in {"active", "closed"} /\ ~transcript'
                    /\ row'.status # "none" => row'.withdrawn
                    /\ MayBegin' => row'.status # "none" /\ row'.left > 0
  BY DEF TranscriptStaysOut
<1>1. row \in Row /\ KeepTime \in Nat \ {0}
  BY ObservationTimes DEF ObservationTypeOK
<1>2. row.left \in Nat /\ row.withdrawn \in BOOLEAN
  BY <1>1, Spans DEF Row, RowTime
<1>3. CASE WithdrawTranscript
  <2> DEFINE kept == EnsuredRow(TRUE, Bigger(InviteTime - age, ObserveTime))
  <2>1. kept.left > 0 /\ row' = [kept EXCEPT !.withdrawn = TRUE] /\ ~transcript'
        /\ UNCHANGED <<lifeVars, observer>>
    BY <1>3 DEF WithdrawTranscript
  <2>2. kept.status # "none" /\ kept = [status |-> kept.status, withdrawn |-> kept.withdrawn, left |-> kept.left]
    BY <1>1 DEF EnsuredRow, NewRow, Row
  <2>3. row'.status # "none" /\ row'.withdrawn /\ row'.left > 0
    BY <2>1, <2>2
  <2>4. phase \in {"active", "closed"}
    BY <1>3 DEF WithdrawTranscript, TranscriptStaysOut
  <2> QED BY <2>1, <2>3, <2>4 DEF lifeVars
<1>4. CASE ~WithdrawTranscript
  <2>1. "transcript" \in refused
    <3>1. CASE Lives \/ Observes \/ Tick \/ Crash \/ UNCHANGED observationVars
      BY <3>1 DEF Lives, HandlerSeesReady, RoundBegins, LifeGoesOn, Start, Join, SeeRound, Observes,
           Fail, MarkStarted, OpenFile, KeepWriter, Recheck, BeginRow, Chunk, ChunkRefused,
           AppendLine, EndCapture, RenamePart, RenameRefused, MarkReady, Process, FinishAdvice,
           Tick, Crash, observationVars
    <3>2. CASE Keeps \/ Cleans
      BY <1>4, <3>2 DEF Keeps, Recover, SweepRow, Cleans, WithdrawAudio, StopWriter,
              NothingDue, Clean, SelectDue, RemovePart, RemoveWav, RemovalRefused, Purge
    <3> QED BY <3>1, <3>2, StepsSplit
  <2>2. /\ phase \in {"active", "closed"} /\ ~transcript
        /\ row.status # "none" => row.withdrawn
        /\ MayBegin => row.status # "none" /\ row.left > 0
    BY <2>1 DEF TranscriptStaysOut
  <2>3. phase' \in {"active", "closed"} /\ (MayBegin' => MayBegin)
    BY <2>2, NoNewObserver
  <2> SUFFICES /\ ~transcript'
               /\ row'.status # "none" => row'.withdrawn
               /\ MayBegin => row'.status # "none" /\ row'.left > 0
    BY <2>3
  <2>4. CASE UNCHANGED <<row, transcript>>
    BY <2>2, <2>4
  <2>5. CASE BeginRow
    <3>1. MayBegin /\ row' = row /\ UNCHANGED transcript
      BY <2>2, <2>5 DEF BeginRow, EnsuredRow, Goes, MayBegin
    <3> QED BY <2>2, <3>1
  <2>6. CASE AppendLine
    BY <2>2, <2>6 DEF AppendLine
  <2>7. CASE SweepRow
    BY <2>2, <2>7 DEF SweepRow, NoRow
  <2>8. CASE Fail \/ Process \/ FinishAdvice
    <3>1. UNCHANGED transcript
      BY <2>8 DEF Fail, Process, FinishAdvice
    <3>2. \/ UNCHANGED row
          \/ /\ row.status # "none"
             /\ \E status \in {"unavailable", "processing"} : row' = [row EXCEPT !.status = status]
          \/ /\ row.status # "none"
             /\ \E status \in {"ready", "unavailable"} :
                 row' = [row EXCEPT !.status = status, !.left = KeepTime]
      BY <2>8 DEF Fail, Process, FinishAdvice
    <3>3. row'.withdrawn = row.withdrawn /\ (row.status # "none" => row'.status # "none")
          /\ row'.left \in {row.left, KeepTime}
      BY <1>1, <3>2 DEF Row
    <3>4. row'.left > 0 \/ ~(row.left > 0)
      BY <1>1, <1>2, <3>3
    <3>5. row'.status # "none" => row.status # "none"
      BY <3>2
    <3> QED BY <2>2, <3>1, <3>3, <3>4, <3>5
  <2>9. CASE Recover
    <3>1. row.status # "none" /\ row.withdrawn /\ row.left > 0 /\ UNCHANGED transcript
      BY <2>2, <2>9 DEF Recover, Recoverable, Interrupted
    <3>2. row' = [row EXCEPT !.status = "unavailable"]
      BY <1>1, <2>9, <3>1 DEF Recover, Row
    <3> QED BY <1>1, <2>2, <3>1, <3>2 DEF Row
  <2>10. CASE Tick
    <3>1. ~MayBegin
      BY <2>10 DEF Tick, Prompt, MayBegin, Places
    <3>2. row' = [row EXCEPT !.left = Down(@)] /\ UNCHANGED transcript
      BY <2>10 DEF Tick
    <3>3. row'.withdrawn = row.withdrawn /\ row'.status = row.status
      BY <1>1, <3>2 DEF Row
    <3> QED BY <2>2, <3>1, <3>2, <3>3
  <2>11. CASE ~(BeginRow \/ AppendLine \/ SweepRow \/ Fail \/ Process \/ FinishAdvice \/ Recover \/ Tick)
    <3>1. Lives \/ Observes \/ Crash \/ UNCHANGED observationVars => UNCHANGED <<row, transcript>>
      BY <2>11 DEF Lives, HandlerSeesReady, RoundBegins, LifeGoesOn, Start, Join, SeeRound,
           Observes, MarkStarted, OpenFile, KeepWriter, Recheck, Chunk, ChunkRefused,
           EndCapture, RenamePart, RenameRefused, MarkReady, Crash, audioVars, observationVars
    <3>2. Keeps \/ Cleans => UNCHANGED <<row, transcript>>
      BY <1>4, <2>11 DEF Keeps, Cleans, WithdrawAudio, StopWriter,
              NothingDue, Clean, SelectDue, RemovePart, RemoveWav, RemovalRefused, Purge
    <3> QED BY <2>4, <2>11, <3>1, <3>2, StepsSplit
  <2> QED BY <2>5, <2>6, <2>7, <2>8, <2>9, <2>10, <2>11
<1> QED BY <1>3, <1>4

\* A transcript whose withdrawal was answered once the practice had begun is not
\* stored again, however late the observer makes its row.
THEOREM LateRefusalsHold == ObservationSpec => []LateRefusalHolds
<1>1. ObservationInit => ObservationTypeOK /\ TranscriptStaysOut
  BY TypesInit DEF ObservationInit, TranscriptStaysOut
<1>2. /\ ObservationTypeOK /\ TranscriptStaysOut /\ [ObservationNext]_observationVars
      => ObservationTypeOK' /\ TranscriptStaysOut'
  BY TypesStep, TranscriptStep
<1>3. TranscriptStaysOut => LateRefusalHolds
  BY DEF TranscriptStaysOut, LateRefusalHolds
<1> QED BY <1>1, <1>2, <1>3, PTL DEF ObservationSpec

(***************************************************************************)
(* The audio                                                               *)
(***************************************************************************)

Opening == observer \in {"open", "keep", "recheck"}

\* One observer at most gets to open a file, of a record that has begun then and is
\* not due: no time passes until it captures.
ObserverKnows ==
    /\ observer \in Places \ {"none", "joining", "waiting"} => phase \in {"active", "closed"}
    /\ phase \in {"pending", "lobby"} \/ observer \in {"joining", "waiting", "mark"}
           => record.status \in {"none", "deleted"}
    /\ writer => observer \in {"recheck", "begin", "capture"}
    /\ Opening /\ record.status # "deleted" => record.status = "recording" /\ record.left > 0

\* The observer has a file to record into, or may still make one.
CanRecord ==
    \/ observer = "open" /\ record.status # "deleted"
    \/ part = "empty" /\ observer \in {"keep", "recheck"} /\ record.status # "deleted"
    \/ part = "empty" /\ observer \in {"begin", "capture"} /\ writer

\* Nothing is being recorded, nor will be,
Silent == record.status # "none" /\ part # "samples" /\ ~CanRecord

\* and nothing was.
Settled == Silent /\ wav # "samples"

\* What a cleanup has removed stays away.
CleanersAgree ==
    /\ cleaners["request"].at # "idle" => record.status = "deleted" /\ record.left = 0
    /\ \A c \in {"request", "sweep"} :
        /\ cleaners[c].at \in {"part", "wav", "purge"} =>
               record.status # "none" /\ (Opening => record.status = "deleted")
        /\ cleaners[c].at = "wav" /\ cleaners[c].removed => Silent
        /\ cleaners[c].at = "purge" /\ cleaners[c].removed => Settled
    /\ record.purged => Settled
    /\ "audio" \in refused => Settled

\* How a record goes on.
LEMMA RecordGoesOn ==
    ASSUME ObservationTypeOK, [ObservationNext]_observationVars
    PROVE  \/ UNCHANGED record
           \/ /\ Fail \/ ChunkRefused \/ RenameRefused
              /\ record.status = "recording"
              /\ record' = [record EXCEPT !.status = "failed", !.left = 0]
           \/ /\ MarkStarted /\ record.status = "none"
              /\ record' = [record EXCEPT !.status = "recording", !.left = RecordTime]
           \/ /\ MarkReady /\ record.status = "recording"
              /\ record' = [record EXCEPT !.status = "ready", !.left = KeepTime]
           \/ /\ WithdrawAudio
              /\ record' = [record EXCEPT !.status = "deleted", !.left = 0]
           \/ \E c \in {"request", "sweep"} :
                  /\ Purge(c)
                  /\ record' = [record EXCEPT !.status = "deleted", !.purged = cleaners[c].removed]
           \/ Tick /\ record' = [record EXCEPT !.left = Down(record.left)]
<1> USE DEF audioVars
<1>1. CASE Lives
  BY <1>1 DEF Lives, HandlerSeesReady, RoundBegins, LifeGoesOn, Start, Join, SeeRound
<1>2. CASE Observes
  BY <1>2 DEF Observes, Fail, MarkStarted, OpenFile, KeepWriter, Recheck, BeginRow, Chunk,
              ChunkRefused, AppendLine, EndCapture, RenamePart, RenameRefused, MarkReady,
              Process, FinishAdvice, FailedRecord
<1>3. CASE Keeps
  BY <1>3 DEF Keeps, WithdrawTranscript, Recover, SweepRow
<1>4. CASE Cleans
  BY <1>4 DEF Cleans, WithdrawAudio, StopWriter, NothingDue, Clean, SelectDue, RemovePart, RemoveWav,
              RemovalRefused, Purge, Purged
<1>5. CASE Tick
  BY <1>5 DEF Tick
<1>6. CASE Crash \/ UNCHANGED observationVars
  BY <1>6 DEF Crash, observationVars
<1> QED BY <1>1, <1>2, <1>3, <1>4, <1>5, <1>6, StepsSplit

\* A record that was begun stays so, and one that is deleted stays deleted.
LEMMA RecordStands ==
    ASSUME ObservationTypeOK, [ObservationNext]_observationVars
    PROVE  /\ record.status # "none" => record'.status # "none"
           /\ record.status = "deleted" => record'.status = "deleted"
           /\ record.status = "deleted" /\ record.left = 0 => record'.left = 0
           /\ record.status \in {"none", "deleted"} =>
                  record'.status \in {"none", "deleted"} \/ (MarkStarted /\ record.status = "none")
           /\ record'.purged =>
                  \/ record.purged
                  \/ \E c \in {"request", "sweep"} : Purge(c) /\ cleaners[c].removed
<1>1. record \in Record
  BY DEF ObservationTypeOK
<1>2. record'.status # record.status =>
          \/ record'.status = "deleted"
          \/ record.status = "recording" /\ record'.status \in {"failed", "ready"}
          \/ MarkStarted /\ record.status = "none" /\ record'.status = "recording"
  BY <1>1, RecordGoesOn DEF Record
<1>3. record'.left # record.left => record'.left \in {0, Down(record.left)} \/ record.status # "deleted"
  BY <1>1, RecordGoesOn DEF Record
<1>4. record'.purged # record.purged =>
          \E c \in {"request", "sweep"} : Purge(c) /\ record'.purged = cleaners[c].removed
  BY <1>1, RecordGoesOn DEF Record
<1> QED BY <1>1, <1>2, <1>3, <1>4 DEF Down

\* Where an observer comes from.
LEMMA ObserverComes ==
    ASSUME ObservationTypeOK, [ObservationNext]_observationVars, observer' # observer
    PROVE  \/ observer' = "none"
           \/ observer' = "joining" /\ phase = "lobby" /\ UNCHANGED <<phase, writer, part>>
           \/ Join /\ observer = "joining" /\ observer' = "waiting"
           \/ /\ observer = "waiting" /\ phase = "active"
              /\ observer' \in {"mark", "begin"} /\ UNCHANGED <<phase, writer, part>>
           \/ MarkStarted
           \/ OpenFile
           \/ KeepWriter
           \/ Recheck
           \/ BeginRow
           \/ observer' \in {"taken", "process", "renamed", "processing"} /\ UNCHANGED phase
                /\ observer \in {"capture", "taken", "renamed", "process"}
                /\ (writer' => observer # "capture" /\ writer)
<1> USE DEF lifeVars, audioVars
<1>1. CASE Lives
  BY <1>1 DEF Lives, HandlerSeesReady, RoundBegins, LifeGoesOn, Start, Join, SeeRound, Goes
<1>2. CASE Observes
  BY <1>2 DEF Observes, Fail, Chunk, ChunkRefused, AppendLine, EndCapture, RenamePart, RenameRefused,
              MarkReady, Process, FinishAdvice, Goes
<1>3. CASE Keeps \/ Cleans
  BY <1>3 DEF Keeps, WithdrawTranscript, Recover, SweepRow, Cleans, WithdrawAudio, StopWriter,
              NothingDue, Clean, SelectDue, RemovePart, RemoveWav, RemovalRefused, Purge
<1>4. CASE Tick \/ Crash \/ UNCHANGED observationVars
  BY <1>4 DEF Tick, Crash, observationVars
<1> QED BY <1>1, <1>2, <1>3, <1>4, StepsSplit

\* How a phase goes on.
LEMMA PhaseGoesOn ==
    ASSUME ObservationTypeOK, [ObservationNext]_observationVars
    PROVE  /\ phase \in {"active", "closed"} => phase' \in {"active", "closed"}
           /\ phase' # phase => UNCHANGED <<observer, record, part, wav, writer>>
<1> USE DEF lifeVars, audioVars
<1>1. CASE Lives
  BY <1>1 DEF Lives, HandlerSeesReady, RoundBegins, LifeGoesOn, Start, Join, SeeRound, Agree,
              EnterLobby, LobbyEmpties, StartRound, Close, Become
<1>2. CASE Observes
  BY <1>2 DEF Observes, Fail, MarkStarted, OpenFile, KeepWriter, Recheck, BeginRow, Chunk,
              ChunkRefused, AppendLine, EndCapture, RenamePart, RenameRefused, MarkReady,
              Process, FinishAdvice
<1>3. CASE Keeps \/ Cleans
  BY <1>3 DEF Keeps, WithdrawTranscript, Recover, SweepRow, Cleans, WithdrawAudio, StopWriter,
              NothingDue, Clean, SelectDue, RemovePart, RemoveWav, RemovalRefused, Purge
<1>4. CASE Tick \/ Crash \/ UNCHANGED observationVars
  BY <1>4 DEF Tick, LifeTick, Crash, observationVars
<1> QED BY <1>1, <1>2, <1>3, <1>4, StepsSplit

\* How the files and the writer go on.
LEMMA FilesGoOn ==
    ASSUME ObservationTypeOK, [ObservationNext]_observationVars
    PROVE  /\ part' \in {part, "none"} \/ OpenFile \/ (Chunk /\ part = "empty")
           /\ wav' \in {wav, "none"} \/ (RenamePart /\ wav' = part)
           /\ writer' => writer \/ KeepWriter
<1> USE DEF lifeVars, audioVars, Files
<1>1. CASE Lives
  <2>1. UNCHANGED <<part, wav, writer>>
    BY <1>1 DEF Lives, HandlerSeesReady, RoundBegins, LifeGoesOn, Start, Join, SeeRound
  <2> QED BY <2>1
<1>2. CASE Observes
  <2>1. \/ UNCHANGED writer
        \/ writer' = FALSE
        \/ KeepWriter
    BY <1>2 DEF Observes, Fail, MarkStarted, OpenFile, Recheck, BeginRow, Chunk,
              ChunkRefused, AppendLine, EndCapture, RenamePart, RenameRefused, MarkReady,
              Process, FinishAdvice, DropWriter
  <2>2. part' \in {part, "none"} \/ OpenFile \/ (Chunk /\ part = "empty")
    BY <1>2 DEF Observes, Fail, MarkStarted, KeepWriter, Recheck, BeginRow, Chunk,
              ChunkRefused, AppendLine, EndCapture, RenamePart, RenameRefused, MarkReady,
              Process, FinishAdvice, DropWriter
  <2>3. UNCHANGED wav \/ (RenamePart /\ wav' = part)
    BY <1>2 DEF Observes, Fail, MarkStarted, OpenFile, KeepWriter, Recheck, BeginRow, Chunk,
              ChunkRefused, AppendLine, EndCapture, RenamePart, RenameRefused, MarkReady,
              Process, FinishAdvice
  <2> QED BY <2>1, <2>2, <2>3
<1>3. CASE Keeps \/ Cleans
  <2>1. UNCHANGED writer \/ writer' = FALSE
    BY <1>3 DEF Keeps, WithdrawTranscript, Recover, SweepRow, Cleans, WithdrawAudio, StopWriter,
                NothingDue, Clean, SelectDue, RemovePart, RemoveWav, RemovalRefused, Purge, DropWriter
  <2>2. part' \in {part, "none"} /\ wav' \in {wav, "none"}
    BY <1>3 DEF Keeps, WithdrawTranscript, Recover, SweepRow, Cleans, WithdrawAudio, StopWriter,
                NothingDue, Clean, SelectDue, RemovePart, RemoveWav, RemovalRefused, Purge, DropWriter
  <2> QED BY <2>1, <2>2
<1>4. CASE Tick \/ Crash \/ UNCHANGED observationVars
  <2>1. UNCHANGED <<part, wav>> /\ (UNCHANGED writer \/ writer' = FALSE)
    BY <1>4 DEF Tick, Crash, observationVars
  <2> QED BY <2>1
<1> QED BY <1>1, <1>2, <1>3, <1>4, StepsSplit

\* A task that ends takes its writer with it.
LEMMA WriterEnds ==
    ASSUME ObservationTypeOK, [ObservationNext]_observationVars, writer, writer',
           observer \in {"recheck", "begin", "capture"}
    PROVE  observer' # "none"
<1> SUFFICES ASSUME observer' = "none" PROVE FALSE
  OBVIOUS
<1> USE DEF lifeVars, audioVars
<1>1. CASE Lives
  BY <1>1 DEF Lives, HandlerSeesReady, RoundBegins, LifeGoesOn, Start, Join, SeeRound, Goes
<1>2. CASE Observes
  BY <1>2 DEF Observes, Fail, MarkStarted, OpenFile, KeepWriter, Recheck, BeginRow, Chunk,
              ChunkRefused, AppendLine, EndCapture, RenamePart, RenameRefused, MarkReady,
              Process, FinishAdvice, Goes, DropWriter
<1>3. CASE Keeps \/ Cleans
  BY <1>3 DEF Keeps, WithdrawTranscript, Recover, SweepRow, Cleans, WithdrawAudio, StopWriter,
              NothingDue, Clean, SelectDue, RemovePart, RemoveWav, RemovalRefused, Purge
<1>4. CASE Tick \/ Crash \/ UNCHANGED observationVars
  BY <1>4 DEF Tick, Crash, observationVars
<1> QED BY <1>1, <1>2, <1>3, <1>4, StepsSplit

LEMMA ObserverKnowsStep ==
    ASSUME ObservationTypeOK, ObserverKnows, [ObservationNext]_observationVars
    PROVE  ObserverKnows'
<1>0. /\ record \in Record /\ observer \in Places /\ phase \in Phases /\ writer \in BOOLEAN
  BY DEF ObservationTypeOK, TypeOfLife
<1> USE DEF Opening
\* Its place: from joining on it is of a practice that has begun once it has seen it.
<1>1. observer' \in Places \ {"none", "joining", "waiting"} => phase' \in {"active", "closed"}
  <2>1. CASE observer' = observer
    BY <2>1, PhaseGoesOn DEF ObserverKnows
  <2>2. CASE observer' # observer
    <3>1. observer' \in {"none", "joining", "waiting"} \/ phase \in {"active", "closed"}
      BY <2>2, ObserverComes
         DEF ObserverKnows, Places, MarkStarted, OpenFile, KeepWriter, Recheck, BeginRow, Goes
    <3> QED BY <3>1, PhaseGoesOn
  <2> QED BY <2>1, <2>2
\* Its record: it is begun by the mark of the one observer.
<1>2. phase' \in {"pending", "lobby"} \/ observer' \in {"joining", "waiting", "mark"}
          => record'.status \in {"none", "deleted"}
  <2>1. CASE MarkStarted
    <3>1. observer' \notin {"joining", "waiting", "mark"} /\ phase' \in {"active", "closed"}
      BY <2>1, <1>0, PhaseGoesOn DEF MarkStarted, Goes, ObserverKnows, Places
    <3> QED BY <3>1
  <2>2. CASE ~MarkStarted
    <3> SUFFICES ASSUME phase' \in {"pending", "lobby"} \/ observer' \in {"joining", "waiting", "mark"}
                 PROVE  record'.status \in {"none", "deleted"}
      OBVIOUS
    <3>1. phase' \in {"pending", "lobby"} => phase \in {"pending", "lobby"}
      BY <1>0, PhaseGoesOn DEF Phases
    <3>2. observer' \in {"joining", "waiting", "mark"} =>
              observer \in {"joining", "waiting", "mark"} \/ phase = "lobby"
      BY ObserverComes
         DEF MarkStarted, OpenFile, KeepWriter, Recheck, BeginRow, Goes
    <3>3. record.status \in {"none", "deleted"}
      BY <3>1, <3>2 DEF ObserverKnows
    <3> QED BY <2>2, <3>3, RecordStands
  <2> QED BY <2>1, <2>2
\* Its writer.
<1>3. writer' => observer' \in {"recheck", "begin", "capture"}
  <2>1. CASE KeepWriter
    BY <2>1 DEF KeepWriter, Goes
  <2>2. CASE ~KeepWriter
    <3> SUFFICES ASSUME writer' PROVE observer' \in {"recheck", "begin", "capture"}
      OBVIOUS
    <3>1. writer /\ observer \in {"recheck", "begin", "capture"}
      BY <2>2, FilesGoOn DEF ObserverKnows
    <3>2. observer' # "none"
      BY <3>1, WriterEnds
    <3>3. observer' = observer \/ observer' \in {"begin", "capture"}
      <4>1. ~Join /\ ~MarkStarted /\ ~OpenFile /\ (Recheck => observer' = "begin")
            /\ (BeginRow => observer' = "capture")
        BY <3>1 DEF Join, MarkStarted, OpenFile, Recheck, BeginRow, Goes
      <4>2. phase # "lobby"
        BY <1>0, <3>1 DEF ObserverKnows, Places
      <4> QED BY <2>2, <3>1, <3>2, <4>1, <4>2, ObserverComes
    <3> QED BY <3>1, <3>3
  <2> QED BY <2>1, <2>2
\* And while it opens its file, no time passes.
<1>4. Opening' /\ record'.status # "deleted" => record'.status = "recording" /\ record'.left > 0
  <2> SUFFICES ASSUME Opening', record'.status # "deleted"
               PROVE  record'.status = "recording" /\ record'.left > 0
    OBVIOUS
  <2>1. record.status # "deleted"
    BY RecordStands
  <2>2. CASE MarkStarted
    <3>1. record.status = "none"
      BY <2>1, <2>2 DEF MarkStarted, Goes, ObserverKnows
    <3>2. record' = [record EXCEPT !.status = "recording", !.left = RecordTime]
      BY <2>2, <3>1 DEF MarkStarted
    <3> QED BY <1>0, <3>2, Spans DEF Record
  <2>3. CASE ~MarkStarted
    <3>1. Opening
      BY <2>3, ObserverComes DEF OpenFile, KeepWriter, Recheck, BeginRow, Join, Goes
    <3>2. record.status = "recording" /\ record.left > 0
      BY <2>1, <3>1 DEF ObserverKnows
    <3>3. UNCHANGED record
      <4>1. ~Tick
        BY <3>1 DEF Tick, Prompt, Places
      <4>2. \A c \in {"request", "sweep"} : ~Purge(c) /\ ~WithdrawAudio
        <5>1. record'.status = "deleted" \/ ~WithdrawAudio
          BY <1>0 DEF WithdrawAudio, Record
        <5>2. \A c \in {"request", "sweep"} : record'.status = "deleted" \/ ~Purge(c)
          BY <1>0 DEF Purge, Record
        <5> QED BY <5>1, <5>2
      <4>3. ~(Fail \/ ChunkRefused \/ RenameRefused \/ MarkReady)
        BY <3>1 DEF Fail, ChunkRefused, RenameRefused, MarkReady, Goes
      <4> QED BY <2>3, <4>1, <4>2, <4>3, RecordGoesOn
    <3> QED BY <3>2, <3>3
  <2> QED BY <2>2, <2>3
<1> QED BY <1>1, <1>2, <1>3, <1>4 DEF ObserverKnows

\* A recording that is not being made is not made any more, by whoever is left.
LEMMA SilenceLasts ==
    ASSUME ObservationTypeOK, ObserverKnows, Silent, [ObservationNext]_observationVars
    PROVE  Silent'
<1>0. /\ record \in Record /\ observer \in Places /\ phase \in Phases /\ writer \in BOOLEAN
      /\ record.status # "none" /\ part # "samples" /\ ~CanRecord
  BY DEF ObservationTypeOK, TypeOfLife, Silent
<1>1. record'.status # "none" /\ (record'.status # "deleted" => record.status # "deleted")
  BY <1>0, RecordStands
<1>2. part' # "samples"
  <2>1. Chunk /\ part = "empty" => CanRecord
    BY DEF Chunk, CanRecord
  <2> QED BY <1>0, <2>1, FilesGoOn DEF OpenFile
\* A file it may open,
<1>3. ~(observer' = "open" /\ record'.status # "deleted")
  <2> SUFFICES ASSUME observer' = "open", record'.status # "deleted" PROVE FALSE
    OBVIOUS
  <2>1. observer = "open" \/ MarkStarted
    BY ObserverComes DEF Join, OpenFile, KeepWriter, Recheck, BeginRow, Goes
  <2>2. ~MarkStarted
    BY <1>0, <1>1 DEF MarkStarted, Goes, ObserverKnows
  <2> QED BY <1>0, <1>1, <2>1, <2>2 DEF CanRecord
\* one it has opened,
<1>4. ~(part' = "empty" /\ observer' \in {"keep", "recheck"} /\ record'.status # "deleted")
  <2> SUFFICES ASSUME part' = "empty", observer' \in {"keep", "recheck"}, record'.status # "deleted"
               PROVE  FALSE
    OBVIOUS
  <2>1. ~OpenFile
    BY <1>0, <1>1 DEF OpenFile, Goes, CanRecord
  <2>2. part = "empty"
    BY <2>1, FilesGoOn DEF Chunk
  <2>3. observer \in {"keep", "recheck"}
    <3>1. ~(Join \/ Recheck \/ BeginRow \/ MarkStarted)
      BY DEF Join, Recheck, BeginRow, MarkStarted, Goes
    <3> QED BY <2>1, <3>1, ObserverComes DEF KeepWriter, Goes
  <2> QED BY <1>0, <1>1, <2>2, <2>3 DEF CanRecord
\* and one it writes to.
<1>5. ~(part' = "empty" /\ observer' \in {"begin", "capture"} /\ writer')
  <2> SUFFICES ASSUME part' = "empty", observer' \in {"begin", "capture"}, writer'
               PROVE  FALSE
    OBVIOUS
  <2>1. ~KeepWriter /\ ~OpenFile
    BY DEF KeepWriter, OpenFile, Goes
  <2>2. writer /\ part = "empty"
    BY <2>1, FilesGoOn DEF Chunk
  <2>3. observer \in {"recheck", "begin", "capture"}
    BY <2>2 DEF ObserverKnows
  <2>4. observer = "recheck"
    BY <1>0, <2>2, <2>3 DEF CanRecord
  <2>5. Recheck
    <3>1. ~(Join \/ MarkStarted \/ BeginRow)
      BY <2>4 DEF Join, MarkStarted, BeginRow, Goes
    <3> QED BY <2>1, <2>4, <3>1, ObserverComes
  <2>6. record.status # "deleted"
    <3>1. CASE StillWanted
      BY <3>1 DEF StillWanted
    <3>2. CASE ~StillWanted
      <4>1. writer' = FALSE
        BY <2>5, <3>2 DEF Recheck, DropWriter
      <4> QED BY <4>1
    <3> QED BY <3>1, <3>2
  <2> QED BY <1>0, <2>2, <2>4, <2>6 DEF CanRecord
<1>6. ~CanRecord'
  BY <1>3, <1>4, <1>5 DEF CanRecord
<1> QED BY <1>1, <1>2, <1>6 DEF Silent

LEMMA WhatIsSettledStays ==
    ASSUME ObservationTypeOK, ObserverKnows, Settled, [ObservationNext]_observationVars
    PROVE  Settled'
<1>1. Silent'
  BY SilenceLasts DEF Settled
<1>2. wav' # "samples"
  BY FilesGoOn DEF Settled, Silent
<1> QED BY <1>1, <1>2 DEF Settled

\* Where the cleanups go.
LEMMA CleanersGoOn ==
    ASSUME ObservationTypeOK, [ObservationNext]_observationVars,
           NEW c \in {"request", "sweep"}, cleaners'[c] # cleaners[c]
    PROVE  \/ cleaners'[c].at = "idle"
           \/ WithdrawAudio /\ c = "request" /\ cleaners'[c].at = "stop"
           \/ StopWriter /\ c = "request" /\ cleaners[c].at = "stop" /\ cleaners'[c].at = "select"
           \/ /\ SelectDue(c) /\ cleaners'[c].at = "part"
              /\ c = "request" => cleaners[c].at = "select"
           \/ RemovePart(c) /\ cleaners[c].at = "part"
              /\ cleaners'[c] = [at |-> "wav", removed |-> cleaners[c].removed]
           \/ RemoveWav(c) /\ cleaners[c].at = "wav"
              /\ cleaners'[c] = [at |-> "purge", removed |-> cleaners[c].removed]
           \/ RemovalRefused(c) /\ cleaners[c].at = "part"
              /\ cleaners'[c] = [at |-> "wav", removed |-> FALSE] /\ UNCHANGED record
           \/ RemovalRefused(c) /\ cleaners[c].at = "wav"
              /\ cleaners'[c] = [at |-> "purge", removed |-> FALSE] /\ UNCHANGED record
<1> USE DEF lifeVars, audioVars
<1>0. cleaners \in [{"request", "sweep"} -> Cleaner]
  BY DEF ObservationTypeOK
<1>1. CASE Lives
  BY <1>1 DEF Lives, HandlerSeesReady, RoundBegins, LifeGoesOn, Start, Join, SeeRound
<1>2. CASE Observes
  BY <1>2 DEF Observes, Fail, MarkStarted, OpenFile, KeepWriter, Recheck, BeginRow, Chunk,
              ChunkRefused, AppendLine, EndCapture, RenamePart, RenameRefused, MarkReady,
              Process, FinishAdvice
<1>3. CASE Keeps
  BY <1>3 DEF Keeps, WithdrawTranscript, Recover, SweepRow
<1>4. CASE WithdrawAudio \/ StopWriter \/ NothingDue
  BY <1>0, <1>4 DEF WithdrawAudio, StopWriter, NothingDue, Cleaning, Cleaner
<1>5. CASE \E d \in {"request", "sweep"} : Clean(d)
  <2>1. PICK d \in {"request", "sweep"} : Clean(d)
    BY <1>5
  <2>2. c = d
    BY <1>0, <2>1 DEF Clean, SelectDue, RemovePart, RemoveWav, RemovalRefused, Purge, Cleaning
  <2>3. CASE SelectDue(c)
    BY <1>0, <2>3 DEF SelectDue, Cleaning, Cleaner
  <2>4. CASE RemovePart(c) \/ RemoveWav(c)
    BY <1>0, <2>4 DEF RemovePart, RemoveWav, Cleaning, Cleaner
  <2>5. CASE RemovalRefused(c)
    BY <1>0, <2>5 DEF RemovalRefused
  <2>6. CASE Purge(c)
    BY <1>0, <2>6 DEF Purge, Idle
  <2> QED BY <2>1, <2>2, <2>3, <2>4, <2>5, <2>6 DEF Clean
<1>6. CASE Tick \/ UNCHANGED observationVars
  BY <1>6 DEF Tick, observationVars
<1>7. CASE Crash
  BY <1>0, <1>7 DEF Crash, Idle
<1> QED BY <1>1, <1>2, <1>3, <1>4, <1>5, <1>6, <1>7, StepsSplit DEF Cleans

\* What is answered: nothing was due any more, or both files went.
LEMMA AnswersCome ==
    ASSUME ObservationTypeOK, [ObservationNext]_observationVars,
           "audio" \in refused', "audio" \notin refused
    PROVE  NothingDue \/ (Purge("request") /\ Purged("request"))
<1>1. CASE Lives
  BY <1>1 DEF Lives, HandlerSeesReady, RoundBegins, LifeGoesOn, Start, Join, SeeRound
<1>2. CASE Observes
  BY <1>2 DEF Observes, Fail, MarkStarted, OpenFile, KeepWriter, Recheck, BeginRow, Chunk,
              ChunkRefused, AppendLine, EndCapture, RenamePart, RenameRefused, MarkReady,
              Process, FinishAdvice
<1>3. CASE Keeps
  <2>1. UNCHANGED refused \/ refused' = refused \union {"transcript"}
    BY <1>3 DEF Keeps, WithdrawTranscript, Recover, SweepRow
  <2> QED BY <2>1
<1>4. CASE Cleans
  BY <1>4 DEF Cleans, WithdrawAudio, StopWriter, Clean, SelectDue, RemovePart, RemoveWav,
              RemovalRefused, Purge
<1>5. CASE Tick \/ Crash \/ UNCHANGED observationVars
  BY <1>5 DEF Tick, Crash, observationVars
<1> QED BY <1>1, <1>2, <1>3, <1>4, <1>5, StepsSplit

LEMMA CleanersStep ==
    ASSUME ObservationTypeOK, ObserverKnows, CleanersAgree, [ObservationNext]_observationVars
    PROVE  CleanersAgree'
<1>0. record \in Record /\ cleaners \in [{"request", "sweep"} -> Cleaner] /\ observer \in Places
  BY DEF ObservationTypeOK
\* A withdrawal is of a deleted record from its first step on.
<1>1. cleaners["request"].at # "idle" => record.status = "deleted" /\ record.left = 0
  BY DEF CleanersAgree
<1>2. cleaners'["request"].at # "idle" => record'.status = "deleted" /\ record'.left = 0
  <2>1. CASE WithdrawAudio
    BY <1>0, <2>1 DEF WithdrawAudio, Record
  <2>2. CASE ~WithdrawAudio
    <3>1. cleaners'["request"].at # "idle" => cleaners["request"].at # "idle"
      <4>1. cleaners'["request"] # cleaners["request"] =>
                \/ cleaners'["request"].at = "idle"
                \/ cleaners["request"].at \in {"stop", "select", "part", "wav"}
        BY <2>2, CleanersGoOn
      <4> QED BY <4>1
    <3> QED BY <1>1, <3>1, RecordStands
  <2> QED BY <2>1, <2>2
<1>3. ASSUME NEW c \in {"request", "sweep"}
      PROVE  /\ cleaners'[c].at \in {"part", "wav", "purge"} =>
                    record'.status # "none" /\ (Opening' => record'.status = "deleted")
             /\ cleaners'[c].at = "wav" /\ cleaners'[c].removed => Silent'
             /\ cleaners'[c].at = "purge" /\ cleaners'[c].removed => Settled'
  <2>0. /\ cleaners[c].at \in {"part", "wav", "purge"} =>
                    record.status # "none" /\ (Opening => record.status = "deleted")
        /\ cleaners[c].at = "wav" /\ cleaners[c].removed => Silent
        /\ cleaners[c].at = "purge" /\ cleaners[c].removed => Settled
    BY DEF CleanersAgree
  <2>1. ASSUME record.status # "none", Opening => record.status = "deleted"
        PROVE  record'.status # "none" /\ (Opening' => record'.status = "deleted")
    <3>1. Opening' => Opening \/ MarkStarted
      BY ObserverComes DEF Opening, OpenFile, KeepWriter, Recheck, BeginRow, Join, Goes
    <3>2. ~(MarkStarted /\ Opening')
      BY <2>1 DEF MarkStarted, Goes, ObserverKnows, Opening
    <3> QED BY <2>1, <3>1, <3>2, RecordStands
  <2>2. CASE cleaners'[c] = cleaners[c]
    BY <2>0, <2>1, <2>2, SilenceLasts, WhatIsSettledStays
  <2>3. CASE cleaners'[c].at \in {"idle", "stop", "select"}
    BY <2>3
  <2>4. CASE SelectDue(c) /\ cleaners'[c].at = "part"
    <3>1. record.status # "none" /\ record.left = 0
      BY <2>4 DEF SelectDue, Due
    <3>2. Opening => record.status = "deleted"
      BY <3>1 DEF ObserverKnows
    <3> QED BY <2>1, <2>4, <3>1, <3>2
  <2>5. CASE /\ RemovePart(c) /\ cleaners[c].at = "part"
             /\ cleaners'[c] = [at |-> "wav", removed |-> cleaners[c].removed]
    <3>1. part' = "none" /\ UNCHANGED <<record, observer>>
      BY <2>5 DEF RemovePart
    <3>2. record.status # "none" /\ (Opening => record.status = "deleted")
      BY <2>0, <2>5
    <3>3. Silent'
      BY <3>1, <3>2 DEF Silent, CanRecord, Opening
    <3>4. record'.status # "none" /\ (Opening' => record'.status = "deleted")
      BY <2>1, <3>2
    <3> QED BY <2>5, <3>3, <3>4
  <2>6. CASE /\ RemoveWav(c) /\ cleaners[c].at = "wav"
             /\ cleaners'[c] = [at |-> "purge", removed |-> cleaners[c].removed]
    <3>1. wav' = "none"
      BY <2>6 DEF RemoveWav
    <3>2. cleaners'[c].removed => Silent'
      BY <2>0, <2>6, SilenceLasts
    <3>3. cleaners'[c].removed => Settled'
      BY <3>1, <3>2 DEF Settled
    <3>4. record'.status # "none" /\ (Opening' => record'.status = "deleted")
      BY <2>0, <2>1, <2>6
    <3> QED BY <2>6, <3>3, <3>4
  <2>7. CASE RemovalRefused(c) /\ cleaners[c].at \in {"part", "wav"}
             /\ cleaners'[c] \in {[at |-> "wav", removed |-> FALSE], [at |-> "purge", removed |-> FALSE]}
    BY <2>0, <2>1, <2>7
  <2> QED BY <2>2, <2>3, <2>4, <2>5, <2>6, <2>7, CleanersGoOn
<1>4. record'.purged => Settled'
  <2>1. CASE record.purged
    BY <2>1, WhatIsSettledStays DEF CleanersAgree
  <2>2. CASE ~record.purged
    <3> SUFFICES ASSUME record'.purged PROVE Settled'
      OBVIOUS
    <3>1. PICK c \in {"request", "sweep"} : Purge(c) /\ cleaners[c].removed
      BY <2>2, RecordStands
    <3>2. Settled
      BY <3>1 DEF Purge, CleanersAgree
    <3> QED BY <3>2, WhatIsSettledStays
  <2> QED BY <2>1, <2>2
<1>5. "audio" \in refused' => Settled'
  <2>1. CASE "audio" \in refused
    BY <2>1, WhatIsSettledStays DEF CleanersAgree
  <2>2. CASE "audio" \notin refused
    <3> SUFFICES ASSUME "audio" \in refused' PROVE Settled'
      OBVIOUS
    <3>1. NothingDue \/ (Purge("request") /\ Purged("request"))
      BY <2>2, AnswersCome
    <3>2. CASE NothingDue
      <4>1. cleaners["request"].at = "select" /\ ~Due
        BY <3>2 DEF NothingDue, Cleaning
      <4>2. record.purged
        BY <1>1, <4>1 DEF Due
      <4> QED BY <4>2, WhatIsSettledStays DEF CleanersAgree
    <3>3. CASE Purge("request") /\ Purged("request")
      <4>1. Settled
        BY <3>3 DEF Purge, Purged, CleanersAgree
      <4> QED BY <4>1, WhatIsSettledStays
    <3> QED BY <3>1, <3>2, <3>3
  <2> QED BY <2>1, <2>2
<1> QED BY <1>2, <1>3, <1>4, <1>5 DEF CleanersAgree

\* Once a withdrawal of the audio is answered no recording is on disk, whether the
\* observer was making its file, writing to it, finishing it or dead: the record says
\* deleted before the first file is removed, the observer looks at it once its writer is
\* where a withdrawal finds it, and only a cleanup both of whose removals went answers.
THEOREM AudioRefusalsHold == ObservationSpec => []AudioRefusalHolds
<1>1. ObservationInit => ObserverKnows /\ CleanersAgree
  BY DEF ObservationInit, InitLife, ObserverKnows, CleanersAgree, Opening, Idle
<1>2. /\ ObservationTypeOK /\ ObserverKnows /\ CleanersAgree /\ [ObservationNext]_observationVars
      => ObserverKnows' /\ CleanersAgree'
  BY ObserverKnowsStep, CleanersStep
<1>3. CleanersAgree => AudioRefusalHolds
  BY DEF CleanersAgree, Settled, Silent, AudioRefusalHolds
<1> QED BY TypesInit, TypesStep, <1>1, <1>2, <1>3, PTL DEF ObservationSpec

=============================================================================
