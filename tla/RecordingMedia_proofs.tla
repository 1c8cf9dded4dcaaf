----------------------- MODULE RecordingMedia_proofs -----------------------
(***************************************************************************)
(* What holds of the media of recordings for any number of recordings,     *)
(* files, workers, sweepers and attempts, whatever may end a recording     *)
(* and however often an actor is dropped: no file is left that nobody      *)
(* names, no delivery is dropped, the staged object outlives its delivery, *)
(* and the delivery side keeps its contract.  Where no attempt outlives    *)
(* its claim, a recording has one file, and what is "ready" can be read.   *)
(***************************************************************************)
EXTENDS RecordingMedia, FiniteSetTheorems, TLAPS

(***************************************************************************)
(* The calls of a cleanup                                                  *)
(***************************************************************************)

Calls == {"revoke", "file", "object"}
Asks(calls, call) == \E i \in 1..Len(calls) : calls[i] = call

LEMMA OneCall ==
    ASSUME NEW wanted \in BOOLEAN, NEW call \in Calls
    PROVE  /\ (IF wanted THEN <<call>> ELSE <<>>) \in Seq(Calls)
           /\ \A c : Asks(IF wanted THEN <<call>> ELSE <<>>, c) <=> wanted /\ c = call
<1>1. CASE wanted
  <2>1. <<call>> \in Seq(Calls) /\ Len(<<call>>) = 1 /\ <<call>>[1] = call
    OBVIOUS
  <2> QED BY <1>1, <2>1 DEF Asks
<1>2. CASE ~wanted
  <2>1. <<>> \in Seq(Calls) /\ Len(<<>>) = 0
    OBVIOUS
  <2> QED BY <1>2, <2>1 DEF Asks
<1> QED BY <1>1, <1>2

LEMMA AskedAt == ASSUME NEW calls, NEW c, NEW i \in 1..Len(calls), calls[i] = c PROVE Asks(calls, c)
BY DEF Asks

LEMMA ConcatAsks ==
    ASSUME NEW s \in Seq(Calls), NEW t \in Seq(Calls)
    PROVE  /\ s \o t \in Seq(Calls)
           /\ \A c : Asks(s \o t, c) <=> Asks(s, c) \/ Asks(t, c)
<1>1. s \o t \in Seq(Calls) /\ Len(s \o t) = Len(s) + Len(t)
  OBVIOUS
<1>2. \A i \in 1..Len(s) : i \in 1..Len(s \o t) /\ (s \o t)[i] = s[i]
  BY <1>1
<1>3. \A i \in 1..Len(t) : Len(s) + i \in 1..Len(s \o t) /\ (s \o t)[Len(s) + i] = t[i]
  BY <1>1
<1>4. \A i \in 1..Len(s \o t) :
          i \in 1..Len(s) \/ (i - Len(s) \in 1..Len(t) /\ i = Len(s) + (i - Len(s)))
  <2> DEFINE m == Len(s)
             n == Len(t)
  <2>1. m \in Nat /\ n \in Nat /\ Len(s \o t) = m + n
    BY <1>1
  <2> HIDE DEF m, n
  <2>2. \A i \in 1..(m + n) : i \in 1..m \/ (i - m \in 1..n /\ i = m + (i - m))
    BY <2>1
  <2> QED BY <2>1, <2>2 DEF m, n
<1>5. ASSUME NEW c, Asks(s \o t, c) PROVE Asks(s, c) \/ Asks(t, c)
  <2>1. PICK i \in 1..Len(s \o t) : (s \o t)[i] = c
    BY <1>5 DEF Asks
  <2> DEFINE j == i - Len(s)
  <2>2. CASE i \in 1..Len(s)
    BY <1>2, <2>1, <2>2 DEF Asks
  <2>3. CASE j \in 1..Len(t) /\ i = Len(s) + j
    BY <1>3, <2>1, <2>3 DEF Asks
  <2> QED BY <1>4, <2>2, <2>3
<1>6. ASSUME NEW c, Asks(s, c) PROVE Asks(s \o t, c)
  BY <1>2, <1>6 DEF Asks
<1>7. ASSUME NEW c, Asks(t, c) PROVE Asks(s \o t, c)
  <2>1. PICK i \in 1..Len(t) : t[i] = c
    BY <1>7 DEF Asks
  <2> DEFINE j == Len(s) + i
  <2>2. j \in 1..Len(s \o t) /\ (s \o t)[j] = c
    BY <1>3, <2>1
  <2> HIDE DEF j
  <2> QED BY <2>2, AskedAt
<1> QED BY <1>1, <1>5, <1>6, <1>7

LEMMA NothingAsked == \A c : ~Asks(<<>>, c)
BY DEF Asks

\* What is asked for is asked for first or later, and nothing is asked for in the end.
LEMMA FirstCall ==
    ASSUME NEW s \in Seq(Calls), s # <<>>
    PROVE  /\ Head(s) \in Calls /\ Tail(s) \in Seq(Calls) /\ Tail(s) # s
           /\ \A c : Asks(s, c) <=> Head(s) = c \/ Asks(Tail(s), c)
           /\ \A c : Tail(s) = <<>> => ~Asks(Tail(s), c)
<1>1. /\ Len(s) \in Nat \ {0} /\ Len(Tail(s)) = Len(s) - 1
      /\ Head(s) = s[1] /\ s[1] \in Calls /\ Tail(s) \in Seq(Calls)
  OBVIOUS
<1>2. \A i \in 1..Len(Tail(s)) : i + 1 \in 1..Len(s) /\ Tail(s)[i] = s[i + 1]
  BY <1>1
<1>3. \A i \in 1..Len(s) : i = 1 \/ (i - 1 \in 1..Len(Tail(s)) /\ Tail(s)[i - 1] = s[i])
  BY <1>1
<1>4. ASSUME NEW c, Asks(s, c), Head(s) # c PROVE Asks(Tail(s), c)
  <2>1. PICK i \in 1..Len(s) : s[i] = c
    BY <1>4 DEF Asks
  <2> QED BY <1>1, <1>3, <1>4, <2>1 DEF Asks
<1>5. ASSUME NEW c, Head(s) = c \/ Asks(Tail(s), c) PROVE Asks(s, c)
  <2>1. CASE Head(s) = c
    BY <1>1, <2>1 DEF Asks
  <2>2. CASE Asks(Tail(s), c)
    BY <1>1, <1>2, <2>2 DEF Asks
  <2> QED BY <1>5, <2>1, <2>2
<1> DEFINE rest == Tail(s)
<1>6. Len(rest) = Len(s) - 1 /\ Len(<<>>) = 0
  BY <1>1
<1> HIDE DEF rest
<1>7. rest # s
  BY <1>1, <1>6
<1>8. ASSUME NEW c, rest = <<>> PROVE ~Asks(rest, c)
  BY <1>8, NothingAsked
<1> QED BY <1>1, <1>4, <1>5, <1>7, <1>8 DEF rest

\* The cleanup of a loser asks for what it was told to, and so does a deletion.
LEMMA ThreeCalls ==
    ASSUME NEW a \in BOOLEAN, NEW b \in BOOLEAN, NEW c \in BOOLEAN, NEW calls,
           calls = (IF a THEN <<"revoke">> ELSE <<>>) \o (IF b THEN <<"file">> ELSE <<>>)
                       \o (IF c THEN <<"object">> ELSE <<>>)
    PROVE  /\ calls \in Seq(Calls)
           /\ Asks(calls, "file") <=> b
           /\ Asks(calls, "object") <=> c
<1> DEFINE revoke == IF a THEN <<"revoke">> ELSE <<>>
           release == IF b THEN <<"file">> ELSE <<>>
           delete == IF c THEN <<"object">> ELSE <<>>
<1>1. "revoke" \in Calls /\ "file" \in Calls /\ "object" \in Calls
  BY DEF Calls
<1>2. revoke \in Seq(Calls) /\ \A call : Asks(revoke, call) <=> a /\ call = "revoke"
  BY <1>1, OneCall
<1>3. release \in Seq(Calls) /\ \A call : Asks(release, call) <=> b /\ call = "file"
  BY <1>1, OneCall
<1>4. delete \in Seq(Calls) /\ \A call : Asks(delete, call) <=> c /\ call = "object"
  BY <1>1, OneCall
<1>5. calls = (revoke \o release) \o delete
  OBVIOUS
<1> HIDE DEF revoke, release, delete
<1>6. /\ revoke \o release \in Seq(Calls)
      /\ \A call : Asks(revoke \o release, call) <=> Asks(revoke, call) \/ Asks(release, call)
  BY <1>2, <1>3, ConcatAsks
<1>7. /\ (revoke \o release) \o delete \in Seq(Calls)
      /\ \A call : Asks((revoke \o release) \o delete, call)
                       <=> Asks(revoke \o release, call) \/ Asks(delete, call)
  BY <1>4, <1>6, ConcatAsks
<1>8. \A call : Asks(calls, call)
                    <=> Asks(revoke, call) \/ Asks(release, call) \/ Asks(delete, call)
  BY <1>5, <1>6, <1>7
<1>9. calls \in Seq(Calls)
  BY <1>5, <1>7
<1>10. Asks(calls, "file") <=> b
  BY <1>2, <1>3, <1>4, <1>8
<1>11. Asks(calls, "object") <=> c
  BY <1>2, <1>3, <1>4, <1>8
<1> QED BY <1>9, <1>10, <1>11

(***************************************************************************)
(* The inductive invariant                                                 *)
(***************************************************************************)

Busy(w) == ~At(w, "idle")
DeletionLabels == {"release", "clear", "tombstone", "fail"}
Deleting(s) == spc[s] \in DeletionLabels

\* The steps of an attempt that are about a file.
FileLabels == {"store", "share", "store_permission", "finish", "scope", "undo", "forget"}

\* Whoever is at work knows what on, and a cleanup or a deletion that goes on has
\* something left to do.
LocalsAgree ==
    /\ \A w \in Workers : IF Busy(w) THEN work[w] \in Work ELSE work[w] = NoWork
    /\ \A w \in Workers : At(w, "undo") => work[w].undo # <<>>
    /\ \A w \in Workers : wpc[w] \in FileLabels => work[w].file # NoFile
    /\ \A s \in Sweepers : IF Deleting(s) THEN deletion[s] \in Deletion ELSE deletion[s] = NoDeletion
    /\ \A s \in Sweepers : spc[s] \in {"release", "clear"} => deletion[s].left # <<>>

Typed == TypeOK /\ LocalsAgree

\* A file is that of one recording for good: the file of a row, of an attempt or
\* of a deletion is one of its recording.
FilesAreOwned ==
    /\ \A f \in drive : owner[f] \in Recordings
    /\ \A r \in Recordings : /\ file[r] # NoFile => owner[file[r]] = r
                             /\ permission[r] # NoFile => owner[permission[r]] = r
    /\ \A w \in Workers : Busy(w) =>
           /\ work[w].file # NoFile => owner[work[w].file] = work[w].rec
           /\ work[w].permission # NoFile => owner[work[w].permission] = work[w].rec
    /\ \A s \in Sweepers : Deleting(s) =>
           /\ deletion[s].file # NoFile => owner[deletion[s].file] = deletion[s].rec
           /\ deletion[s].permission # NoFile => owner[deletion[s].permission] = deletion[s].rec

\* The job is over; and no delivery of the recording will be tried again.
Begun(r) == state[r] \in {"transferring", "ready", "failed", "cleanup_failed", "deleted"}
Dead(r) ==
    \/ state[r] \in {"cleanup_failed", "deleted"}
    \/ state[r] = "failed" /\ error[r] # "drive_failed"

\* Before an attempt has called the provider, its claim is its own.
EarlyLabels == {"reopen", "recipient", "stage", "handles"}

\* What a worker on r may rely on: a delivery that is owed is queued, a row it
\* lets go owes none, and an object it deletes is wanted no more.
RowIsServed(w, r) ==
    /\ Begun(r)
    /\ Transferring(r) => r \in queued
    /\ wpc[w] \in EarlyLabels => Holds(w, r) /\ r \notin expired
    /\ At(w, "reopen") /\ Transferring(r) => work[w].seen = "transferring"
    /\ At(w, "release") /\ Holds(w, r) => ~Transferring(r)
    /\ At(w, "undo") /\ Asks(work[w].undo, "object") => Dead(r)

RowsAreServed ==
    /\ \A r \in Recordings : Begun(r) \/ state[r] = "finalizing"
    /\ \A r \in queued \union completing : Begun(r)
    /\ \A s \in Sweepers : \A r \in due[s] : Begun(r)
    /\ \A s \in Sweepers : Deleting(s) => Begun(deletion[s].rec) /\ deletion[s].rec \in recalled
    /\ \A w \in Workers : Busy(w) => RowIsServed(w, work[w].rec)

\* An attempt that made a file answers for it until the row names it or it is gone.
AnswersFor(w, f) ==
    wpc[w] \in {"store", "scope", "undo"} /\ work[w].made /\ work[w].file = f

FilesAreKnown ==
    /\ \A f \in drive : \/ file[owner[f]] = f
                        \/ owner[f] \in recalled
                        \/ \E w \in Workers : AnswersFor(w, f)
                        \/ f \in strays
    /\ \A w \in Workers :
           /\ wpc[w] \in {"search", "upload", "store"} => work[w].made
           /\ At(w, "undo") /\ work[w].made => Asks(work[w].undo, "file") \/ work[w].file \notin drive
           /\ At(w, "forget") => work[w].file \notin drive

MediaInv == Typed /\ FilesAreOwned /\ RowsAreServed /\ FilesAreKnown

(***************************************************************************)
(* Types                                                                   *)
(***************************************************************************)

LEMMA TypedInit == Init => Typed
BY BoundsAssumption, AttemptsAssumption
DEF Init, InitMedia, InitQueue, InitRetention, Typed, LocalsAgree, TypeOK, TypeOfMedia,
    TypeOfQueue, TypeOfRetention, RowStates, ActiveStates, Errors, MaybeFile, WorkerLabels,
    SweeperLabels, FileLabels, Busy, At, Deleting, DeletionLabels, NoWork, NoDeletion

\* The parts of Typed: the rows of the queue, the workers, the sweepers.
RowsTyped ==
    /\ queued \subseteq Recordings
    /\ attempts \in [Recordings -> 0..Attempts]
    /\ claim \in [Recordings -> Workers \union {NoWorker}]
    /\ expired \subseteq queued /\ later \subseteq queued
    /\ \A r \in Recordings \ queued : attempts[r] = 0 /\ claim[r] = NoWorker

WorkersTyped ==
    /\ wpc \in [Workers -> WorkerLabels]
    /\ work \in [Workers -> Work \union {NoWork}]
    /\ \A w \in Workers : IF Busy(w) THEN work[w] \in Work ELSE work[w] = NoWork
    /\ \A w \in Workers : At(w, "undo") => work[w].undo # <<>>
    /\ \A w \in Workers : wpc[w] \in FileLabels => work[w].file # NoFile

SweepersTyped ==
    /\ TypeOfRetention
    /\ \A s \in Sweepers : IF Deleting(s) THEN deletion[s] \in Deletion ELSE deletion[s] = NoDeletion
    /\ \A s \in Sweepers : spc[s] \in {"release", "clear"} => deletion[s].left # <<>>

RestTyped ==
    /\ completing \subseteq Recordings /\ withdrawing \subseteq Recordings
    /\ strays \subseteq Files /\ recalled \subseteq Recordings /\ faults \in Nat

LEMMA TypedParts ==
    Typed <=> TypeOfMedia /\ RowsTyped /\ WorkersTyped /\ SweepersTyped /\ RestTyped
BY DEF Typed, LocalsAgree, TypeOK, TypeOfQueue, RowsTyped, WorkersTyped, SweepersTyped, RestTyped

LEMMA TypedNext ==
    ASSUME TypeOfMedia', RowsTyped', WorkersTyped', SweepersTyped', RestTyped'
    PROVE  Typed'
BY DEF Typed, LocalsAgree, TypeOK, TypeOfQueue, RowsTyped, WorkersTyped, SweepersTyped, RestTyped

LEMMA AttemptGoesOn ==
    ASSUME WorkersTyped, NEW w \in Workers, NEW label \in WorkerLabels \ {"idle"},
           \/ UNCHANGED work /\ work[w] \in Work
           \/ \E locals \in Work : work' = [work EXCEPT ![w] = locals],
           GoOn(w, label), label = "undo" => work'[w].undo # <<>>,
           label \in FileLabels => work'[w].file # NoFile
    PROVE  WorkersTyped'
BY DEF WorkersTyped, GoOn, Busy, At

LEMMA AttemptGoesOnWith ==
    ASSUME WorkersTyped, NEW w \in Workers, NEW label \in WorkerLabels \ {"idle"},
           NEW locals \in Work, With(w, label, locals),
           label = "undo" => locals.undo # <<>>, label \in FileLabels => locals.file # NoFile
    PROVE  WorkersTyped'
BY DEF WorkersTyped, With, GoOn, Busy, At

LEMMA AttemptEnds ==
    ASSUME WorkersTyped, NEW w \in Workers, Done(w)
    PROVE  WorkersTyped'
BY DEF WorkersTyped, Done, With, GoOn, Busy, At, WorkerLabels, FileLabels

LEMMA WorkersStay ==
    ASSUME WorkersTyped, UNCHANGED workerVars
    PROVE  WorkersTyped'
BY DEF WorkersTyped, workerVars, Busy, At

LEMMA LabelNames ==
    /\ WorkerLabels \ {"idle"} =
           {"reopen", "recipient", "stage", "handles", "search", "upload", "store", "share",
            "store_permission", "finish", "note", "scope", "undo", "forget", "reschedule",
            "fail", "release"}
    /\ {"idle", "due", "handles"} \union DeletionLabels = SweeperLabels
BY DEF WorkerLabels, SweeperLabels, DeletionLabels

\* The locals an attempt may go on with.
LEMMA LocalsTyped ==
    ASSUME NEW locals \in Work
    PROVE  /\ locals.rec \in Recordings /\ locals.rec # NoRecording
           /\ locals.file \in MaybeFile /\ locals.permission \in MaybeFile
           /\ locals.made \in BOOLEAN /\ locals.gave \in BOOLEAN
           /\ locals.undo \in Seq(Calls) /\ locals.seen \in RowStates
           /\ \A f \in MaybeFile : [locals EXCEPT !.file = f] \in Work
           /\ \A f, p \in MaybeFile, made \in BOOLEAN :
                 [locals EXCEPT !.file = f, !.made = made, !.permission = p] \in Work
           /\ \A p \in MaybeFile : [locals EXCEPT !.permission = p, !.gave = TRUE] \in Work
           /\ \A calls \in Seq(Calls) : [locals EXCEPT !.undo = calls] \in Work
           /\ \A calls \in Seq(Calls), made \in BOOLEAN :
                 [locals EXCEPT !.undo = calls, !.made = made] \in Work
<1> {"revoke", "file", "object"} = Calls
  BY DEF Calls
<1> QED BY NoRecordingAssumption DEF Work

LEMMA NewLocalsTyped ==
    ASSUME NEW r \in Recordings, NEW seen \in RowStates
    PROVE  [rec |-> r, seen |-> seen, file |-> NoFile, made |-> FALSE,
            permission |-> NoFile, gave |-> FALSE, undo |-> <<>>] \in Work
BY DEF Work, MaybeFile

LEMMA WorkerStepTyped ==
    ASSUME Typed, NEW w \in Workers, WorkerStep(w)
    PROVE  TypeOfMedia' /\ RowsTyped' /\ WorkersTyped'
<1> USE DEF mediaVars, handleVars, remoteVars, queueVars
<1>1. TypeOfMedia /\ RowsTyped /\ WorkersTyped
  BY TypedParts
<1>2. Busy(w) => work[w] \in Work /\ work[w].rec \in Recordings
  BY <1>1, LocalsTyped DEF WorkersTyped
<1>3. CASE ReadRecipient(w)
  BY <1>1, <1>2, <1>3, AttemptGoesOn, LabelNames
  DEF FileLabels, WorkersTyped, ReadRecipient, Busy, At, TypeOfMedia, RowsTyped
<1>4. CASE FindNoFile(w)
  BY <1>1, <1>2, <1>4, AttemptGoesOn, LabelNames
  DEF FileLabels, WorkersTyped, FindNoFile, Busy, At, TypeOfMedia, RowsTyped
<1>5. CASE KeepPermission(w)
  BY <1>1, <1>2, <1>5, AttemptGoesOn, LabelNames
  DEF FileLabels, WorkersTyped, KeepPermission, Busy, At, TypeOfMedia, RowsTyped
<1>6. CASE UndoRefused(w)
  BY <1>1, <1>2, <1>6, AttemptGoesOn, LabelNames
  DEF FileLabels, WorkersTyped, UndoRefused, Busy, At, TypeOfMedia, RowsTyped
<1>7. CASE CallFails(w)
  BY <1>1, <1>2, <1>7, AttemptGoesOn, LabelNames
  DEF FileLabels, WorkersTyped, CallFails, Busy, At, TypeOfMedia, RowsTyped
<1>8. CASE ReopenIfAsked(w)
  <2>1. TypeOfMedia' /\ RowsTyped'
    BY <1>1, <1>2, <1>8 DEF ReopenIfAsked, Busy, At, TypeOfMedia, RowsTyped, RowStates,
       ActiveStates, Errors, Failures, Coalesce
  <2>2. WorkersTyped'
    BY <1>1, <1>2, <1>8, AttemptGoesOn, LabelNames DEF FileLabels, WorkersTyped, ReopenIfAsked, Busy, At
  <2> QED BY <2>1, <2>2
<1>9. CASE FailRecording(w)
  <2>1. TypeOfMedia' /\ RowsTyped'
    BY <1>1, <1>2, <1>9 DEF FailRecording, Transition, Busy, At, TypeOfMedia, RowsTyped, RowStates,
       ActiveStates, Errors, Failures, Coalesce
  <2>2. WorkersTyped'
    BY <1>1, <1>2, <1>9, AttemptGoesOn, LabelNames DEF FileLabels, WorkersTyped, FailRecording, Busy, At
  <2> QED BY <2>1, <2>2
<1>10. CASE FinishDelivery(w)
  <2>1. TypeOfMedia' /\ RowsTyped'
    BY <1>1, <1>2, <1>10 DEF FinishDelivery, Busy, At, TypeOfMedia, RowsTyped, RowStates,
       ActiveStates, Errors, Failures, Coalesce
  <2>2. WorkersTyped'
    BY <1>1, <1>2, <1>10, AttemptGoesOn, LabelNames DEF FileLabels, WorkersTyped, FinishDelivery, Busy, At
  <2> QED BY <2>1, <2>2
<1>11. CASE NoteFailure(w)
  <2>1. TypeOfMedia' /\ RowsTyped'
    BY <1>1, <1>2, <1>11 DEF NoteFailure, Busy, At, TypeOfMedia, RowsTyped, RowStates,
       ActiveStates, Errors, Failures, Coalesce
  <2>2. WorkersTyped'
    BY <1>1, <1>2, <1>11, AttemptGoesOn, LabelNames DEF FileLabels, WorkersTyped, NoteFailure, Busy, At
  <2> QED BY <2>1, <2>2
<1>12. CASE StageObject(w)
  <2>1. TypeOfMedia' /\ RowsTyped'
    BY <1>1, <1>2, <1>12, LocalsTyped DEF StageObject, SetGcsObject, Busy, At, TypeOfMedia, RowsTyped, MaybeFile
  <2>2. WorkersTyped'
    BY <1>1, <1>2, <1>12, AttemptGoesOn, LabelNames DEF FileLabels, WorkersTyped, StageObject, Busy, At
  <2> QED BY <2>1, <2>2
<1>13. CASE StoreFile(w)
  <2>1. TypeOfMedia' /\ RowsTyped'
    BY <1>1, <1>2, <1>13, LocalsTyped DEF StoreFile, SetDriveFile, Busy, At, TypeOfMedia, RowsTyped, MaybeFile
  <2>2. WorkersTyped'
    BY <1>1, <1>2, <1>13, AttemptGoesOn, LabelNames DEF FileLabels, WorkersTyped, StoreFile, Busy, At
  <2> QED BY <2>1, <2>2
<1>14. CASE StorePermission(w)
  <2>1. TypeOfMedia' /\ RowsTyped'
    BY <1>1, <1>2, <1>14, LocalsTyped DEF StorePermission, SetDrivePermission, Busy, At, TypeOfMedia, RowsTyped, MaybeFile
  <2>2. WorkersTyped'
    BY <1>1, <1>2, <1>14, AttemptGoesOn, LabelNames DEF FileLabels, WorkersTyped, StorePermission, Busy, At
  <2> QED BY <2>1, <2>2
<1>15. CASE Forget(w)
  <2>1. TypeOfMedia' /\ RowsTyped'
    BY <1>1, <1>2, <1>15, LocalsTyped DEF Forget, ForgetDriveFile, Busy, At, TypeOfMedia, RowsTyped, MaybeFile
  <2>2. WorkersTyped'
    BY <1>1, <1>2, <1>15, AttemptGoesOn, LabelNames DEF FileLabels, WorkersTyped, Forget, Busy, At
  <2> QED BY <2>1, <2>2
<1>16. CASE \E r \in Recordings : ClaimDelivery(w, r)
  <2> PICK r \in Recordings : ClaimDelivery(w, r)
    BY <1>16
  <2>1. TypeOfMedia' /\ RowsTyped'
    BY <1>1, AttemptsAssumption DEF ClaimDelivery, TypeOfMedia, RowsTyped
  <2>2. state[r] \in RowStates
    BY <1>1 DEF TypeOfMedia
  <2>3. WorkersTyped'
    BY <1>1, <2>2, NewLocalsTyped, AttemptGoesOn, LabelNames DEF FileLabels, WorkersTyped, ClaimDelivery, With
  <2> QED BY <2>1, <2>3
<1>17. CASE ReadHandles(w)
  <2>1. TypeOfMedia' /\ RowsTyped'
    BY <1>1, <1>17 DEF ReadHandles, TypeOfMedia, RowsTyped
  <2>2. file[work[w].rec] \in MaybeFile /\ permission[work[w].rec] \in MaybeFile
    BY <1>1, <1>2, <1>17 DEF ReadHandles, Busy, At, TypeOfMedia
  <2> DEFINE locals == [work[w] EXCEPT !.file = file[work[w].rec],
                                      !.made = file[work[w].rec] = NoFile,
                                      !.permission = permission[work[w].rec]]
  <2>3. locals \in Work /\ locals.file = file[work[w].rec]
    BY <1>2, <1>17, <2>2 DEF ReadHandles, Busy, At, Work
  <2>4. With(w, IF file[work[w].rec] = NoFile THEN "search" ELSE "share", locals)
    BY <1>17 DEF ReadHandles
  <2> HIDE DEF locals
  <2>5. WorkersTyped'
    BY <1>1, <2>3, <2>4, AttemptGoesOnWith, LabelNames DEF FileLabels
  <2> QED BY <2>1, <2>5
<1>18. CASE \E f \in Files : FindExistingFile(w, f)
  <2> PICK f \in Files : FindExistingFile(w, f)
    BY <1>18
  <2>1. TypeOfMedia' /\ RowsTyped'
    BY <1>1 DEF FindExistingFile, TypeOfMedia, RowsTyped
  <2> DEFINE locals == [work[w] EXCEPT !.file = f]
  <2>2. locals \in Work /\ locals.file = f /\ f # NoFile
    BY <1>2, NoFileAssumption DEF FindExistingFile, Busy, At, Work, MaybeFile
  <2>3. With(w, "store", locals)
    BY DEF FindExistingFile
  <2> HIDE DEF locals
  <2>4. WorkersTyped'
    BY <1>1, <2>2, <2>3, AttemptGoesOnWith, LabelNames
  <2> QED BY <2>1, <2>4
<1>19. CASE \E f \in Files : Upload(w, f)
  <2> PICK f \in Files : Upload(w, f)
    BY <1>19
  <2>1. TypeOfMedia' /\ RowsTyped'
    BY <1>1, <1>2 DEF Upload, MakeFile, Busy, At, TypeOfMedia, RowsTyped
  <2> DEFINE locals == [work[w] EXCEPT !.file = f]
  <2>2. work[w] \in Work /\ locals \in Work /\ locals.file = f /\ f # NoFile
    BY <1>2, NoFileAssumption DEF Upload, Busy, At, Work, MaybeFile
  <2>3. With(w, "store", locals) \/ (GoOn(w, "note") /\ UNCHANGED work)
    BY DEF Upload
  <2> HIDE DEF locals
  <2>4. WorkersTyped'
    BY <1>1, <2>2, <2>3, AttemptGoesOn, AttemptGoesOnWith, LabelNames DEF FileLabels
  <2> QED BY <2>1, <2>4
<1>20. CASE Share(w)
  <2>1. TypeOfMedia' /\ RowsTyped'
    BY <1>1, <1>20 DEF Share, TypeOfMedia, RowsTyped
  <2> DEFINE locals == [work[w] EXCEPT !.permission = work[w].file, !.gave = TRUE]
  <2>2. /\ work[w] \in Work /\ locals \in Work
        /\ locals.file = work[w].file /\ work[w].file # NoFile
    BY <1>1, <1>2, <1>20 DEF Share, Busy, At, Work, WorkersTyped, FileLabels
  <2>3. With(w, "store_permission", locals) \/ (GoOn(w, "note") /\ UNCHANGED work)
    BY <1>20 DEF Share
  <2> HIDE DEF locals
  <2>4. WorkersTyped'
    BY <1>1, <2>2, <2>3, AttemptGoesOn, AttemptGoesOnWith, LabelNames DEF FileLabels
  <2> QED BY <2>1, <2>4
<1>21. CASE ReadScope(w)
  <2>1. TypeOfMedia' /\ RowsTyped'
    BY <1>1, <1>21 DEF ReadScope, TypeOfMedia, RowsTyped
  <2> DEFINE mine == MineMayGo(work[w].rec)
             undo == (IF mine /\ work[w].gave THEN <<"revoke">> ELSE <<>>)
                         \o (IF mine /\ work[w].made THEN <<"file">> ELSE <<>>)
                         \o (IF ObjectMayGo(work[w].rec) THEN <<"object">> ELSE <<>>)
  <2>2. work[w] \in Work
    BY <1>2, <1>21 DEF ReadScope, Busy, At
  <2>3. mine \in BOOLEAN /\ ObjectMayGo(work[w].rec) \in BOOLEAN
    BY DEF MineMayGo, ObjectMayGo
  <2>4. undo \in Seq(Calls)
    BY <2>2, <2>3, LocalsTyped, ThreeCalls
  <2>5. GoOn(w, IF undo = <<>> THEN "reschedule" ELSE "undo")
    BY <1>21 DEF ReadScope, With
  <2>6. work' = [work EXCEPT ![w] = [work[w] EXCEPT !.undo = undo, !.made = mine /\ @]]
    BY <1>21 DEF ReadScope, With
  <2> HIDE DEF mine, undo
  <2>7. [work[w] EXCEPT !.undo = undo, !.made = mine /\ @] \in Work
    BY <2>2, <2>3, <2>4, LocalsTyped
  <2>8. work'[w].undo = undo
    BY <1>1, <2>2, <2>6 DEF WorkersTyped, Work
  <2>10. work'[w].file # NoFile
    BY <1>1, <1>21, <2>2, <2>6 DEF ReadScope, At, FileLabels, WorkersTyped, Work
  <2>9. WorkersTyped'
    BY <1>1, <2>5, <2>6, <2>7, <2>8, <2>10, AttemptGoesOn, LabelNames DEF FileLabels
  <2> QED BY <2>1, <2>9
<1>22. CASE Undo(w)
  <2>1. work[w] \in Work /\ work[w].rec \in Recordings /\ work[w].undo # <<>>
    BY <1>1, <1>2, <1>22 DEF Undo, Busy, At, WorkersTyped
  <2>2. Head(work[w].undo) \in Calls /\ Tail(work[w].undo) \in Seq(Calls)
    BY <2>1, FirstCall, LocalsTyped
  <2>3. TypeOfMedia' /\ RowsTyped'
    BY <1>1, <1>22, <2>2 DEF Undo, Releases, Calls, TypeOfMedia, RowsTyped
  <2> DEFINE rest == Tail(work[w].undo)
  <2>4. GoOn(w, CASE rest # <<>> -> "undo"
                  [] rest = <<>> /\ work[w].made -> "forget"
                  [] OTHER -> "reschedule")
    BY <1>22 DEF Undo, With
  <2>5. work' = [work EXCEPT ![w] = [work[w] EXCEPT !.undo = rest]]
    BY <1>22 DEF Undo, With
  <2> HIDE DEF rest
  <2>6. [work[w] EXCEPT !.undo = rest] \in Work
    BY <2>1, <2>2, LocalsTyped DEF rest
  <2>7. work'[w].undo = rest
    BY <1>1, <2>1, <2>5 DEF WorkersTyped, Work
  <2>9. work'[w].file # NoFile
    BY <1>1, <1>22, <2>1, <2>5 DEF Undo, At, FileLabels, WorkersTyped, Work
  <2>8. WorkersTyped'
    BY <1>1, <2>4, <2>5, <2>6, <2>7, <2>9, AttemptGoesOn, LabelNames
  <2> QED BY <2>3, <2>8
<1>23. CASE RescheduleDelivery(w)
  <2>1. TypeOfMedia'
    BY <1>1, <1>23 DEF RescheduleDelivery, TypeOfMedia
  <2>2. work[w].rec \in Recordings
    BY <1>2, <1>23 DEF RescheduleDelivery, Busy, At
  <2>3. Holds(w, work[w].rec) => work[w].rec \in queued
    BY <1>1, <2>2, NoWorkerAssumption DEF Holds, RowsTyped
  <2>4. RowsTyped'
    BY <1>1, <1>23, <2>2, <2>3, NoWorkerAssumption DEF RescheduleDelivery, RowsTyped
  <2>5. WorkersTyped'
    BY <1>1, <1>2, <1>23, AttemptGoesOn, AttemptEnds, LabelNames DEF FileLabels, WorkersTyped, RescheduleDelivery, Busy, At
  <2> QED BY <2>1, <2>4, <2>5
<1>24. CASE ReleaseRow(w)
  <2>1. TypeOfMedia'
    BY <1>1, <1>24 DEF ReleaseRow, TypeOfMedia
  <2>2. work[w].rec \in Recordings
    BY <1>2, <1>24 DEF ReleaseRow, Busy, At
  <2>3. RowsTyped'
    <3>1. CASE Holds(w, work[w].rec)
      BY <1>1, <1>24, <2>2, <3>1, AttemptsAssumption DEF ReleaseRow, DropRow, RowsTyped
    <3>2. CASE ~Holds(w, work[w].rec)
      BY <1>1, <1>24, <3>2 DEF ReleaseRow, DropRow, RowsTyped
    <3> QED BY <3>1, <3>2
  <2>4. WorkersTyped'
    BY <1>1, <1>24, AttemptEnds DEF ReleaseRow
  <2> QED BY <2>1, <2>3, <2>4
<1> QED
  BY <1>3, <1>4, <1>5, <1>6, <1>7, <1>8, <1>9, <1>10, <1>11, <1>12, <1>13, <1>14, <1>15,
     <1>16, <1>17, <1>18, <1>19, <1>20, <1>21, <1>22, <1>23, <1>24 DEF WorkerStep

\* What cuts a file off from its attempt is a step of the attempt.
LEMMA CutOffFiles ==
    ASSUME Typed, TypeOfMedia', NEW w \in Workers
    PROVE  CutShort(w) \subseteq Files
<1>1. drive' \subseteq Files
  BY DEF TypeOfMedia
<1>2. At(w, "undo") => work[w].file \in Files
  BY LocalsTyped DEF Typed, LocalsAgree, Busy, At, MaybeFile, FileLabels
<1>3. CASE At(w, "upload") /\ wpc'[w] = "note"
  BY <1>1, <1>3 DEF CutShort, At
<1>4. CASE ~(At(w, "upload") /\ wpc'[w] = "note")
  <2>1. CutShort(w) \in {{}, {work[w].file}} /\ (CutShort(w) # {} => At(w, "undo"))
    BY <1>4 DEF CutShort, At
  <2> QED BY <1>2, <2>1
<1> QED BY <1>3, <1>4

LEMMA SweeperGoesOn ==
    ASSUME SweepersTyped, NEW s \in Sweepers, NEW label \in SweeperLabels,
           Turn(s, label), UNCHANGED withdrawn, due' \in [Sweepers -> SUBSET Recordings],
           \/ UNCHANGED deletion /\ (Deleting(s) <=> label \in DeletionLabels)
           \/ \E d \in Deletion \union {NoDeletion} :
                 /\ deletion' = [deletion EXCEPT ![s] = d]
                 /\ d \in Deletion <=> label \in DeletionLabels,
           label \in {"release", "clear"} => deletion'[s].left # <<>>
    PROVE  SweepersTyped'
<1>1. NoDeletion \notin Deletion
  BY NoRecordingAssumption DEF NoDeletion, Deletion
<1>2. spc' \in [Sweepers -> SweeperLabels] /\ deletion' \in [Sweepers -> Deletion \union {NoDeletion}]
  BY DEF SweepersTyped, TypeOfRetention, Turn
<1>3. \A t \in Sweepers : IF Deleting(t)' THEN deletion'[t] \in Deletion ELSE deletion'[t] = NoDeletion
  BY <1>1 DEF SweepersTyped, TypeOfRetention, Turn, Deleting
<1>4. \A t \in Sweepers : spc'[t] \in {"release", "clear"} => deletion'[t].left # <<>>
  BY DEF SweepersTyped, TypeOfRetention, Turn
<1> QED BY <1>2, <1>3, <1>4 DEF SweepersTyped, TypeOfRetention, Deleting

\* What a deletion may go on with.
LEMMA DeletionsTyped ==
    ASSUME NEW d \in Deletion
    PROVE  /\ d.rec \in Recordings /\ d.rec # NoRecording
           /\ d.file \in MaybeFile /\ d.permission \in MaybeFile /\ d.left \in Seq(Calls)
           /\ \A calls \in Seq(Calls) : [d EXCEPT !.left = calls] \in Deletion
           /\ d # NoDeletion
BY NoRecordingAssumption DEF Deletion, NoDeletion, Calls

LEMMA SweepTyped ==
    ASSUME Typed, NEW s \in Sweepers, Sweep(s)
    PROVE  Typed'
<1> USE DEF mediaVars, handleVars, remoteVars, queueVars
<1>1. TypeOfMedia /\ RowsTyped /\ WorkersTyped /\ SweepersTyped /\ RestTyped
  BY TypedParts
<1>2. WorkersTyped'
  BY <1>1, WorkersStay DEF Sweep
<1>3. Deleting(s) => deletion[s] \in Deletion
  BY <1>1 DEF SweepersTyped
<1>4. ASSUME SweepersTyped' PROVE RestTyped'
  <2>1. deletion'[s].rec \in Recordings \union {NoRecording}
    BY <1>4, DeletionsTyped DEF SweepersTyped, TypeOfRetention, NoDeletion
  <2> QED BY <1>1, <2>1 DEF Sweep, RestTyped, requestVars
<1>5. DeletionLabels \subseteq SweeperLabels /\ {"idle", "due", "handles"} \subseteq SweeperLabels
  BY LabelNames
<1>6. CASE BeginSweep(s) /\ Enqueue({r \in Recordings : Transferring(r)})
  <2>1. TypeOfMedia' /\ RowsTyped'
    BY <1>1, <1>6 DEF BeginSweep, Enqueue, TypeOfMedia, RowsTyped
  <2>2. SweepersTyped'
    BY <1>1, <1>5, <1>6, SweeperGoesOn
    DEF BeginSweep, SweepersTyped, TypeOfRetention, Deleting, DeletionLabels
  <2> QED BY <1>2, <1>4, <2>1, <2>2, TypedNext
<1>7. CASE ReadDue(s) /\ UNCHANGED queueVars
  <2>1. TypeOfMedia' /\ RowsTyped'
    BY <1>1, <1>7 DEF ReadDue, TypeOfMedia, RowsTyped
  <2>2. due' \in [Sweepers -> SUBSET Recordings]
    BY <1>1, <1>7 DEF ReadDue, SweepersTyped, TypeOfRetention
  <2>3. SweepersTyped'
    BY <1>1, <1>5, <1>7, <2>2, SweeperGoesOn
    DEF ReadDue, SweepersTyped, TypeOfRetention, Deleting, DeletionLabels
  <2> QED BY <1>2, <1>4, <2>1, <2>3, TypedNext
<1>8. CASE (\E r \in Recordings : ReadHandlesToRelease(s, r)) /\ UNCHANGED queueVars
  <2> PICK r \in Recordings : ReadHandlesToRelease(s, r)
    BY <1>8
  <2>1. TypeOfMedia' /\ RowsTyped'
    BY <1>1, <1>8 DEF ReadHandlesToRelease, TypeOfMedia, RowsTyped
  <2> DEFINE f == file[r]
             p == permission[r]
             left == (IF f # NoFile /\ p # NoFile THEN <<"revoke">> ELSE <<>>)
                         \o (IF f # NoFile THEN <<"file">> ELSE <<>>)
                         \o (IF r \in staged THEN <<"object">> ELSE <<>>)
             d == [rec |-> r, file |-> f, permission |-> p, left |-> left]
  <2>2. left \in Seq(Calls)
    BY ThreeCalls
  <2>3. f \in MaybeFile /\ p \in MaybeFile
    BY <1>1 DEF TypeOfMedia
  <2>4. Onward(s, left) /\ deletion' = [deletion EXCEPT ![s] = d] /\ UNCHANGED withdrawn
    BY DEF ReadHandlesToRelease
  <2>5. due' \in [Sweepers -> SUBSET Recordings]
    BY <1>1 DEF ReadHandlesToRelease, SweepersTyped, TypeOfRetention
  <2> HIDE DEF f, p, left
  <2>6. d \in Deletion
    BY <2>2, <2>3 DEF Deletion, Calls
  <2>7. deletion'[s].left = left
    BY <1>1, <2>4 DEF SweepersTyped, TypeOfRetention
  <2> HIDE DEF d
  <2>8. SweepersTyped'
    BY <1>1, <1>5, <2>4, <2>5, <2>6, <2>7, SweeperGoesOn DEF Onward, DeletionLabels
  <2> QED BY <1>2, <1>4, <2>1, <2>8, TypedNext
<1>9. CASE Release(s) /\ UNCHANGED queueVars
  <2>1. deletion[s] \in Deletion /\ deletion[s].left # <<>> /\ Deleting(s)
    BY <1>1, <1>3, <1>9 DEF Release, Deleting, DeletionLabels, SweepersTyped
  <2>2. Head(deletion[s].left) \in Calls
    BY <2>1, FirstCall, DeletionsTyped
  <2>3. TypeOfMedia' /\ RowsTyped'
    BY <1>1, <1>9, <2>2 DEF Release, Releases, Calls, TypeOfMedia, RowsTyped
  <2>4. SweepersTyped'
    BY <1>1, <1>5, <1>9, <2>1, SweeperGoesOn
    DEF Release, DeletionLabels, SweepersTyped, TypeOfRetention
  <2> QED BY <1>2, <1>4, <2>3, <2>4, TypedNext
<1>10. CASE ReleaseRefused(s) /\ UNCHANGED queueVars
  <2>1. TypeOfMedia' /\ RowsTyped'
    BY <1>1, <1>10 DEF ReleaseRefused, TypeOfMedia, RowsTyped
  <2>2. SweepersTyped'
    BY <1>1, <1>5, <1>10, SweeperGoesOn
    DEF ReleaseRefused, DeletionLabels, Deleting, SweepersTyped, TypeOfRetention
  <2> QED BY <1>2, <1>4, <2>1, <2>2, TypedNext
<1>11. CASE ClearHandle(s) /\ UNCHANGED queueVars
  <2>1. deletion[s] \in Deletion /\ deletion[s].left # <<>> /\ Deleting(s)
    BY <1>1, <1>3, <1>11 DEF ClearHandle, Deleting, DeletionLabels, SweepersTyped
  <2> DEFINE rest == Tail(deletion[s].left)
  <2>2. Head(deletion[s].left) \in Calls /\ rest \in Seq(Calls)
    BY <2>1, FirstCall, DeletionsTyped
  <2>3. TypeOfMedia' /\ RowsTyped'
    BY <1>1, <1>11, <2>2
    DEF ClearHandle, ClearHandleOf, SetDrivePermission, SetDriveFile, Calls, MaybeFile,
        TypeOfMedia, RowsTyped
  <2>4. /\ deletion' = [deletion EXCEPT ![s] = [deletion[s] EXCEPT !.left = rest]]
        /\ Onward(s, rest) /\ UNCHANGED <<withdrawn, due>>
    BY <1>11 DEF ClearHandle
  <2> HIDE DEF rest
  <2>5. [deletion[s] EXCEPT !.left = rest] \in Deletion
    BY <2>1, <2>2, DeletionsTyped
  <2>6. deletion'[s].left = rest
    BY <1>1, <2>1, <2>4 DEF SweepersTyped, TypeOfRetention, Deletion
  <2>7. SweepersTyped'
    BY <1>1, <1>5, <2>4, <2>5, <2>6, SweeperGoesOn
    DEF Onward, DeletionLabels, SweepersTyped, TypeOfRetention
  <2> QED BY <1>2, <1>4, <2>3, <2>7, TypedNext
<1>12. ASSUME EndDeletion(s) PROVE SweepersTyped'
  <2>1. NoDeletion \notin Deletion
    BY DeletionsTyped
  <2> QED BY <1>1, <1>5, <1>12, <2>1, SweeperGoesOn
      DEF EndDeletion, DeletionLabels, SweepersTyped, TypeOfRetention
<1>13. CASE Tombstone(s) /\ UNCHANGED queueVars
  <2>1. EndDeletion(s)
    BY <1>13 DEF Tombstone
  <2>2. TypeOfMedia' /\ RowsTyped'
    BY <1>1, <1>13, <2>1
    DEF Tombstone, EndDeletion, MaybeFile, RowStates, TypeOfMedia, RowsTyped
  <2> QED BY <1>2, <1>4, <1>12, <2>1, <2>2, TypedNext
<1>14. CASE FailCleanup(s) /\ UNCHANGED queueVars
  <2>1. EndDeletion(s)
    BY <1>14 DEF FailCleanup
  <2>2. TypeOfMedia' /\ RowsTyped'
    BY <1>1, <1>14, <2>1
    DEF FailCleanup, EndDeletion, Transition, Coalesce, RowStates, Errors, Failures,
        TypeOfMedia, RowsTyped
  <2> QED BY <1>2, <1>4, <1>12, <2>1, <2>2, TypedNext
<1> QED
  BY <1>6, <1>7, <1>8, <1>9, <1>10, <1>11, <1>13, <1>14 DEF Sweep, DeletionStep

LEMMA DeliverTyped ==
    ASSUME Typed, NEW w \in Workers, Deliver(w)
    PROVE  Typed'
<1>1. TypeOfMedia /\ RowsTyped /\ WorkersTyped /\ SweepersTyped /\ RestTyped
  BY TypedParts
<1>2. TypeOfMedia' /\ RowsTyped' /\ WorkersTyped'
  BY WorkerStepTyped DEF Deliver
<1>3. SweepersTyped'
  BY <1>1 DEF Deliver, SweepersTyped, TypeOfRetention, retentionVars, Deleting
<1>4. RestTyped'
  BY <1>1, <1>2, CutOffFiles DEF Deliver, RestTyped, requestVars
<1> QED BY <1>2, <1>3, <1>4, TypedNext

\* Requests, the operator and the clock.
RowStep(r) ==
    \/ EgressWrites(r) \/ Completes(r) \/ QueuesDelivery(r)
    \/ WithdrawConsent(r) \/ WithdrawalMovesRow(r)
    \/ \E why \in Endings : EndsOtherwise(r, why)
    \/ OperatorRetries(r) \/ TimePasses(r) \/ ClaimIsOutlived(r)

\* They leave the attempts and the deletions alone, and the handles, and what
\* the provider has but for the object.
LEMMA RowStepFrame ==
    ASSUME NEW r \in Recordings, RowStep(r)
    PROVE  /\ UNCHANGED <<handleVars, drive, owner, granted, workerVars, spc, due, deletion>>
           /\ UNCHANGED <<strays, recalled>>
BY DEF RowStep, EgressWrites, Completes, QueuesDelivery, WithdrawConsent, WithdrawalMovesRow,
       EndsOtherwise, OperatorRetries, TimePasses, ClaimIsOutlived, OnlyTheRow, historyVars,
       mediaVars, remoteVars, retentionVars

LEMMA RowStepTyped ==
    ASSUME Typed, NEW r \in Recordings, RowStep(r)
    PROVE  Typed'
<1>1. TypeOfMedia /\ RowsTyped /\ WorkersTyped /\ SweepersTyped /\ RestTyped
  BY TypedParts
<1> USE DEF mediaVars, handleVars, remoteVars, queueVars, requestVars, historyVars, retentionVars
<1>2. UNCHANGED <<staged, file, permission, drive, owner, granted, wpc, work, spc, due, deletion>>
  BY RowStepFrame DEF workerVars
<1>3. UNCHANGED <<strays, recalled>>
  BY RowStepFrame
<1>4. WorkersTyped'
  BY <1>1, <1>2, WorkersStay DEF workerVars
<1>5. state' \in [Recordings -> RowStates] /\ error' \in [Recordings -> Errors]
  <2>1. \A why \in Errors, next \in RowStates : Transition(r, next, why) =>
            state' \in [Recordings -> RowStates] /\ error' \in [Recordings -> Errors]
    BY <1>1 DEF Transition, Coalesce, TypeOfMedia
  <2>2. {"transferring", "failed"} \subseteq RowStates
    BY DEF RowStates, ActiveStates
  <2>3. Endings \subseteq Errors /\ {"none", "consent_withdrawn"} \subseteq Errors
    BY EndingsAssumption DEF Errors, Failures
  <2> QED BY <1>1, <2>1, <2>2, <2>3
      DEF RowStep, EgressWrites, Completes, QueuesDelivery, WithdrawConsent, WithdrawalMovesRow,
          EndsOtherwise, OperatorRetries, TimePasses, ClaimIsOutlived, OnlyTheRow, TypeOfMedia
<1>6. bucket' \subseteq Recordings
  BY <1>1
  DEF RowStep, EgressWrites, Completes, QueuesDelivery, WithdrawConsent, WithdrawalMovesRow,
      EndsOtherwise, OperatorRetries, TimePasses, ClaimIsOutlived, OnlyTheRow, TypeOfMedia
<1>7. TypeOfMedia'
  BY <1>1, <1>2, <1>5, <1>6 DEF TypeOfMedia
<1>8. RowsTyped'
  <2>1. ClaimExpires(r) => r \in queued
    BY <1>1 DEF ClaimExpires, RowsTyped
  <2> QED BY <1>1, <2>1
      DEF RowStep, EgressWrites, Completes, QueuesDelivery, WithdrawConsent, WithdrawalMovesRow,
          EndsOtherwise, OperatorRetries, TimePasses, ClaimIsOutlived, ClaimExpires, BackoffPasses,
          Enqueue, OnlyTheRow, RowsTyped
<1>9. SweepersTyped'
  <2>1. withdrawn' \subseteq Recordings
    BY <1>1
    DEF RowStep, EgressWrites, Completes, QueuesDelivery, WithdrawConsent, WithdrawalMovesRow,
        EndsOtherwise, OperatorRetries, TimePasses, ClaimIsOutlived, OnlyTheRow, SweepersTyped,
        TypeOfRetention
  <2> QED BY <1>1, <1>2, <2>1 DEF SweepersTyped, TypeOfRetention, Deleting
<1>10. RestTyped'
  BY <1>1, <1>3
  DEF RowStep, EgressWrites, Completes, QueuesDelivery, WithdrawConsent, WithdrawalMovesRow,
      EndsOtherwise, OperatorRetries, TimePasses, ClaimIsOutlived, OnlyTheRow, RestTyped
<1> QED BY <1>4, <1>7, <1>8, <1>9, <1>10, TypedNext

LEMMA CrashTyped ==
    ASSUME Typed, Crash
    PROVE  Typed'
<1>1. TypeOfMedia /\ RowsTyped /\ WorkersTyped /\ SweepersTyped /\ RestTyped
  BY TypedParts
<1>2. TypeOfMedia' /\ RowsTyped'
  BY <1>1 DEF Crash, TypeOfMedia, RowsTyped, mediaVars, handleVars, remoteVars, queueVars
<1>3. UNCHANGED <<withdrawn, recalled>> /\ faults' \in Nat
  BY <1>1 DEF Crash, RestTyped
<1>4. CASE \E w \in Workers : WorkerDies(w)
  <2> PICK w \in Workers : WorkerDies(w)
    BY <1>4
  <2>1. WorkersTyped'
    BY <1>1, AttemptEnds DEF WorkerDies
  <2>2. SweepersTyped'
    BY <1>1, <1>3 DEF WorkerDies, SweepersTyped, TypeOfRetention, Deleting
  <2>3. Knows(w) \subseteq Files
    BY <1>1, LocalsTyped DEF Knows, WorkersTyped, Busy, At, MaybeFile
  <2>4. RestTyped'
    BY <1>1, <1>3, <2>3 DEF WorkerDies, RestTyped, requestVars
  <2> QED BY <1>2, <2>1, <2>2, <2>4, TypedNext
<1>5. CASE \E s \in Sweepers : SweeperDies(s)
  <2> PICK s \in Sweepers : SweeperDies(s)
    BY <1>5
  <2>1. WorkersTyped'
    BY <1>1, WorkersStay DEF SweeperDies
  <2>2. SweepersTyped'
    BY <1>1, <1>3
    DEF SweeperDies, SweepersTyped, TypeOfRetention, SweeperLabels, Deleting, DeletionLabels
  <2>3. RestTyped'
    BY <1>1, <1>3 DEF SweeperDies, RestTyped, requestVars
  <2> QED BY <1>2, <2>1, <2>2, <2>3, TypedNext
<1>6. CASE \E r \in Recordings : WithdrawalDies(r)
  <2> PICK r \in Recordings : WithdrawalDies(r)
    BY <1>6
  <2>1. WorkersTyped'
    BY <1>1, WorkersStay DEF WithdrawalDies
  <2>2. SweepersTyped'
    BY <1>1, <1>3 DEF WithdrawalDies, SweepersTyped, TypeOfRetention, Deleting
  <2>3. RestTyped'
    BY <1>1, <1>3 DEF WithdrawalDies, RestTyped
  <2> QED BY <1>2, <2>1, <2>2, <2>3, TypedNext
<1> QED BY <1>4, <1>5, <1>6 DEF Crash

LEMMA NextSplits ==
    ASSUME Next
    PROVE  \/ \E w \in Workers : Deliver(w)
           \/ \E s \in Sweepers : Sweep(s)
           \/ \E r \in Recordings : RowStep(r)
           \/ Crash
BY DEF Next, RowStep

LEMMA TypedStep == Typed /\ [Next]_vars => Typed'
<1> SUFFICES ASSUME Typed, [Next]_vars PROVE Typed'
  OBVIOUS
<1>1. CASE Next
  BY <1>1, NextSplits, DeliverTyped, SweepTyped, RowStepTyped, CrashTyped
<1>2. CASE UNCHANGED vars
  <2>1. TypeOfMedia /\ RowsTyped /\ WorkersTyped /\ SweepersTyped /\ RestTyped
    BY TypedParts
  <2>2. /\ UNCHANGED mediaVars /\ UNCHANGED queueVars /\ UNCHANGED workerVars
        /\ UNCHANGED retentionVars /\ UNCHANGED requestVars /\ UNCHANGED historyVars
    BY <1>2 DEF vars
  <2>3. TypeOfMedia' /\ RowsTyped' /\ RestTyped'
    BY <2>1, <2>2 DEF TypeOfMedia, RowsTyped, RestTyped, mediaVars, handleVars, remoteVars,
                      queueVars, requestVars, historyVars
  <2>4. WorkersTyped' /\ SweepersTyped'
    BY <2>1, <2>2, WorkersStay DEF SweepersTyped, TypeOfRetention, Deleting, retentionVars
  <2> QED BY <2>3, <2>4, TypedNext
<1> QED BY <1>1, <1>2

(***************************************************************************)
(* What an attempt may touch                                               *)
(***************************************************************************)

\* An attempt goes on alone.
LEMMA OthersGoOn ==
    ASSUME NEW w \in Workers, WorkerStep(w), NEW v \in Workers \ {w}, Typed
    PROVE  wpc'[v] = wpc[v] /\ work'[v] = work[v]
<1>1. wpc \in [Workers -> WorkerLabels] /\ work \in [Workers -> Work \union {NoWork}]
  BY DEF Typed, TypeOK, TypeOfQueue
<1>2. \E label : GoOn(w, label)
  BY DEF WorkerStep, ClaimDelivery, ReopenIfAsked, ReadRecipient, StageObject, ReadHandles,
         FindExistingFile, Upload, FindNoFile, CallFails, StoreFile, KeepPermission, Share,
         StorePermission, FinishDelivery, NoteFailure, ReadScope, Undo, UndoRefused, Forget,
         RescheduleDelivery, FailRecording, ReleaseRow, With, Done
<1>3. (\E locals : work' = [work EXCEPT ![w] = locals]) \/ UNCHANGED work
  BY DEF WorkerStep, ClaimDelivery, ReopenIfAsked, ReadRecipient, StageObject, ReadHandles,
         FindExistingFile, Upload, FindNoFile, CallFails, StoreFile, KeepPermission, Share,
         StorePermission, FinishDelivery, NoteFailure, ReadScope, Undo, UndoRefused, Forget,
         RescheduleDelivery, FailRecording, ReleaseRow, With, Done
<1> QED BY <1>1, <1>2, <1>3 DEF GoOn

\* The locals of an attempt, step by step.
LEMMA LocalsGoOn ==
    ASSUME NEW w \in Workers, WorkerStep(w), Typed, Typed', Busy(w)'
    PROVE  \/ \E r \in Recordings :
                /\ ClaimDelivery(w, r)
                /\ work'[w].rec = r /\ work'[w].file = NoFile /\ work'[w].permission = NoFile
           \/ /\ Busy(w) /\ work'[w].rec = work[w].rec
              /\ \/ /\ ReadHandles(w)
                    /\ work'[w].file = file[work[w].rec]
                    /\ work'[w].permission = permission[work[w].rec]
                 \/ /\ work'[w].permission = work[w].permission
                    /\ \/ work'[w].file = work[w].file
                       \/ \E f \in Files :
                              /\ FindExistingFile(w, f) \/ Upload(w, f)
                              /\ work'[w].file = f
                 \/ /\ Share(w)
                    /\ work'[w].file = work[w].file /\ work'[w].permission = work[w].file
<1>1. wpc \in [Workers -> WorkerLabels] /\ work \in [Workers -> Work \union {NoWork}]
  BY DEF Typed, TypeOK, TypeOfQueue
<1>2. Busy(w) => work[w] \in Work
  BY DEF Typed, LocalsAgree
<1>3. CASE \E r \in Recordings : ClaimDelivery(w, r)
  <2> PICK r \in Recordings : ClaimDelivery(w, r)
    BY <1>3
  <2> DEFINE locals == [rec |-> r, seen |-> state[r], file |-> NoFile, made |-> FALSE,
                        permission |-> NoFile, gave |-> FALSE, undo |-> <<>>]
  <2>1. work' = [work EXCEPT ![w] = locals]
    BY DEF ClaimDelivery, With
  <2>2. work'[w] = locals
    BY <1>1, <2>1
  <2>3. work'[w].rec = r /\ work'[w].file = NoFile /\ work'[w].permission = NoFile
    BY <2>2
  <2> QED BY <2>3
<1>4. CASE ReadHandles(w)
  <2>1. Busy(w)
    BY <1>4 DEF ReadHandles, Busy, At
  <2> QED BY <1>1, <1>2, <1>4, <2>1 DEF ReadHandles, With, Work
<1>5. CASE \E f \in Files : FindExistingFile(w, f) \/ Upload(w, f)
  <2> PICK f \in Files : FindExistingFile(w, f) \/ Upload(w, f)
    BY <1>5
  <2>1. Busy(w)
    BY DEF FindExistingFile, Upload, Busy, At
  <2>2. UNCHANGED work \/ work' = [work EXCEPT ![w] = [work[w] EXCEPT !.file = f]]
    BY DEF FindExistingFile, Upload, With
  <2> QED BY <1>1, <1>2, <2>1, <2>2 DEF Work
<1>6. CASE Share(w)
  <2>1. Busy(w)
    BY <1>6 DEF Share, Busy, At
  <2>2. \/ UNCHANGED work
        \/ work' = [work EXCEPT ![w] = [work[w] EXCEPT !.permission = work[w].file, !.gave = TRUE]]
    BY <1>6 DEF Share, With
  <2> QED BY <1>1, <1>2, <1>6, <2>1, <2>2 DEF Work
<1>7. CASE ReadScope(w)
  <2>1. Busy(w)
    BY <1>7 DEF ReadScope, Busy, At
  <2>2. \E undo, mine : work' = [work EXCEPT ![w] = [work[w] EXCEPT !.undo = undo, !.made = mine]]
    BY <1>7 DEF ReadScope, With
  <2> QED BY <1>1, <1>2, <2>1, <2>2 DEF Work
<1>8. CASE Undo(w)
  <2>1. Busy(w)
    BY <1>8 DEF Undo, Busy, At
  <2>2. work' = [work EXCEPT ![w] = [work[w] EXCEPT !.undo = Tail(work[w].undo)]]
    BY <1>8 DEF Undo, With
  <2> QED BY <1>1, <1>2, <2>1, <2>2 DEF Work
<1>9. CASE \/ ReopenIfAsked(w) \/ ReadRecipient(w) \/ StageObject(w) \/ FindNoFile(w)
           \/ CallFails(w) \/ StoreFile(w) \/ KeepPermission(w) \/ StorePermission(w)
           \/ FinishDelivery(w) \/ NoteFailure(w) \/ UndoRefused(w) \/ Forget(w) \/ FailRecording(w)
  <2>1. Busy(w) /\ UNCHANGED work
    BY <1>9 DEF ReopenIfAsked, ReadRecipient, StageObject, FindNoFile, CallFails, StoreFile,
                KeepPermission, StorePermission, FinishDelivery, NoteFailure, UndoRefused, Forget,
                FailRecording, Busy, At
  <2> QED BY <2>1
<1>10. CASE RescheduleDelivery(w) \/ ReleaseRow(w)
  <2>1. Busy(w) /\ (UNCHANGED work \/ Done(w))
    BY <1>10 DEF RescheduleDelivery, ReleaseRow, Busy, At
  <2>2. ~Done(w)
    BY <1>1 DEF Done, With, GoOn, Busy, At
  <2> QED BY <2>1, <2>2
<1> QED
  BY <1>3, <1>4, <1>5, <1>6, <1>7, <1>8, <1>9, <1>10 DEF WorkerStep

\* The handles of the rows, step by step.
LEMMA HandlesGoOn ==
    ASSUME NEW w \in Workers, WorkerStep(w)
    PROVE  \/ UNCHANGED <<file, permission>>
           \/ /\ StoreFile(w) /\ Busy(w) /\ TakesFile(work[w].rec)
              /\ file' = [file EXCEPT ![work[w].rec] = work[w].file] /\ UNCHANGED permission
           \/ /\ StorePermission(w) /\ Busy(w) /\ Transferring(work[w].rec)
              /\ permission[work[w].rec] = NoFile
              /\ permission' = [permission EXCEPT ![work[w].rec] = work[w].permission]
              /\ UNCHANGED file
           \/ /\ Forget(w) /\ Busy(w) /\ file[work[w].rec] = work[w].file
              /\ file' = [file EXCEPT ![work[w].rec] = NoFile]
              /\ permission' = [permission EXCEPT ![work[w].rec] = NoFile]
<1> USE DEF mediaVars, handleVars
<1>1. CASE StoreFile(w)
  BY <1>1 DEF StoreFile, SetDriveFile, Busy, At
<1>2. CASE StorePermission(w)
  BY <1>2 DEF StorePermission, SetDrivePermission, Busy, At
<1>3. CASE Forget(w)
  BY <1>3 DEF Forget, ForgetDriveFile, Busy, At
<1>4. CASE ~(StoreFile(w) \/ StorePermission(w) \/ Forget(w))
  BY <1>4
  DEF WorkerStep, ClaimDelivery, ReopenIfAsked, ReadRecipient, StageObject, SetGcsObject,
      ReadHandles, FindExistingFile, Upload, FindNoFile, CallFails, KeepPermission, Share,
      FinishDelivery, NoteFailure, ReadScope, Undo, UndoRefused, RescheduleDelivery,
      FailRecording, ReleaseRow
<1> QED BY <1>1, <1>2, <1>3, <1>4

\* What the provider has, step by step.
LEMMA RemoteGoesOn ==
    ASSUME Typed, NEW w \in Workers, WorkerStep(w)
    PROVE  \/ UNCHANGED remoteVars
           \/ /\ \E f \in Files : Upload(w, f) /\ Unmade(f) /\ MakeFile(work[w].rec, f)
              /\ Busy(w) /\ At(w, "upload")
           \/ /\ Share(w) /\ Busy(w) /\ work[w].file \in drive
              /\ granted' = granted \union {work[w].file} /\ UNCHANGED <<bucket, drive, owner>>
           \/ /\ Undo(w) /\ Busy(w) /\ At(w, "undo") /\ Head(work[w].undo) \in Calls
              /\ Releases(work[w].rec, Head(work[w].undo), work[w].file, work[w].permission)
<1> USE DEF mediaVars, remoteVars
<1>1. CASE \E f \in Files : Upload(w, f)
  BY <1>1 DEF Upload, Busy, At
<1>2. CASE Share(w)
  BY <1>2 DEF Share, Busy, At
<1>3. CASE Undo(w)
  <2>1. Busy(w) /\ At(w, "undo")
    BY <1>3 DEF Undo, Busy, At
  <2>2. work[w].undo \in Seq(Calls) /\ work[w].undo # <<>>
    BY <2>1, LocalsTyped DEF Typed, LocalsAgree
  <2> QED BY <1>3, <2>1, <2>2, FirstCall DEF Undo
<1>4. CASE ~((\E f \in Files : Upload(w, f)) \/ Share(w) \/ Undo(w))
  BY <1>4
  DEF WorkerStep, ClaimDelivery, ReopenIfAsked, ReadRecipient, StageObject, ReadHandles,
      FindExistingFile, FindNoFile, CallFails, StoreFile, KeepPermission, StorePermission,
      FinishDelivery, NoteFailure, ReadScope, UndoRefused, Forget, RescheduleDelivery,
      FailRecording, ReleaseRow
<1> QED BY <1>1, <1>2, <1>3, <1>4

\* The handles and the media as a sweep may change them: both only go away, and
\* only of a recording whose deletion has begun.
LEMMA SweepTakesAway ==
    ASSUME Typed, NEW s \in Sweepers, Sweep(s), NEW d, d = deletion[s]
    PROVE  /\ \A r \in Recordings : file'[r] # file[r] =>
                  file'[r] = NoFile /\ Deleting(s) /\ r = d.rec
           /\ \A r \in Recordings : permission'[r] # permission[r] =>
                  permission'[r] = NoFile /\ Deleting(s) /\ r = d.rec
           /\ UNCHANGED <<owner, workerVars>>
           /\ \/ UNCHANGED drive
              \/ drive' = drive \ {d.file} /\ Deleting(s) /\ d.file # NoFile
           /\ \/ UNCHANGED granted
              \/ granted' = granted \ {d.file} /\ Deleting(s) /\ d.file # NoFile
<1> USE DEF mediaVars, handleVars, remoteVars
<1>1. UNCHANGED workerVars
  BY DEF Sweep
<1>2. file \in [Recordings -> MaybeFile] /\ permission \in [Recordings -> MaybeFile]
  BY DEF Typed, TypeOK, TypeOfMedia
<1>3. drive \subseteq Files /\ granted \subseteq drive
  BY DEF Typed, TypeOK, TypeOfMedia
<1>4. Deleting(s) => d \in Deletion
  BY DEF Typed, LocalsAgree
<1>5. CASE BeginSweep(s) \/ ReadDue(s) \/ (\E r \in Recordings : ReadHandlesToRelease(s, r))
           \/ ReleaseRefused(s) \/ FailCleanup(s)
  BY <1>1, <1>5
  DEF BeginSweep, ReadDue, ReadHandlesToRelease, ReleaseRefused, FailCleanup, EndDeletion
<1>6. CASE Release(s)
  <2>1. Deleting(s)
    BY <1>6 DEF Release, Deleting, DeletionLabels
  <2>2. Releases(d.rec, Head(d.left), d.file, d.permission) /\ UNCHANGED <<file, permission>>
    BY <1>6 DEF Release
  <2>3. d.left \in Seq(Calls) /\ d.left # <<>>
    BY <1>4, <1>6, <2>1, DeletionsTyped DEF Release, Typed, LocalsAgree
  <2>4. Head(d.left) \in Calls
    BY <2>3, FirstCall
  <2>5. NoFile \notin drive
    BY <1>3, NoFileAssumption
  <2>6. CASE Head(d.left) = "file"
    <3>1. drive' = drive \ {d.file} /\ granted' = granted \ {d.file} /\ UNCHANGED owner
      BY <2>2, <2>6 DEF Releases
    <3>2. CASE d.file # NoFile
      BY <1>1, <2>1, <2>2, <3>1, <3>2
    <3>3. CASE d.file = NoFile
      <4>1. UNCHANGED drive /\ UNCHANGED granted
        BY <1>3, <2>5, <3>1, <3>3
      <4> QED BY <1>1, <2>2, <3>1, <4>1
    <3> QED BY <3>2, <3>3
  <2>7. CASE Head(d.left) # "file"
    <3>1. CASE Head(d.left) = "object"
      BY <1>1, <2>1, <2>2, <3>1 DEF Releases
    <3>2. CASE Head(d.left) = "revoke"
      <4>1. UNCHANGED <<drive, owner>> /\ (UNCHANGED granted \/ granted' = granted \ {d.file})
        BY <2>2, <3>2 DEF Releases
      <4>2. granted \ {NoFile} = granted
        BY <1>3, <2>5
      <4> QED BY <1>1, <2>1, <2>2, <4>1, <4>2
    <3> QED BY <2>4, <2>7, <3>1, <3>2 DEF Calls
  <2> QED BY <2>6, <2>7
<1>7. CASE ClearHandle(s)
  <2>1. Deleting(s) /\ d \in Deletion /\ d.left # <<>>
    BY <1>4, <1>7 DEF ClearHandle, Deleting, DeletionLabels, Typed, LocalsAgree
  <2>2. Head(d.left) \in Calls
    BY <2>1, FirstCall, DeletionsTyped
  <2> QED BY <1>1, <1>2, <1>7, <2>1, <2>2
      DEF ClearHandle, ClearHandleOf, SetDrivePermission, SetDriveFile, Calls
<1>8. CASE Tombstone(s)
  <2>1. Deleting(s)
    BY <1>8 DEF Tombstone, Deleting, DeletionLabels
  <2> QED BY <1>1, <1>2, <1>8, <2>1 DEF Tombstone, EndDeletion
<1> QED BY <1>5, <1>6, <1>7, <1>8 DEF Sweep, DeletionStep

(***************************************************************************)
(* A file is that of one recording for good                                *)
(***************************************************************************)

LEMMA OwnedInit == Init => FilesAreOwned
BY DEF Init, InitMedia, InitQueue, InitRetention, FilesAreOwned, Busy, At, Deleting, DeletionLabels

LEMMA OwnedWhenDelivering ==
    ASSUME Typed, Typed', FilesAreOwned, NEW w \in Workers, Deliver(w)
    PROVE  FilesAreOwned'
<1>1. WorkerStep(w) /\ UNCHANGED <<spc, due, deletion>>
  BY DEF Deliver, retentionVars
<1>2. Busy(w) => work[w] \in Work /\ work[w].rec \in Recordings /\ work[w].rec # NoRecording
  BY LocalsTyped DEF Typed, LocalsAgree
<1>3. /\ file \in [Recordings -> MaybeFile] /\ permission \in [Recordings -> MaybeFile]
      /\ owner \in [Files -> Recordings \union {NoRecording}]
  BY DEF Typed, TypeOK, TypeOfMedia
<1>4. /\ \A f \in Files : owner[f] # NoRecording => owner'[f] = owner[f]
      /\ \/ drive' \subseteq drive
         \/ \E f \in Files : drive' = drive \union {f} /\ owner'[f] \in Recordings
  <2>1. CASE UNCHANGED remoteVars \/ Share(w)
    BY <2>1 DEF remoteVars, Share
  <2>2. CASE \E f \in Files : Upload(w, f) /\ Unmade(f) /\ MakeFile(work[w].rec, f) /\ Busy(w)
    BY <1>2, <1>3, <2>2 DEF MakeFile, Unmade
  <2>3. CASE /\ Head(work[w].undo) \in Calls
             /\ Releases(work[w].rec, Head(work[w].undo), work[w].file, work[w].permission)
    BY <2>3 DEF Releases, Calls
  <2> QED BY <1>1, <2>1, <2>2, <2>3, RemoteGoesOn
<1>5. \A f, r : owner[f] = r /\ r \in Recordings /\ f \in MaybeFile /\ f # NoFile => owner'[f] = r
  BY <1>4, NoRecordingAssumption DEF MaybeFile
<1>6. \A f \in drive' : owner'[f] \in Recordings
  <2>1. \A f \in drive : f \in MaybeFile /\ f # NoFile
    BY NoFileAssumption DEF Typed, TypeOK, TypeOfMedia, MaybeFile
  <2>2. \A f \in drive : owner'[f] \in Recordings
    BY <1>5, <2>1 DEF FilesAreOwned
  <2> QED BY <1>4, <2>2
<1>7. \A r \in Recordings : /\ file'[r] # NoFile => owner'[file'[r]] = r
                            /\ permission'[r] # NoFile => owner'[permission'[r]] = r
  <2>1. \A r \in Recordings :
            /\ file'[r] \in {file[r], NoFile} \/ (Busy(w) /\ r = work[w].rec /\ file'[r] = work[w].file)
            /\ \/ permission'[r] \in {permission[r], NoFile}
               \/ Busy(w) /\ r = work[w].rec /\ permission'[r] = work[w].permission
    BY <1>1, <1>3, HandlesGoOn
  <2>2. Busy(w) => work[w].file \in MaybeFile /\ work[w].permission \in MaybeFile
    BY <1>2, LocalsTyped
  <2> QED BY <1>3, <1>5, <2>1, <2>2 DEF FilesAreOwned
<1>8. \A v \in Workers : Busy(v)' =>
          /\ work'[v].file # NoFile => owner'[work'[v].file] = work'[v].rec
          /\ work'[v].permission # NoFile => owner'[work'[v].permission] = work'[v].rec
  <2>1. ASSUME NEW v \in Workers \ {w}, Busy(v)'
        PROVE  /\ work'[v].file # NoFile => owner'[work'[v].file] = work'[v].rec
               /\ work'[v].permission # NoFile => owner'[work'[v].permission] = work'[v].rec
    <3>1. wpc'[v] = wpc[v] /\ work'[v] = work[v]
      BY <1>1, OthersGoOn
    <3>2. Busy(v)
      BY <2>1, <3>1 DEF Busy, At
    <3>3. work[v] \in Work
      BY <3>2 DEF Typed, LocalsAgree
    <3> DEFINE r == work[v].rec
               f == work[v].file
               p == work[v].permission
    <3>4. r \in Recordings /\ f \in MaybeFile /\ p \in MaybeFile
      BY <3>3, LocalsTyped
    <3>5. (f # NoFile => owner[f] = r) /\ (p # NoFile => owner[p] = r)
      BY <3>2 DEF FilesAreOwned
    <3>6. work'[v].file = f /\ work'[v].permission = p /\ work'[v].rec = r
      BY <3>1
    <3> HIDE DEF r, f, p
    <3>7. (f # NoFile => owner'[f] = r) /\ (p # NoFile => owner'[p] = r)
      BY <1>5, <3>4, <3>5
    <3> QED BY <3>6, <3>7
  <2>2. ASSUME Busy(w)'
        PROVE  /\ work'[w].file # NoFile => owner'[work'[w].file] = work'[w].rec
               /\ work'[w].permission # NoFile => owner'[work'[w].permission] = work'[w].rec
    <3>1. \A f \in Files : FindExistingFile(w, f) => owner[f] = work[w].rec
      BY DEF FindExistingFile, FilesOf
    <3>2. \A f \in Files : Upload(w, f) => owner'[f] = work[w].rec
      BY <1>3 DEF Upload, MakeFile
    <3>3. Busy(w) => work[w].file \in MaybeFile /\ work[w].permission \in MaybeFile
      BY <1>2, LocalsTyped
    <3>4. Busy(w) => /\ file[work[w].rec] \in MaybeFile /\ permission[work[w].rec] \in MaybeFile
      BY <1>2, <1>3
    <3>5. Busy(w) => /\ work[w].file # NoFile => owner'[work[w].file] = work[w].rec
                     /\ work[w].permission # NoFile => owner'[work[w].permission] = work[w].rec
      BY <1>2, <1>5, <3>3 DEF FilesAreOwned
    <3>6. Busy(w) => LET r == work[w].rec
                     IN  /\ file[r] # NoFile => owner'[file[r]] = r
                         /\ permission[r] # NoFile => owner'[permission[r]] = r
      BY <1>2, <1>5, <3>4 DEF FilesAreOwned
    <3>7. \A f \in Files : Busy(w) /\ owner[f] = work[w].rec => owner'[f] = work[w].rec
      BY <1>2, <1>4
    <3> QED BY <1>1, <2>2, <3>1, <3>2, <3>5, <3>6, <3>7, LocalsGoOn
  <2> QED BY <2>1, <2>2
<1>9. \A s \in Sweepers : Deleting(s)' =>
          /\ deletion'[s].file # NoFile => owner'[deletion'[s].file] = deletion'[s].rec
          /\ deletion'[s].permission # NoFile => owner'[deletion'[s].permission] = deletion'[s].rec
  <2>1. \A s \in Sweepers : Deleting(s) => deletion[s] \in Deletion
    BY DEF Typed, LocalsAgree
  <2>2. \A s \in Sweepers : Deleting(s)' => Deleting(s) /\ deletion'[s] = deletion[s]
    BY <1>1 DEF Deleting
  <2> QED BY <1>5, <2>1, <2>2, DeletionsTyped DEF FilesAreOwned
<1> QED BY <1>6, <1>7, <1>8, <1>9 DEF FilesAreOwned

LEMMA OwnedWhenSweeping ==
    ASSUME Typed, Typed', FilesAreOwned, NEW s \in Sweepers, Sweep(s)
    PROVE  FilesAreOwned'
<1>1. UNCHANGED owner /\ UNCHANGED workerVars /\ drive' \subseteq drive
  BY SweepTakesAway
<1>2. \A r \in Recordings : file'[r] \in {file[r], NoFile} /\ permission'[r] \in {permission[r], NoFile}
  BY SweepTakesAway
<1>3. \A t \in Sweepers : Deleting(t)' =>
          \/ /\ Deleting(t) /\ deletion'[t].rec = deletion[t].rec
             /\ deletion'[t].file = deletion[t].file
             /\ deletion'[t].permission = deletion[t].permission
          \/ \E r \in Recordings : /\ deletion'[t].rec = r /\ deletion'[t].file = file[r]
                                   /\ deletion'[t].permission = permission[r]
  <2> SUFFICES ASSUME NEW t \in Sweepers, Deleting(t)'
               PROVE  \/ /\ Deleting(t) /\ deletion'[t].rec = deletion[t].rec
                         /\ deletion'[t].file = deletion[t].file
                         /\ deletion'[t].permission = deletion[t].permission
                      \/ \E r \in Recordings : /\ deletion'[t].rec = r /\ deletion'[t].file = file[r]
                                               /\ deletion'[t].permission = permission[r]
    OBVIOUS
  <2>1. /\ spc \in [Sweepers -> SweeperLabels] /\ deletion \in [Sweepers -> Deletion \union {NoDeletion}]
        /\ Deleting(t) => deletion[t] \in Deletion
    BY DEF Typed, TypeOK, TypeOfRetention, LocalsAgree
  <2>2. CASE t # s
    BY <2>1, <2>2
    DEF Sweep, DeletionStep, BeginSweep, ReadDue, ReadHandlesToRelease, Onward, Release,
        ReleaseRefused, ClearHandle, Tombstone, FailCleanup, EndDeletion, Turn, Deleting
  <2>3. CASE t = s /\ (BeginSweep(s) \/ ReadDue(s) \/ Tombstone(s) \/ FailCleanup(s))
    BY <2>1, <2>3
    DEF BeginSweep, ReadDue, Tombstone, FailCleanup, EndDeletion, Turn, Deleting, DeletionLabels
  <2>4. CASE t = s /\ (Release(s) \/ ReleaseRefused(s))
    BY <2>1, <2>4 DEF Release, ReleaseRefused, Deleting, DeletionLabels
  <2>5. CASE t = s /\ ClearHandle(s)
    BY <2>1, <2>5 DEF ClearHandle, Deleting, DeletionLabels, Deletion
  <2>6. CASE t = s /\ \E r \in Recordings : ReadHandlesToRelease(s, r)
    <3> PICK r \in Recordings : ReadHandlesToRelease(s, r)
      BY <2>6
    <3>1. \E left : deletion'[s] = [rec |-> r, file |-> file[r], permission |-> permission[r],
                                    left |-> left]
      BY <2>1 DEF ReadHandlesToRelease
    <3> QED BY <2>6, <3>1
  <2> QED BY <2>2, <2>3, <2>4, <2>5, <2>6 DEF Sweep, DeletionStep
<1>4. \A t \in Sweepers : Deleting(t)' =>
          /\ deletion'[t].file # NoFile => owner'[deletion'[t].file] = deletion'[t].rec
          /\ deletion'[t].permission # NoFile => owner'[deletion'[t].permission] = deletion'[t].rec
  BY <1>1, <1>3 DEF FilesAreOwned
<1> QED BY <1>1, <1>2, <1>4 DEF FilesAreOwned, workerVars, Busy, At

LEMMA OwnedStep == Typed /\ Typed' /\ FilesAreOwned /\ [Next]_vars => FilesAreOwned'
<1> SUFFICES ASSUME Typed, Typed', FilesAreOwned, [Next]_vars PROVE FilesAreOwned'
  OBVIOUS
<1>1. ASSUME UNCHANGED <<file, permission, drive, owner>>,
             \A w \in Workers : Busy(w)' => Busy(w) /\ work'[w] = work[w],
             \A s \in Sweepers : Deleting(s)' => Deleting(s) /\ deletion'[s] = deletion[s]
      PROVE  FilesAreOwned'
  BY <1>1 DEF FilesAreOwned
<1>2. CASE \E r \in Recordings : RowStep(r)
  BY <1>1, <1>2, RowStepFrame DEF handleVars, workerVars, Busy, At, Deleting
<1>3. CASE Crash
  <2>1. /\ wpc \in [Workers -> WorkerLabels] /\ work \in [Workers -> Work \union {NoWork}]
        /\ spc \in [Sweepers -> SweeperLabels] /\ deletion \in [Sweepers -> Deletion \union {NoDeletion}]
    BY DEF Typed, TypeOK, TypeOfQueue, TypeOfRetention
  <2> QED BY <1>1, <1>3, <2>1
      DEF Crash, WorkerDies, SweeperDies, WithdrawalDies, Done, With, GoOn, mediaVars, handleVars,
          remoteVars, workerVars, Busy, At, Deleting, DeletionLabels
<1>4. CASE UNCHANGED vars
  BY <1>1, <1>4 DEF vars, mediaVars, handleVars, remoteVars, workerVars, retentionVars, Busy, At,
                    Deleting
<1> QED BY <1>2, <1>3, <1>4, NextSplits, OwnedWhenDelivering, OwnedWhenSweeping

(***************************************************************************)
(* How rows move                                                           *)
(***************************************************************************)

RowStays(r) == state'[r] = state[r] /\ error'[r] = error[r]
RowMoves(r, next, why) == state'[r] = next /\ error'[r] = why

\* The moves of a delivery,
LEMMA AttemptMoves ==
    ASSUME Typed, NEW w \in Workers, WorkerStep(w), NEW r \in Recordings
    PROVE  \/ RowStays(r)
           \/ /\ NoteFailure(w) /\ r = work[w].rec
              /\ Transferring(r) /\ RowMoves(r, "transferring", "drive_failed")
           \/ /\ ReopenIfAsked(w) /\ r = work[w].rec
              /\ MayReopen(r) /\ RowMoves(r, "transferring", error[r])
           \/ /\ FinishDelivery(w) /\ r = work[w].rec
              /\ Transferring(r) /\ RowMoves(r, "ready", "none")
           \/ /\ FailRecording(w) /\ r = work[w].rec
              /\ IsActive(state[r]) /\ RowMoves(r, "failed", "drive_failed")
<1>1. state \in [Recordings -> RowStates] /\ error \in [Recordings -> Errors]
  BY DEF Typed, TypeOK, TypeOfMedia
<1> USE DEF RowStays, RowMoves
<1>2. CASE NoteFailure(w)
  BY <1>1, <1>2 DEF NoteFailure, Transferring
<1>3. CASE ReopenIfAsked(w)
  BY <1>1, <1>3 DEF ReopenIfAsked
<1>4. CASE FinishDelivery(w)
  BY <1>1, <1>4 DEF FinishDelivery
<1>5. CASE FailRecording(w)
  BY <1>1, <1>5
  DEF FailRecording, Transition, TransitionLands, MayBecome, IsActive, ActiveStates, Coalesce
<1>6. CASE ~(NoteFailure(w) \/ ReopenIfAsked(w) \/ FinishDelivery(w) \/ FailRecording(w))
  BY <1>6
  DEF WorkerStep, ClaimDelivery, ReadRecipient, StageObject, ReadHandles, FindExistingFile,
      Upload, FindNoFile, CallFails, StoreFile, KeepPermission, Share, StorePermission,
      ReadScope, Undo, UndoRefused, Forget, RescheduleDelivery, ReleaseRow, mediaVars
<1> QED BY <1>2, <1>3, <1>4, <1>5, <1>6

\* of a sweep,
LEMMA SweepMoves ==
    ASSUME Typed, NEW s \in Sweepers, Sweep(s), NEW r \in Recordings
    PROVE  \/ RowStays(r)
           \/ /\ FailCleanup(s) /\ Deleting(s) /\ r = deletion[s].rec
              /\ state[r] \in {"ready", "failed"} /\ RowMoves(r, "cleanup_failed", "cleanup_failed")
           \/ /\ Tombstone(s) /\ Deleting(s) /\ r = deletion[s].rec
              /\ state[r] # "deleted" /\ RowMoves(r, "deleted", error[r])
<1>1. state \in [Recordings -> RowStates] /\ error \in [Recordings -> Errors]
  BY DEF Typed, TypeOK, TypeOfMedia
<1> USE DEF RowStays, RowMoves
<1>2. CASE FailCleanup(s)
  <2>1. Deleting(s)
    BY <1>2 DEF FailCleanup, Deleting, DeletionLabels
  <2> QED BY <1>1, <1>2, <2>1
      DEF FailCleanup, Transition, TransitionLands, MayBecome, Coalesce
<1>3. CASE Tombstone(s)
  <2>1. Deleting(s)
    BY <1>3 DEF Tombstone, Deleting, DeletionLabels
  <2> QED BY <1>1, <1>3, <2>1 DEF Tombstone
<1>4. CASE ~(FailCleanup(s) \/ Tombstone(s))
  BY <1>4
  DEF Sweep, BeginSweep, DeletionStep, ReadDue, ReadHandlesToRelease, Release, ReleaseRefused,
      ClearHandle, mediaVars
<1> QED BY <1>2, <1>3, <1>4

\* and of everybody else.
LEMMA OthersMoves ==
    ASSUME Typed, NEW o \in Recordings, RowStep(o), NEW r \in Recordings
    PROVE  \/ RowStays(r)
           \/ /\ Completes(o) /\ r = o
              /\ state[r] = "finalizing" /\ RowMoves(r, "transferring", error[r])
           \/ /\ r = o /\ IsActive(state[r])
              /\ \E why \in {"consent_withdrawn", "kill_switch", "abandoned"} :
                     RowMoves(r, "failed", why)
<1>1. state \in [Recordings -> RowStates] /\ error \in [Recordings -> Errors]
  BY DEF Typed, TypeOK, TypeOfMedia
<1> USE DEF RowStays, RowMoves
<1>2. CASE Completes(o)
  BY <1>1, <1>2
  DEF Completes, Transition, TransitionLands, MayBecome, Coalesce, RowStates, ActiveStates
<1>3. CASE WithdrawalMovesRow(o)
  BY <1>1, <1>3
  DEF WithdrawalMovesRow, Transition, TransitionLands, MayBecome, Coalesce
<1>4. CASE \E why \in Endings : EndsOtherwise(o, why)
  <2> PICK why \in Endings : EndsOtherwise(o, why)
    BY <1>4
  <2>1. why \in {"kill_switch", "abandoned"}
    BY EndingsAssumption DEF EndsOtherwise
  <2>2. Transition(o, "failed", why) /\ IsActive(state[o])
    BY DEF EndsOtherwise
  <2>3. why # "none"
    BY <2>1
  <2> QED BY <1>1, <2>1, <2>2, <2>3 DEF Transition, TransitionLands, MayBecome, Coalesce
<1>5. CASE ~(Completes(o) \/ WithdrawalMovesRow(o) \/ \E why \in Endings : EndsOtherwise(o, why))
  BY <1>5
  DEF RowStep, EgressWrites, QueuesDelivery, WithdrawConsent, OperatorRetries, TimePasses,
      ClaimIsOutlived, mediaVars
<1> QED BY <1>2, <1>3, <1>4, <1>5

\* What has begun goes on, and what is dead stays so.
LEMMA RowsGoOn ==
    ASSUME Typed, [Next]_vars, NEW r \in Recordings
    PROVE  /\ Begun(r) => Begun(r)'
           /\ Dead(r) => Dead(r)'
           /\ Begun(r) \/ state[r] = "finalizing" => Begun(r)' \/ state'[r] = "finalizing"
           /\ Transferring(r)' => \/ Transferring(r)
                                  \/ state[r] = "finalizing"
                                  \/ \E w \in Workers : ReopenIfAsked(w) /\ work[w].rec = r
<1> USE DEF RowStays, RowMoves, Begun, Dead, Transferring, MayReopen, IsActive, ActiveStates
<1>1. CASE \E w \in Workers : Deliver(w)
  BY <1>1, AttemptMoves DEF Deliver
<1>2. CASE \E s \in Sweepers : Sweep(s)
  BY <1>2, SweepMoves
<1>3. CASE \E o \in Recordings : RowStep(o)
  BY <1>3, OthersMoves
<1>4. CASE Crash \/ UNCHANGED vars
  BY <1>4 DEF Crash, vars, mediaVars
<1> QED BY <1>1, <1>2, <1>3, <1>4, NextSplits

(***************************************************************************)
(* A delivery that is owed is served                                       *)
(***************************************************************************)

LEMMA ServedInit == Init => RowsAreServed
BY DEF Init, InitMedia, InitQueue, InitRetention, RowsAreServed, Busy, At, Deleting, DeletionLabels

\* An attempt holds the row of its recording or leaves the row to its holder.
LEMMA QueueGoesOn ==
    ASSUME NEW w \in Workers, WorkerStep(w), Typed
    PROVE  \/ UNCHANGED queueVars
           \/ \E r \in Recordings : ClaimDelivery(w, r)
           \/ /\ RescheduleDelivery(w) /\ Busy(w) /\ Holds(w, work[w].rec)
              /\ claim' = [claim EXCEPT ![work[w].rec] = NoWorker]
              /\ expired' = expired \ {work[w].rec} /\ UNCHANGED queued
           \/ /\ ReleaseRow(w) /\ Busy(w) /\ At(w, "release") /\ Holds(w, work[w].rec)
              /\ claim' = [claim EXCEPT ![work[w].rec] = NoWorker]
              /\ expired' = expired \ {work[w].rec} /\ queued' = queued \ {work[w].rec}
<1>1. CASE RescheduleDelivery(w)
  BY <1>1 DEF RescheduleDelivery, Busy, At, queueVars
<1>2. CASE ReleaseRow(w)
  BY <1>2 DEF ReleaseRow, DropRow, Busy, At
<1>3. CASE ~(RescheduleDelivery(w) \/ ReleaseRow(w) \/ \E r \in Recordings : ClaimDelivery(w, r))
  BY <1>3
  DEF WorkerStep, ReopenIfAsked, ReadRecipient, StageObject, ReadHandles, FindExistingFile,
      Upload, FindNoFile, CallFails, StoreFile, KeepPermission, Share, StorePermission,
      FinishDelivery, NoteFailure, ReadScope, Undo, UndoRefused, Forget, FailRecording
<1> QED BY <1>1, <1>2, <1>3

\* Nothing an attempt does takes a claim from another that has it.
LEMMA ClaimsHold ==
    ASSUME Typed, RowsAreServed, NEW w \in Workers, WorkerStep(w), NEW v \in Workers \ {w},
           NEW r \in Recordings
    PROVE  /\ Holds(v, r) /\ r \notin expired => Holds(v, r)' /\ r \notin expired'
           /\ Holds(v, r)' => Holds(v, r)
           /\ Transferring(r) /\ r \in queued => r \in queued'
<1>1. claim \in [Recordings -> Workers \union {NoWorker}] /\ Busy(w) => work[w].rec \in Recordings
  BY LocalsTyped DEF Typed, TypeOK, TypeOfQueue, LocalsAgree
<1>2. CASE UNCHANGED queueVars
  BY <1>2 DEF queueVars, Holds
<1>3. CASE \E o \in Recordings : ClaimDelivery(w, o)
  <2> PICK o \in Recordings : ClaimDelivery(w, o)
    BY <1>3
  <2>1. /\ claim' = [claim EXCEPT ![o] = w] /\ expired' = expired \ {o} /\ UNCHANGED queued
        /\ claim[o] = NoWorker \/ o \in expired
    BY DEF ClaimDelivery, Claimable
  <2>2. claim \in [Recordings -> Workers \union {NoWorker}]
    BY DEF Typed, TypeOK, TypeOfQueue
  <2> QED BY <2>1, <2>2, NoWorkerAssumption DEF Holds
<1>4. CASE \/ UNCHANGED queued
           \/ queued' = queued \ {work[w].rec} /\ Busy(w) /\ At(w, "release") /\ Holds(w, work[w].rec)
  <2>1. Transferring(r) /\ r \in queued => r \in queued'
    BY <1>4 DEF RowsAreServed, RowIsServed
  <2>2. CASE /\ Busy(w) /\ Holds(w, work[w].rec)
             /\ claim' = [claim EXCEPT ![work[w].rec] = NoWorker]
             /\ expired' = expired \ {work[w].rec}
    BY <1>1, <2>1, <2>2, NoWorkerAssumption DEF Holds, Typed, TypeOK, TypeOfQueue
  <2> QED BY <1>2, <1>3, <2>1, <2>2, QueueGoesOn
<1> QED BY <1>2, <1>3, <1>4, QueueGoesOn

LEMMA AttemptServes ==
    ASSUME Typed, Typed', RowsAreServed, NEW w \in Workers, Deliver(w), Busy(w)'
    PROVE  RowIsServed(w, work[w].rec)'
<1>1. WorkerStep(w)
  BY DEF Deliver
<1> USE DEF RowIsServed
<1>2. CASE \E r \in Recordings : ClaimDelivery(w, r)
  <2> PICK r \in Recordings : ClaimDelivery(w, r)
    BY <1>2
  <2>1. wpc \in [Workers -> WorkerLabels] /\ work \in [Workers -> Work \union {NoWork}]
    BY DEF Typed, TypeOK, TypeOfQueue
  <2>2. claim \in [Recordings -> Workers \union {NoWorker}]
    BY DEF Typed, TypeOK, TypeOfQueue
  <2> DEFINE locals == [rec |-> r, seen |-> state[r], file |-> NoFile, made |-> FALSE,
                        permission |-> NoFile, gave |-> FALSE, undo |-> <<>>]
  <2>3. work' = [work EXCEPT ![w] = locals] /\ wpc' = [wpc EXCEPT ![w] = "reopen"]
    BY DEF ClaimDelivery, With, GoOn
  <2>4. work'[w] = locals /\ wpc'[w] = "reopen"
    BY <2>1, <2>3
  <2>5. work'[w].rec = r /\ work'[w].seen = state[r]
    BY <2>4
  <2>6. r \in queued /\ r \in queued' /\ claim'[r] = w /\ r \notin expired' /\ UNCHANGED <<state, error>>
    BY <2>2 DEF ClaimDelivery, mediaVars
  <2>7. Begun(r)
    BY <2>6 DEF RowsAreServed
  <2> HIDE DEF locals
  <2> QED BY <2>4, <2>5, <2>6, <2>7 DEF Begun, Transferring, Holds, At
<1>3. ASSUME ~(\E r \in Recordings : ClaimDelivery(w, r)) PROVE RowIsServed(w, work[w].rec)'
  <2>1. Busy(w) /\ work'[w].rec = work[w].rec
    BY <1>1, <1>3, LocalsGoOn
  <2>2. /\ work[w] \in Work /\ work[w].rec \in Recordings
        /\ wpc \in [Workers -> WorkerLabels] /\ work \in [Workers -> Work \union {NoWork}]
    BY <2>1, LocalsTyped DEF Typed, LocalsAgree, TypeOK, TypeOfQueue
  <2> DEFINE r == work[w].rec
  <2>3. RowIsServed(w, r) /\ r \in Recordings
    BY <2>1, <2>2 DEF RowsAreServed
  <2>4. Begun(r)' /\ (Dead(r) => Dead(r)')
    <3>1. Next
      BY DEF Next
    <3>2. \A o \in Recordings : (Begun(o) => Begun(o)') /\ (Dead(o) => Dead(o)')
      BY <3>1, RowsGoOn
    <3> QED BY <2>1, <2>3, <3>2 DEF Begun, Dead
  <2>5. Holds(w, r) => r \in queued
    BY <2>3, NoWorkerAssumption DEF Typed, TypeOK, TypeOfQueue, Holds
  <2>6. CASE RescheduleDelivery(w) \/ ReleaseRow(w)
    <3>1. ~Done(w)
      BY <2>2 DEF Done, With, GoOn, Busy, At
    <3>2. wpc'[w] = "fail" /\ UNCHANGED <<queueVars, mediaVars>>
      BY <2>2, <2>6, <3>1 DEF RescheduleDelivery, ReleaseRow, GoOn
    <3> QED BY <2>1, <2>3, <2>4, <3>2
        DEF At, EarlyLabels, Transferring, queueVars, mediaVars
  <2>8. CASE ReopenIfAsked(w)
    <3>1. Holds(w, r) /\ r \notin expired /\ r \in queued
      BY <2>3, <2>5, <2>8 DEF ReopenIfAsked, At, EarlyLabels
    <3>2. UNCHANGED queueVars
      BY <2>8 DEF ReopenIfAsked
    <3>3. \/ wpc'[w] = "recipient"
          \/ wpc'[w] = "release" /\ UNCHANGED state /\ work[w].seen # "transferring"
      BY <2>2, <2>8 DEF ReopenIfAsked, GoOn
    <3> QED BY <2>1, <2>3, <2>4, <2>8, <3>1, <3>2, <3>3
        DEF At, Holds, Transferring, queueVars, ReopenIfAsked
  <2>9. CASE ReadRecipient(w) \/ StageObject(w)
    <3>1. Holds(w, r) /\ r \notin expired /\ r \in queued
      BY <2>3, <2>5, <2>9 DEF ReadRecipient, StageObject, At, EarlyLabels
    <3>2. UNCHANGED queueVars /\ wpc'[w] \in {"stage", "fail", "handles", "note"}
      BY <2>2, <2>9 DEF ReadRecipient, StageObject, GoOn
    <3> QED BY <2>1, <2>4, <3>1, <3>2 DEF At, Holds, queueVars
  <2>10. CASE FailRecording(w) \/ FinishDelivery(w)
    <3>1. state \in [Recordings -> RowStates]
      BY DEF Typed, TypeOK, TypeOfMedia
    <3>2. state'[r] # "transferring" \/ wpc'[w] = "scope"
      BY <2>2, <2>3, <2>10, <3>1
      DEF FailRecording, FinishDelivery, Transition, TransitionLands, MayBecome, RowStates,
          ActiveStates, Transferring, GoOn
    <3>3. wpc'[w] \in {"release", "scope"} /\ UNCHANGED queueVars
      BY <2>2, <2>10 DEF FailRecording, FinishDelivery, GoOn
    <3>4. Transferring(r)' => Transferring(r)
      BY <1>1, <2>3, <2>10, AttemptMoves
      DEF Transferring, RowStays, RowMoves, FailRecording, FinishDelivery, NoteFailure,
          ReopenIfAsked, At
    <3> QED BY <2>1, <2>3, <2>4, <3>2, <3>3, <3>4 DEF At, EarlyLabels, Transferring, queueVars
  <2>11. CASE ReadScope(w)
    <3> DEFINE mine == MineMayGo(r)
               undo == (IF mine /\ work[w].gave THEN <<"revoke">> ELSE <<>>)
                           \o (IF mine /\ work[w].made THEN <<"file">> ELSE <<>>)
                           \o (IF ObjectMayGo(r) THEN <<"object">> ELSE <<>>)
    <3>1. mine \in BOOLEAN /\ ObjectMayGo(r) \in BOOLEAN
      BY DEF MineMayGo, ObjectMayGo
    <3>2. Asks(undo, "object") <=> ObjectMayGo(r)
      BY <2>2, <3>1, LocalsTyped, ThreeCalls
    <3>3. /\ work' = [work EXCEPT ![w] = [work[w] EXCEPT !.undo = undo, !.made = mine /\ @]]
          /\ wpc' = [wpc EXCEPT ![w] = IF undo = <<>> THEN "reschedule" ELSE "undo"]
          /\ UNCHANGED <<mediaVars, queueVars>>
      BY <2>11 DEF ReadScope, With, GoOn
    <3> HIDE DEF undo, mine
    <3>4. work'[w].undo = undo /\ wpc'[w] \in {"reschedule", "undo"}
      BY <2>2, <3>3 DEF Work
    <3>5. ObjectMayGo(r) => Dead(r)
      BY DEF ObjectMayGo, Dead
    <3> QED BY <2>1, <2>3, <2>4, <3>2, <3>3, <3>4, <3>5
        DEF At, EarlyLabels, Transferring, queueVars, mediaVars
  <2>12. CASE Undo(w)
    <3>1. work[w].undo \in Seq(Calls) /\ work[w].undo # <<>> /\ At(w, "undo")
      BY <2>2, <2>12, LocalsTyped DEF Undo, Typed, LocalsAgree
    <3>2. /\ work' = [work EXCEPT ![w] = [work[w] EXCEPT !.undo = Tail(work[w].undo)]]
          /\ wpc'[w] \in {"undo", "forget", "reschedule"} /\ UNCHANGED <<state, queueVars>>
      BY <2>2, <2>12 DEF Undo, With, GoOn
    <3>3. work'[w].undo = Tail(work[w].undo)
      BY <2>2, <3>2 DEF Work
    <3>4. Asks(work'[w].undo, "object") => Asks(work[w].undo, "object")
      BY <3>1, <3>3, FirstCall
    <3> QED BY <2>1, <2>3, <2>4, <3>1, <3>2, <3>4
        DEF At, EarlyLabels, Transferring, queueVars
  <2>13. CASE \/ ReadHandles(w) \/ FindNoFile(w) \/ CallFails(w) \/ StoreFile(w)
              \/ KeepPermission(w) \/ StorePermission(w) \/ Share(w) \/ NoteFailure(w)
              \/ UndoRefused(w) \/ Forget(w)
              \/ \E f \in Files : FindExistingFile(w, f) \/ Upload(w, f)
    <3>1. wpc'[w] \in {"search", "share", "upload", "note", "store", "scope", "finish",
                       "store_permission", "reschedule"}
      BY <2>2, <2>13
      DEF ReadHandles, FindNoFile, CallFails, StoreFile, KeepPermission, StorePermission, Share,
          NoteFailure, UndoRefused, Forget, FindExistingFile, Upload, With, GoOn
    <3>2. UNCHANGED <<state, queueVars>>
      BY <2>13
      DEF ReadHandles, FindNoFile, CallFails, StoreFile, KeepPermission, StorePermission, Share,
          NoteFailure, UndoRefused, Forget, FindExistingFile, Upload, mediaVars
    <3> QED BY <2>1, <2>3, <2>4, <3>1, <3>2 DEF At, EarlyLabels, Transferring, queueVars
  <2> QED
    BY <1>1, <1>3, <2>6, <2>8, <2>9, <2>10, <2>11, <2>12, <2>13 DEF WorkerStep
<1> QED BY <1>2, <1>3

\* A worker that does nothing is served as it was, whoever else moves.
LEMMA OthersServed ==
    ASSUME Typed, [Next]_vars, NEW v \in Workers, NEW r \in Recordings, RowIsServed(v, r),
           wpc'[v] = wpc[v], work'[v] = work[v],
           Transferring(r) /\ r \in queued => r \in queued',
           wpc[v] \in EarlyLabels => Holds(v, r)' /\ r \notin expired',
           Holds(v, r)' => Holds(v, r),
           \A w \in Workers : ReopenIfAsked(w) /\ work[w].rec = r =>
               r \in queued' /\ ~At(v, "reopen") /\ ~(At(v, "release") /\ Holds(v, r))
    PROVE  RowIsServed(v, r)'
<1>1. Begun(r)' /\ (Dead(r) => Dead(r)')
  BY RowsGoOn DEF RowIsServed
<1>2. Transferring(r)' => Transferring(r) \/ \E w \in Workers : ReopenIfAsked(w) /\ work[w].rec = r
  BY RowsGoOn DEF RowIsServed, Begun
<1> QED BY <1>1, <1>2 DEF RowIsServed, At

LEMMA ServedWhenDelivering ==
    ASSUME Typed, Typed', RowsAreServed, NEW w \in Workers, Deliver(w)
    PROVE  RowsAreServed'
<1>1. WorkerStep(w) /\ Next /\ UNCHANGED <<spc, due, deletion, completing, recalled>>
  BY DEF Deliver, Next, retentionVars, requestVars
<1>2. \A r \in Recordings : Begun(r)' \/ state'[r] = "finalizing"
  BY <1>1, RowsGoOn DEF RowsAreServed
<1>3. \A r \in Recordings : Begun(r) => Begun(r)'
  BY <1>1, RowsGoOn
<1>4. queued' \subseteq queued
  BY <1>1, QueueGoesOn DEF queueVars, ClaimDelivery
<1>5. \A r \in (queued \union completing)' : Begun(r)'
  BY <1>1, <1>3, <1>4 DEF RowsAreServed, Typed, TypeOK, TypeOfQueue
<1>6. \A s \in Sweepers : \A r \in due'[s] : Begun(r)'
  BY <1>1, <1>3 DEF RowsAreServed, Typed, TypeOK, TypeOfRetention
<1>7. \A s \in Sweepers : Deleting(s)' =>
          (\A r \in Recordings : r = deletion'[s].rec => Begun(r)') /\ deletion'[s].rec \in recalled'
  BY <1>1, <1>3, DeletionsTyped DEF RowsAreServed, Deleting
<1>8. ASSUME NEW v \in Workers, Busy(v)' PROVE RowIsServed(v, work[v].rec)'
  <2>1. CASE v = w
    BY <1>8, <2>1, AttemptServes
  <2>2. CASE v # w
    <3>1. wpc'[v] = wpc[v] /\ work'[v] = work[v]
      BY <1>1, <2>2, OthersGoOn
    <3>2. Busy(v)
      BY <1>8, <3>1 DEF Busy, At
    <3> PICK r \in Recordings : r = work[v].rec
      BY <3>2, LocalsTyped DEF Typed, LocalsAgree
    <3>3. RowIsServed(v, r)
      BY <3>2 DEF RowsAreServed
    <3>4. /\ Holds(v, r) /\ r \notin expired => Holds(v, r)' /\ r \notin expired'
          /\ Holds(v, r)' => Holds(v, r)
          /\ Transferring(r) /\ r \in queued => r \in queued'
      BY <1>1, <2>2, ClaimsHold
    <3>5. ASSUME NEW o \in Workers, ReopenIfAsked(o), work[o].rec = r
          PROVE  r \in queued' /\ ~At(v, "reopen") /\ ~(At(v, "release") /\ Holds(v, r))
      <4>1. At(o, "reopen") /\ Busy(o) /\ UNCHANGED queueVars /\ wpc'[o] # wpc[o]
        BY <3>5 DEF ReopenIfAsked, At, Busy, GoOn, Typed, TypeOK, TypeOfQueue
      <4>2. o = w
        BY <1>1, <4>1, OthersGoOn
      <4>3. Holds(o, r)
        BY <3>5, <4>1 DEF RowsAreServed, RowIsServed, At, EarlyLabels
      <4>4. ~Holds(v, r)
        BY <2>2, <4>2, <4>3 DEF Holds
      <4>5. r \in queued'
        BY <4>1, <4>3, NoWorkerAssumption DEF queueVars, Holds, Typed, TypeOK, TypeOfQueue
      <4> QED BY <3>3, <4>4, <4>5 DEF RowIsServed, At, EarlyLabels
    <3>6. wpc[v] \in EarlyLabels => Holds(v, r)' /\ r \notin expired'
      BY <3>3, <3>4 DEF RowIsServed
    <3>7. RowIsServed(v, r)'
      BY <1>1, <3>1, <3>3, <3>4, <3>5, <3>6, OthersServed
    <3> QED BY <3>1, <3>7 DEF RowIsServed, Begun, Transferring, Holds, Dead
  <2> QED BY <2>1, <2>2
<1> QED BY <1>2, <1>5, <1>6, <1>7, <1>8, DeletionsTyped
    DEF RowsAreServed, Typed, LocalsAgree, Begun

LEMMA ServedElsewise ==
    ASSUME Typed, Typed', RowsAreServed, [Next]_vars, ~(\E w \in Workers : Deliver(w))
    PROVE  \A v \in Workers : Busy(v)' => RowIsServed(v, work[v].rec)'
<1>1. /\ queued \subseteq queued'
      /\ \/ UNCHANGED <<claim, expired>>
         \/ \E o \in Recordings : /\ RowStep(o) /\ UNCHANGED claim /\ expired' = expired \union {o}
                                  /\ work[claim[o]] = NoWork \/ LongAfterClaim(claim[o])
  <2>1. CASE \E s \in Sweepers : Sweep(s)
    BY <2>1 DEF Sweep, Enqueue, queueVars
  <2>2. CASE \E o \in Recordings : RowStep(o)
    <3> PICK o \in Recordings : RowStep(o)
      BY <2>2
    <3>1. CASE TimePasses(o) \/ ClaimIsOutlived(o)
      BY <3>1 DEF TimePasses, ClaimIsOutlived, ClaimExpires, BackoffPasses
    <3>2. CASE ~(TimePasses(o) \/ ClaimIsOutlived(o))
      BY <3>2
      DEF RowStep, EgressWrites, Completes, QueuesDelivery, WithdrawConsent, WithdrawalMovesRow,
          EndsOtherwise, OperatorRetries, Enqueue, queueVars
    <3> QED BY <3>1, <3>2
  <2>3. CASE Crash \/ UNCHANGED vars
    BY <2>3 DEF Crash, vars, queueVars
  <2> QED BY <2>1, <2>2, <2>3, NextSplits
<1>2. \A v \in Workers : Busy(v)' => wpc'[v] = wpc[v] /\ work'[v] = work[v]
  <2>1. wpc \in [Workers -> WorkerLabels] /\ work \in [Workers -> Work \union {NoWork}]
    BY DEF Typed, TypeOK, TypeOfQueue
  <2>2. CASE (\E s \in Sweepers : Sweep(s)) \/ UNCHANGED vars
    BY <2>2 DEF Sweep, vars, workerVars
  <2>3. CASE \E o \in Recordings : RowStep(o)
    BY <2>3, RowStepFrame DEF workerVars
  <2>4. CASE Crash
    BY <2>1, <2>4
    DEF Crash, WorkerDies, SweeperDies, WithdrawalDies, Done, With, GoOn, workerVars, Busy, At
  <2> QED BY <2>2, <2>3, <2>4, NextSplits
<1>3. \A w \in Workers : ~ReopenIfAsked(w)
  <2> SUFFICES ASSUME NEW w \in Workers, ReopenIfAsked(w) PROVE FALSE
    OBVIOUS
  <2>1. wpc'[w] # wpc[w] /\ Busy(w)' /\ At(w, "reopen")
    BY DEF ReopenIfAsked, At, Busy, GoOn, Typed, TypeOK, TypeOfQueue
  <2> QED BY <1>2, <2>1
<1>4. SUFFICES ASSUME NEW v \in Workers, Busy(v)' PROVE RowIsServed(v, work[v].rec)'
  OBVIOUS
<1>5. wpc'[v] = wpc[v] /\ work'[v] = work[v]
  BY <1>2, <1>4
<1>6. Busy(v)
  BY <1>4, <1>5 DEF Busy, At
<1> PICK r \in Recordings : r = work[v].rec
  BY <1>6, LocalsTyped DEF Typed, LocalsAgree
<1>7. RowIsServed(v, r)
  BY <1>6 DEF RowsAreServed
<1>8. Holds(v, r)' => Holds(v, r)
  BY <1>1 DEF Holds
<1>9. wpc[v] \in EarlyLabels => Holds(v, r)' /\ r \notin expired'
  <2>1. SUFFICES ASSUME wpc[v] \in EarlyLabels PROVE Holds(v, r)' /\ r \notin expired'
    OBVIOUS
  <2>2. Holds(v, r) /\ r \notin expired
    BY <1>7, <2>1 DEF RowIsServed
  <2>3. work[v] # NoWork
    <3>1. work[v].rec # NoRecording
      BY <1>6, LocalsTyped DEF Typed, LocalsAgree
    <3>2. NoWork.rec = NoRecording
      BY DEF NoWork
    <3> QED BY <3>1, <3>2
  <2>4. ~LongAfterClaim(v)
    BY <2>1 DEF LongAfterClaim, EarlyLabels
  <2> QED BY <1>1, <2>2, <2>3, <2>4 DEF Holds
<1>10. RowIsServed(v, r)'
  BY <1>1, <1>3, <1>5, <1>7, <1>8, <1>9, OthersServed
<1> QED BY <1>5, <1>10 DEF RowIsServed, Begun, Transferring, Holds, Dead

\* A sweeper takes up what is due, and whose deletion it takes up is recalled.
LEMMA SweepersGoOn ==
    ASSUME Typed, Typed', [Next]_vars
    PROVE  /\ \A s \in Sweepers : \A r \in due'[s] : r \in due[s] \/ (r \in Recordings /\ IsDue(r))
           /\ \A s \in Sweepers : Deleting(s)' =>
                  \/ Deleting(s) /\ deletion'[s].rec = deletion[s].rec
                  \/ deletion'[s].rec \in due[s] /\ deletion'[s].rec \in recalled'
           /\ recalled \subseteq recalled'
<1>1. /\ spc \in [Sweepers -> SweeperLabels] /\ due \in [Sweepers -> SUBSET Recordings]
      /\ deletion \in [Sweepers -> Deletion \union {NoDeletion}]
  BY DEF Typed, TypeOK, TypeOfRetention
<1>2. CASE \E s \in Sweepers : Sweep(s)
  <2> PICK s \in Sweepers : Sweep(s)
    BY <1>2
  <2>1. recalled' = recalled \union ({deletion'[s].rec} \ {NoRecording})
    BY DEF Sweep
  <2>2. \A t \in Sweepers \ {s} : due'[t] = due[t] /\ spc'[t] = spc[t] /\ deletion'[t] = deletion[t]
    BY <1>1
    DEF Sweep, DeletionStep, BeginSweep, ReadDue, ReadHandlesToRelease, Onward, Release,
        ReleaseRefused, ClearHandle, Tombstone, FailCleanup, EndDeletion, Turn
  <2>3. \A r \in due'[s] : r \in due[s] \/ (r \in Recordings /\ IsDue(r))
    <3>1. CASE ReadDue(s)
      BY <1>1, <3>1 DEF ReadDue
    <3>2. CASE ~ReadDue(s)
      BY <1>1, <3>2
      DEF Sweep, DeletionStep, BeginSweep, ReadHandlesToRelease, Release, ReleaseRefused,
          ClearHandle, Tombstone, FailCleanup, EndDeletion
    <3> QED BY <3>1, <3>2
  <2>4. Deleting(s)' => \/ Deleting(s) /\ deletion'[s].rec = deletion[s].rec
                        \/ deletion'[s].rec \in due[s] /\ deletion'[s].rec # NoRecording
    <3>1. CASE BeginSweep(s) \/ ReadDue(s) \/ Tombstone(s) \/ FailCleanup(s)
      BY <1>1, <3>1
      DEF BeginSweep, ReadDue, Tombstone, FailCleanup, EndDeletion, Turn, Deleting, DeletionLabels
    <3>2. CASE Release(s) \/ ReleaseRefused(s)
      BY <1>1, <3>2 DEF Release, ReleaseRefused, Deleting, DeletionLabels
    <3>3. CASE ClearHandle(s)
      <4>1. Deleting(s)
        BY <3>3 DEF ClearHandle, Deleting, DeletionLabels
      <4>2. deletion[s] \in Deletion
        BY <4>1 DEF Typed, LocalsAgree
      <4> QED BY <1>1, <3>3, <4>1, <4>2 DEF ClearHandle, Deletion
    <3>4. CASE \E r \in Recordings : ReadHandlesToRelease(s, r)
      <4> PICK r \in Recordings : ReadHandlesToRelease(s, r)
        BY <3>4
      <4>1. \E left : deletion'[s] = [rec |-> r, file |-> file[r], permission |-> permission[r],
                                      left |-> left]
        BY <1>1 DEF ReadHandlesToRelease
      <4> QED BY <4>1, NoRecordingAssumption DEF ReadHandlesToRelease
    <3> QED BY <3>1, <3>2, <3>3, <3>4 DEF Sweep, DeletionStep
  <2> QED BY <2>1, <2>2, <2>3, <2>4 DEF Deleting
<1>3. CASE (\E w \in Workers : Deliver(w)) \/ UNCHANGED vars
  BY <1>3 DEF Deliver, retentionVars, vars, historyVars, Deleting
<1>4. CASE \E o \in Recordings : RowStep(o)
  BY <1>4, RowStepFrame DEF Deleting
<1>5. CASE Crash
  BY <1>1, <1>5
  DEF Crash, WorkerDies, SweeperDies, WithdrawalDies, Deleting, DeletionLabels
<1> QED BY <1>2, <1>3, <1>4, <1>5, NextSplits

LEMMA ServedStep == Typed /\ Typed' /\ RowsAreServed /\ [Next]_vars => RowsAreServed'
<1> SUFFICES ASSUME Typed, Typed', RowsAreServed, [Next]_vars,
                    ~(\E w \in Workers : Deliver(w))
             PROVE  RowsAreServed'
  BY ServedWhenDelivering
<1>1. \A v \in Workers : Busy(v)' => RowIsServed(v, work[v].rec)'
  BY ServedElsewise
<1>2. \A r \in Recordings : /\ Begun(r)' \/ state'[r] = "finalizing"
                            /\ Begun(r) => Begun(r)'
  BY RowsGoOn DEF RowsAreServed
<1>3. \A r \in (queued \union completing)' : Begun(r)'
  <2>1. queued \union completing \subseteq Recordings
    BY DEF Typed, TypeOK, TypeOfQueue
  <2>2. \A r \in queued \union completing : Begun(r)'
    BY <1>2, <2>1 DEF RowsAreServed
  <2>3. \A r \in Recordings : Transferring(r) \/ state[r] = "failed" => Begun(r)'
    BY <1>2 DEF Begun, Transferring
  <2>4. CASE \E s \in Sweepers : Sweep(s)
    <3>1. UNCHANGED completing
      BY <2>4 DEF Sweep, requestVars
    <3>2. queued' = queued \/ queued' = queued \union {r \in Recordings : Transferring(r)}
      BY <2>4 DEF Sweep, Enqueue, queueVars
    <3> QED BY <2>2, <2>3, <3>1, <3>2
  <2>5. CASE \E o \in Recordings : RowStep(o)
    <3> PICK o \in Recordings : RowStep(o)
      BY <2>5
    <3>1. CASE Completes(o)
      <4>1. Begun(o)'
        BY <3>1
        DEF Completes, Transition, TransitionLands, MayBecome, RowStates, ActiveStates, Begun,
            Typed, TypeOK, TypeOfMedia
      <4> QED BY <2>2, <3>1, <4>1 DEF Completes, queueVars
    <3>2. CASE ~Completes(o)
      BY <2>2, <2>3, <3>2
      DEF RowStep, EgressWrites, QueuesDelivery, WithdrawConsent, WithdrawalMovesRow,
          EndsOtherwise, OperatorRetries, TimePasses, ClaimIsOutlived, ClaimExpires, BackoffPasses,
          Enqueue, queueVars, requestVars, OnlyTheRow
    <3> QED BY <3>1, <3>2
  <2>6. CASE Crash \/ UNCHANGED vars
    BY <2>2, <2>6
    DEF Crash, WorkerDies, SweeperDies, WithdrawalDies, vars, queueVars, requestVars
  <2> QED BY <2>4, <2>5, <2>6, NextSplits
<1>4. /\ \A s \in Sweepers : \A r \in due'[s] : r \in due[s] \/ (r \in Recordings /\ IsDue(r))
      /\ \A s \in Sweepers : Deleting(s)' =>
             \/ Deleting(s) /\ deletion'[s].rec = deletion[s].rec
             \/ deletion'[s].rec \in due[s] /\ deletion'[s].rec \in recalled'
      /\ recalled \subseteq recalled'
  BY NextSplits, SweepersGoOn
<1>5. \A r \in Recordings : IsDue(r) => Begun(r)
  BY DEF IsDue, Deletable, Begun
<1>6. \A s \in Sweepers : /\ due[s] \subseteq Recordings /\ due'[s] \subseteq Recordings
                          /\ Deleting(s) => deletion[s].rec \in Recordings
                          /\ Deleting(s)' => deletion'[s].rec \in Recordings
  BY DeletionsTyped DEF Typed, TypeOK, TypeOfRetention, LocalsAgree, Deleting
<1>7. \A s \in Sweepers : \A r \in due'[s] : Begun(r)'
  BY <1>2, <1>4, <1>5, <1>6 DEF RowsAreServed
<1>8. ASSUME NEW s \in Sweepers, Deleting(s)'
      PROVE  Begun(deletion[s].rec)' /\ deletion'[s].rec \in recalled'
  <2> PICK r \in Recordings : r = deletion'[s].rec
    BY <1>6, <1>8
  <2>1. Begun(r) /\ r \in recalled'
    BY <1>4, <1>8 DEF RowsAreServed
  <2>2. Begun(r)'
    BY <1>2, <2>1
  <2> QED BY <2>1, <2>2 DEF Begun
<1> QED BY <1>1, <1>2, <1>3, <1>7, <1>8 DEF RowsAreServed

(***************************************************************************)
(* No file is left that nobody names                                       *)
(***************************************************************************)

Known(f) ==
    \/ file[owner[f]] = f
    \/ owner[f] \in recalled
    \/ \E w \in Workers : AnswersFor(w, f)
    \/ f \in strays

\* What a worker may rely on about the file it delivers.
KnowsItsFile(w) ==
    /\ wpc[w] \in {"search", "upload", "store"} => work[w].made
    /\ At(w, "undo") /\ work[w].made => Asks(work[w].undo, "file") \/ work[w].file \notin drive
    /\ At(w, "forget") => work[w].file \notin drive

LEMMA KnownParts ==
    FilesAreKnown <=> (\A f \in drive : Known(f)) /\ (\A w \in Workers : KnowsItsFile(w))
BY DEF FilesAreKnown, Known, KnowsItsFile

LEMMA KnownNext ==
    ASSUME \A f \in drive' : Known(f)', \A w \in Workers : KnowsItsFile(w)'
    PROVE  FilesAreKnown'
BY DEF FilesAreKnown, Known, KnowsItsFile

LEMMA KnownInit == Init => FilesAreKnown
BY DEF Init, InitMedia, InitQueue, FilesAreKnown, At

\* What is gone stays gone: only what was never made is made.
LEMMA GoneForGood ==
    ASSUME Typed, FilesAreOwned, NEW w \in Workers, Deliver(w), NEW f, f \notin drive,
           f \in Files => owner[f] # NoRecording
    PROVE  f \notin drive'
<1>1. WorkerStep(w)
  BY DEF Deliver
<1>2. CASE \E g \in Files : Upload(w, g) /\ Unmade(g) /\ MakeFile(work[w].rec, g)
  BY <1>2 DEF Unmade, MakeFile
<1>3. CASE UNCHANGED remoteVars \/ UNCHANGED <<bucket, drive, owner>>
  BY <1>3 DEF remoteVars
<1>4. CASE /\ Head(work[w].undo) \in Calls
           /\ Releases(work[w].rec, Head(work[w].undo), work[w].file, work[w].permission)
  BY <1>4 DEF Releases, Calls
<1> QED BY <1>1, <1>2, <1>3, <1>4, RemoteGoesOn

\* The cleanup of a loser takes what it answers for, and answers for it until
\* it has.
LEMMA CleanupKnows ==
    ASSUME Typed, FilesAreOwned, RowsAreServed, NEW w \in Workers, Deliver(w), KnowsItsFile(w),
           ReadScope(w) \/ Undo(w), NEW f, f = work[w].file
    PROVE  KnowsItsFile(w)' /\ (work[w].made => AnswersFor(w, f)' \/ f \notin drive')
<1>1. Busy(w)
  BY DEF ReadScope, Undo, Busy, At
<1>2. /\ work[w] \in Work /\ work[w].rec \in Recordings
      /\ wpc \in [Workers -> WorkerLabels] /\ work \in [Workers -> Work \union {NoWork}]
  BY <1>1, LocalsTyped DEF Typed, LocalsAgree, TypeOK, TypeOfQueue
<1>3. work[w].file \in Files => owner[work[w].file] # NoRecording
  BY <1>1, <1>2, NoFileAssumption, NoRecordingAssumption DEF FilesAreOwned
<1>4. work[w].file \notin drive => work[w].file \notin drive'
  BY <1>3, GoneForGood
<1>5. CASE ReadScope(w)
  <2> DEFINE mine == MineMayGo(work[w].rec)
             undo == (IF mine /\ work[w].gave THEN <<"revoke">> ELSE <<>>)
                         \o (IF mine /\ work[w].made THEN <<"file">> ELSE <<>>)
                         \o (IF ObjectMayGo(work[w].rec) THEN <<"object">> ELSE <<>>)
  <2>1. mine = TRUE
    BY <1>1, <1>2 DEF RowsAreServed, RowIsServed, Begun, MineMayGo, ProviderOwned
  <2>2. ObjectMayGo(work[w].rec) \in BOOLEAN
    BY DEF ObjectMayGo
  <2>3. Asks(undo, "file") <=> work[w].made
    BY <1>2, <2>1, <2>2, LocalsTyped, ThreeCalls
  <2>4. /\ work' = [work EXCEPT ![w] = [work[w] EXCEPT !.undo = undo, !.made = mine /\ @]]
        /\ wpc' = [wpc EXCEPT ![w] = IF undo = <<>> THEN "reschedule" ELSE "undo"]
    BY <1>5 DEF ReadScope, With, GoOn
  <2> HIDE DEF undo, mine
  <2>5. /\ work'[w].undo = undo /\ work'[w].file = work[w].file
        /\ work'[w].made = work[w].made
        /\ wpc'[w] = IF undo = <<>> THEN "reschedule" ELSE "undo"
    BY <1>2, <2>1, <2>4 DEF Work
  <2>6. work[w].made => undo # <<>>
    BY <2>3, NothingAsked
  <2> QED BY <2>3, <2>5, <2>6 DEF KnowsItsFile, AnswersFor, At
<1>6. CASE Undo(w)
  <2> DEFINE rest == Tail(work[w].undo)
  <2>1. work[w].undo \in Seq(Calls) /\ work[w].undo # <<>> /\ At(w, "undo")
    BY <1>2, <1>6, LocalsTyped DEF Undo, Typed, LocalsAgree
  <2>2. /\ work' = [work EXCEPT ![w] = [work[w] EXCEPT !.undo = rest]]
        /\ wpc' = [wpc EXCEPT ![w] = CASE rest # <<>> -> "undo"
                                       [] rest = <<>> /\ work[w].made -> "forget"
                                       [] OTHER -> "reschedule"]
    BY <1>6 DEF Undo, With, GoOn
  <2>3. Asks(work[w].undo, "file") => Head(work[w].undo) = "file" \/ Asks(rest, "file")
    BY <2>1, FirstCall
  <2>4. Head(work[w].undo) = "file" => work[w].file \notin drive'
    BY <1>6 DEF Undo, Releases
  <2>5. rest = <<>> => ~Asks(rest, "file")
    BY NothingAsked
  <2> HIDE DEF rest
  <2>6. /\ work'[w].undo = rest /\ work'[w].file = work[w].file /\ work'[w].made = work[w].made
        /\ wpc'[w] = CASE rest # <<>> -> "undo"
                       [] rest = <<>> /\ work[w].made -> "forget"
                       [] OTHER -> "reschedule"
    BY <1>2, <2>2 DEF Work
  <2>7. wpc'[w] \in {"undo", "forget", "reschedule"} /\ (wpc'[w] = "forget" => rest = <<>> /\ work[w].made)
        /\ (work[w].made /\ rest # <<>> => wpc'[w] = "undo")
    BY <2>6
  <2>8. work[w].made => Asks(rest, "file") \/ work[w].file \notin drive'
    BY <1>4, <2>1, <2>3, <2>4 DEF KnowsItsFile
  <2> QED BY <2>5, <2>6, <2>7, <2>8 DEF KnowsItsFile, AnswersFor, At
<1> QED BY <1>5, <1>6

\* So does an attempt at any other of its steps.
LEMMA AttemptKnows ==
    ASSUME Typed, Typed', FilesAreOwned, RowsAreServed, NEW w \in Workers, Deliver(w), KnowsItsFile(w)
    PROVE  KnowsItsFile(w)'
<1>1. wpc \in [Workers -> WorkerLabels] /\ work \in [Workers -> Work \union {NoWork}]
  BY DEF Typed, TypeOK, TypeOfQueue
<1>2. Busy(w) => work[w] \in Work
  BY DEF Typed, LocalsAgree
<1>3. CASE ReadScope(w) \/ Undo(w)
  <2> \E f : f = work[w].file
    OBVIOUS
  <2> QED BY <1>3, CleanupKnows
<1>4. CASE ReadHandles(w)
  <2>1. Busy(w)
    BY <1>4 DEF ReadHandles, Busy, At
  <2>2. /\ wpc'[w] = IF file[work[w].rec] = NoFile THEN "search" ELSE "share"
        /\ work'[w].made = (file[work[w].rec] = NoFile)
    BY <1>1, <1>2, <1>4, <2>1 DEF ReadHandles, With, GoOn, Work
  <2> QED BY <2>2 DEF KnowsItsFile, At
<1>5. CASE (\E f \in Files : FindExistingFile(w, f) \/ Upload(w, f)) \/ FindNoFile(w)
  <2>1. Busy(w) /\ wpc[w] \in {"search", "upload"}
    BY <1>5 DEF FindExistingFile, Upload, FindNoFile, Busy, At
  <2>2. wpc'[w] \in {"store", "upload", "note"}
    BY <1>1, <1>5 DEF FindExistingFile, Upload, FindNoFile, With, GoOn
  <2>3. UNCHANGED work \/ \E f \in Files : work' = [work EXCEPT ![w] = [work[w] EXCEPT !.file = f]]
    BY <1>5 DEF FindExistingFile, Upload, FindNoFile, With
  <2>4. work'[w].made = work[w].made
    BY <1>1, <1>2, <2>1, <2>3 DEF Work
  <2> QED BY <2>1, <2>2, <2>4 DEF KnowsItsFile, At
<1>6. CASE ~(\/ ReadScope(w) \/ Undo(w) \/ ReadHandles(w) \/ FindNoFile(w)
             \/ \E f \in Files : FindExistingFile(w, f) \/ Upload(w, f))
  <2>1. wpc'[w] \notin {"search", "upload", "store", "undo", "forget"}
    BY <1>1, <1>6
    DEF Deliver, WorkerStep, ClaimDelivery, ReopenIfAsked, ReadRecipient, StageObject, CallFails,
        StoreFile, KeepPermission, Share, StorePermission, FinishDelivery, NoteFailure,
        UndoRefused, Forget, RescheduleDelivery, FailRecording, ReleaseRow, With, Done, GoOn
  <2> QED BY <2>1 DEF KnowsItsFile, At
<1> QED BY <1>3, <1>4, <1>5, <1>6

LEMMA KnownWhenDelivering ==
    ASSUME Typed, Typed', FilesAreOwned, RowsAreServed, FilesAreKnown, NEW w \in Workers, Deliver(w)
    PROVE  FilesAreKnown'
<1>1. /\ WorkerStep(w) /\ UNCHANGED recalled
      /\ strays' = strays \union CutShort(w)
  BY DEF Deliver
<1>2. (\A f \in drive : Known(f)) /\ (\A v \in Workers : KnowsItsFile(v))
  BY KnownParts
<1>3. /\ wpc \in [Workers -> WorkerLabels] /\ work \in [Workers -> Work \union {NoWork}]
      /\ \A v \in Workers : Busy(v) => work[v] \in Work /\ work[v].rec \in Recordings
  BY LocalsTyped DEF Typed, LocalsAgree, TypeOK, TypeOfQueue
<1>4. \A v \in Workers : KnowsItsFile(v)'
  <2>1. ASSUME NEW v \in Workers \ {w} PROVE KnowsItsFile(v)'
    <3>1. wpc'[v] = wpc[v] /\ work'[v] = work[v]
      BY <1>1, OthersGoOn
    <3>2. Busy(v) /\ work[v].file \in Files => owner[work[v].file] # NoRecording
      BY <1>3, NoFileAssumption, NoRecordingAssumption DEF FilesAreOwned
    <3>3. Busy(v) /\ work[v].file \notin drive => work[v].file \notin drive'
      BY <3>2, GoneForGood
    <3> QED BY <1>2, <3>1, <3>3 DEF KnowsItsFile, Busy, At
  <2>2. KnowsItsFile(w)'
    BY <1>2, AttemptKnows
  <2> QED BY <2>1, <2>2
<1>5. SUFFICES ASSUME NEW f \in drive' PROVE Known(f)'
  BY <1>4, KnownNext
<1>6. f \in Files /\ drive \subseteq Files
  BY DEF Typed, TypeOK, TypeOfMedia
<1>7. CASE f \notin drive
  <2> PICK g \in Files : Upload(w, g) /\ MakeFile(work[w].rec, g)
    <3>1. CASE UNCHANGED remoteVars \/ UNCHANGED <<bucket, drive, owner>>
      BY <1>5, <1>7, <3>1 DEF remoteVars
    <3>2. CASE /\ Head(work[w].undo) \in Calls
               /\ Releases(work[w].rec, Head(work[w].undo), work[w].file, work[w].permission)
      BY <1>5, <1>7, <3>2 DEF Releases, Calls
    <3> QED BY <1>1, <3>1, <3>2, RemoteGoesOn
  <2>1. f = g
    BY <1>5, <1>7 DEF MakeFile
  <2>2. Busy(w) /\ At(w, "upload") /\ work[w].made
    BY <1>2 DEF Upload, Busy, At, KnowsItsFile
  <2>3. CASE With(w, "store", [work[w] EXCEPT !.file = f])
    <3>1. wpc'[w] = "store" /\ work'[w].file = f /\ work'[w].made
      BY <1>3, <2>2, <2>3 DEF With, GoOn, Work
    <3> QED BY <3>1 DEF Known, AnswersFor
  <2>4. CASE GoOn(w, "note")
    <3>1. CutShort(w) = drive' \ drive
      BY <1>3, <2>2, <2>4 DEF CutShort, GoOn, At
    <3> QED BY <1>1, <1>5, <1>7, <3>1 DEF Known
  <2> QED BY <2>1, <2>3, <2>4 DEF Upload
<1>8. CASE f \in drive
  <2>1. Known(f) /\ owner[f] \in Recordings
    BY <1>2, <1>8 DEF FilesAreOwned
  <2>2. owner'[f] = owner[f]
    <3>1. CASE \E g \in Files : Unmade(g) /\ MakeFile(work[w].rec, g)
      BY <1>6, <2>1, <3>1, NoRecordingAssumption DEF Unmade, MakeFile, Typed, TypeOK, TypeOfMedia
    <3>2. CASE UNCHANGED remoteVars \/ UNCHANGED <<bucket, drive, owner>>
      BY <3>2 DEF remoteVars
    <3>3. CASE /\ Head(work[w].undo) \in Calls
               /\ Releases(work[w].rec, Head(work[w].undo), work[w].file, work[w].permission)
      BY <3>3 DEF Releases, Calls
    <3> QED BY <1>1, <3>1, <3>2, <3>3, RemoteGoesOn
  <2>3. CASE file[owner[f]] = f
    <3>1. f # NoFile /\ file \in [Recordings -> MaybeFile]
      BY <1>6, NoFileAssumption DEF Typed, TypeOK, TypeOfMedia
    <3>2. CASE Forget(w)
      <4>1. work[w].file # f
        BY <1>2, <1>8, <3>2 DEF Forget, KnowsItsFile
      <4> QED BY <1>1, <2>1, <2>2, <2>3, <3>1, <3>2, <4>1, HandlesGoOn
          DEF Known, StoreFile, StorePermission, Forget, At
    <3>3. CASE ~Forget(w)
      BY <1>1, <2>1, <2>2, <2>3, <3>1, <3>3, HandlesGoOn DEF Known, TakesFile
    <3> QED BY <3>2, <3>3
  <2>4. CASE owner[f] \in recalled \/ f \in strays
    BY <1>1, <2>2, <2>4 DEF Known
  <2>5. CASE \E v \in Workers \ {w} : AnswersFor(v, f)
    BY <1>1, <2>5, OthersGoOn DEF Known, AnswersFor
  <2>6. CASE AnswersFor(w, f)
    <3>1. Busy(w) /\ work[w].made /\ work[w].file = f /\ f # NoFile /\ wpc[w] \in {"store", "scope", "undo"}
      BY <1>6, <2>6, NoFileAssumption DEF AnswersFor, Busy, At
    <3>2. owner[f] = work[w].rec
      BY <3>1 DEF FilesAreOwned
    <3>3. CASE StoreFile(w)
      <4>1. CASE TakesFile(work[w].rec)
        <5>1. file' = [file EXCEPT ![work[w].rec] = f]
          BY <3>1, <3>3, <4>1 DEF StoreFile, SetDriveFile
        <5> QED BY <1>3, <2>2, <3>1, <3>2, <5>1 DEF Known, Typed, TypeOK, TypeOfMedia
      <4>2. CASE ~TakesFile(work[w].rec)
        BY <1>3, <3>1, <3>3, <4>2 DEF StoreFile, GoOn, Known, AnswersFor
      <4> QED BY <4>1, <4>2
    <3>4. CASE ReadScope(w) \/ Undo(w)
      BY <1>2, <1>5, <3>1, <3>4, CleanupKnows DEF Known
    <3>5. CASE UndoRefused(w)
      <4>1. CutShort(w) = {f}
        BY <3>1, <3>5 DEF CutShort, UndoRefused, At
      <4> QED BY <1>1, <4>1 DEF Known
    <3> QED BY <1>1, <3>1, <3>3, <3>4, <3>5
        DEF WorkerStep, ClaimDelivery, ReopenIfAsked, ReadRecipient, StageObject, ReadHandles,
            FindExistingFile, Upload, FindNoFile, CallFails, KeepPermission, Share,
            StorePermission, FinishDelivery, NoteFailure, Forget, RescheduleDelivery,
            FailRecording, ReleaseRow, At
  <2> QED BY <2>1, <2>3, <2>4, <2>5, <2>6 DEF Known
<1> QED BY <1>7, <1>8

LEMMA KnownStep ==
    Typed /\ Typed' /\ FilesAreOwned /\ RowsAreServed /\ FilesAreKnown /\ [Next]_vars => FilesAreKnown'
<1> SUFFICES ASSUME Typed, Typed', FilesAreOwned, RowsAreServed, FilesAreKnown, [Next]_vars,
                    ~(\E w \in Workers : Deliver(w))
             PROVE  FilesAreKnown'
  BY KnownWhenDelivering
<1>1. (\A f \in drive : Known(f)) /\ (\A w \in Workers : KnowsItsFile(w))
  BY KnownParts
<1>2. CASE \E s \in Sweepers : Sweep(s)
  <2> PICK s \in Sweepers : Sweep(s)
    BY <1>2
  <2>1. recalled \subseteq recalled' /\ UNCHANGED <<strays, workerVars>>
    BY DEF Sweep
  <2>2. Deleting(s) => deletion[s].rec \in recalled
    BY DEF RowsAreServed
  <2>3. UNCHANGED owner /\ drive' \subseteq drive
    BY SweepTakesAway
  <2>4. \A r \in Recordings : file'[r] = file[r] \/ r \in recalled
    BY <2>2, SweepTakesAway
  <2>5. \A f \in drive' : Known(f)'
    BY <1>1, <2>1, <2>3, <2>4 DEF Known, AnswersFor, workerVars, FilesAreOwned
  <2>6. \A w \in Workers : KnowsItsFile(w)'
    BY <1>1, <2>1, <2>3 DEF KnowsItsFile, At, workerVars
  <2> QED BY <2>5, <2>6, KnownNext
<1>3. CASE (\E r \in Recordings : RowStep(r)) \/ UNCHANGED vars
  <2>1. UNCHANGED <<file, drive, owner, recalled, strays, wpc, work>>
    BY <1>3, RowStepFrame
    DEF handleVars, workerVars, vars, mediaVars, remoteVars, historyVars
  <2> QED BY <2>1 DEF FilesAreKnown, AnswersFor, At
<1>4. CASE Crash
  <2>1. /\ UNCHANGED <<file, drive, owner, recalled>>
        /\ strays \subseteq strays'
    BY <1>4 DEF Crash, WorkerDies, SweeperDies, WithdrawalDies, mediaVars, handleVars, remoteVars
  <2>2. wpc \in [Workers -> WorkerLabels] /\ work \in [Workers -> Work \union {NoWork}]
    BY DEF Typed, TypeOK, TypeOfQueue
  <2>3. \A w \in Workers : \/ wpc'[w] = wpc[w] /\ work'[w] = work[w]
                           \/ wpc'[w] = "idle" /\ Knows(w) \subseteq strays'
    BY <1>4, <2>2
    DEF Crash, WorkerDies, SweeperDies, WithdrawalDies, workerVars, Done, With, GoOn
  <2>4. \A w \in Workers : KnowsItsFile(w)'
    BY <1>1, <2>1, <2>3 DEF KnowsItsFile, At
  <2>5. \A f \in drive, w \in Workers : AnswersFor(w, f) => AnswersFor(w, f)' \/ f \in strays'
    <3>1. \A f \in drive, w \in Workers : AnswersFor(w, f) => f \in Knows(w)
      BY NoFileAssumption DEF AnswersFor, Knows, Typed, TypeOK, TypeOfMedia
    <3> QED BY <2>3, <3>1 DEF AnswersFor
  <2>6. \A f \in drive' : Known(f)'
    BY <1>1, <2>1, <2>5 DEF Known
  <2> QED BY <2>4, <2>6, KnownNext
<1> QED BY <1>2, <1>3, <1>4, NextSplits

(***************************************************************************)
(* The theorems of any instance                                            *)
(***************************************************************************)

LEMMA MediaInvAlways == Spec => []MediaInv
<1>1. Init => MediaInv
  BY TypedInit, OwnedInit, ServedInit, KnownInit DEF MediaInv
<1>2. MediaInv /\ [Next]_vars => MediaInv'
  BY TypedStep, OwnedStep, ServedStep, KnownStep DEF MediaInv
<1> QED BY <1>1, <1>2, PTL DEF Spec

\* The rows, the handles and the locals of everybody are of their types: the
\* columns hold what the statements write.
THEOREM MediaIsTyped == Spec => []TypeOK
<1>1. MediaInv => TypeOK
  BY DEF MediaInv, Typed
<1> QED BY <1>1, MediaInvAlways, PTL

\* Whatever is dropped, outlived, withdrawn or retried, a file of the Shared Drive
\* is one its row names or somebody still answers for: transfer and
\* clean_up_after_losing leave none behind.
THEOREM NothingIsLeftBehind == Spec => []NoStrayFile
<1>1. MediaInv => NoStrayFile
  <2> SUFFICES ASSUME MediaInv PROVE NoStrayFile
    OBVIOUS
  <2>1. \A f \in drive, w \in Workers : AnswersFor(w, f) => f \in Knows(w)
    BY NoFileAssumption DEF AnswersFor, Knows, MediaInv, Typed, TypeOK, TypeOfMedia
  <2> QED BY <2>1 DEF MediaInv, FilesAreKnown, NoStrayFile
<1> QED BY <1>1, MediaInvAlways, PTL

LEMMA DropStep ==
    ASSUME MediaInv, [Next]_vars, NEW r \in Recordings, r \in queued, r \notin queued'
    PROVE  state[r] # "transferring"
<1>1. CASE \E w \in Workers : Deliver(w)
  <2> PICK w \in Workers : Deliver(w)
    BY <1>1
  <2>1. Busy(w) /\ At(w, "release") /\ Holds(w, work[w].rec) /\ r = work[w].rec
    BY QueueGoesOn DEF Deliver, MediaInv, queueVars, ClaimDelivery
  <2> QED BY <2>1 DEF MediaInv, RowsAreServed, RowIsServed, Transferring
<1>2. CASE \E s \in Sweepers : Sweep(s)
  BY <1>2 DEF Sweep, Enqueue, queueVars
<1>3. CASE \E o \in Recordings : RowStep(o)
  BY <1>3
  DEF RowStep, EgressWrites, Completes, QueuesDelivery, WithdrawConsent, WithdrawalMovesRow,
      EndsOtherwise, OperatorRetries, TimePasses, ClaimIsOutlived, ClaimExpires, BackoffPasses,
      Enqueue, queueVars
<1>4. CASE Crash \/ UNCHANGED vars
  BY <1>4 DEF Crash, vars, queueVars
<1> QED BY <1>1, <1>2, <1>3, <1>4, NextSplits

\* A worker drops only the row of a recording that owes no delivery any more, even
\* where it lost the row meanwhile (fail_and_release, finish_delivery_work).
THEOREM OwedDeliveriesStay == Spec => NoDeliveryIsDropped
<1>1. MediaInv /\ [Next]_vars =>
          [\A r \in Recordings :
              r \in queued /\ r \notin queued' => state[r] # "transferring"]_vars
  BY DropStep
<1> QED BY <1>1, MediaInvAlways, PTL DEF Spec, NoDeliveryIsDropped

LEMMA ObjectStep ==
    ASSUME MediaInv, [Next]_vars, NEW r \in Recordings, r \in bucket, r \notin bucket',
           NEW v \in Workers, At(v, "undo"), wpc'[v] # "undo"
    PROVE  ~(Transferring(r) \/ (state[r] = "failed" /\ error[r] = "drive_failed"))
<1>1. CASE \E w \in Workers : Deliver(w)
  <2> PICK w \in Workers : Deliver(w)
    BY <1>1
  <2>1. /\ Busy(w) /\ At(w, "undo")
        /\ Head(work[w].undo) = "object" /\ r = work[w].rec
    <3>1. CASE /\ Undo(w) /\ Busy(w) /\ At(w, "undo") /\ Head(work[w].undo) \in Calls
               /\ Releases(work[w].rec, Head(work[w].undo), work[w].file, work[w].permission)
      BY <3>1 DEF Releases, Calls
    <3>2. CASE UNCHANGED bucket
      BY <3>2
    <3> QED BY <3>1, <3>2, RemoteGoesOn DEF Deliver, MediaInv, remoteVars, MakeFile
  <2>2. work[w].undo \in Seq(Calls) /\ work[w].undo # <<>>
    BY <2>1, LocalsTyped DEF MediaInv, Typed, LocalsAgree
  <2>3. Asks(work[w].undo, "object")
    BY <2>1, <2>2, FirstCall
  <2> QED BY <2>1, <2>3 DEF MediaInv, RowsAreServed, RowIsServed, Dead, Transferring
<1>2. CASE \E s \in Sweepers : Sweep(s)
  BY <1>2 DEF Sweep, workerVars, At
<1>3. CASE \E o \in Recordings : RowStep(o)
  BY <1>3, RowStepFrame DEF workerVars, At
<1>4. CASE Crash \/ UNCHANGED vars
  BY <1>4 DEF Crash, vars, mediaVars, remoteVars
<1> QED BY <1>1, <1>2, <1>3, <1>4, NextSplits

\* cleanup_scope: a loser deletes the staged object only of a recording no retry
\* can bring back, and none does in the time it takes to ask.
THEOREM ObjectsOutlive == Spec => ObjectOutlivesDelivery
<1>1. MediaInv /\ [Next]_vars =>
          [\A r \in Recordings :
              r \in bucket /\ r \notin bucket' /\ (\E w \in Workers : At(w, "undo") /\ wpc'[w] # "undo")
                  => ~(Transferring(r) \/ (state[r] = "failed" /\ error[r] = "drive_failed"))]_vars
  BY ObjectStep
<1> QED BY <1>1, MediaInvAlways, PTL DEF Spec, ObjectOutlivesDelivery

(***************************************************************************)
(* The contract of the delivery side                                       *)
(***************************************************************************)

ContractStep == [Contract!Next]_(Contract!contractVars)

\* A write of transition is one of the moves everybody else may make.
LEMMA TransitionKeepsContract ==
    ASSUME Typed, NEW r \in Recordings, NEW next \in RowStates \ {"ready"},
           NEW why \in Errors \ (ProviderFailures \union {"drive_failed"}),
           Transition(r, next, why), UNCHANGED queued
    PROVE  ContractStep
<1>1. CASE TransitionLands(state[r], RowStates, next)
  <2>1. /\ state' = [state EXCEPT ![r] = next]
        /\ error' = [error EXCEPT ![r] = Coalesce(why, @)]
    BY <1>1 DEF Transition
  <2>2. Contract!OthersMove(r, next)
    BY <1>1, <2>1
    DEF Contract!OthersMove, Contract!TransitionLands, Contract!MayBecome, Contract!RowStates,
        Contract!ActiveStates, TransitionLands, MayBecome, RowStates, ActiveStates,
        Contract!Errors, Contract!Failures, Contract!ProviderFailures, Errors, Failures,
        ProviderFailures, Contract!Coalesce, Coalesce
  <2> QED BY <2>2 DEF ContractStep, Contract!Next, Contract!RowStates, Contract!ActiveStates,
                      RowStates, ActiveStates
<1>2. CASE ~TransitionLands(state[r], RowStates, next)
  BY <1>2 DEF Transition, ContractStep, Contract!contractVars
<1> QED BY <1>1, <1>2

LEMMA AttemptKeepsContract ==
    ASSUME MediaInv, NEW w \in Workers, WorkerStep(w)
    PROVE  ContractStep
<1>1. Typed /\ (Busy(w) => work[w].rec \in Recordings /\ RowIsServed(w, work[w].rec))
  BY LocalsTyped DEF MediaInv, Typed, LocalsAgree, RowsAreServed
<1>2. state \in [Recordings -> RowStates] /\ error \in [Recordings -> Errors]
  BY <1>1 DEF Typed, TypeOK, TypeOfMedia
<1>3. \A r \in Recordings : Holds(w, r) => r \in queued
  BY <1>1, NoWorkerAssumption DEF Typed, TypeOK, TypeOfQueue, Holds
<1> USE DEF mediaVars, queueVars, Transferring, ContractStep, Contract!Next
<1>4. CASE NoteFailure(w) /\ Transferring(work[w].rec)
  <2>1. Busy(w) /\ UNCHANGED <<state, queued>>
        /\ error' = [error EXCEPT ![work[w].rec] = "drive_failed"]
    BY <1>4 DEF NoteFailure, Busy, At
  <2>2. Contract!DeliveryAttemptFails(work[w].rec)
    BY <1>1, <1>2, <1>4, <2>1 DEF Contract!DeliveryAttemptFails, Contract!MoveRow, RowIsServed
  <2> QED BY <1>1, <2>1, <2>2
<1>5. CASE ReopenIfAsked(w) /\ MayReopen(work[w].rec) /\ state' # state
  <2>1. Busy(w) /\ At(w, "reopen") /\ UNCHANGED <<error, queued>>
        /\ state' = [state EXCEPT ![work[w].rec] = "transferring"]
    BY <1>5 DEF ReopenIfAsked, Busy, At
  <2>2. work[w].rec \in queued
    BY <1>1, <1>3, <2>1 DEF RowIsServed, EarlyLabels, At
  <2>3. Contract!ReopenDelivery(work[w].rec)
    BY <1>1, <1>2, <1>5, <2>1, <2>2
    DEF Contract!ReopenDelivery, Contract!MoveRow, Contract!MayReopen, Contract!OthersInactive,
        Contract!IsActive, Contract!ActiveStates, MayReopen, OthersInactive, IsActive, ActiveStates
  <2> QED BY <1>1, <2>1, <2>3
<1>6. CASE FinishDelivery(w) /\ Transferring(work[w].rec)
  <2>1. Busy(w) /\ UNCHANGED queued /\ state' = [state EXCEPT ![work[w].rec] = "ready"]
        /\ error' = [error EXCEPT ![work[w].rec] = "none"]
    BY <1>6 DEF FinishDelivery, Busy, At
  <2>2. Contract!Deliver(work[w].rec)
    BY <1>1, <1>6, <2>1 DEF Contract!Deliver, Contract!MoveRow, RowIsServed
  <2> QED BY <1>1, <2>1, <2>2
<1>7. CASE FailRecording(w) /\ TransitionLands(state[work[w].rec], RowStates, "failed")
  <2>1. Busy(w) /\ UNCHANGED queued /\ state' = [state EXCEPT ![work[w].rec] = "failed"]
        /\ error' = [error EXCEPT ![work[w].rec] = "drive_failed"]
    BY <1>7 DEF FailRecording, Transition, Coalesce, Busy, At
  <2>2. Transferring(work[w].rec) /\ work[w].rec \in queued
    BY <1>1, <1>7, <2>1 DEF RowIsServed, Begun, TransitionLands, MayBecome
  <2>3. Contract!DeliveryGivesUp(work[w].rec)
    BY <2>1, <2>2 DEF Contract!DeliveryGivesUp, Contract!MoveRow
  <2> QED BY <1>1, <2>1, <2>3
<1>8. CASE ReleaseRow(w) /\ Holds(w, work[w].rec)
  <2>1. Busy(w) /\ At(w, "release") /\ UNCHANGED <<state, error>>
        /\ queued' = queued \ {work[w].rec}
    BY <1>8 DEF ReleaseRow, DropRow, Busy, At
  <2>2. Contract!ReleaseClaim(work[w].rec)
    BY <1>1, <1>3, <1>8, <2>1 DEF Contract!ReleaseClaim, RowIsServed
  <2> QED BY <1>1, <2>1, <2>2
<1>9. CASE \/ NoteFailure(w) /\ ~Transferring(work[w].rec)
           \/ ReopenIfAsked(w) /\ ~(MayReopen(work[w].rec) /\ state' # state)
           \/ FinishDelivery(w) /\ ~Transferring(work[w].rec)
           \/ FailRecording(w) /\ ~TransitionLands(state[work[w].rec], RowStates, "failed")
           \/ ReleaseRow(w) /\ ~Holds(w, work[w].rec)
  BY <1>9 DEF NoteFailure, ReopenIfAsked, FinishDelivery, FailRecording, Transition, ReleaseRow,
              DropRow, Contract!contractVars
<1>10. CASE ~(\/ NoteFailure(w) \/ ReopenIfAsked(w) \/ FinishDelivery(w) \/ FailRecording(w)
              \/ ReleaseRow(w))
  BY <1>10
  DEF WorkerStep, ClaimDelivery, ReadRecipient, StageObject, ReadHandles, FindExistingFile,
      Upload, FindNoFile, CallFails, StoreFile, KeepPermission, Share, StorePermission,
      ReadScope, Undo, UndoRefused, Forget, RescheduleDelivery, Contract!contractVars
<1> QED BY <1>4, <1>5, <1>6, <1>7, <1>8, <1>9, <1>10

LEMMA SweepKeepsContract ==
    ASSUME MediaInv, NEW s \in Sweepers, Sweep(s)
    PROVE  ContractStep
<1>1. /\ Typed
      /\ Deleting(s) => /\ deletion[s].rec \in Recordings /\ Begun(deletion[s].rec)
  BY DeletionsTyped DEF MediaInv, Typed, LocalsAgree, RowsAreServed
<1>2. state \in [Recordings -> RowStates] /\ error \in [Recordings -> Errors]
      /\ queued \subseteq Recordings
  BY <1>1 DEF Typed, TypeOK, TypeOfMedia, TypeOfQueue
<1> USE DEF mediaVars, queueVars
<1>3. CASE BeginSweep(s) /\ Enqueue({r \in Recordings : Transferring(r)})
  <2>1. Contract!Enqueue
    BY <1>2, <1>3 DEF Contract!Enqueue, Enqueue, BeginSweep
  <2> QED BY <2>1 DEF ContractStep, Contract!Next
<1>4. CASE Tombstone(s) /\ UNCHANGED queueVars
  <2>1. Deleting(s)
    BY <1>4 DEF Tombstone, Deleting, DeletionLabels
  <2>2. CASE state[deletion[s].rec] = "deleted"
    BY <1>4, <2>2 DEF Tombstone, ContractStep, Contract!contractVars
  <2>3. CASE state[deletion[s].rec] # "deleted"
    <3>1. Contract!Tombstone(deletion[s].rec)
      BY <1>1, <1>2, <1>4, <2>1, <2>3 DEF Tombstone, Begun, Contract!Tombstone, Contract!MoveRow
    <3> QED BY <1>1, <2>1, <3>1 DEF ContractStep, Contract!Next
  <2> QED BY <2>2, <2>3
<1>5. CASE FailCleanup(s) /\ UNCHANGED queueVars
  <2>1. Deleting(s)
    BY <1>5 DEF FailCleanup, Deleting, DeletionLabels
  <2>2. /\ "cleanup_failed" \in RowStates \ {"ready"}
        /\ "cleanup_failed" \in Errors \ (ProviderFailures \union {"drive_failed"})
    BY DEF RowStates, ActiveStates, Errors, Failures, ProviderFailures
  <2> QED BY <1>1, <1>5, <2>1, <2>2, TransitionKeepsContract DEF FailCleanup
<1>6. CASE DeletionStep(s) /\ UNCHANGED queueVars /\ ~Tombstone(s) /\ ~FailCleanup(s)
  BY <1>6 DEF DeletionStep, ReadDue, ReadHandlesToRelease, Release, ReleaseRefused, ClearHandle,
              ContractStep, Contract!contractVars
<1> QED BY <1>3, <1>4, <1>5, <1>6 DEF Sweep

LEMMA OthersKeepContract ==
    ASSUME MediaInv, NEW r \in Recordings, RowStep(r)
    PROVE  ContractStep
<1>1. Typed /\ queued \subseteq Recordings
  BY DEF MediaInv, Typed, TypeOK, TypeOfQueue
<1>2. /\ {"transferring", "failed"} \subseteq RowStates \ {"ready"}
      /\ {"none", "consent_withdrawn", "kill_switch", "abandoned"}
             \subseteq Errors \ (ProviderFailures \union {"drive_failed"})
  BY DEF RowStates, ActiveStates, Errors, Failures, ProviderFailures
<1> USE DEF mediaVars, queueVars
<1>3. CASE Completes(r)
  BY <1>1, <1>2, <1>3, TransitionKeepsContract DEF Completes
<1>4. CASE WithdrawalMovesRow(r)
  <2>1. Transition(r, "failed", "consent_withdrawn") \/ UNCHANGED <<state, error>>
    BY <1>4 DEF WithdrawalMovesRow
  <2> QED BY <1>1, <1>2, <1>4, <2>1, TransitionKeepsContract
      DEF WithdrawalMovesRow, ContractStep, Contract!contractVars
<1>5. CASE \E why \in Endings : EndsOtherwise(r, why)
  <2> PICK why \in Endings : EndsOtherwise(r, why)
    BY <1>5
  <2>1. why \in {"consent_withdrawn", "kill_switch", "abandoned"}
    BY EndingsAssumption
  <2> QED BY <1>1, <1>2, <2>1, TransitionKeepsContract DEF EndsOtherwise
<1>6. CASE QueuesDelivery(r) \/ OperatorRetries(r)
  <2>1. Contract!Enqueue \/ UNCHANGED Contract!contractVars
    BY <1>1, <1>6
    DEF QueuesDelivery, OperatorRetries, Enqueue, Contract!Enqueue, Contract!contractVars
  <2> QED BY <2>1 DEF ContractStep, Contract!Next
<1>7. CASE EgressWrites(r) \/ WithdrawConsent(r) \/ TimePasses(r) \/ ClaimIsOutlived(r)
  BY <1>7 DEF EgressWrites, WithdrawConsent, TimePasses, ClaimIsOutlived, ClaimExpires,
              BackoffPasses, ContractStep, Contract!contractVars
<1> QED BY <1>3, <1>4, <1>5, <1>6, <1>7 DEF RowStep

\* The workers, statement by statement, the sweeps and everybody else make only the
\* moves the recording pipeline expects of the delivery side.
THEOREM DeliveryKeepsContract == Spec => KeepsContract
<1>1. Init => Contract!Init
  BY DEF Init, InitMedia, InitQueue, Contract!Init
<1>2. MediaInv /\ [Next]_vars => [Contract!Next]_(Contract!contractVars)
  <2> SUFFICES ASSUME MediaInv, [Next]_vars PROVE ContractStep
    BY DEF ContractStep
  <2>1. CASE \E w \in Workers : Deliver(w)
    BY <2>1, AttemptKeepsContract DEF Deliver
  <2>2. CASE Crash \/ UNCHANGED vars
    BY <2>2 DEF Crash, vars, mediaVars, queueVars, ContractStep, Contract!contractVars
  <2> QED BY <2>1, <2>2, NextSplits, SweepKeepsContract, OthersKeepContract
<1> QED BY <1>1, <1>2, MediaInvAlways, PTL DEF Spec, KeepsContract, Contract!Spec

(***************************************************************************)
(* Where no attempt runs for longer than its claim                         *)
(***************************************************************************)

\* Then whoever is at work on a row holds it, and nobody else is.
OneWorker == \A w \in Workers : Busy(w) => Holds(w, work[w].rec) /\ work[w].rec \notin expired

LEMMA ClaimIsKept ==
    ASSUME Typed, Typed', NEW w \in Workers, WorkerStep(w), OneWorker, Busy(w)'
    PROVE  Holds(w, work[w].rec)' /\ work'[w].rec \notin expired'
<1>1. claim \in [Recordings -> Workers \union {NoWorker}]
  BY DEF Typed, TypeOK, TypeOfQueue
<1>2. CASE \E r \in Recordings : ClaimDelivery(w, r) /\ work'[w].rec = r
  BY <1>1, <1>2 DEF ClaimDelivery, Holds
<1>3. CASE Busy(w) /\ work'[w].rec = work[w].rec
  <2>1. ~Done(w)
    BY DEF Done, With, GoOn, Busy, At, Typed, TypeOK, TypeOfQueue
  <2>2. ~\E r \in Recordings : ClaimDelivery(w, r)
    BY <1>3 DEF ClaimDelivery, Busy
  <2>3. UNCHANGED queueVars
    BY <2>1, <2>2
    DEF WorkerStep, ReopenIfAsked, ReadRecipient, StageObject, ReadHandles, FindExistingFile,
        Upload, FindNoFile, CallFails, StoreFile, KeepPermission, Share, StorePermission,
        FinishDelivery, NoteFailure, ReadScope, Undo, UndoRefused, Forget, FailRecording,
        RescheduleDelivery, ReleaseRow, queueVars
  <2> QED BY <1>3, <2>3 DEF OneWorker, Holds, queueVars
<1> QED BY <1>2, <1>3, LocalsGoOn

LEMMA OneWorkerStep ==
    ASSUME Typed, Typed', RowsAreServed, OneWorker, ~MayOutlive, [Next]_vars
    PROVE  OneWorker'
<1> SUFFICES ASSUME NEW v \in Workers, Busy(v)'
             PROVE  Holds(v, work[v].rec)' /\ work'[v].rec \notin expired'
  BY DEF OneWorker
<1>1. ASSUME Busy(v), work'[v] = work[v]
      PROVE  /\ Holds(v, work[v].rec) /\ work[v].rec \notin expired
             /\ work[v].rec \in Recordings /\ work[v] # NoWork
  <2>1. work[v].rec \in Recordings /\ work[v].rec # NoRecording
    BY <1>1, LocalsTyped DEF Typed, LocalsAgree
  <2>2. NoWork.rec = NoRecording
    BY DEF NoWork
  <2> QED BY <1>1, <2>1, <2>2 DEF OneWorker
<1>2. CASE \E w \in Workers : Deliver(w)
  <2> PICK w \in Workers : Deliver(w)
    BY <1>2
  <2>1. CASE v = w
    BY <2>1, ClaimIsKept DEF Deliver
  <2>2. CASE v # w
    <3>1. wpc'[v] = wpc[v] /\ work'[v] = work[v] /\ Busy(v)
      BY <2>2, OthersGoOn DEF Deliver, Busy, At
    <3> PICK r \in Recordings : r = work[v].rec
      BY <1>1, <3>1
    <3>2. Holds(v, r)' /\ r \notin expired'
      BY <1>1, <2>2, <3>1, ClaimsHold DEF Deliver
    <3> QED BY <3>1, <3>2 DEF Holds
  <2> QED BY <2>1, <2>2
<1>3. CASE \E s \in Sweepers : Sweep(s)
  BY <1>1, <1>3 DEF Sweep, Enqueue, queueVars, workerVars, Busy, At, Holds
<1>4. CASE \E o \in Recordings : RowStep(o)
  <2> PICK o \in Recordings : RowStep(o)
    BY <1>4
  <2>1. UNCHANGED workerVars
    BY RowStepFrame
  <2>2. Busy(v) /\ work'[v] = work[v]
    BY <2>1 DEF workerVars, Busy, At
  <2>3. UNCHANGED claim /\ (UNCHANGED expired \/ (expired' = expired \union {o} /\ work[claim[o]] = NoWork))
    BY DEF RowStep, EgressWrites, Completes, QueuesDelivery, WithdrawConsent, WithdrawalMovesRow,
           EndsOtherwise, OperatorRetries, TimePasses, ClaimIsOutlived, ClaimExpires, BackoffPasses,
           Enqueue, queueVars
  <2> QED BY <1>1, <2>2, <2>3 DEF Holds
<1>5. CASE Crash \/ UNCHANGED vars
  <2>1. UNCHANGED queueVars
    BY <1>5 DEF Crash, vars
  <2>2. Busy(v) /\ work'[v] = work[v]
    BY <1>5 DEF Crash, vars, WorkerDies, SweeperDies, WithdrawalDies, Done, With, GoOn, workerVars,
                Busy, At, Typed, TypeOK, TypeOfQueue
  <2> QED BY <1>1, <2>1, <2>2 DEF Holds, queueVars
<1> QED BY <1>2, <1>3, <1>4, <1>5, NextSplits

\* Nobody else is at work on the row an attempt is on or claims.
LEMMA AloneOnTheRow ==
    ASSUME Typed, OneWorker, NEW w \in Workers, NEW v \in Workers \ {w}, NEW r \in Recordings,
           \/ Busy(w) /\ work[w].rec = r
           \/ ClaimDelivery(w, r)
    PROVE  ~(Busy(v) /\ work[v].rec = r)
BY NoWorkerAssumption DEF OneWorker, Holds, ClaimDelivery, Claimable

\* An attempt that is about to upload looked for a file when there was none, and
\* there still is none.
OneUpload ==
    /\ \A r \in Recordings : \A f, g \in FilesOf(r) : f = g
    /\ \A w \in Workers : At(w, "upload") => FilesOf(work[w].rec) = {}

\* Only an upload makes files.
LEMMA FilesGrow ==
    ASSUME Typed, FilesAreOwned, [Next]_vars
    PROVE  \/ \A r \in Recordings : \A f \in drive' : owner'[f] = r => f \in FilesOf(r)
           \/ \E w \in Workers : \E f \in Files :
                  /\ WorkerStep(w) /\ Upload(w, f) /\ At(w, "upload") /\ Busy(w)
                  /\ drive' = drive \union {f} /\ owner'[f] = work[w].rec
                  /\ \A g \in drive : owner'[g] = owner[g]
<1>1. owner \in [Files -> Recordings \union {NoRecording}] /\ drive \subseteq Files
  BY DEF Typed, TypeOK, TypeOfMedia
<1>2. CASE \E w \in Workers : Deliver(w)
  <2> PICK w \in Workers : Deliver(w)
    BY <1>2
  <2>1. CASE /\ \E f \in Files : Upload(w, f) /\ Unmade(f) /\ MakeFile(work[w].rec, f)
             /\ Busy(w) /\ At(w, "upload")
    <3> PICK f \in Files : Upload(w, f) /\ Unmade(f) /\ MakeFile(work[w].rec, f)
      BY <2>1
    <3>1. f \notin drive
      BY NoRecordingAssumption DEF FilesAreOwned, Unmade
    <3>2. drive' = drive \union {f} /\ owner'[f] = work[w].rec
          /\ \A g \in drive : owner'[g] = owner[g]
      BY <1>1, <3>1 DEF MakeFile
    <3> QED BY <2>1, <3>2 DEF Deliver
  <2>2. CASE /\ Undo(w) /\ Busy(w) /\ At(w, "undo") /\ Head(work[w].undo) \in Calls
             /\ Releases(work[w].rec, Head(work[w].undo), work[w].file, work[w].permission)
    <3>1. UNCHANGED owner /\ drive' \subseteq drive
      BY <2>2 DEF Releases, Calls
    <3> QED BY <3>1 DEF FilesOf
  <2>3. CASE UNCHANGED <<owner, drive>>
    BY <2>3 DEF FilesOf
  <2> QED BY <2>1, <2>2, <2>3, RemoteGoesOn DEF Deliver, remoteVars
<1>3. CASE \E s \in Sweepers : Sweep(s)
  <2>1. UNCHANGED owner /\ drive' \subseteq drive
    BY <1>3, SweepTakesAway
  <2> QED BY <2>1 DEF FilesOf
<1>4. CASE (\E o \in Recordings : RowStep(o)) \/ Crash \/ UNCHANGED vars
  <2>1. UNCHANGED <<owner, drive>>
    BY <1>4, RowStepFrame DEF Crash, vars, mediaVars, remoteVars
  <2> QED BY <2>1 DEF FilesOf
<1> QED BY <1>2, <1>3, <1>4, NextSplits

\* Whoever is about to upload was so before, or has just found no file.
LEMMA UploadersLooked ==
    ASSUME Typed, Typed', [Next]_vars, NEW v \in Workers, At(v, "upload")'
    PROVE  /\ Busy(v) /\ work'[v].rec = work[v].rec
           /\ \/ At(v, "upload")
              \/ FindNoFile(v) /\ UNCHANGED mediaVars /\ FilesOf(work[v].rec) = {}
<1>1. wpc \in [Workers -> WorkerLabels] /\ work \in [Workers -> Work \union {NoWork}]
  BY DEF Typed, TypeOK, TypeOfQueue
<1>2. CASE Deliver(v)
  <2>1. FindNoFile(v) \/ (UNCHANGED work /\ At(v, "upload"))
    BY <1>1, <1>2
    DEF Deliver, WorkerStep, ClaimDelivery, ReopenIfAsked, ReadRecipient, StageObject, ReadHandles,
        FindExistingFile, Upload, FindNoFile, CallFails, StoreFile, KeepPermission, Share,
        StorePermission, FinishDelivery, NoteFailure, ReadScope, Undo, UndoRefused, Forget,
        RescheduleDelivery, FailRecording, ReleaseRow, With, Done, GoOn, At
  <2> QED BY <2>1 DEF FindNoFile, At, Busy
<1>3. CASE \E w \in Workers \ {v} : Deliver(w)
  BY <1>3, OthersGoOn DEF Deliver, At, Busy
<1>4. CASE (\E s \in Sweepers : Sweep(s)) \/ (\E o \in Recordings : RowStep(o)) \/ UNCHANGED vars
  BY <1>4, RowStepFrame DEF Sweep, vars, workerVars, At, Busy
<1>5. CASE Crash
  BY <1>1, <1>5 DEF Crash, WorkerDies, SweeperDies, WithdrawalDies, Done, With, GoOn, workerVars,
                    At, Busy
<1> QED BY <1>2, <1>3, <1>4, <1>5, NextSplits

LEMMA OneUploadStep ==
    ASSUME Typed, Typed', FilesAreOwned, OneWorker, OneUpload, [Next]_vars
    PROVE  OneUpload'
<1>1. \A v \in Workers : Busy(v) => work[v].rec \in Recordings
  BY LocalsTyped DEF Typed, LocalsAgree
<1>2. CASE \A r \in Recordings : \A f \in drive' : owner'[f] = r => f \in FilesOf(r)
  <2>1. \A r \in Recordings : \A f, g \in FilesOf(r)' : f = g
    BY <1>2 DEF OneUpload, FilesOf
  <2>2. ASSUME NEW v \in Workers, At(v, "upload")'
        PROVE  \A f \in drive' : owner'[f] # work'[v].rec
    <3>1. Busy(v) /\ work'[v].rec = work[v].rec /\ FilesOf(work[v].rec) = {}
      BY <2>2, UploadersLooked DEF OneUpload
    <3> QED BY <1>1, <1>2, <3>1
  <2> QED BY <2>1, <2>2 DEF OneUpload, FilesOf
<1>3. CASE \E w \in Workers : \E f \in Files :
               /\ WorkerStep(w) /\ Upload(w, f) /\ At(w, "upload") /\ Busy(w)
               /\ drive' = drive \union {f} /\ owner'[f] = work[w].rec
               /\ \A g \in drive : owner'[g] = owner[g]
  <2> PICK w \in Workers, f \in Files :
               /\ WorkerStep(w) /\ Upload(w, f) /\ At(w, "upload") /\ Busy(w)
               /\ drive' = drive \union {f} /\ owner'[f] = work[w].rec
               /\ \A g \in drive : owner'[g] = owner[g]
    BY <1>3
  <2>1. \A g \in drive : owner[g] # work[w].rec
    BY DEF OneUpload, FilesOf
  <2>2. \A r \in Recordings : \A g, h \in FilesOf(r)' : g = h
    BY <2>1 DEF OneUpload, FilesOf
  <2>3. ASSUME NEW v \in Workers, At(v, "upload")'
        PROVE  \A g \in drive' : owner'[g] # work'[v].rec
    <3>1. wpc'[w] \in {"store", "note"}
      BY DEF Upload, With, GoOn, Typed, TypeOK, TypeOfQueue
    <3>2. v # w
      BY <2>3, <3>1 DEF At
    <3>3. At(v, "upload") /\ work'[v] = work[v] /\ Busy(v)
      BY <2>3, <3>2, OthersGoOn DEF At, Busy
    <3>4. work[v].rec # work[w].rec
      BY <1>1, <3>2, <3>3, AloneOnTheRow
    <3>5. \A g \in drive : owner[g] # work[v].rec
      BY <3>3 DEF OneUpload, FilesOf
    <3> QED BY <3>3, <3>4, <3>5
  <2> QED BY <2>2, <2>3 DEF OneUpload, FilesOf
<1> QED BY <1>2, <1>3, FilesGrow

\* A delivery that may still succeed: the recording is not being deleted, and is not
\* over for good.
Pending(r) == r \notin recalled /\ ~Dead(r)

DeliveryLabels ==
    {"recipient", "stage", "handles", "search", "upload", "store", "share", "store_permission", "finish"}

\* The handles of its row name what is there.
RowIsSound(r) ==
    /\ file[r] # NoFile => file[r] \in drive
    /\ permission[r] # NoFile => permission[r] = file[r] /\ permission[r] \in granted
    /\ state[r] = "ready" => permission[r] # NoFile

\* Its attempt does not lose the row, and what it knows is what the row says.
AttemptIsSound(w, r) ==
    /\ wpc[w] \notin {"scope", "undo", "forget"}
    /\ wpc[w] \in DeliveryLabels \/ (At(w, "reopen") /\ work[w].seen = "transferring") => Transferring(r)
    /\ wpc[w] \in {"search", "upload", "store"} => file[r] = NoFile /\ work[w].permission = NoFile
    /\ At(w, "store") => work[w].file \in drive
    /\ wpc[w] \in {"share", "store_permission", "finish"} => file[r] = work[w].file
    /\ At(w, "share") => work[w].permission = permission[r]
    /\ At(w, "store_permission") =>
           /\ permission[r] = NoFile
           /\ work[w].permission = work[w].file /\ work[w].file \in granted
    /\ At(w, "finish") => permission[r] # NoFile

DeliveriesAreSound ==
    \A r \in Recordings : Pending(r) =>
        /\ RowIsSound(r)
        /\ \A w \in Workers : Busy(w) /\ work[w].rec = r => AttemptIsSound(w, r)

\* The row and the media of r are left alone, but for what is added.
LeftAlone(r) ==
    /\ state'[r] = state[r] /\ file'[r] = file[r] /\ permission'[r] = permission[r]
    /\ \A f \in drive : owner[f] = r => f \in drive' /\ (f \in granted => f \in granted')

LEMMA RowStaysSound ==
    ASSUME Typed, FilesAreOwned, NEW r \in Recordings, RowIsSound(r), LeftAlone(r)
    PROVE  RowIsSound(r)'
<1>1. granted \subseteq drive
  BY DEF Typed, TypeOK, TypeOfMedia
<1> QED BY <1>1 DEF RowIsSound, LeftAlone, FilesAreOwned

LEMMA AttemptStaysSound ==
    ASSUME Typed, FilesAreOwned, NEW r \in Recordings, NEW v \in Workers, Busy(v), work[v].rec = r,
           AttemptIsSound(v, r), LeftAlone(r), wpc'[v] = wpc[v], work'[v] = work[v]
    PROVE  AttemptIsSound(v, r)'
<1>1. granted \subseteq drive /\ (wpc[v] \in FileLabels => work[v].file # NoFile)
  BY DEF Typed, TypeOK, TypeOfMedia, LocalsAgree
<1>2. At(v, "store") \/ At(v, "store_permission") => owner[work[v].file] = r
  BY <1>1 DEF FilesAreOwned, FileLabels, At
<1> QED BY <1>1, <1>2 DEF AttemptIsSound, LeftAlone, At, Transferring

\* What is not pending any more never is again.
LEMMA PendingBefore ==
    ASSUME Typed, [Next]_vars, NEW r \in Recordings, Pending(r)'
    PROVE  Pending(r)
<1>1. recalled \subseteq recalled'
  BY NextSplits, RowStepFrame DEF Deliver, Sweep, Crash, vars, historyVars
<1> QED BY <1>1, RowsGoOn DEF Pending

\* The steps of an attempt on the row of a pending delivery.
LEMMA AttemptOnRow ==
    ASSUME Typed, Typed', FilesAreOwned, NEW w \in Workers, WorkerStep(w), NEW r \in Recordings,
           Busy(w), work[w].rec = r, RowIsSound(r), AttemptIsSound(w, r), ~Dead(r)'
    PROVE  RowIsSound(r)' /\ (Busy(w)' => AttemptIsSound(w, r)')
<1>1. /\ wpc \in [Workers -> WorkerLabels] /\ work \in [Workers -> Work \union {NoWork}]
      /\ state \in [Recordings -> RowStates] /\ error \in [Recordings -> Errors]
      /\ file \in [Recordings -> MaybeFile] /\ permission \in [Recordings -> MaybeFile]
      /\ drive \subseteq Files /\ granted \subseteq drive /\ owner \in [Files -> Recordings \union {NoRecording}]
  BY DEF Typed, TypeOK, TypeOfMedia, TypeOfQueue
<1>2. work[w] \in Work /\ (wpc[w] \in FileLabels => work[w].file # NoFile)
  BY DEF Typed, LocalsAgree
<1>3. NoFile \notin drive /\ work[w].file \in MaybeFile /\ work[w].permission \in MaybeFile
  BY <1>1, <1>2, LocalsTyped, NoFileAssumption
<1> USE DEF mediaVars, handleVars, remoteVars
<1>4. ASSUME UNCHANGED mediaVars, NEW label \in WorkerLabels, GoOn(w, label),
             label \in {"note", "reschedule", "fail", "release", "idle"}
      PROVE  RowIsSound(r)' /\ AttemptIsSound(w, r)'
  BY <1>1, <1>4 DEF RowIsSound, AttemptIsSound, GoOn, At, DeliveryLabels
<1>5. CASE ReopenIfAsked(w) \/ ReadRecipient(w) \/ StageObject(w)
  BY <1>1, <1>5
  DEF ReopenIfAsked, ReadRecipient, StageObject, SetGcsObject, RowIsSound, AttemptIsSound, GoOn, At,
      DeliveryLabels, Transferring, MayReopen
<1>6. CASE ReadHandles(w)
  <2>1. /\ UNCHANGED mediaVars
        /\ wpc' = [wpc EXCEPT ![w] = IF file[r] = NoFile THEN "search" ELSE "share"]
    BY <1>6 DEF ReadHandles, With, GoOn
  <2>2. work'[w].file = file[r] /\ work'[w].permission = permission[r]
    BY <1>1, <1>2, <1>6 DEF ReadHandles, With, Work
  <2> QED BY <1>1, <1>6, <2>1, <2>2
      DEF ReadHandles, RowIsSound, AttemptIsSound, At, DeliveryLabels, Transferring
<1>7. CASE FindNoFile(w) \/ KeepPermission(w)
  BY <1>1, <1>7
  DEF FindNoFile, KeepPermission, IsShared, RowIsSound, AttemptIsSound, GoOn, At,
      DeliveryLabels, Transferring
<1>8. CASE \E f \in Files : FindExistingFile(w, f) \/ Upload(w, f)
  <2> PICK f \in Files : FindExistingFile(w, f) \/ Upload(w, f)
    BY <1>8
  <2>1. UNCHANGED <<state, file, permission, granted>> /\ f \in drive' /\ drive \subseteq drive'
    BY DEF FindExistingFile, Upload, MakeFile, FilesOf
  <2>2. At(w, "search") \/ At(w, "upload")
    BY DEF FindExistingFile, Upload
  <2>3. \/ GoOn(w, "store") /\ work' = [work EXCEPT ![w] = [work[w] EXCEPT !.file = f]]
        \/ GoOn(w, "note") /\ UNCHANGED work
    BY DEF FindExistingFile, Upload, With
  <2>4. RowIsSound(r)'
    BY <2>1 DEF RowIsSound
  <2>5. CASE GoOn(w, "store") /\ work' = [work EXCEPT ![w] = [work[w] EXCEPT !.file = f]]
    <3>1. work'[w].file = f /\ work'[w].permission = work[w].permission
      BY <1>1, <1>2, <2>5 DEF Work
    <3> QED BY <1>1, <2>1, <2>2, <2>4, <2>5, <3>1
        DEF AttemptIsSound, GoOn, At, DeliveryLabels, Transferring
  <2>6. CASE GoOn(w, "note")
    BY <1>1, <2>4, <2>6 DEF AttemptIsSound, GoOn, At, DeliveryLabels
  <2> QED BY <2>3, <2>5, <2>6
<1>9. CASE StoreFile(w)
  <2>1. TakesFile(r) /\ permission[r] = NoFile /\ work[w].permission = NoFile
    BY <1>9 DEF StoreFile, AttemptIsSound, RowIsSound, TakesFile, At, DeliveryLabels
  <2>2. /\ file' = [file EXCEPT ![r] = work[w].file] /\ GoOn(w, "share")
        /\ UNCHANGED <<state, permission, drive, granted, work>>
    BY <1>9, <2>1 DEF StoreFile, SetDriveFile
  <2>3. work[w].file \in drive
    BY <1>9 DEF StoreFile, AttemptIsSound
  <2> QED BY <1>1, <2>1, <2>2, <2>3
      DEF RowIsSound, AttemptIsSound, GoOn, At, DeliveryLabels, Transferring, TakesFile
<1>10. CASE Share(w)
  <2>1. /\ granted' = granted \union {work[w].file} /\ work[w].permission = NoFile
        /\ UNCHANGED <<state, file, permission, drive>>
    BY <1>10 DEF Share, IsShared
  <2>2. permission[r] = NoFile /\ file[r] = work[w].file /\ Transferring(r)
    BY <1>10, <2>1 DEF Share, AttemptIsSound, At, DeliveryLabels
  <2>3. RowIsSound(r)'
    BY <2>1 DEF RowIsSound
  <2>4. CASE With(w, "store_permission", [work[w] EXCEPT !.permission = work[w].file, !.gave = TRUE])
    <3>1. work'[w].file = work[w].file /\ work'[w].permission = work[w].file
      BY <1>1, <1>2, <2>4 DEF With, Work
    <3> QED BY <1>1, <2>1, <2>2, <2>3, <2>4, <3>1
        DEF With, GoOn, AttemptIsSound, At, DeliveryLabels, Transferring
  <2>5. CASE GoOn(w, "note")
    BY <1>1, <2>3, <2>5 DEF AttemptIsSound, GoOn, At, DeliveryLabels
  <2> QED BY <1>10, <2>4, <2>5 DEF Share
<1>11. CASE StorePermission(w)
  <2>1. /\ Transferring(r) /\ permission[r] = NoFile /\ file[r] = work[w].file
        /\ work[w].permission = work[w].file /\ work[w].file \in granted
    BY <1>11 DEF StorePermission, AttemptIsSound, At, DeliveryLabels
  <2>2. /\ permission' = [permission EXCEPT ![r] = work[w].permission] /\ GoOn(w, "finish")
        /\ UNCHANGED <<state, file, drive, granted, work>>
    BY <1>11, <2>1 DEF StorePermission, SetDrivePermission
  <2> QED BY <1>1, <1>3, <2>1, <2>2
      DEF RowIsSound, AttemptIsSound, GoOn, At, DeliveryLabels, Transferring
<1>12. CASE FinishDelivery(w)
  <2>1. Transferring(r) /\ permission[r] # NoFile
    BY <1>12 DEF FinishDelivery, AttemptIsSound, At, DeliveryLabels
  <2> QED BY <1>1, <1>12, <2>1
      DEF FinishDelivery, RowIsSound, AttemptIsSound, GoOn, At, DeliveryLabels
<1>13. CASE NoteFailure(w) \/ FailRecording(w)
  BY <1>1, <1>13
  DEF NoteFailure, FailRecording, Transition, RowIsSound, AttemptIsSound, GoOn, At, DeliveryLabels
<1>14. CASE CallFails(w) \/ RescheduleDelivery(w) \/ ReleaseRow(w)
  <2>1. UNCHANGED mediaVars /\ \E label \in {"note", "fail", "idle"} : GoOn(w, label)
    BY <1>14 DEF CallFails, RescheduleDelivery, ReleaseRow, Done, With
  <2> QED BY <1>4, <2>1 DEF WorkerLabels
<1>15. ~(ReadScope(w) \/ Undo(w) \/ UndoRefused(w) \/ Forget(w))
  BY DEF ReadScope, Undo, UndoRefused, Forget, AttemptIsSound, At
<1>16. ~\E o \in Recordings : ClaimDelivery(w, o)
  BY DEF ClaimDelivery, Busy
<1> QED BY <1>5, <1>6, <1>7, <1>8, <1>9, <1>10, <1>11, <1>12, <1>13, <1>14, <1>15, <1>16
        DEF WorkerStep

\* An attempt on another row takes nothing from this one.
LEMMA AttemptElsewhere ==
    ASSUME Typed, Typed', FilesAreOwned, NEW w \in Workers, WorkerStep(w), NEW r \in Recordings,
           ~(Busy(w) /\ work[w].rec = r)
    PROVE  LeftAlone(r)
<1>1. /\ file \in [Recordings -> MaybeFile] /\ permission \in [Recordings -> MaybeFile]
      /\ drive \subseteq Files /\ granted \subseteq drive
  BY DEF Typed, TypeOK, TypeOfMedia
<1>2. state'[r] = state[r]
  BY AttemptMoves DEF RowStays, NoteFailure, ReopenIfAsked, FinishDelivery, FailRecording, Busy, At
<1>3. file'[r] = file[r] /\ permission'[r] = permission[r]
  BY <1>1, HandlesGoOn
<1>4. \A f \in drive : owner[f] = r => f \in drive' /\ (f \in granted => f \in granted')
  <2>1. CASE \E f \in Files : Upload(w, f) /\ Unmade(f) /\ MakeFile(work[w].rec, f)
    BY <2>1 DEF MakeFile
  <2>2. CASE granted' = granted \union {work[w].file} /\ UNCHANGED <<bucket, drive, owner>>
    BY <2>2
  <2>3. CASE /\ Undo(w) /\ Busy(w) /\ At(w, "undo") /\ Head(work[w].undo) \in Calls
             /\ Releases(work[w].rec, Head(work[w].undo), work[w].file, work[w].permission)
    <3>1. owner[work[w].file] # r
      BY <2>3 DEF FilesAreOwned, FileLabels, Typed, LocalsAgree, At
    <3>2. drive \ {work[w].file} \subseteq drive' /\ granted \ {work[w].file} \subseteq granted'
      BY <2>3 DEF Releases, Calls
    <3> QED BY <3>1, <3>2
  <2> QED BY <2>1, <2>2, <2>3, RemoteGoesOn DEF remoteVars
<1> QED BY <1>2, <1>3, <1>4 DEF LeftAlone

\* Nor does a sweep from a row whose deletion has not begun.
LEMMA SweepElsewhere ==
    ASSUME Typed, FilesAreOwned, RowsAreServed, NEW s \in Sweepers, Sweep(s), NEW r \in Recordings,
           r \notin recalled
    PROVE  LeftAlone(r)
<1> DEFINE d == deletion[s]
<1>1. Deleting(s) => d.rec # r
  BY DEF RowsAreServed
<1>2. state'[r] = state[r] /\ file'[r] = file[r] /\ permission'[r] = permission[r]
  BY <1>1, SweepMoves, SweepTakesAway DEF RowStays
<1>3. /\ UNCHANGED drive \/ (drive' = drive \ {d.file} /\ Deleting(s) /\ d.file # NoFile)
      /\ UNCHANGED granted \/ (granted' = granted \ {d.file} /\ Deleting(s) /\ d.file # NoFile)
  BY SweepTakesAway
<1>4. Deleting(s) /\ d.file # NoFile => owner[d.file] = d.rec
  BY DEF FilesAreOwned
<1> QED BY <1>1, <1>2, <1>3, <1>4 DEF LeftAlone

\* A claim that is taken finds the row as it was left.
LEMMA ClaimIsSound ==
    ASSUME Typed, Typed', FilesAreOwned, NEW w \in Workers, NEW r \in Recordings,
           ClaimDelivery(w, r), RowIsSound(r)
    PROVE  RowIsSound(r)' /\ AttemptIsSound(w, r)'
<1>1. wpc \in [Workers -> WorkerLabels] /\ work \in [Workers -> Work \union {NoWork}]
  BY DEF Typed, TypeOK, TypeOfQueue
<1>2. UNCHANGED mediaVars /\ wpc'[w] = "reopen"
  BY <1>1 DEF ClaimDelivery, With, GoOn
<1>3. work'[w].seen = state[r]
  BY <1>1 DEF ClaimDelivery, With
<1>4. RowIsSound(r)'
  BY <1>2 DEF RowIsSound, mediaVars, handleVars, remoteVars
<1> QED BY <1>2, <1>3, <1>4 DEF AttemptIsSound, At, DeliveryLabels, Transferring, mediaVars

LEMMA SoundStep ==
    ASSUME Typed, Typed', FilesAreOwned, RowsAreServed, OneWorker, DeliveriesAreSound, [Next]_vars
    PROVE  DeliveriesAreSound'
<1> SUFFICES ASSUME NEW r \in Recordings, Pending(r)'
             PROVE  /\ RowIsSound(r)'
                    /\ \A v \in Workers : Busy(v)' /\ work'[v].rec = r => AttemptIsSound(v, r)'
  BY DEF DeliveriesAreSound
<1>1. /\ r \notin recalled /\ RowIsSound(r) /\ ~Dead(r)'
      /\ \A v \in Workers : Busy(v) /\ work[v].rec = r => AttemptIsSound(v, r)
  BY PendingBefore DEF DeliveriesAreSound, Pending
<1>2. ASSUME LeftAlone(r), NEW v \in Workers, Busy(v)', work'[v].rec = r,
             wpc'[v] = wpc[v], work'[v] = work[v]
      PROVE  AttemptIsSound(v, r)'
  BY <1>1, <1>2, AttemptStaysSound DEF Busy, At
<1>3. CASE \E w \in Workers : Deliver(w)
  <2> PICK w \in Workers : Deliver(w)
    BY <1>3
  <2>0. WorkerStep(w)
    BY DEF Deliver
  <2>1. ASSUME NEW v \in Workers \ {w} PROVE wpc'[v] = wpc[v] /\ work'[v] = work[v]
    BY <2>0, OthersGoOn
  <2>2. CASE Busy(w) /\ work[w].rec = r
    <3>1. RowIsSound(r)' /\ (Busy(w)' => AttemptIsSound(w, r)')
      BY <1>1, <2>0, <2>2, AttemptOnRow
    <3>2. ASSUME NEW v \in Workers \ {w} PROVE ~(Busy(v)' /\ work'[v].rec = r)
      BY <2>1, <2>2, AloneOnTheRow DEF Busy, At
    <3> QED BY <3>1, <3>2
  <2>3. CASE ClaimDelivery(w, r)
    <3>1. RowIsSound(r)' /\ AttemptIsSound(w, r)'
      BY <1>1, <2>3, ClaimIsSound
    <3>2. ASSUME NEW v \in Workers \ {w} PROVE ~(Busy(v)' /\ work'[v].rec = r)
      BY <2>1, <2>3, AloneOnTheRow DEF Busy, At
    <3> QED BY <3>1, <3>2
  <2>4. CASE ~(Busy(w) /\ work[w].rec = r) /\ ~ClaimDelivery(w, r)
    <3>1. LeftAlone(r)
      BY <2>0, <2>4, AttemptElsewhere
    <3>2. ~(Busy(w)' /\ work'[w].rec = r)
      BY <2>0, <2>4, LocalsGoOn
    <3> QED BY <1>1, <1>2, <2>1, <3>1, <3>2, RowStaysSound
  <2> QED BY <2>2, <2>3, <2>4
<1>4. CASE \E s \in Sweepers : Sweep(s)
  <2>1. LeftAlone(r) /\ UNCHANGED workerVars
    BY <1>1, <1>4, SweepElsewhere DEF Sweep
  <2> QED BY <1>1, <1>2, <2>1, RowStaysSound DEF workerVars
<1>5. CASE \E o \in Recordings : RowStep(o)
  <2>1. UNCHANGED <<workerVars, file, permission, drive, granted, owner>>
    BY <1>5, RowStepFrame DEF handleVars
  <2>2. CASE state'[r] = state[r]
    <3>1. LeftAlone(r)
      BY <2>1, <2>2 DEF LeftAlone
    <3> QED BY <1>1, <1>2, <2>1, <3>1, RowStaysSound DEF workerVars
  <2>3. CASE state'[r] # state[r]
    <3>1. state[r] = "finalizing" /\ state'[r] = "transferring"
      BY <1>1, <1>5, <2>3, OthersMoves DEF RowStays, RowMoves, Dead
    <3>2. RowIsSound(r)'
      BY <1>1, <2>1, <3>1 DEF RowIsSound
    <3>3. ASSUME NEW v \in Workers PROVE ~(Busy(v)' /\ work'[v].rec = r)
      BY <2>1, <3>1 DEF RowsAreServed, RowIsServed, Begun, workerVars, Busy, At
    <3> QED BY <3>2, <3>3
  <2> QED BY <2>2, <2>3
<1>6. CASE Crash \/ UNCHANGED vars
  <2>1. LeftAlone(r)
    BY <1>6 DEF Crash, vars, mediaVars, handleVars, remoteVars, LeftAlone
  <2>2. ASSUME NEW v \in Workers, Busy(v)' PROVE wpc'[v] = wpc[v] /\ work'[v] = work[v]
    BY <1>6, <2>2 DEF Crash, vars, WorkerDies, SweeperDies, WithdrawalDies, Done, With, GoOn,
                      workerVars, Busy, At, Typed, TypeOK, TypeOfQueue
  <2> QED BY <1>1, <1>2, <2>1, <2>2, RowStaysSound
<1> QED BY <1>3, <1>4, <1>5, <1>6, NextSplits

SoundInv == MediaInv /\ OneWorker /\ OneUpload /\ DeliveriesAreSound

LEMMA SoundInvAlways == ASSUME ~MayOutlive PROVE Spec => []SoundInv
<1>1. Init => SoundInv
  <2>1. Init => MediaInv
    BY TypedInit, OwnedInit, ServedInit, KnownInit DEF MediaInv
  <2>2. Init => OneWorker /\ OneUpload /\ DeliveriesAreSound
    BY DEF Init, InitMedia, InitQueue, OneWorker, OneUpload, DeliveriesAreSound, RowIsSound,
           FilesOf, Busy, At
  <2> QED BY <2>1, <2>2 DEF SoundInv
<1>2. SoundInv /\ [Next]_vars => SoundInv'
  <2> SUFFICES ASSUME SoundInv, [Next]_vars PROVE SoundInv'
    OBVIOUS
  <2>1. MediaInv'
    BY TypedStep, OwnedStep, ServedStep, KnownStep DEF SoundInv, MediaInv
  <2>2. OneWorker' /\ OneUpload' /\ DeliveriesAreSound'
    BY <2>1, OneWorkerStep, OneUploadStep, SoundStep DEF SoundInv, MediaInv
  <2> QED BY <2>1, <2>2 DEF SoundInv
<1> QED BY <1>1, <1>2, PTL DEF Spec

\* Where an attempt is done within the hour of its claim, a recording has one file
\* in the Shared Drive: transfer looks for the one an earlier attempt made, whatever
\* became of its answer, and nobody uploads meanwhile.
THEOREM OneFileEach == ASSUME ~MayOutlive PROVE Spec => []OneFile
<1>1. SoundInv => OneFile
  <2> SUFFICES ASSUME SoundInv, NEW r \in Recordings PROVE Cardinality(FilesOf(r)) <= 1
    BY DEF OneFile
  <2>1. CASE FilesOf(r) = {}
    BY <2>1, FS_EmptySet
  <2>2. CASE FilesOf(r) # {}
    <3> PICK f \in FilesOf(r) : TRUE
      BY <2>2
    <3>1. FilesOf(r) = {f}
      BY DEF SoundInv, OneUpload
    <3>2. Cardinality({f}) = 1
      BY FS_Singleton
    <3> QED BY <3>1, <3>2
  <2> QED BY <2>1, <2>2
<1> QED BY <1>1, SoundInvAlways, PTL

\* And where it is, a recording that was delivered names a file that is there and
\* that its recipient may read, until its deletion begins.
THEOREM DeliveredIsReadable == ASSUME ~MayOutlive PROVE Spec => []ReadyMeansReadable
<1>1. SoundInv => ReadyMeansReadable
  BY NoFileAssumption
  DEF SoundInv, DeliveriesAreSound, RowIsSound, Pending, Dead, ReadyMeansReadable, MediaInv, Typed,
      TypeOK, TypeOfMedia
<1> QED BY <1>1, SoundInvAlways, PTL

=============================================================================
