--------------------------- MODULE DeliveryQueue ---------------------------
(***************************************************************************)
(* The delivery queue and the workers that serve it, one per process: a    *)
(* worker claims a due row, reopens the recording if it was asked to, and  *)
(* takes it through the steps of a delivery, each of which writes down     *)
(* what it made before the next one may use it.  A worker that loses its   *)
(* row cleans up after itself; one that fails gives the row back for the   *)
(* next attempt, or gives the recording up.                                *)
(*                                                                         *)
(* Every statement and every call is one step, and between two of them     *)
(* anything may happen to the row.                                         *)
(***************************************************************************)
EXTENDS MediaStore, Sequences

CONSTANTS
    Workers,
    NoWorker,       \* a null claim
    Attempts        \* DELIVERY_ATTEMPTS

ASSUME NoWorkerAssumption == NoWorker \notin Workers
ASSUME AttemptsAssumption == Attempts \in Nat \ {0}

VARIABLES
    (* delivery_queue *)
    queued,     \* the recordings that have a row; the rest is as in a new
                \* row for those that have none
    attempts,   \* its attempts, which nothing tells apart past the last
    claim,      \* the worker whose current attempt claimed the row last
    expired,    \* the rows claimed longer ago than a claim is honoured
    later,      \* the rows whose run_after has not passed
    (* the workers *)
    wpc,        \* the step each worker is at
    work        \* the locals of its attempt

queueVars == <<queued, attempts, claim, expired, later>>
workerVars == <<wpc, work>>

WorkerLabels ==
    {"idle", "reopen", "recipient", "stage", "handles", "search", "upload", "store",
     "share", "store_permission", "finish", "note", "scope", "undo", "forget",
     "reschedule", "fail", "release"}

\* rec: the recording; seen: the state it was claimed in; file: the file it
\* delivers and whether this attempt answers for it; granted: the file its
\* permission is on and whether this attempt granted it; undo: what is left
\* of its cleanup.
Work ==
    [rec : Recordings, seen : RowStates, file : MaybeFile, made : BOOLEAN,
     permission : MaybeFile, gave : BOOLEAN, undo : Seq({"revoke", "file", "object"})]
NoWork == [rec |-> NoRecording]

TypeOfQueue ==
    /\ queued \subseteq Recordings
    /\ attempts \in [Recordings -> 0..Attempts]
    /\ claim \in [Recordings -> Workers \union {NoWorker}]
    /\ expired \subseteq queued /\ later \subseteq queued
    /\ \A r \in Recordings \ queued : attempts[r] = 0 /\ claim[r] = NoWorker
    /\ wpc \in [Workers -> WorkerLabels]
    /\ work \in [Workers -> Work \union {NoWork}]

InitQueue ==
    /\ queued = {} /\ expired = {} /\ later = {}
    /\ attempts = [r \in Recordings |-> 0]
    /\ claim = [r \in Recordings |-> NoWorker]
    /\ wpc = [w \in Workers |-> "idle"]
    /\ work = [w \in Workers |-> NoWork]

(***************************************************************************)
(* The rows of the queue.                                                  *)
(***************************************************************************)
\* INSERT ... ON CONFLICT DO NOTHING, of enqueue_delivery and of
\* requeue_orphaned_deliveries: a new row is due and nobody's.
Enqueue(more) ==
    /\ queued' = queued \union more
    /\ UNCHANGED <<attempts, claim, expired, later>>

\* Mutant: the worker that ends an attempt drops the row whoever holds it.
AnybodysClaim(w, r) == r \in queued

\* The claim the row has is the one this attempt took.
Holds(w, r) == claim[r] = w

\* finish_delivery_work.
DropRow(w, r) ==
    IF Holds(w, r)
        THEN /\ queued' = queued \ {r}
             /\ attempts' = [attempts EXCEPT ![r] = 0]
             /\ claim' = [claim EXCEPT ![r] = NoWorker]
             /\ expired' = expired \ {r}
             /\ later' = later \ {r}
        ELSE UNCHANGED queueVars

ClaimExpires(r) ==
    /\ claim[r] # NoWorker /\ r \notin expired
    /\ expired' = expired \union {r}
    /\ UNCHANGED <<queued, attempts, claim, later>>

BackoffPasses(r) ==
    /\ r \in later
    /\ later' = later \ {r}
    /\ UNCHANGED <<queued, attempts, claim, expired>>

(***************************************************************************)
(* One attempt.                                                            *)
(***************************************************************************)
\* The attempt of w goes on at a label, with these locals.
At(w, label) == wpc[w] = label
GoOn(w, label) == wpc' = [wpc EXCEPT ![w] = label]
With(w, label, locals) == GoOn(w, label) /\ work' = [work EXCEPT ![w] = locals]
Done(w) == With(w, "idle", NoWork)

\* Mutant: a claim is honoured for ever.
HonouredForEver(r) == claim[r] = NoWorker

\* Nobody holds the row, or whoever did is not coming back for it.
Claimable(r) == claim[r] = NoWorker \/ r \in expired

\* claim_delivery, which reads the recording in the same transaction.
ClaimDelivery(w, r) ==
    /\ At(w, "idle")
    /\ r \in queued \ later /\ Claimable(r)
    /\ claim' = [claim EXCEPT ![r] = w]
    /\ attempts' = [attempts EXCEPT ![r] = IF @ < Attempts THEN @ + 1 ELSE @]
    /\ expired' = expired \ {r}
    /\ With(w, "reopen", [rec |-> r, seen |-> state[r], file |-> NoFile, made |-> FALSE,
                          permission |-> NoFile, gave |-> FALSE, undo |-> <<>>])
    /\ UNCHANGED <<queued, later, mediaVars>>

\* recordings_one_active_per_account, with every row on one account.
OthersInactive(r) == \A o \in Recordings \ {r} : ~IsActive(state[o])

MayReopen(r) == state[r] = "failed" /\ error[r] = "drive_failed" /\ OthersInactive(r)

\* reopen_if_asked, whose statement reopen_delivery guards itself.
ReopenIfAsked(w) ==
    LET r == work[w].rec
    IN  /\ At(w, "reopen")
        /\ \/ /\ work[w].seen = "failed" /\ MayReopen(r)
              /\ state' = [state EXCEPT ![r] = "transferring"]
              /\ GoOn(w, "recipient")
           \/ /\ ~(work[w].seen = "failed" /\ MayReopen(r))
              /\ UNCHANGED state
              /\ GoOn(w, IF work[w].seen = "transferring" THEN "recipient" ELSE "release")
        /\ UNCHANGED <<error, handleVars, remoteVars, queueVars, work>>

\* recipient_of: a tombstone has no address any more.
ReadRecipient(w) ==
    /\ At(w, "recipient")
    /\ GoOn(w, IF state[work[w].rec] = "deleted" THEN "fail" ELSE "stage")
    /\ UNCHANGED <<mediaVars, queueVars, work>>

\* stage_object.
StageObject(w) ==
    LET r == work[w].rec
    IN  /\ At(w, "stage")
        /\ IF Transferring(r)
               THEN SetGcsObject(r) /\ GoOn(w, "handles")
               ELSE UNCHANGED handleVars /\ GoOn(w, "note")
        /\ UNCHANGED <<state, error, remoteVars, queueVars, work>>

\* upload_file reads what an earlier attempt left, and uses it if it can.
ReadHandles(w) ==
    LET r == work[w].rec
    IN  /\ At(w, "handles")
        /\ With(w, IF file[r] = NoFile THEN "search" ELSE "share",
                [work[w] EXCEPT !.file = file[r], !.made = file[r] = NoFile,
                                !.permission = permission[r]])
        /\ UNCHANGED <<mediaVars, queueVars>>

\* A call that failed, or whose answer said so.
CallFails(w) ==
    /\ wpc[w] \in {"search", "upload", "share"}
    /\ GoOn(w, "note")
    /\ UNCHANGED <<mediaVars, queueVars, work>>

\* transfer looks for a file that carries the recording's id, whichever
\* attempt uploaded it, before it uploads another.
FindExistingFile(w, f) ==
    /\ At(w, "search")
    /\ f \in FilesOf(work[w].rec)
    /\ With(w, "store", [work[w] EXCEPT !.file = f])
    /\ UNCHANGED <<mediaVars, queueVars>>

\* Mutant: the upload is not preceded by the search.
UploadUnasked(w) ==
    /\ At(w, "search")
    /\ GoOn(w, "upload")
    /\ UNCHANGED <<mediaVars, queueVars, work>>

FindNoFile(w) ==
    /\ At(w, "search")
    /\ FilesOf(work[w].rec) = {}
    /\ GoOn(w, "upload")
    /\ UNCHANGED <<mediaVars, queueVars, work>>

\* The last chunk makes the file, whether or not its answer arrives.
Upload(w, f) ==
    LET r == work[w].rec
    IN  /\ At(w, "upload")
        /\ r \in bucket /\ Unmade(f)
        /\ MakeFile(r, f)
        /\ \/ With(w, "store", [work[w] EXCEPT !.file = f])
           \/ GoOn(w, "note") /\ UNCHANGED work
        /\ UNCHANGED <<state, error, handleVars, queueVars>>

\* Mutant: set_drive_file without its IS NULL.
TransferringIsEnough(r) == Transferring(r)

\* set_drive_file's WHERE.
TakesFile(r) == Transferring(r) /\ file[r] = NoFile

StoreFile(w) ==
    LET r == work[w].rec
    IN  /\ At(w, "store")
        /\ IF TakesFile(r)
               THEN SetDriveFile(r, work[w].file) /\ GoOn(w, "share")
               ELSE UNCHANGED handleVars /\ GoOn(w, "scope")
        /\ UNCHANGED <<state, error, remoteVars, queueVars, work>>

\* Mutant: a file an earlier attempt made is taken for a file it shared.
ReusedMeansShared(w) == ~work[w].made

\* An earlier attempt granted the permission, and the row names it.
IsShared(w) == work[w].permission # NoFile

\* share_file keeps the permission an earlier attempt granted ...
KeepPermission(w) ==
    /\ At(w, "share")
    /\ IsShared(w)
    /\ GoOn(w, "finish")
    /\ UNCHANGED <<mediaVars, queueVars, work>>

\* ... or grants one, whether or not the answer arrives.
Share(w) ==
    LET f == work[w].file
    IN  /\ At(w, "share")
        /\ ~IsShared(w)
        /\ f \in drive
        /\ granted' = granted \union {f}
        /\ \/ With(w, "store_permission", [work[w] EXCEPT !.permission = f, !.gave = TRUE])
           \/ GoOn(w, "note") /\ UNCHANGED work
        /\ UNCHANGED <<state, error, handleVars, bucket, drive, owner, queueVars>>

StorePermission(w) ==
    LET r == work[w].rec
    IN  /\ At(w, "store_permission")
        /\ IF Transferring(r) /\ permission[r] = NoFile
               THEN SetDrivePermission(r, work[w].permission) /\ GoOn(w, "finish")
               ELSE UNCHANGED handleVars /\ GoOn(w, "scope")
        /\ UNCHANGED <<state, error, remoteVars, queueVars, work>>

\* finish_delivery.
FinishDelivery(w) ==
    LET r == work[w].rec
    IN  /\ At(w, "finish")
        /\ IF Transferring(r)
               THEN /\ state' = [state EXCEPT ![r] = "ready"]
                    /\ error' = [error EXCEPT ![r] = "none"]
                    /\ GoOn(w, "release")
               ELSE UNCHANGED <<state, error>> /\ GoOn(w, "scope")
        /\ UNCHANGED <<handleVars, remoteVars, queueVars, work>>

\* record_delivery_failure.
NoteFailure(w) ==
    LET r == work[w].rec
    IN  /\ At(w, "note")
        /\ error' = IF Transferring(r) THEN [error EXCEPT ![r] = "drive_failed"] ELSE error
        /\ GoOn(w, "reschedule")
        /\ UNCHANGED <<state, handleVars, remoteVars, queueVars, work>>

(***************************************************************************)
(* Losing the row: clean_up_after_losing.                                  *)
(***************************************************************************)
\* Mutant: the staged object goes with whatever this attempt made.
ObjectGoesToo(r) == TRUE

\* cleanup_scope: the staged object goes only when the recording is over and
\* no retry of its delivery can want it.
ObjectMayGo(r) ==
    error[r] # "drive_failed" /\ state[r] \in {"failed", "cleanup_failed", "deleted"}

\* What this attempt made goes, unless the provider still owns the row.
MineMayGo(r) == error[r] = "drive_failed" \/ state[r] \notin ProviderOwned

ReadScope(w) ==
    LET r == work[w].rec
        mine == MineMayGo(r)
        undo == (IF mine /\ work[w].gave THEN <<"revoke">> ELSE <<>>)
                  \o (IF mine /\ work[w].made THEN <<"file">> ELSE <<>>)
                  \o (IF ObjectMayGo(r) THEN <<"object">> ELSE <<>>)
    IN  /\ At(w, "scope")
        /\ With(w, IF undo = <<>> THEN "reschedule" ELSE "undo",
                [work[w] EXCEPT !.undo = undo, !.made = mine /\ @])
        /\ UNCHANGED <<mediaVars, queueVars>>

\* revoke_and_delete, one call after the other, until one is refused.
Undo(w) ==
    LET r == work[w].rec
        rest == Tail(work[w].undo)
    IN  /\ At(w, "undo")
        /\ Releases(r, Head(work[w].undo), work[w].file, work[w].permission)
        /\ With(w, CASE rest # <<>> -> "undo"
                     [] rest = <<>> /\ work[w].made -> "forget"
                     [] OTHER -> "reschedule",
                [work[w] EXCEPT !.undo = rest])
        /\ UNCHANGED <<state, error, handleVars, queueVars>>

UndoRefused(w) ==
    /\ At(w, "undo")
    /\ GoOn(w, "reschedule")
    /\ UNCHANGED <<mediaVars, queueVars, work>>

Forget(w) ==
    /\ At(w, "forget")
    /\ ForgetDriveFile(work[w].rec, work[w].file)
    /\ GoOn(w, "reschedule")
    /\ UNCHANGED <<state, error, remoteVars, queueVars, work>>

(***************************************************************************)
(* Ending the attempt.                                                     *)
(***************************************************************************)
\* reschedule_delivery: again later, out of attempts, or not ours any more.
RescheduleDelivery(w) ==
    LET r == work[w].rec
    IN  /\ At(w, "reschedule")
        /\ \/ /\ Holds(w, r) /\ attempts[r] < Attempts
              /\ claim' = [claim EXCEPT ![r] = NoWorker]
              /\ later' = later \union {r}
              /\ expired' = expired \ {r}
              /\ Done(w)
              /\ UNCHANGED <<queued, attempts>>
           \/ /\ Holds(w, r) /\ attempts[r] = Attempts
              /\ GoOn(w, "fail")
              /\ UNCHANGED <<queueVars, work>>
           \/ /\ ~Holds(w, r)
              /\ Done(w)
              /\ UNCHANGED queueVars
        /\ UNCHANGED mediaVars

\* Mutant: fail_and_release releases the row before it fails the recording.
ReleaseFirst(w) ==
    LET r == work[w].rec
    IN  /\ At(w, "fail")
        /\ \/ Holds(w, r) /\ DropRow(w, r) /\ UNCHANGED <<state, error, workerVars>>
           \/ /\ ~Holds(w, r) /\ UNCHANGED queueVars
              /\ Transition(r, "failed", "drive_failed")
              /\ Done(w)
        /\ UNCHANGED <<handleVars, remoteVars>>

\* fail_and_release: the recording first,
FailRecording(w) ==
    LET r == work[w].rec
    IN  /\ At(w, "fail")
        /\ Transition(r, "failed", "drive_failed")
        /\ GoOn(w, "release")
        /\ UNCHANGED <<handleVars, remoteVars, queueVars, work>>

\* and the queue row after it.
ReleaseRow(w) ==
    /\ At(w, "release")
    /\ DropRow(w, work[w].rec)
    /\ Done(w)
    /\ UNCHANGED mediaVars

WorkerStep(w) ==
    \/ \E r \in Recordings : ClaimDelivery(w, r)
    \/ ReopenIfAsked(w) \/ ReadRecipient(w)
    \/ StageObject(w) \/ ReadHandles(w)
    \/ \E f \in Files : FindExistingFile(w, f) \/ Upload(w, f)
    \/ FindNoFile(w) \/ CallFails(w) \/ StoreFile(w)
    \/ KeepPermission(w) \/ Share(w) \/ StorePermission(w)
    \/ FinishDelivery(w) \/ NoteFailure(w)
    \/ ReadScope(w) \/ Undo(w) \/ UndoRefused(w) \/ Forget(w)
    \/ RescheduleDelivery(w) \/ FailRecording(w) \/ ReleaseRow(w)
=============================================================================
