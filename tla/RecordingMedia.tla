--------------------------- MODULE RecordingMedia ---------------------------
(***************************************************************************)
(* The media of recordings from the end of the Egress job to the           *)
(* tombstone: the delivery workers (DeliveryQueue) and the sweeps          *)
(* (Retention) of all processes on one store (MediaStore), and everybody   *)
(* else who moves a row meanwhile - the webhook that completes it, a       *)
(* withdrawal, the kill switch and the stale sweep, and the operator.      *)
(***************************************************************************)
EXTENDS DeliveryQueue, Retention

CONSTANTS
    Endings,        \* why else than its delivery a recording may end here
    MayRetryDelivery, \* whether an operator retries failed deliveries
    MayOutlive,     \* whether an attempt may run for longer than its claim
    MaxFaults       \* bound: how many actors are dropped mid-way, or outlive
                    \* their claim

ASSUME EndingsAssumption ==
    Endings \subseteq {"consent_withdrawn", "kill_switch", "abandoned"}
ASSUME BoundsAssumption == {MayRetryDelivery, MayOutlive} \subseteq BOOLEAN /\ MaxFaults \in Nat

VARIABLES
    completing,  \* the recordings whose webhook has yet to queue the delivery
    withdrawing, \* the recordings whose withdrawal has yet to move the row
    strays,      \* files whose upload, or whose cleanup, was cut short
    recalled,    \* the recordings whose deletion has begun
    faults       \* how many actors were dropped, or outlived a claim

requestVars == <<completing, withdrawing>>
historyVars == <<strays, recalled, faults>>
vars == <<mediaVars, queueVars, workerVars, retentionVars, requestVars, historyVars>>

TypeOK ==
    /\ TypeOfMedia
    /\ TypeOfQueue
    /\ TypeOfRetention
    /\ completing \subseteq Recordings
    /\ withdrawing \subseteq Recordings
    /\ strays \subseteq Files
    /\ recalled \subseteq Recordings
    /\ faults \in Nat

Init ==
    /\ InitMedia /\ InitQueue /\ InitRetention
    /\ completing = {} /\ withdrawing = {}
    /\ strays = {} /\ recalled = {} /\ faults = 0

(***************************************************************************)
(* Workers and sweepers.                                                   *)
(***************************************************************************)
\* A file is cut off from its attempt when the answer that names it is lost,
\* or the call that would delete it is refused.
CutShort(w) ==
    CASE At(w, "upload") /\ wpc'[w] = "note" -> drive' \ drive
      [] At(w, "undo") /\ work'[w] = work[w] /\ work[w].made -> {work[w].file}
      [] OTHER -> {}

Deliver(w) ==
    /\ WorkerStep(w)
    /\ strays' = strays \union CutShort(w)
    /\ UNCHANGED <<retentionVars, requestVars, recalled, faults>>

Sweep(s) ==
    /\ \/ BeginSweep(s) /\ Enqueue({r \in Recordings : Transferring(r)})
       \/ DeletionStep(s) /\ UNCHANGED queueVars
    /\ recalled' = recalled \union ({deletion'[s].rec} \ {NoRecording})
    /\ UNCHANGED <<workerVars, requestVars, strays, faults>>

(***************************************************************************)
(* Requests, the operator and the clock.                                   *)
(***************************************************************************)
OnlyTheRow == UNCHANGED <<handleVars, drive, owner, granted, workerVars, spc, due,
                          deletion, historyVars>>

\* The Egress job writes its file to the bucket,
EgressWrites(r) ==
    /\ state[r] = "finalizing" /\ r \notin bucket
    /\ bucket' = bucket \union {r}
    /\ UNCHANGED <<state, error, queueVars, withdrawn, requestVars>>
    /\ OnlyTheRow

\* the webhook of its completion moves the row,
Completes(r) ==
    /\ state[r] = "finalizing" /\ r \in bucket
    /\ Transition(r, "transferring", "none")
    /\ completing' = completing \union {r}
    /\ UNCHANGED <<bucket, queueVars, withdrawn, withdrawing>>
    /\ OnlyTheRow

\* and queues the delivery, unless the request is dropped or the insert fails.
QueuesDelivery(r) ==
    /\ r \in completing
    /\ completing' = completing \ {r}
    /\ Enqueue({r}) \/ UNCHANGED queueVars
    /\ UNCHANGED <<state, error, bucket, withdrawn, withdrawing>>
    /\ OnlyTheRow

\* The withdrawal is written first, and the row moves after it if it is
\* active.
WithdrawConsent(r) ==
    /\ "consent_withdrawn" \in Endings
    /\ withdrawn' = withdrawn \union {r}
    /\ withdrawing' = withdrawing \union {r}
    /\ UNCHANGED <<state, error, bucket, queueVars, completing>>
    /\ OnlyTheRow

WithdrawalMovesRow(r) ==
    /\ r \in withdrawing
    /\ withdrawing' = withdrawing \ {r}
    /\ IF IsActive(state[r])
           THEN Transition(r, "failed", "consent_withdrawn")
           ELSE UNCHANGED <<state, error>>
    /\ UNCHANGED <<bucket, queueVars, withdrawn, completing>>
    /\ OnlyTheRow

\* The kill switch, or a sweep that read the row as stale before it was
\* queued: what it wrote over, a failed attempt's note included, is lost.
EndsOtherwise(r, why) ==
    /\ why \in Endings \ {"consent_withdrawn"}
    /\ IsActive(state[r])
    /\ Transition(r, "failed", why)
    /\ UNCHANGED <<bucket, queueVars, withdrawn, requestVars>>
    /\ OnlyTheRow

\* A row does not stay in "finalizing": EgressControl's NoRowSitsForever.
FinalizingEnds(r) ==
    state[r] = "finalizing" /\ (Completes(r) \/ EndsOtherwise(r, "abandoned"))

\* The operator inserts a queue row for a delivery that failed.
OperatorRetries(r) ==
    /\ MayRetryDelivery
    /\ state[r] = "failed" /\ error[r] = "drive_failed" /\ r \notin queued
    /\ Enqueue({r})
    /\ UNCHANGED <<state, error, bucket, withdrawn, requestVars>>
    /\ OnlyTheRow

\* A claim is honoured for an hour, and its holder is done by then or gone.
\* A webhook that is about to queue the delivery does so within a backoff.
TimePasses(r) ==
    /\ \/ ClaimExpires(r) /\ work[claim[r]] = NoWork
       \/ BackoffPasses(r) /\ r \notin completing
    /\ UNCHANGED <<state, error, bucket, withdrawn, requestVars>>
    /\ OnlyTheRow

\* The steps at which the hour of a claim may be over after all: a search, an
\* upload or a grant has been going on, or has just ended.
LongAfterClaim(w) == wpc[w] \notin {"idle", "reopen", "recipient", "stage", "handles"}

ClaimIsOutlived(r) ==
    /\ MayOutlive /\ faults < MaxFaults
    /\ ClaimExpires(r) /\ LongAfterClaim(claim[r])
    /\ faults' = faults + 1
    /\ UNCHANGED <<mediaVars, workerVars, retentionVars, requestVars, strays, recalled>>

(***************************************************************************)
(* What can go away.  A file whose id only a dropped attempt knew is cut   *)
(* off from it.                                                            *)
(***************************************************************************)
Knows(w) == IF wpc[w] \in {"store", "scope", "undo"} THEN {work[w].file} \ {NoFile} ELSE {}

WorkerDies(w) ==
    /\ wpc[w] # "idle"
    /\ Done(w)
    /\ strays' = strays \union Knows(w)
    /\ UNCHANGED <<spc, due, deletion, requestVars>>

SweeperDies(s) ==
    /\ spc[s] # "idle"
    /\ spc' = [spc EXCEPT ![s] = "idle"]
    /\ due' = [due EXCEPT ![s] = {}]
    /\ deletion' = [deletion EXCEPT ![s] = NoDeletion]
    /\ UNCHANGED <<workerVars, requestVars, strays>>

WithdrawalDies(r) ==
    /\ r \in withdrawing
    /\ withdrawing' = withdrawing \ {r}
    /\ UNCHANGED <<workerVars, spc, due, deletion, completing, strays>>

Crash ==
    /\ faults < MaxFaults
    /\ faults' = faults + 1
    /\ \/ \E w \in Workers : WorkerDies(w)
       \/ \E s \in Sweepers : SweeperDies(s)
       \/ \E r \in Recordings : WithdrawalDies(r)
    /\ UNCHANGED <<mediaVars, queueVars, withdrawn, recalled>>

Next ==
    \/ \E w \in Workers : Deliver(w)
    \/ \E s \in Sweepers : Sweep(s)
    \/ \E r \in Recordings :
        \/ EgressWrites(r) \/ Completes(r) \/ QueuesDelivery(r)
        \/ WithdrawConsent(r) \/ WithdrawalMovesRow(r)
        \/ \E why \in Endings : EndsOtherwise(r, why)
        \/ OperatorRetries(r)
        \/ TimePasses(r) \/ ClaimIsOutlived(r)
    \/ Crash

\* Workers and sweepers keep running and time passes.  Of the provider it is
\* assumed that an outage ends: a release that is asked for again and again
\* is granted at last.
Fairness ==
    /\ \A w \in Workers : WF_vars(Deliver(w))
    /\ \A s \in Sweepers : WF_vars(Sweep(s)) /\ SF_vars(Release(s) /\ Sweep(s))
    /\ \A r \in Recordings : /\ WF_vars(TimePasses(r)) /\ WF_vars(FinalizingEnds(r))
                            /\ WF_vars(QueuesDelivery(r)) /\ WF_vars(WithdrawalMovesRow(r))

Spec == Init /\ [][Next]_vars
FairSpec == Spec /\ Fairness

(***************************************************************************)
(* Safety.                                                                 *)
(***************************************************************************)
\* A recording that is "ready" names a file that is there and that the
\* recipient may read, until its deletion begins: no handle of an earlier
\* attempt, of another worker's or of a cleanup that lost survives into it.
ReadyMeansReadable ==
    \A r \in Recordings \ recalled :
        state[r] = "ready" =>
            /\ file[r] \in drive
            /\ permission[r] = file[r] /\ file[r] \in granted

\* A recording has one file in the Shared Drive, however many attempts it
\* took and whatever became of their answers.
OneFile == \A r \in Recordings : Cardinality(FilesOf(r)) <= 1

\* Until its deletion begins, a file of the Shared Drive is one its row names,
\* one an attempt is about to write down or to delete, or one whose upload or
\* cleanup was cut short: no retry and no second worker leaves one behind.
NoStrayFile ==
    \A f \in drive :
        \/ file[owner[f]] = f
        \/ owner[f] \in recalled
        \/ \E w \in Workers : f \in Knows(w)
        \/ f \in strays

\* A queue row is not dropped while its recording still owes a delivery.
NoDeliveryIsDropped ==
    [][\A r \in Recordings :
        r \in queued /\ r \notin queued' => state[r] # "transferring"]_vars

\* The staged object is not deleted under a delivery that may still want it.
ObjectOutlivesDelivery ==
    [][\A r \in Recordings :
        r \in bucket /\ r \notin bucket' /\ (\E w \in Workers : At(w, "undo") /\ wpc'[w] # "undo")
            => ~(Transferring(r) \/ (state[r] = "failed" /\ error[r] = "drive_failed"))]_vars

\* The delivery side makes only the moves EgressControl expects of it, and
\* the rest here are moves EgressControl makes.
Contract == INSTANCE DeliveryContract
KeepsContract == Contract!Spec

(***************************************************************************)
(* Liveness.                                                               *)
(***************************************************************************)
\* A recording that owes a delivery is delivered or ends.
DeliveryEnds == \A r \in Recordings : Transferring(r) ~> ~Transferring(r)

\* The media of a candidate who withdrew is deleted, whatever state the
\* recording was in.
WithdrawnIsDeleted ==
    \A r \in Recordings : r \in withdrawn ~> state[r] = "deleted"

(***************************************************************************)
(* What a comment of the code says and the code does not do.               *)
(***************************************************************************)
\* No recording is delivered after its candidate's withdrawal was answered:
\* that would hand out a file that has been recalled (deliver_claimed).
RecalledIsNotDelivered ==
    [][\A r \in Recordings :
        state[r] # "ready" /\ state'[r] = "ready"
            => r \notin withdrawn \/ r \in withdrawing]_vars
=============================================================================
