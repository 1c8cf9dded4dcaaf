---------------------- MODULE EgressControlRows_proofs ----------------------
(***************************************************************************)
(* What a row of EgressControl goes through, for every instance: a         *)
(* withdrawal sticks, an acknowledged status took effect, no running job   *)
(* is unnamed, a retry keeps its schedule, and every step is one that      *)
(* RecordingLifecycle and DeliveryContract allow.                          *)
(*                                                                         *)
(* None of this is inductive alone, because every call works from what it  *)
(* read some awaits ago.  What makes it right is that a row only goes      *)
(* forward: once the provider no longer owns it, it never does again.      *)
(***************************************************************************)
EXTENDS EgressControl_proofs

\* The states in which the provider owes the row nothing any more.
HandedOver == RowStates \ ProviderOwned

\* The calls that start a job or look for one, and those that apply a status.
StartLabels == {"start", "record", "settle", "discard", "claim", "adopt", "adopted", "bump"}
StatusLabels == {"status_mark", "status_move", "status_queue"}

\* Why a row is stopped, other than by its job.
StopReasons ==
    {"none", "consent_withdrawn", "kill_switch", "provider_start_failed", "abandoned"}

\* The effect of a status: its row is marked stopped and waits no longer.
TookEffect(e) ==
    e.status \in TerminalStatuses =>
        \E r \in Recordings :
            /\ egress[r] = e.job /\ state[r] \in HandedOver
            /\ r \in stopped \/ state[r] = "deleted"

\* What a call is about: its row exists, its locals are those its label needs,
MeantForRow(a) ==
    /\ pc[a] \in CallLabels \ {"look"} => state[task[a].rec] # "none"
    /\ pc[a] \in StartLabels => task[a].why = "none"
    /\ pc[a] = "move" => task[a].next \in {"finalizing", "failed"} /\ task[a].why \in StopReasons
    /\ pc[a] \in CallLabels \ StatusLabels => task[a].back # "ack"

\* a withdrawal is written down before it stops anything,
MeantByWithdrawal(a) ==
    /\ pc[a] = "look" => task[a].why = "consent_withdrawn"
    /\ pc[a] \in CallLabels /\ task[a].why = "consent_withdrawn" =>
        /\ task[a].rec \in withdrawn
        /\ pc[a] \in {"look", "move", "stop", "mark"}
        /\ pc[a] \in {"look", "move"} => task[a].next = "failed"
        /\ pc[a] \in {"stop", "mark"} => state[task[a].rec] \in HandedOver

\* and a status is applied before it is acknowledged.
MeantByStatus(a) ==
    /\ pc[a] \in StatusLabels =>
        /\ task[a].back = "ack" /\ egress[task[a].rec] = event[a].job
        /\ task[a].next \in {"transferring", "failed"}
        /\ task[a].why \in ProviderFailures \union {"none"}
    /\ pc[a] \in {"status_move", "status_queue"} => task[a].rec \in stopped
    /\ pc[a] = "status_queue" => state[task[a].rec] \in HandedOver
    /\ pc[a] = "ack" => TookEffect(event[a])

CallMeans(a) == MeantForRow(a) /\ MeantByWithdrawal(a) /\ (a \in Handlers => MeantByStatus(a))

CallsMean == \A a \in Actors : CallMeans(a)

\* A row that names a job has begun and left "starting"; one that does not exist
\* has no error.
RowsAgree ==
    \A r \in Recordings :
        /\ egress[r] # NoJob => state[r] \notin {"none", "starting"}
        /\ state[r] = "none" => error[r] = "none"

\* What a sweep read of a row is of one that exists, and was delivered if it is
\* to be deleted.
SweepsAgree ==
    /\ \A s \in Sweepers : \A taken \in todo[s] : state[taken.rec] # "none"
    /\ \A s \in Sweepers : \A r \in due[s] : state[r] \in HandedOver

AnswersHold == \A r \in answered : r \in withdrawn /\ state[r] \notin ProviderOwned

StatusesTook == \A e \in applied : TookEffect(e)

RowInv == CallsMean /\ RowsAgree /\ SweepsAgree /\ AnswersHold /\ StatusesTook

\* A job is of a room from its start on, and the jobs an actor carries were made
\* for the recording it works on.
JobsAreOfRooms ==
    /\ \A j \in Jobs : Started(j) <=> room[j] \in Recordings
    /\ \A a \in Actors :
        pc[a] \in {"record", "adopted", "discard"} => room[task[a].job] = task[a].rec

JobInv == JobsAreOfRooms /\ NoUnnamedJob

\* As long as nobody touches a row, it is as old as the sweep read, or older, and
\* was retried as often.
ReadsAreFresh ==
    \A s \in Sweepers :
        /\ \A taken \in todo[s] :
            <<s, taken.rec>> \in current =>
                retries[taken.rec] = taken.retries /\ age[taken.rec] >= taken.age
        /\ pc[s] = "claim" /\ <<s, task[s].rec>> \in current =>
                RetryIsDue(retries[task[s].rec], age[task[s].rec])

(***************************************************************************)
(* Every step is one the contract with the delivery queue allows.          *)
(***************************************************************************)
ContractStep == [Contract!Next]_(Contract!contractVars)

\* A write of transition_within that fails a row of the provider's, or stops one
\* for a reason that is not the job's, is a move of the contract.
LEMMA TransitionIsContract ==
    ASSUME TypeOK, NEW r \in Recordings, NEW onlyFrom \in SUBSET RowStates,
           NEW next \in RowStates \ {"ready"}, NEW why \in Errors \ {"drive_failed"},
           "transferring" \in onlyFrom /\ next = "failed" => why \notin ProviderFailures,
           TransitionWithin(r, onlyFrom, next, why), UNCHANGED queued
    PROVE  ContractStep
<1> USE DEF ContractStep
<1>1. CASE Lands(r, onlyFrom, next)
  <2>1. /\ state' = [state EXCEPT ![r] = next]
        /\ error' = [error EXCEPT ![r] = Coalesce(why, @)]
    BY <1>1 DEF TransitionWithin
  <2>2. TransitionLands(state[r], RowStates, next)
    BY <1>1 DEF Lands, TransitionLands
  <2>3. state[r] = "transferring" /\ next = "failed" => why \notin ProviderFailures
    BY <1>1 DEF Lands, TransitionLands
  <2>4. Contract!OthersMove(r, next)
    BY <2>1, <2>2, <2>3
       DEF Contract!OthersMove, Contract!TransitionLands, Contract!MayBecome, Contract!RowStates,
           Contract!ActiveStates, TransitionLands, MayBecome, RowStates, ActiveStates,
           Contract!Errors, Contract!Failures, Contract!ProviderFailures, Errors, Failures,
           ProviderFailures, Contract!Coalesce, Coalesce
  <2> QED BY <2>4 DEF Contract!Next, Contract!RowStates, Contract!ActiveStates, RowStates, ActiveStates
<1>2. CASE ~Lands(r, onlyFrom, next)
  BY <1>2 DEF TransitionWithin, Contract!contractVars
<1> QED BY <1>1, <1>2

\* The types of a row, of the call that changes it, and where it may be.
LEMMA CallRows ==
    ASSUME TypeInv, NEW a \in Actors, pc[a] \in CallLabels
    PROVE  /\ task[a] \in Task /\ task[a].rec \in Recordings /\ task[a].job \in MaybeJob
           /\ task[a].next \in States /\ task[a].why \in Errors /\ task[a].back \in Backs(a)
           /\ state[task[a].rec] \in States /\ error[task[a].rec] \in Errors
BY DEF TypeInv, TypeOK, ActorInv, CallsAreTyped, Task, TypeOfRows

\* record_egress_id moves a row that was starting on, with no new reason.
LEMMA NamingIsContract ==
    ASSUME TypeInv, NEW a \in Actors, RecordEgressId(a)
    PROVE  ContractStep
<1> DEFINE r == task[a].rec
<1>0. pc[a] \in CallLabels /\ r \in Recordings /\ UNCHANGED <<error, queued>>
  BY CallRows DEF RecordEgressId, CallLabels, tableVars
<1>1. CASE Unnamed(r) /\ state[r] = "starting"
  <2>1. state' = [state EXCEPT ![r] = "recording"]
    BY <1>1 DEF RecordEgressId, OnceNamed
  <2>2. error' = [error EXCEPT ![r] = Coalesce("none", @)]
    BY <1>0 DEF Coalesce, TypeInv, TypeOK, TypeOfRows
  <2>3. "none" \in Errors \ {"drive_failed"} /\ "recording" \in RowStates
    BY DEF Errors, RowStates, ActiveStates
  <2>4. Contract!OthersMove(r, "recording")
    BY <1>0, <1>1, <2>1, <2>2, <2>3
       DEF Contract!OthersMove, Contract!TransitionLands, Contract!MayBecome, Contract!RowStates,
           Contract!ActiveStates, Contract!Errors, Contract!Failures, Contract!ProviderFailures,
           Errors, Failures, ProviderFailures, Contract!Coalesce, Coalesce, RowStates, ActiveStates
  <2> QED
    BY <1>0, <2>3, <2>4
       DEF ContractStep, Contract!Next, Contract!RowStates, Contract!ActiveStates, RowStates, ActiveStates
<1>2. CASE ~(Unnamed(r) /\ state[r] = "starting")
  <2>1. state' = state
    BY <1>2 DEF RecordEgressId, OnceNamed, TypeInv, TypeOK, TypeOfRows
  <2> QED BY <1>0, <2>1 DEF ContractStep, Contract!contractVars
<1> QED BY <1>1, <1>2

LEMMA CallStepContract ==
    ASSUME TypeInv, NEW a \in Actors, CallMeans(a), CallStep(a)
    PROVE  ContractStep
<1>1. CASE RecordEgressId(a)
  BY <1>1, NamingIsContract
<1>2. CASE StopRecording(a)
  <2>1. pc[a] = "move" /\ pc[a] \in CallLabels
    BY <1>2 DEF StopRecording, CallLabels
  <2>2. /\ task[a].next \in RowStates \ {"ready"}
        /\ task[a].why \in Errors \ {"drive_failed"} /\ task[a].why \notin ProviderFailures
    BY <2>1 DEF CallMeans, MeantForRow, StopReasons, RowStates, ActiveStates, Errors, Failures,
                ProviderFailures
  <2>3. TransitionWithin(task[a].rec, RowStates, task[a].next, task[a].why) /\ UNCHANGED queued
    BY <1>2 DEF StopRecording, tableVars
  <2> QED BY <2>1, <2>2, <2>3, CallRows, TransitionIsContract DEF TypeInv
<1>3. CASE ~RecordEgressId(a) /\ ~StopRecording(a)
  <2>1. UNCHANGED <<state, error, queued>>
    BY <1>3
       DEF CallStep, ProviderStarts, StartAnswerLost, ProviderRefusesStart, RecordEgressIdFails,
           DiscardAgreed, DiscardRefused, SettleNewEgress, ProviderStops, ProviderRefusesStop,
           StopAnswerLost, WriteStopped, rowVars, tableVars
  <2> QED BY <2>1 DEF ContractStep, Contract!contractVars
<1> QED BY <1>1, <1>2, <1>3

LEMMA HandlersContract ==
    ASSUME TypeInv, RowInv, NEW h \in Handlers, Arrive(h) \/ HandlerStep(h)
    PROVE  ContractStep
<1>0. h \in Actors /\ CallMeans(h)
  BY DEF RowInv, CallsMean, Actors
<1>1. CASE CallStep(h)
  BY <1>0, <1>1, CallStepContract
<1>2. CASE \E r \in Recordings : BeginRecording(h, r)
  <2>1. PICK r \in Recordings : BeginRecording(h, r)
    BY <1>2
  <2>2. error' = [error EXCEPT ![r] = "none"]
    BY <2>1 DEF BeginRecording, RowInv, RowsAgree, TypeInv, TypeOK, TypeOfRows
  <2>3. Contract!Begin(r)
    BY <2>1, <2>2
       DEF BeginRecording, Contract!Begin, Contract!MoveRow, tableVars, OthersInactive, IsActive,
           ActiveStates, Contract!OthersInactive, Contract!IsActive, Contract!ActiveStates
  <2> QED BY <2>3 DEF ContractStep, Contract!Next
<1>3. CASE StatusMovesRow(h)
  <2>1. pc[h] = "status_move" /\ pc[h] \in CallLabels
    BY <1>3 DEF StatusMovesRow, CallLabels
  <2>2. task[h].next \in {"transferring", "failed"} /\ task[h].why \in ProviderFailures \union {"none"}
    BY <1>0, <2>1 DEF CallMeans, MeantByStatus, StatusLabels
  <2>3. /\ task[h].next \in RowStates \ {"ready"} /\ task[h].why \in Errors \ {"drive_failed"}
        /\ ProviderOwned \in SUBSET RowStates /\ "transferring" \notin ProviderOwned
    BY <2>2 DEF RowStates, ActiveStates, Errors, Failures, ProviderFailures, ProviderOwned
  <2>4. TransitionWithin(task[h].rec, ProviderOwned, task[h].next, task[h].why) /\ UNCHANGED queued
    BY <1>3 DEF StatusMovesRow, tableVars
  <2> QED BY <1>0, <2>1, <2>3, <2>4, CallRows, TransitionIsContract DEF TypeInv
<1>4. CASE StatusQueuesDelivery(h)
  <2>1. task[h].rec \in Recordings
    BY <1>0, <1>4, CallRows DEF StatusQueuesDelivery, CallLabels
  <2>2. Contract!Enqueue
    BY <1>4, <2>1 DEF StatusQueuesDelivery, Contract!Enqueue, rowVars, TypeInv, TypeOK, TypeOfRows
  <2> QED BY <2>2 DEF ContractStep, Contract!Next
<1>5. CASE \/ \E r \in Recordings : EndInterview(h, r) \/ WithdrawConsent(h, r)
           \/ \E e \in sent : ReceiveStatus(h, e)
           \/ LookForRecording(h) \/ StatusMarksStopped(h) \/ Acknowledge(h)
  <2>1. UNCHANGED <<state, error, queued>>
    BY <1>5
       DEF EndInterview, WithdrawConsent, ReceiveStatus, TakeEvent, LookForRecording,
           StatusMarksStopped, Acknowledge, rowVars, tableVars
  <2> QED BY <2>1 DEF ContractStep, Contract!contractVars
<1> QED BY <1>1, <1>2, <1>3, <1>4, <1>5 DEF Arrive, HandlerStep

LEMMA SweepersContract ==
    ASSUME TypeInv, RowInv, NEW s \in Sweepers, SweeperStep(s)
    PROVE  ContractStep
<1>0. s \in Actors /\ CallMeans(s)
  BY DEF RowInv, CallsMean, Actors
<1>1. CASE CallStep(s)
  BY <1>0, <1>1, CallStepContract
<1>2. CASE RequeueOrphanedWork(s)
  <2>1. Contract!Enqueue
    BY <1>2 DEF RequeueOrphanedWork, Contract!Enqueue, rowVars, TypeInv, TypeOK, TypeOfRows
  <2> QED BY <2>1 DEF ContractStep, Contract!Next
<1>3. ASSUME NEW r \in Recordings, DeleteRecording(s, r) PROVE ContractStep
  <2>1. CASE state[r] = "deleted"
    BY <1>3, <2>1 DEF DeleteRecording, DueHandled, tableVars, ContractStep, Contract!contractVars
  <2>2. CASE state[r] # "deleted"
    <3>1. state[r] \in HandedOver
      BY <1>3 DEF DeleteRecording, DueHandled, RowInv, SweepsAgree
    <3>2. state[r] \in {"ready", "failed", "cleanup_failed", "transferring"}
      BY <2>2, <3>1 DEF HandedOver, RowStates, ActiveStates, ProviderOwned
    <3>3. state' = [state EXCEPT ![r] = "deleted"] /\ error' = [error EXCEPT ![r] = error[r]]
      BY <1>3, <2>2 DEF DeleteRecording, TypeInv, TypeOK, TypeOfRows
    <3>4. Contract!Tombstone(r)
      BY <1>3, <3>2, <3>3 DEF DeleteRecording, DueHandled, tableVars, Contract!Tombstone, Contract!MoveRow
    <3> QED BY <3>4 DEF ContractStep, Contract!Next
  <2> QED BY <2>1, <2>2
<1>4. ASSUME NEW r \in Recordings, DeletionFails(s, r) PROVE ContractStep
  <2>1. TransitionWithin(r, RowStates, "cleanup_failed", "cleanup_failed") /\ UNCHANGED queued
    BY <1>4 DEF DeletionFails, DueHandled, tableVars
  <2>2. "cleanup_failed" \in RowStates \ {"ready"} /\ "cleanup_failed" \in Errors \ {"drive_failed"}
    BY DEF RowStates, Errors, Failures
  <2> QED BY <2>1, <2>2, TransitionIsContract DEF TypeInv
<1>5. CASE /\ ~CallStep(s) /\ ~RequeueOrphanedWork(s)
           /\ \A r \in Recordings : ~DeleteRecording(s, r) /\ ~DeletionFails(s, r)
  <2>1. UNCHANGED <<state, error, queued>>
    BY <1>5
       DEF SweeperStep, ReadStale, ReadDue, SweepKilled, SweepRetries, SweepGivesUp, SweepWaits,
           SweepAbandons, SweepRow, ClaimRetry, AdoptFindsJob, AdoptFindsNone, AdoptFails,
           BumpRetry, ReadOrphans, AskOrphan, EndSweep, rowVars, tableVars
  <2> QED BY <2>1 DEF ContractStep, Contract!contractVars
<1> QED BY <1>1, <1>2, <1>3, <1>4, <1>5

\* The delivery queue's own steps are the contract's, by DeliverySide.
LEMMA WorldContract ==
    ASSUME TypeInv,
           DeliveryStep \/ ProviderStep \/ Tick \/ (\E a \in Actors : Crash(a)) \/ ThrowKillSwitch
    PROVE  ContractStep
<1>1. ASSUME NEW r \in Recordings, WorkerMoves(r) \/ WorkerReleases(r) PROVE ContractStep
  <2>1. \/ Contract!Deliver(r) \/ Contract!DeliveryAttemptFails(r) \/ Contract!DeliveryGivesUp(r)
        \/ Contract!ReopenDelivery(r) \/ Contract!ReleaseClaim(r)
    BY <1>1
       DEF WorkerMoves, WorkerReleases, Deliver, DeliveryAttemptFails, DeliveryGivesUp,
           ReopenDelivery, ReleaseClaim, MoveRow, MayReopen, OthersInactive, IsActive, ActiveStates,
           Contract!Deliver, Contract!DeliveryAttemptFails, Contract!DeliveryGivesUp,
           Contract!ReopenDelivery, Contract!ReleaseClaim, Contract!MoveRow, Contract!MayReopen,
           Contract!OthersInactive, Contract!IsActive, Contract!ActiveStates
  <2> QED BY <2>1 DEF ContractStep, Contract!Next
<1>2. ASSUME NEW r \in Recordings, OperatorRetries(r) PROVE ContractStep
  <2>1. Contract!Enqueue
    BY <1>2 DEF OperatorRetries, Contract!Enqueue, rowVars, TypeInv, TypeOK, TypeOfRows
  <2> QED BY <2>1 DEF ContractStep, Contract!Next
<1>3. CASE ProviderStep \/ Tick \/ (\E a \in Actors : Crash(a)) \/ ThrowKillSwitch
  <2>1. UNCHANGED <<state, error, queued>>
    BY <1>3
       DEF ProviderStep, JobReports, JobEnds, Send, Tick, Crash, ThrowKillSwitch, Drop, rowVars,
           tableVars
  <2> QED BY <2>1 DEF ContractStep, Contract!contractVars
<1> QED BY <1>1, <1>2, <1>3 DEF DeliveryStep

LEMMA KeepsContractStep == TypeInv /\ RowInv /\ [Next]_vars => ContractStep
<1>1. UNCHANGED vars => ContractStep
  BY DEF vars, rowVars, tableVars, ContractStep, Contract!contractVars
<1> QED BY <1>1, HandlersContract, SweepersContract, WorldContract DEF Next

(***************************************************************************)
(* A row only goes forward.                                                *)
(***************************************************************************)
\* What a state may not become again.
Onward(s, next) ==
    /\ s # "none" => next # "none"
    /\ s \notin {"none", "starting"} => next \notin {"none", "starting"}
    /\ s \in HandedOver => next \in HandedOver
    /\ s = "deleted" => next = "deleted"

Forward ==
    /\ \A r \in Recordings :
        /\ Onward(state[r], state'[r])
        /\ r \in withdrawn /\ state[r] = "none" => state'[r] = "none"
    /\ withdrawn \subseteq withdrawn' /\ stopped \subseteq stopped'

\* The moves of the contract all go forward.
LEMMA ContractGoesOn ==
    ASSUME TypeOK, ContractStep, NEW r \in Recordings
    PROVE  Onward(state[r], state'[r])
<1> USE DEF Onward, HandedOver, RowStates, ActiveStates, ProviderOwned
<1>1. ASSUME NEW q \in Recordings, NEW next, state' = [state EXCEPT ![q] = next],
             Onward(state[q], next)
      PROVE  Onward(state[r], state'[r])
  BY <1>1 DEF TypeOK, TypeOfRows
<1>2. ASSUME UNCHANGED state PROVE Onward(state[r], state'[r])
  BY <1>2
<1>3. ASSUME NEW q \in Recordings, Contract!Begin(q) PROVE Onward(state[r], state'[r])
  BY <1>1, <1>3 DEF Contract!Begin, Contract!MoveRow
<1>4. ASSUME NEW q \in Recordings, NEW next, Contract!OthersMove(q, next)
      PROVE  Onward(state[r], state'[r])
  <2>1. Onward(state[q], next) /\ state' = [state EXCEPT ![q] = next]
    BY <1>4 DEF Contract!OthersMove, Contract!TransitionLands, Contract!MayBecome,
                Contract!RowStates, Contract!ActiveStates
  <2> QED BY <1>1, <2>1
<1>5. ASSUME NEW q \in Recordings, Contract!Tombstone(q) PROVE Onward(state[r], state'[r])
  BY <1>1, <1>5 DEF Contract!Tombstone, Contract!MoveRow
<1>6. ASSUME NEW q \in Recordings,
             \/ Contract!Deliver(q) \/ Contract!DeliveryAttemptFails(q) \/ Contract!DeliveryGivesUp(q)
             \/ Contract!ReopenDelivery(q)
      PROVE  Onward(state[r], state'[r])
  BY <1>1, <1>6 DEF Contract!Deliver, Contract!DeliveryAttemptFails, Contract!DeliveryGivesUp,
                    Contract!ReopenDelivery, Contract!MayReopen, Contract!MoveRow
<1>7. CASE Contract!Enqueue \/ (\E q \in Recordings : Contract!ReleaseClaim(q))
           \/ UNCHANGED Contract!contractVars
  BY <1>2, <1>7 DEF Contract!Enqueue, Contract!ReleaseClaim, Contract!contractVars
<1> QED BY <1>3, <1>4, <1>5, <1>6, <1>7 DEF ContractStep, Contract!Next

\* A recording of an interview whose consent was withdrawn does not begin.
LEMMA WithdrawnStaysOut ==
    ASSUME TypeInv, RowInv, [Next]_vars, NEW r \in Recordings, r \in withdrawn, state[r] = "none"
    PROVE  state'[r] = "none"
<1> USE DEF TypeInv, TypeOK, TypeOfRows, rowVars
<1>1. ASSUME NEW q \in Recordings, NEW onlyFrom \in SUBSET RowStates, NEW next, NEW why,
             TransitionWithin(q, onlyFrom, next, why)
      PROVE  state'[r] = "none"
  BY <1>1 DEF TransitionWithin, Lands, TransitionLands, RowStates, ActiveStates
<1>2. ASSUME NEW a \in Actors, CallStep(a) PROVE state'[r] = "none"
  <2>1. CASE StopRecording(a)
    BY <1>1, <2>1, CallRows DEF StopRecording, CallLabels
  <2>2. CASE RecordEgressId(a)
    BY <2>2, CallRows DEF RecordEgressId, OnceNamed
  <2>3. CASE ~StopRecording(a) /\ ~RecordEgressId(a)
    BY <1>2, <2>3
       DEF CallStep, ProviderStarts, StartAnswerLost, ProviderRefusesStart, RecordEgressIdFails,
           DiscardAgreed, DiscardRefused, SettleNewEgress, ProviderStops, ProviderRefusesStop,
           StopAnswerLost, WriteStopped
  <2> QED BY <2>1, <2>2, <2>3
<1>3. ASSUME NEW h \in Handlers, Arrive(h) \/ HandlerStep(h) PROVE state'[r] = "none"
  <2>1. CASE \E q \in Recordings : BeginRecording(h, q)
    BY <2>1 DEF BeginRecording
  <2>2. CASE StatusMovesRow(h)
    <3>1. task[h].rec \in Recordings /\ ProviderOwned \in SUBSET RowStates
      BY <2>2, CallRows DEF StatusMovesRow, CallLabels, Actors, ProviderOwned, RowStates, ActiveStates
    <3> QED BY <1>1, <2>2, <3>1 DEF StatusMovesRow
  <2>3. CASE \/ \E q \in Recordings : EndInterview(h, q) \/ WithdrawConsent(h, q)
             \/ \E e \in sent : ReceiveStatus(h, e)
             \/ LookForRecording(h) \/ StatusMarksStopped(h) \/ StatusQueuesDelivery(h)
             \/ Acknowledge(h)
    BY <2>3
       DEF EndInterview, WithdrawConsent, ReceiveStatus, TakeEvent, LookForRecording,
           StatusMarksStopped, StatusQueuesDelivery, Acknowledge
  <2> QED BY <1>2, <1>3, <2>1, <2>2, <2>3 DEF Arrive, HandlerStep, Actors
<1>4. ASSUME NEW s \in Sweepers, SweeperStep(s) PROVE state'[r] = "none"
  <2>1. ASSUME NEW q \in Recordings, DeleteRecording(s, q) PROVE state'[r] = "none"
    <3>1. state[q] # "none"
      BY <2>1 DEF DeleteRecording, DueHandled, RowInv, SweepsAgree, HandedOver, RowStates, ActiveStates
    <3> QED BY <2>1, <3>1 DEF DeleteRecording
  <2>2. ASSUME NEW q \in Recordings, DeletionFails(s, q) PROVE state'[r] = "none"
    BY <1>1, <2>2 DEF DeletionFails
  <2>3. CASE /\ ~CallStep(s)
             /\ \A q \in Recordings : ~DeleteRecording(s, q) /\ ~DeletionFails(s, q)
    BY <1>4, <2>3
       DEF SweeperStep, RequeueOrphanedWork, ReadStale, ReadDue, SweepKilled, SweepRetries,
           SweepGivesUp, SweepWaits, SweepAbandons, SweepRow, ClaimRetry, AdoptFindsJob,
           AdoptFindsNone, AdoptFails, BumpRetry, ReadOrphans, AskOrphan, EndSweep
  <2> QED BY <1>2, <2>1, <2>2, <2>3 DEF Actors
<1>5. CASE DeliveryStep
  BY <1>5 DEF DeliveryStep, WorkerMoves, WorkerReleases, OperatorRetries, Deliver,
              DeliveryAttemptFails, DeliveryGivesUp, ReopenDelivery, MayReopen, ReleaseClaim, MoveRow
<1>6. CASE ProviderStep \/ Tick \/ (\E a \in Actors : Crash(a)) \/ ThrowKillSwitch \/ UNCHANGED vars
  BY <1>6 DEF ProviderStep, JobReports, JobEnds, Send, Tick, Crash, ThrowKillSwitch, Drop, vars
<1> QED BY <1>3, <1>4, <1>5, <1>6 DEF Next

\* Nobody takes a withdrawal or a stopped_at back.
LEMMA MarksStay ==
    ASSUME [Next]_vars
    PROVE  withdrawn \subseteq withdrawn' /\ stopped \subseteq stopped'
<1> USE DEF rowVars, tableVars
<1>1. ASSUME NEW a, CallStep(a) PROVE UNCHANGED withdrawn /\ stopped \subseteq stopped'
  BY <1>1
     DEF CallStep, ProviderStarts, StartAnswerLost, ProviderRefusesStart, RecordEgressId,
         RecordEgressIdFails, DiscardAgreed, DiscardRefused, SettleNewEgress, StopRecording,
         ProviderStops, ProviderRefusesStop, StopAnswerLost, WriteStopped, MarkStopped
<1>2. ASSUME NEW h \in Handlers, Arrive(h) \/ HandlerStep(h)
      PROVE  withdrawn \subseteq withdrawn' /\ stopped \subseteq stopped'
  BY <1>1, <1>2
     DEF Arrive, HandlerStep, BeginRecording, EndInterview, WithdrawConsent, ReceiveStatus, TakeEvent,
         LookForRecording, StatusMarksStopped, StatusMovesRow, StatusQueuesDelivery, Acknowledge,
         MarkStopped
<1>3. ASSUME NEW s \in Sweepers, SweeperStep(s)
      PROVE  withdrawn \subseteq withdrawn' /\ stopped \subseteq stopped'
  BY <1>1, <1>3
     DEF SweeperStep, RequeueOrphanedWork, ReadStale, ReadDue, DeleteRecording, DeletionFails,
         DueHandled, SweepKilled, SweepRetries, SweepGivesUp, SweepWaits, SweepAbandons, SweepRow,
         ClaimRetry, AdoptFindsJob, AdoptFindsNone, AdoptFails, BumpRetry, ReadOrphans, AskOrphan,
         EndSweep
<1>4. CASE \/ DeliveryStep \/ ProviderStep \/ Tick \/ (\E a \in Actors : Crash(a))
           \/ ThrowKillSwitch \/ UNCHANGED vars
  BY <1>4
     DEF DeliveryStep, WorkerMoves, WorkerReleases, OperatorRetries, ProviderStep, JobReports,
         JobEnds, Send, Tick, Crash, ThrowKillSwitch, Drop, vars
<1> QED BY <1>2, <1>3, <1>4 DEF Next

LEMMA GoesForward == TypeInv /\ RowInv /\ [Next]_vars => Forward
BY KeepsContractStep, ContractGoesOn, WithdrawnStaysOut, MarksStay DEF Forward, TypeInv

(***************************************************************************)
(* What stays true of a row and of a call while others move.               *)
(***************************************************************************)
\* A status that took effect stays in effect.
LEMMA EffectStays ==
    ASSUME TypeInv, Forward, KeepsEgress, NEW e \in Event, TookEffect(e)
    PROVE  TookEffect(e)'
<1> SUFFICES ASSUME e.status \in TerminalStatuses PROVE TookEffect(e)'
  BY DEF TookEffect
<1>1. PICK r \in Recordings :
         /\ egress[r] = e.job /\ state[r] \in HandedOver
         /\ r \in stopped \/ state[r] = "deleted"
  BY DEF TookEffect
<1>2. egress'[r] = e.job
  BY <1>1, NoJobAssumption DEF KeepsEgress, Event
<1>3. state'[r] \in HandedOver /\ (r \in stopped' \/ state'[r] = "deleted")
  BY <1>1 DEF Forward, Onward
<1> QED BY <1>2, <1>3 DEF TookEffect

\* An actor that a step leaves alone means what it meant.
LEMMA BystanderMeans ==
    ASSUME TypeInv, Forward, KeepsEgress, NEW b \in Actors, CallMeans(b),
           pc'[b] = pc[b], task'[b] = task[b], b \in Handlers => event'[b] = event[b]
    PROVE  CallMeans(b)'
<1>1. pc[b] \in CallLabels => task[b].rec \in Recordings
  BY CallRows
<1>2. StatusLabels \subseteq CallLabels /\ StartLabels \subseteq CallLabels
  BY DEF StatusLabels, StartLabels, CallLabels
<1>3. MeantForRow(b)'
  BY <1>1 DEF CallMeans, MeantForRow, Forward, Onward
<1>4. MeantByWithdrawal(b)'
  BY <1>1 DEF CallMeans, MeantByWithdrawal, Forward, Onward
<1>5. ASSUME b \in Handlers PROVE MeantByStatus(b)'
  <2>1. MeantByStatus(b) /\ event'[b] = event[b]
    BY <1>5 DEF CallMeans
  <2>2. CASE pc[b] \in StatusLabels
    <3>1. event[b] \in Event
      BY <1>2, <1>5, <2>1, <2>2 DEF MeantByStatus, TypeInv, ActorInv, EventsAreHeld
    <3>2. egress'[task[b].rec] = event[b].job
      BY <1>1, <1>2, <2>1, <2>2, <3>1, NoJobAssumption DEF MeantByStatus, KeepsEgress, Event
    <3>3. pc[b] # "ack"
      BY <2>2 DEF StatusLabels
    <3> QED BY <1>1, <1>2, <2>1, <2>2, <3>2, <3>3 DEF MeantByStatus, Forward, Onward
  <2>3. CASE pc[b] = "ack"
    <3>1. event[b] \in Event
      BY <1>5, <2>3 DEF TypeInv, ActorInv, EventsAreHeld
    <3>2. TookEffect(event[b])'
      <4>1. TookEffect(event[b])
        BY <2>1, <2>3 DEF MeantByStatus
      <4> DEFINE e == event[b]
      <4>2. e \in Event /\ TookEffect(e) /\ event'[b] = e
        BY <2>1, <3>1, <4>1
      <4> HIDE DEF e
      <4>3. e.status \in TerminalStatuses =>
              \E r \in Recordings :
                  /\ egress'[r] = e.job /\ state'[r] \in HandedOver
                  /\ r \in stopped' \/ state'[r] = "deleted"
        BY <4>2, EffectStays DEF TookEffect
      <4> QED BY <4>2, <4>3 DEF TookEffect
    <3> QED BY <2>1, <2>3, <3>2 DEF MeantByStatus, StatusLabels
  <2>4. CASE pc[b] \notin StatusLabels \union {"ack"}
    BY <2>4 DEF MeantByStatus, StatusLabels
  <2> QED BY <2>2, <2>3, <2>4
<1> QED BY <1>3, <1>4, <1>5 DEF CallMeans

\* A step of one actor.
LEMMA ActorMeans ==
    ASSUME TypeInv, CallsMean, Forward, KeepsEgress, NEW a \in Actors, NEW p, NEW t,
           pc' = [pc EXCEPT ![a] = p], task' = [task EXCEPT ![a] = t],
           \A h \in Handlers \ {a} : event'[h] = event[h],
           CallMeans(a)'
    PROVE  CallsMean'
<1> SUFFICES ASSUME NEW b \in Actors, b # a PROVE CallMeans(b)'
  BY DEF CallsMean
<1>1. pc'[b] = pc[b] /\ task'[b] = task[b]
  BY DEF TypeInv, ActorInv, TypeOfActors
<1> QED BY <1>1, BystanderMeans DEF CallsMean

\* No actor moves.
LEMMA ActorsMean ==
    ASSUME TypeInv, CallsMean, Forward, KeepsEgress, UNCHANGED <<pc, task, event>>
    PROVE  CallsMean'
BY BystanderMeans DEF CallsMean

\* At a label that is no call's, and not before an acknowledgement, nothing is
\* meant.
LEMMA NothingMeant ==
    ASSUME NEW a, pc'[a] \notin CallLabels \union {"ack"}
    PROVE  CallMeans(a)'
BY DEF CallMeans, MeantForRow, MeantByWithdrawal, MeantByStatus, StartLabels, StatusLabels, CallLabels

\* A call goes on with the recording, the reason and the caller it has.
LEMMA GoesOnMeaning ==
    ASSUME TypeInv, Forward, NEW a \in Actors, CallMeans(a),
           pc[a] \in CallLabels \ (StatusLabels \union {"look"}),
           pc'[a] \in StartLabels \union {"stop", "mark"},
           pc'[a] \in StartLabels => pc[a] \in StartLabels,
           task'[a].rec = task[a].rec, task'[a].why = task[a].why, task'[a].back = task[a].back,
           pc'[a] \in {"stop", "mark"} /\ task[a].why = "consent_withdrawn" =>
               \/ pc[a] = "move" /\ state'[task[a].rec] \in HandedOver
               \/ pc[a] = "stop"
    PROVE  CallMeans(a)'
<1>1. task[a].rec \in Recordings /\ StartLabels \subseteq CallLabels
  BY CallRows DEF StartLabels, CallLabels
<1>2. MeantForRow(a)'
  BY <1>1 DEF CallMeans, MeantForRow, Forward, Onward, StartLabels
<1>3. MeantByWithdrawal(a)'
  <2>0. pc'[a] # "look"
    BY DEF StartLabels
  <2> SUFFICES ASSUME task[a].why = "consent_withdrawn"
               PROVE  /\ task[a].rec \in withdrawn' /\ pc'[a] \in {"stop", "mark"}
                      /\ state'[task[a].rec] \in HandedOver
    BY <2>0 DEF MeantByWithdrawal
  <2>1. pc'[a] \notin StartLabels
    BY <1>2 DEF MeantForRow, CallMeans
  <2>2. pc'[a] \in {"stop", "mark"}
    BY <2>1
  <2>3. pc[a] = "stop" => state[task[a].rec] \in HandedOver
    BY DEF CallMeans, MeantByWithdrawal
  <2>4. task[a].rec \in withdrawn
    BY DEF CallMeans, MeantByWithdrawal
  <2> QED BY <1>1, <2>2, <2>3, <2>4 DEF Forward, Onward
<1>4. MeantByStatus(a)'
  BY DEF MeantByStatus, StatusLabels, StartLabels
<1> QED BY <1>2, <1>3, <1>4 DEF CallMeans

\* The answers given stay right, and so does one more if its row is handed over.
LEMMA AnswersStillHold ==
    ASSUME TypeInv, AnswersHold, Forward, answered \subseteq Recordings,
           \A q \in answered' \ answered : q \in withdrawn /\ state'[q] \notin ProviderOwned
    PROVE  AnswersHold'
<1> SUFFICES ASSUME NEW q \in answered' PROVE q \in withdrawn' /\ state'[q] \notin ProviderOwned
  BY DEF AnswersHold
<1>1. CASE q \in answered
  <2>1. q \in Recordings /\ state[q] \in States /\ q \in withdrawn /\ state[q] \notin ProviderOwned
    BY <1>1 DEF AnswersHold, TypeInv, TypeOK, TypeOfRows
  <2>2. state[q] = "none" \/ state[q] \in HandedOver
    BY <2>1 DEF HandedOver, States
  <2> QED BY <2>1, <2>2 DEF Forward, Onward, HandedOver, ProviderOwned
<1>2. CASE q \notin answered
  BY <1>2 DEF Forward
<1> QED BY <1>1, <1>2

\* A row agrees with itself again if it named no job before or still does.
LEMMA RowsStillAgree ==
    ASSUME TypeInv, RowsAgree, ContractStep, Forward,
           \A r \in Recordings : egress'[r] # egress[r] => state'[r] \notin {"none", "starting"}
    PROVE  RowsAgree'
<1> SUFFICES ASSUME NEW r \in Recordings
             PROVE  /\ egress'[r] # NoJob => state'[r] \notin {"none", "starting"}
                    /\ state'[r] = "none" => error'[r] = "none"
  BY DEF RowsAgree
<1>1. egress'[r] # NoJob => state'[r] \notin {"none", "starting"}
  BY DEF RowsAgree, Forward, Onward
<1>2. ASSUME state'[r] = "none" PROVE error'[r] = "none"
  <2>1. state[r] = "none" /\ error[r] = "none"
    BY <1>2 DEF RowsAgree, Forward, Onward
  <2>2. error'[r] = error[r]
    <3>1. ASSUME NEW q \in Recordings, NEW n, NEW e, state' = [state EXCEPT ![q] = n],
                 error' = [error EXCEPT ![q] = e], n # "none"
          PROVE  error'[r] = error[r]
      BY <1>2, <3>1 DEF TypeInv, TypeOK, TypeOfRows
    <3>2. ASSUME NEW q \in Recordings, NEW next \in Contract!RowStates, Contract!OthersMove(q, next)
          PROVE  error'[r] = error[r]
      BY <3>1, <3>2 DEF Contract!OthersMove, Contract!RowStates, Contract!ActiveStates
    <3>3. ASSUME NEW q \in Recordings,
                 \/ Contract!Begin(q) \/ Contract!Tombstone(q) \/ Contract!Deliver(q)
                 \/ Contract!DeliveryAttemptFails(q) \/ Contract!DeliveryGivesUp(q)
                 \/ Contract!ReopenDelivery(q)
          PROVE  error'[r] = error[r]
      BY <3>1, <3>3 DEF Contract!Begin, Contract!Tombstone, Contract!Deliver, Contract!MoveRow,
                        Contract!DeliveryAttemptFails, Contract!DeliveryGivesUp, Contract!ReopenDelivery
    <3>4. CASE Contract!Enqueue \/ (\E q \in Recordings : Contract!ReleaseClaim(q))
               \/ UNCHANGED Contract!contractVars
      BY <3>4 DEF Contract!Enqueue, Contract!ReleaseClaim, Contract!contractVars
    <3> QED BY <3>2, <3>3, <3>4 DEF ContractStep, Contract!Next
  <2> QED BY <2>1, <2>2
<1> QED BY <1>1, <1>2

\* What a sweep holds stays right, and what it reads now is.
LEMMA SweepsStillAgree ==
    ASSUME TypeInv, SweepsAgree, Forward,
           \A s \in Sweepers : \A taken \in todo'[s] :
               taken \in todo[s] \/ (taken.rec \in Recordings /\ state[taken.rec] # "none"),
           \A s \in Sweepers : \A r \in due'[s] :
               r \in due[s] \/ (r \in Recordings /\ state[r] \in HandedOver)
    PROVE  SweepsAgree'
<1>1. ASSUME NEW s \in Sweepers, NEW taken \in todo'[s] PROVE state'[taken.rec] # "none"
  <2>1. taken.rec \in Recordings /\ state[taken.rec] # "none"
    BY <1>1 DEF SweepsAgree, TypeInv, TypeOK, TypeOfSweeps, Snapshot
  <2> QED BY <2>1 DEF Forward, Onward
<1>2. ASSUME NEW s \in Sweepers, NEW r \in due'[s] PROVE state'[r] \in HandedOver
  <2>1. r \in Recordings /\ state[r] \in HandedOver
    BY <1>2 DEF SweepsAgree, TypeInv, TypeOK, TypeOfSweeps
  <2> QED BY <2>1 DEF Forward, Onward
<1> QED BY <1>1, <1>2 DEF SweepsAgree

LEMMA AppliedStillTook ==
    ASSUME TypeInv, Forward, KeepsEgress, StatusesTook, UNCHANGED applied
    PROVE  StatusesTook'
BY EffectStays DEF StatusesTook, TypeInv, TypeOK, TypeOfRows

(***************************************************************************)
(* The invariant, step by step.                                            *)
(***************************************************************************)
LEMMA RowInvInit == Init => RowInv
<1> SUFFICES ASSUME Init PROVE RowInv
  OBVIOUS
<1>1. CallsMean
  BY DEF Init, CallsMean, CallMeans, MeantForRow, MeantByWithdrawal, MeantByStatus, CallLabels,
         StartLabels, StatusLabels
<1>2. RowsAgree
  BY DEF Init, RowsAgree
<1>3. SweepsAgree
  BY DEF Init, SweepsAgree
<1>4. AnswersHold /\ StatusesTook
  BY DEF Init, AnswersHold, StatusesTook
<1> QED BY <1>1, <1>2, <1>3, <1>4 DEF RowInv

\* What a call returns to, and what its return answers.
LEMMA ReturnMeans ==
    ASSUME TypeInv, NEW a \in Actors, CallMeans(a), pc[a] \in CallLabels \ StatusLabels, Return(a)
    PROVE  /\ CallMeans(a)' /\ pc'[a] = task[a].back
           /\ pc' = [pc EXCEPT ![a] = task[a].back] /\ task' = [task EXCEPT ![a] = NoTask]
           /\ answered' \in {answered, answered \union {task[a].rec}}
           /\ task[a].why # "consent_withdrawn" => answered' = answered
<1>1. /\ pc' = [pc EXCEPT ![a] = task[a].back] /\ task' = [task EXCEPT ![a] = NoTask]
      /\ answered' \in {answered, answered \union {task[a].rec}}
      /\ task[a].why # "consent_withdrawn" => answered' = answered
  BY DEF Return, Leave, Goto
<1>2. pc'[a] = task[a].back
  BY <1>1 DEF TypeInv, ActorInv, TypeOfActors
<1>3. task[a].back \in {"idle", "sweep", "orphan"}
  BY CallRows DEF Backs, CallMeans, MeantForRow
<1>4. CallMeans(a)'
  BY <1>2, <1>3, NothingMeant DEF CallLabels
<1> QED BY <1>1, <1>2, <1>4

\* Every step of a shared call: a row is only named once its recording has
\* begun, and a withdrawal is only answered once its row is handed over.
LEMMA CallStepRows ==
    ASSUME TypeInv, StopInv, RowInv, Forward, ContractStep, KeepsEgress,
           NEW a \in Actors, CallStep(a)
    PROVE  RowInv'
<1> USE DEF rowVars, tableVars, sweepVars
<1>0. CallsMean /\ CallMeans(a) /\ RowsAgree /\ SweepsAgree /\ AnswersHold /\ StatusesTook
  BY DEF RowInv, CallsMean
<1>a. /\ pc \in [Actors -> HandlerLabels \union SweeperLabels]
      /\ task \in [Actors -> Task \union {NoTask}]
      /\ answered \subseteq Recordings
  BY DEF TypeInv, TypeOK, ActorInv, TypeOfActors, TypeOfHistory
<1>b. UNCHANGED <<applied, event, todo, due, withdrawn>>
  BY DEF CallStep, ProviderStarts, StartAnswerLost, ProviderRefusesStart, RecordEgressId,
         RecordEgressIdFails, DiscardAgreed, DiscardRefused, SettleNewEgress, StopRecording,
         ProviderStops, ProviderRefusesStop, StopAnswerLost, WriteStopped
<1>c. /\ pc[a] \in StartLabels \union {"move", "stop", "mark"}
      /\ pc[a] \in CallLabels \ (StatusLabels \union {"look"})
  BY DEF CallStep, ProviderStarts, StartAnswerLost, ProviderRefusesStart, RecordEgressId,
         RecordEgressIdFails, DiscardAgreed, DiscardRefused, SettleNewEgress, StopRecording,
         ProviderStops, ProviderRefusesStop, StopAnswerLost, WriteStopped, StartLabels, CallLabels,
         StatusLabels
<1>d. task[a].rec \in Recordings /\ task[a].why \in Errors /\ state[task[a].rec] # "none"
  BY <1>0, <1>c, CallRows DEF CallMeans, MeantForRow
<1>1. RowsAgree'
  <2>1. CASE RecordEgressId(a)
    <3>1. ASSUME NEW r \in Recordings, egress'[r] # egress[r]
          PROVE  state'[r] \notin {"none", "starting"}
      <4>1. r = task[a].rec /\ Unnamed(task[a].rec)
        BY <2>1, <3>1 DEF RecordEgressId, TypeInv, TypeOK, TypeOfRows
      <4>2. state'[r] = OnceNamed(state[r])
        BY <2>1, <4>1 DEF RecordEgressId, TypeInv, TypeOK, TypeOfRows
      <4> QED BY <1>d, <4>1, <4>2 DEF OnceNamed
    <3> QED BY <1>0, <3>1, RowsStillAgree
  <2>2. CASE ~RecordEgressId(a)
    <3>1. UNCHANGED egress
      BY <2>2 DEF CallStep, ProviderStarts, StartAnswerLost, ProviderRefusesStart,
           RecordEgressIdFails, DiscardAgreed, DiscardRefused, SettleNewEgress, StopRecording,
           ProviderStops, ProviderRefusesStop, StopAnswerLost, WriteStopped
    <3> QED BY <1>0, <3>1, RowsStillAgree
  <2> QED BY <2>1, <2>2
<1>2. SweepsAgree' /\ StatusesTook'
  BY <1>0, <1>b, SweepsStillAgree, AppliedStillTook
\* The step goes on to another label of the call,
<1>3. ASSUME NEW p \in StartLabels \union {"stop", "mark"}, NEW t, pc' = [pc EXCEPT ![a] = p],
             task' = [task EXCEPT ![a] = t],
             t.rec = task[a].rec, t.why = task[a].why, t.back = task[a].back,
             p \in StartLabels => pc[a] \in StartLabels,
             p \in {"stop", "mark"} => \/ pc[a] = "move" /\ state'[task[a].rec] \in HandedOver
                                       \/ pc[a] = "stop"
                                       \/ task[a].why # "consent_withdrawn"
      PROVE  CallsMean'
  <2>1. pc'[a] = p /\ task'[a] = t
    BY <1>3, <1>a
  <2>2. CallMeans(a)'
    BY <1>0, <1>3, <1>c, <2>1, GoesOnMeaning
  <2> QED BY <1>0, <1>3, <1>b, <2>2, ActorMeans
\* or it returns to its caller.
<1>4. ASSUME Return(a),
             task[a].why = "consent_withdrawn" => state'[task[a].rec] \notin ProviderOwned
      PROVE  CallsMean' /\ AnswersHold'
  <2>1. /\ CallMeans(a)'
        /\ pc' = [pc EXCEPT ![a] = task[a].back] /\ task' = [task EXCEPT ![a] = NoTask]
        /\ answered' \in {answered, answered \union {task[a].rec}}
        /\ task[a].why # "consent_withdrawn" => answered' = answered
    BY <1>0, <1>4, <1>c, ReturnMeans
  <2>2. CallsMean'
    BY <1>0, <1>b, <2>1, ActorMeans
  <2>3. \A q \in answered' \ answered : q \in withdrawn /\ state'[q] \notin ProviderOwned
    BY <1>0, <1>4, <1>c, <2>1 DEF CallMeans, MeantByWithdrawal
  <2> QED BY <1>0, <1>a, <2>2, <2>3, AnswersStillHold
<1>5. UNCHANGED answered => AnswersHold'
  BY <1>0, <1>a, AnswersStillHold
<1>6. ASSUME Return(a), pc[a] # "move" PROVE CallsMean' /\ AnswersHold'
  <2>1. task[a].why = "consent_withdrawn" => state[task[a].rec] \in HandedOver
    BY <1>0, <1>6, <1>c DEF CallMeans, MeantForRow, MeantByWithdrawal
  <2>2. task[a].why = "consent_withdrawn" => state'[task[a].rec] \notin ProviderOwned
    BY <1>d, <2>1 DEF Forward, Onward, HandedOver, ProviderOwned
  <2> QED BY <1>4, <1>6, <2>2
<1>7. ASSUME NEW p \in StartLabels \union {"stop", "mark"}, Goto(a, p), UNCHANGED <<task, answered>>,
             p \in StartLabels => pc[a] \in StartLabels,
             p \in {"stop", "mark"} => \/ pc[a] = "move" /\ state'[task[a].rec] \in HandedOver
                                       \/ pc[a] = "stop"
                                       \/ task[a].why # "consent_withdrawn"
      PROVE  CallsMean' /\ AnswersHold'
  <2>1. task' = [task EXCEPT ![a] = task[a]] /\ pc' = [pc EXCEPT ![a] = p]
    BY <1>7, <1>a DEF Goto
  <2> QED BY <1>3, <1>5, <1>7, <2>1
<1>8. CallsMean' /\ AnswersHold'
  <2>1. CASE \E j \in Jobs : ProviderStarts(a, j)
    <3>1. PICK j \in Jobs : ProviderStarts(a, j)
      BY <2>1
    <3>2. /\ pc' = [pc EXCEPT ![a] = "record"] /\ UNCHANGED answered /\ pc[a] = "start"
          /\ task' = [task EXCEPT ![a] = [task[a] EXCEPT !.job = j]]
      BY <3>1 DEF ProviderStarts, Enter, Goto, historyVars
    <3>3. task[a] \in Task
      BY <1>c, CallRows
    <3> DEFINE t == [task[a] EXCEPT !.job = j]
    <3>4. t.rec = task[a].rec /\ t.why = task[a].why /\ t.back = task[a].back
      BY <3>3 DEF Task
    <3> QED BY <1>3, <1>5, <3>2, <3>4 DEF StartLabels
  <2>2. CASE (\E j \in Jobs : StartAnswerLost(a, j)) \/ ProviderRefusesStart(a)
    <3>1. StartFailed(a) /\ pc[a] = "start"
      BY <2>2 DEF StartAnswerLost, ProviderRefusesStart
    <3> QED BY <1>6, <1>7, <3>1 DEF StartFailed, StartLabels
  <2>3. CASE RecordEgressId(a) \/ RecordEgressIdFails(a)
    <3>1. \/ Goto(a, "settle") /\ UNCHANGED <<task, answered>>
          \/ Goto(a, "discard") /\ UNCHANGED <<task, answered>>
          \/ Return(a)
      BY <2>3 DEF RecordEgressId, RecordEgressIdFails, NotStored
    <3>2. pc[a] \in {"record", "adopted"}
      BY <2>3 DEF RecordEgressId, RecordEgressIdFails
    <3> QED BY <1>6, <1>7, <3>1, <3>2 DEF StartLabels
  <2>4. CASE SettleNewEgress(a)
    <3>1. pc[a] = "settle" /\ task[a].why = "none"
      BY <1>0, <2>4 DEF SettleNewEgress, CallMeans, MeantForRow, StartLabels
    <3>2. CASE Return(a)
      BY <1>6, <3>1, <3>2
    <3>3. CASE ~Return(a)
      <4>1. PICK reach \in BOOLEAN :
               /\ pc' = [pc EXCEPT ![a] = "stop"] /\ UNCHANGED answered
               /\ task' = [task EXCEPT ![a] = [task[a] EXCEPT !.reach = reach]]
        BY <2>4, <3>3 DEF SettleNewEgress, Enter, Goto
      <4>2. task[a] \in Task
        BY <1>c, CallRows
      <4> DEFINE t == [task[a] EXCEPT !.reach = reach]
      <4>3. t.rec = task[a].rec /\ t.why = task[a].why /\ t.back = task[a].back
        BY <4>2 DEF Task
      <4> QED BY <1>3, <1>5, <3>1, <4>1, <4>3 DEF StartLabels
    <3> QED BY <3>2, <3>3
  <2>5. CASE StopRecording(a)
    <3>1. pc[a] = "move" /\ task[a].why = "consent_withdrawn" => task[a].next = "failed"
      BY <1>0, <1>c, <2>5 DEF StopRecording, CallMeans, MeantByWithdrawal
    <3>2. task[a].next = "failed" => state'[task[a].rec] \in HandedOver
      <4>1. CASE Lands(task[a].rec, RowStates, task[a].next)
        BY <2>5, <1>d, <4>1 DEF StopRecording, TransitionWithin, HandedOver, RowStates, ActiveStates,
             ProviderOwned, TypeInv, TypeOK, TypeOfRows
      <4>2. CASE ~Lands(task[a].rec, RowStates, task[a].next) /\ task[a].next = "failed"
        <5>1. state'[task[a].rec] = state[task[a].rec] /\ state[task[a].rec] \in RowStates
          BY <2>5, <1>d, <4>2 DEF StopRecording, TransitionWithin, TypeInv, TypeOK, TypeOfRows, States
        <5> QED BY <4>2, <5>1 DEF Lands, TransitionLands, MayBecome, HandedOver, RowStates,
                  ActiveStates, ProviderOwned
      <4> QED BY <4>1, <4>2
    <3>3. \/ Goto(a, "stop") /\ UNCHANGED <<task, answered>>
          \/ Return(a)
      BY <2>5 DEF StopRecording
    <3>4. pc[a] = "move"
      BY <2>5 DEF StopRecording
    <3>5. task[a].why = "consent_withdrawn" => state'[task[a].rec] \in HandedOver
      BY <3>1, <3>2, <3>4
    <3> QED BY <1>4, <1>7, <3>3, <3>4, <3>5 DEF StartLabels, HandedOver
  <2>6. CASE ProviderStops(a)
    <3>1. Goto(a, "mark") /\ UNCHANGED <<task, answered>> /\ pc[a] = "stop"
      BY <2>6 DEF ProviderStops, historyVars
    <3> QED BY <1>7, <3>1 DEF StartLabels
  <2>7. CASE \/ DiscardAgreed(a) \/ DiscardRefused(a) \/ ProviderRefusesStop(a)
             \/ StopAnswerLost(a) \/ WriteStopped(a)
    BY <1>6, <2>7 DEF DiscardAgreed, DiscardRefused, ProviderRefusesStop, StopAnswerLost, WriteStopped
  <2> QED BY <2>1, <2>2, <2>3, <2>4, <2>5, <2>6, <2>7 DEF CallStep
<1> QED BY <1>1, <1>2, <1>8 DEF RowInv

\* A request or a webhook arrives: what it carries on is what it read.
LEMMA ArriveRows ==
    ASSUME TypeInv, StopInv, RowInv, Forward, ContractStep, KeepsEgress,
           NEW h \in Handlers, Arrive(h)
    PROVE  RowInv'
<1> USE DEF rowVars, tableVars, sweepVars, historyVars
<1>0. CallsMean /\ RowsAgree /\ SweepsAgree /\ AnswersHold /\ StatusesTook
  BY DEF RowInv
<1>a. /\ pc \in [Actors -> HandlerLabels \union SweeperLabels]
      /\ task \in [Actors -> Task \union {NoTask}]
      /\ event \in [Handlers -> Event \union {NoEvent}] /\ h \in Actors
      /\ answered \subseteq Recordings
  BY DEF TypeInv, TypeOK, ActorInv, TypeOfActors, TypeOfHistory, Actors
<1>1. UNCHANGED <<egress, todo, due, applied, answered>>
  BY DEF Arrive, BeginRecording, EndInterview, WithdrawConsent, ReceiveStatus, TakeEvent
<1>2. RowsAgree' /\ SweepsAgree' /\ AnswersHold' /\ StatusesTook'
  BY <1>0, <1>a, <1>1, RowsStillAgree, SweepsStillAgree, AnswersStillHold, AppliedStillTook
<1>3. ASSUME NEW r \in Recordings, BeginRecording(h, r) PROVE CallsMean'
  <2>1. pc' = [pc EXCEPT ![h] = "start"] /\ UNCHANGED event
        /\ task' = [task EXCEPT ![h] = Call(r, NoJob, "recording", "none", "idle")]
    BY <1>3 DEF BeginRecording, Enter, Goto
  <2>2. state'[r] # "none"
    BY <1>3 DEF BeginRecording, TypeInv, TypeOK, TypeOfRows
  <2>3. CallMeans(h)'
    BY <1>a, <2>1, <2>2
       DEF CallMeans, MeantForRow, MeantByWithdrawal, MeantByStatus, Call, StartLabels, StatusLabels
  <2> QED BY <1>0, <1>a, <2>1, <2>3, ActorMeans
<1>4. ASSUME NEW r \in Recordings, EndInterview(h, r) PROVE CallsMean'
  <2>1. pc' = [pc EXCEPT ![h] = "move"] /\ UNCHANGED <<event, state>>
        /\ task' = [task EXCEPT ![h] = Call(r, egress[r], "finalizing", "none", "idle")]
    BY <1>4 DEF EndInterview, Enter, Goto
  <2>2. state[r] # "none"
    BY <1>4 DEF EndInterview, IsActive, ActiveStates
  <2>3. CallMeans(h)'
    BY <1>a, <2>1, <2>2
       DEF CallMeans, MeantForRow, MeantByWithdrawal, MeantByStatus, Call, StartLabels, StatusLabels,
           StopReasons
  <2> QED BY <1>0, <1>a, <2>1, <2>3, ActorMeans
<1>5. ASSUME NEW r \in Recordings, WithdrawConsent(h, r) PROVE CallsMean'
  <2>1. pc' = [pc EXCEPT ![h] = "look"] /\ UNCHANGED event /\ r \in withdrawn'
        /\ task' = [task EXCEPT ![h] = Call(r, NoJob, "failed", "consent_withdrawn", "idle")]
    BY <1>5 DEF WithdrawConsent, Enter, Goto
  <2>2. CallMeans(h)'
    BY <1>a, <2>1
       DEF CallMeans, MeantForRow, MeantByWithdrawal, MeantByStatus, Call, StartLabels, StatusLabels
  <2> QED BY <1>0, <1>a, <2>1, <2>2, ActorMeans
<1>6. ASSUME NEW e \in sent, ReceiveStatus(h, e) PROVE CallsMean'
  <2>1. PICK r \in Recordings : ApplyStatus(h, e, r)
    BY <1>6 DEF ReceiveStatus
  <2>2. e \in Event /\ e.job \in Jobs /\ e.status \in Statuses
    BY DEF TypeInv, TypeOK, TypeOfProvider, Event
  <2>3. event' = [event EXCEPT ![h] = e] /\ UNCHANGED <<state, stopped>> /\ egress[r] = e.job
    BY <1>6, <2>1 DEF ReceiveStatus, TakeEvent, ApplyStatus
  <2>4. CASE Goto(h, "ack") /\ UNCHANGED task /\ (state[r] = "deleted" \/ EgressOutcome[e.status] = NoOutcome)
    <3>1. TookEffect(e)'
      <4>1. CASE state[r] = "deleted"
        BY <1>1, <2>3, <4>1 DEF TookEffect, HandedOver, RowStates, ActiveStates, ProviderOwned
      <4>2. CASE EgressOutcome[e.status] = NoOutcome
        <5>1. e.status \notin TerminalStatuses
          BY <2>2, <4>2 DEF EgressOutcome, Statuses, TerminalStatuses, NoOutcome
        <5> QED BY <5>1 DEF TookEffect
      <4> QED BY <2>4, <4>1, <4>2
    <3>2. pc' = [pc EXCEPT ![h] = "ack"] /\ task' = [task EXCEPT ![h] = task[h]]
      BY <1>a, <2>4 DEF Goto
    <3>3. event'[h] = e /\ pc'[h] = "ack"
      BY <1>a, <2>3, <3>2
    <3>4. TookEffect(event[h])'
      BY <3>1, <3>3 DEF TookEffect
    <3>5. CallMeans(h)'
      BY <3>3, <3>4
         DEF CallMeans, MeantForRow, MeantByWithdrawal, MeantByStatus, StartLabels, StatusLabels,
             CallLabels
    <3> QED BY <1>0, <1>a, <2>3, <3>2, <3>5, ActorMeans
  <2>5. CASE Enter(h, "status_mark", Call(r, e.job, EgressOutcome[e.status].next,
                                         EgressOutcome[e.status].why, "ack"))
             /\ EgressOutcome[e.status] # NoOutcome
    <3>1. /\ EgressOutcome[e.status].next \in {"transferring", "failed"}
          /\ EgressOutcome[e.status].why \in ProviderFailures \union {"none"}
      BY <2>2, <2>5 DEF EgressOutcome, Statuses, TerminalStatuses, NoOutcome, ProviderFailures
    <3> DEFINE t == Call(r, e.job, EgressOutcome[e.status].next, EgressOutcome[e.status].why, "ack")
    <3>2. /\ t.rec = r /\ t.back = "ack" /\ t.next \in {"transferring", "failed"}
          /\ t.why \in ProviderFailures \union {"none"}
      BY <3>1 DEF Call
    <3>3. pc' = [pc EXCEPT ![h] = "status_mark"] /\ task' = [task EXCEPT ![h] = t]
      BY <2>5 DEF Enter, Goto
    <3> HIDE DEF t
    <3>4. state[r] # "none"
      BY <1>0, <2>2, <2>3, NoJobAssumption DEF RowsAgree
    <3>5. pc'[h] = "status_mark" /\ task'[h] = t /\ event'[h] = e
      BY <1>a, <2>3, <3>3
    <3>6. t.why # "consent_withdrawn"
      BY <3>2 DEF ProviderFailures
    <3>7. CallMeans(h)'
      BY <1>1, <2>3, <3>2, <3>4, <3>5, <3>6
         DEF CallMeans, MeantForRow, MeantByWithdrawal, MeantByStatus, StartLabels, StatusLabels
    <3> QED BY <1>0, <1>a, <2>3, <3>3, <3>7, ActorMeans
  <2> QED BY <2>1, <2>4, <2>5 DEF ApplyStatus
<1> QED BY <1>2, <1>3, <1>4, <1>5, <1>6 DEF Arrive, RowInv

\* A request goes on: a withdrawal is answered when the row is out of the
\* provider's hands, and a status is acknowledged when its row is.
LEMMA HandlerStepRows ==
    ASSUME TypeInv, StopInv, RowInv, Forward, ContractStep, KeepsEgress,
           NEW h \in Handlers, HandlerStep(h)
    PROVE  RowInv'
<1> USE DEF rowVars, tableVars, sweepVars, historyVars
<1>0. /\ CallsMean /\ RowsAgree /\ SweepsAgree /\ AnswersHold /\ StatusesTook
      /\ MeantForRow(h) /\ MeantByWithdrawal(h) /\ MeantByStatus(h) /\ CallMeans(h)
  BY DEF RowInv, CallsMean, CallMeans, Actors
<1>a. /\ pc \in [Actors -> HandlerLabels \union SweeperLabels]
      /\ task \in [Actors -> Task \union {NoTask}]
      /\ event \in [Handlers -> Event \union {NoEvent}] /\ h \in Actors
      /\ answered \subseteq Recordings /\ applied \subseteq Event
  BY DEF TypeInv, TypeOK, ActorInv, TypeOfActors, TypeOfHistory, TypeOfRows, Actors
<1>1. CASE CallStep(h)
  BY <1>1, <1>a, CallStepRows
<1>2. ASSUME UNCHANGED <<egress, todo, due>> PROVE RowsAgree' /\ SweepsAgree'
  BY <1>0, <1>2, RowsStillAgree, SweepsStillAgree
<1>3. UNCHANGED answered => AnswersHold'
  BY <1>0, <1>a, AnswersStillHold
<1>4. CASE LookForRecording(h)
  <2>1. /\ pc[h] = "look" /\ task[h].why = "consent_withdrawn" /\ task[h].rec \in withdrawn
        /\ task[h].next = "failed" /\ task[h].back # "ack"
    BY <1>0, <1>4 DEF LookForRecording, MeantForRow, MeantByWithdrawal, CallLabels, StatusLabels
  <2>2. task[h] \in Task /\ task[h].rec \in Recordings
    BY <2>1, <1>a, CallRows DEF CallLabels
  <2>3. UNCHANGED <<state, egress, todo, due, applied, event, withdrawn>>
    BY <1>4 DEF LookForRecording
  <2>4. CallsMean' /\ AnswersHold'
    <3>1. CASE IsActive(state[task[h].rec])
      <4> DEFINE t == [task[h] EXCEPT !.job = egress[task[h].rec]]
      <4>1. pc' = [pc EXCEPT ![h] = "move"] /\ task' = [task EXCEPT ![h] = t] /\ UNCHANGED answered
        BY <1>4, <3>1 DEF LookForRecording, Enter, Goto
      <4>2. /\ t.rec = task[h].rec /\ t.why = task[h].why /\ t.next = task[h].next
            /\ t.back = task[h].back
        BY <2>2 DEF Task
      <4> HIDE DEF t
      <4>3. pc'[h] = "move" /\ task'[h] = t
        BY <1>a, <4>1
      <4>4. state[task[h].rec] # "none"
        BY <3>1 DEF IsActive, ActiveStates
      <4>5. CallMeans(h)'
        BY <2>1, <2>3, <4>2, <4>3, <4>4
           DEF CallMeans, MeantForRow, MeantByWithdrawal, MeantByStatus, StartLabels, StatusLabels,
               StopReasons
      <4> QED BY <1>0, <1>3, <1>a, <2>3, <4>1, <4>5, ActorMeans
    <3>2. CASE ~IsActive(state[task[h].rec])
      <4>1. Return(h)
        BY <1>4, <3>2 DEF LookForRecording
      <4>2. /\ CallMeans(h)'
            /\ pc' = [pc EXCEPT ![h] = task[h].back] /\ task' = [task EXCEPT ![h] = NoTask]
            /\ answered' \in {answered, answered \union {task[h].rec}}
        BY <1>0, <1>a, <2>1, <4>1, ReturnMeans DEF CallLabels, StatusLabels
      <4>3. state'[task[h].rec] \notin ProviderOwned
        BY <2>3, <3>2 DEF IsActive, ActiveStates, ProviderOwned
      <4>4. AnswersHold'
        BY <1>0, <1>a, <2>1, <4>2, <4>3, AnswersStillHold
      <4> QED BY <1>0, <1>a, <2>3, <4>2, <4>4, ActorMeans
    <3> QED BY <3>1, <3>2
  <2> QED BY <1>0, <1>2, <2>3, <2>4, AppliedStillTook DEF RowInv
<1>5. ASSUME pc[h] \in StatusLabels
      PROVE  /\ task[h] \in Task /\ task[h].rec \in Recordings /\ event[h] \in Event
             /\ egress[task[h].rec] = event[h].job /\ event[h].job # NoJob
             /\ state[task[h].rec] \in States \ {"none", "starting"}
             /\ task[h].why # "consent_withdrawn" /\ task[h].back = "ack"
  <2>1. task[h] \in Task /\ task[h].rec \in Recordings /\ state[task[h].rec] \in States
    BY <1>5, <1>a, CallRows DEF StatusLabels, CallLabels
  <2>2. task[h].back = "ack" /\ egress[task[h].rec] = event[h].job
        /\ task[h].why \in ProviderFailures \union {"none"}
    BY <1>0, <1>5 DEF MeantByStatus
  <2>3. event[h] \in Event
    BY <1>5, <2>2 DEF TypeInv, ActorInv, EventsAreHeld, StatusLabels, CallLabels
  <2>4. event[h].job # NoJob
    BY <2>3, NoJobAssumption DEF Event
  <2> QED BY <1>0, <2>1, <2>2, <2>3, <2>4 DEF RowsAgree, ProviderFailures
\* The call returns, and its event may be acknowledged: it took effect.
<1>6. ASSUME pc[h] \in StatusLabels, Return(h), UNCHANGED <<event, egress, stopped>>,
             task[h].rec \in stopped, state'[task[h].rec] \in HandedOver
      PROVE  CallsMean' /\ AnswersHold'
  <2>1. /\ pc' = [pc EXCEPT ![h] = "ack"] /\ task' = [task EXCEPT ![h] = NoTask]
        /\ UNCHANGED answered
    BY <1>5, <1>6 DEF Return, Leave, Goto
  <2>2. TookEffect(event[h])'
    BY <1>5, <1>6 DEF TookEffect
  <2>3. pc'[h] = "ack"
    BY <1>a, <2>1
  <2>4. CallMeans(h)'
    BY <2>2, <2>3
       DEF CallMeans, MeantForRow, MeantByWithdrawal, MeantByStatus, StartLabels, StatusLabels,
           CallLabels
  <2> QED BY <1>0, <1>3, <1>6, <1>a, <2>1, <2>4, ActorMeans
<1>7. CASE StatusMarksStopped(h)
  <2>1. /\ pc[h] = "status_mark" /\ pc' = [pc EXCEPT ![h] = "status_move"]
        /\ task' = [task EXCEPT ![h] = task[h]] /\ task[h].rec \in stopped'
        /\ UNCHANGED <<state, egress, todo, due, applied, answered, event>>
    BY <1>7, <1>a DEF StatusMarksStopped, MarkStopped, Goto
  <2>2. pc'[h] = "status_move" /\ task'[h] = task[h]
    BY <1>a, <2>1
  <2>3. CallMeans(h)'
    BY <1>0, <1>5, <2>1, <2>2
       DEF CallMeans, MeantForRow, MeantByWithdrawal, MeantByStatus, StartLabels, StatusLabels,
           CallLabels
  <2>4. CallsMean'
    BY <1>0, <1>a, <2>1, <2>3, ActorMeans
  <2> QED BY <1>0, <1>2, <1>3, <2>1, <2>4, AppliedStillTook DEF RowInv
<1>8. CASE StatusMovesRow(h)
  <2> DEFINE r == task[h].rec
             next == task[h].next
  <2>1. /\ pc[h] = "status_move" /\ r \in stopped /\ next \in {"transferring", "failed"}
        /\ UNCHANGED <<egress, stopped, todo, due, applied, event>>
    BY <1>0, <1>8 DEF StatusMovesRow, MeantByStatus, StatusLabels
  <2>2. state'[r] \in HandedOver
    <3> USE DEF HandedOver, RowStates, ActiveStates, ProviderOwned
    <3>1. TransitionWithin(r, ProviderOwned, next, task[h].why)
      BY <1>8 DEF StatusMovesRow
    <3>2. state[r] \in States \ {"none", "starting"} /\ r \in Recordings
      BY <1>5, <2>1 DEF StatusLabels
    <3>3. CASE Lands(r, ProviderOwned, next)
      BY <2>1, <3>1, <3>2, <3>3 DEF TransitionWithin, TypeInv, TypeOK, TypeOfRows
    <3>4. CASE ~Lands(r, ProviderOwned, next)
      <4>1. state[r] \in HandedOver
        BY <2>1, <3>2, <3>4 DEF Lands, TransitionLands, MayBecome, States
      <4> QED BY <3>1, <3>4, <4>1 DEF TransitionWithin
    <3> QED BY <3>3, <3>4
  <2>3. CallsMean' /\ AnswersHold'
    <3>1. CASE Return(h)
      BY <1>6, <2>1, <2>2, <3>1 DEF StatusLabels
    <3>2. CASE ~Return(h)
      <4>1. /\ pc' = [pc EXCEPT ![h] = "status_queue"] /\ task' = [task EXCEPT ![h] = task[h]]
            /\ UNCHANGED answered
        BY <1>8, <1>a, <3>2 DEF StatusMovesRow, Goto
      <4>2. pc'[h] = "status_queue" /\ task'[h] = task[h]
        BY <1>a, <4>1
      <4>3. state'[r] # "none"
        BY <2>2 DEF HandedOver, RowStates, ActiveStates
      <4>4. CallMeans(h)'
        BY <1>0, <1>5, <2>1, <2>2, <4>2, <4>3
           DEF CallMeans, MeantForRow, MeantByWithdrawal, MeantByStatus, StartLabels, StatusLabels,
               CallLabels
      <4> QED BY <1>0, <1>3, <1>a, <2>1, <4>1, <4>4, ActorMeans
    <3> QED BY <3>1, <3>2
  <2> QED BY <1>0, <1>2, <2>1, <2>3, AppliedStillTook DEF RowInv
<1>9. CASE StatusQueuesDelivery(h)
  <2>1. /\ pc[h] = "status_queue" /\ Return(h)
        /\ UNCHANGED <<state, egress, stopped, todo, due, applied, event>>
    BY <1>9 DEF StatusQueuesDelivery
  <2>2. task[h].rec \in stopped /\ state'[task[h].rec] \in HandedOver
    BY <1>0, <2>1 DEF MeantByStatus
  <2>3. CallsMean' /\ AnswersHold'
    BY <1>6, <2>1, <2>2 DEF StatusLabels
  <2> QED BY <1>0, <1>2, <2>1, <2>3, AppliedStillTook DEF RowInv
<1>10. CASE Acknowledge(h)
  <2>1. /\ pc[h] = "ack" /\ pc' = [pc EXCEPT ![h] = "idle"] /\ task' = [task EXCEPT ![h] = task[h]]
        /\ event' = [event EXCEPT ![h] = NoEvent] /\ applied' = applied \union {event[h]}
        /\ UNCHANGED <<state, egress, stopped, todo, due, answered>>
    BY <1>10, <1>a DEF Acknowledge, Goto
  <2>2. StatusesTook'
    <3>1. TookEffect(event[h])
      BY <1>0, <2>1 DEF MeantByStatus
    <3> SUFFICES ASSUME NEW e \in applied' PROVE TookEffect(e)'
      BY DEF StatusesTook
    <3>2. TookEffect(e)
      BY <1>0, <2>1, <3>1 DEF StatusesTook
    <3> QED BY <2>1, <3>2 DEF TookEffect
  <2>3. pc'[h] = "idle"
    BY <1>a, <2>1
  <2>4. CallMeans(h)'
    BY <2>3, NothingMeant DEF CallLabels
  <2>5. CallsMean'
    BY <1>0, <1>a, <2>1, <2>4, ActorMeans
  <2> QED BY <1>2, <1>3, <2>1, <2>2, <2>5 DEF RowInv
<1> QED BY <1>1, <1>4, <1>7, <1>8, <1>9, <1>10 DEF HandlerStep

\* A sweep goes on: the rows it works on are rows, the ones it deletes are
\* delivered, and it stops nothing in the name of a withdrawal.
LEMMA SweeperStepRows ==
    ASSUME TypeInv, StopInv, RowInv, Forward, ContractStep, KeepsEgress,
           NEW s \in Sweepers, SweeperStep(s)
    PROVE  RowInv'
<1> USE DEF rowVars, tableVars, sweepVars, historyVars
<1>0. /\ CallsMean /\ RowsAgree /\ SweepsAgree /\ AnswersHold /\ StatusesTook /\ CallMeans(s)
      /\ OrphansHold
  BY DEF RowInv, CallsMean, StopInv, Actors
<1>a. /\ pc \in [Actors -> HandlerLabels \union SweeperLabels]
      /\ task \in [Actors -> Task \union {NoTask}] /\ s \in Actors
      /\ answered \subseteq Recordings
      /\ todo \in [Sweepers -> SUBSET Snapshot]
      /\ due \in [Sweepers -> SUBSET Recordings]
      /\ orphans \in [Sweepers -> SUBSET (Recordings \X Jobs)]
      /\ state \in [Recordings -> States] /\ egress \in [Recordings -> MaybeJob]
  BY DEF TypeInv, TypeOK, ActorInv, TypeOfActors, TypeOfSweeps, TypeOfHistory, TypeOfRows, Actors
<1>1. CASE CallStep(s)
  BY <1>1, <1>a, CallStepRows
\* Whatever a sweep does itself, it answers nothing and names no job.
<1>2. ASSUME UNCHANGED <<egress, answered, applied>> PROVE RowsAgree' /\ AnswersHold' /\ StatusesTook'
  BY <1>0, <1>2, <1>a, RowsStillAgree, AnswersStillHold, AppliedStillTook
<1>3. ASSUME todo' = [todo EXCEPT ![s] = todo'[s]], todo'[s] \subseteq todo[s],
             due' = [due EXCEPT ![s] = due'[s]], due'[s] \subseteq due[s]
      PROVE  SweepsAgree'
  <2>1. /\ \A z \in Sweepers : todo'[z] \subseteq todo[z]
        /\ \A z \in Sweepers : due'[z] \subseteq due[z]
    BY <1>3, <1>a
  <2> QED BY <1>0, <2>1, SweepsStillAgree
<1>4. UNCHANGED <<todo, due>> => SweepsAgree'
  BY <1>0, SweepsStillAgree
<1>5. ASSUME NEW p, p \notin CallLabels \union {"ack"}, Goto(s, p), UNCHANGED <<task, event>>
      PROVE  CallsMean'
  <2>1. pc' = [pc EXCEPT ![s] = p] /\ task' = [task EXCEPT ![s] = task[s]] /\ pc'[s] = p
    BY <1>5, <1>a DEF Goto
  <2>2. CallMeans(s)'
    BY <1>5, <2>1, NothingMeant
  <2> QED BY <1>0, <1>5, <1>a, <2>1, <2>2, ActorMeans
<1>6. ASSUME NEW p, NEW t, pc' = [pc EXCEPT ![s] = p], task' = [task EXCEPT ![s] = t],
             pc[s] \in StartLabels, p \in StartLabels, UNCHANGED event,
             t.rec = task[s].rec, t.why = task[s].why, t.back = task[s].back
      PROVE  CallsMean'
  <2>1. pc'[s] = p /\ task'[s] = t
    BY <1>6, <1>a
  <2>2. CallMeans(s)'
    BY <1>0, <1>6, <1>a, <2>1, GoesOnMeaning DEF StartLabels, StatusLabels, CallLabels
  <2> QED BY <1>0, <1>6, <1>a, <2>2, ActorMeans
<1>7. ASSUME pc[s] \in StartLabels, Return(s), UNCHANGED event PROVE CallsMean' /\ UNCHANGED answered
  <2>1. task[s].why # "consent_withdrawn" /\ pc[s] \in CallLabels \ StatusLabels
    BY <1>0, <1>7 DEF CallMeans, MeantForRow, StartLabels, StatusLabels, CallLabels
  <2>2. /\ CallMeans(s)' /\ UNCHANGED answered
        /\ pc' = [pc EXCEPT ![s] = task[s].back] /\ task' = [task EXCEPT ![s] = NoTask]
    BY <1>0, <1>7, <1>a, <2>1, ReturnMeans
  <2> QED BY <1>0, <1>7, <1>a, <2>2, ActorMeans
<1>8. CASE ReadStale(s)
  <2>1. \A taken \in todo'[s] : taken.rec \in Recordings /\ state[taken.rec] # "none"
    BY <1>8, <1>a DEF ReadStale, Row, IsStale, IsActive, ActiveStates
  <2>2. /\ \A z \in Sweepers : \A taken \in todo'[z] :
              taken \in todo[z] \/ (taken.rec \in Recordings /\ state[taken.rec] # "none")
        /\ UNCHANGED due
    BY <1>8, <1>a, <2>1 DEF ReadStale
  <2>3. SweepsAgree'
    BY <1>0, <2>2, SweepsStillAgree
  <2>4. CallsMean'
    BY <1>5, <1>8 DEF ReadStale, CallLabels
  <2> QED BY <1>2, <1>8, <2>3, <2>4 DEF ReadStale, RowInv
<1>9. CASE ReadDue(s)
  <2>1. \A r \in due'[s] : r \in Recordings /\ state[r] \in HandedOver
    BY <1>9, <1>a
       DEF ReadDue, IsDue, Deletable, HandedOver, RowStates, ActiveStates, ProviderOwned
  <2>2. /\ \A z \in Sweepers : \A r \in due'[z] :
              r \in due[z] \/ (r \in Recordings /\ state[r] \in HandedOver)
        /\ UNCHANGED todo
    BY <1>9, <1>a, <2>1 DEF ReadDue
  <2>3. SweepsAgree'
    BY <1>0, <2>2, SweepsStillAgree
  <2>4. CallsMean'
    BY <1>5, <1>9 DEF ReadDue, CallLabels
  <2> QED BY <1>2, <1>9, <2>3, <2>4 DEF ReadDue, RowInv
<1>10. CASE \E r \in Recordings : DeleteRecording(s, r) \/ DeletionFails(s, r)
  <2>1. PICK r \in Recordings : DueHandled(s, r)
    BY <1>10 DEF DeleteRecording, DeletionFails
  <2>2. UNCHANGED <<egress, answered, applied>>
    BY <1>10 DEF DeleteRecording, DeletionFails, DueHandled
  <2>3. SweepsAgree'
    BY <1>3, <1>a, <2>1 DEF DueHandled
  <2>4. CallsMean'
    BY <1>5, <2>1 DEF DueHandled, CallLabels
  <2> QED BY <1>2, <2>2, <2>3, <2>4 DEF RowInv
<1>11. ASSUME NEW taken \in todo[s],
              \/ SweepKilled(s, taken) \/ SweepRetries(s, taken) \/ SweepGivesUp(s, taken)
              \/ SweepWaits(s, taken) \/ SweepAbandons(s, taken)
       PROVE  RowInv'
  <2>1. SweepRow(s, taken)
    BY <1>11 DEF SweepKilled, SweepRetries, SweepGivesUp, SweepWaits, SweepAbandons
  <2>2. state[taken.rec] # "none" /\ UNCHANGED <<state, egress, answered, applied, event>>
    BY <1>0, <2>1 DEF SweepRow, SweepsAgree
  <2>3. SweepsAgree'
    BY <1>3, <1>a, <2>1 DEF SweepRow
  <2>4. ASSUME NEW why \in StopReasons \ {"consent_withdrawn"}, FailStale(s, taken, why)
        PROVE  CallsMean'
    <3>1. pc' = [pc EXCEPT ![s] = "move"]
          /\ task' = [task EXCEPT ![s] = Call(taken.rec, taken.egress, "failed", why, "sweep")]
      BY <2>4 DEF FailStale, Enter, Goto
    <3>2. CallMeans(s)'
      BY <1>a, <2>2, <2>4, <3>1
         DEF CallMeans, MeantForRow, MeantByWithdrawal, MeantByStatus, Call, StartLabels, StatusLabels
    <3> QED BY <1>0, <1>a, <2>2, <3>1, <3>2, ActorMeans
  <2>5. ASSUME SweepRetries(s, taken) PROVE CallsMean'
    <3>1. pc' = [pc EXCEPT ![s] = "claim"]
          /\ task' = [task EXCEPT ![s] = Call(taken.rec, NoJob, "recording", "none", "sweep")]
      BY <2>5 DEF SweepRetries, Enter, Goto
    <3>2. CallMeans(s)'
      BY <1>a, <2>2, <3>1
         DEF CallMeans, MeantForRow, MeantByWithdrawal, MeantByStatus, Call, StartLabels, StatusLabels
    <3> QED BY <1>0, <1>a, <2>2, <3>1, <3>2, ActorMeans
  <2>6. ASSUME SweepWaits(s, taken) PROVE CallsMean'
    BY <1>0, <2>2, <2>6, ActorsMean DEF SweepWaits
  <2>7. CallsMean'
    BY <1>11, <2>4, <2>5, <2>6 DEF SweepKilled, SweepGivesUp, SweepAbandons, StopReasons
  <2> QED BY <1>2, <2>2, <2>3, <2>7 DEF RowInv
<1>12. CASE ClaimRetry(s) \/ AdoptFindsNone(s) \/ AdoptFails(s) \/ BumpRetry(s)
  <2>1. /\ UNCHANGED <<egress, applied, todo, due, event>> /\ pc[s] \in StartLabels
        /\ \/ Return(s)
           \/ \E p \in StartLabels : Goto(s, p) /\ UNCHANGED <<task, answered>>
    BY <1>12 DEF ClaimRetry, AdoptFindsNone, AdoptFails, BumpRetry, StartLabels
  <2>2. CASE Return(s)
    BY <1>2, <1>4, <1>7, <2>1, <2>2 DEF RowInv
  <2>3. CASE \E p \in StartLabels : Goto(s, p) /\ UNCHANGED <<task, answered>>
    <3>1. PICK p \in StartLabels : Goto(s, p) /\ UNCHANGED <<task, answered>>
      BY <2>3
    <3>2. pc' = [pc EXCEPT ![s] = p] /\ task' = [task EXCEPT ![s] = task[s]]
      BY <1>a, <3>1 DEF Goto
    <3> QED BY <1>2, <1>4, <1>6, <2>1, <3>1, <3>2 DEF RowInv
  <2> QED BY <2>1, <2>2, <2>3
<1>13. ASSUME NEW j \in Jobs, AdoptFindsJob(s, j) PROVE RowInv'
  <2> DEFINE t == [task[s] EXCEPT !.job = j]
  <2>1. /\ pc' = [pc EXCEPT ![s] = "adopted"] /\ task' = [task EXCEPT ![s] = t]
        /\ pc[s] \in StartLabels /\ UNCHANGED <<egress, applied, todo, due, event, answered>>
    BY <1>13 DEF AdoptFindsJob, Enter, Goto, StartLabels
  <2>2. task[s] \in Task
    BY <1>a, <2>1, CallRows DEF StartLabels, CallLabels
  <2>3. t.rec = task[s].rec /\ t.why = task[s].why /\ t.back = task[s].back
    BY <2>2 DEF Task
  <2>4. CallsMean'
    BY <1>6, <2>1, <2>3 DEF StartLabels
  <2> QED BY <1>2, <1>4, <2>1, <2>4 DEF RowInv
<1>14. ASSUME NEW o \in orphans[s], AskOrphan(s, o) PROVE RowInv'
  <2>1. /\ pc' = [pc EXCEPT ![s] = "stop"] /\ UNCHANGED <<state, egress, applied, todo, due, event>>
        /\ task' = [task EXCEPT ![s] = Call(o[1], o[2], "failed", "none", "orphan")]
        /\ UNCHANGED answered
    BY <1>14 DEF AskOrphan, Enter, Goto
  <2>2. o[1] \in Recordings /\ o[2] \in Jobs /\ egress[o[1]] = o[2]
    BY <1>0, <1>a DEF OrphansHold
  <2>3. state[o[1]] # "none"
    BY <1>0, <2>2, NoJobAssumption DEF RowsAgree
  <2>4. CallMeans(s)'
    BY <1>a, <2>1, <2>3
       DEF CallMeans, MeantForRow, MeantByWithdrawal, MeantByStatus, Call, StartLabels, StatusLabels
  <2>5. CallsMean'
    BY <1>0, <1>a, <2>1, <2>4, ActorMeans
  <2> QED BY <1>2, <1>4, <2>1, <2>5 DEF RowInv
<1>15. CASE RequeueOrphanedWork(s) \/ ReadOrphans(s) \/ EndSweep(s)
  <2>1. UNCHANGED <<egress, answered, applied, todo, due>>
    BY <1>15 DEF RequeueOrphanedWork, ReadOrphans, EndSweep
  <2>2. CallsMean'
    BY <1>5, <1>15 DEF RequeueOrphanedWork, ReadOrphans, EndSweep, CallLabels
  <2> QED BY <1>2, <1>4, <2>1, <2>2 DEF RowInv
<1> QED BY <1>1, <1>8, <1>9, <1>10, <1>11, <1>12, <1>13, <1>14, <1>15 DEF SweeperStep

\* The delivery worker, the provider, the clock and a restart leave every call
\* as it is or drop it.
LEMMA WorldRows ==
    ASSUME TypeInv, StopInv, RowInv, Forward, ContractStep, KeepsEgress,
           \/ DeliveryStep \/ ProviderStep \/ Tick
           \/ (\E a \in Actors : Crash(a)) \/ ThrowKillSwitch
           \/ UNCHANGED vars
    PROVE  RowInv'
<1> USE DEF rowVars, tableVars, sweepVars, historyVars, actorVars
<1>0. CallsMean /\ RowsAgree /\ SweepsAgree /\ AnswersHold /\ StatusesTook
      /\ answered \subseteq Recordings
  BY DEF RowInv, TypeInv, TypeOK, TypeOfHistory
<1>1. ASSUME UNCHANGED <<egress, answered, applied>>,
             \A s \in Sweepers : todo'[s] \subseteq todo[s] /\ due'[s] \subseteq due[s]
      PROVE  RowsAgree' /\ SweepsAgree' /\ AnswersHold' /\ StatusesTook'
  BY <1>0, <1>1, RowsStillAgree, SweepsStillAgree, AnswersStillHold, AppliedStillTook
<1>2. CASE DeliveryStep \/ ProviderStep \/ Tick \/ UNCHANGED vars
  <2>1. UNCHANGED <<egress, answered, applied, todo, due, pc, task, event>>
    BY <1>2
       DEF DeliveryStep, WorkerMoves, WorkerReleases, Deliver, DeliveryAttemptFails,
           DeliveryGivesUp, ReopenDelivery, ReleaseClaim, MoveRow, OperatorRetries, Tick, vars,
           ProviderStep, JobReports, JobEnds, Send
  <2> QED BY <1>0, <1>1, <2>1, ActorsMean DEF RowInv
<1>3. ASSUME NEW gone \in SUBSET Actors, Drop(gone) PROVE RowInv'
  <2>1. RowsAgree' /\ SweepsAgree' /\ AnswersHold' /\ StatusesTook'
    BY <1>1, <1>3 DEF Drop
  <2>2. ASSUME NEW b \in Actors PROVE CallMeans(b)'
    <3>1. CASE b \in gone
      <4>1. pc'[b] = "idle"
        BY <1>3, <3>1 DEF Drop
      <4> QED BY <4>1, NothingMeant DEF CallLabels
    <3>2. CASE b \notin gone
      <4>1. pc'[b] = pc[b] /\ task'[b] = task[b] /\ (b \in Handlers => event'[b] = event[b])
        BY <1>3, <3>2 DEF Drop
      <4> QED BY <1>0, <4>1, BystanderMeans DEF CallsMean
    <3> QED BY <3>1, <3>2
  <2> QED BY <2>1, <2>2 DEF RowInv, CallsMean
<1>4. CASE (\E a \in Actors : Crash(a)) \/ ThrowKillSwitch
  BY <1>3, <1>4 DEF Crash, ThrowKillSwitch
<1> QED BY <1>2, <1>4

\* The invariant is inductive, relative to the types and to what calls know.
LEMMA RowInvNext == TypeInv /\ StopInv /\ RowInv /\ [Next]_vars => RowInv'
<1> SUFFICES ASSUME TypeInv, StopInv, RowInv, [Next]_vars PROVE RowInv'
  OBVIOUS
<1>1. KeepsEgress /\ Forward /\ ContractStep
  BY Keeps, GoesForward, KeepsContractStep
<1> QED BY <1>1, ArriveRows, HandlerStepRows, SweeperStepRows, WorldRows DEF Next

LEMMA RowsAlways == Spec => [](TypeInv /\ StopInv /\ RowInv)
<1>1. Init => TypeInv /\ StopInv /\ RowInv
  BY TypeInvInit, StopInvInit, RowInvInit
<1>2. (TypeInv /\ StopInv /\ RowInv) /\ [Next]_vars => (TypeInv /\ StopInv /\ RowInv)'
  BY TypeInvNext, StopInvNext, RowInvNext
<1> QED BY <1>1, <1>2, PTL DEF Spec

(***************************************************************************)
(* Every step is one RecordingLifecycle allows.                            *)
(***************************************************************************)
LifecycleStep == [Lifecycle!Next]_(Lifecycle!vars)

\* A step that answers a withdrawal moves no other row than the one it answers.
LEMMA AnswersOfOneRow ==
    ASSUME TypeInv, [Next]_vars, ~UNCHANGED answered
    PROVE  \E r \in Recordings :
               /\ answered' = answered \union {r}
               /\ \A q \in Recordings \ {r} : state'[q] = state[q]
<1> USE DEF historyVars
<1> DEFINE AnswersOf(a) ==
        /\ task[a].rec \in Recordings
        /\ answered' = answered \union {task[a].rec}
        /\ \A q \in Recordings \ {task[a].rec} : state'[q] = state[q]
<1>1. ASSUME NEW a \in Actors, Return(a) PROVE answered' = answered \union {task[a].rec}
  BY <1>1 DEF Return, Leave
<1>2. ASSUME NEW r \in Recordings, NEW onlyFrom, NEW next, NEW why,
             TransitionWithin(r, onlyFrom, next, why)
      PROVE  \A q \in Recordings \ {r} : state'[q] = state[q]
  BY <1>2 DEF TransitionWithin, TypeInv, TypeOK, TypeOfRows
<1>3. ASSUME NEW a \in Actors, CallStep(a) PROVE AnswersOf(a)
  <2> USE DEF rowVars
  <2>1. pc[a] \in CallLabels /\ task[a].rec \in Recordings
    <3>1. pc[a] \in CallLabels
      BY <1>3
         DEF CallStep, ProviderStarts, StartAnswerLost, ProviderRefusesStart, RecordEgressId,
             RecordEgressIdFails, DiscardAgreed, DiscardRefused, SettleNewEgress, StopRecording,
             ProviderStops, ProviderRefusesStop, StopAnswerLost, WriteStopped, CallLabels
    <3> QED BY <3>1, CallRows
  <2>2. Return(a)
    BY <1>3
       DEF CallStep, ProviderStarts, StartAnswerLost, ProviderRefusesStart, StartFailed,
           RecordEgressId, RecordEgressIdFails, NotStored, DiscardAgreed, DiscardRefused,
           SettleNewEgress, StopRecording, ProviderStops, ProviderRefusesStop, StopAnswerLost,
           WriteStopped
  <2>3. CASE StopRecording(a)
    BY <1>1, <1>2, <2>1, <2>2, <2>3 DEF StopRecording
  <2>4. CASE ~StopRecording(a)
    <3>1. \A q \in Recordings \ {task[a].rec} : state'[q] = state[q]
      BY <1>3, <2>1, <2>4
         DEF CallStep, ProviderStarts, StartAnswerLost, ProviderRefusesStart, RecordEgressId,
             RecordEgressIdFails, DiscardAgreed, DiscardRefused, SettleNewEgress, ProviderStops,
             ProviderRefusesStop, StopAnswerLost, WriteStopped, TypeInv, TypeOK, TypeOfRows
    <3> QED BY <1>1, <2>1, <2>2, <3>1
  <2> QED BY <2>3, <2>4
<1>4. ASSUME NEW h \in Handlers, Arrive(h) \/ HandlerStep(h) PROVE AnswersOf(h)
  <2>1. CASE CallStep(h)
    BY <1>3, <2>1 DEF Actors
  <2>2. CASE ~CallStep(h)
    <3>1. LookForRecording(h) \/ StatusMovesRow(h) \/ StatusQueuesDelivery(h)
      BY <1>4, <2>2
         DEF Arrive, HandlerStep, BeginRecording, EndInterview, WithdrawConsent, ReceiveStatus,
             TakeEvent, StatusMarksStopped, Acknowledge
    <3>2. Return(h) /\ task[h].rec \in Recordings
      BY <3>1, CallRows
         DEF LookForRecording, StatusMovesRow, StatusQueuesDelivery, CallLabels, Actors
    <3>3. \A q \in Recordings \ {task[h].rec} : state'[q] = state[q]
      BY <3>1, <3>2, <1>2
         DEF LookForRecording, StatusMovesRow, StatusQueuesDelivery, rowVars
    <3> QED BY <1>1, <3>2, <3>3 DEF Actors
  <2> QED BY <2>1, <2>2
<1>5. ASSUME NEW s \in Sweepers, SweeperStep(s) PROVE AnswersOf(s)
  <2>1. CASE CallStep(s)
    BY <1>3, <2>1 DEF Actors
  <2>2. CASE ~CallStep(s)
    <3>1. ClaimRetry(s) \/ BumpRetry(s)
      BY <1>5, <2>2
         DEF SweeperStep, RequeueOrphanedWork, ReadStale, ReadDue, DeleteRecording, DeletionFails,
             DueHandled, SweepKilled, SweepRetries, SweepGivesUp, SweepWaits, SweepAbandons,
             SweepRow, AdoptFindsJob, AdoptFindsNone, AdoptFails, ReadOrphans, AskOrphan, EndSweep
    <3>2. Return(s) /\ task[s].rec \in Recordings /\ UNCHANGED state
      BY <3>1, CallRows DEF ClaimRetry, BumpRetry, CallLabels, Actors
    <3> QED BY <1>1, <3>2 DEF Actors
  <2> QED BY <2>1, <2>2
<1>6. UNCHANGED vars \/ DeliveryStep \/ ProviderStep \/ Tick \/ (\E a \in Actors : Crash(a)) \/ ThrowKillSwitch
         => UNCHANGED answered
  BY DEF vars, DeliveryStep, WorkerMoves, WorkerReleases, OperatorRetries, ProviderStep, JobReports,
         JobEnds, Send, Tick, Crash, ThrowKillSwitch, Drop
<1> QED BY <1>4, <1>5, <1>6 DEF Next

\* A move of the contract is a change of the lifecycle.
LEMMA ContractChanges ==
    ASSUME TypeOK, RowInv, Forward, ContractStep, ~UNCHANGED state
    PROVE  \E r \in Recordings : Lifecycle!Change(r)
<1> USE DEF Lifecycle!Change, Lifecycle!Become
<1>1. ASSUME NEW r \in Recordings, Contract!Begin(r) PROVE Lifecycle!Change(r)
  <2>1. /\ state[r] = "none" /\ state' = [state EXCEPT ![r] = "starting"]
        /\ \A o \in Recordings \ {r} : ~Contract!IsActive(state[o])
    BY <1>1 DEF Contract!Begin, Contract!MoveRow, Contract!OthersInactive
  <2>2. r \notin answered
    BY <2>1 DEF RowInv, AnswersHold, Forward, TypeOK, TypeOfRows
  <2> QED BY <2>1, <2>2
         DEF Lifecycle!Begin, Lifecycle!Alone, Lifecycle!IsActive, Lifecycle!ActiveStates,
             Contract!IsActive, Contract!ActiveStates
<1>2. ASSUME NEW r \in Recordings, NEW next \in Contract!RowStates, Contract!OthersMove(r, next)
      PROVE  Lifecycle!Change(r)
  <2>1. /\ state[r] # next /\ Contract!MayBecome(state[r], next)
        /\ state' = [state EXCEPT ![r] = next]
    BY <1>2 DEF Contract!OthersMove, Contract!TransitionLands
  <2>2. next \in Lifecycle!RowStates /\ Lifecycle!MayBecome(state[r], next)
    BY <2>1 DEF Contract!MayBecome, Lifecycle!MayBecome, Contract!RowStates, Lifecycle!RowStates,
                Contract!ActiveStates, Lifecycle!ActiveStates
  <2> QED BY <2>1, <2>2 DEF Lifecycle!Move
<1>3. ASSUME NEW r \in Recordings, NEW next, state' = [state EXCEPT ![r] = next],
             \/ state[r] = "transferring" /\ next \in {"ready", "failed"}
             \/ state[r] \in {"ready", "failed", "cleanup_failed"} /\ next = "deleted"
      PROVE  Lifecycle!Change(r)
  <2>1. next \in Lifecycle!RowStates /\ Lifecycle!MayBecome(state[r], next) /\ state[r] # next
    BY <1>3 DEF Lifecycle!MayBecome, Lifecycle!RowStates, Lifecycle!ActiveStates
  <2> QED BY <1>3, <2>1 DEF Lifecycle!Move
<1>4. ASSUME NEW r \in Recordings, Contract!Tombstone(r) PROVE Lifecycle!Change(r)
  BY <1>3, <1>4 DEF Contract!Tombstone, Contract!MoveRow, Lifecycle!Tombstone
<1>5. ASSUME NEW r \in Recordings, Contract!Deliver(r) \/ Contract!DeliveryGivesUp(r)
      PROVE  Lifecycle!Change(r)
  BY <1>3, <1>5 DEF Contract!Deliver, Contract!DeliveryGivesUp, Contract!MoveRow
<1>6. ASSUME NEW r \in Recordings, Contract!ReopenDelivery(r) PROVE Lifecycle!Change(r)
  BY <1>6
     DEF Contract!ReopenDelivery, Contract!MayReopen, Contract!OthersInactive, Contract!MoveRow,
         Lifecycle!Reopen, Lifecycle!Alone, Lifecycle!IsActive, Lifecycle!ActiveStates,
         Contract!IsActive, Contract!ActiveStates
<1>7. ASSUME \/ Contract!Enqueue \/ UNCHANGED Contract!contractVars
             \/ \E r \in Recordings : Contract!ReleaseClaim(r) \/ Contract!DeliveryAttemptFails(r)
      PROVE  UNCHANGED state
  BY <1>7
     DEF Contract!Enqueue, Contract!contractVars, Contract!ReleaseClaim,
         Contract!DeliveryAttemptFails, Contract!MoveRow, TypeOK, TypeOfRows
<1> QED BY <1>1, <1>2, <1>4, <1>5, <1>6, <1>7 DEF ContractStep, Contract!Next

LEMMA KeepsLifecycleStep ==
    ASSUME TypeInv, StopInv, RowInv, [Next]_vars
    PROVE  LifecycleStep
<1> USE DEF LifecycleStep
<1>1. RowInv' /\ Forward /\ ContractStep
  BY RowInvNext, GoesForward, KeepsContractStep
<1>2. ASSUME NEW r \in Recordings, answered' = answered \union {r} PROVE Lifecycle!Answer(r)
  <2>1. state'[r] \notin ProviderOwned
    BY <1>1, <1>2 DEF RowInv, AnswersHold
  <2> QED BY <1>2, <2>1 DEF Lifecycle!Answer, Lifecycle!ProviderOwned, ProviderOwned
<1>3. CASE UNCHANGED state
  BY <1>2, <1>3, AnswersOfOneRow DEF Lifecycle!Next, Lifecycle!vars
<1>4. CASE ~UNCHANGED state
  <2>1. PICK r \in Recordings : Lifecycle!Change(r)
    BY <1>1, <1>4, ContractChanges DEF TypeInv
  <2>2. CASE UNCHANGED answered
    BY <2>1, <2>2 DEF Lifecycle!Next
  <2>3. CASE ~UNCHANGED answered
    <3>1. PICK q \in Recordings :
             /\ answered' = answered \union {q}
             /\ \A o \in Recordings \ {q} : state'[o] = state[o]
      BY <2>3, AnswersOfOneRow
    <3>2. state'[r] # state[r]
      <4>1. PICK next : state' = [state EXCEPT ![r] = next] /\ state[r] # next
        BY <2>1
           DEF Lifecycle!Change, Lifecycle!Begin, Lifecycle!Move, Lifecycle!Reopen,
               Lifecycle!Tombstone, Lifecycle!Become
      <4> QED BY <4>1 DEF TypeInv, TypeOK, TypeOfRows
    <3>3. q = r
      BY <3>1, <3>2
    <3> QED BY <1>2, <2>1, <3>1, <3>3 DEF Lifecycle!Next
  <2> QED BY <2>2, <2>3
<1> QED BY <1>3, <1>4

(***************************************************************************)
(* No job runs that nobody accounts for.                                   *)
(***************************************************************************)
CarryingLabels == {"record", "adopted", "discard"}

\* The room of a job is never another one.
KeepsRooms ==
    \A j \in Jobs : /\ Started(j) => room'[j] = room[j]
                    /\ Started(j)' <=> room'[j] \in Recordings

Accounted(j) == j \in lost \/ egress[room[j]] = j \/ \E a \in Actors : j \in Holds(a)

\* An actor that carries a job carries one that was started, for its recording.
LEMMA CarriedIsStarted ==
    ASSUME TypeInv, JobInv, NEW a \in Actors, pc[a] \in CarryingLabels
    PROVE  /\ task[a].job \in Jobs /\ Started(task[a].job) /\ task[a].rec \in Recordings
           /\ room[task[a].job] = task[a].rec
<1>1. task[a].job \in Jobs
  BY DEF TypeInv, ActorInv, JobsAreHeld, JobLabels, CarryingLabels
<1>2. task[a].rec \in Recordings /\ room[task[a].job] = task[a].rec
  BY CallRows DEF JobInv, JobsAreOfRooms, CarryingLabels, CallLabels
<1> QED BY <1>1, <1>2 DEF JobInv, JobsAreOfRooms

\* Whoever accounts for a job still does, unless it is the actor that moves.
LEMMA StillAccounted ==
    ASSUME TypeInv, JobInv, KeepsEgress, KeepsRooms, lost \subseteq lost',
           NEW j \in Jobs, jobs[j] = "running",
           \A a \in Actors : j \in Holds(a) => Accounted(j)' \/ j \in Holds(a)'
    PROVE  Accounted(j)'
<1>1. Started(j) /\ room'[j] = room[j] /\ room[j] \in Recordings
  BY DEF KeepsRooms, Started, JobInv, JobsAreOfRooms
<1>2. CASE j \in lost
  BY <1>2 DEF Accounted
<1>3. CASE egress[room[j]] = j
  BY <1>1, <1>3, NoJobAssumption DEF Accounted, KeepsEgress
<1>4. CASE \E a \in Actors : j \in Holds(a)
  BY <1>4 DEF Accounted
<1> QED BY <1>2, <1>3, <1>4 DEF JobInv, NoUnnamedJob

\* An actor that a step leaves alone carries the job it carried.
LEMMA BystanderCarries ==
    ASSUME TypeInv, JobInv, KeepsRooms, NEW b \in Actors, pc'[b] = pc[b], task'[b] = task[b]
    PROVE  /\ pc'[b] \in CarryingLabels => room'[task'[b].job] = task'[b].rec
           /\ Holds(b)' = Holds(b)
<1>1. pc[b] \in CarryingLabels => room'[task[b].job] = task[b].rec
  BY CarriedIsStarted DEF KeepsRooms
<1> QED BY <1>1 DEF Holds

\* A step of one actor: the job it had is still accounted for, or does not run.
LEMMA ActorCarries ==
    ASSUME TypeInv, JobInv, KeepsEgress, KeepsRooms, lost \subseteq lost',
           NEW a \in Actors, NEW p, NEW t,
           pc' = [pc EXCEPT ![a] = p], task' = [task EXCEPT ![a] = t],
           p \in CarryingLabels => room'[t.job] = t.rec,
           \A j \in Jobs : jobs'[j] = "running" => jobs[j] = "running" \/ Accounted(j)',
           \A j \in Holds(a) : jobs'[j] = "running" => Accounted(j)' \/ j \in Holds(a)'
    PROVE  JobInv'
<1>1. \A b \in Actors \ {a} : pc'[b] = pc[b] /\ task'[b] = task[b]
  BY DEF TypeInv, ActorInv, TypeOfActors
<1>2. pc'[a] = p /\ task'[a] = t
  BY DEF TypeInv, ActorInv, TypeOfActors
<1>3. \A b \in Actors \ {a} : /\ pc'[b] \in CarryingLabels => room'[task'[b].job] = task'[b].rec
                              /\ Holds(b)' = Holds(b)
  BY <1>1, BystanderCarries
<1>4. JobsAreOfRooms'
  <2>1. \A b \in Actors : pc'[b] \in CarryingLabels => room'[task'[b].job] = task'[b].rec
    BY <1>2, <1>3
  <2>2. \A j \in Jobs : Started(j)' <=> room'[j] \in Recordings
    BY DEF KeepsRooms
  <2> QED BY <2>1, <2>2 DEF JobsAreOfRooms, CarryingLabels
<1>5. ASSUME NEW j \in Jobs, jobs'[j] = "running" PROVE Accounted(j)'
  <2>1. CASE jobs[j] = "running"
    BY <1>3, <1>5, <2>1, StillAccounted
  <2>2. CASE jobs[j] # "running"
    BY <1>5, <2>2
  <2> QED BY <2>1, <2>2
<1> QED BY <1>4, <1>5 DEF JobInv, NoUnnamedJob, Accounted

\* A step of an actor that carries no job before and none after.
LEMMA OthersCarry ==
    ASSUME TypeInv, JobInv, KeepsEgress, KeepsRooms, lost \subseteq lost',
           NEW a \in Actors, NEW p, NEW t,
           pc' = [pc EXCEPT ![a] = p], task' = [task EXCEPT ![a] = t],
           pc[a] \notin {"record", "discard"}, p \notin CarryingLabels,
           \A j \in Jobs : jobs'[j] = "running" => jobs[j] = "running"
    PROVE  JobInv'
BY ActorCarries DEF Holds

\* No actor moves, and nothing is started.
LEMMA AllCarry ==
    ASSUME TypeInv, JobInv, KeepsEgress, KeepsRooms, lost \subseteq lost',
           UNCHANGED <<pc, task>>, \A j \in Jobs : jobs'[j] = "running" => jobs[j] = "running"
    PROVE  JobInv'
<1>1. \A b \in Actors : /\ pc'[b] \in CarryingLabels => room'[task'[b].job] = task'[b].rec
                        /\ Holds(b)' = Holds(b)
  BY BystanderCarries
<1>2. ASSUME NEW j \in Jobs, jobs'[j] = "running" PROVE Accounted(j)'
  BY <1>1, <1>2, StillAccounted
<1> QED BY <1>1, <1>2
       DEF JobInv, NoUnnamedJob, Accounted, JobsAreOfRooms, CarryingLabels, KeepsRooms

\* The steps of a call.
LEMMA CallStepJobs ==
    ASSUME TypeInv, JobInv, KeepsEgress, NEW a \in Actors, CallStep(a)
    PROVE  JobInv'
<1> USE DEF rowVars, providerVars, historyVars
<1>a. /\ pc \in [Actors -> HandlerLabels \union SweeperLabels]
      /\ task \in [Actors -> Task \union {NoTask}]
      /\ jobs \in [Jobs -> {"unused", "running", "stopping", "ended"}]
      /\ room \in [Jobs -> Recordings \union {NoRecording}]
      /\ egress \in [Recordings -> MaybeJob]
  BY DEF TypeInv, TypeOK, ActorInv, TypeOfActors, TypeOfProvider, TypeOfRows
<1>b. ASSUME NEW j \in Jobs, jobs[j] = "unused", task[a].rec \in Recordings,
             jobs' = [jobs EXCEPT ![j] = "running"], room' = [room EXCEPT ![j] = task[a].rec]
      PROVE  KeepsRooms /\ \A k \in Jobs \ {j} : jobs'[k] = jobs[k]
  BY <1>a, <1>b DEF KeepsRooms, Started, JobInv, JobsAreOfRooms
<1>c. ASSUME UNCHANGED room,
             jobs' \in {jobs, [jobs EXCEPT ![task[a].job] = IF @ = "running" THEN "stopping" ELSE @]}
      PROVE  KeepsRooms /\ \A j \in Jobs : jobs'[j] = "running" => jobs[j] = "running"
  BY <1>a, <1>c DEF KeepsRooms, Started, JobInv, JobsAreOfRooms
<1>d. pc[a] \in CallLabels => task[a] \in Task /\ task[a].rec \in Recordings
                              /\ task[a].back \notin CarryingLabels
  BY CallRows DEF Backs, CarryingLabels
<1>e. ASSUME pc[a] \in CallLabels, Return(a)
      PROVE  /\ pc' = [pc EXCEPT ![a] = task[a].back] /\ task' = [task EXCEPT ![a] = NoTask]
             /\ task[a].back \notin CarryingLabels
  BY <1>d, <1>e DEF Return, Leave, Goto
<1>f. ASSUME NEW p, Goto(a, p), UNCHANGED task
      PROVE  pc' = [pc EXCEPT ![a] = p] /\ task' = [task EXCEPT ![a] = task[a]]
  BY <1>a, <1>f DEF Goto
<1>1. ASSUME NEW j \in Jobs, ProviderStarts(a, j) PROVE JobInv'
  <2> DEFINE t == [task[a] EXCEPT !.job = j]
  <2>1. /\ pc[a] = "start" /\ jobs[j] = "unused" /\ UNCHANGED lost
        /\ jobs' = [jobs EXCEPT ![j] = "running"] /\ room' = [room EXCEPT ![j] = task[a].rec]
        /\ pc' = [pc EXCEPT ![a] = "record"] /\ task' = [task EXCEPT ![a] = t]
    BY <1>1 DEF ProviderStarts, Enter, Goto
  <2>2. t.job = j /\ t.rec = task[a].rec /\ task[a].rec \in Recordings
    BY <1>d, <2>1 DEF Task, CallLabels
  <2> HIDE DEF t
  <2>3. KeepsRooms /\ \A k \in Jobs \ {j} : jobs'[k] = jobs[k]
    BY <1>b, <2>1, <2>2
  <2>4. pc'[a] = "record" /\ task'[a] = t /\ room'[j] = task[a].rec
    BY <1>a, <2>1
  <2>5. Accounted(j)'
    BY <2>2, <2>4 DEF Accounted, Holds
  <2>6. \A k \in Jobs : jobs'[k] = "running" => jobs[k] = "running" \/ Accounted(k)'
    BY <2>3, <2>5
  <2>7. Holds(a) = {}
    BY <2>1 DEF Holds
  <2>8. \A k \in Holds(a) : jobs'[k] = "running" => Accounted(k)' \/ k \in Holds(a)'
    BY <2>7
  <2>9. room'[t.job] = t.rec
    BY <2>2, <2>4
  <2> QED BY <2>1, <2>3, <2>6, <2>8, <2>9, ActorCarries
<1>2. ASSUME NEW j \in Jobs, StartAnswerLost(a, j) PROVE JobInv'
  <2>1. /\ pc[a] = "start" /\ jobs[j] = "unused" /\ lost' = lost \union {j} /\ StartFailed(a)
        /\ jobs' = [jobs EXCEPT ![j] = "running"] /\ room' = [room EXCEPT ![j] = task[a].rec]
    BY <1>2 DEF StartAnswerLost
  <2>2. KeepsRooms /\ \A k \in Jobs \ {j} : jobs'[k] = jobs[k]
    BY <1>b, <1>d, <2>1 DEF CallLabels
  <2>3. \A k \in Jobs : jobs'[k] = "running" => jobs[k] = "running" \/ Accounted(k)'
    BY <2>1, <2>2 DEF Accounted
  <2>4. Holds(a) = {}
    BY <2>1 DEF Holds
  <2>5. \E p, t : /\ pc' = [pc EXCEPT ![a] = p] /\ task' = [task EXCEPT ![a] = t]
                  /\ p \notin CarryingLabels
    BY <1>e, <1>f, <2>1 DEF StartFailed, CallLabels, CarryingLabels
  <2> QED BY <2>1, <2>2, <2>3, <2>4, <2>5, ActorCarries
<1>3. ASSUME RecordEgressId(a) \/ RecordEgressIdFails(a) PROVE JobInv'
  <2>1. pc[a] \in {"record", "adopted"} /\ UNCHANGED <<jobs, room, lost>>
    BY <1>3 DEF RecordEgressId, RecordEgressIdFails
  <2>2. KeepsRooms
    BY <1>c, <2>1
  <2>3. /\ task[a].job \in Jobs /\ task[a].rec \in Recordings /\ room[task[a].job] = task[a].rec
        /\ pc[a] \in CallLabels
    BY <2>1, CarriedIsStarted DEF CarryingLabels, CallLabels
  <2>4. Holds(a) \subseteq {task[a].job} /\ (pc[a] = "adopted" => Holds(a) = {})
    BY DEF Holds
  <2>5. CASE NotStored(a)
    <3>1. CASE pc[a] = "record"
      <4>1. pc' = [pc EXCEPT ![a] = "discard"] /\ task' = [task EXCEPT ![a] = task[a]]
        BY <1>f, <2>5, <3>1 DEF NotStored
      <4>2. task[a].job \in Holds(a)'
        BY <1>a, <4>1 DEF Holds
      <4> QED BY <2>1, <2>2, <2>3, <2>4, <4>1, <4>2, ActorCarries
    <3>2. CASE pc[a] = "adopted"
      BY <1>e, <2>1, <2>2, <2>3, <2>5, <3>2, OthersCarry DEF NotStored
    <3> QED BY <2>1, <3>1, <3>2
  <2>6. CASE ~NotStored(a)
    <3>1. /\ pc' = [pc EXCEPT ![a] = "settle"] /\ task' = [task EXCEPT ![a] = task[a]]
          /\ egress'[task[a].rec] = task[a].job
      BY <1>3, <1>a, <1>f, <2>3, <2>6 DEF RecordEgressId, RecordEgressIdFails, Unnamed
    <3>2. ASSUME NEW j \in Jobs, j = task[a].job PROVE Accounted(j)'
      BY <2>1, <2>3, <3>1, <3>2 DEF Accounted
    <3>3. \A k \in Holds(a) : jobs'[k] = "running" => Accounted(k)' \/ k \in Holds(a)'
      BY <2>3, <2>4, <3>2
    <3>4. "settle" \notin CarryingLabels /\ \A k \in Jobs : jobs'[k] = "running" => jobs[k] = "running"
      BY <2>1 DEF CarryingLabels
    <3> QED BY <2>1, <2>2, <3>1, <3>3, <3>4, ActorCarries
  <2> QED BY <2>5, <2>6
<1>4. ASSUME DiscardAgreed(a) \/ DiscardRefused(a) PROVE JobInv'
  <2>1. /\ pc[a] = "discard" /\ Return(a) /\ UNCHANGED room
        /\ jobs' \in {jobs, [jobs EXCEPT ![task[a].job] = IF @ = "running" THEN "stopping" ELSE @]}
        /\ lost \subseteq lost'
    BY <1>4 DEF DiscardAgreed, DiscardRefused
  <2>2. KeepsRooms /\ \A j \in Jobs : jobs'[j] = "running" => jobs[j] = "running"
    BY <1>c, <2>1
  <2>3. task[a].job \in Jobs
    BY <2>1, CarriedIsStarted DEF CarryingLabels
  <2>4. ASSUME NEW j \in Jobs, j = task[a].job, jobs'[j] = "running" PROVE Accounted(j)'
    <3>1. CASE DiscardAgreed(a)
      BY <1>a, <2>4, <3>1 DEF DiscardAgreed
    <3>2. CASE DiscardRefused(a)
      BY <2>4, <3>2 DEF DiscardRefused, Accounted
    <3> QED BY <1>4, <3>1, <3>2
  <2>5. Holds(a) = {task[a].job}
    BY <2>1 DEF Holds
  <2>6. /\ pc' = [pc EXCEPT ![a] = task[a].back] /\ task' = [task EXCEPT ![a] = NoTask]
        /\ task[a].back \notin CarryingLabels
    BY <1>e, <2>1 DEF CallLabels
  <2>7. \A k \in Holds(a) : jobs'[k] = "running" => Accounted(k)' \/ k \in Holds(a)'
    BY <2>3, <2>4, <2>5
  <2> QED BY <2>1, <2>2, <2>6, <2>7, ActorCarries
<1>5. ASSUME \/ ProviderRefusesStart(a) \/ SettleNewEgress(a) \/ StopRecording(a) \/ ProviderStops(a)
             \/ ProviderRefusesStop(a) \/ StopAnswerLost(a) \/ WriteStopped(a)
      PROVE  JobInv'
  <2>1. /\ pc[a] \in {"start", "settle", "move", "stop", "mark"} /\ UNCHANGED <<room, lost>>
        /\ jobs' \in {jobs, [jobs EXCEPT ![task[a].job] = IF @ = "running" THEN "stopping" ELSE @]}
    BY <1>5
       DEF ProviderRefusesStart, SettleNewEgress, StopRecording, ProviderStops,
           ProviderRefusesStop, StopAnswerLost, WriteStopped
  <2>2. KeepsRooms /\ \A j \in Jobs : jobs'[j] = "running" => jobs[j] = "running"
    BY <1>c, <2>1
  <2>3. \E p, t : /\ pc' = [pc EXCEPT ![a] = p] /\ task' = [task EXCEPT ![a] = t]
                  /\ p \notin CarryingLabels
    <3>1. CASE Return(a)
      BY <1>e, <2>1, <3>1 DEF CallLabels
    <3>2. CASE ~Return(a)
      <4>1. \E p \in {"bump", "stop", "mark"} : /\ pc' = [pc EXCEPT ![a] = p]
                                        /\ \E t : task' = [task EXCEPT ![a] = t]
        BY <1>5, <1>f, <3>2
           DEF ProviderRefusesStart, StartFailed, SettleNewEgress, StopRecording, ProviderStops,
               ProviderRefusesStop, StopAnswerLost, WriteStopped, Enter, Goto
      <4> QED BY <4>1 DEF CarryingLabels
    <3> QED BY <3>1, <3>2
  <2> QED BY <2>1, <2>2, <2>3, OthersCarry
<1> QED BY <1>1, <1>2, <1>3, <1>4, <1>5 DEF CallStep

\* What starts or ends no job keeps the rooms.
LEMMA RoomsStay ==
    ASSUME JobInv, UNCHANGED <<jobs, room>>
    PROVE  KeepsRooms /\ \A j \in Jobs : jobs'[j] = "running" => jobs[j] = "running"
BY DEF KeepsRooms, Started, JobInv, JobsAreOfRooms

\* Requests and webhooks start nothing outside a call.
LEMMA HandlersJobs ==
    ASSUME TypeInv, JobInv, KeepsEgress, NEW h \in Handlers, Arrive(h) \/ HandlerStep(h)
    PROVE  JobInv'
<1> USE DEF rowVars, providerVars, historyVars
<1>a. h \in Actors /\ task \in [Actors -> Task \union {NoTask}]
  BY DEF TypeInv, TypeOK, TypeOfActors, Actors
<1>1. CASE CallStep(h)
  BY <1>1, <1>a, CallStepJobs
<1>2. CASE ~CallStep(h)
  <2>1. UNCHANGED <<jobs, room, lost>>
    BY <1>2
       DEF Arrive, HandlerStep, BeginRecording, EndInterview, WithdrawConsent, ReceiveStatus,
           TakeEvent, LookForRecording, StatusMarksStopped, StatusMovesRow, StatusQueuesDelivery,
           Acknowledge
  <2>2. pc[h] \notin {"record", "discard"}
    BY <1>2
       DEF Arrive, HandlerStep, BeginRecording, EndInterview, WithdrawConsent, ReceiveStatus,
           TakeEvent, LookForRecording, StatusMarksStopped, StatusMovesRow, StatusQueuesDelivery,
           Acknowledge
  <2>3. \E p, t : /\ pc' = [pc EXCEPT ![h] = p] /\ task' = [task EXCEPT ![h] = t]
                  /\ p \notin CarryingLabels
    <3>1. ASSUME pc[h] \in CallLabels, Return(h)
          PROVE  /\ pc' = [pc EXCEPT ![h] = task[h].back] /\ task' = [task EXCEPT ![h] = NoTask]
                 /\ task[h].back \notin CarryingLabels
      BY <1>a, <3>1, CallRows DEF Return, Leave, Goto, Backs, CarryingLabels
    <3>2. ASSUME NEW p, Goto(h, p), UNCHANGED task
          PROVE  pc' = [pc EXCEPT ![h] = p] /\ task' = [task EXCEPT ![h] = task[h]]
      BY <1>a, <3>2 DEF Goto
    <3>3. CASE /\ LookForRecording(h) \/ StatusMovesRow(h) \/ StatusQueuesDelivery(h)
               /\ Return(h)
      BY <3>1, <3>3 DEF LookForRecording, StatusMovesRow, StatusQueuesDelivery, CallLabels
    <3>4. CASE ~Return(h)
      <4>1. \E p \in {"start", "move", "look", "ack", "status_mark", "status_move",
                      "status_queue", "idle"} :
               pc' = [pc EXCEPT ![h] = p] /\ \E t : task' = [task EXCEPT ![h] = t]
        BY <1>2, <3>2, <3>4
           DEF Arrive, HandlerStep, BeginRecording, EndInterview, WithdrawConsent, ReceiveStatus,
               TakeEvent, ApplyStatus, LookForRecording, StatusMarksStopped, StatusMovesRow,
               StatusQueuesDelivery, Acknowledge, Enter, Goto
      <4> QED BY <4>1 DEF CarryingLabels
    <3>5. CASE ~(LookForRecording(h) \/ StatusMovesRow(h) \/ StatusQueuesDelivery(h))
      <4>1. \E p \in {"start", "move", "look", "ack", "status_mark", "status_move", "idle"} :
               pc' = [pc EXCEPT ![h] = p] /\ \E t : task' = [task EXCEPT ![h] = t]
        BY <1>2, <3>2, <3>5
           DEF Arrive, HandlerStep, BeginRecording, EndInterview, WithdrawConsent, ReceiveStatus,
               TakeEvent, ApplyStatus, StatusMarksStopped, Acknowledge, Enter, Goto
      <4> QED BY <4>1 DEF CarryingLabels
    <3> QED BY <3>3, <3>4, <3>5
  <2> QED BY <1>a, <2>1, <2>2, <2>3, RoomsStay, OthersCarry
<1> QED BY <1>1, <1>2

\* A sweep that adopts a job found it in the room of its recording.
LEMMA SweepersJobs ==
    ASSUME TypeInv, JobInv, KeepsEgress, NEW s \in Sweepers, SweeperStep(s)
    PROVE  JobInv'
<1> USE DEF rowVars, providerVars, historyVars
<1>a. s \in Actors /\ task \in [Actors -> Task \union {NoTask}]
  BY DEF TypeInv, TypeOK, TypeOfActors, Actors
<1>1. CASE CallStep(s)
  BY <1>1, <1>a, CallStepJobs
<1>2. CASE ~CallStep(s)
  <2>1. UNCHANGED <<jobs, room, lost>>
    BY <1>2
       DEF SweeperStep, RequeueOrphanedWork, ReadStale, ReadDue, DeleteRecording, DeletionFails,
           DueHandled, SweepKilled, SweepRetries, SweepGivesUp, SweepWaits, SweepAbandons,
           SweepRow, ClaimRetry, AdoptFindsJob, AdoptFindsNone, AdoptFails, BumpRetry,
           ReadOrphans, AskOrphan, EndSweep
  <2>2. KeepsRooms /\ lost \subseteq lost' /\ \A j \in Jobs : jobs'[j] = "running" => jobs[j] = "running"
    BY <2>1, RoomsStay
  <2>3. ASSUME NEW p, NEW t, p \notin CarryingLabels, pc[s] \notin {"record", "discard"},
               pc' = [pc EXCEPT ![s] = p], task' = [task EXCEPT ![s] = t]
        PROVE  JobInv'
    BY <1>a, <2>2, <2>3, OthersCarry
  <2>4. ASSUME NEW p, p \notin CarryingLabels, pc[s] \notin {"record", "discard"},
               Goto(s, p), UNCHANGED task
        PROVE  JobInv'
    <3>1. pc' = [pc EXCEPT ![s] = p] /\ task' = [task EXCEPT ![s] = task[s]]
      BY <1>a, <2>4 DEF Goto
    <3> QED BY <2>3, <2>4, <3>1
  <2>5. ASSUME pc[s] \in {"claim", "bump"}, Return(s) PROVE JobInv'
    <3>1. pc' = [pc EXCEPT ![s] = task[s].back] /\ task' = [task EXCEPT ![s] = NoTask]
      BY <2>5 DEF Return, Leave, Goto
    <3>2. task[s].back \notin CarryingLabels
      BY <1>a, <2>5, CallRows DEF CallLabels, Backs, CarryingLabels
    <3> QED BY <2>3, <2>5, <3>1, <3>2
  <2>6. CASE \/ RequeueOrphanedWork(s) \/ ReadStale(s) \/ ReadDue(s) \/ AdoptFindsNone(s)
             \/ AdoptFails(s) \/ ReadOrphans(s) \/ EndSweep(s)
             \/ \E r \in Recordings : DeleteRecording(s, r) \/ DeletionFails(s, r)
    BY <2>4, <2>6
       DEF RequeueOrphanedWork, ReadStale, ReadDue, AdoptFindsNone, AdoptFails, ReadOrphans,
           EndSweep, DeleteRecording, DeletionFails, DueHandled, CarryingLabels
  <2>7. CASE ClaimRetry(s) \/ BumpRetry(s)
    BY <2>4, <2>5, <2>7 DEF ClaimRetry, BumpRetry, CarryingLabels
  <2>8. ASSUME NEW taken \in todo[s],
               \/ SweepKilled(s, taken) \/ SweepRetries(s, taken) \/ SweepGivesUp(s, taken)
               \/ SweepWaits(s, taken) \/ SweepAbandons(s, taken)
        PROVE  JobInv'
    <3>1. CASE SweepWaits(s, taken)
      BY <2>2, <3>1, AllCarry DEF SweepWaits
    <3>2. CASE ~SweepWaits(s, taken)
      BY <2>3, <2>8, <3>2
         DEF SweepKilled, SweepRetries, SweepGivesUp, SweepAbandons, SweepRow, FailStale, Enter,
             Goto, CarryingLabels
    <3> QED BY <3>1, <3>2
  <2>9. ASSUME NEW o \in orphans[s], AskOrphan(s, o) PROVE JobInv'
    BY <2>3, <2>9 DEF AskOrphan, Enter, Goto, CarryingLabels
  <2>10. ASSUME NEW j \in Jobs, AdoptFindsJob(s, j) PROVE JobInv'
    <3> DEFINE t == [task[s] EXCEPT !.job = j]
    <3>1. /\ pc[s] = "adopt" /\ room[j] = task[s].rec
          /\ pc' = [pc EXCEPT ![s] = "adopted"] /\ task' = [task EXCEPT ![s] = t]
      BY <2>10 DEF AdoptFindsJob, ActiveInRoom, Enter, Goto
    <3>2. t.job = j /\ t.rec = task[s].rec
      BY <1>a, <3>1, CallRows DEF Task, CallLabels
    <3> HIDE DEF t
    <3>3. room'[t.job] = t.rec
      BY <2>1, <3>1, <3>2
    <3>4. Holds(s) = {}
      BY <3>1 DEF Holds
    <3> QED BY <1>a, <2>2, <3>1, <3>3, <3>4, ActorCarries
  <2> QED BY <1>2, <2>6, <2>7, <2>8, <2>9, <2>10 DEF SweeperStep
<1> QED BY <1>1, <1>2

\* Who goes away loses the job it held, and a job that ended runs no more.
LEMMA WorldJobs ==
    ASSUME TypeInv, JobInv, KeepsEgress,
           \/ DeliveryStep \/ ProviderStep \/ Tick
           \/ (\E a \in Actors : Crash(a)) \/ ThrowKillSwitch
           \/ UNCHANGED vars
    PROVE  JobInv'
<1> USE DEF rowVars, tableVars, providerVars, historyVars, actorVars
<1>1. CASE DeliveryStep \/ Tick \/ UNCHANGED vars
  <2>1. UNCHANGED <<jobs, room, lost, pc, task>>
    BY <1>1
       DEF DeliveryStep, WorkerMoves, WorkerReleases, Deliver, DeliveryAttemptFails,
           DeliveryGivesUp, ReopenDelivery, ReleaseClaim, MoveRow, OperatorRetries, Tick, vars
  <2> QED BY <2>1, RoomsStay, AllCarry
<1>2. CASE ProviderStep
  <2>1. UNCHANGED <<room, lost, pc, task>>
    BY <1>2 DEF ProviderStep, JobReports, JobEnds, Send
  <2>2. \A j \in Jobs : /\ Started(j)' <=> Started(j)
                        /\ jobs'[j] = "running" => jobs[j] = "running"
    BY <1>2 DEF ProviderStep, JobReports, JobEnds, Started, TypeInv, TypeOK, TypeOfProvider
  <2>3. KeepsRooms
    BY <2>1, <2>2 DEF KeepsRooms, JobInv, JobsAreOfRooms
  <2> QED BY <2>1, <2>2, <2>3, AllCarry
<1>3. ASSUME NEW gone \in SUBSET Actors, Drop(gone) PROVE JobInv'
  <2>1. UNCHANGED <<jobs, room>> /\ lost' = lost \union UNION {Holds(a) : a \in gone}
    BY <1>3 DEF Drop
  <2>2. KeepsRooms
    BY <2>1, RoomsStay
  <2>3. ASSUME NEW b \in Actors, b \notin gone
        PROVE  /\ pc'[b] \in CarryingLabels => room'[task'[b].job] = task'[b].rec
               /\ Holds(b)' = Holds(b)
    <3>1. pc'[b] = pc[b] /\ task'[b] = task[b]
      BY <1>3, <2>3 DEF Drop
    <3> QED BY <2>2, <3>1, BystanderCarries
  <2>4. ASSUME NEW b \in gone PROVE b \in Actors /\ pc'[b] = "idle"
    BY <1>3 DEF Drop
  <2>5. JobsAreOfRooms'
    BY <2>2, <2>3, <2>4 DEF JobsAreOfRooms, CarryingLabels, KeepsRooms
  <2>6. ASSUME NEW j \in Jobs, jobs[j] = "running" PROVE Accounted(j)'
    <3>1. ASSUME NEW a \in Actors, j \in Holds(a) PROVE Accounted(j)' \/ j \in Holds(a)'
      <4>1. CASE a \in gone
        BY <2>1, <3>1, <4>1 DEF Accounted
      <4>2. CASE a \notin gone
        BY <2>3, <3>1, <4>2
      <4> QED BY <4>1, <4>2
    <3>2. lost \subseteq lost'
      BY <2>1
    <3> QED BY <2>2, <2>6, <3>1, <3>2, StillAccounted
  <2> QED BY <2>1, <2>5, <2>6 DEF JobInv, NoUnnamedJob, Accounted
<1>4. CASE (\E a \in Actors : Crash(a)) \/ ThrowKillSwitch
  BY <1>3, <1>4 DEF Crash, ThrowKillSwitch
<1> QED BY <1>1, <1>2, <1>4

LEMMA JobInvNext == TypeInv /\ JobInv /\ [Next]_vars => JobInv'
<1> SUFFICES ASSUME TypeInv, JobInv, [Next]_vars PROVE JobInv'
  OBVIOUS
<1>1. KeepsEgress
  BY Keeps
<1> QED BY <1>1, HandlersJobs, SweepersJobs, WorldJobs DEF Next

(***************************************************************************)
(* What a sweep read stays fresh until somebody touches the row.           *)
(***************************************************************************)
\* A row that is still as some sweep read it was not retried, and got no younger.
NothingYounger ==
    \A r \in Recordings :
        \/ retries'[r] = retries[r] /\ age'[r] >= age[r]
        \/ \A z \in Sweepers : <<z, r>> \notin current'

\* What a sweep goes on with is what it has.
SweepGoesOn(z) ==
    /\ todo'[z] \subseteq todo[z]
    /\ \A r \in Recordings : <<z, r>> \in current' => <<z, r>> \in current
    /\ pc'[z] = "claim" => pc[z] = "claim" /\ task'[z] = task[z]

\* A retry that is due stays due as the row gets older.
LEMMA DueStaysDue ==
    ASSUME NEW n \in Nat, NEW a \in Ages, NEW b \in Ages, a <= b, RetryIsDue(n, a)
    PROVE  RetryIsDue(n, b)
<1>1. n + 1 \in 1 .. Len(RetryBackoff) /\ Len(RetryBackoff) \in Nat
  BY RetryBackoffAssumption DEF RetryIsDue, HasRetryLeft
<1>2. RetryBackoff[n + 1] \in Nat
  BY <1>1, RetryBackoffAssumption
<1> QED BY <1>2, RecordingStaleAgeAssumption DEF RetryIsDue, Ages

\* Every write of updated_at takes the row from those still as they were read.
LEMMA WritesAreSeen ==
    ASSUME TypeInv, [Next]_vars
    PROVE  NothingYounger
<1> USE DEF rowVars, vars
<1>a. /\ age \in [Recordings -> Ages] /\ retries \in [Recordings -> Nat]
      /\ \A r \in Recordings : age[r] >= age[r]
  BY RecordingStaleAgeAssumption DEF TypeInv, TypeOK, TypeOfRows, Ages
<1>1. UNCHANGED <<retries, age>> => NothingYounger
  BY <1>a DEF NothingYounger
<1>2. ASSUME NEW r \in Recordings, Touch(r), \A q \in Recordings \ {r} : retries'[q] = retries[q]
      PROVE  NothingYounger
  BY <1>2, <1>a DEF NothingYounger, Touch
<1>3. ASSUME NEW r \in Recordings, NEW onlyFrom, NEW next, NEW why,
             TransitionWithin(r, onlyFrom, next, why), UNCHANGED retries
      PROVE  NothingYounger
  BY <1>1, <1>2, <1>3 DEF TransitionWithin
<1>4. ASSUME NEW a \in Actors, CallStep(a) PROVE NothingYounger
  <2>1. CASE StopRecording(a)
    BY <1>3, <2>1, CallRows DEF StopRecording, CallLabels
  <2>2. CASE RecordEgressId(a)
    BY <1>1, <1>2, <2>2, CallRows DEF RecordEgressId, CallLabels
  <2>3. CASE ~StopRecording(a) /\ ~RecordEgressId(a)
    BY <1>1, <1>4, <2>3
       DEF CallStep, ProviderStarts, StartAnswerLost, ProviderRefusesStart, RecordEgressIdFails,
           DiscardAgreed, DiscardRefused, SettleNewEgress, ProviderStops, ProviderRefusesStop,
           StopAnswerLost, WriteStopped
  <2> QED BY <2>1, <2>2, <2>3
<1>5. ASSUME NEW h \in Handlers, Arrive(h) \/ HandlerStep(h) PROVE NothingYounger
  <2>1. CASE CallStep(h)
    BY <1>4, <2>1 DEF Actors
  <2>2. CASE \E r \in Recordings : BeginRecording(h, r)
    BY <1>2, <2>2 DEF BeginRecording
  <2>3. CASE StatusMovesRow(h)
    BY <1>3, <2>3, CallRows DEF StatusMovesRow, CallLabels, Actors
  <2>4. CASE /\ ~CallStep(h) /\ ~StatusMovesRow(h)
             /\ \A r \in Recordings : ~BeginRecording(h, r)
    BY <1>1, <1>5, <2>4
       DEF Arrive, HandlerStep, EndInterview, WithdrawConsent, ReceiveStatus, TakeEvent,
           LookForRecording, StatusMarksStopped, StatusQueuesDelivery, Acknowledge
  <2> QED BY <2>1, <2>2, <2>3, <2>4
<1>6. ASSUME NEW s \in Sweepers, SweeperStep(s) PROVE NothingYounger
  <2>1. CASE CallStep(s)
    BY <1>4, <2>1 DEF Actors
  <2>2. CASE \E r \in Recordings : DeleteRecording(s, r) \/ DeletionFails(s, r)
    BY <1>1, <1>2, <1>3, <2>2 DEF DeleteRecording, DeletionFails, DueHandled
  <2>3. CASE ClaimRetry(s) \/ BumpRetry(s)
    <3>1. task[s].rec \in Recordings
      BY <2>3, CallRows DEF ClaimRetry, BumpRetry, CallLabels, Actors
    <3> QED BY <1>1, <1>2, <1>a, <2>3, <3>1 DEF ClaimRetry, BumpRetry
  <2>4. CASE /\ ~CallStep(s) /\ ~ClaimRetry(s) /\ ~BumpRetry(s)
             /\ \A r \in Recordings : ~DeleteRecording(s, r) /\ ~DeletionFails(s, r)
    BY <1>1, <1>6, <2>4
       DEF SweeperStep, RequeueOrphanedWork, ReadStale, ReadDue, SweepKilled, SweepRetries,
           SweepGivesUp, SweepWaits, SweepAbandons, SweepRow, AdoptFindsJob, AdoptFindsNone,
           AdoptFails, ReadOrphans, AskOrphan, EndSweep
  <2> QED BY <2>1, <2>2, <2>3, <2>4
<1>7. CASE DeliveryStep
  BY <1>1, <1>2, <1>7 DEF DeliveryStep, WorkerMoves, WorkerReleases, OperatorRetries
<1>8. CASE Tick
  BY <1>8, <1>a, RecordingStaleAgeAssumption DEF Tick, NothingYounger, Ages
<1>9. CASE ProviderStep \/ (\E a \in Actors : Crash(a)) \/ ThrowKillSwitch \/ UNCHANGED vars
  BY <1>1, <1>9 DEF ProviderStep, JobReports, JobEnds, Send, Crash, ThrowKillSwitch, Drop
<1> QED BY <1>5, <1>6, <1>7, <1>8, <1>9 DEF Next

\* A sweep goes on with what it has, reads its rows, or takes a retry from them.
LEMMA SweepsGoOn ==
    ASSUME TypeInv, [Next]_vars, NEW z \in Sweepers
    PROVE  SweepGoesOn(z) \/ ReadStale(z) \/ \E taken \in todo[z] : SweepRetries(z, taken)
<1> USE DEF sweepVars, vars, actorVars
<1>a. /\ pc \in [Actors -> HandlerLabels \union SweeperLabels]
      /\ task \in [Actors -> Task \union {NoTask}] /\ z \in Actors
      /\ todo \in [Sweepers -> SUBSET Snapshot]
  BY DEF TypeInv, TypeOK, TypeOfActors, TypeOfSweeps, Actors
<1>1. ASSUME NEW r, Touch(r) PROVE current' \subseteq current
  BY <1>1 DEF Touch
<1>2. ASSUME NEW r, NEW onlyFrom, NEW next, NEW why, TransitionWithin(r, onlyFrom, next, why)
      PROVE  current' \subseteq current
  BY <1>1, <1>2 DEF TransitionWithin
<1>3. ASSUME NEW a \in Actors, NEW p, pc' = [pc EXCEPT ![a] = p], a = z => p # "claim",
             \E t : task' = [task EXCEPT ![a] = t],
             \/ UNCHANGED todo
             \/ a = z /\ todo'[z] \subseteq todo[z]
             \/ a # z /\ todo' = [todo EXCEPT ![a] = todo'[a]],
             \A r \in Recordings : <<z, r>> \in current' => <<z, r>> \in current
      PROVE  SweepGoesOn(z)
  BY <1>3, <1>a DEF SweepGoesOn
<1>4. ASSUME NEW a, NEW p, Goto(a, p), UNCHANGED task
      PROVE  pc' = [pc EXCEPT ![a] = p] /\ \E t : task' = [task EXCEPT ![a] = t]
  <2>1. task' = [task EXCEPT ![a] = task[a]]
    BY <1>4, <1>a
  <2> QED BY <1>4, <2>1 DEF Goto
<1>5. ASSUME NEW a \in Actors, pc[a] \in CallLabels, Return(a)
      PROVE  /\ pc' = [pc EXCEPT ![a] = task[a].back] /\ task[a].back # "claim"
             /\ \E t : task' = [task EXCEPT ![a] = t]
  BY <1>5, CallRows DEF Return, Leave, Goto, Backs
<1>6. ASSUME NEW a \in Actors, CallStep(a) PROVE SweepGoesOn(z)
  <2>1. UNCHANGED todo /\ pc[a] \in CallLabels
    BY <1>6
       DEF CallStep, ProviderStarts, StartAnswerLost, ProviderRefusesStart, RecordEgressId,
           RecordEgressIdFails, DiscardAgreed, DiscardRefused, SettleNewEgress, StopRecording,
           ProviderStops, ProviderRefusesStop, StopAnswerLost, WriteStopped, CallLabels
  <2>2. current' \subseteq current
    BY <1>1, <1>2, <1>6
       DEF CallStep, ProviderStarts, StartAnswerLost, ProviderRefusesStart, RecordEgressId,
           RecordEgressIdFails, DiscardAgreed, DiscardRefused, SettleNewEgress, StopRecording,
           ProviderStops, ProviderRefusesStop, StopAnswerLost, WriteStopped
  <2>3. \E p : /\ pc' = [pc EXCEPT ![a] = p] /\ p # "claim"
               /\ \E t : task' = [task EXCEPT ![a] = t]
    <3>1. CASE Return(a)
      BY <1>5, <2>1, <3>1
    <3>2. CASE ~Return(a)
      <4>1. \E p \in {"record", "bump", "settle", "discard", "stop", "mark"} :
               pc' = [pc EXCEPT ![a] = p] /\ \E t : task' = [task EXCEPT ![a] = t]
        <5> DEFINE After == {"record", "bump", "settle", "discard", "stop", "mark"}
        <5>1. CASE \/ \E j \in Jobs : ProviderStarts(a, j) \/ StartAnswerLost(a, j)
                   \/ ProviderRefusesStart(a)
                   \/ RecordEgressId(a) \/ RecordEgressIdFails(a)
          <6>1. \E p \in After :
                    (Goto(a, p) /\ UNCHANGED task) \/ \E t : Enter(a, p, t)
            BY <3>2, <5>1
               DEF ProviderStarts, StartAnswerLost, ProviderRefusesStart, StartFailed,
                   RecordEgressId, RecordEgressIdFails, NotStored
          <6> QED BY <1>4, <6>1 DEF Enter, Goto
        <5>2. CASE DiscardAgreed(a) \/ DiscardRefused(a) \/ SettleNewEgress(a) \/ StopRecording(a)
          <6>1. \E p \in After :
                    (Goto(a, p) /\ UNCHANGED task) \/ \E t : Enter(a, p, t)
            BY <3>2, <5>2
               DEF DiscardAgreed, DiscardRefused, SettleNewEgress, StopRecording, NotStored
          <6> QED BY <1>4, <6>1 DEF Enter, Goto
        <5>3. CASE \/ ProviderStops(a) \/ ProviderRefusesStop(a) \/ StopAnswerLost(a)
                   \/ WriteStopped(a)
          <6>1. \E p \in After :
                    (Goto(a, p) /\ UNCHANGED task) \/ \E t : Enter(a, p, t)
            BY <3>2, <5>3 DEF ProviderStops, ProviderRefusesStop, StopAnswerLost, WriteStopped
          <6> QED BY <1>4, <6>1 DEF Enter, Goto
        <5> QED BY <1>6, <5>1, <5>2, <5>3 DEF CallStep
      <4> QED BY <4>1
    <3> QED BY <3>1, <3>2
  <2> QED BY <1>3, <2>1, <2>2, <2>3
<1>7. ASSUME NEW h \in Handlers, Arrive(h) \/ HandlerStep(h) PROVE SweepGoesOn(z)
  <2>1. CASE CallStep(h)
    BY <1>6, <2>1 DEF Actors
  <2>2. CASE ~CallStep(h)
    <3>1. UNCHANGED todo /\ current' \subseteq current
      BY <1>1, <1>2, <1>7, <2>2
         DEF Arrive, HandlerStep, BeginRecording, EndInterview, WithdrawConsent, ReceiveStatus,
             TakeEvent, LookForRecording, StatusMarksStopped, StatusMovesRow, StatusQueuesDelivery,
             Acknowledge
    <3>2. h # z /\ h \in Actors
      BY ActorsAssumption DEF Actors
    <3>3. \E p, t : pc' = [pc EXCEPT ![h] = p] /\ task' = [task EXCEPT ![h] = t]
      <4>1. \/ Return(h) \/ \E p, t : Enter(h, p, t)
            \/ \E p : Goto(h, p) /\ UNCHANGED task
        BY <1>7, <2>2
           DEF Arrive, HandlerStep, BeginRecording, EndInterview, WithdrawConsent, ReceiveStatus,
               TakeEvent, ApplyStatus, LookForRecording, StatusMarksStopped, StatusMovesRow,
               StatusQueuesDelivery, Acknowledge
      <4> QED BY <1>4, <4>1 DEF Return, Leave, Enter, Goto
    <3> QED BY <1>3, <3>1, <3>2, <3>3
  <2> QED BY <2>1, <2>2
<1>8. ASSUME NEW s \in Sweepers, SweeperStep(s)
      PROVE  SweepGoesOn(z) \/ ReadStale(z) \/ \E taken \in todo[z] : SweepRetries(z, taken)
  <2>0. s \in Actors
    BY DEF Actors
  <2>1. CASE CallStep(s)
    BY <1>6, <2>0, <2>1
  <2>2. CASE ReadStale(s) /\ s # z
    <3>1. /\ pc' = [pc EXCEPT ![s] = "due"] /\ \E t : task' = [task EXCEPT ![s] = t]
          /\ todo' = [todo EXCEPT ![s] = todo'[s]]
          /\ \A r \in Recordings : <<z, r>> \in current' => <<z, r>> \in current
      BY <1>4, <1>a, <2>2 DEF ReadStale
    <3> QED BY <1>3, <2>0, <2>2, <3>1
  <2>3. ASSUME NEW taken \in todo[s],
               \/ SweepKilled(s, taken) \/ SweepGivesUp(s, taken) \/ SweepAbandons(s, taken)
               \/ SweepRetries(s, taken) /\ s # z
        PROVE  SweepGoesOn(z)
    <3>1. SweepRow(s, taken)
      BY <2>3 DEF SweepKilled, SweepGivesUp, SweepAbandons, SweepRetries
    <3>2. /\ UNCHANGED current /\ todo' = [todo EXCEPT ![s] = todo'[s]]
          /\ todo'[s] \subseteq todo[s]
      BY <1>a, <3>1 DEF SweepRow
    <3>3. \E p : /\ pc' = [pc EXCEPT ![s] = p]
                 /\ s = z => p # "claim"
                 /\ \E t : task' = [task EXCEPT ![s] = t]
      BY <2>3 DEF SweepKilled, SweepGivesUp, SweepAbandons, SweepRetries, FailStale, Enter, Goto
    <3> QED BY <1>3, <2>0, <3>2, <3>3
  <2>4. ASSUME NEW taken \in todo[s], SweepWaits(s, taken) PROVE SweepGoesOn(z)
    BY <1>a, <2>4 DEF SweepWaits, SweepRow, SweepGoesOn
  <2>5. CASE \/ RequeueOrphanedWork(s) \/ ReadDue(s) \/ ClaimRetry(s) \/ AdoptFindsNone(s)
             \/ AdoptFails(s) \/ BumpRetry(s) \/ ReadOrphans(s) \/ EndSweep(s)
             \/ (\E r \in Recordings : DeleteRecording(s, r) \/ DeletionFails(s, r))
             \/ (\E o \in orphans[s] : AskOrphan(s, o)) \/ (\E j \in Jobs : AdoptFindsJob(s, j))
    <3>1. UNCHANGED todo /\ current' \subseteq current
      BY <1>1, <1>2, <2>5
         DEF RequeueOrphanedWork, ReadDue, ClaimRetry, AdoptFindsNone, AdoptFails, BumpRetry,
             ReadOrphans, EndSweep, DeleteRecording, DeletionFails, DueHandled, AskOrphan,
             AdoptFindsJob
    <3>2. \E p : /\ pc' = [pc EXCEPT ![s] = p] /\ p # "claim"
                 /\ \E t : task' = [task EXCEPT ![s] = t]
      <4>1. CASE (ClaimRetry(s) \/ BumpRetry(s)) /\ Return(s)
        BY <1>5, <2>0, <4>1 DEF ClaimRetry, BumpRetry, CallLabels
      <4>2. CASE ~((ClaimRetry(s) \/ BumpRetry(s)) /\ Return(s))
        BY <1>4, <2>5, <4>2
           DEF RequeueOrphanedWork, ReadDue, ClaimRetry, AdoptFindsNone, AdoptFails, BumpRetry,
               ReadOrphans, EndSweep, DeleteRecording, DeletionFails, DueHandled, AskOrphan,
               AdoptFindsJob, Enter, Goto
      <4> QED BY <4>1, <4>2
    <3> QED BY <1>3, <2>0, <3>1, <3>2
  <2> QED BY <1>8, <2>1, <2>2, <2>3, <2>4, <2>5 DEF SweeperStep
<1>9. ASSUME \/ DeliveryStep \/ ProviderStep \/ Tick \/ (\E a \in Actors : Crash(a))
             \/ ThrowKillSwitch \/ UNCHANGED vars
      PROVE  SweepGoesOn(z)
  <2>1. CASE DeliveryStep \/ ProviderStep \/ Tick \/ UNCHANGED vars
    <3>1. UNCHANGED <<todo, pc, task>> /\ current' \subseteq current
      BY <1>1, <2>1
         DEF DeliveryStep, WorkerMoves, WorkerReleases, OperatorRetries, ProviderStep, JobReports,
             JobEnds, Send, Tick
    <3> QED BY <3>1 DEF SweepGoesOn
  <2>2. ASSUME NEW gone \in SUBSET Actors, Drop(gone) PROVE SweepGoesOn(z)
    BY <1>a, <2>2 DEF Drop, SweepGoesOn
  <2> QED BY <1>9, <2>1, <2>2 DEF Crash, ThrowKillSwitch
<1> QED BY <1>7, <1>8, <1>9 DEF Next

\* A sweep that is to ask the provider claimed the row it read.
LEMMA ClaimsAreFresh ==
    ASSUME TypeInv, [Next]_vars, NEW s \in Sweepers, pc[s] = "claim", pc'[s] = "adopt"
    PROVE  ClaimRetry(s) /\ Claimable(s, task[s].rec)
<1> USE DEF vars, actorVars
<1>a. /\ pc \in [Actors -> HandlerLabels \union SweeperLabels] /\ s \in Actors /\ s \notin Handlers
      /\ task[s].back \in {"sweep", "orphan"}
  BY CallRows, ActorsAssumption DEF TypeInv, TypeOK, TypeOfActors, Actors, Backs, CallLabels
<1>1. ASSUME NEW a, NEW p, a # s, pc' = [pc EXCEPT ![a] = p] PROVE FALSE
  BY <1>1, <1>a
<1>2. ASSUME NEW a \in Actors, Return(a) PROVE \E p : pc' = [pc EXCEPT ![a] = p]
  BY <1>2 DEF Return, Leave, Goto
<1>3. ASSUME NEW a \in Actors, CallStep(a) PROVE FALSE
  <2>1. pc[a] # "claim" /\ \E p : pc' = [pc EXCEPT ![a] = p]
    BY <1>2, <1>3
       DEF CallStep, ProviderStarts, StartAnswerLost, ProviderRefusesStart, StartFailed,
           RecordEgressId, RecordEgressIdFails, NotStored, DiscardAgreed, DiscardRefused,
           SettleNewEgress, StopRecording, ProviderStops, ProviderRefusesStop, StopAnswerLost,
           WriteStopped, Enter, Goto
  <2> QED BY <1>1, <2>1
<1>4. ASSUME NEW h \in Handlers, Arrive(h) \/ HandlerStep(h) PROVE FALSE
  <2>1. CASE CallStep(h)
    BY <1>3, <2>1 DEF Actors
  <2>2. CASE ~CallStep(h)
    <3>1. \/ Return(h) \/ \E p, t : Enter(h, p, t)
          \/ \E p : Goto(h, p) /\ UNCHANGED task
      BY <1>4, <2>2
         DEF Arrive, HandlerStep, BeginRecording, EndInterview, WithdrawConsent, ReceiveStatus,
             TakeEvent, ApplyStatus, LookForRecording, StatusMarksStopped, StatusMovesRow,
             StatusQueuesDelivery, Acknowledge
    <3> QED BY <1>1, <1>2, <1>a, <3>1 DEF Enter, Goto, Actors
  <2> QED BY <2>1, <2>2
<1>5. ASSUME NEW z \in Sweepers, SweeperStep(z) PROVE ClaimRetry(s) /\ Claimable(s, task[s].rec)
  <2>1. CASE CallStep(z)
    BY <1>3, <2>1 DEF Actors
  <2>2. CASE ~CallStep(z) /\ z # s
    <3>1. \/ \E p : pc' = [pc EXCEPT ![z] = p]
          \/ UNCHANGED pc
      BY <1>2, <1>5, <2>2
         DEF SweeperStep, RequeueOrphanedWork, ReadStale, ReadDue, DeleteRecording, DeletionFails,
             DueHandled, SweepKilled, SweepRetries, SweepGivesUp, SweepWaits, SweepAbandons,
             SweepRow, FailStale, ClaimRetry, AdoptFindsJob, AdoptFindsNone, AdoptFails, BumpRetry,
             ReadOrphans, AskOrphan, EndSweep, Enter, Goto, Actors
    <3> QED BY <1>1, <2>2, <3>1
  <2>3. CASE ~CallStep(z) /\ z = s
    <3>1. ClaimRetry(s)
      BY <1>5, <2>3
         DEF SweeperStep, RequeueOrphanedWork, ReadStale, ReadDue, DeleteRecording, DeletionFails,
             DueHandled, SweepKilled, SweepRetries, SweepGivesUp, SweepWaits, SweepAbandons,
             SweepRow, AdoptFindsJob, AdoptFindsNone, AdoptFails, BumpRetry, ReadOrphans,
             AskOrphan, EndSweep
    <3>2. ASSUME Return(s) PROVE FALSE
      BY <1>a, <3>2 DEF Return, Leave, Goto
    <3> QED BY <3>1, <3>2 DEF ClaimRetry
  <2> QED BY <2>1, <2>2, <2>3
<1>6. ASSUME \/ DeliveryStep \/ ProviderStep \/ Tick \/ (\E a \in Actors : Crash(a))
             \/ ThrowKillSwitch \/ UNCHANGED vars
      PROVE  FALSE
  <2>1. CASE DeliveryStep \/ ProviderStep \/ Tick \/ UNCHANGED vars
    BY <2>1
       DEF DeliveryStep, WorkerMoves, WorkerReleases, OperatorRetries, ProviderStep, JobReports,
           JobEnds, Send, Tick
  <2>2. ASSUME NEW gone \in SUBSET Actors, Drop(gone) PROVE FALSE
    BY <1>a, <2>2 DEF Drop
  <2> QED BY <1>6, <2>1, <2>2 DEF Crash, ThrowKillSwitch
<1> QED BY <1>4, <1>5, <1>6 DEF Next

LEMMA FreshNext == TypeInv /\ ReadsAreFresh /\ [Next]_vars => ReadsAreFresh'
<1> SUFFICES ASSUME TypeInv, ReadsAreFresh, [Next]_vars, NEW s \in Sweepers
             PROVE  /\ \A taken \in todo'[s] :
                         <<s, taken.rec>> \in current' =>
                             retries'[taken.rec] = taken.retries /\ age'[taken.rec] >= taken.age
                    /\ pc'[s] = "claim" /\ <<s, task'[s].rec>> \in current' =>
                             RetryIsDue(retries'[task'[s].rec], age'[task'[s].rec])
  BY DEF ReadsAreFresh
<1>a. /\ NothingYounger /\ TypeInv'
      /\ SweepGoesOn(s) \/ ReadStale(s) \/ \E taken \in todo[s] : SweepRetries(s, taken)
  BY WritesAreSeen, SweepsGoOn, TypeInvNext
<1>b. /\ age \in [Recordings -> Ages] /\ age' \in [Recordings -> Ages]
      /\ retries \in [Recordings -> Nat] /\ Ages \subseteq Nat
      /\ todo \in [Sweepers -> SUBSET Snapshot] /\ task \in [Actors -> Task \union {NoTask}]
      /\ pc \in [Actors -> HandlerLabels \union SweeperLabels] /\ s \in Actors
  BY <1>a DEF TypeInv, TypeOK, TypeOfRows, TypeOfSweeps, TypeOfActors, Ages, Actors
\* A row still as it was read,
<1>1. ASSUME NEW taken \in todo[s], <<s, taken.rec>> \in current, <<s, taken.rec>> \in current'
      PROVE  /\ taken.rec \in Recordings /\ taken.retries \in Nat /\ taken.age \in Ages
             /\ retries[taken.rec] = taken.retries /\ age[taken.rec] >= taken.age
             /\ retries'[taken.rec] = taken.retries /\ age'[taken.rec] >= taken.age
  <2>1. taken.rec \in Recordings /\ taken.retries \in Nat /\ taken.age \in Ages
    BY <1>b DEF Snapshot
  <2>2. retries[taken.rec] = taken.retries /\ age[taken.rec] >= taken.age
    BY <1>1 DEF ReadsAreFresh
  <2>3. retries'[taken.rec] = retries[taken.rec] /\ age'[taken.rec] >= age[taken.rec]
    BY <1>1, <1>a, <2>1 DEF NothingYounger
  <2>4. age[taken.rec] \in Nat /\ age'[taken.rec] \in Nat /\ taken.age \in Nat
    BY <1>b, <2>1
  <2> QED BY <2>1, <2>2, <2>3, <2>4
<1>2. CASE SweepGoesOn(s)
  <2>1. ASSUME NEW taken \in todo'[s], <<s, taken.rec>> \in current'
        PROVE  retries'[taken.rec] = taken.retries /\ age'[taken.rec] >= taken.age
    <3>1. taken \in todo[s] /\ taken.rec \in Recordings
      BY <1>2, <1>b, <2>1 DEF SweepGoesOn, Snapshot
    <3> QED BY <1>1, <1>2, <2>1, <3>1 DEF SweepGoesOn
  <2>2. ASSUME pc'[s] = "claim", <<s, task'[s].rec>> \in current'
        PROVE  RetryIsDue(retries'[task'[s].rec], age'[task'[s].rec])
    <3> DEFINE r == task[s].rec
    <3>1. pc[s] = "claim" /\ task'[s].rec = r /\ r \in Recordings
      BY <1>2, <1>b, <2>2, CallRows DEF SweepGoesOn, CallLabels
    <3>2. RetryIsDue(retries[r], age[r])
      BY <1>2, <2>2, <3>1 DEF SweepGoesOn, ReadsAreFresh
    <3>3. retries'[r] = retries[r] /\ age'[r] >= age[r]
      BY <1>a, <2>2, <3>1 DEF NothingYounger
    <3>4. retries[r] \in Nat /\ age[r] \in Ages /\ age'[r] \in Ages /\ age[r] <= age'[r]
      BY <1>b, <3>1, <3>3
    <3> QED BY <3>1, <3>2, <3>3, <3>4, DueStaysDue
  <2> QED BY <2>1, <2>2
<1>3. CASE ReadStale(s)
  <2>1. pc'[s] = "due" /\ UNCHANGED <<retries, age>>
    BY <1>3, <1>b DEF ReadStale, Goto, rowVars
  <2>2. ASSUME NEW taken \in todo'[s]
        PROVE  taken.rec \in Recordings /\ taken.retries = retries[taken.rec]
               /\ taken.age = age[taken.rec]
    BY <1>3, <1>b, <2>2 DEF ReadStale, Row
  <2>3. ASSUME NEW taken \in todo'[s]
        PROVE  retries'[taken.rec] = taken.retries /\ age'[taken.rec] >= taken.age
    <3>1. taken.rec \in Recordings /\ age[taken.rec] \in Nat
      BY <1>b, <2>2
    <3> QED BY <2>1, <2>2, <3>1
  <2> QED BY <2>1, <2>3
\* and one whose retry is taken, which was due when it was read.
<1>4. ASSUME NEW taken \in todo[s], SweepRetries(s, taken)
      PROVE  /\ \A other \in todo'[s] :
                   <<s, other.rec>> \in current' =>
                       retries'[other.rec] = other.retries /\ age'[other.rec] >= other.age
             /\ <<s, task'[s].rec>> \in current' =>
                   RetryIsDue(retries'[task'[s].rec], age'[task'[s].rec])
  <2>1. /\ todo'[s] \subseteq todo[s] /\ UNCHANGED current /\ task'[s].rec = taken.rec
        /\ RetryIsDue(taken.retries, taken.age)
    BY <1>4, <1>b DEF SweepRetries, SweepRow, Enter, Call
  <2>2. \A other \in todo'[s] :
            <<s, other.rec>> \in current' =>
                retries'[other.rec] = other.retries /\ age'[other.rec] >= other.age
    BY <1>1, <2>1
  <2>3. ASSUME <<s, taken.rec>> \in current'
        PROVE  RetryIsDue(retries'[taken.rec], age'[taken.rec])
    <3>1. /\ taken.rec \in Recordings /\ taken.retries \in Nat /\ taken.age \in Ages
          /\ retries'[taken.rec] = taken.retries /\ age'[taken.rec] >= taken.age
      BY <1>1, <2>1, <2>3
    <3>2. age'[taken.rec] \in Ages /\ taken.age <= age'[taken.rec]
      BY <1>b, <3>1
    <3> QED BY <2>1, <3>1, <3>2, DueStaysDue
  <2> QED BY <2>1, <2>2, <2>3
<1> QED BY <1>a, <1>2, <1>3, <1>4

(***************************************************************************)
(* What follows for every instance.                                        *)
(***************************************************************************)
\* Once a withdrawal is answered, the recording is out of the provider's hands
\* and stays out of them, whatever start, retry or webhook was in flight.
THEOREM WithdrawalsStick == Spec => []WithdrawalSticks
<1>1. RowInv => WithdrawalSticks
  BY DEF RowInv, AnswersHold, WithdrawalSticks
<1> QED BY <1>1, RowsAlways, PTL

\* A status that was acknowledged, and so is never sent again, took effect on the
\* row of its job: the row is marked stopped, or gone, and waits no longer.
THEOREM AcknowledgedTookEffect == Spec => []AppliedStatusTookEffect
<1>1. RowInv => AppliedStatusTookEffect
  BY DEF RowInv, StatusesTook, TookEffect, HandedOver, AppliedStatusTookEffect
<1> QED BY <1>1, RowsAlways, PTL

\* What requests, webhooks and sweeps do to the rows they share with the delivery
\* queue is what DeliveryContract says: no event that comes late fails a recording
\* whose file was handed over.
THEOREM ImplementsContract == Spec => KeepsContract
<1>1. Init => Contract!Init
  BY DEF Init, Contract!Init
<1>2. TypeInv /\ RowInv /\ [Next]_vars => [Contract!Next]_(Contract!contractVars)
  BY KeepsContractStep DEF ContractStep
<1> QED BY <1>1, <1>2, RowsAlways, PTL DEF Spec, KeepsContract, Contract!Spec

\* Every step of every actor is one the abstract specification of a recording
\* allows: a recording begins once, alone in its account and not after a withdrawal
\* that was answered, and follows the transition table.
THEOREM ImplementsLifecycle == Spec => RefinesLifecycle
<1>1. Init => Lifecycle!Init
  BY DEF Init, Lifecycle!Init
<1>2. TypeInv /\ StopInv /\ RowInv /\ [Next]_vars => [Lifecycle!Next]_(Lifecycle!vars)
  BY KeepsLifecycleStep DEF LifecycleStep
<1> QED BY <1>1, <1>2, RowsAlways, PTL DEF Spec, RefinesLifecycle, Lifecycle!Spec

\* No two recordings of the account are active at a time.
OneActive == \A r, o \in Recordings : IsActive(state[r]) /\ IsActive(state[o]) => r = o

\* The abstract life alone gives this: only Begin and Reopen make a recording
\* active, and both find the others over.
LEMMA LifecycleKeepsOneActive ==
    ASSUME TypeOK, OneActive, [Lifecycle!Next]_(Lifecycle!vars)
    PROVE  OneActive'
<1> USE DEF OneActive, Lifecycle!Become, IsActive, ActiveStates
<1>1. DOMAIN state = Recordings
  BY DEF TypeOK, TypeOfRows
<1>2. ASSUME NEW r \in Recordings, Lifecycle!Change(r) PROVE OneActive'
  <2>1. CASE Lifecycle!Begin(r) \/ Lifecycle!Reopen(r)
    BY <1>1, <2>1 DEF Lifecycle!Begin, Lifecycle!Reopen, Lifecycle!Alone,
                      Lifecycle!IsActive, Lifecycle!ActiveStates
  <2>2. ASSUME NEW next \in Lifecycle!RowStates, Lifecycle!Move(r, next) PROVE OneActive'
    BY <1>1, <2>2 DEF Lifecycle!Move, Lifecycle!MayBecome, Lifecycle!RowStates,
                      Lifecycle!ActiveStates
  <2>3. CASE Lifecycle!Tombstone(r)
    BY <1>1, <2>3 DEF Lifecycle!Tombstone
  <2> QED BY <1>2, <2>1, <2>2, <2>3 DEF Lifecycle!Change
<1>3. CASE UNCHANGED state
  BY <1>3
<1> QED BY <1>2, <1>3 DEF Lifecycle!Next, Lifecycle!vars

\* An account has one active recording at a time, whatever starts, retries and
\* reopened deliveries race: a consequence of the abstract life it implements.
THEOREM OneRecordingAtATime == Spec => []OneActive
<1>1. Init => OneActive
  BY DEF Init, OneActive, IsActive, ActiveStates
<1>2. TypeOK /\ OneActive /\ [Lifecycle!Next]_(Lifecycle!vars) => OneActive'
  BY LifecycleKeepsOneActive
<1>3. Spec => [][Lifecycle!Next]_(Lifecycle!vars)
  BY ImplementsLifecycle DEF RefinesLifecycle, Lifecycle!Spec
<1>4. Spec => []TypeOK
  BY TypeCorrect
<1>5. Spec => Init
  BY DEF Spec
<1> QED BY <1>1, <1>2, <1>3, <1>4, <1>5, PTL

\* A job that runs is named by its row, held by an actor that is about to write it
\* down or stop it, or was lost where the code cannot know it.
THEOREM RunningJobsAreNamed == Spec => []NoUnnamedJob
<1>1. Init => TypeInv /\ JobInv
  <2>1. Init => JobInv
    BY NoRecordingAssumption DEF Init, JobInv, JobsAreOfRooms, NoUnnamedJob, Started
  <2> QED BY <2>1, TypeInvInit
<1>2. (TypeInv /\ JobInv) /\ [Next]_vars => (TypeInv /\ JobInv)'
  BY TypeInvNext, JobInvNext
<1>3. JobInv => NoUnnamedJob
  BY DEF JobInv
<1> QED BY <1>1, <1>2, <1>3, PTL DEF Spec

\* Two sweepers never take one retry early: a claim only succeeds on a row that is
\* as old as its retry needs, counted from the last write of anybody.
THEOREM RetriesAreOnTime == Spec => RetriesKeepTheirSchedule
<1>1. Init => TypeInv /\ ReadsAreFresh
  <2>1. Init => ReadsAreFresh
    BY DEF Init, ReadsAreFresh, Actors
  <2> QED BY <2>1, TypeInvInit
<1>2. (TypeInv /\ ReadsAreFresh) /\ [Next]_vars => (TypeInv /\ ReadsAreFresh)'
  BY TypeInvNext, FreshNext
<1> DEFINE OnTime ==
        \A s \in Sweepers :
            pc[s] = "claim" /\ pc'[s] = "adopt" => RetryIsDue(retries[task[s].rec], age[task[s].rec])
<1>3. TypeInv /\ ReadsAreFresh /\ [Next]_vars => [OnTime]_vars
  <2> SUFFICES ASSUME TypeInv, ReadsAreFresh, [Next]_vars, NEW s \in Sweepers,
                      pc[s] = "claim", pc'[s] = "adopt"
               PROVE  RetryIsDue(retries[task[s].rec], age[task[s].rec])
    OBVIOUS
  <2>1. ClaimRetry(s) /\ Claimable(s, task[s].rec)
    BY ClaimsAreFresh
  <2> QED BY <2>1 DEF Claimable, ReadsAreFresh
<1> QED BY <1>1, <1>2, <1>3, PTL DEF Spec, RetriesKeepTheirSchedule

=============================================================================
