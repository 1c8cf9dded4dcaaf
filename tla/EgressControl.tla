--------------------------- MODULE EgressControl ---------------------------
(***************************************************************************)
(* One deployment of the recording pipeline between the interview and the  *)
(* delivery queue: the rows of the recordings table, the Egress jobs of    *)
(* the provider, and everybody who moves them -                            *)
(*                                                                         *)
(*   - request handlers: the start route, /end, consent withdrawal and the *)
(*     provider's webhooks, any number of them at once;                    *)
(*   - sweepers: one per `codetrial web` process on the database, each     *)
(*     looping over requeue, retention, stale rows and orphaned jobs;      *)
(*   - the delivery worker and the operator, as far as they move a row     *)
(*     that the handlers and sweepers also move (DeliverySide).            *)
(*                                                                         *)
(* Every database statement is one atomic step, because each process has   *)
(* one connection behind a mutex and SQLite serializes writers; every      *)
(* await between two statements, or between a statement and a provider     *)
(* call, is a point where any other actor may run, and where the actor     *)
(* itself may be dropped.  All recordings belong to one account and each   *)
(* to an interview of its own whose room is claimed.                       *)
(***************************************************************************)
EXTENDS DeliverySide, FiniteSets

CONSTANTS
    Jobs,            \* egress ids the provider can hand out
    NoJob,           \* the null egress_id
    NoRecording,     \* the room of a job that was never started
    Handlers,        \* requests that can be in flight at once
    Sweepers,        \* processes running the sweep loop
    PrimaryRooms,    \* the recordings whose room is on the primary project
    JobStatuses,     \* the statuses jobs report in this instance
    MaxFaults,       \* bound: how many actors are dropped mid-way, or lose a write
    MayKill,         \* whether the kill switch is thrown
    MayRetryDelivery \* whether an operator retries failed deliveries

ASSUME NoJobAssumption == NoJob \notin Jobs
ASSUME NoRecordingAssumption == NoRecording \notin Recordings
ASSUME ActorsAssumption == Handlers \intersect Sweepers = {}
ASSUME PrimaryRoomsAssumption == PrimaryRooms \subseteq Recordings
ASSUME JobStatusesAssumption == JobStatuses \subseteq Statuses
ASSUME BoundsAssumption ==
    MaxFaults \in Nat /\ MayKill \in BOOLEAN /\ MayRetryDelivery \in BOOLEAN

VARIABLES
    (* the recordings table, by column, and its neighbours *)
    retries,    \* recordings.retries, as the start schedule reads it
    age,        \* how long ago updated_at is, in boundaries of the schedule
    egress,     \* recordings.egress_id
    stopped,    \* the recordings whose stopped_at is set
    withdrawn,  \* the interviews whose consent_withdrawn_at is set
    applied,    \* the events of recording_events with applied_at set
    (* the provider *)
    jobs,       \* the status of each Egress job
    room,       \* the recording whose room each job records
    sent,       \* the webhooks the provider has sent, each at least once
    (* the actors *)
    pc,         \* where each actor is
    task,       \* the locals of the call an actor is in
    event,      \* the webhook a handler is applying
    todo,       \* the stale rows a sweeper read
    current,    \* the rows of todo whose updated_at has not changed since
    due,        \* the rows a sweeper's retention pass read
    orphans,    \* the unstopped jobs a sweeper read
    killed,     \* config.kill_switch
    (* history and bounds *)
    lost,       \* jobs whose id nobody was left to write down or to stop
    answered,   \* recordings whose withdrawal was answered
    faults      \* how many actors were dropped or lost a write

rowVars == <<state, error, retries, age, egress, stopped>>
tableVars == <<withdrawn, queued, applied>>
providerVars == <<jobs, room, sent>>
sweepVars == <<todo, due, orphans>>
actorVars == <<pc, task, event>>
historyVars == <<lost, answered, faults>>
vars == <<rowVars, tableVars, providerVars, sweepVars, actorVars,
          current, killed, historyVars>>

Actors == Handlers \union Sweepers

(***************************************************************************)
(* Types.                                                                  *)
(***************************************************************************)
MaybeJob == Jobs \union {NoJob}
Ages == 0..RecordingStaleAge

\* A row as stale_active returned it.
Snapshot == [rec : Recordings, state : ActiveStates, error : Errors,
             retries : Nat, age : Ages, egress : MaybeJob]

\* An egress_updated or egress_ended, by what it says of which job.
Event == [job : Jobs, status : Statuses]
NoEvent == [job |-> NoJob, status |-> "active"]

\* The locals of a call: the recording and the job it is about, the move it
\* wants, whether the room name it holds routes to the job's project, and
\* where its caller goes on.
Task == [rec : Recordings, job : MaybeJob, next : States, why : Errors,
         reach : BOOLEAN, back : {"idle", "ack", "sweep", "orphan"}]
NoTask == [rec |-> NoRecording]

HandlerLabels == {"idle", "start", "record", "settle", "stop", "mark", "discard",
                  "look", "move", "status_mark", "status_move", "status_queue", "ack"}
SweeperLabels == {"idle", "read", "due", "delete", "sweep", "claim", "adopt", "adopted",
                  "start", "record", "settle", "stop", "mark", "discard", "bump",
                  "move", "orphan"}

TypeOfRows ==
    /\ state \in [Recordings -> States]
    /\ error \in [Recordings -> Errors]
    /\ retries \in [Recordings -> Nat]
    /\ age \in [Recordings -> Ages]
    /\ egress \in [Recordings -> MaybeJob]
    /\ stopped \subseteq Recordings
    /\ withdrawn \subseteq Recordings
    /\ queued \subseteq Recordings
    /\ applied \subseteq Event

TypeOfProvider ==
    /\ jobs \in [Jobs -> {"unused", "running", "stopping", "ended"}]
    /\ room \in [Jobs -> Recordings \union {NoRecording}]
    /\ sent \subseteq Event

TypeOfActors ==
    /\ pc \in [Actors -> HandlerLabels \union SweeperLabels]
    /\ \A h \in Handlers : pc[h] \in HandlerLabels
    /\ \A s \in Sweepers : pc[s] \in SweeperLabels
    /\ task \in [Actors -> Task \union {NoTask}]
    /\ event \in [Handlers -> Event \union {NoEvent}]

TypeOfSweeps ==
    /\ todo \in [Sweepers -> SUBSET Snapshot]
    /\ current \subseteq Sweepers \X Recordings
    /\ due \in [Sweepers -> SUBSET Recordings]
    /\ orphans \in [Sweepers -> SUBSET (Recordings \X Jobs)]

TypeOfHistory ==
    /\ killed \in BOOLEAN
    /\ lost \subseteq Jobs
    /\ answered \subseteq Recordings
    /\ faults \in Nat

TypeOK ==
    /\ TypeOfRows
    /\ TypeOfProvider
    /\ TypeOfActors
    /\ TypeOfSweeps
    /\ TypeOfHistory

Init ==
    /\ state = [r \in Recordings |-> "none"]
    /\ error = [r \in Recordings |-> "none"]
    /\ retries = [r \in Recordings |-> 0]
    /\ age = [r \in Recordings |-> 0]
    /\ egress = [r \in Recordings |-> NoJob]
    /\ stopped = {} /\ withdrawn = {} /\ queued = {} /\ applied = {}
    /\ jobs = [j \in Jobs |-> "unused"]
    /\ room = [j \in Jobs |-> NoRecording]
    /\ sent = {}
    /\ pc = [a \in Actors |-> "idle"]
    /\ task = [a \in Actors |-> NoTask]
    /\ event = [h \in Handlers |-> NoEvent]
    /\ todo = [s \in Sweepers |-> {}]
    /\ current = {}
    /\ due = [s \in Sweepers |-> {}]
    /\ orphans = [s \in Sweepers |-> {}]
    /\ killed = FALSE
    /\ lost = {} /\ answered = {} /\ faults = 0

(***************************************************************************)
(* The statements.                                                         *)
(***************************************************************************)
\* Every write of updated_at.
Touch(r) ==
    /\ age' = [age EXCEPT ![r] = 0]
    /\ current' = {p \in current : p[2] # r}

\* transition_within, and transition when onlyFrom is RowStates.
Lands(r, onlyFrom, next) == TransitionLands(state[r], onlyFrom, next)
TransitionWithin(r, onlyFrom, next, why) ==
    IF Lands(r, onlyFrom, next)
        THEN /\ state' = [state EXCEPT ![r] = next]
             /\ error' = [error EXCEPT ![r] = Coalesce(why, @)]
             /\ Touch(r)
        ELSE UNCHANGED <<state, error, age, current>>

MarkStopped(r) == stopped' = stopped \union {r}

\* Mutant: stale_active without its branch for the kill switch.
IsStaleKilledOrNot(r) == IsActive(state[r]) /\ age[r] >= 1 /\ r \notin queued

\* The rows stale_active returns: everything active under the kill switch,
\* otherwise what nothing touched for a minute and no queue row waits for.
IsStale(r) ==
    IsActive(state[r]) /\ (killed \/ (age[r] >= 1 /\ r \notin queued))

\* The rows due_for_deletion returns.  Only a delivered recording has a
\* deadline, and it may have passed at any moment after that.
IsDue(r) ==
    /\ state[r] \in Deletable
    /\ egress[r] = NoJob \/ r \in stopped
    /\ \/ state[r] \in {"ready", "cleanup_failed"}
       \/ error[r] = "consent_withdrawn"
       \/ r \in withdrawn

\* The rows unstopped_jobs returns.
IsOrphaned(r) ==
    /\ egress[r] # NoJob /\ r \notin stopped
    /\ state[r] \in {"finalizing", "transferring"} \union Deletable

(***************************************************************************)
(* Calls.                                                                  *)
(***************************************************************************)
Goto(a, label) == pc' = [pc EXCEPT ![a] = label]

Call(r, j, next, why, back) ==
    [rec |-> r, job |-> j, next |-> next, why |-> why, reach |-> TRUE, back |-> back]

Enter(a, label, call) ==
    /\ Goto(a, label)
    /\ task' = [task EXCEPT ![a] = call]

\* The call returns and its caller goes on at label; a withdrawal's handler
\* has then answered.
Leave(a, label) ==
    /\ Goto(a, label)
    /\ task' = [task EXCEPT ![a] = NoTask]
    /\ answered' = IF task[a].why = "consent_withdrawn"
                       THEN answered \union {task[a].rec} ELSE answered

Return(a) == Leave(a, task[a].back)

(***************************************************************************)
(* Starting: start_recording_handler, start_and_record_egress and          *)
(* settle_new_egress.                                                      *)
(***************************************************************************)
\* begin_recording, for a recording that has no row: a request for one that
\* has, or that a rule of the insert refuses, changes nothing.
BeginRecording(h, r) ==
    /\ pc[h] = "idle"
    /\ ~killed
    /\ state[r] = "none" /\ r \notin withdrawn /\ OthersInactive(r)
    /\ state' = [state EXCEPT ![r] = "starting"]
    /\ Touch(r)
    /\ Enter(h, "start", Call(r, NoJob, "recording", "none", "idle"))
    /\ UNCHANGED <<error, retries, egress, stopped, tableVars, providerVars,
                   sweepVars, event, killed, historyVars>>

\* The provider creates a job, and its answer names it.
ProviderStarts(a, j) ==
    /\ pc[a] = "start"
    /\ jobs[j] = "unused"
    /\ jobs' = [jobs EXCEPT ![j] = "running"]
    /\ room' = [room EXCEPT ![j] = task[a].rec]
    /\ Enter(a, "record", [task[a] EXCEPT !.job = j])
    /\ UNCHANGED <<rowVars, tableVars, sent, sweepVars, event, current, killed, historyVars>>

\* A start that came back as an error: the route leaves the row to the
\* schedule, a retry spends one of its attempts.
StartFailed(a) ==
    IF a \in Sweepers
        THEN Goto(a, "bump") /\ UNCHANGED <<task, answered>>
        ELSE Return(a)

ProviderRefusesStart(a) ==
    /\ pc[a] = "start"
    /\ StartFailed(a)
    /\ UNCHANGED <<rowVars, tableVars, providerVars, sweepVars, event, current,
                   killed, lost, faults>>

\* The job was created and the answer did not arrive.
StartAnswerLost(a, j) ==
    /\ pc[a] = "start"
    /\ jobs[j] = "unused"
    /\ jobs' = [jobs EXCEPT ![j] = "running"]
    /\ room' = [room EXCEPT ![j] = task[a].rec]
    /\ lost' = lost \union {j}
    /\ StartFailed(a)
    /\ UNCHANGED <<rowVars, tableVars, sent, sweepVars, event, current, killed, faults>>

\* Mutant: a job the row does not take is not stopped.
ForgetTheJob(a) == Return(a)

\* A job the row could not be made to name: the caller that created it stops
\* it again, a retry that found it leaves it to whoever did.
NotStored(a) ==
    IF pc[a] = "record"
        THEN Goto(a, "discard") /\ UNCHANGED <<task, answered>>
        ELSE Return(a)

\* record_egress_id, which starts the row in the same write.
OnceNamed(s) == IF s = "starting" THEN "recording" ELSE s

\* Its WHERE: the id is written once.
Unnamed(r) == egress[r] = NoJob

RecordEgressId(a) ==
    LET r == task[a].rec
        j == task[a].job
    IN  /\ pc[a] \in {"record", "adopted"}
        /\ IF Unnamed(r)
               THEN /\ egress' = [egress EXCEPT ![r] = j]
                    /\ state' = [state EXCEPT ![r] = OnceNamed(@)]
                    /\ Touch(r)
               ELSE UNCHANGED <<egress, state, age, current>>
        /\ IF Unnamed(r) \/ egress[r] = j
               THEN Goto(a, "settle") /\ UNCHANGED <<task, answered>>
               ELSE NotStored(a)
        /\ UNCHANGED <<error, retries, stopped, tableVars, providerVars, sweepVars,
                       event, killed, lost, faults>>

\* The write failed, which counts as not stored.
RecordEgressIdFails(a) ==
    /\ pc[a] \in {"record", "adopted"}
    /\ faults < MaxFaults
    /\ faults' = faults + 1
    /\ NotStored(a)
    /\ UNCHANGED <<rowVars, tableVars, providerVars, sweepVars, event, current,
                   killed, lost>>

\* The best-effort stop of a job the row does not name.
DiscardAgreed(a) ==
    /\ pc[a] = "discard"
    /\ jobs' = [jobs EXCEPT ![task[a].job] = IF @ = "running" THEN "stopping" ELSE @]
    /\ Return(a)
    /\ UNCHANGED <<rowVars, tableVars, room, sent, sweepVars, event, current, killed,
                   lost, faults>>

DiscardRefused(a) ==
    /\ pc[a] = "discard"
    /\ lost' = lost \union {task[a].job}
    /\ Return(a)
    /\ UNCHANGED <<rowVars, tableVars, providerVars, sweepVars, event, current, killed,
                   faults>>

\* settle_new_egress reads the row back.  A tombstone has given its room name
\* up, and a stop without one is signed for the primary project.
SettleNewEgress(a) ==
    LET r == task[a].rec
    IN  /\ pc[a] = "settle"
        /\ IF ProviderShouldRun(state[r])
               THEN Return(a)
               ELSE /\ Enter(a, "stop", [task[a] EXCEPT
                        !.reach = state[r] # "deleted" \/ r \in PrimaryRooms])
                    /\ UNCHANGED answered
        /\ UNCHANGED <<rowVars, tableVars, providerVars, sweepVars, event, current,
                       killed, lost, faults>>

(***************************************************************************)
(* Stopping: stop_recording, with the provider's answer and mark_stopped,  *)
(* which settle_new_egress and stop_orphaned_jobs end in as well.          *)
(***************************************************************************)
\* The row moves first, and only the caller that moved it goes on to the
\* provider, with the egress id it had read before the move.
StopRecording(a) ==
    LET r == task[a].rec
        next == task[a].next
    IN  /\ pc[a] = "move"
        /\ TransitionWithin(r, RowStates, next, task[a].why)
        /\ IF Lands(r, RowStates, next) /\ task[a].job # NoJob
               THEN Goto(a, "stop") /\ UNCHANGED <<task, answered>>
               ELSE Return(a)
        /\ UNCHANGED <<retries, egress, stopped, tableVars, providerVars, sweepVars,
                       event, killed, lost, faults>>

ProviderStops(a) ==
    /\ pc[a] = "stop"
    /\ task[a].reach
    /\ jobs' = [jobs EXCEPT ![task[a].job] = IF @ = "running" THEN "stopping" ELSE @]
    /\ Goto(a, "mark")
    /\ UNCHANGED <<rowVars, tableVars, room, sent, sweepVars, task, event, current,
                   killed, historyVars>>

\* Mutant: stopped_at is written whatever the provider answered.
RefusedStopIsMarked(a) ==
    /\ pc[a] = "stop"
    /\ Goto(a, "mark")
    /\ UNCHANGED <<rowVars, tableVars, providerVars, sweepVars, task, event, current,
                   killed, historyVars>>

ProviderRefusesStop(a) ==
    /\ pc[a] = "stop"
    /\ Return(a)
    /\ UNCHANGED <<rowVars, tableVars, providerVars, sweepVars, event, current, killed,
                   lost, faults>>

\* The provider heard the stop and its answer did not arrive.
StopAnswerLost(a) ==
    /\ pc[a] = "stop"
    /\ task[a].reach
    /\ jobs' = [jobs EXCEPT ![task[a].job] = IF @ = "running" THEN "stopping" ELSE @]
    /\ Return(a)
    /\ UNCHANGED <<rowVars, tableVars, room, sent, sweepVars, event, current, killed,
                   lost, faults>>

WriteStopped(a) ==
    /\ pc[a] = "mark"
    /\ MarkStopped(task[a].rec)
    /\ Return(a)
    /\ UNCHANGED <<state, error, retries, age, egress, tableVars, providerVars,
                   sweepVars, event, current, killed, lost, faults>>

(***************************************************************************)
(* Ending: end_interview_handler, the room_finished webhook, which calls   *)
(* the same finish_recording and may arrive whenever a browser may call    *)
(* /end, and withdraw_consent_handler.                                     *)
(***************************************************************************)
\* finish_recording of an active row; any other is answered as it stands.
EndInterview(h, r) ==
    /\ pc[h] = "idle"
    /\ IsActive(state[r])
    /\ Enter(h, "move", Call(r, egress[r], "finalizing", "none", "idle"))
    /\ UNCHANGED <<rowVars, tableVars, providerVars, sweepVars, event, current,
                   killed, historyVars>>

\* The withdrawal is written before the recording is looked for.
WithdrawConsent(h, r) ==
    /\ pc[h] = "idle"
    /\ withdrawn' = withdrawn \union {r}
    /\ Enter(h, "look", Call(r, NoJob, "failed", "consent_withdrawn", "idle"))
    /\ UNCHANGED <<rowVars, queued, applied, providerVars, sweepVars, event, current,
                   killed, historyVars>>

LookForRecording(h) ==
    LET r == task[h].rec
    IN  /\ pc[h] = "look"
        /\ IF IsActive(state[r])
               THEN /\ Enter(h, "move", [task[h] EXCEPT !.job = egress[r]])
                    /\ UNCHANGED answered
               ELSE Return(h)
        /\ UNCHANGED <<rowVars, tableVars, providerVars, sweepVars, event, current,
                       killed, lost, faults>>

(***************************************************************************)
(* Egress webhooks: recording_webhook_handler.  An event that is sent and   *)
(* not applied may be delivered at any time, in any order and any number   *)
(* of times; one that is applied is answered without being looked at.      *)
(* egress_started asks for "recording", which the write of the id has made *)
(* of a row that was starting, so it is not an action.                     *)
(***************************************************************************)
\* A status of a job whose row is not written down yet is not acknowledged,
\* so nothing happens to it here.  A tombstone's is dropped, and so is one
\* that says nothing new.
TakeEvent(h, e) ==
    /\ pc[h] = "idle"
    /\ e \in sent \ applied
    /\ event' = [event EXCEPT ![h] = e]
    /\ UNCHANGED <<rowVars, tableVars, providerVars, sweepVars, current, killed,
                   historyVars>>

ApplyStatus(h, e, r) ==
    LET outcome == EgressOutcome[e.status]
    IN  /\ egress[r] = e.job
        /\ IF state[r] = "deleted" \/ outcome = NoOutcome
               THEN Goto(h, "ack") /\ UNCHANGED task
               ELSE Enter(h, "status_mark",
                          Call(r, e.job, outcome.next, outcome.why, "ack"))

\* Mutant: a status of a job no row names is acknowledged.
AcknowledgeUnknownToo(h, e) ==
    /\ TakeEvent(h, e)
    /\ \/ \E r \in Recordings : ApplyStatus(h, e, r)
       \/ /\ \A r \in Recordings : egress[r] # e.job
          /\ Goto(h, "ack") /\ UNCHANGED task

ReceiveStatus(h, e) ==
    /\ TakeEvent(h, e)
    /\ \E r \in Recordings : ApplyStatus(h, e, r)

\* apply_egress_status: the job is over, whichever way it ended ...
StatusMarksStopped(h) ==
    /\ pc[h] = "status_mark"
    /\ MarkStopped(task[h].rec)
    /\ Goto(h, "status_move")
    /\ UNCHANGED <<state, error, retries, age, egress, tableVars, providerVars,
                   sweepVars, task, event, current, killed, historyVars>>

\* ... the row moves while the provider still owns it ...
StatusMovesRow(h) ==
    LET r == task[h].rec
        next == task[h].next
    IN  /\ pc[h] = "status_move"
        /\ TransitionWithin(r, ProviderOwned, next, task[h].why)
        /\ IF Lands(r, ProviderOwned, next) /\ next = "transferring"
               THEN Goto(h, "status_queue") /\ UNCHANGED <<task, answered>>
               ELSE Return(h)
        /\ UNCHANGED <<retries, egress, stopped, tableVars, providerVars, sweepVars,
                       event, killed, lost, faults>>

\* ... and a file is queued for delivery, unless the insert fails, which
\* does not fail the webhook.
StatusQueuesDelivery(h) ==
    /\ pc[h] = "status_queue"
    /\ queued' \in {queued, queued \union {task[h].rec}}
    /\ Return(h)
    /\ UNCHANGED <<rowVars, withdrawn, applied, providerVars, sweepVars, event, current,
                   killed, lost, faults>>

\* mark_webhook_applied and the 200 that stops the redelivery.
Acknowledge(h) ==
    /\ pc[h] = "ack"
    /\ applied' = applied \union {event[h]}
    /\ event' = [event EXCEPT ![h] = NoEvent]
    /\ Goto(h, "idle")
    /\ UNCHANGED <<rowVars, withdrawn, queued, providerVars, sweepVars, task, current,
                   killed, historyVars>>

(***************************************************************************)
(* The sweep: sweep_recordings, once at startup and then every minute.     *)
(***************************************************************************)
\* requeue_orphaned_deliveries.
RequeueOrphanedWork(s) ==
    /\ pc[s] = "idle"
    /\ queued' = queued \union {r \in Recordings : state[r] = "transferring"}
    /\ Goto(s, "read")
    /\ UNCHANGED <<rowVars, withdrawn, applied, providerVars, sweepVars, task, event,
                   current, killed, historyVars>>

Row(r) == [rec |-> r, state |-> state[r], error |-> error[r], retries |-> retries[r],
           age |-> age[r], egress |-> egress[r]]

\* stale_active, whose rows this sweep works from until its end.
ReadStale(s) ==
    LET stale == {r \in Recordings : IsStale(r)}
    IN  /\ pc[s] = "read"
        /\ todo' = [todo EXCEPT ![s] = {Row(r) : r \in stale}]
        /\ current' = current \union ({s} \X stale)
        /\ Goto(s, "due")
        /\ UNCHANGED <<rowVars, tableVars, providerVars, due, orphans, task, event,
                       killed, historyVars>>

\* due_for_deletion.
ReadDue(s) ==
    /\ pc[s] = "due"
    /\ due' = [due EXCEPT ![s] = {r \in Recordings : IsDue(r)}]
    /\ Goto(s, IF due'[s] = {} THEN "sweep" ELSE "delete")
    /\ UNCHANGED <<rowVars, tableVars, providerVars, todo, orphans, task, event, current,
                   killed, historyVars>>

DueHandled(s, r) ==
    /\ pc[s] = "delete"
    /\ r \in due[s]
    /\ due' = [due EXCEPT ![s] = @ \ {r}]
    /\ Goto(s, IF due'[s] = {} THEN "sweep" ELSE "delete")
    /\ UNCHANGED <<retries, egress, stopped, tableVars, providerVars, todo, orphans,
                   task, event, killed, historyVars>>

\* delete_recording once every handle is released: the tombstone.
DeleteRecording(s, r) ==
    /\ DueHandled(s, r)
    /\ IF state[r] = "deleted"
           THEN UNCHANGED <<state, age, current>>
           ELSE /\ state' = [state EXCEPT ![r] = "deleted"]
                /\ Touch(r)
    /\ UNCHANGED error

\* delete_recording when a release fails: fail_cleanup.
DeletionFails(s, r) ==
    /\ DueHandled(s, r)
    /\ TransitionWithin(r, RowStates, "cleanup_failed", "cleanup_failed")

\* sweep_stale_recording, one branch each.  taken is the row as it was read.
SweepRow(s, taken) ==
    /\ pc[s] = "sweep"
    /\ taken \in todo[s]
    /\ todo' = [todo EXCEPT ![s] = @ \ {taken}]
    /\ UNCHANGED <<rowVars, tableVars, providerVars, due, orphans, event, current,
                   killed, historyVars>>

NeverStarted(taken) == taken.state = "starting" /\ taken.egress = NoJob

FailStale(s, taken, why) ==
    Enter(s, "move", Call(taken.rec, taken.egress, "failed", why, "sweep"))

SweepKilled(s, taken) ==
    /\ killed
    /\ SweepRow(s, taken)
    /\ FailStale(s, taken, "kill_switch")

SweepRetries(s, taken) ==
    /\ ~killed /\ NeverStarted(taken) /\ RetryIsDue(taken.retries, taken.age)
    /\ SweepRow(s, taken)
    /\ Enter(s, "claim", Call(taken.rec, NoJob, "recording", "none", "sweep"))

SweepGivesUp(s, taken) ==
    /\ ~killed /\ NeverStarted(taken) /\ ~HasRetryLeft(taken.retries)
    /\ SweepRow(s, taken)
    /\ FailStale(s, taken, "provider_start_failed")

\* Neither a start that is due for a retry nor one that is out of them.
WaitsForOthers(taken) ==
    ~NeverStarted(taken) \/ (HasRetryLeft(taken.retries)
                                /\ ~RetryIsDue(taken.retries, taken.age))

SweepWaits(s, taken) ==
    /\ ~killed /\ WaitsForOthers(taken) /\ taken.age < StaleAfter(taken.state)
    /\ SweepRow(s, taken)
    /\ UNCHANGED <<pc, task>>

\* A delivery that already failed keeps its own reason.
SweepAbandons(s, taken) ==
    /\ ~killed /\ WaitsForOthers(taken) /\ taken.age >= StaleAfter(taken.state)
    /\ SweepRow(s, taken)
    /\ FailStale(s, taken, IF taken.error = "drive_failed" THEN "none" ELSE "abandoned")

\* Mutant: claim_retry without its guard on updated_at.
ClaimableByState(s, r) == state[r] = "starting" /\ egress[r] = NoJob

\* claim_retry's WHERE: guarded on the updated_at the sweep read.  No second write
\* can repeat that value, since the row had been untouched for a minute.
Claimable(s, r) == <<s, r>> \in current /\ state[r] = "starting" /\ egress[r] = NoJob

ClaimRetry(s) ==
    LET r == task[s].rec
    IN  /\ pc[s] = "claim"
        /\ IF Claimable(s, r)
               THEN Touch(r) /\ Goto(s, "adopt") /\ UNCHANGED <<task, answered>>
               ELSE Return(s) /\ UNCHANGED <<age, current>>
        /\ UNCHANGED <<state, error, retries, egress, stopped, tableVars, providerVars,
                       sweepVars, event, killed, lost, faults>>

\* The provider is asked for a job of this room before another is started.
ActiveInRoom(r) == {j \in Jobs : room[j] = r /\ jobs[j] \in {"running", "stopping"}}

AdoptFindsJob(s, j) ==
    /\ pc[s] = "adopt"
    /\ j \in ActiveInRoom(task[s].rec)
    /\ Enter(s, "adopted", [task[s] EXCEPT !.job = j])
    /\ UNCHANGED <<rowVars, tableVars, providerVars, sweepVars, event, current, killed,
                   historyVars>>

AdoptFindsNone(s) ==
    /\ pc[s] = "adopt"
    /\ ActiveInRoom(task[s].rec) = {}
    /\ Goto(s, "start")
    /\ UNCHANGED <<rowVars, tableVars, providerVars, sweepVars, task, event, current,
                   killed, historyVars>>

\* Not knowing is not permission to start a second one.
AdoptFails(s) ==
    /\ pc[s] = "adopt"
    /\ Goto(s, "bump")
    /\ UNCHANGED <<rowVars, tableVars, providerVars, sweepVars, task, event, current,
                   killed, historyVars>>

BumpRetry(s) ==
    LET r == task[s].rec
    IN  /\ pc[s] = "bump"
        /\ retries' = [retries EXCEPT ![r] = @ + 1]
        /\ Touch(r)
        /\ Return(s)
        /\ UNCHANGED <<state, error, egress, stopped, tableVars, providerVars, sweepVars,
                       event, killed, lost, faults>>

\* Mutant: unstopped_jobs that only looks at finalizing rows.
ReadFinalizingOrphans(s) ==
    /\ pc[s] = "sweep"
    /\ todo[s] = {}
    /\ orphans' = [orphans EXCEPT ![s] = {<<r, egress[r]>> :
                      r \in {o \in Recordings : IsOrphaned(o) /\ state[o] = "finalizing"}}]
    /\ current' = {p \in current : p[1] # s}
    /\ Goto(s, "orphan")
    /\ UNCHANGED <<rowVars, tableVars, providerVars, todo, due, task, event, killed,
                   historyVars>>

\* stop_orphaned_jobs reads its work once the stale rows are dealt with.
ReadOrphans(s) ==
    /\ pc[s] = "sweep"
    /\ todo[s] = {}
    /\ orphans' = [orphans EXCEPT ![s] =
                      {<<r, egress[r]>> : r \in {o \in Recordings : IsOrphaned(o)}}]
    /\ current' = {p \in current : p[1] # s}
    /\ Goto(s, "orphan")
    /\ UNCHANGED <<rowVars, tableVars, providerVars, todo, due, task, event, killed,
                   historyVars>>

AskOrphan(s, o) ==
    /\ pc[s] = "orphan"
    /\ o \in orphans[s]
    /\ orphans' = [orphans EXCEPT ![s] = @ \ {o}]
    /\ Enter(s, "stop", Call(o[1], o[2], "failed", "none", "orphan"))
    /\ UNCHANGED <<rowVars, tableVars, providerVars, todo, due, event, current, killed,
                   historyVars>>

EndSweep(s) ==
    /\ pc[s] = "orphan"
    /\ orphans[s] = {}
    /\ Goto(s, "idle")
    /\ UNCHANGED <<rowVars, tableVars, providerVars, sweepVars, task, event, current,
                   killed, historyVars>>

(***************************************************************************)
(* The delivery worker and the operator, as this side of the row sees      *)
(* them.                                                                   *)
(***************************************************************************)
\* Its moves of the row, each of which writes updated_at,
WorkerMoves(r) ==
    /\ \/ Deliver(r) \/ DeliveryAttemptFails(r) \/ DeliveryGivesUp(r)
       \/ ReopenDelivery(r)
    /\ Touch(r)
    /\ UNCHANGED <<retries, egress, stopped, withdrawn, applied, providerVars, sweepVars,
                   actorVars, killed, historyVars>>

\* and its release of the queue row, which does not.
WorkerReleases(r) ==
    /\ ReleaseClaim(r)
    /\ UNCHANGED <<retries, age, egress, stopped, withdrawn, applied, providerVars,
                   sweepVars, actorVars, current, killed, historyVars>>

OperatorRetries(r) ==
    /\ MayRetryDelivery /\ MayReopen(r) /\ r \notin queued
    /\ queued' = queued \union {r}
    /\ UNCHANGED <<rowVars, withdrawn, applied, providerVars, sweepVars, actorVars,
                   current, killed, historyVars>>

(***************************************************************************)
(* The provider, the clock, and everything that can go away.               *)
(***************************************************************************)
Send(j, status) ==
    /\ sent' = sent \union {[job |-> j, status |-> status]}
    /\ UNCHANGED <<rowVars, tableVars, room, sweepVars, actorVars, current, killed,
                   historyVars>>

\* A job ends because it was asked to, or on its own.  apply_egress_status
\* expects one that ended to be reported again with another status.
JobEnds(j, status) ==
    /\ status \in JobStatuses \intersect TerminalStatuses
    /\ jobs[j] # "unused"
    /\ jobs' = [jobs EXCEPT ![j] = "ended"]
    /\ Send(j, status)

\* A status update of a job that has not ended.
JobReports(j) ==
    /\ "active" \in JobStatuses
    /\ jobs[j] = "running"
    /\ UNCHANGED jobs
    /\ Send(j, "active")

\* Time passes the next boundary of the schedule.  Only active rows age,
\* because nothing reads the age of another.
Tick ==
    /\ \E r \in Recordings : IsActive(state[r]) /\ age[r] < RecordingStaleAge
    /\ age' = [r \in Recordings |->
                  IF IsActive(state[r]) /\ age[r] < RecordingStaleAge
                      THEN age[r] + 1 ELSE age[r]]
    /\ UNCHANGED <<state, error, retries, egress, stopped, tableVars, providerVars,
                   sweepVars, actorVars, current, killed, historyVars>>

Holds(a) == IF pc[a] \in {"record", "discard"} THEN {task[a].job} ELSE {}

\* The actors in gone drop what they were doing: a request whose client went
\* away, or a process that died and starts over.
Drop(gone) ==
    /\ pc' = [a \in Actors |-> IF a \in gone THEN "idle" ELSE pc[a]]
    /\ task' = [a \in Actors |-> IF a \in gone THEN NoTask ELSE task[a]]
    /\ event' = [h \in Handlers |-> IF h \in gone THEN NoEvent ELSE event[h]]
    /\ todo' = [s \in Sweepers |-> IF s \in gone THEN {} ELSE todo[s]]
    /\ due' = [s \in Sweepers |-> IF s \in gone THEN {} ELSE due[s]]
    /\ orphans' = [s \in Sweepers |-> IF s \in gone THEN {} ELSE orphans[s]]
    /\ current' = {p \in current : p[1] \notin gone}
    /\ lost' = lost \union UNION {Holds(a) : a \in gone}
    /\ UNCHANGED <<rowVars, tableVars, providerVars, answered>>

Crash(a) ==
    /\ pc[a] # "idle"
    /\ faults < MaxFaults
    /\ faults' = faults + 1
    /\ Drop({a})
    /\ UNCHANGED killed

\* The switch is read from the configuration at startup, so throwing it
\* restarts the service.
ThrowKillSwitch ==
    /\ MayKill /\ ~killed
    /\ killed' = TRUE
    /\ Drop(Actors)
    /\ UNCHANGED faults

(***************************************************************************)
(* The specification.                                                      *)
(***************************************************************************)
\* What a handler or a sweeper may do next inside a call they share.
CallStep(a) ==
    \/ \E j \in Jobs : ProviderStarts(a, j) \/ StartAnswerLost(a, j)
    \/ ProviderRefusesStart(a)
    \/ RecordEgressId(a) \/ RecordEgressIdFails(a)
    \/ DiscardAgreed(a) \/ DiscardRefused(a)
    \/ SettleNewEgress(a)
    \/ StopRecording(a)
    \/ ProviderStops(a) \/ ProviderRefusesStop(a) \/ StopAnswerLost(a)
    \/ WriteStopped(a)

\* A request arrives.
Arrive(h) ==
    \/ \E r \in Recordings :
        BeginRecording(h, r) \/ EndInterview(h, r) \/ WithdrawConsent(h, r)
    \/ \E e \in sent : ReceiveStatus(h, e)

\* A request in flight goes on.
HandlerStep(h) ==
    \/ CallStep(h)
    \/ LookForRecording(h)
    \/ StatusMarksStopped(h) \/ StatusMovesRow(h) \/ StatusQueuesDelivery(h)
    \/ Acknowledge(h)

SweeperStep(s) ==
    \/ CallStep(s)
    \/ RequeueOrphanedWork(s) \/ ReadStale(s) \/ ReadDue(s)
    \/ \E r \in Recordings : DeleteRecording(s, r) \/ DeletionFails(s, r)
    \/ \E taken \in todo[s] :
        \/ SweepKilled(s, taken) \/ SweepRetries(s, taken) \/ SweepGivesUp(s, taken)
        \/ SweepWaits(s, taken) \/ SweepAbandons(s, taken)
    \/ ClaimRetry(s)
    \/ \E j \in Jobs : AdoptFindsJob(s, j)
    \/ AdoptFindsNone(s) \/ AdoptFails(s)
    \/ BumpRetry(s)
    \/ ReadOrphans(s)
    \/ \E o \in orphans[s] : AskOrphan(s, o)
    \/ EndSweep(s)

DeliveryStep ==
    \E r \in Recordings :
        WorkerMoves(r) \/ WorkerReleases(r) \/ OperatorRetries(r)

ProviderStep ==
    \E j \in Jobs : JobReports(j) \/ \E status \in Statuses : JobEnds(j, status)

Next ==
    \/ \E h \in Handlers : Arrive(h) \/ HandlerStep(h)
    \/ \E s \in Sweepers : SweeperStep(s)
    \/ DeliveryStep
    \/ ProviderStep
    \/ Tick
    \/ \E a \in Actors : Crash(a)
    \/ ThrowKillSwitch

\* The runtime polls a future that can go on, the sweep loop never ends, and
\* time passes.  Nothing is assumed of requests, webhooks, the delivery
\* worker, the operator, or of which answer the provider gives.
Fairness ==
    /\ \A h \in Handlers : WF_vars(HandlerStep(h))
    /\ \A s \in Sweepers : WF_vars(SweeperStep(s))
    /\ WF_vars(Tick)

Spec == Init /\ [][Next]_vars
FairSpec == Spec /\ Fairness

(***************************************************************************)
(* Safety.                                                                 *)
(***************************************************************************)
Over(j) == jobs[j] \in {"stopping", "ended"}

\* A row's stopped_at is only ever set when the job the row names has agreed
\* to end or has ended.  The orphan sweep stops asking about a row once
\* stopped_at is set, and retention starts to delete its media, so a wrong
\* stopped_at is a job that records on with nobody left to stop it.
StoppedMeansOver == \A r \in stopped : egress[r] # NoJob /\ Over(egress[r])

\* A job that runs is one that a row names, that an actor holds the id of and
\* is about to write down or stop, or whose id was lost on the way - with an
\* answer, with the actor that had it, or with a refused stop of a job no row
\* took.  No interleaving of first attempts, retries and stops makes another.
NoUnnamedJob ==
    \A j \in Jobs : jobs[j] = "running" =>
        \/ j \in lost
        \/ egress[room[j]] = j
        \/ \E a \in Actors : j \in Holds(a)

\* Once a withdrawal is answered, the recording has left every state in which
\* the provider may still be recording it or owe it a file, and it never
\* comes back to one: not through a start that was in flight, a retry that
\* was claimed, or a webhook that is late.
WithdrawalSticks == \A r \in answered : state[r] \notin ProviderOwned

\* An acknowledged status is never sent again, so it must have had its
\* effect: the row is marked stopped and no longer waits for the provider.
AppliedStatusTookEffect ==
    \A e \in applied :
        e.status \in TerminalStatuses =>
            \E r \in Recordings :
                /\ egress[r] = e.job
                /\ state[r] \notin ProviderOwned
                /\ r \in stopped \/ state[r] = "deleted"

\* However many sweepers run, a retry is only taken from a row that has
\* waited for it: the delay of the retries the row has now, counted from the
\* last time anybody touched it.
RetriesKeepTheirSchedule ==
    [][\A s \in Sweepers :
        pc[s] = "claim" /\ pc'[s] = "adopt"
            => RetryIsDue(retries[task[s].rec], age[task[s].rec])]_vars

\* Every step of every actor is one the abstract specification of a
\* recording allows.
Lifecycle == INSTANCE RecordingLifecycle WITH phase <- state
RefinesLifecycle == Lifecycle!Spec

\* What this side does to the rows it shares with the delivery queue is what
\* the contract says it may do: among the rest, no late event of a job fails a
\* recording whose file was handed over after the event's row was read.
Contract == INSTANCE DeliveryContract
KeepsContract == Contract!Spec

(***************************************************************************)
(* Liveness.                                                               *)
(***************************************************************************)
\* No recording sits in an active state for ever: whatever was lost on the
\* way, the sweep ends it or the delivery queue has it.
NoRowSitsForever ==
    \A r \in Recordings :
        IsActive(state[r]) ~> (~IsActive(state[r]) \/ r \in queued)

\* A job that a finished row names, and that has not agreed to end, is asked
\* again to stop by some sweep until it does or the row is gone.
OrphansAreAsked ==
    \A r \in Recordings :
        IsOrphaned(r) ~>
            \/ ~IsOrphaned(r)
            \/ \E s \in Sweepers : pc[s] = "stop" /\ task[s].job = egress[r]

\* The kill switch ends every recording that runs when it is thrown.
KillSwitchEnds ==
    \A r \in Recordings : (killed /\ IsActive(state[r])) ~> ~IsActive(state[r])

(***************************************************************************)
(* What comments of the code say and the code does not do.                 *)
(***************************************************************************)
\* A tombstone means that there is nothing left to stop: the job of a deleted
\* row does not run, except while the call that is about to stop it is under
\* way (unstopped_jobs).
NothingLeftToStop ==
    \A r \in Recordings :
        state[r] = "deleted" /\ egress[r] # NoJob /\ jobs[egress[r]] = "running"
            => \E a \in Actors : pc[a] \in {"settle", "stop"} /\ task[a].rec = r

\* Without the kill switch, the stale sweep does not fail a recording the
\* delivery queue still owes work on (stale_active).
SweepSparesQueued ==
    [][\A s \in Sweepers : \A r \in Recordings :
        pc[s] = "move" /\ pc'[s] # "move" /\ task[s].rec = r /\ ~killed /\ ~killed'
            => ~(r \in queued /\ state[r] = "transferring" /\ state'[r] = "failed")]_vars
=============================================================================
