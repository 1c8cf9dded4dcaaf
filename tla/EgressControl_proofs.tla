------------------------ MODULE EgressControl_proofs ------------------------
(***************************************************************************)
(* What holds of EgressControl for every set of recordings, jobs, handlers *)
(* and sweepers, every schedule and every number of faults.                *)
(***************************************************************************)
EXTENDS EgressControl, TLAPS

(***************************************************************************)
(* Type correctness.  Where a call returns to is part of its locals, so    *)
(* TypeOK is inductive only with what the locals are at each label.        *)
(***************************************************************************)
\* The labels at which an actor is inside a call.
CallLabels ==
    {"start", "record", "settle", "stop", "mark", "discard", "look", "move",
     "status_mark", "status_move", "status_queue", "claim", "adopt", "adopted", "bump"}

\* Where a call of this actor may return to.
Backs(a) == IF a \in Handlers THEN {"idle", "ack"} ELSE {"sweep", "orphan"}

CallsAreTyped ==
    \A a \in Actors : pc[a] \in CallLabels => task[a] \in Task /\ task[a].back \in Backs(a)

\* The labels at which the call is about a job that exists.
JobLabels == {"record", "adopted", "discard", "settle", "stop", "mark"}

JobsAreHeld ==
    \A a \in Actors : pc[a] \in JobLabels => task[a].job \in Jobs

\* A handler that will acknowledge knows what.
EventsAreHeld ==
    \A h \in Handlers :
        \/ pc[h] = "ack"
        \/ pc[h] \in CallLabels /\ task[h].back = "ack"
        => event[h] \in Event

ActorInv == TypeOfActors /\ CallsAreTyped /\ JobsAreHeld /\ EventsAreHeld

TypeInv == TypeOK /\ ActorInv

\* The locals an actor starts a call with are well typed.
LEMMA CallIsTask ==
    ASSUME NEW r \in Recordings, NEW j \in MaybeJob, NEW next \in States,
           NEW why \in Errors, NEW back \in {"idle", "ack", "sweep", "orphan"}
    PROVE  /\ Call(r, j, next, why, back) \in Task
           /\ Call(r, j, next, why, back).back = back
           /\ Call(r, j, next, why, back).job = j
BY DEF Call, Task

\* A status either says nothing new or asks for a state with a reason.
LEMMA OutcomeType ==
    ASSUME NEW status \in Statuses
    PROVE  EgressOutcome[status] \in [next : States, why : Errors]
BY DEF EgressOutcome, Statuses, TerminalStatuses, NoOutcome, States, RowStates,
       ActiveStates, Errors, Failures, ProviderFailures

\* A failure column that coalesces a new reason stays a failure column.
LEMMA CoalesceType ==
    ASSUME NEW new \in Errors, NEW old \in Errors
    PROVE  Coalesce(new, old) \in Errors
BY DEF Coalesce

\* The empty database and idle actors satisfy the invariant.
LEMMA TypeInvInit == Init => TypeInv
<1> SUFFICES ASSUME Init PROVE TypeInv
  OBVIOUS
<1>1. TypeOfRows
  BY RecordingStaleAgeAssumption
     DEF Init, TypeOfRows, States, Errors, Ages, MaybeJob
<1>2. TypeOfProvider
  BY DEF Init, TypeOfProvider
<1>3. TypeOfActors
  BY DEF Init, TypeOfActors, HandlerLabels, SweeperLabels, Actors
<1>4. TypeOfSweeps
  BY DEF Init, TypeOfSweeps
<1>5. TypeOfHistory
  BY DEF Init, TypeOfHistory
<1>6. CallsAreTyped /\ JobsAreHeld /\ EventsAreHeld
  BY DEF Init, CallsAreTyped, JobsAreHeld, EventsAreHeld, CallLabels, JobLabels, Actors
<1> QED
  BY <1>1, <1>2, <1>3, <1>4, <1>5, <1>6 DEF TypeInv, TypeOK, ActorInv


\* An actor that moves to a label with the locals the label needs leaves the
\* others as they were.
LEMMA ActorMoves ==
    ASSUME ActorInv,
           NEW a \in Actors,
           NEW p, p \in IF a \in Handlers THEN HandlerLabels ELSE SweeperLabels,
           NEW t \in Task \union {NoTask},
           pc' = [pc EXCEPT ![a] = p],
           task' = [task EXCEPT ![a] = t],
           UNCHANGED event,
           p \in CallLabels => t \in Task /\ t.back \in Backs(a),
           p \in JobLabels => t.job \in Jobs,
           a \in Handlers /\ (p = "ack" \/ (p \in CallLabels /\ t.back = "ack"))
               => event[a] \in Event
    PROVE  ActorInv'
<1> USE DEF ActorInv
<1>1. /\ pc \in [Actors -> HandlerLabels \union SweeperLabels]
      /\ task \in [Actors -> Task \union {NoTask}]
  BY DEF TypeOfActors
<1>2. TypeOfActors'
  BY <1>1, ActorsAssumption DEF TypeOfActors, Actors
<1>3. CallsAreTyped'
  BY <1>1 DEF CallsAreTyped
<1>4. JobsAreHeld'
  BY <1>1 DEF JobsAreHeld
<1>5. EventsAreHeld'
  BY <1>1 DEF EventsAreHeld, Actors
<1> QED
  BY <1>2, <1>3, <1>4, <1>5

\* A step in which no actor moves keeps what the labels say of the locals.
LEMMA ActorsStay ==
    ASSUME ActorInv, UNCHANGED actorVars
    PROVE  ActorInv'
BY DEF ActorInv, actorVars, TypeOfActors, CallsAreTyped, JobsAreHeld, EventsAreHeld

\* A call goes on with the locals it has.
LEMMA CallGoesOn ==
    ASSUME ActorInv,
           NEW a \in Actors, pc[a] \in CallLabels,
           NEW p \in CallLabels,
           p \in IF a \in Handlers THEN HandlerLabels ELSE SweeperLabels,
           p \in JobLabels => pc[a] \in JobLabels \/ task[a].job \in Jobs,
           Goto(a, p),
           UNCHANGED <<task, event>>
    PROVE  ActorInv'
<1>1. task[a] \in Task /\ task' = [task EXCEPT ![a] = task[a]]
  BY DEF ActorInv, CallsAreTyped, TypeOfActors
<1>2. p \in JobLabels => task[a].job \in Jobs
  BY DEF ActorInv, JobsAreHeld
<1>3. task[a].back \in Backs(a)
  BY DEF ActorInv, CallsAreTyped
<1>4. a \in Handlers /\ (p = "ack" \/ (p \in CallLabels /\ task[a].back = "ack"))
          => event[a] \in Event
  BY DEF ActorInv, EventsAreHeld, CallLabels
<1> QED
  BY <1>1, <1>2, <1>3, <1>4, ActorMoves DEF Goto

\* A call returns to where its caller waits, and a withdrawal is answered.
LEMMA CallReturns ==
    ASSUME ActorInv, answered \subseteq Recordings,
           NEW a \in Actors, pc[a] \in CallLabels,
           Return(a),
           UNCHANGED event
    PROVE  ActorInv' /\ answered' \subseteq Recordings
<1>1. task[a] \in Task /\ task[a].back \in Backs(a)
  BY DEF ActorInv, CallsAreTyped
<1>2. task[a].back \in IF a \in Handlers THEN HandlerLabels ELSE SweeperLabels
  BY <1>1 DEF Backs, HandlerLabels, SweeperLabels
<1>3. task[a].back \notin CallLabels /\ task[a].back \notin JobLabels
  BY <1>1 DEF Backs, CallLabels, JobLabels
<1>4. a \in Handlers /\ task[a].back = "ack" => event[a] \in Event
  BY DEF ActorInv, EventsAreHeld
<1>5. ActorInv'
  BY <1>2, <1>3, <1>4, ActorMoves DEF Return, Leave, Goto
<1>6. answered' \subseteq Recordings
  BY <1>1 DEF Return, Leave, Task
<1> QED
  BY <1>5, <1>6

\* The writes keep the columns they touch within their types.
LEMMA TouchType ==
    ASSUME TypeOK, NEW r \in Recordings, Touch(r)
    PROVE  /\ age' \in [Recordings -> Ages]
           /\ current' \subseteq Sweepers \X Recordings
BY RecordingStaleAgeAssumption DEF Touch, TypeOK, TypeOfRows, TypeOfSweeps, Ages

LEMMA TransitionType ==
    ASSUME TypeOK, NEW r \in Recordings, NEW onlyFrom, NEW next \in States,
    NEW why \in Errors,
           TransitionWithin(r, onlyFrom, next, why)
    PROVE  /\ state' \in [Recordings -> States]
           /\ error' \in [Recordings -> Errors]
           /\ age' \in [Recordings -> Ages]
           /\ current' \subseteq Sweepers \X Recordings
<1>1. CASE Lands(r, onlyFrom, next)
  BY <1>1, TouchType, CoalesceType DEF TransitionWithin, TypeOK, TypeOfRows
<1>2. CASE ~Lands(r, onlyFrom, next)
  BY <1>2 DEF TransitionWithin, TypeOK, TypeOfRows, TypeOfSweeps
<1> QED
  BY <1>1, <1>2

\* The parts of TypeOK that are not about where the actors are.
TypeOfRest == TypeOfRows /\ TypeOfProvider /\ TypeOfSweeps /\ TypeOfHistory

\* A step that leaves the rows, the provider and what sweepers read alone.
LEMMA RestStays ==
    ASSUME TypeInv,
           UNCHANGED <<rowVars, tableVars, providerVars, sweepVars, current, killed,
           faults>>,
           lost' \subseteq Jobs, answered' \subseteq Recordings
    PROVE  TypeOfRest'
BY DEF TypeInv, TypeOK, TypeOfRest, TypeOfRows, TypeOfProvider, TypeOfSweeps, TypeOfHistory,
       rowVars, tableVars, providerVars, sweepVars

\* Every step inside a call that handlers and sweepers share, from the start of
\* a job to the write of stopped_at, keeps the types.
LEMMA CallStepType ==
    ASSUME TypeInv, NEW a \in Actors, CallStep(a)
    PROVE  TypeInv'
<1> USE DEF TypeInv, TypeOK, TypeOfRest, rowVars, tableVars, providerVars, sweepVars,
            historyVars
<1>0. pc[a] \in CallLabels => task[a] \in Task
  BY DEF ActorInv, CallsAreTyped
<1>a. SUFFICES TypeOfRest' /\ ActorInv'
  BY DEF TypeOK, TypeOfRest, ActorInv
<1>1. ASSUME NEW j \in Jobs, ProviderStarts(a, j) PROVE TypeOfRest' /\ ActorInv'
  <2>1. TypeOfRest'
    BY <1>1, <1>0
       DEF ProviderStarts, CallLabels, Task, TypeOfRows, TypeOfProvider, TypeOfSweeps,
           TypeOfHistory
  <2>2. ActorInv'
    <3>1. pc[a] \in CallLabels /\ task[a] \in Task /\ task[a].back \in Backs(a)
      BY <1>1 DEF ProviderStarts, CallLabels, ActorInv, CallsAreTyped
    <3>2. [task[a] EXCEPT !.job = j] \in Task
      BY <3>1 DEF Task, MaybeJob
    <3>3. a \in Handlers /\ task[a].back = "ack" => event[a] \in Event
      BY <3>1 DEF ActorInv, EventsAreHeld
    <3> QED
      BY <1>1, <3>1, <3>2, <3>3, ActorMoves
         DEF ProviderStarts, Enter, Goto, HandlerLabels, SweeperLabels, Task
  <2> QED
    BY <2>1, <2>2
<1>2. ASSUME ProviderRefusesStart(a) PROVE TypeOfRest' /\ ActorInv'
  <2>1. pc[a] \in CallLabels /\ answered \subseteq Recordings
    BY <1>2 DEF ProviderRefusesStart, CallLabels, TypeOfHistory
  <2>2. ActorInv' /\ answered' \subseteq Recordings
    <3>1. CASE Return(a)
      BY <1>2, <2>1, <3>1, CallReturns DEF ProviderRefusesStart
    <3>2. CASE ~Return(a)
      BY <1>2, <2>1, <3>2, CallGoesOn, ActorsAssumption
         DEF ProviderRefusesStart, StartFailed, CallLabels, JobLabels, HandlerLabels,
             SweeperLabels, Actors
    <3> QED
      BY <3>1, <3>2
  <2>3. TypeOfRest'
    BY <1>2, <1>0, <2>1, <2>2
       DEF ProviderRefusesStart, TypeOfRows, TypeOfProvider, TypeOfSweeps, TypeOfHistory
  <2> QED
    BY <2>2, <2>3
<1>3. ASSUME NEW j \in Jobs, StartAnswerLost(a, j) PROVE TypeOfRest' /\ ActorInv'
  <2>1. pc[a] \in CallLabels /\ answered \subseteq Recordings
    BY <1>3 DEF StartAnswerLost, CallLabels, TypeOfHistory
  <2>2. ActorInv' /\ answered' \subseteq Recordings
    <3>1. CASE Return(a)
      BY <1>3, <2>1, <3>1, CallReturns DEF StartAnswerLost
    <3>2. CASE ~Return(a)
      BY <1>3, <2>1, <3>2, CallGoesOn, ActorsAssumption
         DEF StartAnswerLost, StartFailed, CallLabels, JobLabels, HandlerLabels,
             SweeperLabels, Actors
    <3> QED
      BY <3>1, <3>2
  <2>3. TypeOfRest'
    BY <1>3, <1>0, <2>1, <2>2
       DEF StartAnswerLost, Task, TypeOfRows, TypeOfProvider, TypeOfSweeps, TypeOfHistory
  <2> QED
    BY <2>2, <2>3
<1>4. ASSUME RecordEgressId(a) PROVE TypeOfRest' /\ ActorInv'
  <2>1. pc[a] \in CallLabels /\ answered \subseteq Recordings
    BY <1>4 DEF RecordEgressId, CallLabels, TypeOfHistory
  <2>2. ActorInv' /\ answered' \subseteq Recordings
    <3>1. CASE Return(a)
      BY <1>4, <2>1, <3>1, CallReturns DEF RecordEgressId, Unnamed
    <3>2. CASE ~Return(a)
      BY <1>4, <2>1, <3>2, CallGoesOn, ActorsAssumption
         DEF RecordEgressId, Unnamed, NotStored, CallLabels, JobLabels, HandlerLabels,
             SweeperLabels, Actors
    <3> QED
      BY <3>1, <3>2
  <2>3. TypeOfRest'
    BY <1>4, <1>0, <2>1, <2>2, TouchType
       DEF RecordEgressId, Unnamed, OnceNamed, Task, MaybeJob, JobLabels, CallLabels,
           ActorInv, JobsAreHeld,
           States, RowStates, ActiveStates, TypeOfRows, TypeOfProvider, TypeOfSweeps,
           TypeOfHistory
  <2> QED
    BY <2>2, <2>3
<1>5. ASSUME RecordEgressIdFails(a) PROVE TypeOfRest' /\ ActorInv'
  <2>1. pc[a] \in CallLabels /\ answered \subseteq Recordings
    BY <1>5 DEF RecordEgressIdFails, CallLabels, TypeOfHistory
  <2>2. ActorInv' /\ answered' \subseteq Recordings
    <3>1. CASE Return(a)
      BY <1>5, <2>1, <3>1, CallReturns DEF RecordEgressIdFails
    <3>2. CASE ~Return(a)
      BY <1>5, <2>1, <3>2, CallGoesOn, ActorsAssumption
         DEF RecordEgressIdFails, NotStored, CallLabels, JobLabels, HandlerLabels,
             SweeperLabels, Actors
    <3> QED
      BY <3>1, <3>2
  <2>3. TypeOfRest'
    BY <1>5, <1>0, <2>1, <2>2
       DEF RecordEgressIdFails, TypeOfRows, TypeOfProvider, TypeOfSweeps, TypeOfHistory
  <2> QED
    BY <2>2, <2>3
<1>6. ASSUME DiscardAgreed(a) PROVE TypeOfRest' /\ ActorInv'
  <2>1. pc[a] \in CallLabels /\ answered \subseteq Recordings
    BY <1>6 DEF DiscardAgreed, CallLabels, TypeOfHistory
  <2>2. ActorInv' /\ answered' \subseteq Recordings
    BY <1>6, <2>1, CallReturns DEF DiscardAgreed
  <2>3. TypeOfRest'
    BY <1>6, <1>0, <2>1, <2>2
       DEF DiscardAgreed, JobLabels, ActorInv, JobsAreHeld, TypeOfRows, TypeOfProvider,
           TypeOfSweeps, TypeOfHistory
  <2> QED
    BY <2>2, <2>3
<1>7. ASSUME DiscardRefused(a) PROVE TypeOfRest' /\ ActorInv'
  <2>1. pc[a] \in CallLabels /\ answered \subseteq Recordings
    BY <1>7 DEF DiscardRefused, CallLabels, TypeOfHistory
  <2>2. ActorInv' /\ answered' \subseteq Recordings
    BY <1>7, <2>1, CallReturns DEF DiscardRefused
  <2>3. TypeOfRest'
    BY <1>7, <1>0, <2>1, <2>2
       DEF DiscardRefused, JobLabels, ActorInv, JobsAreHeld, TypeOfRows, TypeOfProvider,
           TypeOfSweeps, TypeOfHistory
  <2> QED
    BY <2>2, <2>3
<1>8. ASSUME SettleNewEgress(a) PROVE TypeOfRest' /\ ActorInv'
  <2>1. pc[a] \in CallLabels /\ answered \subseteq Recordings
    BY <1>8 DEF SettleNewEgress, CallLabels, TypeOfHistory
  <2>2. ActorInv' /\ answered' \subseteq Recordings
    <3>1. CASE Return(a)
      BY <1>8, <2>1, <3>1, CallReturns DEF SettleNewEgress
    <3>2. CASE ~Return(a)
      <4> DEFINE t == [task[a] EXCEPT !.reach = state[task[a].rec] # "deleted"
                                                    \/ task[a].rec \in PrimaryRooms]
      <4>1. Enter(a, "stop", t) /\ UNCHANGED <<answered, event>>
        BY <1>8, <3>2 DEF SettleNewEgress
      <4>2. t \in Task /\ t.back = task[a].back /\ t.job = task[a].job
        BY <1>0, <2>1 DEF Task
      <4>3. task[a].back \in Backs(a) /\ task[a].job \in Jobs
        BY <1>8, <2>1 DEF SettleNewEgress, JobLabels, ActorInv, JobsAreHeld, CallsAreTyped
      <4>4. a \in Handlers /\ task[a].back = "ack" => event[a] \in Event
        BY <2>1 DEF ActorInv, EventsAreHeld
      <4> HIDE DEF t
      <4> QED
        BY <2>1, <4>1, <4>2, <4>3, <4>4, ActorMoves
           DEF Enter, Goto, HandlerLabels, SweeperLabels
    <3> QED
      BY <3>1, <3>2
  <2>3. TypeOfRest'
    BY <1>8, <2>2, RestStays DEF SettleNewEgress, TypeOfHistory
  <2> QED
    BY <2>2, <2>3
<1>9. ASSUME StopRecording(a) PROVE TypeOfRest' /\ ActorInv'
  <2>1. pc[a] \in CallLabels /\ answered \subseteq Recordings
    BY <1>9 DEF StopRecording, CallLabels, TypeOfHistory
  <2>2. ActorInv' /\ answered' \subseteq Recordings
    <3>1. CASE Return(a)
      BY <1>9, <2>1, <3>1, CallReturns DEF StopRecording
    <3>2. CASE ~Return(a)
      BY <1>9, <1>0, <2>1, <3>2, CallGoesOn, ActorsAssumption
         DEF StopRecording, Task, MaybeJob, CallLabels, JobLabels, HandlerLabels,
             SweeperLabels, Actors
    <3> QED
      BY <3>1, <3>2
  <2>3. TypeOfRest'
    BY <1>9, <1>0, <2>1, <2>2, TransitionType
       DEF StopRecording, Task, TypeOfRows, TypeOfProvider, TypeOfSweeps, TypeOfHistory
  <2> QED
    BY <2>2, <2>3
<1>10. ASSUME ProviderStops(a) PROVE TypeOfRest' /\ ActorInv'
  <2>1. ActorInv'
    BY <1>10, CallGoesOn
       DEF ProviderStops, CallLabels, JobLabels, HandlerLabels, SweeperLabels
  <2>2. TypeOfRest'
    BY <1>10 DEF ProviderStops, TypeOfRows, TypeOfProvider, TypeOfSweeps, TypeOfHistory
  <2> QED
    BY <2>1, <2>2
<1>11. ASSUME ProviderRefusesStop(a) PROVE TypeOfRest' /\ ActorInv'
  <2>1. pc[a] \in CallLabels /\ answered \subseteq Recordings
    BY <1>11 DEF ProviderRefusesStop, CallLabels, TypeOfHistory
  <2>2. ActorInv' /\ answered' \subseteq Recordings
    BY <1>11, <2>1, CallReturns DEF ProviderRefusesStop
  <2>3. TypeOfRest'
    BY <1>11, <1>0, <2>1, <2>2
       DEF ProviderRefusesStop, TypeOfRows, TypeOfProvider, TypeOfSweeps, TypeOfHistory
  <2> QED
    BY <2>2, <2>3
<1>12. ASSUME StopAnswerLost(a) PROVE TypeOfRest' /\ ActorInv'
  <2>1. pc[a] \in CallLabels /\ answered \subseteq Recordings
    BY <1>12 DEF StopAnswerLost, CallLabels, TypeOfHistory
  <2>2. ActorInv' /\ answered' \subseteq Recordings
    BY <1>12, <2>1, CallReturns DEF StopAnswerLost
  <2>3. TypeOfRest'
    BY <1>12, <1>0, <2>1, <2>2
       DEF StopAnswerLost, TypeOfRows, TypeOfProvider, TypeOfSweeps, TypeOfHistory
  <2> QED
    BY <2>2, <2>3
<1>13. ASSUME WriteStopped(a) PROVE TypeOfRest' /\ ActorInv'
  <2>1. pc[a] \in CallLabels /\ answered \subseteq Recordings
    BY <1>13 DEF WriteStopped, CallLabels, TypeOfHistory
  <2>2. ActorInv' /\ answered' \subseteq Recordings
    BY <1>13, <2>1, CallReturns DEF WriteStopped
  <2>3. TypeOfRest'
    BY <1>13, <1>0, <2>1, <2>2
       DEF WriteStopped, MarkStopped, Task, CallLabels, TypeOfRows, TypeOfProvider,
           TypeOfSweeps, TypeOfHistory
  <2> QED
    BY <2>2, <2>3
<1> QED
  BY <1>0, <1>1, <1>2, <1>3, <1>4, <1>5, <1>6, <1>7, <1>8, <1>9, <1>10, <1>11, <1>12,
     <1>13 DEF CallStep

\* So does the arrival of a request or of a webhook,
LEMMA ArriveType ==
    ASSUME TypeInv, NEW h \in Handlers, Arrive(h)
    PROVE  TypeInv'
<1> USE DEF TypeInv, TypeOK, TypeOfRest, rowVars, tableVars, providerVars, sweepVars,
            historyVars
<1>1. ASSUME NEW r \in Recordings, BeginRecording(h, r) PROVE TypeOfRest' /\ ActorInv'
  <2> DEFINE t == Call(r, NoJob, "recording", "none", "idle")
  <2>1. t \in Task /\ t.back = "idle"
    BY DEF Call, Task, States, RowStates, ActiveStates, Errors, Failures, MaybeJob,
           TypeOK, TypeOfRows
  <2> HIDE DEF t
  <2>2. pc' = [pc EXCEPT ![h] = "start"] /\ task' = [task EXCEPT ![h] = t] /\ UNCHANGED event
    BY <1>1 DEF BeginRecording, Enter, Goto, actorVars, t
  <2>3. ActorInv'
    BY <2>1, <2>2, ActorMoves DEF Actors, HandlerLabels, CallLabels, JobLabels, Backs
  <2>4. TypeOfRest'
    BY <1>1, TouchType
       DEF BeginRecording, States, RowStates, ActiveStates, TypeOfRows, TypeOfProvider,
           TypeOfSweeps, TypeOfHistory
  <2> QED
    BY <2>3, <2>4
<1>2. ASSUME NEW r \in Recordings, EndInterview(h, r) PROVE TypeOfRest' /\ ActorInv'
  <2> DEFINE t == Call(r, egress[r], "finalizing", "none", "idle")
  <2>1. t \in Task /\ t.back = "idle"
    BY DEF Call, Task, States, RowStates, ActiveStates, Errors, Failures, MaybeJob,
           TypeOK, TypeOfRows
  <2> HIDE DEF t
  <2>2. pc' = [pc EXCEPT ![h] = "move"] /\ task' = [task EXCEPT ![h] = t] /\ UNCHANGED event
    BY <1>2 DEF EndInterview, Enter, Goto, actorVars, t
  <2>3. ActorInv'
    BY <2>1, <2>2, ActorMoves DEF Actors, HandlerLabels, CallLabels, JobLabels, Backs
  <2>4. TypeOfRest'
    BY <1>2, RestStays
       DEF EndInterview, TypeOfRows, TypeOfProvider, TypeOfSweeps, TypeOfHistory
  <2> QED
    BY <2>3, <2>4
<1>3. ASSUME NEW r \in Recordings, WithdrawConsent(h, r) PROVE TypeOfRest' /\ ActorInv'
  <2> DEFINE t == Call(r, NoJob, "failed", "consent_withdrawn", "idle")
  <2>1. t \in Task /\ t.back = "idle"
    BY DEF Call, Task, States, RowStates, ActiveStates, Errors, Failures, MaybeJob,
           TypeOK, TypeOfRows
  <2> HIDE DEF t
  <2>2. pc' = [pc EXCEPT ![h] = "look"] /\ task' = [task EXCEPT ![h] = t] /\ UNCHANGED event
    BY <1>3 DEF WithdrawConsent, Enter, Goto, actorVars, t
  <2>3. ActorInv'
    BY <2>1, <2>2, ActorMoves DEF Actors, HandlerLabels, CallLabels, JobLabels, Backs
  <2>4. TypeOfRest'
    BY <1>3 DEF WithdrawConsent, TypeOfRows, TypeOfProvider, TypeOfSweeps, TypeOfHistory
  <2> QED
    BY <2>3, <2>4
<1>4. ASSUME NEW e \in sent, ReceiveStatus(h, e) PROVE TypeOfRest' /\ ActorInv'
  <2>1. PICK r \in Recordings : ApplyStatus(h, e, r)
    BY <1>4 DEF ReceiveStatus
  <2>2. e \in Event /\ EgressOutcome[e.status] \in [next : States, why : Errors]
    BY OutcomeType DEF TypeOK, TypeOfProvider, Event
  <2> DEFINE outcome == EgressOutcome[e.status]
             t == Call(r, e.job, outcome.next, outcome.why, "ack")
  <2>3. t \in Task /\ t.back = "ack"
    BY <2>2, CallIsTask DEF Event, MaybeJob
  <2>4. event' = [event EXCEPT ![h] = e] /\ pc[h] = "idle"
    BY <1>4 DEF ReceiveStatus, TakeEvent
  <2>5. \/ Goto(h, "ack") /\ UNCHANGED task
        \/ Enter(h, "status_mark", t)
    BY <2>1 DEF ApplyStatus
  <2> HIDE DEF t, outcome
  <2>6. TypeOfActors'
    BY <2>2, <2>3, <2>4, <2>5, ActorsAssumption
       DEF TypeOK, TypeOfActors, Goto, Enter, Actors, HandlerLabels, SweeperLabels, Event
  <2>7. CallsAreTyped' /\ JobsAreHeld'
    BY <2>3, <2>4, <2>5
       DEF ActorInv, CallsAreTyped, JobsAreHeld, TypeOfActors, Goto, Enter, Actors,
           CallLabels, JobLabels, Backs
  <2>8. EventsAreHeld'
    BY <2>2, <2>3, <2>4, <2>5
       DEF ActorInv, EventsAreHeld, TypeOfActors, Goto, Enter, Actors, CallLabels
  <2>9. TypeOfRest'
    BY <1>4, RestStays DEF ReceiveStatus, TakeEvent, TypeOK, TypeOfHistory, historyVars
  <2> QED
    BY <2>6, <2>7, <2>8, <2>9 DEF ActorInv
<1> QED
  BY <1>1, <1>2, <1>3, <1>4 DEF Arrive, TypeInv, TypeOK, TypeOfRest, ActorInv

\* every step of a request in flight,
LEMMA HandlerStepType ==
    ASSUME TypeInv, NEW h \in Handlers, HandlerStep(h)
    PROVE  TypeInv'
<1> USE DEF TypeInv, TypeOK, TypeOfRest, rowVars, tableVars, providerVars, sweepVars,
            historyVars
<1>0. h \in Actors /\ (pc[h] \in CallLabels => task[h] \in Task)
  BY DEF ActorInv, CallsAreTyped, Actors
<1>1. ASSUME LookForRecording(h) PROVE TypeOfRest' /\ ActorInv'
  <2>1. pc[h] \in CallLabels /\ answered \subseteq Recordings
    BY <1>1 DEF LookForRecording, CallLabels, TypeOK, TypeOfHistory
  <2>2. ActorInv' /\ answered' \subseteq Recordings
    <3>1. CASE Return(h)
      BY <1>1, <1>0, <2>1, <3>1, CallReturns DEF LookForRecording
    <3>2. CASE ~Return(h)
      <4> DEFINE t == [task[h] EXCEPT !.job = egress[task[h].rec]]
      <4>1. Enter(h, "move", t) /\ UNCHANGED <<answered, event>>
        BY <1>1, <3>2 DEF LookForRecording
      <4>2. t \in Task /\ t.back = task[h].back
        BY <1>0, <2>1 DEF Task, TypeOK, TypeOfRows
      <4>3. task[h].back \in Backs(h)
        BY <1>0, <2>1 DEF ActorInv, CallsAreTyped
      <4>4. task[h].back = "ack" => event[h] \in Event
        BY <2>1 DEF ActorInv, EventsAreHeld
      <4> HIDE DEF t
      <4> QED
        BY <1>0, <2>1, <4>1, <4>2, <4>3, <4>4, ActorMoves
           DEF Enter, Goto, HandlerLabels, CallLabels, JobLabels
    <3> QED
      BY <3>1, <3>2
  <2>3. TypeOfRest'
    BY <1>1, <2>2, RestStays DEF LookForRecording, TypeOK, TypeOfHistory
  <2> QED
    BY <2>2, <2>3
<1>2. ASSUME StatusMarksStopped(h) PROVE TypeOfRest' /\ ActorInv'
  <2>1. ActorInv'
    BY <1>2, <1>0, CallGoesOn DEF StatusMarksStopped, CallLabels, JobLabels, HandlerLabels
  <2>2. TypeOfRest'
    BY <1>2, <1>0
       DEF StatusMarksStopped, MarkStopped, CallLabels, Task, TypeOfRows, TypeOfProvider,
           TypeOfSweeps, TypeOfHistory
  <2> QED
    BY <2>1, <2>2
<1>3. ASSUME StatusMovesRow(h) PROVE TypeOfRest' /\ ActorInv'
  <2>1. pc[h] \in CallLabels /\ answered \subseteq Recordings
    BY <1>3 DEF StatusMovesRow, CallLabels, TypeOK, TypeOfHistory
  <2>2. ActorInv' /\ answered' \subseteq Recordings
    <3>1. CASE Return(h)
      BY <1>3, <1>0, <2>1, <3>1, CallReturns DEF StatusMovesRow
    <3>2. CASE ~Return(h)
      BY <1>3, <1>0, <2>1, <3>2, CallGoesOn, ActorsAssumption
         DEF StatusMovesRow, CallLabels, JobLabels, HandlerLabels, SweeperLabels, Actors
    <3> QED
      BY <3>1, <3>2
  <2>3. TypeOfRest'
    BY <1>3, <1>0, <2>1, <2>2, TransitionType
       DEF StatusMovesRow, Task, TypeOfRows, TypeOfProvider, TypeOfSweeps, TypeOfHistory
  <2> QED
    BY <2>2, <2>3
<1>4. ASSUME StatusQueuesDelivery(h) PROVE TypeOfRest' /\ ActorInv'
  <2>1. pc[h] \in CallLabels /\ answered \subseteq Recordings
    BY <1>4 DEF StatusQueuesDelivery, CallLabels, TypeOK, TypeOfHistory
  <2>2. ActorInv' /\ answered' \subseteq Recordings
    BY <1>4, <1>0, <2>1, CallReturns DEF StatusQueuesDelivery
  <2>3. TypeOfRest'
    BY <1>4, <1>0, <2>1, <2>2
       DEF StatusQueuesDelivery, Task, TypeOfRows, TypeOfProvider, TypeOfSweeps,
           TypeOfHistory
  <2> QED
    BY <2>2, <2>3
<1>5. ASSUME Acknowledge(h) PROVE TypeOfRest' /\ ActorInv'
  <2>1. event[h] \in Event
    BY <1>5 DEF Acknowledge, ActorInv, EventsAreHeld
  <2>2. TypeOfActors'
    BY <1>5, ActorsAssumption
       DEF Acknowledge, Goto, ActorInv, TypeOfActors, Actors, HandlerLabels
  <2>3. CallsAreTyped' /\ JobsAreHeld' /\ EventsAreHeld'
    BY <1>5, <1>0 DEF Acknowledge, Goto, ActorInv, TypeOfActors, CallsAreTyped, JobsAreHeld,
           EventsAreHeld, CallLabels, JobLabels, Actors
  <2>4. TypeOfRest'
    BY <1>5, <2>1 DEF Acknowledge, TypeOfRows, TypeOfProvider, TypeOfSweeps, TypeOfHistory
  <2> QED
    BY <2>2, <2>3, <2>4 DEF ActorInv
<1> QED
  BY <1>0, <1>1, <1>2, <1>3, <1>4, <1>5, CallStepType
     DEF HandlerStep, TypeInv, TypeOK, TypeOfRest, ActorInv

\* A sweeper at a label between calls keeps none of a call's obligations.
LEMMA SweeperGoes ==
    ASSUME ActorInv,
           NEW s \in Sweepers,
           NEW p \in SweeperLabels \ (CallLabels \union JobLabels),
           Goto(s, p),
           UNCHANGED <<task, event>>
    PROVE  ActorInv'
<1>1. s \in Actors /\ s \notin Handlers
  BY ActorsAssumption DEF Actors
<1>2. task[s] \in Task \union {NoTask} /\ task' = [task EXCEPT ![s] = task[s]]
  BY <1>1 DEF ActorInv, TypeOfActors
<1> QED
  BY <1>1, <1>2, ActorMoves DEF Goto

\* A sweeper starts a call that returns to the sweep.
LEMMA SweeperCalls ==
    ASSUME ActorInv,
           NEW s \in Sweepers,
           NEW p \in SweeperLabels,
           NEW t \in Task, t.back \in {"sweep", "orphan"},
           p \in JobLabels => t.job \in Jobs,
           Enter(s, p, t),
           UNCHANGED event
    PROVE  ActorInv'
<1>1. s \in Actors /\ s \notin Handlers
  BY ActorsAssumption DEF Actors
<1> QED
  BY <1>1, ActorMoves DEF Enter, Goto, Backs

\* every step of a sweep,
LEMMA SweeperStepType ==
    ASSUME TypeInv, NEW s \in Sweepers, SweeperStep(s)
    PROVE  TypeInv'
<1> USE DEF TypeInv, TypeOK, TypeOfRest, rowVars, tableVars, providerVars, sweepVars,
            historyVars
<1>0. /\ s \in Actors /\ s \notin Handlers
      /\ pc[s] \in CallLabels => task[s] \in Task
  BY ActorsAssumption DEF ActorInv, CallsAreTyped, Actors
<1>1. ASSUME RequeueOrphanedWork(s) PROVE TypeOfRest' /\ ActorInv'
  <2>1. ActorInv'
    BY <1>1, SweeperGoes DEF RequeueOrphanedWork, SweeperLabels, CallLabels, JobLabels
  <2>2. TypeOfRest'
    BY <1>1 DEF RequeueOrphanedWork, TypeOfRows, TypeOfProvider, TypeOfSweeps, TypeOfHistory
  <2> QED
    BY <2>1, <2>2
<1>2. ASSUME ReadStale(s) PROVE TypeOfRest' /\ ActorInv'
  <2>1. ActorInv'
    BY <1>2, SweeperGoes DEF ReadStale, SweeperLabels, CallLabels, JobLabels
  <2>2. TypeOfRest'
    BY <1>2
       DEF ReadStale, IsStale, IsActive, Row, Snapshot, TypeOfRows, TypeOfProvider,
           TypeOfSweeps, TypeOfHistory
  <2> QED
    BY <2>1, <2>2
<1>3. ASSUME ReadDue(s) PROVE TypeOfRest' /\ ActorInv'
  <2>1. ActorInv'
    BY <1>3, SweeperGoes DEF ReadDue, SweeperLabels, CallLabels, JobLabels
  <2>2. TypeOfRest'
    BY <1>3 DEF ReadDue, TypeOfRows, TypeOfProvider, TypeOfSweeps, TypeOfHistory
  <2> QED
    BY <2>1, <2>2
<1>4. ASSUME NEW r \in Recordings, DeleteRecording(s, r) PROVE TypeOfRest' /\ ActorInv'
  <2>1. ActorInv'
    BY <1>4, SweeperGoes
       DEF DeleteRecording, DueHandled, SweeperLabels, CallLabels, JobLabels
  <2>2. TypeOfRest'
    BY <1>4, TouchType
       DEF DeleteRecording, DueHandled, States, RowStates, TypeOfRows, TypeOfProvider,
           TypeOfSweeps, TypeOfHistory
  <2> QED
    BY <2>1, <2>2
<1>5. ASSUME NEW r \in Recordings, DeletionFails(s, r) PROVE TypeOfRest' /\ ActorInv'
  <2>1. ActorInv'
    BY <1>5, SweeperGoes DEF DeletionFails, DueHandled, SweeperLabels, CallLabels, JobLabels
  <2>2. TypeOfRest'
    BY <1>5, TransitionType
       DEF DeletionFails, DueHandled, States, RowStates, Errors, Failures, TypeOfRows,
           TypeOfProvider, TypeOfSweeps, TypeOfHistory
  <2> QED
    BY <2>1, <2>2
<1>6. ASSUME NEW taken \in todo[s], SweepKilled(s, taken) PROVE TypeOfRest' /\ ActorInv'
  <2> DEFINE t == Call(taken.rec, taken.egress, "failed", "kill_switch", "sweep")
  <2>1. t \in Task /\ t.back = "sweep"
    BY DEF Call, Task, Snapshot, TypeOfSweeps, MaybeJob, States, RowStates, ActiveStates,
           Errors, Failures
  <2>2. Enter(s, "move", t) /\ UNCHANGED event
    BY <1>6 DEF SweepKilled, SweepRow, FailStale
  <2> HIDE DEF t
  <2>3. ActorInv'
    BY <2>1, <2>2, SweeperCalls DEF SweeperLabels, JobLabels
  <2>4. TypeOfRest'
    BY <1>6
       DEF SweepKilled, SweepRow, TypeOfRows, TypeOfProvider, TypeOfSweeps, TypeOfHistory
  <2> QED
    BY <2>3, <2>4
<1>7. ASSUME NEW taken \in todo[s], SweepRetries(s, taken) PROVE TypeOfRest' /\ ActorInv'
  <2> DEFINE t == Call(taken.rec, NoJob, "recording", "none", "sweep")
  <2>1. t \in Task /\ t.back = "sweep"
    BY DEF Call, Task, Snapshot, TypeOfSweeps, MaybeJob, States, RowStates, ActiveStates,
           Errors, Failures
  <2>2. Enter(s, "claim", t) /\ UNCHANGED event
    BY <1>7 DEF SweepRetries, SweepRow
  <2> HIDE DEF t
  <2>3. ActorInv'
    BY <2>1, <2>2, SweeperCalls DEF SweeperLabels, JobLabels
  <2>4. TypeOfRest'
    BY <1>7
       DEF SweepRetries, SweepRow, TypeOfRows, TypeOfProvider, TypeOfSweeps, TypeOfHistory
  <2> QED
    BY <2>3, <2>4
<1>8. ASSUME NEW taken \in todo[s], SweepGivesUp(s, taken) PROVE TypeOfRest' /\ ActorInv'
  <2> DEFINE t == Call(taken.rec, taken.egress, "failed", "provider_start_failed", "sweep")
  <2>1. t \in Task /\ t.back = "sweep"
    BY DEF Call, Task, Snapshot, TypeOfSweeps, MaybeJob, States, RowStates, ActiveStates,
           Errors, Failures
  <2>2. Enter(s, "move", t) /\ UNCHANGED event
    BY <1>8 DEF SweepGivesUp, SweepRow, FailStale
  <2> HIDE DEF t
  <2>3. ActorInv'
    BY <2>1, <2>2, SweeperCalls DEF SweeperLabels, JobLabels
  <2>4. TypeOfRest'
    BY <1>8
       DEF SweepGivesUp, SweepRow, TypeOfRows, TypeOfProvider, TypeOfSweeps, TypeOfHistory
  <2> QED
    BY <2>3, <2>4
<1>9. ASSUME NEW taken \in todo[s], SweepWaits(s, taken) PROVE TypeOfRest' /\ ActorInv'
  <2>1. ActorInv'
    BY <1>9, ActorsStay DEF SweepWaits, SweepRow, actorVars
  <2>2. TypeOfRest'
    BY <1>9
       DEF SweepWaits, SweepRow, TypeOfRows, TypeOfProvider, TypeOfSweeps, TypeOfHistory
  <2> QED
    BY <2>1, <2>2
<1>10. ASSUME NEW taken \in todo[s], SweepAbandons(s, taken) PROVE TypeOfRest' /\ ActorInv'
  <2> DEFINE t == Call(taken.rec, taken.egress, "failed", 
                      IF taken.error = "drive_failed" THEN "none" ELSE "abandoned", "sweep")
  <2>1. t \in Task /\ t.back = "sweep"
    BY DEF Call, Task, Snapshot, TypeOfSweeps, MaybeJob, States, RowStates, ActiveStates,
           Errors, Failures
  <2>2. Enter(s, "move", t) /\ UNCHANGED event
    BY <1>10 DEF SweepAbandons, SweepRow, FailStale
  <2> HIDE DEF t
  <2>3. ActorInv'
    BY <2>1, <2>2, SweeperCalls DEF SweeperLabels, JobLabels
  <2>4. TypeOfRest'
    BY <1>10
       DEF SweepAbandons, SweepRow, TypeOfRows, TypeOfProvider, TypeOfSweeps, TypeOfHistory
  <2> QED
    BY <2>3, <2>4
<1>11. ASSUME ClaimRetry(s) PROVE TypeOfRest' /\ ActorInv'
  <2>1. pc[s] \in CallLabels /\ answered \subseteq Recordings
    BY <1>11 DEF ClaimRetry, CallLabels, TypeOK, TypeOfHistory
  <2>2. ActorInv' /\ answered' \subseteq Recordings
    <3>1. CASE Return(s)
      BY <1>11, <1>0, <2>1, <3>1, CallReturns DEF ClaimRetry
    <3>2. CASE ~Return(s)
      BY <1>11, <1>0, <2>1, <3>2, CallGoesOn, ActorsAssumption
         DEF ClaimRetry, CallLabels, JobLabels, HandlerLabels, SweeperLabels, Actors
    <3> QED
      BY <3>1, <3>2
  <2>3. TypeOfRest'
    BY <1>11, <1>0, <2>1, <2>2, TouchType
       DEF ClaimRetry, Task, TypeOfRows, TypeOfProvider, TypeOfSweeps, TypeOfHistory
  <2> QED
    BY <2>2, <2>3
<1>12. ASSUME NEW j \in Jobs, AdoptFindsJob(s, j) PROVE TypeOfRest' /\ ActorInv'
  <2> DEFINE t == [task[s] EXCEPT !.job = j]
  <2>1. pc[s] \in CallLabels /\ Enter(s, "adopted", t) /\ UNCHANGED event
    BY <1>12 DEF AdoptFindsJob, CallLabels
  <2>2. t \in Task /\ t.back = task[s].back /\ t.job = j
    BY <1>0, <2>1 DEF Task, MaybeJob
  <2>3. t.back \in {"sweep", "orphan"}
    BY <1>0, <2>1, <2>2 DEF ActorInv, CallsAreTyped, Backs
  <2> HIDE DEF t
  <2>4. ActorInv'
    BY <2>1, <2>2, <2>3, SweeperCalls DEF SweeperLabels
  <2>5. TypeOfRest'
    BY <1>12, RestStays DEF AdoptFindsJob, TypeOfHistory
  <2> QED
    BY <2>4, <2>5
<1>13. ASSUME AdoptFindsNone(s) PROVE TypeOfRest' /\ ActorInv'
  <2>1. ActorInv'
    BY <1>13, <1>0, CallGoesOn DEF AdoptFindsNone, CallLabels, JobLabels, SweeperLabels
  <2>2. TypeOfRest'
    BY <1>13, RestStays DEF AdoptFindsNone, TypeOfHistory
  <2> QED
    BY <2>1, <2>2
<1>14. ASSUME AdoptFails(s) PROVE TypeOfRest' /\ ActorInv'
  <2>1. ActorInv'
    BY <1>14, <1>0, CallGoesOn DEF AdoptFails, CallLabels, JobLabels, SweeperLabels
  <2>2. TypeOfRest'
    BY <1>14, RestStays DEF AdoptFails, TypeOfHistory
  <2> QED
    BY <2>1, <2>2
<1>15. ASSUME BumpRetry(s) PROVE TypeOfRest' /\ ActorInv'
  <2>1. pc[s] \in CallLabels /\ answered \subseteq Recordings
    BY <1>15 DEF BumpRetry, CallLabels, TypeOK, TypeOfHistory
  <2>2. ActorInv' /\ answered' \subseteq Recordings
    BY <1>15, <1>0, <2>1, CallReturns DEF BumpRetry
  <2>3. TypeOfRest'
    BY <1>15, <1>0, <2>1, <2>2, TouchType
       DEF BumpRetry, Task, TypeOfRows, TypeOfProvider, TypeOfSweeps, TypeOfHistory
  <2> QED
    BY <2>2, <2>3
<1>16. ASSUME ReadOrphans(s) PROVE TypeOfRest' /\ ActorInv'
  <2>1. ActorInv'
    BY <1>16, SweeperGoes DEF ReadOrphans, SweeperLabels, CallLabels, JobLabels
  <2>2. TypeOfRest'
    BY <1>16
       DEF ReadOrphans, IsOrphaned, MaybeJob, TypeOfRows, TypeOfProvider, TypeOfSweeps,
           TypeOfHistory
  <2> QED
    BY <2>1, <2>2
<1>17. ASSUME NEW o \in orphans[s], AskOrphan(s, o) PROVE TypeOfRest' /\ ActorInv'
  <2> DEFINE t == Call(o[1], o[2], "failed", "none", "orphan")
  <2>1. o \in Recordings \X Jobs
    BY DEF TypeOfSweeps
  <2>2. t \in Task /\ t.back = "orphan" /\ t.job \in Jobs
    BY <2>1 DEF Call, Task, MaybeJob, States, RowStates, Errors
  <2>3. Enter(s, "stop", t) /\ UNCHANGED event
    BY <1>17 DEF AskOrphan
  <2> HIDE DEF t
  <2>4. ActorInv'
    BY <2>2, <2>3, SweeperCalls DEF SweeperLabels
  <2>5. TypeOfRest'
    BY <1>17 DEF AskOrphan, TypeOfRows, TypeOfProvider, TypeOfSweeps, TypeOfHistory
  <2> QED
    BY <2>4, <2>5
<1>18. ASSUME EndSweep(s) PROVE TypeOfRest' /\ ActorInv'
  <2>1. ActorInv'
    BY <1>18, SweeperGoes DEF EndSweep, SweeperLabels, CallLabels, JobLabels
  <2>2. TypeOfRest'
    BY <1>18, RestStays DEF EndSweep, TypeOfHistory
  <2> QED
    BY <2>1, <2>2
<1> QED
  BY <1>0, <1>1, <1>2, <1>3, <1>4, <1>5, <1>6, <1>7, <1>8, <1>9, <1>10, <1>11, <1>12,
     <1>13, <1>14, <1>15, <1>16, <1>17, <1>18,
     CallStepType DEF SweeperStep, ActorInv

\* and everything the delivery worker, the provider, the clock and a restart do.
LEMMA WorldType ==
    ASSUME TypeInv,
           \/ DeliveryStep
           \/ ProviderStep
           \/ Tick
           \/ \E a \in Actors : Crash(a)
           \/ ThrowKillSwitch
           \/ UNCHANGED vars
    PROVE  TypeInv'
<1> USE DEF TypeInv, TypeOK, TypeOfRest, rowVars, tableVars, providerVars, sweepVars,
            historyVars
<1>1. ASSUME NEW gone \in SUBSET Actors, Drop(gone), killed' \in BOOLEAN, faults' \in Nat
      PROVE  TypeOfRest' /\ ActorInv'
  <2>1. \A a \in Actors : Holds(a) \subseteq Jobs
    BY DEF Holds, ActorInv, JobsAreHeld, JobLabels
  <2>2. lost' \subseteq Jobs
    BY <1>1, <2>1 DEF Drop, TypeOfHistory
  <2>3. TypeOfRest'
    BY <1>1, <2>2 DEF Drop, TypeOfRows, TypeOfProvider, TypeOfSweeps, TypeOfHistory
  <2>4. TypeOfActors'
    BY <1>1, ActorsAssumption
       DEF Drop, ActorInv, TypeOfActors, Actors, HandlerLabels, SweeperLabels
  <2>5. CallsAreTyped' /\ JobsAreHeld' /\ EventsAreHeld'
    BY <1>1 DEF Drop, ActorInv, CallsAreTyped, JobsAreHeld, EventsAreHeld, CallLabels,
           JobLabels, Actors
  <2> QED
    BY <2>3, <2>4, <2>5 DEF ActorInv
<1>2. ASSUME NEW r \in Recordings,
             WorkerMoves(r) \/ WorkerReleases(r) \/ OperatorRetries(r)
      PROVE  TypeOfRest' /\ ActorInv'
  <2>1. ActorInv'
    BY <1>2, ActorsStay DEF WorkerMoves, WorkerReleases, Deliver, DeliveryAttemptFails,
           DeliveryGivesUp, ReopenDelivery, ReleaseClaim, MoveRow, OperatorRetries
  <2>2. TypeOfRest'
    BY <1>2, TouchType
       DEF WorkerMoves, WorkerReleases, Deliver, DeliveryAttemptFails,
           DeliveryGivesUp, ReopenDelivery, ReleaseClaim, MoveRow, OperatorRetries, TypeOfRows, TypeOfProvider, TypeOfSweeps,
           TypeOfHistory, States, RowStates, ActiveStates, Errors, Failures
  <2> QED
    BY <2>1, <2>2
<1>3. ASSUME NEW j \in Jobs,
             JobReports(j) \/ \E status \in Statuses : JobEnds(j, status)
      PROVE  TypeOfRest' /\ ActorInv'
  <2>1. ActorInv'
    BY <1>3, ActorsStay DEF JobReports, JobEnds, Send
  <2>2. TypeOfRest'
    BY <1>3 DEF JobReports, JobEnds, Send, Event, Statuses, TypeOfRows, TypeOfProvider,
           TypeOfSweeps, TypeOfHistory
  <2> QED
    BY <2>1, <2>2
<1>4. ASSUME Tick PROVE TypeOfRest' /\ ActorInv'
  <2>1. ActorInv'
    BY <1>4, ActorsStay DEF Tick
  <2>2. age' \in [Recordings -> Ages]
    BY <1>4, RecordingStaleAgeAssumption DEF Tick, TypeOfRows, Ages
  <2>3. TypeOfRest'
    BY <1>4, <2>2 DEF Tick, TypeOfRows, TypeOfProvider, TypeOfSweeps, TypeOfHistory
  <2> QED
    BY <2>1, <2>3
<1>5. ASSUME NEW a \in Actors, Crash(a) PROVE TypeOfRest' /\ ActorInv'
  BY <1>1, <1>5 DEF Crash, TypeOfHistory
<1>6. ASSUME ThrowKillSwitch PROVE TypeOfRest' /\ ActorInv'
  BY <1>1, <1>6 DEF ThrowKillSwitch, TypeOfHistory
<1>7. ASSUME UNCHANGED vars PROVE TypeOfRest' /\ ActorInv'
  BY <1>7, RestStays, ActorsStay DEF vars, TypeOfHistory
<1> QED
  BY <1>2, <1>3, <1>4, <1>5, <1>6, <1>7 DEF DeliveryStep, ProviderStep, ActorInv

\* The invariant is inductive.
LEMMA TypeInvNext == TypeInv /\ [Next]_vars => TypeInv'
BY ArriveType, HandlerStepType, SweeperStepType, WorldType DEF Next

\* Every column, every local and everything a sweep has read stays within its
\* type, whatever is interleaved, dropped or sent twice.
THEOREM TypeCorrect == Spec => []TypeOK
<1>1. Spec => []TypeInv
  BY TypeInvInit, TypeInvNext, PTL DEF Spec
<1>2. TypeInv => TypeOK
  BY DEF TypeInv
<1> QED
  BY <1>1, <1>2, PTL

(***************************************************************************)
(* A stopped_at is never wrong.                                            *)
(*                                                                         *)
(* StoppedMeansOver alone is not inductive: stopped_at is written several  *)
(* awaits after the row was read, by callers that carry the row and the    *)
(* job in their locals, in a snapshot, in a list of orphans or in an event *)
(* that was stored.  What makes the late write right is that egress_id is  *)
(* written once, so that every copy of it stays true, and that a job which *)
(* agreed to end never runs again.                                         *)
(***************************************************************************)

\* The provider handed this id out.
Started(j) == jobs[j] # "unused"

\* What a call that is about to stop a job, or to write that it stopped,
\* knows about the row and the job it carries.
CallKnows(a) ==
    LET r == task[a].rec
        j == task[a].job
    IN  /\ pc[a] \in {"record", "adopted"} => Started(j)
        /\ pc[a] \in {"settle", "stop", "mark"} => egress[r] = j
        /\ pc[a] = "move" => j = NoJob \/ egress[r] = j
        /\ pc[a] = "mark" => Over(j)
        /\ pc[a] = "status_mark" => egress[r] = j /\ j # NoJob /\ Over(j)

CallsKnow == \A a \in Actors : CallKnows(a)

\* The provider only sends a terminal status of a job that ended.
NewsIsTrue == \A e \in sent : e.status \in TerminalStatuses => Over(e.job)

\* What a sweeper read of egress_id is still so.
SnapshotsHold ==
    \A s \in Sweepers : \A taken \in todo[s] :
        taken.egress = NoJob \/ egress[taken.rec] = taken.egress

OrphansHold == \A s \in Sweepers : \A o \in orphans[s] : egress[o[1]] = o[2]

NamesAreStarted == \A r \in Recordings : egress[r] # NoJob => Started(egress[r])

StopInv ==
    /\ CallsKnow /\ NamesAreStarted
    /\ NewsIsTrue /\ SnapshotsHold /\ OrphansHold
    /\ StoppedMeansOver

(***************************************************************************)
(* The two facts every late write leans on.                                *)
(***************************************************************************)
\* egress_id is written once.
KeepsEgress == \A r \in Recordings : egress[r] # NoJob => egress'[r] = egress[r]

\* A job that agreed to end, or ended, does not run again, and no id is
\* handed out twice.
KeepsJobs == \A j \in Jobs : (Over(j) => Over(j)') /\ (Started(j) => Started(j)')

\* No step of a call takes an id out of a row again, nor starts a job that was
\* asked to end once more: record_egress_id writes once, and a stop of an ended
\* job leaves it ended.
LEMMA CallStepKeeps ==
    ASSUME TypeInv, NEW a \in Actors, CallStep(a)
    PROVE  KeepsEgress /\ KeepsJobs
<1> USE DEF KeepsEgress, KeepsJobs, Over, Started, rowVars, providerVars
<1>1. ASSUME NEW j \in Jobs, ProviderStarts(a, j) \/ StartAnswerLost(a, j)
      PROVE  KeepsEgress /\ KeepsJobs
  BY <1>1 DEF ProviderStarts, StartAnswerLost, TypeInv, TypeOK, TypeOfProvider
<1>2. ASSUME RecordEgressId(a) PROVE KeepsEgress /\ KeepsJobs
  BY <1>2 DEF RecordEgressId, Unnamed, TypeInv, TypeOK, TypeOfRows
<1>3. ASSUME DiscardAgreed(a) \/ ProviderStops(a) \/ StopAnswerLost(a)
      PROVE  KeepsEgress /\ KeepsJobs
  BY <1>3 DEF DiscardAgreed, ProviderStops, StopAnswerLost, TypeInv, TypeOK, TypeOfProvider
<1>4. ASSUME \/ ProviderRefusesStart(a) \/ RecordEgressIdFails(a) \/ DiscardRefused(a)
             \/ SettleNewEgress(a) \/ StopRecording(a) \/ ProviderRefusesStop(a)
             \/ WriteStopped(a)
      PROVE  KeepsEgress /\ KeepsJobs
  BY <1>4 DEF ProviderRefusesStart, RecordEgressIdFails, DiscardRefused, SettleNewEgress,
         StopRecording, ProviderRefusesStop, WriteStopped
<1> QED
  BY <1>1, <1>2, <1>3, <1>4 DEF CallStep

\* Nor does any other step.
LEMMA Keeps ==
    ASSUME TypeInv, [Next]_vars
    PROVE  KeepsEgress /\ KeepsJobs
<1> USE DEF KeepsEgress, KeepsJobs, Over, Started, rowVars, providerVars, vars
<1>1. ASSUME NEW h \in Handlers, Arrive(h) PROVE KeepsEgress /\ KeepsJobs
  BY <1>1 DEF Arrive, BeginRecording, EndInterview, WithdrawConsent, ReceiveStatus,
         TakeEvent
<1>2. ASSUME NEW h \in Handlers, HandlerStep(h) PROVE KeepsEgress /\ KeepsJobs
  BY <1>2, CallStepKeeps
     DEF HandlerStep, LookForRecording, StatusMarksStopped, StatusMovesRow,
         StatusQueuesDelivery, Acknowledge, Actors
<1>3. ASSUME NEW s \in Sweepers, SweeperStep(s) PROVE KeepsEgress /\ KeepsJobs
  <2>1. CASE CallStep(s)
    BY <2>1, CallStepKeeps DEF Actors
  <2>2. ASSUME ~CallStep(s) PROVE UNCHANGED <<egress, jobs>>
    BY <1>3, <2>2
       DEF SweeperStep, RequeueOrphanedWork, ReadStale, ReadDue, DeleteRecording,
           DeletionFails,
           DueHandled, SweepKilled, SweepRetries, SweepGivesUp, SweepWaits, SweepAbandons,
           SweepRow, ClaimRetry, AdoptFindsJob, AdoptFindsNone, AdoptFails, BumpRetry,
           ReadOrphans, AskOrphan, EndSweep
  <2> QED
    BY <2>1, <2>2
<1>4. ASSUME DeliveryStep PROVE KeepsEgress /\ KeepsJobs
  BY <1>4 DEF DeliveryStep, WorkerMoves, WorkerReleases, Deliver, DeliveryAttemptFails,
           DeliveryGivesUp, ReopenDelivery, ReleaseClaim, MoveRow, OperatorRetries
<1>5. ASSUME ProviderStep PROVE KeepsEgress /\ KeepsJobs
  BY <1>5 DEF ProviderStep, JobReports, JobEnds, Send, TypeInv, TypeOK, TypeOfProvider
<1>6. ASSUME \/ Tick
             \/ \E a \in Actors : Crash(a)
             \/ ThrowKillSwitch
             \/ UNCHANGED vars
      PROVE  KeepsEgress /\ KeepsJobs
  BY <1>6 DEF Tick, Crash, ThrowKillSwitch, Drop
<1> QED
  BY <1>1, <1>2, <1>3, <1>4, <1>5, <1>6 DEF Next

(***************************************************************************)
(* What stays known across a step.                                         *)
(***************************************************************************)
\* The labels at which CallKnows claims something.
KnowingLabels == {"record", "adopted", "settle", "stop", "mark", "move", "status_mark"}

\* An actor that a step leaves alone knows what it knew.
LEMMA BystanderKnows ==
    ASSUME TypeInv, KeepsEgress, KeepsJobs,
           NEW b \in Actors, CallKnows(b),
           pc'[b] = pc[b], task'[b] = task[b]
    PROVE  CallKnows(b)'
<1>1. CASE pc[b] \in KnowingLabels
  <2>1. task[b] \in Task /\ (pc[b] \in JobLabels => task[b].job \in Jobs)
    BY <1>1 DEF TypeInv, ActorInv, CallsAreTyped, JobsAreHeld, KnowingLabels, CallLabels
  <2>2. task[b].rec \in Recordings /\ task[b].job \in MaybeJob
    BY <2>1 DEF Task
  <2> QED
    BY <1>1, <2>1, <2>2, NoJobAssumption
       DEF CallKnows, KeepsEgress, KeepsJobs, Started, JobLabels, KnowingLabels, MaybeJob
<1>2. CASE pc[b] \notin KnowingLabels
  BY <1>2 DEF CallKnows, KnowingLabels
<1> QED
  BY <1>1, <1>2

\* A step of one actor.
LEMMA ActorKnows ==
    ASSUME TypeInv, CallsKnow, KeepsEgress, KeepsJobs,
           NEW a \in Actors, NEW p, NEW t,
           pc' = [pc EXCEPT ![a] = p],
           task' = [task EXCEPT ![a] = t],
           CallKnows(a)'
    PROVE  CallsKnow'
<1> SUFFICES ASSUME NEW b \in Actors, b # a PROVE CallKnows(b)'
  BY DEF CallsKnow
<1>1. pc'[b] = pc[b] /\ task'[b] = task[b]
  BY DEF TypeInv, ActorInv, TypeOfActors
<1> QED
  BY <1>1, BystanderKnows DEF CallsKnow

\* A step of one actor to a label at which it need not know anything.
LEMMA ActorForgets ==
    ASSUME TypeInv, CallsKnow, KeepsEgress, KeepsJobs,
           NEW a \in Actors, NEW p, NEW t,
           pc' = [pc EXCEPT ![a] = p],
           task' = [task EXCEPT ![a] = t],
           p \notin KnowingLabels
    PROVE  CallsKnow'
<1>1. pc'[a] = p
  BY DEF TypeInv, ActorInv, TypeOfActors
<1>2. CallKnows(a)'
  BY <1>1 DEF CallKnows, KnowingLabels
<1> QED
  BY <1>2, ActorKnows

\* No actor moves.
LEMMA ActorsKnow ==
    ASSUME TypeInv, CallsKnow, KeepsEgress, KeepsJobs, UNCHANGED <<pc, task>>
    PROVE  CallsKnow'
BY BystanderKnows DEF CallsKnow

\* What is stored: the events sent and what a sweeper has read.
Stored == NamesAreStarted /\ NewsIsTrue /\ SnapshotsHold /\ OrphansHold

\* A step that writes no id, reads no rows and gets no news keeps what rows,
\* snapshots and orphans say of their jobs.
LEMMA StoredHolds ==
    ASSUME TypeInv, Stored, KeepsEgress, KeepsJobs,
           UNCHANGED sent, NamesAreStarted',
           \A s \in Sweepers : todo'[s] \subseteq todo[s] /\ orphans'[s] \subseteq orphans[s]
    PROVE  Stored'
<1>1. NewsIsTrue'
  BY DEF Stored, NewsIsTrue, KeepsJobs, TypeInv, TypeOK, TypeOfProvider, Event
<1>2. SnapshotsHold'
  <2> SUFFICES ASSUME NEW s \in Sweepers, NEW taken \in todo'[s]
               PROVE  taken.egress = NoJob \/ egress'[taken.rec] = taken.egress
    BY DEF SnapshotsHold
  <2>1. taken \in todo[s] /\ taken \in Snapshot
    BY DEF TypeInv, TypeOK, TypeOfSweeps
  <2> QED
    BY <2>1 DEF Stored, SnapshotsHold, KeepsEgress, Snapshot
<1>3. OrphansHold'
  <2> SUFFICES ASSUME NEW s \in Sweepers, NEW o \in orphans'[s] PROVE egress'[o[1]] = o[2]
    BY DEF OrphansHold
  <2>1. o \in orphans[s] /\ o \in Recordings \X Jobs
    BY DEF TypeInv, TypeOK, TypeOfSweeps
  <2> QED
    BY <2>1, NoJobAssumption DEF Stored, OrphansHold, KeepsEgress
<1> QED
  BY <1>1, <1>2, <1>3 DEF Stored

\* A step that writes no egress_id.
LEMMA NamesHold ==
    ASSUME TypeInv, NamesAreStarted, KeepsJobs, UNCHANGED egress
    PROVE  NamesAreStarted'
BY NoJobAssumption
   DEF NamesAreStarted, KeepsJobs, Started, TypeInv, TypeOK, TypeOfRows, MaybeJob

\* A step that does not write stopped_at keeps what stopped_at means.
LEMMA StoppedHolds ==
    ASSUME TypeInv, StoppedMeansOver, KeepsEgress, KeepsJobs, UNCHANGED stopped
    PROVE  StoppedMeansOver'
BY NoJobAssumption
   DEF StoppedMeansOver, KeepsEgress, KeepsJobs, TypeInv, TypeOK, TypeOfRows, MaybeJob

(***************************************************************************)
(* The invariant, step by step.                                            *)
(***************************************************************************)
\* With no row, no job and no news there is nothing to keep.
LEMMA StopInvInit == Init => StopInv
BY DEF Init, StopInv, CallsKnow, NamesAreStarted, CallKnows, NewsIsTrue, SnapshotsHold,
   OrphansHold,
       StoppedMeansOver, Actors

\* Every step inside a shared call keeps the invariant; the write of stopped_at
\* does because a caller only reaches it with a job that agreed to end.
LEMMA CallStepStops ==
    ASSUME TypeInv, StopInv, NEW a \in Actors, CallStep(a), KeepsEgress, KeepsJobs
    PROVE  StopInv'
<1> USE DEF rowVars, tableVars, providerVars, sweepVars
<1>0. CallsKnow /\ Stored /\ StoppedMeansOver
  BY DEF StopInv, Stored
<1>a. /\ pc \in [Actors -> HandlerLabels \union SweeperLabels]
      /\ task \in [Actors -> Task \union {NoTask}]
      /\ egress \in [Recordings -> MaybeJob]
      /\ jobs \in [Jobs -> {"unused", "running", "stopping", "ended"}]
  BY DEF TypeInv, TypeOK, ActorInv, TypeOfActors, TypeOfRows, TypeOfProvider
<1>b. pc[a] \in CallLabels =>
          task[a] \in Task /\ task[a].rec \in Recordings /\ task[a].back \notin KnowingLabels
  BY DEF TypeInv, ActorInv, CallsAreTyped, Task, Backs, KnowingLabels
<1>c. pc[a] \in JobLabels => task[a].job \in Jobs
  BY DEF TypeInv, ActorInv, JobsAreHeld
<1>1. NamesAreStarted'
  <2>1. CASE RecordEgressId(a)
    <3>1. \A r \in Recordings : egress'[r] # NoJob => egress'[r] \in {egress[r],
    task[a].job}
      BY <2>1, <1>a DEF RecordEgressId, Unnamed
    <3>2. UNCHANGED jobs
      BY <2>1 DEF RecordEgressId
    <3>3. Started(task[a].job)
      BY <2>1, <1>0 DEF RecordEgressId, CallsKnow, CallKnows
    <3> QED
      BY <3>1, <3>2, <3>3, <1>0, <1>a DEF Stored, NamesAreStarted, Started
  <2>2. CASE ~RecordEgressId(a)
    BY <2>2, <1>0, NamesHold
       DEF Stored, CallStep, ProviderStarts, StartAnswerLost, ProviderRefusesStart,
           RecordEgressIdFails, DiscardAgreed, DiscardRefused, SettleNewEgress,
           StopRecording,
           ProviderStops, ProviderRefusesStop, StopAnswerLost, WriteStopped
  <2> QED
    BY <2>1, <2>2
<1>2. Stored'
  BY <1>0, <1>1, StoredHolds
     DEF CallStep, ProviderStarts, StartAnswerLost, ProviderRefusesStart, RecordEgressId,
         RecordEgressIdFails, DiscardAgreed, DiscardRefused, SettleNewEgress, StopRecording,
         ProviderStops, ProviderRefusesStop, StopAnswerLost, WriteStopped
<1>3. StoppedMeansOver'
  <2>1. CASE WriteStopped(a)
    <3>1. egress[task[a].rec] = task[a].job /\ Over(task[a].job) /\ task[a].job \in Jobs
      BY <2>1, <1>0, <1>c DEF WriteStopped, CallsKnow, CallKnows, JobLabels
    <3> QED
      BY <2>1, <3>1, <1>0, NoJobAssumption
         DEF WriteStopped, MarkStopped, StoppedMeansOver, Over
  <2>2. CASE ~WriteStopped(a)
    BY <2>2, <1>0, StoppedHolds
       DEF CallStep, ProviderStarts, StartAnswerLost, ProviderRefusesStart, RecordEgressId,
           RecordEgressIdFails, DiscardAgreed, DiscardRefused, SettleNewEgress,
           StopRecording,
           ProviderStops, ProviderRefusesStop, StopAnswerLost
  <2> QED
    BY <2>1, <2>2
<1>4. CallsKnow'
  <2>1. ASSUME pc[a] \in CallLabels, Return(a) PROVE CallsKnow'
    BY <2>1, <1>0, <1>b, ActorForgets DEF Return, Leave, Goto
  <2>2. ASSUME NEW p, p \notin KnowingLabels, Goto(a, p), UNCHANGED task PROVE CallsKnow'
    <3>1. task' = [task EXCEPT ![a] = task[a]]
      BY <2>2, <1>a
    <3> QED
      BY <2>2, <3>1, <1>0, ActorForgets DEF Goto
  <2>3. ASSUME NEW j \in Jobs, ProviderStarts(a, j) PROVE CallsKnow'
    <3>1. CallKnows(a)'
      BY <2>3, <1>a, <1>b
         DEF ProviderStarts, Enter, Goto, CallKnows, Started, CallLabels, Task
    <3> QED
      BY <2>3, <3>1, <1>0, ActorKnows DEF ProviderStarts, Enter, Goto
  <2>4. ASSUME \/ \E j \in Jobs : StartAnswerLost(a, j)
               \/ ProviderRefusesStart(a)
        PROVE  CallsKnow'
    BY <2>1, <2>2, <2>4
       DEF StartAnswerLost, ProviderRefusesStart, StartFailed, CallLabels, KnowingLabels
  <2>5. CASE RecordEgressId(a)
    <3>1. CASE egress[task[a].rec] \in {NoJob, task[a].job}
      <4>1. Goto(a, "settle") /\ UNCHANGED task /\ task[a].rec \in Recordings
        BY <2>5, <3>1, <1>b DEF RecordEgressId, Unnamed, CallLabels
      <4>2. egress'[task[a].rec] = task[a].job
        BY <2>5, <3>1, <4>1, <1>a DEF RecordEgressId, Unnamed
      <4>3. CallKnows(a)'
        BY <4>1, <4>2, <1>a DEF CallKnows, Goto
      <4> QED
        BY <4>1, <4>3, <1>0, <1>a, ActorKnows DEF Goto
    <3>2. CASE egress[task[a].rec] \notin {NoJob, task[a].job}
      BY <2>5, <3>2, <2>1, <2>2
         DEF RecordEgressId, Unnamed, NotStored, CallLabels, KnowingLabels
    <3> QED
      BY <3>1, <3>2
  <2>6. CASE \/ RecordEgressIdFails(a) \/ DiscardAgreed(a) \/ DiscardRefused(a)
             \/ ProviderRefusesStop(a) \/ StopAnswerLost(a) \/ WriteStopped(a)
    BY <2>1, <2>2, <2>6
       DEF RecordEgressIdFails, DiscardAgreed, DiscardRefused, ProviderRefusesStop,
           StopAnswerLost, WriteStopped, NotStored, CallLabels, KnowingLabels
  <2>7. CASE SettleNewEgress(a)
    <3>1. CASE Return(a)
      BY <2>7, <3>1, <2>1 DEF SettleNewEgress, CallLabels
    <3>2. CASE ~Return(a)
      <4> DEFINE t == [task[a] EXCEPT !.reach = state[task[a].rec] # "deleted"
                                                    \/ task[a].rec \in PrimaryRooms]
      <4>1. Enter(a, "stop", t) /\ pc[a] = "settle" /\ UNCHANGED egress
        BY <2>7, <3>2 DEF SettleNewEgress
      <4>2. t.rec = task[a].rec /\ t.job = task[a].job
        BY <4>1, <1>b DEF CallLabels, Task
      <4> HIDE DEF t
      <4>3. CallKnows(a)'
        BY <4>1, <4>2, <1>0, <1>a DEF Enter, Goto, CallsKnow, CallKnows
      <4> QED
        BY <4>1, <4>3, <1>0, ActorKnows DEF Enter, Goto
    <3> QED
      BY <3>1, <3>2
  <2>8. CASE StopRecording(a)
    <3>1. CASE Return(a)
      BY <2>8, <3>1, <2>1 DEF StopRecording, CallLabels
    <3>2. CASE ~Return(a)
      <4>1. /\ Goto(a, "stop") /\ UNCHANGED <<task, egress>>
            /\ pc[a] = "move" /\ task[a].job # NoJob
        BY <2>8, <3>2 DEF StopRecording
      <4>2. CallKnows(a)'
        BY <4>1, <1>0, <1>a DEF Goto, CallsKnow, CallKnows
      <4> QED
        BY <4>1, <4>2, <1>0, <1>a, ActorKnows DEF Goto
    <3> QED
      BY <3>1, <3>2
  <2>9. CASE ProviderStops(a)
    <3>1. Goto(a, "mark") /\ UNCHANGED <<task, egress>> /\ pc[a] = "stop"
      BY <2>9 DEF ProviderStops
    <3>2. Over(task[a].job)'
      <4>1. egress[task[a].rec] = task[a].job /\ task[a].job \in Jobs
        BY <3>1, <1>0, <1>c DEF CallsKnow, CallKnows, JobLabels
      <4>2. Started(task[a].job)
        BY <4>1, <3>1, <1>0, <1>b, NoJobAssumption DEF Stored, NamesAreStarted, CallLabels
      <4> QED
        BY <2>9, <3>1, <4>1, <4>2, <1>a DEF ProviderStops, Over, Started
    <3>3. CallKnows(a)'
      BY <3>1, <3>2, <1>0, <1>a DEF Goto, CallsKnow, CallKnows, Over
    <3> QED
      BY <3>1, <3>3, <1>0, <1>a, ActorKnows DEF Goto
  <2> QED
    BY <2>3, <2>4, <2>5, <2>6, <2>7, <2>8, <2>9 DEF CallStep
<1> QED
  BY <1>2, <1>3, <1>4 DEF StopInv, Stored

\* So does the arrival of a request, which reads its job out of the row, or of
\* a webhook, whose status is true of its job,
LEMMA ArriveStops ==
    ASSUME TypeInv, StopInv, NEW h \in Handlers, Arrive(h), KeepsEgress, KeepsJobs
    PROVE  StopInv'
<1> USE DEF rowVars, tableVars, providerVars, sweepVars
<1>0. CallsKnow /\ Stored /\ NamesAreStarted /\ StoppedMeansOver
  BY DEF StopInv, Stored
<1>a. /\ pc \in [Actors -> HandlerLabels \union SweeperLabels]
      /\ task \in [Actors -> Task \union {NoTask}]
      /\ egress \in [Recordings -> MaybeJob]
  BY DEF TypeInv, TypeOK, ActorInv, TypeOfActors, TypeOfRows
<1>b. h \in Actors
  BY DEF Actors
<1>1. Stored' /\ StoppedMeansOver'
  BY <1>0, StoredHolds, NamesHold, StoppedHolds
     DEF Arrive, BeginRecording, EndInterview, WithdrawConsent, ReceiveStatus,
         TakeEvent
<1>2. ASSUME NEW r \in Recordings, BeginRecording(h, r) \/ WithdrawConsent(h, r)
      PROVE  CallsKnow'
  BY <1>2, <1>0, <1>b, ActorForgets
     DEF BeginRecording, WithdrawConsent, Enter, Goto, KnowingLabels
<1>3. ASSUME NEW r \in Recordings, EndInterview(h, r) PROVE CallsKnow'
  <2>1. CallKnows(h)'
    BY <1>3, <1>a, <1>b DEF EndInterview, Enter, Goto, Call, CallKnows
  <2> QED
    BY <1>3, <2>1, <1>0, <1>b, ActorKnows DEF EndInterview, Enter, Goto
<1>4. ASSUME NEW e \in sent, ReceiveStatus(h, e) PROVE CallsKnow'
  <2>1. PICK r \in Recordings : ApplyStatus(h, e, r)
    BY <1>4 DEF ReceiveStatus
  <2>2. e.job \in Jobs /\ e.status \in Statuses
    BY DEF TypeInv, TypeOK, TypeOfProvider, Event
  <2>3. CASE Goto(h, "ack") /\ UNCHANGED task
    <3>1. task' = [task EXCEPT ![h] = task[h]]
      BY <2>3, <1>a
    <3> QED
      BY <2>3, <3>1, <1>0, <1>b, ActorForgets DEF Goto, KnowingLabels
  <2>4. CASE ~(Goto(h, "ack") /\ UNCHANGED task)
    <3> DEFINE t == Call(r, e.job, EgressOutcome[e.status].next,
                         EgressOutcome[e.status].why, "ack")
    <3>1. Enter(h, "status_mark", t) /\ EgressOutcome[e.status] # NoOutcome
      BY <2>1, <2>4 DEF ApplyStatus
    <3>2. e.status \in TerminalStatuses
      BY <3>1, <2>2 DEF EgressOutcome, Statuses
    <3>3. Over(e.job)
      BY <3>2, <1>0 DEF Stored, NewsIsTrue
    <3>4. t.rec = r /\ t.job = e.job
      BY DEF Call
    <3> HIDE DEF t
    <3>5. CallKnows(h)'
      BY <1>4, <2>1, <2>2, <3>1, <3>3, <3>4, <1>a, <1>b, NoJobAssumption
         DEF ReceiveStatus, TakeEvent, ApplyStatus, Enter, Goto, CallKnows, Over
    <3> QED
      BY <3>1, <3>5, <1>0, <1>b, ActorKnows DEF Enter, Goto
  <2> QED
    BY <2>3, <2>4
<1> QED
  BY <1>1, <1>2, <1>3, <1>4 DEF Arrive, StopInv, Stored

\* every step of a request in flight, the webhook's mark_stopped among them,
LEMMA HandlerStepStops ==
    ASSUME TypeInv, StopInv, NEW h \in Handlers, HandlerStep(h), KeepsEgress, KeepsJobs
    PROVE  StopInv'
<1> USE DEF rowVars, tableVars, providerVars, sweepVars
<1>0. CallsKnow /\ Stored /\ NamesAreStarted /\ StoppedMeansOver
  BY DEF StopInv, Stored
<1>a. /\ pc \in [Actors -> HandlerLabels \union SweeperLabels]
      /\ task \in [Actors -> Task \union {NoTask}]
      /\ egress \in [Recordings -> MaybeJob]
  BY DEF TypeInv, TypeOK, ActorInv, TypeOfActors, TypeOfRows
<1>b. /\ h \in Actors
      /\ pc[h] \in CallLabels =>
             task[h] \in Task /\ task[h].rec \in Recordings /\ task[h].back \notin KnowingLabels
  BY DEF TypeInv, ActorInv, CallsAreTyped, Task, Backs, KnowingLabels, Actors
<1>c. ASSUME pc[h] \in CallLabels, Return(h) PROVE CallsKnow'
  BY <1>c, <1>0, <1>b, ActorForgets DEF Return, Leave, Goto
<1>d. ASSUME NEW p, p \notin KnowingLabels, Goto(h, p), UNCHANGED task PROVE CallsKnow'
  <2>1. task' = [task EXCEPT ![h] = task[h]]
    BY <1>d, <1>a
  <2> QED
    BY <1>d, <2>1, <1>0, <1>b, ActorForgets DEF Goto
<1>1. CASE CallStep(h)
  BY <1>1, <1>b, CallStepStops
<1>2. CASE ~CallStep(h)
  <2>1. Stored'
    BY <1>2, <1>0, StoredHolds, NamesHold
       DEF HandlerStep, LookForRecording, StatusMarksStopped, StatusMovesRow,
           StatusQueuesDelivery, Acknowledge
  <2>2. StoppedMeansOver'
    <3>1. CASE StatusMarksStopped(h)
      <4>1. egress[task[h].rec] = task[h].job /\ task[h].job # NoJob /\ Over(task[h].job)
        BY <3>1, <1>0, <1>b DEF StatusMarksStopped, CallsKnow, CallKnows
      <4> QED
        BY <3>1, <4>1, <1>0 DEF StatusMarksStopped, MarkStopped, StoppedMeansOver, Over
    <3>2. CASE ~StatusMarksStopped(h)
      BY <1>2, <3>2, <1>0, StoppedHolds
         DEF HandlerStep, LookForRecording, StatusMovesRow, StatusQueuesDelivery,
             Acknowledge
    <3> QED
      BY <3>1, <3>2
  <2>3. CallsKnow'
    <3>1. CASE LookForRecording(h)
      <4>1. CASE Return(h)
        BY <3>1, <4>1, <1>c DEF LookForRecording, CallLabels
      <4>2. CASE ~Return(h)
        <5> DEFINE t == [task[h] EXCEPT !.job = egress[task[h].rec]]
        <5>1. Enter(h, "move", t) /\ pc[h] \in CallLabels /\ UNCHANGED egress
          BY <3>1, <4>2 DEF LookForRecording, CallLabels
        <5>2. t.rec = task[h].rec /\ t.job = egress[task[h].rec]
          BY <5>1, <1>b DEF Task
        <5> HIDE DEF t
        <5>3. CallKnows(h)'
          BY <5>1, <5>2, <1>a, <1>b DEF Enter, Goto, CallKnows
        <5> QED
          BY <5>1, <5>3, <1>0, <1>b, ActorKnows DEF Enter, Goto
      <4> QED
        BY <4>1, <4>2
    <3>2. CASE StatusMarksStopped(h) \/ StatusMovesRow(h) \/ StatusQueuesDelivery(h)
               \/ Acknowledge(h)
      BY <3>2, <1>c, <1>d
         DEF StatusMarksStopped, StatusMovesRow, StatusQueuesDelivery, Acknowledge,
             CallLabels, KnowingLabels
    <3> QED
      BY <1>2, <3>1, <3>2 DEF HandlerStep
  <2> QED
    BY <2>1, <2>2, <2>3 DEF StopInv, Stored
<1> QED
  BY <1>1, <1>2

\* every step of a sweep, which stops jobs by snapshots that may be old,
LEMMA SweeperStepStops ==
    ASSUME TypeInv, StopInv, NEW s \in Sweepers, SweeperStep(s), KeepsEgress, KeepsJobs
    PROVE  StopInv'
<1> USE DEF rowVars, tableVars, providerVars, sweepVars
<1>0. CallsKnow /\ Stored /\ NamesAreStarted /\ StoppedMeansOver
  BY DEF StopInv, Stored
<1>a. /\ pc \in [Actors -> HandlerLabels \union SweeperLabels]
      /\ task \in [Actors -> Task \union {NoTask}]
      /\ egress \in [Recordings -> MaybeJob]
  BY DEF TypeInv, TypeOK, ActorInv, TypeOfActors, TypeOfRows
<1>b. /\ s \in Actors
      /\ pc[s] \in CallLabels =>
             task[s] \in Task /\ task[s].rec \in Recordings /\ task[s].back \notin KnowingLabels
      /\ todo \in [Sweepers -> SUBSET Snapshot]
      /\ orphans \in [Sweepers -> SUBSET (Recordings \X Jobs)]
  BY DEF TypeInv, TypeOK, TypeOfSweeps, ActorInv, CallsAreTyped, Task, Backs, KnowingLabels,
         Actors
<1>c. ASSUME pc[s] \in CallLabels, Return(s) PROVE CallsKnow'
  BY <1>c, <1>0, <1>b, ActorForgets DEF Return, Leave, Goto
<1>d. ASSUME NEW p, p \notin KnowingLabels, Goto(s, p), UNCHANGED task PROVE CallsKnow'
  <2>1. task' = [task EXCEPT ![s] = task[s]]
    BY <1>d, <1>a
  <2> QED
    BY <1>d, <2>1, <1>0, <1>b, ActorForgets DEF Goto
<1>1. CASE CallStep(s)
  BY <1>1, <1>b, CallStepStops
<1>2. CASE RequeueOrphanedWork(s) \/ ReadDue(s) \/ EndSweep(s)
  <2>1. Stored' /\ StoppedMeansOver'
    BY <1>2, <1>0, <1>b, StoredHolds, NamesHold, StoppedHolds
       DEF RequeueOrphanedWork, ReadDue, EndSweep
  <2>2. CallsKnow'
    BY <1>2, <1>d DEF RequeueOrphanedWork, ReadDue, EndSweep, KnowingLabels
  <2> QED
    BY <2>1, <2>2 DEF StopInv, Stored
<1>3. CASE ReadStale(s)
  <2>1. NamesAreStarted' /\ StoppedMeansOver' /\ NewsIsTrue' /\ OrphansHold'
    BY <1>3, <1>0, NamesHold, StoppedHolds
       DEF ReadStale, Stored, NewsIsTrue, OrphansHold, Over
  <2>2. SnapshotsHold'
    BY <1>3, <1>0, <1>b DEF ReadStale, Row, Stored, SnapshotsHold
  <2>3. CallsKnow'
    BY <1>3, <1>d DEF ReadStale, KnowingLabels
  <2> QED
    BY <2>1, <2>2, <2>3 DEF StopInv
<1>4. CASE \E r \in Recordings : DeleteRecording(s, r) \/ DeletionFails(s, r)
  <2>1. Stored' /\ StoppedMeansOver'
    BY <1>4, <1>0, <1>b, StoredHolds, NamesHold, StoppedHolds
       DEF DeleteRecording, DeletionFails, DueHandled
  <2>2. CallsKnow'
    BY <1>4, <1>d DEF DeleteRecording, DeletionFails, DueHandled, KnowingLabels
  <2> QED
    BY <2>1, <2>2 DEF StopInv, Stored
<1>5. ASSUME NEW taken \in todo[s],
             \/ SweepKilled(s, taken) \/ SweepRetries(s, taken) \/ SweepGivesUp(s, taken)
             \/ SweepWaits(s, taken) \/ SweepAbandons(s, taken)
      PROVE  StopInv'
  <2>1. SweepRow(s, taken)
    BY <1>5 DEF SweepKilled, SweepRetries, SweepGivesUp, SweepWaits, SweepAbandons
  <2>2. Stored' /\ StoppedMeansOver'
    BY <2>1, <1>0, <1>b, StoredHolds, NamesHold, StoppedHolds DEF SweepRow
  <2>3. ASSUME NEW why, FailStale(s, taken, why) PROVE CallsKnow'
    <3>1. CallKnows(s)'
      BY <2>1, <2>3, <1>0, <1>a, <1>b
         DEF SweepRow, FailStale, Enter, Goto, Call, CallKnows, Stored, SnapshotsHold
    <3> QED
      BY <2>3, <3>1, <1>0, <1>b, ActorKnows DEF FailStale, Enter, Goto
  <2>4. ASSUME SweepRetries(s, taken) PROVE CallsKnow'
    BY <2>4, <1>0, <1>b, ActorForgets DEF SweepRetries, Enter, Goto, KnowingLabels
  <2>5. ASSUME SweepWaits(s, taken) PROVE CallsKnow'
    BY <2>5, <1>0, ActorsKnow DEF SweepWaits
  <2>6. CallsKnow'
    BY <1>5, <2>3, <2>4, <2>5 DEF SweepKilled, SweepGivesUp, SweepAbandons
  <2> QED
    BY <2>2, <2>6 DEF StopInv, Stored
<1>6. CASE ClaimRetry(s) \/ AdoptFindsNone(s) \/ AdoptFails(s) \/ BumpRetry(s)
  <2>1. Stored' /\ StoppedMeansOver'
    BY <1>6, <1>0, <1>b, StoredHolds, NamesHold, StoppedHolds
       DEF ClaimRetry, AdoptFindsNone, AdoptFails, BumpRetry
  <2>2. CallsKnow'
    BY <1>6, <1>c, <1>d
       DEF ClaimRetry, AdoptFindsNone, AdoptFails, BumpRetry, CallLabels, KnowingLabels
  <2> QED
    BY <2>1, <2>2 DEF StopInv, Stored
<1>7. ASSUME NEW j \in Jobs, AdoptFindsJob(s, j) PROVE StopInv'
  <2>1. Stored' /\ StoppedMeansOver'
    BY <1>7, <1>0, <1>b, StoredHolds, NamesHold, StoppedHolds DEF AdoptFindsJob
  <2>2. CallKnows(s)'
    BY <1>7, <1>a, <1>b
       DEF AdoptFindsJob, ActiveInRoom, Enter, Goto, CallKnows, Started, CallLabels, Task
  <2>3. CallsKnow'
    BY <1>7, <2>2, <1>0, <1>b, ActorKnows DEF AdoptFindsJob, Enter, Goto
  <2> QED
    BY <2>1, <2>3 DEF StopInv, Stored
<1>8. CASE ReadOrphans(s)
  <2>1. NamesAreStarted' /\ StoppedMeansOver' /\ NewsIsTrue' /\ SnapshotsHold'
    BY <1>8, <1>0, NamesHold, StoppedHolds
       DEF ReadOrphans, Stored, NewsIsTrue, SnapshotsHold, Over
  <2>2. OrphansHold'
    BY <1>8, <1>0, <1>b DEF ReadOrphans, Stored, OrphansHold
  <2>3. CallsKnow'
    BY <1>8, <1>d DEF ReadOrphans, KnowingLabels
  <2> QED
    BY <2>1, <2>2, <2>3 DEF StopInv
<1>9. ASSUME NEW o \in orphans[s], AskOrphan(s, o) PROVE StopInv'
  <2>1. Stored' /\ StoppedMeansOver'
    BY <1>9, <1>0, <1>b, StoredHolds, NamesHold, StoppedHolds DEF AskOrphan
  <2>2. CallKnows(s)'
    BY <1>9, <1>0, <1>a, <1>b
       DEF AskOrphan, Enter, Goto, Call, CallKnows, Stored, OrphansHold
  <2>3. CallsKnow'
    BY <1>9, <2>2, <1>0, <1>b, ActorKnows DEF AskOrphan, Enter, Goto
  <2> QED
    BY <2>1, <2>3 DEF StopInv, Stored
<1> QED
  BY <1>1, <1>2, <1>3, <1>4, <1>5, <1>6, <1>7, <1>8, <1>9 DEF SweeperStep

\* and everything the delivery worker, the provider, the clock and a restart do.
LEMMA WorldStops ==
    ASSUME TypeInv, StopInv, KeepsEgress, KeepsJobs,
           \/ DeliveryStep
           \/ ProviderStep
           \/ Tick
           \/ \E a \in Actors : Crash(a)
           \/ ThrowKillSwitch
           \/ UNCHANGED vars
    PROVE  StopInv'
<1> USE DEF rowVars, tableVars, providerVars, sweepVars, actorVars
<1>0. CallsKnow /\ Stored /\ NamesAreStarted /\ StoppedMeansOver
  BY DEF StopInv, Stored
<1>1. ASSUME DeliveryStep \/ Tick \/ UNCHANGED vars PROVE StopInv'
  <2>1. UNCHANGED <<egress, stopped, sent, todo, orphans, pc, task>>
    BY <1>1
       DEF DeliveryStep, WorkerMoves, WorkerReleases, Deliver, DeliveryAttemptFails,
           DeliveryGivesUp, ReopenDelivery, ReleaseClaim, MoveRow, OperatorRetries, Tick, vars
  <2> QED
    BY <2>1, <1>0, StoredHolds, NamesHold, StoppedHolds, ActorsKnow DEF StopInv, Stored
<1>2. ASSUME NEW j \in Jobs,
             JobReports(j) \/ \E status \in Statuses : JobEnds(j, status)
      PROVE  StopInv'
  <2>1. UNCHANGED <<egress, stopped, todo, orphans, pc, task>>
    BY <1>2 DEF JobReports, JobEnds, Send
  <2>2. NamesAreStarted' /\ StoppedMeansOver' /\ CallsKnow'
    BY <2>1, <1>0, NamesHold, StoppedHolds, ActorsKnow
  <2>3. SnapshotsHold' /\ OrphansHold'
    BY <2>1, <1>0 DEF Stored, SnapshotsHold, OrphansHold
  <2>4. NewsIsTrue'
    <3>1. ASSUME NEW e \in sent, e.status \in TerminalStatuses PROVE Over(e.job)'
      BY <3>1, <1>0
         DEF Stored, NewsIsTrue, KeepsJobs, TypeInv, TypeOK, TypeOfProvider, Event
    <3>2. CASE JobReports(j)
      BY <3>1, <3>2 DEF JobReports, Send, NewsIsTrue, TerminalStatuses
    <3>3. CASE \E status \in Statuses : JobEnds(j, status)
      BY <3>1, <3>3
         DEF JobEnds, Send, NewsIsTrue, Over, TypeInv, TypeOK, TypeOfProvider
    <3> QED
      BY <1>2, <3>2, <3>3
  <2> QED
    BY <2>2, <2>3, <2>4 DEF StopInv
<1>3. ASSUME NEW gone \in SUBSET Actors, Drop(gone) PROVE StopInv'
  <2>1. Stored' /\ StoppedMeansOver'
    BY <1>3, <1>0, StoredHolds, NamesHold, StoppedHolds DEF Drop
  <2>2. ASSUME NEW b \in Actors PROVE CallKnows(b)'
    <3>1. CASE b \in gone
      BY <1>3, <3>1 DEF Drop, CallKnows
    <3>2. CASE b \notin gone
      BY <1>3, <3>2, <1>0, BystanderKnows DEF Drop, CallsKnow
    <3> QED
      BY <3>1, <3>2
  <2> QED
    BY <2>1, <2>2 DEF StopInv, Stored, CallsKnow
<1>4. ASSUME (\E a \in Actors : Crash(a)) \/ ThrowKillSwitch PROVE StopInv'
  BY <1>3, <1>4 DEF Crash, ThrowKillSwitch
<1> QED
  BY <1>1, <1>2, <1>4 DEF ProviderStep

\* The strengthened invariant is inductive, relative to the types.
LEMMA StopInvNext == TypeInv /\ StopInv /\ [Next]_vars => StopInv'
<1> SUFFICES ASSUME TypeInv, StopInv, [Next]_vars PROVE StopInv'
  OBVIOUS
<1>1. KeepsEgress /\ KeepsJobs
  BY Keeps
<1> QED
  BY <1>1, ArriveStops, HandlerStepStops, SweeperStepStops, WorldStops DEF Next

\* stopped_at is only ever set on a row whose job has agreed to end or has
\* ended, however requests, webhooks, sweeps and restarts interleave.
THEOREM StoppedIsOver == Spec => []StoppedMeansOver
<1>1. Spec => [](TypeInv /\ StopInv)
  <2>1. Init => TypeInv /\ StopInv
    BY TypeInvInit, StopInvInit
  <2>2. (TypeInv /\ StopInv) /\ [Next]_vars => (TypeInv /\ StopInv)'
    BY TypeInvNext, StopInvNext
  <2> QED
    BY <2>1, <2>2, PTL DEF Spec
<1>2. StopInv => StoppedMeansOver
  BY DEF StopInv
<1> QED
  BY <1>1, <1>2, PTL

=============================================================================
