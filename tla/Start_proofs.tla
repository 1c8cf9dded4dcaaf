---------------------------- MODULE Start_proofs ----------------------------
(***************************************************************************)
(* InterviewStart and ProviderPool: the two halves of a start, its room    *)
(* and the project it is on.                                               *)
(*                                                                         *)
(* A released start is not staffed, and a consent is spent once, for any   *)
(* number of requests, rooms, interviews and accounts.                     *)
(*                                                                         *)
(* Neither is inductive.  The first needs that a room's slot, its start    *)
(* and its task come and go together (RoomsAgree).  The second needs that  *)
(* at most one request or task answers for a claimed consent, and that the *)
(* row names its room (ClaimsHold): whoever gives a consent back is then   *)
(* the only one who could, and has not seen its candidate accepted.        *)
(***************************************************************************)
EXTENDS InterviewStart, ProviderPool, TLAPS

\* A request answers for the consent it claimed until its room has a task,
RequestHolds(q, i) == request[q].interview = i /\ request[q].at \in {"claimed", "give back"}

\* and the task until it has given it back or its interview is over.
TaskHolds(r, i) == task[r].interview = i /\ task[r].at \notin {"none", "ends"}

RoomsAgree ==
    \A r \in Rooms :
        /\ live[r] = "none" <=> starts[r] = NoStart
        /\ live[r] = "none" <=> task[r].at = "none"
        /\ task[r].at = "runs" => starts[r] # NoStart /\ starts[r].phase = "joined"

\* What has been asked for names a room, only an answered request has a page, and
\* only a consent is given back.
RequestsHaveRooms ==
    \A q \in Requests :
        /\ request[q].at # "idle" => request[q].room \in Rooms
        /\ page[q] # "none" \/ q \in givingUp => request[q].at = "over"
        /\ request[q].at = "give back" => request[q].interview # NoInterview

RequestsHold ==
    \A q \in Requests, i \in Interviews : RequestHolds(q, i) =>
        /\ interviews[i].room = request[q].room /\ i \notin accepted
        /\ \A p \in Requests : RequestHolds(p, i) => p = q
        /\ \A r \in Rooms : ~TaskHolds(r, i)

TasksHold ==
    \A r \in Rooms, i \in Interviews : TaskHolds(r, i) =>
        interviews[i].room = r /\ (i \in accepted => task[r].at = "runs")

SpentIsBound ==
    \A i \in Interviews : i \in accepted \/ interviews[i].recorded
        => interviews[i].room # NoRoom

ClaimsHold == RequestsHold /\ TasksHold /\ SpentIsBound

StartInv == StartTypeOK /\ RequestsHaveRooms /\ RoomsAgree /\ ClaimsHold

\* A slot that is there has a start of its own, which is not NoStart.
LEMMA StartIsThere == NoStart \notin RoomStart
BY DispatchLimits DEF RoomStart

(***************************************************************************)
(* Types                                                                   *)
(***************************************************************************)
\* Nothing is reserved, claimed or under way at the start.
LEMMA StartTypeInit == StartInit => StartTypeOK
<1> SUFFICES ASSUME StartInit PROVE StartTypeOK
  OBVIOUS
<1>1. DispatchTypeOK
  BY DEF StartInit, DispatchInit, DispatchTypeOK
<1>2. ConsentTypeOK
  BY DEF StartInit, ConsentInit, ConsentTypeOK, Interview
<1>3. request \in [Requests -> Request] /\ task \in [Rooms -> Task]
  BY DEF StartInit, Request, Task, NoTask
<1>4. losses \in 0..MaxLosses
  BY StartConstants DEF StartInit
<1> QED
  BY <1>1, <1>2, <1>3, <1>4 DEF StartInit, StartTypeOK

\* What a request becomes as it goes on is a request.
LEMMA ProceedsType ==
    ASSUME StartTypeOK, NEW q \in Requests,
           NEW where \in {"checked", "claimed", "give back", "over"}, Proceeds(q, where)
    PROVE  request' \in [Requests -> Request]
<1>1. request \in [Requests -> Request] /\ request[q] \in Request
  BY DEF StartTypeOK
<1>2. [request[q] EXCEPT !.at = where] \in Request
  BY <1>1 DEF Request
<1>3. Over(q) \in Request
  BY <1>1 DEF Over, Request
<1> QED BY <1>1, <1>2, <1>3 DEF Proceeds

\* And a task that moves is a task.
LEMMA MovesType ==
    ASSUME StartTypeOK, NEW r \in Rooms,
           NEW where \in {"waits", "found", "runs", "leaves", "gives back", "ends"},
           Moves(r, where)
    PROVE  task' \in [Rooms -> Task]
<1>1. task \in [Rooms -> Task] /\ task[r] \in Task
  BY DEF StartTypeOK
<1>2. [task[r] EXCEPT !.at = where] \in Task
  BY <1>1 DEF Task
<1> QED BY <1>1, <1>2 DEF Moves

\* The statements write rows.
LEMMA RowsType ==
    ASSUME ConsentTypeOK, NEW i, NEW a, NEW r \in Rooms \cup {NoRoom},
           ClaimInterviewRoom(i, a, r) \/ ReleaseInterviewRoom(i, a, r)
    PROVE  ConsentTypeOK'
BY StartConstants
   DEF ConsentTypeOK, Interview, ClaimInterviewRoom, ReleaseInterviewRoom

\* The account's own statements keep every type.
LEMMA AccountStepType ==
    ASSUME StartTypeOK, Consents \/ Withdraws \/ StartsRecording
    PROVE  StartTypeOK'
<1>1. ASSUME NEW a \in Accounts, NEW i \in Interviews,
             \/ interviews' = [interviews EXCEPT ![i].account = a]
             \/ interviews' = [interviews EXCEPT ![i].withdrawn = TRUE]
             \/ interviews' = [interviews EXCEPT ![i].recorded = TRUE]
      PROVE  ConsentTypeOK'
  <2>1. interviews[i] \in Interview
    BY DEF StartTypeOK, ConsentTypeOK
  <2>2. CASE interviews' = [interviews EXCEPT ![i].account = a]
    BY <2>1, <2>2 DEF StartTypeOK, ConsentTypeOK, Interview
  <2>3. CASE interviews' = [interviews EXCEPT ![i].withdrawn = TRUE]
    BY <2>1, <2>3 DEF StartTypeOK, ConsentTypeOK, Interview
  <2>4. CASE interviews' = [interviews EXCEPT ![i].recorded = TRUE]
    BY <2>1, <2>4 DEF StartTypeOK, ConsentTypeOK, Interview
  <2> QED
    BY <1>1, <2>2, <2>3, <2>4
<1>2. ConsentTypeOK'
  BY <1>1 DEF Consents, Withdraws, StartsRecording, CreateInterview, WithdrawConsent,
              BeginRecording
<1> QED
  BY <1>2
     DEF Consents, Withdraws, StartsRecording, StartTypeOK, DispatchTypeOK, dispatchVars,
         pageVars, history

\* So do the steps of a request,
LEMMA RequestStepType ==
    ASSUME StartTypeOK, RequestsHaveRooms,
           NEW q \in Requests, AsksToken(q) \/ RequestGoesOn(q)
    PROVE  StartTypeOK'
<1> USE DEF dispatchVars, pageVars, history
<1>a. request[q] \in Request
  BY DEF StartTypeOK
<1>1. ASSUME AsksToken(q) PROVE StartTypeOK'
  <2>1. request' \in [Requests -> Request]
    <3>1. PICK a \in Accounts \cup {NoAccount}, i \in Interviews \cup {NoInterview},
               r \in {q, PinnedRoom} :
            request' = [request EXCEPT ![q] =
                         [at |-> "checked", account |-> a, interview |-> i, room |-> r]]
      BY <1>1 DEF AsksToken
    <3>2. r \in Rooms
      BY StartConstants
    <3> QED
      BY <3>1, <3>2 DEF StartTypeOK, Request
  <2> QED
    BY <1>1, <2>1 DEF AsksToken, StartTypeOK, DispatchTypeOK, ConsentTypeOK
<1>2. ASSUME ClaimsConsent(q) PROVE StartTypeOK'
  <2>1. request' \in [Requests -> Request]
    BY <1>2, ProceedsType DEF ClaimsConsent
  <2>2. ConsentTypeOK'
    BY <1>2, <1>a, RowsType DEF ClaimsConsent, StartTypeOK, ConsentTypeOK, Request
  <2> QED
    BY <1>2, <2>1, <2>2 DEF ClaimsConsent, StartTypeOK, DispatchTypeOK
<1>3. ASSUME Dispatches(q) PROVE StartTypeOK'
  <2>1. request' \in [Requests -> Request]
    BY <1>3, ProceedsType DEF Dispatches
  <2>2. DispatchTypeOK' /\ task' \in [Rooms -> Task]
    <3>1. ASSUME Reserve(request[q].room, request[q].account = NoAccount, q),
                 request[q].room \in Rooms
          PROVE  DispatchTypeOK'
      BY <3>1 DEF Reserve, StartTypeOK, DispatchTypeOK, Requests, RoomStart
    <3>2. request[q].room \in Rooms
      BY <1>3 DEF Dispatches, RequestsHaveRooms, At
    <3>3. [at |-> "begins", interview |-> request[q].interview,
           account |-> request[q].account] \in Task
      BY <1>a DEF Task, Request
    <3>4. CASE UNCHANGED <<dispatchVars, task>>
      BY <3>4 DEF StartTypeOK, DispatchTypeOK
    <3>5. CASE /\ Reserve(request[q].room, request[q].account = NoAccount, q)
               /\ task' = [task EXCEPT ![request[q].room] =
                            [at |-> "begins", interview |-> request[q].interview,
                             account |-> request[q].account]]
      BY <3>1, <3>2, <3>3, <3>5 DEF StartTypeOK
    <3> QED
      BY <1>3, <3>4, <3>5 DEF Dispatches
  <2>3. page' \in [Requests -> {"none", "holds token", "in room", "gone"}]
        /\ lost' \subseteq Interviews
    BY <1>3, <1>a DEF Dispatches, StartTypeOK, Request
  <2> QED
    BY <1>3, <2>1, <2>2, <2>3 DEF Dispatches, StartTypeOK, ConsentTypeOK
<1>4. ASSUME GivesBackConsent(q) PROVE StartTypeOK'
  <2>1. request' \in [Requests -> Request]
    BY <1>4, ProceedsType DEF GivesBackConsent
  <2>2. ConsentTypeOK'
    BY <1>4, <1>a, RowsType DEF GivesBackConsent, StartTypeOK, Request
  <2> QED
    BY <1>4, <2>1, <2>2 DEF GivesBackConsent, StartTypeOK, DispatchTypeOK
<1> QED
  BY <1>1, <1>2, <1>3, <1>4 DEF RequestGoesOn

\* those of a page,
LEMMA PageStepType ==
    ASSUME StartTypeOK, RequestsHaveRooms,
           NEW q \in Requests, PageJoins(q) \/ PageGivesUp(q) \/ ReleaseArrives(q)
    PROVE  StartTypeOK'
<1> USE DEF dispatchVars, pageVars, history
<1>1. ASSUME PageJoins(q) \/ PageGivesUp(q) PROVE StartTypeOK'
  BY <1>1 DEF PageJoins, PageGivesUp, StartTypeOK, DispatchTypeOK, ConsentTypeOK
<1>2. ASSUME ReleaseArrives(q) PROVE StartTypeOK'
  <2>1. request[q].room \in Rooms
    BY <1>2 DEF ReleaseArrives, RequestsHaveRooms
  <2>2. DispatchTypeOK'
    <3>1. CASE UNCHANGED <<starts, permits>>
      BY <1>2, <3>1 DEF ReleaseArrives, ReleaseStart, StartTypeOK, DispatchTypeOK
    <3>2. CASE /\ starts[request[q].room] # NoStart
               /\ starts' = [starts EXCEPT ![request[q].room].phase = "released"]
               /\ permits' = permits \cup {request[q].room}
      <4>1. starts' \in [Rooms -> RoomStart \cup {NoStart}]
        BY <2>1, <3>2 DEF StartTypeOK, DispatchTypeOK, RoomStart
      <4> QED
        BY <1>2, <2>1, <3>2, <4>1 DEF ReleaseArrives, ReleaseStart, StartTypeOK, DispatchTypeOK
    <3> QED
      BY <1>2, <3>1, <3>2 DEF ReleaseArrives, ReleaseStart
  <2> QED
    BY <1>2, <2>2 DEF ReleaseArrives, StartTypeOK, ConsentTypeOK
<1> QED
  BY <1>1, <1>2

\* those of a task,
LEMMA TaskStepType ==
    ASSUME StartTypeOK, RoomsAgree,
           NEW r \in Rooms, TaskGoesOn(r) \/ FinishesAssessment(r)
    PROVE  StartTypeOK'
<1> USE DEF dispatchVars, pageVars, history
<1>a. task[r] \in Task
  BY DEF StartTypeOK
<1>1. ASSUME TaskBegins(r) \/ CandidateIsThere(r) \/ HearsRelease(r) \/ WaitsTooLong(r)
             \/ RoomCloses(r) \/ LeavesRoom(r) \/ InterviewEnds(r)
      PROVE  StartTypeOK'
  <2>1. task' \in [Rooms -> Task]
    BY <1>1, MovesType
       DEF TaskBegins, CandidateIsThere, HearsRelease, WaitsTooLong, RoomCloses, LeavesRoom,
           InterviewEnds
  <2>2. DispatchTypeOK'
    BY <1>1
       DEF TaskBegins, CandidateIsThere, HearsRelease, WaitsTooLong, RoomCloses, LeavesRoom,
           InterviewEnds, StartTypeOK, DispatchTypeOK
  <2> QED
    BY <1>1, <2>1, <2>2
       DEF TaskBegins, CandidateIsThere, HearsRelease, WaitsTooLong, RoomCloses, LeavesRoom,
           InterviewEnds, StartTypeOK, ConsentTypeOK
<1>2. ASSUME ClaimsJoin(r) PROVE StartTypeOK'
  <2>1. task' \in [Rooms -> Task]
    BY <1>2, MovesType DEF ClaimsJoin
  <2>2. starts[r] # NoStart
    BY <1>2 DEF ClaimsJoin, TaskAt, RoomsAgree
  <2>3. DispatchTypeOK'
    <3>1. ASSUME AcceptCandidate(r) PROVE starts' \in [Rooms -> RoomStart \cup {NoStart}]
      BY <2>2, <3>1 DEF AcceptCandidate, StartTypeOK, DispatchTypeOK, RoomStart
    <3> QED
      BY <1>2, <3>1 DEF ClaimsJoin, AcceptCandidate, StartTypeOK, DispatchTypeOK
  <2>4. accepted' \subseteq Interviews
    BY <1>2, <1>a DEF ClaimsJoin, StartTypeOK, Task
  <2> QED
    BY <1>2, <2>1, <2>3, <2>4 DEF ClaimsJoin, StartTypeOK, ConsentTypeOK
<1>3. ASSUME ReleasesNoShow(r) PROVE StartTypeOK'
  <2>1. task' \in [Rooms -> Task]
    BY <1>3, MovesType DEF ReleasesNoShow
  <2>2. ConsentTypeOK'
    BY <1>3, RowsType DEF ReleasesNoShow, StartTypeOK, ConsentTypeOK
  <2> QED
    BY <1>3, <2>1, <2>2 DEF ReleasesNoShow, StartTypeOK, DispatchTypeOK
<1>4. ASSUME TaskEnds(r) PROVE StartTypeOK'
  <2>1. NoTask \in Task
    BY DEF NoTask, Task
  <2> QED
    BY <1>4, <2>1 DEF TaskEnds, DropSlot, StartTypeOK, DispatchTypeOK, ConsentTypeOK
<1>5. ASSUME FinishesAssessment(r) PROVE StartTypeOK'
  BY <1>5 DEF FinishesAssessment, AssessmentFinished, StartTypeOK, DispatchTypeOK, ConsentTypeOK
<1> QED
  BY <1>1, <1>2, <1>3, <1>4, <1>5 DEF TaskGoesOn

\* and those of the process.
LEMMA ProcessStepType ==
    ASSUME StartTypeOK, RequestsHaveRooms, ShutdownBegins \/ Restarts \/ ReleaseFails
    PROVE  StartTypeOK'
<1> USE DEF dispatchVars, pageVars, history
<1>a. losses \in 0..MaxLosses /\ MaxLosses \in Nat
  BY StartConstants DEF StartTypeOK
<1>1. ASSUME ShutdownBegins PROVE StartTypeOK'
  BY <1>1 DEF ShutdownBegins, CloseAdmission, StartTypeOK, DispatchTypeOK, ConsentTypeOK
<1>2. ASSUME Restarts PROVE StartTypeOK'
  <2>1. DispatchTypeOK'
    BY <1>2 DEF Restarts, ForgetRooms, DispatchTypeOK
  <2>2. request' \in [Requests -> Request]
    BY <1>2 DEF Restarts, Over, StartTypeOK, Request
  <2>3. task' \in [Rooms -> Task]
    BY <1>2 DEF Restarts, NoTask, Task
  <2>4. AnsweredFor \subseteq Interviews \cup {NoInterview}
    <3>1. \A q \in Requests : request[q].interview \in Interviews \cup {NoInterview}
      BY DEF StartTypeOK, Request
    <3>2. \A r \in Rooms : task[r].interview \in Interviews \cup {NoInterview}
      BY DEF StartTypeOK, Task
    <3> QED
      BY <3>1, <3>2 DEF AnsweredFor
  <2>5. losses' \in 0..MaxLosses
    BY <1>2, <1>a DEF Restarts
  <2> QED
    BY <1>2, <2>1, <2>2, <2>3, <2>4, <2>5 DEF Restarts, StartTypeOK, ConsentTypeOK
<1>3. ASSUME ReleaseFails PROVE StartTypeOK'
  <2>1. losses' \in 0..MaxLosses
    <3>1. losses < MaxLosses /\ losses' = losses + 1
      BY <1>3, Zenon DEF ReleaseFails
    <3> QED
      BY <1>a, <3>1
  <2>2. ASSUME NEW q \in Requests, At(q, "give back"), Proceeds(q, "over"),
               UNCHANGED task, lost' = lost \cup {request[q].interview}
        PROVE  /\ request' \in [Requests -> Request] /\ task' \in [Rooms -> Task]
               /\ lost' \subseteq Interviews
    <3>1. request[q].interview \in Interviews
      BY <2>2 DEF At, RequestsHaveRooms, StartTypeOK, Request
    <3> QED
      BY <2>2, <3>1, ProceedsType DEF StartTypeOK
  <2>3. ASSUME NEW r \in Rooms, task[r].interview # NoInterview, Moves(r, "ends"),
               UNCHANGED request, lost' = lost \cup {task[r].interview}
        PROVE  /\ request' \in [Requests -> Request] /\ task' \in [Rooms -> Task]
               /\ lost' \subseteq Interviews
    <3>1. task[r].interview \in Interviews
      BY <2>3 DEF StartTypeOK, Task
    <3> QED
      BY <2>3, <3>1, MovesType DEF StartTypeOK
  <2>4. /\ request' \in [Requests -> Request] /\ task' \in [Rooms -> Task]
        /\ lost' \subseteq Interviews
    BY <1>3, <2>2, <2>3 DEF ReleaseFails
  <2> QED
    BY <1>3, <2>1, <2>4 DEF ReleaseFails, StartTypeOK, DispatchTypeOK, ConsentTypeOK
<1> QED
  BY <1>1, <1>2, <1>3

LEMMA StartTypeNext ==
    ASSUME StartTypeOK, RequestsHaveRooms, RoomsAgree, [StartNext]_startVars
    PROVE  StartTypeOK'
<1>1. ASSUME UNCHANGED startVars PROVE StartTypeOK'
  BY <1>1 DEF startVars, dispatchVars, StartTypeOK, DispatchTypeOK, ConsentTypeOK
<1> QED
  BY <1>1, AccountStepType, RequestStepType, PageStepType, TaskStepType, ProcessStepType
     DEF StartNext

(***************************************************************************)
(* Rooms                                                                   *)
(***************************************************************************)
\* A request that goes on keeps its room, and has a page only once it is over.
LEMMA ProceedsRooms ==
    ASSUME StartTypeOK, RequestsHaveRooms, NEW q \in Requests,
           NEW where \in {"claimed", "give back", "over"}, Proceeds(q, where),
           request[q].at # "idle",
           where = "give back" => request[q].interview # NoInterview,
           \/ page' = page /\ request[q].at # "over"
           \/ page' = [page EXCEPT ![q] = "holds token"] /\ where = "over",
           givingUp' = givingUp
    PROVE  RequestsHaveRooms'
<1> SUFFICES ASSUME NEW p \in Requests
             PROVE  /\ request'[p].at # "idle" => request'[p].room \in Rooms
                    /\ page'[p] # "none" \/ p \in givingUp' => request'[p].at = "over"
                    /\ request'[p].at = "give back" => request'[p].interview # NoInterview
  BY DEF RequestsHaveRooms
<1>1. request[p] \in Request /\ request[q] \in Request
  BY DEF StartTypeOK
<1>2. CASE p # q
  <2>1. request'[p] = request[p] /\ page'[p] = page[p]
    BY <1>2 DEF Proceeds, StartTypeOK
  <2> QED
    BY <2>1 DEF RequestsHaveRooms
<1>3. CASE p = q
  <2>1. /\ request'[q].at = where /\ request'[q].room = request[q].room
        /\ where # "over" => request'[q].interview = request[q].interview
    BY <1>1 DEF Proceeds, Over, StartTypeOK, Request
  <2> QED
    BY <1>3, <2>1 DEF RequestsHaveRooms
<1> QED
  BY <1>2, <1>3

\* Every step leaves the requests with their rooms.
LEMMA RequestsHaveRoomsStep ==
    ASSUME StartTypeOK, RequestsHaveRooms, [StartNext]_startVars
    PROVE  RequestsHaveRooms'
<1> USE DEF pageVars, history
<1>1. ASSUME NEW q \in Requests, AsksToken(q) PROVE RequestsHaveRooms'
  <2>1. PICK r \in {q, PinnedRoom}, a \in Accounts \cup {NoAccount},
             i \in Interviews \cup {NoInterview} :
          request' = [request EXCEPT ![q] =
                       [at |-> "checked", account |-> a, interview |-> i, room |-> r]]
    BY <1>1 DEF AsksToken
  <2>2. r \in Rooms
    BY StartConstants
  <2> QED
    BY <1>1, <2>1, <2>2 DEF AsksToken, At, RequestsHaveRooms, StartTypeOK
<1>2. ASSUME NEW q \in Requests, ClaimsConsent(q) PROVE RequestsHaveRooms'
  BY <1>2, ProceedsRooms DEF ClaimsConsent, At
<1>3. ASSUME NEW q \in Requests, Dispatches(q) PROVE RequestsHaveRooms'
  BY <1>3, ProceedsRooms DEF Dispatches, At
<1>4. ASSUME NEW q \in Requests, GivesBackConsent(q) PROVE RequestsHaveRooms'
  BY <1>4, ProceedsRooms DEF GivesBackConsent, At
<1>5. ASSUME NEW q \in Requests, PageJoins(q) \/ PageGivesUp(q) \/ ReleaseArrives(q)
      PROVE  RequestsHaveRooms'
  BY <1>5 DEF PageJoins, PageGivesUp, ReleaseArrives, RequestsHaveRooms, StartTypeOK
<1>6. ASSUME Restarts PROVE RequestsHaveRooms'
  BY <1>6 DEF Restarts, Over, At, RequestsHaveRooms, StartTypeOK
<1>7. ASSUME ReleaseFails PROVE RequestsHaveRooms'
  <2>1. ASSUME NEW q \in Requests, At(q, "give back"), Proceeds(q, "over")
        PROVE  RequestsHaveRooms'
    BY <1>7, <2>1, ProceedsRooms DEF ReleaseFails, At
  <2>2. ASSUME UNCHANGED request PROVE RequestsHaveRooms'
    BY <1>7, <2>2 DEF ReleaseFails, RequestsHaveRooms
  <2> QED
    BY <1>7, <2>1, <2>2 DEF ReleaseFails
<1>8. ASSUME UNCHANGED <<request, page, givingUp>> PROVE RequestsHaveRooms'
  BY <1>8 DEF RequestsHaveRooms
<1>9. ASSUME NEW r \in Rooms, TaskGoesOn(r) \/ FinishesAssessment(r)
      PROVE  UNCHANGED <<request, page, givingUp>>
  BY <1>9 DEF TaskGoesOn, TaskBegins, CandidateIsThere, HearsRelease, WaitsTooLong,
       RoomCloses, ClaimsJoin, LeavesRoom, InterviewEnds, ReleasesNoShow, TaskEnds,
       FinishesAssessment
<1>10. ASSUME Consents \/ Withdraws \/ StartsRecording \/ ShutdownBegins
              \/ UNCHANGED startVars
       PROVE  UNCHANGED <<request, page, givingUp>>
  BY <1>10 DEF Consents, Withdraws, StartsRecording, ShutdownBegins, startVars
<1> QED
  BY <1>1, <1>2, <1>3, <1>4, <1>5, <1>6, <1>7, <1>8, <1>9, <1>10
     DEF StartNext, RequestGoesOn

\* A start that was given up stays so until its slot is gone.
StaysReleased == \A r \in Rooms : Released(r) => Released(r)' \/ starts'[r] = NoStart

\* A step that only moves the task of a room that has one, but not to an interview,
\* keeps what is known of the rooms.
LEMMA MovesRooms ==
    ASSUME StartTypeOK, RoomsAgree, NEW r \in Rooms,
           NEW where \in {"waits", "found", "leaves", "gives back", "ends"},
           Moves(r, where), task[r].at # "none", live' = live, starts' = starts
    PROVE  RoomsAgree' /\ StaysReleased
<1>1. task' \in [Rooms -> Task] /\ task'[r].at = where
  BY MovesType DEF Moves, StartTypeOK, Task
<1>2. \A s \in Rooms : s # r => task'[s] = task[s]
  BY DEF Moves, StartTypeOK
<1> QED
  BY <1>1, <1>2 DEF RoomsAgree, StaysReleased, Released

\* Slots, starts and tasks come and go together.
LEMMA RoomsAgreeStep ==
    ASSUME StartTypeOK, RequestsHaveRooms, RoomsAgree, [StartNext]_startVars
    PROVE  RoomsAgree' /\ StaysReleased
<1> USE DEF dispatchVars, pageVars, history
<1>1. ASSUME NEW q \in Requests, Dispatches(q) PROVE RoomsAgree' /\ StaysReleased
  <2> DEFINE r == request[q].room
  <2>1. r \in Rooms
    BY <1>1 DEF Dispatches, At, RequestsHaveRooms
  <2>2. CASE UNCHANGED <<dispatchVars, task>>
    BY <2>2 DEF RoomsAgree, StaysReleased, Released
  <2>3. CASE /\ IsAdmitted(r, request[q].account = NoAccount)
             /\ Reserve(r, request[q].account = NoAccount, q)
             /\ task' = [task EXCEPT ![r] =
                          [at |-> "begins", interview |-> request[q].interview,
                           account |-> request[q].account]]
    <3>1. live[r] = "none" /\ starts[r] = NoStart
      BY <2>1, <2>3 DEF IsAdmitted, Live, RoomsAgree
    <3>2. live'[r] = "assessing" /\ starts'[r] = [candidate |-> q, phase |-> "waiting"]
          /\ task'[r].at = "begins"
      BY <2>1, <2>3 DEF Reserve, StartTypeOK, DispatchTypeOK
    <3>3. starts'[r] # NoStart
      BY <3>2, StartIsThere DEF RoomStart, Requests
    <3>4. \A s \in Rooms : s # r =>
            live'[s] = live[s] /\ starts'[s] = starts[s] /\ task'[s] = task[s]
      BY <2>1, <2>3 DEF Reserve, StartTypeOK, DispatchTypeOK
    <3> HIDE DEF r
    <3>5. RoomsAgree'
      BY <2>1, <3>2, <3>3, <3>4 DEF RoomsAgree
    <3> QED
      BY <2>1, <3>1, <3>4, <3>5 DEF StaysReleased, Released
  <2> QED
    BY <1>1, <2>2, <2>3 DEF Dispatches
<1>2. ASSUME NEW q \in Requests, ReleaseArrives(q) PROVE RoomsAgree' /\ StaysReleased
  <2> DEFINE r == request[q].room
  <2>1. r \in Rooms
    BY <1>2 DEF ReleaseArrives, RequestsHaveRooms
  <2>2. CASE UNCHANGED starts
    BY <1>2, <2>2 DEF ReleaseArrives, ReleaseStart, RoomsAgree, StaysReleased, Released
  <2>3. CASE /\ starts[r] # NoStart /\ starts[r].phase = "waiting"
             /\ starts' = [starts EXCEPT ![r].phase = "released"]
    <3>1. starts[r] \in RoomStart
      BY <2>1, <2>3 DEF StartTypeOK, DispatchTypeOK
    <3>2. starts'[r] \in RoomStart /\ starts'[r].phase = "released"
      BY <2>1, <2>3, <3>1 DEF StartTypeOK, DispatchTypeOK, RoomStart
    <3>3. starts'[r] # NoStart
      BY <3>2, StartIsThere
    <3>4. \A s \in Rooms : s # r => starts'[s] = starts[s]
      BY <2>1, <2>3 DEF StartTypeOK, DispatchTypeOK
    <3>5. UNCHANGED <<live, task>>
      BY <1>2 DEF ReleaseArrives, ReleaseStart
    <3>6. task[r].at # "runs" /\ live[r] # "none"
      BY <2>1, <2>3 DEF RoomsAgree
    <3> HIDE DEF r
    <3> QED
      BY <2>1, <3>2, <3>3, <3>4, <3>5, <3>6 DEF RoomsAgree, StaysReleased, Released
  <2> QED
    BY <1>2, <2>2, <2>3 DEF ReleaseArrives, ReleaseStart
<1>3. ASSUME NEW r \in Rooms, ClaimsJoin(r), AcceptCandidate(r), Moves(r, "runs")
      PROVE  RoomsAgree' /\ StaysReleased
  <2>1. starts[r] \in RoomStart
    BY <1>3 DEF ClaimsJoin, TaskAt, RoomsAgree, StartTypeOK, DispatchTypeOK
  <2>2. starts'[r] \in RoomStart /\ starts'[r].phase = "joined"
    BY <1>3, <2>1 DEF AcceptCandidate, StartTypeOK, DispatchTypeOK, RoomStart
  <2>3. starts'[r] # NoStart /\ starts[r] # NoStart
    BY <2>1, <2>2, StartIsThere
  <2>4. \A s \in Rooms : s # r => starts'[s] = starts[s] /\ task'[s] = task[s]
    BY <1>3 DEF AcceptCandidate, Moves, StartTypeOK, DispatchTypeOK
  <2>5. task'[r].at = "runs" /\ task[r].at = "found" /\ live' = live /\ ~Released(r)
    BY <1>3 DEF ClaimsJoin, TaskAt, AcceptCandidate, Moves, StartTypeOK, Task
  <2> QED
    BY <2>2, <2>3, <2>4, <2>5 DEF RoomsAgree, StaysReleased, Released
<1>4. ASSUME NEW r \in Rooms, TaskEnds(r) PROVE RoomsAgree' /\ StaysReleased
  <2>1. live'[r] = "none" /\ starts'[r] = NoStart /\ task'[r].at = "none"
    BY <1>4 DEF TaskEnds, DropSlot, NoTask, StartTypeOK, DispatchTypeOK
  <2>2. \A s \in Rooms : s # r =>
          live'[s] = live[s] /\ starts'[s] = starts[s] /\ task'[s] = task[s]
    BY <1>4 DEF TaskEnds, DropSlot, StartTypeOK, DispatchTypeOK
  <2> QED
    BY <2>1, <2>2 DEF RoomsAgree, StaysReleased, Released
<1>5. ASSUME NEW r \in Rooms, FinishesAssessment(r) PROVE RoomsAgree' /\ StaysReleased
  BY <1>5 DEF FinishesAssessment, AssessmentFinished, RoomsAgree, StaysReleased, Released,
       StartTypeOK, DispatchTypeOK
<1>6. ASSUME Restarts PROVE RoomsAgree' /\ StaysReleased
  BY <1>6 DEF Restarts, ForgetRooms, NoTask, RoomsAgree, StaysReleased, Released
<1>7. ASSUME ReleaseFails PROVE RoomsAgree' /\ StaysReleased
  <2>1. UNCHANGED <<live, starts>>
    BY <1>7 DEF ReleaseFails
  <2>2. CASE UNCHANGED task
    BY <2>1, <2>2 DEF RoomsAgree, StaysReleased, Released
  <2>3. ASSUME NEW r \in Rooms, TaskAt(r, "gives back"), Moves(r, "ends")
        PROVE  RoomsAgree' /\ StaysReleased
    BY <2>1, <2>3, MovesRooms DEF TaskAt
  <2> QED
    BY <1>7, <2>2, <2>3 DEF ReleaseFails
<1>8. ASSUME UNCHANGED <<live, starts, task>> PROVE RoomsAgree' /\ StaysReleased
  BY <1>8 DEF RoomsAgree, StaysReleased, Released
<1>9. ASSUME NEW r \in Rooms,
             \/ TaskBegins(r) \/ CandidateIsThere(r) \/ HearsRelease(r) \/ WaitsTooLong(r)
             \/ RoomCloses(r) \/ LeavesRoom(r) \/ InterviewEnds(r) \/ ReleasesNoShow(r)
      PROVE  RoomsAgree' /\ StaysReleased
  BY <1>9, MovesRooms
     DEF TaskBegins, CandidateIsThere, HearsRelease, WaitsTooLong, RoomCloses, LeavesRoom,
         InterviewEnds, ReleasesNoShow, TaskAt
<1>10. ASSUME NEW r \in Rooms, TaskGoesOn(r) PROVE RoomsAgree' /\ StaysReleased
  <2>1. CASE ClaimsJoin(r) /\ Moves(r, "leaves") /\ UNCHANGED dispatchVars
    BY <2>1, MovesRooms DEF ClaimsJoin, TaskAt
  <2> QED
    BY <1>3, <1>4, <1>9, <1>10, <2>1 DEF TaskGoesOn, ClaimsJoin
<1>11. ASSUME NEW q \in Requests, AsksToken(q) \/ ClaimsConsent(q) \/ GivesBackConsent(q)
              \/ PageJoins(q) \/ PageGivesUp(q)
       PROVE  UNCHANGED <<live, starts, task>>
  BY <1>11 DEF AsksToken, ClaimsConsent, GivesBackConsent, PageJoins, PageGivesUp
<1>12. ASSUME Consents \/ Withdraws \/ StartsRecording \/ ShutdownBegins
              \/ UNCHANGED startVars
       PROVE  UNCHANGED <<live, starts, task>>
  BY <1>12 DEF Consents, Withdraws, StartsRecording, ShutdownBegins, CloseAdmission, startVars
<1> QED
  BY <1>1, <1>2, <1>5, <1>6, <1>7, <1>8, <1>10, <1>11, <1>12 DEF StartNext, RequestGoesOn

(***************************************************************************)
(* Consents                                                                *)
(***************************************************************************)
\* What a step may do to a row: what is spent stays bound, what is withdrawn is not
\* bound anew.
SpendsOnce ==
    \A i \in Interviews :
        /\ i \in accepted \/ interviews[i].recorded
              => interviews'[i].room = interviews[i].room
        /\ interviews[i].withdrawn => interviews'[i].room \in {interviews[i].room, NoRoom}

\* A step that binds and unbinds nothing, takes on nothing to answer for and leaves a
\* running interview running keeps what is known of the claims.
LEMMA NothingClaimed ==
    ASSUME ClaimsHold,
           \A q \in Requests, i \in Interviews :
               RequestHolds(q, i)' => RequestHolds(q, i) /\ request'[q].room = request[q].room,
           \A r \in Rooms, i \in Interviews :
               TaskHolds(r, i)' => TaskHolds(r, i) /\ (task[r].at = "runs" => task'[r].at = "runs"),
           \A i \in Interviews :
               /\ interviews'[i].room = interviews[i].room
               /\ interviews'[i].recorded => interviews[i].recorded \/ interviews[i].room # NoRoom,
           accepted' = accepted
    PROVE  ClaimsHold' /\ SpendsOnce
<1>1. RequestsHold'
  <2> SUFFICES ASSUME NEW q \in Requests, NEW i \in Interviews, RequestHolds(q, i)'
               PROVE  /\ interviews'[i].room = request'[q].room /\ i \notin accepted'
                      /\ \A p \in Requests : RequestHolds(p, i)' => p = q
                      /\ \A r \in Rooms : ~TaskHolds(r, i)'
    BY DEF RequestsHold
  <2>1. RequestHolds(q, i) /\ request'[q].room = request[q].room
    OBVIOUS
  <2>2. /\ interviews[i].room = request[q].room /\ i \notin accepted
        /\ \A p \in Requests : RequestHolds(p, i) => p = q
        /\ \A r \in Rooms : ~TaskHolds(r, i)
    BY <2>1 DEF ClaimsHold, RequestsHold
  <2> QED
    BY <2>1, <2>2
<1>2. TasksHold'
  <2> SUFFICES ASSUME NEW r \in Rooms, NEW i \in Interviews, TaskHolds(r, i)'
               PROVE  interviews'[i].room = r /\ (i \in accepted' => task'[r].at = "runs")
    BY DEF TasksHold
  <2>1. TaskHolds(r, i) /\ (task[r].at = "runs" => task'[r].at = "runs")
    OBVIOUS
  <2> QED
    BY <2>1 DEF ClaimsHold, TasksHold
<1>3. SpentIsBound'
  BY DEF ClaimsHold, SpentIsBound
<1> QED
  BY <1>1, <1>2, <1>3 DEF ClaimsHold, SpendsOnce

\* Only one request or task answers for a consent: when it gives it back, and its
\* candidate was not accepted, nobody else is left with it.
LEMMA GivenBack ==
    ASSUME StartTypeOK, ClaimsHold, NEW i \in Interviews, NEW a, NEW r \in Rooms,
           ReleaseInterviewRoom(i, a, r), i \notin accepted, accepted' = accepted,
           \A q \in Requests : ~RequestHolds(q, i)', \A s \in Rooms : ~TaskHolds(s, i)',
           \A q \in Requests, j \in Interviews :
               RequestHolds(q, j)' => RequestHolds(q, j) /\ request'[q].room = request[q].room,
           \A s \in Rooms, j \in Interviews :
               TaskHolds(s, j)' => TaskHolds(s, j) /\ (task[s].at = "runs" => task'[s].at = "runs")
    PROVE  ClaimsHold' /\ SpendsOnce
<1>1. CASE interviews' = interviews
  BY <1>1, NothingClaimed
<1>2. CASE ~interviews[i].recorded /\ interviews' = [interviews EXCEPT ![i].room = NoRoom]
  <2>a. interviews \in [Interviews -> Interview] /\ interviews[i] \in Interview
    BY DEF StartTypeOK, ConsentTypeOK
  <2>1. \A j \in Interviews : j # i => interviews'[j] = interviews[j]
    BY <1>2, <2>a
  <2>b. interviews'[i] = [interviews[i] EXCEPT !.room = NoRoom]
    BY <1>2, <2>a
  <2>2. interviews'[i].room = NoRoom /\ ~interviews'[i].recorded
    BY <1>2, <2>a, <2>b DEF Interview
  <2>3. RequestsHold'
    <3> SUFFICES ASSUME NEW q \in Requests, NEW j \in Interviews, RequestHolds(q, j)'
                 PROVE  /\ interviews'[j].room = request'[q].room /\ j \notin accepted'
                        /\ \A p \in Requests : RequestHolds(p, j)' => p = q
                        /\ \A s \in Rooms : ~TaskHolds(s, j)'
      BY DEF RequestsHold
    <3>1. j # i /\ RequestHolds(q, j) /\ request'[q].room = request[q].room
      OBVIOUS
    <3>2. /\ interviews[j].room = request[q].room /\ j \notin accepted
          /\ \A p \in Requests : RequestHolds(p, j) => p = q
          /\ \A s \in Rooms : ~TaskHolds(s, j)
      BY <3>1 DEF ClaimsHold, RequestsHold
    <3> QED
      BY <2>1, <3>1, <3>2
  <2>4. TasksHold'
    <3> SUFFICES ASSUME NEW s \in Rooms, NEW j \in Interviews, TaskHolds(s, j)'
                 PROVE  interviews'[j].room = s /\ (j \in accepted' => task'[s].at = "runs")
      BY DEF TasksHold
    <3>1. j # i /\ TaskHolds(s, j) /\ (task[s].at = "runs" => task'[s].at = "runs")
      OBVIOUS
    <3> QED
      BY <2>1, <3>1 DEF ClaimsHold, TasksHold
  <2>5. SpentIsBound'
    BY <2>1, <2>2 DEF ClaimsHold, SpentIsBound
  <2>6. SpendsOnce
    BY <1>2, <2>1, <2>2 DEF SpendsOnce
  <2> QED
    BY <2>3, <2>4, <2>5, <2>6 DEF ClaimsHold
<1> QED
  BY <1>1, <1>2 DEF ReleaseInterviewRoom, MayRelease

\* A request that goes on with what it has answers for no more than before,
LEMMA ProceedsHolds ==
    ASSUME StartTypeOK, NEW q \in Requests, NEW where \in {"give back", "over"},
           Proceeds(q, where), where = "over" \/ request[q].at \in {"claimed", "give back"}
    PROVE  /\ \A p \in Requests, i \in Interviews :
                RequestHolds(p, i)' => RequestHolds(p, i) /\ request'[p].room = request[p].room
           /\ where = "over" => \A i \in Interviews : ~RequestHolds(q, i)'
<1>1. request[q] \in Request
  BY DEF StartTypeOK
<1>2. \A p \in Requests : p # q => request'[p] = request[p]
  BY DEF Proceeds, StartTypeOK
<1>3. CASE where = "over"
  <2>1. request'[q].at = "over"
    BY <1>1, <1>3 DEF Proceeds, Over, StartTypeOK, Request
  <2> QED
    BY <1>2, <1>3, <2>1 DEF RequestHolds
<1>4. CASE where = "give back"
  <2>1. /\ request'[q].interview = request[q].interview
        /\ request'[q].room = request[q].room
    BY <1>1, <1>4 DEF Proceeds, StartTypeOK, Request
  <2> QED
    BY <1>2, <1>4, <2>1 DEF RequestHolds
<1> QED
  BY <1>3, <1>4

\* and so does a task that moves.
LEMMA MovesHolds ==
    ASSUME StartTypeOK, NEW r \in Rooms,
           NEW where \in {"waits", "found", "runs", "leaves", "gives back", "ends"},
           Moves(r, where), task[r].at \notin {"none", "ends"},
           task[r].at = "runs" => where = "ends"
    PROVE  /\ \A s \in Rooms, i \in Interviews :
                TaskHolds(s, i)' =>
                    TaskHolds(s, i) /\ (task[s].at = "runs" => task'[s].at = "runs")
           /\ where = "ends" => \A i \in Interviews : ~TaskHolds(r, i)'
<1>1. \A s \in Rooms : s # r => task'[s] = task[s]
  BY DEF Moves, StartTypeOK
<1>2. task'[r].at = where /\ task'[r].interview = task[r].interview
  BY DEF Moves, StartTypeOK, Task
<1> QED
  BY <1>1, <1>2 DEF TaskHolds

\* The decision on a claim: one request more answers for the row it bound.
LEMMA ClaimsConsentStep ==
    ASSUME StartInv, NEW q \in Requests, ClaimsConsent(q)
    PROVE  ClaimsHold' /\ SpendsOnce
<1> DEFINE r == request[q].room
<1>a. StartTypeOK /\ ClaimsHold /\ r \in Rooms /\ request[q].at = "checked"
      /\ request[q] \in Request
  BY DEF StartInv, RequestsHaveRooms, ClaimsConsent, At, StartTypeOK
<1>b. accepted' = accepted /\ task' = task
  BY DEF ClaimsConsent, history
<1>c. \A s \in Rooms, j \in Interviews : TaskHolds(s, j)' <=> TaskHolds(s, j)
  BY <1>b DEF TaskHolds
<1>d. \A p \in Requests : p # q => request'[p] = request[p]
  BY <1>a DEF ClaimsConsent, Proceeds, StartTypeOK
<1>1. CASE Proceeds(q, "over") /\ interviews' = interviews
  BY <1>1, <1>a, <1>b, <1>c, ProceedsHolds, NothingClaimed
<1>2. CASE request[q].interview = NoInterview /\ Proceeds(q, "claimed") /\ UNCHANGED interviews
  <2>1. request'[q].interview = NoInterview
    BY <1>2, <1>a DEF Proceeds, StartTypeOK, Request
  <2>2. \A p \in Requests, j \in Interviews :
            RequestHolds(p, j)' => RequestHolds(p, j) /\ request'[p].room = request[p].room
    BY <2>1, <1>d, StartConstants DEF RequestHolds
  <2> QED
    BY <1>2, <2>2, <1>a, <1>b, <1>c, NothingClaimed
<1>3. CASE /\ request[q].interview # NoInterview /\ Proceeds(q, "claimed")
           /\ MayClaim(request[q].interview, request[q].account)
           /\ interviews' = [interviews EXCEPT ![request[q].interview].room = r]
  <2>1. PICK i \in Interviews : i = request[q].interview
    BY <1>3, <1>a DEF Request
  <2>2. interviews[i].room = NoRoom /\ ~interviews[i].withdrawn
    BY <1>3, <2>1 DEF MayClaim, Unclaimed
  <2>3. r # NoRoom
    BY <1>a, StartConstants, ConsentConstants
  <2>4. /\ interviews'[i].room = r /\ interviews'[i].recorded = interviews[i].recorded
        /\ \A j \in Interviews : j # i => interviews'[j] = interviews[j]
    BY <1>3, <1>a, <2>1 DEF StartTypeOK, ConsentTypeOK, Interview
  <2>5. request'[q].at = "claimed" /\ request'[q].interview = i /\ request'[q].room = r
    BY <1>3, <1>a, <2>1 DEF Proceeds, StartTypeOK, Request
  <2> HIDE DEF r
  <2>6. i \notin accepted /\ ~interviews[i].recorded
    BY <2>1, <2>2, <1>a DEF ClaimsHold, SpentIsBound
  <2>7. \A s \in Rooms : ~TaskHolds(s, i)
    BY <2>1, <2>2, <1>a, StartConstants, ConsentConstants DEF ClaimsHold, TasksHold
  <2>8. \A p \in Requests : ~RequestHolds(p, i)
    <3> SUFFICES ASSUME NEW p \in Requests, RequestHolds(p, i) PROVE FALSE
      OBVIOUS
    <3>1. request[p].room \in Rooms
      BY DEF RequestHolds, StartInv, RequestsHaveRooms
    <3>2. interviews[i].room = request[p].room
      BY <2>1, <1>a DEF ClaimsHold, RequestsHold
    <3> QED
      BY <3>1, <3>2, <2>2, StartConstants, ConsentConstants
  <2>9. RequestsHold'
    <3> SUFFICES ASSUME NEW p \in Requests, NEW j \in Interviews, RequestHolds(p, j)'
                 PROVE  /\ interviews'[j].room = request'[p].room /\ j \notin accepted'
                        /\ \A o \in Requests : RequestHolds(o, j)' => o = p
                        /\ \A s \in Rooms : ~TaskHolds(s, j)'
      BY DEF RequestsHold
    <3>1. CASE j = i
      <4>1. \A o \in Requests : RequestHolds(o, i)' => o = q
        BY <1>d, <2>8 DEF RequestHolds
      <4> QED
        BY <3>1, <4>1, <2>4, <2>5, <2>6, <2>7, <1>b, <1>c, <2>1
    <3>2. CASE j # i
      <4>1. p # q
        BY <3>2, <2>5 DEF RequestHolds
      <4>2. RequestHolds(p, j) /\ request'[p].room = request[p].room
        BY <4>1, <1>d DEF RequestHolds
      <4>3. \A o \in Requests : RequestHolds(o, j)' => RequestHolds(o, j)
        BY <3>2, <2>5, <1>d DEF RequestHolds
      <4> QED
        BY <3>2, <4>2, <4>3, <2>4, <1>a, <1>b, <1>c DEF ClaimsHold, RequestsHold
    <3> QED
      BY <3>1, <3>2
  <2>10. TasksHold'
    BY <1>a, <1>b, <1>c, <2>1, <2>4, <2>7 DEF ClaimsHold, TasksHold
  <2>11. SpentIsBound'
    BY <1>a, <1>b, <2>1, <2>3, <2>4 DEF ClaimsHold, SpentIsBound
  <2>12. SpendsOnce
    BY <2>1, <2>2, <2>4, <2>6 DEF SpendsOnce
  <2> QED
    BY <2>9, <2>10, <2>11, <2>12 DEF ClaimsHold
<1> QED
  BY <1>1, <1>2, <1>3 DEF ClaimsConsent, ClaimInterviewRoom

\* A dispatch: the task of the new room answers for what the request did, or nobody.
LEMMA DispatchesStep ==
    ASSUME StartInv, NEW q \in Requests, Dispatches(q)
    PROVE  ClaimsHold' /\ SpendsOnce
<1>a. StartTypeOK /\ ClaimsHold /\ request[q].at = "claimed"
  BY DEF StartInv, Dispatches, At
<1>r. PICK r \in Rooms : r = request[q].room
  BY <1>a DEF StartInv, RequestsHaveRooms
<1>b. accepted' = accepted /\ interviews' = interviews
  BY DEF Dispatches
<1>1. ASSUME NEW where \in {"give back", "over"}, Proceeds(q, where), task' = task
      PROVE  ClaimsHold' /\ SpendsOnce
  <2>1. \A p \in Requests, j \in Interviews :
          RequestHolds(p, j)' => RequestHolds(p, j) /\ request'[p].room = request[p].room
    BY <1>1, <1>a, ProceedsHolds
  <2>2. \A s \in Rooms, j \in Interviews :
          TaskHolds(s, j)' => TaskHolds(s, j) /\ (task[s].at = "runs" => task'[s].at = "runs")
    BY <1>1 DEF TaskHolds
  <2> QED
    BY <1>a, <1>b, <2>1, <2>2, NothingClaimed
<1>2. CASE /\ IsAdmitted(r, request[q].account = NoAccount) /\ Proceeds(q, "over")
           /\ task' = [task EXCEPT ![r] = [at |-> "begins", interview |-> request[q].interview,
                                          account |-> request[q].account]]
  <2>1. \A p \in Requests, j \in Interviews : RequestHolds(p, j)' =>
          p # q /\ RequestHolds(p, j) /\ request'[p].room = request[p].room
    BY <1>2, <1>a, ProceedsHolds
  <2>2. task'[r].at = "begins" /\ task'[r].interview = request[q].interview
    BY <1>2, <1>a DEF StartTypeOK
  <2>3. \A s \in Rooms : s # r => task'[s] = task[s]
    BY <1>2, <1>a DEF StartTypeOK
  <2>4. \A j \in Interviews : TaskHolds(r, j)' => RequestHolds(q, j)
    BY <1>a, <2>2 DEF TaskHolds, RequestHolds
  <2>5. \A s \in Rooms, j \in Interviews : TaskHolds(s, j)' /\ s # r => TaskHolds(s, j)
    BY <2>3 DEF TaskHolds
  <2>6. RequestsHold'
    <3> SUFFICES ASSUME NEW p \in Requests, NEW j \in Interviews, RequestHolds(p, j)'
                 PROVE  /\ interviews'[j].room = request'[p].room /\ j \notin accepted'
                        /\ \A o \in Requests : RequestHolds(o, j)' => o = p
                        /\ \A s \in Rooms : ~TaskHolds(s, j)'
      BY DEF RequestsHold
    <3>1. p # q /\ RequestHolds(p, j) /\ request'[p].room = request[p].room
      BY <2>1
    <3>2. /\ interviews[j].room = request[p].room /\ j \notin accepted
          /\ \A o \in Requests : RequestHolds(o, j) => o = p
          /\ \A s \in Rooms : ~TaskHolds(s, j)
      BY <3>1, <1>a DEF ClaimsHold, RequestsHold
    <3>3. ~RequestHolds(q, j)
      BY <3>1, <3>2
    <3>4. \A s \in Rooms : ~TaskHolds(s, j)'
      BY <3>2, <3>3, <2>4, <2>5
    <3> QED
      BY <1>b, <2>1, <3>1, <3>2, <3>4
  <2>7. TasksHold'
    <3> SUFFICES ASSUME NEW s \in Rooms, NEW j \in Interviews, TaskHolds(s, j)'
                 PROVE  interviews'[j].room = s /\ (j \in accepted' => task'[s].at = "runs")
      BY DEF TasksHold
    <3>1. CASE s = r
      BY <3>1, <2>4, <1>a, <1>b, <1>r DEF ClaimsHold, RequestsHold
    <3>2. CASE s # r
      BY <3>2, <2>3, <2>5, <1>a, <1>b DEF ClaimsHold, TasksHold
    <3> QED
      BY <3>1, <3>2
  <2> QED
    BY <1>a, <1>b, <2>6, <2>7 DEF ClaimsHold, SpentIsBound, SpendsOnce
<1>3. ASSUME UNCHANGED <<dispatchVars, task>>
      PROVE  \E where \in {"give back", "over"} : Proceeds(q, where) /\ task' = task
  BY <1>3 DEF Dispatches
<1>4. CASE UNCHANGED <<dispatchVars, task>>
  BY <1>1, <1>3, <1>4
<1> QED
  BY <1>2, <1>4, <1>r DEF Dispatches

\* The decision on a join: the one task that answers for the consent spends it.
LEMMA ClaimsJoinStep ==
    ASSUME StartInv, NEW r \in Rooms, ClaimsJoin(r)
    PROVE  ClaimsHold' /\ SpendsOnce
<1>a. StartTypeOK /\ ClaimsHold /\ task[r].at = "found"
  BY DEF StartInv, ClaimsJoin, TaskAt
<1>b. request' = request /\ interviews' = interviews
  BY DEF ClaimsJoin
<1>c. \A q \in Requests, i \in Interviews : RequestHolds(q, i)' <=> RequestHolds(q, i)
  BY <1>b DEF RequestHolds
<1>1. CASE Moves(r, "leaves") /\ accepted' = accepted
  <2>1. \A s \in Rooms, i \in Interviews : TaskHolds(s, i)' =>
          TaskHolds(s, i) /\ (task[s].at = "runs" => task'[s].at = "runs")
    BY <1>1, <1>a, MovesHolds
  <2> QED
    BY <1>1, <1>a, <1>b, <1>c, <2>1, NothingClaimed
<1>2. CASE Moves(r, "runs") /\ accepted' = accepted \cup ({task[r].interview} \ {NoInterview})
  <2>1. \A s \in Rooms, i \in Interviews : TaskHolds(s, i)' =>
          TaskHolds(s, i) /\ (task[s].at = "runs" => task'[s].at = "runs")
    BY <1>2, <1>a, MovesHolds
  <2>2. task'[r].at = "runs"
    BY <1>2 DEF Moves, StartTypeOK, Task, StartInv
  <2>3. \A i \in Interviews : i \in accepted' => i \in accepted \/ TaskHolds(r, i)
    BY <1>2, <1>a DEF TaskHolds
  <2>4. RequestsHold'
    BY <1>a, <1>b, <1>c, <2>1, <2>3 DEF ClaimsHold, RequestsHold
  <2>5. TasksHold'
    <3> SUFFICES ASSUME NEW s \in Rooms, NEW i \in Interviews, TaskHolds(s, i)'
                 PROVE  interviews'[i].room = s /\ (i \in accepted' => task'[s].at = "runs")
      BY DEF TasksHold
    <3>1. interviews[i].room = s /\ (i \in accepted => task'[s].at = "runs")
      BY <2>1, <1>a DEF ClaimsHold, TasksHold
    <3>2. TaskHolds(r, i) => s = r
      BY <3>1, <1>a DEF ClaimsHold, TasksHold
    <3> QED
      BY <1>b, <2>2, <2>3, <3>1, <3>2
  <2>6. SpentIsBound'
    <3>1. \A i \in Interviews : TaskHolds(r, i) => interviews[i].room # NoRoom
      BY <1>a, StartConstants, ConsentConstants DEF ClaimsHold, TasksHold
    <3> QED
      BY <1>a, <1>b, <2>3, <3>1 DEF ClaimsHold, SpentIsBound
  <2> QED
    BY <1>b, <2>4, <2>5, <2>6 DEF ClaimsHold, SpendsOnce
<1> QED
  BY <1>1, <1>2 DEF ClaimsJoin

\* Every step keeps the claims, and spends a consent once.
LEMMA ClaimsHoldStep ==
    ASSUME StartInv, [StartNext]_startVars
    PROVE  ClaimsHold' /\ SpendsOnce
<1> USE DEF dispatchVars, pageVars, history
<1>a. StartTypeOK /\ ClaimsHold
  BY DEF StartInv
<1>b. ASSUME UNCHANGED <<request, task, accepted>>,
             \A i \in Interviews :
               /\ interviews'[i].room = interviews[i].room
               /\ interviews'[i].recorded => interviews[i].recorded \/ interviews[i].room # NoRoom
      PROVE  ClaimsHold' /\ SpendsOnce
  <2>1. \A q \in Requests, i \in Interviews : RequestHolds(q, i)' <=> RequestHolds(q, i)
    BY <1>b DEF RequestHolds
  <2>2. \A r \in Rooms, i \in Interviews : TaskHolds(r, i)' <=> TaskHolds(r, i)
    BY <1>b DEF TaskHolds
  <2> QED
    BY <1>a, <1>b, <2>1, <2>2, NothingClaimed
<1>1. ASSUME Consents \/ Withdraws \/ StartsRecording PROVE ClaimsHold' /\ SpendsOnce
  <2>1. UNCHANGED <<request, task, accepted>>
    BY <1>1 DEF Consents, Withdraws, StartsRecording
  <2>2. ASSUME NEW a, NEW j \in Interviews,
               \/ interviews' = [interviews EXCEPT ![j].account = a]
               \/ interviews' = [interviews EXCEPT ![j].withdrawn = TRUE]
               \/ /\ interviews' = [interviews EXCEPT ![j].recorded = TRUE]
                  /\ interviews[j].room # NoRoom
        PROVE  \A i \in Interviews :
               /\ interviews'[i].room = interviews[i].room
               /\ interviews'[i].recorded => interviews[i].recorded \/ interviews[i].room # NoRoom
    <3> SUFFICES ASSUME NEW i \in Interviews
                 PROVE  /\ interviews'[i].room = interviews[i].room
                        /\ interviews'[i].recorded =>
                               interviews[i].recorded \/ interviews[i].room # NoRoom
      OBVIOUS
    <3>1. CASE i # j
      BY <1>a, <2>2, <3>1 DEF StartTypeOK, ConsentTypeOK
    <3>2. CASE i = j
      <4>1. interviews[j] \in Interview
        BY <1>a DEF StartTypeOK, ConsentTypeOK
      <4>2. CASE interviews' = [interviews EXCEPT ![j].account = a]
        BY <1>a, <3>2, <4>1, <4>2 DEF StartTypeOK, ConsentTypeOK, Interview
      <4>3. CASE interviews' = [interviews EXCEPT ![j].withdrawn = TRUE]
        BY <1>a, <3>2, <4>1, <4>3 DEF StartTypeOK, ConsentTypeOK, Interview
      <4>4. CASE /\ interviews' = [interviews EXCEPT ![j].recorded = TRUE]
                 /\ interviews[j].room # NoRoom
        BY <1>a, <3>2, <4>1, <4>4 DEF StartTypeOK, ConsentTypeOK, Interview
      <4> QED
        BY <2>2, <4>2, <4>3, <4>4
    <3> QED
      BY <3>1, <3>2
  <2>3. \E a \in Accounts \cup {NoAccount}, j \in Interviews :
               \/ interviews' = [interviews EXCEPT ![j].account = a]
               \/ interviews' = [interviews EXCEPT ![j].withdrawn = TRUE]
               \/ /\ interviews' = [interviews EXCEPT ![j].recorded = TRUE]
                  /\ interviews[j].room # NoRoom
    BY <1>1 DEF Consents, Withdraws, StartsRecording, CreateInterview, WithdrawConsent,
                BeginRecording
  <2> QED
    BY <1>b, <2>1, <2>2, <2>3
<1>2. ASSUME UNCHANGED <<request, task, accepted, interviews>>
      PROVE  ClaimsHold' /\ SpendsOnce
  BY <1>b, <1>2
<1>3. ASSUME NEW q \in Requests, AsksToken(q) PROVE ClaimsHold' /\ SpendsOnce
  <2>1. \A p \in Requests, i \in Interviews :
          RequestHolds(p, i)' => RequestHolds(p, i) /\ request'[p].room = request[p].room
    <3>0. PICK to \in [at : {"checked"}, account : Accounts \cup {NoAccount},
                      interview : Interviews \cup {NoInterview}, room : {q, PinnedRoom}] :
            request' = [request EXCEPT ![q] = to]
      BY <1>3 DEF AsksToken
    <3>1. request'[q].at = "checked" /\ \A p \in Requests : p # q => request'[p] = request[p]
      BY <3>0, <1>a DEF StartTypeOK
    <3> QED
      BY <3>1 DEF RequestHolds
  <2>2. \A s \in Rooms, i \in Interviews : TaskHolds(s, i)' <=> TaskHolds(s, i)
    BY <1>3 DEF AsksToken, TaskHolds
  <2>3. UNCHANGED <<task, interviews, accepted>>
    BY <1>3 DEF AsksToken
  <2> QED
    BY <1>a, <2>1, <2>2, <2>3, NothingClaimed
<1>4. ASSUME NEW q \in Requests, GivesBackConsent(q) PROVE ClaimsHold' /\ SpendsOnce
  <2>1. /\ \A p \in Requests, j \in Interviews :
              RequestHolds(p, j)' => RequestHolds(p, j) /\ request'[p].room = request[p].room
        /\ \A j \in Interviews : ~RequestHolds(q, j)'
    BY <1>4, <1>a, ProceedsHolds DEF GivesBackConsent
  <2>2. UNCHANGED <<task, accepted>> /\ request[q].at = "give back"
    BY <1>4 DEF GivesBackConsent, At
  <2>3. \A s \in Rooms, j \in Interviews : TaskHolds(s, j)' <=> TaskHolds(s, j)
    BY <2>2 DEF TaskHolds
  <2>4. PICK i \in Interviews : i = request[q].interview
    BY <1>a, <2>2 DEF StartInv, RequestsHaveRooms, StartTypeOK, Request
  <2>5. PICK r \in Rooms : r = request[q].room
    BY <2>2 DEF StartInv, RequestsHaveRooms
  <2>6. RequestHolds(q, i)
    BY <2>2, <2>4 DEF RequestHolds
  <2>7. /\ i \notin accepted
        /\ \A p \in Requests : RequestHolds(p, i) => p = q
        /\ \A s \in Rooms : ~TaskHolds(s, i)
    BY <1>a, <2>6 DEF ClaimsHold, RequestsHold
  <2>8. \A p \in Requests : ~RequestHolds(p, i)'
    BY <2>1, <2>7
  <2>9. \A s \in Rooms, j \in Interviews :
          TaskHolds(s, j)' => TaskHolds(s, j) /\ (task[s].at = "runs" => task'[s].at = "runs")
    BY <2>2, <2>3
  <2>10. ReleaseInterviewRoom(i, request[q].account, r)
    BY <1>4, <2>4, <2>5 DEF GivesBackConsent
  <2> QED
    BY <1>a, <2>1, <2>2, <2>3, <2>7, <2>8, <2>9, <2>10, GivenBack
<1>5. ASSUME NEW r \in Rooms, ReleasesNoShow(r) PROVE ClaimsHold' /\ SpendsOnce
  <2>1. UNCHANGED <<request, accepted>> /\ task[r].at = "gives back" /\ Moves(r, "ends")
    BY <1>5 DEF ReleasesNoShow, TaskAt
  <2>2. /\ \A s \in Rooms, j \in Interviews :
              TaskHolds(s, j)' => TaskHolds(s, j) /\ (task[s].at = "runs" => task'[s].at = "runs")
        /\ \A j \in Interviews : ~TaskHolds(r, j)'
    BY <1>a, <2>1, MovesHolds
  <2>3. \A q \in Requests, j \in Interviews :
          RequestHolds(q, j)' => RequestHolds(q, j) /\ request'[q].room = request[q].room
    BY <2>1 DEF RequestHolds
  <2>4. CASE UNCHANGED interviews
    BY <1>a, <2>1, <2>2, <2>3, <2>4, NothingClaimed
  <2>5. CASE /\ task[r].interview # NoInterview
             /\ ReleaseInterviewRoom(task[r].interview, task[r].account, r)
    <3>1. PICK i \in Interviews : i = task[r].interview
      BY <1>a, <2>5 DEF StartTypeOK, Task
    <3>2. TaskHolds(r, i)
      BY <2>1, <3>1 DEF TaskHolds
    <3>c. TasksHold /\ RequestsHold
      BY <1>a DEF ClaimsHold
    <3>d. \A s \in Rooms : TaskHolds(s, i) =>
              interviews[i].room = s /\ (i \in accepted => task[s].at = "runs")
      BY <3>c DEF TasksHold
    <3>a. i \notin accepted /\ \A s \in Rooms : TaskHolds(s, i) => s = r
      BY <2>1, <3>2, <3>d
    <3>b. \A q \in Requests : ~RequestHolds(q, i)
      BY <3>2, <3>c DEF RequestsHold
    <3>3. /\ i \notin accepted /\ \A q \in Requests : ~RequestHolds(q, i)
          /\ \A s \in Rooms : TaskHolds(s, i) => s = r
      BY <3>a, <3>b
    <3>4. \A s \in Rooms : ~TaskHolds(s, i)'
      BY <2>2, <3>3
    <3>5. \A q \in Requests : ~RequestHolds(q, i)'
      BY <2>3, <3>3
    <3>6. ReleaseInterviewRoom(i, task[r].account, r)
      BY <2>5, <3>1
    <3> QED
      BY <1>a, <2>1, <2>2, <2>3, <3>3, <3>4, <3>5, <3>6, GivenBack
  <2> QED
    BY <1>5, <2>4, <2>5 DEF ReleasesNoShow
<1>6. ASSUME NEW r \in Rooms, NEW where \in {"waits", "found", "leaves", "gives back", "ends"},
             Moves(r, where), task[r].at \notin {"none", "ends"},
             task[r].at = "runs" => where = "ends", UNCHANGED <<request, interviews, accepted>>
      PROVE  ClaimsHold' /\ SpendsOnce
  <2>1. \A s \in Rooms, j \in Interviews :
              TaskHolds(s, j)' => TaskHolds(s, j) /\ (task[s].at = "runs" => task'[s].at = "runs")
    BY <1>a, <1>6, MovesHolds
  <2>2. \A q \in Requests, j \in Interviews :
          RequestHolds(q, j)' => RequestHolds(q, j) /\ request'[q].room = request[q].room
    BY <1>6 DEF RequestHolds
  <2> QED
    BY <1>a, <1>6, <2>1, <2>2, NothingClaimed
<1>7. ASSUME NEW r \in Rooms,
             \/ TaskBegins(r) \/ CandidateIsThere(r) \/ HearsRelease(r) \/ WaitsTooLong(r)
             \/ RoomCloses(r) \/ LeavesRoom(r) \/ InterviewEnds(r)
      PROVE  ClaimsHold' /\ SpendsOnce
  BY <1>6, <1>7
     DEF TaskBegins, CandidateIsThere, HearsRelease, WaitsTooLong, RoomCloses, LeavesRoom,
         InterviewEnds, TaskAt
<1>8. ASSUME NEW r \in Rooms, TaskEnds(r) PROVE ClaimsHold' /\ SpendsOnce
  <2>1. \A s \in Rooms, j \in Interviews :
              TaskHolds(s, j)' => TaskHolds(s, j) /\ (task[s].at = "runs" => task'[s].at = "runs")
    BY <1>a, <1>8 DEF TaskEnds, NoTask, TaskHolds, StartTypeOK
  <2>2. \A q \in Requests, j \in Interviews :
          RequestHolds(q, j)' => RequestHolds(q, j) /\ request'[q].room = request[q].room
    BY <1>8 DEF TaskEnds, RequestHolds
  <2>3. UNCHANGED <<interviews, accepted>>
    BY <1>8 DEF TaskEnds
  <2> QED
    BY <1>a, <2>1, <2>2, <2>3, NothingClaimed
<1>9. ASSUME Restarts PROVE ClaimsHold' /\ SpendsOnce
  <2>1. \A q \in Requests : request'[q].at \in {"idle", "over"}
    BY <1>9, <1>a DEF Restarts, Over, At, StartTypeOK, Request
  <2>2. \A r \in Rooms : task'[r].at = "none"
    BY <1>9 DEF Restarts, NoTask
  <2>3. UNCHANGED <<interviews, accepted>>
    BY <1>9 DEF Restarts
  <2>4. \A q \in Requests, j \in Interviews : ~RequestHolds(q, j)'
    BY <2>1 DEF RequestHolds
  <2>5. \A r \in Rooms, j \in Interviews : ~TaskHolds(r, j)'
    BY <2>2 DEF TaskHolds
  <2> QED
    BY <1>a, <2>3, <2>4, <2>5, NothingClaimed
<1>10. ASSUME ReleaseFails PROVE ClaimsHold' /\ SpendsOnce
  <2>1. UNCHANGED <<interviews, accepted>>
    BY <1>10 DEF ReleaseFails
  <2>2. ASSUME NEW q \in Requests, Proceeds(q, "over"), UNCHANGED task
        PROVE  ClaimsHold' /\ SpendsOnce
    <3>1. \A p \in Requests, j \in Interviews :
            RequestHolds(p, j)' => RequestHolds(p, j) /\ request'[p].room = request[p].room
      BY <1>a, <2>2, ProceedsHolds
    <3>2. \A s \in Rooms, j \in Interviews :
            TaskHolds(s, j)' => TaskHolds(s, j) /\ (task[s].at = "runs" => task'[s].at = "runs")
      BY <2>2 DEF TaskHolds
    <3> QED
      BY <1>a, <2>1, <3>1, <3>2, NothingClaimed
  <2>3. ASSUME NEW r \in Rooms, TaskAt(r, "gives back"), Moves(r, "ends"), UNCHANGED request
        PROVE  ClaimsHold' /\ SpendsOnce
    BY <1>6, <2>1, <2>3 DEF TaskAt
  <2> QED
    BY <1>10, <2>2, <2>3 DEF ReleaseFails
<1>11. ASSUME NEW q \in Requests, PageJoins(q) \/ PageGivesUp(q) \/ ReleaseArrives(q)
       PROVE  UNCHANGED <<request, task, accepted, interviews>>
  BY <1>11 DEF PageJoins, PageGivesUp, ReleaseArrives
<1>12. ASSUME \/ \E r \in Rooms : FinishesAssessment(r)
              \/ ShutdownBegins
              \/ UNCHANGED startVars
       PROVE  UNCHANGED <<request, task, accepted, interviews>>
  BY <1>12 DEF FinishesAssessment, ShutdownBegins, startVars
<1>13. ASSUME NEW r \in Rooms, TaskGoesOn(r) PROVE ClaimsHold' /\ SpendsOnce
  BY <1>5, <1>7, <1>8, <1>13, ClaimsJoinStep DEF TaskGoesOn
<1>14. ASSUME NEW q \in Requests, RequestGoesOn(q) PROVE ClaimsHold' /\ SpendsOnce
  BY <1>4, <1>14, ClaimsConsentStep, DispatchesStep DEF RequestGoesOn
<1> QED
  BY <1>1, <1>2, <1>3, <1>9, <1>10, <1>11, <1>12, <1>13, <1>14 DEF StartNext

(***************************************************************************)
(* The theorems                                                            *)
(***************************************************************************)
LEMMA StartInvInit == StartInit => StartInv
<1> SUFFICES ASSUME StartInit PROVE StartInv
  OBVIOUS
<1>1. RequestsHaveRooms
  BY DEF StartInit, RequestsHaveRooms
<1>2. RoomsAgree
  BY DEF StartInit, DispatchInit, NoTask, RoomsAgree
<1>3. ClaimsHold
  BY DEF StartInit, ConsentInit, NoTask, ClaimsHold, RequestsHold, TasksHold, SpentIsBound,
         RequestHolds, TaskHolds
<1> QED
  BY <1>1, <1>2, <1>3, StartTypeInit DEF StartInv

LEMMA StartInvNext ==
    ASSUME StartInv, [StartNext]_startVars
    PROVE  StartInv' /\ StaysReleased /\ SpendsOnce
BY StartTypeNext, RequestsHaveRoomsStep, RoomsAgreeStep, ClaimsHoldStep DEF StartInv

\* The claims and the rooms agree in every state.
LEMMA StartInvariant == StartSpec => []StartInv
<1>1. StartInv /\ [StartNext]_startVars => StartInv'
  BY StartInvNext
<1> QED
  BY <1>1, StartInvInit, PTL DEF StartSpec

\* The rooms, starts, tasks, requests and rows of consent stay well typed, whatever
\* requests, pages, tasks and processes interleave.
THEOREM StartsAreTyped == StartSpec => []StartTypeOK
<1>1. StartInv => StartTypeOK
  BY DEF StartInv
<1> QED BY <1>1, StartInvariant, PTL

\* A start that was given up stays given up, and no interview runs in its room, for
\* any number of requests, rooms and restarts (dispatch.rs, release_start and
\* claim_join).
THEOREM ReleasedStaysUnstaffed == StartSpec => ReleasedIsNotStaffed
<1>1. StartInv /\ [StartNext]_startVars =>
        [\A r \in Rooms : Released(r) =>
          /\ Released(r)' \/ starts'[r] = NoStart
          /\ task'[r].at # "runs"]_startVars
  <2> SUFFICES ASSUME StartInv, [StartNext]_startVars, NEW r \in Rooms, Released(r)
               PROVE  (Released(r)' \/ starts'[r] = NoStart) /\ task'[r].at # "runs"
    OBVIOUS
  <2>1. Released(r)' \/ starts'[r] = NoStart
    BY StartInvNext DEF StaysReleased
  <2>2. task'[r].at = "runs" => starts'[r] # NoStart /\ starts'[r].phase = "joined"
    BY StartInvNext DEF StartInv, RoomsAgree
  <2> QED
    BY <2>1, <2>2 DEF Released
<1> QED
  BY <1>1, StartInvariant, PTL DEF StartSpec, ReleasedIsNotStaffed

\* No release, refused request or withdrawal unbinds a consent that was spent, or
\* binds one that was withdrawn, for any number of accounts and interviews
\* (accounts/interviews.rs, claim_interview_room and release_interview_room).
THEOREM ConsentsAreSpentOnce == StartSpec => ConsentIsSpentOnce
<1>1. StartInv /\ [StartNext]_startVars =>
        \A i \in Interviews :
          /\ i \in accepted \/ interviews[i].recorded
                => interviews'[i].room = interviews[i].room
          /\ interviews[i].withdrawn => interviews'[i].room \in {interviews[i].room, NoRoom}
  BY StartInvNext DEF SpendsOnce
<1> QED
  BY <1>1, StartInvariant, PTL DEF StartSpec, ConsentIsSpentOnce

(***************************************************************************)
(* The pool of projects.  That what a request is given was up a while ago  *)
(* follows from what every verdict and every answer on its way is worth    *)
(* (UpIsRecent), and that none is older than the task lets it become       *)
(* (VerdictsAreReplaced).  That a lone request asks every project needs    *)
(* the place of its turns in the rotation (TurnsAreInOrder).               *)
(***************************************************************************)
AskersAreInStep ==
    \A a \in Askers :
        /\ IsAt(a, "turn") => asker[a].left > 0
        /\ asker[a].answer # "none" => IsAt(a, "probe")

\* How old a verdict may be by now.
Ripe == IF refresh.at = "asleep" THEN Refresh - refresh.time ELSE Refresh + refresh.time

VerdictsAreReplaced ==
    /\ refresh.at = "asleep" => refresh.time <= Refresh /\ warm
    /\ refresh.at = "probing" => refresh.time <= ProbeLimit
    /\ \A p \in Providers :
        /\ refresh.answers[p] # "none" => refresh.at = "probing"
        /\ warm => cache[p] # Unknown
        /\ cache[p] # Unknown => cache[p].age <= Ripe

UpIsRecent ==
    /\ \A p \in Providers :
        /\ cache[p] # Unknown /\ cache[p].up => since[p] <= cache[p].age + ProbeLimit
        /\ refresh.answers[p] = "up" => since[p] <= refresh.time
    /\ \A a \in Askers : asker[a].answer = "up" => since[asker[a].project] <= asker[a].time

\* How many turns before that of p the turn of q was, and the last k turns up to p.
Back(p, q) == IF q <= p THEN p - q ELSE (p - q) + Projects
Last(p, k) == {q \in Providers : Back(p, q) < k}
Taken(a) == Turns - asker[a].left

InOrder(a) ==
    ~asker[a].bound /\ ~asker[a].crossed =>
        /\ Taken(a) = 0 => asker[a].tried = {} /\ ~IsAt(a, "refused")
        /\ Taken(a) > 0 /\ IsAt(a, "turn") =>
            turn = After(asker[a].project) /\ asker[a].tried = Last(asker[a].project, Taken(a))
        /\ Taken(a) > 0 /\ asker[a].at \in {"ask", "probe"} =>
            /\ turn = After(asker[a].project)
            /\ asker[a].tried = Last(asker[a].project, Taken(a)) \ {asker[a].project}
        /\ IsAt(a, "refused") => asker[a].tried = Providers

TurnsAreInOrder == \A a \in Askers : InOrder(a)

PoolInv ==
    PoolTypeOK /\ AskersAreInStep /\ VerdictsAreReplaced /\ UpIsRecent /\ TurnsAreInOrder

LEMMA Halves ==
    ASSUME NEW n \in Nat, NEW half, half = n \div 2
    PROVE  half \in Nat /\ 2 * half <= n /\ n <= 2 * half + 1
  <1>1. half \in Nat
    OBVIOUS
  <1> QED BY <1>1

\* What the times add up to: a verdict is replaced before it expires.
LEMMA PoolNumbers ==
    /\ Projects \in Nat \ {0} /\ Turns = Projects /\ Refresh \in Nat /\ Trust \in Nat
    /\ ProbeLimit = ProbeTime /\ ProbeTime \in Nat \ {0} /\ SeenWithin = Refresh + 2 * ProbeTime
    /\ Refresh + ProbeTime < Trust /\ SeenWithin \in Nat
  <1>1. Refresh \in Nat /\ 2 * Refresh <= Trust /\ Trust <= 2 * Refresh + 1
    BY PoolTimes, Halves DEF Refresh
  <1> QED BY <1>1, PoolSize, PoolTimes DEF Turns, SeenWithin, ProbeLimit

LEMMA AfterIsOne == \A p \in Providers : After(p) \in Providers
  BY PoolSize DEF After, Providers

\* A request that is moved is the only one.
LEMMA OneMoves ==
    ASSUME PoolTypeOK, NEW a \in Askers, NEW locals \in Asker, Is(a, locals)
    PROVE  /\ asker' \in [Askers -> Asker] /\ asker'[a] = locals
           /\ \A b \in Askers \ {a} : asker'[b] = asker[b]
  BY DEF PoolTypeOK, Is

LEMMA IdleIsTyped == NoRequest \in Asker
  BY PoolNumbers DEF NoRequest, Asker, Providers, Answers

LEMMA SettledIsTyped ==
    ASSUME PoolTypeOK, NEW a \in Askers, NEW up \in BOOLEAN
    PROVE  AfterVerdict(a, up) \in Asker
  <1>1. asker[a] \in Asker /\ asker[a].tried \cup {asker[a].project} \subseteq Providers
    BY DEF PoolTypeOK, Asker
  <1>2. CASE up
    <2>1. AfterVerdict(a, up) = [at |-> "given", project |-> asker[a].project, left |-> Turns,
                            bound |-> FALSE, tried |-> {}, time |-> 0, answer |-> "none",
                            crossed |-> FALSE]
      BY <1>2 DEF AfterVerdict, NoRequest
    <2> QED BY <1>1, <2>1, PoolNumbers DEF Asker, Answers
  <1>3. CASE ~up
    <2> DEFINE next == IF ~asker[a].bound /\ asker[a].left > 0 THEN "turn" ELSE "refused"
               told == IF asker[a].left < Turns
                       THEN asker[a].tried \cup {asker[a].project} ELSE asker[a].tried
    <2>1. AfterVerdict(a, up) = [asker[a] EXCEPT !.at = next, !.time = 0, !.answer = "none",
                                            !.tried = told]
      BY <1>3 DEF AfterVerdict
    <2>2. next \in {"turn", "refused"} /\ told \in SUBSET Providers
      BY <1>1 DEF Asker
    <2>3. 0 \in 0..ProbeLimit
      BY PoolNumbers
    <2> HIDE DEF next, told
    <2> QED BY <1>1, <2>1, <2>2, <2>3 DEF Asker, Answers
  <1> QED BY <1>2, <1>3

\* What a verdict does to the locals of its request.
LEMMA SettledIs ==
    ASSUME PoolTypeOK, NEW a \in Askers, NEW up \in BOOLEAN
    PROVE  /\ AfterVerdict(a, up).answer = "none" /\ AfterVerdict(a, up).time = 0
           /\ up => /\ AfterVerdict(a, up).at = "given" /\ AfterVerdict(a, up).project = asker[a].project
                    /\ AfterVerdict(a, up).left = Turns /\ AfterVerdict(a, up).tried = {}
           /\ ~up => /\ AfterVerdict(a, up).project = asker[a].project
                     /\ AfterVerdict(a, up).left = asker[a].left
                     /\ AfterVerdict(a, up).at =
                          IF ~asker[a].bound /\ asker[a].left > 0 THEN "turn" ELSE "refused"
                     /\ AfterVerdict(a, up).tried =
                          IF asker[a].left < Turns
                          THEN asker[a].tried \cup {asker[a].project} ELSE asker[a].tried
  <1>1. asker[a] \in Asker
    BY DEF PoolTypeOK
  <1> QED BY <1>1 DEF AfterVerdict, Asker, NoRequest

LEMMA SettledIsStillBound ==
    ASSUME PoolTypeOK, NEW a \in Askers
    PROVE  /\ AfterVerdict(a, FALSE).bound = asker[a].bound
           /\ AfterVerdict(a, FALSE).crossed = asker[a].crossed
  <1>1. asker[a] \in Asker
    BY DEF PoolTypeOK
  <1> QED BY <1>1 DEF AfterVerdict, Asker

\* A verdict that is asked for is one of the table's.
LEMMA CacheIsTyped ==
    ASSUME PoolTypeOK, NEW p \in Providers
    PROVE  /\ cache[p].up \in BOOLEAN
           /\ IsFresh(cache[p]) => cache[p] # Unknown /\ cache[p] \in Verdict
  <1>1. CASE cache[p] \in Verdict
    <2>1. cache[p].up \in BOOLEAN /\ cache[p].age \in 0..Trust
      BY <1>1 DEF Verdict
    <2>2. Unknown.age = Trust + 1
      BY DEF Unknown
    <2> QED BY <1>1, <2>1, <2>2, PoolNumbers
  <1>2. CASE cache[p] = Unknown
    <2>1. cache[p].up \in BOOLEAN
      <3>1. Unknown \in [up : BOOLEAN, age : {Trust + 1}]
        BY DEF Unknown
      <3> QED BY <1>2, <3>1
    <2>2. cache[p].age = Trust + 1
      BY <1>2 DEF Unknown
    <2> QED BY <2>1, <2>2, PoolNumbers DEF IsFresh
  <1> QED BY <1>1, <1>2 DEF PoolTypeOK

\* How a request begins, and what goes on when a verdict is at hand or not.
LEMMA BeginsFacts ==
    ASSUME NEW a \in Askers, Begins(a)
    PROVE  \E locals \in Asker :
              /\ Is(a, locals) /\ locals.at \in {"turn", "ask"} /\ locals.left = Turns
              /\ locals.tried = {} /\ locals.answer = "none" /\ locals.time = 0
  <1>1. NoRequest = [at |-> "idle", project |-> 0, left |-> Turns, bound |-> FALSE, tried |-> {},
                time |-> 0, answer |-> "none", crossed |-> FALSE]
    BY DEF NoRequest
  <1>2. 0 \in Providers /\ Turns \in 0..Turns /\ 0 \in 0..ProbeLimit /\ Pins \subseteq Providers
    BY PoolNumbers, PoolSize DEF Providers
  <1>3. CASE Is(a, [NoRequest EXCEPT !.at = "turn"])
    <2> DEFINE next == [NoRequest EXCEPT !.at = "turn"]
    <2>1. next \in Asker /\ next.at = "turn" /\ next.left = Turns /\ next.tried = {}
          /\ next.answer = "none" /\ next.time = 0
      BY <1>1, <1>2 DEF Asker, Answers
    <2> HIDE DEF next
    <2> QED BY <1>3, <2>1 DEF next
  <1>4. ASSUME NEW p \in Providers, NEW bound \in BOOLEAN,
               Is(a, [NoRequest EXCEPT !.at = "ask", !.project = p, !.bound = bound])
        PROVE  \E locals \in Asker :
                  /\ Is(a, locals) /\ locals.at \in {"turn", "ask"} /\ locals.left = Turns
                  /\ locals.tried = {} /\ locals.answer = "none" /\ locals.time = 0
    <2> DEFINE next == [NoRequest EXCEPT !.at = "ask", !.project = p, !.bound = bound]
    <2>1. next \in Asker /\ next.at = "ask" /\ next.left = Turns /\ next.tried = {}
          /\ next.answer = "none" /\ next.time = 0
      BY <1>1, <1>2 DEF Asker, Answers
    <2> HIDE DEF next
    <2> QED BY <1>4, <2>1 DEF next
  <1> QED BY <1>3, <1>4 DEF Begins

LEMMA OneInStep ==
    ASSUME PoolTypeOK, AskersAreInStep, NEW a \in Askers, NEW locals \in Asker, Is(a, locals),
           locals.at = "turn" => locals.left > 0,
           locals.answer # "none" => locals.at = "probe"
    PROVE  asker' \in [Askers -> Asker] /\ AskersAreInStep'
  BY OneMoves DEF AskersAreInStep, IsAt

\* A request that has been told of a project is where its turns have brought it.
LEMMA SettledInStep ==
    ASSUME PoolTypeOK, AskersAreInStep, NEW a \in Askers, NEW up \in BOOLEAN, Is(a, AfterVerdict(a, up))
    PROVE  asker' \in [Askers -> Asker] /\ AskersAreInStep'
  <1>1. asker[a] \in Asker /\ AfterVerdict(a, up) \in Asker
    BY SettledIsTyped DEF PoolTypeOK
  <1>2. up => AfterVerdict(a, up).at = "given"
    BY SettledIs
  <1>3. AfterVerdict(a, up).at = "turn" => AfterVerdict(a, up).left > 0
    BY <1>2, SettledIs
  <1> QED BY <1>1, <1>3, SettledIs, OneInStep

LEMMA AskersStayInStep ==
    ASSUME PoolTypeOK, AskersAreInStep, NEW a \in Askers, AskerStep(a)
    PROVE  asker' \in [Askers -> Asker] /\ AskersAreInStep'
  <1>1. CASE Begins(a)
    BY <1>1, BeginsFacts, OneInStep, PoolNumbers
  <1>2. CASE TakesTurn(a)
    <2>1. \A b \in Askers \ {a} :
            /\ asker'[b] = [asker[b] EXCEPT !.crossed = @ \/ InTurn(b)]
            /\ asker[b] \in Asker
      BY <1>2 DEF TakesTurn, PoolTypeOK
    <2>2. \A b \in Askers : InTurn(b) \in BOOLEAN
      BY DEF InTurn
    <2>3. \A b \in Askers \ {a} :
            /\ asker'[b] \in Asker /\ asker'[b].at = asker[b].at
            /\ asker'[b].left = asker[b].left /\ asker'[b].answer = asker[b].answer
      <3> TAKE b \in Askers \ {a}
      <3> DEFINE crossed == asker[b].crossed \/ InTurn(b)
      <3>1. asker'[b] = [asker[b] EXCEPT !.crossed = crossed] /\ asker[b] \in Asker
        BY <2>1
      <3>2. crossed \in BOOLEAN
        OBVIOUS
      <3> HIDE DEF crossed
      <3> QED BY <3>1, <3>2 DEF Asker
    <2>4. /\ asker'[a] = [asker[a] EXCEPT !.at = "ask", !.project = turn, !.left = @ - 1]
          /\ asker[a] \in Asker /\ IsAt(a, "turn") /\ asker[a].left > 0 /\ turn \in Providers
      BY <1>2 DEF TakesTurn, PoolTypeOK, AskersAreInStep
    <2>5. asker'[a] \in Asker /\ asker'[a].at = "ask" /\ asker'[a].answer = asker[a].answer
      <3>1. asker[a].left - 1 \in 0..Turns
        BY <2>4, PoolNumbers DEF Asker
      <3> QED BY <2>4, <3>1 DEF Asker
    <2>6. asker[a].answer = "none"
      BY <2>4 DEF AskersAreInStep, IsAt
    <2>7. \A b \in Askers : asker'[b] \in Asker
      BY <2>3, <2>5
    <2>8. DOMAIN asker' = Askers /\ asker' = [b \in Askers |-> asker'[b]]
      BY <1>2 DEF TakesTurn
    <2> QED BY <2>3, <2>5, <2>6, <2>7, <2>8 DEF AskersAreInStep, IsAt
  <1>3. CASE Asks(a)
    <2>1. asker[a] \in Asker /\ asker[a].project \in Providers
      BY DEF PoolTypeOK, Asker
    <2>2. CASE IsFresh(cache[asker[a].project])
      BY <1>3, <2>1, <2>2, CacheIsTyped, SettledInStep DEF Asks
    <2>3. CASE ~IsFresh(cache[asker[a].project])
      <3> DEFINE next == [asker[a] EXCEPT !.at = "probe"]
      <3>1. Is(a, next)
        BY <1>3, <2>3 DEF Asks
      <3>2. next \in Asker /\ next.at = "probe"
        BY <2>1 DEF Asker
      <3> HIDE DEF next
      <3> QED BY <3>1, <3>2, OneInStep
    <2> QED BY <2>2, <2>3
  <1>4. CASE IsAnswered(a)
    <2>1. PICK answer \in {"up", "down"} : Is(a, [asker[a] EXCEPT !.answer = answer])
      BY <1>4 DEF IsAnswered
    <2> DEFINE next == [asker[a] EXCEPT !.answer = answer]
    <2>2. asker[a] \in Asker /\ IsAt(a, "probe")
      BY <1>4 DEF PoolTypeOK, IsAnswered
    <2>3. next \in Asker /\ next.at = "probe"
      BY <2>2 DEF Asker, Answers, IsAt
    <2> HIDE DEF next
    <2> QED BY <2>1, <2>3, OneInStep DEF next
  <1>5. CASE Stores(a)
    BY <1>5, SettledInStep DEF Stores
  <1>6. CASE Leaves(a)
    BY <1>6, IdleIsTyped, OneInStep DEF Leaves, NoRequest
  <1> QED BY <1>1, <1>2, <1>3, <1>4, <1>5, <1>6 DEF AskerStep

LEMMA NewVerdicts ==
    ASSUME NEW up \in BOOLEAN
    PROVE  /\ [up |-> up, age |-> 0] \in Verdict /\ [up |-> up, age |-> 0] # Unknown
           /\ [up |-> up, age |-> 0].up = up /\ [up |-> up, age |-> 0].age = 0
  <1>1. Unknown.age = Trust + 1
    BY DEF Unknown
  <1> QED BY <1>1, PoolNumbers DEF Verdict

LEMMA HeardIsTyped ==
    ASSUME PoolTypeOK, NEW p \in Providers, NEW answer \in {"up", "down"}, Heard(p, answer)
    PROVE  /\ since' \in [Providers -> 0..(SeenWithin + 1)]
           /\ answer = "up" => since'[p] = 0
           /\ \A q \in Providers : since'[q] = since[q] \/ since'[q] = 0
  BY PoolNumbers DEF Heard, PoolTypeOK

\* The locals of requests apart, each step keeps its types.
LEMMA PoolTypesStay ==
    ASSUME PoolTypeOK, AskersAreInStep, [PoolNext]_poolVars
    PROVE  PoolTypeOK' /\ AskersAreInStep'
  <1>1. ASSUME NEW a \in Askers, AskerStep(a) PROVE PoolTypeOK' /\ AskersAreInStep'
    <2>1. asker' \in [Askers -> Asker] /\ AskersAreInStep'
      BY <1>1, AskersStayInStep
    <2>2. refresh' = refresh /\ has' = has /\ warm' = warm
      BY <1>1 DEF AskerStep, Begins, TakesTurn, Asks, IsAnswered, Stores, Leaves, theRest
    <2>3. turn' \in Providers
      BY <1>1, AfterIsOne DEF AskerStep, Begins, TakesTurn, Asks, IsAnswered, Stores, Leaves,
         PoolTypeOK
    <2>4. asker[a].project \in Providers
      BY DEF PoolTypeOK, Asker
    <2>5. cache' \in [Providers -> Verdict \cup {Unknown}]
      <3>1. CASE Stores(a)
        <4> DEFINE up == asker[a].answer = "up"
        <4>1. cache' = [cache EXCEPT ![asker[a].project] = [up |-> up, age |-> 0]]
          BY <3>1 DEF Stores
        <4>2. up \in BOOLEAN
          OBVIOUS
        <4> HIDE DEF up
        <4> QED BY <4>1, <4>2, NewVerdicts DEF PoolTypeOK
      <3>2. CASE cache' = cache
        BY <3>2 DEF PoolTypeOK
      <3> QED BY <1>1, <3>1, <3>2 DEF AskerStep, Begins, TakesTurn, Asks, IsAnswered, Leaves
    <2>6. since' \in [Providers -> 0..(SeenWithin + 1)]
      <3>1. CASE IsAnswered(a)
        BY <2>4, <3>1, HeardIsTyped DEF IsAnswered
      <3>2. CASE since' = since
        BY <3>2 DEF PoolTypeOK
      <3> QED BY <1>1, <3>1, <3>2 DEF AskerStep, Begins, TakesTurn, Asks, Stores, Leaves
    <2> QED BY <2>1, <2>2, <2>3, <2>5, <2>6 DEF PoolTypeOK
  <1>3. NoAnswers \in [Providers -> Answers]
    BY DEF NoAnswers, Answers
  <1>4. CASE RefreshBegins
    <2>1. refresh' \in [at : {"asleep", "probing"}, time : Nat, answers : [Providers -> Answers]]
      BY <1>3, <1>4 DEF RefreshBegins
    <2> QED BY <1>4, <2>1 DEF RefreshBegins, PoolTypeOK, AskersAreInStep, IsAt
  <1>5. ASSUME NEW p \in Providers, RefreshHears(p) PROVE PoolTypeOK' /\ AskersAreInStep'
    <2>1. PICK answer \in {"up", "down"} :
            Heard(p, answer) /\ refresh' = [refresh EXCEPT !.answers[p] = answer]
      BY <1>5 DEF RefreshHears
    <2>2. refresh' \in [at : {"asleep", "probing"}, time : Nat, answers : [Providers -> Answers]]
      BY <2>1 DEF PoolTypeOK, Answers
    <2> QED BY <1>5, <2>1, <2>2, HeardIsTyped DEF RefreshHears, PoolTypeOK, AskersAreInStep, IsAt
  <1>6. CASE RefreshStores
    <2>1. refresh' \in [at : {"asleep", "probing"}, time : Nat, answers : [Providers -> Answers]]
      BY <1>3, <1>6, PoolNumbers DEF RefreshStores
    <2>2. \A p \in Providers : NewVerdict(p) \in Verdict
      <3> TAKE p \in Providers
      <3> DEFINE up == refresh.answers[p] = "up"
      <3>1. NewVerdict(p) = [up |-> up, age |-> 0] /\ up \in BOOLEAN
        BY DEF NewVerdict
      <3> HIDE DEF up
      <3> QED BY <3>1, NewVerdicts
    <2>3. cache' \in [Providers -> Verdict \cup {Unknown}]
      BY <1>6, <2>2 DEF RefreshStores
    <2> QED BY <1>6, <2>1, <2>3 DEF RefreshStores, PoolTypeOK, AskersAreInStep, IsAt
  <1>7. ASSUME NEW p \in Providers, Changes(p) PROVE PoolTypeOK' /\ AskersAreInStep'
    BY <1>7, PoolNumbers DEF Changes, PoolTypeOK, AskersAreInStep, IsAt
  <1>8. CASE PoolTick
    <2>1. cache' \in [Providers -> Verdict \cup {Unknown}]
      <3>1. \A p \in Providers : cache[p] # Unknown =>
              [cache[p] EXCEPT !.age = UpTo(@, Trust)] \in Verdict
        BY PoolNumbers DEF PoolTypeOK, Verdict, UpTo
      <3> QED BY <1>8, <3>1 DEF PoolTick
    <2>2. asker' \in [Askers -> Asker] /\ AskersAreInStep'
      <3>1. \A a \in Askers : asker[a] \in Asker
        BY DEF PoolTypeOK
      <3>2. \A a \in Askers : IsAt(a, "probe") => asker[a].time < ProbeLimit
        BY <1>8 DEF PoolTick, NothingIsDue
      <3>3. \A a \in Askers : asker'[a] =
              IF IsAt(a, "probe") THEN [asker[a] EXCEPT !.time = @ + 1] ELSE asker[a]
        BY <1>8 DEF PoolTick
      <3>4. \A a \in Askers :
              /\ asker'[a] \in Asker /\ asker'[a].at = asker[a].at
              /\ asker'[a].left = asker[a].left /\ asker'[a].answer = asker[a].answer
        <4> TAKE a \in Askers
        <4>1. CASE IsAt(a, "probe")
          <5>1. asker[a].time + 1 \in 0..ProbeLimit
            BY <3>1, <3>2, <4>1, PoolNumbers DEF Asker
          <5> QED BY <3>1, <3>3, <4>1, <5>1 DEF Asker
        <4> QED BY <3>1, <3>3, <4>1
      <3>5. DOMAIN asker' = Askers /\ asker' = [a \in Askers |-> asker'[a]]
        BY <1>8 DEF PoolTick
      <3> QED BY <3>4, <3>5 DEF AskersAreInStep, IsAt
    <2>3. refresh' \in [at : {"asleep", "probing"}, time : Nat, answers : [Providers -> Answers]]
      <3>1. refresh.at = "asleep" => refresh.time > 0
        BY <1>8 DEF PoolTick, NothingIsDue
      <3> QED BY <1>8, <3>1 DEF PoolTick, PoolTypeOK
    <2>4. since' \in [Providers -> 0..(SeenWithin + 1)]
      <3>1. \A p \in Providers : UpTo(since[p], SeenWithin + 1) \in 0..(SeenWithin + 1) /\ 0 \in 0..(SeenWithin + 1)
        BY PoolNumbers DEF PoolTypeOK, UpTo
      <3> QED BY <1>8, <3>1 DEF PoolTick
    <2> QED BY <1>8, <2>1, <2>2, <2>3, <2>4 DEF PoolTick, PoolTypeOK
  <1>9. CASE UNCHANGED poolVars
    BY <1>9 DEF poolVars, PoolTypeOK, AskersAreInStep, IsAt
  <1> QED BY <1>1, <1>4, <1>5, <1>6, <1>7, <1>8, <1>9 DEF PoolNext, RefreshStep

\* The task and its answers are as they were, and a request has written its own
\* verdict down or nothing.
LEMMA AskersWriteOne ==
    ASSUME PoolTypeOK, NEW a \in Askers, AskerStep(a)
    PROVE  /\ UNCHANGED <<refresh, warm, has>>
           /\ \/ cache' = cache
              \/ /\ Stores(a) /\ UNCHANGED since /\ asker[a].project \in Providers
                 /\ cache'[asker[a].project] = [up |-> asker[a].answer = "up", age |-> 0]
                 /\ \A p \in Providers \ {asker[a].project} : cache'[p] = cache[p]
  <1>1. asker[a].project \in Providers
    BY DEF PoolTypeOK, Asker
  <1>2. CASE Stores(a)
    BY <1>1, <1>2 DEF Stores, theRest, PoolTypeOK
  <1> QED BY <1>2 DEF AskerStep, Begins, TakesTurn, Asks, IsAnswered, Leaves, theRest

\* A verdict ages by one, unless it is too old to be believed.
LEMMA TicksAge ==
    ASSUME PoolTypeOK, PoolTick, NEW p \in Providers
    PROVE  /\ cache[p] = Unknown <=> cache'[p] = Unknown
           /\ cache[p] # Unknown =>
                /\ cache'[p].up = cache[p].up
                /\ cache'[p].age = IF cache[p].age < Trust THEN cache[p].age + 1 ELSE Trust
                /\ cache'[p].age \in {cache[p].age, cache[p].age + 1}
  <1>1. CASE cache[p] = Unknown
    BY <1>1 DEF PoolTick
  <1>2. CASE cache[p] # Unknown
    <2>1. cache'[p] = [cache[p] EXCEPT !.age = UpTo(@, Trust)] /\ cache[p] \in Verdict
      BY <1>2 DEF PoolTick, PoolTypeOK
    <2>2. cache[p].age \in 0..Trust /\ UpTo(cache[p].age, Trust) \in 0..Trust
      BY <2>1, PoolNumbers DEF Verdict, UpTo
    <2>3. cache'[p].age = UpTo(cache[p].age, Trust) /\ cache'[p].up = cache[p].up
      BY <2>1 DEF Verdict
    <2>4. Unknown.age = Trust + 1
      BY DEF Unknown
    <2> QED BY <1>2, <2>2, <2>3, <2>4, PoolNumbers DEF UpTo
  <1> QED BY <1>1, <1>2

\* The task replaces every verdict before one is as old as the task may be.
LEMMA VerdictsStayReplaced ==
    ASSUME PoolTypeOK, VerdictsAreReplaced, [PoolNext]_poolVars
    PROVE  VerdictsAreReplaced'
  <1> USE PoolNumbers
  <1>1. refresh.time \in Nat /\ refresh.at \in {"asleep", "probing"} /\ Ripe \in Nat
    BY DEF PoolTypeOK, Ripe, VerdictsAreReplaced
  <1>2. ASSUME NEW a \in Askers, AskerStep(a) PROVE VerdictsAreReplaced'
    <2>1. UNCHANGED <<refresh, warm>> /\ Ripe' = Ripe
      BY <1>2, AskersWriteOne DEF Ripe
    <2>2. \A p \in Providers : cache'[p] = cache[p] \/ (cache'[p] # Unknown /\ cache'[p].age = 0)
      <3>1. (asker[a].answer = "up") \in BOOLEAN
        OBVIOUS
      <3>2. CASE cache' = cache
        BY <3>2
      <3>3. CASE cache' # cache
        <4> DEFINE q == asker[a].project
                   up == asker[a].answer = "up"
        <4>1. /\ cache'[q] = [up |-> up, age |-> 0]
              /\ \A p \in Providers \ {q} : cache'[p] = cache[p]
          BY <1>2, <3>3, AskersWriteOne
        <4> HIDE DEF q, up
        <4>2. cache'[q] # Unknown /\ cache'[q].age = 0
          BY <3>1, <4>1, NewVerdicts DEF up
        <4> QED BY <4>1, <4>2
      <3> QED BY <3>2, <3>3
    <2> QED BY <1>1, <2>1, <2>2 DEF VerdictsAreReplaced
  <1>3. CASE RefreshBegins
    BY <1>1, <1>3 DEF RefreshBegins, VerdictsAreReplaced, Ripe, NoAnswers
  <1>4. ASSUME NEW p \in Providers, RefreshHears(p) PROVE VerdictsAreReplaced'
    <2>1. refresh'.at = refresh.at /\ refresh'.time = refresh.time /\ refresh.at = "probing"
          /\ UNCHANGED <<cache, warm>>
      BY <1>4 DEF RefreshHears, PoolTypeOK
    <2> QED BY <2>1 DEF VerdictsAreReplaced, Ripe
  <1>5. CASE RefreshStores
    <2>1. \A p \in Providers : cache'[p] # Unknown /\ cache'[p].age = 0
      <3> TAKE p \in Providers
      <3>1. cache'[p] = [up |-> refresh.answers[p] = "up", age |-> 0]
        BY <1>5 DEF RefreshStores, NewVerdict
      <3>2. (refresh.answers[p] = "up") \in BOOLEAN
        OBVIOUS
      <3> QED BY <3>1, <3>2, NewVerdicts
    <2>2. refresh' = [at |-> "asleep", time |-> Refresh, answers |-> NoAnswers] /\ warm'
      BY <1>5 DEF RefreshStores
    <2> QED BY <2>1, <2>2 DEF VerdictsAreReplaced, Ripe, NoAnswers
  <1>6. ASSUME NEW p \in Providers, Changes(p) PROVE VerdictsAreReplaced'
    BY <1>6 DEF Changes, VerdictsAreReplaced, Ripe
  <1>7. CASE PoolTick
    <2>1. /\ refresh.at = "probing" => refresh.time < ProbeLimit
          /\ refresh.at = "asleep" => refresh.time > 0
      BY <1>7 DEF PoolTick, NothingIsDue
    <2>2. /\ refresh'.at = refresh.at /\ refresh'.answers = refresh.answers /\ warm' = warm
          /\ refresh'.time = IF refresh.at = "asleep" THEN refresh.time - 1 ELSE refresh.time + 1
      BY <1>7 DEF PoolTick, PoolTypeOK
    <2>3. Ripe' = Ripe + 1
      BY <1>1, <2>1, <2>2 DEF Ripe, VerdictsAreReplaced
    <2>4. \A p \in Providers :
            /\ cache[p] = Unknown <=> cache'[p] = Unknown
            /\ cache[p] # Unknown => cache'[p].age \in {cache[p].age, cache[p].age + 1}
      BY <1>7, TicksAge
    <2>5. \A p \in Providers : cache[p] # Unknown => cache[p].age \in Nat
      BY DEF PoolTypeOK, Verdict
    <2> QED BY <1>1, <2>1, <2>2, <2>3, <2>4, <2>5 DEF VerdictsAreReplaced
  <1>8. CASE UNCHANGED poolVars
    BY <1>8 DEF poolVars, VerdictsAreReplaced, Ripe
  <1> QED BY <1>2, <1>3, <1>4, <1>5, <1>6, <1>7, <1>8 DEF PoolNext, RefreshStep

\* What a request heard is kept until it is written down.
LEMMA AskersKeepAnswers ==
    ASSUME PoolTypeOK, AskersAreInStep, NEW a \in Askers, AskerStep(a), NEW b \in Askers
    PROVE  \/ asker'[b].answer = "none"
           \/ /\ asker'[b].answer = asker[b].answer /\ asker'[b].project = asker[b].project
              /\ asker'[b].time = asker[b].time
           \/ /\ b = a /\ IsAnswered(a) /\ asker'[a].project = asker[a].project
              /\ \E answer \in {"up", "down"} :
                   Heard(asker[a].project, answer) /\ asker'[a].answer = answer
  <1>1. asker[a] \in Asker /\ asker[b] \in Asker /\ asker[a].project \in Providers
    BY DEF PoolTypeOK, Asker
  <1>2. CASE Begins(a)
    BY <1>2, BeginsFacts, OneMoves
  <1>3. CASE TakesTurn(a)
    <2>1. CASE b = a
      <3>1. asker[a].answer = "none"
        BY <1>3 DEF TakesTurn, AskersAreInStep, IsAt
      <3>2. asker'[a] = [asker[a] EXCEPT !.at = "ask", !.project = turn, !.left = @ - 1]
        BY <1>3 DEF TakesTurn
      <3> QED BY <1>1, <2>1, <3>1, <3>2 DEF Asker
    <2>2. CASE b # a
      <3>1. asker'[b] = [asker[b] EXCEPT !.crossed = @ \/ InTurn(b)]
        BY <1>3, <2>2 DEF TakesTurn
      <3> QED BY <1>1, <3>1 DEF Asker
    <2> QED BY <2>1, <2>2
  <1>4. ASSUME NEW up \in BOOLEAN, Is(a, AfterVerdict(a, up))
        PROVE  asker'[b].answer = "none" \/ asker'[b] = asker[b]
    <2>1. AfterVerdict(a, up) \in Asker /\ AfterVerdict(a, up).answer = "none"
      BY SettledIsTyped, SettledIs
    <2> HIDE DEF AfterVerdict
    <2> QED BY <1>4, <2>1, OneMoves
  <1>5. CASE Asks(a)
    <2>1. CASE IsFresh(cache[asker[a].project])
      BY <1>1, <1>4, <1>5, <2>1, CacheIsTyped DEF Asks
    <2>2. CASE ~IsFresh(cache[asker[a].project])
      <3>1. asker' = [asker EXCEPT ![a] = [asker[a] EXCEPT !.at = "probe"]]
        BY <1>5, <2>2 DEF Asks, Is
      <3>2. asker'[a] = [asker[a] EXCEPT !.at = "probe"] /\ (b # a => asker'[b] = asker[b])
        BY <3>1 DEF PoolTypeOK
      <3> QED BY <1>1, <3>2 DEF Asker
    <2> QED BY <2>1, <2>2
  <1>6. CASE IsAnswered(a)
    <2>1. PICK answer \in {"up", "down"} :
            /\ Heard(asker[a].project, answer)
            /\ asker' = [asker EXCEPT ![a] = [asker[a] EXCEPT !.answer = answer]]
      BY <1>6 DEF IsAnswered, Is
    <2>2. /\ asker'[a] = [asker[a] EXCEPT !.answer = answer]
          /\ b # a => asker'[b] = asker[b]
      BY <2>1 DEF PoolTypeOK
    <2>3. asker'[a].answer = answer /\ asker'[a].project = asker[a].project
      BY <1>1, <2>2 DEF Asker
    <2> QED BY <1>6, <2>1, <2>2, <2>3
  <1>7. CASE Stores(a)
    BY <1>4, <1>7 DEF Stores
  <1>8. CASE Leaves(a)
    <2>1. NoRequest.answer = "none"
      BY DEF NoRequest
    <2> QED BY <1>8, <2>1, IdleIsTyped, OneMoves DEF Leaves
  <1> QED BY <1>2, <1>3, <1>5, <1>6, <1>7, <1>8 DEF AskerStep

\* Whoever writes a verdict of "up" has heard it no longer ago than a probe lasts.
LEMMA UpStaysRecent ==
    ASSUME PoolTypeOK, AskersAreInStep, VerdictsAreReplaced, UpIsRecent, [PoolNext]_poolVars
    PROVE  UpIsRecent'
  <1> USE PoolNumbers
  <1>1. /\ \A p \in Providers : since[p] \in Nat
        /\ \A p \in Providers : cache[p] # Unknown => cache[p].age \in Nat
        /\ refresh.time \in Nat
        /\ \A a \in Askers : /\ asker[a] \in Asker /\ asker[a].time \in 0..ProbeLimit
                             /\ asker[a].project \in Providers
    BY DEF PoolTypeOK, Verdict, Asker
  <1>2. ASSUME NEW a \in Askers, AskerStep(a) PROVE UpIsRecent'
    <2>1. \A p \in Providers : since'[p] = since[p] \/ since'[p] = 0
      <3>1. CASE IsAnswered(a)
        BY <1>1, <3>1, HeardIsTyped DEF IsAnswered
      <3> QED BY <1>2, <3>1 DEF AskerStep, Begins, TakesTurn, Asks, Stores, Leaves
    <2>2. \A b \in Askers : asker'[b].answer = "up" => since'[asker'[b].project] <= asker'[b].time
      <3> SUFFICES ASSUME NEW b \in Askers, asker'[b].answer = "up"
                   PROVE  since'[asker'[b].project] <= asker'[b].time
        OBVIOUS
      <3>1. CASE /\ asker'[b].answer = asker[b].answer /\ asker'[b].project = asker[b].project
                 /\ asker'[b].time = asker[b].time
        BY <1>1, <2>1, <3>1 DEF UpIsRecent
      <3>2. CASE /\ b = a /\ asker'[a].project = asker[a].project
                 /\ Heard(asker[a].project, "up")
        <4>1. since'[asker'[b].project] = 0
          BY <1>1, <3>2, HeardIsTyped
        <4>2. asker'[b].time \in Nat
          BY <1>2, AskersStayInStep DEF Asker
        <4> QED BY <4>1, <4>2
      <3> QED BY <1>2, <3>1, <3>2, AskersKeepAnswers
    <2>3. \A p \in Providers : cache'[p] # Unknown /\ cache'[p].up => since'[p] <= cache'[p].age + ProbeLimit
      <3>1. CASE cache' = cache
        BY <1>1, <2>1, <3>1 DEF UpIsRecent
      <3>2. CASE cache' # cache
        <4> DEFINE p == asker[a].project
                   up == asker[a].answer = "up"
        <4>1. /\ UNCHANGED since /\ p \in Providers /\ cache'[p] = [up |-> up, age |-> 0]
              /\ \A q \in Providers \ {p} : cache'[q] = cache[q]
          BY <1>2, <3>2, AskersWriteOne
        <4>2. up \in BOOLEAN
          OBVIOUS
        <4>3. up => since[p] <= ProbeLimit
          BY <1>1 DEF UpIsRecent
        <4> HIDE DEF p, up
        <4>4. cache'[p].up = up /\ cache'[p].age = 0
          BY <4>1, <4>2, NewVerdicts
        <4> QED BY <1>1, <4>1, <4>3, <4>4 DEF UpIsRecent
      <3> QED BY <3>1, <3>2
    <2>4. refresh' = refresh
      BY <1>2, AskersWriteOne
    <2> QED BY <1>1, <2>1, <2>2, <2>3, <2>4 DEF UpIsRecent
  <1>3. CASE RefreshBegins
    BY <1>3 DEF RefreshBegins, UpIsRecent, NoAnswers
  <1>4. ASSUME NEW p \in Providers, RefreshHears(p) PROVE UpIsRecent'
    <2>1. PICK answer \in {"up", "down"} :
            Heard(p, answer) /\ refresh' = [refresh EXCEPT !.answers[p] = answer]
      BY <1>4 DEF RefreshHears
    <2>2. /\ refresh'.time = refresh.time /\ refresh'.answers[p] = answer
          /\ \A q \in Providers \ {p} : refresh'.answers[q] = refresh.answers[q]
      BY <2>1 DEF PoolTypeOK
    <2>3. UNCHANGED <<cache, asker>>
      BY <1>4 DEF RefreshHears
    <2>4. \A q \in Providers : since'[q] = since[q] \/ since'[q] = 0
      BY <2>1, HeardIsTyped
    <2>5. answer = "up" => since'[p] = 0
      BY <2>1, HeardIsTyped
    <2> QED BY <1>1, <2>2, <2>3, <2>4, <2>5 DEF UpIsRecent
  <1>5. CASE RefreshStores
    <2>1. UNCHANGED <<asker, since>>
          /\ refresh' = [at |-> "asleep", time |-> Refresh, answers |-> NoAnswers]
      BY <1>5 DEF RefreshStores
    <2>2. \A p \in Providers : cache'[p].up => since[p] <= cache'[p].age + ProbeLimit
      <3> TAKE p \in Providers
      <3> DEFINE up == refresh.answers[p] = "up"
      <3>1. cache'[p] = [up |-> up, age |-> 0] /\ up \in BOOLEAN
        BY <1>5 DEF RefreshStores, NewVerdict
      <3>2. refresh.time <= ProbeLimit
        BY <1>5 DEF RefreshStores, VerdictsAreReplaced
      <3>3. up => since[p] <= ProbeLimit
        BY <1>1, <3>2 DEF UpIsRecent
      <3> HIDE DEF up
      <3>4. cache'[p].up = up /\ cache'[p].age = 0
        BY <3>1, NewVerdicts
      <3> QED BY <1>1, <3>3, <3>4
    <2> QED BY <2>1, <2>2 DEF UpIsRecent, NoAnswers
  <1>6. ASSUME NEW p \in Providers, Changes(p) PROVE UpIsRecent'
    <2>1. \A q \in Providers : since'[q] = since[q] \/ since'[q] = 0
      BY <1>6 DEF Changes, PoolTypeOK
    <2>2. UNCHANGED <<cache, refresh, asker>>
      BY <1>6 DEF Changes
    <2> QED BY <1>1, <2>1, <2>2 DEF UpIsRecent
  <1>7. CASE PoolTick
    <2>1. \A p \in Providers : since'[p] \in Nat /\ since'[p] <= since[p] + 1
      BY <1>1, <1>7 DEF PoolTick, UpTo
    <2>2. \A p \in Providers :
            cache'[p] # Unknown /\ cache'[p].up => since'[p] <= cache'[p].age + ProbeLimit
      <3> SUFFICES ASSUME NEW p \in Providers, cache'[p] # Unknown, cache'[p].up
                   PROVE  since'[p] <= cache'[p].age + ProbeLimit
        OBVIOUS
      <3>1. cache[p] # Unknown /\ cache[p].up
            /\ cache'[p].age = IF cache[p].age < Trust THEN cache[p].age + 1 ELSE Trust
        BY <1>7, TicksAge
      <3>2. cache[p].age <= Ripe /\ Ripe <= Refresh + ProbeLimit /\ Ripe \in Nat
        BY <1>1, <3>1 DEF VerdictsAreReplaced, Ripe, PoolTypeOK
      <3> QED BY <1>1, <2>1, <3>1, <3>2 DEF UpIsRecent
    <2>3. refresh'.answers = refresh.answers
      BY <1>7 DEF PoolTick, PoolTypeOK
    <2>4. \A p \in Providers : refresh.answers[p] = "up" => refresh'.time = refresh.time + 1
      BY <1>7 DEF PoolTick, PoolTypeOK, VerdictsAreReplaced
    <2>5. \A a \in Askers : asker[a].answer = "up" =>
            asker'[a].time = asker[a].time + 1 /\ asker'[a].project = asker[a].project
      <3> SUFFICES ASSUME NEW a \in Askers, asker[a].answer = "up"
                   PROVE  asker'[a].time = asker[a].time + 1 /\ asker'[a].project = asker[a].project
        OBVIOUS
      <3>1. asker'[a] = [asker[a] EXCEPT !.time = @ + 1]
        BY <1>7 DEF PoolTick, AskersAreInStep
      <3> QED BY <1>1, <3>1 DEF Asker
    <2>6. \A a \in Askers : asker'[a].answer = asker[a].answer
      <3> TAKE a \in Askers
      <3>1. asker'[a] = asker[a] \/ asker'[a] = [asker[a] EXCEPT !.time = @ + 1]
        BY <1>7 DEF PoolTick
      <3> QED BY <1>1, <3>1 DEF Asker
    <2>7. \A p \in Providers : refresh'.answers[p] = "up" => since'[p] <= refresh'.time
      BY <1>1, <2>1, <2>3, <2>4 DEF UpIsRecent
    <2>8. \A a \in Askers : asker'[a].answer = "up" => since'[asker'[a].project] <= asker'[a].time
      BY <1>1, <2>1, <2>5, <2>6 DEF UpIsRecent
    <2> QED BY <2>2, <2>7, <2>8 DEF UpIsRecent
  <1>8. CASE UNCHANGED poolVars
    BY <1>8 DEF poolVars, UpIsRecent
  <1> QED BY <1>2, <1>3, <1>4, <1>5, <1>6, <1>7, <1>8 DEF PoolNext, RefreshStep

(***************************************************************************)
(* The rotation.                                                           *)
(***************************************************************************)
LEMMA BackIsADistance ==
    ASSUME NEW p \in Providers, NEW q \in Providers
    PROVE  /\ Back(p, q) \in 0..(Projects - 1)
           /\ Back(p, q) = 0 <=> q = p
           /\ Back(After(p), q) = IF q = After(p) THEN 0 ELSE Back(p, q) + 1
           /\ Back(p, After(p)) = Projects - 1
  BY PoolSize DEF Back, Providers, After

LEMMA LastTurns ==
    ASSUME NEW p \in Providers
    PROVE  /\ Last(p, Projects) = Providers
           /\ Last(p, 1) \ {p} = {}
           /\ \A k \in Nat \ {0} : (Last(p, k) \ {p}) \cup {p} = Last(p, k)
           /\ \A k \in 0..(Projects - 1) : Last(After(p), k + 1) \ {After(p)} = Last(p, k)
  <1> USE PoolSize
  <1>1. \A q \in Providers : Back(p, q) \in 0..(Projects - 1) /\ (Back(p, q) = 0 <=> q = p)
    BY BackIsADistance
  <1>2. Last(p, Projects) = Providers
    BY <1>1 DEF Last
  <1>3. Last(p, 1) \ {p} = {}
    BY <1>1 DEF Last
  <1>4. \A k \in Nat \ {0} : (Last(p, k) \ {p}) \cup {p} = Last(p, k)
    BY <1>1 DEF Last
  <1>5. ASSUME NEW k \in 0..(Projects - 1)
        PROVE  Last(After(p), k + 1) \ {After(p)} = Last(p, k)
    <2>1. ASSUME NEW q \in Providers
          PROVE  (Back(After(p), q) < k + 1 /\ q # After(p)) <=> Back(p, q) < k
      BY <1>1, BackIsADistance
    <2> QED BY <2>1 DEF Last
  <1> QED BY <1>2, <1>3, <1>4, <1>5

\* A verdict brings a lone request to its next turn, or to the end of them.
LEMMA SettledInOrder ==
    ASSUME PoolTypeOK, NEW a \in Askers, NEW up \in BOOLEAN, Is(a, AfterVerdict(a, up)),
           InOrder(a), asker[a].at \in {"ask", "probe"}, turn' = turn
    PROVE  InOrder(a)'
  <1> USE PoolNumbers
  <1>1. asker'[a] = AfterVerdict(a, up)
    BY SettledIsTyped, OneMoves
  <1>2. /\ asker[a].left \in 0..Turns /\ asker[a].project \in Providers
        /\ asker[a].bound \in BOOLEAN /\ asker[a].crossed \in BOOLEAN
    BY DEF PoolTypeOK, Asker
  <1>3. CASE up
    <2>1. asker'[a].at = "given" /\ asker'[a].left = Turns /\ asker'[a].tried = {}
      BY <1>1, <1>3, SettledIs
    <2> QED BY <2>1 DEF InOrder, Taken, IsAt
  <1>4. CASE ~up
    <2> SUFFICES ASSUME ~asker'[a].bound, ~asker'[a].crossed
                 PROVE  InOrder(a)'
      BY DEF InOrder
    <2>1. /\ asker'[a].project = asker[a].project /\ asker'[a].left = asker[a].left
          /\ ~asker[a].bound /\ ~asker[a].crossed
          /\ asker'[a].at = IF asker[a].left > 0 THEN "turn" ELSE "refused"
          /\ asker'[a].tried = IF asker[a].left < Turns
                               THEN asker[a].tried \cup {asker[a].project} ELSE asker[a].tried
      <3>1. asker'[a].bound = asker[a].bound /\ asker'[a].crossed = asker[a].crossed
        BY <1>1, <1>4, SettledIsStillBound
      <3>2. ~asker[a].bound /\ ~asker[a].crossed
        BY <3>1, Zenon
      <3>3. /\ AfterVerdict(a, up).project = asker[a].project /\ AfterVerdict(a, up).left = asker[a].left
            /\ AfterVerdict(a, up).at =
                 IF ~asker[a].bound /\ asker[a].left > 0 THEN "turn" ELSE "refused"
            /\ AfterVerdict(a, up).tried =
                 IF asker[a].left < Turns
                 THEN asker[a].tried \cup {asker[a].project} ELSE asker[a].tried
        BY <1>4, SettledIs
      <3> QED BY <1>1, <3>2, <3>3
    <2>2. Taken(a) \in Nat /\ Taken(a)' = Taken(a)
      BY <1>2, <2>1 DEF Taken
    <2>3. CASE Taken(a) = 0
      <3>1. asker[a].left = Turns /\ asker'[a].tried = {} /\ asker'[a].at = "turn"
        BY <1>2, <2>1, <2>3 DEF Taken, InOrder
      <3> QED BY <2>2, <2>3, <3>1 DEF InOrder, IsAt
    <2>4. CASE Taken(a) > 0
      <3>1. asker'[a].tried = Last(asker[a].project, Taken(a)) /\ turn = After(asker[a].project)
        <4>1. asker[a].left < Turns
          BY <1>2, <2>4 DEF Taken
        <4>2. /\ asker[a].tried = Last(asker[a].project, Taken(a)) \ {asker[a].project}
              /\ turn = After(asker[a].project)
          BY <2>1, <2>4 DEF InOrder
        <4> QED BY <1>2, <2>1, <2>2, <2>4, <4>1, <4>2, LastTurns
      <3>2. CASE asker[a].left > 0
        BY <2>1, <2>2, <2>4, <3>1, <3>2 DEF InOrder, IsAt
      <3>3. CASE asker[a].left = 0
        <4>1. asker'[a].tried = Providers
          BY <1>2, <3>1, <3>3, LastTurns DEF Taken
        <4> QED BY <2>1, <2>2, <2>4, <3>3, <4>1 DEF InOrder, IsAt
      <3> QED BY <1>2, <3>2, <3>3
    <2> QED BY <2>2, <2>3, <2>4
  <1> QED BY <1>3, <1>4

\* The turn of a lone request is the one after its last.
LEMMA TurnInOrder ==
    ASSUME PoolTypeOK, AskersAreInStep, NEW a \in Askers, TakesTurn(a), InOrder(a)
    PROVE  InOrder(a)'
  <1> USE PoolNumbers
  <1>1. /\ asker[a].left \in 1..Turns /\ asker[a].project \in Providers /\ asker[a] \in Asker
        /\ IsAt(a, "turn") /\ turn \in Providers
    BY DEF PoolTypeOK, Asker, TakesTurn, AskersAreInStep
  <1>2. asker'[a] = [asker[a] EXCEPT !.at = "ask", !.project = turn, !.left = @ - 1]
        /\ turn' = After(turn)
    BY DEF TakesTurn
  <1>3. /\ asker'[a].at = "ask" /\ asker'[a].project = turn /\ asker'[a].left = asker[a].left - 1
        /\ asker'[a].tried = asker[a].tried /\ asker'[a].bound = asker[a].bound
        /\ asker'[a].crossed = asker[a].crossed
    BY <1>1, <1>2 DEF Asker
  <1> SUFFICES ASSUME ~asker[a].bound, ~asker[a].crossed
               PROVE  InOrder(a)'
    BY <1>3 DEF InOrder
  <1>4. Taken(a) \in 0..(Projects - 1) /\ Taken(a)' = Taken(a) + 1
    BY <1>1, <1>3 DEF Taken
  <1>5. asker[a].tried = Last(turn, Taken(a) + 1) \ {turn}
    <2>1. CASE Taken(a) = 0
      BY <1>1, <2>1, LastTurns DEF InOrder
    <2>2. CASE Taken(a) > 0
      <3>1. turn = After(asker[a].project) /\ asker[a].tried = Last(asker[a].project, Taken(a))
        BY <1>1, <2>2 DEF InOrder
      <3> QED BY <1>1, <1>4, <3>1, LastTurns
    <2> QED BY <1>4, <2>1, <2>2
  <1> QED BY <1>2, <1>3, <1>4, <1>5 DEF InOrder, IsAt

\* Whoever comes between has crossed it.
LEMMA OthersInOrder ==
    ASSUME PoolTypeOK, NEW a \in Askers, AskerStep(a), NEW b \in Askers \ {a}, InOrder(b)
    PROVE  InOrder(b)'
  <1>1. CASE TakesTurn(a)
    <2>1. asker'[b] = [asker[b] EXCEPT !.crossed = @ \/ InTurn(b)] /\ asker[b] \in Asker
      BY <1>1 DEF TakesTurn, PoolTypeOK
    <2> DEFINE crossed == asker[b].crossed \/ InTurn(b)
    <2>2. asker'[b] = [asker[b] EXCEPT !.crossed = crossed]
      BY <2>1
    <2>3. crossed \in BOOLEAN
      OBVIOUS
    <2> HIDE DEF crossed
    <2>4. /\ asker'[b].at = asker[b].at /\ asker'[b].left = asker[b].left
          /\ asker'[b].tried = asker[b].tried /\ asker'[b].bound = asker[b].bound
          /\ asker'[b].crossed = crossed
      BY <2>1, <2>2, <2>3 DEF Asker
    <2>5. asker[b].left \in 0..Turns
      BY <2>1 DEF Asker
    <2>6. ~crossed => ~asker[b].crossed /\ (Taken(b) = 0 \/ asker[b].at \notin {"turn", "ask", "probe"})
      BY <2>5, PoolNumbers DEF crossed, InTurn, Taken
    <2>7. Taken(b)' = Taken(b) /\ Taken(b) \in Nat
      BY <2>4, <2>5, PoolNumbers DEF Taken
    <2> QED BY <2>4, <2>6, <2>7 DEF InOrder, IsAt
  <1>2. CASE ~TakesTurn(a)
    <2>1. turn' = turn
      BY <1>2 DEF AskerStep, Begins, Asks, IsAnswered, Stores, Leaves
    <2>2. asker'[b] = asker[b]
      BY <1>2 DEF AskerStep, Begins, Asks, IsAnswered, Stores, Leaves, Is, PoolTypeOK
    <2> QED BY <2>1, <2>2 DEF InOrder, Taken, IsAt
  <1> QED BY <1>1, <1>2

LEMMA TurnsStayInOrder ==
    ASSUME PoolTypeOK, AskersAreInStep, TurnsAreInOrder, [PoolNext]_poolVars
    PROVE  TurnsAreInOrder'
  <1>1. ASSUME NEW a \in Askers, AskerStep(a) PROVE TurnsAreInOrder'
    <2> SUFFICES InOrder(a)'
      BY <1>1, OthersInOrder DEF TurnsAreInOrder
    <2>1. InOrder(a) /\ asker[a] \in Asker /\ asker[a].project \in Providers
      BY DEF TurnsAreInOrder, PoolTypeOK, Asker
    <2>2. CASE Begins(a)
      <3>1. asker'[a].left = Turns /\ asker'[a].tried = {} /\ asker'[a].at \in {"turn", "ask"}
        BY <2>2, BeginsFacts, OneMoves
      <3> QED BY <3>1, PoolNumbers DEF InOrder, Taken, IsAt
    <2>3. CASE TakesTurn(a)
      BY <2>1, <2>3, TurnInOrder
    <2>4. CASE Asks(a)
      <3>1. CASE IsFresh(cache[asker[a].project])
        BY <2>1, <2>4, <3>1, CacheIsTyped, SettledInOrder DEF Asks, IsAt
      <3>2. CASE ~IsFresh(cache[asker[a].project])
        <4>1. asker'[a] = [asker[a] EXCEPT !.at = "probe"] /\ turn' = turn /\ IsAt(a, "ask")
          BY <2>4, <3>2 DEF Asks, Is, PoolTypeOK
        <4>2. /\ asker'[a].at = "probe" /\ asker'[a].left = asker[a].left
              /\ asker'[a].tried = asker[a].tried /\ asker'[a].project = asker[a].project
              /\ asker'[a].bound = asker[a].bound /\ asker'[a].crossed = asker[a].crossed
          BY <2>1, <4>1 DEF Asker
        <4> QED BY <2>1, <4>1, <4>2 DEF InOrder, Taken, IsAt
      <3> QED BY <3>1, <3>2
    <2>5. CASE IsAnswered(a)
      <3>1. PICK answer \in {"up", "down"} :
              asker'[a] = [asker[a] EXCEPT !.answer = answer]
        BY <2>5 DEF IsAnswered, Is, PoolTypeOK
      <3>2. /\ asker'[a].at = asker[a].at /\ asker'[a].left = asker[a].left
            /\ asker'[a].tried = asker[a].tried /\ asker'[a].project = asker[a].project
            /\ asker'[a].bound = asker[a].bound /\ asker'[a].crossed = asker[a].crossed
        BY <2>1, <3>1 DEF Asker
      <3>3. turn' = turn
        BY <2>5 DEF IsAnswered
      <3> QED BY <2>1, <3>2, <3>3 DEF InOrder, Taken, IsAt
    <2>6. CASE Stores(a)
      BY <2>1, <2>6, SettledInOrder DEF Stores, IsAt
    <2>7. CASE Leaves(a)
      <3>1. asker'[a] = NoRequest
        BY <2>7, IdleIsTyped, OneMoves DEF Leaves
      <3>2. NoRequest.left = Turns /\ NoRequest.tried = {} /\ NoRequest.at = "idle"
        BY DEF NoRequest
      <3> QED BY <3>1, <3>2, PoolNumbers DEF InOrder, Taken, IsAt
    <2> QED BY <1>1, <2>2, <2>3, <2>4, <2>5, <2>6, <2>7 DEF AskerStep
  <1>2. CASE UNCHANGED <<turn, asker>>
    BY <1>2 DEF TurnsAreInOrder, InOrder, Taken, IsAt
  <1>3. CASE PoolTick
    <2> SUFFICES ASSUME NEW a \in Askers PROVE InOrder(a)'
      BY DEF TurnsAreInOrder
    <2>1. /\ turn' = turn /\ asker[a] \in Asker
          /\ asker'[a] = asker[a] \/ asker'[a] = [asker[a] EXCEPT !.time = @ + 1]
      BY <1>3 DEF PoolTick, PoolTypeOK
    <2>2. /\ asker'[a].at = asker[a].at /\ asker'[a].left = asker[a].left
          /\ asker'[a].tried = asker[a].tried /\ asker'[a].project = asker[a].project
          /\ asker'[a].bound = asker[a].bound /\ asker'[a].crossed = asker[a].crossed
      BY <2>1 DEF Asker
    <2> QED BY <2>1, <2>2 DEF TurnsAreInOrder, InOrder, Taken, IsAt
  <1> QED BY <1>1, <1>2, <1>3 DEF PoolNext, RefreshStep, RefreshBegins, RefreshHears,
         RefreshStores, Changes, poolVars

(***************************************************************************)
(* The theorems.                                                           *)
(***************************************************************************)
LEMMA PoolStarts ==
    ASSUME PoolInit
    PROVE  PoolInv
  <1> USE PoolNumbers
  <1>1. /\ turn \in Providers /\ has \subseteq Providers /\ warm = FALSE
        /\ cache \in [Providers -> Verdict \cup {Unknown}]
        /\ since \in [Providers -> 0..(SeenWithin + 1)]
    BY PoolSize DEF PoolInit, Providers
  <1>2. /\ refresh \in [at : {"asleep", "probing"}, time : Nat, answers : [Providers -> Answers]]
        /\ refresh.at = "probing" /\ refresh.time = 0
        /\ \A p \in Providers : refresh.answers[p] = "none" /\ cache[p] = Unknown
    BY DEF PoolInit, NoAnswers, Answers
  <1>3. \A a \in Askers : asker[a] = NoRequest
    BY DEF PoolInit
  <1>4. /\ asker \in [Askers -> Asker] /\ NoRequest.answer = "none" /\ NoRequest.at = "idle"
        /\ NoRequest.left = Turns /\ NoRequest.tried = {}
    BY IdleIsTyped DEF PoolInit, NoRequest
  <1>5. PoolTypeOK /\ AskersAreInStep
    BY <1>1, <1>2, <1>3, <1>4 DEF PoolTypeOK, AskersAreInStep, IsAt
  <1>6. VerdictsAreReplaced /\ UpIsRecent
    BY <1>1, <1>2, <1>3, <1>4 DEF VerdictsAreReplaced, UpIsRecent
  <1>7. TurnsAreInOrder
    BY <1>3, <1>4 DEF TurnsAreInOrder, InOrder, Taken, IsAt
  <1> QED BY <1>5, <1>6, <1>7 DEF PoolInv

LEMMA PoolInvIsInductive == PoolSpec => []PoolInv
  <1>1. PoolInit => PoolInv
    BY PoolStarts
  <1>2. PoolInv /\ [PoolNext]_poolVars => PoolInv'
    BY PoolTypesStay, VerdictsStayReplaced, UpStaysRecent, TurnsStayInOrder DEF PoolInv
  <1> QED BY <1>1, <1>2, PTL DEF PoolSpec

\* Types: no age, time, turn or verdict leaves its range, for any size of the pool and any
\* number of requests.
THEOREM PoolIsTyped == PoolSpec => []PoolTypeOK
  <1>1. PoolInv => PoolTypeOK
    BY DEF PoolInv
  <1> QED BY <1>1, PoolInvIsInductive, PTL

\* A request that is refused, and that no other came between, was told of every project
\* that it is down, wherever the rotation stood.
THEOREM LoneRequestsAskAll == PoolSpec => []LoneRefusalsAskedAll
  <1>1. PoolInv => LoneRefusalsAskedAll
    BY DEF PoolInv, TurnsAreInOrder, InOrder, LoneRefusalsAskedAll
  <1> QED BY <1>1, PoolInvIsInductive, PTL

\* A verdict that the table answers with is recent, and so is what it says.
LEMMA FreshIsRecent ==
    ASSUME PoolInv, NEW p \in Providers, IsFresh(cache[p]), cache[p].up
    PROVE  since[p] <= SeenWithin
  <1> USE PoolNumbers
  <1>1. cache[p] # Unknown /\ cache[p] \in Verdict
    BY CacheIsTyped DEF PoolInv
  <1>2. cache[p].age \in Nat /\ cache[p].age <= Ripe /\ since[p] <= cache[p].age + ProbeLimit
    BY <1>1 DEF PoolInv, VerdictsAreReplaced, UpIsRecent, Verdict
  <1>3. Ripe \in Nat /\ Ripe <= Refresh + ProbeLimit
    BY DEF PoolInv, PoolTypeOK, VerdictsAreReplaced, Ripe
  <1>4. since[p] \in Nat
    BY DEF PoolInv, PoolTypeOK
  <1> QED BY <1>2, <1>3, <1>4

\* Whatever a request is given was seen to take connections, or did not answer, no longer
\* ago than the task needs to ask again.
THEOREM GivenIsUp == PoolSpec => GivenWasUp
  <1>1. PoolInv /\ [PoolNext]_poolVars =>
          [\A a \in Askers :
              ~IsAt(a, "given") /\ IsAt(a, "given")' => since[asker'[a].project] <= SeenWithin]_poolVars
    <2> SUFFICES ASSUME PoolInv, PoolNext, NEW a \in Askers,
                        ~IsAt(a, "given"), IsAt(a, "given")'
                 PROVE  since[asker'[a].project] <= SeenWithin
      BY DEF poolVars, IsAt
    <2> USE PoolNumbers
    <2>1. /\ PoolTypeOK /\ asker[a] \in Asker /\ asker[a].project \in Providers
          /\ asker'[a].at # asker[a].at /\ asker'[a].at = "given"
      BY DEF PoolInv, PoolTypeOK, Asker, IsAt
    <2>2. ASSUME NEW b \in Askers, AskerStep(b) PROVE a = b
      <3>1. CASE TakesTurn(b)
        <4> SUFFICES ASSUME a # b PROVE FALSE
          OBVIOUS
        <4>1. asker'[a] = [asker[a] EXCEPT !.crossed = @ \/ InTurn(a)]
          BY <3>1 DEF TakesTurn
        <4> QED BY <2>1, <4>1 DEF Asker
      <3>2. CASE ~TakesTurn(b)
        BY <2>1, <2>2, <3>2 DEF AskerStep, Begins, Asks, IsAnswered, Stores, Leaves, Is, PoolTypeOK
      <3> QED BY <3>1, <3>2
    <2>3. ASSUME NEW up \in BOOLEAN, Is(a, AfterVerdict(a, up))
          PROVE  up /\ asker'[a].project = asker[a].project
      <3>1. asker'[a] = AfterVerdict(a, up)
        BY <2>1, <2>3, SettledIsTyped, OneMoves
      <3>2. CASE up
        BY <2>1, <3>1, <3>2, SettledIs
      <3>3. CASE ~up
        <4>1. AfterVerdict(a, up).at \in {"turn", "refused"}
          BY <2>1, <3>3, SettledIs
        <4> QED BY <2>1, <3>1, <4>1
      <3> QED BY <3>2, <3>3
    <2>4. CASE Asks(a)
      <3>1. IsFresh(cache[asker[a].project])
        <4> SUFFICES ASSUME ~IsFresh(cache[asker[a].project]) PROVE FALSE
          OBVIOUS
        <4>1. asker'[a] = [asker[a] EXCEPT !.at = "probe"]
          BY <2>4 DEF Asks, Is, PoolInv, PoolTypeOK
        <4> QED BY <2>1, <4>1 DEF Asker
      <3>2. cache[asker[a].project].up /\ asker'[a].project = asker[a].project
        BY <2>1, <2>3, <2>4, <3>1, CacheIsTyped DEF Asks
      <3> QED BY <2>1, <3>1, <3>2, FreshIsRecent
    <2>5. CASE Stores(a)
      <3>1. asker[a].answer = "up" /\ asker'[a].project = asker[a].project
        BY <2>3, <2>5 DEF Stores
      <3>2. since[asker[a].project] <= asker[a].time
        BY <3>1 DEF PoolInv, UpIsRecent
      <3>3. asker[a].time \in 0..ProbeLimit /\ since[asker[a].project] \in Nat
        BY <2>1 DEF Asker, PoolTypeOK
      <3> QED BY <3>1, <3>2, <3>3
    <2>6. ASSUME Begins(a) \/ TakesTurn(a) \/ IsAnswered(a) \/ Leaves(a) PROVE FALSE
      <3>1. CASE Begins(a)
        BY <2>1, <3>1, BeginsFacts, OneMoves
      <3>2. CASE TakesTurn(a)
        BY <2>1, <3>2 DEF TakesTurn, Asker
      <3>3. CASE IsAnswered(a)
        <4>1. PICK answer \in {"up", "down"} : asker'[a] = [asker[a] EXCEPT !.answer = answer]
          BY <2>1, <3>3 DEF IsAnswered, Is, PoolTypeOK
        <4> QED BY <2>1, <4>1 DEF Asker
      <3>4. CASE Leaves(a)
        <4>1. asker'[a] = NoRequest /\ NoRequest.at = "idle"
          BY <2>1, <3>4, IdleIsTyped, OneMoves DEF Leaves, NoRequest
        <4> QED BY <2>1, <4>1
      <3> QED BY <2>6, <3>1, <3>2, <3>3, <3>4
    <2>7. CASE PoolTick
      <3>1. asker'[a] = asker[a] \/ asker'[a] = [asker[a] EXCEPT !.time = @ + 1]
        BY <2>7 DEF PoolTick
      <3> QED BY <2>1, <3>1 DEF Asker
    <2>8. CASE asker' = asker
      BY <2>1, <2>8
    <2> QED BY <2>2, <2>4, <2>5, <2>6, <2>7, <2>8 DEF PoolNext, RefreshStep, RefreshBegins,
           RefreshHears, RefreshStores, Changes, AskerStep
  <1> QED BY <1>1, PoolInvIsInductive, PTL DEF PoolSpec, GivenWasUp

\* Once the first pass of the task is over, no request waits for a project to answer a probe.
THEOREM RequestsUseTheTable == PoolSpec => RequestsDoNotProbe
  <1>1. PoolInv /\ [PoolNext]_poolVars =>
          [\A a \in Askers : warm /\ ~IsAt(a, "probe") => ~IsAt(a, "probe")']_poolVars
    <2> SUFFICES ASSUME PoolInv, PoolNext, warm, NEW a \in Askers,
                        ~IsAt(a, "probe"), IsAt(a, "probe")'
                 PROVE  FALSE
      BY DEF poolVars, IsAt
    <2> USE PoolNumbers
    <2>1. /\ PoolTypeOK /\ asker[a] \in Asker /\ asker[a].project \in Providers
          /\ asker'[a].at = "probe" /\ asker[a].at # "probe"
      BY DEF PoolInv, PoolTypeOK, Asker, IsAt
    <2>2. \A p \in Providers : IsFresh(cache[p])
      <3> TAKE p \in Providers
      <3>1. cache[p] # Unknown /\ cache[p].age <= Ripe
        BY DEF PoolInv, VerdictsAreReplaced
      <3>2. cache[p].age \in Nat
        BY <2>1, <3>1 DEF PoolTypeOK, Verdict
      <3>3. Ripe \in Nat /\ Ripe <= Refresh + ProbeLimit
        BY DEF PoolInv, PoolTypeOK, VerdictsAreReplaced, Ripe
      <3> QED BY <3>1, <3>2, <3>3 DEF IsFresh
    <2>3. ASSUME NEW b \in Askers, AskerStep(b) PROVE a = b
      <3>1. CASE TakesTurn(b)
        <4> SUFFICES ASSUME a # b PROVE FALSE
          OBVIOUS
        <4>1. asker'[a] = [asker[a] EXCEPT !.crossed = @ \/ InTurn(a)]
          BY <3>1 DEF TakesTurn
        <4> QED BY <2>1, <4>1 DEF Asker
      <3>2. CASE ~TakesTurn(b)
        BY <2>1, <2>3, <3>2 DEF AskerStep, Begins, Asks, IsAnswered, Stores, Leaves, Is, PoolTypeOK
      <3> QED BY <3>1, <3>2
    <2>4. CASE Asks(a)
      <3>1. PICK up \in BOOLEAN : Is(a, AfterVerdict(a, up))
        BY <2>1, <2>2, <2>4, CacheIsTyped DEF Asks
      <3>2. AfterVerdict(a, up).at \in {"given", "turn", "refused"}
        BY <2>1, SettledIs
      <3> QED BY <2>1, <3>1, <3>2, SettledIsTyped, OneMoves
    <2>5. CASE Begins(a)
      BY <2>1, <2>5, BeginsFacts, OneMoves
    <2>6. CASE TakesTurn(a)
      BY <2>1, <2>6 DEF TakesTurn, Asker
    <2>7. CASE Leaves(a)
      <3>1. asker'[a] = NoRequest /\ NoRequest.at = "idle"
        BY <2>1, <2>7, IdleIsTyped, OneMoves DEF Leaves, NoRequest
      <3> QED BY <2>1, <3>1
    <2>8. CASE PoolTick
      <3>1. asker'[a] = asker[a] \/ asker'[a] = [asker[a] EXCEPT !.time = @ + 1]
        BY <2>8 DEF PoolTick
      <3> QED BY <2>1, <3>1 DEF Asker
    <2>9. CASE asker' = asker
      BY <2>1, <2>9
    <2> QED BY <2>1, <2>3, <2>4, <2>5, <2>6, <2>7, <2>8, <2>9 DEF PoolNext, RefreshStep,
           RefreshBegins, RefreshHears, RefreshStores, Changes, AskerStep, IsAnswered, Stores, IsAt
  <1> QED BY <1>1, PoolInvIsInductive, PTL DEF PoolSpec, RequestsDoNotProbe

\* All that a request gets of the pool, for any size of it and any number of requests.
THEOREM RequestsAreServed == PoolSpec => PoolServes
  BY GivenIsUp, RequestsUseTheTable, LoneRequestsAskAll, PTL DEF PoolServes
=============================================================================
