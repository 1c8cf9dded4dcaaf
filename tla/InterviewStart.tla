-------------------------- MODULE InterviewStart --------------------------
(***************************************************************************)
(* How an interview gets its room: the requests for a token, which check a *)
(* consent, claim it and put an interviewer in a room, the task of each    *)
(* room, which waits for the candidate and gives the consent back if none  *)
(* is accepted, and the pages, which join or give their start up.          *)
(*                                                                         *)
(* A statement of the database is one step, and so is what is done under   *)
(* the lock of the dispatcher.  A new room has a name of its own; a pinned *)
(* one (a development server) is used again and again.                     *)
(***************************************************************************)
EXTENDS RoomDispatch, InterviewConsent

CONSTANTS
    PinnedRoom,
    NoInterview,
    MaxLosses       \* bound: restarts and failed statements

Requests == Candidates      \* the identity minted for a request names it

ASSUME StartConstants ==
    /\ Rooms = Requests \cup {PinnedRoom} /\ ConsentRooms = Rooms
    /\ NoInterview \notin Interviews /\ MaxLosses \in Nat

VARIABLES
    recording,  \* this server records: a start needs a consent, no guest is let in
    request,    \* per request: where it is, and for whom and what
    page,       \* where the page of a request is
    givingUp,   \* the requests whose release is on its way
    task,       \* per room: where its task is, and the consent it answers for
    accepted,   \* history: interviews whose candidate was accepted
    lost,       \* history: interviews no task and no request answers for any more
    losses      \* history: restarts and failed statements so far

startVars == <<dispatchVars, interviews, recording, request, page, givingUp,
               task, accepted, lost, losses>>

Request ==
    [at : {"idle", "checked", "claimed", "give back", "over"},
     account : Accounts \cup {NoAccount},       \* NoAccount is a guest
     interview : Interviews \cup {NoInterview}, room : Rooms \cup {NoRoom}]
Task ==
    [at : {"none", "begins", "waits", "found", "runs", "leaves", "gives back", "ends"},
     account : Accounts \cup {NoAccount}, interview : Interviews \cup {NoInterview}]

NoTask == [at |-> "none", account |-> NoAccount, interview |-> NoInterview]

StartTypeOK ==
    /\ DispatchTypeOK /\ ConsentTypeOK /\ recording \in BOOLEAN
    /\ request \in [Requests -> Request]
    /\ page \in [Requests -> {"none", "holds token", "in room", "gone"}]
    /\ givingUp \subseteq Requests
    /\ task \in [Rooms -> Task]
    /\ accepted \subseteq Interviews /\ lost \subseteq Interviews
    /\ losses \in 0..MaxLosses

StartInit ==
    /\ DispatchInit /\ ConsentInit /\ recording \in BOOLEAN
    /\ request = [q \in Requests |-> [at |-> "idle", account |-> NoAccount,
                                      interview |-> NoInterview, room |-> NoRoom]]
    /\ page = [q \in Requests |-> "none"] /\ givingUp = {}
    /\ task = [r \in Rooms |-> NoTask]
    /\ accepted = {} /\ lost = {} /\ losses = 0

At(q, where) == request[q].at = where
\* A request that is over leaves the name of its room to the page.
Over(q) == [at |-> "over", account |-> NoAccount, interview |-> NoInterview,
            room |-> request[q].room]
Proceeds(q, where) ==
    request' = [request EXCEPT ![q] = IF where = "over" THEN Over(q) ELSE [@ EXCEPT !.at = where]]
TaskAt(r, where) == task[r].at = where
Moves(r, where) == task' = [task EXCEPT ![r].at = where]
history == <<accepted, lost, losses>>
pageVars == <<page, givingUp>>

(***************************************************************************)
(* The candidate's account                                                 *)
(***************************************************************************)
Consents ==
    /\ recording /\ \E a \in Accounts : CreateInterview(a)
    /\ UNCHANGED <<dispatchVars, recording, request, pageVars, task, history>>

Withdraws ==
    /\ \E a \in Accounts, i \in Interviews : WithdrawConsent(i, a)
    /\ UNCHANGED <<dispatchVars, recording, request, pageVars, task, history>>

StartsRecording ==
    /\ recording /\ \E a \in Accounts, i \in Interviews : BeginRecording(i, a)
    /\ UNCHANGED <<dispatchVars, recording, request, pageVars, task, history>>

(***************************************************************************)
(* A request for a token                                                   *)
(***************************************************************************)
\* checked_consent reads the row, and the token is minted for its room.  A guest
\* is admitted only where nothing is recorded.
AsksToken(q) ==
    /\ At(q, "idle")
    /\ \E a \in Accounts \cup {NoAccount}, i \in Interviews \cup {NoInterview},
          r \in {q, PinnedRoom} :
        /\ recording => a # NoAccount /\ i # NoInterview /\ IsOwn(i, a) /\ Unclaimed(i)
        /\ ~recording => i = NoInterview
        /\ request' = [request EXCEPT ![q] =
                        [at |-> "checked", account |-> a, interview |-> i, room |-> r]]
    /\ UNCHANGED <<dispatchVars, interviews, recording, pageVars, task, history>>

\* claim_consent, the decision.
ClaimsConsent(q) ==
    LET i == request[q].interview
        a == request[q].account IN
    /\ At(q, "checked")
    /\ IF i = NoInterview
       THEN Proceeds(q, "claimed") /\ UNCHANGED interviews
       ELSE /\ ClaimInterviewRoom(i, a, request[q].room)
            /\ Proceeds(q, IF MayClaim(i, a) THEN "claimed" ELSE "over")
    /\ UNCHANGED <<dispatchVars, recording, pageVars, task, history>>

\* ensure_agent_with_kind: a new start gets a task, which answers for the consent
\* from here on.  A start in a room somebody else's task runs has nobody to.
Dispatches(q) ==
    LET r == request[q].room
        i == request[q].interview
        guest == request[q].account = NoAccount IN
    /\ At(q, "claimed")
    /\ \/ /\ IsAdmitted(r, guest) /\ Reserve(r, guest, q)
          /\ task' = [task EXCEPT ![r] = [at |-> "begins", interview |-> i,
                                          account |-> request[q].account]]
          /\ page' = [page EXCEPT ![q] = "holds token"]
          /\ Proceeds(q, "over") /\ UNCHANGED lost
       \/ /\ IsExisting(r, guest)
          /\ page' = [page EXCEPT ![q] = "holds token"]
          /\ lost' = lost \cup ({i} \ {NoInterview})
          /\ Proceeds(q, "over") /\ UNCHANGED <<dispatchVars, task>>
       \/ /\ ~IsAdmitted(r, guest) /\ ~IsExisting(r, guest)
          /\ Proceeds(q, IF i = NoInterview THEN "over" ELSE "give back")
          /\ UNCHANGED <<dispatchVars, task, page, lost>>
    /\ UNCHANGED <<interviews, recording, givingUp, accepted, losses>>

\* dispatch_or_release_consent, after a refusal.
GivesBackConsent(q) ==
    /\ At(q, "give back")
    /\ ReleaseInterviewRoom(request[q].interview, request[q].account, request[q].room)
    /\ Proceeds(q, "over")
    /\ UNCHANGED <<dispatchVars, recording, pageVars, task, history>>

(***************************************************************************)
(* The page                                                                *)
(***************************************************************************)
PageJoins(q) ==
    /\ page[q] = "holds token" /\ page' = [page EXCEPT ![q] = "in room"]
    /\ UNCHANGED <<dispatchVars, interviews, recording, request, givingUp, task, history>>

\* abandonStart and pagehide: a page whose join is not settled posts a release,
\* which may find it in the room already.
PageGivesUp(q) ==
    /\ page[q] \in {"holds token", "in room"}
    /\ page' = [page EXCEPT ![q] = "gone"]
    /\ givingUp' \in {givingUp, givingUp \cup {q}}
    /\ UNCHANGED <<dispatchVars, interviews, recording, request, task, history>>

ReleaseArrives(q) ==
    /\ q \in givingUp /\ givingUp' = givingUp \ {q}
    /\ ReleaseStart(request[q].room, q)
    /\ UNCHANGED <<interviews, recording, request, page, task, history>>

(***************************************************************************)
(* The task of a room                                                      *)
(***************************************************************************)
\* open_session: a start given up is not joined; a join can fail.
TaskBegins(r) ==
    /\ TaskAt(r, "begins")
    /\ \/ Released(r) /\ Moves(r, "gives back")
       \/ ~Released(r) /\ \E next \in {"waits", "gives back"} : Moves(r, next)
    /\ UNCHANGED <<dispatchVars, interviews, recording, request, pageVars, history>>

\* arriving_candidate hears a candidate,
CandidateIsThere(r) ==
    /\ TaskAt(r, "waits") /\ Moves(r, "found")
    /\ \E q \in Requests : page[q] = "in room" /\ request[q].room = r
    /\ UNCHANGED <<dispatchVars, interviews, recording, request, pageVars, history>>

\* or the release,
HearsRelease(r) ==
    /\ TaskAt(r, "waits") /\ Moves(r, "leaves")
    /\ r \in permits /\ permits' = permits \ {r}
    /\ UNCHANGED <<live, guestLive, starts, closed>>
    /\ UNCHANGED <<interviews, recording, request, pageVars, history>>

\* or nothing until the limit,
WaitsTooLong(r) ==
    /\ TaskAt(r, "waits") /\ Moves(r, "leaves")
    /\ UNCHANGED <<dispatchVars, interviews, recording, request, pageVars, history>>

\* Mutant: the consent is not released when the room is gone before a candidate.
RoomClosesForGood(r) ==
    /\ TaskAt(r, "waits") /\ Moves(r, "ends")
    /\ UNCHANGED <<dispatchVars, interviews, recording, request, pageVars, history>>

\* or that the room is gone.
RoomCloses(r) ==
    /\ TaskAt(r, "waits") /\ Moves(r, "gives back")
    /\ UNCHANGED <<dispatchVars, interviews, recording, request, pageVars, history>>

\* claim_join decides between the candidate and a release.
ClaimsJoin(r) ==
    /\ TaskAt(r, "found")
    /\ \/ /\ AcceptCandidate(r) /\ Moves(r, "runs")
          /\ accepted' = accepted \cup ({task[r].interview} \ {NoInterview})
       \/ Released(r) /\ Moves(r, "leaves") /\ UNCHANGED <<dispatchVars, accepted>>
    /\ UNCHANGED <<interviews, recording, request, pageVars, lost, losses>>

LeavesRoom(r) ==
    /\ TaskAt(r, "leaves") /\ Moves(r, "gives back")
    /\ UNCHANGED <<dispatchVars, interviews, recording, request, pageVars, history>>

FinishesAssessment(r) ==
    /\ TaskAt(r, "runs") /\ live[r] = "assessing" /\ AssessmentFinished(r)
    /\ UNCHANGED <<interviews, recording, request, pageVars, task, history>>

\* The interview ends, or fails on the way: its consent was spent either way.
InterviewEnds(r) ==
    /\ TaskAt(r, "runs") /\ Moves(r, "ends")
    /\ UNCHANGED <<dispatchVars, interviews, recording, request, pageVars, history>>

\* settle_interview gives the consent back first,
ReleasesNoShow(r) ==
    /\ TaskAt(r, "gives back") /\ Moves(r, "ends")
    /\ IF task[r].interview = NoInterview THEN UNCHANGED interviews
       ELSE ReleaseInterviewRoom(task[r].interview, task[r].account, r)
    /\ UNCHANGED <<dispatchVars, recording, request, pageVars, history>>

\* and then lets the slot go.
TaskEnds(r) ==
    /\ TaskAt(r, "ends") /\ DropSlot(r)
    /\ task' = [task EXCEPT ![r] = NoTask]
    /\ UNCHANGED <<interviews, recording, request, pageVars, history>>

(***************************************************************************)
(* The process                                                             *)
(***************************************************************************)
ShutdownBegins ==
    /\ ~closed /\ CloseAdmission
    /\ UNCHANGED <<interviews, recording, request, pageVars, task, history>>

\* What the requests and the tasks answer for.
AnsweredFor ==
    {request[q].interview : q \in {p \in Requests : At(p, "claimed") \/ At(p, "give back")}}
        \cup {task[r].interview : r \in {s \in Rooms : task[s].at \notin {"none", "ends"}}}

\* A process that stops takes its requests and its tasks with it.
Restarts ==
    /\ losses < MaxLosses /\ losses' = losses + 1
    /\ ForgetRooms
    /\ request' = [q \in Requests |->
            IF At(q, "idle") THEN request[q] ELSE Over(q)]
    /\ task' = [r \in Rooms |-> NoTask]
    /\ lost' = lost \cup (AnsweredFor \ {NoInterview})
    /\ UNCHANGED <<interviews, recording, pageVars, accepted>>

\* A release that fails is logged, and the row stays as it is.
ReleaseFails ==
    /\ losses < MaxLosses /\ losses' = losses + 1
    /\ \/ \E q \in Requests :
            /\ At(q, "give back") /\ Proceeds(q, "over") /\ UNCHANGED task
            /\ lost' = lost \cup {request[q].interview}
       \/ \E r \in Rooms :
            /\ TaskAt(r, "gives back") /\ task[r].interview # NoInterview
            /\ Moves(r, "ends") /\ UNCHANGED request
            /\ lost' = lost \cup {task[r].interview}
    /\ UNCHANGED <<dispatchVars, interviews, recording, pageVars, accepted>>

RequestGoesOn(q) == ClaimsConsent(q) \/ Dispatches(q) \/ GivesBackConsent(q)
TaskGoesOn(r) ==
    \/ TaskBegins(r)
    \/ CandidateIsThere(r)
    \/ HearsRelease(r)
    \/ WaitsTooLong(r)
    \/ RoomCloses(r)
    \/ ClaimsJoin(r)
    \/ LeavesRoom(r)
    \/ InterviewEnds(r)
    \/ ReleasesNoShow(r)
    \/ TaskEnds(r)

StartNext ==
    \/ Consents
    \/ Withdraws
    \/ StartsRecording
    \/ \E q \in Requests : AsksToken(q)
    \/ \E q \in Requests : RequestGoesOn(q)
    \/ \E q \in Requests : PageJoins(q)
    \/ \E q \in Requests : PageGivesUp(q)
    \/ \E q \in Requests : ReleaseArrives(q)
    \/ \E r \in Rooms : TaskGoesOn(r)
    \/ \E r \in Rooms : FinishesAssessment(r)
    \/ ShutdownBegins
    \/ Restarts
    \/ ReleaseFails

\* A request goes on until its answer, its page there or not, and so does the
\* task of a room, whose waits are bounded.
StartFairness ==
    /\ \A q \in Requests : WF_startVars(RequestGoesOn(q))
    /\ \A r \in Rooms : WF_startVars(TaskGoesOn(r))

StartSpec == StartInit /\ [][StartNext]_startVars /\ StartFairness

(***************************************************************************)
(* Properties                                                              *)
(***************************************************************************)

\* A release and a join that race agree on which of them won: a start that was
\* given up stays so until its slot is gone, and no interviewer runs an interview
\* in its room (StartPhase).
ReleasedIsNotStaffed ==
    [][\A r \in Rooms : Released(r) =>
        /\ Released(r)' \/ starts'[r] = NoStart
        /\ task'[r].at # "runs"]_startVars

\* A consent is good for one interview: once its candidate was accepted or its
\* recording begun, no late release, refused request or withdrawal unbinds it, and
\* once withdrawn it is not bound to a room it was not bound to.
ConsentIsSpentOnce ==
    [][\A i \in Interviews :
        /\ i \in accepted \/ interviews[i].recorded
              => interviews'[i].room = interviews[i].room
        /\ interviews[i].withdrawn => interviews'[i].room \in {interviews[i].room, NoRoom}]_startVars

\* A candidate who was never accepted can start again without asking for more:
\* the consent a start claimed is free again, or there is another, unless it was
\* withdrawn, a recording names it, or what answered for it was lost.
ConsentComesBack ==
    \A i \in Interviews :
        i \in AnsweredFor
            ~> \/ interviews[i].room = NoRoom \/ Pending(interviews[i].account) # {}
               \/ interviews[i].withdrawn \/ interviews[i].recorded
               \/ i \in accepted \cup lost
=============================================================================
