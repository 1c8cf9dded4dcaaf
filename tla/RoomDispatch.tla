--------------------------- MODULE RoomDispatch ---------------------------
(***************************************************************************)
(* What one process knows of the rooms it has put an interviewer in        *)
(* (dispatch.rs): which rooms are live, which of them are guests', and     *)
(* whose each start is.  One lock guards all of it, so each operation is   *)
(* one step of whoever calls it.                                           *)
(***************************************************************************)
EXTENDS FiniteSets, Naturals

CONSTANTS
    Rooms,          \* names of rooms
    Candidates,     \* identities that tokens are minted for
    NoStart,
    MaxConcurrent,  \* the operator's ceiling
    GuestLimit      \* MAX_CONCURRENT_GUEST_INTERVIEWS

ASSUME DispatchLimits ==
    /\ MaxConcurrent \in Nat \ {0} /\ GuestLimit \in Nat \ {0}
    /\ NoStart \notin [candidate : Candidates, phase : {"waiting", "joined", "released"}]

VARIABLES
    live,       \* room -> "assessing", "finalizing", or "none" if it has no slot
    guestLive,  \* the live rooms that count against the guests' limit
    starts,     \* room -> its start, or NoStart
    permits,    \* rooms whose Notify holds a permit nobody has taken
    closed      \* no room is admitted any more

dispatchVars == <<live, guestLive, starts, permits, closed>>

RoomStart == [candidate : Candidates, phase : {"waiting", "joined", "released"}]

DispatchTypeOK ==
    /\ live \in [Rooms -> {"none", "assessing", "finalizing"}]
    /\ guestLive \subseteq Rooms /\ permits \subseteq Rooms
    /\ starts \in [Rooms -> RoomStart \cup {NoStart}]
    /\ closed \in BOOLEAN

DispatchInit ==
    /\ live = [r \in Rooms |-> "none"]
    /\ guestLive = {} /\ permits = {}
    /\ starts = [r \in Rooms |-> NoStart]
    /\ closed = FALSE

Live == {r \in Rooms : live[r] # "none"}
Released(r) == starts[r] # NoStart /\ starts[r].phase = "released"

\* reserve_for: what a room that is live answers, a room a guest is in never being
\* shared,
IsExisting(r, guest) ==
    /\ r \in Live /\ ~Released(r) /\ live[r] = "assessing"
    /\ ~guest /\ r \notin guestLive

\* and whether one that is not live gets a slot.  Everything else is refused.
IsAdmitted(r, guest) ==
    /\ r \notin Live /\ ~closed
    /\ Cardinality(Live) < MaxConcurrent
    /\ guest => Cardinality(guestLive) < GuestLimit

\* A new reservation, with the Notify of its slot.
Reserve(r, guest, c) ==
    /\ live' = [live EXCEPT ![r] = "assessing"]
    /\ guestLive' = IF guest THEN guestLive \cup {r} ELSE guestLive
    /\ starts' = [starts EXCEPT ![r] = [candidate |-> c, phase |-> "waiting"]]
    /\ permits' = permits \ {r}
    /\ UNCHANGED closed

\* release_start: only the start this candidate began, and only while it waits.
ReleaseStart(r, c) ==
    /\ IF starts[r] # NoStart /\ starts[r].phase = "waiting" /\ starts[r].candidate = c
       THEN /\ starts' = [starts EXCEPT ![r].phase = "released"]
            /\ permits' = permits \cup {r}
       ELSE UNCHANGED <<starts, permits>>
    /\ UNCHANGED <<live, guestLive, closed>>

\* Mutant: claim_join does not look for a release.
AcceptAnyCandidate(r) ==
    /\ starts' = [starts EXCEPT ![r].phase = "joined"]
    /\ UNCHANGED <<live, guestLive, permits, closed>>

\* claim_join, unless the start was released first.
AcceptCandidate(r) ==
    /\ ~Released(r)
    /\ starts' = [starts EXCEPT ![r].phase = "joined"]
    /\ UNCHANGED <<live, guestLive, permits, closed>>

AssessmentFinished(r) ==
    /\ live' = [live EXCEPT ![r] = IF @ = "none" THEN @ ELSE "finalizing"]
    /\ UNCHANGED <<guestLive, starts, permits, closed>>

\* The slot goes, with the Notify it shares with the start.
DropSlot(r) ==
    /\ live' = [live EXCEPT ![r] = "none"]
    /\ starts' = [starts EXCEPT ![r] = NoStart]
    /\ guestLive' = guestLive \ {r} /\ permits' = permits \ {r}
    /\ UNCHANGED closed

CloseAdmission ==
    closed' = TRUE /\ UNCHANGED <<live, guestLive, starts, permits>>

\* A process that starts again knows no room.
ForgetRooms ==
    /\ live' = [r \in Rooms |-> "none"]
    /\ guestLive' = {} /\ permits' = {}
    /\ starts' = [r \in Rooms |-> NoStart]
    /\ closed' = FALSE
=============================================================================
