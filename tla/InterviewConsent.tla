------------------------- MODULE InterviewConsent -------------------------
(***************************************************************************)
(* The rows of the table interviews (accounts/interviews.rs): the consent  *)
(* of an account to be recorded in one interview, and the room it is spent *)
(* on.  Each operation is one statement, but for create_interview, which   *)
(* is one transaction.  All rows have the wording in force                 *)
(* (CONSENT_VERSION); those of an older one are of no use to any request.  *)
(***************************************************************************)
EXTENDS FiniteSets, Naturals

CONSTANTS Interviews, Accounts, ConsentRooms, NoAccount, NoRoom, MaxInterviews

ASSUME ConsentConstants ==
    NoAccount \notin Accounts /\ NoRoom \notin ConsentRooms /\ MaxInterviews \in Nat

VARIABLE interviews     \* id -> row; a row of NoAccount is not there yet

Interview ==
    [account : Accounts \cup {NoAccount}, room : ConsentRooms \cup {NoRoom},
     withdrawn : BOOLEAN, recorded : BOOLEAN]   \* a recordings row names it

ConsentTypeOK == interviews \in [Interviews -> Interview]
ConsentInit ==
    interviews = [i \in Interviews |->
        [account |-> NoAccount, room |-> NoRoom, withdrawn |-> FALSE, recorded |-> FALSE]]

IsOwn(i, a) == interviews[i].account = a
Unclaimed(i) == interviews[i].room = NoRoom /\ ~interviews[i].withdrawn
Pending(a) == {i \in Interviews : IsOwn(i, a) /\ Unclaimed(i)}

\* create_interview: a pending row is reused, a new one is within the quota.
CreateInterview(a) ==
    /\ Pending(a) = {}
    /\ Cardinality({i \in Interviews : IsOwn(i, a)}) < MaxInterviews
    /\ \E i \in Interviews :
        /\ IsOwn(i, NoAccount)
        /\ interviews' = [interviews EXCEPT ![i].account = a]

\* claim_interview_room, and whether it changed a row.
MayClaim(i, a) == IsOwn(i, a) /\ Unclaimed(i)
ClaimInterviewRoom(i, a, r) ==
    interviews' = IF MayClaim(i, a) THEN [interviews EXCEPT ![i].room = r] ELSE interviews

\* Mutant: the release does not look for a recording.
MayReleaseRecorded(i, a, r) ==
    IsOwn(i, a) /\ interviews[i].room = r /\ Pending(a) = {}

\* release_interview_room: the room it gives back, and no other use of the row.
MayRelease(i, a, r) ==
    /\ IsOwn(i, a) /\ interviews[i].room = r
    /\ ~interviews[i].recorded
    /\ Pending(a) = {}
ReleaseInterviewRoom(i, a, r) ==
    interviews' = IF MayRelease(i, a, r) THEN [interviews EXCEPT ![i].room = NoRoom]
                  ELSE interviews

\* withdraw_consent keeps the first time.
WithdrawConsent(i, a) ==
    IsOwn(i, a) /\ interviews' = [interviews EXCEPT ![i].withdrawn = TRUE]

\* The insert of begin_recording, whose WHERE reads this row.  The row of the
\* recording stays for as long as its interview does.
BeginRecording(i, a) ==
    /\ IsOwn(i, a) /\ ~interviews[i].withdrawn /\ interviews[i].room # NoRoom
    /\ ~interviews[i].recorded
    /\ interviews' = [interviews EXCEPT ![i].recorded = TRUE]
=============================================================================
