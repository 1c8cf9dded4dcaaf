-------------------------- MODULE DeliveryContract --------------------------
(***************************************************************************)
(* The contract between the delivery queue and everybody else.  What one   *)
(* side is modelled to rely on is what the other is shown to do: both      *)
(* EgressControl and RecordingMedia implement this specification.          *)
(***************************************************************************)
EXTENDS DeliverySide

contractVars == <<state, error, queued>>

Begin(r) ==
    /\ state[r] = "none" /\ OthersInactive(r)
    /\ MoveRow(r, "starting", "none")
    /\ UNCHANGED queued

\* The moves of the table, but for the delivery's own.  Late news of the job does
\* not fail a recording whose file was handed over.
OthersMove(r, next) ==
    /\ next # "ready" /\ TransitionLands(state[r], RowStates, next)
    /\ state' = [state EXCEPT ![r] = next]
    /\ \E why \in Errors \ {"drive_failed"} :
           /\ state[r] = "transferring" /\ next = "failed" => why \notin ProviderFailures
           /\ error' = [error EXCEPT ![r] = Coalesce(why, @)]
    /\ UNCHANGED queued

\* The tombstone of a deletion is not guarded on the state: a recording that
\* is reopened while retention works on it is deleted from "transferring".
Tombstone(r) ==
    /\ state[r] \in {"ready", "failed", "cleanup_failed", "transferring"}
    /\ MoveRow(r, "deleted", error[r])
    /\ UNCHANGED queued

\* By the webhook that completed the recording, the sweep's repair, which
\* takes every row that owes a delivery, or an operator.
Enqueue ==
    /\ queued \subseteq queued' /\ queued' \subseteq Recordings
    /\ UNCHANGED <<state, error>>

Init ==
    /\ state \in [Recordings -> {"none", "finalizing"}]
    /\ error = [r \in Recordings |-> "none"]
    /\ queued = {}

Next ==
    \/ Enqueue
    \/ \E r \in Recordings :
        \/ Deliver(r) \/ DeliveryAttemptFails(r) \/ DeliveryGivesUp(r)
        \/ ReopenDelivery(r) \/ ReleaseClaim(r)
        \/ Begin(r) \/ Tombstone(r)
        \/ \E next \in RowStates : OthersMove(r, next)

Spec == Init /\ [][Next]_contractVars
=============================================================================
