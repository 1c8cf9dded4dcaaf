---------------------------- MODULE DeliverySide ----------------------------
(***************************************************************************)
(* What the delivery queue does to the three columns it shares with the    *)
(* rest of the pipeline: the state and the error of a recording, and       *)
(* whether delivery_queue has a row for it.                                *)
(*                                                                         *)
(* EgressControl builds its delivery steps from these moves.  Module       *)
(* RecordingMedia has the workers statement by statement, and is shown to  *)
(* make no others (DeliveryContract).                                      *)
(***************************************************************************)
EXTENDS RecordingStates

CONSTANT Recordings

VARIABLES
    state,      \* recordings.state, "none" before the insert
    error,      \* recordings.error
    queued      \* the recordings delivery_queue has a row for

MoveRow(r, next, why) ==
    /\ state' = [state EXCEPT ![r] = next]
    /\ error' = [error EXCEPT ![r] = why]

\* A row that is transferring stays queued until it has moved: the queue row
\* goes after the move, in a statement of its own.
Deliver(r) ==
    /\ r \in queued /\ state[r] = "transferring"
    /\ MoveRow(r, "ready", "none")
    /\ UNCHANGED queued

DeliveryAttemptFails(r) ==
    /\ r \in queued /\ state[r] = "transferring"
    /\ MoveRow(r, "transferring", "drive_failed")
    /\ UNCHANGED queued

DeliveryGivesUp(r) ==
    /\ r \in queued /\ state[r] = "transferring"
    /\ MoveRow(r, "failed", "drive_failed")
    /\ UNCHANGED queued

\* A failed delivery is the one ending a recording comes back from: because
\* an operator asked for it, or because the worker that gave up went away
\* before it dropped the queue row.
MayReopen(r) == state[r] = "failed" /\ error[r] = "drive_failed"

\* Mutant: no recordings_one_active_per_account.
WithoutTheIndex(r) == TRUE

\* recordings_one_active_per_account, with every row on one account.
OthersInactive(r) == \A o \in Recordings \ {r} : ~IsActive(state[o])

ReopenDelivery(r) ==
    /\ r \in queued /\ MayReopen(r) /\ OthersInactive(r)
    /\ MoveRow(r, "transferring", error[r])
    /\ UNCHANGED queued

ReleaseClaim(r) ==
    /\ r \in queued /\ state[r] # "transferring"
    /\ queued' = queued \ {r}
    /\ UNCHANGED <<state, error>>
=============================================================================
