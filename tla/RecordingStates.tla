-------------------------- MODULE RecordingStates --------------------------
(***************************************************************************)
(* What the recording pipeline knows without looking at a row: the eight   *)
(* states of a recording and the table of its moves, the failure codes,    *)
(* what a status of the Egress provider means for a row, and the schedule  *)
(* of the sweeper.                                                         *)
(*                                                                         *)
(* Times are ages.  A row's age counts the boundaries of the schedule that *)
(* have passed since its updated_at, and stops at the last one: no code    *)
(* tells two ages apart that lie between the same boundaries.  Age 1 is    *)
(* the sweeper's minute.                                                   *)
(***************************************************************************)
EXTENDS Naturals, Sequences

CONSTANTS
    RetryBackoff,       \* the age at which each retry of a start is due
    StaleAge,           \* the age at which a row nobody touches is abandoned
    RecordingStaleAge   \* the same for a row in "recording", and the last age

ASSUME RetryBackoffAssumption == RetryBackoff \in Seq(Nat \ {0})
ASSUME StaleAgeAssumption == StaleAge \in Nat \ {0}
ASSUME RecordingStaleAgeAssumption ==
    /\ RecordingStaleAge \in Nat
    /\ RecordingStaleAge > StaleAge
    /\ \A i \in DOMAIN RetryBackoff : RetryBackoff[i] <= RecordingStaleAge

(***************************************************************************)
(* States.  "none" stands for the row that has not been inserted yet.      *)
(***************************************************************************)
ActiveStates == {"starting", "recording", "finalizing", "transferring"}
RowStates == ActiveStates \union {"ready", "failed", "cleanup_failed", "deleted"}
States == RowStates \union {"none"}

\* Mutant: is_active that forgets a state.
ActiveButFinalizing(s) == s \in ActiveStates \ {"finalizing"}

\* Whether the pipeline still owes this recording work.
IsActive(s) == s \in ActiveStates

\* Whether the provider should still be recording.
ProviderShouldRun(s) == s \in {"starting", "recording"}

\* The transition table, self-transitions included.
MayBecome(s, next) ==
    \/ s = next
    \/ /\ s = "starting"
       /\ next \in {"recording", "finalizing", "failed"}
    \/ /\ s = "recording"
       /\ next \in {"finalizing", "transferring", "failed"}
    \/ /\ s = "finalizing"
       /\ next \in {"transferring", "failed"}
    \/ /\ s = "transferring"
       /\ next \in {"ready", "failed"}
    \/ /\ s \in {"ready", "failed"}
       /\ next \in {"deleted", "cleanup_failed"}
    \/ /\ s = "cleanup_failed"
       /\ next = "deleted"

\* A write of transition_within moves the row: the state is one the caller
\* may move from, it is not the wanted one already, and the table has the
\* move.
TransitionLands(s, onlyFrom, next) ==
    s \in onlyFrom /\ s # next /\ MayBecome(s, next)

\* Mutant: the provider's news count in every state.
AnyOwner == RowStates

\* The states in which the provider's news about a job still count.
ProviderOwned == {"starting", "recording", "finalizing"}

\* The states retention may take media from.
Deletable == {"ready", "failed", "cleanup_failed"}

(***************************************************************************)
(* Failure codes.  "none" is the null error column.                        *)
(***************************************************************************)
ProviderFailures ==
    {"partial_output", "egress_failed", "egress_aborted", "egress_limit_reached"}

Failures ==
    ProviderFailures \union
    {"provider_start_failed", "abandoned", "drive_failed", "cleanup_failed",
     "consent_withdrawn", "kill_switch"}

Errors == Failures \union {"none"}

\* COALESCE(new, old): a null reason keeps the one the row has.
Coalesce(new, old) == IF new = "none" THEN old ELSE new

(***************************************************************************)
(* What the provider's word for how a job stands means for the row: the    *)
(* state it asks for and the failure, or NoOutcome for a word that says    *)
(* nothing new.  "complete" carries the object the recording will          *)
(* transfer with bytes in it, "complete_empty" does not.                   *)
(***************************************************************************)
TerminalStatuses == {"complete", "complete_empty", "failed", "aborted", "limit_reached"}
Statuses == TerminalStatuses \union {"active"}

NoOutcome == [next |-> "none", why |-> "none"]

EgressOutcome ==
    [status \in Statuses |->
        CASE status = "complete"       -> [next |-> "transferring", why |-> "none"]
          [] status = "complete_empty" -> [next |-> "failed", why |-> "partial_output"]
          [] status = "failed"         -> [next |-> "failed", why |-> "egress_failed"]
          [] status = "aborted"        -> [next |-> "failed", why |-> "egress_aborted"]
          [] status = "limit_reached"  -> [next |-> "failed", why |-> "egress_limit_reached"]
          [] status = "active"         -> NoOutcome]

(***************************************************************************)
(* The sweeper's schedule.                                                 *)
(***************************************************************************)
\* Whether a start that failed this many retries has another one to make,
\* and whether a row of this age has waited long enough for it.
HasRetryLeft(retries) == retries < Len(RetryBackoff)
RetryIsDue(retries, age) ==
    HasRetryLeft(retries) /\ age >= RetryBackoff[retries + 1]

\* Mutant: a row in "recording" never goes stale.
NeverAfterRecording(s) ==
    IF s = "recording" THEN RecordingStaleAge + 1 ELSE StaleAge

\* How long this state may sit untouched.
StaleAfter(s) == IF s = "recording" THEN RecordingStaleAge ELSE StaleAge
=============================================================================
