------------------------- MODULE RecordingLifecycle -------------------------
(***************************************************************************)
(* What the pipeline promises about a recording, whoever moves it: it      *)
(* begins once, it follows the transition table apart from the two         *)
(* statements that are written around it, an account has one active        *)
(* recording at a time, and a candidate whose withdrawal was answered has  *)
(* none that the provider may still be recording.                          *)
(***************************************************************************)
EXTENDS RecordingStates

CONSTANT Recordings

VARIABLES
    phase,      \* the state of each recording
    answered    \* the recordings whose withdrawal was answered

vars == <<phase, answered>>

Init ==
    /\ phase = [r \in Recordings |-> "none"]
    /\ answered = {}

\* No other recording of the account is active.
Alone(r) == \A o \in Recordings \ {r} : ~IsActive(phase[o])

Become(r, next) == phase' = [phase EXCEPT ![r] = next]

Begin(r) ==
    /\ phase[r] = "none" /\ r \notin answered /\ Alone(r)
    /\ Become(r, "starting")

Move(r, next) ==
    /\ phase[r] # next /\ MayBecome(phase[r], next)
    /\ Become(r, next)

\* The retry of a delivery, which only a failed recording gets.
Reopen(r) ==
    /\ phase[r] = "failed" /\ Alone(r)
    /\ Become(r, "transferring")

\* The tombstone is not guarded on the state, and a recording that is
\* reopened while retention works on it is deleted from "transferring".
Tombstone(r) ==
    /\ phase[r] = "transferring"
    /\ Become(r, "deleted")

Change(r) ==
    \/ Begin(r)
    \/ \E next \in RowStates : Move(r, next)
    \/ Reopen(r)
    \/ Tombstone(r)

\* A withdrawal is answered once the recording has left the provider.
Answer(r) ==
    /\ phase'[r] \notin ProviderOwned
    /\ answered' = answered \union {r}

Next ==
    \E r \in Recordings :
        \/ Change(r) /\ UNCHANGED answered
        \/ Change(r) /\ Answer(r)
        \/ UNCHANGED phase /\ Answer(r)

Spec == Init /\ [][Next]_vars
=============================================================================
