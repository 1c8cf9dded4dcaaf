----------------------------- MODULE Retention -----------------------------
(***************************************************************************)
(* What a sweep does for the media of recordings that are over, one        *)
(* sweeper per process: it queues the deliveries the queue has lost, and   *)
(* deletes the media that is due to go in the three releases of            *)
(* delete_recording, each written down as it succeeds, and the tombstone.  *)
(***************************************************************************)
EXTENDS MediaStore, Sequences

CONSTANT Sweepers

VARIABLES
    withdrawn,  \* the interviews whose consent_withdrawn_at is set
    spc,        \* the step each sweeper is at
    due,        \* the recordings its pass still has to delete
    deletion    \* the locals of the deletion it is in

retentionVars == <<withdrawn, spc, due, deletion>>

SweeperLabels ==
    {"idle", "due", "handles", "release", "clear", "tombstone", "fail"}

\* The handles as they were read, and what is left to release.
Deletion ==
    [rec : Recordings, file : MaybeFile, permission : MaybeFile,
     left : Seq({"revoke", "file", "object"})]
NoDeletion == [rec |-> NoRecording]

TypeOfRetention ==
    /\ withdrawn \subseteq Recordings
    /\ spc \in [Sweepers -> SweeperLabels]
    /\ due \in [Sweepers -> SUBSET Recordings]
    /\ deletion \in [Sweepers -> Deletion \union {NoDeletion}]

InitRetention ==
    /\ withdrawn = {}
    /\ spc = [s \in Sweepers |-> "idle"]
    /\ due = [s \in Sweepers |-> {}]
    /\ deletion = [s \in Sweepers |-> NoDeletion]

Turn(s, label) == spc' = [spc EXCEPT ![s] = label]

\* Mutant: a withdrawal is read from the recording's own error only.
WithdrawnByError(r) == error[r] = "consent_withdrawn"

\* A candidate asked for it: the recording's own error says so, or only the
\* interview does.
WasWithdrawn(r) == error[r] = "consent_withdrawn" \/ r \in withdrawn

\* due_for_deletion.  Only a delivered recording has a deadline, and it may
\* have passed at any moment after that; a deletion that failed was due.
IsDue(r) ==
    /\ state[r] \in Deletable
    /\ state[r] \in {"ready", "cleanup_failed"} \/ WasWithdrawn(r)

\* requeue_orphaned_deliveries comes first in a sweep; its statement is the
\* queue's, and the composition adds it.
BeginSweep(s) ==
    /\ spc[s] = "idle"
    /\ Turn(s, "due")
    /\ UNCHANGED <<mediaVars, withdrawn, due, deletion>>

\* delete_due_recordings.
ReadDue(s) ==
    /\ spc[s] = "due"
    /\ due' = [due EXCEPT ![s] = {r \in Recordings : IsDue(r)}]
    /\ Turn(s, IF due'[s] = {} THEN "idle" ELSE "handles")
    /\ UNCHANGED <<mediaVars, withdrawn, deletion>>

\* Where a deletion goes on, with these releases left.
Onward(s, left) == Turn(s, IF left = <<>> THEN "tombstone" ELSE "release")

\* delete_recording reads the handles once.
ReadHandlesToRelease(s, r) ==
    LET f == file[r]
        p == permission[r]
        left == (IF f # NoFile /\ p # NoFile THEN <<"revoke">> ELSE <<>>)
                  \o (IF f # NoFile THEN <<"file">> ELSE <<>>)
                  \o (IF r \in staged THEN <<"object">> ELSE <<>>)
    IN  /\ spc[s] = "handles"
        /\ r \in due[s]
        /\ due' = [due EXCEPT ![s] = @ \ {r}]
        /\ deletion' = [deletion EXCEPT ![s] =
               [rec |-> r, file |-> f, permission |-> p, left |-> left]]
        /\ Onward(s, left)
        /\ UNCHANGED <<mediaVars, withdrawn>>

Release(s) ==
    LET d == deletion[s]
    IN  /\ spc[s] = "release"
        /\ Releases(d.rec, Head(d.left), d.file, d.permission)
        /\ Turn(s, "clear")
        /\ UNCHANGED <<state, error, handleVars, withdrawn, due, deletion>>

ReleaseRefused(s) ==
    /\ spc[s] = "release"
    /\ Turn(s, "fail")
    /\ UNCHANGED <<mediaVars, withdrawn, due, deletion>>

ClearHandle(s) ==
    LET d == deletion[s]
    IN  /\ spc[s] = "clear"
        /\ ClearHandleOf(d.rec, Head(d.left))
        /\ deletion' = [deletion EXCEPT ![s].left = Tail(@)]
        /\ Onward(s, Tail(d.left))
        /\ UNCHANGED <<state, error, remoteVars, withdrawn, due>>

\* The next recording of the pass, or the end of it.
EndDeletion(s) ==
    /\ deletion' = [deletion EXCEPT ![s] = NoDeletion]
    /\ Turn(s, IF due[s] = {} THEN "idle" ELSE "handles")
    /\ UNCHANGED <<remoteVars, withdrawn, due>>

\* tombstone, which is guarded on the deletion alone and clears every handle.
Tombstone(s) ==
    LET r == deletion[s].rec
    IN  /\ spc[s] = "tombstone"
        /\ IF state[r] = "deleted"
               THEN UNCHANGED <<state, handleVars>>
               ELSE /\ state' = [state EXCEPT ![r] = "deleted"]
                    /\ staged' = staged \ {r}
                    /\ file' = [file EXCEPT ![r] = NoFile]
                    /\ permission' = [permission EXCEPT ![r] = NoFile]
        /\ UNCHANGED error
        /\ EndDeletion(s)

\* fail_cleanup.
FailCleanup(s) ==
    /\ spc[s] = "fail"
    /\ Transition(deletion[s].rec, "cleanup_failed", "cleanup_failed")
    /\ UNCHANGED handleVars
    /\ EndDeletion(s)

\* Every step of a sweep but its first.
DeletionStep(s) ==
    \/ ReadDue(s)
    \/ \E r \in Recordings : ReadHandlesToRelease(s, r)
    \/ Release(s) \/ ReleaseRefused(s) \/ ClearHandle(s)
    \/ Tombstone(s) \/ FailCleanup(s)
=============================================================================
