----------------------------- MODULE MediaStore -----------------------------
(***************************************************************************)
(* Where the media of a recording is, and what its row says about it: the  *)
(* staged object in the bucket, the files of the Shared Drive and who may  *)
(* read them, and the three handles of the row, with the statements that   *)
(* write them and the provider's calls that release what they name.        *)
(*                                                                         *)
(* A permission is told apart by the file it is on: the recipient of a     *)
(* recording is one person, copied into the row when it began.             *)
(***************************************************************************)
EXTENDS RecordingStates, FiniteSets

CONSTANTS
    Recordings,
    Files,          \* file ids the Shared Drive can hand out
    NoFile,         \* a null drive_file_id or drive_permission_id
    NoRecording     \* the recording of a file that was never made

ASSUME NoFileAssumption == NoFile \notin Files
ASSUME NoRecordingAssumption == NoRecording \notin Recordings

VARIABLES
    (* the row *)
    state,      \* recordings.state
    error,      \* recordings.error
    staged,     \* the recordings whose gcs_object is set
    file,       \* recordings.drive_file_id
    permission, \* recordings.drive_permission_id, as the file it is on
    (* the providers *)
    bucket,     \* the recordings whose object is in the staging bucket
    drive,      \* the files in the Shared Drive
    owner,      \* the recording each file carries in its app property
    granted     \* the files the recipient has a reader permission on

handleVars == <<staged, file, permission>>
remoteVars == <<bucket, drive, owner, granted>>
mediaVars == <<state, error, handleVars, remoteVars>>

MaybeFile == Files \union {NoFile}

TypeOfMedia ==
    /\ state \in [Recordings -> RowStates]
    /\ error \in [Recordings -> Errors]
    /\ staged \subseteq Recordings
    /\ file \in [Recordings -> MaybeFile]
    /\ permission \in [Recordings -> MaybeFile]
    /\ bucket \subseteq Recordings
    /\ drive \subseteq Files
    /\ owner \in [Files -> Recordings \union {NoRecording}]
    /\ granted \subseteq drive

\* A recording that was asked to end, before the provider says how it did.
InitMedia ==
    /\ state = [r \in Recordings |-> "finalizing"]
    /\ error = [r \in Recordings |-> "none"]
    /\ staged = {}
    /\ file = [r \in Recordings |-> NoFile]
    /\ permission = [r \in Recordings |-> NoFile]
    /\ bucket = {} /\ drive = {} /\ granted = {}
    /\ owner = [f \in Files |-> NoRecording]

(***************************************************************************)
(* Statements.  Each delivery write is guarded on "transferring".          *)
(***************************************************************************)
Transferring(r) == state[r] = "transferring"

SetGcsObject(r) == staged' = staged \union {r} /\ UNCHANGED <<file, permission>>
SetDriveFile(r, f) == file' = [file EXCEPT ![r] = f] /\ UNCHANGED <<staged, permission>>
SetDrivePermission(r, f) ==
    permission' = [permission EXCEPT ![r] = f] /\ UNCHANGED <<staged, file>>

\* forget_drive_file: guarded on the value, not on the state.
ForgetDriveFile(r, f) ==
    IF file[r] = f /\ state[r] # "deleted"
        THEN /\ file' = [file EXCEPT ![r] = NoFile]
             /\ permission' = [permission EXCEPT ![r] = NoFile]
             /\ UNCHANGED staged
        ELSE UNCHANGED handleVars

\* clear_handle, which is not guarded at all.
ClearHandleOf(r, release) ==
    CASE release = "revoke" -> SetDrivePermission(r, NoFile)
      [] release = "file"   -> SetDriveFile(r, NoFile)
      [] release = "object" -> staged' = staged \ {r} /\ UNCHANGED <<file, permission>>

\* transition.
Transition(r, next, why) ==
    IF TransitionLands(state[r], RowStates, next)
        THEN /\ state' = [state EXCEPT ![r] = next]
             /\ error' = [error EXCEPT ![r] = Coalesce(why, @)]
        ELSE UNCHANGED <<state, error>>

(***************************************************************************)
(* The provider's calls.  What is gone already counts as released.         *)
(***************************************************************************)
FilesOf(r) == {f \in drive : owner[f] = r}
Unmade(f) == owner[f] = NoRecording

MakeFile(r, f) ==
    /\ drive' = drive \union {f}
    /\ owner' = [owner EXCEPT ![f] = r]
    /\ UNCHANGED <<bucket, granted>>

\* What a release does.  p is the file the permission named is on: revoking
\* it on another file finds nothing there.
Releases(r, release, f, p) ==
    CASE release = "revoke" -> /\ granted' = IF f = p THEN granted \ {f} ELSE granted
                               /\ UNCHANGED <<bucket, drive, owner>>
      [] release = "file"   -> /\ drive' = drive \ {f}
                               /\ granted' = granted \ {f}
                               /\ UNCHANGED <<bucket, owner>>
      [] release = "object" -> /\ bucket' = bucket \ {r}
                               /\ UNCHANGED <<drive, owner, granted>>
=============================================================================
