----------------------------- MODULE MCSessions -----------------------------
(***************************************************************************)
(* A small instance of PeerRounds, PeerEditor, TaskSession, TaskRoom and   *)
(* ProviderPool, and AgentRecovery, which has no constants.                *)
(* They share no variable, so one run checks them side by side: a          *)
(* behaviour is of one of them, and the others stay where they began.      *)
(*                                                                         *)
(* A task attempt is looked at twice: with all its support and two         *)
(* requests of the page, and with three requests, or four about runs, and  *)
(* no support, which the snapshots of code do not look at.                 *)
(***************************************************************************)
EXTENDS PeerRounds, PeerEditor, TaskSession, TaskRoom, AgentRecovery, ProviderPool, TLC

CONSTANTS t1, t2, q1, q2

VARIABLE part       \* which of them the behaviour is of

Init ==
    /\ RoundsInit /\ EditorInit /\ TaskInit /\ RoomInit /\ RecoveryInit /\ PoolInit
    /\ part \in {"peer session", "editor", "task", "task code", "task room", "recovery", "pool"}
    /\ part # "peer session" => session.paired
    /\ part # "task room" => present
    /\ part # "pool" => has = Providers

OnlyRounds == UNCHANGED <<editorVars, taskVars, roomVars, recoveryVars, poolVars>>
OnlyEditor == UNCHANGED <<roundsVars, taskVars, roomVars, recoveryVars, poolVars>>
OnlyTask == UNCHANGED <<roundsVars, editorVars, roomVars, recoveryVars, poolVars>>
OnlyRoom == UNCHANGED <<roundsVars, editorVars, taskVars, recoveryVars, poolVars>>
OnlyRecovery == UNCHANGED <<roundsVars, editorVars, taskVars, roomVars, poolVars>>
OnlyPool == UNCHANGED <<roundsVars, editorVars, taskVars, roomVars, recoveryVars>>

FewRequests ==
    Cardinality(requests') <= 3 \/ {m.kind : m \in requests'} \subseteq {"capture-run", "run"}

Next ==
    /\ UNCHANGED part
    /\ \/ part = "peer session" /\ RoundsNext /\ OnlyRounds
       \/ part = "editor" /\ EditorNext /\ OnlyEditor
       \/ part = "task" /\ TaskNext /\ Cardinality(requests') <= 2 /\ OnlyTask
       \/ part = "task code" /\ TaskNext /\ UNCHANGED support /\ FewRequests /\ OnlyTask
       \/ part = "task room" /\ RoomNext /\ OnlyRoom
       \/ part = "recovery" /\ RecoveryNext /\ OnlyRecovery
       \/ part = "pool" /\ PoolNext /\ OnlyPool

allVars == <<roundsVars, editorVars, taskVars, roomVars, recoveryVars, poolVars, part>>

Spec == Init /\ [][Next]_allVars

MCSymmetry == Permutations(Tabs)
=============================================================================
