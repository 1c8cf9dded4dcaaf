---------------------------- MODULE Task_proofs ----------------------------
(***************************************************************************)
(* What holds of a task attempt and of its room for every limit of the     *)
(* task: any number of slots for code, evidence, runs, requests, hints,    *)
(* questions and turns, any length of its phases and of the room's queue,  *)
(* and any number of edits and replacements.                               *)
(***************************************************************************)
EXTENDS TaskSession, TaskRoom, FiniteSetTheorems, TLAPS

(***************************************************************************)
(* The attempt (TaskSession): what is kept of its code.                    *)
(***************************************************************************)
Attempt ==
    [phase : {"ready", "work", "wrap-up", "feedback"}, left : Nat,
     outcome : {"none", "short", "completed"}, final : Revisions \union {NoRevision}]
Page == [absent : BOOLEAN, gone : Nat]
Waiting == [revision : Revisions \union {NoRevision}, left : Nat]

CodeTypeOK ==
    /\ current \in Revisions /\ revisions \subseteq Revisions
    /\ waiting \in Waiting
    /\ runs \subseteq Message /\ dropped \subseteq Revisions /\ overflow \in BOOLEAN

CheckTypeOK ==
    /\ IsFiniteSet(support) /\ support \subseteq Offer
    /\ turns \in 0..TurnSlots
    /\ checks \in [Checks -> Check]
    /\ evidence \subseteq Revisions

TaskTypeOK ==
    /\ attempt \in Attempt /\ page \in Page
    /\ CodeTypeOK
    /\ requests \subseteq Message /\ IsFiniteSet(requests) /\ Cardinality(requests) <= MaxRequests
    /\ CheckTypeOK

\* An outcome is that of an attempt that is over, which has its final code.
EndsTogether ==
    /\ attempt.outcome # "none" => attempt.phase = "feedback"
    /\ attempt.phase = "feedback" => Frozen

\* The starter is never let go, and evidence never takes the last two slots.
RecordInv ==
    /\ 0 \in revisions /\ Cardinality(evidence) <= EvidenceSlots
    /\ RecordIsWhole

\* A turn is recorded only once it is captured, an offer says how many turns
\* came before it, and only a follow-up is about a check.
RecordedInOrder ==
    /\ \A s \in support : s.after <= turns /\ (s.kind = "followup" <=> s.check \in Checks)
    /\ \A c \in Checks, t \in 1..TurnSlots : checks[c].turns[t] # "unrecorded" => t <= turns

EvidenceInv == RecordedInOrder /\ IndependenceIsEarned

(***************************************************************************)
(* The snapshots of code                                                   *)
(***************************************************************************)

\* The sets the limits are about are finite.
LEMMA SnapshotsAreFinite ==
    ASSUME TaskTypeOK
    PROVE  /\ IsFiniteSet(revisions) /\ Cardinality(revisions) \in Nat
           /\ IsFiniteSet(evidence) /\ Cardinality(evidence) \in Nat
           /\ NoRevision \notin Revisions /\ 0 \in Revisions /\ 0 # NoRevision
<1>1. IsFiniteSet(Revisions)
  BY FS_Interval, TaskLimits DEF Revisions
<1>2. IsFiniteSet(revisions) /\ IsFiniteSet(evidence)
  BY <1>1, FS_Subset DEF TaskTypeOK, CodeTypeOK, CheckTypeOK
<1>3. NoRevision \notin Revisions /\ 0 \in Revisions /\ 0 # NoRevision
  BY TaskLimits DEF NoRevision, Revisions
<1> QED BY <1>2, <1>3, FS_CardinalityType

\* What is kept once there is room for `revision': all that must not be let go,
\* and the name of what was.
CodeKept(revision) ==
    /\ revisions' \subseteq revisions \union {revision} /\ revision \in revisions'
    /\ 0 \in revisions' /\ evidence \subseteq revisions'
    /\ Frozen => attempt.final \in revisions'
    /\ {run.revision : run \in runs} \subseteq revisions' \union dropped'
    /\ dropped' \subseteq Revisions
    /\ Cardinality(revisions') <= RevisionSlots

\* A full table lets go only what may be let go, and makes room for one.
LEMMA KeepKeeps ==
    ASSUME TaskTypeOK, RecordInv, NEW revision, NEW slots \in Nat, slots <= RevisionSlots,
           NEW held, Keep(revision, slots, held)
    PROVE  /\ CodeKept(revision)
           /\ dropped' # {} => overflow \/ Full(revision, slots)
<1> USE SnapshotsAreFinite
<1>1. CASE Full(revision, slots)
  <2>1. PICK old \in Evictable(held) :
           /\ revisions' = (revisions \ {old}) \union {revision}
           /\ dropped' = dropped \union ({old} \intersect {run.revision : run \in runs})
    BY <1>1 DEF Keep
  <2>2. old \in revisions /\ old # 0 /\ old # attempt.final /\ old \notin evidence
    BY DEF Evictable
  <2>3. revision \notin revisions
    BY <1>1 DEF Full
  <2>4. Cardinality(revisions') = Cardinality(revisions)
    <3>1. IsFiniteSet(revisions \ {old}) /\ Cardinality(revisions \ {old}) = Cardinality(revisions) - 1
      BY <2>2, FS_RemoveElement
    <3>2. revision \notin revisions \ {old}
      BY <2>3
    <3>3. Cardinality((revisions \ {old}) \union {revision}) = Cardinality(revisions \ {old}) + 1
      BY <3>1, <3>2, FS_AddElement
    <3> QED BY <2>1, <3>1, <3>3
  <2>5. {run.revision : run \in runs} \subseteq revisions' \union dropped'
    BY <2>1 DEF RecordInv, RecordIsWhole
  <2>6. Cardinality(revisions') <= RevisionSlots
    BY <2>4 DEF RecordInv, RecordIsWhole
  <2>7. dropped' \subseteq Revisions
    BY <2>1, <2>2 DEF TaskTypeOK, CodeTypeOK
  <2> QED BY <1>1, <2>1, <2>2, <2>5, <2>6, <2>7 DEF CodeKept, RecordInv, RecordIsWhole
<1>2. CASE ~Full(revision, slots)
  <2>1. revisions' = revisions \union {revision} /\ dropped' = dropped
    BY <1>2 DEF Keep
  <2>2. Cardinality(revisions') <= RevisionSlots
    <3>1. CASE revision \in revisions
      <4>1. revisions' = revisions
        BY <2>1, <3>1
      <4> QED BY <4>1 DEF RecordInv, RecordIsWhole
    <3>2. CASE revision \notin revisions
      <4>1. Cardinality(revisions) < slots
        BY <1>2, <3>2 DEF Full
      <4>2. Cardinality(revisions') = Cardinality(revisions) + 1
        BY <2>1, <3>2, FS_AddElement
      <4> QED BY <4>1, <4>2, TaskLimits
    <3> QED BY <3>1, <3>2
  <2>3. /\ {run.revision : run \in runs} \subseteq revisions' \union dropped'
        /\ evidence \subseteq revisions' /\ (Frozen => attempt.final \in revisions')
        /\ 0 \in revisions' /\ (dropped' # {} => overflow)
    BY <2>1 DEF RecordInv, RecordIsWhole
  <2>4. dropped' \subseteq Revisions
    BY <2>1 DEF TaskTypeOK, CodeTypeOK
  <2> QED BY <2>1, <2>2, <2>3, <2>4 DEF CodeKept
<1> QED BY <1>1, <1>2

\* The page is told of what was let go.
LEMMA StoreKeeps ==
    ASSUME TaskTypeOK, RecordInv, NEW revision, NEW slots \in Nat, slots <= RevisionSlots,
           NEW held, Store(revision, slots, held)
    PROVE  CodeKept(revision) /\ (dropped' # {} => overflow') /\ overflow' \in BOOLEAN
<1>1. Keep(revision, slots, held) /\ overflow' = (overflow \/ Full(revision, slots))
  BY DEF Store
<1>2. CodeKept(revision) /\ (dropped' # {} => overflow \/ Full(revision, slots))
  BY <1>1, KeepKeeps
<1>3. overflow' \in BOOLEAN
  BY <1>1
<1> QED BY <1>1, <1>2, <1>3

LEMMA SlotsInRange ==
    /\ FreeSlots \in Nat /\ FreeSlots <= RevisionSlots
    /\ \A m : SlotsFor(m) \in Nat /\ SlotsFor(m) <= RevisionSlots
<1>1. FreeSlots \in Nat /\ FreeSlots <= RevisionSlots
  BY TaskLimits DEF FreeSlots
<1>2. ASSUME NEW m PROVE SlotsFor(m) \in {FreeSlots, RevisionSlots}
  BY DEF SlotsFor
<1>3. RevisionSlots \in Nat
  BY TaskLimits
<1> QED BY <1>1, <1>2, <1>3

\* Before the final code is chosen and with no capture waiting for its run, a
\* full table holds more than the starter and the evidence, which leave it two
\* slots: something may be let go.
LEMMA SomethingGoes ==
    ASSUME TaskTypeOK, RecordInv, ~Frozen, NEW revision, Full(revision, RevisionSlots)
    PROVE  Evictable(NoRevision) # {}
<1> USE SnapshotsAreFinite
<1>1. SUFFICES ASSUME Evictable(NoRevision) = {} PROVE FALSE
  OBVIOUS
<1>2. attempt.final = NoRevision
  BY DEF Frozen
<1>3. revisions \subseteq evidence \union {0}
  BY <1>1, <1>2 DEF Evictable, TaskTypeOK, CodeTypeOK
<1>4. /\ IsFiniteSet(evidence \union {0})
      /\ Cardinality(evidence \union {0}) <= Cardinality(evidence) + 1
      /\ Cardinality(evidence \union {0}) \in Nat
  <2>1. IsFiniteSet(evidence) /\ Cardinality(evidence) \in Nat
    BY FS_CardinalityType
  <2>2. IsFiniteSet(evidence \union {0})
    BY <2>1, FS_AddElement
  <2>3. Cardinality(evidence \union {0}) \in {Cardinality(evidence), Cardinality(evidence) + 1}
    BY <2>1, FS_AddElement
  <2> QED BY <2>1, <2>2, <2>3
<1>5. Cardinality(revisions) <= Cardinality(evidence \union {0})
  BY <1>3, <1>4, FS_Subset
<1>6. Cardinality(evidence) <= EvidenceSlots /\ Cardinality(revisions) >= RevisionSlots
  BY DEF RecordInv, Full
<1> QED BY <1>4, <1>5, <1>6, TaskLimits

\* So the code that is handed in or frozen is always stored.
LEMMA FreezeKeeps ==
    ASSUME TaskTypeOK, RecordInv, ~Frozen, FreezeCode
    PROVE  /\ CodeKept(current) /\ (dropped' # {} => overflow') /\ overflow' \in BOOLEAN
           /\ waiting' \in Waiting /\ waiting'.left <= waiting.left
<1>1. RevisionSlots \in Nat /\ waiting \in Waiting
  BY TaskLimits DEF TaskTypeOK, CodeTypeOK
<1>2. CASE Store(current, RevisionSlots, waiting.revision) /\ UNCHANGED waiting
  BY <1>1, <1>2, StoreKeeps DEF Waiting
<1>3. ASSUME NoRoom(current, RevisionSlots, waiting.revision),
             waiting' = [revision |-> NoRevision, left |-> 0],
             \/ Store(current, RevisionSlots, NoRevision)
             \/ StoreFails(current, RevisionSlots, NoRevision)
      PROVE  /\ CodeKept(current) /\ (dropped' # {} => overflow') /\ overflow' \in BOOLEAN
             /\ waiting' \in Waiting /\ waiting'.left <= waiting.left
  <2>1. ~StoreFails(current, RevisionSlots, NoRevision)
    BY <1>3, SomethingGoes DEF StoreFails, NoRoom
  <2>2. CodeKept(current) /\ (dropped' # {} => overflow') /\ overflow' \in BOOLEAN
    BY <1>1, <1>3, <2>1, StoreKeeps
  <2> QED BY <1>1, <1>3, <2>2 DEF Waiting
<1> QED BY <1>2, <1>3 DEF FreezeCode

\* The table after code was stored for `revision' is a record again, whether
\* evidence or the attempt now refer to that revision or not.
LEMMA RecordAfter ==
    ASSUME TaskTypeOK, RecordInv, NEW revision, CodeKept(revision), dropped' # {} => overflow',
           runs' = runs, evidence' \subseteq evidence \union {revision},
           Cardinality(evidence') <= EvidenceSlots,
           attempt'.final \in {attempt.final, revision}
    PROVE  RecordInv'
<1>1. evidence' \subseteq revisions'
  BY DEF CodeKept
<1>2. Frozen' => attempt'.final \in revisions'
  BY DEF CodeKept, Frozen
<1> QED BY <1>1, <1>2 DEF CodeKept, RecordInv, RecordIsWhole

\* A handler that stores no code leaves the record as it is, and may drop none.
LEMMA RecordStays ==
    ASSUME RecordInv, UNCHANGED <<attempt.final, revisions, dropped, evidence>>,
           overflow => overflow', overflow' \in BOOLEAN,
           {run.revision : run \in runs'} \subseteq revisions \union dropped
    PROVE  RecordInv'
BY DEF RecordInv, RecordIsWhole, Frozen

\* Where code is stored for one of the revisions of the page.
LEMMA CodeStored ==
    ASSUME CodeTypeOK, NEW revision \in Revisions, CodeKept(revision)
    PROVE  revisions' \subseteq Revisions /\ dropped' \subseteq Revisions
BY DEF CodeTypeOK, CodeKept

\* What an end does to the code, whoever asks for it.
LEMMA ConcludeKeeps ==
    ASSUME TaskTypeOK, RecordInv, NEW outcome \in {"short", "completed"}, Conclude(outcome),
           UNCHANGED page
    PROVE  /\ TaskTypeOK' /\ RecordInv'
           /\ revisions' \subseteq revisions \union {current} /\ waiting'.left <= waiting.left
           /\ attempt'.phase = "feedback" /\ attempt.phase # "feedback" /\ Frozen'
           /\ (Frozen => attempt'.final = attempt.final)
           /\ UNCHANGED <<current, runs, requests, checkVars>>
<1> USE SnapshotsAreFinite DEF Conclude
<1>1. attempt \in Attempt /\ current \in Revisions /\ waiting \in Waiting /\ CodeTypeOK
  BY DEF TaskTypeOK, CodeTypeOK
<1>2. FinalRevision \in Revisions /\ (Frozen => FinalRevision = attempt.final)
  BY <1>1 DEF FinalRevision, Frozen, Attempt
<1>3. /\ attempt' \in Attempt /\ attempt'.final = FinalRevision
      /\ attempt'.phase = "feedback" /\ Frozen'
  BY <1>1, <1>2 DEF Attempt, Frozen
<1>4. CASE Frozen
  <2>1. UNCHANGED <<revisions, dropped, overflow, waiting>>
    BY <1>4 DEF Freeze
  <2>2. RecordInv'
    BY <1>2, <1>3, <1>4, <2>1, RecordStays
       DEF checkVars, TaskTypeOK, CodeTypeOK, RecordInv, RecordIsWhole
  <2>3. TaskTypeOK'
    BY <1>3, <2>1 DEF TaskTypeOK, CodeTypeOK, CheckTypeOK, checkVars
  <2> QED BY <1>1, <1>2, <1>3, <1>4, <2>1, <2>2, <2>3 DEF Waiting
<1>5. CASE ~Frozen
  <2>1. FreezeCode /\ FinalRevision = current
    BY <1>5 DEF Freeze, FinalRevision
  <2>2. /\ CodeKept(current) /\ (dropped' # {} => overflow') /\ overflow' \in BOOLEAN
        /\ waiting' \in Waiting /\ waiting'.left <= waiting.left
    BY <1>5, <2>1, FreezeKeeps
  <2>3. RecordInv'
    BY <1>3, <2>1, <2>2, RecordAfter DEF checkVars, RecordInv
  <2>4. revisions' \subseteq Revisions /\ dropped' \subseteq Revisions
    BY <1>1, <2>2, CodeStored
  <2>5. TaskTypeOK'
    BY <1>1, <1>3, <2>2, <2>4 DEF TaskTypeOK, CodeTypeOK, CheckTypeOK, checkVars
  <2> QED BY <1>3, <1>5, <2>2, <2>3, <2>5 DEF CodeKept
<1> QED BY <1>4, <1>5

(***************************************************************************)
(* The messages                                                            *)
(***************************************************************************)

\* A message that is new has an id of its own, and names code that is not older
\* than the editor's.
LEMMA MessageTypes ==
    ASSUME TaskTypeOK, NEW kind \in Kinds, NEW m \in Messages(kind)
    PROVE  /\ m \in Message /\ m.kind = kind
           /\ m \notin requests =>
                /\ Cardinality(requests) < MaxRequests
                /\ kind = "hint" => m.revision = NoRevision
                /\ kind # "hint" => m.revision \in Revisions /\ m.revision >= current
<1>1. Cardinality(requests) \in Nat
  BY FS_CardinalityType DEF TaskTypeOK
<1>2. requests \subseteq Message /\ Cardinality(requests) <= MaxRequests /\ current \in Revisions
  BY DEF TaskTypeOK, CodeTypeOK
<1>3. CASE m \in {n \in requests : n.kind = kind}
  BY <1>2, <1>3
<1>4. ASSUME Cardinality(requests) # MaxRequests,
             NEW r \in IF kind = "hint" THEN {NoRevision}
                       ELSE {current, current + 1} \intersect Revisions,
             m = [id |-> Cardinality(requests) + 1, kind |-> kind, revision |-> r]
      PROVE  /\ m \in Message /\ m.kind = kind
             /\ Cardinality(requests) < MaxRequests
             /\ kind = "hint" => m.revision = NoRevision
             /\ kind # "hint" => m.revision \in Revisions /\ m.revision >= current
  <2>1. Cardinality(requests) < MaxRequests /\ Cardinality(requests) + 1 \in 1..MaxRequests
    BY <1>1, <1>2, <1>4, TaskLimits
  <2>2. r \in Revisions \union {NoRevision}
    BY <1>4
  <2>3. kind = "hint" => r = NoRevision
    BY <1>4
  <2>4. kind # "hint" => r \in Revisions /\ r >= current
    <3>1. SUFFICES ASSUME kind # "hint" PROVE r \in Revisions /\ r >= current
      OBVIOUS
    <3>2. r \in {current, current + 1} \intersect Revisions
      BY <1>4, <3>1
    <3> QED BY <1>2, <3>2, TaskLimits DEF Revisions
  <2> QED BY <1>4, <2>1, <2>2, <2>3, <2>4 DEF Message
<1> QED BY <1>3, <1>4 DEF Messages

LEMMA RequestTaken ==
    ASSUME TaskTypeOK, NEW kind \in Kinds, NEW m \in Messages(kind), Arrives(m), TakeRequest(m)
    PROVE  /\ requests' \subseteq Message /\ IsFiniteSet(requests')
           /\ Cardinality(requests') <= MaxRequests /\ requests' # requests
<1>1. m \notin requests /\ m \in Message /\ Cardinality(requests) < MaxRequests
  BY MessageTypes DEF Arrives, NewRequest
<1>2. requests' = requests \union {m} /\ Cardinality(requests) \in Nat
  BY FS_CardinalityType DEF TakeRequest, TaskTypeOK
<1>3. IsFiniteSet(requests') /\ Cardinality(requests') = Cardinality(requests) + 1
  BY <1>1, <1>2, FS_AddElement DEF TaskTypeOK
<1> QED BY <1>1, <1>2, <1>3, TaskLimits DEF TaskTypeOK

\* What is offered next is one more offer of its kind.
LEMMA OfferTaken ==
    ASSUME TaskTypeOK, NEW kind \in {"hint", "followup"}, NEW check \in Checks \union {NoCheck}
    PROVE  /\ OfferNext(kind, check) \in Offer
           /\ OfferNext(kind, check).after = turns /\ OfferNext(kind, check).kind = kind
           /\ OfferNext(kind, check).check = check
           /\ IsFiniteSet(support \union {OfferNext(kind, check)})
<1>1. Offered(kind) \in Nat
  <2>1. {s \in support : s.kind = kind} \in SUBSET support
    OBVIOUS
  <2> QED BY <2>1, FS_Subset, FS_CardinalityType DEF Offered, TaskTypeOK, CheckTypeOK
<1>2. OfferNext(kind, check) \in Offer
  BY <1>1 DEF OfferNext, Offer, TaskTypeOK, CheckTypeOK
<1> QED BY <1>2, FS_AddElement DEF OfferNext, TaskTypeOK, CheckTypeOK

(***************************************************************************)
(* Types, and the record                                                   *)
(***************************************************************************)

CodeInv == TaskTypeOK /\ RecordInv

LEMMA CodeInvInit == TaskInit => CodeInv
<1> SUFFICES ASSUME TaskInit PROVE CodeInv
  OBVIOUS
<1> USE DEF TaskInit
<1>2. /\ IsFiniteSet({}) /\ Cardinality({}) = 0
      /\ Cardinality({0}) = 1
  BY FS_EmptySet, FS_Singleton
<1>3. attempt \in Attempt /\ page \in Page
  BY TaskLimits DEF Attempt, Page
<1>7. CodeTypeOK
  <2>1. 0 \in Revisions
    BY TaskLimits DEF Revisions
  <2>2. waiting \in Waiting
    BY DEF Waiting
  <2> QED BY <2>1, <2>2 DEF CodeTypeOK
<1>4. CheckTypeOK
  BY <1>2, TaskLimits DEF CheckTypeOK, Check, Supports
<1>5. TaskTypeOK
  BY <1>2, <1>3, <1>4, <1>7, TaskLimits DEF TaskTypeOK
<1>6. RecordInv
  BY <1>2, TaskLimits DEF RecordInv, RecordIsWhole, Frozen
<1> QED BY <1>5, <1>6 DEF CodeInv

\* The clock, the page and the editor touch none of the code that is kept.
LEMMA ClockKeepsCode ==
    ASSUME CodeInv,
           Start \/ PageLeaves \/ PageReturns \/ TimePasses \/ TickRoom \/ Edit
    PROVE  CodeInv'
<1> USE DEF CodeInv
<1>1. attempt \in Attempt /\ page \in Page /\ waiting \in Waiting /\ current \in Revisions
  BY DEF TaskTypeOK, CodeTypeOK
<1>2. CountDown(attempt.left) \in Nat /\ CountDown(waiting.left) \in Nat
  BY <1>1 DEF CountDown, Attempt, Waiting
<1>3. UNCHANGED <<revisions, runs, dropped, overflow, requests, checkVars>>
  BY DEF Start, PageLeaves, PageReturns, TimePasses, TickRoom, Edit, codeVars
<1>4. attempt' \in Attempt /\ attempt'.final = attempt.final
  <2>1. CASE attempt' = attempt
    BY <1>1, <2>1
  <2>2. CASE attempt' = [attempt EXCEPT !.left = CountDown(@)]
    BY <1>1, <1>2, <2>2 DEF Attempt
  <2>3. CASE attempt' = [attempt EXCEPT !.phase = "work"]
    BY <1>1, <2>3 DEF Attempt
  <2>4. CASE attempt' = [attempt EXCEPT !.phase = "wrap-up"]
    BY <1>1, <2>4 DEF Attempt
  <2>5. TickRoom => attempt' \in {attempt, [attempt EXCEPT !.phase = "wrap-up"]}
    BY DEF TickRoom
  <2>6. TimePasses => attempt' = [attempt EXCEPT !.left = CountDown(@)]
    BY DEF TimePasses
  <2>7. Start => attempt' = [attempt EXCEPT !.phase = "work"]
    BY DEF Start
  <2>8. PageLeaves \/ PageReturns \/ Edit => attempt' = attempt
    BY DEF PageLeaves, PageReturns, Edit
  <2> QED BY <2>1, <2>2, <2>3, <2>4, <2>5, <2>6, <2>7, <2>8
<1>5. page' \in Page
  <2>1. CASE TimePasses
    <3>1. PICK gone : page' = [page EXCEPT !.gone = gone] /\ gone \in {page.gone, page.gone + 1}
      BY <2>1 DEF TimePasses
    <3> QED BY <1>1, <3>1 DEF Page
  <2>2. CASE PageLeaves \/ PageReturns
    <3>1. \E absent \in BOOLEAN : page' = [absent |-> absent, gone |-> 0]
      BY <2>2 DEF PageLeaves, PageReturns
    <3> QED BY <3>1 DEF Page
  <2>3. CASE Start \/ TickRoom \/ Edit
    BY <1>1, <2>3 DEF Start, TickRoom, Edit
  <2> QED BY <2>1, <2>2, <2>3
<1>6. waiting' \in Waiting
  BY <1>1, <1>2
     DEF Start, PageLeaves, PageReturns, TimePasses, TickRoom, Edit, codeVars, Waiting, StillWaiting
<1>7. current' \in Revisions
  BY <1>1, TaskLimits
     DEF Start, PageLeaves, PageReturns, TimePasses, TickRoom, Edit, codeVars, Revisions
<1>8. TaskTypeOK'
  BY <1>3, <1>4, <1>5, <1>6, <1>7 DEF TaskTypeOK, CodeTypeOK, CheckTypeOK, checkVars
<1>9. RecordInv'
  BY <1>3, <1>4, <1>8, RecordStays
     DEF checkVars, TaskTypeOK, CodeTypeOK, RecordInv, RecordIsWhole
<1> QED BY <1>8, <1>9

\* However an attempt ends, what it was is kept.
LEMMA EndsKeepCode ==
    ASSUME CodeInv, Expire \/ Lose \/ End \/ LoseRoom \/ CompleteTask
    PROVE  CodeInv' /\ \E outcome \in {"short", "completed"} : Conclude(outcome) /\ UNCHANGED page
<1>1. PICK outcome \in {"short", "completed"} : Conclude(outcome) /\ UNCHANGED page
  BY DEF Expire, Lose, End, LoseRoom, CompleteTask, OutcomeInTime
<1>2. TaskTypeOK /\ RecordInv
  BY DEF CodeInv
<1>3. TaskTypeOK' /\ RecordInv'
  BY <1>1, <1>2, ConcludeKeeps
<1> QED BY <1>1, <1>3 DEF CodeInv

LEMMA CaptureKeepsCode ==
    ASSUME CodeInv, NEW kind \in {"capture-run", "capture-discuss", "capture-finish"},
           NEW m \in Messages(kind), Capture(m) \/ RefuseCapture(m)
    PROVE  CodeInv'
<1> USE DEF CodeInv
<1>1. attempt \in Attempt /\ page \in Page /\ StillWaiting \in Waiting /\ CodeTypeOK
  BY DEF TaskTypeOK, CodeTypeOK, Waiting, StillWaiting
<1>2. kind \in Kinds /\ kind # "hint"
  BY DEF Kinds
<1>3. CASE Capture(m)
  <2>1. Arrives(m) /\ TakeRequest(m)
    BY <1>3 DEF Capture, MayCapture
  <2>2. m.revision \in Revisions
    BY <1>2, <2>1, MessageTypes DEF Arrives, NewRequest
  <2>3. CodeKept(m.revision) /\ (dropped' # {} => overflow') /\ overflow' \in BOOLEAN
    BY <1>3, SlotsInRange, StoreKeeps DEF Capture
  <2>4. /\ requests' \subseteq Message /\ IsFiniteSet(requests')
        /\ Cardinality(requests') <= MaxRequests
    BY <1>2, <2>1, RequestTaken
  <2>5. waiting' \in Waiting /\ current' \in Revisions
    BY <1>1, <1>3, <2>2, TaskLimits DEF Capture, Waiting
  <2>6. TaskTypeOK'
    BY <1>1, <1>3, <2>2, <2>3, <2>4, <2>5, CodeStored
       DEF Capture, TaskTypeOK, CodeTypeOK, CheckTypeOK, checkVars
  <2>7. RecordInv'
    BY <1>3, <2>3, RecordAfter DEF Capture, checkVars, RecordInv
  <2> QED BY <2>6, <2>7
<1>4. CASE RefuseCapture(m)
  <2>1. /\ waiting' \in Waiting /\ overflow' = TRUE
        /\ UNCHANGED <<attempt, page, current, revisions, dropped, runs, requests, checkVars>>
    BY <1>1, <1>4 DEF RefuseCapture, StoreFails
  <2>2. TaskTypeOK'
    BY <2>1 DEF TaskTypeOK, CodeTypeOK, CheckTypeOK, checkVars
  <2>3. RecordInv'
    BY <2>1, RecordStays DEF checkVars, RecordInv, RecordIsWhole
  <2> QED BY <2>2, <2>3
<1> QED BY <1>3, <1>4

\* A kept run is one of a revision whose code is kept.
LEMMA RunKeepsCode ==
    ASSUME CodeInv, NEW m \in Messages("run"), Run(m)
    PROVE  CodeInv'
<1> USE DEF CodeInv
<1>1. "run" \in Kinds /\ Arrives(m) /\ TakeRequest(m) /\ m.revision \in revisions
  BY DEF Kinds, Run
<1>2. m \in Message
  BY <1>1, MessageTypes
<1>3. /\ runs' \subseteq runs \union {m} /\ (overflow => overflow') /\ overflow' \in BOOLEAN
      /\ waiting' \in Waiting
      /\ UNCHANGED <<attempt, page, current, revisions, dropped, checkVars>>
  BY TaskLimits DEF Run, Waiting, TaskTypeOK, CodeTypeOK
<1>4. /\ requests' \subseteq Message /\ IsFiniteSet(requests')
      /\ Cardinality(requests') <= MaxRequests
  BY <1>1, RequestTaken
<1>5. TaskTypeOK'
  BY <1>2, <1>3, <1>4 DEF TaskTypeOK, CodeTypeOK, CheckTypeOK, checkVars
<1>6. {run.revision : run \in runs'} \subseteq revisions \union dropped
  BY <1>1, <1>3 DEF RecordInv, RecordIsWhole
<1>7. RecordInv'
  BY <1>3, <1>6, RecordStays DEF checkVars
<1> QED BY <1>5, <1>7

\* A discussion or a hand-in keeps the code it is about.
LEMMA HandInKeepsCode ==
    ASSUME CodeInv, NEW kind \in {"discuss", "finish"}, NEW m \in Messages(kind),
           Discuss(m) \/ FinishTask(m)
    PROVE  CodeInv'
<1> USE DEF CodeInv
<1>1. kind \in Kinds /\ Arrives(m) /\ ~Frozen
  BY DEF Kinds, Discuss, FinishTask
<1>2. attempt \in Attempt /\ current \in Revisions /\ waiting \in Waiting /\ CodeTypeOK
  BY DEF TaskTypeOK, CodeTypeOK
<1>3. ASSUME TakeRequest(m)
      PROVE  /\ requests' \subseteq Message /\ IsFiniteSet(requests')
             /\ Cardinality(requests') <= MaxRequests
  BY <1>1, <1>3, RequestTaken
<1>4. CASE Discuss(m) /\ Store(current, FreeSlots, waiting.revision) /\ TakeRequest(m)
  <2>1. CodeKept(current) /\ (dropped' # {} => overflow') /\ overflow' \in BOOLEAN
    BY <1>4, SlotsInRange, StoreKeeps
  <2>2. UNCHANGED <<attempt, page, current, waiting, runs, checkVars>>
    BY <1>4 DEF Discuss
  <2>3. RecordInv'
    BY <2>1, <2>2, RecordAfter DEF checkVars, RecordInv
  <2>4. TaskTypeOK'
    BY <1>2, <1>3, <1>4, <2>1, <2>2, CodeStored DEF TaskTypeOK, CodeTypeOK, CheckTypeOK, checkVars
  <2> QED BY <2>3, <2>4
<1>5. CASE Discuss(m) /\ StoreFails(current, FreeSlots, waiting.revision) /\ UNCHANGED requests
  <2>1. /\ UNCHANGED <<attempt, page, current, waiting, runs, checkVars, revisions, dropped, requests>>
        /\ overflow' = TRUE
    BY <1>5 DEF Discuss, StoreFails
  <2>2. TaskTypeOK'
    BY <2>1 DEF TaskTypeOK, CodeTypeOK, CheckTypeOK, checkVars
  <2>3. RecordInv'
    BY <2>1, RecordStays DEF checkVars, RecordInv, RecordIsWhole
  <2> QED BY <2>2, <2>3
<1>6. CASE FinishTask(m)
  <2>1. FreezeCode /\ TakeRequest(m) /\ UNCHANGED <<page, current, runs, checkVars>>
    BY <1>1, <1>6 DEF FinishTask, Freeze
  <2>2. attempt' \in Attempt /\ attempt'.final = current
    BY <1>2, <1>6, TaskLimits DEF FinishTask, Attempt
  <2>3. /\ CodeKept(current) /\ (dropped' # {} => overflow') /\ overflow' \in BOOLEAN
        /\ waiting' \in Waiting
    BY <1>1, <2>1, FreezeKeeps
  <2>4. RecordInv'
    BY <2>1, <2>2, <2>3, RecordAfter DEF checkVars, RecordInv
  <2>5. TaskTypeOK'
    BY <1>2, <1>3, <2>1, <2>2, <2>3, CodeStored DEF TaskTypeOK, CodeTypeOK, CheckTypeOK, checkVars
  <2> QED BY <2>4, <2>5
<1> QED BY <1>4, <1>5, <1>6 DEF Discuss

\* Hints, follow-ups, turns and a repeated hand-in are about no code.
LEMMA OffersKeepCode ==
    ASSUME CodeInv,
           \/ \E m \in Messages("hint") : Hint(m)
           \/ \E m \in Messages("finish") : FinishAgain(m)
           \/ Turn
           \/ \E c \in Checks : FollowUp(c)
    PROVE  CodeInv'
<1> USE DEF CodeInv
<1>1. /\ requests' \subseteq Message /\ IsFiniteSet(requests')
      /\ Cardinality(requests') <= MaxRequests
  <2>1. CASE UNCHANGED requests
    BY <2>1 DEF TaskTypeOK
  <2>2. ASSUME NEW kind \in {"hint", "finish"}, NEW m \in Messages(kind), Arrives(m), TakeRequest(m)
        PROVE  /\ requests' \subseteq Message /\ IsFiniteSet(requests')
               /\ Cardinality(requests') <= MaxRequests
    BY <2>2, RequestTaken DEF Kinds
  <2> QED BY <2>1, <2>2 DEF Hint, FinishAgain, Turn, FollowUp
<1>2. IsFiniteSet(support') /\ support' \subseteq Offer
  <2>1. CASE UNCHANGED support
    BY <2>1 DEF TaskTypeOK, CheckTypeOK
  <2>a. support \subseteq Offer
    BY DEF TaskTypeOK, CheckTypeOK
  <2>2. CASE support' = support \union {OfferNext("hint", NoCheck)}
    BY <2>2, <2>a, OfferTaken
  <2>3. ASSUME NEW c \in Checks, support' = support \union {OfferNext("followup", c)}
        PROVE  IsFiniteSet(support') /\ support' \subseteq Offer
    BY <2>3, <2>a, OfferTaken
  <2>4. \/ UNCHANGED support
        \/ support' = support \union {OfferNext("hint", NoCheck)}
        \/ \E c \in Checks : support' = support \union {OfferNext("followup", c)}
    BY DEF Hint, FinishAgain, Turn, FollowUp, checkVars
  <2> QED BY <2>1, <2>2, <2>3, <2>4
<1>3. turns' \in 0..TurnSlots
  BY TaskLimits DEF Hint, FinishAgain, Turn, FollowUp, checkVars, TaskTypeOK, CheckTypeOK
<1>4. (overflow => overflow') /\ overflow' \in BOOLEAN
  BY DEF Hint, FinishAgain, Turn, FollowUp, codeVars, TaskTypeOK, CodeTypeOK
<1>5. UNCHANGED <<attempt, page, current, revisions, waiting, runs, dropped, checks, evidence>>
  BY DEF Hint, FinishAgain, Turn, FollowUp, codeVars, checkVars
<1>6. TaskTypeOK'
  BY <1>1, <1>2, <1>3, <1>4, <1>5 DEF TaskTypeOK, CodeTypeOK, CheckTypeOK
<1>7. RecordInv'
  BY <1>4, <1>5, RecordStays DEF RecordInv, RecordIsWhole
<1> QED BY <1>6, <1>7

\* What is recorded of a check is of its type.
LEMMA RecordedType ==
    ASSUME NEW check \in Check, NEW t \in 1..TurnSlots, NEW kind \in Supports
    PROVE  /\ Recorded(check, t, kind) \in Check
           /\ Recorded(check, t, kind).support \in {check.support, kind}
           /\ Recorded(check, t, kind).support = "none" => check.support = "none" /\ kind = "none"
           /\ \A u \in 1..TurnSlots :
                Recorded(check, t, kind).turns[u] =
                    IF u = t /\ (kind # "none" \/ check.turns[u] = "unrecorded")
                    THEN kind ELSE check.turns[u]
BY DEF Recorded, Check, Supports

\* The support evidence may be recorded with.
LEMMA SupportTypes ==
    ASSUME TaskTypeOK, NEW c, NEW t, NEW kind \in UnnamedSupport(c, t) \union NamableSupport(c, t)
    PROVE  kind \in Supports
BY DEF UnnamedSupport, NamableSupport, Supports, TaskTypeOK, CheckTypeOK, Offer

\* Evidence refers to code that is kept, and takes a slot of its own.
LEMMA EvidenceKeepsCode ==
    ASSUME CodeInv, NEW c \in Checks, NEW t \in 1..TurnSlots, NEW revision \in Revisions,
           RecordCheck(c, t, revision)
    PROVE  CodeInv'
<1> USE SnapshotsAreFinite DEF CodeInv
<1>1. PICK kind \in UnnamedSupport(c, t) \union NamableSupport(c, t) :
         checks' = [checks EXCEPT ![c] = Recorded(@, t, kind)]
  BY DEF RecordCheck
<1>2. checks' \in [Checks -> Check]
  BY <1>1, SupportTypes, RecordedType DEF TaskTypeOK, CheckTypeOK
<1>3. /\ evidence' = evidence \union {revision} /\ current \in Revisions
      /\ UNCHANGED <<attempt, page, current, waiting, runs, requests, support, turns>>
  BY DEF RecordCheck, TaskTypeOK, CodeTypeOK
<1>4. Cardinality(evidence') <= EvidenceSlots
  <2>1. CASE revision \in evidence
    <3>1. evidence' = evidence
      BY <1>3, <2>1
    <3> QED BY <3>1 DEF RecordInv
  <2>2. CASE Cardinality(evidence) < EvidenceSlots
    <3>1. Cardinality(evidence') \in {Cardinality(evidence), Cardinality(evidence) + 1}
      BY <1>3, FS_AddElement
    <3> QED BY <2>2, <3>1, TaskLimits
  <2> QED BY <2>1, <2>2 DEF RecordCheck
<1>5. CASE revision = current
  <2>1. CodeKept(revision) /\ (dropped' # {} => overflow') /\ overflow' \in BOOLEAN
    BY <1>5, SlotsInRange, StoreKeeps DEF RecordCheck
  <2>2. RecordInv'
    BY <1>3, <1>4, <2>1, RecordAfter
  <2>3. TaskTypeOK'
    BY <1>2, <1>3, <2>1, CodeStored DEF TaskTypeOK, CodeTypeOK, CheckTypeOK
  <2> QED BY <2>2, <2>3
<1>6. CASE revision # current
  <2>1. revision \in revisions /\ UNCHANGED <<revisions, dropped, overflow>>
    BY <1>6 DEF RecordCheck
  <2>2. TaskTypeOK'
    BY <1>2, <1>3, <2>1 DEF TaskTypeOK, CodeTypeOK, CheckTypeOK
  <2>3. RecordInv'
    BY <1>3, <1>4, <2>1 DEF RecordInv, RecordIsWhole, Frozen
  <2> QED BY <2>2, <2>3
<1> QED BY <1>5, <1>6

\* Evidence that is refused may have had its code stored.
LEMMA RefusalKeepsCode ==
    ASSUME CodeInv, NEW revision \in Revisions, RefuseCheck(revision)
    PROVE  CodeInv'
<1> USE DEF CodeInv
<1>1. UNCHANGED <<attempt, page, current, waiting, runs, requests, checkVars>> /\ overflow' = TRUE
  BY DEF RefuseCheck, StoreFails
<1>2. CASE UNCHANGED <<revisions, dropped>>
  <2>1. TaskTypeOK'
    BY <1>1, <1>2 DEF TaskTypeOK, CodeTypeOK, CheckTypeOK, checkVars
  <2>2. RecordInv'
    BY <1>1, <1>2, RecordStays DEF checkVars, RecordInv, RecordIsWhole
  <2> QED BY <2>1, <2>2
<1>3. CASE Keep(current, FreeSlots, waiting.revision)
  <2>1. CodeKept(current) /\ current \in Revisions
    BY <1>3, SlotsInRange, KeepKeeps DEF TaskTypeOK, CodeTypeOK
  <2>2. TaskTypeOK'
    BY <1>1, <2>1, CodeStored DEF TaskTypeOK, CodeTypeOK, CheckTypeOK, checkVars
  <2>3. RecordInv'
    BY <1>1, <2>1, RecordAfter DEF checkVars, RecordInv
  <2> QED BY <2>2, <2>3
<1> QED BY <1>2, <1>3 DEF RefuseCheck, StoreFails

LEMMA CodeInvStep == CodeInv /\ [TaskNext]_taskVars => CodeInv'
<1> SUFFICES ASSUME CodeInv, [TaskNext]_taskVars PROVE CodeInv'
  OBVIOUS
<1>1. CASE Start \/ PageLeaves \/ PageReturns \/ TimePasses \/ TickRoom \/ Edit
  BY <1>1, ClockKeepsCode
<1>2. CASE Expire \/ Lose \/ End \/ LoseRoom \/ CompleteTask
  BY <1>2, EndsKeepCode
<1>3. CASE \E kind \in {"capture-run", "capture-discuss", "capture-finish"} :
             \E m \in Messages(kind) : Capture(m) \/ RefuseCapture(m)
  BY <1>3, CaptureKeepsCode
<1>4. CASE \E m \in Messages("run") : Run(m)
  BY <1>4, RunKeepsCode
<1>5. CASE \E m \in Messages("discuss") : Discuss(m)
  BY <1>5, HandInKeepsCode
<1>6. CASE \E m \in Messages("finish") : FinishTask(m)
  BY <1>6, HandInKeepsCode
<1>7. CASE \/ \E m \in Messages("hint") : Hint(m)
           \/ \E m \in Messages("finish") : FinishAgain(m)
           \/ Turn
           \/ \E c \in Checks : FollowUp(c)
  BY <1>7, OffersKeepCode
<1>8. CASE \E c \in Checks, t \in 1..TurnSlots, r \in Revisions : RecordCheck(c, t, r)
  BY <1>8, EvidenceKeepsCode
<1>9. CASE \E r \in Revisions : RefuseCheck(r)
  BY <1>9, RefusalKeepsCode
<1>10. CASE UNCHANGED taskVars
  <2>1. TaskTypeOK' /\ RecordInv'
    BY <1>10 DEF CodeInv, taskVars, codeVars, checkVars, TaskTypeOK, CodeTypeOK, CheckTypeOK,
                 RecordInv, RecordIsWhole, Frozen
  <2> QED BY <2>1 DEF CodeInv
<1> QED BY <1>1, <1>2, <1>3, <1>4, <1>5, <1>6, <1>7, <1>8, <1>9, <1>10 DEF TaskNext

\* A task attempt is always well typed (session.rs, TaskSession).
THEOREM TaskTypes == TaskSpec => []TaskTypeOK
<1>1. CodeInv => TaskTypeOK
  BY DEF CodeInv
<1> QED BY CodeInvInit, CodeInvStep, <1>1, PTL DEF TaskSpec

\* Whatever was let go to make room, the record of an attempt can be read.
THEOREM RecordStaysWhole == TaskSpec => []RecordIsWhole
<1>1. CodeInv => RecordIsWhole
  BY DEF CodeInv, RecordInv
<1> QED BY CodeInvInit, CodeInvStep, <1>1, PTL DEF TaskSpec

\* The code that is handed in finds a slot, whatever evidence holds.
THEOREM HandInHasRoom == TaskSpec => []HandInFindsRoom
<1>1. ASSUME CodeInv PROVE HandInFindsRoom
  <2> SUFFICES ASSUME ~Frozen, NEW m \in Messages("capture-finish")
               PROVE  ~NoRoom(m.revision, SlotsFor(m), NoRevision)
    BY DEF HandInFindsRoom
  <2>1. m.kind = "capture-finish"
    BY <1>1, MessageTypes DEF CodeInv, Kinds
  <2>2. SlotsFor(m) = RevisionSlots
    BY <2>1 DEF SlotsFor
  <2> QED BY <1>1, <2>2, SomethingGoes DEF NoRoom, CodeInv
<1> QED BY CodeInvInit, CodeInvStep, <1>1, PTL DEF TaskSpec

(***************************************************************************)
(* The evidence                                                            *)
(***************************************************************************)

LEMMA EvidenceInvInit == TaskInit => EvidenceInv
<1> SUFFICES ASSUME TaskInit PROVE EvidenceInv
  OBVIOUS
<1>1. support = {} /\ \A c \in Checks, t \in 1..TurnSlots : checks[c].turns[t] = "unrecorded"
  BY DEF TaskInit
<1> QED BY <1>1 DEF EvidenceInv, RecordedInOrder, IndependenceIsEarned

\* An offer is after every turn that is recorded: it changes what no evidence
\* counts as.
LEMMA OfferIsLater ==
    ASSUME TaskTypeOK, EvidenceInv, NEW kind \in {"hint", "followup"},
           NEW check \in Checks \union {NoCheck}, kind = "followup" <=> check \in Checks,
           support' = support \union {OfferNext(kind, check)}, UNCHANGED <<turns, checks>>
    PROVE  EvidenceInv'
<1> DEFINE offer == OfferNext(kind, check)
<1>1. offer.after = turns /\ offer.kind = kind /\ offer.check = check
  BY OfferTaken
<1>2. turns \in Nat /\ TurnSlots \in Nat
  BY TaskLimits DEF TaskTypeOK, CheckTypeOK
<1> HIDE DEF offer
<1>3. RecordedInOrder'
  BY <1>1, <1>2 DEF EvidenceInv, RecordedInOrder, offer
<1>4. ASSUME NEW c \in Checks, NEW t \in 1..TurnSlots, checks[c].turns[t] # "unrecorded"
      PROVE  {s \in support' : s.check \in {c, NoCheck} /\ s.after < t}
             = {s \in support : s.check \in {c, NoCheck} /\ s.after < t}
  <2>1. ~(offer.after < t)
    BY <1>1, <1>2, <1>4 DEF EvidenceInv, RecordedInOrder
  <2> QED BY <2>1 DEF offer
<1>5. ASSUME NEW c \in Checks
      PROVE  /\ checks'[c].support = "none" =>
                    \A t \in 1..TurnSlots : checks'[c].turns[t] \in {"none", "unrecorded"}
             /\ \A t \in 1..TurnSlots :
                  LET before == {s.kind : s \in {o \in support' : o.check \in {c, NoCheck} /\ o.after < t}}
                  IN  /\ checks'[c].turns[t] = "none" => "followup" \notin before
                      /\ checks'[c].turns[t] \in {"hint", "followup"} => checks'[c].turns[t] \in before
  BY <1>4 DEF EvidenceInv, IndependenceIsEarned
<1>6. IndependenceIsEarned'
  BY <1>5 DEF IndependenceIsEarned
<1> QED BY <1>3, <1>6 DEF EvidenceInv

\* What is recorded of a check is what the support offered before the turn
\* says: no follow-up on it if it is to be independent.
LEMMA RecordIsEarned ==
    ASSUME TaskTypeOK, EvidenceInv, NEW c \in Checks, NEW t \in 1..TurnSlots,
           NEW revision \in Revisions, RecordCheck(c, t, revision)
    PROVE  EvidenceInv'
<1>1. PICK kind \in UnnamedSupport(c, t) \union NamableSupport(c, t) :
         checks' = [checks EXCEPT ![c] = Recorded(@, t, kind)]
  BY DEF RecordCheck
<1>2. kind \in Supports /\ checks \in [Checks -> Check]
  BY SupportTypes DEF TaskTypeOK, CheckTypeOK
<1>3. UNCHANGED <<support, turns>> /\ t <= turns
  BY DEF RecordCheck
<1> DEFINE Before(d, u) == {s.kind : s \in {o \in support : o.check \in {d, NoCheck} /\ o.after < u}}
           new == Recorded(checks[c], t, kind)
<1>4. \A d \in Checks : checks'[d] = IF d = c THEN new ELSE checks[d]
  BY <1>1, <1>2
<1>5. /\ new.support = "none" => checks[c].support = "none" /\ kind = "none"
      /\ \A u \in 1..TurnSlots :
            new.turns[u] = IF u = t /\ (kind # "none" \/ checks[c].turns[u] = "unrecorded")
                           THEN kind ELSE checks[c].turns[u]
  BY <1>2, RecordedType
<1>6. support \subseteq Offer /\ NoCheck \notin Checks
  BY TaskLimits DEF TaskTypeOK, CheckTypeOK
<1>7. kind = "none" => "followup" \notin Before(c, t)
  <2> SUFFICES ASSUME kind = "none", NEW s \in support, s.check \in {c, NoCheck}, s.after < t,
                      s.kind = "followup"
               PROVE  FALSE
    OBVIOUS
  <2>1. kind \notin NamableSupport(c, t)
    BY <1>6 DEF NamableSupport, Offer
  <2>2. ~\E o \in support : o.check = c /\ o.after < t
    BY <2>1 DEF UnnamedSupport
  <2>3. s.check \in Checks
    BY DEF EvidenceInv, RecordedInOrder
  <2> QED BY <1>6, <2>2, <2>3
<1>8. kind # "none" => kind \in Before(c, t)
  <2>1. kind \in NamableSupport(c, t) => kind \in Before(c, t)
    BY DEF NamableSupport
  <2>2. ASSUME kind \in UnnamedSupport(c, t), kind # "none" PROVE kind \in Before(c, t)
    <3>1. kind = "followup" /\ \E s \in support : s.check = c /\ s.after < t
      BY <2>2 DEF UnnamedSupport
    <3>2. PICK s \in support : s.check = c /\ s.after < t
      BY <3>1
    <3>3. s.kind = "followup"
      BY <3>2 DEF EvidenceInv, RecordedInOrder
    <3> QED BY <3>1, <3>2, <3>3
  <2> QED BY <2>1, <2>2
<1> HIDE DEF new
<1>9. ASSUME NEW d \in Checks, checks'[d].support = "none", NEW u \in 1..TurnSlots
      PROVE  checks'[d].turns[u] \in {"none", "unrecorded"}
  BY <1>4, <1>5, <1>9 DEF EvidenceInv, IndependenceIsEarned
<1>10. ASSUME NEW d \in Checks, NEW u \in 1..TurnSlots
       PROVE  /\ checks'[d].turns[u] = "none" => "followup" \notin Before(d, u)
              /\ checks'[d].turns[u] \in {"hint", "followup"} => checks'[d].turns[u] \in Before(d, u)
  <2>1. CASE checks'[d].turns[u] = checks[d].turns[u]
    BY <2>1 DEF EvidenceInv, IndependenceIsEarned
  <2>2. CASE d = c /\ u = t /\ checks'[d].turns[u] = kind
    BY <1>7, <1>8, <2>2
  <2> QED BY <1>4, <1>5, <2>1, <2>2
<1>11. IndependenceIsEarned'
  BY <1>3, <1>9, <1>10 DEF IndependenceIsEarned
<1>12. RecordedInOrder'
  <2>1. ASSUME NEW d \in Checks, NEW u \in 1..TurnSlots, checks'[d].turns[u] # "unrecorded"
        PROVE  u <= turns
    BY <1>3, <1>4, <1>5, <2>1 DEF EvidenceInv, RecordedInOrder
  <2> QED BY <1>3, <2>1 DEF EvidenceInv, RecordedInOrder
<1> QED BY <1>11, <1>12 DEF EvidenceInv

LEMMA EvidenceInvStep == TaskTypeOK /\ EvidenceInv /\ [TaskNext]_taskVars => EvidenceInv'
<1> SUFFICES ASSUME TaskTypeOK, EvidenceInv, [TaskNext]_taskVars PROVE EvidenceInv'
  OBVIOUS
<1>1. ASSUME UNCHANGED <<support, turns, checks>> PROVE EvidenceInv'
  BY <1>1 DEF EvidenceInv, RecordedInOrder, IndependenceIsEarned
<1>2. CASE Start \/ PageLeaves \/ PageReturns \/ TimePasses \/ TickRoom \/ Edit
  BY <1>1, <1>2 DEF Start, PageLeaves, PageReturns, TimePasses, TickRoom, Edit, checkVars
<1>3. CASE Expire \/ Lose \/ End \/ LoseRoom \/ CompleteTask
  BY <1>1, <1>3 DEF Expire, Lose, End, LoseRoom, CompleteTask, Conclude, checkVars
<1>4. CASE \E kind \in {"capture-run", "capture-discuss", "capture-finish"} :
             \E m \in Messages(kind) : Capture(m) \/ RefuseCapture(m)
  BY <1>1, <1>4 DEF Capture, RefuseCapture, checkVars
<1>5. CASE \/ \E m \in Messages("run") : Run(m)
           \/ \E m \in Messages("discuss") : Discuss(m)
           \/ \E m \in Messages("finish") : FinishTask(m) \/ FinishAgain(m)
  BY <1>1, <1>5 DEF Run, Discuss, FinishTask, FinishAgain, checkVars
<1>6. CASE \E m \in Messages("hint") : Hint(m)
  <2>1. UNCHANGED <<turns, checks>> /\ support' \in {support, support \union {OfferNext("hint", NoCheck)}}
    BY <1>6 DEF Hint
  <2> QED BY <1>1, <2>1, OfferIsLater, TaskLimits
<1>7. CASE \E c \in Checks : FollowUp(c)
  <2>1. PICK c \in Checks : FollowUp(c)
    BY <1>7
  <2>2. UNCHANGED <<turns, checks>> /\ support' = support \union {OfferNext("followup", c)}
    BY <2>1 DEF FollowUp
  <2> QED BY <2>2, OfferIsLater
<1>8. CASE Turn
  <2>1. UNCHANGED <<support, checks>> /\ turns' \in {turns, turns + 1} /\ turns \in Nat
    BY <1>8 DEF Turn, TaskTypeOK, CheckTypeOK
  <2>2. \A n \in Nat : n <= turns => n <= turns'
    BY <2>1
  <2>3. \A s \in support : s.after \in Nat
    BY TaskLimits DEF TaskTypeOK, CheckTypeOK, Offer
  <2>4. RecordedInOrder'
    BY <2>1, <2>2, <2>3, TaskLimits DEF EvidenceInv, RecordedInOrder
  <2>5. IndependenceIsEarned'
    BY <2>1 DEF EvidenceInv, IndependenceIsEarned
  <2> QED BY <2>4, <2>5 DEF EvidenceInv
<1>9. CASE \E c \in Checks, t \in 1..TurnSlots, r \in Revisions : RecordCheck(c, t, r)
  BY <1>9, RecordIsEarned
<1>10. CASE \E r \in Revisions : RefuseCheck(r)
  BY <1>1, <1>10 DEF RefuseCheck, checkVars
<1>11. CASE UNCHANGED taskVars
  BY <1>1, <1>11 DEF taskVars, checkVars
<1> QED BY <1>2, <1>3, <1>4, <1>5, <1>6, <1>7, <1>8, <1>9, <1>10, <1>11 DEF TaskNext

\* Evidence counts as independent, or as supported, for what was offered before
\* its turn and never for what was offered later.
THEOREM EvidenceIsEarned == TaskSpec => []IndependenceIsEarned
<1>1. EvidenceInv => IndependenceIsEarned
  BY DEF EvidenceInv
<1> QED BY TaskTypes, EvidenceInvInit, EvidenceInvStep, <1>1, PTL DEF TaskSpec

(***************************************************************************)
(* The ends, the deadline and the retries                                  *)
(***************************************************************************)

LEMMA EndsInit == TaskInit => EndsTogether
BY DEF TaskInit, EndsTogether

\* Only a conclusion says how an attempt ended, and nothing starts it again.
LEMMA EndsStep == CodeInv /\ EndsTogether /\ [TaskNext]_taskVars => EndsTogether'
<1> SUFFICES ASSUME CodeInv, EndsTogether, [TaskNext]_taskVars PROVE EndsTogether'
  OBVIOUS
<1>1. attempt \in Attempt /\ current # NoRevision
  BY SnapshotsAreFinite DEF CodeInv, TaskTypeOK, CodeTypeOK
<1>2. ASSUME UNCHANGED attempt PROVE EndsTogether'
  BY <1>2 DEF EndsTogether, Frozen
<1>3. CASE Expire \/ Lose \/ End \/ LoseRoom \/ CompleteTask
  <2>1. attempt'.phase = "feedback" /\ Frozen'
    BY <1>3, EndsKeepCode, ConcludeKeeps DEF CodeInv
  <2> QED BY <2>1 DEF EndsTogether
<1>4. CASE Start \/ TimePasses \/ TickRoom
  <2>1. CASE Start
    BY <1>1, <2>1 DEF Start, EndsTogether, Attempt, Frozen
  <2>2. CASE TimePasses
    BY <1>1, <2>2 DEF TimePasses, EndsTogether, Attempt, Frozen
  <2>3. CASE TickRoom
    <3>1. CASE attempt' = [attempt EXCEPT !.phase = "wrap-up"] /\ attempt.phase = "work"
      BY <1>1, <3>1 DEF EndsTogether, Attempt, Frozen
    <3>2. CASE UNCHANGED attempt
      BY <1>2, <3>2
    <3> QED BY <2>3, <3>1, <3>2 DEF TickRoom
  <2> QED BY <1>4, <2>1, <2>2, <2>3
<1>5. CASE \E m \in Messages("finish") : FinishTask(m)
  BY <1>1, <1>5 DEF FinishTask, EndsTogether, Attempt, Frozen, Active
<1> QED BY <1>2, <1>3, <1>4, <1>5
        DEF TaskNext, PageLeaves, PageReturns, Edit, Capture, RefuseCapture, Run, Hint, Discuss,
            FinishAgain, Turn, FollowUp, RecordCheck, RefuseCheck, taskVars

\* What one step may not do twice, nor late.
OneEffect ==
    /\ current' >= current
    /\ (Offered("hint")' # Offered("hint") \/ runs' # runs \/ waiting'.left > waiting.left)
         => requests' # requests
    /\ Overdue \/ attempt.phase = "feedback" =>
         /\ UNCHANGED <<current, runs, checkVars>>
         /\ revisions' \subseteq revisions \union {current}
    /\ Frozen => attempt'.final = attempt.final
    /\ attempt.outcome # "none" =>
         attempt'.outcome = attempt.outcome

\* A step that does nothing to the code and the offers.
LEMMA NoEffect ==
    ASSUME CodeInv, current' = current, UNCHANGED <<runs, checkVars>>,
           waiting'.left <= waiting.left, waiting'.left \in Nat,
           revisions' \subseteq revisions \union {current},
           Frozen => attempt'.final = attempt.final,
           attempt.outcome # "none" => attempt'.outcome = attempt.outcome
    PROVE  OneEffect
<1>1. current \in Nat /\ waiting.left \in Nat
  BY TaskLimits DEF CodeInv, TaskTypeOK, CodeTypeOK, Revisions, Waiting
<1>2. Offered("hint")' = Offered("hint")
  BY DEF Offered, checkVars
<1> QED BY <1>1, <1>2 DEF OneEffect, checkVars

\* A message that is accepted is accepted once, while the attempt is active and
\* not overdue.
LEMMA OncePerRequest ==
    ASSUME CodeInv, requests' # requests, Active, NothingDue, current' >= current,
           Frozen => attempt'.final = attempt.final,
           attempt.outcome # "none" => attempt'.outcome = attempt.outcome
    PROVE  OneEffect
BY DEF OneEffect, NothingDue, Active

\* Turns and evidence come while the attempt is active and not overdue too.
LEMMA OnlyWhileActive ==
    ASSUME CodeInv, Active, NothingDue, UNCHANGED <<attempt, current, runs, waiting>>,
           Offered("hint")' = Offered("hint")
    PROVE  OneEffect
<1>1. current \in Nat /\ waiting.left \in Nat
  BY TaskLimits DEF CodeInv, TaskTypeOK, CodeTypeOK, Revisions, Waiting
<1> QED BY <1>1 DEF OneEffect, NothingDue, Active

LEMMA OneEffectStep == CodeInv /\ EndsTogether /\ [TaskNext]_taskVars => [OneEffect]_taskVars
<1> SUFFICES ASSUME CodeInv, EndsTogether, TaskNext PROVE OneEffect
  OBVIOUS
<1>1. /\ attempt \in Attempt /\ waiting \in Waiting /\ waiting.left \in Nat
      /\ current \in Revisions /\ current \in Nat
  BY TaskLimits DEF CodeInv, TaskTypeOK, CodeTypeOK, Revisions, Waiting
<1>2. StillWaiting.left \in Nat /\ StillWaiting.left <= waiting.left
  BY <1>1 DEF StillWaiting
<1>3. CountDown(waiting.left) \in Nat /\ CountDown(waiting.left) <= waiting.left
  BY <1>1 DEF CountDown
<1>4. CASE Start \/ PageLeaves \/ PageReturns \/ TickRoom
  <2>1. UNCHANGED <<current, revisions, runs, checkVars>> /\ waiting' \in {waiting, StillWaiting}
    BY <1>4 DEF Start, PageLeaves, PageReturns, TickRoom, codeVars
  <2>2. attempt' \in {attempt, [attempt EXCEPT !.phase = "work"], [attempt EXCEPT !.phase = "wrap-up"]}
    BY <1>4 DEF Start, PageLeaves, PageReturns, TickRoom
  <2>3. attempt'.final = attempt.final /\ attempt'.outcome = attempt.outcome
    BY <1>1, <2>2 DEF Attempt
  <2> QED BY <1>1, <1>2, <2>1, <2>3, NoEffect
<1>5. CASE TimePasses
  <2>1. /\ UNCHANGED <<current, revisions, runs, checkVars>>
        /\ waiting'.left = CountDown(waiting.left)
        /\ attempt'.final = attempt.final /\ attempt'.outcome = attempt.outcome
    BY <1>1, <1>5 DEF TimePasses, Attempt, Waiting
  <2> QED BY <1>1, <1>3, <2>1, NoEffect
<1>6. CASE Expire \/ Lose \/ End \/ LoseRoom \/ CompleteTask
  <2>1. PICK outcome \in {"short", "completed"} : Conclude(outcome) /\ UNCHANGED page
    BY <1>6, EndsKeepCode
  <2>2. /\ waiting'.left <= waiting.left /\ TaskTypeOK'
        /\ revisions' \subseteq revisions \union {current}
        /\ attempt.phase # "feedback" /\ (Frozen => attempt'.final = attempt.final)
        /\ UNCHANGED <<current, runs, checkVars>>
    BY <2>1, ConcludeKeeps DEF CodeInv
  <2>3. waiting'.left \in Nat
    BY <2>2 DEF TaskTypeOK, CodeTypeOK, Waiting
  <2>4. attempt.outcome = "none"
    BY <2>2 DEF EndsTogether
  <2> QED BY <2>2, <2>3, <2>4, NoEffect
<1>7. CASE Edit
  <2>1. Active /\ NothingDue /\ current' = current + 1 /\ UNCHANGED <<attempt, runs, waiting, support>>
    BY <1>7 DEF Edit, checkVars
  <2> QED BY <1>1, <2>1 DEF OneEffect, Active, NothingDue, Offered
<1>8. ASSUME NEW kind \in {"capture-run", "capture-discuss", "capture-finish"},
             NEW m \in Messages(kind), Capture(m)
      PROVE  OneEffect
  <2>1. Arrives(m) /\ TakeRequest(m) /\ Active /\ current' = m.revision /\ UNCHANGED attempt
    BY <1>8 DEF Capture, MayCapture
  <2>2. kind \in Kinds /\ kind # "hint"
    BY DEF Kinds
  <2>3. m.revision >= current /\ requests' # requests
    BY <2>1, <2>2, MessageTypes, RequestTaken DEF Arrives, NewRequest, CodeInv
  <2> QED BY <2>1, <2>3, OncePerRequest DEF Arrives
<1>9. ASSUME NEW m, RefuseCapture(m) PROVE OneEffect
  <2>1. /\ UNCHANGED <<attempt, current, revisions, runs, checkVars>> /\ waiting' = StillWaiting
    BY <1>9 DEF RefuseCapture, StoreFails
  <2> QED BY <1>1, <1>2, <2>1, NoEffect
<1>10. ASSUME NEW kind \in {"run", "hint", "discuss", "finish"}, NEW m \in Messages(kind),
              Run(m) \/ Hint(m) \/ Discuss(m) \/ FinishTask(m)
       PROVE  OneEffect
  <2>1. CASE TakeRequest(m)
    <3>1. Arrives(m) /\ Active /\ UNCHANGED current
      BY <1>10 DEF Run, Hint, Discuss, FinishTask, codeVars
    <3>2. requests' # requests
      BY <2>1, <3>1, RequestTaken DEF CodeInv, Kinds
    <3>3. /\ Frozen => attempt'.final = attempt.final
          /\ attempt'.outcome = attempt.outcome
      BY <1>1, <1>10 DEF Run, Hint, Discuss, FinishTask, Attempt
    <3> QED BY <1>1, <2>1, <3>1, <3>2, <3>3, OncePerRequest DEF Arrives
  <2>2. CASE StoreFails(current, FreeSlots, waiting.revision) /\ Discuss(m)
    <3>1. UNCHANGED <<attempt, current, revisions, waiting, runs, checkVars>>
      BY <2>2 DEF Discuss, StoreFails
    <3> QED BY <1>1, <3>1, NoEffect
  <2> QED BY <1>10, <2>1, <2>2 DEF Run, Hint, Discuss, FinishTask
<1>11. ASSUME NEW m, FinishAgain(m) PROVE OneEffect
  <2>1. UNCHANGED <<attempt, current, revisions, waiting, runs, checkVars>>
    BY <1>11 DEF FinishAgain, codeVars
  <2> QED BY <1>1, <2>1, NoEffect
<1>12. CASE Turn \/ (\E c \in Checks, t \in 1..TurnSlots, r \in Revisions : RecordCheck(c, t, r))
             \/ (\E r \in Revisions : RefuseCheck(r))
  <2>1. Active /\ NothingDue /\ UNCHANGED <<attempt, current, runs, waiting, support>>
    BY <1>12 DEF Turn, RecordCheck, RefuseCheck, checkVars
  <2>2. Offered("hint")' = Offered("hint")
    BY <2>1 DEF Offered
  <2> QED BY <2>1, <2>2, OnlyWhileActive
<1>13. ASSUME NEW c \in Checks, FollowUp(c) PROVE OneEffect
  <2>1. /\ Active /\ NothingDue /\ UNCHANGED <<attempt, current, runs, waiting>>
        /\ support' = support \union {OfferNext("followup", c)}
    BY <1>13 DEF FollowUp, codeVars
  <2>2. {s \in support' : s.kind = "hint"} = {s \in support : s.kind = "hint"}
    BY <2>1, OfferTaken DEF CodeInv
  <2>3. Offered("hint")' = Offered("hint")
    BY <2>2 DEF Offered
  <2> QED BY <2>1, <2>3, OnlyWhileActive
<1> QED BY <1>4, <1>5, <1>6, <1>7, <1>8, <1>9, <1>10, <1>11, <1>12, <1>13 DEF TaskNext

\* A message that comes again has no second effect, and one that comes too late
\* has none.
THEOREM EffectsHappenOnce == TaskSpec => EffectsAreOnce
<1>1. [][OneEffect]_taskVars => EffectsAreOnce
  BY PTL DEF OneEffect, EffectsAreOnce
<1> QED BY CodeInvInit, CodeInvStep, EndsInit, EndsStep, OneEffectStep, <1>1, PTL DEF TaskSpec

(***************************************************************************)
(* The room of an attempt (TaskRoom).                                      *)
(***************************************************************************)
RoomPhases == {"ready", "work", "wrap-up", "feedback", "ended"}
Stage == [phase : RoomPhases, finished : BOOLEAN]
Voice == [speech : BOOLEAN, reply : BOOLEAN, muted : BOOLEAN, recording : BOOLEAN]
Asked == [reserved : SUBSET Questions, any : BOOLEAN]
History == [hints : 0..Hints, questions : SUBSET Questions, heard : SUBSET Request]

\* `told' is what the page was told, and `budget' what is left to try: neither
\* is read by anything below.
RoomTypeOK ==
    /\ stage \in Stage
    /\ present \in BOOLEAN /\ alive \in BOOLEAN
    /\ voice \in Voice
    /\ queue \in Seq(Request)
    /\ inbox \subseteq Request
    /\ unanswered \in Request \union {Nothing}
    /\ asked \in Asked
    /\ history \in History

(***************************************************************************)
(* Requests and the queue                                                  *)
(***************************************************************************)

\* Hints, questions, notices and nothing are told apart.
LEMMA RequestsDiffer ==
    /\ Nothing \notin Request /\ Notice \in Request /\ Questions \subseteq Request
    /\ Notice \notin Questions /\ \A n \in Nat : n \notin Questions /\ n # Notice
    /\ \A n \in 1..Hints : n \in Request
BY RoomLimits DEF Request

\* What a queue holds after a request is added, ...
LEMMA AppendAdds ==
    ASSUME NEW q \in Seq(Request), NEW r \in Request
    PROVE  Append(q, r) \in Seq(Request) /\ ToSet(Append(q, r)) = ToSet(q) \union {r}
<1>1. Append(q, r) \in Seq(Request)
  OBVIOUS
<1>2. \A i \in 1..Len(q) : Append(q, r)[i] = q[i]
  OBVIOUS
<1>3. Len(Append(q, r)) = Len(q) + 1 /\ Append(q, r)[Len(q) + 1] = r /\ Len(q) \in Nat
  OBVIOUS
<1>4. 1..(Len(q) + 1) = 1..Len(q) \union {Len(q) + 1}
  BY <1>3
<1>5. DOMAIN Append(q, r) = 1..(Len(q) + 1) /\ DOMAIN q = 1..Len(q)
  BY <1>1, <1>3
<1> QED BY <1>1, <1>2, <1>3, <1>4, <1>5 DEF ToSet

\* ... what one holds that is put after a request, ...
LEMMA PrependAdds ==
    ASSUME NEW q \in Seq(Request), NEW r \in Request
    PROVE  <<r>> \o q \in Seq(Request) /\ ToSet(<<r>> \o q) = ToSet(q) \union {r}
<1> DEFINE s == <<r>> \o q
<1>1. s \in Seq(Request) /\ Len(s) = Len(q) + 1 /\ Len(q) \in Nat
  OBVIOUS
<1>2. s[1] = r /\ \A i \in 1..Len(q) : s[i + 1] = q[i]
  OBVIOUS
<1>3. \A j \in 1..Len(s) : j = 1 \/ \E i \in 1..Len(q) : j = i + 1
  <2> TAKE j \in 1..Len(s)
  <2>1. j # 1 => j - 1 \in 1..Len(q) /\ j = (j - 1) + 1
    BY <1>1
  <2> QED BY <2>1
<1>4. DOMAIN s = 1..Len(s) /\ DOMAIN q = 1..Len(q)
  BY <1>1
<1>5. 1 \in 1..Len(s) /\ \A i \in 1..Len(q) : i + 1 \in 1..Len(s)
  BY <1>1
<1> HIDE DEF s
<1>6. \A j \in DOMAIN s : s[j] \in ToSet(q) \union {r}
  BY <1>2, <1>3, <1>4 DEF ToSet
<1>7. r \in ToSet(s) /\ \A i \in DOMAIN q : q[i] \in ToSet(s)
  BY <1>2, <1>4, <1>5 DEF ToSet
<1>8. ToSet(s) = ToSet(q) \union {r}
  BY <1>6, <1>7 DEF ToSet
<1> QED BY <1>1, <1>8 DEF s

\* ... and what is left of one once some of it was sent.
LEMMA RestRemains ==
    ASSUME NEW q \in Seq(Request), NEW sent \in 0..Len(q)
    PROVE  /\ SubSeq(q, sent + 1, Len(q)) \in Seq(Request)
           /\ ToSet(SubSeq(q, sent + 1, Len(q))) \subseteq ToSet(q)
<1> DEFINE s == SubSeq(q, sent + 1, Len(q))
<1>1. s \in Seq(Request) /\ Len(s) = Len(q) - sent /\ Len(q) \in Nat
  OBVIOUS
<1>2. \A i \in 1..Len(s) : i + sent \in 1..Len(q) /\ s[i] = q[i + sent]
  <2> TAKE i \in 1..Len(s)
  <2>1. i + sent \in 1..Len(q)
    BY <1>1
  <2>2. s[i] = q[(sent + 1) + i - 1]
    BY <1>1
  <2>3. (sent + 1) + i - 1 = i + sent
    BY <1>1
  <2> QED BY <2>1, <2>2, <2>3
<1>3. DOMAIN s = 1..Len(s) /\ DOMAIN q = 1..Len(q)
  BY <1>1
<1> HIDE DEF s
<1>4. ToSet(s) \subseteq ToSet(q)
  BY <1>2, <1>3 DEF ToSet
<1> QED BY <1>1, <1>4 DEF s

LEMMA QueueTypes ==
    /\ <<>> \in Seq(Request) /\ ToSet(<<>>) = {}
    /\ \A q \in Seq(Request) : ToSet(q) \subseteq Request
BY DEF ToSet

\* What a replacement socket is to be given.
LEMMA OwedType ==
    ASSUME RoomTypeOK
    PROVE  /\ Owed \in Seq(Request)
           /\ ToSet(Owed) \subseteq ToSet(queue) \union ({unanswered} \ {Nothing})
<1>1. CASE unanswered = Nothing \/ voice.reply
  BY <1>1 DEF Owed, RoomTypeOK
<1>2. CASE ~(unanswered = Nothing \/ voice.reply)
  BY <1>2, PrependAdds DEF Owed, RoomTypeOK
<1> QED BY <1>1, <1>2

\* What a request of the platform does: it reaches the socket, or the socket is
\* lost and it waits in the queue.
LEMMA SendOutcomes ==
    ASSUME RoomTypeOK, NEW r \in Request, SendOrQueue(r)
    PROVE  /\ alive' \in BOOLEAN /\ (alive' => alive)
           /\ queue' \in Seq(Request) /\ inbox' \subseteq Request
           /\ unanswered' \in Request \union {Nothing}
           /\ \/ alive' /\ inbox' = inbox \union {r} /\ queue' = queue /\ unanswered' = r
              \/ /\ inbox' = {} /\ ToSet(queue') = ToSet(queue) \union {r}
                 /\ unanswered' = unanswered
<1>1. CASE alive /\ inbox' = inbox \union {r} /\ unanswered' = r /\ UNCHANGED <<alive, queue>>
  BY <1>1 DEF RoomTypeOK
<1>2. CASE SocketLost /\ queue' = Append(queue, r) /\ UNCHANGED unanswered
  BY <1>2, AppendAdds DEF RoomTypeOK, SocketLost
<1> QED BY <1>1, <1>2 DEF SendOrQueue

(***************************************************************************)
(* Types                                                                   *)
(***************************************************************************)

LEMMA RoomTypeInit == RoomInit => RoomTypeOK
<1>1. 0 \in 0..Hints
  BY RoomLimits
<1> QED
  BY <1>1, QueueTypes DEF RoomInit, RoomTypeOK, Stage, RoomPhases, Voice, Asked, History

LEMMA RoomTypeStep == RoomTypeOK /\ [RoomNext]_roomVars => RoomTypeOK'
<1> SUFFICES ASSUME RoomTypeOK, [RoomNext]_roomVars PROVE RoomTypeOK'
  OBVIOUS
<1> USE DEF RoomTypeOK
<1>1. ASSUME BeginWork \/ Prompt \/ ConfirmFinish PROVE RoomTypeOK'
  <2>1. SendOrQueue(Notice) /\ UNCHANGED <<present, voice, asked, history>>
    BY <1>1 DEF BeginWork, Prompt, ConfirmFinish
  <2>2. stage' \in Stage
    <3>1. CASE BeginWork
      BY <3>1 DEF BeginWork, RoomPhases, Stage
    <3>2. CASE Prompt
      BY <3>2 DEF Prompt
    <3>3. CASE ConfirmFinish
      BY <3>3 DEF ConfirmFinish, RoomPhases, Stage
    <3> QED BY <1>1, <3>1, <3>2, <3>3
  <2> QED BY <2>1, <2>2, SendOutcomes, RequestsDiffer
<1>2. ASSUME AskForHint PROVE RoomTypeOK'
  <2>1. /\ history.hints + 1 \in 1..Hints /\ history.hints + 1 \in 0..Hints
        /\ SendOrQueue(history.hints + 1)
        /\ history' = [history EXCEPT !.hints = @ + 1]
    BY <1>2, RoomLimits DEF AskForHint, History
  <2>2. history.hints + 1 \in Request
    BY <2>1, RequestsDiffer
  <2>3. history' \in History
    BY <2>1 DEF History
  <2> QED BY <1>2, <2>1, <2>2, <2>3, SendOutcomes DEF AskForHint
<1>3. ASSUME BeginWrapUp PROVE RoomTypeOK'
  <2>1. stage' \in Stage
    BY <1>3 DEF BeginWrapUp, Stage, RoomPhases
  <2>2. CASE present
    BY <1>3, <2>1, <2>2, SendOutcomes, RequestsDiffer DEF BeginWrapUp
  <2>3. CASE ~present
    BY <1>3, <2>1, <2>3, AppendAdds, RequestsDiffer DEF BeginWrapUp
  <2> QED BY <2>2, <2>3
<1>4. ASSUME AskWrapUp PROVE RoomTypeOK'
  <2>1. voice' \in Voice
    BY <1>4 DEF AskWrapUp, AfterRecording, Voice
  <2>2. PICK q \in Questions \ asked.reserved :
            \/ /\ asked' = [reserved |-> asked.reserved \union {q}, any |-> TRUE]
               /\ history' = [history EXCEPT !.questions = @ \union {q}]
               /\ inbox' = inbox \union {q} /\ unanswered' = q /\ UNCHANGED alive
            \/ /\ asked' = [asked EXCEPT !.reserved = GivenBack(q)]
               /\ SocketLost /\ UNCHANGED <<unanswered, history>>
    BY <1>4 DEF AskWrapUp
  <2>3. q \in Request
    BY RequestsDiffer
  <2>4. /\ asked' \in Asked
        /\ history' \in History
        /\ inbox' \subseteq Request /\ unanswered' \in Request \union {Nothing}
        /\ alive' \in BOOLEAN
    <3>1. CASE /\ asked' = [reserved |-> asked.reserved \union {q}, any |-> TRUE]
               /\ history' = [history EXCEPT !.questions = @ \union {q}]
               /\ inbox' = inbox \union {q} /\ unanswered' = q /\ UNCHANGED alive
      BY <2>3, <3>1 DEF Asked, History
    <3>2. CASE /\ asked' = [asked EXCEPT !.reserved = GivenBack(q)]
               /\ SocketLost /\ UNCHANGED <<unanswered, history>>
      BY <3>2 DEF GivenBack, SocketLost, Asked
    <3> QED BY <2>2, <3>1, <3>2
  <2> QED BY <1>4, <2>1, <2>4 DEF AskWrapUp
<1>5. ASSUME AskNothing \/ EndWithoutInterviewer \/ EndOtherwise PROVE RoomTypeOK'
  <2>1. stage' \in Stage
    BY <1>5 DEF AskNothing, EndWithoutInterviewer, EndOtherwise, RoomPhases, Stage
  <2>2. voice' \in Voice
    BY <1>5 DEF AskNothing, EndWithoutInterviewer, EndOtherwise, AfterRecording, Voice
  <2> QED BY <1>5, <2>1, <2>2
          DEF AskNothing, EndWithoutInterviewer, EndOtherwise
<1>6. ASSUME PageGoes \/ PageComesBack \/ SocketCloses \/ LearnerSpeaks PROVE RoomTypeOK'
  <2>1. voice' \in Voice
    BY <1>6 DEF PageGoes, PageComesBack, SocketCloses, LearnerSpeaks, Voice
  <2>2. present' \in BOOLEAN /\ alive' \in BOOLEAN /\ inbox' \subseteq Request
    BY <1>6 DEF PageGoes, PageComesBack, SocketCloses, LearnerSpeaks, SocketLost
  <2> QED BY <1>6, <2>1, <2>2 DEF PageGoes, PageComesBack, SocketCloses, LearnerSpeaks
<1>7. ASSUME ReplyBegins PROVE RoomTypeOK'
  <2>1. voice' \in Voice
    BY <1>7 DEF ReplyBegins, Voice
  <2>2. history' \in History
    BY <1>7 DEF ReplyBegins, History
  <2> QED BY <1>7, <2>1, <2>2 DEF ReplyBegins, OwedAfterOutput
<1>8. ASSUME ReplyContinues \/ TurnCompletes PROVE RoomTypeOK'
  <2>1. voice' \in Voice
    <3>1. RecordNow \in BOOLEAN
      BY DEF RecordNow, Voice, Asked
    <3>2. \A b \in BOOLEAN :
             [speech |-> FALSE, reply |-> FALSE, muted |-> b, recording |-> b] \in Voice
      BY DEF Voice
    <3>3. CASE TurnCompletes
      <4>1. \E b \in BOOLEAN :
               voice' = [speech |-> FALSE, reply |-> FALSE, muted |-> b, recording |-> b]
        BY <3>1, <3>3, Zenon DEF TurnCompletes
      <4> QED BY <3>2, <4>1
    <3>4. CASE ReplyContinues
      BY <3>4 DEF ReplyContinues
    <3> QED BY <1>8, <3>3, <3>4
  <2> QED BY <1>8, <2>1 DEF ReplyContinues, TurnCompletes, OwedAfterOutput, SocketLost
<1>9. ASSUME BriefingFails PROVE RoomTypeOK'
  <2>1. PICK sent \in 0..Len(Owed) : queue' = SubSeq(Owed, sent + 1, Len(Owed))
    BY <1>9 DEF BriefingFails
  <2>2. queue' \in Seq(Request)
    BY <2>1, OwedType, RestRemains
  <2>3. voice' \in Voice
    BY <1>9 DEF BriefingFails, Voice
  <2> QED BY <1>9, <2>2, <2>3 DEF BriefingFails
<1>10. ASSUME ReplaceSocket PROVE RoomTypeOK'
  <2>1. /\ inbox' = ToSet(Owed) /\ inbox' \subseteq Request
        /\ queue' \in Seq(Request) /\ unanswered' = Nothing /\ alive' = TRUE
    BY <1>10, OwedType, QueueTypes DEF ReplaceSocket
  <2>2. voice' \in Voice
    BY <1>10 DEF ReplaceSocket, Unmuted, Voice
  <2> QED BY <1>10, <2>1, <2>2 DEF ReplaceSocket
<1>11. CASE OtherMessage \/ WaitForSocket \/ ReplacementFails \/ UNCHANGED roomVars
  BY <1>11 DEF OtherMessage, WaitForSocket, ReplacementFails, roomVars
<1> QED
  BY <1>1, <1>2, <1>3, <1>4, <1>5, <1>6, <1>7, <1>8, <1>9, <1>10, <1>11 DEF RoomNext

(***************************************************************************)
(* The mute                                                                *)
(***************************************************************************)

\* Nothing mutes the interviewer before work begins, which is why a page that
\* comes back before that needs no new socket.
MuteInv == (stage.phase = "ready" => ~voice.muted) /\ NotMutedForNothing

\* The steps that leave the voice alone, and open no socket.
LEMMA MuteStaysWithVoice ==
    ASSUME RoomTypeOK, MuteInv, voice' = voice, present' = present, alive' => alive,
           stage'.phase = "ready" => stage.phase = "ready",
           stage'.phase \in {"work", "wrap-up"} => Ongoing
    PROVE  MuteInv'
BY DEF RoomTypeOK, MuteInv, NotMutedForNothing, Working, Ongoing

LEMMA MuteInvStep == RoomTypeOK /\ MuteInv /\ [RoomNext]_roomVars => MuteInv'
<1> SUFFICES ASSUME RoomTypeOK, MuteInv, [RoomNext]_roomVars PROVE MuteInv'
  OBVIOUS
<1>0. stage \in Stage /\ voice \in Voice
  BY DEF RoomTypeOK
<1>1. CASE BeginWork \/ Prompt \/ ConfirmFinish
  <2>1. SendOrQueue(Notice) /\ UNCHANGED <<present, voice>>
    BY <1>1 DEF BeginWork, Prompt, ConfirmFinish
  <2>2. /\ stage'.phase = "ready" => stage.phase = "ready"
        /\ stage'.phase \in {"work", "wrap-up"} => Ongoing
    BY <1>0, <1>1 DEF BeginWork, Prompt, ConfirmFinish, Working, Ongoing, Stage
  <2> QED BY <2>1, <2>2, SendOutcomes, RequestsDiffer, MuteStaysWithVoice
<1>2. CASE AskForHint
  <2>1. alive' => alive
    BY <1>2 DEF AskForHint, SendOrQueue, SocketLost
  <2> QED BY <1>2, <2>1, MuteStaysWithVoice DEF AskForHint, Working, Ongoing
<1>3. CASE BeginWrapUp
  <2>1. alive' => alive
    BY <1>3 DEF BeginWrapUp, SendOrQueue, SocketLost
  <2> QED BY <1>0, <1>3, <2>1, MuteStaysWithVoice DEF BeginWrapUp, Ongoing, Stage
<1>4. CASE AskWrapUp \/ AskNothing
  <2>1. /\ stage.phase = "wrap-up" /\ present /\ alive /\ voice' = AfterRecording
        /\ stage'.phase # "ready"
    BY <1>0, <1>4 DEF AskWrapUp, AskNothing, MayAsk, Stage
  <2>2. ~voice'.muted
    BY <1>0, <2>1 DEF AfterRecording, MuteInv, NotMutedForNothing, Working, Voice
  <2> QED BY <2>1, <2>2 DEF MuteInv, NotMutedForNothing
<1>5. CASE EndWithoutInterviewer \/ EndOtherwise
  BY <1>0, <1>5, MuteStaysWithVoice DEF EndWithoutInterviewer, EndOtherwise, Stage
<1>6. CASE PageGoes
  BY <1>0, <1>6 DEF PageGoes, MuteInv, NotMutedForNothing, Voice
<1>7. CASE PageComesBack
  BY <1>0, <1>7 DEF PageComesBack, SocketLost, MuteInv, NotMutedForNothing, Working
<1>8. CASE SocketCloses
  BY <1>8, MuteStaysWithVoice DEF SocketCloses, SocketLost, Working, Ongoing
<1>9. CASE LearnerSpeaks
  BY <1>0, <1>9 DEF LearnerSpeaks, MuteInv, NotMutedForNothing, Working, Voice
<1>10. CASE ReplyBegins
  <2>1. voice'.muted = voice.muted /\ voice'.recording = voice.recording
    BY <1>0, <1>10 DEF ReplyBegins, Voice
  <2> QED BY <1>10, <2>1 DEF ReplyBegins, MuteInv, NotMutedForNothing, Working
<1>11. CASE TurnCompletes
  <2>1. voice'.muted => voice'.recording /\ stage.phase = "wrap-up"
    <3>1. RecordNow \in BOOLEAN /\ (RecordNow => stage.phase = "wrap-up")
      BY DEF RecordNow, RoomTypeOK, Voice, Asked
    <3>2. \E b \in BOOLEAN :
             /\ voice' = [speech |-> FALSE, reply |-> FALSE, muted |-> b, recording |-> b]
             /\ b => RecordNow
      BY <1>11, <3>1, Zenon DEF TurnCompletes
    <3> QED BY <3>1, <3>2
  <2> QED BY <1>11, <2>1 DEF TurnCompletes, MuteInv, NotMutedForNothing
<1>12. CASE BriefingFails
  BY <1>0, <1>12 DEF BriefingFails, MayReplace, MuteInv, NotMutedForNothing, Voice
<1>13. CASE ReplaceSocket
  BY <1>0, <1>13 DEF ReplaceSocket, Unmuted, MuteInv, NotMutedForNothing, Voice
<1>14. CASE OtherMessage \/ ReplyContinues \/ WaitForSocket \/ ReplacementFails \/ UNCHANGED roomVars
  BY <1>14, MuteStaysWithVoice
  DEF OtherMessage, ReplyContinues, WaitForSocket, ReplacementFails, roomVars, Working, Ongoing
<1> QED
  BY <1>1, <1>2, <1>3, <1>4, <1>5, <1>6, <1>7, <1>8, <1>9, <1>10, <1>11, <1>12, <1>13, <1>14
  DEF RoomNext

LEMMA RoomStartsUnmuted == RoomInit => MuteInv
BY DEF RoomInit, MuteInv, NotMutedForNothing, Working

\* The stage, the mute, the queues and what was asked of the socket stay well typed,
\* whatever page, model, room and clock do.
THEOREM RoomIsTyped == RoomSpec => []RoomTypeOK
BY RoomTypeInit, RoomTypeStep, PTL DEF RoomSpec

\* Whatever muted the interviewer, a learner in the room with an open socket is
\* muted only while a silent recording is outstanding.
THEOREM MutedToRecord == RoomSpec => []NotMutedForNothing
<1>1. MuteInv => NotMutedForNothing
  BY DEF MuteInv
<1> QED
  BY <1>1, RoomTypeInit, RoomTypeStep, RoomStartsUnmuted, MuteInvStep, PTL DEF RoomSpec

(***************************************************************************)
(* The wrap-up questions                                                   *)
(***************************************************************************)

QuestionInv == QuestionsAreAsked /\ IsFiniteSet(history.questions)

\* An attempt that is over opens no socket and asks nothing, and while it goes on
\* only a question changes what was asked.
LEMMA QuestionsStayAsked ==
    ASSUME QuestionInv, asked' = asked, history'.questions = history.questions,
           stage'.phase = "feedback" => stage' = stage /\ (alive' => alive)
    PROVE  QuestionInv'
BY DEF QuestionInv, QuestionsAreAsked

LEMMA QuestionInvStep == RoomTypeOK /\ QuestionInv /\ [RoomNext]_roomVars => QuestionInv'
<1> SUFFICES ASSUME RoomTypeOK, QuestionInv, [RoomNext]_roomVars PROVE QuestionInv'
  OBVIOUS
<1>0. stage \in Stage /\ history \in History /\ asked \in Asked
  BY DEF RoomTypeOK
<1>1. CASE BeginWork \/ Prompt \/ ConfirmFinish \/ BeginWrapUp
  <2>1. stage'.phase # "feedback"
    BY <1>0, <1>1 DEF BeginWork, Prompt, ConfirmFinish, BeginWrapUp, Working, Stage
  <2> QED BY <1>1, <2>1, QuestionsStayAsked DEF BeginWork, Prompt, ConfirmFinish, BeginWrapUp
<1>2. CASE AskForHint
  <2>1. stage'.phase # "feedback" /\ asked' = asked /\ history'.questions = history.questions
    BY <1>0, <1>2 DEF AskForHint, Working, History
  <2> QED BY <2>1, QuestionsStayAsked
<1>3. CASE AskWrapUp
  <2>1. stage'.phase # "feedback"
    BY <1>3 DEF AskWrapUp, MayAsk
  <2>2. PICK q \in Questions \ asked.reserved :
            \/ /\ asked' = [reserved |-> asked.reserved \union {q}, any |-> TRUE]
               /\ history' = [history EXCEPT !.questions = @ \union {q}]
            \/ asked' = [asked EXCEPT !.reserved = GivenBack(q)] /\ history' = history
    BY <1>3 DEF AskWrapUp
  <2>3. asked.reserved \subseteq history.questions /\ IsFiniteSet(history.questions)
    BY DEF QuestionInv, QuestionsAreAsked
  <2>4. CASE /\ asked' = [reserved |-> asked.reserved \union {q}, any |-> TRUE]
             /\ history' = [history EXCEPT !.questions = @ \union {q}]
    <3>1. /\ asked'.reserved = asked.reserved \union {q}
          /\ history'.questions = history.questions \union {q}
      BY <1>0, <2>4 DEF History
    <3>2. IsFiniteSet(history.questions \union {q})
      BY <2>3, FS_AddElement
    <3> QED BY <2>1, <2>3, <3>1, <3>2 DEF QuestionInv, QuestionsAreAsked
  <2>5. CASE asked' = [asked EXCEPT !.reserved = GivenBack(q)] /\ history' = history
    <3>1. asked'.reserved \subseteq asked.reserved
      BY <1>0, <2>5 DEF GivenBack, Asked
    <3> QED BY <2>1, <2>3, <2>5, <3>1 DEF QuestionInv, QuestionsAreAsked
  <2> QED BY <2>2, <2>4, <2>5
<1>4. CASE AskNothing
  <2>1. NothingLeftToAsk /\ asked' = asked /\ history' = history
    BY <1>4 DEF AskNothing
  <2>2. /\ asked.reserved \subseteq history.questions /\ IsFiniteSet(history.questions)
    BY DEF QuestionInv, QuestionsAreAsked
  <2>3. IsFiniteSet(asked.reserved) /\ Cardinality(asked.reserved) <= Cardinality(history.questions)
    BY <2>2, FS_Subset
  <2>4. Cardinality(asked.reserved) \in Nat /\ Cardinality(history.questions) \in Nat
    BY <2>2, <2>3, FS_CardinalityType
  <2>5. Questions \subseteq history.questions \/ Cardinality(history.questions) >= WrapUpChecks
    BY <2>1, <2>2, <2>3, <2>4, RoomLimits DEF NothingLeftToAsk
  <2> QED BY <2>1, <2>2, <2>5 DEF QuestionInv, QuestionsAreAsked
<1>5. CASE EndWithoutInterviewer
  BY <1>5 DEF EndWithoutInterviewer, QuestionInv, QuestionsAreAsked
<1>6. CASE EndOtherwise
  <2>1. stage'.phase # "feedback"
    BY <1>0, <1>6 DEF EndOtherwise, Stage
  <2> QED BY <1>6, <2>1, QuestionsStayAsked DEF EndOtherwise
<1>7. CASE PageGoes \/ PageComesBack \/ SocketCloses \/ LearnerSpeaks
  BY <1>7, QuestionsStayAsked
  DEF PageGoes, PageComesBack, SocketCloses, LearnerSpeaks, SocketLost, Ongoing, Working
<1>8. CASE ReplyBegins
  <2>1. stage'.phase # "feedback" /\ asked' = asked /\ history'.questions = history.questions
    BY <1>0, <1>8 DEF ReplyBegins, Ongoing, History
  <2> QED BY <2>1, QuestionsStayAsked
<1>9. CASE ReplyContinues \/ TurnCompletes \/ OtherMessage
  BY <1>9, QuestionsStayAsked DEF ReplyContinues, TurnCompletes, OtherMessage, SocketLost, Ongoing
<1>10. CASE WaitForSocket \/ ReplacementFails \/ BriefingFails \/ ReplaceSocket
  BY <1>10, QuestionsStayAsked
  DEF WaitForSocket, ReplacementFails, BriefingFails, ReplaceSocket, MayReplace, Ongoing
<1>11. CASE UNCHANGED roomVars
  BY <1>11, QuestionsStayAsked DEF roomVars
<1> QED
  BY <1>1, <1>2, <1>3, <1>4, <1>5, <1>6, <1>7, <1>8, <1>9, <1>10, <1>11 DEF RoomNext

LEMMA RoomStartsUnasked == RoomInit => QuestionInv
BY FS_EmptySet DEF RoomInit, QuestionInv, QuestionsAreAsked

\* A finished attempt ends with as many wrap-up questions sent to a socket as may
\* be, unless no interviewer was left to ask them.
THEOREM FinishedMeansAsked == RoomSpec => []QuestionsAreAsked
<1>1. QuestionInv => QuestionsAreAsked
  BY DEF QuestionInv
<1> QED
  BY <1>1, RoomTypeInit, RoomTypeStep, RoomStartsUnasked, QuestionInvStep, PTL DEF RoomSpec

(***************************************************************************)
(* What the interviewer still owes                                         *)
(***************************************************************************)

\* The requests that were ever made.
Made == 1..history.hints \union asked.reserved \union {Notice}

\* A request is queued, at the socket or heard, and a socket that is lost was
\* asked nothing.
OwedInv ==
    /\ OwedIsUnheard
    /\ inbox \intersect ToSet(queue) \subseteq {Notice}
    /\ history.heard \union inbox \union ToSet(queue) \union ({unanswered} \ {Nothing})
          \subseteq Made
    /\ ~alive => inbox = {}

\* A request that is new, or a notice, may be sent or queued.
LEMMA NewRequestIsOwed ==
    ASSUME RoomTypeOK, OwedInv, NEW r \in Request, r = Notice \/ r \notin Made,
           SendOrQueue(r), history'.heard = history.heard, Made \union {r} \subseteq Made'
    PROVE  OwedInv'
<1>1. CASE alive' /\ inbox' = inbox \union {r} /\ queue' = queue /\ unanswered' = r
  BY <1>1 DEF OwedInv, OwedIsUnheard
<1>2. CASE /\ inbox' = {} /\ ToSet(queue') = ToSet(queue) \union {r} /\ unanswered' = unanswered
  BY <1>2 DEF OwedInv, OwedIsUnheard
<1> QED BY <1>1, <1>2, SendOutcomes

\* Requests may be dropped, or move back to the queue once no socket has them.
LEMMA FewerAreOwed ==
    ASSUME RoomTypeOK, OwedInv, Made' = Made, history'.heard = history.heard,
           inbox' \subseteq inbox, unanswered' \in {unanswered, Nothing},
           \/ queue' = queue
           \/ inbox' = {} /\ ToSet(queue') \subseteq ToSet(queue) \union ({unanswered} \ {Nothing}),
           alive' \/ inbox' = {}
    PROVE  OwedInv'
<1>1. Nothing \notin history.heard
  BY RequestsDiffer DEF RoomTypeOK, History
<1> QED BY <1>1 DEF OwedInv, OwedIsUnheard

LEMMA OwedInvStep == RoomTypeOK /\ OwedInv /\ [RoomNext]_roomVars => OwedInv'
<1> SUFFICES ASSUME RoomTypeOK, OwedInv, [RoomNext]_roomVars PROVE OwedInv'
  OBVIOUS
<1>0. history \in History /\ asked \in Asked /\ history.hints \in Nat
  BY RoomLimits DEF RoomTypeOK, History
<1>1. CASE BeginWork \/ Prompt \/ ConfirmFinish \/ (BeginWrapUp /\ present)
  <2>1. SendOrQueue(Notice) /\ UNCHANGED <<asked, history>>
    BY <1>1 DEF BeginWork, Prompt, ConfirmFinish, BeginWrapUp
  <2> QED BY <2>1, NewRequestIsOwed, RequestsDiffer DEF Made
<1>2. CASE AskForHint
  <2> DEFINE n == history.hints + 1
  <2>1. SendOrQueue(n) /\ history' = [history EXCEPT !.hints = @ + 1] /\ asked' = asked
    BY <1>2 DEF AskForHint
  <2>2. n \in 1..Hints /\ n \in Nat /\ n \notin 1..history.hints
    BY <1>0, <1>2, RoomLimits DEF AskForHint, History
  <2>3. n \in Request /\ n \notin Made
    BY <1>0, <2>2, RequestsDiffer DEF Made, Asked
  <2>4. history'.hints = n /\ history'.heard = history.heard
    BY <1>0, <2>1 DEF History
  <2>5. Made \union {n} \subseteq Made'
    BY <1>0, <2>1, <2>4 DEF Made
  <2> HIDE DEF n
  <2> QED BY <2>1, <2>3, <2>4, <2>5, NewRequestIsOwed
<1>3. CASE BeginWrapUp /\ ~present
  <2>1. /\ ToSet(queue') = ToSet(queue) \union {Notice}
        /\ UNCHANGED <<alive, unanswered, inbox, asked, history>>
    BY <1>3, AppendAdds, RequestsDiffer DEF BeginWrapUp, RoomTypeOK
  <2> QED BY <2>1 DEF OwedInv, OwedIsUnheard, Made
<1>4. CASE AskWrapUp
  <2>1. PICK q \in Questions \ asked.reserved :
            \/ /\ asked' = [reserved |-> asked.reserved \union {q}, any |-> TRUE]
               /\ history' = [history EXCEPT !.questions = @ \union {q}]
               /\ inbox' = inbox \union {q} /\ unanswered' = q /\ UNCHANGED alive
            \/ /\ asked' = [asked EXCEPT !.reserved = GivenBack(q)]
               /\ SocketLost /\ UNCHANGED <<unanswered, history>>
    BY <1>4 DEF AskWrapUp
  <2>2. queue' = queue /\ alive
    BY <1>4 DEF AskWrapUp, MayAsk
  <2>3. q \notin Made
    BY <1>0, RequestsDiffer DEF Made, Asked
  <2>4. CASE /\ asked' = [reserved |-> asked.reserved \union {q}, any |-> TRUE]
             /\ history' = [history EXCEPT !.questions = @ \union {q}]
             /\ inbox' = inbox \union {q} /\ unanswered' = q /\ UNCHANGED alive
    <3>1. history'.heard = history.heard /\ history'.hints = history.hints
      BY <1>0, <2>4 DEF History
    <3>2. asked'.reserved = asked.reserved \union {q}
      BY <2>4
    <3>3. Made' = Made \union {q}
      BY <3>1, <3>2 DEF Made
    <3> QED BY <2>2, <2>3, <2>4, <3>1, <3>3 DEF OwedInv, OwedIsUnheard
  <2>5. CASE /\ asked' = [asked EXCEPT !.reserved = GivenBack(q)]
             /\ SocketLost /\ UNCHANGED <<unanswered, history>>
    <3>1. asked'.reserved = asked.reserved
      BY <1>0, <2>5 DEF GivenBack, Asked
    <3> QED BY <2>2, <2>5, <3>1, FewerAreOwed DEF SocketLost, Made
  <2> QED BY <2>1, <2>4, <2>5
<1>5. CASE ReplyBegins
  <2>1. UNCHANGED <<alive, queue, asked>> /\ inbox' = {} /\ alive
    BY <1>5 DEF ReplyBegins
  <2>2. CASE Audible
    <3>1. unanswered' = Nothing /\ history' = [history EXCEPT !.heard = @ \union inbox]
      BY <1>5, <2>2 DEF ReplyBegins, OwedAfterOutput
    <3>2. history'.heard = history.heard \union inbox /\ history'.hints = history.hints
      BY <1>0, <3>1 DEF History
    <3>3. Nothing \notin history.heard \union inbox
      BY <1>0, RequestsDiffer DEF RoomTypeOK, History
    <3> QED BY <2>1, <3>1, <3>2, <3>3 DEF OwedInv, OwedIsUnheard, Made
  <2>3. CASE ~Audible
    <3>1. unanswered' = unanswered /\ history' = history
      BY <1>0, <1>5, <2>3 DEF ReplyBegins, OwedAfterOutput, History
    <3> QED BY <2>1, <3>1, FewerAreOwed DEF Made
  <2> QED BY <2>2, <2>3
<1>6. CASE BriefingFails
  <2>1. PICK sent \in 0..Len(Owed) : queue' = SubSeq(Owed, sent + 1, Len(Owed))
    BY <1>6 DEF BriefingFails
  <2>2. ToSet(queue') \subseteq ToSet(queue) \union ({unanswered} \ {Nothing})
    BY <2>1, OwedType, RestRemains
  <2>3. inbox' = {}
    BY <1>6 DEF BriefingFails, MayReplace, OwedInv
  <2> QED BY <1>6, <2>2, <2>3, FewerAreOwed DEF BriefingFails, Made
<1>7. CASE ReplaceSocket
  <2>1. /\ inbox' \subseteq ToSet(queue) \union ({unanswered} \ {Nothing})
        /\ ToSet(queue') = {} /\ unanswered' = Nothing /\ alive' = TRUE
        /\ UNCHANGED <<asked, history>>
    BY <1>7, OwedType, QueueTypes DEF ReplaceSocket
  <2>2. Nothing \notin history.heard
    BY <1>0, RequestsDiffer DEF History
  <2> QED BY <2>1, <2>2 DEF OwedInv, OwedIsUnheard, Made
<1>8. CASE ReplyContinues \/ TurnCompletes
  <2>1. /\ unanswered' \in {unanswered, Nothing} /\ UNCHANGED <<queue, asked, history>>
        /\ inbox' \subseteq inbox /\ (alive' \/ inbox' = {})
    BY <1>8 DEF ReplyContinues, TurnCompletes, OwedAfterOutput, SocketLost
  <2> QED BY <2>1, FewerAreOwed DEF Made
<1>9. CASE AskNothing \/ EndWithoutInterviewer \/ EndOtherwise
  <2>1. UNCHANGED <<alive, queue, unanswered, inbox, asked, history>>
    BY <1>9 DEF AskNothing, EndWithoutInterviewer, EndOtherwise
  <2> QED BY <2>1 DEF OwedInv, OwedIsUnheard, Made
<1>10. CASE PageGoes \/ PageComesBack \/ SocketCloses \/ LearnerSpeaks
  <2>1. /\ UNCHANGED <<queue, unanswered, asked, history>>
        /\ UNCHANGED <<alive, inbox>> \/ SocketLost
    BY <1>10 DEF PageGoes, PageComesBack, SocketCloses, LearnerSpeaks
  <2> QED BY <2>1 DEF OwedInv, OwedIsUnheard, Made, SocketLost
<1>11. CASE OtherMessage \/ WaitForSocket \/ ReplacementFails \/ UNCHANGED roomVars
  <2>1. UNCHANGED <<alive, queue, unanswered, inbox, asked, history>>
    BY <1>11 DEF OtherMessage, WaitForSocket, ReplacementFails, roomVars
  <2> QED BY <2>1 DEF OwedInv, OwedIsUnheard, Made
<1> QED
  BY <1>1, <1>2, <1>3, <1>4, <1>5, <1>6, <1>7, <1>8, <1>9, <1>10, <1>11 DEF RoomNext

LEMMA RoomStartsOwingNothing == RoomInit => OwedInv
BY QueueTypes DEF RoomInit, OwedInv, OwedIsUnheard

\* A reply the learner heard is not asked for again: what a replacement socket
\* will be given was not answered to anybody.
THEOREM HeardIsNotOwed == RoomSpec => []OwedIsUnheard
<1>1. OwedInv => OwedIsUnheard
  BY DEF OwedInv
<1> QED
  BY <1>1, RoomTypeInit, RoomTypeStep, RoomStartsOwingNothing, OwedInvStep, PTL DEF RoomSpec

=============================================================================
