----------------------------- MODULE TaskSession -----------------------------
(***************************************************************************)
(* One task attempt (tasks/session.rs): its phases and deadline, the code  *)
(* the page captures, the practice runs, the hints, and the evidence the   *)
(* interviewer records.  TaskRoom has the interviewer's connection.        *)
(*                                                                         *)
(* A message of the page is one step.  Messages arrive in order, and one   *)
(* that was accepted may come again.  The page gives every edit an id, so  *)
(* a revision is the number of its edit; 0 is the starter.  Every handler  *)
(* settles a page that is gone for good and an attempt that is overdue     *)
(* before anything else: those two are Lose and Expire, and no handler     *)
(* does anything in a state where one of them is due.                      *)
(***************************************************************************)
EXTENDS Naturals, FiniteSets

CONSTANTS
    Duration,       \* rules.durationMin
    WrapUpTime,     \* wrapUpSeconds
    RunTime,        \* runCaptureSeconds: how long a capture waits for its run
    RejoinTime,     \* pendingAdmissionSeconds: how long a page may be away
    RevisionSlots,  \* revisionSnapshots
    EvidenceSlots,  \* evidenceRevisions
    RunSlots,       \* publicRunSummaries
    RequestSlots,   \* MAX_REQUESTS
    HintLimit, FollowupLimit,   \* the task's hints; extraChecks
    Checks,         \* the understanding checks of the task
    NoCheck,
    TurnSlots,      \* MAX_TURNS
    MaxRevisions, MaxRequests       \* bounds: edits, messages

\* The defaults leave a slot for the starter and one for the final code beside
\* the evidence.
ASSUME TaskLimits ==
    /\ Duration \in Nat \ {0} /\ WrapUpTime \in Nat \ {0}
    /\ RunTime \in Nat \ {0} /\ RejoinTime \in Nat \ {0}
    /\ EvidenceSlots \in Nat /\ RevisionSlots \in Nat
    /\ RevisionSlots >= EvidenceSlots + 2
    /\ RunSlots \in Nat /\ RequestSlots \in Nat
    /\ HintLimit \in Nat /\ FollowupLimit \in Nat
    /\ NoCheck \notin Checks
    /\ TurnSlots \in Nat /\ MaxRevisions \in Nat /\ MaxRequests \in Nat

VARIABLES
    attempt,    \* phase, time to the deadline, outcome and final revision
    page,       \* whether the page is away, and for how long
    current,    \* the revision the editor holds
    revisions,  \* the revisions whose code is kept
    waiting,    \* the capture that waits for its run, and for how long still
    runs,       \* the practice runs kept
    dropped,    \* revisions of runs whose code was let go
    overflow,   \* the page was told that something was let go
    requests,   \* the messages accepted, by request id
    support,    \* hints and targeted follow-ups offered
    turns,      \* how many turns of the learner are captured
    checks,     \* what is recorded of each check
    evidence    \* the revisions evidence refers to

codeVars == <<current, revisions, waiting, runs, dropped, overflow>>
checkVars == <<support, turns, checks, evidence>>
taskVars == <<attempt, page, codeVars, requests, checkVars>>

NoRevision == MaxRevisions + 1
Revisions == 0..MaxRevisions
Kinds == {"capture-run", "capture-discuss", "capture-finish", "run", "hint", "discuss", "finish"}
Message == [id : 1..MaxRequests, kind : Kinds, revision : Revisions \union {NoRevision}]

\* `after' is how many turns were captured when the support was offered.
Offer == [kind : {"hint", "followup"}, number : Nat, check : Checks \union {NoCheck}, after : 0..TurnSlots]
Supports == {"none", "hint", "followup"}
Check == [support : Supports, turns : [1..TurnSlots -> Supports \union {"unrecorded"}]]

TaskInit ==
    /\ attempt = [phase |-> "ready", left |-> Duration, outcome |-> "none", final |-> NoRevision]
    /\ page = [absent |-> FALSE, gone |-> 0]
    /\ current = 0 /\ revisions = {0}
    /\ waiting = [revision |-> NoRevision, left |-> 0]
    /\ runs = {} /\ dropped = {} /\ overflow = FALSE
    /\ requests = {}
    /\ support = {} /\ turns = 0
    /\ checks = [c \in Checks |->
                    [support |-> "none", turns |-> [t \in 1..TurnSlots |-> "unrecorded"]]]
    /\ evidence = {}

Active == attempt.phase \in {"work", "wrap-up"}
Frozen == attempt.final # NoRevision

Lost == Active /\ page.absent /\ page.gone >= RejoinTime
Overdue == Active /\ attempt.left = 0

\* There is nothing to settle before a message, a turn or a tool call.
NothingDue == ~Lost /\ ~Overdue

(***************************************************************************)
(* The snapshots of code                                                   *)
(***************************************************************************)

\* `held' is the capture that waits for its run.
Evictable(held) == revisions \ ({0, held, attempt.final} \union evidence)

\* One slot is kept free for the final code until it is chosen.
FreeSlots == IF Frozen THEN RevisionSlots ELSE RevisionSlots - 1

Full(revision, slots) == revision \notin revisions /\ Cardinality(revisions) >= slots

\* capture_with_final_slot: a full table lets another revision go.
Keep(revision, slots, held) ==
    IF Full(revision, slots)
    THEN \E old \in Evictable(held) :
            /\ revisions' = (revisions \ {old}) \union {revision}
            /\ dropped' = dropped \union ({old} \intersect {run.revision : run \in runs})
    ELSE revisions' = revisions \union {revision} /\ UNCHANGED dropped

Store(revision, slots, held) ==
    Keep(revision, slots, held) /\ overflow' = (overflow \/ Full(revision, slots))

\* It refuses where it may let none go.
NoRoom(revision, slots, held) == Full(revision, slots) /\ Evictable(held) = {}

StoreFails(revision, slots, held) ==
    NoRoom(revision, slots, held) /\ overflow' = TRUE /\ UNCHANGED <<revisions, dropped>>

\* Mutant: a full table keeps the capture that waits and not the final code.
FreezeIfThereIsRoom ==
    /\ \/ Store(current, RevisionSlots, waiting.revision)
       \/ StoreFails(current, RevisionSlots, waiting.revision)
    /\ UNCHANGED waiting

\* The frozen revision outranks the capture that waits for its run.
FreezeCode ==
    \/ Store(current, RevisionSlots, waiting.revision) /\ UNCHANGED waiting
    \/ /\ NoRoom(current, RevisionSlots, waiting.revision)
       /\ waiting' = [revision |-> NoRevision, left |-> 0]
       /\ \/ Store(current, RevisionSlots, NoRevision)
          \/ StoreFails(current, RevisionSlots, NoRevision)

Freeze ==
    IF Frozen THEN UNCHANGED <<revisions, dropped, overflow, waiting>> ELSE FreezeCode

FinalRevision == IF Frozen THEN attempt.final ELSE current

\* conclude: how an attempt ends is said once.
Conclude(outcome) ==
    /\ attempt.phase # "feedback"
    /\ Freeze
    /\ attempt' = [attempt EXCEPT !.phase = "feedback", !.outcome = outcome,
                                  !.final = FinalRevision]
    /\ UNCHANGED <<current, runs, requests, checkVars>>

(***************************************************************************)
(* The clock, the page and the ends of an attempt                          *)
(***************************************************************************)

Start ==
    /\ attempt.phase = "ready" /\ ~page.absent
    /\ attempt' = [attempt EXCEPT !.phase = "work"]
    /\ UNCHANGED <<page, codeVars, requests, checkVars>>

\* An invalid attempt and an interrupted one both end short.
OutcomeInTime == IF page.absent THEN "short" ELSE "completed"

\* expire, called by the tick or by whatever comes first.
Expire == Overdue /\ ~Lost /\ Conclude(OutcomeInTime) /\ UNCHANGED page

\* settle_page_loss.
Lose == Lost /\ Conclude("short") /\ UNCHANGED page

\* A rule was broken, or the page can no longer watch.
End ==
    /\ Active /\ NothingDue
    /\ Conclude("short") /\ UNCHANGED page

LoseRoom == Active /\ Conclude("short") /\ UNCHANGED page

\* There is nothing left to ask of a learner who has finished.
CompleteTask ==
    /\ attempt.phase = "wrap-up" /\ Frozen /\ NothingDue /\ ~page.absent
    /\ Conclude("completed") /\ UNCHANGED page

PageLeaves ==
    /\ ~page.absent /\ attempt.phase # "feedback"
    /\ page' = [absent |-> TRUE, gone |-> 0]
    /\ UNCHANGED <<attempt, codeVars, requests, checkVars>>

PageReturns ==
    /\ page.absent /\ ~Lost /\ attempt.phase # "feedback"
    /\ page' = [absent |-> FALSE, gone |-> 0]
    /\ UNCHANGED <<attempt, codeVars, requests, checkVars>>

CountDown(n) == IF n > 0 THEN n - 1 ELSE 0

TimePasses ==
    /\ Active
    /\ attempt' = [attempt EXCEPT !.left = CountDown(@)]
    /\ page' = [page EXCEPT !.gone = IF page.absent /\ @ < RejoinTime THEN @ + 1 ELSE @]
    /\ waiting' = [waiting EXCEPT !.left = CountDown(@)]
    /\ UNCHANGED <<current, revisions, runs, dropped, overflow, requests, checkVars>>

\* Captures whose time is up wait no longer.
StillWaiting ==
    IF waiting.left = 0 THEN [revision |-> NoRevision, left |-> 0] ELSE waiting

TickRoom ==
    /\ Active /\ ~Lost
    /\ waiting' = StillWaiting
    /\ attempt' = IF attempt.phase = "work" /\ attempt.left \in 1..WrapUpTime
                  THEN [attempt EXCEPT !.phase = "wrap-up"] ELSE attempt
    /\ UNCHANGED <<page, current, revisions, runs, dropped, overflow, requests, checkVars>>

Offered(kind) == Cardinality({s \in support : s.kind = kind})

OfferNext(kind, check) ==
    [kind |-> kind, number |-> Offered(kind) + 1, check |-> check, after |-> turns]

(***************************************************************************)
(* The messages of the page                                                *)
(***************************************************************************)

\* An accepted message may come again; after a refusal the page takes a new id.
\* A new message names the page's code, which is not older than the editor's; a
\* hint names none.
Messages(kind) ==
    {m \in requests : m.kind = kind} \union
    {[id |-> Cardinality(requests) + 1, kind |-> kind, revision |-> r] :
        r \in IF Cardinality(requests) = MaxRequests THEN {}
              ELSE IF kind = "hint" THEN {NoRevision}
              ELSE {current, current + 1} \intersect Revisions}

\* Mutant: an accepted message is taken for a new one when it comes again.
AnyRequest(m) == TRUE

NewRequest(m) == m \notin requests

TakeRequest(m) == requests' = requests \union {m}

Arrives(m) ==
    /\ NothingDue
    /\ NewRequest(m) /\ Cardinality(requests) < RequestSlots

\* An edit has no request id; the page does not send it twice.
Edit ==
    /\ Active /\ NothingDue /\ ~Frozen
    /\ current < MaxRevisions /\ current' = current + 1
    /\ UNCHANGED <<attempt, page, revisions, waiting, runs, dropped, overflow, requests, checkVars>>

\* Mutant: the code that is handed in gets no slot of its own.
NoSlotKept(m) == FreeSlots

SlotsFor(m) == IF m.kind = "capture-finish" THEN RevisionSlots ELSE FreeSlots

MayCapture(m) ==
    /\ Arrives(m) /\ Active /\ ~Frozen
    /\ m.kind = "capture-run" => StillWaiting.revision \in {m.revision, NoRevision}

Capture(m) ==
    /\ MayCapture(m)
    /\ Store(m.revision, SlotsFor(m), StillWaiting.revision)
    /\ current' = m.revision
    /\ waiting' = IF m.kind = "capture-run" THEN [revision |-> m.revision, left |-> RunTime]
                  ELSE StillWaiting
    /\ TakeRequest(m)
    /\ UNCHANGED <<attempt, page, runs, checkVars>>

RefuseCapture(m) ==
    /\ MayCapture(m)
    /\ StoreFails(m.revision, SlotsFor(m), StillWaiting.revision)
    /\ waiting' = StillWaiting
    /\ UNCHANGED <<attempt, page, current, runs, requests, checkVars>>

\* A full table accepts a run without keeping it.
Run(m) ==
    /\ Arrives(m) /\ Active
    /\ m.revision \in revisions /\ m.revision = waiting.revision /\ waiting.left > 0
    /\ waiting' = [revision |-> NoRevision, left |-> 0]
    /\ IF Cardinality(runs) < RunSlots
       THEN runs' = runs \union {m} /\ UNCHANGED overflow
       ELSE overflow' = TRUE /\ UNCHANGED runs
    /\ TakeRequest(m)
    /\ UNCHANGED <<attempt, page, current, revisions, dropped, checkVars>>


\* The interviewer's availability is TaskRoom's.
Hint(m) ==
    /\ Arrives(m) /\ Active /\ ~Frozen
    /\ support' = IF Offered("hint") < HintLimit
                  THEN support \union {OfferNext("hint", NoCheck)} ELSE support
    /\ TakeRequest(m)
    /\ UNCHANGED <<attempt, page, codeVars, turns, checks, evidence>>

Discuss(m) ==
    /\ Arrives(m) /\ Active /\ ~Frozen
    /\ m.revision = current
    /\ \/ Store(current, FreeSlots, waiting.revision) /\ TakeRequest(m)
       \/ /\ StoreFails(current, FreeSlots, waiting.revision)
          /\ UNCHANGED requests
    /\ UNCHANGED <<attempt, page, current, waiting, runs, checkVars>>

FinishTask(m) ==
    /\ Arrives(m) /\ Active /\ ~Frozen
    /\ m.revision = current
    /\ Freeze
    /\ attempt' = [attempt EXCEPT !.phase = "wrap-up", !.final = current,
                                  !.left = IF @ < WrapUpTime THEN @ ELSE WrapUpTime]
    /\ TakeRequest(m)
    /\ UNCHANGED <<page, current, runs, checkVars>>

\* A Finish that names the frozen revision is a retry, whatever the phase.
FinishAgain(m) ==
    /\ Arrives(m) /\ m.revision = attempt.final
    /\ TakeRequest(m)
    /\ UNCHANGED <<attempt, page, codeVars, checkVars>>

(***************************************************************************)
(* The evidence                                                            *)
(***************************************************************************)

\* observe_turn; a turn is numbered in the order it was captured.
Turn ==
    /\ Active /\ NothingDue
    /\ IF turns < TurnSlots
       THEN turns' = turns + 1 /\ UNCHANGED overflow
       ELSE overflow' = TRUE /\ UNCHANGED turns
    /\ UNCHANGED <<attempt, page, current, revisions, waiting, runs, dropped, requests, support,
                   checks, evidence>>

\* request_targeted_followup.
FollowUp(c) ==
    /\ Active /\ NothingDue /\ ~page.absent
    /\ Offered("followup") < FollowupLimit
    /\ support' = support \union {OfferNext("followup", c)}
    /\ UNCHANGED <<attempt, page, codeVars, requests, turns, checks, evidence>>

\* Mutant: a follow-up the interviewer does not name is not looked for.
NamedSupport(c, t) == {"none"}

\* The support of evidence for which the interviewer names none: a follow-up on
\* the check that came before the turn.
UnnamedSupport(c, t) ==
    IF \E s \in support : s.check = c /\ s.after < t THEN {"followup"} ELSE {"none"}

NamableSupport(c, t) == {s.kind : s \in {o \in support : o.check \in {c, NoCheck} /\ o.after < t}}

Recorded(check, t, kind) ==
    [support |-> IF check.support = "none" \/ kind = "followup" THEN kind ELSE check.support,
     turns |-> [check.turns EXCEPT ![t] = IF kind = "none" /\ @ # "unrecorded" THEN @ ELSE kind]]

\* record_task_check: evidence on the editor's revision captures it first, and
\* keeps the capture even if the evidence is then refused.
RecordCheck(c, t, revision) ==
    /\ Active /\ NothingDue /\ ~page.absent /\ t <= turns
    /\ IF revision = current
       THEN Store(current, FreeSlots, waiting.revision)
       ELSE revision \in revisions /\ UNCHANGED <<revisions, dropped, overflow>>
    /\ revision \in evidence \/ Cardinality(evidence) < EvidenceSlots
    /\ \E kind \in UnnamedSupport(c, t) \union NamableSupport(c, t) :
         checks' = [checks EXCEPT ![c] = Recorded(@, t, kind)]
    /\ evidence' = evidence \union {revision}
    /\ UNCHANGED <<attempt, page, current, waiting, runs, requests, support, turns>>

RefuseCheck(revision) ==
    /\ Active /\ NothingDue /\ ~page.absent /\ turns > 0
    /\ \/ revision = current /\ StoreFails(current, FreeSlots, waiting.revision)
       \/ /\ revision \notin evidence /\ Cardinality(evidence) >= EvidenceSlots
          /\ IF revision = current
             THEN Keep(current, FreeSlots, waiting.revision)
             ELSE revision \in revisions /\ UNCHANGED <<revisions, dropped>>
          /\ overflow' = TRUE
    /\ UNCHANGED <<attempt, page, current, waiting, runs, requests, checkVars>>

TaskNext ==
    \/ Start
    \/ Expire
    \/ Lose
    \/ End
    \/ LoseRoom
    \/ CompleteTask
    \/ PageLeaves
    \/ PageReturns
    \/ TimePasses
    \/ TickRoom
    \/ Edit
    \/ \E kind \in {"capture-run", "capture-discuss", "capture-finish"} :
         \E m \in Messages(kind) : Capture(m) \/ RefuseCapture(m)
    \/ \E m \in Messages("run") : Run(m)
    \/ \E m \in Messages("hint") : Hint(m)
    \/ \E m \in Messages("discuss") : Discuss(m)
    \/ \E m \in Messages("finish") : FinishTask(m) \/ FinishAgain(m)
    \/ Turn
    \/ \E c \in Checks : FollowUp(c)
    \/ \E c \in Checks, t \in 1..TurnSlots, r \in Revisions : RecordCheck(c, t, r)
    \/ \E r \in Revisions : RefuseCheck(r)

TaskSpec == TaskInit /\ [][TaskNext]_taskVars

(***************************************************************************)
(* Properties                                                              *)
(***************************************************************************)

\* Whatever was let go to make room, the record of an attempt can be read: the
\* final code is kept, so is every revision evidence refers to, and the code of
\* a kept run is there or named as dropped, which the page was told (session.rs,
\* capture_with_final_slot and freeze).
RecordIsWhole ==
    /\ Frozen => attempt.final \in revisions
    /\ evidence \subseteq revisions
    /\ {run.revision : run \in runs} \subseteq revisions \union dropped
    /\ dropped # {} => overflow
    /\ Cardinality(revisions) <= RevisionSlots

\* The code a learner hands in finds a slot whatever evidence holds, unless a
\* capture still waits for its run (session.rs, revision and freeze).
HandInFindsRoom ==
    Active /\ ~Frozen /\ StillWaiting.revision = NoRevision =>
        \A m \in Messages("capture-finish") : ~NoRoom(m.revision, SlotsFor(m), NoRevision)

\* A message that arrives again has no second effect: the editor does not go
\* back to older code, and a hint, a run or a capture is counted for one request.
\* One that arrives late has none: when time ran out or the attempt is over,
\* nothing becomes work, and the outcome and the final revision stay (request
\* ids, expire and conclude, session.rs).
EffectsAreOnce ==
    [][/\ current' >= current
       /\ (Offered("hint")' # Offered("hint") \/ runs' # runs \/ waiting'.left > waiting.left)
            => requests' # requests
       /\ Overdue \/ attempt.phase = "feedback" =>
            /\ UNCHANGED <<current, runs, checkVars>>
            /\ revisions' \subseteq revisions \union {current}
       /\ Frozen => attempt'.final = attempt.final
       /\ attempt.outcome # "none" =>
            attempt'.outcome = attempt.outcome]_taskVars

\* Evidence does not count as independent if its turn came after a follow-up on
\* its check, whether the interviewer says so or not, nor as supported by what
\* was offered later; and a check is independent only if all its turns are
\* (session.rs, record_check_with_support).
IndependenceIsEarned ==
    \A c \in Checks :
        /\ checks[c].support = "none" =>
                \A t \in 1..TurnSlots : checks[c].turns[t] \in {"none", "unrecorded"}
        /\ \A t \in 1..TurnSlots :
             LET before == {s.kind : s \in {o \in support : o.check \in {c, NoCheck} /\ o.after < t}}
             IN  /\ checks[c].turns[t] = "none" => "followup" \notin before
                 /\ checks[c].turns[t] \in {"hint", "followup"} => checks[c].turns[t] \in before

=============================================================================
