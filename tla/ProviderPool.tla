---------------------------- MODULE ProviderPool ----------------------------
(***************************************************************************)
(* Which LiveKit project an interview or a practice runs on: the rotation  *)
(* all requests share, the verdicts on each project's quota and            *)
(* credential, which a task refreshes and a request may have to ask for    *)
(* itself, and the requests, which pass over what cannot take them.        *)
(*                                                                         *)
(* A verdict is "up" or "down"; why a project is down is told to the       *)
(* operator and decides nothing.  A probe that fails says nothing against  *)
(* a project and counts as "up".  The task and the requests run when they  *)
(* are due: a delay is part of the time of a probe.                        *)
(***************************************************************************)
EXTENDS Naturals

CONSTANTS
    Projects,       \* how many the pool has
    Askers,         \* the requests at one time
    Pins,           \* the project of the pinned room of a development server
    Trust,          \* PROVIDER_QUOTA_TTL
    ProbeTime       \* PROVIDER_QUOTA_PROBE_TIMEOUT

Providers == 0..(Projects - 1)      \* in the order of the rotation

ASSUME PoolSize == Projects \in Nat \ {0} /\ Pins \subseteq Providers
ASSUME PoolTimes == Trust \in Nat /\ ProbeTime \in Nat \ {0} /\ 2 * ProbeTime < Trust

VARIABLES
    turn,       \* provider_counter, as the project it selects next
    cache,      \* per project: its verdict and the age of it
    refresh,    \* the task: asleep for how long yet, or probing and since when
    asker,      \* per request: where it is
    has,        \* the projects that would take a connection
    since,      \* history: how long ago a project last did, or left a probe unanswered
    warm        \* history: the first pass of the task is over

poolVars == <<turn, cache, refresh, asker, has, since, warm>>

\* PROVIDER_QUOTA_REFRESH
Refresh == Trust \div 2

\* Mutant: a probe ends with the shared client's own timeout.
Backstop == ProbeTime + 2
ProbeLimit == ProbeTime

\* A request draws as often as there are projects.
Turns == Projects

\* A project that is handed out was seen to be up no longer ago than this.
SeenWithin == Refresh + 2 * ProbeTime

Unknown == [up |-> TRUE, age |-> Trust + 1]
Verdict == [up : BOOLEAN, age : 0..Trust]
Answers == {"none", "up", "down"}

Asker ==
    [at : {"idle", "turn", "ask", "probe", "given", "refused"}, project : Providers,
     left : 0..Turns, bound : BOOLEAN, tried : SUBSET Providers,
     time : 0..ProbeLimit, answer : Answers, crossed : BOOLEAN]

PoolTypeOK ==
    /\ turn \in Providers
    /\ cache \in [Providers -> Verdict \cup {Unknown}]
    /\ refresh \in [at : {"asleep", "probing"}, time : Nat, answers : [Providers -> Answers]]
    /\ asker \in [Askers -> Asker]
    /\ has \subseteq Providers
    /\ since \in [Providers -> 0..(SeenWithin + 1)]
    /\ warm \in BOOLEAN

NoAnswers == [p \in Providers |-> "none"]
NoRequest == [at |-> "idle", project |-> 0, left |-> Turns, bound |-> FALSE, tried |-> {},
              time |-> 0, answer |-> "none", crossed |-> FALSE]

\* The task's first pass begins with the server.
PoolInit ==
    /\ turn = 0
    /\ cache = [p \in Providers |-> Unknown]
    /\ refresh = [at |-> "probing", time |-> 0, answers |-> NoAnswers]
    /\ asker = [a \in Askers |-> NoRequest]
    /\ has \in SUBSET Providers
    /\ since = [p \in Providers |-> IF p \in has THEN 0 ELSE SeenWithin + 1]
    /\ warm = FALSE

IsAt(a, where) == asker[a].at = where
Is(a, locals) == asker' = [asker EXCEPT ![a] = locals]
theRest == <<refresh, has, warm>>

(***************************************************************************)
(* A request.                                                              *)
(***************************************************************************)
\* It takes a project in rotation, asks first for that of the pinned room, or
\* has to have the one its practice is bound to.
Begins(a) ==
    /\ IsAt(a, "idle")
    /\ \/ Is(a, [NoRequest EXCEPT !.at = "turn"])
       \/ \E p \in Providers, bound \in BOOLEAN :
            /\ bound \/ p \in Pins
            /\ Is(a, [NoRequest EXCEPT !.at = "ask", !.project = p, !.bound = bound])
    /\ UNCHANGED <<turn, cache, since, theRest>>

After(p) == IF p + 1 = Projects THEN 0 ELSE p + 1

\* The counter is advanced per attempt, and every request advances it: one that
\* has begun its turns is crossed by another's.
InTurn(a) == asker[a].at \in {"turn", "ask", "probe"} /\ asker[a].left < Turns

TakesTurn(a) ==
    /\ IsAt(a, "turn")
    /\ asker' = [b \in Askers |->
           IF b = a THEN [asker[a] EXCEPT !.at = "ask", !.project = turn, !.left = @ - 1]
           ELSE [asker[b] EXCEPT !.crossed = @ \/ InTurn(b)]]
    /\ turn' = After(turn)
    /\ UNCHANGED <<cache, since, theRest>>

\* A verdict sends the request on: to its room, to the next turn, or away.
\* A pinned room that is down is passed over.
AfterVerdict(a, up) ==
    LET locals == asker[a]
        goesOn == ~locals.bound /\ locals.left > 0
        counts == locals.left < Turns
    IN  IF up THEN [NoRequest EXCEPT !.at = "given", !.project = locals.project]
        ELSE [locals EXCEPT !.at = IF goesOn THEN "turn" ELSE "refused",
                            !.time = 0, !.answer = "none",
                            !.tried = IF counts THEN @ \cup {locals.project} ELSE @]

\* verdict_for reads the cache under its lock,
IsFresh(v) == v.age < Trust

Asks(a) ==
    LET v == cache[asker[a].project]
    IN  /\ IsAt(a, "ask")
        /\ Is(a, IF IsFresh(v) THEN AfterVerdict(a, v.up) ELSE [asker[a] EXCEPT !.at = "probe"])
        /\ UNCHANGED <<turn, cache, since, theRest>>

\* What a project says to a probe, or that it says nothing that counts.
Says(p, answer) ==
    \/ answer = IF p \in has THEN "up" ELSE "down"
    \/ answer = "up"
Heard(p, answer) == since' = IF answer = "up" THEN [since EXCEPT ![p] = 0] ELSE since

\* asks the project without it,
IsAnswered(a) ==
    /\ IsAt(a, "probe") /\ asker[a].answer = "none"
    /\ \E answer \in {"up", "down"} :
         /\ Says(asker[a].project, answer) /\ Heard(asker[a].project, answer)
         /\ Is(a, [asker[a] EXCEPT !.answer = answer])
    /\ UNCHANGED <<turn, cache, theRest>>

\* and writes down what it heard over what was written meanwhile.
Stores(a) ==
    LET up == asker[a].answer = "up"
    IN  /\ IsAt(a, "probe") /\ asker[a].answer # "none"
        /\ cache' = [cache EXCEPT ![asker[a].project] = [up |-> up, age |-> 0]]
        /\ Is(a, AfterVerdict(a, up))
        /\ UNCHANGED <<turn, since, theRest>>

\* It is over, or its client is gone while it waits.
Leaves(a) ==
    /\ asker[a].at \in {"probe", "given", "refused"}
    /\ Is(a, NoRequest)
    /\ UNCHANGED <<turn, cache, since, theRest>>

(***************************************************************************)
(* The task.                                                               *)
(***************************************************************************)
RefreshBegins ==
    /\ refresh.at = "asleep" /\ refresh.time = 0
    /\ refresh' = [at |-> "probing", time |-> 0, answers |-> NoAnswers]
    /\ UNCHANGED <<turn, cache, asker, has, since, warm>>

RefreshHears(p) ==
    /\ refresh.at = "probing" /\ refresh.answers[p] = "none"
    /\ \E answer \in {"up", "down"} :
         /\ Says(p, answer) /\ Heard(p, answer)
         /\ refresh' = [refresh EXCEPT !.answers[p] = answer]
    /\ UNCHANGED <<turn, cache, asker, has, warm>>

NewVerdict(p) == [up |-> refresh.answers[p] = "up", age |-> 0]

\* All verdicts are stored at once, when the last has come.
RefreshStores ==
    /\ refresh.at = "probing" /\ \A p \in Providers : refresh.answers[p] # "none"
    /\ cache' = [p \in Providers |-> NewVerdict(p)]
    /\ refresh' = [at |-> "asleep", time |-> Refresh, answers |-> NoAnswers]
    /\ warm' = TRUE
    /\ UNCHANGED <<turn, asker, has, since>>

(***************************************************************************)
(* The projects and the time.                                              *)
(***************************************************************************)
\* A project runs out, is topped up, or has its credential refused or renewed.
Changes(p) ==
    /\ has' = IF p \in has THEN has \ {p} ELSE has \cup {p}
    /\ since' = [since EXCEPT ![p] = IF p \in has THEN @ ELSE 0]
    /\ UNCHANGED <<turn, cache, refresh, asker, warm>>

UpTo(n, limit) == IF n < limit THEN n + 1 ELSE limit

\* No probe goes on past its limit, and the task wakes up when it is time.
NothingIsDue ==
    /\ \A a \in Askers : IsAt(a, "probe") => asker[a].time < ProbeLimit
    /\ refresh.at = "probing" => refresh.time < ProbeLimit
    /\ refresh.at = "asleep" => refresh.time > 0

PoolTick ==
    /\ NothingIsDue
    /\ cache' = [p \in Providers |->
           IF cache[p] = Unknown THEN Unknown ELSE [cache[p] EXCEPT !.age = UpTo(@, Trust)]]
    /\ asker' = [a \in Askers |->
           IF IsAt(a, "probe") THEN [asker[a] EXCEPT !.time = @ + 1] ELSE asker[a]]
    /\ refresh' = [refresh EXCEPT !.time = IF refresh.at = "asleep" THEN @ - 1 ELSE @ + 1]
    /\ since' = [p \in Providers |-> IF p \in has THEN 0 ELSE UpTo(since[p], SeenWithin + 1)]
    /\ UNCHANGED <<turn, has, warm>>

RefreshStep == RefreshBegins \/ RefreshStores \/ \E p \in Providers : RefreshHears(p)

AskerStep(a) ==
    Begins(a) \/ TakesTurn(a) \/ Asks(a) \/ IsAnswered(a) \/ Stores(a) \/ Leaves(a)

PoolNext ==
    \/ RefreshStep
    \/ \E a \in Askers : AskerStep(a)
    \/ \E p \in Providers : Changes(p)
    \/ PoolTick

PoolSpec == PoolInit /\ [][PoolNext]_poolVars

(***************************************************************************)
(* What it is for.                                                         *)
(***************************************************************************)
\* A project that a request is given took a connection not long ago, or left a
\* probe without an answer: no verdict is believed for much longer than it takes
\* the task to ask again, whoever wrote it down and in whatever order.
GivenWasUp ==
    [][\A a \in Askers :
        ~IsAt(a, "given") /\ IsAt(a, "given")' => since[asker'[a].project] <= SeenWithin]_poolVars

\* Once the task has asked every project no request waits for a probe: a verdict
\* is replaced before it expires.
RequestsDoNotProbe ==
    [][\A a \in Askers : warm /\ ~IsAt(a, "probe") => ~IsAt(a, "probe")']_poolVars

\* A request that is refused, and whose turns no other request came between, was
\* told of every project that it is down.
LoneRefusalsAskedAll ==
    \A a \in Askers :
        IsAt(a, "refused") /\ ~asker[a].bound /\ ~asker[a].crossed => asker[a].tried = Providers

\* What a request gets of the pool: a project that works, without a wait for a
\* probe, or a refusal by all of them (room_and_available_provider and
\* spawn_provider_quota_refresher, pool.rs).
PoolServes == GivenWasUp /\ RequestsDoNotProbe /\ []LoneRefusalsAskedAll
=============================================================================
