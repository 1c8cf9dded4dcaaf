------------------------------ MODULE PeerLife ------------------------------
(***************************************************************************)
(* The life of a peer practice as the rest of the system sees it: when it  *)
(* may still begin, when it runs, and that it is over for good.  The       *)
(* session document (PeerRounds) implements it, and the observer           *)
(* (PeerObservation) is built on it.                                       *)
(*                                                                         *)
(* Times are counted in ticks up to the limits the code compares them      *)
(* with; beyond a limit no code tells two times apart.                     *)
(***************************************************************************)
EXTENDS Naturals

CONSTANTS
    InviteTime,     \* invite_ttl_days: a pending session lasts this long
    PairTime,       \* 600 s: a pending session the lobby paired lasts this long
    HardTime        \* hard_max_minutes: a started session lasts this long

ASSUME LifeTimes ==
    /\ InviteTime \in Nat \ {0} /\ PairTime \in Nat \ {0} /\ HardTime \in Nat \ {0}
    /\ PairTime <= InviteTime

VARIABLES
    phase,      \* "pending", "lobby", "active" or "closed"
    paired,     \* the session comes from the discovery lobby
    agreed,     \* both members have agreed to the observer
    age,        \* time since the session was created
    hard        \* time left until the hard deadline, which a start sets

lifeVars == <<phase, paired, agreed, age, hard>>

Phases == {"pending", "lobby", "active", "closed"}

TypeOfLife ==
    /\ phase \in Phases
    /\ paired \in BOOLEAN /\ agreed \in BOOLEAN
    /\ age \in 0..InviteTime /\ hard \in 0..HardTime

\* A pair has agreed to the observer before it has a session.
InitLife ==
    /\ phase = "pending"
    /\ paired \in BOOLEAN /\ agreed = paired
    /\ age = 0 /\ hard = HardTime

\* A pending session nobody enters any more is a no-show.
Expired == age >= InviteTime \/ (paired /\ age >= PairTime)

Up(n, limit) == IF n < limit THEN n + 1 ELSE limit
Down(n) == IF n > 0 THEN n - 1 ELSE 0

LifeTick ==
    /\ age' = Up(age, InviteTime)
    /\ hard' = IF phase = "active" THEN Down(hard) ELSE hard
    /\ UNCHANGED <<phase, paired, agreed>>

Agree ==
    /\ phase = "lobby" /\ ~agreed
    /\ agreed' = TRUE
    /\ UNCHANGED <<phase, paired, age, hard>>

Become(next) ==
    /\ phase' = next
    /\ UNCHANGED <<paired, agreed, age, hard>>

\* Somebody enters in time.
EnterLobby == phase = "pending" /\ ~Expired /\ Become("lobby")

\* Nobody has been seen in the lobby for ten minutes.
LobbyEmpties == phase = "lobby" /\ Become("pending")

\* The second member confirms a start both have agreed to.
StartRound ==
    /\ phase = "lobby" /\ agreed
    /\ Become("active")

\* A no-show, a member who cancels or terminates, the last round, or the hard
\* deadline.
Close == phase # "closed" /\ Become("closed")

\* A session that is due is closed by whoever looks at it next, so an active
\* one is not seen past its hard deadline.
LifeStep ==
    \/ Agree
    \/ EnterLobby
    \/ LobbyEmpties
    \/ StartRound
    \/ Close

LifeNext == LifeTick \/ LifeStep

LifeSpec == InitLife /\ [][LifeNext]_lifeVars

=============================================================================
