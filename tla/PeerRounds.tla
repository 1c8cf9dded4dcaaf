----------------------------- MODULE PeerRounds -----------------------------
(***************************************************************************)
(* One peer practice: the session document that requests, the settlement   *)
(* sweep and the start handler share, its two rounds, and the feedback of  *)
(* both members.  PeerEditor has the code that is written in a round.      *)
(*                                                                         *)
(* Every request is one transaction: load, settle, the request, save.  An  *)
(* action is a transaction that does something; a request that is refused  *)
(* still saves what was settled, which is SettleSession.  The version is   *)
(* only compared for equality and never comes back, so a copy of it is     *)
(* kept as whether it is current.                                          *)
(***************************************************************************)
EXTENDS PeerRoundState

CONSTANTS
    InviteTime, PairTime, HardTime,     \* as in PeerLife
    IdleTime            \* 600 s: a lobby nobody is seen in is given up

ASSUME SessionTimes ==
    /\ InviteTime \in Nat \ {0} /\ PairTime \in Nat \ {0} /\ HardTime \in Nat \ {0}
    /\ PairTime <= InviteTime
    /\ IdleTime \in Nat \ {0}
    /\ 2 * RoundTime <= HardTime            \* valid_settings

VARIABLES
    session,    \* the session document with its members
    rounds,     \* its rounds
    active,     \* the members with a row for this session in peer_active_users
    calls,      \* the start handlers that carry the session's current version
    submitted,  \* who has submitted feedback on each round
    shown       \* history: who read the partner's feedback before writing theirs

docVars == <<session, rounds, active>>
talkVars == <<submitted, shown>>
roundsVars == <<docVars, calls, talkVars>>

Slots == {0, 1}
Rounds == {0, 1}
NoRound == 2

Statuses == {"pending", "lobby", "active", "cancelled", "complete", "finalizing"}

\* Sets of members; `idle' is the time since the last member was seen.
Session ==
    [status : Statuses, paired : BOOLEAN, joined : BOOLEAN,
     age : 0..InviteTime, hard : 0..HardTime, current : {0, 1, NoRound},
     idle : 0..IdleTime, entered : SUBSET Slots, ready : SUBSET Slots,
     confirmed : SUBSET Slots, consented : SUBSET Slots, swap : SUBSET Slots]

RoundsTypeOK ==
    /\ session \in Session
    /\ rounds \in [Rounds -> Round]
    /\ active \subseteq Slots
    /\ calls \subseteq Slots
    /\ submitted \in [Rounds -> SUBSET Slots]
    /\ shown \in [Rounds -> SUBSET Slots]

\* An invitation has one member; a pair of the lobby has both and their consent.
RoundsInit ==
    /\ \E paired \in BOOLEAN :
         session =
            [status |-> "pending", paired |-> paired, joined |-> paired,
             age |-> 0, hard |-> HardTime, current |-> NoRound, idle |-> 0,
             entered |-> {}, ready |-> {}, confirmed |-> {},
             consented |-> IF paired THEN Slots ELSE {}, swap |-> {}]
    /\ rounds = [i \in Rounds |-> NoRoundYet]
    /\ active = {} /\ calls = {}
    /\ submitted = [i \in Rounds |-> {}]
    /\ shown = [i \in Rounds |-> {}]

(***************************************************************************)
(* Settlement.  A document is a session with its rounds.                   *)
(***************************************************************************)

Doc == [s |-> session, r |-> rounds]

Closed(s) == s.status \in {"cancelled", "complete", "finalizing"}
Live(s) == s.status \in {"lobby", "active"}

\* What terminating, cancelling and the hard deadline do to the rounds: a round
\* that has not begun is sealed as well.
SealAll(rs) ==
    [i \in Rounds |->
        IF rs[i].status \in {"none", "feedback"} THEN rs[i] ELSE Seal(rs[i], TRUE)]

\* Mutant: a pair of the lobby may come as late as an invited partner.
SettlePendingInTime(s) ==
    IF s.status = "pending" /\ s.age >= InviteTime
    THEN [s EXCEPT !.status = "cancelled"]
    ELSE s

SettlePending(s) ==
    IF s.status = "pending" /\ (s.age >= InviteTime \/ (s.paired /\ s.age >= PairTime))
    THEN [s EXCEPT !.status = "cancelled"]
    ELSE s

\* Mutant: the lobby is given up, the confirmations are kept.
SettleLobbyKeepsConfirmations(s) ==
    IF s.status = "lobby" /\ s.idle >= IdleTime
    THEN [s EXCEPT !.status = "pending", !.entered = {}, !.ready = {}]
    ELSE s

SettleLobby(s) ==
    IF s.status = "lobby" /\ s.idle >= IdleTime
    THEN [s EXCEPT !.status = "pending", !.entered = {}, !.ready = {}, !.confirmed = {}]
    ELSE s

SettleHard(d) ==
    IF d.s.current # NoRound /\ d.s.hard = 0 /\ ~Closed(d.s)
    THEN [s |-> [d.s EXCEPT !.status = "finalizing"], r |-> SealAll(d.r)]
    ELSE d

SettleCurrent(d) ==
    IF d.s.current = NoRound THEN d
    ELSE [d EXCEPT !.r[d.s.current] = SettledRound(@)]

Settle(d) ==
    SettleCurrent(SettleHard([d EXCEPT !.s = SettleLobby(SettlePending(@))]))

\* The document a transaction acts on.
Now == Settle(Doc)

\* A request that carries the version the settled session has.
Seen == Now = Doc

\* Mutant: only a session that is over gives its members free.
RowsUntilClosed == IF Closed(Now.s) THEN {} ELSE active

\* Settlement deletes the rows of a session that is closed or pending.
Rows == IF Closed(Now.s) \/ Now.s.status = "pending" THEN {} ELSE active

\* What a transaction writes that bumps the version: a start handler that
\* carries the old one will be refused.
Bumps(s, r) == session' = s /\ rounds' = r /\ calls' = {}

\* ... and one that does not, unless its settlement did.
Saves(s, r) ==
    /\ session' = s /\ rounds' = r
    /\ calls' = IF Seen THEN calls ELSE {}

\* The sweep every five seconds, a GET, and every request that is refused.
SettleSession ==
    /\ ~Seen
    /\ Bumps(Now.s, Now.r) /\ active' = Rows
    /\ UNCHANGED talkVars

(***************************************************************************)
(* The lobby                                                               *)
(***************************************************************************)

IsMember(x) == x = 0 \/ session.joined

\* accept_on: the partner takes the one place there is.
Accept ==
    /\ ~session.joined /\ Now.s.status = "pending"
    /\ Bumps([Now.s EXCEPT !.joined = TRUE], Now.r)
    /\ active' = Rows
    /\ UNCHANGED talkVars

\* Neither practices elsewhere, or the request is refused.
Enter(x) ==
    /\ session.joined /\ ~Closed(Now.s)
    /\ Bumps([Now.s EXCEPT !.entered = @ \union {x}, !.idle = 0,
                           !.status = IF Now.s.current = NoRound THEN "lobby" ELSE @], Now.r)
    /\ active' = Rows \union {x}
    /\ UNCHANGED talkVars

Leave(x) ==
    /\ IsMember(x) /\ ~Closed(Now.s)
    /\ Bumps([Now.s EXCEPT !.entered = @ \ {x}, !.ready = @ \ {x}, !.idle = 0,
                           !.confirmed = IF Now.s.current = NoRound THEN {} ELSE @], Now.r)
    /\ active' = Rows \ {x}
    /\ UNCHANGED talkVars

\* A page that is open says so, whether its member has entered or not.
Heartbeat(x) ==
    /\ IsMember(x) /\ ~Closed(Now.s)
    /\ Saves([Now.s EXCEPT !.idle = 0], Now.r)
    /\ active' = Rows
    /\ UNCHANGED talkVars

BothEntered(s) == s.joined /\ s.entered = Slots

Ready(x, value) ==
    /\ Seen /\ ~Closed(session)
    /\ BothEntered(session) /\ session.current = NoRound
    /\ Bumps([session EXCEPT !.ready = IF value THEN @ \union {x} ELSE @ \ {x},
                             !.confirmed = {}], rounds)
    /\ UNCHANGED <<active, talkVars>>

\* The creator replaces or revokes an invitation nobody has taken.
Reinvite ==
    /\ Seen /\ ~session.joined /\ session.status = "pending"
    /\ Bumps(session, rounds)
    /\ UNCHANGED <<active, talkVars>>

CancelOrTerminate(x) ==
    /\ Seen /\ IsMember(x) /\ ~Closed(session)
    /\ \E end \in {"cancelled", "finalizing"} :
         Bumps([session EXCEPT !.status = end], SealAll(rounds))
    /\ active' = {}
    /\ UNCHANGED talkVars

MayStart(s) == ~Closed(s) /\ s.current = NoRound /\ BothEntered(s) /\ s.ready = Slots

\* start::prepare: the consent is committed, and the handler goes on with the
\* version it has seen.
PrepareStart(x) ==
    /\ Seen /\ MayStart(session)
    /\ session' = [session EXCEPT !.consented = @ \union {x}]
    /\ calls' = {x} \union IF x \in session.consented THEN calls ELSE {}
    /\ UNCHANGED <<rounds, active, talkVars>>

\* The observer could not join, or no two problems are left.
StartIsRefused(x) ==
    /\ x \in calls /\ Seen
    /\ calls' = calls \ {x}
    /\ UNCHANGED <<docVars, talkVars>>

NewRounds ==
    [i \in Rounds |->
        IF i = 0 THEN Begin(NoRoundYet, RoundTime)
                 ELSE [NoRoundYet EXCEPT !.status = "prepared"]]

\* rounds::action checks again what prepare checked.
ConfirmStart(x) ==
    /\ x \in calls /\ Seen /\ MayStart(session)
    /\ LET s == [session EXCEPT !.consented = @ \union {x}, !.confirmed = @ \union {x}] IN
       IF s.confirmed = Slots
       THEN Bumps([s EXCEPT !.status = "active", !.current = 0, !.hard = HardTime], NewRounds)
       ELSE Bumps(s, rounds)
    /\ UNCHANGED <<active, talkVars>>

(***************************************************************************)
(* The rounds                                                              *)
(***************************************************************************)

\* Either member ends the round; its code is awaited for the grace.
Finish(x) ==
    /\ Seen /\ ~Closed(session) /\ session.current # NoRound
    /\ rounds[session.current].status = "active"
    /\ Bumps(session, [rounds EXCEPT ![session.current] = AwaitCode(@)])
    /\ UNCHANGED <<active, talkVars>>

\* The final save of a finishing round seals it (PeerEditor's StoreSave).
CodeArrives ==
    /\ Now.s.current # NoRound /\ Now.r[Now.s.current].status = "finishing"
    /\ Bumps(Now.s, [Now.r EXCEPT ![Now.s.current] = Seal(@, FALSE)])
    /\ active' = Rows
    /\ UNCHANGED talkVars

MayAdvance(x) ==
    /\ Seen /\ ~Closed(session) /\ session.current # NoRound
    /\ Sealed(rounds[session.current])
    /\ session.current = 0 => x \in submitted[0]

Smaller(a, b) == IF a < b THEN a ELSE b

\* The first confirmation waits for the second.
ConfirmSwap(x) ==
    /\ MayAdvance(x)
    /\ session.swap \union {x} # Slots
    /\ Bumps([session EXCEPT !.swap = @ \union {x}], rounds)
    /\ UNCHANGED <<active, talkVars>>

\* The second swaps the roles, and round 1 starts within the hard deadline.
SwapRoles(x) ==
    /\ MayAdvance(x)
    /\ session.swap \union {x} = Slots /\ session.current = 0
    /\ Bumps([session EXCEPT !.swap = {}, !.current = 1],
             [rounds EXCEPT ![1] = Begin(@, Smaller(RoundTime, session.hard))])
    /\ UNCHANGED <<active, talkVars>>

\* ... or completes the session after round 1.
Complete(x) ==
    /\ MayAdvance(x)
    /\ session.swap \union {x} = Slots /\ session.current = 1
    /\ Bumps([session EXCEPT !.swap = {}, !.status = "complete"], rounds)
    /\ active' = {}
    /\ UNCHANGED talkVars

(***************************************************************************)
(* Feedback.  A draft is shown to its author alone, and may be replaced.   *)
(***************************************************************************)

GiveFeedback(x, i) ==
    /\ Sealed(Now.r[i]) /\ x \notin submitted[i]
    /\ submitted' = [submitted EXCEPT ![i] = @ \union {x}]
    /\ Saves(Now.s, Now.r) /\ active' = Rows
    /\ UNCHANGED shown

DayIsOver(i) == Sealed(Now.r[i]) /\ Now.r[i].sealed >= BlindTime

\* Mutant: one submission shows everything that was submitted.
RevealedByOne(i) == submitted[i] # {}

\* read_feedback's `revealed'.
Revealed(i) == submitted[i] = Slots \/ DayIsOver(i)

\* The history is of readers who have yet to write, within the day.
ReadFeedback(x, i) ==
    /\ Now.r[i].status # "none"
    /\ Revealed(i) /\ (1 - x) \in submitted[i]
    /\ shown' = IF x \in submitted[i] \/ DayIsOver(i) THEN shown
                ELSE [shown EXCEPT ![i] = @ \union {x}]
    /\ Saves(Now.s, Now.r) /\ active' = Rows
    /\ UNCHANGED submitted

(***************************************************************************)
(* Time, and the whole                                                     *)
(***************************************************************************)

\* The idle time is compared in the lobby, the deadline after the start.
Tick ==
    /\ session' = [session EXCEPT
                    !.age = Up(@, InviteTime),
                    !.idle = IF session.status = "lobby" THEN Up(@, IdleTime) ELSE @,
                    !.hard = IF session.status = "active" THEN Down(@, 0) ELSE @]
    /\ rounds' = [i \in Rounds |-> RoundAfterTick(rounds[i])]
    /\ UNCHANGED <<active, calls, talkVars>>

MemberStep(x) ==
    \/ Enter(x)
    \/ Leave(x)
    \/ Heartbeat(x)
    \/ \E value \in BOOLEAN : Ready(x, value)
    \/ CancelOrTerminate(x)
    \/ PrepareStart(x)
    \/ StartIsRefused(x)
    \/ ConfirmStart(x)
    \/ Finish(x)
    \/ ConfirmSwap(x)
    \/ SwapRoles(x)
    \/ Complete(x)
    \/ \E i \in Rounds : GiveFeedback(x, i) \/ ReadFeedback(x, i)

RoundsNext ==
    \/ SettleSession
    \/ Accept
    \/ Reinvite
    \/ \E x \in Slots : MemberStep(x)
    \/ CodeArrives
    \/ Tick

RoundsSpec == RoundsInit /\ [][RoundsNext]_roundsVars

(***************************************************************************)
(* Properties                                                              *)
(***************************************************************************)

\* A confirmation of the start is of what is there now: whoever has confirmed
\* has agreed to the observer, and both members are still there and ready.
\* Leaving, taking the readiness back and the lobby running empty each have to
\* take the confirmations back (rounds.rs, settle).
ConfirmationIsCurrent ==
    session.current = NoRound /\ session.confirmed # {} =>
        /\ session.confirmed \subseteq session.consented
        /\ session.entered = Slots /\ session.ready = Slots

\* A member's row names this session exactly while they are in it, so nobody is
\* kept out of the next practice by one that is over, was given up or was left,
\* and nobody enters a second one meanwhile (peer_active_users).
OnePlaceAtATime ==
    active = IF Live(session) THEN session.entered ELSE {}

\* Nobody writes their feedback on a round after reading the partner's, unless
\* the day is over in which it could have been written blind (read_feedback).
FeedbackIsBlind ==
    [][\A i \in Rounds : (submitted'[i] \ submitted[i]) \cap shown[i] = {}]_roundsVars

\* The session is the life the observer is built on: it begins in time, starts
\* with the consent of both, and once over stays over (PeerLife).
Life == INSTANCE PeerLife WITH
    phase <- IF Closed(session) THEN "closed" ELSE session.status,
    paired <- session.paired,
    agreed <- session.consented = Slots,
    age <- session.age,
    hard <- session.hard
ImplementsLife == Life!LifeSpec

=============================================================================
