---------------------------- MODULE Peer_proofs ----------------------------
(***************************************************************************)
(* What holds of a peer practice for every length of its rounds, deadlines *)
(* and leases, for every set of pages and any number of saves on their     *)
(* way.  Of the session: its document is well typed, a confirmed start is  *)
(* current, nobody is in two places, and it implements PeerLife.  Of the   *)
(* code of a round: what is sealed stays, and saves take their order.      *)
(***************************************************************************)
EXTENDS PeerRounds, PeerEditor, TLAPS

(***************************************************************************)
(* A round stays a round, whatever the session and the editor do to it     *)
(***************************************************************************)

\* The provers need the bounds of a round's times as facts of their own.
LeftTimes == (-FinishGrace)..RoundTime
SealTimes == 0..BlindTime

LEMMA RoundBounds ==
    /\ 0 \in LeftTimes /\ FinishGrace \in LeftTimes /\ 0 \in SealTimes
    /\ \A time \in 0..RoundTime : time \in LeftTimes
    /\ \A left \in LeftTimes : left <= 0 => left + FinishGrace \in LeftTimes
    /\ \A left \in LeftTimes : Down(left, -FinishGrace) \in LeftTimes
    /\ \A left \in LeftTimes : Down(left, 0) \in LeftTimes
    /\ \A time \in SealTimes : Up(time, BlindTime) \in SealTimes
BY RoundTimes DEF LeftTimes, SealTimes, Up, Down

LEMMA RoundFields ==
    Round = [status : RoundStatuses, left : LeftTimes, incomplete : BOOLEAN, sealed : SealTimes]
BY DEF Round, LeftTimes, SealTimes

LEMMA RoundStatusNames ==
    /\ "none" \in RoundStatuses /\ "prepared" \in RoundStatuses
    /\ "active" \in RoundStatuses /\ "finishing" \in RoundStatuses
    /\ "feedback" \in RoundStatuses
BY DEF RoundStatuses

LEMMA NothingIsRound == NoRoundYet \in Round
BY RoundBounds, RoundFields, RoundStatusNames DEF NoRoundYet

\* A round stays one whatever is done to it.
LEMMA RoundStaysTyped ==
    ASSUME NEW r \in Round
    PROVE  /\ \A time \in 0..RoundTime : Begin(r, time) \in Round
           /\ AwaitCode(r) \in Round
           /\ \A incomplete \in BOOLEAN : Seal(r, incomplete) \in Round
           /\ [r EXCEPT !.status = "prepared"] \in Round
BY RoundBounds, RoundFields, RoundStatusNames DEF Begin, AwaitCode, Seal

LEMMA TickKeepsRound ==
    ASSUME NEW r \in Round
    PROVE  RoundAfterTick(r) \in Round
<1> DEFINE left == CASE r.status = "active" -> Down(r.left, -FinishGrace)
                     [] r.status = "finishing" -> Down(r.left, 0)
                     [] OTHER -> r.left
           sealed == IF Sealed(r) THEN Up(r.sealed, BlindTime) ELSE r.sealed
<1>1. r.left \in LeftTimes /\ r.sealed \in SealTimes
  BY RoundFields
<1>2. left \in LeftTimes
  <2>1. CASE r.status = "active"
    BY <1>1, <2>1, RoundBounds
  <2>2. CASE r.status = "finishing"
    BY <1>1, <2>2, RoundBounds
  <2>3. CASE r.status # "active" /\ r.status # "finishing"
    BY <1>1, <2>3
  <2> QED BY <2>1, <2>2, <2>3
<1>3. sealed \in SealTimes
  BY <1>1, RoundBounds
<1>4. RoundAfterTick(r) = [r EXCEPT !.left = left, !.sealed = sealed]
  BY DEF RoundAfterTick
<1> HIDE DEF left, sealed
<1> QED BY <1>2, <1>3, <1>4, RoundFields

\* Settlement of a round keeps its type ...
LEMMA SettledRoundType ==
    ASSUME NEW r \in Round
    PROVE  SettledRound(r) \in Round
<1> DEFINE f == FinishOverdue(r)
<1>1. r.left \in LeftTimes
  BY RoundFields
<1>2. f \in Round
  BY <1>1, RoundBounds, RoundFields, RoundStatusNames DEF FinishOverdue
<1>3. Seal(f, TRUE) \in Round
  BY <1>2, RoundStaysTyped
<1> QED BY <1>2, <1>3 DEF SettledRound, SealOverdue

\* ... leaves a sealed one alone, and seals one only for want of its code.
LEMMA SettledRoundSeals ==
    ASSUME NEW r \in Round
    PROVE  /\ Sealed(r) => SettledRound(r) = r
           /\ Sealed(SettledRound(r)) => Sealed(r) \/ SettledRound(r).incomplete
BY DEF SettledRound, SealOverdue, FinishOverdue, Seal, Sealed, Round

(***************************************************************************)
(* The inductive invariant of the session                                  *)
(***************************************************************************)

\* What is true of the document before settlement and after it: nobody is in a
\* session that has not begun; one that is not over has a round exactly while it
\* is active; the hard deadline runs from the start, so before it nothing of it is
\* used up; and a confirmation is current.
Sound(s) ==
    /\ s \in Session
    /\ s.status = "pending" => s.entered = {}
    /\ ~Closed(s) => (s.status = "active" <=> s.current # NoRound)
    /\ s.current = NoRound => s.hard = HardTime
    /\ s.current = NoRound /\ s.confirmed # {} =>
           s.confirmed \subseteq s.consented /\ s.entered = Slots /\ s.ready = Slots

\* The rows a document comes with.
RowsOf(s) == IF Live(s) THEN s.entered ELSE {}

\* A handler that goes on with a start has committed its member's consent.
RoundsInv ==
    /\ RoundsTypeOK
    /\ Sound(session)
    /\ active = RowsOf(session)
    /\ calls \subseteq session.consented

(***************************************************************************)
(* Rounds and settlement                                                   *)
(***************************************************************************)

LEMMA SealAllType ==
    ASSUME NEW rs \in [Rounds -> Round]
    PROVE  SealAll(rs) \in [Rounds -> Round]
BY RoundStaysTyped DEF SealAll

LEMMA StatusNames ==
    /\ "pending" \in Statuses /\ "lobby" \in Statuses /\ "active" \in Statuses
    /\ "cancelled" \in Statuses /\ "complete" \in Statuses /\ "finalizing" \in Statuses
BY DEF Statuses

\* What settlement makes of the session: nothing, or one of three ends of a
\* phase.  In particular a session it leaves in the lobby or active is as it was.
LEMMA SettledSession ==
    ASSUME RoundsInv
    PROVE  /\ Now.s \in Session
           /\ Now.r \in [Rounds -> Round]
           /\ \/ /\ Now.s = session
                 /\ session.status = "pending" =>
                        session.age < InviteTime /\ (session.paired => session.age < PairTime)
              \/ session.status = "pending" /\ Now.s = [session EXCEPT !.status = "cancelled"]
              \/ /\ session.status = "lobby"
                 /\ Now.s = [session EXCEPT !.status = "pending", !.entered = {},
                                            !.ready = {}, !.confirmed = {}]
              \/ session.status = "active" /\ Now.s = [session EXCEPT !.status = "finalizing"]
<1> DEFINE p == SettlePending(session)
           l == SettleLobby(p)
           d == [s |-> l, r |-> rounds]
           h == SettleHard(d)
<1>0. session \in Session /\ rounds \in [Rounds -> Round]
  BY DEF RoundsInv, RoundsTypeOK
<1>1. /\ l \in Session /\ l.current = session.current /\ l.hard = session.hard
      /\ \/ /\ l = session
            /\ session.status = "pending" =>
                   session.age < InviteTime /\ (session.paired => session.age < PairTime)
         \/ session.status = "pending" /\ l = [session EXCEPT !.status = "cancelled"]
         \/ /\ session.status = "lobby"
            /\ l = [session EXCEPT !.status = "pending", !.entered = {},
                                   !.ready = {}, !.confirmed = {}]
  <2>1. session.age \in Nat /\ InviteTime \in Nat /\ PairTime \in Nat
    BY <1>0, SessionTimes DEF Session
  <2>2. /\ p \in Session /\ p.current = session.current /\ p.hard = session.hard
        /\ \/ /\ p = session
              /\ session.status = "pending" =>
                     session.age < InviteTime /\ (session.paired => session.age < PairTime)
           \/ session.status = "pending" /\ p = [session EXCEPT !.status = "cancelled"]
    BY <1>0, <2>1, StatusNames DEF SettlePending, Session
  <2>3. CASE p.status = "lobby" /\ p.idle >= IdleTime
    <3>1. p = session
      BY <1>0, <2>2, <2>3 DEF Session
    <3>2. l = [session EXCEPT !.status = "pending", !.entered = {},
                              !.ready = {}, !.confirmed = {}]
      BY <2>3, <3>1 DEF SettleLobby
    <3>3. {} \in SUBSET Slots
      OBVIOUS
    <3> QED BY <1>0, <2>3, <3>1, <3>2, <3>3, StatusNames DEF Session
  <2>4. CASE ~(p.status = "lobby" /\ p.idle >= IdleTime)
    <3>1. l = p
      BY <2>4 DEF SettleLobby
    <3> QED BY <2>2, <3>1
  <2> QED BY <2>3, <2>4
<1>2. /\ h.s \in Session /\ h.r \in [Rounds -> Round]
      /\ h.s.current = session.current
      /\ \/ h.s = l
         \/ session.status = "active" /\ h.s = [session EXCEPT !.status = "finalizing"]
  <2>1. CASE l.current # NoRound /\ l.hard = 0 /\ ~Closed(l)
    <3>1. l = session /\ session.status = "active"
      BY <1>0, <1>1, <2>1 DEF RoundsInv, Sound, Closed, Session, Statuses
    <3>2. h = [s |-> [l EXCEPT !.status = "finalizing"], r |-> SealAll(rounds)]
      BY <2>1 DEF SettleHard
    <3> QED BY <1>0, <3>1, <3>2, SealAllType DEF Session, Statuses
  <2>2. CASE ~(l.current # NoRound /\ l.hard = 0 /\ ~Closed(l))
    <3>1. h = d
      BY <2>2 DEF SettleHard
    <3> QED BY <1>0, <1>1, <3>1
  <2> QED BY <2>1, <2>2
<1>3. Now = SettleCurrent(h)
  BY DEF Now, Settle, Doc
<1>4. Now.s = h.s /\ Now.r \in [Rounds -> Round]
  <2>1. CASE h.s.current = NoRound
    BY <1>2, <1>3, <2>1 DEF SettleCurrent
  <2>2. CASE h.s.current # NoRound
    <3>1. h.s.current \in Rounds
      BY <1>2, <2>2 DEF Session, Rounds, NoRound
    <3>2. SettledRound(h.r[h.s.current]) \in Round
      BY <1>2, <3>1, SettledRoundType
    <3>3. Now = [h EXCEPT !.r = [h.r EXCEPT ![h.s.current] = SettledRound(h.r[h.s.current])]]
      BY <1>3, <2>2 DEF SettleCurrent
    <3>4. h = [s |-> h.s, r |-> h.r]
      BY DEF SettleHard
    <3> QED BY <1>2, <3>1, <3>2, <3>3, <3>4
  <2> QED BY <2>1, <2>2
<1> QED BY <1>1, <1>2, <1>4

\* The document after settlement is as sound as the one before, no consent is
\* taken back, and the rows are those of the settled document.
LEMMA SettledIsSound ==
    ASSUME RoundsInv
    PROVE  /\ Sound(Now.s) /\ Now.r \in [Rounds -> Round]
           /\ Now.s.consented = session.consented /\ Now.s.joined = session.joined
           /\ Rows = RowsOf(Now.s) /\ Rows \subseteq Slots
<1>1. Now.s \in Session /\ Now.r \in [Rounds -> Round]
  BY SettledSession
<1>2. session \in Session /\ Sound(session) /\ active = RowsOf(session)
  BY DEF RoundsInv, RoundsTypeOK
<1>3. CASE Now.s = session
  BY <1>1, <1>2, <1>3 DEF Rows, RowsOf, Live, Closed, Session
<1>4. CASE session.status = "pending" /\ Now.s = [session EXCEPT !.status = "cancelled"]
  BY <1>1, <1>2, <1>4 DEF Sound, Rows, RowsOf, Live, Closed, Session
<1>5. CASE /\ session.status = "lobby"
           /\ Now.s = [session EXCEPT !.status = "pending", !.entered = {},
                                      !.ready = {}, !.confirmed = {}]
  BY <1>1, <1>2, <1>5 DEF Sound, Rows, RowsOf, Live, Closed, Session
<1>6. CASE session.status = "active" /\ Now.s = [session EXCEPT !.status = "finalizing"]
  BY <1>1, <1>2, <1>6 DEF Sound, Rows, RowsOf, Live, Closed, Session
<1> QED BY <1>1, <1>3, <1>4, <1>5, <1>6, SettledSession

(***************************************************************************)
(* The invariant is inductive                                              *)
(***************************************************************************)

LEMMA RoundsInvInit == RoundsInit => RoundsInv
<1> SUFFICES ASSUME RoundsInit PROVE RoundsInv
  OBVIOUS
<1>1. 0 \in 0..InviteTime /\ HardTime \in 0..HardTime /\ 0 \in 0..IdleTime
  BY SessionTimes
<1>2. session \in Session
  BY <1>1, StatusNames DEF RoundsInit, Session
<1>3. Sound(session) /\ active = RowsOf(session)
  BY <1>2 DEF RoundsInit, Sound, RowsOf, Closed, Live
<1>4. rounds \in [Rounds -> Round] /\ active \subseteq Slots /\ calls \subseteq Slots
  BY NothingIsRound DEF RoundsInit
<1>5. submitted \in [Rounds -> SUBSET Slots] /\ shown \in [Rounds -> SUBSET Slots]
  BY DEF RoundsInit
<1>6. calls \subseteq session.consented
  BY DEF RoundsInit
<1> QED BY <1>2, <1>3, <1>4, <1>5, <1>6 DEF RoundsInv, RoundsTypeOK

LEMMA RoundsInvStep == RoundsInv /\ [RoundsNext]_roundsVars => RoundsInv'
<1> SUFFICES ASSUME RoundsInv, [RoundsNext]_roundsVars PROVE RoundsInv'
  OBVIOUS
<1> USE DEF RoundsInv, RoundsTypeOK
<1>0. /\ Sound(Now.s) /\ Now.s \in Session /\ Now.r \in [Rounds -> Round]
      /\ Now.s.consented = session.consented /\ Now.s.joined = session.joined
      /\ Rows = RowsOf(Now.s) /\ Rows \subseteq Slots
      /\ NoRound \notin Rounds
  BY SettledIsSound DEF Sound, NoRound, Rounds
<1>1. CASE SettleSession
  BY <1>0, <1>1 DEF SettleSession, Bumps, talkVars
<1>2. CASE Accept
  <2>1. session' \in Session /\ Sound(session') /\ Rows = RowsOf(session')
    BY <1>0, <1>2, StatusNames DEF Accept, Bumps, Sound, RowsOf, Closed, Live, Session
  <2> QED BY <1>0, <1>2, <2>1 DEF Accept, Bumps, talkVars
<1>3. CASE Reinvite
  BY <1>0, <1>3 DEF Reinvite, Bumps, talkVars
<1>4. ASSUME NEW x \in Slots, Enter(x) PROVE RoundsInv'
  <2>1. 0 \in 0..IdleTime
    BY SessionTimes
  <2>2. session' \in Session
    BY <1>0, <1>4, <2>1, StatusNames DEF Enter, Bumps, Session
  <2>3. Sound(session') /\ active' = RowsOf(session') /\ active' \subseteq Slots
    BY <1>0, <1>4, <2>2 DEF Enter, Bumps, Sound, RowsOf, Closed, Live, Session, Statuses
  <2> QED BY <1>0, <1>4, <2>2, <2>3 DEF Enter, Bumps, talkVars
<1>5. ASSUME NEW x \in Slots, Leave(x) PROVE RoundsInv'
  <2>1. 0 \in 0..IdleTime
    BY SessionTimes
  <2>2. session' \in Session
    BY <1>0, <1>5, <2>1, StatusNames DEF Leave, Bumps, Session
  <2>3. Sound(session') /\ active' = RowsOf(session') /\ active' \subseteq Slots
    BY <1>0, <1>5, <2>2 DEF Leave, Bumps, Sound, RowsOf, Closed, Live, Session, Statuses
  <2> QED BY <1>0, <1>5, <2>2, <2>3 DEF Leave, Bumps, talkVars
<1>6. ASSUME NEW x \in Slots, Heartbeat(x) PROVE RoundsInv'
  <2>1. 0 \in 0..IdleTime
    BY SessionTimes
  <2>2. session' \in Session /\ Sound(session') /\ active' = RowsOf(session')
    BY <1>0, <1>6, <2>1 DEF Heartbeat, Saves, Sound, RowsOf, Closed, Live, Session
  <2>3. calls' \subseteq calls /\ session'.consented = session.consented
    BY <1>0, <1>6 DEF Heartbeat, Saves, Session
  <2> QED BY <1>0, <1>6, <2>2, <2>3 DEF Heartbeat, Saves, talkVars
<1>7. ASSUME NEW x \in Slots, NEW value \in BOOLEAN, Ready(x, value) PROVE RoundsInv'
  <2>1. session' \in Session /\ Sound(session') /\ RowsOf(session') = RowsOf(session)
    BY <1>7 DEF Ready, Bumps, Sound, RowsOf, Closed, Live, Session
  <2> QED BY <1>7, <2>1 DEF Ready, Bumps, talkVars
<1>8. ASSUME NEW x \in Slots, CancelOrTerminate(x) PROVE RoundsInv'
  <2>1. session' \in Session /\ Sound(session') /\ RowsOf(session') = {}
    BY <1>8, StatusNames DEF CancelOrTerminate, Bumps, Sound, RowsOf, Closed, Live, Session
  <2>2. rounds' \in [Rounds -> Round]
    BY <1>8, SealAllType DEF CancelOrTerminate, Bumps
  <2> QED BY <1>8, <2>1, <2>2 DEF CancelOrTerminate, Bumps, talkVars
<1>9. ASSUME NEW x \in Slots, PrepareStart(x) PROVE RoundsInv'
  <2>1. session' \in Session /\ Sound(session') /\ RowsOf(session') = RowsOf(session)
    BY <1>9 DEF PrepareStart, Sound, RowsOf, Closed, Live, Session
  <2>2. calls' \subseteq session'.consented /\ calls' \subseteq Slots
    BY <1>9 DEF PrepareStart, Session
  <2> QED BY <1>9, <2>1, <2>2 DEF PrepareStart, talkVars
<1>10. ASSUME NEW x \in Slots, StartIsRefused(x) PROVE RoundsInv'
  BY <1>10 DEF StartIsRefused, docVars, talkVars
<1>11. ASSUME NEW x \in Slots, ConfirmStart(x) PROVE RoundsInv'
  <2> DEFINE s == [session EXCEPT !.consented = @ \union {x}, !.confirmed = @ \union {x}]
  <2>1. s \in Session /\ Sound(s) /\ RowsOf(s) = RowsOf(session)
    BY <1>11 DEF ConfirmStart, MayStart, BothEntered, Sound, RowsOf, Closed, Live, Session
  <2>2. CASE s.confirmed = Slots
    <3>1. HardTime \in 0..HardTime
      BY SessionTimes
    <3>2. session' = [s EXCEPT !.status = "active", !.current = 0, !.hard = HardTime]
      BY <1>11, <2>2 DEF ConfirmStart, Bumps
    <3>3. 0 \in {0, 1, NoRound} /\ 0 # NoRound
      BY DEF NoRound
    <3>4. /\ s.status = "lobby" /\ s.entered = session.entered
          /\ session.status = "lobby"
      BY <1>11 DEF ConfirmStart, MayStart, BothEntered, Sound, Closed, Session, Statuses
    <3>5. session' \in Session
      BY <2>1, <3>1, <3>2, <3>3, StatusNames DEF Session
    <3>6. /\ session'.status = "active" /\ session'.current = 0
          /\ session'.entered = session.entered /\ session'.consented = s.consented
      BY <2>1, <3>2 DEF Session
    <3>7. Sound(session') /\ RowsOf(session') = RowsOf(session)
      BY <3>3, <3>4, <3>5, <3>6 DEF Sound, RowsOf, Live
    <3>8. RoundTime \in 0..RoundTime
      BY RoundTimes
    <3>9. NewRounds \in [Rounds -> Round]
      BY <3>8, NothingIsRound, RoundStaysTyped DEF NewRounds
    <3> QED BY <1>11, <2>2, <3>5, <3>7, <3>9 DEF ConfirmStart, Bumps, talkVars
  <2>3. CASE s.confirmed # Slots
    BY <1>11, <2>1, <2>3 DEF ConfirmStart, Bumps, talkVars
  <2> QED BY <2>2, <2>3
<1>12. ASSUME NEW x \in Slots, Finish(x) PROVE RoundsInv'
  <2>1. session.current \in Rounds
    BY <1>12 DEF Finish, Session, Rounds, NoRound
  <2>2. AwaitCode(rounds[session.current]) \in Round
    BY <2>1, RoundStaysTyped
  <2> QED BY <1>12, <2>1, <2>2 DEF Finish, Bumps, talkVars
<1>13. CASE CodeArrives
  <2>1. Now.s.current \in Rounds
    BY <1>0, <1>13 DEF CodeArrives, Session, Rounds, NoRound
  <2>2. Seal(Now.r[Now.s.current], FALSE) \in Round
    BY <1>0, <2>1, RoundStaysTyped
  <2> QED BY <1>0, <1>13, <2>1, <2>2 DEF CodeArrives, Bumps, talkVars
<1>14. ASSUME NEW x \in Slots, ConfirmSwap(x) PROVE RoundsInv'
  <2>1. session' \in Session /\ Sound(session') /\ RowsOf(session') = RowsOf(session)
    BY <1>14 DEF ConfirmSwap, Bumps, Sound, RowsOf, Closed, Live, Session
  <2> QED BY <1>14, <2>1 DEF ConfirmSwap, Bumps, talkVars
<1>15. ASSUME NEW x \in Slots, SwapRoles(x) PROVE RoundsInv'
  <2>1. session' \in Session /\ Sound(session') /\ RowsOf(session') = RowsOf(session)
    <3>1. 1 \in {0, 1, NoRound} /\ 1 # NoRound /\ 0 # NoRound /\ {} \in SUBSET Slots
      BY DEF NoRound
    <3>2. session' = [session EXCEPT !.swap = {}, !.current = 1] /\ session.current = 0
      BY <1>15 DEF SwapRoles, Bumps
    <3>3. session' \in Session
      BY <3>1, <3>2 DEF Session
    <3>4. /\ session'.status = session.status /\ session'.current = 1
          /\ session'.entered = session.entered
      BY <3>2 DEF Session
    <3> QED BY <3>1, <3>2, <3>3, <3>4 DEF Sound, RowsOf, Closed, Live
  <2>2. session.hard \in Nat
    BY SessionTimes DEF Session
  <2>3. Smaller(RoundTime, session.hard) \in 0..RoundTime
    BY <2>2, RoundTimes DEF Smaller
  <2>4. Begin(rounds[1], Smaller(RoundTime, session.hard)) \in Round
    BY <2>3, RoundStaysTyped DEF Rounds
  <2> QED BY <1>15, <2>1, <2>4 DEF SwapRoles, Bumps, talkVars
<1>16. ASSUME NEW x \in Slots, Complete(x) PROVE RoundsInv'
  <2>1. session' \in Session /\ Sound(session') /\ RowsOf(session') = {}
    BY <1>16, StatusNames DEF Complete, Bumps, Sound, RowsOf, Closed, Live, Session, NoRound
  <2> QED BY <1>16, <2>1 DEF Complete, Bumps, talkVars
<1>17. ASSUME NEW x \in Slots, NEW i \in Rounds, GiveFeedback(x, i) \/ ReadFeedback(x, i)
       PROVE  RoundsInv'
  <2>1. session' = Now.s /\ rounds' = Now.r /\ calls' \subseteq calls /\ active' = Rows
    BY <1>17 DEF GiveFeedback, ReadFeedback, Saves
  <2>2. submitted' \in [Rounds -> SUBSET Slots] /\ shown' \in [Rounds -> SUBSET Slots]
    BY <1>17 DEF GiveFeedback, ReadFeedback
  <2> QED BY <1>0, <2>1, <2>2
<1>18. CASE Tick
  <2>1. /\ Up(session.age, InviteTime) \in 0..InviteTime
        /\ Up(session.idle, IdleTime) \in 0..IdleTime
        /\ Down(session.hard, 0) \in 0..HardTime
    BY SessionTimes DEF Session, Up, Down
  <2>2. session' \in Session
    BY <1>18, <2>1 DEF Tick, Session
  <2>3. Sound(session') /\ RowsOf(session') = RowsOf(session)
    BY <1>18, <2>2 DEF Tick, Sound, RowsOf, Closed, Live, Session
  <2>4. rounds' \in [Rounds -> Round]
    BY <1>18, TickKeepsRound DEF Tick
  <2>5. session'.consented = session.consented
    BY <1>18 DEF Tick, Session
  <2> QED BY <1>18, <2>2, <2>3, <2>4, <2>5 DEF Tick, talkVars
<1>19. CASE UNCHANGED roundsVars
  BY <1>19 DEF roundsVars, docVars, talkVars
<1>20. CASE \E x \in Slots : MemberStep(x)
  BY <1>4, <1>5, <1>6, <1>7, <1>8, <1>9, <1>10, <1>11, <1>12, <1>14, <1>15, <1>16, <1>17, <1>20
  DEF MemberStep
<1> QED BY <1>1, <1>2, <1>3, <1>13, <1>18, <1>19, <1>20 DEF RoundsNext

\* The document, the rows and the handlers stay what they are declared to be,
\* whatever the members, the sweep and the clock do.
THEOREM RoundsAreTyped == RoundsSpec => []RoundsTypeOK
<1>1. RoundsInv => RoundsTypeOK
  BY DEF RoundsInv
<1> QED BY <1>1, RoundsInvInit, RoundsInvStep, PTL DEF RoundsSpec

\* A start is confirmed only by members who agreed to the observer, while both
\* are there and ready, however the lobby was left, emptied and entered again.
THEOREM StartsAreCurrent == RoundsSpec => []ConfirmationIsCurrent
<1>1. RoundsInv => ConfirmationIsCurrent
  BY DEF RoundsInv, Sound, ConfirmationIsCurrent
<1> QED BY <1>1, RoundsInvInit, RoundsInvStep, PTL DEF RoundsSpec

\* A member's row names this session exactly while they are in it.
THEOREM OnePlaceOnly == RoundsSpec => []OnePlaceAtATime
<1>1. RoundsInv => OnePlaceAtATime
  BY DEF RoundsInv, RowsOf, OnePlaceAtATime
<1> QED BY <1>1, RoundsInvInit, RoundsInvStep, PTL DEF RoundsSpec

(***************************************************************************)
(* PeerRounds implements PeerLife                                          *)
(***************************************************************************)

\* The variables of PeerLife as functions of a session document.
PhaseOf(s) == IF Closed(s) THEN "closed" ELSE s.status
LifeOf(s) == <<PhaseOf(s), s.paired, s.consented = Slots, s.age, s.hard>>

\* How a transaction that is not about the clock changes that document: not as
\* PeerLife sees it, or by one of its steps.
LifeMoves(s, t) ==
    /\ t.paired = s.paired /\ t.age = s.age /\ t.hard = s.hard
    /\ \/ t.consented = s.consented /\ PhaseOf(t) = PhaseOf(s)
       \/ PhaseOf(s) # "closed" /\ PhaseOf(t) = "closed" /\ t.consented = s.consented
       \/ PhaseOf(s) = "lobby" /\ PhaseOf(t) = "pending" /\ t.consented = s.consented
       \/ /\ PhaseOf(s) = "pending" /\ PhaseOf(t) = "lobby" /\ t.consented = s.consented
          /\ s.age < InviteTime /\ (s.paired => s.age < PairTime)
       \/ PhaseOf(s) = "lobby" /\ PhaseOf(t) = "lobby" /\ s.consented \subseteq t.consented
       \/ /\ PhaseOf(s) = "lobby" /\ PhaseOf(t) = "active"
          /\ s.consented = Slots /\ t.consented = Slots

LifeStepOrStutter == [Life!LifeNext]_Life!lifeVars

LEMMA LifeMovesIsStep ==
    ASSUME RoundsInv, RoundsInv', LifeMoves(session, session')
    PROVE  LifeStepOrStutter
<1> USE DEF LifeMoves, LifeStepOrStutter, Life!lifeVars
<1>0. /\ session \in Session /\ session' \in Session
      /\ session.age \in Nat /\ InviteTime \in Nat /\ PairTime \in Nat
  BY SessionTimes DEF RoundsInv, RoundsTypeOK, Session
<1>1. CASE session'.consented = session.consented /\ PhaseOf(session') = PhaseOf(session)
  BY <1>1 DEF PhaseOf
<1>2. CASE /\ PhaseOf(session) # "closed" /\ PhaseOf(session') = "closed"
           /\ session'.consented = session.consented
  BY <1>2 DEF PhaseOf, Life!LifeNext, Life!LifeStep, Life!Close, Life!Become
<1>3. CASE /\ PhaseOf(session) = "lobby" /\ PhaseOf(session') = "pending"
           /\ session'.consented = session.consented
  BY <1>3 DEF PhaseOf, Life!LifeNext, Life!LifeStep, Life!LobbyEmpties, Life!Become
<1>4. CASE /\ PhaseOf(session) = "pending" /\ PhaseOf(session') = "lobby"
           /\ session'.consented = session.consented
           /\ session.age < InviteTime /\ (session.paired => session.age < PairTime)
  BY <1>0, <1>4
  DEF PhaseOf, Life!LifeNext, Life!LifeStep, Life!EnterLobby, Life!Expired, Life!Become
<1>5. CASE /\ PhaseOf(session) = "lobby" /\ PhaseOf(session') = "lobby"
           /\ session.consented \subseteq session'.consented
  <2>1. session'.consented \subseteq Slots /\ session.consented \subseteq Slots
    BY <1>0 DEF Session
  <2> QED BY <1>5, <2>1 DEF PhaseOf, Life!LifeNext, Life!LifeStep, Life!Agree
<1>6. CASE /\ PhaseOf(session) = "lobby" /\ PhaseOf(session') = "active"
           /\ session.consented = Slots /\ session'.consented = Slots
  BY <1>6 DEF PhaseOf, Life!LifeNext, Life!LifeStep, Life!StartRound, Life!Become
<1> QED BY <1>1, <1>2, <1>3, <1>4, <1>5, <1>6

\* Settlement is such a change, and so is a transaction that keeps what PeerLife
\* sees of the settled document.
LEMMA SettledMoves ==
    ASSUME RoundsInv, NEW t \in Session, LifeOf(t) = LifeOf(Now.s),
           t.consented = Now.s.consented
    PROVE  LifeMoves(session, t)
<1> USE DEF LifeMoves, LifeOf, PhaseOf, Closed
<1>0. session \in Session /\ Now.s \in Session
  BY SettledSession DEF RoundsInv, RoundsTypeOK
<1>1. CASE /\ Now.s = session
           /\ session.status = "pending" =>
                  session.age < InviteTime /\ (session.paired => session.age < PairTime)
  BY <1>0, <1>1
<1>2. CASE session.status = "pending" /\ Now.s = [session EXCEPT !.status = "cancelled"]
  BY <1>0, <1>2 DEF Session
<1>3. CASE /\ session.status = "lobby"
           /\ Now.s = [session EXCEPT !.status = "pending", !.entered = {},
                                      !.ready = {}, !.confirmed = {}]
  BY <1>0, <1>3 DEF Session
<1>4. CASE session.status = "active" /\ Now.s = [session EXCEPT !.status = "finalizing"]
  BY <1>0, <1>4 DEF Session
<1> QED BY <1>1, <1>2, <1>3, <1>4, SettledSession

\* Every step of the document is one of PeerLife or does nothing to it.
LEMMA LifeStepSimulated ==
    ASSUME RoundsInv, RoundsInv', [RoundsNext]_roundsVars
    PROVE  LifeStepOrStutter
<1>0. /\ session \in Session /\ session' \in Session /\ Now.s \in Session
      /\ Sound(session) /\ Sound(Now.s)
  BY SettledIsSound DEF RoundsInv, RoundsTypeOK, Sound
<1> USE DEF LifeOf, PhaseOf, Closed
<1>1. CASE SettleSession
  BY <1>0, <1>1, SettledMoves, LifeMovesIsStep DEF SettleSession, Bumps
<1>2. CASE Accept
  <2>1. LifeOf(session') = LifeOf(Now.s) /\ session'.consented = Now.s.consented
    BY <1>0, <1>2 DEF Accept, Bumps, Session
  <2> QED BY <1>0, <2>1, SettledMoves, LifeMovesIsStep
<1>3. ASSUME NEW x \in Slots, Enter(x) PROVE LifeStepOrStutter
  <2>1. session' = [Now.s EXCEPT !.entered = @ \union {x}, !.idle = 0,
                                 !.status = IF Now.s.current = NoRound THEN "lobby" ELSE @]
    BY <1>3 DEF Enter, Bumps
  <2>2. CASE Now.s.current # NoRound
    <3>1. LifeOf(session') = LifeOf(Now.s) /\ session'.consented = Now.s.consented
      BY <1>0, <2>1, <2>2 DEF Session
    <3> QED BY <1>0, <3>1, SettledMoves, LifeMovesIsStep
  <2>3. CASE Now.s.current = NoRound
    <3>1. /\ PhaseOf(session') = "lobby" /\ session'.consented = Now.s.consented
          /\ session'.paired = Now.s.paired /\ session'.age = Now.s.age
          /\ session'.hard = Now.s.hard
      BY <1>0, <2>1, <2>3 DEF Session
    <3>2. ~Closed(Now.s) /\ Now.s.status \in {"pending", "lobby"}
      BY <1>0, <1>3, <2>3 DEF Enter, Sound, Session, Statuses
    <3>3. LifeMoves(session, Now.s)
      BY <1>0, SettledMoves
    <3>4. LifeMoves(session, session')
      BY <1>0, <3>1, <3>2, <3>3, SettledSession DEF LifeMoves, Session
    <3> QED BY <3>4, LifeMovesIsStep
  <2> QED BY <2>2, <2>3
<1>4. ASSUME NEW x \in Slots, Leave(x) \/ Heartbeat(x) PROVE LifeStepOrStutter
  <2>1. LifeOf(session') = LifeOf(Now.s) /\ session'.consented = Now.s.consented
    BY <1>0, <1>4 DEF Leave, Heartbeat, Bumps, Saves, Session
  <2> QED BY <1>0, <2>1, SettledMoves, LifeMovesIsStep
<1>5. ASSUME NEW x \in Slots, CancelOrTerminate(x) PROVE LifeStepOrStutter
  <2>1. LifeMoves(session, session')
    BY <1>0, <1>5 DEF CancelOrTerminate, Bumps, LifeMoves, Session
  <2> QED BY <2>1, LifeMovesIsStep
<1>6. ASSUME NEW x \in Slots, PrepareStart(x) PROVE LifeStepOrStutter
  <2>1. session.status = "lobby"
    BY <1>0, <1>6 DEF PrepareStart, MayStart, BothEntered, Sound, Session, Statuses
  <2>2. LifeMoves(session, session')
    BY <1>0, <1>6, <2>1 DEF PrepareStart, LifeMoves, Session
  <2> QED BY <2>2, LifeMovesIsStep
<1>7. ASSUME NEW x \in Slots, ConfirmStart(x) PROVE LifeStepOrStutter
  <2> DEFINE s == [session EXCEPT !.consented = @ \union {x}, !.confirmed = @ \union {x}]
  <2>1. session.status = "lobby" /\ session.hard = HardTime /\ session.current = NoRound
    BY <1>0, <1>7 DEF ConfirmStart, MayStart, BothEntered, Sound, Session, Statuses
  <2>2. /\ x \in session.consented /\ s.consented = session.consented
        /\ s.confirmed = session.confirmed \union {x}
    BY <1>0, <1>7 DEF ConfirmStart, RoundsInv, Session
  <2>3. CASE s.confirmed = Slots
    <3>1. session.consented = Slots
      BY <1>0, <2>1, <2>2, <2>3 DEF Sound, Session
    <3>2. session' = [s EXCEPT !.status = "active", !.current = 0, !.hard = HardTime]
      BY <1>7, <2>3 DEF ConfirmStart, Bumps
    <3>3. /\ session'.status = "active" /\ session'.hard = HardTime
          /\ session'.consented = Slots /\ session'.paired = session.paired
          /\ session'.age = session.age
      BY <1>0, <2>2, <3>1, <3>2 DEF Session
    <3>4. LifeMoves(session, session')
      BY <2>1, <3>1, <3>3 DEF LifeMoves
    <3> QED BY <3>4, LifeMovesIsStep
  <2>4. CASE s.confirmed # Slots
    <3>1. session' = s
      BY <1>7, <2>4 DEF ConfirmStart, Bumps
    <3>2. LifeMoves(session, session')
      BY <1>0, <2>2, <3>1 DEF LifeMoves, Session
    <3> QED BY <3>2, LifeMovesIsStep
  <2> QED BY <2>3, <2>4
<1>8. CASE CodeArrives
  BY <1>0, <1>8, SettledMoves, LifeMovesIsStep DEF CodeArrives, Bumps
<1>9. ASSUME NEW x \in Slots, ConfirmSwap(x) \/ SwapRoles(x) \/ Ready(x, TRUE) \/ Ready(x, FALSE)
      PROVE  LifeStepOrStutter
  <2>1. LifeMoves(session, session')
    BY <1>0, <1>9 DEF ConfirmSwap, SwapRoles, Ready, Bumps, LifeMoves, Session
  <2> QED BY <2>1, LifeMovesIsStep
<1>10. ASSUME NEW x \in Slots, Complete(x) PROVE LifeStepOrStutter
  <2>1. LifeMoves(session, session')
    BY <1>0, <1>10 DEF Complete, MayAdvance, Bumps, LifeMoves, Session
  <2> QED BY <2>1, LifeMovesIsStep
<1>11. ASSUME NEW x \in Slots, NEW i \in Rounds, GiveFeedback(x, i) \/ ReadFeedback(x, i)
       PROVE  LifeStepOrStutter
  BY <1>0, <1>11, SettledMoves, LifeMovesIsStep DEF GiveFeedback, ReadFeedback, Saves
<1>12. ASSUME session' = session PROVE LifeStepOrStutter
  BY <1>12 DEF LifeStepOrStutter, Life!lifeVars
<1>13. CASE Tick
  <2>1. /\ session'.status = session.status /\ session'.paired = session.paired
        /\ session'.consented = session.consented
        /\ session'.age = Life!Up(session.age, InviteTime)
    BY <1>0, <1>13 DEF Tick, Session, Up, Life!Up
  <2>2. session'.hard = IF session.status = "active" THEN Down(session.hard, 0) ELSE session.hard
    BY <1>0, <1>13 DEF Tick, Session
  <2>3. Life!LifeTick
    BY <2>1, <2>2 DEF Life!LifeTick, Life!Down, Down
  <2> QED BY <2>3 DEF LifeStepOrStutter, Life!LifeNext
<1>14. CASE \E x \in Slots : MemberStep(x)
  <2>1. PICK x \in Slots : MemberStep(x)
    BY <1>14
  <2>2. ASSUME StartIsRefused(x) \/ Finish(x) PROVE session' = session
    BY <2>2 DEF StartIsRefused, Finish, Bumps, docVars
  <2>3. ASSUME NEW value \in BOOLEAN, Ready(x, value) PROVE LifeStepOrStutter
    <3>1. Ready(x, TRUE) \/ Ready(x, FALSE)
      BY <2>3
    <3> QED BY <1>9, <3>1
  <2> HIDE DEF LifeOf, PhaseOf, Closed
  <2> QED BY <1>3, <1>4, <1>5, <1>6, <1>7, <1>9, <1>10, <1>11, <1>12, <2>1, <2>2, <2>3
          DEF MemberStep
<1>15. CASE Reinvite \/ UNCHANGED roundsVars
  BY <1>12, <1>15 DEF Reinvite, Bumps, roundsVars, docVars
<1> QED BY <1>1, <1>2, <1>8, <1>13, <1>14, <1>15 DEF RoundsNext

LEMMA LifeInitSimulated == RoundsInit => Life!InitLife
BY DEF RoundsInit, Life!InitLife, Closed, Slots

\* A practice begins in time, starts with the consent of both, and once over
\* stays over, however requests, the sweep and late start handlers interleave.
THEOREM RoundsImplementLife == RoundsSpec => ImplementsLife
<1>1. RoundsInv /\ RoundsInv' /\ [RoundsNext]_roundsVars => [Life!LifeNext]_Life!lifeVars
  BY LifeStepSimulated DEF LifeStepOrStutter
<1> QED
  BY <1>1, LifeInitSimulated, RoundsInvInit, RoundsInvStep, PTL
  DEF RoundsSpec, ImplementsLife, Life!LifeSpec

(***************************************************************************)
(* Feedback                                                                *)
(***************************************************************************)

\* Before the day is over feedback is revealed only once both have written, so
\* the history of early readers stays empty.
NobodyReadsEarly == \A i \in Rounds : shown[i] = {}

FeedbackVars == <<submitted, shown>>

\* Only the two requests about feedback touch it.
LEMMA FeedbackSteps ==
    ASSUME [RoundsNext]_roundsVars
    PROVE  \/ UNCHANGED FeedbackVars
           \/ \E x \in Slots, i \in Rounds : GiveFeedback(x, i) \/ ReadFeedback(x, i)
<1> USE DEF FeedbackVars, talkVars, docVars
<1>1. CASE UNCHANGED roundsVars
  BY <1>1 DEF roundsVars
<1>2. CASE SettleSession \/ Accept \/ Reinvite \/ CodeArrives \/ Tick
  BY <1>2 DEF SettleSession, Accept, Reinvite, CodeArrives, Tick
<1>3. ASSUME NEW x \in Slots, MemberStep(x)
      PROVE  UNCHANGED FeedbackVars \/ \E i \in Rounds : GiveFeedback(x, i) \/ ReadFeedback(x, i)
  <2>1. CASE Enter(x) \/ Leave(x) \/ Heartbeat(x) \/ CancelOrTerminate(x) \/ Finish(x)
    BY <2>1 DEF Enter, Leave, Heartbeat, CancelOrTerminate, Finish
  <2>2. CASE (\E value \in BOOLEAN : Ready(x, value)) \/ PrepareStart(x) \/ StartIsRefused(x)
    BY <2>2 DEF Ready, PrepareStart, StartIsRefused
  <2>3. CASE ConfirmStart(x) \/ ConfirmSwap(x) \/ SwapRoles(x) \/ Complete(x)
    BY <2>3 DEF ConfirmStart, ConfirmSwap, SwapRoles, Complete
  <2> QED BY <1>3, <2>1, <2>2, <2>3 DEF MemberStep
<1> QED BY <1>1, <1>2, <1>3 DEF RoundsNext

LEMMA ReadersAreLate ==
    ASSUME RoundsInv, NobodyReadsEarly, [RoundsNext]_roundsVars
    PROVE  NobodyReadsEarly'
<1>1. CASE UNCHANGED FeedbackVars
  BY <1>1 DEF FeedbackVars, NobodyReadsEarly
<1>2. ASSUME NEW x \in Slots, NEW i \in Rounds, GiveFeedback(x, i)
      PROVE  NobodyReadsEarly'
  BY <1>2 DEF GiveFeedback, NobodyReadsEarly
<1>3. ASSUME NEW x \in Slots, NEW i \in Rounds, ReadFeedback(x, i)
      PROVE  NobodyReadsEarly'
  <2>1. x \in submitted[i] \/ DayIsOver(i)
    BY <1>3 DEF ReadFeedback, Revealed
  <2> QED BY <1>3, <2>1 DEF ReadFeedback, NobodyReadsEarly
<1> QED BY <1>1, <1>2, <1>3, FeedbackSteps

\* Nobody writes their feedback on a round after reading the partner's within
\* the day it could have been written blind.
THEOREM FeedbackStaysBlind == RoundsSpec => FeedbackIsBlind
<1>1. RoundsInit => NobodyReadsEarly
  BY DEF RoundsInit, NobodyReadsEarly
<1>2. RoundsInv /\ NobodyReadsEarly /\ [RoundsNext]_roundsVars => NobodyReadsEarly'
  BY ReadersAreLate
<1>3. NobodyReadsEarly
      => \A i \in Rounds : (submitted'[i] \ submitted[i]) \cap shown[i] = {}
  BY DEF NobodyReadsEarly
<1> QED
  BY <1>1, <1>2, <1>3, RoundsInvInit, RoundsInvStep, PTL DEF RoundsSpec, FeedbackIsBlind

(***************************************************************************)
(* The code of a round                                                     *)
(***************************************************************************)

EditorTypeOK ==
    /\ round \in Round
    /\ snapshot \in Snapshot
    /\ tabs \in [Tabs -> Tab]
    /\ mail \subseteq Save
    /\ owner \in Tabs \union {NoTab}

\* A lease that was not replaced is that of the page which last took over.
LeasesAreOwned ==
    /\ \A t \in Tabs : tabs[t].lease = "held" => t = owner
    /\ \A m \in mail : m.lease = "held" => m.tab = owner

\* No copy of the code is ahead of the page that wrote it, and a save that has
\* seen what is stored of its page is not behind it.
EditsAreOrdered ==
    /\ \A m \in mail : m.edit <= tabs[m.tab].edit
    /\ \A t \in Tabs : snapshot.tab = t => snapshot.edit <= tabs[t].edit
    /\ \A m \in mail : m.seen /\ snapshot.tab = m.tab => snapshot.edit <= m.edit

SealIsFinal == Sealed(round) /\ ~round.incomplete => snapshot.final

EditorInv == EditorTypeOK /\ LeasesAreOwned /\ EditsAreOrdered /\ SealIsFinal

LEMMA EditorInvInit == EditorInit => EditorInv
<1> SUFFICES ASSUME EditorInit PROVE EditorInv
  OBVIOUS
<1>1. 0 \in 0..MaxEdits /\ RoundTime \in 0..RoundTime
  BY EditorBounds, RoundTimes
<1>2. round \in Round
  BY <1>1, NothingIsRound, RoundStaysTyped DEF EditorInit
<1>3. snapshot \in Snapshot /\ tabs \in [Tabs -> Tab]
  BY <1>1 DEF EditorInit, Snapshot, Tab, Leases
<1>4. SealIsFinal
  BY <1>2, NothingIsRound DEF EditorInit, SealIsFinal, Sealed, Begin, NoRoundYet
<1>5. LeasesAreOwned /\ EditsAreOrdered
  BY EditorBounds DEF EditorInit, LeasesAreOwned, EditsAreOrdered
<1> QED BY <1>2, <1>3, <1>4, <1>5 DEF EditorInit, EditorInv, EditorTypeOK

\* What is done to the round when its code is left alone: it keeps its type and
\* what was sealed, and a new seal is an incomplete one.
RoundGoesOn ==
    /\ round' \in Round
    /\ Sealed(round) => Sealed(round') /\ round'.incomplete = round.incomplete
    /\ Sealed(round') => Sealed(round) \/ round'.incomplete

LEMMA SettledGoesOn ==
    ASSUME EditorInv, round' = Settled
    PROVE  RoundGoesOn
BY SettledRoundType, SettledRoundSeals
DEF EditorInv, EditorTypeOK, Settled, RoundGoesOn

LEMMA SealedTakesNothing ==
    ASSUME EditorInv, AcceptsWrites(Settled)
    PROVE  ~Sealed(round) /\ ~Sealed(Settled)
BY SettledRoundSeals DEF EditorInv, EditorTypeOK, AcceptsWrites, Sealed, Settled

\* The steps that leave the pages, the mail and the stored code alone.
LEMMA RoundSteps ==
    ASSUME EditorInv, SettleRound \/ EndRound \/ EditorTick
    PROVE  RoundGoesOn /\ UNCHANGED <<snapshot, tabs, mail, owner>>
<1>0. round \in Round /\ Settled \in Round
  BY SettledRoundType DEF EditorInv, EditorTypeOK, Settled
<1>1. CASE SettleRound
  BY <1>1, SettledGoesOn DEF SettleRound
<1>2. CASE EndRound
  <2>1. ~Sealed(round) /\ (round' = AwaitCode(Settled) \/ round' = Seal(Settled, TRUE))
    BY <1>2, SealedTakesNothing DEF EndRound
  <2>2. round' \in Round
    BY <1>0, <2>1, RoundStaysTyped
  <2>3. Sealed(round') => round'.incomplete
    BY <1>0, <2>1 DEF Sealed, AwaitCode, Seal, Round
  <2> QED BY <1>2, <2>1, <2>2, <2>3 DEF EndRound, RoundGoesOn
<1>3. CASE EditorTick
  <2>1. round' \in Round
    BY <1>0, <1>3, TickKeepsRound DEF EditorTick
  <2>2. round'.status = round.status /\ round'.incomplete = round.incomplete
    BY <1>0, <1>3 DEF EditorTick, RoundAfterTick, Round
  <2> QED BY <1>3, <2>1, <2>2 DEF EditorTick, RoundGoesOn, Sealed
<1> QED BY <1>1, <1>2, <1>3

\* A save whose tab has lost its proof of reading is still a save.
LEMMA UnseenSave ==
    ASSUME NEW o \in Save
    PROVE  LET n == [o EXCEPT !.seen = FALSE]
           IN  /\ n \in Save /\ n.seen = FALSE
               /\ n.tab = o.tab /\ n.edit = o.edit /\ n.lease = o.lease
  BY DEF Save

LEMMA EditorInvStep == EditorInv /\ [EditorNext]_editorVars => EditorInv'
<1> SUFFICES ASSUME EditorInv, [EditorNext]_editorVars PROVE EditorInv'
  OBVIOUS
<1> USE DEF EditorInv, EditorTypeOK
<1>1. CASE SettleRound \/ EndRound \/ EditorTick
  BY <1>1, RoundSteps DEF RoundGoesOn, LeasesAreOwned, EditsAreOrdered, SealIsFinal
<1>2. ASSUME NEW t \in Tabs, ChangeWriter(t), owner' = t
      PROVE  EditorInv'
  <2>1. RoundGoesOn
    BY <1>2, SettledGoesOn DEF ChangeWriter
  <2>2. PICK answered \in BOOLEAN :
            tabs' = [u \in Tabs |->
                        [tabs[u] EXCEPT !.lease = CASE u = t /\ answered -> "held"
                                                    [] @ = "held" -> "lost"
                                                    [] OTHER -> @]]
    BY <1>2 DEF ChangeWriter
  <2>3. mail' = {[m EXCEPT !.lease = "lost"] : m \in mail} /\ snapshot' = snapshot
    BY <1>2 DEF ChangeWriter
  <2>4. \A u \in Tabs : /\ tabs'[u] \in Tab /\ tabs'[u].edit = tabs[u].edit
                        /\ tabs'[u].lease = "held" => u = t
    BY <2>2 DEF Tab, Leases
  <2>5. tabs' \in [Tabs -> Tab]
    BY <2>2, <2>4
  <2>6. \A n \in mail' : /\ n \in Save /\ n.lease = "lost"
                         /\ \E m \in mail : /\ n.tab = m.tab /\ n.edit = m.edit
                                             /\ n.seen = m.seen
    BY <2>3 DEF Save, Leases
  <2>7. LeasesAreOwned'
    BY <1>2, <2>4, <2>6 DEF LeasesAreOwned
  <2>8. EditsAreOrdered'
    BY <2>3, <2>4, <2>6 DEF EditsAreOrdered, Save
  <2> QED BY <1>2, <2>1, <2>3, <2>5, <2>6, <2>7, <2>8 DEF RoundGoesOn, SealIsFinal
<1>3. ASSUME NEW t \in Tabs, TakeOver(t) \/ Recover(t)
      PROVE  EditorInv'
  <2>1. ChangeWriter(t) /\ owner' = t
    BY <1>3 DEF TakeOver, Recover, RecoversOwnLease, LeasesAreOwned
  <2> QED BY <1>2, <2>1
<1>4. ASSUME NEW t \in Tabs, Fetch(t) PROVE EditorInv'
  <2>1. \A u \in Tabs : /\ tabs'[u] \in Tab /\ tabs'[u].edit = tabs[u].edit
                        /\ tabs'[u].lease = tabs[u].lease
    BY <1>4 DEF Fetch, Tab
  <2>2. tabs' \in [Tabs -> Tab] /\ UNCHANGED <<round, snapshot, mail, owner>>
    BY <1>4, <2>1 DEF Fetch
  <2> QED BY <2>1, <2>2 DEF LeasesAreOwned, EditsAreOrdered, SealIsFinal, Save
<1>5. ASSUME NEW t \in Tabs, SendSave(t) PROVE EditorInv'
  <2>1. PICK edit \in {tabs[t].edit, tabs[t].edit + 1} \cap (1..MaxEdits), final \in BOOLEAN :
            /\ tabs' = [tabs EXCEPT ![t].edit = edit]
            /\ mail' = mail \union
                   {[tab |-> t, lease |-> tabs[t].lease, seen |-> tabs[t].seen,
                     edit |-> edit, final |-> final]}
    BY <1>5 DEF SendSave
  <2>2. /\ tabs[t] \in Tab /\ tabs[t].edit \in Nat /\ edit \in 0..MaxEdits /\ edit \in Nat
        /\ edit >= tabs[t].edit
    BY <2>1, EditorBounds DEF Tab
  <2>3. \A u \in Tabs : /\ tabs'[u] \in Tab /\ tabs'[u].lease = tabs[u].lease
                        /\ tabs[u].edit \in Nat /\ tabs'[u].edit >= tabs[u].edit
    BY <2>1, <2>2, EditorBounds DEF Tab
  <2>4. tabs' \in [Tabs -> Tab] /\ UNCHANGED <<round, snapshot, owner>>
    BY <1>5, <2>1, <2>3 DEF SendSave
  <2> DEFINE new == [tab |-> t, lease |-> tabs[t].lease, seen |-> tabs[t].seen,
                     edit |-> edit, final |-> final]
  <2>5. new \in Save /\ tabs'[t].edit = edit
    BY <2>1, <2>2 DEF Save, Tab
  <2>6. LeasesAreOwned'
    BY <2>1, <2>3, <2>4 DEF LeasesAreOwned
  <2>7. snapshot.edit \in Nat /\ \A m \in mail : m.edit \in Nat /\ m.tab \in Tabs
    BY EditorBounds DEF Snapshot, Save
  <2>8. EditsAreOrdered'
    BY <2>1, <2>2, <2>3, <2>4, <2>5, <2>7 DEF EditsAreOrdered
  <2> QED BY <2>1, <2>4, <2>5, <2>6, <2>8 DEF SealIsFinal
<1>6. ASSUME NEW m \in mail, StoreSave(m) PROVE EditorInv'
  <2>1. Settled \in Round /\ ~Sealed(Settled) /\ m \in Save /\ m.lease = "held"
    BY <1>6, SettledRoundType, SealedTakesNothing DEF StoreSave, Storable, Settled
  <2>2. round' \in Round /\ (Sealed(round') => m.final)
    BY <1>6, <2>1, RoundStaysTyped DEF StoreSave
  <2>3. snapshot' = [tab |-> m.tab, edit |-> m.edit, final |-> m.final] /\ owner' = owner
    BY <1>6 DEF StoreSave
  <2>4. snapshot' \in Snapshot
    BY <2>1, <2>3 DEF Snapshot, Save
  <2>5. PICK answered \in BOOLEAN :
            tabs' = [u \in Tabs |-> [tabs[u] EXCEPT !.seen = u = m.tab /\ m.seen /\ @ /\ answered]]
    BY <1>6 DEF StoreSave
  <2>6. \A u \in Tabs : /\ tabs'[u] \in Tab /\ tabs'[u].edit = tabs[u].edit
                        /\ tabs'[u].lease = tabs[u].lease
    BY <2>5 DEF Tab
  <2>7. \A n \in mail' : /\ n \in Save /\ n.seen = FALSE
                         /\ \E o \in mail : n.tab = o.tab /\ n.edit = o.edit /\ n.lease = o.lease
    <3>1. mail' = {[o EXCEPT !.seen = FALSE] : o \in mail \ {m}}
      BY <1>6 DEF StoreSave
    <3>2. mail \subseteq Save
      OBVIOUS
    <3> HIDE DEF EditorInv, EditorTypeOK
    <3>3. TAKE n \in mail'
    <3>4. PICK o \in mail : n = [o EXCEPT !.seen = FALSE]
      BY <3>1
    <3>5. o \in Save
      BY <3>2
    <3>6. /\ n \in Save /\ n.seen = FALSE
          /\ n.tab = o.tab /\ n.edit = o.edit /\ n.lease = o.lease
      BY <3>4, <3>5, UnseenSave
    <3> QED BY <3>6
  <2>8. LeasesAreOwned'
    BY <2>3, <2>6, <2>7 DEF LeasesAreOwned
  <2>9. EditsAreOrdered'
    BY <2>1, <2>3, <2>6, <2>7 DEF EditsAreOrdered, Save
  <2> QED BY <2>2, <2>3, <2>4, <2>5, <2>6, <2>7, <2>8, <2>9 DEF SealIsFinal
<1>7. ASSUME NEW m \in mail, LoseSave(m) PROVE EditorInv'
  BY <1>7 DEF LoseSave, LeasesAreOwned, EditsAreOrdered, SealIsFinal
<1>8. CASE UNCHANGED editorVars
  BY <1>8 DEF editorVars, LeasesAreOwned, EditsAreOrdered, SealIsFinal
<1> QED BY <1>1, <1>3, <1>4, <1>5, <1>6, <1>7, <1>8 DEF EditorNext

\* A new lease, a fetch and a save that is sent or lost leave what is stored.
LEMMA StoredStays ==
    ASSUME EditorInv,
           NEW t \in Tabs, TakeOver(t) \/ Recover(t) \/ Fetch(t) \/ SendSave(t)
    PROVE  RoundGoesOn /\ snapshot' = snapshot
<1>1. CASE TakeOver(t) \/ Recover(t)
  BY <1>1, SettledGoesOn DEF TakeOver, Recover, ChangeWriter
<1>2. CASE Fetch(t) \/ SendSave(t)
  BY <1>2 DEF Fetch, SendSave, RoundGoesOn, EditorInv, EditorTypeOK
<1> QED BY <1>1, <1>2

LEMMA EditorStepSplits ==
    ASSUME EditorInv, [EditorNext]_editorVars
    PROVE  (RoundGoesOn /\ snapshot' = snapshot) \/ \E m \in mail : StoreSave(m)
<1>1. CASE SettleRound \/ EndRound \/ EditorTick
  BY <1>1, RoundSteps
<1>2. CASE (\E m \in mail : LoseSave(m)) \/ UNCHANGED editorVars
  BY <1>2 DEF LoseSave, editorVars, RoundGoesOn, EditorInv, EditorTypeOK
<1> QED BY <1>1, <1>2, StoredStays DEF EditorNext

LEMMA SealedStaysStep ==
    ASSUME EditorInv, [EditorNext]_editorVars
    PROVE  /\ Sealed(round) =>
                Sealed(round') /\ snapshot' = snapshot /\ round'.incomplete = round.incomplete
           /\ Sealed(round') /\ ~round'.incomplete => snapshot'.final
<1>1. EditorInv'
  BY EditorInvStep
<1>2. ASSUME NEW m \in mail, StoreSave(m) PROVE ~Sealed(round)
  BY <1>2, SealedTakesNothing DEF StoreSave, Storable
<1> QED BY <1>1, <1>2, EditorStepSplits DEF EditorInv, SealIsFinal, RoundGoesOn

LEMMA SavesKeepOrderStep ==
    ASSUME EditorInv, [EditorNext]_editorVars
    PROVE  snapshot' # snapshot =>
               /\ snapshot'.tab = owner
               /\ snapshot.tab = snapshot'.tab => snapshot'.edit >= snapshot.edit
<1>1. ASSUME NEW m \in mail, StoreSave(m)
      PROVE  /\ snapshot'.tab = owner
             /\ snapshot.tab = snapshot'.tab => snapshot'.edit >= snapshot.edit
  <2>1. /\ m.lease = "held" /\ m.seen
        /\ snapshot' = [tab |-> m.tab, edit |-> m.edit, final |-> m.final]
    BY <1>1 DEF StoreSave, Storable, HasSeenStored
  <2>2. m.edit \in Nat /\ snapshot.edit \in Nat
    BY EditorBounds DEF EditorInv, EditorTypeOK, Save, Snapshot
  <2>3. m.tab = owner /\ (snapshot.tab = m.tab => snapshot.edit <= m.edit)
    BY <2>1 DEF EditorInv, LeasesAreOwned, EditsAreOrdered
  <2> QED BY <2>1, <2>2, <2>3
<1> QED BY <1>1, EditorStepSplits

\* What a sealed round holds stays, however late a save arrives, and a seal that
\* says the final code came is over the save that was sent as the final one.
THEOREM SealedCodeStays == EditorSpec => SealedStays
<1>1. EditorInv /\ [EditorNext]_editorVars =>
        [/\ Sealed(round) =>
                Sealed(round') /\ snapshot' = snapshot /\ round'.incomplete = round.incomplete
         /\ Sealed(round') /\ ~round'.incomplete => snapshot'.final]_editorVars
  BY SealedStaysStep
<1> QED BY <1>1, EditorInvInit, EditorInvStep, PTL DEF EditorSpec, SealedStays

\* The round, its pages, the stored code and the saves on their way stay well typed.
THEOREM EditsAreTyped == EditorSpec => []EditorTypeOK
<1>1. EditorInv => EditorTypeOK
  BY DEF EditorInv
<1> QED BY <1>1, EditorInvInit, EditorInvStep, PTL DEF EditorSpec

\* Code is only stored for the page that last took the editor over, and never an
\* older edit of it over a newer one, whatever is delayed, lost or sent again.
THEOREM SavesAreOrdered == EditorSpec => SavesKeepOrder
<1>1. EditorInv /\ [EditorNext]_editorVars =>
        [snapshot' # snapshot =>
            /\ snapshot'.tab = owner
            /\ snapshot.tab = snapshot'.tab => snapshot'.edit >= snapshot.edit]_editorVars
  BY SavesKeepOrderStep
<1> QED BY <1>1, EditorInvInit, EditorInvStep, PTL DEF EditorSpec, SavesKeepOrder

\* Both of it: what the candidate wrote is kept in order, and kept once it is sealed.
THEOREM CodeStays == EditorSpec => CodeIsKept
BY SealedCodeStays, SavesAreOrdered, PTL DEF CodeIsKept

============================================================================
