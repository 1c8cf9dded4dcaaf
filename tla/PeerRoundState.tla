--------------------------- MODULE PeerRoundState ---------------------------
(***************************************************************************)
(* One round of a peer practice (accounts/peer.rs, Round): when it runs,   *)
(* waits for its code, and is sealed.  PeerRounds has two of them in a     *)
(* session, PeerEditor looks at the code that is written in one.           *)
(***************************************************************************)
EXTENDS Naturals, Integers

CONSTANTS
    RoundTime,          \* round_minutes
    FinishGrace,        \* 30 s: how long a finishing round waits for its code
    BlindTime           \* 24 h: feedback is shown then even if one is missing

ASSUME RoundTimes ==
    /\ RoundTime \in Nat \ {0} /\ FinishGrace \in Nat \ {0} /\ BlindTime \in Nat \ {0}
    /\ FinishGrace <= RoundTime            \* a round lasts a minute at least

RoundStatuses == {"none", "prepared", "active", "finishing", "feedback"}

\* `left' is the time to the deadline of an active round, which may be overdue,
\* and what is left of the grace of a finishing one; `sealed' the time since a
\* round was sealed; `incomplete' that its final code did not come.
Round ==
    [status : RoundStatuses, left : (-FinishGrace)..RoundTime,
     incomplete : BOOLEAN, sealed : 0..BlindTime]

NoRoundYet == [status |-> "none", left |-> 0, incomplete |-> FALSE, sealed |-> 0]

Begin(r, time) == [r EXCEPT !.status = "active", !.left = time]

AcceptsWrites(r) == r.status \in {"active", "finishing"}

Sealed(r) == r.status = "feedback"

AwaitCode(r) == [r EXCEPT !.status = "finishing", !.left = FinishGrace]

Seal(r, incomplete) ==
    [r EXCEPT !.status = "feedback", !.sealed = 0, !.incomplete = incomplete, !.left = 0]

\* Settlement.  The grace runs from the deadline, not from when it is noticed.
FinishOverdue(r) ==
    IF r.status = "active" /\ r.left <= 0
    THEN [r EXCEPT !.status = "finishing", !.left = @ + FinishGrace]
    ELSE r

SealOverdue(r) == IF r.status = "finishing" /\ r.left <= 0 THEN Seal(r, TRUE) ELSE r

SettledRound(r) == SealOverdue(FinishOverdue(r))

Up(n, limit) == IF n < limit THEN n + 1 ELSE limit
Down(n, limit) == IF n > limit THEN n - 1 ELSE limit

RoundAfterTick(r) ==
    [r EXCEPT !.left = CASE r.status = "active" -> Down(@, -FinishGrace)
                         [] r.status = "finishing" -> Down(@, 0)
                         [] OTHER -> @,
              !.sealed = IF Sealed(r) THEN Up(@, BlindTime) ELSE @]

=============================================================================
