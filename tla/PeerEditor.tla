----------------------------- MODULE PeerEditor -----------------------------
(***************************************************************************)
(* The code of one round: the writer's lease, the pages of the candidate,  *)
(* and the saves they send, which may be late, lost, answered in vain, or  *)
(* sent again.                                                             *)
(*                                                                         *)
(* Leases and revisions are only compared for equality with a value that   *)
(* never comes back, so a page's copy is kept as whether it is current.    *)
(***************************************************************************)
EXTENDS PeerRoundState, FiniteSets

CONSTANTS
    LeaseTime,          \* 120 s: how long a writer's lease lasts
    Tabs,               \* the pages of the member who is candidate
    NoTab,
    MaxMail,            \* bound: saves on their way at once
    MaxEdits            \* bound: edits a page makes

ASSUME EditorBounds ==
    /\ LeaseTime \in Nat \ {0}
    /\ NoTab \notin Tabs
    /\ MaxMail \in Nat /\ MaxEdits \in Nat

VARIABLES
    round,      \* the round
    leaseLeft,  \* the time left of the lease
    snapshot,   \* the stored code
    tabs,       \* the candidate's pages
    mail,       \* the saves on their way
    owner       \* history: the page that last took the lease over

editorVars == <<round, leaseLeft, snapshot, tabs, mail, owner>>

\* Which page's save is stored, which of its edits, and whether as the final one.
Snapshot == [tab : Tabs \union {NoTab}, edit : 0..MaxEdits, final : BOOLEAN]

Leases == {"none", "held", "lost"}

\* A page has no lease, the round's, or one that was replaced; it has seen the
\* stored revision or an older one; and it has made some edits.
Tab == [lease : Leases, seen : BOOLEAN, edit : 0..MaxEdits]

Save == [tab : Tabs, lease : Leases, seen : BOOLEAN, edit : 0..MaxEdits, final : BOOLEAN]

EditorInit ==
    /\ round = Begin(NoRoundYet, RoundTime)
    /\ leaseLeft = 0
    /\ snapshot = [tab |-> NoTab, edit |-> 0, final |-> FALSE]
    /\ tabs = [t \in Tabs |-> [lease |-> "none", seen |-> TRUE, edit |-> 0]]
    /\ mail = {}
    /\ owner = NoTab

\* The round a transaction acts on; whoever looks at it settles it.
Settled == SettledRound(round)

\* The sweep, and every request that is refused.
SettleRound ==
    /\ Settled # round
    /\ round' = Settled
    /\ UNCHANGED <<leaseLeft, snapshot, tabs, mail, owner>>

\* Either member finishes the round, or the session ends under it.
EndRound ==
    /\ AcceptsWrites(Settled)
    /\ \/ Settled.status = "active" /\ round' = AwaitCode(Settled)
       \/ round' = Seal(Settled, TRUE)
    /\ UNCHANGED <<leaseLeft, snapshot, tabs, mail, owner>>

\* change_writer: a new lease replaces the one there was, whether the page takes
\* the code over or renews the lease it has.
ChangeWriter(t) ==
    /\ AcceptsWrites(Settled)
    /\ round' = Settled
    /\ leaseLeft' = LeaseTime
    /\ \E answered \in BOOLEAN :
         tabs' = [u \in Tabs |->
                    [tabs[u] EXCEPT !.lease = CASE u = t /\ answered -> "held"
                                                [] @ = "held" -> "lost"
                                                [] OTHER -> @]]
    /\ mail' = {[m EXCEPT !.lease = "lost"] : m \in mail}
    /\ UNCHANGED snapshot

TakeOver(t) == ChangeWriter(t) /\ owner' = t

\* resume_writer: the lease may have expired, but no other page has replaced it.
RecoversOwnLease(t) == tabs[t].lease = "held"

Recover(t) == RecoversOwnLease(t) /\ ChangeWriter(t) /\ UNCHANGED owner

\* The page reads the stored code and its revision.
Fetch(t) ==
    /\ tabs' = [tabs EXCEPT ![t].seen = TRUE]
    /\ UNCHANGED <<round, leaseLeft, snapshot, mail, owner>>

\* The page saves, with a further edit or again what it has.
SendSave(t) ==
    /\ tabs[t].lease # "none"
    /\ Cardinality(mail) < MaxMail
    /\ \E edit \in {tabs[t].edit, tabs[t].edit + 1} \cap (1..MaxEdits), final \in BOOLEAN :
         /\ tabs' = [tabs EXCEPT ![t].edit = edit]
         /\ mail' = mail \union
                {[tab |-> t, lease |-> tabs[t].lease, seen |-> tabs[t].seen,
                  edit |-> edit, final |-> final]}
    /\ UNCHANGED <<round, leaseLeft, snapshot, owner>>

\* Mutant: the revision the page has seen is not compared.
HasSeenAny(m) == TRUE

HasSeenStored(m) == m.seen

Storable(m) ==
    /\ AcceptsWrites(Settled)
    /\ m.lease = "held" /\ leaseLeft > 0
    /\ Settled.status = "finishing" => m.final
    /\ HasSeenStored(m)

\* A save is stored, which makes every other copy of the revision an old one;
\* the final save of a finishing round seals it.
StoreSave(m) ==
    /\ Storable(m)
    /\ round' = IF m.final /\ Settled.status = "finishing"
                THEN Seal(Settled, FALSE) ELSE Settled
    /\ leaseLeft' = LeaseTime
    /\ snapshot' = [tab |-> m.tab, edit |-> m.edit, final |-> m.final]
    /\ \E answered \in BOOLEAN :
         tabs' = [u \in Tabs |-> [tabs[u] EXCEPT !.seen = u = m.tab /\ m.seen /\ @ /\ answered]]
    /\ mail' = {[n EXCEPT !.seen = FALSE] : n \in mail \ {m}}
    /\ UNCHANGED owner

\* A save that is lost on the way, or refused.
LoseSave(m) ==
    /\ mail' = mail \ {m}
    /\ UNCHANGED <<round, leaseLeft, snapshot, tabs, owner>>

EditorTick ==
    /\ round' = RoundAfterTick(round)
    /\ leaseLeft' = Down(leaseLeft, 0)
    /\ UNCHANGED <<snapshot, tabs, mail, owner>>

EditorNext ==
    \/ SettleRound
    \/ EndRound
    \/ \E t \in Tabs : TakeOver(t) \/ Recover(t) \/ Fetch(t) \/ SendSave(t)
    \/ \E m \in mail : StoreSave(m) \/ LoseSave(m)
    \/ EditorTick

EditorSpec == EditorInit /\ [][EditorNext]_editorVars

(***************************************************************************)
(* Properties                                                              *)
(***************************************************************************)

\* What a sealed round holds stays, however late a save arrives; and a seal
\* that says the final code came is over a save that was sent as the final one
\* (workspace.rs, snapshot).
SealedStays ==
    [][/\ Sealed(round) =>
            Sealed(round') /\ snapshot' = snapshot /\ round'.incomplete = round.incomplete
       /\ Sealed(round') /\ ~round'.incomplete => snapshot'.final]_editorVars

\* Whatever is delayed, lost or tried again, code is only stored for the page
\* that last took the editor over, and never an older edit of that page over a
\* newer one (writer leases and the revision, workspace.rs).
SavesKeepOrder ==
    [][snapshot' # snapshot =>
        /\ snapshot'.tab = owner
        /\ snapshot.tab = snapshot'.tab => snapshot'.edit >= snapshot.edit]_editorVars

\* The code of a round is the last its page was allowed to store: in order while
\* it is written, and for good once it is sealed (workspace.rs).
CodeIsKept == SavesKeepOrder /\ SealedStays

=============================================================================
