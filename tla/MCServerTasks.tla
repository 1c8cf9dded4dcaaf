--------------------------- MODULE MCServerTasks ---------------------------
(***************************************************************************)
(* A small instance of PeerObservation and InterviewStart: the tasks of    *)
(* the server that outlive the request that began them.  They share no     *)
(* variable, so one run checks them side by side: a behaviour is of one of *)
(* them, and the other stays where it began.                               *)
(***************************************************************************)
EXTENDS PeerObservation, InterviewStart

CONSTANTS q1, q2, i1, i2, pinned

\* What is kept of the transcript and of the audio have no step in common: a
\* pair that chose both is the two side by side.
MCSavings == {{"transcript"}, {"audio"}}

MCRooms == {q1, q2, pinned}

VARIABLE which      \* of which of them the behaviour is

allVars == <<observationVars, startVars, which>>

\* The starts in every order would be the same starts under other names.  One
\* interview at most is withdrawn or recorded, and no process that lost anything
\* is shut down as well.
FewStarts ==
    /\ request'[q2].at # "idle" => request'[q1].at # "idle"
    /\ interviews'[i2].account # NoAccount => interviews'[i1].account # NoAccount
    /\ Cardinality({i \in Interviews : interviews'[i].withdrawn \/ interviews'[i].recorded}) <= 1
    /\ closed' => losses' = 0

Init ==
    /\ ObservationInit /\ StartInit
    /\ which \in {"observer", "starts"}
    /\ which = "observer" => recording
    /\ which = "starts" => saved = {"audio"} /\ ~paired

Observer(step) == which = "observer" /\ step /\ UNCHANGED <<startVars, which>>
Starts(step) == which = "starts" /\ step /\ UNCHANGED <<observationVars, which>>

Next == Observer(ObservationNext) \/ Starts(StartNext /\ FewStarts)

\* The fairness of each, for the behaviours that are of it.
Fairness ==
    /\ WF_allVars(Observer(Recover))
    /\ WF_allVars(Observer(SweepRow))
    /\ WF_allVars(Observer(Clean("sweep")))
    /\ WF_allVars(Observer(RequestStep))
    /\ WF_allVars(Observer(ObserverStep))
    /\ WF_allVars(Observer(Tick))
    /\ \A q \in Requests : WF_allVars(Starts(RequestGoesOn(q)))
    /\ \A r \in Rooms : WF_allVars(Starts(TaskGoesOn(r)))

Spec == Init /\ [][Next]_allVars /\ Fairness
=============================================================================
