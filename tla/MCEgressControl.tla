--------------------------- MODULE MCEgressControl ---------------------------
\* EgressControl on small instances: model values for the rows, the jobs and
\* the actors, and the schedules the configurations choose from.
EXTENDS EgressControl, TLC

CONSTANTS r1, r2, j1, j2, h1, h2, s1, s2

\* The code's own schedule: retries at one minute, five and fifteen, stale at
\* fifteen, and a row in "recording" stale at the interview's maximum.
MCRetryBackoff == <<1, 2, 3>>

\* One retry at one minute, for the runs whose question is not the schedule.
MCShortBackoff == <<1>>

MCSymmetry ==
    Permutations(Recordings) \union Permutations(Jobs)
        \union Permutations(Handlers) \union Permutations(Sweepers)
=============================================================================
