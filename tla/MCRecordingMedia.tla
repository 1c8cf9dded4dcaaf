-------------------------- MODULE MCRecordingMedia --------------------------
\* RecordingMedia on small instances.  File ids are opaque: any file that was
\* not made yet is as good as another.
EXTENDS RecordingMedia, TLC

CONSTANTS r1, r2, w1, w2, s1, f1, f2, f3

\* The schedule of retries of a start, which nothing here reads.
MCRetryBackoff == <<1>>

MCSymmetry ==
    Permutations(Recordings) \union Permutations(Workers)
        \union Permutations(Sweepers) \union Permutations(Files)
=============================================================================
