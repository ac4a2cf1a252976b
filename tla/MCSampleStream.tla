---------------------------- MODULE MCSampleStream ----------------------------
\* SampleStream for TLC: who fetches from where.
EXTENDS SampleStream, TLC

CONSTANTS loop, reader, groww, tickertape

\* The recorder loop and a live quote (or the watchlist recorder) each fail over
\* between the same two sources.
SharedSources == [f \in {loop, reader} |-> {groww, tickertape}]

Alike == Permutations({loop, reader}) \cup Permutations({groww, tickertape})
=============================================================================
