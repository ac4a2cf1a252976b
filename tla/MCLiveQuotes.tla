---------------------------- MODULE MCLiveQuotes ----------------------------
\* LiveQuotes for TLC.
EXTENDS LiveQuotes

CONSTANTS BSE, a, b, r1, r2, t1, t2, t3
=============================================================================
