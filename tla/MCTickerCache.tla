---------------------------- MODULE MCTickerCache ----------------------------
\* TickerCache for TLC.
EXTENDS TickerCache

CONSTANTS a, b, r1, r2, c1
=============================================================================
