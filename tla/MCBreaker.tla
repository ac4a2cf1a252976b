------------------------------- MODULE MCBreaker -------------------------------
\* BreakerRounds for TLC.
EXTENDS BreakerRounds
=============================================================================
