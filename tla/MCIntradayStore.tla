---------------------------- MODULE MCIntradayStore ----------------------------
\* IntradayStore for TLC.
EXTENDS IntradayStore
=============================================================================
