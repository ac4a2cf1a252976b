----------------------------- MODULE MCMetadata -----------------------------
\* Metadata for TLC.
EXTENDS Metadata

CONSTANTS a, b, t1, t2, Bse
=============================================================================
