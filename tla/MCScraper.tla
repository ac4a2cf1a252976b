------------------------------ MODULE MCScraper ------------------------------
\* Scraper for TLC.
EXTENDS Scraper

CONSTANTS p1, p2, p3, t1, t2, n1
=============================================================================
