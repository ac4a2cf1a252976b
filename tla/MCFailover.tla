------------------------------- MODULE MCFailover -------------------------------
(***************************************************************************)
(* Failover for TLC, with a cut-down provider catalogue of the deployment: *)
(* groww (priority 5, NSE) and yahoo_finance (40, delayed, both venues).   *)
(***************************************************************************)
EXTENDS Failover

Groww == [name |-> "groww", family |-> "none", exchange |-> "NSE", delayed |-> FALSE, priority |-> 5]
Yahoo == [name |-> "yahoo_finance", family |-> "yahoo", exchange |-> "BOTH", delayed |-> TRUE, priority |-> 40]

NseAndYahoo == <<Groww, Yahoo>>

AnyQuote == [source |-> "auto", live |-> FALSE, exchange |-> "any"]
LiveQuote == [source |-> "auto", live |-> TRUE, exchange |-> "any"]
Pinned == [source |-> "auto", live |-> FALSE, exchange |-> "NSE"]

ByName == [source |-> "yahoo_finance", live |-> TRUE, exchange |-> "any"]

MixedQueries == {AnyQuote, LiveQuote, Pinned, ByName}
=============================================================================
