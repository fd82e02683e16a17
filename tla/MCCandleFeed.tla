----------------------------- MODULE MCCandleFeed -----------------------------
(* Constants of the TLC instances of CandleFeed. *)
EXTENDS CandleFeed

\* What the 5 minute series does, the 15 minute one may do, too: the scanner need not come.
MCIntervals == {"1", "15"}

MCDrifts == {"lags", "leads"}
=============================================================================
