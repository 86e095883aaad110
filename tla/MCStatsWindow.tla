--------------------------- MODULE MCStatsWindow ---------------------------
(* StatsWindow for TLC: 5m is 4 seconds, 1m is 2, 24h is 8.                 *)
EXTENDS StatsWindow
=============================================================================
