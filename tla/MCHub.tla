------------------------------- MODULE MCHub -------------------------------
(* Model-checking instance of Hub; the values are in MCHub.cfg.            *)
EXTENDS Hub
=============================================================================
