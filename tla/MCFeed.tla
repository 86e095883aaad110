------------------------------- MODULE MCFeed -------------------------------
(* Model-checking instance of ActivityFeed; the values are in the .cfg's.   *)
EXTENDS ActivityFeed
=============================================================================
