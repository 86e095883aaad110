--------------------------- MODULE MCEventStream ---------------------------
(* Model-checking instance of EventStream; the values are in the .cfg's.   *)
EXTENDS EventStream
=============================================================================
