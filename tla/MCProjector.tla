---------------------------- MODULE MCProjector -----------------------------
(* Model-checking instance of Projector; the values are in the .cfg's.     *)
EXTENDS Projector

(* The life of a token that migrates, with a trade on each market.         *)
Life == <<"create", "trade", "migrate", "createPool", "swap">>
=============================================================================
