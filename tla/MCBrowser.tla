----------------------------- MODULE MCBrowser ------------------------------
(* Model-checking instance of the browser's two modules, which share no    *)
(* state: `focus` chooses which of them runs, and the other one stays in   *)
(* its initial state, so that one run explores both, one after the other.  *)
EXTENDS Session, ActivityFeed, TLC

CONSTANTS card, chart, list, token, global, c1, c2        (* model values  *)

VARIABLE focus

(* Two components of the page share the token's topic.                     *)
MCTopicOf == [k \in {card, chart, list} |-> IF k = list THEN global ELSE token]

MCInit ==
  /\ focus \in {"feed", "session"}
  /\ Init /\ FeedInit
  /\ focus = "session" => projected = 0

MCNext ==
  \/ focus = "feed" /\ FeedNext /\ UNCHANGED <<vars, focus>>
  \/ focus = "session" /\ Next /\ UNCHANGED <<feedVars, focus>>

(* Neither the order of the connections nor which of the two components    *)
(* of the page mounts matters.                                             *)
BrowserSymmetry == Permutations({card, chart}) \union Permutations(Conns)

MCSpec == MCInit /\ [][MCNext]_<<vars, feedVars, focus>>
=============================================================================
