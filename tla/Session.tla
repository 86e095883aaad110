------------------------------ MODULE Session -------------------------------
(***************************************************************************)
(* The subscriptions of a browser, from the components that mount to the   *)
(* hub: the reference counts and delayed unsubscribes of                   *)
(* frontend/context/WebSocketContext.tsx, and the read loop, the write     *)
(* loop and the deferred cleanup of ServeWS (backend/internal/httpapi/     *)
(* ws.go), which run beside each other.                                    *)
(*                                                                         *)
(* ServeWS returns when its write loop does; its deferred function takes   *)
(* the lock and unsubscribes what is in `subs`, and only then are the      *)
(* context cancelled and the socket closed.  The read loop may still hold  *)
(* a message, or read another one.  What flows through a subscription is   *)
(* the matter of EventStream; here an event only gives its topic a cursor. *)
(***************************************************************************)
EXTENDS Integers, Sequences, FiniteSets

CONSTANTS
  Components,  (* components of the user interface that use a topic *)
  Topics,
  TopicOf,     (* the topic of each component                       *)
  Conns,       (* connections                                       *)
  MaxMounts,   (* bound: mounts                                     *)
  None

Message(action, topic) == [action |-> action, topic |-> topic]
Messages == [action : {"subscribe", "unsubscribe"}, topic : Topics]

ASSUME SessionAssumption ==
  /\ IsFiniteSet(Components) /\ IsFiniteSet(Topics) /\ IsFiniteSet(Conns)
  /\ TopicOf \in [Components -> Topics]
  /\ None \notin Conns \union Messages

VARIABLES
  mounted,     (* the components that are mounted                            *)
  mounts,      (* mounts so far                                              *)
  refs,        (* topicRefCountsRef                                          *)
  subscribed,  (* subscribedTopicsRef                                        *)
  timers,      (* pendingUnsubscribeRef                                      *)
  cursors,     (* topicCursorRef: the topics that have a cursor              *)
  ws,          (* wsRef: a connection, or None                               *)
  up,          (* messages on their way to the read loop                     *)
  conn,        (* "unused", "connecting", "open", then ServeWS "returned",   *)
               (* "cleaned" and "gone": the socket is closed                 *)
  done,        (* the session's context is cancelled                         *)
  reader,      (* the read loop: "reading", "handling" or "ended"            *)
  inHand,      (* the message it has read                                    *)
  subs,        (* the session's subs: topics it has a subscription for       *)
  inHub,       (* the topics it is registered for in the hub                 *)
  gauge,       (* ws_topic_subscriptions                                     *)
  late,        (* history: topics subscribed after the session's cleanup     *)
  drift        (* history: what messages after a cleanup did to the gauge    *)

browserVars == <<mounted, mounts, refs, subscribed, timers, cursors>>
loopVars == <<reader, inHand>>
subVars == <<subs, inHub, gauge, late, drift>>
vars == <<browserVars, ws, up, conn, done, loopVars, subVars>>

Init ==
  /\ mounted = {} /\ mounts = 0
  /\ refs = [t \in Topics |-> 0]
  /\ subscribed = {} /\ timers = {} /\ cursors = {}
  /\ ws = None
  /\ up = [c \in Conns |-> <<>>]
  /\ conn = [c \in Conns |-> "unused"]
  /\ done = [c \in Conns |-> FALSE]
  /\ reader = [c \in Conns |-> "ended"]
  /\ inHand = [c \in Conns |-> None]
  /\ subs = [c \in Conns |-> {}]
  /\ inHub = [c \in Conns |-> {}]
  /\ late = [c \in Conns |-> {}]
  /\ gauge = 0 /\ drift = 0

-----------------------------------------------------------------------------
(* sendJson: a message is lost unless the current socket is open.          *)
IsOpen == ws # None /\ conn[ws] # "connecting"
Send(msg) == up' = IF IsOpen THEN [up EXCEPT ![ws] = Append(@, msg)] ELSE up

(* A component mounts and subscribes: only its topic's first user tells    *)
(* the server.                                                             *)
Mount(k) ==
  LET t == TopicOf[k] IN
  /\ k \notin mounted /\ mounts < MaxMounts
  /\ mounted' = mounted \union {k} /\ mounts' = mounts + 1
  /\ timers' = timers \ {t}
  /\ refs' = [refs EXCEPT ![t] = @ + 1]
  /\ IF refs[t] > 0
     THEN UNCHANGED <<subscribed, up>>
     ELSE subscribed' = subscribed \union {t} /\ Send(Message("subscribe", t))
  /\ UNCHANGED <<cursors, ws, conn, done, loopVars, subVars>>

(* Mutant, for CursorSurvives: an off-by-one in the reference count.       *)
LastUserOffByOne(t) == refs[t] <= 2

LastUser(t) == refs[t] <= 1

(* It unmounts: with the last user a timer of 0 ms is started.             *)
Unmount(k) ==
  LET t == TopicOf[k] IN
  /\ k \in mounted
  /\ mounted' = mounted \ {k}
  /\ IF LastUser(t)
     THEN refs' = [refs EXCEPT ![t] = 0] /\ timers' = timers \union {t}
     ELSE refs' = [refs EXCEPT ![t] = @ - 1] /\ timers' = timers \ {t}
  /\ UNCHANGED <<mounts, subscribed, cursors, ws, up, conn, done, loopVars, subVars>>

(* The timer fires: the topic and its cursor are forgotten.                *)
DelayedUnsubscribe(t) ==
  /\ t \in timers
  /\ timers' = timers \ {t}
  /\ IF refs[t] > 0
     THEN UNCHANGED <<subscribed, cursors, up>>
     ELSE /\ subscribed' = subscribed \ {t}
          /\ cursors' = cursors \ {t}
          /\ Send(Message("unsubscribe", t))
  /\ UNCHANGED <<mounted, mounts, refs, ws, conn, done, loopVars, subVars>>

-----------------------------------------------------------------------------
(* connect, at the start and after each onclose.                           *)
Connect(c) ==
  /\ ws = None /\ conn[c] = "unused"
  /\ ws' = c
  /\ conn' = [conn EXCEPT ![c] = "connecting"]
  /\ UNCHANGED <<browserVars, up, done, loopVars, subVars>>

(* Mutant, for ServerAgrees: only the topics that have a cursor are asked  *)
(* for again.                                                              *)
TopicsOnOpenWithCursor == subscribed \intersect cursors

(* onopen subscribes to everything again, in no particular order.          *)
TopicsOnOpen == subscribed

Open(c) ==
  /\ conn[c] = "connecting"
  /\ conn' = [conn EXCEPT ![c] = "open"]
  /\ reader' = [reader EXCEPT ![c] = "reading"]
  /\ \E order \in [1..Cardinality(TopicsOnOpen) -> TopicsOnOpen] :
       /\ \A t \in TopicsOnOpen : \E i \in DOMAIN order : order[i] = t
       /\ up' = [up EXCEPT ![c] = [i \in DOMAIN order |-> Message("subscribe", order[i])]]
  /\ UNCHANGED <<browserVars, ws, done, inHand, subVars>>

(* onclose, once the server has closed the socket or the network is gone.  *)
OnClose(c) ==
  /\ ws = c /\ conn[c] # "connecting" /\ (conn[c] = "gone" \/ done[c])
  /\ ws' = None
  /\ UNCHANGED <<browserVars, up, conn, done, loopVars, subVars>>

-----------------------------------------------------------------------------
(* The read loop reads a message, as long as its context is not cancelled. *)
Read(c) ==
  /\ reader[c] = "reading" /\ ~done[c] /\ up[c] # <<>>
  /\ inHand' = [inHand EXCEPT ![c] = Head(up[c])]
  /\ up' = [up EXCEPT ![c] = Tail(@)]
  /\ reader' = [reader EXCEPT ![c] = "handling"]
  /\ UNCHANGED <<browserVars, ws, conn, done, subVars>>

(* The read fails (the network, a cancelled context, a closed socket): the *)
(* loop ends and cancels the context.                                      *)
ReadFails(c) ==
  /\ reader[c] = "reading"
  /\ reader' = [reader EXCEPT ![c] = "ended"]
  /\ done' = [done EXCEPT ![c] = TRUE]
  /\ UNCHANGED <<browserVars, ws, up, conn, inHand, subVars>>

Handled(c, action) ==
  /\ reader[c] = "handling" /\ inHand[c].action = action
  /\ inHand' = [inHand EXCEPT ![c] = None]
  /\ reader' = [reader EXCEPT ![c] = "reading"]

IsLate(c) == conn[c] \in {"cleaned", "gone"}

(* subscribe, under subsMu: a topic that is there already is left alone.   *)
HandleSubscribe(c) ==
  LET t == inHand[c].topic IN
  /\ Handled(c, "subscribe")
  /\ IF t \in subs[c] THEN UNCHANGED subVars
     ELSE /\ subs' = [subs EXCEPT ![c] = @ \union {t}]
          /\ inHub' = [inHub EXCEPT ![c] = @ \union {t}]
          /\ gauge' = gauge + 1
          /\ late' = IF IsLate(c) THEN [late EXCEPT ![c] = @ \union {t}] ELSE late
          /\ drift' = IF IsLate(c) THEN drift + 1 ELSE drift
  /\ UNCHANGED <<browserVars, ws, up, conn, done>>

HandleUnsubscribe(c) ==
  LET t == inHand[c].topic IN
  /\ Handled(c, "unsubscribe")
  /\ IF t \notin subs[c] THEN UNCHANGED subVars
     ELSE /\ subs' = [subs EXCEPT ![c] = @ \ {t}]
          /\ inHub' = [inHub EXCEPT ![c] = @ \ {t}]
          /\ gauge' = gauge - 1
          /\ drift' = IF IsLate(c) THEN drift - 1 ELSE drift
          /\ UNCHANGED late
  /\ UNCHANGED <<browserVars, ws, up, conn, done>>

(* The hub evicts a full subscription: its forwarder, which runs as long   *)
(* as the context is not cancelled, closes the connection.                 *)
Evict(c, t) ==
  /\ t \in inHub[c]
  /\ inHub' = [inHub EXCEPT ![c] = @ \ {t}]
  /\ done' = [done EXCEPT ![c] = TRUE]
  /\ UNCHANGED <<browserVars, ws, up, conn, loopVars, subs, gauge, late, drift>>

(* An event is forwarded and written; onmessage gives its topic a cursor.  *)
Deliver(c, t) ==
  /\ conn[c] = "open" /\ ~done[c] /\ ws = c
  /\ t \in inHub[c]
  /\ cursors' = cursors \union {t}
  /\ UNCHANGED <<mounted, mounts, refs, subscribed, timers, ws, up, conn, done,
                 loopVars, subVars>>

(* The write loop returns: the context is done, or a write fails.          *)
WriteLoopReturns(c) ==
  /\ conn[c] = "open"
  /\ conn' = [conn EXCEPT ![c] = "returned"]
  /\ UNCHANGED <<browserVars, ws, up, done, loopVars, subVars>>

(* The deferred functions: first, under subsMu, everything in subs is      *)
(* unsubscribed (subs itself stays as it is); then the context and the     *)
(* socket.  Mutants, for NothingLeftInHub and GaugeCounts: the context is  *)
(* all that is released; the gauge is counted after the map is emptied.    *)
ReleasedNone(c) == {}
Released(c) == subs[c]

GaugeReleasedNone(c) == 0
GaugeReleased(c) == Cardinality(subs[c])

Cleanup(c) ==
  /\ conn[c] = "returned"
  /\ inHub' = [inHub EXCEPT ![c] = @ \ Released(c)]
  /\ gauge' = gauge - GaugeReleased(c)
  /\ conn' = [conn EXCEPT ![c] = "cleaned"]
  /\ UNCHANGED <<browserVars, ws, up, done, loopVars, subs, late, drift>>

CloseNow(c) ==
  /\ conn[c] = "cleaned"
  /\ conn' = [conn EXCEPT ![c] = "gone"]
  /\ done' = [done EXCEPT ![c] = TRUE]
  /\ UNCHANGED <<browserVars, ws, up, loopVars, subVars>>

-----------------------------------------------------------------------------
Serve(c) ==
  \/ Read(c) \/ ReadFails(c) \/ HandleSubscribe(c) \/ HandleUnsubscribe(c)
  \/ WriteLoopReturns(c) \/ Cleanup(c) \/ CloseNow(c)

Next ==
  \/ \E k \in Components : Mount(k) \/ Unmount(k)
  \/ \E t \in Topics : DelayedUnsubscribe(t)
  \/ \E c \in Conns : Connect(c) \/ Open(c) \/ OnClose(c) \/ Serve(c)
  \/ \E c \in Conns, t \in Topics :
       Evict(c, t) \/ Deliver(c, t)

Spec == Init /\ [][Next]_vars

-----------------------------------------------------------------------------
(* When every message has arrived and been handled, an open session has a  *)
(* subscription for exactly the topics the browser wants, over reconnects, *)
(* quick unmounts and remounts and messages lost while the socket was not  *)
(* open: and it wants the topic of every mounted component.                *)
Quiet(c) ==
  /\ ws = c /\ conn[c] \in {"open", "returned"}
  /\ up[c] = <<>> /\ reader[c] = "reading"

ServerAgrees ==
  /\ \A c \in Conns : Quiet(c) => subs[c] = subscribed
  /\ \A k \in mounted : TopicOf[k] \in subscribed

(* A topic that a component uses throughout never loses its cursor, so     *)
(* that a reconnect replays what came in between.                          *)
CursorSurvives ==
  [][\A k \in mounted \intersect mounted' :
       TopicOf[k] \in cursors => TopicOf[k] \in cursors']_vars

(* A session leaves nothing in the hub, except what a subscribe message    *)
(* put there that was handled after the cleanup: its forwarder ends with   *)
(* the context, and the hub is rid of it when it overflows.                *)
NothingLeftInHub ==
  \A c \in Conns : IsLate(c) => inHub[c] \subseteq late[c]

(* ws_topic_subscriptions counts the topics of the sessions that have not  *)
(* been cleaned up, and is off for good by what late messages added to it  *)
(* or took from it.                                                        *)
Live == {c \in Conns : ~IsLate(c)}
GaugeCounts ==
  gauge = drift + Cardinality({x \in Live \X Topics : x[2] \in subs[x[1]]})
=============================================================================
