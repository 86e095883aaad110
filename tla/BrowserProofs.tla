--------------------------- MODULE BrowserProofs ----------------------------
(***************************************************************************)
(* Theorems about the browser's two modules.  About Session, for any       *)
(* number of components, topics and connections: browser and server agree  *)
(* about the subscriptions, a topic in use keeps its cursor, a session     *)
(* leaves nothing in the hub but what came late, and the gauge counts what *)
(* it should.  About ActivityFeed, for any page size and any number of     *)
(* events and of lost connections: the page keeps what it has received,    *)
(* its pages leave no hole, an open socket loses nothing it could replay,  *)
(* and the list is newest first.                                           *)
(***************************************************************************)
EXTENDS Session, ActivityFeed, TLAPS, FiniteSetTheorems, SequenceTheorems,
        WellFoundedInduction

Users(t) == {k \in mounted : TopicOf[k] = t}
LiveTopics == {x \in Live \X Topics : x[2] \in subs[x[1]]}

BrowserType ==
  /\ mounted \subseteq Components /\ mounts \in Nat
  /\ refs \in [Topics -> Nat]
  /\ subscribed \subseteq Topics /\ timers \subseteq Topics /\ cursors \subseteq Topics
  /\ ws \in Conns \union {None}
  /\ up \in [Conns -> Seq(Messages)]

ServerType ==
  /\ conn \in [Conns -> {"unused", "connecting", "open", "returned", "cleaned", "gone"}]
  /\ done \in [Conns -> BOOLEAN]
  /\ reader \in [Conns -> {"reading", "handling", "ended"}]
  /\ inHand \in [Conns -> Messages \union {None}]
  /\ subs \in [Conns -> SUBSET Topics] /\ inHub \in [Conns -> SUBSET Topics]
  /\ late \in [Conns -> SUBSET Topics]
  /\ gauge \in Int /\ drift \in Int

(* A reference count is the number of components that use the topic, and a *)
(* topic in use is subscribed.                                             *)
CountInv ==
  \A t \in Topics : refs[t] = Cardinality(Users(t)) /\ (refs[t] > 0 => t \in subscribed)

(* The read loop has a message exactly while it handles it, and a session  *)
(* that has not begun has nothing.                                         *)
LoopInv ==
  \A c \in Conns :
    /\ reader[c] = "handling" <=> inHand[c] # None
    /\ conn[c] \in {"unused", "connecting"} => reader[c] = "ended" /\ subs[c] = {} /\ inHub[c] = {}

(* Until the cleanup the hub has nothing that is not in subs; afterwards   *)
(* nothing that did not come late.                                         *)
RegisteredInv ==
  \A c \in Conns : inHub[c] \subseteq IF IsLate(c) THEN late[c] ELSE subs[c]

(* What the server will know of each topic when it has handled the         *)
(* messages under way, u, and the one in hand, h, is what the browser      *)
(* wants, w: the last message about the topic decides, or else subs, s.    *)
Agreed(u, h, s, w) ==
  \A t \in Topics :
    /\ \A i \in DOMAIN u :
         u[i].topic = t /\ (\A j \in DOMAIN u : j > i => u[j].topic # t)
           => (u[i].action = "subscribe" <=> t \in w)
    /\ (\A i \in DOMAIN u : u[i].topic # t) =>
         IF h # None /\ h.topic = t THEN h.action = "subscribe" <=> t \in w
                                    ELSE t \in s <=> t \in w

AgreeInv ==
  \A c \in Conns : ws = c /\ conn[c] \notin {"unused", "connecting"} =>
    Agreed(up[c], inHand[c], subs[c], subscribed)

SessionInv ==
  /\ BrowserType /\ ServerType /\ CountInv /\ LoopInv /\ RegisteredInv /\ AgreeInv
  /\ GaugeCounts

-----------------------------------------------------------------------------
(* Agreed: a message is sent along with a change of what is wanted ...     *)
LEMMA AgreedAfterSend ==
  ASSUME NEW u \in Seq(Messages), NEW m \in Messages, NEW h, NEW s, NEW w, NEW v,
         Agreed(u, h, s, w),
         v = IF m.action = "subscribe" THEN w \union {m.topic} ELSE w \ {m.topic}
  PROVE  Agreed(Append(u, m), h, s, v)
<1>1. /\ DOMAIN u = 1..Len(u) /\ Len(u) \in Nat
      /\ DOMAIN Append(u, m) = 1..(Len(u) + 1)
      /\ Append(u, m)[Len(u) + 1] = m
      /\ \A i \in 1..Len(u) : Append(u, m)[i] = u[i]
  OBVIOUS
<1>2. m.topic \in Topics
  BY DEF Messages
<1> SUFFICES ASSUME NEW t \in Topics
             PROVE  /\ \A i \in DOMAIN Append(u, m) :
                         /\ Append(u, m)[i].topic = t
                         /\ \A j \in DOMAIN Append(u, m) : j > i => Append(u, m)[j].topic # t
                         => (Append(u, m)[i].action = "subscribe" <=> t \in v)
                    /\ (\A i \in DOMAIN Append(u, m) : Append(u, m)[i].topic # t) =>
                         IF h # None /\ h.topic = t THEN h.action = "subscribe" <=> t \in v
                                                    ELSE t \in s <=> t \in v
  BY DEF Agreed
<1>3. CASE t = m.topic
  <2>1. ASSUME NEW i \in 1..(Len(u) + 1),
               \A j \in 1..(Len(u) + 1) : j > i => Append(u, m)[j].topic # t
        PROVE  i = Len(u) + 1
    BY <1>1, <1>3, <2>1
  <2>2. m.action = "subscribe" <=> t \in v
    BY <1>3
  <2> QED
    BY <1>1, <1>3, <2>1, <2>2
<1>4. CASE t # m.topic
  <2>1. t \in v <=> t \in w
    BY <1>4
  <2>2. ASSUME NEW i \in 1..(Len(u) + 1), Append(u, m)[i].topic = t,
               \A j \in 1..(Len(u) + 1) : j > i => Append(u, m)[j].topic # t
        PROVE  Append(u, m)[i].action = "subscribe" <=> t \in v
    <3>1. i \in 1..Len(u) /\ u[i].topic = t /\ \A j \in 1..Len(u) : j > i => u[j].topic # t
      BY <1>1, <1>4, <2>2
    <3> QED
      BY <1>1, <2>1, <3>1 DEF Agreed
  <2>3. ASSUME \A i \in 1..(Len(u) + 1) : Append(u, m)[i].topic # t
        PROVE  \A i \in 1..Len(u) : u[i].topic # t
    BY <1>1, <2>3
  <2> QED
    BY <1>1, <2>1, <2>2, <2>3 DEF Agreed
<1> QED
  BY <1>3, <1>4

(* ... read ...                                                            *)
LEMMA AgreedAfterRead ==
  ASSUME NEW u \in Seq(Messages), u # <<>>, NEW s, NEW w, None \notin Messages,
         Agreed(u, None, s, w)
  PROVE  Agreed(Tail(u), Head(u), s, w)
<1>1. /\ DOMAIN u = 1..Len(u) /\ Len(u) \in Nat /\ Len(u) > 0
      /\ DOMAIN Tail(u) = 1..(Len(u) - 1)
      /\ \A i \in 1..(Len(u) - 1) : Tail(u)[i] = u[i + 1]
      /\ Head(u) = u[1] /\ u[1] \in Messages
  OBVIOUS
<1> SUFFICES ASSUME NEW t \in Topics
             PROVE  /\ \A i \in DOMAIN Tail(u) :
                         /\ Tail(u)[i].topic = t
                         /\ \A j \in DOMAIN Tail(u) : j > i => Tail(u)[j].topic # t
                         => (Tail(u)[i].action = "subscribe" <=> t \in w)
                    /\ (\A i \in DOMAIN Tail(u) : Tail(u)[i].topic # t) =>
                         IF Head(u) # None /\ Head(u).topic = t
                         THEN Head(u).action = "subscribe" <=> t \in w
                         ELSE t \in s <=> t \in w
  BY DEF Agreed
<1>2. ASSUME NEW i \in 1..(Len(u) - 1), Tail(u)[i].topic = t,
             \A j \in 1..(Len(u) - 1) : j > i => Tail(u)[j].topic # t
      PROVE  Tail(u)[i].action = "subscribe" <=> t \in w
  <2>1. ASSUME NEW j \in 1..Len(u), j > i + 1 PROVE u[j].topic # t
    <3>1. j - 1 \in 1..(Len(u) - 1) /\ j - 1 > i /\ (j - 1) + 1 = j
      BY <1>1, <2>1
    <3> QED
      BY <1>1, <1>2, <3>1
  <2>2. i + 1 \in 1..Len(u) /\ u[i + 1].topic = t
    BY <1>1, <1>2
  <2> QED
    BY <1>1, <2>1, <2>2 DEF Agreed
<1>3. ASSUME \A i \in 1..(Len(u) - 1) : Tail(u)[i].topic # t
      PROVE  IF Head(u) # None /\ Head(u).topic = t
             THEN Head(u).action = "subscribe" <=> t \in w
             ELSE t \in s <=> t \in w
  <2>1. ASSUME NEW j \in 1..Len(u), j > 1 PROVE u[j].topic # t
    <3>1. j - 1 \in 1..(Len(u) - 1) /\ (j - 1) + 1 = j
      BY <1>1, <2>1
    <3> QED
      BY <1>1, <1>3, <3>1
  <2>2. CASE u[1].topic = t
    BY <1>1, <2>1, <2>2 DEF Agreed
  <2>3. CASE u[1].topic # t
    <3>1. \A j \in DOMAIN u : u[j].topic # t
      BY <1>1, <2>1, <2>3
    <3> QED
      BY <1>1, <2>3, <3>1 DEF Agreed
  <2> QED
    BY <2>2, <2>3
<1> QED
  BY <1>1, <1>2, <1>3

(* ... handled ...                                                         *)
LEMMA AgreedAfterHandling ==
  ASSUME NEW u, NEW m \in Messages, NEW s, NEW w, None \notin Messages,
         Agreed(u, m, s, w), NEW r,
         r = IF m.action = "subscribe" THEN s \union {m.topic} ELSE s \ {m.topic}
  PROVE  Agreed(u, None, r, w)
BY DEF Agreed

(* ... and everything that is wanted is asked for on a new connection.     *)
LEMMA AgreedOnOpen ==
  ASSUME NEW S \in SUBSET Topics, IsFiniteSet(S),
         NEW order \in [1..Cardinality(S) -> S],
         \A t \in S : \E i \in DOMAIN order : order[i] = t
  PROVE  LET u == [i \in DOMAIN order |-> Message("subscribe", order[i])]
         IN  u \in Seq(Messages) /\ Agreed(u, None, {}, S)
<1> DEFINE u == [i \in DOMAIN order |-> Message("subscribe", order[i])]
<1>1. Cardinality(S) \in Nat
  BY FS_CardinalityType
<1>2. /\ DOMAIN u = 1..Cardinality(S) /\ DOMAIN order = 1..Cardinality(S)
      /\ \A i \in DOMAIN u : /\ u[i] \in Messages /\ order[i] \in S
                             /\ u[i].topic = order[i] /\ u[i].action = "subscribe"
  BY DEF Message, Messages
<1>3. u \in [1..Cardinality(S) -> Messages]
  BY <1>2
<1>4. u \in Seq(Messages)
  BY <1>1, <1>3
<1>5. Agreed(u, None, {}, S)
  <2> HIDE DEF u
  <2> QED
    BY <1>2 DEF Agreed
<1> QED
  BY <1>4, <1>5
-----------------------------------------------------------------------------
(* Types.                                                                  *)
LEMMA SendType ==
  ASSUME BrowserType, NEW msg \in Messages, Send(msg)
  PROVE  up' \in [Conns -> Seq(Messages)]
BY DEF Send, IsOpen, BrowserType

LEMMA BrowserTypePreserved ==
  ASSUME BrowserType, ServerType, [Next]_vars
  PROVE  BrowserType'
<1> USE DEF BrowserType
<1>1. ASSUME NEW k \in Components, Mount(k) PROVE BrowserType'
  <2>1. TopicOf[k] \in Topics /\ Message("subscribe", TopicOf[k]) \in Messages
    BY SessionAssumption DEF Message, Messages
  <2>2. up' \in [Conns -> Seq(Messages)]
    BY <1>1, <2>1, SendType DEF Mount
  <2>3. refs' \in [Topics -> Nat] /\ mounts' \in Nat /\ mounted' \subseteq Components
    BY <1>1, <2>1 DEF Mount
  <2>4. subscribed' \subseteq Topics /\ timers' \subseteq Topics
    BY <1>1, <2>1 DEF Mount
  <2>5. UNCHANGED <<cursors, ws>>
    BY <1>1 DEF Mount
  <2> QED
    BY <2>2, <2>3, <2>4, <2>5
<1>2. ASSUME NEW k \in Components, Unmount(k) PROVE BrowserType'
  <2>1. TopicOf[k] \in Topics
    BY SessionAssumption
  <2>2. CASE LastUser(TopicOf[k])
    <3>1. refs' = [refs EXCEPT ![TopicOf[k]] = 0] /\ timers' = timers \union {TopicOf[k]}
      BY <1>2, <2>2 DEF Unmount
    <3>2. refs' \in [Topics -> Nat] /\ timers' \subseteq Topics
      BY <2>1, <3>1
    <3>3. mounted' = mounted \ {k} /\ UNCHANGED <<mounts, subscribed, cursors, ws, up>>
      BY <1>2 DEF Unmount
    <3> QED
      BY <3>2, <3>3
  <2>3. CASE ~LastUser(TopicOf[k])
    <3>1. refs[TopicOf[k]] - 1 \in Nat
      BY <2>1, <2>3 DEF LastUser
    <3>2. refs' = [refs EXCEPT ![TopicOf[k]] = refs[TopicOf[k]] - 1]
      BY <1>2, <2>3 DEF Unmount
    <3>3. refs' \in [Topics -> Nat]
      BY <3>1, <3>2
    <3> QED
      BY <1>2, <2>1, <2>3, <3>3 DEF Unmount
  <2> QED
    BY <2>2, <2>3
<1>3. ASSUME NEW t \in Topics, DelayedUnsubscribe(t) PROVE BrowserType'
  <2>1. Message("unsubscribe", t) \in Messages
    BY DEF Message, Messages
  <2>2. up' \in [Conns -> Seq(Messages)]
    BY <1>3, <2>1, SendType DEF DelayedUnsubscribe
  <2> QED
    BY <1>3, <2>2 DEF DelayedUnsubscribe
<1>4. ASSUME NEW c \in Conns, Connect(c) \/ OnClose(c) PROVE BrowserType'
  BY <1>4 DEF Connect, OnClose, browserVars
<1>5. ASSUME NEW c \in Conns, Open(c) PROVE BrowserType'
  <2>1. PICK order \in [1..Cardinality(TopicsOnOpen) -> TopicsOnOpen] :
          /\ \A t \in TopicsOnOpen : \E i \in DOMAIN order : order[i] = t
          /\ up' = [up EXCEPT ![c] = [i \in DOMAIN order |-> Message("subscribe", order[i])]]
    BY <1>5 DEF Open
  <2>2. IsFiniteSet(subscribed)
    BY FS_Subset, SessionAssumption
  <2>3. [i \in DOMAIN order |-> Message("subscribe", order[i])] \in Seq(Messages)
    BY <2>1, <2>2, AgreedOnOpen DEF TopicsOnOpen
  <2> QED
    BY <1>5, <2>1, <2>3 DEF Open, browserVars
<1>6. ASSUME NEW c \in Conns, Read(c) PROVE BrowserType'
  BY <1>6 DEF Read, browserVars
<1>7. ASSUME NEW c \in Conns,
             \/ ReadFails(c) \/ HandleSubscribe(c) \/ HandleUnsubscribe(c)
             \/ WriteLoopReturns(c) \/ Cleanup(c) \/ CloseNow(c)
      PROVE  BrowserType'
  BY <1>7 DEF ReadFails, HandleSubscribe, HandleUnsubscribe, WriteLoopReturns, Cleanup,
              CloseNow, browserVars
<1>8. ASSUME NEW c \in Conns, NEW t \in Topics, Evict(c, t) \/ Deliver(c, t)
      PROVE  BrowserType'
  BY <1>8 DEF Evict, Deliver, browserVars
<1>9. CASE UNCHANGED vars
  BY <1>9 DEF vars, browserVars
<1> QED
  BY <1>1, <1>2, <1>3, <1>4, <1>5, <1>6, <1>7, <1>8, <1>9 DEF Next, Serve

LEMMA ServerTypePreserved ==
  ASSUME BrowserType, ServerType, LoopInv, [Next]_vars
  PROVE  ServerType'
<1> USE DEF ServerType
<1>1. ASSUME NEW k \in Components, Mount(k) \/ Unmount(k) PROVE ServerType'
  BY <1>1 DEF Mount, Unmount, loopVars, subVars
<1>2. ASSUME NEW t \in Topics, DelayedUnsubscribe(t) PROVE ServerType'
  BY <1>2 DEF DelayedUnsubscribe, loopVars, subVars
<1>3. ASSUME NEW c \in Conns,
             \/ Connect(c) \/ Open(c) \/ OnClose(c) \/ ReadFails(c)
             \/ WriteLoopReturns(c) \/ CloseNow(c)
      PROVE  ServerType'
  BY <1>3 DEF Connect, Open, OnClose, ReadFails, WriteLoopReturns, CloseNow, loopVars, subVars
<1>4. ASSUME NEW c \in Conns, Read(c) PROVE ServerType'
  <2>1. Head(up[c]) \in Messages
    BY <1>4 DEF Read, BrowserType
  <2> QED
    BY <1>4, <2>1 DEF Read, subVars
<1>5. ASSUME NEW c \in Conns, HandleSubscribe(c) \/ HandleUnsubscribe(c) PROVE ServerType'
  <2>1. inHand[c] \in Messages /\ inHand[c].topic \in Topics
    BY <1>5 DEF HandleSubscribe, HandleUnsubscribe, Handled, LoopInv, Messages
  <2>2. CASE HandleSubscribe(c)
    BY <2>1, <2>2 DEF HandleSubscribe, Handled, subVars
  <2>3. CASE HandleUnsubscribe(c)
    BY <2>1, <2>3 DEF HandleUnsubscribe, Handled, subVars
  <2> QED
    BY <1>5, <2>2, <2>3
<1>6. ASSUME NEW c \in Conns, Cleanup(c) PROVE ServerType'
  <2>1. Cardinality(subs[c]) \in Nat
    BY FS_Subset, FS_CardinalityType, SessionAssumption
  <2> QED
    BY <1>6, <2>1 DEF Cleanup, Released, GaugeReleased, loopVars
<1>7. ASSUME NEW c \in Conns, NEW t \in Topics, Evict(c, t) \/ Deliver(c, t)
      PROVE  ServerType'
  BY <1>7 DEF Evict, Deliver, loopVars, subVars
<1>8. CASE UNCHANGED vars
  BY <1>8 DEF vars, loopVars, subVars
<1> QED
  BY <1>1, <1>2, <1>3, <1>4, <1>5, <1>6, <1>7, <1>8 DEF Next, Serve

(* Reference counts.                                                       *)
LEMMA CountPreserved ==
  ASSUME BrowserType, CountInv, [Next]_vars
  PROVE  CountInv'
<1> USE DEF BrowserType
<1>0. \A t \in Topics : IsFiniteSet(Users(t)) /\ Cardinality(Users(t)) \in Nat
  <2>1. \A t \in Topics : Users(t) \in SUBSET Components
    BY DEF Users
  <2> QED
    BY <2>1, FS_Subset, FS_CardinalityType, SessionAssumption
<1>1. ASSUME NEW k \in Components, Mount(k) PROVE CountInv'
  <2>1. TopicOf[k] \in Topics
    BY SessionAssumption
  <2>2. \A t \in Topics : Users(t)' = IF t = TopicOf[k] THEN Users(t) \union {k} ELSE Users(t)
    BY <1>1 DEF Mount, Users
  <2>3. k \notin Users(TopicOf[k])
    BY <1>1 DEF Mount, Users
  <2>4. Cardinality(Users(TopicOf[k])') = Cardinality(Users(TopicOf[k])) + 1
    <3>1. IsFiniteSet(Users(TopicOf[k])) /\ Users(TopicOf[k])' = Users(TopicOf[k]) \union {k}
      BY <1>0, <2>1, <2>2
    <3> QED
      BY <2>3, <3>1, FS_AddElement
  <2>5. refs' = [refs EXCEPT ![TopicOf[k]] = refs[TopicOf[k]] + 1]
    BY <1>1 DEF Mount
  <2>6. subscribed \subseteq subscribed' /\ (refs[TopicOf[k]] > 0 \/ TopicOf[k] \in subscribed')
    BY <1>1 DEF Mount
  <2>7. ASSUME NEW t \in Topics
        PROVE  refs'[t] = Cardinality(Users(t)') /\ (refs'[t] > 0 => t \in subscribed')
    <3>1. CASE t = TopicOf[k]
      BY <2>1, <2>4, <2>5, <2>6, <3>1 DEF CountInv
    <3>2. CASE t # TopicOf[k]
      BY <2>2, <2>5, <2>6, <3>2 DEF CountInv
    <3> QED
      BY <3>1, <3>2
  <2> QED
    BY <2>7 DEF CountInv
<1>2. ASSUME NEW k \in Components, Unmount(k) PROVE CountInv'
  <2>1. TopicOf[k] \in Topics
    BY SessionAssumption
  <2>2. \A t \in Topics : Users(t)' = IF t = TopicOf[k] THEN Users(t) \ {k} ELSE Users(t)
    BY <1>2 DEF Unmount, Users
  <2>3. k \in Users(TopicOf[k])
    BY <1>2 DEF Unmount, Users
  <2>4. Cardinality(Users(TopicOf[k])') = Cardinality(Users(TopicOf[k])) - 1
    BY <1>0, <2>1, <2>2, <2>3, FS_RemoveElement
  <2>5. refs[TopicOf[k]] = Cardinality(Users(TopicOf[k])) /\ refs[TopicOf[k]] > 0
    <3>1. Users(TopicOf[k]) # {}
      BY <2>3
    <3>2. Cardinality(Users(TopicOf[k])) # 0
      BY <1>0, <2>1, <3>1, FS_EmptySet
    <3> QED
      BY <1>0, <2>1, <3>2 DEF CountInv
  <2>6. refs' = [refs EXCEPT ![TopicOf[k]] = refs[TopicOf[k]] - 1]
    <3>1. CASE LastUser(TopicOf[k])
      <4>1. refs[TopicOf[k]] - 1 = 0
        BY <2>1, <2>5, <3>1 DEF LastUser
      <4> QED
        BY <1>2, <3>1, <4>1 DEF Unmount
    <3>2. CASE ~LastUser(TopicOf[k])
      BY <1>2, <3>2 DEF Unmount
    <3> QED
      BY <3>1, <3>2
  <2>7. ASSUME NEW t \in Topics
        PROVE  refs'[t] = Cardinality(Users(t)') /\ (refs'[t] > 0 => t \in subscribed')
    <3>0. subscribed' = subscribed
      BY <1>2 DEF Unmount
    <3>1. CASE t = TopicOf[k]
      BY <2>1, <2>4, <2>5, <2>6, <3>0, <3>1 DEF CountInv
    <3>2. CASE t # TopicOf[k]
      BY <2>2, <2>6, <3>0, <3>2 DEF CountInv
    <3> QED
      BY <3>1, <3>2
  <2> QED
    BY <2>7 DEF CountInv
<1>3. ASSUME NEW t \in Topics, DelayedUnsubscribe(t) PROVE CountInv'
  <2>1. UNCHANGED <<mounted, refs>> /\ (refs[t] > 0 => subscribed' = subscribed)
    BY <1>3 DEF DelayedUnsubscribe
  <2>2. \A u \in Topics : u # t /\ u \in subscribed => u \in subscribed'
    BY <1>3 DEF DelayedUnsubscribe
  <2>3. \A u \in Topics : Users(u)' = Users(u)
    BY <2>1 DEF Users
  <2>4. \A u \in Topics : refs[u] > 0 /\ u \in subscribed => u \in subscribed'
    BY <2>1, <2>2
  <2> QED
    BY <2>1, <2>3, <2>4 DEF CountInv
<1>4. CASE UNCHANGED <<mounted, refs, subscribed>>
  BY <1>4 DEF CountInv, Users
<1> QED
  BY <1>1, <1>2, <1>3, <1>4
  DEF Next, Serve, Connect, Open, OnClose, Read, ReadFails, HandleSubscribe, HandleUnsubscribe,
      WriteLoopReturns, Cleanup, CloseNow, Evict, Deliver, browserVars, vars

(* The read loop and what is registered in the hub.                        *)
LEMMA LoopPreserved ==
  ASSUME BrowserType, ServerType, LoopInv, [Next]_vars
  PROVE  LoopInv'
<1> USE DEF ServerType, LoopInv
<1>1. ASSUME NEW c \in Conns, Read(c) PROVE LoopInv'
  <2>1. Head(up[c]) \in Messages
    BY <1>1 DEF Read, BrowserType
  <2> QED
    BY <1>1, <2>1, SessionAssumption DEF Read, subVars
<1>2. ASSUME NEW c \in Conns, HandleSubscribe(c) PROVE LoopInv'
  BY <1>2 DEF HandleSubscribe, Handled, subVars
<1>3. ASSUME NEW c \in Conns, HandleUnsubscribe(c) PROVE LoopInv'
  BY <1>3 DEF HandleUnsubscribe, Handled, subVars
<1>4. ASSUME NEW c \in Conns,
             \/ Connect(c) \/ Open(c) \/ OnClose(c) \/ ReadFails(c)
             \/ WriteLoopReturns(c) \/ CloseNow(c)
      PROVE  LoopInv'
  BY <1>4 DEF Connect, Open, OnClose, ReadFails, WriteLoopReturns, CloseNow, loopVars, subVars
<1>5. ASSUME NEW c \in Conns, Cleanup(c) PROVE LoopInv'
  BY <1>5 DEF Cleanup, loopVars
<1>6. ASSUME NEW c \in Conns, NEW t \in Topics, Evict(c, t) \/ Deliver(c, t) PROVE LoopInv'
  BY <1>6 DEF Evict, Deliver, loopVars, subVars
<1>7. CASE UNCHANGED <<conn, loopVars, subVars>>
  BY <1>7 DEF loopVars, subVars
<1> QED
  BY <1>1, <1>2, <1>3, <1>4, <1>5, <1>6, <1>7
  DEF Next, Serve, Mount, Unmount, DelayedUnsubscribe, vars

LEMMA RegisteredPreserved ==
  ASSUME ServerType, LoopInv, RegisteredInv, [Next]_vars
  PROVE  RegisteredInv'
<1> USE DEF ServerType, RegisteredInv, IsLate
<1>1. ASSUME NEW c \in Conns, HandleSubscribe(c) PROVE RegisteredInv'
  <2>1. CASE inHand[c].topic \in subs[c]
    BY <1>1, <2>1 DEF HandleSubscribe, subVars
  <2>2. CASE inHand[c].topic \notin subs[c]
    <3>1. /\ subs' = [subs EXCEPT ![c] = @ \union {inHand[c].topic}]
          /\ inHub' = [inHub EXCEPT ![c] = @ \union {inHand[c].topic}]
          /\ late' = IF IsLate(c) THEN [late EXCEPT ![c] = @ \union {inHand[c].topic}] ELSE late
          /\ conn' = conn
      BY <1>1, <2>2 DEF HandleSubscribe
    <3> QED
      BY <3>1
  <2> QED
    BY <2>1, <2>2
<1>2. ASSUME NEW c \in Conns, HandleUnsubscribe(c) PROVE RegisteredInv'
  BY <1>2 DEF HandleUnsubscribe, subVars
<1>3. ASSUME NEW c \in Conns,
             \/ Connect(c) \/ Open(c) \/ WriteLoopReturns(c) \/ CloseNow(c)
      PROVE  RegisteredInv'
  BY <1>3 DEF Connect, Open, WriteLoopReturns, CloseNow, subVars
<1>4. ASSUME NEW c \in Conns, Cleanup(c) PROVE RegisteredInv'
  <2>1. inHub'[c] = {}
    BY <1>4 DEF Cleanup, Released
  <2>2. \A b \in Conns : b # c => inHub'[b] = inHub[b] /\ conn'[b] = conn[b]
    BY <1>4 DEF Cleanup
  <2> QED
    BY <1>4, <2>1, <2>2 DEF Cleanup
<1>5. ASSUME NEW c \in Conns, NEW t \in Topics, Evict(c, t) \/ Deliver(c, t)
      PROVE  RegisteredInv'
  BY <1>5 DEF Evict, Deliver, subVars
<1>6. CASE UNCHANGED <<conn, subVars>>
  BY <1>6 DEF subVars
<1> QED
  BY <1>1, <1>2, <1>3, <1>4, <1>5, <1>6
  DEF Next, Serve, OnClose, Read, ReadFails, Mount, Unmount, DelayedUnsubscribe, vars

(* Browser and server.                                                     *)
LEMMA AgreePreserved ==
  ASSUME BrowserType, ServerType, CountInv, LoopInv, AgreeInv, [Next]_vars
  PROVE  AgreeInv'
<1> DEFINE Started(c) == ws = c /\ conn[c] \notin {"unused", "connecting"}
<1>0. None \notin Messages /\ None \notin Conns
  BY SessionAssumption
<1>s. ASSUME NEW m \in Messages, Send(m), UNCHANGED <<ws, conn, loopVars, subVars>>,
             subscribed' = IF m.action = "subscribe" THEN subscribed \union {m.topic}
                                                     ELSE subscribed \ {m.topic}
      PROVE  AgreeInv'
  <2> SUFFICES ASSUME NEW c \in Conns, Started(c)
               PROVE  Agreed(up'[c], inHand'[c], subs'[c], subscribed')
    BY <1>s DEF AgreeInv
  <2>1. IsOpen
    BY <1>0 DEF IsOpen
  <2>2. up'[c] = Append(up[c], m)
    BY <1>s, <2>1 DEF Send, BrowserType
  <2>3. up[c] \in Seq(Messages) /\ Agreed(up[c], inHand[c], subs[c], subscribed)
    BY DEF BrowserType, AgreeInv
  <2>4. inHand' = inHand /\ subs' = subs
    BY <1>s DEF loopVars, subVars
  <2>5. Agreed(Append(up[c], m), inHand[c], subs[c], subscribed')
    BY <1>s, <2>3, AgreedAfterSend
  <2> QED
    BY <2>2, <2>4, <2>5
<1>1. ASSUME NEW k \in Components, Mount(k) PROVE AgreeInv'
  <2>1. TopicOf[k] \in Topics
    BY SessionAssumption
  <2>2. Message("subscribe", TopicOf[k]) \in Messages
        /\ Message("subscribe", TopicOf[k]).action = "subscribe"
        /\ Message("subscribe", TopicOf[k]).topic = TopicOf[k]
    BY <2>1 DEF Message, Messages
  <2>3. CASE refs[TopicOf[k]] > 0
    <3>1. UNCHANGED <<subscribed, up, ws, conn, loopVars, subVars>>
      BY <1>1, <2>3 DEF Mount
    <3> QED
      BY <3>1 DEF AgreeInv, loopVars, subVars
  <2>4. CASE ~(refs[TopicOf[k]] > 0)
    <3>1. /\ Send(Message("subscribe", TopicOf[k]))
          /\ subscribed' = subscribed \union {TopicOf[k]}
          /\ UNCHANGED <<ws, conn, loopVars, subVars>>
      BY <1>1, <2>4 DEF Mount
    <3> QED
      BY <1>s, <2>2, <3>1
  <2> QED
    BY <2>3, <2>4
<1>2. ASSUME NEW t \in Topics, DelayedUnsubscribe(t) PROVE AgreeInv'
  <2>1. Message("unsubscribe", t) \in Messages
        /\ Message("unsubscribe", t).action = "unsubscribe"
        /\ Message("unsubscribe", t).topic = t
    BY DEF Message, Messages
  <2>2. CASE refs[t] > 0
    <3>1. UNCHANGED <<subscribed, up, ws, conn, loopVars, subVars>>
      BY <1>2, <2>2 DEF DelayedUnsubscribe
    <3> QED
      BY <3>1 DEF AgreeInv, loopVars, subVars
  <2>3. CASE ~(refs[t] > 0)
    <3>1. /\ Send(Message("unsubscribe", t))
          /\ subscribed' = subscribed \ {t}
          /\ UNCHANGED <<ws, conn, loopVars, subVars>>
      BY <1>2, <2>3 DEF DelayedUnsubscribe
    <3> QED
      BY <1>s, <2>1, <3>1
  <2> QED
    BY <2>2, <2>3
<1>3. ASSUME NEW c \in Conns, Open(c) PROVE AgreeInv'
  <2>1. PICK order \in [1..Cardinality(TopicsOnOpen) -> TopicsOnOpen] :
          /\ \A t \in TopicsOnOpen : \E i \in DOMAIN order : order[i] = t
          /\ up' = [up EXCEPT ![c] = [i \in DOMAIN order |-> Message("subscribe", order[i])]]
    BY <1>3 DEF Open
  <2>2. subscribed \in SUBSET Topics /\ IsFiniteSet(subscribed)
    BY FS_Subset, SessionAssumption DEF BrowserType
  <2>3. Agreed(up'[c], None, {}, subscribed)
    BY <2>1, <2>2, AgreedOnOpen DEF TopicsOnOpen, BrowserType
  <2>4. inHand'[c] = None /\ subs'[c] = {} /\ subscribed' = subscribed /\ ws' = ws
    BY <1>3 DEF Open, LoopInv, subVars, browserVars
  <2>5. \A b \in Conns : b # c => /\ up'[b] = up[b] /\ conn'[b] = conn[b]
                                 /\ inHand'[b] = inHand[b] /\ subs'[b] = subs[b]
    BY <1>3, <2>1 DEF Open, BrowserType, ServerType, subVars
  <2> QED
    BY <2>3, <2>4, <2>5 DEF AgreeInv
<1>4. ASSUME NEW c \in Conns, Read(c) PROVE AgreeInv'
  <2>1. /\ up[c] # <<>> /\ up[c] \in Seq(Messages)
        /\ inHand[c] = None /\ inHand'[c] = Head(up[c]) /\ up'[c] = Tail(up[c])
        /\ UNCHANGED <<subs, subscribed, ws, conn>>
    BY <1>4 DEF Read, BrowserType, ServerType, LoopInv, browserVars, subVars
  <2>2. Agreed(up[c], None, subs[c], subscribed)
          => Agreed(Tail(up[c]), Head(up[c]), subs[c], subscribed)
    BY <1>0, <2>1, AgreedAfterRead
  <2>3. \A b \in Conns : b # c => up'[b] = up[b] /\ inHand'[b] = inHand[b]
    BY <1>4 DEF Read, BrowserType, ServerType
  <2> QED
    BY <2>1, <2>2, <2>3 DEF AgreeInv
<1>5. ASSUME NEW c \in Conns, HandleSubscribe(c) \/ HandleUnsubscribe(c) PROVE AgreeInv'
  <2> DEFINE m == inHand[c]
             r == IF m.action = "subscribe" THEN subs[c] \union {m.topic}
                                            ELSE subs[c] \ {m.topic}
  <2>1. m \in Messages /\ inHand'[c] = None
    BY <1>5 DEF HandleSubscribe, HandleUnsubscribe, Handled, LoopInv, ServerType
  <2>2. subs'[c] = r
    <3>1. CASE HandleSubscribe(c)
      BY <3>1 DEF HandleSubscribe, Handled, ServerType, subVars
    <3>2. CASE HandleUnsubscribe(c)
      BY <3>2 DEF HandleUnsubscribe, Handled, ServerType, subVars
    <3> QED
      BY <1>5, <3>1, <3>2
  <2>3. UNCHANGED <<up, subscribed, ws, conn>>
    BY <1>5 DEF HandleSubscribe, HandleUnsubscribe, browserVars
  <2>4. \A b \in Conns : b # c => subs'[b] = subs[b] /\ inHand'[b] = inHand[b]
    BY <1>5 DEF HandleSubscribe, HandleUnsubscribe, Handled, ServerType, subVars
  <2>5. Agreed(up[c], m, subs[c], subscribed) => Agreed(up[c], None, r, subscribed)
    BY <1>0, <2>1, AgreedAfterHandling
  <2> QED
    BY <2>1, <2>2, <2>3, <2>4, <2>5 DEF AgreeInv
<1>6. ASSUME NEW c \in Conns, Connect(c) \/ OnClose(c) PROVE AgreeInv'
  BY <1>0, <1>6 DEF Connect, OnClose, AgreeInv, ServerType, browserVars, loopVars, subVars
<1>7. ASSUME NEW c \in Conns,
             ReadFails(c) \/ WriteLoopReturns(c) \/ CloseNow(c) \/ Cleanup(c)
      PROVE  AgreeInv'
  BY <1>7 DEF ReadFails, WriteLoopReturns, CloseNow, Cleanup, AgreeInv, ServerType,
              browserVars, loopVars, subVars
<1>8. ASSUME NEW c \in Conns, NEW t \in Topics, Evict(c, t) \/ Deliver(c, t) PROVE AgreeInv'
  BY <1>8 DEF Evict, Deliver, AgreeInv, browserVars, loopVars, subVars
<1>9. CASE UNCHANGED vars \/ \E k \in Components : Unmount(k)
  BY <1>9 DEF Unmount, AgreeInv, vars, browserVars, loopVars, subVars
<1> QED
  BY <1>1, <1>2, <1>3, <1>4, <1>5, <1>6, <1>7, <1>8, <1>9 DEF Next, Serve

(* The gauge.                                                              *)
LEMMA GaugePreserved ==
  ASSUME BrowserType, ServerType, LoopInv, GaugeCounts, [Next]_vars
  PROVE  GaugeCounts'
<1> USE DEF ServerType
<1>0. gauge = drift + Cardinality(LiveTopics)
      /\ IsFiniteSet(LiveTopics) /\ Cardinality(LiveTopics) \in Nat
  <2>1. Conns \X Topics = Conns \X Topics /\ IsFiniteSet(Conns \X Topics)
    BY FS_Product, SessionAssumption
  <2>2. LiveTopics \in SUBSET (Conns \X Topics)
    BY DEF LiveTopics, Live
  <2>3. IsFiniteSet(LiveTopics)
    BY <2>1, <2>2, FS_Subset
  <2> QED
    BY <2>3, FS_CardinalityType DEF GaugeCounts, LiveTopics
<1>g. SUFFICES gauge' = drift' + Cardinality(LiveTopics')
  BY DEF GaugeCounts, LiveTopics
<1>1. ASSUME NEW c \in Conns, HandleSubscribe(c) PROVE gauge' = drift' + Cardinality(LiveTopics')
  <2> DEFINE t == inHand[c].topic
  <2>1. t \in Topics /\ conn' = conn
    BY <1>1 DEF HandleSubscribe, Handled, LoopInv, Messages
  <2>2. CASE t \in subs[c]
    BY <1>0, <1>1, <2>1, <2>2 DEF HandleSubscribe, subVars, LiveTopics, Live, IsLate
  <2>3. CASE t \notin subs[c] /\ IsLate(c)
    <3>1. LiveTopics' = LiveTopics
      BY <1>1, <2>1, <2>3 DEF HandleSubscribe, LiveTopics, Live, IsLate
    <3>2. gauge' = gauge + 1 /\ drift' = drift + 1
      BY <1>1, <2>3 DEF HandleSubscribe
    <3> QED
      BY <1>0, <3>1, <3>2
  <2>4. CASE t \notin subs[c] /\ ~IsLate(c)
    <3>1. subs' = [subs EXCEPT ![c] = @ \union {t}] /\ gauge' = gauge + 1 /\ drift' = drift
      BY <1>1, <2>4 DEF HandleSubscribe
    <3>2. LiveTopics' = LiveTopics \union {<<c, t>>} /\ <<c, t>> \notin LiveTopics
      BY <2>1, <2>4, <3>1 DEF LiveTopics, Live, IsLate
    <3>3. Cardinality(LiveTopics') = Cardinality(LiveTopics) + 1
      BY <1>0, <3>2, FS_AddElement
    <3> QED
      BY <1>0, <3>1, <3>3
  <2> QED
    BY <2>2, <2>3, <2>4
<1>2. ASSUME NEW c \in Conns, HandleUnsubscribe(c) PROVE gauge' = drift' + Cardinality(LiveTopics')
  <2> DEFINE t == inHand[c].topic
  <2>1. t \in Topics /\ conn' = conn
    BY <1>2 DEF HandleUnsubscribe, Handled, LoopInv, Messages
  <2>2. CASE t \notin subs[c]
    BY <1>0, <1>2, <2>1, <2>2 DEF HandleUnsubscribe, subVars, LiveTopics, Live, IsLate
  <2>3. CASE t \in subs[c] /\ IsLate(c)
    <3>1. LiveTopics' = LiveTopics
      BY <1>2, <2>1, <2>3 DEF HandleUnsubscribe, LiveTopics, Live, IsLate
    <3>2. gauge' = gauge - 1 /\ drift' = drift - 1
      BY <1>2, <2>3 DEF HandleUnsubscribe
    <3> QED
      BY <1>0, <3>1, <3>2
  <2>4. CASE t \in subs[c] /\ ~IsLate(c)
    <3>1. subs' = [subs EXCEPT ![c] = @ \ {t}] /\ gauge' = gauge - 1 /\ drift' = drift
      BY <1>2, <2>4 DEF HandleUnsubscribe
    <3>2. LiveTopics' = LiveTopics \ {<<c, t>>} /\ <<c, t>> \in LiveTopics
      BY <2>1, <2>4, <3>1 DEF LiveTopics, Live, IsLate
    <3>3. \A x \in LiveTopics : Cardinality(LiveTopics \ {x}) = Cardinality(LiveTopics) - 1
      BY <1>0, FS_RemoveElement
    <3>4. Cardinality(LiveTopics') = Cardinality(LiveTopics) - 1
      BY <3>2, <3>3
    <3> QED
      BY <1>0, <3>1, <3>4
  <2> QED
    BY <2>2, <2>3, <2>4
<1>3. ASSUME NEW c \in Conns, Cleanup(c) PROVE gauge' = drift' + Cardinality(LiveTopics')
  <2>1. gauge' = gauge - Cardinality(subs[c]) /\ UNCHANGED <<drift, subs>>
        /\ conn' = [conn EXCEPT ![c] = "cleaned"] /\ conn[c] = "returned"
    BY <1>3 DEF Cleanup, GaugeReleased
  <2>2. LiveTopics' = LiveTopics \ ({c} \X subs[c])
        /\ LiveTopics \intersect ({c} \X subs[c]) = {c} \X subs[c]
    BY <2>1 DEF LiveTopics, Live, IsLate
  <2>3. IsFiniteSet(subs[c]) /\ Cardinality(subs[c]) \in Nat
    BY FS_Subset, FS_CardinalityType, SessionAssumption
  <2>4. Cardinality({c} \X subs[c]) = Cardinality(subs[c])
    <3>1. IsFiniteSet({c}) /\ Cardinality({c}) = 1
      BY FS_Singleton
    <3>2. Cardinality({c} \X subs[c]) = 1 * Cardinality(subs[c])
      BY <2>3, <3>1, FS_Product
    <3> QED
      BY <2>3, <3>2
  <2>5. Cardinality(LiveTopics \ ({c} \X subs[c]))
          = Cardinality(LiveTopics) - Cardinality(LiveTopics \intersect ({c} \X subs[c]))
    BY <1>0, FS_Difference
  <2>6. Cardinality(LiveTopics') = Cardinality(LiveTopics) - Cardinality(subs[c])
    BY <2>2, <2>4, <2>5
  <2> QED
    BY <1>0, <2>1, <2>3, <2>6
<1>4. CASE UNCHANGED <<gauge, drift, subs>> /\ Live' = Live
  BY <1>0, <1>4 DEF LiveTopics
<1>5. ASSUME NEW c \in Conns, Connect(c) \/ Open(c) \/ WriteLoopReturns(c) \/ CloseNow(c)
      PROVE  UNCHANGED <<gauge, drift, subs>> /\ Live' = Live
  BY <1>5 DEF Connect, Open, WriteLoopReturns, CloseNow, subVars, Live, IsLate
<1>6. CASE UNCHANGED <<gauge, drift, subs, conn>>
  BY <1>4, <1>6 DEF Live, IsLate
<1> QED
  BY <1>1, <1>2, <1>3, <1>4, <1>5, <1>6
  DEF Next, Serve, OnClose, Read, ReadFails, Mount, Unmount, DelayedUnsubscribe, Evict, Deliver,
      subVars, vars

-----------------------------------------------------------------------------
(* Nothing is mounted, subscribed or connected at the start.               *)
LEMMA SessionStart ==
  ASSUME Init PROVE SessionInv
<1>1. BrowserType /\ ServerType
  BY DEF Init, BrowserType, ServerType
<1>2. CountInv
  <2>1. \A t \in Topics : Users(t) = {}
    BY DEF Init, Users
  <2>2. \A t \in Topics : refs[t] = 0 /\ Cardinality(Users(t)) = 0
    BY <2>1, FS_EmptySet DEF Init
  <2> QED
    BY <2>2 DEF CountInv
<1>3. LoopInv /\ RegisteredInv
  BY DEF Init, LoopInv, RegisteredInv, IsLate
<1>4. AgreeInv
  BY SessionAssumption DEF Init, AgreeInv
<1>5. GaugeCounts
  <2>1. {x \in Live \X Topics : x[2] \in subs[x[1]]} = {}
    BY DEF Init, Live
  <2>2. gauge = 0 /\ drift = 0
    BY DEF Init
  <2> QED
    BY <2>1, <2>2, FS_EmptySet DEF GaugeCounts
<1> QED
  BY <1>1, <1>2, <1>3, <1>4, <1>5 DEF SessionInv

(* The inductive invariant of browser and server.                          *)
THEOREM SessionInvariant ==
  Spec => []SessionInv
<1>1. Init => SessionInv
  BY SessionStart
<1>2. SessionInv /\ [Next]_vars => SessionInv'
  BY BrowserTypePreserved, ServerTypePreserved, CountPreserved, LoopPreserved,
     RegisteredPreserved, AgreePreserved, GaugePreserved DEF SessionInv
<1> QED
  BY <1>1, <1>2, PTL DEF Spec

(* Over reconnects, quick unmounts and remounts and messages lost while    *)
(* the socket was not open, a session that has handled its messages has a  *)
(* subscription for exactly the topics the browser wants.                  *)
THEOREM BrowserAndServerAgree ==
  Spec => []ServerAgrees
<1>1. SessionInv => ServerAgrees
  <2> SUFFICES ASSUME SessionInv PROVE ServerAgrees
    OBVIOUS
  <2>1. ASSUME NEW c \in Conns, Quiet(c) PROVE subs[c] = subscribed
    <3>1. inHand[c] = None /\ up[c] = <<>> /\ DOMAIN up[c] = {}
      BY <2>1 DEF SessionInv, LoopInv, Quiet
    <3>2. Agreed(up[c], inHand[c], subs[c], subscribed)
      BY <2>1 DEF SessionInv, AgreeInv, Quiet
    <3>3. \A t \in Topics : t \in subs[c] <=> t \in subscribed
      BY <3>1, <3>2 DEF Agreed
    <3> QED
      BY <3>3 DEF SessionInv, BrowserType, ServerType
  <2>2. ASSUME NEW k \in mounted PROVE TopicOf[k] \in subscribed
    <3>1. TopicOf[k] \in Topics /\ k \in Users(TopicOf[k])
      BY SessionAssumption DEF SessionInv, BrowserType, Users
    <3>2. IsFiniteSet(Users(TopicOf[k]))
      BY FS_Subset, SessionAssumption DEF SessionInv, BrowserType, Users
    <3>3. refs[TopicOf[k]] # 0
      BY <3>1, <3>2, FS_EmptySet DEF SessionInv, CountInv
    <3> QED
      BY <3>1, <3>3 DEF SessionInv, BrowserType, CountInv
  <2> QED
    BY <2>1, <2>2 DEF ServerAgrees
<1> QED
  BY <1>1, SessionInvariant, PTL

(* The delayed unsubscribe never takes the cursor of a topic that a        *)
(* component uses before and after it.                                     *)
THEOREM CursorsSurvive ==
  Spec => CursorSurvives
<1>1. SessionInv /\ [Next]_vars =>
        \A k \in mounted \intersect mounted' :
          TopicOf[k] \in cursors => TopicOf[k] \in cursors'
  <2> SUFFICES ASSUME SessionInv, [Next]_vars, NEW k \in mounted, TopicOf[k] \in cursors
               PROVE  TopicOf[k] \in cursors'
    OBVIOUS
  <2>1. TopicOf[k] \in Topics /\ k \in Users(TopicOf[k])
    BY SessionAssumption DEF SessionInv, BrowserType, Users
  <2>2. IsFiniteSet(Users(TopicOf[k]))
    BY FS_Subset, SessionAssumption DEF SessionInv, BrowserType, Users
  <2>3. refs[TopicOf[k]] > 0
    <3>1. refs[TopicOf[k]] # 0
      BY <2>1, <2>2, FS_EmptySet DEF SessionInv, CountInv
    <3> QED
      BY <2>1, <3>1 DEF SessionInv, BrowserType
  <2>4. ASSUME NEW t \in Topics, DelayedUnsubscribe(t) PROVE TopicOf[k] \in cursors'
    BY <2>3, <2>4 DEF DelayedUnsubscribe
  <2>5. cursors \subseteq cursors' \/ \E t \in Topics : DelayedUnsubscribe(t)
    BY DEF Next, Serve, Mount, Unmount, Connect, Open, OnClose, Read, ReadFails, HandleSubscribe,
           HandleUnsubscribe, WriteLoopReturns, Cleanup, CloseNow, Evict, Deliver, browserVars, vars
  <2> QED
    BY <2>4, <2>5
<1> QED
  BY <1>1, SessionInvariant, PTL DEF Spec, CursorSurvives

(* After its deferred function ServeWS has nothing in the hub but the      *)
(* subscriptions of messages that were handled later.                      *)
THEOREM OnlyLateIsLeft ==
  Spec => []NothingLeftInHub
<1>1. SessionInv => NothingLeftInHub
  BY DEF SessionInv, RegisteredInv, NothingLeftInHub
<1> QED
  BY <1>1, SessionInvariant, PTL

(* ws_topic_subscriptions is the number of topics of the sessions that     *)
(* have not been cleaned up, but for what late messages did to it.         *)
THEOREM GaugeIsRight ==
  Spec => []GaugeCounts
<1>1. SessionInv => GaugeCounts
  BY DEF SessionInv
<1> QED
  BY <1>1, SessionInvariant, PTL

-----------------------------------------------------------------------------
(* A set of numbers has a least member, and what holds of 0 and passes on  *)
(* to the next number holds of all.                                        *)
LEMMA HasMinimum ==
  ASSUME NEW T \in SUBSET Nat, T # {}
  PROVE \E m \in T : \A n \in T : m <= n
<1>1. \E x \in T : \A y \in T : ~(<<y, x>> \in OpToRel(<, Nat))
  BY NatLessThanWellFounded, WFMin
<1>2. PICK m \in T : \A y \in T : ~(<<y, m>> \in OpToRel(<, Nat))
  BY <1>1
<1>3. \A y \in T : ~(y < m)
  BY <1>2 DEF OpToRel
<1> QED
  BY <1>3

LEMMA SetInduction ==
  ASSUME NEW G, 0 \in G, \A n \in Nat : n \in G => n + 1 \in G
  PROVE  Nat \subseteq G
<1> DEFINE T == Nat \ G
<1>1. SUFFICES ASSUME T # {} PROVE FALSE
  OBVIOUS
<1>2. PICK k \in T : \A n \in T : k <= n
  BY <1>1, HasMinimum
<1>3. k - 1 \in Nat /\ k - 1 \in G
  BY <1>2
<1> QED
  BY <1>2, <1>3

(* A member of a list stands somewhere.                                    *)
LEMMA InRange ==
  ASSUME NEW list \in Seq(Nat), NEW x
  PROVE  x \in Range(list) <=> \E k \in 1..Len(list) : list[k] = x
BY DEF Range

(* The largest member of a list of numbers, or 0.                          *)
LEMMA MaxOfIs ==
  ASSUME NEW list \in Seq(Nat)
  PROVE  /\ MaxOf(list) \in Range(list) \union {0} /\ MaxOf(list) \in Nat
         /\ \A x \in Range(list) : x <= MaxOf(list)
<1> DEFINE Bound(n, B) == \A a \in 1..n : a <= Len(list) => list[a] <= B
           G == {n \in Nat : \E B \in Nat : Bound(n, B)}
           S == Range(list) \union {0}
<1>1. 0 \in G
  <2>1. Bound(0, 0)
    OBVIOUS
  <2> QED
    BY <2>1
<1>2. ASSUME NEW n \in Nat, n \in G PROVE n + 1 \in G
  <2>1. PICK B \in Nat : Bound(n, B)
    BY <1>2
  <2> DEFINE C == IF n + 1 <= Len(list) /\ list[n + 1] > B THEN list[n + 1] ELSE B
  <2>2. C \in Nat /\ B <= C /\ (n + 1 <= Len(list) => list[n + 1] <= C)
    OBVIOUS
  <2> HIDE DEF C
  <2>3. Bound(n + 1, C)
    <3> SUFFICES ASSUME NEW a \in 1..(n + 1), a <= Len(list) PROVE list[a] <= C
      OBVIOUS
    <3>1. CASE a = n + 1
      BY <2>2, <3>1
    <3>2. CASE a # n + 1
      BY <2>1, <2>2, <3>2
    <3> QED
      BY <3>1, <3>2
  <2>4. \E D \in Nat : Bound(n + 1, D)
    <3> HIDE DEF Bound
    <3> QED
      BY <2>2, <2>3
  <2> QED
    <3> HIDE DEF Bound
    <3> QED
      BY <2>4
<1>3. PICK B \in Nat : \A x \in S : x <= B
  <2> HIDE DEF G
  <2>1. Len(list) \in G
    BY <1>1, <1>2, SetInduction
  <2>2. PICK B \in Nat : Bound(Len(list), B)
    BY <2>1 DEF G
  <2>3. \A x \in S : x <= B
    BY <2>2, InRange
  <2> QED
    BY <2>3
<1>4. S \subseteq Nat /\ 0 \in S
  BY DEF Range
<1> DEFINE T == {n \in Nat : \E x \in S : n = B - x}
<1>5. T \in SUBSET Nat /\ T # {}
  <2>1. B = B - 0 /\ 0 \in S
    BY <1>4
  <2> HIDE DEF S
  <2>2. B \in T
    BY <1>3, <2>1
  <2> QED
    BY <2>2
<1>6. PICK m \in T : \A n \in T : m <= n
  BY <1>5, HasMinimum
<1>7. PICK x \in S : m = B - x
  BY <1>6
<1>8. \A y \in S : x >= y
  <2> SUFFICES ASSUME NEW y \in S PROVE x >= y
    OBVIOUS
  <2>1. B - y \in T
    BY <1>3, <1>4
  <2> QED
    BY <1>4, <1>6, <1>7, <2>1
<1>9. MaxOf(list) \in S /\ \A y \in S : MaxOf(list) >= y
  BY <1>8 DEF MaxOf, Max
<1> QED
  BY <1>4, <1>9

-----------------------------------------------------------------------------
(* x stands above y in the list.                                           *)
Above(list, x, y) ==
  \E j, k \in 1..Len(list) : j < k /\ list[j] = x /\ list[k] = y

Descending(list, S) == \A x, y \in S : Above(list, x, y) => x > y
Ascending(list) == \A x, y : Above(list, x, y) => x < y

LEMMA AboveInRange ==
  ASSUME NEW list \in Seq(Nat), NEW x, NEW y, Above(list, x, y)
  PROVE  x \in Range(list) /\ y \in Range(list)
BY InRange DEF Above

LEMMA ConcatIs ==
  ASSUME NEW s \in Seq(Nat), NEW t \in Seq(Nat)
  PROVE  /\ s \o t \in Seq(Nat)
         /\ Range(s \o t) = Range(s) \union Range(t)
         /\ \A x, y : Above(s \o t, x, y) =>
              Above(s, x, y) \/ Above(t, x, y) \/ (x \in Range(s) /\ y \in Range(t))
<1>1. /\ s \o t \in Seq(Nat) /\ Len(s \o t) = Len(s) + Len(t)
      /\ \A k \in 1..(Len(s) + Len(t)) :
           (s \o t)[k] = IF k <= Len(s) THEN s[k] ELSE t[k - Len(s)]
  BY ConcatProperties
<1> DEFINE u == s \o t
<1> HIDE DEF u
<1>2. /\ u \in Seq(Nat) /\ Len(u) = Len(s) + Len(t)
      /\ \A k \in 1..Len(u) : u[k] = IF k <= Len(s) THEN s[k] ELSE t[k - Len(s)]
  BY <1>1 DEF u
<1>3. Range(u) = Range(s) \union Range(t)
  <2>1. ASSUME NEW x \in Range(u) PROVE x \in Range(s) \union Range(t)
    <3>1. PICK k \in 1..Len(u) : u[k] = x
      BY <1>2, InRange
    <3>2. CASE k <= Len(s)
      <4>1. k \in 1..Len(s) /\ s[k] = x
        BY <1>2, <3>1, <3>2
      <4> QED
        BY <4>1, InRange
    <3>3. CASE ~(k <= Len(s))
      <4>1. k - Len(s) \in 1..Len(t) /\ t[k - Len(s)] = x
        BY <1>2, <3>1, <3>3
      <4> QED
        BY <4>1, InRange
    <3> QED
      BY <3>2, <3>3
  <2>2. ASSUME NEW x \in Range(s) PROVE x \in Range(u)
    <3>1. PICK k \in 1..Len(s) : s[k] = x
      BY InRange
    <3>2. k \in 1..Len(u) /\ u[k] = x
      BY <1>2, <3>1
    <3> QED
      BY <1>2, <3>2, InRange
  <2>3. ASSUME NEW x \in Range(t) PROVE x \in Range(u)
    <3>1. PICK k \in 1..Len(t) : t[k] = x
      BY InRange
    <3>2. k + Len(s) \in 1..Len(u) /\ ~(k + Len(s) <= Len(s)) /\ (k + Len(s)) - Len(s) = k
      BY <1>2, <3>1
    <3>3. u[k + Len(s)] = x
      BY <1>2, <3>1, <3>2
    <3> QED
      BY <1>2, <3>2, <3>3, InRange
  <2> QED
    BY <2>1, <2>2, <2>3
<1>4. ASSUME NEW x, NEW y, Above(u, x, y)
      PROVE  Above(s, x, y) \/ Above(t, x, y) \/ (x \in Range(s) /\ y \in Range(t))
  <2>1. PICK j, k \in 1..Len(u) : j < k /\ u[j] = x /\ u[k] = y
    BY <1>4 DEF Above
  <2>2. CASE k <= Len(s)
    <3>1. j \in 1..Len(s) /\ k \in 1..Len(s) /\ s[j] = x /\ s[k] = y
      BY <1>2, <2>1, <2>2
    <3> QED
      BY <2>1, <3>1 DEF Above
  <2>3. CASE j > Len(s)
    <3>1. /\ j - Len(s) \in 1..Len(t) /\ k - Len(s) \in 1..Len(t) /\ j - Len(s) < k - Len(s)
          /\ t[j - Len(s)] = x /\ t[k - Len(s)] = y
      <4>1. Len(s) \in Nat /\ Len(t) \in Nat /\ ~(j <= Len(s)) /\ ~(k <= Len(s))
        BY <2>1, <2>3
      <4>2. u[j] = t[j - Len(s)] /\ u[k] = t[k - Len(s)]
        BY <1>2, <4>1
      <4> QED
        BY <1>2, <2>1, <4>1, <4>2
    <3> QED
      BY <3>1 DEF Above
  <2>4. CASE j <= Len(s) /\ k > Len(s)
    <3>1. j \in 1..Len(s) /\ s[j] = x /\ k - Len(s) \in 1..Len(t) /\ t[k - Len(s)] = y
      BY <1>2, <2>1, <2>4
    <3> QED
      BY <3>1, InRange
  <2> QED
    BY <1>2, <2>1, <2>2, <2>3, <2>4
<1> QED
  BY <1>2, <1>3, <1>4 DEF u

LEMMA SingleIs ==
  ASSUME NEW e \in Nat
  PROVE  <<e>> \in Seq(Nat) /\ Range(<<e>>) = {e} /\ \A x, y : ~Above(<<e>>, x, y)
<1>1. <<e>> \in Seq(Nat) /\ Len(<<e>>) = 1 /\ <<e>>[1] = e
  OBVIOUS
<1> QED
  BY <1>1 DEF Range, Above

LEMMA EmptyIs ==
  <<>> \in Seq(Nat) /\ Range(<<>>) = {} /\ \A x, y : ~Above(<<>>, x, y)
BY DEF Range, Above

LEMMA AppendOrders ==
  ASSUME NEW s \in Seq(Nat), NEW e \in Nat
  PROVE  /\ Append(s, e) \in Seq(Nat) /\ Range(Append(s, e)) = Range(s) \union {e}
         /\ \A x, y : Above(Append(s, e), x, y) => Above(s, x, y) \/ (x \in Range(s) /\ y = e)
<1>1. Append(s, e) = s \o <<e>>
  BY AppendIsConcat
<1>2. /\ <<e>> \in Seq(Nat) /\ Range(<<e>>) = {e} /\ \A x, y : ~Above(<<e>>, x, y)
  BY SingleIs
<1> DEFINE t == <<e>>
<1> HIDE DEF t
<1>3. /\ s \o t \in Seq(Nat) /\ Range(s \o t) = Range(s) \union Range(t)
      /\ \A x, y : Above(s \o t, x, y) =>
           Above(s, x, y) \/ Above(t, x, y) \/ (x \in Range(s) /\ y \in Range(t))
  BY <1>2, ConcatIs DEF t
<1> QED
  BY <1>1, <1>2, <1>3 DEF t

-----------------------------------------------------------------------------
(* The equations of the recursive functions of Without and of PrependEach  *)
(* have a solution up to every N.                                          *)
WithoutBody(f, list, S, n) ==
  IF n = 0 THEN <<>> ELSE IF list[n] \in S THEN f[n - 1] ELSE Append(f[n - 1], list[n])

LEMMA WithoutExists ==
  ASSUME NEW list, NEW S, NEW N \in Nat
  PROVE  \E f : f = [n \in 0..N |-> WithoutBody(f, list, S, n)]
<1> DEFINE F(k, f) == f = [n \in 0..k |-> WithoutBody(f, list, S, n)]
           G == {k \in Nat : \E f : F(k, f)}
<1>1. 0 \in G
  <2>1. F(0, [n \in 0..0 |-> <<>>])
    BY DEF WithoutBody
  <2> QED
    BY <2>1
<1>2. ASSUME NEW k \in Nat, k \in G PROVE k + 1 \in G
  <2>1. PICK g : F(k, g)
    BY <1>2
  <2> DEFINE h == [n \in 0..(k + 1) |-> IF n = k + 1 THEN WithoutBody(g, list, S, k + 1) ELSE g[n]]
  <2>2. ASSUME NEW n \in 0..(k + 1) PROVE h[n] = WithoutBody(h, list, S, n)
    <3>1. CASE n = k + 1
      <4>1. h[n - 1] = g[n - 1] /\ n # 0
        BY <3>1
      <4>2. h[n] = WithoutBody(g, list, S, n)
        BY <3>1
      <4> HIDE DEF h
      <4> QED
        BY <4>1, <4>2 DEF WithoutBody
    <3>2. CASE n # k + 1
      <4>1. h[n] = g[n] /\ n \in 0..k /\ g[n] = WithoutBody(g, list, S, n)
        BY <2>1, <3>2
      <4>2. n # 0 => h[n - 1] = g[n - 1]
        BY <4>1
      <4> HIDE DEF h
      <4> QED
        BY <4>1, <4>2 DEF WithoutBody
    <3> QED
      BY <3>1, <3>2
  <2>3. h = [n \in 0..(k + 1) |-> h[n]]
    OBVIOUS
  <2>4. F(k + 1, h)
    <3> HIDE DEF h
    <3> QED
      BY <2>2, <2>3
  <2> HIDE DEF h, F
  <2> QED
    BY <2>4
<1>3. Nat \subseteq G
  <2> HIDE DEF G
  <2> QED
    BY <1>1, <1>2, SetInduction
<1> QED
  BY <1>3

WithoutRuns(f, list, S) ==
  /\ Without(list, S) = f[Len(list)] /\ f[0] = <<>>
  /\ \A n \in 1..Len(list) :
       f[n] = IF list[n] \in S THEN f[n - 1] ELSE Append(f[n - 1], list[n])

LEMMA WithoutSteps ==
  ASSUME NEW list, NEW S, Len(list) \in Nat
  PROVE  \E f : WithoutRuns(f, list, S)
<1> DEFINE N == Len(list)
           C == CHOOSE f : f = [n \in 0..N |-> WithoutBody(f, list, S, n)]
<1>1. Without(list, S) = C[N]
  BY DEF Without, WithoutBody
<1>2. C = [n \in 0..N |-> WithoutBody(C, list, S, n)]
  <2>1. N \in Nat
    OBVIOUS
  <2> HIDE DEF N
  <2>2. \E f : f = [n \in 0..N |-> WithoutBody(f, list, S, n)]
    BY <2>1, WithoutExists
  <2> QED
    BY <2>2
<1> HIDE DEF C
<1>3. \A n \in 0..N : C[n] = WithoutBody(C, list, S, n)
  BY <1>2
<1>4. /\ C[0] = <<>>
      /\ \A n \in 1..N : C[n] = IF list[n] \in S THEN C[n - 1] ELSE Append(C[n - 1], list[n])
  BY <1>3 DEF WithoutBody
<1>5. WithoutRuns(C, list, S)
  BY <1>1, <1>4 DEF WithoutRuns
<1> QED
  BY <1>5

(* What Without leaves, in the order of the list.                          *)
LEMMA WithoutIs ==
  ASSUME NEW list \in Seq(Nat), NEW S
  PROVE  /\ Without(list, S) \in Seq(Nat)
         /\ Range(Without(list, S)) = Range(list) \ S
         /\ \A x, y : Above(Without(list, S), x, y) => Above(list, x, y) /\ x \notin S /\ y \notin S
<1>0. PICK f : WithoutRuns(f, list, S)
  <2>1. Len(list) \in Nat
    OBVIOUS
  <2> QED
    BY <2>1, WithoutSteps
<1>1. /\ Without(list, S) = f[Len(list)] /\ f[0] = <<>>
      /\ \A n \in 1..Len(list) :
           f[n] = IF list[n] \in S THEN f[n - 1] ELSE Append(f[n - 1], list[n])
  BY <1>0 DEF WithoutRuns
<1> DEFINE Part(n) == {list[k] : k \in 1..n}
           P(n) == /\ f[n] \in Seq(Nat) /\ Range(f[n]) = Part(n) \ S
                   /\ \A x, y : Above(f[n], x, y) => Above(list, x, y) /\ x \notin S /\ y \notin S
           G == {n \in Nat : n <= Len(list) => P(n)}
<1>2. 0 \in G
  <2>1. Part(0) = {}
    OBVIOUS
  <2> QED
    BY <1>1, <2>1, EmptyIs
<1>3. ASSUME NEW n \in Nat, n \in G PROVE n + 1 \in G
  <2> SUFFICES ASSUME n + 1 <= Len(list) PROVE P(n + 1)
    <3> HIDE DEF P
    <3> QED
      OBVIOUS
  <2>1. P(n)
    BY <1>3
  <2> DEFINE e == list[n + 1]
  <2>2. e \in Nat /\ n + 1 \in 1..Len(list) /\ (n + 1) - 1 = n
    OBVIOUS
  <2>3. Part(n + 1) = Part(n) \union {e}
    <3>1. 1..(n + 1) = 1..n \union {n + 1}
      OBVIOUS
    <3> QED
      BY <3>1
  <2>4. f[n + 1] = IF e \in S THEN f[n] ELSE Append(f[n], e)
    BY <1>1, <2>2
  <2>5. \A x : x \in Part(n) => \E k \in 1..n : list[k] = x
    OBVIOUS
  <2> HIDE DEF e
  <2>6. CASE e \in S
    <3>1. Part(n + 1) \ S = Part(n) \ S
      BY <2>3, <2>6
    <3> HIDE DEF Part
    <3> QED
      BY <2>1, <2>4, <2>6, <3>1
  <2>7. CASE e \notin S
    <3> DEFINE g == f[n]
    <3> HIDE DEF g
    <3>1. g \in Seq(Nat) /\ f[n + 1] = Append(g, e)
      BY <2>1, <2>4, <2>7 DEF g
    <3>2. /\ Append(g, e) \in Seq(Nat) /\ Range(Append(g, e)) = Range(g) \union {e}
          /\ \A x, y : Above(Append(g, e), x, y) => Above(g, x, y) \/ (x \in Range(g) /\ y = e)
      BY <2>2, <3>1, AppendOrders
    <3>3. Part(n + 1) \ S = (Part(n) \ S) \union {e}
      BY <2>3, <2>7
    <3>4. Range(g) = Part(n) \ S
      BY <2>1 DEF g
    <3>5. ASSUME NEW x, NEW y, Above(f[n + 1], x, y)
          PROVE  Above(list, x, y) /\ x \notin S /\ y \notin S
      <4>1. CASE Above(g, x, y)
        BY <2>1, <4>1 DEF g
      <4>2. CASE x \in Range(g) /\ y = e
        <5>1. x \in Part(n) /\ x \notin S
          BY <3>4, <4>2
        <5>2. PICK k \in 1..n : list[k] = x
          BY <2>5, <5>1
        <5>3. k \in 1..Len(list) /\ k < n + 1 /\ list[n + 1] = y
          BY <4>2 DEF e
        <5> QED
          BY <2>2, <2>7, <4>2, <5>1, <5>2, <5>3 DEF Above
      <4> QED
        BY <3>1, <3>2, <3>5, <4>1, <4>2
    <3> HIDE DEF Part
    <3> QED
      BY <3>1, <3>2, <3>3, <3>4, <3>5
  <2> QED
    BY <2>6, <2>7
<1>4. Len(list) \in G
  <2> HIDE DEF G
  <2> QED
    BY <1>2, <1>3, SetInduction
<1>5. P(Len(list))
  BY <1>4
<1>6. Part(Len(list)) = Range(list)
  BY DEF Range
<1> HIDE DEF Part
<1> QED
  BY <1>1, <1>5, <1>6

(* mergeActivities keeps the first occurrence of every event.              *)
LEMMA PrependIs ==
  ASSUME NEW list \in Seq(Nat), NEW new \in Seq(Nat)
  PROVE  /\ Prepend(list, new) \in Seq(Nat)
         /\ Range(Prepend(list, new)) = Range(list) \union Range(new)
         /\ \A x, y : Above(Prepend(list, new), x, y) =>
              \/ Above(new, x, y)
              \/ x \in Range(new) /\ y \in Range(list) \ Range(new)
              \/ Above(list, x, y) /\ x \notin Range(new) /\ y \notin Range(new)
<1> DEFINE rest == Without(list, Range(new))
<1>1. /\ rest \in Seq(Nat) /\ Range(rest) = Range(list) \ Range(new)
      /\ \A x, y : Above(rest, x, y) =>
           Above(list, x, y) /\ x \notin Range(new) /\ y \notin Range(new)
  BY WithoutIs
<1>2. Prepend(list, new) = new \o rest
  BY DEF Prepend
<1> HIDE DEF rest
<1>3. /\ new \o rest \in Seq(Nat) /\ Range(new \o rest) = Range(new) \union Range(rest)
      /\ \A x, y : Above(new \o rest, x, y) =>
           Above(new, x, y) \/ Above(rest, x, y) \/ (x \in Range(new) /\ y \in Range(rest))
  BY <1>1, ConcatIs
<1> QED
  BY <1>1, <1>2, <1>3

LEMMA ExtendIs ==
  ASSUME NEW list \in Seq(Nat), NEW new \in Seq(Nat)
  PROVE  /\ Extend(list, new) \in Seq(Nat)
         /\ Range(Extend(list, new)) = Range(list) \union Range(new)
         /\ \A x, y : Above(Extend(list, new), x, y) =>
              \/ Above(list, x, y)
              \/ x \in Range(list) /\ y \in Range(new) \ Range(list)
              \/ Above(new, x, y) /\ x \notin Range(list) /\ y \notin Range(list)
<1> DEFINE rest == Without(new, Range(list))
<1>1. /\ rest \in Seq(Nat) /\ Range(rest) = Range(new) \ Range(list)
      /\ \A x, y : Above(rest, x, y) =>
           Above(new, x, y) /\ x \notin Range(list) /\ y \notin Range(list)
  BY WithoutIs
<1>2. Extend(list, new) = list \o rest
  BY DEF Extend
<1> HIDE DEF rest
<1>3. /\ list \o rest \in Seq(Nat) /\ Range(list \o rest) = Range(list) \union Range(rest)
      /\ \A x, y : Above(list \o rest, x, y) =>
           Above(list, x, y) \/ Above(rest, x, y) \/ (x \in Range(list) /\ y \in Range(rest))
  BY <1>1, ConcatIs
<1> QED
  BY <1>1, <1>2, <1>3

LEMMA PrependOneIs ==
  ASSUME NEW list \in Seq(Nat), NEW id \in Nat
  PROVE  /\ PrependOne(list, id) \in Seq(Nat)
         /\ Range(PrependOne(list, id)) = Range(list) \union {id}
         /\ \A x, y : Above(PrependOne(list, id), x, y) =>
              \/ x = id /\ y \in Range(list) \ {id}
              \/ Above(list, x, y) /\ x # id /\ y # id
<1> DEFINE new == <<id>>
<1>1. new \in Seq(Nat) /\ Range(new) = {id} /\ \A x, y : ~Above(new, x, y)
  BY SingleIs
<1> HIDE DEF new
<1> SUFFICES /\ Prepend(list, new) \in Seq(Nat)
             /\ Range(Prepend(list, new)) = Range(list) \union {id}
             /\ \A x, y : Above(Prepend(list, new), x, y) =>
                  \/ x = id /\ y \in Range(list) \ {id}
                  \/ Above(list, x, y) /\ x # id /\ y # id
  BY DEF PrependOne, new
<1> QED
  BY <1>1, PrependIs

PrependBody(f, list, new, n) == IF n = 0 THEN list ELSE PrependOne(f[n - 1], new[n])

LEMMA PrependExists ==
  ASSUME NEW list, NEW new, NEW N \in Nat
  PROVE  \E f : f = [n \in 0..N |-> PrependBody(f, list, new, n)]
<1> DEFINE F(k, f) == f = [n \in 0..k |-> PrependBody(f, list, new, n)]
           G == {k \in Nat : \E f : F(k, f)}
<1>1. 0 \in G
  <2>1. F(0, [n \in 0..0 |-> list])
    BY DEF PrependBody
  <2> QED
    BY <2>1
<1>2. ASSUME NEW k \in Nat, k \in G PROVE k + 1 \in G
  <2>1. PICK g : F(k, g)
    BY <1>2
  <2> DEFINE h == [n \in 0..(k + 1) |->
                     IF n = k + 1 THEN PrependBody(g, list, new, k + 1) ELSE g[n]]
  <2>2. ASSUME NEW n \in 0..(k + 1) PROVE h[n] = PrependBody(h, list, new, n)
    <3>1. CASE n = k + 1
      <4>1. h[n - 1] = g[n - 1] /\ n # 0
        BY <3>1
      <4>2. h[n] = PrependBody(g, list, new, n)
        BY <3>1
      <4> HIDE DEF h
      <4> QED
        BY <4>1, <4>2 DEF PrependBody
    <3>2. CASE n # k + 1
      <4>1. h[n] = g[n] /\ n \in 0..k /\ g[n] = PrependBody(g, list, new, n)
        BY <2>1, <3>2
      <4>2. n # 0 => h[n - 1] = g[n - 1]
        BY <4>1
      <4> HIDE DEF h
      <4> QED
        BY <4>1, <4>2 DEF PrependBody
    <3> QED
      BY <3>1, <3>2
  <2>3. h = [n \in 0..(k + 1) |-> h[n]]
    OBVIOUS
  <2>4. F(k + 1, h)
    <3> HIDE DEF h
    <3> QED
      BY <2>2, <2>3
  <2> HIDE DEF h, F
  <2> QED
    BY <2>4
<1>3. Nat \subseteq G
  <2> HIDE DEF G
  <2> QED
    BY <1>1, <1>2, SetInduction
<1> QED
  BY <1>3

PrependRuns(f, list, new) ==
  /\ PrependEach(list, new) = f[Len(new)] /\ f[0] = list
  /\ \A n \in 1..Len(new) : f[n] = PrependOne(f[n - 1], new[n])

LEMMA PrependSteps ==
  ASSUME NEW list, NEW new, Len(new) \in Nat
  PROVE  \E f : PrependRuns(f, list, new)
<1> DEFINE N == Len(new)
           C == CHOOSE f : f = [n \in 0..N |-> PrependBody(f, list, new, n)]
<1>1. PrependEach(list, new) = C[N]
  BY DEF PrependEach, PrependBody
<1>2. C = [n \in 0..N |-> PrependBody(C, list, new, n)]
  <2>1. N \in Nat
    OBVIOUS
  <2> HIDE DEF N
  <2>2. \E f : f = [n \in 0..N |-> PrependBody(f, list, new, n)]
    BY <2>1, PrependExists
  <2> QED
    BY <2>2
<1> HIDE DEF C
<1>3. \A n \in 0..N : C[n] = PrependBody(C, list, new, n)
  BY <1>2
<1>4. C[0] = list /\ \A n \in 1..N : C[n] = PrependOne(C[n - 1], new[n])
  BY <1>3 DEF PrependBody
<1>5. PrependRuns(C, list, new)
  BY <1>1, <1>4 DEF PrependRuns
<1> QED
  BY <1>5

(* Events that came in the order of their log_ids are on top of the list   *)
(* afterwards, newest first.                                               *)
LEMMA PrependEachIs ==
  ASSUME NEW list \in Seq(Nat), NEW new \in Seq(Nat), Ascending(new)
  PROVE  /\ PrependEach(list, new) \in Seq(Nat)
         /\ Range(PrependEach(list, new)) = Range(list) \union Range(new)
         /\ \A x, y : Above(PrependEach(list, new), x, y) =>
              \/ x \in Range(new) /\ y \in Range(new) /\ x > y
              \/ x \in Range(new) /\ y \in Range(list) \ Range(new)
              \/ Above(list, x, y) /\ x \notin Range(new) /\ y \notin Range(new)
<1>0. PICK f : PrependRuns(f, list, new)
  <2>1. Len(new) \in Nat
    OBVIOUS
  <2> QED
    BY <2>1, PrependSteps
<1>1. /\ PrependEach(list, new) = f[Len(new)] /\ f[0] = list
      /\ \A n \in 1..Len(new) : f[n] = PrependOne(f[n - 1], new[n])
  BY <1>0 DEF PrependRuns
<1> DEFINE Part(n) == {new[k] : k \in 1..n}
           P(n) == /\ f[n] \in Seq(Nat) /\ Range(f[n]) = Range(list) \union Part(n)
                   /\ \A x, y : Above(f[n], x, y) =>
                        \/ x \in Part(n) /\ y \in Part(n) /\ x > y
                        \/ x \in Part(n) /\ y \in Range(list) \ Part(n)
                        \/ Above(list, x, y) /\ x \notin Part(n) /\ y \notin Part(n)
           G == {n \in Nat : n <= Len(new) => P(n)}
<1>2. 0 \in G
  <2>1. Part(0) = {}
    OBVIOUS
  <2> QED
    BY <1>1, <2>1
<1>3. ASSUME NEW n \in Nat, n \in G PROVE n + 1 \in G
  <2> SUFFICES ASSUME n + 1 <= Len(new) PROVE P(n + 1)
    <3> HIDE DEF P
    <3> QED
      OBVIOUS
  <2>1. P(n)
    BY <1>3
  <2> DEFINE e == new[n + 1]
             g == f[n]
             h == f[n + 1]
  <2>2. e \in Nat /\ n + 1 \in 1..Len(new) /\ (n + 1) - 1 = n
    OBVIOUS
  <2>3. Part(n + 1) = Part(n) \union {e}
    <3>1. 1..(n + 1) = 1..n \union {n + 1}
      OBVIOUS
    <3> QED
      BY <3>1
  <2>4. h = PrependOne(g, e)
    BY <1>1, <2>2
  <2>5. \A x \in Part(n) : x < e /\ x \in Nat
    <3> SUFFICES ASSUME NEW k \in 1..n PROVE new[k] < e /\ new[k] \in Nat
      OBVIOUS
    <3>1. k \in 1..Len(new) /\ k < n + 1
      BY <2>2
    <3>2. Above(new, new[k], new[n + 1])
      BY <2>2, <3>1 DEF Above
    <3> QED
      BY <2>2, <3>1, <3>2 DEF Ascending
  <2>6. /\ g \in Seq(Nat) /\ Range(g) = Range(list) \union Part(n)
        /\ \A x, y : Above(g, x, y) =>
             \/ x \in Part(n) /\ y \in Part(n) /\ x > y
             \/ x \in Part(n) /\ y \in Range(list) \ Part(n)
             \/ Above(list, x, y) /\ x \notin Part(n) /\ y \notin Part(n)
    BY <2>1
  <2> HIDE DEF e, g, Part
  <2>7. /\ h \in Seq(Nat) /\ Range(h) = Range(g) \union {e}
        /\ \A x, y : Above(h, x, y) =>
             \/ x = e /\ y \in Range(g) \ {e}
             \/ Above(g, x, y) /\ x # e /\ y # e
    <3> HIDE DEF h, P, G
    <3>1. g \in Seq(Nat) /\ e \in Nat
      BY <2>2, <2>6
    <3>2. /\ PrependOne(g, e) \in Seq(Nat) /\ Range(PrependOne(g, e)) = Range(g) \union {e}
          /\ \A x, y : Above(PrependOne(g, e), x, y) =>
               \/ x = e /\ y \in Range(g) \ {e}
               \/ Above(g, x, y) /\ x # e /\ y # e
      BY <3>1, PrependOneIs
    <3> QED
      BY <2>4, <3>2
  <2> HIDE DEF h
  <2>8. ASSUME NEW x, NEW y, Above(h, x, y)
        PROVE  \/ x \in Part(n + 1) /\ y \in Part(n + 1) /\ x > y
               \/ x \in Part(n + 1) /\ y \in Range(list) \ Part(n + 1)
               \/ Above(list, x, y) /\ x \notin Part(n + 1) /\ y \notin Part(n + 1)
    <3>1. CASE x = e /\ y \in Range(g) \ {e}
      <4>1. CASE y \in Part(n)
        BY <2>2, <2>3, <2>5, <3>1, <4>1
      <4>2. CASE y \notin Part(n)
        BY <2>3, <2>6, <3>1, <4>2
      <4> QED
        BY <4>1, <4>2
    <3>2. CASE Above(g, x, y) /\ x # e /\ y # e
      BY <2>3, <2>6, <3>2
    <3> QED
      BY <2>7, <2>8, <3>1, <3>2
  <2>9. Range(h) = Range(list) \union Part(n + 1)
    BY <2>3, <2>6, <2>7
  <2> QED
    BY <2>7, <2>8, <2>9 DEF h
<1>4. Len(new) \in G
  <2> HIDE DEF G
  <2>1. Nat \subseteq G
    BY <1>2, <1>3, SetInduction
  <2> QED
    BY <2>1
<1>5. P(Len(new))
  BY <1>4
<1>6. Part(Len(new)) = Range(new)
  BY DEF Range
<1> HIDE DEF Part
<1> QED
  BY <1>1, <1>5, <1>6

-----------------------------------------------------------------------------
(* The types of the state.                                                 *)
RequestType ==
  [mode : {"none", "reset", "refresh_head", "append"}, before : Nat,
   stage : {"idle", "sent", "checked", "answered"}, snapshot : Nat,
   rows : Seq(Nat), more : BOOLEAN, next : Nat]

FeedType ==
  /\ logged \in Nat /\ projected \in 0..logged /\ cursor \in 0..logged
  /\ wire \in Seq(Nat) /\ activities \in Seq(Nat)
  /\ pending \in Seq(Nat) /\ buffered \in Seq(Nat)
  /\ nextCursor \in Nat /\ loaded \in Nat
  /\ connected \in BOOLEAN /\ hasMore \in BOOLEAN /\ bootstrap \in BOOLEAN
  /\ needsRefresh \in BOOLEAN /\ refreshDue \in BOOLEAN /\ atTop \in BOOLEAN
  /\ bootFailed \in BOOLEAN /\ staleHead \in BOOLEAN
  /\ request \in [{"head", "more"} -> RequestType]

(* What a page is: rows one below the other, from just below the keyset    *)
(* cursor of the request or, without one, from the newest projected row;   *)
(* its next cursor is its last row, unless it reaches the oldest one.      *)
IsPage(q) ==
  LET top == IF q.rows = <<>> THEN 0 ELSE q.rows[1]
  IN  /\ Len(q.rows) <= top
      /\ \A k \in 1..Len(q.rows) : q.rows[k] = top + 1 - k
      /\ IF q.next = 0 THEN Len(q.rows) = top
         ELSE Len(q.rows) > 0 /\ q.next = top + 1 - Len(q.rows)
      /\ q.before # 0 => top = q.before - 1

(* The head has a request for the first page or for a fresh one, and a     *)
(* further page is asked for below the list's next cursor.                 *)
RequestInv ==
  /\ \A r \in {"head", "more"} :
       /\ request[r].mode = "none" => request[r] = NoRequest
       /\ request[r].stage = "answered" => IsPage(request[r])
  /\ request["head"].mode \in {"none", "reset", "refresh_head"} /\ request["head"].before = 0
  /\ request["more"].mode \in {"none", "append"}
  /\ request["more"].mode = "append" => request["more"].before = nextCursor /\ nextCursor # 0

(* Until the first page has come nothing is shown, and what was received   *)
(* is buffered in its order; at the top nothing is pending.                *)
BootInv ==
  /\ bootstrap <=> request["head"].mode = "reset"
  /\ bootstrap =>
       /\ activities = <<>> /\ pending = <<>> /\ nextCursor = 0 /\ loaded = 0
       /\ request["more"].mode = "none" /\ ~refreshDue /\ ~needsRefresh
       /\ Range(buffered) = received
       /\ Ascending(buffered)
  /\ atTop => pending = <<>>

(* The client has received what lies at or below its cursor, except what   *)
(* was logged before a subscription without cursor; the rest is on the     *)
(* wire, in order, while the socket is open.                               *)
SocketInv ==
  /\ received = (1..cursor) \ unreplayed
  /\ unreplayed \subseteq 1..logged
  /\ cursor > 0 => unreplayed \subseteq 1..(cursor - 1)
  /\ ~connected => wire = <<>>
  /\ connected =>
       /\ Len(wire) <= logged
       /\ \A k \in 1..Len(wire) : wire[k] = logged - Len(wire) + k
       /\ IF cursor = 0 THEN unreplayed = 1..(logged - Len(wire))
          ELSE cursor = logged - Len(wire)

(* What is pending is newest first, and newer than all else that came.     *)
PendingInv ==
  /\ Descending(pending, Nat) /\ Range(pending) \subseteq received
  /\ \A x \in Range(pending), y \in received : y \in Range(pending) \/ y < x

(* A refresh is due, or under way, only after something has been received  *)
(* and shown.                                                              *)
RefreshInv ==
  /\ refreshDue \/ needsRefresh => received \intersect Shown # {}
  /\ request["head"].mode = "refresh_head" => received \intersect Range(activities) # {}

(* What was received is newest first in the list; before anything was, the *)
(* list consists of pages.  What was received and is not shown, since the  *)
(* first page was refused, is older than all that is, and lies below the   *)
(* pages that have been loaded.                                            *)
OrderInv ==
  /\ Descending(activities, received \ Range(pending))
  /\ cursor = 0 => /\ Descending(activities, Nat)
                   /\ \A i \in Range(activities) : i >= nextCursor
  /\ \A i \in received \ Shown : \A j \in received \intersect Shown : i < j
  /\ nextCursor # 0 => \A i \in received \ Shown : i < nextCursor

ListInv ==
  ReceivedIsKept /\ PagesHaveNoHole /\ PendingInv /\ (~staleHead => OrderInv) /\ 0 \notin Shown

FeedInv == FeedType /\ RequestInv /\ BootInv /\ SocketInv /\ ListInv /\ RefreshInv

-----------------------------------------------------------------------------
LEMMA InitFeed ==
  ASSUME FeedInit
  PROVE  FeedInv
<1>1. /\ logged = Before /\ projected \in 0..Before /\ connected = FALSE /\ wire = <<>>
      /\ cursor = 0
      /\ activities = <<>> /\ nextCursor = 0 /\ hasMore = FALSE /\ bootstrap = TRUE
      /\ buffered = <<>> /\ pending = <<>> /\ loaded = 0 /\ needsRefresh = FALSE
      /\ refreshDue = FALSE /\ atTop = TRUE /\ received = {} /\ unreplayed = {}
      /\ bootFailed = FALSE /\ staleHead = FALSE /\ Before \in Nat
  BY FeedAssumption DEF FeedInit
<1>2. NoRequest \in RequestType /\ Ask("reset", 0) \in RequestType
  BY EmptyIs DEF NoRequest, Ask, RequestType
<1>3. /\ request \in [{"head", "more"} -> RequestType]
      /\ request["head"] = Ask("reset", 0) /\ request["more"] = NoRequest
  BY <1>2 DEF FeedInit
<1>4. /\ NoRequest.mode = "none" /\ NoRequest.stage = "idle"
      /\ Ask("reset", 0).mode = "reset" /\ Ask("reset", 0).stage = "sent"
      /\ Ask("reset", 0).before = 0
  BY DEF NoRequest, Ask
<1>5. FeedType
  <2>1. /\ logged \in Nat /\ projected \in 0..logged /\ cursor \in 0..logged
        /\ nextCursor \in Nat /\ loaded \in Nat
    BY <1>1
  <2> QED
    BY <1>1, <1>3, <2>1, EmptyIs DEF FeedType
<1>6. RequestInv
  BY <1>3, <1>4 DEF RequestInv
<1>7. BootInv
  BY <1>1, <1>3, <1>4, EmptyIs DEF BootInv, Ascending
<1>8. SocketInv
  BY <1>1 DEF SocketInv
<1>9. ListInv
  BY <1>1, EmptyIs DEF ListInv, ReceivedIsKept, PagesHaveNoHole, PendingInv, OrderInv, Shown,
                       Descending
<1>10. RefreshInv
  BY <1>1, <1>3, <1>4 DEF RefreshInv
<1> QED
  BY <1>5, <1>6, <1>7, <1>8, <1>9, <1>10 DEF FeedInv

(* Steps that leave the page alone, or only its lists.                     *)
LEMMA ListSame ==
  ASSUME ListInv,
         UNCHANGED <<received, cursor, listVars, bootstrap, buffered, bootFailed, staleHead>>
  PROVE  ListInv'
BY DEF ListInv, listVars, ReceivedIsKept, PagesHaveNoHole, PendingInv, OrderInv, Shown, Descending,
       Above

LEMMA PageSame ==
  ASSUME FeedInv,
         UNCHANGED <<received, cursor, listVars, refreshVars, bootstrap, buffered, atTop,
                     request, bootFailed, staleHead>>
  PROVE  (RequestInv /\ BootInv /\ ListInv /\ RefreshInv)'
<1>1. ListInv'
  BY ListSame DEF FeedInv
<1> QED
  BY <1>1 DEF FeedInv, listVars, refreshVars, RequestInv, BootInv, RefreshInv, IsPage, Shown,
              NoRequest

LEMMA LogFeed ==
  ASSUME FeedInv, Log
  PROVE  FeedInv'
<1>1. (RequestInv /\ BootInv /\ ListInv /\ RefreshInv)'
  BY PageSame DEF Log
<1>2. FeedType'
  BY DEF FeedInv, FeedType, Log, listVars, refreshVars
<1>3. SocketInv'
  <2>1. CASE connected
    <3> DEFINE w == Append(wire, logged + 1)
    <3>1. wire' = w /\ logged' = logged + 1 /\ UNCHANGED <<connected, cursor, received, unreplayed>>
      BY <2>1 DEF Log
    <3>2. /\ Len(w) = Len(wire) + 1
          /\ \A k \in 1..Len(w) : w[k] = IF k = Len(wire) + 1 THEN logged + 1 ELSE wire[k]
      BY DEF FeedInv, FeedType
    <3> HIDE DEF w
    <3>3. Len(wire) \in Nat /\ logged \in Nat /\ cursor \in 0..logged
      BY DEF FeedInv, FeedType
    <3>4. \A k \in 1..Len(w) : w[k] = logged + 1 - Len(w) + k
      BY <2>1, <3>2, <3>3 DEF FeedInv, SocketInv
    <3>5. logged + 1 - Len(w) = logged - Len(wire) /\ 1..logged \subseteq 1..(logged + 1)
      BY <3>2, <3>3
    <3>6. /\ received = (1..cursor) \ unreplayed /\ unreplayed \subseteq 1..logged
          /\ cursor > 0 => unreplayed \subseteq 1..(cursor - 1)
          /\ Len(wire) <= logged
          /\ IF cursor = 0 THEN unreplayed = 1..(logged - Len(wire))
             ELSE cursor = logged - Len(wire)
      BY <2>1 DEF FeedInv, SocketInv
    <3>7. Len(w) <= logged + 1 /\ unreplayed \subseteq 1..(logged + 1)
      BY <3>2, <3>3, <3>5, <3>6
    <3>8. /\ received' = (1..cursor') \ unreplayed' /\ unreplayed' \subseteq 1..logged'
          /\ cursor' > 0 => unreplayed' \subseteq 1..(cursor' - 1)
      BY <3>1, <3>6, <3>7
    <3>9. /\ Len(wire') <= logged'
          /\ \A k \in 1..Len(wire') : wire'[k] = logged' - Len(wire') + k
      BY <3>1, <3>2, <3>3, <3>4, <3>7
    <3>10. IF cursor' = 0 THEN unreplayed' = 1..(logged' - Len(wire'))
           ELSE cursor' = logged' - Len(wire')
      BY <3>1, <3>2, <3>3, <3>5, <3>6
    <3> QED
      BY <2>1, <3>1, <3>8, <3>9, <3>10 DEF SocketInv
  <2>2. CASE ~connected
    BY <2>2 DEF FeedInv, FeedType, SocketInv, Log
  <2> QED
    BY <2>1, <2>2
<1> QED
  BY <1>1, <1>2, <1>3 DEF FeedInv

LEMMA ProjectFeed ==
  ASSUME FeedInv, Project
  PROVE  FeedInv'
<1>1. (RequestInv /\ BootInv /\ ListInv /\ RefreshInv)'
  BY PageSame DEF Project, socketVars
<1>2. FeedType'
  BY DEF FeedInv, FeedType, Project, socketVars, listVars, refreshVars
<1>3. SocketInv'
  BY DEF FeedInv, SocketInv, Project, socketVars
<1> QED
  BY <1>1, <1>2, <1>3 DEF FeedInv

LEMMA SubscribeFeed ==
  ASSUME FeedInv, Subscribe
  PROVE  FeedInv'
<1>1. (RequestInv /\ BootInv /\ ListInv /\ RefreshInv)'
  BY PageSame DEF Subscribe
<1>2. logged \in Nat /\ cursor \in 0..logged
  BY DEF FeedInv, FeedType
<1>3. CASE cursor > 0
  <2> DEFINE w == [k \in 1..(logged - cursor) |-> cursor + k]
  <2>1. w \in Seq(Nat) /\ Len(w) = logged - cursor /\ \A k \in 1..Len(w) : w[k] = cursor + k
    BY <1>2
  <2> HIDE DEF w
  <2>2. /\ wire' = w /\ connected' = TRUE
        /\ UNCHANGED <<logged, projected, cursor, received, unreplayed>>
    BY <1>3 DEF Subscribe, serverVars, w
  <2>3. FeedType'
    BY <2>1, <2>2 DEF FeedInv, FeedType, Subscribe, listVars, refreshVars
  <2>4. logged - Len(w) = cursor
    BY <1>2, <2>1
  <2>5. \A k \in 1..Len(w) : w[k] = logged - Len(w) + k
    BY <2>1, <2>4
  <2>6. Len(w) <= logged /\ cursor # 0
    BY <1>2, <1>3, <2>1
  <2>7. SocketInv'
    BY <2>2, <2>4, <2>5, <2>6 DEF FeedInv, SocketInv
  <2> QED
    BY <1>1, <2>3, <2>7 DEF FeedInv
<1>4. CASE cursor = 0
  <2>1. /\ wire' = <<>> /\ connected' = TRUE /\ unreplayed' = 1..logged
        /\ UNCHANGED <<logged, projected, cursor, received>>
    BY <1>4 DEF Subscribe, serverVars
  <2>2. FeedType'
    BY <2>1, EmptyIs DEF FeedInv, FeedType, Subscribe, listVars, refreshVars
  <2>3. received = {} /\ 1..cursor = {} /\ logged - 0 = logged
    BY <1>2, <1>4 DEF FeedInv, SocketInv
  <2>4. SocketInv'
    BY <1>2, <1>4, <2>1, <2>3 DEF SocketInv
  <2> QED
    BY <1>1, <2>2, <2>4 DEF FeedInv
<1> QED
  BY <1>2, <1>3, <1>4

LEMMA DisconnectFeed ==
  ASSUME FeedInv, Disconnect
  PROVE  FeedInv'
<1>1. (RequestInv /\ BootInv /\ ListInv /\ RefreshInv)'
  BY PageSame DEF Disconnect
<1>2. FeedType'
  BY EmptyIs DEF FeedInv, FeedType, Disconnect, serverVars, listVars, refreshVars
<1>3. SocketInv'
  BY DEF FeedInv, SocketInv, Disconnect, serverVars
<1> QED
  BY <1>1, <1>2, <1>3 DEF FeedInv

-----------------------------------------------------------------------------
(* One request is put in the place of another.                             *)
LEMMA NoRequestIs ==
  /\ NoRequest \in RequestType /\ NoRequest.mode = "none" /\ NoRequest.stage = "idle"
  /\ NoRequest.before = 0
BY EmptyIs DEF NoRequest, RequestType

LEMMA AskIs ==
  ASSUME NEW mode \in {"reset", "refresh_head", "append"}, NEW before \in Nat
  PROVE  /\ Ask(mode, before) \in RequestType /\ Ask(mode, before).mode = mode
         /\ Ask(mode, before).before = before /\ Ask(mode, before).stage = "sent"
BY EmptyIs DEF Ask, NoRequest, RequestType

Fits(r, q, next) ==
  /\ q.mode = "none" => q = NoRequest
  /\ q.stage = "answered" => IsPage(q)
  /\ r = "head" => q.mode \in {"none", "reset", "refresh_head"} /\ q.before = 0
  /\ r = "more" => q.mode \in {"none", "append"}
  /\ r = "more" /\ q.mode = "append" => q.before = next /\ next # 0

LEMMA RequestPart ==
  ASSUME FeedInv, NEW r \in {"head", "more"}, NEW q \in RequestType,
         request' = [request EXCEPT ![r] = q], Fits(r, q, nextCursor'),
         nextCursor' = nextCursor \/ r = "more" \/ request["more"].mode # "append"
  PROVE  /\ request' \in [{"head", "more"} -> RequestType] /\ RequestInv'
         /\ request'[r] = q /\ \A s \in {"head", "more"} : s # r => request'[s] = request[s]
<1>1. request \in [{"head", "more"} -> RequestType]
  BY DEF FeedInv, FeedType
<1>2. /\ request' \in [{"head", "more"} -> RequestType]
      /\ request'[r] = q /\ \A s \in {"head", "more"} : s # r => request'[s] = request[s]
  BY <1>1
<1>3. RequestInv'
  <2>1. request'["head"] = request["head"] \/ (r = "head" /\ request'["head"] = q)
    BY <1>2
  <2>2. request'["more"] = request["more"] \/ (r = "more" /\ request'["more"] = q)
    BY <1>2
  <2>3. Fits("head", request'["head"], nextCursor')
    BY <2>1 DEF FeedInv, RequestInv, Fits
  <2>4. Fits("more", request'["more"], nextCursor')
    BY <1>2, <2>2 DEF FeedInv, RequestInv, Fits
  <2> QED
    BY <2>3, <2>4 DEF RequestInv, Fits, IsPage, NoRequest
<1> QED
  BY <1>2, <1>3

(* Only a request changes, and what refresh is due.                        *)
LEMMA RequestStep ==
  ASSUME FeedInv, NEW r \in {"head", "more"}, NEW q \in RequestType,
         request' = [request EXCEPT ![r] = q], Fits(r, q, nextCursor),
         UNCHANGED <<serverVars, socketVars, listVars, bootstrap, buffered, atTop,
                     bootFailed, staleHead>>,
         refreshDue' \in BOOLEAN, needsRefresh' \in BOOLEAN,
         refreshDue' \/ needsRefresh' => refreshDue \/ needsRefresh,
         r = "head" => /\ q.mode = "reset" <=> request["head"].mode = "reset"
                       /\ q.mode = "refresh_head" => received \intersect Range(activities) # {}
  PROVE  FeedInv'
<1>1. nextCursor' = nextCursor
  BY DEF listVars
<1>2. /\ request' \in [{"head", "more"} -> RequestType] /\ RequestInv'
      /\ request'[r] = q /\ \A s \in {"head", "more"} : s # r => request'[s] = request[s]
  BY <1>1, RequestPart
<1>3. FeedType'
  BY <1>2 DEF FeedInv, FeedType, serverVars, socketVars, listVars
<1>4. ListInv'
  BY ListSame DEF FeedInv, socketVars
<1>5. SocketInv'
  BY DEF FeedInv, SocketInv, serverVars, socketVars
<1>6. BootInv'
  <2>1. request'["head"].mode = "reset" <=> request["head"].mode = "reset"
    BY <1>2
  <2>2. bootstrap => request'["more"].mode = "none" /\ ~refreshDue' /\ ~needsRefresh'
    BY <1>2 DEF FeedInv, BootInv, Fits
  <2> QED
    BY <2>1, <2>2 DEF FeedInv, BootInv, listVars, socketVars
<1>7. RefreshInv'
  <2>1. request'["head"].mode = "refresh_head" => received \intersect Range(activities) # {}
    BY <1>2 DEF FeedInv, RefreshInv
  <2> QED
    BY <2>1 DEF FeedInv, RefreshInv, Shown, listVars, socketVars
<1> QED
  BY <1>2, <1>3, <1>4, <1>5, <1>6, <1>7 DEF FeedInv

LEMMA RequestOf ==
  ASSUME FeedInv, NEW r \in {"head", "more"}
  PROVE  /\ request[r] \in RequestType /\ Fits(r, request[r], nextCursor)
         /\ request[r].stage # "idle" => request[r].mode # "none"
BY NoRequestIs DEF FeedInv, FeedType, RequestInv, Fits

LEMMA LoadCheckpointFeed ==
  ASSUME FeedInv, NEW r \in {"head", "more"}, LoadCheckpoint(r)
  PROVE  FeedInv'
<1> DEFINE q == [request[r] EXCEPT !.snapshot = projected, !.stage = "checked"]
<1>1. request[r] \in RequestType /\ Fits(r, request[r], nextCursor) /\ request[r].mode # "none"
  BY RequestOf DEF LoadCheckpoint
<1>2. projected \in Nat /\ request \in [{"head", "more"} -> RequestType]
  BY DEF FeedInv, FeedType
<1>3. /\ q \in RequestType /\ q.mode = request[r].mode /\ q.before = request[r].before
      /\ q.stage = "checked"
  BY <1>1, <1>2 DEF RequestType
<1>4. request' = [request EXCEPT ![r] = q]
  BY <1>1, <1>2 DEF LoadCheckpoint
<1> HIDE DEF q
<1>5. Fits(r, q, nextCursor)
  BY <1>1, <1>3 DEF Fits
<1>6. r = "head" /\ q.mode = "refresh_head" => received \intersect Range(activities) # {}
  BY <1>3 DEF FeedInv, RefreshInv
<1>7. /\ UNCHANGED <<serverVars, socketVars, listVars, bootstrap, buffered, atTop, bootFailed,
                     staleHead>>
      /\ UNCHANGED refreshVars
  BY DEF LoadCheckpoint
<1>8. refreshDue' \in BOOLEAN /\ needsRefresh' \in BOOLEAN /\ UNCHANGED <<refreshDue, needsRefresh>>
  BY <1>7 DEF FeedInv, FeedType, refreshVars
<1> QED
  BY <1>3, <1>4, <1>5, <1>6, <1>7, <1>8, RequestStep

(* The page that is read is one.                                           *)
LEMMA PageIs ==
  ASSUME NEW before \in Nat, projected \in Nat, NEW q \in RequestType, q.before = before,
         LET all == RowsBelow(before)
         IN  /\ q.rows = IF Len(all) > PageSize THEN SubSeq(all, 1, PageSize) ELSE all
             /\ q.next = NextCursor(all)
  PROVE  IsPage(q)
<1> DEFINE all == RowsBelow(before)
           top == IF before = 0 THEN projected ELSE before - 1
<1>1. top \in Nat /\ (before # 0 => top = before - 1) /\ PageSize \in Nat \ {0}
  BY FeedAssumption
<1>2. all = [k \in 1..top |-> top + 1 - k]
  BY DEF RowsBelow
<1>3. q.rows = (IF Len(all) > PageSize THEN SubSeq(all, 1, PageSize) ELSE all)
      /\ q.next = (IF Len(all) > PageSize THEN all[PageSize] ELSE 0)
  BY DEF NextCursor
<1> DEFINE rows == q.rows
           next == q.next
<1> SUFFICES /\ Len(rows) <= top /\ (rows = <<>> <=> top = 0) /\ (rows # <<>> => rows[1] = top)
             /\ \A k \in 1..Len(rows) : rows[k] = top + 1 - k
             /\ IF next = 0 THEN Len(rows) = top ELSE Len(rows) > 0 /\ next = top + 1 - Len(rows)
  <2>1. q.before # 0 => top = q.before - 1
    BY <1>1
  <2> HIDE DEF top
  <2> QED
    BY <2>1 DEF IsPage
<1>4. /\ rows = IF Len(all) > PageSize THEN SubSeq(all, 1, PageSize) ELSE all
      /\ next = IF Len(all) > PageSize THEN all[PageSize] ELSE 0
  BY <1>3
<1> HIDE DEF top, all, rows, next
<1>5. all \in Seq(Nat) /\ Len(all) = top /\ \A k \in 1..top : all[k] = top + 1 - k
  BY <1>1, <1>2
<1>6. CASE top > PageSize
  <2>1. rows = SubSeq(all, 1, PageSize) /\ 1 <= PageSize + 1 /\ PageSize <= Len(all)
    BY <1>1, <1>4, <1>5, <1>6
  <2>2. rows \in Seq(Nat) /\ Len(rows) = PageSize /\ \A k \in 1..PageSize : rows[k] = all[k]
    BY <1>1, <1>5, <1>6, <2>1, SubSeqProperties
  <2>3. rows # <<>> /\ rows[1] = top
    BY <1>1, <1>5, <1>6, <2>2
  <2>4. next = top + 1 - PageSize /\ next # 0
    BY <1>1, <1>4, <1>5, <1>6
  <2>5. \A k \in 1..Len(rows) : rows[k] = top + 1 - k
    BY <1>1, <1>5, <1>6, <2>2
  <2> QED
    BY <1>1, <1>6, <2>2, <2>3, <2>4, <2>5
<1>7. CASE ~(top > PageSize)
  <2>1. rows = all /\ next = 0
    BY <1>4, <1>5, <1>7
  <2>2. all = <<>> <=> top = 0
    BY <1>1, <1>5, EmptySeq
  <2> QED
    BY <1>1, <1>5, <2>1, <2>2
<1> QED
  BY <1>6, <1>7

LEMMA ReadPageFeed ==
  ASSUME FeedInv, NEW r \in {"head", "more"}, ReadPage(r)
  PROVE  FeedInv'
<1> DEFINE all == RowsBelow(request[r].before)
           rows == IF Len(all) > PageSize THEN SubSeq(all, 1, PageSize) ELSE all
           q == [request[r] EXCEPT !.stage = "answered", !.rows = rows,
                                   !.more = Len(all) > PageSize, !.next = NextCursor(all)]
<1>1. request[r] \in RequestType /\ Fits(r, request[r], nextCursor) /\ request[r].mode # "none"
  BY RequestOf DEF ReadPage
<1>2. projected \in Nat /\ request \in [{"head", "more"} -> RequestType] /\ PageSize \in Nat \ {0}
  BY FeedAssumption DEF FeedInv, FeedType
<1>3. request[r].before \in Nat
  BY <1>1 DEF RequestType
<1>4. all \in Seq(Nat)
  <2> DEFINE top == IF request[r].before = 0 THEN projected ELSE request[r].before - 1
  <2>1. top \in Nat
    BY <1>2, <1>3
  <2>2. all = [k \in 1..top |-> top + 1 - k]
    BY DEF RowsBelow
  <2> HIDE DEF top, all
  <2> QED
    BY <2>1, <2>2
<1>5. request' = [request EXCEPT ![r] = q]
  BY <1>1, <1>2 DEF ReadPage
<1> HIDE DEF all
<1>6. rows \in Seq(Nat) /\ NextCursor(all) \in Nat /\ (Len(all) > PageSize) \in BOOLEAN
  BY <1>2, <1>4 DEF NextCursor
<1> HIDE DEF rows
<1>7. /\ q \in RequestType /\ q.mode = request[r].mode /\ q.before = request[r].before
      /\ q.rows = rows /\ q.next = NextCursor(all)
  BY <1>1, <1>6 DEF RequestType
<1> HIDE DEF q
<1>8. IsPage(q)
  BY <1>2, <1>3, <1>7, PageIs DEF rows, all
<1>9. Fits(r, q, nextCursor)
  BY <1>1, <1>7, <1>8 DEF Fits
<1>10. r = "head" /\ q.mode = "refresh_head" => received \intersect Range(activities) # {}
  BY <1>7 DEF FeedInv, RefreshInv
<1>11. /\ UNCHANGED <<serverVars, socketVars, listVars, bootstrap, buffered, atTop, bootFailed,
                      staleHead>>
       /\ UNCHANGED refreshVars
  BY DEF ReadPage
<1>12. /\ refreshDue' \in BOOLEAN /\ needsRefresh' \in BOOLEAN
       /\ UNCHANGED <<refreshDue, needsRefresh>>
  BY <1>11 DEF FeedInv, FeedType, refreshVars
<1> QED
  BY <1>5, <1>7, <1>9, <1>10, <1>11, <1>12, RequestStep

LEMMA LosePageFeed ==
  ASSUME FeedInv, NEW r \in {"head", "more"}, LosePage(r)
  PROVE  FeedInv'
<1>1. /\ request' = [request EXCEPT ![r] = NoRequest] /\ request[r].mode # "reset"
      /\ UNCHANGED <<serverVars, socketVars, listVars, bootstrap, buffered, atTop, bootFailed,
                     staleHead>>
      /\ UNCHANGED refreshVars
  BY DEF LosePage, Done
<1>2. refreshDue' \in BOOLEAN /\ needsRefresh' \in BOOLEAN /\ UNCHANGED <<refreshDue, needsRefresh>>
  BY <1>1 DEF FeedInv, FeedType, refreshVars
<1>3. Fits(r, NoRequest, nextCursor)
  BY NoRequestIs DEF Fits
<1> QED
  BY <1>1, <1>2, <1>3, NoRequestIs, RequestStep

LEMMA LoadMoreFeed ==
  ASSUME FeedInv, LoadMore
  PROVE  FeedInv'
<1> DEFINE q == Ask("append", nextCursor)
<1>1. /\ request' = [request EXCEPT !["more"] = q] /\ nextCursor # 0
      /\ UNCHANGED <<serverVars, socketVars, listVars, bootstrap, buffered, atTop, bootFailed,
                     staleHead>>
      /\ UNCHANGED refreshVars
  BY DEF LoadMore
<1>2. refreshDue' \in BOOLEAN /\ needsRefresh' \in BOOLEAN /\ UNCHANGED <<refreshDue, needsRefresh>>
  BY <1>1 DEF FeedInv, FeedType, refreshVars
<1>3. nextCursor \in Nat
  BY DEF FeedInv, FeedType
<1>4. q \in RequestType /\ q.mode = "append" /\ q.before = nextCursor /\ q.stage = "sent"
  BY <1>3, AskIs
<1> HIDE DEF q
<1>5. Fits("more", q, nextCursor)
  BY <1>1, <1>4 DEF Fits
<1> QED
  BY <1>1, <1>2, <1>4, <1>5, RequestStep

LEMMA RefreshFeed ==
  ASSUME FeedInv, Refresh
  PROVE  FeedInv'
<1> DEFINE q == IF atTop /\ request["head"] = NoRequest
                THEN Ask("refresh_head", 0) ELSE request["head"]
<1>1. /\ refreshDue /\ refreshDue' = FALSE /\ needsRefresh' = ~atTop
      /\ UNCHANGED <<serverVars, socketVars, listVars, bootstrap, buffered, atTop, bootFailed,
                     staleHead>>
  BY DEF Refresh
<1>2. refreshDue' \in BOOLEAN /\ needsRefresh' \in BOOLEAN
  BY <1>1
<1>3. request \in [{"head", "more"} -> RequestType]
  BY DEF FeedInv, FeedType
<1>4. request' = [request EXCEPT !["head"] = q]
  BY <1>3 DEF Refresh
<1>5. request["head"] \in RequestType /\ Fits("head", request["head"], nextCursor)
  BY RequestOf
<1>6. /\ Ask("refresh_head", 0) \in RequestType /\ Ask("refresh_head", 0).mode = "refresh_head"
      /\ Ask("refresh_head", 0).before = 0 /\ Ask("refresh_head", 0).stage = "sent"
  BY AskIs
<1>7. q \in RequestType /\ Fits("head", q, nextCursor)
  BY <1>5, <1>6 DEF Fits
<1>8. q.mode = "reset" <=> request["head"].mode = "reset"
  BY <1>6, NoRequestIs
<1>9. q.mode = "refresh_head" => received \intersect Range(activities) # {}
  <2>1. CASE atTop /\ request["head"] = NoRequest
    <3>1. pending = <<>> /\ received \intersect Shown # {}
      BY <1>1, <2>1 DEF FeedInv, BootInv, RefreshInv
    <3> QED
      BY <3>1, EmptyIs DEF Shown
  <2>2. CASE ~(atTop /\ request["head"] = NoRequest)
    BY <2>2 DEF FeedInv, RefreshInv
  <2> QED
    BY <2>1, <2>2
<1> HIDE DEF q
<1> QED
  BY <1>1, <1>2, <1>4, <1>7, <1>8, <1>9, RequestStep

LEMMA ScrollAwayFeed ==
  ASSUME FeedInv, ScrollAway
  PROVE  FeedInv'
<1>1. FeedType'
  BY DEF FeedInv, FeedType, ScrollAway, serverVars, socketVars, listVars, refreshVars
<1>2. ListInv'
  BY ListSame DEF FeedInv, ScrollAway, socketVars
<1>3. SocketInv'
  BY DEF FeedInv, SocketInv, ScrollAway, serverVars, socketVars
<1>4. (RequestInv /\ BootInv /\ RefreshInv)'
  BY DEF FeedInv, ScrollAway, socketVars, listVars, refreshVars, RequestInv, BootInv, RefreshInv,
         IsPage, Shown, NoRequest
<1> QED
  BY <1>1, <1>2, <1>3, <1>4 DEF FeedInv

-----------------------------------------------------------------------------
(* The next event of the socket is newer than all that was received.       *)
LEMMA NextOnWire ==
  ASSUME FeedInv, wire # <<>>
  PROVE  /\ Head(wire) \in Nat \ {0} /\ Head(wire) <= logged /\ cursor < Head(wire)
         /\ Tail(wire) \in Seq(Nat)
         /\ \A y \in received : y \in Nat /\ y < Head(wire)
         /\ received \union {Head(wire)} = (1..Head(wire)) \ unreplayed
         /\ unreplayed \subseteq 1..(Head(wire) - 1)
         /\ connected /\ Len(Tail(wire)) <= logged /\ Head(wire) = logged - Len(Tail(wire))
         /\ \A k \in 1..Len(Tail(wire)) : Tail(wire)[k] = logged - Len(Tail(wire)) + k
<1> DEFINE id == Head(wire)
           w == Tail(wire)
<1>1. wire \in Seq(Nat) /\ logged \in Nat /\ cursor \in 0..logged
  BY DEF FeedInv, FeedType
<1>2. /\ id \in Nat /\ id = wire[1]
      /\ w \in Seq(Nat) /\ Len(w) = Len(wire) - 1 /\ Len(wire) \in Nat \ {0}
      /\ \A k \in 1..Len(w) : w[k] = wire[k + 1]
  BY <1>1, HeadTailProperties, EmptySeq
<1>3. /\ connected /\ Len(wire) <= logged
      /\ \A k \in 1..Len(wire) : wire[k] = logged - Len(wire) + k
      /\ IF cursor = 0 THEN unreplayed = 1..(logged - Len(wire)) ELSE cursor = logged - Len(wire)
      /\ received = (1..cursor) \ unreplayed
      /\ cursor > 0 => unreplayed \subseteq 1..(cursor - 1)
  BY DEF FeedInv, SocketInv
<1>4. id = logged - Len(wire) + 1
  BY <1>2, <1>3
<1>5. /\ id = logged - Len(w) /\ Len(w) \in Nat /\ Len(w) <= logged
      /\ id <= logged /\ id # 0 /\ id - 1 \in Nat
  BY <1>1, <1>2, <1>3, <1>4
<1>6. \A k \in 1..Len(w) : w[k] = logged - Len(w) + k
  BY <1>1, <1>2, <1>3
<1>7. cursor = 0 \/ cursor = id - 1
  BY <1>1, <1>3, <1>4
<1>8. cursor = 0 => unreplayed = 1..(id - 1)
  BY <1>1, <1>2, <1>3, <1>4
<1> HIDE DEF id, w
<1>9. cursor < id /\ \A y \in received : y \in Nat /\ y < id
  BY <1>1, <1>2, <1>3, <1>5, <1>7
<1>10. unreplayed \subseteq 1..(id - 1)
  BY <1>1, <1>2, <1>3, <1>5, <1>7, <1>8
<1>11. received \union {id} = (1..id) \ unreplayed
  <2>1. 1..id = 1..(id - 1) \union {id} /\ id \notin 1..(id - 1)
    BY <1>2, <1>5
  <2>2. CASE cursor = 0
    <3>1. received = {}
      BY <1>3, <2>2
    <3> QED
      BY <1>8, <2>1, <2>2, <3>1
  <2>3. CASE cursor = id - 1
    BY <1>3, <1>10, <2>1, <2>3
  <2> QED
    BY <1>7, <2>2, <2>3
<1> QED
  BY <1>2, <1>3, <1>5, <1>6, <1>9, <1>10, <1>11 DEF id, w

LEMMA ReceiveFeed ==
  ASSUME FeedInv, Receive
  PROVE  FeedInv'
<1> DEFINE id == Head(wire)
<1>1. /\ wire # <<>> /\ wire' = Tail(wire) /\ received' = received \union {id}
      /\ cursor' = IF id > cursor THEN id ELSE cursor
      /\ bootstrap => /\ buffered' = Extend(buffered, <<id>>)
                      /\ UNCHANGED <<activities, pending, refreshDue>>
      /\ ~bootstrap =>
           /\ IF atTop THEN activities' = PrependOne(activities, id) /\ UNCHANGED pending
              ELSE pending' = PrependOne(pending, id) /\ UNCHANGED activities
           /\ refreshDue' \in {refreshDue, TRUE} /\ UNCHANGED buffered
      /\ UNCHANGED <<logged, projected, connected, unreplayed, nextCursor, hasMore, loaded,
                     needsRefresh, bootstrap, atTop, request, bootFailed, staleHead>>
  BY DEF Receive, Enqueue, ScheduleRefresh, serverVars
<1>2. /\ id \in Nat \ {0} /\ id <= logged /\ cursor < id /\ Tail(wire) \in Seq(Nat)
      /\ \A y \in received : y \in Nat /\ y < id
      /\ received \union {id} = (1..id) \ unreplayed
      /\ unreplayed \subseteq 1..(id - 1)
      /\ connected /\ Len(Tail(wire)) <= logged /\ id = logged - Len(Tail(wire))
      /\ \A k \in 1..Len(Tail(wire)) : Tail(wire)[k] = logged - Len(Tail(wire)) + k
  BY <1>1, NextOnWire
<1> HIDE DEF id
<1>3. /\ cursor \in 0..logged /\ logged \in Nat /\ bootstrap \in BOOLEAN /\ atTop \in BOOLEAN
      /\ buffered \in Seq(Nat) /\ activities \in Seq(Nat) /\ pending \in Seq(Nat)
  BY DEF FeedInv, FeedType
<1>4. cursor' = id
  BY <1>1, <1>2, <1>3
<1>5. SocketInv'
  <2> DEFINE w == Tail(wire)
  <2> HIDE DEF w
  <2>1. /\ w \in Seq(Nat) /\ connected /\ Len(w) <= logged /\ id = logged - Len(w) /\ wire' = w
        /\ \A k \in 1..Len(w) : w[k] = logged - Len(w) + k
    BY <1>1, <1>2 DEF w
  <2>2. id > 0 /\ id # 0
    BY <1>2
  <2> QED
    BY <1>1, <1>2, <1>4, <2>1, <2>2 DEF FeedInv, SocketInv
<1>6. RequestInv'
  BY <1>1 DEF FeedInv, RequestInv, IsPage, NoRequest
<1>7. CASE bootstrap
  <2>1. /\ activities = <<>> /\ pending = <<>> /\ nextCursor = 0 /\ loaded = 0
        /\ request["more"].mode = "none" /\ ~refreshDue /\ ~needsRefresh
        /\ Range(buffered) = received /\ Ascending(buffered)
    BY <1>7 DEF FeedInv, BootInv
  <2> DEFINE new == <<id>>
  <2>2. new \in Seq(Nat) /\ Range(new) = {id} /\ \A x, y : ~Above(new, x, y)
    BY <1>2, SingleIs
  <2>3. buffered' = Extend(buffered, new)
    BY <1>1, <1>7
  <2> HIDE DEF new
  <2>4. /\ buffered' \in Seq(Nat) /\ Range(buffered') = received \union {id}
        /\ \A x, y : Above(buffered', x, y) =>
             \/ Above(buffered, x, y)
             \/ x \in received /\ y \in {id} \ received
             \/ Above(new, x, y) /\ x \notin received /\ y \notin received
    BY <1>3, <2>1, <2>2, <2>3, ExtendIs
  <2>5. Ascending(buffered')
    <3>1. SUFFICES ASSUME NEW x, NEW y, Above(buffered', x, y) PROVE x < y
      BY DEF Ascending
    <3>2. Above(buffered, x, y) \/ (x \in received /\ y = id)
      BY <2>2, <2>4, <3>1
    <3>3. CASE Above(buffered, x, y)
      BY <2>1, <3>3 DEF Ascending
    <3>4. CASE x \in received /\ y = id
      BY <1>2, <3>4
    <3> QED
      BY <3>2, <3>3, <3>4
  <2>6. FeedType'
    BY <1>1, <1>2, <1>4, <1>7, <2>4 DEF FeedInv, FeedType
  <2>7. BootInv'
    BY <1>1, <1>7, <2>1, <2>4, <2>5 DEF FeedInv, BootInv
  <2>8. Shown = {} /\ Shown' = {}
    BY <1>1, <1>7, <2>1, EmptyIs DEF Shown
  <2>9. ListInv'
    <3>1. ReceivedIsKept'
      BY <1>1, <1>7, <2>4 DEF ReceivedIsKept
    <3>2. PagesHaveNoHole' /\ PendingInv'
      BY <1>1, <1>7, <2>1, EmptyIs DEF PagesHaveNoHole, PendingInv, Descending
    <3>3. OrderInv'
      BY <1>1, <1>2, <1>4, <1>7, <2>1, <2>8, EmptyIs DEF OrderInv, Descending
    <3> QED
      BY <2>8, <3>1, <3>2, <3>3 DEF ListInv
  <2>10. RefreshInv'
    BY <1>1, <1>7, <2>1 DEF FeedInv, BootInv, RefreshInv
  <2> QED
    BY <1>5, <1>6, <2>6, <2>7, <2>9, <2>10 DEF FeedInv
<1>8. CASE ~bootstrap
  <2> DEFINE a == PrependOne(activities, id)
             p == PrependOne(pending, id)
  <2>a. /\ a \in Seq(Nat) /\ Range(a) = Range(activities) \union {id}
        /\ \A x, y : Above(a, x, y) =>
             \/ x = id /\ y \in Range(activities) \ {id}
             \/ Above(activities, x, y) /\ x # id /\ y # id
    BY <1>2, <1>3, PrependOneIs
  <2>p. /\ p \in Seq(Nat) /\ Range(p) = Range(pending) \union {id}
        /\ \A x, y : Above(p, x, y) =>
             \/ x = id /\ y \in Range(pending) \ {id}
             \/ Above(pending, x, y) /\ x # id /\ y # id
    BY <1>2, <1>3, PrependOneIs
  <2>b. /\ IF atTop THEN activities' = a /\ pending' = pending
                   ELSE pending' = p /\ activities' = activities
        /\ refreshDue' \in BOOLEAN
    BY <1>1, <1>8 DEF FeedInv, FeedType
  <2> HIDE DEF a, p
  <2>1. /\ activities' \in Seq(Nat) /\ pending' \in Seq(Nat)
        /\ Range(activities) \subseteq Range(activities')
        /\ Shown' = Shown \union {id}
    <3>1. CASE atTop
      BY <1>1, <1>2, <1>3, <1>8, <3>1, <2>a, <2>b DEF Shown
    <3>2. CASE ~atTop
      BY <1>1, <1>2, <1>3, <1>8, <3>2, <2>p, <2>b DEF Shown
    <3> QED
      BY <1>3, <3>1, <3>2
  <2>2. FeedType'
    BY <1>1, <1>2, <1>4, <1>8, <2>b, <2>1 DEF FeedInv, FeedType
  <2>3. BootInv'
    BY <1>1, <1>8 DEF FeedInv, BootInv
  <2>4. RefreshInv'
    <3>1. id \in received' \intersect Shown'
      BY <1>1, <2>1
    <3>2. request'["head"].mode = "refresh_head" => received' \intersect Range(activities') # {}
      BY <1>1, <2>1 DEF FeedInv, RefreshInv
    <3> QED
      BY <3>1, <3>2 DEF RefreshInv
  <2>5. ReceivedIsKept' /\ PagesHaveNoHole'
    BY <1>1, <1>8, <2>1 DEF FeedInv, ListInv, ReceivedIsKept, PagesHaveNoHole
  <2>6. \A x \in Range(pending), y \in received : y \in Range(pending) \/ y < x
    BY DEF FeedInv, ListInv, PendingInv
  <2>7. Range(pending) \subseteq received /\ Descending(pending, Nat)
    BY DEF FeedInv, ListInv, PendingInv
  <2>8. PendingInv' /\ received' \ Range(pending') \subseteq (received \ Range(pending)) \union {id}
    <3>1. CASE atTop
      <4>1. pending = <<>> /\ pending' = <<>>
        BY <1>1, <1>8, <3>1 DEF FeedInv, BootInv
      <4> QED
        BY <1>1, <4>1, EmptyIs DEF PendingInv, Descending
    <3>2. CASE ~atTop
      <4>1. /\ Range(pending') = Range(pending) \union {id}
            /\ \A x, y : Above(pending', x, y) =>
                 \/ x = id /\ y \in Range(pending) \ {id}
                 \/ Above(pending, x, y) /\ x # id /\ y # id
        BY <1>1, <1>2, <1>3, <3>2, <2>p, <2>b
      <4>2. Descending(pending', Nat)
        BY <1>2, <2>7, <4>1 DEF Descending
      <4>3. \A x \in Range(pending'), y \in received' : y \in Range(pending') \/ y < x
        BY <1>1, <1>2, <2>6, <4>1
      <4> QED
        BY <1>1, <2>7, <4>1, <4>2, <4>3 DEF PendingInv
    <3> QED
      BY <1>3, <3>1, <3>2
  <2>9. ASSUME ~staleHead PROVE OrderInv'
    <3>1. OrderInv
      BY <2>9 DEF FeedInv, ListInv
    <3>2. Descending(activities', received' \ Range(pending'))
      <4>1. CASE atTop
        <5>1. \A x, y : Above(activities', x, y) =>
                \/ x = id /\ y \in Range(activities) \ {id}
                \/ Above(activities, x, y) /\ x # id /\ y # id
          BY <1>1, <1>2, <1>3, <4>1, <2>a, <2>b
        <5> QED
          BY <1>2, <2>8, <3>1, <5>1 DEF OrderInv, Descending
      <4>2. CASE ~atTop
        <5>1. received' \ Range(pending') = received \ Range(pending)
          BY <1>1, <1>2, <1>3, <4>2, <2>p, <2>b
        <5> QED
          BY <1>1, <1>8, <3>1, <4>2, <5>1 DEF OrderInv, Descending
      <4> QED
        BY <1>3, <4>1, <4>2
    <3>3. received' \ Shown' \subseteq received \ Shown
      BY <1>1, <2>1
    <3>4. \A i \in received' \ Shown' : \A j \in received' \intersect Shown' : i < j
      BY <1>1, <1>2, <2>1, <3>1, <3>3 DEF OrderInv
    <3> QED
      BY <1>1, <1>2, <1>4, <3>1, <3>2, <3>3, <3>4 DEF OrderInv
  <2>10. ListInv'
    BY <1>1, <1>2, <2>1, <2>5, <2>8, <2>9 DEF FeedInv, ListInv
  <2> QED
    BY <1>5, <1>6, <2>2, <2>3, <2>4, <2>10 DEF FeedInv
<1> QED
  BY <1>3, <1>7, <1>8

-----------------------------------------------------------------------------
(* A page holds every row from its next cursor up to its first row.        *)
LEMMA PageFacts ==
  ASSUME NEW q \in RequestType, IsPage(q)
  PROVE  /\ q.rows \in Seq(Nat) /\ q.next \in Nat /\ q.more \in BOOLEAN
         /\ MaxOf(q.rows) \in Nat /\ q.next <= MaxOf(q.rows)
         /\ \A x \in Nat : x \in Range(q.rows) <=> x # 0 /\ x <= MaxOf(q.rows) /\ x >= q.next
         /\ \A x, y : Above(q.rows, x, y) => x > y
         /\ q.before # 0 => MaxOf(q.rows) = q.before - 1
<1> DEFINE rows == q.rows
           n == Len(rows)
           top == IF rows = <<>> THEN 0 ELSE rows[1]
<1>1. rows \in Seq(Nat) /\ q.next \in Nat /\ q.more \in BOOLEAN /\ q.before \in Nat
  BY DEF RequestType
<1>2. n \in Nat /\ (n = 0 <=> rows = <<>>) /\ top \in Nat
  BY <1>1, EmptySeq
<1>3. /\ n <= top /\ \A k \in 1..n : rows[k] = top + 1 - k
      /\ IF q.next = 0 THEN n = top ELSE n > 0 /\ q.next = top + 1 - n
      /\ q.before # 0 => top = q.before - 1
  BY DEF IsPage
<1>4. n > 0 => rows[1] = top
  BY <1>2
<1> HIDE DEF top, rows
<1>5. q.next <= top
  BY <1>1, <1>2, <1>3
<1>6. ASSUME NEW x \in Nat PROVE x \in Range(rows) <=> x # 0 /\ x <= top /\ x >= q.next
  <2>1. ASSUME x \in Range(rows) PROVE x # 0 /\ x <= top /\ x >= q.next
    <3>1. PICK k \in 1..n : rows[k] = x
      BY <1>1, <2>1, InRange
    <3> QED
      BY <1>1, <1>2, <1>3, <3>1
  <2>2. ASSUME x # 0, x <= top, x >= q.next PROVE x \in Range(rows)
    <3>1. top + 1 - x \in 1..n /\ top + 1 - (top + 1 - x) = x
      BY <1>1, <1>2, <1>3, <2>2
    <3>2. rows[top + 1 - x] = x
      BY <1>3, <3>1
    <3> QED
      BY <1>1, <3>1, <3>2, InRange
  <2> QED
    BY <2>1, <2>2
<1>7. ASSUME NEW x, NEW y, Above(rows, x, y) PROVE x > y
  <2>1. PICK j, k \in 1..n : j < k /\ rows[j] = x /\ rows[k] = y
    BY <1>7 DEF Above
  <2> QED
    BY <1>2, <1>3, <2>1
<1>8. MaxOf(rows) = top
  <2>1. /\ MaxOf(rows) \in Range(rows) \union {0} /\ MaxOf(rows) \in Nat
        /\ \A x \in Range(rows) : x <= MaxOf(rows)
    BY <1>1, MaxOfIs
  <2>2. MaxOf(rows) <= top
    BY <1>2, <1>6, <2>1
  <2>3. top = 0 \/ top \in Range(rows)
    BY <1>2, <1>5, <1>6
  <2> QED
    BY <1>2, <2>1, <2>2, <2>3
<1> QED
  BY <1>1, <1>2, <1>3, <1>5, <1>6, <1>7, <1>8 DEF rows

LEMMA EmptyRange ==
  ASSUME NEW list \in Seq(Nat), Range(list) = {}
  PROVE  list = <<>>
<1>1. Len(list) \in Nat
  OBVIOUS
<1>2. Len(list) = 0
  <2> SUFFICES ASSUME Len(list) # 0 PROVE FALSE
    OBVIOUS
  <2>1. 1 \in 1..Len(list)
    BY <1>1
  <2> QED
    BY <2>1, InRange
<1> QED
  BY <1>2, EmptySeq

LEMMA ScrollToTopFeed ==
  ASSUME FeedInv, ScrollToTop
  PROVE  FeedInv'
<1> DEFINE q == IF needsRefresh /\ request["head"] = NoRequest
                THEN Ask("refresh_head", 0) ELSE request["head"]
<1>1. /\ activities' = Prepend(activities, pending) /\ pending' = <<>> /\ atTop' = TRUE
      /\ IF needsRefresh /\ request["head"] = NoRequest THEN needsRefresh' = FALSE
         ELSE UNCHANGED <<needsRefresh, request>>
      /\ UNCHANGED <<logged, projected, connected, wire, drops, cursor, received, unreplayed,
                     nextCursor, hasMore, loaded, refreshDue, bootstrap, buffered, bootFailed,
                     staleHead>>
  BY DEF ScrollToTop, serverVars, socketVars
<1>2. /\ request \in [{"head", "more"} -> RequestType] /\ needsRefresh \in BOOLEAN
      /\ activities \in Seq(Nat) /\ pending \in Seq(Nat) /\ cursor \in Nat
  BY DEF FeedInv, FeedType
<1>3. request' = [request EXCEPT !["head"] = q]
  <2>1. CASE needsRefresh /\ request["head"] = NoRequest
    BY <2>1 DEF ScrollToTop
  <2>2. CASE ~(needsRefresh /\ request["head"] = NoRequest)
    BY <1>1, <1>2, <2>2
  <2> QED
    BY <2>1, <2>2
<1>4. request["head"] \in RequestType /\ Fits("head", request["head"], nextCursor)
  BY RequestOf
<1>5. /\ Ask("refresh_head", 0) \in RequestType /\ Ask("refresh_head", 0).mode = "refresh_head"
      /\ Ask("refresh_head", 0).before = 0 /\ Ask("refresh_head", 0).stage = "sent"
  BY AskIs
<1>6. q \in RequestType /\ Fits("head", q, nextCursor')
  BY <1>1, <1>4, <1>5 DEF Fits
<1>7. /\ request' \in [{"head", "more"} -> RequestType] /\ RequestInv'
      /\ request'["head"] = q /\ request'["more"] = request["more"]
  BY <1>1, <1>3, <1>6, RequestPart
<1>8. /\ activities' \in Seq(Nat) /\ Range(activities') = Range(activities) \union Range(pending)
      /\ \A x, y : Above(activities', x, y) =>
           \/ Above(pending, x, y)
           \/ x \in Range(pending) /\ y \in Range(activities) \ Range(pending)
           \/ Above(activities, x, y) /\ x \notin Range(pending) /\ y \notin Range(pending)
  BY <1>1, <1>2, PrependIs
<1>9. Shown' = Shown /\ Range(activities') = Shown /\ Range(pending') = {}
  BY <1>1, <1>8, EmptyIs DEF Shown
<1>10. FeedType'
  BY <1>1, <1>2, <1>7, <1>8, EmptyIs DEF FeedInv, FeedType
<1>11. SocketInv'
  BY <1>1 DEF FeedInv, SocketInv
<1>12. BootInv'
  <2>1. request'["head"].mode = "reset" <=> request["head"].mode = "reset"
    BY <1>5, <1>7, NoRequestIs
  <2>2. bootstrap => activities' = <<>> /\ ~needsRefresh /\ ~needsRefresh'
    <3> SUFFICES ASSUME bootstrap PROVE activities' = <<>> /\ ~needsRefresh /\ ~needsRefresh'
      OBVIOUS
    <3>1. activities = <<>> /\ pending = <<>> /\ ~needsRefresh
      BY DEF FeedInv, BootInv
    <3>2. Range(activities') = {}
      BY <1>8, <3>1, EmptyIs
    <3> QED
      BY <1>1, <1>8, <3>1, <3>2, EmptyRange
  <2> QED
    BY <1>1, <1>7, <2>1, <2>2 DEF FeedInv, BootInv
<1>13. RefreshInv'
  <2>1. refreshDue' \/ needsRefresh' => received \intersect Shown # {}
    BY <1>1 DEF FeedInv, RefreshInv
  <2>2. q.mode = "refresh_head" => received \intersect Range(activities') # {}
    BY <1>8, <1>9 DEF FeedInv, RefreshInv
  <2> QED
    BY <1>1, <1>7, <1>9, <2>1, <2>2 DEF RefreshInv
<1>14. ListInv'
  <2>1. ReceivedIsKept' /\ PagesHaveNoHole' /\ 0 \notin Shown'
    BY <1>1, <1>9 DEF FeedInv, ListInv, ReceivedIsKept, PagesHaveNoHole
  <2>2. PendingInv'
    BY <1>1, <1>9, EmptyIs DEF PendingInv, Descending
  <2>3. ASSUME ~staleHead PROVE OrderInv'
    <3>1. OrderInv /\ PendingInv
      BY <2>3 DEF FeedInv, ListInv
    <3>2. Descending(activities', received)
      <4>1. SUFFICES ASSUME NEW x \in received, NEW y \in received, Above(activities', x, y)
                     PROVE  x > y
        BY DEF Descending
      <4>2. x \in Nat /\ y \in Nat
        BY DEF FeedInv, SocketInv
      <4>3. CASE Above(pending, x, y)
        BY <3>1, <4>2, <4>3 DEF PendingInv, Descending
      <4>4. CASE x \in Range(pending) /\ y \notin Range(pending)
        BY <3>1, <4>2, <4>4 DEF PendingInv
      <4>5. CASE Above(activities, x, y) /\ x \notin Range(pending) /\ y \notin Range(pending)
        BY <3>1, <4>2, <4>5 DEF OrderInv, Descending
      <4> QED
        BY <1>8, <4>1, <4>3, <4>4, <4>5
    <3>3. ASSUME cursor = 0
          PROVE  Descending(activities', Nat) /\ Range(activities') = Range(activities)
      <4>1. Range(pending) = {} /\ \A x, y : ~Above(pending, x, y)
        <5>1. Range(pending) = {}
          BY <1>2, <3>1, <3>3 DEF FeedInv, SocketInv, PendingInv
        <5> QED
          BY <1>2, <5>1, AboveInRange
      <4> QED
        BY <1>8, <3>1, <3>3, <4>1 DEF OrderInv, Descending
    <3> QED
      BY <1>1, <1>9, <3>1, <3>2, <3>3 DEF OrderInv
  <2> QED
    BY <1>1, <2>1, <2>2, <2>3 DEF ListInv
<1> QED
  BY <1>7, <1>10, <1>11, <1>12, <1>13, <1>14 DEF FeedInv

-----------------------------------------------------------------------------
(* The first page, or none, opens the list, and what was buffered is put   *)
(* on top of it, or among what is pending.                                 *)
LEMMA AppliedIs ==
  ASSUME FeedInv, bootstrap, NEW list \in Seq(Nat), ApplyBuffered(list, 0)
  PROVE  /\ activities' \in Seq(Nat) /\ pending' \in Seq(Nat) /\ refreshDue' \in BOOLEAN
         /\ Shown' = Range(list) \union received
         /\ refreshDue' => received # {}
         /\ atTop => pending' = <<>>
         /\ Range(pending') \subseteq received
         /\ \A x \in Range(pending'), y \in received : y \in Range(pending')
         /\ Descending(pending', Nat)
         /\ Descending(activities', received \ Range(pending'))
         /\ received = {} => /\ Range(activities') \subseteq Range(list)
                             /\ \A x, y : Above(activities', x, y) => Above(list, x, y)
<1> DEFINE todo == Without(buffered, 1..0)
           all == PrependEach(list, todo)
           some == PrependEach(pending, todo)
<1>1. /\ buffered \in Seq(Nat) /\ atTop \in BOOLEAN /\ refreshDue = FALSE /\ pending = <<>>
      /\ Range(buffered) = received /\ Ascending(buffered)
  BY DEF FeedInv, FeedType, BootInv
<1>2. /\ IF todo = <<>> THEN UNCHANGED refreshDue ELSE refreshDue' \in {refreshDue, TRUE}
      /\ IF atTop THEN activities' = all /\ UNCHANGED pending
                  ELSE pending' = some /\ activities' = list
  BY DEF ApplyBuffered, ScheduleRefresh
<1>3. todo \in Seq(Nat) /\ Range(todo) = received /\ Ascending(todo)
  <2>1. /\ todo \in Seq(Nat) /\ Range(todo) = Range(buffered) \ 1..0
        /\ \A x, y : Above(todo, x, y) => Above(buffered, x, y)
    BY <1>1, WithoutIs
  <2>2. 1..0 = {}
    OBVIOUS
  <2> HIDE DEF todo
  <2>3. Ascending(todo)
    BY <1>1, <2>1 DEF Ascending
  <2> QED
    BY <1>1, <2>1, <2>2, <2>3
<1>4. todo # <<>> => received # {}
  BY <1>3, EmptyRange
<1> HIDE DEF todo
<1>5. /\ all \in Seq(Nat) /\ Range(all) = Range(list) \union received
      /\ \A x, y : Above(all, x, y) =>
           \/ x \in received /\ y \in received /\ x > y
           \/ x \in received /\ y \in Range(list) \ received
           \/ Above(list, x, y) /\ x \notin received /\ y \notin received
  BY <1>3, PrependEachIs
<1>6. /\ some \in Seq(Nat) /\ Range(some) = received
      /\ \A x, y : Above(some, x, y) => x > y
  <2>1. /\ some \in Seq(Nat) /\ Range(some) = Range(pending) \union received
        /\ \A x, y : Above(some, x, y) =>
             \/ x \in received /\ y \in received /\ x > y
             \/ x \in received /\ y \in Range(pending) \ received
             \/ Above(pending, x, y) /\ x \notin received /\ y \notin received
    BY <1>1, <1>3, PrependEachIs, EmptyIs
  <2>2. Range(pending) = {} /\ \A x, y : ~Above(pending, x, y)
    BY <1>1, EmptyIs
  <2> QED
    BY <2>1, <2>2
<1> HIDE DEF all, some
<1>7. refreshDue' \in BOOLEAN /\ (refreshDue' => received # {})
  BY <1>1, <1>2, <1>4
<1>8. CASE atTop
  <2>1. activities' = all /\ pending' = <<>>
    BY <1>1, <1>2, <1>8
  <2>2. Range(pending') = {} /\ Descending(pending', Nat) /\ pending' \in Seq(Nat)
    BY <2>1, EmptyIs DEF Descending
  <2>3. Descending(all, received)
    BY <1>5 DEF Descending
  <2>4. received = {} => /\ Range(all) \subseteq Range(list)
                         /\ \A x, y : Above(all, x, y) => Above(list, x, y)
    BY <1>5
  <2>5. received \ {} = received
    OBVIOUS
  <2> QED
    BY <1>5, <1>7, <1>8, <2>1, <2>2, <2>3, <2>4, <2>5 DEF Shown
<1>9. CASE ~atTop
  <2>1. pending' = some /\ activities' = list
    BY <1>2, <1>9
  <2>2. Descending(some, Nat)
    BY <1>6 DEF Descending
  <2>3. Descending(list, received \ received)
    BY DEF Descending
  <2> QED
    BY <1>6, <1>7, <1>9, <2>1, <2>2, <2>3 DEF Shown
<1> QED
  BY <1>1, <1>8, <1>9

LEMMA AppliedFeed ==
  ASSUME FeedInv, bootstrap, NEW list \in Seq(Nat), ApplyBuffered(list, 0),
         bootstrap' = FALSE, buffered' = <<>>, Done("head"),
         nextCursor' \in Nat, hasMore' \in BOOLEAN, loaded' \in Nat,
         UNCHANGED <<logged, projected, connected, wire, drops, cursor, received, unreplayed,
                     needsRefresh, atTop, bootFailed, staleHead>>,
         \A x, y : Above(list, x, y) => x > y,
         \A i \in Range(list) : i >= nextCursor' /\ i # 0,
         \A i \in 1..loaded' : i >= nextCursor' => i \in Range(list)
  PROVE  FeedInv'
<1>1. /\ activities' \in Seq(Nat) /\ pending' \in Seq(Nat) /\ refreshDue' \in BOOLEAN
      /\ Shown' = Range(list) \union received
      /\ refreshDue' => received # {}
      /\ atTop => pending' = <<>>
      /\ Range(pending') \subseteq received
      /\ \A x \in Range(pending'), y \in received : y \in Range(pending')
      /\ Descending(pending', Nat)
      /\ Descending(activities', received \ Range(pending'))
      /\ received = {} => /\ Range(activities') \subseteq Range(list)
                          /\ \A x, y : Above(activities', x, y) => Above(list, x, y)
  BY AppliedIs
<1>2. request["more"].mode = "none" /\ ~needsRefresh
  BY DEF FeedInv, BootInv
<1>3. Fits("head", NoRequest, nextCursor')
  BY NoRequestIs DEF Fits
<1>4. request' = [request EXCEPT !["head"] = NoRequest]
  BY DEF Done
<1>5. /\ request' \in [{"head", "more"} -> RequestType] /\ RequestInv'
      /\ request'["head"] = NoRequest /\ request'["more"] = request["more"]
  BY <1>2, <1>3, <1>4, NoRequestIs, RequestPart
<1>6. FeedType'
  BY <1>1, <1>5, EmptyIs DEF FeedInv, FeedType
<1>7. SocketInv'
  BY DEF FeedInv, SocketInv
<1>8. BootInv'
  BY <1>1, <1>5, NoRequestIs DEF BootInv
<1>9. RefreshInv'
  BY <1>1, <1>2, <1>5, NoRequestIs DEF RefreshInv
<1>10. ListInv'
  <2>1. ReceivedIsKept'
    BY <1>1 DEF ReceivedIsKept
  <2>2. PagesHaveNoHole'
    BY <1>1 DEF PagesHaveNoHole
  <2>3. PendingInv'
    BY <1>1 DEF PendingInv
  <2>4. OrderInv'
    <3>1. cursor \in Nat /\ (cursor = 0 => received = {})
      BY DEF FeedInv, FeedType, SocketInv
    <3>2. cursor = 0 => /\ Descending(activities', Nat)
                        /\ \A i \in Range(activities') : i >= nextCursor'
      BY <1>1, <3>1 DEF Descending
    <3>3. received \ Shown' = {}
      BY <1>1
    <3> QED
      BY <1>1, <3>2, <3>3 DEF OrderInv
  <2>5. 0 \notin Shown'
    <3>1. 0 \notin received
      BY DEF FeedInv, SocketInv
    <3> QED
      BY <1>1, <3>1
  <2> QED
    BY <2>1, <2>2, <2>3, <2>4, <2>5 DEF ListInv
<1> QED
  BY <1>5, <1>6, <1>7, <1>8, <1>9, <1>10 DEF FeedInv

LEMMA AnswerResetFeed ==
  ASSUME FeedInv, AnswerReset
  PROVE  FeedInv'
<1> DEFINE q == request["head"]
<1>1. /\ q.stage = "answered" /\ q.mode = "reset"
      /\ nextCursor' = q.next /\ hasMore' = q.more /\ loaded' = MaxOf(q.rows)
      /\ ApplyBuffered(q.rows, 0) /\ cursor' = (IF 0 > cursor THEN 0 ELSE cursor)
      /\ bootstrap' = FALSE /\ buffered' = <<>> /\ Done("head")
      /\ UNCHANGED <<logged, projected, connected, wire, drops, received, unreplayed,
                     needsRefresh, atTop, bootFailed, staleHead>>
  BY DEF AnswerReset, Answered, SnapshotLogID, serverVars
<1>2. q \in RequestType /\ Fits("head", q, nextCursor) /\ cursor \in Nat
  BY RequestOf DEF FeedInv, FeedType
<1>3. bootstrap
  BY <1>1 DEF FeedInv, BootInv
<1>4. IsPage(q)
  BY <1>1, <1>2 DEF Fits
<1> HIDE DEF q
<1>5. /\ q.rows \in Seq(Nat) /\ q.next \in Nat /\ q.more \in BOOLEAN /\ MaxOf(q.rows) \in Nat
      /\ \A x \in Nat : x \in Range(q.rows) <=> x # 0 /\ x <= MaxOf(q.rows) /\ x >= q.next
      /\ \A x, y : Above(q.rows, x, y) => x > y
  BY <1>2, <1>4, PageFacts
<1>6. cursor' = cursor
  BY <1>1, <1>2
<1>7. \A i \in Range(q.rows) : i >= nextCursor' /\ i # 0
  <2>1. Range(q.rows) \subseteq Nat
    BY <1>5 DEF Range
  <2> QED
    BY <1>1, <1>5, <2>1
<1>8. \A i \in 1..loaded' : i >= nextCursor' => i \in Range(q.rows)
  BY <1>1, <1>5
<1> QED
  BY <1>1, <1>3, <1>5, <1>6, <1>7, <1>8, AppliedFeed

LEMMA LoseResetFeed ==
  ASSUME FeedInv, LoseReset
  PROVE  FeedInv'
<1>1. /\ request["head"].mode = "reset" /\ ApplyBuffered(activities, 0)
      /\ bootstrap' = FALSE /\ buffered' = <<>> /\ Done("head")
      /\ UNCHANGED <<logged, projected, connected, wire, drops, cursor, received, unreplayed,
                     nextCursor, hasMore, loaded, needsRefresh, atTop, bootFailed, staleHead>>
  BY DEF LoseReset, serverVars, socketVars
<1>2. bootstrap /\ activities = <<>> /\ loaded = 0
  BY <1>1 DEF FeedInv, BootInv
<1>3. nextCursor' \in Nat /\ hasMore' \in BOOLEAN /\ loaded' \in Nat /\ 1..loaded' = {}
  BY <1>1, <1>2 DEF FeedInv, FeedType
<1>4. activities \in Seq(Nat) /\ Range(activities) = {} /\ \A x, y : ~Above(activities, x, y)
  BY <1>2, EmptyIs
<1> QED
  BY <1>1, <1>2, <1>3, <1>4, AppliedFeed

LEMMA RefuseResetFeed ==
  ASSUME FeedInv, RefuseReset
  PROVE  FeedInv'
<1>1. /\ request["head"].mode = "reset" /\ bootstrap' = FALSE /\ bootFailed' = TRUE
      /\ request' = [request EXCEPT !["head"] = NoRequest]
      /\ UNCHANGED <<logged, projected, connected, wire, drops, cursor, received, unreplayed,
                     activities, nextCursor, hasMore, pending, loaded, needsRefresh, refreshDue,
                     buffered, atTop, staleHead>>
  BY DEF RefuseReset, Done, serverVars, socketVars, listVars, refreshVars
<1>2. /\ bootstrap /\ Range(buffered) = received /\ ~needsRefresh /\ ~refreshDue
      /\ request["more"].mode = "none"
  BY <1>1 DEF FeedInv, BootInv
<1>3. Fits("head", NoRequest, nextCursor')
  BY NoRequestIs DEF Fits
<1>4. /\ request' \in [{"head", "more"} -> RequestType] /\ RequestInv'
      /\ request'["head"] = NoRequest /\ request'["more"] = request["more"]
  BY <1>1, <1>2, <1>3, NoRequestIs, RequestPart
<1>5. FeedType'
  BY <1>1, <1>4 DEF FeedInv, FeedType
<1>6. SocketInv'
  BY <1>1 DEF FeedInv, SocketInv
<1>7. BootInv'
  BY <1>1, <1>4, NoRequestIs DEF FeedInv, BootInv
<1>8. RefreshInv'
  BY <1>1, <1>2, <1>4, NoRequestIs DEF RefreshInv
<1>9. ListInv'
  <2>1. ReceivedIsKept'
    BY <1>1, <1>2 DEF ReceivedIsKept
  <2>2. PagesHaveNoHole' /\ PendingInv' /\ (~staleHead' => OrderInv') /\ 0 \notin Shown'
    BY <1>1 DEF FeedInv, ListInv, PagesHaveNoHole, PendingInv, OrderInv, Shown, Descending, Above
  <2> QED
    BY <2>1, <2>2 DEF ListInv
<1> QED
  BY <1>4, <1>5, <1>6, <1>7, <1>8, <1>9 DEF FeedInv

-----------------------------------------------------------------------------
(* A fresh head page joins the top, a further page the bottom of the list. *)
LEMMA AnswerRefreshFeed ==
  ASSUME FeedInv, AnswerRefresh
  PROVE  FeedInv'
<1> DEFINE q == request["head"]
           rows == q.rows
           top == MaxOf(rows)
<1>1. /\ q.stage = "answered" /\ q.mode = "refresh_head"
      /\ activities' = Prepend(activities, rows)
      /\ hasMore' = (hasMore \/ q.more)
      /\ nextCursor' = (IF nextCursor # 0 THEN nextCursor ELSE q.next)
      /\ loaded' = (IF nextCursor # 0 THEN loaded ELSE top)
      /\ staleHead' = (staleHead \/ top < MaxOf(activities))
      /\ request' = [request EXCEPT !["head"] = NoRequest]
      /\ UNCHANGED <<logged, projected, connected, wire, drops, cursor, received, unreplayed,
                     needsRefresh, refreshDue, pending, bootstrap, buffered, atTop, bootFailed>>
  BY DEF AnswerRefresh, Answered, Done, serverVars, socketVars, refreshVars
<1>2. q \in RequestType /\ Fits("head", q, nextCursor)
  BY RequestOf
<1>3. IsPage(q)
  BY <1>1, <1>2 DEF Fits
<1>4. received \intersect Range(activities) # {} /\ bootstrap = FALSE
  BY <1>1 DEF FeedInv, FeedType, BootInv, RefreshInv
<1> HIDE DEF q
<1>5. /\ rows \in Seq(Nat) /\ q.next \in Nat /\ q.more \in BOOLEAN /\ top \in Nat /\ q.next <= top
      /\ \A x \in Nat : x \in Range(rows) <=> x # 0 /\ x <= top /\ x >= q.next
      /\ \A x, y : Above(rows, x, y) => x > y
  BY <1>2, <1>3, PageFacts
<1>6. /\ activities \in Seq(Nat) /\ nextCursor \in Nat /\ loaded \in Nat /\ cursor \in Nat
      /\ staleHead \in BOOLEAN
  BY DEF FeedInv, FeedType
<1>7. /\ MaxOf(activities) \in Nat /\ \A x \in Range(activities) : x <= MaxOf(activities)
  BY <1>6, MaxOfIs
<1> HIDE DEF rows, top
<1>8. /\ activities' \in Seq(Nat) /\ Range(activities') = Range(activities) \union Range(rows)
      /\ \A x, y : Above(activities', x, y) =>
           \/ Above(rows, x, y)
           \/ x \in Range(rows) /\ y \in Range(activities) \ Range(rows)
           \/ Above(activities, x, y) /\ x \notin Range(rows) /\ y \notin Range(rows)
  BY <1>1, <1>5, <1>6, PrependIs
<1>9. Shown' = Shown \union Range(rows)
  BY <1>1, <1>8 DEF Shown
<1>10. nextCursor' = nextCursor \/ request["more"].mode # "append"
  BY <1>1 DEF FeedInv, RequestInv
<1>11. Fits("head", NoRequest, nextCursor')
  BY NoRequestIs DEF Fits
<1>12. /\ request' \in [{"head", "more"} -> RequestType] /\ RequestInv'
       /\ request'["head"] = NoRequest /\ request'["more"] = request["more"]
  BY <1>1, <1>10, <1>11, NoRequestIs, RequestPart
<1>13. FeedType'
  <2>1. nextCursor' \in Nat /\ loaded' \in Nat
    BY <1>1, <1>5, <1>6
  <2>2. hasMore' \in BOOLEAN /\ staleHead' \in BOOLEAN
    BY <1>1
  <2> QED
    BY <1>1, <1>8, <1>12, <2>1, <2>2 DEF FeedInv, FeedType
<1>14. SocketInv'
  BY <1>1 DEF FeedInv, SocketInv
<1>15. BootInv'
  BY <1>1, <1>4, <1>12, NoRequestIs DEF FeedInv, BootInv
<1>16. RefreshInv'
  <2>1. received' \intersect Shown' # {}
    BY <1>1, <1>4, <1>9 DEF Shown
  <2> QED
    BY <1>12, <2>1, NoRequestIs DEF RefreshInv
<1>17. ListInv'
  <2>1. ReceivedIsKept' /\ PendingInv'
    BY <1>1, <1>9 DEF FeedInv, ListInv, ReceivedIsKept, PendingInv, Descending, Above
  <2>2. PagesHaveNoHole'
    <3>1. CASE nextCursor # 0
      BY <1>1, <1>9, <3>1 DEF FeedInv, ListInv, PagesHaveNoHole
    <3>2. CASE nextCursor = 0
      BY <1>1, <1>5, <1>9, <3>2 DEF PagesHaveNoHole
    <3> QED
      BY <3>1, <3>2
  <2>3. 0 \notin Shown'
    BY <1>5, <1>9 DEF FeedInv, ListInv
  <2>4. ASSUME ~staleHead' PROVE OrderInv'
    <3>1. ~staleHead /\ top >= MaxOf(activities)
      <4>1. ~staleHead /\ ~(top < MaxOf(activities))
        BY <1>1, <2>4
      <4> QED
        BY <1>5, <1>7, <4>1
    <3>2. OrderInv
      BY <3>1 DEF FeedInv, ListInv
    <3>3. /\ received \subseteq Nat \ {0} /\ (cursor = 0 => received = {})
      BY DEF FeedInv, SocketInv
    <3>4. \A i \in received \ Shown' : i < q.next /\ i \notin Shown
      <4>1. SUFFICES ASSUME NEW i \in received, i \notin Shown, i \notin Range(rows)
                     PROVE  i < q.next
        BY <1>9
      <4>2. PICK k \in received : k \in Range(activities)
        BY <1>4
      <4>3. i < k /\ k <= top
        BY <1>5, <1>7, <3>1, <3>2, <3>3, <4>1, <4>2 DEF OrderInv, Shown
      <4> QED
        BY <1>5, <3>3, <4>1, <4>3
    <3>5. Descending(activities', received \ Range(pending))
      <4>1. SUFFICES ASSUME NEW x \in received \ Range(pending),
                            NEW y \in received \ Range(pending),
                            Above(activities', x, y)
                     PROVE  x > y
        BY DEF Descending
      <4>2. CASE Above(rows, x, y)
        BY <1>5, <4>2
      <4>3. CASE x \in Range(rows) /\ y \in Range(activities) \ Range(rows)
        <5>1. y <= top /\ y < q.next /\ x >= q.next
          BY <1>5, <1>7, <3>1, <3>3, <4>3
        <5> QED
          BY <1>5, <3>3, <5>1
      <4>4. CASE Above(activities, x, y)
        BY <3>2, <4>4 DEF OrderInv, Descending
      <4> QED
        BY <1>8, <4>1, <4>2, <4>3, <4>4
    <3>6. cursor # 0
      BY <1>4, <3>3
    <3>7. \A i \in received \ Shown' : \A j \in received \intersect Shown' : i < j
      <4>1. SUFFICES ASSUME NEW i \in received \ Shown', NEW j \in received \intersect Shown'
                     PROVE  i < j
        OBVIOUS
      <4>2. CASE j \in Shown
        BY <3>2, <3>4, <4>2 DEF OrderInv
      <4>3. CASE j \in Range(rows)
        BY <1>5, <3>3, <3>4, <4>3
      <4> QED
        BY <1>9, <4>2, <4>3
    <3>8. nextCursor' # 0 => \A i \in received \ Shown' : i < nextCursor'
      BY <1>1, <3>2, <3>4 DEF OrderInv
    <3> QED
      BY <1>1, <3>5, <3>6, <3>7, <3>8 DEF OrderInv
  <2> QED
    BY <2>1, <2>2, <2>3, <2>4 DEF ListInv
<1> QED
  BY <1>12, <1>13, <1>14, <1>15, <1>16, <1>17 DEF FeedInv

LEMMA AnswerMoreFeed ==
  ASSUME FeedInv, AnswerMore
  PROVE  FeedInv'
<1> DEFINE q == request["more"]
           rows == q.rows
           top == MaxOf(rows)
<1>1. /\ q.stage = "answered" /\ q.mode = "append"
      /\ activities' = Extend(activities, rows)
      /\ hasMore' = q.more /\ nextCursor' = q.next
      /\ request' = [request EXCEPT !["more"] = NoRequest]
      /\ UNCHANGED <<logged, projected, connected, wire, drops, cursor, received, unreplayed,
                     needsRefresh, refreshDue, pending, loaded, bootstrap, buffered, atTop,
                     bootFailed, staleHead>>
  BY DEF AnswerMore, Answered, Done, serverVars, socketVars, refreshVars
<1>2. q \in RequestType /\ Fits("more", q, nextCursor)
  BY RequestOf
<1>3. IsPage(q) /\ q.before = nextCursor /\ nextCursor # 0
  BY <1>1, <1>2 DEF Fits
<1>4. bootstrap = FALSE
  BY <1>1 DEF FeedInv, FeedType, BootInv
<1> HIDE DEF q
<1>5. /\ rows \in Seq(Nat) /\ q.next \in Nat /\ q.more \in BOOLEAN /\ top \in Nat /\ q.next <= top
      /\ \A x \in Nat : x \in Range(rows) <=> x # 0 /\ x <= top /\ x >= q.next
      /\ \A x, y : Above(rows, x, y) => x > y
      /\ top = nextCursor - 1
  BY <1>2, <1>3, PageFacts
<1>6. activities \in Seq(Nat) /\ nextCursor \in Nat /\ loaded \in Nat /\ cursor \in Nat
  BY DEF FeedInv, FeedType
<1> HIDE DEF rows, top
<1>7. /\ activities' \in Seq(Nat) /\ Range(activities') = Range(activities) \union Range(rows)
      /\ \A x, y : Above(activities', x, y) =>
           \/ Above(activities, x, y)
           \/ x \in Range(activities) /\ y \in Range(rows) \ Range(activities)
           \/ Above(rows, x, y) /\ x \notin Range(activities) /\ y \notin Range(activities)
  BY <1>1, <1>5, <1>6, ExtendIs
<1>8. Shown' = Shown \union Range(rows)
  BY <1>1, <1>7 DEF Shown
<1>9. Range(rows) \subseteq Nat /\ Range(activities) \subseteq Nat
  BY <1>5, <1>6 DEF Range
<1>10. \A x \in Range(rows) : x < nextCursor /\ x >= q.next /\ x # 0
  BY <1>5, <1>6, <1>9
<1>11. Fits("more", NoRequest, nextCursor')
  BY NoRequestIs DEF Fits
<1>12. /\ request' \in [{"head", "more"} -> RequestType] /\ RequestInv'
       /\ request'["more"] = NoRequest /\ request'["head"] = request["head"]
  BY <1>1, <1>11, NoRequestIs, RequestPart
<1>13. FeedType'
  BY <1>1, <1>5, <1>7, <1>12 DEF FeedInv, FeedType
<1>14. SocketInv'
  BY <1>1 DEF FeedInv, SocketInv
<1>15. BootInv'
  BY <1>1, <1>4, <1>12 DEF FeedInv, BootInv
<1>16. RefreshInv'
  BY <1>1, <1>7, <1>8, <1>12 DEF FeedInv, RefreshInv
<1>17. ListInv'
  <2>1. ReceivedIsKept' /\ PendingInv'
    BY <1>1, <1>8 DEF FeedInv, ListInv, ReceivedIsKept, PendingInv, Descending, Above
  <2>2. PagesHaveNoHole'
    <3>1. SUFFICES ASSUME NEW i \in 1..loaded, i >= q.next PROVE i \in Shown'
      BY <1>1 DEF PagesHaveNoHole
    <3>2. CASE i >= nextCursor
      BY <1>8, <3>2 DEF FeedInv, ListInv, PagesHaveNoHole
    <3>3. CASE ~(i >= nextCursor)
      BY <1>5, <1>6, <1>8, <3>1, <3>3
    <3> QED
      BY <3>2, <3>3
  <2>3. 0 \notin Shown'
    BY <1>8, <1>10 DEF FeedInv, ListInv
  <2>4. ASSUME ~staleHead PROVE OrderInv'
    <3>1. OrderInv
      BY <2>4 DEF FeedInv, ListInv
    <3>2. received \subseteq Nat \ {0}
      BY DEF FeedInv, SocketInv
    <3>3. \A i \in received \ Shown' : i < q.next /\ i \notin Shown
      <4>1. SUFFICES ASSUME NEW i \in received, i \notin Shown, i \notin Range(rows)
                     PROVE  i < q.next
        BY <1>8
      <4>2. i < nextCursor
        BY <1>3, <3>1, <4>1 DEF OrderInv
      <4> QED
        BY <1>5, <1>6, <3>2, <4>1, <4>2
    <3>4. Descending(activities', received \ Range(pending))
      <4>1. SUFFICES ASSUME NEW x \in received \ Range(pending),
                            NEW y \in received \ Range(pending),
                            Above(activities', x, y)
                     PROVE  x > y
        BY DEF Descending
      <4>2. CASE Above(activities, x, y)
        BY <3>1, <4>2 DEF OrderInv, Descending
      <4>3. CASE x \in Range(activities) /\ y \in Range(rows) \ Range(activities)
        <5>1. x \in received \intersect Shown /\ y \in received \ Shown
          BY <4>3 DEF Shown
        <5>2. y < x
          BY <3>1, <5>1 DEF OrderInv
        <5> QED
          BY <3>2, <5>2
      <4>4. CASE Above(rows, x, y)
        BY <1>5, <4>4
      <4> QED
        BY <1>7, <4>1, <4>2, <4>3, <4>4
    <3>5. ASSUME cursor = 0
          PROVE  Descending(activities', Nat) /\ \A i \in Range(activities') : i >= q.next
      <4>1. Descending(activities, Nat) /\ \A i \in Range(activities) : i >= nextCursor
        BY <3>1, <3>5 DEF OrderInv
      <4>2. \A i \in Range(activities') : i >= q.next
        BY <1>5, <1>6, <1>7, <1>9, <1>10, <4>1
      <4>3. SUFFICES ASSUME NEW x \in Nat, NEW y \in Nat, Above(activities', x, y) PROVE x > y
        BY <4>2 DEF Descending
      <4>4. CASE Above(activities, x, y)
        BY <4>1, <4>4 DEF Descending
      <4>5. CASE x \in Range(activities) /\ y \in Range(rows)
        BY <1>6, <1>10, <4>1, <4>5
      <4>6. CASE Above(rows, x, y)
        BY <1>5, <4>6
      <4> QED
        BY <1>7, <4>3, <4>4, <4>5, <4>6
    <3>6. \A i \in received \ Shown' : \A j \in received \intersect Shown' : i < j
      <4>1. SUFFICES ASSUME NEW i \in received \ Shown', NEW j \in received \intersect Shown'
                     PROVE  i < j
        OBVIOUS
      <4>2. CASE j \in Shown
        BY <3>1, <3>3, <4>2 DEF OrderInv
      <4>3. CASE j \in Range(rows)
        BY <1>5, <1>10, <3>2, <3>3, <4>3
      <4> QED
        BY <1>8, <4>2, <4>3
    <3> QED
      BY <1>1, <3>3, <3>4, <3>5, <3>6 DEF OrderInv
  <2> QED
    BY <1>1, <2>1, <2>2, <2>3, <2>4 DEF ListInv
<1> QED
  BY <1>12, <1>13, <1>14, <1>15, <1>16, <1>17 DEF FeedInv

-----------------------------------------------------------------------------
LEMMA StutterFeed ==
  ASSUME FeedInv, UNCHANGED feedVars
  PROVE  FeedInv'
<1>1. UNCHANGED <<logged, projected, serverVars, socketVars, listVars, refreshVars, bootstrap,
                  buffered, atTop, request, bootFailed, staleHead>>
  BY DEF feedVars, serverVars
<1>2. FeedType'
  BY <1>1 DEF FeedInv, FeedType, socketVars, listVars, refreshVars
<1>3. SocketInv'
  BY <1>1 DEF FeedInv, SocketInv, socketVars
<1>4. (RequestInv /\ BootInv /\ ListInv /\ RefreshInv)'
  BY <1>1, PageSame DEF socketVars
<1> QED
  BY <1>2, <1>3, <1>4 DEF FeedInv

LEMMA NextFeed ==
  ASSUME FeedInv, [FeedNext]_feedVars
  PROVE  FeedInv'
<1>1. CASE Log \/ Project \/ Subscribe \/ Disconnect \/ Receive
  BY <1>1, LogFeed, ProjectFeed, SubscribeFeed, DisconnectFeed, ReceiveFeed
<1>2. CASE Refresh \/ ScrollAway \/ ScrollToTop \/ LoadMore
  BY <1>2, RefreshFeed, ScrollAwayFeed, ScrollToTopFeed, LoadMoreFeed
<1>3. CASE \E r \in {"head", "more"} : LoadCheckpoint(r) \/ ReadPage(r) \/ LosePage(r)
  BY <1>3, LoadCheckpointFeed, ReadPageFeed, LosePageFeed
<1>4. CASE AnswerReset \/ RefuseReset \/ LoseReset \/ AnswerRefresh \/ AnswerMore
  BY <1>4, AnswerResetFeed, RefuseResetFeed, LoseResetFeed, AnswerRefreshFeed, AnswerMoreFeed
<1>5. CASE UNCHANGED feedVars
  BY <1>5, StutterFeed
<1> QED
  BY <1>1, <1>2, <1>3, <1>4, <1>5 DEF FeedNext

(* The page's list, its pending and its buffered activities, its cursor    *)
(* and the socket fit together in every state: the inductive invariant.    *)
THEOREM FeedInvariant == FeedSpec => []FeedInv
<1>1. FeedInit => FeedInv
  BY InitFeed
<1>2. FeedInv /\ [FeedNext]_feedVars => FeedInv'
  BY NextFeed
<1> QED
  BY <1>1, <1>2, PTL DEF FeedSpec

(* enqueueRealtimeActivity, mergeActivities and the bootstrap buffer drop  *)
(* nothing that the socket delivered, unless the first page was refused.   *)
THEOREM ReceivedStays == FeedSpec => []ReceivedIsKept
<1>1. FeedInv => ReceivedIsKept
  BY DEF FeedInv, ListInv
<1> QED
  BY <1>1, FeedInvariant, PTL

(* The keyset cursor of ListActivityPageByMint makes each page continue    *)
(* the one before, whatever is prepended in the meantime.                  *)
THEOREM PagesAreContiguous == FeedSpec => []PagesHaveNoHole
<1>1. FeedInv => PagesHaveNoHole
  BY DEF FeedInv, ListInv
<1> QED
  BY <1>1, FeedInvariant, PTL

(* A replay from since_log_id closes the gap of a lost connection: an open *)
(* socket loses only what was logged before a subscription without cursor. *)
THEOREM NothingLostWhileOpen == FeedSpec => []NoLossOnceSubscribed
<1>1. FeedInv => NoLossOnceSubscribed
  <2> SUFFICES ASSUME FeedInv, connected, NEW i \in 1..logged, i \notin unreplayed
               PROVE  AccountedFor(i)
    BY DEF NoLossOnceSubscribed
  <2>1. /\ logged \in Nat /\ cursor \in 0..logged /\ wire \in Seq(Nat) /\ Len(wire) \in Nat
    BY DEF FeedInv, FeedType
  <2>2. /\ Len(wire) <= logged /\ \A k \in 1..Len(wire) : wire[k] = logged - Len(wire) + k
        /\ IF cursor = 0 THEN unreplayed = 1..(logged - Len(wire)) ELSE cursor = logged - Len(wire)
        /\ received = (1..cursor) \ unreplayed
    BY DEF FeedInv, SocketInv
  <2>3. CASE i > logged - Len(wire)
    <3>1. i - (logged - Len(wire)) \in 1..Len(wire)
      BY <2>1, <2>2, <2>3
    <3>2. wire[i - (logged - Len(wire))] = i
      BY <2>1, <2>2, <3>1
    <3>3. i \in Range(wire)
      BY <2>1, <3>1, <3>2, InRange
    <3> QED
      BY <3>3 DEF AccountedFor
  <2>4. CASE ~(i > logged - Len(wire))
    <3>1. i \in received
      BY <2>1, <2>2, <2>4
    <3> QED
      BY <3>1 DEF FeedInv, ListInv, ReceivedIsKept, AccountedFor
  <2> QED
    BY <2>3, <2>4
<1> QED
  BY <1>1, FeedInvariant, PTL

(* mergeActivities keeps what the socket delivered newest first, with the  *)
(* pages it is merged with, unless a stale head page was put on top.       *)
THEOREM ListIsNewestFirst == FeedSpec => []NewestFirst
<1>1. FeedInv => NewestFirst
  <2> SUFFICES ASSUME FeedInv, ~staleHead, pending = <<>>,
                      cursor = 0 \/ MaxOf(activities) <= cursor,
                      NEW j \in 1..Len(activities), NEW k \in 1..Len(activities), j < k,
                      {activities[j], activities[k]} \intersect unreplayed = {}
               PROVE  activities[j] > activities[k]
    BY DEF NewestFirst
  <2> DEFINE x == activities[j]
             y == activities[k]
  <2>1. activities \in Seq(Nat) /\ cursor \in Nat
    BY DEF FeedInv, FeedType
  <2>2. Above(activities, x, y)
    BY DEF Above
  <2>3. x \in Range(activities) /\ y \in Range(activities) /\ x \in Nat /\ y \in Nat
    BY <2>1, InRange
  <2>4. x \notin unreplayed /\ y \notin unreplayed
    OBVIOUS
  <2>5. OrderInv
    BY DEF FeedInv, ListInv
  <2> HIDE DEF x, y
  <2>6. CASE cursor = 0
    BY <2>2, <2>3, <2>5, <2>6 DEF OrderInv, Descending, x, y
  <2>7. CASE MaxOf(activities) <= cursor
    <3>1. /\ MaxOf(activities) \in Nat /\ \A z \in Range(activities) : z <= MaxOf(activities)
      BY <2>1, MaxOfIs
    <3>2. x # 0 /\ y # 0
      BY <2>3 DEF FeedInv, ListInv, Shown
    <3>3. x \in 1..cursor /\ y \in 1..cursor
      BY <2>1, <2>3, <2>7, <3>1, <3>2
    <3>4. x \in received \ Range(pending) /\ y \in received \ Range(pending)
      BY <2>4, <3>3, EmptyIs DEF FeedInv, SocketInv
    <3> QED
      BY <2>2, <2>5, <3>4 DEF OrderInv, Descending, x, y
  <2> QED
    BY <2>6, <2>7
<1> QED
  BY <1>1, FeedInvariant, PTL
=============================================================================
