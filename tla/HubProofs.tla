----------------------------- MODULE HubProofs -----------------------------
(***************************************************************************)
(* Theorems about Hub, for every number of subscriptions, topics,          *)
(* publishers and callers and every buffer size.  HubInv is the inductive  *)
(* invariant: the properties of Hub, and what they rest on.                *)
(***************************************************************************)
EXTENDS Hub, TLAPS

(* The write lock is exclusive; only a publisher that evicts holds it      *)
(* between two steps.                                                      *)
LockInv ==
  \A p \in Publishers :
    /\ pc[p] = "marking" <=> writer = p
    /\ pc[p] = "sending" => writer = None

(* A registered subscription is open, and registered where it was created. *)
RegisteredInv ==
  \A t \in Topics : \A s \in subscribers[t] :
    s \in created /\ topicOf[s] = t /\ ~closed[s] /\ ~eventsClosed[s]

(* The flags say what has been done to the channels, and are set only      *)
(* after the subscription exists.                                          *)
FlagsInv ==
  \A s \in Subs :
    /\ closed[s] \/ overflowed[s] => s \in created
    /\ eventsClosed[s] <=> closed[s] \/ overflowed[s]
    /\ overflowClosed[s] <=> closed[s]

(* A subscription that is about to be closed is registered nowhere.        *)
ClosingInv ==
  \A c \in Callers : closing[c] # None =>
    closing[c] \in created /\ \A t \in Topics : closing[c] \notin subscribers[t]

(* What a publisher knows of the subscribers of its topic.                 *)
PublisherInv ==
  \A p \in Publishers :
    /\ pc[p] # "idle" => topic[p] \in Topics
    /\ pc[p] # "sending" => pending[p] = {}
    /\ pc[p] = "idle" => dropped[p] = {}
    /\ pc[p] = "sending" =>
         /\ pending[p] \union dropped[p] \subseteq subscribers[topic[p]]
         /\ pending[p] \intersect dropped[p] = {}
    /\ \A s \in dropped[p] : s \in created /\ topicOf[s] = topic[p]

(* A subscription that missed an event of p is either still in the local   *)
(* slice of p or out of the hub for good.                                  *)
MissedInv ==
  \A s \in Subs : \A e \in missed[s] :
    \/ s \in dropped[e[1]]
    \/ s \in created /\ \A t \in Topics : s \notin subscribers[t]

(* Events enter a channel once, in the order of their publisher.           *)
AcceptedInv ==
  \A s \in Subs : \A f \in accepted[s] :
    /\ f[2] <= last[f[1]]
    /\ s \in pending[f[1]] => f[2] < last[f[1]]

HubInv ==
  /\ TypeOK /\ LockInv /\ RegisteredInv /\ FlagsInv /\ ClosingInv
  /\ PublisherInv /\ MissedInv /\ AcceptedInv
  /\ NoPanic /\ EveryoneOffered /\ NoSilentLoss /\ NoGapPerPublisher
-----------------------------------------------------------------------------
(* Subscribe registers a subscription that was never registered before.    *)
LEMMA SubscribePreserves ==
  ASSUME HubInv, NEW s \in Subs, NEW t \in Topics, Subscribe(s, t)
  PROVE  HubInv'
<1> USE DEF HubInv, Subscribe, CanLock, Readers
<1>1. TypeOK'
  BY HubAssumption DEF TypeOK, subVars, pubVars, history
<1>2. RegisteredInv'
  BY DEF RegisteredInv, TypeOK, FlagsInv, subVars, pubVars, history
<1>3. ClosingInv'
  BY DEF ClosingInv, TypeOK, subVars, pubVars, history
<1>4. PublisherInv'
  BY DEF PublisherInv, TypeOK, subVars, pubVars, history
<1>5. MissedInv'
  BY DEF MissedInv, TypeOK, PublisherInv, subVars, pubVars, history
<1>6. EveryoneOffered'
  BY DEF EveryoneOffered, TypeOK, subVars, pubVars, history
<1>7. /\ (LockInv /\ FlagsInv /\ AcceptedInv)'
      /\ (NoPanic /\ NoSilentLoss /\ NoGapPerPublisher)'
  BY DEF LockInv, FlagsInv, AcceptedInv, NoPanic, NoSilentLoss,
         NoGapPerPublisher, Readers, Current, subVars, pubVars, history
<1>8. QED
  BY <1>1, <1>2, <1>3, <1>4, <1>5, <1>6, <1>7

(* Unsubscribe takes a subscription out of every topic.                    *)
LEMMA RemovePreserves ==
  ASSUME HubInv, NEW c \in Callers, NEW s \in Subs, Remove(c, s)
  PROVE  HubInv'
<1> USE DEF HubInv, Remove, CanLock, Readers
<1>1. TypeOK'
  BY HubAssumption DEF TypeOK, subVars, pubVars, history
<1>2. RegisteredInv'
  BY HubAssumption DEF RegisteredInv, TypeOK, subVars, pubVars, history
<1>3. ClosingInv'
  BY HubAssumption DEF ClosingInv, TypeOK, subVars, pubVars, history
<1>4. PublisherInv'
  BY HubAssumption DEF PublisherInv, TypeOK, subVars, pubVars, history
<1>5. MissedInv'
  BY HubAssumption DEF MissedInv, TypeOK, subVars, pubVars, history
<1>6. EveryoneOffered'
  BY HubAssumption DEF EveryoneOffered, TypeOK, subVars, pubVars, history
<1>7. /\ (LockInv /\ FlagsInv /\ AcceptedInv)'
      /\ (NoPanic /\ NoSilentLoss /\ NoGapPerPublisher)'
  BY DEF LockInv, FlagsInv, AcceptedInv, NoPanic, NoSilentLoss,
         NoGapPerPublisher, Readers, Current, subVars, pubVars, history
<1>8. QED
  BY <1>1, <1>2, <1>3, <1>4, <1>5, <1>6, <1>7

(* Closing after Unsubscribe touches a subscription no publisher can reach.*)
LEMMA ClosePreserves ==
  ASSUME HubInv, NEW c \in Callers, Close(c)
  PROVE  HubInv'
<1> DEFINE s == closing[c]
<1> USE DEF HubInv
<1>1. /\ s \in Subs /\ s \in created
      /\ \A t \in Topics : s \notin subscribers[t]
  BY DEF Close, TypeOK, ClosingInv
<1>2. /\ closing' = [closing EXCEPT ![c] = None]
      /\ UNCHANGED <<subscribers, writer, created, topicOf, queue, signal,
                     overflowed, pubVars, history>>
  BY DEF Close
<1>3. ClosingInv' /\ closing' \in [Callers -> Subs \union {None}]
  BY <1>2 DEF ClosingInv, TypeOK
<1>4. /\ (LockInv /\ PublisherInv /\ MissedInv)'
      /\ (AcceptedInv /\ EveryoneOffered /\ NoGapPerPublisher)'
  BY <1>2 DEF LockInv, PublisherInv, MissedInv, AcceptedInv, EveryoneOffered,
              NoGapPerPublisher, Readers, Current, pubVars, history
<1> HIDE DEF s
<1>5. CASE CloseChannels(s)
  <2>1. /\ ~closed[s]
        /\ closed' = [closed EXCEPT ![s] = TRUE]
        /\ overflowClosed' = [overflowClosed EXCEPT ![s] = TRUE]
    BY <1>5 DEF CloseChannels
  <2>2. eventsClosed' = [eventsClosed EXCEPT ![s] = TRUE]
    <3>1. overflowed[s] => eventsClosed[s]
      BY <1>1 DEF FlagsInv
    <3>2. eventsClosed[s] => eventsClosed = [eventsClosed EXCEPT ![s] = TRUE]
      BY <1>1 DEF TypeOK
    <3>3. QED
      BY <1>5, <3>1, <3>2 DEF CloseChannels, ClosesEvents
  <2>3. NoPanic' /\ panicked' \in BOOLEAN
    BY <1>1, <1>5, <2>1 DEF CloseChannels, ClosesEvents, FlagsInv, NoPanic
  <2>4. TypeOK'
    BY <1>2, <1>3, <2>1, <2>2, <2>3 DEF TypeOK, pubVars, history
  <2>5. RegisteredInv'
    BY <1>1, <1>2, <2>1, <2>2 DEF RegisteredInv, TypeOK
  <2>6. FlagsInv'
    BY <1>1, <1>2, <2>1, <2>2 DEF FlagsInv, TypeOK
  <2>7. NoPanic' /\ NoSilentLoss'
    BY <1>1, <1>2, <2>1, <2>3 DEF NoPanic, NoSilentLoss, TypeOK, pubVars, history
  <2>8. QED
    BY <1>3, <1>4, <2>4, <2>5, <2>6, <2>7
<1>6. CASE UNCHANGED <<closed, eventsClosed, overflowClosed, panicked>>
  BY <1>2, <1>3, <1>4, <1>6
     DEF TypeOK, RegisteredInv, FlagsInv, NoPanic, NoSilentLoss, pubVars,
         history
<1>7. QED
  BY <1>5, <1>6 DEF Close, s

(* A publisher starts with every subscriber of the topic pending.          *)
LEMMA PublishBeginPreserves ==
  ASSUME HubInv, NEW p \in Publishers, NEW t \in Topics, NEW n \in Nat,
         PublishBegin(p, t, n)
  PROVE  HubInv'
<1> USE DEF HubInv, PublishBegin, CanRLock
<1>1. TypeOK'
  BY HubAssumption DEF TypeOK, subVars, pubVars, history
<1>2. LockInv'
  BY DEF LockInv, TypeOK, subVars, pubVars, history
<1>3. PublisherInv'
  BY DEF PublisherInv, TypeOK, subVars, pubVars, history
<1>4. AcceptedInv'
  BY DEF AcceptedInv, TypeOK, Event, PublisherInv, subVars, pubVars, history
<1>5. EveryoneOffered'
  BY DEF EveryoneOffered, TypeOK, Readers, Current, subVars, pubVars, history
<1>6. /\ (RegisteredInv /\ FlagsInv /\ ClosingInv)'
      /\ (MissedInv /\ NoPanic /\ NoSilentLoss)'
      /\ (NoGapPerPublisher)'
  BY DEF RegisteredInv, FlagsInv, ClosingInv, MissedInv, NoPanic,
         NoSilentLoss, NoGapPerPublisher, Readers, Current, subVars, pubVars,
         history
<1>7. QED
  BY <1>1, <1>2, <1>3, <1>4, <1>5, <1>6

(* A send reaches an open channel, or leaves the event to be told.         *)
LEMMA SendPreserves ==
  ASSUME HubInv, NEW p \in Publishers, NEW s \in Subs, Send(p, s)
  PROVE  HubInv'
<1> USE DEF HubInv
<1>1. /\ pc[p] = "sending"
      /\ s \in pending[p]
      /\ pending' = [pending EXCEPT ![p] = @ \ {s}]
      /\ UNCHANGED <<subscribers, writer, created, topicOf, eventsClosed, signal,
                     overflowClosed, closed, overflowed, pc, topic, last,
                     closing>>
  BY DEF Send
<1>2. /\ topic[p] \in Topics
      /\ s \in subscribers[topic[p]]
      /\ s \notin dropped[p]
      /\ topicOf[s] = topic[p] /\ s \in created /\ ~eventsClosed[s]
  BY <1>1 DEF PublisherInv, RegisteredInv
<1>3. Current(p) \in Event /\ Current(p)[1] = p /\ Current(p)[2] = last[p]
  BY DEF TypeOK, Event, Current
<1>4. NoPanic' /\ panicked' \in BOOLEAN
  BY <1>2 DEF Send, NoPanic
<1>5. (LockInv /\ RegisteredInv /\ FlagsInv /\ ClosingInv)'
  BY <1>1 DEF LockInv, RegisteredInv, FlagsInv, ClosingInv
<1>6. pending' \in [Publishers -> SUBSET Subs]
  BY <1>1 DEF TypeOK
<1>7. \A e \in missed[s] : e[1] # p
  BY <1>2 DEF MissedInv
<1>8. \A f \in accepted[s] : f[1] = p => f[2] < last[p]
  BY <1>1 DEF AcceptedInv
<1>9. CASE Accept(p, s)
  <2>1. /\ Len(queue[s]) < Buffer
        /\ queue' = [queue EXCEPT ![s] = Append(@, Current(p))]
        /\ accepted' = [accepted EXCEPT ![s] = @ \union {Current(p)}]
        /\ UNCHANGED <<dropped, missed>>
    BY <1>9 DEF Accept
  <2>2. /\ queue' \in [Subs -> Seq(Event)]
        /\ \A x \in Subs : Len(queue'[x]) <= Buffer
    <3>1. queue[s] \in Seq(Event)
      BY DEF TypeOK
    <3>2. /\ Append(queue[s], Current(p)) \in Seq(Event)
          /\ Len(Append(queue[s], Current(p))) <= Buffer
      BY <1>3, <2>1, <3>1, HubAssumption
    <3>3. QED
      BY <2>1, <3>2 DEF TypeOK
  <2>3. TypeOK'
    BY <1>1, <1>3, <1>4, <1>6, <2>1, <2>2 DEF TypeOK
  <2>4. PublisherInv'
    BY <1>1, <2>1 DEF PublisherInv, TypeOK
  <2>5. MissedInv' /\ NoSilentLoss'
    BY <1>1, <2>1 DEF MissedInv, NoSilentLoss
  <2>6. AcceptedInv'
    BY <1>1, <1>3, <2>1 DEF AcceptedInv, TypeOK, Event
  <2>7. EveryoneOffered'
    BY <1>1, <2>1 DEF EveryoneOffered, TypeOK, Readers, Current
  <2>8. NoGapPerPublisher'
    BY <1>3, <1>7, <2>1 DEF NoGapPerPublisher, TypeOK
  <2>9. QED
    BY <1>4, <1>5, <2>3, <2>4, <2>5, <2>6, <2>7, <2>8
<1>10. CASE Drop(p, s)
  <2>1. /\ dropped' = [dropped EXCEPT ![p] = @ \union {s}]
        /\ missed' = [missed EXCEPT ![s] = @ \union {Current(p)}]
        /\ UNCHANGED <<queue, accepted>>
    BY <1>10 DEF Drop
  <2>2. TypeOK'
    BY <1>1, <1>3, <1>4, <1>6, <2>1 DEF TypeOK
  <2>3. PublisherInv'
    BY <1>1, <1>2, <2>1 DEF PublisherInv, TypeOK
  <2>4. MissedInv'
    BY <1>1, <1>3, <2>1 DEF MissedInv, TypeOK, Event
  <2>5. NoSilentLoss'
    BY <1>1, <2>1 DEF NoSilentLoss, TypeOK
  <2>6. AcceptedInv'
    BY <1>1, <2>1 DEF AcceptedInv, TypeOK, Event
  <2>7. EveryoneOffered'
    BY <1>1, <2>1 DEF EveryoneOffered, TypeOK, Readers, Current
  <2>8. NoGapPerPublisher'
    BY <1>3, <1>8, <2>1 DEF NoGapPerPublisher, TypeOK
  <2>9. QED
    BY <1>4, <1>5, <2>2, <2>3, <2>4, <2>5, <2>6, <2>7, <2>8
<1>11. QED
  BY <1>9, <1>10 DEF Send

(* Releasing the read lock leaves the evictions to do.                     *)
LEMMA PublishRUnlockPreserves ==
  ASSUME HubInv, NEW p \in Publishers, PublishRUnlock(p)
  PROVE  HubInv'
<1> USE DEF HubInv, PublishRUnlock
<1>1. TypeOK'
  BY HubAssumption DEF TypeOK, subVars, pubVars, history
<1>2. LockInv'
  BY DEF LockInv, TypeOK, subVars, pubVars, history
<1>3. PublisherInv'
  BY DEF PublisherInv, TypeOK, subVars, pubVars, history
<1>4. EveryoneOffered'
  BY DEF EveryoneOffered, TypeOK, Readers, Current, subVars, pubVars, history
<1>5. /\ (RegisteredInv /\ FlagsInv /\ ClosingInv)'
      /\ (MissedInv /\ AcceptedInv /\ NoPanic)'
      /\ (NoSilentLoss /\ NoGapPerPublisher)'
  BY DEF RegisteredInv, FlagsInv, ClosingInv, MissedInv, AcceptedInv, NoPanic,
         NoSilentLoss, NoGapPerPublisher, Readers, Current, subVars, pubVars,
         history
<1>6. QED
  BY <1>1, <1>2, <1>3, <1>4, <1>5

(* The write lock is taken only when no publisher sends.                   *)
LEMMA PublishLockPreserves ==
  ASSUME HubInv, NEW p \in Publishers, PublishLock(p)
  PROVE  HubInv'
<1> USE DEF HubInv, PublishLock, CanLock, Readers
<1>1. TypeOK'
  BY HubAssumption DEF TypeOK, subVars, pubVars, history
<1>2. LockInv'
  BY HubAssumption DEF LockInv, TypeOK, subVars, pubVars, history
<1>3. PublisherInv'
  BY DEF PublisherInv, TypeOK, subVars, pubVars, history
<1>4. EveryoneOffered'
  BY DEF EveryoneOffered, TypeOK, Current, subVars, pubVars, history
<1>5. /\ (RegisteredInv /\ FlagsInv /\ ClosingInv)'
      /\ (MissedInv /\ AcceptedInv /\ NoPanic)'
      /\ (NoSilentLoss /\ NoGapPerPublisher)'
  BY DEF RegisteredInv, FlagsInv, ClosingInv, MissedInv, AcceptedInv, NoPanic,
         NoSilentLoss, NoGapPerPublisher, Readers, Current, subVars, pubVars,
         history
<1>6. QED
  BY <1>1, <1>2, <1>3, <1>4, <1>5

(* Evicting marks the subscription at most once and removes it for good.   *)
LEMMA EvictPreserves ==
  ASSUME HubInv, NEW p \in Publishers, NEW s \in Subs, Evict(p, s)
  PROVE  HubInv'
<1> USE DEF HubInv
<1>1. /\ pc[p] = "marking"
      /\ s \in dropped[p]
      /\ dropped' = [dropped EXCEPT ![p] = @ \ {s}]
      /\ subscribers' = [subscribers EXCEPT ![topic[p]] = @ \ {s}]
      /\ UNCHANGED <<writer, created, topicOf, queue, overflowClosed, closed, pc,
                     topic, pending, last, closing, history>>
  BY DEF Evict
<1>2. /\ topic[p] \in Topics
      /\ s \in created
      /\ \A t \in Topics : s \notin subscribers'[t]
  BY <1>1 DEF PublisherInv, RegisteredInv, TypeOK
<1>3. \A q \in Publishers : pc[q] # "sending"
  BY <1>1, HubAssumption DEF LockInv
<1>4. /\ subscribers' \in [Topics -> SUBSET Subs]
      /\ dropped' \in [Publishers -> SUBSET Subs]
  BY <1>1 DEF TypeOK
<1>5. LockInv' /\ AcceptedInv' /\ NoGapPerPublisher'
  BY <1>1 DEF LockInv, AcceptedInv, NoGapPerPublisher, history
<1>6. ClosingInv'
  BY <1>1, <1>2 DEF ClosingInv, TypeOK
<1>7. PublisherInv'
  BY <1>1, <1>3 DEF PublisherInv, TypeOK
<1>8. MissedInv'
  BY <1>1, <1>2 DEF MissedInv, TypeOK, Event, history
<1>9. EveryoneOffered'
  BY <1>1, <1>3 DEF EveryoneOffered, Readers
<1>10. CASE MarkOverflow(s)
  <2>1. /\ ~closed[s] /\ ~overflowed[s]
        /\ overflowed' = [overflowed EXCEPT ![s] = TRUE]
        /\ signal' = [signal EXCEPT ![s] = TRUE]
        /\ eventsClosed' = [eventsClosed EXCEPT ![s] = TRUE]
    BY <1>10 DEF MarkOverflow, Markable
  <2>2. NoPanic' /\ panicked' \in BOOLEAN
    BY <1>10, <2>1 DEF MarkOverflow, FlagsInv, NoPanic
  <2>3. TypeOK'
    BY <1>1, <1>4, <2>1, <2>2 DEF TypeOK, history
  <2>4. RegisteredInv'
    BY <1>1, <1>2, <2>1 DEF RegisteredInv, TypeOK
  <2>5. FlagsInv'
    BY <1>1, <1>2, <2>1 DEF FlagsInv, TypeOK
  <2>6. NoPanic' /\ NoSilentLoss'
    BY <1>1, <2>1, <2>2 DEF NoPanic, NoSilentLoss, TypeOK, history
  <2>7. QED
    BY <1>5, <1>6, <1>7, <1>8, <1>9, <2>3, <2>4, <2>5, <2>6
<1>11. CASE ~Markable(s) /\ UNCHANGED <<overflowed, panicked, signal, eventsClosed>>
  <2>1. TypeOK'
    BY <1>1, <1>4, <1>11 DEF TypeOK, history
  <2>2. RegisteredInv' /\ FlagsInv' /\ NoPanic'
    BY <1>1, <1>11 DEF RegisteredInv, FlagsInv, NoPanic, TypeOK
  <2>3. NoSilentLoss'
    BY <1>1, <1>11 DEF NoSilentLoss, Markable, TypeOK, history
  <2>4. QED
    BY <1>5, <1>6, <1>7, <1>8, <1>9, <2>1, <2>2, <2>3
<1>12. QED
  BY <1>10, <1>11 DEF Evict

(* Releasing the write lock ends the Publish.                              *)
LEMMA PublishUnlockPreserves ==
  ASSUME HubInv, NEW p \in Publishers, PublishUnlock(p)
  PROVE  HubInv'
<1> USE DEF HubInv, PublishUnlock
<1>1. TypeOK'
  BY HubAssumption DEF TypeOK, subVars, pubVars, history
<1>2. LockInv'
  BY HubAssumption DEF LockInv, TypeOK, subVars, pubVars, history
<1>3. PublisherInv'
  BY DEF PublisherInv, TypeOK, subVars, pubVars, history
<1>4. EveryoneOffered'
  BY DEF EveryoneOffered, TypeOK, Readers, Current, subVars, pubVars, history
<1>5. /\ (RegisteredInv /\ FlagsInv /\ ClosingInv)'
      /\ (MissedInv /\ AcceptedInv /\ NoPanic)'
      /\ (NoSilentLoss /\ NoGapPerPublisher)'
  BY DEF RegisteredInv, FlagsInv, ClosingInv, MissedInv, AcceptedInv, NoPanic,
         NoSilentLoss, NoGapPerPublisher, Readers, Current, subVars, pubVars,
         history
<1>6. QED
  BY <1>1, <1>2, <1>3, <1>4, <1>5

(* A consumer only shortens its own queue.                                 *)
LEMMA ReceivePreserves ==
  ASSUME HubInv, NEW s \in Subs, Receive(s)
  PROVE  HubInv'
<1> USE DEF HubInv, Receive
<1>1. TypeOK'
  BY HubAssumption DEF TypeOK, subVars, pubVars, history
<1>2. /\ (LockInv /\ RegisteredInv /\ FlagsInv)'
      /\ (ClosingInv /\ PublisherInv /\ MissedInv)'
      /\ (AcceptedInv /\ NoPanic /\ EveryoneOffered)'
      /\ (NoSilentLoss /\ NoGapPerPublisher)'
  BY DEF LockInv, RegisteredInv, FlagsInv, ClosingInv, PublisherInv,
         MissedInv, AcceptedInv, NoPanic, EveryoneOffered, NoSilentLoss,
         NoGapPerPublisher, Readers, Current, subVars, pubVars, history
<1>3. QED
  BY <1>1, <1>2

(* A consumer only empties its own Overflow channel.                       *)
LEMMA TakeSignalPreserves ==
  ASSUME HubInv, NEW s \in Subs, TakeSignal(s)
  PROVE  HubInv'
<1> USE DEF HubInv, TakeSignal
<1>1. TypeOK'
  BY HubAssumption DEF TypeOK, subVars, pubVars, history
<1>2. /\ (LockInv /\ RegisteredInv /\ FlagsInv)'
      /\ (ClosingInv /\ PublisherInv /\ MissedInv)'
      /\ (AcceptedInv /\ NoPanic /\ EveryoneOffered)'
      /\ (NoSilentLoss /\ NoGapPerPublisher)'
  BY DEF LockInv, RegisteredInv, FlagsInv, ClosingInv, PublisherInv,
         MissedInv, AcceptedInv, NoPanic, EveryoneOffered, NoSilentLoss,
         NoGapPerPublisher, Readers, Current, subVars, pubVars, history
<1>3. QED
  BY <1>1, <1>2

(* The initial state satisfies the invariant.                              *)
LEMMA InitHubInv == Init => HubInv
<1> SUFFICES ASSUME Init PROVE HubInv
  OBVIOUS
<1> USE HubAssumption DEF Init
<1>1. TypeOK
  <2>1. <<>> \in Seq(Event) /\ Len(<<>>) <= Buffer
    OBVIOUS
  <2>2. queue \in [Subs -> Seq(Event)] /\ \A s \in Subs : Len(queue[s]) <= Buffer
    BY <2>1
  <2>3. QED
    BY <2>2 DEF TypeOK
<1>2. LockInv /\ RegisteredInv /\ FlagsInv /\ ClosingInv
  BY DEF LockInv, RegisteredInv, FlagsInv, ClosingInv
<1>3. PublisherInv /\ MissedInv /\ AcceptedInv
  BY DEF PublisherInv, MissedInv, AcceptedInv
<1>4. NoPanic /\ EveryoneOffered /\ NoSilentLoss /\ NoGapPerPublisher
  BY DEF NoPanic, EveryoneOffered, NoSilentLoss, NoGapPerPublisher, Readers
<1>5. QED
  BY <1>1, <1>2, <1>3, <1>4 DEF HubInv

(* A stuttering step preserves the invariant.                              *)
LEMMA StutterPreserves == HubInv /\ UNCHANGED vars => HubInv'
<1> SUFFICES ASSUME HubInv, UNCHANGED vars PROVE HubInv'
  OBVIOUS
<1> USE DEF HubInv, vars, subVars, pubVars, history
<1>1. TypeOK'
  BY DEF TypeOK
<1>2. (LockInv /\ RegisteredInv /\ FlagsInv /\ ClosingInv)'
  BY DEF LockInv, RegisteredInv, FlagsInv, ClosingInv
<1>3. (PublisherInv /\ MissedInv /\ AcceptedInv)'
  BY DEF PublisherInv, MissedInv, AcceptedInv
<1>4. (NoPanic /\ EveryoneOffered /\ NoSilentLoss /\ NoGapPerPublisher)'
  BY DEF NoPanic, EveryoneOffered, NoSilentLoss, NoGapPerPublisher, Readers,
         Current
<1>5. QED
  BY <1>1, <1>2, <1>3, <1>4

(* HubInv is inductive: one lemma above per action of the hub.             *)
LEMMA NextPreserves == HubInv /\ [Next]_vars => HubInv'
<1> SUFFICES ASSUME HubInv, [Next]_vars PROVE HubInv'
  OBVIOUS
<1>1. CASE \E s \in Subs, t \in Topics : Subscribe(s, t)
  BY <1>1, SubscribePreserves
<1>2. CASE \E c \in Callers, s \in Subs : Remove(c, s)
  BY <1>2, RemovePreserves
<1>3. CASE \E c \in Callers : Close(c)
  BY <1>3, ClosePreserves
<1>4. CASE \E p \in Publishers, t \in Topics : PublishBegin(p, t, last[p] + 1)
  <2>1. \A p \in Publishers : last[p] + 1 \in Nat
    BY DEF HubInv, TypeOK
  <2>2. QED
    BY <1>4, <2>1, PublishBeginPreserves
<1>5. CASE \E p \in Publishers : PublishStep(p) \/ PublishLock(p)
  BY <1>5, SendPreserves, EvictPreserves, PublishRUnlockPreserves,
     PublishUnlockPreserves, PublishLockPreserves DEF PublishStep
<1>6. CASE \E s \in Subs : Receive(s) \/ TakeSignal(s)
  BY <1>6, ReceivePreserves, TakeSignalPreserves
<1>7. CASE UNCHANGED vars
  BY <1>7, StutterPreserves
<1>8. QED
  BY <1>1, <1>2, <1>3, <1>4, <1>5, <1>6, <1>7 DEF Next

(* The inductive invariant holds in every reachable state.                 *)
THEOREM HubInvariant == Spec => []HubInv
<1>1. QED
  BY InitHubInv, NextPreserves, PTL DEF Spec

(* Every reachable state of the hub is well typed, and no subscription     *)
(* buffers more than its capacity.                                         *)
THEOREM TypeCorrect == Spec => []TypeOK
<1>1. HubInv => TypeOK
  BY DEF HubInv
<1>2. QED
  BY <1>1, HubInvariant, PTL

(* Publish, markOverflow and Unsubscribe never send on a closed channel    *)
(* and never close a channel twice.                                        *)
THEOREM HubNeverPanics == Spec => []NoPanic
<1>1. HubInv => NoPanic
  BY DEF HubInv
<1>2. QED
  BY <1>1, HubInvariant, PTL

(* No subscription registered while a Publish sends is left out of it.     *)
THEOREM PublishOffersToAll == Spec => []EveryoneOffered
<1>1. HubInv => EveryoneOffered
  BY DEF HubInv
<1>2. QED
  BY <1>1, HubInvariant, PTL

(* A subscription that missed an event is marked, closed by its owner, or  *)
(* about to be marked by the publisher that dropped the event.             *)
THEOREM LossIsNeverSilent == Spec => []NoSilentLoss
<1>1. HubInv => NoSilentLoss
  BY DEF HubInv
<1>2. QED
  BY <1>1, HubInvariant, PTL

(* After a subscription misses an event of a publisher it accepts no later *)
(* event of that publisher.                                                *)
THEOREM NoGap == Spec => []NoGapPerPublisher
<1>1. HubInv => NoGapPerPublisher
  BY DEF HubInv
<1>2. QED
  BY <1>1, HubInvariant, PTL
=============================================================================
