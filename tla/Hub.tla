-------------------------------- MODULE Hub --------------------------------
(***************************************************************************)
(* The realtime hub of the backend (backend/internal/realtime/hub.go): a   *)
(* map from topics to sets of subscriptions behind one RWMutex.  A         *)
(* subscription owns two Go channels, Events (buffered) and Overflow       *)
(* (capacity 1), and the flags closed and overflowed behind a mutex of its *)
(* own.                                                                    *)
(*                                                                         *)
(* Publish is not atomic: it sends to the subscribers of the topic one by  *)
(* one under the read lock, releases it, and only then takes the write     *)
(* lock to evict the subscribers whose buffer was full.  Other publishers, *)
(* Subscribe, Unsubscribe and the consumers run in between.  Unsubscribe   *)
(* is not atomic either: it removes the subscription under the write lock  *)
(* and closes its channels after releasing it.                             *)
(*                                                                         *)
(* Go panics on a send to a closed channel and on a second close of a      *)
(* channel; either would kill the whole backend.  The model performs the   *)
(* channel operation whatever the state of the channel and records the     *)
(* panic in a variable, so that its absence is a property to check.        *)
(***************************************************************************)
EXTENDS Naturals, Sequences, Functions

CONSTANTS
  Subs,        (* identities of *Subscription: each is allocated at most once *)
  Topics,      (* "global" and the "token:<mint>" topics                      *)
  Publishers,  (* goroutines that call Publish                                *)
  Callers,     (* goroutines that call Unsubscribe                            *)
  Buffer,      (* capacity of Events                                          *)
  MaxPublish,  (* bound: events published by all publishers together          *)
  None         (* no publisher, no subscription, no topic                     *)

ASSUME HubAssumption ==
  /\ Buffer \in Nat \ {0}
  /\ None \notin Subs \union Topics \union Publishers

VARIABLES
  subscribers,    (* h.subscribers; a topic without subscribers has no entry  *)
  writer,         (* the publisher that holds h.mu for writing, or None       *)
  created,        (* subscriptions newSubscription has returned               *)
  topicOf,        (* the topic a subscription was created for                 *)
  queue,          (* contents of Events                                       *)
  eventsClosed,   (* Events is closed                                         *)
  signal,         (* Overflow holds its token                                 *)
  overflowClosed, (* Overflow is closed                                       *)
  closed,         (* Subscription.closed                                      *)
  overflowed,     (* Subscription.overflowed                                  *)
  pc,             (* where each publisher is in Publish                       *)
  topic,          (* the topic of its current call                            *)
  pending,        (* subscribers its send loop has yet to visit               *)
  dropped,        (* its local slice `overflowed`                             *)
  last,           (* sequence number of the last event it published           *)
  closing,        (* the subscription a caller has removed but not yet closed *)
  panicked,       (* a channel operation has panicked                         *)
  accepted,       (* history: the events that entered Events                  *)
  missed          (* history: the events that found Events full               *)

subVars == <<created, topicOf, queue, eventsClosed, signal, overflowClosed,
             closed, overflowed>>
pubVars == <<pc, topic, pending, dropped, last>>
history == <<accepted, missed>>
vars == <<subscribers, writer, subVars, pubVars, closing, panicked, history>>

(* An event is identified by the goroutine that publishes it and by the    *)
(* position it has among the events of that goroutine.                     *)
Event == Publishers \X Nat
Current(p) == <<p, last[p]>>

Readers == {p \in Publishers : pc[p] = "sending"}
CanRLock == writer = None

(* Mutant, for EveryoneOffered: the write lock does not wait for readers.  *)
CanLockWhileRead == writer = None

CanLock == writer = None /\ Readers = {}

Init ==
  /\ subscribers = [t \in Topics |-> {}]
  /\ writer = None
  /\ created = {}
  /\ topicOf = [s \in Subs |-> None]
  /\ queue = [s \in Subs |-> <<>>]
  /\ eventsClosed = [s \in Subs |-> FALSE]
  /\ signal = [s \in Subs |-> FALSE]
  /\ overflowClosed = [s \in Subs |-> FALSE]
  /\ closed = [s \in Subs |-> FALSE]
  /\ overflowed = [s \in Subs |-> FALSE]
  /\ pc = [p \in Publishers |-> "idle"]
  /\ topic = [p \in Publishers |-> None]
  /\ pending = [p \in Publishers |-> {}]
  /\ dropped = [p \in Publishers |-> {}]
  /\ last = [p \in Publishers |-> 0]
  /\ closing = [c \in Callers |-> None]
  /\ panicked = FALSE
  /\ accepted = [s \in Subs |-> {}]
  /\ missed = [s \in Subs |-> {}]

-----------------------------------------------------------------------------
(* Subscribe: allocate the channels, then register under the write lock.   *)
Subscribe(s, t) ==
  /\ s \notin created
  /\ CanLock
  /\ created' = created \union {s}
  /\ topicOf' = [topicOf EXCEPT ![s] = t]
  /\ subscribers' = [subscribers EXCEPT ![t] = @ \union {s}]
  /\ UNCHANGED <<writer, queue, eventsClosed, signal, overflowClosed, closed,
                 overflowed, pubVars, closing, panicked, history>>

(* Unsubscribe, first half: remove the subscription from every topic.      *)
Remove(c, s) ==
  /\ closing[c] = None
  /\ s \in created
  /\ CanLock
  /\ subscribers' = [t \in Topics |-> subscribers[t] \ {s}]
  /\ closing' = [closing EXCEPT ![c] = s]
  /\ UNCHANGED <<writer, subVars, pubVars, panicked, history>>

(* close() closes Events only when markOverflow has not.                   *)
ClosesEvents(s) == ~overflowed[s]

(* Subscription.close on a subscription that is not closed yet.            *)
CloseChannels(s) ==
  /\ ~closed[s]
  /\ closed' = [closed EXCEPT ![s] = TRUE]
  /\ eventsClosed' = IF ClosesEvents(s)
                     THEN [eventsClosed EXCEPT ![s] = TRUE]
                     ELSE eventsClosed
  /\ overflowClosed' = [overflowClosed EXCEPT ![s] = TRUE]
  /\ panicked' = (\/ panicked
                  \/ ClosesEvents(s) /\ eventsClosed[s]
                  \/ overflowClosed[s])

(* Unsubscribe, second half, outside the hub's lock.                       *)
Close(c) ==
  /\ closing[c] # None
  /\ closing' = [closing EXCEPT ![c] = None]
  /\ \/ CloseChannels(closing[c])
     \/ /\ closed[closing[c]]
        /\ UNCHANGED <<closed, eventsClosed, overflowClosed, panicked>>
  /\ UNCHANGED <<subscribers, writer, created, topicOf, queue, signal,
                 overflowed, pubVars, history>>

-----------------------------------------------------------------------------
(* Publish takes the read lock.  It returns at once when the topic has no  *)
(* entry; else its loop ranges over the entry, which cannot change while   *)
(* the read lock is held.                                                  *)
PublishBegin(p, t, n) ==
  /\ pc[p] = "idle"
  /\ CanRLock
  /\ n > last[p]
  /\ last' = [last EXCEPT ![p] = n]
  /\ topic' = [topic EXCEPT ![p] = t]
  /\ pending' = [pending EXCEPT ![p] = subscribers[t]]
  /\ pc' = [pc EXCEPT ![p] = IF subscribers[t] = {} THEN "idle" ELSE "sending"]
  /\ UNCHANGED <<subscribers, writer, subVars, dropped, closing, panicked,
                 history>>

(* Mutants: for TypeOK, an Events without capacity; for NoSilentLoss, a    *)
(* full subscriber that is not appended to `overflowed`.                   *)
AcceptUnbounded(p, s) ==
  /\ queue' = [queue EXCEPT ![s] = Append(@, Current(p))]
  /\ accepted' = [accepted EXCEPT ![s] = @ \union {Current(p)}]
  /\ UNCHANGED <<dropped, missed>>

DropForgotten(p, s) ==
  /\ Len(queue[s]) >= Buffer
  /\ missed' = [missed EXCEPT ![s] = @ \union {Current(p)}]
  /\ UNCHANGED <<queue, accepted, dropped>>

(* The two outcomes of the loop's non-blocking send.                       *)
Accept(p, s) ==
  /\ Len(queue[s]) < Buffer
  /\ queue' = [queue EXCEPT ![s] = Append(@, Current(p))]
  /\ accepted' = [accepted EXCEPT ![s] = @ \union {Current(p)}]
  /\ UNCHANGED <<dropped, missed>>

Drop(p, s) ==
  /\ Len(queue[s]) >= Buffer
  /\ dropped' = [dropped EXCEPT ![p] = @ \union {s}]
  /\ missed' = [missed EXCEPT ![s] = @ \union {Current(p)}]
  /\ UNCHANGED <<queue, accepted>>

Send(p, s) ==
  /\ pc[p] = "sending"
  /\ s \in pending[p]
  /\ pending' = [pending EXCEPT ![p] = @ \ {s}]
  /\ panicked' = (panicked \/ eventsClosed[s])
  /\ Accept(p, s) \/ Drop(p, s)
  /\ UNCHANGED <<subscribers, writer, created, topicOf, eventsClosed, signal,
                 overflowClosed, closed, overflowed, pc, topic, last, closing>>

(* Mutant, for NoGapPerPublisher: Publish returns without evicting. *)
PublishRUnlockReturns(p) ==
  /\ pc[p] = "sending"
  /\ pending[p] = {}
  /\ pc' = [pc EXCEPT ![p] = "idle"]
  /\ UNCHANGED <<subscribers, writer, subVars, topic, pending, dropped,
                 last, closing, panicked, history>>

(* RUnlock; Publish returns unless a subscriber must be evicted.           *)
PublishRUnlock(p) ==
  /\ pc[p] = "sending"
  /\ pending[p] = {}
  /\ pc' = [pc EXCEPT ![p] = IF dropped[p] = {} THEN "idle" ELSE "waiting"]
  /\ UNCHANGED <<subscribers, writer, subVars, topic, pending, dropped,
                 last, closing, panicked, history>>

PublishLock(p) ==
  /\ pc[p] = "waiting"
  /\ CanLock
  /\ writer' = p
  /\ pc' = [pc EXCEPT ![p] = "marking"]
  /\ UNCHANGED <<subscribers, subVars, topic, pending, dropped, last,
                 closing, panicked, history>>

(* Mutant, for NoPanic: markOverflow does not look at `closed`. *)
MarkableIfClosed(s) == ~overflowed[s]

(* markOverflow acts only on a subscription that is neither closed nor     *)
(* marked already: another publisher may have met the same full buffer.    *)
Markable(s) == ~closed[s] /\ ~overflowed[s]

(* Mutant, for LossIsTold: markOverflow leaves Events open. *)
MarkOverflowOpen(s) ==
  /\ Markable(s)
  /\ overflowed' = [overflowed EXCEPT ![s] = TRUE]
  /\ panicked' = (panicked \/ overflowClosed[s])
  /\ signal' = [signal EXCEPT ![s] = TRUE]
  /\ UNCHANGED eventsClosed

MarkOverflow(s) ==
  /\ Markable(s)
  /\ overflowed' = [overflowed EXCEPT ![s] = TRUE]
  /\ panicked' = (panicked \/ overflowClosed[s] \/ eventsClosed[s])
  /\ signal' = [signal EXCEPT ![s] = TRUE]
  /\ eventsClosed' = [eventsClosed EXCEPT ![s] = TRUE]

(* One round of the second loop: delete from the topic, markOverflow.      *)
Evict(p, s) ==
  /\ pc[p] = "marking"
  /\ s \in dropped[p]
  /\ dropped' = [dropped EXCEPT ![p] = @ \ {s}]
  /\ subscribers' = [subscribers EXCEPT ![topic[p]] = @ \ {s}]
  /\ \/ MarkOverflow(s)
     \/ /\ ~Markable(s)
        /\ UNCHANGED <<overflowed, panicked, signal, eventsClosed>>
  /\ UNCHANGED <<writer, created, topicOf, queue, overflowClosed, closed, pc,
                 topic, pending, last, closing, history>>

PublishUnlock(p) ==
  /\ pc[p] = "marking"
  /\ dropped[p] = {}
  /\ writer' = None
  /\ pc' = [pc EXCEPT ![p] = "idle"]
  /\ UNCHANGED <<subscribers, subVars, topic, pending, dropped, last,
                 closing, panicked, history>>

-----------------------------------------------------------------------------
(* The goroutine that owns the subscription receives from its channels.    *)
Receive(s) ==
  /\ queue[s] # <<>>
  /\ queue' = [queue EXCEPT ![s] = Tail(@)]
  /\ UNCHANGED <<subscribers, writer, created, topicOf, eventsClosed, signal,
                 overflowClosed, closed, overflowed, pubVars, closing,
                 panicked, history>>

TakeSignal(s) ==
  /\ signal[s]
  /\ signal' = [signal EXCEPT ![s] = FALSE]
  /\ UNCHANGED <<subscribers, writer, created, topicOf, queue, eventsClosed,
                 overflowClosed, closed, overflowed, pubVars, closing,
                 panicked, history>>

-----------------------------------------------------------------------------
PublishStep(p) ==
  \/ \E s \in Subs : Send(p, s) \/ Evict(p, s)
  \/ PublishRUnlock(p)
  \/ PublishUnlock(p)

Next ==
  \/ \E s \in Subs, t \in Topics : Subscribe(s, t)
  \/ \E c \in Callers, s \in Subs : Remove(c, s)
  \/ \E c \in Callers : Close(c)
  \/ \E p \in Publishers, t \in Topics :
       FoldFunction(+, 0, last) < MaxPublish /\ PublishBegin(p, t, last[p] + 1)
  \/ \E p \in Publishers : PublishStep(p) \/ PublishLock(p)
  \/ \E s \in Subs : Receive(s) \/ TakeSignal(s)

Spec == Init /\ [][Next]_vars

(* A goroutine that has begun Publish or Unsubscribe keeps running.  The   *)
(* RWMutex does not let new readers starve a goroutine that waits for the  *)
(* write lock, hence strong fairness there.  Nothing is assumed about the  *)
(* consumers: they may stop receiving.                                     *)
Fairness ==
  /\ \A p \in Publishers : WF_vars(PublishStep(p)) /\ SF_vars(PublishLock(p))
  /\ \A c \in Callers : WF_vars(Close(c))

FairSpec == Spec /\ Fairness

-----------------------------------------------------------------------------
(* Every variable has its type, and Events never holds more than Buffer.   *)
TypeOK ==
  /\ subscribers \in [Topics -> SUBSET Subs]
  /\ writer \in Publishers \union {None}
  /\ created \in SUBSET Subs
  /\ topicOf \in [Subs -> Topics \union {None}]
  /\ queue \in [Subs -> Seq(Event)]
  /\ \A s \in Subs : Len(queue[s]) <= Buffer
  /\ eventsClosed \in [Subs -> BOOLEAN]
  /\ signal \in [Subs -> BOOLEAN]
  /\ overflowClosed \in [Subs -> BOOLEAN]
  /\ closed \in [Subs -> BOOLEAN]
  /\ overflowed \in [Subs -> BOOLEAN]
  /\ pc \in [Publishers -> {"idle", "sending", "waiting", "marking"}]
  /\ topic \in [Publishers -> Topics \union {None}]
  /\ pending \in [Publishers -> SUBSET Subs]
  /\ dropped \in [Publishers -> SUBSET Subs]
  /\ last \in [Publishers -> Nat]
  /\ closing \in [Callers -> Subs \union {None}]
  /\ panicked \in BOOLEAN
  /\ accepted \in [Subs -> SUBSET Event]
  /\ missed \in [Subs -> SUBSET Event]

(* No Publish sends on a channel that Unsubscribe or another Publish has   *)
(* closed, and no channel is closed twice, whatever the interleaving of    *)
(* Publish, markOverflow and Unsubscribe (also twice on one subscription). *)
NoPanic == ~panicked

(* A Publish offers its event to every subscription registered while it    *)
(* sends: none is skipped because the entry changed under the loop.        *)
EveryoneOffered ==
  \A p \in Readers : \A s \in subscribers[topic[p]] :
    \/ s \in pending[p] \union dropped[p]
    \/ Current(p) \in accepted[s]

(* An event that a subscription misses is never missed silently: until the *)
(* subscription is marked (or its owner has closed it) the publisher that  *)
(* dropped the event still has to evict it.                                *)
NoSilentLoss ==
  \A s \in Subs :
    missed[s] # {} => \/ overflowed[s] \/ closed[s]
                      \/ \E p \in Publishers : s \in dropped[p]

(* A subscription sees the events of one publisher without a gap: once it  *)
(* has missed one, no later event of that publisher enters its channel.    *)
(* (Events of two publishers carry no such promise: EventStream shows it.) *)
NoGapPerPublisher ==
  \A s \in Subs : \A e \in missed[s], f \in accepted[s] :
    f[1] = e[1] => f[2] < e[2]

(* A subscription that misses an event eventually has its Events closed:   *)
(* its owner cannot wait on it for ever.                                   *)
LossIsTold == \A s \in Subs : missed[s] # {} ~> eventsClosed[s]
=============================================================================
