-------------------------- MODULE EventStreamProofs --------------------------
(***************************************************************************)
(* Theorems about EventStream, for any number of connections and of        *)
(* publishers of token_stat and any capacities.  With one ingester the     *)
(* cursor of a client never passes a published row that the client has not *)
(* seen, and a connection delivers the events in the order of their        *)
(* log_ids, each of them once, but for the rows a replay covers.  With any *)
(* number of ingesters every channel and every batch keeps to its capacity. *)
(***************************************************************************)
EXTENDS EventStream, SequenceTheorems, FiniteSetTheorems, TLAPS

HP == INSTANCE HubProofs WITH Subs <- Conns, Topics <- {Token},
                              Publishers <- Ingesters \union Stats,
                              Callers <- Conns, MaxPublish <- MaxLog

(* One goroutine inserts: the JetStream consumer handles its messages one  *)
(* after the other, and nobody posts events.                               *)
js == CHOOSE p : p \in Ingesters
OneIngester == Ingesters = {js}

Phases == {"none", "reading", "last", "full", "posted", "flushing", "done"}

StreamType ==
  /\ log \subseteq Nat \ {0} /\ nextLogID \in Nat
  /\ insert \in [Ingesters -> [stage : {"idle", "inserting", "inserted"}, id : Nat]]
  /\ conn \in [Conns -> {"unused", "open", "closed", "cleaned"}]
  /\ replay \in [Conns -> Phases]
  /\ batch \in [Conns -> SUBSET Nat]
  /\ lastLogID \in [Conns -> Nat] /\ replayMax \in [Conns -> Nat]
  /\ buffered \in [Conns -> Seq(Nat)] /\ outCh \in [Conns -> Seq(Nat)]
  /\ received \subseteq Nat /\ cursor \in Nat

(* With one ingester rows become visible, and are published, in the order  *)
(* of their log_ids.                                                       *)
IngestInv ==
  /\ \A i \in log : i < nextLogID
  /\ last[js] = 0 \/ last[js] \in log
  /\ pc[js] # "idle" => last[js] # 0
  /\ insert[js].stage # "idle" =>
       /\ pc[js] = "idle" /\ insert[js].id < nextLogID
       /\ insert[js].id # 0 /\ last[js] < insert[js].id
  /\ insert[js].stage = "inserting" => \A i \in log : i < insert[js].id
  /\ insert[js].stage = "inserted" => insert[js].id \in log

(* The rows of which the client must hear.                                 *)
Due == log \ unpublished

In(s, i) == \E k \in 1..Len(s) : s[k] = i
Queued(c, i) == \E k \in 1..Len(queue[c]) : queue[c][k] = <<js, i>>
Accepted(c, i) == <<js, i>> \in accepted[c]

Seen(c, i) == i \in received \/ In(outCh[c], i)
Held(c, i) == In(buffered[c], i) \/ Queued(c, i)

(* The replay has sent the row, has it in hand, or will read it.           *)
Replayed(c, i) ==
  i <= lastLogID[c] \/ i \in batch[c] \/ replay[c] \in {"reading", "full"}

(* The row is on its way from the ingester to the subscription.            *)
Upcoming(c, i) ==
  \/ insert[js].stage = "inserted" /\ insert[js].id = i
  \/ last[js] = i /\ c \in pending[js]

(* The subscription is evicted, or about to be, and gets no more rows.     *)
Gone(c) == c \notin subscribers[Token] \/ c \in dropped[js]

(* What a session refers to are rows of the log.                           *)
RefsInv(c) ==
  /\ lastLogID[c] \in log /\ batch[c] \subseteq log
  /\ \A k \in 1..Len(outCh[c]) : outCh[c][k] = 0 \/ outCh[c][k] \in log
  /\ \A k \in 1..Len(buffered[c]) : buffered[c][k] = 0 \/ Accepted(c, buffered[c][k])
  /\ \A i \in Nat : Accepted(c, i) => i \in log
  /\ \A k \in 1..Len(queue[c]) : queue[c][k] \in accepted[c]

(* The replay leaves nothing out between the cursor and where it stands.   *)
ReplayInv(c) ==
  /\ replay[c] # "none"
  /\ replay[c] \notin {"last", "full"} => batch[c] = {}
  /\ \A j \in batch[c] :
       /\ j > lastLogID[c]
       /\ \A i \in log : i > lastLogID[c] /\ i <= j => i \in batch[c]
  /\ \A i \in Due : i <= lastLogID[c] => Seen(c, i)
  /\ replay[c] \in {"flushing", "done"} => replayMax[c] = lastLogID[c]
  /\ replay[c] = "done" => buffered[c] = <<>>

(* A row goes into outCh after all the rows before it.                     *)
OutInv(c) ==
  \A k \in 1..Len(outCh[c]) : outCh[c][k] # 0 =>
    \A i \in Due : i < outCh[c][k] =>
      i \in received \/ \E j \in 1..(k - 1) : outCh[c][j] = i

(* What the replay does not cover comes over the subscription, in order.   *)
LiveInv(c) ==
  \A i \in Due : Replayed(c, i) \/ Accepted(c, i) \/ Upcoming(c, i) \/ Gone(c)

AcceptInv(c) ==
  \A e \in Nat, i \in Due : Accepted(c, e) /\ i < e => Replayed(c, i) \/ Accepted(c, i)

(* What the subscription has accepted is still held, or has been passed on *)
(* or skipped.                                                             *)
KeptInv(c) ==
  \A i \in Nat : Accepted(c, i) =>
    \/ Held(c, i) \/ Seen(c, i)
    \/ i <= lastLogID[c] /\ replay[c] \in {"flushing", "done"}

(* Events are held in the order of their log_ids.                          *)
HeldInv(c) ==
  /\ \A j, k \in 1..Len(buffered[c]) :
       j < k /\ buffered[c][j] # 0 /\ buffered[c][k] # 0 => buffered[c][j] < buffered[c][k]
  /\ \A j, k \in 1..Len(queue[c]) :
       j < k /\ queue[c][j][1] = js /\ queue[c][k][1] = js => queue[c][j][2] < queue[c][k][2]
  /\ \A j \in 1..Len(buffered[c]), k \in 1..Len(queue[c]) :
       buffered[c][j] # 0 /\ queue[c][k][1] = js => buffered[c][j] < queue[c][k][2]

OpenInv(c) ==
  /\ RefsInv(c) /\ ReplayInv(c) /\ OutInv(c) /\ LiveInv(c) /\ AcceptInv(c) /\ KeptInv(c)
  /\ HeldInv(c)

(* A connection that has not been dialled has left no trace.               *)
Fresh(c) ==
  c \notin created /\ accepted[c] = {} /\ queue[c] = <<>> /\ batch[c] = {} /\ buffered[c] = <<>>

(* Only the client's current connection is open.                           *)
ClientInv ==
  /\ cursor \in log /\ received \subseteq log
  /\ \A c \in Conns : conn[c] = "open" => current = c /\ OpenInv(c)
  /\ \A c \in Conns : conn[c] = "unused" => Fresh(c)

StreamInv == HP!HubInv /\ StreamType /\ IngestInv /\ ClientInv /\ NoHole

-----------------------------------------------------------------------------
LEMMA HubConstants == HP!HubAssumption
BY StreamAssumption DEF HP!HubAssumption

LEMMA InAppend ==
  ASSUME NEW s \in Seq(Nat), NEW x \in Nat
  PROVE  /\ Append(s, x) \in Seq(Nat)
         /\ \A i : In(Append(s, x), i) <=> In(s, i) \/ i = x
BY DEF In

LEMMA InTail ==
  ASSUME NEW s \in Seq(Nat), s # <<>>
  PROVE  /\ Tail(s) \in Seq(Nat) /\ Head(s) \in Nat /\ In(s, Head(s))
         /\ \A i : In(Tail(s), i) => In(s, i)
         /\ \A i : In(s, i) => i = Head(s) \/ In(Tail(s), i)
<1>1. /\ Tail(s) \in Seq(Nat) /\ Head(s) \in Nat /\ Len(s) \in Nat \ {0} /\ Head(s) = s[1]
      /\ Len(Tail(s)) = Len(s) - 1
      /\ \A k \in 1..Len(Tail(s)) : Tail(s)[k] = s[k + 1]
  OBVIOUS
<1>2. In(s, Head(s))
  BY <1>1 DEF In
<1>3. ASSUME NEW i, In(Tail(s), i)
      PROVE  In(s, i)
  BY <1>1, <1>3 DEF In
<1>4. ASSUME NEW i, In(s, i)
      PROVE  i = Head(s) \/ In(Tail(s), i)
  <2>1. PICK k \in 1..Len(s) : s[k] = i
    BY <1>4 DEF In
  <2>2. CASE k = 1
    BY <1>1, <2>1, <2>2
  <2>3. CASE k # 1
    <3>1. k - 1 \in 1..Len(Tail(s)) /\ Tail(s)[k - 1] = i
      BY <1>1, <2>1, <2>3
    <3> QED
      BY <3>1 DEF In
  <2> QED
    BY <2>2, <2>3
<1> QED
  BY <1>1, <1>2, <1>3, <1>4

LEMMA InitInv ==
  ASSUME OneIngester, Init
  PROVE  StreamInv
<1>1. HP!HubInv
  <2>1. HP!Init
    BY DEF Init, H!Init, HP!Init
  <2> QED
    BY <2>1, HP!InitHubInv, HubConstants
<1>2. StreamType
  BY DEF Init, StreamType, Idle, Phases
<1>3. js \in Ingesters
  BY DEF OneIngester
<1>4. IngestInv
  BY <1>3 DEF Init, H!Init, IngestInv, Idle
<1>5. ClientInv
  BY DEF Init, H!Init, ClientInv, Fresh
<1>6. NoHole
  BY DEF Init, NoHole
<1> QED
  BY <1>1, <1>2, <1>4, <1>5, <1>6 DEF StreamInv

-----------------------------------------------------------------------------
(* The hub takes a step of its own, or none.                               *)
LEMMA HubKept ==
  ASSUME HP!HubInv, \A p \in Ingesters : insert[p].id \in Nat, [Next]_vars
  PROVE  HP!HubInv'
<1>1. ASSUME NEW p \in Ingesters, Ingest(p)
      PROVE  HP!HubInv'
  <2>1. CASE PublishInserted(p)
    <3>1. insert[p].id \in Nat
      OBVIOUS
    <3>2. HP!PublishBegin(p, Token, insert[p].id)
      BY <2>1 DEF PublishInserted, H!PublishBegin, HP!PublishBegin, H!CanRLock, HP!CanRLock,
                  H!subVars, HP!subVars, H!history, HP!history
    <3> QED
      BY <3>1, <3>2, HP!PublishBeginPreserves, HubConstants
  <2>2. CASE ~PublishInserted(p)
    <3>1. UNCHANGED HP!vars
      BY <1>1, <2>2 DEF Ingest, BeginInsert, CommitInsert, AbortInsert, LoseReply, hubVars,
                        HP!vars, HP!subVars, HP!pubVars, HP!history
    <3> QED
      BY <3>1, HP!StutterPreserves, HubConstants
  <2> QED
    BY <2>1, <2>2
<1>2. ASSUME NEW p \in Stats, PublishStat(p)
      PROVE  HP!HubInv'
  <2>1. last[p] + 1 \in Nat
    BY DEF HP!HubInv, HP!TypeOK
  <2>2. HP!PublishBegin(p, Token, last[p] + 1)
    BY <1>2 DEF PublishStat, H!PublishBegin, HP!PublishBegin, H!CanRLock, HP!CanRLock,
                H!subVars, HP!subVars, H!history, HP!history
  <2> QED
    BY <2>1, <2>2, HP!PublishBeginPreserves, HubConstants
<1>3. ASSUME NEW p \in Ingesters \union Stats, PublishStep(p) \/ PublishLock(p)
      PROVE  HP!HubInv'
  <2>1. CASE PublishLock(p)
    <3>1. HP!PublishLock(p)
      BY <2>1 DEF PublishLock, H!PublishLock, HP!PublishLock, H!CanLock, HP!CanLock, H!Readers,
                  HP!Readers, H!subVars, HP!subVars, H!history, HP!history
    <3> QED
      BY <3>1, HP!PublishLockPreserves, HubConstants
  <2>2. CASE H!PublishRUnlock(p)
    <3>1. HP!PublishRUnlock(p)
      BY <2>2 DEF H!PublishRUnlock, HP!PublishRUnlock,
                  H!subVars, HP!subVars, H!history, HP!history
    <3> QED
      BY <3>1, HP!PublishRUnlockPreserves, HubConstants
  <2>3. CASE H!PublishUnlock(p)
    <3>1. HP!PublishUnlock(p)
      BY <2>3 DEF H!PublishUnlock, HP!PublishUnlock,
                  H!subVars, HP!subVars, H!history, HP!history
    <3> QED
      BY <3>1, HP!PublishUnlockPreserves, HubConstants
  <2>4. ASSUME NEW c \in Conns, H!Send(p, c)
        PROVE  HP!HubInv'
    <3>1. HP!Send(p, c)
      BY <2>4 DEF H!Send, HP!Send, H!Accept, HP!Accept, H!Drop, HP!Drop, H!Current, HP!Current
    <3> QED
      BY <3>1, HP!SendPreserves, HubConstants
  <2>5. ASSUME NEW c \in Conns, H!Evict(p, c)
        PROVE  HP!HubInv'
    <3>1. HP!Evict(p, c)
      BY <2>5 DEF H!Evict, HP!Evict, H!MarkOverflow, HP!MarkOverflow, H!Markable, HP!Markable,
                  H!history, HP!history
    <3> QED
      BY <3>1, HP!EvictPreserves, HubConstants
  <2> QED
    BY <1>3, <2>1, <2>2, <2>3, <2>4, <2>5 DEF PublishStep, H!PublishStep
<1>4. ASSUME NEW c \in Conns, Connect(c)
      PROVE  HP!HubInv'
  <2>1. HP!Subscribe(c, Token)
    BY <1>4 DEF Connect, H!Subscribe, HP!Subscribe, H!CanLock, HP!CanLock, H!Readers, HP!Readers,
                H!pubVars, HP!pubVars, H!history, HP!history
  <2> QED
    BY <2>1, HP!SubscribePreserves, HubConstants
<1>5. ASSUME NEW c \in Conns, Cleanup(c)
      PROVE  HP!HubInv'
  <2>1. HP!Remove(c, c)
    BY <1>5 DEF Cleanup, H!Remove, HP!Remove, H!CanLock, HP!CanLock, H!Readers, HP!Readers,
                H!subVars, HP!subVars, H!pubVars, HP!pubVars, H!history, HP!history
  <2> QED
    BY <2>1, HP!RemovePreserves, HubConstants
<1>6. ASSUME NEW c \in Conns, Unsubscribed(c)
      PROVE  HP!HubInv'
  <2>1. HP!Close(c)
    BY <1>6 DEF Unsubscribed, H!Close, HP!Close, H!CloseChannels, HP!CloseChannels,
                H!ClosesEvents, HP!ClosesEvents, H!pubVars, HP!pubVars, H!history, HP!history
  <2> QED
    BY <2>1, HP!ClosePreserves, HubConstants
<1>7. ASSUME NEW c \in Conns, TakeEvent(c)
      PROVE  HP!HubInv'
  <2>1. HP!Receive(c)
    BY <1>7 DEF TakeEvent, H!Receive, HP!Receive, H!pubVars, HP!pubVars, H!history, HP!history
  <2> QED
    BY <2>1, HP!ReceivePreserves, HubConstants
<1>8. ASSUME NEW c \in Conns, TakeOverflow(c)
      PROVE  HP!HubInv'
  <2>1. HP!TakeSignal(c)
    BY <1>8 DEF TakeOverflow, H!TakeSignal, HP!TakeSignal, H!pubVars, HP!pubVars,
                H!history, HP!history
  <2> QED
    BY <2>1, HP!TakeSignalPreserves, HubConstants
<1>9. CASE UNCHANGED hubVars
  <2>1. UNCHANGED HP!vars
    BY <1>9 DEF hubVars, HP!vars, HP!subVars, HP!pubVars, HP!history
  <2> QED
    BY <2>1, HP!StutterPreserves, HubConstants
<1>10. ASSUME NEW c \in Conns,
              Disconnect(c) \/ OnClose(c) \/ Replay(c) \/ ReplayFail(c) \/ Write(c)
                \/ TakeReplayDone(c) \/ Flush(c) \/ TakeEventsClosed(c)
       PROVE  UNCHANGED hubVars
  BY <1>10 DEF Disconnect, OnClose, Replay, ReplayRead, ReplaySend, ReplayFail, Write,
               TakeReplayDone, Flush, TakeEventsClosed
<1>11. CASE UNCHANGED vars
  BY <1>9, <1>11 DEF vars
<1> QED
  BY <1>1, <1>2, <1>3, <1>4, <1>5, <1>6, <1>7, <1>8, <1>9, <1>10, <1>11 DEF Next, Forward

(* What StreamInv says of the hub.                                         *)
LEMMA HubFacts ==
  ASSUME OneIngester, StreamInv
  PROVE  /\ js \in Ingesters /\ js \notin Stats /\ None # Token
         /\ subscribers \in [{Token} -> SUBSET Conns]
         /\ last \in [Ingesters \union Stats -> Nat]
         /\ pc \in [Ingesters \union Stats -> {"idle", "sending", "waiting", "marking"}]
         /\ pending \in [Ingesters \union Stats -> SUBSET Conns]
         /\ dropped \in [Ingesters \union Stats -> SUBSET Conns]
         /\ queue \in [Conns -> Seq((Ingesters \union Stats) \X Nat)]
         /\ accepted \in [Conns -> SUBSET ((Ingesters \union Stats) \X Nat)]
         /\ \A p \in Ingesters \union Stats : pc[p] # "idle" => topic[p] = Token
         /\ \A p \in Ingesters \union Stats : pc[p] # "sending" => pending[p] = {}
         /\ \A p \in Ingesters \union Stats : pending[p] \subseteq created
         /\ pending[js] \subseteq subscribers[Token] /\ pending[js] \intersect dropped[js] = {}
         /\ \A c \in Conns, i \in Nat : Accepted(c, i) => i <= last[js]
         /\ \A c \in Conns, i \in Nat : Accepted(c, i) /\ c \in pending[js] => i < last[js]
<1> USE DEF StreamInv, HP!HubInv
<1>1. js \in Ingesters /\ js \notin Stats /\ None # Token
  BY StreamAssumption DEF OneIngester
<1>2. /\ subscribers \in [{Token} -> SUBSET Conns]
      /\ last \in [Ingesters \union Stats -> Nat]
      /\ pc \in [Ingesters \union Stats -> {"idle", "sending", "waiting", "marking"}]
      /\ pending \in [Ingesters \union Stats -> SUBSET Conns]
      /\ dropped \in [Ingesters \union Stats -> SUBSET Conns]
      /\ queue \in [Conns -> Seq((Ingesters \union Stats) \X Nat)]
      /\ accepted \in [Conns -> SUBSET ((Ingesters \union Stats) \X Nat)]
  BY DEF HP!TypeOK, HP!Event
<1>3. /\ \A p \in Ingesters \union Stats : pc[p] # "idle" => topic[p] = Token
      /\ \A p \in Ingesters \union Stats : pc[p] # "sending" => pending[p] = {}
      /\ pc[js] = "sending" => /\ pending[js] \union dropped[js] \subseteq subscribers[topic[js]]
                               /\ pending[js] \intersect dropped[js] = {}
  BY <1>1 DEF HP!PublisherInv
<1>6. \A p \in Ingesters \union Stats : pending[p] \subseteq created
  <2>1. \A p \in Ingesters \union Stats : pc[p] = "sending" => pending[p] \subseteq subscribers[Token]
    BY <1>3 DEF HP!PublisherInv
  <2>2. subscribers[Token] \subseteq created
    BY DEF HP!RegisteredInv
  <2> QED
    BY <1>3, <2>1, <2>2
<1>4. pending[js] \subseteq subscribers[Token] /\ pending[js] \intersect dropped[js] = {}
  BY <1>1, <1>3
<1>5. \A c \in Conns, i \in Nat : Accepted(c, i) =>
        i <= last[js] /\ (c \in pending[js] => i < last[js])
  <2> SUFFICES ASSUME NEW c \in Conns, NEW i \in Nat, Accepted(c, i)
               PROVE  i <= last[js] /\ (c \in pending[js] => i < last[js])
    OBVIOUS
  <2>1. <<js, i>> \in accepted[c] /\ <<js, i>>[1] = js /\ <<js, i>>[2] = i
    BY DEF Accepted
  <2> QED
    BY <2>1 DEF HP!AcceptedInv
<1> QED
  BY <1>1, <1>2, <1>3, <1>4, <1>5, <1>6

-----------------------------------------------------------------------------
(* The types.                                                              *)
LEMMA TypeKept ==
  ASSUME OneIngester, StreamInv, [Next]_vars
  PROVE  StreamType'
<1> USE DEF StreamType
<1>0. StreamType
  BY DEF StreamInv
<1>1. ASSUME NEW p \in Ingesters, Ingest(p)
      PROVE  StreamType'
  <2>1. insert[p] \in [stage : {"idle", "inserting", "inserted"}, id : Nat]
    BY <1>0
  <2>2. CASE BeginInsert(p)
    BY <1>0, <2>1, <2>2 DEF BeginInsert, sessionVars, replayVars, clientVars
  <2>3. CASE CommitInsert(p)
    <3>1. insert[p].id # 0
      BY <2>3 DEF CommitInsert, StreamInv, IngestInv, OneIngester
    <3> QED
      BY <1>0, <2>1, <2>3, <3>1 DEF CommitInsert, sessionVars, replayVars, clientVars
  <2>4. CASE AbortInsert(p) \/ PublishInserted(p) \/ LoseReply(p)
    <3>1. Idle \in [stage : {"idle", "inserting", "inserted"}, id : Nat]
      BY DEF Idle
    <3>2. /\ insert' = [insert EXCEPT ![p] = Idle]
          /\ UNCHANGED <<log, nextLogID, sessionVars, clientVars>>
      BY <2>4 DEF AbortInsert, PublishInserted, LoseReply
    <3>3. insert' \in [Ingesters -> [stage : {"idle", "inserting", "inserted"}, id : Nat]]
      BY <1>0, <3>1, <3>2
    <3> QED
      BY <1>0, <3>2, <3>3 DEF sessionVars, replayVars, clientVars
  <2> QED
    BY <1>1, <2>2, <2>3, <2>4 DEF Ingest
<1>2. CASE UNCHANGED <<logVars, sessionVars, clientVars>>
  BY <1>0, <1>2 DEF logVars, sessionVars, replayVars, clientVars
<1>3. ASSUME NEW c \in Conns, Connect(c)
      PROVE  StreamType'
  <2>1. /\ outCh' \in [Conns -> Seq(Nat)] /\ replay' \in [Conns -> Phases]
        /\ lastLogID' \in [Conns -> Nat] /\ replayMax' \in [Conns -> Nat]
        /\ conn' \in [Conns -> {"unused", "open", "closed", "cleaned"}]
    <3>1. <<>> \in Seq(Nat) /\ <<0>> \in Seq(Nat)
      OBVIOUS
    <3>2. PICK stat \in Seq(Nat) : outCh' = [outCh EXCEPT ![c] = stat]
      BY <1>3, <3>1 DEF Connect, TokenStatSnapshots
    <3>3. outCh' \in [Conns -> Seq(Nat)]
      BY <1>0, <3>2
    <3> QED
      BY <1>0, <1>3, <3>3 DEF Connect, Phases
  <2> QED
    BY <1>0, <1>3, <2>1 DEF Connect, logVars
<1>4. ASSUME NEW c \in Conns, NEW id \in Nat, Enqueue(c, id)
      PROVE  /\ conn' \in [Conns -> {"unused", "open", "closed", "cleaned"}]
             /\ outCh' \in [Conns -> Seq(Nat)]
  <2>1. Append(outCh[c], id) \in Seq(Nat)
    BY <1>0
  <2> QED
    BY <1>0, <1>4, <2>1 DEF Enqueue, CloseConn
<1>5. ASSUME NEW c \in Conns, Disconnect(c) \/ OnClose(c) \/ ReplayFail(c) \/ TakeOverflow(c)
                               \/ TakeEventsClosed(c)
      PROVE  StreamType'
  BY <1>0, <1>5 DEF Disconnect, OnClose, ReplayFail, TakeOverflow, TakeEventsClosed, CloseConn,
                    logVars, replayVars, sessionVars, clientVars
<1>6. ASSUME NEW c \in Conns, Cleanup(c)
      PROVE  StreamType'
  BY <1>0, <1>6 DEF Cleanup, logVars, clientVars, Phases
<1>7. ASSUME NEW c \in Conns, ReplayRead(c)
      PROVE  StreamType'
  <2>1. PICK rows \in Batches(lastLogID[c]) :
          /\ batch' = [batch EXCEPT ![c] = rows]
          /\ replay' = [replay EXCEPT ![c] = IF rows = {} THEN "posted"
                                          ELSE IF Cardinality(rows) < BatchSize THEN "last"
                                          ELSE "full"]
    BY <1>7 DEF ReplayRead
  <2>2. rows \subseteq Nat
    BY <1>0, <2>1 DEF Batches, RowsAbove, Page
  <2>3. batch' \in [Conns -> SUBSET Nat] /\ replay' \in [Conns -> Phases]
    BY <1>0, <2>1, <2>2 DEF Phases
  <2> QED
    BY <1>0, <1>7, <2>3 DEF ReplayRead, logVars, clientVars
<1>8. ASSUME NEW c \in Conns, ReplaySend(c)
      PROVE  StreamType'
  <2>1. PICK id \in batch[c] :
       /\ lastLogID' = [lastLogID EXCEPT ![c] = id]
       /\ batch' = [batch EXCEPT ![c] = @ \ {id}]
       /\ replay' = [replay EXCEPT ![c] = IF batch[c] # {id} THEN @
                                          ELSE IF @ = "full" THEN "reading"
                                          ELSE "posted"]
       /\ Enqueue(c, id)
    BY <1>8 DEF ReplaySend
  <2>2. id \in Nat
    BY <1>0, <2>1
  <2>3. /\ batch' \in [Conns -> SUBSET Nat] /\ replay' \in [Conns -> Phases]
        /\ lastLogID' \in [Conns -> Nat]
    BY <1>0, <2>1, <2>2 DEF Phases
  <2> QED
    BY <1>0, <1>4, <1>8, <2>1, <2>2, <2>3 DEF ReplaySend, logVars, clientVars
<1>9. ASSUME NEW c \in Conns, TakeReplayDone(c)
      PROVE  StreamType'
  BY <1>0, <1>9 DEF TakeReplayDone, logVars, clientVars, Phases
<1>10. ASSUME NEW c \in Conns, Flush(c)
      PROVE  StreamType'
  <2>1. CASE buffered[c] = <<>>
    BY <1>0, <1>10, <2>1 DEF Flush, logVars, clientVars, Phases
  <2>2. CASE buffered[c] # <<>>
    <3>1. Head(buffered[c]) \in Nat /\ Tail(buffered[c]) \in Seq(Nat)
      BY <1>0, <2>2
    <3>2. buffered' \in [Conns -> Seq(Nat)] /\ replay' = replay
      BY <1>0, <1>10, <2>2, <3>1 DEF Flush
    <3>3. /\ conn' \in [Conns -> {"unused", "open", "closed", "cleaned"}]
          /\ outCh' \in [Conns -> Seq(Nat)]
      BY <1>0, <1>4, <1>10, <2>2, <3>1 DEF Flush
    <3> QED
      BY <1>0, <1>10, <3>2, <3>3 DEF Flush, logVars, clientVars
  <2> QED
    BY <2>1, <2>2
<1>11. ASSUME NEW c \in Conns, TakeEvent(c)
       PROVE  StreamType'
  <2> DEFINE id == LogID(Head(queue[c]))
  <2>1. id \in Nat
    <3>1. queue[c] \in Seq((Ingesters \union Stats) \X Nat) /\ queue[c] # <<>>
      BY <1>11, HubFacts DEF TakeEvent, H!Receive
    <3>2. Head(queue[c]) \in (Ingesters \union Stats) \X Nat
      BY <3>1
    <3> QED
      BY <3>2 DEF LogID
  <2> HIDE DEF id
  <2>2. IF ReplayReady(c)
        THEN Enqueue(c, id) /\ UNCHANGED buffered
        ELSE /\ buffered' = [buffered EXCEPT ![c] = Append(@, id)]
             /\ UNCHANGED <<conn, outCh>>
    BY <1>11 DEF TakeEvent, id
  <2>3. buffered' \in [Conns -> Seq(Nat)]
    <3>1. Append(buffered[c], id) \in Seq(Nat)
      BY <1>0, <2>1
    <3> QED
      BY <1>0, <2>2, <3>1
  <2>4. /\ conn' \in [Conns -> {"unused", "open", "closed", "cleaned"}]
        /\ outCh' \in [Conns -> Seq(Nat)]
    BY <1>0, <1>4, <2>1, <2>2
  <2> QED
    BY <1>0, <1>11, <2>3, <2>4 DEF TakeEvent, logVars, clientVars
<1>12. ASSUME NEW c \in Conns, Write(c)
       PROVE  StreamType'
  <2>1. outCh[c] \in Seq(Nat) /\ outCh[c] # <<>>
    BY <1>0, <1>12 DEF Write
  <2>2. Head(outCh[c]) \in Nat /\ Tail(outCh[c]) \in Seq(Nat)
    BY <2>1
  <2>3. outCh' \in [Conns -> Seq(Nat)] /\ received' \subseteq Nat /\ cursor' \in Nat
    BY <1>0, <1>12, <2>2 DEF Write
  <2> QED
    BY <1>0, <1>12, <2>3 DEF Write, logVars, replayVars
<1>13. ASSUME NEW p \in Ingesters \union Stats, PublishStep(p) \/ PublishLock(p) \/ PublishStat(p)
       PROVE  StreamType'
  BY <1>2, <1>13 DEF PublishStep, PublishLock, PublishStat
<1>14. ASSUME NEW c \in Conns, Unsubscribed(c)
       PROVE  StreamType'
  BY <1>2, <1>14 DEF Unsubscribed
<1>15. CASE UNCHANGED vars
  BY <1>2, <1>15 DEF vars
<1> QED
  BY <1>1, <1>3, <1>5, <1>6, <1>7, <1>8, <1>9, <1>10, <1>11, <1>12, <1>13, <1>14, <1>15
     DEF Next, Forward, Replay

-----------------------------------------------------------------------------
LEMMA IngestKept ==
  ASSUME OneIngester, StreamInv, [Next]_vars
  PROVE  IngestInv'
<1>0. IngestInv /\ StreamType
  BY DEF StreamInv
<1>1. insert[js] \in [stage : {"idle", "inserting", "inserted"}, id : Nat] /\ last[js] \in Nat
  BY <1>0, HubFacts DEF StreamType
<1>2. ASSUME NEW p \in Ingesters, Ingest(p)
      PROVE  IngestInv'
  <2>1. p = js
    BY DEF OneIngester
  <2>2. CASE BeginInsert(p)
    <3>1. /\ insert'[js] = [stage |-> "inserting", id |-> nextLogID] /\ nextLogID' = nextLogID + 1
          /\ UNCHANGED <<log, last, pc>> /\ pc[js] = "idle"
      BY <2>1, <2>2, <1>0 DEF BeginInsert, hubVars, StreamType
    <3>2. nextLogID # 0 /\ last[js] < nextLogID
      BY <1>0, <1>1 DEF IngestInv, StreamType, StreamInv, ClientInv
    <3> QED
      BY <1>0, <3>1, <3>2 DEF IngestInv, StreamType
  <2>3. CASE CommitInsert(p)
    <3>1. /\ insert'[js] = [stage |-> "inserted", id |-> insert[js].id]
          /\ insert[js].stage = "inserting" /\ log' = log \union {insert[js].id}
          /\ UNCHANGED <<nextLogID, last, pc>>
      BY <2>1, <2>3, <1>0, <1>1 DEF CommitInsert, hubVars, StreamType
    <3>2. insert'[js].stage = "inserted" /\ insert'[js].id = insert[js].id
      BY <3>1
    <3>3. /\ \A i \in log' : i < nextLogID'
          /\ last'[js] = 0 \/ last'[js] \in log'
          /\ pc'[js] # "idle" => last'[js] # 0
      BY <1>0, <3>1 DEF IngestInv
    <3>4. /\ pc'[js] = "idle" /\ insert'[js].id < nextLogID'
          /\ insert'[js].id # 0 /\ last'[js] < insert'[js].id /\ insert'[js].id \in log'
      BY <1>0, <3>1, <3>2 DEF IngestInv
    <3> QED
      BY <3>2, <3>3, <3>4 DEF IngestInv
  <2>4. CASE AbortInsert(p) \/ LoseReply(p)
    <3>1. insert'[js] = Idle /\ UNCHANGED <<log, nextLogID, last, pc>>
      BY <2>1, <2>4, <1>0 DEF AbortInsert, LoseReply, hubVars, StreamType
    <3> QED
      BY <1>0, <3>1 DEF IngestInv, Idle
  <2>5. CASE PublishInserted(p)
    <3>1. /\ insert'[js] = Idle /\ UNCHANGED <<log, nextLogID>> /\ last'[js] = insert[js].id
          /\ insert[js].stage = "inserted"
      BY <2>1, <2>5, <1>0, HubFacts DEF PublishInserted, H!PublishBegin, StreamType
    <3> QED
      BY <1>0, <3>1 DEF IngestInv, Idle
  <2> QED
    BY <1>2, <2>2, <2>3, <2>4, <2>5 DEF Ingest
<1>3. ASSUME UNCHANGED logVars, last'[js] = last[js], pc[js] = "idle" => pc'[js] = "idle"
      PROVE  IngestInv'
  BY <1>0, <1>3 DEF IngestInv, logVars
<1>4. ASSUME NEW p \in Stats, PublishStat(p)
      PROVE  IngestInv'
  <2>1. p # js
    BY HubFacts
  <2> QED
    BY <1>3, <1>4, <2>1, HubFacts DEF PublishStat, H!PublishBegin
<1>5. ASSUME NEW p \in Ingesters \union Stats, PublishStep(p) \/ PublishLock(p)
      PROVE  IngestInv'
  BY <1>3, <1>5, HubFacts DEF PublishStep, PublishLock, H!PublishStep, H!Send, H!Evict,
       H!PublishRUnlock, H!PublishUnlock, H!PublishLock
<1>6. ASSUME NEW c \in Conns,
             Connect(c) \/ Disconnect(c) \/ OnClose(c) \/ Cleanup(c) \/ Unsubscribed(c)
               \/ Replay(c) \/ ReplayFail(c) \/ Forward(c) \/ Write(c)
      PROVE  UNCHANGED <<logVars, last, pc>>
  BY <1>6 DEF Connect, Disconnect, OnClose, Cleanup, Unsubscribed, Replay, ReplayRead, ReplaySend,
       ReplayFail, Forward, TakeReplayDone, Flush, TakeEvent, TakeOverflow, TakeEventsClosed,
       Write, H!Subscribe, H!Remove, H!Close, H!Receive, H!TakeSignal, H!pubVars, hubVars
<1>7. CASE UNCHANGED vars
  BY <1>3, <1>7 DEF vars, hubVars
<1> QED
  BY <1>2, <1>3, <1>4, <1>5, <1>6, <1>7 DEF Next

-----------------------------------------------------------------------------
(* The hub and the ingester, seen from the open connection.                *)

LEMMA OpenFacts ==
  ASSUME StreamInv, NEW c \in Conns, conn[c] = "open"
  PROVE  /\ OpenInv(c) /\ current = c
         /\ \A d \in Conns : conn[d] = "open" => d = c
BY DEF StreamInv, ClientInv

(* A step that the connection does not take part in.                       *)
LEMMA Frame ==
  ASSUME StreamInv, NEW c \in Conns, conn[c] = "open",
         received' = received, log' = log, Due' \subseteq Due,
         replay'[c] = replay[c], batch'[c] = batch[c], lastLogID'[c] = lastLogID[c],
         replayMax'[c] = replayMax[c], buffered'[c] = buffered[c], outCh'[c] = outCh[c],
         queue'[c] = queue[c], accepted'[c] = accepted[c],
         \A i \in Due : Upcoming(c, i) => Upcoming(c, i)' \/ Gone(c)',
         Gone(c) => Gone(c)'
  PROVE  OpenInv(c)'
<1>1. OpenInv(c)
  BY OpenFacts
<1> USE DEF Accepted, Queued, Held, Seen, Replayed
<1>2. RefsInv(c)'
  BY <1>1 DEF OpenInv, RefsInv
<1>3. ReplayInv(c)'
  BY <1>1 DEF OpenInv, ReplayInv
<1>4. OutInv(c)'
  BY <1>1 DEF OpenInv, OutInv
<1>5. LiveInv(c)'
  BY <1>1 DEF OpenInv, LiveInv
<1>6. AcceptInv(c)'
  BY <1>1 DEF OpenInv, AcceptInv
<1>7. KeptInv(c)'
  BY <1>1 DEF OpenInv, KeptInv
<1>8. HeldInv(c)'
  BY <1>1 DEF OpenInv, HeldInv
<1> QED
  BY <1>2, <1>3, <1>4, <1>5, <1>6, <1>7, <1>8 DEF OpenInv

(* The ingester's row becomes visible: the largest of all.                 *)
LEMMA CommitOpen ==
  ASSUME OneIngester, StreamInv, CommitInsert(js), NEW c \in Conns, conn[c] = "open"
  PROVE  OpenInv(c)'
<1> DEFINE n == insert[js].id
<1>1. OpenInv(c) /\ js \in Ingesters
  BY OpenFacts, HubFacts
<1>2. /\ log' = log \union {n} /\ Due' \subseteq Due \union {n}
      /\ n \in Nat /\ \A i \in log : i < n /\ i \in Nat
      /\ insert'[js].stage = "inserted" /\ insert'[js].id = n
      /\ insert[js].stage = "inserting"
      /\ UNCHANGED <<hubVars, sessionVars, clientVars>>
  BY <1>1 DEF CommitInsert, Due, StreamInv, StreamType, IngestInv
<1> HIDE DEF n
<1> USE DEF hubVars, sessionVars, replayVars, clientVars
<1>3. lastLogID[c] \in log /\ batch[c] \subseteq log
  BY <1>1 DEF OpenInv, RefsInv
<1>4. RefsInv(c)'
  BY <1>1, <1>2 DEF OpenInv, RefsInv, Accepted
<1>5. ReplayInv(c)'
  <2>1. \A i \in Due' : i <= lastLogID[c] => i \in Due
    BY <1>2, <1>3
  <2>2. \A i \in log', j \in batch[c] : i <= j => i \in log
    BY <1>2, <1>3
  <2> QED
    BY <1>1, <1>2, <2>1, <2>2 DEF OpenInv, ReplayInv, Seen
<1>6. OutInv(c)'
  <2>1. \A k \in 1..Len(outCh[c]) : outCh[c][k] = 0 \/ outCh[c][k] \in log
    BY <1>1 DEF OpenInv, RefsInv
  <2>2. \A k \in 1..Len(outCh[c]) : outCh[c][k] # 0 => \A i \in Due' : i < outCh[c][k] => i \in Due
    BY <1>2, <2>1
  <2> QED
    BY <1>1, <1>2, <2>2 DEF OpenInv, OutInv
<1>7. LiveInv(c)'
  <2> SUFFICES ASSUME NEW i \in Due'
               PROVE  (Replayed(c, i) \/ Accepted(c, i) \/ Upcoming(c, i) \/ Gone(c))'
    BY DEF LiveInv
  <2>1. i = n => Upcoming(c, i)'
    BY <1>2 DEF Upcoming
  <2>2. Upcoming(c, i) => Upcoming(c, i)'
    BY <1>2 DEF Upcoming
  <2>3. i \in Due \/ i = n
    BY <1>2
  <2>4. i \in Due => Replayed(c, i) \/ Accepted(c, i) \/ Upcoming(c, i) \/ Gone(c)
    BY <1>1 DEF OpenInv, LiveInv
  <2> QED
    BY <1>2, <2>1, <2>2, <2>3, <2>4 DEF Replayed, Accepted, Gone
<1>8. AcceptInv(c)'
  <2>1. \A e \in Nat : Accepted(c, e) => e \in log
    BY <1>1 DEF OpenInv, RefsInv
  <2>2. \A e \in Nat, i \in Due' : Accepted(c, e) /\ i < e => i \in Due
    BY <1>2, <2>1
  <2> QED
    BY <1>1, <1>2, <2>2 DEF OpenInv, AcceptInv, Replayed, Accepted
<1>9. KeptInv(c)' /\ HeldInv(c)'
  BY <1>1, <1>2 DEF OpenInv, KeptInv, HeldInv, Accepted, Held, Seen, Queued
<1> QED
  BY <1>4, <1>5, <1>6, <1>7, <1>8, <1>9 DEF OpenInv

(* Publish sends an event to the connection's subscription.                *)
LEMMA AcceptOpen ==
  ASSUME OneIngester, StreamInv, NEW p \in Ingesters \union Stats, NEW c \in Conns,
         conn[c] = "open", H!Send(p, c), H!Accept(p, c),
         UNCHANGED <<logVars, sessionVars, clientVars>>
  PROVE  OpenInv(c)'
<1> DEFINE n == last[p]
           q == queue[c]
<1>1. OpenInv(c) /\ js \in Ingesters /\ StreamType /\ IngestInv
  BY OpenFacts, HubFacts DEF StreamInv
<1>2. /\ queue'[c] = Append(q, <<p, n>>) /\ accepted'[c] = accepted[c] \union {<<p, n>>}
      /\ c \in pending[p] /\ last' = last /\ subscribers' = subscribers /\ dropped' = dropped
      /\ pending'[p] = pending[p] \ {c} /\ \A r \in Ingesters \union Stats : r # p => pending'[r] = pending[r]
  BY HubFacts DEF H!Send, H!Accept, H!Current
<1>3. /\ q \in Seq((Ingesters \union Stats) \X Nat) /\ n \in Nat /\ <<p, n>> \in (Ingesters \union Stats) \X Nat
      /\ <<p, n>>[1] = p /\ <<p, n>>[2] = n
  BY HubFacts
<1>4. /\ Len(Append(q, <<p, n>>)) = Len(q) + 1 /\ Len(q) \in Nat
      /\ \A k \in 1..Len(q) : Append(q, <<p, n>>)[k] = q[k]
      /\ Append(q, <<p, n>>)[Len(q) + 1] = <<p, n>>
  BY <1>3
<1>5. /\ received' = received /\ log' = log /\ Due' = Due /\ insert' = insert
      /\ replay' = replay /\ batch' = batch /\ lastLogID' = lastLogID
      /\ replayMax' = replayMax /\ buffered' = buffered /\ outCh' = outCh
  BY DEF logVars, sessionVars, replayVars, clientVars, Due
<1>6. p = js => /\ n \in log /\ insert[js].stage = "idle" /\ ~Gone(c)
                /\ \A i \in Nat : Accepted(c, i) => i < n
  <2> SUFFICES ASSUME p = js
               PROVE  /\ n \in log /\ insert[js].stage = "idle" /\ ~Gone(c)
                      /\ \A i \in Nat : Accepted(c, i) => i < n
    OBVIOUS
  <2>1. pc[js] # "idle" /\ ~Gone(c) /\ \A i \in Nat : Accepted(c, i) => i < n
    BY <1>2, HubFacts DEF Gone
  <2>2. insert[js].stage = "idle" /\ n \in log
    BY <1>1, <2>1 DEF IngestInv
  <2> QED
    BY <2>1, <2>2
<1> HIDE DEF q, n
<1>7. \A i \in Nat : Accepted(c, i)' <=> Accepted(c, i) \/ (p = js /\ i = n)
  BY <1>2 DEF Accepted
<1>8. \A i \in Nat : Queued(c, i)' <=> Queued(c, i) \/ (p = js /\ i = n)
  <2> SUFFICES ASSUME NEW i \in Nat
               PROVE  Queued(c, i)' <=> Queued(c, i) \/ (p = js /\ i = n)
    OBVIOUS
  <2>1. Queued(c, i) => Queued(c, i)'
    <3> SUFFICES ASSUME NEW k \in 1..Len(q), q[k] = <<js, i>>
                 PROVE  Queued(c, i)'
      BY DEF Queued, q
    <3>1. k \in 1..Len(queue'[c]) /\ queue'[c][k] = <<js, i>>
      BY <1>2, <1>4
    <3> QED
      BY <3>1 DEF Queued
  <2>2. p = js /\ i = n => Queued(c, i)'
    BY <1>2, <1>4 DEF Queued
  <2>3. Queued(c, i)' => Queued(c, i) \/ (p = js /\ i = n)
    <3> SUFFICES ASSUME NEW k \in 1..Len(queue'[c]), queue'[c][k] = <<js, i>>
                 PROVE  Queued(c, i) \/ (p = js /\ i = n)
      BY DEF Queued
    <3>1. k \in 1..Len(q) \/ k = Len(q) + 1
      BY <1>2, <1>4
    <3> QED
      BY <1>2, <1>4, <3>1 DEF Queued, q
  <2> QED
    BY <2>1, <2>2, <2>3
<1>9. \A i \in Due : Replayed(c, i)' <=> Replayed(c, i)
  BY <1>5 DEF Replayed
<1>10. RefsInv(c)'
  <2>1. \A k \in 1..Len(queue'[c]) : queue'[c][k] \in accepted'[c]
    <3> SUFFICES ASSUME NEW k \in 1..Len(queue'[c])
                 PROVE  queue'[c][k] \in accepted'[c]
      OBVIOUS
    <3>1. k \in 1..Len(q) \/ k = Len(q) + 1
      BY <1>2, <1>4
    <3>2. \A l \in 1..Len(q) : q[l] \in accepted[c]
      BY <1>1 DEF OpenInv, RefsInv, q
    <3> QED
      BY <1>2, <1>4, <3>1, <3>2
  <2>2. \A k \in 1..Len(buffered[c]) : buffered[c][k] \in Nat
    BY <1>1 DEF StreamType
  <2> QED
    BY <1>1, <1>5, <1>6, <1>7, <2>1, <2>2 DEF OpenInv, RefsInv
<1>11. ReplayInv(c)' /\ OutInv(c)'
  BY <1>1, <1>5 DEF OpenInv, ReplayInv, OutInv, Seen
<1>12. \A i \in Due : i \in Nat
  BY <1>1 DEF StreamType, Due
<1>13. LiveInv(c)'
  <2> SUFFICES ASSUME NEW i \in Due
               PROVE  (Replayed(c, i) \/ Accepted(c, i) \/ Upcoming(c, i) \/ Gone(c))'
    BY <1>5 DEF LiveInv
  <2>1. Gone(c) => Gone(c)'
    BY <1>2 DEF Gone
  <2>2. Upcoming(c, i) => Upcoming(c, i)' \/ Accepted(c, i)'
    BY <1>1, <1>2, <1>5, <1>7, <1>12 DEF Upcoming, n
  <2>3. Replayed(c, i) \/ Accepted(c, i) \/ Upcoming(c, i) \/ Gone(c)
    BY <1>1 DEF OpenInv, LiveInv
  <2> QED
    BY <1>7, <1>9, <1>12, <2>1, <2>2, <2>3
<1>14. AcceptInv(c)'
  <2> SUFFICES ASSUME NEW e \in Nat, NEW i \in Due, Accepted(c, e)', i < e
               PROVE  (Replayed(c, i) \/ Accepted(c, i))'
    BY <1>5 DEF AcceptInv
  <2>1. CASE Accepted(c, e)
    BY <1>1, <1>7, <1>9, <1>12, <2>1 DEF OpenInv, AcceptInv
  <2>2. CASE p = js /\ e = n
    <3>1. ~Upcoming(c, i) /\ ~Gone(c)
      BY <1>6, <1>12, <2>2 DEF Upcoming, n
    <3>2. Replayed(c, i) \/ Accepted(c, i)
      BY <1>1, <3>1 DEF OpenInv, LiveInv
    <3> QED
      BY <1>7, <1>9, <1>12, <3>2
  <2> QED
    BY <1>7, <2>1, <2>2
<1>15. KeptInv(c)'
  BY <1>1, <1>5, <1>7, <1>8 DEF OpenInv, KeptInv, Held, Seen
<1>16. HeldInv(c)'
  <2>1. /\ \A j, k \in 1..Len(buffered[c]) :
             j < k /\ buffered[c][j] # 0 /\ buffered[c][k] # 0 => buffered[c][j] < buffered[c][k]
        /\ \A j, k \in 1..Len(q) :
             j < k /\ q[j][1] = js /\ q[k][1] = js => q[j][2] < q[k][2]
        /\ \A j \in 1..Len(buffered[c]), k \in 1..Len(q) :
             buffered[c][j] # 0 /\ q[k][1] = js => buffered[c][j] < q[k][2]
    BY <1>1 DEF OpenInv, HeldInv, q
  <2>2. p = js => \A j \in 1..Len(q) : q[j][1] = js => q[j][2] < n
    <3> SUFFICES ASSUME p = js, NEW j \in 1..Len(q), q[j][1] = js
                 PROVE  q[j][2] < n
      OBVIOUS
    <3>1. q[j] \in accepted[c] /\ q[j] = <<js, q[j][2]>> /\ q[j][2] \in Nat
      BY <1>1, <1>3 DEF OpenInv, RefsInv, q
    <3> QED
      BY <1>6, <3>1 DEF Accepted
  <2>3. p = js => \A j \in 1..Len(buffered[c]) : buffered[c][j] # 0 => buffered[c][j] < n
    BY <1>1, <1>6 DEF OpenInv, RefsInv, StreamType
  <2>4. \A k \in 1..Len(queue'[c]) : k \in 1..Len(q) \/ k = Len(q) + 1
    BY <1>2, <1>4
  <2>5. \A j, k \in 1..Len(queue'[c]) :
          j < k /\ queue'[c][j][1] = js /\ queue'[c][k][1] = js => queue'[c][j][2] < queue'[c][k][2]
    BY <1>2, <1>3, <1>4, <2>1, <2>2, <2>4
  <2>6. \A j \in 1..Len(buffered[c]), k \in 1..Len(queue'[c]) :
          buffered[c][j] # 0 /\ queue'[c][k][1] = js => buffered[c][j] < queue'[c][k][2]
    BY <1>2, <1>3, <1>4, <2>1, <2>3, <2>4
  <2> QED
    BY <1>5, <2>1, <2>5, <2>6 DEF HeldInv
<1> QED
  BY <1>10, <1>11, <1>13, <1>14, <1>15, <1>16 DEF OpenInv

LEMMA DropOpen ==
  ASSUME OneIngester, StreamInv, NEW p \in Ingesters \union Stats, NEW d \in Conns,
         H!Send(p, d), UNCHANGED <<logVars, sessionVars, clientVars>>,
         NEW c \in Conns, conn[c] = "open", d # c \/ H!Drop(p, d)
  PROVE  OpenInv(c)'
<1>1. /\ last' = last /\ subscribers' = subscribers
      /\ pending'[js] = pending[js] \ (IF p = js THEN {d} ELSE {})
      /\ dropped[js] \subseteq dropped'[js]
      /\ p = js /\ H!Drop(p, d) => d \in dropped'[js]
  BY HubFacts DEF H!Send, H!Accept, H!Drop
<1>2. queue'[c] = queue[c] /\ accepted'[c] = accepted[c]
  BY HubFacts DEF H!Send, H!Accept, H!Drop
<1>3. Gone(c) => Gone(c)'
  BY <1>1 DEF Gone
<1>4. \A i \in Due : Upcoming(c, i) => Upcoming(c, i)' \/ Gone(c)'
  BY <1>1 DEF Upcoming, Gone, logVars
<1> QED
  BY <1>2, <1>3, <1>4, Frame DEF logVars, sessionVars, replayVars, clientVars, Due

(* A step of the ingester or of the hub keeps what holds of the open       *)
(* connection.                                                             *)
LEMMA HubStepOpen ==
  ASSUME OneIngester, StreamInv, NEW c \in Conns, conn[c] = "open",
         \/ \E p \in Ingesters : Ingest(p)
         \/ \E p \in Stats : PublishStat(p)
         \/ \E p \in Ingesters \union Stats : PublishStep(p) \/ PublishLock(p)
         \/ \E d \in Conns : Unsubscribed(d)
  PROVE  OpenInv(c)'
<1> USE DEF logVars, sessionVars, replayVars, clientVars, Due
<1>1. /\ js \in Ingesters /\ js \notin Stats
      /\ last \in [Ingesters \union Stats -> Nat]
      /\ pending \in [Ingesters \union Stats -> SUBSET Conns]
      /\ dropped \in [Ingesters \union Stats -> SUBSET Conns]
      /\ subscribers \in [{Token} -> SUBSET Conns]
  BY HubFacts
<1>2. CASE \E p \in Ingesters : Ingest(p)
  <2>1. Ingest(js)
    BY <1>2 DEF OneIngester
  <2>2. insert[js] \in [stage : {"idle", "inserting", "inserted"}, id : Nat]
        /\ insert \in [Ingesters -> [stage : {"idle", "inserting", "inserted"}, id : Nat]]
    BY <1>1 DEF StreamInv, StreamType
  <2>3. CASE CommitInsert(js)
    BY <2>3, CommitOpen
  <2>4. CASE BeginInsert(js) \/ AbortInsert(js)
    <3>1. insert[js].stage # "inserted"
      BY <2>4 DEF BeginInsert, AbortInsert
    <3>2. \A i \in Due : Upcoming(c, i) => Upcoming(c, i)'
      BY <2>4, <3>1 DEF Upcoming, BeginInsert, AbortInsert, hubVars
    <3> QED
      BY <2>4, <3>2, Frame DEF BeginInsert, AbortInsert, hubVars, Gone
  <2>5. CASE LoseReply(js)
    <3>1. UNCHANGED hubVars /\ log' = log /\ Due' \subseteq Due \ {insert[js].id}
      BY <2>5 DEF LoseReply
    <3>2. /\ lastLogID' = lastLogID /\ replay' = replay /\ batch' = batch /\ received' = received
          /\ replayMax' = replayMax /\ buffered' = buffered /\ outCh' = outCh /\ conn' = conn
      BY <2>5 DEF LoseReply
    <3>3. LiveInv(c)'
      <4> SUFFICES ASSUME NEW i \in Due'
                   PROVE  (Replayed(c, i) \/ Accepted(c, i) \/ Upcoming(c, i) \/ Gone(c))'
        BY DEF LiveInv
      <4>1. i \in Due /\ i # insert[js].id
        BY <3>1
      <4>2. Replayed(c, i) \/ Accepted(c, i) \/ Upcoming(c, i) \/ Gone(c)
        BY <4>1, OpenFacts DEF OpenInv, LiveInv
      <4> QED
        BY <3>1, <3>2, <4>1, <4>2 DEF Replayed, Accepted, Upcoming, Gone, hubVars
    <3>4. (RefsInv(c) /\ ReplayInv(c) /\ OutInv(c))'
      BY <3>1, <3>2, OpenFacts DEF OpenInv, RefsInv, ReplayInv, OutInv, Seen, Accepted, hubVars
    <3>5. (AcceptInv(c) /\ KeptInv(c) /\ HeldInv(c))'
      BY <3>1, <3>2, OpenFacts DEF OpenInv, AcceptInv, KeptInv, HeldInv, Seen, Held, Queued, Replayed,
                                   Accepted, hubVars
    <3> QED
      BY <3>3, <3>4, <3>5 DEF OpenInv
  <2>6. CASE PublishInserted(js)
    <3>1. /\ last'[js] = insert[js].id /\ pending'[js] = subscribers[Token]
          /\ subscribers' = subscribers /\ dropped' = dropped
          /\ queue' = queue /\ accepted' = accepted
          /\ pc[js] = "idle"
      BY <1>1, <2>6 DEF PublishInserted, H!PublishBegin, H!subVars, H!history
    <3>2. pending[js] = {}
      BY <3>1, HubFacts
    <3>3. \A i \in Due : Upcoming(c, i) => Upcoming(c, i)' \/ Gone(c)'
      BY <3>1, <3>2 DEF Upcoming, Gone
    <3> QED
      BY <2>6, <3>1, <3>3, Frame DEF PublishInserted, Gone
  <2> QED
    BY <2>1, <2>3, <2>4, <2>5, <2>6 DEF Ingest
<1>3. ASSUME NEW p \in Stats, PublishStat(p)
      PROVE  OpenInv(c)'
  <2>1. /\ last'[js] = last[js] /\ pending'[js] = pending[js] /\ insert' = insert
        /\ subscribers' = subscribers /\ dropped' = dropped /\ queue' = queue /\ accepted' = accepted
    BY <1>1, <1>3 DEF PublishStat, H!PublishBegin, H!subVars, H!history
  <2> QED
    BY <1>3, <2>1, Frame DEF PublishStat, Gone, Upcoming
<1>4. ASSUME NEW p \in Ingesters \union Stats, PublishStep(p) \/ PublishLock(p)
      PROVE  OpenInv(c)'
  <2>0. UNCHANGED <<logVars, sessionVars, clientVars>>
    BY <1>4 DEF PublishStep, PublishLock
  <2>1. ASSUME NEW d \in Conns, H!Send(p, d)
        PROVE  OpenInv(c)'
    <3>1. CASE d # c \/ H!Drop(p, d)
      BY <2>0, <2>1, <3>1, DropOpen
    <3>2. CASE d = c /\ H!Accept(p, c)
      BY <2>0, <2>1, <3>2, AcceptOpen
    <3> QED
      BY <2>1, <3>1, <3>2 DEF H!Send
  <2>2. ASSUME NEW d \in Conns, H!Evict(p, d)
        PROVE  OpenInv(c)'
    <3>1. topic[p] = Token
      BY <2>2, HubFacts DEF H!Evict
    <3>2. /\ subscribers'[Token] = subscribers[Token] \ {d}
          /\ dropped[js] \ {d} \subseteq dropped'[js]
          /\ pending' = pending /\ last' = last /\ queue' = queue /\ accepted' = accepted
      BY <1>1, <2>2, <3>1 DEF H!Evict, H!history
    <3> QED
      BY <2>0, <3>2, Frame DEF Gone, Upcoming
  <2>3. CASE H!PublishRUnlock(p) \/ H!PublishUnlock(p) \/ H!PublishLock(p)
    <3>1. UNCHANGED <<subscribers, dropped, pending, last, queue, accepted>>
      BY <2>3 DEF H!PublishRUnlock, H!PublishUnlock, H!PublishLock, H!subVars, H!history
    <3> QED
      BY <2>0, <3>1, Frame DEF Gone, Upcoming
  <2> QED
    BY <1>4, <2>1, <2>2, <2>3 DEF PublishStep, PublishLock, H!PublishStep
<1>5. ASSUME NEW d \in Conns, Unsubscribed(d)
      PROVE  OpenInv(c)'
  <2>1. UNCHANGED <<subscribers, dropped, pending, last, queue, accepted>>
    BY <1>5 DEF Unsubscribed, H!Close, H!pubVars, H!history
  <2> QED
    BY <1>5, <2>1, Frame DEF Unsubscribed, Gone, Upcoming
<1> QED
  BY <1>2, <1>3, <1>4, <1>5

(* What has not been dialled stays fresh.                                  *)
LEMMA FreshKept ==
  ASSUME OneIngester, StreamInv, [Next]_vars, NEW c \in Conns, conn'[c] = "unused"
  PROVE  Fresh(c)'
<1>0. StreamType /\ \A d \in Conns : conn[d] = "unused" => Fresh(d)
  BY DEF StreamInv, ClientInv
<1> USE DEF StreamType
<1>1. ASSUME conn[c] = "unused",
             c \notin created', accepted'[c] = accepted[c], queue'[c] = queue[c],
             batch'[c] = batch[c], buffered'[c] = buffered[c]
      PROVE  Fresh(c)'
  BY <1>0, <1>1 DEF Fresh
<1>2. ASSUME NEW p \in Ingesters, Ingest(p)
      PROVE  Fresh(c)'
  BY <1>0, <1>1, <1>2 DEF Ingest, BeginInsert, CommitInsert, AbortInsert, PublishInserted, LoseReply,
       hubVars, sessionVars, replayVars, H!PublishBegin, H!subVars, H!history, Fresh
<1>3. ASSUME NEW p \in Stats, PublishStat(p)
      PROVE  Fresh(c)'
  BY <1>0, <1>1, <1>3 DEF PublishStat, sessionVars, replayVars, H!PublishBegin, H!subVars, H!history,
       Fresh
<1>4. ASSUME NEW p \in Ingesters \union Stats, PublishStep(p) \/ PublishLock(p)
      PROVE  Fresh(c)'
  <2>0. conn' = conn /\ batch' = batch /\ buffered' = buffered
    BY <1>4 DEF PublishStep, PublishLock, sessionVars, replayVars
  <2>1. ASSUME NEW d \in Conns, H!Send(p, d)
        PROVE  Fresh(c)'
    <3>1. d \in created
      BY <2>1, HubFacts DEF H!Send
    <3>2. d # c
      BY <1>0, <2>0, <3>1 DEF Fresh
    <3>3. created' = created /\ accepted'[c] = accepted[c] /\ queue'[c] = queue[c]
      BY <2>1, <3>2, HubFacts DEF H!Send, H!Accept, H!Drop
    <3> QED
      BY <1>0, <1>1, <2>0, <3>3 DEF Fresh
  <2>2. CASE ~(\E d \in Conns : H!Send(p, d))
    <3>1. UNCHANGED <<created, accepted, queue>>
      BY <1>4, <2>2 DEF PublishStep, PublishLock, H!PublishStep, H!Evict, H!PublishRUnlock,
           H!PublishUnlock, H!PublishLock, H!subVars, H!history
    <3> QED
      BY <1>0, <1>1, <2>0, <3>1 DEF Fresh
  <2> QED
    BY <2>1, <2>2
<1>5. ASSUME NEW d \in Conns, Connect(d)
      PROVE  Fresh(c)'
  <2>1. d # c /\ conn[c] = "unused"
    BY <1>0, <1>5 DEF Connect
  <2> QED
    BY <1>0, <1>1, <1>5, <2>1 DEF Connect, H!Subscribe, H!history, Fresh
<1>6. ASSUME NEW d \in Conns, Cleanup(d)
      PROVE  Fresh(c)'
  <2>1. d # c /\ conn[c] = "unused"
    BY <1>0, <1>6 DEF Cleanup
  <2> QED
    BY <1>0, <1>1, <1>6, <2>1 DEF Cleanup, H!Remove, H!subVars, H!history, Fresh
<1>7. ASSUME NEW d \in Conns, Unsubscribed(d) \/ OnClose(d)
      PROVE  Fresh(c)'
  BY <1>0, <1>1, <1>7 DEF Unsubscribed, OnClose, H!Close, H!history, Fresh, hubVars, sessionVars,
       replayVars
<1>8. ASSUME NEW d \in Conns,
             Disconnect(d) \/ Replay(d) \/ ReplayFail(d) \/ Forward(d) \/ Write(d)
      PROVE  Fresh(c)'
  <2>1. conn[d] = "open" /\ conn[c] = "unused" /\ d # c
    <3>1. conn[d] = "open" /\ (conn' = conn \/ conn' = [conn EXCEPT ![d] = "closed"])
      BY <1>8 DEF Disconnect, Replay, ReplayRead, ReplaySend, ReplayFail, Forward, TakeReplayDone,
           Flush, TakeEvent, TakeOverflow, TakeEventsClosed, Write, Selecting, Enqueue, CloseConn,
           sessionVars
    <3> QED
      BY <1>0, <3>1
  <2>2. created' = created /\ accepted' = accepted /\ queue'[c] = queue[c]
    BY <1>8, <2>1, HubFacts DEF Disconnect, Replay, ReplayRead, ReplaySend, ReplayFail, Forward,
         TakeReplayDone, Flush, TakeEvent, TakeOverflow, TakeEventsClosed, Write, hubVars,
         H!Receive, H!TakeSignal, H!history
  <2>3. batch'[c] = batch[c] /\ buffered'[c] = buffered[c]
    BY <1>0, <1>8, <2>1 DEF Disconnect, Replay, ReplayRead, ReplaySend, ReplayFail, Forward,
         TakeReplayDone, Flush, TakeEvent, TakeOverflow, TakeEventsClosed, Write, replayVars
  <2> QED
    BY <1>0, <1>1, <2>1, <2>2, <2>3 DEF Fresh
<1>9. CASE UNCHANGED vars
  BY <1>0, <1>1, <1>9 DEF vars, hubVars, sessionVars, replayVars, Fresh
<1> QED
  BY <1>2, <1>3, <1>4, <1>5, <1>6, <1>7, <1>8, <1>9 DEF Next

-----------------------------------------------------------------------------
(* The steps of the session and of the browser.                            *)

(* The client dials: what is missing will be read by the replay.           *)
LEMMA ConnectOpen ==
  ASSUME OneIngester, StreamInv, NEW c \in Conns, Connect(c)
  PROVE  OpenInv(c)'
<1>1. StreamType /\ Fresh(c) /\ cursor \in log /\ NoHole /\ received \subseteq log
  BY DEF Connect, StreamInv, ClientInv
<1> USE DEF StreamType
<1>2. PICK stat \in TokenStatSnapshots : outCh' = [outCh EXCEPT ![c] = stat]
  BY DEF Connect
<1>3. /\ replay'[c] = "reading" /\ lastLogID'[c] = cursor /\ batch'[c] = {} /\ buffered'[c] = <<>>
      /\ queue'[c] = <<>> /\ accepted'[c] = {}
      /\ log' = log /\ Due' = Due /\ received' = received
  <2>1. cursor > 0
    BY <1>1
  <2> QED
    BY <1>1, <2>1 DEF Connect, NeedsReplay, Fresh, H!Subscribe, H!history, logVars, Due
<1>4. outCh'[c] = stat /\ \A k \in 1..Len(stat) : stat[k] = 0
  BY <1>1, <1>2 DEF TokenStatSnapshots
<1>5. RefsInv(c)'
  BY <1>1, <1>3, <1>4 DEF RefsInv, Accepted
<1>6. ReplayInv(c)'
  BY <1>1, <1>3 DEF ReplayInv, Seen, NoHole, Due
<1>7. OutInv(c)'
  BY <1>4 DEF OutInv
<1>8. (LiveInv(c) /\ AcceptInv(c) /\ KeptInv(c) /\ HeldInv(c))'
  BY <1>3 DEF LiveInv, AcceptInv, KeptInv, HeldInv, Replayed, Accepted
<1> QED
  BY <1>5, <1>6, <1>7, <1>8 DEF OpenInv

(* Nothing of the hub, the log or the client changes.                      *)
Aside == UNCHANGED <<hubVars, logVars, received>>

LEMMA AsideFacts ==
  ASSUME Aside
  PROVE  /\ UNCHANGED <<subscribers, dropped, pending, last, queue, accepted>>
         /\ UNCHANGED <<log, insert, received>> /\ Due' = Due
BY DEF Aside, hubVars, logVars, Due

LEMMA ReplayReadOpen ==
  ASSUME OneIngester, StreamInv, NEW c \in Conns, ReplayRead(c)
  PROVE  OpenInv(c)'
<1>1. StreamType /\ OpenInv(c)
  BY OpenFacts DEF StreamInv, ReplayRead
<1>2. /\ UNCHANGED <<subscribers, dropped, pending, last, queue, accepted>>
      /\ UNCHANGED <<log, insert, received>> /\ Due' = Due
      /\ UNCHANGED <<lastLogID, replayMax, buffered, outCh>>
  BY AsideFacts DEF ReplayRead, Aside, clientVars
<1>3. PICK rows \in Batches(lastLogID[c]) :
        /\ batch' = [batch EXCEPT ![c] = rows]
        /\ replay' = [replay EXCEPT ![c] = IF rows = {} THEN "posted"
                                        ELSE IF Cardinality(rows) < BatchSize THEN "last"
                                        ELSE "full"]
  BY DEF ReplayRead
<1>4. /\ replay[c] = "reading" /\ batch'[c] = rows
      /\ replay'[c] = IF rows = {} THEN "posted"
                      ELSE IF Cardinality(rows) < BatchSize THEN "last" ELSE "full"
  BY <1>1, <1>3 DEF ReplayRead, StreamType
<1>5. /\ rows \subseteq RowsAbove(lastLogID[c])
      /\ \A j \in rows, i \in log : i > lastLogID[c] /\ i <= j => i \in rows
      /\ rows = RowsAbove(lastLogID[c]) \/ (rows # {} /\ Cardinality(rows) = BatchSize)
  <2> DEFINE id == lastLogID[c]
  <2>1. log \subseteq Nat /\ id \in Nat
    BY <1>1 DEF StreamType
  <2> HIDE DEF id
  <2>2. CASE rows = RowsAbove(id)
    BY <2>1, <2>2 DEF RowsAbove, id
  <2>3. ASSUME NEW to \in RowsAbove(id), rows = Page(id, to), Cardinality(rows) = BatchSize
        PROVE  /\ rows \subseteq RowsAbove(id) /\ rows # {}
               /\ \A j \in rows, i \in log : i > id /\ i <= j => i \in rows
    <3>1. to \in rows /\ rows \subseteq RowsAbove(id)
      BY <2>1, <2>3 DEF Page, RowsAbove
    <3>2. \A j \in rows, i \in log : i > id /\ i <= j => i \in rows
      BY <2>1, <2>3 DEF Page, RowsAbove
    <3> QED
      BY <3>1, <3>2
  <2>4. \/ rows = RowsAbove(id)
        \/ \E to \in RowsAbove(id) : rows = Page(id, to) /\ Cardinality(rows) = BatchSize
    BY <1>3 DEF Batches, id
  <2> QED
    BY <2>2, <2>3, <2>4 DEF id
<1>6. \A i \in log : Replayed(c, i)'
  <2> SUFFICES ASSUME NEW i \in log, ~(i <= lastLogID[c]), i \notin rows
               PROVE  replay'[c] \in {"reading", "full"}
    BY <1>2, <1>4 DEF Replayed
  <2>1. i \in RowsAbove(lastLogID[c])
    BY <1>1 DEF RowsAbove, StreamType
  <2>2. rows # {} /\ Cardinality(rows) = BatchSize /\ ~(BatchSize < BatchSize)
    BY <1>5, <2>1, StreamAssumption
  <2> QED
    BY <1>4, <2>2
<1>7. Due \subseteq log
  BY DEF Due
<1>8. RefsInv(c)'
  BY <1>1, <1>2, <1>4, <1>5 DEF OpenInv, RefsInv, Accepted, RowsAbove
<1>9. ReplayInv(c)'
  BY <1>1, <1>2, <1>4, <1>5 DEF OpenInv, ReplayInv, Seen, RowsAbove
<1>10. OutInv(c)' /\ HeldInv(c)'
  BY <1>1, <1>2 DEF OpenInv, OutInv, HeldInv
<1>11. LiveInv(c)' /\ AcceptInv(c)'
  BY <1>2, <1>6, <1>7 DEF LiveInv, AcceptInv
<1>12. KeptInv(c)'
  BY <1>1, <1>2, <1>4 DEF OpenInv, KeptInv, Accepted, Held, Queued, Seen
<1> QED
  BY <1>8, <1>9, <1>10, <1>11, <1>12 DEF OpenInv

(* What enters outCh comes after all the rows before it.                   *)
LEMMA EnqueueOut ==
  ASSUME StreamInv, NEW c \in Conns, conn[c] = "open", NEW id \in Nat,
         Enqueue(c, id), conn'[c] = "open", received' = received, log' = log, Due' = Due,
         id # 0 => \A i \in Due : i < id => Seen(c, i)
  PROVE  /\ OutInv(c)'
         /\ \A i : Seen(c, i)' <=> Seen(c, i) \/ i = id
         /\ id = 0 \/ id \in log =>
              \A k \in 1..Len(outCh'[c]) : outCh'[c][k] = 0 \/ outCh'[c][k] \in log
<1> DEFINE s == outCh[c]
<1>1. StreamType /\ OpenInv(c)
  BY OpenFacts DEF StreamInv
<1>2. outCh' = [outCh EXCEPT ![c] = Append(@, id)]
  BY <1>1 DEF Enqueue, CloseConn, StreamType
<1>3. outCh'[c] = Append(s, id) /\ s \in Seq(Nat)
  BY <1>1, <1>2 DEF StreamType
<1> HIDE DEF s
<1>4. /\ Len(s) \in Nat /\ Len(outCh'[c]) = Len(s) + 1
      /\ \A k \in 1..Len(s) : outCh'[c][k] = s[k]
      /\ outCh'[c][Len(s) + 1] = id
  BY <1>3
<1>5. \A k \in 1..Len(outCh'[c]) : k \in 1..Len(s) \/ k = Len(s) + 1
  BY <1>4
<1>6. ASSUME NEW i
      PROVE  Seen(c, i)' <=> Seen(c, i) \/ i = id
  <2>1. In(outCh'[c], i) <=> In(s, i) \/ i = id
    BY <1>3, InAppend
  <2> QED
    BY <2>1 DEF Seen, s
<1>7. OutInv(c)'
  <2> SUFFICES ASSUME NEW k \in 1..Len(outCh'[c]), outCh'[c][k] # 0, NEW i \in Due,
                      i < outCh'[c][k], i \notin received
               PROVE  \E j \in 1..(k - 1) : outCh'[c][j] = i
    BY DEF OutInv
  <2>1. CASE k \in 1..Len(s)
    <3>1. PICK j \in 1..(k - 1) : s[j] = i
      BY <1>1, <1>4, <2>1 DEF OpenInv, OutInv, s
    <3> QED
      BY <1>4, <2>1, <3>1
  <2>2. CASE k = Len(s) + 1
    <3>1. In(s, i)
      BY <1>4, <2>2 DEF Seen, s
    <3>2. PICK j \in 1..Len(s) : s[j] = i
      BY <3>1 DEF In
    <3> QED
      BY <1>4, <2>2, <3>2
  <2> QED
    BY <1>5, <2>1, <2>2
<1>8. id = 0 \/ id \in log =>
        \A k \in 1..Len(outCh'[c]) : outCh'[c][k] = 0 \/ outCh'[c][k] \in log
  BY <1>1, <1>4, <1>5 DEF OpenInv, RefsInv, s
<1> QED
  BY <1>6, <1>7, <1>8

LEMMA ReplaySendOpen ==
  ASSUME OneIngester, StreamInv, NEW c \in Conns, ReplaySend(c), conn'[c] = "open"
  PROVE  OpenInv(c)'
<1>1. StreamType /\ OpenInv(c) /\ conn[c] = "open"
  BY OpenFacts DEF StreamInv, ReplaySend
<1>2. /\ UNCHANGED <<subscribers, dropped, pending, last, queue, accepted>>
      /\ UNCHANGED <<log, insert, received>> /\ Due' = Due
      /\ UNCHANGED <<replayMax, buffered>>
  BY AsideFacts DEF ReplaySend, Aside, clientVars
<1>3. PICK id \in batch[c] :
        /\ \A i \in batch[c] : id <= i
        /\ lastLogID' = [lastLogID EXCEPT ![c] = id]
        /\ batch' = [batch EXCEPT ![c] = @ \ {id}]
        /\ replay' = [replay EXCEPT ![c] = IF batch[c] # {id} THEN @
                                           ELSE IF @ = "full" THEN "reading"
                                           ELSE "posted"]
        /\ Enqueue(c, id)
  BY DEF ReplaySend
<1>4. /\ lastLogID'[c] = id /\ batch'[c] = batch[c] \ {id} /\ replay[c] \in {"last", "full"}
      /\ replay'[c] = IF batch[c] # {id} THEN replay[c]
                      ELSE IF replay[c] = "full" THEN "reading" ELSE "posted"
  BY <1>1, <1>3 DEF ReplaySend, StreamType
<1>5. /\ id \in Nat /\ lastLogID[c] \in Nat /\ log \subseteq Nat /\ batch[c] \subseteq Nat
      /\ id \in log /\ id > lastLogID[c]
  BY <1>1 DEF StreamType, OpenInv, RefsInv, ReplayInv
<1>6. \A i \in log : i <= id => i <= lastLogID[c] \/ i = id
  <2> SUFFICES ASSUME NEW i \in log, i <= id, ~(i <= lastLogID[c])
               PROVE  i = id
    OBVIOUS
  <2>1. i \in batch[c]
    BY <1>1, <1>5 DEF OpenInv, ReplayInv
  <2> QED
    BY <1>3, <1>5, <2>1
<1>7. Due \subseteq log
  BY DEF Due
<1>8. \A i \in Due : i < id => Seen(c, i)
  BY <1>1, <1>5, <1>6, <1>7 DEF OpenInv, ReplayInv
<1>9. /\ OutInv(c)'
      /\ \A i : Seen(c, i)' <=> Seen(c, i) \/ i = id
      /\ \A k \in 1..Len(outCh'[c]) : outCh'[c][k] = 0 \/ outCh'[c][k] \in log
  BY <1>1, <1>2, <1>3, <1>5, <1>8, EnqueueOut
<1>10. \A i \in log : Replayed(c, i) => Replayed(c, i)'
  <2> SUFFICES ASSUME NEW i \in log, Replayed(c, i)
               PROVE  i <= lastLogID'[c] \/ i \in batch'[c] \/ replay'[c] \in {"reading", "full"}
    BY DEF Replayed
  <2>1. CASE i <= lastLogID[c]
    BY <1>4, <1>5, <2>1
  <2>2. CASE i \in batch[c]
    BY <1>4, <1>5, <2>2
  <2>3. CASE replay[c] \in {"reading", "full"}
    BY <1>4, <2>3
  <2> QED
    BY <2>1, <2>2, <2>3 DEF Replayed
<1>11. RefsInv(c)'
  BY <1>1, <1>2, <1>4, <1>5, <1>9 DEF OpenInv, RefsInv, Accepted
<1>12. ReplayInv(c)'
  <2>1. \A i \in Due : i <= id => Seen(c, i)'
    BY <1>1, <1>6, <1>7, <1>9 DEF OpenInv, ReplayInv
  <2>2. \A j \in batch[c] \ {id} : j > id /\ \A i \in log : i > id /\ i <= j => i \in batch[c] \ {id}
    <3>1. \A j \in batch[c] \ {id} : j > id
      BY <1>3, <1>5
    <3>2. ASSUME NEW j \in batch[c] \ {id}, NEW i \in log, i > id, i <= j
          PROVE  i \in batch[c] \ {id}
      <4>1. i > lastLogID[c] /\ i # id
        BY <1>5, <3>2
      <4> QED
        BY <1>1, <3>2, <4>1 DEF OpenInv, ReplayInv
    <3> QED
      BY <3>1, <3>2
  <2>3. replay'[c] \notin {"last", "full"} => batch'[c] = {}
    BY <1>4
  <2>4. replay'[c] \in {"last", "full", "reading", "posted"}
    BY <1>4
  <2> QED
    BY <1>2, <1>4, <2>1, <2>2, <2>3, <2>4 DEF ReplayInv
<1>13. LiveInv(c)'
  <2>1. \A i : /\ Accepted(c, i)' <=> Accepted(c, i)
               /\ Upcoming(c, i)' <=> Upcoming(c, i)
               /\ Gone(c)' <=> Gone(c)
    BY <1>2 DEF Accepted, Upcoming, Gone
  <2> QED
    BY <1>1, <1>2, <1>7, <1>10, <2>1 DEF OpenInv, LiveInv
<1>14. AcceptInv(c)'
  <2>1. \A i : Accepted(c, i)' <=> Accepted(c, i)
    BY <1>2 DEF Accepted
  <2> QED
    BY <1>1, <1>2, <1>7, <1>10, <2>1 DEF OpenInv, AcceptInv
<1>15. KeptInv(c)'
  <2>1. \A i : (Accepted(c, i)' <=> Accepted(c, i)) /\ (Held(c, i)' <=> Held(c, i))
    BY <1>2 DEF Accepted, Held, Queued
  <2> QED
    BY <1>1, <1>4, <1>9, <2>1 DEF OpenInv, KeptInv
<1>16. HeldInv(c)'
  BY <1>1, <1>2 DEF OpenInv, HeldInv
<1> QED
  BY <1>9, <1>11, <1>12, <1>13, <1>14, <1>15, <1>16 DEF OpenInv

LEMMA TakeReplayDoneOpen ==
  ASSUME OneIngester, StreamInv, NEW c \in Conns, TakeReplayDone(c)
  PROVE  OpenInv(c)'
<1>1. StreamType /\ OpenInv(c) /\ conn[c] = "open"
  BY OpenFacts DEF StreamInv, TakeReplayDone, Selecting
<1>2. /\ UNCHANGED <<subscribers, dropped, pending, last, queue, accepted>>
      /\ UNCHANGED <<log, insert, received>> /\ Due' = Due
      /\ UNCHANGED <<lastLogID, batch, buffered, outCh>>
  BY AsideFacts DEF TakeReplayDone, Aside, clientVars
<1>3. replay[c] = "posted" /\ replay'[c] = "flushing" /\ replayMax'[c] = lastLogID[c]
  BY <1>1 DEF TakeReplayDone, StreamType
<1>4. RefsInv(c)' /\ OutInv(c)' /\ HeldInv(c)'
  BY <1>1, <1>2 DEF OpenInv, RefsInv, OutInv, HeldInv, Accepted
<1>5. ReplayInv(c)'
  BY <1>1, <1>2, <1>3 DEF OpenInv, ReplayInv, Seen
<1>6. LiveInv(c)' /\ AcceptInv(c)'
  BY <1>1, <1>2, <1>3 DEF OpenInv, LiveInv, AcceptInv, Replayed, Accepted, Upcoming, Gone
<1>7. KeptInv(c)'
  BY <1>1, <1>2, <1>3 DEF OpenInv, KeptInv, Accepted, Held, Queued, Seen
<1> QED
  BY <1>4, <1>5, <1>6, <1>7 DEF OpenInv

(* An accepted row whose predecessors are neither queued nor buffered      *)
(* follows, in outCh, all that are due.                                    *)
LEMMA AllBefore ==
  ASSUME StreamInv, NEW c \in Conns, conn[c] = "open", replay[c] \in {"flushing", "done"},
         NEW h \in Nat, Accepted(c, h), \A i \in Nat \ {0} : i < h => ~Held(c, i)
  PROVE  \A i \in Due : i < h => Seen(c, i)
<1>1. StreamType /\ OpenInv(c)
  BY OpenFacts DEF StreamInv
<1> SUFFICES ASSUME NEW i \in Due, i < h
             PROVE  Seen(c, i)
  OBVIOUS
<1>2. i \in Nat /\ i # 0
  BY <1>1 DEF StreamType, Due
<1>3. batch[c] = {}
  BY <1>1 DEF OpenInv, ReplayInv
<1>4. Replayed(c, i) \/ Accepted(c, i)
  BY <1>1, <1>2 DEF OpenInv, AcceptInv
<1>5. i <= lastLogID[c] \/ Seen(c, i)
  BY <1>1, <1>2, <1>3, <1>4 DEF OpenInv, KeptInv, Replayed
<1> QED
  BY <1>1, <1>5 DEF OpenInv, ReplayInv

(* The loop over buffered.                                                 *)
LEMMA FlushOpen ==
  ASSUME OneIngester, StreamInv, NEW c \in Conns, Flush(c), conn'[c] = "open"
  PROVE  OpenInv(c)'
<1> DEFINE b == buffered[c]
<1>1. StreamType /\ OpenInv(c) /\ conn[c] = "open" /\ replay[c] = "flushing"
  BY OpenFacts DEF StreamInv, Flush
<1>2. /\ UNCHANGED <<subscribers, dropped, pending, last, queue, accepted>>
      /\ UNCHANGED <<log, insert, received>> /\ Due' = Due
      /\ UNCHANGED <<batch, lastLogID, replayMax>>
  BY AsideFacts DEF Flush, Aside, clientVars
<1>3. replayMax[c] = lastLogID[c] /\ batch[c] = {} /\ lastLogID[c] \in Nat
  BY <1>1 DEF OpenInv, ReplayInv, StreamType
<1>4. replay'[c] \in {"flushing", "done"}
  BY <1>1 DEF Flush, StreamType
<1>5. LiveInv(c)' /\ AcceptInv(c)'
  BY <1>1, <1>2, <1>4 DEF OpenInv, LiveInv, AcceptInv, Replayed, Accepted, Upcoming, Gone
<1>6. CASE b = <<>>
  <2>1. replay'[c] = "done" /\ UNCHANGED <<buffered, outCh>>
    BY <1>1, <1>6 DEF Flush, StreamType
  <2>2. RefsInv(c)' /\ OutInv(c)' /\ HeldInv(c)'
    BY <1>1, <1>2, <2>1 DEF OpenInv, RefsInv, OutInv, HeldInv, Accepted
  <2>3. ReplayInv(c)'
    BY <1>1, <1>2, <1>3, <1>6, <2>1 DEF OpenInv, ReplayInv, Seen
  <2>4. KeptInv(c)'
    BY <1>1, <1>2, <2>1 DEF OpenInv, KeptInv, Accepted, Held, Queued, Seen
  <2> QED
    BY <1>5, <2>2, <2>3, <2>4 DEF OpenInv
<1>7. CASE b # <<>>
  <2>1. b \in Seq(Nat)
    BY <1>1 DEF StreamType
  <2> PICK h \in Nat : h = Head(b)
    BY <1>7, <2>1
  <2>2. /\ buffered'[c] = Tail(b) /\ replay'[c] = "flushing"
        /\ IF Covered(c, h) THEN UNCHANGED outCh ELSE Enqueue(c, h)
    BY <1>1, <1>7 DEF Flush, StreamType
  <2> HIDE DEF b
  <2>3. /\ Len(b) \in Nat \ {0} /\ Len(Tail(b)) = Len(b) - 1
        /\ \A k \in 1..Len(Tail(b)) : Tail(b)[k] = b[k + 1] /\ k + 1 \in 1..Len(b)
        /\ h = b[1] /\ 1 \in 1..Len(b) /\ h \in Nat
    BY <1>7, <2>1 DEF b
  <2>4. \A i : In(b, i) => i = h \/ In(Tail(b), i)
    BY <1>7, <2>1, InTail DEF b
  <2>5. \A k \in 1..Len(Tail(b)) : Tail(b)[k] = 0 \/ Accepted(c, Tail(b)[k])
    BY <1>1, <2>3 DEF OpenInv, RefsInv, b
  <2>6. h = 0 \/ (Accepted(c, h) /\ h \in log)
    BY <1>1, <2>3 DEF OpenInv, RefsInv, b
  <2>7. HeldInv(c)'
    <3>1. \A j, k \in 1..Len(Tail(b)) :
             j < k /\ Tail(b)[j] # 0 /\ Tail(b)[k] # 0 => Tail(b)[j] < Tail(b)[k]
      BY <1>1, <2>3 DEF OpenInv, HeldInv, b
    <3>2. \A j \in 1..Len(Tail(b)), k \in 1..Len(queue[c]) :
             Tail(b)[j] # 0 /\ queue[c][k][1] = js => Tail(b)[j] < queue[c][k][2]
      BY <1>1, <2>3 DEF OpenInv, HeldInv, b
    <3> QED
      BY <1>1, <1>2, <2>2, <3>1, <3>2 DEF OpenInv, HeldInv
  <2>8. /\ OutInv(c)'
        /\ \A i : Seen(c, i) => Seen(c, i)'
        /\ h <= lastLogID[c] \/ Seen(c, h)'
        /\ \A k \in 1..Len(outCh'[c]) : outCh'[c][k] = 0 \/ outCh'[c][k] \in log
    <3>1. CASE Covered(c, h)
      BY <1>1, <1>2, <1>3, <2>2, <3>1 DEF OpenInv, OutInv, RefsInv, Seen, Covered
    <3>2. CASE ~Covered(c, h)
      <4>1. h # 0 /\ Accepted(c, h) /\ h \in log
        BY <1>3, <2>3, <2>6, <3>2 DEF Covered
      <4>2. ASSUME NEW i \in Nat \ {0}, i < h, Held(c, i)
            PROVE  FALSE
        <5>1. CASE In(b, i)
          <6>1. PICK k \in 1..Len(b) : b[k] = i
            BY <5>1 DEF In
          <6>2. k # 1 /\ 1 < k
            BY <2>3, <4>2, <6>1
          <6>3. h < i
            BY <1>1, <2>3, <4>1, <4>2, <6>1, <6>2 DEF OpenInv, HeldInv, b
          <6> QED
            BY <2>3, <4>2, <6>3
        <5>2. CASE Queued(c, i)
          <6>1. PICK k \in 1..Len(queue[c]) : queue[c][k] = <<js, i>>
            BY <5>2 DEF Queued
          <6>2. queue[c][k][1] = js /\ queue[c][k][2] = i
            BY <6>1
          <6>3. h < i
            BY <1>1, <2>3, <4>1, <6>2 DEF OpenInv, HeldInv, b
          <6> QED
            BY <2>3, <4>2, <6>3
        <5> QED
          BY <4>2, <5>1, <5>2 DEF Held, b
      <4>3. \A i \in Due : i < h => Seen(c, i)
        BY <1>1, <2>3, <4>1, <4>2, AllBefore
      <4>4. Enqueue(c, h)
        BY <2>2, <3>2
      <4> QED
        BY <1>1, <1>2, <2>3, <4>1, <4>3, <4>4, EnqueueOut
    <3> QED
      BY <3>1, <3>2
  <2>9. RefsInv(c)'
    BY <1>1, <1>2, <2>2, <2>5, <2>8 DEF OpenInv, RefsInv, Accepted
  <2>10. ReplayInv(c)'
    BY <1>1, <1>2, <1>3, <2>2, <2>8 DEF OpenInv, ReplayInv
  <2>11. KeptInv(c)'
    <3> SUFFICES ASSUME NEW i \in Nat, Accepted(c, i)
                 PROVE  Held(c, i)' \/ Seen(c, i)' \/ i <= lastLogID[c]
      BY <1>2, <2>2 DEF KeptInv, Accepted
    <3>1. Held(c, i) \/ Seen(c, i) \/ i <= lastLogID[c]
      BY <1>1 DEF OpenInv, KeptInv
    <3>2. Held(c, i) => Held(c, i)' \/ i = h
      BY <1>2, <2>2, <2>4 DEF Held, Queued, b
    <3> QED
      BY <2>8, <3>1, <3>2
  <2> QED
    BY <1>5, <2>7, <2>8, <2>9, <2>10, <2>11 DEF OpenInv
<1> QED
  BY <1>6, <1>7

(* The forwarder takes the oldest event of the subscription.               *)
LEMMA TakeEventOpen ==
  ASSUME OneIngester, StreamInv, NEW c \in Conns, TakeEvent(c), conn'[c] = "open"
  PROVE  OpenInv(c)'
<1> DEFINE q == queue[c]
           b == buffered[c]
<1>1. StreamType /\ OpenInv(c) /\ conn[c] = "open" /\ replay[c] # "flushing"
  BY OpenFacts DEF StreamInv, TakeEvent, Selecting
<1>2. /\ UNCHANGED <<subscribers, dropped, pending, last, accepted>>
      /\ UNCHANGED <<log, insert, received>> /\ Due' = Due
      /\ UNCHANGED <<replay, batch, lastLogID, replayMax>>
      /\ queue'[c] = Tail(q)
  BY HubFacts DEF TakeEvent, H!Receive, H!pubVars, H!history, logVars, clientVars, Due
<1>3. q \in Seq((Ingesters \union Stats) \X Nat) /\ q # <<>> /\ b \in Seq(Nat)
  BY <1>1, HubFacts DEF TakeEvent, H!Receive, StreamType
<1> PICK e \in (Ingesters \union Stats) \X Nat : e = Head(q)
  BY <1>3
<1> PICK id \in Nat : id = LogID(e)
  BY DEF LogID
<1>4. /\ IF ReplayReady(c)
         THEN Enqueue(c, id) /\ UNCHANGED buffered
         ELSE buffered'[c] = Append(b, id) /\ UNCHANGED outCh
  BY <1>1 DEF TakeEvent, StreamType
<1> HIDE DEF q, b
<1>5. /\ Len(q) \in Nat \ {0} /\ Len(Tail(q)) = Len(q) - 1
      /\ \A k \in 1..Len(Tail(q)) : Tail(q)[k] = q[k + 1] /\ k + 1 \in 1..Len(q) /\ 1 < k + 1
      /\ e = q[1] /\ 1 \in 1..Len(q)
      /\ \A k \in 1..Len(q) : q[k] \in (Ingesters \union Stats) \X Nat
  BY <1>3
<1>6. e[1] = js => id = e[2] /\ e = <<js, id>> /\ Accepted(c, id) /\ id \in log
  <2>1. e \in accepted[c]
    BY <1>1, <1>5 DEF OpenInv, RefsInv, q
  <2>2. e[1] = js => id = e[2] /\ e = <<js, id>>
    BY HubFacts DEF LogID
  <2>3. e[1] = js => Accepted(c, id)
    BY <2>1, <2>2 DEF Accepted
  <2> QED
    BY <1>1, <2>2, <2>3 DEF OpenInv, RefsInv
<1>7. e[1] # js => id = 0
  BY DEF LogID, OneIngester
<1>8. \A i \in Nat : Queued(c, i) => Queued(c, i)' \/ (e[1] = js /\ i = id)
  <2> SUFFICES ASSUME NEW i \in Nat, Queued(c, i)
               PROVE  Queued(c, i)' \/ (e[1] = js /\ i = id)
    OBVIOUS
  <2>1. PICK k \in 1..Len(q) : q[k] = <<js, i>>
    BY DEF Queued, q
  <2>2. CASE k = 1
    BY <1>5, <1>6, <2>1, <2>2
  <2>3. CASE k # 1
    <3>1. k - 1 \in 1..Len(Tail(q)) /\ Tail(q)[k - 1] = <<js, i>>
      BY <1>5, <2>1, <2>3
    <3> QED
      BY <1>2, <3>1 DEF Queued
  <2> QED
    BY <2>2, <2>3
<1>9. /\ \A k \in 1..Len(Tail(q)) : Tail(q)[k] \in accepted[c]
      /\ \A j, k \in 1..Len(Tail(q)) :
           j < k /\ Tail(q)[j][1] = js /\ Tail(q)[k][1] = js => Tail(q)[j][2] < Tail(q)[k][2]
      /\ \A j \in 1..Len(b), k \in 1..Len(Tail(q)) :
           b[j] # 0 /\ Tail(q)[k][1] = js => b[j] < Tail(q)[k][2]
      /\ e[1] = js => \A k \in 1..Len(Tail(q)) : Tail(q)[k][1] = js => id < Tail(q)[k][2]
      /\ e[1] = js => \A j \in 1..Len(b) : b[j] # 0 => b[j] < id
  <2>1. \A k \in 1..Len(Tail(q)) : Tail(q)[k] \in accepted[c]
    BY <1>1, <1>5 DEF OpenInv, RefsInv, q
  <2>2. \A j, k \in 1..Len(q) :
          j < k /\ q[j][1] = js /\ q[k][1] = js => q[j][2] < q[k][2]
    BY <1>1 DEF OpenInv, HeldInv, q
  <2>3. \A j \in 1..Len(b), k \in 1..Len(q) :
          b[j] # 0 /\ q[k][1] = js => b[j] < q[k][2]
    BY <1>1 DEF OpenInv, HeldInv, q, b
  <2>4. \A j, k \in 1..Len(Tail(q)) :
          j < k /\ Tail(q)[j][1] = js /\ Tail(q)[k][1] = js => Tail(q)[j][2] < Tail(q)[k][2]
    BY <1>5, <2>2
  <2>5. \A j \in 1..Len(b), k \in 1..Len(Tail(q)) :
          b[j] # 0 /\ Tail(q)[k][1] = js => b[j] < Tail(q)[k][2]
    BY <1>5, <2>3
  <2>6. e[1] = js => \A k \in 1..Len(Tail(q)) : Tail(q)[k][1] = js => id < Tail(q)[k][2]
    BY <1>5, <1>6, <2>2
  <2>7. e[1] = js => \A j \in 1..Len(b) : b[j] # 0 => b[j] < id
    BY <1>5, <1>6, <2>3
  <2> QED
    BY <2>1, <2>4, <2>5, <2>6, <2>7
<1>10. LiveInv(c)' /\ AcceptInv(c)'
  BY <1>1, <1>2 DEF OpenInv, LiveInv, AcceptInv, Replayed, Accepted, Upcoming, Gone
<1>11. CASE ReplayReady(c)
  <2>1. b = <<>> /\ replay[c] = "done" /\ Enqueue(c, id) /\ buffered' = buffered
    BY <1>1, <1>4, <1>11 DEF ReplayReady, OpenInv, ReplayInv, b
  <2>2. id # 0 => \A i \in Due : i < id => Seen(c, i)
    <3>1. ASSUME id # 0, NEW i \in Nat \ {0}, i < id, Held(c, i)
          PROVE  FALSE
      <4>1. ~In(b, i)
        BY <2>1 DEF In
      <4>2. Queued(c, i)'
        BY <1>8, <3>1, <4>1 DEF Held, b
      <4>3. PICK k \in 1..Len(Tail(q)) : Tail(q)[k] = <<js, i>>
        BY <1>2, <4>2 DEF Queued
      <4>4. Tail(q)[k][1] = js /\ Tail(q)[k][2] = i
        BY <4>3
      <4>5. id < i
        BY <1>7, <1>9, <3>1, <4>4
      <4> QED
        BY <3>1, <4>5
    <3> QED
      BY <1>1, <1>6, <1>7, <2>1, <3>1, AllBefore
  <2>3. /\ OutInv(c)'
        /\ \A i : Seen(c, i)' <=> Seen(c, i) \/ i = id
        /\ \A k \in 1..Len(outCh'[c]) : outCh'[c][k] = 0 \/ outCh'[c][k] \in log
    BY <1>1, <1>2, <1>6, <1>7, <2>1, <2>2, EnqueueOut
  <2>4. RefsInv(c)'
    BY <1>1, <1>2, <1>9, <2>1, <2>3 DEF OpenInv, RefsInv, Accepted
  <2>5. ReplayInv(c)'
    BY <1>1, <1>2, <2>1, <2>3 DEF OpenInv, ReplayInv
  <2>6. KeptInv(c)'
    <3> SUFFICES ASSUME NEW i \in Nat, Accepted(c, i)
                 PROVE  Held(c, i)' \/ Seen(c, i)' \/ i <= lastLogID[c]
      BY <1>2, <2>1 DEF KeptInv, Accepted
    <3>1. Held(c, i) \/ Seen(c, i) \/ i <= lastLogID[c]
      BY <1>1 DEF OpenInv, KeptInv
    <3>2. Held(c, i) => Held(c, i)' \/ i = id
      BY <1>8, <2>1 DEF Held
    <3> QED
      BY <2>3, <3>1, <3>2
  <2>7. HeldInv(c)'
    BY <1>2, <1>9, <2>1 DEF HeldInv, b
  <2> QED
    BY <1>10, <2>3, <2>4, <2>5, <2>6, <2>7 DEF OpenInv
<1>12. CASE ~ReplayReady(c)
  <2>1. buffered'[c] = Append(b, id) /\ outCh' = outCh
    BY <1>4, <1>12
  <2>2. /\ Len(b) \in Nat /\ Len(Append(b, id)) = Len(b) + 1
        /\ \A k \in 1..Len(b) : Append(b, id)[k] = b[k]
        /\ Append(b, id)[Len(b) + 1] = id
        /\ \A i : In(Append(b, id), i) <=> In(b, i) \/ i = id
    BY <1>3, InAppend
  <2>3. \A k \in 1..Len(Append(b, id)) : k \in 1..Len(b) \/ k = Len(b) + 1
    BY <2>2
  <2>4. RefsInv(c)'
    <3>1. \A k \in 1..Len(b) : b[k] = 0 \/ Accepted(c, b[k])
      BY <1>1 DEF OpenInv, RefsInv, b
    <3>2. \A k \in 1..Len(Append(b, id)) : Append(b, id)[k] = 0 \/ Accepted(c, Append(b, id)[k])
      BY <1>6, <1>7, <2>2, <2>3, <3>1
    <3> QED
      BY <1>1, <1>2, <1>9, <2>1, <3>2 DEF OpenInv, RefsInv, Accepted
  <2>5. ReplayInv(c)'
    BY <1>1, <1>2, <1>12, <2>1 DEF OpenInv, ReplayInv, Seen, ReplayReady
  <2>6. OutInv(c)'
    BY <1>1, <1>2, <2>1 DEF OpenInv, OutInv
  <2>7. KeptInv(c)'
    <3> SUFFICES ASSUME NEW i \in Nat, Accepted(c, i)
                 PROVE  Held(c, i)' \/ Seen(c, i)'
      BY <1>2 DEF KeptInv, Accepted
    <3>1. Held(c, i) \/ Seen(c, i)
      BY <1>1, <1>12 DEF OpenInv, KeptInv, ReplayReady
    <3>2. Held(c, i) => Held(c, i)'
      BY <1>8, <2>1, <2>2 DEF Held, b
    <3>3. Seen(c, i) => Seen(c, i)'
      BY <1>2, <2>1 DEF Seen
    <3> QED
      BY <3>1, <3>2, <3>3
  <2>8. HeldInv(c)'
    <3>1. \A j, k \in 1..Len(b) : j < k /\ b[j] # 0 /\ b[k] # 0 => b[j] < b[k]
      BY <1>1 DEF OpenInv, HeldInv, b
    <3>2. \A j, k \in 1..Len(Append(b, id)) :
            j < k /\ Append(b, id)[j] # 0 /\ Append(b, id)[k] # 0
              => Append(b, id)[j] < Append(b, id)[k]
      BY <1>7, <1>9, <2>2, <2>3, <3>1
    <3>3. \A j \in 1..Len(Append(b, id)), k \in 1..Len(Tail(q)) :
            Append(b, id)[j] # 0 /\ Tail(q)[k][1] = js => Append(b, id)[j] < Tail(q)[k][2]
      BY <1>7, <1>9, <2>2, <2>3
    <3> QED
      BY <1>2, <1>9, <2>1, <3>2, <3>3 DEF HeldInv
  <2> QED
    BY <1>10, <2>4, <2>5, <2>6, <2>7, <2>8 DEF OpenInv
<1> QED
  BY <1>11, <1>12

(* The client sees the oldest message of outCh.                            *)
LEMMA WriteOpen ==
  ASSUME OneIngester, StreamInv, NEW c \in Conns, Write(c)
  PROVE  OpenInv(c)' /\ NoHole' /\ cursor' \in log' /\ received' \subseteq log'
<1> DEFINE s == outCh[c]
<1>1. /\ StreamType /\ OpenInv(c) /\ conn[c] = "open" /\ s # <<>>
      /\ NoHole /\ cursor \in log /\ received \subseteq log
  BY OpenFacts DEF StreamInv, ClientInv, Write
<1>2. /\ UNCHANGED <<subscribers, dropped, pending, last, queue, accepted>>
      /\ UNCHANGED <<log, insert, unpublished>> /\ Due' = Due
      /\ UNCHANGED <<replay, batch, lastLogID, replayMax, buffered>>
  BY DEF Write, hubVars, logVars, replayVars, Due
<1>3. s \in Seq(Nat)
  BY <1>1 DEF StreamType
<1> PICK h \in Nat : h = Head(s)
  BY <1>1, <1>3
<1>4. /\ outCh'[c] = Tail(s)
      /\ received' = IF h = 0 THEN received ELSE received \union {h}
      /\ cursor' = IF h > cursor THEN h ELSE cursor
  BY <1>1 DEF Write, StreamType
<1> HIDE DEF s
<1>5. /\ Len(s) \in Nat \ {0} /\ Len(Tail(s)) = Len(s) - 1
      /\ \A k \in 1..Len(Tail(s)) : Tail(s)[k] = s[k + 1] /\ k + 1 \in 1..Len(s)
      /\ h = s[1] /\ 1 \in 1..Len(s)
  BY <1>1, <1>3
<1>6. \A i : In(s, i) => i = h \/ In(Tail(s), i)
  BY <1>1, <1>3, InTail
<1>7. h = 0 \/ h \in log
  BY <1>1, <1>5 DEF OpenInv, RefsInv, s
<1>8. \A i \in log : i \in Nat /\ i # 0
  BY <1>1 DEF StreamType
<1>9. \A i \in Due : i \in log
  BY DEF Due
<1>10. \A i \in log : Seen(c, i) => Seen(c, i)'
  BY <1>4, <1>6, <1>8 DEF Seen, s
<1>11. RefsInv(c)'
  BY <1>1, <1>2, <1>4, <1>5 DEF OpenInv, RefsInv, Accepted, s
<1>12. ReplayInv(c)'
  BY <1>1, <1>2, <1>9, <1>10 DEF OpenInv, ReplayInv
<1>13. OutInv(c)'
  <2> SUFFICES ASSUME NEW k \in 1..Len(Tail(s)), Tail(s)[k] # 0, NEW i \in Due,
                      i < Tail(s)[k], i \notin received'
               PROVE  \E j \in 1..(k - 1) : Tail(s)[j] = i
    BY <1>2, <1>4 DEF OutInv
  <2>1. i # h /\ i \notin received
    BY <1>4, <1>8, <1>9
  <2>2. PICK j \in 1..k : s[j] = i
    <3>1. \E j \in 1..((k + 1) - 1) : s[j] = i
      BY <1>1, <1>5, <2>1 DEF OpenInv, OutInv, s
    <3> QED
      BY <3>1
  <2>3. j # 1
    BY <1>5, <2>1, <2>2
  <2>4. j - 1 \in 1..(k - 1) /\ Tail(s)[j - 1] = i
    BY <1>5, <2>2, <2>3
  <2> QED
    BY <2>4
<1>14. LiveInv(c)' /\ AcceptInv(c)' /\ HeldInv(c)'
  BY <1>1, <1>2 DEF OpenInv, LiveInv, AcceptInv, HeldInv, Replayed, Accepted, Upcoming, Gone
<1>15. KeptInv(c)'
  <2>1. \A i \in Nat : Accepted(c, i) => i \in log
    BY <1>1 DEF OpenInv, RefsInv
  <2> QED
    BY <1>1, <1>2, <1>10, <2>1 DEF OpenInv, KeptInv, Accepted, Held, Queued
<1>16. NoHole'
  <2>1. \A i \in Due : i < h => i \in received
    <3> SUFFICES ASSUME NEW i \in Due, i < h
                 PROVE  i \in received
      OBVIOUS
    <3>1. h # 0
      BY <1>8, <1>9
    <3>2. i \in received \/ \E j \in 1..(1 - 1) : s[j] = i
      BY <1>1, <1>5, <3>1 DEF OpenInv, OutInv, s
    <3> QED
      BY <3>2
  <2>2. \A i \in Due : i <= cursor => i \in received
    BY <1>1 DEF NoHole, Due
  <2>3. \A i \in Due : i <= cursor' => i \in received'
    BY <1>4, <1>8, <1>9, <2>1, <2>2
  <2> QED
    BY <1>2, <2>3 DEF NoHole, Due
<1>17. cursor' \in log' /\ received' \subseteq log'
  BY <1>1, <1>2, <1>4, <1>7, <1>8
<1> QED
  BY <1>11, <1>12, <1>13, <1>14, <1>15, <1>16, <1>17 DEF OpenInv

-----------------------------------------------------------------------------
(* Who is connected, and what holds of the connection.                     *)

(* A step that only one open connection takes, and that does not open any. *)
LEMMA SessionStep ==
  ASSUME StreamInv, NEW c \in Conns, conn[c] = "open", current' = current,
         conn' = conn \/ conn' = [conn EXCEPT ![c] = "closed"],
         conn'[c] = "open" => OpenInv(c)'
  PROVE  \A d \in Conns : conn'[d] = "open" => current' = d /\ OpenInv(d)'
<1> SUFFICES ASSUME NEW d \in Conns, conn'[d] = "open"
             PROVE  current' = d /\ OpenInv(d)'
  OBVIOUS
<1>1. conn[d] = "open"
  BY DEF StreamInv, StreamType
<1>2. current = d /\ d = c
  BY <1>1, OpenFacts
<1> QED
  BY <1>2

LEMMA OpenKept ==
  ASSUME OneIngester, StreamInv, [Next]_vars
  PROVE  \A d \in Conns : conn'[d] = "open" => current' = d /\ OpenInv(d)'
<1>0. StreamType
  BY DEF StreamInv
<1>1. ASSUME \/ \E p \in Ingesters : Ingest(p)
             \/ \E p \in Stats : PublishStat(p)
             \/ \E p \in Ingesters \union Stats : PublishStep(p) \/ PublishLock(p)
             \/ \E c \in Conns : Unsubscribed(c),
             NEW d \in Conns, conn'[d] = "open"
      PROVE  current' = d /\ OpenInv(d)'
  <2>1. conn' = conn /\ current' = current
    BY <1>1 DEF Ingest, BeginInsert, CommitInsert, AbortInsert, PublishInserted, LoseReply,
         PublishStat, PublishStep, PublishLock, Unsubscribed, sessionVars, clientVars
  <2>2. conn[d] = "open"
    BY <1>1, <2>1
  <2> QED
    BY <1>1, <2>1, <2>2, OpenFacts, HubStepOpen
<1>2. ASSUME NEW c \in Conns, Connect(c), NEW d \in Conns, conn'[d] = "open"
      PROVE  current' = d /\ OpenInv(d)'
  <2>1. d # c => conn[d] = "open"
    BY <1>0, <1>2 DEF Connect, StreamType
  <2>2. d = c
    BY <1>2, <2>1, OpenFacts, StreamAssumption DEF Connect
  <2> QED
    BY <1>2, <2>2, ConnectOpen DEF Connect
<1>3. ASSUME NEW c \in Conns, Disconnect(c) \/ ReplayFail(c) \/ TakeOverflow(c)
      PROVE  \A d \in Conns : conn'[d] = "open" => current' = d /\ OpenInv(d)'
  <2>1. conn[c] = "open" /\ current' = current /\ conn' = [conn EXCEPT ![c] = "closed"]
    BY <1>3 DEF Disconnect, ReplayFail, TakeOverflow, Selecting, CloseConn, clientVars
  <2>2. conn'[c] # "open"
    BY <1>0, <2>1 DEF StreamType
  <2> QED
    BY <2>1, <2>2, SessionStep
<1>4. ASSUME NEW c \in Conns, OnClose(c), NEW d \in Conns, conn'[d] = "open"
      PROVE  FALSE
  BY <1>4, OpenFacts DEF OnClose, sessionVars
<1>5. ASSUME NEW c \in Conns, Cleanup(c), NEW d \in Conns, conn'[d] = "open"
      PROVE  current' = d /\ OpenInv(d)'
  <2>1. d # c /\ conn[d] = "open"
    BY <1>0, <1>5 DEF Cleanup, StreamType
  <2>2. /\ UNCHANGED <<dropped, pending, last, queue, accepted>>
        /\ subscribers' = [t \in {Token} |-> subscribers[t] \ {c}]
        /\ UNCHANGED <<log, insert, received, current>> /\ Due' = Due
    BY <1>5 DEF Cleanup, H!Remove, H!subVars, H!pubVars, H!history, logVars, clientVars, Due
  <2>3. Gone(d) => Gone(d)'
    BY <2>2 DEF Gone
  <2>4. \A i \in Due : Upcoming(d, i) => Upcoming(d, i)'
    BY <2>2 DEF Upcoming
  <2>5. OpenInv(d)'
    BY <1>0, <1>5, <2>1, <2>2, <2>3, <2>4, Frame DEF Cleanup, StreamType
  <2> QED
    BY <2>1, <2>2, <2>5, OpenFacts
<1>6. ASSUME NEW c \in Conns, TakeEventsClosed(c)
      PROVE  \A d \in Conns : conn'[d] = "open" => current' = d /\ OpenInv(d)'
  <2>1. /\ conn[c] = "open" /\ conn' = conn /\ current' = current
        /\ UNCHANGED <<subscribers, dropped, pending, last, queue, accepted>>
        /\ UNCHANGED <<log, insert, received>> /\ Due' = Due
    BY <1>6 DEF TakeEventsClosed, Selecting, clientVars, hubVars, logVars, Due
  <2>2. OpenInv(c)'
    BY <1>6, <2>1, Frame DEF TakeEventsClosed, replayVars, Upcoming, Gone
  <2> QED
    BY <2>1, <2>2, SessionStep
<1>7. ASSUME NEW c \in Conns, NEW id, Enqueue(c, id)
      PROVE  conn' = conn \/ conn' = [conn EXCEPT ![c] = "closed"]
  BY <1>7 DEF Enqueue, CloseConn
<1>8. ASSUME NEW c \in Conns,
             Replay(c) \/ TakeReplayDone(c) \/ Flush(c) \/ TakeEvent(c) \/ Write(c)
      PROVE  \A d \in Conns : conn'[d] = "open" => current' = d /\ OpenInv(d)'
  <2>1. conn[c] = "open" /\ current' = current
    BY <1>8 DEF Replay, ReplayRead, ReplaySend, TakeReplayDone, Flush, TakeEvent, Write, Selecting,
         clientVars
  <2>2. conn' = conn \/ conn' = [conn EXCEPT ![c] = "closed"]
    BY <1>7, <1>8 DEF Replay, ReplayRead, ReplaySend, TakeReplayDone, Flush, TakeEvent, Write
  <2>3. conn'[c] = "open" => OpenInv(c)'
    BY <1>8, ReplayReadOpen, ReplaySendOpen, TakeReplayDoneOpen, FlushOpen, TakeEventOpen, WriteOpen
       DEF Replay
  <2> QED
    BY <2>1, <2>2, <2>3, SessionStep
<1>9. ASSUME UNCHANGED vars, NEW d \in Conns, conn'[d] = "open"
      PROVE  current' = d /\ OpenInv(d)'
  <2>1. /\ UNCHANGED <<subscribers, dropped, pending, last, queue, accepted>>
        /\ UNCHANGED <<log, insert, received>> /\ Due' = Due
    BY <1>9 DEF vars, clientVars, hubVars, logVars, Due
  <2>2. UNCHANGED <<conn, replay, batch, lastLogID, replayMax, buffered, outCh, current>>
    BY <1>9 DEF vars, sessionVars, replayVars, clientVars
  <2>3. conn[d] = "open"
    BY <1>9, <2>2
  <2> QED
    BY <2>1, <2>2, <2>3, Frame, OpenFacts DEF Upcoming, Gone
<1> QED
  BY <1>1, <1>2, <1>3, <1>4, <1>5, <1>6, <1>8, <1>9 DEF Next, Forward

(* Only Write moves the cursor, and a row that becomes visible is larger   *)
(* than the cursor.                                                        *)
LEMMA CursorKept ==
  ASSUME OneIngester, StreamInv, [Next]_vars
  PROVE  cursor' \in log' /\ received' \subseteq log' /\ NoHole'
<1>0. StreamType /\ IngestInv /\ NoHole /\ cursor \in log /\ received \subseteq log
  BY DEF StreamInv, ClientInv
<1>1. ASSUME NEW c \in Conns, Write(c)
      PROVE  cursor' \in log' /\ received' \subseteq log' /\ NoHole'
  BY <1>1, WriteOpen
<1>2. ASSUME NEW p \in Ingesters, CommitInsert(p)
      PROVE  cursor' \in log' /\ received' \subseteq log' /\ NoHole'
  <2>1. p = js
    BY DEF OneIngester
  <2>2. log' = log \union {insert[js].id} /\ UNCHANGED <<unpublished, received, cursor>>
    BY <1>2, <2>1 DEF CommitInsert, clientVars
  <2>3. cursor < insert[js].id /\ cursor \in Nat /\ insert[js].id \in Nat
    BY <1>0, <1>2, <2>1, HubFacts DEF CommitInsert, IngestInv, StreamType
  <2> QED
    BY <1>0, <2>2, <2>3 DEF NoHole
<1>3. ASSUME NEW p \in Ingesters, LoseReply(p)
      PROVE  cursor' \in log' /\ received' \subseteq log' /\ NoHole'
  BY <1>0, <1>3 DEF LoseReply, clientVars, NoHole
<1>4. CASE UNCHANGED <<log, unpublished, received, cursor>>
  BY <1>0, <1>4 DEF NoHole
<1>5. ASSUME NEW p \in Ingesters, BeginInsert(p) \/ AbortInsert(p) \/ PublishInserted(p)
      PROVE  UNCHANGED <<log, unpublished, received, cursor>>
  BY <1>5 DEF BeginInsert, AbortInsert, PublishInserted, clientVars
<1>6. ASSUME NEW p \in Ingesters \union Stats, PublishStat(p) \/ PublishStep(p) \/ PublishLock(p)
      PROVE  UNCHANGED <<log, unpublished, received, cursor>>
  BY <1>6 DEF PublishStat, PublishStep, PublishLock, logVars, clientVars
<1>7. ASSUME NEW c \in Conns,
             Connect(c) \/ Disconnect(c) \/ OnClose(c) \/ Cleanup(c) \/ Unsubscribed(c)
               \/ Replay(c) \/ ReplayFail(c) \/ Forward(c)
      PROVE  UNCHANGED <<log, unpublished, received, cursor>>
  BY <1>7 DEF Connect, Disconnect, OnClose, Cleanup, Unsubscribed, Replay, ReplayRead, ReplaySend,
       ReplayFail, Forward, TakeReplayDone, Flush, TakeEvent, TakeOverflow, TakeEventsClosed,
       logVars, clientVars
<1>8. ASSUME UNCHANGED vars
      PROVE  UNCHANGED <<log, unpublished, received, cursor>>
  BY <1>8 DEF vars, logVars, clientVars
<1> QED
  BY <1>1, <1>2, <1>3, <1>4, <1>5, <1>6, <1>7, <1>8 DEF Next, Ingest

LEMMA NextInv ==
  ASSUME OneIngester, StreamInv, [Next]_vars
  PROVE  StreamInv'
<1>1. StreamType' /\ IngestInv'
  BY TypeKept, IngestKept
<1>2. HP!HubInv'
  <2>1. HP!HubInv /\ StreamType
    BY DEF StreamInv
  <2>2. \A p \in Ingesters : insert[p].id \in Nat
    BY <2>1 DEF StreamType
  <2> QED
    BY <2>1, <2>2, HubKept
<1>3. ClientInv'
  BY CursorKept, OpenKept, FreshKept DEF ClientInv
<1>4. NoHole'
  BY CursorKept
<1> QED
  BY <1>1, <1>2, <1>3, <1>4 DEF StreamInv

(* The whole invariant: the hub's inside the stream, the ingester's order, *)
(* and what the replay, the buffer and outCh hold between them.            *)
THEOREM StreamInvariant ==
  ASSUME OneIngester
  PROVE  Spec => []StreamInv
<1>1. Init => StreamInv
  BY InitInv
<1>2. StreamInv /\ [Next]_vars => StreamInv'
  BY NextInv
<1> QED
  BY <1>1, <1>2, PTL DEF Spec

(* With one ingester the client's cursor never passes a published row that *)
(* the client has not seen, whatever the sizes of Events, outCh and the    *)
(* replay's batches, and however often the connection is closed, a         *)
(* subscription evicted or an insert's reply lost (ws.go's replayTopic and *)
(* its forwarder, topicCursorRef in WebSocketContext.tsx).                 *)
THEOREM NoHoleWithOneIngester ==
  ASSUME OneIngester
  PROVE  Spec => []NoHole
<1>1. StreamInv => NoHole
  BY DEF StreamInv
<1> QED
  BY <1>1, StreamInvariant, PTL

-----------------------------------------------------------------------------
(* The order in which a connection delivers.                               *)

(* Whatever the forwarder still holds comes after e.                       *)
BelowHeld(c, e) ==
  /\ \A k \in 1..Len(buffered[c]) : buffered[c][k] # 0 => e < buffered[c][k]
  /\ \A k \in 1..Len(queue[c]) : queue[c][k][1] = js => e < queue[c][k][2]

(* What has gone into outCh came from the replay, or from the subscription *)
(* before all that it still holds.                                         *)
Behind(c, e) ==
  \/ e <= lastLogID[c]
  \/ Accepted(c, e) /\ replay[c] \in {"flushing", "done"} /\ BelowHeld(c, e)

(* e may be delivered after d.                                             *)
Follows(c, e, d) == d < e \/ e <= replayMax[c]

OrderInv(c) ==
  /\ Behind(c, cursor)
  /\ \A k \in 1..Len(outCh[c]) : outCh[c][k] # 0 =>
       Behind(c, outCh[c][k]) /\ Follows(c, outCh[c][k], cursor)
  /\ \A j, k \in 1..Len(outCh[c]) :
       j < k /\ outCh[c][j] # 0 /\ outCh[c][k] # 0 => Follows(c, outCh[c][k], outCh[c][j])

DeliveryInv ==
  /\ \A c \in Conns : conn[c] = "open" => OrderInv(c)
  /\ \A c \in Conns : conn[c] = "unused" => outCh[c] = <<>>

-----------------------------------------------------------------------------
(* A step that leaves the connection's session alone, and adds to its      *)
(* queue at most what comes after everything accepted so far.              *)
LEMMA OrderFrame ==
  ASSUME NEW c \in Conns, OrderInv(c), StreamType, cursor' = cursor,
         outCh'[c] = outCh[c], lastLogID'[c] = lastLogID[c], replayMax'[c] = replayMax[c],
         replay'[c] = replay[c], buffered'[c] = buffered[c],
         \A e \in Nat : Accepted(c, e) => Accepted(c, e)',
         \A e \in Nat : Accepted(c, e) /\ BelowHeld(c, e) => BelowHeld(c, e)'
  PROVE  OrderInv(c)'
<1>1. cursor \in Nat /\ \A k \in 1..Len(outCh[c]) : outCh[c][k] \in Nat
  BY DEF StreamType
<1>2. \A e \in Nat : Behind(c, e) => Behind(c, e)'
  BY DEF Behind
<1>3. \A d, e \in Nat : Follows(c, e, d)' <=> Follows(c, e, d)
  BY DEF Follows
<1> QED
  BY <1>1, <1>2, <1>3 DEF OrderInv

LEMMA AcceptOrder ==
  ASSUME OneIngester, StreamInv, NEW p \in Ingesters \union Stats, NEW c \in Conns,
         H!Send(p, c), H!Accept(p, c), OrderInv(c),
         UNCHANGED <<sessionVars, clientVars>>
  PROVE  OrderInv(c)'
<1> DEFINE n == last[p]
           q == queue[c]
<1>1. /\ queue'[c] = Append(q, <<p, n>>) /\ accepted'[c] = accepted[c] \union {<<p, n>>}
      /\ c \in pending[p]
  BY HubFacts DEF H!Send, H!Accept, H!Current
<1>2. /\ q \in Seq((Ingesters \union Stats) \X Nat) /\ n \in Nat
      /\ <<p, n>> \in (Ingesters \union Stats) \X Nat
      /\ <<p, n>>[1] = p /\ <<p, n>>[2] = n
  BY HubFacts
<1> HIDE DEF q, n
<1>3. /\ Len(Append(q, <<p, n>>)) = Len(q) + 1 /\ Len(q) \in Nat
      /\ \A k \in 1..Len(q) : Append(q, <<p, n>>)[k] = q[k]
      /\ Append(q, <<p, n>>)[Len(q) + 1] = <<p, n>>
      /\ \A k \in 1..Len(Append(q, <<p, n>>)) : k \in 1..Len(q) \/ k = Len(q) + 1
  BY <1>2
<1>4. p = js => \A e \in Nat : Accepted(c, e) => e < n
  BY <1>1, HubFacts DEF n
<1>5. \A e \in Nat : Accepted(c, e) => Accepted(c, e)'
  BY <1>1 DEF Accepted
<1>6. ASSUME NEW e \in Nat, Accepted(c, e), BelowHeld(c, e)
      PROVE  BelowHeld(c, e)'
  <2>1. \A k \in 1..Len(queue'[c]) : queue'[c][k][1] = js => e < queue'[c][k][2]
    BY <1>1, <1>2, <1>3, <1>4, <1>6 DEF BelowHeld, q
  <2> QED
    BY <1>6, <2>1 DEF BelowHeld, sessionVars, replayVars
<1>7. StreamType
  BY DEF StreamInv
<1> QED
  BY <1>5, <1>6, <1>7, OrderFrame DEF sessionVars, replayVars, clientVars

LEMMA HubStepOrder ==
  ASSUME OneIngester, StreamInv, NEW c \in Conns, OrderInv(c),
         \/ \E p \in Ingesters : Ingest(p)
         \/ \E p \in Stats : PublishStat(p)
         \/ \E p \in Ingesters \union Stats : PublishStep(p) \/ PublishLock(p)
         \/ \E d \in Conns : Unsubscribed(d)
  PROVE  OrderInv(c)'
<1>1. UNCHANGED <<sessionVars, clientVars>> /\ StreamType
  BY DEF Ingest, BeginInsert, CommitInsert, AbortInsert, PublishInserted, LoseReply,
         PublishStat, PublishStep, PublishLock, Unsubscribed, StreamInv
<1>2. CASE queue'[c] = queue[c] /\ accepted'[c] = accepted[c]
  BY <1>1, <1>2, OrderFrame DEF sessionVars, replayVars, clientVars, Accepted, BelowHeld
<1>3. ASSUME NEW p \in Ingesters \union Stats, NEW d \in Conns, H!Send(p, d)
      PROVE  OrderInv(c)'
  <2>1. CASE d = c /\ H!Accept(p, c)
    BY <1>1, <1>3, <2>1, AcceptOrder
  <2>2. CASE d # c \/ H!Drop(p, d)
    <3>1. queue'[c] = queue[c] /\ accepted'[c] = accepted[c]
      BY <1>3, <2>2, HubFacts DEF H!Send, H!Accept, H!Drop
    <3> QED
      BY <1>2, <3>1
  <2> QED
    BY <1>3, <2>1, <2>2 DEF H!Send
<1>4. ASSUME ~(\E p \in Ingesters \union Stats, d \in Conns : H!Send(p, d))
      PROVE  UNCHANGED <<queue, accepted>>
  BY <1>4 DEF Ingest, BeginInsert, CommitInsert, AbortInsert, PublishInserted, LoseReply, PublishStat,
       PublishStep, PublishLock, Unsubscribed, hubVars, H!PublishStep, H!PublishBegin, H!Evict,
       H!PublishRUnlock, H!PublishUnlock, H!PublishLock, H!Close, H!subVars, H!history
<1> QED
  BY <1>2, <1>3, <1>4

-----------------------------------------------------------------------------
(* The steps of the session.                                               *)

LEMMA EnqueueOrder ==
  ASSUME NEW c \in Conns, OrderInv(c), StreamType, conn[c] = "open", conn'[c] = "open",
         NEW id \in Nat, Enqueue(c, id), cursor' = cursor,
         \A e \in Nat : Behind(c, e) => Behind(c, e)',
         \A d, e \in Nat : Follows(c, e, d) => Follows(c, e, d)',
         id # 0 => Behind(c, id)' /\ \A e \in Nat : Behind(c, e) => Follows(c, id, e)'
  PROVE  OrderInv(c)'
<1> DEFINE s == outCh[c]
<1>1. outCh'[c] = Append(s, id) /\ s \in Seq(Nat) /\ cursor \in Nat
  BY DEF Enqueue, CloseConn, StreamType
<1> HIDE DEF s
<1>2. /\ Len(s) \in Nat /\ Len(outCh'[c]) = Len(s) + 1
      /\ \A k \in 1..Len(s) : outCh'[c][k] = s[k] /\ s[k] \in Nat
      /\ outCh'[c][Len(s) + 1] = id
      /\ \A k \in 1..Len(outCh'[c]) : k \in 1..Len(s) \/ k = Len(s) + 1
  BY <1>1
<1>3. /\ Behind(c, cursor)
      /\ \A k \in 1..Len(s) : s[k] # 0 => Behind(c, s[k]) /\ Follows(c, s[k], cursor)
      /\ \A j, k \in 1..Len(s) : j < k /\ s[j] # 0 /\ s[k] # 0 => Follows(c, s[k], s[j])
  BY DEF OrderInv, s
<1>4. Behind(c, cursor)'
  BY <1>1, <1>3
<1>5. ASSUME NEW k \in 1..Len(outCh'[c]), outCh'[c][k] # 0
      PROVE  Behind(c, outCh[c][k])' /\ Follows(c, outCh[c][k], cursor)'
  <2>1. CASE k \in 1..Len(s)
    BY <1>1, <1>2, <1>3, <1>5, <2>1
  <2>2. CASE k = Len(s) + 1
    BY <1>1, <1>2, <1>3, <1>5, <2>2
  <2> QED
    BY <1>2, <2>1, <2>2
<1>6. ASSUME NEW j \in 1..Len(outCh'[c]), NEW k \in 1..Len(outCh'[c]), j < k,
             outCh'[c][j] # 0, outCh'[c][k] # 0
      PROVE  Follows(c, outCh[c][k], outCh[c][j])'
  <2>1. j \in 1..Len(s)
    BY <1>2, <1>6
  <2>2. CASE k \in 1..Len(s)
    BY <1>2, <1>3, <1>6, <2>1, <2>2
  <2>3. CASE k = Len(s) + 1
    BY <1>2, <1>3, <1>6, <2>1, <2>3
  <2> QED
    BY <1>2, <2>2, <2>3
<1> QED
  BY <1>4, <1>5, <1>6 DEF OrderInv

LEMMA ConnectOrder ==
  ASSUME StreamInv, NEW c \in Conns, Connect(c)
  PROVE  OrderInv(c)'
<1>1. StreamType
  BY DEF StreamInv
<1>2. PICK stat \in TokenStatSnapshots : outCh' = [outCh EXCEPT ![c] = stat]
  BY DEF Connect
<1>3. /\ outCh'[c] = stat /\ \A k \in 1..Len(stat) : stat[k] = 0
      /\ cursor' = cursor /\ lastLogID'[c] = cursor /\ cursor \in Nat
  BY <1>1, <1>2 DEF Connect, StreamType, TokenStatSnapshots
<1> QED
  BY <1>3 DEF OrderInv, Behind

(* Before the flush all that has gone out came from the replay.            *)
LEMMA ReplayOrder ==
  ASSUME OneIngester, StreamInv, NEW c \in Conns, OrderInv(c),
         ReplayRead(c) \/ ReplaySend(c) \/ TakeReplayDone(c), conn'[c] = "open"
  PROVE  OrderInv(c)'
<1>1. StreamType /\ OpenInv(c) /\ conn[c] = "open" /\ cursor' = cursor
  BY OpenFacts DEF StreamInv, ReplayRead, ReplaySend, TakeReplayDone, Selecting, clientVars
<1>2. /\ cursor \in Nat /\ lastLogID[c] \in Nat /\ replayMax[c] \in Nat
      /\ \A k \in 1..Len(outCh[c]) : outCh[c][k] \in Nat
  BY <1>1 DEF StreamType
<1>3. CASE ReplayRead(c)
  <2>1. replay[c] = "reading" /\ UNCHANGED <<lastLogID, replayMax, outCh>>
    BY <1>3 DEF ReplayRead
  <2> QED
    BY <1>1, <2>1 DEF OrderInv, Behind, Follows
<1>4. CASE ReplaySend(c)
  <2>1. PICK id \in batch[c] :
          /\ lastLogID' = [lastLogID EXCEPT ![c] = id] /\ Enqueue(c, id)
    BY <1>4 DEF ReplaySend
  <2>2. /\ id \in Nat /\ id > lastLogID[c] /\ lastLogID'[c] = id /\ replayMax' = replayMax
        /\ replay[c] \in {"last", "full"}
    BY <1>1, <1>4, <2>1 DEF ReplaySend, StreamType, OpenInv, ReplayInv
  <2>3. \A e \in Nat : Behind(c, e) => e <= lastLogID[c]
    BY <2>2 DEF Behind
  <2>4. \A e \in Nat : Behind(c, e) => Behind(c, e)' /\ Follows(c, id, e)'
    BY <1>2, <2>2, <2>3 DEF Behind, Follows
  <2>5. Behind(c, id)'
    BY <2>2 DEF Behind
  <2>6. \A d, e \in Nat : Follows(c, e, d) => Follows(c, e, d)'
    BY <2>2 DEF Follows
  <2> QED
    BY <1>1, <2>1, <2>2, <2>4, <2>5, <2>6, EnqueueOrder
<1>5. CASE TakeReplayDone(c)
  <2>1. /\ replay[c] = "posted" /\ replayMax'[c] = lastLogID[c]
        /\ UNCHANGED <<lastLogID, outCh>>
    BY <1>1, <1>5 DEF TakeReplayDone, StreamType
  <2> QED
    BY <1>1, <2>1 DEF OrderInv, Behind, Follows
<1> QED
  BY <1>3, <1>4, <1>5

LEMMA FlushOrder ==
  ASSUME OneIngester, StreamInv, NEW c \in Conns, OrderInv(c), Flush(c), conn'[c] = "open"
  PROVE  OrderInv(c)'
<1> DEFINE b == buffered[c]
<1>1. /\ StreamType /\ OpenInv(c) /\ conn[c] = "open" /\ cursor' = cursor /\ replay[c] = "flushing"
      /\ UNCHANGED <<accepted, queue, lastLogID, replayMax>>
  BY OpenFacts DEF StreamInv, Flush, clientVars, hubVars
<1>2. /\ cursor \in Nat /\ lastLogID[c] = replayMax[c] /\ lastLogID[c] \in Nat
      /\ \A k \in 1..Len(outCh[c]) : outCh[c][k] \in Nat
  BY <1>1 DEF StreamType, OpenInv, ReplayInv
<1>3. replay'[c] \in {"flushing", "done"}
  BY <1>1 DEF Flush, StreamType
<1>4. CASE b = <<>>
  BY <1>1, <1>3, <1>4 DEF Flush, OrderInv, Behind, BelowHeld, Follows, Accepted
<1>5. CASE b # <<>>
  <2>1. b \in Seq(Nat)
    BY <1>1 DEF StreamType
  <2> PICK h \in Nat : h = Head(b)
    BY <1>5, <2>1
  <2>2. /\ buffered'[c] = Tail(b)
        /\ IF Covered(c, h) THEN UNCHANGED outCh ELSE Enqueue(c, h)
    BY <1>1, <1>5 DEF Flush, StreamType
  <2> HIDE DEF b
  <2>3. /\ Len(b) \in Nat \ {0} /\ Len(Tail(b)) = Len(b) - 1
        /\ \A k \in 1..Len(Tail(b)) : Tail(b)[k] = b[k + 1] /\ k + 1 \in 1..Len(b) /\ 1 < k + 1
        /\ h = b[1] /\ 1 \in 1..Len(b)
    BY <1>5, <2>1
  <2>4. \A e \in Nat : BelowHeld(c, e) => BelowHeld(c, e)' /\ (h # 0 => e < h)
    BY <1>1, <2>2, <2>3 DEF BelowHeld, b
  <2>5. /\ \A e \in Nat : Behind(c, e) => Behind(c, e)'
        /\ \A e \in Nat : Behind(c, e) => e <= lastLogID[c] \/ (h # 0 => e < h)
    BY <1>1, <1>3, <2>4 DEF Behind, Accepted
  <2>6. \A d, e \in Nat : Follows(c, e, d)' <=> Follows(c, e, d)
    BY <1>1 DEF Follows
  <2>7. CASE Covered(c, h)
    BY <1>1, <1>2, <2>2, <2>5, <2>6, <2>7 DEF OrderInv
  <2>8. CASE ~Covered(c, h)
    <3>1. h # 0 /\ h > lastLogID[c] /\ Accepted(c, h)
      BY <1>1, <1>2, <2>3, <2>8 DEF Covered, OpenInv, RefsInv, b
    <3>2. BelowHeld(c, h)'
      <4>1. \A k \in 1..Len(Tail(b)) : Tail(b)[k] # 0 => h < Tail(b)[k]
        BY <1>1, <2>3, <3>1 DEF OpenInv, HeldInv, b
      <4>2. \A k \in 1..Len(queue[c]) : queue[c][k][1] = js => h < queue[c][k][2]
        BY <1>1, <2>3, <3>1 DEF OpenInv, HeldInv, b
      <4> QED
        BY <1>1, <2>2, <4>1, <4>2 DEF BelowHeld
    <3>3. Behind(c, h)'
      BY <1>1, <1>3, <3>1, <3>2 DEF Behind, Accepted
    <3>4. \A e \in Nat : Behind(c, e) => Follows(c, h, e)'
      BY <1>2, <2>5, <3>1 DEF Follows
    <3> QED
      BY <1>1, <2>2, <2>5, <2>6, <2>8, <3>3, <3>4, EnqueueOrder
  <2> QED
    BY <2>7, <2>8
<1> QED
  BY <1>4, <1>5

LEMMA TakeEventOrder ==
  ASSUME OneIngester, StreamInv, NEW c \in Conns, OrderInv(c), TakeEvent(c), conn'[c] = "open"
  PROVE  OrderInv(c)'
<1> DEFINE q == queue[c]
<1>1. /\ StreamType /\ OpenInv(c) /\ conn[c] = "open" /\ replay[c] # "flushing"
      /\ UNCHANGED <<cursor, accepted, replay, lastLogID, replayMax>> /\ queue'[c] = Tail(q)
  BY OpenFacts, HubFacts DEF StreamInv, TakeEvent, Selecting, H!Receive, H!history, clientVars
<1>2. /\ cursor \in Nat /\ lastLogID[c] \in Nat /\ replayMax[c] \in Nat
      /\ \A k \in 1..Len(outCh[c]) : outCh[c][k] \in Nat
  BY <1>1 DEF StreamType
<1>3. q \in Seq((Ingesters \union Stats) \X Nat) /\ q # <<>>
  BY HubFacts DEF TakeEvent, H!Receive
<1> PICK f \in (Ingesters \union Stats) \X Nat : f = Head(q)
  BY <1>3
<1> PICK id \in Nat : id = LogID(f)
  BY DEF LogID
<1>4. IF ReplayReady(c) THEN Enqueue(c, id) /\ UNCHANGED buffered ELSE UNCHANGED outCh
  BY DEF TakeEvent
<1> HIDE DEF q
<1>5. /\ Len(q) \in Nat \ {0} /\ Len(Tail(q)) = Len(q) - 1
      /\ \A k \in 1..Len(Tail(q)) : Tail(q)[k] = q[k + 1] /\ k + 1 \in 1..Len(q) /\ 1 < k + 1
      /\ f = q[1] /\ 1 \in 1..Len(q)
  BY <1>3
<1>6. CASE ReplayReady(c)
  <2>1. replay[c] = "done" /\ replayMax[c] = lastLogID[c] /\ buffered' = buffered
        /\ buffered[c] = <<>> /\ Enqueue(c, id)
    BY <1>1, <1>4, <1>6 DEF ReplayReady, OpenInv, ReplayInv
  <2>2. id # 0 => f[1] = js /\ f[2] = id /\ Accepted(c, id)
    <3>1. f \in accepted[c]
      BY <1>1, <1>5 DEF OpenInv, RefsInv, q
    <3>2. id # 0 => f[1] = js /\ f[2] = id /\ f = <<js, id>>
      BY DEF LogID, OneIngester
    <3> QED
      BY <3>1, <3>2 DEF Accepted
  <2>3. \A e \in Nat : BelowHeld(c, e) => BelowHeld(c, e)' /\ (id # 0 => e < id)
    BY <1>1, <1>5, <2>1, <2>2 DEF BelowHeld, q
  <2>4. /\ \A e \in Nat : Behind(c, e) => Behind(c, e)'
        /\ \A e \in Nat : Behind(c, e) => e <= lastLogID[c] \/ (id # 0 => e < id)
    BY <1>1, <2>3 DEF Behind, Accepted
  <2>5. \A d, e \in Nat : Follows(c, e, d)' <=> Follows(c, e, d)
    BY <1>1 DEF Follows
  <2>6. id # 0 => BelowHeld(c, id)'
    <3>1. id # 0 => \A k \in 1..Len(Tail(q)) : Tail(q)[k][1] = js => id < Tail(q)[k][2]
      BY <1>1, <1>5, <2>2 DEF OpenInv, HeldInv, q
    <3>2. Len(buffered'[c]) = 0
      BY <2>1
    <3> QED
      BY <1>1, <3>1, <3>2 DEF BelowHeld
  <2>7. id # 0 => Behind(c, id)'
    BY <1>1, <2>1, <2>2, <2>6 DEF Behind, Accepted
  <2>8. id # 0 => \A e \in Nat : Behind(c, e) => Follows(c, id, e)'
    BY <1>1, <1>2, <2>1, <2>4 DEF Follows
  <2> QED
    BY <1>1, <2>1, <2>4, <2>5, <2>7, <2>8, EnqueueOrder
<1>7. CASE ~ReplayReady(c)
  <2>1. outCh' = outCh /\ replay[c] \notin {"flushing", "done"}
    BY <1>1, <1>4, <1>7 DEF ReplayReady
  <2> QED
    BY <1>1, <2>1 DEF OrderInv, Behind, Follows
<1> QED
  BY <1>6, <1>7

LEMMA WriteOrder ==
  ASSUME StreamInv, NEW c \in Conns, OrderInv(c), Write(c)
  PROVE  OrderInv(c)'
<1> DEFINE s == outCh[c]
<1>1. /\ StreamType /\ s # <<>> /\ s \in Seq(Nat) /\ cursor \in Nat
      /\ UNCHANGED <<queue, accepted, replay, buffered, lastLogID, replayMax>>
  BY DEF StreamInv, StreamType, Write, hubVars, replayVars
<1> PICK h \in Nat : h = Head(s)
  BY <1>1
<1>2. outCh'[c] = Tail(s) /\ cursor' = IF h > cursor THEN h ELSE cursor
  BY <1>1 DEF Write, StreamType
<1> HIDE DEF s
<1>3. /\ Len(s) \in Nat \ {0} /\ Len(Tail(s)) = Len(s) - 1
      /\ \A k \in 1..Len(Tail(s)) :
           Tail(s)[k] = s[k + 1] /\ k + 1 \in 1..Len(s) /\ 1 < k + 1 /\ Tail(s)[k] \in Nat
      /\ h = s[1] /\ 1 \in 1..Len(s)
  BY <1>1
<1>4. /\ Behind(c, cursor)
      /\ \A k \in 1..Len(s) : s[k] # 0 => Behind(c, s[k]) /\ Follows(c, s[k], cursor)
      /\ \A j, k \in 1..Len(s) : j < k /\ s[j] # 0 /\ s[k] # 0 => Follows(c, s[k], s[j])
  BY DEF OrderInv, s
<1>5. /\ \A e \in Nat : Behind(c, e)' <=> Behind(c, e)
      /\ \A d, e \in Nat : Follows(c, e, d)' <=> Follows(c, e, d)
  BY <1>1 DEF Behind, Follows, BelowHeld, Accepted
<1>6. (cursor' = h /\ h # 0) \/ cursor' = cursor
  BY <1>1, <1>2
<1>7. Behind(c, cursor)'
  <2>1. Behind(c, h) \/ h = 0
    BY <1>3, <1>4
  <2>2. \A e \in Nat : e = cursor' /\ Behind(c, e) => Behind(c, cursor)'
    BY <1>1 DEF Behind, BelowHeld, Accepted
  <2> QED
    BY <1>1, <1>4, <1>6, <2>1, <2>2
<1>8. \A k \in 1..Len(Tail(s)) : Tail(s)[k] # 0 =>
        Behind(c, Tail(s)[k]) /\ Follows(c, Tail(s)[k], cursor')
  <2> SUFFICES ASSUME NEW k \in 1..Len(Tail(s)), Tail(s)[k] # 0
               PROVE  Behind(c, Tail(s)[k]) /\ Follows(c, Tail(s)[k], cursor')
    OBVIOUS
  <2>1. s[k + 1] = Tail(s)[k] /\ Behind(c, s[k + 1]) /\ Follows(c, s[k + 1], cursor)
    BY <1>3, <1>4
  <2>2. h # 0 => Follows(c, s[k + 1], h)
    BY <1>3, <1>4, <2>1
  <2> QED
    BY <1>6, <2>1, <2>2
<1>9. \A j, k \in 1..Len(Tail(s)) :
        j < k /\ Tail(s)[j] # 0 /\ Tail(s)[k] # 0 => Follows(c, Tail(s)[k], Tail(s)[j])
  BY <1>3, <1>4
<1>10. \A k \in 1..Len(outCh'[c]) : outCh'[c][k] # 0 =>
         Behind(c, outCh[c][k])' /\ Follows(c, outCh[c][k], cursor)'
  <2>1. cursor' \in Nat
    BY <1>1, <1>2
  <2>2. \A e \in Nat : Follows(c, e, cursor') => e > cursor' \/ e <= replayMax'[c]
    BY <1>1, <2>1 DEF Follows
  <2> QED
    BY <1>2, <1>3, <1>5, <1>8, <2>1, <2>2 DEF Follows
<1>11. \A j, k \in 1..Len(outCh'[c]) :
         j < k /\ outCh'[c][j] # 0 /\ outCh'[c][k] # 0 => Follows(c, outCh[c][k], outCh[c][j])'
  BY <1>2, <1>3, <1>5, <1>9
<1> QED
  BY <1>7, <1>10, <1>11 DEF OrderInv

-----------------------------------------------------------------------------
LEMMA InitDelivery ==
  ASSUME Init
  PROVE  DeliveryInv
BY DEF Init, DeliveryInv

(* Only the open connection's steps touch outCh.                           *)
LEMMA UnusedKept ==
  ASSUME StreamInv, DeliveryInv, [Next]_vars, NEW c \in Conns, conn'[c] = "unused"
  PROVE  outCh'[c] = <<>>
<1>0. StreamType
  BY DEF StreamInv
<1>1. CASE conn'[c] = conn[c] /\ outCh'[c] = outCh[c]
  BY <1>1 DEF DeliveryInv
<1>2. ASSUME NEW d \in Conns, Connect(d) \/ Cleanup(d)
      PROVE  outCh'[c] = <<>>
  <2>1. d # c /\ conn'[c] = conn[c] /\ outCh'[c] = outCh[c]
    BY <1>0, <1>2 DEF Connect, Cleanup, StreamType
  <2> QED
    BY <1>1, <2>1
<1>3. ASSUME NEW d \in Conns, Replay(d) \/ Flush(d) \/ TakeEvent(d) \/ Write(d)
      PROVE  outCh'[c] = <<>>
  <2>1. /\ conn[d] = "open"
        /\ conn' = conn \/ conn' = [conn EXCEPT ![d] = "closed"]
        /\ \E s : outCh' = [outCh EXCEPT ![d] = s]
    BY <1>0, <1>3 DEF Replay, ReplayRead, ReplaySend, Flush, TakeEvent, Write, Selecting, Enqueue,
         CloseConn, StreamType
  <2>2. d # c /\ conn'[c] = conn[c] /\ outCh'[c] = outCh[c]
    BY <1>0, <2>1 DEF StreamType
  <2> QED
    BY <1>1, <2>2
<1>4. ASSUME NEW d \in Conns, Disconnect(d) \/ ReplayFail(d) \/ TakeOverflow(d)
      PROVE  outCh'[c] = <<>>
  <2>1. d # c /\ conn'[c] = conn[c] /\ outCh'[c] = outCh[c]
    BY <1>0, <1>4 DEF Disconnect, ReplayFail, TakeOverflow, CloseConn, StreamType
  <2> QED
    BY <1>1, <2>1
<1>5. ASSUME NEW d \in Conns, OnClose(d) \/ Unsubscribed(d) \/ TakeReplayDone(d) \/ TakeEventsClosed(d)
      PROVE  UNCHANGED <<conn, outCh>>
  BY <1>5 DEF OnClose, Unsubscribed, TakeReplayDone, TakeEventsClosed, sessionVars
<1>6. ASSUME \/ \E p \in Ingesters : Ingest(p)
             \/ \E p \in Stats : PublishStat(p)
             \/ \E p \in Ingesters \union Stats : PublishStep(p) \/ PublishLock(p)
      PROVE  UNCHANGED <<conn, outCh>>
  BY <1>6 DEF Ingest, BeginInsert, CommitInsert, AbortInsert, PublishInserted, LoseReply, PublishStat,
       PublishStep, PublishLock, sessionVars
<1>7. CASE UNCHANGED vars
  BY <1>1, <1>7 DEF vars, sessionVars
<1> QED
  BY <1>1, <1>2, <1>3, <1>4, <1>5, <1>6, <1>7 DEF Next, Forward

LEMMA OrderKept ==
  ASSUME OneIngester, StreamInv, DeliveryInv, [Next]_vars, NEW c \in Conns, conn'[c] = "open"
  PROVE  OrderInv(c)'
<1>0. StreamType
  BY DEF StreamInv
<1>1. ASSUME NEW d \in Conns, Connect(d)
      PROVE  OrderInv(c)'
  <2>1. d # c => conn[c] = "open"
    BY <1>0, <1>1 DEF Connect, StreamType
  <2>2. d = c
    BY <1>1, <2>1, OpenFacts, StreamAssumption DEF Connect
  <2> QED
    BY <1>1, <2>2, ConnectOrder
<1>2. CASE ~(\E d \in Conns : Connect(d))
  <2>1. conn[c] = "open"
    BY <1>0, <1>2 DEF Next, Ingest, BeginInsert, CommitInsert, AbortInsert, PublishInserted, LoseReply,
       PublishStat, PublishStep, PublishLock, Disconnect, OnClose, Cleanup, Unsubscribed, Replay,
       ReplayRead, ReplaySend, ReplayFail, Forward, TakeReplayDone, Flush, TakeEvent, TakeOverflow,
       TakeEventsClosed, Write, Enqueue, CloseConn, StreamType, sessionVars, vars
  <2>2. OrderInv(c)
    BY <2>1 DEF DeliveryInv
  <2>3. CASE \/ \E p \in Ingesters : Ingest(p)
             \/ \E p \in Stats : PublishStat(p)
             \/ \E p \in Ingesters \union Stats : PublishStep(p) \/ PublishLock(p)
             \/ \E d \in Conns : Unsubscribed(d)
    BY <2>2, <2>3, HubStepOrder
  <2>4. ASSUME NEW d \in Conns,
               Replay(d) \/ TakeReplayDone(d) \/ Flush(d) \/ TakeEvent(d) \/ Write(d)
        PROVE  OrderInv(c)'
    <3>1. conn[d] = "open"
      BY <2>4 DEF Replay, ReplayRead, ReplaySend, TakeReplayDone, Flush, TakeEvent, Write, Selecting
    <3>2. d = c
      BY <2>1, <3>1, OpenFacts
    <3> QED
      BY <2>2, <2>4, <3>2, ReplayOrder, FlushOrder, TakeEventOrder, WriteOrder DEF Replay
  <2>5. ASSUME NEW d \in Conns, Disconnect(d) \/ ReplayFail(d) \/ TakeOverflow(d)
        PROVE  FALSE
    <3>1. conn[d] = "open" /\ d # c
      BY <1>0, <2>5 DEF Disconnect, ReplayFail, TakeOverflow, Selecting, CloseConn, StreamType
    <3> QED
      BY <2>1, <3>1, OpenFacts
  <2>6. ASSUME NEW d \in Conns, OnClose(d) \/ TakeEventsClosed(d)
        PROVE  OrderInv(c)'
    BY <1>0, <2>2, <2>6, OrderFrame DEF OnClose, TakeEventsClosed, hubVars, sessionVars, replayVars,
         clientVars, Accepted, BelowHeld
  <2>7. ASSUME NEW d \in Conns, Cleanup(d)
        PROVE  OrderInv(c)'
    <3>1. d # c
      BY <2>1, <2>7 DEF Cleanup
    <3>2. queue' = queue /\ accepted' = accepted /\ cursor' = cursor
      BY <2>7 DEF Cleanup, H!Remove, H!subVars, H!history, clientVars
    <3>3. /\ outCh'[c] = outCh[c] /\ lastLogID'[c] = lastLogID[c] /\ replayMax'[c] = replayMax[c]
          /\ replay'[c] = replay[c] /\ buffered'[c] = buffered[c]
      BY <1>0, <2>7, <3>1 DEF Cleanup, StreamType
    <3> QED
      BY <1>0, <2>2, <3>2, <3>3, OrderFrame DEF Accepted, BelowHeld
  <2>8. CASE UNCHANGED vars
    BY <1>0, <2>2, <2>8, OrderFrame DEF vars, hubVars, sessionVars, replayVars, clientVars, Accepted,
       BelowHeld
  <2> QED
    BY <1>2, <2>3, <2>4, <2>5, <2>6, <2>7, <2>8 DEF Next, Forward
<1> QED
  BY <1>1, <1>2

(* What is at the head of an open connection's outCh may be delivered.     *)
LEMMA DeliveryStep ==
  ASSUME StreamInv, DeliveryInv, [Next]_vars, NEW c \in Conns, Delivers(c), Head(outCh[c]) # 0
  PROVE  Head(outCh[c]) > cursor \/ Head(outCh[c]) <= replayMax[c]
<1>0. StreamType
  BY DEF StreamInv
<1>1. conn[c] = "open"
  <2>1. CASE \E d \in Conns : Connect(d)
    <3>1. PICK d \in Conns : Connect(d)
      BY <2>1
    <3>2. d # c
      BY <3>1 DEF Delivers, Connect, DeliveryInv
    <3> QED
      BY <1>0, <3>1, <3>2 DEF Connect, Delivers, StreamType
  <2>2. CASE ~(\E d \in Conns : Connect(d))
    BY <1>0, <2>2 DEF Next, Ingest, BeginInsert, CommitInsert, AbortInsert, PublishInserted, LoseReply,
       PublishStat, PublishStep, PublishLock, Disconnect, OnClose, Cleanup, Unsubscribed, Replay,
       ReplayRead, ReplaySend, ReplayFail, Forward, TakeReplayDone, Flush, TakeEvent, TakeOverflow,
       TakeEventsClosed, Write, Enqueue, CloseConn, StreamType, sessionVars, vars, Delivers
  <2> QED
    BY <2>1, <2>2
<1>2. outCh[c] \in Seq(Nat) /\ outCh[c] # <<>> /\ cursor \in Nat
  BY <1>0 DEF Delivers, StreamType
<1>3. Head(outCh[c]) = outCh[c][1] /\ 1 \in 1..Len(outCh[c]) /\ outCh[c][1] \in Nat
  BY <1>2
<1>4. Follows(c, outCh[c][1], cursor)
  BY <1>1, <1>3 DEF DeliveryInv, OrderInv
<1> QED
  BY <1>2, <1>3, <1>4 DEF Follows

(* With one ingester an open connection delivers each event after all it   *)
(* has delivered, in the order of log_ids, unless the replay has covered   *)
(* it (the replay of ws.go, the buffer behind it and the live path).       *)
THEOREM OrderWithOneIngester ==
  ASSUME OneIngester
  PROVE  Spec => LiveInOrder
<1> DEFINE InOrder ==
      \A c \in Conns : Delivers(c) /\ Head(outCh[c]) # 0
        => Head(outCh[c]) > cursor \/ Head(outCh[c]) <= replayMax[c]
<1>1. Init => DeliveryInv
  BY InitDelivery
<1>2. StreamInv /\ DeliveryInv /\ [Next]_vars => DeliveryInv'
  BY OrderKept, UnusedKept DEF DeliveryInv
<1>3. StreamInv /\ DeliveryInv /\ [Next]_vars => InOrder
  BY DeliveryStep
<1> QED
  BY <1>1, <1>2, <1>3, StreamInvariant, PTL DEF Spec, LiveInOrder

-----------------------------------------------------------------------------
(* Types and capacities, whoever ingests.                                  *)

(* What keeps the bounds of TypeOK, whatever the ingesters.                *)
LogBounds ==
  /\ log \subseteq 1..MaxLog /\ nextLogID \in 1..(MaxLog + 1) /\ unpublished \subseteq log
  /\ insert \in [Ingesters -> [stage : {"idle", "inserting", "inserted"}, id : 0..MaxLog]]
  /\ \A p \in Ingesters : insert[p].stage # "idle" => insert[p].id # 0
  /\ \A p \in Ingesters : insert[p].stage = "inserted" => insert[p].id \in log
  /\ current \in Conns \union {None}
  /\ received \subseteq 1..MaxLog /\ cursor \in 0..MaxLog

SessionBounds ==
  /\ conn \in [Conns -> {"unused", "open", "closed", "cleaned"}]
  /\ forwarder \in [Conns -> {"none", "running", "returned"}]
  /\ replay \in [Conns -> Phases]
  /\ batch \in [Conns -> SUBSET (1..MaxLog)]
  /\ \A c \in Conns : Cardinality(batch[c]) <= BatchSize
  /\ lastLogID \in [Conns -> 0..MaxLog] /\ replayMax \in [Conns -> 0..MaxLog]
  /\ buffered \in [Conns -> Seq(0..MaxLog)] /\ outCh \in [Conns -> Seq(0..MaxLog)]
  /\ \A c \in Conns : Len(outCh[c]) <= OutCap

(* What the ingesters publish, and the hub holds, are drawn log_ids.       *)
EventBounds ==
  /\ \A p \in Ingesters : last[p] <= MaxLog
  /\ \A c \in Conns : \A k \in 1..Len(queue[c]) :
       queue[c][k][1] \in Ingesters => queue[c][k][2] <= MaxLog

BoundsInv == HP!HubInv /\ LogBounds /\ SessionBounds /\ EventBounds

LEMMA InitBounds ==
  ASSUME Init
  PROVE  BoundsInv
<1>1. HP!HubInv
  <2>1. HP!Init
    BY DEF Init, H!Init, HP!Init
  <2> QED
    BY <2>1, HP!InitHubInv, HubConstants
<1>2. MaxLog \in Nat \ {0} /\ BatchSize \in Nat \ {0} /\ OutCap \in Nat \ {0}
  BY StreamAssumption
<1>3. LogBounds
  BY <1>2 DEF Init, LogBounds, Idle
<1>4. SessionBounds
  <2>1. Cardinality({}) = 0
    BY FS_EmptySet
  <2>2. 0 \in 0..MaxLog /\ <<>> \in Seq(0..MaxLog) /\ Len(<<>>) = 0
    BY <1>2
  <2> QED
    BY <1>2, <2>1, <2>2 DEF Init, SessionBounds, Phases
<1>5. EventBounds
  BY <1>2 DEF Init, H!Init, EventBounds
<1> QED
  BY <1>1, <1>3, <1>4, <1>5 DEF BoundsInv

LEMMA LogBoundsKept ==
  ASSUME BoundsInv, [Next]_vars
  PROVE  LogBounds'
<1>0. LogBounds /\ SessionBounds /\ MaxLog \in Nat \ {0}
  BY StreamAssumption DEF BoundsInv
<1>1. ASSUME NEW p \in Ingesters, Ingest(p)
      PROVE  LogBounds'
  <2> DEFINE Records == [stage : {"idle", "inserting", "inserted"}, id : 0..MaxLog]
  <2>1. insert[p] \in Records /\ insert \in [Ingesters -> Records]
    BY <1>0 DEF LogBounds
  <2>2. CASE BeginInsert(p)
    <3>1. nextLogID \in 1..MaxLog /\ nextLogID + 1 \in 1..(MaxLog + 1)
      BY <1>0, <2>2 DEF BeginInsert, LogBounds
    <3>2. [stage |-> "inserting", id |-> nextLogID] \in Records
      BY <3>1
    <3>3. insert' \in [Ingesters -> Records]
      BY <2>1, <2>2, <3>2 DEF BeginInsert
    <3> QED
      BY <1>0, <2>2, <3>1, <3>3 DEF BeginInsert, LogBounds, clientVars
  <2>3. CASE CommitInsert(p)
    <3>1. insert[p].id \in 1..MaxLog
      BY <1>0, <2>1, <2>3 DEF CommitInsert, LogBounds
    <3>2. insert' \in [Ingesters -> Records]
      BY <2>1, <2>3 DEF CommitInsert
    <3> QED
      BY <1>0, <2>1, <2>3, <3>1, <3>2 DEF CommitInsert, LogBounds, clientVars
  <2>4. CASE AbortInsert(p) \/ PublishInserted(p) \/ LoseReply(p)
    <3>1. Idle \in Records /\ Idle.stage = "idle"
      BY <1>0 DEF Idle
    <3>2. /\ insert' = [insert EXCEPT ![p] = Idle]
          /\ UNCHANGED <<log, nextLogID, clientVars>>
          /\ unpublished' \subseteq log
      BY <1>0, <2>4 DEF AbortInsert, PublishInserted, LoseReply, LogBounds
    <3>3. insert' \in [Ingesters -> Records]
      BY <2>1, <3>1, <3>2
    <3> QED
      BY <1>0, <2>1, <3>1, <3>2, <3>3 DEF LogBounds, clientVars
  <2> QED
    BY <1>1, <2>2, <2>3, <2>4 DEF Ingest
<1>2. ASSUME UNCHANGED <<logVars, received, cursor>>, current' \in Conns \union {None}
      PROVE  LogBounds'
  BY <1>0, <1>2 DEF logVars, LogBounds
<1>3. ASSUME NEW p \in Ingesters \union Stats, PublishStep(p) \/ PublishLock(p) \/ PublishStat(p)
      PROVE  LogBounds'
  BY <1>0, <1>2, <1>3 DEF PublishStep, PublishLock, PublishStat, clientVars, LogBounds
<1>4. ASSUME NEW c \in Conns, Write(c)
      PROVE  LogBounds'
  <2>1. outCh[c] \in Seq(0..MaxLog) /\ outCh[c] # <<>>
    BY <1>0, <1>4 DEF Write, SessionBounds
  <2>2. Head(outCh[c]) \in 0..MaxLog
    BY <2>1, HeadTailProperties, Zenon
  <2>3. /\ received' = IF Head(outCh[c]) = 0 THEN received ELSE received \union {Head(outCh[c])}
        /\ cursor' = IF Head(outCh[c]) > cursor THEN Head(outCh[c]) ELSE cursor
        /\ UNCHANGED <<logVars, current>>
    BY <1>4 DEF Write
  <2>4. received' \subseteq 1..MaxLog /\ cursor' \in 0..MaxLog
    <3>1. received \subseteq 1..MaxLog /\ cursor \in 0..MaxLog
      BY <1>0 DEF LogBounds
    <3>2. Head(outCh[c]) # 0 => Head(outCh[c]) \in 1..MaxLog
      BY <1>0, <2>2
    <3>3. received' \subseteq 1..MaxLog
      BY <2>3, <3>1, <3>2, Zenon
    <3>4. cursor' \in 0..MaxLog
      BY <2>2, <2>3, <3>1, Zenon
    <3> QED
      BY <3>3, <3>4
  <2> QED
    BY <1>0, <2>3, <2>4 DEF logVars, LogBounds
<1>5. ASSUME NEW c \in Conns,
             Connect(c) \/ Disconnect(c) \/ OnClose(c) \/ Cleanup(c) \/ Unsubscribed(c)
               \/ Replay(c) \/ ReplayFail(c) \/ Forward(c)
      PROVE  LogBounds'
  <2>1. UNCHANGED <<logVars, received, cursor>> /\ current' \in {current, c, None}
    BY <1>5 DEF Connect, Disconnect, OnClose, Cleanup, Unsubscribed, Replay, ReplayRead,
         ReplaySend, ReplayFail, Forward, TakeReplayDone, Flush, TakeEvent, TakeOverflow,
         TakeEventsClosed, clientVars
  <2> QED
    BY <1>0, <1>2, <2>1 DEF LogBounds
<1>6. CASE UNCHANGED vars
  BY <1>0, <1>2, <1>6 DEF vars, clientVars, LogBounds
<1> QED
  BY <1>1, <1>3, <1>4, <1>5, <1>6 DEF Next

(* An event the ingesters have published is a log_id.                      *)
LEMMA HubTypes ==
  ASSUME BoundsInv
  PROVE  /\ last \in [Ingesters \union Stats -> Nat]
         /\ queue \in [Conns -> Seq((Ingesters \union Stats) \X Nat)]
BY DEF BoundsInv, HP!HubInv, HP!TypeOK, HP!Event

LEMMA EnqueueBounds ==
  ASSUME SessionBounds, NEW c \in Conns, NEW id \in 0..MaxLog, Enqueue(c, id)
  PROVE  /\ conn' \in [Conns -> {"unused", "open", "closed", "cleaned"}]
         /\ outCh' \in [Conns -> Seq(0..MaxLog)]
         /\ \A d \in Conns : Len(outCh'[d]) <= OutCap
<1>1. outCh \in [Conns -> Seq(0..MaxLog)] /\ outCh[c] \in Seq(0..MaxLog) /\ OutCap \in Nat
  BY StreamAssumption DEF SessionBounds
<1>2. Append(outCh[c], id) \in Seq(0..MaxLog) /\ Len(Append(outCh[c], id)) = Len(outCh[c]) + 1
  BY <1>1, AppendProperties
<1>3. Len(outCh[c]) \in Nat
  BY <1>1, LenProperties, Zenon
<1>4. CASE outCh' = outCh /\ CloseConn(c)
  BY <1>1, <1>4 DEF CloseConn, SessionBounds
<1>5. CASE Len(outCh[c]) < OutCap /\ outCh' = [outCh EXCEPT ![c] = Append(@, id)] /\ conn' = conn
  <2>1. outCh' \in [Conns -> Seq(0..MaxLog)]
    BY <1>1, <1>2, <1>5
  <2>2. outCh'[c] = Append(outCh[c], id) /\ \A d \in Conns : d # c => outCh'[d] = outCh[d]
    BY <1>1, <1>5
  <2>3. Len(outCh'[c]) <= OutCap
    BY <1>1, <1>2, <1>3, <1>5, <2>2
  <2> QED
    BY <1>5, <2>1, <2>2, <2>3 DEF SessionBounds
<1> QED
  BY <1>4, <1>5 DEF Enqueue

LEMMA SessionBoundsKept ==
  ASSUME BoundsInv, [Next]_vars
  PROVE  SessionBounds'
<1> USE DEF SessionBounds
<1>0. /\ SessionBounds /\ LogBounds /\ EventBounds
      /\ MaxLog \in Nat \ {0} /\ BatchSize \in Nat \ {0} /\ OutCap \in Nat \ {0}
  BY StreamAssumption DEF BoundsInv
<1>1. \A rows \in SUBSET (1..MaxLog) : IsFiniteSet(rows) /\ Cardinality(rows) \in Nat
  <2>1. IsFiniteSet(1..MaxLog)
    BY <1>0, FS_Interval
  <2> QED
    BY <2>1, FS_Subset, FS_CardinalityType
<1>2. CASE UNCHANGED sessionVars
  BY <1>0, <1>2 DEF sessionVars, replayVars
<1>3. ASSUME NEW c \in Conns, Connect(c)
      PROVE  SessionBounds'
  <2>1. <<>> \in Seq(0..MaxLog) /\ <<0>> \in Seq(0..MaxLog) /\ Len(<<>>) = 0 /\ Len(<<0>>) = 1
    BY <1>0
  <2>2. PICK stat \in TokenStatSnapshots : outCh' = [outCh EXCEPT ![c] = stat]
    BY <1>3 DEF Connect
  <2>3. stat \in Seq(0..MaxLog) /\ Len(stat) <= OutCap
    <3>1. CASE stat = <<>>
      BY <1>0, <2>1, <3>1
    <3>2. CASE stat = <<0>>
      BY <1>0, <2>1, <3>2
    <3> QED
      BY <2>2, <3>1, <3>2 DEF TokenStatSnapshots
  <2>4. outCh' \in [Conns -> Seq(0..MaxLog)] /\ \A d \in Conns : Len(outCh'[d]) <= OutCap
    BY <1>0, <2>2, <2>3
  <2> QED
    BY <1>0, <1>3, <2>4 DEF Connect, Phases, LogBounds
<1>4. ASSUME NEW c \in Conns, Disconnect(c) \/ OnClose(c) \/ ReplayFail(c) \/ TakeOverflow(c)
                               \/ TakeEventsClosed(c)
      PROVE  SessionBounds'
  BY <1>0, <1>4 DEF Disconnect, OnClose, ReplayFail, TakeOverflow, TakeEventsClosed, CloseConn,
                    replayVars, sessionVars
<1>5. ASSUME NEW c \in Conns, Cleanup(c)
      PROVE  SessionBounds'
  <2>1. <<>> \in Seq(0..MaxLog) /\ Len(<<>>) = 0 /\ 0 \in 0..MaxLog
    BY <1>0
  <2>2. Cardinality({}) = 0
    BY FS_EmptySet
  <2> QED
    BY <1>0, <1>5, <2>1, <2>2 DEF Cleanup, Phases
<1>6. ASSUME NEW c \in Conns, ReplayRead(c)
      PROVE  SessionBounds'
  <2>1. PICK rows \in Batches(lastLogID[c]) :
          /\ batch' = [batch EXCEPT ![c] = rows]
          /\ replay' = [replay EXCEPT ![c] = IF rows = {} THEN "posted"
                                          ELSE IF Cardinality(rows) < BatchSize THEN "last"
                                          ELSE "full"]
    BY <1>6 DEF ReplayRead
  <2>2. rows \subseteq 1..MaxLog
    BY <1>0, <2>1 DEF Batches, RowsAbove, Page, LogBounds
  <2>3. Cardinality(rows) <= BatchSize
    <3>1. Cardinality(rows) < BatchSize \/ Cardinality(rows) = BatchSize
      BY <2>1 DEF Batches
    <3>2. Cardinality(rows) \in Nat
      BY <1>1, <2>2
    <3> QED
      BY <1>0, <3>1, <3>2
  <2>4. /\ batch' \in [Conns -> SUBSET (1..MaxLog)] /\ replay' \in [Conns -> Phases]
        /\ \A d \in Conns : Cardinality(batch'[d]) <= BatchSize
    BY <1>0, <2>1, <2>2, <2>3 DEF Phases
  <2> QED
    BY <1>0, <1>6, <2>4 DEF ReplayRead
<1>7. ASSUME NEW c \in Conns, ReplaySend(c)
      PROVE  SessionBounds'
  <2>1. PICK id \in batch[c] :
          /\ lastLogID' = [lastLogID EXCEPT ![c] = id]
          /\ batch' = [batch EXCEPT ![c] = @ \ {id}]
          /\ replay' = [replay EXCEPT ![c] = IF batch[c] # {id} THEN @
                                             ELSE IF @ = "full" THEN "reading"
                                             ELSE "posted"]
          /\ Enqueue(c, id)
    BY <1>7 DEF ReplaySend
  <2>2. id \in 0..MaxLog /\ batch[c] \subseteq 1..MaxLog
    BY <1>0, <2>1
  <2>3. Cardinality(batch[c] \ {id}) <= BatchSize
    <3>1. IsFiniteSet(batch[c]) /\ Cardinality(batch[c]) \in Nat
      BY <1>1, <2>2
    <3>2. Cardinality(batch[c] \ {id}) = Cardinality(batch[c]) - 1
      BY <2>1, <3>1, FS_RemoveElement
    <3>3. Cardinality(batch[c]) <= BatchSize
      BY <1>0
    <3> QED
      BY <1>0, <3>1, <3>2, <3>3
  <2>4. /\ batch' \in [Conns -> SUBSET (1..MaxLog)] /\ lastLogID' \in [Conns -> 0..MaxLog]
        /\ \A d \in Conns : Cardinality(batch'[d]) <= BatchSize
    BY <1>0, <2>1, <2>2, <2>3
  <2>5. replay' \in [Conns -> Phases]
    BY <1>0, <2>1 DEF Phases
  <2> QED
    BY <1>0, <1>7, <2>1, <2>2, <2>4, <2>5, EnqueueBounds DEF ReplaySend
<1>8. ASSUME NEW c \in Conns, TakeReplayDone(c)
      PROVE  SessionBounds'
  BY <1>0, <1>8 DEF TakeReplayDone, Phases
<1>9. ASSUME NEW c \in Conns, Flush(c)
      PROVE  SessionBounds'
  <2>1. CASE buffered[c] = <<>>
    BY <1>0, <1>9, <2>1 DEF Flush, Phases
  <2>2. CASE buffered[c] # <<>>
    <3>1. Head(buffered[c]) \in 0..MaxLog /\ Tail(buffered[c]) \in Seq(0..MaxLog)
      BY <1>0, <2>2, HeadTailProperties, Zenon
    <3>2. buffered' \in [Conns -> Seq(0..MaxLog)] /\ replay' = replay
      BY <1>0, <1>9, <2>2, <3>1 DEF Flush
    <3>3. /\ conn' \in [Conns -> {"unused", "open", "closed", "cleaned"}]
          /\ outCh' \in [Conns -> Seq(0..MaxLog)]
          /\ \A d \in Conns : Len(outCh'[d]) <= OutCap
      <4>1. CASE Covered(c, Head(buffered[c]))
        BY <1>0, <1>9, <2>2, <4>1 DEF Flush
      <4>2. CASE ~Covered(c, Head(buffered[c]))
        BY <1>0, <1>9, <2>2, <3>1, <4>2, EnqueueBounds DEF Flush
      <4> QED
        BY <4>1, <4>2
    <3> QED
      BY <1>0, <1>9, <3>2, <3>3 DEF Flush
  <2> QED
    BY <2>1, <2>2
<1>10. ASSUME NEW c \in Conns, TakeEvent(c)
       PROVE  SessionBounds'
  <2> DEFINE id == LogID(Head(queue[c]))
  <2>1. id \in 0..MaxLog
    <3>1. queue[c] \in Seq((Ingesters \union Stats) \X Nat) /\ queue[c] # <<>>
      BY <1>10, HubTypes DEF TakeEvent, H!Receive
    <3>2. /\ Head(queue[c]) \in (Ingesters \union Stats) \X Nat
          /\ Head(queue[c]) = queue[c][1] /\ 1 \in 1..Len(queue[c])
      BY <3>1
    <3>3. queue[c][1][1] \in Ingesters => queue[c][1][2] <= MaxLog
      BY <1>0, <3>2 DEF EventBounds
    <3> QED
      BY <1>0, <3>2, <3>3 DEF LogID
  <2> HIDE DEF id
  <2>2. IF ReplayReady(c)
        THEN Enqueue(c, id) /\ UNCHANGED buffered
        ELSE /\ buffered' = [buffered EXCEPT ![c] = Append(@, id)]
             /\ UNCHANGED <<conn, outCh>>
    BY <1>10 DEF TakeEvent, id
  <2>3. buffered' \in [Conns -> Seq(0..MaxLog)]
    <3>1. Append(buffered[c], id) \in Seq(0..MaxLog)
      BY <1>0, <2>1, AppendProperties, Zenon
    <3> QED
      BY <1>0, <2>2, <3>1
  <2>4. /\ conn' \in [Conns -> {"unused", "open", "closed", "cleaned"}]
        /\ outCh' \in [Conns -> Seq(0..MaxLog)]
        /\ \A d \in Conns : Len(outCh'[d]) <= OutCap
    <3>1. CASE ReplayReady(c)
      BY <1>0, <2>1, <2>2, <3>1, EnqueueBounds
    <3>2. CASE ~ReplayReady(c)
      BY <1>0, <2>2, <3>2
    <3> QED
      BY <3>1, <3>2
  <2> QED
    BY <1>0, <1>10, <2>3, <2>4 DEF TakeEvent
<1>11. ASSUME NEW c \in Conns, Write(c)
       PROVE  SessionBounds'
  <2>1. outCh[c] \in Seq(0..MaxLog) /\ outCh[c] # <<>>
    BY <1>0, <1>11 DEF Write
  <2>2. Tail(outCh[c]) \in Seq(0..MaxLog) /\ Len(Tail(outCh[c])) = Len(outCh[c]) - 1
    BY <2>1, HeadTailProperties, Zenon
  <2>3. Len(outCh[c]) \in Nat /\ Len(outCh[c]) <= OutCap
    BY <1>0, <2>1, LenProperties
  <2>4. outCh' \in [Conns -> Seq(0..MaxLog)] /\ \A d \in Conns : Len(outCh'[d]) <= OutCap
    BY <1>0, <1>11, <2>2, <2>3 DEF Write
  <2> QED
    BY <1>0, <1>11, <2>4 DEF Write, replayVars
<1>12. ASSUME NEW p \in Ingesters, Ingest(p)
       PROVE  UNCHANGED sessionVars
  BY <1>12 DEF Ingest, BeginInsert, CommitInsert, AbortInsert, PublishInserted, LoseReply
<1>13. ASSUME NEW p \in Ingesters \union Stats,
              PublishStep(p) \/ PublishLock(p) \/ PublishStat(p)
       PROVE  UNCHANGED sessionVars
  BY <1>13 DEF PublishStep, PublishLock, PublishStat
<1>14. ASSUME NEW c \in Conns, Unsubscribed(c)
       PROVE  UNCHANGED sessionVars
  BY <1>14 DEF Unsubscribed
<1>15. CASE UNCHANGED vars
  BY <1>2, <1>15 DEF vars
<1> QED
  BY <1>2, <1>3, <1>4, <1>5, <1>6, <1>7, <1>8, <1>9, <1>10, <1>11, <1>12, <1>13, <1>14, <1>15
     DEF Next, Forward, Replay

LEMMA EventBoundsKept ==
  ASSUME BoundsInv, [Next]_vars
  PROVE  EventBounds'
<1>0. EventBounds /\ LogBounds /\ MaxLog \in Nat \ {0} /\ Ingesters \intersect Stats = {}
  BY StreamAssumption DEF BoundsInv
<1>1. ASSUME UNCHANGED <<last, queue>>
      PROVE  EventBounds'
  BY <1>0, <1>1 DEF EventBounds
<1>2. ASSUME NEW p \in Ingesters, Ingest(p)
      PROVE  EventBounds'
  <2>1. CASE PublishInserted(p)
    <3>1. last' = [last EXCEPT ![p] = insert[p].id] /\ queue' = queue
      BY <2>1 DEF PublishInserted, H!PublishBegin, H!subVars
    <3>2. insert[p].id <= MaxLog
      BY <1>0 DEF LogBounds
    <3> QED
      BY <1>0, <3>1, <3>2, HubTypes DEF EventBounds
  <2>2. CASE ~PublishInserted(p)
    BY <1>1, <1>2, <2>2 DEF Ingest, BeginInsert, CommitInsert, AbortInsert, LoseReply, hubVars
  <2> QED
    BY <2>1, <2>2
<1>3. ASSUME NEW p \in Stats, PublishStat(p)
      PROVE  EventBounds'
  <2>1. last' = [last EXCEPT ![p] = last[p] + 1] /\ queue' = queue /\ p \notin Ingesters
    BY <1>0, <1>3 DEF PublishStat, H!PublishBegin, H!subVars
  <2> QED
    BY <1>0, <2>1, HubTypes DEF EventBounds
<1>4. ASSUME NEW p \in Ingesters \union Stats, NEW c \in Conns, H!Send(p, c)
      PROVE  EventBounds'
  <2>1. last' = last
    BY <1>4 DEF H!Send
  <2>2. CASE queue' = queue
    BY <1>1, <2>1, <2>2
  <2>3. CASE H!Accept(p, c)
    <3>1. queue' = [queue EXCEPT ![c] = Append(queue[c], <<p, last[p]>>)]
      BY <2>3 DEF H!Accept, H!Current
    <3>2. /\ <<p, last[p]>> \in (Ingesters \union Stats) \X Nat
          /\ queue[c] \in Seq((Ingesters \union Stats) \X Nat)
      BY HubTypes
    <3>3. /\ Len(Append(queue[c], <<p, last[p]>>)) = Len(queue[c]) + 1 /\ Len(queue[c]) \in Nat
          /\ \A k \in 1..Len(queue[c]) : Append(queue[c], <<p, last[p]>>)[k] = queue[c][k]
          /\ Append(queue[c], <<p, last[p]>>)[Len(queue[c]) + 1] = <<p, last[p]>>
      BY <3>2, AppendProperties
    <3>4. ASSUME NEW k \in 1..Len(Append(queue[c], <<p, last[p]>>)),
                 Append(queue[c], <<p, last[p]>>)[k][1] \in Ingesters
          PROVE  Append(queue[c], <<p, last[p]>>)[k][2] <= MaxLog
      <4>1. CASE k \in 1..Len(queue[c])
        BY <1>0, <3>3, <3>4, <4>1 DEF EventBounds
      <4>2. CASE k = Len(queue[c]) + 1
        <5>1. p \in Ingesters
          BY <3>3, <3>4, <4>2
        <5> QED
          BY <1>0, <3>3, <4>2, <5>1 DEF EventBounds
      <4> QED
        BY <3>3, <4>1, <4>2
    <3>5. \A d \in Conns : queue'[d] = IF d = c THEN Append(queue[c], <<p, last[p]>>) ELSE queue[d]
      BY <3>1, HubTypes
    <3> QED
      BY <1>0, <2>1, <3>4, <3>5 DEF EventBounds
  <2> QED
    BY <1>4, <2>2, <2>3 DEF H!Send, H!Drop
<1>5. ASSUME NEW p \in Ingesters \union Stats, PublishStep(p) \/ PublishLock(p)
      PROVE  EventBounds'
  <2>1. CASE \E c \in Conns : H!Send(p, c)
    BY <1>4, <2>1
  <2>2. CASE ~\E c \in Conns : H!Send(p, c)
    BY <1>1, <1>5, <2>2 DEF PublishStep, PublishLock, H!PublishStep, H!Evict, H!PublishRUnlock,
         H!PublishUnlock, H!PublishLock, H!subVars, H!MarkOverflow
  <2> QED
    BY <2>1, <2>2
<1>6. ASSUME NEW c \in Conns, TakeEvent(c)
      PROVE  EventBounds'
  <2>1. queue[c] # <<>> /\ queue' = [queue EXCEPT ![c] = Tail(queue[c])] /\ last' = last
    BY <1>6 DEF TakeEvent, H!Receive, H!pubVars
  <2>2. queue[c] \in Seq((Ingesters \union Stats) \X Nat)
    BY HubTypes
  <2>3. /\ Len(Tail(queue[c])) = Len(queue[c]) - 1 /\ Len(queue[c]) \in Nat \ {0}
        /\ \A k \in 1..Len(Tail(queue[c])) : Tail(queue[c])[k] = queue[c][k + 1]
    BY <2>1, <2>2
  <2>4. \A k \in 1..Len(Tail(queue[c])) :
          Tail(queue[c])[k][1] \in Ingesters => Tail(queue[c])[k][2] <= MaxLog
    BY <1>0, <2>3 DEF EventBounds
  <2>5. \A d \in Conns : queue'[d] = IF d = c THEN Tail(queue[c]) ELSE queue[d]
    BY <2>1, HubTypes
  <2> QED
    BY <1>0, <2>1, <2>4, <2>5 DEF EventBounds
<1>7. ASSUME NEW c \in Conns,
             Connect(c) \/ Disconnect(c) \/ OnClose(c) \/ Cleanup(c) \/ Unsubscribed(c)
               \/ Replay(c) \/ ReplayFail(c) \/ Forward(c) \/ Write(c), ~TakeEvent(c)
      PROVE  UNCHANGED <<last, queue>>
  BY <1>7 DEF Connect, Disconnect, OnClose, Cleanup, Unsubscribed, Replay, ReplayRead, ReplaySend,
       ReplayFail, Forward, TakeReplayDone, Flush, TakeOverflow, TakeEventsClosed,
       Write, H!Subscribe, H!Remove, H!Close, H!CloseChannels, H!TakeSignal, H!pubVars,
       H!subVars, hubVars
<1>8. CASE UNCHANGED vars
  BY <1>1, <1>8 DEF vars, hubVars
<1> QED
  BY <1>1, <1>2, <1>3, <1>5, <1>6, <1>7, <1>8 DEF Next

(* Every variable of the stream has its type, and Events, outCh and the    *)
(* replay's batches keep to their capacities, whoever ingests: the bounded *)
(* channels of ws.go and hub.go, and the limit of the replay's query.      *)
THEOREM StreamTypes == Spec => []TypeOK
<1>1. Init => BoundsInv
  BY InitBounds
<1>2. BoundsInv /\ [Next]_vars => BoundsInv'
  <2> SUFFICES ASSUME BoundsInv, [Next]_vars
               PROVE  BoundsInv'
    OBVIOUS
  <2>1. HP!HubInv'
    <3>1. \A p \in Ingesters : insert[p].id \in Nat
      BY StreamAssumption DEF BoundsInv, LogBounds
    <3> QED
      BY <3>1, HubKept DEF BoundsInv
  <2> QED
    BY <2>1, LogBoundsKept, SessionBoundsKept, EventBoundsKept DEF BoundsInv
<1>3. BoundsInv => TypeOK
  <2> SUFFICES ASSUME BoundsInv
               PROVE  TypeOK
    OBVIOUS
  <2>1. H!TypeOK
    BY DEF BoundsInv, HP!HubInv, HP!TypeOK, H!TypeOK, HP!Event, H!Event
  <2> QED
    BY <2>1 DEF BoundsInv, LogBounds, SessionBounds, TypeOK, Phases
<1> QED
  BY <1>1, <1>2, <1>3, PTL DEF Spec
=============================================================================
