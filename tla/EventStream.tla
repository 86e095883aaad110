---------------------------- MODULE EventStream ----------------------------
(***************************************************************************)
(* The path of one token's events to a browser: the ingest goroutines that *)
(* insert into service_events and publish, the hub (module Hub), the       *)
(* WebSocket sessions with their replay, forwarder and write loops         *)
(* (backend/internal/httpapi/ws.go) and the browser's cursor               *)
(* (frontend/context/WebSocketContext.tsx).                                *)
(*                                                                         *)
(* log_id comes from a sequence: it is drawn when the insert starts and    *)
(* the row becomes visible when the insert commits, so with two ingest     *)
(* goroutines rows may become visible out of order.  A session replays the *)
(* rows above the client's cursor while it buffers what the hub delivers.  *)
(* The client's cursor is the largest log_id it has seen; on the next      *)
(* connection it asks for the rows above it, and for nothing else.         *)
(***************************************************************************)
EXTENDS Naturals, Sequences, FiniteSets

CONSTANTS
  Conns,      (* connections, 1..n: a session and its only subscription       *)
  Ingesters,  (* goroutines that ingest: the JetStream consumer, POST handler *)
  Stats,      (* goroutines that publish token_stat: the broadcaster          *)
  Buffer,     (* capacity of a subscription's Events (64 in the code)         *)
  OutCap,     (* capacity of a session's outCh (256)                          *)
  BatchSize,  (* rows per replay query (512)                                  *)
  MaxLog,     (* bound: largest log_id drawn                                  *)
  MaxStat,    (* bound: token_stat messages published                         *)
  Token,      (* the topic "token:<mint>"                                     *)
  None

ASSUME StreamAssumption ==
  /\ Conns = 1..Cardinality(Conns)
  /\ Buffer \in Nat \ {0} /\ OutCap \in Nat \ {0} /\ BatchSize \in Nat \ {0}
  /\ MaxLog \in Nat \ {0} /\ MaxStat \in Nat
  /\ Ingesters \intersect Stats = {}
  /\ None \notin Conns \union {Token} \union Ingesters \union Stats

VARIABLES  (* the hub's: see module Hub *)
  subscribers, writer, created, topicOf, queue, eventsClosed, signal,
  overflowClosed, closed, overflowed, pc, topic, pending, dropped, last,
  closing, panicked, accepted, missed

VARIABLES
  log,         (* log_ids of the token's visible rows of service_events       *)
  nextLogID,   (* the sequence behind service_events.log_id                   *)
  insert,      (* [stage, id] of the event each ingester is handling          *)
  unpublished, (* history: rows whose insert committed but returned an error  *)
  conn,        (* "unused", "open", "closed" or "cleaned" (defers have run)   *)
  forwarder,   (* the goroutine that reads the subscription                   *)
  replay,      (* the replay goroutine, and the flush that follows it         *)
  batch,       (* rows the replay goroutine has read and not yet enqueued     *)
  lastLogID,   (* replayTopic's lastLogID                                     *)
  replayMax,   (* the forwarder's replayMax                                   *)
  buffered,    (* the forwarder's buffered                                    *)
  outCh,       (* log_ids in outCh; 0 for a token_stat                        *)
  current,     (* the client's connection, or None                            *)
  received,    (* the client: log_ids of the events it has seen               *)
  cursor       (* the client: topicCursorRef, the largest of them             *)

hubVars == <<subscribers, writer, created, topicOf, queue, eventsClosed, signal,
             overflowClosed, closed, overflowed, pc, topic, pending, dropped,
             last, closing, panicked, accepted, missed>>
logVars == <<log, nextLogID, insert, unpublished>>
replayVars == <<replay, batch, lastLogID, replayMax, buffered>>
sessionVars == <<conn, forwarder, replayVars, outCh>>
clientVars == <<current, received, cursor>>
vars == <<hubVars, logVars, sessionVars, clientVars>>

H == INSTANCE Hub WITH Subs <- Conns, Topics <- {Token},
                       Publishers <- Ingesters \union Stats,
                       Callers <- Conns, MaxPublish <- MaxLog

Idle == [stage |-> "idle", id |-> 0]
LogID(e) == IF e[1] \in Ingesters THEN e[2] ELSE 0

(* A client that has loaded the page and seen event 1 is offline.          *)
Init ==
  /\ H!Init
  /\ log = {1} /\ nextLogID = 2
  /\ insert = [p \in Ingesters |-> Idle]
  /\ unpublished = {}
  /\ conn = [c \in Conns |-> "unused"]
  /\ forwarder = [c \in Conns |-> "none"]
  /\ replay = [c \in Conns |-> "none"]
  /\ batch = [c \in Conns |-> {}]
  /\ lastLogID = [c \in Conns |-> 0]
  /\ replayMax = [c \in Conns |-> 0]
  /\ buffered = [c \in Conns |-> <<>>]
  /\ outCh = [c \in Conns |-> <<>>]
  /\ current = None /\ received = {1} /\ cursor = 1

-----------------------------------------------------------------------------
(* InsertServiceEvent starts: the sequence hands out the log_id.           *)
BeginInsert(p) ==
  /\ insert[p].stage = "idle" /\ pc[p] = "idle"
  /\ nextLogID <= MaxLog
  /\ insert' = [insert EXCEPT ![p] = [stage |-> "inserting", id |-> nextLogID]]
  /\ nextLogID' = nextLogID + 1
  /\ UNCHANGED <<hubVars, log, unpublished, sessionVars, clientVars>>

(* The insert commits: the row is visible to every query.                  *)
CommitInsert(p) ==
  /\ insert[p].stage = "inserting"
  /\ log' = log \union {insert[p].id}
  /\ insert' = [insert EXCEPT ![p].stage = "inserted"]
  /\ UNCHANGED <<hubVars, nextLogID, unpublished, sessionVars, clientVars>>

(* The insert fails: the message is redelivered and the insert tried again *)
(* with another log_id, the sequence does not go back.                     *)
AbortInsert(p) ==
  /\ insert[p].stage = "inserting"
  /\ insert' = [insert EXCEPT ![p] = Idle]
  /\ UNCHANGED <<hubVars, log, nextLogID, unpublished, sessionVars, clientVars>>

(* The event was inserted: HandleDecodedEvent publishes it.                *)
PublishInserted(p) ==
  /\ insert[p].stage = "inserted"
  /\ H!PublishBegin(p, Token, insert[p].id)
  /\ insert' = [insert EXCEPT ![p] = Idle]
  /\ UNCHANGED <<log, nextLogID, unpublished, sessionVars, clientVars>>

(* The insert has committed but its reply is lost: HandleDecodedEvent      *)
(* returns the error without publishing.  The message is redelivered, the  *)
(* insert finds the row (inserted = FALSE) and again nothing is published. *)
LoseReply(p) ==
  /\ insert[p].stage = "inserted"
  /\ unpublished' = unpublished \union {insert[p].id}
  /\ insert' = [insert EXCEPT ![p] = Idle]
  /\ UNCHANGED <<hubVars, log, nextLogID, sessionVars, clientVars>>

(* The broadcaster publishes a token_stat, which carries no log_id.        *)
PublishStat(p) ==
  /\ last[p] < MaxStat
  /\ H!PublishBegin(p, Token, last[p] + 1)
  /\ UNCHANGED <<logVars, sessionVars, clientVars>>

PublishStep(p) ==
  /\ H!PublishStep(p)
  /\ UNCHANGED <<logVars, sessionVars, clientVars>>

PublishLock(p) ==
  /\ H!PublishLock(p)
  /\ UNCHANGED <<logVars, sessionVars, clientVars>>

-----------------------------------------------------------------------------
(* tokenStatSnapshot: the metrics give a token_stat, or there are none yet, *)
(* or a query fails.                                                       *)
TokenStatSnapshots == {<<>>, <<0>>}

(* The client dials and sends subscribe with since_log_id; the read loop   *)
(* subscribes, offers the current token_stat to outCh if there is one, and *)
(* starts the forwarder, with a replay if the client has a cursor.         *)
(* Mutant, for NoHole after a reconnect: an off-by-one in the replay's guard. *)
NeedsReplayOffByOne(since) == since > 1

NeedsReplay(since) == since > 0

Connect(c) ==
  /\ current = None
  /\ conn[c] = "unused" /\ \A b \in Conns : b < c => conn[b] # "unused"
  /\ H!Subscribe(c, Token)
  /\ current' = c
  /\ conn' = [conn EXCEPT ![c] = "open"]
  /\ \E stat \in TokenStatSnapshots : outCh' = [outCh EXCEPT ![c] = stat]
  /\ forwarder' = [forwarder EXCEPT ![c] = "running"]
  /\ replay' = [replay EXCEPT ![c] = IF NeedsReplay(cursor) THEN "reading" ELSE "done"]
  /\ lastLogID' = [lastLogID EXCEPT ![c] = cursor]
  /\ replayMax' = [replayMax EXCEPT ![c] = cursor]
  /\ UNCHANGED <<logVars, batch, buffered, received, cursor>>

(* closeConn, or the network: the session's context is cancelled and what  *)
(* outCh still holds is never written.                                     *)
CloseConn(c) == conn' = [conn EXCEPT ![c] = "closed"]

Disconnect(c) ==
  /\ conn[c] = "open"
  /\ CloseConn(c)
  /\ UNCHANGED <<hubVars, logVars, forwarder, replayVars, outCh, clientVars>>

(* The browser's onclose.                                                  *)
OnClose(c) ==
  /\ current = c /\ conn[c] # "open"
  /\ current' = None
  /\ UNCHANGED <<hubVars, logVars, sessionVars, received, cursor>>

(* enqueueEnvelope, and what its callers do when outCh is full.            *)
Enqueue(c, id) ==
  \/ /\ Len(outCh[c]) < OutCap
     /\ outCh' = [outCh EXCEPT ![c] = Append(@, id)]
     /\ UNCHANGED conn
  \/ /\ Len(outCh[c]) >= OutCap
     /\ CloseConn(c)
     /\ UNCHANGED outCh

(* The write loop writes to the client, whose onmessage moves the cursor.  *)
Write(c) ==
  /\ conn[c] = "open" /\ outCh[c] # <<>>
  /\ LET id == Head(outCh[c]) IN
       /\ received' = IF id = 0 THEN received ELSE received \union {id}
       /\ cursor' = IF id > cursor THEN id ELSE cursor
  /\ outCh' = [outCh EXCEPT ![c] = Tail(@)]
  /\ UNCHANGED <<hubVars, logVars, conn, forwarder, replayVars, current>>

-----------------------------------------------------------------------------
(* ListServiceEventsByMintAfterLogID: the first BatchSize rows above id.   *)
RowsAbove(id) == {i \in log : i > id}
Page(id, to) == {i \in RowsAbove(id) : i <= to}

(* Mutant, for TypeOK: the query has no limit. *)
BatchesUnlimited(id) == {RowsAbove(id)}

Batches(id) ==
  IF Cardinality(RowsAbove(id)) < BatchSize THEN {RowsAbove(id)}
  ELSE {rows \in {Page(id, to) : to \in RowsAbove(id)} : Cardinality(rows) = BatchSize}

(* replayTopic's next query; a short batch is the last one.                *)
ReplayRead(c) ==
  /\ conn[c] = "open" /\ replay[c] = "reading"
  /\ \E rows \in Batches(lastLogID[c]) :
       /\ batch' = [batch EXCEPT ![c] = rows]
       /\ replay' = [replay EXCEPT ![c] = IF rows = {} THEN "posted"
                                          ELSE IF Cardinality(rows) < BatchSize THEN "last"
                                          ELSE "full"]
  /\ UNCHANGED <<hubVars, logVars, conn, forwarder, lastLogID, replayMax,
                 buffered, outCh, clientVars>>

(* The query fails: closeConn("replay_failed").                            *)
ReplayFail(c) ==
  /\ conn[c] = "open" /\ replay[c] = "reading"
  /\ CloseConn(c)
  /\ UNCHANGED <<hubVars, logVars, forwarder, replayVars, outCh, clientVars>>

(* One row goes to outCh; a full outCh is closeConn("replay_overflow").    *)
(* After the last row the result is posted to replayDone.                  *)
ReplaySend(c) ==
  /\ conn[c] = "open" /\ replay[c] \in {"last", "full"}
  /\ \E id \in batch[c] :
       /\ \A i \in batch[c] : id <= i
       /\ lastLogID' = [lastLogID EXCEPT ![c] = id]
       /\ batch' = [batch EXCEPT ![c] = @ \ {id}]
       /\ replay' = [replay EXCEPT ![c] = IF batch[c] # {id} THEN @
                                          ELSE IF @ = "full" THEN "reading"
                                          ELSE "posted"]
       /\ Enqueue(c, id)
  /\ UNCHANGED <<hubVars, logVars, forwarder, replayMax, buffered, clientVars>>

-----------------------------------------------------------------------------
(* The forwarder's select: any ready case may be taken.                    *)
Selecting(c) ==
  conn[c] = "open" /\ forwarder[c] = "running" /\ replay[c] # "flushing"

TakeReplayDone(c) ==
  /\ Selecting(c) /\ replay[c] = "posted"
  /\ replayMax' = [replayMax EXCEPT ![c] = lastLogID[c]]
  /\ replay' = [replay EXCEPT ![c] = "flushing"]
  /\ UNCHANGED <<hubVars, logVars, conn, forwarder, batch, lastLogID, buffered,
                 outCh, clientVars>>

(* Mutant, for NoHole and Delivered: one event too many is skipped. *)
CoveredOffByOne(c, id) == id <= replayMax[c] + 1

(* The loop over buffered: what the replay has covered is skipped.         *)
Covered(c, id) == id <= replayMax[c]

Flush(c) ==
  /\ conn[c] = "open" /\ replay[c] = "flushing"
  /\ IF buffered[c] = <<>>
     THEN replay' = [replay EXCEPT ![c] = "done"] /\ UNCHANGED <<buffered, conn, outCh>>
     ELSE /\ buffered' = [buffered EXCEPT ![c] = Tail(@)]
          /\ IF Covered(c, Head(buffered[c]))
             THEN UNCHANGED <<conn, outCh>>
             ELSE Enqueue(c, Head(buffered[c]))
          /\ UNCHANGED replay
  /\ UNCHANGED <<hubVars, logVars, forwarder, batch, lastLogID, replayMax,
                 clientVars>>

(* Mutant, for LiveInOrder: events go live before the buffer is flushed. *)
ReplayReadyEarly(c) == replay[c] \in {"posted", "done"}

(* An event is buffered until the replay is done, then forwarded as it is. *)
ReplayReady(c) == replay[c] = "done"

TakeEvent(c) ==
  /\ Selecting(c)
  /\ H!Receive(c)
  /\ LET id == LogID(Head(queue[c])) IN
       IF ReplayReady(c)
       THEN Enqueue(c, id) /\ UNCHANGED buffered
       ELSE /\ buffered' = [buffered EXCEPT ![c] = Append(@, id)]
            /\ UNCHANGED <<conn, outCh>>
  /\ UNCHANGED <<logVars, forwarder, replay, batch, lastLogID, replayMax,
                 clientVars>>

(* Overflow delivers its token: closeConn("subscriber_overflow").          *)
TakeOverflow(c) ==
  /\ Selecting(c)
  /\ H!TakeSignal(c)
  /\ CloseConn(c)
  /\ forwarder' = [forwarder EXCEPT ![c] = "returned"]
  /\ UNCHANGED <<logVars, replayVars, outCh, clientVars>>

(* Events is closed and empty: the forwarder returns, and does no more.    *)
TakeEventsClosed(c) ==
  /\ Selecting(c)
  /\ eventsClosed[c] /\ queue[c] = <<>>
  /\ forwarder' = [forwarder EXCEPT ![c] = "returned"]
  /\ UNCHANGED <<hubVars, logVars, conn, replayVars, outCh, clientVars>>

(* ServeWS returns: its deferred function unsubscribes; the forwarder and  *)
(* the replay see ctx.Done, and what the session holds is garbage.         *)
Cleanup(c) ==
  /\ conn[c] = "closed"
  /\ H!Remove(c, c)
  /\ conn' = [conn EXCEPT ![c] = "cleaned"]
  /\ forwarder' = [forwarder EXCEPT ![c] = "none"]
  /\ replay' = [replay EXCEPT ![c] = "none"]
  /\ lastLogID' = [lastLogID EXCEPT ![c] = 0]
  /\ replayMax' = [replayMax EXCEPT ![c] = 0]
  /\ batch' = [batch EXCEPT ![c] = {}]
  /\ buffered' = [buffered EXCEPT ![c] = <<>>]
  /\ outCh' = [outCh EXCEPT ![c] = <<>>]
  /\ UNCHANGED <<logVars, clientVars>>

Unsubscribed(c) ==
  /\ H!Close(c)
  /\ UNCHANGED <<logVars, sessionVars, clientVars>>

-----------------------------------------------------------------------------
Ingest(p) ==
  \/ BeginInsert(p) \/ CommitInsert(p) \/ AbortInsert(p)
  \/ PublishInserted(p) \/ LoseReply(p)

Forward(c) ==
  \/ TakeReplayDone(c) \/ Flush(c) \/ TakeEvent(c) \/ TakeOverflow(c)
  \/ TakeEventsClosed(c)

Replay(c) == ReplayRead(c) \/ ReplaySend(c)

Next ==
  \/ \E p \in Ingesters : Ingest(p)
  \/ \E p \in Stats : PublishStat(p)
  \/ \E p \in Ingesters \union Stats : PublishStep(p) \/ PublishLock(p)
  \/ \E c \in Conns :
       \/ Connect(c) \/ Disconnect(c) \/ OnClose(c) \/ Cleanup(c) \/ Unsubscribed(c)
       \/ Replay(c) \/ ReplayFail(c) \/ Forward(c) \/ Write(c)

Spec == Init /\ [][Next]_vars

(* Goroutines that can run do; the write lock is not starved (see Hub).    *)
(* Fair are Publish and the replay, forwarder and write loops; the network, *)
(* the browser and the arrival of events are not.                          *)
Fairness ==
  /\ \A p \in Ingesters : WF_vars(PublishInserted(p))
  /\ \A p \in Ingesters \union Stats :
       WF_vars(PublishStep(p)) /\ SF_vars(PublishLock(p))
  /\ \A c \in Conns :
       WF_vars(Replay(c)) /\ WF_vars(Forward(c)) /\ WF_vars(Write(c))

FairSpec == Spec /\ Fairness

-----------------------------------------------------------------------------
(* Every variable has its type, and no channel exceeds its capacity.       *)
TypeOK ==
  /\ H!TypeOK
  /\ log \in SUBSET (1..MaxLog) /\ nextLogID \in 1..(MaxLog + 1)
  /\ insert \in [Ingesters -> [stage : {"idle", "inserting", "inserted"}, id : 0..MaxLog]]
  /\ unpublished \in SUBSET log
  /\ conn \in [Conns -> {"unused", "open", "closed", "cleaned"}]
  /\ forwarder \in [Conns -> {"none", "running", "returned"}]
  /\ replay \in [Conns -> {"none", "reading", "last", "full", "posted", "flushing", "done"}]
  /\ \A c \in Conns :
       /\ Cardinality(batch[c]) <= BatchSize /\ Len(outCh[c]) <= OutCap
       /\ lastLogID[c] \in 0..MaxLog /\ replayMax[c] \in 0..MaxLog
       /\ buffered[c] \in Seq(0..MaxLog)
  /\ current \in Conns \union {None}
  /\ received \in SUBSET (1..MaxLog) /\ cursor \in 0..MaxLog

(* The client's cursor never passes a published row that the client has   *)
(* not seen: the next replay starts at the cursor, so that such a row is   *)
(* never sent any more.                                                    *)
NoHole == \A i \in log \ unpublished : i <= cursor => i \in received

(* The same of every row, whether HandleDecodedEvent came to publish it or *)
(* its insert returned an error after the commit.                          *)
NoHoleAtAll == \A i \in log : i <= cursor => i \in received

(* A connection delivers the events in log_id order and each of them once, *)
(* but for the rows a replay has covered, which the hub may deliver again. *)
Delivers(c) == conn'[c] = "open" /\ outCh[c] # <<>> /\ outCh'[c] = Tail(outCh[c])

LiveInOrder ==
  [][\A c \in Conns : Delivers(c) /\ Head(outCh[c]) # 0
       => Head(outCh[c]) > cursor \/ Head(outCh[c]) <= replayMax[c]]_vars

(* A forwarder leaves an open connection only after it closed it: a client *)
(* that stops receiving a topic gets to know by the closing of the socket. *)
NoDeadTopic ==
  \A c \in Conns : conn[c] = "open" => forwarder[c] = "running"

(* Every row that is visible while a connection is open reaches the client *)
(* over the replay, the buffer or the live path, unless the connection     *)
(* ends or its subscription is evicted.                                    *)
Delivered ==
  \A c \in Conns, i \in 1..MaxLog :
    conn[c] = "open" /\ i \in log \ unpublished
      ~> i \in received \union unpublished \/ conn[c] # "open" \/ overflowed[c]
=============================================================================
