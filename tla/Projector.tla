----------------------------- MODULE Projector ------------------------------
(***************************************************************************)
(* The ingest of a token's events into service_events and the projector    *)
(* that replays them into the read model (backend/internal/projector/      *)
(* runner.go, batch_writer.go; backend/internal/store/service_event.go).   *)
(*                                                                         *)
(* JetStream delivers the messages in chain order and again when they are  *)
(* not acknowledged; a message whose handling failed comes back after the  *)
(* ones behind it.  log_id is drawn from a sequence when the insert starts *)
(* and the row becomes visible when it commits.  The projector reads the   *)
(* rows above its checkpoint in batches and commits a batch and the new    *)
(* checkpoint in one transaction.  Any error of the projector ends the     *)
(* process (log.Fatalf in cmd/api/main.go), and the ingest with it.  An    *)
(* insert of a dead process is taken to be over when the next one starts.  *)
(***************************************************************************)
EXTENDS ReadModelStore, FiniteSets

CONSTANTS
  Ingesters,  (* goroutines that ingest: the JetStream consumer, POST handler *)
  BatchSize,  (* rows per batch (defaultReplayBatchSize)                      *)
  MaxLog,     (* bound: largest log_id drawn                                  *)
  MaxCrash    (* bound: crashes of the process                                *)

ASSUME ProjectorAssumption ==
  BatchSize \in Nat \ {0} /\ MaxLog \in Nat /\ MaxCrash \in Nat

VARIABLES
  stream,     (* messages to deliver, in the order of delivery                *)
  nextLogID,  (* the sequence behind service_events.log_id                    *)
  row,        (* service_events: the event of each log_id, Null if not there  *)
  insert,     (* [stage, event, id] of the message each ingester handles      *)
  runner,     (* the projector: "down", "polling" or "projecting"             *)
  lastLogID,  (* Run's lastLogID                                              *)
  entries,    (* log_ids of the batch that is being projected                 *)
  checkpoint, (* projection_offsets.last_log_id                               *)
  view,       (* the committed read model                                     *)
  crashes     (* number of crashes so far                                     *)

ingestVars == <<stream, nextLogID, row, insert>>
runnerVars == <<runner, lastLogID, entries>>
dbVars == <<checkpoint, view>>
vars == <<ingestVars, runnerVars, dbVars, crashes>>

Idle == [stage |-> "idle", event |-> Null, id |-> 0]
LogIDs == {i \in 1..MaxLog : row[i] # Null}
Logged(e) == \E i \in LogIDs : row[i] = e

Init ==
  /\ stream = [e \in Events |-> e]
  /\ nextLogID = 1
  /\ row = [i \in 1..MaxLog |-> Null]
  /\ insert = [p \in Ingesters |-> Idle]
  /\ runner = "down" /\ lastLogID = 0 /\ entries = {}
  /\ checkpoint = 0 /\ view = EmptyView
  /\ crashes = 0

-----------------------------------------------------------------------------
(* A message is delivered and its insert draws a log_id.                   *)
Deliver(p) ==
  /\ runner # "down"
  /\ insert[p] = Idle /\ stream # <<>> /\ nextLogID <= MaxLog
  /\ insert' = [insert EXCEPT ![p] = [stage |-> "inserting", event |-> Head(stream),
                                      id |-> nextLogID]]
  /\ stream' = Tail(stream)
  /\ nextLogID' = nextLogID + 1
  /\ UNCHANGED <<row, runnerVars, dbVars, crashes>>

(* The insert commits; on conflict (event_id) it does nothing.             *)
CommitInsert(p) ==
  /\ insert[p].stage = "inserting"
  /\ row' = IF Logged(insert[p].event) THEN row
            ELSE [row EXCEPT ![insert[p].id] = insert[p].event]
  /\ insert' = [insert EXCEPT ![p].stage = "inserted"]
  /\ UNCHANGED <<stream, nextLogID, runnerVars, dbVars, crashes>>

(* The message is acknowledged.                                            *)
Ack(p) ==
  /\ insert[p].stage = "inserted"
  /\ insert' = [insert EXCEPT ![p] = Idle]
  /\ UNCHANGED <<stream, nextLogID, row, runnerVars, dbVars, crashes>>

(* The insert, or its reply, fails: Nak, the message is delivered again.   *)
Nak(p) ==
  /\ insert[p].stage # "idle"
  /\ stream' = Append(stream, insert[p].event)
  /\ insert' = [insert EXCEPT ![p] = Idle]
  /\ UNCHANGED <<nextLogID, row, runnerVars, dbVars, crashes>>

-----------------------------------------------------------------------------
(* Run loads the checkpoint.                                               *)
Start ==
  /\ runner = "down"
  /\ runner' = "polling"
  /\ lastLogID' = checkpoint
  /\ UNCHANGED <<ingestVars, entries, dbVars, crashes>>

(* ListServiceEventsAfterLogID: the rows WHERE log_id > id ORDER BY log_id *)
(* LIMIT BatchSize, which are the rows up to some last one.                *)
RowsAbove(id) == {i \in LogIDs : i > id}
Page(id, last) == {i \in RowsAbove(id) : i <= last}
Limit(id) == Least(Cardinality(RowsAbove(id)), BatchSize)

(* Mutant, for TypeOK: the query has no limit. *)
BatchesUnlimited(id) == {Page(id, last) : last \in RowsAbove(id)}

Batches(id) ==
  {Page(id, last) : last \in {i \in RowsAbove(id) : Cardinality(Page(id, i)) = Limit(id)}}

(* ReplayBatch reads its entries; with none, Run polls again later.        *)
ReadBatch ==
  /\ runner = "polling"
  /\ entries' \in Batches(lastLogID)
  /\ runner' = "projecting"
  /\ UNCHANGED <<ingestVars, lastLogID, dbVars, crashes>>

(* The events of the log_ids in ids, in their order.                       *)
InLogOrder(ids) ==
  LET Nth(k) == CHOOSE i \in ids : Cardinality({j \in ids : j <= i}) = k
  IN  [k \in 1..Cardinality(ids) |-> row[Nth(k)]]

(* writeBatch.Flush: the queued state operations, which write the token    *)
(* and its markets; after[n] is the view after those of the rows up to n.  *)
(* (StateReversed is the mutant for ImplementsReadModel: the queue is      *)
(* flushed last in, first out.)                                            *)
StateReversed(ids) ==
  LET after[n \in 1..(MaxLog + 1)] ==
        IF n > MaxLog THEN view
        ELSE IF n \in ids THEN StateOps(after[n + 1], row[n]) ELSE after[n + 1]
  IN  [n \in 0..MaxLog |-> after[1]]

StateAfter(ids) ==
  LET after[n \in 0..MaxLog] ==
        IF n = 0 THEN view
        ELSE IF n \in ids THEN StateOps(after[n - 1], row[n]) ELSE after[n - 1]
  IN  after

(* Then the trades are inserted, then the activities.                      *)
Flush(ids) ==
  LET state == StateAfter(ids)[MaxLog]
      events == {row[i] : i \in ids}
  IN  [token |-> state.token, market |-> state.market,
       trades |-> view.trades \union {e \in events : IsTrade(e)},
       activities |-> view.activities \union events]

(* Mutant, for NoSkippedRow: the checkpoint is LoadLatestServiceEventLogID. *)
NewCheckpointLatest == Max(LogIDs)

NewCheckpoint == Max(entries)

(* The transaction commits: the batch and the checkpoint together.         *)
CommitBatch ==
  /\ runner = "projecting"
  /\ view' = Flush(entries)
  /\ checkpoint' = NewCheckpoint
  /\ lastLogID' = NewCheckpoint
  /\ entries' = {}
  /\ runner' = "polling"
  /\ UNCHANGED <<ingestVars, crashes>>

(* The process ends: a transaction that has not committed is rolled back,  *)
(* a message that was not acknowledged is delivered again.                 *)
Crash ==
  /\ runner # "down" /\ crashes < MaxCrash
  /\ crashes' = crashes + 1
  /\ runner' = "down" /\ lastLogID' = 0 /\ entries' = {}
  /\ \E order \in SetToSeqs({p \in Ingesters : insert[p] # Idle}) :
       stream' = stream \o [k \in 1..Len(order) |-> insert[order[k]].event]
  /\ insert' = [p \in Ingesters |-> Idle]
  /\ UNCHANGED <<nextLogID, row, dbVars>>

-----------------------------------------------------------------------------
Next ==
  \/ \E p \in Ingesters : Deliver(p) \/ CommitInsert(p) \/ Ack(p) \/ Nak(p)
  \/ Start \/ ReadBatch \/ CommitBatch \/ Crash

Spec == Init /\ [][Next]_vars

(* The restart policy starts the process again, and a projector that runs  *)
(* keeps running; nothing is assumed of the stream and the ingest.         *)
FairSpec == Spec /\ WF_vars(Start) /\ WF_vars(ReadBatch) /\ WF_vars(CommitBatch)

-----------------------------------------------------------------------------
Values == Events \union {Null}
Tokens ==
  [createEvent : Values, firstSeen : Events, stage : {"bonding_curve", "pool"},
   active : Markets, migratedAt : Values]
MarketRows == [startedAt : Events, endedAt : Values]

ASSUME NullAssumption ==
  Null \notin Events /\ Null \notin Markets /\ Null \notin Tokens /\ Null \notin MarketRows

(* Every variable has its type, and a batch has at most BatchSize rows.    *)
TypeOK ==
  /\ stream \in Seq(Events)
  /\ nextLogID \in 1..(MaxLog + 1)
  /\ row \in [1..MaxLog -> Values]
  /\ \A p \in Ingesters :
       insert[p] \in [stage : {"idle", "inserting", "inserted"},
                      event : Values, id : 0..MaxLog]
  /\ runner \in {"down", "polling", "projecting"}
  /\ lastLogID \in 0..MaxLog /\ checkpoint \in 0..MaxLog
  /\ entries \subseteq 1..MaxLog /\ Cardinality(entries) <= BatchSize
  /\ view.token = Null \/ view.token \in Tokens
  /\ view.trades \subseteq view.activities /\ view.activities \subseteq Events
  /\ crashes \in 0..MaxCrash

(* The checkpoint never passes a row that has not been projected: such a   *)
(* row would be lost to the read model, since no replay looks below it.    *)
NoSkippedRow ==
  \A i \in LogIDs : i <= checkpoint => row[i] \in view.activities

(* The token's row is what the projected part of the log says of the       *)
(* token: its stage and market are those of the last row that sets them,   *)
(* its first sighting the earliest, its creation and migration are known   *)
(* as soon as they are projected.                                          *)
Projected == {i \in LogIDs : i <= checkpoint}
Setting == {i \in Projected : Kind(row[i]) \in {"create", "migrate", "createPool"}}
TimesOf(kind) == {row[i] : i \in {j \in Projected : Kind(row[j]) = kind}}

TokenMatchesLog ==
  IF Setting = {} THEN view.token = Null ELSE
    LET latest == CHOOSE i \in Setting : \A j \in Setting : j <= i
        onCurve == Kind(row[latest]) = "create"
    IN  /\ view.token.stage = IF onCurve THEN "bonding_curve" ELSE "pool"
        /\ view.token.active = IF onCurve THEN "curve" ELSE "pool"
        /\ \A i \in Setting : view.token.firstSeen <= row[i]
        /\ \E i \in Setting : view.token.firstSeen = row[i]
        /\ IF TimesOf("create") = {} THEN view.token.createEvent = Null
           ELSE view.token.createEvent \in TimesOf("create")
        /\ IF TimesOf("migrate") = {} THEN view.token.migratedAt = Null
           ELSE view.token.migratedAt \in TimesOf("migrate")

(* A token whose migration is logged after its creation ends up in the     *)
(* pool with its curve closed, however its rows fall into batches and      *)
(* whatever crashes and redeliveries come between.  (When a creation that  *)
(* failed is redelivered after the migration the code shows the token on   *)
(* its curve again, and the curve open: upsertTokenSQL takes the last      *)
(* stage it is given, and the update that closes the curve found no row.)  *)
MigrationSticks ==
  \A i, j \in Projected :
    i < j /\ Kind(row[i]) = "create" /\ Kind(row[j]) = "migrate"
      => /\ view.token.stage = "pool" /\ view.token.active = "pool"
         /\ view.market["curve"].endedAt = row[j]
         /\ view.market["pool"] # Null

(* The projector implements ReadModel: the read model is the projection,   *)
(* row by row in log order, of a prefix of an append-only log, and catches *)
(* up with it.                                                             *)
RM == INSTANCE ReadModel WITH
        rows <- InLogOrder(LogIDs),
        applied <- Cardinality(Projected)

ImplementsReadModel == RM!Spec
=============================================================================
