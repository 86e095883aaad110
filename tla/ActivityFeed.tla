---------------------------- MODULE ActivityFeed ----------------------------
(***************************************************************************)
(* The activity feed of a token page (frontend/app/token/[address]/page.tsx) *)
(* and the paged query behind it (backend/internal/httpapi/handler.go,     *)
(* query/token.go, store/read_model.go).                                   *)
(*                                                                         *)
(* A token's events are 1..logged, in log_id order, which is here also the *)
(* chain order (one ingester, no redelivery); the first `projected` of     *)
(* them are rows of token_activity_events.  The keyset (time, slot,        *)
(* insert_seq) is a row's number.  The socket is what EventStream shows:   *)
(* an open subscription delivers in order, a new one first replays the     *)
(* rows above the client's cursor, if it has one.                          *)
(*                                                                         *)
(* The page buffers what the socket delivers until its first page has      *)
(* come, then puts each event at the top of the list, or, when the reader  *)
(* has scrolled away, into a list of pending activities.                   *)
(***************************************************************************)
EXTENDS Naturals, Sequences, SequencesExt

CONSTANTS
  PageSize,  (* ACTIVITY_PAGE_SIZE, the limit of a page        *)
  Before,    (* events logged before the page is opened        *)
  MaxLog,    (* bound: events logged                           *)
  MaxDrop    (* bound: connections lost                        *)

ASSUME FeedAssumption ==
  PageSize \in Nat \ {0} /\ {Before, MaxLog, MaxDrop} \subseteq Nat

VARIABLES
  logged,       (* largest log_id of the token in service_events             *)
  projected,    (* the projector's checkpoint                                *)
  connected,    (* the topic is subscribed                                   *)
  wire,         (* log_ids on their way to the client                        *)
  drops,        (* connections lost so far                                   *)
  cursor,       (* topicCursorRef of the topic                               *)
  activities,   (* the list shown, top first                                 *)
  nextCursor,   (* activityNextCursor; 0 for null                            *)
  hasMore,      (* hasMoreActivities                                         *)
  bootstrap,    (* activityBootstrapPendingRef                               *)
  buffered,     (* bufferedBootstrapEnvelopesRef                             *)
  pending,      (* pendingRealtimeActivitiesRef                              *)
  needsRefresh, (* needsActivityHeadRefreshRef                               *)
  refreshDue,   (* scheduleRefresh has a refresh to run                      *)
  atTop,        (* activityIsAtTopRef                                        *)
  request,      (* the requests under way: one for the head, one for more    *)
  received,     (* history: log_ids the client has received                  *)
  unreplayed,   (* history: rows logged before a subscription without cursor *)
  loaded,       (* history: newest row of the page that opened the list      *)
  bootFailed,   (* history: the first page was answered with an error        *)
  staleHead     (* history: a head page was older than the list it joined    *)

serverVars == <<logged, projected>>
socketVars == <<connected, wire, drops, cursor, received, unreplayed>>
listVars == <<activities, nextCursor, hasMore, pending, loaded>>
refreshVars == <<needsRefresh, refreshDue>>
feedVars == <<serverVars, socketVars, listVars, refreshVars, bootstrap, buffered,
          atTop, request, bootFailed, staleHead>>

NoRequest == [mode |-> "none", before |-> 0, stage |-> "idle", snapshot |-> 0,
              rows |-> <<>>, more |-> FALSE, next |-> 0]
Ask(mode, before) == [NoRequest EXCEPT !.mode = mode, !.before = before, !.stage = "sent"]

(* The effects of a fresh page have run: subscribe, and fetch("reset").    *)
FeedInit ==
  /\ logged = Before /\ projected \in 0..Before
  /\ connected = FALSE /\ wire = <<>> /\ drops = 0 /\ cursor = 0
  /\ activities = <<>> /\ nextCursor = 0 /\ hasMore = FALSE
  /\ bootstrap = TRUE /\ buffered = <<>> /\ pending = <<>> /\ loaded = 0
  /\ needsRefresh = FALSE /\ refreshDue = FALSE /\ atTop = TRUE
  /\ request = [head |-> Ask("reset", 0), more |-> NoRequest]
  /\ received = {} /\ unreplayed = {} /\ bootFailed = FALSE /\ staleHead = FALSE

-----------------------------------------------------------------------------
(* An event is logged and published.                                       *)
Log ==
  /\ logged < MaxLog
  /\ logged' = logged + 1
  /\ wire' = IF connected THEN Append(wire, logged + 1) ELSE wire
  /\ UNCHANGED <<projected, connected, drops, cursor, received, unreplayed, listVars,
                 refreshVars, bootstrap, buffered, atTop, request, bootFailed, staleHead>>

Project ==
  /\ \E p \in (projected + 1)..logged : projected' = p
  /\ UNCHANGED <<logged, socketVars, listVars, refreshVars, bootstrap, buffered,
                 atTop, request, bootFailed, staleHead>>

(* onopen sends the subscription, with since_log_id if there is a cursor.  *)
Subscribe ==
  /\ ~connected
  /\ connected' = TRUE
  /\ IF cursor > 0
     THEN /\ wire' = [k \in 1..(logged - cursor) |-> cursor + k]
          /\ UNCHANGED unreplayed
     ELSE wire' = <<>> /\ unreplayed' = 1..logged
  /\ UNCHANGED <<serverVars, drops, cursor, received, listVars, refreshVars,
                 bootstrap, buffered, atTop, request, bootFailed, staleHead>>

Disconnect ==
  /\ connected /\ drops < MaxDrop
  /\ connected' = FALSE /\ wire' = <<>> /\ drops' = drops + 1
  /\ UNCHANGED <<serverVars, cursor, received, unreplayed, listVars, refreshVars,
                 bootstrap, buffered, atTop, request, bootFailed, staleHead>>

-----------------------------------------------------------------------------
(* The list without the ids of S, in its order.                            *)
Without(list, S) ==
  LET rest[n \in 0..Len(list)] ==
        IF n = 0 THEN <<>>
        ELSE IF list[n] \in S THEN rest[n - 1] ELSE Append(rest[n - 1], list[n])
  IN  rest[Len(list)]

(* mergeActivities, "append" and "prepend": an event's first occurrence    *)
(* stays.  (Extend for Prepend is the mutant for NewestFirst.)             *)
Extend(list, new) == list \o Without(new, Range(list))
Prepend(list, new) == new \o Without(list, Range(new))

(* One event, or several one after the other, on top of the list.          *)
PrependOne(list, id) == Prepend(list, <<id>>)
PrependEach(list, new) ==
  LET after[n \in 0..Len(new)] ==
        IF n = 0 THEN list ELSE PrependOne(after[n - 1], new[n])
  IN  after[Len(new)]

(* enqueueRealtimeActivity.  Mutant, for ReceivedIsKept: what comes while  *)
(* the reader has scrolled away replaces what came before.                 *)
EnqueueLatest(id) ==
  IF atTop THEN activities' = PrependOne(activities, id) /\ UNCHANGED pending
  ELSE pending' = <<id>> /\ UNCHANGED activities

Enqueue(id) ==
  IF atTop THEN activities' = PrependOne(activities, id) /\ UNCHANGED pending
  ELSE pending' = PrependOne(pending, id) /\ UNCHANGED activities

(* An event that the candles have no room for schedules a refresh.         *)
ScheduleRefresh == \E due \in {refreshDue, TRUE} : refreshDue' = due

(* onmessage moves the cursor; the page's listener buffers or applies.     *)
Receive ==
  /\ wire # <<>>
  /\ LET id == Head(wire) IN
       /\ wire' = Tail(wire)
       /\ received' = received \union {id}
       /\ cursor' = IF id > cursor THEN id ELSE cursor
       /\ IF bootstrap
          THEN /\ buffered' = Extend(buffered, <<id>>)
               /\ UNCHANGED <<activities, pending, refreshDue>>
          ELSE /\ Enqueue(id)
               /\ ScheduleRefresh
               /\ UNCHANGED buffered
  /\ UNCHANGED <<serverVars, connected, drops, unreplayed, nextCursor, hasMore,
                 loaded, needsRefresh, bootstrap, atTop, request, bootFailed, staleHead>>

(* refreshFromApi: at the top it fetches the head, unless a head request   *)
(* is under way; elsewhere the next return to the top does.                *)
Refresh ==
  /\ refreshDue
  /\ refreshDue' = FALSE
  /\ needsRefresh' = ~atTop
  /\ request' = IF atTop /\ request.head = NoRequest
                THEN [request EXCEPT !.head = Ask("refresh_head", 0)] ELSE request
  /\ UNCHANGED <<serverVars, socketVars, listVars, bootstrap, buffered, atTop,
                 bootFailed, staleHead>>

(* handleActivityScroll: away from the top, or back to it, where pending   *)
(* activities are shown and a refresh that was put off is made.            *)
ScrollAway ==
  /\ atTop
  /\ atTop' = FALSE
  /\ UNCHANGED <<serverVars, socketVars, listVars, refreshVars, bootstrap, buffered,
                 request, bootFailed, staleHead>>

ScrollToTop ==
  /\ ~atTop
  /\ atTop' = TRUE
  /\ activities' = Prepend(activities, pending)
  /\ pending' = <<>>
  /\ IF needsRefresh /\ request.head = NoRequest
     THEN /\ needsRefresh' = FALSE
          /\ request' = [request EXCEPT !.head = Ask("refresh_head", 0)]
     ELSE UNCHANGED <<needsRefresh, request>>
  /\ UNCHANGED <<serverVars, socketVars, nextCursor, hasMore, loaded, refreshDue, bootstrap,
                 buffered, bootFailed, staleHead>>

(* Near the bottom the next page is fetched.                               *)
LoadMore ==
  /\ hasMore /\ nextCursor # 0 /\ request.more = NoRequest
  /\ request' = [request EXCEPT !.more = Ask("append", nextCursor)]
  /\ UNCHANGED <<serverVars, socketVars, listVars, refreshVars, bootstrap, buffered,
                 atTop, bootFailed, staleHead>>

-----------------------------------------------------------------------------
(* ListActivityPageByMint reads the checkpoint, then the page.             *)
LoadCheckpoint(r) ==
  /\ request[r].stage = "sent"
  /\ request' = [request EXCEPT ![r].snapshot = projected, ![r].stage = "checked"]
  /\ UNCHANGED <<serverVars, socketVars, listVars, refreshVars, bootstrap, buffered,
                 atTop, bootFailed, staleHead>>

(* Rows below the keyset cursor, newest first; one more than the limit is  *)
(* read to know if there is more.                                          *)
RowsBelow(before) ==
  LET top == IF before = 0 THEN projected ELSE before - 1
  IN  [k \in 1..top |-> top + 1 - k]

(* Mutant, for PagesHaveNoHole: the cursor is taken from the row that was  *)
(* read beyond the limit.                                                  *)
NextCursorBeyond(rows) == IF Len(rows) > PageSize THEN rows[PageSize + 1] ELSE 0

NextCursor(rows) == IF Len(rows) > PageSize THEN rows[PageSize] ELSE 0

ReadPage(r) ==
  /\ request[r].stage = "checked"
  /\ LET rows == RowsBelow(request[r].before) IN
       request' = [request EXCEPT
         ![r].stage = "answered",
         ![r].rows = IF Len(rows) > PageSize THEN SubSeq(rows, 1, PageSize) ELSE rows,
         ![r].more = Len(rows) > PageSize,
         ![r].next = NextCursor(rows)]
  /\ UNCHANGED <<serverVars, socketVars, listVars, refreshVars, bootstrap, buffered,
                 atTop, bootFailed, staleHead>>

(* ListTokenActivity: the response has no snapshot_log_id, whatever the    *)
(* service computed.  Mutant, for NoLossOnceSubscribed: it is the newest   *)
(* log_id, not the projector's.                                            *)
SnapshotLogIDLatest(r) == logged
SnapshotLogID(r) == 0

Answered(r, mode) == request[r].stage = "answered" /\ request[r].mode = mode
Done(r) == request' = [request EXCEPT ![r] = NoRequest]

MaxOf(list) == Max(Range(list) \union {0})

(* The buffered events above the snapshot are applied, oldest first.       *)
ApplyBuffered(list, snapshot) ==
  LET todo == Without(buffered, 1..snapshot) IN
  /\ IF todo = <<>> THEN UNCHANGED refreshDue ELSE ScheduleRefresh
  /\ IF atTop THEN /\ activities' = PrependEach(list, todo)
                   /\ UNCHANGED pending
              ELSE /\ pending' = PrependEach(pending, todo)
                   /\ activities' = list

AnswerReset ==
  /\ Answered("head", "reset")
  /\ nextCursor' = request.head.next /\ hasMore' = request.head.more
  /\ loaded' = MaxOf(request.head.rows)
  /\ ApplyBuffered(request.head.rows, SnapshotLogID("head"))
  /\ cursor' = IF SnapshotLogID("head") > cursor THEN SnapshotLogID("head") ELSE cursor
  /\ bootstrap' = FALSE /\ buffered' = <<>>
  /\ Done("head")
  /\ UNCHANGED <<serverVars, connected, wire, drops, received, unreplayed, needsRefresh,
                 atTop, bootFailed, staleHead>>

(* A status other than 2xx: the flag is cleared, the buffer stays.         *)
RefuseReset ==
  /\ request.head.mode = "reset"
  /\ bootstrap' = FALSE /\ bootFailed' = TRUE
  /\ Done("head")
  /\ UNCHANGED <<serverVars, socketVars, listVars, refreshVars, buffered, atTop, staleHead>>

(* fetch throws: the buffer is applied, in the order of arrival.           *)
LoseReset ==
  /\ request.head.mode = "reset"
  /\ ApplyBuffered(activities, 0)
  /\ bootstrap' = FALSE /\ buffered' = <<>>
  /\ Done("head")
  /\ UNCHANGED <<serverVars, socketVars, nextCursor, hasMore, loaded, needsRefresh, atTop,
                 bootFailed, staleHead>>

AnswerRefresh ==
  /\ Answered("head", "refresh_head")
  /\ activities' = Prepend(activities, request.head.rows)
  /\ hasMore' = (hasMore \/ request.head.more)
  /\ nextCursor' = IF nextCursor # 0 THEN nextCursor ELSE request.head.next
  /\ loaded' = IF nextCursor # 0 THEN loaded ELSE MaxOf(request.head.rows)
  /\ staleHead' = (staleHead \/ MaxOf(request.head.rows) < MaxOf(activities))
  /\ Done("head")
  /\ UNCHANGED <<serverVars, socketVars, refreshVars, pending, bootstrap, buffered,
                 atTop, bootFailed>>

AnswerMore ==
  /\ Answered("more", "append")
  /\ activities' = Extend(activities, request.more.rows)
  /\ nextCursor' = request.more.next /\ hasMore' = request.more.more
  /\ Done("more")
  /\ UNCHANGED <<serverVars, socketVars, refreshVars, pending, loaded, bootstrap, buffered,
                 atTop, bootFailed, staleHead>>

(* A refresh or a further page that fails changes nothing.                 *)
LosePage(r) ==
  /\ request[r].mode \in {"refresh_head", "append"}
  /\ Done(r)
  /\ UNCHANGED <<serverVars, socketVars, listVars, refreshVars, bootstrap, buffered,
                 atTop, bootFailed, staleHead>>

-----------------------------------------------------------------------------
FeedNext ==
  \/ Log \/ Project \/ Subscribe \/ Disconnect \/ Receive
  \/ Refresh \/ ScrollAway \/ ScrollToTop \/ LoadMore
  \/ \E r \in {"head", "more"} : LoadCheckpoint(r) \/ ReadPage(r) \/ LosePage(r)
  \/ AnswerReset \/ RefuseReset \/ LoseReset \/ AnswerRefresh \/ AnswerMore

FeedSpec == FeedInit /\ [][FeedNext]_feedVars

-----------------------------------------------------------------------------
Shown == Range(activities) \union Range(pending)

(* Every event that reached the browser is in the list or pending; those   *)
(* that came before the first page are buffered until it comes, and stay   *)
(* there for good if the first page is refused.                            *)
ReceivedIsKept ==
  \A i \in received :
    \/ i \in Shown
    \/ i \in Range(buffered) /\ (bootstrap \/ bootFailed)

(* The pages leave no hole: of the rows that were projected when the list  *)
(* was opened, every one above the next cursor is shown, however many rows *)
(* are added at the top while the pages below are fetched.                 *)
PagesHaveNoHole == \A i \in 1..loaded : i >= nextCursor => i \in Shown

(* While the socket is open every event is shown, buffered or on its way,  *)
(* over lost connections and head pages that overlap with the socket, but  *)
(* for those logged before a subscription that had no cursor to replay     *)
(* from: they are on a page, or missed.                                    *)
AccountedFor(i) ==
  i \in Shown \/ i \in Range(buffered) \/ i \in Range(wire)

NoLossOnceSubscribed ==
  connected => \A i \in 1..logged : i \in unreplayed \/ AccountedFor(i)

(* README.md, "Consistency Model": the snapshot and the replay together    *)
(* bridge the gap between the first page and the subscription.             *)
SnapshotGapIsBridged ==
  connected /\ ~bootstrap /\ ~bootFailed =>
    \A i \in 1..logged :
      activities # <<>> /\ i > Last(activities) => AccountedFor(i)

(* The activities the socket has delivered are newest first, once it has   *)
(* caught up with the list and nothing is pending, however they and the    *)
(* pages are merged: unless a head page that was read before the projector *)
(* had the newest events of the list was put on top of them.               *)
NewestFirst ==
  ~staleHead /\ pending = <<>> /\ (cursor = 0 \/ MaxOf(activities) <= cursor) =>
    \A j, k \in 1..Len(activities) :
      j < k /\ {activities[j], activities[k]} \intersect unreplayed = {} =>
        activities[j] > activities[k]
=============================================================================
