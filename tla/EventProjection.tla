--------------------------- MODULE EventProjection ---------------------------
(***************************************************************************)
(* One Run's durable events on their way to the reader: the backend's      *)
(* projector folds them into the generation record of the conversation     *)
(* (one JSON column, Conversation.extra) behind a cursor, publishes them   *)
(* on the WebSocket, and the browser shows them in order behind a cursor   *)
(* of its own, replaying what it missed over HTTP after a reconnection.    *)
(*                                                                         *)
(* An event is its sequence number; the last one of an ended Run is its    *)
(* terminal event.  The process may crash and boot again, the connection   *)
(* may drop, a transaction or a replay may fail, and requests that change  *)
(* the scheduling strategy rewrite the same JSON column.                   *)
(***************************************************************************)
EXTENDS Integers, Sequences, FiniteSets

CONSTANTS
  N,          \* events of a Run, the terminal one included
  PageSize,   \* events in a page of the HTTP replay (200 in the code)
  Crashes, Drops, TxFails, PageFails, Writes   \* how often each may happen

ASSUME BoundsAssumption ==
  /\ N \in Nat \ {0} /\ PageSize \in Nat \ {0}
  /\ {Crashes, Drops, TxFails, PageFails, Writes} \subseteq Nat

VARIABLES
  log, truth,       \* RuntimeRun: committed events, and its state
  process,          \* the backend process
  cursor,           \* RuntimeEventConsumer.last_sequence
  record,           \* extra.runtime: the generation, active_generation_id
  columns,          \* conversation.active_run_id and generation_status
  live,             \* the projector of the running generation
  rec,              \* recover_conversation
  writer,           \* a request that rewrites extra
  conn, wire,       \* the server's end of the WebSocket; messages under way
  client,           \* the browser's cursor and stream
  replay,           \* its replay task
  shown,            \* events it dispatched (history)
  missed,           \* an event went by that no replay under way will fetch (history)
  used              \* how often each fault has happened

vars == <<log, truth, process, cursor, record, columns, live, rec, writer,
          conn, wire, client, replay, shown, missed, used>>
store == <<cursor, record, columns>>
browser == <<client, replay, shown>>

Ack == 0
Notice == N + 1     \* generation_finished, generation:failed, ...: no sequence

Terminal(e) == truth # "running" /\ e = log

NoRec == [pc |-> "idle", due |-> FALSE, seen |-> <<>>, cols |-> <<>>, pos |-> 0,
          began |-> <<>>]

NoReplay == [pc |-> "none", after |-> 0, page |-> {}, top |-> 0]

Init ==
  /\ log = 0 /\ truth = "running" /\ process = "up" /\ cursor = 0
  /\ record = [applied |-> <<>>, status |-> "running", active |-> TRUE]
  /\ columns = [active |-> TRUE, status |-> "running"]
  /\ live = [pc |-> "next", ev |-> 1, seen |-> <<>>]
  /\ rec = NoRec
  /\ writer = <<>>
  /\ conn = "registered" /\ wire = <<Ack>>
  /\ client = [open |-> TRUE, known |-> FALSE, last |-> 0, pend |-> {}, active |-> FALSE]
  /\ replay = NoReplay
  /\ shown = <<>> /\ missed = FALSE
  /\ used = [crash |-> 0, drop |-> 0, tx |-> 0, page |-> 0, write |-> 0]

Use(fault, bound) ==
  /\ used[fault] < bound
  /\ used' = [used EXCEPT ![fault] = @ + 1]

-----------------------------------------------------------------------------
(* The Run: the kernel appends, the last event with the terminal state.    *)

RunAppends ==
  /\ process = "up" /\ truth = "running" /\ log < N
  /\ log' = log + 1
  /\ IF log + 1 = N THEN truth' = "completed" ELSE truth' \in {"running", "completed"}
  /\ UNCHANGED <<process, store, live, rec, writer, conn, wire, browser, missed, used>>

(* WebSocketSink.emit: to the sockets registered now, or to nobody.        *)
Emit(x) ==
  /\ wire' = IF conn = "registered" THEN Append(wire, x) ELSE wire
  /\ missed' = (missed \/ (x # Notice /\ client.open /\ conn # "registered"))

-----------------------------------------------------------------------------
(* _record_generation_event: one transaction per event.                    *)

FinishedRecord(r, status) == [r EXCEPT !.status = status, !.active = FALSE]

FinishedColumns(c, status) ==
  [active |-> FALSE, status |-> IF status = "completed" THEN "idle" ELSE status]

Folded(r, e) ==
  LET counted == [r EXCEPT !.applied = Append(@, e)]
  IN  IF Terminal(e) THEN FinishedRecord(counted, truth) ELSE counted

AlreadyApplied(e) == e <= cursor

Applied(r, e) ==
  /\ cursor' = e
  /\ record' = Folded(r, e)
  /\ columns' = IF Terminal(e) THEN FinishedColumns(columns, truth) ELSE columns

-----------------------------------------------------------------------------
(* _run_generation: follow the Run's events, retrying each until it is     *)
(* applied; publish those this transaction applied.                        *)

LiveRuns == live.pc \in {"next", "began", "emit"}

LiveBegins ==
  /\ live.pc = "next" /\ live.ev <= log
  /\ IF AlreadyApplied(live.ev)
     THEN live' = [live EXCEPT !.pc = IF Terminal(live.ev) THEN "ended" ELSE "next",
                               !.ev = @ + 1]
     ELSE /\ live.ev = cursor + 1     \* else RuntimeProjectionGapError, retried for ever
          /\ live' = [live EXCEPT !.pc = "began", !.seen = record]
  /\ missed' = (missed \/ AlreadyApplied(live.ev))      \* not published
  /\ UNCHANGED <<log, truth, process, store, rec, writer, conn, wire, browser, used>>

LiveCommits ==
  /\ live.pc = "began"
  /\ Applied(live.seen, live.ev)
  /\ live' = [live EXCEPT !.pc = "emit"]
  /\ UNCHANGED <<log, truth, process, rec, writer, conn, wire, browser, missed, used>>

(* The transaction fails, before or after it is durable; the projector     *)
(* tries the event again.                                                  *)
LiveFails ==
  /\ live.pc = "began"
  /\ Use("tx", TxFails)
  /\ live' = [live EXCEPT !.pc = "next"]
  /\ \/ UNCHANGED store
     \/ Applied(live.seen, live.ev)
  /\ UNCHANGED <<log, truth, process, rec, writer, conn, wire, browser, missed>>

LiveEmits ==
  /\ live.pc = "emit"
  /\ Emit(live.ev)
  /\ live' = [live EXCEPT !.pc = IF Terminal(live.ev) THEN "ended" ELSE "next", !.ev = @ + 1]
  /\ UNCHANGED <<log, truth, process, store, rec, writer, conn, browser, used>>

(* _finish_generation_and_continue, after the generation's task is done.   *)
LiveTells ==
  /\ live.pc = "ended"
  /\ Emit(Notice)
  /\ live' = [live EXCEPT !.pc = "done"]
  /\ UNCHANGED <<log, truth, process, store, rec, writer, conn, browser, used>>

-----------------------------------------------------------------------------
(* recover_conversation, once per connection, under the conversation's     *)
(* lock.  Its session reads the conversation once, and again only where    *)
(* the code refreshes it.                                                  *)

MutantRecoveryBegins ==   \* catches up only the Runs it ends itself
  /\ process = "up" /\ rec.pc = "idle" /\ rec.due
  /\ rec' = IF LiveRuns THEN NoRec
            ELSE [NoRec EXCEPT !.pc = "first", !.seen = record, !.cols = columns, !.pos = log]
  /\ UNCHANGED <<log, truth, process, store, live, writer, conn, wire, browser, missed, used>>

RecoveryBegins ==
  /\ process = "up" /\ rec.pc = "idle" /\ rec.due
  /\ rec' = IF LiveRuns THEN NoRec
            ELSE [NoRec EXCEPT !.pc = "first", !.seen = record, !.cols = columns,
                               !.pos = cursor]
  /\ UNCHANGED <<log, truth, process, store, live, writer, conn, wire, browser, missed, used>>

Catching == rec.pc \in {"first", "second"}

(* _catch_up_generation_projection: its transactions have sessions of      *)
(* their own; "began" holds the record the transaction read.               *)
CatchBegins ==
  /\ Catching /\ rec.began = <<>> /\ rec.pos < log
  /\ rec' = IF AlreadyApplied(rec.pos + 1) THEN [rec EXCEPT !.pos = @ + 1]
            ELSE [rec EXCEPT !.began = <<record>>]
  /\ UNCHANGED <<log, truth, process, store, live, writer, conn, wire, browser, missed, used>>

CatchCommits ==
  /\ Catching /\ rec.began # <<>>
  /\ Applied(rec.began[1], rec.pos + 1)
  /\ rec' = [rec EXCEPT !.began = <<>>, !.pos = @ + 1]
  /\ UNCHANGED <<log, truth, process, live, writer, conn, wire, browser, missed, used>>

(* A failure ends the recovery; the next connection starts another one.    *)
CatchFails ==
  /\ Catching /\ rec.began # <<>>
  /\ Use("tx", TxFails)
  /\ rec' = [NoRec EXCEPT !.due = rec.due]
  /\ \/ UNCHANGED store
     \/ Applied(rec.began[1], rec.pos + 1)
  /\ UNCHANGED <<log, truth, process, live, writer, conn, wire, browser, missed>>

(* SQLRunJournal.recover_process_lost: a Run still open becomes failed.    *)
MutantProcessLost == log' = log + 1 /\ truth' = "failed"

ProcessLost ==
  IF truth = "running" THEN log' = log + 1 /\ truth' = "failed"
                       ELSE UNCHANGED <<log, truth>>

RecoveryLosesRun ==
  /\ rec.pc = "first" /\ rec.pos >= log
  /\ ProcessLost
  /\ rec' = IF truth = "running" \/ rec.cols.active
            THEN [rec EXCEPT !.pc = "second", !.pos = cursor]
            ELSE [rec EXCEPT !.pc = "abandoned"]
  /\ UNCHANGED <<process, store, live, writer, conn, wire, browser, missed, used>>

(* db.refresh(conversation)                                                *)
RecoveryRefreshes ==
  /\ rec.pc = "second" /\ rec.pos >= log
  /\ rec' = [rec EXCEPT !.pc = "reconcile", !.seen = record]
  /\ UNCHANGED <<log, truth, process, store, live, writer, conn, wire, browser, missed, used>>

(* reconcile_terminal_run_records                                          *)
RecoveryReconciles ==
  /\ rec.pc = "reconcile"
  /\ record' = FinishedRecord(rec.seen, truth)
  /\ columns' = FinishedColumns(columns, truth)
  /\ rec' = [rec EXCEPT !.pc = "tell"]
  /\ UNCHANGED <<log, truth, process, cursor, live, writer, conn, wire, browser, missed, used>>

(* fail_abandoned_generation_record: what the session read at first shows  *)
(* a generation as active although no Run of it is open.                   *)
RecoveryAbandons ==
  /\ rec.pc = "abandoned"
  /\ IF rec.seen.active \/ rec.cols.status = "running"
     THEN LET status == IF rec.seen.status = "running" THEN "failed" ELSE rec.seen.status
          IN  /\ record' = FinishedRecord(rec.seen, status)
              /\ columns' = FinishedColumns(columns, status)
              /\ rec' = [rec EXCEPT !.pc = "tell"]
     ELSE /\ rec' = [NoRec EXCEPT !.due = rec.due]
          /\ UNCHANGED <<record, columns>>
  /\ UNCHANGED <<log, truth, process, cursor, live, writer, conn, wire, browser, missed, used>>

RecoveryTells ==
  /\ rec.pc = "tell"
  /\ Emit(Notice)
  /\ rec' = [NoRec EXCEPT !.due = rec.due]
  /\ UNCHANGED <<log, truth, process, store, live, writer, conn, browser, used>>

-----------------------------------------------------------------------------
(* A request reads the conversation, and later writes back the whole of    *)
(* extra with another scheduling strategy.  (With the same one, SQLAlchemy *)
(* finds the column unchanged and writes nothing.)                         *)

WriterReads ==
  /\ process = "up" /\ writer = <<>>
  /\ Use("write", Writes)
  /\ writer' = <<record>>
  /\ UNCHANGED <<log, truth, process, store, live, rec, conn, wire, browser, missed>>

WriterCommits ==
  /\ writer # <<>>
  /\ record' = writer[1]
  /\ writer' = <<>>
  /\ UNCHANGED <<log, truth, process, cursor, columns, live, rec, conn, wire, browser, missed, used>>

-----------------------------------------------------------------------------
(* Crash and boot (the lifespan of main.py): open Runs become failed, then *)
(* those just failed are shown as failed.  Only then is anything served.   *)

Dropped == conn' = "off" /\ wire' = <<>> /\ client' = [client EXCEPT !.open = FALSE]

Crash ==
  /\ process # "down"
  /\ Use("crash", Crashes)
  /\ process' = "down"
  /\ live' = [live EXCEPT !.pc = "done"]
  /\ rec' = NoRec /\ writer' = <<>>
  /\ Dropped
  /\ UNCHANGED <<log, truth, store, replay, shown, missed>>

Boot ==
  /\ process = "down"
  /\ ProcessLost
  /\ process' = IF truth = "running" THEN "booting" ELSE "up"
  /\ UNCHANGED <<store, live, rec, writer, conn, wire, browser, missed, used>>

BootReconciles ==
  /\ process = "booting"
  /\ record' = FinishedRecord(record, truth)
  /\ columns' = FinishedColumns(columns, truth)
  /\ process' = "up"
  /\ UNCHANGED <<log, truth, cursor, live, rec, writer, conn, wire, browser, missed, used>>

-----------------------------------------------------------------------------
(* The WebSocket.  The server accepts, then checks the conversation, then  *)
(* registers the socket and looks for an abandoned Run; the browser sees   *)
(* the connection open at any moment after the first of these.             *)

Drop ==
  /\ conn # "off"
  /\ Use("drop", Drops)
  /\ Dropped
  /\ UNCHANGED <<log, truth, process, store, live, rec, writer, replay, shown, missed>>

Accept ==
  /\ process = "up" /\ conn = "off"
  /\ conn' = "accepted"
  /\ UNCHANGED <<log, truth, process, store, live, rec, writer, wire, browser, missed, used>>

Register ==
  /\ conn = "accepted"
  /\ conn' = "registered"
  /\ rec' = [rec EXCEPT !.due = TRUE]
  /\ UNCHANGED <<log, truth, process, store, live, writer, wire, browser, missed, used>>

(* onOpen: replayRuntimeEvents, for a stream that is active and has a      *)
(* cursor, unless a replay is under way.                                   *)
MutantReplayWanted == client.active /\ client.pend # {}

ReplayWanted == client.active /\ client.known

ClientOpens ==
  /\ conn # "off" /\ ~client.open
  /\ client' = [client EXCEPT !.open = TRUE]
  /\ replay' = IF replay.pc = "none" /\ ReplayWanted THEN [replay EXCEPT !.pc = "asked", !.after = client.last] ELSE replay
  /\ missed' = ~(replay.pc = "none" /\ client.active /\ client.known)
  /\ UNCHANGED <<log, truth, process, store, live, rec, writer, conn, wire, shown, used>>

-----------------------------------------------------------------------------
(* dispatchOrderedRuntimeEvent: keep what is new, dispatch what follows    *)
(* the cursor without a gap, end the stream at the terminal event.         *)

MutantUpto(last, pend) ==
  CHOOSE k \in pend \cup {last} : \A e \in pend : e <= k

Upto(last, pend) ==
  CHOOSE k \in last..N : (last + 1)..k \subseteq pend /\ (k + 1) \notin pend

InOrder(S) ==
  CHOOSE s \in [1..Cardinality(S) -> S] :
    \A i, j \in 1..Cardinality(S) : i < j => s[i] < s[j]

Dispatch(events) ==
  LET pend == client.pend \cup {e \in events : e > client.last}
      upto == Upto(client.last, pend)
  IN  /\ client' = [client EXCEPT
           !.known = @ \/ events # {},
           !.pend = {e \in pend : e > upto},
           !.last = upto,
           !.active = @ /\ ~(upto > client.last /\ Terminal(upto))]
      /\ shown' = shown \o InOrder({e \in pend : e > client.last /\ e <= upto})

Deliver ==
  /\ client.open /\ wire # <<>>
  /\ wire' = Tail(wire)
  /\ CASE Head(wire) = Ack -> client' = [client EXCEPT !.active = TRUE] /\ UNCHANGED shown
       [] Head(wire) = Notice -> client' = [client EXCEPT !.active = FALSE] /\ UNCHANGED shown
       [] OTHER -> Dispatch({Head(wire)})
  /\ UNCHANGED <<log, truth, process, store, live, rec, writer, conn, replay, missed, used>>

(* The server reads a page; the answer travels; the task dispatches it and *)
(* asks for the next one while it is behind the page's last_sequence.      *)
ReplayRead ==
  /\ process = "up" /\ replay.pc = "asked"
  /\ replay' = [replay EXCEPT !.pc = "page", !.top = log,
                  !.page = {e \in 1..log : e > replay.after /\ e <= replay.after + PageSize}]
  /\ UNCHANGED <<log, truth, process, store, live, rec, writer, conn, wire, client, shown, missed, used>>

ReplayApplies ==
  /\ replay.pc = "page"
  /\ Dispatch(replay.page)
  /\ replay' = IF ~client'.active \/ client'.last >= replay.top \/ replay.page = {}
               THEN NoReplay ELSE [NoReplay EXCEPT !.pc = "asked", !.after = client'.last]
  /\ UNCHANGED <<log, truth, process, store, live, rec, writer, conn, wire, missed, used>>

(* A request that fails ends the task; nothing tries it again.             *)
ReplayFails ==
  /\ replay.pc # "none"
  /\ Use("page", PageFails)
  /\ replay' = NoReplay
  /\ missed' = TRUE
  /\ UNCHANGED <<log, truth, process, store, live, rec, writer, conn, wire, client, shown>>

-----------------------------------------------------------------------------
Projector == LiveBegins \/ LiveCommits \/ LiveEmits \/ LiveTells
Recovery ==
  \/ RecoveryBegins \/ CatchBegins \/ CatchCommits \/ RecoveryLosesRun
  \/ RecoveryRefreshes \/ RecoveryReconciles \/ RecoveryAbandons \/ RecoveryTells
Starting == Boot \/ BootReconciles
Faults == LiveFails \/ CatchFails \/ Crash \/ Drop \/ ReplayFails
Connecting == Accept \/ Register \/ ClientOpens
Replaying == ReplayRead \/ ReplayApplies

Next ==
  \/ RunAppends \/ Projector \/ Recovery \/ Starting \/ Faults
  \/ WriterReads \/ WriterCommits \/ Connecting \/ Deliver \/ Replaying

Spec == Init /\ [][Next]_vars

(* The event loop runs every task that can run, the desktop or supervisor  *)
(* starts the backend again, and the browser reconnects with a back-off.   *)
FairSpec ==
  /\ Spec
  /\ WF_vars(RunAppends) /\ WF_vars(Projector) /\ WF_vars(Recovery)
  /\ WF_vars(Starting) /\ WF_vars(WriterCommits)
  /\ WF_vars(Accept) /\ WF_vars(Register) /\ WF_vars(ClientOpens)
  /\ WF_vars(Deliver) /\ WF_vars(Replaying)

-----------------------------------------------------------------------------
Statuses == {"running", "completed", "failed"}
Records == [applied : Seq(1..(N + 1)), status : Statuses, active : BOOLEAN]

(* Types of the state.                                                     *)
TypeOK ==
  /\ log \in 0..N /\ cursor \in 0..N /\ truth \in Statuses
  /\ process \in {"up", "down", "booting"}
  /\ record \in Records
  /\ columns \in [active : BOOLEAN, status : {"running", "idle", "failed"}]
  /\ live.pc \in {"next", "began", "emit", "ended", "done"} /\ live.ev \in 1..(N + 1)
  /\ rec.pc \in {"idle", "first", "second", "abandoned", "reconcile", "tell"}
  /\ rec.pos \in 0..N
  /\ conn \in {"off", "accepted", "registered"}
  /\ wire \in Seq(0..(N + 1))
  /\ client.last \in 0..log /\ client.pend \subseteq 1..log
  /\ replay.pc \in {"none", "asked", "page"} /\ replay.page \subseteq 1..log

(* The record holds every event up to the cursor, once, in order: the      *)
(* projection is exactly-once over crashes, retries and catch-ups.         *)
AppliedIsCursor == record.applied = [i \in 1..cursor |-> i]

(* A generation shown as ended ended, and as the Run did.                  *)
TruthShown == record.status # "running" => record.status = truth

(* The record tells the truth and tells it once.                           *)
RecordIsTrue == AppliedIsCursor /\ TruthShown

(* The same unless a request writes back a column it has read before.      *)
UnwrittenRecordIsTrue == used.write = 0 => RecordIsTrue

(* The browser shows the events in order and each once, over live messages *)
(* and replays that overlap, and never one that is not in the log.         *)
ShownInOrder == shown = [i \in 1..client.last |-> i] /\ client.last <= log

(* Every event reaches the record, and the conversation leaves its         *)
(* running state, whatever process ends the Run.                           *)
ProjectionConverges ==
  <>[](cursor = log /\ record.status = truth /\ truth # "running" /\ ~columns.active)

(* A browser whose last connection started a replay that found a cursor    *)
(* and did not fail shows the whole Run: the replay and the live messages  *)
(* leave no gap between them.                                              *)
CaughtUp == <>[](client.open /\ ~missed) => <>[](client.last = log /\ truth # "running")

(* What the documentation says of every browser: what it missed is fetched *)
(* by pages.                                                               *)
AllShown == client.last > 0 ~> (client.last = log /\ truth # "running")
=============================================================================
