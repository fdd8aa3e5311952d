# Formal models of AgentHub's runtime

TLA+ modules, TLC configurations and TLAPS proofs for the runtime of this
repository: `src/agent_runtime`, `src/agent_adapters`, `src/agent_cli`, and the
part of `backend/src/app` and `frontend` that runs conversations on it. Paths are
relative to the repository root; `engine.py` is
`src/agent_runtime/runtime/engine.py`, `crm` is
`backend/src/app/services/conversation_run_manager.py`, `invariants.md` is
`docs/runtime/invariants.md`.

| Module | Models | Run | Proofs |
| --- | --- | --- | --- |
| `ScopeHistory` | abstract: the serial history of a context scope | `store` (refined by `RunStore`) | `RunStoreProofs` |
| `RunStore` | `ContextStore`, `RunJournal`, `RunCompletionPort`, three adapters | `store` | `RunStoreProofs` |
| `RunStoreDesktop` | the SQL adapter on SQLite, operations in two steps; extends `RunStore` | `store` | - |
| `RunOutcome` | abstract: a Run decided once and answered once | `kernel_live` (refined by `RunKernel`) | `RunKernelProofs` |
| `RunKernel` | one Run: tasks, locks, cancellation, verdict; instantiates `RunStore` | `kernel`, `kernel_live`, `cancel_with_sink` | `RunKernelProofs` |
| `AgentLoop` | agents under the kernel: turns, tool calls, context budget, tokens | `kernel`, `local` | `LocalHostProofs` |
| `ConversationRuns` | `ConversationRunManager` of one conversation | `conv_turns`, `conv_live`, `conv_queue` | `ConversationRunsProofs` |
| `TeamCollaboration` | the kernel's team part, `CollaborativeTeamPolicy`, `TeamJournal` | `team` | `TeamCollaborationProofs` |
| `EventProjection` | a Run's events to the read model and to the browser | `delivery` | `EventProjectionProofs` |
| `WebSocketFanout` | the list of sockets while events are sent to it | `delivery` | `EventProjectionProofs` |
| `LocalSessions` | command line processes: session locks, migration gate, workspaces, recovery | `local` | `LocalHostProofs` |
| `SQLiteMemory` | memory records, revisions, proposals, forgetting, retrieval | `memory` | `SQLiteMemoryProofs` |
| `WorkflowRuns` | the backend's engine for a canvas started by hand | `workflow` | `WorkflowRunsProofs` |
| `WorkflowTraversal` | the Kernel's `WorkflowScheduler` | `workflow` | `WorkflowRunsProofs` |

`MC*` modules instantiate them for TLC. To check one: `tlc -config MCRunKernel.cfg
MCRunKernel`; to prove: `tlapm RunStoreProofs.tla`.

## 1. Inventory

### Components, their state and operations

| Component | State | Operations | Correct when |
| --- | --- | --- | --- |
| Run persistence (`runtime/run_journal.py`, `runtime/completion.py`, `context/scope_store.py`; adapters `storage/sqlite.py`, `backend/src/app/persistence/*.py`) | rows of Runs, event logs, context per scope, outbox | `load`, `create_run`, `append_event`, `try_finish`, `try_complete`, `recover_process_lost`, `cancel_abandoned`, `recover_session` | logs contiguous and append-only; one terminal event; context changes only with a completion based on its current version |
| Run kernel (`engine.py`, `agent_actor.py`, `cancellation.py`, `run_watchdog.py`) | state, lease, cancellation scope, sequence, result future, two locks, tasks, mailboxes | `start`, `cancel`, `fail`, `_run`, `_emit`, `_finish`, `_abort`, `_stop_actors`, `AgentActor.run`, watchdog | one verdict in memory and journal; success is durable before it is reported; nothing after the terminal event but late rejections; `cancel()` and `result()` return |
| Conversation run manager (`crm`, `services/runtime/generation_records.py`, `api/websocket.py`, `api/conversations.py`, `main.py`) | bindings, handles, running task, queued/active/live inputs, lock per conversation; generation records | `send_user_input`, `start_generation`, `cancel_generation`, `close_conversation`, `recover_conversation`, `_on_generation_done`, startup recovery | one live Run; a message is run at most once; queued inputs are started; the read model shows the live Run; the conversation becomes idle |
| Team collaboration (`engine.py:296-601`, `strategies/collaborative.py`, `backend/.../team_journal.py`) | inboxes, threads, message log, budgets, accepting flag | `post_message`, `send_message`, `resolve_thread`, consume, completion gate, interruption | every message is consumed or interrupted; inboxes mirror the journal; budgets hold; the team comes to an end |
| Event projection (`crm:795-1075`, `generation_records.py`, `api/runtime_events.py`, `frontend/src/api/message.ts`) | cursor, generation record, WebSocket, browser cursor, replay | project, recover, publish, register, replay, show | the record is the log up to the cursor; the browser shows events once, in order, and catches up |
| WebSocket sink (`backend/src/app/events/__init__.py`) | list of sockets | register, unregister, emit | a client gets each event once |
| Session lock, schema migration, CLI sessions (`storage/session_lock.py`, `migration.py`, `agent_cli/sessions.py`) | OS locks, schema, sessions, workspace versions | open, migrate, activate, materialize, configure, execute, recover | one owner recovers a session; nobody moves the workspace under a Run; the schema changes while nobody works |
| SQLite memory (`storage/memory.py`, `agent_subsystems/memory/context.py`) | records, revisions, sources, index, candidates, jobs, suppressions | save, revise, disable, forget, rebuild, select, revalidate, propose, process, decide | no lost update; what is forgotten stays forgotten; models are told only what is current |
| Backend workflow engine (`backend/src/app/services/workflows/*.py`, `api/conversations.py:719-1220`) | the WorkflowRun row, the conversation's settings column, sessions' copies | start, run levels, retry, skip, fail, complete, save a canvas | the row tells the truth; each node runs after its inputs; the run ends |
| Workflow scheduler and replanner (`agent_runtime/workflow/*.py`) | current node, visited nodes, fork, steps | decide, advance, fork, join, replan | the walk follows the graph and ends |
| Agent loop (`agent_subsystems/execution/*.py`, `context/assembler.py`, `context/continuation.py`, `execution_observer.py`) | working messages, turns, usage, tool events in the journal | cut the context, ask, account, call tools, report; tell the next Run | every operation is accounted for; prompts are whole and fit; tokens are counted within the limit |
| Adapter isolation, mailbox, dispatcher, stepper | queues, credits | send, receive, step | bounded, no lost wake-up |
| SQLite resources and tasks (`storage/resources.py`, `tasks.py`) | resource rows, job rows | put, prune, run jobs | references keep their content |
| Tools, permissions, workspaces | mostly none | pure or sequential | permission rules agree with their definition |
| CLI rendering, model providers, desktop, mobile, deployments, worktrees, documents, MCP, scripts | I/O and user interface | - | not part of the runtime protocol |

### How they interact

`ConversationRunManager.start_generation` builds a `RunRequest` and calls
`RuntimeEngine.start`, which starts a `RunKernel`. The kernel loads the scope's
snapshot, creates the row, and drives actors; all of them write events through
`_emit` into the `RunJournal`. A policy (`CollaborativeTeamPolicy`, `WorkflowPolicy`, a
leader) proposes what the kernel does next. `_finish` ends the Run by `try_complete` or
`try_finish`. The manager follows the events of the Run, projects them onto the
generation record and publishes them on the WebSocket; when the Run's task is done it
takes the next queued input. Deletion, cancellation and recovery go past the kernel to
the rows (`cancel_abandoned`, `recover_process_lost`). The command line host is another
embedding of the same kernel: several processes share one SQLite file and agree by
operating-system locks. A canvas started by hand bypasses the kernel: the backend's
`WorkflowEngine` executes it and writes its own row.

### What is hard

- **Interleaving.** Everything runs in one event loop, but each `await` hands it on:
  two finishers, a canceller and a watchdog for one Run; several requests, the finisher
  of the last Run and a recovery for one conversation; peers and users who post while
  the Run completes; nodes of a level that mark one row.
- **Cancellation.** A task is cancelled wherever it is suspended, also inside a
  transaction, in clean-up code or while publishing a verdict.
- **Staleness.** A context loaded at the start, a conversation loaded before the lock, a
  JSON column read before another session wrote it, a record edited from an old revision.
- **Partial failure.** A journal call may raise before or after its commit.
- **Delivery.** Connections drop, replays fail and overlap with live events.
- **Crash.** The process dies with open rows, running records, queued inputs or locks.
- **Numeric edges.** Budgets, sequence numbers, context versions, step limits.

`PROJECT.json` lists each hazard at its line with the properties aimed at it.

## 2. Plan

Done, in this order: `RunStore` with `ScopeHistory`, `RunKernel` with `RunOutcome`,
`ConversationRuns`, `TeamCollaboration`, `EventProjection` with `WebSocketFanout`, `RunStoreDesktop`,
`LocalSessions`, `SQLiteMemory`, `WorkflowRuns` with `WorkflowTraversal`, `AgentLoop`.

Proved, in this order: `RunStore`, `LocalSessions`, `SQLiteMemory`, `AgentLoop`'s journal,
`WorkflowRuns`, `EventProjection`, `TeamCollaboration`, `RunKernel` and its refinement of
`RunOutcome`, `ConversationRuns`, `WorkflowTraversal`, `WebSocketFanout`, who may end a Run as
cancelled, `AgentLoop`'s tokens and prompts.

Next: SQLite resources and tasks, the mailbox and the adapter isolation.

Modules to be proved about use no RECURSIVE operators; constants carry named
assumptions; each operation is one action; proofs live in `<Module>Proofs`
(`LocalHostProofs` for the two modules of a local host).

## 3. The modules and the code

### RunStore (and ScopeHistory)

One variable per table or dictionary: `state` (the Run's row: absent, running for
every non-terminal state, or its verdict), `events` (its log), `context` (the
committed snapshot of a scope), `loaded` (the snapshot a Run's kernel read) and
`outbox` (Runs for which a memory or resource job was queued). A snapshot is its
version and the Runs whose turns its messages hold: that is all the properties tell
apart.

Every operation is one transaction in the adapters (an asyncio lock, `BEGIN
IMMEDIATE`, or a locked row), so each is one action: `Load`, `CreateRun`,
`AppendEvent` (a fresh event, or the exact repetition of one already in the log),
`TryFinish`, `TryComplete` (version check, terminal event, terminal row, context and
outbox together), and the SQL adapter's `RecoverProcessLost` and `CancelAbandoned`,
which close all open Runs at once. An operation that raises rolls back and is no
step. Callers may call anything at any time, also what the kernel would not:
the store has to be right whoever calls. SQLite's `recover_session` is a sequence of
`TryFinish`. The three adapters agree on everything the model shows but the bulk
recovery (SQL only) and the outbox (SQLite only), hence `SqlAdapter` and
`Subscribed`.

`ScopeHistory` says what this is for: the completed Runs of a scope form a serial
history, each having seen exactly the history before it. `RunStore` implements it
under the mapping `outcome <- state`, `seen <- loaded[r].turns`,
`history <- context[s].turns`.

### RunKernel

A Run's tasks: the main task (`_run`), the shielded completion task
(engine.py:726-734), the watchdog, one per actor, one caller of `cancel()` and any
number of callers of `fail()`. `pc[p]` is where a task is; an action takes it to its
next suspension point. Labels in `Sync` are not suspension points: while a task is
at one of them no other task runs, so the longest synchronous stretches are a few
actions with nothing between them, as in the event loop. `asyncio.Lock` is a FIFO
sequence (holder first). `Task.cancel` adds the task to `cancelled`, and
`MainInterrupted` / `AgentInterrupted` deliver it where the task is suspended; a
database call that is cancelled may or may not have committed (`CancelledCall`). A
task waiting in `gather` is resumed after the tasks it waits for.

`RunStore` is instantiated with this Run and one rival of the same scope; the kernel's
journal calls are its actions, and a call may raise without effect ("clean") or after
its commit ("ambiguous").

| Code | Actions |
| --- | --- |
| `_run` | `MainStarts` ... `CompletionAwaited`, `MainRaised`, `MainAborts`, `MainInterrupted` |
| `_emit`, `_executor_emit`, `_emit_rejected` | `EmitRefused`, `EmitLock`, `SeqAcquired`, `Appended`, `AppendRaises`, `Published` |
| `_finish`, `_finish_locally_after_journal_failure` | `FinishQueued`, `FinishTooLate`, `FinishEntered`, `FinishSeqAcquired`, `Persisted`, `NotPersisted`, `CompletionRaises`, `FinishLocally`, `Resolved` |
| `_abort`, `_stop_actors` | `Abort`, `Kill`, `StopLabel`, `Stopped` |
| `AgentActor.run`, `assign`, `stop` | `Assign`, `Worked`, `AgentTakes` ... `AgentUnwound` |
| `cancel()`, `fail()`, `RunWatchdog.run` | `CancelCall` ... `ForceStopped`, `FailCall`, `WatchdogFire` |

Abstracted: what a policy decides and an executor produces (any proposal of the four
kinds, any interleaving of emitting, returning and raising); token and time budgets
and result checks appear as the reasons the main task may abort for (`Aborts`) or as
the watchdog; one event is emitted per batch of assignments and of reports; team
messages are left out; notifying readers happens with the append. One executor runs
per actor. The grace period of `cancel()` ends only when nothing that merely needs
turns of the loop is outstanding (it is measured in seconds).

`EndsInTruth` says two things. Under every journal a success is recorded before it is
told, and the context is the history of completed Runs (`DurableTruth`). Where the journal
answers (`JournalAnswers`: it does not suspend its caller, as the in-memory and SQLite
adapters, and raises only for what it was asked), the callers' answer is the row's, the log
holds nothing after its verdict but late rejections, and the kernel's counter is the length
of the log (`OneEnding`); also where somebody cancels before there is a row. The condition
is needed. A journal that raises after its commit leaves the callers with `failed` and the
row with another verdict; one that refuses `cancel()`'s event lets the main task write while
the verdict is published; one that suspends may commit an append whose caller has been
cancelled, and the counter is behind the log.

`KernelAssumption` says that tasks have names of their own and that the reasons to abort are
none of those of a cancellation (`"none"`, `"user"`): they are the `reason_code`s of the
checks, engine.py:680-786.

`RunOutcome` is what this comes to for those outside: a row decided once, an answer given
once, an answer that is not a failure announced from the row, a failure told only while the
row is open if the journal answers, and the row then follows it (`Decide`). `ImplementsOutcome`
maps the row to `state[Run]` and the answer to `result.state`.

### AgentLoop

| Code | Actions |
| --- | --- |
| `_execute_loop`, one turn; `ContextAssembler.prepare` | `TurnsExhausted`, `ContextExhausted`, `Ask` (`Cut`, `Assembled`) |
| the model phase, `execution_phase`, `_record_usage`, `usage_reported` | `Answers`, `AnswerBreaks`, `AnswerUnpublished`, `Account` with `TokensExhausted`, `AnswerRejected`, `Finishes`, `WantsTools` |
| `_execute_loop`, the tool calls | `Announce`, `StartCall`, `NotExecuted`, `Execute`, `Act`, `Returns`, `Tell` |
| `_cancel_work`, `emit_legacy`, the journal | `Stop`, `Interrupted`, `EmitRaises` |
| `JournalContinuationReader.read` | `Status` |

One variable per local of the loop (`messages`, `asked`, `call`, `spent`) and per part of
the kernel its observer writes (`reported`, `total`, `marked`); `acted` and `consumed` are
what the outside world has really done. A message is its role, its size, and the
operations it calls or answers. `prepare` cuts one thing at a time in a fixed order and
stops when the rest fits, so `Cut(m, n)` is what is left after `n` cuts and `Cuts` the
least `n` that fits. A sum (`Total`) is the number of its units, a cardinality, so that it
can be reasoned about without induction. `LoopAssumption` says that limits are numbers, that
a tool result takes room, and that the history holds what users asked and agents answered
(`_context_delta`): no calls and no results. An emit is one step; it may raise before or after the event is in the
journal. A tool may outlive the loop that waited for it (`left_executing`). Left out:
streaming, the filters of memory and resource results, direct execution, extension hooks,
checkpoints of the stepper, isolation, the status report, and the length bound of what the
next Run is told (it says how many operations it omits).

### ConversationRuns

One conversation between its requests and the database. A process is a request
(sender, canceller, deleter, connecting WebSocket), or the task that follows a
finished Run; `pc[p]` is its label. The state is the manager's dictionaries at this
conversation, the lock (as FIFO queues, of which only the head lets go; `door` says which
lock `_locks` holds, since deletion drops it), and the rows, records and active Run in the database. A Run is
reduced to what `RunKernel` shows: live until it has a verdict, in its row unless the
journal failed, none if someone else closed the row.

| Code | Actions |
| --- | --- |
| `_handle_chat_send`, HTTP send (`Direct`) | `ChatSend`, `SendRequested` |
| `get_or_create_engine`, `_recover_abandoned_generation_if_needed` | `EngineReady` with `Recovers` |
| `send_user_input` | `SendChecks`, `SendDuplicate`, `SendStarts`, `SendQueues`, `SendInjects`, `Injected` |
| `start_generation` | `StartChecks`, `StartDecides`, `Created`, `Launched`, `StartFails` |
| the Run and `_run_generation` | `RowCreated`, `KernelEnds`, `Projected` |
| `_on_generation_done`, `_finish_generation_and_continue` | `GenerationDone`, `Continued` |
| `cancel_generation`, `close_conversation`, `delete_conversation` | `CancelRunning` ... `CancelRecords`, `CloseForgets`, `CloseDeletes` |
| `recover_conversation`, startup | `ConnectAsks`, `ConnectRecovers`, `CrashAndRestart` |

A recovery made under the lock is one step; asking for the lock and having it are
two. `EngineReady` uses the conversation its request read before it had the lock
(`about`, `seen`), as the code's session does (sessions do not expire on commit). Left
out: messages and previews, WebSocket output, the history limit of 20 generations
(not reached with 3 Runs), `generation_status` (it changes with `active`), and models
or strategies that change between requests.

### RunStoreDesktop

The SQL adapter of the three ports on SQLite. `SELECT ... FOR UPDATE` takes no lock
there and the driver begins its transaction at the first write, so an operation is two
steps with other operations between: `Reads` / `ReadsAbandoned` (all it reads) and
`WritesEvent`, `WritesCompletion`, `WritesAbandoned` (all it writes, under SQLite's
write lock), or `RollsBack` when a unique key refuses the row it inserts. `DesktopLoad`
and `DesktopCreate` are one step. `ContextWritable` is the version comparison the code
makes with what it has read; the write itself is unconditional. `OneAtATime` is what the
conversation manager guarantees in one backend process (`OneRunShown`): a scope starts a
Run when none of its Runs is open. Without it the module's `ContextIsCas` fails (item 20).

### TeamCollaboration

| Code | Actions |
| --- | --- |
| `post_message`, `send_message`, `_send_team_message` | `UserPosts`, `AgentSends`, `Sent`, `SendRefused`, `SendFails` |
| `_record_collaboration_rejection` | `Rejected` |
| `resolve_thread`, `TeamJournal.resolve_thread` | `AgentResolves`, `Resolved` |
| `CollaborativeTeamPolicy.propose`, `_run` | `Propose`, `Prepare`, `Completing` |
| `_execute_targets`, `_consume_team_inbox`, `_accept_agent_result` | `AssignNext`, `ConsumeNext`, `Consumed`, `ConsumeFails`, `TurnsStart`, `AgentReports`, `Gathered` |
| `_prepare_collaboration_complete` | `PreparedAt`, `Prepared` |
| `_fail_from_watchdog`, `_abort`, `_stop_actors`, `_finish`, `interrupt_run` | `Stopped`, `Unwinds`, `ActorsStopped`, `Finishing`, `InterruptedAll`, `Interrupts`, `Finished`, `Completed` |

`pc[p]` says where an agent, a user or the main task is, `_sequence_lock` is a FIFO
queue (`Ask`, `Inside`, `Leave`). What a sender checked before it asked for the lock is
not checked again inside. A message is its sender, recipients, thread and status; a
thread is named by the message that opened it. Left out: texts, the reading of pages,
the kernel's other events, and a second interruption after `interrupt_run` has failed
(the code passes over it). `raised` is a history variable: a call of the journal has raised.
The agents a message mentions are taken in the order of the Team (`First`), as the policy
does. A wait and no progress are one outcome. The grace period of a
cancellation is merged with the stop of the actors. The journal fails in the room
`faults` only.

### EventProjection

| Code | Actions |
| --- | --- |
| `append_event`, `try_finish` (runtime_journal.py) | `RunAppends` |
| `_run_generation`, `_record_generation_event` | `LiveBegins`, `LiveCommits`, `LiveFails`, `LiveEmits` |
| `_publish_generation_terminal`, `_finish_generation_and_continue` | `LiveTells` |
| `recover_conversation`, `_catch_up_generation_projection` | `RecoveryBegins`, `CatchBegins`, `CatchCommits`, `CatchFails`, `RecoveryLosesRun`, `RecoveryRefreshes`, `RecoveryReconciles`, `RecoveryAbandons`, `RecoveryTells` |
| `recover_process_lost`, startup (`main.py`) | `ProcessLost`, `Crash`, `Boot`, `BootReconciles` |
| `save_user_message`, `persist_scheduling_strategy` | `WriterReads`, `WriterCommits` |
| `conversation_websocket` | `Accept`, `Register`, `Dropped` |
| `ConversationWS.connect`, `dispatchOrderedRuntimeEvent`, `replayRuntimeEvents` | `Drop`, `ClientOpens`, `Deliver`, `ReplayRead`, `ReplayApplies`, `ReplayFails` |

An event is its sequence number. The fold of an event into the record is abstract: a
record is the prefix it has folded and its status. One Run, one backend process, one
client; a reload of the page is left out. `save_user_message` writes the column only when
the strategy has changed (`Writes` bounds it). An exception in a recovery is not retried
before the next connection, as in the code. `missed` is a history variable: events
emitted while the browser was not registered.

### WebSocketFanout

`WebSocketSink.emit` iterates over the list of sockets by position, and every send is a
suspension point at which `register` and `unregister` change the list. A send to a peer
that has gone may succeed or raise. `Start`, `Sent` (with `Continue` for the loop and the
removal of the dead), `Registers`, `Unregister`, `PeerGoes`. `Left` is what `list.remove`
leaves of a list.

### LocalSessions

| Code | Actions |
| --- | --- |
| `SQLiteStore.__init__`, `migrate` | `Open`, `Opened`, `MigrationLocks`, `MigrationRefused`, `MigrationCommits` |
| `SessionLock.__enter__`, `_acquire` | `TakeGate`, `Busy`, `TakeSession`, `TakeCreated` |
| `SessionController.activate`, `_prepare` | `Activate`, `Resolve`, `Recover`, `ActivationFails`, `Activated` |
| `materialize`, `configure`, `new`, `close` | `Materialize`, `Configure`, `New`, `Exit` |
| `execution`, `try_finish` | `StartRun`, `RunEnds`, `RunLeftOpen` |

Locks never wait (`LOCK_NB`); `Exit` is also the death of a process anywhere, and the
operating system frees its locks. `RunLeftOpen` is a Run whose terminal transaction
fails: the session goes on with an open row. An old client is a process that opened the
database with the old schema. Ids are activated only once somebody can see them. The
module was also checked with two processes and two Runs, and with three and two.

### SQLiteMemory

| Code | Actions |
| --- | --- |
| `save`, `revise`, `set_status`, `rebuild`, `read` | `Save`, `Revise`, `SetStatus`, `Forget`, `Rebuild`, `Read` |
| `RunMemoryContext.items`, `select`, `revalidate` | `Select`, `Request` |
| `propose`, `memory_outbox`, `process`, `decide` | `Propose`, `EndRun`, `Process`, `Review`, `Adopt`, `Reject` |

Users and Runs read in one transaction and write in a later one with the revision they
read. A source is the request (or tool result) of a Run, one key per Run, or a memory at
a revision. `verify_claim` is a free outcome. The text on adoption is any text. One
candidate per Run; revalidating several items is one step. Left out: redaction, ranking,
budgets, the filter of tool results, the limit of ten candidates, pages. That candidates
are processed in the end is not claimed.

### WorkflowRuns

| Code | Actions |
| --- | --- |
| `_execute_manual_workflow_run`, `WorkflowEngine.run` | `Begin`, `Refuse`, `StartLevel`, `EndLevel`, `LevelRaises`, `CompleteRun`, `FailEscaped`, `Report` |
| `_run_node`, `_mark_node`, `_mark_retry`, `_complete_node` | `StartNode`, `Succeed`, `ReturnFailure`, `Raise`, `Catch`, `MarkRetry`, `NoteRetry`, `SkipTarget`, `EndNode` |
| `_fail_run` | `SkipBelow`, `FailRun` |
| `update_conversation_workflow` | `Save` |

`copy[s]` and `held[s]` are the run and the settings a database session has loaded: one
session for the engine, and one per node when a level has several. A mark refreshes the
run under the run lock and writes both; the settings it writes are the session's. A
publication succeeds, or raises on canvases with a `flaky` bus. Left out: the mention
filter, edge states, progress, outputs, the cancelled status (written at shutdown), a
crash (the run stays running), the change of a single node (no client asks for it), and
`run_orchestration` (nothing calls it). `Save` is one step; reading a node's input does
not fail.

### WorkflowTraversal

The Kernel's `WorkflowScheduler` behind `WorkflowPolicy`. `Ask` is `propose`; the loop of
`make_decision` is a sequence of actions of one turn: `Join`, `Advance`, `Arrived`,
`PassControl`, `Assign`, `StepLimit`. An edge is a position in the sequence of a node's
successors (`Heads` of some edges, `Successors` of all), since the code keeps an edge that
is there twice; by `GraphAssumption` edges lead to nodes of the graph (graph.py:41-48). A
condition answers anything and takes the edge at the place of its answer in its `branches`
(`branch`, {1, 2} by default), or the first; reports are ignored, as in the code. The replanner and the sanitizing of graphs are left out. Nothing is
awaited, so nothing interleaves.

## 4. The runs

TLC starts each run in one of several settings, with a variable (`day`, `room`, `part`,
`adapter`, `surroundings`, `moves`) that never changes: a setting is an instance of the
same module with constants of its own.

| Run | Instance | Shows |
| --- | --- | --- |
| `store` | 3 Runs, 2 in one scope, 4 symmetric event ids, logs of 3; SQL, SQLite (two Runs with an outbox) and desktop (2 callers, two Runs, logs of 2) | logs contiguous with one terminal event; contexts are the completed Runs; the outbox is exact; nothing is taken back; refinement of `ScopeHistory`, by the desktop adapter too |
| `kernel` | one actor that may raise, one decision, a deadline, a canceller, one `fail()`, a rival; a journal that suspends and fails (`sql`), or a local one with a sink (`local`), callers coming before the row in both; `agent`: one agent, 3 turns of up to 2 calls, results of three kinds, a budget of 5, two earlier turns, a memory and a resource | success is durable before it is visible and the context stays the history; with a journal that answers, one ending that row, result and log share; every operation is accounted for wherever the agent stops; prompts fit and pair calls with their results |
| `kernel_live` | 2 actors; `callers`: deadline, aborts, canceller, no sink; `sink`: a sink, raising actors, a refusing journal, nobody interrupts; fair | the result is the row's and the log ends with it; endings are earned (no work left; cancelled by its caller); `cancel()` returns; the row is decided; the result arrives; refinement of `RunOutcome` |
| `conv_turns` | 3 Runs, a connecting client; `retry`: 4 sends, one a retry; `crash`: 3 sends, one a retry by HTTP, and a restart | one live Run, followed and shown as running; no input served twice, none stranded |
| `conv_live` | `busy`: 2 sends, a cancellation, a deletion; `bad`: 3 sends, one by HTTP, collaborative, a crash, failing stores; fair | no message is served twice; every request is answered on both days; on the bad one the conversation becomes idle |
| `team` | 2 peers, 2 messages; `peers`: 1 user, 3 turns, a summary; `stops`: failed or cancelled from outside; `faults`: the journal fails as well; `ends`: a second user whose post is refused, fair | inboxes mirror the journal; budgets of messages, turns and threads hold together; nothing left behind; a message's status only moves on; the Run ends |
| `delivery` | 3 events, pages of 1; `browser`: 2 drops, a failing page, a writer; `records`: 2 crashes, 2 failing transactions; `converges`, `catches_up` (fair); `fanout`: 2 sockets, 2 emitters, 2 events | the record is the log up to the cursor and tells the truth where no other request rewrites it; the browser shows events once and in order; both catch up; an emit repeats nothing |
| `local` | `sessions`: 3 symmetric processes, 2 sessions, 1 Run, one workspace change; `agents`: two agents, 3 turns of up to 1 call, up to 2 tokens each, a limit of 3 | two processes never have one session; an executed Run is not closed; nobody moves its workspace; a migration finds nobody at work; the token limit is passed by less than a request per agent, and what was used is counted or marked; no deadlock |
| `memory` | 2 Runs, 2 users, 2 contents, 2 records, 3 revisions, 1 source each; `review`: proposals and adoption; `recall`: one Run retrieves | no candidate is passed over; the index is current; what is forgotten does not come back from its sources; no edit is lost; a model is told only what holds |
| `workflow` | `engine`: 5 canvases of 5 nodes (choice, fork, two choices; two with a flaky bus), one save; `kernel`: 13 graphs, 3 with edges that are there several times and 3 with branches of their own, 6 steps; fair | the row tells the truth; the walk follows the graph; both end |
| `cancel_with_sink`, `conv_queue` | see section 7 | documented promises the code does not keep |

Why the bounds suffice. Two Runs of one scope are needed for a context conflict and a
third in another scope for interference; a log of 3 holds an ordinary event, a terminal
one and one after it. One decision allows every proposal and the budget abort after it,
and one event per actor a refusal, a late event and an event in clean-up. Three sends
give a live Run, a queued input and a competitor for the moment between them; the fourth
repeats a message. Two messages meet at their budget of two, in one thread or two. Three
events give an event before, at and after every gap and a page boundary between any two.
A context budget of 5
is less than a history, a request, two rounds and the offers, and as much as a request and
two shortened rounds: every kind of cut happens, and so does giving up. Three processes
give an owner, a contender and a migration. Three revisions let two users
edit what a third step has changed. Five nodes hold a condition whose branches go on, a
fork with a join and something behind it. Every bound is a constant in a `.cfg` or an
instance; the kernel's own log is not bounded (`MaxSequence <- 99` is never reached).

Deadlock is checked in `team` and `local` and not elsewhere: logs are bounded, Runs end
and requests are answered; where a process must not stop, a liveness property says so.

### Fairness

- `RunKernel!Fairness`: weak fairness of the main task, the completion task, each
  actor, the watchdog and a canceller that has called. The event loop runs every task
  that is ready, and time passes; executors return or unwind when cancelled, stores
  and sinks answer and policies answer. The last four are what the code itself waits
  for without a bound (`AgentActor.stop`, engine.py:1225). No fairness is given to
  those who need not call: cancellers, callers of `fail()`, the rival.
- `ConversationRuns!Fairness`: weak fairness of a request once it has been made, of the
  task that follows a finished Run, and of each Run, which ends in the end: that is
  `ResultArrives` of `RunKernel`, and section 7 says when the kernel breaks it.
- `TeamCollaboration` (room `ends`): the main task, every agent in a turn, and whoever is
  inside the lock. Nobody has to send.
- `EventProjection` (`converges`, `catches_up`): the event loop, the supervisor that
  starts the process again, and the browser, which connects again with a back-off.
- `WorkflowRuns`: the event loop runs the engine and its tasks, and executors return or
  raise. `WorkflowTraversal`: a turn goes on to its end and is asked again.

## 5. What is proved

All proofs hold for every value of the constants, under the named assumption of each
module, and are checked by TLAPS. Types are lemmas of each.

**RunStoreProofs** (any Runs, scopes, event ids, bound; `StoreAssumption`).
`TypeCorrect`, `LogsAreSound`, `ContextsAreSound`, `NothingIsTakenBack`,
`StoreImplementsHistory` and what they consist of. The inductive invariant `IInv` is
`TypeOK`, `LogInv` (contiguous, unique ids, `TerminalOnce`), `ContextInv` (contexts are
the completed Runs, completions serialised, snapshots prefixes) and
`OutboxFollowsTerminal`. None of the interesting ones is inductive alone: that a stale
Run cannot complete needs to know that equal versions mean equal turns, which needs that
snapshots are prefixes and versions count turns; that a repeated append cannot add a
terminal event needs unique ids and `TerminalOnce`. Every operation that writes a log
makes some Runs gain one fresh event each (`Grow`), so the lemmas on `Grow` serve append,
both terminal writers and the bulk recovery.

**LocalHostProofs**, of `LocalSessions` (any processes, sessions, Runs, versions). `SessionsStayApart`,
`LiveRunsAreKept`, `RunsStayInPlace`, `MigrationsAreAlone`. The invariant `LockInv` says
what each lock protects in each phase: the gate is held exactly in four phases
(`GateHeld`); a current session is locked and its version known (`PlaceLocked`); only
sessions with a row are locked, and one nobody has seen has never moved (`RowsFirst`); an
executed Run belongs to the current session at its version (`WorkInPlace`); what a
migration need not lock any more nobody else has (`MigrationClears`).

**SQLiteMemoryProofs** (any Runs, users, contents, bounds). `CandidatesAreAwaited`,
`IndexStaysCurrent`, `ForgettingLasts`, `EditsAreSeen`, `SentIsCurrent`. The invariant
`MemoryInv` adds to the run's invariants that records are whole, that what users hold was
once true, that adopted records keep the trace of their Run, and that the keys of what is
forgotten are suppressed.

**LocalHostProofs**, of `AgentLoop` (any agents, limits, budgets, histories, results;
`LoopAssumption`).
`JournalAccountsForOperations`: `OperationsAccountedFor`, wherever a Run stops. What
matters is the last event that names an operation (`LastExists`): its start is appended
before a tool may act and nothing after it until the result is known, so an operation that
is executed, or was left executing, is unknown (`StartedUnknown`, `LeftUnknown`), and a
result that says completed was acted (`FoundActed`). `AppendedEvent` says what one more
event does to every status.

`TokensAreCounted`: `TokensAccounted`. The kernel's count is the sum of what the agents have
reported, an agent has consumed what it reported and its unreported answer, and whoever
reports to a full count ends, so at most one request per ended agent lies above the limit
(`TokenInv`). The sum is a cardinality, and its laws (`TotalOfParts`, `TotalGrows`,
`TotalOfZeros`) follow from those of finite sets.

`PromptsAreWellFormed`: `PromptsWellFormed`. The invariant `PromptInv`: the messages hold one
current request with neither calls nor results before it (`Anchored`), calls are followed by
their results and results follow their calls (`Following`, `Backed`), and only the message
whose calls are being performed lacks some (`Round`). What the messages tell of an operation
is what the journal says of it, and stays so because no event to come names it
(`TrueNow`, `PastNow`). A cut prompt is, but for sizes, a suffix that begins at a turn
(`CutKeeps`, `TalkSuffix`), and what is put before the request neither calls nor answers
(`Between`), so all of this holds of what is sent, whose size is that of its parts. The
last cut leaves the current turn with every result shortened (`LastCut`); if it does not fit,
no cut does, and giving up is right (`Overfull`). `PromptInv` was checked with TLC in the room
`agent` before it was proved.

**WorkflowRunsProofs** (any nodes, acyclic canvases, saves; `CanvasAssumption`).
`WorkflowTypes`, and `RowsTellTheTruth`: `RunTellsTruth`, which speaks of runs whose
publications succeed. What was seen is closed under predecessors (`LevelsClosed`), so the
targets and descendants of a level lie ahead of it (`TargetsAhead`, `DescendantsAhead`);
only the level's nodes are worked on (`WorkersInLevel`, `NodesFollowWorkers`); the levels
before are passed (`LevelsSettled`); whatever any session's copy has noted as skipped is
skipped (`SkipsMarked`). `NothingLeft` uses the assumption that there is no cycle: when no
level is left, every node was seen. `WalksFollowTheirGraph`: `WalkFollowsGraph` of
`WorkflowTraversal`, for any graph, cyclic ones too. The invariant (`WalkInv`) adds where the
walk may stand and what is marked in each part of a turn; one decision follows at most the
edges of one node (`FollowedAreAhead`), hence the `MaxFan` by which the step limit may be
passed; the run reaches that bound, behind a cycle, with three edges to one node.

**EventProjectionProofs** (any length of a Run, page size and number of faults).
`BrowserShowsLog`: `ShownInOrder`. What the browser shows is what it has received, so the
invariant (`BrowserInv`) is about what is under way: nothing on the wire, pending, or in a
page of a replay is an event that the log does not hold. What follows the browser's cursor
without a gap is then an interval of the log, and an ascending enumeration of an interval
leaves out none of it (`AscendingFillsInterval`, by a least counterexample).
`RecordToldOnce`: `UnwrittenRecordIsTrue`. The record is written by whoever read it last,
and nothing in the database stops an older copy; it is true because the writers exclude each
other in time (`WritersExclude`: a recovery begins when the projector has stopped, a boot
when neither is there) and each writes back what is still the record (`LiveFresh`,
`CatchFresh`, `RecoveryKnows`). The condition `used.write = 0` is the code's: a request
that saves an old copy of the column undoes it (section 7).
`EventsArriveOnce`: `OnceAndInOrder` of `WebSocketFanout`, for any sockets, emitters and events.
An emitter at a position has sent its event to no socket at that position or behind it
(`FanoutInv`); a removal moves sockets to the front only, past the iteration, and `list.remove`
keeps their order (`Left`).

**ConversationRunsProofs** (any senders, messages, Runs; `ConversationAssumption`; the kinds of
day are constants). `TypeCorrect`. `OneRunAtATime`, unless the conversation is deleted: the
parts of a start between the check under the lock and the launch are done by the holder of the
one lock (`TurnInv`). `RunIsShown`, `OneRunShown` where nobody cancels either: who has a row has
been recorded before, and the record is changed by the projection of its verdict only
(`ShownInv`). `ServedOnceIfSentOnce`, `AtMostOnce` where no two requests send one message, on
every day: a message is in one place only - with its request, in the queue, with the task that
starts it, or with its Run (`OnePlace`). `ServedOnceIfSentAgain`, the same for repeated
messages: who starts an input looks at the queue, the Run and the records while it has the
lock, and no record of a Run is lost (`OnceInv`). `NoInputStrands`, `QueueServed`: a queue is
only filled while a Run is followed, and the end of that Run takes its head (`QueueInv`).
`InputsAreServedOnce` is both on an ordinary day. The excluded days are those on which the code
does otherwise; items 11 to 16 of section 7 are their counterexamples. One day is excluded for
want of a proof: that a message sent again is served once although the process restarts in
between holds in `conv_turns`, but rests on the order in which requests wait for the lock,
which the invariants do not follow.

**TeamCollaborationProofs** (any team, users and budgets, a journal that may fail).
`InboxesMirrorJournal`, `BudgetsAreHeld`, `StatusesMoveOn`, `NothingIsLeftBehind`.
`TeamInv` rests on the sequence lock: its queue holds exactly those who want something, once
each (`Queued`), and each of them has checked what it checked *before* it asked, so the
invariant says what still holds when its turn comes: agents act only while the main task
gathers (`AgentsAct`), messages are interrupted when nobody is left who could settle them
(`InterruptedLast`), and while the completion waits, whoever is ahead of it brings a message
(`Preparing`). The kernel's count of messages is that of the journal, or every later append
raises (`Budgets`); that is why the budget holds also after a commit the kernel never heard
of. The last theorem has two conditions, in `NothingLeftBehind` itself, and both are the
code's: after a call of the journal has raised (`raised`) the interruption may have failed,
and a rejection event ahead of the completion in the queue is answered without a message
(`Rejecting`).

**RunKernelProofs** (any actors, callers, policies, deadlines, journals;
`KernelAssumption`: tasks have names of their own). `EndingsAreTrue`: `EndsInTruth`;
`KernelImplementsOutcome`: `ImplementsOutcome`; also `VerdictsAreDurable` and
`CompletionLeavesNoWork`. Two invariants. `KernelInv` holds
whatever the journal does, also with calls that come before the row and commits that raise:
only the completion task completes a Run, it is spawned when every actor has ended and none
starts again (`Completing`, `Starting`); who is about to tell a success has it in its row,
and who takes the fallback says failed (`Recorded`); a snapshot of the scope's version is
what the scope holds (`Contexts`), by way of what one call of the store may do (`StoreCall`,
`StepIsStoreCall`). `AnswersInv` adds what holds on a journal that answers: at most one task
is between two awaits and the store's calls are there, so nobody ever waits for the sequence
lock (`Alone`, `SequenceLock`); before the row exists no actor has started, and a call raises
only for want of it, when `cancel()` made it (`Beginning`, `RaisesForWantOfRow`); the
kernel's state is that of the row, and who still may write knows that it is open (`Agreed`);
a Run that `cancel()` has failed before it had a row fails in it too, for its first event is
refused (`Doomed`); whoever ends the Run has revoked the lease or seen every actor end,
so no ordinary event is on its way (`Stillness`); each step writes at most one entry, which
takes the log's next number and an unused identifier (`Logs`, `LogStep`, `NextEnvelope`).
For the refinement, a call of the store decides the row at most once (`RowIsDecidedOnce`) and
only `FinishLocally` and `Resolved` tell (`OnlyVerdictsAreTold`): a resolution announces the
row or tells of a failure, a local finish tells of a failure, and with a journal that may
raise after its commit it may decide the row in the same step (`Lose`).
Section 3 says why `OneEnding` needs its condition.
`EndingsAreEarned`: `EndingsEarned`, that a completed Run has no actor left and that only a
caller's cancellation ends a Run as cancelled, where nobody cancels, or where the journal
answers, executors do not raise and nobody calls `fail()` (`Orderly`). A `cancel()` that comes
while the main task ends the Run for another reason takes it out of its handler and ends the Run
itself, so the invariant follows who set the scope first (`Reasons`, `OwnReason`), where the main
task may be meanwhile (`Paths`) and who is in time to write (`Times`). Each part of `Orderly` is
needed: TLC shows a Run that fails for its own reason and is cancelled in its row with a raising
executor, a caller of `fail()`, a journal that suspends, and one that raises (item 6).

## 6. What is only model-checked

`RunStoreDesktop`, whose steps go between the transactions of `RunStore`, on the instances
above. `SqliteOutboxFollowsTerminal` and `KernelEndsInTruth` are the properties proved of
`RunStore` (`OutboxIsExact`) and `RunKernel` (`EndingsAreTrue`) in the settings of one run.
All liveness: fairness and ENABLED are out of the prover's reach.
No recursive operator is used, and in modules with proofs no `SelectSeq`: its defining facts
are not available to the provers, so `RunKernel!Leave` removes a waiter with `SubSeq`. The
induction over numbers that two lemmas need is the well-foundedness of `<` on Nat.

## 7. Where the code and its documents disagree

Two are kept as runs with `expect: violation`:

1. `cancel_with_sink` (`CancelReturns`, engine.py:610). `cancel()` cancels the main task
   while it publishes the terminal event to a sink: the result is never set and
   `cancel()` waits for ever. invariants.md:53.
2. `conv_queue` (`QueuedInputStarts`, crm:654). A queued input, taken for its turn,
   loses the race against a new send and is dropped. docs/runtime/current-state.md:30.

The others are shown by a change of a `.cfg`. Items 3 to 10 start from
`MCRunKernelCancelSink.cfg`, checked with `RunKernel`; items 11 to 16 from
`MCConversationQueue.cfg`, checked with `MCConversationRuns`. "No sink" is
`HasSink = FALSE`, "no canceller" `Cancels = FALSE`, and so on.

3. A deadline cancels the main task while it ends the Run in an `except` clause: the Run
   is never decided (engine.py:1043; `JournalDecided`, no sink, no canceller,
   `AgentErrors`, `WatchdogFires`). invariants.md:8.
4. Two callers of `fail()` leave the Run undecided and both waiting (engine.py:631;
   `ResultArrives`, `FailCallers = {"f1", "f2"}`, no sink, no canceller).
5. A call between `start()` and the first step can end the Run locally; the main task
   then sets the state back to running (engine.py:651; `KernelStateFinal`, `EarlyCalls`,
   no sink). invariants.md:8.
6. After an interrupted failure a later `cancel()` records the failed Run as cancelled
   (engine.py:619; `CancelledByCaller`, `AgentErrors`, `WatchdogFires`). invariants.md:10.
7. A deadline interrupts an append that has committed: the counter is behind, the
   terminal event conflicts, the row stays open (engine.py:1099; `JournalDecided`,
   `SuspendingJournal`, `WatchdogFires`, no sink, no canceller).
8. A cancellation that arrives while `_finish` awaits the database is logged after the
   terminal event (engine.py:586; `NothingAfterTerminal`, `SuspendingJournal`, no sink).
   invariants.md:11.
9. A completion that commits and then raises leaves the result unset: the fallback finds
   the row terminal and returns (engine.py:1214; `ResultArrives`, `SuspendingJournal`,
   `StoreFaults = {"ambiguous"}`, no sink, no canceller).
10. A post appended after `interrupt_run` stays pending (engine.py:1120;
    `AllMessagesSettled` in `MCTeamCollaboration.cfg`), and a post accepted behind a
    refused one is lost when the Run completes (engine.py:399; `CompletedIsDelivered` in
    the same). invariants.md:49, engine.py:299.
11. Injected messages are in no record and are forgotten when the Run ends, so a repeated
    one starts a second Run, against "message-level idempotency" (crm:437, 653;
    `AtMostOnce`, `Collaborative`, `MessageOf <- MCRetry`).
12. An injection that raises after the Run has ended queues its input with nobody to take
    it (crm:489; `QueueServed`, `Collaborative`). Likewise the rest of the queue when a
    store fault stops the start of its first input (crm:1025; `QueueServed`, `Faults`).
13. `cancel_generation` takes no lock. Between the record and the launch of a Run it marks
    the record cancelled while the Run starts (crm:552-567; `LiveRunShown`, `Cancels`), or
    closes the row of a Run that has just started, whose kernel then never gets a verdict
    (`BecomesIdle`, `Cancels`, two senders).
14. Deletion drops the lock: a send that waited for it and one that comes later may each
    start a Run (crm:686; `OneActiveRun`, and `AtMostOnce` with `MessageOf <- MCRetry`;
    `Closes`).
15. `active_run_id` is read before the lock: a request may recover a Run that has ended
    since, and clear the queue (crm:585, 617).
16. The same old reading is written back when it names a Run without a row: the records of
    Runs made meanwhile are erased, and a repeated message of theirs runs again
    (generation_records.py:250-264, crm:602; `AtMostOnce`, `Faults`, `MessageOf <- MCFour`
    and four senders, all in `Direct`).

The rest add a property to the `.cfg` of a passing run:

17. The server accepts a connection before it registers it, and a replay may overlap: an
    event can reach nobody, and the browser asks only when a connection opens
    (websocket.py:92, message.ts:731-736, 805; `AllShown` in `MCDelivery.cfg`).
    docs/runtime/current-state.md:32.
18. A request that saves a strategy writes the whole column from an old reading and takes
    back a completed record, which recovery then turns into failed (scheduling.py:97;
    `TruthShown` in `MCDelivery.cfg`). docs/agent-workflow-runtime.md:50.
19. Fan-out: removing a socket that is gone already raises and ends the projector of a
    live Run (events/__init__.py:234; `PublishersSurvive`); a socket unregistered
    during a send makes the next one miss the event (227; `NobodySkipped`), both in
    `MCDelivery.cfg`. events/__init__.py:176-177.
20. On desktop SQLite a context commit is no compare-and-swap once the scope has a row
    (runtime_store.py:37; `ContextIsCas` in `MCRunStore.cfg` with `OneAtATime = FALSE`,
    `MaxSequence = 1`, all three Runs in `s1` and `r3` allowed in `DesktopBound`).
    invariants.md:27.
21. Contention for the migration gate is reported as an open session and leaves an empty
    session behind (session_lock.py:42; `BusyIsTrue` in `MCLocalHost.cfg`).
    docs/cli.md:207.
22. A record derived from a memory can be adopted again after it was forgotten, when that
    memory was disabled and enabled (memory.py:437; `MemorySourceForgotten` in
    `MCSQLiteMemory.cfg`, with one revision more in `ReviewBound`). docs/cli.md:176.
23. Settings saved while a canvas is executed are lost (runtime.py:46; `SettingsKept` in
    `MCWorkflow.cfg`); so are events written before a retry is noted (workflows/engine.py:331;
    `EventsKept`).
24. When a publication raises, the other nodes of the level go on after the run has
    failed, and a completed run turns failed (workflows/engine.py:96; `NothingAfterEnd`,
    `CompletedStays`). docs/architecture/subsystems.md:195.
25. Nodes behind a branch not taken run (workflows/engine.py:429; `BranchesEnd`).
26. In the Kernel's walk a condition with successors of two agents runs both
    (scheduler.py:153; `OneBranch`), and successors that share an agent are marked
    running and never assigned, as is one node with two edges to it (scheduler.py:365;
    `StartedIsAsked`), in `MCWorkflow.cfg`.
27. A Run that is stopped while the end of an answered model phase is being written counts
    neither the answer's tokens nor marks that some are missing (activity.py:26;
    `TokensAccounted` without `~SuspendingEmits`, in `MCLocalHost.cfg` with
    `SuspendingEmits = TRUE`).
    docs/architecture/harness-releases.md:55.
28. Seen by running the loop, not in a model: a streamed message whose last answer shows
    only a status report gets no `message_stop` (agent_loop.py:839-990).
    docs/event-protocol.md:25.

## 8. Not modelled, and why

- SQLite resources and tasks, adapter isolation, mailboxes, dispatcher, stepper: planned.
- The replanner; scheduling policies other than those named, which appear in `RunKernel`
  as free proposals.
- Data that decides nothing here: message contents, redaction, previews, usage figures,
  formats.
- Two backend processes serving one conversation: the manager is a singleton of one
  process (docs/runtime/current-state.md:30 says its queue is too).
- A sink, store or executor that never answers (see Fairness).
- Tools, permissions: sequential data transformations. Process and file
  control, model providers, deployments, worktrees, documents, skills, MCP, external
  agents, user interfaces, scripts: I/O and calls of services.
