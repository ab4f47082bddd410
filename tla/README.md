# A TLA+ model of Clankcord

Clankcord is a Discord voice assistant written in Rust (`src/clankcord`): it
records rooms, transcribes them, listens for its wake word, and runs agent turns
that answer in threads. Everything it does is a *durable job*: a row in Postgres
with a kind, a state, an ordering key and edges to the jobs it waits for. The
rooms, sessions, confirmations and transcription slots of the single domains are
moved forward by the handlers of those jobs. This directory holds the TLA+
modules that model it, the TLC configurations that check them, and the proofs
TLAPS checks.

    tlc -workers 2 -config engine_guards.cfg MCJobEngine     # a run
    tlapm JobEngineProofs.tla                                # the proofs of a module

Paths below are relative to `src/clankcord/src`: `core/`, `domain/`, `jobs/` and
`automations/` lie in its `runtime/`, `store/` is `runtime/timeline/store/`.

## The system

| Component | State it keeps | Operations | What is hard about it | Model |
|---|---|---|---|---|
| Job store (`store/jobs.rs`, `jobs/record.rs`) | job rows, edges, outcome ledger | create, create child, update, claim, resolve, collect | every update writes a whole row that was read in an earlier transaction | `JobEngine` |
| Scheduler and dispatcher (`core/execution`) | permits by lane, workers | drain pass, claim by ordering key, apply a decision | keys are read before the claim; two drains may run at once; writes fail | `JobEngine` |
| Runtime service (`service.rs`) | intake queue, the loop's stored notification | submit, dispatch loop, shutdown, restart | sleeping at the right time; what a restart leaves behind | `JobEngine`, in part |
| Maintenance (`domain/maintenance`) | the self-renewing maintenance job | stale sweep, retries of failed audio, collection | a late worker meets a swept row | `JobEngine`, `TranscriptionMux` |
| Agent tasks (`domain/interactions/tasks.rs`) | the task's metadata on its row | typing start, Codex, typing stop, outcome, recovery | a turn spans several executions of one row, three attempts and restarts | `AgentTurn` |
| Text delivery (`domain/messaging`) | thread and send children | resolve the thread, create it, send, repair | several deliveries share one session's thread; Discord loses threads | `TextDelivery` |
| Agent sessions (`domain/interactions/agent_sessions.rs`) | the session that serves a route | start, resume, sunset, retire | jobs that wait hold no key; rows are written as they were read | `AgentSession` |
| Confirmations (`domain/interactions/confirmations.rs`) | the confirmation row, its card and command | post the card, approve, cancel | approval, cancellation and the posting job race on one row | `Confirmation` |
| Transcription multiplexer (`store/transcription.rs`) | slots, plan and mux jobs | create slot, plan, start, complete, fail, recover | a bounded number of provider streams; late results; lost planning | `TranscriptionMux` |
| Wake activations (`domain/voice_capture/wake_activations.rs`) | the activation window on its row | schedule, amend, replace, defer, dispatch | amended while it executes; waits for audio that moves from place to place | `WakeActivation` |
| Room placement and voice sync (`domain/voice`, `domain/rooms`, `store/voice_state.rs`) | assignments, bot rows, controls | join, leave, reconcile | the snapshot is older than the command | `RoomPlacement` |
| Live voice adapter (`adapters/discord/voice`) | clients, capture sessions, buffers | join, leave, flush, capture | gateway events against jobs; buffers against ticks | `VoiceAdapter`, `SpeechCapture` |
| Automations (`automations`) | rules and their firing state | create, cancel, evaluate | a pass works on copies and saves them whole | `Automations` |
| Schema and migrations (`runtime/timeline/schema.rs`, `runtime/timeline/migrations`) | the ledger of migrations, the schema, every stored row | create tables, migrate, create indexes, compare, refuse | twelve readers of old blobs over rows of any age; a start may end anywhere | `Migrations` |
| Timeline events and views, CLI, configuration, HTTP, dashboard | append-only or none | read, render, parse | I/O and formatting | not modelled |

Calls go one way: adapters submit jobs to the intake; the loop drains; workers run
handlers, which read and write the store and emit children; a settled child lets
the resolver wake its parent. Shared state is the database; the only callbacks are
the loop's notification and the release of permits.

## Modules

| Component module | Abstract module | Proofs | TLC instance |
|---|---|---|---|
| `JobEngine` (with `JobKinds`: kinds, states, lanes) | `JobContract` | `JobEngineInv` (invariant), `JobEngineProofs` | `MCJobEngine` |
| `Confirmation` | | `StoreProofs` | `MCConfirmation` |
| `Automations` | | `StoreProofs` | `MCAutomations` |
| `TranscriptionMux` (with `MuxBatch`: what fits in one call) | | `TranscriptionMuxProofs` | `MCTranscriptionMux` |
| `AgentTurn`, which extends `TextDelivery` | | `AgentTurnProofs` | `MCAgentTurn` |
| `AgentSession` | `RouteContract` | `AgentSessionProofs` | `MCAgentSession` |
| `RoomPlacement`, which extends `VoiceAdapter` | | `RoomPlacementProofs` | `MCRoomPlacement` |
| `SpeechCapture` | | `SpeechCaptureProofs` | `MCSpeechCapture` |
| `WakeActivation` | | `WakeActivationProofs` | `MCWakeActivation` |
| `Migrations` (with `JobBlobs`: the layouts of a job's blob and their readers) | | `StoreProofs` | `MCMigrations` |

`JobEngine` models rows, claims and permits for jobs of any kind. The modules of
single domains keep of the engine what acts on their own rows: the claim, the
resolver, the sweep, a restart, a lost write. `StoreProofs` holds the proofs about
three modules, which is why `Confirmation` and `Migrations` carry their names in their
standard definitions (`ConfirmationInit`, `MigrationNext`).

Everywhere one action is one database transaction, one step of an in-memory
structure under its lock, or one call outside. A handler's read of a row and the
later write of it are two actions whenever something can come between, with the row
kept in the worker's record, because that is where the code's races are:
`update_job` writes the row it is given, not a change to it.

### JobEngine

| Code | Model |
|---|---|
| `jobs` row: state, `next_run_at`, attempts, the cancel flag | `row[j]` |
| order of `created_at` | `created` |
| `job_dependencies` | `deps` |
| `operational_job_outcomes`, and which rows already have one at their `updated_at` | `outcomes`, `logged` |
| `updated_at` older than the stale timeout | `aged` |
| semaphore permits and spawned tasks | `worker[s].pc`: free, held, run, put / children, done |
| one `drain_ready_jobs` in progress | `drain[d]` |
| tokio `Notify`'s stored permit | `notified` |
| `upsert_job_rows` | `Upsert` (writes whole rows, records first terminal states) |
| `create_child_job` | `InsertChild` (child, edge and the parent as the caller saw it, waiting) |
| `fail_stale_running_jobs` | `SweepRead`, `SweepPut` |
| `resolve_waiting_jobs` | `ResolveSelect`, `ResolveRead`, `ResolvePut` |
| `due_job_kinds`, `schedule_policy`, `claim_due_jobs` | `FindDueKinds`, `TakePermits`, `Claim` |
| `dispatch_claimed_*`, `apply_job_decision` | `Decide`, `Put`, `PutChild` |
| a worker that ends: drop the permit, notify | `Release` |
| the dispatch loop | `EndOfPass`, `LookAhead`, `LookupFails`, `Notified`, `TimerFires` |
| `retry_job_payload`, `cancel_job_tree` | `RetryJob`, `CancelTree`, then one `RequestPut` per row |
| stop and start of the process, `recover_interrupted_agent_tasks` | `Restart` |

What a handler computes is a choice (`Decisions`): complete, fail, wait, emit its
next children, or ask for a retry. `Inline` names jobs whose handler inserts a child
itself before it returns, as a wake activation does. Simplifications: time is the two
flags `delay` and `aged`; ids are fresh, so that a child is emitted once; the two
reads of `resolve_waiting_jobs` that precede its write are one step; a lost write is
one of a worker's, and of a drain's own reads and writes only the look at the next
ready time fails; the limit on the passes of
one drain is left out because the loop starts the next drain at once. `JobContract`
is what callers may rely on: a key is taken when free and kept as long as promised,
a parent goes on when its children have settled, nothing settles twice.

### Confirmation

| Code | Model |
|---|---|
| the confirmation's row | `row`, one of `JobState` |
| its cards, and the commands that approvals create | `child[c]` |
| executions of `prepare_confirmation_required_job` | `worker[s]`, with what it read and what it plans |
| `approve_confirmation`, `cancel_confirmation` as `runtime_control` jobs | `control[c]`, one step per transaction |
| `create_command_job` after an approval | `DispatchCommand`, `DispatchError`, `RecordError` |
| `resolve_waiting_jobs` on this row | `ResolveRead`, `ResolvePut` |

The handler decides from its children (`Plans`) and every write reads the row again
first, in a transaction of its own (`Read`, `Rewrite`, `SendCard`). Who may decide is
`Requester`. The wording of cards and which command is confirmed are left out.

### TranscriptionMux

| Code | Model |
|---|---|
| `audio_segment` row, and how far its handler is | `audio[s]` |
| `transcription_slots` row: state, `mux_job_id`, `requires_single_slot`, `priority` | `slot[s]` |
| order of `created_at_ms` | `created` |
| speech events of a segment | `events[s]` |
| the `transcription_mux_plan` row of the source | `plan` |
| `plan_transcription_mux_jobs` | `ClaimPlan`, `PlanCount` (streams), `PlanCommit` (batches), `PlanDone` |
| `select_fair_mux_batch` | `Batch` |
| `transcription_mux` rows and executions | `mux[m]`, `muxer[m]` |
| `execute_transcription_mux_job` | `Start`, `Call`, `Assign`, `AppendEvent`, `Record`, `EnsureMux`, `HurryMux` |
| `ensure_transcription_mux_plan_job` | `Ensured`, and `MustHurry` for the row that it writes back later |
| `promote_transcription_slots_for_wake_activation` | `Wake`, `HurryWake` |
| `prepare_runtime_maintenance_job` with the stale sweep | `Maintain` |

Simplifications. Reading the active plan job and creating one are one step: two
callers may create two plan jobs, which their ordering key runs one after the other.
The transactions of a maintenance pass are one step, and its limit on retried
failures is left out. Whether waiting slots would be late is a free choice, and so is
whether an error is retryable. The batch delay is a flag, and a delayed job may be
claimed at any time. The wake activation opens once. A settled row of a mux job is
`none` once no slot refers to it, and the fields of a settled slot are forgotten. The
sweep finds only rows without a worker: its timeout is 30 minutes, a provider call
has one of its own. Which words fall to which slot is not modelled, only whether a
slot gets any.

### AgentTurn and TextDelivery

| Code | Model |
|---|---|
| the task's row and `AgentTaskMetadata` | `row` |
| typing children of the attempts (`discord_typing_indicator`) | `start[a]`, `stop[a]` |
| `dispatch_claimed_agent_task_job` and what it calls | `stage` with `StartTyping`, `CheckTask`, `PreflightFails`, `StartCodex`, `SubmitText`, `CodexReturns`, `Finishing`, `StopFailed`, `FinishOutcome`, `FinishError` |
| `complete_`, `wait_`, `fail_dispatched_job` | `Settle`, `WaitAs`, `PutBack` |
| `cancel_job_tree` on the task | `Cancel` |
| `recover_interrupted_agent_tasks` | `Restart` |
| `text_delivery` rows | `delivery[d]`, `target` (the session's thread), `made`, `dead` |
| `prepare_text_delivery_job`, `resolve_agent_session_target` | `HandleDelivery`, split into `SendToSession`, `SendToCreated`, `AskForThread`, `Repaired`, `Settle` |
| forum-thread and send children | `CreateSettles`, `SendSettles` |

The engine is reduced to claiming, waking and settling children; its own races are
`JobEngine`'s subject, so that a handler's last read and the write that follows are
one step. The check before the preflight and the start of Codex after it are two:
`copy` is the row as the first has read it and the second writes it back. `cancelled`
is a history variable. The prompt, the chunking of a message and thread titles are left out.

### AgentSession

| Code | Model |
|---|---|
| `agent_sessions` rows | `sessions[s]` |
| a command, start, resume, thread-message or sunset job, and what it becomes | `requests[q]`, with the session and thread it read |
| `job_ordering_key`, `active_ordering_keys` | `Keyed`, `KeyHeld` |
| `agent_session_start_or_task_job`, `ensure_dm_agent_session` | `ClaimSelection`: `UseActive`, `JoinStarting`, `NewStarting`, `BecomeStart`, `NewDm` |
| `prepare_agent_session_start_job`, `_resume_job`, `_sunset_job` | `Start`; `ClaimResume`, `LookUp`, `TakeOver`, `WriteResume`; `Sunset` |
| `discord_text`, `touch_agent_session`, `set_agent_session_codex_session` | `ThreadMessage`, `Touch`, `CreateTask`; `TaskAnswers`, `TaskSettles` |
| `retire_due_agent_sessions` | `RetirementPass` |
| `upsert_agent_session` of a row that was read before | `writes`, `WriteBack` |
| deadlines, ended captures, threads found and lost by a delivery | `Expire`, `CaptureEnds`, `GetThread`, `LoseThread` |

Every read of a session and the write of the whole row that follows are two steps;
`writes[a]` is what actor `a` (a request, the retirement pass, a text delivery) has
read and is about to write back. `disputed` is a history variable: the routes on which
such a write has put back a session that had left. `mark_agent_session_failed` is left
out, since a start job has no children but agent tasks.

`RouteContract` is the promise: a route is served by one session or by nobody, and
goes from one to another only by way of nobody, until a session returns to it that
had left.

### RoomPlacement and VoiceAdapter

| Code | Model |
|---|---|
| `voice_assignments` and `capture_runs`, `capture_sessions`, `bot_states` rows | `assign`, `place`, `row`, `botRow` |
| the adapter's session map and clients, Discord's own view | `live`, `audio`, `client`, `voice` |
| `join_assigned_room`, `mark_join_failed` | `JoinStart`, `JoinRefused`, `JoinEnd`, `JoinFailed` |
| `leave_voice_channel`, `finish_session`, `orphan_voice_client_handles` | `LeaveSession`, `LeaveOrphan`, `LeaveNothing`, `LeaveEnd`, `LeaveFailed` |
| gateway events, pending disconnects | `VoiceStateEvent`, `Disconnected`, `PendingExpires` |
| `flush_ready_buffers`, `persist_capture_session_status` | `FlushRead`, `FlushWrite` |
| `voice_status_snapshot`, `sync_voice_adapter_status` | `SnapshotClaimed`, `SnapshotTaken`, `Sync` |
| `room_agent_placement` jobs | `join[r]`, `leave[r]`: `PrepareJoin`, `Claim`, `CommitJoin`, `JoinSucceeded`, `CuePlayed`, `JoinGivenUp`, `PrepareLeave`, `CommitLeave`, `LeaveGivenUp` |
| the room-agents automation | `Evaluate` with `JoinWanted`, `LeaveWanted`, `Orphans`, `Duplicates` |
| `room_controls` | `control[r]` |

### SpeechCapture

| Code | Model |
|---|---|
| `SpeakerBuffer` | `buffers[u]`, PCM by its length |
| `ssrc_users`, the session's mode | `streams`, `mode` |
| `write_voice_tick` (under the session's mutex) | `VoiceTick`, then `WritePacket`, `WriteSilence`, `TickEnd` |
| `handle_pcm_packet`, `ingest_stt_pcm` | `Hear`, `Ingest` with `Prerolled`, `Opened`, `Gated`, `Appended` |
| `flush_ready_buffers`, `finish`, `set_deafened` | `FlushReady`, `Finish`, `Deafen`, `Undeafen` |
| wake probes | `ProbeDue`, `Probed` |

`heard` and `last` are history variables: what a user said, computed from the packets
alone, and the last segment. Times are frames of 20 ms.

### WakeActivation

| Code | Model |
|---|---|
| `wake_activation` rows and their payload | `rows[j]` (`first`, `latest`, `heard`, `due`) |
| `record_wake_activation_progress` | `progress[j]` |
| `window_closed` events, and the task an activation creates | `closings[w]`, `tasks[w]` |
| `schedule_from_wake_event`, read by read and write by write | `wakes[w].stage`: `Hear`, `Look`, `Choose`, `Inspect`, then `Create`, or `Clear` and `Amend`, or `CancelTree`, `CancelRoot` and `Replace` |
| a stretch of speech: in the adapter, an `audio_segment` job, a slot, a timeline event | `speech[s].stage` |
| `execute` for `wake_activation` | `worker[k].stage`: `Open`, `Rediscover`, `WaitForDue`, `WaitForSpeaker`, `EndWindow`, `Close`, `Record` |
| `dispatch_after_request_audio`, `room_transcription_settlement` | `ReadLive`, `ReadSlots`, `ReadJobs`, `WaitForTranscription`, `Dispatch`, `NoRequest` |
| `complete_dispatched_job`, `fail_dispatched_job` | `Reread`, then `Finish` with the row that was read |
| the sweep, a crash | `Sweep`, `Crash` |

`raced`, `crowded` and `slipped` are history variables: the rows rewritten under a
handler or another wake, the wakes whose row was claimed between a handler's last read
and write of it, and the segments that became a slot after the slots had been read.
What a settled row's outcome was, cues, the promotion of slots, the look back of a
probe and the text of the request are left out; wakes are numbered in the order in
which they are heard.

### Automations

| Code | Model |
|---|---|
| `automations` rows | `records[a]` |
| `timeline_events` of the scope | `log` |
| `create_automation`, `cancel_automation`, in their transactions | `requests[a]`, `cancels[a]`: `FindByKey`, `SourceTaken`, `Insert`, `BeginCancel`, `Cancel` |
| `run_stored_automations` | `pass`, `held`: `Begin`, `Expire`, `Load`, `Judge`, `LeaveAlone`, `Postpone`, `Recheck`, `Fire`, `Emit`, `End`, `BreakOff` |

Whether a condition matches is open, and a fire stands for all the jobs of its
actions. The passes do not overlap: their jobs share the ordering key of maintenance.

### Migrations and JobBlobs

| Code | Model |
|---|---|
| a job's payload blob: its envelope, what its body is made of | `Blob`: `envelope`, `payload`, `parts`, and the parts in an `old` layout |
| `Job::encode`, `Job::decode`, the readers of the migrations | `Encode`, `Decode`, `FromPreV0_2_0` to `FromPreV0_10_0` |
| `clankcord_schema_migrations` | `ledger`; `Durable` is its highest version |
| tables, columns and indexes that versions differ in | `schema`, and `legacy` for the tables with `voice_channel_id` |
| rows of jobs, outcomes, events, sessions, automations | `jobs`, `outcomes`, `events`, `sessions`, `automations` |
| `initialize` | `Start` (with `create_tables`), the migrations, `CreateIndexes`, `AssertSchema` |
| a migration: its transaction and its row in the ledger | `V0_2_0` to `V0_13_0`, each an instance of `Applies(n)` |
| a migration that bails | `Refuse`, for what `Refuses(n)` finds |
| the program ends, at any point | `Stop` |

A body is bincode, which names no fields: a reader understands it only if each of its
parts has the layout the reader was built with, where a reader built from today's
types expects today's layouts, whatever its name says. `FormedIn` gives the version
that first wrote a part as it is now. One kind stands for all kinds with the same
parts. Bytes of one layout are taken not to read as another, unless the two are alike:
the number of a payload's kind in the enum is such a part, and `Next1` names the kinds
that are laid out like the one before them. `MigrationInit` is a database as any
version left it, an empty one, or one that a newer program has migrated; `left` keeps
it as history. A start runs alone; a crash inside a migration is a `Stop` before it,
since its transaction rolls back.

## Runs

`rooms` and `automations` are checked for deadlock. The other configurations set
`CHECK_DEADLOCK FALSE`: with all jobs settled, no timer and no arrivals left, a
sleeping loop is where the program rests. All runs pass but `migrations_refused`, in
which TLC finds the one property violated.

| Run | Instance | What it shows |
|---|---|---|
| `engine_guards` | two scenarios: two turns of one session, their typing children, two agent permits, lost writes, one restart; and a wake activation with an inline child, two drains, one failed lookup, one retry or cancellation | `KeyExclusion`, `OneTurnPerSession`, and `KeepsContract`: the engine, left alone, implements `JobContract`, in which nothing settled is written again; `NoLostWakeup` |
| `engine_settles` | a command, its placement and join; a status sync with its snapshot, and the collector; a retried segment; lost writes, time-outs, one restart | `WaitingHasChild`, `ChildrenSettleFirst`, `CompleteMeansChildrenComplete`, and under fairness `EveryJobSettles` |
| `confirmation_contested` | an approval and a cancellation by the requester, two executions of the handler, two cards, one restart | `PendingIsPosted`, and under fairness `ComesToRest` |
| `capture` | two segments, one mux job and stream, one planner, a wake activation, one fault | `WorkersHoldTheirSlots`, `OneEventPerSegment`, and under fairness `SpeechSettles` |
| `turn` | one task with two attempts, two deliveries, an old thread Discord may lose, two that can be made, one restart | `AnswerSurvivesFailure`, `CancelIsKept`, `OneConversation`, `AnsweredNotRerun`, and under fairness `TurnSettles` |
| `sessions` | three sessions (one from before), two voice channels, one DM, two requests, one delivery, one event from outside; rows written back late | `OneSelectablePerRoute`, `OnlyResumeRevives`, `RoutesKeepContract`, and under fairness `RequestsSettle`, `DueSessionsRetire` |
| `rooms` | one room, one bot, one capture, two events from outside | `AudioOnce`, and under fairness `LeaveHonoured`, `CapturesClose`, `OrphansLeave` |
| `speech` | one speaker with two devices, nine ticks | `SpeechKept`, `SegmentsInOrder`, and under fairness `SpeechIsRecorded` |
| `wake` | two wakes and two stretches of speech of one speaker, two workers, one crash | `ClosedOnce`, `LaterWakeIsHeardOut`, `RequestIsWhole`, and under fairness `EveryWakeIsAnswered` |
| `automations` | a rule that hears its own fires, one with a delayed recheck, one by the clock; two events, one broken-off pass | `WithinBudget`, `OneActivePerSource`, and under fairness `EveryTriggerIsAnswered` |
| `migrations` | a database of each version with at most one job, event, session and automation, of every kind and state; two starts, ended anywhere | `RunningIsSettled`, `SoundRowsAreTaken` |
| `migrations_refused` | the same | that `WakesAreTerminalized`, as the documentation says of 0.12.0, is violated: see the known limits |

### Bounds, and why they are enough

* Engine. Four jobs are two levels of children and two jobs that compete for one key;
  two permits of a lane are what exclusion needs to fail; one restart reaches every
  row state with its worker gone; one administrative request reaches every
  interleaving of its read and its writes with the drains and the workers.
  `OneScenario` gives a behaviour of `engine_settles` the jobs of one scenario: they
  share no key, edge or lane. `Tick` is the maintenance timer.
* Confirmation and capture. Two decisions are what a race needs, and a second card is
  what a handler may post too many. Two segments are the smallest batch that can be
  split, shared or sent back slot by slot, and the single mux job is taken up again
  after each that settled: a recovery, a retry or a plan may then meet a worker that
  is still sending. That two workers never share a recording is the theorem
  `NoSlotSentTwiceAtOnce`, for any number of mux jobs, streams and planners. A fault is
  a retryable provider error, a failed transaction, a lost write or a restart, and one
  reaches every place at which a batch can be left. `Apart` gives a behaviour the wake
  activation or the fault; neither is under fairness, so that nothing fair is cut off.
* Turn. Two attempts are a failed one and its retry; two deliveries are what it takes
  to speak in two places.
* Sessions and rooms. Two requests race for a route, and a third session is one more
  than a route may have. `MaxEvents` counts everything the world does on its own.
  Rooms, bots and captures are only related by a claim; what two captures could do to
  one another is left to the proof of `AudioOnce`.
* Speech. The thresholds are small numbers in the order of the real ones; six ticks of
  packets are one segment that is cut for its length, or one by silence and another.
* Wake. Two wakes amend, replace or follow one another, the second stretch of speech
  is what a window may miss, and two workers are what it takes to claim a row before
  the handler that deferred it has written it back. `Prompt` keeps the clock from
  running ahead of the runtime; `Brief` makes the second stretch short, begin when the
  first is transcribed, and meet neither the second wake nor the crash; `Untimely` has
  the crash catch a handler at work; of idle workers the first claims (`InTurn`); and
  two handlers at once, or one whose last write comes in a later tick than its claim,
  meet neither speech nor a crash (`Alone`). The theorems have none of these bounds.
* Automations. `Few`: two of the three rules are submitted and one is cancelled, and
  nothing comes from outside in the last tick, in which the clock stands and passes
  may still run.
* Migrations. A migration treats each row by itself, but for an event, which looks at
  its job: one of each is what a start can be refused for, and what can be left
  unfit. Two starts are one that breaks off and one that goes on; the theorems hold
  for any number of rows and starts.

### Fairness, and why the code justifies it

Handlers return because adapters run under time-outs; a worker that is lost is aged
and swept; transactions end; tokio runs every spawned task and timer; `next_run_at`
and time-outs pass. So each module takes weak fairness of its workers, its resolver
and its clock, and no fairness of arrivals, requests, speakers, providers, Discord,
`/v1/jobs/run-due` or restarts. Beyond that:

* `TranscriptionMux`: maintenance passes come again (weak fairness of
  `Maintain(FALSE)`; the maintenance job renews itself), and a row nobody works on is
  old at some later pass (strong fairness of `Maintain(TRUE)`: other rows may be swept
  in between).
* `RoomPlacement`: strong fairness of `Evaluate`, since a sync or a job may make it
  idle between two passes, but every pass evaluates every room.
* `ComesToRest` excepts that executions overlap again and again: with two permits TLC
  finds executions that chase one another without end.
* `EveryWakeIsAnswered` excepts a row asked to stop that nobody works on any more,
  left by a crash or written when its handler had gone, and two handlers that go on for
  ever to write one row back under each other; `TurnSettles` excepts a task asked to
  stop when the process stopped: see the known limits.

## Proofs

Every safety invariant and every action property that a run checks is a theorem, and
so are the refinements of `JobContract` and `RouteContract`. The theorems hold for all
values of the constants that satisfy the modules' named assumptions: any number of
jobs, permits, sessions, rooms, wakes, segments, faults and restarts. A theorem about
the same invariant that TLC checks names it; the inductive invariants behind them were
checked by TLC on the runs' instances first.

| Module | Theorems (property) |
|---|---|
| `JobEngineProofs` | `TypeCorrect`; `CalmInvariant`; `CalmKeysExclusive` (`KeyExclusion`); `CalmTerminalIsFinal`; `NoWakeupIsLost` (`NoLostWakeup`); `CalmTrees`; `CalmWaitersHaveChildren` (`WaitingHasChild`); `CalmChildrenSettleFirst` (`ChildrenSettleFirst`); `CalmOutcomesAgree` (`CompleteMeansChildrenComplete`); `CalmOneTurnPerSession` (`OneTurnPerSession`); `EngineKeepsContract` (`KeepsContract`) |
| `StoreProofs` | `ConfirmationTypeCorrect`; `PendingOnlyWhenPosted` (`PendingIsPosted`); `CommandsAreApproved`; `TypesHold`; `BudgetIsKept` (`WithinBudget`); `SourceIsServedOnce` (`OneActivePerSource`); `RowsAreCarried`; `NoneLeftBehind`; `RunsOverASettledStore` (`RunningIsSettled`); `SoundDatabasesStart` (`SoundRowsAreTaken`) |
| `TranscriptionMuxProofs` | `MuxTypeCorrect`; `WorkersKeepTheirSlots` (`WorkersHoldTheirSlots`); `NoSlotSentTwiceAtOnce`; `HeardOnce` (`OneEventPerSegment`); `TranscribedForGood`; `StreamsAreBounded` |
| `AgentTurnProofs` | `TypesHold`; `NoSecondAnswer` (`AnsweredNotRerun`); `AnswersSurvive` (`AnswerSurvivesFailure`); `CancellationsAreKept` (`CancelIsKept`); `SpokenInOnePlace` (`OneConversation`) |
| `AgentSessionProofs` | `OneSessionPerRoute` (`OneSelectablePerRoute`); `RetiredStaysRetired` (`OnlyResumeRevives`); `SessionsImplementRoutes` (`RoutesKeepContract`) |
| `RoomPlacementProofs` | `HandedOverOnce` (`AudioOnce`) |
| `SpeechCaptureProofs` | `SpeechStays` (`SpeechKept`); `SegmentsFollow` (`SegmentsInOrder`); `DeafenedForgotten` |
| `WakeActivationProofs` | `WakeTypeCorrect`; `WindowsCloseOnce` (`ClosedOnce`); `LaterWakesAreHeardOut` (`LaterWakeIsHeardOut`); `RequestsAreWhole` (`RequestIsWhole`) |

### The engine

The theorems name the regime they hold in, because the code's guarantees depend on
what disturbs it:

* `Calm`: one drain (the loop), no administrative requests, no inline handlers, one
  child per decision; lost writes, failed lookups and restarts in any number. Exclusion
  of keys, the tree of jobs, and the contract hold here, and each condition is needed:
  see the known limits. `TasksHaveKeys` says that agent tasks carry their session's key, as
  `job_ordering_key` gives it to them.
* `OnlyLoop`: one drain, with any faults, handlers, batches and requests. Enough for
  `NoLostWakeup`.

`KeyExclusion` is not inductive. A worker's key is exclusive because its row is
running (`BusyRowsRun`), rows that hold a key hold different keys (`KeysDiffer`), and
a claim respects the keys it read, which still include all that are held (`KeysRead`).
The first needs that whatever rewrites a row leaves the rows of busy workers alone:
the sweep only touches rows whose worker is gone (`AgedAreAbandoned`,
`SweptAreAbandoned`), the resolver only parents that still wait (`ParentsStillWait`),
and a child insert only fresh children (`ChildIsNew`). Together they are `CalmInv`.
`TerminalIsFinal` follows from the same facts: every writer's row is open when it
writes.

For the tree of jobs, each calm step has one of six effects on rows and edges: it
settles a job, requeues one, starts one, enters its handler, collects one, or leaves
them alone (`CalmEffect`). Each effect keeps `TreeInv` (edges, order of creation and
the resolver's verdict agree with the rows) and `BegunComesFirst` (a task that was
under way comes before the others of its session in the ready order, which is why the
key it gives up while queued returns to it), and each is an action of `JobContract` or
a stutter.

`NoLostWakeup` rests on `LoopMissesNothing`: whatever became due since the loop looked
has left a notification, or somebody who is about to leave one.

### Confirmations and automations

`PendingIsPosted` needs `WorkersKnow`: a worker that plans to post, or that read a
pending row it will write back, has a completed card behind it, and completed cards
stay. `CommandsApproved` (a command exists only for an approval by the requester) is
carried by `ControlsEntitled`: a control past its first transaction has passed the
actor check, and only an approval reaches the dispatch.

`WithinBudget` is about fires whose jobs exist, but a pass counts on a copy and saves
before it emits. `BudgetInv` is the account between the three: the saved record and
the copy a pass holds both cover what was made (`Ledger`, `Covers`), what has not been
submitted has no history (`Untouched`), and what a pass is about to emit has been
saved (`PassSound`). `OneActivePerSource` needs only that what a pass holds was listed
(`HeldIsListed`), and that a creation checks the source in the transaction that
inserts.

### Migrations

`RunningIsSettled` is about the end of a start, and holds because of what each
migration finds. `CarriedInv` says for every durable version which form the rows have:
that a blob which is not current has its reader still to come (`NoBlobLeftBehind`: the
order of the versions is the order of the envelopes), that a job which was left is
there, and that its payload, scope, events and outcome are those of its version or
already today's. Each migration moves its rows from one case of this to the next, and
a refused one moves nothing. `SchemaInv` says which tables and indexes each durable
version has, before and after `create_tables`, so that the comparison at the end can
fail over nothing but the rows, and `SoundRowsAreTaken` follows from it and the readers
of `JobBlobs`, case by case.

### The transcription multiplexer

    Inv == TypeOK /\ WorkersHoldTheirSlots /\ BatchWhileSending
           /\ OneEventPerSegment /\ AboutToAppend

`WorkersHoldTheirSlots` is the heart: what a worker sends is muxing under its own
running job. Every other writer keeps away from such slots, each for its own reason
(a plan takes queued slots, recovery looks for rows that timed out or are terminal,
a failing or replanning job takes its own), and the proof has one step for each. Two
batches are disjoint because a slot has one job. `OneEventPerSegment` is not
inductive: between the look at the events and the append nobody else may append for
the slot (`AboutToAppend`), which follows from disjoint batches. These theorems hold
with several planners at work. `StreamsAreBounded` is about the time when there is
one: a plan job counts the active streams before it selects and locks slots, and no
step but its own commit starts one (`OthersOnlyEnd`), so that the count still bounds
them at the commit (`StreamInv`). Once two plan jobs have overlapped (`overlap`, see the
known limits) TLC finds more streams than the provider has.

### Turns and deliveries

    Inv == TurnInv /\ DeliveryInv /\ AnswerSurvivesFailure /\ FlagIsKept
    Inv /\ CopyInv

`TurnInv` relates the row to its worker's stage and to the typing children: while
Codex works the attempt has neither an error nor an outcome yet, and once a text was
submitted the worker is still with Codex, or what Codex returned is in the row: an
outcome, or an error of this attempt with its typing stop. So no second process
starts after an answer. `DeliveryInv` says that every text on its way to a thread that
lives, or read there, is in the session's thread: two deliveries may allocate one
each, but a thread that was sent to and lives is never replaced. `CopyInv` says that
the row a worker in preflight will write back is of the same attempt and had not been
reached by a cancellation, so that one that counts stays on the row.

### Sessions

    Inv == /\ TypeOK /\ KeyExclusive /\ OneSelectablePerRoute
           /\ \A s \in Session : RowSound(sessions[s])
           /\ \A q \in Request : JobOK(q)
           /\ \A a \in Actor : Writes(a)

`KeyExclusive` is the serialization by ordering key of the jobs of one route, for as
long as they hold it. `Cleared`, part of `JobOK`, covers the gap a resume leaves
between its lookups and writing its own session: what is selectable on the route is
the session it resumes, the one it has found, or one it is about to retire, and no
other job of the route can add one. Two lookups, first of an active and then of a
starting session, are only enough because nobody else turns a starting session of the
route active: `Writes` says that a row that does so is written by the holder of the
key. A whole row that is out of date can break all this, and where it does the route
is `disputed` from then on: the invariant, the contract and `Cleared` except it.

### Rooms

`AudioInv`: a session enters the adapter's map once, and whoever takes it out (leave,
reconciliation or a failed join) owns its audio. The proof splits on who holds it.

### Speech

    IInv == TypeOK /\ BuffersSound /\ TickWhileLive /\ DeafKeepsNothing

`BuffersSound` relates a buffer's length, its times and the preroll to the loud frames
`heard` has counted independently. `GateAssumption` (a preroll of at least
`speech_start_ms`) is used where the gate opens; without it speech is cut.

### Wake activations

`Base` holds types and references, and that nothing noted lies in the future.

* `HeardInv`, on `Base`, for `LaterWakeIsHeardOut`: `OneRow` says that whoever holds a
  wake, a row or a copy of one however old, holds it for one activation; the rest of
  `BoundaryInv` follows the boundary of the window from the payload through the closing
  event to the progress record; and `FairInv` says that for rows not raced whatever is
  recorded of it leaves the latest wake its minimum time.
* `OnceInv`, on `HeardInv`, for `ClosedOnce`. It is a statement per wake, for those not
  crowded (`Undivided`): the row has at most one active handler, none while it is queued
  or about to be queued again, and a handler about to close found no closing. With two
  workers each of them can be broken, but only by a claim between a handler's last read
  and write, which is what `crowded` notes.
* `WholeInv`, on `Base`, for `RequestIsWhole`: where a stretch of the request cannot be
  any more after each of the handler's reads (live buffers, slots, jobs), given that
  speech moves one way through them; what moved past a read is in `slipped`.

### Model-checked only

Liveness (`EveryJobSettles`, `ComesToRest`, `SpeechSettles`, `TurnSettles`,
`RequestsSettle`, `DueSessionsRetire`, `LeaveHonoured`, `CapturesClose`,
`OrphansLeave`, `SpeechIsRecorded`, `EveryWakeIsAnswered`, `EveryTriggerIsAnswered`):
TLAPS does not reason about `ENABLED`, and so not about fairness. What `Batch`
computes is a fold over a queue, whose induction is out of the prover's reach: the
theorems about the multiplexer hold for any choice of batches.

## Known limits of the program

These were met while modelling. They are outside the conditions of the properties
above, or excepted in them by name.

**Engine.** A decision with several children inserts each in its own transaction and
writes the parent as it was before the first (`core/execution/dispatcher.rs:162`): the
parent may run again when the second insert sets it to waiting. A `cancel_requested`
agent task whose worker is lost in a restart is seen by no recovery and keeps its
session's key (`tasks.rs:46`). A worker that answers after the sweep turns
`failed_timeout` into `complete`, and the ledger keeps the time-out
(`store/jobs.rs:1569`). Two overlapping drains may resolve one resuming parent twice.
A lookup of the next ready time that fails leaves the loop asleep until somebody
notifies it, with a job that may be due (`service.rs:497-507`). A kind without a policy
panics in the scheduler (`scheduler.rs:317`). Start-up replaces
the maintenance job in two transactions (`store/jobs.rs:524-537`). The check that edges
have no cycle runs outside the transaction that inserts them (`store/jobs.rs:1326`).

**Confirmations.** When the approved command completes, the resolver queues the
confirmation again, its handler finds the completed card and asks once more: a decided
confirmation accepts a second approval (`confirmations.rs:266`).

**Transcription.** `ensure_transcription_mux_plan_job` writes back a delayed plan job
it read earlier; if the job was claimed in between, a second planner is claimed and
each may fill the provider streams the other counted as free
(`store/transcription.rs:241`, `:405`). The retry pass takes the oldest failures first
and its limit hides later ones (`:690`). The sweep takes any row that has run longer than
its time-out (`maintenance/execution.rs:229-251`), one whose worker still sends
included; the model assumes that a provider call ends before that, and sweeps only rows
without a worker. Of a worker that sends on it shows nothing.

**Turns.** A lost thread that the delivery itself created is restored by
`resolve_agent_session_target` and sent to again, without end. Two deliveries of a new
session may create two threads, one of which is abandoned. A cancellation of a task
that is already asked to stop sets it cancelled while its handler runs, and the
handler may then overwrite it with failed. `dispatch_agent_task` reads the row, checks
it for a cancellation, runs the preflight, builds the prompt and writes the row it has
read back whole (`tasks.rs:319-379`): a cancellation that arrives in between is
forgotten, and the task runs.

**Sessions.** A resume job that is executed again when its agent task settles takes
the route over again: it retires a newer session and revives one sunset meanwhile.
A session is read and written back whole (`agent_sessions.rs:119-153`, `:176-183`,
`:490-502`, `store/agent_sessions.rs:247`, text deliveries): a message, a start, an
answer or a delivery that read it before it was taken over or retired revives it, so
that a route may have two selectable sessions although "exactly one active selectable
session exists for a route" (`docs/old-docs/agent_session_lifecycle_plan.md:34`). The
properties except such a route by name (`disputed`). A start job
for a session that was retired before it ran completes and drops the request. A resume
that does not fit fails after it has retired the route's session.

**Rooms.** A terminal assignment can be written back as joined
(`room_placement.rs:490`); two rooms may claim one bot (`store/voice_state.rs:332-351`);
a leave error or a duplicate leave loses the final audio jobs
(`room_agents.rs:402-413`); a stale snapshot closes the assignment of a live capture
(`voice_status.rs:46`, `:110`). A join given up before its session exists leaves its
client marked as joining (`live.rs:292-300`), and the reconciliation passes over that
bot (`live.rs:871`) until a later join or disconnect. The grace of the release of a single deafened
participant (`room_agents.rs:216-235`) is measured from `updated_at` of a row that
every status snapshot rewrites: it never elapses when it is longer than the maintenance
interval.

**Speech.** `config.rs:489` accepts `speech_preroll_ms = 0`, with which the gate never
opens, and one below `speech_start_ms`, which cuts the onset. Two devices in one tick
advance the audio clock by two frames, and a quiet packet of one resets the loud count
of the other. A failed `write_segment_wav` loses the utterance. `request_shutdown`
closes the intake at once: segments handed over by the final flush are lost.

**Wakes.** The closing time is the due time computed from published events, not the
moment the hold ended: speech after a pause during which the handler held is cut
(`wake_activations.rs:354`). Wakes scheduled out of the order heard give the activation
the time of the one scheduled last. A row asked to stop and left by a crash holds the
room's ingress key. Two wakes that find no activation create one each.
`complete_dispatched_job` reads the row and writes it back whole
(`core/execution/dispatcher.rs:128-139`): a row its handler had deferred may be claimed
in between, and is then queued again under the new handler, so that a third claim may
close the window a second time (`crowded`), and two handlers may queue each other's row
again and again. A handler that defers writes the row it was started with, over an
amendment made meanwhile, and a wake that amends or replaces writes the row it listed,
over a deferral or another wake (`raced`). A segment that becomes a slot between the
read of the slots and that of the jobs is seen by neither, and the task is dispatched
without it (`slipped`). `cancel_job_tree` writes the row as it was listed
(`wake_activations.rs:779-797`): over one that went waiting or settled meanwhile it
writes `cancel_requested`, which nobody takes up, so that the row keeps the room's
ingress key without any crash.

**Automations.** A pass saves its copy whole, so that a cancellation made meanwhile is
undone, and then one source may have two active automations. The record is saved before
the jobs are created: a crash loses the fire. The cursor is the time of the evaluation,
so that events appended during it, or later with an earlier beginning, are skipped
(`engine.rs:550-558`). While a recheck is pending new events are passed over.

**Migrations.** The finding of `migrations_refused`: 0.12.0 settles the open wake activations with `upsert_job_rows`, whose
`ON CONFLICT (job_id, state, observed_at_ms)` (`store/jobs.rs:1575-1608`) needs a unique
index that only 0.13.0 (`v0_13_0.rs:214`) or `create_indexes` (`schema.rs:1115`) makes:
a database of 0.11.0 or earlier with an open wake activation cannot start, while
`docs/0-architecture/0-2-timeline-store.md:81` says that it terminalizes them; its test
(`tests/jobs.rs:853`) starts from a store that has the index. 0.8.0 removed
`refine_transcript` from the payload enum, and 0.6.0 tries today's enum first
(`v0_6_0.rs:129`): from before 0.6.0 a voice status sync is read as a voice status
snapshot and that as an automation evaluation, and the sweeps of the maintenance chain
shift likewise. 0.2.0 and 0.3.0 read old bodies with today's payloads and metadata, so
that an agent task's invocation, a text delivery, a publication or a kind from behind
`refine_transcript` that has no look-alike makes them bail, and 0.2.0 any refinement
job. A completed snapshot whose output has the old two vectors is refused by 0.3.0 and
0.6.0 to 0.9.0. 0.2.0 puts every job into its voice room, while 0.3.0, if it is the one
to read the body, gives a slash command its text channel and maintenance the runtime.

## Not modelled

Timeline events and views (appends and read-only projections), the CLI, configuration
and the dashboard, Discord's REST calls and the HTTP routes except `run-due`, songbird
(vendored). Of the
modelled components: the intake channel and the shutdown that waits for idle lanes;
retention; the wake-probe deduplication; commands other than by their being created;
thread titles and the chunks of a message; cues and playback; the detection of wake
words in audio; the provider's HTTP calls; the conditions and actions of automations.

## Plan

1. The built-in room-agents policy over `voice_states`, composed with `Automations`
   (who is counted, and when a room counts as empty).
2. The intake channel and shutdown of the service, with `JobEngine`'s loop.
3. A run of the multiplexer with two mux jobs and two planners, over the bound on
   streams.
