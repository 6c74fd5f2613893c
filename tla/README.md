# Millie: TLA+ models, checks and proofs

Millie is a terminal coding agent that runs a local model.  It is a fork of a large
agent code base; what Millie adds, and what makes it different to get right, is the
part around the local model: one `llama-server` shared by several windows, model files
of many gigabytes that are downloaded, verified and updated by processes that know
nothing of each other, and a guard against a small model that repeats itself.  This
directory models that part, and of the code base around it the protocols that it runs on:
the turns of a session, the calls of tools, the agents that a session may spawn, and the
leased jobs of the memory pipeline.

## 1. Inventory

| Component | State it keeps | Operations | Interacts with | What is hard |
|---|---|---|---|---|
| Model server lifecycle (`llamacpp/src/lifecycle.rs`) | endpoint lock file, owner pipe, answer pipe, child process, `OWNERS` | `preflight`, `connect`, `run_supervisor` (probe, launch, validate, report, serve, stop) | OS locks and pipes, the TCP port, every other Millie process | interleavings of sessions, crashes of owners, timeouts racing answers, foreign servers |
| Startup (`ensure_oss_ready`, `llamacpp/src/lib.rs`) | configuration from the environment | preflight, files, connect, warm-up | lifecycle, download, cache | order of steps, failure of each |
| Download (`ensure_local_file_with_client`, `download_range.rs`) | `<path>`, `<path>.part`, `<path>.download.lock`, hasher, offsets, stall counter | resume, request, chunk, retry, verify, publish | HTTP server, other downloaders | broken links, ignored ranges, replaced files, crashes |
| Installation and updates (`llamacpp/src/model_updates.rs`, `utils/oss/src/{installation,model_updates}.rs`) | `files/<sha256>`, `active.json`, `local.json`, `update.lock` | `active_files`, `record_local_files`, `check_revision_at`, `install_files` | remote branch, download, startup | stale plans, branch moving between requests, partial installation |
| Loop guard (`core/src/pathology.rs`, `tools/repeat_guard.rs`, `tools/parallel.rs`) | `PathologyState`, `ResampleState`, recent calls | `begin_call`, `on_failure`, `request_extra`, `request_repeated_call`, `judge_and_remember` | turn loop, tool dispatch | order of completion and dispatch, limits of the windows |
| Turn loop (`core/src/session/turn.rs`) | history, in-flight tool futures | sampling, item recording, completion, drain | loop guard, tools, transport | broken streams, cancellation, discarding |
| Tool call runtime (`core/src/tools/parallel.rs`, `tools/registry.rs`) | parallel-execution lock, terminal-outcome flag, spawned task | dispatch, skip, abort, report, answer | tools, hooks, extensions, turn | completion racing cancellation |
| Cache warm-up (`prewarm_prompt_cache_blocking`, `spawn_prompt_cache_warmup`) | prewarm lock, cancellation token | take the lock, warm, cancel | server, turns | one slot for warm-ups and requests, hung requests |
| Chat transport (`core/src/llamacpp_chat_transport.rs`) | partial tool calls of a stream | delta, finish | turn loop | interrupted streams |
| Session tasks, input queue, mailbox (`core/src/tasks`, `core/src/session`) | active turn, its task and turn state, mailbox | start, steer, interrupt, replace, deliver mail, finish | turn loop, agents, warm-up | everything that arrives while a turn is ending |
| Memory jobs (`state/src/runtime/memories.rs`, `memories/write`) | `jobs` and `stage1_outputs` in SQLite, the memory workspace | claim, succeed, fail, heartbeat, select, prune, delete, clear | other processes | expired leases, stale lists and clock readings, late workers |
| Agent registry and spawning (`core/src/agent/{registry,control}.rs`, `core/src/thread_manager.rs`) | tree of agents, nicknames in use, counter of agents, table of threads | reserve, commit, drop, release; spawn, resume, send, shut down | tools, thread store, app server | calls aborted between two steps, a counter apart from the tree, resumes racing shutdowns |
| Unified exec (`core/src/unified_exec`) | process table, reserved ids | start, poll, write, prune, terminate all | tools, sandboxes, network approvals | ids released under a start, aborted starts |
| TUI, app server, front ends, sandboxes, proxy, configuration, login, MCP, patches, telemetry, vendored code | – | – | – | presentation, I/O, parsing or third-party: not modelled, see section 8 |

`PROJECT.json` lists all of them, and under `hazards` each thing that a test would
hardly reach, at the line where it bites, with the properties that cover it.

## 2. Plan

| Step | Module | State |
|---|---|---|
| 1 | `ModelServer`: the lifecycle protocol | checked, proved |
| 2 | `Download`: the transfer of one file | checked, proved |
| 3 | `ModelUpdates`: installation and updates on top of downloads | checked, proved |
| 4 | `LoopGuard`: the guard and the steps of the sampling request that drive it | checked, proved |
| 5 | `SharedServer`: what the lifecycle promises, implemented by `ModelServer` | checked, proved |
| 6 | `ToolRuntime`: dispatch and cancellation of tool calls | checked, proved |
| 7 | `TurnTasks`: turns, input queue, mailbox, abort and cache warm-up | checked, proved |
| 8 | `MemoryJobs`: leases of the memory pipeline | checked, proved |
| 9 | `AgentSlots`: the registry of agents, and what is done to one agent | checked, proved |

Every safety property that a passing run checks is also a theorem.  Left: injection
(`inject_if_running`), goal continuations and review and shell tasks as further actions of
`TurnTasks`; the persisted tree of agents with the walks over it; the process table of
unified exec; a composition of `ModelServer` with `Download` in which `Connect` needs the
file.

## 3. Modules

Every module has its state as variables, one action per handler or per step between two
points at which another process can act, a `Spec`, and its properties at the end.  The
operators marked "Mutant" are plausible mistakes in the code; each property is checked to
be sensitive to one of them.  `PROJECT.json` gives, under `map`, the lines that each
definition models.

### ModelServer

A *client* is one Millie process (`client`, with its model `want` and its keep-alive
flag `keep`), its *supervisor* is the process that `connect` spawns (`sup`), and `child`
is the `llama-server` that the supervisor may launch.  `gate` is the endpoint lock file,
`bound` the process that listens on the port, `ext` an independently launched server,
`answer` the line on the supervisor's stdout.  The owner pipe is not a variable: its write
end is open while the client waits in `connect` and, if the answer was "owned", until the
process ends (`PipeOpen`).

* `StartSession` .. `ConnectTimeout` are `ensure_oss_ready`, `preflight` and `connect`;
  `CloseSession` is the end of the process, by exit, crash or closed terminal.
* `SupLock` .. `SupStopped` are `run_supervisor`, one action between two awaits.
  `SupProbeFails`, `SupValidateFails` and `SupAbort` stand for every error at that point
  (HTTP errors and timeouts can always happen), so they have no other guard.
* `SupReportBroken` is what `println!` does when nobody reads the answer: it panics, and
  unwinding drops the child, which `kill_on_drop` kills, without waiting for its end.
* `Server*` and `External*` are the environment.

`LockDeadline` abstracts time.  A lock attempt may fail only while somebody holds the
lock.  Probes take at most a few seconds and are shorter than the default deadline, so
with `ImpatientLock = FALSE` only a launch can outlast it; `ImpatientLock = TRUE` allows
every wait to time out, which a small `MILLIE_LLAMACPP_STARTUP_TIMEOUT_SECS` makes
possible.

### Download

One file, several processes.  Content is a sequence of chunks `<<version, position>>` and a
digest is the sequence hashed, so equal digests mean equal content.  `downloaded` and the
hasher advance together in the code and are one variable, `hashed`.  `end` is
`response_end`; `frame` is where the HTTP client sees the end of the body, which is what
decides whether a short body is an error or a clean end.  `barren` is a history variable.
The server may answer a request with any range of the file (`AnswerPartial`), whatever was
asked for; `AcceptsRange` is what `resumed_total` accepts of it, and `skew` is how far the
body would then be from its place.  A 416 for a complete file ends the transfer, an
unreadable header is `AnswerRefused`.

### ModelUpdates

A model with two files, weights and vision tower.  A process runs a launch or the update
command.  `seen` is the manifest that its sources were resolved from, `plan` the revision
that `check_revision_at` reported for each file.  A download is one step, which is what
`Download` shows of it: the file of that digest appears under `files/`, or the call fails
(`Fails`).

### LoopGuard

One session with a local model.  A call is its signature; of the history only the number
of calls without an output is kept (`unanswered`).  `inFlight` are the futures that were
queued, `running` those that `drain_in_flight` has polled, `lost` counts the calls whose
future is gone.  Tool futures are lazy: `handle_output_item_done` only
queues them, and the guard in `handle_tool_call_with_source` runs when `drain_in_flight`
polls them, after the completion has ended.  This order is what the `offender` run is
about.  `TurnDropped` is the turn's future dropped by `handle_task_abort` after its grace
period, in mid-stream or in the drain; `Discard` may be cut off in the same way where
`truncate_history` waits for the session's lock.  `MalformedSearch` is the error that
`handle_output_item_done` records at once.  `fate`, `streak`, `claimed`, `lost` and
`discards` are history variables.  `ngram_penalty_scale` is taken to be positive (the default is 1.0); with zero
the guard never penalises.

### SharedServer

What `docs/local-model-startup.md` promises, without locks, probes and pipes: at most one
managed server, launched only when there is none, and what each session may be told.
`ModelServer` instantiates it with a refinement mapping (`serving` is the client whose
child is up, `launched` the clients that have spawned one, `told` the answer).

### TurnTasks

Process 0 is the submission loop, process *t* the tokio task of turn *t*; `pc` and `reg`
are where each of them is and its locals.  `active` is `Session::active_turn`, `pend` the
pending input of each turn state, `guard` the holder of `prewarm_lock`, `warmup` the token
in `prewarm_cancel`.  A step is what happens between two awaits at which others can run.

* `SteerInput`, `RefuseInput`, `StartInput`, `Compact`, `Interrupt` and `Mail` are the
  operations of the loop; `AbortCancel`, `AbortTake`, `AbortTask` are `abort_all_tasks`.
* `CheckPending` .. `Publish` are `maybe_start_turn_for_pending_work` and `start_task`,
  which the loop runs, and so does the tail of a turn.
* `RecordInput` .. `RunAgain` are `run_turn` and `RegularTask::run` as far as they record
  input, look for more, and end; `AcquireGuard` .. `ClearActive` are the end of a task.
* `ResumeWarmupEnds` is the background warm-up of a resumed session.

An item is a member of a set; `recorded` and `dropped` are where it may end.  `overlap` is
a history variable: the submission loop was at work while the tail of a turn was starting
one.  The `doublestart` run shows what goes wrong then, and the other properties of the
module are about the behaviours in which that does not happen.

### MemoryJobs

The rows of `jobs` and `stage1_outputs`, every transaction that writes them as one step,
and the two kinds of workers.  A claim is one grant of a job; its number is the ownership
token.  The code reads the clock before its transaction gets the write lock, so `now` is a
reading that may be `Delay` old, and the thread list that a claim comes from may be older
still (`src` is any version).  `get_phase2_input_selection` is several queries: `LoadRow`
reads one row, `LoadInputs` is its return.  `Crash` is the death of a worker at any point.
`baseline` is what the last successful consolidation had read, `replaced` the threads whose
output was stored since; `wiped` marks claims whose row was deleted under them.  The files
of the memory workspace are not modelled: no row depends on them, and the code promises
less about them than its documents say (section 4, observations).

### ToolRuntime

A call has two actors: the future that the turn awaits (`caller`) and the task it spawns
(`task`), which share `terminal_outcome_reached` (`reached`).  `outcomes` is what
extensions were told through `on_tool_finish`, `response` what the model is told.
`SeeCancel`, `ClaimOutcome`, `AbortTask` and `Answer` are the branches of the `select!`
after a cancellation, `AbortLands` the moment at which tokio drops an aborted task.

### AgentSlots

All agents of a session share one `AgentControl`; an operation (`Ops`) is a tool call of one
of them.  `pc` is where it is between two locks or awaits, and the steps in `Reserving` are
those in which it has an active `SpawnReservation`.  `agent_tree` maps a path, or the key
`thread:<id>` of an agent without one, to its agent; `Held` is the placeholder that a
reservation puts at its path.

* `ReserveSpawnSlot` .. `Uncount` are the registry: reservation of slot, path and nickname,
  `Commit`, the `Drop` of a reservation and `release_spawned_thread`, the last two up to
  and with their decrement of the counter, which is a step of its own.
* `AskSpawn`, `AskWorker`, `SpawnThread` and `AskResume` .. `ResumedSettles` are
  `spawn_agent_internal` and `resume_single_agent_from_rollout` with the thread manager.
  Both reserve the slot before they await anything, but the caller of a resume has looked
  for the thread before (`StartResume` is a step of its own).  `SpawnFails` is any error
  of the calls that create a thread.  The worker of an agent job is spawned without a path
  and a nickname (`PrepareUnnamed`).  `SpawnPaths` are the paths that spawns ask for: some
  path with the feature MultiAgentV2, none without it.
* `SendInput`, `StopThread`, `RemoveThread` are `send_input` and `shutdown_live_agent`.
* `Abort` is an interrupted turn, which drops the future of its call at an await;
  `ThreadDies` the end of a session loop, `UnloadThread` the app server.

`resume_agent` and `close_agent` walk over descendants one at a time; the model lets any
agent be next.  Whether a spawn registers the root depends on its depth, and the model
allows both.  The nickname of a resumed agent is read from the database, which may fail.
`MaxThreads` is the `Some` case of `agent_max_threads`; without a limit the code counts all
the same and refuses nothing.

A nickname is a pair, the candidate and the number of resets before it was drawn, and
`Format` is the text that `format_agent_nickname` makes of it.  The pool of used nicknames
holds texts.  Two pairs may have the same text: a role may name the candidates `Atlas` and
`Atlas the 2nd` (`agent_roles.rs:453` accepts letters, digits and spaces), and after a reset
the first reads like the second.  `FormatAssumption` is what does hold of the format: texts
are equal only if candidate and resets both differ.

## 4. Runs

The lifecycle:

* `managed` (3 sessions, 2 models, any lock may time out): `OneManagedServer`,
  `ReportedModelMatches`, and `ImplementsSharedServer`, the refinement.  Three sessions are
  needed for an owner that stops, a session that launches and one that attaches.
* `live` (2 sessions, a foreign server, patient locks, fairness): `NoOrphanServer`,
  `OwnedServerIsKept`, `NoAttachDuringShutdown`, `StartupEnds`, `ServerFollowsOwner`.
  `NoAttachDuringShutdown` does not hold with impatient locks: a supervisor that cannot
  get the gate for its shutdown returns, and its child is killed while another session
  attaches.

Downloads:

* `download` (2 processes, stall limit 2, a file of three chunks that is replaced by one
  of the same size and by a shorter one, a server that answers with any range, fairness):
  `PublishedIsPinned`, `PartIsAligned`, `FetchedOnce`, `PartialPreserved`, `CallEnds`.
  Versions of the same size are the hard case: sizes cannot tell
  them apart.  `CallEnds` has a condition: a server that answers a resumed request with 200
  and breaks off, again and again, makes the code start over each time, which never ends.
* `stalls` (violation, the code's limit of 5): the stall counter is not reset by an
  attempt that ended cleanly with part of the file.

Updates:

* `updates` (2 processes, 3 revisions, of which two share the tower, any unversioned files
  at hand): `LaunchIsConsistent`, `ActiveIsInstalled`, `NoRegression`,
  `LaunchNeverUpgrades`.

Loop guard (windows of 3 instead of 10, 4 spans instead of 16, which keeps the order of
the limits):

* `guard` (no or two resamples, with and without backtracking and repeated-call guard):
  `TypeOK` with the limits, `PenaltyFollowsStreak`, `BudgetIsExact`, `HistoryPaired`.
* `offender` (violation): see the findings.

Turns:

* `turns` (a prompt, two mails of which one triggers a turn, an interrupt, a compaction,
  two turns, local and remote provider, new and resumed session, fairness):
  `OneTerminalEvent`, `WarmupExcludesSampling`, `NothingLost`, `SubmissionIsHandled`.  Two
  turns are enough for one to end, fail or be replaced while the other starts; requests
  and failures before the first request are not bounded.  `SubmissionIsHandled` has a
  condition: a turn may postpone pending input for ever (`Postpones`), by failing before
  it samples again and again, which `RegularTask::run` repeats without a limit, or by
  compacting after each request and letting the model resume first.
* `doublestart` (violation; two prompts, a mail, three turns): see the findings.

Memory jobs:

* `jobs` (2 threads of 2 versions, 3 claims, a clock of 3 ticks, one running job, leases,
  retry delay, cooldown and reading delay of one tick): `LeaseHolderOwnsJob`, `RunningCap`,
  `SuccessMatchesOutput`, `SelectedWasConsolidated`, the inductive invariant and
  `SuccessNeverRegresses`.  Three claims are what it takes for one to lose its
  lease to a second while a third is at work on another row.

Tool calls:

* `tools` (a parallel tool that waits for its runtime, a parallel one that does not, an
  exclusive one, fairness): `AnsweredIsStopped`, `OneOutcome`, `OutcomeMatchesResponse`,
  `CancelEnds`.

Agents:

* `slots` (2 operations, 2 agents besides the root, 2 slots, one path that every spawn but
  that of a worker asks for, one nickname that can be used up once): `LimitHolds`,
  `HeldPathsAreReserved`, `NicknamesRepeatByTextOnly`, `PathKeepsItsAgent`.  Two operations
  are enough for a spawn, a resume or a shutdown to run into the middle of another, and
  with one path and one nickname both always want the same.  With a single candidate no
  two nicknames have the same text; candidates that collide are covered by the theorem
  `NicknamesRepeatByText` only.

The inductive invariant is a property of the `jobs` run only.  Those of the other modules
imply the properties that their runs check, were checked the same way while they were being
found, and are proved.

Symmetry is used where processes, models, threads, calls, agents and texts are
interchangeable and no liveness is checked.  Deadlock is not checked, except in `slots`,
where a root may always be registered: sessions, turns and calls end, a file is downloaded
once, and the bounds (`MaxRev`, `MaxFailures`, `MaxCalls`, `MaxTurns`,
`MaxInterrupts`, `MaxCompacts`, `MaxClaims`, `MaxTime`, `MaxVersion`, `MaxResets`) stop
the exploration.

### Findings

1. `stalls`: attempts without progress are not consecutive.
2. `offender`: the completion that is discarded is the one after the offender; the
   clean finish of the offender also refills the budget first, so a model that keeps
   repeating one call never exhausts it, and it clears an active penalty.
3. `doublestart`: the tail of a turn reserves the active turn for pending mail and goes
   through `start_task` on its own task.  A prompt that arrives then finds a turn without a
   task, takes the reservation away and goes through `start_task` too.  Both reach
   `debug_assert!(turn.task.is_none())`; in a release build the second task to be stored
   replaces the first, which is dropped with its `AbortOnDropHandle` and never sends
   `TurnComplete` or `TurnAborted`.

Observations that no run shows:

* `wait_until_healthy` asks the port before it looks at its child.  If somebody else puts a
  server of the same model there while the child starts, the child cannot bind and exits,
  and the session is told that it owns a server that it did not launch.
* The app server unloads an idle thread without `release_spawned_thread`
  (`thread_lifecycle.rs:416`).  A resume of that agent reserves a second slot and
  `register_spawned_thread` replaces the entry under its key; one slot is given back when
  the agent is closed, the other is lost for the session.  Two resumes at once do the same.
  `SlotsAreCounted` is an inequality for this reason.
* A resumed thread runs before its reservation is committed.  If the call is aborted in
  between, at `emit_thread_resume_lifecycle`, the slot is given back and the thread goes on
  without an entry, above the limit: `LimitHolds` is about entries and reservations.
* The walk of `resume_agent_from_rollout` over descendants keeps no set of visited threads;
  two agents that have resumed each other are each other's children in the database.

* One completion with several repeated calls escalates the penalty several times
  (`pathology.rs`, `on_failure`), and the text that has just repeated can be dropped from
  the spans: with the code's limits, a first failure leaves X and eight other texts, a
  completion with eight new calls and X again adds eight more, X is skipped as already
  present and is then the oldest of seventeen.
* The comments at `session/mod.rs:1207` and `tasks/mod.rs:794` say that the warm-up always
  completes before the next turn is accepted.  `start_task` and `abort_all_tasks` cancel it,
  and a turn is accepted while it runs; what holds is `WarmupExcludesSampling`.
* `inject_if_running` needs an active turn, not a task.  Between the moment
  `on_task_finished` has taken the pending input and the moment it clears the active turn,
  with the warm-up in between, an injected item is accepted and dropped with the turn
  state.
* A tool that does not wait for its runtime can report its own end after the caller looked
  at the flag; the caller then aborts it and reports the call as aborted, so extensions
  hear twice (the exception in `OneOutcome`; the test
  `cancellation_after_handler_finishes_preserves_completed_lifecycle` covers the order in
  which the caller looks later).
* `RegularTask::run` repeats `run_turn` while input is pending; a pre-sampling compaction
  that fails before it drains that input is repeated without a pause or a limit.  The model
  has that loop, and `SubmissionIsHandled` excepts it.  Pending input is also held back
  after an automatic compaction while the model has something to go on with
  (`turn.rs:290`); the comment there counts on the compaction to free enough.
* A tool search whose arguments cannot be parsed is answered with an output that has an
  empty call id (`stream_events_utils.rs:427`).  `remove_orphan_outputs` drops it from the
  prompt (and panics in a debug build) and `ensure_call_outputs_present` puts an empty
  search result in its place, so that the model never reads what was wrong.
* Two agents may have the same nickname if a role has candidates such as `Atlas` and
  `Atlas the 2nd`: the draw after a reset takes any candidate (`registry.rs:230`) and does
  not compare it with the nicknames of the agents that are still there.
* `memories/README.md:85` says that the global lock is claimed "so only one consolidation
  inspects or mutates the workspace at a time".  The lock is a lease, and
  `phase2.rs` syncs its inputs without confirming that it still has it: a consolidation
  that outlived its lease while it loaded its inputs writes them over those of its
  successor.  Before the baseline is reset the ownership is confirmed, but a reset that
  outlasts the lease renewed by the confirmation can still hit a successor's workspace.
* A memory reset clears the tables in one transaction and deletes the contents of the
  workspace afterwards, without a lock (`memories/write/src/control.rs:3`, called from the
  app server's `thread_processor.rs:1528` and from `cli/src/main.rs:1619`): a consolidation
  that was claimed in between loses the files under its hands.
* A memory worker that dies consumes no retry.

## 5. Fairness

`ModelServer.FairSpec` has weak fairness of each client's and each supervisor's own steps
and of the delivery of SIGKILL: every await in `connect`, `preflight` and `run_supervisor`
has a deadline or is a wait for one of these processes, so a process that can go on does.
A server need not ever load, crash or stop, and users need not do anything.  Lock
acquisition is polled, so weak fairness gives a lock only if it stays free; `StartupEnds`
holds nevertheless because each session starts once.

`Download.FairSpec` has weak fairness of a running call: connection and idle timeouts
bound every request and read.

`TurnTasks.FairSpec` has weak fairness of the loop in the middle of an operation, of each
task, of the end of a request to the model (streams have idle timeouts) and of a warm-up
whose token is cancelled.  Nothing is assumed of a warm-up request: it may hang for ever,
and users need not do anything.

`ToolRuntime.Fairness` polls callers and tasks and lets an abort land.  A handler may take
for ever, unless the turn is cancelled and the tool is one that waits for its runtime's
cancellation, which is the contract of `waits_for_runtime_cancellation`.

## 6. Proofs

`ModelServerProofs` (any sets of clients and models):

* `IInv` is inductive, external servers included: the lock file has the holder that each
  process believes it has (`GateInv`), client, supervisor and answer are never further
  apart than the protocol allows (`ProtocolInv`), and a running child is in the hands of a
  supervisor that is in one of five states (`ChildInv`).  From it: `ModelServerTypeCorrect`,
  `LaunchesLeaveNoOrphan`, `OwnersKeepTheirServer` and, with patient locks,
  `AttachExcludesShutdown`.
* Without external servers `ManagedInv` is inductive.  `OneManagedServer` is not inductive
  alone: a second launch is excluded because a child that has bound the port keeps
  others from finding it free, and a child that has not bound it yet is in the hands of a
  supervisor that holds the gate (`StartingInv`).  From it: `SingleManagedServer`
  and `ReportsAreAccurate`.
* `ServersRefineSharedServer`: under the mapping, the initial state is one of
  `SharedServer`'s and every step is one of its steps or leaves its variables alone.  A
  launch maps to `Launch` because `StartingInv` and the free port leave nobody up; an
  answer maps to the `Tell` of its kind because of `ProtocolInv`.

`DownloadProofs` (any sets of processes and versions, any sizes, any stall limit): the lock
has one holder (`LockInv`) and what the holder hashed is what the part file contains
(`HashInv`), although it was written by several processes, runs and versions.  From it:
`DownloadsAreVerified`, `DownloadsHappenOnce`.  `SkewInv` says that an accepted body starts
where the part file ends, from which `PartsAreAligned`; `ProgressIsKept` follows from the
actions, since only three of them shorten the part file.

`ModelUpdatesProofs` (any sets of processes, any branch): the lock has one holder; a
plan names a revision that was the head of the branch, which only grows
(`PlanInv`), so two plans for one file are comparable; and the comparison with the manifest
that is made under the lock still holds when the manifest is renamed, because nobody else
may publish in between (`InstallInv`).  `NoRegression` is not inductive without
the last fact: the plan itself was made before the lock was taken.  From it:
`LaunchesAreConsistent`, `ManifestsAreInstalled`, `RevisionsNeverRegress`,
`LaunchesNeverUpgrade`.

`LoopGuardProofs` (any calls, texts, limits and budgets): the properties are about
completions, the code keeps flags.  `InFlightInv` says that nothing is in flight between
completions, `PenaltyInv` what `clean_finish` and `failed_since_begin` tell about the
completion at hand.  From it: `BudgetIsSpentOnDiscards`, `HistoryStaysPaired`,
`PenaltyMatchesPathology`.  `HistoryStaysPaired` does not say that every call gets an output:
a dropped turn, a fatal error or a malformed search leaves calls without one, which
`ensure_call_outputs_present` makes up for in the prompt.  It says that there is no other
way, and that no future is left to record an output for a call that was truncated.

`WindowsStayBounded` (all of `TypeOK`) needs what `on_failure` computes from the spans it is
given, which is a recursive function over a sequence (`Pushed`).  `PushedStaysIn` is the
induction: were there a step at which the function is not defined, or its value not in a set
that pushing a span does not leave, there would be a first one (`LeastOne`, from the library's
theorem that `<` is well-founded), and it cannot be the first.  The set is that of sequences
without duplicates, from which `MAX_SPANS`, the absence of empty texts and the absence of
duplicates follow, also when the list is trimmed.

`ToolRuntimeProofs` (any calls): the invariant says for each pair of places of caller and
task who has reported the outcome (`CallerInv`, `TaskInv`, `ReportInv`).  `OneOutcome` is
not inductive without it: that a caller that owns the outcome finds no report depends on
the flag having been down when it was swapped, and that a task reports once on its having
been up only by its own swap.  From it: `AnsweredStopped`, `ReportedOnce`, `ReportMatches`.

`TurnTasksProofs` (any prompts and mails, any numbers of turns, requests, interrupts and
compactions).  None of the three properties is inductive: each depends on who may be at
work at the same time, which no single lock of the code decides.  `IInv` has

* `TypeOK` and `References` (a turn state or a turn that is referred to exists), which hold
  in all behaviours.  That there is always a turn state nobody refers to, as
  `ActiveTurn::default()` needs, is a counting argument (`FreshStateIsFree`);
* for behaviours in which two starts have not overlapped, `Control`: which locals hold
  something at which place (`Locals`), that the task in the session is the one that runs
  unless `abort_all_tasks` has taken it out (`TaskInSession`), and that at most one process
  is in `start_task`, and alone refers to the reserved turn state (`Reservation`).  This is
  the part that fails once the loop works while a tail starts a turn;
* `Flushed` (a turn state that `on_task_finished` has emptied stays empty until it is
  cleared, which is why clearing it drops nothing), `GuardHeld` (who may have the prewarm
  lock), `Terminals` (which event was sent, by place);
* `ItemPlaces`: an item is in the history, dropped, in the mailbox, in a turn state somebody
  refers to or in the locals of a process, in one of them if it was submitted and in none if
  not.  Every action is shown to be one of a few moves of a set of items (`Submitted`,
  `Taken`, `PutIn`, `HandedOver`, `Settled`), each of which keeps that.

From it: `TypesHold`, `OneTerminalEventHolds`, `WarmupExcludesSamplingHolds`,
`NothingLostHolds`, and `SlotIsFreeUnlessOverlap`: what the `doublestart` run shows can
happen in no other way than by that overlap.

`MemoryJobsProofs` (any finite set of threads, any limits, leases and delays): a running row
and the claim whose token it bears agree on the lease and on the version, and neither the
output nor the success of the row has reached that version (`JobInv`, `GlobInv`); no reading
of the clock is ahead of it, so a lease that has run out for a reading has run out.
`RunningCap` needs a counting
argument: the rows that are busy now are among those that were busy for the older reading.
`SelectedWasConsolidated` is kept by a consolidation that succeeds because it marks exactly
the snapshots that are still current, and by a late output because it is then `replaced`.
From it: `LeasesExclude`, `ExtractionsAreCapped`, `OutputsAreCurrent`,
`SelectionIsConsolidated` and, as an action property, `VersionsGrow`.

`AgentSlotsProofs` (any finite sets of threads, paths and operations, any limit):
`LimitHolds` is not inductive, since an entry leaves the tree before the counter goes down
and a reservation becomes an entry without touching it.  `SlotsAreCounted` gives every
entry, every active reservation and every pending decrement a unit of the counter of its
own, so that none of them can be taken twice; `Prepared` says that an operation has its
thread by the time it commits it, and that a worker has no path.  `HeldPathsAreReserved`
is inductive with the types and is also what `PathKeepsItsAgent` needs: a commit finds the placeholder of its
own reservation at its path and not another agent.  From it: `TypesHold` (the counter never
underflows), `LimitIsKept`, `PathsAreReserved`, `PathsKeepTheirAgents`.

`NicknamesRepeatByText` has an invariant of its own on top, `NamesInv`.  A nickname is never
given back; as a pair it is unique because it contains the number of resets of the pool at
which it was drawn, and `FormatAssumption` says when two pairs may have one text.
`NamesAreOwned` says that every nickname that an agent of this process has, in
the tree, in the thread store or in an operation on it, or that a spawn has drawn for an agent
without a thread yet, is of an earlier reset or still in the pool's set of used ones, and
has one owner.  Agents that an earlier process has stored are outside of it: their nicknames
are used as they are and may coincide with any other.

The assumptions are the named ASSUMEs of the modules: nonempty or finite sets, a name for
"nobody" that is not a process, positive sizes and limits, and what `format_agent_nickname`
keeps apart.

## 7. Only model-checked

Liveness (`StartupEnds`, `ServerFollowsOwner`, `CallEnds`, `SubmissionIsHandled`,
`CancelEnds`) is out of the proof system's reach: it needs `ENABLED` and fairness.

## 8. Not modelled

* SIGKILL of a supervisor: the code does not handle it (the child is orphaned).
* The contents of the command line of `llama-server`, GPU selection, memory profiles,
  prompts, formatting and logging.
* The rollout file, which keeps what `truncate_history` drops, as its comment says.
* Of `TurnTasks`' code: review and shell tasks, goal continuations, `abort_turn_if_active`,
  `inject_if_running`, approvals and other waiters of a turn state.
* Of the agents: the persisted tree and the walks over it, roles, forks of a history, task
  messages and the watchers that report an agent's completion to its parent.
* Unified exec: its table is behind one mutex, but what matters about it is when the last
  reference to an operating-system process is dropped, by which of five tasks.  Reading it
  shows one thing worth a model: `terminate_all_processes` also clears the ids that starts
  under way have reserved, so that a process may be stored under an id that is free.
* Of the state database: threads, logs, goals, usage counts and the ranking of inputs,
  which are queries without a protocol.  Of the memory pipeline: the files of the workspace.
* Most of the code base: the terminal interface, the app server and its protocol types,
  configuration, login, sandboxes, MCP and telemetry are by far the larger part of its
  lines.  They are presentation, parsing, tables of types and adapters to the operating
  system or to services, with no protocol of their own for a model to be about;
  `PROJECT.json` lists them as `not_modelled` with the reason.
