------------------------------ MODULE TurnTasks ------------------------------
(* Turns of one session: how the submission loop starts, steers, interrupts    *)
(* and replaces them, how a turn's task ends, and how mailbox mail joins or    *)
(* starts one (codex-rs/core/src/tasks/mod.rs, session/input_queue.rs,         *)
(* session/inject.rs, session/handlers.rs, session/turn.rs).                   *)
(*                                                                             *)
(* Process 0 is the submission loop; process t > 0 is the tokio task of turn   *)
(* t.  A step is what one process does between two awaits at which another     *)
(* may run: one critical section of the active-turn mutex, of a turn state, of *)
(* the mailbox or of the prewarm lock.  JoinHandle::abort takes effect at the  *)
(* aborted task's current await.                                               *)
EXTENDS Naturals, FiniteSets

CONSTANTS
    Inputs,        \* user prompts
    Mails,         \* inter-agent communications
    Triggers,      \* the ones marked trigger_turn
    MaxTurns,      \* bound: turns of the session
    MaxInterrupts, \* bound: Op::Interrupt
    MaxCompacts    \* bound: Op::Compact

ASSUME TurnTasksAssumption ==
    /\ Triggers \subseteq Mails
    /\ {MaxTurns, MaxInterrupts, MaxCompacts} \subseteq Nat

VARIABLES
    local,      \* the provider is the single-slot local server
    active,     \* Session::active_turn, with its mailbox_delivery_phase
    pend,       \* pending_input of each turn state
    mailbox,    \* InputQueue::mailbox_pending_mails
    guard,      \* holder of prewarm_lock
    warmup,     \* the token in prewarm_cancel: "fresh" or "cancelled"
    pc,         \* where each process is
    reg,        \* the local variables of each process
    started,    \* turns created so far
    cancelled,  \* turns whose cancellation token is cancelled
    terminal,   \* the terminal event sent for each turn
    recorded,   \* items in the conversation history
    dropped,    \* items discarded with a refused, failed or aborted turn
    sent,       \* items submitted so far
    ops,        \* interrupts and compactions submitted so far
    overlap     \* the loop was at work while a turn's tail started another

queue == <<active, pend, mailbox>>
prewarm == <<guard, warmup>>
ghosts == <<terminal, recorded, dropped>>
outside == <<sent, ops, overlap>>
vars == <<local, queue, prewarm, pc, reg, started, cancelled, ghosts, outside>>

-----------------------------------------------------------------------------
Loop == 0
Turns == 1..MaxTurns
Procs == {Loop} \cup Turns
TurnStates == 1..(MaxTurns + 3)
Items == Inputs \cup Mails
Nobody == 0
Resume == MaxTurns + 1   \* the background warm-up of a resumed session

NoTurn == [on |-> FALSE, task |-> 0, ts |-> 0, phase |-> "CurrentTurn"]

\* Locals: a turn state, drained items, the input and kind of the turn being
\* started or run, that turn, the turn being aborted, can_drain_pending_input,
\* model_needs_follow_up, and whether the last tool output may hold an image.
NoReg == [ts |-> 0, items |-> {}, input |-> {}, kind |-> "regular",
          turn |-> 0, victim |-> 0, drain |-> TRUE, follow |-> FALSE,
          image |-> FALSE]

\* States of maybe_start_turn_for_pending_work and start_task.
StartStates == {"pending", "reserve", "cancel", "barrier", "gather", "insert",
                "publish"}
LoopStates == StartStates \cup {"idle", "abort", "take", "grace"}
Ended == {"done", "dead"}
TaskStates == {"unused", "run", "drain", "fold", "sample", "after", "again",
               "guard", "check", "finish", "flush", "warm", "clear"}
              \cup StartStates \cup Ended

\* Every variable has the shape of the Rust value it stands for.
TypeOK ==
    /\ local \in BOOLEAN
    /\ active \in [on : BOOLEAN, task : {0} \cup Turns, ts : {0} \cup TurnStates,
                   phase : {"CurrentTurn", "NextTurn"}]
    /\ pend \in [TurnStates -> SUBSET Items]
    /\ mailbox \subseteq Mails
    /\ guard \in {Nobody, Resume} \cup Turns
    /\ warmup \in {"fresh", "cancelled"}
    /\ pc \in [Procs -> LoopStates \cup TaskStates]
    /\ reg \in [Procs -> [ts : {0} \cup TurnStates, items : SUBSET Items,
                          input : SUBSET Items, kind : {"regular", "compact"},
                          turn : {0} \cup Turns, victim : {0} \cup Turns,
                          drain : BOOLEAN, follow : BOOLEAN,
                          image : BOOLEAN]]
    /\ started \in 0..MaxTurns
    /\ cancelled \subseteq Turns
    /\ terminal \in [Turns -> {"none", "complete", "aborted", "twice"}]
    /\ recorded \subseteq Items /\ dropped \subseteq Items /\ sent \subseteq Items
    /\ ops \in [interrupt : 0..MaxInterrupts, compact : 0..MaxCompacts]
    /\ overlap \in BOOLEAN

\* A new session, or a resumed one whose warm-up is running in the background.
Init ==
    /\ local \in BOOLEAN
    /\ active = NoTurn
    /\ pend = [s \in TurnStates |-> {}]
    /\ mailbox = {}
    /\ guard \in IF local THEN {Nobody, Resume} ELSE {Nobody}
    /\ warmup = "fresh"
    /\ pc = [p \in Procs |-> IF p = Loop THEN "idle" ELSE "unused"]
    /\ reg = [p \in Procs |-> NoReg]
    /\ started = 0
    /\ cancelled = {}
    /\ terminal = [t \in Turns |-> "none"]
    /\ recorded = {} /\ dropped = {} /\ sent = {}
    /\ ops = [interrupt |-> 0, compact |-> 0]
    /\ overlap = FALSE

-----------------------------------------------------------------------------
(* Helpers.                                                                    *)

Goto(p, label) == pc' = [pc EXCEPT ![p] = label]

\* The operation of the loop, or the tail of a turn, is over.
AtRest(p) == IF p = Loop THEN "idle" ELSE "done"

\* A turn state nobody refers to: what ActiveTurn::default() allocates.
FreshState ==
    LET used == {active.ts} \cup {reg[p].ts : p \in Procs}
    IN  CHOOSE s \in TurnStates \ used : TRUE

\* get_or_insert_with(ActiveTurn::default) under the active-turn mutex.
GetOrInsert ==
    IF active.on THEN active ELSE [NoTurn EXCEPT !.on = TRUE, !.ts = FreshState]

\* accepts_mailbox_delivery_for_current_turn, of whichever turn is active.
Accepts == active.phase = "CurrentTurn"
TurnInput == IF active.on THEN pend[active.ts] ELSE {}

\* get_pending_input: the active turn's input, then the mailbox.  The two
\* locks are taken one after the other; mail that arrives in between is as if
\* it had been there before.
PendingInput == TurnInput \cup (IF Accepts THEN mailbox ELSE {})
TakePending ==
    /\ pend' = IF active.on THEN [pend EXCEPT ![active.ts] = {}] ELSE pend
    /\ mailbox' = IF Accepts THEN {} ELSE mailbox
HasPending == PendingInput # {}

\* prewarm_cancel.cancel().  A token that no warm-up listens to is replaced
\* before the next one does: only a held lock remembers the cancellation.
CancelToken ==
    /\ warmup' = IF guard = Nobody THEN "fresh" ELSE "cancelled"
    /\ UNCHANGED guard

\* The prewarm guard, if the process has it, is dropped.
Release(t) ==
    /\ guard' = IF guard = t THEN Nobody ELSE guard
    /\ warmup' = IF guard = t THEN "fresh" ELSE warmup

\* send_event of TurnComplete or TurnAborted.
Emit(t, event) ==
    terminal' = [terminal EXCEPT ![t] = IF @ = "none" THEN event ELSE "twice"]

\* What a task that is aborted holds in its locals is gone.
Held(t) == IF pc[t] \in Ended THEN {} ELSE reg[t].items \cup reg[t].input

-----------------------------------------------------------------------------
(* The submission loop.                                                        *)

\* The loop leaves its idle state while a tail is between its reservation and
\* the publication of its task.
LoopOverlaps ==
    overlap' = (overlap \/ \E t \in Turns :
                    pc[t] \in StartStates \ {"pending", "reserve"})

\* The loop allocates a turn context and calls spawn_task.
SpawnTask(kind, input) ==
    /\ started < MaxTurns
    /\ started' = started + 1
    /\ reg' = [reg EXCEPT ![Loop] = [NoReg EXCEPT !.turn = started + 1,
                                                  !.kind = kind, !.input = input]]
    /\ Goto(Loop, "abort")
    /\ LoopOverlaps

\* user_input, steer_input accepts: the prompt joins the running regular turn.
SteerInput(i) ==
    /\ pc[Loop] = "idle" /\ i \in Inputs \ sent
    /\ active.task # 0 /\ reg[active.task].kind = "regular"
    /\ sent' = sent \cup {i}
    /\ pend' = [pend EXCEPT ![active.ts] = @ \cup {i}]
    /\ active' = [active EXCEPT !.phase = "CurrentTurn"]
    /\ UNCHANGED <<local, mailbox, prewarm, pc, reg, started, cancelled,
                   ghosts, ops, overlap>>

\* ActiveTurnNotSteerable: the prompt is answered with an error event.
RefuseInput(i) ==
    /\ pc[Loop] = "idle" /\ i \in Inputs \ sent
    /\ active.task # 0 /\ reg[active.task].kind = "compact"
    /\ sent' = sent \cup {i}
    /\ dropped' = dropped \cup {i}
    /\ UNCHANGED <<local, queue, prewarm, pc, reg, started, cancelled,
                   terminal, recorded, ops, overlap>>

\* NoActiveTurn: the prompt gets a turn of its own.
StartInput(i) ==
    /\ pc[Loop] = "idle" /\ i \in Inputs \ sent
    /\ active.task = 0
    /\ sent' = sent \cup {i}
    /\ SpawnTask("regular", {i})
    /\ UNCHANGED <<local, queue, prewarm, cancelled, ghosts, ops>>

\* Op::Compact replaces whatever is running.
Compact ==
    /\ pc[Loop] = "idle" /\ ops.compact < MaxCompacts
    /\ ops' = [ops EXCEPT !.compact = @ + 1]
    /\ SpawnTask("compact", {})
    /\ UNCHANGED <<local, queue, prewarm, cancelled, ghosts, sent>>

\* interrupt_task and shutdown: abort_all_tasks(Interrupted).
Interrupt ==
    /\ pc[Loop] = "idle" /\ ops.interrupt < MaxInterrupts
    /\ ops' = [ops EXCEPT !.interrupt = @ + 1]
    /\ reg' = [reg EXCEPT ![Loop] = NoReg]
    /\ Goto(Loop, "abort")
    /\ LoopOverlaps
    /\ UNCHANGED <<local, queue, prewarm, started, cancelled, ghosts, sent>>

\* inter_agent_communication.
Mail(m) ==
    /\ pc[Loop] = "idle" /\ m \in Mails \ sent
    /\ sent' = sent \cup {m}
    /\ mailbox' = mailbox \cup {m}
    /\ IF m \in Triggers
       THEN /\ reg' = [reg EXCEPT ![Loop] = NoReg]
            /\ Goto(Loop, "pending")
            /\ LoopOverlaps
       ELSE UNCHANGED <<reg, pc, overlap>>
    /\ UNCHANGED <<local, active, pend, prewarm, started, cancelled, ghosts,
                   ops>>

-----------------------------------------------------------------------------
(* abort_all_tasks, in the loop.                                               *)

\* A replacement goes on to start_task; an interrupt that aborted nothing ends.
AfterAbort(otherwise) == IF reg[Loop].turn # 0 THEN "cancel" ELSE otherwise

AbortCancel ==
    /\ pc[Loop] = "abort"
    /\ CancelToken
    /\ Goto(Loop, "take")
    /\ UNCHANGED <<local, queue, reg, started, cancelled, ghosts, outside>>

\* Mutant: the task is cancelled where it is, and stays in the session.
AbortTakePeek ==
    /\ pc[Loop] = "take"
    /\ IF active.task = 0
       THEN /\ Goto(Loop, AfterAbort("idle"))
            /\ UNCHANGED <<reg, cancelled>>
       ELSE /\ reg' = [reg EXCEPT ![Loop].ts = active.ts,
                                  ![Loop].victim = active.task]
            /\ cancelled' = cancelled \cup {active.task}
            /\ Goto(Loop, "grace")
    /\ UNCHANGED <<local, queue, prewarm, started, ghosts, outside>>

\* take_active_turn; a task is cancelled, a turn without a task just dropped.
\* (The token is never cancelled before: a task is published once.)
AbortTake ==
    /\ pc[Loop] = "take"
    /\ active' = NoTurn
    /\ IF active.task = 0
       THEN /\ Goto(Loop, AfterAbort("idle"))
            /\ UNCHANGED <<reg, cancelled>>
       ELSE /\ reg' = [reg EXCEPT ![Loop].ts = active.ts,
                                  ![Loop].victim = active.task]
            /\ cancelled' = cancelled \cup {active.task}
            /\ Goto(Loop, "grace")
    /\ UNCHANGED <<local, pend, mailbox, prewarm, started, ghosts, outside>>

\* The task has signalled `done`, or 100 ms have passed: abort its handle,
\* send TurnAborted and clear what was pending for it.
AbortTask ==
    /\ pc[Loop] = "grace"
    /\ LET t == reg[Loop].victim IN
       /\ pc' = [pc EXCEPT ![Loop] = AfterAbort("pending"),
                           ![t] = IF @ \in Ended THEN @ ELSE "dead"]
       /\ Release(t)
       /\ Emit(t, "aborted")
       /\ dropped' = dropped \cup Held(t) \cup pend[reg[Loop].ts]
       /\ reg' = [reg EXCEPT ![Loop].ts = 0, ![Loop].victim = 0, ![t] = NoReg]
    /\ pend' = [pend EXCEPT ![reg[Loop].ts] = {}]
    /\ UNCHANGED <<local, active, mailbox, started, cancelled, recorded,
                   outside>>

-----------------------------------------------------------------------------
(* maybe_start_turn_for_pending_work and start_task, run by the loop or by the *)
(* tail of a turn that has ended.                                              *)

CheckPending(p) ==
    /\ pc[p] = "pending"
    /\ Goto(p, IF mailbox \cap Triggers = {} THEN AtRest(p) ELSE "reserve")
    /\ UNCHANGED <<local, queue, prewarm, reg, started, cancelled, ghosts,
                   outside>>

\* The session is not idle any more (or the bound on turns is reached).
ReserveTaken(p) ==
    /\ pc[p] = "reserve" /\ (active.on \/ started = MaxTurns)
    /\ Goto(p, AtRest(p))
    /\ UNCHANGED <<local, queue, prewarm, reg, started, cancelled, ghosts,
                   outside>>

\* The reservation is not looked at again before the task is published.
Reserve(p) ==
    /\ pc[p] = "reserve" /\ ~active.on /\ started < MaxTurns
    /\ active' = GetOrInsert
    /\ pend' = [pend EXCEPT ![FreshState] = {}]
    /\ started' = started + 1
    /\ reg' = [reg EXCEPT ![p] = [NoReg EXCEPT !.turn = started + 1]]
    /\ overlap' = (overlap \/ (p # Loop /\ pc[Loop] # "idle"))
    /\ Goto(p, "cancel")
    /\ UNCHANGED <<local, mailbox, prewarm, cancelled, ghosts, sent, ops>>

\* Mutant: the barrier waits for the warm-up without cancelling it.
CancelWarmupNot(p) ==
    /\ pc[p] = "cancel"
    /\ Goto(p, "barrier")
    /\ UNCHANGED <<local, queue, prewarm, reg, started, cancelled, ghosts,
                   outside>>

CancelWarmup(p) ==
    /\ pc[p] = "cancel"
    /\ CancelToken
    /\ Goto(p, "barrier")
    /\ UNCHANGED <<local, queue, reg, started, cancelled, ghosts, outside>>

\* Mutant: a turn starts without waiting for the prewarm lock.
BarrierOpen(p) ==
    /\ pc[p] = "barrier"
    /\ Goto(p, "gather")
    /\ UNCHANGED <<local, queue, prewarm, reg, started, cancelled, ghosts,
                   outside>>

\* The prewarm lock is acquired and released.
Barrier(p) ==
    /\ pc[p] = "barrier" /\ guard = Nobody
    /\ Goto(p, "gather")
    /\ UNCHANGED <<local, queue, prewarm, reg, started, cancelled, ghosts,
                   outside>>

Gather(p) ==
    /\ pc[p] = "gather"
    /\ reg' = [reg EXCEPT ![p].items = PendingInput]
    /\ TakePending
    /\ Goto(p, "insert")
    /\ UNCHANGED <<local, active, prewarm, started, cancelled, ghosts, outside>>

\* The first get_or_insert_with, and the items go to that turn state.
Insert(p) ==
    /\ pc[p] = "insert"
    /\ active' = GetOrInsert
    /\ pend' = [pend EXCEPT ![active'.ts] =
                    reg[p].items \cup IF active.on THEN @ ELSE {}]
    /\ reg' = [reg EXCEPT ![p].ts = active'.ts, ![p].items = {}]
    /\ Goto(p, "publish")
    /\ UNCHANGED <<local, mailbox, prewarm, started, cancelled, ghosts, outside>>

\* The second get_or_insert_with; the task is spawned and stored.  A task that
\* was there is dropped with its AbortOnDropHandle.
Publish(p) ==
    /\ pc[p] = "publish"
    /\ active' = [GetOrInsert EXCEPT !.task = reg[p].turn]
    /\ pend' = [pend EXCEPT ![active'.ts] = IF active.on THEN @ ELSE {}]
    /\ LET t == reg[p].turn
           old == active.task
       IN
       /\ pc' = [pc EXCEPT ![old] = IF old # 0 /\ @ \notin Ended THEN "dead" ELSE @,
                           ![t] = "run", ![p] = AtRest(p)]
       /\ reg' = [reg EXCEPT ![t] = [NoReg EXCEPT !.input = reg[p].input,
                                                  !.kind = reg[p].kind],
                             ![p] = NoReg]
       /\ Release(old)
    /\ UNCHANGED <<local, mailbox, started, cancelled, ghosts, outside>>

-----------------------------------------------------------------------------
(* The task of a turn: RegularTask::run and run_turn, or CompactTask::run.     *)

\* run_turn records its own input and leaves pending input for later, unless
\* it has none of its own.  A compaction only samples.
RecordInput(t) ==
    /\ pc[t] = "run"
    /\ recorded' = recorded \cup reg[t].input
    /\ reg' = [reg EXCEPT ![t].drain = (reg[t].input = {}), ![t].input = {}]
    /\ Goto(t, IF reg[t].kind = "compact" THEN "sample" ELSE "drain")
    /\ UNCHANGED <<local, queue, prewarm, started, cancelled, terminal,
                   dropped, outside>>

\* The pre-sampling compaction fails, or a hook stops the turn: run_turn returns
\* before its input is recorded.  Nothing limits how often a turn does so while
\* input is pending.
PreSamplingFails(t) ==
    /\ pc[t] = "run" /\ reg[t].kind = "regular"
    /\ dropped' = dropped \cup reg[t].input
    /\ reg' = [reg EXCEPT ![t].input = {}]
    /\ Goto(t, "again")
    /\ UNCHANGED <<local, queue, prewarm, started, cancelled, terminal,
                   recorded, outside>>

\* Pending input is drained for the next request ...
DrainPending(t) ==
    /\ pc[t] = "drain"
    /\ IF reg[t].drain
       THEN reg' = [reg EXCEPT ![t].items = PendingInput] /\ TakePending
       ELSE UNCHANGED <<reg, pend, mailbox>>
    /\ Goto(t, "fold")
    /\ UNCHANGED <<local, active, prewarm, started, cancelled, ghosts, outside>>

\* ... and recorded; a hook that blocks all of it ends the run.
FoldPending(t) ==
    /\ pc[t] = "fold"
    /\ recorded' = recorded \cup reg[t].items
    /\ reg' = [reg EXCEPT ![t].items = {}, ![t].follow = FALSE]
    /\ \/ Goto(t, "sample")
       \/ reg[t].items # {} /\ Goto(t, "again")
    /\ UNCHANGED <<local, queue, prewarm, started, cancelled, terminal,
                   dropped, outside>>

\* record_completed_response_item: final text is recorded.
Answer(t) ==
    /\ pc[t] = "sample" /\ reg[t].kind = "regular"
    /\ active.task = t /\ pend[active.ts] = {}
    /\ active' = [active EXCEPT !.phase = "NextTurn"]
    /\ UNCHANGED <<local, pend, mailbox, prewarm, pc, reg, started, cancelled,
                   ghosts, outside>>

\* handle_output_item_done: a tool call reopens the turn to mail and asks for a
\* follow-up request.
ToolCall(t) ==
    /\ pc[t] = "sample" /\ reg[t].kind = "regular"
    /\ active' = IF active.task = t
                 THEN [active EXCEPT !.phase = "CurrentTurn"] ELSE active
    /\ reg' = [reg EXCEPT ![t].follow = TRUE, ![t].image = TRUE]
    /\ UNCHANGED <<local, pend, mailbox, prewarm, pc, started, cancelled,
                   ghosts, outside>>

\* The response is complete; a compaction task is then done.
SampleEnd(t) ==
    /\ pc[t] = "sample"
    /\ Goto(t, IF reg[t].kind = "compact" THEN "guard" ELSE "after")
    /\ UNCHANGED <<local, queue, prewarm, reg, started, cancelled, ghosts,
                   outside>>

\* A request fails, or is cancelled: run_turn breaks out of its loop, or goes on
\* after it has replaced an image of the last tool output, which the server
\* refused before it sampled.
SampleBreak(t) ==
    /\ pc[t] = "sample" /\ reg[t].kind = "regular"
    /\ \/ UNCHANGED reg /\ Goto(t, "again")
       \/ /\ reg[t].image /\ ~reg[t].follow
          /\ reg' = [reg EXCEPT ![t].image = FALSE]
          /\ Goto(t, "drain")
    /\ UNCHANGED <<local, queue, prewarm, started, cancelled, ghosts, outside>>

\* Follow up: at once, after an automatic compaction that holds pending input
\* back while the model has to resume, or not at all when that compaction
\* fails.
FollowUp(t) ==
    /\ pc[t] = "after" /\ (reg[t].follow \/ HasPending)
    /\ \/ \E drain \in {TRUE, ~reg[t].follow} :
            reg' = [reg EXCEPT ![t].drain = drain] /\ Goto(t, "drain")
       \/ UNCHANGED reg /\ Goto(t, "again")
    /\ UNCHANGED <<local, queue, prewarm, started, cancelled, ghosts, outside>>

\* Nothing to follow up: the run ends unless a stop hook asks for more.
RunEnds(t) ==
    /\ pc[t] = "after" /\ ~reg[t].follow /\ ~HasPending
    /\ \/ UNCHANGED reg /\ Goto(t, "again")
       \/ /\ reg' = [reg EXCEPT ![t].drain = TRUE]
          /\ Goto(t, "drain")
    /\ UNCHANGED <<local, queue, prewarm, started, cancelled, ghosts, outside>>

\* RegularTask::run: another run_turn while input is pending.
RunAgain(t) ==
    /\ pc[t] = "again"
    /\ Goto(t, IF HasPending THEN "run" ELSE "guard")
    /\ UNCHANGED <<local, queue, prewarm, reg, started, cancelled, ghosts,
                   outside>>

-----------------------------------------------------------------------------
(* The end of a task: on_task_finished.                                        *)

\* acquire_prewarm_guard_if_local, with a new cancellation token.
AcquireGuard(t) ==
    /\ pc[t] = "guard"
    /\ local => guard = Nobody
    /\ guard' = IF local THEN t ELSE guard
    /\ warmup' = IF local THEN "fresh" ELSE warmup
    /\ Goto(t, "check")
    /\ UNCHANGED <<local, queue, reg, started, cancelled, ghosts, outside>>

\* A cancelled turn skips the teardown.
CheckCancelled(t) ==
    /\ pc[t] = "check"
    /\ IF t \in cancelled
       THEN /\ Goto(t, "done")
            /\ Release(t)
            /\ reg' = [reg EXCEPT ![t] = NoReg]
       ELSE /\ Goto(t, "finish")
            /\ UNCHANGED <<prewarm, reg>>
    /\ UNCHANGED <<local, queue, started, cancelled, ghosts, outside>>

\* The task in the session, if there is one, is taken out and detached.
Detach(t) ==
    /\ pc[t] = "finish"
    /\ IF active.task = 0
       THEN /\ Goto(t, "done")
            /\ Release(t)
            /\ reg' = [reg EXCEPT ![t] = NoReg]
            /\ UNCHANGED active
       ELSE /\ active' = [active EXCEPT !.task = 0]
            /\ reg' = [reg EXCEPT ![t].ts = active.ts]
            /\ Goto(t, "flush")
            /\ UNCHANGED prewarm
    /\ UNCHANGED <<local, pend, mailbox, started, cancelled, ghosts, outside>>

\* Mutant: input that came in after the last request is not looked for.
CompleteNoFlush(t) ==
    /\ pc[t] = "flush"
    /\ pend' = [pend EXCEPT ![reg[t].ts] = {}]
    /\ Emit(t, "complete")
    /\ Goto(t, "warm")
    /\ UNCHANGED <<local, active, mailbox, prewarm, reg, started, cancelled,
                   recorded, dropped, outside>>

\* What is still pending is recorded, then TurnComplete is sent.
Complete(t) ==
    /\ pc[t] = "flush"
    /\ recorded' = recorded \cup pend[reg[t].ts]
    /\ pend' = [pend EXCEPT ![reg[t].ts] = {}]
    /\ Emit(t, "complete")
    /\ Goto(t, "warm")
    /\ UNCHANGED <<local, active, mailbox, prewarm, reg, started, cancelled,
                   dropped, outside>>

\* prewarm_prompt_cache_blocking returns because its token is cancelled, or
\* there was nothing to warm; the guard is dropped.
WarmupCancelled(t) ==
    /\ pc[t] = "warm" /\ (local => warmup = "cancelled")
    /\ Release(t)
    /\ Goto(t, "clear")
    /\ UNCHANGED <<local, queue, reg, started, cancelled, ghosts, outside>>

\* ... or because the server has answered.
WarmupFinished(t) ==
    /\ pc[t] = "warm" /\ local
    /\ Release(t)
    /\ Goto(t, "clear")
    /\ UNCHANGED <<local, queue, reg, started, cancelled, ghosts, outside>>

\* The session is idle again if the turn is still the one that ended; then
\* pending work may start another.
ClearActive(t) ==
    /\ pc[t] = "clear"
    /\ LET mine == active.on /\ active.task = 0 /\ active.ts = reg[t].ts IN
       /\ active' = IF mine THEN NoTurn ELSE active
       /\ Goto(t, IF mine THEN "pending" ELSE "done")
    /\ reg' = [reg EXCEPT ![t] = NoReg]
    /\ UNCHANGED <<local, pend, mailbox, prewarm, started, cancelled, ghosts,
                   outside>>

\* The background warm-up of a resumed session ends.
ResumeWarmupEnds(token) ==
    /\ guard = Resume /\ warmup = token
    /\ Release(Resume)
    /\ UNCHANGED <<local, queue, pc, reg, started, cancelled, ghosts, outside>>

-----------------------------------------------------------------------------
Submission ==
    \/ \E i \in Inputs : SteerInput(i) \/ RefuseInput(i) \/ StartInput(i)
    \/ Compact \/ Interrupt
    \/ \E m \in Mails : Mail(m)

Abort == AbortCancel \/ AbortTake \/ AbortTask

Start(p) ==
    \/ CheckPending(p) \/ ReserveTaken(p) \/ Reserve(p)
    \/ CancelWarmup(p) \/ Barrier(p) \/ Gather(p) \/ Insert(p) \/ Publish(p)

Run(t) ==
    \/ RecordInput(t) \/ PreSamplingFails(t) \/ DrainPending(t)
    \/ FoldPending(t) \/ SampleBreak(t) \/ FollowUp(t) \/ RunEnds(t)
    \/ RunAgain(t)

Finish(t) ==
    \/ AcquireGuard(t) \/ CheckCancelled(t) \/ Detach(t) \/ Complete(t)
    \/ WarmupCancelled(t) \/ ClearActive(t)

Next ==
    \/ Submission \/ Abort
    \/ \E p \in Procs : Start(p)
    \/ \E t \in Turns : Run(t) \/ Finish(t)
    \/ \E t \in Turns : Answer(t) \/ ToolCall(t) \/ SampleEnd(t)
    \/ \E t \in Turns : WarmupFinished(t)
    \/ \E token \in {"fresh", "cancelled"} : ResumeWarmupEnds(token)

Spec == Init /\ [][Next]_vars

\* Tasks and the loop are polled; a request to the model ends; a warm-up that
\* was cancelled returns.  Nothing says that a warm-up request is answered.
FairSpec ==
    /\ Spec
    /\ WF_vars(Abort)
    /\ WF_vars(ResumeWarmupEnds("cancelled"))
    /\ \A p \in Procs : WF_vars(Start(p))
    /\ \A t \in Turns :
          WF_vars(Run(t)) /\ WF_vars(SampleEnd(t)) /\ WF_vars(Finish(t))

-----------------------------------------------------------------------------
(* Properties.                                                                 *)

\* on_task_finished and handle_task_abort: a turn that is over has had exactly
\* one terminal event, TurnComplete or TurnAborted, unless a tail was starting
\* a turn while the loop was at work.
OneTerminalEvent ==
    ~overlap => \A t \in Turns :
        /\ terminal[t] # "twice"
        /\ pc[t] \in Ended /\ reg[Loop].victim # t => terminal[t] # "none"

\* start_task's barrier: the single-slot local server never samples for a turn
\* while a warm-up, or the teardown that owes one, holds the prewarm lock.
WarmupExcludesSampling ==
    ~overlap => (guard # Nobody => \A t \in Turns : pc[t] # "sample")

\* Where an item is: the history, the ground, the mailbox, a turn state that
\* somebody still refers to, or the locals of a process.
Places(i) ==
    {<<"session", n>> : n \in {n \in 1..3 : i \in <<recorded, dropped, mailbox>>[n]}}
    \cup {<<"state", s>> : s \in {s \in TurnStates :
             /\ s \in {active.ts} \cup {reg[p].ts : p \in Procs}
             /\ i \in pend[s]}}
    \cup {<<"locals", p>> : p \in {p \in Procs :
             i \in reg[p].items \cup reg[p].input}}

\* input_queue: a prompt or a mail that was accepted is in one place, until it
\* is recorded once or dropped together with a turn that reports its end.
NothingLost ==
    ~overlap => \A i \in sent : Cardinality(Places(i)) = 1

\* A prompt that was taken is neither in the history nor dropped with an event.
Waiting == (sent \cap Inputs) \ (recorded \cup dropped) # {}

\* A turn leaves pending input where it is once more: run_turn fails before it
\* samples and is run again, or a compaction lets the model resume first.
Postpones(t) ==
    \/ PreSamplingFails(t)
    \/ FollowUp(t) /\ pc'[t] = "drain" /\ ~reg'[t].drain

\* abort_all_tasks, start_task and the turn loop: an operation of the loop ends
\* whatever the turn in the way is doing, even if the server never answers a
\* warm-up request (the next start cancels it) and the model calls tools for
\* ever.  A prompt is recorded or dropped, unless a turn postpones it for ever:
\* the loop of RegularTask::run has no limit.
SubmissionIsHandled ==
    /\ pc[Loop] # "idle" ~> (pc[Loop] = "idle" \/ overlap)
    /\ \/ []<><<\E t \in Turns : Postpones(t)>>_vars
       \/ Waiting ~> (~Waiting \/ overlap)

\* debug_assert!(turn.task.is_none()) in start_task.
SlotIsFree ==
    \A p \in Procs : pc[p] \in {"insert", "publish"} => active.task = 0
=============================================================================
