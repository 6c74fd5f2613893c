------------------------------ MODULE ToolRuntime -----------------------------
(* Dispatch and cancellation of the tool calls of one completion               *)
(* (codex-rs/core/src/tools/parallel.rs, registry.rs, and drain_in_flight in   *)
(* session/turn.rs).  A call has two actors: the future that the turn awaits   *)
(* (`caller`) and the task it spawns (`task`), on any two threads.             *)
EXTENDS Naturals, Sequences

CONSTANTS
    Calls,      \* the tool calls of the completion
    Parallel,   \* those of tools that support parallel calls
    Waits       \* those of tools that wait for the runtime's own cancellation

ASSUME CallsAssumption == Parallel \subseteq Calls /\ Waits \subseteq Calls

VARIABLES
    cancelled,  \* the turn's cancellation token
    caller,
    task,
    reached,    \* terminal_outcome_reached of each call
    abort,      \* the task was told to abort
    result,     \* what the task returns
    outcomes,   \* the outcomes passed to on_tool_finish
    response    \* what the turn records for the call

vars == <<cancelled, caller, task, reached, abort, result, outcomes, response>>

-----------------------------------------------------------------------------
\* `undecided`: cancellation was seen, and no outcome was seen before it.
\* `draining`, `owning` and `aborting` await the task: for its result, although
\* the outcome is the caller's, and after telling it to abort.
Callers == {"idle", "selecting", "undecided", "draining", "owning", "aborting",
            "done", "dropped"}

\* A task that is `ended` has its handler's result, one that is `notified` has
\* come past notify_tool_finish_if_unclaimed.
Holding == {"locked", "started", "ended", "notified"}
Terminal == {"finished", "panicked", "aborted"}
Tasks == {"none", "queued"} \cup Holding \cup Terminal

Results == {"rejected", "blocked", "completed", "failed"}
Responses == Results \cup {"skipped", "aborted", "fatal"}

\* Every variable has the type its Rust counterpart has.
TypeOK ==
    /\ cancelled \in BOOLEAN
    /\ caller \in [Calls -> Callers]
    /\ task \in [Calls -> Tasks]
    /\ reached \in [Calls -> BOOLEAN]
    /\ abort \in [Calls -> BOOLEAN]
    /\ result \in [Calls -> Results \cup {"none"}]
    /\ outcomes \in [Calls -> Seq(Results \cup {"aborted"})]
    /\ response \in [Calls -> Responses \cup {"none"}]

Init ==
    /\ cancelled = FALSE
    /\ caller = [c \in Calls |-> "idle"]
    /\ task = [c \in Calls |-> "none"]
    /\ reached = [c \in Calls |-> FALSE]
    /\ abort = [c \in Calls |-> FALSE]
    /\ result = [c \in Calls |-> "none"]
    /\ outcomes = [c \in Calls |-> <<>>]
    /\ response = [c \in Calls |-> "none"]

-----------------------------------------------------------------------------
(* The task.                                                                   *)

TaskMoves(c, from, to) == task[c] = from /\ task' = [task EXCEPT ![c] = to]

\* lock.read() or lock.write().
Acquire(c) ==
    /\ TaskMoves(c, "queued", "locked")
    /\ \A d \in Calls : task[d] \in Holding => {c, d} \subseteq Parallel
    /\ UNCHANGED <<cancelled, caller, reached, abort, result, outcomes, response>>

\* dispatch_any_with_terminal_outcome returns before on_tool_start: no such tool,
\* or an incompatible payload.
Reject(c) ==
    /\ TaskMoves(c, "locked", "finished")
    /\ result' = [result EXCEPT ![c] = "rejected"]
    /\ UNCHANGED <<cancelled, caller, reached, abort, outcomes, response>>

\* on_tool_start.
Start(c) ==
    /\ TaskMoves(c, "locked", "started")
    /\ UNCHANGED <<cancelled, caller, reached, abort, result, outcomes, response>>

\* A hook blocks the call, or the handler and the hooks after it have run.
HandlerReturns(c, r) ==
    /\ TaskMoves(c, "started", "ended")
    /\ result' = [result EXCEPT ![c] = r]
    /\ UNCHANGED <<cancelled, caller, reached, abort, outcomes, response>>

HandlerPanics(c) ==
    /\ TaskMoves(c, "started", "panicked")
    /\ UNCHANGED <<cancelled, caller, reached, abort, result, outcomes, response>>

\* Mutant: the outcome is reported whoever owns it.
NotifyFinishAlways(c) ==
    /\ TaskMoves(c, "ended", "notified")
    /\ reached' = [reached EXCEPT ![c] = TRUE]
    /\ outcomes' = [outcomes EXCEPT ![c] = Append(@, result[c])]
    /\ UNCHANGED <<cancelled, caller, abort, result, response>>

\* notify_tool_finish_if_unclaimed: the swap and the first poll of the callbacks.
NotifyFinish(c) ==
    /\ TaskMoves(c, "ended", "notified")
    /\ reached' = [reached EXCEPT ![c] = TRUE]
    /\ outcomes' = IF reached[c] THEN outcomes
                   ELSE [outcomes EXCEPT ![c] = Append(@, result[c])]
    /\ UNCHANGED <<cancelled, caller, abort, result, response>>

Finish(c) ==
    /\ TaskMoves(c, "notified", "finished")
    /\ UNCHANGED <<cancelled, caller, reached, abort, result, outcomes, response>>

\* An abort takes effect where the task awaits: in the lock, the handler, the
\* hooks, the callbacks or the goal accounting.
AbortLands(c) ==
    /\ abort[c] /\ task[c] \in {"queued"} \cup Holding
    /\ task' = [task EXCEPT ![c] = "aborted"]
    /\ UNCHANGED <<cancelled, caller, reached, abort, result, outcomes, response>>

-----------------------------------------------------------------------------
(* The caller: handle_tool_call_with_source.                                   *)

CallerMoves(c, from, to) == caller[c] = from /\ caller' = [caller EXCEPT ![c] = to]

\* First poll of the future, when the completion has ended: spawn the task.
Dispatch(c) ==
    /\ CallerMoves(c, "idle", "selecting")
    /\ task' = [task EXCEPT ![c] = "queued"]
    /\ UNCHANGED <<cancelled, reached, abort, result, outcomes, response>>

\* The loop guard has the completion resampled: the call is not executed.
Skip(c) ==
    /\ CallerMoves(c, "idle", "done")
    /\ response' = [response EXCEPT ![c] = "skipped"]
    /\ UNCHANGED <<cancelled, task, reached, abort, result, outcomes>>

\* The task's result, or the error of a task that did not return one.
Returned(c) == IF task[c] = "finished" THEN result[c] ELSE "fatal"

\* The select's first branch, and handle.await.
TakeResult(c) ==
    /\ caller[c] \in {"selecting", "draining"}
    /\ task[c] \in Terminal
    /\ caller' = [caller EXCEPT ![c] = "done"]
    /\ response' = [response EXCEPT ![c] = Returned(c)]
    /\ UNCHANGED <<cancelled, task, reached, abort, result, outcomes>>

\* The select's second branch: load, is_finished.
SeeCancel(c) ==
    /\ cancelled
    /\ CallerMoves(c, "selecting", IF reached[c] \/ task[c] \in Terminal
                                   THEN "draining" ELSE "undecided")
    /\ UNCHANGED <<cancelled, task, reached, abort, result, outcomes, response>>

\* terminal_outcome_reached.swap.
ClaimOutcome(c) ==
    /\ c \in Waits
    /\ CallerMoves(c, "undecided", IF reached[c] THEN "draining" ELSE "owning")
    /\ reached' = [reached EXCEPT ![c] = TRUE]
    /\ UNCHANGED <<cancelled, task, abort, result, outcomes, response>>

\* Mutant: the task is only awaited.
AbortTaskNot(c) ==
    /\ c \notin Waits
    /\ CallerMoves(c, "undecided", "aborting")
    /\ UNCHANGED <<cancelled, task, reached, abort, result, outcomes, response>>

\* handle.abort().
AbortTask(c) ==
    /\ c \notin Waits
    /\ CallerMoves(c, "undecided", "aborting")
    /\ abort' = [abort EXCEPT ![c] = TRUE]
    /\ UNCHANGED <<cancelled, task, reached, result, outcomes, response>>

\* Mutant: the answer does not wait for the task.
AnswerAtOnce(c) ==
    /\ caller[c] \in {"owning", "aborting"}
    /\ caller' = [caller EXCEPT ![c] = "done"]
    /\ response' = [response EXCEPT ![c] = "aborted"]
    /\ outcomes' = [outcomes EXCEPT ![c] = Append(@, "aborted")]
    /\ UNCHANGED <<cancelled, task, reached, abort, result>>

\* Mutant: whatever the task did, the extensions are told of an abort.
AnswerReportsAbort(c) ==
    /\ caller[c] \in {"owning", "aborting"}
    /\ task[c] \in Terminal
    /\ caller' = [caller EXCEPT ![c] = "done"]
    /\ response' = [response EXCEPT ![c] = Returned(c)]
    /\ outcomes' = [outcomes EXCEPT ![c] = Append(@, "aborted")]
    /\ UNCHANGED <<cancelled, task, reached, abort, result>>

\* handle.await of a caller that owns the outcome or aborted the task, then
\* notify_tool_aborted.
Answer(c) ==
    /\ caller[c] \in {"owning", "aborting"}
    /\ task[c] \in Terminal
    /\ caller' = [caller EXCEPT ![c] = "done"]
    /\ IF task[c] = "aborted" \/ (caller[c] = "owning" /\ task[c] = "finished")
       THEN /\ response' = [response EXCEPT ![c] = "aborted"]
            /\ outcomes' = [outcomes EXCEPT ![c] = Append(@, "aborted")]
       ELSE /\ response' = [response EXCEPT ![c] = Returned(c)]
            /\ UNCHANGED outcomes
    /\ UNCHANGED <<cancelled, task, reached, abort, result>>

-----------------------------------------------------------------------------
(* The turn.                                                                   *)

Cancel ==
    /\ ~cancelled
    /\ cancelled' = TRUE
    /\ UNCHANGED <<caller, task, reached, abort, result, outcomes, response>>

\* The turn drops the futures: before it has polled one, when the completion is
\* discarded (in_flight.clear), or with its own task, when that has not ended in
\* time after the cancellation.  AbortOnDropHandle aborts the tasks.
DropCalls ==
    /\ cancelled \/ \A c \in Calls : caller[c] = "idle"
    /\ \E c \in Calls : caller[c] \notin {"done", "dropped"}
    /\ caller' = [c \in Calls |-> IF caller[c] = "done" THEN "done" ELSE "dropped"]
    /\ abort' = [c \in Calls |-> abort[c] \/ caller[c] # "done"]
    /\ UNCHANGED <<cancelled, task, reached, result, outcomes, response>>

TaskStep(c) ==
    \/ Acquire(c)
    \/ Reject(c)
    \/ Start(c)
    \/ \E r \in {"blocked", "completed", "failed"} : HandlerReturns(c, r)
    \/ HandlerPanics(c)
    \/ NotifyFinish(c)
    \/ Finish(c)
    \/ AbortLands(c)

CallerStep(c) ==
    \/ Dispatch(c)
    \/ Skip(c)
    \/ TakeResult(c)
    \/ SeeCancel(c)
    \/ ClaimOutcome(c)
    \/ AbortTask(c)
    \/ Answer(c)

Next ==
    \/ \E c \in Calls : TaskStep(c) \/ CallerStep(c)
    \/ Cancel
    \/ DropCalls

Spec == Init /\ [][Next]_vars

\* The runtime polls what is ready.  A handler may take for ever (a question to
\* the user), unless the turn is cancelled and the tool waits for its runtime's
\* cancellation; then it ends its process and returns.
Fairness ==
    \A c \in Calls :
        /\ WF_vars(CallerStep(c))
        /\ WF_vars(Acquire(c))
        /\ WF_vars(Reject(c) \/ Start(c))
        /\ WF_vars(NotifyFinish(c))
        /\ WF_vars(Finish(c))
        /\ WF_vars(AbortLands(c))
        /\ WF_vars(cancelled /\ c \in Waits /\ \E r \in {"completed", "failed"} :
                       HandlerReturns(c, r))

FairSpec == Spec /\ Fairness

-----------------------------------------------------------------------------
(* Properties.                                                                 *)

\* A call that was executed is answered only when its task has ended: no tool
\* is still at work when the model, or the user, is told how the call ended
\* (handle.await after the abort, and of a tool that waits for its runtime).
AnsweredIsStopped ==
    \A c \in Calls :
        caller[c] = "done" /\ response[c] # "skipped" => task[c] \in Terminal

\* on_tool_finish is called once for a call, however its end and the
\* cancellation interleave.  The one exception: a tool that does not wait for
\* its runtime has reported its end after the caller looked at the flag, and the
\* abort cuts its task off before it returns.
OneOutcome ==
    \A c \in Calls :
        \/ Len(outcomes[c]) <= 1
        \/ c \notin Waits /\ task[c] = "aborted" /\ Len(outcomes[c]) = 2

\* The extensions are told what the model is told: a result that is answered is
\* the one outcome reported, and a call answered as aborted was last reported
\* as aborted.
OutcomeMatchesResponse ==
    \A c \in Calls :
        /\ response[c] \in {"blocked", "completed", "failed"} =>
             outcomes[c] = <<response[c]>>
        /\ response[c] = "aborted" =>
             outcomes[c] # <<>> /\ outcomes[c][Len(outcomes[c])] = "aborted"
        /\ response[c] \in {"rejected", "skipped"} => outcomes[c] = <<>>

\* When the turn is cancelled every call ends, also one that waits for the lock
\* behind others, and one whose handler would not have returned.
CancelEnds ==
    cancelled ~> \A c \in Calls : caller[c] \in {"done", "dropped"}
-----------------------------------------------------------------------------
(* The inductive invariant of ToolRuntimeProofs.                               *)

Ends == {"blocked", "completed", "failed"}

\* What the caller's place says about the call.
CallerInv(c) ==
    /\ caller[c] = "idle" => task[c] = "none"
    /\ caller[c] = "owning" => c \in Waits /\ reached[c] /\ outcomes[c] = <<>>
    /\ caller[c] = "aborting" => c \notin Waits
    /\ caller[c] # "done" => response[c] = "none"
    /\ caller[c] = "done" =>
         \/ response[c] = "skipped" /\ task[c] = "none" /\ outcomes[c] = <<>>
         \/ response[c] # "skipped" /\ task[c] \in Terminal

\* What the task's place says about its result.
TaskInv(c) ==
    /\ task[c] \in {"none", "queued", "locked", "started"} => result[c] = "none"
    /\ task[c] \in {"ended", "notified"} => result[c] \in Ends
    /\ task[c] = "notified" => reached[c]
    /\ task[c] = "finished" => \/ result[c] = "rejected"
                               \/ result[c] \in Ends /\ reached[c]

\* Who has reported the outcome: nobody while the flag is down, the task once it
\* is up, unless the caller owns it (or was dropped when it did).
ReportInv(c) ==
    /\ caller[c] # "done" /\ ~reached[c] => outcomes[c] = <<>>
    /\ caller[c] # "done" /\ task[c] \notin {"notified"} \cup Terminal =>
         outcomes[c] = <<>>
    /\ caller[c] \in Callers \ {"owning", "done", "dropped"} /\ reached[c] =>
         /\ task[c] \in {"notified", "finished", "aborted"}
         /\ result[c] \in Ends /\ outcomes[c] = <<result[c]>>
    /\ caller[c] = "dropped" => Len(outcomes[c]) <= 1
    /\ task[c] = "finished" /\ result[c] = "rejected" /\ caller[c] # "done" =>
         outcomes[c] = <<>>

\* The task, the caller and the flag agree on who has told the extensions what:
\* no outcome is lost between them and none but a cut-off one is told twice.
IInv ==
    /\ TypeOK
    /\ OneOutcome
    /\ OutcomeMatchesResponse
    /\ \A c \in Calls : CallerInv(c) /\ TaskInv(c) /\ ReportInv(c)
=============================================================================
