------------------------------ MODULE LoopGuard ------------------------------
(* The loop guard of one session with a local model: PathologyState and        *)
(* ResampleState of codex-rs/core/src/pathology.rs, the repeated-call guard of *)
(* tools/repeat_guard.rs and tools/parallel.rs, and the part of                *)
(* try_run_sampling_request (session/turn.rs) that feeds them.                 *)
(*                                                                             *)
(* A tool call is its signature, which also stands for its arguments.  Of the  *)
(* history only the calls that the current completion recorded and that have   *)
(* no output yet are kept: that is what truncate_history and drain_in_flight   *)
(* change.  A tool future is lazy, so the guard judges a call when the futures *)
(* are drained, after the completion has ended.  The drain polls all of them   *)
(* and records their outputs in order.                                         *)
EXTENDS Integers, SequencesExt

CONSTANTS
    Calls,         \* signatures of tool calls
    LoopTexts,     \* texts the server may report as repeating
    NoText,        \* no text was reported
    Window,        \* WINDOW, 10 in the code
    Threshold,     \* REPEAT_THRESHOLD, 3 in the code
    MaxSpans,      \* MAX_SPANS, 16 in the code
    StartN,        \* ngram_penalty_start_n
    Budgets,       \* values of `resamples`, the number of clean retries
    MaxCalls,      \* bound: calls in one completion
    MaxFailures    \* bound: failures before the exploration stops

ASSUME LoopGuardAssumption ==
    /\ NoText \notin Calls \cup LoopTexts
    /\ {Window, Threshold, MaxSpans, StartN, MaxCalls, MaxFailures} \subseteq Nat \ {0}
    /\ Budgets \subseteq Nat

VARIABLES
    params,      \* the session's settings; never changed
    pc,          \* "idle", "stream" or "drain"
    inFlight,    \* in_flight: the calls of this completion, not yet dispatched
    running,     \* the dispatched ones, each "run" or "skip", not yet recorded
    unanswered,  \* calls this completion left in the history without output
    recent,      \* recent_tool_calls
    used, requested,        \* ResampleState
    failures,    \* consecutive_failures
    spans,       \* spans
    failedSinceBegin, cleanFinish,
    extra,       \* the ngram_penalty of the current request
    \* History of what happened, not part of the program's state:
    fate,        \* how the current completion went so far
    streak,      \* completions that failed since the last clean one
    claimed,     \* the current completion asked for a resample
    lost,        \* calls of the current completion whose future is gone
    discards     \* completions discarded since the last clean finish

guard == <<params, recent, used, requested, failures, spans, failedSinceBegin, cleanFinish>>
history == <<fate, streak, claimed, discards>>
calls == <<inFlight, running, unanswered, lost>>
vars == <<pc, calls, guard, extra, history>>

-----------------------------------------------------------------------------
NoPenalty == [spans |-> <<>>, start_n |-> 0, steps |-> 0]

\* resamples, backtrack_on_repetition, and whether [tools] repeat_guard is "log"
\* or "warn".
Settings == [resamples : Budgets, backtrack : BOOLEAN, repeatGuard : BOOLEAN]

Counters ==
    /\ params \in Settings
    /\ pc \in {"idle", "stream", "drain"}
    /\ inFlight \in Seq(Calls) /\ running \in Seq({"run", "skip"})
    /\ unanswered \in Int /\ lost \in Nat
    /\ used \in 0..params.resamples /\ requested \in BOOLEAN
    /\ failures \in Nat
    /\ failedSinceBegin \in BOOLEAN /\ cleanFinish \in BOOLEAN
    /\ fate \in {"open", "clean", "bad"}
    /\ streak \in Nat /\ claimed \in BOOLEAN /\ discards \in Nat

Windows ==
    /\ recent \in Seq(Calls) /\ Len(recent) <= Window + 1
    /\ spans \in Seq(Calls \cup LoopTexts) /\ Len(spans) <= MaxSpans
    /\ \A i, j \in 1..Len(spans) : spans[i] = spans[j] => i = j
    /\ extra.start_n \in 0..StartN

\* The sizes of the windows and of the budget, no text listed twice, and the
\* domains of the rest.
TypeOK == Counters /\ Windows

Init ==
    /\ params \in Settings
    /\ pc = "idle"
    /\ inFlight = <<>> /\ running = <<>>
    /\ unanswered = 0 /\ lost = 0
    /\ recent = <<>>
    /\ used = 0 /\ requested = FALSE
    /\ failures = 0 /\ spans = <<>>
    /\ failedSinceBegin = FALSE /\ cleanFinish = FALSE
    /\ extra = NoPenalty
    /\ fate = "open" /\ streak = 0
    /\ claimed = FALSE /\ discards = 0

\* The last n elements of s.
Tail_n(s, n) == IF Len(s) <= n THEN s ELSE SubSeq(s, Len(s) - n + 1, Len(s))

\* The spans after each of the new ones: it goes to the end unless it is there
\* already.
Pushed(old, new) ==
    LET all[i \in 0..Len(new)] ==
            IF i = 0 THEN old
            ELSE IF new[i] = NoText \/ Contains(all[i - 1], new[i]) THEN all[i - 1]
            ELSE Append(all[i - 1], new[i])
    IN  all

\* Mutant: the spans are never trimmed.
AddSpansUncapped(old, new) == Pushed(old, new)[Len(new)]

\* The new spans are added, and the oldest make way.
AddSpans(old, new) == Tail_n(Pushed(old, new)[Len(new)], MaxSpans)

\* PathologyState::on_failure.
OnFailure(new) ==
    /\ failures' = failures + 1
    /\ spans' = AddSpans(spans, new)
    /\ failedSinceBegin' = TRUE
    /\ cleanFinish' = FALSE

-----------------------------------------------------------------------------
\* request_extra: the first match length drops by one per failure, down to 1,
\* the scale rises by a step.
RequestExtra(n, texts) ==
    IF n = 0 \/ texts = <<>> THEN NoPenalty
    ELSE [spans |-> texts,
          start_n |-> IF StartN > n - 1 THEN StartN - (n - 1) ELSE 1,
          steps |-> n - 1]

\* begin_call clears the state after a clean completion; the request is sent.
BeginCall ==
    LET clear == cleanFinish /\ ~failedSinceBegin
        n == IF clear THEN 0 ELSE failures
        texts == IF clear THEN <<>> ELSE spans
        run == CASE fate = "bad" -> streak + 1 [] fate = "clean" -> 0 [] OTHER -> streak
    IN
    /\ pc = "idle"
    /\ n < MaxFailures /\ run < MaxFailures
    /\ pc' = "stream"
    /\ failures' = n /\ spans' = texts
    /\ failedSinceBegin' = FALSE /\ cleanFinish' = FALSE
    /\ extra' = RequestExtra(n, texts)
    /\ unanswered' = 0 /\ lost' = 0
    /\ fate' = "open" /\ streak' = run
    /\ claimed' = FALSE
    /\ UNCHANGED <<params, inFlight, running, recent, used, requested, discards>>

\* The call is recorded in the history and its future queued.
OutputItemDone(call) ==
    /\ pc = "stream" /\ unanswered < MaxCalls
    /\ inFlight' = Append(inFlight, call)
    /\ unanswered' = unanswered + 1
    /\ UNCHANGED <<pc, running, lost, guard, extra, history>>

\* A tool search with arguments that cannot be parsed (RespondToModel): call and
\* error message are recorded at once, but the message carries no call id, so
\* that it answers no call.
MalformedSearch ==
    /\ pc = "stream" /\ unanswered < MaxCalls
    /\ unanswered' = unanswered + 1
    /\ lost' = lost + 1
    /\ UNCHANGED <<pc, inFlight, running, guard, extra, history>>

\* The stream breaks, the turn's token is cancelled, or mail preempts the
\* completion: what was queued is drained.
StreamEnds ==
    /\ pc = "stream"
    /\ pc' = "drain"
    /\ UNCHANGED <<calls, guard, extra, history>>

\* The turn's future is dropped where it waits; its calls stay in the history.
Abandon ==
    /\ pc' = "idle"
    /\ inFlight' = <<>> /\ running' = <<>>
    /\ lost' = lost + Len(inFlight) + Len(running)
    /\ UNCHANGED unanswered

\* handle_task_abort: the task has not ended 100 ms after its token was
\* cancelled.  It may be in mid-stream or in the drain.
TurnDropped ==
    /\ pc \in {"stream", "drain"}
    /\ Abandon
    /\ UNCHANGED <<guard, extra, history>>

\* Mutant: the history is cut back but the tool futures stay queued.
DropHistoryOnly == unanswered' = 0 /\ lost' = 0 /\ UNCHANGED inFlight

\* in_flight.clear(); truncate_history(history_mark).
Drop == inFlight' = <<>> /\ unanswered' = 0 /\ lost' = 0

\* truncate_history waits for the session's lock, where the turn may be dropped.
Discard == (Drop /\ pc' = "drain" /\ UNCHANGED running) \/ Abandon

-----------------------------------------------------------------------------
(* ResponseEvent::Completed.                                                   *)

\* try_claim.
CanClaim == used < params.resamples

\* A completion is discarded for a pending request, or for a loop or a cap hit
\* that can claim a resample.
Resampled(failing) == requested \/ (failing /\ CanClaim)

CompletedResampled(failing) ==
    /\ pc = "stream" /\ Resampled(failing)
    /\ used' = IF requested THEN used ELSE used + 1
    /\ requested' = FALSE
    /\ Discard
    /\ fate' = IF failing THEN "bad" ELSE fate
    /\ discards' = discards + 1
    /\ UNCHANGED <<params, recent, failures, spans, failedSinceBegin, cleanFinish, extra,
                   streak, claimed>>

\* finish reason `repetition`, or `length` with the repetition flagged.
CompletedLooped ==
    /\ pc = "stream" /\ ~Resampled(TRUE)
    /\ \E text \in LoopTexts \cup {NoText} : OnFailure(<<text>>)
    /\ IF params.backtrack THEN Discard ELSE pc' = "drain" /\ UNCHANGED calls
    /\ fate' = "bad"
    /\ UNCHANGED <<params, recent, used, requested, extra, streak, claimed, discards>>

\* Mutant: a completion cut off at the token cap counts as clean.
CompletedShortAsClean(capped) ==
    /\ pc = "stream" /\ ~Resampled(capped)
    /\ pc' = "drain"
    /\ cleanFinish' = TRUE
    /\ UNCHANGED <<params, calls, recent, used, requested, failures, spans,
                   failedSinceBegin, extra, history>>

\* `length` without a loop or a malformed tool call: neither clean nor failed.
\* Only the cap hit tries to claim a resample.
CompletedShort(capped) ==
    /\ pc = "stream" /\ ~Resampled(capped)
    /\ pc' = "drain"
    /\ UNCHANGED <<calls, guard, extra, history>>

CompletedClean ==
    /\ pc = "stream" /\ ~Resampled(FALSE)
    /\ pc' = "drain"
    /\ cleanFinish' = TRUE
    /\ used' = 0 /\ requested' = FALSE
    /\ fate' = "clean" /\ discards' = 0
    /\ UNCHANGED <<params, calls, recent, failures, spans, failedSinceBegin, extra,
                   streak, claimed>>

-----------------------------------------------------------------------------
(* drain_in_flight: handle_tool_call_with_source for each call, in order.      *)

\* judge_and_remember, for a call id that was not seen before.
Triggered(call) ==
    LET seen == Tail_n(recent, Window)
        repeats == Cardinality({i \in DOMAIN seen : seen[i] = call})
    IN  (recent # <<>> /\ Last(recent) = call) \/ repeats + 1 >= Threshold

Judged == params.repeatGuard \/ params.resamples > 0

Remember(call) ==
    recent' = IF Judged THEN Tail_n(Append(recent, call), Window + 1) ELSE recent

\* The next future is polled for the first time: its call is judged.
Dispatch(call, how) ==
    /\ pc = "drain" /\ inFlight # <<>> /\ Head(inFlight) = call
    /\ inFlight' = Tail(inFlight)
    /\ running' = Append(running, how)
    /\ UNCHANGED <<unanswered, lost>>
    /\ Remember(call)

\* Not a repeat, or the guard is off: the tool runs.
RunCall(call) ==
    /\ Dispatch(call, "run")
    /\ ~requested
    /\ Judged => ~Triggered(call) \/ (~params.repeatGuard /\ ~CanClaim)
    /\ UNCHANGED <<params, pc, used, requested, failures, spans, failedSinceBegin, cleanFinish,
                   extra, fate, streak, claimed, discards>>

\* Mutant: every repeated call of a completion claims a resample.
SkipCallGreedy(call) ==
    LET claims == Triggered(call) /\ CanClaim IN
    /\ Dispatch(call, "skip")
    /\ requested \/ claims
    /\ used' = IF claims THEN used + 1 ELSE used
    /\ requested' = TRUE
    /\ claimed' = (claimed \/ claims)
    /\ fate' = IF claims THEN "bad" ELSE fate
    /\ UNCHANGED <<params, pc, failures, spans, failedSinceBegin, cleanFinish, extra,
                   streak, discards>>

\* request_repeated_call succeeds, or did for an earlier call: skipped.
SkipCall(call) ==
    LET claims == ~requested /\ Triggered(call) /\ CanClaim IN
    /\ Dispatch(call, "skip")
    /\ requested \/ claims
    /\ used' = IF claims THEN used + 1 ELSE used
    /\ requested' = TRUE
    /\ claimed' = (claimed \/ claims)
    /\ fate' = IF claims THEN "bad" ELSE fate
    /\ UNCHANGED <<params, pc, failures, spans, failedSinceBegin, cleanFinish, extra,
                   streak, discards>>

\* No resample left: a repeat is a failure, penalised with the last calls' text,
\* and the tool runs.
PenaliseCall(call) ==
    /\ Dispatch(call, "run")
    /\ params.repeatGuard /\ Triggered(call) /\ ~requested /\ ~CanClaim
    /\ OnFailure(Reverse(Tail_n(recent', Window)))
    /\ fate' = "bad"
    /\ UNCHANGED <<params, pc, used, requested, extra, streak, claimed, discards>>

\* The first future ends and its output is recorded, also that of a skipped call
\* or of one whose tool was cancelled.
OutputRecorded ==
    /\ pc = "drain" /\ running # <<>>
    /\ running' = Tail(running)
    /\ unanswered' = unanswered - 1
    /\ UNCHANGED <<pc, inFlight, lost, guard, extra, history>>

\* It ends in a fatal error: the call is left without an output.
FatalError ==
    /\ pc = "drain" /\ running # <<>> /\ Head(running) = "run"
    /\ running' = Tail(running)
    /\ lost' = lost + 1
    /\ UNCHANGED <<pc, inFlight, unanswered, guard, extra, history>>

Drained ==
    /\ pc = "drain" /\ inFlight = <<>> /\ running = <<>>
    /\ pc' = "idle"
    /\ UNCHANGED <<calls, guard, extra, history>>

-----------------------------------------------------------------------------
Next ==
    \/ BeginCall \/ StreamEnds \/ TurnDropped \/ MalformedSearch
    \/ OutputRecorded \/ FatalError \/ Drained
    \/ CompletedLooped \/ CompletedClean
    \/ \E failing \in BOOLEAN : CompletedResampled(failing) \/ CompletedShort(failing)
    \/ \E call \in Calls :
         OutputItemDone(call) \/ SkipCall(call) \/ RunCall(call) \/ PenaliseCall(call)

Spec == Init /\ [][Next]_vars

-----------------------------------------------------------------------------
(* Properties.                                                                 *)

\* Calls and futures go together, whenever a completion is discarded and wherever
\* the turn is dropped: a call of the completion that has no output in the
\* history still has a future that will record one, or that future is gone
\* (dropped with its turn, ended in a fatal error, or never made for a malformed
\* search), and no future is left for a call that truncate_history removed.  The
\* lost ones are what ensure_call_outputs_present makes up for in the prompt.
HistoryPaired == unanswered = Len(inFlight) + Len(running) + lost

\* The resample budget is per episode: what was used since the last clean finish
\* are the completions discarded since then and the one still to be discarded.
BudgetIsExact ==
    used = discards + (IF requested THEN 1 ELSE 0)

\* Without resampling the penalty lasts exactly as long as the pathology: a
\* request is penalised only after completions that failed with no clean one in
\* between, and has escalated at least once for each of them.
PenaltyFollowsStreak ==
    params.resamples = 0 /\ pc = "stream" =>
        /\ failures >= streak
        /\ streak = 0 => failures = 0 /\ extra = NoPenalty

\* "A repeated tool call claimed a resample at dispatch; the turn driver takes
\* this to discard the completion": a completion is discarded for a repeated
\* call only if it is the one that made it.
DiscardHitsOffender ==
    [][requested /\ ~requested' => claimed]_vars

-----------------------------------------------------------------------------
(* The inductive invariant: nothing is in flight between completions, and what *)
(* the flags of PathologyState say about the completion that is going on.      *)

InFlightInv == (pc = "idle" => inFlight = <<>>) /\ (pc # "drain" => running = <<>>)

PenaltyInv ==
    /\ pc = "stream" =>
         fate = "open" /\ ~failedSinceBegin /\ (failures = 0 => extra = NoPenalty)
    /\ params.resamples = 0 =>
         /\ failures >= streak
         /\ fate = "open" => ~cleanFinish /\ (streak = 0 => failures = 0)
         /\ fate = "bad" => failedSinceBegin /\ failures > streak
         /\ fate = "clean" => cleanFinish /\ ~failedSinceBegin

IInv == Counters /\ BudgetIsExact /\ InFlightInv /\ HistoryPaired /\ PenaltyInv
=============================================================================
