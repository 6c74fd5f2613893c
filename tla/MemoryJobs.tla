------------------------------ MODULE MemoryJobs ------------------------------
(* The leased jobs of the memory pipeline: extraction of one thread (stage 1)  *)
(* and global consolidation (phase 2), as rows of the memories database        *)
(* (codex-rs/state/src/runtime/memories.rs) and as worked on by the processes  *)
(* that claim them (codex-rs/memories/write/src/phase1.rs, phase2.rs).         *)
(*                                                                             *)
(* Any number of Millie processes share the database.  A claim is one grant of *)
(* a job to one of them; its number is its ownership token.  Every transaction *)
(* is one step.  `now` is read before BEGIN IMMEDIATE obtains the write lock,  *)
(* so a step may use a reading up to Delay old.                                *)
EXTENDS Naturals, FiniteSets

CONSTANTS
    Threads,      \* threads whose rollouts are extracted
    MaxRunning,   \* max_running_jobs of stage 1
    Retries,      \* DEFAULT_RETRY_REMAINING
    Lease,        \* lease_seconds
    RetryDelay,   \* retry_delay_seconds
    Cooldown,     \* PHASE2_SUCCESS_COOLDOWN_SECONDS
    Delay,        \* how long a transaction may wait for the write lock
    MaxClaims,    \* bound: grants
    MaxTime,      \* bound: clock
    MaxVersion    \* bound: values of a thread's updated_at

ASSUME MemoryJobsAssumption ==
    /\ {MaxRunning, Lease, RetryDelay, Cooldown, Delay} \subseteq Nat
    /\ {Retries, MaxClaims, MaxTime, MaxVersion} \subseteq Nat \ {0}
    /\ "global" \notin Threads /\ IsFiniteSet(Threads)

VARIABLES
    clock,
    job,        \* the memory_stage1 row of each thread
    glob,       \* the memory_consolidate_global row
    out,        \* the stage1_outputs row of each thread
    claim,      \* what the holder of each grant is doing
    claims,     \* grants so far
    baseline,   \* snapshots read by the last consolidation marked successful
    replaced    \* threads with an output stored since then

vars == <<clock, job, glob, out, claim, claims, baseline, replaced>>

-----------------------------------------------------------------------------
Global == "global"
Claims == 1..MaxClaims
Versions == 1..MaxVersion

\* No row.  0 stands for NULL: versions and the clock start at 1.
NoJob == [status |-> "none", token |-> 0, lease |-> 0, retry |-> 0,
          retries |-> 0, input |-> 0, success |-> 0]
NoGlobal == [status |-> "none", token |-> 0, lease |-> 0, retry |-> 0,
             finished |-> 0, failed |-> FALSE]
NoOutput == [source |-> 0, selected |-> 0]
Unused == [at |-> "unused", key |-> Global, source |-> 0, lease |-> 0,
           snap |-> {}, wiped |-> FALSE]

\* A consolidation is claimed, has loaded its inputs, has synced them into the
\* workspace, waits for its agent, has confirmed its ownership, has reset the
\* workspace baseline.
Consolidating == {"claimed", "loaded", "synced", "agent", "confirmed", "reset"}
Working == {"extracting"} \cup Consolidating

Times == 0..(MaxTime + Lease + RetryDelay)

Rows == [status : {"none", "running", "done", "error"}, token : 0..MaxClaims,
         lease : Times, retry : Times, retries : 0..Retries,
         input : 0..MaxVersion, success : 0..MaxVersion]
GlobalRows == [status : {"none", "pending", "running", "done", "error"},
               token : 0..MaxClaims, lease : Times, retry : Times,
               finished : Times, failed : BOOLEAN]
Outputs == [source : 0..MaxVersion, selected : 0..MaxVersion]
Snapshots == SUBSET (Threads \X Versions)
Holders == [at : Working \cup {"unused", "over"}, key : Threads \cup {Global},
            source : 0..MaxVersion, lease : Times, snap : Snapshots,
            wiped : BOOLEAN]

\* Every column and local has the type the schema and the code give it.
TypeOK ==
    /\ clock \in 1..MaxTime
    /\ job \in [Threads -> Rows]
    /\ glob \in GlobalRows
    /\ out \in [Threads -> Outputs]
    /\ claim \in [Claims -> Holders]
    /\ claims \in 0..MaxClaims
    /\ baseline \in Snapshots
    /\ replaced \subseteq Threads

Init ==
    /\ clock = 1
    /\ job = [t \in Threads |-> NoJob]
    /\ glob = NoGlobal
    /\ out = [t \in Threads |-> NoOutput]
    /\ claim = [c \in Claims |-> Unused]
    /\ claims = 0
    /\ baseline = {}
    /\ replaced = {}

-----------------------------------------------------------------------------
Tick ==
    /\ clock < MaxTime
    /\ clock' = clock + 1
    /\ UNCHANGED <<job, glob, out, claim, claims, baseline, replaced>>

\* Readings of the clock that a step made now may be using.
Readings == {n \in 1..clock : n + Delay >= clock}

\* Grant number claims + 1.
Grant(key, source, now) ==
    /\ claims < MaxClaims
    /\ claims' = claims + 1
    /\ claim' = [claim EXCEPT ![claims + 1] =
                   [at |-> IF key = Global THEN "claimed" ELSE "extracting",
                    key |-> key, source |-> source, lease |-> now + Lease,
                    snap |-> {}, wiped |-> FALSE]]

Move(c, to) == claim' = [claim EXCEPT ![c].at = to]

\* The holder returns, and its locals are gone.
End(c) ==
    claim' = [claim EXCEPT ![c].at = "over", ![c].source = 0, ![c].snap = {}]

\* enqueue_global_consolidation; its watermark decides nothing and is left out.
Enqueued ==
    IF glob.status = "running" THEN glob
    ELSE [glob EXCEPT !.status = "pending", !.retry = 0]

-----------------------------------------------------------------------------
(* Stage 1.                                                                    *)

\* Rows counted against max_running_jobs.
Busy(now) == {t \in Threads : job[t].status = "running" /\ job[t].lease > now}

\* The row a claim writes.
Stage1Claimed(t, src, now) ==
    /\ Grant(t, src, now)
    /\ job' = [job EXCEPT ![t] =
                 [status |-> "running", token |-> claims + 1,
                  lease |-> now + Lease, retry |-> 0,
                  retries |-> IF src > @.input THEN Retries ELSE @.retries,
                  input |-> src, success |-> @.success]]
    /\ UNCHANGED <<clock, glob, out, baseline, replaced>>

\* Mutant: retries are not limited.
TryClaimStage1JobUnlimited(t, src, now) ==
    /\ src > out[t].source /\ src > job[t].success
    /\ job[t].status = "running" => job[t].lease <= now
    /\ job[t].retry <= now \/ src > job[t].input
    /\ Cardinality(Busy(now) \ {t}) < MaxRunning
    /\ Stage1Claimed(t, src, now)

\* Mutant: one job too many.
TryClaimStage1JobOver(t, src, now) ==
    /\ src > out[t].source /\ src > job[t].success
    /\ job[t].status = "running" => job[t].lease <= now
    /\ job[t].retry <= now \/ src > job[t].input
    /\ job[t].retries > 0 \/ src > job[t].input
    /\ Cardinality(Busy(now) \ {t}) <= MaxRunning
    /\ Stage1Claimed(t, src, now)

\* Mutant: only the output is looked at to see whether there is work.
TryClaimStage1JobAgain(t, src, now) ==
    /\ src > out[t].source
    /\ job[t].status = "running" => job[t].lease <= now
    /\ job[t].retry <= now \/ src > job[t].input
    /\ job[t].retries > 0 \/ src > job[t].input
    /\ Cardinality(Busy(now) \ {t}) < MaxRunning
    /\ Stage1Claimed(t, src, now)

\* try_claim_stage1_job; `src` is the thread's updated_at in the list the process
\* read, which may be older than the one of an earlier claim.
\* (For a thread without a row every condition on the row holds.)
TryClaimStage1Job(t, src, now) ==
    /\ src > out[t].source /\ src > job[t].success
    /\ job[t].status = "running" => job[t].lease <= now
    /\ job[t].retry <= now \/ src > job[t].input
    /\ job[t].retries > 0 \/ src > job[t].input
    /\ Cardinality(Busy(now) \ {t}) < MaxRunning
    /\ Stage1Claimed(t, src, now)

\* Mutant: the token is not compared.
OwnedAnyToken(c) == job[claim[c].key].status = "running"

\* WHERE status = 'running' AND ownership_token = ?
Owned(c) ==
    LET row == job[claim[c].key] IN row.status = "running" /\ row.token = c

Done(row) == [row EXCEPT !.status = "done", !.lease = 0, !.success = row.input]
Failed(row) ==
    [row EXCEPT !.status = "error", !.lease = 0, !.retry = clock + RetryDelay,
                !.retries = row.retries - 1]

\* mark_stage1_job_succeeded.
MarkStage1JobSucceeded(c) ==
    /\ claim[c].at = "extracting"
    /\ End(c)
    /\ IF Owned(c)
       THEN LET t == claim[c].key IN
            /\ job' = [job EXCEPT ![t] = Done(@)]
            /\ IF claim[c].source >= out[t].source
               THEN /\ out' = [out EXCEPT ![t].source = claim[c].source]
                    /\ replaced' = replaced \cup {t}
               ELSE UNCHANGED <<out, replaced>>
            /\ glob' = Enqueued
       ELSE UNCHANGED <<job, out, glob, replaced>>
    /\ UNCHANGED <<clock, claims, baseline>>

\* mark_stage1_job_succeeded_no_output.
MarkStage1JobSucceededNoOutput(c) ==
    /\ claim[c].at = "extracting"
    /\ End(c)
    /\ IF Owned(c)
       THEN LET t == claim[c].key IN
            /\ job' = [job EXCEPT ![t] = Done(@)]
            /\ out' = [out EXCEPT ![t] = NoOutput]
            /\ glob' = IF out[t].source # 0 THEN Enqueued ELSE glob
       ELSE UNCHANGED <<job, out, glob>>
    /\ UNCHANGED <<clock, claims, baseline, replaced>>

\* mark_stage1_job_failed.
MarkStage1JobFailed(c) ==
    /\ claim[c].at = "extracting"
    /\ End(c)
    /\ job' = IF Owned(c)
              THEN [job EXCEPT ![claim[c].key] = Failed(@)] ELSE job
    /\ UNCHANGED <<clock, glob, out, claims, baseline, replaced>>

-----------------------------------------------------------------------------
(* Phase 2.                                                                    *)

\* Mutant: a row that is being worked on can be claimed again.
TryClaimGlobalNoLease(now) ==
    /\ glob.retry <= now
    /\ glob.failed \/ glob.finished = 0 \/ glob.finished + Cooldown <= now
    /\ Grant(Global, 0, now)
    /\ glob' = [NoGlobal EXCEPT !.status = "running", !.token = claims + 1,
                                !.lease = now + Lease]
    /\ UNCHANGED <<clock, job, out, baseline, replaced>>

\* try_claim_global_phase2_job.
TryClaimGlobalPhase2Job(now) ==
    /\ glob.retry <= now
    /\ glob.status = "running" => glob.lease <= now
    /\ glob.failed \/ glob.finished = 0 \/ glob.finished + Cooldown <= now
    /\ Grant(Global, 0, now)
    /\ glob' = [NoGlobal EXCEPT !.status = "running", !.token = claims + 1,
                                !.lease = now + Lease]
    /\ UNCHANGED <<clock, job, out, baseline, replaced>>

\* get_phase2_input_selection, one of the rows it reads: which ones depends on
\* use, age and mode.  A row is read after the keys of all, as it is by then; one
\* that changed since its key was read is among those left out.
LoadRow(c, t) ==
    /\ claim[c].at = "claimed"
    /\ out[t].source # 0 /\ \A v \in Versions : <<t, v>> \notin claim[c].snap
    /\ claim' = [claim EXCEPT ![c].snap = @ \cup {<<t, out[t].source>>}]
    /\ UNCHANGED <<clock, job, glob, out, claims, baseline, replaced>>

\* It returns.
LoadInputs(c) ==
    /\ claim[c].at = "claimed"
    /\ Move(c, "loaded")
    /\ UNCHANGED <<clock, job, glob, out, claims, baseline, replaced>>

\* sync_phase2_workspace_inputs: no row changes.
SyncWorkspace(c) ==
    /\ claim[c].at = "loaded"
    /\ Move(c, "synced")
    /\ UNCHANGED <<clock, job, glob, out, claims, baseline, replaced>>

\* There is a diff: spawn_consolidation_agent.
SpawnAgent(c) ==
    /\ claim[c].at = "synced"
    /\ Move(c, "agent")
    /\ UNCHANGED <<clock, job, glob, out, claims, baseline, replaced>>

OwnsGlobal(c) == glob.status = "running" /\ glob.token = c

\* heartbeat_global_phase2_job, from loop_agent (`to` is "agent") and before the
\* baseline is reset ("confirmed").  Without the lock the claim is given up:
\* what `failed` does then finds no row of its own.
Heartbeat(c, now, to) ==
    /\ claim[c].at = "agent"
    /\ IF OwnsGlobal(c)
       THEN /\ glob' = [glob EXCEPT !.lease = now + Lease]
            /\ claim' = [claim EXCEPT ![c].at = to, ![c].lease = now + Lease]
       ELSE /\ UNCHANGED glob
            /\ End(c)
    /\ UNCHANGED <<clock, job, out, claims, baseline, replaced>>

\* reset_memory_workspace_baseline.
ResetBaseline(c) ==
    /\ claim[c].at = "confirmed"
    /\ Move(c, "reset")
    /\ UNCHANGED <<clock, job, glob, out, claims, baseline, replaced>>

\* Mutant: a row is marked although its output is not the one that was read.
ReselectedReplaced(snap) ==
    [t \in Threads |-> [out[t] EXCEPT !.selected =
        IF out[t].source # 0 /\ \E v \in Versions : <<t, v>> \in snap
        THEN CHOOSE v \in Versions : <<t, v>> \in snap ELSE 0]]

\* The exact snapshots of a consolidation that are still the current ones.
Reselected(snap) ==
    [t \in Threads |-> [out[t] EXCEPT !.selected =
        IF <<t, out[t].source>> \in snap THEN out[t].source ELSE 0]]

\* mark_global_phase2_job_succeeded: when the sync changed nothing, or after the
\* baseline was reset.
MarkGlobalPhase2JobSucceeded(c) ==
    /\ claim[c].at \in {"synced", "reset"}
    /\ End(c)
    /\ IF OwnsGlobal(c)
       THEN /\ glob' = [glob EXCEPT !.status = "done", !.finished = clock,
                                    !.lease = 0, !.failed = FALSE]
            /\ out' = Reselected(claim[c].snap)
            /\ baseline' = claim[c].snap
            /\ replaced' = {}
       ELSE UNCHANGED <<glob, out, baseline, replaced>>
    /\ UNCHANGED <<clock, job, claims>>

\* mark_global_phase2_job_failed.  The fallback for rows without a token that
\* follows a miss finds none: a running row has one.
MarkGlobalPhase2JobFailed(c) ==
    /\ claim[c].at \in Consolidating \ {"reset"}
    /\ End(c)
    /\ glob' = IF OwnsGlobal(c)
               THEN [glob EXCEPT !.status = "error", !.finished = clock,
                                 !.lease = 0, !.retry = clock + RetryDelay,
                                 !.failed = TRUE]
               ELSE glob
    /\ UNCHANGED <<clock, job, out, claims, baseline, replaced>>

\* The process of a claim dies, or its last transaction fails: the row stays.
Crash(c) ==
    /\ claim[c].at \in Working
    /\ End(c)
    /\ UNCHANGED <<clock, job, glob, out, claims, baseline, replaced>>

-----------------------------------------------------------------------------
(* What the other operations do to the rows.                                   *)

\* The claims whose row is deleted under them.
Wipe(keys) ==
    claim' = [c \in Claims |-> IF claim[c].key \in keys
                               THEN [claim[c] EXCEPT !.wiped = TRUE]
                               ELSE claim[c]]

\* delete_thread_memory.
DeleteThreadMemory(t) ==
    /\ out' = [out EXCEPT ![t] = NoOutput]
    /\ job' = [job EXCEPT ![t] = NoJob]
    /\ glob' = IF out[t].selected # 0 THEN Enqueued ELSE glob
    /\ Wipe({t})
    /\ UNCHANGED <<clock, claims, baseline, replaced>>

\* clear_memory_data_in_pool.  The callers go on to delete what is in the memory
\* workspace, without a lock and without touching a row.
ClearMemoryData ==
    /\ out' = [t \in Threads |-> NoOutput]
    /\ job' = [t \in Threads |-> NoJob]
    /\ glob' = NoGlobal
    /\ Wipe(Threads \cup {Global})
    /\ UNCHANGED <<clock, claims, baseline, replaced>>

\* prune_stage1_outputs_for_retention, one of the rows it deletes.
PruneStage1Output(t) ==
    /\ out[t].source # 0 /\ out[t].selected = 0
    /\ out' = [out EXCEPT ![t] = NoOutput]
    /\ UNCHANGED <<clock, job, glob, claim, claims, baseline, replaced>>

\* enqueue_global_consolidation, as mark_thread_memory_mode_polluted calls it:
\* the selection it looked at may be gone by now.
EnqueueGlobalConsolidation ==
    /\ glob' = Enqueued
    /\ UNCHANGED <<clock, job, out, claim, claims, baseline, replaced>>

Stage1(c) ==
    \/ MarkStage1JobSucceeded(c)
    \/ MarkStage1JobSucceededNoOutput(c)
    \/ MarkStage1JobFailed(c)

Phase2(c) ==
    \/ \E t \in Threads : LoadRow(c, t)
    \/ LoadInputs(c)
    \/ SyncWorkspace(c)
    \/ SpawnAgent(c)
    \/ \E now \in Readings, to \in {"agent", "confirmed"} : Heartbeat(c, now, to)
    \/ ResetBaseline(c)
    \/ MarkGlobalPhase2JobSucceeded(c)
    \/ MarkGlobalPhase2JobFailed(c)

Next ==
    \/ Tick
    \/ \E t \in Threads :
         \/ \E src \in Versions, now \in Readings :
              TryClaimStage1Job(t, src, now)
         \/ DeleteThreadMemory(t)
         \/ PruneStage1Output(t)
    \/ \E now \in Readings : TryClaimGlobalPhase2Job(now)
    \/ \E c \in Claims : Stage1(c) \/ Phase2(c) \/ Crash(c)
    \/ ClearMemoryData
    \/ EnqueueGlobalConsolidation

Spec == Init /\ [][Next]_vars

-----------------------------------------------------------------------------
(* Properties.                                                                 *)

\* The claims that hold an unexpired lease on a row nobody deleted.
Holds(c) == claim[c].at \in Working /\ claim[c].lease > clock /\ ~claim[c].wiped

\* A worker within its lease owns its row: no clock reading that is old when the
\* transaction starts, retry, enqueue or second process takes the job from it,
\* so no two workers within their leases have the same job
\* (try_claim_stage1_job, try_claim_global_phase2_job).
LeaseHolderOwnsJob ==
    \A c \in Claims : Holds(c) =>
        IF claim[c].key = Global THEN OwnsGlobal(c) ELSE Owned(c)

\* At most MaxRunning extractions hold a lease, across processes, although each
\* claim counts with its own reading of the clock (max_running_jobs).
RunningCap == Cardinality(Busy(clock)) <= MaxRunning

\* A thread's output was extracted from the version of the thread that its job
\* row records as done, although a worker that lost its lease may finish later
\* than the one that replaced it.
SuccessMatchesOutput ==
    \A t \in Threads : out[t].source # 0 => job[t].success = out[t].source

\* What is marked as selected was read by the last successful consolidation, and
\* it is still the thread's output unless another was stored after that success:
\* a consolidation marks no output that was replaced while it ran, and leaves no
\* mark of an earlier one (mark_global_phase2_job_succeeded: "only the exact
\* selected stage-1 snapshots remain marked").
SelectedWasConsolidated ==
    \A t \in Threads : out[t].selected # 0 =>
        /\ <<t, out[t].selected>> \in baseline
        /\ out[t].selected = out[t].source \/ t \in replaced

\* The version recorded as done only grows while the row exists: an old thread
\* list does not have an older version extracted again.
SuccessNeverRegresses ==
    [][\A t \in Threads :
         job'[t].status # "none" => job'[t].success >= job[t].success]_vars

-----------------------------------------------------------------------------
(* The inductive invariant: a running row and the claim whose token it bears   *)
(* agree on the lease and on the version, and nothing was extracted since.     *)

ClaimInv ==
    \A c \in Claims :
        /\ c > claims => claim[c].at = "unused"
        /\ claim[c].at = "extracting" => claim[c].key \in Threads
        /\ claim[c].at \in Consolidating => claim[c].key = Global

JobRowInv(t) ==
    job[t].status = "running" =>
        LET c == job[t].token IN
        /\ c \in 1..claims /\ claim[c].key = t /\ claim[c].lease = job[t].lease
        /\ claim[c].at = "extracting" => claim[c].source = job[t].input
        /\ job[t].retries > 0
        /\ out[t].source < job[t].input /\ job[t].success < job[t].input

JobInv == \A t \in Threads : JobRowInv(t)

GlobInv ==
    glob.status = "running" =>
        LET c == glob.token IN
        c \in 1..claims /\ claim[c].key = Global /\ claim[c].lease = glob.lease

IInv ==
    /\ TypeOK /\ ClaimInv /\ JobInv /\ GlobInv
    /\ LeaseHolderOwnsJob /\ RunningCap
    /\ SuccessMatchesOutput /\ SelectedWasConsolidated
=============================================================================
