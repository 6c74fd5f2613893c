--------------------------- MODULE MemoryJobsProofs ---------------------------
(* Proofs about MemoryJobs for any set of threads, any limits and delays.      *)
(*                                                                             *)
(* Rows are compared by token only.  That is enough because a running row and  *)
(* the claim with its token agree on the lease (JobInv, GlobInv) and because   *)
(* the clock readings of a claim are never ahead of the clock.                 *)
EXTENDS MemoryJobs, FiniteSetTheorems, TLAPS

-----------------------------------------------------------------------------
(* What the parts of the actions do to the claims.                             *)

\* Times reaches far enough for every lease and every retry.
LEMMA TimesReach ==
  ASSUME NEW n \in 0..MaxTime
  PROVE  n \in Times /\ n + Lease \in Times /\ n + RetryDelay \in Times
BY MemoryJobsAssumption DEF Times

\* A holder that moves on keeps its lease, its source and its key.
LEMMA MoveEffect ==
  ASSUME NEW c \in Claims, NEW to \in Working, TypeOK, Move(c, to)
  PROVE  /\ claim' \in [Claims -> Holders]
         /\ \A d \in Claims : /\ d # c => claim'[d] = claim[d]
                              /\ claim'[d].key = claim[d].key
                              /\ claim'[d].lease = claim[d].lease
                              /\ claim'[d].source = claim[d].source
                              /\ claim'[d].wiped = claim[d].wiped
         /\ claim'[c].at = to
<1>1. claim \in [Claims -> Holders]
  BY DEF TypeOK
<1>2. claim' = [claim EXCEPT ![c] = [claim[c] EXCEPT !.at = to]]
  BY <1>1 DEF Move
<1>3. [claim[c] EXCEPT !.at = to] \in Holders
  BY <1>1 DEF Holders
<1>4. /\ [claim[c] EXCEPT !.at = to].key = claim[c].key
      /\ [claim[c] EXCEPT !.at = to].lease = claim[c].lease
      /\ [claim[c] EXCEPT !.at = to].source = claim[c].source
      /\ [claim[c] EXCEPT !.at = to].wiped = claim[c].wiped
      /\ [claim[c] EXCEPT !.at = to].at = to
  BY <1>1 DEF Holders
<1> HIDE DEF Holders
<1> QED
  BY <1>1, <1>2, <1>3, <1>4

\* So does one that reads an output.
LEMMA LoadEffect ==
  ASSUME NEW c \in Claims, NEW t \in Threads, TypeOK, LoadRow(c, t)
  PROVE  /\ claim' \in [Claims -> Holders]
         /\ \A d \in Claims : /\ d # c => claim'[d] = claim[d]
                              /\ claim'[d].key = claim[d].key
                              /\ claim'[d].lease = claim[d].lease
                              /\ claim'[d].source = claim[d].source
                              /\ claim'[d].wiped = claim[d].wiped
         /\ claim'[c].at = "claimed"
<1> DEFINE snap == claim[c].snap \cup {<<t, out[t].source>>}
           r == [claim[c] EXCEPT !.snap = snap]
<1>1. claim \in [Claims -> Holders] /\ claim[c].at = "claimed"
  BY DEF TypeOK, LoadRow
<1>2. claim' = [claim EXCEPT ![c] = r]
  BY <1>1 DEF LoadRow
<1>s. snap \in Snapshots
  <2>1. out[t].source \in Versions
    BY MemoryJobsAssumption DEF LoadRow, TypeOK, Outputs, Versions
  <2>2. claim[c].snap \in Snapshots
    BY <1>1 DEF Holders
  <2> QED
    BY <2>1, <2>2 DEF Snapshots
<1> HIDE DEF snap
<1>3. r \in Holders
  BY <1>1, <1>s DEF Holders
<1>4. /\ r.key = claim[c].key /\ r.lease = claim[c].lease
      /\ r.source = claim[c].source /\ r.wiped = claim[c].wiped /\ r.at = "claimed"
  BY <1>1 DEF Holders
<1> HIDE DEF r
<1> QED
  BY <1>1, <1>2, <1>3, <1>4

\* A holder that ends keeps its key and its lease, for the rows that refer to them.
LEMMA EndEffect ==
  ASSUME NEW c \in Claims, TypeOK, End(c)
  PROVE  /\ claim' \in [Claims -> Holders]
         /\ \A d \in Claims : /\ d # c => claim'[d] = claim[d]
                              /\ claim'[d].key = claim[d].key
                              /\ claim'[d].lease = claim[d].lease
                              /\ claim'[d].wiped = claim[d].wiped
         /\ claim'[c].at = "over"
<1> DEFINE r == [claim[c] EXCEPT !.at = "over", !.source = 0, !.snap = {}]
<1>1. claim \in [Claims -> Holders]
  BY DEF TypeOK
<1>2. claim' = [claim EXCEPT ![c] = r]
  BY <1>1 DEF End
<1>z. 0 \in 0..MaxVersion /\ {} \in Snapshots
  BY MemoryJobsAssumption DEF Snapshots
<1>3. r \in Holders
  BY <1>1, <1>z DEF Holders
<1>4. r.key = claim[c].key /\ r.lease = claim[c].lease /\ r.wiped = claim[c].wiped /\ r.at = "over"
  BY <1>1 DEF Holders
<1> HIDE DEF r
<1> QED
  BY <1>1, <1>2, <1>3, <1>4

\* A grant writes the next claim and no other.
LEMMA GrantEffect ==
  ASSUME NEW key \in Threads \cup {Global}, NEW src \in 0..MaxVersion, NEW now \in Readings,
         TypeOK, Grant(key, src, now)
  PROVE  /\ claim' \in [Claims -> Holders] /\ claims' \in 0..MaxClaims
         /\ claims + 1 \in Claims /\ claims' = claims + 1
         /\ \A d \in Claims : d # claims + 1 => claim'[d] = claim[d]
         /\ claim'[claims + 1].at = IF key = Global THEN "claimed" ELSE "extracting"
         /\ claim'[claims + 1].key = key /\ claim'[claims + 1].source = src
         /\ claim'[claims + 1].lease = now + Lease /\ claim'[claims + 1].wiped = FALSE
<1> DEFINE r == [at |-> IF key = Global THEN "claimed" ELSE "extracting",
                 key |-> key, source |-> src, lease |-> now + Lease,
                 snap |-> {}, wiped |-> FALSE]
<1>1. claim \in [Claims -> Holders]
  BY DEF TypeOK
<1>2. /\ claim' = [claim EXCEPT ![claims + 1] = r]
      /\ claims + 1 \in Claims /\ claims' = claims + 1 /\ claims' \in 0..MaxClaims
  BY MemoryJobsAssumption DEF Grant, TypeOK, Claims
<1>t. now + Lease \in Times
  BY TimesReach, MemoryJobsAssumption DEF Readings, TypeOK
<1>3. r \in Holders
  BY <1>t DEF Holders, Working, Consolidating, Snapshots
<1>4. /\ r.at = IF key = Global THEN "claimed" ELSE "extracting"
      /\ r.key = key /\ r.source = src /\ r.lease = now + Lease /\ r.wiped = FALSE
  OBVIOUS
<1> HIDE DEF r
<1> QED
  BY <1>1, <1>2, <1>3, <1>4

\* Deleting rows marks the claims on them and changes nothing else about a claim.
LEMMA WipeEffect ==
  ASSUME NEW keys, TypeOK, Wipe(keys)
  PROVE  /\ claim' \in [Claims -> Holders]
         /\ \A d \in Claims : /\ claim'[d].at = claim[d].at
                              /\ claim'[d].key = claim[d].key
                              /\ claim'[d].lease = claim[d].lease
                              /\ claim'[d].source = claim[d].source
                              /\ claim[d].key \in keys => claim'[d].wiped
                              /\ claim[d].wiped => claim'[d].wiped
                              /\ claim[d].key \notin keys => claim'[d] = claim[d]
<1>1. claim \in [Claims -> Holders]
  BY DEF TypeOK
<1> DEFINE r(d) == IF claim[d].key \in keys THEN [claim[d] EXCEPT !.wiped = TRUE]
                   ELSE claim[d]
<1>2. claim' = [d \in Claims |-> r(d)]
  BY DEF Wipe
<1>3. \A d \in Claims : /\ r(d) \in Holders
                        /\ r(d).at = claim[d].at /\ r(d).key = claim[d].key
                        /\ r(d).lease = claim[d].lease /\ r(d).source = claim[d].source
                        /\ claim[d].key \in keys => r(d).wiped
                        /\ claim[d].wiped => r(d).wiped
                        /\ claim[d].key \notin keys => r(d) = claim[d]
  BY <1>1 DEF Holders
<1> HIDE DEF r
<1> QED
  BY <1>2, <1>3

\* Enqueueing leaves a running consolidation alone and starts none.
LEMMA EnqueueEffect ==
  ASSUME TypeOK
  PROVE  /\ Enqueued \in GlobalRows
         /\ Enqueued.status = "running" => Enqueued = glob
         /\ glob.status = "running" => Enqueued = glob
<1>1. 0 \in Times
  BY TimesReach, MemoryJobsAssumption
<1>2. glob \in GlobalRows
  BY DEF TypeOK
<1>3. [glob EXCEPT !.status = "pending", !.retry = 0] \in GlobalRows
  BY <1>1, <1>2 DEF GlobalRows
<1>4. [glob EXCEPT !.status = "pending", !.retry = 0].status = "pending"
  BY <1>2 DEF GlobalRows
<1> QED
  BY <1>2, <1>3, <1>4 DEF Enqueued

-----------------------------------------------------------------------------
(* What the actions do to the rows.                                            *)

\* try_claim_stage1_job starts the row's lease and keeps what it had succeeded with.
LEMMA ClaimRow ==
  ASSUME NEW t \in Threads, NEW src \in Versions, NEW now \in Readings, TypeOK,
         TryClaimStage1Job(t, src, now)
  PROVE  /\ TypeOK'
         /\ \A u \in Threads : u # t => job'[u] = job[u]
         /\ job'[t].status = "running" /\ job'[t].token = claims + 1
         /\ job'[t].lease = now + Lease /\ job'[t].input = src
         /\ job'[t].success = job[t].success /\ job'[t].retries > 0
<1> DEFINE r == [status |-> "running", token |-> claims + 1,
                 lease |-> now + Lease, retry |-> 0,
                 retries |-> IF src > job[t].input THEN Retries ELSE job[t].retries,
                 input |-> src, success |-> job[t].success]
<1>0. job \in [Threads -> Rows]
  BY DEF TypeOK
<1>1. job' = [job EXCEPT ![t] = r]
  BY <1>0 DEF TryClaimStage1Job, Stage1Claimed
<1>2. Grant(t, src, now) /\ UNCHANGED <<clock, glob, out, baseline, replaced>>
  BY DEF TryClaimStage1Job, Stage1Claimed
<1>3. src \in 0..MaxVersion
  BY MemoryJobsAssumption DEF Versions
<1>4. /\ claim' \in [Claims -> Holders] /\ claims' \in 0..MaxClaims /\ claims + 1 \in Claims
  BY <1>2, <1>3, GrantEffect
<1>5. now + Lease \in Times /\ 0 \in Times
  BY TimesReach, MemoryJobsAssumption DEF Readings, TypeOK
<1>6. r.retries \in 0..Retries /\ r.retries > 0
  BY <1>0, MemoryJobsAssumption DEF TryClaimStage1Job, Rows
<1>7. r \in Rows
  <2>1. claims + 1 \in 0..MaxClaims
    BY <1>4, MemoryJobsAssumption DEF Claims
  <2>2. job[t].success \in 0..MaxVersion
    BY <1>0 DEF Rows
  <2> QED
    BY <1>3, <1>5, <1>6, <2>1, <2>2 DEF Rows
<1>8. /\ r.status = "running" /\ r.token = claims + 1 /\ r.lease = now + Lease
      /\ r.input = src /\ r.success = job[t].success
  OBVIOUS
<1> HIDE DEF r
<1>9. job' \in [Threads -> Rows]
  BY <1>0, <1>1, <1>7
<1> QED
  BY <1>0, <1>1, <1>2, <1>4, <1>6, <1>8, <1>9 DEF TypeOK

\* Writing a row's successor or its failure ends the run and keeps the version.
LEMMA RowEnds ==
  ASSUME NEW row \in Rows, TypeOK
  PROVE  /\ Done(row) \in Rows /\ Done(row).status = "done" /\ Done(row).success = row.input
         /\ row.retries > 0 =>
              /\ Failed(row) \in Rows /\ Failed(row).status = "error"
              /\ Failed(row).success = row.success
<1>1. 0 \in Times /\ clock + RetryDelay \in Times
  BY TimesReach, MemoryJobsAssumption DEF TypeOK
<1>2. Done(row) \in Rows /\ Done(row).status = "done" /\ Done(row).success = row.input
  BY <1>1 DEF Done, Rows
<1>3. row.retries > 0 => row.retries - 1 \in 0..Retries
  BY MemoryJobsAssumption DEF Rows
<1> QED
  BY <1>1, <1>2, <1>3 DEF Failed, Rows

\* The empty rows have their types.
LEMMA EmptyRows ==
  /\ NoJob \in Rows /\ NoJob.status = "none"
  /\ NoOutput \in Outputs /\ NoOutput.source = 0 /\ NoOutput.selected = 0
  /\ NoGlobal \in GlobalRows /\ NoGlobal.status = "none"
<1>1. /\ 0 \in Times /\ 0 \in 0..MaxClaims /\ 0 \in 0..Retries /\ 0 \in 0..MaxVersion
  BY TimesReach, MemoryJobsAssumption
<1> QED
  BY <1>1 DEF NoJob, NoOutput, NoGlobal, Rows, Outputs, GlobalRows

\* What an extraction that ends does: to the row and the output of its thread if
\* it still owns the row, and otherwise nothing.
LEMMA SucceededEffect ==
  ASSUME NEW c \in Claims, TypeOK, ClaimInv, MarkStage1JobSucceeded(c)
  PROVE  /\ TypeOK'
         /\ claim[c].key \in Threads
         /\ \A u \in Threads : u # claim[c].key => job'[u] = job[u] /\ out'[u] = out[u]
         /\ IF Owned(c)
            THEN LET t == claim[c].key IN
                 /\ job'[t].status = "done" /\ job'[t].success = job[t].input
                 /\ out'[t].selected = out[t].selected
                 /\ out'[t] = out[t] \/ t \in replaced'
                 /\ out'[t].source = IF claim[c].source >= out[t].source
                                     THEN claim[c].source ELSE out[t].source
            ELSE job' = job /\ out' = out
         /\ glob' \in {glob, Enqueued}
         /\ replaced \subseteq replaced'
<1> DEFINE t == claim[c].key
           o == [out[t] EXCEPT !.source = claim[c].source]
<1>1. /\ job \in [Threads -> Rows] /\ out \in [Threads -> Outputs] /\ claim \in [Claims -> Holders]
      /\ glob \in GlobalRows /\ replaced \subseteq Threads
  BY DEF TypeOK
<1>2. t \in Threads
  BY DEF MarkStage1JobSucceeded, ClaimInv
<1>3. claim' \in [Claims -> Holders] /\ UNCHANGED <<clock, claims, baseline>>
  BY EndEffect DEF MarkStage1JobSucceeded
<1>4. o \in Outputs /\ o.source = claim[c].source /\ o.selected = out[t].selected
  BY <1>1, <1>2 DEF Outputs, Holders
<1>5. CASE Owned(c)
  <2>1. /\ job' = [job EXCEPT ![t] = Done(job[t])]
        /\ out' = IF claim[c].source >= out[t].source THEN [out EXCEPT ![t] = o] ELSE out
        /\ replaced' = IF claim[c].source >= out[t].source THEN replaced \cup {t} ELSE replaced
        /\ glob' = Enqueued
    BY <1>1, <1>2, <1>5 DEF MarkStage1JobSucceeded
  <2>2. /\ Done(job[t]) \in Rows /\ Done(job[t]).status = "done"
        /\ Done(job[t]).success = job[t].input
    BY <1>1, <1>2, RowEnds
  <2>3. glob' \in GlobalRows
    BY <2>1, EnqueueEffect
  <2> HIDE DEF t, o
  <2>4. job' \in [Threads -> Rows] /\ out' \in [Threads -> Outputs] /\ replaced' \subseteq Threads
    BY <1>1, <1>2, <1>4, <2>1, <2>2
  <2>5. TypeOK'
    BY <1>3, <2>3, <2>4 DEF TypeOK
  <2> QED
    BY <1>1, <1>2, <1>4, <1>5, <2>1, <2>2, <2>5 DEF t
<1>6. CASE ~Owned(c)
  BY <1>1, <1>2, <1>3, <1>6 DEF MarkStage1JobSucceeded, TypeOK
<1> QED
  BY <1>5, <1>6

\* The same for an extraction without an output.
LEMMA NoOutputEffect ==
  ASSUME NEW c \in Claims, TypeOK, ClaimInv, MarkStage1JobSucceededNoOutput(c)
  PROVE  /\ TypeOK'
         /\ claim[c].key \in Threads
         /\ \A u \in Threads : u # claim[c].key => job'[u] = job[u] /\ out'[u] = out[u]
         /\ IF Owned(c)
            THEN LET t == claim[c].key IN
                 /\ job'[t].status = "done" /\ job'[t].success = job[t].input
                 /\ out'[t] = NoOutput
            ELSE job' = job /\ out' = out
         /\ glob' \in {glob, Enqueued}
<1> DEFINE t == claim[c].key
<1>1. /\ job \in [Threads -> Rows] /\ out \in [Threads -> Outputs] /\ claim \in [Claims -> Holders]
      /\ glob \in GlobalRows
  BY DEF TypeOK
<1>2. t \in Threads
  BY DEF MarkStage1JobSucceededNoOutput, ClaimInv
<1>3. claim' \in [Claims -> Holders] /\ UNCHANGED <<clock, claims, baseline, replaced>>
  BY EndEffect DEF MarkStage1JobSucceededNoOutput
<1>5. CASE Owned(c)
  <2>1. /\ job' = [job EXCEPT ![t] = Done(job[t])]
        /\ out' = [out EXCEPT ![t] = NoOutput]
        /\ glob' \in {glob, Enqueued}
    BY <1>1, <1>2, <1>5 DEF MarkStage1JobSucceededNoOutput
  <2>2. /\ Done(job[t]) \in Rows /\ Done(job[t]).status = "done"
        /\ Done(job[t]).success = job[t].input
    BY <1>1, <1>2, RowEnds
  <2>3. glob' \in GlobalRows
    BY <1>1, <2>1, EnqueueEffect
  <2> HIDE DEF t
  <2>4. job' \in [Threads -> Rows] /\ out' \in [Threads -> Outputs]
    BY <1>1, <1>2, <2>1, <2>2, EmptyRows
  <2>5. TypeOK'
    BY <1>3, <2>3, <2>4 DEF TypeOK
  <2> QED
    BY <1>1, <1>2, <1>5, <2>1, <2>2, <2>5 DEF t
<1>6. CASE ~Owned(c)
  BY <1>1, <1>2, <1>3, <1>6 DEF MarkStage1JobSucceededNoOutput, TypeOK
<1> QED
  BY <1>5, <1>6

\* And for one that failed.
LEMMA FailedEffect ==
  ASSUME NEW c \in Claims, TypeOK, ClaimInv, JobInv, MarkStage1JobFailed(c)
  PROVE  /\ TypeOK'
         /\ claim[c].key \in Threads
         /\ \A u \in Threads : u # claim[c].key => job'[u] = job[u]
         /\ IF Owned(c)
            THEN LET t == claim[c].key IN
                 job'[t].status = "error" /\ job'[t].success = job[t].success
            ELSE job' = job
<1> DEFINE t == claim[c].key
           f == Failed(job[t])
<1>1. job \in [Threads -> Rows]
  BY DEF TypeOK
<1>2. t \in Threads
  BY DEF MarkStage1JobFailed, ClaimInv
<1>3. claim' \in [Claims -> Holders] /\ UNCHANGED <<clock, glob, out, claims, baseline, replaced>>
  BY EndEffect DEF MarkStage1JobFailed
<1>5. CASE Owned(c)
  <2>1. job' = [job EXCEPT ![t] = f]
    BY <1>1, <1>2, <1>5 DEF MarkStage1JobFailed
  <2>2. job[t].retries > 0
    BY <1>2, <1>5 DEF Owned, JobInv, JobRowInv
  <2>3. f \in Rows /\ f.status = "error" /\ f.success = job[t].success
    BY <1>1, <1>2, <2>2, RowEnds
  <2> HIDE DEF t, f
  <2>4. job' \in [Threads -> Rows]
    BY <1>1, <1>2, <2>1, <2>3
  <2>5. TypeOK'
    BY <1>3, <2>4 DEF TypeOK
  <2> QED
    BY <1>1, <1>2, <1>5, <2>1, <2>3, <2>5 DEF t
<1>6. CASE ~Owned(c)
  BY <1>1, <1>2, <1>3, <1>6 DEF MarkStage1JobFailed, TypeOK
<1> QED
  BY <1>5, <1>6

\* Deleting a thread's memory leaves the rows of the other threads alone.
LEMMA DeleteEffect ==
  ASSUME NEW t \in Threads, TypeOK, DeleteThreadMemory(t)
  PROVE  /\ TypeOK'
         /\ \A u \in Threads : u # t => job'[u] = job[u] /\ out'[u] = out[u]
         /\ job'[t] = NoJob /\ out'[t] = NoOutput
         /\ glob' \in {glob, Enqueued}
<1>1. /\ job' = [job EXCEPT ![t] = NoJob] /\ out' = [out EXCEPT ![t] = NoOutput]
      /\ glob' \in {glob, Enqueued} /\ Wipe({t})
      /\ UNCHANGED <<clock, claims, baseline, replaced>>
  BY DEF DeleteThreadMemory
<1>2. glob' \in GlobalRows
  BY <1>1, EnqueueEffect DEF TypeOK
<1>3. claim' \in [Claims -> Holders]
  BY <1>1, WipeEffect
<1>4. job' \in [Threads -> Rows] /\ out' \in [Threads -> Outputs]
  BY <1>1, EmptyRows DEF TypeOK
<1> QED
  BY <1>1, <1>2, <1>3, <1>4 DEF TypeOK

\* Pruning an output leaves the other rows alone.
LEMMA PruneEffect ==
  ASSUME NEW t \in Threads, TypeOK, PruneStage1Output(t)
  PROVE  /\ TypeOK'
         /\ \A u \in Threads : u # t => out'[u] = out[u]
         /\ out'[t] = NoOutput
<1>1. /\ out' = [out EXCEPT ![t] = NoOutput]
      /\ UNCHANGED <<clock, job, glob, claim, claims, baseline, replaced>>
  BY DEF PruneStage1Output
<1>2. out' \in [Threads -> Outputs]
  BY <1>1, EmptyRows DEF TypeOK
<1> QED
  BY <1>1, <1>2 DEF TypeOK

\* Clearing the database leaves no row.
LEMMA ClearEffect ==
  ASSUME TypeOK, ClearMemoryData
  PROVE  /\ TypeOK'
         /\ \A t \in Threads : job'[t] = NoJob /\ out'[t] = NoOutput
<1>1. /\ out' = [t \in Threads |-> NoOutput] /\ job' = [t \in Threads |-> NoJob]
      /\ glob' = NoGlobal /\ Wipe(Threads \cup {Global})
      /\ UNCHANGED <<clock, claims, baseline, replaced>>
  BY DEF ClearMemoryData
<1>2. claim' \in [Claims -> Holders]
  BY <1>1, WipeEffect
<1>3. /\ job' \in [Threads -> Rows] /\ out' \in [Threads -> Outputs]
      /\ glob' \in GlobalRows
  BY <1>1, EmptyRows
<1> QED
  BY <1>1, <1>2, <1>3 DEF TypeOK

\* Claiming the consolidation.
LEMMA ClaimGlobalEffect ==
  ASSUME NEW now \in Readings, TypeOK, TryClaimGlobalPhase2Job(now)
  PROVE  /\ TypeOK'
         /\ glob'.status = "running" /\ glob'.token = claims + 1 /\ glob'.lease = now + Lease
<1> DEFINE r == [NoGlobal EXCEPT !.status = "running", !.token = claims + 1,
                                 !.lease = now + Lease]
<1>1. glob' = r /\ Grant(Global, 0, now) /\ UNCHANGED <<clock, job, out, baseline, replaced>>
  BY DEF TryClaimGlobalPhase2Job
<1>2. 0 \in 0..MaxVersion
  BY MemoryJobsAssumption
<1>3. claim' \in [Claims -> Holders] /\ claims' \in 0..MaxClaims /\ claims + 1 \in Claims
  BY <1>1, <1>2, GrantEffect
<1>4. now + Lease \in Times /\ claims + 1 \in 0..MaxClaims
  BY <1>3, TimesReach, MemoryJobsAssumption DEF Readings, TypeOK, Claims
<1>5. /\ r \in GlobalRows /\ r.status = "running" /\ r.token = claims + 1
      /\ r.lease = now + Lease
  BY <1>4, EmptyRows DEF GlobalRows
<1> HIDE DEF r
<1> QED
  BY <1>1, <1>3, <1>5 DEF TypeOK

\* A heartbeat moves the lease of the row and of the claim together.
LEMMA HeartbeatEffect ==
  ASSUME NEW c \in Claims, NEW now \in Readings, NEW to \in {"agent", "confirmed"},
         TypeOK, Heartbeat(c, now, to)
  PROVE  /\ TypeOK'
         /\ \A d \in Claims : /\ d # c => claim'[d] = claim[d]
                              /\ claim'[d].key = claim[d].key
                              /\ claim'[d].wiped = claim[d].wiped
         /\ IF OwnsGlobal(c)
            THEN /\ glob'.status = "running" /\ glob'.token = c
                 /\ glob'.lease = now + Lease
                 /\ claim'[c].lease = now + Lease /\ claim'[c].at = to
            ELSE glob' = glob /\ End(c)
<1> DEFINE g == [glob EXCEPT !.lease = now + Lease]
           r == [claim[c] EXCEPT !.at = to, !.lease = now + Lease]
<1>1. UNCHANGED <<clock, job, out, claims, baseline, replaced>>
  BY DEF Heartbeat
<1>2. CASE OwnsGlobal(c)
  <2>1. now + Lease \in Times
    BY TimesReach, MemoryJobsAssumption DEF Readings, TypeOK
  <2>2. glob' = g /\ claim' = [claim EXCEPT ![c] = r]
    BY <1>2 DEF Heartbeat, TypeOK
  <2>3. /\ g \in GlobalRows /\ g.status = "running" /\ g.token = c /\ g.lease = now + Lease
    BY <1>2, <2>1 DEF OwnsGlobal, GlobalRows, TypeOK
  <2>4. /\ r \in Holders /\ r.key = claim[c].key /\ r.wiped = claim[c].wiped
        /\ r.lease = now + Lease /\ r.at = to
    BY <2>1 DEF Holders, TypeOK, Working, Consolidating
  <2> HIDE DEF g, r
  <2>5. claim' \in [Claims -> Holders] /\ claim'[c] = r
        /\ \A d \in Claims : d # c => claim'[d] = claim[d]
    BY <2>2, <2>4 DEF TypeOK
  <2> QED
    BY <1>1, <1>2, <2>2, <2>3, <2>4, <2>5 DEF TypeOK
<1>3. CASE ~OwnsGlobal(c)
  <2>1. glob' = glob /\ End(c)
    BY <1>3 DEF Heartbeat
  <2> QED
    BY <1>1, <1>3, <2>1, EndEffect DEF TypeOK
<1> QED
  BY <1>2, <1>3

\* A consolidation that ends: its row is no longer running if it owned it.
LEMMA GlobalEnds ==
  ASSUME NEW c \in Claims, TypeOK, ClaimInv,
         MarkGlobalPhase2JobSucceeded(c) \/ MarkGlobalPhase2JobFailed(c)
  PROVE  /\ TypeOK' /\ End(c) /\ UNCHANGED <<clock, job, claims>>
         /\ glob' = glob \/ glob'.status # "running"
         /\ OwnsGlobal(c) => glob'.status # "running"
         /\ \A t \in Threads : out'[t].source = out[t].source
         /\ SelectedWasConsolidated => SelectedWasConsolidated'
<1>0. /\ glob \in GlobalRows /\ out \in [Threads -> Outputs] /\ claim \in [Claims -> Holders]
      /\ clock \in Times /\ 0 \in Times /\ clock + RetryDelay \in Times
  BY TimesReach, MemoryJobsAssumption DEF TypeOK
<1>1. CASE MarkGlobalPhase2JobSucceeded(c)
  <2>0. End(c) /\ UNCHANGED <<clock, job, claims>>
    BY <1>1 DEF MarkGlobalPhase2JobSucceeded
  <2>1. CASE OwnsGlobal(c)
    <3> DEFINE snap == claim[c].snap
               g == [glob EXCEPT !.status = "done", !.finished = clock,
                                 !.lease = 0, !.failed = FALSE]
               o(t) == [out[t] EXCEPT !.selected =
                          IF <<t, out[t].source>> \in snap THEN out[t].source ELSE 0]
    <3>1. glob' = g /\ out' = [t \in Threads |-> o(t)] /\ baseline' = snap /\ replaced' = {}
      BY <1>1, <2>1 DEF MarkGlobalPhase2JobSucceeded, Reselected
    <3>2. g \in GlobalRows /\ g.status # "running"
      BY <1>0 DEF GlobalRows
    <3>3. snap \in Snapshots
      BY <1>0 DEF Holders
    <3>4. \A t \in Threads : /\ o(t) \in Outputs /\ o(t).source = out[t].source
                             /\ o(t).selected # 0 => <<t, o(t).selected>> \in snap
                             /\ o(t).selected # 0 => o(t).selected = o(t).source
      BY <1>0, MemoryJobsAssumption DEF Outputs
    <3> HIDE DEF snap, g, o
    <3>5. out' \in [Threads -> Outputs] /\ \A t \in Threads : out'[t] = o(t)
      BY <3>1, <3>4
    <3>6. TypeOK'
      BY <2>0, <3>1, <3>2, <3>3, <3>5, EndEffect DEF TypeOK
    <3>7. SelectedWasConsolidated'
      BY <3>1, <3>4, <3>5 DEF SelectedWasConsolidated
    <3> QED
      BY <2>0, <3>1, <3>2, <3>4, <3>5, <3>6, <3>7
  <2>2. CASE ~OwnsGlobal(c)
    <3>1. UNCHANGED <<glob, out, baseline, replaced>>
      BY <1>1, <2>2 DEF MarkGlobalPhase2JobSucceeded
    <3> QED
      BY <2>0, <2>2, <3>1, EndEffect DEF TypeOK, SelectedWasConsolidated
  <2> QED
    BY <2>1, <2>2
<1>2. CASE MarkGlobalPhase2JobFailed(c)
  <2> DEFINE g == [glob EXCEPT !.status = "error", !.finished = clock, !.lease = 0,
                               !.retry = clock + RetryDelay, !.failed = TRUE]
  <2>0. End(c) /\ UNCHANGED <<clock, job, out, claims, baseline, replaced>>
        /\ glob' = IF OwnsGlobal(c) THEN g ELSE glob
    BY <1>2 DEF MarkGlobalPhase2JobFailed
  <2>1. g \in GlobalRows /\ g.status # "running"
    BY <1>0 DEF GlobalRows
  <2> HIDE DEF g
  <2> QED
    BY <1>0, <2>0, <2>1, EndEffect DEF TypeOK, SelectedWasConsolidated
<1> QED
  BY <1>1, <1>2

-----------------------------------------------------------------------------
(* Every step preserves the inductive invariant.                               *)

\* No step leaves the types.
LEMMA TypeStep ==
  ASSUME TypeOK, ClaimInv, JobInv, [Next]_vars
  PROVE  TypeOK'
<1>1. ASSUME Tick
      PROVE  TypeOK'
  BY <1>1, MemoryJobsAssumption DEF Tick, TypeOK
<1>2. ASSUME NEW t \in Threads, NEW src \in Versions, NEW now \in Readings,
             TryClaimStage1Job(t, src, now)
      PROVE  TypeOK'
  BY <1>2, ClaimRow
<1>3. ASSUME NEW t \in Threads, DeleteThreadMemory(t)
      PROVE  TypeOK'
  BY <1>3, DeleteEffect
<1>4. ASSUME NEW t \in Threads, PruneStage1Output(t)
      PROVE  TypeOK'
  BY <1>4, PruneEffect
<1>5. ASSUME NEW now \in Readings, TryClaimGlobalPhase2Job(now)
      PROVE  TypeOK'
  BY <1>5, ClaimGlobalEffect
<1>6. ASSUME NEW c \in Claims, MarkStage1JobSucceeded(c)
      PROVE  TypeOK'
  BY <1>6, SucceededEffect
<1>7. ASSUME NEW c \in Claims, MarkStage1JobSucceededNoOutput(c)
      PROVE  TypeOK'
  BY <1>7, NoOutputEffect
<1>8. ASSUME NEW c \in Claims, MarkStage1JobFailed(c)
      PROVE  TypeOK'
  BY <1>8, FailedEffect
<1>9. ASSUME NEW c \in Claims, NEW t \in Threads, LoadRow(c, t)
      PROVE  TypeOK'
  BY <1>9, LoadEffect DEF LoadRow, TypeOK
<1>9a. ASSUME NEW c \in Claims, LoadInputs(c)
      PROVE  TypeOK'
  BY <1>9a, MoveEffect DEF LoadInputs, TypeOK, Working, Consolidating
<1>10. ASSUME NEW c \in Claims, SyncWorkspace(c)
      PROVE  TypeOK'
  BY <1>10, MoveEffect DEF SyncWorkspace, TypeOK, Working, Consolidating
<1>11. ASSUME NEW c \in Claims, SpawnAgent(c)
      PROVE  TypeOK'
  BY <1>11, MoveEffect DEF SpawnAgent, TypeOK, Working, Consolidating
<1>12. ASSUME NEW c \in Claims, NEW now \in Readings, NEW to \in {"agent", "confirmed"},
             Heartbeat(c, now, to)
      PROVE  TypeOK'
  BY <1>12, HeartbeatEffect
<1>13. ASSUME NEW c \in Claims, ResetBaseline(c)
      PROVE  TypeOK'
  BY <1>13, MoveEffect DEF ResetBaseline, TypeOK, Working, Consolidating
<1>14. ASSUME NEW c \in Claims, MarkGlobalPhase2JobSucceeded(c)
      PROVE  TypeOK'
  BY <1>14, GlobalEnds
<1>15. ASSUME NEW c \in Claims, MarkGlobalPhase2JobFailed(c)
      PROVE  TypeOK'
  BY <1>15, GlobalEnds
<1>16. ASSUME NEW c \in Claims, Crash(c)
      PROVE  TypeOK'
  BY <1>16, EndEffect DEF Crash, TypeOK
<1>17. ASSUME ClearMemoryData
      PROVE  TypeOK'
  BY <1>17, ClearEffect
<1>18. ASSUME EnqueueGlobalConsolidation
      PROVE  TypeOK'
  BY <1>18, EnqueueEffect DEF EnqueueGlobalConsolidation, TypeOK
<1>19. ASSUME UNCHANGED vars
      PROVE  TypeOK'
  BY <1>19 DEF vars, TypeOK
<1> QED
  BY <1>1, <1>2, <1>3, <1>4, <1>5, <1>6, <1>7, <1>8, <1>9, <1>10, <1>11, 
     <1>12, <1>13, <1>14, <1>15, <1>16, <1>17, <1>18, <1>19, <1>9a DEF Next, Stage1, Phase2

\* Moving on or ending keeps ClaimInv.
LEMMA ClaimUpdate ==
  ASSUME NEW c \in Claims, ClaimInv, claims' = claims, claim[c].at # "unused",
         \A d \in Claims : d # c => claim'[d] = claim[d],
         claim'[c].key = claim[c].key,
         \/ claim'[c].at = "over"
         \/ claim[c].at \in Consolidating /\ claim'[c].at \in Consolidating
  PROVE  ClaimInv'
BY DEF ClaimInv, Consolidating

\* Claims are granted in order, and a holder works on the kind of job it claimed.
LEMMA ClaimStep ==
  ASSUME TypeOK, ClaimInv, [Next]_vars
  PROVE  ClaimInv'
<1>t. claims \in 0..MaxClaims /\ Claims = 1..MaxClaims /\ claims \in Nat
  BY MemoryJobsAssumption DEF TypeOK, Claims
<1>s. \A d \in 1..claims : d \in Claims
  BY <1>t, MemoryJobsAssumption
<1>1. ASSUME Tick
      PROVE  ClaimInv'
  BY <1>t, <1>1 DEF Tick, ClaimInv
<1>2. ASSUME NEW t \in Threads, NEW src \in Versions, NEW now \in Readings,
             TryClaimStage1Job(t, src, now)
      PROVE  ClaimInv'
  <2>1. Grant(t, src, now) /\ src \in 0..MaxVersion
    BY <1>2, MemoryJobsAssumption DEF TryClaimStage1Job, Stage1Claimed, Versions
  <2>2. /\ claims' = claims + 1 /\ claims + 1 \in Claims
        /\ \A d \in Claims : d # claims + 1 => claim'[d] = claim[d]
        /\ claim'[claims + 1].at = "extracting" /\ claim'[claims + 1].key = t
        /\ claim'[claims + 1].source = src
        /\ claim'[claims + 1].lease = now + Lease /\ claim'[claims + 1].wiped = FALSE
    BY <2>1, GrantEffect, MemoryJobsAssumption DEF Global
  <2> QED
    BY <1>t, <2>2 DEF ClaimInv, Consolidating
<1>3. ASSUME NEW t \in Threads, DeleteThreadMemory(t)
      PROVE  ClaimInv'
  BY <1>3, WipeEffect DEF DeleteThreadMemory, ClaimInv
<1>4. ASSUME NEW t \in Threads, PruneStage1Output(t)
      PROVE  ClaimInv'
  BY <1>4 DEF PruneStage1Output, ClaimInv
<1>5. ASSUME NEW now \in Readings, TryClaimGlobalPhase2Job(now)
      PROVE  ClaimInv'
  <2>1. Grant(Global, 0, now) /\ 0 \in 0..MaxVersion
    BY <1>5, MemoryJobsAssumption DEF TryClaimGlobalPhase2Job
  <2>2. /\ claims' = claims + 1 /\ claims + 1 \in Claims
        /\ \A d \in Claims : d # claims + 1 => claim'[d] = claim[d]
        /\ claim'[claims + 1].at = "claimed" /\ claim'[claims + 1].key = Global
        /\ claim'[claims + 1].lease = now + Lease /\ claim'[claims + 1].wiped = FALSE
    BY <2>1, GrantEffect
  <2> QED
    BY <1>t, <2>2 DEF ClaimInv
<1>6. ASSUME NEW c \in Claims, MarkStage1JobSucceeded(c)
      PROVE  ClaimInv'
  <2>1. End(c) /\ claims' = claims /\ claim[c].at # "unused"
    BY <1>6 DEF MarkStage1JobSucceeded, Working, Consolidating
  <2> QED
    BY <2>1, EndEffect, ClaimUpdate
<1>7. ASSUME NEW c \in Claims, MarkStage1JobSucceededNoOutput(c)
      PROVE  ClaimInv'
  <2>1. End(c) /\ claims' = claims /\ claim[c].at # "unused"
    BY <1>7 DEF MarkStage1JobSucceededNoOutput, Working, Consolidating
  <2> QED
    BY <2>1, EndEffect, ClaimUpdate
<1>8. ASSUME NEW c \in Claims, MarkStage1JobFailed(c)
      PROVE  ClaimInv'
  <2>1. End(c) /\ claims' = claims /\ claim[c].at # "unused"
    BY <1>8 DEF MarkStage1JobFailed, Working, Consolidating
  <2> QED
    BY <2>1, EndEffect, ClaimUpdate
<1>9. ASSUME NEW c \in Claims, NEW t \in Threads, LoadRow(c, t)
      PROVE  ClaimInv'
  <2>1. /\ claims' = claims /\ claim[c].at # "unused"
        /\ claim[c].at \in Consolidating /\ "claimed" \in Consolidating
    BY <1>9 DEF LoadRow, Consolidating
  <2> QED
    BY <1>9, <2>1, LoadEffect, ClaimUpdate
<1>9a. ASSUME NEW c \in Claims, LoadInputs(c)
      PROVE  ClaimInv'
  <2>1. /\ Move(c, "loaded") /\ claims' = claims
        /\ claim[c].at \in Consolidating /\ "loaded" \in Consolidating
        /\ "loaded" \in Working /\ claim[c].at # "unused"
    BY <1>9a DEF LoadInputs, Working, Consolidating
  <2> QED
    BY <2>1, MoveEffect, ClaimUpdate
<1>10. ASSUME NEW c \in Claims, SyncWorkspace(c)
      PROVE  ClaimInv'
  <2>1. /\ Move(c, "synced") /\ claims' = claims
        /\ claim[c].at \in Consolidating /\ "synced" \in Consolidating
        /\ "synced" \in Working /\ claim[c].at # "unused"
    BY <1>10 DEF SyncWorkspace, Working, Consolidating
  <2> QED
    BY <2>1, MoveEffect, ClaimUpdate
<1>11. ASSUME NEW c \in Claims, SpawnAgent(c)
      PROVE  ClaimInv'
  <2>1. /\ Move(c, "agent") /\ claims' = claims
        /\ claim[c].at \in Consolidating /\ "agent" \in Consolidating
        /\ "agent" \in Working /\ claim[c].at # "unused"
    BY <1>11 DEF SpawnAgent, Working, Consolidating
  <2> QED
    BY <2>1, MoveEffect, ClaimUpdate
<1>12. ASSUME NEW c \in Claims, NEW now \in Readings, NEW to \in {"agent", "confirmed"},
             Heartbeat(c, now, to)
      PROVE  ClaimInv'
  <2>1. /\ claims' = claims /\ claim[c].at # "unused"
        /\ claim[c].at \in Consolidating /\ to \in Consolidating
    BY <1>12 DEF Heartbeat, Consolidating
  <2> QED
    BY <1>12, <2>1, HeartbeatEffect, EndEffect, ClaimUpdate
<1>13. ASSUME NEW c \in Claims, ResetBaseline(c)
      PROVE  ClaimInv'
  <2>1. /\ Move(c, "reset") /\ claims' = claims
        /\ claim[c].at \in Consolidating /\ "reset" \in Consolidating
        /\ "reset" \in Working /\ claim[c].at # "unused"
    BY <1>13 DEF ResetBaseline, Working, Consolidating
  <2> QED
    BY <2>1, MoveEffect, ClaimUpdate
<1>14. ASSUME NEW c \in Claims, MarkGlobalPhase2JobSucceeded(c)
      PROVE  ClaimInv'
  <2>1. End(c) /\ claims' = claims /\ claim[c].at # "unused"
    BY <1>14 DEF MarkGlobalPhase2JobSucceeded, Working, Consolidating
  <2> QED
    BY <2>1, EndEffect, ClaimUpdate
<1>15. ASSUME NEW c \in Claims, MarkGlobalPhase2JobFailed(c)
      PROVE  ClaimInv'
  <2>1. End(c) /\ claims' = claims /\ claim[c].at # "unused"
    BY <1>15 DEF MarkGlobalPhase2JobFailed, Working, Consolidating
  <2> QED
    BY <2>1, EndEffect, ClaimUpdate
<1>16. ASSUME NEW c \in Claims, Crash(c)
      PROVE  ClaimInv'
  <2>1. End(c) /\ claims' = claims /\ claim[c].at # "unused"
    BY <1>16 DEF Crash, Working, Consolidating
  <2> QED
    BY <2>1, EndEffect, ClaimUpdate
<1>17. ASSUME ClearMemoryData
      PROVE  ClaimInv'
  BY <1>17, WipeEffect DEF ClearMemoryData, ClaimInv
<1>18. ASSUME EnqueueGlobalConsolidation
      PROVE  ClaimInv'
  BY <1>18 DEF EnqueueGlobalConsolidation, ClaimInv
<1>19. ASSUME UNCHANGED vars
      PROVE  ClaimInv'
  BY <1>19 DEF vars, ClaimInv
<1> QED
  BY <1>1, <1>2, <1>3, <1>4, <1>5, <1>6, <1>7, <1>8, <1>9, <1>10, <1>11, 
     <1>12, <1>13, <1>14, <1>15, <1>16, <1>17, <1>18, <1>19, <1>9a DEF Next, Stage1, Phase2

\* A row that is not written stays in agreement with its claim.
LEMMA JobKeep ==
  ASSUME TypeOK, TypeOK', claims' >= claims,
         \A d \in 1..claims :
            /\ claim'[d].key = claim[d].key
            /\ claim[d].key \in Threads => claim'[d].lease = claim[d].lease
            /\ claim'[d].at = "extracting" =>
                 claim[d].at = "extracting" /\ claim'[d].source = claim[d].source,
         NEW t \in Threads, JobRowInv(t),
         job'[t].status = "running" => job'[t] = job[t] /\ out'[t].source <= out[t].source
  PROVE  JobRowInv(t)'
<1>1. /\ job[t] \in Rows /\ out[t] \in Outputs /\ out'[t] \in Outputs
      /\ claims \in Nat /\ claims' \in Nat
  BY MemoryJobsAssumption DEF TypeOK
<1>2. /\ job[t].token \in Nat /\ job[t].input \in Nat
      /\ out[t].source \in Nat /\ out'[t].source \in Nat
  BY <1>1, MemoryJobsAssumption DEF Rows, Outputs
<1> HIDE DEF Rows
<1> QED
  BY <1>1, <1>2 DEF JobRowInv

\* A running row of stage 1 stays in agreement with the claim that it names.
LEMMA JobStep ==
  ASSUME TypeOK, ClaimInv, JobInv, [Next]_vars
  PROVE  JobInv'
<1>t. claims \in 0..MaxClaims /\ Claims = 1..MaxClaims /\ claims \in Nat
  BY MemoryJobsAssumption DEF TypeOK, Claims
<1>s. \A d \in 1..claims : d \in Claims
  BY <1>t, MemoryJobsAssumption
<1>p. TypeOK'
  BY TypeStep
<1>o. \A t \in Threads : out[t].source \in Nat /\ out'[t].source \in Nat
  <2>1. \A t \in Threads : out[t] \in Outputs /\ out'[t] \in Outputs
    BY <1>p DEF TypeOK
  <2>2. \A o \in Outputs : o.source \in Nat
    BY MemoryJobsAssumption DEF Outputs
  <2> QED
    BY <2>1, <2>2
<1>1. ASSUME Tick
      PROVE  JobInv'
  <2>3. /\ claims' >= claims
        /\ \A d \in 1..claims :
            /\ claim'[d].key = claim[d].key
            /\ claim[d].key \in Threads => claim'[d].lease = claim[d].lease
            /\ claim'[d].at = "extracting" =>
                 claim[d].at = "extracting" /\ claim'[d].source = claim[d].source
    BY <1>s, <1>t, <1>1 DEF Tick
  <2> QED
    BY <1>1, <1>o, <1>p, <2>3, JobKeep DEF Tick, JobInv
<1>2. ASSUME NEW t \in Threads, NEW src \in Versions, NEW now \in Readings,
             TryClaimStage1Job(t, src, now)
      PROVE  JobInv'
  <2>1. Grant(t, src, now) /\ src \in 0..MaxVersion
    BY <1>2, MemoryJobsAssumption DEF TryClaimStage1Job, Stage1Claimed, Versions
  <2>2. /\ claims' = claims + 1 /\ claims + 1 \in Claims
        /\ \A d \in Claims : d # claims + 1 => claim'[d] = claim[d]
        /\ claim'[claims + 1].at = "extracting" /\ claim'[claims + 1].key = t
        /\ claim'[claims + 1].source = src
        /\ claim'[claims + 1].lease = now + Lease /\ claim'[claims + 1].wiped = FALSE
    BY <2>1, GrantEffect, MemoryJobsAssumption DEF Global
  <2>3. /\ claims' >= claims
        /\ \A d \in 1..claims :
            /\ claim'[d].key = claim[d].key
            /\ claim[d].key \in Threads => claim'[d].lease = claim[d].lease
            /\ claim'[d].at = "extracting" =>
                 claim[d].at = "extracting" /\ claim'[d].source = claim[d].source
    BY <1>s, <1>t, <2>2
  <2>4. \A u \in Threads : u # t => JobRowInv(u)'
    BY <1>2, <1>p, <1>o, <2>3, ClaimRow, JobKeep DEF TryClaimStage1Job, Stage1Claimed, JobInv
  <2>5. out' = out /\ out[t].source < src /\ job[t].success < src
    BY <1>2 DEF TryClaimStage1Job, Stage1Claimed
  <2>6. JobRowInv(t)'
    BY <1>2, <1>t, <2>2, <2>5, ClaimRow DEF JobRowInv
  <2> QED
    BY <2>4, <2>6 DEF JobInv
<1>3. ASSUME NEW t \in Threads, DeleteThreadMemory(t)
      PROVE  JobInv'
  <2>3. /\ claims' >= claims
        /\ \A d \in 1..claims :
            /\ claim'[d].key = claim[d].key
            /\ claim[d].key \in Threads => claim'[d].lease = claim[d].lease
            /\ claim'[d].at = "extracting" =>
                 claim[d].at = "extracting" /\ claim'[d].source = claim[d].source
    BY <1>s, <1>t, <1>3, WipeEffect DEF DeleteThreadMemory
  <2>4. \A u \in Threads : job'[u].status = "running" =>
           job'[u] = job[u] /\ out'[u].source <= out[u].source
    BY <1>3, <1>o, DeleteEffect, EmptyRows
  <2> QED
    BY <1>p, <2>3, <2>4, JobKeep DEF JobInv
<1>4. ASSUME NEW t \in Threads, PruneStage1Output(t)
      PROVE  JobInv'
  <2>3. /\ claims' >= claims
        /\ \A d \in 1..claims :
            /\ claim'[d].key = claim[d].key
            /\ claim[d].key \in Threads => claim'[d].lease = claim[d].lease
            /\ claim'[d].at = "extracting" =>
                 claim[d].at = "extracting" /\ claim'[d].source = claim[d].source
    BY <1>s, <1>t, <1>4 DEF PruneStage1Output
  <2>4. \A u \in Threads : job'[u] = job[u] /\ out'[u].source <= out[u].source
    BY <1>4, <1>o, PruneEffect, EmptyRows DEF PruneStage1Output
  <2> QED
    BY <1>p, <2>3, <2>4, JobKeep DEF JobInv
<1>5. ASSUME NEW now \in Readings, TryClaimGlobalPhase2Job(now)
      PROVE  JobInv'
  <2>1. Grant(Global, 0, now) /\ 0 \in 0..MaxVersion
    BY <1>5, MemoryJobsAssumption DEF TryClaimGlobalPhase2Job
  <2>2. /\ claims' = claims + 1 /\ claims + 1 \in Claims
        /\ \A d \in Claims : d # claims + 1 => claim'[d] = claim[d]
        /\ claim'[claims + 1].at = "claimed" /\ claim'[claims + 1].key = Global
        /\ claim'[claims + 1].lease = now + Lease /\ claim'[claims + 1].wiped = FALSE
    BY <2>1, GrantEffect
  <2>3. /\ claims' >= claims
        /\ \A d \in 1..claims :
            /\ claim'[d].key = claim[d].key
            /\ claim[d].key \in Threads => claim'[d].lease = claim[d].lease
            /\ claim'[d].at = "extracting" =>
                 claim[d].at = "extracting" /\ claim'[d].source = claim[d].source
    BY <1>s, <1>t, <2>2
  <2> QED
    BY <1>5, <1>p, <1>o, <2>3, JobKeep DEF TryClaimGlobalPhase2Job, JobInv
<1>6. ASSUME NEW c \in Claims, MarkStage1JobSucceeded(c)
      PROVE  JobInv'
  <2>3. /\ claims' >= claims
        /\ \A d \in 1..claims :
            /\ claim'[d].key = claim[d].key
            /\ claim[d].key \in Threads => claim'[d].lease = claim[d].lease
            /\ claim'[d].at = "extracting" =>
                 claim[d].at = "extracting" /\ claim'[d].source = claim[d].source
    BY <1>s, <1>t, <1>6, EndEffect DEF MarkStage1JobSucceeded
  <2>4. \A t \in Threads : job'[t].status = "running" =>
           job'[t] = job[t] /\ out'[t].source <= out[t].source
    BY <1>6, <1>o, SucceededEffect
  <2> QED
    BY <1>p, <2>3, <2>4, JobKeep DEF JobInv
<1>7. ASSUME NEW c \in Claims, MarkStage1JobSucceededNoOutput(c)
      PROVE  JobInv'
  <2>3. /\ claims' >= claims
        /\ \A d \in 1..claims :
            /\ claim'[d].key = claim[d].key
            /\ claim[d].key \in Threads => claim'[d].lease = claim[d].lease
            /\ claim'[d].at = "extracting" =>
                 claim[d].at = "extracting" /\ claim'[d].source = claim[d].source
    BY <1>s, <1>t, <1>7, EndEffect DEF MarkStage1JobSucceededNoOutput
  <2>4. \A t \in Threads : job'[t].status = "running" =>
           job'[t] = job[t] /\ out'[t].source <= out[t].source
    BY <1>7, <1>o, NoOutputEffect
  <2> QED
    BY <1>p, <2>3, <2>4, JobKeep DEF JobInv
<1>8. ASSUME NEW c \in Claims, MarkStage1JobFailed(c)
      PROVE  JobInv'
  <2>3. /\ claims' >= claims
        /\ \A d \in 1..claims :
            /\ claim'[d].key = claim[d].key
            /\ claim[d].key \in Threads => claim'[d].lease = claim[d].lease
            /\ claim'[d].at = "extracting" =>
                 claim[d].at = "extracting" /\ claim'[d].source = claim[d].source
    BY <1>s, <1>t, <1>8, EndEffect DEF MarkStage1JobFailed
  <2>4. \A t \in Threads : job'[t].status = "running" =>
           job'[t] = job[t] /\ out'[t].source <= out[t].source
    BY <1>8, <1>o, FailedEffect DEF MarkStage1JobFailed
  <2> QED
    BY <1>p, <2>3, <2>4, JobKeep DEF JobInv
<1>9. ASSUME NEW c \in Claims, NEW t \in Threads, LoadRow(c, t)
      PROVE  JobInv'
  <2>1. claims' = claims /\ UNCHANGED <<job, out, glob>>
    BY <1>9 DEF LoadRow
  <2>3. /\ claims' >= claims
        /\ \A d \in 1..claims :
            /\ claim'[d].key = claim[d].key
            /\ claim[d].key \in Threads => claim'[d].lease = claim[d].lease
            /\ claim'[d].at = "extracting" =>
                 claim[d].at = "extracting" /\ claim'[d].source = claim[d].source
    BY <1>s, <1>t, <1>9, <2>1, LoadEffect
  <2> QED
    BY <1>o, <1>p, <2>1, <2>3, JobKeep DEF JobInv
<1>9a. ASSUME NEW c \in Claims, LoadInputs(c)
      PROVE  JobInv'
  <2>1. Move(c, "loaded") /\ "loaded" \in Working /\ claims' = claims /\ UNCHANGED <<job, out>>
    BY <1>9a DEF LoadInputs, Working, Consolidating
  <2>3. /\ claims' >= claims
        /\ \A d \in 1..claims :
            /\ claim'[d].key = claim[d].key
            /\ claim[d].key \in Threads => claim'[d].lease = claim[d].lease
            /\ claim'[d].at = "extracting" =>
                 claim[d].at = "extracting" /\ claim'[d].source = claim[d].source
    BY <1>s, <1>t, <2>1, MoveEffect
  <2> QED
    BY <1>o, <1>p, <2>1, <2>3, JobKeep DEF JobInv
<1>10. ASSUME NEW c \in Claims, SyncWorkspace(c)
      PROVE  JobInv'
  <2>1. Move(c, "synced") /\ "synced" \in Working /\ claims' = claims /\ UNCHANGED <<job, out>>
    BY <1>10 DEF SyncWorkspace, Working, Consolidating
  <2>3. /\ claims' >= claims
        /\ \A d \in 1..claims :
            /\ claim'[d].key = claim[d].key
            /\ claim[d].key \in Threads => claim'[d].lease = claim[d].lease
            /\ claim'[d].at = "extracting" =>
                 claim[d].at = "extracting" /\ claim'[d].source = claim[d].source
    BY <1>s, <1>t, <2>1, MoveEffect
  <2> QED
    BY <1>o, <1>p, <2>1, <2>3, JobKeep DEF JobInv
<1>11. ASSUME NEW c \in Claims, SpawnAgent(c)
      PROVE  JobInv'
  <2>1. Move(c, "agent") /\ "agent" \in Working /\ claims' = claims /\ UNCHANGED <<job, out>>
    BY <1>11 DEF SpawnAgent, Working, Consolidating
  <2>3. /\ claims' >= claims
        /\ \A d \in 1..claims :
            /\ claim'[d].key = claim[d].key
            /\ claim[d].key \in Threads => claim'[d].lease = claim[d].lease
            /\ claim'[d].at = "extracting" =>
                 claim[d].at = "extracting" /\ claim'[d].source = claim[d].source
    BY <1>s, <1>t, <2>1, MoveEffect
  <2> QED
    BY <1>o, <1>p, <2>1, <2>3, JobKeep DEF JobInv
<1>12. ASSUME NEW c \in Claims, NEW now \in Readings, NEW to \in {"agent", "confirmed"},
             Heartbeat(c, now, to)
      PROVE  JobInv'
  <2>1. claim[c].key \notin Threads /\ claims' = claims /\ UNCHANGED <<job, out>>
    BY <1>12, MemoryJobsAssumption DEF Heartbeat, ClaimInv, Consolidating, Global
  <2>3. /\ claims' >= claims
        /\ \A d \in 1..claims :
            /\ claim'[d].key = claim[d].key
            /\ claim[d].key \in Threads => claim'[d].lease = claim[d].lease
            /\ claim'[d].at = "extracting" =>
                 claim[d].at = "extracting" /\ claim'[d].source = claim[d].source
    BY <1>s, <1>t, <1>12, <2>1, HeartbeatEffect, EndEffect
  <2> QED
    BY <1>o, <1>p, <2>1, <2>3, JobKeep DEF JobInv
<1>13. ASSUME NEW c \in Claims, ResetBaseline(c)
      PROVE  JobInv'
  <2>1. Move(c, "reset") /\ "reset" \in Working /\ claims' = claims /\ UNCHANGED <<job, out>>
    BY <1>13 DEF ResetBaseline, Working, Consolidating
  <2>3. /\ claims' >= claims
        /\ \A d \in 1..claims :
            /\ claim'[d].key = claim[d].key
            /\ claim[d].key \in Threads => claim'[d].lease = claim[d].lease
            /\ claim'[d].at = "extracting" =>
                 claim[d].at = "extracting" /\ claim'[d].source = claim[d].source
    BY <1>s, <1>t, <2>1, MoveEffect
  <2> QED
    BY <1>o, <1>p, <2>1, <2>3, JobKeep DEF JobInv
<1>14. ASSUME NEW c \in Claims, MarkGlobalPhase2JobSucceeded(c)
      PROVE  JobInv'
  <2>3. /\ claims' >= claims
        /\ \A d \in 1..claims :
            /\ claim'[d].key = claim[d].key
            /\ claim[d].key \in Threads => claim'[d].lease = claim[d].lease
            /\ claim'[d].at = "extracting" =>
                 claim[d].at = "extracting" /\ claim'[d].source = claim[d].source
    BY <1>s, <1>t, <1>14, GlobalEnds, EndEffect
  <2>4. \A t \in Threads : out'[t].source <= out[t].source /\ job'[t] = job[t]
    BY <1>14, <1>o, GlobalEnds
  <2> QED
    BY <1>p, <2>3, <2>4, JobKeep DEF JobInv
<1>15. ASSUME NEW c \in Claims, MarkGlobalPhase2JobFailed(c)
      PROVE  JobInv'
  <2>3. /\ claims' >= claims
        /\ \A d \in 1..claims :
            /\ claim'[d].key = claim[d].key
            /\ claim[d].key \in Threads => claim'[d].lease = claim[d].lease
            /\ claim'[d].at = "extracting" =>
                 claim[d].at = "extracting" /\ claim'[d].source = claim[d].source
    BY <1>s, <1>t, <1>15, GlobalEnds, EndEffect
  <2>4. \A t \in Threads : out'[t].source <= out[t].source /\ job'[t] = job[t]
    BY <1>15, <1>o, GlobalEnds
  <2> QED
    BY <1>p, <2>3, <2>4, JobKeep DEF JobInv
<1>16. ASSUME NEW c \in Claims, Crash(c)
      PROVE  JobInv'
  <2>3. /\ claims' >= claims
        /\ \A d \in 1..claims :
            /\ claim'[d].key = claim[d].key
            /\ claim[d].key \in Threads => claim'[d].lease = claim[d].lease
            /\ claim'[d].at = "extracting" =>
                 claim[d].at = "extracting" /\ claim'[d].source = claim[d].source
    BY <1>s, <1>t, <1>16, EndEffect DEF Crash
  <2> QED
    BY <1>16, <1>o, <1>p, <2>3, JobKeep DEF Crash, JobInv
<1>17. ASSUME ClearMemoryData
      PROVE  JobInv'
  BY <1>17, ClearEffect, EmptyRows DEF JobInv, JobRowInv
<1>18. ASSUME EnqueueGlobalConsolidation
      PROVE  JobInv'
  <2>3. /\ claims' >= claims
        /\ \A d \in 1..claims :
            /\ claim'[d].key = claim[d].key
            /\ claim[d].key \in Threads => claim'[d].lease = claim[d].lease
            /\ claim'[d].at = "extracting" =>
                 claim[d].at = "extracting" /\ claim'[d].source = claim[d].source
    BY <1>s, <1>t, <1>18 DEF EnqueueGlobalConsolidation
  <2> QED
    BY <1>18, <1>o, <1>p, <2>3, JobKeep DEF EnqueueGlobalConsolidation, JobInv
<1>19. ASSUME UNCHANGED vars
      PROVE  JobInv'
  <2>3. /\ claims' >= claims
        /\ \A d \in 1..claims :
            /\ claim'[d].key = claim[d].key
            /\ claim[d].key \in Threads => claim'[d].lease = claim[d].lease
            /\ claim'[d].at = "extracting" =>
                 claim[d].at = "extracting" /\ claim'[d].source = claim[d].source
    BY <1>s, <1>t, <1>19 DEF vars
  <2> QED
    BY <1>19, <1>o, <1>p, <2>3, JobKeep DEF vars, JobInv
<1> QED
  BY <1>1, <1>2, <1>3, <1>4, <1>5, <1>6, <1>7, <1>8, <1>9, <1>10, <1>11, 
     <1>12, <1>13, <1>14, <1>15, <1>16, <1>17, <1>18, <1>19, <1>9a DEF Next, Stage1, Phase2

\* The same for the row of the consolidation.
LEMMA GlobKeep ==
  ASSUME TypeOK, claims' >= claims, claims' \in Nat, GlobInv,
         glob'.status = "running" => glob' = glob,
         \A d \in 1..claims : claim'[d].key = claim[d].key /\ claim'[d].lease = claim[d].lease
  PROVE  GlobInv'
<1>1. claims \in Nat /\ glob.token \in Nat
  BY MemoryJobsAssumption DEF TypeOK, GlobalRows
<1> QED
  BY <1>1 DEF GlobInv

\* A running consolidation stays in agreement with the claim that it names.
LEMMA GlobStep ==
  ASSUME TypeOK, ClaimInv, GlobInv, [Next]_vars
  PROVE  GlobInv'
<1>t. claims \in 0..MaxClaims /\ Claims = 1..MaxClaims /\ claims \in Nat
  BY MemoryJobsAssumption DEF TypeOK, Claims
<1>s. \A d \in 1..claims : d \in Claims
  BY <1>t, MemoryJobsAssumption
<1>1. ASSUME Tick
      PROVE  GlobInv'
  <2>3. /\ claims' >= claims /\ claims' \in Nat
        /\ \A d \in 1..claims : claim'[d].key = claim[d].key /\ claim'[d].lease = claim[d].lease
    BY <1>s, <1>t, <1>1 DEF Tick
  <2>4. glob'.status = "running" => glob' = glob
    BY <1>1 DEF Tick
  <2> QED
    BY <2>3, <2>4, GlobKeep
<1>2. ASSUME NEW t \in Threads, NEW src \in Versions, NEW now \in Readings,
             TryClaimStage1Job(t, src, now)
      PROVE  GlobInv'
  <2>1. Grant(t, src, now) /\ src \in 0..MaxVersion
    BY <1>2, MemoryJobsAssumption DEF TryClaimStage1Job, Stage1Claimed, Versions
  <2>2. /\ claims' = claims + 1 /\ claims + 1 \in Claims
        /\ \A d \in Claims : d # claims + 1 => claim'[d] = claim[d]
        /\ claim'[claims + 1].at = "extracting" /\ claim'[claims + 1].key = t
        /\ claim'[claims + 1].source = src
        /\ claim'[claims + 1].lease = now + Lease /\ claim'[claims + 1].wiped = FALSE
    BY <2>1, GrantEffect, MemoryJobsAssumption DEF Global
  <2>3. /\ claims' >= claims /\ claims' \in Nat
        /\ \A d \in 1..claims : claim'[d].key = claim[d].key /\ claim'[d].lease = claim[d].lease
    BY <1>s, <1>t, <2>2
  <2>4. glob'.status = "running" => glob' = glob
    BY <1>2 DEF TryClaimStage1Job, Stage1Claimed
  <2> QED
    BY <2>3, <2>4, GlobKeep
<1>3. ASSUME NEW t \in Threads, DeleteThreadMemory(t)
      PROVE  GlobInv'
  <2>3. /\ claims' >= claims /\ claims' \in Nat
        /\ \A d \in 1..claims : claim'[d].key = claim[d].key /\ claim'[d].lease = claim[d].lease
    BY <1>s, <1>t, <1>3, WipeEffect DEF DeleteThreadMemory
  <2>4. glob'.status = "running" => glob' = glob
    BY <1>3, DeleteEffect, EnqueueEffect
  <2> QED
    BY <2>3, <2>4, GlobKeep
<1>4. ASSUME NEW t \in Threads, PruneStage1Output(t)
      PROVE  GlobInv'
  <2>3. /\ claims' >= claims /\ claims' \in Nat
        /\ \A d \in 1..claims : claim'[d].key = claim[d].key /\ claim'[d].lease = claim[d].lease
    BY <1>s, <1>t, <1>4 DEF PruneStage1Output
  <2>4. glob'.status = "running" => glob' = glob
    BY <1>4 DEF PruneStage1Output
  <2> QED
    BY <2>3, <2>4, GlobKeep
<1>5. ASSUME NEW now \in Readings, TryClaimGlobalPhase2Job(now)
      PROVE  GlobInv'
  <2>1. Grant(Global, 0, now) /\ 0 \in 0..MaxVersion
    BY <1>5, MemoryJobsAssumption DEF TryClaimGlobalPhase2Job
  <2>2. /\ claims' = claims + 1 /\ claims + 1 \in Claims
        /\ \A d \in Claims : d # claims + 1 => claim'[d] = claim[d]
        /\ claim'[claims + 1].at = "claimed" /\ claim'[claims + 1].key = Global
        /\ claim'[claims + 1].lease = now + Lease /\ claim'[claims + 1].wiped = FALSE
    BY <2>1, GrantEffect
  <2> QED
    BY <1>5, <1>t, <2>2, ClaimGlobalEffect DEF GlobInv
<1>6. ASSUME NEW c \in Claims, MarkStage1JobSucceeded(c)
      PROVE  GlobInv'
  <2>3. /\ claims' >= claims /\ claims' \in Nat
        /\ \A d \in 1..claims : claim'[d].key = claim[d].key /\ claim'[d].lease = claim[d].lease
    BY <1>s, <1>t, <1>6, EndEffect DEF MarkStage1JobSucceeded
  <2>4. glob'.status = "running" => glob' = glob
    BY <1>6, SucceededEffect, EnqueueEffect
  <2> QED
    BY <2>3, <2>4, GlobKeep
<1>7. ASSUME NEW c \in Claims, MarkStage1JobSucceededNoOutput(c)
      PROVE  GlobInv'
  <2>3. /\ claims' >= claims /\ claims' \in Nat
        /\ \A d \in 1..claims : claim'[d].key = claim[d].key /\ claim'[d].lease = claim[d].lease
    BY <1>s, <1>t, <1>7, EndEffect DEF MarkStage1JobSucceededNoOutput
  <2>4. glob'.status = "running" => glob' = glob
    BY <1>7, NoOutputEffect, EnqueueEffect
  <2> QED
    BY <2>3, <2>4, GlobKeep
<1>8. ASSUME NEW c \in Claims, MarkStage1JobFailed(c)
      PROVE  GlobInv'
  <2>3. /\ claims' >= claims /\ claims' \in Nat
        /\ \A d \in 1..claims : claim'[d].key = claim[d].key /\ claim'[d].lease = claim[d].lease
    BY <1>s, <1>t, <1>8, EndEffect DEF MarkStage1JobFailed
  <2>4. glob'.status = "running" => glob' = glob
    BY <1>8 DEF MarkStage1JobFailed
  <2> QED
    BY <2>3, <2>4, GlobKeep
<1>9. ASSUME NEW c \in Claims, NEW t \in Threads, LoadRow(c, t)
      PROVE  GlobInv'
  <2>1. claims' = claims /\ UNCHANGED <<job, out, glob>>
    BY <1>9 DEF LoadRow
  <2>3. /\ claims' >= claims /\ claims' \in Nat
        /\ \A d \in 1..claims : claim'[d].key = claim[d].key /\ claim'[d].lease = claim[d].lease
    BY <1>s, <1>t, <1>9, <2>1, LoadEffect
  <2>4. glob'.status = "running" => glob' = glob
    BY <2>1
  <2> QED
    BY <2>3, <2>4, GlobKeep
<1>9a. ASSUME NEW c \in Claims, LoadInputs(c)
      PROVE  GlobInv'
  <2>1. Move(c, "loaded") /\ "loaded" \in Working /\ claims' = claims /\ glob' = glob
    BY <1>9a DEF LoadInputs, Working, Consolidating
  <2>3. /\ claims' >= claims /\ claims' \in Nat
        /\ \A d \in 1..claims : claim'[d].key = claim[d].key /\ claim'[d].lease = claim[d].lease
    BY <1>s, <1>t, <2>1, MoveEffect
  <2>4. glob'.status = "running" => glob' = glob
    BY <2>1
  <2> QED
    BY <2>3, <2>4, GlobKeep
<1>10. ASSUME NEW c \in Claims, SyncWorkspace(c)
      PROVE  GlobInv'
  <2>1. Move(c, "synced") /\ "synced" \in Working /\ claims' = claims /\ glob' = glob
    BY <1>10 DEF SyncWorkspace, Working, Consolidating
  <2>3. /\ claims' >= claims /\ claims' \in Nat
        /\ \A d \in 1..claims : claim'[d].key = claim[d].key /\ claim'[d].lease = claim[d].lease
    BY <1>s, <1>t, <2>1, MoveEffect
  <2>4. glob'.status = "running" => glob' = glob
    BY <2>1
  <2> QED
    BY <2>3, <2>4, GlobKeep
<1>11. ASSUME NEW c \in Claims, SpawnAgent(c)
      PROVE  GlobInv'
  <2>1. Move(c, "agent") /\ "agent" \in Working /\ claims' = claims /\ glob' = glob
    BY <1>11 DEF SpawnAgent, Working, Consolidating
  <2>3. /\ claims' >= claims /\ claims' \in Nat
        /\ \A d \in 1..claims : claim'[d].key = claim[d].key /\ claim'[d].lease = claim[d].lease
    BY <1>s, <1>t, <2>1, MoveEffect
  <2>4. glob'.status = "running" => glob' = glob
    BY <2>1
  <2> QED
    BY <2>3, <2>4, GlobKeep
<1>12. ASSUME NEW c \in Claims, NEW now \in Readings, NEW to \in {"agent", "confirmed"},
             Heartbeat(c, now, to)
      PROVE  GlobInv'
  <2>0. claims' = claims /\ claim[c].key = Global /\ claim[c].at # "unused" /\ c <= claims
    BY <1>12, <1>t DEF Heartbeat, ClaimInv, Consolidating
  <2>1. CASE OwnsGlobal(c)
    BY <1>12, <1>t, <2>0, <2>1, HeartbeatEffect DEF GlobInv
  <2>2. CASE ~OwnsGlobal(c)
    BY <1>12, <1>s, <1>t, <2>0, <2>2, HeartbeatEffect, EndEffect, GlobKeep
  <2> QED
    BY <2>1, <2>2
<1>13. ASSUME NEW c \in Claims, ResetBaseline(c)
      PROVE  GlobInv'
  <2>1. Move(c, "reset") /\ "reset" \in Working /\ claims' = claims /\ glob' = glob
    BY <1>13 DEF ResetBaseline, Working, Consolidating
  <2>3. /\ claims' >= claims /\ claims' \in Nat
        /\ \A d \in 1..claims : claim'[d].key = claim[d].key /\ claim'[d].lease = claim[d].lease
    BY <1>s, <1>t, <2>1, MoveEffect
  <2>4. glob'.status = "running" => glob' = glob
    BY <2>1
  <2> QED
    BY <2>3, <2>4, GlobKeep
<1>14. ASSUME NEW c \in Claims, MarkGlobalPhase2JobSucceeded(c)
      PROVE  GlobInv'
  <2>3. /\ claims' >= claims /\ claims' \in Nat
        /\ \A d \in 1..claims : claim'[d].key = claim[d].key /\ claim'[d].lease = claim[d].lease
    BY <1>s, <1>t, <1>14, GlobalEnds, EndEffect
  <2>4. glob'.status = "running" => glob' = glob
    BY <1>14, GlobalEnds
  <2> QED
    BY <2>3, <2>4, GlobKeep
<1>15. ASSUME NEW c \in Claims, MarkGlobalPhase2JobFailed(c)
      PROVE  GlobInv'
  <2>3. /\ claims' >= claims /\ claims' \in Nat
        /\ \A d \in 1..claims : claim'[d].key = claim[d].key /\ claim'[d].lease = claim[d].lease
    BY <1>s, <1>t, <1>15, GlobalEnds, EndEffect
  <2>4. glob'.status = "running" => glob' = glob
    BY <1>15, GlobalEnds
  <2> QED
    BY <2>3, <2>4, GlobKeep
<1>16. ASSUME NEW c \in Claims, Crash(c)
      PROVE  GlobInv'
  <2>3. /\ claims' >= claims /\ claims' \in Nat
        /\ \A d \in 1..claims : claim'[d].key = claim[d].key /\ claim'[d].lease = claim[d].lease
    BY <1>s, <1>t, <1>16, EndEffect DEF Crash
  <2>4. glob'.status = "running" => glob' = glob
    BY <1>16 DEF Crash
  <2> QED
    BY <2>3, <2>4, GlobKeep
<1>17. ASSUME ClearMemoryData
      PROVE  GlobInv'
  BY <1>17, EmptyRows DEF ClearMemoryData, GlobInv
<1>18. ASSUME EnqueueGlobalConsolidation
      PROVE  GlobInv'
  <2>3. /\ claims' >= claims /\ claims' \in Nat
        /\ \A d \in 1..claims : claim'[d].key = claim[d].key /\ claim'[d].lease = claim[d].lease
    BY <1>s, <1>t, <1>18 DEF EnqueueGlobalConsolidation
  <2>4. glob'.status = "running" => glob' = glob
    BY <1>18, EnqueueEffect DEF EnqueueGlobalConsolidation
  <2> QED
    BY <2>3, <2>4, GlobKeep
<1>19. ASSUME UNCHANGED vars
      PROVE  GlobInv'
  <2>3. /\ claims' >= claims /\ claims' \in Nat
        /\ \A d \in 1..claims : claim'[d].key = claim[d].key /\ claim'[d].lease = claim[d].lease
    BY <1>s, <1>t, <1>19 DEF vars
  <2>4. glob'.status = "running" => glob' = glob
    BY <1>19 DEF vars
  <2> QED
    BY <2>3, <2>4, GlobKeep
<1> QED
  BY <1>1, <1>2, <1>3, <1>4, <1>5, <1>6, <1>7, <1>8, <1>9, <1>10, <1>11, 
     <1>12, <1>13, <1>14, <1>15, <1>16, <1>17, <1>18, <1>19, <1>9a DEF Next, Stage1, Phase2


\* A claim that was within its lease and whose row was not written owns it still.
LEMMA LeaseKeep ==
  ASSUME NEW d \in Claims, TypeOK, clock' \in Nat, clock' >= clock,
         Holds(d) => IF claim[d].key = Global THEN OwnsGlobal(d) ELSE Owned(d),
         claim'[d].at \in Working => claim[d].at \in Working,
         claim'[d].key = claim[d].key, claim'[d].lease = claim[d].lease,
         claim[d].wiped => claim'[d].wiped,
         Holds(d) /\ Holds(d)' /\ claim[d].key = Global /\ OwnsGlobal(d) => OwnsGlobal(d)',
         Holds(d) /\ Holds(d)' /\ claim[d].key # Global /\ Owned(d) => Owned(d)'
  PROVE  Holds(d)' => IF claim'[d].key = Global THEN OwnsGlobal(d)' ELSE Owned(d)'
<1>1. claim[d].lease \in Nat /\ clock \in Nat
  <2>1. claim[d] \in Holders
    BY DEF TypeOK
  <2>2. \A h \in Holders : h.lease \in Nat
    BY MemoryJobsAssumption DEF Holders, Times
  <2> QED
    BY <2>1, <2>2, MemoryJobsAssumption DEF TypeOK
<1>2. Holds(d)' => Holds(d)
  BY <1>1 DEF Holds
<1> QED
  BY <1>2

\* Nobody takes a job from a worker within its lease.
LEMMA LeaseStep ==
  ASSUME TypeOK, ClaimInv, JobInv, GlobInv, LeaseHolderOwnsJob, [Next]_vars
  PROVE  LeaseHolderOwnsJob'
<1>t. claims \in 0..MaxClaims /\ Claims = 1..MaxClaims /\ claims \in Nat
  BY MemoryJobsAssumption DEF TypeOK, Claims
<1>s. \A d \in 1..claims : d \in Claims
  BY <1>t, MemoryJobsAssumption
<1>c. clock \in Nat
  BY MemoryJobsAssumption DEF TypeOK
<1>l. \A d \in Claims : claim[d].lease \in Nat
  <2>1. \A d \in Claims : claim[d] \in Holders
    BY DEF TypeOK
  <2>2. \A h \in Holders : h.lease \in Nat
    BY MemoryJobsAssumption DEF Holders, Times
  <2> QED
    BY <2>1, <2>2
<1>1. ASSUME Tick
      PROVE  LeaseHolderOwnsJob'
  <2> SUFFICES ASSUME NEW d \in Claims
               PROVE  (Holds(d)' => IF claim'[d].key = Global THEN OwnsGlobal(d)' ELSE Owned(d)')
    BY DEF LeaseHolderOwnsJob
  <2>5. /\ claim'[d].at \in Working => claim[d].at \in Working
        /\ claim'[d].key = claim[d].key /\ claim'[d].lease = claim[d].lease
        /\ claim[d].wiped => claim'[d].wiped
        /\ clock' \in Nat /\ clock' >= clock
    BY <1>1, <1>c DEF Tick
  <2>6. /\ Holds(d) /\ Holds(d)' /\ claim[d].key = Global /\ OwnsGlobal(d) => OwnsGlobal(d)'
        /\ Holds(d) /\ Holds(d)' /\ claim[d].key # Global /\ Owned(d) => Owned(d)'
    BY <1>1 DEF Tick, Owned, OwnsGlobal
  <2> QED
    BY <2>5, <2>6, LeaseKeep DEF LeaseHolderOwnsJob
<1>2. ASSUME NEW t \in Threads, NEW src \in Versions, NEW now \in Readings,
             TryClaimStage1Job(t, src, now)
      PROVE  LeaseHolderOwnsJob'
  <2>1. Grant(t, src, now) /\ src \in 0..MaxVersion
    BY <1>2, MemoryJobsAssumption DEF TryClaimStage1Job, Stage1Claimed, Versions
  <2>2. /\ claims' = claims + 1 /\ claims + 1 \in Claims
        /\ \A d \in Claims : d # claims + 1 => claim'[d] = claim[d]
        /\ claim'[claims + 1].at = "extracting" /\ claim'[claims + 1].key = t
        /\ claim'[claims + 1].source = src
        /\ claim'[claims + 1].lease = now + Lease /\ claim'[claims + 1].wiped = FALSE
    BY <2>1, GrantEffect, MemoryJobsAssumption DEF Global
  <2>3. clock' = clock /\ glob' = glob
    BY <1>2 DEF TryClaimStage1Job, Stage1Claimed
  <2> SUFFICES ASSUME NEW d \in Claims
               PROVE  (Holds(d)' => IF claim'[d].key = Global THEN OwnsGlobal(d)' ELSE Owned(d)')
    BY DEF LeaseHolderOwnsJob
  <2>4. CASE d = claims + 1
    BY <1>2, <2>2, <2>4, ClaimRow, MemoryJobsAssumption DEF Owned, Global
  <2>5. CASE d # claims + 1
    <3>1. claim'[d] = claim[d]
      BY <2>2, <2>5
    <3>2. /\ Holds(d) /\ claim[d].key = Global /\ OwnsGlobal(d) => OwnsGlobal(d)'
          /\ Holds(d) /\ claim[d].key # Global /\ Owned(d) => Owned(d)'
      <4>1. claim[d].key = t /\ Holds(d) => ~Owned(d)
        <5> SUFFICES ASSUME claim[d].key = t, Holds(d), Owned(d)
                     PROVE  FALSE
          OBVIOUS
        <5>1. claim[d].lease = job[t].lease /\ job[t].status = "running"
          BY DEF Owned, JobInv, JobRowInv
        <5>2. job[t].lease <= now /\ now \in 1..clock
          BY <1>2, <5>1 DEF TryClaimStage1Job, Readings
        <5>3. claim[d].lease > clock /\ claim[d].lease \in Nat
          BY <1>l DEF Holds
        <5> QED
          BY <1>c, <5>1, <5>2, <5>3
      <4>2. claim[d].key # Global => claim[d].key \in Threads
        BY DEF TypeOK, Holders
      <4> QED
        BY <1>2, <2>3, <3>1, <4>1, <4>2, ClaimRow DEF Owned, OwnsGlobal
    <3> QED
      BY <1>c, <2>3, <3>1, <3>2, LeaseKeep DEF LeaseHolderOwnsJob
  <2> QED
    BY <2>4, <2>5
<1>3. ASSUME NEW t \in Threads, DeleteThreadMemory(t)
      PROVE  LeaseHolderOwnsJob'
  <2>1. Wipe({t}) /\ clock' = clock
    BY <1>3 DEF DeleteThreadMemory
  <2> SUFFICES ASSUME NEW d \in Claims
               PROVE  (Holds(d)' => IF claim'[d].key = Global THEN OwnsGlobal(d)' ELSE Owned(d)')
    BY DEF LeaseHolderOwnsJob
  <2>5. /\ claim'[d].at \in Working => claim[d].at \in Working
        /\ claim'[d].key = claim[d].key /\ claim'[d].lease = claim[d].lease
        /\ claim[d].wiped => claim'[d].wiped
        /\ clock' \in Nat /\ clock' >= clock
    BY <1>c, <2>1, WipeEffect
  <2>6. /\ Holds(d) /\ Holds(d)' /\ claim[d].key = Global /\ OwnsGlobal(d) => OwnsGlobal(d)'
        /\ Holds(d) /\ Holds(d)' /\ claim[d].key # Global /\ Owned(d) => Owned(d)'
    <3>1. Holds(d)' => claim[d].key # t
      BY <2>1, WipeEffect DEF Holds
    <3>2. claim'[d].key = claim[d].key /\ claim[d].key \in Threads \cup {Global}
      BY <2>5 DEF TypeOK, Holders
    <3>3. glob.status = "running" => glob' = glob
      BY <1>3, EnqueueEffect, DeleteEffect
    <3>4. claim[d].key # t /\ claim[d].key # Global /\ Owned(d) => Owned(d)'
      BY <1>3, <3>2, DeleteEffect DEF Owned
    <3> QED
      BY <3>1, <3>2, <3>3, <3>4 DEF OwnsGlobal
  <2> QED
    BY <2>5, <2>6, LeaseKeep DEF LeaseHolderOwnsJob
<1>4. ASSUME NEW t \in Threads, PruneStage1Output(t)
      PROVE  LeaseHolderOwnsJob'
  <2> SUFFICES ASSUME NEW d \in Claims
               PROVE  (Holds(d)' => IF claim'[d].key = Global THEN OwnsGlobal(d)' ELSE Owned(d)')
    BY DEF LeaseHolderOwnsJob
  <2>5. /\ claim'[d].at \in Working => claim[d].at \in Working
        /\ claim'[d].key = claim[d].key /\ claim'[d].lease = claim[d].lease
        /\ claim[d].wiped => claim'[d].wiped
        /\ clock' \in Nat /\ clock' >= clock
    BY <1>4, <1>c DEF PruneStage1Output
  <2>6. /\ Holds(d) /\ Holds(d)' /\ claim[d].key = Global /\ OwnsGlobal(d) => OwnsGlobal(d)'
        /\ Holds(d) /\ Holds(d)' /\ claim[d].key # Global /\ Owned(d) => Owned(d)'
    BY <1>4 DEF PruneStage1Output, Owned, OwnsGlobal
  <2> QED
    BY <2>5, <2>6, LeaseKeep DEF LeaseHolderOwnsJob
<1>5. ASSUME NEW now \in Readings, TryClaimGlobalPhase2Job(now)
      PROVE  LeaseHolderOwnsJob'
  <2>1. Grant(Global, 0, now) /\ 0 \in 0..MaxVersion
    BY <1>5, MemoryJobsAssumption DEF TryClaimGlobalPhase2Job
  <2>2. /\ claims' = claims + 1 /\ claims + 1 \in Claims
        /\ \A d \in Claims : d # claims + 1 => claim'[d] = claim[d]
        /\ claim'[claims + 1].at = "claimed" /\ claim'[claims + 1].key = Global
        /\ claim'[claims + 1].lease = now + Lease /\ claim'[claims + 1].wiped = FALSE
    BY <2>1, GrantEffect
  <2>3. clock' = clock /\ job' = job
    BY <1>5 DEF TryClaimGlobalPhase2Job
  <2> SUFFICES ASSUME NEW d \in Claims
               PROVE  (Holds(d)' => IF claim'[d].key = Global THEN OwnsGlobal(d)' ELSE Owned(d)')
    BY DEF LeaseHolderOwnsJob
  <2>4. CASE d = claims + 1
    BY <1>5, <2>2, <2>4, ClaimGlobalEffect DEF OwnsGlobal
  <2>5. CASE d # claims + 1
    <3>1. claim'[d] = claim[d]
      BY <2>2, <2>5
    <3>2. /\ Holds(d) /\ claim[d].key = Global /\ OwnsGlobal(d) => OwnsGlobal(d)'
          /\ Holds(d) /\ claim[d].key # Global /\ Owned(d) => Owned(d)'
      <4>1. Holds(d) => ~OwnsGlobal(d)
        <5> SUFFICES ASSUME Holds(d), OwnsGlobal(d)
                     PROVE  FALSE
          OBVIOUS
        <5>1. claim[d].lease = glob.lease /\ glob.status = "running"
          BY DEF OwnsGlobal, GlobInv
        <5>2. glob.lease <= now /\ now \in 1..clock
          BY <1>5, <5>1 DEF TryClaimGlobalPhase2Job, Readings
        <5>3. claim[d].lease > clock /\ claim[d].lease \in Nat
          BY <1>l DEF Holds
        <5> QED
          BY <1>c, <5>1, <5>2, <5>3
      <4> QED
        BY <2>3, <3>1, <4>1 DEF Owned
    <3> QED
      BY <1>c, <2>3, <3>1, <3>2, LeaseKeep DEF LeaseHolderOwnsJob
  <2> QED
    BY <2>4, <2>5
<1>6. ASSUME NEW c \in Claims, MarkStage1JobSucceeded(c)
      PROVE  LeaseHolderOwnsJob'
  <2>1. End(c) /\ clock' = clock
    BY <1>6 DEF MarkStage1JobSucceeded
  <2>w. "over" \notin Working
    BY DEF Working, Consolidating
  <2> SUFFICES ASSUME NEW d \in Claims
               PROVE  (Holds(d)' => IF claim'[d].key = Global THEN OwnsGlobal(d)' ELSE Owned(d)')
    BY DEF LeaseHolderOwnsJob
  <2>5. /\ claim'[d].at \in Working => claim[d].at \in Working
        /\ claim'[d].key = claim[d].key /\ claim'[d].lease = claim[d].lease
        /\ claim[d].wiped => claim'[d].wiped
        /\ clock' \in Nat /\ clock' >= clock
    BY <1>c, <2>1, <2>w, EndEffect
  <2>6. /\ Holds(d) /\ Holds(d)' /\ claim[d].key = Global /\ OwnsGlobal(d) => OwnsGlobal(d)'
        /\ Holds(d) /\ Holds(d)' /\ claim[d].key # Global /\ Owned(d) => Owned(d)'
    <3>1. Holds(d)' => d # c
      BY <2>1, <2>w, EndEffect DEF Holds
    <3>2. claim'[d].key = claim[d].key /\ claim[d].key \in Threads \cup {Global}
      BY <2>5 DEF TypeOK, Holders
    <3>3. glob.status = "running" => glob' = glob
      BY <1>6, <2>1, EnqueueEffect, SucceededEffect
    <3>4. d # c /\ claim[d].key # Global /\ Owned(d) => Owned(d)'
      BY <1>6, <3>2, SucceededEffect DEF Owned
    <3> QED
      BY <3>1, <3>2, <3>3, <3>4 DEF OwnsGlobal
  <2> QED
    BY <2>5, <2>6, LeaseKeep DEF LeaseHolderOwnsJob
<1>7. ASSUME NEW c \in Claims, MarkStage1JobSucceededNoOutput(c)
      PROVE  LeaseHolderOwnsJob'
  <2>1. End(c) /\ clock' = clock
    BY <1>7 DEF MarkStage1JobSucceededNoOutput
  <2>w. "over" \notin Working
    BY DEF Working, Consolidating
  <2> SUFFICES ASSUME NEW d \in Claims
               PROVE  (Holds(d)' => IF claim'[d].key = Global THEN OwnsGlobal(d)' ELSE Owned(d)')
    BY DEF LeaseHolderOwnsJob
  <2>5. /\ claim'[d].at \in Working => claim[d].at \in Working
        /\ claim'[d].key = claim[d].key /\ claim'[d].lease = claim[d].lease
        /\ claim[d].wiped => claim'[d].wiped
        /\ clock' \in Nat /\ clock' >= clock
    BY <1>c, <2>1, <2>w, EndEffect
  <2>6. /\ Holds(d) /\ Holds(d)' /\ claim[d].key = Global /\ OwnsGlobal(d) => OwnsGlobal(d)'
        /\ Holds(d) /\ Holds(d)' /\ claim[d].key # Global /\ Owned(d) => Owned(d)'
    <3>1. Holds(d)' => d # c
      BY <2>1, <2>w, EndEffect DEF Holds
    <3>2. claim'[d].key = claim[d].key /\ claim[d].key \in Threads \cup {Global}
      BY <2>5 DEF TypeOK, Holders
    <3>3. glob.status = "running" => glob' = glob
      BY <1>7, <2>1, EnqueueEffect, NoOutputEffect
    <3>4. d # c /\ claim[d].key # Global /\ Owned(d) => Owned(d)'
      BY <1>7, <3>2, NoOutputEffect DEF Owned
    <3> QED
      BY <3>1, <3>2, <3>3, <3>4 DEF OwnsGlobal
  <2> QED
    BY <2>5, <2>6, LeaseKeep DEF LeaseHolderOwnsJob
<1>8. ASSUME NEW c \in Claims, MarkStage1JobFailed(c)
      PROVE  LeaseHolderOwnsJob'
  <2>1. End(c) /\ clock' = clock /\ glob' = glob
    BY <1>8 DEF MarkStage1JobFailed
  <2>w. "over" \notin Working
    BY DEF Working, Consolidating
  <2> SUFFICES ASSUME NEW d \in Claims
               PROVE  (Holds(d)' => IF claim'[d].key = Global THEN OwnsGlobal(d)' ELSE Owned(d)')
    BY DEF LeaseHolderOwnsJob
  <2>5. /\ claim'[d].at \in Working => claim[d].at \in Working
        /\ claim'[d].key = claim[d].key /\ claim'[d].lease = claim[d].lease
        /\ claim[d].wiped => claim'[d].wiped
        /\ clock' \in Nat /\ clock' >= clock
    BY <1>c, <2>1, <2>w, EndEffect
  <2>6. /\ Holds(d) /\ Holds(d)' /\ claim[d].key = Global /\ OwnsGlobal(d) => OwnsGlobal(d)'
        /\ Holds(d) /\ Holds(d)' /\ claim[d].key # Global /\ Owned(d) => Owned(d)'
    <3>1. Holds(d)' => d # c
      BY <2>1, <2>w, EndEffect DEF Holds
    <3>2. claim'[d].key = claim[d].key /\ claim[d].key \in Threads \cup {Global}
      BY <2>5 DEF TypeOK, Holders
    <3>3. glob.status = "running" => glob' = glob
      BY <1>8, <2>1, EnqueueEffect, FailedEffect
    <3>4. d # c /\ claim[d].key # Global /\ Owned(d) => Owned(d)'
      BY <1>8, <3>2, FailedEffect DEF Owned
    <3> QED
      BY <3>1, <3>2, <3>3, <3>4 DEF OwnsGlobal
  <2> QED
    BY <2>5, <2>6, LeaseKeep DEF LeaseHolderOwnsJob
<1>9. ASSUME NEW c \in Claims, NEW t \in Threads, LoadRow(c, t)
      PROVE  LeaseHolderOwnsJob'
  <2>1. UNCHANGED <<clock, job, glob>> /\ claim[c].at \in Working
    BY <1>9 DEF LoadRow, Working, Consolidating
  <2> SUFFICES ASSUME NEW d \in Claims
               PROVE  (Holds(d)' => IF claim'[d].key = Global THEN OwnsGlobal(d)' ELSE Owned(d)')
    BY DEF LeaseHolderOwnsJob
  <2>5. /\ claim'[d].at \in Working => claim[d].at \in Working
        /\ claim'[d].key = claim[d].key /\ claim'[d].lease = claim[d].lease
        /\ claim[d].wiped => claim'[d].wiped
        /\ clock' \in Nat /\ clock' >= clock
    BY <1>9, <1>c, <2>1, LoadEffect
  <2>6. /\ Holds(d) /\ Holds(d)' /\ claim[d].key = Global /\ OwnsGlobal(d) => OwnsGlobal(d)'
        /\ Holds(d) /\ Holds(d)' /\ claim[d].key # Global /\ Owned(d) => Owned(d)'
    BY <1>9, <2>1, LoadEffect DEF Owned, OwnsGlobal
  <2> QED
    BY <2>5, <2>6, LeaseKeep DEF LeaseHolderOwnsJob
<1>9a. ASSUME NEW c \in Claims, LoadInputs(c)
      PROVE  LeaseHolderOwnsJob'
  <2>1. /\ Move(c, "loaded") /\ "loaded" \in Working /\ claim[c].at \in Working
        /\ UNCHANGED <<clock, job, glob>>
    BY <1>9a DEF LoadInputs, Working, Consolidating
  <2> SUFFICES ASSUME NEW d \in Claims
               PROVE  (Holds(d)' => IF claim'[d].key = Global THEN OwnsGlobal(d)' ELSE Owned(d)')
    BY DEF LeaseHolderOwnsJob
  <2>5. /\ claim'[d].at \in Working => claim[d].at \in Working
        /\ claim'[d].key = claim[d].key /\ claim'[d].lease = claim[d].lease
        /\ claim[d].wiped => claim'[d].wiped
        /\ clock' \in Nat /\ clock' >= clock
    BY <1>c, <2>1, MoveEffect
  <2>6. /\ Holds(d) /\ Holds(d)' /\ claim[d].key = Global /\ OwnsGlobal(d) => OwnsGlobal(d)'
        /\ Holds(d) /\ Holds(d)' /\ claim[d].key # Global /\ Owned(d) => Owned(d)'
    BY <2>1, MoveEffect DEF Owned, OwnsGlobal
  <2> QED
    BY <2>5, <2>6, LeaseKeep DEF LeaseHolderOwnsJob
<1>10. ASSUME NEW c \in Claims, SyncWorkspace(c)
      PROVE  LeaseHolderOwnsJob'
  <2>1. /\ Move(c, "synced") /\ "synced" \in Working /\ claim[c].at \in Working
        /\ UNCHANGED <<clock, job, glob>>
    BY <1>10 DEF SyncWorkspace, Working, Consolidating
  <2> SUFFICES ASSUME NEW d \in Claims
               PROVE  (Holds(d)' => IF claim'[d].key = Global THEN OwnsGlobal(d)' ELSE Owned(d)')
    BY DEF LeaseHolderOwnsJob
  <2>5. /\ claim'[d].at \in Working => claim[d].at \in Working
        /\ claim'[d].key = claim[d].key /\ claim'[d].lease = claim[d].lease
        /\ claim[d].wiped => claim'[d].wiped
        /\ clock' \in Nat /\ clock' >= clock
    BY <1>c, <2>1, MoveEffect
  <2>6. /\ Holds(d) /\ Holds(d)' /\ claim[d].key = Global /\ OwnsGlobal(d) => OwnsGlobal(d)'
        /\ Holds(d) /\ Holds(d)' /\ claim[d].key # Global /\ Owned(d) => Owned(d)'
    BY <2>1, MoveEffect DEF Owned, OwnsGlobal
  <2> QED
    BY <2>5, <2>6, LeaseKeep DEF LeaseHolderOwnsJob
<1>11. ASSUME NEW c \in Claims, SpawnAgent(c)
      PROVE  LeaseHolderOwnsJob'
  <2>1. /\ Move(c, "agent") /\ "agent" \in Working /\ claim[c].at \in Working
        /\ UNCHANGED <<clock, job, glob>>
    BY <1>11 DEF SpawnAgent, Working, Consolidating
  <2> SUFFICES ASSUME NEW d \in Claims
               PROVE  (Holds(d)' => IF claim'[d].key = Global THEN OwnsGlobal(d)' ELSE Owned(d)')
    BY DEF LeaseHolderOwnsJob
  <2>5. /\ claim'[d].at \in Working => claim[d].at \in Working
        /\ claim'[d].key = claim[d].key /\ claim'[d].lease = claim[d].lease
        /\ claim[d].wiped => claim'[d].wiped
        /\ clock' \in Nat /\ clock' >= clock
    BY <1>c, <2>1, MoveEffect
  <2>6. /\ Holds(d) /\ Holds(d)' /\ claim[d].key = Global /\ OwnsGlobal(d) => OwnsGlobal(d)'
        /\ Holds(d) /\ Holds(d)' /\ claim[d].key # Global /\ Owned(d) => Owned(d)'
    BY <2>1, MoveEffect DEF Owned, OwnsGlobal
  <2> QED
    BY <2>5, <2>6, LeaseKeep DEF LeaseHolderOwnsJob
<1>12. ASSUME NEW c \in Claims, NEW now \in Readings, NEW to \in {"agent", "confirmed"},
             Heartbeat(c, now, to)
      PROVE  LeaseHolderOwnsJob'
  <2>0. claim[c].key = Global /\ claim[c].at \in Working /\ UNCHANGED <<clock, job>>
    BY <1>12 DEF Heartbeat, ClaimInv, Working, Consolidating
  <2>w. "over" \notin Working
    BY DEF Working, Consolidating
  <2> SUFFICES ASSUME NEW d \in Claims
               PROVE  (Holds(d)' => IF claim'[d].key = Global THEN OwnsGlobal(d)' ELSE Owned(d)')
    BY DEF LeaseHolderOwnsJob
  <2>1. CASE OwnsGlobal(c)
    <3>1. glob'.status = "running" /\ glob'.token = c /\ glob.status = "running" /\ glob.token = c
      BY <1>12, <2>1, HeartbeatEffect DEF OwnsGlobal
    <3>2. CASE d = c
      BY <1>12, <2>0, <3>1, <3>2, HeartbeatEffect DEF OwnsGlobal
    <3>3. CASE d # c
      <4>1. claim'[d] = claim[d]
        BY <1>12, <3>3, HeartbeatEffect
      <4> QED
        BY <1>c, <2>0, <3>1, <3>3, <4>1, LeaseKeep DEF LeaseHolderOwnsJob, Owned, OwnsGlobal
    <3> QED
      BY <3>2, <3>3
  <2>2. CASE ~OwnsGlobal(c)
    <3>1. glob' = glob /\ End(c)
      BY <1>12, <2>2, HeartbeatEffect
    <3> QED
      BY <1>c, <2>0, <2>w, <3>1, EndEffect, LeaseKeep DEF LeaseHolderOwnsJob, Owned, OwnsGlobal
  <2> QED
    BY <2>1, <2>2
<1>13. ASSUME NEW c \in Claims, ResetBaseline(c)
      PROVE  LeaseHolderOwnsJob'
  <2>1. /\ Move(c, "reset") /\ "reset" \in Working /\ claim[c].at \in Working
        /\ UNCHANGED <<clock, job, glob>>
    BY <1>13 DEF ResetBaseline, Working, Consolidating
  <2> SUFFICES ASSUME NEW d \in Claims
               PROVE  (Holds(d)' => IF claim'[d].key = Global THEN OwnsGlobal(d)' ELSE Owned(d)')
    BY DEF LeaseHolderOwnsJob
  <2>5. /\ claim'[d].at \in Working => claim[d].at \in Working
        /\ claim'[d].key = claim[d].key /\ claim'[d].lease = claim[d].lease
        /\ claim[d].wiped => claim'[d].wiped
        /\ clock' \in Nat /\ clock' >= clock
    BY <1>c, <2>1, MoveEffect
  <2>6. /\ Holds(d) /\ Holds(d)' /\ claim[d].key = Global /\ OwnsGlobal(d) => OwnsGlobal(d)'
        /\ Holds(d) /\ Holds(d)' /\ claim[d].key # Global /\ Owned(d) => Owned(d)'
    BY <2>1, MoveEffect DEF Owned, OwnsGlobal
  <2> QED
    BY <2>5, <2>6, LeaseKeep DEF LeaseHolderOwnsJob
<1>14. ASSUME NEW c \in Claims, MarkGlobalPhase2JobSucceeded(c)
      PROVE  LeaseHolderOwnsJob'
  <2>1. End(c) /\ UNCHANGED <<clock, job>>
    BY <1>14, GlobalEnds
  <2>w. "over" \notin Working
    BY DEF Working, Consolidating
  <2> SUFFICES ASSUME NEW d \in Claims
               PROVE  (Holds(d)' => IF claim'[d].key = Global THEN OwnsGlobal(d)' ELSE Owned(d)')
    BY DEF LeaseHolderOwnsJob
  <2>5. /\ claim'[d].at \in Working => claim[d].at \in Working
        /\ claim'[d].key = claim[d].key /\ claim'[d].lease = claim[d].lease
        /\ claim[d].wiped => claim'[d].wiped
        /\ clock' \in Nat /\ clock' >= clock
    BY <1>c, <2>1, <2>w, EndEffect
  <2>6. /\ Holds(d) /\ Holds(d)' /\ claim[d].key = Global /\ OwnsGlobal(d) => OwnsGlobal(d)'
        /\ Holds(d) /\ Holds(d)' /\ claim[d].key # Global /\ Owned(d) => Owned(d)'
    <3>1. Holds(d)' => d # c
      BY <2>1, <2>w, EndEffect DEF Holds
    <3>2. OwnsGlobal(d) /\ d # c => OwnsGlobal(d)'
      BY <1>14, <2>1 DEF MarkGlobalPhase2JobSucceeded, OwnsGlobal
    <3> QED
      BY <2>1, <2>5, <3>1, <3>2 DEF Owned
  <2> QED
    BY <2>5, <2>6, LeaseKeep DEF LeaseHolderOwnsJob
<1>15. ASSUME NEW c \in Claims, MarkGlobalPhase2JobFailed(c)
      PROVE  LeaseHolderOwnsJob'
  <2>1. End(c) /\ UNCHANGED <<clock, job>>
    BY <1>15, GlobalEnds
  <2>w. "over" \notin Working
    BY DEF Working, Consolidating
  <2> SUFFICES ASSUME NEW d \in Claims
               PROVE  (Holds(d)' => IF claim'[d].key = Global THEN OwnsGlobal(d)' ELSE Owned(d)')
    BY DEF LeaseHolderOwnsJob
  <2>5. /\ claim'[d].at \in Working => claim[d].at \in Working
        /\ claim'[d].key = claim[d].key /\ claim'[d].lease = claim[d].lease
        /\ claim[d].wiped => claim'[d].wiped
        /\ clock' \in Nat /\ clock' >= clock
    BY <1>c, <2>1, <2>w, EndEffect
  <2>6. /\ Holds(d) /\ Holds(d)' /\ claim[d].key = Global /\ OwnsGlobal(d) => OwnsGlobal(d)'
        /\ Holds(d) /\ Holds(d)' /\ claim[d].key # Global /\ Owned(d) => Owned(d)'
    <3>1. Holds(d)' => d # c
      BY <2>1, <2>w, EndEffect DEF Holds
    <3>2. OwnsGlobal(d) /\ d # c => OwnsGlobal(d)'
      BY <1>15, <2>1 DEF MarkGlobalPhase2JobFailed, OwnsGlobal
    <3> QED
      BY <2>1, <2>5, <3>1, <3>2 DEF Owned
  <2> QED
    BY <2>5, <2>6, LeaseKeep DEF LeaseHolderOwnsJob
<1>16. ASSUME NEW c \in Claims, Crash(c)
      PROVE  LeaseHolderOwnsJob'
  <2>1. End(c) /\ UNCHANGED <<clock, job, glob>>
    BY <1>16 DEF Crash
  <2>w. "over" \notin Working
    BY DEF Working, Consolidating
  <2> SUFFICES ASSUME NEW d \in Claims
               PROVE  (Holds(d)' => IF claim'[d].key = Global THEN OwnsGlobal(d)' ELSE Owned(d)')
    BY DEF LeaseHolderOwnsJob
  <2>5. /\ claim'[d].at \in Working => claim[d].at \in Working
        /\ claim'[d].key = claim[d].key /\ claim'[d].lease = claim[d].lease
        /\ claim[d].wiped => claim'[d].wiped
        /\ clock' \in Nat /\ clock' >= clock
    BY <1>c, <2>1, <2>w, EndEffect
  <2>6. /\ Holds(d) /\ Holds(d)' /\ claim[d].key = Global /\ OwnsGlobal(d) => OwnsGlobal(d)'
        /\ Holds(d) /\ Holds(d)' /\ claim[d].key # Global /\ Owned(d) => Owned(d)'
    BY <2>1, EndEffect DEF Owned, OwnsGlobal
  <2> QED
    BY <2>5, <2>6, LeaseKeep DEF LeaseHolderOwnsJob
<1>17. ASSUME ClearMemoryData
      PROVE  LeaseHolderOwnsJob'
  <2>1. \A d \in Claims : claim'[d].wiped
    <3>1. \A d \in Claims : claim[d].key \in Threads \cup {Global}
      BY DEF TypeOK, Holders
    <3> QED
      BY <1>17, <3>1, WipeEffect DEF ClearMemoryData
  <2> QED
    BY <2>1 DEF LeaseHolderOwnsJob, Holds
<1>18. ASSUME EnqueueGlobalConsolidation
      PROVE  LeaseHolderOwnsJob'
  <2> SUFFICES ASSUME NEW d \in Claims
               PROVE  (Holds(d)' => IF claim'[d].key = Global THEN OwnsGlobal(d)' ELSE Owned(d)')
    BY DEF LeaseHolderOwnsJob
  <2>5. /\ claim'[d].at \in Working => claim[d].at \in Working
        /\ claim'[d].key = claim[d].key /\ claim'[d].lease = claim[d].lease
        /\ claim[d].wiped => claim'[d].wiped
        /\ clock' \in Nat /\ clock' >= clock
    BY <1>18, <1>c DEF EnqueueGlobalConsolidation
  <2>6. /\ Holds(d) /\ Holds(d)' /\ claim[d].key = Global /\ OwnsGlobal(d) => OwnsGlobal(d)'
        /\ Holds(d) /\ Holds(d)' /\ claim[d].key # Global /\ Owned(d) => Owned(d)'
    BY <1>18, EnqueueEffect DEF EnqueueGlobalConsolidation, Owned, OwnsGlobal
  <2> QED
    BY <2>5, <2>6, LeaseKeep DEF LeaseHolderOwnsJob
<1>19. ASSUME UNCHANGED vars
      PROVE  LeaseHolderOwnsJob'
  <2> SUFFICES ASSUME NEW d \in Claims
               PROVE  (Holds(d)' => IF claim'[d].key = Global THEN OwnsGlobal(d)' ELSE Owned(d)')
    BY DEF LeaseHolderOwnsJob
  <2>5. /\ claim'[d].at \in Working => claim[d].at \in Working
        /\ claim'[d].key = claim[d].key /\ claim'[d].lease = claim[d].lease
        /\ claim[d].wiped => claim'[d].wiped
        /\ clock' \in Nat /\ clock' >= clock
    BY <1>19, <1>c DEF vars
  <2>6. /\ Holds(d) /\ Holds(d)' /\ claim[d].key = Global /\ OwnsGlobal(d) => OwnsGlobal(d)'
        /\ Holds(d) /\ Holds(d)' /\ claim[d].key # Global /\ Owned(d) => Owned(d)'
    BY <1>19 DEF vars, Owned, OwnsGlobal
  <2> QED
    BY <2>5, <2>6, LeaseKeep DEF LeaseHolderOwnsJob
<1> QED
  BY <1>1, <1>2, <1>3, <1>4, <1>5, <1>6, <1>7, <1>8, <1>9, <1>10, <1>11, 
     <1>12, <1>13, <1>14, <1>15, <1>16, <1>17, <1>18, <1>19, <1>9a DEF Next, Stage1, Phase2

\* What a step may do to a thread's rows: the version recorded as done grows as
\* long as the row exists, and an output changes only with it.
Advances(t) ==
    /\ job'[t].status # "none" => job'[t].success >= job[t].success
    /\ out'[t].source # 0 =>
         \/ out'[t].source = out[t].source /\ job'[t].success = job[t].success
         \/ job'[t].success = out'[t].source

\* Every step does: a worker that lost its row writes neither of them, and the row
\* of one that still owns it has no later version.
LEMMA RowsAdvance ==
  ASSUME TypeOK, ClaimInv, JobInv, [Next]_vars
  PROVE  \A u \in Threads : Advances(u)
<1>t. claims \in 0..MaxClaims /\ Claims = 1..MaxClaims /\ claims \in Nat
  BY MemoryJobsAssumption DEF TypeOK, Claims
<1>s. \A d \in 1..claims : d \in Claims
  BY <1>t, MemoryJobsAssumption
<1>r. \A u \in Threads : job[u].success \in Nat /\ job[u].input \in Nat /\ out[u].source \in Nat
  <2>1. \A u \in Threads : job[u] \in Rows /\ out[u] \in Outputs
    BY DEF TypeOK
  <2>2. (\A r \in Rows : r.success \in Nat /\ r.input \in Nat) /\ (\A o \in Outputs : o.source \in Nat)
    BY MemoryJobsAssumption DEF Rows, Outputs
  <2> QED
    BY <2>1, <2>2
<1>1. ASSUME Tick
      PROVE  \A u \in Threads : Advances(u)
  <2>1. UNCHANGED <<job, out>>
    BY <1>1 DEF Tick
  <2> QED
    BY <1>r, <2>1 DEF Advances
<1>2. ASSUME NEW t \in Threads, NEW src \in Versions, NEW now \in Readings,
             TryClaimStage1Job(t, src, now)
      PROVE  \A u \in Threads : Advances(u)
  <2>1. out' = out
    BY <1>2 DEF TryClaimStage1Job, Stage1Claimed
  <2> QED
    BY <1>2, <1>r, <2>1, ClaimRow DEF Advances
<1>3. ASSUME NEW t \in Threads, DeleteThreadMemory(t)
      PROVE  \A u \in Threads : Advances(u)
  BY <1>3, <1>r, DeleteEffect, EmptyRows DEF Advances
<1>4. ASSUME NEW t \in Threads, PruneStage1Output(t)
      PROVE  \A u \in Threads : Advances(u)
  <2>1. job' = job
    BY <1>4 DEF PruneStage1Output
  <2> QED
    BY <1>4, <1>r, <2>1, PruneEffect, EmptyRows DEF Advances
<1>5. ASSUME NEW now \in Readings, TryClaimGlobalPhase2Job(now)
      PROVE  \A u \in Threads : Advances(u)
  <2>1. UNCHANGED <<job, out>>
    BY <1>5 DEF TryClaimGlobalPhase2Job
  <2> QED
    BY <1>r, <2>1 DEF Advances
<1>6. ASSUME NEW c \in Claims, MarkStage1JobSucceeded(c)
      PROVE  \A u \in Threads : Advances(u)
  <2>1. claim[c].key \in Threads /\ claim[c].at = "extracting"
    BY <1>6, SucceededEffect DEF MarkStage1JobSucceeded
  <2>2. \A u \in Threads : u # claim[c].key => Advances(u)
    BY <1>6, <1>r, SucceededEffect DEF Advances
  <2>3. Owned(c) => /\ claim[c].source = job[claim[c].key].input
                    /\ out[claim[c].key].source < job[claim[c].key].input
                    /\ job[claim[c].key].success < job[claim[c].key].input
    BY <2>1 DEF JobInv, JobRowInv, Owned
  <2>4. Advances(claim[c].key)
    BY <1>6, <1>r, <2>1, <2>3, SucceededEffect, EmptyRows DEF Advances
  <2> QED
    BY <2>2, <2>4
<1>7. ASSUME NEW c \in Claims, MarkStage1JobSucceededNoOutput(c)
      PROVE  \A u \in Threads : Advances(u)
  <2>1. claim[c].key \in Threads /\ claim[c].at = "extracting"
    BY <1>7, NoOutputEffect DEF MarkStage1JobSucceededNoOutput
  <2>2. \A u \in Threads : u # claim[c].key => Advances(u)
    BY <1>7, <1>r, NoOutputEffect DEF Advances
  <2>3. Owned(c) => /\ claim[c].source = job[claim[c].key].input
                    /\ out[claim[c].key].source < job[claim[c].key].input
                    /\ job[claim[c].key].success < job[claim[c].key].input
    BY <2>1 DEF JobInv, JobRowInv, Owned
  <2>4. Advances(claim[c].key)
    BY <1>7, <1>r, <2>1, <2>3, NoOutputEffect, EmptyRows DEF Advances
  <2> QED
    BY <2>2, <2>4
<1>8. ASSUME NEW c \in Claims, MarkStage1JobFailed(c)
      PROVE  \A u \in Threads : Advances(u)
  <2>1. out' = out
    BY <1>8 DEF MarkStage1JobFailed
  <2> QED
    BY <1>8, <1>r, <2>1, FailedEffect DEF Advances
<1>9. ASSUME NEW c \in Claims, NEW t \in Threads, LoadRow(c, t)
      PROVE  \A u \in Threads : Advances(u)
  <2>1. UNCHANGED <<job, out>>
    BY <1>9 DEF LoadRow
  <2> QED
    BY <1>r, <2>1 DEF Advances
<1>9a. ASSUME NEW c \in Claims, LoadInputs(c)
      PROVE  \A u \in Threads : Advances(u)
  <2>1. UNCHANGED <<job, out>>
    BY <1>9a DEF LoadInputs
  <2> QED
    BY <1>r, <2>1 DEF Advances
<1>10. ASSUME NEW c \in Claims, SyncWorkspace(c)
      PROVE  \A u \in Threads : Advances(u)
  <2>1. UNCHANGED <<job, out>>
    BY <1>10 DEF SyncWorkspace
  <2> QED
    BY <1>r, <2>1 DEF Advances
<1>11. ASSUME NEW c \in Claims, SpawnAgent(c)
      PROVE  \A u \in Threads : Advances(u)
  <2>1. UNCHANGED <<job, out>>
    BY <1>11 DEF SpawnAgent
  <2> QED
    BY <1>r, <2>1 DEF Advances
<1>12. ASSUME NEW c \in Claims, NEW now \in Readings, NEW to \in {"agent", "confirmed"},
             Heartbeat(c, now, to)
      PROVE  \A u \in Threads : Advances(u)
  <2>1. UNCHANGED <<job, out>>
    BY <1>12 DEF Heartbeat
  <2> QED
    BY <1>r, <2>1 DEF Advances
<1>13. ASSUME NEW c \in Claims, ResetBaseline(c)
      PROVE  \A u \in Threads : Advances(u)
  <2>1. UNCHANGED <<job, out>>
    BY <1>13 DEF ResetBaseline
  <2> QED
    BY <1>r, <2>1 DEF Advances
<1>14. ASSUME NEW c \in Claims, MarkGlobalPhase2JobSucceeded(c)
      PROVE  \A u \in Threads : Advances(u)
  BY <1>14, <1>r, GlobalEnds DEF Advances
<1>15. ASSUME NEW c \in Claims, MarkGlobalPhase2JobFailed(c)
      PROVE  \A u \in Threads : Advances(u)
  BY <1>15, <1>r, GlobalEnds DEF Advances
<1>16. ASSUME NEW c \in Claims, Crash(c)
      PROVE  \A u \in Threads : Advances(u)
  <2>1. UNCHANGED <<job, out>>
    BY <1>16 DEF Crash
  <2> QED
    BY <1>r, <2>1 DEF Advances
<1>17. ASSUME ClearMemoryData
      PROVE  \A u \in Threads : Advances(u)
  BY <1>17, ClearEffect, EmptyRows DEF Advances
<1>18. ASSUME EnqueueGlobalConsolidation
      PROVE  \A u \in Threads : Advances(u)
  <2>1. UNCHANGED <<job, out>>
    BY <1>18 DEF EnqueueGlobalConsolidation
  <2> QED
    BY <1>r, <2>1 DEF Advances
<1>19. ASSUME UNCHANGED vars
      PROVE  \A u \in Threads : Advances(u)
  <2>1. UNCHANGED <<job, out>>
    BY <1>19 DEF vars
  <2> QED
    BY <1>r, <2>1 DEF Advances
<1> QED
  BY <1>1, <1>2, <1>3, <1>4, <1>5, <1>6, <1>7, <1>8, <1>9, <1>10, <1>11, 
     <1>12, <1>13, <1>14, <1>15, <1>16, <1>17, <1>18, <1>19, <1>9a DEF Next, Stage1, Phase2

\* So an output keeps the version that its row records.
LEMMA SuccessStep ==
  ASSUME TypeOK, ClaimInv, JobInv, SuccessMatchesOutput, [Next]_vars
  PROVE  SuccessMatchesOutput'
BY RowsAdvance DEF Advances, SuccessMatchesOutput

\* A step that writes an output keeps the selected version or clears it.
LEMMA SelectedStep ==
  ASSUME TypeOK, ClaimInv, SelectedWasConsolidated, [Next]_vars
  PROVE  SelectedWasConsolidated'
<1>1. ASSUME Tick
      PROVE  SelectedWasConsolidated'
  <2>1. UNCHANGED <<out, baseline, replaced>>
    BY <1>1 DEF Tick
  <2> QED
    BY <2>1 DEF SelectedWasConsolidated
<1>2. ASSUME NEW t \in Threads, NEW src \in Versions, NEW now \in Readings,
             TryClaimStage1Job(t, src, now)
      PROVE  SelectedWasConsolidated'
  <2>1. UNCHANGED <<out, baseline, replaced>>
    BY <1>2 DEF TryClaimStage1Job, Stage1Claimed
  <2> QED
    BY <2>1 DEF SelectedWasConsolidated
<1>3. ASSUME NEW t \in Threads, DeleteThreadMemory(t)
      PROVE  SelectedWasConsolidated'
  <2>1. UNCHANGED <<baseline, replaced>>
    BY <1>3 DEF DeleteThreadMemory
  <2> QED
    BY <1>3, <2>1, DeleteEffect, EmptyRows DEF SelectedWasConsolidated
<1>4. ASSUME NEW t \in Threads, PruneStage1Output(t)
      PROVE  SelectedWasConsolidated'
  <2>1. UNCHANGED <<baseline, replaced>>
    BY <1>4 DEF PruneStage1Output
  <2> QED
    BY <1>4, <2>1, PruneEffect, EmptyRows DEF SelectedWasConsolidated
<1>5. ASSUME NEW now \in Readings, TryClaimGlobalPhase2Job(now)
      PROVE  SelectedWasConsolidated'
  <2>1. UNCHANGED <<out, baseline, replaced>>
    BY <1>5 DEF TryClaimGlobalPhase2Job
  <2> QED
    BY <2>1 DEF SelectedWasConsolidated
<1>6. ASSUME NEW c \in Claims, MarkStage1JobSucceeded(c)
      PROVE  SelectedWasConsolidated'
  <2>1. baseline' = baseline
    BY <1>6 DEF MarkStage1JobSucceeded
  <2> QED
    BY <1>6, <2>1, SucceededEffect DEF SelectedWasConsolidated
<1>7. ASSUME NEW c \in Claims, MarkStage1JobSucceededNoOutput(c)
      PROVE  SelectedWasConsolidated'
  <2>1. UNCHANGED <<baseline, replaced>>
    BY <1>7 DEF MarkStage1JobSucceededNoOutput
  <2> QED
    BY <1>7, <2>1, NoOutputEffect, EmptyRows DEF SelectedWasConsolidated
<1>8. ASSUME NEW c \in Claims, MarkStage1JobFailed(c)
      PROVE  SelectedWasConsolidated'
  <2>1. UNCHANGED <<out, baseline, replaced>>
    BY <1>8 DEF MarkStage1JobFailed
  <2> QED
    BY <2>1 DEF SelectedWasConsolidated
<1>9. ASSUME NEW c \in Claims, NEW t \in Threads, LoadRow(c, t)
      PROVE  SelectedWasConsolidated'
  <2>1. UNCHANGED <<out, baseline, replaced>>
    BY <1>9 DEF LoadRow
  <2> QED
    BY <2>1 DEF SelectedWasConsolidated
<1>9a. ASSUME NEW c \in Claims, LoadInputs(c)
      PROVE  SelectedWasConsolidated'
  <2>1. UNCHANGED <<out, baseline, replaced>>
    BY <1>9a DEF LoadInputs
  <2> QED
    BY <2>1 DEF SelectedWasConsolidated
<1>10. ASSUME NEW c \in Claims, SyncWorkspace(c)
      PROVE  SelectedWasConsolidated'
  <2>1. UNCHANGED <<out, baseline, replaced>>
    BY <1>10 DEF SyncWorkspace
  <2> QED
    BY <2>1 DEF SelectedWasConsolidated
<1>11. ASSUME NEW c \in Claims, SpawnAgent(c)
      PROVE  SelectedWasConsolidated'
  <2>1. UNCHANGED <<out, baseline, replaced>>
    BY <1>11 DEF SpawnAgent
  <2> QED
    BY <2>1 DEF SelectedWasConsolidated
<1>12. ASSUME NEW c \in Claims, NEW now \in Readings, NEW to \in {"agent", "confirmed"},
             Heartbeat(c, now, to)
      PROVE  SelectedWasConsolidated'
  <2>1. UNCHANGED <<out, baseline, replaced>>
    BY <1>12 DEF Heartbeat
  <2> QED
    BY <2>1 DEF SelectedWasConsolidated
<1>13. ASSUME NEW c \in Claims, ResetBaseline(c)
      PROVE  SelectedWasConsolidated'
  <2>1. UNCHANGED <<out, baseline, replaced>>
    BY <1>13 DEF ResetBaseline
  <2> QED
    BY <2>1 DEF SelectedWasConsolidated
<1>14. ASSUME NEW c \in Claims, MarkGlobalPhase2JobSucceeded(c)
      PROVE  SelectedWasConsolidated'
  BY <1>14, GlobalEnds
<1>15. ASSUME NEW c \in Claims, MarkGlobalPhase2JobFailed(c)
      PROVE  SelectedWasConsolidated'
  BY <1>15, GlobalEnds
<1>16. ASSUME NEW c \in Claims, Crash(c)
      PROVE  SelectedWasConsolidated'
  <2>1. UNCHANGED <<out, baseline, replaced>>
    BY <1>16 DEF Crash
  <2> QED
    BY <2>1 DEF SelectedWasConsolidated
<1>17. ASSUME ClearMemoryData
      PROVE  SelectedWasConsolidated'
  <2>1. UNCHANGED <<baseline, replaced>>
    BY <1>17 DEF ClearMemoryData
  <2> QED
    BY <1>17, <2>1, ClearEffect, EmptyRows DEF SelectedWasConsolidated
<1>18. ASSUME EnqueueGlobalConsolidation
      PROVE  SelectedWasConsolidated'
  <2>1. UNCHANGED <<out, baseline, replaced>>
    BY <1>18 DEF EnqueueGlobalConsolidation
  <2> QED
    BY <2>1 DEF SelectedWasConsolidated
<1>19. ASSUME UNCHANGED vars
      PROVE  SelectedWasConsolidated'
  <2>1. UNCHANGED <<out, baseline, replaced>>
    BY <1>19 DEF vars
  <2> QED
    BY <2>1 DEF SelectedWasConsolidated
<1> QED
  BY <1>1, <1>2, <1>3, <1>4, <1>5, <1>6, <1>7, <1>8, <1>9, <1>10, <1>11, 
     <1>12, <1>13, <1>14, <1>15, <1>16, <1>17, <1>18, <1>19, <1>9a DEF Next, Stage1, Phase2

\* Extractions that no step started were running before it.
LEMMA CapKeep ==
  ASSUME TypeOK, clock' \in Nat, clock' >= clock, RunningCap,
         \A u \in Threads : job'[u].status = "running" => job'[u] = job[u]
  PROVE  RunningCap'
<1>1. clock \in Nat /\ \A u \in Threads : job[u].lease \in Nat
  <2>1. \A u \in Threads : job[u] \in Rows
    BY DEF TypeOK
  <2>2. \A r \in Rows : r.lease \in Nat
    BY MemoryJobsAssumption DEF Rows, Times
  <2> QED
    BY <2>1, <2>2, MemoryJobsAssumption DEF TypeOK
<1>2. Busy(clock)' \in SUBSET Busy(clock)
  BY <1>1 DEF Busy
<1>3. IsFiniteSet(Busy(clock))
  <2>1. Busy(clock) \in SUBSET Threads
    BY DEF Busy
  <2> QED
    BY <2>1, FS_Subset, MemoryJobsAssumption
<1>4. IsFiniteSet(Busy(clock)') /\ Cardinality(Busy(clock)') <= Cardinality(Busy(clock))
  BY <1>2, <1>3, FS_Subset
<1>5. /\ Cardinality(Busy(clock)') \in Nat /\ Cardinality(Busy(clock)) \in Nat
      /\ MaxRunning \in Nat
  BY <1>3, <1>4, FS_CardinalityType, MemoryJobsAssumption
<1> QED
  BY <1>4, <1>5 DEF RunningCap

\* A claim counts with a reading that is not ahead of the clock, so it counts
\* every extraction that is still within its lease.
LEMMA CapStep ==
  ASSUME TypeOK, ClaimInv, JobInv, RunningCap, [Next]_vars
  PROVE  RunningCap'
<1>c. clock \in Nat
  BY MemoryJobsAssumption DEF TypeOK
<1>1. ASSUME Tick
      PROVE  RunningCap'
  <2>1. clock' \in Nat /\ clock' >= clock
    BY <1>1, <1>c DEF Tick
  <2>2. \A u \in Threads : job'[u].status = "running" => job'[u] = job[u]
    BY <1>1 DEF Tick
  <2> QED
    BY <2>1, <2>2, CapKeep
<1>2. ASSUME NEW t \in Threads, NEW src \in Versions, NEW now \in Readings,
             TryClaimStage1Job(t, src, now)
      PROVE  RunningCap'
  <2> DEFINE others == Busy(now) \ {t}
  <2>1. /\ clock' = clock /\ now \in Nat /\ now <= clock /\ Cardinality(others) < MaxRunning
    BY <1>2, <1>c DEF TryClaimStage1Job, Stage1Claimed, Readings
  <2>2. \A u \in Threads : u # t => job'[u] = job[u]
    BY <1>2, ClaimRow
  <2>3. \A u \in Threads : job[u].lease \in Nat
    <3>1. \A u \in Threads : job[u] \in Rows
      BY DEF TypeOK
    <3>2. \A r \in Rows : r.lease \in Nat
      BY MemoryJobsAssumption DEF Rows, Times
    <3> QED
      BY <3>1, <3>2
  <2>4. Busy(clock)' \in SUBSET (others \cup {t})
    BY <1>c, <2>1, <2>2, <2>3 DEF Busy
  <2>5. IsFiniteSet(others)
    <3>1. others \in SUBSET Threads
      BY DEF Busy
    <3> QED
      BY <3>1, FS_Subset, MemoryJobsAssumption
  <2>6. /\ IsFiniteSet(others \cup {t})
        /\ Cardinality(others \cup {t}) = Cardinality(others) + 1
    BY <2>5, FS_AddElement
  <2>7. IsFiniteSet(Busy(clock)') /\ Cardinality(Busy(clock)') <= Cardinality(others \cup {t})
    BY <2>4, <2>6, FS_Subset
  <2>8. /\ Cardinality(Busy(clock)') \in Nat /\ Cardinality(others) \in Nat /\ MaxRunning \in Nat
    BY <2>5, <2>7, FS_CardinalityType, MemoryJobsAssumption
  <2> QED
    BY <2>1, <2>6, <2>7, <2>8 DEF RunningCap
<1>3. ASSUME NEW t \in Threads, DeleteThreadMemory(t)
      PROVE  RunningCap'
  <2>1. clock' \in Nat /\ clock' >= clock
    BY <1>3, <1>c DEF DeleteThreadMemory
  <2>2. \A u \in Threads : job'[u].status = "running" => job'[u] = job[u]
    BY <1>3, DeleteEffect, EmptyRows
  <2> QED
    BY <2>1, <2>2, CapKeep
<1>4. ASSUME NEW t \in Threads, PruneStage1Output(t)
      PROVE  RunningCap'
  <2>1. clock' \in Nat /\ clock' >= clock
    BY <1>4, <1>c DEF PruneStage1Output
  <2>2. \A u \in Threads : job'[u].status = "running" => job'[u] = job[u]
    BY <1>4 DEF PruneStage1Output
  <2> QED
    BY <2>1, <2>2, CapKeep
<1>5. ASSUME NEW now \in Readings, TryClaimGlobalPhase2Job(now)
      PROVE  RunningCap'
  <2>1. clock' \in Nat /\ clock' >= clock
    BY <1>5, <1>c DEF TryClaimGlobalPhase2Job
  <2>2. \A u \in Threads : job'[u].status = "running" => job'[u] = job[u]
    BY <1>5 DEF TryClaimGlobalPhase2Job
  <2> QED
    BY <2>1, <2>2, CapKeep
<1>6. ASSUME NEW c \in Claims, MarkStage1JobSucceeded(c)
      PROVE  RunningCap'
  <2>1. clock' \in Nat /\ clock' >= clock
    BY <1>6, <1>c DEF MarkStage1JobSucceeded
  <2>2. \A u \in Threads : job'[u].status = "running" => job'[u] = job[u]
    BY <1>6, SucceededEffect
  <2> QED
    BY <2>1, <2>2, CapKeep
<1>7. ASSUME NEW c \in Claims, MarkStage1JobSucceededNoOutput(c)
      PROVE  RunningCap'
  <2>1. clock' \in Nat /\ clock' >= clock
    BY <1>7, <1>c DEF MarkStage1JobSucceededNoOutput
  <2>2. \A u \in Threads : job'[u].status = "running" => job'[u] = job[u]
    BY <1>7, NoOutputEffect
  <2> QED
    BY <2>1, <2>2, CapKeep
<1>8. ASSUME NEW c \in Claims, MarkStage1JobFailed(c)
      PROVE  RunningCap'
  <2>1. clock' \in Nat /\ clock' >= clock
    BY <1>8, <1>c DEF MarkStage1JobFailed
  <2>2. \A u \in Threads : job'[u].status = "running" => job'[u] = job[u]
    BY <1>8, FailedEffect
  <2> QED
    BY <2>1, <2>2, CapKeep
<1>9. ASSUME NEW c \in Claims, NEW t \in Threads, LoadRow(c, t)
      PROVE  RunningCap'
  <2>1. clock' \in Nat /\ clock' >= clock
    BY <1>9, <1>c DEF LoadRow
  <2>2. \A u \in Threads : job'[u].status = "running" => job'[u] = job[u]
    BY <1>9 DEF LoadRow
  <2> QED
    BY <2>1, <2>2, CapKeep
<1>9a. ASSUME NEW c \in Claims, LoadInputs(c)
      PROVE  RunningCap'
  <2>1. clock' \in Nat /\ clock' >= clock
    BY <1>9a, <1>c DEF LoadInputs
  <2>2. \A u \in Threads : job'[u].status = "running" => job'[u] = job[u]
    BY <1>9a DEF LoadInputs
  <2> QED
    BY <2>1, <2>2, CapKeep
<1>10. ASSUME NEW c \in Claims, SyncWorkspace(c)
      PROVE  RunningCap'
  <2>1. clock' \in Nat /\ clock' >= clock
    BY <1>10, <1>c DEF SyncWorkspace
  <2>2. \A u \in Threads : job'[u].status = "running" => job'[u] = job[u]
    BY <1>10 DEF SyncWorkspace
  <2> QED
    BY <2>1, <2>2, CapKeep
<1>11. ASSUME NEW c \in Claims, SpawnAgent(c)
      PROVE  RunningCap'
  <2>1. clock' \in Nat /\ clock' >= clock
    BY <1>11, <1>c DEF SpawnAgent
  <2>2. \A u \in Threads : job'[u].status = "running" => job'[u] = job[u]
    BY <1>11 DEF SpawnAgent
  <2> QED
    BY <2>1, <2>2, CapKeep
<1>12. ASSUME NEW c \in Claims, NEW now \in Readings, NEW to \in {"agent", "confirmed"},
             Heartbeat(c, now, to)
      PROVE  RunningCap'
  <2>1. clock' \in Nat /\ clock' >= clock
    BY <1>12, <1>c DEF Heartbeat
  <2>2. \A u \in Threads : job'[u].status = "running" => job'[u] = job[u]
    BY <1>12 DEF Heartbeat
  <2> QED
    BY <2>1, <2>2, CapKeep
<1>13. ASSUME NEW c \in Claims, ResetBaseline(c)
      PROVE  RunningCap'
  <2>1. clock' \in Nat /\ clock' >= clock
    BY <1>13, <1>c DEF ResetBaseline
  <2>2. \A u \in Threads : job'[u].status = "running" => job'[u] = job[u]
    BY <1>13 DEF ResetBaseline
  <2> QED
    BY <2>1, <2>2, CapKeep
<1>14. ASSUME NEW c \in Claims, MarkGlobalPhase2JobSucceeded(c)
      PROVE  RunningCap'
  <2>1. clock' \in Nat /\ clock' >= clock
    BY <1>14, <1>c DEF MarkGlobalPhase2JobSucceeded
  <2>2. \A u \in Threads : job'[u].status = "running" => job'[u] = job[u]
    BY <1>14 DEF MarkGlobalPhase2JobSucceeded
  <2> QED
    BY <2>1, <2>2, CapKeep
<1>15. ASSUME NEW c \in Claims, MarkGlobalPhase2JobFailed(c)
      PROVE  RunningCap'
  <2>1. clock' \in Nat /\ clock' >= clock
    BY <1>15, <1>c DEF MarkGlobalPhase2JobFailed
  <2>2. \A u \in Threads : job'[u].status = "running" => job'[u] = job[u]
    BY <1>15 DEF MarkGlobalPhase2JobFailed
  <2> QED
    BY <2>1, <2>2, CapKeep
<1>16. ASSUME NEW c \in Claims, Crash(c)
      PROVE  RunningCap'
  <2>1. clock' \in Nat /\ clock' >= clock
    BY <1>16, <1>c DEF Crash
  <2>2. \A u \in Threads : job'[u].status = "running" => job'[u] = job[u]
    BY <1>16 DEF Crash
  <2> QED
    BY <2>1, <2>2, CapKeep
<1>17. ASSUME ClearMemoryData
      PROVE  RunningCap'
  <2>1. clock' \in Nat /\ clock' >= clock
    BY <1>17, <1>c DEF ClearMemoryData
  <2>2. \A u \in Threads : job'[u].status = "running" => job'[u] = job[u]
    BY <1>17, ClearEffect, EmptyRows
  <2> QED
    BY <2>1, <2>2, CapKeep
<1>18. ASSUME EnqueueGlobalConsolidation
      PROVE  RunningCap'
  <2>1. clock' \in Nat /\ clock' >= clock
    BY <1>18, <1>c DEF EnqueueGlobalConsolidation
  <2>2. \A u \in Threads : job'[u].status = "running" => job'[u] = job[u]
    BY <1>18 DEF EnqueueGlobalConsolidation
  <2> QED
    BY <2>1, <2>2, CapKeep
<1>19. ASSUME UNCHANGED vars
      PROVE  RunningCap'
  <2>1. clock' \in Nat /\ clock' >= clock
    BY <1>19, <1>c DEF vars
  <2>2. \A u \in Threads : job'[u].status = "running" => job'[u] = job[u]
    BY <1>19 DEF vars
  <2> QED
    BY <2>1, <2>2, CapKeep
<1> QED
  BY <1>1, <1>2, <1>3, <1>4, <1>5, <1>6, <1>7, <1>8, <1>9, <1>10, <1>11, 
     <1>12, <1>13, <1>14, <1>15, <1>16, <1>17, <1>18, <1>19, <1>9a DEF Next, Stage1, Phase2

-----------------------------------------------------------------------------
(* The theorems.                                                               *)

\* The empty database satisfies the invariant.
LEMMA InitInv ==
  ASSUME Init
  PROVE  IInv
<1>1. /\ 0 \in Times /\ 0 \in 0..MaxClaims /\ 0 \in 0..MaxVersion /\ 1 \in 1..MaxTime
  BY TimesReach, MemoryJobsAssumption
<1>2. Unused \in Holders
  BY <1>1 DEF Unused, Holders, Snapshots
<1>3. TypeOK
  BY <1>1, <1>2, EmptyRows DEF Init, TypeOK, Snapshots
<1>4. \A c \in Claims : claim[c].at = "unused"
  BY DEF Init, Unused
<1>5. ClaimInv /\ LeaseHolderOwnsJob
  BY <1>4 DEF Init, ClaimInv, LeaseHolderOwnsJob, Holds, Working, Consolidating
<1>6. JobInv /\ GlobInv
  BY EmptyRows DEF Init, JobInv, JobRowInv, GlobInv
<1>7. SuccessMatchesOutput /\ SelectedWasConsolidated
  BY EmptyRows DEF Init, SuccessMatchesOutput, SelectedWasConsolidated
<1>8. RunningCap
  <2>1. Busy(clock) = {}
    BY EmptyRows DEF Init, Busy
  <2> QED
    BY <2>1, FS_EmptySet, MemoryJobsAssumption DEF RunningCap
<1> QED
  BY <1>3, <1>5, <1>6, <1>7, <1>8 DEF IInv

\* The invariant is inductive: it holds in every state the pipeline can reach.
THEOREM Inductive == Spec => []IInv
<1>1. Init => IInv
  BY InitInv
<1>2. IInv /\ [Next]_vars => IInv'
  <2> SUFFICES ASSUME IInv, [Next]_vars
               PROVE  IInv'
    OBVIOUS
  <2>1. /\ TypeOK /\ ClaimInv /\ JobInv /\ GlobInv /\ LeaseHolderOwnsJob
        /\ RunningCap /\ SuccessMatchesOutput /\ SelectedWasConsolidated
    BY DEF IInv
  <2>2. TypeOK' /\ ClaimInv'
    BY <2>1, TypeStep, ClaimStep
  <2>3. JobInv' /\ GlobInv'
    BY <2>1, JobStep, GlobStep
  <2>4. LeaseHolderOwnsJob'
    BY <2>1, LeaseStep
  <2>5. SuccessMatchesOutput' /\ SelectedWasConsolidated'
    BY <2>1, SuccessStep, SelectedStep
  <2>6. RunningCap'
    BY <2>1, CapStep
  <2> QED
    BY <2>2, <2>3, <2>4, <2>5, <2>6 DEF IInv
<1> QED
  BY <1>1, <1>2, PTL DEF Spec

\* A worker within its lease owns its row, for any number of threads and claims
\* and however old the clock readings of the claims are.
THEOREM LeasesExclude == Spec => []LeaseHolderOwnsJob
<1>1. IInv => LeaseHolderOwnsJob
  BY DEF IInv
<1> QED
  BY <1>1, Inductive, PTL

\* Never more than max_running_jobs extractions are within their leases.
THEOREM ExtractionsAreCapped == Spec => []RunningCap
<1>1. IInv => RunningCap
  BY DEF IInv
<1> QED
  BY <1>1, Inductive, PTL

\* An output was extracted from the version that its row records as done.
THEOREM OutputsAreCurrent == Spec => []SuccessMatchesOutput
<1>1. IInv => SuccessMatchesOutput
  BY DEF IInv
<1> QED
  BY <1>1, Inductive, PTL

\* A selected output was read by the last successful consolidation, and is the
\* thread's output unless another was stored since.
THEOREM SelectionIsConsolidated == Spec => []SelectedWasConsolidated
<1>1. IInv => SelectedWasConsolidated
  BY DEF IInv
<1> QED
  BY <1>1, Inductive, PTL

\* The version that a row records as done never goes back.
THEOREM VersionsGrow == Spec => SuccessNeverRegresses
<1>1. IInv /\ [Next]_vars =>
        [\A t \in Threads :
           job'[t].status # "none" => job'[t].success >= job[t].success]_vars
  BY RowsAdvance DEF IInv, Advances
<1> QED
  BY <1>1, Inductive, PTL DEF Spec, SuccessNeverRegresses

=============================================================================
