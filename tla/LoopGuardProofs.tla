---------------------------- MODULE LoopGuardProofs ----------------------------
(* Proofs about LoopGuard for any sets of calls and texts, any limits and any  *)
(* budget.                                                                     *)
(*                                                                             *)
(* The properties are about completions, the code keeps flags.  PenaltyInv     *)
(* says what the flags mean for the completion at hand: clean_finish and       *)
(* failed_since_begin tell its fate whenever there is no budget to resample.   *)
EXTENDS LoopGuard, WellFoundedInduction, TLAPS

\* No step leaves the types of the counters and flags, and the budget is not exceeded.
LEMMA CountersStep ==
  ASSUME Counters, [Next]_vars
  PROVE  Counters'
<1> USE LoopGuardAssumption DEF guard, history, calls, Counters
<1>b. params.resamples \in Nat
  BY DEF Settings
<1>d. (Drop /\ pc' = "drain" /\ UNCHANGED running) \/ Abandon =>
         /\ pc' \in {"idle", "stream", "drain"} /\ inFlight' \in Seq(Calls)
         /\ unanswered' \in Int /\ lost' \in Nat /\ running' \in Seq({"run", "skip"})
  <2>1. <<>> \in Seq(Calls) /\ <<>> \in Seq({"run", "skip"})
    OBVIOUS
  <2>2. CASE Drop /\ pc' = "drain" /\ UNCHANGED running
    BY <2>1, <2>2 DEF Drop
  <2>3. CASE Abandon
    <3>1. Len(inFlight) \in Nat /\ Len(running) \in Nat
      OBVIOUS
    <3>2. lost + Len(inFlight) + Len(running) \in Nat
      BY <3>1
    <3> QED
      BY <2>1, <2>3, <3>2 DEF Abandon
  <2> QED
    BY <2>2, <2>3
<1>1. CASE BeginCall
  <2>1. params' = params
    BY <1>1 DEF BeginCall
  <2>2. /\ pc' \in {"idle", "stream", "drain"} /\ inFlight' \in Seq(Calls)
        /\ unanswered' \in Int /\ lost' \in Nat /\ running' \in Seq({"run", "skip"})
    BY <1>1 DEF BeginCall
  <2>3. used' \in 0..params.resamples /\ requested' \in BOOLEAN
    BY <1>b, <1>1 DEF BeginCall
  <2>4. /\ failures' \in Nat /\ failedSinceBegin' \in BOOLEAN
        /\ cleanFinish' \in BOOLEAN
    BY <1>1 DEF BeginCall
  <2>5. /\ fate' \in {"open", "clean", "bad"} /\ streak' \in Nat
        /\ claimed' \in BOOLEAN /\ discards' \in Nat
    <3>1. /\ fate' = "open" /\ claimed' = FALSE /\ discards' = discards
      BY ONLY <1>1, Zenon DEF BeginCall
    <3>2. streak' = CASE fate = "bad" -> streak + 1 [] fate = "clean" -> 0
                      [] OTHER -> streak
      BY ONLY <1>1, Zenon DEF BeginCall
    <3>3. streak' \in {streak + 1, 0, streak}
      BY ONLY <3>2
    <3>4. streak' \in Nat
      BY <3>3
    <3> QED
      BY <3>1, <3>4
  <2> QED
    BY <2>1, <2>2, <2>3, <2>4, <2>5
<1>2. CASE StreamEnds
  BY <1>b, <1>2 DEF StreamEnds
<1>3. CASE Drained
  BY <1>b, <1>3 DEF Drained
<1>4. CASE CompletedLooped
  <2>1. params' = params
    BY <1>4 DEF CompletedLooped, OnFailure, Drop, Discard, Abandon, Resampled, CanClaim
  <2>2. /\ pc' \in {"idle", "stream", "drain"} /\ inFlight' \in Seq(Calls)
        /\ unanswered' \in Int /\ lost' \in Nat /\ running' \in Seq({"run", "skip"})
    <3>2. CASE params.backtrack
      <4>1. (Drop /\ pc' = "drain" /\ UNCHANGED running) \/ Abandon
        BY ONLY <1>4, <3>2, Zenon DEF CompletedLooped, Discard
      <4> QED
        BY <1>d, <4>1
    <3>3. CASE ~params.backtrack
      BY <1>4, <3>3 DEF CompletedLooped
    <3> QED
      BY <3>2, <3>3
  <2>3. used' \in 0..params.resamples /\ requested' \in BOOLEAN
    BY <1>b, <1>4 DEF CompletedLooped, OnFailure, Drop, Discard, Abandon, Resampled, CanClaim
  <2>4. /\ failures' \in Nat /\ failedSinceBegin' \in BOOLEAN
        /\ cleanFinish' \in BOOLEAN
    <3>1. PICK text : OnFailure(<<text>>)
      BY <1>4 DEF CompletedLooped
    <3>2. failures' \in Nat
      BY <3>1 DEF OnFailure
    <3>3. failedSinceBegin' = TRUE /\ cleanFinish' = FALSE
      BY ONLY <3>1, Zenon DEF OnFailure
    <3> QED
      BY <3>2, <3>3
  <2>5. /\ fate' \in {"open", "clean", "bad"} /\ streak' \in Nat
        /\ claimed' \in BOOLEAN /\ discards' \in Nat
    BY <1>4 DEF CompletedLooped, OnFailure, Drop, Discard, Abandon, Resampled, CanClaim
  <2> QED
    BY <2>1, <2>2, <2>3, <2>4, <2>5
<1>5. CASE CompletedClean
  <2>1. params' = params
    BY <1>5 DEF CompletedClean, Resampled
  <2>2. /\ pc' \in {"idle", "stream", "drain"} /\ inFlight' \in Seq(Calls)
        /\ unanswered' \in Int /\ lost' \in Nat /\ running' \in Seq({"run", "skip"})
    BY <1>5 DEF CompletedClean, Resampled
  <2>3. used' \in 0..params.resamples /\ requested' \in BOOLEAN
    <3>1. used' = 0 /\ requested' = FALSE
      BY ONLY <1>5, Zenon DEF CompletedClean
    <3>2. 0 \in 0..params.resamples
      BY ONLY <1>b
    <3> QED
      BY ONLY <3>1, <3>2
  <2>4. /\ failures' \in Nat /\ failedSinceBegin' \in BOOLEAN
        /\ cleanFinish' \in BOOLEAN
    BY <1>5 DEF CompletedClean, Resampled
  <2>5. /\ fate' \in {"open", "clean", "bad"} /\ streak' \in Nat
        /\ claimed' \in BOOLEAN /\ discards' \in Nat
    BY <1>5 DEF CompletedClean, Resampled
  <2> QED
    BY <2>1, <2>2, <2>3, <2>4, <2>5
<1>6. ASSUME NEW failing \in BOOLEAN, CompletedResampled(failing)
      PROVE  Counters'
  <2>1. params' = params
    BY <1>6 DEF CompletedResampled, Drop, Discard, Abandon, Resampled, CanClaim
  <2>2. /\ pc' \in {"idle", "stream", "drain"} /\ inFlight' \in Seq(Calls)
        /\ unanswered' \in Int /\ lost' \in Nat /\ running' \in Seq({"run", "skip"})
    <3>1. (Drop /\ pc' = "drain" /\ UNCHANGED running) \/ Abandon
      BY ONLY <1>6, Zenon DEF CompletedResampled, Discard
    <3> QED
      BY <1>d, <3>1
  <2>3. used' \in 0..params.resamples /\ requested' \in BOOLEAN
    <3>1. requested' = FALSE
      BY ONLY <1>6, Zenon DEF CompletedResampled
    <3>2. CASE requested
      <4>1. used' = used
        BY ONLY <1>6, <3>2, Zenon DEF CompletedResampled
      <4> QED
        BY <3>1, <4>1
    <3>3. CASE ~requested
      <4>1. used' = used + 1 /\ used < params.resamples
        BY ONLY <1>6, <3>3, Zenon DEF CompletedResampled, Resampled, CanClaim
      <4>2. used + 1 \in 0..params.resamples
        BY ONLY <1>b, <4>1, Counters DEF Counters
      <4> QED
        BY ONLY <3>1, <4>1, <4>2
    <3> QED
      BY <3>2, <3>3
  <2>4. /\ failures' \in Nat /\ failedSinceBegin' \in BOOLEAN
        /\ cleanFinish' \in BOOLEAN
    BY <1>6 DEF CompletedResampled, Drop, Discard, Abandon, Resampled, CanClaim
  <2>5. /\ fate' \in {"open", "clean", "bad"} /\ streak' \in Nat
        /\ claimed' \in BOOLEAN /\ discards' \in Nat
    BY <1>6 DEF CompletedResampled, Drop, Discard, Abandon, Resampled, CanClaim
  <2> QED
    BY <2>1, <2>2, <2>3, <2>4, <2>5
<1>7. ASSUME NEW failing \in BOOLEAN, CompletedShort(failing)
      PROVE  Counters'
  BY <1>b, <1>7 DEF CompletedShort, Resampled, CanClaim
<1>8. ASSUME NEW call \in Calls, OutputItemDone(call)
      PROVE  Counters'
  BY <1>b, <1>8 DEF OutputItemDone
<1>9. ASSUME NEW call \in Calls, SkipCall(call)
      PROVE  Counters'
  <2>1. params' = params
    BY <1>9 DEF SkipCall, Dispatch, CanClaim
  <2>2. /\ pc' \in {"idle", "stream", "drain"} /\ inFlight' \in Seq(Calls)
        /\ unanswered' \in Int /\ lost' \in Nat /\ running' \in Seq({"run", "skip"})
    BY <1>9 DEF SkipCall, Dispatch, CanClaim
  <2>3. used' \in 0..params.resamples /\ requested' \in BOOLEAN
    BY <1>b, <1>9 DEF SkipCall, Dispatch, CanClaim
  <2>4. /\ failures' \in Nat /\ failedSinceBegin' \in BOOLEAN
        /\ cleanFinish' \in BOOLEAN
    BY <1>9 DEF SkipCall, Dispatch, CanClaim
  <2>5. /\ fate' \in {"open", "clean", "bad"} /\ streak' \in Nat
        /\ claimed' \in BOOLEAN /\ discards' \in Nat
    BY <1>9 DEF SkipCall, Dispatch, CanClaim
  <2> QED
    BY <2>1, <2>2, <2>3, <2>4, <2>5
<1>10. ASSUME NEW call \in Calls, RunCall(call)
      PROVE  Counters'
  BY <1>b, <1>10 DEF RunCall, Dispatch
<1>11. ASSUME NEW call \in Calls, PenaliseCall(call)
      PROVE  Counters'
  <2>1. params' = params
    BY <1>11 DEF PenaliseCall, Dispatch, OnFailure, CanClaim
  <2>2. /\ pc' \in {"idle", "stream", "drain"} /\ inFlight' \in Seq(Calls)
        /\ unanswered' \in Int /\ lost' \in Nat /\ running' \in Seq({"run", "skip"})
    BY <1>11 DEF PenaliseCall, Dispatch, OnFailure, CanClaim
  <2>3. used' \in 0..params.resamples /\ requested' \in BOOLEAN
    BY <1>b, <1>11 DEF PenaliseCall, Dispatch, OnFailure, CanClaim
  <2>4. /\ failures' \in Nat /\ failedSinceBegin' \in BOOLEAN
        /\ cleanFinish' \in BOOLEAN
    <3>1. OnFailure(Reverse(Tail_n(recent', Window)))
      BY ONLY <1>11, Zenon DEF PenaliseCall
    <3>2. failures' \in Nat
      BY <3>1 DEF OnFailure
    <3>3. failedSinceBegin' = TRUE /\ cleanFinish' = FALSE
      BY ONLY <3>1, Zenon DEF OnFailure
    <3> QED
      BY <3>2, <3>3
  <2>5. /\ fate' \in {"open", "clean", "bad"} /\ streak' \in Nat
        /\ claimed' \in BOOLEAN /\ discards' \in Nat
    BY <1>11 DEF PenaliseCall, Dispatch, OnFailure, CanClaim
  <2> QED
    BY <2>1, <2>2, <2>3, <2>4, <2>5
<1>13. CASE TurnDropped
  BY <1>b, <1>13 DEF TurnDropped, Abandon
<1>14. CASE MalformedSearch
  BY <1>b, <1>14 DEF MalformedSearch
<1>15. CASE OutputRecorded
  BY <1>b, <1>15 DEF OutputRecorded
<1>16. CASE FatalError
  BY <1>b, <1>16 DEF FatalError
<1>12. CASE UNCHANGED vars
  BY <1>12 DEF vars, guard, history, calls
<1> QED
  BY <1>1, <1>2, <1>3, <1>4, <1>5, <1>6, <1>7, <1>8, <1>9, <1>10, <1>11, <1>12,
     <1>13, <1>14, <1>15, <1>16 DEF Next

\* The futures are drained before the next completion begins.
LEMMA InFlightStep ==
  ASSUME Counters, InFlightInv, [Next]_vars
  PROVE  InFlightInv'
<1> USE LoopGuardAssumption DEF guard, history, calls, Counters, InFlightInv
<1>b. params.resamples \in Nat
  BY DEF Settings
<1>1. CASE BeginCall
  BY <1>b, <1>1 DEF BeginCall
<1>2. CASE StreamEnds
  BY <1>b, <1>2 DEF StreamEnds
<1>3. CASE Drained
  BY <1>b, <1>3 DEF Drained
<1>4. CASE CompletedLooped
  BY <1>b, <1>4 DEF CompletedLooped, OnFailure, Drop, Discard, Abandon, Resampled, CanClaim
<1>5. CASE CompletedClean
  BY <1>b, <1>5 DEF CompletedClean, Resampled
<1>6. ASSUME NEW failing \in BOOLEAN, CompletedResampled(failing)
      PROVE  InFlightInv'
  BY <1>b, <1>6 DEF CompletedResampled, Drop, Discard, Abandon, Resampled, CanClaim
<1>7. ASSUME NEW failing \in BOOLEAN, CompletedShort(failing)
      PROVE  InFlightInv'
  BY <1>b, <1>7 DEF CompletedShort, Resampled, CanClaim
<1>8. ASSUME NEW call \in Calls, OutputItemDone(call)
      PROVE  InFlightInv'
  BY <1>b, <1>8 DEF OutputItemDone
<1>9. ASSUME NEW call \in Calls, SkipCall(call)
      PROVE  InFlightInv'
  BY <1>b, <1>9 DEF SkipCall, Dispatch, CanClaim
<1>10. ASSUME NEW call \in Calls, RunCall(call)
      PROVE  InFlightInv'
  BY <1>b, <1>10 DEF RunCall, Dispatch
<1>11. ASSUME NEW call \in Calls, PenaliseCall(call)
      PROVE  InFlightInv'
  BY <1>b, <1>11 DEF PenaliseCall, Dispatch, OnFailure, CanClaim
<1>13. CASE TurnDropped
  BY <1>b, <1>13 DEF TurnDropped, Abandon
<1>14. CASE MalformedSearch
  BY <1>b, <1>14 DEF MalformedSearch
<1>15. CASE OutputRecorded
  BY <1>b, <1>15 DEF OutputRecorded
<1>16. CASE FatalError
  BY <1>b, <1>16 DEF FatalError
<1>12. CASE UNCHANGED vars
  BY <1>12 DEF vars, guard, history, calls
<1> QED
  BY <1>1, <1>2, <1>3, <1>4, <1>5, <1>6, <1>7, <1>8, <1>9, <1>10, <1>11, <1>12,
     <1>13, <1>14, <1>15, <1>16 DEF Next

\* A claim, a discard and a clean finish keep the books balanced.
LEMMA BudgetStep ==
  ASSUME Counters, BudgetIsExact, [Next]_vars
  PROVE  BudgetIsExact'
<1> USE LoopGuardAssumption DEF guard, history, calls, Counters, BudgetIsExact
<1>b. params.resamples \in Nat
  BY DEF Settings
<1>1. CASE BeginCall
  BY <1>b, <1>1 DEF BeginCall
<1>2. CASE StreamEnds
  BY <1>b, <1>2 DEF StreamEnds
<1>3. CASE Drained
  BY <1>b, <1>3 DEF Drained
<1>4. CASE CompletedLooped
  BY <1>b, <1>4 DEF CompletedLooped, OnFailure, Drop, Discard, Abandon, Resampled, CanClaim
<1>5. CASE CompletedClean
  BY <1>b, <1>5 DEF CompletedClean, Resampled
<1>6. ASSUME NEW failing \in BOOLEAN, CompletedResampled(failing)
      PROVE  BudgetIsExact'
  BY <1>b, <1>6 DEF CompletedResampled, Drop, Discard, Abandon, Resampled, CanClaim
<1>7. ASSUME NEW failing \in BOOLEAN, CompletedShort(failing)
      PROVE  BudgetIsExact'
  BY <1>b, <1>7 DEF CompletedShort, Resampled, CanClaim
<1>8. ASSUME NEW call \in Calls, OutputItemDone(call)
      PROVE  BudgetIsExact'
  BY <1>b, <1>8 DEF OutputItemDone
<1>9. ASSUME NEW call \in Calls, SkipCall(call)
      PROVE  BudgetIsExact'
  BY <1>b, <1>9 DEF SkipCall, Dispatch, CanClaim
<1>10. ASSUME NEW call \in Calls, RunCall(call)
      PROVE  BudgetIsExact'
  BY <1>b, <1>10 DEF RunCall, Dispatch
<1>11. ASSUME NEW call \in Calls, PenaliseCall(call)
      PROVE  BudgetIsExact'
  BY <1>b, <1>11 DEF PenaliseCall, Dispatch, OnFailure, CanClaim
<1>13. CASE TurnDropped
  BY <1>b, <1>13 DEF TurnDropped, Abandon
<1>14. CASE MalformedSearch
  BY <1>b, <1>14 DEF MalformedSearch
<1>15. CASE OutputRecorded
  BY <1>b, <1>15 DEF OutputRecorded
<1>16. CASE FatalError
  BY <1>b, <1>16 DEF FatalError
<1>12. CASE UNCHANGED vars
  BY <1>12 DEF vars, guard, history, calls
<1> QED
  BY <1>1, <1>2, <1>3, <1>4, <1>5, <1>6, <1>7, <1>8, <1>9, <1>10, <1>11, <1>12,
     <1>13, <1>14, <1>15, <1>16 DEF Next

\* Calls enter and leave the history together with their futures.
LEMMA HistoryStep ==
  ASSUME Counters, InFlightInv, HistoryPaired, [Next]_vars
  PROVE  HistoryPaired'
<1> USE LoopGuardAssumption DEF guard, history, calls, Counters, InFlightInv, HistoryPaired
<1>b. params.resamples \in Nat
  BY DEF Settings
<1>1. CASE BeginCall
  BY <1>b, <1>1 DEF BeginCall
<1>2. CASE StreamEnds
  BY <1>b, <1>2 DEF StreamEnds
<1>3. CASE Drained
  BY <1>b, <1>3 DEF Drained
<1>4. CASE CompletedLooped
  BY <1>b, <1>4 DEF CompletedLooped, OnFailure, Drop, Discard, Abandon, Resampled, CanClaim
<1>5. CASE CompletedClean
  BY <1>b, <1>5 DEF CompletedClean, Resampled
<1>6. ASSUME NEW failing \in BOOLEAN, CompletedResampled(failing)
      PROVE  HistoryPaired'
  BY <1>b, <1>6 DEF CompletedResampled, Drop, Discard, Abandon, Resampled, CanClaim
<1>7. ASSUME NEW failing \in BOOLEAN, CompletedShort(failing)
      PROVE  HistoryPaired'
  BY <1>b, <1>7 DEF CompletedShort, Resampled, CanClaim
<1>8. ASSUME NEW call \in Calls, OutputItemDone(call)
      PROVE  HistoryPaired'
  BY <1>b, <1>8 DEF OutputItemDone
<1>9. ASSUME NEW call \in Calls, SkipCall(call)
      PROVE  HistoryPaired'
  BY <1>b, <1>9 DEF SkipCall, Dispatch, CanClaim
<1>10. ASSUME NEW call \in Calls, RunCall(call)
      PROVE  HistoryPaired'
  BY <1>b, <1>10 DEF RunCall, Dispatch
<1>11. ASSUME NEW call \in Calls, PenaliseCall(call)
      PROVE  HistoryPaired'
  BY <1>b, <1>11 DEF PenaliseCall, Dispatch, OnFailure, CanClaim
<1>13. CASE TurnDropped
  BY <1>b, <1>13 DEF TurnDropped, Abandon
<1>14. CASE MalformedSearch
  BY <1>b, <1>14 DEF MalformedSearch
<1>15. CASE OutputRecorded
  BY <1>b, <1>15 DEF OutputRecorded
<1>16. CASE FatalError
  BY <1>b, <1>16 DEF FatalError
<1>12. CASE UNCHANGED vars
  BY <1>12 DEF vars, guard, history, calls
<1> QED
  BY <1>1, <1>2, <1>3, <1>4, <1>5, <1>6, <1>7, <1>8, <1>9, <1>10, <1>11, <1>12,
     <1>13, <1>14, <1>15, <1>16 DEF Next

\* The flags tell how the completion went.
LEMMA PenaltyStep ==
  ASSUME Counters, BudgetIsExact, PenaltyInv, [Next]_vars
  PROVE  PenaltyInv'
<1> USE LoopGuardAssumption DEF guard, history, calls, Counters, BudgetIsExact, PenaltyInv
<1>b. params.resamples \in Nat
  BY DEF Settings
<1>1. CASE BeginCall
  BY <1>1 DEF BeginCall, RequestExtra, NoPenalty
<1>2. CASE StreamEnds
  BY <1>b, <1>2 DEF StreamEnds
<1>3. CASE Drained
  BY <1>b, <1>3 DEF Drained
<1>4. CASE CompletedLooped
  BY <1>b, <1>4 DEF CompletedLooped, OnFailure, Drop, Discard, Abandon, Resampled, CanClaim
<1>5. CASE CompletedClean
  BY <1>b, <1>5 DEF CompletedClean, Resampled
<1>6. ASSUME NEW failing \in BOOLEAN, CompletedResampled(failing)
      PROVE  PenaltyInv'
  BY <1>b, <1>6 DEF CompletedResampled, Drop, Discard, Abandon, Resampled, CanClaim
<1>7. ASSUME NEW failing \in BOOLEAN, CompletedShort(failing)
      PROVE  PenaltyInv'
  BY <1>b, <1>7 DEF CompletedShort, Resampled, CanClaim
<1>8. ASSUME NEW call \in Calls, OutputItemDone(call)
      PROVE  PenaltyInv'
  BY <1>b, <1>8 DEF OutputItemDone
<1>9. ASSUME NEW call \in Calls, SkipCall(call)
      PROVE  PenaltyInv'
  BY <1>b, <1>9 DEF SkipCall, Dispatch, CanClaim
<1>10. ASSUME NEW call \in Calls, RunCall(call)
      PROVE  PenaltyInv'
  BY <1>b, <1>10 DEF RunCall, Dispatch
<1>11. ASSUME NEW call \in Calls, PenaliseCall(call)
      PROVE  PenaltyInv'
  BY <1>b, <1>11 DEF PenaliseCall, Dispatch, OnFailure, CanClaim
<1>13. CASE TurnDropped
  BY <1>b, <1>13 DEF TurnDropped, Abandon
<1>14. CASE MalformedSearch
  BY <1>b, <1>14 DEF MalformedSearch
<1>15. CASE OutputRecorded
  BY <1>b, <1>15 DEF OutputRecorded
<1>16. CASE FatalError
  BY <1>b, <1>16 DEF FatalError
<1>12. CASE UNCHANGED vars
  BY <1>12 DEF vars, guard, history, calls
<1> QED
  BY <1>1, <1>2, <1>3, <1>4, <1>5, <1>6, <1>7, <1>8, <1>9, <1>10, <1>11, <1>12,
     <1>13, <1>14, <1>15, <1>16 DEF Next

\* The invariant holds of every reachable state.
LEMMA Inductive == Spec => []IInv
<1>1. Init => IInv
  <2> SUFFICES ASSUME Init PROVE IInv
    OBVIOUS
  <2>1. params.resamples \in Nat
    BY LoopGuardAssumption DEF Init, Settings
  <2>2. 0 \in 0..params.resamples /\ <<>> \in Seq(Calls)
    BY <2>1
  <2>3. Counters
    <3>1. /\ params \in Settings /\ pc \in {"idle", "stream", "drain"}
          /\ inFlight \in Seq(Calls) /\ unanswered \in Int
          /\ running \in Seq({"run", "skip"}) /\ lost \in Nat
          /\ used \in 0..params.resamples /\ failures \in Nat
          /\ fate \in {"open", "clean", "bad"}
          /\ streak \in Nat /\ discards \in Nat
      BY <2>2 DEF Init
    <3>2. /\ requested = FALSE /\ failedSinceBegin = FALSE
          /\ cleanFinish = FALSE /\ claimed = FALSE
      BY Zenon DEF Init
    <3> QED
      BY ONLY <3>1, <3>2 DEF Counters
  <2>4. BudgetIsExact /\ InFlightInv /\ HistoryPaired /\ PenaltyInv
    BY DEF Init, BudgetIsExact, InFlightInv, HistoryPaired, PenaltyInv
  <2> QED
    BY <2>3, <2>4 DEF IInv
<1>2. IInv /\ [Next]_vars => IInv'
  BY CountersStep, BudgetStep, InFlightStep, HistoryStep, PenaltyStep DEF IInv
<1> QED
  BY <1>1, <1>2, PTL DEF Spec

\* The budget of an episode is spent on discarded completions and nothing else.
THEOREM BudgetIsSpentOnDiscards == Spec => []BudgetIsExact
<1>1. IInv => BudgetIsExact
  BY DEF IInv
<1> QED
  BY <1>1, Inductive, PTL

\* Discarding, skipping, draining and dropping a turn leave no future without its
\* call in the history, and no call without an output but the ones whose future
\* is gone.
THEOREM HistoryStaysPaired == Spec => []HistoryPaired
<1>1. IInv => HistoryPaired
  BY DEF IInv
<1> QED
  BY <1>1, Inductive, PTL

\* Without resampling, a request is penalised only after failures that no clean
\* completion has ended, and the penalty has kept up with them.
THEOREM PenaltyMatchesPathology == Spec => []PenaltyFollowsStreak
<1>1. IInv => PenaltyFollowsStreak
  BY DEF IInv, PenaltyInv, PenaltyFollowsStreak
<1> QED
  BY <1>1, Inductive, PTL

-----------------------------------------------------------------------------
(* The windows.  on_failure adds the spans one by one, so what it leaves is    *)
(* computed by a recursive function; that the function exists and that all it  *)
(* computes are sequences follows from there being no first failure.           *)

\* A set of naturals that is not empty has a least element.
LEMMA LeastOne ==
  ASSUME NEW T, T \subseteq Nat, T # {}
  PROVE  \E b \in T : \A c \in T : b <= c
<1>1. PICK b \in T : \A c \in T : ~(<<c, b>> \in OpToRel(<, Nat))
  BY NatLessThanWellFounded, WFMin, Zenon
<1>2. \A c \in T : <<c, b>> \in OpToRel(<, Nat) <=> c < b
  BY DEF OpToRel
<1>3. \A c \in T : ~(c < b)
  BY <1>1, <1>2, Zenon
<1>4. b \in Nat /\ \A c \in T : c \in Nat
  OBVIOUS
<1>5. \A c \in T : b <= c
  BY ONLY <1>3, <1>4
<1> QED
  BY <1>5

\* What one span does to the ones before it.
Push(all, s) == IF s = NoText \/ Contains(all, s) THEN all ELSE Append(all, s)

\* Pushed computes Push step by step: a set that has the spans at the beginning
\* and that no Push leaves has them after every step.
LEMMA PushedStaysIn ==
  ASSUME NEW Q, NEW old \in Q, NEW new, Len(new) \in Nat,
         \A all \in Q, i \in 1..Len(new) : Push(all, new[i]) \in Q
  PROVE  \A i \in 0..Len(new) : Pushed(old, new)[i] \in Q
<1> DEFINE N == Len(new)
           Step(f) == [i \in 0..N |-> IF i = 0 THEN old ELSE Push(f[i - 1], new[i])]
           Good(n) == \E g \in [0..n -> Q] :
                         /\ g[0] = old
                         /\ \A i \in 1..n : g[i] = Push(g[i - 1], new[i])
<1>1. N \in Nat
  OBVIOUS
<1>2. \A all \in Q, i \in 1..N : Push(all, new[i]) \in Q
  OBVIOUS
<1>3. Pushed(old, new) = CHOOSE f : f = Step(f)
  BY DEF Pushed, Push
<1> HIDE DEF N, Push
<1>4. \A n \in 0..N : Good(n)
  <2> DEFINE Bad == {n \in 0..N : ~Good(n)}
  <2> SUFFICES ASSUME Bad # {} PROVE FALSE
    OBVIOUS
  <2>1. Bad \subseteq Nat
    BY <1>1
  <2>2. PICK b \in Bad : \A c \in Bad : b <= c
    <3> HIDE DEF Bad
    <3> QED
      BY <2>1, LeastOne
  <2>3. b \in 0..N /\ ~Good(b)
    OBVIOUS
  <2>4. CASE b = 0
    <3>1. Good(0)
      <4> DEFINE g == [i \in 0..0 |-> old]
      <4>1. g \in [0..0 -> Q] /\ g[0] = old /\ 1..0 = {}
        OBVIOUS
      <4> QED
        BY <4>1
    <3> QED
      BY <2>3, <2>4, <3>1
  <2>5. CASE b # 0
    <3>1. b - 1 \in 0..N /\ b \in 1..N /\ ~(b <= b - 1)
      BY <1>1, <2>3, <2>5
    <3>2. Good(b - 1)
      <4> HIDE DEF Good
      <4> QED
        BY <2>2, <3>1
    <3>3. PICK g \in [0..(b - 1) -> Q] :
             /\ g[0] = old
             /\ \A i \in 1..(b - 1) : g[i] = Push(g[i - 1], new[i])
      BY <3>2
    <3> DEFINE h == [i \in 0..b |-> IF i = b THEN Push(g[b - 1], new[b]) ELSE g[i]]
    <3>4. g[b - 1] \in Q
      BY <1>1, <3>1, <3>3
    <3>5. Push(g[b - 1], new[b]) \in Q
      BY <1>2, <3>1, <3>4
    <3>6. \A i \in 0..b : h[i] \in Q
      BY <1>1, <3>1, <3>3, <3>5
    <3>7. h \in [0..b -> Q] /\ h[0] = old
      BY <1>1, <3>1, <3>3, <3>6
    <3>8. \A i \in 1..b : h[i] = Push(h[i - 1], new[i])
      <4>1. h[b] = Push(g[b - 1], new[b]) /\ \A i \in 0..(b - 1) : h[i] = g[i]
        BY <1>1, <3>1
      <4>2. \A i \in 1..b : (i = b \/ i \in 1..(b - 1)) /\ i - 1 \in 0..(b - 1)
        BY <1>1, <3>1
      <4>3. b - 1 \in 0..(b - 1) /\ \A i \in 1..(b - 1) : i \in 0..(b - 1)
        BY <1>1, <3>1
      <4> HIDE DEF h
      <4> QED
        BY ONLY <3>3, <4>1, <4>2, <4>3
    <3>9. Good(b)
      <4> HIDE DEF h
      <4> QED
        BY <3>7, <3>8
    <3> QED
      BY <2>3, <3>9
  <2> QED
    BY <2>4, <2>5
<1>5. \E f : f = Step(f)
  <2>1. PICK g \in [0..N -> Q] :
           g[0] = old /\ \A i \in 1..N : g[i] = Push(g[i - 1], new[i])
    <3> HIDE DEF Good
    <3>1. Good(N)
      BY <1>1, <1>4
    <3> QED
      BY <3>1 DEF Good
  <2>2. \A i \in 0..N : g[i] = IF i = 0 THEN old ELSE Push(g[i - 1], new[i])
    BY <1>1, <2>1
  <2>3. g = Step(g)
    BY <2>2
  <2> QED
    BY <2>3
<1> DEFINE f == Pushed(old, new)
<1>6. f = Step(f)
  <2> HIDE DEF Step, f
  <2> QED
    BY <1>3, <1>5 DEF f
<1> HIDE DEF f
<1>7. \A i \in 0..N : f[i] = IF i = 0 THEN old ELSE Push(f[i - 1], new[i])
  BY <1>6
<1>8. \A i \in 0..N : f[i] \in Q
  <2> DEFINE Bad == {i \in 0..N : f[i] \notin Q}
  <2> SUFFICES ASSUME Bad # {} PROVE FALSE
    OBVIOUS
  <2>1. Bad \subseteq Nat
    BY <1>1
  <2>2. PICK b \in Bad : \A c \in Bad : b <= c
    <3> HIDE DEF Bad
    <3> QED
      BY <2>1, LeastOne
  <2>3. b \in 0..N /\ f[b] \notin Q
    OBVIOUS
  <2>4. b # 0
    BY <1>7, <2>3
  <2>5. b - 1 \in 0..N /\ b \in 1..N /\ f[b - 1] \in Q
    BY <1>1, <2>2, <2>3, <2>4
  <2> QED
    BY <1>2, <1>7, <2>3, <2>4, <2>5
<1> QED
  BY <1>8 DEF f, N

\* The last n elements of a sequence are a sequence of at most n elements.
LEMMA TailIsShort ==
  ASSUME NEW S, NEW s \in Seq(S), NEW n \in Nat
  PROVE  Tail_n(s, n) \in Seq(S) /\ Len(Tail_n(s, n)) <= n
<1>1. CASE Len(s) <= n
  BY <1>1 DEF Tail_n
<1>2. CASE Len(s) > n
  <2>1. Tail_n(s, n) = SubSeq(s, Len(s) - n + 1, Len(s))
    BY <1>2 DEF Tail_n
  <2>2. Len(s) \in Nat /\ Len(s) - n + 1 \in 1..(Len(s) + 1)
    BY <1>2
  <2>3. Len(SubSeq(s, Len(s) - n + 1, Len(s))) = n
    BY <2>2
  <2>4. SubSeq(s, Len(s) - n + 1, Len(s)) \in Seq(S)
    BY <2>2
  <2> QED
    BY <2>1, <2>3, <2>4
<1> QED
  BY <1>1, <1>2

\* No element of a sequence of Distinct(S) is there twice.
Distinct(S) == {s \in Seq(S) : \A i, j \in 1..Len(s) : s[i] = s[j] => i = j}

\* One more span is a new one.
LEMMA PushKeepsDistinct ==
  ASSUME NEW S, NEW all \in Distinct(S), NEW s \in S \cup {NoText}
  PROVE  Push(all, s) \in Distinct(S)
<1>1. all \in Seq(S) /\ \A i, j \in 1..Len(all) : all[i] = all[j] => i = j
  BY DEF Distinct
<1>2. CASE s = NoText \/ Contains(all, s)
  BY <1>2 DEF Push
<1>3. CASE ~(s = NoText \/ Contains(all, s))
  <2>1. Push(all, s) = Append(all, s) /\ s \in S
    BY <1>3 DEF Push
  <2>2. \A i \in 1..Len(all) : all[i] # s
    BY <1>1, <1>3 DEF Contains
  <2> DEFINE t == Append(all, s)
  <2>3. /\ t \in Seq(S) /\ Len(t) = Len(all) + 1 /\ Len(all) \in Nat
        /\ \A i \in 1..Len(t) : t[i] = IF i = Len(all) + 1 THEN s ELSE all[i]
    BY <1>1, <2>1
  <2>4. \A i \in 1..Len(t) : i = Len(all) + 1 \/ i \in 1..Len(all)
    BY <2>3
  <2> HIDE DEF t
  <2>5. \A i, j \in 1..Len(t) : t[i] = t[j] => i = j
    BY <1>1, <2>2, <2>3, <2>4
  <2>6. t \in Distinct(S)
    BY <2>3, <2>5 DEF Distinct
  <2> QED
    BY <2>1, <2>6 DEF t
<1> QED
  BY <1>2, <1>3

\* The end of a sequence of different elements is one.
LEMMA TailIsDistinct ==
  ASSUME NEW S, NEW s \in Distinct(S), NEW n \in Nat
  PROVE  Tail_n(s, n) \in Distinct(S)
<1>1. s \in Seq(S) /\ \A i, j \in 1..Len(s) : s[i] = s[j] => i = j
  BY DEF Distinct
<1>2. CASE Len(s) <= n
  BY <1>2 DEF Tail_n
<1>3. CASE Len(s) > n
  <2> DEFINE t == SubSeq(s, Len(s) - n + 1, Len(s))
             k == Len(s) - n
  <2>1. Tail_n(s, n) = t /\ t \in Seq(S)
    BY <1>1, <1>3, TailIsShort DEF Tail_n
  <2>2. k \in Nat /\ Len(s) \in Nat /\ Len(s) - n + 1 \in 1..(Len(s) + 1)
    BY <1>1, <1>3
  <2>3. Len(t) = n /\ \A i \in 1..n : t[i] = s[k + i] /\ k + i \in 1..Len(s)
    BY <1>1, <2>2
  <2> HIDE DEF t, k
  <2>4. \A i, j \in 1..Len(t) : t[i] = t[j] => i = j
    <3>1. \A i, j \in 1..n : k + i = k + j => i = j
      BY <2>2
    <3>2. \A i, j \in 1..n : t[i] = t[j] => k + i = k + j
      BY <1>1, <2>3
    <3> QED
      BY <2>3, <3>1, <3>2
  <2> QED
    BY <2>1, <2>4 DEF Distinct
<1> QED
  BY <1>2, <1>3

\* on_failure leaves at most MAX_SPANS texts, none of them empty or there twice.
LEMMA SpansStayShort ==
  ASSUME NEW S, NEW old \in Distinct(S), NEW new \in Seq(S \cup {NoText})
  PROVE  AddSpans(old, new) \in Distinct(S) /\ Len(AddSpans(old, new)) <= MaxSpans
<1>1. Len(new) \in Nat /\ Len(new) \in 0..Len(new) /\ MaxSpans \in Nat
  BY LoopGuardAssumption
<1>2. \A i \in 1..Len(new) : new[i] \in S \cup {NoText}
  OBVIOUS
<1>3. \A all \in Distinct(S), i \in 1..Len(new) : Push(all, new[i]) \in Distinct(S)
  BY <1>2, PushKeepsDistinct
<1>4. Pushed(old, new)[Len(new)] \in Distinct(S)
  BY <1>1, <1>3, PushedStaysIn
<1>5. Pushed(old, new)[Len(new)] \in Seq(S)
  BY <1>4 DEF Distinct
<1> QED
  BY <1>1, <1>4, <1>5, TailIsShort, TailIsDistinct DEF AddSpans

\* The last calls, newest first, are calls.
LEMMA ReverseIsSequence ==
  ASSUME NEW S, NEW s \in Seq(S)
  PROVE  Reverse(s) \in Seq(S)
<1>1. Len(s) \in Nat /\ \A i \in 1..Len(s) : s[i] \in S
  OBVIOUS
<1>2. \A i \in 1..Len(s) : (Len(s) - i) + 1 \in 1..Len(s)
  BY <1>1
<1>3. Reverse(s) \in [1..Len(s) -> S]
  BY <1>1, <1>2 DEF Reverse
<1> QED
  BY <1>1, <1>3

\* request_extra: the first match length stays between 1 and ngram_penalty_start_n.
LEMMA PenaltyInRange ==
  ASSUME NEW n \in Nat, NEW texts
  PROVE  RequestExtra(n, texts).start_n \in 0..StartN
<1>1. StartN \in Nat \ {0}
  BY LoopGuardAssumption
<1>2. NoPenalty.start_n = 0
  BY DEF NoPenalty
<1>3. CASE n = 0 \/ texts = <<>>
  BY <1>1, <1>2, <1>3 DEF RequestExtra
<1>4. CASE ~(n = 0 \/ texts = <<>>)
  <2>1. RequestExtra(n, texts).start_n = IF StartN > n - 1 THEN StartN - (n - 1) ELSE 1
    BY <1>4 DEF RequestExtra
  <2>2. n - 1 \in Nat
    BY <1>4
  <2> QED
    BY <1>1, <2>1, <2>2
<1> QED
  BY <1>3, <1>4

\* No step lets a window grow past its size or a penalty out of its range.
LEMMA WindowsStep ==
  ASSUME Counters, Windows, [Next]_vars
  PROVE  Windows'
<1> DEFINE Texts == Calls \cup LoopTexts
<1>w. /\ recent \in Seq(Calls) /\ Len(recent) <= Window + 1
      /\ spans \in Distinct(Texts) /\ Len(spans) <= MaxSpans
      /\ extra.start_n \in 0..StartN /\ failures \in Nat
  BY DEF Windows, Counters, Distinct
<1>c. Window \in Nat /\ MaxSpans \in Nat /\ Window + 1 \in Nat
  BY LoopGuardAssumption
<1>f. ASSUME NEW new \in Seq(Texts \cup {NoText}), OnFailure(new)
      PROVE  spans' \in Distinct(Texts) /\ Len(spans') <= MaxSpans
  BY <1>w, <1>f, SpansStayShort DEF OnFailure
<1>r. ASSUME NEW call \in Calls, Remember(call)
      PROVE  recent' \in Seq(Calls) /\ Len(recent') <= Window + 1
  <2>1. Append(recent, call) \in Seq(Calls)
    BY <1>w
  <2>2. recent' = Tail_n(Append(recent, call), Window + 1) \/ recent' = recent
    BY <1>r DEF Remember
  <2> QED
    BY <1>c, <1>w, <2>1, <2>2, TailIsShort
<1>1. CASE BeginCall
  <2>1. /\ recent' = recent
        /\ spans' = IF cleanFinish /\ ~failedSinceBegin THEN <<>> ELSE spans
    BY <1>1 DEF BeginCall
  <2>2. <<>> \in Distinct(Texts) /\ Len(<<>>) = 0
    BY DEF Distinct
  <2>3. spans' \in Distinct(Texts) /\ Len(spans') <= MaxSpans
    BY <1>c, <1>w, <2>1, <2>2
  <2>4. PICK n, texts : n \in Nat /\ extra' = RequestExtra(n, texts)
    BY <1>w, <1>1 DEF BeginCall
  <2>5. extra'.start_n \in 0..StartN
    BY <2>4, PenaltyInRange
  <2> QED
    BY <1>w, <2>1, <2>3, <2>5 DEF Windows, Distinct
<1>2. CASE \/ StreamEnds \/ TurnDropped \/ MalformedSearch \/ OutputRecorded \/ FatalError
           \/ Drained \/ CompletedClean \/ UNCHANGED vars
           \/ \E failing \in BOOLEAN : CompletedResampled(failing) \/ CompletedShort(failing)
           \/ \E call \in Calls : OutputItemDone(call)
  <2>1. UNCHANGED <<recent, spans, extra>>
    BY <1>2 DEF StreamEnds, TurnDropped, MalformedSearch, OutputRecorded, FatalError,
                Drained, CompletedClean, CompletedResampled, CompletedShort,
                OutputItemDone, vars, guard
  <2> QED
    BY <1>w, <2>1 DEF Windows, Distinct
<1>3. CASE CompletedLooped
  <2>1. PICK text \in LoopTexts \cup {NoText} : OnFailure(<<text>>)
    BY <1>3 DEF CompletedLooped
  <2>2. <<text>> \in Seq(Texts \cup {NoText})
    OBVIOUS
  <2>3. UNCHANGED <<recent, extra>>
    BY <1>3 DEF CompletedLooped
  <2> QED
    BY <1>f, <1>w, <2>1, <2>2, <2>3 DEF Windows, Distinct
<1>4. ASSUME NEW call \in Calls, SkipCall(call) \/ RunCall(call)
      PROVE  Windows'
  <2>1. Remember(call) /\ UNCHANGED <<spans, extra>>
    BY <1>4 DEF SkipCall, RunCall, Dispatch
  <2> QED
    BY <1>r, <1>w, <2>1 DEF Windows, Distinct
<1>5. ASSUME NEW call \in Calls, PenaliseCall(call)
      PROVE  Windows'
  <2>1. /\ Remember(call) /\ OnFailure(Reverse(Tail_n(recent', Window)))
        /\ UNCHANGED extra
    BY <1>5 DEF PenaliseCall, Dispatch
  <2>2. recent' \in Seq(Calls) /\ Len(recent') <= Window + 1
    BY <1>r, <2>1
  <2>3. Tail_n(recent', Window) \in Seq(Calls)
    BY <1>c, <2>2, TailIsShort
  <2>4. Reverse(Tail_n(recent', Window)) \in Seq(Calls)
    BY <2>3, ReverseIsSequence
  <2>5. Reverse(Tail_n(recent', Window)) \in Seq(Texts \cup {NoText})
    BY <2>4
  <2>6. spans' \in Distinct(Texts) /\ Len(spans') <= MaxSpans
    BY <1>f, <2>1, <2>5
  <2> QED
    BY <1>w, <2>1, <2>2, <2>6 DEF Windows, Distinct
<1> QED
  BY <1>1, <1>2, <1>3, <1>4, <1>5 DEF Next

\* However long a session loops, the window of recent calls, the list of spans
\* and the resample budget stay within their limits, no span is listed twice, and
\* the first match length of the penalty stays within its range.
THEOREM WindowsStayBounded == Spec => []TypeOK
<1>1. Init => Windows
  <2> SUFFICES ASSUME Init PROVE Windows
    OBVIOUS
  <2>1. /\ recent = <<>> /\ spans = <<>> /\ extra.start_n = 0
        /\ {Window, MaxSpans, StartN} \subseteq Nat
    BY LoopGuardAssumption DEF Init, NoPenalty
  <2> QED
    BY <2>1 DEF Windows, Distinct
<1>2. IInv /\ Windows /\ [Next]_vars => Windows'
  BY WindowsStep DEF IInv
<1>3. IInv /\ Windows => TypeOK
  BY DEF IInv, TypeOK
<1> QED
  BY <1>1, <1>2, <1>3, Inductive, PTL DEF Spec
=============================================================================
