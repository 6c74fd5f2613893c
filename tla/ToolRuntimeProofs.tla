-------------------------- MODULE ToolRuntimeProofs --------------------------
(* Proofs about ToolRuntime, for any set of calls.                             *)
(*                                                                             *)
(* That a call has one outcome is not inductive: IInv adds who owns the flag   *)
(* in each pair of places of caller and task, and that is all there is to it.  *)
(* The lock plays no part.                                                     *)
EXTENDS ToolRuntime, TLAPS

\* A step of one call leaves every other call as it was.
Untouched(d) ==
    /\ caller'[d] = caller[d] /\ task'[d] = task[d] /\ reached'[d] = reached[d]
    /\ result'[d] = result[d] /\ outcomes'[d] = outcomes[d]
    /\ response'[d] = response[d]

CallInv(c) ==
    /\ CallerInv(c) /\ TaskInv(c) /\ ReportInv(c)
    /\ \/ Len(outcomes[c]) <= 1
       \/ c \notin Waits /\ task[c] = "aborted" /\ Len(outcomes[c]) = 2
    /\ response[c] \in Ends => outcomes[c] = <<response[c]>>
    /\ response[c] = "aborted" =>
         outcomes[c] # <<>> /\ outcomes[c][Len(outcomes[c])] = "aborted"
    /\ response[c] \in {"rejected", "skipped"} => outcomes[c] = <<>>

\* The parts of IInv about one call, gathered.
LEMMA IInvByCall == IInv <=> TypeOK /\ \A c \in Calls : CallInv(c)
BY DEF IInv, OneOutcome, OutcomeMatchesResponse, CallInv, Ends

\* The same of the next state.
LEMMA IInvByCallNext == IInv' <=> TypeOK' /\ \A c \in Calls : CallInv(c)'
BY DEF IInv, OneOutcome, OutcomeMatchesResponse, CallInv, Ends, TypeOK,
       CallerInv, TaskInv, ReportInv

\* What Append adds.
LEMMA AppendFacts ==
  ASSUME NEW S, NEW s \in Seq(S), NEW e \in S
  PROVE  /\ Append(s, e) \in Seq(S)
         /\ Append(s, e) # <<>>
         /\ Append(s, e)[Len(Append(s, e))] = e
         /\ Len(Append(s, e)) = Len(s) + 1
OBVIOUS

\* The lengths of the outcomes of a call that nobody, or one, has reported.
LEMMA ShortSeqs == Len(<<>>) = 0 /\ \A e : Len(<<e>>) = 1
OBVIOUS

\* Counting to two.
LEMMA OneMore ==
  \A m, n : n = m + 1 => (m = 0 => n = 1) /\ (m = 1 => n = 2)
OBVIOUS

\* Every step keeps the types.
LEMMA TypeStep ==
  ASSUME TypeOK, \A c \in Calls : CallInv(c), [Next]_vars
  PROVE  TypeOK'
<1> USE DEF TypeOK, Callers, Tasks, Holding, Terminal, Results, Responses
<1>1. ASSUME NEW c \in Calls, TaskStep(c) PROVE TypeOK'
  <2>1. CASE NotifyFinish(c)
    <3>1. result[c] \in Results
      BY <2>1 DEF NotifyFinish, TaskMoves, CallInv, TaskInv, Ends
    <3>2. Append(outcomes[c], result[c]) \in Seq(Results \cup {"aborted"})
      BY <3>1
    <3> QED
      BY <2>1, <3>2 DEF NotifyFinish, TaskMoves
  <2>2. CASE Acquire(c) \/ Start(c) \/ HandlerPanics(c) \/ Finish(c) \/ AbortLands(c)
    BY <2>2 DEF Acquire, Start, HandlerPanics, Finish, AbortLands, TaskMoves
  <2>3. CASE Reject(c)
    BY <2>3 DEF Reject, TaskMoves
  <2>4. ASSUME NEW r \in {"blocked", "completed", "failed"}, HandlerReturns(c, r)
        PROVE  TypeOK'
    BY <2>4 DEF HandlerReturns, TaskMoves
  <2> QED
    BY <1>1, <2>1, <2>2, <2>3, <2>4 DEF TaskStep
<1>2. ASSUME NEW c \in Calls, CallerStep(c) PROVE TypeOK'
  <2>1. Append(outcomes[c], "aborted") \in Seq(Results \cup {"aborted"})
    OBVIOUS
  <2>2. Returned(c) \in Responses
    BY DEF Returned, CallInv, TaskInv, Ends
  <2>3. CASE Answer(c)
    BY <2>1, <2>2, <2>3 DEF Answer
  <2>4. CASE TakeResult(c)
    BY <2>2, <2>4 DEF TakeResult
  <2> QED
    BY <1>2, <2>3, <2>4 DEF CallerStep, Dispatch, Skip, SeeCancel, ClaimOutcome,
                            AbortTask, CallerMoves
<1>3. CASE Cancel
  BY <1>3 DEF Cancel
<1>4. CASE DropCalls
  BY <1>4 DEF DropCalls
<1>5. CASE UNCHANGED vars
  BY <1>5 DEF vars
<1> QED
  BY <1>1, <1>2, <1>3, <1>4, <1>5 DEF Next

\* An untouched call keeps its part of IInv.
LEMMA UntouchedStep ==
  ASSUME NEW d \in Calls, CallInv(d), Untouched(d)
  PROVE  CallInv(d)'
BY DEF CallInv, Untouched, CallerInv, TaskInv, ReportInv

\* A step of a task touches its own call only, and keeps that call's part.
LEMMA TaskStepInv ==
  ASSUME TypeOK, TypeOK', NEW c \in Calls, TaskStep(c), \A d \in Calls : CallInv(d)
  PROVE  \A d \in Calls : CallInv(d)'
<1>1. ASSUME NEW d \in Calls, d # c PROVE Untouched(d)
  BY <1>1 DEF TaskStep, Acquire, Reject, Start, HandlerReturns, HandlerPanics,
       NotifyFinish, Finish, AbortLands, TaskMoves, Untouched, TypeOK
<1>2. CallInv(c)'
  <2> USE DEF CallInv, CallerInv, TaskInv, ReportInv, TypeOK, Callers, Tasks,
              Holding, Terminal, Results, Responses, Ends, TaskMoves
  <2>1. CASE Acquire(c)
    BY <2>1 DEF Acquire
  <2>2. CASE Reject(c)
    BY <2>2 DEF Reject
  <2>3. CASE Start(c)
    BY <2>3 DEF Start
  <2>4. ASSUME NEW r \in {"blocked", "completed", "failed"}, HandlerReturns(c, r)
        PROVE  CallInv(c)'
    BY <2>4 DEF HandlerReturns
  <2>5. CASE HandlerPanics(c)
    BY <2>5 DEF HandlerPanics
  <2>6. CASE NotifyFinish(c)
    <3>1. caller[c] # "done"
      BY <2>6 DEF NotifyFinish
    <3>2. outcomes[c] = <<>> /\ result[c] \in Ends
      BY <2>6, <3>1 DEF NotifyFinish
    <3>3. outcomes'[c] = IF reached[c] THEN <<>> ELSE <<result[c]>>
      BY <2>6, <3>2 DEF NotifyFinish
    <3>4. Len(<<>>) = 0 /\ Len(<<result[c]>>) = 1
      OBVIOUS
    <3> QED
      BY <2>6, <3>1, <3>2, <3>3, <3>4 DEF NotifyFinish
  <2>7. CASE Finish(c)
    BY <2>7 DEF Finish
  <2>8. CASE AbortLands(c)
    BY <2>8 DEF AbortLands
  <2> QED
    BY <2>1, <2>2, <2>3, <2>4, <2>5, <2>6, <2>7, <2>8 DEF TaskStep
<1> QED
  BY <1>1, <1>2, UntouchedStep

\* A step of a caller likewise.
LEMMA CallerStepInv ==
  ASSUME TypeOK, TypeOK', NEW c \in Calls, CallerStep(c), \A d \in Calls : CallInv(d)
  PROVE  \A d \in Calls : CallInv(d)'
<1>1. ASSUME NEW d \in Calls, d # c PROVE Untouched(d)
  BY <1>1 DEF CallerStep, Dispatch, Skip, TakeResult, Returned, SeeCancel,
       ClaimOutcome, AbortTask, Answer, CallerMoves, Untouched, TypeOK
<1>2. CallInv(c)'
  <2> USE DEF CallInv, CallerInv, TaskInv, ReportInv, TypeOK, Callers, Tasks,
              Holding, Terminal, Results, Responses, Ends, CallerMoves
  <2>1. CASE Dispatch(c)
    BY <2>1 DEF Dispatch
  <2>2. CASE Skip(c)
    BY <2>2 DEF Skip
  <2>3. CASE TakeResult(c)
    BY <2>3 DEF TakeResult, Returned
  <2>4. CASE SeeCancel(c)
    BY <2>4 DEF SeeCancel
  <2>5. CASE ClaimOutcome(c)
    BY <2>5 DEF ClaimOutcome
  <2>6. CASE AbortTask(c)
    BY <2>6 DEF AbortTask
  <2>7. CASE Answer(c)
    <3> DEFINE told == Append(outcomes[c], "aborted")
    <3>1. /\ told # <<>> /\ told[Len(told)] = "aborted"
          /\ Len(told) = Len(outcomes[c]) + 1
      <4>1. outcomes[c] \in Seq(Results \cup {"aborted"})
        BY DEF TypeOK
      <4> HIDE DEF CallInv, CallerInv, TaskInv, ReportInv, TypeOK, Callers, Tasks,
                   Holding, Terminal, Results, Responses, Ends, CallerMoves
      <4> QED
        BY <4>1, AppendFacts
    <3>2. Len(<<>>) = 0 /\ Len(<<result[c]>>) = 1
      BY ShortSeqs
    <3>3. CASE caller[c] = "owning"
      BY <2>7, <3>1, <3>2, <3>3 DEF Answer, Returned
    <3>4. CASE caller[c] = "aborting" /\ task[c] = "aborted"
      <4>1. outcomes[c] = <<>> \/ outcomes[c] = <<result[c]>>
        BY <3>4
      <4>2. Len(outcomes[c]) = 0 \/ Len(outcomes[c]) = 1
        BY <4>1, <3>2, Zenon
      <4>3. outcomes'[c] = told
        BY <2>7, <3>4 DEF Answer
      <4>4. /\ outcomes'[c] # <<>>
            /\ outcomes'[c][Len(outcomes'[c])] = "aborted"
            /\ Len(outcomes'[c]) = Len(outcomes[c]) + 1
        BY <3>1, <4>3, Zenon
      <4>5. Len(outcomes'[c]) = 1 \/ Len(outcomes'[c]) = 2
        <5>1. ASSUME Len(outcomes[c]) = 0 PROVE Len(outcomes'[c]) = 1
          BY <5>1, <4>4, OneMore
        <5>2. ASSUME Len(outcomes[c]) = 1 PROVE Len(outcomes'[c]) = 2
          BY <5>2, <4>4, OneMore
        <5> QED
          BY <4>2, <5>1, <5>2, Zenon
      <4>6. /\ response'[c] = "aborted" /\ caller'[c] = "done"
            /\ c \notin Waits /\ task'[c] = "aborted"
        BY <2>7, <3>4 DEF Answer
      <4> QED
        BY <4>4, <4>5, <4>6
    <3>5. CASE caller[c] = "aborting" /\ task[c] # "aborted"
      BY <2>7, <3>2, <3>5 DEF Answer, Returned
    <3> QED
      BY <2>7, <3>3, <3>4, <3>5 DEF Answer
  <2> QED
    BY <2>1, <2>2, <2>3, <2>4, <2>5, <2>6, <2>7 DEF CallerStep
<1> QED
  BY <1>1, <1>2, UntouchedStep

\* Every step preserves IInv.
LEMMA InductiveStep ==
  ASSUME IInv, [Next]_vars
  PROVE  IInv'
<1> TypeOK /\ TypeOK' /\ \A c \in Calls : CallInv(c)
  BY IInvByCall, TypeStep
<1>1. ASSUME NEW c \in Calls, TaskStep(c) PROVE \A d \in Calls : CallInv(d)'
  BY <1>1, TaskStepInv
<1>2. ASSUME NEW c \in Calls, CallerStep(c) PROVE \A d \in Calls : CallInv(d)'
  BY <1>2, CallerStepInv
<1>3. ASSUME Cancel PROVE \A d \in Calls : CallInv(d)'
  <2>1. \A d \in Calls : Untouched(d)
    BY <1>3 DEF Cancel, Untouched
  <2> QED
    BY <2>1, UntouchedStep
<1>4. ASSUME DropCalls PROVE \A d \in Calls : CallInv(d)'
  <2> SUFFICES ASSUME NEW d \in Calls PROVE CallInv(d)'
    OBVIOUS
  <2>1. /\ caller'[d] = IF caller[d] = "done" THEN "done" ELSE "dropped"
        /\ UNCHANGED <<task, reached, result, outcomes, response>>
    BY <1>4 DEF DropCalls
  <2>2. CallInv(d)
    OBVIOUS
  <2>3. Len(outcomes[d]) <= 1 \/ caller[d] = "done"
    <3>1. \/ outcomes[d] = <<>> \/ outcomes[d] = <<result[d]>>
          \/ Len(outcomes[d]) <= 1 \/ caller[d] = "done"
      BY <2>2 DEF CallInv, CallerInv, ReportInv, TypeOK, Callers
    <3>2. Len(<<>>) <= 1 /\ Len(<<result[d]>>) <= 1
      OBVIOUS
    <3> QED
      BY <3>1, <3>2, Zenon
  <2> QED
    BY <2>1, <2>2, <2>3 DEF CallInv, CallerInv, TaskInv, ReportInv, Callers
<1>5. ASSUME UNCHANGED vars PROVE \A d \in Calls : CallInv(d)'
  <2>1. \A d \in Calls : Untouched(d)
    BY <1>5 DEF vars, Untouched
  <2> QED
    BY <2>1, UntouchedStep
<1> QED
  BY <1>1, <1>2, <1>3, <1>4, <1>5, IInvByCallNext DEF Next

\* The invariant holds in every state of the specification: of a call's caller,
\* task and flag, one always knows who has reported its outcome.
THEOREM Inductive == Spec => []IInv
<1>1. Init => IInv
  <2> SUFFICES ASSUME Init PROVE TypeOK /\ \A c \in Calls : CallInv(c)
    BY IInvByCall
  <2>1. <<>> \in Seq(Results \cup {"aborted"}) /\ Len(<<>>) = 0
    OBVIOUS
  <2>2. TypeOK
    BY <2>1 DEF Init, TypeOK, Callers, Tasks, Results, Responses
  <2>3. \A c \in Calls : CallInv(c)
    <3> SUFFICES ASSUME NEW c \in Calls PROVE CallInv(c)
      OBVIOUS
    <3>1. /\ caller[c] = "idle" /\ task[c] = "none" /\ reached[c] = FALSE
          /\ result[c] = "none" /\ outcomes[c] = <<>> /\ response[c] = "none"
      BY DEF Init
    <3> QED
      BY <3>1, <2>1 DEF CallInv, CallerInv, TaskInv, ReportInv, Callers, Ends
  <2> QED
    BY <2>2, <2>3
<1> QED
  BY <1>1, InductiveStep, PTL DEF Spec

\* No tool is at work when its call is answered.
THEOREM AnsweredStopped == Spec => []AnsweredIsStopped
<1>1. IInv => AnsweredIsStopped
  BY DEF IInv, CallerInv, AnsweredIsStopped
<1> QED
  BY <1>1, Inductive, PTL

\* A call's outcome is reported once, up to the one race the code leaves open.
THEOREM ReportedOnce == Spec => []OneOutcome
<1>1. IInv => OneOutcome
  BY DEF IInv
<1> QED
  BY <1>1, Inductive, PTL

\* What is reported of a call is what is answered.
THEOREM ReportMatches == Spec => []OutcomeMatchesResponse
<1>1. IInv => OutcomeMatchesResponse
  BY DEF IInv
<1> QED
  BY <1>1, Inductive, PTL
=============================================================================
