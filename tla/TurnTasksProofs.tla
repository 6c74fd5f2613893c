--------------------------- MODULE TurnTasksProofs ---------------------------
(* Proofs about TurnTasks for any prompts and mails, any number of turns,      *)
(* requests, interrupts and compactions.                                       *)
(*                                                                             *)
(* Everything below is said of behaviours in which the loop does not overlap   *)
(* the start of a turn by a tail; TypeOK is said of all.                       *)
EXTENDS TurnTasks, FiniteSetTheorems, TLAPS

-----------------------------------------------------------------------------
(* The inductive invariant.                                                    *)

\* A turn is being started; its number is allocated.
Starting == {"cancel", "barrier", "gather", "insert", "publish"}

\* The task of a turn runs, or has run and is still in the session ...
Body == {"run", "drain", "fold", "sample", "after", "again", "guard", "check",
         "finish"}

\* ... and has been taken out of it by on_task_finished.
Leaving == {"flush", "warm", "clear"}

\* References that are in scope refer to something, overlap or not.
References ==
    /\ active.on <=> active.ts # 0
    /\ active.task # 0 => active.on
    /\ pc[Loop] = "grace" => reg[Loop].ts # 0 /\ reg[Loop].victim # 0
    /\ \A t \in Turns : pc[t] = "flush" => reg[t].ts # 0
    /\ \A p \in Procs : pc[p] \in Starting => reg[p].turn # 0

\* The loop carries a turn to be started.
Carrying == Starting \cup {"abort", "take", "grace"}

\* Where the two kinds of processes can be.
PlacesOfControl ==
    /\ pc[Loop] \in LoopStates
    /\ \A t \in Turns : pc[t] \in TaskStates
    /\ \A t \in Turns : t > started => pc[t] = "unused"
    /\ \A t \in Turns : t \in cancelled => pc[t] # "unused"

\* Locals hold something only where the code has them in scope.
Locals ==
    /\ \A p \in Procs :
          /\ pc[p] \notin {"fold", "insert"} => reg[p].items = {}
          /\ reg[p].ts # 0 <=> pc[p] \in {"grace", "publish"} \cup Leaving
          /\ reg[p].turn # 0 => pc[p] \in Carrying
          /\ \A t \in Turns : reg[p].turn = t => pc[t] = "unused" /\ t <= started
    /\ \A t \in Turns : reg[t].input # {} => pc[t] = "run"
    /\ reg[Loop].input # {} => reg[Loop].turn # 0
    /\ reg[Loop].victim # 0 <=> pc[Loop] = "grace"

\* The task in the session is the one that runs, apart from one being aborted.
TaskInSession ==
    /\ ~active.on => active = NoTurn
    /\ active.task # 0 => \A q \in Procs : reg[q].ts # active.ts
    /\ reg[Loop].victim # 0 => ~active.on
    /\ \A t \in Turns :
          /\ active.task = t => pc[t] \in Body /\ t \notin cancelled
          /\ reg[Loop].victim = t => pc[t] \in Body \cup Ended
          /\ pc[t] \in Body => active.task = t \/ reg[Loop].victim = t

\* An active turn without a task is one that ends or one that starts.
Reservation ==
    /\ active.on /\ active.task = 0 =>
          \/ \E t \in Turns : pc[t] \in Leaving /\ reg[t].ts = active.ts
          \/ \E p \in Procs : pc[p] \in Starting
    /\ \A p \in Procs : pc[p] \in Starting =>
          /\ active.task = 0
          /\ active.on => \A q \in Procs : q # p => reg[q].ts # active.ts
          /\ pc[p] = "publish" => active.on /\ reg[p].ts = active.ts
          /\ \A q \in Procs : pc[q] \in Starting => q = p
          /\ p # Loop => active.on /\ pc[Loop] = "idle"

\* on_task_finished has emptied the turn state it still refers to.
Flushed ==
    \A t \in Turns, s \in TurnStates :
        pc[t] \in {"warm", "clear"} /\ reg[t].ts = s => pend[s] = {}

\* Who can have the prewarm lock.
GuardHeld ==
    /\ ~local => guard = Nobody
    /\ \A t \in Turns :
          /\ pc[t] \in Body \ {"check", "finish"} => guard = Nobody
          /\ local /\ pc[t] \in {"check", "finish", "flush", "warm"} => guard = t
    /\ \A p \in Procs : pc[p] \in {"gather", "insert", "publish"} => guard = Nobody

\* A turn has its terminal event exactly from its teardown on.
Terminals ==
    \A t \in Turns :
        /\ pc[t] \in {"unused", "flush"} \cup Body => terminal[t] = "none"
        /\ pc[t] \in {"warm", "clear", "pending", "reserve"} \cup Starting =>
              terminal[t] = "complete"
        /\ pc[t] \in Ended =>
              IF reg[Loop].victim = t THEN terminal[t] = "none"
              ELSE terminal[t] \in {"complete", "aborted"}

\* An item is in a turn state somebody refers to, or in the locals of a process.
Waits(i, s) == s \in {active.ts} \cup {reg[p].ts : p \in Procs} /\ i \in pend[s]
Holds(i, p) == i \in reg[p].items \cup reg[p].input

\* An item that was not submitted is nowhere; one that was is in one place.
ItemPlaces ==
    \A i \in Items :
        /\ i \notin sent =>
              /\ i \notin recorded /\ i \notin dropped /\ i \notin mailbox
              /\ \A s \in TurnStates : ~Waits(i, s)
              /\ \A p \in Procs : ~Holds(i, p)
        /\ i \in sent =>
              \/ i \in recorded \/ i \in dropped \/ i \in mailbox
              \/ \E s \in TurnStates : Waits(i, s)
              \/ \E p \in Procs : Holds(i, p)
        /\ i \in recorded => i \notin dropped
        /\ i \in recorded \cup dropped => i \notin mailbox
        /\ i \in recorded \cup dropped \cup mailbox =>
              /\ \A s \in TurnStates : ~Waits(i, s)
              /\ \A p \in Procs : ~Holds(i, p)
        /\ \A s, r \in TurnStates : Waits(i, s) /\ Waits(i, r) => s = r
        /\ \A p, q \in Procs : Holds(i, p) /\ Holds(i, q) => p = q
        /\ \A s \in TurnStates, p \in Procs : ~(Waits(i, s) /\ Holds(i, p))

Control == PlacesOfControl /\ Locals /\ TaskInSession /\ Reservation

\* What the loop was given and what it has gathered for a start are different.
Distinct == reg[Loop].items \cap reg[Loop].input = {}

Core == Control /\ Flushed /\ GuardHeld /\ Terminals

IInv == TypeOK /\ References /\ (~overlap => Core /\ ItemPlaces /\ Distinct)

-----------------------------------------------------------------------------
(* The constants, a turn state nobody refers to, and what an assignment to the *)
(* locals of a process does.                                                   *)

Regs == [ts : {0} \cup TurnStates, items : SUBSET Items,
         input : SUBSET Items, kind : {"regular", "compact"},
         turn : {0} \cup Turns, victim : {0} \cup Turns,
         drain : BOOLEAN, follow : BOOLEAN, image : BOOLEAN]
Labels == LoopStates \cup TaskStates

\* The processes are the loop and the turns; 0 is none of the others.
LEMMA Numbers ==
  /\ Loop \in Procs /\ Turns \subseteq Procs /\ Procs = 0..MaxTurns
  /\ Loop \notin Turns /\ 0 \notin Turns /\ 0 \notin TurnStates /\ Resume \notin Turns /\ Resume # 0
  /\ \A p \in Procs : p # Loop => p \in Turns
BY TurnTasksAssumption DEF Procs, Turns, Loop, TurnStates, Resume

\* There are more turn states than references: ActiveTurn::default() finds one.
LEMMA FreshStateIsFree ==
  ASSUME TypeOK
  PROVE  /\ FreshState \in TurnStates
         /\ FreshState # active.ts
         /\ \A p \in Procs : FreshState # reg[p].ts
<1> DEFINE used == {active.ts} \cup {reg[p].ts : p \in Procs}
           idx == 0..(MaxTurns + 1)
           f == [n \in idx |-> IF n = MaxTurns + 1 THEN active.ts ELSE reg[n].ts]
<1>n. MaxTurns \in Nat
  BY TurnTasksAssumption
<1>1. IsFiniteSet(idx) /\ Cardinality(idx) = MaxTurns + 2
  BY <1>n, FS_Interval
<1>2. IsFiniteSet(TurnStates) /\ Cardinality(TurnStates) = MaxTurns + 3
  BY <1>n, FS_Interval DEF TurnStates
<1>3. f \in Surjection(idx, used)
  <2>1. \A n \in idx : f[n] \in used
    BY <1>n DEF Procs, Loop, Turns
  <2>2. \A u \in used : \E n \in idx : f[n] = u
    BY <1>n DEF Procs, Loop, Turns
  <2>3. f \in [idx -> used]
    BY <2>1
  <2> QED
    BY <2>2, <2>3 DEF Surjection
<1>4. IsFiniteSet(used) /\ Cardinality(used) <= MaxTurns + 2
  BY <1>1, <1>3, FS_Surjection
<1>5. ~(TurnStates \subseteq used)
  <2> SUFFICES ASSUME TurnStates \subseteq used PROVE FALSE
    OBVIOUS
  <2>1. Cardinality(TurnStates) <= Cardinality(used)
    BY <1>4, FS_Subset
  <2>2. Cardinality(used) \in Nat
    BY <1>4, FS_CardinalityType
  <2> QED
    BY <1>2, <1>4, <2>1, <2>2, <1>n
<1>6. FreshState \in TurnStates \ used
  <2>1. \E s \in TurnStates \ used : TRUE
    BY <1>5
  <2>2. FreshState = CHOOSE s \in TurnStates \ used : TRUE
    BY DEF FreshState
  <2> HIDE DEF used
  <2> QED
    BY <2>1, <2>2
<1> QED
  BY <1>6

\* One process writes its locals and goes somewhere.
LEMMA OneMoves ==
  ASSUME TypeOK, NEW p \in Procs, NEW label \in Labels, NEW r \in Regs,
         pc' = [pc EXCEPT ![p] = label], reg' = [reg EXCEPT ![p] = r]
  PROVE  /\ pc' \in [Procs -> Labels] /\ reg' \in [Procs -> Regs]
         /\ pc'[p] = label /\ reg'[p] = r
         /\ \A q \in Procs : q # p => pc'[q] = pc[q] /\ reg'[q] = reg[q]
<1>1. pc \in [Procs -> Labels] /\ reg \in [Procs -> Regs]
  BY DEF TypeOK, Labels, Regs
<1> HIDE DEF Regs, Labels
<1> QED
  BY <1>1

\* A record of locals, taken apart.
LEMMA RegFields ==
  ASSUME NEW r \in Regs
  PROVE  /\ r.ts \in {0} \cup TurnStates /\ r.items \subseteq Items
         /\ r.input \subseteq Items /\ r.kind \in {"regular", "compact"}
         /\ r.turn \in {0} \cup Turns /\ r.victim \in {0} \cup Turns
         /\ r.drain \in BOOLEAN /\ r.follow \in BOOLEAN
         /\ r.image \in BOOLEAN
BY DEF Regs

\* The locals of a process that has none are locals.
LEMMA NoRegType == NoReg \in Regs
BY TurnTasksAssumption DEF NoReg, Regs

\* One process goes somewhere and keeps its locals.
LEMMA OneGoes ==
  ASSUME TypeOK, NEW p \in Procs, NEW label \in Labels,
         pc' = [pc EXCEPT ![p] = label], reg' = reg
  PROVE  /\ pc' \in [Procs -> Labels] /\ reg' \in [Procs -> Regs]
         /\ pc'[p] = label
         /\ \A q \in Procs : q # p => pc'[q] = pc[q]
<1>1. pc \in [Procs -> Labels] /\ reg \in [Procs -> Regs]
  BY DEF TypeOK, Labels, Regs
<1> HIDE DEF Regs, Labels
<1> QED
  BY <1>1

\* The type invariant, in two parts.
ProcTypes == pc \in [Procs -> Labels] /\ reg \in [Procs -> Regs]

Actives == [on : BOOLEAN, task : {0} \cup Turns, ts : {0} \cup TurnStates,
            phase : {"CurrentTurn", "NextTurn"}]

SessionTypes ==
    /\ local \in BOOLEAN
    /\ active \in Actives
    /\ pend \in [TurnStates -> SUBSET Items]
    /\ mailbox \subseteq Mails
    /\ guard \in {Nobody, Resume} \cup Turns
    /\ warmup \in {"fresh", "cancelled"}
    /\ started \in 0..MaxTurns
    /\ cancelled \subseteq Turns
    /\ terminal \in [Turns -> {"none", "complete", "aborted", "twice"}]
    /\ recorded \subseteq Items /\ dropped \subseteq Items /\ sent \subseteq Items
    /\ ops \in [interrupt : 0..MaxInterrupts, compact : 0..MaxCompacts]
    /\ overlap \in BOOLEAN

\* The parts are the whole, before and after a step.
LEMMA TypeParts ==
  /\ TypeOK <=> ProcTypes /\ SessionTypes
  /\ TypeOK' <=> ProcTypes' /\ SessionTypes'
BY DEF TypeOK, ProcTypes, SessionTypes, Actives, Regs, Labels

\* What a session's active turn is made of.
LEMMA ActiveFields ==
  ASSUME TypeOK
  PROVE  /\ active.on \in BOOLEAN /\ active.task \in {0} \cup Turns
         /\ active.ts \in {0} \cup TurnStates
         /\ active.phase \in {"CurrentTurn", "NextTurn"}
BY DEF TypeOK

\* get_pending_input: what is pending is items, and taking it takes nothing else.
LEMMA TakePendingEffect ==
  ASSUME TypeOK, active.on => active.ts # 0, TakePending
  PROVE  /\ PendingInput \subseteq Items
         /\ pend' \in [TurnStates -> SUBSET Items] /\ mailbox' \subseteq mailbox
         /\ \A s \in TurnStates :
               pend'[s] = IF active.on /\ s = active.ts THEN {} ELSE pend[s]
         /\ mailbox' = IF Accepts THEN {} ELSE mailbox
<1>1. active.on => active.ts \in TurnStates
  BY ActiveFields
<1>2. pend \in [TurnStates -> SUBSET Items] /\ mailbox \subseteq Items
  BY DEF TypeOK, Items
<1> QED
  BY <1>1, <1>2 DEF TakePending, PendingInput, TurnInput

-----------------------------------------------------------------------------
(* What each action does to the types, and to the locals one by one.           *)

\* A step in the body of a task, as seen from outside the task.
BodyStep(t) ==
    /\ pc[t] \in Body \ {"guard", "check", "finish"}
    /\ pc'[t] \in Body \ {"check", "finish"}
    /\ \A q \in Procs : q # t => pc'[q] = pc[q] /\ reg'[q] = reg[q]
    /\ reg'[t].ts = reg[t].ts /\ reg'[t].turn = reg[t].turn
    /\ \/ pc'[t] = "fold" \/ reg'[t].items = {}
       \/ pc[t] # "fold" /\ reg'[t].items = reg[t].items
    /\ reg'[t].input = {} \/ (pc[t] # "run" /\ reg'[t].input = reg[t].input)
    /\ active'.on = active.on /\ active'.task = active.task
    /\ active'.ts = active.ts /\ (~active.on => active' = active)
    /\ \A s \in TurnStates : pend'[s] \subseteq pend[s]
    /\ UNCHANGED <<local, guard, warmup, started, cancelled, terminal, sent,
                   ops, overlap>>

\* The steps of run_turn and RegularTask::run are body steps.
LEMMA RunEffect ==
  ASSUME TypeOK, References, NEW t \in Turns,
         Run(t) \/ Answer(t) \/ ToolCall(t) \/ SampleEnd(t)
  PROVE  TypeOK' /\ BodyStep(t)
<1> USE DEF queue, prewarm, ghosts, outside
<1>p. t \in Procs
  BY Numbers
<1>t. ProcTypes /\ SessionTypes
  BY TypeParts
<1>r. reg[t] \in Regs /\ reg[t].items \subseteq Items /\ reg[t].input \subseteq Items
  BY <1>t, <1>p, RegFields DEF ProcTypes
<1>l. Body \subseteq Labels
  BY DEF Body, Labels, TaskStates
<1>1. CASE RecordInput(t)
  <2> DEFINE r == [reg[t] EXCEPT !.drain = (reg[t].input = {}), !.input = {}]
             l == IF reg[t].kind = "compact" THEN "sample" ELSE "drain"
  <2>1. r \in Regs /\ r.ts = reg[t].ts /\ r.turn = reg[t].turn
        /\ r.items = reg[t].items /\ r.input = {}
    BY <1>r DEF Regs
  <2>2. pc[t] = "run" /\ l \in {"sample", "drain"}
        /\ pc' = [pc EXCEPT ![t] = l] /\ reg' = [reg EXCEPT ![t] = r]
    BY <1>1 DEF RecordInput, Goto
  <2> HIDE DEF r, l
  <2>3. l \in Labels
    BY <2>2, <1>l DEF Body
  <2>4. /\ ProcTypes' /\ pc'[t] = l /\ reg'[t] = r
        /\ \A q \in Procs : q # t => pc'[q] = pc[q] /\ reg'[q] = reg[q]
    BY <2>1, <2>2, <2>3, <1>p, OneMoves DEF ProcTypes
  <2>5. SessionTypes'
    BY <1>1, <1>t, <1>r DEF RecordInput, SessionTypes
  <2>6. BodyStep(t)
    BY <1>1, <2>1, <2>2, <2>4 DEF BodyStep, Body, RecordInput
  <2> QED
    BY <2>4, <2>5, <2>6, TypeParts
<1>2. CASE PreSamplingFails(t)
  <2> DEFINE r == [reg[t] EXCEPT !.input = {}]
  <2>1. r \in Regs /\ r.ts = reg[t].ts /\ r.turn = reg[t].turn
        /\ r.items = reg[t].items /\ r.input = {}
    BY <1>r DEF Regs
  <2>2. pc[t] = "run"
        /\ pc' = [pc EXCEPT ![t] = "again"] /\ reg' = [reg EXCEPT ![t] = r]
    BY <1>2 DEF PreSamplingFails, Goto
  <2> HIDE DEF r
  <2>4. /\ ProcTypes' /\ pc'[t] = "again" /\ reg'[t] = r
        /\ \A q \in Procs : q # t => pc'[q] = pc[q] /\ reg'[q] = reg[q]
    BY <2>1, <2>2, <1>l, <1>p, OneMoves DEF ProcTypes, Body
  <2>5. SessionTypes'
    BY <1>2, <1>t, <1>r DEF PreSamplingFails, SessionTypes
  <2>6. BodyStep(t)
    BY <1>2, <2>1, <2>2, <2>4 DEF BodyStep, Body, PreSamplingFails
  <2> QED
    BY <2>4, <2>5, <2>6, TypeParts
<1>3. CASE DrainPending(t) /\ reg[t].drain
  <2> DEFINE r == [reg[t] EXCEPT !.items = PendingInput]
  <2>0. /\ PendingInput \subseteq Items
        /\ pend' \in [TurnStates -> SUBSET Items] /\ mailbox' \subseteq mailbox
        /\ \A s \in TurnStates :
              pend'[s] = IF active.on /\ s = active.ts THEN {} ELSE pend[s]
    BY <1>3, TakePendingEffect DEF DrainPending, References
  <2>1. r \in Regs /\ r.ts = reg[t].ts /\ r.turn = reg[t].turn
        /\ r.items = PendingInput /\ r.input = reg[t].input
    BY <1>r, <2>0 DEF Regs
  <2>2. pc[t] = "drain"
        /\ pc' = [pc EXCEPT ![t] = "fold"] /\ reg' = [reg EXCEPT ![t] = r]
    BY <1>3 DEF DrainPending, Goto
  <2> HIDE DEF r
  <2>4. /\ ProcTypes' /\ pc'[t] = "fold" /\ reg'[t] = r
        /\ \A q \in Procs : q # t => pc'[q] = pc[q] /\ reg'[q] = reg[q]
    BY <2>1, <2>2, <1>l, <1>p, OneMoves DEF ProcTypes, Body
  <2>5. SessionTypes'
    BY <1>3, <1>t, <2>0 DEF DrainPending, SessionTypes
  <2>6. BodyStep(t)
    BY <1>3, <2>0, <2>1, <2>2, <2>4 DEF BodyStep, Body, DrainPending
  <2> QED
    BY <2>4, <2>5, <2>6, TypeParts
<1>4. CASE DrainPending(t) /\ ~reg[t].drain
  <2>2. pc[t] = "drain" /\ pc' = [pc EXCEPT ![t] = "fold"] /\ reg' = reg
    BY <1>4 DEF DrainPending, Goto
  <2>4. /\ ProcTypes' /\ pc'[t] = "fold"
        /\ \A q \in Procs : q # t => pc'[q] = pc[q]
    BY <2>2, <1>l, <1>p, OneGoes DEF ProcTypes, Body
  <2>5. SessionTypes'
    BY <1>4, <1>t DEF DrainPending, SessionTypes
  <2>6. BodyStep(t)
    BY <1>4, <2>2, <2>4 DEF BodyStep, Body, DrainPending
  <2> QED
    BY <2>4, <2>5, <2>6, TypeParts
<1>5. CASE FoldPending(t)
  <2> DEFINE r == [reg[t] EXCEPT !.items = {}, !.follow = FALSE]
  <2>1. r \in Regs /\ r.ts = reg[t].ts /\ r.turn = reg[t].turn
        /\ r.items = {} /\ r.input = reg[t].input
    BY <1>r DEF Regs
  <2>2. PICK l \in {"sample", "again"} :
        pc' = [pc EXCEPT ![t] = l] /\ reg' = [reg EXCEPT ![t] = r]
    BY <1>5 DEF FoldPending, Goto
  <2> HIDE DEF r
  <2>4. /\ ProcTypes' /\ pc'[t] = l /\ reg'[t] = r
        /\ \A q \in Procs : q # t => pc'[q] = pc[q] /\ reg'[q] = reg[q]
    BY <2>1, <2>2, <1>l, <1>p, OneMoves DEF ProcTypes, Body
  <2>5. SessionTypes'
    BY <1>5, <1>t, <1>r DEF FoldPending, SessionTypes
  <2>6. BodyStep(t)
    BY <1>5, <2>1, <2>2, <2>4 DEF BodyStep, Body, FoldPending
  <2> QED
    BY <2>4, <2>5, <2>6, TypeParts
<1>6. CASE Answer(t)
  <2>1. active' = [active EXCEPT !.phase = "NextTurn"] /\ active.on /\ pc[t] = "sample"
        /\ UNCHANGED <<pc, reg>>
    BY <1>6, Numbers DEF Answer, References
  <2>2. active' \in Actives /\ active'.on = active.on /\ active'.task = active.task
        /\ active'.ts = active.ts
    BY <2>1, <1>t DEF SessionTypes, Actives
  <2>5. ProcTypes' /\ SessionTypes'
    BY <1>6, <1>t, <2>1, <2>2 DEF Answer, SessionTypes, ProcTypes
  <2>6. BodyStep(t)
    BY <1>6, <2>1, <2>2 DEF BodyStep, Body, Answer
  <2> QED
    BY <2>5, <2>6, TypeParts
<1>7. CASE ToolCall(t)
  <2> DEFINE r == [reg[t] EXCEPT !.follow = TRUE, !.image = TRUE]
  <2>1. r \in Regs /\ r.ts = reg[t].ts /\ r.turn = reg[t].turn
        /\ r.items = reg[t].items /\ r.input = reg[t].input
    BY <1>r DEF Regs
  <2>2. pc[t] = "sample" /\ pc' = pc /\ reg' = [reg EXCEPT ![t] = r]
    BY <1>7 DEF ToolCall
  <2> HIDE DEF r
  <2>4. /\ ProcTypes' /\ pc' = pc /\ reg'[t] = r
        /\ \A q \in Procs : q # t => reg'[q] = reg[q]
    BY <2>1, <2>2, <1>p, <1>t DEF ProcTypes
  <2>3. active' \in Actives /\ active'.on = active.on /\ active'.task = active.task
        /\ active'.ts = active.ts /\ (~active.on => active' = active)
    <3>1. CASE active.task = t
      <4>1. active' = [active EXCEPT !.phase = "CurrentTurn"] /\ active.on
        BY <1>7, <3>1, Numbers DEF ToolCall, References
      <4> QED
        BY <4>1, <1>t DEF SessionTypes, Actives
    <3>2. CASE active.task # t
      BY <3>2, <1>7, <1>t DEF SessionTypes, ToolCall
    <3> QED
      BY <3>1, <3>2
  <2>5. SessionTypes'
    BY <1>7, <1>t, <2>3 DEF ToolCall, SessionTypes
  <2>6. BodyStep(t)
    BY <1>7, <2>1, <2>2, <2>3, <2>4 DEF BodyStep, Body, ToolCall
  <2> QED
    BY <2>4, <2>5, <2>6, TypeParts
<1>8. CASE SampleEnd(t) \/ RunAgain(t)
  <2>2. PICK l \in Body \ {"check", "finish"} :
           pc' = [pc EXCEPT ![t] = l] /\ reg' = reg
    BY <1>8 DEF SampleEnd, RunAgain, Goto, Body
  <2>4. /\ ProcTypes' /\ pc'[t] = l
        /\ \A q \in Procs : q # t => pc'[q] = pc[q]
    BY <2>2, <1>l, <1>p, OneGoes DEF ProcTypes
  <2>5. SessionTypes'
    BY <1>8, <1>t DEF SampleEnd, RunAgain, SessionTypes
  <2>6. BodyStep(t)
    BY <1>8, <2>2, <2>4 DEF BodyStep, Body, SampleEnd, RunAgain
  <2> QED
    BY <2>4, <2>5, <2>6, TypeParts
<1>9. CASE SampleBreak(t) \/ FollowUp(t) \/ RunEnds(t)
  <2> DEFINE Keeps(r) == r.ts = reg[t].ts /\ r.turn = reg[t].turn
                         /\ r.items = reg[t].items /\ r.input = reg[t].input
  <2>0. \A d \in BOOLEAN :
           /\ [reg[t] EXCEPT !.drain = d] \in Regs
           /\ Keeps([reg[t] EXCEPT !.drain = d])
    BY <1>r DEF Regs
  <2>1. /\ [reg[t] EXCEPT !.image = FALSE] \in Regs
        /\ Keeps([reg[t] EXCEPT !.image = FALSE])
    BY <1>r DEF Regs
  <2>f. reg[t].follow \in BOOLEAN
    BY <1>r, RegFields
  <2>3. \E l \in {"again", "drain"}, r \in Regs :
           /\ pc' = [pc EXCEPT ![t] = l]
           /\ reg' = [reg EXCEPT ![t] = r] /\ Keeps(r)
    <3>0. reg = [reg EXCEPT ![t] = reg[t]]
      BY <1>t, <1>p DEF ProcTypes
    <3>1. CASE SampleBreak(t)
      BY <3>0, <3>1, <2>1, <1>r DEF SampleBreak, Goto
    <3>2. CASE FollowUp(t)
      BY <3>0, <3>2, <2>0, <2>f, <1>r DEF FollowUp, Goto
    <3>3. CASE RunEnds(t)
      <4>1. \/ reg' = reg /\ pc' = [pc EXCEPT ![t] = "again"]
            \/ /\ reg' = [reg EXCEPT ![t] = [reg[t] EXCEPT !.drain = TRUE]]
               /\ pc' = [pc EXCEPT ![t] = "drain"]
        BY <3>3 DEF RunEnds, Goto
      <4> QED
        BY <4>1, <3>0, <2>0, <1>r
    <3> QED
      BY <1>9, <3>1, <3>2, <3>3
  <2>4. PICK l \in {"again", "drain"}, r \in Regs :
           /\ pc' = [pc EXCEPT ![t] = l]
           /\ reg' = [reg EXCEPT ![t] = r] /\ Keeps(r)
    BY <2>3
  <2>5. /\ ProcTypes' /\ pc'[t] = l /\ reg'[t] = r
        /\ \A q \in Procs : q # t => pc'[q] = pc[q] /\ reg'[q] = reg[q]
    BY <2>4, <1>l, <1>p, OneMoves DEF ProcTypes, Body
  <2>6. SessionTypes'
    BY <1>9, <1>t DEF SampleBreak, FollowUp, RunEnds, SessionTypes
  <2>7. BodyStep(t)
    BY <1>9, <2>4, <2>5 DEF BodyStep, Body, SampleBreak, FollowUp, RunEnds
  <2> QED
    BY <2>5, <2>6, <2>7, TypeParts
<1> QED
  BY <1>1, <1>2, <1>3, <1>4, <1>5, <1>6, <1>7, <1>8, <1>9
  DEF Run, DrainPending

\* Process p goes to label and its locals become these; nobody else moves.
Puts(p, label, ts, items, input, turn, victim) ==
    /\ pc'[p] = label
    /\ reg'[p].ts = ts /\ reg'[p].items = items /\ reg'[p].input = input
    /\ reg'[p].turn = turn /\ reg'[p].victim = victim
    /\ \A q \in Procs : q # p => pc'[q] = pc[q] /\ reg'[q] = reg[q]

\* Process p goes to label and keeps its locals; nobody else moves.
Goes(p, label) ==
    /\ pc'[p] = label /\ reg' = reg
    /\ \A q \in Procs : q # p => pc'[q] = pc[q]

\* A process that goes somewhere keeps its locals and the others.
LEMMA GoesEffect ==
  ASSUME TypeOK, NEW p \in Procs, NEW label \in Labels, Goto(p, label), reg' = reg
  PROVE  ProcTypes' /\ Goes(p, label)
BY OneGoes DEF Goto, ProcTypes, Goes

\* A process that writes its locals and goes somewhere leaves the others alone.
LEMMA PutsEffect ==
  ASSUME TypeOK, NEW p \in Procs, NEW label \in Labels, NEW r \in Regs,
         Goto(p, label), reg' = [reg EXCEPT ![p] = r]
  PROVE  ProcTypes' /\ Puts(p, label, r.ts, r.items, r.input, r.turn, r.victim)
BY OneMoves DEF Goto, ProcTypes, Puts

\* The locals are given back.
LEMMA ClearsEffect ==
  ASSUME TypeOK, NEW p \in Procs, NEW label \in Labels,
         Goto(p, label), reg' = [reg EXCEPT ![p] = NoReg]
  PROVE  ProcTypes' /\ Puts(p, label, 0, {}, {}, 0, 0)
<1>1. ProcTypes' /\ Puts(p, label, NoReg.ts, NoReg.items, NoReg.input, NoReg.turn, NoReg.victim)
  BY PutsEffect, NoRegType
<1> QED
  BY <1>1 DEF NoReg

\* What the labels are.
LEMMA LabelSets ==
  /\ LoopStates \subseteq Labels /\ TaskStates \subseteq Labels
  /\ \A p \in Procs : AtRest(p) \in Labels
  /\ AfterAbort("idle") \in {"cancel", "idle"}
  /\ AfterAbort("pending") \in {"cancel", "pending"}
BY DEF Labels, LoopStates, TaskStates, AtRest, Ended, AfterAbort

\* SpawnTask gives the loop a turn number nobody has had.
LEMMA SpawnEffect ==
  ASSUME TypeOK, NEW kind \in {"regular", "compact"}, NEW input \in SUBSET Items,
         SpawnTask(kind, input)
  PROVE  /\ ProcTypes' /\ Puts(Loop, "abort", 0, {}, input, started + 1, 0)
         /\ started' \in 0..MaxTurns /\ started + 1 \in Turns /\ started' = started + 1
         /\ overlap' \in BOOLEAN
         /\ ~overlap' => ~overlap /\ \A t \in Turns : pc[t] \notin Starting
<1> DEFINE r == [NoReg EXCEPT !.turn = started + 1, !.kind = kind, !.input = input]
<1>1. started' \in 0..MaxTurns /\ started + 1 \in Turns /\ started' = started + 1
  BY TurnTasksAssumption DEF SpawnTask, TypeOK, Turns
<1>2. r \in Regs /\ r.ts = 0 /\ r.items = {} /\ r.input = input /\ r.turn = started + 1
      /\ r.victim = 0
  BY <1>1, NoRegType DEF Regs, NoReg
<1>3. reg' = [reg EXCEPT ![Loop] = r] /\ Goto(Loop, "abort")
  BY DEF SpawnTask
<1> HIDE DEF r
<1>4. ProcTypes' /\ Puts(Loop, "abort", r.ts, r.items, r.input, r.turn, r.victim)
  BY <1>2, <1>3, PutsEffect, Numbers, LabelSets DEF LoopStates
<1>5. /\ overlap' \in BOOLEAN
      /\ ~overlap' => ~overlap /\ \A t \in Turns : pc[t] \notin Starting
  BY DEF SpawnTask, LoopOverlaps, Starting, StartStates
<1> QED
  BY <1>1, <1>2, <1>4, <1>5

\* user_input: the prompt joins the turn, is refused, or gets a turn.
LEMMA SteerEffect ==
  ASSUME TypeOK, References, NEW i \in Inputs, SteerInput(i)
  PROVE  /\ TypeOK' /\ pc' = pc /\ reg' = reg
         /\ active'.on = active.on /\ active'.task = active.task
         /\ active'.ts = active.ts /\ active.on
         /\ \A s \in TurnStates :
               pend'[s] = IF s = active.ts THEN pend[s] \cup {i} ELSE pend[s]
<1> USE DEF queue, prewarm, ghosts, outside
<1>t. ProcTypes /\ SessionTypes
  BY TypeParts
<1>1. active.on /\ active.ts \in TurnStates
  BY ActiveFields DEF SteerInput, References
<1>2. active' \in Actives /\ active'.on = active.on /\ active'.task = active.task
      /\ active'.ts = active.ts
  BY <1>t DEF SteerInput, SessionTypes, Actives
<1>3. /\ pend' \in [TurnStates -> SUBSET Items]
      /\ \A s \in TurnStates :
            pend'[s] = IF s = active.ts THEN pend[s] \cup {i} ELSE pend[s]
  BY <1>1, <1>t DEF SteerInput, SessionTypes, Items
<1>4. ProcTypes' /\ SessionTypes'
  BY <1>t, <1>2, <1>3 DEF SteerInput, SessionTypes, ProcTypes, Items
<1> QED
  BY <1>1, <1>2, <1>3, <1>4, TypeParts DEF SteerInput

\* The operations that the loop begins keep the types.
LEMMA SubmitTypes ==
  ASSUME TypeOK
  PROVE  /\ \A i \in Inputs : RefuseInput(i) \/ StartInput(i) => TypeOK'
         /\ Compact \/ Interrupt => TypeOK'
         /\ \A m \in Mails : Mail(m) => TypeOK'
<1> USE DEF queue, prewarm, ghosts, outside
<1>t. ProcTypes /\ SessionTypes
  BY TypeParts
<1>1. ASSUME NEW i \in Inputs, RefuseInput(i) PROVE TypeOK'
  <2>1. ProcTypes' /\ SessionTypes'
    BY <1>1, <1>t DEF RefuseInput, SessionTypes, ProcTypes, Items
  <2> QED
    BY <2>1, TypeParts
<1>2. ASSUME NEW i \in Inputs, StartInput(i) PROVE TypeOK'
  <2>0. {i} \in SUBSET Items /\ SpawnTask("regular", {i})
    BY <1>2 DEF Items, StartInput
  <2>1. ProcTypes' /\ started' \in 0..MaxTurns /\ overlap' \in BOOLEAN
    BY <2>0, SpawnEffect
  <2>2. SessionTypes'
    BY <1>2, <1>t, <2>1 DEF StartInput, SessionTypes, Items
  <2> QED
    BY <2>1, <2>2, TypeParts
<1>3. ASSUME Compact PROVE TypeOK'
  <2>1. ProcTypes' /\ started' \in 0..MaxTurns /\ overlap' \in BOOLEAN
    BY <1>3, SpawnEffect DEF Compact
  <2>2. ops' \in [interrupt : 0..MaxInterrupts, compact : 0..MaxCompacts]
    BY <1>3, <1>t, TurnTasksAssumption DEF Compact, SessionTypes
  <2>3. SessionTypes'
    BY <1>3, <1>t, <2>1, <2>2 DEF Compact, SessionTypes
  <2> QED
    BY <2>1, <2>3, TypeParts
<1>4. ASSUME Interrupt PROVE TypeOK'
  <2>1. ProcTypes'
    BY <1>4, ClearsEffect, Numbers, LabelSets DEF Interrupt, LoopStates
  <2>2. ops' \in [interrupt : 0..MaxInterrupts, compact : 0..MaxCompacts]
    BY <1>4, <1>t, TurnTasksAssumption DEF Interrupt, SessionTypes
  <2>3. SessionTypes'
    BY <1>4, <1>t, <2>2 DEF Interrupt, LoopOverlaps, SessionTypes
  <2> QED
    BY <2>1, <2>3, TypeParts
<1>5. ASSUME NEW m \in Mails, Mail(m) PROVE TypeOK'
  <2>1. ProcTypes'
    <3>1. CASE m \in Triggers
      BY <1>5, <3>1, ClearsEffect, Numbers, LabelSets DEF Mail, LoopStates, StartStates
    <3>2. CASE m \notin Triggers
      BY <1>5, <3>2, <1>t DEF Mail, ProcTypes
    <3> QED
      BY <3>1, <3>2
  <2>2. overlap' \in BOOLEAN
    BY <1>5, <1>t DEF Mail, LoopOverlaps, SessionTypes
  <2>3. SessionTypes'
    BY <1>5, <1>t, <2>2 DEF Mail, SessionTypes, Items
  <2> QED
    BY <2>1, <2>3, TypeParts
<1> QED
  BY <1>1, <1>2, <1>3, <1>4, <1>5

\* The prewarm lock stays with a process the session knows, and what Release
\* and CancelToken do to its holder.
LEMMA GuardTypes ==
  ASSUME TypeOK
  PROVE  /\ CancelToken => guard' = guard /\ warmup' \in {"fresh", "cancelled"}
         /\ \A t \in {Resume} \cup Procs : Release(t) =>
               /\ guard' = IF guard = t THEN Nobody ELSE guard
               /\ guard' \in {Nobody, Resume} \cup Turns
               /\ warmup' \in {"fresh", "cancelled"}
BY DEF TypeOK, CancelToken, Release

\* send_event writes one turn's terminal event.
LEMMA EmitEffect ==
  ASSUME TypeOK, NEW t \in Turns, NEW event \in {"complete", "aborted"}, Emit(t, event)
  PROVE  /\ terminal' \in [Turns -> {"none", "complete", "aborted", "twice"}]
         /\ terminal'[t] = IF terminal[t] = "none" THEN event ELSE "twice"
         /\ \A u \in Turns : u # t => terminal'[u] = terminal[u]
BY DEF TypeOK, Emit

\* abort_all_tasks cancels the warm-up and leaves who holds the lock.
LEMMA AbortCancelEffect ==
  ASSUME TypeOK, AbortCancel
  PROVE  TypeOK' /\ Goes(Loop, "take") /\ guard' = guard
<1> USE DEF queue, ghosts, outside
<1>1. ProcTypes' /\ Goes(Loop, "take")
  BY GoesEffect, Numbers, LabelSets DEF AbortCancel, LoopStates
<1>2. SessionTypes' /\ guard' = guard
  BY GuardTypes, TypeParts DEF AbortCancel, SessionTypes
<1> QED
  BY <1>1, <1>2, TypeParts

\* take_active_turn.
LEMMA AbortTakeEffect ==
  ASSUME TypeOK, AbortTake
  PROVE  /\ TypeOK' /\ active' = NoTurn
         /\ active.task = 0 => Goes(Loop, AfterAbort("idle")) /\ cancelled' = cancelled
         /\ active.task # 0 =>
               /\ Puts(Loop, "grace", active.ts, reg[Loop].items, reg[Loop].input,
                       reg[Loop].turn, active.task)
               /\ cancelled' = cancelled \cup {active.task}
<1> USE DEF prewarm, ghosts, outside
<1>t. ProcTypes /\ SessionTypes
  BY TypeParts
<1>n. NoTurn \in Actives
  BY DEF NoTurn, Actives
<1>1. CASE active.task = 0
  <2>1. ProcTypes' /\ Goes(Loop, AfterAbort("idle"))
    BY <1>1, GoesEffect, Numbers, LabelSets DEF AbortTake, LoopStates, StartStates
  <2>2. SessionTypes'
    BY <1>1, <1>n, <1>t DEF AbortTake, SessionTypes
  <2> QED
    BY <1>1, <2>1, <2>2, TypeParts DEF AbortTake
<1>2. CASE active.task # 0
  <2> DEFINE r == [reg[Loop] EXCEPT !.ts = active.ts, !.victim = active.task]
  <2>0. reg[Loop] \in Regs
    BY <1>t, Numbers DEF ProcTypes
  <2>1. r \in Regs /\ r.ts = active.ts /\ r.items = reg[Loop].items
        /\ r.input = reg[Loop].input /\ r.turn = reg[Loop].turn /\ r.victim = active.task
    BY <2>0, ActiveFields DEF Regs
  <2>2. reg' = [reg EXCEPT ![Loop] = r] /\ Goto(Loop, "grace")
    BY <1>2 DEF AbortTake
  <2> HIDE DEF r
  <2>3. ProcTypes' /\ Puts(Loop, "grace", r.ts, r.items, r.input, r.turn, r.victim)
    BY <2>1, <2>2, PutsEffect, Numbers, LabelSets DEF LoopStates
  <2>4. SessionTypes'
    BY <1>2, <1>n, <1>t, ActiveFields DEF AbortTake, SessionTypes
  <2> QED
    BY <1>2, <2>1, <2>3, <2>4, TypeParts DEF AbortTake
<1> QED
  BY <1>1, <1>2 DEF AbortTake

\* handle_task_abort: the task is dead, and its locals and input are on the ground.
LEMMA AbortTaskEffect ==
  ASSUME TypeOK, References, AbortTask,
         NEW t, t = reg[Loop].victim, NEW s, s = reg[Loop].ts
  PROVE  /\ TypeOK' /\ t \in Turns /\ s \in TurnStates
         /\ pc'[Loop] = AfterAbort("pending")
         /\ pc'[t] = IF pc[t] \in Ended THEN pc[t] ELSE "dead"
         /\ reg'[Loop].ts = 0 /\ reg'[Loop].victim = 0
         /\ reg'[Loop].items = reg[Loop].items /\ reg'[Loop].input = reg[Loop].input
         /\ reg'[Loop].turn = reg[Loop].turn
         /\ reg'[t] = NoReg
         /\ \A q \in Procs : q \notin {Loop, t} => pc'[q] = pc[q] /\ reg'[q] = reg[q]
         /\ guard' = IF guard = t THEN Nobody ELSE guard
         /\ terminal'[t] = IF terminal[t] = "none" THEN "aborted" ELSE "twice"
         /\ \A u \in Turns : u # t => terminal'[u] = terminal[u]
         /\ \A x \in TurnStates : pend'[x] = IF x = s THEN {} ELSE pend[x]
<1> USE DEF ghosts, outside
<1>t. ProcTypes /\ SessionTypes
  BY TypeParts
<1>l. reg[Loop] \in Regs
  BY <1>t, Numbers DEF ProcTypes
<1>1. t \in Turns /\ s \in TurnStates /\ t \in Procs /\ t # Loop
  BY <1>l, RegFields, Numbers DEF References, AbortTask, Loop
<1> DEFINE r == [reg[Loop] EXCEPT !.ts = 0, !.victim = 0]
<1>2. r \in Regs /\ r.ts = 0 /\ r.items = reg[Loop].items
      /\ r.input = reg[Loop].input /\ r.turn = reg[Loop].turn /\ r.victim = 0
  BY <1>l DEF Regs
<1>3. reg' = [reg EXCEPT ![Loop] = r, ![t] = NoReg]
  <2>1. reg' = [reg EXCEPT ![Loop].ts = 0, ![Loop].victim = 0, ![t] = NoReg]
    BY DEF AbortTask
  <2> QED
    BY <2>1, <1>t, <1>1, Numbers DEF ProcTypes
<1> HIDE DEF r
<1>4. /\ reg' \in [Procs -> Regs] /\ reg'[Loop] = r /\ reg'[t] = NoReg
      /\ \A q \in Procs : q \notin {Loop, t} => reg'[q] = reg[q]
  BY <1>1, <1>2, <1>3, <1>t, Numbers, NoRegType DEF ProcTypes
<1>5. /\ pc' = [pc EXCEPT ![Loop] = AfterAbort("pending"),
                          ![t] = IF @ \in Ended THEN @ ELSE "dead"]
      /\ Release(t) /\ Emit(t, "aborted")
      /\ dropped' = dropped \cup Held(t) \cup pend[s]
      /\ pend' = [pend EXCEPT ![s] = {}]
      /\ UNCHANGED <<local, active, mailbox, started, cancelled, recorded, outside>>
  BY DEF AbortTask
<1>6. AfterAbort("pending") \in Labels /\ "dead" \in Labels
  BY LabelSets DEF LoopStates, StartStates, TaskStates, Ended
<1>7. /\ pc' \in [Procs -> Labels] /\ pc'[Loop] = AfterAbort("pending")
      /\ pc'[t] = IF pc[t] \in Ended THEN pc[t] ELSE "dead"
      /\ \A q \in Procs : q \notin {Loop, t} => pc'[q] = pc[q]
  BY <1>1, <1>5, <1>6, <1>t, Numbers DEF ProcTypes
<1>8. /\ pend' \in [TurnStates -> SUBSET Items] /\ pend[s] \subseteq Items
      /\ \A x \in TurnStates : pend'[x] = IF x = s THEN {} ELSE pend[x]
  BY <1>1, <1>5, <1>t DEF SessionTypes
<1>9. Held(t) \subseteq Items
  BY <1>t, <1>1, RegFields DEF Held, ProcTypes
<1>10. /\ guard' = IF guard = t THEN Nobody ELSE guard
       /\ guard' \in {Nobody, Resume} \cup Turns
       /\ warmup' \in {"fresh", "cancelled"}
  BY <1>1, <1>5, GuardTypes
<1>11. /\ terminal' \in [Turns -> {"none", "complete", "aborted", "twice"}]
       /\ terminal'[t] = IF terminal[t] = "none" THEN "aborted" ELSE "twice"
       /\ \A u \in Turns : u # t => terminal'[u] = terminal[u]
  BY <1>1, <1>5, EmitEffect
<1>12. SessionTypes'
  BY <1>t, <1>5, <1>8, <1>9, <1>10, <1>11 DEF SessionTypes
<1>13. TypeOK'
  BY <1>4, <1>7, <1>12, TypeParts DEF ProcTypes
<1> QED
  BY <1>1, <1>2, <1>4, <1>7, <1>8, <1>10, <1>11, <1>13

\* get_or_insert_with(ActiveTurn::default).
LEMMA GetOrInsertEffect ==
  ASSUME TypeOK, References
  PROVE  /\ GetOrInsert \in Actives /\ GetOrInsert.on
         /\ GetOrInsert.ts \in TurnStates
         /\ GetOrInsert.ts = IF active.on THEN active.ts ELSE FreshState
         /\ GetOrInsert.task = IF active.on THEN active.task ELSE 0
<1>1. CASE active.on
  <2>1. active \in Actives
    BY TypeParts DEF SessionTypes
  <2> QED
    BY <1>1, <2>1, ActiveFields DEF GetOrInsert, References
<1>2. CASE ~active.on
  <2>1. FreshState \in TurnStates
    BY FreshStateIsFree
  <2>2. GetOrInsert = [NoTurn EXCEPT !.on = TRUE, !.ts = FreshState]
    BY <1>2 DEF GetOrInsert
  <2> HIDE DEF FreshState
  <2> QED
    BY <1>2, <2>1, <2>2 DEF NoTurn, Actives
<1> QED
  BY <1>1, <1>2

\* The steps of a start that only look, and the barrier.
LEMMA StartLooks ==
  ASSUME TypeOK, NEW p \in Procs
  PROVE  /\ CheckPending(p) =>
               /\ TypeOK' /\ guard' = guard
               /\ Goes(p, AtRest(p)) \/ Goes(p, "reserve")
         /\ ReserveTaken(p) => TypeOK' /\ guard' = guard /\ Goes(p, AtRest(p))
         /\ CancelWarmup(p) => TypeOK' /\ guard' = guard /\ Goes(p, "barrier")
         /\ Barrier(p) => TypeOK' /\ guard' = guard /\ Goes(p, "gather")
<1> USE DEF queue, ghosts, outside
<1>l. {"reserve", "barrier", "gather", AtRest(p)} \subseteq Labels
  BY LabelSets DEF LoopStates, StartStates
<1>t. ProcTypes /\ SessionTypes
  BY TypeParts
<1>1. ASSUME CheckPending(p)
      PROVE  /\ TypeOK' /\ guard' = guard
             /\ Goes(p, AtRest(p)) \/ Goes(p, "reserve")
  <2>1. PICK l \in {AtRest(p), "reserve"} : Goto(p, l)
    BY <1>1 DEF CheckPending
  <2>2. ProcTypes' /\ Goes(p, l)
    BY <1>1, <1>l, <2>1, GoesEffect DEF CheckPending
  <2>3. SessionTypes' /\ guard' = guard
    BY <1>1, <1>t DEF CheckPending, SessionTypes, prewarm
  <2> QED
    BY <2>2, <2>3, TypeParts
<1>2. ASSUME ReserveTaken(p) PROVE TypeOK' /\ guard' = guard /\ Goes(p, AtRest(p))
  <2>2. ProcTypes' /\ Goes(p, AtRest(p))
    BY <1>2, <1>l, GoesEffect DEF ReserveTaken
  <2>3. SessionTypes' /\ guard' = guard
    BY <1>2, <1>t DEF ReserveTaken, SessionTypes, prewarm
  <2> QED
    BY <2>2, <2>3, TypeParts
<1>3. ASSUME CancelWarmup(p) PROVE TypeOK' /\ guard' = guard /\ Goes(p, "barrier")
  <2>2. ProcTypes' /\ Goes(p, "barrier")
    BY <1>3, <1>l, GoesEffect DEF CancelWarmup
  <2>3. SessionTypes' /\ guard' = guard
    BY <1>3, <1>t, GuardTypes DEF CancelWarmup, SessionTypes
  <2> QED
    BY <2>2, <2>3, TypeParts
<1>4. ASSUME Barrier(p) PROVE TypeOK' /\ guard' = guard /\ Goes(p, "gather")
  <2>2. ProcTypes' /\ Goes(p, "gather")
    BY <1>4, <1>l, GoesEffect DEF Barrier
  <2>3. SessionTypes' /\ guard' = guard
    BY <1>4, <1>t DEF Barrier, SessionTypes, prewarm
  <2> QED
    BY <2>2, <2>3, TypeParts
<1> QED
  BY <1>1, <1>2, <1>3, <1>4

\* The reservation is a turn state nobody refers to.
LEMMA ReserveEffect ==
  ASSUME TypeOK, References, NEW p \in Procs, Reserve(p)
  PROVE  /\ TypeOK' /\ Puts(p, "cancel", 0, {}, {}, started + 1, 0)
         /\ active'.on /\ active'.task = 0 /\ active'.ts = FreshState
         /\ FreshState \in TurnStates /\ \A q \in Procs : FreshState # reg[q].ts
         /\ \A s \in TurnStates : pend'[s] = IF s = FreshState THEN {} ELSE pend[s]
         /\ started + 1 \in Turns /\ started' = started + 1
         /\ ~overlap' => ~overlap /\ (p # Loop => pc[Loop] = "idle")
<1> USE DEF prewarm, ghosts
<1>t. ProcTypes /\ SessionTypes
  BY TypeParts
<1>f. FreshState \in TurnStates /\ \A q \in Procs : FreshState # reg[q].ts
  BY FreshStateIsFree
<1>g. /\ GetOrInsert \in Actives /\ GetOrInsert.on /\ GetOrInsert.task = 0
      /\ GetOrInsert.ts = FreshState
  BY GetOrInsertEffect DEF Reserve
<1>1. started' \in 0..MaxTurns /\ started + 1 \in Turns /\ started' = started + 1
  BY TurnTasksAssumption DEF Reserve, TypeOK, Turns
<1> DEFINE r == [NoReg EXCEPT !.turn = started + 1]
<1>2. r \in Regs /\ r.ts = 0 /\ r.items = {} /\ r.input = {} /\ r.turn = started + 1
      /\ r.victim = 0
  BY <1>1, NoRegType DEF Regs, NoReg
<1>3. reg' = [reg EXCEPT ![p] = r] /\ Goto(p, "cancel")
  BY DEF Reserve
<1> HIDE DEF r
<1>4. ProcTypes' /\ Puts(p, "cancel", r.ts, r.items, r.input, r.turn, r.victim)
  BY <1>2, <1>3, PutsEffect, LabelSets DEF LoopStates, StartStates
<1>5. /\ active' = GetOrInsert /\ pend' = [pend EXCEPT ![FreshState] = {}]
      /\ overlap' = (overlap \/ (p # Loop /\ pc[Loop] # "idle"))
      /\ UNCHANGED <<local, mailbox, prewarm, cancelled, ghosts, sent, ops>>
  BY DEF Reserve
<1> HIDE DEF FreshState, GetOrInsert
<1>6. /\ pend' \in [TurnStates -> SUBSET Items]
      /\ \A s \in TurnStates : pend'[s] = IF s = FreshState THEN {} ELSE pend[s]
  BY <1>5, <1>f, <1>t DEF SessionTypes
<1>7. SessionTypes'
  BY <1>t, <1>g, <1>1, <1>5, <1>6 DEF SessionTypes
<1>8. TypeOK'
  BY <1>4, <1>7, TypeParts
<1>9. ~overlap' => ~overlap /\ (p # Loop => pc[Loop] = "idle")
  BY <1>5
<1> QED
  BY <1>f, <1>g, <1>1, <1>2, <1>4, <1>5, <1>6, <1>8, <1>9

\* start_task takes what is pending ...
LEMMA GatherEffect ==
  ASSUME TypeOK, References, NEW p \in Procs, Gather(p)
  PROVE  /\ TypeOK'
         /\ Puts(p, "insert", reg[p].ts, PendingInput, reg[p].input, reg[p].turn,
                 reg[p].victim)
         /\ \A s \in TurnStates :
               pend'[s] = IF active.on /\ s = active.ts THEN {} ELSE pend[s]
         /\ mailbox' = IF Accepts THEN {} ELSE mailbox
<1> USE DEF prewarm, ghosts, outside
<1>t. ProcTypes /\ SessionTypes
  BY TypeParts
<1>0. /\ PendingInput \subseteq Items
      /\ pend' \in [TurnStates -> SUBSET Items] /\ mailbox' \subseteq mailbox
      /\ \A s \in TurnStates :
            pend'[s] = IF active.on /\ s = active.ts THEN {} ELSE pend[s]
      /\ mailbox' = IF Accepts THEN {} ELSE mailbox
  BY TakePendingEffect DEF Gather, References
<1> DEFINE r == [reg[p] EXCEPT !.items = PendingInput]
<1>1. reg[p] \in Regs
  BY <1>t DEF ProcTypes
<1>2. r \in Regs /\ r.ts = reg[p].ts /\ r.items = PendingInput
      /\ r.input = reg[p].input /\ r.turn = reg[p].turn /\ r.victim = reg[p].victim
  BY <1>0, <1>1 DEF Regs
<1>3. reg' = [reg EXCEPT ![p] = r] /\ Goto(p, "insert")
  BY DEF Gather
<1> HIDE DEF r
<1>4. ProcTypes' /\ Puts(p, "insert", r.ts, r.items, r.input, r.turn, r.victim)
  BY <1>2, <1>3, PutsEffect, LabelSets DEF LoopStates, StartStates
<1>5. SessionTypes'
  BY <1>0, <1>t DEF Gather, SessionTypes
<1> QED
  BY <1>0, <1>2, <1>4, <1>5, TypeParts

\* ... and puts it into the active turn, which it makes if there is none.
LEMMA InsertEffect ==
  ASSUME TypeOK, References, NEW p \in Procs, Insert(p)
  PROVE  /\ TypeOK'
         /\ Puts(p, "publish", active'.ts, {}, reg[p].input, reg[p].turn, reg[p].victim)
         /\ active'.on /\ active'.ts \in TurnStates
         /\ active.on => active' = active
         /\ ~active.on => /\ active'.task = 0 /\ active'.ts = FreshState
                          /\ \A q \in Procs : FreshState # reg[q].ts
         /\ \A s \in TurnStates :
               pend'[s] = IF s = active'.ts
                          THEN reg[p].items \cup IF active.on THEN pend[s] ELSE {}
                          ELSE pend[s]
<1> USE DEF prewarm, ghosts, outside
<1>t. ProcTypes /\ SessionTypes
  BY TypeParts
<1>f. \A q \in Procs : FreshState # reg[q].ts
  BY FreshStateIsFree
<1>g. /\ GetOrInsert \in Actives /\ GetOrInsert.on /\ GetOrInsert.ts \in TurnStates
      /\ ~active.on => GetOrInsert.ts = FreshState /\ GetOrInsert.task = 0
      /\ active.on => GetOrInsert = active
  BY GetOrInsertEffect DEF GetOrInsert
<1>1. reg[p] \in Regs /\ reg[p].items \subseteq Items
  BY <1>t, RegFields DEF ProcTypes
<1>2. /\ active' = GetOrInsert
      /\ pend' = [pend EXCEPT ![active'.ts] = reg[p].items \cup IF active.on THEN @ ELSE {}]
      /\ reg' = [reg EXCEPT ![p].ts = active'.ts, ![p].items = {}]
      /\ Goto(p, "publish")
      /\ UNCHANGED <<local, mailbox, prewarm, started, cancelled, ghosts, outside>>
  BY DEF Insert
<1> HIDE DEF FreshState, GetOrInsert
<1> DEFINE r == [reg[p] EXCEPT !.ts = active'.ts, !.items = {}]
<1>3. r \in Regs /\ r.ts = active'.ts /\ r.items = {}
      /\ r.input = reg[p].input /\ r.turn = reg[p].turn /\ r.victim = reg[p].victim
  BY <1>1, <1>2, <1>g DEF Regs
<1>4. reg' = [reg EXCEPT ![p] = r]
  BY <1>2
<1> HIDE DEF r
<1>5. ProcTypes' /\ Puts(p, "publish", r.ts, r.items, r.input, r.turn, r.victim)
  BY <1>2, <1>3, <1>4, PutsEffect, LabelSets DEF LoopStates, StartStates
<1>6. /\ pend' \in [TurnStates -> SUBSET Items]
      /\ \A s \in TurnStates :
            pend'[s] = IF s = active'.ts
                       THEN reg[p].items \cup IF active.on THEN pend[s] ELSE {}
                       ELSE pend[s]
  BY <1>1, <1>2, <1>g, <1>t DEF SessionTypes
<1>7. SessionTypes'
  BY <1>2, <1>6, <1>g, <1>t DEF SessionTypes
<1>8. TypeOK'
  BY <1>5, <1>7, TypeParts
<1> QED
  BY <1>2, <1>3, <1>5, <1>6, <1>8, <1>f, <1>g

\* The task is stored in the session and runs with the input it was started for.
LEMMA PublishEffect ==
  ASSUME TypeOK, References, NEW p \in Procs, Publish(p), NEW t, t = reg[p].turn
  PROVE  /\ TypeOK' /\ t \in Turns
         /\ active'.on /\ active'.task = t /\ active'.ts \in TurnStates
         /\ active'.ts = IF active.on THEN active.ts ELSE FreshState
         /\ \A q \in Procs :
               pc'[q] = IF q = p THEN AtRest(p) ELSE IF q = t THEN "run"
                        ELSE IF q = active.task /\ q # 0 /\ pc[q] \notin Ended THEN "dead"
                        ELSE pc[q]
         /\ reg'[p] = NoReg
         /\ t # p => /\ reg'[t].ts = 0 /\ reg'[t].items = {} /\ reg'[t].turn = 0
                     /\ reg'[t].input = reg[p].input /\ reg'[t].victim = 0
         /\ \A q \in Procs : q \notin {p, t} => reg'[q] = reg[q]
         /\ guard' = IF guard = active.task THEN Nobody ELSE guard
         /\ \A s \in TurnStates :
               pend'[s] = IF s = active'.ts /\ ~active.on THEN {} ELSE pend[s]
<1> USE DEF ghosts, outside
<1>t. ProcTypes /\ SessionTypes
  BY TypeParts
<1>g. /\ GetOrInsert \in Actives /\ GetOrInsert.on /\ GetOrInsert.ts \in TurnStates
      /\ GetOrInsert.ts = IF active.on THEN active.ts ELSE FreshState
  BY GetOrInsertEffect
<1>1. reg[p] \in Regs /\ t \in Turns /\ t \in Procs
  BY <1>t, RegFields, Numbers DEF ProcTypes, Publish, References, Starting
<1>o. active.task \in Procs
  BY ActiveFields, Numbers DEF Loop
<1> DEFINE r == [NoReg EXCEPT !.input = reg[p].input, !.kind = reg[p].kind]
<1>2. r \in Regs /\ r.ts = 0 /\ r.items = {} /\ r.turn = 0
      /\ r.input = reg[p].input /\ r.victim = 0
  <2>1. reg[p].input \in SUBSET Items /\ reg[p].kind \in {"regular", "compact"}
    BY <1>1, RegFields
  <2> QED
    BY <2>1, NoRegType DEF NoReg, Regs
<1>3. /\ active' = [GetOrInsert EXCEPT !.task = t]
      /\ pend' = [pend EXCEPT ![active'.ts] = IF active.on THEN @ ELSE {}]
      /\ pc' = [pc EXCEPT ![active.task] = IF active.task # 0 /\ @ \notin Ended
                                           THEN "dead" ELSE @,
                          ![t] = "run", ![p] = AtRest(p)]
      /\ reg' = [reg EXCEPT ![t] = r, ![p] = NoReg]
      /\ Release(active.task)
      /\ UNCHANGED <<local, mailbox, started, cancelled, ghosts, outside>>
  BY DEF Publish
<1> HIDE DEF r, FreshState, GetOrInsert
<1>4. /\ active' \in Actives /\ active'.on /\ active'.task = t
      /\ active'.ts = GetOrInsert.ts
  BY <1>1, <1>3, <1>g DEF Actives
<1>5. /\ pend' \in [TurnStates -> SUBSET Items]
      /\ \A s \in TurnStates :
            pend'[s] = IF s = active'.ts /\ ~active.on THEN {} ELSE pend[s]
  BY <1>3, <1>4, <1>g, <1>t DEF SessionTypes
<1>6. /\ reg' \in [Procs -> Regs] /\ reg'[p] = NoReg /\ (t # p => reg'[t] = r)
      /\ \A q \in Procs : q \notin {p, t} => reg'[q] = reg[q]
  BY <1>1, <1>2, <1>3, <1>t, NoRegType DEF ProcTypes
<1>7. \A q \in Procs :
         pc'[q] = IF q = p THEN AtRest(p) ELSE IF q = t THEN "run"
                  ELSE IF q = active.task /\ q # 0 /\ pc[q] \notin Ended THEN "dead"
                  ELSE pc[q]
  BY <1>1, <1>3, <1>o, <1>t DEF ProcTypes
<1>8. pc' \in [Procs -> Labels]
  <2>1. AtRest(p) \in Labels /\ "run" \in Labels /\ "dead" \in Labels
    BY LabelSets DEF TaskStates, Ended
  <2> QED
    BY <1>3, <1>t, <1>o, <2>1 DEF ProcTypes
<1>9. /\ guard' = IF guard = active.task THEN Nobody ELSE guard
      /\ guard' \in {Nobody, Resume} \cup Turns
      /\ warmup' \in {"fresh", "cancelled"}
  BY <1>o, <1>3, GuardTypes
<1>10. SessionTypes'
  BY <1>t, <1>3, <1>4, <1>5, <1>9 DEF SessionTypes
<1>11. TypeOK'
  BY <1>6, <1>8, <1>10, TypeParts DEF ProcTypes
<1> QED
  BY <1>1, <1>2, <1>4, <1>5, <1>6, <1>7, <1>9, <1>11, <1>g

\* The teardown takes the prewarm lock and looks whether the turn was cancelled.
LEMMA TeardownEffect ==
  ASSUME TypeOK, NEW t \in Turns
  PROVE  /\ AcquireGuard(t) =>
               TypeOK' /\ Goes(t, "check") /\ guard' = IF local THEN t ELSE guard
         /\ CheckCancelled(t) =>
               /\ TypeOK'
               /\ \/ /\ t \in cancelled /\ Puts(t, "done", 0, {}, {}, 0, 0)
                     /\ guard' = IF guard = t THEN Nobody ELSE guard
                  \/ t \notin cancelled /\ Goes(t, "finish") /\ guard' = guard
         /\ WarmupCancelled(t) \/ WarmupFinished(t) =>
               /\ TypeOK' /\ Goes(t, "clear")
               /\ guard' = IF guard = t THEN Nobody ELSE guard
<1> USE DEF queue, ghosts, outside
<1>l. {"check", "done", "finish", "clear"} \subseteq Labels
  BY LabelSets DEF TaskStates, Ended
<1>t. ProcTypes /\ SessionTypes
  BY TypeParts
<1>p. t \in Procs
  BY Numbers
<1>1. ASSUME AcquireGuard(t)
      PROVE  TypeOK' /\ Goes(t, "check") /\ guard' = IF local THEN t ELSE guard
  <2>1. ProcTypes' /\ Goes(t, "check")
    BY <1>1, <1>l, <1>p, GoesEffect DEF AcquireGuard
  <2>2. SessionTypes' /\ guard' = IF local THEN t ELSE guard
    BY <1>1, <1>t DEF AcquireGuard, SessionTypes
  <2> QED
    BY <2>1, <2>2, TypeParts
<1>2. ASSUME CheckCancelled(t)
      PROVE  /\ TypeOK'
             /\ \/ /\ t \in cancelled /\ Puts(t, "done", 0, {}, {}, 0, 0)
                   /\ guard' = IF guard = t THEN Nobody ELSE guard
                \/ t \notin cancelled /\ Goes(t, "finish") /\ guard' = guard
  <2>1. CASE t \in cancelled
    <3>1. ProcTypes' /\ Puts(t, "done", 0, {}, {}, 0, 0)
      BY <1>2, <2>1, <1>l, <1>p, ClearsEffect DEF CheckCancelled
    <3>2. SessionTypes' /\ guard' = IF guard = t THEN Nobody ELSE guard
      BY <1>2, <2>1, <1>t, <1>p, GuardTypes DEF CheckCancelled, SessionTypes
    <3> QED
      BY <2>1, <3>1, <3>2, TypeParts
  <2>2. CASE t \notin cancelled
    <3>1. ProcTypes' /\ Goes(t, "finish")
      BY <1>2, <2>2, <1>l, <1>p, GoesEffect DEF CheckCancelled
    <3>2. SessionTypes' /\ guard' = guard
      BY <1>2, <2>2, <1>t DEF CheckCancelled, SessionTypes, prewarm
    <3> QED
      BY <2>2, <3>1, <3>2, TypeParts
  <2> QED
    BY <2>1, <2>2
<1>3. ASSUME WarmupCancelled(t) \/ WarmupFinished(t)
      PROVE  /\ TypeOK' /\ Goes(t, "clear")
             /\ guard' = IF guard = t THEN Nobody ELSE guard
  <2>1. ProcTypes' /\ Goes(t, "clear")
    BY <1>3, <1>l, <1>p, GoesEffect DEF WarmupCancelled, WarmupFinished
  <2>2. SessionTypes' /\ guard' = IF guard = t THEN Nobody ELSE guard
    BY <1>3, <1>t, <1>p, GuardTypes DEF WarmupCancelled, WarmupFinished, SessionTypes
  <2> QED
    BY <2>1, <2>2, TypeParts
<1> QED
  BY <1>1, <1>2, <1>3

\* on_task_finished takes the task out of the session, unless somebody has.
LEMMA DetachEffect ==
  ASSUME TypeOK, References, NEW t \in Turns, Detach(t)
  PROVE  /\ TypeOK'
         /\ active.task = 0 =>
               /\ Puts(t, "done", 0, {}, {}, 0, 0) /\ active' = active
               /\ guard' = IF guard = t THEN Nobody ELSE guard
         /\ active.task # 0 =>
               /\ Puts(t, "flush", active.ts, reg[t].items, reg[t].input, reg[t].turn,
                       reg[t].victim)
               /\ active.on /\ active'.on /\ active'.task = 0 /\ active'.ts = active.ts
               /\ guard' = guard
<1> USE DEF ghosts, outside
<1>l. {"done", "flush"} \subseteq Labels
  BY LabelSets DEF TaskStates, Ended
<1>t. ProcTypes /\ SessionTypes
  BY TypeParts
<1>p. t \in Procs
  BY Numbers
<1>1. CASE active.task = 0
  <2>1. ProcTypes' /\ Puts(t, "done", 0, {}, {}, 0, 0)
    BY <1>1, <1>l, <1>p, ClearsEffect DEF Detach
  <2>2. /\ SessionTypes' /\ guard' = IF guard = t THEN Nobody ELSE guard
        /\ active' = active
    BY <1>1, <1>t, <1>p, GuardTypes DEF Detach, SessionTypes
  <2> QED
    BY <1>1, <2>1, <2>2, TypeParts
<1>2. CASE active.task # 0
  <2> DEFINE r == [reg[t] EXCEPT !.ts = active.ts]
  <2>0. reg[t] \in Regs
    BY <1>t, <1>p DEF ProcTypes
  <2>1. r \in Regs /\ r.ts = active.ts /\ r.items = reg[t].items
        /\ r.input = reg[t].input /\ r.turn = reg[t].turn /\ r.victim = reg[t].victim
    BY <2>0, ActiveFields DEF Regs
  <2>2. /\ reg' = [reg EXCEPT ![t] = r] /\ Goto(t, "flush")
        /\ active' = [active EXCEPT !.task = 0] /\ UNCHANGED prewarm
        /\ UNCHANGED <<local, pend, mailbox, started, cancelled, ghosts, outside>>
    BY <1>2 DEF Detach
  <2> HIDE DEF r
  <2>3. ProcTypes' /\ Puts(t, "flush", r.ts, r.items, r.input, r.turn, r.victim)
    BY <2>1, <2>2, <1>l, <1>p, PutsEffect
  <2>4. /\ active' \in Actives /\ active'.on = active.on /\ active'.task = 0
        /\ active'.ts = active.ts
    BY <2>2, <1>t DEF SessionTypes, Actives
  <2>5. SessionTypes' /\ guard' = guard
    BY <2>2, <2>4, <1>t DEF SessionTypes, prewarm
  <2> QED
    BY <1>2, <2>1, <2>3, <2>4, <2>5, TypeParts DEF References
<1> QED
  BY <1>1, <1>2

\* What is left is recorded and the turn completed.
LEMMA CompleteEffect ==
  ASSUME TypeOK, References, NEW t \in Turns, Complete(t)
  PROVE  /\ TypeOK' /\ Goes(t, "warm") /\ guard' = guard
         /\ reg[t].ts \in TurnStates
         /\ \A s \in TurnStates : pend'[s] = IF s = reg[t].ts THEN {} ELSE pend[s]
         /\ terminal'[t] = IF terminal[t] = "none" THEN "complete" ELSE "twice"
         /\ \A u \in Turns : u # t => terminal'[u] = terminal[u]
<1> USE DEF outside
<1>t. ProcTypes /\ SessionTypes
  BY TypeParts
<1>p. t \in Procs
  BY Numbers
<1>1. ProcTypes' /\ Goes(t, "warm")
  BY <1>p, GoesEffect, LabelSets DEF Complete, TaskStates
<1>2. reg[t].ts \in TurnStates
  <2>1. reg[t] \in Regs
    BY <1>t, <1>p DEF ProcTypes
  <2> QED
    BY <2>1, RegFields DEF Complete, References
<1>3. /\ pend' \in [TurnStates -> SUBSET Items] /\ pend[reg[t].ts] \subseteq Items
      /\ \A s \in TurnStates : pend'[s] = IF s = reg[t].ts THEN {} ELSE pend[s]
  BY <1>2, <1>t DEF Complete, SessionTypes
<1>4. /\ terminal' \in [Turns -> {"none", "complete", "aborted", "twice"}]
      /\ terminal'[t] = IF terminal[t] = "none" THEN "complete" ELSE "twice"
      /\ \A u \in Turns : u # t => terminal'[u] = terminal[u]
  BY EmitEffect DEF Complete
<1>5. SessionTypes' /\ guard' = guard
  BY <1>t, <1>3, <1>4 DEF Complete, SessionTypes, prewarm
<1> QED
  BY <1>1, <1>2, <1>3, <1>4, <1>5, TypeParts

\* clear_active_turn.
LEMMA ClearEffect ==
  ASSUME TypeOK, NEW t \in Turns, ClearActive(t)
  PROVE  /\ TypeOK'
         /\ \/ /\ active.on /\ active.task = 0 /\ active.ts = reg[t].ts
               /\ active' = NoTurn /\ Puts(t, "pending", 0, {}, {}, 0, 0)
            \/ /\ ~(active.on /\ active.task = 0 /\ active.ts = reg[t].ts)
               /\ active' = active /\ Puts(t, "done", 0, {}, {}, 0, 0)
<1> USE DEF prewarm, ghosts, outside
<1>t. ProcTypes /\ SessionTypes
  BY TypeParts
<1>p. t \in Procs
  BY Numbers
<1>n. NoTurn \in Actives
  BY DEF NoTurn, Actives
<1>l. {"done", "pending"} \subseteq Labels
  BY LabelSets DEF TaskStates, Ended, StartStates
<1>1. CASE active.on /\ active.task = 0 /\ active.ts = reg[t].ts
  <2>1. active' = NoTurn /\ Goto(t, "pending") /\ reg' = [reg EXCEPT ![t] = NoReg]
    BY <1>1 DEF ClearActive
  <2>2. ProcTypes' /\ Puts(t, "pending", 0, {}, {}, 0, 0)
    BY <2>1, <1>l, <1>p, ClearsEffect
  <2>3. SessionTypes'
    BY <2>1, <1>n, <1>t DEF ClearActive, SessionTypes
  <2> QED
    BY <1>1, <2>1, <2>2, <2>3, TypeParts
<1>2. CASE ~(active.on /\ active.task = 0 /\ active.ts = reg[t].ts)
  <2>1. active' = active /\ Goto(t, "done") /\ reg' = [reg EXCEPT ![t] = NoReg]
    BY <1>2 DEF ClearActive
  <2>2. ProcTypes' /\ Puts(t, "done", 0, {}, {}, 0, 0)
    BY <2>1, <1>l, <1>p, ClearsEffect
  <2>3. SessionTypes'
    BY <2>1, <1>t DEF ClearActive, SessionTypes
  <2> QED
    BY <1>2, <2>1, <2>2, <2>3, TypeParts
<1> QED
  BY <1>1, <1>2

\* The background warm-up of a resumed session ends: the lock is free.
LEMMA ResumeWarmupEffect ==
  ASSUME TypeOK, NEW token, ResumeWarmupEnds(token)
  PROVE  TypeOK' /\ guard' = Nobody /\ pc' = pc /\ reg' = reg
<1> USE DEF queue, ghosts, outside
<1>1. ProcTypes' /\ SessionTypes' /\ guard' = Nobody
  BY TypeParts, GuardTypes DEF ResumeWarmupEnds, ProcTypes, SessionTypes
<1> QED
  BY <1>1, TypeParts DEF ResumeWarmupEnds

-----------------------------------------------------------------------------
(* References, and with them the types, hold in every behaviour.               *)

\* The operations of the loop keep types and references.
LEMMA SubmissionReferences ==
  ASSUME TypeOK, References, Submission
  PROVE  TypeOK' /\ References'
<1> USE DEF queue, prewarm, ghosts, outside
<1>1. ASSUME NEW i \in Inputs, SteerInput(i) PROVE TypeOK' /\ References'
  BY <1>1, SteerEffect DEF References
<1>2. ASSUME NEW i \in Inputs, RefuseInput(i) PROVE TypeOK' /\ References'
  BY <1>2, SubmitTypes DEF References, RefuseInput
<1>3. ASSUME NEW i \in Inputs, StartInput(i) PROVE TypeOK' /\ References'
  <2>1. TypeOK' /\ active' = active
    BY <1>3, SubmitTypes DEF StartInput
  <2>2. Puts(Loop, "abort", 0, {}, {i}, started + 1, 0)
    BY <1>3, SpawnEffect DEF StartInput, Items
  <2> QED
    BY <2>1, <2>2, Numbers DEF References, Puts, Starting
<1>4. CASE Compact
  <2>1. TypeOK' /\ active' = active
    BY <1>4, SubmitTypes DEF Compact
  <2>2. Puts(Loop, "abort", 0, {}, {}, started + 1, 0)
    BY <1>4, SpawnEffect DEF Compact
  <2> QED
    BY <2>1, <2>2, Numbers DEF References, Puts, Starting
<1>5. CASE Interrupt
  <2>1. TypeOK' /\ active' = active
    BY <1>5, SubmitTypes DEF Interrupt
  <2>2. Puts(Loop, "abort", 0, {}, {}, 0, 0)
    BY <1>5, ClearsEffect, Numbers, LabelSets DEF Interrupt, LoopStates
  <2> QED
    BY <2>1, <2>2, Numbers DEF References, Puts, Starting
<1>6. ASSUME NEW m \in Mails, Mail(m) PROVE TypeOK' /\ References'
  <2>1. TypeOK' /\ active' = active
    BY <1>6, SubmitTypes DEF Mail
  <2>2. CASE m \in Triggers
    <3>1. Puts(Loop, "pending", 0, {}, {}, 0, 0)
      BY <1>6, <2>2, ClearsEffect, Numbers, LabelSets DEF Mail, LoopStates, StartStates
    <3> QED
      BY <2>1, <3>1, Numbers DEF References, Puts, Starting
  <2>3. CASE m \notin Triggers
    BY <1>6, <2>1, <2>3 DEF References, Mail
  <2> QED
    BY <2>2, <2>3
<1> QED
  BY <1>1, <1>2, <1>3, <1>4, <1>5, <1>6 DEF Submission

\* abort_all_tasks keeps types and references.
LEMMA AbortReferences ==
  ASSUME TypeOK, References, Abort
  PROVE  TypeOK' /\ References'
<1> USE DEF queue, prewarm, ghosts, outside
<1>1. CASE AbortCancel
  BY <1>1, AbortCancelEffect, Numbers DEF AbortCancel, References, Goes, Starting
<1>2. CASE AbortTake
  <2>1. TypeOK' /\ active' = NoTurn
    BY <1>2, AbortTakeEffect
  <2>2. CASE active.task = 0
    <3>1. Goes(Loop, AfterAbort("idle"))
      BY <1>2, <2>2, AbortTakeEffect
    <3> QED
      BY <2>1, <3>1, Numbers DEF References, Goes, Starting, AfterAbort, NoTurn
  <2>3. CASE active.task # 0
    <3>1. Puts(Loop, "grace", active.ts, reg[Loop].items, reg[Loop].input,
               reg[Loop].turn, active.task)
      BY <1>2, <2>3, AbortTakeEffect
    <3> QED
      BY <2>1, <2>3, <3>1, Numbers DEF References, Puts, Starting, NoTurn
  <2> QED
    BY <2>2, <2>3
<1>3. CASE AbortTask
  <2> DEFINE t == reg[Loop].victim
  <2>1. /\ TypeOK' /\ t \in Turns
        /\ pc'[Loop] = AfterAbort("pending")
        /\ pc'[t] = IF pc[t] \in Ended THEN pc[t] ELSE "dead"
        /\ reg'[Loop].turn = reg[Loop].turn
        /\ \A q \in Procs : q \notin {Loop, t} => pc'[q] = pc[q] /\ reg'[q] = reg[q]
    BY <1>3, AbortTaskEffect
  <2>2. active' = active
    BY <1>3 DEF AbortTask
  <2>3. pc'[t] \in Ended
    BY <2>1 DEF Ended
  <2> HIDE DEF t
  <2>4. \A q \in Turns : pc'[q] = "flush" => q # t
    BY <2>3 DEF Ended
  <2>5. \A q \in Procs : pc'[q] \in Starting => q # t
    BY <2>3 DEF Ended, Starting
  <2>6. pc'[Loop] # "grace" /\ (pc'[Loop] \in Starting => reg'[Loop].turn # 0)
    BY <2>1 DEF AfterAbort, Starting
  <2> QED
    BY <2>1, <2>2, <2>4, <2>5, <2>6, Numbers DEF References
<1> QED
  BY <1>1, <1>2, <1>3 DEF Abort

\* maybe_start_turn_for_pending_work and start_task keep types and references.
LEMMA StartReferences ==
  ASSUME TypeOK, References, NEW p \in Procs, Start(p)
  PROVE  TypeOK' /\ References'
<1> USE DEF queue, prewarm, ghosts, outside
<1>1. CASE CheckPending(p)
  BY <1>1, StartLooks, Numbers DEF CheckPending, References, Goes, Starting, AtRest
<1>2. CASE ReserveTaken(p)
  BY <1>2, StartLooks, Numbers DEF ReserveTaken, References, Goes, Starting, AtRest
<1>3. CASE Reserve(p)
  <2>1. /\ TypeOK' /\ Puts(p, "cancel", 0, {}, {}, started + 1, 0)
        /\ active'.on /\ active'.task = 0 /\ active'.ts \in TurnStates
        /\ started + 1 \in Turns
    BY <1>3, ReserveEffect
  <2> QED
    BY <2>1, Numbers DEF References, Puts, Starting
<1>4. CASE CancelWarmup(p)
  BY <1>4, StartLooks, Numbers DEF CancelWarmup, References, Goes, Starting
<1>5. CASE Barrier(p)
  BY <1>5, StartLooks, Numbers DEF Barrier, References, Goes, Starting
<1>6. CASE Gather(p)
  <2>1. /\ TypeOK' /\ active' = active /\ pc[p] = "gather"
        /\ Puts(p, "insert", reg[p].ts, PendingInput, reg[p].input, reg[p].turn,
                reg[p].victim)
    BY <1>6, GatherEffect DEF Gather
  <2> QED
    BY <2>1, Numbers DEF References, Puts, Starting
<1>7. CASE Insert(p)
  <2>1. /\ TypeOK' /\ active'.on /\ active'.ts \in TurnStates /\ pc[p] = "insert"
        /\ Puts(p, "publish", active'.ts, {}, reg[p].input, reg[p].turn, reg[p].victim)
    BY <1>7, InsertEffect DEF Insert
  <2> QED
    BY <2>1, Numbers DEF References, Puts, Starting
<1>8. CASE Publish(p)
  <2> DEFINE t == reg[p].turn
  <2>1. /\ TypeOK' /\ t \in Turns
        /\ active'.on /\ active'.ts \in TurnStates
        /\ \A q \in Procs :
              pc'[q] = IF q = p THEN AtRest(p) ELSE IF q = t THEN "run"
                       ELSE IF q = active.task /\ q # 0 /\ pc[q] \notin Ended THEN "dead"
                       ELSE pc[q]
        /\ \A q \in Procs : q \notin {p, t} => reg'[q] = reg[q]
    BY <1>8, PublishEffect
  <2> HIDE DEF t
  <2>2. AtRest(p) \notin Starting \cup {"grace", "flush"}
    BY DEF AtRest, Starting
  <2>3. {"run", "dead"} \cap (Starting \cup {"grace", "flush"}) = {}
    BY DEF Starting
  <2>4. \A q \in Procs : pc'[q] \in Starting \cup {"grace", "flush"} =>
           pc'[q] = pc[q] /\ reg'[q] = reg[q]
    BY <2>1, <2>2, <2>3
  <2> QED
    BY <2>1, <2>4, Numbers DEF References
<1> QED
  BY <1>1, <1>2, <1>3, <1>4, <1>5, <1>6, <1>7, <1>8 DEF Start

\* on_task_finished keeps types and references.
LEMMA FinishReferences ==
  ASSUME TypeOK, References, NEW t \in Turns, Finish(t) \/ WarmupFinished(t)
  PROVE  TypeOK' /\ References'
<1> USE DEF queue, prewarm, ghosts, outside
<1>1. CASE AcquireGuard(t)
  BY <1>1, TeardownEffect, Numbers DEF AcquireGuard, References, Goes, Starting
<1>2. CASE CheckCancelled(t)
  <2>1. TypeOK' /\ active' = active
    BY <1>2, TeardownEffect DEF CheckCancelled
  <2>2. Puts(t, "done", 0, {}, {}, 0, 0) \/ Goes(t, "finish")
    BY <1>2, TeardownEffect
  <2> QED
    BY <2>1, <2>2, Numbers DEF References, Goes, Puts, Starting
<1>3. CASE Detach(t)
  BY <1>3, DetachEffect, Numbers DEF References, Puts, Starting
<1>4. CASE Complete(t)
  BY <1>4, CompleteEffect, Numbers DEF Complete, References, Goes, Starting
<1>5. CASE WarmupCancelled(t) \/ WarmupFinished(t)
  BY <1>5, TeardownEffect, Numbers
  DEF WarmupCancelled, WarmupFinished, References, Goes, Starting
<1>6. CASE ClearActive(t)
  <2>1. TypeOK' /\ (active' = NoTurn \/ active' = active)
    BY <1>6, ClearEffect
  <2>2. Puts(t, "pending", 0, {}, {}, 0, 0) \/ Puts(t, "done", 0, {}, {}, 0, 0)
    BY <1>6, ClearEffect
  <2> QED
    BY <2>1, <2>2, Numbers DEF References, Puts, Starting, NoTurn
<1> QED
  BY <1>1, <1>2, <1>3, <1>4, <1>5, <1>6 DEF Finish

\* Types and references are inductive, whether starts overlap or not.
LEMMA NextReferences ==
  ASSUME TypeOK, References, [Next]_vars
  PROVE  TypeOK' /\ References'
<1>1. ASSUME NEW t \in Turns, Run(t) \/ Answer(t) \/ ToolCall(t) \/ SampleEnd(t)
      PROVE  TypeOK' /\ References'
  BY <1>1, RunEffect, Numbers DEF BodyStep, References, Body, Starting
<1>2. ASSUME NEW token, ResumeWarmupEnds(token) PROVE TypeOK' /\ References'
  BY <1>2, ResumeWarmupEffect DEF References, ResumeWarmupEnds, queue
<1>3. CASE UNCHANGED vars
  BY <1>3 DEF vars, queue, prewarm, ghosts, outside, TypeOK, References
<1> QED
  BY <1>1, <1>2, <1>3, SubmissionReferences, AbortReferences, StartReferences,
     FinishReferences DEF Next

-----------------------------------------------------------------------------
(* Core is kept as long as the loop does not overlap the start of a turn.      *)

\* By any step in the body of a task.
LEMMA BodyCore ==
  ASSUME TypeOK, References, Core, NEW t \in Turns, BodyStep(t)
  PROVE  Core'
<1> USE DEF Control
<1>0. t \in Procs /\ t # Loop /\ Loop \in Procs /\ pc[t] \in Body /\ pc'[t] \in Body
  BY Numbers DEF BodyStep
<1>1. PlacesOfControl'
  BY <1>0, Numbers DEF Core, PlacesOfControl, BodyStep, Body, TaskStates
<1>2. Locals'
  <2>1. reg[t].ts = 0 /\ reg[t].turn = 0
    BY <1>0 DEF Core, Locals, Body, Leaving, Carrying, Starting
  <2>2. \A p \in Procs :
          /\ pc'[p] \notin {"fold", "insert"} => reg'[p].items = {}
          /\ reg'[p].ts # 0 <=> pc'[p] \in {"grace", "publish"} \cup Leaving
    BY <1>0, <2>1 DEF Core, Locals, BodyStep, Body, Leaving
  <2>3. \A p \in Procs :
          /\ reg'[p].turn # 0 => pc'[p] \in Carrying
          /\ \A u \in Turns : reg'[p].turn = u => pc'[u] = "unused" /\ u <= started'
    BY <1>0, <2>1, Numbers DEF Core, Locals, BodyStep, Body
  <2>4. /\ \A u \in Turns : reg'[u].input # {} => pc'[u] = "run"
        /\ reg'[Loop].input # {} => reg'[Loop].turn # 0
        /\ reg'[Loop].victim # 0 <=> pc'[Loop] = "grace"
    BY <1>0, Numbers DEF Core, Locals, BodyStep
  <2> QED
    BY <2>2, <2>3, <2>4 DEF Locals
<1>3. TaskInSession'
  <2>1. /\ ~active.on => active' = active /\ active = NoTurn
        /\ active'.on = active.on /\ active'.task = active.task
        /\ active'.ts = active.ts /\ reg'[Loop] = reg[Loop] /\ cancelled' = cancelled
        /\ \A q \in Procs : reg'[q].ts = reg[q].ts
        /\ \A q \in Procs : q # t => pc'[q] = pc[q]
    BY <1>0 DEF Core, TaskInSession, BodyStep
  <2> QED
    BY <1>0, <2>1, Numbers DEF Core, TaskInSession
<1>4. Reservation'
  BY <1>0, Numbers DEF Core, Reservation, BodyStep, Body, Starting, Leaving
<1>5. Flushed'
  BY <1>0, Numbers DEF Core, Flushed, BodyStep, Body
<1>6. GuardHeld'
  BY <1>0, Numbers DEF Core, GuardHeld, BodyStep, Body
<1>7. Terminals'
  BY <1>0, Numbers DEF Core, Terminals, BodyStep, Body, Starting, Ended
<1> QED
  BY <1>1, <1>2, <1>3, <1>4, <1>5, <1>6, <1>7 DEF Core

\* Where the loop and the tails can be, as the steps below need it.
LEMMA Kinds ==
  ASSUME TypeOK
  PROVE  /\ active.task \in {0} \cup Turns /\ active.ts \in {0} \cup TurnStates
         /\ active.on \in BOOLEAN
         /\ \A p \in Procs : /\ reg[p].ts \in {0} \cup TurnStates
                              /\ reg[p].turn \in {0} \cup Turns
                              /\ reg[p].victim \in {0} \cup Turns
         /\ started \in Nat /\ started <= MaxTurns
BY ActiveFields, RegFields, TypeParts, TurnTasksAssumption DEF ProcTypes, SessionTypes

\* By a step that changes nothing Core speaks of.
LEMMA SameCore ==
  ASSUME Core, UNCHANGED <<local, active, pend, guard, pc, reg, started, cancelled, terminal>>
  PROVE  Core'
BY DEF Core, Control, PlacesOfControl, Locals, TaskInSession, Reservation, Flushed,
       GuardHeld, Terminals

\* By a prompt that joins the turn.
LEMMA SteerCore ==
  ASSUME TypeOK, References, Core, NEW i \in Inputs, SteerInput(i)
  PROVE  Core'
<1> USE DEF prewarm, ghosts
<1>0. /\ pc' = pc /\ reg' = reg
      /\ active'.on = active.on /\ active'.task = active.task
      /\ active'.ts = active.ts /\ active.on
      /\ \A s \in TurnStates : s # active.ts => pend'[s] = pend[s]
      /\ active.task # 0
      /\ UNCHANGED <<local, guard, started, cancelled, terminal>>
  BY SteerEffect DEF SteerInput
<1>1. PlacesOfControl'
  BY <1>0, Numbers
  DEF Core, Control, PlacesOfControl, LoopStates, StartStates, TaskStates, Ended
<1>2. Locals'
  BY <1>0, Numbers
  DEF Core, Control, Locals, Leaving, Carrying, Starting
<1>3. TaskInSession'
  BY <1>0, Numbers
  DEF Core, Control, TaskInSession, Body, Ended, Starting, Leaving, NoTurn
<1>4. Reservation'
  BY <1>0, Numbers
  DEF Core, Control, Reservation, Starting, Leaving, Body
<1>5. Flushed'
  BY <1>0, Numbers
  DEF Core, Control, Flushed, Starting, TaskInSession
<1>6. GuardHeld'
  BY <1>0, Numbers
  DEF Core, Control, GuardHeld, Body, Starting
<1>7. Terminals'
  BY <1>0, Numbers
  DEF Core, Control, Terminals, Body, Starting, Ended
<1> QED
  BY <1>1, <1>2, <1>3, <1>4, <1>5, <1>6, <1>7 DEF Core, Control

\* By a submission that the loop begins to work on.
LEMMA LoopBegins ==
  ASSUME TypeOK, References, Core, NEW label \in {"abort", "pending"}, NEW input,
         NEW turn \in {0, started + 1}, NEW n \in {started, started + 1},
         Puts(Loop, label, 0, {}, input, turn, 0), pc[Loop] = "idle",
         label = "pending" => turn = 0, input # {} => turn # 0,
         started' = n, turn # 0 => n = started + 1 /\ started < MaxTurns,
         \A t \in Turns : pc[t] \notin Starting,
         UNCHANGED <<local, active, pend, guard, cancelled, terminal>>
  PROVE  Core'
<1>0. \A p \in Procs : pc[p] \notin Starting
  BY Numbers DEF Starting
<1>1. PlacesOfControl'
  BY <1>0, Numbers, Kinds
  DEF Core, Control, PlacesOfControl, LoopStates, StartStates, TaskStates, Ended, Puts
<1>2. Locals'
  BY <1>0, Numbers, Kinds
  DEF Core, Control, Locals, Leaving, Carrying, Starting, Puts, PlacesOfControl
<1>3. TaskInSession'
  BY <1>0, Numbers, Kinds
  DEF Core, Control, TaskInSession, Body, Ended, Starting, Leaving, NoTurn, Puts, Locals
<1>4. Reservation'
  BY <1>0, Numbers, Kinds
  DEF Core, Control, Reservation, Starting, Leaving, Body, Puts
<1>5. Flushed'
  BY <1>0, Numbers, Kinds
  DEF Core, Control, Flushed, Starting, Puts
<1>6. GuardHeld'
  BY <1>0, Numbers, Kinds
  DEF Core, Control, GuardHeld, Body, Starting, Puts
<1>7. Terminals'
  BY <1>0, Numbers, Kinds
  DEF Core, Control, Terminals, Body, Starting, Ended, Puts, Locals
<1> QED
  BY <1>1, <1>2, <1>3, <1>4, <1>5, <1>6, <1>7 DEF Core, Control

\* By abort_all_tasks.
LEMMA AbortCancelCore ==
  ASSUME TypeOK, References, Core, AbortCancel
  PROVE  Core'
<1> USE DEF queue, ghosts
<1>0. /\ Goes(Loop, "take") /\ pc[Loop] = "abort"
      /\ UNCHANGED <<local, active, pend, guard, started, cancelled, terminal>>
  BY AbortCancelEffect DEF AbortCancel
<1>1. PlacesOfControl'
  BY <1>0, Numbers
  DEF Core, Control, PlacesOfControl, LoopStates, StartStates, TaskStates, Ended, Goes
<1>2. Locals'
  BY <1>0, Numbers
  DEF Core, Control, Locals, Leaving, Carrying, Starting, Goes
<1>3. TaskInSession'
  BY <1>0, Numbers
  DEF Core, Control, TaskInSession, Body, Ended, Starting, Leaving, NoTurn, Goes
<1>4. Reservation'
  BY <1>0, Numbers
  DEF Core, Control, Reservation, Starting, Leaving, Body, Goes
<1>5. Flushed'
  BY <1>0, Numbers
  DEF Core, Control, Flushed, Starting, Goes
<1>6. GuardHeld'
  BY <1>0, Numbers
  DEF Core, Control, GuardHeld, Body, Starting, Goes
<1>7. Terminals'
  BY <1>0, Numbers
  DEF Core, Control, Terminals, Body, Starting, Ended, Goes
<1> QED
  BY <1>1, <1>2, <1>3, <1>4, <1>5, <1>6, <1>7 DEF Core, Control

\* take_all_running_tasks: the turn is out of the session and in the hands of
\* the loop, or there was none.
LEMMA AbortTakeCore ==
  ASSUME TypeOK, References, Core, AbortTake
  PROVE  Core'
<1> USE DEF prewarm, ghosts
<1>0. /\ active' = NoTurn /\ pc[Loop] = "take"
      /\ UNCHANGED <<local, pend, guard, started, terminal>>
  BY AbortTakeEffect DEF AbortTake
<1>9. \A p \in Procs : pc[p] \notin Starting
  BY <1>0, Numbers DEF Core, Control, Reservation, Starting
<1>1. CASE active.task = 0
  <2>0. /\ pc'[Loop] = IF reg[Loop].turn # 0 THEN "cancel" ELSE "idle"
        /\ reg' = reg /\ cancelled' = cancelled
        /\ \A q \in Procs : q # Loop => pc'[q] = pc[q]
    BY <1>1, AbortTakeEffect DEF Goes, AfterAbort
  <2>1. PlacesOfControl'
    BY <1>0, <1>1, <1>9, <2>0, Numbers, Kinds
    DEF Core, Control, PlacesOfControl, LoopStates, StartStates, TaskStates, Ended, NoTurn
  <2>2. Locals'
    BY <1>0, <1>1, <1>9, <2>0, Numbers, Kinds
    DEF Core, Control, Locals, Leaving, Carrying, Starting, NoTurn
  <2>3. TaskInSession'
    BY <1>0, <1>1, <1>9, <2>0, Numbers, Kinds
    DEF Core, Control, TaskInSession, Body, Ended, Starting, Leaving, NoTurn
  <2>4. Reservation'
    BY <1>0, <1>1, <1>9, <2>0, Numbers, Kinds
    DEF Core, Control, Reservation, Starting, Leaving, Body, NoTurn
  <2>5. Flushed'
    BY <1>0, <1>1, <1>9, <2>0, Numbers, Kinds
    DEF Core, Control, Flushed, Starting, NoTurn
  <2>6. GuardHeld'
    BY <1>0, <1>1, <1>9, <2>0, Numbers, Kinds
    DEF Core, Control, GuardHeld, Body, Starting, NoTurn
  <2>7. Terminals'
    BY <1>0, <1>1, <1>9, <2>0, Numbers, Kinds
    DEF Core, Control, Terminals, Body, Starting, Ended, NoTurn
  <2> QED
    BY <2>1, <2>2, <2>3, <2>4, <2>5, <2>6, <2>7 DEF Core, Control
<1>2. CASE active.task # 0
  <2>0. /\ Puts(Loop, "grace", active.ts, reg[Loop].items, reg[Loop].input,
                reg[Loop].turn, active.task)
        /\ cancelled' = cancelled \cup {active.task}
        /\ active.task \in Turns /\ active.ts # 0
    BY <1>2, AbortTakeEffect, Kinds DEF References
  <2>1. PlacesOfControl'
    BY <1>0, <1>2, <1>9, <2>0, Numbers, Kinds
    DEF Core, Control, PlacesOfControl, LoopStates, StartStates, TaskStates, Ended, NoTurn, Puts, TaskInSession, Body
  <2>2. Locals'
    BY <1>0, <1>2, <1>9, <2>0, Numbers, Kinds
    DEF Core, Control, Locals, Leaving, Carrying, Starting, NoTurn, Puts
  <2>3. TaskInSession'
    BY <1>0, <1>2, <1>9, <2>0, Numbers, Kinds
    DEF Core, Control, TaskInSession, Body, Ended, Starting, Leaving, NoTurn, Puts
  <2>4. Reservation'
    BY <1>0, <1>2, <1>9, <2>0, Numbers, Kinds
    DEF Core, Control, Reservation, Starting, Leaving, Body, NoTurn, Puts
  <2>5. Flushed'
    BY <1>0, <1>2, <1>9, <2>0, Numbers, Kinds
    DEF Core, Control, Flushed, Starting, NoTurn, Puts
  <2>6. GuardHeld'
    BY <1>0, <1>2, <1>9, <2>0, Numbers, Kinds
    DEF Core, Control, GuardHeld, Body, Starting, NoTurn, Puts
  <2>7. Terminals'
    BY <1>0, <1>2, <1>9, <2>0, Numbers, Kinds
    DEF Core, Control, Terminals, Body, Starting, Ended, NoTurn, Puts, TaskInSession, Locals
  <2> QED
    BY <2>1, <2>2, <2>3, <2>4, <2>5, <2>6, <2>7 DEF Core, Control
<1> QED
  BY <1>1, <1>2

\* The victim of abort_all_tasks is stopped and TurnAborted sent: it cannot have
\* sent an event of its own.
LEMMA AbortTaskCore ==
  ASSUME TypeOK, References, Core, AbortTask
  PROVE  Core'
<1> DEFINE t == reg[Loop].victim
           s == reg[Loop].ts
<1>0. /\ t \in Turns /\ s \in TurnStates
      /\ pc'[Loop] = AfterAbort("pending")
      /\ pc'[t] = IF pc[t] \in Ended THEN pc[t] ELSE "dead"
      /\ reg'[Loop].ts = 0 /\ reg'[Loop].victim = 0
      /\ reg'[Loop].items = reg[Loop].items /\ reg'[Loop].input = reg[Loop].input
      /\ reg'[Loop].turn = reg[Loop].turn
      /\ reg'[t] = NoReg
      /\ \A q \in Procs : q \notin {Loop, t} => pc'[q] = pc[q] /\ reg'[q] = reg[q]
      /\ guard' = IF guard = t THEN Nobody ELSE guard
      /\ terminal'[t] = IF terminal[t] = "none" THEN "aborted" ELSE "twice"
      /\ \A u \in Turns : u # t => terminal'[u] = terminal[u]
      /\ \A x \in TurnStates : pend'[x] = IF x = s THEN {} ELSE pend[x]
  BY AbortTaskEffect
<1>11. pc[Loop] = "grace" /\ pc'[Loop] = IF reg[Loop].turn # 0 THEN "cancel" ELSE "pending"
  BY <1>0 DEF AfterAbort, AbortTask
<1>8. /\ UNCHANGED <<local, active, started, cancelled>> /\ ~active.on
      /\ \A p \in Procs : pc[p] \notin Starting
  BY <1>0, <1>11, Numbers DEF AbortTask, Core, Control, TaskInSession, Reservation, Starting
<1>9. NoReg.ts = 0 /\ NoReg.items = {} /\ NoReg.input = {} /\ NoReg.turn = 0
  BY DEF NoReg
<1> HIDE DEF t, s
<1>10. reg[Loop].victim = t
  BY DEF t
<1>1. PlacesOfControl'
  BY <1>0, <1>8, <1>9, <1>10, <1>11, Numbers, Kinds
  DEF Core, Control, PlacesOfControl, LoopStates, StartStates, TaskStates, Ended, TaskInSession, Body
<1>2. Locals'
  BY <1>0, <1>8, <1>9, <1>10, <1>11, Numbers, Kinds
  DEF Core, Control, Locals, Leaving, Carrying, Starting, TaskInSession, Body, Ended
<1>3. TaskInSession'
  BY <1>0, <1>8, <1>9, <1>10, <1>11, Numbers, Kinds
  DEF Core, Control, TaskInSession, Body, Ended, Starting, Leaving, NoTurn
<1>4. Reservation'
  BY <1>0, <1>8, <1>9, <1>10, <1>11, Numbers, Kinds
  DEF Core, Control, Reservation, Starting, Leaving, Body, TaskInSession, NoTurn, Ended
<1>5. Flushed'
  <2>1. \A u \in Turns : pc'[u] \in {"warm", "clear"} =>
           pc'[u] = pc[u] /\ reg'[u] = reg[u]
    BY <1>0, Numbers DEF Ended
  <2>2. \A x \in TurnStates : pend[x] = {} => pend'[x] = {}
    BY <1>0
  <2> QED
    BY <2>1, <2>2 DEF Core, Flushed
<1>6. GuardHeld'
  BY <1>0, <1>8, <1>9, <1>10, <1>11, Numbers, Kinds
  DEF Core, Control, GuardHeld, Body, Starting, Ended
<1>7. Terminals'
  BY <1>0, <1>8, <1>9, <1>10, <1>11, Numbers, Kinds
  DEF Core, Control, Terminals, Body, Starting, Ended, TaskInSession
<1> QED
  BY <1>1, <1>2, <1>3, <1>4, <1>5, <1>6, <1>7 DEF Core, Control

\* By the steps of a start that only look, or pass the barrier.
LEMMA StartLooksCore ==
  ASSUME TypeOK, References, Core, NEW p \in Procs, NEW from, NEW label,
         Goes(p, label), pc[p] = from,
         \/ from \in {"pending", "reserve"} /\ label \in {AtRest(p), "reserve"}
         \/ from = "cancel" /\ label = "barrier"
         \/ from = "barrier" /\ label = "gather" /\ guard = Nobody,
         UNCHANGED <<local, active, pend, guard, started, cancelled, terminal>>
  PROVE  Core'
<1>0. /\ p = Loop => AtRest(p) = "idle"
      /\ p # Loop => AtRest(p) = "done" /\ p \in Turns
  BY Numbers DEF AtRest
<1>8. p # Loop /\ from \in {"pending", "reserve"} => terminal[p] = "complete"
  BY <1>0 DEF Core, Terminals
<1>9. from \in {"pending", "reserve"} => reg[p].turn = 0 /\ reg[p].ts = 0 /\ reg[p].victim \in {0} \cup Turns
  BY Kinds DEF Core, Control, Locals, Carrying, Starting, Leaving
<1>1. PlacesOfControl'
  BY <1>0, <1>8, <1>9, Numbers
  DEF Core, Control, PlacesOfControl, LoopStates, StartStates, TaskStates, Ended, Goes
<1>2. Locals'
  BY <1>0, <1>8, <1>9, Numbers
  DEF Core, Control, Locals, Leaving, Carrying, Starting, Goes
<1>3. TaskInSession'
  BY <1>0, <1>8, <1>9, Numbers
  DEF Core, Control, TaskInSession, Body, Ended, Starting, Leaving, NoTurn, Goes
<1>4. Reservation'
  BY <1>0, <1>8, <1>9, Numbers
  DEF Core, Control, Reservation, Starting, Leaving, Body, Goes
<1>5. Flushed'
  BY <1>0, <1>8, <1>9, Numbers
  DEF Core, Control, Flushed, Starting, Goes
<1>6. GuardHeld'
  BY <1>0, <1>8, <1>9, Numbers
  DEF Core, Control, GuardHeld, Body, Starting, Goes
<1>7. Terminals'
  BY <1>0, <1>8, <1>9, Numbers
  DEF Core, Control, Terminals, Body, Starting, Ended, Goes, TaskInSession
<1> QED
  BY <1>1, <1>2, <1>3, <1>4, <1>5, <1>6, <1>7 DEF Core, Control

\* By the reservation.
LEMMA ReserveCore ==
  ASSUME TypeOK, References, Core, NEW p \in Procs, Reserve(p), ~overlap'
  PROVE  Core'
<1> USE DEF prewarm, ghosts
<1>0. /\ Puts(p, "cancel", 0, {}, {}, started + 1, 0)
      /\ active'.on /\ active'.task = 0 /\ active'.ts = FreshState
      /\ FreshState \in TurnStates /\ \A q \in Procs : FreshState # reg[q].ts
      /\ \A s \in TurnStates : pend'[s] = IF s = FreshState THEN {} ELSE pend[s]
      /\ started + 1 \in Turns /\ started' = started + 1
      /\ p # Loop => pc[Loop] = "idle"
  BY ReserveEffect
<1>8. /\ pc[p] = "reserve" /\ ~active.on /\ active.task = 0
      /\ UNCHANGED <<local, guard, cancelled, terminal>>
  BY DEF Reserve, References
<1>9. /\ reg[Loop].victim # 0 => p = Loop
      /\ p # Loop => p \in Turns
  BY <1>0, Numbers DEF Core, Control, Locals
<1>10. \A q \in Procs : pc[q] \in Starting => p = q \/ q = Loop
  BY <1>8, Numbers DEF Core, Control, Reservation
<1>11. \A q \in Procs : pc[q] \notin Starting
  BY <1>8, <1>0, <1>10 DEF Starting
<1> HIDE DEF FreshState
<1>1. PlacesOfControl'
  BY <1>0, <1>8, <1>9, <1>11, Numbers, Kinds
  DEF Core, Control, PlacesOfControl, LoopStates, StartStates, TaskStates, Ended, Puts
<1>2. Locals'
  BY <1>0, <1>8, <1>9, <1>11, Numbers, Kinds
  DEF Core, Control, Locals, Leaving, Carrying, Starting, Puts, PlacesOfControl
<1>3. TaskInSession'
  BY <1>0, <1>8, <1>9, <1>11, Numbers, Kinds
  DEF Core, Control, TaskInSession, Body, Ended, Starting, Leaving, NoTurn, Puts, Locals
<1>4. Reservation'
  BY <1>0, <1>8, <1>9, <1>11, Numbers, Kinds
  DEF Core, Control, Reservation, Starting, Leaving, Body, Puts
<1>5. Flushed'
  <2>1. pc'[p] = "cancel" /\ \A t \in Procs : t # p => pc'[t] = pc[t] /\ reg'[t].ts = reg[t].ts
    BY <1>0 DEF Puts
  <2>2. ASSUME NEW t \in Turns, NEW s \in TurnStates,
               pc'[t] \in {"warm", "clear"}, reg'[t].ts = s
        PROVE  pend'[s] = {}
    <3>1. t # p /\ t \in Procs
      BY <2>1, <2>2, Numbers
    <3>2. pc[t] \in {"warm", "clear"} /\ reg[t].ts = s /\ FreshState # s
      BY <1>0, <2>1, <2>2, <3>1
    <3> QED
      BY <1>0, <3>2 DEF Core, Flushed
  <2> QED
    BY <2>2 DEF Flushed
<1>6. GuardHeld'
  BY <1>0, <1>8, <1>9, <1>11, Numbers, Kinds
  DEF Core, Control, GuardHeld, Body, Starting, Puts
<1>7. Terminals'
  BY <1>0, <1>8, <1>9, <1>11, Numbers, Kinds
  DEF Core, Control, Terminals, Body, Starting, Ended, Puts, Locals
<1> QED
  BY <1>1, <1>2, <1>3, <1>4, <1>5, <1>6, <1>7 DEF Core, Control

\* By taking what is pending.
LEMMA GatherCore ==
  ASSUME TypeOK, References, Core, NEW p \in Procs, Gather(p)
  PROVE  Core'
<1> USE DEF prewarm, ghosts
<1>0. /\ Puts(p, "insert", reg[p].ts, PendingInput, reg[p].input, reg[p].turn,
              reg[p].victim)
      /\ \A s \in TurnStates : pend[s] = {} => pend'[s] = {}
  BY GatherEffect
<1>8. /\ pc[p] = "gather"
      /\ UNCHANGED <<local, active, guard, started, cancelled, terminal>>
  BY DEF Gather
<1> HIDE DEF PendingInput
<1>1. PlacesOfControl'
  BY <1>0, <1>8, Numbers, Kinds
  DEF Core, Control, PlacesOfControl, LoopStates, StartStates, TaskStates, Ended, Puts
<1>2. Locals'
  BY <1>0, <1>8, Numbers, Kinds
  DEF Core, Control, Locals, Leaving, Carrying, Starting, Puts
<1>3. TaskInSession'
  <2>1. /\ \A q \in Procs : reg'[q].ts = reg[q].ts /\ reg'[q].victim = reg[q].victim
        /\ \A q \in Procs : q # p => pc'[q] = pc[q]
    BY <1>0 DEF Puts
  <2>2. pc[p] \notin Body \cup Ended /\ pc'[p] \notin Body \cup Ended
    BY <1>0, <1>8 DEF Puts, Body, Ended
  <2> QED
    BY <1>8, <2>1, <2>2, Numbers DEF Core, Control, TaskInSession
<1>4. Reservation'
  BY <1>0, <1>8, Numbers, Kinds
  DEF Core, Control, Reservation, Starting, Leaving, Body, Puts
<1>5. Flushed'
  BY <1>0, <1>8, Numbers, Kinds
  DEF Core, Control, Flushed, Starting, Puts
<1>6. GuardHeld'
  BY <1>0, <1>8, Numbers, Kinds
  DEF Core, Control, GuardHeld, Body, Starting, Puts
<1>7. Terminals'
  BY <1>0, <1>8, Numbers, Kinds
  DEF Core, Control, Terminals, Body, Starting, Ended, Puts
<1> QED
  BY <1>1, <1>2, <1>3, <1>4, <1>5, <1>6, <1>7 DEF Core, Control

\* By putting it into the active turn.
LEMMA InsertCore ==
  ASSUME TypeOK, References, Core, NEW p \in Procs, Insert(p)
  PROVE  Core'
<1> USE DEF prewarm, ghosts
<1>0. /\ Puts(p, "publish", active'.ts, {}, reg[p].input, reg[p].turn, reg[p].victim)
      /\ active'.on /\ active'.ts \in TurnStates
      /\ active.on => active' = active
      /\ ~active.on => /\ active'.task = 0 /\ active'.ts = FreshState
                       /\ \A q \in Procs : FreshState # reg[q].ts
      /\ \A s \in TurnStates : s # active'.ts => pend'[s] = pend[s]
  BY InsertEffect
<1>8. /\ pc[p] = "insert"
      /\ UNCHANGED <<local, guard, started, cancelled, terminal>>
  BY DEF Insert
<1>9. /\ active.task = 0 /\ active'.task = 0
      /\ \A q \in Procs : q # p => reg[q].ts # active'.ts /\ pc[q] \notin Starting
      /\ p # Loop => pc[Loop] = "idle"
  BY <1>0, <1>8 DEF Core, Control, Reservation, Starting
<1>10. /\ reg'[Loop].victim = 0 /\ reg[Loop].victim = 0
       /\ \A u \in Turns : pc[u] \notin Body /\ pc'[u] \notin Body
  <2>1. reg'[Loop].victim = 0 /\ reg[Loop].victim = 0
    BY <1>0, <1>8, <1>9, Numbers DEF Core, Control, Locals, Puts
  <2>2. \A u \in Turns : pc[u] \notin Body
    BY <1>9, <2>1, Numbers DEF Core, Control, TaskInSession
  <2> QED
    BY <1>0, <2>1, <2>2, Numbers DEF Puts, Body
<1> HIDE DEF FreshState
<1>1. PlacesOfControl'
  BY <1>0, <1>8, <1>9, Numbers, Kinds
  DEF Core, Control, PlacesOfControl, LoopStates, StartStates, TaskStates, Ended, Puts
<1>2. Locals'
  BY <1>0, <1>8, <1>9, Numbers, Kinds
  DEF Core, Control, Locals, Leaving, Carrying, Starting, Puts
<1>3. TaskInSession'
  BY <1>0, <1>9, <1>10, Numbers DEF TaskInSession
<1>4. Reservation'
  BY <1>0, <1>8, <1>9, Numbers, Kinds
  DEF Core, Control, Reservation, Starting, Leaving, Body, Puts
<1>5. Flushed'
  <2>1. \A u \in Turns : pc'[u] \in {"warm", "clear"} =>
           pc'[u] = pc[u] /\ reg'[u] = reg[u] /\ reg[u].ts # active'.ts
    BY <1>0, <1>9, Numbers DEF Puts
  <2> QED
    BY <1>0, <2>1 DEF Core, Flushed
<1>6. GuardHeld'
  BY <1>0, <1>8, <1>9, Numbers, Kinds
  DEF Core, Control, GuardHeld, Body, Starting, Puts
<1>7. Terminals'
  BY <1>0, <1>8, <1>9, Numbers, Kinds
  DEF Core, Control, Terminals, Body, Starting, Ended, Puts
<1> QED
  BY <1>1, <1>2, <1>3, <1>4, <1>5, <1>6, <1>7 DEF Core, Control

\* By the publication of the task.
LEMMA PublishCore ==
  ASSUME TypeOK, References, Core, NEW p \in Procs, Publish(p)
  PROVE  Core'
<1> USE DEF ghosts
<1> DEFINE t == reg[p].turn
<1>0. /\ t \in Turns
      /\ active'.on /\ active'.task = t
      /\ active'.ts = IF active.on THEN active.ts ELSE FreshState
      /\ \A q \in Procs :
            pc'[q] = IF q = p THEN AtRest(p) ELSE IF q = t THEN "run"
                     ELSE IF q = active.task /\ q # 0 /\ pc[q] \notin Ended THEN "dead"
                     ELSE pc[q]
      /\ reg'[p] = NoReg
      /\ t # p => /\ reg'[t].ts = 0 /\ reg'[t].items = {} /\ reg'[t].turn = 0
                  /\ reg'[t].input = reg[p].input /\ reg'[t].victim = 0
      /\ \A q \in Procs : q \notin {p, t} => reg'[q] = reg[q]
      /\ guard' = IF guard = active.task THEN Nobody ELSE guard
      /\ \A s \in TurnStates :
            pend'[s] = IF s = active'.ts /\ ~active.on THEN {} ELSE pend[s]
  BY PublishEffect
<1>1. pc[p] = "publish" /\ UNCHANGED <<local, started, cancelled, terminal>>
  BY DEF Publish
<1> HIDE DEF t, FreshState
<1>2. /\ active.on /\ active.task = 0 /\ active.ts # 0
      /\ \A q \in Procs : q # p => reg[q].ts # active.ts /\ pc[q] \notin Starting
      /\ p # Loop => pc[Loop] = "idle"
  BY <1>1, Numbers DEF Core, Control, Reservation, Starting, References
<1>3. /\ pc[t] = "unused" /\ t <= started /\ t # p /\ t # Loop /\ t \in Procs /\ t \notin cancelled
      /\ \A q \in Procs : reg[q].turn = t => q = p
  <2>1. pc[t] = "unused" /\ t <= started
    BY <1>0 DEF Core, Control, Locals, t
  <2>2. \A q \in Procs : q # p => reg[q].turn # t
    <3>1. \A q \in Procs : q # p /\ reg[q].turn # 0 => q = Loop /\ p # Loop
      BY <1>1, <1>2, Numbers DEF Core, Control, Locals, PlacesOfControl, Carrying, TaskStates, StartStates, Ended, Starting
    <3> QED
      BY <1>0, <1>2, <3>1, Numbers DEF Core, Control, Locals, Carrying, Starting
  <2>3. t # p /\ t # Loop /\ t \in Procs /\ t \notin cancelled
    BY <1>0, <1>1, <2>1, Numbers DEF Core, Control, PlacesOfControl
  <2> QED
    BY <2>1, <2>2, <2>3
<1>4. /\ pc'[p] = AtRest(p) /\ pc'[t] = "run" /\ guard = Nobody /\ guard' = Nobody
      /\ \A q \in Procs : q \notin {p, t} => pc'[q] = pc[q] /\ reg'[q] = reg[q]
      /\ reg'[p].ts = 0 /\ reg'[p].items = {} /\ reg'[p].input = {} /\ reg'[p].turn = 0
      /\ reg'[p].victim = 0
      /\ reg'[t].ts = 0 /\ reg'[t].items = {} /\ reg'[t].turn = 0
      /\ active'.ts = active.ts
      /\ \A s \in TurnStates : pend'[s] = pend[s]
  BY <1>0, <1>1, <1>2, <1>3 DEF Core, GuardHeld, NoReg, Nobody
<1>5. /\ p = Loop => AtRest(p) = "idle"
      /\ p # Loop => AtRest(p) = "done" /\ p \in Turns /\ terminal[p] = "complete"
  BY <1>1, Numbers DEF AtRest, Core, Terminals, Starting
<1>6. reg[Loop].victim = 0 /\ reg'[Loop].victim = 0
  BY <1>1, <1>2, <1>3, <1>4, Numbers DEF Core, Control, Locals
<1>7. \A u \in Turns : pc[u] \notin Body
  BY <1>2, <1>6, Numbers DEF Core, Control, TaskInSession
<1>8. /\ active'.on /\ active'.task = t /\ t \in Turns /\ p \in Procs
  BY <1>0
<1>11. PlacesOfControl'
  <2>1. pc'[Loop] \in LoopStates
    BY <1>3, <1>4, <1>5, Numbers DEF Core, Control, PlacesOfControl, LoopStates
  <2>2. pc'[t] \in TaskStates /\ (p # Loop => pc'[p] \in TaskStates)
    BY <1>4, <1>5 DEF TaskStates, Ended
  <2>3. p # Loop => ~(p > started)
    BY <1>1, <1>5 DEF Core, Control, PlacesOfControl
  <2>4. \A u \in Turns : u > started => u \notin {p, t}
    BY <1>3, <1>8, <2>3, Kinds, Numbers DEF Turns
  <2>5. pc'[t] # "unused" /\ pc'[p] # "unused"
    BY <1>4, <1>5
  <2> QED
    BY <1>1, <1>4, <2>1, <2>2, <2>4, <2>5, Numbers DEF Core, Control, PlacesOfControl
<1>12. Locals'
  BY <1>1, <1>2, <1>3, <1>4, <1>5, <1>6, <1>7, <1>8, Numbers
  DEF Core, Control, Locals, Leaving, Carrying, Starting
<1>13. TaskInSession'
  BY <1>1, <1>2, <1>3, <1>4, <1>5, <1>6, <1>7, <1>8, Numbers
  DEF Core, Control, TaskInSession, Body, Ended, Starting, Leaving, NoTurn
<1>14. Reservation'
  BY <1>1, <1>2, <1>3, <1>4, <1>5, <1>6, <1>7, <1>8, Numbers
  DEF Core, Control, Reservation, Starting, Leaving, Body
<1>15. Flushed'
  <2>1. \A u \in Turns : pc'[u] \in {"warm", "clear"} =>
           pc'[u] = pc[u] /\ reg'[u] = reg[u]
    BY <1>4, <1>5, Numbers
  <2> QED
    BY <1>4, <2>1 DEF Core, Flushed
<1>16. GuardHeld'
  BY <1>1, <1>2, <1>3, <1>4, <1>5, <1>6, <1>7, <1>8, Numbers
  DEF Core, Control, GuardHeld, Body, Starting
<1>17. Terminals'
  BY <1>1, <1>2, <1>3, <1>4, <1>5, <1>6, <1>7, <1>8, Numbers
  DEF Core, Control, Terminals, Body, Starting, Ended
<1> QED
  BY <1>11, <1>12, <1>13, <1>14, <1>15, <1>16, <1>17 DEF Core, Control

\* Only one task is in its body at a time.
LEMMA OneBody ==
  ASSUME TypeOK, References, Core, NEW t \in Turns, pc[t] \in Body
  PROVE  /\ \A u \in Turns : pc[u] \in Body => u = t
         /\ \A p \in Procs : pc[p] \notin Starting
         /\ \/ active.task = t /\ active.on /\ reg[Loop].victim = 0 /\ t \notin cancelled
            \/ active = NoTurn /\ reg[Loop].victim = t
<1>1. active.task = t \/ reg[Loop].victim = t
  BY DEF Core, Control, TaskInSession
<1>2. CASE active.task = t
  <2>1. active.on /\ reg[Loop].victim = 0 /\ t \notin cancelled /\ t # 0
    BY <1>2, Numbers DEF Core, Control, TaskInSession, References
  <2> QED
    BY <1>2, <2>1, Numbers DEF Core, Control, TaskInSession, Reservation
<1>3. CASE reg[Loop].victim = t
  <2>1. active = NoTurn /\ active.task = 0 /\ pc[Loop] = "grace"
    BY <1>3, Numbers DEF Core, Control, TaskInSession, Locals, NoTurn
  <2>2. \A u \in Turns : pc[u] \in Body => u = t
    BY <1>3, <2>1, Numbers DEF Core, Control, TaskInSession
  <2>3. \A p \in Procs : pc[p] \notin Starting
    BY <2>1 DEF Core, Control, Reservation, Starting
  <2> QED
    BY <1>3, <2>1, <2>2, <2>3
<1> QED
  BY <1>1, <1>2, <1>3

\* By taking the prewarm lock.
LEMMA AcquireCore ==
  ASSUME TypeOK, References, Core, NEW t \in Turns, AcquireGuard(t)
  PROVE  Core'
<1> USE DEF queue, ghosts
<1>0. /\ Goes(t, "check") /\ guard' = IF local THEN t ELSE guard
      /\ pc[t] = "guard" /\ UNCHANGED <<local, active, pend, started, cancelled, terminal>>
  BY TeardownEffect DEF AcquireGuard
<1>8. pc[t] \in Body /\ guard = Nobody
  BY <1>0 DEF Core, GuardHeld, Body
<1>9. /\ \A u \in Turns : pc[u] \in Body => u = t
      /\ \A p \in Procs : pc[p] \notin Starting
  BY <1>8, OneBody
<1>1. PlacesOfControl'
  BY <1>0, <1>8, <1>9, Numbers
  DEF Core, Control, PlacesOfControl, LoopStates, StartStates, TaskStates, Ended, Goes
<1>2. Locals'
  BY <1>0, <1>8, <1>9, Numbers
  DEF Core, Control, Locals, Leaving, Carrying, Starting, Goes
<1>3. TaskInSession'
  BY <1>0, <1>8, <1>9, Numbers
  DEF Core, Control, TaskInSession, Body, Ended, Starting, Leaving, NoTurn, Goes
<1>4. Reservation'
  BY <1>0, <1>8, <1>9, Numbers
  DEF Core, Control, Reservation, Starting, Leaving, Body, Goes
<1>5. Flushed'
  BY <1>0, <1>8, <1>9, Numbers
  DEF Core, Control, Flushed, Starting, Goes
<1>6. GuardHeld'
  BY <1>0, <1>8, <1>9, Numbers
  DEF Core, Control, GuardHeld, Body, Starting, Goes, Nobody
<1>7. Terminals'
  BY <1>0, <1>8, <1>9, Numbers
  DEF Core, Control, Terminals, Body, Starting, Ended, Goes
<1> QED
  BY <1>1, <1>2, <1>3, <1>4, <1>5, <1>6, <1>7 DEF Core, Control

\* By looking whether the turn was cancelled.
LEMMA CheckCancelledCore ==
  ASSUME TypeOK, References, Core, NEW t \in Turns, CheckCancelled(t)
  PROVE  Core'
<1> USE DEF queue, ghosts
<1>0. /\ pc[t] = "check" /\ UNCHANGED <<local, active, pend, started, cancelled, terminal>>
  BY DEF CheckCancelled
<1>8. /\ \A u \in Turns : pc[u] \in Body => u = t
      /\ \A p \in Procs : pc[p] \notin Starting
      /\ \/ active.task = t /\ active.on /\ reg[Loop].victim = 0 /\ t \notin cancelled
         \/ active = NoTurn /\ reg[Loop].victim = t
  BY <1>0, OneBody DEF Body
<1>1. CASE t \in cancelled /\ Puts(t, "done", 0, {}, {}, 0, 0)
           /\ guard' = IF guard = t THEN Nobody ELSE guard
  <2>1. PlacesOfControl'
    BY <1>0, <1>1, <1>8, Numbers
    DEF Core, Control, PlacesOfControl, LoopStates, StartStates, TaskStates, Ended, Puts
  <2>2. Locals'
    BY <1>0, <1>1, <1>8, Numbers
    DEF Core, Control, Locals, Leaving, Carrying, Starting, Puts
  <2>3. TaskInSession'
    BY <1>0, <1>1, <1>8, Numbers
    DEF Core, Control, TaskInSession, Body, Ended, Starting, Leaving, NoTurn, Puts
  <2>4. Reservation'
    BY <1>0, <1>1, <1>8, Numbers
    DEF Core, Control, Reservation, Starting, Leaving, Body, Puts
  <2>5. Flushed'
    BY <1>0, <1>1, <1>8, Numbers
    DEF Core, Control, Flushed, Starting, Puts
  <2>6. GuardHeld'
    BY <1>0, <1>1, <1>8, Numbers
    DEF Core, Control, GuardHeld, Body, Starting, Puts
  <2>7. Terminals'
    BY <1>0, <1>1, <1>8, Numbers
    DEF Core, Control, Terminals, Body, Starting, Ended, Puts
  <2> QED
    BY <2>1, <2>2, <2>3, <2>4, <2>5, <2>6, <2>7 DEF Core, Control
<1>2. CASE t \notin cancelled /\ Goes(t, "finish") /\ guard' = guard
  <2>1. PlacesOfControl'
    BY <1>0, <1>2, <1>8, Numbers
    DEF Core, Control, PlacesOfControl, LoopStates, StartStates, TaskStates, Ended, Goes
  <2>2. Locals'
    BY <1>0, <1>2, <1>8, Numbers
    DEF Core, Control, Locals, Leaving, Carrying, Starting, Goes
  <2>3. TaskInSession'
    BY <1>0, <1>2, <1>8, Numbers
    DEF Core, Control, TaskInSession, Body, Ended, Starting, Leaving, NoTurn, Goes
  <2>4. Reservation'
    BY <1>0, <1>2, <1>8, Numbers
    DEF Core, Control, Reservation, Starting, Leaving, Body, Goes
  <2>5. Flushed'
    BY <1>0, <1>2, <1>8, Numbers
    DEF Core, Control, Flushed, Starting, Goes
  <2>6. GuardHeld'
    BY <1>0, <1>2, <1>8, Numbers
    DEF Core, Control, GuardHeld, Body, Starting, Goes
  <2>7. Terminals'
    BY <1>0, <1>2, <1>8, Numbers
    DEF Core, Control, Terminals, Body, Starting, Ended, Goes
  <2> QED
    BY <2>1, <2>2, <2>3, <2>4, <2>5, <2>6, <2>7 DEF Core, Control
<1> QED
  BY <1>1, <1>2, TeardownEffect

\* By taking the task out of the session.
LEMMA DetachCore ==
  ASSUME TypeOK, References, Core, NEW t \in Turns, Detach(t)
  PROVE  Core'
<1> USE DEF queue, ghosts
<1>0. /\ pc[t] = "finish" /\ UNCHANGED <<local, pend, started, cancelled, terminal>>
  BY DEF Detach
<1>8. /\ \A u \in Turns : pc[u] \in Body => u = t
      /\ \A p \in Procs : pc[p] \notin Starting
      /\ \/ active.task = t /\ active.on /\ reg[Loop].victim = 0 /\ t \notin cancelled
         \/ active = NoTurn /\ reg[Loop].victim = t
  BY <1>0, OneBody DEF Body
<1>1. CASE active.task = 0
  <2>0. /\ Puts(t, "done", 0, {}, {}, 0, 0) /\ active' = active
        /\ guard' = IF guard = t THEN Nobody ELSE guard
    BY <1>1, DetachEffect
  <2>1. PlacesOfControl'
    BY <1>0, <1>1, <1>8, <2>0, Numbers
    DEF Core, Control, PlacesOfControl, LoopStates, StartStates, TaskStates, Ended, Puts
  <2>2. Locals'
    BY <1>0, <1>1, <1>8, <2>0, Numbers
    DEF Core, Control, Locals, Leaving, Carrying, Starting, Puts
  <2>3. TaskInSession'
    BY <1>0, <1>1, <1>8, <2>0, Numbers
    DEF Core, Control, TaskInSession, Body, Ended, Starting, Leaving, NoTurn, Puts
  <2>4. Reservation'
    BY <1>0, <1>1, <1>8, <2>0, Numbers
    DEF Core, Control, Reservation, Starting, Leaving, Body, Puts
  <2>5. Flushed'
    BY <1>0, <1>1, <1>8, <2>0, Numbers
    DEF Core, Control, Flushed, Starting, Puts
  <2>6. GuardHeld'
    BY <1>0, <1>1, <1>8, <2>0, Numbers
    DEF Core, Control, GuardHeld, Body, Starting, Puts
  <2>7. Terminals'
    BY <1>0, <1>1, <1>8, <2>0, Numbers
    DEF Core, Control, Terminals, Body, Starting, Ended, Puts
  <2> QED
    BY <2>1, <2>2, <2>3, <2>4, <2>5, <2>6, <2>7 DEF Core, Control
<1>2. CASE active.task # 0
  <2>0. /\ Puts(t, "flush", active.ts, reg[t].items, reg[t].input, reg[t].turn,
                reg[t].victim)
        /\ active.on /\ active'.on /\ active'.task = 0 /\ active'.ts = active.ts
        /\ guard' = guard /\ active.ts # 0
    BY <1>2, DetachEffect DEF References
  <2>9. active.task = t /\ reg[Loop].victim = 0
    BY <1>2, <1>8, Numbers DEF NoTurn
  <2>1. PlacesOfControl'
    BY <1>0, <1>2, <1>8, <2>0, <2>9, Numbers
    DEF Core, Control, PlacesOfControl, LoopStates, StartStates, TaskStates, Ended, Puts
  <2>2. Locals'
    BY <1>0, <1>2, <1>8, <2>0, <2>9, Numbers
    DEF Core, Control, Locals, Leaving, Carrying, Starting, Puts
  <2>3. TaskInSession'
    BY <1>0, <1>2, <1>8, <2>0, <2>9, Numbers
    DEF Core, Control, TaskInSession, Body, Ended, Starting, Leaving, NoTurn, Puts
  <2>4. Reservation'
    BY <1>0, <1>2, <1>8, <2>0, <2>9, Numbers
    DEF Core, Control, Reservation, Starting, Leaving, Body, Puts
  <2>5. Flushed'
    <3>1. \A u \in Turns : pc'[u] \in {"warm", "clear"} =>
             pc'[u] = pc[u] /\ reg'[u] = reg[u]
      BY <2>0, Numbers DEF Puts
    <3> QED
      BY <1>0, <3>1 DEF Core, Flushed
  <2>6. GuardHeld'
    BY <1>0, <1>2, <1>8, <2>0, <2>9, Numbers
    DEF Core, Control, GuardHeld, Body, Starting, Puts
  <2>7. Terminals'
    BY <1>0, <1>2, <1>8, <2>0, <2>9, Numbers
    DEF Core, Control, Terminals, Body, Starting, Ended, Puts
  <2> QED
    BY <2>1, <2>2, <2>3, <2>4, <2>5, <2>6, <2>7 DEF Core, Control
<1> QED
  BY <1>1, <1>2

\* By TurnComplete.
LEMMA CompleteCore ==
  ASSUME TypeOK, References, Core, NEW t \in Turns, Complete(t)
  PROVE  Core'
<1>0. /\ Goes(t, "warm") /\ guard' = guard
      /\ \A s \in TurnStates : pend'[s] = IF s = reg[t].ts THEN {} ELSE pend[s]
      /\ terminal'[t] = IF terminal[t] = "none" THEN "complete" ELSE "twice"
      /\ \A u \in Turns : u # t => terminal'[u] = terminal[u]
  BY CompleteEffect
<1>8. pc[t] = "flush" /\ UNCHANGED <<local, active, started, cancelled>>
  BY DEF Complete
<1>1. PlacesOfControl'
  BY <1>0, <1>8, Numbers
  DEF Core, Control, PlacesOfControl, LoopStates, StartStates, TaskStates, Ended, Goes
<1>2. Locals'
  BY <1>0, <1>8, Numbers
  DEF Core, Control, Locals, Leaving, Carrying, Starting, Goes
<1>3. TaskInSession'
  BY <1>0, <1>8, Numbers
  DEF Core, Control, TaskInSession, Body, Ended, Starting, Leaving, NoTurn, Goes
<1>4. Reservation'
  BY <1>0, <1>8, Numbers
  DEF Core, Control, Reservation, Starting, Leaving, Body, Goes
<1>5. Flushed'
  BY <1>0, <1>8, Numbers
  DEF Core, Control, Flushed, Starting, Goes
<1>6. GuardHeld'
  BY <1>0, <1>8, Numbers
  DEF Core, Control, GuardHeld, Body, Starting, Goes
<1>7. Terminals'
  BY <1>0, <1>8, Numbers
  DEF Core, Control, Terminals, Body, Starting, Ended, Goes
<1> QED
  BY <1>1, <1>2, <1>3, <1>4, <1>5, <1>6, <1>7 DEF Core, Control

\* By the end of its warm-up.
LEMMA WarmupCore ==
  ASSUME TypeOK, References, Core, NEW t \in Turns, WarmupCancelled(t) \/ WarmupFinished(t)
  PROVE  Core'
<1> USE DEF queue, ghosts
<1>0. Goes(t, "clear") /\ guard' = IF guard = t THEN Nobody ELSE guard
  BY TeardownEffect
<1>8. /\ pc[t] = "warm"
      /\ UNCHANGED <<local, active, pend, started, cancelled, terminal>>
  BY DEF WarmupCancelled, WarmupFinished
<1>1. PlacesOfControl'
  BY <1>0, <1>8, Numbers
  DEF Core, Control, PlacesOfControl, LoopStates, StartStates, TaskStates, Ended, Goes
<1>2. Locals'
  BY <1>0, <1>8, Numbers
  DEF Core, Control, Locals, Leaving, Carrying, Starting, Goes
<1>3. TaskInSession'
  BY <1>0, <1>8, Numbers
  DEF Core, Control, TaskInSession, Body, Ended, Starting, Leaving, NoTurn, Goes
<1>4. Reservation'
  BY <1>0, <1>8, Numbers
  DEF Core, Control, Reservation, Starting, Leaving, Body, Goes
<1>5. Flushed'
  BY <1>0, <1>8, Numbers
  DEF Core, Control, Flushed, Starting, Goes
<1>6. GuardHeld'
  BY <1>0, <1>8, Numbers
  DEF Core, Control, GuardHeld, Body, Starting, Goes
<1>7. Terminals'
  BY <1>0, <1>8, Numbers
  DEF Core, Control, Terminals, Body, Starting, Ended, Goes
<1> QED
  BY <1>1, <1>2, <1>3, <1>4, <1>5, <1>6, <1>7 DEF Core, Control

\* By making the session idle.
LEMMA ClearCore ==
  ASSUME TypeOK, References, Core, NEW t \in Turns, ClearActive(t)
  PROVE  Core'
<1> USE DEF prewarm, ghosts
<1>0. pc[t] = "clear" /\ UNCHANGED <<local, pend, guard, started, cancelled, terminal>>
  BY DEF ClearActive
<1>1. CASE /\ active.on /\ active.task = 0 /\ active.ts = reg[t].ts
           /\ active' = NoTurn /\ Puts(t, "pending", 0, {}, {}, 0, 0)
  <2>8. \A p \in Procs : pc[p] \notin Starting
    BY <1>0, <1>1, Numbers DEF Core, Control, Reservation, Starting
  <2>1. PlacesOfControl'
    BY <1>0, <1>1, <2>8, Numbers
    DEF Core, Control, PlacesOfControl, LoopStates, StartStates, TaskStates, Ended, Puts, NoTurn
  <2>2. Locals'
    BY <1>0, <1>1, <2>8, Numbers
    DEF Core, Control, Locals, Leaving, Carrying, Starting, Puts, NoTurn
  <2>3. TaskInSession'
    BY <1>0, <1>1, <2>8, Numbers
    DEF Core, Control, TaskInSession, Body, Ended, Starting, Leaving, NoTurn, Puts
  <2>4. Reservation'
    BY <1>0, <1>1, <2>8, Numbers
    DEF Core, Control, Reservation, Starting, Leaving, Body, Puts, NoTurn
  <2>5. Flushed'
    BY <1>0, <1>1, <2>8, Numbers
    DEF Core, Control, Flushed, Starting, Puts, NoTurn
  <2>6. GuardHeld'
    BY <1>0, <1>1, <2>8, Numbers
    DEF Core, Control, GuardHeld, Body, Starting, Puts, NoTurn
  <2>7. Terminals'
    BY <1>0, <1>1, <2>8, Numbers
    DEF Core, Control, Terminals, Body, Starting, Ended, Puts, NoTurn
  <2> QED
    BY <2>1, <2>2, <2>3, <2>4, <2>5, <2>6, <2>7 DEF Core, Control
<1>2. CASE /\ ~(active.on /\ active.task = 0 /\ active.ts = reg[t].ts)
           /\ active' = active /\ Puts(t, "done", 0, {}, {}, 0, 0)
  <2>1. PlacesOfControl'
    BY <1>0, <1>2, Numbers
    DEF Core, Control, PlacesOfControl, LoopStates, StartStates, TaskStates, Ended, Puts
  <2>2. Locals'
    BY <1>0, <1>2, Numbers
    DEF Core, Control, Locals, Leaving, Carrying, Starting, Puts
  <2>3. TaskInSession'
    BY <1>0, <1>2, Numbers
    DEF Core, Control, TaskInSession, Body, Ended, Puts, References
  <2>4. Reservation'
    BY <1>0, <1>2, Numbers
    DEF Core, Control, Reservation, Starting, Leaving, Puts, References
  <2>5. Flushed'
    BY <1>0, <1>2, Numbers
    DEF Core, Control, Flushed, Starting, Puts
  <2>6. GuardHeld'
    BY <1>0, <1>2, Numbers
    DEF Core, Control, GuardHeld, Body, Starting, Puts
  <2>7. Terminals'
    BY <1>0, <1>2, Numbers
    DEF Core, Control, Terminals, TaskInSession, Body, Starting, Ended, Puts
  <2> QED
    BY <2>1, <2>2, <2>3, <2>4, <2>5, <2>6, <2>7 DEF Core, Control
<1> QED
  BY <1>1, <1>2, ClearEffect

\* By the end of the warm-up of a resumed session.
LEMMA ResumeCore ==
  ASSUME TypeOK, References, Core, NEW token, ResumeWarmupEnds(token)
  PROVE  Core'
<1> USE DEF queue, ghosts
<1>0. /\ guard' = Nobody /\ guard = Resume
      /\ UNCHANGED <<local, active, pend, pc, reg, started, cancelled, terminal>>
  BY ResumeWarmupEffect DEF ResumeWarmupEnds
<1>1. PlacesOfControl'
  BY <1>0, Numbers
  DEF Core, Control, PlacesOfControl, LoopStates, StartStates, TaskStates, Ended
<1>2. Locals'
  BY <1>0, Numbers
  DEF Core, Control, Locals, Leaving, Carrying, Starting
<1>3. TaskInSession'
  BY <1>0, Numbers
  DEF Core, Control, TaskInSession, Body, Ended, Starting, Leaving, NoTurn
<1>4. Reservation'
  BY <1>0, Numbers
  DEF Core, Control, Reservation, Starting, Leaving, Body
<1>5. Flushed'
  BY <1>0, Numbers
  DEF Core, Control, Flushed, Starting
<1>6. GuardHeld'
  BY <1>0, Numbers
  DEF Core, Control, GuardHeld, Body, Starting
<1>7. Terminals'
  BY <1>0, Numbers
  DEF Core, Control, Terminals, Body, Starting, Ended
<1> QED
  BY <1>1, <1>2, <1>3, <1>4, <1>5, <1>6, <1>7 DEF Core, Control

-----------------------------------------------------------------------------
(* Items: each action leaves them where they are or moves some.                *)

\* By a step that leaves every item where it is.
LEMMA SamePlaces ==
  ASSUME ItemPlaces, UNCHANGED <<recorded, dropped, mailbox, sent>>,
         \A i \in Items, s \in TurnStates : Waits(i, s)' <=> Waits(i, s),
         \A i \in Items, p \in Procs : Holds(i, p)' <=> Holds(i, p)
  PROVE  ItemPlaces'
BY DEF ItemPlaces

\* By a step that records, or drops, what some processes hold and what waits in
\* some turn states.
LEMMA Settled ==
  ASSUME ItemPlaces, NEW P, NEW S, NEW X,
         \A i \in Items : i \in X <=> \/ \E p \in Procs : p \in P /\ Holds(i, p)
                                      \/ \E s \in TurnStates : s \in S /\ Waits(i, s),
         \/ recorded' = recorded \cup X /\ dropped' = dropped
         \/ recorded' = recorded /\ dropped' = dropped \cup X,
         UNCHANGED <<mailbox, sent>>,
         \A i \in Items, s \in TurnStates : Waits(i, s)' <=> Waits(i, s) /\ s \notin S,
         \A i \in Items, p \in Procs : Holds(i, p)' <=> Holds(i, p) /\ p \notin P
  PROVE  ItemPlaces'
BY DEF ItemPlaces

\* By a step in which a process takes what waits in some turn states and some of
\* the mail.
LEMMA Taken ==
  ASSUME ItemPlaces, NEW p \in Procs, NEW S, NEW X,
         \A i \in Items : i \in X <=> \/ i \in mailbox /\ i \notin mailbox'
                                      \/ \E s \in TurnStates : s \in S /\ Waits(i, s),
         mailbox' \subseteq mailbox, UNCHANGED <<recorded, dropped, sent>>,
         \A i \in Items, s \in TurnStates : Waits(i, s)' <=> Waits(i, s) /\ s \notin S,
         \A i \in Items, q \in Procs : Holds(i, q)' <=> Holds(i, q) \/ (q = p /\ i \in X)
  PROVE  ItemPlaces'
BY DEF ItemPlaces

\* By a step in which a process puts some of what it holds into a turn state.
LEMMA PutIn ==
  ASSUME ItemPlaces, NEW p \in Procs, NEW a \in TurnStates, NEW X,
         \A i \in Items : i \in X => Holds(i, p),
         UNCHANGED <<recorded, dropped, mailbox, sent>>,
         \A i \in Items, s \in TurnStates :
            Waits(i, s)' <=> Waits(i, s) \/ (s = a /\ i \in X),
         \A i \in Items, q \in Procs : Holds(i, q)' <=> Holds(i, q) /\ ~(q = p /\ i \in X)
  PROVE  ItemPlaces'
BY DEF ItemPlaces

\* By a step in which a process hands what it holds to one that holds nothing.
LEMMA HandedOver ==
  ASSUME ItemPlaces, NEW p \in Procs, NEW t \in Procs, t # p,
         \A i \in Items : ~Holds(i, t),
         UNCHANGED <<recorded, dropped, mailbox, sent>>,
         \A i \in Items, s \in TurnStates : Waits(i, s)' <=> Waits(i, s),
         \A i \in Items, q \in Procs :
            Holds(i, q)' <=> IF q = t THEN Holds(i, p) ELSE q # p /\ Holds(i, q)
  PROVE  ItemPlaces'
BY DEF ItemPlaces

\* By the submission of an item, which goes to one place.
LEMMA Submitted ==
  ASSUME ItemPlaces, NEW i \in Items, i \notin sent, sent' = sent \cup {i},
         recorded' = recorded,
         \/ /\ dropped' = dropped \cup {i} /\ mailbox' = mailbox
            /\ \A j \in Items, s \in TurnStates : Waits(j, s)' <=> Waits(j, s)
            /\ \A j \in Items, q \in Procs : Holds(j, q)' <=> Holds(j, q)
         \/ /\ dropped' = dropped /\ mailbox' = mailbox \cup {i}
            /\ \A j \in Items, s \in TurnStates : Waits(j, s)' <=> Waits(j, s)
            /\ \A j \in Items, q \in Procs : Holds(j, q)' <=> Holds(j, q)
         \/ /\ dropped' = dropped /\ mailbox' = mailbox
            /\ \E a \in TurnStates : \A j \in Items, s \in TurnStates :
                  Waits(j, s)' <=> Waits(j, s) \/ (j = i /\ s = a)
            /\ \A j \in Items, q \in Procs : Holds(j, q)' <=> Holds(j, q)
         \/ /\ dropped' = dropped /\ mailbox' = mailbox
            /\ \A j \in Items, s \in TurnStates : Waits(j, s)' <=> Waits(j, s)
            /\ \E p \in Procs : \A j \in Items, q \in Procs :
                  Holds(j, q)' <=> Holds(j, q) \/ (j = i /\ q = p)
  PROVE  ItemPlaces'
BY DEF ItemPlaces

\* Items are where they were when the references and the turn states are, up to
\* turn states in which nothing waits.
LEMMA SameWaits ==
  ASSUME TypeOK,
         \A s \in TurnStates : s = active'.ts \/ (\E p \in Procs : s = reg'[p].ts) =>
            \/ pend'[s] = {}
            \/ pend'[s] = pend[s] /\ (s = active.ts \/ \E p \in Procs : s = reg[p].ts),
         \A s \in TurnStates : s = active.ts \/ (\E p \in Procs : s = reg[p].ts) =>
            \/ pend[s] = {}
            \/ pend'[s] = pend[s] /\ (s = active'.ts \/ \E p \in Procs : s = reg'[p].ts)
  PROVE  \A i \in Items, s \in TurnStates : Waits(i, s)' <=> Waits(i, s)
BY DEF Waits

\* Locals that stay hold what they held.
LEMMA SameHolds ==
  ASSUME \A p \in Procs : reg'[p].items = reg[p].items /\ reg'[p].input = reg[p].input
  PROVE  \A i \in Items, p \in Procs : Holds(i, p)' <=> Holds(i, p)
BY DEF Holds

\* A process that goes somewhere moves no item.
LEMMA GoesPlaces ==
  ASSUME TypeOK, ItemPlaces, reg' = reg, active'.ts = active.ts, pend' = pend,
         UNCHANGED <<recorded, dropped, mailbox, sent>>
  PROVE  ItemPlaces'
<1>1. \A i \in Items, s \in TurnStates : Waits(i, s)' <=> Waits(i, s)
  BY DEF Waits
<1>2. \A i \in Items, p \in Procs : Holds(i, p)' <=> Holds(i, p)
  BY DEF Holds
<1> QED
  BY <1>1, <1>2, SamePlaces

\* A process that gives back locals in which there is nothing moves no item.
LEMMA ClearedPlaces ==
  ASSUME TypeOK, ItemPlaces, NEW p \in Procs, NEW label, NEW turn,
         Puts(p, label, 0, {}, {}, turn, 0),
         reg[p].items = {}, reg[p].input = {},
         reg[p].ts # 0 => reg[p].ts \in TurnStates /\ pend[reg[p].ts] = {},
         active'.ts = active.ts \/ (active'.ts = 0 /\ active.ts = reg[p].ts),
         pend' = pend, UNCHANGED <<recorded, dropped, mailbox, sent>>
  PROVE  ItemPlaces'
<1>1. \A i \in Items, s \in TurnStates : Waits(i, s)' <=> Waits(i, s)
  <2>1. \A s \in TurnStates : s = active'.ts \/ (\E q \in Procs : s = reg'[q].ts) =>
           s = active.ts \/ \E q \in Procs : s = reg[q].ts
    BY Numbers DEF Puts
  <2>2. \A s \in TurnStates : s = active.ts \/ (\E q \in Procs : s = reg[q].ts) =>
           pend[s] = {} \/ s = active'.ts \/ \E q \in Procs : s = reg'[q].ts
    BY Numbers DEF Puts
  <2> QED
    BY <2>1, <2>2, SameWaits
<1>2. \A i \in Items, q \in Procs : Holds(i, q)' <=> Holds(i, q)
  BY DEF Holds, Puts
<1> QED
  BY <1>1, <1>2, SamePlaces

\* By the submissions.
LEMMA SteerPlaces ==
  ASSUME TypeOK, References, Core, ItemPlaces, NEW i \in Inputs, SteerInput(i)
  PROVE  ItemPlaces'
<1> USE DEF ghosts
<1>1. /\ reg' = reg /\ active'.ts = active.ts /\ active.ts \in TurnStates
      /\ \A s \in TurnStates :
            pend'[s] = IF s = active.ts THEN pend[s] \cup {i} ELSE pend[s]
  BY SteerEffect, Kinds DEF References
<1>2. \A j \in Items, s \in TurnStates :
         Waits(j, s)' <=> Waits(j, s) \/ (j = i /\ s = active.ts)
  BY <1>1 DEF Waits
<1>3. \A j \in Items, q \in Procs : Holds(j, q)' <=> Holds(j, q)
  BY <1>1 DEF Holds
<1>4. /\ i \in Items /\ i \notin sent /\ sent' = sent \cup {i}
      /\ UNCHANGED <<recorded, dropped, mailbox>>
  BY DEF SteerInput, Items
<1> QED
  BY <1>1, <1>2, <1>3, <1>4, Submitted

\* A prompt that a compaction refuses is dropped.
LEMMA RefusePlaces ==
  ASSUME TypeOK, ItemPlaces, NEW i \in Inputs, RefuseInput(i)
  PROVE  ItemPlaces'
<1> USE DEF queue
<1>1. /\ i \in Items /\ i \notin sent /\ sent' = sent \cup {i}
      /\ recorded' = recorded /\ dropped' = dropped \cup {i} /\ mailbox' = mailbox
  BY DEF RefuseInput, Items
<1>2. \A j \in Items, s \in TurnStates : Waits(j, s)' <=> Waits(j, s)
  BY DEF Waits, RefuseInput
<1>3. \A j \in Items, q \in Procs : Holds(j, q)' <=> Holds(j, q)
  BY DEF Holds, RefuseInput
<1> QED
  BY <1>1, <1>2, <1>3, Submitted

\* The idle loop holds nothing and refers to nothing.
LEMMA IdleLoop ==
  ASSUME TypeOK, Core, pc[Loop] = "idle"
  PROVE  /\ reg[Loop].items = {} /\ reg[Loop].input = {} /\ reg[Loop].ts = 0
         /\ reg[Loop].victim = 0
BY Numbers DEF Core, Control, Locals, Carrying, Starting, Leaving

\* A prompt that starts a turn goes to the locals of the loop.
LEMMA StartInputPlaces ==
  ASSUME TypeOK, Core, ItemPlaces, NEW i \in Inputs, StartInput(i)
  PROVE  ItemPlaces'
<1> USE DEF queue, ghosts
<1>1. /\ i \in Items /\ i \notin sent /\ sent' = sent \cup {i} /\ pc[Loop] = "idle"
      /\ UNCHANGED <<recorded, dropped, mailbox, active, pend>>
  BY DEF StartInput, Items
<1>2. Puts(Loop, "abort", 0, {}, {i}, started + 1, 0)
  BY <1>1, SpawnEffect DEF StartInput
<1>3. reg[Loop].items = {} /\ reg[Loop].input = {} /\ reg[Loop].ts = 0 /\ Loop \in Procs
  BY <1>1, IdleLoop, Numbers
<1>4. \A j \in Items, s \in TurnStates : Waits(j, s)' <=> Waits(j, s)
  BY <1>1, <1>2, <1>3, SameWaits DEF Puts
<1>5. \A j \in Items, q \in Procs : Holds(j, q)' <=> Holds(j, q) \/ (j = i /\ q = Loop)
  BY <1>2, <1>3 DEF Holds, Puts
<1> QED
  BY <1>1, <1>3, <1>4, <1>5, Submitted

\* A mail goes to the mailbox.
LEMMA MailPlaces ==
  ASSUME TypeOK, Core, ItemPlaces, NEW m \in Mails, Mail(m)
  PROVE  ItemPlaces'
<1> USE DEF ghosts
<1>1. /\ m \in Items /\ m \notin sent /\ sent' = sent \cup {m} /\ pc[Loop] = "idle"
      /\ UNCHANGED <<recorded, dropped, active, pend>> /\ mailbox' = mailbox \cup {m}
  BY DEF Mail, Items
<1>2. reg[Loop].items = {} /\ reg[Loop].input = {} /\ reg[Loop].ts = 0 /\ Loop \in Procs
  BY <1>1, IdleLoop, Numbers
<1>3. \/ reg' = reg
      \/ Puts(Loop, "pending", 0, {}, {}, 0, 0)
  BY ClearsEffect, Numbers, LabelSets DEF Mail, LoopStates, StartStates
<1>4. \A j \in Items, s \in TurnStates : Waits(j, s)' <=> Waits(j, s)
  <2>1. \A q \in Procs : reg'[q].ts = reg[q].ts
    BY <1>2, <1>3 DEF Puts
  <2> QED
    BY <1>1, <2>1, SameWaits
<1>5. \A j \in Items, q \in Procs : Holds(j, q)' <=> Holds(j, q)
  BY <1>2, <1>3 DEF Holds, Puts
<1> QED
  BY <1>1, <1>4, <1>5, Submitted

\* A compaction and an interrupt bring no item.
LEMMA LoopBeginsPlaces ==
  ASSUME TypeOK, Core, ItemPlaces, Compact \/ Interrupt
  PROVE  ItemPlaces'
<1> USE DEF queue, ghosts
<1>1. /\ pc[Loop] = "idle" /\ UNCHANGED <<recorded, dropped, mailbox, sent, active, pend>>
      /\ Loop \in Procs
  BY Numbers DEF Compact, Interrupt
<1>2. \E turn : Puts(Loop, "abort", 0, {}, {}, turn, 0)
  <2>1. CASE Compact
    BY <2>1, SpawnEffect DEF Compact
  <2>2. CASE Interrupt
    BY <2>2, ClearsEffect, Numbers, LabelSets DEF Interrupt, LoopStates
  <2> QED
    BY <2>1, <2>2
<1>3. PICK turn : Puts(Loop, "abort", 0, {}, {}, turn, 0)
  BY <1>2
<1> QED
  BY <1>1, <1>3, IdleLoop, ClearedPlaces

\* By abort_all_tasks.
LEMMA AbortTakePlaces ==
  ASSUME TypeOK, References, Core, ItemPlaces, AbortTake
  PROVE  ItemPlaces'
<1> USE DEF ghosts, outside
<1>1. /\ pc[Loop] = "take" /\ active'.ts = 0 /\ Loop \in Procs
      /\ UNCHANGED <<recorded, dropped, mailbox, sent, pend>>
  BY AbortTakeEffect, Numbers DEF AbortTake, NoTurn
<1>2. reg[Loop].ts = 0
  BY <1>1 DEF Core, Control, Locals, Leaving
<1>3. CASE active.task = 0
  <2>1. reg' = reg
    BY <1>3, AbortTakeEffect DEF Goes
  <2>2. active.on => \E t \in Procs : reg[t].ts = active.ts
    <3>1. \A p \in Procs : pc[p] \notin Starting
      BY <1>1 DEF Core, Control, Reservation, Starting
    <3> QED
      BY <1>3, <3>1, Numbers DEF Core, Control, Reservation
  <2>3. ~active.on => active.ts = 0
    BY DEF References
  <2>4. \A i \in Items, s \in TurnStates : Waits(i, s)' <=> Waits(i, s)
    BY <1>1, <2>1, <2>2, <2>3, Numbers DEF Waits
  <2> QED
    BY <1>1, <2>1, <2>4, SameHolds, SamePlaces
<1>4. CASE active.task # 0
  <2>1. Puts(Loop, "grace", active.ts, reg[Loop].items, reg[Loop].input,
             reg[Loop].turn, active.task)
    BY <1>4, AbortTakeEffect
  <2>2. \A i \in Items, s \in TurnStates : Waits(i, s)' <=> Waits(i, s)
    BY <1>1, <1>2, <2>1, SameWaits, Numbers DEF Puts
  <2>3. \A i \in Items, p \in Procs : Holds(i, p)' <=> Holds(i, p)
    BY <2>1 DEF Puts, Holds
  <2> QED
    BY <1>1, <2>2, <2>3, SamePlaces
<1> QED
  BY <1>3, <1>4

\* What the aborted turn still had is dropped with it.
LEMMA AbortTaskPlaces ==
  ASSUME TypeOK, References, Core, ItemPlaces, AbortTask
  PROVE  ItemPlaces'
<1> USE DEF outside
<1> DEFINE t == reg[Loop].victim
           s == reg[Loop].ts
<1>1. /\ t \in Turns /\ s \in TurnStates
      /\ reg'[Loop].ts = 0
      /\ reg'[Loop].items = reg[Loop].items /\ reg'[Loop].input = reg[Loop].input
      /\ reg'[t] = NoReg
      /\ \A q \in Procs : q \notin {Loop, t} => pc'[q] = pc[q] /\ reg'[q] = reg[q]
      /\ \A x \in TurnStates : pend'[x] = IF x = s THEN {} ELSE pend[x]
  BY AbortTaskEffect
<1>2. /\ UNCHANGED <<active, mailbox, sent, recorded>>
      /\ dropped' = dropped \cup Held(t) \cup pend[s]
  BY DEF AbortTask
<1>3. NoReg.ts = 0 /\ NoReg.items = {} /\ NoReg.input = {}
  BY DEF NoReg
<1>4. pc[t] \in Body \cup Ended /\ t \in Procs /\ t # Loop /\ Loop \in Procs
  BY <1>1, Numbers DEF Core, Control, TaskInSession
<1>5. /\ reg[t].ts = 0
      /\ pc[t] \in Ended => reg[t].items = {} /\ reg[t].input = {}
  BY <1>1, <1>4 DEF Core, Control, Locals, Body, Ended, Leaving
<1>6. s = reg[Loop].ts
  OBVIOUS
<1> HIDE DEF t, s
<1>7. \A i \in Items, x \in TurnStates : Waits(i, x)' <=> Waits(i, x) /\ x \notin {s}
  BY <1>1, <1>2, <1>3, <1>4, <1>5, <1>6, Numbers DEF Waits
<1>8. \A i \in Items, p \in Procs : Holds(i, p)' <=> Holds(i, p) /\ p \notin {t}
  BY <1>1, <1>3, <1>4 DEF Holds
<1>9. \A i \in Items : i \in Held(t) \cup pend[s] <=>
                          \/ \E p \in Procs : p \in {t} /\ Holds(i, p)
                          \/ \E x \in TurnStates : x \in {s} /\ Waits(i, x)
  <2>1. \A i \in Items : i \in Held(t) <=> Holds(i, t)
    BY <1>5 DEF Held, Holds
  <2>2. \A i \in Items : i \in pend[s] <=> Waits(i, s)
    BY <1>4, <1>6 DEF Waits
  <2> QED
    BY <1>1, <1>4, <2>1, <2>2
<1>10. PICK P, S, X : P = {t} /\ S = {s} /\ X = Held(t) \cup pend[s]
  OBVIOUS
<1>11. recorded' = recorded /\ dropped' = dropped \cup X
  BY <1>2, <1>10
<1>12. /\ \A i \in Items : i \in X <=> \/ \E p \in Procs : p \in P /\ Holds(i, p)
                                       \/ \E x \in TurnStates : x \in S /\ Waits(i, x)
       /\ \A i \in Items, x \in TurnStates : Waits(i, x)' <=> Waits(i, x) /\ x \notin S
       /\ \A i \in Items, p \in Procs : Holds(i, p)' <=> Holds(i, p) /\ p \notin P
  BY <1>7, <1>8, <1>9, <1>10
<1> QED
  BY <1>2, <1>11, <1>12, Settled

\* By the start of a turn.
LEMMA ReservePlaces ==
  ASSUME TypeOK, References, Core, ItemPlaces, NEW p \in Procs, Reserve(p)
  PROVE  ItemPlaces'
<1> USE DEF ghosts
<1>1. /\ Puts(p, "cancel", 0, {}, {}, started + 1, 0) /\ active'.ts = FreshState
      /\ FreshState \in TurnStates /\ \A q \in Procs : FreshState # reg[q].ts
      /\ \A s \in TurnStates : pend'[s] = IF s = FreshState THEN {} ELSE pend[s]
  BY ReserveEffect
<1>2. /\ pc[p] = "reserve" /\ active.ts = 0
      /\ UNCHANGED <<recorded, dropped, mailbox, sent>>
  BY DEF Reserve, References
<1>3. reg[p].ts = 0 /\ reg[p].items = {} /\ reg[p].input = {}
  BY <1>2, Numbers DEF Core, Control, Locals, Leaving, Carrying, Starting
<1> HIDE DEF FreshState
<1>4. \A i \in Items, s \in TurnStates : Waits(i, s)' <=> Waits(i, s)
  BY <1>1, <1>2, <1>3, Numbers DEF Waits, Puts
<1>5. \A i \in Items, q \in Procs : Holds(i, q)' <=> Holds(i, q)
  BY <1>1, <1>3 DEF Holds, Puts
<1> QED
  BY <1>2, <1>4, <1>5, SamePlaces

\* What get_pending_input finds waits in the active turn or is mail it takes.
LEMMA PendingIsTaken ==
  ASSUME TypeOK, References, TakePending
  PROVE  /\ \A i \in Items : i \in PendingInput <=>
               \/ i \in mailbox /\ i \notin mailbox'
               \/ \E s \in TurnStates : s \in {active.ts} /\ Waits(i, s)
         /\ mailbox' \subseteq mailbox
         /\ \A s \in TurnStates :
               pend'[s] = IF s = active.ts THEN {} ELSE pend[s]
<1>1. /\ mailbox' = IF Accepts THEN {} ELSE mailbox
      /\ \A s \in TurnStates :
            pend'[s] = IF active.on /\ s = active.ts THEN {} ELSE pend[s]
  BY TakePendingEffect DEF References
<1>2. active.on => active.ts \in TurnStates
  BY Kinds DEF References
<1>3. ~active.on => active.ts \notin TurnStates
  BY Numbers DEF References
<1> QED
  BY <1>1, <1>2, <1>3 DEF PendingInput, TurnInput, Waits

\* start_task takes what is pending into its locals.
LEMMA GatherPlaces ==
  ASSUME TypeOK, References, Core, ItemPlaces, NEW p \in Procs, Gather(p)
  PROVE  ItemPlaces'
<1> USE DEF ghosts, outside
<1>1. /\ Puts(p, "insert", reg[p].ts, PendingInput, reg[p].input, reg[p].turn,
              reg[p].victim)
      /\ pc[p] = "gather" /\ TakePending
      /\ UNCHANGED <<active, recorded, dropped, sent>>
  BY GatherEffect DEF Gather
<1>2. reg[p].items = {}
  BY <1>1 DEF Core, Control, Locals
<1>3. /\ \A i \in Items : i \in PendingInput <=>
            \/ i \in mailbox /\ i \notin mailbox'
            \/ \E s \in TurnStates : s \in {active.ts} /\ Waits(i, s)
      /\ mailbox' \subseteq mailbox
      /\ \A s \in TurnStates :
            pend'[s] = IF s = active.ts THEN {} ELSE pend[s]
  BY <1>1, PendingIsTaken
<1> HIDE DEF PendingInput
<1>4. \A i \in Items, s \in TurnStates : Waits(i, s)' <=> Waits(i, s) /\ s \notin {active.ts}
  <2>1. \A q \in Procs : reg'[q].ts = reg[q].ts
    BY <1>1 DEF Puts
  <2> QED
    BY <1>1, <1>3, <2>1 DEF Waits
<1>5. \A i \in Items, q \in Procs :
         Holds(i, q)' <=> Holds(i, q) \/ (q = p /\ i \in PendingInput)
  BY <1>1, <1>2 DEF Holds, Puts
<1> QED
  BY <1>1, <1>3, <1>4, <1>5, Taken

\* start_task puts what it has gathered into the new turn state.
LEMMA InsertPlaces ==
  ASSUME TypeOK, References, Core, ItemPlaces, Distinct, NEW p \in Procs, Insert(p)
  PROVE  ItemPlaces'
<1> USE DEF ghosts, outside
<1>1. /\ Puts(p, "publish", active'.ts, {}, reg[p].input, reg[p].turn, reg[p].victim)
      /\ active'.on /\ active'.ts \in TurnStates
      /\ active.on => active' = active
      /\ ~active.on => /\ active'.ts = FreshState
                       /\ \A q \in Procs : FreshState # reg[q].ts
      /\ \A s \in TurnStates :
            pend'[s] = IF s = active'.ts
                       THEN reg[p].items \cup IF active.on THEN pend[s] ELSE {}
                       ELSE pend[s]
  BY InsertEffect
<1>2. pc[p] = "insert" /\ UNCHANGED <<recorded, dropped, mailbox, sent>>
  BY DEF Insert
<1>3. /\ reg[p].ts = 0 /\ reg[p].items \cap reg[p].input = {}
      /\ ~active.on => active.ts = 0
  BY <1>2, Numbers DEF Core, Control, Locals, Leaving, Distinct, References
<1> HIDE DEF FreshState
<1>4. \A i \in Items, s \in TurnStates :
         Waits(i, s)' <=> Waits(i, s) \/ (s = active'.ts /\ i \in reg[p].items)
  <2>1. \A q \in Procs : q # p => reg'[q].ts = reg[q].ts
    BY <1>1 DEF Puts
  <2>2. reg'[p].ts = active'.ts
    BY <1>1 DEF Puts
  <2>3. CASE active.on
    <3>1. \A s \in TurnStates :
             s \in {active'.ts} \cup {reg'[q].ts : q \in Procs}
                <=> s \in {active.ts} \cup {reg[q].ts : q \in Procs}
      BY <1>1, <1>3, <2>1, <2>2, <2>3, Numbers
    <3>2. active.ts = active'.ts /\ active'.ts \in {active.ts} \cup {reg[q].ts : q \in Procs}
      BY <1>1, <2>3
    <3>3. \A s \in TurnStates :
             pend'[s] = IF s = active'.ts THEN reg[p].items \cup pend[s] ELSE pend[s]
      BY <1>1, <2>3
    <3> QED
      BY <3>1, <3>2, <3>3 DEF Waits
  <2>4. CASE ~active.on
    BY <1>1, <1>3, <2>1, <2>2, <2>4, Numbers DEF Waits
  <2> QED
    BY <2>3, <2>4
<1>5. \A i \in Items, q \in Procs :
         Holds(i, q)' <=> Holds(i, q) /\ ~(q = p /\ i \in reg[p].items)
  BY <1>1, <1>3 DEF Holds, Puts
<1>6. \A i \in Items : i \in reg[p].items => Holds(i, p)
  BY DEF Holds
<1>7. PICK a, X : a \in TurnStates /\ a = active'.ts /\ X = reg[p].items
  BY <1>1
<1>8. /\ \A i \in Items, s \in TurnStates :
            Waits(i, s)' <=> Waits(i, s) \/ (s = a /\ i \in X)
      /\ \A i \in Items, q \in Procs :
            Holds(i, q)' <=> Holds(i, q) /\ ~(q = p /\ i \in X)
      /\ \A i \in Items : i \in X => Holds(i, p)
  BY <1>4, <1>5, <1>6, <1>7
<1>9. a \in TurnStates
  BY <1>7
<1> QED
  BY <1>2, <1>8, <1>9, PutIn

\* The input of the new turn passes from the starter to the task.
LEMMA PublishPlaces ==
  ASSUME TypeOK, References, Core, ItemPlaces, NEW p \in Procs, Publish(p)
  PROVE  ItemPlaces'
<1> USE DEF ghosts, outside
<1> DEFINE t == reg[p].turn
<1>1. /\ t \in Turns
      /\ active'.ts = IF active.on THEN active.ts ELSE FreshState
      /\ reg'[p] = NoReg
      /\ t # p => reg'[t].ts = 0 /\ reg'[t].items = {} /\ reg'[t].input = reg[p].input
      /\ \A q \in Procs : q \notin {p, t} => reg'[q] = reg[q]
      /\ \A s \in TurnStates :
            pend'[s] = IF s = active'.ts /\ ~active.on THEN {} ELSE pend[s]
  BY PublishEffect
<1>2. pc[p] = "publish" /\ UNCHANGED <<recorded, dropped, mailbox, sent>>
  BY DEF Publish
<1>3. pc[t] = "unused" /\ t \in Procs /\ t # p
  BY <1>1, <1>2, Numbers DEF Core, Control, Locals
<1> HIDE DEF t
<1>4. /\ active.on /\ reg[p].ts = active.ts /\ reg[p].items = {}
      /\ reg[t].ts = 0 /\ reg[t].items = {} /\ reg[t].input = {}
  BY <1>1, <1>2, <1>3 DEF Core, Control, Locals, Reservation, Starting, Leaving
<1>5. NoReg.ts = 0 /\ NoReg.items = {} /\ NoReg.input = {}
  BY DEF NoReg
<1>6. \A i \in Items, s \in TurnStates : Waits(i, s)' <=> Waits(i, s)
  BY <1>1, <1>3, <1>4, <1>5, Numbers DEF Waits
<1>7. \A i \in Items, q \in Procs :
         Holds(i, q)' <=> IF q = t THEN Holds(i, p) ELSE q # p /\ Holds(i, q)
  BY <1>1, <1>3, <1>4, <1>5 DEF Holds
<1>8. \A i \in Items : ~Holds(i, t)
  BY <1>4 DEF Holds
<1> QED
  BY <1>2, <1>3, <1>6, <1>7, <1>8, HandedOver

\* By the body of a task.
LEMMA RunPlaces ==
  ASSUME TypeOK, References, Core, ItemPlaces, NEW t \in Turns,
         Run(t) \/ Answer(t) \/ ToolCall(t) \/ SampleEnd(t)
  PROVE  ItemPlaces'
<1> USE DEF queue, ghosts, outside
<1>1. BodyStep(t) /\ t \in Procs
  BY RunEffect, Numbers
<1>2. /\ pc[t] # "fold" => reg[t].items = {}
      /\ pc[t] # "run" => reg[t].input = {}
  BY <1>1 DEF Core, Control, Locals, BodyStep, Body
<1>3. /\ sent' = sent /\ active'.ts = active.ts /\ \A p \in Procs : reg'[p].ts = reg[p].ts
      /\ \A p \in Procs : p # t => reg'[p] = reg[p]
  BY <1>1 DEF BodyStep
<1>4. pend' = pend => \A i \in Items, s \in TurnStates : Waits(i, s)' <=> Waits(i, s)
  BY <1>3 DEF Waits
<1>5. ASSUME RecordInput(t) \/ PreSamplingFails(t) \/ FoldPending(t) PROVE ItemPlaces'
  <2>1. reg'[t].items = {} /\ reg'[t].input = {}
    <3>1. pc'[t] # "fold"
      BY <1>1, <1>5, TypeParts DEF RecordInput, PreSamplingFails, FoldPending, Goto, ProcTypes
    <3> QED
      BY <1>1, <1>2, <1>5, <3>1 DEF BodyStep, RecordInput, PreSamplingFails, FoldPending
  <2>2. PICK X : X = reg[t].items \cup reg[t].input
    OBVIOUS
  <2>3. /\ \/ recorded' = recorded \cup X /\ dropped' = dropped
           \/ recorded' = recorded /\ dropped' = dropped \cup X
        /\ UNCHANGED <<pend, mailbox>>
    BY <1>2, <1>5, <2>2 DEF RecordInput, PreSamplingFails, FoldPending
  <2>4. PICK P, S : P = {t} /\ S = {}
    OBVIOUS
  <2>5. \A i \in Items, p \in Procs : Holds(i, p)' <=> Holds(i, p) /\ p \notin P
    BY <1>3, <2>1, <2>4 DEF Holds
  <2>6. \A i \in Items, s \in TurnStates : Waits(i, s)' <=> Waits(i, s) /\ s \notin S
    BY <1>4, <2>3, <2>4
  <2>7. \A i \in Items : i \in X <=> \/ \E p \in Procs : p \in P /\ Holds(i, p)
                                     \/ \E s \in TurnStates : s \in S /\ Waits(i, s)
    BY <1>1, <2>2, <2>4 DEF Holds
  <2> QED
    BY <1>3, <2>3, <2>5, <2>6, <2>7, Settled
<1>6. ASSUME DrainPending(t), reg[t].drain PROVE ItemPlaces'
  <2>1. /\ pc[t] = "drain" /\ TakePending /\ UNCHANGED <<active, recorded, dropped>>
        /\ reg' = [reg EXCEPT ![t].items = PendingInput]
    BY <1>6 DEF DrainPending
  <2>2. reg'[t].items = PendingInput /\ reg'[t].input = reg[t].input
    <3>1. reg \in [Procs -> Regs] /\ reg[t] \in Regs
      BY <1>1, TypeParts DEF ProcTypes
    <3>2. reg'[t] = [reg[t] EXCEPT !.items = PendingInput]
      BY <1>1, <2>1, <3>1
    <3> HIDE DEF PendingInput
    <3> QED
      BY <3>1, <3>2 DEF Regs
  <2>3. /\ \A i \in Items : i \in PendingInput <=>
              \/ i \in mailbox /\ i \notin mailbox'
              \/ \E s \in TurnStates : s \in {active.ts} /\ Waits(i, s)
        /\ mailbox' \subseteq mailbox
        /\ \A s \in TurnStates :
              pend'[s] = IF s = active.ts THEN {} ELSE pend[s]
    BY <2>1, PendingIsTaken
  <2> HIDE DEF PendingInput
  <2>4. \A i \in Items, s \in TurnStates : Waits(i, s)' <=> Waits(i, s) /\ s \notin {active.ts}
    BY <1>3, <2>3 DEF Waits
  <2>5. \A i \in Items, q \in Procs :
           Holds(i, q)' <=> Holds(i, q) \/ (q = t /\ i \in PendingInput)
    BY <1>1, <1>2, <1>3, <2>1, <2>2 DEF Holds
  <2> QED
    BY <1>1, <1>3, <2>1, <2>3, <2>4, <2>5, Taken
<1>7. ASSUME DrainPending(t), ~reg[t].drain PROVE ItemPlaces'
  <2>1. reg' = reg /\ UNCHANGED <<pend, mailbox, recorded, dropped>>
    BY <1>7 DEF DrainPending
  <2> QED
    BY <1>3, <2>1, GoesPlaces
<1>8. ASSUME \/ Answer(t) \/ ToolCall(t) \/ SampleEnd(t) \/ SampleBreak(t) \/ FollowUp(t)
             \/ RunEnds(t) \/ RunAgain(t)
      PROVE  ItemPlaces'
  <2>1. /\ pc[t] \in {"sample", "after", "again"} /\ pc'[t] # "fold"
        /\ UNCHANGED <<pend, mailbox, recorded, dropped>>
    BY <1>1, <1>8, TypeParts
    DEF Answer, ToolCall, SampleEnd, SampleBreak, FollowUp, RunEnds, RunAgain, Goto, ProcTypes
  <2>2. reg'[t].items = reg[t].items /\ reg'[t].input = reg[t].input
    BY <1>1, <1>2, <2>1 DEF BodyStep
  <2>3. \A p \in Procs : reg'[p].items = reg[p].items /\ reg'[p].input = reg[p].input
    BY <1>3, <2>2
  <2> QED
    BY <1>3, <1>4, <2>1, <2>3, SameHolds, SamePlaces
<1> QED
  BY <1>5, <1>6, <1>7, <1>8 DEF Run

\* By the end of a task.
LEMMA FinishPlaces ==
  ASSUME TypeOK, References, Core, ItemPlaces, NEW t \in Turns,
         Finish(t) \/ WarmupFinished(t)
  PROVE  ItemPlaces'
<1> USE DEF queue, ghosts, outside
<1>1. CASE AcquireGuard(t) \/ WarmupCancelled(t) \/ WarmupFinished(t)
  BY <1>1, GoesPlaces DEF AcquireGuard, WarmupCancelled, WarmupFinished
<1>2. CASE CheckCancelled(t)
  <2>1. /\ UNCHANGED <<active, pend, recorded, dropped, mailbox, sent>> /\ t \in Procs
        /\ reg[t].items = {} /\ reg[t].input = {} /\ reg[t].ts = 0
    BY <1>2, Numbers DEF CheckCancelled, Core, Control, Locals, Leaving
  <2>2. Puts(t, "done", 0, {}, {}, 0, 0) \/ reg' = reg
    BY <1>2, TeardownEffect DEF Goes
  <2> QED
    BY <2>1, <2>2, GoesPlaces, ClearedPlaces
<1>3. CASE Detach(t)
  <2>1. /\ UNCHANGED <<pend, recorded, dropped, mailbox, sent>> /\ t \in Procs
        /\ reg[t].items = {} /\ reg[t].input = {} /\ reg[t].ts = 0
    BY <1>3, Numbers DEF Detach, Core, Control, Locals, Leaving
  <2>2. CASE active.task = 0
    BY <1>3, <2>1, <2>2, DetachEffect, ClearedPlaces
  <2>3. CASE active.task # 0
    <3>1. /\ Puts(t, "flush", active.ts, reg[t].items, reg[t].input, reg[t].turn,
                  reg[t].victim)
          /\ active'.ts = active.ts
      BY <1>3, <2>3, DetachEffect
    <3>2. \A i \in Items, s \in TurnStates : Waits(i, s)' <=> Waits(i, s)
      BY <2>1, <3>1, SameWaits, Numbers DEF Puts
    <3>3. \A i \in Items, p \in Procs : Holds(i, p)' <=> Holds(i, p)
      BY <3>1 DEF Holds, Puts
    <3> QED
      BY <2>1, <3>2, <3>3, SamePlaces
  <2> QED
    BY <2>2, <2>3
<1>4. CASE Complete(t)
  <2>1. /\ reg' = reg /\ reg[t].ts \in TurnStates /\ t \in Procs
        /\ \A s \in TurnStates : pend'[s] = IF s = reg[t].ts THEN {} ELSE pend[s]
    BY <1>4, CompleteEffect, Numbers DEF Goes
  <2>2. PICK P, S, X : P = {} /\ S = {reg[t].ts} /\ X = pend[reg[t].ts]
    OBVIOUS
  <2>3. recorded' = recorded \cup X /\ UNCHANGED <<active, dropped, mailbox, sent>>
    BY <1>4, <2>2 DEF Complete
  <2>4. \A i \in Items, s \in TurnStates : Waits(i, s)' <=> Waits(i, s) /\ s \notin S
    BY <2>1, <2>2, <2>3 DEF Waits
  <2>5. \A i \in Items, p \in Procs : Holds(i, p)' <=> Holds(i, p) /\ p \notin P
    BY <2>1, <2>2 DEF Holds
  <2>6. \A i \in Items : i \in X <=> \/ \E p \in Procs : p \in P /\ Holds(i, p)
                                     \/ \E s \in TurnStates : s \in S /\ Waits(i, s)
    BY <2>1, <2>2 DEF Waits
  <2> QED
    BY <2>3, <2>4, <2>5, <2>6, Settled
<1>5. CASE ClearActive(t)
  <2>1. /\ UNCHANGED <<pend, recorded, dropped, mailbox, sent>> /\ t \in Procs
        /\ reg[t].items = {} /\ reg[t].input = {} /\ pc[t] = "clear"
    BY <1>5, Numbers DEF ClearActive, Core, Control, Locals
  <2>2. reg[t].ts # 0 => reg[t].ts \in TurnStates /\ pend[reg[t].ts] = {}
    BY <2>1, Kinds DEF Core, Flushed
  <2>3. \/ active'.ts = 0 /\ active.ts = reg[t].ts /\ Puts(t, "pending", 0, {}, {}, 0, 0)
        \/ active' = active /\ Puts(t, "done", 0, {}, {}, 0, 0)
    BY <1>5, ClearEffect DEF NoTurn
  <2> QED
    BY <2>1, <2>2, <2>3, ClearedPlaces
<1> QED
  BY <1>1, <1>2, <1>3, <1>4, <1>5 DEF Finish

-----------------------------------------------------------------------------
(* The inductive invariant.                                                    *)

\* Outside the insertion the loop has gathered nothing.
LEMMA DistinctKept ==
  ASSUME Core', Distinct, reg'[Loop] = reg[Loop] \/ pc'[Loop] # "insert"
  PROVE  Distinct'
<1>1. pc'[Loop] \notin {"fold", "insert"} => reg'[Loop].items = {}
  BY Numbers DEF Core, Control, Locals
<1>2. pc'[Loop] # "fold"
  BY DEF Core, Control, PlacesOfControl, LoopStates, StartStates
<1> QED
  BY <1>1, <1>2 DEF Distinct

\* Once the loop has overlapped the start of a turn, it has.
LEMMA OverlapStays ==
  ASSUME [Next]_vars, ~overlap'
  PROVE  ~overlap
<1> USE DEF queue, prewarm, ghosts, outside
<1>1. CASE Submission
  BY <1>1 DEF Submission, SteerInput, RefuseInput, StartInput, Compact, Interrupt, Mail,
     SpawnTask, LoopOverlaps
<1>2. CASE Abort
  BY <1>2 DEF Abort, AbortCancel, AbortTake, AbortTask
<1>3. ASSUME NEW p \in Procs, Start(p) PROVE ~overlap
  BY <1>3 DEF Start, CheckPending, ReserveTaken, Reserve, CancelWarmup, Barrier, Gather,
     Insert, Publish
<1>4. ASSUME NEW t \in Turns, Run(t) \/ Answer(t) \/ ToolCall(t) \/ SampleEnd(t)
      PROVE  ~overlap
  BY <1>4 DEF Run, RecordInput, PreSamplingFails, DrainPending, FoldPending, SampleBreak,
     FollowUp, RunEnds, RunAgain, Answer, ToolCall, SampleEnd
<1>5. ASSUME NEW t \in Turns, Finish(t) \/ WarmupFinished(t) PROVE ~overlap
  BY <1>5 DEF Finish, AcquireGuard, CheckCancelled, Detach, Complete, WarmupCancelled,
     WarmupFinished, ClearActive
<1>6. ASSUME NEW token, ResumeWarmupEnds(token) PROVE ~overlap
  BY <1>6 DEF ResumeWarmupEnds
<1>7. CASE UNCHANGED vars
  BY <1>7 DEF vars
<1> QED
  BY <1>1, <1>2, <1>3, <1>4, <1>5, <1>6, <1>7 DEF Next

\* The operations of the loop keep the invariant.
LEMMA SubmissionKeeps ==
  ASSUME TypeOK, References, Core, ItemPlaces, Distinct, Submission, ~overlap'
  PROVE  Core' /\ ItemPlaces' /\ Distinct'
<1> USE DEF queue, prewarm, ghosts, outside
<1>1. ASSUME NEW i \in Inputs, SteerInput(i) PROVE Core' /\ ItemPlaces' /\ Distinct'
  BY <1>1, SteerCore, SteerPlaces DEF SteerInput, Distinct
<1>2. ASSUME NEW i \in Inputs, RefuseInput(i) PROVE Core' /\ ItemPlaces' /\ Distinct'
  BY <1>2, SameCore, RefusePlaces DEF RefuseInput, Distinct
<1>3. ASSUME NEW i \in Inputs, StartInput(i) PROVE Core' /\ ItemPlaces' /\ Distinct'
  <2>1. /\ Puts(Loop, "abort", 0, {}, {i}, started + 1, 0) /\ started' = started + 1
        /\ \A t \in Turns : pc[t] \notin Starting
    BY <1>3, SpawnEffect DEF StartInput, Items
  <2>2. /\ pc[Loop] = "idle" /\ started < MaxTurns /\ started + 1 # 0
        /\ UNCHANGED <<local, active, pend, guard, cancelled, terminal>>
    BY <1>3, Kinds DEF StartInput, SpawnTask
  <2>3. Core'
    BY <2>1, <2>2, LoopBegins
  <2> QED
    BY <1>3, <2>1, <2>3, StartInputPlaces, DistinctKept DEF Puts
<1>4. CASE Compact
  <2>1. /\ Puts(Loop, "abort", 0, {}, {}, started + 1, 0) /\ started' = started + 1
        /\ \A t \in Turns : pc[t] \notin Starting
    BY <1>4, SpawnEffect DEF Compact
  <2>2. /\ pc[Loop] = "idle" /\ started < MaxTurns
        /\ UNCHANGED <<local, active, pend, guard, cancelled, terminal>>
    BY <1>4 DEF Compact, SpawnTask
  <2>3. Core'
    BY <2>1, <2>2, LoopBegins
  <2> QED
    BY <1>4, <2>1, <2>3, LoopBeginsPlaces, DistinctKept DEF Puts
<1>5. CASE Interrupt
  <2>1. Puts(Loop, "abort", 0, {}, {}, 0, 0)
    BY <1>5, ClearsEffect, Numbers, LabelSets DEF Interrupt, LoopStates
  <2>2. /\ pc[Loop] = "idle" /\ \A t \in Turns : pc[t] \notin Starting
        /\ UNCHANGED <<local, active, pend, guard, started, cancelled, terminal>>
    BY <1>5 DEF Interrupt, LoopOverlaps, Starting, StartStates
  <2>3. Core'
    BY <2>1, <2>2, LoopBegins
  <2> QED
    BY <1>5, <2>1, <2>3, LoopBeginsPlaces, DistinctKept DEF Puts
<1>6. ASSUME NEW m \in Mails, Mail(m) PROVE Core' /\ ItemPlaces' /\ Distinct'
  <2>0. ItemPlaces'
    BY <1>6, MailPlaces
  <2>1. CASE m \in Triggers
    <3>1. Puts(Loop, "pending", 0, {}, {}, 0, 0)
      BY <1>6, <2>1, ClearsEffect, Numbers, LabelSets DEF Mail, LoopStates, StartStates
    <3>2. /\ pc[Loop] = "idle" /\ \A t \in Turns : pc[t] \notin Starting
          /\ UNCHANGED <<local, active, pend, guard, started, cancelled, terminal>>
      BY <1>6, <2>1 DEF Mail, LoopOverlaps, Starting, StartStates
    <3>3. Core'
      BY <3>1, <3>2, LoopBegins
    <3> QED
      BY <2>0, <3>1, <3>3, DistinctKept DEF Puts
  <2>2. CASE m \notin Triggers
    BY <1>6, <2>0, <2>2, SameCore DEF Mail, Distinct
  <2> QED
    BY <2>1, <2>2
<1> QED
  BY <1>1, <1>2, <1>3, <1>4, <1>5, <1>6 DEF Submission

\* abort_all_tasks keeps the invariant.
LEMMA AbortKeeps ==
  ASSUME TypeOK, References, Core, ItemPlaces, Distinct, Abort
  PROVE  Core' /\ ItemPlaces' /\ Distinct'
<1> USE DEF queue, ghosts, outside
<1>1. CASE AbortCancel
  <2>1. Core'
    BY <1>1, AbortCancelCore
  <2>2. ItemPlaces'
    BY <1>1, GoesPlaces DEF AbortCancel
  <2> QED
    BY <1>1, <2>1, <2>2, DistinctKept DEF AbortCancel
<1>2. CASE AbortTake
  <2>1. pc'[Loop] # "insert"
    BY <1>2, AbortTakeEffect, LabelSets DEF Goes, Puts
  <2> QED
    BY <1>2, <2>1, AbortTakeCore, AbortTakePlaces, DistinctKept
<1>3. CASE AbortTask
  <2>1. pc'[Loop] = AfterAbort("pending")
    BY <1>3, AbortTaskEffect
  <2>2. pc'[Loop] # "insert"
    BY <2>1, LabelSets
  <2> QED
    BY <1>3, <2>2, AbortTaskCore, AbortTaskPlaces, DistinctKept
<1> QED
  BY <1>1, <1>2, <1>3 DEF Abort

\* A start of a turn, by the loop or by the tail of another, keeps it.
LEMMA StartKeeps ==
  ASSUME TypeOK, References, Core, ItemPlaces, Distinct, NEW p \in Procs, Start(p), ~overlap'
  PROVE  Core' /\ ItemPlaces' /\ Distinct'
<1> USE DEF queue, ghosts, outside
<1>1. CASE CheckPending(p) \/ ReserveTaken(p) \/ CancelWarmup(p) \/ Barrier(p)
  <2>1. /\ reg' = reg /\ guard' = guard
        /\ UNCHANGED <<local, active, pend, mailbox, started, cancelled, terminal,
                       recorded, dropped, sent>>
    BY <1>1, StartLooks
    DEF CheckPending, ReserveTaken, CancelWarmup, Barrier, prewarm, Goes
  <2>2. PICK from, label :
           /\ Goes(p, label) /\ pc[p] = from
           /\ \/ from \in {"pending", "reserve"} /\ label \in {AtRest(p), "reserve"}
              \/ from = "cancel" /\ label = "barrier"
              \/ from = "barrier" /\ label = "gather" /\ guard = Nobody
    BY <1>1, StartLooks DEF CheckPending, ReserveTaken, CancelWarmup, Barrier
  <2>3. Core'
    BY <2>1, <2>2, StartLooksCore
  <2>4. ItemPlaces'
    BY <2>1, GoesPlaces
  <2> QED
    BY <2>1, <2>3, <2>4, DistinctKept
<1>2. CASE Reserve(p)
  <2>1. Puts(p, "cancel", 0, {}, {}, started + 1, 0)
    BY <1>2, ReserveEffect
  <2>2. reg'[Loop] = reg[Loop] \/ pc'[Loop] # "insert"
    BY <2>1, Numbers DEF Puts
  <2> QED
    BY <1>2, <2>2, ReserveCore, ReservePlaces, DistinctKept
<1>3. CASE Gather(p)
  <2>1. Core' /\ ItemPlaces'
    BY <1>3, GatherCore, GatherPlaces
  <2>2. /\ Puts(p, "insert", reg[p].ts, PendingInput, reg[p].input, reg[p].turn,
                reg[p].victim)
        /\ TakePending
    BY <1>3, GatherEffect DEF Gather
  <2>3. CASE p = Loop
    <3>1. \A i \in Items : i \in PendingInput =>
             i \in mailbox \/ \E s \in TurnStates : Waits(i, s)
      BY <2>2, PendingIsTaken
    <3>2. \A i \in Items : i \in reg[Loop].input => Holds(i, Loop)
      BY DEF Holds
    <3>3. \A i \in Items : ~(i \in PendingInput /\ i \in reg[Loop].input)
      BY <3>1, <3>2, Numbers DEF ItemPlaces
    <3>4. PendingInput \subseteq Items
      BY <2>2, TakePendingEffect DEF References
    <3> HIDE DEF PendingInput
    <3>5. reg'[Loop].items = PendingInput /\ reg'[Loop].input = reg[Loop].input
      BY <2>2, <2>3 DEF Puts
    <3> QED
      BY <2>1, <3>3, <3>4, <3>5 DEF Distinct
  <2>4. CASE p # Loop
    <3>1. reg'[Loop] = reg[Loop]
      BY <2>2, <2>4, Numbers DEF Puts
    <3> QED
      BY <2>1, <3>1, DistinctKept
  <2> QED
    BY <2>3, <2>4
<1>4. CASE Insert(p)
  <2>1. Puts(p, "publish", active'.ts, {}, reg[p].input, reg[p].turn, reg[p].victim)
    BY <1>4, InsertEffect
  <2>2. reg'[Loop] = reg[Loop] \/ pc'[Loop] # "insert"
    BY <2>1, Numbers DEF Puts
  <2> QED
    BY <1>4, <2>2, InsertCore, InsertPlaces, DistinctKept
<1>5. CASE Publish(p)
  <2> DEFINE t == reg[p].turn
  <2>1. /\ t \in Turns /\ reg'[p] = NoReg
        /\ \A q \in Procs : q \notin {p, t} => reg'[q] = reg[q]
    BY <1>5, PublishEffect
  <2>2. pc'[p] = AtRest(p)
    BY <1>5, PublishEffect
  <2> HIDE DEF t
  <2>3. reg'[Loop] = reg[Loop] \/ pc'[Loop] # "insert"
    BY <2>1, <2>2, Numbers DEF AtRest
  <2> QED
    BY <1>5, <2>3, PublishCore, PublishPlaces, DistinctKept
<1> QED
  BY <1>1, <1>2, <1>3, <1>4, <1>5 DEF Start

\* The task of a turn keeps it, to the end of on_task_finished.
LEMMA TaskKeeps ==
  ASSUME TypeOK, References, Core, ItemPlaces, Distinct, NEW t \in Turns,
         \/ Run(t) \/ Answer(t) \/ ToolCall(t) \/ SampleEnd(t)
         \/ Finish(t) \/ WarmupFinished(t)
  PROVE  Core' /\ ItemPlaces' /\ Distinct'
<1>1. CASE Run(t) \/ Answer(t) \/ ToolCall(t) \/ SampleEnd(t)
  <2>1. BodyStep(t)
    BY <1>1, RunEffect
  <2>2. reg'[Loop] = reg[Loop]
    BY <2>1, Numbers DEF BodyStep
  <2> QED
    BY <1>1, <2>1, <2>2, BodyCore, RunPlaces, DistinctKept
<1>2. CASE Finish(t) \/ WarmupFinished(t)
  <2>1. Core'
    BY <1>2, AcquireCore, CheckCancelledCore, DetachCore, CompleteCore, WarmupCore, ClearCore
    DEF Finish
  <2>2. reg'[Loop] = reg[Loop]
    <3>1. CASE AcquireGuard(t) \/ WarmupCancelled(t) \/ WarmupFinished(t)
      BY <3>1 DEF AcquireGuard, WarmupCancelled, WarmupFinished
    <3>2. CASE CheckCancelled(t)
      BY <3>2, TeardownEffect, Numbers DEF Goes, Puts
    <3>3. CASE Detach(t)
      BY <3>3, DetachEffect, Numbers DEF Puts
    <3>4. CASE Complete(t)
      BY <3>4, CompleteEffect DEF Goes
    <3>5. CASE ClearActive(t)
      BY <3>5, ClearEffect, Numbers DEF Puts
    <3> QED
      BY <1>2, <3>1, <3>2, <3>3, <3>4, <3>5 DEF Finish
  <2> QED
    BY <1>2, <2>1, <2>2, FinishPlaces, DistinctKept
<1> QED
  BY <1>1, <1>2

\* Every step keeps the invariant, or begins an overlap.
LEMMA NextIInv ==
  ASSUME IInv, [Next]_vars
  PROVE  IInv'
<1>1. TypeOK' /\ References'
  BY NextReferences DEF IInv
<1>2. ASSUME ~overlap' PROVE Core' /\ ItemPlaces' /\ Distinct'
  <2>1. TypeOK /\ References /\ Core /\ ItemPlaces /\ Distinct
    BY <1>2, OverlapStays DEF IInv
  <2>2. ASSUME NEW token, ResumeWarmupEnds(token) PROVE Core' /\ ItemPlaces' /\ Distinct'
    <3>1. Core'
      BY <2>1, <2>2, ResumeCore
    <3>2. ItemPlaces'
      BY <2>1, <2>2, GoesPlaces DEF ResumeWarmupEnds, queue, ghosts, outside
    <3> QED
      BY <2>1, <2>2, <3>1, <3>2, DistinctKept DEF ResumeWarmupEnds
  <2>3. CASE UNCHANGED vars
    <3>1. UNCHANGED <<local, active, pend, mailbox, guard, pc, reg, started, cancelled,
                      terminal, recorded, dropped, sent>>
      BY <2>3 DEF vars, queue, prewarm, ghosts, outside
    <3>2. Core'
      BY <2>1, <3>1, SameCore
    <3>3. ItemPlaces'
      BY <2>1, <3>1, GoesPlaces
    <3> QED
      BY <2>1, <3>1, <3>2, <3>3, DistinctKept
  <2> QED
    BY <1>2, <2>1, <2>2, <2>3, SubmissionKeeps, AbortKeeps, StartKeeps, TaskKeeps DEF Next
<1> QED
  BY <1>1, <1>2 DEF IInv

\* A new or a resumed session satisfies it.
LEMMA InitIInv == Init => IInv
<1> SUFFICES ASSUME Init PROVE IInv
  OBVIOUS
<1>1. /\ pc = [p \in Procs |-> IF p = Loop THEN "idle" ELSE "unused"]
      /\ reg = [p \in Procs |-> NoReg] /\ active = NoTurn
      /\ pend = [s \in TurnStates |-> {}] /\ terminal = [t \in Turns |-> "none"]
      /\ guard \in {Nobody, Resume} /\ (~local => guard = Nobody)
      /\ recorded = {} /\ dropped = {} /\ sent = {} /\ mailbox = {} /\ cancelled = {}
      /\ started = 0
  BY DEF Init
<1>2. NoTurn \in Actives /\ ~NoTurn.on /\ NoTurn.task = 0 /\ NoTurn.ts = 0
  BY DEF NoTurn, Actives
<1>3. /\ NoReg \in Regs /\ NoReg.ts = 0 /\ NoReg.items = {} /\ NoReg.input = {}
      /\ NoReg.turn = 0 /\ NoReg.victim = 0
  BY NoRegType DEF NoReg
<1>4. /\ \A p \in Procs : reg[p] = NoReg
      /\ \A t \in Turns : pc[t] = "unused" /\ terminal[t] = "none"
      /\ pc[Loop] = "idle" /\ \A s \in TurnStates : pend[s] = {}
  BY <1>1, Numbers
<1>5. TypeOK
  <2>1. ProcTypes
    BY <1>1, <1>3, LabelSets DEF ProcTypes, LoopStates, TaskStates
  <2>2. /\ pend \in [TurnStates -> SUBSET Items]
        /\ terminal \in [Turns -> {"none", "complete", "aborted", "twice"}]
    BY <1>1
  <2>3. /\ ops \in [interrupt : 0..MaxInterrupts, compact : 0..MaxCompacts]
        /\ started \in 0..MaxTurns
    BY <1>1, TurnTasksAssumption DEF Init
  <2>4. active \in Actives /\ guard \in {Nobody, Resume} \cup Turns
    BY <1>1, <1>2
  <2>5. /\ local \in BOOLEAN /\ warmup \in {"fresh", "cancelled"} /\ overlap \in BOOLEAN
        /\ mailbox \subseteq Mails /\ cancelled \subseteq Turns
        /\ recorded \subseteq Items /\ dropped \subseteq Items /\ sent \subseteq Items
    BY <1>1 DEF Init
  <2>6. SessionTypes
    BY <2>2, <2>3, <2>4, <2>5 DEF SessionTypes
  <2> QED
    BY <2>1, <2>6, TypeParts
<1>6. \A p \in Procs : pc[p] \in {"idle", "unused"}
  BY <1>4, Numbers
<1>7. References
  BY <1>1, <1>2, <1>6, Numbers DEF References, Starting
<1>8. PlacesOfControl
  BY <1>1, <1>4 DEF PlacesOfControl, LoopStates, TaskStates
<1>9. Locals
  <2>1. \A p \in Procs : \A t \in Turns : reg[p].turn # t
    BY <1>3, <1>4, Numbers
  <2> QED
    BY <1>3, <1>4, <1>6, <2>1, Numbers DEF Locals, Leaving
<1>10. TaskInSession /\ Reservation
  BY <1>1, <1>2, <1>3, <1>4, <1>6, Numbers DEF TaskInSession, Reservation, Body, Starting
<1>11. Flushed /\ GuardHeld /\ Terminals
  BY <1>1, <1>4, <1>6, Numbers DEF Flushed, GuardHeld, Terminals, Body, Starting, Ended
<1>12. ItemPlaces /\ Distinct
  BY <1>1, <1>3, <1>4, Numbers DEF ItemPlaces, Distinct, Waits, Holds
<1> QED
  BY <1>5, <1>7, <1>8, <1>9, <1>10, <1>11, <1>12 DEF IInv, Core, Control

-----------------------------------------------------------------------------
(* The theorems.                                                               *)

\* The inductive invariant holds of every session the code can be in.
THEOREM Invariance == Spec => []IInv
<1>1. IInv /\ [Next]_vars => IInv'
  BY NextIInv
<1> QED
  BY InitIInv, <1>1, PTL DEF Spec

\* start_task, on_task_finished, abort_all_tasks and the turn loop keep the
\* shape of the session, of the turns and of their locals, overlap or not.
THEOREM TypesHold == Spec => []TypeOK
<1>1. IInv => TypeOK
  BY DEF IInv
<1> QED
  BY Invariance, <1>1, PTL

\* on_task_finished and abort_all_tasks: between them every turn that ended has
\* sent TurnComplete or TurnAborted, and only one of the two.
THEOREM OneTerminalEventHolds == Spec => []OneTerminalEvent
<1>1. IInv => OneTerminalEvent
  <2> SUFFICES ASSUME IInv, ~overlap, NEW t \in Turns
               PROVE  /\ terminal[t] # "twice"
                      /\ pc[t] \in Ended /\ reg[Loop].victim # t => terminal[t] # "none"
    BY DEF OneTerminalEvent
  <2>1. Terminals /\ PlacesOfControl
    BY DEF IInv, Core, Control
  <2>2. pc[t] \in TaskStates
    BY <2>1 DEF PlacesOfControl
  <2>3. \/ pc[t] \in {"unused", "flush"} \cup Body \/ pc[t] \in Ended
        \/ pc[t] \in {"warm", "clear", "pending", "reserve"} \cup Starting
    BY <2>2 DEF TaskStates, StartStates, Body, Starting
  <2> QED
    BY <2>1, <2>3 DEF Terminals
<1> QED
  BY Invariance, <1>1, PTL

\* start_task's barrier and the teardown's warm-up: nobody holds prewarm_lock
\* while the local server samples for a turn.
THEOREM WarmupExcludesSamplingHolds == Spec => []WarmupExcludesSampling
<1>1. IInv => WarmupExcludesSampling
  <2> SUFFICES ASSUME IInv, ~overlap, NEW t \in Turns, pc[t] = "sample"
               PROVE  guard = Nobody
    BY DEF WarmupExcludesSampling
  <2> QED
    BY DEF IInv, Core, GuardHeld, Body
<1> QED
  BY Invariance, <1>1, PTL

\* Places, in the words of the inductive invariant.
LEMMA PlacesAre ==
  ASSUME NEW i
  PROVE  \A x : x \in Places(i) <=>
            \/ x = <<"session", 1>> /\ i \in recorded
            \/ x = <<"session", 2>> /\ i \in dropped
            \/ x = <<"session", 3>> /\ i \in mailbox
            \/ \E s \in TurnStates : x = <<"state", s>> /\ Waits(i, s)
            \/ \E p \in Procs : x = <<"locals", p>> /\ Holds(i, p)
<1>1. \A n \in 1..3 : i \in <<recorded, dropped, mailbox>>[n] <=>
         \/ n = 1 /\ i \in recorded
         \/ n = 2 /\ i \in dropped
         \/ n = 3 /\ i \in mailbox
  <2> SUFFICES ASSUME NEW n \in 1..3
               PROVE  i \in <<recorded, dropped, mailbox>>[n] <=>
                         \/ n = 1 /\ i \in recorded
                         \/ n = 2 /\ i \in dropped
                         \/ n = 3 /\ i \in mailbox
    OBVIOUS
  <2>1. n = 1 \/ n = 2 \/ n = 3
    OBVIOUS
  <2>2. /\ <<recorded, dropped, mailbox>>[1] = recorded
        /\ <<recorded, dropped, mailbox>>[2] = dropped
        /\ <<recorded, dropped, mailbox>>[3] = mailbox
    OBVIOUS
  <2> QED
    BY <2>1, <2>2
<1>2. 1 \in 1..3 /\ 2 \in 1..3 /\ 3 \in 1..3
  OBVIOUS
<1>3. \A x : x \in {<<"session", n>> : n \in {n \in 1..3 : i \in <<recorded, dropped, mailbox>>[n]}}
        <=> \/ x = <<"session", 1>> /\ i \in recorded
            \/ x = <<"session", 2>> /\ i \in dropped
            \/ x = <<"session", 3>> /\ i \in mailbox
  BY <1>1, <1>2
<1> QED
  BY <1>3 DEF Places, Waits, Holds

\* An item that was submitted is in one place.
LEMMA OnePlace ==
  ASSUME ItemPlaces, NEW i \in Items, i \in sent
  PROVE  \E x : Places(i) = {x}
<1> DEFINE In(x) == \/ x = <<"session", 1>> /\ i \in recorded
                    \/ x = <<"session", 2>> /\ i \in dropped
                    \/ x = <<"session", 3>> /\ i \in mailbox
                    \/ \E s \in TurnStates : x = <<"state", s>> /\ Waits(i, s)
                    \/ \E p \in Procs : x = <<"locals", p>> /\ Holds(i, p)
<1>1. \A x : x \in Places(i) <=> In(x)
  BY PlacesAre
<1>2. /\ \/ i \in recorded \/ i \in dropped \/ i \in mailbox
         \/ \E s \in TurnStates : Waits(i, s)
         \/ \E p \in Procs : Holds(i, p)
      /\ i \in recorded => i \notin dropped
      /\ i \in recorded \cup dropped => i \notin mailbox
      /\ i \in recorded \cup dropped \cup mailbox =>
            /\ \A s \in TurnStates : ~Waits(i, s)
            /\ \A p \in Procs : ~Holds(i, p)
      /\ \A s, r \in TurnStates : Waits(i, s) /\ Waits(i, r) => s = r
      /\ \A p, q \in Procs : Holds(i, p) /\ Holds(i, q) => p = q
      /\ \A s \in TurnStates, p \in Procs : ~(Waits(i, s) /\ Holds(i, p))
  BY DEF ItemPlaces
<1> HIDE DEF Waits, Holds, Places
<1>3. \E x : In(x) /\ \A y : In(y) => y = x
  <2>1. CASE i \in recorded
    <3>1. In(<<"session", 1>>) /\ \A y : In(y) => y = <<"session", 1>>
      BY <1>2, <2>1
    <3> QED
      BY <3>1
  <2>2. CASE i \in dropped
    <3>1. In(<<"session", 2>>) /\ \A y : In(y) => y = <<"session", 2>>
      BY <1>2, <2>2
    <3> QED
      BY <3>1
  <2>3. CASE i \in mailbox
    <3>1. In(<<"session", 3>>) /\ \A y : In(y) => y = <<"session", 3>>
      BY <1>2, <2>3
    <3> QED
      BY <3>1
  <2>4. ASSUME NEW s \in TurnStates, Waits(i, s)
        PROVE  \E x : In(x) /\ \A y : In(y) => y = x
    <3>1. In(<<"state", s>>) /\ \A y : In(y) => y = <<"state", s>>
      BY <1>2, <2>4
    <3> QED
      BY <3>1
  <2>5. ASSUME NEW p \in Procs, Holds(i, p)
        PROVE  \E x : In(x) /\ \A y : In(y) => y = x
    <3>1. In(<<"locals", p>>) /\ \A y : In(y) => y = <<"locals", p>>
      BY <1>2, <2>5
    <3> QED
      BY <3>1
  <2> QED
    BY <1>2, <2>1, <2>2, <2>3, <2>4, <2>5
<1> HIDE DEF In
<1>4. PICK x : In(x) /\ \A y : In(y) => y = x
  BY <1>3
<1>5. Places(i) = {x}
  BY <1>1, <1>4
<1> QED
  BY <1>5

\* input_queue, inject and the turn loop: a prompt or a mail that was accepted
\* is never lost and never in two places, through every hand-over between the
\* mailbox, a turn's pending input, a task's locals and the history.
THEOREM NothingLostHolds == Spec => []NothingLost
<1>1. IInv => NothingLost
  <2> SUFFICES ASSUME IInv, ~overlap, NEW i \in sent
               PROVE  Cardinality(Places(i)) = 1
    BY DEF NothingLost
  <2>1. ItemPlaces /\ i \in Items
    BY DEF IInv, TypeOK
  <2>2. PICK x : Places(i) = {x}
    BY <2>1, OnePlace
  <2> QED
    BY <2>2, FS_Singleton
<1> QED
  BY Invariance, <1>1, PTL

\* start_task's debug_assert!(turn.task.is_none()) can only fail in a session
\* whose loop worked while the tail of a turn started another: without that the
\* slot of the active turn is free wherever a new turn is inserted.
THEOREM SlotIsFreeUnlessOverlap == Spec => [](~overlap => SlotIsFree)
<1>1. IInv => (~overlap => SlotIsFree)
  BY DEF IInv, Core, Control, Reservation, SlotIsFree, Starting
<1> QED
  BY Invariance, <1>1, PTL
=============================================================================
