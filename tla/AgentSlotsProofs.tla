--------------------------- MODULE AgentSlotsProofs ---------------------------
(* Proofs about AgentSlots for any number of threads, paths and operations.    *)
(* The counter of the registry is changed apart from the tree it stands for,   *)
(* so the bound is proved from an invariant that also counts the reservations  *)
(* and the decrements that are still to come.                                  *)
EXTENDS AgentSlots, FiniteSetTheorems, TLAPS

\* The actions of an operation that leave the registry's tree and its counter alone.
Local(o) ==
    \/ \E t \in Threads : AskResume(o, t) \/ AskSend(o, t) \/ AskStop(o, t)
    \/ \E names \in SUBSET Names : ReserveNickname(o, names)
    \/ PrepareUnnamed(o)
    \/ \E t \in Threads : SpawnThread(o, t)
    \/ FindResumed(o) \/ InsertResumed(o) \/ ResumedSettles(o) \/ SpawnFails(o)
    \/ SendInput(o) \/ StopThread(o) \/ StopFails(o) \/ RemoveThread(o) \/ Abort(o)

\* The actions of an operation that reserve its slot.
Starts(o) ==
    \/ \E p \in SpawnPaths : AskSpawn(o, p)
    \/ AskWorker(o) \/ StartResume(o)

\* The type of everything but the counter.
TypesButCount ==
    /\ agent_tree \in [Keys -> Threads \cup {Free, Held}]
    /\ nickname \in [Keys -> Nicknames \cup {NoName}]
    /\ used \subseteq Texts
    /\ resets \in 0..MaxResets
    /\ threads \subseteq Threads /\ running \subseteq Threads
    /\ known \subseteq Threads
    /\ stored_name \in [Threads -> Nicknames \cup {NoName}]
    /\ pc \in [Ops -> Steps]
    /\ kind \in [Ops -> {"none", "spawn", "worker", "resume"}]
    /\ target \in [Ops -> Threads \cup {None}]
    /\ path \in [Ops -> Paths \cup {None}]
    /\ drawn \in [Ops -> Nicknames \cup {NoName}]

\* An operation that leaves its arguments behind (Leaves) keeps their types.
LEMMA LeavesTypes ==
    ASSUME TypeOK, NEW o \in Ops, NEW to \in Steps, NEW p \in Paths \cup {None}, Leaves(o, to, p)
    PROVE  /\ pc' \in [Ops -> Steps]
           /\ kind' \in [Ops -> {"none", "spawn", "worker", "resume"}]
           /\ target' \in [Ops -> Threads \cup {None}]
           /\ path' \in [Ops -> Paths \cup {None}]
           /\ drawn' \in [Ops -> Nicknames \cup {NoName}]
BY DEF TypeOK, Leaves, Becomes, Goes

\* A step of the control flow (Goes) keeps the type of pc.
LEMMA GoesType ==
    ASSUME TypeOK, NEW o \in Ops, NEW to \in Steps, Goes(o, to)
    PROVE  pc' \in [Ops -> Steps]
BY DEF TypeOK, Goes

\* Registering the root keeps the tree's type and every other key.
LEMMA WithRootType ==
    ASSUME TypeOK
    PROVE  /\ WithRoot(agent_tree) \in [Keys -> Threads \cup {Free, Held}]
           /\ \A k \in Keys \ {RootPath} : WithRoot(agent_tree)[k] = agent_tree[k]
BY SlotsAssumption DEF TypeOK, WithRoot, Keys

\* The choice of its arguments (Becomes) keeps their types and those of the others.
LEMMA BecomesTypes ==
    ASSUME TypeOK, NEW o \in Ops, NEW k \in {"none", "spawn", "worker", "resume"},
           NEW t \in Threads \cup {None}, NEW p \in Paths \cup {None}, Becomes(o, k, t, p)
    PROVE  /\ kind' \in [Ops -> {"none", "spawn", "worker", "resume"}]
           /\ target' \in [Ops -> Threads \cup {None}]
           /\ path' \in [Ops -> Paths \cup {None}]
           /\ kind'[o] = k /\ target'[o] = t /\ path'[o] = p
           /\ \A q \in Ops \ {o} : kind'[q] = kind[q] /\ target'[q] = target[q] /\ path'[q] = path[q]
BY DEF TypeOK, Becomes

\* A step of one operation whose arguments fit its next step keeps Prepared.
LEMMA StepPrepared ==
    ASSUME TypeOK, Prepared, NEW o \in Ops, NEW to \in Steps, Goes(o, to),
           \A q \in Ops \ {o} : kind'[q] = kind[q] /\ target'[q] = target[q] /\ path'[q] = path[q],
           kind'[o] = "resume" \/ to \in {"asked", "spawning", "lifecycle", "ready"} => target'[o] \in Threads,
           kind'[o] = "worker" => path'[o] = None
    PROVE  Prepared'
<1> SUFFICES ASSUME NEW q \in Ops
             PROVE  /\ kind'[q] = "resume" \/ pc'[q] \in {"asked", "spawning", "lifecycle", "ready"}
                       => target'[q] \in Threads
                    /\ kind'[q] = "worker" => path'[q] = None
  BY DEF Prepared
<1>1. CASE q = o
  <2>1. pc'[q] = to
    BY <1>1 DEF Goes, TypeOK
  <2> QED BY <1>1, <2>1
<1>2. CASE q # o
  <2>1. /\ kind'[q] = kind[q] /\ pc'[q] = pc[q]
        /\ target'[q] = target[q] /\ path'[q] = path[q]
    BY <1>2 DEF Goes, TypeOK
  <2> QED BY <2>1 DEF Prepared
<1> QED BY <1>1, <1>2

\* An operation that leaves its arguments behind has nothing to be prepared for.
LEMMA LeavesPrepared ==
    ASSUME TypeOK, Prepared, NEW o \in Ops, NEW to \in Steps, NEW p, Leaves(o, to, p),
           to \notin {"asked", "spawning", "lifecycle", "ready"}
    PROVE  Prepared'
<1>1. /\ Goes(o, to) /\ kind'[o] = "none"
      /\ \A q \in Ops \ {o} : kind'[q] = kind[q] /\ target'[q] = target[q] /\ path'[q] = path[q]
  BY DEF Leaves, Becomes, TypeOK
<1> QED BY <1>1, StepPrepared

\* An operation that moves on with the arguments it chooses keeps types.
LEMMA BecomesKeeps ==
    ASSUME IInv, NEW o \in Ops, NEW to \in {"asked", "reserved", "sending", "stopping"},
           NEW k \in {"none", "spawn", "worker", "resume"},
           NEW t \in Threads \cup {None}, NEW p \in Paths \cup {None},
           Goes(o, to), Becomes(o, k, t, p),
           k = "resume" \/ to = "asked" => t \in Threads, k = "worker" => p = None,
           drawn' \in [Ops -> Nicknames \cup {NoName}], used' \subseteq Texts,
           agent_tree' \in [Keys -> Threads \cup {Free, Held}],
           nickname' \in [Keys -> Nicknames \cup {NoName}], UNCHANGED <<resets, manager>>
    PROVE  TypesButCount' /\ Prepared'
<1> USE DEF IInv
<1>1. to \in Steps /\ to \notin {"spawning", "lifecycle", "ready"}
  BY DEF Steps, Reserving
<1>2. /\ kind' \in [Ops -> {"none", "spawn", "worker", "resume"}]
      /\ target' \in [Ops -> Threads \cup {None}]
      /\ path' \in [Ops -> Paths \cup {None}]
      /\ kind'[o] = k /\ target'[o] = t /\ path'[o] = p
      /\ \A q \in Ops \ {o} : kind'[q] = kind[q] /\ target'[q] = target[q] /\ path'[q] = path[q]
  BY BecomesTypes
<1>3. TypesButCount'
  BY <1>1, <1>2, GoesType DEF TypeOK, TypesButCount, manager
<1> QED BY <1>1, <1>2, <1>3, StepPrepared

\* The operations that begin without a slot (AskResume, AskSend, AskStop) keep types.
LEMMA AskTypes ==
    ASSUME IInv, NEW o \in Ops,
           \E t \in Threads : AskResume(o, t) \/ AskSend(o, t) \/ AskStop(o, t)
    PROVE  TypesButCount' /\ Prepared'
<1> USE DEF IInv
<1>1. PICK to \in {"asked", "sending", "stopping"}, k \in {"none", "resume"}, t \in Threads :
        Asks(o, to, k, t)
  BY DEF AskResume, AskSend, AskStop
<1>2. Goes(o, to) /\ Becomes(o, k, t, None) /\ UNCHANGED <<registry, manager, drawn>>
  BY <1>1 DEF Asks, Moves
<1> QED
  BY <1>2, BecomesKeeps DEF registry, TypeOK

\* What an operation asks for when it reserves its slot.
LEMMA StartsWith ==
    ASSUME IInv, NEW o \in Ops, Starts(o)
    PROVE  /\ pc[o] \in {"idle", "asked"}
           /\ \E k \in {"spawn", "worker", "resume"}, t \in Threads \cup {None}, p \in Paths \cup {None} :
                 /\ ReserveSpawnSlot(o, k, t, p)
                 /\ k = "resume" => t \in Threads
                 /\ k = "worker" => p = None
                 /\ k \in {"spawn", "worker"} => t = None
BY SlotsAssumption DEF IInv, Prepared, TypeOK, Starts, AskSpawn, AskWorker, StartResume

\* An operation that leaves its arguments behind keeps types.
LEMMA LeavesKeeps ==
    ASSUME IInv, NEW o \in Ops, NEW to \in {"idle", "dropping", "uncounting"},
           NEW p \in Paths \cup {None}, Leaves(o, to, p), used' \subseteq Texts,
           UNCHANGED <<resets, manager>>,
           agent_tree' \in [Keys -> Threads \cup {Free, Held}],
           nickname' \in [Keys -> Nicknames \cup {NoName}]
    PROVE  TypesButCount' /\ Prepared'
<1> USE DEF IInv
<1>0. to \in Steps /\ to \notin {"asked", "spawning", "lifecycle", "ready"}
  BY DEF Steps, Reserving
<1>1. TypesButCount'
  BY <1>0, LeavesTypes DEF TypeOK, TypesButCount, manager
<1> QED BY <1>0, <1>1, LeavesPrepared

\* Drawing a nickname keeps types.
LEMMA TakesTypes ==
    ASSUME IInv, NEW o \in Ops, NEW n \in Nicknames, Goes(o, "named"),
           drawn' = [drawn EXCEPT ![o] = n], used' \subseteq used \cup {Format[n]},
           resets' \in 0..MaxResets, UNCHANGED <<agent_tree, nickname, manager, kind, target, path>>
    PROVE  TypesButCount' /\ Prepared'
<1> USE DEF IInv
<1>1. "named" \in Steps
  BY DEF Steps, Reserving
<1>2. pc' \in [Ops -> Steps]
  BY <1>1, GoesType
<1>3. used' \subseteq Texts
  BY DEF TypeOK, Texts
<1>4. drawn' \in [Ops -> Nicknames \cup {NoName}]
  BY DEF TypeOK
<1>5. TypesButCount'
  BY <1>2, <1>3, <1>4 DEF TypeOK, TypesButCount, manager
<1>6. (kind[o] = "resume" => target[o] \in Threads) /\ (kind[o] = "worker" => path[o] = None)
  BY DEF Prepared
<1> QED BY <1>1, <1>5, <1>6, StepPrepared

\* reserve_agent_nickname keeps types.
LEMMA NicknameTypes ==
    ASSUME IInv, NEW o \in Ops, NEW names \in SUBSET Names, ReserveNickname(o, names)
    PROVE  TypesButCount' /\ Prepared'
<1> USE DEF IInv
<1>1. UNCHANGED <<agent_tree, nickname, manager>>
  BY DEF ReserveNickname
<1>2. ASSUME NEW n, Goes(o, "named"), drawn' = [drawn EXCEPT ![o] = n],
             UNCHANGED <<kind, target, path>>, n \in Nicknames,
             used' \subseteq used \cup {Format[n]}, resets' \in 0..MaxResets
      PROVE  TypesButCount' /\ Prepared'
  BY <1>1, <1>2, TakesTypes
<1>3. CASE /\ kind[o] = "resume" /\ stored_name[target[o]] # NoName
           /\ Goes(o, "named") /\ drawn' = [drawn EXCEPT ![o] = stored_name[target[o]]]
           /\ UNCHANGED <<kind, target, path>>
           /\ used' = used \cup {Format[stored_name[target[o]]]} /\ UNCHANGED resets
  <2>1. stored_name[target[o]] \in Nicknames /\ resets' \in 0..MaxResets
    BY <1>3 DEF TypeOK, Prepared
  <2> QED BY <1>2, <1>3, <2>1
<1>4. ASSUME NEW n \in Candidates(names), Goes(o, "named"), drawn' = [drawn EXCEPT ![o] = n],
             UNCHANGED <<kind, target, path>>, used' = used \cup {Format[n]}, UNCHANGED resets
      PROVE  TypesButCount' /\ Prepared'
  <2>1. n \in Nicknames /\ resets' \in 0..MaxResets
    BY <1>4 DEF Candidates, Nicknames, TypeOK
  <2> QED BY <1>2, <1>4, <2>1
<1>5. ASSUME resets < MaxResets, resets' = resets + 1, NEW n \in names \X {resets + 1},
             Goes(o, "named"), drawn' = [drawn EXCEPT ![o] = n],
             UNCHANGED <<kind, target, path>>, used' = {Format[n]}
      PROVE  TypesButCount' /\ Prepared'
  <2>1. resets + 1 \in 0..MaxResets
    BY <1>5, SlotsAssumption DEF TypeOK
  <2>2. n \in Nicknames
    BY <2>1 DEF Nicknames
  <2> QED BY <1>2, <1>5, <2>1, <2>2
<1>6. CASE Drops(o, path[o]) /\ UNCHANGED <<used, resets>>
  <2>1. path[o] \in Paths \cup {None}
    BY DEF TypeOK
  <2> QED BY <1>1, <1>6, <2>1, LeavesKeeps DEF Drops, TypeOK
<1> QED
  BY <1>3, <1>4, <1>5, <1>6 DEF ReserveNickname

\* An operation that goes on with its arguments keeps types.
LEMMA GoesOn ==
    ASSUME IInv, NEW o \in Ops, NEW to \in Steps, Goes(o, to),
           UNCHANGED <<agent_tree, nickname, used, resets, stored_name, target, path, drawn>>,
           kind' \in {kind, [kind EXCEPT ![o] = "none"]},
           threads' \subseteq Threads, running' \subseteq Threads, known' \subseteq Threads,
           to \in {"asked", "spawning", "lifecycle", "ready"} => target[o] \in Threads
    PROVE  TypesButCount' /\ Prepared'
<1> USE DEF IInv
<1>1. pc' \in [Ops -> Steps]
  BY GoesType
<1>2. /\ kind' \in [Ops -> {"none", "spawn", "worker", "resume"}]
      /\ \A q \in Ops \ {o} : kind'[q] = kind[q]
      /\ kind'[o] \in {kind[o], "none"}
  BY DEF TypeOK
<1>3. TypesButCount'
  BY <1>1, <1>2 DEF TypeOK, TypesButCount
<1>4. (kind[o] = "resume" => target[o] \in Threads) /\ (kind[o] = "worker" => path[o] = None)
  BY DEF Prepared
<1> QED BY <1>2, <1>3, <1>4, StepPrepared

\* The steps that create a thread keep types.
LEMMA SpawnTypes ==
    ASSUME IInv, NEW o \in Ops,
           \/ \E t \in Threads : SpawnThread(o, t)
           \/ PrepareUnnamed(o) \/ FindResumed(o) \/ InsertResumed(o) \/ ResumedSettles(o)
           \/ SpawnFails(o)
    PROVE  TypesButCount' /\ Prepared'
<1> USE DEF IInv
<1>0. {"named", "ready", "spawning", "lifecycle"} \subseteq Steps
  BY DEF Steps, Reserving
<1>p. /\ kind[o] = "resume" \/ pc[o] \in {"spawning", "lifecycle"} => target[o] \in Threads
      /\ kind[o] = "worker" => path[o] = None
  BY DEF Prepared
<1>d. ASSUME Drops(o, path[o]), UNCHANGED <<registry, manager>>
      PROVE  TypesButCount' /\ Prepared'
  <2>1. path[o] \in Paths \cup {None}
    BY DEF TypeOK
  <2> QED BY <1>d, <2>1, LeavesKeeps DEF Drops, registry, TypeOK
<1>1. ASSUME NEW t \in Threads, SpawnThread(o, t)
      PROVE  TypesButCount' /\ Prepared'
  <2>1. Goes(o, "ready") /\ pc[o] = "named" /\ UNCHANGED <<registry, kind, path, drawn>>
    BY <1>1 DEF SpawnThread, Moves
  <2>2. target' \in [Ops -> Threads \cup {None}] /\ target'[o] = t
        /\ \A q \in Ops \ {o} : target'[q] = target[q]
    BY <1>1 DEF SpawnThread, TypeOK
  <2>3. /\ threads' \subseteq Threads /\ running' \subseteq Threads /\ known' \subseteq Threads
        /\ stored_name' \in [Threads -> Nicknames \cup {NoName}]
    BY <1>1 DEF SpawnThread, Insert, TypeOK
  <2>4. pc' \in [Ops -> Steps]
    BY <1>0, <2>1, GoesType
  <2>5. TypesButCount'
    BY <2>1, <2>2, <2>3, <2>4 DEF TypeOK, TypesButCount, registry
  <2> QED BY <1>0, <1>p, <2>1, <2>2, <2>5, StepPrepared
<1>2. CASE FindResumed(o)
  <2>1. PICK to \in {"ready", "spawning"} : Goes(o, to)
    BY <1>2 DEF FindResumed
  <2>2. /\ kind[o] = "resume"
        /\ UNCHANGED <<registry, running, known, stored_name, kind, target, path, drawn>>
        /\ threads' \subseteq Threads
    BY <1>2 DEF FindResumed, locals, TypeOK
  <2> QED BY <1>0, <1>p, <2>1, <2>2, GoesOn DEF registry, TypeOK
<1>3. CASE InsertResumed(o)
  <2>1. pc[o] = "spawning" /\ UNCHANGED <<registry, stored_name>>
    BY <1>3 DEF InsertResumed
  <2>2. CASE Goes(o, "lifecycle") /\ Insert(target[o]) /\ UNCHANGED locals
    <3>1. threads' \subseteq Threads /\ running' \subseteq Threads /\ known' \subseteq Threads
      BY <1>p, <2>1, <2>2 DEF Insert, TypeOK
    <3> QED BY <1>0, <1>p, <2>1, <2>2, <3>1, GoesOn DEF registry, locals, TypeOK
  <2>3. CASE Drops(o, path[o]) /\ UNCHANGED <<threads, running, known>>
    BY <1>d, <2>1, <2>3 DEF manager
  <2> QED BY <1>3, <2>2, <2>3 DEF InsertResumed
<1>4. CASE ResumedSettles(o)
  <2>1. Goes(o, "ready") /\ pc[o] = "lifecycle" /\ UNCHANGED <<registry, manager, locals>>
    BY <1>4 DEF ResumedSettles, Moves
  <2> QED BY <1>0, <1>p, <2>1, GoesOn DEF registry, manager, locals, TypeOK
<1>5. CASE SpawnFails(o)
  BY <1>5, <1>d DEF SpawnFails
<1>6. CASE PrepareUnnamed(o)
  <2>1. Goes(o, "named") /\ UNCHANGED <<registry, manager, locals>>
    BY <1>6 DEF PrepareUnnamed, Moves
  <2> QED BY <1>0, <2>1, GoesOn DEF registry, manager, locals, TypeOK
<1> QED BY <1>1, <1>2, <1>3, <1>4, <1>5, <1>6

\* The steps of a request to a thread and those that stop a thread keep types.
LEMMA StopTypes ==
    ASSUME IInv, NEW o \in Ops,
           \/ SendInput(o) \/ StopThread(o) \/ StopFails(o) \/ RemoveThread(o) \/ Abort(o)
    PROVE  TypesButCount' /\ Prepared'
<1> USE DEF IInv
<1>0. {"sending", "removing", "releasing"} \subseteq Steps
  BY DEF Steps
<1>1. ASSUME NEW to \in {"idle", "dropping"}, NEW p \in Paths \cup {None}, Leaves(o, to, p),
             UNCHANGED <<registry, manager>>
      PROVE  TypesButCount' /\ Prepared'
  BY <1>1, LeavesKeeps DEF registry, TypeOK
<1>4. CASE SendInput(o)
  <2>1. CASE Goes(o, "removing") /\ UNCHANGED locals
    BY <1>0, <1>4, <2>1, GoesOn DEF SendInput, registry, manager, locals, TypeOK
  <2> QED BY <1>1, <1>4, <2>1 DEF SendInput, Ends
<1>5. CASE StopThread(o)
  <2>1. /\ Goes(o, "removing") /\ running' \subseteq Threads
        /\ UNCHANGED <<registry, threads, known, stored_name, locals>>
    BY <1>5 DEF StopThread, Moves, TypeOK
  <2> QED BY <1>0, <2>1, GoesOn DEF registry, locals, TypeOK
<1>6. CASE StopFails(o)
  BY <1>1, <1>6 DEF StopFails, Ends
<1>7. CASE RemoveThread(o)
  <2>1. /\ Goes(o, "releasing") /\ threads' \subseteq Threads
        /\ UNCHANGED <<registry, running, known, stored_name, locals>>
    BY <1>7 DEF RemoveThread, Moves, TypeOK
  <2> QED BY <1>0, <2>1, GoesOn DEF registry, locals, TypeOK
<1>8. CASE Abort(o)
  <2>1. path[o] \in Paths \cup {None}
    BY DEF TypeOK
  <2> QED BY <1>1, <1>8, <2>1 DEF Abort, Ends, Drops
<1> QED BY <1>4, <1>5, <1>6, <1>7, <1>8

\* The operations of the registry keep types.
LEMMA RegistryTypes ==
    ASSUME IInv, NEW o \in Ops,
           \/ Starts(o) \/ ReserveAgentPath(o) \/ Commit(o)
           \/ DropReservation(o) \/ ReleaseEntry(o) \/ Uncount(o)
    PROVE  TypesButCount' /\ Prepared'
<1> USE DEF IInv
<1>0. {"idle", "pathed"} \subseteq Steps
  BY DEF Steps, Reserving
<1>p. (kind[o] = "resume" => target[o] \in Threads) /\ (kind[o] = "worker" => path[o] = None)
  BY DEF Prepared
<1>1. CASE Starts(o)
  <2>0. PICK k \in {"spawn", "worker", "resume"}, t \in Threads \cup {None}, p \in Paths \cup {None} :
          /\ ReserveSpawnSlot(o, k, t, p)
          /\ k = "resume" => t \in Threads
          /\ k = "worker" => p = None
    BY <1>1, StartsWith
  <2>1. CASE Goes(o, "reserved") /\ Becomes(o, k, t, p) /\ UNCHANGED drawn
    BY <2>0, <2>1, BecomesKeeps DEF ReserveSpawnSlot, TypeOK
  <2>2. CASE Ends(o)
    BY <2>0, <2>2, LeavesKeeps DEF ReserveSpawnSlot, Ends, TypeOK
  <2> QED BY <2>0, <2>1, <2>2 DEF ReserveSpawnSlot
<1>2. CASE ReserveAgentPath(o)
  <2>1. agent_tree' \in [Keys -> Threads \cup {Free, Held}]
    BY <1>2, WithRootType DEF ReserveAgentPath, TypeOK
  <2>2. UNCHANGED <<nickname, used, resets, manager>>
    BY <1>2 DEF ReserveAgentPath
  <2>3. CASE Drops(o, None)
    BY <2>1, <2>2, <2>3, LeavesKeeps DEF Drops, TypeOK
  <2>4. CASE Goes(o, "pathed") /\ UNCHANGED locals
    <3>1. pc' \in [Ops -> Steps]
      BY <1>0, <2>4, GoesType
    <3>2. TypesButCount'
      BY <2>1, <2>2, <2>4, <3>1 DEF TypeOK, TypesButCount, manager, locals
    <3> QED BY <1>0, <1>p, <2>4, <3>2, StepPrepared DEF locals
  <2> QED BY <1>2, <2>3, <2>4 DEF ReserveAgentPath
<1>3. CASE Commit(o)
  <2>1. /\ UNCHANGED <<resets, manager>>
        /\ target[o] \in Threads /\ drawn[o] \in Nicknames \cup {NoName}
    BY <1>3 DEF Commit, Prepared, TypeOK
  <2>2. used' \subseteq Texts
    BY <1>3, <2>1 DEF Commit, TypeOK, Texts
  <2>3. /\ agent_tree' \in [Keys -> Threads \cup {Free, Held}]
        /\ nickname' \in [Keys -> Nicknames \cup {NoName}]
    BY <1>3, <2>1 DEF Commit, TypeOK
  <2>4. CASE Ends(o)
    BY <2>1, <2>2, <2>3, <2>4, LeavesKeeps DEF Ends
  <2>5. CASE /\ Goes(o, "sending") /\ Becomes(o, "none", target[o], None)
             /\ drawn' = [drawn EXCEPT ![o] = NoName]
    <3>1. drawn' \in [Ops -> Nicknames \cup {NoName}]
      BY <2>5 DEF TypeOK
    <3> QED BY <2>1, <2>2, <2>3, <2>5, <3>1, BecomesKeeps
  <2> QED BY <1>3, <2>4, <2>5 DEF Commit
<1>4. CASE DropReservation(o)
  <2>1. /\ Leaves(o, "uncounting", None) /\ UNCHANGED <<nickname, used, resets, manager>>
        /\ agent_tree' \in [Keys -> Threads \cup {Free, Held}]
    BY <1>4 DEF DropReservation, TypeOK
  <2> QED BY <2>1, LeavesKeeps DEF TypeOK
<1>5. CASE ReleaseEntry(o)
  <2>1. /\ agent_tree' \in [Keys -> Threads \cup {Free, Held}]
        /\ nickname' \in [Keys -> Nicknames \cup {NoName}]
        /\ UNCHANGED <<used, resets, manager>>
    BY <1>5 DEF ReleaseEntry, TypeOK
  <2>2. PICK to \in {"idle", "uncounting"} : Leaves(o, to, None)
    BY <1>5 DEF ReleaseEntry, Ends
  <2> QED BY <2>1, <2>2, LeavesKeeps DEF TypeOK
<1>6. CASE Uncount(o)
  <2>1. /\ Goes(o, "idle")
        /\ UNCHANGED <<agent_tree, nickname, used, resets, manager, locals>>
    BY <1>6 DEF Uncount
  <2> QED BY <1>0, <2>1, GoesOn DEF manager, locals, TypeOK
<1> QED BY <1>1, <1>2, <1>3, <1>4, <1>5, <1>6

-----------------------------------------------------------------------------
\* The sets that SlotsAreCounted counts are finite.
LEMMA Finite ==
    ASSUME TypeOK
    PROVE  /\ IsFiniteSet(Counted) /\ Cardinality(Counted) \in Nat
           /\ IsFiniteSet(Slots) /\ Cardinality(Slots) \in Nat
           /\ IsFiniteSet(Leaving) /\ Cardinality(Leaving) \in Nat
<1>1. IsFiniteSet(Threads \cup Paths)
  BY SlotsAssumption, FS_Union
<1>2. Counted \subseteq Threads \cup Paths
  BY DEF Counted, Keys
<1>3. Slots \subseteq Ops /\ Leaving \subseteq Ops /\ IsFiniteSet(Ops)
  BY SlotsAssumption DEF Slots, Leaving
<1>4. IsFiniteSet(Counted) /\ IsFiniteSet(Slots) /\ IsFiniteSet(Leaving)
  BY <1>1, <1>2, <1>3, FS_Subset
<1> QED BY <1>4, FS_CardinalityType

\* Where an operation is, is what Slots and Leaving say.
LEMMA Counts ==
    ASSUME TypeOK, NEW o \in Ops, NEW to \in Steps, Goes(o, to)
    PROVE  /\ Slots' = IF to \in Reserving THEN Slots \cup {o} ELSE Slots \ {o}
           /\ Leaving' = IF to = "uncounting" THEN Leaving \cup {o} ELSE Leaving \ {o}
           /\ o \in Slots <=> pc[o] \in Reserving
           /\ o \in Leaving <=> pc[o] = "uncounting"
<1>1. \A q \in Ops : pc'[q] = IF q = o THEN to ELSE pc[q]
  BY DEF Goes, TypeOK
<1>2. Slots' = {q \in Ops : pc'[q] \in Reserving} /\ Leaving' = {q \in Ops : pc'[q] = "uncounting"}
  BY DEF Slots, Leaving
<1>3. Slots' = IF to \in Reserving THEN Slots \cup {o} ELSE Slots \ {o}
  BY <1>1, <1>2 DEF Slots
<1>4. Leaving' = IF to = "uncounting" THEN Leaving \cup {o} ELSE Leaving \ {o}
  BY <1>1, <1>2 DEF Leaving
<1> QED BY <1>3, <1>4 DEF Slots, Leaving

\* A step that neither takes nor gives back a slot, and leaves the agents alone.
LEMMA SameSlots ==
    ASSUME IInv, NEW o \in Ops, NEW to \in Steps, Goes(o, to),
           pc[o] \in Reserving <=> to \in Reserving,
           pc[o] # "uncounting" /\ to # "uncounting",
           Counted' = Counted, total_count' = total_count
    PROVE  SlotsAreCounted'
<1>1. Slots' = Slots /\ Leaving' = Leaving
  BY Counts DEF IInv
<1> QED BY <1>1 DEF IInv, SlotsAreCounted

\* The steps that leave the registry's tree and counter alone.
LEMMA LocalCounts ==
    ASSUME IInv, NEW o \in Ops, Local(o)
    PROVE  SlotsAreCounted' /\ UNCHANGED <<agent_tree, total_count>>
<1>1. UNCHANGED <<agent_tree, total_count>>
  BY DEF Local, PrepareUnnamed, AskResume, AskSend, AskStop, Asks, ReserveNickname, SpawnThread,
         FindResumed, InsertResumed, ResumedSettles, SpawnFails, SendInput,
         StopThread, StopFails, RemoveThread, Abort, registry
<1>2. Counted' = Counted
  BY <1>1 DEF Counted
<1>3. \/ /\ pc[o] \in {"idle", "asked", "sending", "stopping", "removing"}
         /\ \E to \in {"idle", "asked", "sending", "stopping", "removing", "releasing"} : Goes(o, to)
      \/ /\ pc[o] \in {"reserved", "pathed", "named", "spawning", "lifecycle"}
         /\ \E to \in {"named", "spawning", "lifecycle", "ready", "dropping"} : Goes(o, to)
  BY DEF Local, PrepareUnnamed, AskResume, AskSend, AskStop, Asks,
         ReserveNickname, SpawnThread, FindResumed, InsertResumed, ResumedSettles, SpawnFails,
         SendInput, StopThread, StopFails, RemoveThread, Abort, Ends, Drops,
         Leaves, Becomes, Moves
<1>4. PICK to \in Steps : /\ Goes(o, to) /\ (pc[o] \in Reserving <=> to \in Reserving)
                          /\ pc[o] # "uncounting" /\ to # "uncounting"
  BY <1>3 DEF Steps, Reserving
<1> QED BY <1>1, <1>2, <1>4, SameSlots

\* One element makes a finite set larger by one at most.
LEMMA OneMore ==
    ASSUME NEW S, IsFiniteSet(S), NEW x
    PROVE  /\ IsFiniteSet(S \cup {x})
           /\ Cardinality(S \cup {x}) \in Nat
           /\ Cardinality(S \cup {x}) <= Cardinality(S) + 1
<1>0. Cardinality(S) \in Nat
  BY FS_CardinalityType
<1>1. CASE x \in S
  <2>1. S \cup {x} = S
    BY <1>1
  <2>2. Cardinality(S) <= Cardinality(S) + 1
    BY <1>0
  <2> QED BY <1>0, <2>1, <2>2, Zenon
<1>2. CASE x \notin S
  <2>1. IsFiniteSet(S \cup {x}) /\ Cardinality(S \cup {x}) = Cardinality(S) + 1
    BY <1>2, FS_AddElement
  <2> QED BY <1>0, <2>1
<1> QED BY <1>1, <1>2

\* The operations of the registry keep the counter above what it stands for.
LEMMA RegistryCounts ==
    ASSUME IInv, NEW o \in Ops,
           \/ Starts(o) \/ ReserveAgentPath(o) \/ Commit(o)
           \/ DropReservation(o) \/ ReleaseEntry(o) \/ Uncount(o)
    PROVE  SlotsAreCounted' /\ total_count' \in Nat
<1> USE DEF IInv
<1>0. /\ {"idle", "reserved", "pathed", "sending", "dropping", "uncounting"} \subseteq Steps
      /\ {"reserved", "pathed", "ready", "dropping"} \subseteq Reserving
      /\ {"idle", "asked", "sending", "releasing", "uncounting"} \cap Reserving = {}
  BY DEF Steps, Reserving
<1>f. /\ IsFiniteSet(Counted) /\ Cardinality(Counted) \in Nat
      /\ IsFiniteSet(Slots) /\ Cardinality(Slots) \in Nat
      /\ IsFiniteSet(Leaving) /\ Cardinality(Leaving) \in Nat
  BY Finite
<1>t. total_count \in Nat /\ MaxThreads \in Nat
  BY SlotsAssumption DEF TypeOK
<1>k. agent_tree \in [Keys -> Threads \cup {Free, Held}] /\ Free \notin Threads /\ Held \notin Threads
  BY SlotsAssumption DEF TypeOK
<1>1. CASE Starts(o)
  <2>s. PICK k \in {"spawn", "worker", "resume"}, t \in Threads \cup {None}, p \in Paths \cup {None} :
          ReserveSpawnSlot(o, k, t, p)
    BY <1>1, StartsWith
  <2>0. Counted' = Counted /\ pc[o] \in {"idle", "asked"}
    BY <1>1, <2>s, StartsWith DEF ReserveSpawnSlot, Counted
  <2>1. CASE /\ total_count < MaxThreads
             /\ Goes(o, "reserved") /\ total_count' = total_count + 1
    <3>1. Slots' = Slots \cup {o} /\ Leaving' = Leaving /\ o \notin Slots
      BY <1>0, <2>0, <2>1, Counts
    <3>2. Cardinality(Slots') = Cardinality(Slots) + 1
      BY <1>f, <3>1, FS_AddElement
    <3> QED BY <1>f, <1>t, <2>0, <2>1, <3>1, <3>2 DEF SlotsAreCounted
  <2>2. CASE Ends(o) /\ UNCHANGED total_count
    BY <1>0, <1>t, <2>0, <2>2, SameSlots DEF Ends, Leaves
  <2> QED BY <2>s, <2>1, <2>2 DEF ReserveSpawnSlot
<1>2. CASE ReserveAgentPath(o)
  <2>1. PICK tree \in {agent_tree, WithRoot(agent_tree)} :
          \/ agent_tree' = tree
          \/ /\ path[o] # None /\ agent_tree[path[o]] = Free
             /\ agent_tree' = [tree EXCEPT ![path[o]] = Held]
    BY <1>2 DEF ReserveAgentPath
  <2>2. /\ tree \in [Keys -> Threads \cup {Free, Held}]
        /\ \A k \in Keys \ {RootPath} : tree[k] = agent_tree[k]
    BY <1>k, WithRootType
  <2>3. \A k \in Keys \ {RootPath} : agent_tree'[k] \in Threads <=> agent_tree[k] \in Threads
    BY <1>k, <2>1, <2>2
  <2>4. Counted' = Counted
    BY <2>3 DEF Counted
  <2>5. /\ pc[o] = "reserved" /\ total_count' = total_count
        /\ \E to \in {"pathed", "dropping"} : Goes(o, to)
    BY <1>2 DEF ReserveAgentPath, Drops, Leaves
  <2> QED BY <1>0, <1>t, <2>4, <2>5, SameSlots
<1>3. CASE Commit(o)
  <2> DEFINE key == IF path[o] = None THEN target[o] ELSE path[o]
  <2>1. /\ pc[o] = "ready" /\ total_count' = total_count
        /\ \E to \in {"idle", "sending"} : Goes(o, to)
    BY <1>3 DEF Commit, Ends, Leaves
  <2>2. Slots' = Slots \ {o} /\ Leaving' = Leaving /\ o \in Slots
    BY <1>0, <2>1, Counts
  <2>3. Cardinality(Slots') = Cardinality(Slots) - 1
    BY <1>f, <2>2, FS_RemoveElement
  <2>4. Counted' \subseteq Counted \cup {key}
    BY <1>3, <1>k DEF Commit, Counted
  <2> HIDE DEF key
  <2>5. /\ IsFiniteSet(Counted \cup {key})
        /\ Cardinality(Counted \cup {key}) <= Cardinality(Counted) + 1
        /\ Cardinality(Counted \cup {key}) \in Nat
    BY <1>f, OneMore
  <2>6. Cardinality(Counted') <= Cardinality(Counted) + 1 /\ Cardinality(Counted') \in Nat
    BY <1>f, <2>4, <2>5, FS_Subset, FS_CardinalityType
  <2> QED BY <1>f, <1>t, <2>1, <2>2, <2>3, <2>6 DEF SlotsAreCounted
<1>4. CASE DropReservation(o)
  <2>1. pc[o] = "dropping" /\ Goes(o, "uncounting") /\ total_count' = total_count
    BY <1>4 DEF DropReservation, Leaves
  <2>2. /\ Slots' = Slots \ {o} /\ o \in Slots
        /\ Leaving' = Leaving \cup {o} /\ o \notin Leaving
    BY <1>0, <2>1, Counts
  <2>3. \A k \in Keys : agent_tree'[k] \in Threads <=> agent_tree[k] \in Threads
    BY <1>4, <1>k DEF DropReservation
  <2>4. Counted' = Counted
    BY <2>3 DEF Counted
  <2>5. /\ Cardinality(Slots') = Cardinality(Slots) - 1
        /\ Cardinality(Leaving') = Cardinality(Leaving) + 1
    BY <1>f, <2>2, FS_RemoveElement, FS_AddElement
  <2> QED BY <1>f, <1>t, <2>1, <2>4, <2>5 DEF SlotsAreCounted
<1>5. CASE ReleaseEntry(o)
  <2>0. pc[o] = "releasing" /\ total_count' = total_count
    BY <1>5 DEF ReleaseEntry
  <2>1. ASSUME NEW k \in Registered(target[o]), k # RootPath, Goes(o, "uncounting"),
               agent_tree' = [agent_tree EXCEPT ![k] = Free]
        PROVE  SlotsAreCounted'
    <3>1. Slots' = Slots /\ Leaving' = Leaving \cup {o} /\ o \notin Leaving
      BY <1>0, <2>0, <2>1, Counts
    <3>2. Cardinality(Leaving') = Cardinality(Leaving) + 1
      BY <1>f, <3>1, FS_AddElement
    <3>3. agent_tree[k] \in Threads \/ agent_tree[k] = None
      BY DEF Registered, TypeOK
    <3>4. k \in Counted /\ Counted' = Counted \ {k}
      BY <1>k, <2>1, <3>3, SlotsAssumption DEF Registered, Counted, None, Free, Held
    <3>5. Cardinality(Counted') = Cardinality(Counted) - 1
      BY <1>f, <3>4, FS_RemoveElement
    <3> QED BY <1>f, <1>t, <2>0, <3>1, <3>2, <3>5 DEF SlotsAreCounted
  <2>2. ASSUME Goes(o, "idle"), agent_tree' = agent_tree \/ agent_tree' = [agent_tree EXCEPT ![RootPath] = Free]
        PROVE  SlotsAreCounted'
    <3>1. \A k \in Keys \ {RootPath} : agent_tree'[k] = agent_tree[k]
      BY <1>k, <2>2
    <3>2. Counted' = Counted
      BY <3>1 DEF Counted
    <3> QED BY <1>0, <2>0, <2>2, <3>2, SameSlots
  <2> QED BY <1>5, <1>t, <2>0, <2>1, <2>2 DEF ReleaseEntry, Ends, Leaves
<1>6. CASE Uncount(o)
  <2>1. pc[o] = "uncounting" /\ Goes(o, "idle") /\ total_count' = total_count - 1
    BY <1>6 DEF Uncount
  <2>2. Counted' = Counted
    BY <1>6 DEF Uncount, Counted
  <2>3. Slots' = Slots /\ Leaving' = Leaving \ {o} /\ o \in Leaving
    BY <1>0, <2>1, Counts
  <2>4. Cardinality(Leaving') = Cardinality(Leaving) - 1 /\ Cardinality(Leaving') \in Nat
    BY <1>f, <2>3, FS_RemoveElement, FS_CardinalityType
  <2> QED BY <1>f, <1>t, <2>1, <2>2, <2>3, <2>4 DEF SlotsAreCounted
<1> QED BY <1>1, <1>2, <1>3, <1>4, <1>5, <1>6

-----------------------------------------------------------------------------
\* A step of one operation that keeps its hold on a path, and changes no path.
LEMMA SameHolds ==
    ASSUME IInv, NEW o \in Ops, NEW to \in Steps, Goes(o, to),
           \A q \in Ops \ {o} : path'[q] = path[q],
           \A p \in Paths : agent_tree'[p] = Held <=> agent_tree[p] = Held,
           \A p \in Paths : HoldsPath(o, p) <=> to \in Pathed /\ path'[o] = p
    PROVE  HeldPathsAreReserved'
<1>1. /\ pc'[o] = to
      /\ \A q \in Ops \ {o} : pc'[q] = pc[q]
  BY DEF IInv, TypeOK, Goes
<1>2. \A q \in Ops, p \in Paths : HoldsPath(q, p)' <=> HoldsPath(q, p)
  BY <1>1 DEF HoldsPath
<1> QED BY <1>2 DEF IInv, HeldPathsAreReserved

\* The steps outside the registry do not hold or free a path.
LEMMA LocalHolds ==
    ASSUME IInv, NEW o \in Ops, Local(o)
    PROVE  HeldPathsAreReserved'
<1>1. agent_tree' = agent_tree
  BY LocalCounts
<1>2. ASSUME NEW to \in Steps, Goes(o, to), pc[o] \notin Pathed, to \notin Pathed,
             \A q \in Ops \ {o} : path'[q] = path[q]
      PROVE  HeldPathsAreReserved'
  BY <1>1, <1>2, SameHolds DEF HoldsPath
<1>3. ASSUME NEW to \in Steps, Goes(o, to), pc[o] \in Pathed, to \in Pathed, path' = path
      PROVE  HeldPathsAreReserved'
  BY <1>1, <1>3, SameHolds DEF HoldsPath
<1>4. CASE pc[o] = "reserved"
  <2>1. \/ Drops(o, None)
        \/ Goes(o, "named") /\ path' = path /\ kind[o] = "worker"
    BY <1>4 DEF Local, PrepareUnnamed, AskResume, AskSend, AskStop, Asks,
         ReserveNickname, SpawnThread, FindResumed, InsertResumed, ResumedSettles, SpawnFails,
         SendInput, StopThread, StopFails, RemoveThread, Abort, Moves, locals
  <2>2. /\ \E to \in {"dropping", "named"} : Goes(o, to)
        /\ path'[o] = None /\ \A q \in Ops \ {o} : path'[q] = path[q]
    BY <2>1 DEF Drops, Leaves, Becomes, IInv, TypeOK, Prepared
  <2>3. {"dropping", "named"} \subseteq Steps /\ "reserved" \notin Pathed /\ None \notin Paths
    BY SlotsAssumption DEF Steps, Reserving, Pathed
  <2> QED BY <1>1, <1>4, <2>2, <2>3, SameHolds DEF HoldsPath
<1>5. CASE pc[o] # "reserved"
  <2>1. \/ /\ pc[o] \in {"idle", "asked", "sending", "stopping", "removing"}
           /\ \E to \in {"idle", "asked", "sending", "stopping", "removing", "releasing"} : Goes(o, to)
        \/ /\ pc[o] \in {"pathed", "named", "spawning", "lifecycle"}
           /\ path' \in {path, [path EXCEPT ![o] = path[o]]}
           /\ \E to \in {"named", "spawning", "lifecycle", "ready", "dropping"} : Goes(o, to)
    BY <1>5 DEF Local, PrepareUnnamed, AskResume, AskSend, AskStop, Asks,
         ReserveNickname, SpawnThread, FindResumed, InsertResumed, ResumedSettles, SpawnFails,
         SendInput, StopThread, StopFails, RemoveThread, Abort, Ends, Drops,
         Leaves, Becomes, Moves, locals
  <2>2. path' = path \/ \E p : path' = [path EXCEPT ![o] = p]
    BY DEF Local, PrepareUnnamed, AskResume, AskSend, AskStop, Asks,
         ReserveNickname, SpawnThread, FindResumed, InsertResumed, ResumedSettles, SpawnFails,
         SendInput, StopThread, StopFails, RemoveThread, Abort, Ends, Drops,
         Leaves, Becomes, locals
  <2>3. \A q \in Ops \ {o} : path'[q] = path[q]
    BY <2>2 DEF IInv, TypeOK
  <2>4. path' \in {path, [path EXCEPT ![o] = path[o]]} => path' = path
    BY DEF IInv, TypeOK
  <2> QED BY <1>2, <1>3, <2>1, <2>3, <2>4 DEF Steps, Reserving, Pathed
<1> QED BY <1>4, <1>5

\* The operations of the registry hold a path for one operation at a time.
LEMMA RegistryHolds ==
    ASSUME IInv, NEW o \in Ops,
           \/ Starts(o) \/ ReserveAgentPath(o) \/ Commit(o)
           \/ DropReservation(o) \/ ReleaseEntry(o) \/ Uncount(o)
    PROVE  /\ HeldPathsAreReserved'
           /\ \A p \in Paths : agent_tree[p] \in Threads => agent_tree'[p] \in {agent_tree[p], Free}
<1> USE DEF IInv
<1>0. /\ {"idle", "reserved", "pathed", "sending", "dropping", "uncounting"} \subseteq Steps
      /\ {"pathed", "ready", "dropping"} \subseteq Pathed
      /\ {"idle", "asked", "reserved", "sending", "releasing", "uncounting"} \cap Pathed = {}
  BY DEF Steps, Reserving, Pathed
<1>k. /\ agent_tree \in [Keys -> Threads \cup {Free, Held}]
      /\ Paths \subseteq Keys \ {RootPath}
      /\ Free \notin Threads /\ Held \notin Threads /\ Free # Held
      /\ None \notin Paths /\ Threads \cap Paths = {}
  BY SlotsAssumption DEF TypeOK, Keys, Free, Held
<1>p. path \in [Ops -> Paths \cup {None}]
  BY DEF TypeOK
<1>e. ASSUME NEW to, Leaves(o, to, None)
      PROVE  Goes(o, to) /\ path'[o] = None /\ \A q \in Ops \ {o} : path'[q] = path[q]
  BY <1>e DEF Leaves, Becomes, TypeOK
<1>1. CASE Starts(o)
  <2>s. PICK k \in {"spawn", "worker", "resume"}, t \in Threads \cup {None}, p \in Paths \cup {None} :
          ReserveSpawnSlot(o, k, t, p)
    BY <1>1, StartsWith
  <2>1. pc[o] \in {"idle", "asked"} /\ agent_tree' = agent_tree
    BY <1>1, <2>s, StartsWith DEF ReserveSpawnSlot
  <2>2. /\ \E to \in {"reserved", "idle"} : Goes(o, to)
        /\ \A q \in Ops \ {o} : path'[q] = path[q]
    BY <1>e, <2>s, BecomesTypes DEF ReserveSpawnSlot, Ends
  <2> QED BY <1>0, <2>1, <2>2, SameHolds DEF HoldsPath
<1>2. CASE ReserveAgentPath(o)
  <2>1. PICK tree \in {agent_tree, WithRoot(agent_tree)} :
          \/ /\ path[o] = None /\ Goes(o, "pathed") /\ agent_tree' = tree /\ path' = path
          \/ /\ path[o] # None /\ agent_tree[path[o]] = Free /\ Goes(o, "pathed")
             /\ agent_tree' = [tree EXCEPT ![path[o]] = Held] /\ path' = path
          \/ Leaves(o, "dropping", None) /\ agent_tree' = tree
    BY <1>2 DEF ReserveAgentPath, Drops, locals
  <2>2. /\ tree \in [Keys -> Threads \cup {Free, Held}]
        /\ \A p \in Paths : tree[p] = agent_tree[p]
    BY <1>k, WithRootType
  <2>3. pc[o] = "reserved"
    BY <1>2 DEF ReserveAgentPath
  <2>4. CASE path[o] = None /\ Goes(o, "pathed") /\ agent_tree' = tree /\ path' = path
    BY <1>0, <1>k, <2>2, <2>3, <2>4, SameHolds DEF HoldsPath
  <2>5. CASE Leaves(o, "dropping", None) /\ agent_tree' = tree
    <3>1. Goes(o, "dropping") /\ path'[o] = None /\ \A q \in Ops \ {o} : path'[q] = path[q]
      BY <1>e, <2>5
    <3> QED BY <1>0, <1>k, <2>2, <2>3, <2>5, <3>1, SameHolds DEF HoldsPath
  <2>6. CASE /\ path[o] # None /\ agent_tree[path[o]] = Free /\ Goes(o, "pathed")
             /\ agent_tree' = [tree EXCEPT ![path[o]] = Held] /\ path' = path
    <3>1. path[o] \in Paths
      BY <1>p, <2>6
    <3>2. \A p \in Paths : agent_tree'[p] = IF p = path[o] THEN Held ELSE agent_tree[p]
      BY <1>k, <2>2, <2>6
    <3>3. pc'[o] = "pathed" /\ \A q \in Ops \ {o} : pc'[q] = pc[q]
      BY <2>6 DEF Goes, TypeOK
    <3>4. \A q \in Ops : ~ HoldsPath(q, path[o])
      BY <1>k, <2>6, <3>1 DEF HeldPathsAreReserved
    <3>5. \A q \in Ops, p \in Paths : HoldsPath(q, p)' <=> HoldsPath(q, p) \/ (q = o /\ p = path[o])
      BY <1>0, <2>3, <2>6, <3>3 DEF HoldsPath
    <3>6. HeldPathsAreReserved'
      BY <3>1, <3>2, <3>4, <3>5 DEF HeldPathsAreReserved
    <3> QED BY <1>k, <2>6, <3>2, <3>6
  <2> QED BY <2>1, <2>4, <2>5, <2>6
<1>3. CASE Commit(o)
  <2>0. PICK to \in {"idle", "sending"} :
          Goes(o, to) /\ \A q \in Ops \ {o} : path'[q] = path[q]
    BY <1>3, <1>e DEF Commit, Ends, Becomes, TypeOK
  <2>1. /\ pc[o] = "ready" /\ Goes(o, to)
        /\ \A q \in Ops \ {o} : path'[q] = path[q]
        /\ target[o] \in Threads
        /\ agent_tree' = [agent_tree EXCEPT ![IF path[o] = None THEN target[o] ELSE path[o]] = target[o]]
    BY <1>3, <2>0 DEF Commit, Prepared, TypeOK
  <2>2. pc'[o] = to /\ \A q \in Ops \ {o} : pc'[q] = pc[q]
    BY <2>1 DEF Goes, TypeOK
  <2>3. CASE path[o] = None
    <3>1. \A p \in Paths : agent_tree'[p] = agent_tree[p]
      BY <1>k, <2>1, <2>3
    <3> QED BY <1>0, <1>k, <2>1, <2>3, <3>1, SameHolds DEF HoldsPath
  <2>4. CASE path[o] # None
    <3>1. path[o] \in Paths /\ HoldsPath(o, path[o])
      BY <1>0, <1>p, <2>1, <2>4 DEF HoldsPath
    <3>2. agent_tree[path[o]] = Held
      BY <3>1 DEF HeldPathsAreReserved
    <3>3. \A p \in Paths : agent_tree'[p] = IF p = path[o] THEN target[o] ELSE agent_tree[p]
      BY <1>k, <2>1, <2>4
    <3>4. \A q \in Ops, p \in Paths : HoldsPath(q, p)' <=> HoldsPath(q, p) /\ q # o
      BY <1>0, <2>1, <2>2 DEF HoldsPath
    <3>5. \A q \in Ops : HoldsPath(q, path[o]) => q = o
      BY <3>1 DEF HeldPathsAreReserved
    <3>6. \A p \in Paths : HoldsPath(o, p) => p = path[o]
      BY DEF HoldsPath
    <3>7. HeldPathsAreReserved'
      BY <1>k, <2>1, <3>1, <3>3, <3>4, <3>5, <3>6 DEF HeldPathsAreReserved
    <3> QED BY <1>k, <3>2, <3>3, <3>7
  <2> QED BY <2>3, <2>4
<1>4. CASE DropReservation(o)
  <2>1. /\ pc[o] = "dropping" /\ Goes(o, "uncounting")
        /\ \A q \in Ops \ {o} : path'[q] = path[q]
        /\ agent_tree' = IF path[o] # None /\ agent_tree[path[o]] = Held
                         THEN [agent_tree EXCEPT ![path[o]] = Free] ELSE agent_tree
    BY <1>4, <1>e DEF DropReservation
  <2>2. pc'[o] = "uncounting" /\ \A q \in Ops \ {o} : pc'[q] = pc[q]
    BY <2>1 DEF Goes, TypeOK
  <2>3. CASE path[o] = None
    BY <1>0, <1>k, <2>1, <2>3, SameHolds DEF HoldsPath
  <2>4. CASE path[o] # None
    <3>1. path[o] \in Paths /\ HoldsPath(o, path[o])
      BY <1>0, <1>p, <2>1, <2>4 DEF HoldsPath
    <3>2. agent_tree[path[o]] = Held
      BY <3>1 DEF HeldPathsAreReserved
    <3>3. \A p \in Paths : agent_tree'[p] = IF p = path[o] THEN Free ELSE agent_tree[p]
      BY <1>k, <2>1, <2>4, <3>2
    <3>4. \A q \in Ops, p \in Paths : HoldsPath(q, p)' <=> HoldsPath(q, p) /\ q # o
      BY <1>0, <2>1, <2>2 DEF HoldsPath
    <3>5. \A q \in Ops : HoldsPath(q, path[o]) => q = o
      BY <3>1 DEF HeldPathsAreReserved
    <3>6. \A p \in Paths : HoldsPath(o, p) => p = path[o]
      BY DEF HoldsPath
    <3>7. HeldPathsAreReserved'
      BY <1>k, <2>1, <3>1, <3>3, <3>4, <3>5, <3>6 DEF HeldPathsAreReserved
    <3> QED BY <1>k, <3>3, <3>7
  <2> QED BY <2>3, <2>4
<1>5. CASE ReleaseEntry(o)
  <2>1. /\ pc[o] = "releasing"
        /\ \/ agent_tree' = agent_tree
           \/ \E k \in Keys : /\ agent_tree[k] = target[o]
                              /\ agent_tree' = [agent_tree EXCEPT ![k] = Free]
    BY <1>5 DEF ReleaseEntry, Registered
  <2>2. target[o] # Held
    BY SlotsAssumption DEF TypeOK, Held, None
  <2>3. \A p \in Paths : \/ agent_tree'[p] = agent_tree[p]
                         \/ agent_tree'[p] = Free /\ agent_tree[p] # Held
    BY <1>k, <2>1, <2>2
  <2>4. /\ \E to \in {"idle", "uncounting"} : Goes(o, to)
        /\ \A q \in Ops \ {o} : path'[q] = path[q]
    BY <1>5, <1>e DEF ReleaseEntry, Ends
  <2>5. HeldPathsAreReserved'
    BY <1>0, <1>k, <2>1, <2>3, <2>4, SameHolds DEF HoldsPath
  <2> QED BY <2>3, <2>5
<1>6. CASE Uncount(o)
  <2>1. pc[o] = "uncounting" /\ agent_tree' = agent_tree /\ Goes(o, "idle") /\ path' = path
    BY <1>6 DEF Uncount, locals
  <2> QED BY <1>0, <2>1, SameHolds DEF HoldsPath
<1> QED BY <1>1, <1>2, <1>3, <1>4, <1>5, <1>6

-----------------------------------------------------------------------------
\* The initial state satisfies the invariant.
LEMMA InitIInv == Init => IInv
<1> SUFFICES ASSUME Init PROVE IInv
  OBVIOUS
<1>1. TypeOK
  <2>1. agent_tree \in [Keys -> Threads \cup {Free, Held}] /\ nickname \in [Keys -> Nicknames \cup {NoName}]
    BY DEF Init
  <2>2. used \subseteq Texts /\ resets \in 0..MaxResets /\ total_count \in Nat
    BY SlotsAssumption DEF Init
  <2>3. /\ threads \subseteq Threads /\ running \subseteq Threads /\ known \subseteq Threads
        /\ stored_name \in [Threads -> Nicknames \cup {NoName}]
    BY SlotsAssumption DEF Init
  <2>4. /\ pc \in [Ops -> Steps]
        /\ kind \in [Ops -> {"none", "spawn", "worker", "resume"}]
        /\ target \in [Ops -> Threads \cup {None}] /\ path \in [Ops -> Paths \cup {None}]
        /\ drawn \in [Ops -> Nicknames \cup {NoName}]
    BY DEF Init, Steps
  <2> QED BY <2>1, <2>2, <2>3, <2>4 DEF TypeOK
<1>2. \A o \in Ops : pc[o] = "idle" /\ kind[o] = "none"
  BY DEF Init
<1>3. \A k \in Keys : agent_tree[k] = Free
  BY DEF Init
<1>4. Counted = {} /\ Slots = {} /\ Leaving = {}
  BY <1>2, <1>3, SlotsAssumption DEF Counted, Slots, Leaving, Reserving
<1>5. SlotsAreCounted
  BY <1>4, FS_EmptySet, SlotsAssumption DEF SlotsAreCounted, Init
<1>6. Prepared
  BY <1>2 DEF Prepared
<1>7. HeldPathsAreReserved
  BY <1>2, <1>3 DEF HeldPathsAreReserved, HoldsPath, Pathed, Keys, Free, Held
<1> QED BY <1>1, <1>5, <1>6, <1>7 DEF IInv

\* The steps that are not of an operation: the root registers, a thread ends, and
\* the app server unloads one.
LEMMA OtherSteps ==
    ASSUME IInv, \/ RegisterRootThread \/ UNCHANGED vars
                 \/ \E t \in Threads : ThreadDies(t) \/ UnloadThread(t)
    PROVE  /\ IInv'
           /\ \A p \in Paths : agent_tree'[p] = agent_tree[p]
<1> USE DEF IInv
<1>1. /\ agent_tree' \in {agent_tree, WithRoot(agent_tree)}
      /\ UNCHANGED <<nickname, used, resets, total_count, known, stored_name, pc, kind, target, path, drawn>>
  BY DEF RegisterRootThread, ThreadDies, UnloadThread, vars, registry, manager, locals
<1>2. threads' \subseteq Threads /\ running' \subseteq Threads
  BY DEF RegisterRootThread, ThreadDies, UnloadThread, vars, manager, TypeOK
<1>3. /\ agent_tree' \in [Keys -> Threads \cup {Free, Held}]
      /\ \A k \in Keys \ {RootPath} : agent_tree'[k] = agent_tree[k]
  BY <1>1, WithRootType DEF TypeOK
<1>4. TypeOK'
  BY <1>1, <1>2, <1>3 DEF TypeOK
<1>5. Counted' = Counted /\ Slots' = Slots /\ Leaving' = Leaving
  BY <1>1, <1>3 DEF Counted, Slots, Leaving
<1>6. SlotsAreCounted'
  BY <1>1, <1>5 DEF SlotsAreCounted
<1>7. Prepared'
  BY <1>1 DEF Prepared
<1>8. \A p \in Paths : agent_tree'[p] = agent_tree[p]
  BY <1>3, SlotsAssumption DEF Keys
<1>9. HeldPathsAreReserved'
  BY <1>1, <1>8 DEF HeldPathsAreReserved, HoldsPath
<1> QED BY <1>4, <1>6, <1>7, <1>8, <1>9

\* Every step keeps the invariant, and no step replaces the agent of a path.
LEMMA NextIInv ==
    ASSUME IInv, [Next]_vars
    PROVE  /\ IInv'
           /\ \A p \in Paths : agent_tree[p] \in Threads => agent_tree'[p] \in {agent_tree[p], Free}
<1>t. TypesButCount' /\ total_count' \in Nat => TypeOK'
  BY DEF TypesButCount, TypeOK
<1>1. ASSUME NEW o \in Ops, Local(o)
      PROVE  /\ IInv'
             /\ \A p \in Paths : agent_tree[p] \in Threads => agent_tree'[p] \in {agent_tree[p], Free}
  <2>1. TypesButCount' /\ Prepared'
    BY <1>1, AskTypes, NicknameTypes, SpawnTypes, StopTypes DEF Local
  <2>2. SlotsAreCounted' /\ UNCHANGED <<agent_tree, total_count>>
    BY <1>1, LocalCounts
  <2>3. HeldPathsAreReserved'
    BY <1>1, LocalHolds
  <2>4. total_count' \in Nat
    BY <2>2 DEF IInv, TypeOK
  <2> QED BY <1>t, <2>1, <2>2, <2>3, <2>4 DEF IInv
<1>2. ASSUME NEW o \in Ops,
             \/ Starts(o) \/ ReserveAgentPath(o) \/ Commit(o)
             \/ DropReservation(o) \/ ReleaseEntry(o) \/ Uncount(o)
      PROVE  /\ IInv'
             /\ \A p \in Paths : agent_tree[p] \in Threads => agent_tree'[p] \in {agent_tree[p], Free}
  BY <1>t, <1>2, RegistryTypes, RegistryCounts, RegistryHolds DEF IInv
<1>3. CASE \/ RegisterRootThread \/ UNCHANGED vars
           \/ \E t \in Threads : ThreadDies(t) \/ UnloadThread(t)
  BY <1>3, OtherSteps
<1> QED BY <1>1, <1>2, <1>3 DEF Next, Local, Starts

\* The invariant holds in every reachable state.
THEOREM Invariance == Spec => []IInv
<1>1. Init => IInv
  BY InitIInv
<1>2. IInv /\ [Next]_vars => IInv'
  BY NextIInv
<1> QED BY <1>1, <1>2, PTL DEF Spec

\* Types hold; in particular total_count never goes below 0, whatever is aborted,
\* unloaded, resumed twice or released while it is spawned.
THEOREM TypesHold == Spec => []TypeOK
<1>1. IInv => TypeOK
  BY DEF IInv
<1> QED BY <1>1, Invariance, PTL

\* The registered agents and the spawns under way never exceed agent_max_threads.
THEOREM LimitIsKept == Spec => []LimitHolds
<1>1. IInv => LimitHolds
  <2> SUFFICES ASSUME IInv PROVE LimitHolds
    OBVIOUS
  <2>1. /\ Cardinality(Counted) \in Nat /\ Cardinality(Slots) \in Nat
        /\ Cardinality(Leaving) \in Nat
    BY Finite DEF IInv
  <2>2. total_count \in Nat /\ MaxThreads \in Nat
    BY SlotsAssumption DEF IInv, TypeOK
  <2> QED BY <2>1, <2>2 DEF IInv, SlotsAreCounted, LimitHolds
<1> QED BY <1>1, Invariance, PTL

\* A path is held for exactly one spawn under way.
THEOREM PathsAreReserved == Spec => []HeldPathsAreReserved
<1>1. IInv => HeldPathsAreReserved
  BY DEF IInv
<1> QED BY <1>1, Invariance, PTL

\* The agent of a path leaves it only by being released.
THEOREM PathsKeepTheirAgents == Spec => PathKeepsItsAgent
<1>1. IInv /\ [Next]_vars =>
        [\A p \in Paths : agent_tree[p] \in Threads => agent_tree'[p] \in {agent_tree[p], Free}]_vars
  BY NextIInv
<1> QED BY <1>1, Invariance, PTL DEF Spec, PathKeepsItsAgent

-----------------------------------------------------------------------------
(* Nicknames.  Every nickname that was drawn in this process belongs to one    *)
(* agent, or to the spawn that has drawn it and has no thread yet; the pool    *)
(* remembers it until the count of resets in the nickname itself goes up.      *)

\* The agents that were spawned by this process, and the nicknames proper.
Own == Threads \ Stored
Given == Nicknames \ {NoName}

\* A nickname that reserve_agent_nickname does not draw any more.
Past(n) == n[2] < resets \/ (n[2] = resets /\ Format[n] \in used)

\* The agent has the nickname in the thread store, in the registry, or in an
\* operation on it.
Has(t, n) ==
    \/ stored_name[t] = n
    \/ \E k \in Keys : agent_tree[k] = t /\ nickname[k] = n
    \/ \E o \in Ops : target[o] = t /\ drawn[o] = n

\* The nickname of an agent that has no thread yet.
Unplaced(o, n) == target[o] = None /\ drawn[o] = n

NamesAreOwned ==
    \A n \in Given :
        /\ \A t \in Own : Has(t, n) => Past(n)
        /\ \A o \in Ops : Unplaced(o, n) => Past(n)
        /\ \A t, u \in Own : Has(t, n) /\ Has(u, n) => t = u
        /\ \A t \in Own, o \in Ops : ~(Has(t, n) /\ Unplaced(o, n))
        /\ \A o, q \in Ops : Unplaced(o, n) /\ Unplaced(q, n) => o = q

\* An operation has no nickname before it begins and after it drops its
\* reservation, and a spawn has no thread before spawn_thread_with_source.
Unstarted ==
    \A o \in Ops :
        /\ pc[o] \in {"idle", "asked", "uncounting"} => drawn[o] = NoName
        /\ kind[o] \in {"spawn", "worker"} /\ pc[o] \in {"reserved", "pathed", "named"}
              => target[o] = None

NamesInv == NamesAreOwned /\ Unstarted /\ nickname[RootPath] = NoName

\* A step that only moves nicknames about among what their agents have.
LEMMA NamesMove ==
    ASSUME NamesAreOwned,
           \A t \in Own : stored_name'[t] = stored_name[t],
           \A k \in Keys, t \in Own :
              agent_tree'[k] = t => nickname'[k] = NoName \/ Has(t, nickname'[k]),
           \A o \in Ops, t \in Own :
              target'[o] = t => drawn'[o] = NoName \/ Has(t, drawn'[o]),
           \A o \in Ops : target'[o] = None =>
              drawn'[o] = NoName \/ (target[o] = None /\ drawn'[o] = drawn[o]),
           \A n \in Given : Past(n) => Past(n)'
    PROVE  NamesAreOwned'
<1>1. \A n \in Given, t \in Own : Has(t, n)' => Has(t, n)
  BY DEF Has, Given
<1>2. \A n \in Given, o \in Ops : Unplaced(o, n)' => Unplaced(o, n)
  BY DEF Unplaced, Given
<1>3. \A n \in Given :
        /\ \A t \in Own : Has(t, n)' => Past(n)'
        /\ \A o \in Ops : Unplaced(o, n)' => Past(n)'
        /\ \A t, u \in Own : Has(t, n)' /\ Has(u, n)' => t = u
        /\ \A t \in Own, o \in Ops : ~(Has(t, n)' /\ Unplaced(o, n)')
        /\ \A o, q \in Ops : Unplaced(o, n)' /\ Unplaced(q, n)' => o = q
  <2> HIDE DEF Has, Unplaced, Past
  <2> QED BY <1>1, <1>2 DEF NamesAreOwned
<1> QED BY <1>3 DEF NamesAreOwned

\* The same, when the locals of one operation are the only ones that change.
LEMMA NamesStay ==
    ASSUME TypeOK, NamesAreOwned, NEW o \in Ops,
           stored_name' = stored_name,
           resets' = resets, used \subseteq used',
           \A q \in Ops \ {o} : target'[q] = target[q] /\ drawn'[q] = drawn[q],
           drawn'[o] = NoName \/ (target'[o] = target[o] /\ drawn'[o] = drawn[o]),
           \A k \in Keys : \/ agent_tree'[k] = agent_tree[k] /\ nickname'[k] = nickname[k]
                           \/ nickname'[k] = NoName \/ agent_tree'[k] \notin Threads
    PROVE  NamesAreOwned'
<1>1. \A k \in Keys, t \in Own :
         agent_tree'[k] = t => nickname'[k] = NoName \/ Has(t, nickname'[k])
  BY DEF Has, Own
<1>2. \A q \in Ops : drawn'[q] = NoName \/ (target'[q] = target[q] /\ drawn'[q] = drawn[q])
  OBVIOUS
<1>3. \A q \in Ops, t \in Own :
         target'[q] = t => drawn'[q] = NoName \/ Has(t, drawn'[q])
  BY <1>2 DEF Has
<1>4. \A q \in Ops : target'[q] = None =>
         drawn'[q] = NoName \/ (target[q] = None /\ drawn'[q] = drawn[q])
  BY <1>2
<1>5. \A n \in Given : Past(n) => Past(n)'
  BY DEF Past
<1> QED BY <1>1, <1>3, <1>4, <1>5, NamesMove

\* A step of one operation keeps the locals of the others unstarted.
LEMMA StepUnstarted ==
    ASSUME TypeOK, Unstarted, NEW o \in Ops, NEW to \in Steps, Goes(o, to),
           \A q \in Ops \ {o} : kind'[q] = kind[q] /\ target'[q] = target[q] /\ drawn'[q] = drawn[q],
           to \in {"idle", "asked", "uncounting"} => drawn'[o] = NoName,
           kind'[o] \in {"spawn", "worker"} /\ to \in {"reserved", "pathed", "named"} => target'[o] = None
    PROVE  Unstarted'
<1>1. pc'[o] = to /\ \A q \in Ops \ {o} : pc'[q] = pc[q]
  BY DEF Goes, TypeOK
<1> QED BY <1>1 DEF Unstarted

\* An operation that leaves its arguments behind leaves its nickname too.
LEMMA LeavesLocals ==
    ASSUME TypeOK, Unstarted, NEW o \in Ops, NEW to \in Steps, NEW p, Leaves(o, to, p)
    PROVE  /\ Unstarted' /\ drawn'[o] = NoName
           /\ \A q \in Ops \ {o} : target'[q] = target[q] /\ drawn'[q] = drawn[q]
<1>1. /\ drawn'[o] = NoName /\ kind'[o] = "none" /\ Goes(o, to)
      /\ \A q \in Ops \ {o} :
            kind'[q] = kind[q] /\ target'[q] = target[q] /\ drawn'[q] = drawn[q]
  BY DEF Leaves, Becomes, TypeOK
<1> QED BY <1>1, StepUnstarted

\* The beginning of an operation gives nobody a nickname.
LEMMA AskNames ==
    ASSUME TypeOK, NamesInv, NEW o \in Ops,
           \E t \in Threads : AskResume(o, t) \/ AskSend(o, t) \/ AskStop(o, t)
    PROVE  NamesInv'
<1>1. PICK to \in {"asked", "sending", "stopping"}, k \in {"none", "resume"}, t \in Threads :
        Asks(o, to, k, t)
  BY DEF AskResume, AskSend, AskStop
<1>2. /\ pc[o] = "idle" /\ Goes(o, to) /\ kind'[o] = k /\ target'[o] = t
      /\ UNCHANGED <<agent_tree, nickname, used, resets, stored_name, drawn>>
      /\ \A q \in Ops \ {o} : kind'[q] = kind[q] /\ target'[q] = target[q]
  BY <1>1 DEF Asks, Becomes, Moves, TypeOK, registry, manager
<1>3. drawn'[o] = NoName
  BY <1>2 DEF NamesInv, Unstarted
<1>4. NamesAreOwned'
  BY <1>2, <1>3, NamesStay DEF NamesInv
<1>5. to \in Steps
  BY DEF Steps
<1>6. Unstarted'
  BY <1>1, <1>2, <1>3, <1>5, StepUnstarted DEF NamesInv
<1> QED BY <1>2, <1>4, <1>6 DEF NamesInv

\* The steps that leave the registry and the stored nicknames alone and end the
\* operation, drop its reservation or keep its arguments.
LEMMA QuietNames ==
    ASSUME TypeOK, NamesInv, NEW o \in Ops,
           \/ FindResumed(o) \/ InsertResumed(o) \/ ResumedSettles(o) \/ SpawnFails(o)
           \/ SendInput(o) \/ StopThread(o) \/ StopFails(o)
           \/ RemoveThread(o) \/ Abort(o) \/ PrepareUnnamed(o)
    PROVE  NamesInv'
<1> DEFINE Onward == {"named", "ready", "spawning", "lifecycle", "removing", "releasing"}
<1>1. /\ UNCHANGED <<agent_tree, nickname, used, resets, stored_name>>
      /\ \/ \E to \in {"idle", "dropping"} : \E p : Leaves(o, to, p)
         \/ /\ UNCHANGED <<kind, target, drawn>>
            /\ \E to \in Onward : Goes(o, to) /\ (to = "named" => pc[o] = "reserved")
  BY DEF FindResumed, InsertResumed, ResumedSettles, SpawnFails, SendInput,
         StopThread, StopFails, RemoveThread, Abort, PrepareUnnamed, Ends, Drops, Moves,
         registry, manager, locals
<1>2. /\ Unstarted'
      /\ \A q \in Ops \ {o} : target'[q] = target[q] /\ drawn'[q] = drawn[q]
      /\ drawn'[o] = NoName \/ (target'[o] = target[o] /\ drawn'[o] = drawn[o])
  <2>1. ASSUME NEW to \in {"idle", "dropping"}, NEW p, Leaves(o, to, p)
        PROVE  /\ Unstarted' /\ drawn'[o] = NoName
               /\ \A q \in Ops \ {o} : target'[q] = target[q] /\ drawn'[q] = drawn[q]
    <3>1. to \in Steps
      BY DEF Steps, Reserving
    <3> QED BY <2>1, <3>1, LeavesLocals DEF NamesInv
  <2>2. ASSUME UNCHANGED <<kind, target, drawn>>,
               NEW to \in Onward, Goes(o, to), to = "named" => pc[o] = "reserved"
        PROVE  Unstarted'
    <3>1. to \in Steps /\ to \notin {"idle", "uncounting", "asked", "reserved", "pathed"}
      BY DEF Steps, Reserving
    <3>2. to = "named" /\ kind[o] \in {"spawn", "worker"} => target[o] = None
      BY <2>2 DEF NamesInv, Unstarted
    <3> QED BY <2>2, <3>1, <3>2, StepUnstarted DEF NamesInv
  <2> QED BY <1>1, <2>1, <2>2
<1>3. NamesAreOwned'
  BY <1>1, <1>2, NamesStay DEF NamesInv
<1> QED BY <1>1, <1>2, <1>3 DEF NamesInv

\* spawn_thread_with_source: the nickname passes from the spawn to its thread.
LEMMA SpawnNames ==
    ASSUME IInv, NamesInv, NEW o \in Ops, NEW t \in Threads, SpawnThread(o, t)
    PROVE  NamesInv'
<1>0. TypeOK
  BY DEF IInv
<1>1. /\ kind[o] \in {"spawn", "worker"} /\ pc[o] = "named" /\ Goes(o, "ready")
      /\ UNCHANGED <<agent_tree, nickname, used, resets, kind, drawn>>
  BY DEF SpawnThread, Moves, registry
<1>2. target[o] = None
  BY <1>1 DEF NamesInv, Unstarted
<1>3. /\ target'[o] = t /\ t # None
      /\ \A q \in Ops \ {o} : target'[q] = target[q]
      /\ \A u \in Threads : stored_name'[u] = IF u = t THEN drawn[o] ELSE stored_name[u]
  BY <1>0, SlotsAssumption DEF SpawnThread, TypeOK
<1>4. Unplaced(o, drawn[o])
  BY <1>2 DEF Unplaced
<1>5. \A n \in Given, u \in Own :
         Has(u, n)' => Has(u, n) \/ (u = t /\ n = drawn[o])
  <2> SUFFICES ASSUME NEW n \in Given, NEW u \in Own, Has(u, n)'
               PROVE  Has(u, n) \/ (u = t /\ n = drawn[o])
    OBVIOUS
  <2>1. CASE stored_name'[u] = n
    BY <1>3, <2>1 DEF Has, Own
  <2>2. ASSUME NEW k \in Keys, agent_tree'[k] = u, nickname'[k] = n
        PROVE  Has(u, n)
    BY <1>1, <2>2 DEF Has
  <2>3. ASSUME NEW q \in Ops, target'[q] = u, drawn'[q] = n
        PROVE  Has(u, n) \/ (u = t /\ n = drawn[o])
    <3>1. CASE q = o
      BY <1>1, <1>3, <2>3, <3>1
    <3>2. CASE q # o
      BY <1>1, <1>3, <2>3, <3>2 DEF Has
    <3> QED BY <3>1, <3>2
  <2> QED BY <2>1, <2>2, <2>3 DEF Has
<1>6. \A n \in Given, q \in Ops : Unplaced(q, n)' => Unplaced(q, n) /\ q # o
  BY <1>1, <1>3 DEF Unplaced
<1>7. \A n \in Given : Past(n)' <=> Past(n)
  BY <1>1 DEF Past
<1>8. \A n \in Given :
        /\ \A u \in Own : Has(u, n)' => Past(n)'
        /\ \A q \in Ops : Unplaced(q, n)' => Past(n)'
        /\ \A u, v \in Own : Has(u, n)' /\ Has(v, n)' => u = v
        /\ \A u \in Own, q \in Ops : ~(Has(u, n)' /\ Unplaced(q, n)')
        /\ \A p, q \in Ops : Unplaced(p, n)' /\ Unplaced(q, n)' => p = q
  <2> HIDE DEF Has, Unplaced, Past
  <2> QED BY <1>4, <1>5, <1>6, <1>7 DEF NamesInv, NamesAreOwned
<1>9. NamesAreOwned'
  BY <1>8 DEF NamesAreOwned
<1>10. "ready" \in Steps
  BY DEF Steps, Reserving
<1>11. Unstarted'
  BY <1>0, <1>1, <1>3, <1>10, StepUnstarted DEF NamesInv
<1> QED BY <1>1, <1>9, <1>11 DEF NamesInv

\* A nickname that nobody has is drawn: it belongs to the operation's agent.
LEMMA FreshName ==
    ASSUME TypeOK, NamesAreOwned, NEW o \in Ops, NEW n \in Nicknames, ~Past(n),
           UNCHANGED <<agent_tree, nickname, stored_name, target>>,
           drawn' = [drawn EXCEPT ![o] = n],
           \A m \in Given : Past(m) => Past(m)', Past(n)'
    PROVE  NamesAreOwned'
<1>1. drawn'[o] = n /\ \A q \in Ops \ {o} : drawn'[q] = drawn[q]
  BY DEF TypeOK
<1>2. \A m \in Given, t \in Own : Has(t, m)' => Has(t, m) \/ (m = n /\ target[o] = t)
  BY <1>1 DEF Has
<1>3. \A m \in Given, q \in Ops :
         Unplaced(q, m)' => Unplaced(q, m) \/ (m = n /\ target[o] = None /\ q = o)
  BY <1>1 DEF Unplaced
<1>4. None \notin Own
  BY SlotsAssumption DEF Own
<1>5. \A m \in Given :
        /\ \A u \in Own : Has(u, m)' => Past(m)'
        /\ \A q \in Ops : Unplaced(q, m)' => Past(m)'
        /\ \A u, v \in Own : Has(u, m)' /\ Has(v, m)' => u = v
        /\ \A u \in Own, q \in Ops : ~(Has(u, m)' /\ Unplaced(q, m)')
        /\ \A p, q \in Ops : Unplaced(p, m)' /\ Unplaced(q, m)' => p = q
  <2> HIDE DEF Has, Unplaced, Past
  <2> QED BY <1>2, <1>3, <1>4 DEF NamesAreOwned
<1> QED BY <1>5 DEF NamesAreOwned

\* reserve_agent_nickname: a resumed agent gets the nickname it has, any other
\* one that nobody has.
LEMMA NicknameNames ==
    ASSUME IInv, NamesInv, NEW o \in Ops, NEW names \in SUBSET Names, ReserveNickname(o, names)
    PROVE  NamesInv'
<1>0. TypeOK /\ (kind[o] = "resume" => target[o] \in Threads) /\ resets \in 0..MaxResets
  BY DEF IInv, Prepared, TypeOK
<1>1. UNCHANGED <<agent_tree, nickname, stored_name>> /\ pc[o] = "pathed"
  BY DEF ReserveNickname, manager
<1>2. {"named", "dropping"} \subseteq Steps
  BY DEF Steps, Reserving
<1>3. ASSUME Goes(o, "named"), UNCHANGED <<kind, target>>, \A q \in Ops \ {o} : drawn'[q] = drawn[q]
      PROVE  Unstarted'
  <2>1. kind[o] \in {"spawn", "worker"} => target[o] = None
    BY <1>1 DEF NamesInv, Unstarted
  <2> QED BY <1>0, <1>2, <1>3, <2>1, StepUnstarted DEF NamesInv
<1>4. CASE /\ kind[o] = "resume" /\ stored_name[target[o]] # NoName
           /\ Goes(o, "named") /\ drawn' = [drawn EXCEPT ![o] = stored_name[target[o]]]
           /\ UNCHANGED <<kind, target, path>>
           /\ used' = used \cup {Format[stored_name[target[o]]]} /\ UNCHANGED resets
  <2>1. drawn'[o] = stored_name[target[o]] /\ \A q \in Ops \ {o} : drawn'[q] = drawn[q]
    BY <1>0, <1>4 DEF TypeOK
  <2>2. Has(target[o], drawn'[o]) /\ target[o] # None
    BY <1>0, <1>4, <2>1, SlotsAssumption DEF Has
  <2>3. /\ \A k \in Keys, t \in Own : agent_tree[k] = t => Has(t, nickname[k])
        /\ \A q \in Ops, t \in Own : target[q] = t => Has(t, drawn[q])
    BY DEF Has
  <2>4. \A m \in Given : Past(m) => Past(m)'
    BY <1>4 DEF Past
  <2>5. NamesAreOwned'
    BY <1>1, <1>4, <2>1, <2>2, <2>3, <2>4, NamesMove DEF NamesInv
  <2> QED BY <1>1, <1>3, <1>4, <2>1, <2>5 DEF NamesInv
<1>5. ASSUME NEW n \in Candidates(names), Goes(o, "named"), drawn' = [drawn EXCEPT ![o] = n],
             UNCHANGED <<kind, target, path>>, used' = used \cup {Format[n]}, UNCHANGED resets
      PROVE  NamesInv'
  <2>1. n \in Nicknames /\ n[2] = resets /\ Format[n] \notin used
    BY <1>0 DEF Candidates, Nicknames
  <2>2. ~Past(n) /\ Past(n)' /\ \A m \in Given : Past(m) => Past(m)'
    BY <1>0, <1>5, <2>1 DEF Past
  <2>3. NamesAreOwned'
    BY <1>0, <1>1, <1>5, <2>1, <2>2, FreshName DEF NamesInv
  <2>4. \A q \in Ops \ {o} : drawn'[q] = drawn[q]
    BY <1>0, <1>5 DEF TypeOK
  <2> QED BY <1>1, <1>3, <1>5, <2>3, <2>4 DEF NamesInv
<1>6. ASSUME resets < MaxResets, resets' = resets + 1, NEW n \in names \X {resets + 1},
             Goes(o, "named"), drawn' = [drawn EXCEPT ![o] = n],
             UNCHANGED <<kind, target, path>>, used' = {Format[n]}
      PROVE  NamesInv'
  <2>1. n \in Nicknames /\ n[2] = resets + 1
    BY <1>0, <1>6, SlotsAssumption DEF Nicknames
  <2>2. ~Past(n) /\ Past(n)'
    BY <1>0, <1>6, <2>1 DEF Past
  <2>3. \A m \in Given : Past(m) => Past(m)'
    BY <1>0, <1>6 DEF Past, Given, Nicknames
  <2>4. NamesAreOwned'
    BY <1>0, <1>1, <1>6, <2>1, <2>2, <2>3, FreshName DEF NamesInv
  <2>5. \A q \in Ops \ {o} : drawn'[q] = drawn[q]
    BY <1>0, <1>6 DEF TypeOK
  <2> QED BY <1>1, <1>3, <1>6, <2>4, <2>5 DEF NamesInv
<1>7. CASE Drops(o, path[o]) /\ UNCHANGED <<used, resets>>
  <2>1. /\ Unstarted' /\ drawn'[o] = NoName
        /\ \A q \in Ops \ {o} : target'[q] = target[q] /\ drawn'[q] = drawn[q]
    BY <1>0, <1>2, <1>7, LeavesLocals DEF Drops, NamesInv
  <2>2. NamesAreOwned'
    BY <1>0, <1>1, <1>7, <2>1, NamesStay DEF NamesInv
  <2> QED BY <1>1, <2>1, <2>2 DEF NamesInv
<1> QED BY <1>4, <1>5, <1>6, <1>7 DEF ReserveNickname

\* The operations of the registry: an entry gets the nickname of its agent's
\* operation, and an entry that is released keeps none.
LEMMA RegistryNames ==
    ASSUME IInv, NamesInv, NEW o \in Ops,
           \/ Starts(o) \/ ReserveAgentPath(o) \/ Commit(o)
           \/ DropReservation(o) \/ ReleaseEntry(o) \/ Uncount(o)
    PROVE  NamesInv'
<1>0. TypeOK
  BY DEF IInv
<1>k. /\ agent_tree \in [Keys -> Threads \cup {Free, Held}]
      /\ nickname \in [Keys -> Nicknames \cup {NoName}]
      /\ RootPath \in Keys /\ Paths \subseteq Keys /\ Threads \subseteq Keys
      /\ Free \notin Threads /\ Held \notin Threads
      /\ RootPath \notin Paths \cup Threads
      /\ path[o] \in Paths \cup {None}
  BY <1>0, SlotsAssumption DEF TypeOK, Keys
<1>s. CASE Starts(o)
  <2>1. PICK k \in {"spawn", "worker", "resume"}, t \in Threads \cup {None}, p \in Paths \cup {None} :
          ReserveSpawnSlot(o, k, t, p) /\ (k \in {"spawn", "worker"} => t = None)
    BY <1>s, StartsWith
  <2>2. UNCHANGED <<agent_tree, nickname, used, resets, stored_name>>
    BY <2>1 DEF ReserveSpawnSlot, manager
  <2>3. drawn[o] = NoName
    BY <1>s, StartsWith DEF NamesInv, Unstarted
  <2>4. {"idle", "reserved"} \subseteq Steps
    BY DEF Steps, Reserving
  <2>5. /\ Unstarted' /\ drawn'[o] = NoName
        /\ \A q \in Ops \ {o} : target'[q] = target[q] /\ drawn'[q] = drawn[q]
    <3>1. CASE Leaves(o, "idle", None)
      BY <1>0, <2>4, <3>1, LeavesLocals DEF NamesInv
    <3>2. CASE Goes(o, "reserved") /\ Becomes(o, k, t, p) /\ UNCHANGED drawn
      <4>1. /\ kind'[o] = k /\ target'[o] = t
            /\ \A q \in Ops \ {o} : kind'[q] = kind[q] /\ target'[q] = target[q]
        BY <1>0, <3>2, BecomesTypes
      <4> QED BY <1>0, <2>1, <2>3, <2>4, <3>2, <4>1, StepUnstarted DEF NamesInv
    <3> QED BY <2>1, <3>1, <3>2 DEF ReserveSpawnSlot, Ends
  <2>6. NamesAreOwned'
    BY <1>0, <2>2, <2>5, NamesStay DEF NamesInv
  <2> QED BY <2>2, <2>5, <2>6 DEF NamesInv
<1>1. CASE ReserveAgentPath(o) \/ DropReservation(o) \/ Uncount(o)
  <2>1. /\ UNCHANGED <<nickname, used, resets, stored_name>>
        /\ \/ \E to \in {"dropping", "uncounting"} : Leaves(o, to, None)
           \/ /\ UNCHANGED <<kind, target, drawn>>
              /\ \/ pc[o] = "reserved" /\ Goes(o, "pathed")
                 \/ pc[o] = "uncounting" /\ Goes(o, "idle")
    BY <1>1 DEF ReserveAgentPath, DropReservation, Uncount, Drops, manager, locals
  <2>2. /\ Unstarted'
        /\ \A q \in Ops \ {o} : target'[q] = target[q] /\ drawn'[q] = drawn[q]
        /\ drawn'[o] = NoName \/ (target'[o] = target[o] /\ drawn'[o] = drawn[o])
    <3>1. CASE \E to \in {"dropping", "uncounting"} : Leaves(o, to, None)
      BY <1>0, <3>1, LeavesLocals DEF NamesInv, Steps, Reserving
    <3>2. CASE /\ UNCHANGED <<kind, target, drawn>>
               /\ \/ pc[o] = "reserved" /\ Goes(o, "pathed")
                  \/ pc[o] = "uncounting" /\ Goes(o, "idle")
      <4>1. {"pathed", "idle"} \subseteq Steps
        BY DEF Steps, Reserving
      <4>2. /\ kind[o] \in {"spawn", "worker"} /\ pc[o] = "reserved" => target[o] = None
            /\ pc[o] = "uncounting" => drawn[o] = NoName
        BY DEF NamesInv, Unstarted
      <4> QED BY <1>0, <3>2, <4>1, <4>2, StepUnstarted DEF NamesInv
    <3> QED BY <2>1, <3>1, <3>2
  <2>3. \A k \in Keys : \/ agent_tree'[k] = agent_tree[k] \/ agent_tree'[k] \notin Threads
                        \/ nickname[k] = NoName
    <3>1. \A k \in Keys \ {RootPath} : WithRoot(agent_tree)[k] = agent_tree[k]
      BY <1>0, WithRootType
    <3>2. WithRoot(agent_tree) \in [Keys -> Threads \cup {Free, Held}]
      BY <1>0, WithRootType
    <3>3. nickname[RootPath] = NoName
      BY DEF NamesInv
    <3>4. CASE ReserveAgentPath(o)
      <4>1. PICK tree \in {agent_tree, WithRoot(agent_tree)} :
               \/ agent_tree' = tree
               \/ path[o] # None /\ agent_tree' = [tree EXCEPT ![path[o]] = Held]
        BY <3>4 DEF ReserveAgentPath
      <4>2. /\ tree \in [Keys -> Threads \cup {Free, Held}]
            /\ \A k \in Keys \ {RootPath} : tree[k] = agent_tree[k]
        BY <1>k, <3>1, <3>2
      <4> QED BY <1>k, <3>3, <4>1, <4>2
    <3>5. CASE DropReservation(o)
      BY <1>k, <3>5 DEF DropReservation
    <3> QED BY <1>1, <3>4, <3>5 DEF Uncount
  <2>4. NamesAreOwned'
    BY <1>0, <2>1, <2>2, <2>3, NamesStay DEF NamesInv
  <2> QED BY <2>1, <2>2, <2>4 DEF NamesInv
<1>2. CASE Commit(o)
  <2> DEFINE key == IF path[o] = None THEN target[o] ELSE path[o]
  <2>0. /\ \E to \in {"idle", "sending"} : Goes(o, to)
        /\ kind'[o] = "none"
        /\ \A q \in Ops \ {o} : kind'[q] = kind[q] /\ target'[q] = target[q]
    BY <1>0, <1>2 DEF Commit, Ends, Leaves, Becomes, TypeOK
  <2>1. /\ target[o] \in Threads
        /\ agent_tree' = [agent_tree EXCEPT ![key] = target[o]]
        /\ nickname' = [nickname EXCEPT ![key] = drawn[o]]
        /\ used \subseteq used' /\ UNCHANGED <<resets, stored_name>>
        /\ drawn'[o] = NoName /\ \A q \in Ops \ {o} : drawn'[q] = drawn[q]
    BY <1>0, <1>2 DEF Commit, Ends, Leaves, manager, IInv, Prepared, TypeOK
  <2>2. key \in Keys /\ key # RootPath
    BY <1>k, <2>1
  <2> HIDE DEF key
  <2>3. \A k \in Keys : /\ agent_tree'[k] = IF k = key THEN target[o] ELSE agent_tree[k]
                        /\ nickname'[k] = IF k = key THEN drawn[o] ELSE nickname[k]
    BY <1>k, <2>1, <2>2
  <2>4. \A k \in Keys, t \in Own : agent_tree'[k] = t => Has(t, nickname'[k])
    BY <2>3 DEF Has
  <2>5. \A q \in Ops, t \in Own : target[q] = t => Has(t, drawn[q])
    BY DEF Has
  <2>6. \A m \in Given : Past(m) => Past(m)'
    BY <2>1 DEF Past
  <2>7. NamesAreOwned'
    BY <2>0, <2>1, <2>4, <2>5, <2>6, NamesMove DEF NamesInv
  <2>8. {"idle", "sending"} \subseteq Steps
    BY DEF Steps
  <2>9. Unstarted'
    BY <1>0, <2>0, <2>1, <2>8, StepUnstarted DEF NamesInv
  <2> QED BY <1>k, <2>2, <2>3, <2>7, <2>9 DEF NamesInv
<1>3. CASE ReleaseEntry(o)
  <2>1. /\ UNCHANGED <<used, resets, stored_name>>
        /\ \/ UNCHANGED <<agent_tree, nickname>>
           \/ \E k \in Keys : /\ agent_tree' = [agent_tree EXCEPT ![k] = Free]
                              /\ nickname' = [nickname EXCEPT ![k] = NoName]
        /\ \E to \in {"idle", "uncounting"} : Leaves(o, to, None)
    BY <1>3 DEF ReleaseEntry, Registered, Ends, manager
  <2>2. \A k \in Keys : \/ agent_tree'[k] = agent_tree[k] /\ nickname'[k] = nickname[k]
                        \/ nickname'[k] = NoName
    BY <1>k, <2>1
  <2>3. {"idle", "uncounting"} \subseteq Steps
    BY DEF Steps
  <2>4. /\ Unstarted'
        /\ \A q \in Ops \ {o} : target'[q] = target[q] /\ drawn'[q] = drawn[q]
        /\ drawn'[o] = NoName \/ (target'[o] = target[o] /\ drawn'[o] = drawn[o])
    BY <1>0, <2>1, <2>3, LeavesLocals DEF NamesInv
  <2>5. NamesAreOwned'
    BY <1>0, <2>1, <2>2, <2>4, NamesStay DEF NamesInv
  <2>6. nickname'[RootPath] = NoName
    BY <1>k, <2>2 DEF NamesInv
  <2> QED BY <2>4, <2>5, <2>6 DEF NamesInv
<1> QED BY <1>s, <1>1, <1>2, <1>3

\* The steps that are not of an operation leave the nicknames where they are; the
\* root that is registered has none.
LEMMA OtherNames ==
    ASSUME TypeOK, NamesInv, \/ RegisterRootThread \/ UNCHANGED vars
                             \/ \E t \in Threads : ThreadDies(t) \/ UnloadThread(t)
    PROVE  NamesInv'
<1>1. /\ agent_tree' \in {agent_tree, WithRoot(agent_tree)}
      /\ UNCHANGED <<nickname, used, resets, stored_name, pc, kind, target, drawn>>
  BY DEF RegisterRootThread, ThreadDies, UnloadThread, vars, registry, manager, locals
<1>2. \A k \in Keys : agent_tree'[k] = agent_tree[k] \/ nickname[k] = NoName
  BY <1>1, WithRootType DEF NamesInv
<1>3. /\ \A k \in Keys, t \in Own : agent_tree[k] = t => Has(t, nickname[k])
      /\ \A q \in Ops, t \in Own : target[q] = t => Has(t, drawn[q])
  BY DEF Has
<1>4. \A m \in Given : Past(m) => Past(m)'
  BY <1>1 DEF Past
<1>5. NamesAreOwned'
  BY <1>1, <1>2, <1>3, <1>4, NamesMove DEF NamesInv
<1> QED BY <1>1, <1>5 DEF NamesInv, Unstarted

\* A session that begins has drawn no nickname.
LEMMA InitNames == Init => NamesInv
<1> SUFFICES ASSUME Init PROVE NamesInv
  OBVIOUS
<1>1. /\ \A t \in Own : stored_name[t] = NoName
      /\ \A k \in Keys : nickname[k] = NoName
      /\ \A o \in Ops : drawn[o] = NoName /\ kind[o] = "none"
      /\ RootPath \in Keys
  BY DEF Init, Own, Keys
<1>2. /\ \A n \in Given, t \in Own : ~Has(t, n)
      /\ \A n \in Given, o \in Ops : ~Unplaced(o, n)
  BY <1>1 DEF Has, Unplaced, Given
<1>3. NamesAreOwned
  <2> HIDE DEF Has, Unplaced
  <2> QED BY <1>2 DEF NamesAreOwned
<1> QED BY <1>1, <1>3 DEF NamesInv, Unstarted

\* Every step keeps the nicknames with their agents.
LEMMA NextNames ==
    ASSUME IInv, NamesInv, [Next]_vars
    PROVE  NamesInv'
<1>0. TypeOK
  BY DEF IInv
<1>1. ASSUME NEW o \in Ops, Local(o)
      PROVE  NamesInv'
  BY <1>0, <1>1, AskNames, NicknameNames, SpawnNames, QuietNames DEF Local
<1>2. ASSUME NEW o \in Ops,
             \/ Starts(o) \/ ReserveAgentPath(o) \/ Commit(o)
             \/ DropReservation(o) \/ ReleaseEntry(o) \/ Uncount(o)
      PROVE  NamesInv'
  BY <1>2, RegistryNames
<1>3. CASE \/ RegisterRootThread \/ UNCHANGED vars
           \/ \E t \in Threads : ThreadDies(t) \/ UnloadThread(t)
  BY <1>0, <1>3, OtherNames
<1> QED BY <1>1, <1>2, <1>3 DEF Next, Local, Starts

\* reserve_agent_nickname: two agents of this process have the same nickname only
\* if it was made from two candidates, after different numbers of resets, whatever
\* is reset, resumed, aborted, released or read back from the store.
THEOREM NicknamesRepeatByText == Spec => []NicknamesRepeatByTextOnly
<1>1. IInv /\ NamesInv => NicknamesRepeatByTextOnly
  <2> SUFFICES ASSUME IInv, NamesInv, NEW j \in Keys, NEW k \in Keys,
                      agent_tree[j] \in Own, agent_tree[k] \in Own,
                      agent_tree[j] # agent_tree[k],
                      nickname[j] # NoName, nickname[k] # NoName,
                      Format[nickname[j]] = Format[nickname[k]]
               PROVE  nickname[j][1] # nickname[k][1] /\ nickname[j][2] # nickname[k][2]
    BY DEF NicknamesRepeatByTextOnly, Own
  <2>1. nickname[j] \in Given /\ nickname[k] \in Nicknames
    BY DEF IInv, TypeOK, Given
  <2>2. Has(agent_tree[j], nickname[j]) /\ Has(agent_tree[k], nickname[k])
    BY DEF Has
  <2>3. nickname[j] # nickname[k]
    <3> HIDE DEF Has
    <3> QED BY <2>1, <2>2 DEF NamesInv, NamesAreOwned
  <2> QED BY <2>1, <2>3, FormatAssumption DEF Given
<1>2. IInv /\ NamesInv /\ [Next]_vars => NamesInv'
  BY NextNames
<1> QED BY <1>1, <1>2, InitNames, Invariance, PTL DEF Spec
=============================================================================
