------------------------------ MODULE AgentSlots ------------------------------
(* The agents of one session: the registry that limits and names them          *)
(* (codex-rs/core/src/agent/registry.rs), what AgentControl does to one agent  *)
(* (agent/control.rs) and the thread manager's table of threads                *)
(* (thread_manager.rs).  The operations are tool calls of different agents     *)
(* that share one AgentControl; an interrupted turn drops the future of its    *)
(* call where it awaits.  resume_agent and close_agent walk the tree of agents *)
(* one at a time: each step of a walk is an operation here, and any agent may  *)
(* be next.  Left out: the persisted tree, roles, task messages, statuses,     *)
(* completion watchers and the history that a fork copies.                     *)
EXTENDS Naturals, FiniteSets

CONSTANTS
    Threads,     \* thread ids
    Root,        \* the thread of the session
    Stored,      \* agents that an earlier process left in the thread store
    Ops,         \* concurrent operations on the AgentControl
    Paths,       \* agent paths below the root
    SpawnPaths,  \* those that spawns ask for: None without the feature MultiAgentV2
    Names,       \* nickname candidates, of the built-in pool and of the roles
    Format,      \* format_agent_nickname: the text of a candidate after some resets
    MaxThreads,  \* agent_max_threads
    MaxResets    \* bound on nickname_reset_count

RootPath == "root"
Free == "free"          \* the key is vacant
Held == "held"          \* the key has metadata without an agent_id
None == "none"
NoName == <<>>          \* no nickname

ASSUME SlotsAssumption ==
    /\ IsFiniteSet(Threads) /\ IsFiniteSet(Paths) /\ IsFiniteSet(Ops)
    /\ Root \in Threads /\ Stored \subseteq Threads \ {Root}
    /\ Threads \cap Paths = {} /\ SpawnPaths \subseteq Paths \cup {None}
    /\ {RootPath, Free, Held, None} \cap (Threads \cup Paths) = {}
    /\ MaxThreads \in Nat /\ MaxResets \in Nat

\* A nickname as it was made: the candidate and the number of resets before it.
\* The code keeps its text.
Nicknames == Names \X (0..MaxResets)
Texts == {Format[n] : n \in Nicknames}

\* "<name>" and "<name> the <k>th" differ in their texts if they differ in the name
\* or in the resets alone.  If they differ in both they may not: a role may have
\* the candidates "Atlas" and "Atlas the 2nd".
ASSUME FormatAssumption ==
    \A n, m \in Nicknames :
        Format[n] = Format[m] => n = m \/ (n[1] # m[1] /\ n[2] # m[2])

VARIABLES
    agent_tree,   \* the agent of each key
    nickname,     \* and its nickname
    used,         \* used_agent_nicknames
    resets,       \* nickname_reset_count
    total_count,
    threads,      \* the threads in the manager
    running,      \* those whose session loop has not ended
    known,        \* those that can be found in the thread store
    stored_name,  \* the nickname in the thread's persisted metadata
    pc, kind, target, path, drawn    \* the step and the arguments of an operation

registry == <<agent_tree, nickname, used, resets, total_count>>
manager == <<threads, running, known, stored_name>>
locals == <<kind, target, path, drawn>>
vars == <<registry, manager, pc, locals>>

-----------------------------------------------------------------------------
\* A thread without a path has the key "thread:<id>".
Keys == Threads \cup Paths \cup {RootPath}

\* An operation in one of these steps has an active SpawnReservation.
Reserving == {"reserved", "pathed", "named", "spawning", "lifecycle", "ready",
              "dropping"}
\* In these the reservation also holds the operation's path, if it has one.
Pathed == {"pathed", "named", "spawning", "lifecycle", "ready", "dropping"}
Steps == {"idle", "asked", "sending", "stopping", "removing",
          "releasing", "uncounting"} \cup Reserving

\* Every variable has the type its Rust counterpart has; total_count, an
\* AtomicUsize, does not go below 0.
TypeOK ==
    /\ agent_tree \in [Keys -> Threads \cup {Free, Held}]
    /\ nickname \in [Keys -> Nicknames \cup {NoName}]
    /\ used \subseteq Texts
    /\ resets \in 0..MaxResets
    /\ total_count \in Nat
    /\ threads \subseteq Threads /\ running \subseteq Threads
    /\ known \subseteq Threads
    /\ stored_name \in [Threads -> Nicknames \cup {NoName}]
    /\ pc \in [Ops -> Steps]
    /\ kind \in [Ops -> {"none", "spawn", "worker", "resume"}]
    /\ target \in [Ops -> Threads \cup {None}]
    /\ path \in [Ops -> Paths \cup {None}]
    /\ drawn \in [Ops -> Nicknames \cup {NoName}]

Init ==
    /\ agent_tree = [k \in Keys |-> Free]
    /\ nickname = [k \in Keys |-> NoName]
    /\ used = {} /\ resets = 0 /\ total_count = 0
    /\ threads = {Root} /\ running = {Root} /\ known = {Root} \cup Stored
    /\ stored_name \in [Threads -> Nicknames \cup {NoName}]
    /\ \A t \in Threads \ Stored : stored_name[t] = NoName
    /\ pc = [o \in Ops |-> "idle"]
    /\ kind = [o \in Ops |-> "none"]
    /\ target = [o \in Ops |-> None]
    /\ path = [o \in Ops |-> None]
    /\ drawn = [o \in Ops |-> NoName]

-----------------------------------------------------------------------------
Goes(o, to) == pc' = [pc EXCEPT ![o] = to]
Moves(o, from, to) == pc[o] = from /\ Goes(o, to)

\* The operation is k, of thread t, with path p.
Becomes(o, k, t, p) ==
    /\ kind' = [kind EXCEPT ![o] = k]
    /\ target' = [target EXCEPT ![o] = t]
    /\ path' = [path EXCEPT ![o] = p]

\* An agent that runs begins a call about thread t.
Asks(o, to, k, t) ==
    /\ running # {}
    /\ Moves(o, "idle", to)
    /\ Becomes(o, k, t, None)
    /\ UNCHANGED <<registry, manager, drawn>>

\* The operation goes on to a step that needs no local but the path p.
Leaves(o, to, p) ==
    /\ Goes(o, to)
    /\ Becomes(o, "none", None, p)
    /\ drawn' = [drawn EXCEPT ![o] = NoName]

\* It returns, or its future is dropped.
Ends(o) == Leaves(o, "idle", None)

\* Its reservation, with the path p, is dropped.
Drops(o, p) == Leaves(o, "dropping", p)

Registered(t) == {k \in Keys : agent_tree[k] = t}
Counted == {k \in Keys \ {RootPath} : agent_tree[k] \in Threads}
Slots == {o \in Ops : pc[o] \in Reserving}

-----------------------------------------------------------------------------
(* The registry.                                                               *)

\* Mutant: the limit itself is still let through.
ReserveSpawnSlotTooMany(o, k, t, p) ==
    /\ total_count <= MaxThreads
    /\ Goes(o, "reserved") /\ total_count' = total_count + 1
    /\ Becomes(o, k, t, p) /\ UNCHANGED drawn
    /\ UNCHANGED <<agent_tree, nickname, used, resets, manager>>

\* reserve_spawn_slot with try_increment_spawned, for the operation k of thread t
\* with path p.
ReserveSpawnSlot(o, k, t, p) ==
    /\ \/ /\ total_count < MaxThreads
          /\ Goes(o, "reserved") /\ total_count' = total_count + 1
          /\ Becomes(o, k, t, p) /\ UNCHANGED drawn
       \/ /\ total_count >= MaxThreads
          /\ Ends(o) /\ UNCHANGED total_count
    /\ UNCHANGED <<agent_tree, nickname, used, resets, manager>>

\* register_root_thread, called with the session's root thread.
WithRoot(tree) == IF tree[RootPath] = Free THEN [tree EXCEPT ![RootPath] = Root] ELSE tree

RegisterRootThread ==
    /\ agent_tree' = WithRoot(agent_tree)
    /\ UNCHANGED <<nickname, used, resets, total_count, manager, pc, locals>>

\* Mutant: an occupied path is taken over.
ReserveAgentPathBlindly(o) ==
    /\ Moves(o, "reserved", "pathed")
    /\ agent_tree' = IF path[o] = None THEN agent_tree ELSE [agent_tree EXCEPT ![path[o]] = Held]
    /\ UNCHANGED <<nickname, used, resets, total_count, manager, locals>>

\* The first half of prepare_thread_spawn: the parent of an agent of depth 1 is
\* registered as the root.
ReserveAgentPath(o) ==
    /\ pc[o] = "reserved" /\ kind[o] # "worker"
    /\ \E tree \in {agent_tree, WithRoot(agent_tree)} :
          \/ /\ path[o] = None
             /\ Goes(o, "pathed") /\ agent_tree' = tree
             /\ UNCHANGED locals
          \/ /\ path[o] # None /\ agent_tree[path[o]] = Free
             /\ Goes(o, "pathed") /\ agent_tree' = [tree EXCEPT ![path[o]] = Held]
             /\ UNCHANGED locals
          \/ /\ path[o] # None /\ agent_tree[path[o]] # Free
             /\ Drops(o, None) /\ agent_tree' = tree
    /\ UNCHANGED <<nickname, used, resets, total_count, manager>>

Candidates(names) == {n \in names \X {resets} : Format[n] \notin used}

\* Mutant: the pool is emptied, and its names are given out again as they were.
ReserveNicknameReused(o, names) ==
    /\ Moves(o, "pathed", "named")
    /\ \E n \in IF Candidates(names) # {} THEN Candidates(names) ELSE names \X {resets} :
          /\ drawn' = [drawn EXCEPT ![o] = n]
          /\ used' = used \cup {Format[n]}
    /\ UNCHANGED <<agent_tree, nickname, resets, total_count, manager,
                   kind, target, path>>

\* reserve_agent_nickname: the nickname that a resumed agent has in the database,
\* as it is; without one, or when the database fails, a candidate that is not in
\* use; without one, the pool starts again.
ReserveNickname(o, names) ==
    LET Takes(n) == /\ Goes(o, "named") /\ drawn' = [drawn EXCEPT ![o] = n]
                    /\ UNCHANGED <<kind, target, path>> IN
    /\ pc[o] = "pathed"
    /\ \/ /\ kind[o] = "resume" /\ stored_name[target[o]] # NoName
          /\ Takes(stored_name[target[o]])
          /\ used' = used \cup {Format[stored_name[target[o]]]} /\ UNCHANGED resets
       \/ \E n \in Candidates(names) :
             Takes(n) /\ used' = used \cup {Format[n]} /\ UNCHANGED resets
       \/ /\ names # {} /\ Candidates(names) = {} /\ resets < MaxResets
          /\ resets' = resets + 1
          /\ \E n \in names \X {resets + 1} : Takes(n) /\ used' = {Format[n]}
       \/ /\ names = {}
          /\ Drops(o, path[o]) /\ UNCHANGED <<used, resets>>
    /\ UNCHANGED <<agent_tree, nickname, total_count, manager>>

\* The source of a worker is not a ThreadSpawn: it has neither a path nor a nickname.
PrepareUnnamed(o) ==
    /\ kind[o] = "worker"
    /\ Moves(o, "reserved", "named")
    /\ UNCHANGED <<registry, manager, locals>>

\* commit and register_spawned_thread.  The edge to the agent's parent is persisted
\* then, and a new agent is sent its input.
Commit(o) ==
    LET key == IF path[o] = None THEN target[o] ELSE path[o] IN
    /\ pc[o] = "ready"
    /\ agent_tree' = [agent_tree EXCEPT ![key] = target[o]]
    /\ nickname' = [nickname EXCEPT ![key] = drawn[o]]
    /\ used' = IF drawn[o] = NoName THEN used ELSE used \cup {Format[drawn[o]]}
    /\ \/ /\ kind[o] = "resume" /\ Ends(o)
       \/ /\ kind[o] # "resume" /\ Goes(o, "sending")
          /\ Becomes(o, "none", target[o], None)
          /\ drawn' = [drawn EXCEPT ![o] = NoName]
    /\ UNCHANGED <<resets, total_count, manager>>

\* Mutant: the placeholder stays.
DropReservationKeepsPath(o) ==
    /\ pc[o] = "dropping" /\ Leaves(o, "uncounting", None)
    /\ UNCHANGED <<registry, manager>>

\* Drop for SpawnReservation, up to the counter.
DropReservation(o) ==
    /\ pc[o] = "dropping" /\ Leaves(o, "uncounting", None)
    /\ agent_tree' = IF path[o] # None /\ agent_tree[path[o]] = Held
                     THEN [agent_tree EXCEPT ![path[o]] = Free] ELSE agent_tree
    /\ UNCHANGED <<nickname, used, resets, total_count, manager>>

\* release_spawned_thread, up to the counter: one entry of the thread, whichever
\* the map yields first, is removed; the root is not counted.
ReleaseEntry(o) ==
    /\ pc[o] = "releasing"
    /\ \/ \E k \in Registered(target[o]) :
             /\ agent_tree' = [agent_tree EXCEPT ![k] = Free]
             /\ nickname' = [nickname EXCEPT ![k] = NoName]
             /\ Leaves(o, IF k = RootPath THEN "idle" ELSE "uncounting", None)
       \/ /\ Registered(target[o]) = {}
          /\ Ends(o) /\ UNCHANGED <<agent_tree, nickname>>
    /\ UNCHANGED <<used, resets, total_count, manager>>

\* total_count.fetch_sub, in Drop and in release_spawned_thread.
Uncount(o) ==
    /\ pc[o] = "uncounting"
    /\ total_count' = total_count - 1
    /\ Goes(o, "idle")
    /\ UNCHANGED <<agent_tree, nickname, used, resets, manager, locals>>

-----------------------------------------------------------------------------
(* spawn_agent_internal and resume_single_agent_from_rollout.                  *)

\* A spawn_agent call: the slot comes first.
AskSpawn(o, p) ==
    running # {} /\ pc[o] = "idle" /\ ReserveSpawnSlot(o, "spawn", None, p)

\* A worker of an agent job.
AskWorker(o) ==
    running # {} /\ pc[o] = "idle" /\ ReserveSpawnSlot(o, "worker", None, None)

\* The caller has found that the thread is not loaded.
AskResume(o, t) == t \in known \ threads /\ Asks(o, "asked", "resume", t)

\* What it found may no longer be so when the resume takes its slot.
StartResume(o) == pc[o] = "asked" /\ ReserveSpawnSlot(o, "resume", target[o], None)

Insert(t) ==
    /\ threads' = threads \cup {t}
    /\ running' = running \cup {t}
    /\ known' = known \cup {t}

\* spawn_thread_with_source and finalize_thread_spawn for a new thread: nothing
\* is awaited between the insertion and the commit.
SpawnThread(o, t) ==
    /\ kind[o] \in {"spawn", "worker"} /\ t \in Threads \ known
    /\ Moves(o, "named", "ready")
    /\ target' = [target EXCEPT ![o] = t]
    /\ Insert(t)
    /\ stored_name' = [stored_name EXCEPT ![t] = drawn[o]]
    /\ UNCHANGED <<registry, kind, path, drawn>>

\* The start of spawn_thread_with_source for a resumed thread: a thread that runs
\* is returned as it is, one that has ended is removed.
FindResumed(o) ==
    /\ kind[o] = "resume" /\ pc[o] = "named"
    /\ IF target[o] \in threads \cap running
       THEN Goes(o, "ready") /\ UNCHANGED threads
       ELSE Goes(o, "spawning") /\ threads' = threads \ {target[o]}
    /\ UNCHANGED <<registry, running, known, stored_name, locals>>

\* finalize_thread_spawn: the second of two is shut down and fails.
InsertResumed(o) ==
    /\ pc[o] = "spawning"
    /\ IF target[o] \notin threads
       THEN Goes(o, "lifecycle") /\ Insert(target[o]) /\ UNCHANGED locals
       ELSE Drops(o, path[o]) /\ UNCHANGED <<threads, running, known>>
    /\ UNCHANGED <<registry, stored_name>>

\* emit_thread_resume_lifecycle and apply_goal_resume_runtime_effects have returned.
ResumedSettles(o) ==
    /\ Moves(o, "lifecycle", "ready")
    /\ UNCHANGED <<registry, manager, locals>>

\* Any other error of the calls that create the thread.
SpawnFails(o) ==
    /\ pc[o] \in {"named", "spawning"}
    /\ Drops(o, path[o])
    /\ UNCHANGED <<registry, manager>>

-----------------------------------------------------------------------------
(* send_input, shutdown_live_agent, and the ends of threads.                   *)

AskSend(o, t) == t \in known /\ Asks(o, "sending", "none", t)

\* send_input: handle_thread_request_result acts on InternalAgentDied only.
SendInput(o) ==
    /\ pc[o] = "sending"
    /\ IF target[o] \in threads \ running
       THEN Goes(o, "removing") /\ UNCHANGED locals
       ELSE Ends(o)
    /\ UNCHANGED <<registry, manager>>

\* close_agent, for the agent or for one of its descendants.
AskStop(o, t) == t \in known /\ Asks(o, "stopping", "none", t)

\* shutdown_live_agent: a thread that is loaded is shut down and awaited.
StopThread(o) ==
    /\ Moves(o, "stopping", "removing")
    /\ running' = IF target[o] \in threads THEN running \ {target[o]} ELSE running
    /\ UNCHANGED <<registry, threads, known, stored_name, locals>>

\* flush_rollout fails.
StopFails(o) ==
    /\ pc[o] = "stopping" /\ target[o] \in threads
    /\ Ends(o)
    /\ UNCHANGED <<registry, manager>>

\* remove_thread, after a shutdown or after a request to a dead thread.
RemoveThread(o) ==
    /\ Moves(o, "removing", "releasing")
    /\ threads' = threads \ {target[o]}
    /\ UNCHANGED <<registry, running, known, stored_name, locals>>

\* The future of the operation is dropped at an await: SpawnReservation's Drop runs.
Abort(o) ==
    /\ \/ pc[o] = "reserved" /\ Drops(o, None)
       \/ pc[o] \in {"named", "spawning", "lifecycle"} /\ Drops(o, path[o])
       \/ pc[o] \in {"asked", "sending", "stopping", "removing"} /\ Ends(o)
    /\ UNCHANGED <<registry, manager>>

\* The session loop of a thread ends by itself.
ThreadDies(t) ==
    /\ t \in running
    /\ running' = running \ {t}
    /\ UNCHANGED <<registry, threads, known, stored_name, pc, locals>>

\* The app server shuts a thread without subscribers down, or archives it.
UnloadThread(t) ==
    /\ t \in threads
    /\ threads' = threads \ {t} /\ running' = running \ {t}
    /\ UNCHANGED <<registry, known, stored_name, pc, locals>>

-----------------------------------------------------------------------------
Next ==
    \/ RegisterRootThread
    \/ \E t \in Threads : ThreadDies(t) \/ UnloadThread(t)
    \/ \E o \in Ops :
          \/ \E p \in SpawnPaths : AskSpawn(o, p)
          \/ AskWorker(o)
          \/ \E t \in Threads : AskResume(o, t) \/ AskSend(o, t) \/ AskStop(o, t)
          \/ StartResume(o) \/ ReserveAgentPath(o)
          \/ \E names \in SUBSET Names : ReserveNickname(o, names)
          \/ PrepareUnnamed(o)
          \/ \E t \in Threads : SpawnThread(o, t)
          \/ FindResumed(o) \/ InsertResumed(o) \/ ResumedSettles(o) \/ SpawnFails(o)
          \/ Commit(o)
          \/ DropReservation(o) \/ Uncount(o)
          \/ SendInput(o) \/ StopThread(o) \/ StopFails(o)
          \/ RemoveThread(o) \/ ReleaseEntry(o)
          \/ Abort(o)

Spec == Init /\ [][Next]_vars

-----------------------------------------------------------------------------
(* Properties.                                                                 *)

\* The agents in the registry and the spawns under way never outnumber
\* agent_max_threads, although the tree and the counter are guarded apart and an
\* entry is removed before the counter goes down.
LimitHolds == Cardinality(Counted) + Cardinality(Slots) <= MaxThreads

HoldsPath(o, p) == pc[o] \in Pathed /\ path[o] = p

\* A path is held for exactly one spawn under way and by no spawn that has ended
\* or failed: none is lost for the rest of the session, none is promised twice.
HeldPathsAreReserved ==
    \A p \in Paths :
        /\ agent_tree[p] = Held <=> \E o \in Ops : HoldsPath(o, p)
        /\ \A o, q \in Ops : HoldsPath(o, p) /\ HoldsPath(q, p) => o = q

\* An operation that is about to decrement the counter.
Leaving == {o \in Ops : pc[o] = "uncounting"}

\* Every entry, reservation and pending decrement has a unit of the counter.
SlotsAreCounted ==
    /\ Cardinality(Counted) + Cardinality(Slots) + Cardinality(Leaving) <= total_count
    /\ total_count <= MaxThreads

\* An operation has a thread where it uses it, and a worker has no path.
Prepared ==
    \A o \in Ops :
        /\ kind[o] = "resume" \/ pc[o] \in {"asked", "spawning", "lifecycle", "ready"}
              => target[o] \in Threads
        /\ kind[o] = "worker" => path[o] = None

\* The inductive invariant: the counter bounds what it stands for at every point
\* between the two locks, so it can neither underflow nor let an agent too many in.
IInv == TypeOK /\ SlotsAreCounted /\ Prepared /\ HeldPathsAreReserved

\* The agent of a path leaves it only by being released: no spawn, resume or
\* aborted reservation puts another agent or a placeholder in its place.
PathKeepsItsAgent ==
    [][\A p \in Paths : agent_tree[p] \in Threads => agent_tree'[p] \in {agent_tree[p], Free}]_vars

\* Two agents that drew their nicknames in this process have the same one only if
\* another candidate, before another number of resets, reads like it: no draw gives
\* out a candidate again before the pool is reset, and no reset, resume or late
\* commit makes it available too early (reserve_agent_nickname).
NicknamesRepeatByTextOnly ==
    \A j, k \in Keys :
        /\ agent_tree[j] \in Threads \ Stored /\ agent_tree[k] \in Threads \ Stored
        /\ agent_tree[j] # agent_tree[k]
        /\ nickname[j] # NoName /\ nickname[k] # NoName
        /\ Format[nickname[j]] = Format[nickname[k]]
        => nickname[j][1] # nickname[k][1] /\ nickname[j][2] # nickname[k][2]

=============================================================================
