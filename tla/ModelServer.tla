----------------------------- MODULE ModelServer -----------------------------
(* Startup, attachment and shutdown of the shared llama-server process, as     *)
(* coordinated by codex-rs/llamacpp/src/lifecycle.rs and called from           *)
(* ensure_oss_ready in codex-rs/llamacpp/src/lib.rs.                           *)
(*                                                                             *)
(* A client is one Millie process that starts a local-model session.  Each     *)
(* client that reaches `connect` spawns one supervisor process, so supervisors *)
(* and the llama-server children they launch are indexed by the client.  All   *)
(* of them meet at one TCP port and at one OS file lock, the gate.             *)
EXTENDS FiniteSets, Naturals

CONSTANTS
    Clients,         \* Millie processes
    Models,          \* (model file, vision mode) pairs a client may ask for
    ExternalModels,  \* what an independently launched server may be serving
    ImpatientLock    \* TRUE: the lock deadline may be shorter than one probe

Nobody == "nobody"
External == "external"

ASSUME ModelServerAssumption ==
    /\ Clients # {}
    /\ {Nobody, External} \cap Clients = {}
    /\ ExternalModels \subseteq Models
    /\ ImpatientLock \in BOOLEAN

VARIABLES
    client,   \* progress of each Millie process through ensure_oss_ready
    want,     \* the model and vision mode each client was configured with
    keep,     \* MILLIE_LLAMACPP_KEEP_ALIVE of each client
    sup,      \* progress of each client's supervisor through run_supervisor
    answer,   \* the line the supervisor has written to its stdout, if any
    gate,     \* holder of the endpoint lock file
    child,    \* the llama-server process each supervisor launched
    bound,    \* the process listening on the port
    ext       \* the independently launched server

vars == <<client, want, keep, sup, answer, gate, child, bound, ext>>

-----------------------------------------------------------------------------
Free == <<"free", "free">>
AsClient(c) == <<"client", c>>
AsSup(c) == <<"sup", c>>

\* Supervisor states in which run_supervisor owns its `gate` (or `_gate`).
GateStates == {"probe", "validate", "attach", "launch", "verify", "report",
               "abort", "stopping"}

\* A llama-server process that nobody has told to stop.
Running == {"starting", "loading", "healthy"}

ClientStates == {"new", "preflight", "probing", "files", "connecting",
                 "owner", "attached", "failed", "gone"}
SupStates == GateStates \cup {"none", "lock", "serving", "stoplock", "exited"}
ChildStates == Running \cup {"none", "killed", "dead"}

\* The values each process and each pipe can have.
TypeOK ==
    /\ client \in [Clients -> ClientStates]
    /\ want \in [Clients -> Models]
    /\ keep \in [Clients -> BOOLEAN]
    /\ sup \in [Clients -> SupStates]
    /\ answer \in [Clients -> {"none", "owned", "attached", "error"}]
    /\ gate \in {Free} \cup ({"client", "sup"} \X Clients)
    /\ child \in [Clients -> ChildStates]
    /\ bound \in Clients \cup {Nobody, External}
    /\ ext \in [state : {"absent", "loading", "healthy"}, model : Models]

Init ==
    /\ client = [c \in Clients |-> "new"]
    /\ want \in [Clients -> Models]
    /\ keep \in [Clients -> BOOLEAN]
    /\ sup = [c \in Clients |-> "none"]
    /\ answer = [c \in Clients |-> "none"]
    /\ gate = Free
    /\ child = [c \in Clients |-> "none"]
    /\ bound = Nobody
    /\ ext \in [state : {"absent"}, model : Models]

\* The write end of the owner pipe: held while `connect` waits and, once the
\* answer was "owned", in OWNERS until the process ends.
PipeOpen(c) == client[c] \in {"connecting", "owner"}

\* GET /health answers with success.
PortHealthy ==
    \/ bound = External /\ ext.state = "healthy"
    \/ bound \in Clients /\ child[bound] = "healthy"

\* What GET /props reports for the process listening on the port.
PortModel == IF bound = External THEN ext.model ELSE want[bound]

\* validate_model: the server reached is the one the client asked for.
SameModel(c) == PortHealthy /\ PortModel = want[c]

\* The lock is held by a startup that may last as long as the lock deadline.
LongHold == \E d \in Clients :
    gate = AsSup(d) /\ sup[d] \in {"launch", "verify", "report", "abort"}

\* lock_file gives up: its deadline has passed and the lock is still taken.
LockDeadline == gate # Free /\ (ImpatientLock \/ LongHold)

\* SIGKILL: a running child is doomed, a child that has exited is unaffected.
KillChild(c) ==
    child' = [child EXCEPT ![c] = IF @ \in Running THEN "killed" ELSE @]

-----------------------------------------------------------------------------
(* ensure_oss_ready and connect, in the client process.                        *)

ClientStep(c, from, to) ==
    /\ client[c] = from
    /\ client' = [client EXCEPT ![c] = to]

StartSession(c) ==
    /\ ClientStep(c, "new", "preflight")
    /\ UNCHANGED <<want, keep, sup, answer, gate, child, bound, ext>>

PreflightLock(c) ==
    /\ ClientStep(c, "preflight", "probing")
    /\ gate = Free
    /\ gate' = AsClient(c)
    /\ UNCHANGED <<want, keep, sup, answer, child, bound, ext>>

PreflightLockTimeout(c) ==
    /\ ClientStep(c, "preflight", "failed")
    /\ LockDeadline
    /\ UNCHANGED <<want, keep, sup, answer, gate, child, bound, ext>>

\* Nothing listens, or the right model does: go on to the downloads.
PreflightOk(c) ==
    /\ ClientStep(c, "probing", "files")
    /\ bound = Nobody \/ SameModel(c)
    /\ gate' = Free
    /\ UNCHANGED <<want, keep, sup, answer, child, bound, ext>>

\* Mutant: the probe has no deadline while the server is still loading.
PreflightRefusedPatient(c) ==
    /\ ClientStep(c, "probing", "failed")
    /\ PortHealthy
    /\ gate' = Free
    /\ UNCHANGED <<want, keep, sup, answer, child, bound, ext>>

\* Loading, unhealthy, silent, or another model: the session does not start.
PreflightRefused(c) ==
    /\ ClientStep(c, "probing", "failed")
    /\ bound # Nobody
    /\ gate' = Free
    /\ UNCHANGED <<want, keep, sup, answer, child, bound, ext>>

\* The files are in place; connect spawns the supervisor with its two pipes.
Connect(c) ==
    /\ ClientStep(c, "files", "connecting")
    /\ sup' = [sup EXCEPT ![c] = "lock"]
    /\ UNCHANGED <<want, keep, answer, gate, child, bound, ext>>

\* A download or the spawn of the supervisor fails.
FilesFailed(c) ==
    /\ ClientStep(c, "files", "failed")
    /\ UNCHANGED <<want, keep, sup, answer, gate, child, bound, ext>>

\* read_line returns: an answer, or end of file from a silent exit.
ReadAnswer(c) ==
    /\ answer[c] # "none" \/ sup[c] = "exited"
    /\ ClientStep(c, "connecting",
                  CASE answer[c] = "owned" -> "owner"
                    [] answer[c] = "attached" -> "attached"
                    [] OTHER -> "failed")
    /\ UNCHANGED <<want, keep, sup, answer, gate, child, bound, ext>>

\* The client stops waiting; dropping `pipe` tells the supervisor.
ConnectTimeout(c) ==
    /\ ClientStep(c, "connecting", "failed")
    /\ UNCHANGED <<want, keep, sup, answer, gate, child, bound, ext>>

\* The process exits, crashes or loses its terminal; the OS releases its lock.
CloseSession(c) ==
    /\ client[c] \notin {"new", "gone"}
    /\ client' = [client EXCEPT ![c] = "gone"]
    /\ gate' = IF gate = AsClient(c) THEN Free ELSE gate
    /\ UNCHANGED <<want, keep, sup, answer, child, bound, ext>>

-----------------------------------------------------------------------------
(* run_supervisor.                                                             *)

SupStep(c, from, to) ==
    /\ sup[c] = from
    /\ sup' = [sup EXCEPT ![c] = to]

\* Print one line and return; the gate is dropped with the stack frame.  A
\* client that is gone leaves nobody to read the line.
AnswerAndExit(c, from, line) ==
    /\ SupStep(c, from, "exited")
    /\ answer' = [answer EXCEPT ![c] = IF client[c] = "connecting" THEN line ELSE @]
    /\ gate' = Free
    /\ UNCHANGED <<client, want, keep, child, bound, ext>>

\* Mutant: the lock is not exclusive.
SupLockShared(c) ==
    /\ SupStep(c, "lock", "probe")
    /\ gate' = AsSup(c)
    /\ UNCHANGED <<client, want, keep, answer, child, bound, ext>>

SupLock(c) ==
    /\ SupStep(c, "lock", "probe")
    /\ gate = Free
    /\ gate' = AsSup(c)
    /\ UNCHANGED <<client, want, keep, answer, child, bound, ext>>

\* Without a word: the owner is gone, or the lock could not be had.
SupLockGivesUp(c) ==
    /\ SupStep(c, "lock", "exited")
    /\ ~PipeOpen(c) \/ LockDeadline
    /\ UNCHANGED <<client, want, keep, answer, gate, child, bound, ext>>

\* A successful /health answer; /props is asked next.
SupProbeHealthy(c) ==
    /\ SupStep(c, "probe", "validate")
    /\ PortHealthy
    /\ UNCHANGED <<client, want, keep, answer, gate, child, bound, ext>>

\* Mutant: any failed probe, not only a refused connection, leads to a launch.
SupProbeAnyError(c) ==
    /\ SupStep(c, "probe", "launch")
    /\ child' = [child EXCEPT ![c] = "starting"]
    /\ UNCHANGED <<client, want, keep, answer, gate, bound, ext>>

\* Connection refused: launch a server of our own.
SupProbeRefused(c) ==
    /\ SupStep(c, "probe", "launch")
    /\ bound = Nobody
    /\ child' = [child EXCEPT ![c] = "starting"]
    /\ UNCHANGED <<client, want, keep, answer, gate, bound, ext>>

\* The owner is gone, the server on the port is loading, unhealthy or silent,
\* or the launch could not spawn a process.
SupProbeFails(c) == AnswerAndExit(c, "probe", "error")

\* Mutant: whatever is healthy will do.
SupValidateAny(c) ==
    /\ SupStep(c, "validate", "attach")
    /\ PortHealthy
    /\ UNCHANGED <<client, want, keep, answer, gate, child, bound, ext>>

SupValidateOk(c) ==
    /\ SupStep(c, "validate", "attach")
    /\ SameModel(c)
    /\ UNCHANGED <<client, want, keep, answer, gate, child, bound, ext>>

\* Another model, or no usable answer to /props.
SupValidateFails(c) == AnswerAndExit(c, "validate", "error")

SupAttach(c) == AnswerAndExit(c, "attach", "attached")

\* wait_until_healthy only looks at the port, not at who answers there.
SupHealthy(c) ==
    /\ SupStep(c, "launch", "verify")
    /\ PortHealthy
    /\ UNCHANGED <<client, want, keep, answer, gate, child, bound, ext>>

SupVerifyOk(c) ==
    /\ SupStep(c, "verify", "report")
    /\ SameModel(c)
    /\ UNCHANGED <<client, want, keep, answer, gate, child, bound, ext>>

\* The child exited, the owner left, the startup deadline passed, or the server
\* that answers cannot be validated: kill the child, wait for it, then report.
SupAbort(c) ==
    /\ \E from \in {"launch", "verify"} : SupStep(c, from, "abort")
    /\ KillChild(c)
    /\ UNCHANGED <<client, want, keep, answer, gate, bound, ext>>

SupAborted(c) ==
    /\ child[c] = "dead"
    /\ AnswerAndExit(c, "abort", "error")

\* "owned": true reaches the client and the gate is dropped.
SupReportOwned(c) ==
    /\ client[c] = "connecting"
    /\ SupStep(c, "report", "serving")
    /\ answer' = [answer EXCEPT ![c] = "owned"]
    /\ gate' = Free
    /\ UNCHANGED <<client, want, keep, child, bound, ext>>

\* Nobody reads the answer: println! panics on the broken pipe and unwinding
\* drops the child (kill_on_drop) and the gate without waiting for the exit.
SupReportBroken(c) ==
    /\ client[c] # "connecting"
    /\ SupStep(c, "report", "exited")
    /\ KillChild(c)
    /\ gate' = Free
    /\ UNCHANGED <<client, want, keep, answer, bound, ext>>

\* Mutants: --keep-model-server is ignored; only the end of the owner's process
\* counts, not a client that gave up waiting.
SupOwnerClosedAlways(c) ==
    /\ SupStep(c, "serving", "stoplock")
    /\ ~PipeOpen(c)
    /\ UNCHANGED <<client, want, keep, answer, gate, child, bound, ext>>

SupOwnerExited(c) ==
    /\ SupStep(c, "serving", "stoplock")
    /\ ~keep[c] /\ client[c] = "gone"
    /\ UNCHANGED <<client, want, keep, answer, gate, child, bound, ext>>

\* The owner pipe closed under a server that is not kept alive.
SupOwnerClosed(c) ==
    /\ SupStep(c, "serving", "stoplock")
    /\ ~keep[c] /\ ~PipeOpen(c)
    /\ UNCHANGED <<client, want, keep, answer, gate, child, bound, ext>>

SupServerExited(c) ==
    /\ SupStep(c, "serving", "exited")
    /\ child[c] = "dead"
    /\ UNCHANGED <<client, want, keep, answer, gate, child, bound, ext>>

\* Mutant: shutdown does not wait for the gate.
SupStopUngated(c) ==
    /\ SupStep(c, "stoplock", "stopping")
    /\ KillChild(c)
    /\ UNCHANGED <<client, want, keep, answer, gate, bound, ext>>

\* Shutdown takes the gate so that no attachment is being decided meanwhile.
SupStop(c) ==
    /\ SupStep(c, "stoplock", "stopping")
    /\ gate = Free
    /\ gate' = AsSup(c)
    /\ KillChild(c)
    /\ UNCHANGED <<client, want, keep, answer, bound, ext>>

\* Mutant: the child is spawned without kill_on_drop.
SupStopLeavesChild(c) ==
    /\ SupStep(c, "stoplock", "exited")
    /\ LockDeadline
    /\ UNCHANGED <<client, want, keep, answer, gate, child, bound, ext>>

\* lock_file(..).await? fails: returning drops the child, which kills it.
SupStopLockTimeout(c) ==
    /\ SupStep(c, "stoplock", "exited")
    /\ LockDeadline
    /\ KillChild(c)
    /\ UNCHANGED <<client, want, keep, answer, gate, bound, ext>>

SupStopped(c) ==
    /\ SupStep(c, "stopping", "exited")
    /\ child[c] = "dead"
    /\ gate' = Free
    /\ UNCHANGED <<client, want, keep, answer, child, bound, ext>>

-----------------------------------------------------------------------------
(* The llama-server processes (external code) and the operating system.        *)

\* The server binds its port before it loads the model, or fails to bind.
ServerBind(c) ==
    /\ child[c] = "starting"
    /\ \/ /\ bound = Nobody
          /\ bound' = c
          /\ child' = [child EXCEPT ![c] = "loading"]
       \/ /\ bound # Nobody
          /\ child' = [child EXCEPT ![c] = "dead"]
          /\ UNCHANGED bound
    /\ UNCHANGED <<client, want, keep, sup, answer, gate, ext>>

ServerReady(c) ==
    /\ child[c] = "loading"
    /\ child' = [child EXCEPT ![c] = "healthy"]
    /\ UNCHANGED <<client, want, keep, sup, answer, gate, bound, ext>>

\* The process ends, on its own or because it was killed; the port is free.
ServerExit(c, from) ==
    /\ child[c] \in from
    /\ child' = [child EXCEPT ![c] = "dead"]
    /\ bound' = IF bound = c THEN Nobody ELSE bound
    /\ UNCHANGED <<client, want, keep, sup, answer, gate, ext>>

ServerCrash(c) == ServerExit(c, Running)
ServerKilled(c) == ServerExit(c, {"killed"})

\* Somebody starts, and may stop, a server that Millie knows nothing of.
ExternalStart ==
    /\ ext.state = "absent"
    /\ bound = Nobody
    /\ \E m \in ExternalModels : ext' = [state |-> "loading", model |-> m]
    /\ bound' = External
    /\ UNCHANGED <<client, want, keep, sup, answer, gate, child>>

ExternalReady ==
    /\ ext.state = "loading"
    /\ ext' = [ext EXCEPT !.state = "healthy"]
    /\ UNCHANGED <<client, want, keep, sup, answer, gate, child, bound>>

ExternalStop ==
    /\ ext.state # "absent"
    /\ ext' = [ext EXCEPT !.state = "absent"]
    /\ bound' = Nobody
    /\ UNCHANGED <<client, want, keep, sup, answer, gate, child>>

-----------------------------------------------------------------------------
\* The steps a client takes by itself once its session was started.
ClientNext(c) ==
    \/ PreflightLock(c) \/ PreflightLockTimeout(c)
    \/ PreflightOk(c) \/ PreflightRefused(c)
    \/ Connect(c) \/ FilesFailed(c)
    \/ ReadAnswer(c) \/ ConnectTimeout(c)

SupNext(c) ==
    \/ SupLock(c) \/ SupLockGivesUp(c)
    \/ SupProbeHealthy(c) \/ SupProbeRefused(c) \/ SupProbeFails(c)
    \/ SupValidateOk(c) \/ SupValidateFails(c) \/ SupAttach(c)
    \/ SupHealthy(c) \/ SupVerifyOk(c) \/ SupAbort(c) \/ SupAborted(c)
    \/ SupReportOwned(c) \/ SupReportBroken(c)
    \/ SupOwnerClosed(c) \/ SupServerExited(c)
    \/ SupStop(c) \/ SupStopLockTimeout(c) \/ SupStopped(c)

ServerNext(c) ==
    ServerBind(c) \/ ServerReady(c) \/ ServerCrash(c) \/ ServerKilled(c)

Next ==
    \/ \E c \in Clients : \/ StartSession(c) \/ CloseSession(c)
                          \/ ClientNext(c) \/ SupNext(c) \/ ServerNext(c)
    \/ ExternalStart \/ ExternalReady \/ ExternalStop

Spec == Init /\ [][Next]_vars

\* A process that can go on does: every wait in the code has a deadline, and
\* the OS delivers SIGKILL.  Nothing makes a user open or close a session, or
\* a server load, crash or stop.
Fairness == \A c \in Clients :
    WF_vars(ClientNext(c)) /\ WF_vars(SupNext(c)) /\ WF_vars(ServerKilled(c))

FairSpec == Spec /\ Fairness

-----------------------------------------------------------------------------
(* Properties.                                                                 *)

\* Simultaneous launches coordinate: however startups, shutdowns, timeouts and
\* crashes of several sessions interleave, at most one managed llama-server is
\* running that its supervisor has not told to stop.
OneManagedServer ==
    \A c, d \in Clients :
        child[c] \in Running /\ child[d] \in Running => c = d

\* A launch that failed, timed out or lost its owner leaves no server behind:
\* a supervisor that has ended has no llama-server that still runs.
NoOrphanServer ==
    \A c \in Clients : sup[c] \in {"none", "exited"} => child[c] \notin Running

\* A server is never stopped under an owner whose session is open, nor, once
\* its launch was reported, when it was asked to be kept alive.
OwnedServerIsKept ==
    \A c \in Clients :
        client[c] = "owner" \/ (answer[c] = "owned" /\ keep[c])
            => child[c] # "killed"

\* The gate serialises attachment with shutdown: while a supervisor decides
\* that its client may attach, the server that it found is not being stopped.
NoAttachDuringShutdown ==
    \A c \in Clients :
        sup[c] \in {"validate", "attach"} /\ bound \in Clients
            => child[bound] # "killed"

\* What is reported is what is running: between the check of /props and the
\* report no Millie process puts another model on the port.
ReportedModelMatches ==
    \A c \in Clients :
        sup[c] \in {"attach", "report"} /\ bound \in Clients
            => want[bound] = want[c]

\* Every session that begins to start up gets an answer.
StartupEnds ==
    \A c \in Clients :
        client[c] \in {"preflight", "probing", "files", "connecting"}
            ~> client[c] \in {"owner", "attached", "failed", "gone"}

\* When the owner's process is gone, by exit or crash, its server and its
\* supervisor go too, unless the server was asked to be kept alive.
ServerFollowsOwner ==
    \A c \in Clients :
        sup[c] # "none" /\ ~PipeOpen(c) /\ ~keep[c]
            ~> sup[c] = "exited" /\ child[c] \in {"none", "dead"}
-----------------------------------------------------------------------------
(* The inductive invariant behind the safety properties.                       *)

\* The lock file has the holder that each process believes it has.
GateInv ==
    \A c \in Clients :
        /\ sup[c] \in GateStates <=> gate = AsSup(c)
        /\ client[c] = "probing" <=> gate = AsClient(c)

\* How far a client, its supervisor and the answer between them can be apart.
ProtocolInv ==
    \A c \in Clients :
        /\ client[c] \in {"new", "preflight", "probing", "files"} => sup[c] = "none"
        /\ client[c] = "owner" => answer[c] = "owned"
        /\ sup[c] \notin {"serving", "stoplock", "stopping", "exited"} => answer[c] = "none"
        /\ sup[c] \in {"stoplock", "stopping"} => ~keep[c] /\ ~PipeOpen(c)

\* Which supervisor states a llama-server process can be found in, and who has
\* the port.
ChildInv ==
    /\ bound = External <=> ext.state # "absent"
    /\ \A c \in Clients :
        /\ child[c] \in Running =>
               sup[c] \in {"launch", "verify", "report", "serving", "stoplock"}
        /\ child[c] = "killed" => sup[c] \in {"abort", "stopping", "exited"}
        /\ sup[c] \in {"none", "lock", "probe", "validate", "attach"} =>
               child[c] = "none"
        /\ sup[c] \in {"launch", "verify", "report", "abort", "serving",
                      "stoplock", "stopping"} => child[c] # "none"
        /\ child[c] \in {"loading", "healthy"} => bound = c
        /\ answer[c] = "owned" /\ (PipeOpen(c) \/ keep[c]) => child[c] # "killed"

\* Without independently launched servers: a child that has not bound its port
\* yet is being waited for, and nothing else can have bound the port; a child
\* that dies unattended still has the port.
StartingInv ==
    /\ ext.state = "absent"
    /\ bound # External
    /\ \A c \in Clients :
        /\ child[c] = "starting" => sup[c] = "launch" /\ bound = Nobody
        /\ child[c] = "killed" => sup[c] \in {"abort", "stopping"} \/ bound = c
        /\ sup[c] \in {"launch", "verify", "report"} =>
               \A d \in Clients : child[d] \in Running => d = c

IInv == TypeOK /\ GateInv /\ ProtocolInv /\ ChildInv
ManagedInv == IInv /\ StartingInv /\ ReportedModelMatches

-----------------------------------------------------------------------------
(* The abstract specification that the managed servers implement.              *)

\* The session whose llama-server runs, and the sessions that launched one.
Serving == IF \E c \in Clients : child[c] \in Running
           THEN CHOOSE c \in Clients : child[c] \in Running
           ELSE Nobody
Launched == {c \in Clients : child[c] # "none"}

Abstract == INSTANCE SharedServer
            WITH serving <- Serving, launched <- Launched, told <- answer

\* The lock, the probe of the port, the pipes and the supervisors together
\* implement a server that is launched once at a time and belongs to the session
\* that launched it: no launch replaces a server that is up, none follows an
\* answer, and the answers agree with who launched.
ImplementsSharedServer == Abstract!Spec
=============================================================================
