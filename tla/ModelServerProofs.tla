-------------------------- MODULE ModelServerProofs --------------------------
(* Proofs about ModelServer, for any number of clients and models.             *)
(*                                                                             *)
(* IInv is inductive whatever independently launched servers do.  ManagedInv   *)
(* adds what holds when there are none; it carries the one-server property,    *)
(* which needs it: the probe of the port protects a launch only because a      *)
(* child that has not bound its port yet is always behind the gate.            *)
EXTENDS ModelServer, TLAPS

-----------------------------------------------------------------------------
(* IInv, with independently launched servers.                                  *)

\* Every step of a client, a supervisor or a server preserves IInv.
LEMMA InductiveStep ==
  ASSUME IInv, [Next]_vars
  PROVE  IInv'
<1> SUFFICES ASSUME NEW c \in Clients,
                    \/ StartSession(c) \/ CloseSession(c)
                    \/ ClientNext(c) \/ SupNext(c) \/ ServerNext(c)
                    \/ ExternalStart \/ ExternalReady \/ ExternalStop
                    \/ UNCHANGED vars
             PROVE  IInv'
  BY ModelServerAssumption DEF Next
<1> USE ModelServerAssumption DEF IInv, TypeOK, GateInv, ProtocolInv,
        ChildInv, PipeOpen, ClientStates, SupStates, GateStates, ChildStates,
        Running, AsClient, AsSup, Free, Nobody, External, ClientStep, SupStep,
        AnswerAndExit, KillChild, ServerExit
<1>1. CASE StartSession(c)
  BY <1>1 DEF StartSession
<1>2. CASE CloseSession(c)
  BY <1>2 DEF CloseSession
<1>3. CASE PreflightLock(c)
  BY <1>3 DEF PreflightLock
<1>4. CASE PreflightLockTimeout(c)
  BY <1>4 DEF PreflightLockTimeout
<1>5. CASE PreflightOk(c)
  BY <1>5 DEF PreflightOk
<1>6. CASE PreflightRefused(c)
  BY <1>6 DEF PreflightRefused
<1>7. CASE Connect(c)
  BY <1>7 DEF Connect
<1>8. CASE FilesFailed(c)
  BY <1>8 DEF FilesFailed
<1>9. CASE ReadAnswer(c)
  BY <1>9 DEF ReadAnswer
<1>10. CASE ConnectTimeout(c)
  BY <1>10 DEF ConnectTimeout
<1>11. CASE SupLock(c)
  BY <1>11 DEF SupLock
<1>12. CASE SupLockGivesUp(c)
  BY <1>12 DEF SupLockGivesUp
<1>13. CASE SupProbeHealthy(c)
  BY <1>13 DEF SupProbeHealthy
<1>14. CASE SupProbeRefused(c)
  BY <1>14 DEF SupProbeRefused
<1>15. CASE SupProbeFails(c)
  BY <1>15 DEF SupProbeFails
<1>16. CASE SupValidateOk(c)
  BY <1>16 DEF SupValidateOk
<1>17. CASE SupValidateFails(c)
  BY <1>17 DEF SupValidateFails
<1>18. CASE SupAttach(c)
  BY <1>18 DEF SupAttach
<1>19. CASE SupHealthy(c)
  BY <1>19 DEF SupHealthy
<1>20. CASE SupVerifyOk(c)
  BY <1>20 DEF SupVerifyOk
<1>21. CASE SupAbort(c)
  BY <1>21 DEF SupAbort
<1>22. CASE SupAborted(c)
  BY <1>22 DEF SupAborted
<1>23. CASE SupReportOwned(c)
  BY <1>23 DEF SupReportOwned
<1>24. CASE SupReportBroken(c)
  BY <1>24 DEF SupReportBroken
<1>25. CASE SupOwnerClosed(c)
  BY <1>25 DEF SupOwnerClosed
<1>26. CASE SupServerExited(c)
  BY <1>26 DEF SupServerExited
<1>27. CASE SupStop(c)
  BY <1>27 DEF SupStop
<1>28. CASE SupStopLockTimeout(c)
  BY <1>28 DEF SupStopLockTimeout
<1>29. CASE SupStopped(c)
  BY <1>29 DEF SupStopped
<1>30. CASE ServerBind(c)
  BY <1>30 DEF ServerBind
<1>31. CASE ServerReady(c)
  BY <1>31 DEF ServerReady
<1>32. CASE ServerCrash(c)
  BY <1>32 DEF ServerCrash
<1>33. CASE ServerKilled(c)
  BY <1>33 DEF ServerKilled
<1>34. CASE ExternalStart
  BY <1>34 DEF ExternalStart
<1>35. CASE ExternalReady
  BY <1>35 DEF ExternalReady
<1>36. CASE ExternalStop
  BY <1>36 DEF ExternalStop
<1>37. CASE UNCHANGED vars
  BY <1>37 DEF vars
<1> QED
  BY <1>1, <1>2, <1>3, <1>4, <1>5, <1>6, <1>7, <1>8, <1>9, <1>10, <1>11,
     <1>12, <1>13, <1>14, <1>15, <1>16, <1>17, <1>18, <1>19, <1>20, <1>21,
     <1>22, <1>23, <1>24, <1>25, <1>26, <1>27, <1>28, <1>29, <1>30, <1>31,
     <1>32, <1>33, <1>34, <1>35, <1>36, <1>37
     DEF ClientNext, SupNext, ServerNext

\* IInv is an invariant of the specification.
LEMMA Inductive == Spec => []IInv
<1>1. Init => IInv
  BY ModelServerAssumption
     DEF Init, IInv, TypeOK, GateInv, ProtocolInv, ChildInv, PipeOpen,
         ClientStates, SupStates, GateStates, ChildStates, Running,
         AsClient, AsSup, Free, Nobody, External
<1>2. IInv /\ [Next]_vars => IInv'
  BY InductiveStep
<1> QED
  BY <1>1, <1>2, PTL DEF Spec

\* Type correctness: every reachable state of lifecycle.rs's processes is one
\* of the states the model names.
THEOREM ModelServerTypeCorrect == Spec => []TypeOK
<1>1. IInv => TypeOK
  BY DEF IInv
<1> QED
  BY <1>1, Inductive, PTL

\* run_supervisor never returns, on any path, with its llama-server running.
THEOREM LaunchesLeaveNoOrphan == Spec => []NoOrphanServer
<1>1. IInv => NoOrphanServer
  BY DEF IInv, ChildInv, NoOrphanServer
<1> QED
  BY <1>1, Inductive, PTL

\* run_supervisor never stops a server whose owner is open or that was asked to
\* be kept alive, whatever other clients, timeouts and external servers do.
THEOREM OwnersKeepTheirServer == Spec => []OwnedServerIsKept
<1>1. IInv => OwnedServerIsKept
  BY DEF IInv, ProtocolInv, ChildInv, OwnedServerIsKept, PipeOpen
<1> QED
  BY <1>1, Inductive, PTL

-----------------------------------------------------------------------------
(* Without independently launched servers.                                     *)

\* A child that has not bound its port keeps the port to itself, and nothing
\* replaces a validated server before the report.
LEMMA ManagedStep ==
  ASSUME ExternalModels = {}, ManagedInv, [Next]_vars
  PROVE  (StartingInv /\ ReportedModelMatches)'
<1> SUFFICES ASSUME NEW c \in Clients,
                    \/ StartSession(c) \/ CloseSession(c)
                    \/ ClientNext(c) \/ SupNext(c) \/ ServerNext(c)
                    \/ ExternalStart \/ ExternalReady \/ ExternalStop
                    \/ UNCHANGED vars
             PROVE  (StartingInv /\ ReportedModelMatches)'
  BY ModelServerAssumption DEF Next
<1> USE ModelServerAssumption DEF ManagedInv, IInv, TypeOK, GateInv,
        ProtocolInv, ChildInv, StartingInv, ReportedModelMatches, PortHealthy,
        SameModel, PortModel, ClientStates, SupStates, GateStates,
        ChildStates, Running, AsClient, AsSup, Free, Nobody, External,
        ClientStep, SupStep, AnswerAndExit, KillChild, ServerExit
<1>1. CASE StartSession(c)
  BY <1>1 DEF StartSession
<1>2. CASE CloseSession(c)
  BY <1>2 DEF CloseSession
<1>3. CASE PreflightLock(c)
  BY <1>3 DEF PreflightLock
<1>4. CASE PreflightLockTimeout(c)
  BY <1>4 DEF PreflightLockTimeout
<1>5. CASE PreflightOk(c)
  BY <1>5 DEF PreflightOk
<1>6. CASE PreflightRefused(c)
  BY <1>6 DEF PreflightRefused
<1>7. CASE Connect(c)
  BY <1>7 DEF Connect
<1>8. CASE FilesFailed(c)
  BY <1>8 DEF FilesFailed
<1>9. CASE ReadAnswer(c)
  BY <1>9 DEF ReadAnswer
<1>10. CASE ConnectTimeout(c)
  BY <1>10 DEF ConnectTimeout
<1>11. CASE SupLock(c)
  BY <1>11 DEF SupLock
<1>12. CASE SupLockGivesUp(c)
  BY <1>12 DEF SupLockGivesUp
<1>13. CASE SupProbeHealthy(c)
  BY <1>13 DEF SupProbeHealthy
<1>14. CASE SupProbeRefused(c)
  BY <1>14 DEF SupProbeRefused
<1>15. CASE SupProbeFails(c)
  BY <1>15 DEF SupProbeFails
<1>16. CASE SupValidateOk(c)
  BY <1>16 DEF SupValidateOk
<1>17. CASE SupValidateFails(c)
  BY <1>17 DEF SupValidateFails
<1>18. CASE SupAttach(c)
  BY <1>18 DEF SupAttach
<1>19. CASE SupHealthy(c)
  BY <1>19 DEF SupHealthy
<1>20. CASE SupVerifyOk(c)
  BY <1>20 DEF SupVerifyOk
<1>21. CASE SupAbort(c)
  BY <1>21 DEF SupAbort
<1>22. CASE SupAborted(c)
  BY <1>22 DEF SupAborted
<1>23. CASE SupReportOwned(c)
  BY <1>23 DEF SupReportOwned
<1>24. CASE SupReportBroken(c)
  BY <1>24 DEF SupReportBroken
<1>25. CASE SupOwnerClosed(c)
  BY <1>25 DEF SupOwnerClosed
<1>26. CASE SupServerExited(c)
  BY <1>26 DEF SupServerExited
<1>27. CASE SupStop(c)
  BY <1>27 DEF SupStop
<1>28. CASE SupStopLockTimeout(c)
  BY <1>28 DEF SupStopLockTimeout
<1>29. CASE SupStopped(c)
  BY <1>29 DEF SupStopped
<1>30. CASE ServerBind(c)
  BY <1>30 DEF ServerBind
<1>31. CASE ServerReady(c)
  BY <1>31 DEF ServerReady
<1>32. CASE ServerCrash(c)
  BY <1>32 DEF ServerCrash
<1>33. CASE ServerKilled(c)
  BY <1>33 DEF ServerKilled
<1>34. CASE ExternalStart
  BY <1>34 DEF ExternalStart
<1>35. CASE ExternalReady
  BY <1>35 DEF ExternalReady
<1>36. CASE ExternalStop
  BY <1>36 DEF ExternalStop
<1>37. CASE UNCHANGED vars
  BY <1>37 DEF vars
<1> QED
  BY <1>1, <1>2, <1>3, <1>4, <1>5, <1>6, <1>7, <1>8, <1>9, <1>10, <1>11,
     <1>12, <1>13, <1>14, <1>15, <1>16, <1>17, <1>18, <1>19, <1>20, <1>21,
     <1>22, <1>23, <1>24, <1>25, <1>26, <1>27, <1>28, <1>29, <1>30, <1>31,
     <1>32, <1>33, <1>34, <1>35, <1>36, <1>37
     DEF ClientNext, SupNext, ServerNext

\* Without external servers the stronger invariant holds of every behaviour.
LEMMA ManagedInductive ==
  ASSUME ExternalModels = {}
  PROVE  Spec => []ManagedInv
<1>1. Init => ManagedInv
  BY ModelServerAssumption
     DEF Init, ManagedInv, IInv, TypeOK, GateInv, ProtocolInv, ChildInv, PipeOpen,
         StartingInv, ReportedModelMatches,
         ClientStates, SupStates, GateStates, ChildStates, Running,
         AsClient, AsSup, Free, Nobody, External
<1>2. ManagedInv /\ [Next]_vars => ManagedInv'
  BY InductiveStep, ManagedStep DEF ManagedInv
<1> QED
  BY <1>1, <1>2, PTL DEF Spec

\* The gate and the probe together: of all the servers that simultaneous
\* launches may have started, at most one is running.
THEOREM SingleManagedServer ==
  ASSUME ExternalModels = {}
  PROVE  Spec => []OneManagedServer
<1>1. ManagedInv => OneManagedServer
  BY ModelServerAssumption
     DEF ManagedInv, IInv, TypeOK, GateInv, ChildInv, StartingInv,
         OneManagedServer, Running, GateStates, AsSup
<1> QED
  BY <1>1, ManagedInductive, PTL

\* No Millie process puts another model on the port between validate_model and
\* the line the supervisor prints.
THEOREM ReportsAreAccurate ==
  ASSUME ExternalModels = {}
  PROVE  Spec => []ReportedModelMatches
<1>1. ManagedInv => ReportedModelMatches
  BY DEF ManagedInv
<1> QED
  BY <1>1, ManagedInductive, PTL

\* With a lock deadline longer than a probe, shutdown waits for attachment.
LEMMA AttachStep ==
  ASSUME ~ImpatientLock, IInv, NoAttachDuringShutdown, [Next]_vars
  PROVE  NoAttachDuringShutdown'
<1> SUFFICES ASSUME NEW c \in Clients,
                    \/ StartSession(c) \/ CloseSession(c)
                    \/ ClientNext(c) \/ SupNext(c) \/ ServerNext(c)
                    \/ ExternalStart \/ ExternalReady \/ ExternalStop
                    \/ UNCHANGED vars
             PROVE  NoAttachDuringShutdown'
  BY ModelServerAssumption DEF Next
<1> USE ModelServerAssumption DEF IInv, TypeOK, GateInv, ChildInv,
        NoAttachDuringShutdown, PortHealthy, LockDeadline, LongHold,
        ClientStates, SupStates, GateStates, ChildStates, Running, AsClient,
        AsSup, Free, ClientStep, SupStep, AnswerAndExit, KillChild, ServerExit
<1>1. CASE StartSession(c)
  BY <1>1 DEF StartSession
<1>2. CASE CloseSession(c)
  BY <1>2 DEF CloseSession
<1>3. CASE PreflightLock(c)
  BY <1>3 DEF PreflightLock
<1>4. CASE PreflightLockTimeout(c)
  BY <1>4 DEF PreflightLockTimeout
<1>5. CASE PreflightOk(c)
  BY <1>5 DEF PreflightOk
<1>6. CASE PreflightRefused(c)
  BY <1>6 DEF PreflightRefused
<1>7. CASE Connect(c)
  BY <1>7 DEF Connect
<1>8. CASE FilesFailed(c)
  BY <1>8 DEF FilesFailed
<1>9. CASE ReadAnswer(c)
  BY <1>9 DEF ReadAnswer
<1>10. CASE ConnectTimeout(c)
  BY <1>10 DEF ConnectTimeout
<1>11. CASE SupLock(c)
  BY <1>11 DEF SupLock
<1>12. CASE SupLockGivesUp(c)
  BY <1>12 DEF SupLockGivesUp
<1>13. CASE SupProbeHealthy(c)
  BY <1>13 DEF SupProbeHealthy
<1>14. CASE SupProbeRefused(c)
  BY <1>14 DEF SupProbeRefused
<1>15. CASE SupProbeFails(c)
  BY <1>15 DEF SupProbeFails
<1>16. CASE SupValidateOk(c)
  BY <1>16 DEF SupValidateOk
<1>17. CASE SupValidateFails(c)
  BY <1>17 DEF SupValidateFails
<1>18. CASE SupAttach(c)
  BY <1>18 DEF SupAttach
<1>19. CASE SupHealthy(c)
  BY <1>19 DEF SupHealthy
<1>20. CASE SupVerifyOk(c)
  BY <1>20 DEF SupVerifyOk
<1>21. CASE SupAbort(c)
  BY <1>21 DEF SupAbort
<1>22. CASE SupAborted(c)
  BY <1>22 DEF SupAborted
<1>23. CASE SupReportOwned(c)
  BY <1>23 DEF SupReportOwned
<1>24. CASE SupReportBroken(c)
  BY <1>24 DEF SupReportBroken
<1>25. CASE SupOwnerClosed(c)
  BY <1>25 DEF SupOwnerClosed
<1>26. CASE SupServerExited(c)
  BY <1>26 DEF SupServerExited
<1>27. CASE SupStop(c)
  BY <1>27 DEF SupStop
<1>28. CASE SupStopLockTimeout(c)
  BY <1>28 DEF SupStopLockTimeout
<1>29. CASE SupStopped(c)
  BY <1>29 DEF SupStopped
<1>30. CASE ServerBind(c)
  BY <1>30 DEF ServerBind
<1>31. CASE ServerReady(c)
  BY <1>31 DEF ServerReady
<1>32. CASE ServerCrash(c)
  BY <1>32 DEF ServerCrash
<1>33. CASE ServerKilled(c)
  BY <1>33 DEF ServerKilled
<1>34. CASE ExternalStart
  BY <1>34 DEF ExternalStart
<1>35. CASE ExternalReady
  BY <1>35 DEF ExternalReady
<1>36. CASE ExternalStop
  BY <1>36 DEF ExternalStop
<1>37. CASE UNCHANGED vars
  BY <1>37 DEF vars
<1> QED
  BY <1>1, <1>2, <1>3, <1>4, <1>5, <1>6, <1>7, <1>8, <1>9, <1>10, <1>11,
     <1>12, <1>13, <1>14, <1>15, <1>16, <1>17, <1>18, <1>19, <1>20, <1>21,
     <1>22, <1>23, <1>24, <1>25, <1>26, <1>27, <1>28, <1>29, <1>30, <1>31,
     <1>32, <1>33, <1>34, <1>35, <1>36, <1>37
     DEF ClientNext, SupNext, ServerNext

\* Attachment and shutdown exclude each other as long as the lock deadline is
\* longer than the probes that attachment makes.
THEOREM AttachExcludesShutdown ==
  ASSUME ~ImpatientLock
  PROVE  Spec => []NoAttachDuringShutdown
<1>1. Init => NoAttachDuringShutdown
  BY ModelServerAssumption DEF Init, NoAttachDuringShutdown
<1>2. IInv /\ NoAttachDuringShutdown /\ [Next]_vars => NoAttachDuringShutdown'
  BY AttachStep
<1> QED
  BY <1>1, <1>2, Inductive, PTL DEF Spec

-----------------------------------------------------------------------------
(* The managed servers implement SharedServer.                                 *)

\* At most one managed server runs.
LEMMA AtMostOne == ManagedInv => OneManagedServer
BY ModelServerAssumption
   DEF ManagedInv, IInv, TypeOK, GateInv, ChildInv, StartingInv,
       OneManagedServer, Running, GateStates, AsSup

\* What the refinement mapping says, given that at most one server runs.
LEMMA ServingFacts ==
  ASSUME OneManagedServer
  PROVE  /\ \A c \in Clients : child[c] \in Running <=> Serving = c
         /\ Serving = Nobody <=> \A c \in Clients : child[c] \notin Running
         /\ Serving \in Clients \cup {Nobody}
<1>1. Nobody \notin Clients
  BY ModelServerAssumption
<1>2. CASE \E c \in Clients : child[c] \in Running
  <2>1. Serving \in Clients /\ child[Serving] \in Running
    BY <1>2 DEF Serving
  <2> QED
    BY <1>1, <2>1 DEF OneManagedServer
<1>3. CASE ~ \E c \in Clients : child[c] \in Running
  BY <1>1, <1>3 DEF Serving
<1> QED
  BY <1>2, <1>3

\* The same after a step.
LEMMA ServingFactsNext ==
  ASSUME OneManagedServer'
  PROVE  /\ \A c \in Clients : child'[c] \in Running <=> Serving' = c
         /\ Serving' = Nobody <=> \A c \in Clients : child'[c] \notin Running
         /\ Serving' \in Clients \cup {Nobody}
<1>1. Nobody \notin Clients
  BY ModelServerAssumption
<1>2. CASE \E c \in Clients : child'[c] \in Running
  <2>1. Serving' \in Clients /\ child'[Serving'] \in Running
    BY <1>2 DEF Serving
  <2> QED
    BY <1>1, <2>1 DEF OneManagedServer
<1>3. CASE ~ \E c \in Clients : child'[c] \in Running
  BY <1>1, <1>3 DEF Serving
<1> QED
  BY <1>2, <1>3

\* A launched server that goes on, is killed or exits: a Stop or a stutter.
LEMMA ChildMoves ==
  ASSUME OneManagedServer, OneManagedServer', TypeOK, NEW c \in Clients,
         NEW v \in ChildStates \ {"none"}, child' = [child EXCEPT ![c] = v],
         child[c] # "none", v \in Running => child[c] \in Running,
         UNCHANGED answer
  PROVE  Abstract!Stop \/ UNCHANGED <<Serving, Launched, answer>>
<1>1. Launched' = Launched
  BY DEF Launched, TypeOK
<1>2. \A d \in Clients : child'[d] = IF d = c THEN v ELSE child[d]
  BY DEF TypeOK
<1>3. CASE child[c] \in Running /\ v \notin Running
  <2>1. Serving = c
    BY <1>3, ServingFacts
  <2>2. \A d \in Clients : child'[d] \notin Running
    BY <1>2, <1>3 DEF OneManagedServer
  <2>3. Serving' = Nobody
    BY <2>2, ServingFactsNext
  <2>4. Serving # Nobody
    BY <2>1, ModelServerAssumption
  <2> QED
    BY <1>1, <2>3, <2>4 DEF Abstract!Stop
<1>4. CASE ~(child[c] \in Running /\ v \notin Running)
  <2>1. \A d \in Clients : child'[d] \in Running <=> child[d] \in Running
    BY <1>2, <1>4
  <2>2. Serving' = Serving
    BY <2>1, ServingFacts, ServingFactsNext
  <2> QED
    BY <1>1, <2>2
<1> QED
  BY <1>3, <1>4

\* Steps that touch neither a server nor an answer.
LEMMA QuietSteps ==
  ASSUME NEW c \in Clients,
         \/ StartSession(c) \/ CloseSession(c) \/ PreflightLock(c)
         \/ PreflightLockTimeout(c) \/ PreflightOk(c) \/ PreflightRefused(c)
         \/ Connect(c) \/ FilesFailed(c) \/ ReadAnswer(c)
         \/ ConnectTimeout(c) \/ SupLock(c) \/ SupLockGivesUp(c)
         \/ SupProbeHealthy(c) \/ SupValidateOk(c) \/ SupHealthy(c)
         \/ SupVerifyOk(c) \/ SupOwnerClosed(c) \/ SupServerExited(c)
         \/ SupStopped(c)
  PROVE  UNCHANGED <<child, answer>>
BY DEF StartSession, CloseSession, PreflightLock, PreflightLockTimeout,
           PreflightOk, PreflightRefused, Connect, FilesFailed,
           ReadAnswer, ConnectTimeout, SupLock, SupLockGivesUp,
           SupProbeHealthy, SupValidateOk, SupHealthy,
           SupVerifyOk, SupOwnerClosed, SupServerExited,
           SupStopped, ClientStep, SupStep

\* A supervisor's line reaches its client as an abstract answer, or nobody.
LEMMA AnswerSteps ==
  ASSUME ManagedInv, NEW c \in Clients,
         SupProbeFails(c) \/ SupValidateFails(c) \/ SupAborted(c) \/ SupAttach(c)
  PROVE  \/ Abstract!TellError(c) \/ Abstract!TellAttached(c)
         \/ UNCHANGED <<Serving, Launched, answer>>
<1>1. UNCHANGED child
  BY DEF SupProbeFails, SupValidateFails, SupAborted, SupAttach, AnswerAndExit
<1>2. UNCHANGED <<Serving, Launched>>
  BY <1>1 DEF Serving, Launched
<1>3. answer[c] = "none" /\ child[c] \in {"none", "dead"}
  BY DEF SupProbeFails, SupValidateFails, SupAborted, SupAttach, AnswerAndExit,
         SupStep, ManagedInv, IInv, ProtocolInv, ChildInv
<1>4. Serving # c
  BY <1>3, AtMostOne, ServingFacts DEF Running
<1>5. CASE client[c] # "connecting"
  <2>1. answer' = [answer EXCEPT ![c] = answer[c]]
    BY <1>5 DEF SupProbeFails, SupValidateFails, SupAborted, SupAttach,
                AnswerAndExit
  <2>2. answer' = answer
    BY <2>1 DEF ManagedInv, IInv, TypeOK
  <2> QED
    BY <1>2, <2>2
<1>6. CASE client[c] = "connecting" /\ SupAttach(c)
  <2>1. c \notin Launched
    BY <1>6 DEF SupAttach, AnswerAndExit, SupStep, ManagedInv, IInv, ChildInv,
                Launched
  <2>2. answer' = [answer EXCEPT ![c] = "attached"]
    BY <1>6 DEF SupAttach, AnswerAndExit
  <2> QED
    BY <1>2, <1>3, <2>1, <2>2 DEF Abstract!TellAttached, Abstract!Tell
<1>7. CASE client[c] = "connecting" /\ ~SupAttach(c)
  <2>1. answer' = [answer EXCEPT ![c] = "error"]
    BY <1>7 DEF SupProbeFails, SupValidateFails, SupAborted, AnswerAndExit
  <2> QED
    BY <1>2, <1>3, <1>4, <2>1 DEF Abstract!TellError, Abstract!Tell
<1> QED
  BY <1>5, <1>6, <1>7

\* Every step of the processes is a step of SharedServer or a stutter.
LEMMA RefinementStep ==
  ASSUME ExternalModels = {}, ManagedInv, ManagedInv', [Next]_vars
  PROVE  [Abstract!Next]_<<Serving, Launched, answer>>
<1> SUFFICES ASSUME NEW c \in Clients,
                    \/ StartSession(c) \/ CloseSession(c)
                    \/ ClientNext(c) \/ SupNext(c) \/ ServerNext(c)
                    \/ ExternalStart \/ ExternalReady \/ ExternalStop
                    \/ UNCHANGED vars
             PROVE  [Abstract!Next]_<<Serving, Launched, answer>>
  BY ModelServerAssumption DEF Next
<1> OneManagedServer /\ TypeOK
  BY AtMostOne DEF ManagedInv, IInv
<1> OneManagedServer'
  BY ModelServerAssumption
     DEF ManagedInv, IInv, TypeOK, GateInv, ChildInv, StartingInv,
         OneManagedServer, Running, GateStates, AsSup
<1>1. ASSUME UNCHANGED <<child, answer>>
      PROVE  [Abstract!Next]_<<Serving, Launched, answer>>
  BY <1>1 DEF Serving, Launched
<1>2. ASSUME NEW v \in ChildStates \ {"none"}, child' = [child EXCEPT ![c] = v],
             child[c] # "none", v \in Running => child[c] \in Running,
             UNCHANGED answer
      PROVE  [Abstract!Next]_<<Serving, Launched, answer>>
  BY <1>2, ChildMoves DEF Abstract!Next
<1>3. CASE SupProbeRefused(c)
  <2>1. /\ sup[c] = "probe" /\ bound = Nobody /\ UNCHANGED answer
        /\ child' = [child EXCEPT ![c] = "starting"]
    BY <1>3 DEF SupProbeRefused, SupStep
  <2>2. answer[c] = "none" /\ child[c] = "none"
    BY <2>1 DEF ManagedInv, IInv, ProtocolInv, ChildInv
  <2>3. gate = AsSup(c)
    BY <2>1 DEF ManagedInv, IInv, GateInv, GateStates
  <2>4. \A d \in Clients : child[d] \notin Running
    BY <2>1, <2>3, ModelServerAssumption
       DEF ManagedInv, IInv, GateInv, GateStates, ChildInv, StartingInv, Running,
           AsSup
  <2>5. Serving = Nobody
    BY <2>4, ServingFacts
  <2>6. Serving' = c
    <3>1. child'[c] \in Running
      BY <2>1 DEF TypeOK, Running
    <3> QED
      BY <3>1, ServingFactsNext
  <2>7. Launched' = Launched \cup {c} /\ c \notin Launched
    BY <2>1, <2>2 DEF Launched, TypeOK
  <2> QED
    BY <2>1, <2>2, <2>5, <2>6, <2>7 DEF Abstract!Next, Abstract!Launch
<1>4. CASE SupProbeFails(c) \/ SupValidateFails(c) \/ SupAborted(c) \/ SupAttach(c)
  BY <1>4, AnswerSteps DEF Abstract!Next
<1>5. CASE SupReportOwned(c)
  <2>1. /\ sup[c] = "report" /\ UNCHANGED child
        /\ answer' = [answer EXCEPT ![c] = "owned"]
    BY <1>5 DEF SupReportOwned, SupStep
  <2>2. answer[c] = "none" /\ c \in Launched
    BY <2>1 DEF ManagedInv, IInv, ProtocolInv, ChildInv, Launched
  <2>3. \A d \in Clients : child[d] \in Running => d = c
    BY <2>1 DEF ManagedInv, StartingInv
  <2>4. Serving \in {c, Nobody}
    BY <2>3, ServingFacts
  <2>5. UNCHANGED <<Serving, Launched>>
    BY <2>1 DEF Serving, Launched
  <2> QED
    BY <2>1, <2>2, <2>4, <2>5 DEF Abstract!Next, Abstract!TellOwned, Abstract!Tell
<1>6. CASE SupAbort(c) \/ SupReportBroken(c) \/ SupStop(c) \/ SupStopLockTimeout(c)
  <2>1. /\ UNCHANGED answer
        /\ child' = [child EXCEPT ![c] = IF @ \in Running THEN "killed" ELSE @]
        /\ sup[c] \in {"launch", "verify", "report", "stoplock"}
    BY <1>6 DEF SupAbort, SupReportBroken, SupStop, SupStopLockTimeout, SupStep,
                KillChild
  <2>2. child[c] # "none"
    BY <2>1 DEF ManagedInv, IInv, ChildInv
  <2> DEFINE v == IF child[c] \in Running THEN "killed" ELSE child[c]
  <2>3. v \in ChildStates \ {"none"} /\ v \notin Running
    BY <2>2 DEF TypeOK, ChildStates, Running
  <2>4. child' = [child EXCEPT ![c] = v]
    BY <2>1
  <2> HIDE DEF v
  <2> QED
    BY <1>2, <2>1, <2>2, <2>3, <2>4
<1>7. CASE ServerBind(c) \/ ServerReady(c) \/ ServerCrash(c) \/ ServerKilled(c)
  <2>1. PICK v \in {"loading", "healthy", "dead"} :
           /\ child' = [child EXCEPT ![c] = v]
           /\ v # "dead" => child[c] \in {"starting", "loading"}
    BY <1>7 DEF ServerBind, ServerReady, ServerCrash, ServerKilled, ServerExit
  <2>2. UNCHANGED answer /\ child[c] # "none"
    BY <1>7 DEF ServerBind, ServerReady, ServerCrash, ServerKilled, ServerExit,
                Running
  <2>3. v \in ChildStates \ {"none"} /\ (v \in Running => child[c] \in Running)
    BY <2>1 DEF ChildStates, Running
  <2> QED
    BY <1>2, <2>1, <2>2, <2>3
<1>8. CASE ExternalStart \/ ExternalReady \/ ExternalStop
  BY <1>1, <1>8 DEF ExternalStart, ExternalReady, ExternalStop
<1>9. CASE UNCHANGED vars
  BY <1>1, <1>9 DEF vars
<1> QED
  BY <1>1, <1>3, <1>4, <1>5, <1>6, <1>7, <1>8, <1>9, QuietSteps
     DEF ClientNext, SupNext, ServerNext

\* Whatever sessions, timeouts, crashes and shutdowns do, what can be seen of the
\* managed servers and of the supervisors' answers is a behaviour of SharedServer.
THEOREM ServersRefineSharedServer ==
  ASSUME ExternalModels = {}
  PROVE  Spec => ImplementsSharedServer
<1>1. Init => Abstract!Init
  BY ModelServerAssumption
     DEF Init, Abstract!Init, Serving, Launched, Running
<1>2. ManagedInv /\ ManagedInv' /\ [Next]_vars
        => [Abstract!Next]_<<Serving, Launched, answer>>
  BY RefinementStep
<1> QED
  BY <1>1, <1>2, ManagedInductive, PTL DEF Spec, ImplementsSharedServer, Abstract!Spec
=============================================================================
