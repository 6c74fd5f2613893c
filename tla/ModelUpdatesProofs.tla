--------------------------- MODULE ModelUpdatesProofs ---------------------------
(* Proofs about ModelUpdates for any number of processes, revisions and        *)
(* digests.                                                                    *)
(*                                                                             *)
(* The holder of update.lock compares active.json with what it planned from.   *)
(* Revisions are planned at the head of a branch that only grows (PlanInv), so *)
(* a plan whose comparison succeeds is never behind the manifest, and stays so *)
(* while the lock is held (InstallInv).                                        *)
EXTENDS ModelUpdates, TLAPS

\* What a process publishes has the type of a manifest.
LEMMA PlannedType ==
  ASSUME NEW p \in Procs, TypeOK, plan[p]["model"] # 0, plan[p]["tower"] # 0
  PROVE  Planned(p) \in Manifests /\ Planned(p).rev = plan[p]["model"]
<1>1. plan[p]["model"] \in Revs /\ plan[p]["tower"] \in Revs
  BY DEF TypeOK, Files
<1>2. \A f \in Files : Sha[f][plan[p][f]] \in Digests
  BY <1>1, ModelUpdatesAssumption DEF Files
<1> QED
  BY <1>1, <1>2 DEF Planned, Manifests

\* The lock file has the holder that each process believes it has.
LEMMA LockStep ==
  ASSUME TypeOK, LockInv, [Next]_vars
  PROVE  LockInv'
<1> SUFFICES ASSUME NEW p \in Procs,
                    Begin(p) \/ Run(p) \/ Exit(p) \/ Commit \/ UNCHANGED vars
             PROVE  LockInv'
  BY ModelUpdatesAssumption DEF Next
<1> USE ModelUpdatesAssumption DEF Goto, disk, TypeOK, LockInv, Locked, States
<1>1. CASE Begin(p)
  BY <1>1 DEF Begin
<1>2. CASE Resolve(p)
  BY <1>2 DEF Resolve, Onward
<1>3. CASE LockForRecord(p)
  BY <1>3 DEF LockForRecord, LockFile
<1>4. CASE RecordLocalFiles(p)
  BY <1>4 DEF RecordLocalFiles
<1>5. CASE CheckModel(p)
  BY <1>5 DEF CheckModel
<1>6. CASE CheckTower(p)
  BY <1>6 DEF CheckTower
<1>7. CASE Decide(p)
  BY <1>7 DEF Decide
<1>8. CASE LockForInstall(p)
  BY <1>8 DEF LockForInstall, LockFile
<1>9. CASE Compare(p)
  BY <1>9 DEF Compare
<1>10. CASE CompareFails(p)
  BY <1>10 DEF CompareFails
<1>11. CASE InstallModel(p)
  BY <1>11 DEF InstallModel, InstallFile
<1>12. CASE InstallTower(p)
  BY <1>12 DEF InstallTower, InstallFile
<1>13. CASE WriteManifest(p)
  BY <1>13 DEF WriteManifest
<1>14. CASE RenameManifest(p)
  BY <1>14 DEF RenameManifest
<1>15. CASE Fails(p)
  BY <1>15 DEF Fails
<1>16. CASE Reread(p)
  BY <1>16 DEF Reread
<1>17. CASE EnsureFiles(p)
  BY <1>17 DEF EnsureFiles
<1>18. CASE Exit(p)
  BY <1>18 DEF Exit
<1>19. CASE Commit
  BY <1>19 DEF Commit
<1>20. CASE UNCHANGED vars
  BY <1>20 DEF vars
<1> QED
  BY <1>1, <1>2, <1>3, <1>4, <1>5, <1>6, <1>7, <1>8, <1>9, <1>10, <1>11,
     <1>12, <1>13, <1>14, <1>15, <1>16, <1>17, <1>18, <1>19, <1>20 DEF Run

\* No step leaves the types.
LEMMA TypeStep ==
  ASSUME TypeOK, PlanInv, SeenInv, [Next]_vars
  PROVE  TypeOK'
<1> SUFFICES ASSUME NEW p \in Procs,
                    Begin(p) \/ Run(p) \/ Exit(p) \/ Commit \/ UNCHANGED vars
             PROVE  TypeOK'
  BY ModelUpdatesAssumption DEF Next
<1> USE ModelUpdatesAssumption DEF Goto, disk, TypeOK, Locked, States, Revs
<1>1. CASE Begin(p)
  BY <1>1 DEF Begin
<1>2. CASE Resolve(p)
  <2>1. Onward(p, active) \in States
    BY DEF Onward, States
  <2>2. pc' \in [Procs -> States]
    BY <1>2, <2>1 DEF Resolve
  <2>3. seen' \in [Procs -> Manifests \cup {NoManifest}]
    BY <1>2 DEF Resolve
  <2> QED
    BY <1>2, <2>2, <2>3 DEF Resolve
<1>3. CASE LockForRecord(p)
  BY <1>3 DEF LockForRecord, LockFile
<1>4. CASE RecordLocalFiles(p)
  BY <1>4 DEF RecordLocalFiles
<1>5. CASE CheckModel(p)
  <2>1. plan' \in [Procs -> [Files -> Revs \cup {0}]]
    BY <1>5 DEF CheckModel, Files
  <2> QED
    BY <1>5, <2>1 DEF CheckModel
<1>6. CASE CheckTower(p)
  <2>1. plan' \in [Procs -> [Files -> Revs \cup {0}]]
    BY <1>6 DEF CheckTower, Files
  <2> QED
    BY <1>6, <2>1 DEF CheckTower
<1>7. CASE Decide(p)
  BY <1>7 DEF Decide
<1>8. CASE LockForInstall(p)
  BY <1>8 DEF LockForInstall, LockFile
<1>9. CASE Compare(p)
  BY <1>9 DEF Compare
<1>10. CASE CompareFails(p)
  BY <1>10 DEF CompareFails
<1>11. CASE InstallModel(p)
  <2>1. plan[p]["model"] # 0 /\ plan[p]["tower"] # 0
    BY <1>11 DEF InstallModel, InstallFile, PlanInv
  <2>2. Planned(p) \in Manifests
    BY <2>1, PlannedType
  <2>3. \A f \in Files : Planned(p).sha[f] \in Digests
    BY <2>2 DEF Manifests
  <2> QED
    BY <1>11, <2>3 DEF InstallModel, InstallFile, Files
<1>12. CASE InstallTower(p)
  <2>1. plan[p]["model"] # 0 /\ plan[p]["tower"] # 0
    BY <1>12 DEF InstallTower, InstallFile, PlanInv
  <2>2. Planned(p) \in Manifests
    BY <2>1, PlannedType
  <2>3. \A f \in Files : Planned(p).sha[f] \in Digests
    BY <2>2 DEF Manifests
  <2> QED
    BY <1>12, <2>3 DEF InstallTower, InstallFile, Files
<1>13. CASE WriteManifest(p)
  <2>1. plan[p]["model"] # 0 /\ plan[p]["tower"] # 0
    BY <1>13 DEF WriteManifest, PlanInv
  <2>2. Planned(p) \in Manifests
    BY <2>1, PlannedType
  <2> QED
    BY <1>13, <2>2 DEF WriteManifest
<1>14. CASE RenameManifest(p)
  BY <1>14 DEF RenameManifest
<1>15. CASE Fails(p)
  BY <1>15 DEF Fails
<1>16. CASE Reread(p)
  BY <1>16 DEF Reread
<1>17. CASE EnsureFiles(p)
  <2>1. seen[p] \in Manifests
    BY <1>17 DEF EnsureFiles, SeenInv, NoManifest
  <2>2. \A f \in Required(p) : seen[p].sha[f] \in Digests
    BY <2>1 DEF Manifests, Required, Files
  <2> QED
    BY <1>17, <2>2 DEF EnsureFiles
<1>18. CASE Exit(p)
  <2>1. NoPlan \in [Files -> Revs \cup {0}]
    BY DEF NoPlan
  <2> QED
    BY <1>18, <2>1 DEF Exit
<1>19. CASE Commit
  BY <1>19 DEF Commit
<1>20. CASE UNCHANGED vars
  BY <1>20 DEF vars
<1> QED
  BY <1>1, <1>2, <1>3, <1>4, <1>5, <1>6, <1>7, <1>8, <1>9, <1>10, <1>11,
     <1>12, <1>13, <1>14, <1>15, <1>16, <1>17, <1>18, <1>19, <1>20 DEF Run

\* A plan was made at the head of the branch, after the sources were resolved, and for one revision.
LEMMA PlanStep ==
  ASSUME TypeOK, LockInv, PlanInv, SeenInv, [Next]_vars
  PROVE  PlanInv'
<1> SUFFICES ASSUME NEW p \in Procs,
                    Begin(p) \/ Run(p) \/ Exit(p) \/ Commit \/ UNCHANGED vars
             PROVE  PlanInv'
  BY ModelUpdatesAssumption DEF Next
<1> USE ModelUpdatesAssumption DEF Goto, disk, TypeOK, PlanInv, Locked, States,
        Revs, Files, NoPlan
<1>1. CASE Begin(p)
  BY <1>1 DEF Begin
<1>2. CASE Resolve(p)
  BY <1>2 DEF Resolve, Onward
<1>3. CASE LockForRecord(p)
  BY <1>3 DEF LockForRecord, LockFile
<1>4. CASE RecordLocalFiles(p)
  BY <1>4 DEF RecordLocalFiles
<1>5. CASE CheckModel(p)
  <2>1. main # 0 /\ seen[p].rev <= main
    BY DEF SeenInv
  <2> QED
    BY <1>5, <2>1 DEF CheckModel
<1>6. CASE CheckTower(p)
  BY <1>6 DEF CheckTower
<1>7. CASE Decide(p)
  BY <1>7 DEF Decide
<1>8. CASE LockForInstall(p)
  BY <1>8 DEF LockForInstall, LockFile
<1>9. CASE Compare(p)
  BY <1>9 DEF Compare
<1>10. CASE CompareFails(p)
  BY <1>10 DEF CompareFails
<1>11. CASE InstallModel(p)
  BY <1>11 DEF InstallModel, InstallFile
<1>12. CASE InstallTower(p)
  BY <1>12 DEF InstallTower, InstallFile
<1>13. CASE WriteManifest(p)
  BY <1>13 DEF WriteManifest
<1>14. CASE RenameManifest(p)
  BY <1>14 DEF RenameManifest
<1>15. CASE Fails(p)
  BY <1>15 DEF Fails
<1>16. CASE Reread(p)
  BY <1>16 DEF Reread
<1>17. CASE EnsureFiles(p)
  BY <1>17 DEF EnsureFiles
<1>18. CASE Exit(p)
  BY <1>18 DEF Exit
<1>19. CASE Commit
  BY <1>19 DEF Commit
<1>20. CASE UNCHANGED vars
  BY <1>20 DEF vars
<1> QED
  BY <1>1, <1>2, <1>3, <1>4, <1>5, <1>6, <1>7, <1>8, <1>9, <1>10, <1>11,
     <1>12, <1>13, <1>14, <1>15, <1>16, <1>17, <1>18, <1>19, <1>20 DEF Run

\* The comparison made under the lock holds until the manifest is published.
LEMMA InstallStep ==
  ASSUME TypeOK, LockInv, PlanInv, InstallInv, SeenInv, [Next]_vars
  PROVE  InstallInv'
<1> SUFFICES ASSUME NEW p \in Procs,
                    Begin(p) \/ Run(p) \/ Exit(p) \/ Commit \/ UNCHANGED vars
             PROVE  InstallInv'
  BY ModelUpdatesAssumption DEF Next
<1> USE ModelUpdatesAssumption DEF Goto, disk, TypeOK, LockInv, InstallInv, Planned,
        Locked, States, Revs, Files
<1>1. CASE Begin(p)
  BY <1>1 DEF Begin
<1>2. CASE Resolve(p)
  BY <1>2 DEF Resolve, Onward
<1>3. CASE LockForRecord(p)
  BY <1>3 DEF LockForRecord, LockFile
<1>4. CASE RecordLocalFiles(p)
  BY <1>4 DEF RecordLocalFiles
<1>5. CASE CheckModel(p)
  BY <1>5 DEF CheckModel
<1>6. CASE CheckTower(p)
  BY <1>6 DEF CheckTower
<1>7. CASE Decide(p)
  BY <1>7 DEF Decide
<1>8. CASE LockForInstall(p)
  BY <1>8 DEF LockForInstall, LockFile
<1>9. CASE Compare(p)
  <2>1. plan[p]["model"] # 0 /\ seen[p].rev <= plan[p]["model"]
    BY <1>9 DEF Compare, PlanInv
  <2>2. kind[p] = "launch" => seen[p].rev = 0
    BY <1>9 DEF Compare, SeenInv
  <2>3. active.rev <= plan[p]["model"]
    BY <1>9, <2>1 DEF Compare, StillCurrent
  <2>4. kind[p] = "launch" => active.rev \in {0, plan[p]["model"]}
    BY <1>9, <2>2 DEF Compare, StillCurrent
  <2> QED
    BY <1>9, <2>3, <2>4 DEF Compare
<1>10. CASE CompareFails(p)
  BY <1>10 DEF CompareFails
<1>11. CASE InstallModel(p)
  BY <1>11 DEF InstallModel, InstallFile, Required
<1>12. CASE InstallTower(p)
  BY <1>12 DEF InstallTower, InstallFile
<1>13. CASE WriteManifest(p)
  BY <1>13 DEF WriteManifest
<1>14. CASE RenameManifest(p)
  BY <1>14 DEF RenameManifest
<1>15. CASE Fails(p)
  BY <1>15 DEF Fails
<1>16. CASE Reread(p)
  BY <1>16 DEF Reread
<1>17. CASE EnsureFiles(p)
  BY <1>17 DEF EnsureFiles
<1>18. CASE Exit(p)
  BY <1>18 DEF Exit
<1>19. CASE Commit
  BY <1>19 DEF Commit
<1>20. CASE UNCHANGED vars
  BY <1>20 DEF vars
<1> QED
  BY <1>1, <1>2, <1>3, <1>4, <1>5, <1>6, <1>7, <1>8, <1>9, <1>10, <1>11,
     <1>12, <1>13, <1>14, <1>15, <1>16, <1>17, <1>18, <1>19, <1>20 DEF Run

\* Manifests describe one revision of the branch's past, and a launch that is ready has its files.
LEMMA SeenStep ==
  ASSUME TypeOK, LockInv, PlanInv, InstallInv, SeenInv, [Next]_vars
  PROVE  SeenInv'
<1> SUFFICES ASSUME NEW p \in Procs,
                    Begin(p) \/ Run(p) \/ Exit(p) \/ Commit \/ UNCHANGED vars
             PROVE  SeenInv'
  BY ModelUpdatesAssumption DEF Next
<1> USE ModelUpdatesAssumption DEF Goto, disk, TypeOK, SeenInv, IsRevision, Locked,
        States, Revs, Files, Required, NoManifest
<1>1. CASE Begin(p)
  BY <1>1 DEF Begin
<1>2. CASE Resolve(p)
  BY <1>2 DEF Resolve, Onward
<1>3. CASE LockForRecord(p)
  BY <1>3 DEF LockForRecord, LockFile
<1>4. CASE RecordLocalFiles(p)
  BY <1>4 DEF RecordLocalFiles
<1>5. CASE CheckModel(p)
  BY <1>5 DEF CheckModel
<1>6. CASE CheckTower(p)
  BY <1>6 DEF CheckTower
<1>7. CASE Decide(p)
  BY <1>7 DEF Decide
<1>8. CASE LockForInstall(p)
  BY <1>8 DEF LockForInstall, LockFile
<1>9. CASE Compare(p)
  BY <1>9 DEF Compare
<1>10. CASE CompareFails(p)
  BY <1>10 DEF CompareFails
<1>11. CASE InstallModel(p)
  BY <1>11 DEF InstallModel, InstallFile
<1>12. CASE InstallTower(p)
  BY <1>12 DEF InstallTower, InstallFile
<1>13. CASE WriteManifest(p)
  BY <1>13 DEF WriteManifest
<1>14. CASE RenameManifest(p)
  <2>1. /\ active' = Planned(p) /\ plan[p]["model"] # 0
        /\ plan[p]["tower"] = plan[p]["model"] /\ plan[p]["model"] <= main
    BY <1>14 DEF RenameManifest, InstallInv, PlanInv
  <2>2. IsRevision(active') /\ active'.rev <= main /\ active'.rev # 0
    BY <2>1 DEF Planned
  <2> QED
    BY <1>14, <2>2 DEF RenameManifest
<1>15. CASE Fails(p)
  BY <1>15 DEF Fails
<1>16. CASE Reread(p)
  BY <1>16 DEF Reread
<1>17. CASE EnsureFiles(p)
  BY <1>17 DEF EnsureFiles
<1>18. CASE Exit(p)
  BY <1>18 DEF Exit
<1>19. CASE Commit
  <2>1. active.rev \in Nat /\ \A q \in Procs : seen[q].rev \in Nat
    BY DEF Manifests
  <2> QED
    BY <1>19, <2>1 DEF Commit
<1>20. CASE UNCHANGED vars
  BY <1>20 DEF vars
<1> QED
  BY <1>1, <1>2, <1>3, <1>4, <1>5, <1>6, <1>7, <1>8, <1>9, <1>10, <1>11,
     <1>12, <1>13, <1>14, <1>15, <1>16, <1>17, <1>18, <1>19, <1>20 DEF Run

\* A manifest is published after its weights.
LEMMA InstalledStep ==
  ASSUME TypeOK, InstallInv, ActiveIsInstalled, [Next]_vars
  PROVE  ActiveIsInstalled'
<1> SUFFICES ASSUME NEW p \in Procs,
                    Begin(p) \/ Run(p) \/ Exit(p) \/ Commit \/ UNCHANGED vars
             PROVE  ActiveIsInstalled'
  BY ModelUpdatesAssumption DEF Next
<1> USE ModelUpdatesAssumption DEF Goto, disk, TypeOK, ActiveIsInstalled, Files
<1>1. CASE Begin(p)
  BY <1>1 DEF Begin
<1>2. CASE Resolve(p)
  BY <1>2 DEF Resolve, Onward
<1>3. CASE LockForRecord(p)
  BY <1>3 DEF LockForRecord, LockFile
<1>4. CASE RecordLocalFiles(p)
  BY <1>4 DEF RecordLocalFiles
<1>5. CASE CheckModel(p)
  BY <1>5 DEF CheckModel
<1>6. CASE CheckTower(p)
  BY <1>6 DEF CheckTower
<1>7. CASE Decide(p)
  BY <1>7 DEF Decide
<1>8. CASE LockForInstall(p)
  BY <1>8 DEF LockForInstall, LockFile
<1>9. CASE Compare(p)
  BY <1>9 DEF Compare
<1>10. CASE CompareFails(p)
  BY <1>10 DEF CompareFails
<1>11. CASE InstallModel(p)
  BY <1>11 DEF InstallModel, InstallFile
<1>12. CASE InstallTower(p)
  BY <1>12 DEF InstallTower, InstallFile
<1>13. CASE WriteManifest(p)
  BY <1>13 DEF WriteManifest
<1>14. CASE RenameManifest(p)
  <2>1. temp = Planned(p) /\ Planned(p).sha["model"] \in store
    BY <1>14 DEF RenameManifest, InstallInv
  <2> QED
    BY <1>14, <2>1 DEF RenameManifest
<1>15. CASE Fails(p)
  BY <1>15 DEF Fails
<1>16. CASE Reread(p)
  BY <1>16 DEF Reread
<1>17. CASE EnsureFiles(p)
  BY <1>17 DEF EnsureFiles
<1>18. CASE Exit(p)
  BY <1>18 DEF Exit
<1>19. CASE Commit
  BY <1>19 DEF Commit
<1>20. CASE UNCHANGED vars
  BY <1>20 DEF vars
<1> QED
  BY <1>1, <1>2, <1>3, <1>4, <1>5, <1>6, <1>7, <1>8, <1>9, <1>10, <1>11,
     <1>12, <1>13, <1>14, <1>15, <1>16, <1>17, <1>18, <1>19, <1>20 DEF Run

\* The invariant holds of every reachable state.
LEMMA Inductive == Spec => []IInv
<1>1. Init => IInv
  <2> SUFFICES ASSUME Init PROVE IInv
    OBVIOUS
  <2> USE ModelUpdatesAssumption DEF Init, NoManifest, NoPlan, Locked, States, Revs, Files
  <2>1. TypeOK
    <3>1. unversioned \subseteq Files /\ main \in Revs /\ store \subseteq Digests
      OBVIOUS
    <3>2. /\ active \in Manifests \cup {NoManifest} /\ temp \in Manifests \cup {NoManifest}
          /\ recorded \in BOOLEAN /\ lock \in Procs \cup {Nobody}
      OBVIOUS
    <3>3. /\ pc \in [Procs -> States] /\ kind \in [Procs -> {"launch", "update"}]
          /\ vision \in [Procs -> BOOLEAN]
      OBVIOUS
    <3>4. /\ seen \in [Procs -> Manifests \cup {NoManifest}]
          /\ plan \in [Procs -> [Files -> Revs \cup {0}]]
      OBVIOUS
    <3> QED
      BY <3>1, <3>2, <3>3, <3>4 DEF TypeOK
  <2>2. LockInv /\ PlanInv /\ InstallInv
    BY DEF LockInv, PlanInv, InstallInv
  <2>3. SeenInv /\ ActiveIsInstalled
    BY DEF SeenInv, IsRevision, ActiveIsInstalled
  <2> QED
    BY <2>1, <2>2, <2>3 DEF IInv
<1>2. IInv /\ [Next]_vars => IInv'
  BY TypeStep, LockStep, PlanStep, InstallStep, SeenStep, InstalledStep DEF IInv
<1> QED
  BY <1>1, <1>2, PTL DEF Spec

\* A launch that is about to start the server has every file it needs, and all of
\* them are of the revision that it resolved.
THEOREM LaunchesAreConsistent == Spec => []LaunchIsConsistent
<1>1. IInv => LaunchIsConsistent
  BY DEF IInv, SeenInv, IsRevision, LaunchIsConsistent
<1> QED
  BY <1>1, Inductive, PTL

\* active.json never names weights that were not verified and stored.
THEOREM ManifestsAreInstalled == Spec => []ActiveIsInstalled
<1>1. IInv => ActiveIsInstalled
  BY DEF IInv
<1> QED
  BY <1>1, Inductive, PTL


\* Only the rename changes the manifest, to the plan of the lock's holder.
LEMMA RevisionStep ==
  ASSUME IInv, [Next]_vars
  PROVE  active' = active \/ (\E q \in Procs : pc[q] = "rename" /\ RenameManifest(q))
<1> SUFFICES ASSUME NEW p \in Procs,
                    Begin(p) \/ Run(p) \/ Exit(p) \/ Commit \/ UNCHANGED vars
             PROVE  active' = active \/ (\E q \in Procs : pc[q] = "rename" /\ RenameManifest(q))
  BY ModelUpdatesAssumption DEF Next
<1> USE ModelUpdatesAssumption DEF Goto, disk
<1>1. CASE Begin(p)
  BY <1>1 DEF Begin
<1>2. CASE Resolve(p)
  BY <1>2 DEF Resolve, Onward
<1>3. CASE LockForRecord(p)
  BY <1>3 DEF LockForRecord, LockFile
<1>4. CASE RecordLocalFiles(p)
  BY <1>4 DEF RecordLocalFiles
<1>5. CASE CheckModel(p)
  BY <1>5 DEF CheckModel
<1>6. CASE CheckTower(p)
  BY <1>6 DEF CheckTower
<1>7. CASE Decide(p)
  BY <1>7 DEF Decide
<1>8. CASE LockForInstall(p)
  BY <1>8 DEF LockForInstall, LockFile
<1>9. CASE Compare(p)
  BY <1>9 DEF Compare
<1>10. CASE CompareFails(p)
  BY <1>10 DEF CompareFails
<1>11. CASE InstallModel(p)
  BY <1>11 DEF InstallModel, InstallFile
<1>12. CASE InstallTower(p)
  BY <1>12 DEF InstallTower, InstallFile
<1>13. CASE WriteManifest(p)
  BY <1>13 DEF WriteManifest
<1>14. CASE RenameManifest(p)
  BY <1>14 DEF RenameManifest
<1>15. CASE Fails(p)
  BY <1>15 DEF Fails
<1>16. CASE Reread(p)
  BY <1>16 DEF Reread
<1>17. CASE EnsureFiles(p)
  BY <1>17 DEF EnsureFiles
<1>18. CASE Exit(p)
  BY <1>18 DEF Exit
<1>19. CASE Commit
  BY <1>19 DEF Commit
<1>20. CASE UNCHANGED vars
  BY <1>20 DEF vars
<1> QED
  BY <1>1, <1>2, <1>3, <1>4, <1>5, <1>6, <1>7, <1>8, <1>9, <1>10, <1>11,
     <1>12, <1>13, <1>14, <1>15, <1>16, <1>17, <1>18, <1>19, <1>20 DEF Run

\* However installations overlap, the installed revision never goes back.
THEOREM RevisionsNeverRegress == Spec => NoRegression
<1>1. IInv /\ [Next]_vars => [active'.rev >= active.rev]_vars
  <2> SUFFICES ASSUME IInv, [Next]_vars
               PROVE  active'.rev >= active.rev
    OBVIOUS
  <2>1. active.rev \in Nat
    BY ModelUpdatesAssumption DEF IInv, TypeOK, Manifests, NoManifest, Revs
  <2>2. CASE active' = active
    BY <2>1, <2>2
  <2>3. ASSUME NEW q \in Procs, pc[q] = "rename", RenameManifest(q)
        PROVE  active'.rev >= active.rev
    <3>1. active' = Planned(q) /\ active.rev <= plan[q]["model"]
      BY <2>3 DEF RenameManifest, IInv, InstallInv
    <3>2. plan[q]["model"] \in Nat
      BY ModelUpdatesAssumption DEF IInv, TypeOK, Revs, Files
    <3> QED
      BY <2>1, <3>1, <3>2 DEF Planned
  <2> QED
    BY <2>2, <2>3, RevisionStep
<1> QED
  BY <1>1, Inductive, PTL DEF Spec, NoRegression

\* A launch that publishes a manifest over an installed one publishes the same one.
THEOREM LaunchesNeverUpgrade == Spec => LaunchNeverUpgrades
<1> DEFINE A == \A p \in Procs :
          kind[p] = "launch" /\ pc[p] = "rename" /\ pc'[p] = "reread" /\ active.rev # 0
              => active' = active
<1>1. IInv /\ [Next]_vars => [A]_vars
  <2> SUFFICES ASSUME IInv, [Next]_vars, NEW p \in Procs,
                      kind[p] = "launch", pc[p] = "rename", active.rev # 0
               PROVE  active' = active
    OBVIOUS
  <2>1. ASSUME NEW q \in Procs, pc[q] = "rename", RenameManifest(q)
        PROVE  active' = active
    <3>1. p = q
      BY <2>1 DEF IInv, LockInv, Locked
    <3>2. active' = Planned(p) /\ active.rev = plan[p]["model"]
      BY <2>1, <3>1 DEF RenameManifest, IInv, InstallInv
    <3>3. plan[p]["tower"] = plan[p]["model"]
      BY DEF IInv, PlanInv
    <3>4. /\ active \in [rev : Revs, sha : [Files -> Digests]]
          /\ \A f \in Files : active.sha[f] = Sha[f][active.rev]
      BY DEF IInv, TypeOK, Manifests, NoManifest, SeenInv, IsRevision
    <3>5. active.sha = [f \in Files |-> Sha[f][plan[p][f]]]
      BY <3>2, <3>3, <3>4 DEF Files
    <3> QED
      BY <3>2, <3>4, <3>5 DEF Planned
  <2> QED
    BY <2>1, RevisionStep
<1> QED
  BY <1>1, Inductive, PTL DEF Spec, LaunchNeverUpgrades
=============================================================================
