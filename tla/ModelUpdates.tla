----------------------------- MODULE ModelUpdates -----------------------------
(* Installation and update of a catalog model: install_files, active_files,    *)
(* record_local_files and check_revision_at of codex-rs/llamacpp/src/          *)
(* model_updates.rs, driven by a launch (utils/oss/src/installation.rs) or by  *)
(* `millie models update` (utils/oss/src/model_updates.rs).                    *)
(*                                                                             *)
(* A model has a weights file and a vision tower.  Verified copies live under  *)
(* files/<sha256> and are never replaced; active.json names one revision and   *)
(* its digests.  A download is a single step here: Download shows that it      *)
(* ends with the file of that digest in place or not at all.                   *)
EXTENDS Naturals

CONSTANTS
    Procs,     \* Millie processes that launch or update the model
    MaxRev,    \* revisions the repository goes through
    Digests,   \* SHA-256 digests
    Sha        \* digest of each file at each revision

Nobody == "nobody"
Files == {"model", "tower"}
Revs == 1..MaxRev

ASSUME ModelUpdatesAssumption ==
    /\ Procs # {} /\ Nobody \notin Procs
    /\ MaxRev \in Nat \ {0}
    /\ Sha \in [Files -> [Revs -> Digests]]

VARIABLES
    unversioned, \* files the user has got elsewhere; never changed
    main,      \* the revision the remote branch is at
    store,     \* digests of the files under files/
    active,    \* active.json; rev 0 when it does not exist
    temp,      \* active.json.new
    recorded,  \* local.json exists
    lock,      \* holder of update.lock
    pc,        \* progress of each process
    kind,      \* what the process runs: "launch" or "update"
    vision,    \* the launch wants the vision tower
    seen,      \* the manifest the process resolved its sources from
    plan       \* revision reported for each file, 0 before it was asked

vars == <<unversioned, main, store, active, temp, recorded, lock, pc, kind, vision, seen, plan>>
disk == <<unversioned, store, active, temp, recorded>>

-----------------------------------------------------------------------------
Manifests == [rev : Revs, sha : [Files -> Digests]]
NoManifest == [rev |-> 0]
NoPlan == [f \in Files |-> 0]

\* States in which install_files or record_local_files holds update.lock.
Locked == {"record", "compare", "model", "tower", "write", "rename"}
States == Locked \cup {"idle", "resolve", "wantrecord", "checkmodel", "checktower",
                       "decide", "wantinstall", "reread", "ensure",
                       "ready", "local", "done", "failed"}

\* What is on disk and what each process remembers of it.
TypeOK ==
    /\ unversioned \subseteq Files
    /\ main \in Revs
    /\ store \subseteq Digests
    /\ active \in Manifests \cup {NoManifest}
    /\ temp \in Manifests \cup {NoManifest}
    /\ recorded \in BOOLEAN
    /\ lock \in Procs \cup {Nobody}
    /\ pc \in [Procs -> States]
    /\ kind \in [Procs -> {"launch", "update"}]
    /\ vision \in [Procs -> BOOLEAN]
    /\ seen \in [Procs -> Manifests \cup {NoManifest}]
    /\ plan \in [Procs -> [Files -> Revs \cup {0}]]

Init ==
    /\ unversioned \in SUBSET Files
    /\ main = 1
    /\ store = {}
    /\ active = NoManifest
    /\ temp = NoManifest
    /\ recorded = FALSE
    /\ lock = Nobody
    /\ pc = [p \in Procs |-> "idle"]
    /\ kind = [p \in Procs |-> "launch"]
    /\ vision = [p \in Procs |-> FALSE]
    /\ seen = [p \in Procs |-> NoManifest]
    /\ plan = [p \in Procs |-> NoPlan]

Goto(p, from, to) == pc[p] = from /\ pc' = [pc EXCEPT ![p] = to]

\* Files the process has to have: a text-only launch does without the tower.
Required(p) == IF kind[p] = "update" \/ vision[p] THEN Files ELSE {"model"}

\* Mutant: the tower is fetched from the branch instead of the pinned revision.
PlannedAtHead(p) ==
    [rev |-> plan[p]["model"],
     sha |-> [f \in Files |-> Sha[f][IF f = "tower" THEN main ELSE plan[p][f]]]]

\* What install_files is about to publish.
Planned(p) == [rev |-> plan[p]["model"],
               sha |-> [f \in Files |-> Sha[f][plan[p][f]]]]

-----------------------------------------------------------------------------
(* Resolving the sources, offline.                                             *)

Begin(p) ==
    /\ Goto(p, "idle", "resolve")
    /\ kind' \in {[kind EXCEPT ![p] = k] : k \in {"launch", "update"}}
    /\ vision' \in {[vision EXCEPT ![p] = v] : v \in BOOLEAN}
    /\ UNCHANGED <<main, disk, lock, seen, plan>>

\* Where the sources lead.  An installed revision is used as it is by a launch.
\* Unversioned files are used as they are when they suffice; without their
\* tower, the launch is refused.
Onward(p, manifest) ==
    CASE kind[p] = "update" -> "checkmodel"
      [] kind[p] = "launch" /\ manifest.rev # 0 -> "ensure"
      [] kind[p] = "launch" /\ manifest.rev = 0 /\ "model" \notin unversioned -> "checkmodel"
      [] OTHER -> IF vision[p] /\ "tower" \notin unversioned THEN "failed" ELSE "local"

\* active_files, without the lock.  Unversioned files get recorded first.
Resolve(p) ==
    /\ IF active.rev = 0 /\ "model" \in unversioned /\ ~recorded
       THEN Goto(p, "resolve", "wantrecord") /\ UNCHANGED seen
       ELSE /\ Goto(p, "resolve", Onward(p, active))
            /\ seen' = [seen EXCEPT ![p] = active]
    /\ UNCHANGED <<main, disk, lock, kind, vision, plan>>

LockFile(p, from, to) ==
    /\ Goto(p, from, to)
    /\ lock = Nobody
    /\ lock' = p
    /\ UNCHANGED <<main, disk, kind, vision, seen, plan>>

LockForRecord(p) == LockFile(p, "wantrecord", "record")

\* record_local_files: only if neither record exists.
RecordLocalFiles(p) ==
    /\ Goto(p, "record", "resolve")
    /\ recorded' = (recorded \/ active.rev = 0)
    /\ lock' = Nobody
    /\ UNCHANGED <<unversioned, main, store, active, temp, kind, vision, seen, plan>>

-----------------------------------------------------------------------------
(* check_revision_at: main is resolved once, the next file is asked for at the *)
(* revision that was returned.                                                 *)

CheckModel(p) ==
    /\ Goto(p, "checkmodel", "checktower")
    /\ plan' = [plan EXCEPT ![p]["model"] = main]
    /\ UNCHANGED <<main, disk, lock, kind, vision, seen>>

CheckTower(p) ==
    /\ Goto(p, "checktower", "decide")
    /\ plan' = [plan EXCEPT ![p]["tower"] = plan[p]["model"]]
    /\ UNCHANGED <<main, disk, lock, kind, vision, seen>>

\* `changed` in the update command: a file is missing or has another digest.
Changed(p) ==
    \/ seen[p].rev = 0
    \/ \E f \in Files : seen[p].sha[f] \notin store \/ seen[p].sha[f] # Planned(p).sha[f]

\* A launch always installs; install_files refuses files of several revisions.
Decide(p) ==
    /\ Goto(p, "decide",
            IF kind[p] = "update" /\ ~Changed(p) THEN "done"
            ELSE IF plan[p]["tower"] # plan[p]["model"] THEN "failed"
            ELSE "wantinstall")
    /\ UNCHANGED <<main, disk, lock, kind, vision, seen, plan>>

-----------------------------------------------------------------------------
(* install_files, under update.lock.                                           *)

LockForInstall(p) == LockFile(p, "wantinstall", "compare")

\* Mutants: no comparison at all; a launch installs whatever it planned.
AlwaysCurrent(p) == TRUE
LaunchIsCurrent(p) == active.rev = seen[p].rev \/ kind[p] = "launch"

\* The manifest is still the one the sources came from, or another launch has
\* just installed the same revision.
StillCurrent(p) ==
    \/ active.rev = seen[p].rev
    \/ kind[p] = "launch" /\ active.rev = plan[p]["model"]

Compare(p) ==
    /\ Goto(p, "compare", "model")
    /\ StillCurrent(p)
    /\ UNCHANGED <<main, disk, lock, kind, vision, seen, plan>>

CompareFails(p) ==
    /\ Goto(p, "compare", "failed")
    /\ ~StillCurrent(p)
    /\ lock' = Nobody
    /\ UNCHANGED <<main, disk, kind, vision, seen, plan>>

\* Verify the copy at hand, link it from an installed one, or download it.
InstallFile(p, f, next) ==
    /\ Goto(p, f, next)
    /\ store' = IF f \in Required(p) THEN store \cup {Planned(p).sha[f]} ELSE store
    /\ UNCHANGED <<unversioned, main, active, temp, recorded, lock, kind, vision, seen, plan>>

\* Mutant: the manifest is published without the weights.
InstallModelLater(p) ==
    /\ Goto(p, "model", "tower")
    /\ UNCHANGED <<main, disk, lock, kind, vision, seen, plan>>

InstallModel(p) == InstallFile(p, "model", "tower")
InstallTower(p) == InstallFile(p, "tower", "write")

WriteManifest(p) ==
    /\ Goto(p, "write", "rename")
    /\ temp' = Planned(p)
    /\ UNCHANGED <<unversioned, main, store, active, recorded, lock, kind, vision, seen, plan>>

\* rename() publishes the new manifest; returning drops the lock.
RenameManifest(p) ==
    /\ Goto(p, "rename", IF kind[p] = "launch" THEN "reread" ELSE "done")
    /\ active' = temp
    /\ temp' = NoManifest
    /\ lock' = Nobody
    /\ UNCHANGED <<unversioned, main, store, recorded, kind, vision, seen, plan>>

\* A HEAD request, the lock, a download, a verification or a write fails.
Fails(p) ==
    /\ pc[p] \in Locked \cup {"wantrecord", "checkmodel", "checktower", "wantinstall", "ensure"}
    /\ pc' = [pc EXCEPT ![p] = "failed"]
    /\ lock' = IF lock = p THEN Nobody ELSE lock
    /\ UNCHANGED <<main, disk, kind, vision, seen, plan>>

-----------------------------------------------------------------------------
(* The launch goes on with what is installed now.                              *)

Reread(p) ==
    /\ Goto(p, "reread", "ensure")
    /\ seen' = [seen EXCEPT ![p] = active]
    /\ UNCHANGED <<main, disk, lock, kind, vision, plan>>

\* Mutant: only the weights are fetched.
EnsureModelOnly(p) ==
    /\ Goto(p, "ensure", "ready")
    /\ store' = store \cup {seen[p].sha["model"]}
    /\ UNCHANGED <<unversioned, main, active, temp, recorded, lock, kind, vision, seen, plan>>

\* ensure_oss_ready fetches what is missing of the revision that was exported.
EnsureFiles(p) ==
    /\ Goto(p, "ensure", "ready")
    /\ store' = store \cup {seen[p].sha[f] : f \in Required(p)}
    /\ UNCHANGED <<unversioned, main, active, temp, recorded, lock, kind, vision, seen, plan>>

\* The process ends or crashes; the OS drops its lock.
Exit(p) ==
    /\ pc[p] # "idle"
    /\ pc' = [pc EXCEPT ![p] = "idle"]
    /\ lock' = IF lock = p THEN Nobody ELSE lock
    /\ seen' = [seen EXCEPT ![p] = NoManifest]
    /\ plan' = [plan EXCEPT ![p] = NoPlan]
    /\ UNCHANGED <<main, disk, kind, vision>>

\* The publisher commits to the branch.
Commit ==
    /\ main < MaxRev
    /\ main' = main + 1
    /\ UNCHANGED <<disk, lock, pc, kind, vision, seen, plan>>

Run(p) ==
    \/ Resolve(p) \/ LockForRecord(p) \/ RecordLocalFiles(p)
    \/ CheckModel(p) \/ CheckTower(p) \/ Decide(p)
    \/ LockForInstall(p) \/ Compare(p) \/ CompareFails(p)
    \/ InstallModel(p) \/ InstallTower(p)
    \/ WriteManifest(p) \/ RenameManifest(p) \/ Fails(p)
    \/ Reread(p) \/ EnsureFiles(p)

Next == Commit \/ \E p \in Procs : Begin(p) \/ Run(p) \/ Exit(p)

Spec == Init /\ [][Next]_vars

-----------------------------------------------------------------------------
(* Properties.                                                                 *)

\* A launch never mixes files of two revisions, whatever is installed while it
\* resolves, and it has every file it needs.
LaunchIsConsistent ==
    \A p \in Procs : pc[p] = "ready" =>
        /\ \A f \in Files : seen[p].sha[f] = Sha[f][seen[p].rev]
        /\ \A f \in Required(p) : seen[p].sha[f] \in store

\* active.json appears only after the weights it names were verified.
ActiveIsInstalled ==
    active.rev # 0 => active.sha["model"] \in store

\* Installations that overlap never take the model back to an older revision.
NoRegression ==
    [][active'.rev >= active.rev]_vars

\* An ordinary launch never moves an installed model to another revision.
LaunchNeverUpgrades ==
    [][\A p \in Procs :
          kind[p] = "launch" /\ pc[p] = "rename" /\ pc'[p] = "reread" /\ active.rev # 0
              => active' = active]_vars

-----------------------------------------------------------------------------
(* The inductive invariant: the holder of the lock works from a comparison     *)
(* that still holds, and revisions only ever come from the branch's past.      *)

LockInv == \A p \in Procs : pc[p] \in Locked <=> lock = p

IsRevision(m) == m.rev # 0 => \A f \in Files : m.sha[f] = Sha[f][m.rev]

PlanInv ==
    \A p \in Procs :
        /\ plan[p]["model"] <= main
        /\ pc[p] \in {"checktower", "decide", "wantinstall", "compare", "model",
                      "tower", "write", "rename"}
             => plan[p]["model"] # 0 /\ seen[p].rev <= plan[p]["model"]
        /\ pc[p] \in {"wantinstall", "compare", "model", "tower", "write", "rename"}
             => plan[p]["tower"] = plan[p]["model"]

InstallInv ==
    \A p \in Procs :
        /\ pc[p] \in {"model", "tower", "write", "rename"} =>
               /\ active.rev <= plan[p]["model"]
               /\ kind[p] = "launch" => active.rev \in {0, plan[p]["model"]}
        /\ pc[p] \in {"tower", "write", "rename"} => Planned(p).sha["model"] \in store
        /\ pc[p] = "rename" => temp = Planned(p)

SeenInv ==
    /\ IsRevision(active) /\ active.rev <= main
    /\ \A p \in Procs :
        /\ IsRevision(seen[p]) /\ seen[p].rev <= main
        /\ pc[p] \in {"ensure", "ready"} => seen[p].rev # 0
        /\ kind[p] = "launch" /\ pc[p] \in {"checkmodel", "checktower", "decide",
               "wantinstall", "compare"} => seen[p].rev = 0
        /\ pc[p] = "ready" => \A f \in Required(p) : seen[p].sha[f] \in store
        /\ pc[p] = "reread" => active.rev # 0

IInv == TypeOK /\ LockInv /\ PlanInv /\ InstallInv /\ SeenInv /\ ActiveIsInstalled
=============================================================================
