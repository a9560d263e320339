--------------------------------- MODULE IBU ---------------------------------
(***************************************************************************)
(* The image-based upgrade of one node: the ImageBasedUpgrade controller,  *)
(* the ostree deployments it switches between, the jobs of the Prep stage, *)
(* the init monitor of a freshly pivoted stateroot and the user who edits  *)
(* the CR.                                                                 *)
(*                                                                         *)
(* A stateroot is named after the version it holds, so a version stands    *)
(* for its stateroot.  Every stateroot has an etcd of its own: cr[s] is    *)
(* the CR as the cluster of stateroot s stores it, and a pivot carries the *)
(* CR over in file[s], the ibu.json of that stateroot, which the operator  *)
(* restores when it starts there.                                          *)
(*                                                                         *)
(* A reconcile is split where something else can interleave: the API       *)
(* server refuses a status update when the CR changed since it was read    *)
(* (fresh), and the node or the operator can die between two writes to     *)
(* the host.                                                               *)
(***************************************************************************)
EXTENDS Integers, IBUStages

CONSTANTS
    MaxVersion,         \* versions are 1..MaxVersion; the node is installed at 1
    SetDefaultFeature,  \* "ostree admin set-default" is available on the node
    Retarget,           \* the user gives another seed version outside Idle
    MaxEdits,           \* bound on the user's changes of the CR
    MaxFaults,          \* bound on crashes, fallback boots and failed restores
    MaxDeletes          \* bound on deletions of the CR by the user

ASSUME MaxVersionAssumption == MaxVersion \in Nat \ {0}
ASSUME SetDefaultFeatureAssumption == SetDefaultFeature \in BOOLEAN
ASSUME RetargetAssumption == Retarget \in BOOLEAN
ASSUME BoundsAssumption == MaxEdits \in Nat /\ MaxFaults \in Nat /\ MaxDeletes \in Nat

VARIABLES
    \* the host
    booted,         \* the booted stateroot
    default,        \* the stateroot of the default deployment: what the next boot runs
    deployed,       \* the stateroots that have a deployment
    \* what outlives the operator
    cr,             \* per stateroot: the CR in that stateroot's etcd
    file,           \* per stateroot: the saved CR, ibu.json
    staterootJob,   \* per stateroot: the stateroot setup job in its etcd
    precacheJob,    \* per stateroot: the precaching job in its etcd
    pod,            \* the version the running setup pod has fetched, 0: none yet
    monitor,        \* per stateroot: the init monitor service
    \* the operator process
    up,             \* InitIBU is done and the controllers run
    pc,             \* where the reconcile (or InitIBU) stands
    ibu,            \* the CR in the memory of that reconcile
    fresh,          \* cr[booted] has not changed since it was read into ibu
    queued,         \* a reconcile request is in the work queue
    deleted,        \* a deleted CR whose delete event is not handled yet
    \* counters of the bounds
    edits, faults, deletes

hostVars  == <<booted, default, deployed>>
storeVars == <<cr, file>>
jobVars   == <<staterootJob, precacheJob, pod>>
opVars    == <<up, pc, ibu, fresh, queued>>
envVars   == <<deleted, edits, faults, deletes>>
vars == <<booted, default, deployed, cr, file, staterootJob, precacheJob, pod,
          monitor, up, pc, ibu, fresh, queued, deleted, edits, faults, deletes>>

Version == 1 .. MaxVersion

\* spec.stage, spec.seedImageRef.version (0: not given), status.conditions,
\* status.validNextStages and the manual-cleanup-done annotation.
CRs == [stage : Stages \cup {"None"}, target : Version \cup {0},
        conds : Conditions, next : SUBSET Stages, cleaned : BOOLEAN]

NoCR == [stage |-> "None", target |-> 0, conds |-> NoConditions,
         next |-> {}, cleaned |-> FALSE]
InitialCR == [NoCR EXCEPT !.stage = "Idle"]

Exists(x) == x.stage # "None"

\* A job marked for deletion is "stopping" while its pod runs on, then
\* "terminating": its finalizer keeps it.
JobStates == {"none", "running", "complete", "failed", "stopping", "terminating"}
MarkedForDeletion == {"stopping", "terminating"}
MonitorStates == {"off", "armed", "fired", "switched"}
RestorePCs == {"restoreDelete", "restoreCreate", "restoreStatus", "restoreRemove"}
PCs == RestorePCs \cup
       {"idle", "transition", "handle", "final", "cleanup",
        "exported", "saved", "defaultSet",
        "autoSave", "autoSaved", "autoDefault",
        "rollbackDefault", "rollbackSaved"}

\* Every variable keeps its type; the CR that a reconcile has in memory, and the
\* one a stateroot has saved, are CRs the API server could hold (or none).
TypeOK ==
    /\ booted \in Version
    /\ default \in Version
    /\ deployed \in SUBSET Version
    /\ cr \in [Version -> CRs]
    /\ file \in [Version -> CRs]
    /\ staterootJob \in [Version -> JobStates]
    /\ precacheJob \in [Version -> JobStates]
    /\ pod \in Version \cup {0}
    /\ monitor \in [Version -> MonitorStates]
    /\ up \in BOOLEAN
    /\ pc \in PCs
    /\ ibu \in CRs
    /\ fresh \in BOOLEAN
    /\ queued \in BOOLEAN
    /\ deleted \in CRs
    /\ edits \in 0 .. MaxEdits
    /\ faults \in 0 .. MaxFaults
    /\ deletes \in 0 .. MaxDeletes

Init ==
    /\ booted = 1
    /\ default = 1
    /\ deployed = {1}
    /\ cr = [s \in Version |-> NoCR]
    /\ file = [s \in Version |-> NoCR]
    /\ staterootJob = [s \in Version |-> "none"]
    /\ precacheJob = [s \in Version |-> "none"]
    /\ pod = 0
    /\ monitor = [s \in Version |-> "off"]
    /\ up = FALSE
    /\ pc = "idle"
    /\ ibu = NoCR
    /\ fresh = FALSE
    /\ queued = FALSE
    /\ deleted = NoCR
    /\ edits = 0
    /\ faults = 0
    /\ deletes = 0

-----------------------------------------------------------------------------
(* The host. *)

\* IsStaterootBooted of the desired stateroot; its negation is
\* IsOrigStaterootBooted.
isAfterPivot(x) == x.target = booted

\* GetUnbootedStaterootName: the first deployment, in boot order, of a
\* stateroot that is not booted.  The default deployment comes first.
UnbootedStateroots ==
    IF default # booted THEN {default} ELSE deployed \ {booted}
UnbootedStateroot == CHOOSE s \in UnbootedStateroots : TRUE

Refreshed(x) == [x EXCEPT !.next = getValidNextStageList(x.conds, x.stage, isAfterPivot(x))]

\* Everything the operator holds in memory is gone; the node boots stateroot s.
BootInto(s) ==
    /\ booted' = s
    /\ pod' = 0
    /\ up' = FALSE
    /\ pc' = "idle"
    /\ ibu' = NoCR
    /\ fresh' = FALSE
    /\ queued' = FALSE
    /\ deleted' = NoCR

\* systemctl reboot: the stopped init monitor disables itself (ExecStopPost).
Reboot ==
    /\ BootInto(default)
    /\ monitor' = [monitor EXCEPT ![booted] = "off"]
    /\ UNCHANGED <<default, deployed, storeVars, staterootJob, precacheJob,
                   edits, faults, deletes>>

-----------------------------------------------------------------------------
(* InitIBU: at the start of the manager, and when a reconcile finds no CR. *)

InitIBURequired == pc = "idle" /\ (~up \/ (queued /\ ~Exists(cr[booted])))

\* No saved CR: the initial CR is created, unless there is one.
InitIBUCreate ==
    /\ InitIBURequired
    /\ ~Exists(file[booted])
    /\ cr' = IF Exists(cr[booted]) THEN cr ELSE [cr EXCEPT ![booted] = InitialCR]
    /\ up' = TRUE
    /\ queued' = TRUE
    /\ UNCHANGED <<hostVars, file, jobVars, monitor, pc, ibu, fresh, envVars>>

\* Mutant: the saved CR is removed when it is read, before it is restored.
InitIBURead_consume ==
    /\ InitIBURequired
    /\ Exists(file[booted])
    /\ ibu' = file[booted]
    /\ file' = [file EXCEPT ![booted] = NoCR]
    /\ pc' = "restoreDelete"
    /\ UNCHANGED <<hostVars, cr, jobVars, monitor, up, fresh, queued, envVars>>

InitIBURead ==
    /\ InitIBURequired
    /\ Exists(file[booted])
    /\ ibu' = file[booted]
    /\ pc' = "restoreDelete"
    /\ UNCHANGED <<hostVars, storeVars, jobVars, monitor, up, fresh, queued, envVars>>

InitIBUDelete ==
    /\ pc = "restoreDelete"
    /\ cr' = [cr EXCEPT ![booted] = NoCR]
    /\ pc' = "restoreCreate"
    /\ UNCHANGED <<hostVars, file, jobVars, monitor, up, ibu, fresh, queued, envVars>>

\* The API server drops the status of a created object.
InitIBURecreate ==
    /\ pc = "restoreCreate"
    /\ cr' = [cr EXCEPT ![booted] = [ibu EXCEPT !.conds = NoConditions, !.next = {}]]
    /\ pc' = "restoreStatus"
    /\ fresh' = TRUE
    /\ UNCHANGED <<hostVars, file, jobVars, monitor, up, ibu, queued, envVars>>

InitIBUStatus ==
    /\ pc = "restoreStatus"
    /\ fresh
    /\ cr' = [cr EXCEPT ![booted] = ibu]
    /\ pc' = "restoreRemove"
    /\ UNCHANGED <<hostVars, file, jobVars, monitor, up, ibu, fresh, queued, envVars>>

InitIBURemove ==
    /\ pc = "restoreRemove"
    /\ file' = [file EXCEPT ![booted] = NoCR]
    /\ pc' = "idle"
    /\ up' = TRUE
    /\ queued' = TRUE
    /\ ibu' = NoCR
    /\ fresh' = FALSE
    /\ UNCHANGED <<hostVars, cr, jobVars, monitor, envVars>>

\* One of the calls fails, a status update of a changed CR included: the
\* manager exits and is started again, the reconcile is requeued.
InitIBUFail ==
    /\ pc \in RestorePCs
    /\ \/ faults < MaxFaults /\ faults' = faults + 1
       \/ pc = "restoreStatus" /\ ~fresh /\ UNCHANGED faults
    /\ pc' = "idle"
    /\ ibu' = NoCR
    /\ fresh' = FALSE
    /\ queued' = up
    /\ UNCHANGED <<hostVars, storeVars, jobVars, monitor, up, deleted, edits, deletes>>

InitIBU ==
    \/ InitIBUCreate
    \/ InitIBURead
    \/ InitIBUDelete
    \/ InitIBURecreate
    \/ InitIBUStatus
    \/ InitIBURemove
    \/ InitIBUFail


-----------------------------------------------------------------------------
(* Reconcile: up to the stage handler, and after it. *)

\* The CR is read without a cache, the requested transition is applied to the
\* copy in memory, permitted or refused.
Reconcile ==
    /\ up
    /\ pc = "idle"
    /\ queued
    /\ Exists(cr[booted])
    /\ LET x         == cr[booted]
           requested == isTransitionRequested(x.conds, x.stage)
           allowed   == transitionAllowed(x.conds, x.stage, isAfterPivot(x))
           moved     == [Refreshed(x) EXCEPT !.conds =
                            validateStageTransition(x.conds, x.stage, isAfterPivot(x))]
       IN /\ ibu' = IF ~requested THEN Refreshed(x)
                    ELSE IF allowed THEN Refreshed(moved)
                    ELSE moved
          /\ pc' = IF requested /\ allowed THEN "transition" ELSE "handle"
    /\ fresh' = TRUE
    /\ queued' = FALSE
    /\ UNCHANGED <<hostVars, storeVars, jobVars, monitor, up, envVars>>

\* Mutant: a failed status update is only logged and the handler runs.
ReconcileTransition_ignoreConflict ==
    /\ pc = "transition"
    /\ cr' = IF fresh THEN [cr EXCEPT ![booted] = ibu] ELSE cr
    /\ pc' = "handle"
    /\ UNCHANGED <<hostVars, file, jobVars, monitor, up, ibu, fresh, queued, envVars>>

\* The status update of a permitted transition: on a conflict the reconcile
\* ends before any handler runs.
ReconcileTransition ==
    /\ pc = "transition"
    /\ IF fresh
         THEN /\ cr' = [cr EXCEPT ![booted] = ibu]
              /\ pc' = "handle"
              /\ UNCHANGED <<ibu, fresh, queued>>
         ELSE /\ pc' = "idle"
              /\ ibu' = NoCR
              /\ queued' = TRUE
              /\ UNCHANGED <<cr, fresh>>
    /\ UNCHANGED <<hostVars, file, jobVars, monitor, up, envVars>>

\* The handler returns with x in memory; requeue: it asks for another reconcile.
ToFinal(x, requeue) ==
    /\ ibu' = x
    /\ pc' = "final"
    /\ queued' = (queued \/ requeue)
    /\ UNCHANGED <<up, fresh>>

\* The handler of a stage is running.
Handling(stage) == pc = "handle" /\ GetInProgressStage(ibu.conds) = stage

HandleNothing ==
    /\ Handling("None")
    /\ ToFinal(ibu, FALSE)
    /\ UNCHANGED <<hostVars, storeVars, jobVars, monitor, envVars>>

\* The status update that ends every reconcile.
ReconcileFinal ==
    /\ pc = "final"
    /\ IF fresh
         THEN /\ cr' = [cr EXCEPT ![booted] = Refreshed(ibu)]
              /\ UNCHANGED queued
         ELSE /\ queued' = TRUE
              /\ UNCHANGED cr
    /\ pc' = "idle"
    /\ ibu' = NoCR
    /\ fresh' = FALSE
    /\ UNCHANGED <<hostVars, file, jobVars, monitor, up, envVars>>

-----------------------------------------------------------------------------
(* The Prep stage: handlePrep, the setup job and the precaching job. *)

Failed(x, stage) == [x EXCEPT !.conds = SetStatusFailed(x.conds, stage)]
Completed(x, stage) == [x EXCEPT !.conds = SetStatusCompleted(x.conds, stage)]

\* The cluster is not healthy, a job has not finished or a call failed.
PrepWait ==
    /\ Handling("Prep")
    /\ ToFinal(ibu, TRUE)
    /\ UNCHANGED <<hostVars, storeVars, jobVars, monitor, envVars>>

\* The spec or the seed image is refused before the job is launched.
PrepValidationFailed ==
    /\ Handling("Prep")
    /\ staterootJob[booted] = "none"
    /\ ToFinal(Failed(ibu, "Prep"), FALSE)
    /\ UNCHANGED <<hostVars, storeVars, jobVars, monitor, envVars>>

\* Mutant: the seed version is not compared with the running one.
PrepLaunchStateroot_anyVersion ==
    /\ Handling("Prep")
    /\ staterootJob[booted] = "none"
    /\ staterootJob' = [staterootJob EXCEPT ![booted] = "running"]
    /\ ToFinal(ibu, TRUE)
    /\ UNCHANGED <<hostVars, storeVars, precacheJob, pod, monitor, envVars>>

\* validateSeedOcpVersion: the seed is newer than the running cluster.
PrepLaunchStateroot ==
    /\ Handling("Prep")
    /\ staterootJob[booted] = "none"
    /\ ibu.target > booted
    /\ staterootJob' = [staterootJob EXCEPT ![booted] = "running"]
    /\ ToFinal(ibu, TRUE)
    /\ UNCHANGED <<hostVars, storeVars, precacheJob, pod, monitor, envVars>>

PrepJobFailed ==
    /\ Handling("Prep")
    /\ LET bad == {"failed"} \cup MarkedForDeletion IN
       \/ staterootJob[booted] \in bad
       \/ staterootJob[booted] = "complete" /\ precacheJob[booted] \in bad
    /\ ToFinal(Failed(ibu, "Prep"), FALSE)
    /\ UNCHANGED <<hostVars, storeVars, jobVars, monitor, envVars>>

PrepLaunchPrecache ==
    /\ Handling("Prep")
    /\ staterootJob[booted] = "complete"
    /\ precacheJob[booted] = "none"
    /\ precacheJob' = [precacheJob EXCEPT ![booted] = "running"]
    /\ ToFinal(ibu, TRUE)
    /\ UNCHANGED <<hostVars, storeVars, staterootJob, pod, monitor, envVars>>

PrepComplete ==
    /\ Handling("Prep")
    /\ staterootJob[booted] = "complete"
    /\ precacheJob[booted] = "complete"
    /\ ToFinal(Completed(ibu, "Prep"), FALSE)
    /\ UNCHANGED <<hostVars, storeVars, jobVars, monitor, envVars>>

handlePrep ==
    \/ PrepWait
    \/ PrepValidationFailed
    \/ PrepLaunchStateroot
    \/ PrepJobFailed
    \/ PrepLaunchPrecache
    \/ PrepComplete

\* A job changes: its owner is reconciled.
JobStep == queued' = up /\ UNCHANGED <<up, pc, ibu, fresh>>

\* The pod of the setup job fetches the CR as it is now, not as it was when
\* the job was launched.
StaterootJobFetch ==
    /\ staterootJob[booted] \in {"running", "stopping"}
    /\ pod = 0
    /\ cr[booted].target # 0
    /\ pod' = cr[booted].target
    /\ UNCHANGED <<hostVars, storeVars, staterootJob, precacheJob, monitor, opVars, envVars>>

\* SetupStateroot: os-init refuses a stateroot that exists.  The seed brings an
\* etcd without a CR and an init monitor, enabled unless the spec disables it.
\* Without the set-default feature the new deployment becomes the default one.
\* A pod that is asked to stop runs on until it is done or killed.
StaterootJobDeploy ==
    /\ staterootJob[booted] \in {"running", "stopping"}
    /\ pod \in Version \ deployed
    /\ deployed' = deployed \cup {pod}
    /\ default' = IF SetDefaultFeature THEN default ELSE pod
    /\ cr' = [cr EXCEPT ![pod] = NoCR]
    /\ file' = [file EXCEPT ![pod] = NoCR]
    /\ \E m \in {"armed", "off"} : monitor' = [monitor EXCEPT ![pod] = m]
    /\ \E j \in {"complete", "failed"} :
           staterootJob' = [staterootJob EXCEPT
               ![pod] = "none", ![booted] = IF @ = "running" THEN j ELSE "terminating"]
    /\ precacheJob' = [precacheJob EXCEPT ![pod] = "none"]
    /\ pod' = 0
    /\ JobStep
    /\ UNCHANGED <<booted, envVars>>

StaterootJobFail ==
    /\ staterootJob[booted] \in {"running", "stopping"}
    /\ staterootJob' = [staterootJob EXCEPT ![booted] =
                           IF @ = "running" THEN "failed" ELSE "terminating"]
    /\ pod' = 0
    /\ JobStep
    /\ UNCHANGED <<hostVars, storeVars, precacheJob, monitor, envVars>>

PrecacheJobEnd ==
    /\ precacheJob[booted] = "running"
    /\ \E j \in {"complete", "failed"} :
           precacheJob' = [precacheJob EXCEPT ![booted] = j]
    /\ JobStep
    /\ UNCHANGED <<hostVars, storeVars, staterootJob, pod, monitor, envVars>>

\* The user or, once the CR that owns it is gone, the garbage collector deletes
\* a job; its finalizer keeps it until cleanup.
JobDeleted ==
    /\ \/ /\ staterootJob[booted] \notin {"none"} \cup MarkedForDeletion
          /\ staterootJob' = [staterootJob EXCEPT ![booted] =
                                 IF @ = "running" THEN "stopping" ELSE "terminating"]
          /\ UNCHANGED precacheJob
       \/ /\ precacheJob[booted] \notin {"none"} \cup MarkedForDeletion
          /\ precacheJob' = [precacheJob EXCEPT ![booted] = "terminating"]
          /\ UNCHANGED staterootJob
    /\ JobStep
    /\ UNCHANGED <<hostVars, storeVars, pod, monitor, envVars>>

Jobs ==
    \/ StaterootJobFetch
    \/ StaterootJobDeploy
    \/ StaterootJobFail
    \/ PrecacheJobEnd
    \/ JobDeleted

-----------------------------------------------------------------------------
(* The Upgrade stage before the pivot. *)

PrePivoting == Handling("Upgrade") /\ ~isAfterPivot(ibu)

\* Health, backups and exports are not done, or failed in a way that is retried.
PrePivotWait ==
    /\ PrePivoting
    /\ ToFinal(ibu, TRUE)
    /\ UNCHANGED <<hostVars, storeVars, jobVars, monitor, envVars>>

\* The backups or the exports failed for good.
PrePivotFailed ==
    /\ PrePivoting
    /\ ToFinal(Failed(ibu, "Upgrade"), FALSE)
    /\ UNCHANGED <<hostVars, storeVars, jobVars, monitor, envVars>>

\* Everything before went well.  The status update is only logged when it
\* fails, so a CR that changed meanwhile does not stop the handler.
exportIBUToNewStateroot ==
    /\ PrePivoting
    /\ ibu.target # 0
    /\ file' = [file EXCEPT ![ibu.target] = ibu]
    /\ pc' = "exported"
    /\ UNCHANGED <<hostVars, cr, jobVars, monitor, up, ibu, fresh, queued, envVars>>

\* Mutant: the copy is saved without the Upgrade marked failed.
exportForUncontrolledRollback_inProgress ==
    /\ pc = "exported"
    /\ file' = [file EXCEPT ![booted] = ibu]
    /\ pc' = "saved"
    /\ UNCHANGED <<hostVars, cr, jobVars, monitor, up, ibu, fresh, queued, envVars>>

exportForUncontrolledRollback ==
    /\ pc = "exported"
    /\ file' = [file EXCEPT ![booted] = Failed(ibu, "Upgrade")]
    /\ pc' = "saved"
    /\ UNCHANGED <<hostVars, cr, jobVars, monitor, up, ibu, fresh, queued, envVars>>

setDefaultDeploymentToNewStateroot ==
    /\ pc = "saved"
    /\ SetDefaultFeature => ibu.target \in deployed
    /\ default' = IF SetDefaultFeature THEN ibu.target ELSE default
    /\ pc' = "defaultSet"
    /\ UNCHANGED <<booted, deployed, storeVars, jobVars, monitor, up, ibu, fresh, queued, envVars>>

\* One of the two exports or the change of the default deployment failed.
PrePivotError ==
    /\ pc \in {"exported", "saved"}
    /\ ToFinal(ibu, TRUE)
    /\ UNCHANGED <<hostVars, storeVars, jobVars, monitor, envVars>>

PrePivotReboot == pc = "defaultSet" /\ Reboot

PrePivotRebootFailed ==
    /\ pc = "defaultSet"
    /\ ToFinal(Failed(ibu, "Upgrade"), FALSE)
    /\ UNCHANGED <<hostVars, storeVars, jobVars, monitor, envVars>>

PrePivot ==
    \/ PrePivotWait
    \/ PrePivotFailed
    \/ exportIBUToNewStateroot
    \/ exportForUncontrolledRollback
    \/ setDefaultDeploymentToNewStateroot
    \/ PrePivotError
    \/ PrePivotReboot
    \/ PrePivotRebootFailed

-----------------------------------------------------------------------------
(* The Upgrade stage after the pivot, and the rollbacks nobody asked for. *)

PostPivoting == Handling("Upgrade") /\ isAfterPivot(ibu)

\* Health, manifests or restores are not done, or failed in a way that is retried.
PostPivotWait ==
    /\ PostPivoting
    /\ ToFinal(ibu, TRUE)
    /\ UNCHANGED <<hostVars, storeVars, jobVars, monitor, envVars>>

\* DisableInitMonitor: a failure to stop the monitor is only logged.
PostPivotComplete ==
    /\ PostPivoting
    /\ \/ monitor' = [monitor EXCEPT ![booted] = "off"] /\ UNCHANGED faults
       \/ /\ monitor[booted] # "off"
          /\ faults < MaxFaults
          /\ faults' = faults + 1
          /\ UNCHANGED monitor
    /\ ToFinal(Completed(ibu, "Upgrade"), FALSE)
    /\ UNCHANGED <<hostVars, storeVars, jobVars, deleted, edits, deletes>>

\* Manifests or restores failed for good.  An annotation of the CR, or a
\* release without set-default, disables the automatic rollback.
PostPivotFailed ==
    /\ PostPivoting
    /\ \/ ToFinal(Failed(ibu, "Upgrade"), FALSE)
       \/ /\ SetDefaultFeature
          /\ ibu' = Failed(ibu, "Upgrade")
          /\ pc' = "autoSave"
          /\ UNCHANGED <<up, fresh, queued>>
    /\ UNCHANGED <<hostVars, storeVars, jobVars, monitor, envVars>>

\* InitiateRollback, the first half: the CR saved in the stateroot to go back
\* to is marked failed; there must be one.
markSavedIBUFailed ==
    /\ UnbootedStateroots # {}
    /\ Exists(file[UnbootedStateroot])
    /\ file' = [file EXCEPT ![UnbootedStateroot] = Failed(@, "Upgrade")]

\* The second half: the node is to boot that stateroot next.
setDefaultToUnbooted ==
    /\ UnbootedStateroots # {}
    /\ default' = UnbootedStateroot

AutoRollbackSave ==
    /\ pc = "autoSave"
    /\ markSavedIBUFailed
    /\ pc' = "autoSaved"
    /\ UNCHANGED <<hostVars, cr, jobVars, monitor, up, ibu, fresh, queued, envVars>>

AutoRollbackSetDefault ==
    /\ pc = "autoSaved"
    /\ setDefaultToUnbooted
    /\ pc' = "autoDefault"
    /\ UNCHANGED <<booted, deployed, storeVars, jobVars, monitor, up, ibu, fresh, queued, envVars>>

AutoRollbackReboot == pc = "autoDefault" /\ Reboot

\* Any of its calls fails: the error is logged, the upgrade stays failed.
AutoRollbackError ==
    /\ pc \in {"autoSave", "autoSaved", "autoDefault"}
    /\ ToFinal(ibu, FALSE)
    /\ UNCHANGED <<hostVars, storeVars, jobVars, monitor, envVars>>

PostPivot ==
    \/ PostPivotWait
    \/ PostPivotComplete
    \/ PostPivotFailed
    \/ AutoRollbackSave
    \/ AutoRollbackSetDefault
    \/ AutoRollbackReboot
    \/ AutoRollbackError

\* The init monitor times out, or a service unit it checks has failed.  It
\* takes no lock, so it runs between any two steps of a reconcile.
MonitorFire ==
    /\ monitor[booted] = "armed"
    /\ SetDefaultFeature
    /\ markSavedIBUFailed
    /\ monitor' = [monitor EXCEPT ![booted] = "fired"]
    /\ UNCHANGED <<hostVars, cr, jobVars, opVars, envVars>>

MonitorSetDefault ==
    /\ monitor[booted] = "fired"
    /\ setDefaultToUnbooted
    /\ monitor' = [monitor EXCEPT ![booted] = "switched"]
    /\ UNCHANGED <<booted, deployed, storeVars, jobVars, opVars, envVars>>

MonitorReboot == monitor[booted] = "switched" /\ Reboot

\* The rollback cannot be initiated, or one of its calls fails: the service
\* ends, and disables itself.
MonitorError ==
    /\ monitor[booted] # "off"
    /\ \/ /\ monitor[booted] # "switched"
          /\ UnbootedStateroots # {} =>
                monitor[booted] = "armed" /\ (SetDefaultFeature => ~Exists(file[UnbootedStateroot]))
          /\ UNCHANGED faults
       \/ faults < MaxFaults /\ faults' = faults + 1
    /\ monitor' = [monitor EXCEPT ![booted] = "off"]
    /\ UNCHANGED <<hostVars, storeVars, jobVars, opVars, deleted, edits, deletes>>

Monitor ==
    \/ MonitorFire
    \/ MonitorSetDefault
    \/ MonitorReboot
    \/ MonitorError

-----------------------------------------------------------------------------
(* The Rollback stage. *)

\* The pivot back has happened.
finishRollback ==
    /\ Handling("Rollback")
    /\ ~isAfterPivot(ibu)
    /\ ToFinal(Completed(ibu, "Rollback"), FALSE)
    /\ UNCHANGED <<hostVars, storeVars, jobVars, monitor, envVars>>

Rollbacking == Handling("Rollback") /\ isAfterPivot(ibu)

\* Mutant: without set-default the node is rebooted at once.
RollbackSetDefault_noWait ==
    /\ Rollbacking
    /\ IF SetDefaultFeature THEN setDefaultToUnbooted ELSE UNCHANGED default
    /\ pc' = "rollbackDefault"
    /\ UNCHANGED <<booted, deployed, storeVars, jobVars, monitor, up, ibu, fresh, queued, envVars>>

\* Without set-default the user has to choose the deployment of the next boot.
RollbackSetDefault ==
    /\ Rollbacking
    /\ IF SetDefaultFeature THEN setDefaultToUnbooted
                            ELSE default # booted /\ UNCHANGED default
    /\ pc' = "rollbackDefault"
    /\ UNCHANGED <<booted, deployed, storeVars, jobVars, monitor, up, ibu, fresh, queued, envVars>>

RollbackWait ==
    /\ Rollbacking
    /\ ~SetDefaultFeature
    /\ default = booted
    /\ ToFinal(ibu, TRUE)
    /\ UNCHANGED <<hostVars, storeVars, jobVars, monitor, envVars>>

\* A failed status update is only logged.
RollbackSave ==
    /\ pc = "rollbackDefault"
    /\ cr' = IF fresh THEN [cr EXCEPT ![booted] = ibu] ELSE cr
    /\ UnbootedStateroots # {}
    /\ file' = [file EXCEPT ![UnbootedStateroot] = ibu]
    /\ pc' = "rollbackSaved"
    /\ UNCHANGED <<hostVars, jobVars, monitor, up, ibu, fresh, queued, envVars>>

RollbackReboot == pc = "rollbackSaved" /\ Reboot

\* Mutant: the failure is not reported.
RollbackFailed_unreported ==
    /\ Rollbacking \/ pc \in {"rollbackDefault", "rollbackSaved"}
    /\ ToFinal(ibu, FALSE)
    /\ UNCHANGED <<hostVars, storeVars, jobVars, monitor, envVars>>

\* No deployment to go back to, or one of the calls fails.
RollbackFailed ==
    /\ Rollbacking \/ pc \in {"rollbackDefault", "rollbackSaved"}
    /\ ToFinal(Failed(ibu, "Rollback"), FALSE)
    /\ UNCHANGED <<hostVars, storeVars, jobVars, monitor, envVars>>

handleRollback ==
    \/ finishRollback
    \/ RollbackSetDefault
    \/ RollbackWait
    \/ RollbackSave
    \/ RollbackReboot
    \/ RollbackFailed

-----------------------------------------------------------------------------
(* The Idle stage: abort and finalize. *)

IdleReason == ibu.conds["Idle"]

\* Finalizing, also after the user's own cleanup, waits for a healthy cluster.
FinalizeWait ==
    /\ \/ Handling("Idle") /\ IdleReason = "Finalizing"
       \/ pc = "cleanup" /\ IdleReason = "FinalizeFailed"
    /\ ToFinal([ibu EXCEPT !.conds = SetCondition(@, "Idle", "Finalizing")], TRUE)
    /\ UNCHANGED <<hostVars, storeVars, jobVars, monitor, envVars>>

\* The annotation is removed from the CR before the retry, which is an event
\* that the controller reconciles on.
checkManualCleanup ==
    /\ Handling("Idle")
    /\ IdleReason \in {"AbortFailed", "FinalizeFailed"}
    /\ IF ibu.cleaned /\ fresh
         THEN /\ ibu' = [ibu EXCEPT !.cleaned = FALSE]
              /\ cr' = [cr EXCEPT ![booted].cleaned = FALSE]
              /\ pc' = "cleanup"
              /\ queued' = TRUE
              /\ UNCHANGED <<up, fresh>>
         ELSE /\ ToFinal(ibu, TRUE)
              /\ UNCHANGED cr
    /\ UNCHANGED <<hostVars, file, jobVars, monitor, envVars>>

\* The point where cleanup runs.
CleaningUp ==
    \/ Handling("Idle") /\ IdleReason \in {"Aborting", "Finalizing"}
    \/ pc = "cleanup"

\* Mutant: the boot order keeps pointing at a stateroot that is gone.
RemoveStateroots_keepDefault(gone) ==
    /\ deployed' = deployed \ gone
    /\ UNCHANGED default
    /\ file' = [s \in Version |-> IF s \in gone THEN NoCR ELSE file[s]]
    /\ cr' = [s \in Version |-> IF s \in gone THEN NoCR ELSE cr[s]]
    /\ monitor' = [s \in Version |-> IF s \in gone THEN "off" ELSE monitor[s]]

\* The stateroots in gone are undeployed and deleted, with all they hold.  When
\* the default one goes, another becomes the default.
RemoveStateroots(gone) ==
    /\ deployed' = deployed \ gone
    /\ default' \in IF default \in gone THEN deployed \ gone ELSE {default}
    /\ file' = [s \in Version |-> IF s \in gone THEN NoCR ELSE file[s]]
    /\ cr' = [s \in Version |-> IF s \in gone THEN NoCR ELSE cr[s]]
    /\ monitor' = [s \in Version |-> IF s \in gone THEN "off" ELSE monitor[s]]

\* Mutant: cleanup does not wait for the pod of the deleted setup job.
CleanupDone_noPodWait ==
    /\ CleaningUp
    /\ RemoveStateroots(Version \ {booted})
    /\ staterootJob' = [s \in Version |->
           IF s = booted /\ staterootJob[s] \in {"running", "stopping"} THEN "stopping" ELSE "none"]
    /\ precacheJob' = [s \in Version |-> "none"]
    /\ ToFinal([ibu EXCEPT !.conds = ResetStatusConditions(@)], FALSE)
    /\ UNCHANGED <<booted, pod, envVars>>

\* Delete the setup job and wait for its pod, remove every other stateroot,
\* delete the precaching job.  The ibu.json of the booted stateroot stays.
CleanupDone ==
    /\ CleaningUp
    /\ RemoveStateroots(Version \ {booted})
    /\ staterootJob' = [s \in Version |-> "none"]
    /\ precacheJob' = [s \in Version |-> "none"]
    /\ pod' = 0
    /\ ToFinal([ibu EXCEPT !.conds = ResetStatusConditions(@)], FALSE)
    /\ UNCHANGED <<booted, envVars>>

\* Every task is tried, some fail: the stateroots are left alone when the setup
\* job could not be deleted or its pod is still there; otherwise any of them,
\* or a later task, failed.
CleanupFailed ==
    /\ CleaningUp
    /\ \/ /\ staterootJob[booted] # "none"
          /\ staterootJob' = [staterootJob EXCEPT ![booted] =
                                 IF @ = "running" THEN "stopping"
                                 ELSE IF @ = "stopping" THEN @ ELSE "terminating"]
          /\ UNCHANGED <<hostVars, storeVars, monitor, pod>>
       \/ /\ \E gone \in SUBSET (Version \ {booted}) :
                /\ RemoveStateroots(gone)
                /\ staterootJob' = [s \in Version |->
                       IF s \in gone \cup {booted} THEN "none" ELSE staterootJob[s]]
          /\ pod' = 0
          /\ UNCHANGED booted
    /\ \E j \in {"none", precacheJob[booted]} :
           precacheJob' = [precacheJob EXCEPT ![booted] = j]
    /\ ToFinal([ibu EXCEPT !.conds = SetCondition(@, "Idle",
                    IF IdleReason \in {"Aborting", "AbortFailed"}
                       THEN "AbortFailed" ELSE "FinalizeFailed")],
               TRUE)
    /\ UNCHANGED envVars

handleAbortOrFinalize ==
    \/ FinalizeWait
    \/ checkManualCleanup
    \/ CleanupDone
    \/ CleanupFailed

-----------------------------------------------------------------------------
(* The user. *)

\* The CR of the running cluster is changed behind the reconcile's back.
EditCR(x) ==
    /\ cr' = [cr EXCEPT ![booted] = x]
    /\ fresh' = FALSE
    /\ queued' = up
    /\ UNCHANGED <<hostVars, file, jobVars, monitor, up, pc, ibu>>

\* The validation rules of the CRD.
specChangeAdmitted(x, stage, target) ==
    \/ x.conds = NoConditions
    \/ /\ stage \in x.next \/ stage = x.stage
       /\ target = x.target \/ IsTrue(x.conds, "Idle") \/ stage = "Idle"

SetSpec(stage, target) ==
    LET x == cr[booted] IN
    /\ Exists(x)
    /\ edits < MaxEdits
    /\ stage # x.stage \/ target # x.target
    /\ specChangeAdmitted(x, stage, target)
    /\ Retarget \/ target = x.target \/ x.conds = NoConditions \/ IsTrue(x.conds, "Idle")
    /\ EditCR([x EXCEPT !.stage = stage, !.target = target])
    /\ edits' = edits + 1
    /\ UNCHANGED <<deleted, faults, deletes>>

\* The manual-cleanup-done annotation.
AddManualCleanup ==
    LET x == cr[booted] IN
    /\ Exists(x)
    /\ x.conds["Idle"] \in {"AbortFailed", "FinalizeFailed"}
    /\ ~x.cleaned
    /\ edits < MaxEdits
    /\ EditCR([x EXCEPT !.cleaned = TRUE])
    /\ edits' = edits + 1
    /\ UNCHANGED <<deleted, faults, deletes>>

\* The trigger-reconcile annotation.
TriggerReconcile ==
    /\ Exists(cr[booted])
    /\ ~queued \/ fresh
    /\ edits < MaxEdits
    /\ EditCR(cr[booted])
    /\ edits' = edits + 1
    /\ UNCHANGED <<deleted, faults, deletes>>

\* A release without set-default: the deployment to roll back to is chosen by hand.
ManualSetDefault ==
    /\ ~SetDefaultFeature
    /\ IsStageInProgress(cr[booted].conds, "Rollback")
    /\ default = booted
    /\ default' \in deployed \ {booted}
    /\ UNCHANGED <<booted, deployed, storeVars, jobVars, monitor, opVars, envVars>>

DeleteCR ==
    /\ Exists(cr[booted])
    /\ deletes < MaxDeletes
    /\ deletes' = deletes + 1
    /\ deleted' = IF up THEN cr[booted] ELSE NoCR
    /\ cr' = [cr EXCEPT ![booted] = NoCR]
    /\ fresh' = FALSE
    /\ UNCHANGED <<hostVars, file, jobVars, monitor, up, pc, ibu, queued, edits, faults>>

\* The watch of the operator sees the deletion: DeleteFunc saves the CR to be
\* restored, or drops the saved one, and only then asks for a reconcile.
DeleteFunc ==
    /\ up
    /\ Exists(deleted)
    /\ file' = [file EXCEPT ![booted] =
           IF IsStageCompleted(deleted.conds, "Idle") \/ IsStageFailed(deleted.conds, "Rollback")
              THEN NoCR ELSE deleted]
    /\ deleted' = NoCR
    /\ queued' = TRUE
    /\ UNCHANGED <<hostVars, cr, jobVars, monitor, up, pc, ibu, fresh, edits, faults, deletes>>

User ==
    \/ \E stage \in Stages, target \in Version : SetSpec(stage, target)
    \/ AddManualCleanup
    \/ TriggerReconcile
    \/ ManualSetDefault
    \/ DeleteCR

-----------------------------------------------------------------------------
(* Faults. *)

\* The operator's pod dies and is started again.
OperatorCrash ==
    /\ up \/ pc # "idle"
    /\ faults < MaxFaults
    /\ faults' = faults + 1
    /\ up' = FALSE
    /\ pc' = "idle"
    /\ ibu' = NoCR
    /\ fresh' = FALSE
    /\ queued' = FALSE
    /\ deleted' = NoCR
    /\ UNCHANGED <<hostVars, storeVars, jobVars, monitor, edits, deletes>>

\* The node goes down hard: an enabled init monitor starts again with its
\* stateroot.  It comes up in the default deployment, or the user picks at the
\* boot menu a stateroot that has run a cluster before.
NodeCrash ==
    /\ faults < MaxFaults
    /\ faults' = faults + 1
    /\ \E s \in deployed : (s = default \/ Exists(cr[s])) /\ BootInto(s)
    /\ monitor' = [monitor EXCEPT ![booted] = IF @ = "off" THEN "off" ELSE "armed"]
    /\ UNCHANGED <<default, deployed, storeVars, staterootJob, precacheJob, edits, deletes>>

-----------------------------------------------------------------------------

Operator ==
    \/ InitIBU
    \/ Reconcile
    \/ ReconcileTransition
    \/ HandleNothing
    \/ ReconcileFinal
    \/ handlePrep
    \/ PrePivot
    \/ PostPivot
    \/ handleRollback
    \/ handleAbortOrFinalize
    \/ DeleteFunc

Next == Operator \/ Jobs \/ Monitor \/ User \/ OperatorCrash \/ NodeCrash

Spec == Init /\ [][Next]_vars

\* The operator's goroutines and the init monitor keep running.
FairSpec == Spec /\ WF_vars(Operator) /\ WF_vars(Monitor)

-----------------------------------------------------------------------------
(* Correctness. *)

Current == cr[booted]

Upgrading == IsStageInProgress(Current.conds, "Upgrade")

\* The upgrade has pivoted and has been neither finalized nor undone.
Pivoted ==
    /\ Current.target = booted
    /\ Upgrading \/ IsStageCompletedOrFailed(Current.conds, "Upgrade")
    /\ Current.conds["Idle"] \notin {"Idle", "Finalizing", "FinalizeFailed"}

\* The booted deployment and the one the next boot takes both exist: cleanup,
\* set-default and an aborted or failed pivot never leave a boot entry without
\* its deployment (idle_handlers.go, ostreeclient.go).
BootableHost == {booted, default} \subseteq deployed

\* Until the upgrade is finalized there is a stateroot to roll back to: no
\* cleanup runs for a finalize that the CR, edited meanwhile, no longer asks for
\* (the status update of Reconcile against handleFinalize).
RollbackKept == Pivoted => deployed # {booted}

\* The old stateroot never takes up again an upgrade that has already pivoted:
\* however the node came back, its CR says the upgrade failed or is rolled back
\* (exportForUncontrolledRollback, InitiateRollback, startRollback, InitIBU).
NoUpgradeLoop ==
    up /\ Current.target \in Version \ {booted} /\ Exists(cr[Current.target]) => ~Upgrading

\* An upgrade is reported completed only on the stateroot it asked for, a
\* rollback only away from it (PostPivot, handleRollback and the CR that a
\* pivot carries over).
CompletedOnTarget ==
    Current.stage # "Idle" =>
        /\ IsStageCompleted(Current.conds, "Upgrade") => booted = Current.target
        /\ IsStageCompleted(Current.conds, "Rollback") => booted # Current.target

\* An upgrade that is in progress has the deployment it pivots to, or runs in
\* it: the verdict of the setup job stands when handleUpgrade relies on it.
UpgradePrepared == Current.stage # "Idle" /\ Upgrading => Current.target \in deployed

\* When the CR says Idle nothing of an upgrade is left on the host: no other
\* stateroot, and no setup job whose pod could still deploy one (cleanup).
IdleIsClean ==
    IsTrue(Current.conds, "Idle") => deployed = {booted} /\ staterootJob[booted] = "none"

\* A node with a second stateroot knows of its upgrade, in the CR or in the
\* saved one, whenever the operator or the node dies: the exports precede
\* set-default, and InitIBU removes the file last.
UpgradeRemembered ==
    deployed # {booted} => Exists(file[booted]) \/ Current.conds # NoConditions

\* The CR and the host agree on an upgrade, through every pivot, restart and
\* restored CR: the three statements above (PostPivot, handleUpgrade, InitIBU).
UpgradeAccounted == CompletedOnTarget /\ UpgradePrepared /\ UpgradeRemembered

\* A completed upgrade runs the newest of the deployed versions
\* (validateSeedOcpVersion).
UpgradeRaisesVersion ==
    IsTrue(Current.conds, "UpgradeCompleted") => \A v \in deployed : v <= booted

\* A reboot that the operator asks for lands in another stateroot, and that
\* stateroot holds a saved CR to go on with (PrePivot, startRollback,
\* InitiateRollback).
RebootCarriesCR ==
    [][(/\ pc \in {"defaultSet", "rollbackSaved", "autoDefault"}
        /\ up /\ ~up'
        /\ faults' = faults)
           => booted' # booted /\ Exists(file[booted'])]_vars

\* An abort ends: in Idle, or in AbortFailed for the user to clean up.
AbortTerminates ==
    up /\ Current.conds["Idle"] = "Aborting" ~> Current.conds["Idle"] \in {"Idle", "AbortFailed"}

\* A rollback ends, in either stateroot: completed, failed, or overtaken by the
\* automatic one.
RollbackTerminates ==
    up /\ IsStageInProgress(Current.conds, "Rollback")
        ~> up /\ ~IsStageInProgress(Current.conds, "Rollback")

UpgradingAfterPivot == Exists(Current) /\ Current.target = booted /\ Upgrading

\* The init monitor bounds the upgrade: once the user leaves the CR alone, an
\* upgrade that waits forever for a healthy cluster is rolled back (RunInitMonitor).
MonitorEndsUpgrade ==
    UpgradingAfterPivot /\ monitor[booted] = "armed" /\ pc = "idle" /\ edits = MaxEdits
        ~> ~UpgradingAfterPivot

\* What is in progress ends: aborts, rollbacks and, by the init monitor, an
\* upgrade after the pivot (handleAbort, handleRollback, RunInitMonitor).
StagesTerminate == AbortTerminates /\ RollbackTerminates /\ MonitorEndsUpgrade
=============================================================================
