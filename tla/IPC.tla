--------------------------------- MODULE IPC ---------------------------------
(***************************************************************************)
(* An IP change of a single node: the IPConfig controller, the host units  *)
(* "lca-cli ip-config pre-pivot", "post-pivot" (ip-configuration.service)  *)
(* and "rollback", and the init monitor in its ipconfig mode.  The IBU     *)
(* stays Idle here; module Agent has the two controllers together.         *)
(*                                                                         *)
(* A network is a number; the node is installed with network 1 in          *)
(* stateroot 0, whose name is the one an empty spec builds.  A spec with   *)
(* network n builds the name of stateroot n.  A stateroot has a disk       *)
(* (/etc and /var) and, on it, an etcd with the CR and perhaps ipc.json.   *)
(*                                                                         *)
(* A reconcile is split at its status updates, each of which can be        *)
(* refused (the CR has changed: ~fresh) or fail, and at the writes to the  *)
(* host between which the operator or the node can die.                    *)
(***************************************************************************)
EXTENDS Integers, IPCStages

CONSTANTS
    MaxNet,             \* networks are 1..MaxNet
    SetDefaultFeature,  \* "ostree admin set-default" is available
    AutoRollback,       \* the auto-rollback annotations do not disable it
    MaxEdits,           \* bound on the user's changes of the CR, deletions included
    MaxFaults,          \* bound on crashes, failed calls and deletions of the CR
    MaxEvents           \* bound on edits and faults together

ASSUME MaxNetAssumption == MaxNet \in Nat \ {0}
ASSUME SwitchesAssumption == {SetDefaultFeature, AutoRollback} \subseteq BOOLEAN
ASSUME IPCBoundsAssumption == MaxEdits \in Nat /\ MaxFaults \in Nat /\ MaxEvents \in Nat

VARIABLES
    \* the host
    booted,     \* the booted stateroot
    default,    \* the stateroot the next boot runs
    deployed,   \* the stateroots that have a deployment
    disk,       \* per stateroot: what /etc and /var hold besides the next two
    cr,         \* per stateroot: the CR in its etcd
    file,       \* per stateroot: the saved CR, ipc.json
    \* what a boot starts
    running,    \* the containers of the cluster run
    unit,       \* lca-ipconfig-pre-pivot: how far it has come
    target,     \* the stateroot that unit was told to prepare
    service,    \* ip-configuration.service: running, past kubelet, or rolling back
    \* the operator process
    up,         \* InitIPConfig is done and the controllers run
    pc,         \* where the reconcile stands
    ipc,        \* the CR in the memory of that reconcile
    fresh,      \* cr[booted] has not changed since it was read into ipc
    queued,     \* a reconcile request is in the work queue
    deleted,    \* a deleted CR whose delete event is not handled yet
    \* counters of the bounds
    edits, faults

hostVars  == <<booted, default, deployed, disk>>
storeVars == <<cr, file>>
unitVars  == <<running, unit, target, service>>
opVars    == <<up, pc, ipc, fresh, queued>>
envVars   == <<deleted, edits>>
vars == <<booted, default, deployed, disk, cr, file, running, unit, target, service,
          up, pc, ipc, fresh, queued, deleted, edits, faults>>

\* The operator's pod dies, the user deletes the CR, the stat of a RunOnce marker
\* fails, or another call or the node fails.
FaultKinds == {"operator", "delete", "stat", "other"}

Stateroot == 0 .. MaxNet

\* spec.stage, the network of the spec (0: the spec names none; its stateroot
\* is the one it builds the name of), status.conditions, status.validNextStages
\* and the manual-cleanup annotation.
CRs == [stage : IPStages \cup {"None"}, net : Stateroot, conds : IPConditions,
        next : SUBSET IPStages, cleaned : BOOLEAN]

NoCR == [stage |-> "None", net |-> 0, conds |-> NoIPConditions, next |-> {}, cleaned |-> FALSE]
InitialCR == [NoCR EXCEPT !.stage = "Idle"]

Exists(x) == x.stage # "None"

\* net, cert: the network of the host, and the one recert has rewritten the
\* cluster for.  plan: the network in nmstate.yaml and the recert configuration
\* of the workspace.  done: the RunOnce markers in it.  auto: it holds the
\* configuration of the automatic rollback.  kubelet, service, monitor: the
\* enabled units, and how far the monitor is.
RunOnceSteps == {"network", "recert"}
MonitorStates == {"off", "armed", "fired", "switched"}
Disks == [net : Stateroot, cert : Stateroot, plan : Stateroot, done : SUBSET RunOnceSteps,
          auto : BOOLEAN, kubelet : BOOLEAN, service : BOOLEAN, monitor : MonitorStates]

EmptyDisk == [net |-> 0, cert |-> 0, plan |-> 0, done |-> {}, auto |-> FALSE,
              kubelet |-> FALSE, service |-> FALSE, monitor |-> "off"]

UnitSteps == {"stopped", "deployed", "copied", "default", "written", "enabled", "installed"}

\* An enabled monitor starts from the beginning with every boot.
Restarted(m) == IF m = "off" THEN "off" ELSE "armed"

Units == {"none", "inputs", "ready"} \cup UnitSteps
\* configured, rewritten: the work of a RunOnce step is done, its marker not
\* written.  unconfigured: the first step was skipped.  recerted: both are past.
ServiceSteps == {"run", "configured", "unconfigured", "rewritten", "recerted", "started"}
Services == ServiceSteps \cup {"rollback", "switched"}
PCs == {"idle", "restored", "handle", "validate", "config", "exported", "waiting",
        "unitFailed", "verify", "rollback", "rollbackSaved", "cleanup", "final"}

TypeOK ==
    /\ booted \in Stateroot /\ default \in Stateroot /\ deployed \in SUBSET Stateroot
    /\ disk \in [Stateroot -> Disks]
    /\ cr \in [Stateroot -> CRs] /\ file \in [Stateroot -> CRs]
    /\ running \in BOOLEAN /\ unit \in Units /\ target \in Stateroot /\ service \in Services
    /\ up \in BOOLEAN /\ pc \in PCs /\ ipc \in CRs /\ fresh \in BOOLEAN /\ queued \in BOOLEAN
    /\ deleted \in CRs
    /\ edits \in 0 .. MaxEdits /\ faults \in [FaultKinds -> 0 .. MaxFaults]

Init ==
    /\ booted = 0 /\ default = 0 /\ deployed = {0}
    /\ disk = [s \in Stateroot |->
                  IF s = 0 THEN [EmptyDisk EXCEPT !.net = 1, !.cert = 1, !.kubelet = TRUE]
                  ELSE EmptyDisk]
    /\ cr = [s \in Stateroot |-> NoCR]
    /\ file = [s \in Stateroot |-> NoCR]
    /\ running = TRUE /\ unit = "none" /\ target = 0 /\ service = "run"
    /\ up = FALSE /\ pc = "idle" /\ ipc = NoCR /\ fresh = FALSE /\ queued = FALSE
    /\ deleted = NoCR
    /\ edits = 0 /\ faults = [k \in FaultKinds |-> 0]

-----------------------------------------------------------------------------
(* The host. *)

isTargetStaterootBooted(x) == x.net = booted
isUnbootedStaterootAvailable == deployed # {booted}
rollbackable(x) == isTargetStaterootBooted(x) /\ isUnbootedStaterootAvailable

\* The first deployment, in boot order, of a stateroot that is not booted.
UnbootedStateroot ==
    CHOOSE s \in IF default # booted THEN {default} ELSE deployed \ {booted} : TRUE

WithNextStages(x) == [x EXCEPT !.next = validIPNextStages(x.conds, x.stage, rollbackable(x))]

EventAllowed ==
    edits + faults["operator"] + faults["delete"] + faults["stat"] + faults["other"] < MaxEvents
EditAllowed == edits < MaxEdits /\ EventAllowed

\* A single fault of the bounded many: the operator dies once at most, and
\* nothing else goes wrong when the CR is deleted or a marker not read.
FaultAllowed ==
    /\ EventAllowed
    /\ faults["delete"] = 0 /\ faults["stat"] = 0
    /\ faults["operator"] + faults["other"] < MaxFaults
FirstFault == EventAllowed /\ MaxFaults > 0 /\ \A k \in FaultKinds : faults[k] = 0

Fault == FaultAllowed /\ faults' = [faults EXCEPT !["other"] = @ + 1]

\* The operator's process is gone, and with it the reconcile.
OperatorGone ==
    /\ up' = FALSE
    /\ pc' = "idle"
    /\ ipc' = NoCR
    /\ fresh' = FALSE
    /\ queued' = FALSE
    /\ deleted' = NoCR

\* The node boots stateroot s with the disks d; kubelet starts if it is enabled.
BootInto(s, d) ==
    /\ booted' = s
    /\ disk' = d
    /\ running' = d[s].kubelet
    /\ unit' = "none"
    /\ target' = 0
    /\ service' = "run"
    /\ OperatorGone
    /\ UNCHANGED <<deployed, edits>>

\* systemctl reboot: the stopped init monitor disables itself (ExecStopPost).
RebootInto(s) == BootInto(s, [disk EXCEPT ![booted].monitor = "off"])

-----------------------------------------------------------------------------
(* Status updates, and the frame of a reconcile. *)

\* UpdateIPCStatus(x), after which the handler goes on at next; when the update
\* fails the handler returns the error and the deferred update is tried.
UpdateIPCStatus(x, next, requeue) ==
    /\ ipc' = x
    /\ \/ /\ fresh
          /\ cr' = [cr EXCEPT ![booted] = x]
          /\ pc' = next
          /\ queued' = (queued \/ requeue)
          /\ UNCHANGED faults
       \/ /\ IF fresh THEN Fault ELSE UNCHANGED faults
          /\ pc' = "final"
          /\ queued' = TRUE
          /\ UNCHANGED cr
    /\ UNCHANGED <<up, fresh>>

\* The conditions end the stage, or keep it in progress.
Ended(stage, reason) == [ipc EXCEPT !.conds = SetIPStatusEnded(@, stage, reason)]

\* The CR is read without a cache; absent valid next stages are computed; the
\* network status is refreshed.
Reconcile ==
    /\ running /\ up /\ pc = "idle" /\ queued
    /\ Exists(cr[booted])
    /\ LET x == IF cr[booted].next = {} THEN WithNextStages(cr[booted]) ELSE cr[booted]
       IN /\ ipc' = x
          /\ cr' = [cr EXCEPT ![booted] = x]
    /\ pc' = "handle"
    /\ fresh' = TRUE
    /\ queued' = FALSE
    /\ UNCHANGED <<hostVars, file, unitVars, up, envVars, faults>>

Handling(stage) == pc = "handle" /\ ipc.stage = stage /\ ~ipc.cleaned
Requested == isIPTransitionRequested(ipc.conds, ipc.stage)
Valid == ipc.stage \in ipc.next

\* The stage is in progress and its handler at work.
InStage(stage, at) ==
    pc = at \/ (Handling(stage) /\ ~Requested /\ IsIPStageInProgress(ipc.conds, stage))

\* validateIPConfigStage of each of the three handlers.
RefuseTransition ==
    /\ \E stage \in IPStages : Handling(stage)
    /\ Requested /\ ~Valid
    /\ UpdateIPCStatus([ipc EXCEPT !.conds = SetIPStatusInvalidTransition(@, ipc.stage)],
                       "final", FALSE)
    /\ UNCHANGED <<hostVars, file, unitVars, envVars>>

\* The stage is completed or failed.
HandleNothing ==
    /\ Handling(ipc.stage)
    /\ ~Requested /\ ~IsIPStageInProgress(ipc.conds, ipc.stage)
    /\ pc' = "final"
    /\ UNCHANGED <<hostVars, storeVars, unitVars, up, ipc, fresh, queued, envVars, faults>>

\* The deferred function: the valid next stages and the last status update,
\* with whatever the handler left in memory.
ReconcileFinal ==
    /\ pc = "final"
    /\ IF fresh THEN cr' = [cr EXCEPT ![booted] = WithNextStages(ipc)] /\ UNCHANGED queued
       ELSE UNCHANGED cr /\ queued' = TRUE
    /\ pc' = "idle"
    /\ ipc' = NoCR
    /\ fresh' = FALSE
    /\ UNCHANGED <<hostVars, file, unitVars, up, envVars, faults>>

-----------------------------------------------------------------------------
(* InitIPConfig: at the start of the manager, and when there is no CR. *)

InitIPConfigRequired ==
    running /\ pc = "idle" /\ (~up \/ (queued /\ ~Exists(cr[booted])))

InitIPConfigCreate ==
    /\ InitIPConfigRequired
    /\ ~Exists(file[booted])
    /\ cr' = IF Exists(cr[booted]) THEN cr ELSE [cr EXCEPT ![booted] = InitialCR]
    /\ up' = TRUE
    /\ queued' = TRUE
    /\ UNCHANGED <<hostVars, file, unitVars, pc, ipc, fresh, envVars, faults>>

\* Delete, create and update the status: the CR is the saved one.
InitIPConfigRestore ==
    /\ InitIPConfigRequired
    /\ Exists(file[booted])
    /\ cr' = [cr EXCEPT ![booted] = file[booted]]
    /\ pc' = "restored"
    /\ UNCHANGED <<hostVars, file, unitVars, up, ipc, fresh, queued, envVars, faults>>

InitIPConfigRemove ==
    /\ pc = "restored"
    /\ file' = [file EXCEPT ![booted] = NoCR]
    /\ pc' = "idle"
    /\ up' = TRUE
    /\ queued' = TRUE
    /\ UNCHANGED <<hostVars, cr, unitVars, ipc, fresh, envVars, faults>>

\* The create or the status update fails: no CR, or one without a status.
InitIPConfigFail ==
    /\ InitIPConfigRequired
    /\ Exists(file[booted])
    /\ Fault
    /\ \E x \in {NoCR, [file[booted] EXCEPT !.conds = NoIPConditions, !.next = {}]} :
           cr' = [cr EXCEPT ![booted] = x]
    /\ UNCHANGED <<hostVars, file, unitVars, opVars, envVars>>

InitIPConfig ==
    \/ InitIPConfigCreate
    \/ InitIPConfigRestore
    \/ InitIPConfigRemove
    \/ InitIPConfigFail

-----------------------------------------------------------------------------
(* The Config stage in the controller. *)

EnterConfig ==
    /\ Handling("Config") /\ Requested /\ Valid
    /\ UpdateIPCStatus([ipc EXCEPT !.conds =
           SetIPCondition(ClearIPInvalidTransitionStatusConditions(@), "Idle", "ConfigurationInProgress")],
           "validate", FALSE)
    /\ UNCHANGED <<hostVars, file, unitVars, envVars>>

\* SNO, static networking, the dnsmasq machine config and the network spec.
validateConfigStart ==
    /\ pc = "validate"
    /\ \/ UpdateIPCStatus([ipc EXCEPT !.conds = SetIPStatusInProgress(@, "Config")], "config", FALSE)
       \/ UpdateIPCStatus(Ended("Config", "Failed"), "final", FALSE)
    /\ UNCHANGED <<hostVars, file, unitVars, envVars>>

InConfig == InStage("Config", "config")
PrePivoting == InConfig /\ ~rollbackable(ipc)

\* The host has the network of the spec, when the spec has one.
statusIPsMatchSpec(x) == x.net \in {0, disk[booted].net}

PrePivotNothing ==
    /\ PrePivoting
    /\ statusIPsMatchSpec(ipc)
    /\ UpdateIPCStatus(Ended("Config", "Completed"), "final", FALSE)
    /\ UNCHANGED <<hostVars, file, unitVars, envVars>>

\* The cluster is not healthy.
PrePivotWait ==
    /\ PrePivoting
    /\ ~statusIPsMatchSpec(ipc)
    /\ UpdateIPCStatus(ipc, "final", TRUE)
    /\ UNCHANGED <<hostVars, file, unitVars, envVars>>

\* The binary or one of the files of the workspace cannot be written; the unit
\* cannot be started because the one of an earlier reconcile still runs; or it
\* ended with an error.
PrePivotFailed ==
    /\ \/ PrePivoting /\ ~statusIPsMatchSpec(ipc)
       \/ pc = "exported" /\ unit # "none"
       \/ pc = "unitFailed"
    /\ UpdateIPCStatus(Ended("Config", "Failed"), "final", PrePivoting)
    /\ UNCHANGED <<hostVars, file, unitVars, envVars>>

\* Mutant: the exported CR still says the Config is in progress.
exportIPConfigForUncontrolledRollback_inProgress ==
    /\ PrePivoting
    /\ ~statusIPsMatchSpec(ipc)
    /\ file' = [file EXCEPT ![booted] = ipc]
    /\ disk' = [disk EXCEPT ![booted].auto = TRUE]
    /\ pc' = "exported"
    /\ UNCHANGED <<booted, default, deployed, cr, unitVars, up, ipc, fresh, queued, envVars, faults>>

\* The files for the unit and for the automatic rollback, and the CR to go back
\* to, are written.
exportIPConfigForUncontrolledRollback ==
    /\ PrePivoting
    /\ ~statusIPsMatchSpec(ipc)
    /\ file' = [file EXCEPT ![booted] = Ended("Config", "Failed")]
    /\ disk' = [disk EXCEPT ![booted].auto = TRUE]
    /\ pc' = "exported"
    /\ UNCHANGED <<booted, default, deployed, cr, unitVars, up, ipc, fresh, queued, envVars, faults>>

\* systemd-run --wait.
RunLcaCliIPConfigPrePivot ==
    /\ pc = "exported"
    /\ unit = "none"
    /\ unit' = "inputs"
    /\ target' = ipc.net
    /\ pc' = "waiting"
    /\ UNCHANGED <<hostVars, storeVars, running, service, up, ipc, fresh, queued, envVars, faults>>

PrePivot ==
    \/ PrePivotNothing
    \/ PrePivotWait
    \/ PrePivotFailed
    \/ exportIPConfigForUncontrolledRollback
    \/ RunLcaCliIPConfigPrePivot

PostPivoting == InConfig /\ rollbackable(ipc)

DisableInitMonitor ==
    /\ PostPivoting
    /\ disk' = [disk EXCEPT ![booted].monitor = "off"]
    /\ pc' = "verify"
    /\ UNCHANGED <<booted, default, deployed, storeVars, unitVars, up, ipc, fresh, queued, envVars, faults>>

DisableInitMonitorFailed ==
    /\ PostPivoting
    /\ UpdateIPCStatus(Ended("Config", "Failed"), "final", TRUE)
    /\ UNCHANGED <<hostVars, file, unitVars, envVars>>

\* The cluster is not healthy, or does not have the IPs of the spec yet.
PostPivotWait ==
    /\ pc = "verify"
    /\ UpdateIPCStatus(ipc, "final", TRUE)
    /\ UNCHANGED <<hostVars, file, unitVars, envVars>>

PostPivotComplete ==
    /\ pc = "verify"
    /\ statusIPsMatchSpec(ipc)
    /\ UpdateIPCStatus(Ended("Config", "Completed"), "final", FALSE)
    /\ UNCHANGED <<hostVars, file, unitVars, envVars>>

PostPivot ==
    \/ DisableInitMonitor
    \/ DisableInitMonitorFailed
    \/ PostPivotWait
    \/ PostPivotComplete

handleConfig == EnterConfig \/ validateConfigStart \/ PrePivot \/ PostPivot

-----------------------------------------------------------------------------
(* lca-cli ip-config pre-pivot, a unit of the host. *)

\* Flags, ostree data, or the inputs it collects from the cluster are wrong.
UnitRefuses ==
    /\ unit = "inputs"
    /\ unit' = "none"
    /\ target' = 0
    /\ pc' = IF pc = "waiting" THEN "unitFailed" ELSE pc
    /\ UNCHANGED <<hostVars, storeVars, running, service, up, ipc, fresh, queued, envVars, faults>>

\* Kubelet is stopped and disabled, every container stopped, the operator's too.
StopClusterServices ==
    /\ unit = "inputs"
    /\ unit' = "stopped"
    /\ disk' = [disk EXCEPT ![booted].kubelet = FALSE]
    /\ running' = FALSE
    /\ OperatorGone
    /\ UNCHANGED <<booted, default, deployed, storeVars, target, service, edits, faults>>

\* It fails half-way, before EnableClusterServices is deferred: the containers
\* may still run, kubelet does not and is not enabled.
StopClusterServicesFails ==
    /\ unit = "inputs"
    /\ Fault
    /\ unit' = "none"
    /\ target' = 0
    /\ disk' = [disk EXCEPT ![booted].kubelet = FALSE]
    /\ \/ running' = FALSE /\ OperatorGone
       \/ /\ pc' = IF pc = "waiting" THEN "unitFailed" ELSE pc
          /\ UNCHANGED <<running, up, ipc, fresh, queued, deleted>>
    /\ UNCHANGED <<booted, default, deployed, storeVars, service, edits>>

\* A step of the unit after the cluster is stopped.
UnitStep(from, to) ==
    /\ unit = from
    /\ unit' = to
    /\ UNCHANGED <<booted, running, target, service, opVars, envVars, faults>>

\* OSInit and Deploy, unless it is deployed already; without set-default the
\* deployment becomes the default one.
deployNewStateroot ==
    /\ UnitStep("stopped", "deployed")
    /\ deployed' = deployed \cup {target}
    /\ default' = IF SetDefaultFeature \/ target \in deployed THEN default ELSE target
    /\ UNCHANGED <<disk, storeVars>>

\* /var with etcd, ipc.json and the workspace; /etc with the network and the
\* enabled units; the origin file.
copyStateRootData ==
    /\ UnitStep("deployed", "copied")
    /\ target \in deployed
    /\ disk' = [disk EXCEPT ![target] = [disk[booted] EXCEPT !.monitor = Restarted(@)]]
    /\ cr' = [cr EXCEPT ![target] = cr[booted]]
    /\ file' = [file EXCEPT ![target] = file[booted]]
    /\ UNCHANGED <<default, deployed>>

setDefaultDeploymentIfEnabled ==
    /\ UnitStep("copied", "default")
    /\ SetDefaultFeature /\ target \in deployed
    /\ default' = target
    /\ UNCHANGED <<deployed, disk, storeVars>>

\* The pull secret, the recert and nmstate configurations, dnsmasq, the removal
\* of stale files, the files of the machine config.
writeNewStateroot ==
    /\ UnitStep("default", "written")
    /\ disk' = [disk EXCEPT ![target].plan = target]
    /\ UNCHANGED <<default, deployed, storeVars>>

\* Mutant: kubelet is not enabled again.
EnableClusterServices_not ==
    /\ UnitStep("written", "enabled")
    /\ UNCHANGED <<hostVars, storeVars>>

\* The deferred call, on the way out of a successful Run.
EnableClusterServices ==
    /\ UnitStep("written", "enabled")
    /\ disk' = [disk EXCEPT ![booted].kubelet = TRUE]
    /\ UNCHANGED <<default, deployed, storeVars>>

\* Mutant: kubelet is enabled in the new stateroot too.
installServices_kubelet ==
    /\ UnitStep("enabled", "installed")
    /\ disk' = [disk EXCEPT ![target].monitor = "armed", ![target].service = TRUE,
                            ![target].kubelet = TRUE]
    /\ UNCHANGED <<default, deployed, storeVars>>

\* The init monitor, ip-configuration.service and the lca-cli binary.
installServices ==
    /\ UnitStep("enabled", "installed")
    /\ disk' = [disk EXCEPT ![target].monitor = "armed", ![target].service = TRUE]
    /\ UNCHANGED <<default, deployed, storeVars>>

removeIPCFileInNewStateroot ==
    /\ UnitStep("installed", "ready")
    /\ file' = [file EXCEPT ![target] = NoCR]
    /\ UNCHANGED <<default, deployed, disk, cr>>

UnitReboot ==
    /\ unit = "ready"
    /\ RebootInto(default)
    /\ UNCHANGED <<default, storeVars, faults>>

\* There is no set-default, or the new deployment has been cleaned up meanwhile.
UnitBlocked ==
    \/ unit \in {"deployed", "copied"} /\ target \notin deployed
    \/ unit = "copied" /\ ~SetDefaultFeature

\* A step fails.  Kubelet is enabled on the way out but not started.
UnitFails ==
    /\ unit \in UnitSteps
    /\ IF UnitBlocked THEN UNCHANGED faults ELSE Fault
    /\ unit' = "none"
    /\ target' = 0
    /\ disk' = [disk EXCEPT ![booted].kubelet = TRUE]
    /\ UNCHANGED <<booted, default, deployed, storeVars, running, service, opVars, envVars>>

PrePivotUnit ==
    \/ UnitRefuses
    \/ StopClusterServices
    \/ StopClusterServicesFails
    \/ deployNewStateroot
    \/ copyStateRootData
    \/ setDefaultDeploymentIfEnabled
    \/ writeNewStateroot
    \/ EnableClusterServices
    \/ installServices
    \/ removeIPCFileInNewStateroot
    \/ UnitReboot
    \/ UnitFails

-----------------------------------------------------------------------------
(* ip-configuration.service: lca-cli ip-config post-pivot. *)

ServiceStep(from, to, d) ==
    /\ disk[booted].service
    /\ service = from
    /\ service' = to
    /\ disk' = [disk EXCEPT ![booted] = d]
    /\ UNCHANGED <<booted, default, deployed, storeVars, unit, target, opVars, envVars>>

\* RunOnce finds a marker, or has skipped the step.
NetworkPast == service = "unconfigured" \/ (service = "run" /\ "network" \in disk[booted].done)
RecertPast == service = "recerted" \/ (NetworkPast /\ "recert" \in disk[booted].done)

\* RunOnce: the work, then the marker.  Between the two the node may die, and
\* the work is done again.
applyNetworkConfiguration ==
    /\ "network" \notin disk[booted].done
    /\ disk[booted].plan # 0
    /\ ServiceStep("run", "configured", [disk[booted] EXCEPT !.net = disk[booted].plan])
    /\ UNCHANGED <<running, faults>>

runRecert ==
    /\ NetworkPast
    /\ "recert" \notin disk[booted].done
    /\ disk[booted].plan # 0
    /\ ServiceStep(service, "rewritten", [disk[booted] EXCEPT !.cert = disk[booted].plan])
    /\ UNCHANGED <<running, faults>>

MarkNetwork ==
    /\ disk[booted].plan # 0
    /\ ServiceStep("configured", "run", [disk[booted] EXCEPT !.done = @ \cup {"network"}])
    /\ UNCHANGED <<running, faults>>

MarkRecert ==
    /\ disk[booted].plan # 0
    /\ ServiceStep("rewritten", "recerted", [disk[booted] EXCEPT !.done = @ \cup {"recert"}])
    /\ UNCHANGED <<running, faults>>

\* The stat of a marker fails with another error than that it does not exist:
\* RunOnce takes the step for done.
RunOnceSkips ==
    /\ FirstFault
    /\ faults' = [faults EXCEPT !["stat"] = 1]
    /\ \/ "network" \notin disk[booted].done /\ ServiceStep("run", "unconfigured", disk[booted])
       \/ /\ NetworkPast /\ "recert" \notin disk[booted].done
          /\ ServiceStep(service, "recerted", disk[booted])
    /\ UNCHANGED running

enableAndStartKubelet ==
    /\ RecertPast
    /\ ServiceStep(service, "started", [disk[booted] EXCEPT !.kubelet = TRUE])
    /\ running' = TRUE
    /\ UNCHANGED faults

\* The API answers: the service has done its work.
disableIPConfigurationService ==
    /\ ServiceStep("started", "run", [disk[booted] EXCEPT !.service = FALSE])
    /\ UNCHANGED <<running, faults>>

\* A step fails: roll back, if the configuration of that is there, or be
\* restarted by systemd.  Only the ones before kubelet is started, and only with
\* a rollback, may fail without bound.
PostPivotServiceFails ==
    /\ service \in ServiceSteps
    /\ \E to \in {"run", "rollback"} :
          /\ to = "rollback" <=> AutoRollback /\ disk[booted].auto
          /\ ServiceStep(service, to, disk[booted])
          /\ IF to = "rollback" /\ ~running THEN UNCHANGED faults ELSE Fault
    /\ UNCHANGED running

IPConfigurationService ==
    \/ applyNetworkConfiguration
    \/ MarkNetwork
    \/ runRecert
    \/ MarkRecert
    \/ RunOnceSkips
    \/ enableAndStartKubelet
    \/ disableIPConfigurationService
    \/ PostPivotServiceFails

-----------------------------------------------------------------------------
(* InitiateRollback of IPCRebootClient, by the service or the init monitor. *)

\* who: the state of the initiator; a failed attempt ends the process.
Initiator(who) ==
    CASE who = "service" -> service
      [] who = "monitor" -> disk[booted].monitor

SetInitiator(who, state) ==
    \/ who = "service" /\ service' = state /\ UNCHANGED disk
    \/ who = "monitor" /\ disk' = [disk EXCEPT ![booted].monitor = state] /\ UNCHANGED service

RollbackSetDefault(who) ==
    /\ Initiator(who) \in {"rollback", "fired"}
    /\ SetDefaultFeature
    /\ isUnbootedStaterootAvailable
    /\ default' = UnbootedStateroot
    /\ SetInitiator(who, "switched")
    /\ UNCHANGED <<booted, deployed, storeVars, running, unit, target, opVars, envVars, faults>>

\* The saved CR of the old stateroot is marked failed, then the node reboots.
RollbackReboot(who) ==
    /\ Initiator(who) = "switched"
    /\ isUnbootedStaterootAvailable
    /\ LET old == UnbootedStateroot IN
       /\ Exists(file[old])
       /\ file' = [file EXCEPT ![old].conds = SetIPStatusEnded(@, "Config", "Failed")]
    /\ RebootInto(default)
    /\ UNCHANGED <<default, cr, faults>>

\* No set-default, no stateroot to go back to, or no saved CR there: the
\* monitor ends and is disabled, the service is restarted.
RollbackError(who) ==
    /\ \/ Initiator(who) \in {"rollback", "fired"} /\ ~(SetDefaultFeature /\ isUnbootedStaterootAvailable)
       \/ /\ Initiator(who) = "switched"
          /\ isUnbootedStaterootAvailable => ~Exists(file[UnbootedStateroot])
    /\ SetInitiator(who, IF who = "service" THEN "run" ELSE "off")
    /\ UNCHANGED <<booted, default, deployed, storeVars, running, unit, target, opVars, envVars, faults>>

InitiateRollback(who) == RollbackSetDefault(who) \/ RollbackReboot(who) \/ RollbackError(who)

\* The timeout of the init monitor passes.
MonitorFire ==
    /\ disk[booted].monitor = "armed"
    /\ AutoRollback
    /\ SetInitiator("monitor", "fired")
    /\ UNCHANGED <<booted, default, deployed, storeVars, running, unit, target, opVars, envVars, faults>>

HostUnits ==
    \/ PrePivotUnit
    \/ IPConfigurationService
    \/ InitiateRollback("service")
    \/ InitiateRollback("monitor")
    \/ MonitorFire

-----------------------------------------------------------------------------
(* The Rollback stage. *)

\* validateRollbackStart: there must be a stateroot to go back to.
EnterRollback ==
    /\ Handling("Rollback") /\ Requested /\ Valid
    /\ IF isUnbootedStaterootAvailable
         THEN UpdateIPCStatus([ipc EXCEPT !.conds =
                  SetIPStatusInProgress(ClearIPInvalidTransitionStatusConditions(@), "Rollback")],
                  "rollback", FALSE)
         ELSE UpdateIPCStatus(Ended("Rollback", "Failed"), "final", FALSE)
    /\ UNCHANGED <<hostVars, file, unitVars, envVars>>

InRollback == InStage("Rollback", "rollback")

\* Mutant: the CR is not carried over.
SaveIPConfigForRollback_unsaved ==
    /\ InRollback
    /\ isTargetStaterootBooted(ipc)
    /\ isUnbootedStaterootAvailable
    /\ pc' = "rollbackSaved"
    /\ UNCHANGED <<hostVars, storeVars, unitVars, up, ipc, fresh, queued, envVars, faults>>

SaveIPConfigForRollback ==
    /\ InRollback
    /\ isTargetStaterootBooted(ipc)
    /\ isUnbootedStaterootAvailable
    /\ file' = [file EXCEPT ![UnbootedStateroot] = ipc]
    /\ pc' = "rollbackSaved"
    /\ UNCHANGED <<hostVars, cr, unitVars, up, ipc, fresh, queued, envVars, faults>>

\* lca-cli ip-config rollback: set-default where there is one, and reboot.
scheduleIPConfigRollback ==
    /\ pc = "rollbackSaved"
    /\ isUnbootedStaterootAvailable
    /\ default' = IF SetDefaultFeature THEN UnbootedStateroot ELSE default
    /\ RebootInto(default')
    /\ UNCHANGED <<storeVars, faults>>

\* One of the calls fails.
RollbackPrePivotFailed ==
    /\ (InRollback /\ isTargetStaterootBooted(ipc)) \/ pc = "rollbackSaved"
    /\ UpdateIPCStatus(Ended("Rollback", "Failed"), "final", TRUE)
    /\ UNCHANGED <<hostVars, file, unitVars, envVars>>

\* The cluster is not healthy.
RollbackPostPivotWait ==
    /\ InRollback
    /\ ~isTargetStaterootBooted(ipc)
    /\ UpdateIPCStatus(ipc, "final", TRUE)
    /\ UNCHANGED <<hostVars, file, unitVars, envVars>>

RollbackPostPivotComplete ==
    /\ InRollback
    /\ ~isTargetStaterootBooted(ipc)
    /\ UpdateIPCStatus(Ended("Rollback", "Completed"), "final", FALSE)
    /\ UNCHANGED <<hostVars, file, unitVars, envVars>>

handleRollback ==
    \/ EnterRollback
    \/ SaveIPConfigForRollback
    \/ scheduleIPConfigRollback
    \/ RollbackPrePivotFailed
    \/ RollbackPostPivotWait
    \/ RollbackPostPivotComplete

-----------------------------------------------------------------------------
(* The Idle stage. *)

\* The annotation is removed and the cleanup retried.
handleManualCleanup ==
    /\ pc = "handle" /\ ipc.stage = "Idle" /\ ipc.cleaned
    /\ IF fresh
         THEN /\ ipc' = [ipc EXCEPT !.cleaned = FALSE,
                                    !.conds = SetIPCondition(@, "Idle", "InProgress")]
              /\ cr' = [cr EXCEPT ![booted] = ipc']
              /\ UNCHANGED pc
         ELSE pc' = "final" /\ UNCHANGED <<ipc, cr>>
    /\ queued' = TRUE
    /\ UNCHANGED <<hostVars, file, unitVars, up, fresh, envVars, faults>>

EnterIdle ==
    /\ Handling("Idle") /\ Requested /\ Valid
    /\ UpdateIPCStatus([ipc EXCEPT !.conds =
           SetIPCondition(ClearIPInvalidTransitionStatusConditions(@), "Idle", "InProgress")],
           "cleanup", FALSE)
    /\ UNCHANGED <<hostVars, file, unitVars, envVars>>

CleaningUp == InStage("Idle", "cleanup")

\* The cluster is not healthy.
IdleWait ==
    /\ CleaningUp
    /\ UpdateIPCStatus(ipc, "final", TRUE)
    /\ UNCHANGED <<hostVars, file, unitVars, envVars>>

Without(f, gone, none) == [s \in Stateroot |-> IF s \in gone THEN none ELSE f[s]]

\* The stateroots in gone are undeployed and deleted; the default goes to the
\* booted one when it was among them.  keep: the workspace is not removed.
cleanup(gone, keep) ==
    /\ deployed' = deployed \ gone
    /\ default' = IF default \in gone THEN booted ELSE default
    /\ disk' = [Without(disk, gone, EmptyDisk) EXCEPT
                   ![booted].auto = IF keep THEN @ ELSE FALSE,
                   ![booted].plan = IF keep THEN @ ELSE 0,
                   ![booted].done = IF keep THEN @ ELSE {}]
    /\ file' = Without(file, gone, NoCR)
    /\ UNCHANGED booted

\* Of the other stateroots nothing is left, not even a CR; the update below
\* writes that of the booted one.
CleanupUpdate(gone, x, requeue) ==
    /\ ipc' = x
    /\ \/ /\ fresh
          /\ cr' = [Without(cr, gone, NoCR) EXCEPT ![booted] = x]
          /\ queued' = (queued \/ requeue)
          /\ UNCHANGED faults
       \/ /\ IF fresh THEN Fault ELSE UNCHANGED faults
          /\ cr' = Without(cr, gone, NoCR)
          /\ queued' = TRUE
    /\ pc' = "final"
    /\ UNCHANGED <<up, fresh>>

\* Mutant: the unbooted stateroots stay.
CleanupDone_stateroots ==
    /\ CleaningUp
    /\ cleanup({}, FALSE)
    /\ CleanupUpdate({}, [ipc EXCEPT !.conds = ResetIPStatusConditions], FALSE)
    /\ UNCHANGED <<unitVars, envVars>>

\* ipc.json is not in the workspace and stays.
CleanupDone ==
    /\ CleaningUp
    /\ cleanup(Stateroot \ {booted}, FALSE)
    /\ CleanupUpdate(Stateroot \ {booted},
                     [ipc EXCEPT !.conds = ResetIPStatusConditions], FALSE)
    /\ UNCHANGED <<unitVars, envVars>>

\* Any of the stateroots, or the workspace, is left.
CleanupFailed ==
    /\ CleaningUp
    /\ \E gone \in SUBSET (deployed \ {booted}) :
          /\ cleanup(gone, TRUE)
          /\ CleanupUpdate(gone, [ipc EXCEPT !.conds = SetIPCondition(@, "Idle", "Failed")], TRUE)
    /\ UNCHANGED <<unitVars, envVars>>

handleIdle ==
    \/ handleManualCleanup
    \/ EnterIdle
    \/ IdleWait
    \/ CleanupDone
    \/ CleanupFailed

-----------------------------------------------------------------------------
(* The user, and faults. *)

\* The CR of the running cluster is changed behind the reconcile's back.
EditCR(x) ==
    /\ running
    /\ EditAllowed
    /\ edits' = edits + 1
    /\ cr' = [cr EXCEPT ![booted] = x]
    /\ fresh' = FALSE
    /\ queued' = up
    /\ UNCHANGED <<hostVars, file, unitVars, up, pc, ipc, deleted, faults>>

\* The validation rules of the CRD.
specChangeAdmitted(x, stage, net) ==
    \/ x.conds = NoIPConditions /\ x.next = {}
    \/ /\ stage \in x.next \/ stage = x.stage
       /\ net = x.net \/ IPIsTrue(x.conds, "Idle")

SetSpec(stage, net) ==
    LET x == cr[booted] IN
    /\ Exists(x)
    /\ stage # x.stage \/ net # x.net
    /\ specChangeAdmitted(x, stage, net)
    /\ EditCR([x EXCEPT !.stage = stage, !.net = net])

AddManualCleanup ==
    /\ cr[booted].conds["Idle"] = "Failed"
    /\ ~cr[booted].cleaned
    /\ EditCR([cr[booted] EXCEPT !.cleaned = TRUE])

\* An annotation that asks for a reconcile.
TriggerReconcile ==
    /\ Exists(cr[booted])
    /\ ~queued \/ fresh
    /\ EditCR(cr[booted])

DeleteCR ==
    /\ running
    /\ Exists(cr[booted])
    /\ EditAllowed /\ edits' = edits + 1
    /\ FirstFault
    /\ faults' = [faults EXCEPT !["delete"] = 1]
    /\ deleted' = IF up THEN cr[booted] ELSE NoCR
    /\ cr' = [cr EXCEPT ![booted] = NoCR]
    /\ fresh' = FALSE
    /\ UNCHANGED <<hostVars, file, unitVars, up, pc, ipc, queued>>

\* The watch sees the deletion: the CR is saved to be restored, or the saved one
\* dropped.
DeleteFunc ==
    /\ up
    /\ Exists(deleted)
    /\ file' = [file EXCEPT ![booted] =
           IF IsIPStageCompleted(deleted.conds, "Idle") \/ IsIPStageFailed(deleted.conds, "Rollback")
              THEN NoCR ELSE deleted]
    /\ deleted' = NoCR
    /\ queued' = TRUE
    /\ UNCHANGED <<hostVars, cr, unitVars, up, pc, ipc, fresh, edits, faults>>

User ==
    \/ \E stage \in IPStages, net \in Stateroot : SetSpec(stage, net)
    \/ AddManualCleanup
    \/ TriggerReconcile
    \/ DeleteCR

\* The operator's pod dies and is started again; the units of the host go on.
OperatorCrash ==
    /\ up \/ pc # "idle"
    /\ FaultAllowed /\ faults["operator"] = 0
    /\ faults' = [faults EXCEPT !["operator"] = 1]
    /\ OperatorGone
    /\ UNCHANGED <<hostVars, storeVars, unitVars, edits>>

\* The node goes down hard: an enabled init monitor starts anew with its
\* stateroot, and ends if its configuration is gone.  It comes up in the default deployment, or the user picks at the
\* boot menu a stateroot that has run a cluster before.
NodeCrash ==
    /\ Fault
    /\ \E s \in deployed :
          /\ s = default \/ disk[s].kubelet
          /\ BootInto(s, [disk EXCEPT ![booted].monitor = IF disk[booted].auto THEN Restarted(@) ELSE "off"])
    /\ UNCHANGED <<default, storeVars>>

-----------------------------------------------------------------------------

Operator ==
    \/ InitIPConfig
    \/ Reconcile
    \/ RefuseTransition
    \/ HandleNothing
    \/ ReconcileFinal
    \/ handleConfig
    \/ handleRollback
    \/ handleIdle
    \/ DeleteFunc

Next == Operator \/ HostUnits \/ User \/ OperatorCrash \/ NodeCrash

Spec == Init /\ [][Next]_vars

\* The operator, the units and the timer of the monitor keep running.
FairSpec ==
    /\ Spec
    /\ WF_vars(Operator)
    /\ WF_vars(PrePivotUnit)
    /\ WF_vars(IPConfigurationService)
    /\ WF_vars(InitiateRollback("service"))
    /\ WF_vars(InitiateRollback("monitor"))
    /\ WF_vars(MonitorFire)

-----------------------------------------------------------------------------
(* Correctness. *)

Current == cr[booted]
Configuring == IsIPStageInProgress(Current.conds, "Config")

\* The booted deployment and the one the next boot takes both exist (cleanup,
\* setDefaultDeploymentIfEnabled, InitiateRollback).
BootableHost == {booted, default} \subseteq deployed

\* What the network of the cluster and the reports of the CR can be relied on
\* under: the operator's pod does not die, and no stat of a RunOnce marker fails
\* otherwise than because there is none.  An operator that is started again
\* while the pre-pivot unit goes on restores a failed CR and may clean up, and
\* take a new network, under the unit's feet.  A marker that cannot be read makes
\* RunOnce skip its step: kubelet starts on the certificates of the old network,
\* or on the old network.
Tolerated == faults["operator"] = 0 /\ faults["stat"] = 0

\* The cluster never runs on a network that recert has not rewritten it for,
\* however often the node dies on the way, between a RunOnce step and its marker
\* too: kubelet stays disabled in the copied /etc until both steps are marked,
\* and no marker of an earlier change is copied along with /var
\* (StopClusterServices, RunOnce, cleanupLCAWorkspace).
ClusterMatchesNetwork == Tolerated /\ running => disk[booted].cert = disk[booted].net

\* A Config is reported completed only where the node has the network of the
\* spec (PrePivot, PostPivot and the CR that a pivot or a rollback carries over).
CompletedApplied ==
    Tolerated /\ Current.stage = "Config" /\ IsIPStageCompleted(Current.conds, "Config")
        => Current.net \in {0, disk[booted].net}

\* When the CR says Idle nothing of an IP change is left on the host: no other
\* stateroot, no unit at work and no RunOnce marker (the Idle handler).
IdleIsClean ==
    Tolerated /\ IPIsTrue(Current.conds, "Idle") => deployed = {booted} /\ unit = "none" /\ disk[booted].done = {}

\* What the CR reports is true of the node, for a completed Config and for Idle
\* (PostPivot, the Idle handler).
StatusTrue == CompletedApplied /\ IdleIsClean

\* The old stateroot never takes up again a Config whose new stateroot has
\* run: however the node came back, its CR says it failed or is rolled back
\* (exportIPConfigForUncontrolledRollback, InitiateRollback, InitIPConfig).
NoConfigLoop ==
    Tolerated /\ up /\ Configuring /\ Current.stage = "Config"
        => disk[Current.net].done = {} \/ Current.net = booted

\* A rollback that the user asked for lands in another stateroot that knows of
\* it, whatever the init monitor does meanwhile (PrePivot of the rollback).
RollbackCarried ==
    [][pc = "rollbackSaved" /\ ~up' /\ faults' = faults
           => /\ booted' # booted
              /\ file'[booted'].stage = "Rollback"
              /\ IsIPStageInProgress(file'[booted'].conds, "Rollback")]_vars

\* A stopped cluster comes back: in the new stateroot or, by an automatic
\* rollback, in the old one; provided that nothing fails and that no change is
\* started while the monitor or the service of an earlier one is still at work.
ClusterComesBack ==
    []((\A k \in FaultKinds : faults[k] = 0) /\ (unit # "none" => disk[booted].monitor = "off" /\ service = "run"))
        => (~running ~> running)
=============================================================================
