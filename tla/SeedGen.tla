------------------------------- MODULE SeedGen -------------------------------
(***************************************************************************)
(* The generation of a seed image: the SeedGenerator reconciler, which     *)
(* strips the cluster of what the image must not hold, the imager          *)
(* (lca-cli create), a host unit that stops the cluster, archives it,      *)
(* pushes the image and brings the cluster back, and initSeedGen, which    *)
(* picks the generation up again when the operator restarts.               *)
(*                                                                         *)
(* The cluster's objects are the SeedGenerator CR with its status, the IBU *)
(* and IPConfig CRs, the seedgen secret and the pull-secret, which MCO     *)
(* copies to a file of the host; the objects of ACM and the old machine    *)
(* configs that are cleaned away are left out.                             *)
(***************************************************************************)
EXTENDS Integers

CONSTANTS
    FaultKinds,     \* of AllKinds: what may fail or stop
    MaxFaults,      \* bound on failing steps and crashes
    MaxCRs          \* bound on the CRs the user creates

\* A step, an update of the CR's status, a step of the operator's start, the
\* replacement of the pull-secret, a look at the imager's marks or their removal,
\* the operator, the node's power.
AllKinds == {"step", "status", "start", "pull", "marks", "operator", "power"}

ASSUME FaultKindsAssumption == FaultKinds \subseteq AllKinds
ASSUME BoundsAssumption == MaxFaults \in Nat /\ MaxCRs \in Nat

VARIABLES
    op,         \* where the operator is
    queued,     \* a reconcile of the CR is due
    cr,         \* the status of the SeedGenerator CR
    ibu, ipc,   \* the IBU CR and the IPConfig CR exist
    secret,     \* the seedgen secret exists
    pull,       \* the pull-secret of the cluster
    auth,       \* the host's file of it, which MCO writes
    skip,       \* the operator runs with its recert skipped
    files,      \* what the workspace holds: the two CRs and the pull-secret
    container,  \* the imager's container, as podman inspect shows it
    imager,     \* where the imager is
    rc,         \* what the imager will exit with; "manual" for lca-cli restore
    kubelet,    \* [enabled, up]: the cluster runs when it is up
    crypto,     \* the certificates of the cluster
    done,       \* the .done marks of the imager's steps
    backup,     \* what the directory of the image to be holds
    image,      \* what was pushed for this CR
    faults, crs

opVars == <<op, queued>>
apiVars == <<cr, ibu, ipc, secret, pull>>
hostVars == <<imager, rc, kubelet, crypto, done, backup, image>>
vars == <<opVars, apiVars, auth, skip, files, container, hostVars, faults, crs>>

Statuses == {"None", "Initial", "InProgress", "Launching", "Finalizing", "Completed", "Failed"}
InitSteps == {"start", "init", "initSecret", "initCR", "initStatus", "initRenameCR",
              "initRenameSecret", "initPull", "initIPC"}
GenSteps == {"health", "setup", "recertImage", "saveSecret", "savePull", "cleanup", "sanitize",
             "sanitizeWait", "machineConfigs", "launchStatus", "saveCR", "deleteSecret", "deleteCR",
             "deleteIBU", "launch"}
ImagerSteps == {"none", "collect", "stop", "recert", "mark", "backup", "push",
                "restoreCrypto", "removeFolders", "restoreKubelet", "exit"}
Marks == {"info", "recert", "var"}
Contents == [cr : BOOLEAN, ibu : BOOLEAN, ipc : BOOLEAN, secret : BOOLEAN, pull : {"real", "empty"},
             auth : {"real", "empty"}, crypto : {"original", "expired"}]
NoImage == [info |-> FALSE]
Bare == [info |-> TRUE]         \* the cluster info without the archive of /var
NoFiles == [cr |-> FALSE, secret |-> FALSE, pull |-> "none"]

TypeOK ==
    /\ op \in {"down", "idle", "waiting", "finish"} \cup InitSteps \cup GenSteps
    /\ cr \in Statuses
    /\ {queued, ibu, ipc, secret, skip} \subseteq BOOLEAN
    /\ pull \in {"real", "empty"} /\ auth \in {"real", "empty"}
    /\ files \in [cr : BOOLEAN, secret : BOOLEAN, pull : {"none", "real", "empty"}]
    /\ container \in {"none", "created", "running", "ok", "failed"}
    /\ imager \in ImagerSteps /\ rc \in {"ok", "failed", "manual"}
    /\ kubelet \in [enabled : BOOLEAN, up : BOOLEAN]
    /\ crypto \in {"original", "expired"} /\ done \subseteq Marks
    /\ backup \in Contents \cup {NoImage, Bare} /\ image \in Contents \cup {NoImage, Bare}
    /\ faults \in [AllKinds -> 0 .. MaxFaults] /\ crs \in 0 .. MaxCRs

Init ==
    /\ op = "start" /\ queued = FALSE
    /\ cr = "None" /\ ibu = FALSE /\ ipc = FALSE /\ secret = FALSE
    /\ pull = "real" /\ auth = "real" /\ skip \in BOOLEAN
    /\ files = NoFiles
    /\ container = "none" /\ imager = "none" /\ rc = "ok"
    /\ kubelet = [enabled |-> TRUE, up |-> TRUE]
    /\ crypto = "original" /\ done = {}
    /\ backup = NoImage /\ image = NoImage
    /\ faults = [k \in AllKinds |-> 0] /\ crs = 0

MayFail(kind, f) ==
    /\ kind \in FaultKinds
    /\ f["step"] + f["status"] + f["start"] + f["pull"] + f["marks"] + f["operator"] + f["power"] < MaxFaults
FaultOf(kind) == MayFail(kind, faults) /\ faults' = [faults EXCEPT ![kind] = @ + 1]
Fault == FaultOf("step")

-----------------------------------------------------------------------------
(* The start of the operator: InitIBU, initSeedGen, InitIPConfig.  When one  *)
(* of their calls fails the program exits and kubelet starts it again.       *)

OperatorStart ==
    /\ op = "down" /\ kubelet.up
    /\ op' = "start"
    /\ UNCHANGED <<queued, apiVars, auth, skip, files, container, hostVars, faults, crs>>

InitIBU ==
    /\ op = "start"
    /\ ibu' = TRUE
    /\ op' = "init"
    /\ UNCHANGED <<queued, cr, ipc, secret, pull, auth, skip, files, container, hostVars, faults, crs>>

\* Both files, or neither; with one of them main exits.
initSeedGen ==
    /\ op = "init"
    /\ op' = CASE files.cr /\ files.secret   -> "initSecret"
               [] ~files.cr /\ ~files.secret -> "initIPC"
               [] OTHER                      -> "down"
    /\ UNCHANGED <<queued, apiVars, auth, skip, files, container, hostVars, faults, crs>>

initSecret ==
    /\ op = "initSecret"
    /\ secret' = TRUE
    /\ op' = "initCR"
    /\ UNCHANGED <<queued, cr, ibu, ipc, pull, auth, skip, files, container, hostVars, faults, crs>>

\* The status is lost by the creation and written by a call of its own.
initCR ==
    \/ /\ op = "initCR"
       /\ cr' = "Initial"
       /\ op' = "initStatus"
       /\ UNCHANGED <<queued, ibu, ipc, secret, pull, auth, skip, files, container, hostVars, faults, crs>>
    \/ /\ op = "initStatus"
       /\ cr' = "Launching"
       /\ op' = "initRenameCR"
       /\ UNCHANGED <<queued, ibu, ipc, secret, pull, auth, skip, files, container, hostVars, faults, crs>>

initRename ==
    \/ /\ op = "initRenameCR"
       /\ files' = [files EXCEPT !.cr = FALSE]
       /\ op' = "initRenameSecret"
       /\ UNCHANGED <<queued, apiVars, auth, skip, container, hostVars, faults, crs>>
    \/ /\ op = "initRenameSecret"
       /\ files' = [files EXCEPT !.secret = FALSE]
       /\ op' = "initPull"
       /\ UNCHANGED <<queued, apiVars, auth, skip, container, hostVars, faults, crs>>

initPull ==
    /\ op = "initPull"
    /\ op' = IF files.pull = "none" THEN "down" ELSE "initIPC"
    /\ pull' = IF files.pull = "none" THEN pull ELSE files.pull
    /\ UNCHANGED <<queued, cr, ibu, ipc, secret, auth, skip, files, container, hostVars, faults, crs>>

InitIPConfig ==
    /\ op = "initIPC"
    /\ ipc' = TRUE
    /\ op' = "idle"
    /\ queued' = (cr # "None")
    /\ UNCHANGED <<cr, ibu, secret, pull, auth, skip, files, container, hostVars, faults, crs>>

\* An object is deleted before it is created again.
StartFails ==
    /\ op \in InitSteps \ {"initPull"} /\ FaultOf("start")
    /\ op' = "down"
    /\ secret' \in {secret} \cup (IF op = "initSecret" THEN {FALSE} ELSE {})
    /\ cr' \in {cr} \cup (IF op = "initCR" THEN {"None"} ELSE {})
    /\ UNCHANGED <<queued, ibu, ipc, pull, auth, skip, files, container, hostVars, crs>>

\* The two CRs have no file any more: the next start has nothing to do.
initPullFails ==
    /\ op = "initPull" /\ FaultOf("pull")
    /\ op' = "down"
    /\ UNCHANGED <<queued, apiVars, auth, skip, files, container, hostVars, crs>>

-----------------------------------------------------------------------------
(* Reconcile. *)

\* The status update at the end of a reconcile, an error of which is logged.
StoreStatus(status) ==
    \/ cr' = status /\ UNCHANGED faults
    \/ FaultOf("status") /\ UNCHANGED cr

getPhase ==
    CASE cr = "None"                       -> "absent"
      [] cr = "Initial"                    -> "initial"
      [] cr = "Launching"                  -> "finalizing"
      [] cr \in {"Completed", "Failed"}    -> "ended"
      [] cr \in {"InProgress", "Finalizing"} -> "generating"

\* validateSystem refuses a pull-secret that was sanitized before, as the host's
\* file has it, and may refuse for other reasons; a file that cannot be read passes.
ReconcileInitial_noRequeue ==
    /\ op = "idle" /\ queued /\ getPhase = "initial"
    /\ queued' = FALSE
    /\ \/ StoreStatus("Failed")
       \/ auth = "real" /\ StoreStatus("InProgress")
       \/ FaultOf("pull") /\ cr' = "InProgress"
    /\ UNCHANGED <<op, ibu, ipc, secret, pull, auth, skip, files, container, hostVars, crs>>

ReconcileInitial ==
    /\ op = "idle" /\ queued /\ getPhase = "initial"
    /\ \/ StoreStatus("Failed") /\ queued' = FALSE
       \/ auth = "real" /\ StoreStatus("InProgress") /\ UNCHANGED queued
       \/ FaultOf("pull") /\ cr' = "InProgress" /\ UNCHANGED queued
    /\ UNCHANGED <<op, ibu, ipc, secret, pull, auth, skip, files, container, hostVars, crs>>

ReconcileEnded ==
    /\ op = "idle" /\ queued /\ getPhase \in {"absent", "ended"}
    /\ queued' = FALSE
    /\ UNCHANGED <<op, apiVars, auth, skip, files, container, hostVars, faults, crs>>

ReconcileGenerating ==
    /\ op = "idle" /\ queued /\ getPhase = "generating"
    /\ op' = "health"
    /\ queued' = FALSE
    /\ UNCHANGED <<apiVars, auth, skip, files, container, hostVars, faults, crs>>

ReconcileFinalizing ==
    /\ op = "idle" /\ queued /\ getPhase = "finalizing"
    /\ op' = "finish"
    /\ queued' = FALSE
    /\ StoreStatus("Finalizing")
    /\ UNCHANGED <<ibu, ipc, secret, pull, auth, skip, files, container, hostVars, crs>>

\* checkImagerStatus, then the workspace is wiped.
finishSeedgen_anyExit ==
    /\ op = "finish"
    /\ op' = "idle"
    /\ files' = NoFiles
    /\ StoreStatus(IF container \in {"ok", "failed"} THEN "Completed" ELSE "Failed")
    /\ UNCHANGED <<queued, ibu, ipc, secret, pull, auth, skip, container, hostVars, crs>>

finishSeedgen ==
    /\ op = "finish"
    /\ op' = "idle"
    /\ files' = IF container = "ok" THEN NoFiles ELSE files
    /\ StoreStatus(IF container = "ok" THEN "Completed" ELSE "Failed")
    /\ UNCHANGED <<queued, ibu, ipc, secret, pull, auth, skip, container, hostVars, crs>>

\* The IBU controller recreates its CR once the reconcile has given up the lock.
ReconcileIBU ==
    /\ op = "idle" /\ ~ibu
    /\ ibu' = TRUE
    /\ UNCHANGED <<opVars, cr, ipc, secret, pull, auth, skip, files, container, hostVars, faults, crs>>

-----------------------------------------------------------------------------
(* generateSeedImage *)

GenStep(from, to) == op = from /\ op' = to

\* Without a healthy cluster the reconcile comes back later.
HealthChecks ==
    \/ /\ GenStep("health", "setup")
       /\ cr' = "InProgress"
       /\ UNCHANGED <<queued, ibu, ipc, secret, pull, auth, skip, files, container, hostVars, faults, crs>>
    \/ /\ GenStep("health", "idle")
       /\ queued' = TRUE
       /\ StoreStatus("InProgress")
       /\ UNCHANGED <<ibu, ipc, secret, pull, auth, skip, files, container, hostVars, crs>>

setupWorkspace ==
    /\ GenStep("setup", "recertImage")
    /\ files' = NoFiles
    /\ container' = "none"
    /\ UNCHANGED <<queued, apiVars, auth, skip, hostVars, faults, crs>>

pullRecertImagePullSpec ==
    /\ GenStep("recertImage", "saveSecret")
    /\ UNCHANGED <<queued, apiVars, auth, skip, files, container, hostVars, faults, crs>>

SaveSecrets ==
    \/ /\ GenStep("saveSecret", "savePull")
       /\ secret
       /\ files' = [files EXCEPT !.secret = TRUE]
       /\ UNCHANGED <<queued, apiVars, auth, skip, container, hostVars, faults, crs>>
    \/ /\ GenStep("savePull", "cleanup")
       /\ files' = [files EXCEPT !.pull = pull]
       /\ UNCHANGED <<queued, apiVars, auth, skip, container, hostVars, faults, crs>>

cleanupClusterResources ==
    /\ GenStep("cleanup", "sanitize")
    /\ UNCHANGED <<queued, apiVars, auth, skip, files, container, hostVars, faults, crs>>

\* waitForPullSecretOverride
Sanitize_noWait ==
    \/ /\ GenStep("sanitize", "sanitizeWait")
       /\ pull' = "empty"
       /\ UNCHANGED <<queued, cr, ibu, ipc, secret, auth, skip, files, container, hostVars, faults, crs>>
    \/ /\ GenStep("sanitizeWait", "machineConfigs")
       /\ UNCHANGED <<queued, apiVars, auth, skip, files, container, hostVars, faults, crs>>

Sanitize ==
    \/ /\ GenStep("sanitize", "sanitizeWait")
       /\ pull' = "empty"
       /\ UNCHANGED <<queued, cr, ibu, ipc, secret, auth, skip, files, container, hostVars, faults, crs>>
    \/ /\ GenStep("sanitizeWait", "machineConfigs")
       /\ auth = pull
       /\ UNCHANGED <<queued, apiVars, auth, skip, files, container, hostVars, faults, crs>>

\* MCO writes the pull-secret to the host.
MCOSync ==
    /\ kubelet.up /\ auth # pull
    /\ auth' = pull
    /\ UNCHANGED <<opVars, apiVars, skip, files, container, hostVars, faults, crs>>

cleanupOldRenderedMachineConfigs ==
    /\ GenStep("machineConfigs", "launchStatus")
    /\ UNCHANGED <<queued, apiVars, auth, skip, files, container, hostVars, faults, crs>>

SaveCR ==
    \/ /\ GenStep("launchStatus", "saveCR")
       /\ cr' = "Launching"
       /\ UNCHANGED <<queued, ibu, ipc, secret, pull, auth, skip, files, container, hostVars, faults, crs>>
    \/ /\ GenStep("saveCR", "deleteSecret")
       /\ files' = [files EXCEPT !.cr = TRUE]
       /\ UNCHANGED <<queued, apiVars, auth, skip, container, hostVars, faults, crs>>

\* The IPConfig CR stays.
DeleteCRs ==
    \/ /\ GenStep("deleteSecret", "deleteCR")
       /\ secret' = FALSE
       /\ UNCHANGED <<queued, cr, ibu, ipc, pull, auth, skip, files, container, hostVars, faults, crs>>
    \/ /\ GenStep("deleteCR", "deleteIBU")
       /\ cr' = "None"
       /\ UNCHANGED <<queued, ibu, ipc, secret, pull, auth, skip, files, container, hostVars, faults, crs>>
    \/ /\ GenStep("deleteIBU", "launch")
       /\ ibu' = FALSE
       /\ UNCHANGED <<queued, cr, ipc, secret, pull, auth, skip, files, container, hostVars, faults, crs>>

\* A transient unit of the host, for which the reconcile waits.
launchImager ==
    /\ GenStep("launch", "waiting")
    /\ imager = "none"
    /\ container' = "running"
    /\ imager' = "collect"
    /\ rc' = "ok"
    /\ UNCHANGED <<queued, apiVars, auth, skip, files, kubelet, crypto, done, backup, image, faults, crs>>

\* What the deferred functions put back.
sanitized == op \in {"machineConfigs", "launchStatus", "saveCR", "deleteSecret", "deleteCR",
                     "deleteIBU", "launch", "waiting"}
secretDeleted == op \in {"deleteCR", "deleteIBU", "launch", "waiting"}
crDeleted == op \in {"deleteIBU", "launch", "waiting"}

RestoreDeferred ==
    /\ pull' = IF sanitized THEN files.pull ELSE pull
    /\ secret' = (secret \/ secretDeleted)

\* The update of the pull-secret fails and waitForPullSecretOverride uses the
\* secret it did not get: the reconcile panics, controller-runtime recovers and
\* comes back.  The functions deferred later have run.
Panics(failed) ==
    /\ MayFail("pull", failed) /\ faults' = [failed EXCEPT !["pull"] = @ + 1]
    /\ op' = "idle" /\ queued' = TRUE
    /\ secret' = (secret \/ secretDeleted)
    /\ cr' = IF crDeleted THEN "Failed" ELSE cr
    /\ UNCHANGED <<ibu, ipc, pull, auth, skip, files, container, hostVars, crs>>

\* A step fails: the reconcile ends with the status Failed, unless that update
\* fails too, and an empty workspace.
GenerateFails(failed) ==
    /\ op' = "idle"
    /\ RestoreDeferred
    /\ \/ cr' = "Failed" /\ faults' = failed
       \/ /\ MayFail("status", failed) /\ faults' = [failed EXCEPT !["status"] = @ + 1]
          /\ cr' = IF crDeleted THEN "Initial" ELSE cr
    /\ files' = NoFiles
    /\ queued' = (queued \/ crDeleted)
    /\ UNCHANGED <<ibu, ipc, auth, skip, container, hostVars, crs>>

\* The secret or the CR is not created again; the error is dropped.
DeferredFails(failed) ==
    /\ MayFail("step", failed) /\ faults' = [failed EXCEPT !["step"] = @ + 1]
    /\ op' = "idle"
    /\ pull' = files.pull
    /\ \/ secretDeleted /\ secret' = FALSE /\ cr' = "Failed"
       \/ crDeleted /\ secret' \in BOOLEAN /\ cr' = "None"
    /\ files' = NoFiles
    /\ queued' = (queued \/ (crDeleted /\ cr' # "None"))
    /\ UNCHANGED <<ibu, ipc, auth, skip, container, hostVars, crs>>

GenerateEnds(failed) ==
    \/ GenerateFails(failed)
    \/ DeferredFails(failed)
    \/ sanitized /\ Panics(failed)

GenFault ==
    /\ op \in GenSteps \ {"health", "sanitize", "sanitizeWait"} /\ MayFail("step", faults)
    /\ GenerateEnds([faults EXCEPT !["step"] = @ + 1])

\* The secret is not there.
NoSecret == op = "saveSecret" /\ ~secret /\ GenerateFails(faults)

\* The imager has ended and the pod is still there.
ImagerReturns == op = "waiting" /\ container # "running" /\ GenerateEnds(faults)

\* The pull-secret cannot be replaced; or it is, and MCO does not follow in time:
\* the deferred restoration is not in place yet.
SanitizeFails ==
    \/ op = "sanitize" /\ Panics(faults)
    \/ /\ op = "sanitizeWait" /\ MayFail("pull", faults)
       /\ GenerateFails([faults EXCEPT !["pull"] = @ + 1])

\* A status update fails on the way: the reconcile returns without an error and
\* is not queued again; the update at its end may come through.
StatusUpdateFails ==
    /\ op \in {"health", "recertImage", "saveSecret", "cleanup", "launchStatus"}
    /\ \/ /\ FaultOf("status")
          /\ op' = "idle"
          /\ RestoreDeferred
          /\ cr' \in {cr, IF op = "launchStatus" THEN "Launching" ELSE "InProgress"}
          /\ UNCHANGED <<queued, ibu, ipc, auth, skip, files, container, hostVars, crs>>
       \/ /\ sanitized /\ MayFail("status", faults)
          /\ Panics([faults EXCEPT !["status"] = @ + 1])

Generate ==
    \/ HealthChecks
    \/ setupWorkspace
    \/ pullRecertImagePullSpec
    \/ SaveSecrets
    \/ cleanupClusterResources
    \/ Sanitize
    \/ cleanupOldRenderedMachineConfigs
    \/ SaveCR
    \/ DeleteCRs
    \/ launchImager

-----------------------------------------------------------------------------
(* The imager: lca-cli create, which ends with the restoration of the       *)
(* cluster, and lca-cli restore, which is only that.                        *)

ImagerStep(from, to) == imager = from /\ imager' = to

\* A step fails and the restoration begins.
ImagerFails ==
    /\ imager \in {"collect", "stop", "recert", "mark", "backup", "push"}
    /\ Fault
    /\ imager' = "restoreCrypto"
    /\ rc' = "failed"
    /\ kubelet' \in {kubelet} \cup (IF imager = "stop" THEN {[kubelet EXCEPT !.enabled = FALSE]} ELSE {})
    /\ UNCHANGED <<opVars, apiVars, auth, skip, files, container, crypto, done, backup, image, crs>>

\* RunOnce: a step with its mark is skipped, and so is one whose mark cannot be
\* looked at.
Skips(mark) ==
    \/ mark \in done /\ UNCHANGED faults
    \/ FaultOf("marks")

\* The service units, the container list, the cluster info, the certificates.
Collect ==
    /\ ImagerStep("collect", "stop")
    /\ kubelet.up
    /\ \/ Skips("info") /\ UNCHANGED <<backup, done>>
       \/ /\ "info" \notin done /\ UNCHANGED faults
          /\ backup' = Bare
          /\ done' = done \cup {"info"}
    /\ UNCHANGED <<opVars, apiVars, auth, skip, files, container, rc, kubelet, crypto, image, crs>>

\* The operator's pod ends with the others.
StopClusterServices ==
    /\ ImagerStep("stop", "recert")
    /\ kubelet' = [enabled |-> FALSE, up |-> FALSE]
    /\ op' = "down"
    /\ queued' = FALSE
    /\ UNCHANGED <<apiVars, auth, skip, files, container, rc, crypto, done, backup, image, faults, crs>>

\* etcd is served without authentication and recert rewrites the certificates.
RecertFullFlow(certificates) == crypto' = certificates

ForceExpireSeedCrypto ==
    \/ /\ ImagerStep("recert", "mark")
       /\ ~skip /\ "recert" \notin done
       /\ RecertFullFlow("expired")
       /\ UNCHANGED <<opVars, apiVars, auth, skip, files, container, rc, kubelet, done, backup, image, faults, crs>>
    \/ /\ ImagerStep("recert", "backup")
       /\ (skip /\ UNCHANGED faults) \/ (~skip /\ Skips("recert"))
       /\ UNCHANGED <<opVars, apiVars, auth, skip, files, container, rc, kubelet, crypto, done, backup, image, crs>>
    \/ /\ ImagerStep("mark", "backup")
       /\ done' = done \cup {"recert"}
       /\ UNCHANGED <<opVars, apiVars, auth, skip, files, container, rc, kubelet, crypto, backup, image, faults, crs>>

\* What lies in /var: etcd with the objects, the host's pull-secret, the certificates.
Var == [cr |-> cr # "None", ibu |-> ibu, ipc |-> ipc, secret |-> secret, pull |-> pull,
        auth |-> auth, crypto |-> crypto]

backupVar ==
    /\ ImagerStep("backup", "push")
    /\ \/ Skips("var") /\ UNCHANGED <<backup, done>>
       \/ /\ "var" \notin done /\ UNCHANGED faults
          /\ backup' = Var
          /\ done' = done \cup {"var"}
    /\ UNCHANGED <<opVars, apiVars, auth, skip, files, container, rc, kubelet, crypto, image, crs>>

\* The cluster info is read from the directory and its file may be missing.
createAndPushSeedImage ==
    \/ /\ ImagerStep("push", "restoreCrypto")
       /\ backup # NoImage
       /\ image' = backup
       /\ UNCHANGED <<opVars, apiVars, auth, skip, files, container, rc, kubelet, crypto, done, backup, faults, crs>>
    \/ /\ ImagerStep("push", "restoreCrypto")
       /\ backup = NoImage
       /\ rc' = "failed"
       /\ UNCHANGED <<opVars, apiVars, auth, skip, files, container, kubelet, crypto, done, backup, image, faults, crs>>

\* The original certificates come back if recert is known to have run; a mark
\* that cannot be looked at counts as absent.
RestoreCrypto_unmarked ==
    /\ ImagerStep("restoreCrypto", "removeFolders")
    /\ UNCHANGED <<crypto, rc, faults>>
    /\ UNCHANGED <<opVars, apiVars, auth, skip, files, container, kubelet, done, backup, image, crs>>

RestoreCrypto ==
    /\ ImagerStep("restoreCrypto", "removeFolders")
    /\ \/ "recert" \in done /\ RecertFullFlow("original") /\ UNCHANGED <<rc, faults>>
       \/ "recert" \notin done /\ UNCHANGED <<crypto, rc, faults>>
       \/ "recert" \in done /\ Fault /\ rc' = "failed" /\ UNCHANGED crypto
       \/ "recert" \in done /\ FaultOf("marks") /\ UNCHANGED <<crypto, rc>>
    /\ UNCHANGED <<opVars, apiVars, auth, skip, files, container, kubelet, done, backup, image, crs>>

\* The marks and the directory of the image; one of them may stay.
RemoveFolders ==
    /\ ImagerStep("removeFolders", "restoreKubelet")
    /\ \/ done' = {} /\ backup' = NoImage /\ UNCHANGED <<rc, faults>>
       \/ /\ FaultOf("marks")
          /\ rc' = "failed"
          /\ done' \in {done, {}}
          /\ backup' \in {backup, NoImage}
    /\ UNCHANGED <<opVars, apiVars, auth, skip, files, container, kubelet, crypto, image, crs>>

RestoreKubelet ==
    /\ ImagerStep("restoreKubelet", "exit")
    /\ \/ kubelet' = [enabled |-> TRUE, up |-> TRUE] /\ UNCHANGED <<rc, faults>>
       \/ Fault /\ rc' = "failed" /\ UNCHANGED kubelet
    /\ UNCHANGED <<opVars, apiVars, auth, skip, files, container, crypto, done, backup, image, crs>>

ImagerExit ==
    /\ ImagerStep("exit", "none")
    /\ container' = IF rc = "manual" \/ container # "running" THEN container ELSE rc
    /\ UNCHANGED <<opVars, apiVars, auth, skip, files, rc, kubelet, crypto, done, backup, image, faults, crs>>

Imager ==
    \/ Collect
    \/ StopClusterServices
    \/ ForceExpireSeedCrypto
    \/ backupVar
    \/ createAndPushSeedImage
    \/ RestoreCrypto
    \/ RemoveFolders
    \/ RestoreKubelet
    \/ ImagerExit

-----------------------------------------------------------------------------
(* The user and the failures. *)

CreateCR ==
    /\ crs < MaxCRs /\ crs' = crs + 1
    /\ op \in {"idle", "down"} /\ kubelet.up /\ imager = "none" /\ cr = "None"
    /\ ~files.cr
    /\ cr' = "Initial"
    /\ secret' \in {TRUE, secret}
    /\ queued' = TRUE
    /\ image' = NoImage
    /\ UNCHANGED <<op, ibu, ipc, pull, auth, skip, files, container, imager, rc, kubelet, crypto, done, backup, faults>>

DeleteCR ==
    /\ op = "idle" /\ cr \in {"Completed", "Failed"}
    /\ cr' = "None"
    /\ UNCHANGED <<opVars, ibu, ipc, secret, pull, auth, skip, files, container, hostVars, faults, crs>>

\* lca-cli restore, by hand, on a node whose imager has died.
RestoreCommand ==
    /\ imager = "none" /\ ~kubelet.enabled
    /\ imager' = "restoreCrypto"
    /\ rc' = "manual"
    /\ UNCHANGED <<opVars, apiVars, auth, skip, files, container, kubelet, crypto, done, backup, image, faults, crs>>

OperatorCrash ==
    /\ op # "down" /\ FaultOf("operator")
    /\ op' = "down"
    /\ queued' = FALSE
    /\ UNCHANGED <<apiVars, auth, skip, files, container, hostVars, crs>>

PowerLoss ==
    /\ FaultOf("power")
    /\ op' = "down"
    /\ queued' = FALSE
    /\ imager' = "none"
    /\ container' = IF container = "running" THEN "created" ELSE container
    /\ kubelet' = [kubelet EXCEPT !.up = kubelet.enabled]
    /\ UNCHANGED <<apiVars, auth, skip, files, rc, crypto, done, backup, image, crs>>

Start == InitIBU \/ initSeedGen \/ initSecret \/ initCR \/ initRename \/ initPull
         \/ InitIPConfig
Reconcile == ReconcileInitial \/ ReconcileEnded \/ ReconcileGenerating \/ ReconcileFinalizing \/ finishSeedgen

Next ==
    \/ OperatorStart \/ Start \/ StartFails \/ initPullFails
    \/ Reconcile \/ ReconcileIBU \/ MCOSync
    \/ Generate
    \/ GenFault \/ NoSecret \/ ImagerReturns \/ SanitizeFails \/ StatusUpdateFails
    \/ Imager \/ ImagerFails
    \/ CreateCR \/ DeleteCR \/ RestoreCommand
    \/ OperatorCrash \/ PowerLoss

Spec == Init /\ [][Next]_vars

\* The operator is restarted by kubelet, a queued reconcile is run, the unit and
\* MCO go on; a health check that may pass does at some time.
FairSpec ==
    /\ Spec
    /\ WF_vars(OperatorStart) /\ WF_vars(Start) /\ WF_vars(Reconcile) /\ WF_vars(Imager) /\ WF_vars(MCOSync)
    /\ WF_vars(Generate) /\ WF_vars(NoSecret) /\ WF_vars(ImagerReturns)
    /\ SF_vars(HealthChecks /\ op' = "setup")

-----------------------------------------------------------------------------
(* Correctness. *)

\* A CR that reports Completed has its image in the registry (checkImagerStatus
\* looks at a container that a previous generation may have left), with the
\* archive of /var in it unless a mark of the imager could not be looked at.
CompletedMeansPushed ==
    cr = "Completed" => image # NoImage /\ (faults["marks"] = 0 => image # Bare)

\* The seed cluster of a completed generation is as it was before: the seedgen
\* secret is back whatever fails and dies, the certificates unless a mark of the
\* imager could not be looked at or removed, the pull-secret as long as neither
\* the operator nor the node dies and no replacement of it has failed, in this
\* generation or in an earlier one (initSeedGen, RestoreSeedCluster, the deferred
\* functions of generateSeedImage, validateSystem).
CompletedMeansRestored ==
    cr = "Completed" =>
        /\ secret
        /\ faults["marks"] = 0 => crypto = "original"
        /\ (\A k \in {"pull", "operator", "power"} : faults[k] = 0) => pull = "real"

\* What a pushed archive holds of the seed cluster, even if the node loses its
\* power, as long as the operator does not die on its own: neither the
\* SeedGenerator nor the IBU CR nor the secret nor a pull-secret, in etcd or on
\* the host, but the IPConfig CR, which nothing deletes; and only certificates
\* that have expired, unless recert is skipped or the marks of the imager could
\* not be looked at or removed (what generateSeedImage deletes and waits for
\* before it launches the imager, what recert expires).
SeedIsClean ==
    image \notin {NoImage, Bare} /\ faults["operator"] = 0 =>
        /\ ~image.cr /\ ~image.ibu /\ image.ipc /\ ~image.secret
        /\ image.pull = "empty" /\ image.auth = "empty"
        /\ ~skip /\ faults["marks"] = 0 => image.crypto = "expired"

\* A generation ends, Completed or Failed, whatever step of it fails, provided
\* that the cluster comes back after each stop and that status updates, the
\* operator's start, operator and power do not fail.
GenerationEnds ==
    []<>kubelet.up /\ [](\A k \in {"status", "start", "operator", "power"} : faults[k] = 0)
        => (crs > 0 ~> cr \in {"None", "Completed", "Failed"} /\ imager = "none")
=============================================================================
