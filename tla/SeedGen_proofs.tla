---------------------------- MODULE SeedGen_proofs ----------------------------
(***************************************************************************)
(* Proofs about SeedGen for every bound on the failures and on the CRs and *)
(* every choice of what may fail: what a generation that is reported       *)
(* Completed has pushed and what it has left of the seed cluster, and what *)
(* an image that was pushed holds.                                         *)
(***************************************************************************)
EXTENDS SeedGen, TLAPS

-----------------------------------------------------------------------------
(* The inductive invariant. *)

\* The steps of generateSeedImage before the pull-secret is emptied and after it
\* is known to be on the host, and the steps of the imager that restore the cluster.
BeforeSanitize == {"setup", "recertImage", "saveSecret", "savePull", "cleanup", "sanitize"}
AfterSanitize == {"machineConfigs", "launchStatus", "saveCR", "deleteSecret", "deleteCR",
                  "deleteIBU", "launch", "waiting"}
AfterSetup == (BeforeSanitize \ {"setup"}) \cup {"sanitizeWait"} \cup AfterSanitize
Restoring == {"restoreCrypto", "removeFolders", "restoreKubelet", "exit"}

\* The part of the type invariant that the others rest on, that the pull-secret
\* is in the workspace before it is emptied, that the operator runs on a cluster
\* that is up, and that it has created the IPConfig CR when it reconciles.
Shape ==
    /\ op \in {"down", "idle", "waiting", "finish"} \cup InitSteps \cup GenSteps
    /\ faults \in [AllKinds -> Nat]
    /\ cr \in Statuses
    /\ files \in [cr : BOOLEAN, secret : BOOLEAN, pull : {"none", "real", "empty"}]
    /\ kubelet \in [enabled : BOOLEAN, up : BOOLEAN]
    /\ pull \in {"real", "empty"}
    /\ secret \in BOOLEAN
    /\ op \in {"cleanup", "sanitize", "sanitizeWait"} \cup AfterSanitize => files.pull # "none"
    /\ op # "down" => kubelet.up
    /\ op \notin {"down"} \cup InitSteps => ipc

\* A container that has exited with 0 belongs to the image of this CR, or it was
\* left by an earlier generation: then this one has not come to its imager and
\* nothing can take it for finished.
PushInv ==
    /\ imager \in Restoring /\ rc = "ok" /\ container = "running" => image # NoImage
    /\ container = "ok" /\ image = NoImage =>
        /\ cr \notin {"Launching", "Completed"}
        /\ op \notin AfterSetup \cup {"finish"} \cup (InitSteps \ {"start", "init", "initIPC"})
        /\ ~files.cr
    /\ cr = "Completed" => container = "ok" /\ image # NoImage
    /\ op \in GenSteps \cup {"waiting", "finish"} => cr # "Completed"

\* As long as the marks of the imager can be looked at and removed, none of an
\* earlier imager is left when the next one begins: recert and the archive of
\* /var are not skipped, and who exits with 0 has undone recert.
MarksInv ==
    faults["marks"] = 0 =>
        /\ "recert" \in done \/ "var" \in done => ~kubelet.up /\ ~kubelet.enabled
        /\ imager \in {"collect", "stop", "recert", "mark", "restoreKubelet", "exit"} =>
            "recert" \notin done /\ "var" \notin done
        /\ imager = "backup" => "var" \notin done /\ (skip \/ "recert" \in done)
        /\ imager = "push" => backup # Bare /\ (skip \/ "recert" \in done)
        /\ imager \in {"recert", "mark", "backup", "push"} => ~kubelet.up /\ ~kubelet.enabled
        /\ imager = "restoreCrypto" /\ rc = "ok" => skip \/ "recert" \in done
        /\ imager \in {"removeFolders", "restoreKubelet", "exit"} /\ rc = "ok" => crypto = "original"
        /\ container = "ok" => crypto = "original" /\ imager \in Restoring \cup {"none"}
        /\ skip => crypto = "original"
        /\ image # Bare

\* The archive, as SeedIsClean wants an image.
CleanVar(archive) ==
    archive \notin {NoImage, Bare} =>
        /\ ~archive.cr /\ ~archive.ibu /\ archive.ipc /\ ~archive.secret
        /\ archive.pull = "empty" /\ archive.auth = "empty"
        /\ ~skip /\ faults["marks"] = 0 => archive.crypto = "expired"

\* What is gone of the cluster at each step of the operator and of the imager:
\* until kubelet is stopped the operator waits, and afterwards it cannot start.
CleanInv ==
    faults["operator"] = 0 =>
        /\ op = "sanitizeWait" => pull = "empty"
        /\ op \in AfterSanitize => pull = "empty" /\ auth = "empty"
        /\ op \in {"deleteCR", "deleteIBU", "launch", "waiting"} => secret = FALSE
        /\ op \in {"deleteIBU", "launch", "waiting"} => cr = "None"
        /\ op \in {"launch", "waiting"} => ibu = FALSE
        /\ imager \in {"collect", "stop"} => op = "waiting" /\ container = "running"
        /\ imager \in {"recert", "mark", "backup", "push"} =>
            /\ op = "down" /\ ~kubelet.up
            /\ cr = "None" /\ ibu = FALSE /\ ipc /\ secret = FALSE
            /\ pull = "empty" /\ auth = "empty"
        /\ imager \in {"mark", "backup"} /\ ~skip /\ faults["marks"] = 0 => crypto = "expired"
        /\ CleanVar(backup) /\ CleanVar(image)

\* The seedgen secret is in the cluster, or in the workspace next to the CR, from
\* which it comes back before the CR can be taken for finished.
SecretInv ==
    /\ op = "health" => cr \in {"InProgress", "Finalizing"}
    /\ op \in BeforeSanitize \cup {"sanitizeWait", "machineConfigs", "launchStatus"} => cr = "InProgress"
    /\ op \in {"savePull", "cleanup", "sanitize", "sanitizeWait", "machineConfigs", "launchStatus",
               "saveCR", "deleteSecret"} => secret
    /\ op \in {"savePull", "cleanup", "sanitize", "sanitizeWait"} \cup AfterSanitize => files.secret
    /\ op \in {"deleteSecret", "deleteCR", "deleteIBU", "launch", "waiting"} => files.cr
    /\ op \in {"initSecret", "initCR", "initStatus", "initRenameCR"} => files.cr /\ files.secret
    /\ op = "initRenameSecret" => files.secret
    /\ op \in {"initCR", "initStatus", "initRenameCR", "initRenameSecret", "initPull"} =>
        secret /\ cr # "Completed"
    /\ op \in {"down", "start", "init", "initSecret"} /\ cr = "Launching" =>
        secret \/ (files.cr /\ files.secret)
    /\ op \in {"initIPC", "idle"} /\ cr = "Launching" => secret
    /\ op = "finish" => secret
    /\ cr = "Completed" => secret /\ ~files.cr

\* As long as neither the operator nor the node dies and the pull-secret can be
\* replaced in time, it is in the cluster whenever no generation runs, or in the
\* workspace of an operator that will put it back before it does anything else.
PullInv ==
    (\A k \in {"pull", "operator", "power"} : faults[k] = 0) =>
        /\ op \in {"idle", "finish", "initIPC", "health"} \cup BeforeSanitize => pull = "real"
        /\ op \in {"cleanup", "sanitize", "sanitizeWait"} \cup AfterSanitize => files.pull = "real"
        /\ op \in {"down", "start", "init"} =>
            IF files.secret THEN files.pull = "real" ELSE pull = "real"
        /\ op \in {"initPull", "initIPC"} => ~files.secret
        /\ op \in InitSteps \ {"start", "init", "initIPC"} => files.pull = "real"
        /\ cr = "Completed" => op = "idle"

Inv == Shape /\ PushInv /\ MarksInv /\ CleanInv /\ SecretInv /\ PullInv

-----------------------------------------------------------------------------
(* Operators. *)

\* The phases of the reconciler, by the status.
LEMMA Phases ==
    ASSUME cr \in Statuses
    PROVE  /\ getPhase = "absent" <=> cr = "None"
           /\ getPhase = "initial" <=> cr = "Initial"
           /\ getPhase = "finalizing" <=> cr = "Launching"
           /\ getPhase = "ended" <=> cr \in {"Completed", "Failed"}
           /\ getPhase = "generating" <=> cr \in {"InProgress", "Finalizing"}
  BY DEF getPhase, Statuses

\* A fault counts one more of its kind and leaves the others.
LEMMA Faults ==
    ASSUME faults \in [AllKinds -> Nat], NEW kind \in AllKinds, FaultOf(kind)
    PROVE  /\ faults' \in [AllKinds -> Nat]
           /\ faults'[kind] # 0
           /\ \A k \in AllKinds \ {kind} : faults'[k] = faults[k]
  BY DEF FaultOf, AllKinds

-----------------------------------------------------------------------------
(* Every step preserves the invariant. *)

\* The shape of the state.
LEMMA ShapeStep == Shape /\ [Next]_vars => Shape'
  <1> SUFFICES ASSUME Shape, [Next]_vars
               PROVE  Shape'
    OBVIOUS
  <1> USE DEF Shape, AllKinds, Statuses, AfterSanitize, GenSteps, InitSteps, NoFiles, opVars,
              apiVars, hostVars
  <1>1. CASE OperatorStart
    BY <1>1 DEF OperatorStart
  <1>2. CASE InitIBU
    BY <1>2 DEF InitIBU
  <1>3. CASE initSeedGen
    BY <1>3 DEF initSeedGen
  <1>4. CASE initSecret
    BY <1>4 DEF initSecret
  <1>5. CASE initCR
    BY <1>5 DEF initCR
  <1>6. CASE initRename
    BY <1>6 DEF initRename
  <1>7. CASE initPull
    BY <1>7 DEF initPull
  <1>8. CASE InitIPConfig
    BY <1>8 DEF InitIPConfig
  <1>9. CASE StartFails
    <2>1. faults' \in [AllKinds -> Nat]
      BY <1>9, Faults DEF StartFails
    <2>2. secret' \in BOOLEAN
      BY <1>9 DEF StartFails
    <2>3. cr' \in Statuses
      BY <1>9 DEF StartFails
    <2> QED BY <1>9, <2>1, <2>2, <2>3 DEF StartFails
  <1>10. CASE initPullFails
    BY <1>10, Faults DEF initPullFails, FaultOf, MayFail
  <1>11. CASE ReconcileInitial
    BY <1>11, Phases, Faults DEF ReconcileInitial, StoreStatus, FaultOf, MayFail
  <1>12. CASE ReconcileEnded
    BY <1>12, Phases DEF ReconcileEnded
  <1>13. CASE ReconcileGenerating
    BY <1>13, Phases DEF ReconcileGenerating
  <1>14. CASE ReconcileFinalizing
    BY <1>14, Phases, Faults DEF ReconcileFinalizing, StoreStatus, FaultOf, MayFail
  <1>15. CASE finishSeedgen
    BY <1>15, Faults DEF finishSeedgen, StoreStatus, FaultOf, MayFail
  <1>16. CASE ReconcileIBU
    BY <1>16 DEF ReconcileIBU
  <1>17. CASE MCOSync
    BY <1>17 DEF MCOSync
  <1>18. CASE HealthChecks
    BY <1>18, Faults DEF HealthChecks, GenStep, StoreStatus, FaultOf, MayFail
  <1>19. CASE setupWorkspace
    BY <1>19 DEF setupWorkspace, GenStep
  <1>20. CASE pullRecertImagePullSpec
    BY <1>20 DEF pullRecertImagePullSpec, GenStep
  <1>21. CASE SaveSecrets
    BY <1>21 DEF SaveSecrets, GenStep
  <1>22. CASE cleanupClusterResources
    BY <1>22 DEF cleanupClusterResources, GenStep
  <1>23. CASE Sanitize
    BY <1>23 DEF Sanitize, GenStep
  <1>24. CASE cleanupOldRenderedMachineConfigs
    BY <1>24 DEF cleanupOldRenderedMachineConfigs, GenStep
  <1>25. CASE SaveCR
    BY <1>25 DEF SaveCR, GenStep
  <1>26. CASE DeleteCRs
    BY <1>26 DEF DeleteCRs, GenStep
  <1>27. CASE launchImager
    BY <1>27 DEF launchImager, GenStep
  <1>28. CASE GenFault
    <2> DEFINE failed == [faults EXCEPT !["step"] = @ + 1]
    <2>1. CASE GenerateFails(failed)
      BY <1>28, <2>1 DEF GenFault, GenerateFails, RestoreDeferred, sanitized, secretDeleted, crDeleted, MayFail
    <2>2. CASE DeferredFails(failed)
      BY <1>28, <2>2 DEF GenFault, DeferredFails, secretDeleted, crDeleted, MayFail
    <2>3. CASE sanitized /\ Panics(failed)
      BY <1>28, <2>3 DEF GenFault, Panics, sanitized, secretDeleted, crDeleted, MayFail
    <2> QED BY <1>28, <2>1, <2>2, <2>3 DEF GenFault, GenerateEnds
  <1>29. CASE NoSecret
    BY <1>29 DEF NoSecret, GenerateFails, RestoreDeferred, sanitized, secretDeleted, crDeleted,
       MayFail
  <1>30. CASE ImagerReturns
    <2> DEFINE failed == faults
    <2>1. CASE GenerateFails(failed)
      BY <1>30, <2>1 DEF ImagerReturns, GenerateFails, RestoreDeferred, sanitized, secretDeleted, crDeleted, MayFail
    <2>2. CASE DeferredFails(failed)
      <3>1. faults' \in [AllKinds -> Nat]
        BY <2>2 DEF DeferredFails
      <3>2. secret' \in BOOLEAN /\ cr' \in Statuses
        BY <2>2 DEF DeferredFails
      <3>3. op' = "idle" /\ files' = NoFiles /\ pull' = files.pull /\ UNCHANGED <<ipc, kubelet>>
        BY <2>2 DEF DeferredFails
      <3>4. op = "waiting"
        BY <1>30 DEF ImagerReturns
      <3> QED BY <3>1, <3>2, <3>3, <3>4
    <2>3. CASE sanitized /\ Panics(failed)
      BY <1>30, <2>3 DEF ImagerReturns, Panics, sanitized, secretDeleted, crDeleted, MayFail
    <2> QED BY <1>30, <2>1, <2>2, <2>3 DEF ImagerReturns, GenerateEnds
  <1>31. CASE SanitizeFails
    <2>1. CASE op = "sanitize" /\ Panics(faults)
      BY <2>1 DEF Panics, secretDeleted, crDeleted
    <2>2. CASE op = "sanitizeWait" /\ GenerateFails([faults EXCEPT !["pull"] = @ + 1])
      BY <2>2 DEF GenerateFails, RestoreDeferred, sanitized, secretDeleted, crDeleted
    <2> QED BY <1>31, <2>1, <2>2 DEF SanitizeFails
  <1>32. CASE StatusUpdateFails
    BY <1>32, Faults DEF StatusUpdateFails, Panics, FaultOf, RestoreDeferred, sanitized,
       secretDeleted, crDeleted, MayFail
  <1>33. CASE ImagerFails
    <2>1. faults' \in [AllKinds -> Nat]
      BY <1>33, Faults DEF ImagerFails, Fault
    <2>2. kubelet' \in [enabled : BOOLEAN, up : BOOLEAN] /\ kubelet'.up = kubelet.up
      BY <1>33 DEF ImagerFails
    <2> QED BY <1>33, <2>1, <2>2 DEF ImagerFails
  <1>34. CASE Collect
    BY <1>34, Faults DEF Collect, ImagerStep, Skips, FaultOf, MayFail
  <1>35. CASE StopClusterServices
    BY <1>35 DEF StopClusterServices, ImagerStep
  <1>36. CASE ForceExpireSeedCrypto
    BY <1>36, Faults DEF ForceExpireSeedCrypto, ImagerStep, Skips, RecertFullFlow, FaultOf,
       MayFail
  <1>37. CASE backupVar
    BY <1>37, Faults DEF backupVar, ImagerStep, Skips, Var, FaultOf, MayFail
  <1>38. CASE createAndPushSeedImage
    BY <1>38 DEF createAndPushSeedImage, ImagerStep
  <1>39. CASE RestoreCrypto
    BY <1>39, Faults DEF RestoreCrypto, ImagerStep, RecertFullFlow, Fault, FaultOf, MayFail
  <1>40. CASE RemoveFolders
    BY <1>40, Faults DEF RemoveFolders, ImagerStep, FaultOf, MayFail
  <1>41. CASE RestoreKubelet
    <2>1. faults' \in [AllKinds -> Nat]
      BY <1>41, Faults DEF RestoreKubelet, Fault
    <2>2. kubelet' \in {kubelet, [enabled |-> TRUE, up |-> TRUE]}
      BY <1>41 DEF RestoreKubelet
    <2>3. kubelet' \in [enabled : BOOLEAN, up : BOOLEAN]
      <3>1. [enabled |-> TRUE, up |-> TRUE] \in [enabled : BOOLEAN, up : BOOLEAN]
        OBVIOUS
      <3> QED BY <2>2, <3>1
    <2>4. op # "down" => kubelet'.up
      BY <2>2
    <2> QED BY <1>41, <2>1, <2>3, <2>4 DEF RestoreKubelet, ImagerStep
  <1>42. CASE ImagerExit
    BY <1>42 DEF ImagerExit, ImagerStep
  <1>43. CASE CreateCR
    BY <1>43 DEF CreateCR
  <1>44. CASE DeleteCR
    BY <1>44 DEF DeleteCR
  <1>45. CASE RestoreCommand
    BY <1>45 DEF RestoreCommand
  <1>46. CASE OperatorCrash
    BY <1>46, Faults DEF OperatorCrash, FaultOf, MayFail
  <1>47. CASE PowerLoss
    BY <1>47, Faults DEF PowerLoss, FaultOf, MayFail
  <1>48. CASE UNCHANGED vars
    BY <1>48 DEF vars
  <1> QED BY <1>1, <1>2, <1>3, <1>4, <1>5, <1>6, <1>7, <1>8, <1>9, <1>10, <1>11, <1>12, <1>13,
             <1>14, <1>15, <1>16, <1>17, <1>18, <1>19, <1>20, <1>21, <1>22, <1>23, <1>24, <1>25,
             <1>26, <1>27, <1>28, <1>29, <1>30, <1>31, <1>32, <1>33, <1>34, <1>35, <1>36, <1>37,
             <1>38, <1>39, <1>40, <1>41, <1>42, <1>43, <1>44, <1>45, <1>46, <1>47, <1>48
           DEF Next, Start, Reconcile, Generate, Imager

\* No container of an earlier generation is taken for this one.
LEMMA PushStep == Shape /\ PushInv /\ [Next]_vars => PushInv'
  <1> SUFFICES ASSUME Shape, PushInv, [Next]_vars
               PROVE  PushInv'
    OBVIOUS
  <1> USE DEF Shape, NoFiles, NoImage, Bare, PushInv, AfterSetup, BeforeSanitize, AfterSanitize,
              InitSteps, GenSteps, Restoring, Var, opVars, apiVars, hostVars
  <1>1. CASE OperatorStart
    BY <1>1 DEF OperatorStart
  <1>2. CASE InitIBU
    BY <1>2 DEF InitIBU
  <1>3. CASE initSeedGen
    BY <1>3 DEF initSeedGen
  <1>4. CASE initSecret
    BY <1>4 DEF initSecret
  <1>5. CASE initCR
    BY <1>5 DEF initCR
  <1>6. CASE initRename
    BY <1>6 DEF initRename
  <1>7. CASE initPull
    BY <1>7 DEF initPull
  <1>8. CASE InitIPConfig
    BY <1>8 DEF InitIPConfig
  <1>9. CASE StartFails
    BY <1>9 DEF StartFails, FaultOf, MayFail
  <1>10. CASE initPullFails
    BY <1>10 DEF initPullFails, FaultOf, MayFail
  <1>11. CASE ReconcileInitial
    BY <1>11, Phases DEF ReconcileInitial, StoreStatus, FaultOf, MayFail
  <1>12. CASE ReconcileEnded
    BY <1>12, Phases DEF ReconcileEnded
  <1>13. CASE ReconcileGenerating
    BY <1>13, Phases DEF ReconcileGenerating
  <1>14. CASE ReconcileFinalizing
    BY <1>14, Phases DEF ReconcileFinalizing, StoreStatus, FaultOf, MayFail
  <1>15. CASE finishSeedgen
    BY <1>15 DEF finishSeedgen, StoreStatus, FaultOf, MayFail
  <1>16. CASE ReconcileIBU
    BY <1>16 DEF ReconcileIBU
  <1>17. CASE MCOSync
    BY <1>17 DEF MCOSync
  <1>18. CASE HealthChecks
    BY <1>18 DEF HealthChecks, GenStep, StoreStatus, FaultOf, MayFail
  <1>19. CASE setupWorkspace
    BY <1>19 DEF setupWorkspace, GenStep
  <1>20. CASE pullRecertImagePullSpec
    BY <1>20 DEF pullRecertImagePullSpec, GenStep
  <1>21. CASE SaveSecrets
    BY <1>21 DEF SaveSecrets, GenStep
  <1>22. CASE cleanupClusterResources
    BY <1>22 DEF cleanupClusterResources, GenStep
  <1>23. CASE Sanitize
    BY <1>23 DEF Sanitize, GenStep
  <1>24. CASE cleanupOldRenderedMachineConfigs
    BY <1>24 DEF cleanupOldRenderedMachineConfigs, GenStep
  <1>25. CASE SaveCR
    BY <1>25 DEF SaveCR, GenStep
  <1>26. CASE DeleteCRs
    BY <1>26 DEF DeleteCRs, GenStep
  <1>27. CASE launchImager
    BY <1>27 DEF launchImager, GenStep
  <1>28. CASE GenFault
    BY <1>28 DEF GenFault, GenerateEnds, DeferredFails, Panics, GenerateFails, RestoreDeferred,
       sanitized, secretDeleted, crDeleted, MayFail
  <1>29. CASE NoSecret
    BY <1>29 DEF NoSecret, GenerateFails, RestoreDeferred, sanitized, secretDeleted, crDeleted,
       MayFail
  <1>30. CASE ImagerReturns
    BY <1>30 DEF ImagerReturns, GenerateEnds, DeferredFails, Panics, GenerateFails,
       RestoreDeferred, sanitized, secretDeleted, crDeleted, MayFail
  <1>31. CASE SanitizeFails
    BY <1>31 DEF SanitizeFails, Panics, GenerateFails, RestoreDeferred, sanitized, secretDeleted,
       crDeleted, MayFail
  <1>32. CASE StatusUpdateFails
    BY <1>32 DEF StatusUpdateFails, Panics, FaultOf, RestoreDeferred, sanitized, secretDeleted,
       crDeleted, MayFail
  <1>33. CASE ImagerFails
    BY <1>33 DEF ImagerFails, Fault, FaultOf, MayFail
  <1>34. CASE Collect
    BY <1>34 DEF Collect, ImagerStep, Skips, FaultOf, MayFail
  <1>35. CASE StopClusterServices
    BY <1>35 DEF StopClusterServices, ImagerStep
  <1>36. CASE ForceExpireSeedCrypto
    BY <1>36 DEF ForceExpireSeedCrypto, ImagerStep, Skips, RecertFullFlow, FaultOf, MayFail
  <1>37. CASE backupVar
    BY <1>37 DEF backupVar, ImagerStep, Skips, Var, FaultOf, MayFail
  <1>38. CASE createAndPushSeedImage
    BY <1>38 DEF createAndPushSeedImage, ImagerStep
  <1>39. CASE RestoreCrypto
    BY <1>39 DEF RestoreCrypto, ImagerStep, RecertFullFlow, Fault, FaultOf, MayFail
  <1>40. CASE RemoveFolders
    BY <1>40 DEF RemoveFolders, ImagerStep, FaultOf, MayFail
  <1>41. CASE RestoreKubelet
    BY <1>41 DEF RestoreKubelet, ImagerStep, Fault, FaultOf, MayFail
  <1>42. CASE ImagerExit
    BY <1>42 DEF ImagerExit, ImagerStep
  <1>43. CASE CreateCR
    BY <1>43 DEF CreateCR
  <1>44. CASE DeleteCR
    BY <1>44 DEF DeleteCR
  <1>45. CASE RestoreCommand
    BY <1>45 DEF RestoreCommand
  <1>46. CASE OperatorCrash
    BY <1>46 DEF OperatorCrash, FaultOf, MayFail
  <1>47. CASE PowerLoss
    BY <1>47 DEF PowerLoss, FaultOf, MayFail
  <1>48. CASE UNCHANGED vars
    BY <1>48 DEF vars
  <1> QED BY <1>1, <1>2, <1>3, <1>4, <1>5, <1>6, <1>7, <1>8, <1>9, <1>10, <1>11, <1>12, <1>13,
             <1>14, <1>15, <1>16, <1>17, <1>18, <1>19, <1>20, <1>21, <1>22, <1>23, <1>24, <1>25,
             <1>26, <1>27, <1>28, <1>29, <1>30, <1>31, <1>32, <1>33, <1>34, <1>35, <1>36, <1>37,
             <1>38, <1>39, <1>40, <1>41, <1>42, <1>43, <1>44, <1>45, <1>46, <1>47, <1>48
           DEF Next, Start, Reconcile, Generate, Imager

\* No mark of an earlier imager is left.
LEMMA MarksStep == Shape /\ MarksInv /\ [Next]_vars => MarksInv'
  <1> SUFFICES ASSUME Shape, MarksInv, [Next]_vars
               PROVE  MarksInv'
    OBVIOUS
  <1> USE DEF Shape, AllKinds, NoImage, Bare, MarksInv, Restoring, GenSteps, InitSteps, opVars,
              apiVars, hostVars
  <1>1. CASE OperatorStart
    BY <1>1 DEF OperatorStart
  <1>2. CASE InitIBU
    BY <1>2 DEF InitIBU
  <1>3. CASE initSeedGen
    BY <1>3 DEF initSeedGen
  <1>4. CASE initSecret
    BY <1>4 DEF initSecret
  <1>5. CASE initCR
    BY <1>5 DEF initCR
  <1>6. CASE initRename
    BY <1>6 DEF initRename
  <1>7. CASE initPull
    BY <1>7 DEF initPull
  <1>8. CASE InitIPConfig
    BY <1>8 DEF InitIPConfig
  <1>9. CASE StartFails
    BY <1>9 DEF StartFails, FaultOf, MayFail
  <1>10. CASE initPullFails
    BY <1>10 DEF initPullFails, FaultOf, MayFail
  <1>11. CASE ReconcileInitial
    BY <1>11, Phases DEF ReconcileInitial, StoreStatus, FaultOf, MayFail
  <1>12. CASE ReconcileEnded
    BY <1>12, Phases DEF ReconcileEnded
  <1>13. CASE ReconcileGenerating
    BY <1>13, Phases DEF ReconcileGenerating
  <1>14. CASE ReconcileFinalizing
    BY <1>14, Phases DEF ReconcileFinalizing, StoreStatus, FaultOf, MayFail
  <1>15. CASE finishSeedgen
    BY <1>15 DEF finishSeedgen, StoreStatus, FaultOf, MayFail
  <1>16. CASE ReconcileIBU
    BY <1>16 DEF ReconcileIBU
  <1>17. CASE MCOSync
    BY <1>17 DEF MCOSync
  <1>18. CASE HealthChecks
    BY <1>18 DEF HealthChecks, GenStep, StoreStatus, FaultOf, MayFail
  <1>19. CASE setupWorkspace
    BY <1>19 DEF setupWorkspace, GenStep
  <1>20. CASE pullRecertImagePullSpec
    BY <1>20 DEF pullRecertImagePullSpec, GenStep
  <1>21. CASE SaveSecrets
    BY <1>21 DEF SaveSecrets, GenStep
  <1>22. CASE cleanupClusterResources
    BY <1>22 DEF cleanupClusterResources, GenStep
  <1>23. CASE Sanitize
    BY <1>23 DEF Sanitize, GenStep
  <1>24. CASE cleanupOldRenderedMachineConfigs
    BY <1>24 DEF cleanupOldRenderedMachineConfigs, GenStep
  <1>25. CASE SaveCR
    BY <1>25 DEF SaveCR, GenStep
  <1>26. CASE DeleteCRs
    BY <1>26 DEF DeleteCRs, GenStep
  <1>27. CASE launchImager
    BY <1>27 DEF launchImager, GenStep
  <1>28. CASE GenFault
    BY <1>28 DEF GenFault, GenerateEnds, DeferredFails, Panics, GenerateFails, RestoreDeferred,
       sanitized, secretDeleted, crDeleted, MayFail
  <1>29. CASE NoSecret
    BY <1>29 DEF NoSecret, GenerateFails, RestoreDeferred, sanitized, secretDeleted, crDeleted,
       MayFail
  <1>30. CASE ImagerReturns
    <2> DEFINE failed == faults
    <2>1. CASE GenerateFails(failed)
      BY <1>30, <2>1 DEF ImagerReturns, GenerateFails, RestoreDeferred, sanitized, secretDeleted, crDeleted, MayFail
    <2>2. CASE DeferredFails(failed)
      BY <1>30, <2>2 DEF ImagerReturns, DeferredFails, secretDeleted, crDeleted, MayFail
    <2>3. CASE sanitized /\ Panics(failed)
      BY <1>30, <2>3 DEF ImagerReturns, Panics, sanitized, secretDeleted, crDeleted, MayFail
    <2> QED BY <1>30, <2>1, <2>2, <2>3 DEF ImagerReturns, GenerateEnds
  <1>31. CASE SanitizeFails
    BY <1>31 DEF SanitizeFails, Panics, GenerateFails, RestoreDeferred, sanitized, secretDeleted,
       crDeleted, MayFail
  <1>32. CASE StatusUpdateFails
    BY <1>32 DEF StatusUpdateFails, Panics, FaultOf, RestoreDeferred, sanitized, secretDeleted,
       crDeleted, MayFail
  <1>33. CASE ImagerFails
    BY <1>33 DEF ImagerFails, Fault, FaultOf, MayFail
  <1>34. CASE Collect
    BY <1>34 DEF Collect, ImagerStep, Skips, FaultOf, MayFail
  <1>35. CASE StopClusterServices
    BY <1>35 DEF StopClusterServices, ImagerStep
  <1>36. CASE ForceExpireSeedCrypto
    BY <1>36 DEF ForceExpireSeedCrypto, ImagerStep, Skips, RecertFullFlow, FaultOf, MayFail
  <1>37. CASE backupVar
    BY <1>37 DEF backupVar, ImagerStep, Skips, Var, FaultOf, MayFail
  <1>38. CASE createAndPushSeedImage
    BY <1>38 DEF createAndPushSeedImage, ImagerStep
  <1>39. CASE RestoreCrypto
    BY <1>39 DEF RestoreCrypto, ImagerStep, RecertFullFlow, Fault, FaultOf, MayFail
  <1>40. CASE RemoveFolders
    BY <1>40 DEF RemoveFolders, ImagerStep, FaultOf, MayFail
  <1>41. CASE RestoreKubelet
    BY <1>41 DEF RestoreKubelet, ImagerStep, Fault, FaultOf, MayFail
  <1>42. CASE ImagerExit
    BY <1>42 DEF ImagerExit, ImagerStep
  <1>43. CASE CreateCR
    BY <1>43 DEF CreateCR
  <1>44. CASE DeleteCR
    BY <1>44 DEF DeleteCR
  <1>45. CASE RestoreCommand
    BY <1>45 DEF RestoreCommand
  <1>46. CASE OperatorCrash
    BY <1>46 DEF OperatorCrash, FaultOf, MayFail
  <1>47. CASE PowerLoss
    BY <1>47 DEF PowerLoss, FaultOf, MayFail
  <1>48. CASE UNCHANGED vars
    BY <1>48 DEF vars
  <1> QED BY <1>1, <1>2, <1>3, <1>4, <1>5, <1>6, <1>7, <1>8, <1>9, <1>10, <1>11, <1>12, <1>13,
             <1>14, <1>15, <1>16, <1>17, <1>18, <1>19, <1>20, <1>21, <1>22, <1>23, <1>24, <1>25,
             <1>26, <1>27, <1>28, <1>29, <1>30, <1>31, <1>32, <1>33, <1>34, <1>35, <1>36, <1>37,
             <1>38, <1>39, <1>40, <1>41, <1>42, <1>43, <1>44, <1>45, <1>46, <1>47, <1>48
           DEF Next, Start, Reconcile, Generate, Imager

\* What generateSeedImage has deleted stays deleted until the image is pushed.
LEMMA CleanStep == Shape /\ MarksInv /\ CleanInv /\ [Next]_vars => CleanInv'
  <1> SUFFICES ASSUME Shape, MarksInv, CleanInv, [Next]_vars
               PROVE  CleanInv'
    OBVIOUS
  <1> USE DEF Shape, AllKinds, NoImage, Bare, MarksInv, CleanInv, CleanVar, AfterSanitize,
              GenSteps, InitSteps, opVars, apiVars, hostVars
  <1>1. CASE OperatorStart
    BY <1>1 DEF OperatorStart
  <1>2. CASE InitIBU
    BY <1>2 DEF InitIBU
  <1>3. CASE initSeedGen
    BY <1>3 DEF initSeedGen
  <1>4. CASE initSecret
    BY <1>4 DEF initSecret
  <1>5. CASE initCR
    BY <1>5 DEF initCR
  <1>6. CASE initRename
    BY <1>6 DEF initRename
  <1>7. CASE initPull
    BY <1>7 DEF initPull
  <1>8. CASE InitIPConfig
    BY <1>8 DEF InitIPConfig
  <1>9. CASE StartFails
    BY <1>9 DEF StartFails, FaultOf, MayFail
  <1>10. CASE initPullFails
    BY <1>10 DEF initPullFails, FaultOf, MayFail
  <1>11. CASE ReconcileInitial
    BY <1>11, Phases DEF ReconcileInitial, StoreStatus, FaultOf, MayFail
  <1>12. CASE ReconcileEnded
    BY <1>12, Phases DEF ReconcileEnded
  <1>13. CASE ReconcileGenerating
    BY <1>13, Phases DEF ReconcileGenerating
  <1>14. CASE ReconcileFinalizing
    BY <1>14, Phases DEF ReconcileFinalizing, StoreStatus, FaultOf, MayFail
  <1>15. CASE finishSeedgen
    BY <1>15 DEF finishSeedgen, StoreStatus, FaultOf, MayFail
  <1>16. CASE ReconcileIBU
    BY <1>16 DEF ReconcileIBU
  <1>17. CASE MCOSync
    BY <1>17 DEF MCOSync
  <1>18. CASE HealthChecks
    BY <1>18 DEF HealthChecks, GenStep, StoreStatus, FaultOf, MayFail
  <1>19. CASE setupWorkspace
    BY <1>19 DEF setupWorkspace, GenStep
  <1>20. CASE pullRecertImagePullSpec
    BY <1>20 DEF pullRecertImagePullSpec, GenStep
  <1>21. CASE SaveSecrets
    BY <1>21 DEF SaveSecrets, GenStep
  <1>22. CASE cleanupClusterResources
    BY <1>22 DEF cleanupClusterResources, GenStep
  <1>23. CASE Sanitize
    BY <1>23 DEF Sanitize, GenStep
  <1>24. CASE cleanupOldRenderedMachineConfigs
    BY <1>24 DEF cleanupOldRenderedMachineConfigs, GenStep
  <1>25. CASE SaveCR
    BY <1>25 DEF SaveCR, GenStep
  <1>26. CASE DeleteCRs
    BY <1>26 DEF DeleteCRs, GenStep
  <1>27. CASE launchImager
    BY <1>27 DEF launchImager, GenStep
  <1>28. CASE GenFault
    BY <1>28 DEF GenFault, GenerateEnds, DeferredFails, Panics, GenerateFails, RestoreDeferred,
       sanitized, secretDeleted, crDeleted, MayFail
  <1>29. CASE NoSecret
    BY <1>29 DEF NoSecret, GenerateFails, RestoreDeferred, sanitized, secretDeleted, crDeleted,
       MayFail
  <1>30. CASE ImagerReturns
    <2> DEFINE failed == faults
    <2>1. CASE GenerateFails(failed)
      BY <1>30, <2>1 DEF ImagerReturns, GenerateFails, RestoreDeferred, sanitized, secretDeleted, crDeleted, MayFail
    <2>2. CASE DeferredFails(failed)
      BY <1>30, <2>2 DEF ImagerReturns, DeferredFails, secretDeleted, crDeleted, MayFail
    <2>3. CASE sanitized /\ Panics(failed)
      BY <1>30, <2>3 DEF ImagerReturns, Panics, sanitized, secretDeleted, crDeleted, MayFail
    <2> QED BY <1>30, <2>1, <2>2, <2>3 DEF ImagerReturns, GenerateEnds
  <1>31. CASE SanitizeFails
    BY <1>31 DEF SanitizeFails, Panics, GenerateFails, RestoreDeferred, sanitized, secretDeleted,
       crDeleted, MayFail
  <1>32. CASE StatusUpdateFails
    BY <1>32 DEF StatusUpdateFails, Panics, FaultOf, RestoreDeferred, sanitized, secretDeleted,
       crDeleted, MayFail
  <1>33. CASE ImagerFails
    BY <1>33 DEF ImagerFails, Fault, FaultOf, MayFail
  <1>34. CASE Collect
    BY <1>34 DEF Collect, ImagerStep, Skips, FaultOf, MayFail
  <1>35. CASE StopClusterServices
    BY <1>35 DEF StopClusterServices, ImagerStep
  <1>36. CASE ForceExpireSeedCrypto
    BY <1>36 DEF ForceExpireSeedCrypto, ImagerStep, Skips, RecertFullFlow, FaultOf, MayFail
  <1>37. CASE backupVar
    BY <1>37 DEF backupVar, ImagerStep, Skips, Var, FaultOf, MayFail
  <1>38. CASE createAndPushSeedImage
    BY <1>38 DEF createAndPushSeedImage, ImagerStep
  <1>39. CASE RestoreCrypto
    BY <1>39 DEF RestoreCrypto, ImagerStep, RecertFullFlow, Fault, FaultOf, MayFail
  <1>40. CASE RemoveFolders
    BY <1>40 DEF RemoveFolders, ImagerStep, FaultOf, MayFail
  <1>41. CASE RestoreKubelet
    BY <1>41 DEF RestoreKubelet, ImagerStep, Fault, FaultOf, MayFail
  <1>42. CASE ImagerExit
    BY <1>42 DEF ImagerExit, ImagerStep
  <1>43. CASE CreateCR
    BY <1>43 DEF CreateCR
  <1>44. CASE DeleteCR
    BY <1>44 DEF DeleteCR
  <1>45. CASE RestoreCommand
    BY <1>45 DEF RestoreCommand
  <1>46. CASE OperatorCrash
    BY <1>46 DEF OperatorCrash, FaultOf, MayFail
  <1>47. CASE PowerLoss
    BY <1>47 DEF PowerLoss, FaultOf, MayFail
  <1>48. CASE UNCHANGED vars
    BY <1>48 DEF vars
  <1> QED BY <1>1, <1>2, <1>3, <1>4, <1>5, <1>6, <1>7, <1>8, <1>9, <1>10, <1>11, <1>12, <1>13,
             <1>14, <1>15, <1>16, <1>17, <1>18, <1>19, <1>20, <1>21, <1>22, <1>23, <1>24, <1>25,
             <1>26, <1>27, <1>28, <1>29, <1>30, <1>31, <1>32, <1>33, <1>34, <1>35, <1>36, <1>37,
             <1>38, <1>39, <1>40, <1>41, <1>42, <1>43, <1>44, <1>45, <1>46, <1>47, <1>48
           DEF Next, Start, Reconcile, Generate, Imager

\* The secret comes back.
LEMMA SecretStep == Shape /\ PushInv /\ SecretInv /\ [Next]_vars => SecretInv'
  <1> SUFFICES ASSUME Shape, PushInv, SecretInv, [Next]_vars
               PROVE  SecretInv'
    OBVIOUS
  <1> USE DEF Shape, NoFiles, PushInv, SecretInv, AfterSetup, BeforeSanitize, AfterSanitize,
              GenSteps, InitSteps, opVars, apiVars, hostVars
  <1>1. CASE OperatorStart
    BY <1>1 DEF OperatorStart
  <1>2. CASE InitIBU
    BY <1>2 DEF InitIBU
  <1>3. CASE initSeedGen
    BY <1>3 DEF initSeedGen
  <1>4. CASE initSecret
    BY <1>4 DEF initSecret
  <1>5. CASE initCR
    BY <1>5 DEF initCR
  <1>6. CASE initRename
    BY <1>6 DEF initRename
  <1>7. CASE initPull
    BY <1>7 DEF initPull
  <1>8. CASE InitIPConfig
    BY <1>8 DEF InitIPConfig
  <1>9. CASE StartFails
    BY <1>9 DEF StartFails, FaultOf, MayFail
  <1>10. CASE initPullFails
    BY <1>10 DEF initPullFails, FaultOf, MayFail
  <1>11. CASE ReconcileInitial
    BY <1>11, Phases DEF ReconcileInitial, StoreStatus, FaultOf, MayFail
  <1>12. CASE ReconcileEnded
    BY <1>12, Phases DEF ReconcileEnded
  <1>13. CASE ReconcileGenerating
    BY <1>13, Phases DEF ReconcileGenerating
  <1>14. CASE ReconcileFinalizing
    BY <1>14, Phases DEF ReconcileFinalizing, StoreStatus, FaultOf, MayFail
  <1>15. CASE finishSeedgen
    BY <1>15 DEF finishSeedgen, StoreStatus, FaultOf, MayFail
  <1>16. CASE ReconcileIBU
    BY <1>16 DEF ReconcileIBU
  <1>17. CASE MCOSync
    BY <1>17 DEF MCOSync
  <1>18. CASE HealthChecks
    BY <1>18 DEF HealthChecks, GenStep, StoreStatus, FaultOf, MayFail
  <1>19. CASE setupWorkspace
    BY <1>19 DEF setupWorkspace, GenStep
  <1>20. CASE pullRecertImagePullSpec
    BY <1>20 DEF pullRecertImagePullSpec, GenStep
  <1>21. CASE SaveSecrets
    BY <1>21 DEF SaveSecrets, GenStep
  <1>22. CASE cleanupClusterResources
    BY <1>22 DEF cleanupClusterResources, GenStep
  <1>23. CASE Sanitize
    BY <1>23 DEF Sanitize, GenStep
  <1>24. CASE cleanupOldRenderedMachineConfigs
    BY <1>24 DEF cleanupOldRenderedMachineConfigs, GenStep
  <1>25. CASE SaveCR
    BY <1>25 DEF SaveCR, GenStep
  <1>26. CASE DeleteCRs
    BY <1>26 DEF DeleteCRs, GenStep
  <1>27. CASE launchImager
    BY <1>27 DEF launchImager, GenStep
  <1>28. CASE GenFault
    BY <1>28 DEF GenFault, GenerateEnds, DeferredFails, Panics, GenerateFails, RestoreDeferred,
       sanitized, secretDeleted, crDeleted, MayFail
  <1>29. CASE NoSecret
    BY <1>29 DEF NoSecret, GenerateFails, RestoreDeferred, sanitized, secretDeleted, crDeleted,
       MayFail
  <1>30. CASE ImagerReturns
    BY <1>30 DEF ImagerReturns, GenerateEnds, DeferredFails, Panics, GenerateFails,
       RestoreDeferred, sanitized, secretDeleted, crDeleted, MayFail
  <1>31. CASE SanitizeFails
    BY <1>31 DEF SanitizeFails, Panics, GenerateFails, RestoreDeferred, sanitized, secretDeleted,
       crDeleted, MayFail
  <1>32. CASE StatusUpdateFails
    BY <1>32 DEF StatusUpdateFails, Panics, FaultOf, RestoreDeferred, sanitized, secretDeleted,
       crDeleted, MayFail
  <1>33. CASE ImagerFails
    BY <1>33 DEF ImagerFails, Fault, FaultOf, MayFail
  <1>34. CASE Collect
    BY <1>34 DEF Collect, ImagerStep, Skips, FaultOf, MayFail
  <1>35. CASE StopClusterServices
    BY <1>35 DEF StopClusterServices, ImagerStep
  <1>36. CASE ForceExpireSeedCrypto
    BY <1>36 DEF ForceExpireSeedCrypto, ImagerStep, Skips, RecertFullFlow, FaultOf, MayFail
  <1>37. CASE backupVar
    BY <1>37 DEF backupVar, ImagerStep, Skips, Var, FaultOf, MayFail
  <1>38. CASE createAndPushSeedImage
    BY <1>38 DEF createAndPushSeedImage, ImagerStep
  <1>39. CASE RestoreCrypto
    BY <1>39 DEF RestoreCrypto, ImagerStep, RecertFullFlow, Fault, FaultOf, MayFail
  <1>40. CASE RemoveFolders
    BY <1>40 DEF RemoveFolders, ImagerStep, FaultOf, MayFail
  <1>41. CASE RestoreKubelet
    BY <1>41 DEF RestoreKubelet, ImagerStep, Fault, FaultOf, MayFail
  <1>42. CASE ImagerExit
    BY <1>42 DEF ImagerExit, ImagerStep
  <1>43. CASE CreateCR
    BY <1>43 DEF CreateCR
  <1>44. CASE DeleteCR
    BY <1>44 DEF DeleteCR
  <1>45. CASE RestoreCommand
    BY <1>45 DEF RestoreCommand
  <1>46. CASE OperatorCrash
    BY <1>46 DEF OperatorCrash, FaultOf, MayFail
  <1>47. CASE PowerLoss
    BY <1>47 DEF PowerLoss, FaultOf, MayFail
  <1>48. CASE UNCHANGED vars
    BY <1>48 DEF vars
  <1> QED BY <1>1, <1>2, <1>3, <1>4, <1>5, <1>6, <1>7, <1>8, <1>9, <1>10, <1>11, <1>12, <1>13,
             <1>14, <1>15, <1>16, <1>17, <1>18, <1>19, <1>20, <1>21, <1>22, <1>23, <1>24, <1>25,
             <1>26, <1>27, <1>28, <1>29, <1>30, <1>31, <1>32, <1>33, <1>34, <1>35, <1>36, <1>37,
             <1>38, <1>39, <1>40, <1>41, <1>42, <1>43, <1>44, <1>45, <1>46, <1>47, <1>48
           DEF Next, Start, Reconcile, Generate, Imager

\* The pull-secret comes back.
LEMMA PullStep == Shape /\ PushInv /\ CleanInv /\ SecretInv /\ PullInv /\ [Next]_vars => PullInv'
  <1> SUFFICES ASSUME Shape, PushInv, CleanInv, SecretInv, PullInv, [Next]_vars
               PROVE  PullInv'
    OBVIOUS
  <1> USE DEF Shape, AllKinds, NoFiles, PushInv, CleanInv, SecretInv, PullInv, BeforeSanitize,
              AfterSanitize, GenSteps, InitSteps, opVars, apiVars, hostVars
  <1>1. CASE OperatorStart
    BY <1>1 DEF OperatorStart
  <1>2. CASE InitIBU
    BY <1>2 DEF InitIBU
  <1>3. CASE initSeedGen
    BY <1>3 DEF initSeedGen
  <1>4. CASE initSecret
    BY <1>4 DEF initSecret
  <1>5. CASE initCR
    BY <1>5 DEF initCR
  <1>6. CASE initRename
    BY <1>6 DEF initRename
  <1>7. CASE initPull
    BY <1>7 DEF initPull
  <1>8. CASE InitIPConfig
    BY <1>8 DEF InitIPConfig
  <1>9. CASE StartFails
    BY <1>9 DEF StartFails, FaultOf, MayFail
  <1>10. CASE initPullFails
    BY <1>10 DEF initPullFails, FaultOf, MayFail
  <1>11. CASE ReconcileInitial
    <2>1. \A k \in AllKinds : faults'[k] = 0 => faults[k] = 0
      BY <1>11, Faults DEF ReconcileInitial, StoreStatus
    <2>2. op' = op /\ pull' = pull /\ files' = files /\ op = "idle" /\ cr' # "Completed"
      BY <1>11, Phases DEF ReconcileInitial, StoreStatus
    <2> QED BY <2>1, <2>2
  <1>12. CASE ReconcileEnded
    BY <1>12, Phases DEF ReconcileEnded
  <1>13. CASE ReconcileGenerating
    BY <1>13, Phases DEF ReconcileGenerating
  <1>14. CASE ReconcileFinalizing
    BY <1>14, Phases DEF ReconcileFinalizing, StoreStatus, FaultOf, MayFail
  <1>15. CASE finishSeedgen
    BY <1>15 DEF finishSeedgen, StoreStatus, FaultOf, MayFail
  <1>16. CASE ReconcileIBU
    BY <1>16 DEF ReconcileIBU
  <1>17. CASE MCOSync
    BY <1>17 DEF MCOSync
  <1>18. CASE HealthChecks
    BY <1>18 DEF HealthChecks, GenStep, StoreStatus, FaultOf, MayFail
  <1>19. CASE setupWorkspace
    BY <1>19 DEF setupWorkspace, GenStep
  <1>20. CASE pullRecertImagePullSpec
    BY <1>20 DEF pullRecertImagePullSpec, GenStep
  <1>21. CASE SaveSecrets
    BY <1>21 DEF SaveSecrets, GenStep
  <1>22. CASE cleanupClusterResources
    BY <1>22 DEF cleanupClusterResources, GenStep
  <1>23. CASE Sanitize
    BY <1>23 DEF Sanitize, GenStep
  <1>24. CASE cleanupOldRenderedMachineConfigs
    BY <1>24 DEF cleanupOldRenderedMachineConfigs, GenStep
  <1>25. CASE SaveCR
    BY <1>25 DEF SaveCR, GenStep
  <1>26. CASE DeleteCRs
    BY <1>26 DEF DeleteCRs, GenStep
  <1>27. CASE launchImager
    BY <1>27 DEF launchImager, GenStep
  <1>28. CASE GenFault
    BY <1>28 DEF GenFault, GenerateEnds, DeferredFails, Panics, GenerateFails, RestoreDeferred,
       sanitized, secretDeleted, crDeleted, MayFail
  <1>29. CASE NoSecret
    BY <1>29 DEF NoSecret, GenerateFails, RestoreDeferred, sanitized, secretDeleted, crDeleted,
       MayFail
  <1>30. CASE ImagerReturns
    <2> DEFINE failed == faults
    <2>1. CASE GenerateFails(failed)
      BY <1>30, <2>1 DEF ImagerReturns, GenerateFails, RestoreDeferred, sanitized, secretDeleted, crDeleted, MayFail
    <2>2. CASE DeferredFails(failed)
      BY <1>30, <2>2 DEF ImagerReturns, DeferredFails, secretDeleted, crDeleted, MayFail
    <2>3. CASE sanitized /\ Panics(failed)
      BY <1>30, <2>3 DEF ImagerReturns, Panics, sanitized, secretDeleted, crDeleted, MayFail
    <2> QED BY <1>30, <2>1, <2>2, <2>3 DEF ImagerReturns, GenerateEnds
  <1>31. CASE SanitizeFails
    BY <1>31 DEF SanitizeFails, Panics, GenerateFails, RestoreDeferred, sanitized, secretDeleted,
       crDeleted, MayFail
  <1>32. CASE StatusUpdateFails
    BY <1>32 DEF StatusUpdateFails, Panics, FaultOf, RestoreDeferred, sanitized, secretDeleted,
       crDeleted, MayFail
  <1>33. CASE ImagerFails
    BY <1>33 DEF ImagerFails, Fault, FaultOf, MayFail
  <1>34. CASE Collect
    BY <1>34 DEF Collect, ImagerStep, Skips, FaultOf, MayFail
  <1>35. CASE StopClusterServices
    BY <1>35 DEF StopClusterServices, ImagerStep
  <1>36. CASE ForceExpireSeedCrypto
    BY <1>36 DEF ForceExpireSeedCrypto, ImagerStep, Skips, RecertFullFlow, FaultOf, MayFail
  <1>37. CASE backupVar
    BY <1>37 DEF backupVar, ImagerStep, Skips, Var, FaultOf, MayFail
  <1>38. CASE createAndPushSeedImage
    BY <1>38 DEF createAndPushSeedImage, ImagerStep
  <1>39. CASE RestoreCrypto
    BY <1>39 DEF RestoreCrypto, ImagerStep, RecertFullFlow, Fault, FaultOf, MayFail
  <1>40. CASE RemoveFolders
    BY <1>40 DEF RemoveFolders, ImagerStep, FaultOf, MayFail
  <1>41. CASE RestoreKubelet
    BY <1>41 DEF RestoreKubelet, ImagerStep, Fault, FaultOf, MayFail
  <1>42. CASE ImagerExit
    BY <1>42 DEF ImagerExit, ImagerStep
  <1>43. CASE CreateCR
    BY <1>43 DEF CreateCR
  <1>44. CASE DeleteCR
    BY <1>44 DEF DeleteCR
  <1>45. CASE RestoreCommand
    BY <1>45 DEF RestoreCommand
  <1>46. CASE OperatorCrash
    BY <1>46 DEF OperatorCrash, FaultOf, MayFail
  <1>47. CASE PowerLoss
    BY <1>47 DEF PowerLoss, FaultOf, MayFail
  <1>48. CASE UNCHANGED vars
    BY <1>48 DEF vars
  <1> QED BY <1>1, <1>2, <1>3, <1>4, <1>5, <1>6, <1>7, <1>8, <1>9, <1>10, <1>11, <1>12, <1>13,
             <1>14, <1>15, <1>16, <1>17, <1>18, <1>19, <1>20, <1>21, <1>22, <1>23, <1>24, <1>25,
             <1>26, <1>27, <1>28, <1>29, <1>30, <1>31, <1>32, <1>33, <1>34, <1>35, <1>36, <1>37,
             <1>38, <1>39, <1>40, <1>41, <1>42, <1>43, <1>44, <1>45, <1>46, <1>47, <1>48
           DEF Next, Start, Reconcile, Generate, Imager

-----------------------------------------------------------------------------
(* The theorems. *)

\* The invariant holds at the start.
LEMMA InitInv == Init => Inv
  <1> SUFFICES ASSUME Init
               PROVE  Inv
    OBVIOUS
  <1> USE DEF Init
  <1>1. Shape
    BY DEF Shape, AllKinds, Statuses, NoFiles, AfterSanitize, InitSteps
  <1>2. PushInv
    BY DEF PushInv, Restoring, GenSteps
  <1>3. MarksInv
    BY DEF MarksInv, NoImage, Bare
  <1>4. CleanInv
    BY DEF CleanInv, CleanVar, AfterSanitize
  <1>5. SecretInv
    BY DEF SecretInv, AfterSanitize, BeforeSanitize
  <1>6. PullInv
    BY DEF PullInv, NoFiles, AfterSanitize, BeforeSanitize, InitSteps
  <1> QED BY <1>1, <1>2, <1>3, <1>4, <1>5, <1>6 DEF Inv

\* It holds in every state of every behaviour.
LEMMA Invariance == Spec => []Inv
  <1>1. Inv /\ [Next]_vars => Inv'
    BY ShapeStep, PushStep, MarksStep, CleanStep, SecretStep, PullStep DEF Inv
  <1> QED BY <1>1, InitInv, PTL DEF Spec

\* Whatever fails and whenever the operator or the node dies, a CR that reports
\* Completed has its image in the registry: checkImagerStatus never takes the
\* container of an earlier generation for the one of this CR.  The image lacks
\* the archive of /var only if a mark of the imager could not be looked at.
THEOREM CompletedIsPushed == Spec => []CompletedMeansPushed
  <1>1. Inv => CompletedMeansPushed
    BY DEF Inv, PushInv, MarksInv, CompletedMeansPushed
  <1> QED BY <1>1, Invariance, PTL

\* A Completed generation has left the seedgen secret in the seed cluster whatever
\* has failed or died, the original certificates unless a mark of the imager could
\* not be looked at or removed, and the pull-secret as long as neither the operator
\* nor the node has died and no replacement of the pull-secret has failed.
THEOREM CompletedIsRestored == Spec => []CompletedMeansRestored
  <1>1. Inv => CompletedMeansRestored
    BY DEF Inv, PushInv, MarksInv, SecretInv, PullInv, CompletedMeansRestored
  <1> QED BY <1>1, Invariance, PTL

\* As long as the operator does not die on its own, a pushed archive holds of the
\* seed cluster's objects only the IPConfig CR, an empty pull-secret in etcd and on
\* the host, and certificates that have expired, the last unless recert is skipped
\* or a mark of the imager could not be looked at or removed.
THEOREM PushedSeedIsClean == Spec => []SeedIsClean
  <1>1. Inv => SeedIsClean
    BY DEF Inv, CleanInv, CleanVar, SeedIsClean
  <1> QED BY <1>1, Invariance, PTL
=============================================================================
