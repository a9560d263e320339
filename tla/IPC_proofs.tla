------------------------------ MODULE IPC_proofs ------------------------------
(***************************************************************************)
(* Proofs about module IPC, for every number of networks, edits and faults *)
(* and with and without "ostree admin set-default".                        *)
(*                                                                         *)
(* The inductive invariant Core relates what survives a boot (the disks,   *)
(* the CRs in the etcds, the saved CRs), what a boot starts (the units),   *)
(* and the memory of the reconcile.  Its heart is StoreOK: the CR that     *)
(* InitIPConfig would find in a stateroot is true of that stateroot, at    *)
(* every moment at which a reboot can come.  Core holds until the          *)
(* operator's pod dies (Tolerated).                                        *)
(***************************************************************************)
EXTENDS IPC, TLAPS

\* The constants: the bounds are natural numbers, the features are on or off.
LEMMA ConstantsTyped ==
    /\ MaxNet \in Nat /\ 0 \in Stateroot /\ 1 \in Stateroot
    /\ SetDefaultFeature \in BOOLEAN /\ AutoRollback \in BOOLEAN
    /\ MaxEdits \in Nat /\ MaxFaults \in Nat
<1>1. MaxNet \in Nat /\ MaxNet # 0
  BY MaxNetAssumption
<1>2. 0 \in Stateroot /\ 1 \in Stateroot
  BY <1>1 DEF Stateroot
<1>3. SetDefaultFeature \in BOOLEAN /\ AutoRollback \in BOOLEAN
  BY SwitchesAssumption
<1> QED
  BY <1>1, <1>2, <1>3, IPCBoundsAssumption

\* The setters of the status conditions (SetIPStatusInProgress, SetIPStatusEnded
\* and the like) give conditions.
LEMMA ConditionsTyped ==
    ASSUME NEW c \in IPConditions
    PROVE  /\ \A t \in IPConditionTypes, r \in IPConditionReasons :
                  SetIPCondition(c, t, r) \in IPConditions
           /\ \A stage \in IPStages : SetIPStatusInProgress(c, stage) \in IPConditions
           /\ \A stage \in IPStages : SetIPStatusInvalidTransition(c, stage) \in IPConditions
           /\ \A stage \in IPStages, r \in {"Completed", "Failed"} :
                  SetIPStatusEnded(c, stage, r) \in IPConditions
           /\ ClearIPInvalidTransitionStatusConditions(c) \in IPConditions
<1>1. \A stage \in IPStages : /\ GetIPInProgressConditionType(stage) \in IPConditionTypes
                              /\ GetIPCompletedConditionType(stage) \in IPConditionTypes
  BY DEF IPStages, GetIPInProgressConditionType, GetIPCompletedConditionType, IPConditionTypes,
         IPInProgressTypes, IPCompletedTypes
<1>2. {"None", "InProgress", "InvalidTransition", "Completed", "Failed",
       "ConfigurationInProgress"} \subseteq IPConditionReasons
  BY DEF IPConditionReasons
<1>3. \A t \in IPConditionTypes, r \in IPConditionReasons : SetIPCondition(c, t, r) \in IPConditions
  BY DEF SetIPCondition, IPConditions
<1>4. \A stage \in IPStages : /\ SetIPStatusInProgress(c, stage) \in IPConditions
                              /\ SetIPStatusInvalidTransition(c, stage) \in IPConditions
  BY <1>1, <1>2, <1>3 DEF SetIPStatusInProgress, SetIPStatusInvalidTransition
<1>5. \A stage \in IPStages, r \in {"Completed", "Failed"} :
          SetIPStatusEnded(c, stage, r) \in IPConditions
  BY <1>1, <1>2 DEF SetIPStatusEnded, IPConditions
<1>6. ClearIPInvalidTransitionStatusConditions(c) \in IPConditions
  BY <1>2 DEF ClearIPInvalidTransitionStatusConditions, IPConditions
<1> QED
  BY <1>3, <1>4, <1>5, <1>6

\* So do the absent conditions of a new CR and the reset of the Idle handler
\* (ResetIPStatusConditions).
LEMMA NoConditionsTyped ==
    NoIPConditions \in IPConditions /\ ResetIPStatusConditions \in IPConditions
<1>1. NoIPConditions \in IPConditions
  BY DEF NoIPConditions, IPConditions, IPConditionReasons
<1>2. "Idle" \in IPConditionTypes /\ "Idle" \in IPConditionReasons
  BY DEF IPConditionTypes, IPConditionReasons
<1> QED
  BY <1>1, <1>2 DEF ResetIPStatusConditions, IPConditions

\* validIPNextStages gives stages.
LEMMA NextStagesTyped ==
    ASSUME NEW c, NEW stage \in IPStages, NEW r
    PROVE  validIPNextStages(c, stage, r) \in SUBSET IPStages
BY DEF validIPNextStages, IPStages

\* A CR whose conditions or valid next stages a handler has set is a CR.
LEMMA CRsTyped ==
    /\ NoCR \in CRs /\ InitialCR \in CRs
    /\ \A x \in CRs, c \in IPConditions : [x EXCEPT !.conds = c] \in CRs
    /\ \A x \in CRs : Exists(x) => x.stage \in IPStages
    /\ \A x \in CRs : Exists(x) => WithNextStages(x) \in CRs
<1>1. NoCR \in CRs
  BY NoConditionsTyped, ConstantsTyped DEF NoCR, CRs, IPStages
<1>2. InitialCR \in CRs
  BY NoConditionsTyped, ConstantsTyped DEF InitialCR, NoCR, CRs, IPStages
<1>3. \A x \in CRs, c \in IPConditions : [x EXCEPT !.conds = c] \in CRs
  BY DEF CRs
<1>4. \A x \in CRs : Exists(x) => x.stage \in IPStages
  BY DEF CRs, Exists
<1>5. \A x \in CRs : Exists(x) => WithNextStages(x) \in CRs
  BY <1>4, NextStagesTyped DEF CRs, WithNextStages
<1> QED
  BY <1>1, <1>2, <1>3, <1>4, <1>5

-----------------------------------------------------------------------------
(* Types. *)

\* Types, a host that can boot, and a CR in the memory of a reconcile at work.
TypeInv ==
    /\ TypeOK
    /\ BootableHost
    /\ pc \notin {"idle", "restored"} => Exists(ipc)

\* The installed node is well typed and boots the one stateroot it has.
LEMMA TypeInvInit == Init => TypeInv
<1> SUFFICES ASSUME Init PROVE TypeInv
  OBVIOUS
<1>1. EmptyDisk \in Disks
  BY ConstantsTyped DEF EmptyDisk, Disks, MonitorStates
<1>2. [EmptyDisk EXCEPT !.net = 1, !.cert = 1, !.kubelet = TRUE] \in Disks
  BY <1>1, ConstantsTyped DEF Disks
<1>3. disk \in [Stateroot -> Disks]
  BY <1>1, <1>2 DEF Init
<1>4. cr \in [Stateroot -> CRs] /\ file \in [Stateroot -> CRs] /\ ipc \in CRs /\ deleted \in CRs
  BY CRsTyped DEF Init
<1>5. faults \in [FaultKinds -> 0 .. MaxFaults] /\ edits \in 0 .. MaxEdits
  BY ConstantsTyped DEF Init
<1>6. TypeOK
  BY <1>3, <1>4, <1>5, ConstantsTyped DEF Init, TypeOK, Units, Services, ServiceSteps, PCs
<1> QED
  BY <1>6 DEF Init, TypeInv, BootableHost

\* A fault stays within the bound.
LEMMA FaultTyped ==
    ASSUME TypeOK, Fault
    PROVE  faults' \in [FaultKinds -> 0 .. MaxFaults]
<1>1. /\ faults \in [FaultKinds -> 0 .. MaxFaults]
      /\ faults' = [faults EXCEPT !["other"] = @ + 1]
      /\ faults["operator"] + faults["other"] < MaxFaults
  BY DEF TypeOK, Fault, FaultAllowed
<1>2. faults["operator"] \in 0 .. MaxFaults /\ faults["other"] \in 0 .. MaxFaults
  BY <1>1 DEF FaultKinds
<1>3. faults["other"] + 1 \in 0 .. MaxFaults
  BY <1>1, <1>2, ConstantsTyped
<1> QED
  BY <1>1, <1>3

\* The stateroot a rollback goes to is deployed and is not the booted one
\* (UnbootedStateroot).
LEMMA UnbootedTyped ==
    ASSUME TypeOK, BootableHost, isUnbootedStaterootAvailable
    PROVE  UnbootedStateroot \in deployed /\ UnbootedStateroot # booted /\ UnbootedStateroot \in Stateroot
<1>1. CASE default # booted
  BY <1>1 DEF UnbootedStateroot, BootableHost, TypeOK
<1>2. CASE default = booted
  <2>1. PICK s \in deployed : s # booted
    BY DEF isUnbootedStaterootAvailable, BootableHost
  <2>2. UnbootedStateroot = CHOOSE u \in deployed \ {booted} : TRUE
    BY <1>2 DEF UnbootedStateroot
  <2>3. UnbootedStateroot \in deployed \ {booted}
    BY <2>1, <2>2
  <2> QED
    BY <2>3 DEF TypeOK
<1> QED
  BY <1>1, <1>2

\* UpdateIPCStatus of an existing CR, whether it is written or refused, keeps
\* the types.
LEMMA UpdateTyped ==
    ASSUME TypeInv, NEW x \in CRs, Exists(x), NEW next \in PCs, NEW requeue \in BOOLEAN,
           UpdateIPCStatus(x, next, requeue),
           UNCHANGED <<hostVars, file, unitVars, envVars>>
    PROVE  TypeInv'
<1> USE DEF TypeInv
<1>1. faults' \in [FaultKinds -> 0 .. MaxFaults]
  BY FaultTyped DEF UpdateIPCStatus, TypeOK
<1>2. cr' \in [Stateroot -> CRs]
  BY DEF UpdateIPCStatus, TypeOK
<1>3. pc' \in PCs /\ queued' \in BOOLEAN /\ ipc' = x /\ up' = up /\ fresh' = fresh
  BY DEF UpdateIPCStatus, TypeOK, PCs
<1>4. TypeOK'
  BY <1>1, <1>2, <1>3 DEF TypeOK, hostVars, unitVars, envVars
<1> QED
  BY <1>3, <1>4 DEF hostVars, BootableHost

\* The CR that a handler ends a stage in is a CR.
LEMMA EndedTyped ==
    ASSUME TypeInv, Exists(ipc)
    PROVE  /\ \A stage \in IPStages, r \in {"Completed", "Failed"} :
                  Ended(stage, r) \in CRs /\ Exists(Ended(stage, r))
           /\ \A c \in IPConditions : [ipc EXCEPT !.conds = c] \in CRs /\ Exists([ipc EXCEPT !.conds = c])
<1>1. ipc \in CRs /\ ipc.conds \in IPConditions
  BY DEF TypeInv, TypeOK, CRs
<1>2. \A c \in IPConditions : [ipc EXCEPT !.conds = c] \in CRs /\ Exists([ipc EXCEPT !.conds = c])
  BY <1>1, CRsTyped DEF Exists, CRs
<1>3. \A stage \in IPStages, r \in {"Completed", "Failed"} :
          SetIPStatusEnded(ipc.conds, stage, r) \in IPConditions
  BY <1>1, ConditionsTyped
<1> QED
  BY <1>2, <1>3 DEF Ended

\* A handler at work has a CR in memory.
LEMMA HandlingFacts ==
    ASSUME TypeInv
    PROVE  /\ \A stage \in IPStages : Handling(stage) => Exists(ipc) /\ ipc.stage = stage
           /\ \A stage \in IPStages, at \in PCs \ {"idle", "restored"} : InStage(stage, at) => Exists(ipc)
BY DEF TypeInv, Handling, InStage, Exists, IPStages

\* The steps of a reconcile that only end in a status update.
StatusSteps ==
    \/ RefuseTransition \/ EnterConfig \/ validateConfigStart
    \/ PrePivotNothing \/ PrePivotWait \/ PrePivotFailed
    \/ DisableInitMonitorFailed \/ PostPivotWait \/ PostPivotComplete
    \/ EnterRollback \/ RollbackPrePivotFailed
    \/ RollbackPostPivotWait \/ RollbackPostPivotComplete
    \/ EnterIdle \/ IdleWait

\* The steps of the handlers that end in UpdateIPCStatus keep the types.
LEMMA StatusStepsTyped ==
    ASSUME TypeInv, StatusSteps
    PROVE  TypeInv'
<1> DEFINE Upd(x) == \E next \in PCs, requeue \in BOOLEAN : UpdateIPCStatus(x, next, requeue)
<1>0. PCs = {"idle", "restored", "handle", "validate", "config", "exported", "waiting",
        "unitFailed", "verify", "rollback", "rollbackSaved", "cleanup", "final"}
  BY DEF PCs
<1>1. UNCHANGED <<hostVars, file, unitVars, envVars>>
  BY DEF StatusSteps, RefuseTransition, EnterConfig, validateConfigStart, PrePivotNothing, PrePivotWait,
         PrePivotFailed, DisableInitMonitorFailed, PostPivotWait, PostPivotComplete, EnterRollback,
         RollbackPrePivotFailed, RollbackPostPivotWait, RollbackPostPivotComplete, EnterIdle, IdleWait
<1>2. Exists(ipc)
  BY HandlingFacts, <1>0
  DEF StatusSteps, RefuseTransition, EnterConfig, validateConfigStart, PrePivotNothing, PrePivotWait,
      PrePivotFailed, DisableInitMonitorFailed, PostPivotWait, PostPivotComplete, EnterRollback,
      RollbackPrePivotFailed, RollbackPostPivotWait, RollbackPostPivotComplete, EnterIdle, IdleWait,
      PrePivoting, PostPivoting, InConfig, InRollback, CleaningUp, TypeInv, IPStages
<1>3. ipc \in CRs /\ ipc.conds \in IPConditions
  BY DEF TypeInv, TypeOK, CRs
<1>4. \A x \in CRs : Exists(x) /\ Upd(x) => TypeInv'
  BY <1>1, UpdateTyped
<1>5. ASSUME NEW c \in IPConditions, Upd([ipc EXCEPT !.conds = c])
      PROVE  TypeInv'
  BY <1>2, <1>4, <1>5, EndedTyped
<1>6. ASSUME NEW stage \in IPStages, NEW r \in {"Completed", "Failed"}, Upd(Ended(stage, r))
      PROVE  TypeInv'
  BY <1>2, <1>4, <1>6, EndedTyped
<1>7. ASSUME Upd(ipc) PROVE TypeInv'
  BY <1>2, <1>3, <1>4, <1>7
<1>8. {"Idle", "Config", "Rollback"} = IPStages /\ "Idle" \in IPConditionTypes
      /\ {"ConfigurationInProgress", "InProgress"} \subseteq IPConditionReasons
  BY DEF IPStages, IPConditionTypes, IPConditionReasons
<1>9. PrePivoting \in BOOLEAN
  BY DEF PrePivoting, InConfig, InStage, Handling, rollbackable
<1> HIDE DEF Upd
<1>10. CASE RefuseTransition
  <2>1. Upd([ipc EXCEPT !.conds = SetIPStatusInvalidTransition(ipc.conds, ipc.stage)])
    BY <1>10, <1>0 DEF RefuseTransition, Upd
  <2>2. ipc.stage \in IPStages
    BY <1>2, <1>3, CRsTyped
  <2>3. SetIPStatusInvalidTransition(ipc.conds, ipc.stage) \in IPConditions
    BY <1>3, <2>2, ConditionsTyped
  <2> QED
    BY <2>1, <2>3, <1>5
<1>11. CASE EnterConfig
  <2> DEFINE c == SetIPCondition(ClearIPInvalidTransitionStatusConditions(ipc.conds), "Idle", "ConfigurationInProgress")
  <2>1. Upd([ipc EXCEPT !.conds = c])
    BY <1>11, <1>0 DEF EnterConfig, Upd
  <2>2. c \in IPConditions
    BY <1>3, <1>8, ConditionsTyped
  <2> HIDE DEF c
  <2> QED
    BY <2>1, <2>2, <1>5
<1>12. CASE validateConfigStart
  <2>1. Upd([ipc EXCEPT !.conds = SetIPStatusInProgress(ipc.conds, "Config")]) \/ Upd(Ended("Config", "Failed"))
    BY <1>12, <1>0 DEF validateConfigStart, Upd
  <2>2. SetIPStatusInProgress(ipc.conds, "Config") \in IPConditions
    BY <1>3, <1>8, ConditionsTyped
  <2> QED
    BY <2>1, <2>2, <1>5, <1>6, <1>8
<1>13. CASE PrePivotNothing \/ PrePivotFailed \/ DisableInitMonitorFailed \/ PostPivotComplete
            \/ RollbackPrePivotFailed \/ RollbackPostPivotComplete
  <2>1. \E stage \in {"Config", "Rollback"}, r \in {"Completed", "Failed"} : Upd(Ended(stage, r))
    BY <1>13, <1>0, <1>9 DEF PrePivotNothing, PrePivotFailed, DisableInitMonitorFailed,
         PostPivotComplete, RollbackPrePivotFailed, RollbackPostPivotComplete, Upd
  <2> QED
    BY <2>1, <1>6, <1>8
<1>14. CASE PrePivotWait \/ PostPivotWait \/ RollbackPostPivotWait \/ IdleWait
  <2>1. Upd(ipc)
    BY <1>14, <1>0 DEF PrePivotWait, PostPivotWait, RollbackPostPivotWait, IdleWait, Upd
  <2> QED
    BY <2>1, <1>7
<1>15. CASE EnterRollback
  <2> DEFINE c == SetIPStatusInProgress(ClearIPInvalidTransitionStatusConditions(ipc.conds), "Rollback")
  <2>1. Upd([ipc EXCEPT !.conds = c]) \/ Upd(Ended("Rollback", "Failed"))
    BY <1>15, <1>0 DEF EnterRollback, Upd
  <2>2. c \in IPConditions
    BY <1>3, <1>8, ConditionsTyped
  <2> HIDE DEF c
  <2> QED
    BY <2>1, <2>2, <1>5, <1>6, <1>8
<1>16. CASE EnterIdle
  <2> DEFINE c == SetIPCondition(ClearIPInvalidTransitionStatusConditions(ipc.conds), "Idle", "InProgress")
  <2>1. Upd([ipc EXCEPT !.conds = c])
    BY <1>16, <1>0 DEF EnterIdle, Upd
  <2>2. c \in IPConditions
    BY <1>3, <1>8, ConditionsTyped
  <2> HIDE DEF c
  <2> QED
    BY <2>1, <2>2, <1>5
<1> QED
  BY <1>10, <1>11, <1>12, <1>13, <1>14, <1>15, <1>16 DEF StatusSteps

\* So do the frame of the reconcile, InitIPConfig, the watch and the writes of
\* the handlers to the host.
LEMMA OperatorTyped ==
    ASSUME TypeInv,
           \/ Reconcile \/ HandleNothing \/ ReconcileFinal \/ InitIPConfig \/ DeleteFunc
           \/ exportIPConfigForUncontrolledRollback \/ RunLcaCliIPConfigPrePivot
           \/ DisableInitMonitor \/ SaveIPConfigForRollback \/ handleManualCleanup
    PROVE  TypeInv'
<1> USE DEF TypeInv, BootableHost
<1>0. booted \in Stateroot /\ cr[booted] \in CRs /\ file[booted] \in CRs
  BY DEF TypeOK
<1>1. CASE Reconcile
  <2>1. cr[booted].stage # "None" /\ WithNextStages(cr[booted]) \in CRs
        /\ WithNextStages(cr[booted]).stage = cr[booted].stage
    BY <1>0, <1>1, CRsTyped DEF Reconcile, Exists, WithNextStages, CRs
  <2>2. ipc' \in CRs /\ Exists(ipc') /\ cr' = [cr EXCEPT ![booted] = ipc']
    BY <1>0, <1>1, <2>1 DEF Reconcile, Exists
  <2> QED
    BY <1>0, <1>1, <2>2 DEF Reconcile, TypeOK, hostVars, unitVars, envVars, PCs
<1>2. CASE HandleNothing
  BY <1>2 DEF HandleNothing, Handling, TypeOK, hostVars, storeVars, unitVars, envVars, PCs
<1>3. CASE ReconcileFinal
  <2>1. WithNextStages(ipc) \in CRs
    BY <1>3, CRsTyped DEF ReconcileFinal, TypeOK
  <2>2. cr' \in [Stateroot -> CRs] /\ queued' \in BOOLEAN
    BY <1>3, <2>1 DEF ReconcileFinal, TypeOK
  <2> QED
    BY <1>3, <2>2, CRsTyped DEF ReconcileFinal, TypeOK, hostVars, unitVars, envVars, PCs
<1>4. CASE InitIPConfig
  <2>1. CASE InitIPConfigCreate
    BY <2>1, CRsTyped DEF InitIPConfigCreate, InitIPConfigRequired, TypeOK, hostVars, unitVars, envVars
  <2>2. CASE InitIPConfigRestore
    BY <2>2, <1>0 DEF InitIPConfigRestore, InitIPConfigRequired, TypeOK, hostVars, unitVars, envVars,
         PCs
  <2>3. CASE InitIPConfigRemove
    BY <2>3, <1>0, CRsTyped DEF InitIPConfigRemove, TypeOK, hostVars, unitVars, envVars, PCs
  <2>4. CASE InitIPConfigFail
    <3>1. faults' \in [FaultKinds -> 0 .. MaxFaults]
      BY <2>4, FaultTyped DEF InitIPConfigFail
    <3>2. [file[booted] EXCEPT !.conds = NoIPConditions, !.next = {}] \in CRs
      BY <1>0, NoConditionsTyped DEF CRs
    <3>3. cr' \in [Stateroot -> CRs]
      BY <2>4, <3>2, CRsTyped DEF InitIPConfigFail, TypeOK
    <3> QED
      BY <2>4, <3>1, <3>3 DEF InitIPConfigFail, TypeOK, hostVars, unitVars, opVars, envVars
  <2> QED
    BY <1>4, <2>1, <2>2, <2>3, <2>4 DEF InitIPConfig
<1>5. CASE DeleteFunc
  BY <1>5, CRsTyped DEF DeleteFunc, TypeOK, hostVars, unitVars
<1>6. CASE exportIPConfigForUncontrolledRollback
  <2>1. Exists(ipc)
    BY <1>6, HandlingFacts DEF exportIPConfigForUncontrolledRollback, PrePivoting, InConfig, IPStages,
         PCs
  <2>2. Ended("Config", "Failed") \in CRs
    BY <2>1, EndedTyped DEF IPStages
  <2>3. disk' \in [Stateroot -> Disks]
    BY <1>6 DEF exportIPConfigForUncontrolledRollback, TypeOK, Disks
  <2> QED
    BY <1>6, <2>1, <2>2, <2>3 DEF exportIPConfigForUncontrolledRollback, TypeOK, unitVars, envVars, PCs
<1>7. CASE RunLcaCliIPConfigPrePivot
  <2>1. ipc.net \in Stateroot
    BY DEF TypeOK, CRs
  <2> QED
    BY <1>7, <2>1 DEF RunLcaCliIPConfigPrePivot, TypeOK, hostVars, storeVars, envVars, PCs, Units
<1>8. CASE DisableInitMonitor
  <2>1. Exists(ipc)
    BY <1>8, HandlingFacts DEF DisableInitMonitor, PostPivoting, InConfig, IPStages, PCs
  <2>2. disk' \in [Stateroot -> Disks]
    BY <1>8 DEF DisableInitMonitor, TypeOK, Disks, MonitorStates
  <2> QED
    BY <1>8, <2>1, <2>2 DEF DisableInitMonitor, TypeOK, storeVars, unitVars, envVars, PCs
<1>9. CASE SaveIPConfigForRollback
  <2>1. Exists(ipc)
    BY <1>9, HandlingFacts DEF SaveIPConfigForRollback, InRollback, IPStages, PCs
  <2>2. UnbootedStateroot \in Stateroot
    BY <1>9, UnbootedTyped DEF SaveIPConfigForRollback
  <2> QED
    BY <1>9, <2>1, <2>2 DEF SaveIPConfigForRollback, TypeOK, hostVars, unitVars, envVars, PCs
<1>10. CASE handleManualCleanup
  <2>1. "Idle" \in IPConditionTypes /\ "InProgress" \in IPConditionReasons
    BY DEF IPConditionTypes, IPConditionReasons
  <2>2. ipc.conds \in IPConditions /\ ipc \in CRs
    BY DEF TypeOK, CRs
  <2>3. SetIPCondition(ipc.conds, "Idle", "InProgress") \in IPConditions
    BY <2>1, <2>2, ConditionsTyped
  <2>4. /\ [ipc EXCEPT !.cleaned = FALSE, !.conds = SetIPCondition(@, "Idle", "InProgress")] \in CRs
        /\ [ipc EXCEPT !.cleaned = FALSE, !.conds = SetIPCondition(@, "Idle", "InProgress")].stage = ipc.stage
    BY <2>2, <2>3 DEF CRs
  <2>5. ipc' \in CRs /\ ipc'.stage = ipc.stage /\ cr' \in [Stateroot -> CRs] /\ pc' \in PCs
    BY <1>10, <2>2, <2>4 DEF handleManualCleanup, TypeOK, PCs
  <2> QED
    BY <1>10, <2>5 DEF handleManualCleanup, TypeOK, hostVars, unitVars, envVars, Exists
<1> QED
  BY <1>1, <1>2, <1>3, <1>4, <1>5, <1>6, <1>7, <1>8, <1>9, <1>10

\* The cleanup of the Idle handler keeps the types, the booted deployment and a
\* default that is deployed.
LEMMA CleanupTyped ==
    ASSUME TypeInv, CleanupDone \/ CleanupFailed
    PROVE  TypeInv'
<1> USE DEF TypeInv, BootableHost
<1>0. booted \in Stateroot /\ Exists(ipc) /\ ipc \in CRs /\ ipc.conds \in IPConditions
  BY HandlingFacts DEF CleanupDone, CleanupFailed, CleaningUp, IPStages, PCs, TypeOK, CRs
<1>1. PICK gone \in SUBSET (Stateroot \ {booted}), keep \in BOOLEAN, c \in IPConditions, requeue \in BOOLEAN :
          /\ cleanup(gone, keep)
          /\ CleanupUpdate(gone, [ipc EXCEPT !.conds = c], requeue)
          /\ UNCHANGED <<unitVars, envVars>>
  <2>1. CASE CleanupDone
    BY <2>1, NoConditionsTyped DEF CleanupDone
  <2>2. CASE CleanupFailed
    <3>1. PICK gone \in SUBSET (deployed \ {booted}) :
            /\ cleanup(gone, TRUE)
            /\ CleanupUpdate(gone, [ipc EXCEPT !.conds = SetIPCondition(ipc.conds, "Idle", "Failed")], TRUE)
      BY <2>2 DEF CleanupFailed
    <3>2. "Idle" \in IPConditionTypes /\ "Failed" \in IPConditionReasons
      BY DEF IPConditionTypes, IPConditionReasons
    <3>3. SetIPCondition(ipc.conds, "Idle", "Failed") \in IPConditions
      BY <1>0, <3>2, ConditionsTyped
    <3>4. gone \in SUBSET (Stateroot \ {booted})
      BY DEF TypeOK
    <3> QED
      BY <2>2, <3>1, <3>3, <3>4 DEF CleanupFailed
  <2> QED
    BY <2>1, <2>2
<1>2. [ipc EXCEPT !.conds = c] \in CRs /\ Exists([ipc EXCEPT !.conds = c])
  BY <1>0, EndedTyped
<1>3. EmptyDisk \in Disks
  BY ConstantsTyped DEF EmptyDisk, Disks, MonitorStates
<1>4. Without(disk, gone, EmptyDisk) \in [Stateroot -> Disks]
  BY <1>3 DEF Without, TypeOK
<1> DEFINE d0 == Without(disk, gone, EmptyDisk)
           b == d0[booted]
<1> HIDE DEF d0
<1>5. disk' = [d0 EXCEPT ![booted] = [b EXCEPT !.auto = IF keep THEN @ ELSE FALSE,
                                               !.plan = IF keep THEN @ ELSE 0,
                                               !.done = IF keep THEN @ ELSE {}]]
  BY <1>1, <1>4 DEF cleanup, d0
<1>6. b \in Disks
  BY <1>0, <1>4 DEF d0
<1> HIDE DEF b
<1>7. [b EXCEPT !.auto = IF keep THEN @ ELSE FALSE, !.plan = IF keep THEN @ ELSE 0,
                !.done = IF keep THEN @ ELSE {}] \in Disks
  <2>1. /\ b.auto \in BOOLEAN /\ b.plan \in Stateroot /\ b.done \in SUBSET RunOnceSteps
        /\ \A a \in BOOLEAN, p \in Stateroot, n \in SUBSET RunOnceSteps :
              [b EXCEPT !.auto = a, !.plan = p, !.done = n] \in Disks
    BY <1>6 DEF Disks
  <2>2. /\ (IF keep THEN b.auto ELSE FALSE) \in BOOLEAN
        /\ (IF keep THEN b.plan ELSE 0) \in Stateroot
        /\ (IF keep THEN b.done ELSE {}) \in SUBSET RunOnceSteps
    <3>1. {} \in SUBSET RunOnceSteps
      OBVIOUS
    <3>2. (IF keep THEN b.auto ELSE FALSE) \in BOOLEAN
      BY <2>1
    <3> QED
      BY <2>1, <3>1, <3>2, ConstantsTyped
  <2> QED
    BY <2>1, <2>2
<1>8. disk' \in [Stateroot -> Disks]
  BY <1>0, <1>4, <1>5, <1>7 DEF d0
<1>9. /\ deployed' = deployed \ gone /\ default' = (IF default \in gone THEN booted ELSE default)
      /\ file' = Without(file, gone, NoCR) /\ booted' = booted
  BY <1>1 DEF cleanup
<1>10. file' \in [Stateroot -> CRs] /\ Without(cr, gone, NoCR) \in [Stateroot -> CRs]
  BY <1>9, CRsTyped DEF Without, TypeOK
<1>11. cr' \in [Stateroot -> CRs] /\ queued' \in BOOLEAN
  BY <1>1, <1>2, <1>10 DEF CleanupUpdate, TypeOK
<1>12. faults' \in [FaultKinds -> 0 .. MaxFaults]
  BY <1>1, FaultTyped DEF CleanupUpdate, TypeOK
<1>13. ipc' = [ipc EXCEPT !.conds = c] /\ pc' = "final" /\ UNCHANGED <<up, fresh>>
  BY <1>1 DEF CleanupUpdate
<1>14. booted' \in Stateroot /\ default' \in Stateroot /\ deployed' \in SUBSET Stateroot
       /\ booted' \in deployed' /\ default' \in deployed'
  BY <1>9 DEF TypeOK
<1>15. TypeOK'
  BY <1>1, <1>2, <1>8, <1>10, <1>11, <1>12, <1>13, <1>14 DEF TypeOK, unitVars, envVars, PCs
<1> QED
  BY <1>2, <1>13, <1>14, <1>15

\* So does a boot into a deployed stateroot.
LEMMA BootTyped ==
    ASSUME TypeInv, NEW s \in deployed, NEW d \in [Stateroot -> Disks], BootInto(s, d),
           default' \in deployed, cr' \in [Stateroot -> CRs], file' \in [Stateroot -> CRs],
           faults' \in [FaultKinds -> 0 .. MaxFaults]
    PROVE  TypeInv'
<1>1. /\ booted' \in Stateroot /\ default' \in Stateroot /\ deployed' \in SUBSET Stateroot
      /\ booted' \in deployed' /\ default' \in deployed'
      /\ pc' = "idle" /\ ipc' = NoCR /\ deleted' = NoCR
  BY DEF TypeInv, TypeOK, BootInto, OperatorGone
<1>2. running' \in BOOLEAN
  BY DEF TypeInv, TypeOK, BootInto, Disks
<1>3. NoCR \in CRs
  BY CRsTyped
<1>4. TypeOK'
  BY <1>1, <1>2, <1>3, ConstantsTyped DEF TypeInv, TypeOK, BootInto, OperatorGone, PCs, Units, Services, ServiceSteps
<1> QED
  BY <1>1, <1>4 DEF TypeInv, BootableHost

\* The pre-pivot unit keeps the types: it makes no default of what is not
\* deployed, because it stops when its deployment is gone.
LEMMA UnitTyped ==
    ASSUME TypeInv, PrePivotUnit
    PROVE  TypeInv'
<1> USE DEF TypeInv, BootableHost
<1>0. booted \in Stateroot /\ target \in Stateroot /\ NoCR \in CRs /\ 0 \in Stateroot /\ disk[booted] \in Disks
  BY CRsTyped, ConstantsTyped DEF TypeOK
<1>1. CASE UnitRefuses
  BY <1>0, <1>1 DEF UnitRefuses, TypeOK, hostVars, storeVars, envVars, Units, PCs
<1>2. CASE StopClusterServices
  <2>1. disk' \in [Stateroot -> Disks]
    BY <1>0, <1>2 DEF StopClusterServices, TypeOK, Disks
  <2> QED
    BY <1>0, <1>2, <2>1 DEF StopClusterServices, OperatorGone, TypeOK, storeVars, Units, UnitSteps, PCs
<1>3. CASE StopClusterServicesFails
  <2>1. disk' \in [Stateroot -> Disks]
    BY <1>0, <1>3 DEF StopClusterServicesFails, TypeOK, Disks
  <2>2. faults' \in [FaultKinds -> 0 .. MaxFaults]
    BY <1>3, FaultTyped DEF StopClusterServicesFails
  <2> QED
    BY <1>0, <1>3, <2>1, <2>2 DEF StopClusterServicesFails, OperatorGone, TypeOK, storeVars, Units, PCs
<1>4. CASE deployNewStateroot \/ setDefaultDeploymentIfEnabled
  BY <1>0, <1>4 DEF deployNewStateroot, setDefaultDeploymentIfEnabled, UnitStep, TypeOK, opVars,
       storeVars, envVars, Units, UnitSteps
<1>5. CASE copyStateRootData
  <2>1. [disk[booted] EXCEPT !.monitor = Restarted(@)] \in Disks
    BY <1>0 DEF Disks, Restarted, MonitorStates
  <2>2. disk' \in [Stateroot -> Disks]
    BY <1>0, <1>5, <2>1 DEF copyStateRootData, TypeOK
  <2> QED
    BY <1>0, <1>5, <2>2 DEF copyStateRootData, UnitStep, TypeOK, opVars, envVars, Units, UnitSteps
<1>6. CASE writeNewStateroot \/ EnableClusterServices \/ installServices
  <2>1. disk' \in [Stateroot -> Disks]
    <3>1. CASE writeNewStateroot
      BY <1>0, <3>1 DEF writeNewStateroot, TypeOK, Disks
    <3>2. CASE EnableClusterServices
      BY <1>0, <3>2 DEF EnableClusterServices, TypeOK, Disks
    <3>3. CASE installServices
      <4>1. disk[target] \in Disks
        BY <1>0 DEF TypeOK
      <4>2. [disk[target] EXCEPT !.monitor = "armed", !.service = TRUE] \in Disks
        BY <4>1 DEF Disks, MonitorStates
      <4> QED
        BY <1>0, <3>3, <4>2 DEF installServices, TypeOK
    <3> QED
      BY <1>6, <3>1, <3>2, <3>3
  <2> QED
    BY <1>0, <1>6, <2>1 DEF writeNewStateroot, EnableClusterServices, installServices, UnitStep, TypeOK,
       opVars, storeVars, envVars, Units, UnitSteps
<1>7. CASE removeIPCFileInNewStateroot
  BY <1>0, <1>7 DEF removeIPCFileInNewStateroot, UnitStep, TypeOK, opVars, envVars, Units
<1>8. CASE UnitReboot
  <2>1. [disk EXCEPT ![booted].monitor = "off"] \in [Stateroot -> Disks]
    BY <1>0 DEF TypeOK, Disks, MonitorStates
  <2> QED
    BY <1>8, <2>1, BootTyped DEF UnitReboot, RebootInto, TypeOK, storeVars
<1>9. CASE UnitFails
  <2>1. disk' \in [Stateroot -> Disks]
    BY <1>0, <1>9 DEF UnitFails, TypeOK, Disks
  <2>2. faults' \in [FaultKinds -> 0 .. MaxFaults]
    BY <1>9, FaultTyped DEF UnitFails, TypeOK
  <2> QED
    BY <1>0, <1>9, <2>1, <2>2 DEF UnitFails, TypeOK, opVars, storeVars, envVars, Units
<1> QED
  BY <1>1, <1>2, <1>3, <1>4, <1>5, <1>6, <1>7, <1>8, <1>9 DEF PrePivotUnit

\* The post-pivot service keeps the types.
LEMMA ServiceTyped ==
    ASSUME TypeInv, IPConfigurationService
    PROVE  TypeInv'
<1> USE DEF TypeInv, BootableHost
<1>0. booted \in Stateroot /\ disk[booted] \in Disks
  BY DEF TypeOK
<1>1. \A d \in Disks, to \in Services : \A from :
          ServiceStep(from, to, d) /\ running' \in BOOLEAN /\ faults' \in [FaultKinds -> 0 .. MaxFaults]
              => TypeInv'
  BY <1>0 DEF ServiceStep, TypeOK, opVars, storeVars, envVars
<1>2. CASE applyNetworkConfiguration \/ runRecert
  <2>1. /\ [disk[booted] EXCEPT !.net = disk[booted].plan] \in Disks
        /\ [disk[booted] EXCEPT !.cert = disk[booted].plan] \in Disks
    BY <1>0 DEF Disks
  <2> QED
    BY <1>1, <1>2, <2>1 DEF applyNetworkConfiguration, runRecert, TypeOK, Services, ServiceSteps
<1>3. CASE MarkNetwork \/ MarkRecert
  <2>1. \A m \in RunOnceSteps : disk[booted].done \cup {m} \in SUBSET RunOnceSteps
    BY <1>0 DEF Disks
  <2>2. \A m \in RunOnceSteps : [disk[booted] EXCEPT !.done = @ \cup {m}] \in Disks
    BY <1>0, <2>1 DEF Disks
  <2> QED
    BY <1>1, <1>3, <2>2 DEF MarkNetwork, MarkRecert, TypeOK, Services, ServiceSteps, RunOnceSteps
<1>4. CASE enableAndStartKubelet
  <2>1. [disk[booted] EXCEPT !.kubelet = TRUE] \in Disks
    BY <1>0 DEF Disks
  <2> QED
    BY <1>1, <1>4, <2>1 DEF enableAndStartKubelet, TypeOK, Services, ServiceSteps
<1>5. CASE disableIPConfigurationService
  <2>1. [disk[booted] EXCEPT !.service = FALSE] \in Disks
    BY <1>0 DEF Disks
  <2> QED
    BY <1>1, <1>5, <2>1 DEF disableIPConfigurationService, TypeOK, Services, ServiceSteps
<1>6. CASE PostPivotServiceFails
  <2>1. faults' \in [FaultKinds -> 0 .. MaxFaults]
    BY <1>6, FaultTyped DEF PostPivotServiceFails, TypeOK
  <2> QED
    BY <1>0, <1>1, <1>6, <2>1 DEF PostPivotServiceFails, TypeOK, Services, ServiceSteps
<1>7. CASE RunOnceSkips
  <2>1. faults' \in [FaultKinds -> 0 .. MaxFaults]
    <3>1. 1 \in 0 .. MaxFaults
      BY <1>7, ConstantsTyped DEF RunOnceSkips, FirstFault
    <3> QED
      BY <1>7, <3>1 DEF RunOnceSkips, TypeOK
  <2> QED
    BY <1>0, <1>1, <1>7, <2>1 DEF RunOnceSkips, TypeOK, Services, ServiceSteps
<1> QED
  BY <1>2, <1>3, <1>4, <1>5, <1>6, <1>7 DEF IPConfigurationService

\* InitiateRollback and "lca-cli ip-config rollback" keep the types: what they
\* boot is deployed.
LEMMA RollbackUnitsTyped ==
    ASSUME TypeInv,
           \/ InitiateRollback("service") \/ InitiateRollback("monitor") \/ MonitorFire
           \/ scheduleIPConfigRollback
    PROVE  TypeInv'
<1> USE DEF TypeInv, BootableHost
<1>0. booted \in Stateroot /\ disk[booted] \in Disks
  BY DEF TypeOK
<1>1. ASSUME NEW who \in {"service", "monitor"}, NEW state, SetInitiator(who, state),
             state \in {"switched"} \/ (who = "service" /\ state = "run")
                \/ (who = "monitor" /\ state \in {"off", "fired"})
      PROVE  disk' \in [Stateroot -> Disks] /\ service' \in Services
  <2>1. CASE who = "service"
    BY <1>1, <2>1 DEF SetInitiator, TypeOK, Services, ServiceSteps
  <2>2. CASE who = "monitor"
    BY <1>0, <1>1, <2>2 DEF SetInitiator, TypeOK, Disks, MonitorStates
  <2> QED
    BY <2>1, <2>2
<1>2. [disk EXCEPT ![booted].monitor = "off"] \in [Stateroot -> Disks]
  BY <1>0 DEF TypeOK, Disks, MonitorStates
<1>3. ASSUME NEW who \in {"service", "monitor"}, InitiateRollback(who)
      PROVE  TypeInv'
  <2>1. CASE RollbackSetDefault(who)
    BY <1>1, <2>1, UnbootedTyped DEF RollbackSetDefault, TypeOK, opVars, storeVars, envVars
  <2>2. CASE RollbackReboot(who)
    <3>1. UnbootedStateroot \in Stateroot
      BY <2>2, UnbootedTyped DEF RollbackReboot
    <3> DEFINE x == file[UnbootedStateroot]
    <3>2. x \in CRs /\ x.conds \in IPConditions
      BY <3>1 DEF TypeOK, CRs
    <3>3. SetIPStatusEnded(x.conds, "Config", "Failed") \in IPConditions
      BY <3>2, ConditionsTyped DEF IPStages
    <3>4. [x EXCEPT !.conds = SetIPStatusEnded(@, "Config", "Failed")] \in CRs
      BY <3>2, <3>3, CRsTyped
    <3>5. file' = [file EXCEPT ![UnbootedStateroot] = [x EXCEPT !.conds = SetIPStatusEnded(@, "Config", "Failed")]]
      BY <2>2 DEF RollbackReboot
    <3>6. file' \in [Stateroot -> CRs]
      BY <3>1, <3>4, <3>5 DEF TypeOK
    <3> QED
      BY <1>2, <2>2, <3>6, BootTyped DEF RollbackReboot, RebootInto, TypeOK
  <2>3. CASE RollbackError(who)
    BY <1>1, <2>3 DEF RollbackError, TypeOK, opVars, storeVars, envVars
  <2> QED
    BY <1>3, <2>1, <2>2, <2>3 DEF InitiateRollback
<1>4. CASE MonitorFire
  BY <1>1, <1>4 DEF MonitorFire, TypeOK, opVars, storeVars, envVars
<1>5. CASE scheduleIPConfigRollback
  <2>1. default' \in deployed
    BY <1>5, UnbootedTyped DEF scheduleIPConfigRollback
  <2> QED
    BY <1>2, <1>5, <2>1, BootTyped DEF scheduleIPConfigRollback, RebootInto, TypeOK, storeVars
<1> QED
  BY <1>3, <1>4, <1>5

\* The user, a crash of the operator and a crash of the node keep the types.
LEMMA EnvironmentTyped ==
    ASSUME TypeInv, User \/ OperatorCrash \/ NodeCrash
    PROVE  TypeInv'
<1> USE DEF TypeInv, BootableHost
<1>0. booted \in Stateroot /\ disk[booted] \in Disks /\ cr[booted] \in CRs
  BY DEF TypeOK
<1>1. ASSUME NEW x \in CRs, EditCR(x) PROVE TypeInv'
  <2>1. edits' \in 0 .. MaxEdits
    BY <1>1, ConstantsTyped DEF EditCR, EditAllowed, TypeOK
  <2> QED
    BY <1>0, <1>1, <2>1 DEF EditCR, TypeOK, hostVars, unitVars
<1>2. ASSUME NEW stage \in IPStages, NEW net \in Stateroot, SetSpec(stage, net)
      PROVE  TypeInv'
  <2>1. [cr[booted] EXCEPT !.stage = stage, !.net = net] \in CRs
    BY <1>0 DEF CRs
  <2> QED
    BY <1>1, <1>2, <2>1 DEF SetSpec
<1>3. CASE AddManualCleanup
  <2>1. [cr[booted] EXCEPT !.cleaned = TRUE] \in CRs
    BY <1>0 DEF CRs
  <2> QED
    BY <1>1, <1>3, <2>1 DEF AddManualCleanup
<1>4. CASE TriggerReconcile
  BY <1>0, <1>1, <1>4 DEF TriggerReconcile
<1>5. CASE DeleteCR
  <2>1. faults' \in [FaultKinds -> 0 .. MaxFaults]
    <3>1. 1 \in 0 .. MaxFaults
      BY <1>5, ConstantsTyped DEF DeleteCR, FirstFault
    <3> QED
      BY <1>5, <3>1 DEF DeleteCR, TypeOK
  <2>2. edits' \in 0 .. MaxEdits
    BY <1>5, ConstantsTyped DEF DeleteCR, EditAllowed, TypeOK
  <2>3. deleted' \in CRs /\ cr' \in [Stateroot -> CRs]
    BY <1>0, <1>5, CRsTyped DEF DeleteCR, TypeOK
  <2> QED
    BY <1>5, <2>1, <2>2, <2>3 DEF DeleteCR, TypeOK, hostVars, unitVars
<1>6. CASE OperatorCrash
  <2>1. faults' \in [FaultKinds -> 0 .. MaxFaults]
    <3>1. faults["other"] \in 0 .. MaxFaults /\ faults["other"] < MaxFaults
      BY <1>6, ConstantsTyped DEF OperatorCrash, FaultAllowed, TypeOK, FaultKinds
    <3>2. 1 \in 0 .. MaxFaults
      BY <3>1, ConstantsTyped
    <3> QED
      BY <1>6, <3>2 DEF OperatorCrash, TypeOK
  <2> QED
    BY <1>6, <2>1, CRsTyped DEF OperatorCrash, OperatorGone, TypeOK, hostVars, storeVars, unitVars, PCs
<1>7. CASE NodeCrash
  <2> DEFINE d == [disk EXCEPT ![booted].monitor = IF disk[booted].auto THEN Restarted(@) ELSE "off"]
  <2>1. PICK s \in deployed : BootInto(s, d)
    BY <1>7 DEF NodeCrash
  <2>2. d \in [Stateroot -> Disks]
    BY <1>0 DEF TypeOK, Disks, Restarted, MonitorStates
  <2>3. faults' \in [FaultKinds -> 0 .. MaxFaults]
    BY <1>7, FaultTyped DEF NodeCrash
  <2> HIDE DEF d
  <2> QED
    BY <1>7, <2>1, <2>2, <2>3, BootTyped DEF NodeCrash, TypeOK, storeVars
<1> QED
  BY <1>2, <1>3, <1>4, <1>5, <1>6, <1>7 DEF User

\* Every step keeps the types and a host that can boot.
LEMMA TypeInvNext == TypeInv /\ [Next]_vars => TypeInv'
<1> SUFFICES ASSUME TypeInv, [Next]_vars PROVE TypeInv'
  OBVIOUS
<1>1. CASE UNCHANGED vars
  BY <1>1 DEF TypeInv, TypeOK, BootableHost, vars
<1>2. CASE Operator
  BY <1>2, StatusStepsTyped, OperatorTyped, CleanupTyped, RollbackUnitsTyped
  DEF Operator, handleConfig, PrePivot, PostPivot, handleRollback, handleIdle, StatusSteps
<1>3. CASE HostUnits
  BY <1>3, UnitTyped, ServiceTyped, RollbackUnitsTyped DEF HostUnits
<1>4. CASE User \/ OperatorCrash \/ NodeCrash
  BY <1>4, EnvironmentTyped
<1> QED
  BY <1>1, <1>2, <1>3, <1>4 DEF Next

\* The state keeps its types, and at every moment the booted deployment and the
\* one the next boot takes exist, whatever crashes or fails, an operator that is
\* started again while the unit works included (cleanup,
\* setDefaultDeploymentIfEnabled, InitiateRollback).
THEOREM TypeInvariant == Spec => [](TypeOK /\ BootableHost)
<1>1. Spec => []TypeInv
  BY TypeInvInit, TypeInvNext, PTL DEF Spec
<1>2. TypeInv => TypeOK /\ BootableHost
  BY DEF TypeInv
<1> QED
  BY <1>1, <1>2, PTL

-----------------------------------------------------------------------------
(* The inductive invariant. *)

\* What the conditions of a CR say.
IdleTrue(x) == x.conds["Idle"] = "Idle"
ConfigRuns(x) == x.conds["ConfigInProgress"] = "InProgress"
ConfigOpen(x) == x.conds["ConfigCompleted"] = "None"
ConfigFailed(x) == x.conds["ConfigCompleted"] = "Failed"
ConfigDone(x) == x.stage = "Config" /\ x.conds["ConfigCompleted"] = "Completed"
RollbackRuns(x) == x.conds["RollbackInProgress"] = "InProgress"

\* What the conditions, the valid next stages and the annotation of a CR say of
\* each other.
CondOK(x) ==
    /\ x.conds["Idle"] # "Blocked"
    /\ IdleTrue(x) => Exists(x)
    /\ ConfigRuns(x) \/ x.conds["ConfigInProgress"] = "InvalidTransition" \/ IdleTrue(x) => ConfigOpen(x)
    /\ ConfigRuns(x) \/ RollbackRuns(x) \/ x.cleaned => ~IdleTrue(x)
    /\ "Config" \in x.next => x.next = {"Config"} /\ (IdleTrue(x) \/ x.stage = "Config")

\* A reconcile of this CR can come to the pre-pivot with no cleanup before it.
PrePivotable(x) ==
    x.stage = "Config" /\ ~IdleTrue(x) /\ ConfigOpen(x) /\ (ConfigRuns(x) \/ "Config" \in x.next)

\* No change is planned or applied on the disk of the stateroot s.
Clean(s) == disk[s].plan = 0 /\ disk[s].done = {}
\* The cluster of the stateroot s runs, or would run after a boot.
Alive(s) == disk[s].kubelet \/ (s = booted /\ (running \/ unit # "none"))

\* If the CR x can start a pre-pivot in the stateroot s then s is the one it is
\* for, or is alone and clean, or cannot run a cluster at all.
Startable(s, x) ==
    PrePivotable(x) =>
        \/ x.net = s /\ disk[s].plan # 0
        \/ deployed = {s} /\ Clean(s)
        \/ ~Alive(s) /\ disk[s].plan = 0
\* A Config that x reports completed has the network of s.
Applied(s, x) == ConfigDone(x) => x.net \in {0, disk[s].net}
\* Where x says Idle the host is clean.
IdleClean(x) == IdleTrue(x) => deployed = {booted} /\ Clean(booted) /\ unit = "none"

\* The network and the plan of a stateroot: recert follows the network, both are
\* those of the plan, and where a cluster runs both are done and marked.
DiskOK(s) ==
    /\ disk[s].plan \in {0, s}
    /\ disk[s].done # {} => disk[s].plan # 0 /\ disk[s].net = disk[s].plan
    /\ "recert" \in disk[s].done \/ disk[s].plan = 0 => disk[s].cert = disk[s].net
    /\ disk[s].plan # 0 => SetDefaultFeature
    /\ Alive(s) => (disk[s].plan # 0 => disk[s].done = RunOnceSteps) /\ (s # 0 => disk[s].net = s)
    /\ s \notin deployed => disk[s] = EmptyDisk

\* There are at most two stateroots, and one of them at most is planned.
PairOK ==
    /\ \A a, b \in deployed : a # booted /\ b # booted => a = b
    /\ \A a \in deployed : a # booted /\ disk[a].plan # 0 => Clean(booted)

\* A rollback has set the default deployment and has not rebooted yet.
Switched == disk[booted].monitor = "switched" \/ service = "switched"
SwitchOK ==
    /\ \A s \in Stateroot : s # booted => disk[s].monitor \in {"off", "armed"}
    /\ Switched => SetDefaultFeature
    /\ ~SetDefaultFeature /\ deployed # {booted} => ~Alive(default)
    /\ Switched /\ deployed # {booted} /\ (running \/ disk[booted].plan # 0) => default # booted

\* ip-configuration.service between a RunOnce step and its marker, or between the
\* last marker and kubelet: the cluster is down, and the work is done.
Halfway == {"configured", "rewritten", "recerted"}
ServiceOK ==
    /\ service # "unconfigured"
    /\ service \in Halfway => ~running /\ disk[booted].plan # 0
    /\ service = "configured" => disk[booted].net = disk[booted].plan
    /\ service = "rewritten" => "network" \in disk[booted].done /\ disk[booted].cert = disk[booted].plan
    /\ service = "recerted" => disk[booted].done = RunOnceSteps

\* The host.
HostOK == (\A s \in Stateroot : DiskOK(s)) /\ PairOK /\ SwitchOK

\* The steps of the unit after the default is set, the plan written and /var
\* copied.
Late == {"default", "written", "enabled", "installed", "ready"}
Planned == {"written", "enabled", "installed", "ready"}
Copied == {"copied"} \cup Late
NoDelete == faults["delete"] = 0

\* A CR of the stateroot s that is there is in the middle of a Config for net.
Carries(s, net) == Exists(cr[s]) => ConfigRuns(cr[s]) /\ cr[s].net = net

\* The pre-pivot unit: what its target and the booted stateroot hold at each
\* step.
UnitOK ==
    unit # "none" =>
        /\ target \notin {0, booted} /\ deployed \subseteq {booted, target} /\ Clean(booted)
        /\ Carries(booted, target)
        /\ NoDelete => Exists(file[booted]) /\ ConfigFailed(file[booted])
        /\ unit = "inputs" => running /\ pc = "waiting" /\ deployed = {booted}
        /\ unit # "inputs" => ~running
        /\ unit \notin {"inputs", "stopped"} => target \in deployed
        /\ unit \in {"stopped", "deployed", "copied"} => ~disk[booted].kubelet
        /\ unit \in Copied =>
              /\ ~disk[target].kubelet /\ disk[target].done = {}
              /\ Carries(target, target)
              /\ NoDelete /\ Exists(file[target]) => ConfigFailed(file[target])
        /\ unit \in Late => SetDefaultFeature /\ default = target
        /\ unit \in Planned => disk[target].plan # 0
        /\ unit = "ready" => file[target] = NoCR

\* The CR that InitIPConfig finds or restores in the stateroot s.
Saved(s) == IF Exists(file[s]) THEN file[s] ELSE cr[s]
\* InitIPConfig can still come to the saved CR of s.
Needed(s) == NoDelete \/ (s = booted /\ unit \in {"none", "inputs"} /\ (SetDefaultFeature \/ running))

\* The CR and the ipc.json of the stateroot s are true of s.
StoreOK(s) ==
    /\ CondOK(cr[s]) /\ CondOK(file[s])
    /\ ~IdleTrue(file[s]) /\ (s # booted => ~IdleTrue(cr[s]))
    /\ Applied(s, cr[s]) /\ Applied(s, file[s])
    /\ Needed(s) => Startable(s, Saved(s))
    /\ disk[s].plan # 0 /\ disk[s].done = {} =>
          ~ConfigDone(cr[s]) /\ (ConfigDone(file[s]) => unit # "none" /\ s = target /\ ~NoDelete)
    /\ s \notin deployed => cr[s] = NoCR /\ file[s] = NoCR

\* So is the CR that the operator acts on.
CurrentOK ==
    /\ IdleClean(cr[booted])
    /\ up \/ pc = "restored" => Startable(booted, cr[booted])

StoresOK == (\A s \in Stateroot : StoreOK(s)) /\ CurrentOK

\* The memory of the operator.
OperatorOK ==
    /\ ~running => ~up /\ pc = "idle"
    /\ pc \notin {"idle", "restored"} => up
    /\ pc \in {"idle", "restored"} => ipc = NoCR
    /\ CondOK(ipc) /\ Startable(booted, ipc) /\ Applied(booted, ipc) /\ IdleClean(ipc)
    /\ CondOK(deleted) /\ Startable(booted, deleted) /\ Applied(booted, deleted)
    /\ NoDelete \/ ~up => deleted = NoCR

\* What the place of the reconcile says of the CR it has in memory.
PlaceOK ==
    /\ pc \notin {"idle", "restored", "handle", "final"} => ~ipc.cleaned
    /\ pc = "validate" => PrePivotable(ipc)
    /\ pc \in {"config", "exported", "waiting", "unitFailed", "verify"} =>
          ipc.stage = "Config" /\ ConfigRuns(ipc)
    /\ pc \in {"exported", "waiting"} => ipc.net \notin {0, booted}
    /\ pc = "exported" /\ NoDelete => Exists(file[booted]) /\ ConfigFailed(file[booted])
    /\ pc \in {"rollback", "rollbackSaved"} => ipc.stage = "Rollback" /\ RollbackRuns(ipc)
    /\ pc = "rollbackSaved" =>
          /\ isUnbootedStaterootAvailable
          /\ file[UnbootedStateroot].stage = "Rollback" /\ RollbackRuns(file[UnbootedStateroot])
    /\ pc = "cleanup" => ipc.stage = "Idle" /\ ~IdleTrue(ipc)
    /\ pc \notin {"idle", "restored", "final"} /\ Exists(cr[booted]) =>
          /\ cr[booted].conds = ipc.conds
          /\ cr[booted].net = ipc.net \/ IdleTrue(ipc) \/ ipc.conds = NoIPConditions

\* The invariant.
Core == HostOK /\ UnitOK /\ StoresOK /\ OperatorOK /\ PlaceOK
IPCInv == TypeInv /\ (Tolerated => Core /\ ServiceOK)

-----------------------------------------------------------------------------
(* The conditions. *)

\* What each setter of the status conditions changes.
LEMMA ConditionValues ==
    ASSUME NEW c \in IPConditions
    PROVE  /\ \A t, u \in IPConditionTypes : \A r :
                  SetIPCondition(c, t, r)[u] = IF u = t THEN r ELSE c[u]
           /\ \A u \in IPConditionTypes : \A r :
                  /\ SetIPStatusEnded(c, "Config", r)[u] =
                        IF u \in {"ConfigInProgress", "ConfigCompleted"} THEN r ELSE c[u]
                  /\ SetIPStatusEnded(c, "Rollback", r)[u] =
                        IF u \in {"RollbackInProgress", "RollbackCompleted"} THEN r ELSE c[u]
           /\ \A u \in IPConditionTypes :
                  ClearIPInvalidTransitionStatusConditions(c)[u] =
                      IF c[u] # "InvalidTransition" THEN c[u]
                      ELSE IF u = "Idle" THEN "ConfigurationInProgress" ELSE "None"
<1>1. {"Idle", "ConfigInProgress", "ConfigCompleted", "RollbackInProgress", "RollbackCompleted"} = IPConditionTypes
  BY DEF IPConditionTypes, IPInProgressTypes, IPCompletedTypes
<1>2. \A t, u \in IPConditionTypes : \A r : SetIPCondition(c, t, r)[u] = IF u = t THEN r ELSE c[u]
  BY DEF SetIPCondition, IPConditions
<1>3. /\ GetIPInProgressConditionType("Config") = "ConfigInProgress"
      /\ GetIPCompletedConditionType("Config") = "ConfigCompleted"
      /\ GetIPInProgressConditionType("Rollback") = "RollbackInProgress"
      /\ GetIPCompletedConditionType("Rollback") = "RollbackCompleted"
  BY DEF GetIPInProgressConditionType, GetIPCompletedConditionType
<1>4. \A u \in IPConditionTypes : \A r :
          SetIPStatusEnded(c, "Config", r)[u] =
              IF u \in {"ConfigInProgress", "ConfigCompleted"} THEN r ELSE c[u]
  BY <1>1, <1>3 DEF SetIPStatusEnded, IPConditions
<1>5. \A u \in IPConditionTypes : \A r :
          SetIPStatusEnded(c, "Rollback", r)[u] =
              IF u \in {"RollbackInProgress", "RollbackCompleted"} THEN r ELSE c[u]
  BY <1>1, <1>3 DEF SetIPStatusEnded, IPConditions
<1> QED
  BY <1>2, <1>4, <1>5 DEF ClearIPInvalidTransitionStatusConditions

\* The names of the condition types of the three stages.
LEMMA TypeNames ==
    /\ {"Idle", "ConfigInProgress", "ConfigCompleted", "RollbackInProgress", "RollbackCompleted"} = IPConditionTypes
    /\ "Idle" \in IPConditionTypes /\ "ConfigInProgress" \in IPConditionTypes
    /\ "ConfigCompleted" \in IPConditionTypes /\ "RollbackInProgress" \in IPConditionTypes
    /\ "RollbackCompleted" \in IPConditionTypes
    /\ GetIPInProgressConditionType("Idle") = "Idle"
    /\ GetIPInProgressConditionType("Config") = "ConfigInProgress"
    /\ GetIPCompletedConditionType("Idle") = "Idle"
    /\ GetIPCompletedConditionType("Config") = "ConfigCompleted"
    /\ GetIPInProgressConditionType("Rollback") = "RollbackInProgress"
    /\ GetIPCompletedConditionType("Rollback") = "RollbackCompleted"
BY DEF IPConditionTypes, IPInProgressTypes, IPCompletedTypes, GetIPInProgressConditionType,
       GetIPCompletedConditionType

\* What the getters the handlers decide by (IsIPStageInProgress,
\* IsIPStageCompleted, isIPTransitionRequested) read.
LEMMA ReadConditions ==
    ASSUME NEW x \in CRs
    PROVE  /\ IsIPStageInProgress(x.conds, "Config") <=> ConfigRuns(x)
           /\ IsIPStageInProgress(x.conds, "Rollback") <=> RollbackRuns(x)
           /\ IsIPStageInProgress(x.conds, "Idle") <=> x.conds["Idle"] = "InProgress"
           /\ IsIPStageCompleted(x.conds, "Config") <=> x.conds["ConfigCompleted"] = "Completed"
           /\ IsIPStageCompleted(x.conds, "Idle") <=> IdleTrue(x)
           /\ IPIsTrue(x.conds, "Idle") <=> IdleTrue(x)
           /\ IsIPStageCompletedOrFailed(x.conds, "Config") <=> ~ConfigOpen(x)
           /\ isIPTransitionRequested(x.conds, "Config") <=>
                 \/ x.conds["ConfigInProgress"] = "InvalidTransition"
                 \/ ConfigOpen(x) /\ ~ConfigRuns(x)
           /\ isIPTransitionRequested(x.conds, "Idle") => ~IdleTrue(x)
BY TypeNames
DEF IsIPStageInProgress, IsIPStageCompleted, IsIPStageFailed, IsIPStageCompletedOrFailed, IPIsTrue,
    isIPTransitionRequested, ConfigRuns, RollbackRuns, IdleTrue, ConfigOpen, IPCompletedTypes, IPInProgressTypes

\* validIPNextStages offers a Config only from Idle, and then nothing else.
LEMMA NextStagesOK ==
    ASSUME NEW x \in CRs, CondOK(x), Exists(x)
    PROVE  LET y == WithNextStages(x) IN
           /\ y \in CRs /\ Exists(y) /\ y.stage = x.stage /\ y.net = x.net /\ y.conds = x.conds
           /\ y.cleaned = x.cleaned
           /\ "Config" \in y.next => y.next = {"Config"} /\ IdleTrue(y)
<1> DEFINE n == validIPNextStages(x.conds, x.stage, rollbackable(x))
           y == WithNextStages(x)
<1>1. y = [x EXCEPT !.next = n]
  BY DEF WithNextStages
<1>2. y \in CRs /\ Exists(y)
  BY CRsTyped, <1>1 DEF Exists, CRs
<1>3. "Config" \in n => n = {"Config"} /\ IdleTrue(x)
  BY ReadConditions DEF validIPNextStages, CondOK
<1> HIDE DEF n
<1>4. y.next = n /\ y.stage = x.stage /\ y.net = x.net /\ y.conds = x.conds /\ y.cleaned = x.cleaned
  BY <1>1 DEF CRs
<1> QED
  BY <1>2, <1>3, <1>4 DEF IdleTrue

\* New conditions change nothing else of a CR.
LEMMA ExceptConds ==
    ASSUME NEW x \in CRs, NEW c \in IPConditions, NEW y, y = [x EXCEPT !.conds = c]
    PROVE  /\ y \in CRs /\ y.conds = c /\ y.stage = x.stage /\ y.net = x.net /\ y.next = x.next
           /\ y.cleaned = x.cleaned /\ (Exists(x) <=> Exists(y))
BY DEF CRs, Exists

\* A CR that is not there, or that InitIPConfig has just created, reports
\* nothing.
LEMMA NoCROK ==
    /\ CondOK(NoCR) /\ ~IdleTrue(NoCR) /\ ~ConfigDone(NoCR) /\ ~PrePivotable(NoCR) /\ ~Exists(NoCR)
    /\ CondOK(InitialCR) /\ ~IdleTrue(InitialCR) /\ ~ConfigDone(InitialCR) /\ ~PrePivotable(InitialCR)
    /\ Exists(InitialCR) /\ NoCR.conds = NoIPConditions /\ ~NoCR.cleaned
<1>1. \A t \in IPConditionTypes : NoIPConditions[t] = "None"
  BY DEF NoIPConditions
<1>2. /\ NoCR.conds = NoIPConditions /\ NoCR.stage = "None" /\ NoCR.next = {} /\ NoCR.cleaned = FALSE
      /\ InitialCR.conds = NoIPConditions /\ InitialCR.stage = "Idle" /\ InitialCR.next = {}
      /\ InitialCR.cleaned = FALSE
  BY DEF NoCR, InitialCR
<1> QED
  BY <1>1, <1>2, TypeNames DEF CondOK, IdleTrue, ConfigDone, PrePivotable, Exists, ConfigRuns,
       RollbackRuns, ConfigOpen

\* The installed node satisfies the invariant.
LEMMA CoreInit == Init => Core
<1> SUFFICES ASSUME Init PROVE Core
  OBVIOUS
<1> USE NoCROK, ConstantsTyped
<1>1. \A s \in Stateroot : disk[s] = IF s = 0 THEN [EmptyDisk EXCEPT !.net = 1, !.cert = 1, !.kubelet = TRUE] ELSE EmptyDisk
  BY DEF Init
<1>2. \A s \in Stateroot : /\ disk[s].plan = 0 /\ disk[s].done = {} /\ disk[s].cert = disk[s].net
                           /\ disk[s].monitor = "off" /\ (s # 0 => ~disk[s].kubelet /\ disk[s] = EmptyDisk)
  <2>1. disk[0].plan = 0 /\ disk[0].done = {} /\ disk[0].cert = disk[0].net /\ disk[0].monitor = "off"
    BY <1>1 DEF EmptyDisk
  <2>2. \A s \in Stateroot : s # 0 => disk[s] = EmptyDisk
    BY <1>1
  <2>3. /\ EmptyDisk.plan = 0 /\ EmptyDisk.done = {} /\ EmptyDisk.cert = EmptyDisk.net
        /\ EmptyDisk.monitor = "off" /\ ~EmptyDisk.kubelet
    BY DEF EmptyDisk
  <2> QED
    BY <2>1, <2>2, <2>3
<1>3. \A s \in Stateroot : cr[s] = NoCR /\ file[s] = NoCR
  BY DEF Init
<1>4. HostOK
  BY <1>2 DEF Init, HostOK, DiskOK, PairOK, SwitchOK, Switched, Alive
<1>5. UnitOK
  BY DEF Init, UnitOK
<1>6. StoresOK
  BY <1>2, <1>3 DEF Init, StoresOK, StoreOK, CurrentOK, Applied, IdleClean, Startable, Saved, Exists
<1>7. OperatorOK /\ PlaceOK
  BY DEF Init, OperatorOK, PlaceOK, Applied, IdleClean, Startable
<1> QED
  BY <1>4, <1>5, <1>6, <1>7 DEF Core

-----------------------------------------------------------------------------
(* The reconcile. *)

\* The step leaves the host alone.
HostSame == UNCHANGED <<booted, default, deployed, disk, running, unit, target, service>>

\* A step that leaves the host alone keeps what is said of the host.
LEMMA HostFrame ==
    ASSUME HostSame, HostOK
    PROVE  /\ HostOK'
           /\ \A s : (Alive(s)' <=> Alive(s)) /\ (Clean(s)' <=> Clean(s))
           /\ \A s, x : /\ Startable(s, x)' <=> Startable(s, x)
                        /\ Applied(s, x)' <=> Applied(s, x)
                        /\ IdleClean(x)' <=> IdleClean(x)
<1>1. \A s : (Alive(s)' <=> Alive(s)) /\ (Clean(s)' <=> Clean(s))
  BY DEF HostSame, Alive, Clean
<1>2. (\A s \in Stateroot : DiskOK(s))'
  BY <1>1 DEF HostSame, HostOK, DiskOK
<1>3. PairOK' /\ SwitchOK'
  BY <1>1 DEF HostSame, HostOK, PairOK, SwitchOK, Switched
<1>4. \A s, x : Startable(s, x)' <=> Startable(s, x)
  BY <1>1 DEF HostSame, Startable
<1>5. \A s, x : Applied(s, x)' <=> Applied(s, x)
  BY DEF HostSame, Applied
<1>6. \A x : IdleClean(x)' <=> IdleClean(x)
  BY <1>1 DEF HostSame, IdleClean
<1> QED
  BY <1>1, <1>2, <1>3, <1>4, <1>5, <1>6 DEF HostOK

\* The CR x is true of the booted stateroot.
GoodCR(x) == CondOK(x) /\ Startable(booted, x) /\ Applied(booted, x) /\ IdleClean(x)

\* Where the cluster runs no change is half done: kubelet is enabled in a new
\* stateroot only after both RunOnce steps (enableAndStartKubelet).
LEMMA RunningFacts ==
    ASSUME TypeInv, HostOK, running
    PROVE  /\ booted \in Stateroot /\ booted \in deployed /\ Alive(booted)
           /\ disk[booted].cert = disk[booted].net
           /\ disk[booted].plan # 0 => disk[booted].done = RunOnceSteps
           /\ booted # 0 => disk[booted].net = booted
<1>1. booted \in Stateroot /\ booted \in deployed
  BY DEF TypeInv, TypeOK, BootableHost
<1>2. Alive(booted) /\ DiskOK(booted)
  BY <1>1 DEF Alive, HostOK
<1> QED
  BY <1>1, <1>2 DEF DiskOK, RunOnceSteps

\* A status update with a CR that is true of the booted stateroot keeps the
\* stores.
LEMMA StoresFrame ==
    ASSUME TypeInv, HostOK, StoresOK, HostSame, file' = file, running, NoDelete' <=> NoDelete,
           NEW y \in CRs, GoodCR(y), cr' = [cr EXCEPT ![booted] = y]
    PROVE  StoresOK'
<1>1. booted \in Stateroot /\ booted' = booted /\ booted \in deployed
  BY RunningFacts DEF HostSame
<1>2. cr'[booted] = y /\ \A s \in Stateroot : s # booted => cr'[s] = cr[s]
  BY <1>1 DEF TypeInv, TypeOK
<1>3. CurrentOK'
  BY <1>1, <1>2, HostFrame DEF CurrentOK, GoodCR
<1>4. \A s : Needed(s)' <=> Needed(s)
  BY DEF Needed, HostSame
<1>5. ASSUME NEW s \in Stateroot, s = booted PROVE StoreOK(s)'
  <2>1. StoreOK(s) /\ Saved(s)' = (IF Exists(file[s]) THEN file[s] ELSE y)
    BY <1>1, <1>2, <1>5 DEF StoresOK, Saved
  <2>2. disk[s].plan # 0 => disk[s].done = RunOnceSteps
    BY <1>5, RunningFacts
  <2>3. (Needed(s) => Startable(s, Saved(s)))'
    BY <1>4, <1>5, <2>1, HostFrame DEF StoreOK, Saved, GoodCR
  <2> QED
    BY <1>1, <1>2, <1>5, <2>1, <2>2, <2>3, HostFrame DEF StoreOK, GoodCR, HostSame, RunOnceSteps
<1>6. ASSUME NEW s \in Stateroot, s # booted PROVE StoreOK(s)'
  <2>1. StoreOK(s) /\ cr'[s] = cr[s] /\ Saved(s)' = Saved(s)
    BY <1>2, <1>6 DEF StoresOK, Saved
  <2>2. (Needed(s) => Startable(s, Saved(s)))'
    BY <1>4, <2>1, HostFrame DEF StoreOK
  <2> QED
    BY <1>1, <1>6, <2>1, <2>2, HostFrame DEF StoreOK, HostSame
<1> QED
  BY <1>3, <1>5, <1>6 DEF StoresOK

\* A step that writes no CR and no ipc.json keeps the stores.
LEMMA StoresSame ==
    ASSUME TypeInv, HostOK, StoresOK, HostSame, file' = file, cr' = cr, NoDelete' <=> NoDelete,
           up' \/ pc' = "restored" => Startable(booted, cr[booted])
    PROVE  StoresOK'
<1>1. \A s : (Needed(s)' <=> Needed(s)) /\ Saved(s)' = Saved(s)
  BY DEF Needed, Saved, HostSame
<1>2. ASSUME NEW s \in Stateroot PROVE StoreOK(s)'
  <2>1. StoreOK(s)
    BY DEF StoresOK
  <2>2. (Needed(s) => Startable(s, Saved(s)))'
    BY <1>1, <2>1, HostFrame DEF StoreOK
  <2> QED
    BY <2>1, <2>2, HostFrame DEF StoreOK, HostSame
<1>3. CurrentOK'
  BY HostFrame DEF CurrentOK, StoresOK, HostSame
<1> QED
  BY <1>2, <1>3 DEF StoresOK

\* The CR y is the next version of the one in memory.
Follows(y) ==
    /\ y \in CRs /\ Exists(y) /\ y.net = ipc.net /\ CondOK(y)
    /\ PrePivotable(y) => PrePivotable(ipc) \/ IdleTrue(ipc)
    /\ IdleTrue(y) => IdleTrue(ipc)
    /\ ConfigDone(y) => ConfigDone(ipc) \/ y.net \in {0, disk[booted].net}

\* It goes with the place the reconcile goes on at.
Suits(y, next) ==
    \/ next = "final"
    \/ ~y.cleaned /\ \/ next = "validate" /\ PrePivotable(y)
                     \/ next = "config" /\ y.stage = "Config" /\ ConfigRuns(y)
                     \/ next = "rollback" /\ y.stage = "Rollback" /\ RollbackRuns(y)
                     \/ next = "cleanup" /\ y.stage = "Idle" /\ ~IdleTrue(y)

\* The next version of the CR in memory is as true of the booted stateroot as
\* the CR was.
LEMMA FollowsGood ==
    ASSUME OperatorOK, NEW y, Follows(y)
    PROVE  GoodCR(y)
<1>1. Startable(booted, y)
  BY DEF OperatorOK, Follows, Startable, IdleClean
<1>2. Applied(booted, y) /\ IdleClean(y)
  BY DEF OperatorOK, Follows, Applied, IdleClean
<1> QED
  BY <1>1, <1>2 DEF GoodCR, Follows

\* A fault is not the deletion of the CR and not a crash of the operator.
LEMMA FaultFacts ==
    ASSUME TypeInv, Fault
    PROVE  /\ NoDelete /\ NoDelete'
           /\ faults'["operator"] = faults["operator"] /\ faults'["stat"] = faults["stat"]
<1>1. faults \in [FaultKinds -> 0 .. MaxFaults] /\ faults' = [faults EXCEPT !["other"] = @ + 1]
  BY DEF TypeInv, TypeOK, Fault
<1>2. /\ faults'["operator"] = faults["operator"] /\ faults'["delete"] = faults["delete"]
      /\ faults'["stat"] = faults["stat"]
  BY <1>1 DEF FaultKinds
<1> QED
  BY <1>2 DEF Fault, FaultAllowed, NoDelete

\* UpdateIPCStatus with the next version of the CR in memory keeps the
\* invariant, written or refused: the CR in memory and the one in etcd need not
\* agree for that.
LEMMA StatusCore ==
    ASSUME TypeInv, Core, NEW y, Follows(y), NEW next, NEW requeue, Suits(y, next),
           UpdateIPCStatus(y, next, requeue), pc \notin {"idle", "restored"}, unit = "none",
           UNCHANGED <<hostVars, file, unitVars, envVars>>
    PROVE  Core'
<1>1. HostSame /\ file' = file /\ deleted' = deleted /\ up' = up /\ ipc' = y
  BY DEF UpdateIPCStatus, HostSame, hostVars, unitVars, envVars
<1>2. up /\ running
  BY DEF Core, OperatorOK
<1>3. NoDelete' <=> NoDelete
  BY FaultFacts DEF UpdateIPCStatus, NoDelete
<1>4. HostOK /\ StoresOK /\ OperatorOK
  BY DEF Core
<1>5. GoodCR(y) /\ y \in CRs
  BY <1>4, FollowsGood DEF Follows
<1>6. booted \in Stateroot /\ booted' = booted
  BY <1>1 DEF TypeInv, TypeOK, HostSame
<1>7. StoresOK'
  <2>1. CASE cr' = [cr EXCEPT ![booted] = y]
    BY <1>1, <1>2, <1>3, <1>4, <1>5, <2>1, StoresFrame
  <2>2. CASE cr' = cr
    BY <1>1, <1>2, <1>3, <1>4, <2>2, StoresSame DEF StoresOK, CurrentOK
  <2> QED
    BY <2>1, <2>2 DEF UpdateIPCStatus
<1>8. UnitOK' /\ HostOK'
  BY <1>1, <1>4, HostFrame DEF UnitOK, HostSame
<1>9. pc' = next \/ pc' = "final"
  BY DEF UpdateIPCStatus
<1>10. pc' \notin {"idle", "restored", "handle", "exported", "waiting", "unitFailed", "verify", "rollbackSaved"}
  BY <1>9 DEF Suits
<1>11. OperatorOK'
  BY <1>1, <1>2, <1>3, <1>4, <1>5, <1>6, <1>10, HostFrame DEF OperatorOK, GoodCR, HostSame
<1>12. PlaceOK'
  <2>1. CASE pc' = "final"
    BY <2>1 DEF PlaceOK
  <2>2. CASE pc' # "final"
    <3>1. cr' = [cr EXCEPT ![booted] = y] /\ pc' = next
      BY <2>2 DEF UpdateIPCStatus
    <3>2. cr'[booted] = y
      BY <1>6, <3>1 DEF TypeInv, TypeOK
    <3> QED
      BY <1>1, <1>6, <1>10, <2>2, <3>1, <3>2 DEF PlaceOK, Suits
  <2> QED
    BY <2>1, <2>2
<1> QED
  BY <1>7, <1>8, <1>11, <1>12 DEF Core

\* Only a reconcile that waits for the pre-pivot unit has one beside it.
LEMMA UnitIdle ==
    ASSUME Core, pc \notin {"idle", "restored", "waiting"}
    PROVE  unit = "none" /\ up /\ running
BY DEF Core, OperatorOK, UnitOK

\* The CR in memory is a CR with consistent conditions.
LEMMA InMemory ==
    ASSUME TypeInv, Core
    PROVE  /\ ipc \in CRs /\ ipc.conds \in IPConditions /\ CondOK(ipc)
           /\ pc \notin {"idle", "restored"} => Exists(ipc)
           /\ \A u \in IPConditionTypes : ipc.conds[u] \in IPConditionReasons
BY DEF TypeInv, TypeOK, CRs, Core, OperatorOK, IPConditions

\* A reconcile is at its handler, in the stage whose handler this is.
LEMMA InStageFacts ==
    ASSUME TypeInv, Core
    PROVE  /\ InConfig => /\ ipc.stage = "Config" /\ ConfigRuns(ipc) /\ ~ipc.cleaned
                          /\ pc \in {"handle", "config"}
           /\ InRollback => /\ ipc.stage = "Rollback" /\ RollbackRuns(ipc) /\ ~ipc.cleaned
                            /\ pc \in {"handle", "rollback"}
           /\ CleaningUp => /\ ipc.stage = "Idle" /\ ~IdleTrue(ipc) /\ ~ipc.cleaned
                            /\ pc \in {"handle", "cleanup"}
<1>1. ipc \in CRs
  BY InMemory
<1>2. PlaceOK
  BY DEF Core
<1> QED
  BY <1>1, <1>2, ReadConditions DEF InConfig, InRollback, CleaningUp, InStage, Handling, PlaceOK,
       IdleTrue

\* A refused transition (validateIPConfigStage) keeps the invariant.
LEMMA RefuseTransitionCore ==
    ASSUME TypeInv, Core, RefuseTransition PROVE Core'
<1> DEFINE y == [ipc EXCEPT !.conds = SetIPStatusInvalidTransition(ipc.conds, ipc.stage)]
<1>1. /\ UpdateIPCStatus(y, "final", FALSE) /\ UNCHANGED <<hostVars, file, unitVars, envVars>>
      /\ pc = "handle" /\ ipc.stage \in IPStages /\ ~ipc.cleaned /\ Requested /\ ~Valid
  BY DEF RefuseTransition, Handling
<1>2. ipc \in CRs /\ ipc.conds \in IPConditions /\ CondOK(ipc) /\ Exists(ipc)
  BY <1>1, InMemory
<1>3. SetIPStatusInvalidTransition(ipc.conds, ipc.stage) \in IPConditions
  BY <1>1, <1>2, ConditionsTyped
<1>4. /\ y \in CRs /\ y.conds = SetIPStatusInvalidTransition(ipc.conds, ipc.stage)
      /\ y.stage = ipc.stage /\ y.net = ipc.net /\ y.next = ipc.next /\ y.cleaned = ipc.cleaned /\ Exists(y)
  BY <1>2, <1>3, ExceptConds
<1> HIDE DEF y
<1>5. GetIPInProgressConditionType(ipc.stage) \in IPConditionTypes
  BY <1>1, TypeNames DEF IPStages
<1>6. \A u \in IPConditionTypes :
          y.conds[u] = IF u = GetIPInProgressConditionType(ipc.stage) THEN "InvalidTransition" ELSE ipc.conds[u]
  BY <1>2, <1>4, <1>5, ConditionValues DEF SetIPStatusInvalidTransition
<1>7. CondOK(y) /\ (PrePivotable(y) => PrePivotable(ipc)) /\ (IdleTrue(y) => IdleTrue(ipc))
      /\ (ConfigDone(y) => ConfigDone(ipc))
  <2>1. CASE ipc.stage = "Idle"
    <3>1. ~IdleTrue(ipc)
      BY <1>1, <1>2, <2>1, ReadConditions DEF Requested
    <3> QED
      BY <1>2, <1>4, <1>6, <2>1, <3>1, TypeNames
      DEF CondOK, PrePivotable, IdleTrue, ConfigDone, ConfigRuns, RollbackRuns, ConfigOpen
  <2>2. CASE ipc.stage = "Config"
    <3>1. ConfigOpen(ipc) /\ "Config" \notin ipc.next
      BY <1>1, <1>2, <2>2, ReadConditions DEF Requested, Valid, CondOK
    <3> QED
      BY <1>1, <1>2, <1>4, <1>6, <2>2, <3>1, TypeNames
      DEF CondOK, PrePivotable, IdleTrue, ConfigDone, ConfigRuns, RollbackRuns, ConfigOpen
  <2>3. CASE ipc.stage = "Rollback"
    BY <1>1, <1>2, <1>4, <1>6, <2>3, TypeNames
    DEF CondOK, PrePivotable, IdleTrue, ConfigDone, ConfigRuns, RollbackRuns, ConfigOpen
  <2> QED
    BY <1>1, <2>1, <2>2, <2>3 DEF IPStages
<1>8. Follows(y) /\ Suits(y, "final")
  BY <1>4, <1>7 DEF Follows, Suits
<1> QED
  BY <1>1, <1>8, UnitIdle, StatusCore

\* The start of a Config keeps the invariant: it is valid only from Idle, and
\* Idle is clean.
LEMMA EnterConfigCore ==
    ASSUME TypeInv, Core, EnterConfig PROVE Core'
<1> DEFINE c == SetIPCondition(ClearIPInvalidTransitionStatusConditions(ipc.conds), "Idle", "ConfigurationInProgress")
           y == [ipc EXCEPT !.conds = c]
<1>1. /\ UpdateIPCStatus(y, "validate", FALSE) /\ UNCHANGED <<hostVars, file, unitVars, envVars>>
      /\ pc = "handle" /\ ipc.stage = "Config" /\ ~ipc.cleaned /\ Requested /\ Valid
  BY DEF EnterConfig, Handling
<1>2. ipc \in CRs /\ ipc.conds \in IPConditions /\ CondOK(ipc) /\ Exists(ipc)
  BY <1>1, InMemory
<1>3. c \in IPConditions /\ ClearIPInvalidTransitionStatusConditions(ipc.conds) \in IPConditions
  BY <1>2, TypeNames, ConditionsTyped DEF IPConditionReasons
<1>4. c["Idle"] = "ConfigurationInProgress"
      /\ \A u \in IPConditionTypes \ {"Idle"} : c[u] = IF ipc.conds[u] # "InvalidTransition" THEN ipc.conds[u] ELSE "None"
  BY <1>2, <1>3, TypeNames, ConditionValues
<1> HIDE DEF c
<1>5. /\ y \in CRs /\ y.conds = c /\ y.stage = ipc.stage /\ y.net = ipc.net /\ y.next = ipc.next
      /\ y.cleaned = ipc.cleaned /\ Exists(y)
  BY <1>2, <1>3, ExceptConds
<1> HIDE DEF y
<1>6. ConfigOpen(ipc) /\ "Config" \in ipc.next /\ ipc.next = {"Config"}
  BY <1>1, <1>2, ReadConditions DEF Requested, Valid, CondOK
<1>7. CondOK(y) /\ PrePivotable(y) /\ ~IdleTrue(y) /\ ~ConfigDone(y)
  BY <1>1, <1>2, <1>4, <1>5, <1>6, TypeNames
  DEF CondOK, PrePivotable, IdleTrue, ConfigDone, ConfigRuns, RollbackRuns, ConfigOpen
<1>8. PrePivotable(ipc) \/ IdleTrue(ipc)
  BY <1>1, <1>6 DEF PrePivotable
<1>9. Follows(y) /\ Suits(y, "validate")
  BY <1>1, <1>5, <1>7, <1>8 DEF Follows, Suits
<1> QED
  BY <1>1, <1>9, UnitIdle, StatusCore

\* The stage ends: the conditions of the other stages stay.
LEMMA EndedOK ==
    ASSUME TypeInv, Core, pc \notin {"idle", "restored"}, NEW stage \in {"Config", "Rollback"},
           NEW r \in {"Completed", "Failed"}, ~IdleTrue(ipc) \/ stage = "Rollback",
           stage = "Config" /\ r = "Completed" => statusIPsMatchSpec(ipc)
    PROVE  Follows(Ended(stage, r)) /\ Suits(Ended(stage, r), "final")
           /\ (stage = "Config" => Ended(stage, r).conds["ConfigCompleted"] = r)
           /\ Ended(stage, r).stage = ipc.stage
<1> DEFINE c == SetIPStatusEnded(ipc.conds, stage, r)
           y == Ended(stage, r)
<1>2. ipc \in CRs /\ ipc.conds \in IPConditions /\ CondOK(ipc) /\ Exists(ipc)
  BY InMemory
<1>3. c \in IPConditions
  BY <1>2, ConditionsTyped DEF IPStages
<1>4. \A u \in IPConditionTypes :
          c[u] = IF u \in (IF stage = "Config" THEN {"ConfigInProgress", "ConfigCompleted"}
                            ELSE {"RollbackInProgress", "RollbackCompleted"}) THEN r ELSE ipc.conds[u]
  BY <1>2, ConditionValues
<1> HIDE DEF c
<1>5. y = [ipc EXCEPT !.conds = c]
  BY DEF Ended, c
<1>6. /\ y \in CRs /\ y.conds = c /\ y.stage = ipc.stage /\ y.net = ipc.net /\ y.next = ipc.next
      /\ y.cleaned = ipc.cleaned /\ Exists(y)
  BY <1>2, <1>3, <1>5, ExceptConds
<1> HIDE DEF y
<1>7. CondOK(y) /\ (PrePivotable(y) => PrePivotable(ipc)) /\ (IdleTrue(y) <=> IdleTrue(ipc))
      /\ (stage = "Rollback" => (ConfigDone(y) <=> ConfigDone(ipc)))
      /\ (stage = "Config" /\ ConfigDone(y) => r = "Completed")
  <2>1. CASE stage = "Config"
    BY <1>2, <1>4, <1>6, <2>1, TypeNames
    DEF CondOK, PrePivotable, IdleTrue, ConfigDone, ConfigRuns, RollbackRuns, ConfigOpen
  <2>2. CASE stage = "Rollback"
    BY <1>2, <1>4, <1>6, <2>2, TypeNames
    DEF CondOK, PrePivotable, IdleTrue, ConfigDone, ConfigRuns, RollbackRuns, ConfigOpen
  <2> QED
    BY <2>1, <2>2
<1>8. Follows(y)
  BY <1>6, <1>7 DEF Follows, statusIPsMatchSpec
<1>9. stage = "Config" => y.conds["ConfigCompleted"] = r
  BY <1>4, <1>6, TypeNames
<1> QED
  BY <1>6, <1>8, <1>9 DEF y, Suits

\* The validation of a Config, passed or failed, keeps the invariant.
LEMMA validateConfigStartCore ==
    ASSUME TypeInv, Core, validateConfigStart PROVE Core'
<1> DEFINE c == SetIPStatusInProgress(ipc.conds, "Config")
           y == [ipc EXCEPT !.conds = c]
<1>1. /\ UpdateIPCStatus(y, "config", FALSE) \/ UpdateIPCStatus(Ended("Config", "Failed"), "final", FALSE)
      /\ UNCHANGED <<hostVars, file, unitVars, envVars>> /\ pc = "validate"
  BY DEF validateConfigStart
<1>2. ipc \in CRs /\ ipc.conds \in IPConditions /\ CondOK(ipc) /\ Exists(ipc)
  BY <1>1, InMemory
<1>3. PrePivotable(ipc) /\ ~ipc.cleaned
  BY <1>1 DEF Core, PlaceOK
<1>4. /\ c \in IPConditions
      /\ \A u \in IPConditionTypes : c[u] = IF u = "ConfigInProgress" THEN "InProgress" ELSE ipc.conds[u]
  <2>1. c \in IPConditions
    BY <1>2, ConditionsTyped DEF IPStages
  <2>2. c = SetIPCondition(ipc.conds, "ConfigInProgress", "InProgress")
    BY TypeNames DEF SetIPStatusInProgress
  <2> QED
    BY <1>2, <2>1, <2>2, TypeNames, ConditionValues
<1> HIDE DEF c
<1>5. /\ y \in CRs /\ y.conds = c /\ y.stage = ipc.stage /\ y.net = ipc.net /\ y.next = ipc.next
      /\ y.cleaned = ipc.cleaned /\ Exists(y)
  BY <1>2, <1>4, ExceptConds
<1> HIDE DEF y
<1>6. CondOK(y) /\ ~IdleTrue(y) /\ ~ConfigDone(y) /\ ConfigRuns(y) /\ y.stage = "Config"
  BY <1>2, <1>3, <1>4, <1>5, TypeNames
  DEF CondOK, PrePivotable, IdleTrue, ConfigDone, ConfigRuns, RollbackRuns, ConfigOpen
<1>7. Follows(y) /\ Suits(y, "config")
  BY <1>3, <1>5, <1>6 DEF Follows, Suits
<1>8. ~IdleTrue(ipc)
  BY <1>3 DEF PrePivotable
<1>9. Follows(Ended("Config", "Failed")) /\ Suits(Ended("Config", "Failed"), "final")
  BY <1>1, <1>8, EndedOK
<1>10. unit = "none"
  BY <1>1, UnitIdle
<1>11. CASE UpdateIPCStatus(y, "config", FALSE)
  BY <1>1, <1>7, <1>10, <1>11, StatusCore
<1>12. CASE UpdateIPCStatus(Ended("Config", "Failed"), "final", FALSE)
  BY <1>1, <1>9, <1>10, <1>12, StatusCore
<1> QED
  BY <1>1, <1>11, <1>12

\* The steps that leave the CR in memory as it is, to be called again later.
LEMMA WaitCore ==
    ASSUME TypeInv, Core, PrePivotWait \/ PostPivotWait \/ RollbackPostPivotWait \/ IdleWait PROVE Core'
<1>1. ASSUME UpdateIPCStatus(ipc, "final", TRUE), UNCHANGED <<hostVars, file, unitVars, envVars>>,
             pc \in {"handle", "config", "rollback", "cleanup", "verify"}
      PROVE  Core'
  <2>1. Follows(ipc)
    BY <1>1, InMemory DEF Follows
  <2>2. Suits(ipc, "final")
    BY DEF Suits
  <2>3. unit = "none" /\ pc \notin {"idle", "restored"}
    BY <1>1, UnitIdle
  <2> QED
    BY <1>1, <2>1, <2>2, <2>3, StatusCore
<1>2. CASE PrePivotWait
  BY <1>1, <1>2, InStageFacts DEF PrePivotWait, PrePivoting
<1>3. CASE PostPivotWait
  BY <1>1, <1>3 DEF PostPivotWait
<1>4. CASE RollbackPostPivotWait
  BY <1>1, <1>4, InStageFacts DEF RollbackPostPivotWait
<1>5. CASE IdleWait
  BY <1>1, <1>5, InStageFacts DEF IdleWait
<1> QED
  BY <1>2, <1>3, <1>4, <1>5

\* The ends of the Config and Rollback stages keep the invariant.
LEMMA EndCore ==
    ASSUME TypeInv, Core,
           \/ PrePivotNothing \/ PrePivotFailed \/ DisableInitMonitorFailed \/ PostPivotComplete
           \/ RollbackPrePivotFailed \/ RollbackPostPivotComplete
    PROVE  Core'
<1>2. ASSUME NEW stage \in {"Config", "Rollback"}, NEW r \in {"Completed", "Failed"}, NEW requeue,
             UpdateIPCStatus(Ended(stage, r), "final", requeue), UNCHANGED <<hostVars, file, unitVars, envVars>>,
             pc \notin {"idle", "restored", "waiting"}, ~IdleTrue(ipc) \/ stage = "Rollback",
             stage = "Config" /\ r = "Completed" => statusIPsMatchSpec(ipc)
      PROVE  Core'
  <2>1. Follows(Ended(stage, r)) /\ Suits(Ended(stage, r), "final")
    BY <1>2, EndedOK
  <2>2. unit = "none" /\ pc \notin {"idle", "restored"}
    BY <1>2, UnitIdle
  <2> QED
    BY <1>2, <2>1, <2>2, StatusCore
<1>3. ConfigRuns(ipc) => ~IdleTrue(ipc)
  BY InMemory DEF CondOK
<1>4. PlaceOK
  BY DEF Core
<1>5. CASE PrePivotNothing
  <2>1. ~IdleTrue(ipc) /\ pc \in {"handle", "config"}
    BY <1>3, <1>5, InStageFacts DEF PrePivotNothing, PrePivoting
  <2> QED
    BY <1>2, <1>5, <2>1 DEF PrePivotNothing
<1>6. CASE PrePivotFailed
  <2>1. ~IdleTrue(ipc) /\ pc \in {"handle", "config", "unitFailed"}
    BY <1>3, <1>4, <1>6, InStageFacts, UnitIdle DEF PrePivotFailed, PrePivoting, PlaceOK
  <2> QED
    BY <1>2, <1>6, <2>1 DEF PrePivotFailed
<1>7. CASE DisableInitMonitorFailed
  <2>1. ~IdleTrue(ipc) /\ pc \in {"handle", "config"}
    BY <1>3, <1>7, InStageFacts DEF DisableInitMonitorFailed, PostPivoting
  <2> QED
    BY <1>2, <1>7, <2>1 DEF DisableInitMonitorFailed
<1>8. CASE PostPivotComplete
  <2>1. ~IdleTrue(ipc) /\ pc = "verify"
    BY <1>3, <1>4, <1>8 DEF PostPivotComplete, PlaceOK
  <2> QED
    BY <1>2, <1>8, <2>1 DEF PostPivotComplete
<1>9. CASE RollbackPrePivotFailed
  <2>1. pc \in {"handle", "rollback", "rollbackSaved"}
    BY <1>9, InStageFacts DEF RollbackPrePivotFailed
  <2> QED
    BY <1>2, <1>9, <2>1 DEF RollbackPrePivotFailed
<1>10. CASE RollbackPostPivotComplete
  <2>1. pc \in {"handle", "rollback"}
    BY <1>10, InStageFacts DEF RollbackPostPivotComplete
  <2> QED
    BY <1>2, <1>10, <2>1 DEF RollbackPostPivotComplete
<1> QED
  BY <1>5, <1>6, <1>7, <1>8, <1>9, <1>10

\* The start of a Rollback (validateRollbackStart) keeps the invariant.
LEMMA EnterRollbackCore ==
    ASSUME TypeInv, Core, EnterRollback PROVE Core'
<1> DEFINE c == SetIPStatusInProgress(ClearIPInvalidTransitionStatusConditions(ipc.conds), "Rollback")
           y == [ipc EXCEPT !.conds = c]
<1>1. /\ \/ isUnbootedStaterootAvailable /\ UpdateIPCStatus(y, "rollback", FALSE)
         \/ UpdateIPCStatus(Ended("Rollback", "Failed"), "final", FALSE)
      /\ UNCHANGED <<hostVars, file, unitVars, envVars>>
      /\ pc = "handle" /\ ipc.stage = "Rollback" /\ ~ipc.cleaned
  BY DEF EnterRollback, Handling
<1>2. ipc \in CRs /\ ipc.conds \in IPConditions /\ CondOK(ipc) /\ Exists(ipc)
  BY <1>1, InMemory
<1>3. ClearIPInvalidTransitionStatusConditions(ipc.conds) \in IPConditions
  BY <1>2, ConditionsTyped
<1>4. /\ c \in IPConditions
      /\ \A u \in IPConditionTypes :
            c[u] = IF u = "RollbackInProgress" THEN "InProgress"
                   ELSE IF ipc.conds[u] # "InvalidTransition" THEN ipc.conds[u]
                   ELSE IF u = "Idle" THEN "ConfigurationInProgress" ELSE "None"
  <2> DEFINE d == ClearIPInvalidTransitionStatusConditions(ipc.conds)
  <2>1. c \in IPConditions
    BY <1>3, ConditionsTyped DEF IPStages
  <2>2. c = SetIPCondition(d, "RollbackInProgress", "InProgress")
    BY TypeNames DEF SetIPStatusInProgress
  <2>3. \A u \in IPConditionTypes :
            d[u] = IF ipc.conds[u] # "InvalidTransition" THEN ipc.conds[u]
                   ELSE IF u = "Idle" THEN "ConfigurationInProgress" ELSE "None"
    BY <1>2, ConditionValues
  <2> HIDE DEF d
  <2>4. \A u \in IPConditionTypes : c[u] = IF u = "RollbackInProgress" THEN "InProgress" ELSE d[u]
    BY <1>3, <2>2, TypeNames, ConditionValues DEF d
  <2> QED
    BY <2>1, <2>3, <2>4
<1> HIDE DEF c
<1>5. /\ y \in CRs /\ y.conds = c /\ y.stage = ipc.stage /\ y.net = ipc.net /\ y.next = ipc.next
      /\ y.cleaned = ipc.cleaned /\ Exists(y)
  BY <1>2, <1>4, ExceptConds
<1> HIDE DEF y
<1>6. unit = "none"
  BY <1>1, UnitIdle
<1>7. CASE isUnbootedStaterootAvailable /\ UpdateIPCStatus(y, "rollback", FALSE)
  <2>1. ~IdleTrue(ipc)
    BY <1>7 DEF isUnbootedStaterootAvailable, Core, OperatorOK, IdleClean
  <2>2. CondOK(y) /\ ~IdleTrue(y) /\ ~ConfigDone(y) /\ ~PrePivotable(y) /\ RollbackRuns(y) /\ y.stage = "Rollback"
    BY <1>1, <1>2, <1>4, <1>5, <2>1, TypeNames
    DEF CondOK, PrePivotable, IdleTrue, ConfigDone, ConfigRuns, RollbackRuns, ConfigOpen
  <2>3. Follows(y) /\ Suits(y, "rollback")
    BY <1>1, <1>5, <2>2 DEF Follows, Suits
  <2> QED
    BY <1>1, <1>6, <1>7, <2>3, StatusCore
<1>8. CASE UpdateIPCStatus(Ended("Rollback", "Failed"), "final", FALSE)
  <2>1. Follows(Ended("Rollback", "Failed")) /\ Suits(Ended("Rollback", "Failed"), "final")
    BY <1>1, EndedOK
  <2> QED
    BY <1>1, <1>6, <1>8, <2>1, StatusCore
<1> QED
  BY <1>1, <1>7, <1>8

\* The start of the cleanup keeps the invariant.
LEMMA EnterIdleCore ==
    ASSUME TypeInv, Core, EnterIdle PROVE Core'
<1> DEFINE c == SetIPCondition(ClearIPInvalidTransitionStatusConditions(ipc.conds), "Idle", "InProgress")
           y == [ipc EXCEPT !.conds = c]
<1>1. /\ UpdateIPCStatus(y, "cleanup", FALSE) /\ UNCHANGED <<hostVars, file, unitVars, envVars>>
      /\ pc = "handle" /\ ipc.stage = "Idle" /\ ~ipc.cleaned /\ Valid
  BY DEF EnterIdle, Handling
<1>2. ipc \in CRs /\ ipc.conds \in IPConditions /\ CondOK(ipc) /\ Exists(ipc)
  BY <1>1, InMemory
<1>3. ClearIPInvalidTransitionStatusConditions(ipc.conds) \in IPConditions
  BY <1>2, ConditionsTyped
<1>4. /\ c \in IPConditions
      /\ \A u \in IPConditionTypes :
            c[u] = IF u = "Idle" THEN "InProgress"
                   ELSE IF ipc.conds[u] # "InvalidTransition" THEN ipc.conds[u] ELSE "None"
  <2>1. "InProgress" \in IPConditionReasons
    BY DEF IPConditionReasons
  <2> DEFINE d == ClearIPInvalidTransitionStatusConditions(ipc.conds)
  <2>2. c \in IPConditions
    BY <1>3, <2>1, TypeNames, ConditionsTyped
  <2>3. \A u \in IPConditionTypes \ {"Idle"} :
            d[u] = IF ipc.conds[u] # "InvalidTransition" THEN ipc.conds[u] ELSE "None"
    BY <1>2, ConditionValues
  <2>4. \A u \in IPConditionTypes : c[u] = IF u = "Idle" THEN "InProgress" ELSE d[u]
    BY <1>3, TypeNames, ConditionValues
  <2> HIDE DEF d, c
  <2> QED
    BY <2>2, <2>3, <2>4
<1> HIDE DEF c
<1>5. /\ y \in CRs /\ y.conds = c /\ y.stage = ipc.stage /\ y.net = ipc.net /\ y.next = ipc.next
      /\ y.cleaned = ipc.cleaned /\ Exists(y)
  BY <1>2, <1>4, ExceptConds
<1> HIDE DEF y
<1>6. "Config" \notin ipc.next
  BY <1>1, <1>2 DEF Valid, CondOK
<1>7. CondOK(y) /\ ~IdleTrue(y) /\ ~ConfigDone(y) /\ ~PrePivotable(y) /\ y.stage = "Idle"
  BY <1>1, <1>2, <1>4, <1>5, <1>6, TypeNames
  DEF CondOK, PrePivotable, IdleTrue, ConfigDone, ConfigRuns, RollbackRuns, ConfigOpen
<1>8. Follows(y) /\ Suits(y, "cleanup")
  BY <1>1, <1>5, <1>7 DEF Follows, Suits
<1> QED
  BY <1>1, <1>8, UnitIdle, StatusCore

\* All steps of the handlers that end in UpdateIPCStatus keep the invariant.
LEMMA StatusStepsCore ==
    ASSUME TypeInv, Core, StatusSteps PROVE Core'
BY RefuseTransitionCore, EnterConfigCore, validateConfigStartCore, WaitCore, EndCore, EnterRollbackCore,
   EnterIdleCore
DEF StatusSteps

-----------------------------------------------------------------------------
(* Steps that leave the stateroots as they are. *)

\* The step changes no deployment, network, plan or enabled kubelet.
Quiet ==
    /\ UNCHANGED <<booted, deployed, running, unit, target>>
    /\ \A s \in Stateroot :
          /\ disk'[s].plan = disk[s].plan /\ disk'[s].done = disk[s].done /\ disk'[s].net = disk[s].net
          /\ disk'[s].cert = disk[s].cert /\ (disk'[s].kubelet <=> disk[s].kubelet)
          /\ s # booted => disk'[s] = disk[s]

\* A quiet step keeps what is said of the disks.
LEMMA QuietFrame ==
    ASSUME TypeInv, HostOK, Quiet
    PROVE  /\ (\A s \in Stateroot : DiskOK(s))' /\ PairOK'
           /\ \A s \in Stateroot : (Alive(s)' <=> Alive(s)) /\ (Clean(s)' <=> Clean(s))
           /\ \A s, x : s \in Stateroot => /\ Startable(s, x)' <=> Startable(s, x)
                                           /\ Applied(s, x)' <=> Applied(s, x)
           /\ \A x : IdleClean(x)' <=> IdleClean(x)
<1>0. booted \in Stateroot /\ booted \in deployed /\ deployed \subseteq Stateroot
  BY DEF TypeInv, TypeOK, BootableHost
<1>1. \A s \in Stateroot : (Alive(s)' <=> Alive(s)) /\ (Clean(s)' <=> Clean(s))
  BY DEF Quiet, Alive, Clean
<1>2. ASSUME NEW s \in Stateroot PROVE DiskOK(s)'
  <2>1. DiskOK(s)
    BY DEF HostOK
  <2> QED
    BY <1>0, <1>1, <2>1 DEF Quiet, DiskOK
<1>3. PairOK'
  BY <1>0, <1>1 DEF Quiet, HostOK, PairOK
<1>4. \A s, x : s \in Stateroot => (Startable(s, x)' <=> Startable(s, x))
  BY <1>1 DEF Quiet, Startable
<1>5. \A s, x : s \in Stateroot => (Applied(s, x)' <=> Applied(s, x))
  BY DEF Quiet, Applied
<1>6. \A x : IdleClean(x)' <=> IdleClean(x)
  BY <1>0, <1>1 DEF Quiet, IdleClean
<1> QED
  BY <1>1, <1>2, <1>3, <1>4, <1>5, <1>6

\* A step that leaves the host alone is quiet.
LEMMA SameQuiet ==
    ASSUME TypeInv, HostSame PROVE Quiet
BY DEF Quiet, HostSame

\* A quiet step that writes the CR or the ipc.json of the booted stateroot keeps
\* the stores when what it writes is true there.
LEMMA StoresStep ==
    ASSUME TypeInv, HostOK, StoresOK, Quiet, running, NoDelete' => NoDelete,
           NEW y \in CRs, cr' = [cr EXCEPT ![booted] = y],
           NEW z \in CRs, file' = [file EXCEPT ![booted] = z],
           CondOK(y), Applied(booted, y), IdleClean(y), CondOK(z), ~IdleTrue(z), Applied(booted, z),
           up' \/ pc' = "restored" \/ ~Exists(z) => Startable(booted, y),
           Exists(z) => Startable(booted, z)
    PROVE  StoresOK'
<1>1. booted \in Stateroot /\ booted' = booted /\ booted \in deployed
  BY RunningFacts DEF Quiet
<1>2. /\ cr'[booted] = y /\ \A s \in Stateroot : s # booted => cr'[s] = cr[s]
      /\ file'[booted] = z /\ \A s \in Stateroot : s # booted => file'[s] = file[s]
  BY <1>1 DEF TypeInv, TypeOK
<1>3. CurrentOK'
  BY <1>1, <1>2, QuietFrame DEF CurrentOK
<1>4. \A s : Needed(s)' => Needed(s)
  BY DEF Needed, Quiet
<1>5. ASSUME NEW s \in Stateroot, s = booted PROVE StoreOK(s)'
  <2>1. StoreOK(s) /\ Saved(s)' = (IF Exists(z) THEN z ELSE y)
    BY <1>1, <1>2, <1>5 DEF StoresOK, Saved
  <2>2. disk[s].plan # 0 => disk[s].done = RunOnceSteps
    BY <1>5, RunningFacts
  <2>3. Startable(s, Saved(s))'
    BY <1>5, <2>1, QuietFrame
  <2>4. Applied(s, y)' /\ Applied(s, z)'
    BY <1>5, QuietFrame
  <2> QED
    BY <1>1, <1>2, <1>5, <2>1, <2>2, <2>3, <2>4 DEF StoreOK, Quiet, RunOnceSteps
<1>6. ASSUME NEW s \in Stateroot, s # booted PROVE StoreOK(s)'
  <2>1. StoreOK(s) /\ cr'[s] = cr[s] /\ file'[s] = file[s] /\ Saved(s)' = Saved(s)
    BY <1>2, <1>6 DEF StoresOK, Saved
  <2>2. (Needed(s) => Startable(s, Saved(s)))'
    BY <1>4, <2>1, QuietFrame DEF StoreOK
  <2>3. Applied(s, cr[s])' /\ Applied(s, file[s])'
    BY <2>1, QuietFrame DEF StoreOK
  <2> QED
    BY <1>1, <1>6, <2>1, <2>2, <2>3 DEF StoreOK, Quiet
<1> QED
  BY <1>3, <1>5, <1>6 DEF StoresOK

\* A quiet step that writes neither keeps the stores.
LEMMA StoresQuiet ==
    ASSUME TypeInv, HostOK, StoresOK, Quiet, NoDelete' => NoDelete, cr' = cr, file' = file,
           up' \/ pc' = "restored" => up \/ pc = "restored"
    PROVE  StoresOK'
<1>0. booted \in Stateroot /\ booted' = booted
  BY DEF TypeInv, TypeOK, Quiet
<1>1. \A s : (Needed(s)' => Needed(s)) /\ Saved(s)' = Saved(s)
  BY DEF Needed, Saved, Quiet
<1>2. ASSUME NEW s \in Stateroot PROVE StoreOK(s)'
  <2>1. StoreOK(s)
    BY DEF StoresOK
  <2>2. (Needed(s) => Startable(s, Saved(s)))'
    BY <1>1, <2>1, QuietFrame DEF StoreOK
  <2>3. Applied(s, cr[s])' /\ Applied(s, file[s])'
    BY <2>1, QuietFrame DEF StoreOK
  <2> QED
    BY <1>0, <2>1, <2>2, <2>3 DEF StoreOK, Quiet
<1>3. CurrentOK'
  BY <1>0, QuietFrame DEF CurrentOK, StoresOK
<1> QED
  BY <1>2, <1>3 DEF StoresOK

\* The same stores, written as the updates the lemma above is about.
LEMMA SameStores ==
    ASSUME TypeInv
    PROVE  /\ booted \in Stateroot /\ cr[booted] \in CRs /\ file[booted] \in CRs
           /\ cr = [cr EXCEPT ![booted] = cr[booted]]
           /\ file = [file EXCEPT ![booted] = file[booted]]
BY DEF TypeInv, TypeOK

\* What the invariant says of the CR and the ipc.json of the booted stateroot:
\* InitIPConfig may restore the one and the handlers act on the other.
LEMMA BootedStores ==
    ASSUME TypeInv, Core
    PROVE  /\ CondOK(cr[booted]) /\ Applied(booted, cr[booted]) /\ IdleClean(cr[booted])
           /\ CondOK(file[booted]) /\ ~IdleTrue(file[booted]) /\ Applied(booted, file[booted])
           /\ up \/ pc = "restored" => Startable(booted, cr[booted])
           /\ running => /\ Exists(file[booted]) => Startable(booted, file[booted])
                         /\ ~Exists(file[booted]) => Startable(booted, cr[booted])
<1>1. StoreOK(booted) /\ CurrentOK
  BY SameStores DEF Core, StoresOK
<1>2. running => unit \in {"none", "inputs"}
  BY DEF Core, UnitOK
<1> QED
  BY <1>1, <1>2 DEF StoreOK, CurrentOK, Needed, Saved

-----------------------------------------------------------------------------
(* The frame of a reconcile, InitIPConfig and the watch. *)

\* The valid next stages do not open the way to a Config.
LEMMA NextStagesGood ==
    ASSUME NEW x \in CRs, CondOK(x), Exists(x), Startable(booted, x), Applied(booted, x), IdleClean(x)
    PROVE  WithNextStages(x) \in CRs /\ Exists(WithNextStages(x)) /\ GoodCR(WithNextStages(x))
<1> DEFINE y == WithNextStages(x)
<1>1. /\ y \in CRs /\ Exists(y) /\ y.stage = x.stage /\ y.net = x.net /\ y.conds = x.conds
      /\ y.cleaned = x.cleaned
      /\ "Config" \in y.next => y.next = {"Config"} /\ IdleTrue(y)
  BY NextStagesOK
<1> HIDE DEF y
<1>2. CondOK(y)
  BY <1>1 DEF CondOK, IdleTrue, ConfigRuns, RollbackRuns, ConfigOpen
<1>3. PrePivotable(y) => PrePivotable(x) /\ x.net = y.net
  BY <1>1 DEF PrePivotable, IdleTrue, ConfigOpen, ConfigRuns
<1>4. Startable(booted, y)
  BY <1>3 DEF Startable
<1>5. Applied(booted, y) /\ IdleClean(y)
  BY <1>1 DEF Applied, ConfigDone, IdleClean, IdleTrue
<1> QED
  BY <1>1, <1>2, <1>4, <1>5 DEF GoodCR, y

\* Reading the CR and computing its absent valid next stages keeps the
\* invariant.
LEMMA ReconcileCore ==
    ASSUME TypeInv, Core, Reconcile PROVE Core'
<1> DEFINE x == IF cr[booted].next = {} THEN WithNextStages(cr[booted]) ELSE cr[booted]
<1>1. /\ running /\ up /\ pc = "idle" /\ Exists(cr[booted]) /\ HostSame /\ file' = file /\ up' = up
      /\ deleted' = deleted /\ pc' = "handle" /\ faults' = faults
      /\ ipc' = x /\ cr' = [cr EXCEPT ![booted] = x]
  BY DEF Reconcile, HostSame, hostVars, unitVars, envVars
<1>2. /\ CondOK(cr[booted]) /\ Applied(booted, cr[booted]) /\ IdleClean(cr[booted])
      /\ CondOK(file[booted]) /\ ~IdleTrue(file[booted]) /\ Applied(booted, file[booted])
      /\ Startable(booted, cr[booted]) /\ (Exists(file[booted]) => Startable(booted, file[booted]))
  BY <1>1, BootedStores
<1>3. x \in CRs /\ Exists(x) /\ GoodCR(x)
  BY <1>1, <1>2, NextStagesGood, SameStores DEF GoodCR
<1> HIDE DEF x
<1>4. Quiet /\ unit = "none" /\ HostOK /\ StoresOK /\ (NoDelete' <=> NoDelete)
  BY <1>1, SameQuiet DEF Core, UnitOK, NoDelete
<1>5. StoresOK'
  BY <1>1, <1>2, <1>3, <1>4, StoresStep, SameStores DEF GoodCR
<1>6. HostOK' /\ UnitOK'
  BY <1>1, <1>4, HostFrame DEF UnitOK, HostSame
<1>7. OperatorOK'
  BY <1>1, <1>3, <1>4, HostFrame DEF OperatorOK, Core, GoodCR, HostSame
<1>8. cr'[booted'] = x
  BY <1>1, SameStores DEF TypeInv, TypeOK, HostSame
<1>9. PlaceOK'
  BY <1>1, <1>8 DEF PlaceOK
<1> QED
  BY <1>5, <1>6, <1>7, <1>9 DEF Core

\* A reconcile of a stage that has ended keeps the invariant.
LEMMA HandleNothingCore ==
    ASSUME TypeInv, Core, HandleNothing PROVE Core'
<1>1. /\ HostSame /\ cr' = cr /\ file' = file /\ up' = up /\ deleted' = deleted /\ pc = "handle" /\ pc' = "final"
      /\ ipc' = ipc /\ faults' = faults
  BY DEF HandleNothing, HostSame, hostVars, unitVars, envVars, storeVars, Handling
<1>2. Quiet /\ unit = "none" /\ up /\ HostOK /\ StoresOK /\ (NoDelete' <=> NoDelete)
  BY <1>1, SameQuiet, UnitIdle DEF Core, NoDelete
<1>3. StoresOK'
  BY <1>1, <1>2, StoresQuiet
<1>4. HostOK' /\ UnitOK' /\ OperatorOK' /\ PlaceOK'
  BY <1>1, <1>2, HostFrame DEF UnitOK, HostSame, OperatorOK, Core, PlaceOK
<1> QED
  BY <1>3, <1>4 DEF Core

\* A CR that is not there or is new is true of every stateroot.
LEMMA NoCRGood == GoodCR(NoCR) /\ GoodCR(InitialCR)
BY NoCROK DEF GoodCR, Startable, Applied, IdleClean

\* The deferred status update keeps the invariant, with whatever the handler
\* left in memory.
LEMMA ReconcileFinalCore ==
    ASSUME TypeInv, Core, ReconcileFinal PROVE Core'
<1>1. /\ HostSame /\ file' = file /\ up' = up /\ deleted' = deleted /\ pc = "final" /\ pc' = "idle"
      /\ ipc' = NoCR /\ faults' = faults
      /\ cr' = [cr EXCEPT ![booted] = WithNextStages(ipc)] \/ cr' = cr
  BY DEF ReconcileFinal, HostSame, hostVars, unitVars, envVars
<1>2. Quiet /\ unit = "none" /\ up /\ running /\ HostOK /\ StoresOK /\ (NoDelete' <=> NoDelete)
  BY <1>1, SameQuiet, UnitIdle DEF Core, NoDelete
<1>3. StoresOK'
  <2>1. CASE cr' = cr
    BY <1>1, <1>2, <2>1, StoresQuiet
  <2>2. CASE cr' = [cr EXCEPT ![booted] = WithNextStages(ipc)]
    <3>1. ipc \in CRs /\ Exists(ipc) /\ GoodCR(ipc)
      BY <1>1, InMemory DEF Core, OperatorOK, GoodCR
    <3>2. WithNextStages(ipc) \in CRs /\ GoodCR(WithNextStages(ipc))
      BY <3>1, NextStagesGood DEF GoodCR
    <3> QED
      BY <1>1, <1>2, <2>2, <3>2, StoresStep, SameStores, BootedStores DEF GoodCR
  <2> QED
    BY <1>1, <2>1, <2>2
<1>4. HostOK' /\ UnitOK' /\ PlaceOK'
  BY <1>1, <1>2, HostFrame DEF UnitOK, HostSame, PlaceOK
<1>5. OperatorOK'
  BY <1>1, <1>2, HostFrame, NoCRGood DEF HostSame, OperatorOK, Core, GoodCR
<1> QED
  BY <1>3, <1>4, <1>5 DEF Core

\* InitIPConfig keeps the invariant: created, restored from ipc.json, or left
\* without a CR or a status by a failure.
LEMMA InitIPConfigCore ==
    ASSUME TypeInv, Core, InitIPConfig PROVE Core'
<1>0. /\ HostSame /\ ipc' = ipc /\ deleted' = deleted /\ pc \in {"idle", "restored"}
      /\ pc' \in {"idle", "restored"} /\ running /\ (up => up')
  <2>1. pc = "restored" => running
    BY DEF Core, OperatorOK
  <2> QED
    BY <2>1 DEF InitIPConfig, InitIPConfigCreate, InitIPConfigRestore, InitIPConfigRemove,
         InitIPConfigFail, InitIPConfigRequired, HostSame, hostVars, unitVars, envVars, opVars
<1>1. NoDelete' <=> NoDelete
  BY FaultFacts DEF NoDelete, InitIPConfig, InitIPConfigCreate, InitIPConfigRestore, InitIPConfigRemove,
     InitIPConfigFail
<1>2. Quiet /\ unit = "none" /\ HostOK /\ StoresOK
  BY <1>0, SameQuiet DEF Core, UnitOK
<1>3. HostOK' /\ UnitOK' /\ PlaceOK'
  BY <1>0, <1>2, HostFrame DEF UnitOK, HostSame, PlaceOK
<1>4. OperatorOK'
  BY <1>0, <1>1, <1>2, HostFrame, NoCRGood DEF HostSame, OperatorOK, Core, GoodCR
<1>5. StoresOK'
  <2>1. CASE InitIPConfigCreate
    <3> DEFINE y == IF Exists(cr[booted]) THEN cr[booted] ELSE InitialCR
    <3>1. cr' = [cr EXCEPT ![booted] = y] /\ file' = file /\ ~Exists(file[booted])
      BY <2>1, SameStores DEF InitIPConfigCreate
    <3>2. y \in CRs /\ CondOK(y) /\ Applied(booted, y) /\ IdleClean(y) /\ Startable(booted, y)
      BY <1>0, <3>1, SameStores, BootedStores, NoCRGood, CRsTyped DEF GoodCR
    <3> HIDE DEF y
    <3> QED
      BY <1>0, <1>1, <1>2, <3>1, <3>2, StoresStep, SameStores, BootedStores
  <2>2. CASE InitIPConfigRestore
    <3>1. cr' = [cr EXCEPT ![booted] = file[booted]] /\ file' = file /\ Exists(file[booted])
      BY <2>2 DEF InitIPConfigRestore
    <3>2. IdleClean(file[booted])
      BY BootedStores DEF IdleClean
    <3> QED
      BY <1>0, <1>1, <1>2, <3>1, <3>2, StoresStep, SameStores, BootedStores
  <2>3. CASE InitIPConfigRemove
    <3>1. cr' = cr /\ file' = [file EXCEPT ![booted] = NoCR] /\ pc = "restored"
      BY <2>3 DEF InitIPConfigRemove
    <3>2. NoCR \in CRs /\ GoodCR(NoCR) /\ ~Exists(NoCR) /\ ~IdleTrue(NoCR)
      BY NoCRGood, CRsTyped, NoCROK
    <3> QED
      BY <1>0, <1>1, <1>2, <3>1, <3>2, StoresStep, SameStores, BootedStores DEF GoodCR
  <2>4. CASE InitIPConfigFail
    <3> DEFINE w == [file[booted] EXCEPT !.conds = NoIPConditions, !.next = {}]
    <3>1. PICK x \in {NoCR, w} : cr' = [cr EXCEPT ![booted] = x]
      BY <2>4 DEF InitIPConfigFail
    <3>2. w \in CRs /\ GoodCR(w)
      <4>1. /\ w \in CRs /\ w.conds = NoIPConditions /\ w.next = {}
        BY SameStores, NoConditionsTyped DEF CRs
      <4>2. \A t \in IPConditionTypes : NoIPConditions[t] = "None"
        BY DEF NoIPConditions
      <4> HIDE DEF w
      <4>3. CondOK(w) /\ ~PrePivotable(w) /\ ~IdleTrue(w) /\ ~ConfigDone(w)
        BY <4>1, <4>2, TypeNames
        DEF CondOK, PrePivotable, IdleTrue, ConfigDone, ConfigRuns, RollbackRuns, ConfigOpen
      <4> QED
        BY <4>1, <4>3 DEF GoodCR, Startable, Applied, IdleClean
    <3> HIDE DEF w
    <3>3. x \in CRs /\ GoodCR(x) /\ file' = file
      BY <2>4, <3>1, <3>2, NoCRGood, CRsTyped DEF InitIPConfigFail
    <3> QED
      BY <1>0, <1>1, <1>2, <3>1, <3>3, StoresStep, SameStores, BootedStores DEF GoodCR
  <2> QED
    BY <2>1, <2>2, <2>3, <2>4 DEF InitIPConfig
<1> QED
  BY <1>3, <1>4, <1>5 DEF Core

\* Saving a deleted CR to be restored, or dropping the saved one, keeps the
\* invariant.
LEMMA DeleteFuncCore ==
    ASSUME TypeInv, Core, DeleteFunc PROVE Core'
<1> DEFINE z == IF IsIPStageCompleted(deleted.conds, "Idle") \/ IsIPStageFailed(deleted.conds, "Rollback")
                  THEN NoCR ELSE deleted
<1>1. /\ HostSame /\ cr' = cr /\ up /\ up' = up /\ pc' = pc /\ ipc' = ipc /\ Exists(deleted) /\ deleted' = NoCR
      /\ faults' = faults /\ file' = [file EXCEPT ![booted] = z]
  BY DEF DeleteFunc, HostSame, hostVars, unitVars
<1>2. /\ Quiet /\ running /\ HostOK /\ StoresOK /\ OperatorOK /\ UnitOK /\ PlaceOK
      /\ (NoDelete' <=> NoDelete) /\ ~NoDelete
  BY <1>1, SameQuiet, NoCROK DEF Core, OperatorOK, NoDelete
<1>3. deleted \in CRs
  BY DEF TypeInv, TypeOK
<1>4. /\ z \in CRs /\ CondOK(z) /\ ~IdleTrue(z) /\ Applied(booted, z) /\ Startable(booted, z)
  BY <1>2, <1>3, NoCRGood, NoCROK, CRsTyped, ReadConditions DEF GoodCR, OperatorOK
<1> HIDE DEF z
<1>5. StoresOK'
  BY <1>1, <1>2, <1>4, StoresStep, SameStores, BootedStores
<1>6. HostOK' /\ OperatorOK'
  BY <1>1, <1>2, HostFrame, NoCRGood DEF OperatorOK, GoodCR, HostSame
<1>7. booted \in Stateroot /\ target \in Stateroot /\ \A s \in Stateroot : s # booted => file'[s] = file[s]
  BY <1>1 DEF TypeInv, TypeOK
<1>8. UnitOK'
  BY <1>1, <1>2, <1>7, HostFrame DEF UnitOK, Carries, HostSame
<1>9. UnbootedStateroot' = UnbootedStateroot /\ (isUnbootedStaterootAvailable' <=> isUnbootedStaterootAvailable)
  BY <1>1 DEF UnbootedStateroot, isUnbootedStaterootAvailable, HostSame
<1>10. isUnbootedStaterootAvailable => file'[UnbootedStateroot] = file[UnbootedStateroot]
  BY <1>7, UnbootedTyped DEF TypeInv
<1>11. PlaceOK'
  BY <1>1, <1>2, <1>9, <1>10 DEF PlaceOK, HostSame
<1> QED
  BY <1>5, <1>6, <1>8, <1>11 DEF Core

\* A change of the CR that the rules of the CRD admit keeps the invariant.
LEMMA EditCore ==
    ASSUME TypeInv, Core, NEW y \in CRs, EditCR(y), CondOK(y), Applied(booted, y),
           y.conds = cr[booted].conds, Exists(y) => Exists(cr[booted]),
           \/ y.net = cr[booted].net
           \/ IdleTrue(cr[booted])
           \/ cr[booted].conds = NoIPConditions,
           PrePivotable(y) => PrePivotable(cr[booted]) /\ y.net = cr[booted].net
    PROVE  Core'
<1>1. /\ HostSame /\ file' = file /\ up' = up /\ pc' = pc /\ ipc' = ipc /\ deleted' = deleted /\ running
      /\ faults' = faults /\ cr' = [cr EXCEPT ![booted] = y]
  BY DEF EditCR, HostSame, hostVars, unitVars
<1>2. /\ Quiet /\ HostOK /\ StoresOK /\ OperatorOK /\ UnitOK /\ PlaceOK /\ (NoDelete' <=> NoDelete)
  BY <1>1, SameQuiet DEF Core, NoDelete
<1>3. IdleClean(y)
  BY BootedStores DEF IdleClean, IdleTrue
<1>4. Startable(booted, cr[booted]) => Startable(booted, y)
  BY DEF Startable
<1>5. StoresOK'
  BY <1>1, <1>2, <1>3, <1>4, StoresStep, SameStores, BootedStores
<1>6. HostOK' /\ OperatorOK'
  BY <1>1, <1>2, HostFrame DEF OperatorOK, HostSame
<1>7. booted \in Stateroot /\ target \in Stateroot /\ cr'[booted] = y /\ \A s \in Stateroot : s # booted => cr'[s] = cr[s]
  BY <1>1 DEF TypeInv, TypeOK
<1>8. UnitOK'
  <2>1. Carries(booted, target) => Carries(booted, target)'
    <3>1. ASSUME ConfigRuns(cr[booted]) PROVE y.net = cr[booted].net /\ ConfigRuns(y)
      <4>1. ~IdleTrue(cr[booted])
        BY <3>1, BootedStores DEF CondOK
      <4>2. cr[booted].conds # NoIPConditions
        BY <3>1, TypeNames DEF ConfigRuns, NoIPConditions
      <4> QED
        BY <3>1, <4>1, <4>2 DEF ConfigRuns
    <3> QED
      BY <1>1, <1>7, <3>1 DEF Carries, HostSame
  <2>2. target # booted => (Carries(target, target)' <=> Carries(target, target))
    BY <1>1, <1>7 DEF Carries, HostSame
  <2> QED
    BY <1>1, <1>2, <1>7, <2>1, <2>2, HostFrame DEF UnitOK, HostSame
<1>9. UnbootedStateroot' = UnbootedStateroot /\ (isUnbootedStaterootAvailable' <=> isUnbootedStaterootAvailable)
  BY <1>1 DEF UnbootedStateroot, isUnbootedStaterootAvailable, HostSame
<1>11. PlaceOK'
  BY <1>1, <1>2, <1>7, <1>9 DEF PlaceOK, HostSame, IdleTrue
<1> QED
  BY <1>5, <1>6, <1>8, <1>11 DEF Core

\* The user keeps the invariant: a spec, an annotation, the deletion of the CR.
LEMMA UserCore ==
    ASSUME TypeInv, Core, User PROVE Core'
<1>0. /\ cr[booted] \in CRs /\ CondOK(cr[booted]) /\ Applied(booted, cr[booted])
  BY SameStores, BootedStores
<1>1. ASSUME NEW stage \in IPStages, NEW net \in Stateroot, SetSpec(stage, net) PROVE Core'
  <2> DEFINE x == cr[booted]
             y == [cr[booted] EXCEPT !.stage = stage, !.net = net]
  <2>1. Exists(x) /\ specChangeAdmitted(x, stage, net) /\ EditCR(y)
    BY <1>1 DEF SetSpec
  <2>2. y \in CRs /\ y.stage = stage /\ y.net = net /\ y.conds = x.conds /\ y.next = x.next /\ y.cleaned = x.cleaned
    BY <1>0 DEF CRs
  <2> HIDE DEF y
  <2>3. CASE x.conds = NoIPConditions /\ x.next = {}
    <3>1. \A t \in IPConditionTypes : NoIPConditions[t] = "None"
      BY DEF NoIPConditions
    <3>2. CondOK(y) /\ ~PrePivotable(y) /\ ~ConfigDone(y)
      BY <1>0, <2>2, <2>3, <3>1, TypeNames
      DEF CondOK, PrePivotable, IdleTrue, ConfigDone, ConfigRuns, RollbackRuns, ConfigOpen
    <3> QED
      BY <1>0, <2>1, <2>2, <2>3, <3>2, EditCore DEF Applied
  <2>4. CASE (stage \in x.next \/ stage = x.stage) /\ (net = x.net \/ IPIsTrue(x.conds, "Idle"))
    <3>1. net = x.net \/ IdleTrue(x)
      BY <1>0, <2>4, ReadConditions
    <3>2. CondOK(y)
      BY <1>0, <2>2, <2>4, CRsTyped DEF CondOK, Exists, IPStages, IdleTrue, ConfigRuns, RollbackRuns,
           ConfigOpen
    <3>3. PrePivotable(y) => PrePivotable(x) /\ y.net = x.net
      BY <1>0, <2>2, <2>4, <3>1 DEF CondOK, PrePivotable, IdleTrue, ConfigOpen, ConfigRuns
    <3>4. ConfigDone(y) => ConfigDone(x) /\ y.net = x.net
      BY <1>0, <2>2, <2>4, <3>1 DEF CondOK, ConfigDone, IdleTrue, ConfigOpen
    <3>5. Applied(booted, y)
      BY <1>0, <3>4 DEF Applied
    <3> QED
      BY <1>0, <2>1, <2>2, <3>1, <3>2, <3>3, <3>5, EditCore
  <2> QED
    BY <2>1, <2>3, <2>4 DEF specChangeAdmitted
<1>2. CASE AddManualCleanup
  <2> DEFINE y == [cr[booted] EXCEPT !.cleaned = TRUE]
  <2>1. EditCR(y) /\ cr[booted].conds["Idle"] = "Failed"
    BY <1>2 DEF AddManualCleanup
  <2>2. /\ y \in CRs /\ y.stage = cr[booted].stage /\ y.net = cr[booted].net /\ y.conds = cr[booted].conds
        /\ y.next = cr[booted].next
    BY <1>0 DEF CRs
  <2> HIDE DEF y
  <2>3. CondOK(y) /\ Applied(booted, y) /\ (PrePivotable(y) => PrePivotable(cr[booted]))
    BY <1>0, <2>1, <2>2
    DEF CondOK, Applied, PrePivotable, ConfigDone, IdleTrue, ConfigRuns, RollbackRuns, ConfigOpen
  <2>4. Exists(y) => Exists(cr[booted])
    BY <2>2 DEF Exists
  <2> QED
    BY <2>1, <2>2, <2>3, <2>4, EditCore
<1>3. CASE TriggerReconcile
  BY <1>0, <1>3, EditCore DEF TriggerReconcile
<1>4. CASE DeleteCR
  <2>1. /\ HostSame /\ file' = file /\ up' = up /\ pc' = pc /\ ipc' = ipc /\ running
        /\ deleted' = (IF up THEN cr[booted] ELSE NoCR) /\ cr' = [cr EXCEPT ![booted] = NoCR]
        /\ faults' = [faults EXCEPT !["delete"] = 1]
    BY <1>4 DEF DeleteCR, HostSame, hostVars, unitVars
  <2>2. ~NoDelete'
    BY <2>1 DEF NoDelete, TypeInv, TypeOK, FaultKinds
  <2>3. Quiet /\ HostOK /\ StoresOK /\ OperatorOK /\ UnitOK /\ PlaceOK
    BY <2>1, SameQuiet DEF Core
  <2>4. GoodCR(NoCR) /\ ~IdleTrue(NoCR) /\ ~Exists(NoCR) /\ NoCR \in CRs
    BY NoCRGood, NoCROK, CRsTyped
  <2>5. StoresOK'
    BY <2>1, <2>2, <2>3, <2>4, StoresStep, SameStores, BootedStores DEF GoodCR
  <2>6. HostOK' /\ OperatorOK'
    BY <2>1, <2>2, <2>3, <2>4, HostFrame, BootedStores DEF OperatorOK, GoodCR, HostSame
  <2>7. booted \in Stateroot /\ target \in Stateroot /\ cr'[booted] = NoCR /\ \A s \in Stateroot : s # booted => cr'[s] = cr[s]
    BY <2>1 DEF TypeInv, TypeOK
  <2>8. UnitOK'
    BY <2>1, <2>2, <2>3, <2>4, <2>7, HostFrame DEF UnitOK, Carries, HostSame
  <2>9. UnbootedStateroot' = UnbootedStateroot /\ (isUnbootedStaterootAvailable' <=> isUnbootedStaterootAvailable)
    BY <2>1 DEF UnbootedStateroot, isUnbootedStaterootAvailable, HostSame
  <2>10. PlaceOK'
    BY <2>1, <2>2, <2>3, <2>4, <2>7, <2>9 DEF PlaceOK, HostSame
  <2> QED
    BY <2>5, <2>6, <2>8, <2>10 DEF Core
<1> QED
  BY <1>1, <1>2, <1>3, <1>4 DEF User

-----------------------------------------------------------------------------
(* The handlers' writes to the host. *)

\* The step leaves deployments, networks and plans alone and starts no kubelet.
Steady ==
    /\ UNCHANGED <<booted, deployed>>
    /\ \A s \in Stateroot :
          /\ disk'[s].plan = disk[s].plan /\ disk'[s].done = disk[s].done /\ disk'[s].net = disk[s].net
          /\ disk'[s].cert = disk[s].cert /\ (Alive(s)' => Alive(s))
          /\ s \notin deployed => disk'[s] = disk[s]

\* A steady step keeps what is said of the disks.
LEMMA SteadyFrame ==
    ASSUME TypeInv, HostOK, Steady
    PROVE  /\ (\A s \in Stateroot : DiskOK(s))' /\ PairOK'
           /\ \A s \in Stateroot : Clean(s)' <=> Clean(s)
           /\ \A s, x : s \in Stateroot => /\ Startable(s, x) => Startable(s, x)'
                                           /\ Applied(s, x)' <=> Applied(s, x)
<1>0. booted \in Stateroot /\ booted \in deployed /\ deployed \subseteq Stateroot
  BY DEF TypeInv, TypeOK, BootableHost
<1>1. \A s \in Stateroot : Clean(s)' <=> Clean(s)
  BY DEF Steady, Clean
<1>2. ASSUME NEW s \in Stateroot PROVE DiskOK(s)'
  <2>1. DiskOK(s)
    BY DEF HostOK
  <2> QED
    BY <1>0, <2>1 DEF Steady, DiskOK
<1>3. PairOK'
  BY <1>0, <1>1 DEF Steady, HostOK, PairOK
<1>4. \A s, x : s \in Stateroot /\ Startable(s, x) => Startable(s, x)'
  BY <1>1 DEF Steady, Startable
<1>5. \A s, x : s \in Stateroot => (Applied(s, x)' <=> Applied(s, x))
  BY DEF Steady, Applied
<1> QED
  BY <1>1, <1>2, <1>3, <1>4, <1>5

\* A steady step that writes no CR and no ipc.json keeps the stores.
LEMMA StoresSteady ==
    ASSUME TypeInv, HostOK, StoresOK, Steady, NoDelete' => NoDelete, cr' = cr, file' = file,
           \A s \in Stateroot : Needed(s)' => Needed(s),
           \A s \in Stateroot : disk[s].plan # 0 /\ disk[s].done = {} /\ ConfigDone(file[s])
               => unit' # "none" /\ s = target' /\ ~NoDelete',
           IdleTrue(cr[booted]) => unit' = "none",
           up' \/ pc' = "restored" => up \/ pc = "restored"
    PROVE  StoresOK'
<1>0. booted \in Stateroot /\ booted' = booted
  BY DEF TypeInv, TypeOK, Steady
<1>1. \A s : Saved(s)' = Saved(s)
  BY DEF Saved
<1>2. ASSUME NEW s \in Stateroot PROVE StoreOK(s)'
  <2>1. StoreOK(s)
    BY DEF StoresOK
  <2>2. (Needed(s) => Startable(s, Saved(s)))'
    BY <1>1, <2>1, SteadyFrame DEF StoreOK
  <2>3. Applied(s, cr[s])' /\ Applied(s, file[s])'
    BY <2>1, SteadyFrame DEF StoreOK
  <2> QED
    BY <1>0, <2>1, <2>2, <2>3 DEF StoreOK, Steady
<1>3. CurrentOK'
  <2>1. IdleClean(cr[booted])'
    BY <1>0, SteadyFrame DEF CurrentOK, StoresOK, IdleClean, Steady
  <2>2. (up \/ pc = "restored" => Startable(booted, cr[booted]))'
    BY <1>0, SteadyFrame DEF CurrentOK, StoresOK
  <2> QED
    BY <2>1, <2>2 DEF CurrentOK
<1> QED
  BY <1>2, <1>3 DEF StoresOK

\* While the pre-pivot unit is at work the CR is not Idle.
LEMMA UnitBusy ==
    ASSUME TypeInv, Core, unit # "none"
    PROVE  /\ target \in Stateroot /\ target \notin {0, booted} /\ deployed \subseteq {booted, target}
           /\ Clean(booted) /\ Alive(booted) /\ ~IdleTrue(cr[booted]) /\ ~IdleTrue(ipc)
           /\ unit # "inputs" => ~up /\ pc = "idle" /\ ipc = NoCR /\ deleted = NoCR /\ ~running
           /\ \A s \in Stateroot : disk[s].plan # 0 /\ disk[s].done = {} /\ ConfigDone(file[s])
                 => s = target /\ ~NoDelete
<1>1. UnitOK /\ OperatorOK /\ PlaceOK /\ StoresOK
  BY DEF Core
<1>2. /\ target \in Stateroot /\ target \notin {0, booted} /\ deployed \subseteq {booted, target}
      /\ Clean(booted) /\ Alive(booted)
  BY <1>1 DEF UnitOK, TypeInv, TypeOK, Alive
<1>3. ~IdleTrue(cr[booted])
  <2>1. CondOK(cr[booted]) /\ Carries(booted, target)
    BY <1>1, BootedStores DEF UnitOK
  <2> QED
    BY <2>1 DEF CondOK, Carries
<1>4. unit # "inputs" => ~up /\ pc = "idle" /\ ipc = NoCR /\ deleted = NoCR /\ ~running
  BY <1>1 DEF UnitOK, OperatorOK
<1>5. ~IdleTrue(ipc)
  BY <1>1, <1>4, NoCROK DEF UnitOK, OperatorOK, PlaceOK, CondOK
<1>6. \A s \in Stateroot : disk[s].plan # 0 /\ disk[s].done = {} /\ ConfigDone(file[s]) => s = target /\ ~NoDelete
  BY <1>1 DEF StoresOK, StoreOK
<1> QED
  BY <1>2, <1>3, <1>4, <1>5, <1>6

\* The manual cleanup keeps the invariant.
LEMMA handleManualCleanupCore ==
    ASSUME TypeInv, Core, handleManualCleanup PROVE Core'
<1>1. /\ HostSame /\ file' = file /\ up' = up /\ deleted' = deleted /\ faults' = faults
      /\ pc = "handle" /\ ipc.stage = "Idle" /\ ipc.cleaned
  BY DEF handleManualCleanup, HostSame, hostVars, unitVars, envVars
<1>2. Quiet /\ unit = "none" /\ up /\ running /\ HostOK /\ StoresOK /\ OperatorOK /\ (NoDelete' <=> NoDelete)
  BY <1>1, SameQuiet, UnitIdle DEF Core, NoDelete
<1>3. HostOK' /\ UnitOK'
  BY <1>1, <1>2, HostFrame DEF UnitOK, HostSame
<1>4. CASE pc' = "final" /\ ipc' = ipc /\ cr' = cr
  <2>1. StoresOK'
    BY <1>1, <1>2, <1>4, StoresQuiet
  <2>2. OperatorOK' /\ PlaceOK'
    BY <1>1, <1>2, <1>4, HostFrame DEF HostSame, OperatorOK, PlaceOK
  <2> QED
    BY <1>3, <2>1, <2>2 DEF Core
<1>5. CASE fresh
  <2> DEFINE c == SetIPCondition(ipc.conds, "Idle", "InProgress")
             y == [ipc EXCEPT !.cleaned = FALSE, !.conds = c]
  <2>1. ipc' = y /\ cr' = [cr EXCEPT ![booted] = y] /\ pc' = pc
    BY <1>5 DEF handleManualCleanup
  <2>2. ipc \in CRs /\ ipc.conds \in IPConditions /\ CondOK(ipc) /\ Exists(ipc)
    BY <1>1, InMemory
  <2>3. "InProgress" \in IPConditionReasons
    BY DEF IPConditionReasons
  <2>4. c \in IPConditions
    BY <2>2, <2>3, TypeNames, ConditionsTyped
  <2>5. \A u \in IPConditionTypes : c[u] = IF u = "Idle" THEN "InProgress" ELSE ipc.conds[u]
    BY <2>2, TypeNames, ConditionValues
  <2> HIDE DEF c
  <2>6. /\ y \in CRs /\ y.conds = c /\ y.stage = "Idle" /\ y.net = ipc.net /\ y.next = ipc.next /\ ~y.cleaned
    BY <1>1, <2>2, <2>4 DEF CRs
  <2> HIDE DEF y
  <2>7. "Config" \notin y.next
    BY <1>1, <2>2, <2>6 DEF CondOK
  <2>8. CondOK(y) /\ ~IdleTrue(y) /\ ~ConfigDone(y) /\ ~PrePivotable(y)
    BY <2>2, <2>5, <2>6, <2>7, TypeNames
    DEF CondOK, PrePivotable, IdleTrue, ConfigDone, ConfigRuns, RollbackRuns, ConfigOpen
  <2>9. GoodCR(y)
    BY <2>8 DEF GoodCR, Startable, Applied, IdleClean
  <2>10. StoresOK'
    BY <1>1, <1>2, <2>1, <2>6, <2>9, StoresStep, SameStores, BootedStores DEF GoodCR
  <2>11. OperatorOK'
    BY <1>1, <1>2, <2>1, <2>9, HostFrame DEF HostSame, OperatorOK, GoodCR
  <2>12. cr'[booted'] = y
    BY <1>1, <2>1, SameStores DEF TypeInv, TypeOK, HostSame
  <2>13. PlaceOK'
    BY <1>1, <2>1, <2>12 DEF PlaceOK
  <2> QED
    BY <1>3, <2>10, <2>11, <2>13 DEF Core
<1> QED
  BY <1>4, <1>5 DEF handleManualCleanup

\* Writing the CR to go back to keeps the invariant
\* (exportIPConfigForUncontrolledRollback): the CR it saves says that the Config
\* has failed.
LEMMA exportCore ==
    ASSUME TypeInv, Core, exportIPConfigForUncontrolledRollback PROVE Core'
<1> DEFINE z == Ended("Config", "Failed")
<1>1. /\ UNCHANGED <<booted, default, deployed, cr, running, unit, target, service, up, ipc, deleted, faults>>
      /\ disk' = [disk EXCEPT ![booted].auto = TRUE] /\ file' = [file EXCEPT ![booted] = z] /\ pc' = "exported"
      /\ InConfig /\ ~statusIPsMatchSpec(ipc)
  BY DEF exportIPConfigForUncontrolledRollback, unitVars, envVars, PrePivoting
<1>2. /\ ipc.stage = "Config" /\ ConfigRuns(ipc) /\ ~ipc.cleaned /\ pc \in {"handle", "config"}
  BY <1>1, InStageFacts
<1>3. unit = "none" /\ up /\ running /\ HostOK /\ StoresOK /\ OperatorOK /\ PlaceOK /\ (NoDelete' <=> NoDelete)
  BY <1>1, <1>2, UnitIdle DEF Core, NoDelete
<1>4. ~IdleTrue(ipc) /\ ipc \in CRs
  BY <1>2, InMemory DEF CondOK
<1>5. Follows(z) /\ z.conds["ConfigCompleted"] = "Failed" /\ GoodCR(z)
  BY <1>2, <1>3, <1>4, EndedOK, FollowsGood
<1> HIDE DEF z
<1>6. booted \in Stateroot /\ disk \in [Stateroot -> Disks] /\ disk[booted] \in Disks
  BY DEF TypeInv, TypeOK
<1>7. \A s \in Stateroot : /\ disk'[s].monitor = disk[s].monitor /\ (s # booted => disk'[s] = disk[s])
                           /\ disk'[s].plan = disk[s].plan /\ disk'[s].done = disk[s].done /\ disk'[s].net = disk[s].net
                           /\ disk'[s].cert = disk[s].cert /\ (disk'[s].kubelet <=> disk[s].kubelet)
  BY <1>1, <1>6 DEF Disks
<1>8. Quiet
  BY <1>1, <1>7 DEF Quiet
<1>9. StoresOK'
  BY <1>1, <1>3, <1>4, <1>5, <1>8, StoresStep, SameStores, BootedStores DEF Follows, GoodCR
<1>10. SwitchOK'
  BY <1>1, <1>3, <1>6, <1>7 DEF HostOK, SwitchOK, Switched, Alive
<1>11. HostOK' /\ UnitOK'
  BY <1>1, <1>3, <1>8, <1>10, QuietFrame DEF HostOK, UnitOK
<1>12. OperatorOK'
  BY <1>1, <1>2, <1>3, <1>6, <1>8, QuietFrame DEF OperatorOK
<1>13. ipc.net \notin {0, booted}
  BY <1>1, <1>3, RunningFacts DEF statusIPsMatchSpec
<1>14. file'[booted'] = z
  BY <1>1, <1>6 DEF TypeInv, TypeOK
<1>15. PlaceOK'
  BY <1>1, <1>2, <1>3, <1>5, <1>13, <1>14 DEF PlaceOK, ConfigFailed, Follows
<1> QED
  BY <1>9, <1>11, <1>12, <1>15 DEF Core

\* Disabling the init monitor keeps the invariant.
LEMMA DisableInitMonitorCore ==
    ASSUME TypeInv, Core, DisableInitMonitor PROVE Core'
<1>1. /\ UNCHANGED <<booted, default, deployed, cr, file, running, unit, target, service, up, ipc, deleted, faults>>
      /\ disk' = [disk EXCEPT ![booted].monitor = "off"] /\ pc' = "verify" /\ InConfig
  BY DEF DisableInitMonitor, unitVars, envVars, storeVars, PostPivoting
<1>2. /\ ipc.stage = "Config" /\ ConfigRuns(ipc) /\ ~ipc.cleaned /\ pc \in {"handle", "config"}
  BY <1>1, InStageFacts
<1>3. unit = "none" /\ up /\ running /\ HostOK /\ StoresOK /\ OperatorOK /\ PlaceOK /\ (NoDelete' <=> NoDelete)
  BY <1>1, <1>2, UnitIdle DEF Core, NoDelete
<1>6. booted \in Stateroot /\ disk \in [Stateroot -> Disks] /\ disk[booted] \in Disks
  BY DEF TypeInv, TypeOK
<1>7. \A s \in Stateroot : /\ disk'[s].monitor \in {disk[s].monitor, "off"} /\ (s # booted => disk'[s] = disk[s])
                           /\ disk'[s].plan = disk[s].plan /\ disk'[s].done = disk[s].done /\ disk'[s].net = disk[s].net
                           /\ disk'[s].cert = disk[s].cert /\ (disk'[s].kubelet <=> disk[s].kubelet)
  BY <1>1, <1>6 DEF Disks
<1>8. Quiet
  BY <1>1, <1>7 DEF Quiet
<1>9. StoresOK'
  BY <1>1, <1>3, <1>8, StoresQuiet
<1>10. SwitchOK'
  BY <1>1, <1>3, <1>6, <1>7 DEF HostOK, SwitchOK, Switched, Alive
<1>11. HostOK' /\ UnitOK'
  BY <1>1, <1>3, <1>8, <1>10, QuietFrame DEF HostOK, UnitOK
<1>12. OperatorOK'
  BY <1>1, <1>2, <1>3, <1>6, <1>8, QuietFrame DEF OperatorOK
<1>13. PlaceOK'
  BY <1>1, <1>2, <1>3 DEF PlaceOK
<1> QED
  BY <1>9, <1>11, <1>12, <1>13 DEF Core

\* Starting the pre-pivot unit keeps the invariant: the Config it serves started
\* on a clean host, with one stateroot.
LEMMA RunLcaCliIPConfigPrePivotCore ==
    ASSUME TypeInv, Core, RunLcaCliIPConfigPrePivot PROVE Core'
<1>1. /\ UNCHANGED <<booted, default, deployed, disk, cr, file, running, service, up, ipc, deleted, faults>>
      /\ pc = "exported" /\ pc' = "waiting" /\ unit = "none" /\ unit' = "inputs" /\ target' = ipc.net
  BY DEF RunLcaCliIPConfigPrePivot, hostVars, storeVars, envVars
<1>2. up /\ running /\ HostOK /\ StoresOK /\ OperatorOK /\ PlaceOK /\ (NoDelete' <=> NoDelete)
  BY <1>1, UnitIdle DEF Core, NoDelete
<1>3. /\ ipc.stage = "Config" /\ ConfigRuns(ipc) /\ ipc.net \notin {0, booted}
      /\ NoDelete => Exists(file[booted]) /\ ConfigFailed(file[booted])
      /\ Exists(cr[booted]) => /\ cr[booted].conds = ipc.conds
                               /\ cr[booted].net = ipc.net \/ IdleTrue(ipc) \/ ipc.conds = NoIPConditions
  BY <1>1, <1>2 DEF PlaceOK
<1>4. CondOK(ipc) /\ ~IdleTrue(ipc) /\ ConfigOpen(ipc) /\ ipc.conds # NoIPConditions
  BY <1>2, <1>3, TypeNames DEF OperatorOK, CondOK, ConfigRuns, NoIPConditions
<1>5. PrePivotable(ipc) /\ Startable(booted, ipc) /\ Alive(booted)
  BY <1>2, <1>3, <1>4 DEF OperatorOK, PrePivotable, Alive
<1>6. deployed = {booted} /\ Clean(booted)
  BY <1>3, <1>5 DEF Startable
<1>7. Exists(cr[booted]) => ConfigRuns(cr[booted]) /\ cr[booted].net = ipc.net
  BY <1>3, <1>4 DEF ConfigRuns
<1>8. ~IdleTrue(cr[booted])
  BY <1>7, BootedStores DEF CondOK
<1>9. Steady
  BY <1>1, <1>2 DEF Steady, Alive
<1>10. StoresOK'
  <2>1. \A s \in Stateroot : Needed(s)' => Needed(s)
    BY <1>1, <1>2 DEF Needed
  <2>2. \A s \in Stateroot : ~(disk[s].plan # 0 /\ disk[s].done = {} /\ ConfigDone(file[s]))
    BY <1>1, <1>2 DEF StoresOK, StoreOK
  <2> QED
    BY <1>1, <1>2, <1>8, <1>9, <2>1, <2>2, StoresSteady
<1>11. SwitchOK'
  BY <1>1, <1>2, <1>6 DEF HostOK, SwitchOK, Switched
<1>12. HostOK'
  BY <1>2, <1>9, <1>11, SteadyFrame DEF HostOK
<1>13. UnitOK'
  BY <1>1, <1>2, <1>3, <1>6, <1>7 DEF UnitOK, Carries, Copied, Late, Planned, Clean
<1>14. OperatorOK'
  BY <1>1, <1>2, <1>4, <1>9, SteadyFrame DEF OperatorOK, IdleClean, TypeInv, TypeOK
<1>15. PlaceOK'
  BY <1>1, <1>2 DEF PlaceOK
<1> QED
  BY <1>10, <1>12, <1>13, <1>14, <1>15 DEF Core

\* Saving the CR in the stateroot to go back to keeps the invariant.
LEMMA SaveIPConfigForRollbackCore ==
    ASSUME TypeInv, Core, SaveIPConfigForRollback PROVE Core'
<1> DEFINE u == UnbootedStateroot
<1>1. /\ HostSame /\ cr' = cr /\ up' = up /\ ipc' = ipc /\ deleted' = deleted /\ faults' = faults
      /\ pc' = "rollbackSaved" /\ file' = [file EXCEPT ![u] = ipc] /\ InRollback /\ isUnbootedStaterootAvailable
  BY DEF SaveIPConfigForRollback, HostSame, hostVars, unitVars, envVars
<1>2. /\ ipc.stage = "Rollback" /\ RollbackRuns(ipc) /\ ~ipc.cleaned /\ pc \in {"handle", "rollback"}
  BY <1>1, InStageFacts
<1>3. /\ Quiet /\ unit = "none" /\ up /\ running /\ HostOK /\ StoresOK /\ OperatorOK /\ PlaceOK
      /\ (NoDelete' <=> NoDelete)
  BY <1>1, <1>2, SameQuiet, UnitIdle DEF Core, NoDelete
<1>4. u \in deployed /\ u # booted /\ u \in Stateroot
  BY <1>1, UnbootedTyped DEF TypeInv
<1>5. u' = u /\ isUnbootedStaterootAvailable'
  BY <1>1 DEF UnbootedStateroot, isUnbootedStaterootAvailable, HostSame
<1> HIDE DEF u
<1>6. /\ ipc \in CRs /\ Exists(ipc) /\ CondOK(ipc) /\ ~IdleTrue(ipc) /\ ~PrePivotable(ipc) /\ ~ConfigDone(ipc)
  BY <1>2, InMemory DEF CondOK, PrePivotable, ConfigDone
<1>7. file'[u] = ipc /\ \A s \in Stateroot : s # u => file'[s] = file[s]
  BY <1>1, <1>4 DEF TypeInv, TypeOK
<1>8. \A s \in Stateroot : StoreOK(s)'
  <2>0. \A s : Needed(s)' <=> Needed(s)
    BY <1>1, <1>3 DEF Needed, HostSame
  <2>1. ASSUME NEW s \in Stateroot, s = u PROVE StoreOK(s)'
    <3>1. StoreOK(s) /\ Saved(s)' = ipc
      BY <1>3, <1>6, <1>7, <2>1 DEF StoresOK, Saved
    <3>2. Startable(s, ipc)' /\ Applied(s, ipc)' /\ Applied(s, cr[s])'
      BY <1>1, <1>3, <1>6, <3>1, QuietFrame DEF StoreOK, Startable, Applied
    <3> QED
      BY <1>1, <1>3, <1>4, <1>6, <1>7, <2>1, <3>1, <3>2 DEF StoreOK, HostSame
  <2>2. ASSUME NEW s \in Stateroot, s # u PROVE StoreOK(s)'
    <3>1. StoreOK(s) /\ Saved(s)' = Saved(s) /\ file'[s] = file[s]
      BY <1>1, <1>3, <1>7, <2>2 DEF StoresOK, Saved
    <3>2. (Needed(s) => Startable(s, Saved(s)))'
      BY <1>3, <2>0, <3>1, QuietFrame DEF StoreOK
    <3>3. Applied(s, cr[s])' /\ Applied(s, file[s])'
      BY <1>1, <1>3, <3>1, QuietFrame DEF StoreOK
    <3> QED
      BY <1>1, <1>3, <3>1, <3>2, <3>3 DEF StoreOK, HostSame
  <2> QED
    BY <2>1, <2>2
<1>9. CurrentOK'
  BY <1>1, <1>3, HostFrame DEF CurrentOK, StoresOK, HostSame
<1>10. HostOK' /\ UnitOK' /\ OperatorOK'
  BY <1>1, <1>2, <1>3, HostFrame DEF UnitOK, HostSame, OperatorOK
<1>11. PlaceOK'
  BY <1>1, <1>2, <1>3, <1>5, <1>7 DEF PlaceOK, HostSame, u
<1> QED
  BY <1>8, <1>9, <1>10, <1>11 DEF Core, StoresOK

-----------------------------------------------------------------------------
(* Boots. *)

\* A boot into a deployed stateroot keeps the invariant: what InitIPConfig finds
\* there is true of that stateroot.
LEMMA BootCore ==
    ASSUME TypeInv, Core, NEW s \in deployed, NEW m \in {"off", "armed"}, NEW d,
           d = [disk EXCEPT ![booted].monitor = m], BootInto(s, d),
           SetDefaultFeature \/ default' = default, NoDelete' <=> NoDelete, cr' = cr,
           \A t \in Stateroot : \/ file'[t] = file[t]
                                \/ /\ t \in deployed /\ CondOK(file'[t]) /\ ~IdleTrue(file'[t]) /\ Exists(file'[t])
                                   /\ ~ConfigDone(file'[t]) /\ ~PrePivotable(file'[t]),
           \A t \in Stateroot : disk[t].plan # 0 /\ disk[t].done = {} => ~ConfigDone(file'[t]),
           NoDelete \/ Startable(s, Saved(s))'
    PROVE  Core'
<1>0. /\ s \in Stateroot /\ booted \in Stateroot /\ deployed \subseteq Stateroot /\ booted \in deployed
      /\ default \in deployed
      /\ disk \in [Stateroot -> Disks] /\ disk[booted] \in Disks
  BY DEF TypeInv, TypeOK, BootableHost
<1>1. /\ booted' = s /\ disk' = d /\ running' = d[s].kubelet /\ unit' = "none" /\ service' = "run"
      /\ deployed' = deployed /\ ~up' /\ pc' = "idle" /\ ipc' = NoCR /\ deleted' = NoCR
  BY DEF BootInto, OperatorGone
<1>2. \A t \in Stateroot : /\ t # booted => disk'[t] = disk[t]
                           /\ disk'[t].plan = disk[t].plan /\ disk'[t].done = disk[t].done /\ disk'[t].net = disk[t].net
                           /\ disk'[t].cert = disk[t].cert /\ (disk'[t].kubelet <=> disk[t].kubelet)
  BY <1>0, <1>1 DEF Disks
<1>3. disk'[booted].monitor = m
  BY <1>0, <1>1
<1>4. \A t \in Stateroot : (Alive(t)' <=> disk[t].kubelet) /\ (Alive(t)' => Alive(t)) /\ (Clean(t)' <=> Clean(t))
  BY <1>0, <1>1, <1>2 DEF Alive, Clean
<1>5. HostOK /\ UnitOK /\ StoresOK
  BY DEF Core
<1>6. ASSUME NEW t \in Stateroot PROVE DiskOK(t)'
  <2>1. DiskOK(t)
    BY <1>5 DEF HostOK
  <2> QED
    BY <1>0, <1>1, <1>2, <1>4, <2>1 DEF DiskOK
<1>7. PairOK'
  <2>1. PairOK /\ DiskOK(s)
    BY <1>0, <1>5 DEF HostOK
  <2>2. \A a, b \in deployed : a # s /\ b # s => a = b
    BY <2>1 DEF PairOK
  <2>3. \A a \in deployed : a # s /\ disk[a].plan # 0 => Clean(s)
    BY <1>0, <2>1 DEF PairOK, Clean, DiskOK
  <2> QED
    BY <1>0, <1>1, <1>2, <1>4, <2>2, <2>3 DEF PairOK
<1>8. SwitchOK'
  <2>1. SwitchOK /\ PairOK
    BY <1>5 DEF HostOK
  <2>2. \A t \in Stateroot : disk'[t].monitor \in {"off", "armed"}
    BY <1>0, <1>2, <1>3, <2>1 DEF SwitchOK
  <2>3. ~SetDefaultFeature /\ deployed # {s} => ~Alive(default)'
    <3> SUFFICES ASSUME ~SetDefaultFeature, deployed # {s} PROVE ~Alive(default)'
      OBVIOUS
    <3>1. default' = default /\ default \in Stateroot
      BY <1>0
    <3>2. CASE deployed # {booted}
      <4>1. ~Alive(default)
        BY <2>1, <3>2 DEF SwitchOK
      <4> QED
        BY <1>4, <3>1, <4>1 DEF Alive
    <3> QED
      BY <1>0, <3>2
  <2> QED
    BY <1>0, <1>1, <2>2, <2>3 DEF SwitchOK, Switched
<1>9. \A t \in Stateroot : \A x : (Startable(t, x) => Startable(t, x)') /\ (Applied(t, x)' <=> Applied(t, x))
  BY <1>1, <1>2, <1>4 DEF Startable, Applied
<1>10. ASSUME NEW t \in Stateroot PROVE StoreOK(t)'
  <2>1. StoreOK(t) /\ CurrentOK
    BY <1>5 DEF StoresOK
  <2>2. /\ CondOK(file'[t]) /\ ~IdleTrue(file'[t]) /\ Applied(t, file'[t])
        /\ t \notin deployed => file'[t] = NoCR
    BY <2>1 DEF StoreOK, Applied
  <2>3. t # s => ~IdleTrue(cr[t])
    BY <1>0, <2>1 DEF StoreOK, CurrentOK, IdleClean
  <2>4. (Needed(t) => Startable(t, Saved(t)))'
    <3>1. CASE NoDelete
      <4>1. Startable(t, Saved(t))
        BY <2>1, <3>1 DEF StoreOK, Needed
      <4>2. CASE file'[t] = file[t]
        BY <1>9, <4>1, <4>2 DEF Saved
      <4>3. CASE Exists(file'[t]) /\ ~PrePivotable(file'[t])
        BY <4>3 DEF Saved, Startable
      <4> QED
        BY <4>2, <4>3
    <3>2. CASE ~NoDelete
      BY <1>1, <3>2 DEF Needed
    <3> QED
      BY <3>1, <3>2
  <2>5. Applied(t, cr[t])' /\ Applied(t, file[t])'
    BY <1>9, <2>1, <2>2 DEF StoreOK, Applied
  <2>6. (disk[t].plan # 0 /\ disk[t].done = {} => ~ConfigDone(cr[t]) /\ ~ConfigDone(file[t]))'
    BY <1>2, <2>1 DEF StoreOK
  <2> QED
    BY <1>1, <2>1, <2>2, <2>3, <2>4, <2>5, <2>6 DEF StoreOK
<1>11. CurrentOK'
  <2>1. IdleTrue(cr[s]) => s = booted /\ deployed = {s} /\ Clean(s)
    BY <1>0, <1>5 DEF StoresOK, StoreOK, CurrentOK, IdleClean
  <2> QED
    BY <1>0, <1>1, <1>4, <2>1 DEF CurrentOK, IdleClean
<1>12. UnitOK' /\ PlaceOK'
  BY <1>1 DEF UnitOK, PlaceOK
<1>13. OperatorOK'
  BY <1>1, NoCROK DEF OperatorOK, Startable, Applied, IdleClean
<1> QED
  BY <1>6, <1>7, <1>8, <1>10, <1>11, <1>12, <1>13 DEF Core, HostOK, StoresOK

\* The reboot of the pre-pivot unit keeps the invariant: it lands in the new
\* stateroot, whose Config is in progress.
LEMMA UnitRebootCore ==
    ASSUME TypeInv, Core, UnitReboot PROVE Core'
<1> DEFINE d == [disk EXCEPT ![booted].monitor = "off"]
<1>1. /\ unit = "ready" /\ BootInto(default, d) /\ default' = default /\ cr' = cr /\ file' = file /\ faults' = faults
  BY DEF UnitReboot, RebootInto, storeVars
<1>2. /\ SetDefaultFeature /\ default = target /\ disk[target].plan # 0 /\ file[target] = NoCR
      /\ Carries(target, target)
  BY <1>1 DEF Core, UnitOK, Copied, Late, Planned
<1>3. default \in deployed /\ target \in Stateroot
  BY <1>2 DEF TypeInv, TypeOK, BootableHost
<1>4. \A t \in Stateroot : disk[t].plan # 0 /\ disk[t].done = {} => ~ConfigDone(file'[t])
  BY <1>1, <1>2, UnitBusy, NoCROK
<1>5. ASSUME NEW s \in Stateroot, s = target PROVE Startable(s, Saved(s))'
  <2>1. disk'[s].plan # 0
    <3>1. disk' = d /\ s # booted
      BY <1>1, <1>5, UnitBusy DEF BootInto
    <3> QED
      BY <1>2, <1>5, <3>1 DEF TypeInv, TypeOK
  <2>2. Saved(s)' = cr[s]
    BY <1>1, <1>2, <1>5, NoCROK DEF Saved
  <2>3. PrePivotable(cr[s]) => cr[s].net = s
    BY <1>2, <1>5 DEF Carries, PrePivotable, Exists
  <2> QED
    BY <2>1, <2>2, <2>3 DEF Startable
<1>6. PICK s \in Stateroot : s = target
  BY <1>3
<1>7. s \in deployed /\ BootInto(s, d) /\ Startable(s, Saved(s))'
  BY <1>1, <1>2, <1>3, <1>5, <1>6
<1> HIDE DEF d
<1> QED
  BY <1>1, <1>2, <1>4, <1>7, BootCore DEF NoDelete, d

\* The reboot of a rollback keeps the invariant: it lands in the stateroot the
\* CR was saved in.
LEMMA scheduleIPConfigRollbackCore ==
    ASSUME TypeInv, Core, scheduleIPConfigRollback PROVE Core'
<1> DEFINE d == [disk EXCEPT ![booted].monitor = "off"]
<1>1. /\ pc = "rollbackSaved" /\ isUnbootedStaterootAvailable
      /\ default' = (IF SetDefaultFeature THEN UnbootedStateroot ELSE default)
      /\ BootInto(default', d) /\ cr' = cr /\ file' = file /\ faults' = faults
  BY DEF scheduleIPConfigRollback, RebootInto, storeVars
<1>2. unit = "none" /\ running /\ StoresOK /\ HostOK /\ PlaceOK /\ booted \in Stateroot
  BY <1>1, UnitIdle DEF Core, TypeInv, TypeOK
<1>3. UnbootedStateroot \in deployed /\ default \in deployed /\ deployed \subseteq Stateroot
  BY <1>1, UnbootedTyped DEF TypeInv, TypeOK, BootableHost
<1>4. PICK s \in deployed : s = default'
  BY <1>1, <1>3
<1>5. s = UnbootedStateroot
  <2>1. CASE SetDefaultFeature
    BY <1>1, <1>4, <2>1
  <2>2. CASE ~SetDefaultFeature
    <3>1. Alive(booted) /\ ~Alive(default)
      BY <1>1, <1>2, <2>2 DEF HostOK, SwitchOK, isUnbootedStaterootAvailable, Alive
    <3>2. default # booted
      BY <3>1
    <3> QED
      BY <1>1, <1>4, <2>2, <3>2 DEF UnbootedStateroot
  <2> QED
    BY <2>1, <2>2
<1>6. file[s].stage = "Rollback"
  BY <1>1, <1>2, <1>5 DEF PlaceOK
<1>7. Startable(s, Saved(s))'
  BY <1>1, <1>6 DEF Startable, Saved, PrePivotable, Exists
<1>8. \A t \in Stateroot : disk[t].plan # 0 /\ disk[t].done = {} => ~ConfigDone(file'[t])
  BY <1>1, <1>2 DEF StoresOK, StoreOK
<1>9. SetDefaultFeature \/ default' = default
  BY <1>1
<1> HIDE DEF d
<1> QED
  BY <1>1, <1>4, <1>7, <1>8, <1>9, BootCore DEF NoDelete, d

\* A crash of the node keeps the invariant, at whatever step and into whichever
\* stateroot it comes up.
LEMMA NodeCrashCore ==
    ASSUME TypeInv, Core, NodeCrash PROVE Core'
<1> DEFINE m == IF disk[booted].auto THEN Restarted(disk[booted].monitor) ELSE "off"
           d == [disk EXCEPT ![booted].monitor = m]
<1>1. Fault /\ default' = default /\ cr' = cr /\ file' = file
  BY DEF NodeCrash, storeVars
<1>2. PICK s \in deployed : BootInto(s, d)
  BY DEF NodeCrash
<1>3. m \in {"off", "armed"}
  BY DEF Restarted
<1>4. NoDelete /\ NoDelete'
  BY <1>1, FaultFacts
<1>5. \A t \in Stateroot : disk[t].plan # 0 /\ disk[t].done = {} => ~ConfigDone(file'[t])
  BY <1>1, <1>4 DEF Core, StoresOK, StoreOK
<1> HIDE DEF m
<1>6. d = [disk EXCEPT ![booted].monitor = m]
  OBVIOUS
<1> HIDE DEF d
<1> QED
  BY <1>1, <1>2, <1>3, <1>4, <1>5, <1>6, BootCore

\* The automatic rollback keeps the invariant: the CR that it marks failed is
\* not taken up again.
LEMMA RollbackRebootCore ==
    ASSUME TypeInv, Core, NEW who \in {"service", "monitor"}, RollbackReboot(who) PROVE Core'
<1> DEFINE d == [disk EXCEPT ![booted].monitor = "off"]
           old == UnbootedStateroot
           c == SetIPStatusEnded(file[old].conds, "Config", "Failed")
           y == [file[old] EXCEPT !.conds = c]
<1>1. /\ Initiator(who) = "switched" /\ isUnbootedStaterootAvailable /\ Exists(file[old])
      /\ file' = [file EXCEPT ![old] = y]
      /\ BootInto(default, d) /\ default' = default /\ cr' = cr /\ faults' = faults
  BY DEF RollbackReboot, RebootInto
<1>2. Switched /\ SetDefaultFeature
  BY <1>1 DEF Initiator, Switched, Core, HostOK, SwitchOK
<1>3. old \in deployed /\ old # booted /\ old \in Stateroot
  BY <1>1, UnbootedTyped DEF TypeInv
<1>4. default \in deployed /\ deployed \subseteq Stateroot /\ booted \in Stateroot /\ (default # booted => old = default)
  BY DEF TypeInv, TypeOK, BootableHost, UnbootedStateroot
<1> HIDE DEF old
<1>5. file[old] \in CRs /\ file[old].conds \in IPConditions /\ CondOK(file[old]) /\ ~IdleTrue(file[old])
  BY <1>3 DEF TypeInv, TypeOK, CRs, Core, StoresOK, StoreOK
<1>6. c \in IPConditions
  BY <1>5, ConditionsTyped DEF IPStages
<1>7. \A u \in IPConditionTypes :
          c[u] = IF u \in {"ConfigInProgress", "ConfigCompleted"} THEN "Failed" ELSE file[old].conds[u]
  BY <1>5, ConditionValues
<1> HIDE DEF c
<1>8. /\ y \in CRs /\ y.conds = c /\ y.stage = file[old].stage /\ y.next = file[old].next
      /\ y.cleaned = file[old].cleaned /\ Exists(y)
  BY <1>1, <1>5, <1>6, ExceptConds
<1> HIDE DEF y
<1>9. CondOK(y) /\ ~IdleTrue(y) /\ ~ConfigDone(y) /\ ~PrePivotable(y)
  BY <1>5, <1>7, <1>8, TypeNames
  DEF CondOK, PrePivotable, IdleTrue, ConfigDone, ConfigRuns, RollbackRuns, ConfigOpen
<1>10. file'[old] = y /\ \A t \in Stateroot : t # old => file'[t] = file[t]
  BY <1>1, <1>3 DEF TypeInv, TypeOK
<1>11. ASSUME NEW t \in Stateroot, disk[t].plan # 0, disk[t].done = {} PROVE ~ConfigDone(file'[t])
  <2>1. CASE t = old
    BY <1>9, <1>10, <2>1
  <2>2. CASE t # old
    <3>1. ConfigDone(file[t]) => unit # "none" /\ t = target
      BY <1>11 DEF Core, StoresOK, StoreOK
    <3>2. t \in deployed
      BY <1>11 DEF Core, HostOK, DiskOK, EmptyDisk
    <3>3. ConfigDone(file[t]) => t # booted
      BY <1>11, <3>1, UnitBusy DEF Clean
    <3>4. ConfigDone(file[t]) => t = old
      BY <1>3, <3>2, <3>3 DEF Core, HostOK, PairOK
    <3> QED
      BY <1>10, <2>2, <3>4
  <2> QED
    BY <2>1, <2>2
<1>12. PICK s \in deployed : s = default
  BY <1>4
<1>13. NoDelete \/ Startable(s, Saved(s))'
  <2>1. CASE s # booted
    BY <1>4, <1>8, <1>9, <1>10, <1>12, <2>1 DEF Saved, Startable
  <2>2. CASE s = booted
    <3>1. Saved(s)' = Saved(s) /\ StoreOK(s)
      BY <1>1, <1>3, <1>4, <1>10, <2>2 DEF Saved, Core, StoresOK
    <3>2. ~running /\ disk[booted].plan = 0
      BY <1>1, <1>2, <1>12, <2>2 DEF Core, HostOK, SwitchOK, isUnbootedStaterootAvailable
    <3>3. disk'[s].plan = disk[s].plan /\ disk'[s].done = disk[s].done /\ (disk'[s].kubelet <=> disk[s].kubelet)
      BY <1>1, <1>4, <2>2 DEF BootInto, TypeInv, TypeOK, Disks
    <3>4. booted' = s /\ deployed' = deployed /\ unit' = "none" /\ (running' <=> disk'[s].kubelet)
      BY <1>1, <1>12 DEF BootInto
    <3>5. Alive(s)' <=> disk[s].kubelet
      BY <3>3, <3>4 DEF Alive
    <3>6. CASE unit \in {"none", "inputs"}
      <4>1. Startable(s, Saved(s))
        BY <1>2, <2>2, <3>1, <3>6 DEF StoreOK, Needed
      <4> QED
        BY <3>1, <3>3, <3>4, <3>5, <4>1 DEF Startable, Clean, Alive
    <3>7. CASE unit \notin {"none", "inputs"}
      <4>1. default # target /\ UnitOK
        BY <1>12, <2>2, <3>7, UnitBusy DEF Core
      <4>2. unit \in {"stopped", "deployed", "copied"}
        BY <3>7, <4>1 DEF UnitOK, Late, TypeInv, TypeOK, Units, UnitSteps
      <4>3. ~disk[booted].kubelet
        BY <4>1, <4>2 DEF UnitOK
      <4> QED
        BY <2>2, <3>2, <3>3, <3>5, <4>3 DEF Startable
    <3> QED
      BY <3>6, <3>7
  <2> QED
    BY <2>1, <2>2
<1>14. \A t \in Stateroot : \/ file'[t] = file[t]
                            \/ /\ t \in deployed /\ CondOK(file'[t]) /\ ~IdleTrue(file'[t]) /\ Exists(file'[t])
                               /\ ~ConfigDone(file'[t]) /\ ~PrePivotable(file'[t])
  BY <1>3, <1>8, <1>9, <1>10
<1> HIDE DEF d
<1> QED
  BY <1>1, <1>2, <1>11, <1>12, <1>13, <1>14, BootCore DEF NoDelete, d

-----------------------------------------------------------------------------
(* The cleanup of the Idle stage. *)

\* Undeploying any of the other stateroots keeps the invariant, if Idle is
\* reported only when all of them and the workspace are gone.
LEMMA CleanupStepCore ==
    ASSUME TypeInv, Core, CleaningUp, NEW gone \in SUBSET (Stateroot \ {booted}), NEW keep \in BOOLEAN,
           NEW x \in CRs, NEW requeue, cleanup(gone, keep), CleanupUpdate(gone, x, requeue),
           UNCHANGED <<unitVars, envVars>>, CondOK(x), x.stage = "Idle", IdleTrue(x) => ~keep,
           ~keep => gone = Stateroot \ {booted}
    PROVE  Core'
<1>0. /\ booted \in Stateroot /\ deployed \subseteq Stateroot /\ booted \in deployed /\ default \in deployed
      /\ disk \in [Stateroot -> Disks] /\ cr \in [Stateroot -> CRs] /\ file \in [Stateroot -> CRs]
  BY DEF TypeInv, TypeOK, BootableHost
<1>1. /\ UNCHANGED <<booted, running, unit, target, service, deleted, up>>
      /\ deployed' = deployed \ gone /\ default' = (IF default \in gone THEN booted ELSE default)
      /\ ipc' = x /\ pc' = "final"
  BY DEF cleanup, CleanupUpdate, unitVars, envVars
<1>2. /\ unit = "none" /\ up /\ running /\ HostOK /\ StoresOK /\ OperatorOK
  BY InStageFacts, UnitIdle DEF Core
<1>3. NoDelete' <=> NoDelete
  BY FaultFacts DEF CleanupUpdate, NoDelete
<1>4. \A s \in Stateroot : /\ s \in gone => disk'[s] = EmptyDisk
                           /\ s \notin gone /\ s # booted => disk'[s] = disk[s]
  BY <1>0 DEF cleanup, Without
<1>5. /\ disk'[booted].net = disk[booted].net /\ disk'[booted].cert = disk[booted].cert
      /\ disk'[booted].monitor = disk[booted].monitor /\ (disk'[booted].kubelet <=> disk[booted].kubelet)
      /\ keep => disk'[booted].plan = disk[booted].plan /\ disk'[booted].done = disk[booted].done
      /\ ~keep => disk'[booted].plan = 0 /\ disk'[booted].done = {}
  <2> DEFINE w == Without(disk, gone, EmptyDisk)
  <2>1. w \in [Stateroot -> {disk[s] : s \in Stateroot} \cup {EmptyDisk}] /\ w[booted] = disk[booted]
    BY <1>0 DEF Without
  <2>2. disk' = [w EXCEPT ![booted].auto = IF keep THEN @ ELSE FALSE,
                          ![booted].plan = IF keep THEN @ ELSE 0,
                          ![booted].done = IF keep THEN @ ELSE {}]
    BY DEF cleanup
  <2> HIDE DEF w
  <2>3. disk'[booted] = [disk[booted] EXCEPT !.auto = IF keep THEN @ ELSE FALSE,
                                             !.plan = IF keep THEN @ ELSE 0,
                                             !.done = IF keep THEN @ ELSE {}]
    BY <1>0, <2>1, <2>2
  <2>4. disk[booted] \in Disks
    BY <1>0
  <2> QED
    BY <2>3, <2>4 DEF Disks
<1>6. /\ EmptyDisk.plan = 0 /\ EmptyDisk.done = {} /\ EmptyDisk.net = EmptyDisk.cert /\ ~EmptyDisk.kubelet
      /\ EmptyDisk.monitor = "off"
  BY DEF EmptyDisk
<1>7. Alive(booted) /\ Alive(booted)' /\ \A s \in Stateroot : Alive(s)' => Alive(s)
  BY <1>0, <1>1, <1>2, <1>4, <1>5, <1>6 DEF Alive
<1>8. /\ disk[booted].cert = disk[booted].net /\ (disk[booted].plan # 0 => disk[booted].done = RunOnceSteps)
  BY <1>2, RunningFacts
<1>9. ASSUME NEW s \in Stateroot PROVE DiskOK(s)'
  <2>1. DiskOK(s)
    BY <1>2 DEF HostOK
  <2>2. CASE s \in gone
    <3>1. disk'[s] = EmptyDisk /\ s # booted
      BY <1>4, <2>2
    <3>2. ~Alive(s)'
      BY <1>1, <1>6, <3>1 DEF Alive
    <3> QED
      BY <1>6, <3>1, <3>2 DEF DiskOK
  <2>3. CASE s = booted
    <3>1. s \in deployed'
      BY <1>0, <1>1, <2>3
    <3>2. CASE keep
      BY <1>5, <1>7, <2>1, <2>3, <3>1, <3>2 DEF DiskOK
    <3>3. CASE ~keep
      BY <1>5, <1>7, <1>8, <2>1, <2>3, <3>1, <3>3 DEF DiskOK
    <3> QED
      BY <3>2, <3>3
  <2>4. CASE s \notin gone /\ s # booted
    BY <1>1, <1>4, <1>7, <2>1, <2>4 DEF DiskOK
  <2> QED
    BY <2>2, <2>3, <2>4
<1>10. Clean(booted) => Clean(booted)'
  BY <1>1, <1>5 DEF Clean
<1>11. PairOK'
  BY <1>0, <1>1, <1>2, <1>4, <1>10 DEF HostOK, PairOK
<1>12. SwitchOK'
  <2>1. SwitchOK /\ PairOK
    BY <1>2 DEF HostOK
  <2>2. deployed' # {booted} => deployed # {booted} /\ default' = default
    BY <1>0, <1>1, <2>1 DEF PairOK
  <2>3. \A s \in Stateroot : s # booted => disk'[s].monitor \in {"off", "armed"}
    BY <1>4, <1>6, <2>1 DEF SwitchOK
  <2>4. ~SetDefaultFeature /\ deployed' # {booted} => ~Alive(default)'
    <3>1. default \in Stateroot
      BY <1>0
    <3>2. ASSUME NEW s \in Stateroot, s = default, ~Alive(s) PROVE ~Alive(s)'
      BY <1>7, <3>2
    <3> QED
      BY <2>1, <2>2, <3>1, <3>2 DEF SwitchOK, Alive
  <2>5. Switched' <=> Switched
    BY <1>1, <1>5 DEF Switched
  <2>6. Switched /\ deployed' # {booted} => default' # booted
    BY <1>2, <2>1, <2>2 DEF SwitchOK
  <2> QED
    BY <1>1, <2>1, <2>3, <2>4, <2>5, <2>6 DEF SwitchOK
<1>13. \A s \in Stateroot : \A y : s = booted /\ Startable(s, y) => Startable(s, y)'
  <2>1. ~keep => deployed' = {booted}
    BY <1>0, <1>1
  <2>2. deployed = {booted} => deployed' = {booted}
    BY <1>0, <1>1
  <2> QED
    BY <1>1, <1>5, <1>7, <2>1, <2>2 DEF Startable, Clean
<1>14. \A s \in Stateroot : \A y : s = booted => (Applied(s, y)' <=> Applied(s, y))
  BY <1>1, <1>5 DEF Applied
<1>15. \A s \in Stateroot : file'[s] = IF s \in gone THEN NoCR ELSE file[s]
  BY DEF cleanup, Without
<1>16. /\ \A s \in Stateroot : s # booted => cr'[s] = IF s \in gone THEN NoCR ELSE cr[s]
       /\ cr'[booted] \in {x, cr[booted]}
  BY <1>0 DEF CleanupUpdate, Without
<1>17. \A s : Needed(s)' <=> Needed(s)
  BY <1>1, <1>3 DEF Needed
<1>18. ~PrePivotable(x) /\ ~ConfigDone(x)
  BY DEF PrePivotable, ConfigDone
<1>19. ASSUME NEW s \in Stateroot, s = booted PROVE StoreOK(s)'
  <2>1. StoreOK(s) /\ file'[s] = file[s] /\ s \in deployed' /\ Startable(s, cr[s])
    BY <1>0, <1>1, <1>2, <1>15, <1>19, BootedStores DEF StoresOK
  <2>2. CondOK(cr'[s]) /\ Applied(s, cr'[s])
    BY <1>16, <1>18, <1>19, <2>1 DEF StoreOK, Applied
  <2>3. (Needed(s) => Startable(s, Saved(s)))'
    <3>1. CASE Exists(file[s])
      BY <1>13, <1>17, <1>19, <2>1, <3>1 DEF StoreOK, Saved
    <3>2. CASE ~Exists(file[s]) /\ cr'[s] = cr[s]
      BY <1>13, <1>19, <2>1, <3>2 DEF Saved
    <3>3. CASE ~Exists(file[s]) /\ cr'[s] = x
      BY <1>18, <2>1, <3>3 DEF Saved, Startable
    <3> QED
      BY <1>16, <1>19, <3>1, <3>2, <3>3
  <2>4. Applied(s, cr[s])' /\ Applied(s, file[s])'
    <3>1. Applied(s, file[s])
      BY <2>1 DEF StoreOK
    <3> QED
      BY <1>14, <1>19, <2>1, <2>2, <3>1
  <2>5. ~(disk[s].plan # 0 /\ disk[s].done = {})'
    BY <1>5, <1>8, <1>19 DEF RunOnceSteps
  <2> QED
    BY <1>1, <1>19, <2>1, <2>2, <2>3, <2>4, <2>5 DEF StoreOK
<1>20. ASSUME NEW s \in Stateroot, s # booted, s \in gone PROVE StoreOK(s)'
  <2>1. cr'[s] = NoCR /\ file'[s] = NoCR /\ disk'[s] = EmptyDisk
    BY <1>4, <1>15, <1>16, <1>20
  <2> QED
    BY <1>1, <1>6, <1>20, <2>1, NoCROK DEF StoreOK, Saved, Startable, Applied
<1>21. ASSUME NEW s \in Stateroot, s # booted, s \notin gone PROVE StoreOK(s)'
  <2>1. StoreOK(s) /\ cr'[s] = cr[s] /\ file'[s] = file[s] /\ disk'[s] = disk[s] /\ Saved(s)' = Saved(s)
    BY <1>2, <1>4, <1>15, <1>16, <1>21 DEF StoresOK, Saved
  <2>2. \A y : Startable(s, y) => Startable(s, y)'
    BY <1>0, <1>1, <1>7, <1>21, <2>1 DEF Startable
  <2>3. (Needed(s) => Startable(s, Saved(s)))'
    BY <1>17, <2>1, <2>2 DEF StoreOK
  <2>4. Applied(s, cr[s])' /\ Applied(s, file[s])'
    BY <2>1 DEF StoreOK, Applied
  <2> QED
    BY <1>1, <1>2, <1>3, <1>21, <2>1, <2>3, <2>4 DEF StoreOK
<1>22. IdleClean(x)'
  BY <1>0, <1>1, <1>2, <1>5 DEF IdleClean, Clean
<1>23. CurrentOK'
  <2>1. IdleClean(cr[booted]) /\ Startable(booted, cr[booted])
    BY <1>2, BootedStores
  <2>2. IdleTrue(cr[booted]) => deployed' = {booted} /\ Clean(booted)'
    BY <1>0, <1>1, <1>10, <2>1 DEF IdleClean
  <2>3. IdleClean(cr[booted])'
    BY <1>1, <1>2, <1>16, <1>22, <2>2 DEF IdleClean
  <2>4. Startable(booted, cr[booted])'
    <3>1. PICK s \in Stateroot : s = booted
      BY <1>0
    <3>2. CASE cr'[s] = x
      BY <1>1, <1>18, <3>1, <3>2 DEF Startable
    <3>3. CASE cr'[s] = cr[s]
      <4>1. Startable(s, cr[s])'
        BY <1>13, <2>1, <3>1, <3>3
      <4> QED
        BY <1>1, <3>1, <4>1
    <3> QED
      BY <1>16, <3>1, <3>2, <3>3
  <2> QED
    BY <2>3, <2>4 DEF CurrentOK
<1>24. UnitOK' /\ PlaceOK'
  BY <1>1, <1>2 DEF UnitOK, PlaceOK
<1>25. OperatorOK'
  <2>1. Startable(booted, x)' /\ Applied(booted, x)'
    BY <1>18 DEF Startable, Applied
  <2>2. Startable(booted, deleted)' /\ Applied(booted, deleted)'
    <3>1. PICK s \in Stateroot : s = booted
      BY <1>0
    <3> QED
      BY <1>1, <1>2, <1>13, <1>14, <3>1 DEF OperatorOK
  <2> QED
    BY <1>1, <1>2, <1>3, <1>22, <2>1, <2>2 DEF OperatorOK
<1> QED
  BY <1>9, <1>11, <1>12, <1>19, <1>20, <1>21, <1>23, <1>24, <1>25 DEF Core, HostOK, StoresOK

\* The cleanup of the Idle handler keeps the invariant, whole or failed half-
\* way.
LEMMA CleanupCore ==
    ASSUME TypeInv, Core, CleanupDone \/ CleanupFailed PROVE Core'
<1>1. CleaningUp /\ UNCHANGED <<unitVars, envVars>>
  BY DEF CleanupDone, CleanupFailed
<1>2. ipc.stage = "Idle" /\ ~IdleTrue(ipc) /\ ~ipc.cleaned /\ pc \in {"handle", "cleanup"}
  BY <1>1, InStageFacts
<1>3. ipc \in CRs /\ ipc.conds \in IPConditions /\ CondOK(ipc) /\ Exists(ipc)
  BY <1>2, InMemory
<1>4. CASE CleanupDone
  <2> DEFINE c == ResetIPStatusConditions
             x == [ipc EXCEPT !.conds = c]
  <2>1. c \in IPConditions /\ \A u \in IPConditionTypes : c[u] = IF u = "Idle" THEN "Idle" ELSE "None"
    BY NoConditionsTyped DEF ResetIPStatusConditions, NoIPConditions
  <2> HIDE DEF c
  <2>2. /\ x \in CRs /\ x.conds = c /\ x.stage = ipc.stage /\ x.net = ipc.net /\ x.next = ipc.next
        /\ x.cleaned = ipc.cleaned /\ Exists(x)
    BY <1>3, <2>1, ExceptConds
  <2>3. cleanup(Stateroot \ {booted}, FALSE) /\ CleanupUpdate(Stateroot \ {booted}, x, FALSE)
    BY <1>4 DEF CleanupDone, c
  <2> HIDE DEF x
  <2>4. CondOK(x) /\ x.stage = "Idle"
    BY <1>2, <1>3, <2>1, <2>2, TypeNames DEF CondOK, IdleTrue, ConfigRuns, RollbackRuns, ConfigOpen
  <2> QED
    BY <1>1, <2>2, <2>3, <2>4, CleanupStepCore
<1>5. CASE CleanupFailed
  <2> DEFINE c == SetIPCondition(ipc.conds, "Idle", "Failed")
             x == [ipc EXCEPT !.conds = c]
  <2>1. "Failed" \in IPConditionReasons
    BY DEF IPConditionReasons
  <2>2. c \in IPConditions
    BY <1>3, <2>1, TypeNames, ConditionsTyped
  <2>3. \A u \in IPConditionTypes : c[u] = IF u = "Idle" THEN "Failed" ELSE ipc.conds[u]
    BY <1>3, TypeNames, ConditionValues
  <2>4. PICK gone \in SUBSET (deployed \ {booted}) : cleanup(gone, TRUE) /\ CleanupUpdate(gone, x, TRUE)
    BY <1>5 DEF CleanupFailed
  <2> HIDE DEF c
  <2>5. /\ x \in CRs /\ x.conds = c /\ x.stage = ipc.stage /\ x.net = ipc.net /\ x.next = ipc.next
        /\ x.cleaned = ipc.cleaned /\ Exists(x)
    BY <1>3, <2>2, ExceptConds
  <2> HIDE DEF x
  <2>6. CondOK(x) /\ x.stage = "Idle" /\ ~IdleTrue(x)
    BY <1>2, <1>3, <2>3, <2>5, TypeNames DEF CondOK, IdleTrue, ConfigRuns, RollbackRuns, ConfigOpen
  <2>7. gone \in SUBSET (Stateroot \ {booted})
    BY DEF TypeInv, TypeOK
  <2> QED
    BY <1>1, <2>4, <2>5, <2>6, <2>7, CleanupStepCore
<1> QED
  BY <1>4, <1>5

-----------------------------------------------------------------------------
(* The pre-pivot unit. *)

\* A steady step that starts no rollback keeps what is said of the default
\* deployment.
LEMMA SwitchSteady ==
    ASSUME TypeInv, HostOK, Steady, default' = default, running' => running, Switched' => Switched,
           \A s \in Stateroot : s # booted => disk'[s].monitor \in {"off", "armed"}
    PROVE  SwitchOK'
<1>1. booted \in Stateroot /\ default \in Stateroot /\ booted' = booted /\ deployed' = deployed
  BY DEF TypeInv, TypeOK, Steady
<1>2. disk'[booted].plan = disk[booted].plan
  BY <1>1 DEF Steady
<1>3. PICK s \in Stateroot : s = default
  BY <1>1
<1>4. ~Alive(s) => ~Alive(s)'
  BY DEF Steady
<1>5. ~Alive(default) => ~Alive(default)'
  BY <1>3, <1>4 DEF Alive
<1> QED
  BY <1>1, <1>2, <1>5 DEF HostOK, SwitchOK

\* A unit that refuses its inputs keeps the invariant.
LEMMA UnitRefusesCore ==
    ASSUME TypeInv, Core, UnitRefuses PROVE Core'
<1>1. /\ UNCHANGED <<booted, default, deployed, disk, cr, file, running, service, up, ipc, deleted, faults>>
      /\ unit = "inputs" /\ unit' = "none"
      /\ pc' = IF pc = "waiting" THEN "unitFailed" ELSE pc
  BY DEF UnitRefuses, hostVars, storeVars, envVars
<1>2. /\ HostOK /\ StoresOK /\ OperatorOK /\ PlaceOK /\ UnitOK /\ (NoDelete' <=> NoDelete)
  BY <1>1 DEF Core, NoDelete
<1>3. running /\ pc = "waiting" /\ pc' = "unitFailed" /\ deployed = {booted} /\ target \notin {0, booted}
  BY <1>1, <1>2 DEF UnitOK
<1>4. Steady
  BY <1>1, <1>3 DEF Steady, Alive
<1>5. StoresOK'
  <2>1. \A s \in Stateroot : Needed(s)' => Needed(s)
    BY <1>1, <1>2 DEF Needed
  <2>2. \A s \in Stateroot : ~(disk[s].plan # 0 /\ disk[s].done = {} /\ ConfigDone(file[s]))
    <3>1. file[target] = NoCR
      BY <1>1, <1>2, <1>3, UnitBusy DEF StoresOK, StoreOK
    <3> QED
      BY <1>1, <3>1, UnitBusy, NoCROK
  <2> QED
    BY <1>1, <1>2, <1>3, <1>4, <2>1, <2>2, StoresSteady
<1>6. SwitchOK'
  BY <1>1, <1>2, <1>4, SwitchSteady DEF HostOK, SwitchOK, Switched
<1>7. HostOK'
  BY <1>2, <1>4, <1>6, SteadyFrame DEF HostOK
<1>8. UnitOK'
  BY <1>1 DEF UnitOK
<1>9. OperatorOK'
  BY <1>1, <1>2, <1>3, <1>4, SteadyFrame, UnitBusy DEF OperatorOK, IdleClean, TypeInv, TypeOK
<1>10. PlaceOK'
  BY <1>1, <1>2, <1>3 DEF PlaceOK
<1> QED
  BY <1>5, <1>7, <1>8, <1>9, <1>10 DEF Core

\* Enabling or disabling kubelet changes nothing else on the disk.
LEMMA KubeletOff ==
    ASSUME TypeInv, NEW v \in BOOLEAN, disk' = [disk EXCEPT ![booted].kubelet = v]
    PROVE  \A s \in Stateroot :
               /\ s # booted => disk'[s] = disk[s]
               /\ disk'[s].plan = disk[s].plan /\ disk'[s].done = disk[s].done /\ disk'[s].net = disk[s].net
               /\ disk'[s].cert = disk[s].cert /\ disk'[s].monitor = disk[s].monitor
               /\ s = booted => disk'[s].kubelet = v
<1>1. booted \in Stateroot /\ disk \in [Stateroot -> Disks] /\ disk[booted] \in Disks
  BY DEF TypeInv, TypeOK
<1> QED
  BY <1>1 DEF Disks

\* Nothing is in memory when the operator is gone.
LEMMA GoneCore ==
    ASSUME OperatorGone PROVE OperatorOK' /\ PlaceOK'
BY NoCROK DEF OperatorGone, OperatorOK, PlaceOK, Startable, Applied, IdleClean

\* Stopping the cluster keeps the invariant: the operator dies with it and
\* ipc.json is there.
LEMMA StopClusterServicesCore ==
    ASSUME TypeInv, Core, StopClusterServices PROVE Core'
<1>1. /\ UNCHANGED <<booted, default, deployed, cr, file, target, service, faults>>
      /\ unit = "inputs" /\ unit' = "stopped" /\ running' = FALSE /\ OperatorGone
      /\ disk' = [disk EXCEPT ![booted].kubelet = FALSE]
  BY DEF StopClusterServices, storeVars
<1>2. HostOK /\ StoresOK /\ UnitOK /\ (NoDelete' <=> NoDelete) /\ booted \in Stateroot /\ target \in Stateroot
  BY <1>1 DEF Core, NoDelete, TypeInv, TypeOK
<1>3. \A s \in Stateroot :
          /\ s # booted => disk'[s] = disk[s]
          /\ disk'[s].plan = disk[s].plan /\ disk'[s].done = disk[s].done /\ disk'[s].net = disk[s].net
          /\ disk'[s].cert = disk[s].cert /\ disk'[s].monitor = disk[s].monitor
          /\ s = booted => disk'[s].kubelet = FALSE
  BY <1>1, KubeletOff
<1>4. booted \in deployed /\ Alive(booted) /\ ~IdleTrue(cr[booted])
  BY <1>1, UnitBusy DEF TypeInv, BootableHost
<1>5. Steady
  BY <1>1, <1>3, <1>4 DEF Steady, Alive
<1>6. StoresOK'
  <2>1. \A s \in Stateroot : Needed(s)' => Needed(s)
    BY <1>1, <1>2 DEF Needed
  <2>2. ~up' /\ pc' = "idle"
    BY <1>1 DEF OperatorGone
  <2> QED
    BY <1>1, <1>2, <1>4, <1>5, <2>1, <2>2, StoresSteady, UnitBusy
<1>7. SwitchOK'
  BY <1>1, <1>2, <1>3, <1>5, SwitchSteady DEF HostOK, SwitchOK, Switched
<1>8. HostOK'
  BY <1>2, <1>5, <1>7, SteadyFrame DEF HostOK
<1>9. UnitOK'
  BY <1>1, <1>2, <1>3, <1>5, SteadyFrame DEF UnitOK, Copied, Late, Planned, Carries
<1> QED
  BY <1>1, <1>6, <1>8, <1>9, GoneCore DEF Core

\* So does stopping it half-way.
LEMMA StopClusterServicesFailsCore ==
    ASSUME TypeInv, Core, StopClusterServicesFails PROVE Core'
<1>1. /\ UNCHANGED <<booted, default, deployed, cr, file, service>> /\ Fault
      /\ unit = "inputs" /\ unit' = "none"
      /\ disk' = [disk EXCEPT ![booted].kubelet = FALSE]
      /\ \/ running' = FALSE /\ OperatorGone
         \/ UNCHANGED <<running, up, ipc, deleted>> /\ pc' = IF pc = "waiting" THEN "unitFailed" ELSE pc
  BY DEF StopClusterServicesFails, storeVars
<1>2. /\ HostOK /\ StoresOK /\ UnitOK /\ OperatorOK /\ PlaceOK /\ NoDelete /\ NoDelete'
      /\ booted \in Stateroot /\ target \in Stateroot /\ running /\ pc = "waiting" /\ up
  BY <1>1, FaultFacts DEF Core, TypeInv, TypeOK, UnitOK, OperatorOK
<1>3. \A s \in Stateroot :
          /\ s # booted => disk'[s] = disk[s]
          /\ disk'[s].plan = disk[s].plan /\ disk'[s].done = disk[s].done /\ disk'[s].net = disk[s].net
          /\ disk'[s].cert = disk[s].cert /\ disk'[s].monitor = disk[s].monitor
          /\ s = booted => disk'[s].kubelet = FALSE
  BY <1>1, KubeletOff
<1>4. booted \in deployed /\ Alive(booted) /\ ~IdleTrue(cr[booted]) /\ ~IdleTrue(ipc)
  BY <1>1, UnitBusy DEF TypeInv, BootableHost
<1>5. Steady
  BY <1>1, <1>3, <1>4 DEF Steady, Alive
<1>6. StoresOK'
  <2>1. \A s \in Stateroot : Needed(s)' => Needed(s)
    BY <1>2 DEF Needed
  <2>2. \A s \in Stateroot : ~(disk[s].plan # 0 /\ disk[s].done = {} /\ ConfigDone(file[s]))
    BY <1>1, <1>2, UnitBusy
  <2> QED
    BY <1>1, <1>2, <1>5, <2>1, <2>2, StoresSteady
<1>7. SwitchOK'
  BY <1>1, <1>2, <1>3, <1>5, SwitchSteady DEF HostOK, SwitchOK, Switched
<1>8. HostOK' /\ UnitOK'
  BY <1>1, <1>2, <1>5, <1>7, SteadyFrame DEF HostOK, UnitOK
<1>9. OperatorOK' /\ PlaceOK'
  <2>1. CASE running' = FALSE /\ OperatorGone
    BY <2>1, GoneCore
  <2>2. CASE UNCHANGED <<running, up, ipc, deleted>> /\ pc' = "unitFailed"
    <3>1. OperatorOK'
      BY <1>1, <1>2, <1>4, <1>5, <2>2, SteadyFrame DEF OperatorOK, IdleClean
    <3>2. PlaceOK'
      BY <1>1, <1>2, <2>2 DEF PlaceOK
    <3> QED
      BY <3>1, <3>2
  <2> QED
    BY <1>1, <1>2, <2>1, <2>2
<1> QED
  BY <1>6, <1>8, <1>9 DEF Core

\* The same for a step that leaves the operator down.
LEMMA DownCore ==
    ASSUME ~up', pc' = "idle", ipc' = NoCR, deleted' = NoCR
    PROVE  OperatorOK' /\ PlaceOK'
BY NoCROK DEF OperatorOK, PlaceOK, Startable, Applied, IdleClean

\* What every step of the unit after the stop of the cluster leaves alone.
LEMMA UnitStepFacts ==
    ASSUME TypeInv, Core, NEW from \in UnitSteps, NEW to \in UnitSteps \cup {"ready"}, UnitStep(from, to)
    PROVE  /\ unit = from /\ unit' = to /\ booted' = booted /\ target' = target /\ service' = service
           /\ ~running /\ ~running' /\ OperatorOK' /\ PlaceOK' /\ (NoDelete' <=> NoDelete)
           /\ HostOK /\ UnitOK /\ StoresOK
           /\ booted \in Stateroot /\ target \in Stateroot /\ target \notin {0, booted} /\ booted \in deployed
           /\ deployed \subseteq {booted, target} /\ Clean(booted) /\ Alive(booted) /\ ~IdleTrue(cr[booted])
           /\ ~up' /\ pc' = "idle" /\ unit \notin {"none", "inputs"} /\ unit' \notin {"none", "inputs"}
           /\ \A s \in Stateroot : Needed(s) <=> NoDelete
           /\ \A s \in Stateroot : Needed(s)' <=> NoDelete
<1>1. /\ unit = from /\ unit' = to /\ booted' = booted /\ target' = target /\ service' = service
      /\ UNCHANGED <<up, pc, ipc, deleted, running, faults>>
  BY DEF UnitStep, opVars, envVars
<1>2. unit \notin {"none", "inputs"} /\ unit' \notin {"none", "inputs"}
  BY <1>1 DEF UnitSteps
<1>3. /\ HostOK /\ UnitOK /\ StoresOK
      /\ booted \in Stateroot /\ target \in Stateroot /\ target \notin {0, booted} /\ booted \in deployed
      /\ deployed \subseteq {booted, target} /\ Clean(booted) /\ Alive(booted) /\ ~IdleTrue(cr[booted])
      /\ ~up /\ pc = "idle" /\ ipc = NoCR /\ deleted = NoCR /\ ~running
  BY <1>2, UnitBusy DEF Core, TypeInv, TypeOK, BootableHost
<1>4. OperatorOK' /\ PlaceOK'
  BY <1>1, <1>3, DownCore
<1>5. NoDelete' <=> NoDelete
  BY <1>1 DEF NoDelete
<1>6. \A s \in Stateroot : (Needed(s) <=> NoDelete) /\ (Needed(s)' <=> NoDelete)
  BY <1>2, <1>5 DEF Needed
<1> QED
  BY <1>1, <1>2, <1>3, <1>4, <1>5, <1>6

\* While the unit is at work the CR to go back to says that the Config failed.
LEMMA ExportedSaved ==
    ASSUME TypeInv, Core, unit # "none", NoDelete
    PROVE  /\ Saved(booted) = file[booted] /\ ~PrePivotable(file[booted])
           /\ unit \in Copied =>
                 /\ ~ConfigDone(file[target]) /\ (Exists(file[target]) => ~PrePivotable(file[target]))
<1>1. Exists(file[booted]) /\ ConfigFailed(file[booted])
  BY DEF Core, UnitOK
<1>2. unit \in Copied /\ Exists(file[target]) => ConfigFailed(file[target])
  BY DEF Core, UnitOK
<1> QED
  BY <1>1, <1>2 DEF Saved, ConfigFailed, PrePivotable, ConfigOpen, ConfigDone, Exists

\* deployNewStateroot keeps the invariant: there are two stateroots, the booted
\* one and the target.
LEMMA deployNewStaterootCore ==
    ASSUME TypeInv, Core, deployNewStateroot PROVE Core'
<1>1. /\ UnitStep("stopped", "deployed") /\ deployed' = deployed \cup {target} /\ UNCHANGED <<disk, cr, file>>
      /\ default' = (IF SetDefaultFeature \/ target \in deployed THEN default ELSE target)
  BY DEF deployNewStateroot, storeVars
<1>2. /\ unit = "stopped" /\ unit' = "deployed" /\ booted' = booted /\ target' = target /\ service' = service
      /\ ~running /\ ~running' /\ OperatorOK' /\ PlaceOK' /\ (NoDelete' <=> NoDelete)
      /\ HostOK /\ UnitOK /\ StoresOK
      /\ booted \in Stateroot /\ target \in Stateroot /\ target \notin {0, booted} /\ booted \in deployed
      /\ deployed \subseteq {booted, target} /\ Clean(booted) /\ Alive(booted) /\ ~IdleTrue(cr[booted])
      /\ ~up' /\ pc' = "idle"
      /\ \A s \in Stateroot : Needed(s) <=> NoDelete
      /\ \A s \in Stateroot : Needed(s)' <=> NoDelete
  BY <1>1, UnitStepFacts DEF UnitSteps
<1>3. \A s \in Stateroot : (Alive(s)' <=> Alive(s)) /\ (Clean(s)' <=> Clean(s))
  BY <1>1, <1>2 DEF Alive, Clean
<1>4. ASSUME NEW s \in Stateroot PROVE DiskOK(s)'
  <2>1. DiskOK(s)
    BY <1>2 DEF HostOK
  <2> QED
    BY <1>1, <1>3, <2>1 DEF DiskOK
<1>5. PairOK'
  BY <1>1, <1>2, <1>3 DEF PairOK
<1>6. SwitchOK'
  <2>1. SwitchOK
    BY <1>2 DEF HostOK
  <2>2. ~SetDefaultFeature => ~Alive(default)'
    <3> SUFFICES ASSUME ~SetDefaultFeature PROVE ~Alive(default)'
      OBVIOUS
    <3>1. CASE target \in deployed
      <4>1. ~Alive(default) /\ default' = default /\ default \in Stateroot
        BY <1>1, <1>2, <2>1, <3>1 DEF SwitchOK, TypeInv, TypeOK
      <4>2. ASSUME NEW s \in Stateroot, s = default, ~Alive(s) PROVE ~Alive(s)'
        BY <1>3, <4>2
      <4> QED
        BY <4>1, <4>2
    <3>2. CASE target \notin deployed
      <4>1. disk[target] = EmptyDisk /\ default' = target
        BY <1>1, <1>2, <3>2 DEF HostOK, DiskOK
      <4> QED
        BY <1>1, <1>2, <4>1 DEF Alive, EmptyDisk
    <3> QED
      BY <3>1, <3>2
  <2>3. disk[booted].plan = 0
    BY <1>2 DEF Clean
  <2> QED
    BY <1>1, <1>2, <2>1, <2>2, <2>3 DEF SwitchOK, Switched
<1>7. UnitOK'
  BY <1>1, <1>2, <1>3 DEF UnitOK, Copied, Late, Planned, Carries
<1>8. ASSUME NEW s \in Stateroot PROVE StoreOK(s)'
  <2>1. StoreOK(s) /\ Saved(s)' = Saved(s)
    BY <1>1, <1>2 DEF StoresOK, Saved
  <2>2. (Needed(s) => Startable(s, Saved(s)))'
    <3> SUFFICES ASSUME NoDelete PROVE Startable(s, Saved(s))'
      BY <1>2
    <3>1. CASE s = booted
      <4>1. ~PrePivotable(Saved(s))
        BY <1>2, <3>1, ExportedSaved
      <4> QED
        BY <2>1, <4>1 DEF Startable
    <3>2. CASE s # booted
      <4>1. Startable(s, Saved(s)) /\ deployed # {s}
        BY <1>2, <2>1, <3>2 DEF StoreOK
      <4> QED
        BY <1>1, <1>3, <2>1, <4>1 DEF Startable
    <3> QED
      BY <3>1, <3>2
  <2>3. Applied(s, cr[s])' /\ Applied(s, file[s])'
    BY <1>1, <2>1 DEF StoreOK, Applied
  <2> QED
    BY <1>1, <1>2, <2>1, <2>2, <2>3 DEF StoreOK
<1>9. CurrentOK'
  BY <1>1, <1>2 DEF CurrentOK, IdleClean
<1> QED
  BY <1>2, <1>4, <1>5, <1>6, <1>7, <1>8, <1>9 DEF Core, HostOK, StoresOK

\* copyStateRootData keeps the invariant: the copy has no kubelet, no RunOnce
\* marker and the CR of the Config.
LEMMA copyStateRootDataCore ==
    ASSUME TypeInv, Core, copyStateRootData PROVE Core'
<1>1. /\ UnitStep("deployed", "copied") /\ target \in deployed /\ UNCHANGED <<default, deployed>>
      /\ disk' = [disk EXCEPT ![target] = [disk[booted] EXCEPT !.monitor = Restarted(@)]]
      /\ cr' = [cr EXCEPT ![target] = cr[booted]] /\ file' = [file EXCEPT ![target] = file[booted]]
  BY DEF copyStateRootData
<1>2. /\ unit = "deployed" /\ unit' = "copied" /\ booted' = booted /\ target' = target /\ service' = service
      /\ ~running /\ ~running' /\ OperatorOK' /\ PlaceOK' /\ (NoDelete' <=> NoDelete)
      /\ HostOK /\ UnitOK /\ StoresOK
      /\ booted \in Stateroot /\ target \in Stateroot /\ target \notin {0, booted} /\ booted \in deployed
      /\ deployed \subseteq {booted, target} /\ Clean(booted) /\ Alive(booted) /\ ~IdleTrue(cr[booted])
      /\ ~up' /\ pc' = "idle"
      /\ \A s \in Stateroot : Needed(s) <=> NoDelete
      /\ \A s \in Stateroot : Needed(s)' <=> NoDelete
  BY <1>1, UnitStepFacts DEF UnitSteps
<1>3. /\ \A s \in Stateroot : s # target => disk'[s] = disk[s] /\ cr'[s] = cr[s] /\ file'[s] = file[s]
      /\ cr'[target] = cr[booted] /\ file'[target] = file[booted]
      /\ disk'[target] = [disk[booted] EXCEPT !.monitor = Restarted(disk[booted].monitor)]
  BY <1>1, <1>2 DEF TypeInv, TypeOK
<1>4. /\ disk'[target].plan = 0 /\ disk'[target].done = {} /\ disk'[target].net = disk[booted].net
      /\ disk'[target].cert = disk[booted].cert /\ (disk'[target].kubelet <=> disk[booted].kubelet)
      /\ disk'[target].monitor = Restarted(disk[booted].monitor)
  <2>1. disk[booted] \in Disks
    BY <1>2 DEF TypeInv, TypeOK
  <2> QED
    BY <1>2, <1>3, <2>1 DEF Disks, Clean
<1>5. ~disk[booted].kubelet /\ disk[booted].cert = disk[booted].net
  <2>1. ~disk[booted].kubelet
    BY <1>2 DEF UnitOK
  <2>2. DiskOK(booted)
    BY <1>2 DEF HostOK
  <2> QED
    BY <1>2, <2>1, <2>2 DEF DiskOK, Clean
<1>6. \A s \in Stateroot : /\ s # target => (Alive(s)' <=> Alive(s)) /\ (Clean(s)' <=> Clean(s))
                           /\ s = target => ~Alive(s)'
  BY <1>2, <1>3, <1>4, <1>5 DEF Alive, Clean
<1>7. ASSUME NEW s \in Stateroot PROVE DiskOK(s)'
  <2>1. CASE s = target
    BY <1>1, <1>4, <1>5, <1>6, <2>1 DEF DiskOK
  <2>2. CASE s # target
    <3>1. DiskOK(s)
      BY <1>2 DEF HostOK
    <3> QED
      BY <1>1, <1>3, <1>6, <2>2, <3>1 DEF DiskOK
  <2> QED
    BY <2>1, <2>2
<1>8. PairOK'
  BY <1>1, <1>2, <1>6 DEF PairOK
<1>9. SwitchOK'
  <2>1. SwitchOK
    BY <1>2 DEF HostOK
  <2>2. \A s \in Stateroot : s # booted => disk'[s].monitor \in {"off", "armed"}
    BY <1>2, <1>3, <1>4, <2>1 DEF SwitchOK, Restarted
  <2>3. ~SetDefaultFeature => ~Alive(default)'
    <3> SUFFICES ASSUME ~SetDefaultFeature PROVE ~Alive(default)'
      OBVIOUS
    <3>1. ~Alive(default) /\ default' = default /\ default \in Stateroot
      BY <1>1, <1>2, <2>1 DEF SwitchOK, TypeInv, TypeOK
    <3>2. ASSUME NEW s \in Stateroot, s = default PROVE ~Alive(s)'
      BY <1>6, <3>1, <3>2
    <3> QED
      BY <3>1, <3>2
  <2>4. disk'[booted] = disk[booted]
    BY <1>2, <1>3
  <2> QED
    BY <1>1, <1>2, <2>1, <2>2, <2>3, <2>4 DEF SwitchOK, Switched
<1>10. UnitOK'
  <2>1. /\ Carries(booted, target)
        /\ NoDelete => Exists(file[booted]) /\ ConfigFailed(file[booted])
    BY <1>2 DEF UnitOK
  <2>2. /\ cr'[booted] = cr[booted] /\ file'[booted] = file[booted]
    BY <1>2, <1>3
  <2>3. Carries(booted, target)' /\ Carries(target, target)'
    BY <1>2, <1>3, <2>1, <2>2 DEF Carries
  <2> QED
    BY <1>1, <1>2, <1>3, <1>4, <1>5, <1>6, <2>1, <2>2, <2>3 DEF UnitOK, Late, Planned
<1>11. ASSUME NEW s \in Stateroot, s = target PROVE StoreOK(s)'
  <2>1. /\ CondOK(cr[booted]) /\ Applied(booted, cr[booted])
        /\ CondOK(file[booted]) /\ ~IdleTrue(file[booted]) /\ Applied(booted, file[booted])
    BY BootedStores
  <2>2. Applied(s, cr[s])' /\ Applied(s, file[s])'
    BY <1>3, <1>4, <1>11, <2>1 DEF Applied
  <2>3. (Needed(s) => Startable(s, Saved(s)))'
    <3> SUFFICES ASSUME NoDelete PROVE Startable(s, Saved(s))'
      BY <1>2
    <3>1. Saved(s)' = Saved(booted) /\ ~PrePivotable(Saved(booted))
      BY <1>2, <1>3, <1>11, ExportedSaved DEF Saved
    <3> QED
      BY <3>1 DEF Startable
  <2> QED
    BY <1>1, <1>2, <1>3, <1>4, <1>11, <2>1, <2>2, <2>3 DEF StoreOK
<1>12. ASSUME NEW s \in Stateroot, s # target PROVE StoreOK(s)'
  <2>1. StoreOK(s) /\ Saved(s)' = Saved(s) /\ cr'[s] = cr[s] /\ file'[s] = file[s] /\ disk'[s] = disk[s]
    BY <1>2, <1>3, <1>12 DEF StoresOK, Saved
  <2>2. (Needed(s) => Startable(s, Saved(s)))'
    BY <1>1, <1>2, <1>6, <1>12, <2>1 DEF StoreOK, Startable
  <2>3. Applied(s, cr[s])' /\ Applied(s, file[s])'
    BY <2>1 DEF StoreOK, Applied
  <2> QED
    BY <1>1, <1>2, <2>1, <2>2, <2>3 DEF StoreOK
<1>13. CurrentOK'
  BY <1>2, <1>3 DEF CurrentOK, IdleClean
<1> QED
  BY <1>2, <1>7, <1>8, <1>9, <1>10, <1>11, <1>12, <1>13 DEF Core, HostOK, StoresOK

\* The steps that leave networks, plans and stores alone.
LEMMA UnitSteadyCore ==
    ASSUME TypeInv, Core,
           \/ setDefaultDeploymentIfEnabled \/ EnableClusterServices \/ installServices
    PROVE  Core'
<1>0. /\ booted \in Stateroot /\ target \in Stateroot /\ disk \in [Stateroot -> Disks]
      /\ disk[booted] \in Disks /\ disk[target] \in Disks
  BY DEF TypeInv, TypeOK
<1>1. PICK from \in UnitSteps, to \in UnitSteps \cup {"ready"} :
          /\ UnitStep(from, to) /\ UNCHANGED <<deployed, cr, file>>
          /\ \/ from = "copied" /\ to = "default" /\ SetDefaultFeature /\ target \in deployed /\ default' = target /\ disk' = disk
             \/ from = "written" /\ to = "enabled" /\ default' = default
                   /\ disk' = [disk EXCEPT ![booted].kubelet = TRUE]
             \/ from = "enabled" /\ to = "installed" /\ default' = default
                   /\ disk' = [disk EXCEPT ![target].monitor = "armed", ![target].service = TRUE]
  <2>1. {"copied", "default", "written", "enabled", "installed"} \subseteq UnitSteps
    BY DEF UnitSteps
  <2> USE <2>1
  <2>2. CASE setDefaultDeploymentIfEnabled
    <3> WITNESS "copied" \in UnitSteps, "default" \in UnitSteps \cup {"ready"}
    <3> QED
      BY <2>2 DEF setDefaultDeploymentIfEnabled, storeVars
  <2>3. CASE EnableClusterServices
    <3> WITNESS "written" \in UnitSteps, "enabled" \in UnitSteps \cup {"ready"}
    <3> QED
      BY <2>3 DEF EnableClusterServices, storeVars
  <2>4. CASE installServices
    <3> WITNESS "enabled" \in UnitSteps, "installed" \in UnitSteps \cup {"ready"}
    <3> QED
      BY <2>4 DEF installServices, storeVars
  <2> QED
    BY <2>2, <2>3, <2>4
<1>2. /\ unit = from /\ unit' = to /\ booted' = booted /\ target' = target /\ service' = service
      /\ ~running /\ ~running' /\ OperatorOK' /\ PlaceOK' /\ (NoDelete' <=> NoDelete)
      /\ HostOK /\ UnitOK /\ StoresOK
      /\ target \notin {0, booted} /\ booted \in deployed
      /\ deployed \subseteq {booted, target} /\ Clean(booted) /\ Alive(booted) /\ ~IdleTrue(cr[booted])
      /\ ~up' /\ pc' = "idle" /\ unit # "none" /\ unit' # "none"
      /\ \A s \in Stateroot : Needed(s) <=> NoDelete
      /\ \A s \in Stateroot : Needed(s)' <=> NoDelete
  BY <1>1, UnitStepFacts
<1>3. target \in deployed /\ SetDefaultFeature
  BY <1>1, <1>2 DEF UnitOK, Late
<1>4. \A s \in Stateroot :
          /\ s \notin {booted, target} => disk'[s] = disk[s]
          /\ disk'[s].plan = disk[s].plan /\ disk'[s].done = disk[s].done /\ disk'[s].net = disk[s].net
          /\ disk'[s].cert = disk[s].cert
          /\ s # booted => (disk'[s].kubelet <=> disk[s].kubelet) /\ disk'[s].monitor \in {disk[s].monitor, "armed"}
          /\ s = booted => disk'[s].monitor = disk[s].monitor
  <2>1. CASE disk' = disk
    BY <2>1
  <2>2. CASE disk' = [disk EXCEPT ![booted].kubelet = TRUE]
    BY <1>0, <2>2 DEF Disks
  <2>3. CASE disk' = [disk EXCEPT ![target].monitor = "armed", ![target].service = TRUE]
    <3>1. /\ disk'[target] = [disk[target] EXCEPT !.monitor = "armed", !.service = TRUE]
          /\ \A s \in Stateroot : s # target => disk'[s] = disk[s]
      BY <1>0, <2>3
    <3>2. /\ disk'[target].plan = disk[target].plan /\ disk'[target].done = disk[target].done
          /\ disk'[target].net = disk[target].net /\ disk'[target].cert = disk[target].cert
          /\ disk'[target].kubelet = disk[target].kubelet /\ disk'[target].monitor = "armed"
      BY <1>0, <3>1 DEF Disks
    <3> QED
      BY <1>2, <3>1, <3>2
  <2> QED
    BY <1>1, <2>1, <2>2, <2>3
<1>5. Steady
  BY <1>1, <1>2, <1>3, <1>4 DEF Steady, Alive
<1>6. StoresOK'
  <2>1. \A s \in Stateroot : disk[s].plan # 0 /\ disk[s].done = {} /\ ConfigDone(file[s])
            => unit' # "none" /\ s = target' /\ ~NoDelete'
    BY <1>2, UnitBusy
  <2> QED
    BY <1>1, <1>2, <1>5, <2>1, StoresSteady
<1>7. SwitchOK'
  <2>1. default' # booted
    BY <1>1, <1>2 DEF UnitOK, Late
  <2>2. \A s \in Stateroot : s # booted => disk'[s].monitor \in {"off", "armed"}
    BY <1>2, <1>4 DEF HostOK, SwitchOK
  <2> QED
    BY <1>2, <1>3, <2>1, <2>2 DEF SwitchOK
<1>8. HostOK'
  BY <1>2, <1>5, <1>7, SteadyFrame DEF HostOK
<1>9. UnitOK'
  <2>1. Clean(booted)' /\ (Carries(booted, target)' <=> Carries(booted, target))
        /\ (Carries(target, target)' <=> Carries(target, target))
    BY <1>0, <1>1, <1>2, <1>5, SteadyFrame DEF Carries, Clean, Steady
  <2> QED
    BY <1>0, <1>1, <1>2, <1>3, <1>4, <2>1 DEF UnitOK, Copied, Late, Planned
<1> QED
  BY <1>2, <1>6, <1>8, <1>9 DEF Core

\* Writing the network of the spec into the workspace of the target keeps the
\* invariant.
LEMMA writeNewStaterootCore ==
    ASSUME TypeInv, Core, writeNewStateroot PROVE Core'
<1>1. /\ UnitStep("default", "written") /\ UNCHANGED <<default, deployed, cr, file>>
      /\ disk' = [disk EXCEPT ![target].plan = target]
  BY DEF writeNewStateroot, storeVars
<1>2. /\ unit = "default" /\ unit' = "written" /\ booted' = booted /\ target' = target /\ service' = service
      /\ ~running /\ ~running' /\ OperatorOK' /\ PlaceOK' /\ (NoDelete' <=> NoDelete)
      /\ HostOK /\ UnitOK /\ StoresOK
      /\ booted \in Stateroot /\ target \in Stateroot /\ target \notin {0, booted} /\ booted \in deployed
      /\ deployed \subseteq {booted, target} /\ Clean(booted) /\ Alive(booted) /\ ~IdleTrue(cr[booted])
      /\ ~up' /\ pc' = "idle"
      /\ \A s \in Stateroot : Needed(s) <=> NoDelete
      /\ \A s \in Stateroot : Needed(s)' <=> NoDelete
  BY <1>1, UnitStepFacts DEF UnitSteps
<1>3. /\ target \in deployed /\ SetDefaultFeature /\ default = target /\ ~disk[target].kubelet
      /\ disk[target].done = {} /\ Carries(target, target)
  BY <1>2 DEF UnitOK, Late, Copied
<1>4. /\ \A s \in Stateroot : s # target => disk'[s] = disk[s]
      /\ disk'[target].plan = target /\ disk'[target].done = {} /\ disk'[target].net = disk[target].net
      /\ disk'[target].cert = disk[target].cert /\ ~disk'[target].kubelet
      /\ disk'[target].monitor = disk[target].monitor
  <2>1. disk[target] \in Disks /\ disk \in [Stateroot -> Disks]
    BY <1>2 DEF TypeInv, TypeOK
  <2> QED
    BY <1>1, <1>2, <1>3, <2>1 DEF Disks
<1>5. \A s \in Stateroot : /\ s # target => (Alive(s)' <=> Alive(s)) /\ (Clean(s)' <=> Clean(s))
                           /\ s = target => ~Alive(s)'
  BY <1>2, <1>4 DEF Alive, Clean
<1>6. ASSUME NEW s \in Stateroot PROVE DiskOK(s)'
  <2>1. DiskOK(s)
    BY <1>2 DEF HostOK
  <2>2. CASE s = target
    BY <1>1, <1>3, <1>4, <1>5, <2>1, <2>2 DEF DiskOK
  <2>3. CASE s # target
    BY <1>1, <1>4, <1>5, <2>1, <2>3 DEF DiskOK
  <2> QED
    BY <2>2, <2>3
<1>7. PairOK'
  BY <1>1, <1>2, <1>5 DEF PairOK
<1>8. SwitchOK'
  BY <1>1, <1>2, <1>3, <1>4 DEF HostOK, SwitchOK, Switched
<1>9. UnitOK'
  <2>1. Clean(booted)' /\ (Carries(booted, target)' <=> Carries(booted, target))
        /\ (Carries(target, target)' <=> Carries(target, target))
    BY <1>1, <1>2, <1>4 DEF Carries, Clean
  <2> QED
    BY <1>1, <1>2, <1>3, <1>4, <2>1 DEF UnitOK, Copied, Late, Planned
<1>10. ASSUME NEW s \in Stateroot, s = target PROVE StoreOK(s)'
  <2>1. StoreOK(s) /\ Saved(s)' = Saved(s)
    BY <1>1, <1>2 DEF StoresOK, Saved
  <2>2. Applied(s, cr[s])' /\ Applied(s, file[s])'
    BY <1>1, <1>4, <1>10, <2>1 DEF StoreOK, Applied
  <2>3. (Needed(s) => Startable(s, Saved(s)))'
    <3> SUFFICES ASSUME NoDelete PROVE Startable(s, Saved(s))'
      BY <1>2
    <3>1. CASE Exists(file[s])
      <4>1. ~PrePivotable(Saved(s))
        BY <1>2, <1>10, <3>1, ExportedSaved DEF Saved, Copied, Late
      <4> QED
        BY <2>1, <4>1 DEF Startable
    <3>2. CASE ~Exists(file[s])
      <4>1. PrePivotable(Saved(s)) => Saved(s).net = s
        BY <1>3, <1>10, <3>2 DEF Saved, Carries, PrePivotable, Exists
      <4> QED
        BY <1>2, <1>4, <1>10, <2>1, <4>1 DEF Startable
    <3> QED
      BY <3>1, <3>2
  <2>4. ~ConfigDone(cr[s])
    BY <1>3, <1>10, <2>1 DEF Carries, StoreOK, CondOK, ConfigDone, ConfigOpen, Exists
  <2>5. ConfigDone(file[s]) => ~NoDelete
    BY <1>2, <1>10, ExportedSaved DEF Copied, Late
  <2> QED
    BY <1>1, <1>2, <1>3, <1>10, <2>1, <2>2, <2>3, <2>4, <2>5 DEF StoreOK
<1>11. ASSUME NEW s \in Stateroot, s # target PROVE StoreOK(s)'
  <2>1. StoreOK(s) /\ Saved(s)' = Saved(s) /\ disk'[s] = disk[s]
    BY <1>1, <1>2, <1>4, <1>11 DEF StoresOK, Saved
  <2>2. (Needed(s) => Startable(s, Saved(s)))'
    BY <1>1, <1>2, <1>5, <1>11, <2>1 DEF StoreOK, Startable
  <2>3. Applied(s, cr[s])' /\ Applied(s, file[s])'
    BY <1>1, <2>1 DEF StoreOK, Applied
  <2> QED
    BY <1>1, <1>2, <2>1, <2>2, <2>3 DEF StoreOK
<1>12. CurrentOK'
  BY <1>1, <1>2 DEF CurrentOK, IdleClean
<1> QED
  BY <1>2, <1>6, <1>7, <1>8, <1>9, <1>10, <1>11, <1>12 DEF Core, HostOK, StoresOK

\* Removing ipc.json from the new stateroot keeps the invariant: what is left
\* there is the CR of the Config.
LEMMA removeIPCFileCore ==
    ASSUME TypeInv, Core, removeIPCFileInNewStateroot PROVE Core'
<1>1. /\ UnitStep("installed", "ready") /\ UNCHANGED <<default, deployed, disk, cr>>
      /\ file' = [file EXCEPT ![target] = NoCR]
  BY DEF removeIPCFileInNewStateroot
<1>2. /\ unit = "installed" /\ unit' = "ready" /\ booted' = booted /\ target' = target /\ service' = service
      /\ ~running /\ ~running' /\ OperatorOK' /\ PlaceOK' /\ (NoDelete' <=> NoDelete)
      /\ HostOK /\ UnitOK /\ StoresOK
      /\ booted \in Stateroot /\ target \in Stateroot /\ target \notin {0, booted} /\ booted \in deployed
      /\ deployed \subseteq {booted, target} /\ Clean(booted) /\ Alive(booted) /\ ~IdleTrue(cr[booted])
      /\ ~up' /\ pc' = "idle"
      /\ \A s \in Stateroot : Needed(s) <=> NoDelete
      /\ \A s \in Stateroot : Needed(s)' <=> NoDelete
  BY <1>1, UnitStepFacts DEF UnitSteps
<1>3. /\ target \in deployed /\ SetDefaultFeature /\ default = target /\ disk[target].plan # 0
      /\ Carries(target, target)
  BY <1>2 DEF UnitOK, Late, Copied, Planned
<1>4. file'[target] = NoCR /\ \A s \in Stateroot : s # target => file'[s] = file[s]
  BY <1>1, <1>2 DEF TypeInv, TypeOK
<1>5. Steady
  BY <1>1, <1>2 DEF Steady, Alive
<1>6. SwitchOK'
  BY <1>1, <1>2, <1>3 DEF HostOK, SwitchOK, Switched
<1>7. HostOK'
  BY <1>2, <1>5, <1>6, SteadyFrame DEF HostOK
<1>8. UnitOK'
  <2>1. Clean(booted)' /\ (Carries(booted, target)' <=> Carries(booted, target))
        /\ (Carries(target, target)' <=> Carries(target, target))
    BY <1>1, <1>2 DEF Carries, Clean
  <2> QED
    BY <1>1, <1>2, <1>3, <1>4, <2>1, NoCROK DEF UnitOK, Copied, Late, Planned
<1>9. ASSUME NEW s \in Stateroot PROVE StoreOK(s)'
  <2>1. StoreOK(s)
    BY <1>2 DEF StoresOK
  <2>2. (Needed(s) => Startable(s, Saved(s)))'
    <3>1. CASE s = target
      <4>1. Saved(s)' = cr[s] /\ (PrePivotable(cr[s]) => cr[s].net = s)
        BY <1>1, <1>3, <1>4, <3>1, NoCROK DEF Saved, Carries, PrePivotable, Exists
      <4> QED
        BY <1>1, <1>3, <3>1, <4>1 DEF Startable
    <3>2. CASE s # target
      <4>1. Saved(s)' = Saved(s)
        BY <1>1, <1>4, <3>2 DEF Saved
      <4> QED
        BY <1>2, <1>5, <2>1, <4>1, SteadyFrame DEF StoreOK
    <3> QED
      BY <3>1, <3>2
  <2>3. Applied(s, cr[s])' /\ Applied(s, file[s])'
    BY <1>1, <1>4, <2>1, NoCROK DEF StoreOK, Applied
  <2> QED
    BY <1>1, <1>2, <1>4, <2>1, <2>2, <2>3, NoCROK DEF StoreOK
<1>10. CurrentOK'
  BY <1>1, <1>2 DEF CurrentOK, IdleClean
<1> QED
  BY <1>2, <1>7, <1>8, <1>9, <1>10 DEF Core, StoresOK

\* A pre-pivot unit that fails at any step keeps the invariant.
LEMMA UnitFailsCore ==
    ASSUME TypeInv, Core, UnitFails PROVE Core'
<1>1. /\ UNCHANGED <<booted, default, deployed, cr, file, running, service, up, pc, ipc, deleted>>
      /\ unit \in UnitSteps /\ unit' = "none" /\ target' = 0
      /\ disk' = [disk EXCEPT ![booted].kubelet = TRUE]
      /\ (UnitBlocked /\ UNCHANGED faults) \/ Fault
  BY DEF UnitFails, storeVars, opVars, envVars
<1>2. unit \notin {"none", "inputs"}
  BY <1>1 DEF UnitSteps
<1>3. /\ HostOK /\ UnitOK /\ StoresOK /\ booted \in Stateroot /\ booted \in deployed /\ Alive(booted)
      /\ ~up /\ pc = "idle" /\ ipc = NoCR /\ deleted = NoCR /\ ~running
  BY <1>2, UnitBusy DEF Core, TypeInv, TypeOK, BootableHost
<1>4. (NoDelete /\ NoDelete') \/ (~SetDefaultFeature /\ (NoDelete' <=> NoDelete))
  <2>1. CASE Fault
    BY <2>1, FaultFacts
  <2>2. CASE UnitBlocked /\ UNCHANGED faults
    BY <1>1, <1>3, <2>2 DEF UnitBlocked, UnitOK, NoDelete
  <2> QED
    BY <1>1, <2>1, <2>2
<1>5. \A s \in Stateroot :
          /\ s # booted => disk'[s] = disk[s]
          /\ disk'[s].plan = disk[s].plan /\ disk'[s].done = disk[s].done /\ disk'[s].net = disk[s].net
          /\ disk'[s].cert = disk[s].cert /\ disk'[s].monitor = disk[s].monitor
          /\ s = booted => disk'[s].kubelet = TRUE
  BY <1>1, KubeletOff
<1>6. Steady
  BY <1>1, <1>3, <1>5 DEF Steady, Alive
<1>7. StoresOK'
  <2>1. \A s \in Stateroot : Needed(s)' => Needed(s)
    BY <1>1, <1>3, <1>4 DEF Needed
  <2>2. \A s \in Stateroot : ~(disk[s].plan # 0 /\ disk[s].done = {} /\ ConfigDone(file[s]))
    BY <1>2, <1>3, <1>4, UnitBusy DEF HostOK, DiskOK
  <2> QED
    BY <1>1, <1>3, <1>4, <1>6, <2>1, <2>2, StoresSteady
<1>8. SwitchOK'
  BY <1>1, <1>3, <1>5, <1>6, SwitchSteady DEF HostOK, SwitchOK, Switched
<1>9. HostOK' /\ UnitOK'
  BY <1>1, <1>3, <1>6, <1>8, SteadyFrame DEF HostOK, UnitOK
<1> QED
  BY <1>1, <1>3, <1>7, <1>9, DownCore DEF Core

-----------------------------------------------------------------------------
(* ip-configuration.service and the init monitor. *)

\* A step that touches no store and moves no deployment but the default.
LEMMA QuietCore ==
    ASSUME TypeInv, Core, Quiet, SwitchOK', UNCHANGED <<cr, file, up, pc, ipc, deleted>>,
           NoDelete' <=> NoDelete,
           default' = default \/ (isUnbootedStaterootAvailable /\ default' = UnbootedStateroot)
    PROVE  Core'
<1>1. /\ HostOK /\ UnitOK /\ StoresOK /\ OperatorOK /\ PlaceOK /\ (NoDelete' <=> NoDelete)
      /\ booted \in Stateroot /\ target \in Stateroot
      /\ UNCHANGED <<booted, deployed, running, unit, target>>
  BY DEF Core, NoDelete, TypeInv, TypeOK, Quiet
<1>2. HostOK' /\ StoresOK'
  BY <1>1, QuietFrame, StoresQuiet DEF HostOK
<1>3. OperatorOK'
  BY <1>1, QuietFrame DEF OperatorOK
<1>4. isUnbootedStaterootAvailable' <=> isUnbootedStaterootAvailable
  BY <1>1 DEF isUnbootedStaterootAvailable
<1>5. isUnbootedStaterootAvailable => UnbootedStateroot' = UnbootedStateroot
  <2>1. CASE default' = default
    BY <1>1, <2>1 DEF UnbootedStateroot
  <2>2. CASE isUnbootedStaterootAvailable /\ default' = UnbootedStateroot
    <3>1. UnbootedStateroot # booted
      BY <2>2, UnbootedTyped DEF TypeInv
    <3>2. UnbootedStateroot' = default'
      BY <1>1, <2>2, <3>1 DEF UnbootedStateroot
    <3> QED
      BY <2>2, <3>2
  <2> QED
    BY <2>1, <2>2
<1>6. PlaceOK'
  BY <1>1, <1>4, <1>5 DEF PlaceOK
<1>7. UnitOK'
  <2>1. unit # "none" => (Clean(booted)' <=> Clean(booted))
    BY <1>1, QuietFrame
  <2>2. (Carries(booted, target)' <=> Carries(booted, target)) /\ (Carries(target, target)' <=> Carries(target, target))
    BY <1>1 DEF Carries
  <2>3. default # booted => default' = default
    BY DEF UnbootedStateroot
  <2>4. /\ disk'[target].plan = disk[target].plan /\ disk'[target].done = disk[target].done
        /\ (disk'[target].kubelet <=> disk[target].kubelet) /\ (disk'[booted].kubelet <=> disk[booted].kubelet)
    BY <1>1 DEF Quiet
  <2> QED
    BY <1>1, <2>1, <2>2, <2>3, <2>4 DEF UnitOK, Copied, Late
<1> QED
  BY <1>2, <1>3, <1>6, <1>7 DEF Core

\* A new state of the init monitor changes nothing else on the disk.
LEMMA MonitorSet ==
    ASSUME TypeInv, NEW state, disk' = [disk EXCEPT ![booted].monitor = state]
    PROVE  \A s \in Stateroot :
               /\ s # booted => disk'[s] = disk[s]
               /\ disk'[s].plan = disk[s].plan /\ disk'[s].done = disk[s].done /\ disk'[s].net = disk[s].net
               /\ disk'[s].cert = disk[s].cert /\ (disk'[s].kubelet <=> disk[s].kubelet)
               /\ s = booted => disk'[s].monitor = state
<1>1. booted \in Stateroot /\ disk \in [Stateroot -> Disks] /\ disk[booted] \in Disks
  BY DEF TypeInv, TypeOK
<1> QED
  BY <1>1 DEF Disks

\* The steps by which the service or the init monitor starts a rollback keep the
\* invariant.
LEMMA InitiatorCore ==
    ASSUME TypeInv, Core, NEW who \in {"service", "monitor"}, NEW state, SetInitiator(who, state),
           UNCHANGED <<booted, deployed, storeVars, running, unit, target, opVars, envVars, faults>>,
           \/ default' = default /\ state # "switched"
           \/ /\ isUnbootedStaterootAvailable /\ default' = UnbootedStateroot /\ SetDefaultFeature
    PROVE  Core'
<1>1. /\ UNCHANGED <<cr, file, up, pc, ipc, deleted, faults>>
      /\ UNCHANGED <<booted, deployed, running, unit, target>>
      /\ booted \in Stateroot /\ default \in Stateroot
  BY DEF storeVars, opVars, envVars, TypeInv, TypeOK
<1>2. \A s \in Stateroot :
               /\ s # booted => disk'[s] = disk[s]
               /\ disk'[s].plan = disk[s].plan /\ disk'[s].done = disk[s].done /\ disk'[s].net = disk[s].net
               /\ disk'[s].cert = disk[s].cert /\ (disk'[s].kubelet <=> disk[s].kubelet)
  BY MonitorSet DEF SetInitiator
<1>3. /\ disk'[booted].monitor \in {disk[booted].monitor, state}
      /\ service' \in {service, state}
  BY <1>1, MonitorSet DEF SetInitiator
<1>4. Quiet
  BY <1>1, <1>2 DEF Quiet
<1>5. SwitchOK'
  <2>1. SwitchOK
    BY DEF Core, HostOK
  <2>2. \A s \in Stateroot : s # booted => disk'[s].monitor \in {"off", "armed"}
    BY <1>2, <2>1 DEF SwitchOK
  <2>3. CASE default' = default /\ state # "switched"
    <3>1. Switched' => Switched
      BY <1>1, <1>3, <2>3 DEF Switched
    <3>2. ~Alive(default)' <=> ~Alive(default)
      BY <1>1, <1>2, <2>3 DEF Alive
    <3> QED
      BY <1>1, <1>2, <2>1, <2>2, <2>3, <3>1, <3>2 DEF SwitchOK
  <2>4. CASE isUnbootedStaterootAvailable /\ default' = UnbootedStateroot /\ SetDefaultFeature
    <3>1. default' # booted
      BY <2>4, UnbootedTyped DEF TypeInv
    <3> QED
      BY <1>1, <2>2, <2>4, <3>1 DEF SwitchOK
  <2> QED
    BY <2>3, <2>4
<1> QED
  BY <1>1, <1>4, <1>5, QuietCore DEF NoDelete

\* InitiateRollback, by the service or by the init monitor, keeps the invariant.
LEMMA RollbackUnitsCore ==
    ASSUME TypeInv, Core, InitiateRollback("service") \/ InitiateRollback("monitor") \/ MonitorFire
    PROVE  Core'
<1>1. ASSUME NEW who \in {"service", "monitor"}, InitiateRollback(who) PROVE Core'
  <2>1. CASE RollbackSetDefault(who)
    BY <2>1, InitiatorCore DEF RollbackSetDefault
  <2>2. CASE RollbackReboot(who)
    BY <2>2, RollbackRebootCore
  <2>3. CASE RollbackError(who)
    <3> DEFINE state == IF who = "service" THEN "run" ELSE "off"
    <3>1. state # "switched"
      OBVIOUS
    <3>2. SetInitiator(who, state) /\ default' = default
          /\ UNCHANGED <<booted, deployed, storeVars, running, unit, target, opVars, envVars, faults>>
      BY <2>3 DEF RollbackError
    <3> HIDE DEF state
    <3> QED
      BY <3>1, <3>2, InitiatorCore
  <2> QED
    BY <1>1, <2>1, <2>2, <2>3 DEF InitiateRollback
<1>2. CASE MonitorFire
  BY <1>2, InitiatorCore DEF MonitorFire
<1> QED
  BY <1>1, <1>2

\* ip-configuration.service keeps the invariant: first the network, then recert,
\* and kubelet only after both (RunOnce).
LEMMA ServiceCore ==
    ASSUME TypeInv, Core, ServiceOK, IPConfigurationService, ~RunOnceSkips PROVE Core'
<1>0. /\ booted \in Stateroot /\ default \in Stateroot /\ booted \in deployed
      /\ disk \in [Stateroot -> Disks] /\ disk[booted] \in Disks
  BY DEF TypeInv, TypeOK, BootableHost
<1>1. ASSUME NEW from, NEW to, NEW d, ServiceStep(from, to, d)
      PROVE  /\ UNCHANGED <<booted, default, deployed, cr, file, unit, target, up, pc, ipc, deleted>>
             /\ service = from /\ service' = to /\ disk'[booted] = d
             /\ \A s \in Stateroot : s # booted => disk'[s] = disk[s]
  BY <1>0, <1>1 DEF ServiceStep, storeVars, opVars, envVars
<1>2. /\ HostOK /\ UnitOK /\ StoresOK /\ OperatorOK /\ PlaceOK /\ DiskOK(booted) /\ PairOK /\ SwitchOK
  BY <1>0 DEF Core, HostOK
<1>3. ASSUME UNCHANGED <<booted, default, deployed, cr, file, unit, target, up, pc, ipc, deleted, running>>,
             NoDelete' <=> NoDelete,
             NEW d, disk'[booted] = d, \A s \in Stateroot : s # booted => disk'[s] = disk[s],
             service' # "switched", d.monitor = disk[booted].monitor, d.plan = disk[booted].plan,
             d.done = disk[booted].done, d.net = disk[booted].net, d.cert = disk[booted].cert,
             d.kubelet <=> disk[booted].kubelet
      PROVE  Core'
  <2>1. Quiet
    BY <1>3 DEF Quiet
  <2>2. SwitchOK'
    BY <1>0, <1>2, <1>3 DEF SwitchOK, Switched, Alive
  <2> QED
    BY <1>3, <2>1, <2>2, QuietCore
\* The booted stateroot is in the middle of its change.
<1>4. ASSUME UNCHANGED <<booted, default, deployed, cr, file, unit, target, up, pc, ipc, deleted>>,
             NoDelete' <=> NoDelete,
             NEW d, disk'[booted] = d, \A s \in Stateroot : s # booted => disk'[s] = disk[s],
             service' # "switched", d.monitor = disk[booted].monitor, d.plan = disk[booted].plan,
             disk[booted].done \subseteq d.done, disk[booted].plan # 0, d.net = d.plan,
             "recert" \in d.done => d.cert = d.net, d.net = disk[booted].net \/ disk[booted].done = {},
             Alive(booted)' => d.done = RunOnceSteps, running => running'
      PROVE  Core'
  <2>1. ~Clean(booted) /\ unit = "none" /\ SetDefaultFeature
    BY <1>2, <1>4 DEF Clean, UnitOK, DiskOK
  <2>2. \A s \in Stateroot : s # booted => (Alive(s)' <=> Alive(s)) /\ (Clean(s)' <=> Clean(s))
    BY <1>4 DEF Alive, Clean
  <2>3. ASSUME NEW s \in Stateroot PROVE DiskOK(s)'
    <3>1. CASE s = booted
      <4>1. disk[booted].plan = booted
        BY <1>2, <1>4 DEF DiskOK
      <4>2. Alive(s)' => d.done = RunOnceSteps
        BY <1>4, <3>1
      <4> QED
        BY <1>0, <1>4, <2>1, <3>1, <4>1, <4>2 DEF DiskOK
    <3>2. CASE s # booted
      <4>1. DiskOK(s)
        BY <1>2 DEF HostOK
      <4> QED
        BY <1>4, <2>2, <3>2, <4>1 DEF DiskOK
    <3> QED
      BY <3>1, <3>2
  <2>4. PairOK'
    BY <1>0, <1>2, <1>4, <2>1, <2>2 DEF PairOK, TypeInv, TypeOK
  <2>5. SwitchOK'
    BY <1>2, <1>4, <2>1 DEF SwitchOK, Switched
  <2>6. \A x : ConfigDone(x) /\ x \in {cr[booted], file[booted]} => disk[booted].done # {}
    <3>1. StoreOK(booted)
      BY <1>0, <1>2 DEF StoresOK
    <3> QED
      BY <1>4, <2>1, <3>1 DEF StoreOK
  <2>7. \A s \in Stateroot : \A x : s = booted /\ Startable(s, x) => Startable(s, x)'
    BY <1>4, <2>1 DEF Startable, Clean
  <2>8. ASSUME NEW s \in Stateroot, s = booted PROVE StoreOK(s)'
    <3>1. StoreOK(s) /\ Saved(s)' = Saved(s)
      BY <1>2, <1>4 DEF StoresOK, Saved
    <3>2. Needed(s) /\ Startable(s, Saved(s))
      BY <2>1, <2>8, <3>1 DEF Needed, StoreOK
    <3>3. Startable(s, Saved(s))'
      BY <2>7, <2>8, <3>1, <3>2
    <3>4. Applied(s, cr[s])' /\ Applied(s, file[s])'
      BY <1>4, <2>6, <2>8, <3>1 DEF StoreOK, Applied
    <3> QED
      BY <1>0, <1>4, <2>8, <3>1, <3>3, <3>4 DEF StoreOK
  <2>9. ASSUME NEW s \in Stateroot, s # booted PROVE StoreOK(s)'
    <3>1. StoreOK(s) /\ Saved(s)' = Saved(s) /\ disk'[s] = disk[s]
      BY <1>2, <1>4, <2>9 DEF StoresOK, Saved
    <3>2. Needed(s)' => Needed(s)
      BY <1>4, <2>9 DEF Needed
    <3>3. (Needed(s) => Startable(s, Saved(s)))'
      BY <1>0, <1>4, <2>2, <2>9, <3>1, <3>2 DEF StoreOK, Startable
    <3>4. Applied(s, cr[s])' /\ Applied(s, file[s])'
      BY <1>4, <3>1 DEF StoreOK, Applied
    <3> QED
      BY <1>4, <2>9, <3>1, <3>3, <3>4 DEF StoreOK
  <2>10. ~IdleTrue(cr[booted]) /\ ~IdleTrue(ipc)
    BY <1>2, <2>1 DEF StoresOK, CurrentOK, OperatorOK, IdleClean
  <2>11. CurrentOK'
    <3>1. PICK s \in Stateroot : s = booted
      BY <1>0
    <3>2. Startable(s, cr[s]) => Startable(s, cr[s])'
      BY <1>4, <2>7, <3>1
    <3> QED
      BY <1>2, <1>4, <2>10, <3>1, <3>2 DEF CurrentOK, StoresOK, IdleClean
  <2>12. UnitOK'
    BY <1>4, <2>1 DEF UnitOK
  <2>13. PlaceOK'
    <3>1. (isUnbootedStaterootAvailable' <=> isUnbootedStaterootAvailable) /\ UnbootedStateroot' = UnbootedStateroot
      BY <1>4 DEF isUnbootedStaterootAvailable, UnbootedStateroot
    <3> QED
      BY <1>2, <1>4, <3>1 DEF PlaceOK
  <2>14. OperatorOK'
    <3>1. PICK s \in Stateroot : s = booted
      BY <1>0
    <3>2. Startable(s, ipc)' /\ Startable(s, deleted)'
      BY <1>2, <1>4, <2>7, <3>1 DEF OperatorOK
    <3>3. Applied(s, ipc)' /\ Applied(s, deleted)'
      <4>1. CASE running
        <5>1. disk[booted].done = RunOnceSteps
          BY <1>2, <1>4, <4>1, RunningFacts
        <5> QED
          BY <1>2, <1>4, <3>1, <5>1 DEF OperatorOK, Applied, RunOnceSteps
      <4>2. CASE ~running
        <5>1. ipc = NoCR /\ deleted = NoCR
          BY <1>2, <4>2 DEF OperatorOK
        <5> QED
          BY <1>4, <5>1, NoCROK DEF Applied
      <4> QED
        BY <4>1, <4>2
    <3> QED
      BY <1>2, <1>4, <2>10, <3>1, <3>2, <3>3 DEF OperatorOK, IdleClean
  <2> QED
    BY <2>3, <2>4, <2>5, <2>8, <2>9, <2>11, <2>12, <2>13, <2>14 DEF Core, HostOK, StoresOK
<1>5. ASSUME disk[booted].done # RunOnceSteps, disk[booted].plan # 0 PROVE ~Alive(booted) /\ ~running /\ ~disk[booted].kubelet
  BY <1>2, <1>5 DEF DiskOK, Alive
<1>6. ASSUME NEW from, NEW to, NEW d, ServiceStep(from, to, d), faults' = faults
      PROVE  NoDelete' <=> NoDelete
  BY <1>6 DEF NoDelete
<1>7. CASE applyNetworkConfiguration
  <2> DEFINE d == [disk[booted] EXCEPT !.net = disk[booted].plan]
  <2>1. /\ "network" \notin disk[booted].done /\ disk[booted].plan # 0 /\ ServiceStep("run", "configured", d)
        /\ running' = running /\ faults' = faults
    BY <1>7 DEF applyNetworkConfiguration
  <2>2. /\ d.net = disk[booted].plan /\ d.done = disk[booted].done /\ d.plan = disk[booted].plan
        /\ d.monitor = disk[booted].monitor /\ d.kubelet = disk[booted].kubelet /\ d.cert = disk[booted].cert
    BY <1>0 DEF Disks
  <2> HIDE DEF d
  <2>3. ~running /\ ~disk[booted].kubelet /\ unit = "none"
    BY <1>2, <1>5, <2>1 DEF UnitOK, Clean, RunOnceSteps
  <2>4. /\ UNCHANGED <<booted, default, deployed, cr, file, unit, target, up, pc, ipc, deleted>>
        /\ service' = "configured" /\ disk'[booted] = d /\ \A s \in Stateroot : s # booted => disk'[s] = disk[s]
    BY <1>1, <2>1
  <2>5. ~Alive(booted)'
    BY <2>1, <2>2, <2>3, <2>4 DEF Alive
  <2>6. /\ d.net = d.plan /\ ("recert" \in d.done => d.cert = d.net) /\ service' # "switched"
        /\ d.net = disk[booted].net \/ disk[booted].done = {}
    BY <1>2, <2>1, <2>2, <2>4 DEF DiskOK
  <2>7. (Alive(booted)' => d.done = RunOnceSteps) /\ (running => running') /\ (NoDelete' <=> NoDelete)
    BY <1>6, <2>1, <2>3, <2>5
  <2> QED
    BY <1>4, <2>1, <2>2, <2>4, <2>6, <2>7
<1>8. CASE runRecert
  <2> DEFINE d == [disk[booted] EXCEPT !.cert = disk[booted].plan]
  <2>1. /\ "network" \in disk[booted].done /\ "recert" \notin disk[booted].done /\ disk[booted].plan # 0
        /\ ServiceStep(service, "rewritten", d) /\ running' = running /\ faults' = faults
    BY <1>8 DEF runRecert, NetworkPast, ServiceOK
  <2>2. /\ d.net = disk[booted].net /\ d.done = disk[booted].done /\ d.plan = disk[booted].plan
        /\ d.cert = disk[booted].plan /\ d.monitor = disk[booted].monitor /\ d.kubelet = disk[booted].kubelet
    BY <1>0 DEF Disks
  <2> HIDE DEF d
  <2>3. disk[booted].net = disk[booted].plan
    BY <1>2, <2>1 DEF DiskOK
  <2>4. ~running /\ ~disk[booted].kubelet /\ unit = "none"
    BY <1>2, <1>5, <2>1 DEF UnitOK, Clean, RunOnceSteps
  <2>5. /\ UNCHANGED <<booted, default, deployed, cr, file, unit, target, up, pc, ipc, deleted>>
        /\ service' = "rewritten" /\ disk'[booted] = d /\ \A s \in Stateroot : s # booted => disk'[s] = disk[s]
    BY <1>1, <2>1
  <2>6. /\ d.net = d.plan /\ ("recert" \in d.done => d.cert = d.net) /\ service' # "switched"
    BY <2>2, <2>3, <2>5
  <2>7. ~Alive(booted)'
    BY <2>1, <2>2, <2>4, <2>5 DEF Alive
  <2>8. (running => running') /\ (NoDelete' <=> NoDelete)
    BY <1>6, <2>1
  <2> QED
    BY <1>4, <2>1, <2>2, <2>5, <2>6, <2>7, <2>8
<1>9. CASE MarkNetwork \/ MarkRecert
  <2>1. PICK m \in RunOnceSteps :
            /\ disk[booted].plan # 0 /\ running' = running /\ faults' = faults
            /\ \/ m = "network" /\ ServiceStep("configured", "run", [disk[booted] EXCEPT !.done = @ \cup {m}])
               \/ m = "recert" /\ ServiceStep("rewritten", "recerted", [disk[booted] EXCEPT !.done = @ \cup {m}])
    BY <1>9 DEF MarkNetwork, MarkRecert, RunOnceSteps
  <2> DEFINE d == [disk[booted] EXCEPT !.done = @ \cup {m}]
  <2>2. /\ d.net = disk[booted].net /\ d.done = disk[booted].done \cup {m} /\ d.plan = disk[booted].plan
        /\ d.cert = disk[booted].cert /\ d.monitor = disk[booted].monitor /\ d.kubelet = disk[booted].kubelet
    BY <1>0 DEF Disks
  <2>3. \/ m = "network" /\ ServiceStep("configured", "run", d)
        \/ m = "recert" /\ ServiceStep("rewritten", "recerted", d)
    BY <2>1
  <2> HIDE DEF d
  <2>4. /\ UNCHANGED <<booted, default, deployed, cr, file, unit, target, up, pc, ipc, deleted>>
        /\ service' \in {"run", "recerted"} /\ disk'[booted] = d
        /\ \A s \in Stateroot : s # booted => disk'[s] = disk[s]
        /\ m = "network" => service = "configured"
        /\ m = "recert" => service = "rewritten"
    BY <1>1, <2>3
  <2>5. m \in {"network", "recert"} /\ service \in Halfway /\ ~running
    BY <2>1, <2>4 DEF RunOnceSteps, Halfway, ServiceOK
  <2>6. disk[booted].net = disk[booted].plan /\ (m = "recert" => disk[booted].cert = disk[booted].net)
    BY <1>2, <2>4, <2>5 DEF ServiceOK, DiskOK
  <2>7. d.net = d.plan /\ ("recert" \in d.done => d.cert = d.net) /\ service' # "switched"
    BY <1>2, <2>2, <2>4, <2>5, <2>6 DEF DiskOK
  <2>8. ~disk[booted].kubelet \/ disk[booted].done = RunOnceSteps
    BY <1>5, <2>1
  <2>9. Alive(booted)' => d.done = RunOnceSteps
    <3>1. unit = "none"
      BY <1>2, <2>1 DEF UnitOK, Clean
    <3> QED
      BY <2>1, <2>2, <2>4, <2>5, <2>8, <3>1 DEF Alive
  <2>10. (running => running') /\ (NoDelete' <=> NoDelete) /\ disk[booted].done \subseteq d.done
    BY <1>6, <2>1, <2>2, <2>3
  <2> QED
    BY <1>4, <2>1, <2>2, <2>4, <2>7, <2>9, <2>10
<1>10. CASE enableAndStartKubelet
  <2> DEFINE d == [disk[booted] EXCEPT !.kubelet = TRUE]
  <2>1. RecertPast /\ ServiceStep(service, "started", d) /\ running' = TRUE /\ faults' = faults
    BY <1>10 DEF enableAndStartKubelet
  <2>2. /\ d.net = disk[booted].net /\ d.done = disk[booted].done /\ d.plan = disk[booted].plan
        /\ d.cert = disk[booted].cert /\ d.monitor = disk[booted].monitor /\ d.kubelet
    BY <1>0, <2>1 DEF Disks
  <2> HIDE DEF d
  <2>3. disk[booted].done = RunOnceSteps
    <3>1. CASE service = "recerted"
      BY <3>1 DEF ServiceOK
    <3>2. CASE service # "recerted"
      <4>1. "network" \in disk[booted].done /\ "recert" \in disk[booted].done
        BY <2>1, <3>2 DEF RecertPast, NetworkPast, ServiceOK
      <4> QED
        BY <1>0, <4>1 DEF Disks, RunOnceSteps
    <3> QED
      BY <3>1, <3>2
  <2>4. disk[booted].plan # 0 /\ disk[booted].net = disk[booted].plan /\ disk[booted].cert = disk[booted].net
    BY <1>2, <2>3 DEF DiskOK, RunOnceSteps
  <2>5. /\ UNCHANGED <<booted, default, deployed, cr, file, unit, target, up, pc, ipc, deleted>>
        /\ service' = "started" /\ disk'[booted] = d /\ \A s \in Stateroot : s # booted => disk'[s] = disk[s]
    BY <1>1, <2>1
  <2>6. d.net = d.plan /\ ("recert" \in d.done => d.cert = d.net) /\ service' # "switched"
    BY <2>2, <2>4, <2>5
  <2>7. (running => running') /\ (NoDelete' <=> NoDelete)
    BY <1>6, <2>1
  <2> QED
    BY <1>4, <2>2, <2>3, <2>4, <2>5, <2>6, <2>7
<1>11. CASE disableIPConfigurationService
  <2> DEFINE d == [disk[booted] EXCEPT !.service = FALSE]
  <2>1. ServiceStep("started", "run", d) /\ running' = running /\ faults' = faults
    BY <1>11 DEF disableIPConfigurationService
  <2>2. /\ d.net = disk[booted].net /\ d.done = disk[booted].done /\ d.plan = disk[booted].plan
        /\ d.cert = disk[booted].cert /\ d.monitor = disk[booted].monitor /\ (d.kubelet <=> disk[booted].kubelet)
    BY <1>0 DEF Disks
  <2> HIDE DEF d
  <2>3. /\ UNCHANGED <<booted, default, deployed, cr, file, unit, target, up, pc, ipc, deleted>>
        /\ service' = "run" /\ disk'[booted] = d /\ \A s \in Stateroot : s # booted => disk'[s] = disk[s]
    BY <1>1, <2>1
  <2> QED
    BY <1>3, <1>6, <2>1, <2>2, <2>3
<1>12. CASE PostPivotServiceFails
  <2>1. PICK to \in {"run", "rollback"} :
            /\ ServiceStep(service, to, disk[booted]) /\ running' = running
            /\ faults' = faults \/ Fault
    BY <1>12 DEF PostPivotServiceFails
  <2>2. NoDelete' <=> NoDelete
    BY <2>1, FaultFacts DEF NoDelete
  <2>3. /\ UNCHANGED <<booted, default, deployed, cr, file, unit, target, up, pc, ipc, deleted>>
        /\ service' = to /\ disk'[booted] = disk[booted]
        /\ \A s \in Stateroot : s # booted => disk'[s] = disk[s]
    BY <1>1, <2>1
  <2> QED
    BY <1>3, <2>1, <2>2, <2>3
<1> QED
  BY <1>7, <1>8, <1>9, <1>10, <1>11, <1>12 DEF IPConfigurationService

\* The operator and the user do not touch the service.
LEMMA OperatorFrame ==
    ASSUME Operator \/ User, ~scheduleIPConfigRollback PROVE service' = service
<1>1. CASE StatusSteps
  BY <1>1 DEF StatusSteps, UpdateIPCStatus, RefuseTransition, EnterConfig, validateConfigStart,
       PrePivotNothing, PrePivotWait, PrePivotFailed, DisableInitMonitorFailed, PostPivotWait,
       PostPivotComplete, EnterRollback, RollbackPrePivotFailed, RollbackPostPivotWait,
       RollbackPostPivotComplete, EnterIdle, IdleWait, unitVars
<1>2. CASE Operator /\ ~StatusSteps
  BY <1>2 DEF Operator, StatusSteps, handleConfig, PrePivot, PostPivot, handleRollback,
       handleIdle, Reconcile, HandleNothing, ReconcileFinal, InitIPConfig, InitIPConfigCreate,
       InitIPConfigRestore, InitIPConfigRemove, InitIPConfigFail, DeleteFunc,
       exportIPConfigForUncontrolledRollback, RunLcaCliIPConfigPrePivot, DisableInitMonitor,
       SaveIPConfigForRollback, handleManualCleanup, CleanupDone, CleanupFailed, unitVars
<1>3. CASE User
  BY <1>3 DEF User, SetSpec, AddManualCleanup, TriggerReconcile, EditCR, DeleteCR, unitVars
<1> QED
  BY <1>1, <1>2, <1>3

\* The operator and the user act only while the cluster runs.
LEMMA OperatorRuns ==
    ASSUME OperatorOK, Operator \/ User PROVE running
<1>1. pc # "idle" \/ up => running
  BY DEF OperatorOK
<1>2. InStage("Config", "config") \/ InStage("Rollback", "rollback") \/ InStage("Idle", "cleanup") => pc # "idle"
  BY DEF InStage, Handling
<1>3. CASE StatusSteps
  BY <1>1, <1>2, <1>3 DEF StatusSteps, RefuseTransition, EnterConfig, validateConfigStart,
       PrePivotNothing, PrePivotWait, PrePivotFailed, DisableInitMonitorFailed, PostPivotWait,
       PostPivotComplete, EnterRollback, RollbackPrePivotFailed, RollbackPostPivotWait,
       RollbackPostPivotComplete, EnterIdle, IdleWait, Handling, PrePivoting, PostPivoting, InConfig,
       InRollback, CleaningUp
<1>4. CASE Operator /\ ~StatusSteps
  BY <1>1, <1>2, <1>4 DEF Operator, StatusSteps, handleConfig, PrePivot, PostPivot, handleRollback,
       handleIdle, Reconcile, HandleNothing, ReconcileFinal, InitIPConfig, InitIPConfigCreate,
       InitIPConfigRestore, InitIPConfigRemove, InitIPConfigFail, InitIPConfigRequired, DeleteFunc,
       exportIPConfigForUncontrolledRollback, RunLcaCliIPConfigPrePivot, DisableInitMonitor,
       SaveIPConfigForRollback, scheduleIPConfigRollback, handleManualCleanup, CleanupDone,
       CleanupFailed, Handling, PrePivoting, PostPivoting, InConfig, InRollback, CleaningUp
<1>5. CASE User
  BY <1>5 DEF User, SetSpec, AddManualCleanup, TriggerReconcile, EditCR, DeleteCR
<1> QED
  BY <1>3, <1>4, <1>5

\* What is between a RunOnce step and its marker stays so until the service goes
\* on or the node boots anew: with the cluster down and no unit at work nothing
\* else touches the booted stateroot.
LEMMA ServiceOKNext ==
    ASSUME TypeInv, Core, ServiceOK, [Next]_vars, ~OperatorCrash, ~RunOnceSkips PROVE ServiceOK'
<1>0. booted \in Stateroot /\ disk \in [Stateroot -> Disks] /\ disk[booted] \in Disks
  BY DEF TypeInv, TypeOK
<1>1. ASSUME service' \notin Halfway, service' # "unconfigured" PROVE ServiceOK'
  BY <1>1 DEF ServiceOK, Halfway
<1>2. CASE UNCHANGED vars
  BY <1>2 DEF vars, ServiceOK
<1>3. \A s, d : BootInto(s, d) => service' = "run"
  BY DEF BootInto
<1>4. CASE NodeCrash \/ UnitReboot \/ scheduleIPConfigRollback \/ RollbackReboot("service") \/ RollbackReboot("monitor")
  <2>1. service' = "run"
    BY <1>3, <1>4 DEF NodeCrash, UnitReboot, scheduleIPConfigRollback, RollbackReboot, RebootInto
  <2> QED
    BY <1>1, <2>1 DEF Halfway
<1>5. CASE (Operator \/ User) /\ ~scheduleIPConfigRollback
  <2>1. running
    BY <1>5, OperatorRuns DEF Core
  <2>2. service' = service
    BY <1>5, OperatorFrame
  <2> QED
    BY <1>1, <2>1, <2>2 DEF ServiceOK
<1>6. CASE PrePivotUnit /\ ~UnitReboot
  <2>1. unit # "none" /\ service' = service
    BY <1>6 DEF PrePivotUnit, UnitRefuses, StopClusterServices, StopClusterServicesFails,
         deployNewStateroot, copyStateRootData, setDefaultDeploymentIfEnabled, writeNewStateroot,
         EnableClusterServices, installServices, removeIPCFileInNewStateroot, UnitFails,
         UnitStep, UnitSteps
  <2>2. disk[booted].plan = 0
    BY <2>1 DEF Core, UnitOK, Clean
  <2> QED
    BY <1>1, <2>1, <2>2 DEF ServiceOK
<1>7. ASSUME NEW who \in {"service", "monitor"}, NEW state, SetInitiator(who, state),
             UNCHANGED <<booted, running>>, state \notin Halfway, state # "unconfigured"
      PROVE  ServiceOK'
  <2>1. CASE who = "service"
    BY <1>1, <1>7, <2>1 DEF SetInitiator
  <2>2. CASE who = "monitor"
    BY <1>0, <1>7, <2>2, MonitorSet DEF SetInitiator, ServiceOK
  <2> QED
    BY <2>1, <2>2
<1>8. ASSUME NEW who \in {"service", "monitor"}, InitiateRollback(who) PROVE ServiceOK'
  <2>1. CASE RollbackSetDefault(who) \/ RollbackError(who)
    BY <1>7, <1>8, <2>1 DEF RollbackSetDefault, RollbackError, Halfway
  <2>2. CASE RollbackReboot(who)
    BY <1>4, <2>2
  <2> QED
    BY <1>8, <2>1, <2>2 DEF InitiateRollback
<1>9. CASE MonitorFire
  BY <1>7, <1>9 DEF MonitorFire, Halfway
<1>10. CASE IPConfigurationService
  <2>1. ASSUME NEW from, NEW to, NEW d, ServiceStep(from, to, d)
        PROVE  booted' = booted /\ service = from /\ service' = to /\ disk'[booted] = d
    BY <1>0, <2>1 DEF ServiceStep
  <2>2. ASSUME disk[booted].done # RunOnceSteps, disk[booted].plan # 0 PROVE ~running
    BY <1>0, <2>2 DEF Core, HostOK, DiskOK, Alive
  <2>3. CASE applyNetworkConfiguration
    <3> DEFINE d == [disk[booted] EXCEPT !.net = disk[booted].plan]
    <3>1. service' = "configured" /\ disk'[booted] = d /\ booted' = booted /\ running' = running
      BY <2>1, <2>3 DEF applyNetworkConfiguration
    <3>2. d.net = disk[booted].plan /\ d.plan = disk[booted].plan
      BY <1>0 DEF Disks
    <3>3. ~running /\ disk[booted].plan # 0
      BY <2>2, <2>3 DEF applyNetworkConfiguration, RunOnceSteps
    <3> HIDE DEF d
    <3> QED
      BY <3>1, <3>2, <3>3 DEF ServiceOK
  <2>4. CASE runRecert
    <3> DEFINE d == [disk[booted] EXCEPT !.cert = disk[booted].plan]
    <3>1. service' = "rewritten" /\ disk'[booted] = d /\ booted' = booted /\ running' = running
      BY <2>1, <2>4 DEF runRecert
    <3>2. d.cert = disk[booted].plan /\ d.plan = disk[booted].plan /\ d.done = disk[booted].done
      BY <1>0 DEF Disks
    <3>3. ~running /\ disk[booted].plan # 0 /\ "network" \in disk[booted].done
      BY <2>2, <2>4 DEF runRecert, NetworkPast, ServiceOK, RunOnceSteps
    <3> HIDE DEF d
    <3> QED
      BY <3>1, <3>2, <3>3 DEF ServiceOK
  <2>5. CASE MarkRecert
    <3> DEFINE d == [disk[booted] EXCEPT !.done = @ \cup {"recert"}]
    <3>1. /\ service = "rewritten" /\ service' = "recerted" /\ disk'[booted] = d /\ booted' = booted
          /\ running' = running
      BY <2>1, <2>5 DEF MarkRecert
    <3>2. d.plan = disk[booted].plan /\ d.done = disk[booted].done \cup {"recert"}
      BY <1>0 DEF Disks
    <3>3. ~running /\ disk[booted].plan # 0 /\ "network" \in disk[booted].done
      BY <3>1 DEF ServiceOK, Halfway
    <3>4. d.done = RunOnceSteps
      BY <1>0, <3>2, <3>3 DEF Disks, RunOnceSteps
    <3> HIDE DEF d
    <3> QED
      BY <3>1, <3>2, <3>3, <3>4 DEF ServiceOK
  <2>6. CASE MarkNetwork \/ enableAndStartKubelet \/ disableIPConfigurationService \/ PostPivotServiceFails
    <3>1. service' \in {"run", "started", "rollback"}
      BY <2>1, <2>6 DEF MarkNetwork, enableAndStartKubelet, disableIPConfigurationService, PostPivotServiceFails
    <3> QED
      BY <1>1, <3>1 DEF Halfway
  <2> QED
    BY <1>10, <2>3, <2>4, <2>5, <2>6 DEF IPConfigurationService
<1> QED
  BY <1>2, <1>4, <1>5, <1>6, <1>8, <1>9, <1>10 DEF Next, HostUnits

-----------------------------------------------------------------------------
(* The theorems. *)

\* The only steps that touch the counters of the faults.
LEMMA FaultSteps ==
    ASSUME [Next]_vars PROVE faults' = faults \/ Fault \/ DeleteCR \/ OperatorCrash \/ RunOnceSkips
<1>1. CASE StatusSteps
  BY <1>1 DEF StatusSteps, UpdateIPCStatus, RefuseTransition, EnterConfig, validateConfigStart,
       PrePivotNothing, PrePivotWait, PrePivotFailed, DisableInitMonitorFailed, PostPivotWait,
       PostPivotComplete, EnterRollback, RollbackPrePivotFailed, RollbackPostPivotWait,
       RollbackPostPivotComplete, EnterIdle, IdleWait
<1>2. CASE Reconcile \/ HandleNothing \/ ReconcileFinal \/ InitIPConfig \/ DeleteFunc
           \/ exportIPConfigForUncontrolledRollback \/ RunLcaCliIPConfigPrePivot \/ DisableInitMonitor
  BY <1>2 DEF Reconcile, HandleNothing, ReconcileFinal, InitIPConfig, InitIPConfigCreate,
       InitIPConfigRestore, InitIPConfigRemove, InitIPConfigFail, DeleteFunc,
       exportIPConfigForUncontrolledRollback, RunLcaCliIPConfigPrePivot, DisableInitMonitor
<1>3. CASE SaveIPConfigForRollback \/ scheduleIPConfigRollback \/ handleManualCleanup \/ CleanupDone \/ CleanupFailed
  BY <1>3 DEF SaveIPConfigForRollback, scheduleIPConfigRollback, handleManualCleanup, CleanupDone,
       CleanupFailed, CleanupUpdate
<1>4. CASE PrePivotUnit
  BY <1>4 DEF PrePivotUnit, UnitRefuses, StopClusterServices, StopClusterServicesFails,
       deployNewStateroot, copyStateRootData, setDefaultDeploymentIfEnabled, writeNewStateroot,
       EnableClusterServices, installServices, removeIPCFileInNewStateroot, UnitReboot, UnitFails,
       UnitStep
<1>5. CASE IPConfigurationService \/ InitiateRollback("service") \/ InitiateRollback("monitor") \/ MonitorFire
  BY <1>5 DEF IPConfigurationService, applyNetworkConfiguration, runRecert, MarkNetwork, MarkRecert,
       enableAndStartKubelet, disableIPConfigurationService, PostPivotServiceFails, ServiceStep, InitiateRollback,
       RollbackSetDefault, RollbackReboot, RollbackError, MonitorFire
<1>6. CASE User \/ OperatorCrash \/ NodeCrash
  BY <1>6 DEF User, SetSpec, AddManualCleanup, TriggerReconcile, EditCR, NodeCrash
<1>7. CASE UNCHANGED vars
  BY <1>7 DEF vars
<1>8. Operator => \/ StatusSteps \/ Reconcile \/ HandleNothing \/ ReconcileFinal \/ InitIPConfig \/ DeleteFunc
                  \/ exportIPConfigForUncontrolledRollback \/ RunLcaCliIPConfigPrePivot \/ DisableInitMonitor
                  \/ SaveIPConfigForRollback \/ scheduleIPConfigRollback \/ handleManualCleanup
                  \/ CleanupDone \/ CleanupFailed
  BY DEF Operator, StatusSteps, handleConfig, PrePivot, PostPivot, handleRollback, handleIdle
<1> QED
  BY <1>1, <1>2, <1>3, <1>4, <1>5, <1>6, <1>7, <1>8 DEF Next, HostUnits

\* Only a crash of the operator or a failing stat of a marker ends what is
\* tolerated, and nothing brings it back.
LEMMA ToleratedStep ==
    ASSUME TypeInv, [Next]_vars, Tolerated' PROVE Tolerated /\ ~OperatorCrash /\ ~RunOnceSkips
<1>1. faults \in [FaultKinds -> 0 .. MaxFaults] /\ "operator" \in FaultKinds /\ "stat" \in FaultKinds
  BY DEF TypeInv, TypeOK, FaultKinds
<1>2. ~OperatorCrash /\ ~RunOnceSkips
  BY <1>1 DEF OperatorCrash, RunOnceSkips, Tolerated
<1>3. CASE faults' = faults
  BY <1>2, <1>3 DEF Tolerated
<1>4. CASE Fault
  BY <1>2, <1>4, FaultFacts DEF Tolerated
<1>5. CASE DeleteCR
  BY <1>1, <1>2, <1>5 DEF DeleteCR, Tolerated
<1> QED
  BY <1>2, <1>3, <1>4, <1>5, FaultSteps

\* Every step but a crash of the operator and a failing stat keeps the invariant.
LEMMA CoreNext ==
    ASSUME TypeInv, Core, ServiceOK, [Next]_vars, ~OperatorCrash, ~RunOnceSkips PROVE Core'
<1>1. CASE UNCHANGED vars
  BY <1>1 DEF vars, Core, HostOK, DiskOK, PairOK, SwitchOK, Switched, Alive, Clean, UnitOK, Carries,
       NoDelete, Copied, Late, Planned, StoresOK, StoreOK, CurrentOK, Needed, Saved, Startable,
       Applied, IdleClean, OperatorOK, PlaceOK, isUnbootedStaterootAvailable, UnbootedStateroot
<1>2. CASE Operator
  <2>1. CASE StatusSteps
    BY <2>1, StatusStepsCore
  <2>2. CASE CleanupDone \/ CleanupFailed
    BY <2>2, CleanupCore
  <2> QED
    BY <1>2, <2>1, <2>2, ReconcileCore, HandleNothingCore, ReconcileFinalCore, InitIPConfigCore,
         DeleteFuncCore, exportCore, RunLcaCliIPConfigPrePivotCore, DisableInitMonitorCore,
         SaveIPConfigForRollbackCore, scheduleIPConfigRollbackCore,
         handleManualCleanupCore DEF Operator, StatusSteps, handleConfig, PrePivot, PostPivot,
         handleRollback, handleIdle
<1>3. CASE PrePivotUnit
  BY <1>3, UnitRefusesCore, StopClusterServicesCore, StopClusterServicesFailsCore,
       deployNewStaterootCore, copyStateRootDataCore, UnitSteadyCore, writeNewStaterootCore,
       removeIPCFileCore, UnitRebootCore, UnitFailsCore DEF PrePivotUnit
<1>4. CASE IPConfigurationService \/ InitiateRollback("service") \/ InitiateRollback("monitor") \/ MonitorFire
  BY <1>4, ServiceCore, RollbackUnitsCore
<1>5. CASE User \/ NodeCrash
  BY <1>5, UserCore, NodeCrashCore
<1> QED
  BY <1>1, <1>2, <1>3, <1>4, <1>5 DEF Next, HostUnits

\* The inductive invariant of an IP change: well typed and bootable at all times
\* and, until the operator's pod dies or a marker cannot be read, what the
\* stateroots, the units, the CRs and the memory of the reconcile say of each
\* other.
THEOREM Invariance == Spec => []IPCInv
<1>1. Init => IPCInv
  <2>1. Init => ServiceOK
    BY DEF Init, ServiceOK, Halfway
  <2> QED
    BY <2>1, TypeInvInit, CoreInit DEF IPCInv
<1>2. IPCInv /\ [Next]_vars => IPCInv'
  BY TypeInvNext, ToleratedStep, CoreNext, ServiceOKNext DEF IPCInv
<1> QED
  BY <1>1, <1>2, PTL DEF Spec

\* The cluster never runs on a network that recert has not rewritten it for, for
\* every number of networks, edits and faults, a crash between a RunOnce step and
\* its marker included (StopClusterServices, RunOnce, enableAndStartKubelet); what
\* Tolerated leaves out is the failing stat that makes RunOnce skip a step.
THEOREM MatchesNetwork == Spec => []ClusterMatchesNetwork
<1>1. IPCInv => ClusterMatchesNetwork
  BY RunningFacts DEF IPCInv, Core, ClusterMatchesNetwork
<1> QED
  BY <1>1, Invariance, PTL

\* What the CR reports is true of the node: a completed Config has the network
\* of the spec, and Idle means that nothing of a change is left on the host
\* (PrePivot, PostPivot, InitIPConfig, the Idle handler).
THEOREM StatusIsTrue == Spec => []StatusTrue
<1>1. IPCInv => StatusTrue
  <2> SUFFICES ASSUME TypeInv, Core, Tolerated PROVE CompletedApplied /\ IdleIsClean
    BY DEF IPCInv, StatusTrue, CompletedApplied, IdleIsClean
  <2>1. booted \in Stateroot /\ cr[booted] \in CRs
    BY DEF TypeInv, TypeOK
  <2>2. CompletedApplied
    BY <2>1, ReadConditions DEF CompletedApplied, Current, Core, StoresOK, StoreOK, Applied, ConfigDone
  <2>3. IdleIsClean
    BY <2>1, ReadConditions DEF IdleIsClean, Current, Core, StoresOK, CurrentOK, IdleClean, Clean
  <2> QED
    BY <2>2, <2>3
<1> QED
  BY <1>1, Invariance, PTL

\* The old stateroot never takes up again a Config whose new stateroot has run,
\* however the node came back to it (exportIPConfigForUncontrolledRollback,
\* InitiateRollback, InitIPConfig).
THEOREM ConfigDoesNotLoop == Spec => []NoConfigLoop
<1>1. IPCInv => NoConfigLoop
  <2> SUFFICES ASSUME TypeInv, Core, up, Configuring, Current.stage = "Config"
               PROVE  disk[Current.net].done = {} \/ Current.net = booted
    BY DEF IPCInv, NoConfigLoop
  <2>1. booted \in Stateroot /\ cr[booted] \in CRs /\ cr[booted].net \in Stateroot
    BY DEF TypeInv, TypeOK, CRs
  <2>2. ConfigRuns(cr[booted]) /\ cr[booted].stage = "Config"
    BY <2>1, ReadConditions DEF Configuring, Current
  <2>3. PrePivotable(cr[booted])
    BY <2>1, <2>2 DEF Core, StoresOK, StoreOK, CondOK, PrePivotable
  <2>4. Startable(booted, cr[booted]) /\ Alive(booted)
    BY DEF Core, StoresOK, CurrentOK, OperatorOK, Alive
  <2>5. CASE cr[booted].net = booted
    BY <2>5 DEF Current
  <2>6. CASE deployed = {booted} /\ cr[booted].net # booted
    BY <2>1, <2>6 DEF Core, HostOK, DiskOK, EmptyDisk, Current
  <2> QED
    BY <2>3, <2>4, <2>5, <2>6 DEF Startable
<1> QED
  BY <1>1, Invariance, PTL

\* A step of a saved rollback that takes the operator down and is no fault boots
\* the stateroot that the CR was saved in, and the CR still says so there.
LEMMA RollbackCarriedStep ==
    ASSUME TypeInv, Core, [Next]_vars, ~OperatorCrash, pc = "rollbackSaved", ~up', faults' = faults
    PROVE  /\ booted' # booted
           /\ file'[booted'].stage = "Rollback"
           /\ IsIPStageInProgress(file'[booted'].conds, "Rollback")
<1>1. /\ unit = "none" /\ up /\ running /\ isUnbootedStaterootAvailable
      /\ HostOK /\ SwitchOK
  BY UnitIdle DEF Core, PlaceOK, HostOK
<1>2. /\ UnbootedStateroot \in Stateroot /\ UnbootedStateroot # booted
      /\ file \in [Stateroot -> CRs] /\ file[UnbootedStateroot] \in CRs
      /\ file[UnbootedStateroot].stage = "Rollback" /\ RollbackRuns(file[UnbootedStateroot])
  BY <1>1, UnbootedTyped DEF Core, PlaceOK, TypeInv, TypeOK
<1>3. CASE scheduleIPConfigRollback
  <2>1. booted' = UnbootedStateroot
    <3>1. booted' = IF SetDefaultFeature THEN UnbootedStateroot ELSE default
      BY <1>3 DEF scheduleIPConfigRollback, RebootInto, BootInto
    <3>2. CASE ~SetDefaultFeature
      <4>1. default # booted
        BY <1>1, <3>2 DEF SwitchOK, isUnbootedStaterootAvailable, Alive
      <4> QED
        BY <3>1, <3>2, <4>1 DEF UnbootedStateroot
    <3> QED
      BY <3>1, <3>2
  <2>2. file' = file
    BY <1>3 DEF scheduleIPConfigRollback, storeVars
  <2> QED
    BY <1>2, <2>1, <2>2, ReadConditions
<1>4. ASSUME NEW who \in {"service", "monitor"}, RollbackReboot(who)
      PROVE  /\ booted' # booted
             /\ file'[booted'].stage = "Rollback"
             /\ IsIPStageInProgress(file'[booted'].conds, "Rollback")
  <2> DEFINE old == UnbootedStateroot
             c == SetIPStatusEnded(file[old].conds, "Config", "Failed")
             y == [file[old] EXCEPT !.conds = c]
  <2>1. Initiator(who) = "switched" /\ booted' = default /\ file' = [file EXCEPT ![old] = y]
    BY <1>4 DEF RollbackReboot, RebootInto, BootInto
  <2>2. Switched
    BY <2>1 DEF Initiator, Switched
  <2>3. default # booted /\ old = default
    BY <1>1, <2>2 DEF SwitchOK, isUnbootedStaterootAvailable, UnbootedStateroot
  <2> HIDE DEF old
  <2>4. file[old] \in CRs /\ file[old].conds \in IPConditions /\ file[old].stage = "Rollback"
        /\ file[old].conds["RollbackInProgress"] = "InProgress" /\ old \in Stateroot
    BY <1>2 DEF CRs, old, RollbackRuns
  <2>5. c \in IPConditions
    BY <2>4, ConditionsTyped DEF IPStages
  <2>6. c["RollbackInProgress"] = "InProgress"
    BY <2>4, ConditionValues, TypeNames
  <2> HIDE DEF c
  <2>7. y \in CRs /\ y.conds = c /\ y.stage = "Rollback"
    BY <2>4, <2>5, ExceptConds
  <2> HIDE DEF y
  <2>8. file'[booted'] = y
    BY <1>2, <2>1, <2>3, <2>4
  <2> QED
    BY <2>1, <2>3, <2>6, <2>7, <2>8, ReadConditions DEF RollbackRuns
<1>5. UnitReboot \/ StopClusterServices \/ StopClusterServicesFails => FALSE
  BY <1>1 DEF UnitReboot, StopClusterServices, StopClusterServicesFails
<1>6. Fault => FALSE
  <2>1. faults \in [FaultKinds -> 0 .. MaxFaults] /\ "other" \in FaultKinds
    BY DEF TypeInv, TypeOK, FaultKinds
  <2> QED
    BY <2>1 DEF Fault
<1>7. \/ up' = up \/ up' \/ Fault \/ OperatorCrash \/ UnitReboot \/ StopClusterServices \/ StopClusterServicesFails
      \/ scheduleIPConfigRollback \/ RollbackReboot("service") \/ RollbackReboot("monitor")
  <2>1. CASE Operator
    <3>1. CASE StatusSteps
      BY <3>1 DEF StatusSteps, UpdateIPCStatus, RefuseTransition, EnterConfig, validateConfigStart,
         PrePivotNothing, PrePivotWait, PrePivotFailed, DisableInitMonitorFailed, PostPivotWait,
         PostPivotComplete, EnterRollback, RollbackPrePivotFailed, RollbackPostPivotWait,
         RollbackPostPivotComplete, EnterIdle, IdleWait
    <3>2. CASE ~StatusSteps
      BY <2>1, <3>2 DEF Operator, StatusSteps, handleConfig, PrePivot, PostPivot, handleRollback,
           handleIdle, Reconcile, HandleNothing, ReconcileFinal, InitIPConfig, InitIPConfigCreate,
           InitIPConfigRestore, InitIPConfigRemove, InitIPConfigFail, DeleteFunc,
           exportIPConfigForUncontrolledRollback, RunLcaCliIPConfigPrePivot, DisableInitMonitor,
           SaveIPConfigForRollback, handleManualCleanup, CleanupDone, CleanupFailed, CleanupUpdate,
           opVars
    <3> QED
      BY <3>1, <3>2
  <2>2. CASE PrePivotUnit
    BY <2>2 DEF PrePivotUnit, UnitRefuses, deployNewStateroot, copyStateRootData,
         setDefaultDeploymentIfEnabled, writeNewStateroot, EnableClusterServices, installServices,
         removeIPCFileInNewStateroot, UnitFails, UnitStep, opVars
  <2>3. CASE IPConfigurationService \/ InitiateRollback("service") \/ InitiateRollback("monitor") \/ MonitorFire
    BY <2>3 DEF IPConfigurationService, applyNetworkConfiguration, runRecert, MarkNetwork, MarkRecert,
         RunOnceSkips, enableAndStartKubelet, disableIPConfigurationService, PostPivotServiceFails, ServiceStep, InitiateRollback,
         RollbackSetDefault, RollbackError, MonitorFire, opVars
  <2>4. CASE User
    BY <2>4 DEF User, SetSpec, AddManualCleanup, TriggerReconcile, EditCR, DeleteCR
  <2>5. CASE NodeCrash \/ UNCHANGED vars
    BY <2>5 DEF NodeCrash, vars
  <2> QED
    BY <2>1, <2>2, <2>3, <2>4, <2>5 DEF Next, HostUnits
<1> QED
  BY <1>1, <1>3, <1>4, <1>5, <1>6, <1>7

\* A rollback that the user asked for lands in another stateroot that knows of
\* it, whatever the init monitor does meanwhile, as long as the operator's pod
\* does not die (PrePivot of the rollback, RollbackReboot).
THEOREM RollbackIsCarried == Spec /\ []Tolerated => RollbackCarried
<1> DEFINE Lands == pc = "rollbackSaved" /\ ~up' /\ faults' = faults
                        => /\ booted' # booted
                           /\ file'[booted'].stage = "Rollback"
                           /\ IsIPStageInProgress(file'[booted'].conds, "Rollback")
<1>1. IPCInv /\ Tolerated /\ Tolerated' /\ [Next]_vars => [Lands]_vars
  BY RollbackCarriedStep, ToleratedStep DEF IPCInv
<1>2. [][Lands]_vars => RollbackCarried
  BY PTL DEF RollbackCarried
<1> QED
  BY <1>1, <1>2, Invariance, PTL DEF Spec
=============================================================================
