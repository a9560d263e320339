------------------------------ MODULE IBU_proofs ------------------------------
(***************************************************************************)
(* Proofs about IBU for every number of versions, edits and faults: type   *)
(* correctness and that the host can always boot, with and without the     *)
(* set-default feature; then, that the CR and the host agree on an upgrade *)
(* through every interleaving, pivot, crash and restored CR.               *)
(*                                                                         *)
(* The invariant Inv of the second part is inductive under Supported and   *)
(* MonitorRetired.  Its parts are about what is in a CR (Sound, Saved),    *)
(* what the host holds while a CR is in some stage (Fits), what a handler  *)
(* that is between two of its steps relies on (MemInv, PivotInv), and what *)
(* each stateroot remembers of an upgrade that has left it (RememberInv,   *)
(* NewInv, LoopInv).                                                       *)
(***************************************************************************)
EXTENDS IBU, IBUFlow, TLAPS

-----------------------------------------------------------------------------
(* The stage machine stays within its conditions. *)

\* The condition types that a stage reports through are condition types.
LEMMA StageConditionTypes ==
    ASSUME NEW stage \in Stages
    PROVE  /\ GetInProgressConditionType(stage) \in ConditionTypes
           /\ GetCompletedConditionType(stage) \in ConditionTypes
  BY DEF Stages, GetInProgressConditionType, GetCompletedConditionType,
         ConditionTypes, InProgressTypes, CompletedTypes

\* Writing one condition.
LEMMA SetConditionType ==
    ASSUME NEW c \in Conditions, NEW t \in ConditionTypes,
           NEW reason \in ConditionReasons
    PROVE  SetCondition(c, t, reason) \in Conditions
  BY DEF SetCondition, Conditions

\* The setters of a stage's conditions.
LEMMA SetStatusType ==
    ASSUME NEW c \in Conditions, NEW stage \in Stages
    PROVE  /\ SetStatusFailed(c, stage) \in Conditions
           /\ SetStatusCompleted(c, stage) \in Conditions
           /\ SetStatusInProgress(c, stage) \in Conditions
           /\ SetStatusInvalidTransition(c, stage) \in Conditions
  <1>1. {"Failed", "Completed", "InProgress", "InvalidTransition"} \subseteq ConditionReasons
    BY DEF ConditionReasons
  <1>2. /\ SetStatusFailed(c, stage) \in Conditions
        /\ SetStatusCompleted(c, stage) \in Conditions
    BY <1>1, StageConditionTypes DEF SetStatusFailed, SetStatusCompleted, Conditions
  <1>3. /\ SetStatusInProgress(c, stage) \in Conditions
        /\ SetStatusInvalidTransition(c, stage) \in Conditions
    BY <1>1, StageConditionTypes, SetConditionType
       DEF SetStatusInProgress, SetStatusInvalidTransition
  <1> QED BY <1>2, <1>3

\* Refused transitions are forgotten within the known reasons.
LEMMA ClearInvalidTransitionType ==
    ASSUME NEW c \in Conditions
    PROVE  ClearInvalidTransitionStatusConditions(c) \in Conditions
  <1>1. {"None", "InProgress"} \subseteq ConditionReasons
    BY DEF ConditionReasons
  <1> QED BY <1>1 DEF ClearInvalidTransitionStatusConditions, Conditions

\* The conditions of a CR that was just created, and of one that is reset.
LEMMA ResetType ==
    /\ NoConditions \in Conditions
    /\ \A c : ResetStatusConditions(c) \in Conditions
  <1>1. {"None", "Idle"} \subseteq ConditionReasons
    BY DEF ConditionReasons
  <1>2. NoConditions \in Conditions
    BY <1>1 DEF NoConditions, Conditions
  <1>3. "Idle" \in ConditionTypes
    BY DEF ConditionTypes
  <1> QED BY <1>1, <1>2, <1>3 DEF ResetStatusConditions, Conditions

\* The conditions of a requested transition, permitted or refused.
LEMMA ValidateStageTransitionType ==
    ASSUME NEW c \in Conditions, NEW stage \in Stages, NEW after \in BOOLEAN
    PROVE  validateStageTransition(c, stage, after) \in Conditions
  <1> DEFINE cleared == ClearInvalidTransitionStatusConditions(c)
  <1>1. cleared \in Conditions
    BY ClearInvalidTransitionType
  <1>2. /\ "Idle" \in ConditionTypes
        /\ {"InProgress", "Finalizing", "Aborting"} \subseteq ConditionReasons
    BY DEF ConditionTypes, ConditionReasons
  <1>3. {"Prep", "Upgrade", "Rollback"} \subseteq Stages
    BY DEF Stages
  <1>4. enterIdle(cleared, after) \in Conditions
    <2>1. isFinalizeOrAbort(cleared, after) \in {"Finalizing", "Aborting", "None"}
      BY DEF isFinalizeOrAbort
    <2> HIDE DEF cleared
    <2> QED BY <1>1, <1>2, <2>1, SetConditionType, ResetType DEF enterIdle
  <1>5. /\ SetStatusInvalidTransition(c, stage) \in Conditions
        /\ SetStatusInProgress(SetCondition(cleared, "Idle", "InProgress"), "Prep") \in Conditions
        /\ SetStatusInProgress(cleared, "Upgrade") \in Conditions
        /\ SetStatusInProgress(SetStatusFailed(cleared, "Upgrade"), "Rollback") \in Conditions
    BY <1>1, <1>2, <1>3, SetStatusType, SetConditionType
  <1> QED BY <1>4, <1>5 DEF validateStageTransition

\* The stages that are offered next are stages.
LEMMA ValidNextStageListType ==
    ASSUME NEW c, NEW stage \in Stages, NEW after
    PROVE  getValidNextStageList(c, stage, after) \in SUBSET Stages
  BY DEF getValidNextStageList, Stages

-----------------------------------------------------------------------------
(* The CRs that the controller builds are CRs. *)

\* The absent and the initial CR.
LEMMA InitialCRType == NoCR \in CRs /\ InitialCR \in CRs
  BY ResetType DEF NoCR, InitialCR, CRs, Stages

\* New conditions in a CR.
LEMMA CondsType ==
    ASSUME NEW x \in CRs, NEW c \in Conditions
    PROVE  [x EXCEPT !.conds = c] \in CRs
  BY DEF CRs

\* A stage reported failed or completed.
LEMMA FailedCompletedType ==
    ASSUME NEW x \in CRs, NEW stage \in Stages
    PROVE  Failed(x, stage) \in CRs /\ Completed(x, stage) \in CRs
  <1>1. x.conds \in Conditions
    BY DEF CRs
  <1> QED BY <1>1, SetStatusType, CondsType DEF Failed, Completed

\* The Idle condition with a reason of its own.
LEMMA IdleReasonType ==
    ASSUME NEW x \in CRs, NEW reason \in ConditionReasons
    PROVE  [x EXCEPT !.conds = SetCondition(@, "Idle", reason)] \in CRs
  <1>1. x.conds \in Conditions /\ "Idle" \in ConditionTypes
    BY DEF CRs, ConditionTypes
  <1> QED BY <1>1, SetConditionType, CondsType

\* The valid next stages computed anew.
LEMMA RefreshedType ==
    ASSUME NEW x \in CRs, Exists(x)
    PROVE  Refreshed(x) \in CRs
  <1>1. x.stage \in Stages
    BY DEF CRs, Exists
  <1>2. getValidNextStageList(x.conds, x.stage, isAfterPivot(x)) \in SUBSET Stages
    BY <1>1, ValidNextStageListType
  <1> QED BY <1>2 DEF Refreshed, CRs

-----------------------------------------------------------------------------
(* Type correctness. *)

\* A reconcile, or InitIBU, has read a CR.
InMemory == pc # "idle" => Exists(ibu)

\* TypeOK is not inductive: the valid next stages of a CR that does not exist
\* are not stages, so ReconcileFinal needs InMemory.
TypeInv == TypeOK /\ InMemory

\* The steps of the handlers that only decide what is reported.
LEMMA ToFinalType ==
    ASSUME TypeInv, NEW x \in CRs, Exists(x), NEW requeue \in BOOLEAN,
           ToFinal(x, requeue)
    PROVE  /\ ibu' \in CRs /\ up' \in BOOLEAN /\ pc' \in PCs
           /\ fresh' \in BOOLEAN /\ queued' \in BOOLEAN
           /\ InMemory'
  <1>1. "final" \in PCs
    BY DEF PCs
  <1> QED BY <1>1 DEF TypeInv, TypeOK, ToFinal, InMemory, Exists

\* Reports keep the CR in memory an existing one.
LEMMA ReportExists ==
    ASSUME NEW x \in CRs, Exists(x), NEW stage, NEW c
    PROVE  /\ Exists(Failed(x, stage))
           /\ Exists(Completed(x, stage))
           /\ Exists([x EXCEPT !.conds = c])
  BY DEF Exists, Failed, Completed, CRs

LEMMA TypeInit == Init => TypeInv
  <1> SUFFICES ASSUME Init PROVE TypeInv
    OBVIOUS
  <1>1. 1 \in Version
    BY MaxVersionAssumption DEF Version
  <1>2. 0 \in 0 .. MaxEdits /\ 0 \in 0 .. MaxFaults /\ 0 \in 0 .. MaxDeletes
    BY BoundsAssumption
  <1>3. "none" \in JobStates /\ "off" \in MonitorStates /\ "idle" \in PCs
    BY DEF JobStates, MonitorStates, PCs
  <1>4. /\ cr \in [Version -> CRs]
        /\ file \in [Version -> CRs]
        /\ staterootJob \in [Version -> JobStates]
        /\ precacheJob \in [Version -> JobStates]
        /\ monitor \in [Version -> MonitorStates]
    BY <1>3, InitialCRType DEF Init
  <1> QED BY <1>1, <1>2, <1>3, <1>4, InitialCRType DEF Init, TypeInv, TypeOK, InMemory

LEMMA InitIBUType == TypeInv /\ InitIBU => TypeInv'
  <1> SUFFICES ASSUME TypeInv, InitIBU PROVE TypeInv'
    OBVIOUS
  <1> USE DEF TypeInv, TypeOK, InMemory, hostVars, storeVars, jobVars, opVars, envVars
  <1>0. {"idle"} \cup RestorePCs \subseteq PCs
    BY DEF PCs
  <1>1. CASE InitIBUCreate
    BY <1>1, InitialCRType DEF InitIBUCreate, InitIBURequired
  <1>2. CASE InitIBURead
    BY <1>0, <1>2 DEF InitIBURead, RestorePCs, InitIBURequired
  <1>3. CASE InitIBUDelete
    BY <1>0, <1>3, InitialCRType DEF InitIBUDelete, RestorePCs
  <1>4. CASE InitIBURecreate
    <2>1. [ibu EXCEPT !.conds = NoConditions, !.next = {}] \in CRs
      BY ResetType DEF CRs
    <2> QED BY <1>0, <1>4, <2>1 DEF InitIBURecreate, RestorePCs
  <1>5. CASE InitIBUStatus
    BY <1>0, <1>5 DEF InitIBUStatus, RestorePCs
  <1>6. CASE InitIBURemove
    BY <1>0, <1>6, InitialCRType DEF InitIBURemove
  <1>7. CASE InitIBUFail
    <2>1. faults' \in 0 .. MaxFaults
      BY <1>7, BoundsAssumption DEF InitIBUFail
    <2> QED BY <1>0, <1>7, <2>1, InitialCRType DEF InitIBUFail
  <1> QED BY <1>1, <1>2, <1>3, <1>4, <1>5, <1>6, <1>7 DEF InitIBU

LEMMA ReconcileType ==
    TypeInv /\ (Reconcile \/ ReconcileTransition \/ HandleNothing \/ ReconcileFinal) => TypeInv'
  <1> SUFFICES ASSUME TypeInv,
                      Reconcile \/ ReconcileTransition \/ HandleNothing \/ ReconcileFinal
               PROVE  TypeInv'
    OBVIOUS
  <1> USE DEF TypeInv, TypeOK, InMemory, hostVars, storeVars, jobVars, opVars, envVars
  <1>0. {"idle", "transition", "handle", "final"} \subseteq PCs
    BY DEF PCs
  <1>1. CASE Reconcile
    <2> DEFINE x     == cr[booted]
               moved == [Refreshed(x) EXCEPT !.conds =
                            validateStageTransition(x.conds, x.stage, isAfterPivot(x))]
    <2>1. x \in CRs /\ Exists(x)
      BY <1>1 DEF Reconcile
    <2>2. Refreshed(x) \in CRs /\ Exists(Refreshed(x))
      BY <2>1, RefreshedType DEF Refreshed, CRs, Exists
    <2>3. moved \in CRs /\ Exists(moved)
      <3>1. validateStageTransition(x.conds, x.stage, isAfterPivot(x)) \in Conditions
        <4>1. x.conds \in Conditions /\ x.stage \in Stages
          BY <2>1 DEF CRs, Exists
        <4>2. isAfterPivot(x) \in BOOLEAN
          BY DEF isAfterPivot
        <4> QED BY <4>1, <4>2, ValidateStageTransitionType
      <3> QED BY <2>2, <3>1, CondsType, ReportExists
    <2>4. Refreshed(moved) \in CRs /\ Exists(Refreshed(moved))
      BY <2>3, RefreshedType DEF Refreshed, CRs, Exists
    <2>5. ibu' \in {Refreshed(x), Refreshed(moved), moved}
      BY <1>1 DEF Reconcile
    <2>6. pc' \in PCs
      BY <1>0, <1>1 DEF Reconcile
    <2> HIDE DEF x, moved
    <2> QED BY <1>1, <2>2, <2>3, <2>4, <2>5, <2>6 DEF Reconcile, Exists
  <1>2. CASE ReconcileTransition
    BY <1>0, <1>2, InitialCRType DEF ReconcileTransition
  <1>3. CASE HandleNothing
    BY <1>3, ToFinalType DEF HandleNothing, Handling
  <1>4. CASE ReconcileFinal
    <2>1. Refreshed(ibu) \in CRs
      BY <1>4, RefreshedType DEF ReconcileFinal
    <2> QED BY <1>0, <1>4, <2>1, InitialCRType DEF ReconcileFinal
  <1> QED BY <1>1, <1>2, <1>3, <1>4

\* A step that changes only what the operator holds in memory, and ends the
\* handler.
LEMMA ReportType ==
    ASSUME TypeInv, NEW x \in CRs, Exists(x), NEW requeue \in BOOLEAN,
           ToFinal(x, requeue),
           UNCHANGED <<hostVars, storeVars, jobVars, monitor, envVars>>
    PROVE  TypeInv'
  BY ToFinalType DEF TypeInv, TypeOK, hostVars, storeVars, jobVars, envVars

\* The CR in memory, as it is and as the handlers of a stage report on it.
LEMMA HandledType ==
    ASSUME TypeInv, pc # "idle"
    PROVE  /\ ibu \in CRs /\ Exists(ibu)
           /\ \A stage \in Stages :
                 /\ Failed(ibu, stage) \in CRs /\ Exists(Failed(ibu, stage))
                 /\ Completed(ibu, stage) \in CRs /\ Exists(Completed(ibu, stage))
  BY FailedCompletedType, ReportExists DEF TypeInv, TypeOK, InMemory

LEMMA PrepType == TypeInv /\ handlePrep => TypeInv'
  <1> SUFFICES ASSUME TypeInv, handlePrep PROVE TypeInv'
    OBVIOUS
  <1>0. /\ ibu \in CRs /\ Exists(ibu)
        /\ Failed(ibu, "Prep") \in CRs /\ Exists(Failed(ibu, "Prep"))
        /\ Completed(ibu, "Prep") \in CRs /\ Exists(Completed(ibu, "Prep"))
    <2>1. pc # "idle"
      BY DEF handlePrep, PrepWait, PrepValidationFailed, PrepLaunchStateroot,
             PrepJobFailed, PrepLaunchPrecache, PrepComplete, Handling
    <2> QED BY <2>1, HandledType DEF Stages
  <1>1. CASE PrepWait
    BY <1>0, <1>1, ReportType DEF PrepWait
  <1>2. CASE PrepValidationFailed
    BY <1>0, <1>2, ReportType DEF PrepValidationFailed
  <1>3. CASE PrepLaunchStateroot
    <2>1. staterootJob' \in [Version -> JobStates]
      BY <1>3 DEF PrepLaunchStateroot, TypeInv, TypeOK, JobStates
    <2> QED BY <1>0, <1>3, <2>1, ToFinalType
         DEF PrepLaunchStateroot, TypeInv, TypeOK, hostVars, storeVars, envVars
  <1>4. CASE PrepJobFailed
    BY <1>0, <1>4, ReportType DEF PrepJobFailed
  <1>5. CASE PrepLaunchPrecache
    <2>1. precacheJob' \in [Version -> JobStates]
      BY <1>5 DEF PrepLaunchPrecache, TypeInv, TypeOK, JobStates
    <2> QED BY <1>0, <1>5, <2>1, ToFinalType
         DEF PrepLaunchPrecache, TypeInv, TypeOK, hostVars, storeVars, envVars
  <1>6. CASE PrepComplete
    BY <1>0, <1>6, ReportType DEF PrepComplete
  <1> QED BY <1>1, <1>2, <1>3, <1>4, <1>5, <1>6 DEF handlePrep

LEMMA JobsType == TypeInv /\ Jobs => TypeInv'
  <1> SUFFICES ASSUME TypeInv, Jobs PROVE TypeInv'
    OBVIOUS
  <1> USE DEF TypeInv, TypeOK, InMemory, hostVars, storeVars, jobVars, opVars, envVars
  <1>1. CASE StaterootJobFetch
    <2>1. cr[booted].target \in Version \cup {0}
      BY DEF CRs
    <2> QED BY <1>1, <2>1 DEF StaterootJobFetch
  <1>2. CASE StaterootJobDeploy
    <2>1. pod \in Version
      BY <1>2 DEF StaterootJobDeploy
    <2>2. /\ staterootJob' \in [Version -> JobStates]
          /\ precacheJob' \in [Version -> JobStates]
          /\ monitor' \in [Version -> MonitorStates]
      BY <1>2, <2>1 DEF StaterootJobDeploy, JobStates, MonitorStates
    <2>3. cr' \in [Version -> CRs] /\ file' \in [Version -> CRs]
      BY <1>2, <2>1, InitialCRType DEF StaterootJobDeploy
    <2>4. default' \in Version /\ deployed' \in SUBSET Version
      BY <1>2, <2>1 DEF StaterootJobDeploy
    <2> QED BY <1>2, <2>2, <2>3, <2>4 DEF StaterootJobDeploy, JobStep
  <1>3. CASE StaterootJobFail
    <2>1. staterootJob' \in [Version -> JobStates]
      BY <1>3 DEF StaterootJobFail, JobStates
    <2> QED BY <1>3, <2>1 DEF StaterootJobFail, JobStep
  <1>4. CASE PrecacheJobEnd
    <2>1. precacheJob' \in [Version -> JobStates]
      BY <1>4 DEF PrecacheJobEnd, JobStates
    <2> QED BY <1>4, <2>1 DEF PrecacheJobEnd, JobStep
  <1>5. CASE JobDeleted
    <2>1. /\ staterootJob' \in [Version -> JobStates]
          /\ precacheJob' \in [Version -> JobStates]
      BY <1>5 DEF JobDeleted, JobStates
    <2> QED BY <1>5, <2>1 DEF JobDeleted, JobStep
  <1> QED BY <1>1, <1>2, <1>3, <1>4, <1>5 DEF Jobs

\* The stateroot to go back to is one of those that could be.
LEMMA UnbootedStaterootChoice ==
    UnbootedStateroots # {} => UnbootedStateroot \in UnbootedStateroots
  BY DEF UnbootedStateroot

LEMMA UnbootedStaterootType ==
    TypeInv /\ UnbootedStateroots # {} => UnbootedStateroot \in Version
  <1>1. TypeInv => UnbootedStateroots \subseteq Version
    BY DEF TypeInv, TypeOK, UnbootedStateroots
  <1> QED BY <1>1, UnbootedStaterootChoice

LEMMA BootIntoType ==
    ASSUME TypeInv, NEW s \in Version, BootInto(s)
    PROVE  /\ booted' \in Version /\ pod' \in Version \cup {0}
           /\ up' \in BOOLEAN /\ pc' \in PCs /\ ibu' \in CRs
           /\ fresh' \in BOOLEAN /\ queued' \in BOOLEAN /\ deleted' \in CRs
           /\ InMemory'
  <1>1. "idle" \in PCs
    BY DEF PCs
  <1> QED BY <1>1, InitialCRType DEF BootInto, InMemory

LEMMA RebootType == TypeInv /\ Reboot => TypeInv'
  <1> SUFFICES ASSUME TypeInv, Reboot PROVE TypeInv'
    OBVIOUS
  <1>1. default \in Version
    BY DEF TypeInv, TypeOK
  <1>2. monitor' \in [Version -> MonitorStates]
    BY DEF Reboot, TypeInv, TypeOK, MonitorStates
  <1> QED BY <1>1, <1>2, BootIntoType DEF Reboot, TypeInv, TypeOK, storeVars

\* The CR saved elsewhere is marked failed.
LEMMA MarkSavedType ==
    TypeInv /\ markSavedIBUFailed => file' \in [Version -> CRs]
  <1> SUFFICES ASSUME TypeInv, markSavedIBUFailed PROVE file' \in [Version -> CRs]
    OBVIOUS
  <1>1. UnbootedStateroot \in Version
    BY UnbootedStaterootType DEF markSavedIBUFailed
  <1>2. Failed(file[UnbootedStateroot], "Upgrade") \in CRs
    BY <1>1, FailedCompletedType DEF TypeInv, TypeOK, Stages
  <1> QED BY <1>1, <1>2 DEF markSavedIBUFailed, TypeInv, TypeOK

LEMMA PrePivotType == TypeInv /\ PrePivot => TypeInv'
  <1> SUFFICES ASSUME TypeInv, PrePivot PROVE TypeInv'
    OBVIOUS
  <1>0. /\ ibu \in CRs /\ Exists(ibu)
        /\ Failed(ibu, "Upgrade") \in CRs /\ Exists(Failed(ibu, "Upgrade"))
    <2>1. pc # "idle"
      BY DEF PrePivot, PrePivotWait, PrePivotFailed, exportIBUToNewStateroot,
             exportForUncontrolledRollback, setDefaultDeploymentToNewStateroot,
             PrePivotError, PrePivotReboot, PrePivotRebootFailed, PrePivoting, Handling
    <2> QED BY <2>1, HandledType DEF Stages
  <1>a. {"exported", "saved", "defaultSet"} \subseteq PCs
    BY DEF PCs
  <1>b. ibu.target \in Version \cup {0}
    BY <1>0 DEF CRs
  <1>1. CASE PrePivotWait
    BY <1>0, <1>1, ReportType DEF PrePivotWait
  <1>2. CASE PrePivotFailed
    BY <1>0, <1>2, ReportType DEF PrePivotFailed
  <1>3. CASE exportIBUToNewStateroot
    BY <1>0, <1>a, <1>b, <1>3
       DEF exportIBUToNewStateroot, TypeInv, TypeOK, InMemory, hostVars, jobVars, envVars
  <1>4. CASE exportForUncontrolledRollback
    BY <1>0, <1>a, <1>4
       DEF exportForUncontrolledRollback, TypeInv, TypeOK, InMemory, hostVars, jobVars, envVars
  <1>5. CASE setDefaultDeploymentToNewStateroot
    <2>1. default' \in Version
      BY <1>5 DEF setDefaultDeploymentToNewStateroot, TypeInv, TypeOK
    <2> QED BY <1>0, <1>a, <1>5, <2>1
         DEF setDefaultDeploymentToNewStateroot, TypeInv, TypeOK, InMemory,
             storeVars, jobVars, envVars
  <1>6. CASE PrePivotError
    BY <1>0, <1>6, ReportType DEF PrePivotError
  <1>7. CASE PrePivotReboot
    BY <1>7, RebootType DEF PrePivotReboot
  <1>8. CASE PrePivotRebootFailed
    BY <1>0, <1>8, ReportType DEF PrePivotRebootFailed
  <1> QED BY <1>1, <1>2, <1>3, <1>4, <1>5, <1>6, <1>7, <1>8 DEF PrePivot

LEMMA PostPivotType == TypeInv /\ PostPivot => TypeInv'
  <1> SUFFICES ASSUME TypeInv, PostPivot PROVE TypeInv'
    OBVIOUS
  <1>0. /\ ibu \in CRs /\ Exists(ibu)
        /\ Failed(ibu, "Upgrade") \in CRs /\ Exists(Failed(ibu, "Upgrade"))
        /\ Completed(ibu, "Upgrade") \in CRs /\ Exists(Completed(ibu, "Upgrade"))
    <2>1. pc # "idle"
      BY DEF PostPivot, PostPivotWait, PostPivotComplete, PostPivotFailed,
             AutoRollbackSave, AutoRollbackSetDefault, AutoRollbackReboot,
             AutoRollbackError, PostPivoting, Handling
    <2> QED BY <2>1, HandledType DEF Stages
  <1>a. {"autoSave", "autoSaved", "autoDefault"} \subseteq PCs
    BY DEF PCs
  <1>1. CASE PostPivotWait
    BY <1>0, <1>1, ReportType DEF PostPivotWait
  <1>2. CASE PostPivotComplete
    <2>1. monitor' \in [Version -> MonitorStates]
      BY <1>2 DEF PostPivotComplete, TypeInv, TypeOK, MonitorStates
    <2>2. faults' \in 0 .. MaxFaults
      BY <1>2, BoundsAssumption DEF PostPivotComplete, TypeInv, TypeOK
    <2> QED BY <1>0, <1>2, <2>1, <2>2, ToFinalType
         DEF PostPivotComplete, TypeInv, TypeOK, hostVars, storeVars, jobVars
  <1>3. CASE PostPivotFailed
    <2>1. CASE ToFinal(Failed(ibu, "Upgrade"), FALSE)
      BY <1>0, <1>3, <2>1, ReportType DEF PostPivotFailed
    <2>2. CASE ibu' = Failed(ibu, "Upgrade") /\ pc' = "autoSave" /\ UNCHANGED <<up, fresh, queued>>
      BY <1>0, <1>a, <1>3, <2>2
         DEF PostPivotFailed, TypeInv, TypeOK, InMemory, Exists,
             hostVars, storeVars, jobVars, envVars
    <2> QED BY <1>3, <2>1, <2>2 DEF PostPivotFailed
  <1>4. CASE AutoRollbackSave
    BY <1>0, <1>a, <1>4, MarkSavedType
       DEF AutoRollbackSave, TypeInv, TypeOK, InMemory, hostVars, jobVars, envVars
  <1>5. CASE AutoRollbackSetDefault
    BY <1>0, <1>a, <1>5, UnbootedStaterootType
       DEF AutoRollbackSetDefault, setDefaultToUnbooted, TypeInv, TypeOK, InMemory,
           storeVars, jobVars, envVars
  <1>6. CASE AutoRollbackReboot
    BY <1>6, RebootType DEF AutoRollbackReboot
  <1>7. CASE AutoRollbackError
    BY <1>0, <1>7, ReportType DEF AutoRollbackError
  <1> QED BY <1>1, <1>2, <1>3, <1>4, <1>5, <1>6, <1>7 DEF PostPivot

LEMMA MonitorType == TypeInv /\ Monitor => TypeInv'
  <1> SUFFICES ASSUME TypeInv, Monitor PROVE TypeInv'
    OBVIOUS
  <1>1. CASE MonitorFire
    <2>1. monitor' \in [Version -> MonitorStates]
      BY <1>1 DEF MonitorFire, TypeInv, TypeOK, MonitorStates
    <2> QED BY <1>1, <2>1, MarkSavedType
         DEF MonitorFire, TypeInv, TypeOK, InMemory, hostVars, jobVars, opVars, envVars
  <1>2. CASE MonitorSetDefault
    <2>1. monitor' \in [Version -> MonitorStates]
      BY <1>2 DEF MonitorSetDefault, TypeInv, TypeOK, MonitorStates
    <2> QED BY <1>2, <2>1, UnbootedStaterootType
         DEF MonitorSetDefault, setDefaultToUnbooted, TypeInv, TypeOK, InMemory,
             storeVars, jobVars, opVars, envVars
  <1>3. CASE MonitorReboot
    BY <1>3, RebootType DEF MonitorReboot
  <1>4. CASE MonitorError
    <2>1. monitor' \in [Version -> MonitorStates]
      BY <1>4 DEF MonitorError, TypeInv, TypeOK, MonitorStates
    <2>2. faults' \in 0 .. MaxFaults
      BY <1>4, BoundsAssumption DEF MonitorError, TypeInv, TypeOK
    <2> QED BY <1>4, <2>1, <2>2
         DEF MonitorError, TypeInv, TypeOK, InMemory, hostVars, storeVars, jobVars, opVars
  <1> QED BY <1>1, <1>2, <1>3, <1>4 DEF Monitor

LEMMA RollbackType == TypeInv /\ handleRollback => TypeInv'
  <1> SUFFICES ASSUME TypeInv, handleRollback PROVE TypeInv'
    OBVIOUS
  <1>0. /\ ibu \in CRs /\ Exists(ibu)
        /\ Failed(ibu, "Rollback") \in CRs /\ Exists(Failed(ibu, "Rollback"))
        /\ Completed(ibu, "Rollback") \in CRs /\ Exists(Completed(ibu, "Rollback"))
    <2>1. pc # "idle"
      BY DEF handleRollback, finishRollback, RollbackSetDefault, RollbackWait,
             RollbackSave, RollbackReboot, RollbackFailed, Rollbacking, Handling
    <2> QED BY <2>1, HandledType DEF Stages
  <1>a. {"rollbackDefault", "rollbackSaved"} \subseteq PCs
    BY DEF PCs
  <1>1. CASE finishRollback
    BY <1>0, <1>1, ReportType DEF finishRollback
  <1>2. CASE RollbackSetDefault
    <2>1. default' \in Version
      BY <1>2, UnbootedStaterootType
         DEF RollbackSetDefault, setDefaultToUnbooted, TypeInv, TypeOK
    <2> QED BY <1>0, <1>a, <1>2, <2>1
         DEF RollbackSetDefault, TypeInv, TypeOK, InMemory, storeVars, jobVars, envVars
  <1>3. CASE RollbackWait
    BY <1>0, <1>3, ReportType DEF RollbackWait
  <1>4. CASE RollbackSave
    BY <1>0, <1>a, <1>4, UnbootedStaterootType
       DEF RollbackSave, TypeInv, TypeOK, InMemory, hostVars, jobVars, envVars
  <1>5. CASE RollbackReboot
    BY <1>5, RebootType DEF RollbackReboot
  <1>6. CASE RollbackFailed
    BY <1>0, <1>6, ReportType DEF RollbackFailed
  <1> QED BY <1>1, <1>2, <1>3, <1>4, <1>5, <1>6 DEF handleRollback

\* Removing stateroots that are not booted.
LEMMA RemoveStaterootsType ==
    ASSUME TypeInv, NEW gone \in SUBSET (Version \ {booted}), RemoveStateroots(gone)
    PROVE  /\ deployed' \in SUBSET Version /\ default' \in Version
           /\ file' \in [Version -> CRs] /\ cr' \in [Version -> CRs]
           /\ monitor' \in [Version -> MonitorStates]
  <1>1. "off" \in MonitorStates
    BY DEF MonitorStates
  <1>2. deployed' \in SUBSET Version /\ default' \in Version
    BY DEF RemoveStateroots, TypeInv, TypeOK
  <1>3. /\ file' \in [Version -> CRs] /\ cr' \in [Version -> CRs]
        /\ monitor' \in [Version -> MonitorStates]
    BY <1>1, InitialCRType DEF RemoveStateroots, TypeInv, TypeOK
  <1> QED BY <1>2, <1>3

LEMMA AbortOrFinalizeType == TypeInv /\ handleAbortOrFinalize => TypeInv'
  <1> SUFFICES ASSUME TypeInv, handleAbortOrFinalize PROVE TypeInv'
    OBVIOUS
  <1>0. ibu \in CRs /\ Exists(ibu)
    <2>1. pc # "idle"
      BY DEF handleAbortOrFinalize, FinalizeWait, checkManualCleanup, CleanupDone,
             CleanupFailed, CleaningUp, Handling
    <2> QED BY <2>1, HandledType
  <1>a. \A reason \in ConditionReasons :
            LET x == [ibu EXCEPT !.conds = SetCondition(@, "Idle", reason)]
            IN  x \in CRs /\ Exists(x)
    BY <1>0, IdleReasonType, ReportExists
  <1>b. LET x == [ibu EXCEPT !.conds = ResetStatusConditions(@)]
        IN  x \in CRs /\ Exists(x)
    BY <1>0, ResetType, CondsType, ReportExists
  <1>c. {"Finalizing", "AbortFailed", "FinalizeFailed"} \subseteq ConditionReasons
    BY DEF ConditionReasons
  <1>1. CASE FinalizeWait
    BY <1>a, <1>c, <1>1, ReportType DEF FinalizeWait
  <1>2. CASE checkManualCleanup
    <2>1. CASE ibu.cleaned /\ fresh
      <3>1. /\ [ibu EXCEPT !.cleaned = FALSE] \in CRs
            /\ Exists([ibu EXCEPT !.cleaned = FALSE])
        BY <1>0 DEF CRs, Exists
      <3>2. cr' \in [Version -> CRs]
        <4>1. [cr[booted] EXCEPT !.cleaned = FALSE] \in CRs
          BY DEF TypeInv, TypeOK, CRs
        <4> QED BY <1>2, <2>1, <4>1 DEF checkManualCleanup, TypeInv, TypeOK
      <3>3. "cleanup" \in PCs
        BY DEF PCs
      <3> QED BY <1>2, <2>1, <3>1, <3>2, <3>3
           DEF checkManualCleanup, TypeInv, TypeOK, InMemory, Exists,
               hostVars, jobVars, envVars
    <2>2. CASE ~(ibu.cleaned /\ fresh)
      BY <1>0, <1>2, <2>2, ReportType DEF checkManualCleanup, storeVars
    <2> QED BY <2>1, <2>2
  <1>3. CASE CleanupDone
    <2>1. /\ staterootJob' \in [Version -> JobStates]
          /\ precacheJob' \in [Version -> JobStates]
      BY <1>3 DEF CleanupDone, JobStates
    <2>2. RemoveStateroots(Version \ {booted})
      BY <1>3 DEF CleanupDone
    <2> QED BY <1>b, <1>3, <2>1, <2>2, RemoveStaterootsType, ToFinalType
         DEF CleanupDone, TypeInv, TypeOK, envVars
  <1>4. CASE CleanupFailed
    <2>1. /\ deployed' \in SUBSET Version /\ default' \in Version
          /\ file' \in [Version -> CRs] /\ cr' \in [Version -> CRs]
          /\ monitor' \in [Version -> MonitorStates]
          /\ booted' = booted
      BY <1>4, RemoveStaterootsType
         DEF CleanupFailed, TypeInv, TypeOK, hostVars, storeVars
    <2>2. /\ staterootJob' \in [Version -> JobStates]
          /\ precacheJob' \in [Version -> JobStates]
          /\ pod' \in Version \cup {0}
      <3>1. staterootJob' \in [Version -> JobStates] /\ pod' \in Version \cup {0}
        BY <1>4 DEF CleanupFailed, TypeInv, TypeOK, JobStates
      <3>2. precacheJob' \in [Version -> JobStates]
        BY <1>4 DEF CleanupFailed, TypeInv, TypeOK, JobStates
      <3> QED BY <3>1, <3>2
    <2>3. \E reason \in {"AbortFailed", "FinalizeFailed"} :
              ToFinal([ibu EXCEPT !.conds = SetCondition(@, "Idle", reason)], TRUE)
      BY <1>4 DEF CleanupFailed
    <2>4. /\ ibu' \in CRs /\ up' \in BOOLEAN /\ pc' \in PCs
          /\ fresh' \in BOOLEAN /\ queued' \in BOOLEAN
          /\ InMemory'
      BY <1>a, <1>c, <2>3, ToFinalType
    <2> QED BY <1>4, <2>1, <2>2, <2>4 DEF CleanupFailed, TypeInv, TypeOK, envVars
  <1> QED BY <1>1, <1>2, <1>3, <1>4 DEF handleAbortOrFinalize

\* The user's changes of the CR.
LEMMA EditCRType ==
    ASSUME TypeInv, NEW x \in CRs, EditCR(x), edits < MaxEdits, edits' = edits + 1,
           UNCHANGED <<deleted, faults, deletes>>
    PROVE  TypeInv'
  <1>1. edits' \in 0 .. MaxEdits
    BY BoundsAssumption DEF TypeInv, TypeOK
  <1> QED BY <1>1 DEF EditCR, TypeInv, TypeOK, InMemory, hostVars, jobVars

LEMMA UserType == TypeInv /\ (User \/ DeleteFunc) => TypeInv'
  <1> SUFFICES ASSUME TypeInv, User \/ DeleteFunc PROVE TypeInv'
    OBVIOUS
  <1>0. cr[booted] \in CRs
    BY DEF TypeInv, TypeOK
  <1>1. ASSUME NEW stage \in Stages, NEW target \in Version, SetSpec(stage, target)
        PROVE  TypeInv'
    <2>1. [cr[booted] EXCEPT !.stage = stage, !.target = target] \in CRs
      BY <1>0 DEF CRs
    <2> QED BY <1>1, <2>1, EditCRType DEF SetSpec
  <1>2. CASE AddManualCleanup
    <2>1. [cr[booted] EXCEPT !.cleaned = TRUE] \in CRs
      BY <1>0 DEF CRs
    <2> QED BY <1>2, <2>1, EditCRType DEF AddManualCleanup
  <1>3. CASE TriggerReconcile
    BY <1>0, <1>3, EditCRType DEF TriggerReconcile
  <1>4. CASE ManualSetDefault
    BY <1>4 DEF ManualSetDefault, TypeInv, TypeOK, InMemory,
                storeVars, jobVars, opVars, envVars
  <1>5. CASE DeleteCR
    <2>1. deletes' \in 0 .. MaxDeletes
      BY <1>5, BoundsAssumption DEF DeleteCR, TypeInv, TypeOK
    <2> QED BY <1>0, <1>5, <2>1, InitialCRType
         DEF DeleteCR, TypeInv, TypeOK, InMemory, hostVars, jobVars
  <1>6. CASE DeleteFunc
    BY <1>6, InitialCRType
       DEF DeleteFunc, TypeInv, TypeOK, InMemory, hostVars, jobVars
  <1> QED BY <1>1, <1>2, <1>3, <1>4, <1>5, <1>6 DEF User

LEMMA CrashType == TypeInv /\ (OperatorCrash \/ NodeCrash) => TypeInv'
  <1> SUFFICES ASSUME TypeInv, OperatorCrash \/ NodeCrash PROVE TypeInv'
    OBVIOUS
  <1>1. faults' \in 0 .. MaxFaults
    BY BoundsAssumption DEF OperatorCrash, NodeCrash, TypeInv, TypeOK
  <1>2. CASE OperatorCrash
    <2>1. "idle" \in PCs
      BY DEF PCs
    <2> QED BY <1>1, <1>2, <2>1, InitialCRType
         DEF OperatorCrash, TypeInv, TypeOK, InMemory, hostVars, storeVars, jobVars
  <1>3. CASE NodeCrash
    <2>1. PICK s \in deployed : BootInto(s)
      BY <1>3 DEF NodeCrash
    <2>2. s \in Version
      BY <2>1 DEF TypeInv, TypeOK
    <2>3. monitor' \in [Version -> MonitorStates]
      BY <1>3 DEF NodeCrash, TypeInv, TypeOK, MonitorStates
    <2> QED BY <1>1, <1>3, <2>1, <2>2, <2>3, BootIntoType
         DEF NodeCrash, TypeInv, TypeOK, storeVars
  <1> QED BY <1>2, <1>3

\* Every step of the system preserves the types.
LEMMA TypeNext == TypeInv /\ [Next]_vars => TypeInv'
  <1> SUFFICES ASSUME TypeInv, [Next]_vars PROVE TypeInv'
    OBVIOUS
  <1>1. CASE Next
    BY <1>1, InitIBUType, ReconcileType, PrepType, JobsType, PrePivotType, PostPivotType,
       MonitorType, RollbackType, AbortOrFinalizeType, UserType, CrashType
       DEF Next, Operator
  <1>2. CASE UNCHANGED vars
    BY <1>2 DEF vars, TypeInv, TypeOK, InMemory
  <1> QED BY <1>1, <1>2

\* The host, the CRs of both clusters, the jobs, the monitor and the CR in the
\* operator's memory stay well-formed through every step and fault; above all,
\* the stages that the controller offers are stages of the API.
THEOREM TypeCorrect == Spec => []TypeOK
  <1>1. Spec => []TypeInv
    BY TypeInit, TypeNext, PTL DEF Spec
  <1>2. TypeInv => TypeOK
    BY DEF TypeInv
  <1> QED BY <1>1, <1>2, PTL

-----------------------------------------------------------------------------
(* The host can always boot. *)

\* The deployment to go back to is there, whatever the boot order.
LEMMA UnbootedStaterootDeployed ==
    BootableHost /\ UnbootedStateroots # {} => UnbootedStateroot \in deployed
  <1>1. BootableHost => UnbootedStateroots \subseteq deployed
    BY DEF BootableHost, UnbootedStateroots
  <1> QED BY <1>1, UnbootedStaterootChoice

\* A reboot goes to the default deployment.
LEMMA RebootBootable == BootableHost /\ Reboot => BootableHost'
  BY DEF BootableHost, Reboot, BootInto

\* Another default deployment is chosen among those that are there.
LEMMA SetDefaultBootable ==
    BootableHost /\ default' \in deployed /\ UNCHANGED <<booted, deployed>> => BootableHost'
  BY DEF BootableHost

\* Cleanup never takes the booted stateroot, and moves the boot order on when it
\* takes the default one.
LEMMA RemoveStaterootsBootable ==
    ASSUME BootableHost, NEW gone, booted \notin gone, RemoveStateroots(gone), booted' = booted
    PROVE  BootableHost'
  BY DEF BootableHost, RemoveStateroots

\* The steps of the operator.
LEMMA OperatorBootable == BootableHost /\ Operator => BootableHost'
  <1> SUFFICES ASSUME BootableHost, Operator PROVE BootableHost'
    OBVIOUS
  <1>0. UNCHANGED hostVars => BootableHost'
    BY DEF hostVars, BootableHost
  <1>1. CASE InitIBU
    BY <1>0, <1>1 DEF InitIBU, InitIBUCreate, InitIBURead, InitIBUDelete, InitIBURecreate,
                      InitIBUStatus, InitIBURemove, InitIBUFail
  <1>2. CASE Reconcile \/ ReconcileTransition \/ HandleNothing \/ ReconcileFinal
    BY <1>0, <1>2 DEF Reconcile, ReconcileTransition, HandleNothing, ReconcileFinal
  <1>3. CASE handlePrep
    BY <1>0, <1>3 DEF handlePrep, PrepWait, PrepValidationFailed, PrepLaunchStateroot,
                      PrepJobFailed, PrepLaunchPrecache, PrepComplete
  <1>4. CASE PrePivot
    <2>1. CASE PrePivotReboot
      BY <2>1, RebootBootable DEF PrePivotReboot
    <2>2. CASE setDefaultDeploymentToNewStateroot
      <3>1. default' \in deployed
        BY <2>2 DEF setDefaultDeploymentToNewStateroot, BootableHost
      <3> QED BY <2>2, <3>1, SetDefaultBootable DEF setDefaultDeploymentToNewStateroot
    <2> QED BY <1>0, <1>4, <2>1, <2>2
         DEF PrePivot, PrePivotWait, PrePivotFailed, exportIBUToNewStateroot,
             exportForUncontrolledRollback, PrePivotError, PrePivotRebootFailed
  <1>5. CASE PostPivot
    <2>1. CASE AutoRollbackReboot
      BY <2>1, RebootBootable DEF AutoRollbackReboot
    <2>2. CASE AutoRollbackSetDefault
      BY <2>2, UnbootedStaterootDeployed, SetDefaultBootable
         DEF AutoRollbackSetDefault, setDefaultToUnbooted
    <2> QED BY <1>0, <1>5, <2>1, <2>2
         DEF PostPivot, PostPivotWait, PostPivotComplete, PostPivotFailed,
             AutoRollbackSave, AutoRollbackError
  <1>6. CASE handleRollback
    <2>1. CASE RollbackReboot
      BY <2>1, RebootBootable DEF RollbackReboot
    <2>2. CASE RollbackSetDefault
      <3>1. default' \in deployed
        BY <2>2, UnbootedStaterootDeployed
           DEF RollbackSetDefault, setDefaultToUnbooted, BootableHost
      <3> QED BY <2>2, <3>1, SetDefaultBootable DEF RollbackSetDefault
    <2> QED BY <1>0, <1>6, <2>1, <2>2
         DEF handleRollback, finishRollback, RollbackWait, RollbackSave, RollbackFailed
  <1>7. CASE handleAbortOrFinalize
    <2>1. CASE CleanupDone
      BY <2>1, RemoveStaterootsBootable DEF CleanupDone
    <2>2. CASE CleanupFailed
      <3>1. CASE UNCHANGED hostVars
        BY <1>0, <3>1
      <3>2. CASE /\ \E gone \in SUBSET (Version \ {booted}) : RemoveStateroots(gone)
                 /\ UNCHANGED booted
        BY <3>2, RemoveStaterootsBootable
      <3> QED BY <2>2, <3>1, <3>2 DEF CleanupFailed
    <2> QED BY <1>0, <1>7, <2>1, <2>2
         DEF handleAbortOrFinalize, FinalizeWait, checkManualCleanup
  <1>8. CASE DeleteFunc
    BY <1>0, <1>8 DEF DeleteFunc
  <1> QED BY <1>1, <1>2, <1>3, <1>4, <1>5, <1>6, <1>7, <1>8 DEF Operator

\* The steps of everybody else.
LEMMA EnvironmentBootable ==
    BootableHost /\ (Jobs \/ Monitor \/ User \/ OperatorCrash \/ NodeCrash) => BootableHost'
  <1> SUFFICES ASSUME BootableHost, Jobs \/ Monitor \/ User \/ OperatorCrash \/ NodeCrash
               PROVE  BootableHost'
    OBVIOUS
  <1>0. UNCHANGED hostVars => BootableHost'
    BY DEF hostVars, BootableHost
  <1>1. CASE Jobs
    <2>1. CASE StaterootJobDeploy
      BY <2>1 DEF StaterootJobDeploy, BootableHost
    <2> QED BY <1>0, <1>1, <2>1
         DEF Jobs, StaterootJobFetch, StaterootJobFail, PrecacheJobEnd, JobDeleted
  <1>2. CASE Monitor
    <2>1. CASE MonitorReboot
      BY <2>1, RebootBootable DEF MonitorReboot
    <2>2. CASE MonitorSetDefault
      BY <2>2, UnbootedStaterootDeployed, SetDefaultBootable
         DEF MonitorSetDefault, setDefaultToUnbooted
    <2> QED BY <1>0, <1>2, <2>1, <2>2 DEF Monitor, MonitorFire, MonitorError
  <1>3. CASE User
    <2>1. CASE ManualSetDefault
      BY <2>1, SetDefaultBootable DEF ManualSetDefault
    <2> QED BY <1>0, <1>3, <2>1
         DEF User, SetSpec, AddManualCleanup, TriggerReconcile, EditCR, DeleteCR
  <1>4. CASE OperatorCrash
    BY <1>0, <1>4 DEF OperatorCrash
  <1>5. CASE NodeCrash
    BY <1>5 DEF NodeCrash, BootInto, BootableHost
  <1> QED BY <1>1, <1>2, <1>3, <1>4, <1>5

\* Whatever interleaving of the operator, the setup job, the init monitor, the
\* user and the crashes: the booted deployment and the default one are deployed.
THEOREM AlwaysBootable == Spec => []BootableHost
  <1>1. Init => BootableHost
    BY DEF Init, BootableHost
  <1>2. BootableHost /\ [Next]_vars => BootableHost'
    <2>1. CASE Next
      BY <2>1, OperatorBootable, EnvironmentBootable DEF Next
    <2>2. CASE UNCHANGED vars
      BY <2>2 DEF vars, BootableHost
    <2> QED BY <2>1, <2>2
  <1> QED BY <1>1, <1>2, PTL DEF Spec

-----------------------------------------------------------------------------
(* The assumptions of the proofs about an upgrade. *)

\* The theorems are about hosts whose rpm-ostree has set-default, and about a
\* user who neither edits the seed image once the upgrade has begun nor deletes
\* the CR; the README gives the counterexamples without each of the three.
Supported == SetDefaultFeature /\ ~Retarget /\ MaxDeletes = 0

\* The init monitor of an earlier upgrade was stopped before the CR says Idle:
\* the operator only logs that stopping it failed (upgrade_handlers.go), and the
\* README gives what a leftover monitor can do to the next upgrade.
MonitorRetired == IsTrue(Current.conds, "Idle") => monitor[booted] = "off"

-----------------------------------------------------------------------------
(* Where a CR is in its flow. *)

\* Idle condition: true; reported at all; reported and not true; cleaning up.
Idling(x)    == x.conds["Idle"] = "Idle"
Begun(x)     == x.conds["Idle"] # "None"
Working(x)   == x.conds["Idle"] \notin {"None", "Idle"}
Leaving(x)   == x.conds["Idle"] \in IdleInProgressReasons

\* In Prep, past it without an end of Upgrade, past it at all, in Upgrade.
Preparing(x) == x.conds["PrepInProgress"] = "InProgress" /\ ~Leaving(x)
Prepared(x)  ==
    /\ x.conds["PrepCompleted"] = "Completed" /\ x.conds["UpgradeCompleted"] = "None"
    /\ ~Leaving(x)
PrepDone(x)  == x.conds["PrepCompleted"] = "Completed"
Moving(x)    == x.conds["UpgradeInProgress"] = "InProgress"

\* The CR x of stateroot s is in the new stateroot and not yet finalized.
PivotedIn(x, s) ==
    /\ x.target = s
    /\ Moving(x) \/ x.conds["UpgradeCompleted"] # "None"
    /\ x.conds["Idle"] \notin {"Idle", "Finalizing", "FinalizeFailed"}

\* The reasons of an in-progress condition that is not there, or only refused.
Unset == {"None", "InvalidTransition"}

\* The conditions that the handlers can write together: a stage ends after it
\* began, and what follows a stage is only reported after that stage.
Consistent(c) ==
    /\ c["Idle"] \notin {"Blocked", "Completed", "Failed"}
    /\ \A t \in InProgressTypes : c[t] \in Unset \cup {"InProgress", "Completed", "Failed"}
    /\ \A t \in CompletedTypes : c[t] \in {"None", "Completed", "Failed"}
    /\ c["Idle"] \in {"None", "Idle"} => \A t \in InProgressTypes : c[t] \in Unset
    /\ c["Idle"] \in {"None", "Idle"} \/ c["PrepInProgress"] = "InProgress" =>
           /\ \A t \in CompletedTypes : c[t] = "None"
           /\ c["UpgradeInProgress"] \in Unset /\ c["RollbackInProgress"] \in Unset
    /\ c["UpgradeInProgress"] = "InProgress" =>
           c["PrepCompleted"] = "Completed" /\ c["UpgradeCompleted"] = "None"
    /\ c["UpgradeCompleted"] # "None" => c["PrepCompleted"] = "Completed"
    /\ c["RollbackInProgress"] \notin Unset \/ c["RollbackCompleted"] # "None" =>
           c["UpgradeCompleted"] = "Failed"
    /\ c["RollbackInProgress"] = "InProgress" => c["RollbackCompleted"] = "None"

\* A CR x that stateroot s may hold: Upgrade ends in the new stateroot, Rollback
\* in the old one, Abort is for the old one only.
Sound(x, s) ==
    /\ Consistent(x.conds)
    /\ x.stage \notin {"Idle", "None"} \/ Working(x) => x.target # 0
    /\ x.conds["UpgradeCompleted"] = "Completed" => x.target = s
    /\ x.conds["RollbackCompleted"] = "Completed" => x.target # s
    /\ x.conds["PrepCompleted"] = "Completed" =>
           IF x.target = s THEN Moving(x) \/ x.conds["UpgradeCompleted"] # "None"
                           ELSE x.target > s
    /\ x.conds["Idle"] \in {"Aborting", "AbortFailed"} => x.target # s
    /\ Leaving(x) => x.stage = "Idle" /\ x.next = {}

\* A CR saved as a file in stateroot s for the operator that will run there: in
\* the new stateroot an upgrade under way, in the old one an upgrade that failed.
Saved(x, s) ==
    /\ Sound(x, s)
    /\ Working(x) /\ ~Leaving(x)
    /\ x.conds["PrepCompleted"] = "Completed"
    /\ x.conds["UpgradeCompleted"] # "Completed"
    /\ x.conds["RollbackCompleted"] = "None"
    /\ x.target # s => x.conds["UpgradeCompleted"] = "Failed"
    /\ x.target = s => x.conds["RollbackInProgress"] \in Unset

\* Stateroot s is the new one of an upgrade.
New(s) == (Begun(cr[s]) /\ cr[s].target = s) \/ file[s].target = s

\* Stateroot s has run, or may run after the next reboot.
Bootable(s) == s = booted \/ s = default \/ Exists(cr[s])

\* A stateroot setup job that still has a pod to run.
Running == {"running", "stopping"}

\* The host is in s and nothing sends it elsewhere.
AtHome(s) ==
    /\ booted = s /\ default = s /\ monitor[s] = "off"
    /\ \A v \in Version \ {s} : cr[v] = NoCR /\ file[v] = NoCR

\* What the host holds while stateroot s has the CR x.
Fits(x, s) ==
    /\ Idling(x) => deployed = {s} /\ staterootJob[s] = "none"
    /\ Preparing(x) \/ (Prepared(x) /\ ~Moving(x) /\ x.target # s) => AtHome(s)
    /\ Preparing(x) =>
        /\ deployed = {s} \/ (deployed = {s, x.target} /\ x.target # s)
        /\ staterootJob[s] = "none" => deployed = {s}
        /\ staterootJob[s] = "complete" => deployed # {s}
        /\ staterootJob[s] # "none" => x.target > s
        /\ pod \in {0, x.target}
    /\ Prepared(x) /\ x.target # s => deployed = {s, x.target}
    /\ PivotedIn(x, s) => deployed # {s}
    /\ Moving(x) /\ x.target # s =>
        deployed \subseteq {s, x.target} /\ staterootJob[s] \notin Running

-----------------------------------------------------------------------------
(* The invariant. *)

\* Where the operator is: starting up, reconciling, in one of the stage handlers,
\* or rolling back by itself after a failed upgrade.
Restoring == pc \in RestorePCs
Operating == pc # "idle" /\ ~Restoring
HandlePCs == {"handle", "exported", "saved", "defaultSet", "rollbackDefault", "rollbackSaved",
              "cleanup"}
AutoPCs   == {"autoSave", "autoSaved", "autoDefault"}

\* An operator that is up has a CR, and one that starts up has read the saved one.
LifeInv ==
    /\ deleted = NoCR
    /\ \A s \in Version : /\ ~Exists(cr[s]) => cr[s] = NoCR
                          /\ ~Exists(file[s]) => file[s] = NoCR
    /\ Restoring => ~up /\ ibu = file[booted] /\ Exists(file[booted])
    /\ Operating => up
    /\ up => Exists(cr[booted])
    /\ pc = "restoreCreate" => cr[booted] = NoCR
    /\ pc = "restoreStatus" => cr[booted].conds = NoConditions
    /\ pc = "restoreRemove" => cr[booted].conds = ibu.conds /\ cr[booted].target = ibu.target

\* Every stored, saved and cached CR is one that the handlers can write.
SoundInv ==
    /\ \A s \in Version : Sound(cr[s], s) /\ (Exists(file[s]) => Saved(file[s], s))
    /\ pc # "idle" => Sound(ibu, booted)

\* The host fits the stored CRs and the one the running handler works on.
FitsInv ==
    /\ \A s \in deployed : Fits(cr[s], s)
    /\ pc # "idle" => Fits(ibu, booted)

\* At most two stateroots are deployed, and only they hold anything.
HostInv ==
    /\ \A u, v, w \in deployed : u = v \/ u = w \/ v = w
    /\ \A s \in Version \ deployed : cr[s] = NoCR /\ file[s] = NoCR /\ staterootJob[s] = "none"
    /\ \A s \in Version : staterootJob[s] \in Running => deployed = {s}
    /\ pod # 0 => staterootJob[booted] \in Running

\* How stale the CR in the running handler's memory can be.
MemInv ==
    /\ Operating =>
         /\ fresh \/ Working(cr[booted]) => ibu.target = cr[booted].target
         /\ Begun(cr[booted]) => Begun(ibu)
         /\ Begun(ibu) => Begun(cr[booted]) \/ Idling(ibu)
    /\ pc \in HandlePCs =>
         /\ \A t \in ConditionTypes : ibu.conds[t] \in {cr[booted].conds[t], "InvalidTransition"}
         /\ Working(ibu) => Working(cr[booted])
         /\ Leaving(cr[booted]) => Leaving(ibu)
    /\ pc \in AutoPCs => Working(cr[booted]) /\ ~Leaving(cr[booted])

\* What a pivot or a rollback has done so far.
PivotInv ==
    /\ pc \in {"exported", "saved", "defaultSet"} =>
         /\ Moving(ibu) /\ ~Leaving(ibu) /\ ibu.target # booted
         /\ Exists(file[ibu.target]) /\ file[ibu.target].target = ibu.target
    /\ pc \in {"saved", "defaultSet"} => Exists(file[booted])
    /\ pc = "defaultSet" => default = ibu.target
    /\ pc \in {"rollbackDefault", "rollbackSaved"} =>
         /\ ibu.target = booted /\ ibu.conds["RollbackInProgress"] = "InProgress"
         /\ ~Leaving(ibu) /\ default # booted
    /\ pc \in {"rollbackSaved", "autoDefault"} => default # booted /\ Exists(file[default])
    /\ pc \in AutoPCs =>
         ibu.target = booted /\ ibu.conds["UpgradeCompleted"] = "Failed" /\ ~Leaving(ibu)
    /\ pc = "autoSaved" => \A v \in deployed \ {booted} : Exists(file[v])
    /\ pc = "cleanup" => ibu.conds["Idle"] \in {"AbortFailed", "FinalizeFailed"}

\* While two stateroots are deployed, each one that can run knows of the upgrade,
\* and an init monitor is only armed in the new one.
RememberInv ==
    /\ \A s \in deployed :
        /\ (Bootable(s) /\ deployed # {s}) \/ staterootJob[s] # "none" =>
              Exists(file[s]) \/ Begun(cr[s])
        /\ Bootable(s) /\ monitor[s] # "off" => New(s)
        /\ Exists(file[s]) /\ file[s].target # s => monitor[s] = "off"
    /\ up /\ ~Begun(cr[booted]) => ~Exists(file[booted])

\* The new stateroot of an upgrade has the highest version, and the other one
\* does nothing by itself.
NewInv ==
    \A t \in deployed :
      /\ New(t) => \A v \in deployed :
            /\ v <= t /\ staterootJob[v] \notin Running
            /\ v # t => monitor[v] = "off" /\ (Exists(file[v]) \/ Begun(cr[v]))
      /\ file[t].target = t =>
            /\ deployed # {t}
            /\ ~(t = booted /\ up)
            /\ Begun(cr[t]) => cr[t].target = t /\ PrepDone(cr[t])

\* An old stateroot that the upgrade has left holds a saved CR, which says that
\* the upgrade failed: it is what stops it from upgrading again.
LoopInv ==
    /\ \A s \in deployed :
         Moving(cr[s]) /\ cr[s].target # s /\ (Exists(cr[cr[s].target]) \/ booted = cr[s].target)
           => Exists(file[s]) /\ ~(s = booted /\ up)
    /\ Moving(cr[booted]) /\ cr[booted].target # booted /\ default # booted => Exists(file[booted])
    /\ Operating /\ Moving(ibu) /\ ibu.target # booted =>
         /\ ~Exists(cr[ibu.target])
         /\ default # booted => Exists(file[booted])

Inv == /\ LifeInv /\ SoundInv /\ FitsInv /\ HostInv /\ MemInv /\ PivotInv
       /\ RememberInv /\ NewInv /\ LoopInv


-----------------------------------------------------------------------------
(* CRs and conditions. *)

\* The parts of a CR.
LEMMA CRParts ==
    ASSUME NEW x \in CRs
    PROVE  /\ x.stage \in Stages \cup {"None"}
           /\ x.target \in Version \cup {0}
           /\ x.conds \in Conditions
           /\ DOMAIN x.conds = ConditionTypes
           /\ \A c : /\ [x EXCEPT !.conds = c].stage = x.stage
                     /\ [x EXCEPT !.conds = c].target = x.target
                     /\ [x EXCEPT !.conds = c].next = x.next
                     /\ [x EXCEPT !.conds = c].conds = c
  BY DEF CRs, Conditions

\* The condition types, one by one.
LEMMA Types ==
    /\ ConditionTypes = {"Idle", "PrepInProgress", "UpgradeInProgress", "RollbackInProgress",
                         "PrepCompleted", "UpgradeCompleted", "RollbackCompleted"}
    /\ GetInProgressConditionType("Idle") = "Idle"
    /\ GetInProgressConditionType("Prep") = "PrepInProgress"
    /\ GetInProgressConditionType("Upgrade") = "UpgradeInProgress"
    /\ GetInProgressConditionType("Rollback") = "RollbackInProgress"
    /\ GetCompletedConditionType("Idle") = "Idle"
    /\ GetCompletedConditionType("Prep") = "PrepCompleted"
    /\ GetCompletedConditionType("Upgrade") = "UpgradeCompleted"
    /\ GetCompletedConditionType("Rollback") = "RollbackCompleted"
  BY DEF ConditionTypes, InProgressTypes, CompletedTypes, GetInProgressConditionType,
         GetCompletedConditionType

\* What a report of a failure writes.
LEMMA FailedWrites ==
    ASSUME NEW x \in CRs, NEW stage \in {"Prep", "Upgrade", "Rollback"}
    PROVE  LET y == Failed(x, stage) IN
           /\ y.stage = x.stage /\ y.target = x.target /\ y.next = x.next
           /\ y.conds[GetInProgressConditionType(stage)] = "Failed"
           /\ y.conds[GetCompletedConditionType(stage)] = "Failed"
           /\ \A t \in ConditionTypes \ {GetInProgressConditionType(stage), GetCompletedConditionType(stage)} :
                 y.conds[t] = x.conds[t]
  BY CRParts, Types DEF Failed, SetStatusFailed, Conditions

\* What a report of success writes.
LEMMA CompletedWrites ==
    ASSUME NEW x \in CRs, NEW stage \in {"Prep", "Upgrade", "Rollback"}
    PROVE  LET y == Completed(x, stage) IN
           /\ y.stage = x.stage /\ y.target = x.target /\ y.next = x.next
           /\ y.conds[GetInProgressConditionType(stage)] = "Completed"
           /\ y.conds[GetCompletedConditionType(stage)] = "Completed"
           /\ \A t \in ConditionTypes \ {GetInProgressConditionType(stage), GetCompletedConditionType(stage)} :
                 y.conds[t] = x.conds[t]
  BY CRParts, Types DEF Completed, SetStatusCompleted, Conditions

\* What a report of the Idle condition writes.
LEMMA IdleWrites ==
    ASSUME NEW x \in CRs, NEW reason
    PROVE  LET y == [x EXCEPT !.conds = SetCondition(@, "Idle", reason)] IN
           /\ y.stage = x.stage /\ y.target = x.target /\ y.next = x.next
           /\ y.conds["Idle"] = reason
           /\ \A t \in ConditionTypes \ {"Idle"} : y.conds[t] = x.conds[t]
  BY CRParts, Types DEF SetCondition, Conditions

\* What cleanup reports when it is done.
LEMMA ResetWrites ==
    ASSUME NEW x \in CRs
    PROVE  LET y == [x EXCEPT !.conds = ResetStatusConditions(@)] IN
           /\ y.stage = x.stage /\ y.target = x.target /\ y.next = x.next
           /\ y.conds["Idle"] = "Idle"
           /\ \A t \in ConditionTypes \ {"Idle"} : y.conds[t] = "None"
  BY CRParts, Types DEF ResetStatusConditions, NoConditions

\* The valid next stages are recomputed, nothing else.
LEMMA RefreshedWrites ==
    ASSUME NEW x \in CRs
    PROVE  LET y == Refreshed(x) IN
           /\ y.stage = x.stage /\ y.target = x.target /\ y.conds = x.conds
           /\ Leaving(x) => y.next = {}
  <1>1. Leaving(x) => getValidNextStageList(x.conds, x.stage, isAfterPivot(x)) = {}
    BY DEF Leaving, getValidNextStageList, GetInProgressStage, IsStageInProgress
  <1> QED BY <1>1 DEF Refreshed, CRs

-----------------------------------------------------------------------------
(* The transitions. *)

Cleared(c, t) == ClearInvalidTransitionStatusConditions(c)[t]

\* Forgetting refused transitions.
LEMMA ClearedIs ==
    ASSUME NEW c \in Conditions
    PROVE  /\ \A t \in ConditionTypes : c[t] # "InvalidTransition" => Cleared(c, t) = c[t]
           /\ c["Idle"] = "InvalidTransition" => Cleared(c, "Idle") = "InProgress"
           /\ \A t \in InProgressTypes : c[t] = "InvalidTransition" => Cleared(c, t) = "None"
           /\ \A t \in CompletedTypes : Cleared(c, t) = c[t]
           /\ ClearInvalidTransitionStatusConditions(c) \in Conditions
  <1>1. ClearInvalidTransitionStatusConditions(c) \in Conditions
    BY ClearInvalidTransitionType
  <1>2. "Idle" \in ConditionTypes /\ InProgressTypes \subseteq ConditionTypes /\ CompletedTypes \subseteq ConditionTypes
        /\ "Idle" \notin InProgressTypes /\ "Idle" \notin CompletedTypes
        /\ \A t \in CompletedTypes : t \notin InProgressTypes
    BY SMTT(30) DEF ConditionTypes, InProgressTypes, CompletedTypes
  <1> QED BY <1>1, <1>2 DEF Cleared, ClearInvalidTransitionStatusConditions

\* Which transitions are permitted.
LEMMA Permitted ==
    ASSUME NEW c \in Conditions, NEW stage \in Stages, NEW after \in BOOLEAN, Consistent(c),
           isTransitionRequested(c, stage)
    PROVE  /\ stage = "Idle" /\ c["Idle"] = "None" => transitionAllowed(c, stage, after)
           /\ stage = "Idle" => c["Idle"] \in {"None", "InProgress", "InvalidTransition"}
           /\ transitionAllowed(c, stage, after) =>
                /\ c["Idle"] \notin IdleInProgressReasons
                /\ c["RollbackInProgress"] # "InProgress"
                /\ c["RollbackCompleted"] # "Failed"
                /\ stage = "Prep" => c["Idle"] = "Idle"
                /\ stage = "Upgrade" =>
                      /\ c["PrepCompleted"] = "Completed" /\ c["UpgradeCompleted"] = "None"
                      /\ c["UpgradeInProgress"] # "InProgress"
                /\ stage = "Rollback" =>
                      /\ c["RollbackCompleted"] = "None"
                      /\ \/ c["UpgradeCompleted"] = "Completed"
                         \/ after /\ (c["UpgradeInProgress"] = "InProgress" \/ c["UpgradeCompleted"] = "Failed")
  <1> USE Types DEF Stages, Consistent, isTransitionRequested, IsStageInProgress, IsStageCompleted, IsStageFailed,
        IsStageCompletedOrFailed, IsTrue, IsFalse, IdleInProgressReasons, transitionAllowed,
        getValidNextStageList, GetInProgressStage, InProgressTypes, CompletedTypes, Unset, Conditions, ConditionReasons
  <1>1. CASE stage = "Idle"
    BY <1>1
  <1>2. CASE stage = "Prep"
    BY <1>2
  <1>3. CASE stage = "Upgrade"
    BY <1>3
  <1>4. CASE stage = "Rollback"
    BY <1>4
  <1> QED BY <1>1, <1>2, <1>3, <1>4

\* What a permitted or refused transition writes.
LEMMA TransitionWrites ==
    ASSUME NEW c \in Conditions, NEW stage \in Stages, NEW after \in BOOLEAN, Consistent(c),
           isTransitionRequested(c, stage)
    PROVE  LET d == validateStageTransition(c, stage, after)
               same(T) == \A t \in ConditionTypes \ T : d[t] = Cleared(c, t)
           IN
           /\ ~transitionAllowed(c, stage, after) =>
                /\ d[GetInProgressConditionType(stage)] = "InvalidTransition"
                /\ \A t \in ConditionTypes \ {GetInProgressConditionType(stage)} : d[t] = c[t]
           /\ transitionAllowed(c, stage, after) =>
                /\ stage = "Prep" =>
                     /\ d["Idle"] = "InProgress" /\ d["PrepInProgress"] = "InProgress"
                     /\ same({"Idle", "PrepInProgress"})
                /\ stage = "Upgrade" =>
                     /\ d["UpgradeInProgress"] = "InProgress"
                     /\ same({"UpgradeInProgress"})
                /\ stage = "Rollback" =>
                     /\ d["UpgradeInProgress"] = "Failed" /\ d["UpgradeCompleted"] = "Failed"
                     /\ d["RollbackInProgress"] = "InProgress"
                     /\ same({"UpgradeInProgress", "UpgradeCompleted", "RollbackInProgress"})
                /\ stage = "Idle" =>
                     \/ /\ c["Idle"] = "None" /\ d["Idle"] = "Idle"
                        /\ \A t \in ConditionTypes \ {"Idle"} : d[t] = "None"
                     \/ /\ d["Idle"] = "Finalizing" /\ same({"Idle"})
                        /\ c["UpgradeCompleted"] = "Completed" \/ c["RollbackCompleted"] = "Completed"
                     \/ /\ d["Idle"] = "Aborting" /\ same({"Idle"})
                        /\ ~after /\ c["Idle"] # "None"
                        /\ c["UpgradeCompleted"] # "Completed" /\ c["RollbackCompleted"] # "Completed"
                     \/ same({}) /\ c["Idle"] # "None"
  <1> DEFINE e == ClearInvalidTransitionStatusConditions(c)
             d == validateStageTransition(c, stage, after)
  <1>0. e \in Conditions /\ \A t \in ConditionTypes : e[t] = Cleared(c, t)
    BY ClearedIs DEF Cleared
  <1>1. CASE ~transitionAllowed(c, stage, after)
    <2>1. d = SetStatusInvalidTransition(c, stage)
      BY <1>1 DEF validateStageTransition
    <2> QED BY <1>1, <2>1, Types DEF SetStatusInvalidTransition, SetCondition, Conditions, Stages
  <1>2. CASE transitionAllowed(c, stage, after) /\ stage = "Prep"
    <2>1. d = SetStatusInProgress(SetCondition(e, "Idle", "InProgress"), "Prep")
      BY <1>2 DEF validateStageTransition
    <2> HIDE DEF e
    <2> QED BY <1>0, <1>2, <2>1, Types DEF SetStatusInProgress, SetCondition, Conditions
  <1>3. CASE transitionAllowed(c, stage, after) /\ stage = "Upgrade"
    <2>1. d = SetStatusInProgress(e, "Upgrade")
      BY <1>3 DEF validateStageTransition
    <2> HIDE DEF e
    <2> QED BY <1>0, <1>3, <2>1, Types DEF SetStatusInProgress, SetCondition, Conditions
  <1>4. CASE transitionAllowed(c, stage, after) /\ stage = "Rollback"
    <2>1. d = SetStatusInProgress(SetStatusFailed(e, "Upgrade"), "Rollback")
      BY <1>4 DEF validateStageTransition
    <2> HIDE DEF e
    <2> QED BY <1>0, <1>4, <2>1, Types
         DEF SetStatusInProgress, SetStatusFailed, SetCondition, Conditions
  <1>5. CASE transitionAllowed(c, stage, after) /\ stage = "Idle"
    <2>1. d = enterIdle(e, after)
      BY <1>5 DEF validateStageTransition
    <2>2. e["Idle"] = "None" <=> c["Idle"] = "None"
      BY ClearedIs, <1>0, Types
    <2>3. /\ e["UpgradeCompleted"] = c["UpgradeCompleted"]
          /\ e["RollbackCompleted"] = c["RollbackCompleted"]
      BY ClearedIs, <1>0, Types DEF CompletedTypes
    <2> HIDE DEF e
    <2>4. CASE isFinalizeOrAbort(e, after) = "Finalizing"
      <3>1. c["UpgradeCompleted"] = "Completed" \/ c["RollbackCompleted"] = "Completed"
        BY <2>3, <2>4 DEF isFinalizeOrAbort, IsTrue, CompletedTypes, InProgressTypes
      <3>2. d = SetCondition(e, "Idle", "Finalizing")
        BY <2>1, <2>4 DEF enterIdle
      <3> QED BY <1>0, <1>5, <3>1, <3>2, Types DEF SetCondition, Conditions
    <2>5. CASE isFinalizeOrAbort(e, after) = "Aborting"
      <3>1. /\ ~after /\ c["Idle"] # "None"
            /\ c["UpgradeCompleted"] # "Completed" /\ c["RollbackCompleted"] # "Completed"
        BY <2>2, <2>3, <2>5 DEF isFinalizeOrAbort, IsFalse, IsTrue, CompletedTypes, InProgressTypes
      <3>2. d = SetCondition(e, "Idle", "Aborting")
        BY <2>1, <2>5 DEF enterIdle
      <3> QED BY <1>0, <1>5, <3>1, <3>2, Types DEF SetCondition, Conditions
    <2>6. CASE isFinalizeOrAbort(e, after) = "None"
      <3>1. CASE c["Idle"] = "None"
        <4>1. d = ResetStatusConditions(e)
          BY <2>1, <2>2, <2>6, <3>1 DEF enterIdle
        <4> QED BY <1>5, <3>1, <4>1, Types DEF ResetStatusConditions, NoConditions
      <3>2. CASE c["Idle"] # "None"
        <4>1. d = e
          BY <2>1, <2>2, <2>6, <3>2 DEF enterIdle
        <4> QED BY <1>0, <1>5, <3>2, <4>1
      <3> QED BY <3>1, <3>2
    <2> QED BY <2>4, <2>5, <2>6 DEF isFinalizeOrAbort
  <1> QED BY <1>1, <1>2, <1>3, <1>4, <1>5 DEF Stages

\* A requested transition keeps the CR sound and in agreement with the host.
LEMMA TransitionSound ==
    ASSUME NEW x \in CRs, NEW y \in CRs, NEW s \in Version,
           Sound(x, s), Fits(x, s), Exists(x),
           isTransitionRequested(x.conds, x.stage),
           y.conds = validateStageTransition(x.conds, x.stage, x.target = s),
           y.stage = x.stage, y.target = x.target, Leaving(y) => y.next = {},
           ~Begun(x) => deployed = {s} /\ staterootJob[s] = "none",
           deployed = {s} => default = s /\ booted = s,
           Idling(x) => AtHome(s),
           pod # 0 => staterootJob[s] \in Running,
           staterootJob[s] \in Running => deployed = {s}
    PROVE  /\ Sound(y, s) /\ Fits(y, s)
           /\ Begun(x) => Begun(y)
           /\ Begun(y) => Begun(x) \/ Idling(y)
           /\ Moving(y) /\ y.target # s => Moving(x) \/ AtHome(s)
  <1> DEFINE after == x.target = s
             c == x.conds
             d == y.conds
  <1>1. /\ c \in Conditions /\ x.stage \in Stages /\ after \in BOOLEAN /\ Consistent(c)
        /\ x.target \in Version \cup {0}
    BY CRParts DEF Exists, Sound
  <1>2. d = validateStageTransition(c, x.stage, after)
    OBVIOUS
  <1> HIDE DEF after, c, d
  <1>c. /\ \A t \in ConditionTypes : c[t] # "InvalidTransition" => Cleared(c, t) = c[t]
        /\ c["Idle"] = "InvalidTransition" => Cleared(c, "Idle") = "InProgress"
        /\ \A t \in InProgressTypes : c[t] = "InvalidTransition" => Cleared(c, t) = "None"
        /\ \A t \in CompletedTypes : Cleared(c, t) = c[t]
    BY <1>1, ClearedIs
  <1> USE Types DEF InProgressTypes, CompletedTypes, Unset, IdleInProgressReasons
  <1>3. CASE ~transitionAllowed(c, x.stage, after)
    <2>1. /\ d[GetInProgressConditionType(x.stage)] = "InvalidTransition"
          /\ \A t \in ConditionTypes \ {GetInProgressConditionType(x.stage)} : d[t] = c[t]
      BY <1>1, <1>2, <1>3, TransitionWrites DEF c
    <2>2. isTransitionRequested(c, x.stage)
      BY DEF c
    <2>3. x.stage = "Idle" => c["Idle"] \in {"InProgress", "InvalidTransition"}
      BY <1>1, <1>3, <2>2, Permitted
    <2>4. x.stage # "Idle" => c[GetInProgressConditionType(x.stage)] # "InProgress"
      BY <1>1, <2>2 DEF isTransitionRequested, IsStageInProgress, IsTrue, Stages
    <2>5. Consistent(d)
      BY <1>1, <2>1, <2>3, <2>4 DEF Consistent, Stages
    <2>6. Sound(y, s)
      BY <1>1, <2>1, <2>3, <2>4, <2>5 DEF Sound, Moving, Working, Leaving, Stages, c, d
    <2>7. Fits(y, s)
      BY <1>1, <2>1, <2>3, <2>4 DEF Fits, Idling, Moving, Working, Leaving, Preparing, Prepared,
         PivotedIn, Stages, c, d
    <2> QED BY <1>1, <2>1, <2>3, <2>6, <2>7 DEF Begun, Moving, Stages, c, d
  <1>4. CASE transitionAllowed(c, x.stage, after) /\ x.stage = "Prep"
    <2>2. isTransitionRequested(c, x.stage)
      BY DEF c
    <2>3. /\ c["Idle"] \notin IdleInProgressReasons
          /\ c["RollbackInProgress"] # "InProgress"
          /\ c["RollbackCompleted"] # "Failed"
          /\ c["Idle"] = "Idle"
      BY <1>1, <1>4, <2>2, Permitted
    <2>4. /\ d["Idle"] = "InProgress" /\ d["PrepInProgress"] = "InProgress"
          /\ \A t \in ConditionTypes \ {"Idle", "PrepInProgress"} : d[t] = Cleared(c, t)
      BY <1>1, <1>2, <1>4, <2>2, TransitionWrites
    <2>5. Consistent(d)
      BY <1>1, <1>c, <2>3, <2>4 DEF Consistent
    <2>6. Sound(y, s)
      BY <1>c, <1>4, <2>4, <2>5 DEF Sound, Moving, Leaving, c, d
    <2>7. Fits(y, s)
      BY <2>3, <2>4, <2>6 DEF Fits, Idling, Sound, Consistent, Begun, Moving, Working, Prepared,
         PivotedIn, Running, c, d
    <2> QED BY <2>3, <2>4, <2>6, <2>7 DEF Fits, Sound, Consistent, Begun, Moving, c, d
  <1>5. CASE transitionAllowed(c, x.stage, after) /\ x.stage = "Upgrade"
    <2>2. isTransitionRequested(c, x.stage)
      BY DEF c
    <2>3. /\ c["Idle"] \notin IdleInProgressReasons
          /\ c["RollbackInProgress"] # "InProgress"
          /\ c["RollbackCompleted"] # "Failed"
          /\ c["PrepCompleted"] = "Completed" /\ c["UpgradeCompleted"] = "None"
          /\ c["UpgradeInProgress"] # "InProgress"
      BY <1>1, <1>5, <2>2, Permitted
    <2>4. /\ d["UpgradeInProgress"] = "InProgress"
          /\ \A t \in ConditionTypes \ {"UpgradeInProgress"} : d[t] = Cleared(c, t)
      BY <1>1, <1>2, <1>5, <2>2, TransitionWrites
    <2>5. Consistent(d)
      BY <1>1, <1>c, <2>3, <2>4 DEF Consistent
    <2>6. Sound(y, s)
      BY <1>c, <2>4, <2>5 DEF Sound, Moving, Working, Leaving, c, d, after
    <2>7. Fits(y, s)
      BY <2>3, <2>4, <2>6 DEF Fits, Idling, Sound, Consistent, Begun, Moving, Working, Leaving,
         Preparing, Prepared, c, d
    <2> QED BY <2>3, <2>4, <2>6, <2>7 DEF Fits, Sound, Consistent, Begun, Moving, Prepared, Leaving,
       c, d
  <1>6. CASE transitionAllowed(c, x.stage, after) /\ x.stage = "Rollback"
    <2>2. isTransitionRequested(c, x.stage)
      BY DEF c
    <2>3. /\ c["Idle"] \notin IdleInProgressReasons
          /\ c["RollbackInProgress"] # "InProgress"
          /\ c["RollbackCompleted"] # "Failed"
          /\ c["RollbackCompleted"] = "None"
          /\ \/ c["UpgradeCompleted"] = "Completed"
             \/ after /\ (c["UpgradeInProgress"] = "InProgress" \/ c["UpgradeCompleted"] = "Failed")
      BY <1>1, <1>6, <2>2, Permitted
    <2>4. /\ d["UpgradeInProgress"] = "Failed" /\ d["UpgradeCompleted"] = "Failed"
          /\ d["RollbackInProgress"] = "InProgress"
          /\ \A t \in ConditionTypes \ {"UpgradeInProgress", "UpgradeCompleted", "RollbackInProgress"} : d[t] = Cleared(c, t)
      BY <1>1, <1>2, <1>6, <2>2, TransitionWrites
    <2>5. Consistent(d)
      BY <1>1, <1>c, <2>3, <2>4 DEF Consistent
    <2>6. Sound(y, s)
      BY <1>c, <2>4, <2>5 DEF Sound, Moving, Working, Leaving, c, d, after
    <2>7. Fits(y, s)
      BY <2>3, <2>4, <2>6 DEF Fits, Idling, Sound, Consistent, Begun, Moving, Working, Preparing,
         Prepared, PivotedIn, Running, c, d
    <2> QED BY <2>3, <2>4, <2>6, <2>7 DEF Fits, Sound, Consistent, Begun, Moving, c, d
  <1>7. CASE transitionAllowed(c, x.stage, after) /\ x.stage = "Idle"
    <2>2. isTransitionRequested(c, x.stage)
      BY DEF c
    <2>3. /\ c["Idle"] \notin IdleInProgressReasons
          /\ c["RollbackInProgress"] # "InProgress"
          /\ c["RollbackCompleted"] # "Failed"
          /\ c["Idle"] \in {"None", "InProgress", "InvalidTransition"}
      BY <1>1, <1>7, <2>2, Permitted
    <2>4. \/ /\ c["Idle"] = "None" /\ d["Idle"] = "Idle"
             /\ \A t \in ConditionTypes \ {"Idle"} : d[t] = "None"
          \/ /\ d["Idle"] = "Finalizing"
             /\ \A t \in ConditionTypes \ {"Idle"} : d[t] = Cleared(c, t)
             /\ c["UpgradeCompleted"] = "Completed" \/ c["RollbackCompleted"] = "Completed"
          \/ /\ d["Idle"] = "Aborting"
             /\ \A t \in ConditionTypes \ {"Idle"} : d[t] = Cleared(c, t)
             /\ ~after /\ c["Idle"] # "None"
          \/ (\A t \in ConditionTypes : d[t] = Cleared(c, t)) /\ c["Idle"] # "None"
      BY <1>1, <1>2, <1>7, <2>2, TransitionWrites
    <2>5. Consistent(d)
      BY <1>1, <1>c, <2>3, <2>4 DEF Consistent
    <2>6. Sound(y, s)
      BY <1>c, <1>7, <2>3, <2>4, <2>5 DEF Sound, Consistent, Moving, Working, Leaving, c, d, after
    <2>7. Fits(y, s)
      BY <1>c, <2>4, <2>6 DEF Fits, Idling, Sound, Consistent, Begun, Moving, Working, Leaving,
         Preparing, Prepared, PivotedIn, Running, c, d
    <2> QED BY <1>c, <2>4, <2>6, <2>7 DEF Fits, Idling, Sound, Consistent, Begun, Moving, c, d
  <1> QED BY <1>1, <1>3, <1>4, <1>5, <1>6, <1>7 DEF Stages

-----------------------------------------------------------------------------
(* The steps. *)

\* A handler that only reports: what it reports must be sound and agree with
\* the host.
LEMMA ReportStep ==
    ASSUME Inv, Operating, NEW x, NEW requeue, ToFinal(x, requeue),
           UNCHANGED <<booted, default, deployed, cr, file, staterootJob, pod, deleted>>,
           monitor \in [Version -> MonitorStates], booted \in Version, deployed \subseteq Version,
           monitor' \in {monitor, [monitor EXCEPT ![booted] = "off"]},
           x.target = ibu.target, x = ibu \/ (Begun(x) /\ Begun(cr[booted])), Moving(x) => Moving(ibu),
           Sound(x, booted), Fits(x, booted)
    PROVE  Inv'
  <1>0. /\ ibu' = x /\ pc' = "final" /\ up' = up /\ fresh' = fresh
        /\ \A s \in Version : monitor'[s] = monitor[s] \/ monitor'[s] = "off"
    BY DEF ToFinal
  <1>1. LifeInv'
    BY <1>0 DEF LifeInv, Restoring, Operating, RestorePCs, Inv
  <1>2. SoundInv'
    BY <1>0 DEF SoundInv, Inv
  <1>3. FitsInv'
    BY <1>0 DEF FitsInv, Fits, AtHome, Inv
  <1>4. HostInv'
    BY <1>0 DEF HostInv, Running, Inv
  <1>5. MemInv'
    BY <1>0 DEF MemInv, Operating, Restoring, RestorePCs, HandlePCs, AutoPCs, Inv
  <1>6. PivotInv'
    BY <1>0 DEF PivotInv, AutoPCs, Inv
  <1>7. RememberInv'
    BY <1>0 DEF RememberInv, Bootable, New, Inv
  <1>8. NewInv'
    BY <1>0 DEF NewInv, New, Running, Inv
  <1>9. LoopInv'
    BY <1>0 DEF LoopInv, Operating, Restoring, RestorePCs, Inv
  <1> QED BY <1>1, <1>2, <1>3, <1>4, <1>5, <1>6, <1>7, <1>8, <1>9 DEF Inv

\* The types of what the steps change.
Typed ==
    /\ booted \in Version /\ default \in Version /\ deployed \subseteq Version
    /\ booted \in deployed /\ default \in deployed
    /\ cr \in [Version -> CRs] /\ file \in [Version -> CRs] /\ ibu \in CRs
    /\ staterootJob \in [Version -> JobStates] /\ monitor \in [Version -> MonitorStates]
    /\ pod \in Version \cup {0}
    /\ InMemory

\* They are what TypeOK and BootableHost say.
LEMMA TypedHost == TypeInv /\ BootableHost => Typed
  BY DEF TypeInv, TypeOK, BootableHost, Typed

\* The CR in memory is one.
LEMMA InMemoryType == Typed => ibu \in CRs
  BY DEF Typed

\* The stage whose handler runs, from the conditions in memory.
LEMMA HandlingIs ==
    /\ Handling("Prep") => ibu.conds["PrepInProgress"] = "InProgress" /\ ~Leaving(ibu)
    /\ Handling("Upgrade") => ibu.conds["UpgradeInProgress"] = "InProgress" /\ ~Leaving(ibu)
    /\ Handling("Rollback") => ibu.conds["RollbackInProgress"] = "InProgress" /\ ~Leaving(ibu)
    /\ Handling("Idle") => Leaving(ibu)
    /\ \A stage : Handling(stage) => pc = "handle"
  BY Types, SMTT(30) DEF Handling, GetInProgressStage, IsStageInProgress, IsTrue, Leaving,
       InProgressTypes, CompletedTypes

\* What the handlers may report of the stage in progress.
LEMMA ReportsSound ==
    ASSUME Typed, Sound(ibu, booted), Fits(ibu, booted)
    PROVE  /\ ibu.conds["PrepInProgress"] = "InProgress" /\ ~Leaving(ibu) =>
                LET y == Failed(ibu, "Prep") IN
                Sound(y, booted) /\ Fits(y, booted) /\ y.target = ibu.target /\ Begun(y) /\ ~Moving(y)
           /\ Moving(ibu) /\ ~Leaving(ibu) =>
                LET y == Failed(ibu, "Upgrade") IN
                Sound(y, booted) /\ Fits(y, booted) /\ y.target = ibu.target /\ Begun(y) /\ ~Moving(y)
           /\ Moving(ibu) /\ ~Leaving(ibu) /\ ibu.target = booted =>
                LET y == Completed(ibu, "Upgrade") IN
                Sound(y, booted) /\ Fits(y, booted) /\ y.target = ibu.target /\ Begun(y) /\ ~Moving(y)
           /\ ibu.conds["RollbackInProgress"] = "InProgress" /\ ~Leaving(ibu) =>
                LET y == Failed(ibu, "Rollback") IN
                Sound(y, booted) /\ Fits(y, booted) /\ y.target = ibu.target /\ Begun(y) /\ ~Moving(y)
           /\ ibu.conds["RollbackInProgress"] = "InProgress" /\ ~Leaving(ibu) /\ ibu.target # booted =>
                LET y == Completed(ibu, "Rollback") IN
                Sound(y, booted) /\ Fits(y, booted) /\ y.target = ibu.target /\ Begun(y) /\ ~Moving(y)
           /\ Leaving(ibu) => \A reason \in IdleInProgressReasons :
                LET y == [ibu EXCEPT !.conds = SetCondition(@, "Idle", reason)] IN
                (reason \in {"Aborting", "AbortFailed"} => ibu.target # booted)
                => Sound(y, booted) /\ Fits(y, booted) /\ y.target = ibu.target /\ Begun(y) /\ (Moving(y) => Moving(ibu))
  <1>w1. LET y == Failed(ibu, "Prep") IN
          /\ y.stage = ibu.stage /\ y.target = ibu.target /\ y.next = ibu.next
          /\ y.conds["PrepInProgress"] = "Failed" /\ y.conds["PrepCompleted"] = "Failed"
          /\ \A t \in ConditionTypes \ {"PrepInProgress", "PrepCompleted"} : y.conds[t] = ibu.conds[t]
    BY FailedWrites, Types, InMemoryType, Zenon
  <1>w2. LET y == Failed(ibu, "Upgrade") IN
          /\ y.stage = ibu.stage /\ y.target = ibu.target /\ y.next = ibu.next
          /\ y.conds["UpgradeInProgress"] = "Failed" /\ y.conds["UpgradeCompleted"] = "Failed"
          /\ \A t \in ConditionTypes \ {"UpgradeInProgress", "UpgradeCompleted"} : y.conds[t] = ibu.conds[t]
    BY FailedWrites, Types, InMemoryType, Zenon
  <1>w3. LET y == Completed(ibu, "Upgrade") IN
          /\ y.stage = ibu.stage /\ y.target = ibu.target /\ y.next = ibu.next
          /\ y.conds["UpgradeInProgress"] = "Completed" /\ y.conds["UpgradeCompleted"] = "Completed"
          /\ \A t \in ConditionTypes \ {"UpgradeInProgress", "UpgradeCompleted"} : y.conds[t] = ibu.conds[t]
    BY CompletedWrites, Types, InMemoryType, Zenon
  <1>w4. LET y == Failed(ibu, "Rollback") IN
          /\ y.stage = ibu.stage /\ y.target = ibu.target /\ y.next = ibu.next
          /\ y.conds["RollbackInProgress"] = "Failed" /\ y.conds["RollbackCompleted"] = "Failed"
          /\ \A t \in ConditionTypes \ {"RollbackInProgress", "RollbackCompleted"} : y.conds[t] = ibu.conds[t]
    BY FailedWrites, Types, InMemoryType, Zenon
  <1>w5. LET y == Completed(ibu, "Rollback") IN
          /\ y.stage = ibu.stage /\ y.target = ibu.target /\ y.next = ibu.next
          /\ y.conds["RollbackInProgress"] = "Completed" /\ y.conds["RollbackCompleted"] = "Completed"
          /\ \A t \in ConditionTypes \ {"RollbackInProgress", "RollbackCompleted"} : y.conds[t] = ibu.conds[t]
    BY CompletedWrites, Types, InMemoryType, Zenon
  <1> USE Types DEF Typed, Sound, Consistent, Fits, Idling, Begun, Working, Moving, Leaving, Preparing, Prepared,
        PivotedIn, InProgressTypes, CompletedTypes, Unset, IdleInProgressReasons
  <1>1. ASSUME ibu.conds["PrepInProgress"] = "InProgress" /\ ~Leaving(ibu)
       PROVE  LET y == Failed(ibu, "Prep") IN
              Sound(y, booted) /\ Fits(y, booted) /\ y.target = ibu.target /\ Begun(y) /\ ~Moving(y)
    <2> DEFINE y == Failed(ibu, "Prep")
    <2>1. /\ y.stage = ibu.stage /\ y.target = ibu.target /\ y.next = ibu.next
          /\ y.conds["PrepInProgress"] = "Failed" /\ y.conds["PrepCompleted"] = "Failed"
          /\ \A t \in ConditionTypes \ {"PrepInProgress", "PrepCompleted"} : y.conds[t] = ibu.conds[t]
      BY <1>w1, Zenon
    <2> HIDE DEF y
    <2>2. Sound(y, booted)
      BY <1>1, <2>1
    <2>3. Fits(y, booted)
      BY <1>1, <2>1
    <2> QED BY <1>1, <2>1, <2>2, <2>3 DEF y
  <1>2. ASSUME Moving(ibu) /\ ~Leaving(ibu)
       PROVE  LET y == Failed(ibu, "Upgrade") IN
              Sound(y, booted) /\ Fits(y, booted) /\ y.target = ibu.target /\ Begun(y) /\ ~Moving(y)
    <2> DEFINE y == Failed(ibu, "Upgrade")
    <2>1. /\ y.stage = ibu.stage /\ y.target = ibu.target /\ y.next = ibu.next
          /\ y.conds["UpgradeInProgress"] = "Failed" /\ y.conds["UpgradeCompleted"] = "Failed"
          /\ \A t \in ConditionTypes \ {"UpgradeInProgress", "UpgradeCompleted"} : y.conds[t] = ibu.conds[t]
      BY <1>w2, Zenon
    <2> HIDE DEF y
    <2>2. Sound(y, booted)
      BY <1>2, <2>1
    <2>3. Fits(y, booted)
      BY <1>2, <2>1
    <2> QED BY <1>2, <2>1, <2>2, <2>3 DEF y
  <1>3. ASSUME Moving(ibu) /\ ~Leaving(ibu) /\ ibu.target = booted
       PROVE  LET y == Completed(ibu, "Upgrade") IN
              Sound(y, booted) /\ Fits(y, booted) /\ y.target = ibu.target /\ Begun(y) /\ ~Moving(y)
    <2> DEFINE y == Completed(ibu, "Upgrade")
    <2>1. /\ y.stage = ibu.stage /\ y.target = ibu.target /\ y.next = ibu.next
          /\ y.conds["UpgradeInProgress"] = "Completed" /\ y.conds["UpgradeCompleted"] = "Completed"
          /\ \A t \in ConditionTypes \ {"UpgradeInProgress", "UpgradeCompleted"} : y.conds[t] = ibu.conds[t]
      BY <1>w3, Zenon
    <2> HIDE DEF y
    <2>2. Sound(y, booted)
      BY <1>3, <2>1
    <2>3. Fits(y, booted)
      BY <1>3, <2>1
    <2> QED BY <1>3, <2>1, <2>2, <2>3 DEF y
  <1>4. ASSUME ibu.conds["RollbackInProgress"] = "InProgress" /\ ~Leaving(ibu)
       PROVE  LET y == Failed(ibu, "Rollback") IN
              Sound(y, booted) /\ Fits(y, booted) /\ y.target = ibu.target /\ Begun(y) /\ ~Moving(y)
    <2> DEFINE y == Failed(ibu, "Rollback")
    <2>1. /\ y.stage = ibu.stage /\ y.target = ibu.target /\ y.next = ibu.next
          /\ y.conds["RollbackInProgress"] = "Failed" /\ y.conds["RollbackCompleted"] = "Failed"
          /\ \A t \in ConditionTypes \ {"RollbackInProgress", "RollbackCompleted"} : y.conds[t] = ibu.conds[t]
      BY <1>w4, Zenon
    <2> HIDE DEF y
    <2>2. Sound(y, booted)
      BY <1>4, <2>1
    <2>3. Fits(y, booted)
      BY <1>4, <2>1
    <2> QED BY <1>4, <2>1, <2>2, <2>3 DEF y
  <1>5. ASSUME ibu.conds["RollbackInProgress"] = "InProgress" /\ ~Leaving(ibu)
               /\ ibu.target # booted
       PROVE  LET y == Completed(ibu, "Rollback") IN
              Sound(y, booted) /\ Fits(y, booted) /\ y.target = ibu.target /\ Begun(y) /\ ~Moving(y)
    <2> DEFINE y == Completed(ibu, "Rollback")
    <2>1. /\ y.stage = ibu.stage /\ y.target = ibu.target /\ y.next = ibu.next
          /\ y.conds["RollbackInProgress"] = "Completed" /\ y.conds["RollbackCompleted"] = "Completed"
          /\ \A t \in ConditionTypes \ {"RollbackInProgress", "RollbackCompleted"} : y.conds[t] = ibu.conds[t]
      BY <1>w5, Zenon
    <2> HIDE DEF y
    <2>2. Sound(y, booted)
      BY <1>5, <2>1
    <2>3. Fits(y, booted)
      BY <1>5, <2>1
    <2> QED BY <1>5, <2>1, <2>2, <2>3 DEF y
  <1>6. ASSUME Leaving(ibu), NEW reason \in IdleInProgressReasons,
               reason \in {"Aborting", "AbortFailed"} => ibu.target # booted
       PROVE  LET y == [ibu EXCEPT !.conds = SetCondition(@, "Idle", reason)] IN
              Sound(y, booted) /\ Fits(y, booted) /\ y.target = ibu.target /\ Begun(y) /\ (Moving(y) => Moving(ibu))
    <2> DEFINE y == [ibu EXCEPT !.conds = SetCondition(@, "Idle", reason)]
    <2>1. /\ y.stage = ibu.stage /\ y.target = ibu.target /\ y.next = ibu.next
          /\ y.conds["Idle"] = reason
          /\ \A t \in ConditionTypes \ {"Idle"} : y.conds[t] = ibu.conds[t]
      BY IdleWrites, InMemoryType, Zenon
    <2> HIDE DEF y
    <2>2. Sound(y, booted)
      BY <1>6, <2>1
    <2>3. Fits(y, booted)
      BY <1>6, <2>1
    <2> QED BY <1>6, <2>1, <2>2, <2>3 DEF y
  <1> QED BY <1>1, <1>2, <1>3, <1>4, <1>5, <1>6

\* A handler works on a CR whose status says so.
LEMMA WorkingHandler ==
    ASSUME Inv, Typed, pc \in HandlePCs,
           Leaving(ibu) \/ \E t \in InProgressTypes : ibu.conds[t] = "InProgress"
    PROVE  Working(ibu) /\ Working(cr[booted]) /\ Begun(cr[booted]) /\ ibu.target = cr[booted].target
  <1>1. Working(ibu)
    BY DEF Inv, SoundInv, Sound, Consistent, Working, Leaving, Unset, IdleInProgressReasons, HandlePCs
  <1> QED BY <1>1 DEF Inv, MemInv, Working, Begun, HandlePCs, Operating, Restoring, RestorePCs

\* The handlers that only report.
LEMMA ReportsStep ==
    ASSUME Supported, Typed, Typed', MonitorRetired, MonitorRetired', Inv,
           HandleNothing \/ PrepWait \/ PrepValidationFailed \/ PrepJobFailed \/ PrePivotWait \/
           PrePivotFailed \/ PrePivotError \/ PrePivotRebootFailed \/ PostPivotWait \/
           AutoRollbackError \/ finishRollback \/ RollbackWait \/ RollbackFailed
    PROVE  Inv'
  <1>1. CASE HandleNothing
    <2>1. /\ ToFinal(ibu, FALSE)
          /\ UNCHANGED <<booted, default, deployed, cr, file, staterootJob, pod, deleted, monitor>>
      BY <1>1 DEF HandleNothing, hostVars, storeVars, jobVars, envVars
    <2>2. Operating /\ Sound(ibu, booted) /\ Fits(ibu, booted)
      BY <1>1, HandlingIs DEF HandleNothing, Operating, Restoring, RestorePCs, Inv, SoundInv, FitsInv
    <2> QED BY <2>1, <2>2, ReportStep DEF Typed
  <1>2. CASE PrepWait
    <2>1. /\ ToFinal(ibu, TRUE)
          /\ UNCHANGED <<booted, default, deployed, cr, file, staterootJob, pod, deleted, monitor>>
      BY <1>2 DEF PrepWait, hostVars, storeVars, jobVars, envVars
    <2>2. Operating /\ Sound(ibu, booted) /\ Fits(ibu, booted)
      BY <1>2, HandlingIs DEF PrepWait, Operating, Restoring, RestorePCs, Inv, SoundInv, FitsInv
    <2> QED BY <2>1, <2>2, ReportStep DEF Typed
  <1>3. CASE PrepValidationFailed
    <2>1. /\ ToFinal(Failed(ibu, "Prep"), FALSE)
          /\ UNCHANGED <<booted, default, deployed, cr, file, staterootJob, pod, deleted, monitor>>
      BY <1>3 DEF PrepValidationFailed, hostVars, storeVars, jobVars, envVars
    <2>2. Operating /\ Sound(ibu, booted) /\ Fits(ibu, booted)
      BY <1>3, HandlingIs DEF PrepValidationFailed, Operating, Restoring, RestorePCs, Inv, SoundInv,
           FitsInv
    <2>3. /\ Sound(Failed(ibu, "Prep"), booted) /\ Fits(Failed(ibu, "Prep"), booted)
          /\ Failed(ibu, "Prep").target = ibu.target
          /\ Begun(Failed(ibu, "Prep")) /\ ~Moving(Failed(ibu, "Prep"))
      BY <1>3, <2>2, HandlingIs, ReportsSound DEF PrepValidationFailed
    <2>4. Begun(cr[booted])
      BY <1>3, <2>2, HandlingIs, WorkingHandler DEF HandlePCs, InProgressTypes, PrepValidationFailed
    <2> QED BY <2>1, <2>2, <2>3, <2>4, ReportStep DEF Typed
  <1>4. CASE PrepJobFailed
    <2>1. /\ ToFinal(Failed(ibu, "Prep"), FALSE)
          /\ UNCHANGED <<booted, default, deployed, cr, file, staterootJob, pod, deleted, monitor>>
      BY <1>4 DEF PrepJobFailed, hostVars, storeVars, jobVars, envVars
    <2>2. Operating /\ Sound(ibu, booted) /\ Fits(ibu, booted)
      BY <1>4, HandlingIs DEF PrepJobFailed, Operating, Restoring, RestorePCs, Inv, SoundInv, FitsInv
    <2>3. /\ Sound(Failed(ibu, "Prep"), booted) /\ Fits(Failed(ibu, "Prep"), booted)
          /\ Failed(ibu, "Prep").target = ibu.target
          /\ Begun(Failed(ibu, "Prep")) /\ ~Moving(Failed(ibu, "Prep"))
      BY <1>4, <2>2, HandlingIs, ReportsSound DEF PrepJobFailed
    <2>4. Begun(cr[booted])
      BY <1>4, <2>2, HandlingIs, WorkingHandler DEF HandlePCs, InProgressTypes, PrepJobFailed
    <2> QED BY <2>1, <2>2, <2>3, <2>4, ReportStep DEF Typed
  <1>5. CASE PrePivotWait
    <2>1. /\ ToFinal(ibu, TRUE)
          /\ UNCHANGED <<booted, default, deployed, cr, file, staterootJob, pod, deleted, monitor>>
      BY <1>5 DEF PrePivotWait, hostVars, storeVars, jobVars, envVars
    <2>2. Operating /\ Sound(ibu, booted) /\ Fits(ibu, booted)
      BY <1>5, HandlingIs DEF PrePivotWait, Operating, Restoring, RestorePCs, Inv, SoundInv, FitsInv,
           PrePivoting
    <2> QED BY <2>1, <2>2, ReportStep DEF Typed
  <1>6. CASE PrePivotFailed
    <2>1. /\ ToFinal(Failed(ibu, "Upgrade"), FALSE)
          /\ UNCHANGED <<booted, default, deployed, cr, file, staterootJob, pod, deleted, monitor>>
      BY <1>6 DEF PrePivotFailed, hostVars, storeVars, jobVars, envVars
    <2>2. Operating /\ Sound(ibu, booted) /\ Fits(ibu, booted)
      BY <1>6, HandlingIs DEF PrePivotFailed, Operating, Restoring, RestorePCs, Inv, SoundInv, FitsInv,
           PrePivoting
    <2>3. /\ Sound(Failed(ibu, "Upgrade"), booted) /\ Fits(Failed(ibu, "Upgrade"), booted)
          /\ Failed(ibu, "Upgrade").target = ibu.target
          /\ Begun(Failed(ibu, "Upgrade")) /\ ~Moving(Failed(ibu, "Upgrade"))
      BY <1>6, <2>2, HandlingIs, ReportsSound DEF PrePivotFailed, PrePivoting, Moving
    <2>4. Begun(cr[booted])
      BY <1>6, <2>2, HandlingIs, WorkingHandler DEF HandlePCs, InProgressTypes, PrePivotFailed,
           PrePivoting, Moving
    <2> QED BY <2>1, <2>2, <2>3, <2>4, ReportStep DEF Typed
  <1>7. CASE PrePivotError
    <2>1. /\ ToFinal(ibu, TRUE)
          /\ UNCHANGED <<booted, default, deployed, cr, file, staterootJob, pod, deleted, monitor>>
      BY <1>7 DEF PrePivotError, hostVars, storeVars, jobVars, envVars
    <2>2. Operating /\ Sound(ibu, booted) /\ Fits(ibu, booted)
      BY <1>7, HandlingIs DEF PrePivotError, Operating, Restoring, RestorePCs, Inv, SoundInv, FitsInv,
           PrePivoting
    <2> QED BY <2>1, <2>2, ReportStep DEF Typed
  <1>8. CASE PrePivotRebootFailed
    <2>1. /\ ToFinal(Failed(ibu, "Upgrade"), FALSE)
          /\ UNCHANGED <<booted, default, deployed, cr, file, staterootJob, pod, deleted, monitor>>
      BY <1>8 DEF PrePivotRebootFailed, hostVars, storeVars, jobVars, envVars
    <2>2. Operating /\ Sound(ibu, booted) /\ Fits(ibu, booted)
      BY <1>8, HandlingIs DEF PrePivotRebootFailed, Operating, Restoring, RestorePCs, Inv, SoundInv,
           FitsInv
    <2>3. /\ Sound(Failed(ibu, "Upgrade"), booted) /\ Fits(Failed(ibu, "Upgrade"), booted)
          /\ Failed(ibu, "Upgrade").target = ibu.target
          /\ Begun(Failed(ibu, "Upgrade")) /\ ~Moving(Failed(ibu, "Upgrade"))
      BY <1>8, <2>2, HandlingIs, ReportsSound DEF PrePivotRebootFailed, Inv, PivotInv, Moving
    <2>4. Begun(cr[booted])
      BY <1>8, <2>2, HandlingIs, WorkingHandler DEF HandlePCs, InProgressTypes, PrePivotRebootFailed,
           Inv, PivotInv, Moving
    <2> QED BY <2>1, <2>2, <2>3, <2>4, ReportStep DEF Typed
  <1>9. CASE PostPivotWait
    <2>1. /\ ToFinal(ibu, TRUE)
          /\ UNCHANGED <<booted, default, deployed, cr, file, staterootJob, pod, deleted, monitor>>
      BY <1>9 DEF PostPivotWait, hostVars, storeVars, jobVars, envVars
    <2>2. Operating /\ Sound(ibu, booted) /\ Fits(ibu, booted)
      BY <1>9, HandlingIs DEF PostPivotWait, Operating, Restoring, RestorePCs, Inv, SoundInv, FitsInv,
           PostPivoting
    <2> QED BY <2>1, <2>2, ReportStep DEF Typed
  <1>10. CASE AutoRollbackError
    <2>1. /\ ToFinal(ibu, FALSE)
          /\ UNCHANGED <<booted, default, deployed, cr, file, staterootJob, pod, deleted, monitor>>
      BY <1>10 DEF AutoRollbackError, hostVars, storeVars, jobVars, envVars
    <2>2. Operating /\ Sound(ibu, booted) /\ Fits(ibu, booted)
      BY <1>10, HandlingIs DEF AutoRollbackError, Operating, Restoring, RestorePCs, Inv, SoundInv,
           FitsInv
    <2> QED BY <2>1, <2>2, ReportStep DEF Typed
  <1>11. CASE finishRollback
    <2>1. /\ ToFinal(Completed(ibu, "Rollback"), FALSE)
          /\ UNCHANGED <<booted, default, deployed, cr, file, staterootJob, pod, deleted, monitor>>
      BY <1>11 DEF finishRollback, hostVars, storeVars, jobVars, envVars
    <2>2. Operating /\ Sound(ibu, booted) /\ Fits(ibu, booted)
      BY <1>11, HandlingIs DEF finishRollback, Operating, Restoring, RestorePCs, Inv, SoundInv,
           FitsInv, isAfterPivot
    <2>3. /\ Sound(Completed(ibu, "Rollback"), booted) /\ Fits(Completed(ibu, "Rollback"), booted)
          /\ Completed(ibu, "Rollback").target = ibu.target
          /\ Begun(Completed(ibu, "Rollback")) /\ ~Moving(Completed(ibu, "Rollback"))
      BY <1>11, <2>2, HandlingIs, ReportsSound DEF finishRollback, isAfterPivot
    <2>4. Begun(cr[booted])
      BY <1>11, <2>2, HandlingIs, WorkingHandler DEF HandlePCs, InProgressTypes, finishRollback,
           isAfterPivot
    <2> QED BY <2>1, <2>2, <2>3, <2>4, ReportStep DEF Typed
  <1>12. CASE RollbackWait
    <2>1. /\ ToFinal(ibu, TRUE)
          /\ UNCHANGED <<booted, default, deployed, cr, file, staterootJob, pod, deleted, monitor>>
      BY <1>12 DEF RollbackWait, hostVars, storeVars, jobVars, envVars
    <2>2. Operating /\ Sound(ibu, booted) /\ Fits(ibu, booted)
      BY <1>12, HandlingIs DEF RollbackWait, Operating, Restoring, RestorePCs, Inv, SoundInv, FitsInv,
           Rollbacking
    <2> QED BY <2>1, <2>2, ReportStep DEF Typed
  <1>13. CASE RollbackFailed
    <2>1. /\ ToFinal(Failed(ibu, "Rollback"), FALSE)
          /\ UNCHANGED <<booted, default, deployed, cr, file, staterootJob, pod, deleted, monitor>>
      BY <1>13 DEF RollbackFailed, hostVars, storeVars, jobVars, envVars
    <2>2. Operating /\ Sound(ibu, booted) /\ Fits(ibu, booted)
      BY <1>13, HandlingIs DEF RollbackFailed, Operating, Restoring, RestorePCs, Inv, SoundInv,
           FitsInv, Rollbacking
    <2>3. /\ Sound(Failed(ibu, "Rollback"), booted) /\ Fits(Failed(ibu, "Rollback"), booted)
          /\ Failed(ibu, "Rollback").target = ibu.target
          /\ Begun(Failed(ibu, "Rollback")) /\ ~Moving(Failed(ibu, "Rollback"))
      BY <1>13, <2>2, HandlingIs, ReportsSound DEF RollbackFailed, Rollbacking, Inv, PivotInv
    <2>4. Begun(cr[booted])
      BY <1>13, <2>2, HandlingIs, WorkingHandler DEF HandlePCs, InProgressTypes, RollbackFailed,
           Rollbacking, Inv, PivotInv
    <2> QED BY <2>1, <2>2, <2>3, <2>4, ReportStep DEF Typed
  <1> QED BY <1>1, <1>2, <1>3, <1>4, <1>5, <1>6, <1>7, <1>8, <1>9, <1>10, <1>11, <1>12, <1>13

\* A CR without a target names no stateroot.
LEMMA NoVersion == 0 \notin Version
  BY DEF Version

\* A CR without status.
LEMMA BlankCR ==
    ASSUME NEW x \in CRs, x.conds = NoConditions
    PROVE  /\ ~Begun(x) /\ ~Idling(x) /\ ~Working(x) /\ ~Leaving(x) /\ ~Preparing(x)
           /\ ~Prepared(x) /\ ~PrepDone(x) /\ ~Moving(x)
           /\ \A s : ~PivotedIn(x, s)
           /\ x.stage \in {"Idle", "None"} \/ x.target # 0 => \A s : Sound(x, s)
  BY Types DEF NoConditions, Begun, Idling, Working, Leaving, Preparing, Prepared, PrepDone, Moving,
     PivotedIn, Sound, Consistent, Unset, InProgressTypes, CompletedTypes, IdleInProgressReasons

\* The CRs that are not there, and the first one.
LEMMA NoCRIs == /\ NoCR \in CRs /\ NoCR.conds = NoConditions /\ NoCR.stage = "None" /\ NoCR.target = 0
                /\ InitialCR \in CRs /\ InitialCR.conds = NoConditions /\ InitialCR.stage = "Idle"
                /\ InitialCR.target = 0 /\ ~Exists(NoCR) /\ Exists(InitialCR)
  BY InitialCRType DEF NoCR, InitialCR, Exists

\* A CR that is blank, there or not.
LEMMA BlankIs ==
    ASSUME NEW x \in {NoCR, InitialCR}, NEW s
    PROVE  /\ ~Begun(x) /\ ~Idling(x) /\ ~Working(x) /\ ~Leaving(x) /\ ~Preparing(x)
           /\ ~Prepared(x) /\ ~PrepDone(x) /\ ~Moving(x)
           /\ ~PivotedIn(x, s)
           /\ Sound(x, s)
  BY BlankCR, NoCRIs

\* A saved CR.
LEMMA SavedIs ==
    ASSUME NEW x \in CRs, NEW s \in Version, Saved(x, s)
    PROVE  /\ Sound(x, s) /\ Begun(x) /\ ~Idling(x) /\ Working(x) /\ ~Leaving(x) /\ ~Preparing(x)
           /\ PrepDone(x) /\ x.target \in Version /\ x.target # 0
           /\ Prepared(x) \/ Moving(x) => x.target = s
           /\ Prepared(x) => Moving(x)
           /\ x.target # s => ~Prepared(x) /\ ~Moving(x)
           /\ PivotedIn(x, s) => x.target = s
           /\ \A y : y.conds = x.conds /\ y.target = x.target =>
                 /\ Begun(y) /\ ~Idling(y) /\ Working(y) /\ ~Leaving(y) /\ ~Preparing(y) /\ PrepDone(y)
                 /\ x.target # s => ~Prepared(y) /\ ~Moving(y)
                 /\ PivotedIn(y, s) => x.target = s
  <1>1. x.target \in Version \cup {0}
    BY CRParts
  <1> QED BY <1>1 DEF Saved, Sound, Consistent, Begun, Idling, Working, Leaving, Preparing,
     Prepared, PrepDone, Moving, PivotedIn, CompletedTypes

\* An upgrade in progress has a target.
LEMMA TargetKnown ==
    ASSUME NEW x \in CRs, NEW s \in Version, Sound(x, s)
    PROVE  /\ Moving(x) => Working(x) /\ PrepDone(x)
           /\ Preparing(x) => Working(x) /\ ~Prepared(x) /\ ~Moving(x) /\ ~PrepDone(x)
           /\ Prepared(x) => Working(x) /\ PrepDone(x)
           /\ Working(x) => Begun(x) /\ ~Idling(x) /\ x.target \in Version
           /\ Leaving(x) => Working(x) /\ ~Prepared(x) /\ ~Preparing(x)
           /\ Idling(x) => Begun(x) /\ ~PrepDone(x)
           /\ PivotedIn(x, s) => PrepDone(x) /\ x.target = s
           /\ PrepDone(x) => Working(x)
  <1>1. x.target \in Version \cup {0}
    BY CRParts
  <1> QED BY <1>1 DEF Sound, Consistent, Begun, Idling, Working, Leaving, Preparing, Prepared,
     PrepDone, Moving, PivotedIn, Unset, InProgressTypes, CompletedTypes, IdleInProgressReasons

\* InitIBU.
LEMMA InitIBUStep ==
    ASSUME Supported, Typed, Typed', MonitorRetired, MonitorRetired', Inv, InitIBU
    PROVE  Inv'
  <1>1. CASE InitIBUCreate
    <2>a. \A s \in Version : cr'[s] = cr[s] \/ (s = booted /\ cr[s] = NoCR /\ cr'[s] = InitialCR)
      BY <1>1 DEF InitIBUCreate, Inv, LifeInv, Typed
    <2>b. \A s \in Version :
            /\ cr'[s].target = cr[s].target /\ (Begun(cr'[s]) <=> Begun(cr[s]))
            /\ Moving(cr'[s]) <=> Moving(cr[s])
            /\ PrepDone(cr'[s]) <=> PrepDone(cr[s])
            /\ s # booted => cr'[s] = cr[s]
            /\ Idling(cr'[s]) => Idling(cr[s])
            /\ Preparing(cr'[s]) => Preparing(cr[s])
            /\ Prepared(cr'[s]) => Prepared(cr[s])
            /\ PivotedIn(cr'[s], s) => PivotedIn(cr[s], s)
      BY <2>a, NoCRIs, BlankIs
    <2>1. LifeInv'
      BY <1>1, NoCRIs, <2>b DEF LifeInv, Restoring, RestorePCs, Inv, Typed, InitIBUCreate, hostVars,
         envVars
    <2>2. SoundInv'
      BY <1>1, BlankIs, <2>a, <2>b DEF SoundInv, Inv, InitIBUCreate, hostVars
    <2>3. FitsInv'
      BY <1>1, <2>b DEF FitsInv, Fits, AtHome, Inv, Typed, InitIBUCreate, InitIBURequired, hostVars,
         jobVars
    <2>4. HostInv'
      BY <1>1 DEF HostInv, Running, Inv, Typed, InitIBUCreate, hostVars, jobVars
    <2>5. MemInv'
      BY <1>1 DEF MemInv, Operating, Restoring, RestorePCs, HandlePCs, AutoPCs, Typed,
         InitIBUCreate, InitIBURequired
    <2>6. PivotInv'
      BY <1>1 DEF PivotInv, AutoPCs, Inv, Typed, InitIBUCreate, hostVars
    <2>7. RememberInv'
      BY <1>1, <2>b DEF RememberInv, Bootable, New, Inv, Typed, InitIBUCreate, InitIBURequired,
         hostVars, jobVars
    <2>8. NewInv'
      BY <1>1, NoVersion, NoCRIs, <2>b DEF NewInv, New, Running, Inv, Typed, InitIBUCreate,
         hostVars, jobVars, LifeInv
    <2>9. LoopInv'
      BY <1>1, <2>b DEF LoopInv, Operating, Restoring, Inv, Typed, InitIBUCreate, InitIBURequired,
         hostVars
    <2> QED BY <2>1, <2>2, <2>3, <2>4, <2>5, <2>6, <2>7, <2>8, <2>9 DEF Inv
  <1>2. CASE InitIBURead
    <2>l. Exists(file[booted])
      BY <1>2 DEF Inv, InitIBURead
    <2>k. /\ Sound(file[booted], booted) /\ Begun(file[booted]) /\ ~Idling(file[booted])
          /\ Working(file[booted]) /\ ~Leaving(file[booted]) /\ ~Preparing(file[booted])
          /\ PrepDone(file[booted]) /\ file[booted].target \in Version
          /\ file[booted].target # 0
          /\ file[booted].target # booted => ~Prepared(file[booted]) /\ ~Moving(file[booted])
          /\ PivotedIn(file[booted], booted) => file[booted].target = booted
      BY <2>l, SavedIs DEF Typed, Inv, SoundInv
    <2>1. LifeInv'
      BY <1>2 DEF LifeInv, Restoring, Operating, RestorePCs, Inv, InitIBURead, InitIBURequired,
         hostVars, storeVars, envVars
    <2>2. SoundInv'
      BY <1>2, <2>k DEF SoundInv, Inv, Typed, InitIBURead, hostVars, storeVars
    <2>3. FitsInv'
      BY <1>2, <2>k DEF FitsInv, Fits, AtHome, Inv, InitIBURead, InitIBURequired, hostVars,
         storeVars, jobVars, NewInv
    <2>4. HostInv'
      BY <1>2 DEF HostInv, Running, Inv, Typed, InitIBURead, hostVars, storeVars, jobVars
    <2>5. MemInv'
      BY <1>2 DEF MemInv, Operating, Restoring, RestorePCs, HandlePCs, AutoPCs, InitIBURead
    <2>6. PivotInv'
      BY <1>2 DEF PivotInv, AutoPCs, Inv, Typed, InitIBURead
    <2>7. RememberInv'
      BY <1>2 DEF RememberInv, Bootable, New, Inv, InitIBURead, hostVars, storeVars, jobVars
    <2>8. NewInv'
      BY <1>2 DEF NewInv, New, Running, Inv, InitIBURead, hostVars, storeVars, jobVars
    <2>9. LoopInv'
      BY <1>2 DEF LoopInv, Operating, Restoring, RestorePCs, Inv, InitIBURead, hostVars, storeVars
    <2> QED BY <2>1, <2>2, <2>3, <2>4, <2>5, <2>6, <2>7, <2>8, <2>9 DEF Inv
  <1>3. CASE InitIBUDelete
    <2>l. ibu = file[booted] /\ ~up /\ Exists(file[booted])
      BY <1>3 DEF Inv, LifeInv, Restoring, RestorePCs, InitIBUDelete
    <2>k. /\ Sound(file[booted], booted) /\ Begun(file[booted]) /\ ~Idling(file[booted])
          /\ Working(file[booted]) /\ ~Leaving(file[booted]) /\ ~Preparing(file[booted])
          /\ PrepDone(file[booted]) /\ file[booted].target \in Version
          /\ file[booted].target # 0
          /\ file[booted].target # booted => ~Prepared(file[booted]) /\ ~Moving(file[booted])
          /\ PivotedIn(file[booted], booted) => file[booted].target = booted
      BY <2>l, SavedIs DEF Typed, Inv, SoundInv
    <2>b. /\ \A s \in Version \ {booted} : cr'[s] = cr[s]
          /\ ~Begun(cr'[booted]) /\ ~Idling(cr'[booted]) /\ ~Working(cr'[booted])
          /\ ~Leaving(cr'[booted]) /\ ~Preparing(cr'[booted]) /\ ~Prepared(cr'[booted])
          /\ ~PrepDone(cr'[booted]) /\ ~Moving(cr'[booted]) /\ ~PivotedIn(cr'[booted], booted)
          /\ Sound(cr'[booted], booted)
      BY <1>3, NoCRIs, BlankIs DEF InitIBUDelete, Typed
    <2>1. LifeInv'
      BY <1>3 DEF LifeInv, Restoring, Operating, RestorePCs, Inv, Typed, InitIBUDelete, hostVars,
         envVars
    <2>2. SoundInv'
      BY <1>3, <2>b DEF SoundInv, Inv, Typed, InitIBUDelete, hostVars, storeVars, jobVars, envVars
    <2>3. FitsInv'
      BY <1>3, <2>b DEF FitsInv, Fits, AtHome, Inv, InitIBUDelete, hostVars, jobVars
    <2>4. HostInv'
      BY <1>3 DEF HostInv, Running, Inv, Typed, InitIBUDelete, hostVars, storeVars, jobVars, envVars
    <2>5. MemInv'
      BY <1>3 DEF MemInv, Operating, Restoring, RestorePCs, HandlePCs, AutoPCs, InitIBUDelete
    <2>6. PivotInv'
      BY <1>3 DEF PivotInv, AutoPCs, Inv, Typed, InitIBUDelete, hostVars, storeVars, jobVars,
         envVars
    <2>7. RememberInv'
      BY <1>3, <2>l, <2>k, <2>b DEF RememberInv, Bootable, New, Inv, Typed, InitIBUDelete, hostVars,
         jobVars
    <2>8. NewInv'
      BY <1>3, <2>l, <2>k, <2>b DEF NewInv, New, Inv, Typed, InitIBUDelete, hostVars, jobVars
    <2>9. LoopInv'
      BY <1>3, <2>b DEF LoopInv, Operating, Restoring, RestorePCs, Inv, InitIBUDelete, hostVars
    <2> QED BY <2>1, <2>2, <2>3, <2>4, <2>5, <2>6, <2>7, <2>8, <2>9 DEF Inv
  <1>4. CASE InitIBURecreate
    <2>l. ibu = file[booted] /\ ~up /\ Exists(file[booted])
      BY <1>4 DEF Inv, LifeInv, Restoring, RestorePCs, InitIBURecreate
    <2>k. /\ Sound(file[booted], booted) /\ Begun(file[booted]) /\ ~Idling(file[booted])
          /\ Working(file[booted]) /\ ~Leaving(file[booted]) /\ ~Preparing(file[booted])
          /\ PrepDone(file[booted]) /\ file[booted].target \in Version
          /\ file[booted].target # 0
          /\ file[booted].target # booted => ~Prepared(file[booted]) /\ ~Moving(file[booted])
          /\ PivotedIn(file[booted], booted) => file[booted].target = booted
      BY <2>l, SavedIs DEF Typed, Inv, SoundInv
    <2>a. /\ cr'[booted] \in CRs /\ cr'[booted].conds = NoConditions
          /\ cr'[booted].target = ibu.target /\ cr'[booted].stage = ibu.stage
      BY <1>4 DEF InitIBURecreate, Typed, CRs
    <2>b. /\ \A s \in Version \ {booted} : cr'[s] = cr[s]
          /\ ~Begun(cr'[booted]) /\ ~Idling(cr'[booted]) /\ ~Working(cr'[booted])
          /\ ~Leaving(cr'[booted]) /\ ~Preparing(cr'[booted]) /\ ~Prepared(cr'[booted])
          /\ ~PrepDone(cr'[booted]) /\ ~Moving(cr'[booted]) /\ ~PivotedIn(cr'[booted], booted)
          /\ Sound(cr'[booted], booted)
      BY <1>4, <2>a, <2>k, <2>l, BlankCR DEF InitIBURecreate, Typed
    <2>1. LifeInv'
      BY <1>4, <2>a DEF LifeInv, Restoring, Operating, RestorePCs, Inv, InitIBURecreate, hostVars,
         envVars, Exists
    <2>2. SoundInv'
      BY <1>4, <2>b DEF SoundInv, Inv, Typed, InitIBURecreate, hostVars, storeVars, jobVars, envVars
    <2>3. FitsInv'
      BY <1>4, <2>b DEF FitsInv, Fits, AtHome, Inv, InitIBURecreate, hostVars, jobVars
    <2>4. HostInv'
      BY <1>4 DEF HostInv, Running, Inv, Typed, InitIBURecreate, hostVars, storeVars, jobVars,
         envVars
    <2>5. MemInv'
      BY <1>4 DEF MemInv, Operating, Restoring, RestorePCs, HandlePCs, AutoPCs, InitIBURecreate
    <2>6. PivotInv'
      BY <1>4 DEF PivotInv, AutoPCs, Inv, Typed, InitIBURecreate, hostVars, storeVars, jobVars,
         envVars
    <2>7. RememberInv'
      BY <1>4, <2>l, <2>k, <2>b DEF RememberInv, Bootable, New, Inv, Typed, InitIBURecreate,
         hostVars, jobVars
    <2>8. NewInv'
      BY <1>4, <2>l, <2>k, <2>b DEF NewInv, New, Inv, Typed, InitIBURecreate, hostVars, jobVars
    <2>9. LoopInv'
      BY <1>4, <2>b DEF LoopInv, Operating, Restoring, RestorePCs, Inv, InitIBURecreate, hostVars
    <2> QED BY <2>1, <2>2, <2>3, <2>4, <2>5, <2>6, <2>7, <2>8, <2>9 DEF Inv
  <1>5. CASE InitIBUStatus
    <2>l. ibu = file[booted] /\ ~up /\ Exists(file[booted])
      BY <1>5 DEF Inv, LifeInv, Restoring, RestorePCs, InitIBUStatus
    <2>k. /\ Sound(file[booted], booted) /\ Begun(file[booted]) /\ ~Idling(file[booted])
          /\ Working(file[booted]) /\ ~Leaving(file[booted]) /\ ~Preparing(file[booted])
          /\ PrepDone(file[booted]) /\ file[booted].target \in Version
          /\ file[booted].target # 0
          /\ file[booted].target # booted => ~Prepared(file[booted]) /\ ~Moving(file[booted])
          /\ PivotedIn(file[booted], booted) => file[booted].target = booted
      BY <2>l, SavedIs DEF Typed, Inv, SoundInv
    <2>1. LifeInv'
      BY <1>5 DEF LifeInv, Restoring, Operating, RestorePCs, Inv, Typed, InitIBUStatus, hostVars,
         envVars
    <2>2. SoundInv'
      BY <1>5 DEF SoundInv, Inv, Typed, InitIBUStatus, hostVars, storeVars, jobVars, envVars
    <2>3. FitsInv'
      BY <1>5 DEF FitsInv, Fits, AtHome, Inv, InitIBUStatus, hostVars, jobVars
    <2>4. HostInv'
      BY <1>5 DEF HostInv, Running, Inv, Typed, InitIBUStatus, hostVars, storeVars, jobVars, envVars
    <2>5. MemInv'
      BY <1>5 DEF MemInv, Operating, Restoring, RestorePCs, HandlePCs, AutoPCs, InitIBUStatus
    <2>6. PivotInv'
      BY <1>5 DEF PivotInv, AutoPCs, Inv, Typed, InitIBUStatus, hostVars, storeVars, jobVars,
         envVars
    <2>7. RememberInv'
      BY <1>5, <2>l DEF RememberInv, Bootable, New, Inv, InitIBUStatus, hostVars, jobVars
    <2>8. NewInv'
      BY <1>5, <2>l, <2>k DEF NewInv, New, Inv, InitIBUStatus, hostVars, jobVars
    <2>9. LoopInv'
      BY <1>5, <2>l DEF LoopInv, Operating, Restoring, RestorePCs, Inv, InitIBUStatus, hostVars
    <2> QED BY <2>1, <2>2, <2>3, <2>4, <2>5, <2>6, <2>7, <2>8, <2>9 DEF Inv
  <1>6. CASE InitIBURemove
    <2>l. ibu = file[booted] /\ ~up /\ Exists(file[booted])
      BY <1>6 DEF Inv, LifeInv, Restoring, RestorePCs, InitIBURemove
    <2>k. /\ Sound(file[booted], booted) /\ Begun(file[booted]) /\ ~Idling(file[booted])
          /\ Working(file[booted]) /\ ~Leaving(file[booted]) /\ ~Preparing(file[booted])
          /\ PrepDone(file[booted]) /\ file[booted].target \in Version
          /\ file[booted].target # 0
          /\ file[booted].target # booted => ~Prepared(file[booted]) /\ ~Moving(file[booted])
          /\ PivotedIn(file[booted], booted) => file[booted].target = booted
      BY <2>l, SavedIs DEF Typed, Inv, SoundInv
    <2>c. /\ Begun(cr[booted]) /\ ~Preparing(cr[booted]) /\ PrepDone(cr[booted])
          /\ cr[booted].target = file[booted].target
          /\ cr[booted].target # booted => ~Moving(cr[booted])
      BY <1>6, <2>l, SavedIs DEF Typed, Inv, SoundInv, LifeInv, InitIBURemove
    <2>1. LifeInv'
      BY <1>6, BlankIs, <2>l, <2>k, <2>c DEF LifeInv, Restoring, Operating, RestorePCs, Inv, Typed,
         InitIBURemove, hostVars, envVars
    <2>2. SoundInv'
      BY <1>6, NoCRIs, <2>k, <2>c DEF SoundInv, Inv, InitIBURemove
    <2>3. FitsInv'
      BY <1>6 DEF FitsInv, Fits, AtHome, Inv, InitIBURemove, hostVars, jobVars
    <2>4. HostInv'
      BY <1>6 DEF HostInv, Running, Inv, Typed, InitIBURemove, hostVars, storeVars, jobVars, envVars
    <2>5. MemInv'
      BY <1>6 DEF MemInv, Operating, Restoring, RestorePCs, HandlePCs, AutoPCs, InitIBURemove
    <2>6. PivotInv'
      BY <1>6 DEF PivotInv, AutoPCs, Inv, Typed, InitIBURemove, hostVars, storeVars, jobVars,
         envVars
    <2>7. RememberInv'
      BY <1>6, NoCRIs, <2>k, <2>c DEF RememberInv, Bootable, New, Inv, Typed, InitIBURemove,
         hostVars, jobVars
    <2>8. NewInv'
      BY <1>6, NoVersion, NoCRIs, <2>k, <2>c DEF NewInv, New, Running, Inv, Typed, InitIBURemove,
         hostVars, jobVars
    <2>9. LoopInv'
      BY <1>6, <2>c DEF LoopInv, Operating, Restoring, Inv, InitIBURemove, hostVars
    <2> QED BY <2>1, <2>2, <2>3, <2>4, <2>5, <2>6, <2>7, <2>8, <2>9 DEF Inv
  <1>7. CASE InitIBUFail
    <2>1. LifeInv'
      BY <1>7 DEF LifeInv, Restoring, Operating, RestorePCs, Inv, InitIBUFail, storeVars
    <2>2. SoundInv'
      BY <1>7 DEF SoundInv, Inv, Typed, InitIBUFail, hostVars, storeVars, jobVars, envVars
    <2>3. FitsInv'
      BY <1>7 DEF FitsInv, Fits, AtHome, Inv, InitIBUFail, hostVars, storeVars, jobVars
    <2>4. HostInv'
      BY <1>7 DEF HostInv, Running, Inv, Typed, InitIBUFail, hostVars, storeVars, jobVars, envVars
    <2>5. MemInv'
      BY <1>7 DEF MemInv, Operating, Restoring, RestorePCs, HandlePCs, AutoPCs, InitIBUFail
    <2>6. PivotInv'
      BY <1>7 DEF PivotInv, AutoPCs, Inv, Typed, InitIBUFail, hostVars, storeVars, jobVars, envVars
    <2>7. RememberInv'
      BY <1>7 DEF RememberInv, Bootable, New, Inv, InitIBUFail, hostVars, storeVars, jobVars
    <2>8. NewInv'
      BY <1>7 DEF NewInv, New, Running, Inv, InitIBUFail, hostVars, storeVars, jobVars
    <2>9. LoopInv'
      BY <1>7 DEF LoopInv, Operating, Restoring, RestorePCs, Inv, InitIBUFail, hostVars, storeVars
    <2> QED BY <2>1, <2>2, <2>3, <2>4, <2>5, <2>6, <2>7, <2>8, <2>9 DEF Inv
  <1> QED BY <1>1, <1>2, <1>3, <1>4, <1>5, <1>6, <1>7 DEF InitIBU

\* The CR that is in memory after Reconcile has read it.
LEMMA ReconcileReads ==
    ASSUME Typed, Typed', MonitorRetired, Inv, Reconcile
    PROVE  /\ Sound(ibu', booted) /\ Fits(ibu', booted) /\ ibu'.target = cr[booted].target
           /\ Begun(cr[booted]) => Begun(ibu')
           /\ Begun(ibu') => Begun(cr[booted]) \/ Idling(ibu')
           /\ Moving(ibu') /\ ibu'.target # booted => Moving(cr[booted]) \/ AtHome(booted)
           /\ pc' \in {"transition", "handle"}
           /\ pc' = "handle" =>
                /\ \A t \in ConditionTypes : ibu'.conds[t] \in {cr[booted].conds[t], "InvalidTransition"}
                /\ Working(ibu') => Working(cr[booted])
                /\ Leaving(cr[booted]) => Leaving(ibu')
  <1> DEFINE x == cr[booted]
             y == ibu'
             requested == isTransitionRequested(x.conds, x.stage)
             allowed == transitionAllowed(x.conds, x.stage, x.target = booted)
             v == validateStageTransition(x.conds, x.stage, x.target = booted)
             moved == [Refreshed(x) EXCEPT !.conds = v]
  <1>1. /\ y = IF ~requested THEN Refreshed(x) ELSE IF allowed THEN Refreshed(moved) ELSE moved
        /\ pc' = IF requested /\ allowed THEN "transition" ELSE "handle"
        /\ up /\ Exists(x)
    BY DEF Reconcile, isAfterPivot
  <1>2. /\ x \in CRs /\ y \in CRs /\ booted \in Version /\ Sound(x, booted) /\ Fits(x, booted)
        /\ x.stage \in Stages /\ x.conds \in Conditions /\ (x.target = booted) \in BOOLEAN
        /\ Consistent(x.conds)
    BY <1>1, CRParts DEF Typed, Inv, SoundInv, FitsInv, Exists, Sound
  <1>3. ~Begun(x) => deployed = {booted} /\ staterootJob[booted] = "none"
    BY <1>1 DEF Inv, RememberInv, Bootable, Typed
  <1>4. Idling(x) => AtHome(booted)
    BY <1>2 DEF Idling, MonitorRetired, IsTrue, Current, AtHome, Fits, Typed, Inv, HostInv
  <1>5. Refreshed(x) \in CRs /\ (requested => moved \in CRs)
    <2>1. Refreshed(x) \in CRs
      BY <1>1, <1>2, RefreshedType
    <2>2. requested => v \in Conditions
      BY <1>2, ValidateStageTransitionType
    <2> QED BY <2>1, <2>2 DEF CRs
  <1>6. /\ Refreshed(x).stage = x.stage /\ Refreshed(x).target = x.target /\ Refreshed(x).conds = x.conds
        /\ Leaving(x) => Refreshed(x).next = {}
    BY <1>2, RefreshedWrites
  <1> HIDE DEF x, v, requested, allowed
  <1>7. requested => /\ moved.stage = x.stage /\ moved.target = x.target /\ moved.conds = v
                     /\ moved.next = Refreshed(x).next
    BY <1>5, <1>6, CRParts
  <1>8. CASE ~requested
    <2>1. y = Refreshed(x)
      BY <1>1, <1>8
    <2> HIDE DEF y
    <2>2. Sound(y, booted)
      BY <1>2, <1>6, <2>1 DEF Sound, Moving, Working, Leaving
    <2>3. Fits(y, booted)
      BY <1>2, <1>6, <2>1 DEF Fits, Idling, Preparing, Prepared, Moving, Leaving, PivotedIn
    <2> QED BY <1>1, <1>6, <1>8, <2>2, <2>3 DEF Begun, Moving, Working, Leaving, x, y
  <1>9. CASE requested
    <2> HIDE DEF moved
    <2>1. y = IF allowed THEN Refreshed(moved) ELSE moved
      BY <1>1, <1>9
    <2>2. /\ Refreshed(moved).stage = moved.stage /\ Refreshed(moved).target = moved.target
          /\ Refreshed(moved).conds = moved.conds
          /\ Leaving(moved) => Refreshed(moved).next = {}
      BY <1>5, <1>9, RefreshedWrites
    <2> HIDE DEF y
    <2>3. y.stage = x.stage /\ y.target = x.target /\ y.conds = v
      BY <1>7, <1>9, <2>1, <2>2
    <2>4. ~allowed => /\ v[GetInProgressConditionType(x.stage)] = "InvalidTransition"
                      /\ \A t \in ConditionTypes \ {GetInProgressConditionType(x.stage)} : v[t] = x.conds[t]
                      /\ x.stage = "Idle" => x.conds["Idle"] \in {"InProgress", "InvalidTransition"}
      <3> DEFINE after == x.target = booted
      <3>1. /\ after \in BOOLEAN /\ isTransitionRequested(x.conds, x.stage)
            /\ v = validateStageTransition(x.conds, x.stage, after)
            /\ allowed = transitionAllowed(x.conds, x.stage, after)
        BY <1>9 DEF requested, allowed, v
      <3> HIDE DEF after
      <3>2. ~allowed => /\ v[GetInProgressConditionType(x.stage)] = "InvalidTransition"
                        /\ \A t \in ConditionTypes \ {GetInProgressConditionType(x.stage)} : v[t] = x.conds[t]
        BY <1>2, <3>1, TransitionWrites
      <3>3. ~allowed => (x.stage = "Idle" => x.conds["Idle"] \in {"InProgress", "InvalidTransition"})
        BY <1>2, <3>1, Permitted
      <3> QED BY <3>2, <3>3
    <2>5. ~allowed /\ Leaving(y) => Leaving(x)
      BY <1>2, <2>3, <2>4, Types DEF Leaving, Stages, IdleInProgressReasons
    <2>6. Leaving(y) => y.next = {}
      BY <1>6, <1>7, <1>9, <2>1, <2>2, <2>5 DEF Leaving
    <2>7. /\ pod # 0 => staterootJob[booted] \in Running
          /\ staterootJob[booted] \in Running => deployed = {booted}
      BY DEF Inv, HostInv, Typed
    <2>8. /\ Sound(y, booted) /\ Fits(y, booted)
          /\ Begun(x) => Begun(y)
          /\ Begun(y) => Begun(x) \/ Idling(y)
          /\ Moving(y) /\ y.target # booted => Moving(x) \/ AtHome(booted)
      BY <1>1, <1>2, <1>3, <1>4, <1>9, <2>3, <2>6, <2>7, TransitionSound DEF requested, v, Typed
    <2>9. pc' = "handle" =>
             /\ \A t \in ConditionTypes : y.conds[t] \in {x.conds[t], "InvalidTransition"}
             /\ Working(y) => Working(x)
             /\ Leaving(x) => Leaving(y)
      <3>1. ~Leaving(x)
        BY <1>2, <1>9 DEF requested, isTransitionRequested, Leaving, Sound, IsStageInProgress
      <3> QED BY <1>1, <1>2, <1>9, <2>3, <2>4, <3>1, Types DEF Working, Stages
    <2> QED BY <1>1, <2>3, <2>8, <2>9 DEF x, y
  <1> QED BY <1>8, <1>9


\* The status update of a reconcile that has read the CR as it is now: what is
\* in memory is sound and agrees with the host, so the stored CR does.
LEMMA StatusStep ==
    ASSUME Typed, Typed', Inv, fresh, NEW x, Operating,
           cr' = [cr EXCEPT ![booted] = x], x.conds = ibu.conds, x.target = ibu.target,
           x.stage = ibu.stage, Leaving(ibu) => x.next = {},
           up' = up, UNCHANGED <<booted, default, deployed, file, staterootJob, pod, monitor, deleted>>,
           pc' = "idle" \/ (pc' = "handle" /\ ibu' = x)
    PROVE  Inv'
  <1>1. /\ Sound(ibu, booted) /\ Fits(ibu, booted) /\ up /\ Exists(ibu)
        /\ ibu.target = cr[booted].target
        /\ Begun(cr[booted]) => Begun(ibu)
        /\ Begun(ibu) => Begun(cr[booted]) \/ Idling(ibu)
        /\ Moving(ibu) /\ ibu.target # booted =>
             ~Exists(cr[ibu.target]) /\ (default # booted => Exists(file[booted]))
    BY DEF Inv, SoundInv, FitsInv, MemInv, LoopInv, LifeInv, Operating, Typed, InMemory
  <1>2. Sound(x, booted)
    BY <1>1 DEF Sound, Moving, Working, Leaving
  <1>3. Fits(x, booted)
    BY <1>1 DEF Fits, Idling, Preparing, Prepared, Moving, Leaving, PivotedIn
  <1>4. /\ Exists(x)
        /\ Begun(cr[booted]) => Begun(x)
        /\ Begun(x) => Begun(cr[booted]) \/ Idling(x)
        /\ Moving(x) /\ x.target # booted =>
             ~Exists(cr[x.target]) /\ (default # booted => Exists(file[booted]))
    BY <1>1 DEF Exists, Begun, Idling, Moving
  <1>5. /\ x \in CRs /\ cr'[booted] = x /\ \A s \in Version \ {booted} : cr'[s] = cr[s]
        /\ Moving(x) => x.target \in Version
    <2>1. x \in CRs /\ cr'[booted] = x /\ \A s \in Version \ {booted} : cr'[s] = cr[s]
      BY DEF Typed
    <2> QED BY <1>2, <2>1, TargetKnown DEF Typed
  <1>a. Begun(x) => Begun(cr[booted]) \/ (deployed = {booted} /\ staterootJob[booted] = "none")
    BY <1>3, <1>4 DEF Fits
  <1>b. booted <= booted /\ booted # 0
    BY DEF Typed, Version
  <1>6. LifeInv'
    BY <1>4 DEF LifeInv, Restoring, Operating, RestorePCs, Inv, Typed
  <1>7. SoundInv'
    BY <1>1, <1>2, <1>3, <1>4, <1>5 DEF SoundInv, Inv, Typed
  <1>8. FitsInv'
    BY <1>1, <1>2, <1>3, <1>4, <1>5 DEF FitsInv, Fits, AtHome, Inv, Typed
  <1>9. HostInv'
    BY <1>1, <1>2, <1>3, <1>4, <1>5 DEF HostInv, Running, Inv, Typed
  <1>10. MemInv'
    BY DEF MemInv, Operating, RestorePCs, HandlePCs, AutoPCs, Inv, Typed
  <1>11. PivotInv'
    BY <1>1, <1>2, <1>3, <1>4, <1>5 DEF PivotInv, AutoPCs, Inv, Typed
  <1>12. RememberInv'
    BY <1>1, <1>2, <1>3, <1>4, <1>5 DEF RememberInv, Bootable, New, Inv, Typed
  <1>13. NewInv'
    BY <1>1, <1>4, <1>5, <1>a, <1>b DEF NewInv, New, Running, Inv, Typed
  <1>14. LoopInv'
    BY <1>4 DEF LoopInv, Operating, Restoring, RestorePCs, Inv, Typed
  <1> QED BY <1>6, <1>7, <1>8, <1>9, <1>10, <1>11, <1>12, <1>13, <1>14 DEF Inv

\* Reconcile, up to the handler and after it.
LEMMA ReconcileStep ==
    ASSUME Supported, Typed, Typed', MonitorRetired, MonitorRetired', Inv,
           Reconcile \/ ReconcileTransition \/ ReconcileFinal
    PROVE  Inv'
  <1>1. CASE Reconcile
    <2>a. /\ Sound(ibu', booted) /\ Fits(ibu', booted) /\ ibu'.target = cr[booted].target
          /\ Begun(cr[booted]) => Begun(ibu')
          /\ Begun(ibu') => Begun(cr[booted]) \/ Idling(ibu')
          /\ Moving(ibu') /\ ibu'.target # booted => Moving(cr[booted]) \/ AtHome(booted)
          /\ pc' \in {"transition", "handle"}
          /\ pc' = "handle" =>
               /\ \A t \in ConditionTypes : ibu'.conds[t] \in {cr[booted].conds[t], "InvalidTransition"}
               /\ Working(ibu') => Working(cr[booted])
               /\ Leaving(cr[booted]) => Leaving(ibu')
      BY <1>1, ReconcileReads
    <2>b. /\ up' = up /\ up /\ fresh'
          /\ UNCHANGED <<booted, default, deployed, cr, file, staterootJob, pod, monitor, deleted>>
      BY <1>1 DEF Reconcile, hostVars, storeVars, jobVars, envVars
    <2>c. Moving(ibu') => ibu'.target \in Version
      BY <2>a, TargetKnown DEF Typed
    <2>1. LifeInv'
      BY <2>a, <2>b DEF LifeInv, Restoring, Operating, RestorePCs, Inv, Typed
    <2>2. SoundInv'
      BY <2>a, <2>b DEF SoundInv, Inv, Typed
    <2>3. FitsInv'
      BY <2>a, <2>b DEF FitsInv, Fits, AtHome, Inv, Typed
    <2>4. HostInv'
      BY <2>a, <2>b DEF HostInv, Running, Inv, Typed
    <2>5. MemInv'
      BY <2>a, <2>b DEF MemInv, Operating, Restoring, RestorePCs, HandlePCs, AutoPCs, Inv, Typed
    <2>6. PivotInv'
      BY <2>a, <2>b DEF PivotInv, AutoPCs, Inv, Typed
    <2>7. RememberInv'
      BY <2>a, <2>b DEF RememberInv, Bootable, New, Inv, Typed
    <2>8. NewInv'
      BY <2>a, <2>b DEF NewInv, New, Running, Inv, Typed
    <2>9. LoopInv'
      BY <2>a, <2>b, <2>c, NoCRIs DEF LoopInv, Inv, Typed, AtHome
    <2> QED BY <2>1, <2>2, <2>3, <2>4, <2>5, <2>6, <2>7, <2>8, <2>9 DEF Inv
  <1>2. CASE ReconcileTransition
    <2>a. CASE ~fresh
      <3>1. LifeInv'
        BY <1>2, <2>a DEF LifeInv, Restoring, Operating, RestorePCs, Inv, ReconcileTransition,
           hostVars, envVars
      <3>2. SoundInv'
        BY <1>2, <2>a DEF SoundInv, Inv, Typed, ReconcileTransition, hostVars, jobVars, envVars
      <3>3. FitsInv'
        BY <1>2 DEF FitsInv, Fits, AtHome, Inv, Typed, ReconcileTransition, hostVars, jobVars,
           envVars
      <3>4. HostInv'
        BY <1>2, <2>a DEF HostInv, Running, Inv, Typed, ReconcileTransition, hostVars, jobVars,
           envVars
      <3>5. MemInv'
        BY <1>2 DEF MemInv, Operating, Restoring, RestorePCs, HandlePCs, AutoPCs, Typed,
           ReconcileTransition, hostVars
      <3>6. PivotInv'
        BY <1>2, <2>a DEF PivotInv, AutoPCs, Inv, Typed, ReconcileTransition, hostVars, jobVars,
           envVars
      <3>7. RememberInv'
        BY <1>2, <2>a DEF RememberInv, Bootable, New, Inv, ReconcileTransition, hostVars, jobVars
      <3>8. NewInv'
        BY <1>2, <2>a DEF NewInv, New, Running, Inv, ReconcileTransition, hostVars, jobVars
      <3>9. LoopInv'
        BY <1>2, <2>a DEF LoopInv, Operating, Restoring, Inv, ReconcileTransition, hostVars
      <3> QED BY <3>1, <3>2, <3>3, <3>4, <3>5, <3>6, <3>7, <3>8, <3>9 DEF Inv
    <2>b. CASE fresh
      <3>a. /\ cr' = [cr EXCEPT ![booted] = ibu] /\ pc' = "handle" /\ ibu' = ibu /\ up' = up /\ fresh' = fresh
            /\ UNCHANGED <<booted, default, deployed, file, staterootJob, pod, monitor, deleted>>
        BY <1>2, <2>b DEF ReconcileTransition, hostVars, jobVars, envVars
      <3>b. Operating /\ Sound(ibu, booted)
        BY <1>2 DEF ReconcileTransition, Operating, Restoring, RestorePCs, Inv, SoundInv
      <3> QED BY <2>b, <3>a, <3>b, StatusStep DEF Sound
    <2> QED BY <2>a, <2>b
  <1>3. CASE ReconcileFinal
    <2>a. CASE ~fresh
      <3>1. LifeInv'
        BY <1>3, <2>a DEF LifeInv, Restoring, Operating, RestorePCs, Inv, ReconcileFinal, hostVars,
           envVars
      <3>2. SoundInv'
        BY <1>3, <2>a DEF SoundInv, Inv, Typed, ReconcileFinal, hostVars, jobVars, envVars
      <3>3. FitsInv'
        BY <1>3, <2>a DEF FitsInv, Fits, AtHome, Inv, ReconcileFinal, hostVars, jobVars
      <3>4. HostInv'
        BY <1>3, <2>a DEF HostInv, Running, Inv, Typed, ReconcileFinal, hostVars, jobVars,
           envVars
      <3>5. MemInv'
        BY <1>3 DEF MemInv, Operating, Restoring, RestorePCs, HandlePCs, AutoPCs, ReconcileFinal
      <3>6. PivotInv'
        BY <1>3, <2>a DEF PivotInv, AutoPCs, Inv, Typed, ReconcileFinal, hostVars, jobVars,
           envVars
      <3>7. RememberInv'
        BY <1>3, <2>a DEF RememberInv, Bootable, New, Inv, ReconcileFinal, hostVars, jobVars
      <3>8. NewInv'
        BY <1>3, <2>a DEF NewInv, New, Running, Inv, ReconcileFinal, hostVars, jobVars
      <3>9. LoopInv'
        BY <1>3, <2>a DEF LoopInv, Operating, Restoring, Inv, ReconcileFinal, hostVars
      <3> QED BY <3>1, <3>2, <3>3, <3>4, <3>5, <3>6, <3>7, <3>8, <3>9 DEF Inv
    <2>b. CASE fresh
      <3>a. /\ cr' = [cr EXCEPT ![booted] = Refreshed(ibu)] /\ pc' = "idle" /\ up' = up
            /\ UNCHANGED <<booted, default, deployed, file, staterootJob, pod, monitor, deleted>>
        BY <1>3, <2>b DEF ReconcileFinal, hostVars, jobVars, envVars
      <3>b. /\ pc = "final" /\ ibu \in CRs
        BY <1>3 DEF ReconcileFinal, Typed
      <3>c. /\ Refreshed(ibu).stage = ibu.stage /\ Refreshed(ibu).target = ibu.target
            /\ Refreshed(ibu).conds = ibu.conds /\ (Leaving(ibu) => Refreshed(ibu).next = {})
        BY <3>b, RefreshedWrites
      <3> QED BY <2>b, <3>a, <3>b, <3>c, StatusStep DEF Operating, Restoring, RestorePCs
    <2> QED BY <2>a, <2>b
  <1> QED BY <1>1, <1>2, <1>3

\* The Prep stage.
LEMMA PrepStep ==
    ASSUME Supported, Typed, Typed', MonitorRetired, MonitorRetired', Inv,
           PrepLaunchStateroot \/ PrepLaunchPrecache \/ PrepComplete
    PROVE  Inv'
  <1>1. CASE PrepLaunchStateroot
    <2>a. Preparing(ibu) /\ ibu.conds["PrepInProgress"] = "InProgress" /\ pc = "handle"
      BY <1>1, HandlingIs DEF PrepLaunchStateroot, Preparing
    <2>b. /\ Working(cr[booted]) /\ Begun(cr[booted]) /\ ibu.target = cr[booted].target
          /\ ~Idling(cr[booted]) /\ ~Idling(ibu) /\ ibu.target \in Version
      <3>1. Working(ibu) /\ Working(cr[booted]) /\ Begun(cr[booted]) /\ ibu.target = cr[booted].target
        BY <2>a, WorkingHandler DEF HandlePCs, InProgressTypes
      <3>2. ibu \in CRs /\ booted \in Version /\ Sound(ibu, booted)
        BY <2>a DEF Typed, Inv, SoundInv
      <3> QED BY <3>1, <3>2, TargetKnown DEF Idling, Working
    <2>c. deployed = {booted} /\ pod = 0 /\ AtHome(booted)
      BY <1>1, <2>a DEF Inv, FitsInv, Fits, HostInv, Running, PrepLaunchStateroot
    <2>d. up /\ file[booted].target # booted
      BY <1>1, <2>a DEF Inv, LifeInv, Operating, Restoring, RestorePCs, NewInv, Typed
    <2>e. /\ staterootJob'[booted] = "running" /\ \A s \in Version \ {booted} : staterootJob'[s] = staterootJob[s]
          /\ ibu' = ibu /\ pc' = "final" /\ up' = up /\ fresh' = fresh /\ ibu.target > booted
          /\ staterootJob[booted] = "none"
          /\ UNCHANGED <<booted, default, deployed, cr, file, pod, monitor, deleted>>
      BY <1>1 DEF PrepLaunchStateroot, ToFinal, hostVars, storeVars, envVars, Typed
    <2>f. ~Moving(ibu) /\ ~Moving(cr[booted])
      <3>1. cr[booted].conds["PrepInProgress"] = "InProgress"
        BY <2>a, Types DEF Inv, MemInv, HandlePCs
      <3> QED BY <2>a, <3>1 DEF Inv, SoundInv, Sound, Consistent, Moving, Unset, Typed
    <2>1. LifeInv'
      BY <2>e, <2>a DEF LifeInv, Restoring, Operating, RestorePCs, Inv, Typed
    <2>2. SoundInv'
      BY <2>b, <2>c, <2>d, <2>e, <2>a DEF SoundInv, Inv, Typed
    <2>3. FitsInv'
      BY <2>b, <2>e, <2>a, <2>f DEF FitsInv, Fits, AtHome, Inv, Typed
    <2>4. HostInv'
      BY <2>b, <2>c, <2>d, <2>e DEF HostInv, Running, Inv, Typed
    <2>5. MemInv'
      BY <2>e, <2>a DEF MemInv, Operating, Restoring, RestorePCs, HandlePCs, AutoPCs, Inv, Typed
    <2>6. PivotInv'
      BY <2>b, <2>c, <2>d, <2>e DEF PivotInv, AutoPCs, Inv, Typed
    <2>7. RememberInv'
      BY <2>b, <2>c, <2>d, <2>e DEF RememberInv, Bootable, New, Inv, Typed
    <2>8. NewInv'
      BY <2>b, <2>c, <2>d, <2>e, NoVersion DEF NewInv, New, Running, Inv, Typed
    <2>9. LoopInv'
      BY <2>e, <2>a DEF LoopInv, Operating, Restoring, RestorePCs, Inv, Typed
    <2> QED BY <2>1, <2>2, <2>3, <2>4, <2>5, <2>6, <2>7, <2>8, <2>9 DEF Inv
  <1>2. CASE PrepLaunchPrecache
    <2>1. /\ ToFinal(ibu, TRUE)
          /\ UNCHANGED <<booted, default, deployed, cr, file, staterootJob, pod, deleted, monitor>>
      BY <1>2 DEF PrepLaunchPrecache, hostVars, storeVars, jobVars, envVars
    <2>2. Operating /\ Sound(ibu, booted) /\ Fits(ibu, booted)
      BY <1>2, HandlingIs DEF PrepLaunchPrecache, Operating, Restoring, RestorePCs, Inv, SoundInv,
           FitsInv
    <2> QED BY <2>1, <2>2, ReportStep DEF Typed
  <1>3. CASE PrepComplete
    <2> DEFINE y == Completed(ibu, "Prep")
    <2>1. /\ ToFinal(y, FALSE)
          /\ UNCHANGED <<booted, default, deployed, cr, file, staterootJob, pod, deleted, monitor>>
      BY <1>3 DEF PrepComplete, hostVars, storeVars, jobVars, envVars
    <2>2. /\ Operating /\ Sound(ibu, booted) /\ Fits(ibu, booted)
          /\ ibu.conds["PrepInProgress"] = "InProgress" /\ ~Leaving(ibu) /\ Preparing(ibu)
          /\ staterootJob[booted] = "complete" /\ pc = "handle"
      BY <1>3, HandlingIs DEF PrepComplete, Operating, Restoring, RestorePCs, Inv, SoundInv, FitsInv,
           Preparing
    <2>3. /\ y.stage = ibu.stage /\ y.target = ibu.target /\ y.next = ibu.next
          /\ y.conds["PrepInProgress"] = "Completed" /\ y.conds["PrepCompleted"] = "Completed"
          /\ \A t \in ConditionTypes \ {"PrepInProgress", "PrepCompleted"} : y.conds[t] = ibu.conds[t]
      BY CompletedWrites, Types, InMemoryType, Zenon
    <2> HIDE DEF y
    <2>4. /\ deployed = {booted, ibu.target} /\ ibu.target # booted /\ ibu.target > booted /\ AtHome(booted)
      BY <2>2 DEF Fits
    <2>5. Sound(y, booted)
      BY <2>2, <2>3, <2>4, Types DEF Sound, Consistent, Working, Leaving, Unset, InProgressTypes,
         CompletedTypes
    <2>6. Fits(y, booted)
      BY <2>2, <2>3, Types DEF Fits, Idling, Moving
    <2>7. Begun(y) /\ ~Moving(y)
      BY <2>2, <2>3, Types DEF Begun, Moving, Sound, Consistent, Unset, InProgressTypes
    <2>8. Begun(cr[booted])
      BY <2>2, WorkingHandler DEF HandlePCs, InProgressTypes
    <2> QED BY <2>1, <2>2, <2>3, <2>5, <2>6, <2>7, <2>8, ReportStep DEF Typed
  <1> QED BY <1>1, <1>2, <1>3

\* While the setup job runs, a CR in memory that prepares names the target of
\* the stored one.
LEMMA PreparingTarget ==
    ASSUME Typed, Inv, staterootJob[booted] # "none", pc # "idle", Preparing(ibu)
    PROVE  ibu.target = cr[booted].target
  <1>1. ~Restoring
    <2>1. Restoring => ~Preparing(ibu)
      BY SavedIs DEF Inv, LifeInv, SoundInv, Typed
    <2> QED BY <2>1
  <1>2. Begun(cr[booted]) /\ ~Idling(cr[booted])
    BY <1>1 DEF Inv, FitsInv, Fits, RememberInv, LifeInv, Operating, Typed
  <1> QED BY <1>1, <1>2 DEF Inv, MemInv, Operating, Working, Begun, Idling

\* The jobs.
LEMMA JobsStep ==
    ASSUME Supported, Typed, Typed', MonitorRetired, MonitorRetired', Inv, Jobs
    PROVE  Inv'
  <1>1. CASE StaterootJobFetch
    <2>a. staterootJob[booted] \in Running /\ cr[booted].target # 0 /\ pod = 0 /\ pod' = cr[booted].target
          /\ UNCHANGED <<booted, default, deployed, cr, file, staterootJob, monitor, up, pc, ibu, fresh, deleted>>
      BY <1>1 DEF StaterootJobFetch, Running, hostVars, storeVars, opVars, envVars
    <2>b. pc # "idle" /\ Preparing(ibu) => ibu.target = cr[booted].target
      BY <2>a, PreparingTarget DEF Running
    <2>1. LifeInv'
      BY <2>a, <2>b DEF LifeInv, Restoring, Operating, RestorePCs, Inv, Typed
    <2>2. SoundInv'
      BY <2>a, <2>b DEF SoundInv, Inv, Typed
    <2>3. FitsInv'
      BY <2>a, <2>b DEF FitsInv, Fits, AtHome, Inv, Typed
    <2>4. HostInv'
      BY <2>a, <2>b DEF HostInv, Running, Inv, Typed
    <2>5. MemInv'
      BY <2>a, <2>b DEF MemInv, Operating, Restoring, RestorePCs, HandlePCs, AutoPCs, Inv, Typed
    <2>6. PivotInv'
      BY <2>a, <2>b DEF PivotInv, AutoPCs, Inv, Typed
    <2>7. RememberInv'
      BY <2>a, <2>b DEF RememberInv, Bootable, New, Inv, Typed
    <2>8. NewInv'
      BY <2>a, <2>b DEF NewInv, New, Running, Inv, Typed
    <2>9. LoopInv'
      BY <2>a, <2>b DEF LoopInv, Operating, Restoring, RestorePCs, Inv, Typed
    <2> QED BY <2>1, <2>2, <2>3, <2>4, <2>5, <2>6, <2>7, <2>8, <2>9 DEF Inv
  <1>2. CASE StaterootJobDeploy
    <2>a. /\ staterootJob[booted] \in Running /\ deployed = {booted} /\ default = booted
          /\ pod \in Version /\ pod # booted /\ cr[pod] = NoCR /\ file[pod] = NoCR
      BY <1>2 DEF StaterootJobDeploy, Running, Inv, HostInv, Typed
    <2>b. /\ cr' = cr /\ file' = file
      BY <1>2, <2>a DEF StaterootJobDeploy, Typed
    <2>c. /\ deployed' = {booted, pod} /\ default' = default /\ pod' = 0
          /\ \A s \in Version \ {pod} : monitor'[s] = monitor[s]
          /\ staterootJob'[booted] \in {"complete", "failed", "terminating"} /\ staterootJob'[pod] = "none"
          /\ \A s \in Version \ {booted, pod} : staterootJob'[s] = staterootJob[s]
          /\ UNCHANGED <<booted, up, pc, ibu, fresh, deleted>>
      BY <1>2, <2>a DEF StaterootJobDeploy, JobStep, envVars, Supported, Typed
    <2>d. ~New(booted) /\ pc \notin AutoPCs
      <3>1. ~New(booted)
        BY <2>a DEF Inv, NewInv, Typed
      <3>2. pc \in AutoPCs => cr[booted].target = booted /\ Begun(cr[booted])
        BY DEF Inv, MemInv, PivotInv, AutoPCs, Operating, Restoring, RestorePCs, Working, Begun
      <3> QED BY <3>1, <3>2 DEF New
    <2>e. pc # "idle" /\ Preparing(ibu) => ibu.target = cr[booted].target
      BY <2>a, PreparingTarget DEF Running
    <2>f. Exists(file[booted]) \/ Begun(cr[booted])
      BY <2>a DEF Inv, RememberInv, Running, Typed
    <2>1. LifeInv'
      BY <2>b, <2>c, BlankIs DEF LifeInv, Restoring, Operating, RestorePCs, Inv, Typed
    <2>2. SoundInv'
      BY <2>a, <2>b, <2>c, NoVersion, NoCRIs, BlankIs DEF SoundInv, Inv, Typed
    <2>3. FitsInv'
      BY <2>a, <2>b, <2>c, NoVersion, NoCRIs, BlankIs DEF FitsInv, Fits, AtHome, Inv, Typed, Running
    <2>4. HostInv'
      BY <2>a, <2>b, <2>c, NoVersion, NoCRIs, BlankIs DEF HostInv, Running, Inv, Typed
    <2>5. MemInv'
      BY <2>b, <2>c, BlankIs DEF MemInv, Operating, Restoring, Inv
    <2>6. PivotInv'
      BY <2>b, <2>c, BlankIs, <2>d DEF PivotInv, AutoPCs, Inv, Typed
    <2>7. RememberInv'
      BY <2>a, <2>b, <2>c, NoCRIs, BlankIs, <2>f DEF RememberInv, Bootable, New, Inv, Typed
    <2>8. NewInv'
      BY <2>a, <2>b, <2>c, NoVersion, NoCRIs, <2>d DEF NewInv, New
    <2>9. LoopInv'
      BY <2>a, <2>b, <2>c, BlankIs DEF LoopInv, Operating, Restoring, RestorePCs, Inv, Typed
    <2> QED BY <2>1, <2>2, <2>3, <2>4, <2>5, <2>6, <2>7, <2>8, <2>9 DEF Inv
  <1>3. CASE StaterootJobFail
    <2>a. /\ staterootJob'[booted] \in {"failed", "terminating"} /\ staterootJob[booted] \in Running
          /\ \A s \in Version \ {booted} : staterootJob'[s] = staterootJob[s]
          /\ pod' = 0
          /\ UNCHANGED <<booted, default, deployed, cr, file, monitor, up, pc, ibu, fresh, deleted>>
      BY <1>3 DEF StaterootJobFail, JobStep, hostVars, storeVars, envVars, Running, Typed
    <2>1. LifeInv'
      BY <2>a DEF LifeInv, Restoring, Operating, RestorePCs, Inv, Typed
    <2>2. SoundInv'
      BY <2>a DEF SoundInv, Inv, Typed
    <2>3. FitsInv'
      BY <2>a DEF FitsInv, Fits, AtHome, Inv, Typed, Running
    <2>4. HostInv'
      BY <2>a DEF HostInv, Running, Inv, Typed
    <2>5. MemInv'
      BY <2>a DEF MemInv, Operating, Restoring, RestorePCs, HandlePCs, AutoPCs, Inv, Typed
    <2>6. PivotInv'
      BY <2>a DEF PivotInv, AutoPCs, Inv, Typed
    <2>7. RememberInv'
      BY <2>a DEF RememberInv, Bootable, New, Inv, Typed, Running
    <2>8. NewInv'
      BY <2>a DEF NewInv, New, Running, Inv, Typed
    <2>9. LoopInv'
      BY <2>a DEF LoopInv, Operating, Restoring, RestorePCs, Inv, Typed
    <2> QED BY <2>1, <2>2, <2>3, <2>4, <2>5, <2>6, <2>7, <2>8, <2>9 DEF Inv
  <1>4. CASE PrecacheJobEnd
    <2>a. UNCHANGED <<booted, default, deployed, cr, file, staterootJob, pod, monitor, up, pc, ibu, fresh, deleted>>
      BY <1>4 DEF PrecacheJobEnd, JobStep, hostVars, storeVars, envVars
    <2>1. LifeInv'
      BY <2>a DEF LifeInv, Restoring, Operating, RestorePCs, Inv, Typed
    <2>2. SoundInv'
      BY <2>a DEF SoundInv, Inv, Typed
    <2>3. FitsInv'
      BY <2>a DEF FitsInv, Fits, AtHome, Inv, Typed
    <2>4. HostInv'
      BY <2>a DEF HostInv, Running, Inv, Typed
    <2>5. MemInv'
      BY <2>a DEF MemInv, Operating, Restoring, RestorePCs, HandlePCs, AutoPCs, Inv, Typed
    <2>6. PivotInv'
      BY <2>a DEF PivotInv, AutoPCs, Inv, Typed
    <2>7. RememberInv'
      BY <2>a DEF RememberInv, Bootable, New, Inv, Typed
    <2>8. NewInv'
      BY <2>a DEF NewInv, New, Running, Inv, Typed
    <2>9. LoopInv'
      BY <2>a DEF LoopInv, Operating, Restoring, RestorePCs, Inv, Typed
    <2> QED BY <2>1, <2>2, <2>3, <2>4, <2>5, <2>6, <2>7, <2>8, <2>9 DEF Inv
  <1>5. CASE JobDeleted
    <2>a. /\ \/ staterootJob'[booted] = staterootJob[booted]
             \/ /\ staterootJob[booted] # "none"
                /\ staterootJob'[booted] = "terminating" /\ staterootJob[booted] \notin Running
             \/ staterootJob[booted] = "running" /\ staterootJob'[booted] = "stopping"
          /\ \A s \in Version \ {booted} : staterootJob'[s] = staterootJob[s]
          /\ UNCHANGED <<booted, default, deployed, cr, file, pod, monitor, up, pc, ibu, fresh, deleted>>
      BY <1>5 DEF JobDeleted, JobStep, hostVars, storeVars, envVars, Running, MarkedForDeletion, Typed
    <2>1. LifeInv'
      BY <2>a DEF LifeInv, Restoring, Operating, RestorePCs, Inv, Typed
    <2>2. SoundInv'
      BY <2>a DEF SoundInv, Inv, Typed
    <2>3. FitsInv'
      BY <2>a DEF FitsInv, Fits, AtHome, Inv, Typed, Running
    <2>4. HostInv'
      BY <2>a DEF HostInv, Running, Inv, Typed
    <2>5. MemInv'
      BY <2>a DEF MemInv, Operating, Restoring, RestorePCs, HandlePCs, AutoPCs, Inv, Typed
    <2>6. PivotInv'
      BY <2>a DEF PivotInv, AutoPCs, Inv, Typed
    <2>7. RememberInv'
      BY <2>a DEF RememberInv, Bootable, New, Inv, Typed, Running
    <2>8. NewInv'
      BY <2>a DEF NewInv, New, Running, Inv, Typed
    <2>9. LoopInv'
      BY <2>a DEF LoopInv, Operating, Restoring, RestorePCs, Inv, Typed
    <2> QED BY <2>1, <2>2, <2>3, <2>4, <2>5, <2>6, <2>7, <2>8, <2>9 DEF Inv
  <1> QED BY <1>1, <1>2, <1>3, <1>4, <1>5 DEF Jobs

\* The node about to pivot: where the handler of the upgrade stands.
LEMMA Pivoting ==
    ASSUME Typed, Inv, pc \in {"handle", "exported", "saved", "defaultSet"},
           Moving(ibu), ~Leaving(ibu), ibu.target # booted
    PROVE  /\ ibu.target \in Version /\ ibu.target > booted /\ deployed = {booted, ibu.target}
           /\ up /\ Exists(ibu) /\ cr[ibu.target] = NoCR /\ cr[booted].target = ibu.target
           /\ Begun(cr[booted]) /\ Moving(cr[booted]) /\ ~Preparing(cr[booted]) /\ ~Preparing(ibu)
           /\ ~New(booted) /\ monitor[booted] = "off" /\ file[booted].target # booted
           /\ \A v \in deployed : staterootJob[v] \notin Running
           /\ Saved(ibu, ibu.target)
           /\ LET y == Failed(ibu, "Upgrade") IN
              Saved(y, booted) /\ y.target = ibu.target /\ Exists(y)
  <1>1. Sound(ibu, booted) /\ Fits(ibu, booted) /\ Operating /\ up /\ pc \in HandlePCs
    BY DEF Inv, SoundInv, FitsInv, Operating, Restoring, RestorePCs, LifeInv, HandlePCs
  <1>2. /\ Working(ibu) /\ Begun(ibu) /\ PrepDone(ibu) /\ ibu.target \in Version /\ Prepared(ibu)
        /\ ~Preparing(ibu)
    BY <1>1, TargetKnown DEF Typed, Sound, Consistent, Moving, Prepared, PrepDone
  <1>3. ibu.target > booted /\ deployed = {booted, ibu.target}
    BY <1>1, <1>2 DEF Sound, Fits, PrepDone
  <1>4. Exists(ibu)
    BY <1>1 DEF Typed, InMemory, Operating, Restoring, RestorePCs
  <1>5. cr[ibu.target] = NoCR
    BY <1>1, <1>2 DEF Inv, LoopInv, LifeInv
  <1>6. /\ Working(cr[booted]) /\ Begun(cr[booted]) /\ ibu.target = cr[booted].target
        /\ Moving(cr[booted]) /\ ~Leaving(cr[booted])
    <2>1. Working(cr[booted]) /\ Begun(cr[booted]) /\ ibu.target = cr[booted].target
      BY <1>1, WorkingHandler, Types DEF Moving, InProgressTypes
    <2> QED BY <1>1, <2>1, Types DEF Inv, MemInv, Moving
  <1>7. Sound(cr[booted], booted)
    BY DEF Inv, SoundInv, Typed
  <1>8. ~Preparing(cr[booted])
    BY <1>6, <1>7 DEF Sound, Consistent, Preparing, Moving, Unset
  <1>9. file[booted].target # booted /\ ~New(booted)
    BY <1>1, <1>6 DEF Inv, NewInv, New, Typed
  <1>10. monitor[booted] = "off"
    BY <1>9 DEF Inv, RememberInv, Bootable, Typed
  <1>11. \A v \in deployed : staterootJob[v] \notin Running
    BY <1>2, <1>3 DEF Inv, HostInv, Typed
  <1>12. Saved(ibu, ibu.target)
    BY <1>1 DEF Saved, Sound, Consistent, Moving, Working, Leaving, Unset, IdleInProgressReasons
  <1> DEFINE y == Failed(ibu, "Upgrade")
  <1>13. /\ y.stage = ibu.stage /\ y.target = ibu.target /\ y.next = ibu.next
         /\ y.conds["UpgradeInProgress"] = "Failed" /\ y.conds["UpgradeCompleted"] = "Failed"
         /\ \A t \in ConditionTypes \ {"UpgradeInProgress", "UpgradeCompleted"} : y.conds[t] = ibu.conds[t]
    BY FailedWrites, Types, InMemoryType, Zenon
  <1> HIDE DEF y
  <1>14. Saved(y, booted) /\ Exists(y)
    BY <1>1, <1>4, <1>13, Types DEF Saved, Sound, Consistent, Moving, PrepDone, Working, Leaving,
       InProgressTypes, CompletedTypes, Exists
  <1> QED BY <1>1, <1>2, <1>3, <1>4, <1>5, <1>6, <1>8, <1>9, <1>10, <1>11, <1>12, <1>13, <1>14 DEF y

\* The steps of the pivot, up to the reboot.
LEMMA PivotStep ==
    ASSUME Supported, Typed, Typed', MonitorRetired, MonitorRetired', Inv,
           exportIBUToNewStateroot \/ exportForUncontrolledRollback \/
           setDefaultDeploymentToNewStateroot
    PROVE  Inv'
  <1>1. CASE exportIBUToNewStateroot
    <2>p. /\ ibu.target \in Version /\ ibu.target > booted /\ deployed = {booted, ibu.target}
          /\ up /\ Exists(ibu) /\ cr[ibu.target] = NoCR /\ cr[booted].target = ibu.target
          /\ Begun(cr[booted]) /\ Moving(cr[booted]) /\ ~Preparing(cr[booted]) /\ ~Preparing(ibu)
          /\ ~New(booted) /\ monitor[booted] = "off" /\ file[booted].target # booted
          /\ \A v \in deployed : staterootJob[v] \notin Running
          /\ Moving(ibu) /\ ~Leaving(ibu) /\ ibu.target # booted
          /\ pc \in {"handle", "exported", "saved", "defaultSet"}
      <3>1. Moving(ibu) /\ ~Leaving(ibu) /\ ibu.target # booted
            /\ pc \in {"handle", "exported", "saved", "defaultSet"}
        BY <1>1, HandlingIs DEF exportIBUToNewStateroot, PrePivoting, isAfterPivot, Moving, Inv,
             PivotInv
      <3> QED BY <3>1, Pivoting
    <2>a. /\ file'[ibu.target] = ibu /\ \A s \in Version \ {ibu.target} : file'[s] = file[s]
          /\ pc' = "exported" /\ pc = "handle"
          /\ UNCHANGED <<booted, default, deployed, cr, staterootJob, pod, monitor, up, ibu, fresh, deleted>>
      BY <1>1, <2>p, HandlingIs DEF exportIBUToNewStateroot, PrePivoting, hostVars, jobVars, envVars,
           Typed
    <2>b. Saved(ibu, ibu.target)
      BY <2>p, Pivoting
    <2>1. LifeInv'
      BY <2>p, <2>a, <2>b DEF LifeInv, Restoring, Operating, RestorePCs, Inv, Typed
    <2>2. SoundInv'
      BY <2>p, NoVersion, NoCRIs, BlankIs, <2>a, <2>b DEF SoundInv, Inv, Typed
    <2>3. FitsInv'
      BY <2>p, NoVersion, <2>a, <2>b DEF FitsInv, Fits, AtHome, Inv, Typed
    <2>4. HostInv'
      BY <2>p, NoVersion, NoCRIs, BlankIs, <2>a, <2>b DEF HostInv, Running, Inv, Typed
    <2>5. MemInv'
      BY <2>a, <2>b DEF MemInv, Operating, Restoring, RestorePCs, HandlePCs, AutoPCs, Inv, Typed
    <2>6. PivotInv'
      BY <2>p, <2>a, <2>b, <1>1 DEF PivotInv, AutoPCs, Inv, Typed
    <2>7. RememberInv'
      BY <2>p, <2>a, <2>b DEF RememberInv, Bootable, New, Inv, Typed
    <2>8. NewInv'
      <3>1. ~(Begun(cr[booted]) /\ cr[booted].target = booted) /\ file'[booted].target # booted
        BY <2>p, <2>a DEF New, Typed
      <3>2. \A v \in deployed :  /\ v <= ibu.target /\ staterootJob[v] \notin Running
                                 /\ v # ibu.target => monitor[v] = "off" /\ Begun(cr[v])
        BY <2>p DEF Typed, Version
      <3>3. ibu.target # booted /\ ~Begun(cr[ibu.target]) /\ deployed # {ibu.target}
        BY <2>p, NoCRIs, BlankIs
      <3>4. SUFFICES ASSUME NEW t \in deployed
             PROVE  /\ New(t)' => \A v \in deployed :
                         /\ v <= t /\ staterootJob[v] \notin Running
                         /\ v # t => monitor[v] = "off" /\ (Exists(file'[v]) \/ Begun(cr[v]))
                    /\ file'[t].target = t =>
                         /\ deployed # {t}
                         /\ ~(t = booted /\ up)
                         /\ Begun(cr[t]) => cr[t].target = t /\ PrepDone(cr[t])
        BY <2>a DEF NewInv
      <3>5. CASE t = booted
        BY <3>1, <3>5, <2>a DEF New
      <3>6. CASE t = ibu.target
        <4>1. \A v \in deployed :  /\ v <= t /\ staterootJob[v] \notin Running
                                   /\ v # t => monitor[v] = "off" /\ Begun(cr[v])
          BY <3>2, <3>6
        <4>2. deployed # {t} /\ t # booted /\ ~Begun(cr[t])
          BY <3>3, <3>6
        <4> QED BY <4>1, <4>2
      <3> QED BY <3>5, <3>6, <2>p
    <2>9. LoopInv'
      BY <2>p, <2>a, <2>b DEF LoopInv, Operating, Restoring, RestorePCs, Inv, Typed
    <2> QED BY <2>1, <2>2, <2>3, <2>4, <2>5, <2>6, <2>7, <2>8, <2>9 DEF Inv
  <1>2. CASE exportForUncontrolledRollback
    <2>p. /\ ibu.target \in Version /\ ibu.target > booted /\ deployed = {booted, ibu.target}
          /\ up /\ Exists(ibu) /\ cr[ibu.target] = NoCR /\ cr[booted].target = ibu.target
          /\ Begun(cr[booted]) /\ Moving(cr[booted]) /\ ~Preparing(cr[booted]) /\ ~Preparing(ibu)
          /\ ~New(booted) /\ monitor[booted] = "off" /\ file[booted].target # booted
          /\ \A v \in deployed : staterootJob[v] \notin Running
          /\ Moving(ibu) /\ ~Leaving(ibu) /\ ibu.target # booted
          /\ pc \in {"handle", "exported", "saved", "defaultSet"}
      <3>1. Moving(ibu) /\ ~Leaving(ibu) /\ ibu.target # booted
            /\ pc \in {"handle", "exported", "saved", "defaultSet"}
        BY <1>2, HandlingIs DEF exportForUncontrolledRollback, PrePivoting, isAfterPivot, Moving, Inv,
             PivotInv
      <3> QED BY <3>1, Pivoting
    <2>a. /\ file'[booted] = Failed(ibu, "Upgrade") /\ \A s \in Version \ {booted} : file'[s] = file[s]
          /\ pc' = "saved" /\ pc = "exported"
          /\ UNCHANGED <<booted, default, deployed, cr, staterootJob, pod, monitor, up, ibu, fresh, deleted>>
      BY <1>2, <2>p DEF exportForUncontrolledRollback, hostVars, jobVars, envVars, Typed
    <2>b. Saved(file'[booted], booted) /\ file'[booted].target = ibu.target /\ Exists(file'[booted])
      BY <2>a, <2>p, Pivoting
    <2>1. LifeInv'
      BY <2>a, <2>b DEF LifeInv, Restoring, Operating, RestorePCs, Inv, Typed
    <2>2. SoundInv'
      BY <2>p, NoVersion, NoCRIs, BlankIs, <2>a, <2>b DEF SoundInv, Inv, Typed
    <2>3. FitsInv'
      BY <2>a, <2>b DEF FitsInv, Fits, AtHome, Inv, Typed
    <2>4. HostInv'
      BY <2>p, NoVersion, NoCRIs, BlankIs, <2>a, <2>b DEF HostInv, Running, Inv, Typed
    <2>5. MemInv'
      BY <2>a, <2>b DEF MemInv, Operating, Restoring, RestorePCs, HandlePCs, AutoPCs, Inv, Typed
    <2>6. PivotInv'
      BY <2>p, NoVersion, NoCRIs, BlankIs, <2>a, <2>b DEF PivotInv, AutoPCs, Inv, Typed
    <2>7. RememberInv'
      BY <2>p, <2>a, <2>b DEF RememberInv, Bootable, New, Inv, Typed, NewInv
    <2>8. NewInv'
      BY <2>p, <2>a, <2>b DEF NewInv, New, Running, Inv, Typed
    <2>9. LoopInv'
      BY <2>a, <2>b DEF LoopInv, Operating, Restoring, RestorePCs, Inv, Typed
    <2> QED BY <2>1, <2>2, <2>3, <2>4, <2>5, <2>6, <2>7, <2>8, <2>9 DEF Inv
  <1>3. CASE setDefaultDeploymentToNewStateroot
    <2>p. /\ ibu.target \in Version /\ ibu.target > booted /\ deployed = {booted, ibu.target}
          /\ up /\ Exists(ibu) /\ cr[ibu.target] = NoCR /\ cr[booted].target = ibu.target
          /\ Begun(cr[booted]) /\ Moving(cr[booted]) /\ ~Preparing(cr[booted]) /\ ~Preparing(ibu)
          /\ ~New(booted) /\ monitor[booted] = "off" /\ file[booted].target # booted
          /\ \A v \in deployed : staterootJob[v] \notin Running
          /\ Moving(ibu) /\ ~Leaving(ibu) /\ ibu.target # booted
          /\ pc \in {"handle", "exported", "saved", "defaultSet"}
      <3>1. Moving(ibu) /\ ~Leaving(ibu) /\ ibu.target # booted
            /\ pc \in {"handle", "exported", "saved", "defaultSet"}
        BY <1>3, HandlingIs DEF setDefaultDeploymentToNewStateroot, PrePivoting, isAfterPivot, Moving,
             Inv, PivotInv
      <3> QED BY <3>1, Pivoting
    <2>a. /\ default' = ibu.target /\ pc' = "defaultSet" /\ pc = "saved"
          /\ UNCHANGED <<booted, deployed, cr, file, staterootJob, pod, monitor, up, ibu, fresh, deleted>>
      BY <1>3, <2>p DEF setDefaultDeploymentToNewStateroot, storeVars, jobVars, envVars, Supported
    <2>b. /\ Exists(file[ibu.target]) /\ file[ibu.target].target = ibu.target /\ Exists(file[booted])
      BY <2>a DEF Inv, PivotInv
    <2>1. LifeInv'
      BY <2>a, <2>b DEF LifeInv, Restoring, Operating, RestorePCs, Inv, Typed
    <2>2. SoundInv'
      BY <2>p, NoVersion, NoCRIs, BlankIs, <2>a, <2>b DEF SoundInv, Inv, Typed
    <2>3. FitsInv'
      BY NoCRIs, <2>a, <2>b DEF FitsInv, Fits, AtHome, Inv, Typed
    <2>4. HostInv'
      BY <2>p, NoVersion, NoCRIs, BlankIs, <2>a, <2>b DEF HostInv, Running, Inv, Typed
    <2>5. MemInv'
      BY <2>a, <2>b DEF MemInv, Operating, Restoring, RestorePCs, HandlePCs, AutoPCs, Inv, Typed
    <2>6. PivotInv'
      BY <2>p, NoVersion, NoCRIs, BlankIs, <2>a, <2>b DEF PivotInv, AutoPCs, Inv, Typed
    <2>7. RememberInv'
      BY <2>a, <2>b DEF RememberInv, Bootable, New, Inv, Typed
    <2>8. NewInv'
      BY <2>a, <2>b DEF NewInv, New, Running, Inv, Typed
    <2>9. LoopInv'
      BY <2>a, <2>b DEF LoopInv, Operating, Restoring, RestorePCs, Inv, Typed
    <2> QED BY <2>1, <2>2, <2>3, <2>4, <2>5, <2>6, <2>7, <2>8, <2>9 DEF Inv
  <1> QED BY <1>1, <1>2, <1>3

\* The stateroot that a rollback goes back to.
LEMMA Other ==
    ASSUME Typed, Inv, New(booted), UnbootedStateroots # {}
    PROVE  /\ UnbootedStateroot \in deployed /\ UnbootedStateroot \in Version
           /\ UnbootedStateroot # booted /\ UnbootedStateroot < booted
           /\ deployed = {booted, UnbootedStateroot}
           /\ monitor[UnbootedStateroot] = "off" /\ ~New(UnbootedStateroot)
           /\ Exists(file[UnbootedStateroot]) \/ Begun(cr[UnbootedStateroot])
           /\ default # booted => UnbootedStateroot = default
           /\ ~AtHome(booted) /\ ~AtHome(UnbootedStateroot)
  <1> DEFINE o == UnbootedStateroot
  <1>1. /\ o \in deployed /\ o # booted /\ (default # booted => o = default)
    BY UnbootedStaterootChoice DEF UnbootedStateroots, Typed
  <1> HIDE DEF o
  <1>2. o \in Version /\ deployed = {booted, o}
    BY <1>1 DEF Inv, HostInv, Typed
  <1>3. o <= booted /\ monitor[o] = "off" /\ (Exists(file[o]) \/ Begun(cr[o]))
    BY <1>1 DEF Inv, NewInv, Typed
  <1>4. o < booted
    BY <1>1, <1>2, <1>3 DEF Typed, Version
  <1>5. ~New(o)
    BY <1>1, <1>2, <1>4 DEF Inv, NewInv, Typed, Version
  <1>6. ~AtHome(booted) /\ ~AtHome(o)
    BY <1>1, <1>2, <1>3, NoCRIs, BlankIs DEF AtHome
  <1> QED BY <1>1, <1>2, <1>3, <1>4, <1>5, <1>6 DEF o

\* A saved CR may be marked failed.
LEMMA MarkedSaved ==
    ASSUME NEW x \in CRs, NEW s \in Version, Saved(x, s)
    PROVE  LET y == Failed(x, "Upgrade") IN
           Saved(y, s) /\ y.target = x.target /\ (Exists(x) => Exists(y))
  <1> DEFINE y == Failed(x, "Upgrade")
  <1>1. /\ y.stage = x.stage /\ y.target = x.target /\ y.next = x.next
        /\ y.conds["UpgradeInProgress"] = "Failed" /\ y.conds["UpgradeCompleted"] = "Failed"
        /\ \A t \in ConditionTypes \ {"UpgradeInProgress", "UpgradeCompleted"} : y.conds[t] = x.conds[t]
    BY FailedWrites, Types
  <1> HIDE DEF y
  <1>2. Saved(y, s)
    BY <1>1, Types DEF Saved, Sound, Consistent, Working, Leaving, InProgressTypes, CompletedTypes
  <1> QED BY <1>1, <1>2 DEF Exists, y

\* Where the monitor or the operator may start a rollback.
LEMMA RollingBack ==
    ASSUME Typed, Inv, MonitorRetired,
           monitor[booted] # "off" \/ pc \in AutoPCs \/ (pc \in HandlePCs /\ ibu.target = booted /\ Working(ibu))
    PROVE  /\ New(booted)
           /\ pc \in AutoPCs \/ (pc \in HandlePCs /\ ibu.target = booted /\ Working(ibu))
                => Working(cr[booted]) /\ Begun(cr[booted]) /\ cr[booted].target = booted /\ up
           /\ pc \notin {"exported", "saved", "defaultSet"}
           /\ Moving(cr[booted]) /\ cr[booted].target # booted => Exists(file[booted])
           /\ Operating => ~(Moving(ibu) /\ ibu.target # booted)
  <1>1. pc \in AutoPCs \/ (pc \in HandlePCs /\ ibu.target = booted /\ Working(ibu))
          => Working(cr[booted]) /\ Begun(cr[booted]) /\ cr[booted].target = booted /\ up
    BY DEF Inv, MemInv, PivotInv, LifeInv, AutoPCs, HandlePCs, Operating, Restoring, RestorePCs,
       Working, Begun
  <1>2. New(booted)
    BY <1>1 DEF Inv, RememberInv, Bootable, New, Typed
  <1>3. pc \notin {"exported", "saved", "defaultSet"}
    BY <1>2, Pivoting DEF Inv, PivotInv
  <1>4. Moving(cr[booted]) /\ cr[booted].target # booted => Exists(file[booted])
    BY <1>2, NoCRIs, NoVersion DEF New, Inv, LifeInv, Typed
  <1>5. ASSUME Operating, Moving(ibu), ibu.target # booted
        PROVE  FALSE
    <2>1. up
      BY <1>5 DEF Inv, LifeInv
    <2>2. Begun(cr[booted]) /\ cr[booted].target = booted
      BY <1>2, <2>1 DEF New, Inv, NewInv, Typed
    <2>3. ~Idling(cr[booted])
      BY <1>5 DEF MonitorRetired, Current, IsTrue, Idling, Working, Inv, PivotInv, AutoPCs
    <2>4. Working(cr[booted])
      BY <2>2, <2>3 DEF Working, Begun, Idling
    <2> QED BY <1>5, <2>2, <2>4 DEF Inv, MemInv
  <1> QED BY <1>1, <1>2, <1>3, <1>4, <1>5

\* The CR saved in the stateroot to go back to is marked failed.
LEMMA MarkStep ==
    ASSUME Supported, Typed, Typed', MonitorRetired, MonitorRetired', Inv,
           AutoRollbackSave \/ MonitorFire
    PROVE  Inv'
  <1>1. CASE AutoRollbackSave
    <2>r. /\ New(booted)
          /\ pc \notin {"exported", "saved", "defaultSet"}
          /\ Moving(cr[booted]) /\ cr[booted].target # booted => Exists(file[booted])
          /\ Operating => ~(Moving(ibu) /\ ibu.target # booted)
          /\ UnbootedStateroots # {}
      BY <1>1, RollingBack DEF AutoRollbackSave, markSavedIBUFailed, AutoPCs
    <2>o. PICK o \in deployed :
            /\ o = UnbootedStateroot
            /\ o \in Version /\ o # booted /\ o < booted /\ deployed = {booted, o}
            /\ monitor[o] = "off" /\ ~New(o)
            /\ Exists(file[o]) \/ Begun(cr[o])
            /\ default # booted => o = default
            /\ ~AtHome(booted) /\ ~AtHome(o)
      BY <2>r, Other
    <2>a. /\ file'[o] = Failed(file[o], "Upgrade") /\ Exists(file[o])
          /\ \A s \in Version \ {o} : file'[s] = file[s]
          /\ pc = "autoSave" /\ pc' = "autoSaved" /\ monitor' = monitor
          /\ UNCHANGED <<booted, default, deployed, cr, staterootJob, pod, up, ibu, fresh, deleted>>
      BY <1>1, <2>o DEF AutoRollbackSave, markSavedIBUFailed, hostVars, jobVars, opVars, envVars, Typed
    <2>b. Saved(file'[o], o) /\ file'[o].target = file[o].target /\ Exists(file'[o])
      BY <2>a, <2>o, MarkedSaved DEF Inv, SoundInv, Typed
    <2>c. /\ \A s \in Version : file'[s].target = file[s].target /\ (Exists(file'[s]) <=> Exists(file[s]))
          /\ \A s \in Version : ~Exists(file'[s]) => file'[s] = file[s]
      BY <2>a, <2>b
    <2>d. /\ \A s \in Version : monitor'[s] = "off" <=> monitor[s] = "off"
          /\ UNCHANGED <<booted, default, deployed, cr, staterootJob, up>>
      BY <2>a
    <2>1. LifeInv'
      BY <2>a, <2>c DEF LifeInv, Restoring, Operating, RestorePCs, Inv, Typed
    <2>2. SoundInv'
      BY <2>a, <2>b DEF SoundInv, Inv, Typed
    <2>3. FitsInv'
      <3>1. \A v \in deployed : ~AtHome(v)
        BY <2>o
      <3> QED BY <3>1, <2>a DEF FitsInv, Fits, Inv, Typed
    <2>4. HostInv'
      BY <2>a DEF HostInv, Running, Inv, Typed
    <2>5. MemInv'
      BY <2>a DEF MemInv, Operating, Restoring, RestorePCs, HandlePCs, AutoPCs, Inv, Typed
    <2>6. PivotInv'
      BY <2>o, <2>a, <2>b, <2>c DEF PivotInv, AutoPCs, Inv, Typed
    <2>7. RememberInv'
      BY <2>c, <2>d DEF RememberInv, Bootable, New, Inv, Typed
    <2>8. NewInv'
      BY <2>c, <2>d DEF NewInv, New, Inv, Typed
    <2>9. LoopInv'
      BY <2>a, <2>c DEF LoopInv, Operating, Restoring, RestorePCs, Inv, Typed
    <2> QED BY <2>1, <2>2, <2>3, <2>4, <2>5, <2>6, <2>7, <2>8, <2>9 DEF Inv
  <1>2. CASE MonitorFire
    <2>r. /\ New(booted)
          /\ pc \notin {"exported", "saved", "defaultSet"}
          /\ Moving(cr[booted]) /\ cr[booted].target # booted => Exists(file[booted])
          /\ Operating => ~(Moving(ibu) /\ ibu.target # booted)
          /\ UnbootedStateroots # {}
      BY <1>2, RollingBack DEF MonitorFire, markSavedIBUFailed, Sound, Consistent, Working, Leaving,
         Inv, SoundInv
    <2>o. PICK o \in deployed :
            /\ o = UnbootedStateroot
            /\ o \in Version /\ o # booted /\ o < booted /\ deployed = {booted, o}
            /\ monitor[o] = "off" /\ ~New(o)
            /\ Exists(file[o]) \/ Begun(cr[o])
            /\ default # booted => o = default
            /\ ~AtHome(booted) /\ ~AtHome(o)
      BY <2>r, Other
    <2>a. /\ file'[o] = Failed(file[o], "Upgrade") /\ Exists(file[o])
          /\ \A s \in Version \ {o} : file'[s] = file[s]
          /\ pc' = pc /\ monitor[booted] = "armed" /\ monitor'[booted] = "fired"
          /\ \A s \in Version \ {booted} : monitor'[s] = monitor[s]
          /\ UNCHANGED <<booted, default, deployed, cr, staterootJob, pod, up, ibu, fresh, deleted>>
      BY <1>2, <2>o DEF MonitorFire, markSavedIBUFailed, hostVars, jobVars, opVars, envVars, Typed
    <2>b. Saved(file'[o], o) /\ file'[o].target = file[o].target /\ Exists(file'[o])
      BY <2>a, <2>o, MarkedSaved DEF Inv, SoundInv, Typed
    <2>c. /\ \A s \in Version : file'[s].target = file[s].target /\ (Exists(file'[s]) <=> Exists(file[s]))
          /\ \A s \in Version : ~Exists(file'[s]) => file'[s] = file[s]
      BY <2>a, <2>b
    <2>d. /\ \A s \in Version : monitor'[s] = "off" <=> monitor[s] = "off"
          /\ UNCHANGED <<booted, default, deployed, cr, staterootJob, up>>
      BY <2>a
    <2>1. LifeInv'
      BY <2>o, <2>a, <2>b, <2>c DEF LifeInv, Restoring, Operating, RestorePCs, Inv, Typed
    <2>2. SoundInv'
      BY <2>a, <2>b DEF SoundInv, Inv, Typed
    <2>3. FitsInv'
      <3>1. \A v \in deployed : ~AtHome(v)
        BY <2>o
      <3> QED BY <3>1, <2>a DEF FitsInv, Fits, Inv, Typed
    <2>4. HostInv'
      BY <2>a DEF HostInv, Running, Inv, Typed
    <2>5. MemInv'
      BY <2>a DEF MemInv, Operating, Restoring, RestorePCs, HandlePCs, AutoPCs, Inv, Typed
    <2>6. PivotInv'
      BY <2>r, <2>a, <2>b, <2>c DEF PivotInv, AutoPCs, Inv, Typed
    <2>7. RememberInv'
      BY <2>c, <2>d DEF RememberInv, Bootable, New, Inv, Typed
    <2>8. NewInv'
      BY <2>c, <2>d DEF NewInv, New, Inv, Typed
    <2>9. LoopInv'
      BY <2>a, <2>c DEF LoopInv, Operating, Restoring, RestorePCs, Inv, Typed
    <2> QED BY <2>1, <2>2, <2>3, <2>4, <2>5, <2>6, <2>7, <2>8, <2>9 DEF Inv
  <1> QED BY <1>1, <1>2

\* The stateroot to go back to becomes the default.
LEMMA BackStep ==
    ASSUME Supported, Typed, Typed', MonitorRetired, MonitorRetired', Inv,
           AutoRollbackSetDefault \/ MonitorSetDefault \/ RollbackSetDefault
    PROVE  Inv'
  <1>1. CASE AutoRollbackSetDefault
    <2>r. /\ New(booted)
          /\ pc \notin {"exported", "saved", "defaultSet"}
          /\ Moving(cr[booted]) /\ cr[booted].target # booted => Exists(file[booted])
          /\ Operating => ~(Moving(ibu) /\ ibu.target # booted)
          /\ UnbootedStateroots # {}
      BY <1>1, RollingBack DEF AutoRollbackSetDefault, setDefaultToUnbooted, AutoPCs
    <2>o. PICK o \in deployed :
            /\ o = UnbootedStateroot
            /\ o \in Version /\ o # booted /\ o < booted /\ deployed = {booted, o}
            /\ monitor[o] = "off" /\ ~New(o)
            /\ Exists(file[o]) \/ Begun(cr[o])
            /\ default # booted => o = default
            /\ ~AtHome(booted) /\ ~AtHome(o)
      BY <2>r, Other
    <2>a. /\ default' = o /\ pc = "autoSaved" /\ pc' = "autoDefault" /\ monitor' = monitor
          /\ UNCHANGED <<booted, deployed, cr, file, staterootJob, pod, up, ibu, fresh, deleted>>
      BY <1>1, <2>o DEF AutoRollbackSetDefault,  storeVars, jobVars, opVars, envVars,
           setDefaultToUnbooted, Supported, Typed
    <2>1. LifeInv'
      BY <2>a DEF LifeInv, Restoring, Operating, RestorePCs, Inv, Typed
    <2>2. SoundInv'
      BY <2>r, <2>o, NoVersion, NoCRIs, BlankIs, <2>a DEF SoundInv, Inv, Typed
    <2>3. FitsInv'
      <3>1. \A v \in deployed : ~AtHome(v)
        BY <2>o
      <3> QED BY <3>1, <2>a DEF FitsInv, Fits, Inv, Typed
    <2>4. HostInv'
      BY <2>r, <2>o, NoVersion, NoCRIs, BlankIs, <2>a DEF HostInv, Running, Inv, Typed
    <2>5. MemInv'
      BY <2>a DEF MemInv, Operating, Restoring, RestorePCs, HandlePCs, AutoPCs, Inv, Typed
    <2>6. PivotInv'
      BY <2>r, <2>o, NoVersion, NoCRIs, BlankIs, <2>a DEF PivotInv, AutoPCs, Inv, Typed
    <2>7. RememberInv'
      BY <2>o, <2>a DEF RememberInv, Bootable, New, Inv, Typed
    <2>8. NewInv'
      BY <2>a DEF NewInv, New, Running, Inv, Typed
    <2>9. LoopInv'
      BY <2>r, <2>a DEF LoopInv, Operating, Restoring, RestorePCs, Inv, Typed
    <2> QED BY <2>1, <2>2, <2>3, <2>4, <2>5, <2>6, <2>7, <2>8, <2>9 DEF Inv
  <1>2. CASE MonitorSetDefault
    <2>r. /\ New(booted)
          /\ pc \notin {"exported", "saved", "defaultSet"}
          /\ Moving(cr[booted]) /\ cr[booted].target # booted => Exists(file[booted])
          /\ Operating => ~(Moving(ibu) /\ ibu.target # booted)
          /\ UnbootedStateroots # {}
      BY <1>2, RollingBack DEF MonitorSetDefault, setDefaultToUnbooted, Sound, Consistent, Working,
         Leaving, Inv, SoundInv
    <2>o. PICK o \in deployed :
            /\ o = UnbootedStateroot
            /\ o \in Version /\ o # booted /\ o < booted /\ deployed = {booted, o}
            /\ monitor[o] = "off" /\ ~New(o)
            /\ Exists(file[o]) \/ Begun(cr[o])
            /\ default # booted => o = default
            /\ ~AtHome(booted) /\ ~AtHome(o)
      BY <2>r, Other
    <2>a. /\ default' = o /\ pc' = pc /\ monitor[booted] # "off" /\ monitor'[booted] # "off"
          /\ \A s \in Version \ {booted} : monitor'[s] = monitor[s]
          /\ UNCHANGED <<booted, deployed, cr, file, staterootJob, pod, up, ibu, fresh, deleted>>
      BY <1>2, <2>o DEF MonitorSetDefault,  storeVars, jobVars, opVars, envVars, setDefaultToUnbooted,
           Supported, Typed
    <2>1. LifeInv'
      BY <2>a DEF LifeInv, Restoring, Operating, RestorePCs, Inv, Typed
    <2>2. SoundInv'
      BY <2>r, <2>o, NoVersion, NoCRIs, BlankIs, <2>a DEF SoundInv, Inv, Typed
    <2>3. FitsInv'
      <3>1. \A v \in deployed : ~AtHome(v)
        BY <2>o
      <3> QED BY <3>1, <2>a DEF FitsInv, Fits, Inv, Typed
    <2>4. HostInv'
      BY <2>r, <2>o, NoVersion, NoCRIs, BlankIs, <2>a DEF HostInv, Running, Inv, Typed
    <2>5. MemInv'
      BY <2>a DEF MemInv, Operating, Restoring, RestorePCs, HandlePCs, AutoPCs, Inv, Typed
    <2>6. PivotInv'
      BY <2>r, <2>o, NoVersion, NoCRIs, BlankIs, <2>a DEF PivotInv, AutoPCs, Inv, Typed
    <2>7. RememberInv'
      BY <2>o, <2>a DEF RememberInv, Bootable, New, Inv, Typed
    <2>8. NewInv'
      BY <2>a DEF NewInv, New, Running, Inv, Typed
    <2>9. LoopInv'
      BY <2>r, <2>a DEF LoopInv, Operating, Restoring, RestorePCs, Inv, Typed
    <2> QED BY <2>1, <2>2, <2>3, <2>4, <2>5, <2>6, <2>7, <2>8, <2>9 DEF Inv
  <1>3. CASE RollbackSetDefault
    <2>r. /\ New(booted)
          /\ pc \notin {"exported", "saved", "defaultSet"}
          /\ Moving(cr[booted]) /\ cr[booted].target # booted => Exists(file[booted])
          /\ Operating => ~(Moving(ibu) /\ ibu.target # booted)
          /\ UnbootedStateroots # {}
      BY <1>3, RollingBack, HandlingIs DEF RollbackSetDefault, setDefaultToUnbooted, Rollbacking,
         isAfterPivot, HandlePCs, Supported, Unset, Sound, Consistent, Working, Inv, SoundInv
    <2>o. PICK o \in deployed :
            /\ o = UnbootedStateroot
            /\ o \in Version /\ o # booted /\ o < booted /\ deployed = {booted, o}
            /\ monitor[o] = "off" /\ ~New(o)
            /\ Exists(file[o]) \/ Begun(cr[o])
            /\ default # booted => o = default
            /\ ~AtHome(booted) /\ ~AtHome(o)
      BY <2>r, Other
    <2>a. /\ default' = o /\ pc' = "rollbackDefault" /\ monitor' = monitor /\ pc = "handle"
          /\ ibu.target = booted /\ ibu.conds["RollbackInProgress"] = "InProgress" /\ ~Leaving(ibu)
          /\ UNCHANGED <<booted, deployed, cr, file, staterootJob, pod, up, ibu, fresh, deleted>>
      BY <1>3, <2>o, HandlingIs DEF RollbackSetDefault, Rollbacking, isAfterPivot, storeVars,
         jobVars, envVars, setDefaultToUnbooted
    <2>1. LifeInv'
      BY <2>a DEF LifeInv, Restoring, Operating, RestorePCs, Inv, Typed
    <2>2. SoundInv'
      BY <2>r, <2>o, NoVersion, NoCRIs, BlankIs, <2>a DEF SoundInv, Inv, Typed
    <2>3. FitsInv'
      <3>1. \A v \in deployed : ~AtHome(v)
        BY <2>o
      <3> QED BY <3>1, <2>a DEF FitsInv, Fits, Inv, Typed
    <2>4. HostInv'
      BY <2>r, <2>o, NoVersion, NoCRIs, BlankIs, <2>a DEF HostInv, Running, Inv, Typed
    <2>5. MemInv'
      BY <2>a DEF MemInv, Operating, Restoring, RestorePCs, HandlePCs, AutoPCs, Inv, Typed
    <2>6. PivotInv'
      BY <2>r, <2>o, NoVersion, NoCRIs, BlankIs, <2>a DEF PivotInv, AutoPCs, Inv, Typed
    <2>7. RememberInv'
      BY <2>o, <2>a DEF RememberInv, Bootable, New, Inv, Typed
    <2>8. NewInv'
      BY <2>a DEF NewInv, New, Running, Inv, Typed
    <2>9. LoopInv'
      BY <2>r, <2>a DEF LoopInv, Operating, Restoring, RestorePCs, Inv, Typed
    <2> QED BY <2>1, <2>2, <2>3, <2>4, <2>5, <2>6, <2>7, <2>8, <2>9 DEF Inv
  <1> QED BY <1>1, <1>2, <1>3

\* The CR is saved in the stateroot to go back to.
LEMMA SaveStep ==
    ASSUME Supported, Typed, Typed', MonitorRetired, MonitorRetired', Inv, RollbackSave
    PROVE  Inv'
  <1>1. CASE RollbackSave
    <2>0. /\ pc \in HandlePCs /\ ibu.target = booted /\ Working(ibu) /\ UnbootedStateroots # {}
      BY DEF RollbackSave, Inv, PivotInv, SoundInv, Sound, Consistent, Working, Unset, HandlePCs,
         InProgressTypes
    <2>r. /\ New(booted)
          /\ pc \notin {"exported", "saved", "defaultSet"}
          /\ Moving(cr[booted]) /\ cr[booted].target # booted => Exists(file[booted])
          /\ Operating => ~(Moving(ibu) /\ ibu.target # booted)
          /\ UnbootedStateroots # {}
      BY <2>0, RollingBack
    <2>o. PICK o \in deployed :
            /\ o = UnbootedStateroot
            /\ o \in Version /\ o # booted /\ o < booted /\ deployed = {booted, o}
            /\ monitor[o] = "off" /\ ~New(o)
            /\ Exists(file[o]) \/ Begun(cr[o])
            /\ default # booted => o = default
            /\ ~AtHome(booted) /\ ~AtHome(o)
      BY <2>r, Other
    <2>a. /\ file'[o] = ibu /\ \A s \in Version \ {o} : file'[s] = file[s]
          /\ pc = "rollbackDefault" /\ pc' = "rollbackSaved" /\ default # booted
          /\ cr'[booted] \in {cr[booted], ibu} /\ \A s \in Version \ {booted} : cr'[s] = cr[s]
          /\ UNCHANGED <<booted, default, deployed, staterootJob, pod, monitor, up, ibu, fresh, deleted>>
      BY <1>1, <2>o DEF RollbackSave, hostVars, jobVars, envVars, Typed, Inv, PivotInv
    <2>b. /\ ibu.target = booted /\ ibu.conds["RollbackInProgress"] = "InProgress" /\ ~Leaving(ibu)
          /\ Sound(ibu, booted) /\ Fits(ibu, booted) /\ Exists(ibu) /\ up
      BY <2>a DEF Inv, PivotInv, SoundInv, FitsInv, Typed, InMemory, LifeInv, Operating, Restoring,
         RestorePCs
    <2>c. /\ Working(ibu) /\ Begun(ibu) /\ ~Idling(ibu) /\ Saved(ibu, o)
      BY <2>b, <2>o DEF Saved, Sound, Consistent, Working, Begun, Idling, Unset
    <2>d. /\ Begun(cr[booted]) /\ Working(cr[booted]) /\ cr[booted].target = booted
      BY <2>a, <2>b, <2>c, RollingBack DEF HandlePCs
    <2>e. /\ cr'[booted].target = booted /\ Begun(cr'[booted]) /\ Working(cr'[booted]) /\ Exists(cr'[booted])
          /\ Sound(cr'[booted], booted) /\ Fits(cr'[booted], booted)
          /\ \A t \in ConditionTypes : ibu.conds[t] \in {cr'[booted].conds[t], "InvalidTransition"}
          /\ Leaving(cr'[booted]) => Leaving(ibu)
      BY <2>a, <2>b, <2>c, <2>d DEF Inv, MemInv, HandlePCs, SoundInv, FitsInv, LifeInv, Typed
    <2>1. LifeInv'
      BY <2>a, <2>b, <2>e DEF LifeInv, Restoring, Operating, RestorePCs, Inv, Typed
    <2>2. SoundInv'
      BY <2>a, <2>c, <2>e DEF SoundInv, Inv, Typed
    <2>3. FitsInv'
      BY <2>a, <2>e DEF FitsInv, Fits, AtHome, Inv, Typed
    <2>4. HostInv'
      BY <2>a, <2>e DEF HostInv, Running, Inv, Typed
    <2>5. MemInv'
      BY <2>a, <2>e DEF MemInv, Operating, Restoring, RestorePCs, HandlePCs, AutoPCs, Inv, Typed
    <2>6. PivotInv'
      BY <2>o, <2>a, <2>b, <2>c, <2>e DEF PivotInv, AutoPCs, Inv, Typed
    <2>7. RememberInv'
      BY <2>o, <2>a, <2>b, <2>c, <2>e DEF RememberInv, Bootable, New, Inv, Typed
    <2>8. NewInv'
      BY <2>r, <2>o, <2>a, <2>b, <2>c DEF NewInv, New, Inv, Typed
    <2>9. LoopInv'
      BY <2>o, <2>a, <2>b, <2>c, <2>e DEF LoopInv
    <2> QED BY <2>1, <2>2, <2>3, <2>4, <2>5, <2>6, <2>7, <2>8, <2>9 DEF Inv
  <1> QED BY <1>1

\* The upgrade is reported completed or failed.
LEMMA PostPivotStep ==
    ASSUME Supported, Typed, Typed', MonitorRetired, MonitorRetired', Inv,
           PostPivotComplete \/ PostPivotFailed
    PROVE  Inv'
  <1>1. CASE PostPivotComplete
    <2>2. /\ Operating /\ Sound(ibu, booted) /\ Fits(ibu, booted) /\ pc = "handle"
          /\ Moving(ibu) /\ ~Leaving(ibu) /\ ibu.target = booted
      BY <1>1, HandlingIs DEF PostPivotComplete, PostPivoting, isAfterPivot, Operating, Restoring,
         RestorePCs, Inv, SoundInv, FitsInv, Moving
    <2>3. LET y == Completed(ibu, "Upgrade") IN
          Sound(y, booted) /\ Fits(y, booted) /\ y.target = ibu.target /\ Begun(y) /\ ~Moving(y)
      BY <2>2, ReportsSound
    <2>4. Begun(cr[booted]) /\ Working(cr[booted])
      BY <2>2, WorkingHandler DEF HandlePCs, InProgressTypes, Moving
    <2>1. ToFinal(Completed(ibu, "Upgrade"), FALSE)
          /\ UNCHANGED <<booted, default, deployed, cr, file, staterootJob, pod, deleted>>
          /\ monitor' \in {monitor, [monitor EXCEPT ![booted] = "off"]}
      BY <1>1 DEF PostPivotComplete, hostVars, storeVars, jobVars
    <2> QED BY <2>1, <2>2, <2>3, <2>4, ReportStep DEF Typed
  <1>2. CASE PostPivotFailed
    <2>2. /\ Operating /\ Sound(ibu, booted) /\ Fits(ibu, booted) /\ pc = "handle"
          /\ Moving(ibu) /\ ~Leaving(ibu) /\ ibu.target = booted
      BY <1>2, HandlingIs DEF PostPivotFailed, PostPivoting, isAfterPivot, Operating, Restoring,
         RestorePCs, Inv, SoundInv, FitsInv, Moving
    <2>3. LET y == Failed(ibu, "Upgrade") IN
          Sound(y, booted) /\ Fits(y, booted) /\ y.target = ibu.target /\ Begun(y) /\ ~Moving(y)
      BY <2>2, ReportsSound
    <2>4. Begun(cr[booted]) /\ Working(cr[booted])
      BY <2>2, WorkingHandler DEF HandlePCs, InProgressTypes, Moving
    <2> DEFINE y == Failed(ibu, "Upgrade")
    <2>5. CASE ToFinal(y, FALSE)
      <3>1. UNCHANGED <<booted, default, deployed, cr, file, staterootJob, pod, deleted, monitor>>
        BY <1>2 DEF PostPivotFailed, hostVars, storeVars, jobVars, envVars
      <3> QED BY <2>2, <2>3, <2>4, <2>5, <3>1, ReportStep DEF Typed
    <2>6. CASE ibu' = y /\ pc' = "autoSave" /\ UNCHANGED <<up, fresh>>
      <3>a. /\ ibu' = y /\ pc' = "autoSave" /\ UNCHANGED <<up, fresh>>
            /\ UNCHANGED <<booted, default, deployed, cr, file, staterootJob, pod, deleted, monitor>>
        BY <1>2, <2>6 DEF PostPivotFailed, hostVars, storeVars, jobVars, envVars
      <3>b. ~Leaving(y) /\ y.conds["UpgradeCompleted"] = "Failed"
        BY <2>2, FailedWrites, Types DEF Leaving, Typed
      <3>c. up /\ ~Leaving(cr[booted]) /\ cr[booted].target = booted
        BY <2>2, <2>4 DEF Inv, LifeInv, MemInv, HandlePCs
      <3> HIDE DEF y
      <3>d. Sound(y, booted) /\ Fits(y, booted) /\ y.target = ibu.target /\ Begun(y) /\ ~Moving(y)
        BY <2>3 DEF y
      <3>1. LifeInv'
        BY <3>a, <3>c, <3>d DEF LifeInv, Restoring, Operating, RestorePCs, Inv, Typed
      <3>2. SoundInv'
        BY <2>2, <2>4, <3>a, <3>b, <3>c, <3>d DEF SoundInv, Inv, Typed
      <3>3. FitsInv'
        BY <3>a, <3>d DEF FitsInv, Fits, AtHome, Inv, Typed
      <3>4. HostInv'
        BY <2>2, <2>4, <3>a, <3>b, <3>c, <3>d DEF HostInv, Running, Inv, Typed
      <3>5. MemInv'
        BY <2>2, <2>4, <3>a, <3>d DEF MemInv, HandlePCs, Inv
      <3>6. PivotInv'
        BY <2>2, <2>4, <3>a, <3>b, <3>c, <3>d DEF PivotInv, AutoPCs, Inv, Typed
      <3>7. RememberInv'
        BY <3>a DEF RememberInv, Bootable, New, Inv, Typed
      <3>8. NewInv'
        BY <3>a DEF NewInv, New, Running, Inv, Typed
      <3>9. LoopInv'
        BY <3>a, <3>d DEF LoopInv, Operating, Restoring, RestorePCs, Inv, Typed
      <3> QED BY <3>1, <3>2, <3>3, <3>4, <3>5, <3>6, <3>7, <3>8, <3>9 DEF Inv
    <2> QED BY <1>2, <2>5, <2>6 DEF PostPivotFailed
  <1> QED BY <1>1, <1>2

\* The monitor gives up.
LEMMA MonitorErrorStep ==
    ASSUME Supported, Typed, Typed', MonitorRetired, MonitorRetired', Inv, MonitorError
    PROVE  Inv'
  <1>1. CASE MonitorError
    <2>a. /\ monitor'[booted] = "off" /\ \A s \in Version \ {booted} : monitor'[s] = monitor[s]
          /\ UNCHANGED <<booted, default, deployed, cr, file, staterootJob, pod, up, pc, ibu, fresh, deleted>>
      BY <1>1 DEF MonitorError, hostVars, storeVars, jobVars, opVars, Typed
    <2>1. LifeInv'
      BY <2>a DEF LifeInv, Restoring, Operating, RestorePCs, Inv, Typed
    <2>2. SoundInv'
      BY <2>a DEF SoundInv, Inv, Typed
    <2>3. FitsInv'
      BY <2>a DEF FitsInv, Fits, AtHome, Inv, Typed
    <2>4. HostInv'
      BY <2>a DEF HostInv, Running, Inv, Typed
    <2>5. MemInv'
      BY <2>a DEF MemInv, Operating, Restoring, RestorePCs, HandlePCs, AutoPCs, Inv, Typed
    <2>6. PivotInv'
      BY <2>a DEF PivotInv, AutoPCs, Inv, Typed
    <2>7. RememberInv'
      BY <2>a DEF RememberInv, Bootable, New, Inv, Typed
    <2>8. NewInv'
      BY <2>a DEF NewInv, New, Running, Inv, Typed
    <2>9. LoopInv'
      BY <2>a DEF LoopInv, Operating, Restoring, RestorePCs, Inv, Typed
    <2> QED BY <2>1, <2>2, <2>3, <2>4, <2>5, <2>6, <2>7, <2>8, <2>9 DEF Inv
  <1> QED BY <1>1

\* The node, or only the operator, starts again: what is in memory is gone.
LEMMA BootStep ==
    ASSUME Typed, Inv, NEW s \in deployed, Bootable(s), booted' = s,
           pod' = 0, up' = FALSE, pc' = "idle", deleted' = NoCR,
           \A v \in Version : monitor[v] = "off" => monitor'[v] = "off",
           UNCHANGED <<default, deployed, cr, file, staterootJob>>
    PROVE  Inv'
  <1>a. \A v : AtHome(v) => s = v
    BY NoCRIs DEF AtHome, Bootable, Typed
  <1>b. \A v \in deployed : v = booted \/ v = s \/ booted = s
    BY DEF Inv, HostInv, Typed
  <1>c. \A v : Bootable(v)' => Bootable(v)
    BY DEF Bootable
  <1>1. LifeInv'
    BY <1>a, <1>b DEF LifeInv, Restoring, Operating, RestorePCs, Inv, Typed
  <1>2. SoundInv'
    BY <1>a, <1>b DEF SoundInv, Inv, Typed
  <1>3. FitsInv'
    BY <1>a, <1>b DEF FitsInv, Fits, AtHome, Inv, Typed
  <1>4. HostInv'
    BY <1>a, <1>b DEF HostInv, Running, Inv, Typed
  <1>5. MemInv'
    BY <1>a, <1>b DEF MemInv, Operating, Restoring, RestorePCs, HandlePCs, AutoPCs, Inv, Typed
  <1>6. PivotInv'
    BY <1>a, <1>b DEF PivotInv, AutoPCs, Inv, Typed
  <1>7. RememberInv'
    BY <1>c DEF RememberInv, New, Inv, Typed
  <1>8. NewInv'
    BY <1>a, <1>b DEF NewInv, New, Running, Inv, Typed
  <1>9. LoopInv'
    <2>1. ASSUME NEW v \in deployed, Moving(cr[v]), cr[v].target # v,
                 Exists(cr[cr[v].target]) \/ s = cr[v].target
          PROVE  Exists(file[v])
      <3>1. CASE Exists(cr[cr[v].target]) \/ booted = cr[v].target
        BY <2>1, <3>1 DEF Inv, LoopInv
      <3>2. CASE s = cr[v].target /\ ~Exists(cr[s]) /\ booted # s
        <4>1. s = default
          BY <3>2 DEF Bootable
        <4>2. v = booted
          BY <1>b, <2>1, <3>2
        <4> QED BY <2>1, <3>2, <4>1, <4>2 DEF Inv, LoopInv
      <3> QED BY <2>1, <3>1, <3>2
    <2>2. ASSUME Moving(cr[s]), cr[s].target # s, default # s
          PROVE  Exists(file[s])
      <3>1. CASE s = booted
        BY <2>2, <3>1 DEF Inv, LoopInv
      <3>2. CASE s # booted
        <4>1. deployed \subseteq {s, cr[s].target}
          BY <2>2 DEF Inv, FitsInv, Fits
        <4>2. cr[s].target = booted
          BY <3>2, <4>1 DEF Typed
        <4> QED BY <2>2, <4>2 DEF Inv, LoopInv
      <3> QED BY <3>1, <3>2
    <2> QED BY <2>1, <2>2 DEF LoopInv, Operating
  <1> QED BY <1>1, <1>2, <1>3, <1>4, <1>5, <1>6, <1>7, <1>8, <1>9 DEF Inv

\* The crashes and the reboots.
LEMMA RestartStep ==
    ASSUME Typed, Inv, Reboot \/ NodeCrash \/ OperatorCrash
    PROVE  Inv'
  <1>1. CASE Reboot
    <2>1. /\ booted' = default /\ pod' = 0 /\ up' = FALSE /\ pc' = "idle" /\ deleted' = NoCR
          /\ UNCHANGED <<default, deployed, cr, file, staterootJob>>
          /\ \A v \in Version : monitor[v] = "off" => monitor'[v] = "off"
      BY <1>1 DEF Reboot, BootInto, storeVars, Typed
    <2>2. default \in deployed /\ Bootable(default)
      BY DEF Typed, Bootable
    <2> QED BY <2>1, <2>2, BootStep
  <1>2. CASE NodeCrash
    <2>1. PICK s \in deployed : (s = default \/ Exists(cr[s])) /\ BootInto(s)
      BY <1>2 DEF NodeCrash
    <2>2. /\ booted' = s /\ pod' = 0 /\ up' = FALSE /\ pc' = "idle" /\ deleted' = NoCR
          /\ UNCHANGED <<default, deployed, cr, file, staterootJob>>
          /\ \A v \in Version : monitor[v] = "off" => monitor'[v] = "off"
      BY <1>2, <2>1 DEF NodeCrash, BootInto, storeVars, Typed
    <2>3. Bootable(s)
      BY <2>1 DEF Bootable
    <2> QED BY <2>2, <2>3, BootStep
  <1>3. CASE OperatorCrash
    <2>a. /\ up' = FALSE /\ pc' = "idle" /\ deleted' = NoCR
          /\ UNCHANGED <<booted, default, deployed, cr, file, staterootJob, pod, monitor>>
      BY <1>3 DEF OperatorCrash, hostVars, storeVars, jobVars
    <2>1. LifeInv'
      BY <2>a DEF LifeInv, Restoring, Operating, RestorePCs, Inv, Typed
    <2>2. SoundInv'
      BY <2>a DEF SoundInv, Inv, Typed
    <2>3. FitsInv'
      BY <2>a DEF FitsInv, Fits, AtHome, Inv, Typed
    <2>4. HostInv'
      BY <2>a DEF HostInv, Running, Inv, Typed
    <2>5. MemInv'
      BY <2>a DEF MemInv, Operating, Restoring, RestorePCs, HandlePCs, AutoPCs, Inv, Typed
    <2>6. PivotInv'
      BY <2>a DEF PivotInv, AutoPCs, Inv, Typed
    <2>7. RememberInv'
      BY <2>a DEF RememberInv, Bootable, New, Inv, Typed
    <2>8. NewInv'
      BY <2>a DEF NewInv, New, Running, Inv, Typed
    <2>9. LoopInv'
      BY <2>a DEF LoopInv, Operating, Restoring, RestorePCs, Inv, Typed
    <2> QED BY <2>1, <2>2, <2>3, <2>4, <2>5, <2>6, <2>7, <2>8, <2>9 DEF Inv
  <1> QED BY <1>1, <1>2, <1>3

\* Cleanup runs for a CR whose status asks for it.
LEMMA Cleaning ==
    ASSUME Typed, Inv, CleaningUp \/ Handling("Idle")
    PROVE  /\ pc \in HandlePCs /\ Operating /\ up /\ Leaving(ibu) /\ Leaving(cr[booted])
           /\ Begun(cr[booted]) /\ Working(cr[booted])
           /\ ibu.target = cr[booted].target /\ ibu.target \in Version
           /\ ibu.conds["Idle"] = cr[booted].conds["Idle"]
           /\ file[booted].target # booted
           /\ Sound(ibu, booted) /\ Fits(ibu, booted)
           /\ ~PivotedIn(cr[booted], booted)
  <1>1. pc \in HandlePCs /\ Leaving(ibu)
    BY HandlingIs DEF CleaningUp, HandlePCs, Inv, PivotInv, Leaving, IdleInProgressReasons
  <1>2. Operating /\ up /\ Sound(ibu, booted) /\ Fits(ibu, booted) /\ Sound(cr[booted], booted)
    BY <1>1 DEF Operating, HandlePCs, Restoring, RestorePCs, Inv, LifeInv, SoundInv, FitsInv, Typed
  <1>3. Working(cr[booted]) /\ Begun(cr[booted]) /\ ibu.target = cr[booted].target
    BY <1>1, WorkingHandler
  <1>4. ibu.target \in Version
    BY <1>1, <1>2, TargetKnown DEF Typed
  <1>5. ibu.conds["Idle"] = cr[booted].conds["Idle"]
    BY <1>1, Types DEF Inv, MemInv, Leaving, IdleInProgressReasons
  <1>6. Leaving(cr[booted])
    BY <1>1, <1>5 DEF Leaving
  <1>7. file[booted].target # booted
    BY <1>2 DEF Inv, NewInv, Typed
  <1>8. ~PivotedIn(cr[booted], booted)
    BY <1>2, <1>6 DEF PivotedIn, Sound, Leaving, IdleInProgressReasons
  <1> QED BY <1>1, <1>2, <1>3, <1>4, <1>5, <1>6, <1>7, <1>8

\* Cleanup leaves only the booted stateroot, whatever else it reports.
LEMMA CleanedStep ==
    ASSUME Typed, Typed', Inv, CleaningUp,
           booted' = booted, deployed' = {booted}, default' = booted, pod' = 0,
           \A s \in Version : staterootJob'[s] = "none",
           \A s \in Version \ {booted} : cr'[s] = NoCR /\ file'[s] = NoCR,
           cr'[booted] = cr[booted], file'[booted] = file[booted], monitor'[booted] = monitor[booted],
           pc' = "final", UNCHANGED <<up, fresh, deleted>>,
           Sound(ibu', booted), ibu'.target = ibu.target, Begun(ibu'),
           Idling(ibu') \/ (Leaving(ibu') /\ ~PivotedIn(ibu', booted))
    PROVE  Inv'
  <1>a. /\ Operating /\ up /\ Leaving(cr[booted]) /\ Begun(cr[booted]) /\ Working(cr[booted])
        /\ ibu.target = cr[booted].target /\ file[booted].target # booted
        /\ ~PivotedIn(cr[booted], booted) /\ ibu.target \in Version
    BY Cleaning
  <1>b. /\ ~Idling(cr[booted]) /\ ~Preparing(cr[booted]) /\ ~Prepared(cr[booted])
    BY <1>a DEF Idling, Working, Preparing, Prepared
  <1>c. /\ ~Preparing(ibu') /\ ~Prepared(ibu') /\ ~PivotedIn(ibu', booted)
    BY DEF Sound, Consistent, Idling, Leaving, Preparing, Prepared, PivotedIn, InProgressTypes,
       CompletedTypes, Unset
  <1>d. Exists(cr[booted])
    BY <1>a DEF Inv, LifeInv
  <1>1. LifeInv'
    BY <1>a DEF LifeInv, Restoring, Operating, RestorePCs, Inv, Typed
  <1>2. SoundInv'
    BY <1>a, <1>b, <1>c, <1>d, NoVersion, NoCRIs, BlankIs DEF SoundInv, Inv, Typed
  <1>3. FitsInv'
    BY <1>a, <1>b, <1>c DEF FitsInv, Fits, Running, Typed
  <1>4. HostInv'
    BY DEF HostInv, Running, Typed
  <1>5. MemInv'
    BY <1>a DEF MemInv, Operating, Restoring, RestorePCs, HandlePCs, AutoPCs, Inv, Typed
  <1>6. PivotInv'
    BY DEF PivotInv, AutoPCs, Typed
  <1>7. RememberInv'
    BY DEF RememberInv, Bootable, New, Inv, Typed
  <1>8. NewInv'
    BY <1>a DEF NewInv, New, Running, Inv, Typed
  <1>9. LoopInv'
    <2>1. ~Exists(cr'[ibu.target]) \/ ibu.target = booted
      BY <1>a, NoCRIs
    <2> QED BY <1>a, <2>1 DEF LoopInv
  <1> QED BY <1>1, <1>2, <1>3, <1>4, <1>5, <1>6, <1>7, <1>8, <1>9 DEF Inv

\* Cleanup fails and leaves the stateroots as they are.
LEMMA KeptStep ==
    ASSUME Typed, Typed', Inv, CleaningUp,
           UNCHANGED <<booted, default, deployed, cr, file, up, fresh, deleted>>,
           \A s \in deployed : monitor'[s] = monitor[s],
           \A s \in Version \ {booted} : staterootJob'[s] = staterootJob[s],
           \/ staterootJob'[booted] = "none" /\ pod' = 0
           \/ /\ staterootJob[booted] # "none" /\ staterootJob'[booted] # "none" /\ pod' = pod
              /\ staterootJob'[booted] \in Running <=> staterootJob[booted] \in Running,
           pc' = "final",
           Sound(ibu', booted), ibu'.target = ibu.target, Begun(ibu'), Leaving(ibu'),
           ~PivotedIn(ibu', booted), Moving(ibu') => Moving(ibu)
    PROVE  Inv'
  <1>a. /\ Operating /\ up /\ Leaving(cr[booted]) /\ Begun(cr[booted]) /\ Working(cr[booted])
        /\ ibu.target = cr[booted].target /\ file[booted].target # booted
        /\ ~PivotedIn(cr[booted], booted) /\ Fits(ibu, booted)
    BY Cleaning
  <1>b. /\ ~Idling(cr[booted]) /\ ~Preparing(cr[booted]) /\ ~Prepared(cr[booted])
    BY <1>a DEF Idling, Working, Preparing, Prepared
  <1>c. /\ ~Idling(ibu') /\ ~Preparing(ibu') /\ ~Prepared(ibu')
    BY DEF Idling, Leaving, Preparing, Prepared, IdleInProgressReasons
  <1>1. LifeInv'
    BY <1>a, <1>b, <1>c DEF LifeInv, Restoring, Operating, RestorePCs, Inv, Typed
  <1>2. SoundInv'
    BY <1>a, <1>b, <1>c DEF SoundInv, Inv, Typed
  <1>3. FitsInv'
    <2>0. staterootJob'[booted] \in Running => staterootJob[booted] \in Running
      BY DEF Running
    <2>1. Fits(ibu, booted)' /\ Fits(cr[booted], booted)'
      BY <1>a, <1>b, <1>c, <2>0 DEF Fits, Inv, FitsInv, Typed
    <2>2. ASSUME NEW s \in deployed, s # booted
          PROVE  Fits(cr[s], s)'
      <3>1. Fits(cr[s], s) /\ s \in Version
        BY DEF Inv, FitsInv, Typed
      <3>2. ~Preparing(cr[s]) /\ ~(Prepared(cr[s]) /\ ~Moving(cr[s]) /\ cr[s].target # s)
        BY <2>2, <3>1 DEF Fits, AtHome
      <3> QED BY <2>2, <3>1, <3>2 DEF Fits
    <2> QED BY <2>1, <2>2 DEF FitsInv
  <1>4. HostInv'
    BY <1>a, <1>b, <1>c DEF HostInv, Running, Inv, Typed
  <1>5. MemInv'
    BY <1>a DEF MemInv, Operating, Restoring, RestorePCs, HandlePCs, AutoPCs, Inv, Typed
  <1>6. PivotInv'
    BY <1>a, <1>b, <1>c DEF PivotInv, AutoPCs, Inv, Typed
  <1>7. RememberInv'
    BY <1>a, <1>b, <1>c DEF RememberInv, Bootable, New, Inv, Typed, Running
  <1>8. NewInv'
    BY <1>a, <1>b, <1>c DEF NewInv, New, Running, Inv, Typed
  <1>9. LoopInv'
    BY <1>a, <1>b, <1>c DEF LoopInv, Operating, Restoring, RestorePCs, Inv, Typed
  <1> QED BY <1>1, <1>2, <1>3, <1>4, <1>5, <1>6, <1>7, <1>8, <1>9 DEF Inv

\* CRs that only their annotations tell apart, and what these have in common.
Alike(y, x) == y.stage = x.stage /\ y.target = x.target /\ y.conds = x.conds /\ y.next = x.next
Same(y, x) ==
    /\ y.target = x.target /\ y.conds = x.conds
    /\ Exists(y) <=> Exists(x)
    /\ Begun(y) <=> Begun(x)
    /\ Idling(y) <=> Idling(x)
    /\ Working(y) <=> Working(x)
    /\ Leaving(y) <=> Leaving(x)
    /\ Preparing(y) <=> Preparing(x)
    /\ Prepared(y) <=> Prepared(x)
    /\ PrepDone(y) <=> PrepDone(x)
    /\ Moving(y) <=> Moving(x)
    /\ \A s : PivotedIn(y, s) <=> PivotedIn(x, s)
    /\ \A s : Sound(y, s) <=> Sound(x, s)

\* The properties of a CR do not depend on the annotations.
LEMMA AlikeSame == ASSUME NEW x, NEW y, Alike(y, x) PROVE Same(y, x)
  BY DEF Alike, Same, Exists, Sound, Begun, Idling, Working, Leaving, Preparing, Prepared, PrepDone,
     Moving, PivotedIn

\* Abort and finalize.
LEMMA CleanupStep ==
    ASSUME Supported, Typed, Typed', MonitorRetired, MonitorRetired', Inv, handleAbortOrFinalize
    PROVE  Inv'
  <1>1. CASE FinalizeWait
    <2> DEFINE y == [ibu EXCEPT !.conds = SetCondition(@, "Idle", "Finalizing")]
    <2>1. /\ ToFinal(y, TRUE)
          /\ UNCHANGED <<booted, default, deployed, cr, file, staterootJob, pod, deleted, monitor>>
      BY <1>1 DEF FinalizeWait, hostVars, storeVars, jobVars, envVars
    <2>2. Operating /\ Leaving(ibu) /\ Sound(ibu, booted) /\ Fits(ibu, booted) /\ Begun(cr[booted])
      BY <1>1, Cleaning DEF FinalizeWait, CleaningUp
    <2>3. Sound(y, booted) /\ Fits(y, booted) /\ y.target = ibu.target /\ Begun(y) /\ (Moving(y) => Moving(ibu))
      BY <2>2, ReportsSound DEF IdleInProgressReasons
    <2> QED BY <2>1, <2>2, <2>3, ReportStep DEF Typed
  <1>2. CASE checkManualCleanup
    <2>0. /\ Operating /\ Sound(ibu, booted) /\ Fits(ibu, booted) /\ pc = "handle" /\ up /\ Leaving(ibu)
          /\ Leaving(cr[booted])
      BY <1>2, Cleaning, HandlingIs DEF checkManualCleanup
    <2>1. CASE ibu.cleaned /\ fresh
      <3>a. /\ pc' = "cleanup" /\ ibu' = [ibu EXCEPT !.cleaned = FALSE]
            /\ cr' = [cr EXCEPT ![booted].cleaned = FALSE]
            /\ UNCHANGED <<booted, default, deployed, file, staterootJob, pod, monitor, up, fresh, deleted>>
            /\ ibu.conds["Idle"] \in {"AbortFailed", "FinalizeFailed"}
        BY <1>2, <2>1 DEF checkManualCleanup, hostVars, jobVars, envVars, IdleReason
      <3>b. /\ Alike(ibu', ibu) /\ Alike(cr'[booted], cr[booted])
            /\ \A s \in Version \ {booted} : cr'[s] = cr[s]
        BY <3>a DEF Typed, CRs, Alike
      <3>c. /\ Same(ibu', ibu) /\ Same(cr'[booted], cr[booted])
        BY <3>b, AlikeSame
      <3>d. UNCHANGED <<booted, default, deployed, file, staterootJob, pod, monitor, up, fresh, deleted>>
        BY <3>a
      <3>1. LifeInv'
        BY <2>0, <3>a, <3>c DEF LifeInv, Restoring, RestorePCs, Inv, Typed, Same
      <3>2. SoundInv'
        BY <2>0, <3>a, <3>b, <3>c DEF SoundInv, Inv, Typed, Same, Alike
      <3>3. FitsInv'
        <4>1. \A v : AtHome(v) => AtHome(v)'
          BY <3>a, <3>b DEF AtHome
        <4>2. \A s \in Version : Same(cr'[s], cr[s])
          BY <3>b, <3>c DEF Same
        <4>3. \A s \in deployed : Fits(cr[s], s)'
          BY <3>d, <4>1, <4>2 DEF FitsInv, Fits, Inv, Typed, Same
        <4>4. Fits(ibu, booted)'
          BY <2>0, <3>c, <3>d, <4>1 DEF FitsInv, Fits, Inv, Typed, Same
        <4> QED BY <3>d, <4>3, <4>4 DEF FitsInv
      <3>4. HostInv'
        BY <2>0, <3>a, <3>b, <3>c DEF HostInv, Running, Inv, Typed, Same, Alike
      <3>5. MemInv'
        BY <2>0, <3>a, <3>c DEF MemInv, Operating, HandlePCs, AutoPCs, Inv, Same
      <3>6. PivotInv'
        BY <2>0, <3>a, <3>b, <3>c DEF PivotInv, AutoPCs, Inv, Typed, Same, Alike
      <3>7. RememberInv'
        BY <3>a, <3>c DEF RememberInv, Bootable, New, Inv, Typed, Same, Alike
      <3>8. NewInv'
        <4>1. \A s \in Version : /\ cr'[s].target = cr[s].target /\ (Begun(cr'[s]) <=> Begun(cr[s]))
                                 /\ PrepDone(cr'[s]) <=> PrepDone(cr[s])
          BY <3>b, <3>c DEF Same
        <4> QED BY <3>d, <4>1 DEF NewInv, New, Inv, Typed
      <3>9. LoopInv'
        BY <2>0, <3>a, <3>c DEF LoopInv, Operating, Inv, Typed, Same
      <3> QED BY <3>1, <3>2, <3>3, <3>4, <3>5, <3>6, <3>7, <3>8, <3>9 DEF Inv
    <2>2. CASE ~(ibu.cleaned /\ fresh)
      <3>1. /\ ToFinal(ibu, TRUE)
            /\ UNCHANGED <<booted, default, deployed, cr, file, staterootJob, pod, deleted, monitor>>
        BY <1>2, <2>2 DEF checkManualCleanup, hostVars, jobVars, envVars
      <3> QED BY <2>0, <3>1, ReportStep DEF Typed
    <2> QED BY <2>1, <2>2
  <1>3. CASE CleanupDone
    <2> DEFINE y == [ibu EXCEPT !.conds = ResetStatusConditions(@)]
    <2>0. CleaningUp /\ Sound(ibu, booted) /\ Leaving(ibu)
      BY <1>3, Cleaning DEF CleanupDone
    <2>1. /\ booted' = booted /\ deployed' = {booted} /\ default' = booted /\ pod' = 0
          /\ \A s \in Version : staterootJob'[s] = "none"
          /\ \A s \in Version \ {booted} : cr'[s] = NoCR /\ file'[s] = NoCR
          /\ cr'[booted] = cr[booted] /\ file'[booted] = file[booted] /\ monitor'[booted] = monitor[booted]
      BY <1>3 DEF CleanupDone, RemoveStateroots, Typed
    <2>2. ibu' = y /\ pc' = "final" /\ UNCHANGED <<up, fresh, deleted>>
      BY <1>3 DEF CleanupDone, ToFinal, envVars
    <2>3. /\ y.stage = ibu.stage /\ y.target = ibu.target /\ y.next = ibu.next
          /\ y.conds["Idle"] = "Idle"
          /\ \A t \in ConditionTypes \ {"Idle"} : y.conds[t] = "None"
      BY ResetWrites DEF Typed
    <2> HIDE DEF y
    <2>4. Sound(y, booted) /\ Begun(y) /\ Idling(y)
      BY <2>0, <2>3, Types DEF Sound, Consistent, Working, Begun, Idling, Leaving, Unset,
         InProgressTypes, CompletedTypes
    <2> QED BY <2>0, <2>1, <2>2, <2>3, <2>4, CleanedStep
  <1>4. CASE CleanupFailed
    <2> DEFINE reason == IF IdleReason \in {"Aborting", "AbortFailed"} THEN "AbortFailed" ELSE "FinalizeFailed"
               y == [ibu EXCEPT !.conds = SetCondition(@, "Idle", reason)]
    <2>0. CleaningUp /\ Sound(ibu, booted) /\ Fits(ibu, booted) /\ Leaving(ibu)
      BY <1>4, Cleaning DEF CleanupFailed
    <2>1. ibu' = y /\ pc' = "final" /\ UNCHANGED <<up, fresh, deleted>>
      BY <1>4 DEF CleanupFailed, ToFinal, envVars
    <2>2. /\ reason \in {"AbortFailed", "FinalizeFailed"}
          /\ reason = "AbortFailed" => ibu.target # booted
      BY <2>0 DEF Sound, IdleReason
    <2> HIDE DEF reason
    <2>3. Sound(y, booted) /\ y.target = ibu.target /\ Begun(y) /\ (Moving(y) => Moving(ibu))
      BY <2>0, <2>2, ReportsSound DEF IdleInProgressReasons
    <2>4. y.conds["Idle"] = reason
      <3>1. ibu \in CRs
        BY DEF Typed
      <3> QED BY <3>1, IdleWrites, Zenon
    <2> HIDE DEF y
    <2>5. Leaving(y) /\ ~PivotedIn(y, booted)
      BY <2>2, <2>3, <2>4 DEF Leaving, PivotedIn, IdleInProgressReasons
    <2>6. CASE /\ staterootJob[booted] # "none"
               /\ staterootJob' = [staterootJob EXCEPT ![booted] =
                                     IF @ = "running" THEN "stopping"
                                     ELSE IF @ = "stopping" THEN @ ELSE "terminating"]
               /\ UNCHANGED <<hostVars, storeVars, monitor, pod>>
      <3>1. /\ UNCHANGED <<booted, default, deployed, cr, file>>
            /\ \A s \in deployed : monitor'[s] = monitor[s]
            /\ \A s \in Version \ {booted} : staterootJob'[s] = staterootJob[s]
            /\ staterootJob[booted] # "none" /\ staterootJob'[booted] # "none" /\ pod' = pod
            /\ staterootJob'[booted] \in Running <=> staterootJob[booted] \in Running
        BY <2>6 DEF hostVars, storeVars, Typed, Running
      <3> QED BY <2>0, <2>1, <2>3, <2>5, <3>1, KeptStep
    <2>7. ASSUME NEW gone \in SUBSET (Version \ {booted}), RemoveStateroots(gone), booted' = booted, pod' = 0,
                 staterootJob' = [s \in Version |->
                       IF s \in gone \cup {booted} THEN "none" ELSE staterootJob[s]]
          PROVE  Inv'
      <3>1. CASE deployed' = {booted}
        <4>1. default' = booted
          BY <3>1 DEF Typed
        <4>2. \A s \in Version \ {booted} : s \in gone \/ s \notin deployed
          BY <2>7, <3>1 DEF RemoveStateroots
        <4>3. /\ \A s \in Version : staterootJob'[s] = "none"
              /\ \A s \in Version \ {booted} : cr'[s] = NoCR /\ file'[s] = NoCR
              /\ cr'[booted] = cr[booted] /\ file'[booted] = file[booted] /\ monitor'[booted] = monitor[booted]
          BY <2>7, <4>2 DEF RemoveStateroots, Typed, Inv, HostInv
        <4> QED BY <2>0, <2>1, <2>3, <2>5, <2>7, <3>1, <4>1, <4>3, CleanedStep
      <3>2. CASE deployed' # {booted}
        <4>1. \A s \in deployed : s \notin gone
          <5>1. PICK d \in deployed' : d # booted
            BY <2>7, <3>2 DEF Typed
          <5>2. d \in deployed /\ d \notin gone
            BY <2>7, <5>1 DEF RemoveStateroots
          <5>3. \A s \in deployed : s = booted \/ s = d
            BY <5>1, <5>2 DEF Typed, Inv, HostInv
          <5> QED BY <2>7, <5>2, <5>3
        <4>2. deployed' = deployed /\ default' = default
          BY <2>7, <4>1 DEF RemoveStateroots, Typed
        <4>3. \A s \in Version : /\ cr'[s] = cr[s] /\ file'[s] = file[s]
                                 /\ s # booted => staterootJob'[s] = staterootJob[s]
                                 /\ s \in deployed => monitor'[s] = monitor[s]
          BY <2>7, <4>1 DEF RemoveStateroots, Typed, Inv, HostInv
        <4>4. cr' = cr /\ file' = file
          BY <4>3 DEF Typed
        <4>5. staterootJob'[booted] = "none"
          BY <2>7 DEF Typed
        <4> QED BY <2>0, <2>1, <2>3, <2>5, <2>7, <4>2, <4>3, <4>4, KeptStep DEF Typed
      <3> QED BY <3>1, <3>2
    <2> QED BY <1>4, <2>6, <2>7 DEF CleanupFailed
  <1> QED BY <1>1, <1>2, <1>3, <1>4 DEF handleAbortOrFinalize

\* The user touches an annotation of the CR.
LEMMA TouchStep ==
    ASSUME Typed, Typed', Inv, NEW x, Alike(x, cr[booted]), Exists(cr[booted]), EditCR(x), deleted' = deleted
    PROVE  Inv'
  <1>b. /\ UNCHANGED <<booted, default, deployed, file, staterootJob, pod, monitor, up, pc, ibu, deleted>>
        /\ fresh' = FALSE /\ cr'[booted] = x /\ \A s \in Version \ {booted} : cr'[s] = cr[s]
    BY DEF EditCR, hostVars, jobVars, Typed
  <1>c. \A s \in Version : Same(cr'[s], cr[s])
    BY <1>b, AlikeSame DEF Same
  <1>d. /\ Exists(cr'[booted]) /\ pc # "restoreCreate"
        /\ UNCHANGED <<booted, default, deployed, file, staterootJob, pod, monitor, up, pc, ibu, deleted>>
        /\ fresh' = FALSE
    BY <1>b, <1>c, NoCRIs DEF Same, Inv, LifeInv, Typed
  <1>t. /\ \A s \in Version : Moving(cr[s]) => cr[s].target \in Version
        /\ Operating /\ Moving(ibu) => ibu.target \in Version
    BY TargetKnown DEF Inv, SoundInv, Operating, Typed
  <1>1. LifeInv'
    BY <1>c, <1>d, <1>b DEF LifeInv, Restoring, Operating, RestorePCs, Inv, Typed, Same
  <1>2. SoundInv'
    BY <1>c, <1>d DEF SoundInv, Inv, Typed, Same
  <1>3. FitsInv'
    <2>1. \A v : AtHome(v) => AtHome(v)'
      BY <1>b DEF AtHome
    <2>2. \A s \in deployed : Fits(cr[s], s)'
      BY <1>c, <1>d, <2>1 DEF FitsInv, Fits, Inv, Typed, Same
    <2>3. pc # "idle" => Fits(ibu, booted)'
      BY <1>d, <2>1 DEF FitsInv, Fits, Inv, Typed, Same
    <2> QED BY <1>d, <2>2, <2>3 DEF FitsInv
  <1>4. HostInv'
    BY <1>c, <1>d, <1>b DEF HostInv, Running, Inv, Typed, Same
  <1>5. MemInv'
    BY <1>c, <1>d DEF MemInv, Operating, Restoring, Inv, Typed, Same
  <1>6. PivotInv'
    BY <1>c, <1>d DEF PivotInv, AutoPCs, Inv, Typed, Same
  <1>7. RememberInv'
    BY <1>c, <1>d DEF RememberInv, Bootable, New, Inv, Typed, Same
  <1>8. NewInv'
    <2>1. \A s \in Version : /\ cr'[s].target = cr[s].target /\ (Begun(cr'[s]) <=> Begun(cr[s]))
                             /\ PrepDone(cr'[s]) <=> PrepDone(cr[s])
      BY <1>c DEF Same
    <2> QED BY <1>d, <2>1 DEF NewInv, New, Inv, Typed
  <1>9. LoopInv'
    BY <1>c, <1>d, <1>t DEF LoopInv, Operating, Restoring, RestorePCs, Inv, Typed, Same
  <1> QED BY <1>1, <1>2, <1>3, <1>4, <1>5, <1>6, <1>7, <1>8, <1>9 DEF Inv

\* The user changes the spec of the CR.
LEMMA SetSpecStep ==
    ASSUME Supported, Typed, Typed', MonitorRetired, Inv, NEW stage \in Stages, NEW target \in Version,
           SetSpec(stage, target)
    PROVE  Inv'
  <1>a. /\ UNCHANGED <<booted, default, deployed, file, staterootJob, pod, monitor, up, pc, ibu, deleted>>
        /\ fresh' = FALSE /\ \A s \in Version \ {booted} : cr'[s] = cr[s]
    BY DEF SetSpec, EditCR, hostVars, jobVars, Typed
  <1>b. /\ cr'[booted].stage = stage /\ cr'[booted].target = target
        /\ cr'[booted].conds = cr[booted].conds /\ cr'[booted].next = cr[booted].next
        /\ Exists(cr[booted]) /\ Exists(cr'[booted])
    BY DEF SetSpec, EditCR, Typed, CRs, Exists, Stages
  <1>c. /\ Begun(cr'[booted]) <=> Begun(cr[booted])
        /\ Idling(cr'[booted]) <=> Idling(cr[booted])
        /\ Working(cr'[booted]) <=> Working(cr[booted])
        /\ Leaving(cr'[booted]) <=> Leaving(cr[booted])
        /\ Preparing(cr'[booted]) <=> Preparing(cr[booted])
        /\ Prepared(cr'[booted]) <=> Prepared(cr[booted])
        /\ PrepDone(cr'[booted]) <=> PrepDone(cr[booted])
        /\ Moving(cr'[booted]) <=> Moving(cr[booted])
    BY <1>b DEF Begun, Idling, Working, Leaving, Preparing, Prepared, PrepDone, Moving
  <1>d. Sound(cr[booted], booted) /\ Fits(cr[booted], booted)
    BY DEF Inv, SoundInv, FitsInv, Typed
  <1>e. target = cr[booted].target \/ cr[booted].conds = NoConditions \/ Idling(cr[booted])
    BY DEF SetSpec, Supported, IsTrue, Idling, InProgressTypes, CompletedTypes
  <1>f. target # cr[booted].target =>
          /\ ~Working(cr[booted]) /\ ~PrepDone(cr[booted]) /\ ~Moving(cr[booted]) /\ ~Preparing(cr[booted])
          /\ ~Prepared(cr[booted]) /\ ~PivotedIn(cr'[booted], booted)
    <2>1. CASE cr[booted].conds = NoConditions
      <3>1. cr[booted] \in CRs /\ cr'[booted] \in CRs /\ cr'[booted].conds = NoConditions
        BY <1>a, <1>b, <2>1 DEF Typed
      <3> QED BY <2>1, <3>1, BlankCR
    <2>2. CASE Idling(cr[booted])
      BY <1>b, <1>d, <2>2 DEF Sound, Consistent, InProgressTypes, CompletedTypes, Unset, Idling,
         Working, PrepDone, Moving, Preparing, Prepared, PivotedIn
    <2> QED BY <1>e, <2>1, <2>2
  <1>g. target = cr[booted].target => (PivotedIn(cr'[booted], booted) <=> PivotedIn(cr[booted], booted))
    BY <1>b, <1>c DEF PivotedIn
  <1>h. target # cr[booted].target /\ Begun(cr[booted]) =>
          monitor[booted] = "off" /\ deployed = {booted} /\ staterootJob[booted] = "none"
    BY <1>d, <1>e, Types DEF Begun, NoConditions, Idling, MonitorRetired, Current, IsTrue, Fits
  <1>i. Sound(cr'[booted], booted)
    <2>1. target \in Version /\ target # 0
      BY NoVersion
    <2>2. Leaving(cr[booted]) => stage = "Idle"
      BY <1>d, Types DEF SetSpec, specChangeAdmitted, IsTrue, Leaving, Sound, NoConditions,
           IdleInProgressReasons
    <2>3. CASE target = cr[booted].target
      BY <1>b, <1>c, <1>d, <2>1, <2>2, <2>3 DEF Sound
    <2>4. CASE target # cr[booted].target
      BY <1>b, <1>d, <1>e, <2>1, <2>2, <2>4, Types DEF Sound, Consistent, NoConditions, Idling,
         Leaving, CompletedTypes
    <2> QED BY <2>3, <2>4
  <1>j. pc # "restoreCreate" /\ (pc = "restoreRemove" => target = cr[booted].target)
    <2>1. pc # "restoreCreate"
      BY <1>b, NoCRIs DEF Inv, LifeInv
    <2>2. pc = "restoreRemove" => Working(cr[booted])
      BY SavedIs DEF Inv, LifeInv, SoundInv, Restoring, RestorePCs, Typed, Working
    <2> QED BY <1>f, <2>1, <2>2
  <1>t. /\ \A s \in Version : Moving(cr[s]) => cr[s].target \in Version
        /\ Operating /\ Moving(ibu) => ibu.target \in Version
    BY TargetKnown DEF Inv, SoundInv, Operating, Typed
  <1>1. LifeInv'
    BY <1>a, <1>b, <1>j DEF LifeInv, Restoring, Operating, RestorePCs, Inv, Typed
  <1>2. SoundInv'
    BY <1>a, <1>b, <1>c, <1>f, <1>g, <1>h, <1>i DEF SoundInv, Inv, Typed
  <1>3. FitsInv'
    <2>1. \A v : AtHome(v) => AtHome(v)'
      BY <1>a DEF AtHome
    <2>2. Fits(cr[booted], booted)'
      BY <1>a, <1>b, <1>c, <1>d, <1>f, <1>g, <2>1 DEF Fits, Typed
    <2>3. \A s \in deployed \ {booted} : Fits(cr[s], s)'
      BY <1>a, <2>1 DEF FitsInv, Fits, Inv, Typed
    <2>4. pc # "idle" => Fits(ibu, booted)'
      BY <1>a, <2>1 DEF FitsInv, Fits, Inv, Typed
    <2> QED BY <1>a, <2>2, <2>3, <2>4 DEF FitsInv
  <1>4. HostInv'
    BY <1>a, <1>b, <1>c, <1>f, <1>g, <1>h DEF HostInv, Running, Inv, Typed
  <1>5. MemInv'
    BY <1>a, <1>b, <1>c, <1>f, <1>g DEF MemInv, Operating, Restoring, RestorePCs, Inv
  <1>6. PivotInv'
    BY <1>a, <1>b, <1>c, <1>f, <1>g, <1>h DEF PivotInv, AutoPCs, Inv, Typed
  <1>7. RememberInv'
    BY <1>a, <1>b, <1>c, <1>h DEF RememberInv, Bootable, New, Inv, Typed
  <1>8. NewInv'
    <2>1. \A s \in Version \ {booted} : New(s)' <=> New(s)
      BY <1>a DEF New
    <2>2. ASSUME New(booted)', ~New(booted)
          PROVE  deployed = {booted} /\ staterootJob[booted] = "none"
      BY <1>a, <1>b, <1>c, <1>h, <2>2 DEF New
    <2>3. \A s \in Version : Begun(cr'[s]) <=> Begun(cr[s])
      BY <1>a, <1>c
    <2>4. ASSUME NEW t \in deployed, New(t)', NEW v \in deployed
          PROVE  /\ v <= t /\ staterootJob[v] \notin Running
                 /\ v # t => monitor[v] = "off" /\ (Exists(file[v]) \/ Begun(cr'[v]))
      <3>1. CASE New(t)
        BY <2>3, <2>4, <3>1 DEF Inv, NewInv, Typed
      <3>2. CASE ~New(t)
        <4>1. t = booted /\ v = booted /\ staterootJob[booted] = "none"
          BY <1>a, <2>1, <2>2, <2>4, <3>2 DEF Typed
        <4> QED BY <4>1 DEF Typed, Version, Running
      <3> QED BY <3>1, <3>2
    <2>5. ASSUME NEW t \in deployed, file[t].target = t
          PROVE  /\ deployed # {t}
                 /\ ~(t = booted /\ up)
                 /\ Begun(cr'[t]) => cr'[t].target = t /\ PrepDone(cr'[t])
      BY <1>a, <1>b, <1>c, <1>f, <2>5 DEF Inv, NewInv, Typed
    <2> QED BY <1>a, <2>4, <2>5 DEF NewInv
  <1>9. LoopInv'
    <2>1. \A s \in Version : /\ Moving(cr'[s]) <=> Moving(cr[s])
                             /\ Exists(cr'[s]) <=> Exists(cr[s])
                             /\ Moving(cr[s]) => cr'[s].target = cr[s].target
      BY <1>a, <1>b, <1>c, <1>f
    <2>2. UNCHANGED <<booted, default, deployed, file, up, pc, ibu>>
      BY <1>a
    <2> QED BY <1>t, <2>1, <2>2 DEF LoopInv, Operating, Restoring, Inv, Typed
  <1> QED BY <1>1, <1>2, <1>3, <1>4, <1>5, <1>6, <1>7, <1>8, <1>9 DEF Inv

\* The first state.
LEMMA InvInit == Init => Inv
  <1> SUFFICES ASSUME Init PROVE Inv
    OBVIOUS
  <1>a. /\ booted = 1 /\ default = 1 /\ deployed = {1} /\ 1 \in Version /\ pod = 0
        /\ \A s \in Version : cr[s] = NoCR /\ file[s] = NoCR /\ staterootJob[s] = "none" /\ monitor[s] = "off"
        /\ ~up /\ pc = "idle" /\ deleted = NoCR
    BY MaxVersionAssumption DEF Init, Version
  <1>1. LifeInv
    BY <1>a, NoVersion, NoCRIs, BlankIs DEF LifeInv, Restoring, Operating, RestorePCs
  <1>2. SoundInv
    BY <1>a, NoVersion, NoCRIs, BlankIs DEF SoundInv
  <1>3. FitsInv
    BY <1>a, NoVersion, NoCRIs, BlankIs DEF FitsInv, Fits, AtHome
  <1>4. HostInv
    BY <1>a, NoVersion, NoCRIs, BlankIs DEF HostInv, Running
  <1>5. MemInv
    BY <1>a, NoVersion, NoCRIs, BlankIs DEF MemInv, Operating, Restoring, RestorePCs, HandlePCs,
       AutoPCs
  <1>6. PivotInv
    BY <1>a, NoVersion, NoCRIs, BlankIs DEF PivotInv, AutoPCs
  <1>7. RememberInv
    BY <1>a, NoVersion, NoCRIs, BlankIs DEF RememberInv, Bootable, New
  <1>8. NewInv
    BY <1>a, NoVersion, NoCRIs, BlankIs DEF NewInv, New, Running
  <1>9. LoopInv
    BY <1>a, NoVersion, NoCRIs, BlankIs DEF LoopInv, Operating, Restoring, RestorePCs
  <1> QED BY <1>1, <1>2, <1>3, <1>4, <1>5, <1>6, <1>7, <1>8, <1>9 DEF Inv

\* Every step, whoever takes it.
LEMMA InvNext ==
    ASSUME Supported, TypeInv, TypeInv', BootableHost, BootableHost', MonitorRetired, MonitorRetired', Inv,
           [Next]_vars
    PROVE  Inv'
  <1>0. Typed /\ Typed'
    <2>1. Typed
      BY TypedHost
    <2>2. TypeInv' /\ BootableHost' => Typed'
      BY TypedHost, PTL
    <2> QED BY <2>1, <2>2
  <1>1. CASE InitIBU
    BY <1>0, <1>1, InitIBUStep
  <1>2. CASE Reconcile \/ ReconcileTransition \/ ReconcileFinal
    BY <1>0, <1>2, ReconcileStep
  <1>3. CASE HandleNothing
    BY <1>0, <1>3, ReportsStep
  <1>4. CASE handlePrep
    BY <1>0, <1>4, PrepStep, ReportsStep DEF handlePrep
  <1>5. CASE PrePivot
    BY <1>0, <1>5, PivotStep, ReportsStep, RestartStep DEF PrePivot, PrePivotReboot
  <1>6. CASE PostPivot
    BY <1>0, <1>6, PostPivotStep, ReportsStep, MarkStep, BackStep, RestartStep DEF PostPivot,
         AutoRollbackReboot
  <1>7. CASE handleRollback
    BY <1>0, <1>7, BackStep, SaveStep, ReportsStep, RestartStep DEF handleRollback, RollbackReboot
  <1>8. CASE handleAbortOrFinalize
    BY <1>0, <1>8, CleanupStep
  <1>9. CASE DeleteFunc
    <2>1. deleted = NoCR
      BY DEF Inv, LifeInv
    <2> QED BY <1>9, <2>1, NoCRIs DEF DeleteFunc
  <1>10. CASE Jobs
    BY <1>0, <1>10, JobsStep
  <1>11. CASE Monitor
    BY <1>0, <1>11, MarkStep, BackStep, RestartStep, MonitorErrorStep DEF Monitor, MonitorReboot
  <1>12. CASE User
    <2>1. CASE \E stage \in Stages, target \in Version : SetSpec(stage, target)
      BY <1>0, <2>1, SetSpecStep
    <2>2. CASE AddManualCleanup
      <3> DEFINE x == [cr[booted] EXCEPT !.cleaned = TRUE]
      <3>1. Exists(cr[booted]) /\ EditCR(x) /\ deleted' = deleted
        BY <2>2 DEF AddManualCleanup
      <3>2. Alike(x, cr[booted])
        BY <1>0 DEF Alike, Typed, CRs
      <3> QED BY <1>0, <3>1, <3>2, TouchStep
    <2>3. CASE TriggerReconcile
      <3>1. Exists(cr[booted]) /\ EditCR(cr[booted]) /\ deleted' = deleted
        BY <2>3 DEF TriggerReconcile
      <3>2. Alike(cr[booted], cr[booted])
        BY DEF Alike
      <3> QED BY <1>0, <3>1, <3>2, TouchStep
    <2>4. ~ManualSetDefault /\ ~DeleteCR
      BY DEF ManualSetDefault, DeleteCR, Supported, TypeInv, TypeOK
    <2> QED BY <1>12, <2>1, <2>2, <2>3, <2>4 DEF User
  <1>13. CASE OperatorCrash \/ NodeCrash
    BY <1>0, <1>13, RestartStep
  <1>14. CASE UNCHANGED vars
    <2>a. UNCHANGED <<booted, default, deployed, cr, file, staterootJob, pod, monitor, up, pc, ibu, fresh, deleted>>
      BY <1>14 DEF vars
    <2>1. LifeInv'
      BY <2>a DEF LifeInv, Restoring, Operating, RestorePCs, Inv, Typed
    <2>2. SoundInv'
      BY <2>a DEF SoundInv, Inv, Typed
    <2>3. FitsInv'
      BY <2>a DEF FitsInv, Fits, AtHome, Inv, Typed
    <2>4. HostInv'
      BY <2>a DEF HostInv, Running, Inv, Typed
    <2>5. MemInv'
      BY <2>a DEF MemInv, Operating, Restoring, RestorePCs, HandlePCs, AutoPCs, Inv, Typed
    <2>6. PivotInv'
      BY <2>a DEF PivotInv, AutoPCs, Inv, Typed
    <2>7. RememberInv'
      BY <2>a DEF RememberInv, Bootable, New, Inv, Typed
    <2>8. NewInv'
      BY <2>a DEF NewInv, New, Running, Inv, Typed
    <2>9. LoopInv'
      BY <2>a DEF LoopInv, Operating, Restoring, RestorePCs, Inv, Typed
    <2> QED BY <2>1, <2>2, <2>3, <2>4, <2>5, <2>6, <2>7, <2>8, <2>9 DEF Inv
  <1> QED BY <1>1, <1>2, <1>3, <1>4, <1>5, <1>6, <1>7, <1>8, <1>9, <1>10, <1>11, <1>12, <1>13, <1>14
     DEF Next, Operator

\* The invariant holds as long as no init monitor outlives its upgrade.
LEMMA InvHolds ==
    ASSUME Supported
    PROVE  Spec /\ []MonitorRetired => [](TypeInv /\ BootableHost /\ Inv)
  <1>1. Init => TypeInv /\ BootableHost /\ Inv
    BY TypeInit, InvInit DEF Init, BootableHost
  <1>2. TypeInv /\ BootableHost /\ Inv /\ MonitorRetired /\ MonitorRetired' /\ [Next]_vars
          => TypeInv' /\ BootableHost' /\ Inv'
    <2> SUFFICES ASSUME TypeInv, BootableHost, Inv, MonitorRetired, MonitorRetired', [Next]_vars
                 PROVE  TypeInv' /\ BootableHost' /\ Inv'
      OBVIOUS
    <2>1. TypeInv'
      BY TypeNext
    <2>2. BootableHost'
      <3>1. CASE Next
        BY <3>1, OperatorBootable, EnvironmentBootable DEF Next
      <3>2. CASE UNCHANGED vars
        BY <3>2 DEF vars, BootableHost
      <3> QED BY <3>1, <3>2
    <2> QED BY <2>1, <2>2, InvNext
  <1> QED BY <1>1, <1>2, PTL DEF Spec

-----------------------------------------------------------------------------
(* What follows from the invariant. *)

\* The conditions that the stages are read from.
LEMMA StagesRead ==
    ASSUME NEW c \in Conditions
    PROVE  /\ IsStageInProgress(c, "Upgrade") => c["UpgradeInProgress"] = "InProgress"
           /\ IsStageCompleted(c, "Upgrade") => c["UpgradeCompleted"] = "Completed"
           /\ IsStageCompleted(c, "Rollback") => c["RollbackCompleted"] = "Completed"
           /\ IsStageCompletedOrFailed(c, "Upgrade") => c["UpgradeCompleted"] # "None"
           /\ IsTrue(c, "Idle") => c["Idle"] = "Idle"
           /\ IsTrue(c, "UpgradeCompleted") => c["UpgradeCompleted"] = "Completed"
  BY Types DEF IsStageInProgress, IsStageCompleted, IsStageCompletedOrFailed, IsStageFailed, IsTrue,
       IsFalse, InProgressTypes, CompletedTypes

\* The properties, from the invariant.
LEMMA InvMeans ==
    ASSUME TypeInv, BootableHost, Inv
    PROVE  RollbackKept /\ NoUpgradeLoop /\ IdleIsClean /\ UpgradeAccounted /\ UpgradeRaisesVersion
  <1> DEFINE x == cr[booted]
  <1>0. Typed
    BY TypedHost
  <1>1. /\ x \in CRs /\ x.conds \in Conditions /\ booted \in deployed /\ booted \in Version
        /\ Sound(x, booted) /\ Fits(x, booted) /\ Current = x
    BY <1>0, CRParts DEF Typed, Inv, SoundInv, FitsInv, Current
  <1>2. RollbackKept
    BY <1>1, StagesRead DEF RollbackKept, Pivoted, Upgrading, Fits, PivotedIn, Moving
  <1>3. NoUpgradeLoop
    BY <1>1, StagesRead DEF NoUpgradeLoop, Upgrading, Inv, LoopInv, Moving
  <1>4. IdleIsClean
    BY <1>1, StagesRead DEF IdleIsClean, Fits, Idling
  <1>5. CompletedOnTarget
    BY <1>1, StagesRead DEF CompletedOnTarget, Sound
  <1>6. UpgradePrepared
    <2>1. x.stage # "Idle" /\ Moving(x) /\ x.target # booted => Prepared(x)
      BY <1>1 DEF Sound, Consistent, Moving, Prepared
    <2> QED BY <1>1, <2>1, StagesRead DEF UpgradePrepared, Upgrading, Fits, Moving
  <1>7. UpgradeRemembered
    <2>1. deployed # {booted} => Exists(file[booted]) \/ Begun(x)
      BY <1>1 DEF Inv, RememberInv, Bootable
    <2> QED BY <1>1, <2>1, BlankCR DEF UpgradeRemembered
  <1>8. UpgradeRaisesVersion
    <2>1. IsTrue(x.conds, "UpgradeCompleted") => Begun(x) /\ x.target = booted
      BY <1>1, StagesRead, Types DEF Sound, Consistent, Begun, CompletedTypes
    <2>2. IsTrue(x.conds, "UpgradeCompleted") => New(booted)
      BY <2>1 DEF New
    <2> QED BY <1>1, <2>2 DEF UpgradeRaisesVersion, Inv, NewInv
  <1> QED BY <1>2, <1>3, <1>4, <1>5, <1>6, <1>7, <1>8 DEF UpgradeAccounted

\* From the pivot until the user finalizes, the host keeps the stateroot to roll
\* back to, whatever fails: only handleAbortOrFinalize and the setup job remove
\* stateroots, and neither runs in between, not even one that was started before
\* the reboot.
THEOREM RollbackIsKept ==
    ASSUME Supported
    PROVE  Spec /\ []MonitorRetired => []RollbackKept
  BY InvHolds, InvMeans, PTL

\* A node that comes back to the old stateroot, by the rollback, the init monitor
\* or by hand, never runs its operator with a CR that takes up again the upgrade
\* which has left it: the CR is saved there with its upgrade failed before the
\* reboot, or restored from what the new stateroot saved (prePivot, rollback,
\* restoring the saved CR when the manager starts).
THEOREM NeverLoops ==
    ASSUME Supported
    PROVE  Spec /\ []MonitorRetired => []NoUpgradeLoop
  BY InvHolds, InvMeans, PTL

\* When the CR says Idle only the booted stateroot is deployed and no setup job
\* runs, however often abort, finalize and their cleanup were interrupted and
\* repeated (handleAbortOrFinalize, resetStatusConditions).
THEOREM IdleIsAlwaysClean ==
    ASSUME Supported
    PROVE  Spec /\ []MonitorRetired => []IdleIsClean
  BY InvHolds, InvMeans, PTL

\* The CR and the host agree on the upgrade: one that is completed runs its
\* target, a completed rollback does not, one in progress has its deployment, and
\* a second stateroot is always remembered by a CR or a saved one
\* (SetUpgradeStatusCompleted, SetRollbackStatusCompleted, the handlers' order of
\* host changes and status updates).
THEOREM UpgradeIsAccounted ==
    ASSUME Supported
    PROVE  Spec /\ []MonitorRetired => []UpgradeAccounted
  BY InvHolds, InvMeans, PTL

\* A completed upgrade runs the highest of the deployed versions: the check of
\* validateSeedOcpVersion in Prep still holds after the pivot.
THEOREM UpgradeOnlyRaises ==
    ASSUME Supported
    PROVE  Spec /\ []MonitorRetired => []UpgradeRaisesVersion
  BY InvHolds, InvMeans, PTL

\* The steps that take the operator down.
LEMMA GoesDown ==
    ASSUME TypeInv, Next, up, ~up'
    PROVE  Reboot \/ NodeCrash \/ OperatorCrash
  <1>1. ~InitIBU
    BY DEF InitIBU, InitIBUCreate, InitIBURead, InitIBUDelete, InitIBURecreate, InitIBUStatus,
         InitIBURemove, InitIBUFail
  <1>2. ~Reconcile /\ ~ReconcileTransition /\ ~HandleNothing /\ ~ReconcileFinal
    BY DEF Reconcile, ReconcileTransition, HandleNothing, ReconcileFinal, ToFinal
  <1>3. ~handlePrep
    BY DEF handlePrep, PrepWait, PrepValidationFailed, PrepLaunchStateroot, PrepJobFailed,
         PrepLaunchPrecache, PrepComplete, ToFinal
  <1>4. PrePivot => Reboot
    BY DEF PrePivot, PrePivotWait, PrePivotFailed, exportIBUToNewStateroot,
         exportForUncontrolledRollback, setDefaultDeploymentToNewStateroot, PrePivotError,
         PrePivotReboot, PrePivotRebootFailed, ToFinal
  <1>5. PostPivot => Reboot
    BY DEF PostPivot, PostPivotWait, PostPivotComplete, PostPivotFailed, AutoRollbackSave,
         AutoRollbackSetDefault, AutoRollbackReboot, AutoRollbackError, ToFinal
  <1>6. handleRollback => Reboot
    BY DEF handleRollback, finishRollback, RollbackSetDefault, RollbackWait, RollbackSave,
         RollbackReboot, RollbackFailed, ToFinal
  <1>7. ~handleAbortOrFinalize
    BY DEF handleAbortOrFinalize, FinalizeWait, checkManualCleanup, CleanupDone, CleanupFailed, ToFinal
  <1>8. ~DeleteFunc
    BY DEF DeleteFunc
  <1>9. ~Jobs
    BY DEF Jobs, StaterootJobFetch, StaterootJobDeploy, StaterootJobFail, PrecacheJobEnd, JobDeleted,
         JobStep, opVars
  <1>10. Monitor => Reboot
    BY DEF Monitor, MonitorFire, MonitorSetDefault, MonitorReboot, MonitorError, opVars
  <1>11. ~User
    BY DEF User, SetSpec, AddManualCleanup, TriggerReconcile, EditCR, ManualSetDefault, DeleteCR, opVars
  <1> QED BY <1>1, <1>2, <1>3, <1>4, <1>5, <1>6, <1>7, <1>8, <1>9, <1>10, <1>11 DEF Next, Operator

\* A reboot that the operator asks for (RebootToNewStateRoot after the pivot steps,
\* the rollback and the automatic rollback) lands in another stateroot, in which
\* the CR was saved for the operator that starts there.
THEOREM RebootAlwaysCarriesCR ==
    ASSUME Supported
    PROVE  Spec /\ []MonitorRetired => RebootCarriesCR
  <1>1. ASSUME TypeInv, BootableHost, Inv, [Next]_vars,
               pc \in {"defaultSet", "rollbackSaved", "autoDefault"}, up, ~up', faults' = faults
        PROVE  booted' # booted /\ Exists(file[booted'])
    <2>1. Next
      BY <1>1 DEF vars
    <2>2. Reboot \/ NodeCrash \/ OperatorCrash
      BY <1>1, <2>1, GoesDown
    <2>3. Reboot
      BY <1>1, <2>2 DEF NodeCrash, OperatorCrash, TypeInv, TypeOK
    <2>4. booted' = default
      BY <2>3 DEF Reboot, BootInto
    <2> QED BY <1>1, <2>4 DEF Inv, PivotInv
  <1>2. TypeInv /\ BootableHost /\ Inv /\ [Next]_vars =>
          [(/\ pc \in {"defaultSet", "rollbackSaved", "autoDefault"}
            /\ up /\ ~up'
            /\ faults' = faults)
               => booted' # booted /\ Exists(file[booted'])]_vars
    BY <1>1
  <1> QED BY <1>2, InvHolds, PTL DEF Spec, RebootCarriesCR

-----------------------------------------------------------------------------
(* The inductive invariant, beyond the one of IBU_proofs. *)

\* A rollback has begun, and possibly ended.
Returning(x) == x.conds["RollbackInProgress"] \notin Unset \/ x.conds["RollbackCompleted"] # "None"
\* A finalize is under way or has failed.
Finishing(x) == x.conds["Idle"] \in {"Finalizing", "FinalizeFailed"}

\* A CR that is past Idle has begun Prep; one that was rolled back still has the
\* stateroot it came from; no setup job runs on while the upgrade is finalized;
\* and a Prep that failed has no init monitor beside it.
Flows(x, s) ==
    /\ Working(x) /\ ~Leaving(x) =>
         x.conds["PrepInProgress"] = "InProgress" \/ x.conds["PrepCompleted"] # "None"
    /\ Returning(x) /\ ~Leaving(x) /\ x.target # s => deployed # {s}
    /\ Finishing(x) => staterootJob[s] \notin Running
    /\ x.conds["PrepCompleted"] = "Failed" /\ ~Leaving(x) => monitor[s] = "off"

CarryInv ==
    /\ \A s \in deployed : Flows(cr[s], s)
    /\ Operating => Flows(ibu, booted)

\* The phase in memory is the stored one, except for a refused transition of a
\* CR that has no status yet, or one that may follow it, before it is stored.
PhaseInv ==
    /\ pc \in HandlePCs => \/ PhaseOf(ibu) = PhaseOf(cr[booted])
                           \/ PhaseOf(cr[booted]) = "none" /\ PhaseOf(ibu) = "starting"
    /\ pc \in {"transition", "final"} =>
         PhaseOf(ibu) = PhaseOf(cr[booted]) \/ PhaseOf(ibu) \in Flow!Follows(PhaseOf(cr[booted]))
    /\ pc \in AutoPCs => PhaseOf(ibu) = "upgradeFailed" /\ PhaseOf(cr[booted]) = "upgrading"

\* A CR saved by a rollback waits in a stateroot that is not alone, and is gone
\* before the operator runs there; a CR that has only a refused transition is
\* not one that a saved CR is to replace.
ReturnInv ==
    \A s \in deployed :
        /\ Returning(file[s]) => deployed # {s} /\ ~(s = booted /\ up)
        /\ ~Begun(cr[s]) /\ cr[s].conds # NoConditions => ~Exists(file[s])

FlowInv == CarryInv /\ PhaseInv /\ ReturnInv

-----------------------------------------------------------------------------
(* Phases. *)

\* The phase follows from what exists and the conditions.
LEMMA PhaseSame ==
    ASSUME NEW x, NEW y, Exists(y) <=> Exists(x), y.conds = x.conds
    PROVE  PhaseOf(y) = PhaseOf(x)
  BY DEF PhaseOf

\* The phase that conditions stand for.
PhaseIn(c) ==
    IF c = NoConditions THEN "none"
    ELSE IF c["Idle"] = "Idle" THEN "idle"
    ELSE IF c["Idle"] \in {"Aborting", "AbortFailed"} THEN "aborting"
    ELSE IF c["Idle"] \in {"Finalizing", "FinalizeFailed"} THEN "finalizing"
    ELSE IF c["RollbackCompleted"] = "Completed" THEN "rolledBack"
    ELSE IF c["RollbackCompleted"] = "Failed" THEN "rollbackFailed"
    ELSE IF c["RollbackInProgress"] = "InProgress" THEN "rollingBack"
    ELSE IF c["UpgradeCompleted"] = "Completed" THEN "upgraded"
    ELSE IF c["UpgradeCompleted"] = "Failed" THEN "upgradeFailed"
    ELSE IF c["UpgradeInProgress"] = "InProgress" THEN "upgrading"
    ELSE IF c["PrepCompleted"] = "Completed" THEN "prepared"
    ELSE IF c["PrepCompleted"] = "Failed" THEN "prepFailed"
    ELSE IF c["PrepInProgress"] = "InProgress" THEN "preparing"
    ELSE "starting"

\* It is the phase of a CR with those conditions.
LEMMA PhaseForm ==
    ASSUME NEW x \in CRs, Consistent(x.conds)
    PROVE  PhaseOf(x) = IF Exists(x) THEN PhaseIn(x.conds) ELSE "none"
  <1>1. /\ x.conds["PrepCompleted"] \in {"None", "Completed", "Failed"}
        /\ x.conds["UpgradeCompleted"] \in {"None", "Completed", "Failed"}
        /\ x.conds["RollbackCompleted"] \in {"None", "Completed", "Failed"}
    BY DEF Consistent, CompletedTypes
  <1> QED BY <1>1, Types DEF PhaseOf, PhaseIn, IsStageCompleted, IsStageFailed, IsStageInProgress,
       IsTrue, IsFalse, InProgressTypes, CompletedTypes

\* A CR beyond Idle that nobody leaves.
Active(x) == Exists(x) /\ x.conds # NoConditions /\ x.conds["Idle"] # "Idle" /\ ~Leaving(x)

\* The phases of a CR whose conditions are consistent.
LEMMA PhaseIs ==
    ASSUME NEW x \in CRs, Consistent(x.conds)
    PROVE  LET c == x.conds IN
           /\ PhaseOf(x) = "none" <=> ~Exists(x) \/ c = NoConditions
           /\ PhaseOf(x) = "idle" <=> Exists(x) /\ Idling(x)
           /\ PhaseOf(x) = "aborting" <=> Exists(x) /\ c["Idle"] \in {"Aborting", "AbortFailed"}
           /\ PhaseOf(x) = "finalizing" <=> Exists(x) /\ Finishing(x)
           /\ PhaseOf(x) = "rolledBack" <=> Active(x) /\ c["RollbackCompleted"] = "Completed"
           /\ PhaseOf(x) = "rollbackFailed" <=> Active(x) /\ c["RollbackCompleted"] = "Failed"
           /\ PhaseOf(x) = "rollingBack" <=> Active(x) /\ c["RollbackInProgress"] = "InProgress"
           /\ PhaseOf(x) = "upgraded" <=> Active(x) /\ c["UpgradeCompleted"] = "Completed"
           /\ PhaseOf(x) = "upgradeFailed" <=>
                 /\ Active(x) /\ c["UpgradeCompleted"] = "Failed"
                 /\ c["RollbackCompleted"] = "None" /\ c["RollbackInProgress"] # "InProgress"
           /\ PhaseOf(x) = "upgrading" <=> Active(x) /\ Moving(x)
           /\ PhaseOf(x) = "prepared" <=>
                 Active(x) /\ PrepDone(x) /\ c["UpgradeCompleted"] = "None" /\ ~Moving(x)
           /\ PhaseOf(x) = "prepFailed" <=> Active(x) /\ c["PrepCompleted"] = "Failed"
           /\ PhaseOf(x) = "preparing" <=> Active(x) /\ c["PrepInProgress"] = "InProgress"
           /\ PhaseOf(x) = "starting" <=>
                 Active(x) /\ c["PrepCompleted"] = "None" /\ c["PrepInProgress"] # "InProgress"
           /\ PhaseOf(x) \in Flow!Phases
  <1> DEFINE c == x.conds
  <1>1. /\ c["PrepCompleted"] \in {"None", "Completed", "Failed"}
        /\ c["UpgradeCompleted"] \in {"None", "Completed", "Failed"}
        /\ c["RollbackCompleted"] \in {"None", "Completed", "Failed"}
    BY DEF Consistent, CompletedTypes
  <1>2. c = NoConditions => \A t \in ConditionTypes : c[t] = "None"
    BY DEF NoConditions
  <1>3. PhaseOf(x) = IF Exists(x) THEN PhaseIn(c) ELSE "none"
    BY PhaseForm
  <1>4. c = NoConditions =>
          /\ c["Idle"] = "None" /\ c["PrepInProgress"] = "None" /\ c["PrepCompleted"] = "None"
          /\ c["UpgradeInProgress"] = "None" /\ c["UpgradeCompleted"] = "None"
          /\ c["RollbackInProgress"] = "None" /\ c["RollbackCompleted"] = "None"
    BY <1>2, Types
  <1>5. /\ c["PrepInProgress"] = "InProgress" =>
             /\ c["PrepCompleted"] = "None" /\ c["UpgradeCompleted"] = "None" /\ c["RollbackCompleted"] = "None"
             /\ c["UpgradeInProgress"] # "InProgress" /\ c["RollbackInProgress"] # "InProgress"
        /\ c["UpgradeInProgress"] = "InProgress" =>
             c["PrepCompleted"] = "Completed" /\ c["UpgradeCompleted"] = "None"
        /\ c["UpgradeCompleted"] # "None" => c["PrepCompleted"] = "Completed"
        /\ c["RollbackInProgress"] = "InProgress" \/ c["RollbackCompleted"] # "None" =>
             c["UpgradeCompleted"] = "Failed"
        /\ c["RollbackInProgress"] = "InProgress" => c["RollbackCompleted"] = "None"
    BY DEF Consistent, Unset, CompletedTypes
  <1> HIDE DEF c
  <1>6. /\ Leaving(x) <=> c["Idle"] \in {"Aborting", "AbortFailed", "Finalizing", "FinalizeFailed"}
        /\ Idling(x) <=> c["Idle"] = "Idle"
        /\ Finishing(x) <=> c["Idle"] \in {"Finalizing", "FinalizeFailed"}
        /\ Moving(x) <=> c["UpgradeInProgress"] = "InProgress"
        /\ PrepDone(x) <=> c["PrepCompleted"] = "Completed"
        /\ Active(x) <=> Exists(x) /\ c # NoConditions /\ c["Idle"] # "Idle" /\ ~Leaving(x)
    BY DEF Leaving, Idling, Finishing, Moving, PrepDone, Active, IdleInProgressReasons, c
  <1> QED BY <1>1, <1>3, <1>4, <1>5, <1>6 DEF PhaseIn, Flow!Phases, c

\* What may follow a phase.
LEMMA FollowsIs ==
    /\ Flow!Follows("none") = {"starting", "idle", "upgrading", "upgradeFailed", "rollingBack"}
    /\ Flow!Follows("starting") = {"idle"}
    /\ Flow!Follows("idle") = {"preparing"}
    /\ Flow!Follows("preparing") = {"prepared", "prepFailed", "aborting"}
    /\ Flow!Follows("prepared") = {"upgrading", "aborting"}
    /\ Flow!Follows("prepFailed") = {"aborting"}
    /\ Flow!Follows("upgrading") = {"upgraded", "upgradeFailed", "rollingBack", "aborting"}
    /\ Flow!Follows("upgraded") = {"finalizing", "rollingBack"}
    /\ Flow!Follows("upgradeFailed") = {"aborting", "rollingBack"}
    /\ Flow!Follows("rollingBack") = {"rolledBack", "rollbackFailed"}
    /\ Flow!Follows("rolledBack") = {"finalizing"}
    /\ Flow!Follows("aborting") = {"idle"}
    /\ Flow!Follows("finalizing") = {"idle"}
  BY DEF Flow!Follows

-----------------------------------------------------------------------------
(* Transitions and outcomes. *)

\* From one phase to another, or none at all.
Step(p, q) == q = p \/ q \in Flow!Follows(p)

\* A requested transition is one of the diagram, or is refused and changes no
\* phase but that of a CR without a status.
LEMMA TransitionFlow ==
    ASSUME NEW x \in CRs, NEW y \in CRs, NEW s \in Version,
           Sound(x, s), Fits(x, s), Flows(x, s), Sound(y, s), Exists(x),
           isTransitionRequested(x.conds, x.stage),
           y.conds = validateStageTransition(x.conds, x.stage, x.target = s),
           y.stage = x.stage, y.target = x.target,
           staterootJob[s] \in Running => deployed = {s}
    PROVE  /\ Flows(y, s)
           /\ transitionAllowed(x.conds, x.stage, x.target = s) => Step(PhaseOf(x), PhaseOf(y))
           /\ ~transitionAllowed(x.conds, x.stage, x.target = s) =>
                 \/ PhaseOf(y) = PhaseOf(x)
                 \/ PhaseOf(x) = "none" /\ PhaseOf(y) = "starting"
  <1> DEFINE after == x.target = s
             c == x.conds
             d == y.conds
  <1>1. /\ c \in Conditions /\ d \in Conditions /\ x.stage \in Stages /\ after \in BOOLEAN
        /\ Consistent(c) /\ Consistent(d) /\ Exists(y)
    BY CRParts DEF Exists, Sound
  <1>2. d = validateStageTransition(c, x.stage, after) /\ isTransitionRequested(c, x.stage)
    OBVIOUS
  <1>n. /\ c = NoConditions <=> \A t \in ConditionTypes : c[t] = "None"
        /\ d = NoConditions <=> \A t \in ConditionTypes : d[t] = "None"
    BY <1>1 DEF Conditions, NoConditions
  <1>p. PhaseOf(x) = PhaseIn(c) /\ PhaseOf(y) = PhaseIn(d)
    BY <1>1, PhaseForm
  <1> HIDE DEF after, c, d
  <1>c. /\ \A t \in ConditionTypes : c[t] # "InvalidTransition" => Cleared(c, t) = c[t]
        /\ c["Idle"] = "InvalidTransition" => Cleared(c, "Idle") = "InProgress"
        /\ \A t \in InProgressTypes : c[t] = "InvalidTransition" => Cleared(c, t) = "None"
        /\ \A t \in CompletedTypes : Cleared(c, t) = c[t]
    BY <1>1, ClearedIs
  <1>w. /\ Working(x) <=> c["Idle"] \notin {"None", "Idle"}
        /\ Working(y) <=> d["Idle"] \notin {"None", "Idle"}
        /\ Leaving(x) <=> c["Idle"] \in IdleInProgressReasons
        /\ Leaving(y) <=> d["Idle"] \in IdleInProgressReasons
        /\ Returning(x) <=> c["RollbackInProgress"] \notin Unset \/ c["RollbackCompleted"] # "None"
        /\ Returning(y) <=> d["RollbackInProgress"] \notin Unset \/ d["RollbackCompleted"] # "None"
        /\ Finishing(x) <=> c["Idle"] \in {"Finalizing", "FinalizeFailed"}
        /\ Finishing(y) <=> d["Idle"] \in {"Finalizing", "FinalizeFailed"}
        /\ after <=> x.target = s
        /\ c["UpgradeCompleted"] = "Completed" => x.target = s
        /\ c["RollbackCompleted"] = "Completed" => x.target # s
    BY DEF Working, Leaving, Returning, Finishing, Sound, after, c, d
  <1> USE Types DEF InProgressTypes, CompletedTypes, Unset, IdleInProgressReasons
  <1>3. CASE ~transitionAllowed(c, x.stage, after)
    <2>1. /\ d[GetInProgressConditionType(x.stage)] = "InvalidTransition"
          /\ \A t \in ConditionTypes \ {GetInProgressConditionType(x.stage)} : d[t] = c[t]
      BY <1>1, <1>2, <1>3, TransitionWrites
    <2>3. x.stage = "Idle" => c["Idle"] \in {"InProgress", "InvalidTransition"}
      BY <1>1, <1>2, <1>3, Permitted
    <2>4. x.stage # "Idle" => c[GetInProgressConditionType(x.stage)] # "InProgress"
      BY <1>1, <1>2 DEF isTransitionRequested, IsStageInProgress, IsTrue, Stages
    <2>5. x.stage = "Prep" => c["PrepCompleted"] = "None"
      BY <1>1, <1>2 DEF isTransitionRequested, IsStageCompletedOrFailed
    <2>6. x.stage = "Rollback" => c["RollbackCompleted"] = "None"
      BY <1>1, <1>2 DEF isTransitionRequested, IsStageCompletedOrFailed
    <2>7. Flows(y, s)
      BY <1>1, <1>w, <2>1, <2>3, <2>4, <2>5, <2>6 DEF Flows, Stages, c, d
    <2>8. \/ PhaseOf(y) = PhaseOf(x)
          \/ PhaseOf(x) = "none" /\ PhaseOf(y) = "starting"
      <3>1. CASE x.stage = "Idle"
        BY <1>n, <1>p, <2>1, <2>3, <3>1 DEF PhaseIn
      <3>2. CASE x.stage = "Prep"
        BY <1>1, <1>n, <1>p, <2>1, <2>4, <2>5, <3>2 DEF PhaseIn, Consistent
      <3>3. CASE x.stage = "Upgrade"
        BY <1>1, <1>n, <1>p, <2>1, <2>4, <3>3 DEF PhaseIn, Consistent
      <3>4. CASE x.stage = "Rollback"
        BY <1>1, <1>n, <1>p, <2>1, <2>4, <2>6, <3>4 DEF PhaseIn, Consistent
      <3> QED BY <1>1, <3>1, <3>2, <3>3, <3>4 DEF Stages
    <2> QED BY <1>3, <2>7, <2>8 DEF c, after
  <1>4. CASE transitionAllowed(c, x.stage, after) /\ x.stage = "Prep"
    <2>1. c["Idle"] = "Idle"
      BY <1>1, <1>2, <1>4, Permitted
    <2>2. /\ d["Idle"] = "InProgress" /\ d["PrepInProgress"] = "InProgress"
          /\ \A t \in ConditionTypes \ {"Idle", "PrepInProgress"} : d[t] = Cleared(c, t)
      BY <1>1, <1>2, <1>4, TransitionWrites
    <2>3. Flows(y, s)
      BY <1>1, <1>c, <1>w, <2>1, <2>2 DEF Flows, Consistent, c, d
    <2>4. PhaseOf(x) = "idle" /\ PhaseOf(y) = "preparing"
      BY <1>1, <1>c, <1>n, <1>p, <2>1, <2>2 DEF PhaseIn, Consistent
    <2> QED BY <1>4, <2>3, <2>4, FollowsIs DEF Step, c, after
  <1>5. CASE transitionAllowed(c, x.stage, after) /\ x.stage = "Upgrade"
    <2>1. /\ c["Idle"] \notin IdleInProgressReasons /\ c["RollbackInProgress"] # "InProgress"
          /\ c["PrepCompleted"] = "Completed" /\ c["UpgradeCompleted"] = "None"
          /\ c["UpgradeInProgress"] # "InProgress"
      BY <1>1, <1>2, <1>5, Permitted
    <2>2. /\ d["UpgradeInProgress"] = "InProgress"
          /\ \A t \in ConditionTypes \ {"UpgradeInProgress"} : d[t] = Cleared(c, t)
      BY <1>1, <1>2, <1>5, TransitionWrites
    <2>3. Flows(y, s)
      BY <1>1, <1>c, <1>w, <2>1, <2>2 DEF Flows, Consistent, c, d
    <2>4. PhaseOf(x) = "prepared" /\ PhaseOf(y) = "upgrading"
      BY <1>1, <1>c, <1>n, <1>p, <2>1, <2>2 DEF PhaseIn, Consistent
    <2> QED BY <1>5, <2>3, <2>4, FollowsIs DEF Step, c, after
  <1>6. CASE transitionAllowed(c, x.stage, after) /\ x.stage = "Rollback"
    <2>1. /\ c["Idle"] \notin IdleInProgressReasons /\ c["RollbackInProgress"] # "InProgress"
          /\ c["RollbackCompleted"] = "None"
          /\ \/ c["UpgradeCompleted"] = "Completed"
             \/ after /\ (c["UpgradeInProgress"] = "InProgress" \/ c["UpgradeCompleted"] = "Failed")
      BY <1>1, <1>2, <1>6, Permitted
    <2>2. /\ d["UpgradeInProgress"] = "Failed" /\ d["UpgradeCompleted"] = "Failed"
          /\ d["RollbackInProgress"] = "InProgress"
          /\ \A t \in ConditionTypes \ {"UpgradeInProgress", "UpgradeCompleted", "RollbackInProgress"} :
                d[t] = Cleared(c, t)
      BY <1>1, <1>2, <1>6, TransitionWrites
    <2>3. Flows(y, s)
      BY <1>1, <1>c, <1>w, <2>1, <2>2 DEF Flows, Consistent, c, d
    <2>4. PhaseOf(x) \in {"upgrading", "upgradeFailed", "upgraded"} /\ PhaseOf(y) = "rollingBack"
      BY <1>1, <1>c, <1>n, <1>p, <2>1, <2>2 DEF PhaseIn, Consistent
    <2> QED BY <1>6, <2>3, <2>4, FollowsIs DEF Step, c, after
  <1>7. CASE transitionAllowed(c, x.stage, after) /\ x.stage = "Idle"
    <2>1. /\ c["Idle"] \in {"None", "InProgress", "InvalidTransition"}
          /\ c["RollbackInProgress"] # "InProgress" /\ c["RollbackCompleted"] # "Failed"
      BY <1>1, <1>2, <1>7, Permitted
    <2>2. \/ /\ c["Idle"] = "None" /\ d["Idle"] = "Idle"
             /\ \A t \in ConditionTypes \ {"Idle"} : d[t] = "None"
          \/ /\ d["Idle"] = "Finalizing"
             /\ \A t \in ConditionTypes \ {"Idle"} : d[t] = Cleared(c, t)
             /\ c["UpgradeCompleted"] = "Completed" \/ c["RollbackCompleted"] = "Completed"
          \/ /\ d["Idle"] = "Aborting"
             /\ \A t \in ConditionTypes \ {"Idle"} : d[t] = Cleared(c, t)
             /\ ~after /\ c["Idle"] # "None"
             /\ c["UpgradeCompleted"] # "Completed" /\ c["RollbackCompleted"] # "Completed"
          \/ (\A t \in ConditionTypes : d[t] = Cleared(c, t)) /\ c["Idle"] # "None"
      BY <1>1, <1>2, <1>7, TransitionWrites
    <2>3. CASE c["Idle"] = "None" /\ d["Idle"] = "Idle" /\ \A t \in ConditionTypes \ {"Idle"} : d[t] = "None"
      <3>1. Flows(y, s)
        BY <1>1, <1>w, <2>3 DEF Flows, c, d
      <3>2. PhaseOf(x) \in {"none", "starting"} /\ PhaseOf(y) = "idle"
        BY <1>1, <1>n, <1>p, <2>1, <2>3 DEF PhaseIn, Consistent
      <3> QED BY <1>7, <3>1, <3>2, FollowsIs DEF Step, c, after
    <2>4. CASE /\ d["Idle"] = "Finalizing"
               /\ \A t \in ConditionTypes \ {"Idle"} : d[t] = Cleared(c, t)
               /\ c["UpgradeCompleted"] = "Completed" \/ c["RollbackCompleted"] = "Completed"
      <3>1. staterootJob[s] \notin Running
        BY <1>1, <1>w, <2>1, <2>4 DEF Flows, Fits, PivotedIn, Consistent, c, d
      <3>2. Flows(y, s)
        BY <1>1, <1>c, <1>w, <2>1, <2>4, <3>1 DEF Flows, c, d
      <3>3. PhaseOf(x) \in {"upgraded", "rolledBack"} /\ PhaseOf(y) = "finalizing"
        BY <1>1, <1>n, <1>p, <2>1, <2>4 DEF PhaseIn, Consistent
      <3> QED BY <1>7, <3>2, <3>3, FollowsIs DEF Step, c, after
    <2>5. CASE /\ d["Idle"] = "Aborting"
               /\ \A t \in ConditionTypes \ {"Idle"} : d[t] = Cleared(c, t)
               /\ ~after /\ c["Idle"] # "None"
               /\ c["UpgradeCompleted"] # "Completed" /\ c["RollbackCompleted"] # "Completed"
      <3>1. Flows(y, s)
        BY <1>1, <1>c, <1>w, <2>1, <2>5 DEF Flows, c, d
      <3>2. c["PrepInProgress"] = "InProgress" \/ c["PrepCompleted"] # "None"
        BY <1>w, <2>1, <2>5 DEF Flows, c
      <3>3. PhaseOf(x) \in {"preparing", "prepared", "prepFailed", "upgrading", "upgradeFailed"}
        BY <1>1, <1>n, <1>p, <2>1, <2>5, <3>2 DEF PhaseIn, Consistent
      <3>4. PhaseOf(y) = "aborting"
        BY <1>n, <1>p, <2>5 DEF PhaseIn
      <3> QED BY <1>7, <3>1, <3>3, <3>4, FollowsIs DEF Step, c, after
    <2>6. CASE (\A t \in ConditionTypes : d[t] = Cleared(c, t)) /\ c["Idle"] # "None"
      <3>1. Flows(y, s)
        BY <1>1, <1>c, <1>w, <2>1, <2>6 DEF Flows, c, d
      <3>2. PhaseOf(y) = PhaseOf(x)
        BY <1>1, <1>c, <1>n, <1>p, <2>1, <2>6 DEF PhaseIn, Consistent
      <3> QED BY <1>7, <3>1, <3>2 DEF Step, c, after
    <2> QED BY <2>2, <2>3, <2>4, <2>5, <2>6
  <1> QED BY <1>1, <1>3, <1>4, <1>5, <1>6, <1>7 DEF Stages

-----------------------------------------------------------------------------
(* Steps that keep the invariant and are steps of the abstract upgrade. *)

\* A step of the abstract upgrade, or none at all.
Moves == [Flow!Next]_<<booted, default, deployed \ {booted}, PhaseOf(cr[booted])>>

\* Neither the host nor the phase changes.
LEMMA StillMoves ==
    ASSUME UNCHANGED <<booted, default, deployed>>, PhaseOf(cr[booted])' = PhaseOf(cr[booted])
    PROVE  Moves
  BY DEF Moves

\* The phase of the CR advances on an unchanged host.
LEMMA AdvanceMoves ==
    ASSUME Typed, Typed', Inv, Inv', UNCHANGED <<booted, default, deployed>>,
           Step(PhaseOf(cr[booted]), PhaseOf(cr[booted])')
    PROVE  Moves
  <1> DEFINE p == PhaseOf(cr[booted])
             q == PhaseOf(cr[booted])'
  <1>1. p = "idle" => Idling(cr[booted])
    BY PhaseIs DEF Inv, SoundInv, Sound, Typed
  <1>2. q = "idle" => Idling(cr'[booted])
    <2>1. cr'[booted'] \in CRs /\ Consistent(cr'[booted'].conds)
      BY DEF Inv, SoundInv, Sound, Typed
    <2>2. q = PhaseOf(cr'[booted'])
      OBVIOUS
    <2> QED BY <2>1, <2>2, PhaseIs
  <1>3. p = "idle" \/ q = "idle" => deployed = {booted} /\ default = booted
    BY <1>1, <1>2 DEF Inv, FitsInv, Fits, Typed
  <1>4. p \in Flow!Phases
    BY PhaseIs DEF Inv, SoundInv, Sound, Typed
  <1>5. q # p /\ q \in {"idle", "preparing"} => p = "idle" \/ q = "idle"
    BY <1>4, FollowsIs DEF Flow!Phases, Step, Flow!Follows
  <1>6. CASE q = p
    BY <1>6, StillMoves
  <1>7. CASE q # p
    <2>1. q \in Flow!Follows(p)
      BY <1>7 DEF Step
    <2>2. q \in {"idle", "preparing"} => deployed \ {booted} = {} /\ default = booted
      BY <1>3, <1>5, <1>7
    <2>3. Flow!Advance
      BY <2>1, <2>2 DEF Flow!Advance
    <2> QED BY <2>3 DEF Moves, Flow!Next
  <1> QED BY <1>6, <1>7

\* The stored CRs, the stateroots and the CR in memory stay; a job or a monitor
\* may end.
LEMMA KeptFlow ==
    ASSUME Typed, Typed', FlowInv, UNCHANGED <<deployed, cr>>,
           \A s \in deployed : monitor[s] = "off" => monitor'[s] = "off",
           \A s \in deployed : staterootJob'[s] \in Running => staterootJob[s] \in Running,
           \/ pc' = "idle" \/ pc' \in RestorePCs
           \/ /\ booted' = booted /\ ibu' = ibu
              /\ pc' = pc \/ (pc \in HandlePCs /\ pc' \in HandlePCs) \/ (pc \in AutoPCs /\ pc' \in AutoPCs)
    PROVE  CarryInv' /\ PhaseInv'
  <1>1. \A x : \A s \in deployed : Flows(x, s) => Flows(x, s)'
    BY DEF Flows
  <1>2. \A s \in deployed : Flows(cr[s], s)'
    BY <1>1 DEF FlowInv, CarryInv
  <1>3. Operating' => Operating /\ ibu' = ibu /\ booted' = booted
    BY DEF Operating, Restoring, RestorePCs, HandlePCs, AutoPCs
  <1>4. Operating' => Flows(ibu, booted)'
    BY <1>1, <1>3 DEF FlowInv, CarryInv, Typed
  <1>5. PhaseInv'
    BY DEF FlowInv, PhaseInv, HandlePCs, AutoPCs, RestorePCs
  <1> QED BY <1>2, <1>4, <1>5 DEF CarryInv

\* The saved CRs stay, and the operator does not come up.
LEMMA KeptReturn ==
    ASSUME FlowInv, UNCHANGED <<deployed, file>>, ~up' \/ (up /\ booted' = booted),
           \A s \in deployed : cr'[s].conds = cr[s].conds \/ cr'[s].conds = NoConditions
    PROVE  ReturnInv'
  BY DEF FlowInv, ReturnInv, Returning, Begun, NoConditions

\* Steps that change neither a stored CR nor a stateroot.
LEMMA QuietFlow ==
    ASSUME Typed, Typed', Inv, FlowInv,
           \/ InitIBURead \/ InitIBUFail \/ StaterootJobFetch \/ StaterootJobFail \/ PrecacheJobEnd
           \/ JobDeleted \/ MonitorError \/ OperatorCrash
    PROVE  FlowInv' /\ Moves
  <1>1. /\ UNCHANGED <<booted, default, deployed, cr, file>> /\ (up' => up)
        /\ \A s \in deployed : monitor[s] = "off" => monitor'[s] = "off"
        /\ \A s \in deployed : staterootJob'[s] \in Running => staterootJob[s] \in Running
        /\ pc' = "idle" \/ pc' \in RestorePCs \/ (ibu' = ibu /\ pc' = pc)
    BY DEF InitIBURead, InitIBUFail, StaterootJobFetch, StaterootJobFail, PrecacheJobEnd, JobDeleted,
         MonitorError, OperatorCrash, JobStep, hostVars, storeVars, jobVars, opVars, envVars,
         RestorePCs, Running, Typed
  <1>2. CarryInv' /\ PhaseInv'
    BY <1>1, KeptFlow
  <1>3. ReturnInv'
    BY <1>1, KeptReturn
  <1>4. Moves
    BY <1>1, StillMoves
  <1> QED BY <1>2, <1>3, <1>4 DEF FlowInv

\* The node boots a stateroot, the running one or another.
LEMMA BootFlow ==
    ASSUME Typed, Typed', Inv, Inv', FlowInv, Reboot \/ NodeCrash
    PROVE  FlowInv' /\ Moves
  <1>1. /\ booted' \in deployed /\ UNCHANGED <<default, deployed, cr, file, staterootJob>>
        /\ pc' = "idle" /\ ~up'
        /\ \A s \in deployed : monitor[s] = "off" => monitor'[s] = "off"
    BY DEF Reboot, NodeCrash, BootInto, storeVars, Typed
  <1>2. CarryInv' /\ PhaseInv'
    BY <1>1, KeptFlow
  <1>3. ReturnInv'
    BY <1>1, KeptReturn
  <1>4. CASE booted' = booted
    BY <1>1, <1>2, <1>3, <1>4, StillMoves DEF FlowInv
  <1>5. CASE booted' # booted
    <2>1. PhaseOf(cr'[booted']) \in Flow!Phases
      BY PhaseIs DEF Inv, SoundInv, Sound, Typed
    <2>2. Flow!Boot
      BY <1>1, <1>5, <2>1 DEF Flow!Boot, Typed
    <2> QED BY <1>2, <1>3, <2>2 DEF FlowInv, Moves, Flow!Next
  <1> QED BY <1>4, <1>5

\* What the phase in memory says of the stored one while a handler runs.
LEMMA HandledPhase ==
    ASSUME Typed, Inv, FlowInv, pc \in HandlePCs
    PROVE  /\ Preparing(ibu) => PhaseOf(cr[booted]) = "preparing"
           /\ Moving(ibu) /\ ~Leaving(ibu) => PhaseOf(cr[booted]) = "upgrading"
           /\ ibu.conds["RollbackInProgress"] = "InProgress" /\ ~Leaving(ibu) =>
                PhaseOf(cr[booted]) = "rollingBack"
           /\ ibu.conds["Idle"] \in {"Aborting", "AbortFailed"} => PhaseOf(cr[booted]) = "aborting"
           /\ ibu.conds["Idle"] \in {"Finalizing", "FinalizeFailed"} => PhaseOf(cr[booted]) = "finalizing"
           /\ Step(PhaseOf(cr[booted]), PhaseOf(ibu))
           /\ Flows(ibu, booted)
  <1>1. /\ Operating /\ Exists(ibu) /\ ibu \in CRs /\ Consistent(ibu.conds) /\ Flows(ibu, booted)
        /\ ibu.conds \in Conditions
    BY CRParts DEF HandlePCs, Operating, Restoring, RestorePCs, Typed, InMemory, Inv, SoundInv, Sound,
         FlowInv, CarryInv
  <1> DEFINE c == ibu.conds
             p == PhaseOf(ibu)
  <1>2. \/ p = PhaseOf(cr[booted])
        \/ PhaseOf(cr[booted]) = "none" /\ p = "starting"
    BY DEF FlowInv, PhaseInv
  <1>3. c = NoConditions => /\ c["Idle"] = "None" /\ c["PrepInProgress"] = "None"
                            /\ c["UpgradeInProgress"] = "None" /\ c["RollbackInProgress"] = "None"
    BY Types DEF NoConditions
  <1>4. c["Idle"] \in {"None", "Idle"} => /\ c["PrepInProgress"] # "InProgress"
                              /\ c["UpgradeInProgress"] # "InProgress" /\ c["RollbackInProgress"] # "InProgress"
    BY <1>1 DEF Consistent, Unset, InProgressTypes
  <1> HIDE DEF c, p
  <1>5. /\ c["PrepInProgress"] = "InProgress" /\ ~Leaving(ibu) => p = "preparing"
        /\ c["UpgradeInProgress"] = "InProgress" /\ ~Leaving(ibu) => p = "upgrading"
        /\ c["RollbackInProgress"] = "InProgress" /\ ~Leaving(ibu) => p = "rollingBack"
        /\ c["Idle"] \in {"Aborting", "AbortFailed"} => p = "aborting"
        /\ c["Idle"] \in {"Finalizing", "FinalizeFailed"} => p = "finalizing"
    BY <1>1, <1>3, <1>4, PhaseIs DEF Active, Moving, Finishing, c, p
  <1>6. Step(PhaseOf(cr[booted]), p)
    BY <1>2, FollowsIs DEF Step
  <1> QED BY <1>1, <1>2, <1>5, <1>6 DEF Preparing, Moving, c, p

\* The end of a stage, told by the two conditions of that stage.
LEMMA EndedPhase ==
    ASSUME NEW x \in CRs, NEW y \in CRs, NEW s, NEW r \in {"Failed", "Completed"},
           NEW stage \in {"Prep", "Upgrade", "Rollback"},
           Consistent(x.conds), Flows(x, s), Exists(y), y.target = x.target, ~Leaving(x),
           x.conds[GetInProgressConditionType(stage)] = "InProgress",
           stage = "Prep" => monitor[s] = "off",
           y.conds[GetInProgressConditionType(stage)] = r, y.conds[GetCompletedConditionType(stage)] = r,
           \A t \in ConditionTypes \ {GetInProgressConditionType(stage), GetCompletedConditionType(stage)} :
               y.conds[t] = x.conds[t]
    PROVE  /\ Flows(y, s)
           /\ stage = "Prep" => PhaseOf(y) = IF r = "Failed" THEN "prepFailed" ELSE "prepared"
           /\ stage = "Upgrade" => PhaseOf(y) = IF r = "Failed" THEN "upgradeFailed" ELSE "upgraded"
           /\ stage = "Rollback" => PhaseOf(y) = IF r = "Failed" THEN "rollbackFailed" ELSE "rolledBack"
           /\ stage = "Upgrade" => ~Returning(y)
  <1> DEFINE c == x.conds
             d == y.conds
  <1>1. Consistent(c) /\ ~(c["Idle"] \in IdleInProgressReasons)
    BY DEF Leaving
  <1>2. /\ Working(x) <=> c["Idle"] \notin {"None", "Idle"}
        /\ Working(y) <=> d["Idle"] \notin {"None", "Idle"}
        /\ Leaving(x) <=> c["Idle"] \in IdleInProgressReasons
        /\ Leaving(y) <=> d["Idle"] \in IdleInProgressReasons
        /\ Returning(x) <=> c["RollbackInProgress"] \notin Unset \/ c["RollbackCompleted"] # "None"
        /\ Returning(y) <=> d["RollbackInProgress"] \notin Unset \/ d["RollbackCompleted"] # "None"
        /\ Finishing(x) <=> c["Idle"] \in {"Finalizing", "FinalizeFailed"}
        /\ Finishing(y) <=> d["Idle"] \in {"Finalizing", "FinalizeFailed"}
    BY DEF Working, Leaving, Returning, Finishing
  <1>3. d = NoConditions => \A t \in ConditionTypes : d[t] = "None"
    BY DEF NoConditions
  <1>4. /\ c[GetInProgressConditionType(stage)] = "InProgress"
        /\ d[GetInProgressConditionType(stage)] = r /\ d[GetCompletedConditionType(stage)] = r
        /\ \A t \in ConditionTypes \ {GetInProgressConditionType(stage), GetCompletedConditionType(stage)} :
             d[t] = c[t]
    OBVIOUS
  <1> HIDE DEF c, d
  <1> USE Types DEF InProgressTypes, CompletedTypes, Unset, IdleInProgressReasons
  <1>5. CASE stage = "Prep"
    <2>1. /\ c["PrepInProgress"] = "InProgress" /\ d["PrepInProgress"] = r /\ d["PrepCompleted"] = r
          /\ d["Idle"] = c["Idle"] /\ d["UpgradeInProgress"] = c["UpgradeInProgress"]
          /\ d["UpgradeCompleted"] = c["UpgradeCompleted"] /\ d["RollbackInProgress"] = c["RollbackInProgress"]
          /\ d["RollbackCompleted"] = c["RollbackCompleted"]
      BY <1>4, <1>5
    <2>2. Consistent(d)
      BY <1>1, <2>1 DEF Consistent
    <2>3. PhaseOf(y) = PhaseIn(d)
      BY <2>2, PhaseForm DEF d
    <2>4. PhaseIn(d) = IF r = "Failed" THEN "prepFailed" ELSE "prepared"
      BY <1>1, <1>3, <2>1 DEF PhaseIn, Consistent
    <2>5. Flows(y, s)
      BY <1>1, <1>2, <1>5, <2>1 DEF Flows, Consistent, c, d
    <2> QED BY <1>5, <2>3, <2>4, <2>5
  <1>6. CASE stage = "Upgrade"
    <2>1. /\ c["UpgradeInProgress"] = "InProgress" /\ d["UpgradeInProgress"] = r /\ d["UpgradeCompleted"] = r
          /\ d["Idle"] = c["Idle"] /\ d["PrepInProgress"] = c["PrepInProgress"]
          /\ d["PrepCompleted"] = c["PrepCompleted"] /\ d["RollbackInProgress"] = c["RollbackInProgress"]
          /\ d["RollbackCompleted"] = c["RollbackCompleted"]
      BY <1>4, <1>6
    <2>2. Consistent(d)
      BY <1>1, <2>1 DEF Consistent
    <2>3. PhaseOf(y) = PhaseIn(d)
      BY <2>2, PhaseForm DEF d
    <2>4. PhaseIn(d) = IF r = "Failed" THEN "upgradeFailed" ELSE "upgraded"
      BY <1>1, <1>3, <2>1 DEF PhaseIn, Consistent
    <2>5. Flows(y, s) /\ ~Returning(y)
      BY <1>1, <1>2, <1>6, <2>1 DEF Flows, Consistent, c, d
    <2> QED BY <1>6, <2>3, <2>4, <2>5
  <1>7. CASE stage = "Rollback"
    <2>1. /\ c["RollbackInProgress"] = "InProgress" /\ d["RollbackInProgress"] = r /\ d["RollbackCompleted"] = r
          /\ d["Idle"] = c["Idle"] /\ d["PrepInProgress"] = c["PrepInProgress"]
          /\ d["PrepCompleted"] = c["PrepCompleted"] /\ d["UpgradeInProgress"] = c["UpgradeInProgress"]
          /\ d["UpgradeCompleted"] = c["UpgradeCompleted"]
      BY <1>4, <1>7
    <2>2. Consistent(d)
      BY <1>1, <2>1 DEF Consistent
    <2>3. PhaseOf(y) = PhaseIn(d)
      BY <2>2, PhaseForm DEF d
    <2>4. PhaseIn(d) = IF r = "Failed" THEN "rollbackFailed" ELSE "rolledBack"
      BY <1>1, <1>3, <2>1 DEF PhaseIn, Consistent
    <2>5. Flows(y, s)
      BY <1>1, <1>2, <1>7, <2>1 DEF Flows, Consistent, c, d
    <2> QED BY <1>7, <2>3, <2>4, <2>5
  <1> QED BY <1>5, <1>6, <1>7

\* What the handlers report: the phase that follows, and the host it needs.
LEMMA ReportsPhase ==
    ASSUME Typed, Inv, pc # "idle", Exists(ibu), Flows(ibu, booted)
    PROVE  /\ Preparing(ibu) =>
                LET y == Failed(ibu, "Prep") IN Flows(y, booted) /\ PhaseOf(y) = "prepFailed"
           /\ Preparing(ibu) =>
                LET y == Completed(ibu, "Prep") IN Flows(y, booted) /\ PhaseOf(y) = "prepared"
           /\ Moving(ibu) /\ ~Leaving(ibu) =>
                LET y == Failed(ibu, "Upgrade") IN
                Flows(y, booted) /\ PhaseOf(y) = "upgradeFailed" /\ ~Returning(y)
           /\ Moving(ibu) /\ ~Leaving(ibu) =>
                LET y == Completed(ibu, "Upgrade") IN Flows(y, booted) /\ PhaseOf(y) = "upgraded"
           /\ ibu.conds["RollbackInProgress"] = "InProgress" /\ ~Leaving(ibu) =>
                LET y == Failed(ibu, "Rollback") IN Flows(y, booted) /\ PhaseOf(y) = "rollbackFailed"
           /\ ibu.conds["RollbackInProgress"] = "InProgress" /\ ~Leaving(ibu) =>
                LET y == Completed(ibu, "Rollback") IN Flows(y, booted) /\ PhaseOf(y) = "rolledBack"
  <1>1. ibu \in CRs /\ Consistent(ibu.conds) /\ (Preparing(ibu) => monitor[booted] = "off")
    BY DEF Typed, Inv, SoundInv, Sound, FitsInv, Fits, AtHome
  <1>2. ASSUME NEW stage \in {"Prep", "Upgrade", "Rollback"}, ~Leaving(ibu),
               ibu.conds[GetInProgressConditionType(stage)] = "InProgress"
        PROVE  /\ LET y == Failed(ibu, stage) IN
                  /\ Flows(y, booted)
                  /\ stage = "Prep" => PhaseOf(y) = "prepFailed"
                  /\ stage = "Upgrade" => PhaseOf(y) = "upgradeFailed" /\ ~Returning(y)
                  /\ stage = "Rollback" => PhaseOf(y) = "rollbackFailed"
               /\ LET y == Completed(ibu, stage) IN
                  /\ Flows(y, booted)
                  /\ stage = "Prep" => PhaseOf(y) = "prepared"
                  /\ stage = "Upgrade" => PhaseOf(y) = "upgraded"
                  /\ stage = "Rollback" => PhaseOf(y) = "rolledBack"
    <2>0. stage = "Prep" => monitor[booted] = "off"
      BY <1>1, <1>2, Types DEF Preparing
    <2>1. ASSUME NEW y \in CRs, NEW r \in {"Failed", "Completed"},
                 Exists(y), y.target = ibu.target,
                 y.conds[GetInProgressConditionType(stage)] = r, y.conds[GetCompletedConditionType(stage)] = r,
                 \A t \in ConditionTypes \ {GetInProgressConditionType(stage), GetCompletedConditionType(stage)} :
                    y.conds[t] = ibu.conds[t]
          PROVE  /\ Flows(y, booted)
                 /\ stage = "Prep" => PhaseOf(y) = IF r = "Failed" THEN "prepFailed" ELSE "prepared"
                 /\ stage = "Upgrade" => PhaseOf(y) = IF r = "Failed" THEN "upgradeFailed" ELSE "upgraded"
                 /\ stage = "Rollback" => PhaseOf(y) = IF r = "Failed" THEN "rollbackFailed" ELSE "rolledBack"
                 /\ stage = "Upgrade" => ~Returning(y)
      BY <1>1, <1>2, <2>0, <2>1, EndedPhase
    <2> DEFINE y == Failed(ibu, stage)
               z == Completed(ibu, stage)
    <2>2. y \in CRs /\ z \in CRs /\ Exists(y) /\ Exists(z)
      BY <1>1, FailedCompletedType, ReportExists DEF Stages
    <2>3. /\ y.target = ibu.target
          /\ y.conds[GetInProgressConditionType(stage)] = "Failed"
          /\ y.conds[GetCompletedConditionType(stage)] = "Failed"
          /\ \A t \in ConditionTypes \ {GetInProgressConditionType(stage), GetCompletedConditionType(stage)} :
                y.conds[t] = ibu.conds[t]
      BY <1>1, FailedWrites, Zenon
    <2>4. /\ z.target = ibu.target
          /\ z.conds[GetInProgressConditionType(stage)] = "Completed"
          /\ z.conds[GetCompletedConditionType(stage)] = "Completed"
          /\ \A t \in ConditionTypes \ {GetInProgressConditionType(stage), GetCompletedConditionType(stage)} :
                z.conds[t] = ibu.conds[t]
      BY <1>1, CompletedWrites, Zenon
    <2> HIDE DEF y, z
    <2>5. /\ Flows(y, booted)
          /\ stage = "Prep" => PhaseOf(y) = "prepFailed"
          /\ stage = "Upgrade" => PhaseOf(y) = "upgradeFailed" /\ ~Returning(y)
          /\ stage = "Rollback" => PhaseOf(y) = "rollbackFailed"
      BY <2>1, <2>2, <2>3
    <2>6. /\ Flows(z, booted)
          /\ stage = "Prep" => PhaseOf(z) = "prepared"
          /\ stage = "Upgrade" => PhaseOf(z) = "upgraded"
          /\ stage = "Rollback" => PhaseOf(z) = "rolledBack"
      BY <2>1, <2>2, <2>4
    <2> QED BY <2>5, <2>6 DEF y, z
  <1> QED BY <1>2, Types DEF Preparing, Moving

\* A handler that only reports: what it reports follows the stored phase.
LEMMA ReportFlow ==
    ASSUME Typed, Typed', Inv, FlowInv, Operating, NEW x, NEW requeue, ToFinal(x, requeue),
           UNCHANGED <<booted, default, deployed, cr, file>>,
           \A s \in deployed : monitor[s] = "off" => monitor'[s] = "off",
           \A s \in deployed : staterootJob'[s] \in Running => staterootJob[s] \in Running \/ ~Finishing(cr[s]),
           Flows(x, booted), Finishing(x) => staterootJob'[booted] \notin Running,
           Step(PhaseOf(cr[booted]), PhaseOf(x))
    PROVE  FlowInv' /\ Moves
  <1>1. ibu' = x /\ pc' = "final" /\ up' = up /\ up
    BY DEF ToFinal, Inv, LifeInv
  <1>2. \A s \in deployed : Flows(cr[s], s)'
    BY DEF FlowInv, CarryInv, Flows
  <1>3. Flows(ibu, booted)'
    BY <1>1 DEF Flows, Typed
  <1>4. PhaseInv'
    BY <1>1 DEF PhaseInv, Step, HandlePCs, AutoPCs
  <1>5. ReturnInv'
    BY <1>1, KeptReturn
  <1>6. Moves
    BY StillMoves
  <1> QED BY <1>2, <1>3, <1>4, <1>5, <1>6 DEF FlowInv, CarryInv

\* The handlers that only report.
LEMMA ReportsFlow ==
    ASSUME Typed, Typed', Inv, FlowInv,
           HandleNothing \/ handlePrep \/ PrePivotWait \/ PrePivotFailed \/ PrePivotError \/ PrePivotRebootFailed
           \/ PostPivotWait \/ PostPivotComplete \/ AutoRollbackError \/ finishRollback \/ RollbackWait \/ RollbackFailed
    PROVE  FlowInv' /\ Moves
  <1>1. /\ UNCHANGED <<booted, default, deployed, cr, file>>
        /\ \A s \in deployed : monitor[s] = "off" => monitor'[s] = "off"
        /\ \A s \in deployed : staterootJob'[s] = staterootJob[s] \/ (s = booted /\ Handling("Prep"))
        /\ pc \in HandlePCs \/ pc \in AutoPCs
    BY HandlingIs DEF HandleNothing, handlePrep, PrepWait, PrepValidationFailed, PrepLaunchStateroot,
         PrepJobFailed, PrepLaunchPrecache, PrepComplete, PrePivotWait, PrePivotFailed, PrePivotError,
         PrePivotRebootFailed, PostPivotWait, PostPivotComplete, AutoRollbackError, finishRollback,
         RollbackWait, RollbackFailed, PrePivoting, PostPivoting, Rollbacking, hostVars, storeVars,
         jobVars, Typed, HandlePCs, AutoPCs
  <1>2. Operating /\ pc # "idle" /\ Exists(ibu) /\ Flows(ibu, booted)
    BY <1>1 DEF HandlePCs, AutoPCs, Operating, Restoring, RestorePCs, Typed, InMemory, FlowInv, CarryInv
  <1>3. Handling("Prep") => ~Finishing(cr[booted])
    BY HandlingIs DEF Inv, MemInv, HandlePCs, Finishing, Leaving, IdleInProgressReasons
  <1>4. ASSUME NEW x, NEW requeue, ToFinal(x, requeue), Flows(x, booted), Step(PhaseOf(cr[booted]), PhaseOf(x)),
               Finishing(x) => ~Handling("Prep")
        PROVE  FlowInv' /\ Moves
    <2>1. Finishing(x) => staterootJob'[booted] \notin Running
      BY <1>1, <1>4 DEF Flows, Typed
    <2> QED BY <1>1, <1>2, <1>3, <1>4, <2>1, ReportFlow
  <1>5. CASE AutoRollbackError
    <2>1. ToFinal(ibu, FALSE) /\ pc \in AutoPCs
      BY <1>5 DEF AutoRollbackError, AutoPCs
    <2>2. Step(PhaseOf(cr[booted]), PhaseOf(ibu)) /\ ~Handling("Prep")
      BY <2>1, HandlingIs, FollowsIs DEF FlowInv, PhaseInv, Step, AutoPCs
    <2> QED BY <1>2, <1>4, <2>1, <2>2
  <1>6. CASE pc \in HandlePCs
    <2>1. /\ Preparing(ibu) => PhaseOf(cr[booted]) = "preparing"
          /\ Moving(ibu) /\ ~Leaving(ibu) => PhaseOf(cr[booted]) = "upgrading"
          /\ ibu.conds["RollbackInProgress"] = "InProgress" /\ ~Leaving(ibu) =>
               PhaseOf(cr[booted]) = "rollingBack"
          /\ Step(PhaseOf(cr[booted]), PhaseOf(ibu))
      BY <1>6, HandledPhase
    <2>2. Finishing(ibu) => ~Handling("Prep")
      BY HandlingIs DEF Finishing, Leaving, IdleInProgressReasons
    <2>3. ASSUME NEW requeue, ToFinal(ibu, requeue) PROVE FlowInv' /\ Moves
      BY <1>2, <1>4, <2>1, <2>2, <2>3
    <2>4. CASE PrepValidationFailed \/ PrepJobFailed \/ PrepComplete
      <3>1. Preparing(ibu)
        BY <2>4, HandlingIs DEF PrepValidationFailed, PrepJobFailed, PrepComplete, Preparing
      <3>2. \E x \in {Failed(ibu, "Prep"), Completed(ibu, "Prep")} : ToFinal(x, FALSE)
        BY <2>4 DEF PrepValidationFailed, PrepJobFailed, PrepComplete
      <3>3. PICK x \in {Failed(ibu, "Prep"), Completed(ibu, "Prep")} : ToFinal(x, FALSE)
        BY <3>2
      <3>4. Flows(x, booted) /\ PhaseOf(x) \in {"prepFailed", "prepared"}
        BY <1>2, <3>1, ReportsPhase
      <3>5. ~Finishing(x)
        <4>1. x.conds["Idle"] = ibu.conds["Idle"]
          BY FailedWrites, CompletedWrites, InMemoryType, Types
        <4> QED BY <3>1, <4>1 DEF Finishing, Preparing, Leaving, IdleInProgressReasons
      <3> QED BY <1>4, <2>1, <3>1, <3>3, <3>4, <3>5, FollowsIs DEF Step
    <2>5. CASE PrePivotFailed \/ PrePivotRebootFailed \/ PostPivotComplete
      <3>1. Moving(ibu) /\ ~Leaving(ibu) /\ ~Handling("Prep")
        BY <2>5, HandlingIs DEF PrePivotFailed, PrePivotRebootFailed, PostPivotComplete, PrePivoting,
             PostPivoting, Handling, Moving, Inv, PivotInv
      <3>2. \E x \in {Failed(ibu, "Upgrade"), Completed(ibu, "Upgrade")} : ToFinal(x, FALSE)
        BY <2>5 DEF PrePivotFailed, PrePivotRebootFailed, PostPivotComplete
      <3>3. PICK x \in {Failed(ibu, "Upgrade"), Completed(ibu, "Upgrade")} : ToFinal(x, FALSE)
        BY <3>2
      <3>4. Flows(x, booted) /\ PhaseOf(x) \in {"upgradeFailed", "upgraded"}
        BY <1>2, <3>1, ReportsPhase
      <3> QED BY <1>4, <2>1, <3>1, <3>3, <3>4, FollowsIs DEF Step
    <2>6. CASE finishRollback \/ RollbackFailed
      <3>1. ibu.conds["RollbackInProgress"] = "InProgress" /\ ~Leaving(ibu) /\ ~Handling("Prep")
        BY <2>6, HandlingIs DEF finishRollback, RollbackFailed, Rollbacking, Handling, Inv, PivotInv
      <3>2. \E x \in {Failed(ibu, "Rollback"), Completed(ibu, "Rollback")} : ToFinal(x, FALSE)
        BY <2>6 DEF finishRollback, RollbackFailed
      <3>3. PICK x \in {Failed(ibu, "Rollback"), Completed(ibu, "Rollback")} : ToFinal(x, FALSE)
        BY <3>2
      <3>4. Flows(x, booted) /\ PhaseOf(x) \in {"rollbackFailed", "rolledBack"}
        BY <1>2, <3>1, ReportsPhase
      <3> QED BY <1>4, <2>1, <3>1, <3>3, <3>4, FollowsIs DEF Step
    <2>7. CASE HandleNothing \/ PrepWait \/ PrepLaunchStateroot \/ PrepLaunchPrecache \/ PrePivotWait \/ PrePivotError
               \/ PostPivotWait \/ RollbackWait
      <3>1. ToFinal(ibu, TRUE) \/ ToFinal(ibu, FALSE)
        BY <2>7 DEF HandleNothing, PrepWait, PrepLaunchStateroot, PrepLaunchPrecache, PrePivotWait,
             PrePivotError, PostPivotWait, RollbackWait
      <3> QED BY <2>3, <3>1
    <2> QED BY <1>5, <2>4, <2>5, <2>6, <2>7 DEF handlePrep
  <1>7. pc \in AutoPCs => AutoRollbackError
    BY HandlingIs DEF AutoPCs, HandleNothing, handlePrep, PrepWait, PrepValidationFailed,
         PrepLaunchStateroot, PrepJobFailed, PrepLaunchPrecache, PrepComplete, PrePivotWait,
         PrePivotFailed, PrePivotError, PrePivotRebootFailed, PostPivotWait, PostPivotComplete,
         finishRollback, RollbackWait, RollbackFailed, PrePivoting, PostPivoting, Rollbacking
  <1> QED BY <1>1, <1>5, <1>6, <1>7

\* Two CRs with the same conditions and target.
LEMMA FlowsSame ==
    ASSUME NEW x, NEW y, NEW s, y.conds = x.conds, y.target = x.target
    PROVE  Flows(y, s) <=> Flows(x, s)
  BY DEF Flows, Working, Leaving, Returning, Finishing

\* Reconcile reads the CR: what it has in memory is the phase stored or, to be
\* stored next, one that follows it.
LEMMA ReadFlow ==
    ASSUME Typed, Typed', MonitorRetired, Inv, Inv', FlowInv, Reconcile
    PROVE  FlowInv' /\ Moves
  <1> DEFINE x == cr[booted]
             y == ibu'
             requested == isTransitionRequested(x.conds, x.stage)
             allowed == transitionAllowed(x.conds, x.stage, x.target = booted)
             v == validateStageTransition(x.conds, x.stage, x.target = booted)
             moved == [Refreshed(x) EXCEPT !.conds = v]
  <1>1. /\ y = IF ~requested THEN Refreshed(x) ELSE IF allowed THEN Refreshed(moved) ELSE moved
        /\ pc' = IF requested /\ allowed THEN "transition" ELSE "handle"
        /\ up /\ up' = up /\ Exists(x)
        /\ UNCHANGED <<booted, default, deployed, cr, file, staterootJob, monitor>>
    BY DEF Reconcile, isAfterPivot, hostVars, storeVars, jobVars
  <1>2. /\ x \in CRs /\ y \in CRs /\ booted \in Version /\ Sound(x, booted) /\ Fits(x, booted) /\ Flows(x, booted)
        /\ Sound(y, booted)
    <2>1. Sound(y, booted)
      BY ReconcileReads
    <2> QED BY <2>1 DEF Typed, Inv, SoundInv, FitsInv, FlowInv, CarryInv
  <1>3. /\ y.stage = x.stage /\ y.target = x.target
        /\ y.conds = IF requested THEN v ELSE x.conds
    <2>1. moved \in CRs /\ Refreshed(x) \in CRs
      <3>1. v \in Conditions
        BY <1>1, <1>2, CRParts, ValidateStageTransitionType DEF Exists
      <3>2. Refreshed(x) \in CRs
        BY <1>1, <1>2, RefreshedType
      <3> QED BY <3>1, <3>2, CondsType
    <2>2. /\ Refreshed(x).stage = x.stage /\ Refreshed(x).target = x.target /\ Refreshed(x).conds = x.conds
          /\ Refreshed(moved).stage = moved.stage /\ Refreshed(moved).target = moved.target
          /\ Refreshed(moved).conds = moved.conds
      BY <1>2, <2>1, RefreshedWrites
    <2>3. moved.stage = x.stage /\ moved.target = x.target /\ moved.conds = v
      BY <2>1, <2>2 DEF CRs
    <2> QED BY <1>1, <2>2, <2>3
  <1> HIDE DEF v, y
  <1>4. /\ Flows(y, booted)
        /\ requested /\ allowed => Step(PhaseOf(x), PhaseOf(y))
        /\ ~(requested /\ allowed) =>
              PhaseOf(y) = PhaseOf(x) \/ (PhaseOf(x) = "none" /\ PhaseOf(y) = "starting")
    <2>1. CASE requested
      <3>1. staterootJob[booted] \in Running => deployed = {booted}
        BY <1>2 DEF Inv, HostInv
      <3>2. y.conds = validateStageTransition(x.conds, x.stage, x.target = booted)
        BY <1>3, <2>1 DEF v
      <3> HIDE DEF x
      <3> QED BY <1>1, <1>2, <1>3, <2>1, <3>1, <3>2, TransitionFlow, Zenon
    <2>2. CASE ~requested
      <3>1. Exists(y) <=> Exists(x)
        BY <1>3 DEF Exists
      <3> QED BY <1>2, <1>3, <2>2, <3>1, FlowsSame, PhaseSame
    <2> QED BY <2>1, <2>2
  <1>5. \A s \in deployed : Flows(cr[s], s)'
    BY <1>1 DEF FlowInv, CarryInv, Flows
  <1>6. Flows(ibu, booted)'
    BY <1>1, <1>4 DEF Flows, y
  <1>7. PhaseInv'
    BY <1>1, <1>4 DEF PhaseInv, Step, HandlePCs, AutoPCs, y
  <1>8. ReturnInv'
    BY <1>1, KeptReturn
  <1>9. Moves
    BY <1>1, StillMoves
  <1> QED BY <1>1, <1>5, <1>6, <1>7, <1>8, <1>9 DEF FlowInv, CarryInv

\* The status update: the phase in memory is stored.
LEMMA StoreFlow ==
    ASSUME Typed, Typed', Inv, Inv', FlowInv, pc \in {"transition", "final"}, NEW x,
           cr' = [cr EXCEPT ![booted] = x], x.conds = ibu.conds, x.target = ibu.target, x.stage = ibu.stage,
           up' = up, UNCHANGED <<booted, default, deployed, file, staterootJob, monitor>>,
           pc' = "idle" \/ (pc' = "handle" /\ ibu' = ibu)
    PROVE  FlowInv' /\ Moves
  <1>1. /\ Operating /\ up /\ Flows(ibu, booted) /\ (Exists(x) <=> Exists(ibu))
        /\ cr'[booted] = x /\ \A s \in Version \ {booted} : cr'[s] = cr[s]
    BY DEF Operating, Restoring, RestorePCs, Inv, LifeInv, FlowInv, CarryInv, Typed, Exists
  <1>2. PhaseOf(cr[booted])' = PhaseOf(ibu)
    BY <1>1, PhaseSame
  <1>3. Step(PhaseOf(cr[booted]), PhaseOf(cr[booted])')
    BY <1>2 DEF FlowInv, PhaseInv, Step
  <1>4. Moves
    BY <1>3, AdvanceMoves
  <1>5. \A s \in deployed : Flows(cr[s], s)'
    <2>1. \A s \in deployed : Flows(cr'[s], s)
      BY <1>1, FlowsSame DEF FlowInv, CarryInv, Typed
    <2> QED BY <2>1 DEF Flows
  <1>6. Operating' => Flows(ibu, booted)'
    BY <1>1 DEF Flows, Operating
  <1>7. PhaseInv'
    BY <1>2 DEF PhaseInv, HandlePCs, AutoPCs
  <1>8. ReturnInv'
    <2>1. ~Begun(x) => ~Exists(file[booted])
      BY <1>1 DEF Inv, MemInv, RememberInv, Begun
    <2> QED BY <1>1, <2>1 DEF FlowInv, ReturnInv, Typed
  <1> QED BY <1>4, <1>5, <1>6, <1>7, <1>8 DEF FlowInv, CarryInv

\* Reconcile, up to the handler and after it.
LEMMA ReconcileFlow ==
    ASSUME Typed, Typed', MonitorRetired, Inv, Inv', FlowInv, Reconcile \/ ReconcileTransition \/ ReconcileFinal
    PROVE  FlowInv' /\ Moves
  <1>1. CASE Reconcile
    BY <1>1, ReadFlow
  <1>2. CASE (ReconcileTransition \/ ReconcileFinal) /\ fresh
    <2>1. Refreshed(ibu).conds = ibu.conds /\ Refreshed(ibu).target = ibu.target /\ Refreshed(ibu).stage = ibu.stage
      BY RefreshedWrites, InMemoryType
    <2>2. /\ pc \in {"transition", "final"} /\ up' = up
          /\ UNCHANGED <<booted, default, deployed, file, staterootJob, monitor>>
          /\ pc' = "idle" \/ (pc' = "handle" /\ ibu' = ibu)
          /\ \/ cr' = [cr EXCEPT ![booted] = ibu]
             \/ cr' = [cr EXCEPT ![booted] = Refreshed(ibu)]
      BY <1>2 DEF ReconcileTransition, ReconcileFinal, hostVars, jobVars
    <2> QED BY <2>1, <2>2, StoreFlow
  <1>3. CASE (ReconcileTransition \/ ReconcileFinal) /\ ~fresh
    <2>1. /\ UNCHANGED <<booted, default, deployed, cr, file, staterootJob, monitor, up>> /\ pc' = "idle"
      BY <1>3 DEF ReconcileTransition, ReconcileFinal, hostVars, jobVars
    <2>2. up
      BY <1>3 DEF ReconcileTransition, ReconcileFinal, Inv, LifeInv, Operating, Restoring, RestorePCs
    <2> QED BY <2>1, <2>2, KeptFlow, KeptReturn, StillMoves DEF FlowInv
  <1> QED BY <1>1, <1>2, <1>3

\* A CR without a status has no phase and asks nothing of the host.
LEMMA BlankFlow ==
    ASSUME NEW x, NEW s, x.conds = NoConditions
    PROVE  Flows(x, s) /\ ~Returning(x) /\ PhaseOf(x) = "none"
  BY Types DEF Flows, Working, Returning, Finishing, PhaseOf, NoConditions, Unset

\* The phases that a restored CR may be in.
LEMMA SavedPhase ==
    ASSUME NEW x \in CRs, NEW s \in Version, Saved(x, s), Exists(x), Returning(x) => deployed # {s}
    PROVE  Flows(x, s) /\ PhaseOf(x) \in {"upgrading", "upgradeFailed", "rollingBack"}
  <1> DEFINE c == x.conds
  <1>1. /\ Consistent(c) /\ c["Idle"] \notin {"None", "Idle"} \cup IdleInProgressReasons
        /\ c["PrepCompleted"] = "Completed" /\ c["UpgradeCompleted"] \in {"None", "Failed"}
        /\ c["RollbackCompleted"] = "None"
        /\ c["UpgradeCompleted"] = "None" => c["UpgradeInProgress"] = "InProgress"
    BY DEF Saved, Sound, Working, Leaving, Moving, Consistent, CompletedTypes
  <1>2. PhaseOf(x) = PhaseIn(c)
    BY <1>1, PhaseForm
  <1>3. c = NoConditions => c["Idle"] = "None"
    BY Types DEF NoConditions
  <1> HIDE DEF c
  <1>4. PhaseIn(c) \in {"upgrading", "upgradeFailed", "rollingBack"}
    BY <1>1, <1>3 DEF PhaseIn, IdleInProgressReasons
  <1>5. Flows(x, s)
    BY <1>1 DEF Flows, Finishing, IdleInProgressReasons, c
  <1> QED BY <1>2, <1>4, <1>5

\* InitIBU writes the CR of the running stateroot.
LEMMA InitIBUFlow ==
    ASSUME Typed, Typed', Inv, Inv', FlowInv, InitIBU
    PROVE  FlowInv' /\ Moves
  <1>1. CASE InitIBURead \/ InitIBUFail
    BY <1>1, QuietFlow
  <1>2. CASE InitIBUCreate \/ InitIBUDelete \/ InitIBURecreate
    <2>1. /\ UNCHANGED <<booted, default, deployed, file, staterootJob, monitor>>
          /\ pc' = "idle" \/ pc' \in RestorePCs
          /\ \A s \in Version \ {booted} : cr'[s] = cr[s]
          /\ up' => up \/ ~Exists(file[booted])
      BY <1>2 DEF InitIBUCreate, InitIBUDelete, InitIBURecreate, InitIBURequired, RestorePCs, hostVars,
           jobVars, Typed
    <2>2. cr'[booted] = cr[booted] \/ cr'[booted].conds = NoConditions
      <3>1. InitIBUCreate \/ InitIBUDelete => cr'[booted] = cr[booted] \/ cr'[booted].conds = NoConditions
        BY NoCRIs DEF InitIBUCreate, InitIBUDelete, Typed
      <3>2. InitIBURecreate => cr'[booted].conds = NoConditions
        BY DEF InitIBURecreate, Typed, CRs
      <3> QED BY <1>2, <3>1, <3>2
    <2>3. ~InitIBUDelete => PhaseOf(cr[booted])' = PhaseOf(cr[booted])
      <3>1. CASE InitIBUCreate
        <4>1. cr' = cr \/ (cr[booted] = NoCR /\ cr'[booted] = InitialCR)
          BY <3>1 DEF InitIBUCreate, Inv, LifeInv, Typed
        <4> QED BY <2>1, <4>1, NoCRIs, BlankFlow
      <3>2. CASE InitIBURecreate
        <4>1. cr[booted] = NoCR /\ cr'[booted].conds = NoConditions
          BY <3>2 DEF InitIBURecreate, Inv, LifeInv, Typed, CRs
        <4> QED BY <2>1, <4>1, NoCRIs, BlankFlow
      <3> QED BY <1>2, <3>1, <3>2
    <2>4. InitIBUDelete => PhaseOf(cr[booted])' = "none"
      BY <2>1, NoCRIs, BlankFlow DEF InitIBUDelete, Typed
    <2>5. Moves
      <3>1. CASE ~InitIBUDelete
        BY <2>1, <2>3, <3>1, StillMoves
      <3>2. CASE InitIBUDelete
        BY <2>1, <2>4, <3>2 DEF Moves, Flow!Next, Flow!Reload
      <3> QED BY <3>1, <3>2
    <2>6. CarryInv'
      <3>1. \A s \in deployed : Flows(cr'[s], s)
        BY <2>1, <2>2, BlankFlow DEF FlowInv, CarryInv, Typed
      <3>2. \A s \in deployed : Flows(cr[s], s)'
        BY <2>1, <3>1 DEF Flows
      <3> QED BY <2>1, <3>2 DEF CarryInv, Operating, Restoring
    <2>7. PhaseInv'
      BY <2>1 DEF PhaseInv, HandlePCs, AutoPCs, RestorePCs
    <2>8. ReturnInv'
      <3>1. ~Exists(file[booted]) => ~Returning(file[booted])
        BY NoCRIs, BlankFlow DEF Inv, LifeInv, Typed
      <3> QED BY <2>1, <2>2, <3>1 DEF FlowInv, ReturnInv, Begun, Typed
    <2> QED BY <2>5, <2>6, <2>7, <2>8 DEF FlowInv
  <1>3. CASE InitIBUStatus
    <2>1. /\ UNCHANGED <<booted, default, deployed, file, staterootJob, monitor, up>> /\ pc' \in RestorePCs
          /\ \A s \in Version \ {booted} : cr'[s] = cr[s]
          /\ cr'[booted] = ibu /\ ibu = file[booted] /\ Exists(file[booted]) /\ ~up
          /\ cr[booted].conds = NoConditions
      BY <1>3 DEF InitIBUStatus, RestorePCs, hostVars, jobVars, Inv, LifeInv, Restoring, Typed
    <2>2. /\ Saved(file[booted], booted) /\ file[booted] \in CRs
          /\ Returning(file[booted]) => deployed # {booted}
      BY <2>1 DEF Inv, SoundInv, Typed, FlowInv, ReturnInv
    <2>3. Flows(ibu, booted) /\ PhaseOf(ibu) \in {"upgrading", "upgradeFailed", "rollingBack"} /\ Begun(ibu)
      BY <2>1, <2>2, SavedPhase, SavedIs DEF Typed
    <2>4. Step(PhaseOf(cr[booted]), PhaseOf(cr[booted])')
      BY <2>1, <2>3, BlankFlow, FollowsIs DEF Step
    <2>5. Moves
      BY <2>1, <2>4, AdvanceMoves
    <2>6. CarryInv'
      <3>1. \A s \in deployed : Flows(cr'[s], s)
        BY <2>1, <2>3 DEF FlowInv, CarryInv, Typed
      <3>2. \A s \in deployed : Flows(cr[s], s)'
        BY <2>1, <3>1 DEF Flows
      <3> QED BY <2>1, <3>2 DEF CarryInv, Operating, Restoring
    <2>7. PhaseInv'
      BY <2>1 DEF PhaseInv, HandlePCs, AutoPCs, RestorePCs
    <2>8. ReturnInv'
      BY <2>1, <2>3 DEF FlowInv, ReturnInv, Typed
    <2> QED BY <2>5, <2>6, <2>7, <2>8 DEF FlowInv
  <1>4. CASE InitIBURemove
    <2>1. /\ UNCHANGED <<booted, default, deployed, cr, staterootJob, monitor>> /\ pc' = "idle"
          /\ file'[booted] = NoCR /\ \A s \in Version \ {booted} : file'[s] = file[s]
      BY <1>4 DEF InitIBURemove, hostVars, jobVars, Typed
    <2>2. CarryInv' /\ PhaseInv'
      BY <2>1, KeptFlow
    <2>3. ReturnInv'
      BY <2>1, NoCRIs, BlankFlow DEF FlowInv, ReturnInv, Typed
    <2> QED BY <2>1, <2>2, <2>3, StillMoves DEF FlowInv
  <1> QED BY <1>1, <1>2, <1>3, <1>4 DEF InitIBU

\* A saved CR that is marked failed is as much of a rollback as it was.
LEMMA MarkedReturning ==
    ASSUME NEW x \in CRs
    PROVE  LET y == Failed(x, "Upgrade") IN
           (Returning(y) <=> Returning(x)) /\ (Exists(x) => Exists(y))
  <1> DEFINE y == Failed(x, "Upgrade")
  <1>1. /\ y.conds["RollbackInProgress"] = x.conds["RollbackInProgress"]
        /\ y.conds["RollbackCompleted"] = x.conds["RollbackCompleted"]
    BY FailedWrites, Types
  <1> QED BY <1>1, ReportExists DEF Returning

\* The CR is saved for the stateroot that the node may boot next.
LEMMA SaveFlow ==
    ASSUME Typed, Typed', Inv, FlowInv, NEW o \in deployed, NEW y,
           UNCHANGED <<booted, default, deployed, cr, staterootJob, up, ibu>>,
           \A s \in deployed : monitor[s] = "off" => monitor'[s] = "off",
           file' = [file EXCEPT ![o] = y],
           pc' = pc \/ (pc \in HandlePCs /\ pc' \in HandlePCs) \/ (pc \in AutoPCs /\ pc' \in AutoPCs),
           Returning(y) => deployed # {o} /\ ~(o = booted /\ up),
           Begun(cr[o]) \/ cr[o].conds = NoConditions \/ ~Exists(y)
    PROVE  FlowInv' /\ Moves
  <1>1. CarryInv' /\ PhaseInv'
    BY KeptFlow
  <1>2. ReturnInv'
    BY DEF FlowInv, ReturnInv, Typed
  <1> QED BY <1>1, <1>2, StillMoves DEF FlowInv

\* The exports before the pivot, and the saved CR that a rollback marks failed.
LEMMA SavesFlow ==
    ASSUME Supported, Typed, Typed', MonitorRetired, Inv, FlowInv,
           exportIBUToNewStateroot \/ exportForUncontrolledRollback \/ AutoRollbackSave \/ MonitorFire
    PROVE  FlowInv' /\ Moves
  <1>1. CASE exportIBUToNewStateroot \/ exportForUncontrolledRollback
    <2>1. Moving(ibu) /\ ~Leaving(ibu) /\ ibu.target # booted /\ pc \in {"handle", "exported"}
      BY <1>1, HandlingIs DEF exportIBUToNewStateroot, exportForUncontrolledRollback, PrePivoting,
           isAfterPivot, Moving, Inv, PivotInv
    <2>2. /\ deployed = {booted, ibu.target} /\ cr[ibu.target] = NoCR /\ Begun(cr[booted])
          /\ Exists(ibu) /\ ibu.target \in Version
      BY <2>1, Pivoting
    <2>3. Flows(ibu, booted) /\ pc # "idle" /\ pc \in HandlePCs
      BY <2>1 DEF FlowInv, CarryInv, Operating, Restoring, RestorePCs, HandlePCs
    <2>4. ~Returning(Failed(ibu, "Upgrade")) /\ ~Returning(ibu)
      BY <2>1, <2>2, <2>3, ReportsPhase, MarkedReturning, InMemoryType
    <2>5. CASE exportIBUToNewStateroot
      <3>1. /\ UNCHANGED <<booted, default, deployed, cr, staterootJob, up, ibu, monitor>>
            /\ file' = [file EXCEPT ![ibu.target] = ibu] /\ pc' \in HandlePCs
        BY <2>5 DEF exportIBUToNewStateroot, hostVars, jobVars, HandlePCs
      <3> QED BY <2>2, <2>3, <2>4, <3>1, SaveFlow, NoCRIs
    <2>6. CASE exportForUncontrolledRollback
      <3>1. /\ UNCHANGED <<booted, default, deployed, cr, staterootJob, up, ibu, monitor>>
            /\ file' = [file EXCEPT ![booted] = Failed(ibu, "Upgrade")] /\ pc' \in HandlePCs
        BY <2>6 DEF exportForUncontrolledRollback, hostVars, jobVars, HandlePCs
      <3> QED BY <2>2, <2>3, <2>4, <3>1, SaveFlow
    <2> QED BY <1>1, <2>5, <2>6
  <1>2. CASE AutoRollbackSave \/ MonitorFire
    <2> DEFINE o == UnbootedStateroot
    <2>1. /\ UNCHANGED <<booted, default, deployed, cr, staterootJob, up, ibu>>
          /\ \A s \in deployed : monitor[s] = "off" => monitor'[s] = "off"
          /\ pc' = pc \/ (pc \in AutoPCs /\ pc' \in AutoPCs)
          /\ UnbootedStateroots # {} /\ Exists(file[o])
          /\ file' = [file EXCEPT ![o] = Failed(file[o], "Upgrade")]
      BY <1>2 DEF AutoRollbackSave, MonitorFire, markSavedIBUFailed, hostVars, jobVars, opVars,
           AutoPCs, Typed
    <2>2. o \in deployed /\ o \in Version
      <3>1. monitor[booted] # "off" \/ pc \in AutoPCs
        BY <1>2 DEF AutoRollbackSave, MonitorFire, AutoPCs
      <3>2. New(booted)
        BY <3>1, RollingBack
      <3> QED BY <2>1, <3>2, Other
    <2> HIDE DEF o
    <2>3. file[o] \in CRs
      BY <2>2 DEF Typed
    <2>4. Returning(Failed(file[o], "Upgrade")) => deployed # {o} /\ ~(o = booted /\ up)
      BY <2>2, <2>3, MarkedReturning DEF FlowInv, ReturnInv
    <2>5. Begun(cr[o]) \/ cr[o].conds = NoConditions
      BY <2>1, <2>2 DEF FlowInv, ReturnInv
    <2> QED BY <2>1, <2>2, <2>4, <2>5, SaveFlow
  <1> QED BY <1>1, <1>2

\* The CR in memory is saved for the rollback, and stored.
LEMMA RollbackFlow ==
    ASSUME Typed, Typed', MonitorRetired, Inv, FlowInv, RollbackSave
    PROVE  FlowInv' /\ Moves
  <1> DEFINE o == UnbootedStateroot
  <1>1. /\ pc = "rollbackDefault" /\ pc' = "rollbackSaved" /\ UnbootedStateroots # {}
        /\ UNCHANGED <<booted, default, deployed, staterootJob, monitor, up, ibu>>
        /\ file' = [file EXCEPT ![o] = ibu]
        /\ cr' = cr \/ cr' = [cr EXCEPT ![booted] = ibu]
    BY DEF RollbackSave, hostVars, jobVars
  <1>2. /\ ibu.target = booted /\ ibu.conds["RollbackInProgress"] = "InProgress" /\ ~Leaving(ibu)
        /\ Working(ibu) /\ Operating /\ Exists(ibu) /\ ibu \in CRs /\ Flows(ibu, booted)
    <2>1. /\ ibu.target = booted /\ ibu.conds["RollbackInProgress"] = "InProgress" /\ ~Leaving(ibu)
          /\ Operating /\ Exists(ibu) /\ ibu \in CRs /\ Flows(ibu, booted)
      BY <1>1 DEF Inv, PivotInv, Operating, Restoring, RestorePCs, Typed, InMemory, FlowInv, CarryInv
    <2>2. Working(ibu)
      BY <1>1, <2>1, WorkingHandler DEF HandlePCs, InProgressTypes
    <2> QED BY <2>1, <2>2
  <1>3. New(booted) /\ Begun(cr[booted])
    BY <1>1, <1>2, RollingBack DEF HandlePCs
  <1>4. o \in deployed /\ o # booted /\ o \in Version /\ (Exists(file[o]) \/ Begun(cr[o]))
    BY <1>1, <1>3, Other
  <1> HIDE DEF o
  <1>5. PhaseOf(ibu) = PhaseOf(cr[booted])
    <2>1. PhaseOf(cr[booted]) = "rollingBack"
      BY <1>1, <1>2, HandledPhase DEF HandlePCs
    <2> QED BY <1>1, <2>1 DEF FlowInv, PhaseInv, HandlePCs
  <1>6. PhaseOf(cr[booted])' = PhaseOf(cr[booted])
    BY <1>1, <1>5 DEF Typed
  <1>7. CarryInv'
    <2>1. \A s \in deployed : Flows(cr'[s], s)
      BY <1>1, <1>2 DEF FlowInv, CarryInv, Typed
    <2>2. (\A s \in deployed : Flows(cr[s], s)') /\ Flows(ibu, booted)'
      BY <1>1, <1>2, <2>1 DEF Flows
    <2> QED BY <1>1, <2>2 DEF CarryInv
  <1>8. PhaseInv'
    BY <1>1, <1>5, <1>6 DEF PhaseInv, HandlePCs, AutoPCs
  <1>9. ReturnInv'
    <2>1. Begun(ibu)
      BY <1>2 DEF Working, Begun
    <2>2. Begun(cr[o]) \/ cr[o].conds = NoConditions
      BY <1>4 DEF FlowInv, ReturnInv
    <2>3. /\ file'[o] = ibu /\ \A s \in Version \ {o} : file'[s] = file[s]
          /\ Begun(cr'[booted]) /\ \A s \in Version \ {booted} : cr'[s] = cr[s]
      BY <1>1, <1>3, <1>4, <2>1 DEF Typed
    <2>4. deployed' # {o} /\ UNCHANGED <<deployed, booted, up>>
      BY <1>1, <1>4 DEF Typed
    <2>5. \A s \in deployed : s # o => (Returning(file'[s]) => deployed # {s} /\ ~(s = booted /\ up))
      BY <2>3 DEF FlowInv, ReturnInv, Typed
    <2>6. \A s \in deployed : s # o => (~Begun(cr'[s]) /\ cr'[s].conds # NoConditions => ~Exists(file'[s]))
      BY <2>3 DEF FlowInv, ReturnInv, Typed
    <2> QED BY <1>4, <2>2, <2>3, <2>4, <2>5, <2>6 DEF ReturnInv, Typed
  <1> QED BY <1>1, <1>6, <1>7, <1>8, <1>9, StillMoves DEF FlowInv

\* While the setup job runs, the attempt is prepared, given up or not read yet.
LEMMA RunningPhase ==
    ASSUME Typed, Inv, FlowInv, staterootJob[booted] \in Running
    PROVE  PhaseOf(cr[booted]) \in {"preparing", "prepFailed", "aborting", "none", "upgradeFailed"}
  <1> DEFINE x == cr[booted]
  <1>1. /\ x \in CRs /\ Consistent(x.conds) /\ Sound(x, booted) /\ Fits(x, booted) /\ Flows(x, booted)
        /\ deployed = {booted} /\ (Exists(file[booted]) \/ Begun(x))
    BY DEF Typed, Inv, SoundInv, Sound, FitsInv, FlowInv, CarryInv, HostInv, RememberInv, Running
  <1>2. PhaseOf(x) # "idle"
    BY <1>1, PhaseIs DEF Fits, Running
  <1>3. PhaseOf(x) \notin {"prepared", "upgrading"}
    <2>1. Prepared(x) => x.target = booted
      BY <1>1 DEF Fits
    <2>2. PhaseOf(x) \in {"prepared", "upgrading"} => Prepared(x) /\ PivotedIn(x, booted)
      BY <1>1, <2>1, PhaseIs DEF Active, Prepared, PrepDone, Moving, Leaving, PivotedIn, Sound,
           Consistent, IdleInProgressReasons
    <2> QED BY <1>1, <2>2 DEF Fits
  <1>4. PhaseOf(x) # "upgraded"
    <2>1. PhaseOf(x) = "upgraded" => PivotedIn(x, booted)
      BY <1>1, PhaseIs DEF Active, Leaving, PivotedIn, Sound, IdleInProgressReasons
    <2> QED BY <1>1, <2>1 DEF Fits
  <1>5. PhaseOf(x) \notin {"rollingBack", "rolledBack", "rollbackFailed"}
    <2>1. PhaseOf(x) \in {"rollingBack", "rolledBack", "rollbackFailed"} =>
            /\ Returning(x) /\ ~Leaving(x)
            /\ x.target = booted => PivotedIn(x, booted)
      BY <1>1, PhaseIs DEF Active, Leaving, PivotedIn, Consistent, IdleInProgressReasons, Returning,
           Unset
    <2> QED BY <1>1, <2>1 DEF Fits, Flows
  <1>6. PhaseOf(x) # "finalizing"
    BY <1>1, PhaseIs DEF Flows
  <1>7. PhaseOf(x) # "starting"
    <2>1. PhaseOf(x) = "starting" => ~Working(x) /\ ~Idling(x) /\ x.conds # NoConditions
      BY <1>1, PhaseIs DEF Active, Flows, Idling
    <2>2. PhaseOf(x) = "starting" => ~Begun(x)
      BY <2>1 DEF Working, Idling, Begun
    <2> QED BY <1>1, <2>1, <2>2 DEF FlowInv, ReturnInv, Typed
  <1>8. PhaseOf(x) \in Flow!Phases
    BY <1>1, PhaseIs
  <1> QED BY <1>2, <1>3, <1>4, <1>5, <1>6, <1>7, <1>8 DEF Flow!Phases

\* The setup job deploys the new stateroot.
LEMMA DeployFlow ==
    ASSUME Supported, Typed, Typed', Inv, FlowInv, StaterootJobDeploy
    PROVE  FlowInv' /\ Moves
  <1>1. /\ staterootJob[booted] \in Running /\ pod \in Version /\ pod \notin deployed /\ pod # booted
        /\ deployed' = deployed \cup {pod} /\ UNCHANGED <<booted, default, up, pc, ibu>>
        /\ cr' = [cr EXCEPT ![pod] = NoCR] /\ file' = [file EXCEPT ![pod] = NoCR]
        /\ \A s \in Version \ {pod} : monitor'[s] = monitor[s]
        /\ staterootJob'[booted] \notin Running /\ staterootJob'[pod] = "none"
    BY DEF StaterootJobDeploy, JobStep, Running, Supported, Typed
  <1>2. deployed = {booted} /\ deployed' = {booted, pod}
    BY <1>1 DEF Inv, HostInv, Typed
  <1>3. /\ cr'[pod] = NoCR /\ file'[pod] = NoCR
        /\ cr'[booted] = cr[booted] /\ file'[booted] = file[booted] /\ monitor'[booted] = monitor[booted]
    BY <1>1 DEF Typed
  <1>4. Moves
    <2>1. PhaseOf(cr[booted]) \in {"preparing", "prepFailed", "aborting", "none", "upgradeFailed"}
      BY <1>1, RunningPhase
    <2>2. Flow!Deploy
      <3>1. deployed \ {booted} = {} /\ (deployed \ {booted})' = {pod} /\ pod \in Version \ {booted}
        BY <1>1, <1>2
      <3>2. UNCHANGED <<booted, PhaseOf(cr[booted])>>
        BY <1>1, <1>3
      <3> QED BY <1>1, <2>1, <3>1, <3>2 DEF Flow!Deploy
    <2> QED BY <2>2 DEF Moves, Flow!Next
  <1>5. \A x : Flows(x, booted) => Flows(x, booted)'
    BY <1>1, <1>2, <1>3 DEF Flows
  <1>6. CarryInv'
    <2>1. Flows(cr[booted], booted)'
      BY <1>1, <1>3, <1>5 DEF FlowInv, CarryInv, Typed
    <2>2. \A s : Flows(NoCR, s)'
      BY NoCRIs, BlankFlow, Types DEF Flows, Working, Returning, Finishing, NoConditions, Unset
    <2>3. \A s \in deployed' : Flows(cr[s], s)'
      BY <1>1, <1>2, <1>3, <2>1, <2>2 DEF Flows
    <2>4. Operating' => Flows(ibu, booted)'
      BY <1>1, <1>5 DEF FlowInv, CarryInv, Operating, Restoring
    <2> QED BY <2>3, <2>4 DEF CarryInv
  <1>7. PhaseInv'
    BY <1>1, <1>3 DEF FlowInv, PhaseInv
  <1>8. ReturnInv'
    <2>1. ~Returning(NoCR) /\ ~Exists(NoCR)
      BY NoCRIs, BlankFlow
    <2> QED BY <1>1, <1>2, <1>3, <2>1 DEF FlowInv, ReturnInv
  <1> QED BY <1>4, <1>6, <1>7, <1>8 DEF FlowInv

\* While an init monitor is on, the upgrade it watches has pivoted.
LEMMA WatchedPhase ==
    ASSUME Typed, MonitorRetired, Inv, FlowInv, monitor[booted] # "off"
    PROVE  PhaseOf(cr[booted]) \notin {"starting", "idle", "preparing", "prepared", "prepFailed", "aborting",
                                       "rolledBack"}
  <1> DEFINE x == cr[booted]
  <1>1. /\ x \in CRs /\ Consistent(x.conds) /\ Sound(x, booted) /\ Fits(x, booted) /\ Flows(x, booted)
        /\ booted \in deployed /\ booted \in Version
    BY DEF Typed, Inv, SoundInv, Sound, FitsInv, FlowInv, CarryInv
  <1>2. New(booted)
    BY RollingBack
  <1>3. Begun(x) => x.target = booted
    BY <1>1, <1>2 DEF New, Inv, NewInv
  <1>4. ~Begun(x) => Exists(file[booted])
    <2>1. ~Begun(x) => file[booted].target # 0
      BY <1>1, <1>2, NoVersion DEF New
    <2> QED BY <1>1, <2>1, NoCRIs DEF Inv, LifeInv
  <1>5. PhaseOf(x) # "idle"
    <2>1. Idling(x) => monitor[booted] = "off"
      BY DEF Idling, MonitorRetired, IsTrue, Current
    <2> QED BY <1>1, <2>1, PhaseIs
  <1>6. PhaseOf(x) \notin {"preparing", "prepared"}
    <2>1. PhaseOf(x) = "preparing" => Preparing(x)
      BY <1>1, PhaseIs DEF Active, Preparing
    <2>2. PhaseOf(x) = "prepared" => Prepared(x) /\ ~Moving(x) /\ x.target # booted
      BY <1>1, PhaseIs DEF Active, Prepared, PrepDone, Sound
    <2> QED BY <1>1, <2>1, <2>2 DEF Fits, AtHome
  <1>7. PhaseOf(x) # "prepFailed"
    BY <1>1, PhaseIs DEF Flows, Active
  <1>8. PhaseOf(x) \notin {"aborting", "rolledBack"}
    <2>1. PhaseOf(x) \in {"aborting", "rolledBack"} => Begun(x) /\ x.target # booted
      BY <1>1, PhaseIs DEF Sound, Begun, Consistent, CompletedTypes
    <2> QED BY <1>3, <2>1
  <1>9. PhaseOf(x) # "starting"
    <2>1. PhaseOf(x) = "starting" => ~Working(x) /\ ~Idling(x) /\ x.conds # NoConditions
      BY <1>1, PhaseIs DEF Active, Flows, Idling
    <2>2. PhaseOf(x) = "starting" => ~Begun(x)
      BY <2>1 DEF Working, Idling, Begun
    <2> QED BY <1>1, <1>4, <2>1, <2>2 DEF FlowInv, ReturnInv
  <1> QED BY <1>5, <1>6, <1>7, <1>8, <1>9

\* The stateroot of the next boot is chosen.
LEMMA ChooseFlow ==
    ASSUME Supported, Typed, Typed', MonitorRetired, Inv, FlowInv,
           setDefaultDeploymentToNewStateroot \/ AutoRollbackSetDefault \/ RollbackSetDefault \/ MonitorSetDefault
    PROVE  FlowInv' /\ Moves
  <1>1. /\ UNCHANGED <<booted, deployed, cr, file, staterootJob, up, ibu>>
        /\ \A s \in deployed : monitor[s] = "off" => monitor'[s] = "off"
        /\ pc' = pc \/ (pc \in HandlePCs /\ pc' \in HandlePCs) \/ (pc \in AutoPCs /\ pc' \in AutoPCs)
    BY HandlingIs DEF setDefaultDeploymentToNewStateroot, AutoRollbackSetDefault, RollbackSetDefault,
         MonitorSetDefault, Rollbacking, hostVars, storeVars, jobVars, opVars, HandlePCs, AutoPCs, Typed
  <1>2. CarryInv' /\ PhaseInv'
    BY <1>1, KeptFlow
  <1>3. ReturnInv'
    BY <1>1, KeptReturn
  <1>4. PhaseOf(cr[booted]) \notin {"starting", "idle", "preparing", "prepared", "prepFailed", "aborting",
                                    "rolledBack"}
    <2>1. CASE setDefaultDeploymentToNewStateroot
      <3>1. pc \in HandlePCs /\ Moving(ibu) /\ ~Leaving(ibu)
        BY <2>1 DEF setDefaultDeploymentToNewStateroot, HandlePCs, Inv, PivotInv
      <3> QED BY <3>1, HandledPhase
    <2>2. CASE AutoRollbackSetDefault
      BY <2>2 DEF AutoRollbackSetDefault, FlowInv, PhaseInv, AutoPCs
    <2>3. CASE RollbackSetDefault
      <3>1. pc \in HandlePCs /\ ibu.conds["RollbackInProgress"] = "InProgress" /\ ~Leaving(ibu)
        BY <2>3, HandlingIs DEF RollbackSetDefault, Rollbacking, HandlePCs
      <3> QED BY <3>1, HandledPhase
    <2>4. CASE MonitorSetDefault
      BY <2>4, WatchedPhase DEF MonitorSetDefault
    <2> QED BY <2>1, <2>2, <2>3, <2>4
  <1>5. default' \in deployed \ {booted}
    <2>1. CASE setDefaultDeploymentToNewStateroot
      BY <2>1 DEF setDefaultDeploymentToNewStateroot, Supported, Inv, PivotInv
    <2>2. CASE AutoRollbackSetDefault \/ RollbackSetDefault \/ MonitorSetDefault
      <3>1. default' \in UnbootedStateroots
        BY <2>2, UnbootedStaterootChoice DEF AutoRollbackSetDefault, RollbackSetDefault,
             MonitorSetDefault, setDefaultToUnbooted, Supported
      <3> QED BY <3>1 DEF UnbootedStateroots, Typed
    <2> QED BY <2>1, <2>2
  <1>6. Flow!Choose
    BY <1>1, <1>4, <1>5 DEF Flow!Choose
  <1> QED BY <1>2, <1>3, <1>6 DEF FlowInv, Moves, Flow!Next

\* Manifests or restores failed for good: the failure is reported, or rolled back.
LEMMA FailureFlow ==
    ASSUME Typed, Typed', Inv, FlowInv, PostPivotFailed
    PROVE  FlowInv' /\ Moves
  <1>1. /\ UNCHANGED <<booted, default, deployed, cr, file, staterootJob, monitor>> /\ pc = "handle"
        /\ \/ ToFinal(Failed(ibu, "Upgrade"), FALSE)
           \/ ibu' = Failed(ibu, "Upgrade") /\ pc' = "autoSave" /\ up' = up
        /\ Moving(ibu) /\ ~Leaving(ibu)
    BY HandlingIs DEF PostPivotFailed, PostPivoting, Moving, hostVars, storeVars, jobVars
  <1>2. /\ Operating /\ up /\ pc # "idle" /\ pc \in HandlePCs /\ Exists(ibu) /\ Flows(ibu, booted)
    BY <1>1 DEF HandlePCs, Operating, Restoring, RestorePCs, Typed, InMemory, FlowInv, CarryInv, Inv,
         LifeInv
  <1> DEFINE y == Failed(ibu, "Upgrade")
  <1>3. Flows(y, booted) /\ PhaseOf(y) = "upgradeFailed" /\ PhaseOf(cr[booted]) = "upgrading"
    BY <1>1, <1>2, ReportsPhase, HandledPhase
  <1> HIDE DEF y
  <1>4. CASE ToFinal(y, FALSE)
    <2>1. Finishing(y) => staterootJob'[booted] \notin Running
      BY <1>1, <1>3 DEF Flows
    <2> QED BY <1>1, <1>2, <1>3, <1>4, <2>1, ReportFlow, FollowsIs DEF Step
  <1>5. CASE ibu' = y /\ pc' = "autoSave" /\ up' = up
    <2>1. CarryInv'
      BY <1>1, <1>3, <1>5 DEF FlowInv, CarryInv, Flows
    <2>2. PhaseInv'
      BY <1>1, <1>3, <1>5 DEF PhaseInv, HandlePCs, AutoPCs
    <2>3. ReturnInv'
      BY <1>1, <1>2, <1>5, KeptReturn
    <2> QED BY <1>1, <2>1, <2>2, <2>3, StillMoves DEF FlowInv
  <1> QED BY <1>1, <1>4, <1>5 DEF y

\* Abort and finalize that only report, or wait for the user.
LEMMA WaitFlow ==
    ASSUME Typed, Typed', Inv, Inv', FlowInv, FinalizeWait \/ checkManualCleanup
    PROVE  FlowInv' /\ Moves
  <1>1. pc \in HandlePCs /\ Operating /\ up /\ Leaving(ibu) /\ Flows(ibu, booted) /\ ibu \in CRs /\ Exists(ibu)
    <2>1. CleaningUp \/ Handling("Idle")
      BY DEF FinalizeWait, checkManualCleanup, CleaningUp
    <2>2. pc \in HandlePCs /\ Operating /\ up /\ Leaving(ibu)
      BY <2>1, Cleaning
    <2> QED BY <2>2 DEF FlowInv, CarryInv, Typed, InMemory, Operating
  <1>2. /\ ibu.conds["Idle"] \in {"Finalizing", "FinalizeFailed"} => PhaseOf(cr[booted]) = "finalizing"
        /\ Step(PhaseOf(cr[booted]), PhaseOf(ibu))
    BY <1>1, HandledPhase
  <1>3. CASE FinalizeWait
    <2> DEFINE y == [ibu EXCEPT !.conds = SetCondition(@, "Idle", "Finalizing")]
    <2>1. /\ ToFinal(y, TRUE) /\ UNCHANGED <<booted, default, deployed, cr, file, staterootJob, monitor>>
          /\ ibu.conds["Idle"] \in {"Finalizing", "FinalizeFailed"}
      BY <1>3 DEF FinalizeWait, IdleReason, hostVars, storeVars, jobVars
    <2>2. /\ y.target = ibu.target /\ y.conds["Idle"] = "Finalizing" /\ Exists(y)
          /\ \A t \in ConditionTypes \ {"Idle"} : y.conds[t] = ibu.conds[t]
      <3>1. /\ y.stage = ibu.stage /\ y.target = ibu.target /\ y.next = ibu.next
            /\ y.conds["Idle"] = "Finalizing"
            /\ \A t \in ConditionTypes \ {"Idle"} : y.conds[t] = ibu.conds[t]
        BY IdleWrites, InMemoryType, SMTT(30)
      <3> QED BY <1>1, <3>1 DEF Exists
    <2> HIDE DEF y
    <2>3. PhaseOf(y) = "finalizing"
      <3>1. y.conds # NoConditions
        BY <2>2, Types DEF NoConditions
      <3> QED BY <2>2, <3>1 DEF PhaseOf
    <2>4. staterootJob[booted] \notin Running
      BY <1>1, <2>1 DEF Flows, Finishing
    <2>5. Flows(y, booted)
      BY <1>1, <2>2, <2>4, Types DEF Flows, Working, Leaving, Returning, Finishing,
           IdleInProgressReasons
    <2> QED BY <1>1, <1>2, <2>1, <2>3, <2>4, <2>5, ReportFlow DEF Step
  <1>4. CASE checkManualCleanup /\ ~(ibu.cleaned /\ fresh)
    <2>1. ToFinal(ibu, TRUE) /\ UNCHANGED <<booted, default, deployed, cr, file, staterootJob, monitor>>
      BY <1>4 DEF checkManualCleanup, hostVars, jobVars
    <2>2. Finishing(ibu) => staterootJob'[booted] \notin Running
      BY <1>1, <2>1 DEF Flows
    <2> QED BY <1>1, <1>2, <2>1, <2>2, ReportFlow
  <1>5. CASE checkManualCleanup /\ ibu.cleaned /\ fresh
    <2>1. /\ ibu' = [ibu EXCEPT !.cleaned = FALSE] /\ cr' = [cr EXCEPT ![booted].cleaned = FALSE] /\ pc' = "cleanup"
          /\ UNCHANGED <<booted, default, deployed, file, staterootJob, monitor, up>>
      BY <1>5 DEF checkManualCleanup, hostVars, jobVars
    <2>2. /\ ibu'.conds = ibu.conds /\ ibu'.target = ibu.target /\ (Exists(ibu') <=> Exists(ibu))
          /\ \A s \in Version : /\ cr'[s].conds = cr[s].conds /\ cr'[s].target = cr[s].target
                                /\ Exists(cr'[s]) <=> Exists(cr[s])
      <3>1. ibu'.conds = ibu.conds /\ ibu'.target = ibu.target /\ ibu'.stage = ibu.stage
        BY <1>1, <2>1 DEF CRs
      <3>2. \A s \in Version : cr'[s].conds = cr[s].conds /\ cr'[s].target = cr[s].target /\ cr'[s].stage = cr[s].stage
        BY <2>1 DEF CRs, Typed
      <3> QED BY <3>1, <3>2 DEF Exists
    <2>3. PhaseOf(ibu') = PhaseOf(ibu) /\ PhaseOf(cr'[booted]) = PhaseOf(cr[booted])
      BY <2>2, PhaseSame DEF Typed
    <2>4. CarryInv'
      <3>1. (\A s \in deployed : Flows(cr'[s], s)) /\ Flows(ibu', booted)
        BY <1>1, <2>2, FlowsSame DEF FlowInv, CarryInv, Typed
      <3>2. (\A s \in deployed : Flows(cr[s], s)') /\ Flows(ibu, booted)'
        BY <2>1, <3>1 DEF Flows
      <3> QED BY <2>1, <3>2 DEF CarryInv
    <2>5. PhaseInv'
      BY <1>1, <2>1, <2>3 DEF FlowInv, PhaseInv, HandlePCs, AutoPCs
    <2>6. ReturnInv'
      BY <1>1, <2>1, <2>2, KeptReturn DEF Typed
    <2> QED BY <2>1, <2>3, <2>4, <2>5, <2>6, StillMoves DEF FlowInv
  <1> QED BY <1>3, <1>4, <1>5

\* Cleanup removes stateroots, all of them or some, and reports.
LEMMA DiscardFlow ==
    ASSUME Typed, Typed', Inv, Inv', FlowInv, CleaningUp, NEW gone \in SUBSET (Version \ {booted}),
           deployed' = deployed \ gone, default' \in IF default \in gone THEN deployed \ gone ELSE {default},
           \A s \in Version \ gone : cr'[s] = cr[s] /\ file'[s] = file[s] /\ monitor'[s] = monitor[s],
           \A s \in Version \ gone : staterootJob'[s] \in Running => staterootJob[s] \in Running,
           booted' = booted, up' = up, pc' = "final",
           Flows(ibu', booted), ~Returning(ibu') \/ Leaving(ibu'), Step(PhaseOf(cr[booted]), PhaseOf(ibu'))
    PROVE  FlowInv' /\ Moves
  <1>1. /\ pc \in HandlePCs /\ Operating /\ up /\ Leaving(ibu) /\ Leaving(cr[booted])
        /\ ibu.conds["Idle"] = cr[booted].conds["Idle"]
    BY Cleaning
  <1>2. PhaseOf(cr[booted]) \in {"aborting", "finalizing"}
    BY <1>1, HandledPhase DEF Leaving, IdleInProgressReasons
  <1>3. deployed' = deployed \/ deployed' = {booted}
    BY DEF Inv, HostInv, Typed
  <1>4. cr'[booted] = cr[booted] /\ booted \in deployed' /\ booted \notin gone /\ booted \in Version
    BY DEF Typed
  <1>5. Moves
    <2>1. CASE deployed' = deployed
      <3>1. default' = default
        BY <2>1 DEF Typed
      <3> QED BY <1>4, <2>1, <3>1, StillMoves
    <2>2. CASE deployed' = {booted} /\ deployed' # deployed
      <3>1. default' = IF default = booted THEN default ELSE booted
        BY <1>4, <2>2 DEF Typed
      <3>2. Flow!Discard
        BY <1>2, <1>4, <2>2, <3>1 DEF Flow!Discard, Typed
      <3> QED BY <3>2 DEF Moves, Flow!Next
    <2> QED BY <1>3, <2>1, <2>2
  <1>6. CarryInv'
    <2>1. ASSUME NEW s \in deployed' PROVE Flows(cr[s], s)'
      <3>1. s \in deployed /\ s \in Version \ gone
        BY DEF Typed
      <3>2. Flows(cr[s], s) /\ (deployed' = deployed \/ (s = booted /\ Leaving(cr[s])))
        BY <1>1, <1>3, <3>1 DEF FlowInv, CarryInv
      <3> QED BY <3>1, <3>2 DEF Flows
    <2>2. Flows(ibu, booted)'
      BY <1>3, <1>4 DEF Flows
    <2> QED BY <2>1, <2>2 DEF CarryInv
  <1>7. PhaseInv'
    BY <1>4 DEF PhaseInv, Step, HandlePCs, AutoPCs
  <1>8. ReturnInv'
    BY <1>1, <1>3, <1>4 DEF FlowInv, ReturnInv, Typed
  <1> QED BY <1>5, <1>6, <1>7, <1>8 DEF FlowInv

\* Cleanup.
LEMMA CleanupFlow ==
    ASSUME Typed, Typed', Inv, Inv', FlowInv, CleanupDone \/ CleanupFailed
    PROVE  FlowInv' /\ Moves
  <1>0. CleaningUp
    BY DEF CleanupDone, CleanupFailed
  <1>1. /\ pc \in HandlePCs /\ Operating /\ up /\ Leaving(ibu) /\ Leaving(cr[booted])
        /\ Flows(ibu, booted) /\ ibu \in CRs /\ Exists(ibu)
    <2>1. pc \in HandlePCs /\ Operating /\ up /\ Leaving(ibu) /\ Leaving(cr[booted])
      BY <1>0, Cleaning
    <2> QED BY <2>1 DEF FlowInv, CarryInv, Typed, InMemory, Operating
  <1>2. /\ ibu.conds["Idle"] \in {"Aborting", "AbortFailed"} => PhaseOf(cr[booted]) = "aborting"
        /\ ibu.conds["Idle"] \in {"Finalizing", "FinalizeFailed"} => PhaseOf(cr[booted]) = "finalizing"
        /\ PhaseOf(cr[booted]) \in {"aborting", "finalizing"}
    BY <1>1, HandledPhase DEF Leaving, IdleInProgressReasons
  <1>3. CASE CleanupDone
    <2> DEFINE y == [ibu EXCEPT !.conds = ResetStatusConditions(@)]
               gone == Version \ {booted}
    <2>1. /\ deployed' = deployed \ gone /\ default' \in IF default \in gone THEN deployed \ gone ELSE {default}
          /\ \A s \in Version \ gone : cr'[s] = cr[s] /\ file'[s] = file[s] /\ monitor'[s] = monitor[s]
          /\ \A s \in Version \ gone : staterootJob'[s] = "none"
          /\ booted' = booted /\ up' = up /\ pc' = "final" /\ ibu' = y
      BY <1>3 DEF CleanupDone, RemoveStateroots, ToFinal
    <2>2. /\ y.conds["Idle"] = "Idle" /\ Exists(y) /\ \A t \in ConditionTypes \ {"Idle"} : y.conds[t] = "None"
      <3>1. /\ y.conds["Idle"] = "Idle" /\ y.stage = ibu.stage
            /\ \A t \in ConditionTypes \ {"Idle"} : y.conds[t] = "None"
        BY ResetWrites, InMemoryType, Zenon
      <3> QED BY <1>1, <3>1 DEF Exists
    <2> HIDE DEF y, gone
    <2>3. Flows(y, booted) /\ ~Returning(y)
      BY <2>2, Types DEF Flows, Working, Returning, Finishing, Unset
    <2>4. PhaseOf(y) = "idle"
      <3>1. y.conds # NoConditions
        BY <2>2, Types DEF NoConditions
      <3> QED BY <2>2, <3>1 DEF PhaseOf
    <2>5. gone \in SUBSET (Version \ {booted})
      BY DEF gone
    <2>6. Step(PhaseOf(cr[booted]), PhaseOf(y))
      BY <1>2, <2>4, FollowsIs DEF Step
    <2>7. Flows(ibu', booted) /\ ~Returning(ibu') /\ Step(PhaseOf(cr[booted]), PhaseOf(ibu'))
          /\ \A s \in Version \ gone : staterootJob'[s] \in Running => staterootJob[s] \in Running
      BY <2>1, <2>3, <2>6 DEF Running
    <2> QED BY <1>0, <2>1, <2>5, <2>7, DiscardFlow
  <1>4. CASE CleanupFailed
    <2> DEFINE reason == IF IdleReason \in {"Aborting", "AbortFailed"} THEN "AbortFailed" ELSE "FinalizeFailed"
               y == [ibu EXCEPT !.conds = SetCondition(@, "Idle", reason)]
    <2>1. ToFinal(y, TRUE) /\ ibu' = y /\ up' = up /\ pc' = "final"
      BY <1>4 DEF CleanupFailed, ToFinal
    <2>2. /\ y.target = ibu.target /\ y.conds["Idle"] = reason /\ Exists(y)
          /\ \A t \in ConditionTypes \ {"Idle"} : y.conds[t] = ibu.conds[t]
      <3>1. /\ y.stage = ibu.stage /\ y.target = ibu.target /\ y.next = ibu.next
            /\ y.conds["Idle"] = reason
            /\ \A t \in ConditionTypes \ {"Idle"} : y.conds[t] = ibu.conds[t]
        BY IdleWrites, InMemoryType, SMTT(30)
      <3> QED BY <1>1, <3>1 DEF Exists
    <2>3. /\ reason \in {"AbortFailed", "FinalizeFailed"}
          /\ reason = "AbortFailed" <=> ibu.conds["Idle"] \in {"Aborting", "AbortFailed"}
          /\ reason = "FinalizeFailed" <=> ibu.conds["Idle"] \in {"Finalizing", "FinalizeFailed"}
      BY <1>1 DEF IdleReason, Leaving, IdleInProgressReasons
    <2> HIDE DEF y, reason
    <2>4. Flows(y, booted) /\ Leaving(y) /\ (Finishing(y) => Finishing(ibu))
      BY <1>1, <2>2, <2>3, Types DEF Flows, Working, Leaving, Returning, Finishing,
           IdleInProgressReasons
    <2>5. PhaseOf(y) = PhaseOf(cr[booted])
      <3>1. y.conds # NoConditions
        BY <2>2, <2>3, Types DEF NoConditions
      <3> QED BY <1>2, <2>2, <2>3, <3>1 DEF PhaseOf
    <2>6. Flows(ibu', booted) /\ Leaving(ibu') /\ Step(PhaseOf(cr[booted]), PhaseOf(ibu'))
      BY <2>1, <2>4, <2>5 DEF Step
    <2>7. \E gone \in SUBSET (Version \ {booted}) :
            /\ deployed' = deployed \ gone /\ default' \in IF default \in gone THEN deployed \ gone ELSE {default}
            /\ \A s \in Version \ gone : cr'[s] = cr[s] /\ file'[s] = file[s] /\ monitor'[s] = monitor[s]
            /\ \A s \in Version \ gone : staterootJob'[s] \in Running => staterootJob[s] \in Running
            /\ booted' = booted
      <3>1. CASE /\ UNCHANGED <<hostVars, storeVars, monitor, pod>>
                 /\ staterootJob' = [staterootJob EXCEPT ![booted] =
                                 IF @ = "running" THEN "stopping"
                                 ELSE IF @ = "stopping" THEN @ ELSE "terminating"]
        <4>1. {} \in SUBSET (Version \ {booted})
          OBVIOUS
        <4>2. \A s \in Version : staterootJob'[s] \in Running => staterootJob[s] \in Running
          BY <3>1 DEF Running, Typed
        <4> QED BY <3>1, <4>1, <4>2 DEF hostVars, storeVars
      <3>2. CASE /\ \E gone \in SUBSET (Version \ {booted}) :
                      /\ RemoveStateroots(gone)
                      /\ staterootJob' = [s \in Version |->
                             IF s \in gone \cup {booted} THEN "none" ELSE staterootJob[s]]
                 /\ UNCHANGED booted
        BY <3>2 DEF RemoveStateroots, Running
      <3> QED BY <1>4, <3>1, <3>2 DEF CleanupFailed
    <2> QED BY <1>0, <2>1, <2>6, <2>7, DiscardFlow
  <1> QED BY <1>3, <1>4

\* The user edits the CR: its conditions stay, and its target unless nothing
\* has begun.
LEMMA EditFlow ==
    ASSUME Typed, Typed', Inv, FlowInv, NEW x, EditCR(x), Exists(cr[booted]), Exists(x),
           x.conds = cr[booted].conds,
           x.target = cr[booted].target \/ ~Working(cr[booted])
    PROVE  FlowInv' /\ Moves
  <1>1. /\ UNCHANGED <<booted, default, deployed, file, staterootJob, monitor, up, pc, ibu>>
        /\ cr'[booted] = x /\ \A s \in Version \ {booted} : cr'[s] = cr[s]
    BY DEF EditCR, hostVars, jobVars, Typed
  <1>2. PhaseOf(cr[booted])' = PhaseOf(cr[booted])
    BY <1>1, PhaseSame
  <1>3. CarryInv'
    <2>1. Flows(x, booted)
      <3>1. Flows(cr[booted], booted) /\ Consistent(cr[booted].conds)
        BY DEF FlowInv, CarryInv, Typed, Inv, SoundInv, Sound
      <3>2. ~Working(cr[booted]) => ~Returning(cr[booted])
        BY <3>1, Types DEF Working, Returning, Consistent, InProgressTypes, CompletedTypes
      <3> QED BY <3>1, <3>2 DEF Flows, Working, Returning, Leaving, Finishing
    <2>2. \A s \in deployed : Flows(cr'[s], s)
      BY <1>1, <2>1 DEF FlowInv, CarryInv, Typed
    <2>3. \A s \in deployed : Flows(cr[s], s)'
      BY <1>1, <2>2 DEF Flows
    <2>4. Operating' => Flows(ibu, booted)'
      BY <1>1 DEF FlowInv, CarryInv, Flows, Operating, Restoring
    <2> QED BY <1>1, <2>3, <2>4 DEF CarryInv
  <1>4. PhaseInv'
    BY <1>1, <1>2 DEF FlowInv, PhaseInv
  <1>5. ReturnInv'
    <2>1. \A s \in deployed : cr'[s].conds = cr[s].conds
      BY <1>1 DEF Typed
    <2> QED BY <1>1, <2>1 DEF FlowInv, ReturnInv, Begun
  <1> QED BY <1>1, <1>2, <1>3, <1>4, <1>5, StillMoves DEF FlowInv

\* The user.
LEMMA UserFlow ==
    ASSUME Supported, Typed, Typed', Inv, FlowInv, deletes \in 0 .. MaxDeletes, User
    PROVE  FlowInv' /\ Moves
  <1>1. CASE \E stage \in Stages, target \in Version : SetSpec(stage, target)
    <2>1. PICK stage \in Stages, target \in Version : SetSpec(stage, target)
      BY <1>1
    <2> DEFINE x == [cr[booted] EXCEPT !.stage = stage, !.target = target]
    <2>2. /\ EditCR(x) /\ Exists(cr[booted])
          /\ target = cr[booted].target \/ cr[booted].conds = NoConditions \/ IsTrue(cr[booted].conds, "Idle")
      BY <2>1 DEF SetSpec, Supported
    <2>3. x.conds = cr[booted].conds /\ x.target = target /\ Exists(x)
      BY DEF Typed, CRs, Exists, Stages
    <2>4. ~Working(cr[booted]) \/ target = cr[booted].target
      <3>1. IsTrue(cr[booted].conds, "Idle") => cr[booted].conds["Idle"] = "Idle"
        BY CRParts, StagesRead DEF Typed
      <3>2. cr[booted].conds = NoConditions => ~Working(cr[booted])
        BY BlankCR DEF Typed
      <3> QED BY <2>2, <3>1, <3>2 DEF Working
    <2> HIDE DEF x
    <2> QED BY <2>2, <2>3, <2>4, EditFlow
  <1>2. CASE AddManualCleanup
    <2> DEFINE x == [cr[booted] EXCEPT !.cleaned = TRUE]
    <2>1. EditCR(x) /\ Exists(cr[booted])
      BY <1>2 DEF AddManualCleanup
    <2>2. x.conds = cr[booted].conds /\ x.target = cr[booted].target /\ x.stage = cr[booted].stage
      BY DEF Typed, CRs
    <2>3. Exists(x)
      BY <2>1, <2>2 DEF Exists
    <2> HIDE DEF x
    <2> QED BY <2>1, <2>2, <2>3, EditFlow
  <1>3. CASE TriggerReconcile
    <2>1. EditCR(cr[booted]) /\ Exists(cr[booted])
      BY <1>3 DEF TriggerReconcile
    <2> QED BY <2>1, EditFlow
  <1>4. ~ManualSetDefault /\ ~DeleteCR
    BY DEF ManualSetDefault, DeleteCR, Supported
  <1> QED BY <1>1, <1>2, <1>3, <1>4 DEF User

-----------------------------------------------------------------------------
(* The refinement. *)

\* Every step, whoever takes it, keeps the invariant and is a step of the
\* abstract upgrade.
LEMMA FlowNext ==
    ASSUME Supported, TypeInv, TypeInv', BootableHost, BootableHost', MonitorRetired, Inv, Inv', FlowInv,
           [Next]_vars
    PROVE  FlowInv' /\ Moves
  <1>0. Typed /\ Typed'
    <2>1. Typed
      BY TypedHost
    <2>2. TypeInv' /\ BootableHost' => Typed'
      BY TypedHost, PTL
    <2> QED BY <2>1, <2>2
  <1>1. CASE InitIBU
    BY <1>0, <1>1, InitIBUFlow
  <1>2. CASE Reconcile \/ ReconcileTransition \/ ReconcileFinal
    BY <1>0, <1>2, ReconcileFlow
  <1>3. CASE HandleNothing \/ handlePrep
    BY <1>0, <1>3, ReportsFlow
  <1>4. CASE PrePivot
    BY <1>0, <1>4, ReportsFlow, SavesFlow, ChooseFlow, BootFlow DEF PrePivot, PrePivotReboot
  <1>5. CASE PostPivot
    BY <1>0, <1>5, ReportsFlow, FailureFlow, SavesFlow, ChooseFlow, BootFlow DEF PostPivot,
         AutoRollbackReboot
  <1>6. CASE handleRollback
    BY <1>0, <1>6, ReportsFlow, ChooseFlow, RollbackFlow, BootFlow DEF handleRollback, RollbackReboot
  <1>7. CASE handleAbortOrFinalize
    BY <1>0, <1>7, WaitFlow, CleanupFlow DEF handleAbortOrFinalize
  <1>8. CASE DeleteFunc
    <2>1. deleted = NoCR
      BY DEF Inv, LifeInv
    <2> QED BY <1>8, <2>1, NoCRIs DEF DeleteFunc
  <1>9. CASE Jobs
    BY <1>0, <1>9, QuietFlow, DeployFlow DEF Jobs
  <1>10. CASE Monitor
    BY <1>0, <1>10, QuietFlow, SavesFlow, ChooseFlow, BootFlow DEF Monitor, MonitorReboot
  <1>11. CASE User
    BY <1>0, <1>11, UserFlow DEF TypeInv, TypeOK
  <1>12. CASE OperatorCrash \/ NodeCrash
    BY <1>0, <1>12, QuietFlow, BootFlow
  <1>13. CASE UNCHANGED vars
    <2>1. UNCHANGED <<booted, default, deployed, cr, file, staterootJob, monitor, up, pc, ibu>>
      BY <1>13 DEF vars
    <2>2. CarryInv' /\ PhaseInv'
      BY <1>0, <2>1, KeptFlow
    <2>3. ReturnInv'
      BY <2>1 DEF FlowInv, ReturnInv
    <2> QED BY <2>1, <2>2, <2>3, StillMoves DEF FlowInv
  <1> QED BY <1>1, <1>2, <1>3, <1>4, <1>5, <1>6, <1>7, <1>8, <1>9, <1>10, <1>11, <1>12, <1>13 DEF Next,
       Operator

\* The first state.
LEMMA FlowFirst == Init => FlowInv /\ Flow!Init
  <1> SUFFICES ASSUME Init PROVE FlowInv /\ Flow!Init
    OBVIOUS
  <1>1. /\ booted = 1 /\ default = 1 /\ deployed = {1} /\ 1 \in Version
        /\ \A s \in Version : cr[s] = NoCR /\ file[s] = NoCR
        /\ ~up /\ pc = "idle"
    BY MaxVersionAssumption DEF Init, Version
  <1>2. \A s : Flows(NoCR, s) /\ ~Returning(NoCR) /\ PhaseOf(NoCR) = "none"
    BY NoCRIs, BlankFlow
  <1>3. CarryInv
    BY <1>1, <1>2 DEF CarryInv, Operating
  <1>4. PhaseInv
    BY <1>1 DEF PhaseInv, HandlePCs, AutoPCs
  <1>5. ReturnInv
    BY <1>1, <1>2, NoCRIs DEF ReturnInv
  <1>6. Flow!Init
    BY <1>1, <1>2 DEF Flow!Init
  <1> QED BY <1>3, <1>4, <1>5, <1>6 DEF FlowInv

\* IBU implements UpgradeFlow: whatever Reconcile, the stage handlers, the setup
\* job, the init monitor, the user and the faults do in whatever order, the phase
\* of the running CR follows the documented diagram, and a stateroot is added,
\* removed or chosen for the next boot only in a phase that may do so.  As in
\* UpgradeIsAccounted, the host has set-default, the seed image changes in Idle
\* only, the CR is not deleted and no init monitor outlives its upgrade.
THEOREM FlowImplemented ==
    ASSUME Supported
    PROVE  Spec /\ []MonitorRetired => ImplementsFlow
  <1>1. Spec /\ []MonitorRetired => [](TypeInv /\ BootableHost /\ Inv)
    BY InvHolds
  <1>2. Init => FlowInv /\ Flow!Init
    BY FlowFirst
  <1>3. /\ TypeInv /\ BootableHost /\ Inv /\ TypeInv' /\ BootableHost' /\ Inv'
        /\ MonitorRetired /\ FlowInv /\ [Next]_vars
        => FlowInv' /\ Moves
    <2> SUFFICES ASSUME TypeInv, BootableHost, Inv, TypeInv', BootableHost', Inv',
                        MonitorRetired, FlowInv, [Next]_vars
                 PROVE  FlowInv' /\ Moves
      OBVIOUS
    <2> QED BY FlowNext
  <1>4. Moves => [Flow!Next]_Flow!flowVars
    BY DEF Moves, Flow!flowVars
  <1> QED BY <1>1, <1>2, <1>3, <1>4, PTL DEF Spec, ImplementsFlow, Flow!Spec
===============================================================================
