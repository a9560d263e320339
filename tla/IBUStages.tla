------------------------------ MODULE IBUStages ------------------------------
(***************************************************************************)
(* The stage machine of the ImageBasedUpgrade CR as pure operators: which  *)
(* condition a stage reports through, which stages may follow, and what    *)
(* the controller writes into the conditions when a stage is entered,      *)
(* completed, failed or refused (controllers/utils/conditions.go and the   *)
(* transition half of controllers/ibu_controller.go).                      *)
(*                                                                         *)
(* The conditions of a CR are a function from condition types to reasons,  *)
(* "None" for a condition that is absent.  The status of a condition is    *)
(* determined by its type and reason (every setter in conditions.go writes *)
(* one status per type and reason), so it is derived, not stored.          *)
(* Messages, generations and timestamps are left out.                      *)
(***************************************************************************)

Stages == {"Idle", "Prep", "Upgrade", "Rollback"}

InProgressTypes == {"PrepInProgress", "UpgradeInProgress", "RollbackInProgress"}
CompletedTypes  == {"PrepCompleted", "UpgradeCompleted", "RollbackCompleted"}
ConditionTypes  == {"Idle"} \cup InProgressTypes \cup CompletedTypes

ConditionReasons ==
    {"None", "Idle", "InProgress", "Completed", "Failed", "Aborting",
     "AbortFailed", "Finalizing", "FinalizeFailed", "InvalidTransition",
     "Blocked"}

Conditions == [ConditionTypes -> ConditionReasons]

NoConditions == [t \in ConditionTypes |-> "None"]

GetInProgressConditionType(stage) ==
    CASE stage = "Idle"     -> "Idle"
      [] stage = "Prep"     -> "PrepInProgress"
      [] stage = "Upgrade"  -> "UpgradeInProgress"
      [] stage = "Rollback" -> "RollbackInProgress"

GetCompletedConditionType(stage) ==
    CASE stage = "Idle"     -> "Idle"
      [] stage = "Prep"     -> "PrepCompleted"
      [] stage = "Upgrade"  -> "UpgradeCompleted"
      [] stage = "Rollback" -> "RollbackCompleted"

-----------------------------------------------------------------------------
(* Reading conditions. *)

\* The condition is present with status True.
IsTrue(c, t) ==
    \/ t = "Idle" /\ c[t] = "Idle"
    \/ t \in InProgressTypes /\ c[t] = "InProgress"
    \/ t \in CompletedTypes /\ c[t] = "Completed"

\* The condition is present with status False.
IsFalse(c, t) == c[t] # "None" /\ ~IsTrue(c, t)

IsStageCompleted(c, stage) == IsTrue(c, GetCompletedConditionType(stage))
IsStageFailed(c, stage) == IsFalse(c, GetCompletedConditionType(stage))
IsStageCompletedOrFailed(c, stage) == c[GetCompletedConditionType(stage)] # "None"

IdleInProgressReasons == {"Aborting", "AbortFailed", "Finalizing", "FinalizeFailed"}

IsStageInProgress(c, stage) ==
    IF stage = "Idle" THEN c["Idle"] \in IdleInProgressReasons
                      ELSE IsTrue(c, GetInProgressConditionType(stage))

\* The first stage in progress in the order Idle, Prep, Upgrade, Rollback.
GetInProgressStage(c) ==
    IF IsStageInProgress(c, "Idle") THEN "Idle"
    ELSE IF IsStageInProgress(c, "Prep") THEN "Prep"
    ELSE IF IsStageInProgress(c, "Upgrade") THEN "Upgrade"
    ELSE IF IsStageInProgress(c, "Rollback") THEN "Rollback"
    ELSE "None"

-----------------------------------------------------------------------------
(* Writing conditions. *)

SetCondition(c, t, reason) == [c EXCEPT ![t] = reason]

\* SetPrepStatusFailed, SetUpgradeStatusFailed, SetRollbackStatusFailed and
\* SetUpgradeStatusRollbackRequested.
SetStatusFailed(c, stage) ==
    [c EXCEPT ![GetCompletedConditionType(stage)]  = "Failed",
              ![GetInProgressConditionType(stage)] = "Failed"]

\* Mutant: a reason that no reader of the conditions knows.
SetStatusCompleted_typo(c, stage) ==
    [c EXCEPT ![GetInProgressConditionType(stage)] = "Completed",
              ![GetCompletedConditionType(stage)]  = "Complete"]

\* SetPrepStatusCompleted, SetUpgradeStatusCompleted, SetRollbackStatusCompleted.
SetStatusCompleted(c, stage) ==
    [c EXCEPT ![GetInProgressConditionType(stage)] = "Completed",
              ![GetCompletedConditionType(stage)]  = "Completed"]

\* SetPrepStatusInProgress, SetUpgradeStatusInProgress, SetRollbackStatusInProgress.
SetStatusInProgress(c, stage) ==
    SetCondition(c, GetInProgressConditionType(stage), "InProgress")

SetStatusInvalidTransition(c, stage) ==
    SetCondition(c, GetInProgressConditionType(stage), "InvalidTransition")

ClearInvalidTransitionStatusConditions(c) ==
    [t \in ConditionTypes |->
        IF c[t] # "InvalidTransition" THEN c[t]
        ELSE IF t = "Idle" THEN "InProgress"
        ELSE IF t \in InProgressTypes THEN "None"
        ELSE c[t]]

ResetStatusConditions(c) == [NoConditions EXCEPT !["Idle"] = "Idle"]

-----------------------------------------------------------------------------
(* Stage transitions. *)

getValidNextStageList(c, stage, isAfterPivot) ==
    LET inProgress == GetInProgressStage(c) IN
    IF inProgress \in {"Idle", "Rollback"} \/ IsStageFailed(c, "Rollback")
        THEN {}
    ELSE IF inProgress = "Prep" \/ IsStageFailed(c, "Prep")
        THEN {"Idle"}
    ELSE IF inProgress = "Upgrade" \/ IsStageFailed(c, "Upgrade")
        THEN IF isAfterPivot THEN {"Rollback"} ELSE {"Idle"}
    ELSE IF IsStageCompleted(c, "Rollback") THEN {"Idle"}
    ELSE IF IsStageCompleted(c, "Upgrade")  THEN {"Idle", "Rollback"}
    ELSE IF IsStageCompleted(c, "Prep")     THEN {"Idle", "Upgrade"}
    ELSE IF IsStageCompleted(c, "Idle")     THEN {"Prep"}
    ELSE IF c["Idle"] = "None"              THEN {"Idle"}
    ELSE IF c["Idle"] = "Blocked"           THEN {stage}
    ELSE {}

isTransitionRequested(c, stage) ==
    /\ ~IsStageInProgress(c, stage)
    /\ IF stage = "Idle" THEN ~IsStageCompleted(c, stage)
                         ELSE ~IsStageCompletedOrFailed(c, stage)

isFinalizeOrAbort(c, isAfterPivot) ==
    IF \E t \in {"UpgradeCompleted", "RollbackCompleted"} : IsTrue(c, t)
        THEN "Finalizing"
    ELSE IF /\ IsFalse(c, "Idle")
            /\ ~isAfterPivot
            /\ c["RollbackInProgress"] \in {"None", "InvalidTransition"}
        THEN "Aborting"
    ELSE "None"

\* The transition to the requested stage is one of the valid ones.
transitionAllowed(c, stage, isAfterPivot) ==
    stage \in getValidNextStageList(c, stage, isAfterPivot)

\* The conditions written for a permitted transition to Idle.
enterIdle(c, isAfterPivot) ==
    LET reason == isFinalizeOrAbort(c, isAfterPivot) IN
    IF reason # "None" THEN SetCondition(c, "Idle", reason)
    ELSE IF c["Idle"] = "None" THEN ResetStatusConditions(c)
    ELSE c

\* The conditions after validateStageTransition, permitted or not.
validateStageTransition(c, stage, isAfterPivot) ==
    LET cleared == ClearInvalidTransitionStatusConditions(c) IN
    IF ~transitionAllowed(c, stage, isAfterPivot)
        THEN SetStatusInvalidTransition(c, stage)
    ELSE IF stage = "Prep"
        THEN SetStatusInProgress(SetCondition(cleared, "Idle", "InProgress"), "Prep")
    ELSE IF stage = "Upgrade"
        THEN SetStatusInProgress(cleared, "Upgrade")
    ELSE IF stage = "Rollback"
        THEN SetStatusInProgress(SetStatusFailed(cleared, "Upgrade"), "Rollback")
    ELSE enterIdle(cleared, isAfterPivot)
=============================================================================
