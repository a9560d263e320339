------------------------------ MODULE IPCStages ------------------------------
(***************************************************************************)
(* The stage machine of the IPConfig CR as pure operators: the condition a *)
(* stage reports through, the stages that may follow, and what the         *)
(* handlers write into the conditions (controllers/utils/conditions.go and *)
(* the pure half of controllers/ipc_controller.go).                        *)
(*                                                                         *)
(* As in IBUStages the conditions are a function from condition types to   *)
(* reasons, "None" for an absent condition, and the status of a condition  *)
(* is derived from its type and reason.                                    *)
(***************************************************************************)

IPStages == {"Idle", "Config", "Rollback"}

IPInProgressTypes == {"ConfigInProgress", "RollbackInProgress"}
IPCompletedTypes  == {"ConfigCompleted", "RollbackCompleted"}
IPConditionTypes  == {"Idle"} \cup IPInProgressTypes \cup IPCompletedTypes

IPConditionReasons ==
    {"None", "Idle", "InProgress", "ConfigurationInProgress", "Completed",
     "Failed", "InvalidTransition", "Blocked"}

IPConditions == [IPConditionTypes -> IPConditionReasons]

NoIPConditions == [t \in IPConditionTypes |-> "None"]

GetIPInProgressConditionType(stage) ==
    CASE stage = "Idle"     -> "Idle"
      [] stage = "Config"   -> "ConfigInProgress"
      [] stage = "Rollback" -> "RollbackInProgress"

GetIPCompletedConditionType(stage) ==
    CASE stage = "Idle"     -> "Idle"
      [] stage = "Config"   -> "ConfigCompleted"
      [] stage = "Rollback" -> "RollbackCompleted"

-----------------------------------------------------------------------------
(* Reading conditions. *)

\* The condition is present with status True.
IPIsTrue(c, t) ==
    \/ t = "Idle" /\ c[t] = "Idle"
    \/ t \in IPInProgressTypes /\ c[t] = "InProgress"
    \/ t \in IPCompletedTypes /\ c[t] = "Completed"

IsIPStageCompleted(c, stage) == IPIsTrue(c, GetIPCompletedConditionType(stage))

\* A condition that is present and not True is False.
IsIPStageFailed(c, stage) ==
    LET reason == c[GetIPCompletedConditionType(stage)] IN
    IF stage = "Idle" THEN reason = "Failed"
    ELSE reason # "None" /\ ~IsIPStageCompleted(c, stage)

IsIPStageCompletedOrFailed(c, stage) ==
    IsIPStageCompleted(c, stage) \/ IsIPStageFailed(c, stage)

\* Becoming Idle is the Idle condition False, reason InProgress.
IsIPStageInProgress(c, stage) == c[GetIPInProgressConditionType(stage)] = "InProgress"

\* The first of Idle, Config and Rollback that is in progress.
GetIPInProgressStage(c) ==
    CASE IsIPStageInProgress(c, "Idle")     -> "Idle"
      [] ~IsIPStageInProgress(c, "Idle") /\ IsIPStageInProgress(c, "Config") -> "Config"
      [] ~IsIPStageInProgress(c, "Idle") /\ ~IsIPStageInProgress(c, "Config")
            /\ IsIPStageInProgress(c, "Rollback") -> "Rollback"
      [] OTHER -> "None"

IsIPCStatusBlocked(c, stage) == c[GetIPInProgressConditionType(stage)] = "Blocked"

-----------------------------------------------------------------------------
(* Writing conditions. *)

SetIPCondition(c, t, reason) == [c EXCEPT ![t] = reason]

SetIPStatusInProgress(c, stage) ==
    SetIPCondition(c, GetIPInProgressConditionType(stage), "InProgress")

\* Config and Rollback: both conditions of the stage end the stage.
SetIPStatusEnded(c, stage, reason) ==
    [c EXCEPT ![GetIPInProgressConditionType(stage)] = reason,
              ![GetIPCompletedConditionType(stage)]  = reason]

SetIPStatusInvalidTransition(c, stage) ==
    SetIPCondition(c, GetIPInProgressConditionType(stage), "InvalidTransition")

SetIPStatusBlocked(c, stage) ==
    SetIPCondition(c, GetIPInProgressConditionType(stage), "Blocked")

RemoveIPStatusBlocked(c, stage) ==
    IF IsIPCStatusBlocked(c, stage)
       THEN SetIPCondition(c, GetIPInProgressConditionType(stage), "None") ELSE c

ClearIPInvalidTransitionStatusConditions(c) ==
    [t \in IPConditionTypes |->
        IF c[t] # "InvalidTransition" THEN c[t]
        ELSE IF t = "Idle" THEN "ConfigurationInProgress" ELSE "None"]

ResetIPStatusConditions == [NoIPConditions EXCEPT !["Idle"] = "Idle"]

-----------------------------------------------------------------------------
(* Transitions. *)

isIPTransitionRequested(c, stage) ==
    \/ c[GetIPInProgressConditionType(stage)] = "InvalidTransition"
    \/ ~IsIPStageCompletedOrFailed(c, stage) /\ ~IsIPStageInProgress(c, stage)

\* validNextStages.  rollbackable: the target stateroot is booted and there is
\* an unbooted one.
validIPNextStages(c, stage, rollbackable) ==
    LET inProgress == GetIPInProgressStage(c) IN
    IF inProgress = "Idle" THEN {"Idle"}
    ELSE IF inProgress = "Config" \/ IsIPStageFailed(c, "Config")
         THEN IF rollbackable THEN {"Rollback"} ELSE {"Idle"}
    ELSE IF inProgress = "Rollback" \/ IsIPStageFailed(c, "Rollback") THEN {}
    ELSE IF IsIPStageCompleted(c, "Rollback") THEN {"Idle"}
    ELSE IF IsIPStageCompleted(c, "Config")
         THEN IF rollbackable THEN {"Idle", "Rollback"} ELSE {"Idle"}
    ELSE IF IsIPStageCompleted(c, "Idle") THEN {"Config"}
    ELSE IF c["Idle"] = "None" THEN {"Idle"}
    ELSE IF c["Idle"] = "Blocked" THEN {stage}
    ELSE {}
=============================================================================
