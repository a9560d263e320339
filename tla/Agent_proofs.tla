---------------------------- MODULE Agent_proofs ----------------------------
(***************************************************************************)
(* Proofs about Agent for every number of edits: with a user who waits for *)
(* one flow to be cleaned up before asking for the other, the gates of the *)
(* two reconcilers keep the flows apart and never block both CRs.          *)
(***************************************************************************)
EXTENDS Agent, TLAPS

-----------------------------------------------------------------------------
(* The inductive invariant. *)

\* What the gates take for permission, of any CR.
IBUQuiet(x) ==
    \/ x.conds = NoConditions
    \/ x.stage = "Idle" /\ IsTrue(x.conds, "Idle")
    \/ IsIBUStatusBlocked(x)
IPCQuiet(y) ==
    \/ y.conds = NoIPConditions
    \/ y.stage = "Idle" /\ IPIsTrue(y.conds, "Idle")
    \/ IsIPConfigBlocked(y)

\* A CR of the IBU whose flow has begun is never Blocked and not Idle, so the
\* gate of the IPConfig does not take it for permission.
WorkingIBU(x) ==
    /\ \A t \in ConditionTypes : x.conds[t] # "Blocked"
    /\ x.conds["Idle"] \notin {"Idle", "None"}

\* One whose flow has not begun, or was cleaned up: either it has never been
\* Idle, or it was reset and may only go to Prep.  A Blocked condition of a
\* stage that the user has left does not meet another one.
RestingIBU(x) ==
    /\ x.conds["Idle"] \in {"None", "Idle", "Blocked", "Aborting", "AbortFailed"}
    /\ \A t \in InProgressTypes : x.conds[t] \in {"None", "InvalidTransition", "Blocked"}
    /\ \A t \in CompletedTypes : x.conds[t] = "None"
    /\ x.next \subseteq {"Idle"} \/ x.next = {"Prep"}
    /\ x.conds["Idle"] = "Idle" =>
         /\ x.next = {"Prep"} /\ x.stage \in {"Idle", "Prep"}
         /\ x.conds["UpgradeInProgress"] = "None" /\ x.conds["RollbackInProgress"] = "None"
         /\ x.stage = "Idle" => x.conds["PrepInProgress"] = "None"
    /\ x.stage \in {"Upgrade", "Rollback"} => x.conds["Idle"] = "None"
    /\ x.next \subseteq {"Idle"} /\ x.conds["Idle"] # "None" => x.stage = "Idle"
    /\ x.next = {"Prep"} =>
         /\ x.conds["PrepInProgress"] = "Blocked" => x.stage = "Prep"
         /\ x.conds["Idle"] = "Blocked" \/ x.stage = "Idle" =>
              x.conds["UpgradeInProgress"] # "Blocked" /\ x.conds["RollbackInProgress"] # "Blocked"

\* The same of the IPConfig.
WorkingIPC(y) ==
    /\ \A t \in IPConditionTypes : y.conds[t] # "Blocked"
    /\ y.conds["Idle"] \notin {"Idle", "None"}

\* A Config may be in progress before it has changed anything; a Rollback may not.
RestingIPC(y) ==
    /\ y.conds["RollbackInProgress"] \in {"None", "InvalidTransition", "Blocked"}
    /\ y.conds["RollbackCompleted"] = "None" /\ y.conds["ConfigCompleted"] \in {"None", "Completed"}
    /\ y.next \subseteq {"Idle", "Config"}
    /\ "Config" \in y.next => y.conds["Idle"] = "Idle"
    /\ y.conds["Idle"] = "Idle" =>
         /\ y.next = {"Config"} /\ y.stage \in {"Idle", "Config"}
         /\ y.conds["RollbackInProgress"] = "None" /\ y.conds["ConfigCompleted"] = "None"
         /\ y.conds["ConfigInProgress"] \in {"None", "Blocked"}
         /\ y.stage = "Idle" => y.conds["ConfigInProgress"] = "None"
    /\ y.conds["Idle"] = "Blocked" => y.stage = "Idle" /\ y.next \subseteq {"Idle"}
    /\ y.stage = "Config" /\ y.conds["ConfigInProgress"] = "InProgress" =>
         /\ y.conds["Idle"] \notin {"None", "Idle", "Blocked"}
         /\ y.conds["RollbackInProgress"] # "Blocked"

\* While a CR is being cleaned up the user cannot change its stage, so the status
\* update that ends the cleanup is not refused.
CleansIBU(x) == x.conds["Idle"] \in IdleInProgressReasons => x.stage = "Idle" /\ x.next = {}
CleansIPC(y) == y.conds["Idle"] = "InProgress" => y.stage = "Idle" /\ y.next = {"Idle"}
CleanupInv ==
    /\ CleansIBU(ibu) /\ CleansIPC(ipc)
    /\ lock = "ibu" /\ stale => ibu.conds["Idle"] \notin IdleInProgressReasons
    /\ lock = "ipc" /\ stale => ipc.conds["Idle"] # "InProgress"

\* A flow that is on finds the other CR quiet, in this stateroot and in the one
\* that a rollback goes back to, and so does a reconcile past its gate.
IBUInv ==
    /\ IF ibuWork THEN WorkingIBU(ibu) /\ IPCQuiet(ipc) /\ lock # "ipc" /\ ~ipcWork
                  ELSE RestingIBU(ibu) /\ ~ibuPivoted
    /\ ibuPivoted => RestingIPC(shadow.ipc) /\ IPCQuiet(shadow.ipc) /\ CleansIPC(shadow.ipc)
    /\ lock = "ibu" => IPCQuiet(ipc)
IPCInv ==
    /\ IF ipcWork THEN WorkingIPC(ipc) /\ IBUQuiet(ibu) /\ lock # "ibu" /\ ~ibuWork
                  ELSE RestingIPC(ipc) /\ ~ipcPivoted
    /\ ipcPivoted => RestingIBU(shadow.ibu) /\ IBUQuiet(shadow.ibu) /\ CleansIBU(shadow.ibu)
    /\ lock = "ipc" => IBUQuiet(ibu)

Patient == CleanupInv /\ IBUInv /\ IPCInv /\ NoMutualBlock
Inv == ~eager => Patient

-----------------------------------------------------------------------------
(* Operators. *)

\* The condition types, one by one.
LEMMA Types ==
    /\ ConditionTypes = {"Idle", "PrepInProgress", "UpgradeInProgress", "RollbackInProgress",
                         "PrepCompleted", "UpgradeCompleted", "RollbackCompleted"}
    /\ GetInProgressConditionType("Idle") = "Idle"
    /\ GetInProgressConditionType("Prep") = "PrepInProgress"
    /\ GetInProgressConditionType("Upgrade") = "UpgradeInProgress"
    /\ GetInProgressConditionType("Rollback") = "RollbackInProgress"
    /\ GetCompletedConditionType("Idle") = "Idle"
    /\ GetCompletedConditionType("Prep") = "PrepCompleted"
    /\ GetCompletedConditionType("Upgrade") = "UpgradeCompleted"
    /\ GetCompletedConditionType("Rollback") = "RollbackCompleted"
  BY DEF ConditionTypes, InProgressTypes, CompletedTypes, GetInProgressConditionType,
         GetCompletedConditionType

\* The same of the IPConfig.
LEMMA IPTypes ==
    /\ IPConditionTypes = {"Idle", "ConfigInProgress", "RollbackInProgress", "ConfigCompleted",
                           "RollbackCompleted"}
    /\ GetIPInProgressConditionType("Idle") = "Idle"
    /\ GetIPInProgressConditionType("Config") = "ConfigInProgress"
    /\ GetIPInProgressConditionType("Rollback") = "RollbackInProgress"
    /\ GetIPCompletedConditionType("Idle") = "Idle"
    /\ GetIPCompletedConditionType("Config") = "ConfigCompleted"
    /\ GetIPCompletedConditionType("Rollback") = "RollbackCompleted"
  BY DEF IPConditionTypes, IPInProgressTypes, IPCompletedTypes, GetIPInProgressConditionType,
         GetIPCompletedConditionType

\* The stage in progress, from the conditions.
LEMMA InProgress ==
    ASSUME NEW c \in Conditions
    PROVE  /\ GetInProgressStage(c) = "Idle" <=> c["Idle"] \in IdleInProgressReasons
           /\ GetInProgressStage(c) = "Prep" =>
                c["Idle"] \notin IdleInProgressReasons /\ c["PrepInProgress"] = "InProgress"
           /\ GetInProgressStage(c) = "Upgrade" =>
                c["Idle"] \notin IdleInProgressReasons /\ c["UpgradeInProgress"] = "InProgress"
           /\ GetInProgressStage(c) = "Rollback" =>
                c["Idle"] \notin IdleInProgressReasons /\ c["RollbackInProgress"] = "InProgress"
           /\ GetInProgressStage(c) = "None" => c["PrepInProgress"] # "InProgress"
           /\ GetInProgressStage(c) \in Stages \cup {"None"}
  BY Types DEF GetInProgressStage, IsStageInProgress, IsTrue, InProgressTypes, CompletedTypes,
       IdleInProgressReasons, Stages

\* Updating the valid next stages changes nothing else, and leaves none while the
\* CR is being cleaned up.
LEMMA NextOf ==
    ASSUME NEW x \in IBUs, NEW c \in Conditions, NEW p \in BOOLEAN
    PROVE  LET y == WithNext([x EXCEPT !.conds = c], p) IN
           /\ y \in IBUs
           /\ y.stage = x.stage /\ y.conds = c
           /\ y.next = getValidNextStageList(c, x.stage, p)
           /\ c["Idle"] \in IdleInProgressReasons => y.next = {}
  <1> DEFINE z == [x EXCEPT !.conds = c]
  <1>1. z \in IBUs /\ z.stage = x.stage /\ z.conds = c
    BY DEF IBUs
  <1>2. getValidNextStageList(c, x.stage, p) \subseteq Stages
    BY DEF getValidNextStageList, Stages, IBUs
  <1>3. c["Idle"] \in IdleInProgressReasons => getValidNextStageList(c, x.stage, p) = {}
    BY InProgress DEF getValidNextStageList
  <1> HIDE DEF z
  <1> QED BY <1>1, <1>2, <1>3 DEF WithNext, IBUs, z

\* Forgetting refused transitions.
LEMMA ClearedIs ==
    ASSUME NEW c \in Conditions
    PROVE  LET d == ClearInvalidTransitionStatusConditions(c) IN
           /\ d \in Conditions
           /\ \A t \in ConditionTypes : c[t] # "InvalidTransition" => d[t] = c[t]
           /\ c["Idle"] = "InvalidTransition" => d["Idle"] = "InProgress"
           /\ \A t \in InProgressTypes : c[t] = "InvalidTransition" => d[t] = "None"
           /\ \A t \in ConditionTypes : d[t] \in {c[t], "InProgress", "None"}
  <1>1. /\ "Idle" \in ConditionTypes /\ "Idle" \notin InProgressTypes
        /\ InProgressTypes \subseteq ConditionTypes
    BY DEF ConditionTypes, InProgressTypes, CompletedTypes
  <1> QED BY <1>1 DEF ClearInvalidTransitionStatusConditions, Conditions, ConditionReasons

\* What a transition writes, permitted or not.
LEMMA TransitionIs ==
    ASSUME NEW c \in Conditions, NEW stage \in Stages, NEW p \in BOOLEAN
    PROVE  LET d == validateStageTransition(c, stage, p)
               e == ClearInvalidTransitionStatusConditions(c)
           IN
           /\ d \in Conditions
           /\ ~transitionAllowed(c, stage, p) =>
                /\ d[GetInProgressConditionType(stage)] = "InvalidTransition"
                /\ \A t \in ConditionTypes \ {GetInProgressConditionType(stage)} : d[t] = c[t]
           /\ transitionAllowed(c, stage, p) /\ stage = "Prep" =>
                /\ d["Idle"] = "InProgress" /\ d["PrepInProgress"] = "InProgress"
                /\ \A t \in ConditionTypes \ {"Idle", "PrepInProgress"} : d[t] = e[t]
           /\ transitionAllowed(c, stage, p) /\ stage = "Upgrade" =>
                /\ d["UpgradeInProgress"] = "InProgress"
                /\ \A t \in ConditionTypes \ {"UpgradeInProgress"} : d[t] = e[t]
           /\ transitionAllowed(c, stage, p) /\ stage = "Rollback" =>
                /\ d["UpgradeInProgress"] = "Failed" /\ d["UpgradeCompleted"] = "Failed"
                /\ d["RollbackInProgress"] = "InProgress"
                /\ \A t \in ConditionTypes \ {"UpgradeInProgress", "UpgradeCompleted", "RollbackInProgress"} :
                      d[t] = e[t]
           /\ transitionAllowed(c, stage, p) /\ stage = "Idle" => d = enterIdle(e, p)
  <1> DEFINE d == validateStageTransition(c, stage, p)
             e == ClearInvalidTransitionStatusConditions(c)
  <1>0. e \in Conditions
    BY ClearedIs
  <1>1. CASE ~transitionAllowed(c, stage, p)
    <2>1. d = SetStatusInvalidTransition(c, stage)
      BY <1>1 DEF validateStageTransition
    <2> QED BY <1>1, <2>1, Types DEF SetStatusInvalidTransition, SetCondition, Conditions,
              ConditionReasons, Stages
  <1>2. CASE transitionAllowed(c, stage, p) /\ stage = "Prep"
    <2>1. d = SetStatusInProgress(SetCondition(e, "Idle", "InProgress"), "Prep")
      BY <1>2 DEF validateStageTransition
    <2>2. /\ d \in Conditions /\ d["Idle"] = "InProgress" /\ d["PrepInProgress"] = "InProgress"
          /\ \A t \in ConditionTypes \ {"Idle", "PrepInProgress"} : d[t] = e[t]
      <3> HIDE DEF d, e
      <3> QED BY <1>0, <2>1, Types DEF SetStatusInProgress, SetCondition, Conditions, ConditionReasons
    <2> QED BY <1>2, <2>2
  <1>3. CASE transitionAllowed(c, stage, p) /\ stage = "Upgrade"
    <2>1. d = SetStatusInProgress(e, "Upgrade")
      BY <1>3 DEF validateStageTransition
    <2>2. /\ d \in Conditions /\ d["UpgradeInProgress"] = "InProgress"
          /\ \A t \in ConditionTypes \ {"UpgradeInProgress"} : d[t] = e[t]
      <3> HIDE DEF d, e
      <3> QED BY <1>0, <2>1, Types DEF SetStatusInProgress, SetCondition, Conditions, ConditionReasons
    <2> QED BY <1>3, <2>2
  <1>4. CASE transitionAllowed(c, stage, p) /\ stage = "Rollback"
    <2>1. d = SetStatusInProgress(SetStatusFailed(e, "Upgrade"), "Rollback")
      BY <1>4 DEF validateStageTransition
    <2>2. /\ d \in Conditions /\ d["UpgradeInProgress"] = "Failed"
          /\ d["UpgradeCompleted"] = "Failed" /\ d["RollbackInProgress"] = "InProgress"
          /\ \A t \in ConditionTypes \ {"UpgradeInProgress", "UpgradeCompleted", "RollbackInProgress"} :
                d[t] = e[t]
      <3> HIDE DEF d, e
      <3> QED BY <1>0, <2>1, Types DEF SetStatusInProgress, SetStatusFailed, SetCondition, Conditions,
                ConditionReasons
    <2> QED BY <1>4, <2>2
  <1>5. CASE transitionAllowed(c, stage, p) /\ stage = "Idle"
    <2>1. d = enterIdle(e, p)
      BY <1>5 DEF validateStageTransition
    <2>2. enterIdle(e, p) \in Conditions
      <3> HIDE DEF e
      <3> QED BY <1>0, Types DEF enterIdle, isFinalizeOrAbort, SetCondition, ResetStatusConditions,
                NoConditions, Conditions, ConditionReasons
    <2> QED BY <1>5, <2>1, <2>2
  <1> QED BY <1>1, <1>2, <1>3, <1>4, <1>5 DEF Stages

-----------------------------------------------------------------------------
(* The IBU. *)

\* A stage of a flow that is on is entered without a Blocked condition.
LEMMA EnteredWorking ==
    ASSUME ibu \in IBUs, ibuPivoted \in BOOLEAN, WorkingIBU(ibu)
    PROVE  /\ ibuEntered \in Conditions
           /\ \A t \in ConditionTypes : ibuEntered[t] # "Blocked"
           /\ ibuEntered["Idle"] \notin {"Idle", "None"}
  <1> DEFINE c == ibu.conds
             e == ClearInvalidTransitionStatusConditions(c)
             d == validateStageTransition(c, ibu.stage, ibuPivoted)
  <1>1. c \in Conditions /\ ibu.stage \in Stages
    BY DEF IBUs
  <1>2. /\ e \in Conditions /\ \A t \in ConditionTypes : e[t] \in {c[t], "InProgress", "None"}
        /\ e["Idle"] \in {c["Idle"], "InProgress"}
    BY <1>1, ClearedIs, Types
  <1>3. /\ \A t \in ConditionTypes : e[t] # "Blocked"
        /\ e["Idle"] \notin {"Idle", "None"}
    BY <1>2 DEF WorkingIBU
  <1>4. CASE ~isTransitionRequested(c, ibu.stage)
    BY <1>1, <1>4 DEF ibuEntered, WorkingIBU
  <1>5. CASE isTransitionRequested(c, ibu.stage)
    <2>1. ibuEntered = d
      BY <1>5 DEF ibuEntered
    <2>2. d \in Conditions
      BY <1>1, TransitionIs
    <2>3. CASE ~transitionAllowed(c, ibu.stage, ibuPivoted)
      <3>1. /\ \A t \in ConditionTypes : d[t] \in {c[t], "InvalidTransition"}
        BY <1>1, <2>3, TransitionIs
      <3> QED BY <2>1, <2>2, <3>1, Types DEF WorkingIBU
    <2>4. CASE transitionAllowed(c, ibu.stage, ibuPivoted) /\ ibu.stage # "Idle"
      <3>1. /\ \A t \in ConditionTypes : d[t] \in {e[t], "InProgress", "Failed"}
            /\ d["Idle"] \in {e["Idle"], "InProgress"}
        BY <1>1, <2>4, TransitionIs, Types DEF Stages
      <3> QED BY <1>3, <2>1, <2>2, <3>1
    <2>5. CASE transitionAllowed(c, ibu.stage, ibuPivoted) /\ ibu.stage = "Idle"
      <3>1. d = enterIdle(e, ibuPivoted)
        BY <1>1, <2>5, TransitionIs
      <3>2. isFinalizeOrAbort(e, ibuPivoted) \in {"None", "Finalizing", "Aborting"}
        BY DEF isFinalizeOrAbort
      <3> HIDE DEF c, d, e
      <3>3. d = e \/ d = [e EXCEPT !["Idle"] = "Finalizing"] \/ d = [e EXCEPT !["Idle"] = "Aborting"]
        BY <1>3, <3>1, <3>2 DEF enterIdle, SetCondition
      <3> QED BY <1>2, <1>3, <2>1, <2>2, <3>3, Types DEF Conditions
    <2> QED BY <2>3, <2>4, <2>5
  <1> QED BY <1>4, <1>5

\* What a CR at rest enters: Idle again, an abort, Prep, or a refusal.
LEMMA EnteredResting ==
    ASSUME ibu \in IBUs, ibuPivoted = FALSE, RestingIBU(ibu), CleansIBU(ibu)
    PROVE  LET c == ibuEntered
               requested == isTransitionRequested(ibu.conds, ibu.stage)
           IN
           /\ c \in Conditions
           /\ \/ /\ GetInProgressStage(c) = "None"
                 /\ \A t \in InProgressTypes : c[t] \in {"None", "InvalidTransition", "Blocked"}
                 /\ \A t \in CompletedTypes : c[t] = "None"
                 /\ \/ /\ c["Idle"] = "Idle" /\ ibu.stage = "Idle"
                       /\ \A t \in InProgressTypes : c[t] = "None"
                    \/ c["Idle"] = "None"
                    \/ c["Idle"] = "Blocked" /\ ibu.stage = "Idle"
              \/ /\ GetInProgressStage(c) = "Idle" /\ ibu.stage = "Idle"
                 /\ c["Idle"] \in {"Aborting", "AbortFailed"}
                 /\ \A t \in InProgressTypes : c[t] \in {"None", "InvalidTransition", "Blocked"}
                 /\ \A t \in CompletedTypes : c[t] = "None"
              \/ /\ GetInProgressStage(c) = "Prep" /\ ibu.stage = "Prep" /\ requested
                 /\ c["Idle"] = "InProgress" /\ \A t \in ConditionTypes : c[t] # "Blocked"
           /\ \A t \in ConditionTypes : c[t] = "Blocked" => ibu.conds[t] = "Blocked"
  <1> DEFINE c == ibu.conds
             e == ClearInvalidTransitionStatusConditions(c)
             d == validateStageTransition(c, ibu.stage, FALSE)
             next == getValidNextStageList(c, ibu.stage, FALSE)
             requested == isTransitionRequested(c, ibu.stage)
  <1>1. c \in Conditions /\ ibu.stage \in Stages
    BY DEF IBUs
  <1>2. /\ c["Idle"] \in {"None", "Idle", "Blocked", "Aborting", "AbortFailed"}
        /\ c["PrepInProgress"] \in {"None", "InvalidTransition", "Blocked"}
        /\ c["UpgradeInProgress"] \in {"None", "InvalidTransition", "Blocked"}
        /\ c["RollbackInProgress"] \in {"None", "InvalidTransition", "Blocked"}
        /\ c["PrepCompleted"] = "None" /\ c["UpgradeCompleted"] = "None" /\ c["RollbackCompleted"] = "None"
    BY DEF RestingIBU, InProgressTypes, CompletedTypes
  <1>3. GetInProgressStage(c) = IF c["Idle"] \in {"Aborting", "AbortFailed"} THEN "Idle" ELSE "None"
    BY <1>2, Types DEF GetInProgressStage, IsStageInProgress, IsTrue, IdleInProgressReasons,
         InProgressTypes, CompletedTypes
  <1>4. requested <=> ~(ibu.stage = "Idle" /\ c["Idle"] \in {"Idle", "Aborting", "AbortFailed"})
    BY <1>1, <1>2, Types DEF isTransitionRequested, IsStageInProgress, IsStageCompleted,
         IsStageCompletedOrFailed, IsTrue, IdleInProgressReasons, InProgressTypes, CompletedTypes,
         Stages
  <1>5. next = CASE c["Idle"] \in {"Aborting", "AbortFailed"} -> {}
                 [] c["Idle"] = "Idle" -> {"Prep"}
                 [] c["Idle"] = "None" -> {"Idle"}
                 [] c["Idle"] = "Blocked" -> {ibu.stage}
    BY <1>2, <1>3, Types DEF getValidNextStageList, IsStageFailed, IsStageCompleted, IsFalse, IsTrue,
         InProgressTypes, CompletedTypes
  <1>6. transitionAllowed(c, ibu.stage, FALSE) <=> ibu.stage \in next
    BY DEF transitionAllowed
  <1>7. /\ e \in Conditions
        /\ e["Idle"] = c["Idle"]
        /\ e["PrepInProgress"] \in {"None", c["PrepInProgress"]}
        /\ e["UpgradeInProgress"] \in {"None", c["UpgradeInProgress"]}
        /\ e["RollbackInProgress"] \in {"None", c["RollbackInProgress"]}
        /\ e["PrepCompleted"] = "None" /\ e["UpgradeCompleted"] = "None" /\ e["RollbackCompleted"] = "None"
    BY <1>1, <1>2, ClearedIs, Types DEF InProgressTypes
  <1>8. ibuEntered = IF requested THEN d ELSE c
    BY DEF ibuEntered
  <1>9. CASE ibu.stage = "Idle" /\ c["Idle"] = "Idle"
    BY <1>1, <1>2, <1>3, <1>4, <1>8, <1>9, Types DEF RestingIBU, InProgressTypes, CompletedTypes
  <1>10. CASE ibu.stage = "Idle" /\ c["Idle"] \in {"Aborting", "AbortFailed"}
    BY <1>1, <1>2, <1>3, <1>4, <1>8, <1>10, Types DEF InProgressTypes, CompletedTypes
  <1>11. CASE ibu.stage = "Idle" /\ c["Idle"] \in {"None", "Blocked"}
    <2>1. d = enterIdle(e, FALSE) /\ d \in Conditions
      BY <1>1, <1>5, <1>6, <1>11, TransitionIs
    <2> HIDE DEF d, e
    <2>2. isFinalizeOrAbort(e, FALSE) =
            IF c["Idle"] = "None" \/ e["RollbackInProgress"] = "Blocked" THEN "None" ELSE "Aborting"
      BY <1>2, <1>7, <1>11, Types DEF isFinalizeOrAbort, IsTrue, IsFalse, InProgressTypes,
           CompletedTypes
    <2>3. CASE c["Idle"] = "None"
      <3>1. d = ResetStatusConditions(e)
        BY <1>7, <2>1, <2>2, <2>3 DEF enterIdle
      <3>2. d["Idle"] = "Idle" /\ \A t \in ConditionTypes \ {"Idle"} : d[t] = "None"
        BY <3>1, Types DEF ResetStatusConditions, NoConditions
      <3>3. GetInProgressStage(d) = "None"
        BY <3>2, Types DEF GetInProgressStage, IsStageInProgress, IsTrue, IdleInProgressReasons,
             InProgressTypes, CompletedTypes
      <3> QED BY <1>4, <1>8, <1>11, <2>1, <2>3, <3>2, <3>3, Types DEF InProgressTypes, CompletedTypes
    <2>4. CASE c["Idle"] = "Blocked" /\ e["RollbackInProgress"] = "Blocked"
      <3>1. d = e
        BY <1>7, <2>1, <2>2, <2>4 DEF enterIdle
      <3>2. GetInProgressStage(e) = "None"
        BY <1>2, <1>7, <2>4, Types DEF GetInProgressStage, IsStageInProgress, IsTrue,
             IdleInProgressReasons, InProgressTypes, CompletedTypes
      <3>3. /\ \A t \in InProgressTypes : d[t] \in {"None", "InvalidTransition", "Blocked"}
            /\ \A t \in CompletedTypes : d[t] = "None"
            /\ \A t \in ConditionTypes : d[t] = "Blocked" => c[t] = "Blocked"
        BY <1>2, <1>7, <2>4, <3>1, Types DEF InProgressTypes, CompletedTypes
      <3>4. ibuEntered = d
        BY <1>4, <1>8, <1>11, <2>4
      <3> HIDE DEF c, requested
      <3> QED BY <1>7, <1>11, <2>1, <2>4, <3>1, <3>2, <3>3, <3>4 DEF c
    <2>5. CASE c["Idle"] = "Blocked" /\ e["RollbackInProgress"] # "Blocked"
      <3>1. d = [e EXCEPT !["Idle"] = "Aborting"]
        BY <2>1, <2>2, <2>5 DEF enterIdle, SetCondition
      <3>2. d["Idle"] = "Aborting" /\ \A t \in ConditionTypes \ {"Idle"} : d[t] = e[t]
        BY <1>7, <3>1, Types DEF Conditions
      <3>3. GetInProgressStage(d) = "Idle"
        BY <3>2, Types DEF GetInProgressStage, IsStageInProgress, IdleInProgressReasons
      <3>4. /\ \A t \in InProgressTypes : d[t] \in {"None", "InvalidTransition", "Blocked"}
            /\ \A t \in CompletedTypes : d[t] = "None"
            /\ \A t \in ConditionTypes : d[t] = "Blocked" => c[t] = "Blocked"
        BY <1>2, <1>7, <2>5, <3>2, Types DEF InProgressTypes, CompletedTypes
      <3>5. ibuEntered = d
        BY <1>4, <1>8, <1>11, <2>5
      <3> HIDE DEF c, requested
      <3> QED BY <1>11, <2>1, <3>2, <3>3, <3>4, <3>5 DEF c
    <2> QED BY <1>11, <2>3, <2>4, <2>5
  <1>12. CASE ibu.stage # "Idle" /\ c["Idle"] = "None"
    <2>1. ~transitionAllowed(c, ibu.stage, FALSE) /\ requested
      BY <1>4, <1>5, <1>6, <1>12
    <2>2. /\ d \in Conditions
          /\ d[GetInProgressConditionType(ibu.stage)] = "InvalidTransition"
          /\ \A t \in ConditionTypes \ {GetInProgressConditionType(ibu.stage)} : d[t] = c[t]
          /\ GetInProgressConditionType(ibu.stage) \in InProgressTypes
      <3>1. GetInProgressConditionType(ibu.stage) \in InProgressTypes
        BY <1>1, <1>12, Types DEF Stages, InProgressTypes
      <3> QED BY <1>1, <2>1, <3>1, TransitionIs
    <2> HIDE DEF d, requested
    <2>3. /\ d["Idle"] = "None"
          /\ d["PrepInProgress"] \in {"InvalidTransition", c["PrepInProgress"]}
          /\ d["UpgradeInProgress"] \in {"InvalidTransition", c["UpgradeInProgress"]}
          /\ d["RollbackInProgress"] \in {"InvalidTransition", c["RollbackInProgress"]}
          /\ d["PrepCompleted"] = "None" /\ d["UpgradeCompleted"] = "None" /\ d["RollbackCompleted"] = "None"
      BY <1>2, <1>12, <2>2, Types DEF InProgressTypes
    <2>4. GetInProgressStage(d) = "None"
      BY <1>2, <2>3, Types DEF GetInProgressStage, IsStageInProgress, IsTrue, IdleInProgressReasons,
           InProgressTypes, CompletedTypes
    <2> QED BY <1>2, <1>8, <2>1, <2>2, <2>3, <2>4, Types DEF InProgressTypes, CompletedTypes
  <1>13. CASE ibu.stage # "Idle" /\ c["Idle"] # "None"
    <2>1. /\ ibu.stage = "Prep" /\ c["Idle"] \in {"Idle", "Blocked"}
          /\ c["UpgradeInProgress"] # "Blocked" /\ c["RollbackInProgress"] # "Blocked"
      BY <1>1, <1>2, <1>13 DEF RestingIBU, CleansIBU, Stages, IdleInProgressReasons
    <2>2. transitionAllowed(c, ibu.stage, FALSE) /\ requested
      BY <1>4, <1>5, <1>6, <2>1
    <2>3. /\ d \in Conditions /\ d["Idle"] = "InProgress" /\ d["PrepInProgress"] = "InProgress"
          /\ \A t \in ConditionTypes \ {"Idle", "PrepInProgress"} : d[t] = e[t]
      BY <1>1, <2>1, <2>2, TransitionIs
    <2> HIDE DEF d, e
    <2>4. GetInProgressStage(d) = "Prep"
      BY <2>3, Types DEF GetInProgressStage, IsStageInProgress, IsTrue, IdleInProgressReasons,
           InProgressTypes
    <2>5. \A t \in ConditionTypes : d[t] # "Blocked"
      BY <1>2, <1>7, <2>1, <2>3, Types
    <2> QED BY <1>8, <2>1, <2>2, <2>3, <2>4, <2>5
  <1> QED BY <1>1, <1>2, <1>9, <1>10, <1>11, <1>12, <1>13

\* Only the stage Idle is cleaned up.
LEMMA EnteredCleanup ==
    ASSUME ibu \in IBUs, ibuPivoted \in BOOLEAN, CleansIBU(ibu)
    PROVE  ibuEntered["Idle"] \in IdleInProgressReasons => ibu.stage = "Idle"
  <1> DEFINE c == ibu.conds
             e == ClearInvalidTransitionStatusConditions(c)
             d == validateStageTransition(c, ibu.stage, ibuPivoted)
  <1>1. c \in Conditions /\ ibu.stage \in Stages
    BY DEF IBUs
  <1>2. e["Idle"] \in {c["Idle"], "InProgress"}
    BY <1>1, ClearedIs, Types
  <1>3. CASE ~isTransitionRequested(c, ibu.stage)
    BY <1>3 DEF ibuEntered, CleansIBU
  <1>4. CASE isTransitionRequested(c, ibu.stage) /\ ibu.stage # "Idle"
    <2>1. ibuEntered = d
      BY <1>4 DEF ibuEntered
    <2>2. GetInProgressConditionType(ibu.stage) # "Idle"
      BY <1>1, <1>4, Types DEF Stages
    <2>3. d["Idle"] \in {c["Idle"], e["Idle"], "InProgress"}
      <3>1. CASE ~transitionAllowed(c, ibu.stage, ibuPivoted)
        BY <1>1, <2>2, <3>1, TransitionIs, Types
      <3>2. CASE transitionAllowed(c, ibu.stage, ibuPivoted)
        BY <1>1, <1>4, <3>2, TransitionIs, Types DEF Stages
      <3> QED BY <3>1, <3>2
    <2> QED BY <1>2, <1>4, <2>1, <2>3 DEF CleansIBU, IdleInProgressReasons
  <1> QED BY <1>3, <1>4

\* After a handler of the IBU the flow is on and the CR not Blocked, or the CR is
\* at rest; the IPConfig is as quiet as before.
LEMMA SettlesIBU ==
    ASSUME TypeOK, Patient, lock = "ibu", lock' = "free", UNCHANGED <<ipcPivoted, ipcWork>>,
           CleansIBU(ibu'), RestingIPC(ipc'), CleansIPC(ipc'), IPCQuiet(ipc'),
           \/ ibuWork' /\ WorkingIBU(ibu') /\ ibu' \in IBUs
           \/ /\ ~ibuWork' /\ ~ibuPivoted' /\ RestingIBU(ibu') /\ ipc' = ipc
              /\ IsIBUStatusBlocked(ibu') => IsIBUStatusBlocked(ibu),
           ibuPivoted' =>
             /\ RestingIPC(shadow'.ipc) /\ IPCQuiet(shadow'.ipc) /\ CleansIPC(shadow'.ipc)
    PROVE  Patient'
  <1>1. ~ipcWork /\ ~ipcPivoted
    BY DEF Patient, IPCInv
  <1>2. CleanupInv'
    BY DEF CleanupInv
  <1>3. IBUInv'
    BY <1>1 DEF IBUInv
  <1>4. IPCInv'
    BY <1>1 DEF IPCInv
  <1>5. NoMutualBlock'
    <2>1. CASE ibuWork' /\ WorkingIBU(ibu') /\ ibu' \in IBUs
      <3>1. GetInProgressConditionType(ibu'.stage) \in ConditionTypes
        BY <2>1, Types DEF IBUs, Stages
      <3> QED BY <2>1, <3>1 DEF NoMutualBlock, IsIBUStatusBlocked, WorkingIBU
    <2>2. CASE ~ibuWork'
      BY <2>2 DEF NoMutualBlock, Patient
    <2> QED BY <2>1, <2>2
  <1> QED BY <1>2, <1>3, <1>4, <1>5 DEF Patient

\* An outcome with the flow on.
LEMMA OutcomeWorking ==
    ASSUME TypeOK, Patient, lock = "ibu", lock' = "free", NEW d \in Conditions,
           \A t \in ConditionTypes : d[t] # "Blocked", d["Idle"] \notin {"Idle", "None"},
           d["Idle"] \in IdleInProgressReasons => ibu.stage = "Idle",
           ibuWork \/ ~stale, IBUOutcome(d, ibuPivoted, TRUE)
    PROVE  Patient'
  <1> DEFINE y == WithNext([ibu EXCEPT !.conds = d], ibuPivoted)
  <1>1. /\ y \in IBUs /\ y.stage = ibu.stage /\ y.conds = d
        /\ d["Idle"] \in IdleInProgressReasons => y.next = {}
    BY NextOf DEF TypeOK
  <1> HIDE DEF y
  <1>2. ibu' = IF stale THEN ibu ELSE y
    BY DEF IBUOutcome, StoreIBU, y
  <1>3. /\ RestingIPC(ipc) /\ CleansIPC(ipc) /\ IPCQuiet(ipc) /\ CleansIBU(ibu)
        /\ ibuPivoted => RestingIPC(shadow.ipc) /\ IPCQuiet(shadow.ipc) /\ CleansIPC(shadow.ipc)
        /\ ibuWork => WorkingIBU(ibu)
    BY DEF Patient, CleanupInv, IBUInv, IPCInv
  <1>4. WorkingIBU(ibu') /\ CleansIBU(ibu') /\ ibu' \in IBUs
    BY <1>1, <1>2, <1>3 DEF WorkingIBU, CleansIBU, TypeOK
  <1> QED BY <1>3, <1>4, SettlesIBU DEF IBUOutcome

\* An outcome with the CR at rest.
LEMMA OutcomeResting ==
    ASSUME TypeOK, Patient, lock = "ibu", lock' = "free", NEW d \in Conditions, ~ibuWork,
           stale \/ RestingIBU(WithNext([ibu EXCEPT !.conds = d], FALSE)),
           d["Idle"] \in IdleInProgressReasons => ibu.stage = "Idle",
           \A t \in ConditionTypes : d[t] = "Blocked" => ibu.conds[t] = "Blocked",
           IBUOutcome(d, ibuPivoted, ibuWork)
    PROVE  Patient'
  <1> DEFINE y == WithNext([ibu EXCEPT !.conds = d], FALSE)
  <1>1. /\ y \in IBUs /\ y.stage = ibu.stage /\ y.conds = d
        /\ d["Idle"] \in IdleInProgressReasons => y.next = {}
    BY NextOf DEF TypeOK
  <1>3. /\ RestingIPC(ipc) /\ CleansIPC(ipc) /\ IPCQuiet(ipc) /\ CleansIBU(ibu)
        /\ ibuPivoted = FALSE /\ RestingIBU(ibu)
    BY DEF Patient, CleanupInv, IBUInv, IPCInv, TypeOK
  <1>2. ibu' = IF stale THEN ibu ELSE y
    BY <1>3 DEF IBUOutcome, StoreIBU
  <1>4. stale \/ RestingIBU(y)
    OBVIOUS
  <1> HIDE DEF y
  <1>5. GetInProgressConditionType(ibu.stage) \in ConditionTypes
    BY Types DEF TypeOK, IBUs, Stages
  <1>6. RestingIBU(ibu') /\ CleansIBU(ibu')
    BY <1>1, <1>2, <1>3, <1>4 DEF CleansIBU
  <1>7. IsIBUStatusBlocked(ibu') => IsIBUStatusBlocked(ibu)
    BY <1>1, <1>2, <1>5 DEF IsIBUStatusBlocked
  <1> QED BY <1>3, <1>6, <1>7, SettlesIBU DEF IBUOutcome

\* The end of a cleanup.
LEMMA OutcomeReset ==
    ASSUME TypeOK, Patient, lock = "ibu", lock' = "free", NEW c, ibu.stage = "Idle", ~stale,
           IBUOutcome(ResetStatusConditions(c), FALSE, FALSE)
    PROVE  Patient'
  <1> DEFINE d == ResetStatusConditions(c)
             y == WithNext([ibu EXCEPT !.conds = d], FALSE)
  <1>1. d \in Conditions /\ d["Idle"] = "Idle" /\ \A t \in ConditionTypes \ {"Idle"} : d[t] = "None"
    BY Types DEF ResetStatusConditions, NoConditions, Conditions, ConditionReasons
  <1> HIDE DEF d
  <1>2. y.stage = "Idle" /\ y.conds = d /\ y.next = getValidNextStageList(d, "Idle", FALSE)
    <2>1. y.stage = ibu.stage /\ y.conds = d /\ y.next = getValidNextStageList(d, ibu.stage, FALSE)
      BY <1>1, NextOf DEF TypeOK
    <2> HIDE DEF y
    <2> QED BY <2>1
  <1>3. getValidNextStageList(d, "Idle", FALSE) = {"Prep"}
    BY <1>1, Types DEF getValidNextStageList, GetInProgressStage, IsStageInProgress, IsStageFailed,
         IsStageCompleted, IsTrue, IsFalse, IdleInProgressReasons, InProgressTypes, CompletedTypes
  <1>4. ibu' = y
    BY DEF IBUOutcome, StoreIBU, d
  <1> HIDE DEF y
  <1>5. RestingIBU(ibu') /\ CleansIBU(ibu') /\ ~IsIBUStatusBlocked(ibu')
    BY <1>1, <1>2, <1>3, <1>4, Types DEF RestingIBU, CleansIBU, IsIBUStatusBlocked,
         IdleInProgressReasons, InProgressTypes, CompletedTypes
  <1>6. RestingIPC(ipc) /\ CleansIPC(ipc) /\ IPCQuiet(ipc)
    BY DEF Patient, CleanupInv, IBUInv, IPCInv
  <1> QED BY <1>5, <1>6, SettlesIBU DEF IBUOutcome

\* The pivot of an upgrade and of its rollback.
LEMMA PivotsIBU ==
    ASSUME TypeOK, Patient, lock = "ibu", lock' = "free", ibuWork, UNCHANGED <<ibuWork, ipcPivoted, ipcWork>>,
           NEW c \in Conditions, \A t \in ConditionTypes : c[t] # "Blocked",
           c["Idle"] \notin {"Idle", "None"} \cup IdleInProgressReasons,
           \/ ibuPivoted' /\ Pivot([ibu EXCEPT !.conds = c], NewIPC)
           \/ ibuPivoted /\ ~ibuPivoted' /\ Pivot([ibu EXCEPT !.conds = c], shadow.ipc)
    PROVE  Patient'
  <1> DEFINE y == [ibu EXCEPT !.conds = c]
  <1>1. y \in IBUs /\ y.conds = c
    BY DEF TypeOK, IBUs
  <1> HIDE DEF y
  <1>2. ibu' = y /\ shadow'.ipc = ipc
    BY DEF Pivot, y
  <1>3. WorkingIBU(ibu') /\ CleansIBU(ibu') /\ ibu' \in IBUs
    BY <1>1, <1>2 DEF WorkingIBU, CleansIBU
  <1>4. RestingIPC(NewIPC) /\ CleansIPC(NewIPC) /\ IPCQuiet(NewIPC)
    BY IPTypes DEF RestingIPC, CleansIPC, IPCQuiet, NewIPC, NoIPConditions
  <1>5. /\ RestingIPC(ipc) /\ CleansIPC(ipc) /\ IPCQuiet(ipc)
        /\ ibuPivoted => RestingIPC(shadow.ipc) /\ IPCQuiet(shadow.ipc) /\ CleansIPC(shadow.ipc)
    BY DEF Patient, CleanupInv, IBUInv, IPCInv
  <1>6. RestingIPC(ipc') /\ CleansIPC(ipc') /\ IPCQuiet(ipc')
    BY <1>4, <1>5 DEF Pivot
  <1> QED BY <1>2, <1>3, <1>5, <1>6, SettlesIBU

\* What a handler reports of its stage.
LEMMA Reports ==
    ASSUME NEW c \in Conditions, NEW stage \in {"Prep", "Upgrade", "Rollback"},
           NEW d \in {SetStatusCompleted(c, stage), SetStatusFailed(c, stage)}
    PROVE  /\ d \in Conditions /\ d["Idle"] = c["Idle"]
           /\ \A t \in ConditionTypes : d[t] \in {c[t], "Completed", "Failed"}
  BY Types DEF SetStatusCompleted, SetStatusFailed, Conditions, ConditionReasons

\* The handlers of the IBU.
LEMMA HandleIBUStep ==
    ASSUME TypeOK, Patient, HandleIBU
    PROVE  Patient'
  <1> DEFINE c == ibuEntered
             stage == GetInProgressStage(c)
             requested == isTransitionRequested(ibu.conds, ibu.stage)
  <1>1. /\ lock = "ibu" /\ lock' = "free"
        /\ ibu \in IBUs /\ ibuPivoted \in BOOLEAN /\ ibuWork \in BOOLEAN
        /\ CleansIBU(ibu)
        /\ stale => ibu.conds["Idle"] \notin IdleInProgressReasons
    BY DEF HandleIBU, TypeOK, Patient, CleanupInv
  <1>2. c["Idle"] \in IdleInProgressReasons => ibu.stage = "Idle"
    BY <1>1, EnteredCleanup
  <1>3. ~requested => c = ibu.conds
    BY DEF ibuEntered
  <1>4. IF stage = "None" \/ (stale /\ requested) THEN IBUOutcome(c, ibuPivoted, ibuWork)
                                                  ELSE IBUStageHandler(stage)
    BY DEF HandleIBU
  <1>5. CASE ibuWork
    <2>1. /\ c \in Conditions /\ \A t \in ConditionTypes : c[t] # "Blocked"
          /\ c["Idle"] \notin {"Idle", "None"}
      BY <1>1, <1>5, EnteredWorking DEF Patient, IBUInv
    <2>2. /\ stage = "Idle" <=> c["Idle"] \in IdleInProgressReasons
          /\ stage \in Stages \cup {"None"}
      BY <2>1, InProgress
    <2> HIDE DEF c, stage, requested
    <2>3. CASE stage = "None" \/ (stale /\ requested)
      <3>1. IBUOutcome(c, ibuPivoted, TRUE)
        BY <1>4, <1>5, <2>3
      <3> QED BY <1>1, <1>2, <1>5, <2>1, <3>1, OutcomeWorking
    <2>4. CASE ~(stage = "None" \/ (stale /\ requested)) /\ stage \in {"Prep", "Upgrade", "Rollback"}
      <3>1. ASSUME NEW d \in {c, SetStatusCompleted(c, stage), SetStatusFailed(c, stage)},
                   IBUOutcome(d, ibuPivoted, TRUE)
            PROVE  Patient'
        <4>1. /\ d \in Conditions /\ d["Idle"] = c["Idle"]
              /\ \A t \in ConditionTypes : d[t] \in {c[t], "Completed", "Failed"}
          BY <2>1, <2>4, <3>1, Reports
        <4>2. \A t \in ConditionTypes : d[t] # "Blocked"
          BY <2>1, <4>1
        <4> QED BY <1>1, <1>2, <1>5, <2>1, <3>1, <4>1, <4>2, OutcomeWorking
      <3>2. \/ \E d \in {c, SetStatusCompleted(c, stage), SetStatusFailed(c, stage)} :
                  IBUOutcome(d, ibuPivoted, TRUE)
            \/ /\ UNCHANGED <<ibuWork, ipcPivoted, ipcWork>>
               /\ \/ ibuPivoted' /\ Pivot([ibu EXCEPT !.conds = c], NewIPC)
                  \/ ibuPivoted /\ ~ibuPivoted' /\ Pivot([ibu EXCEPT !.conds = c], shadow.ipc)
        BY <1>4, <1>5, <2>4 DEF IBUStageHandler, c
      <3> QED BY <1>1, <1>5, <2>1, <2>2, <2>4, <3>1, <3>2, PivotsIBU
    <2>5. CASE ~(stage = "None" \/ (stale /\ requested)) /\ stage = "Idle"
      <3>1. c["Idle"] \in IdleInProgressReasons /\ ibu.stage = "Idle" /\ ~stale
        BY <1>1, <1>2, <1>3, <2>2, <2>5
      <3>2. CASE IBUOutcome(c, ibuPivoted, ibuWork)
        BY <1>1, <1>5, <2>1, <3>1, <3>2, OutcomeWorking
      <3>3. CASE IBUOutcome(ResetStatusConditions(c), FALSE, FALSE)
        BY <1>1, <3>1, <3>3, OutcomeReset
      <3>4. ASSUME NEW reason \in {"AbortFailed", "FinalizeFailed"},
                   IBUOutcome(SetCondition(c, "Idle", reason), ibuPivoted, ibuWork)
            PROVE  Patient'
        <4> DEFINE d == SetCondition(c, "Idle", reason)
        <4>1. /\ d \in Conditions /\ d["Idle"] = reason
              /\ \A t \in ConditionTypes : d[t] # "Blocked"
          BY <2>1, Types DEF SetCondition, Conditions, ConditionReasons
        <4>2. IBUOutcome(d, ibuPivoted, TRUE)
          BY <1>5, <3>4
        <4> HIDE DEF d
        <4> QED BY <1>1, <1>5, <3>1, <4>1, <4>2, OutcomeWorking
      <3>5. \/ IBUOutcome(c, ibuPivoted, ibuWork)
            \/ IBUOutcome(ResetStatusConditions(c), FALSE, FALSE)
            \/ \E reason \in {"AbortFailed", "FinalizeFailed"} :
                  IBUOutcome(SetCondition(c, "Idle", reason), ibuPivoted, ibuWork)
        BY <1>4, <2>5 DEF IBUStageHandler, c
      <3> QED BY <3>2, <3>3, <3>4, <3>5
    <2>6. stage \in {"None", "Idle", "Prep", "Upgrade", "Rollback"}
      BY <2>2 DEF Stages
    <2> QED BY <2>3, <2>4, <2>5, <2>6
  <1>6. CASE ~ibuWork
    <2>1. ibuPivoted = FALSE /\ RestingIBU(ibu)
      BY <1>1, <1>6 DEF Patient, IBUInv
    <2>2. /\ c \in Conditions
          /\ \/ /\ stage = "None"
                /\ \A t \in InProgressTypes : c[t] \in {"None", "InvalidTransition", "Blocked"}
                /\ \A t \in CompletedTypes : c[t] = "None"
                /\ \/ /\ c["Idle"] = "Idle" /\ ibu.stage = "Idle"
                      /\ \A t \in InProgressTypes : c[t] = "None"
                   \/ c["Idle"] = "None"
                   \/ c["Idle"] = "Blocked" /\ ibu.stage = "Idle"
             \/ /\ stage = "Idle" /\ ibu.stage = "Idle"
                /\ c["Idle"] \in {"Aborting", "AbortFailed"}
                /\ \A t \in InProgressTypes : c[t] \in {"None", "InvalidTransition", "Blocked"}
                /\ \A t \in CompletedTypes : c[t] = "None"
             \/ /\ stage = "Prep" /\ ibu.stage = "Prep" /\ requested
                /\ c["Idle"] = "InProgress" /\ \A t \in ConditionTypes : c[t] # "Blocked"
          /\ \A t \in ConditionTypes : c[t] = "Blocked" => ibu.conds[t] = "Blocked"
      BY <1>1, <2>1, EnteredResting
    <2> HIDE DEF c, stage, requested
    <2>3. CASE stage = "None" \/ (stale /\ requested)
      <3>1. IBUOutcome(c, ibuPivoted, ibuWork)
        BY <1>4, <2>3
      <3>2. CASE stale
        BY <1>1, <1>2, <1>6, <2>2, <3>1, <3>2, OutcomeResting
      <3>3. CASE ~stale
        <4> DEFINE y == WithNext([ibu EXCEPT !.conds = c], FALSE)
        <4>1. y.stage = ibu.stage /\ y.conds = c /\ y.next = getValidNextStageList(c, ibu.stage, FALSE)
          BY <1>1, <2>2, NextOf
        <4>2. /\ stage = "None"
              /\ \A t \in InProgressTypes : c[t] \in {"None", "InvalidTransition", "Blocked"}
              /\ \A t \in CompletedTypes : c[t] = "None"
              /\ \/ /\ c["Idle"] = "Idle" /\ ibu.stage = "Idle"
                    /\ \A t \in InProgressTypes : c[t] = "None"
                 \/ c["Idle"] = "None"
                 \/ c["Idle"] = "Blocked" /\ ibu.stage = "Idle"
          BY <2>2, <2>3, <3>3
        <4>3. getValidNextStageList(c, ibu.stage, FALSE) = IF c["Idle"] = "Idle" THEN {"Prep"} ELSE {"Idle"}
          <5>1. /\ c["PrepCompleted"] = "None" /\ c["UpgradeCompleted"] = "None"
                /\ c["RollbackCompleted"] = "None"
            BY <4>2 DEF CompletedTypes
          <5> QED BY <4>2, <5>1, Types DEF getValidNextStageList, IsStageFailed, IsStageCompleted,
               IsFalse, IsTrue, InProgressTypes, CompletedTypes, stage
        <4> HIDE DEF y
        <4>4. RestingIBU(y)
          <5>1. CASE c["Idle"] = "Idle"
            BY <4>1, <4>2, <4>3, <5>1 DEF RestingIBU, InProgressTypes
          <5>2. CASE c["Idle"] \in {"None", "Blocked"}
            <6>1. y.next = {"Idle"} /\ (y.stage \in {"Upgrade", "Rollback"} => c["Idle"] = "None")
              BY <4>1, <4>2, <4>3, <5>2
            <6> QED BY <4>1, <4>2, <5>2, <6>1 DEF RestingIBU
          <5> QED BY <4>2, <5>1, <5>2
        <4> QED BY <1>1, <1>2, <1>6, <2>2, <3>1, <4>4, OutcomeResting DEF y
      <3> QED BY <3>2, <3>3
    <2>4. CASE ~(stage = "None" \/ (stale /\ requested)) /\ stage = "Prep"
      <3>1. ~stale /\ c["Idle"] = "InProgress" /\ \A t \in ConditionTypes : c[t] # "Blocked"
        BY <2>2, <2>4
      <3>2. \E d \in {c, SetStatusCompleted(c, stage), SetStatusFailed(c, stage)} :
               IBUOutcome(d, ibuPivoted, TRUE)
        BY <1>4, <2>4 DEF IBUStageHandler, c
      <3>3. PICK d \in {c, SetStatusCompleted(c, stage), SetStatusFailed(c, stage)} :
               IBUOutcome(d, ibuPivoted, TRUE)
        BY <3>2
      <3>4. /\ d \in Conditions /\ d["Idle"] = c["Idle"]
            /\ \A t \in ConditionTypes : d[t] \in {c[t], "Completed", "Failed"}
        BY <2>2, <2>4, Reports
      <3>5. \A t \in ConditionTypes : d[t] # "Blocked"
        BY <3>1, <3>4
      <3> QED BY <1>1, <3>1, <3>3, <3>4, <3>5, OutcomeWorking DEF IdleInProgressReasons
    <2>5. CASE ~(stage = "None" \/ (stale /\ requested)) /\ stage = "Idle"
      <3>1. /\ ibu.stage = "Idle" /\ c["Idle"] \in {"Aborting", "AbortFailed"}
            /\ \A t \in InProgressTypes : c[t] \in {"None", "InvalidTransition", "Blocked"}
            /\ \A t \in CompletedTypes : c[t] = "None"
        BY <2>2, <2>5
      <3>2. ~stale
        BY <1>1, <1>3, <2>5, <3>1 DEF IdleInProgressReasons
      <3>3. ASSUME NEW reason \in {"Aborting", "AbortFailed"},
                   IBUOutcome(SetCondition(c, "Idle", reason), ibuPivoted, ibuWork)
            PROVE  Patient'
        <4> DEFINE d == SetCondition(c, "Idle", reason)
                   y == WithNext([ibu EXCEPT !.conds = d], FALSE)
        <4>1. /\ d \in Conditions /\ d["Idle"] = reason
              /\ \A t \in ConditionTypes \ {"Idle"} : d[t] = c[t]
          BY <2>2, Types DEF SetCondition, Conditions, ConditionReasons
        <4> HIDE DEF d
        <4>2. y.stage = ibu.stage /\ y.conds = d /\ y.next = {}
          BY <1>1, <4>1, NextOf DEF IdleInProgressReasons
        <4> HIDE DEF y
        <4>3. RestingIBU(y)
          BY <3>1, <4>1, <4>2, Types DEF RestingIBU, InProgressTypes, CompletedTypes
        <4>4. \A t \in ConditionTypes : d[t] = "Blocked" => ibu.conds[t] = "Blocked"
          BY <2>2, <4>1
        <4>5. IBUOutcome(d, ibuPivoted, ibuWork)
          BY <3>3 DEF d
        <4> QED BY <1>1, <1>6, <3>1, <4>1, <4>3, <4>4, <4>5, OutcomeResting DEF y
      <3>4. CASE IBUOutcome(c, ibuPivoted, ibuWork)
        <4>1. c = SetCondition(c, "Idle", c["Idle"])
          BY <2>2 DEF SetCondition, Conditions
        <4> QED BY <3>1, <3>3, <3>4, <4>1
      <3>5. CASE IBUOutcome(ResetStatusConditions(c), FALSE, FALSE)
        BY <1>1, <3>1, <3>2, <3>5, OutcomeReset
      <3>6. \/ IBUOutcome(c, ibuPivoted, ibuWork)
            \/ IBUOutcome(ResetStatusConditions(c), FALSE, FALSE)
            \/ IBUOutcome(SetCondition(c, "Idle", "AbortFailed"), ibuPivoted, ibuWork)
        BY <1>4, <2>5, <3>1 DEF IBUStageHandler, c
      <3> QED BY <3>3, <3>4, <3>5, <3>6
    <2>6. stage \in {"None", "Idle", "Prep"}
      BY <2>2
    <2> QED BY <2>3, <2>4, <2>5, <2>6
  <1> QED BY <1>1, <1>5, <1>6

-----------------------------------------------------------------------------
(* The IPConfig. *)

\* What follows a CR at rest.
LEMMA RestingNext ==
    ASSUME NEW d \in IPConditions, NEW stage \in IPStages,
           d["RollbackInProgress"] # "InProgress", d["RollbackCompleted"] = "None",
           d["ConfigCompleted"] \in {"None", "Completed"}
    PROVE  LET next == validIPNextStages(d, stage, FALSE) IN
           /\ next \subseteq {"Idle", "Config", stage}
           /\ d["Idle"] # "Blocked" => next \subseteq {"Idle", "Config"}
           /\ "Config" \in next => d["Idle"] = "Idle" \/ (d["Idle"] = "Blocked" /\ stage = "Config")
           /\ d["Idle"] = "Idle" /\ d["ConfigInProgress"] # "InProgress" /\ d["ConfigCompleted"] = "None"
                => next = {"Config"}
  BY IPTypes DEF validIPNextStages, GetIPInProgressStage, IsIPStageInProgress, IsIPStageFailed,
       IsIPStageCompleted, IPIsTrue, IPInProgressTypes, IPCompletedTypes

\* Updating the valid next stages changes nothing else.
LEMMA IPNextOf ==
    ASSUME NEW x \in IPCs, NEW c \in IPConditions, NEW p \in BOOLEAN
    PROVE  LET y == WithIPNext([x EXCEPT !.conds = c], p) IN
           /\ y \in IPCs
           /\ y.stage = x.stage /\ y.conds = c
           /\ y.next = validIPNextStages(c, x.stage, p)
           /\ c["Idle"] = "InProgress" => y.next = {"Idle"}
  <1> DEFINE z == [x EXCEPT !.conds = c]
  <1>1. z \in IPCs /\ z.stage = x.stage /\ z.conds = c
    BY DEF IPCs
  <1>2. validIPNextStages(c, x.stage, p) \subseteq IPStages
    BY DEF validIPNextStages, IPStages, IPCs
  <1>3. c["Idle"] = "InProgress" => validIPNextStages(c, x.stage, p) = {"Idle"}
    BY IPTypes DEF validIPNextStages, GetIPInProgressStage, IsIPStageInProgress
  <1> HIDE DEF z
  <1> QED BY <1>1, <1>2, <1>3 DEF WithIPNext, IPCs, z

\* The conditions of a CR at rest.
RestingConds(d, stage) ==
    /\ d["RollbackInProgress"] \in {"None", "InvalidTransition", "Blocked"}
    /\ d["RollbackCompleted"] = "None" /\ d["ConfigCompleted"] \in {"None", "Completed"}
    /\ d["Idle"] = "Idle" =>
         /\ stage \in {"Idle", "Config"}
         /\ d["RollbackInProgress"] = "None" /\ d["ConfigCompleted"] = "None"
         /\ d["ConfigInProgress"] \in {"None", "Blocked"}
         /\ stage = "Idle" => d["ConfigInProgress"] = "None"
    /\ d["Idle"] = "Blocked" => stage = "Idle"
    /\ stage = "Config" /\ d["ConfigInProgress"] = "InProgress" =>
         d["Idle"] \notin {"None", "Idle", "Blocked"} /\ d["RollbackInProgress"] # "Blocked"

\* With those, and the stages that follow them, it is one.
LEMMA RestingAfter ==
    ASSUME NEW x \in IPCs, NEW d \in IPConditions, RestingConds(d, x.stage)
    PROVE  RestingIPC(WithIPNext([x EXCEPT !.conds = d], FALSE))
  <1> DEFINE y == WithIPNext([x EXCEPT !.conds = d], FALSE)
             next == validIPNextStages(d, x.stage, FALSE)
  <1>1. y.stage = x.stage /\ y.conds = d /\ y.next = next
    BY IPNextOf
  <1>2. /\ next \subseteq {"Idle", "Config", x.stage}
        /\ d["Idle"] # "Blocked" => next \subseteq {"Idle", "Config"}
        /\ "Config" \in next => d["Idle"] = "Idle" \/ (d["Idle"] = "Blocked" /\ x.stage = "Config")
        /\ d["Idle"] = "Idle" /\ d["ConfigInProgress"] # "InProgress" /\ d["ConfigCompleted"] = "None"
             => next = {"Config"}
    BY RestingNext DEF IPCs, RestingConds
  <1> HIDE DEF next, y
  <1>3. "Config" \in next => d["Idle"] = "Idle"
    BY <1>2 DEF RestingConds
  <1>4. d["Idle"] = "Blocked" => next \subseteq {"Idle"}
    BY <1>2, <1>3 DEF RestingConds
  <1>5. next \subseteq {"Idle", "Config"}
    BY <1>2, <1>4
  <1>6. d["Idle"] = "Idle" => next = {"Config"}
    BY <1>2 DEF RestingConds
  <1>7. RestingIPC(y)
    BY <1>1, <1>3, <1>4, <1>5, <1>6 DEF RestingIPC, RestingConds
  <1> QED BY <1>7 DEF y

\* What is entered.
LEMMA EnteredIPC ==
    ASSUME ipc \in IPCs
    PROVE  LET c == ipcEntered
               stage == ipc.stage
           IN
           /\ c \in IPConditions
           /\ ~ipcRequested => c = ipc.conds
           /\ ipcRequested =>
                /\ c[GetIPInProgressConditionType(stage)] = "InProgress"
                /\ stage = "Config" => c["Idle"] = "ConfigurationInProgress"
                /\ stage = "Rollback" => c["Idle"] \in {ipc.conds["Idle"], "ConfigurationInProgress"}
                /\ \A t \in IPConditionTypes \ {GetIPInProgressConditionType(stage), "Idle"} :
                      c[t] = IF ipc.conds[t] = "InvalidTransition" THEN "None" ELSE ipc.conds[t]
  <1> DEFINE c == ipcEntered
             d == ClearIPInvalidTransitionStatusConditions(ipc.conds)
  <1>1. ipc.conds \in IPConditions /\ ipc.stage \in IPStages
    BY DEF IPCs
  <1>2. /\ d \in IPConditions
        /\ d["Idle"] \in {ipc.conds["Idle"], "ConfigurationInProgress"}
        /\ \A t \in IPConditionTypes \ {"Idle"} :
              d[t] = IF ipc.conds[t] = "InvalidTransition" THEN "None" ELSE ipc.conds[t]
    BY <1>1, IPTypes DEF ClearIPInvalidTransitionStatusConditions, IPConditions, IPConditionReasons
  <1>3. c = CASE ~ipcRequested -> ipc.conds
              [] ipcRequested /\ ipc.stage = "Idle" -> [d EXCEPT !["Idle"] = "InProgress"]
              [] ipcRequested /\ ipc.stage = "Config" ->
                   [[d EXCEPT !["Idle"] = "ConfigurationInProgress"]
                       EXCEPT !["ConfigInProgress"] = "InProgress"]
              [] ipcRequested /\ ipc.stage = "Rollback" -> [d EXCEPT !["RollbackInProgress"] = "InProgress"]
    BY IPTypes DEF ipcEntered, SetIPCondition, SetIPStatusInProgress
  <1> HIDE DEF c, d
  <1>4. CASE ~ipcRequested
    BY <1>1, <1>3, <1>4 DEF c
  <1>5. CASE ipcRequested /\ ipc.stage = "Idle"
    <2>1. c = [d EXCEPT !["Idle"] = "InProgress"]
      BY <1>3, <1>5
    <2> QED BY <1>2, <1>5, <2>1, IPTypes DEF c, IPConditions, IPConditionReasons
  <1>6. CASE ipcRequested /\ ipc.stage = "Config"
    <2>1. c = [[d EXCEPT !["Idle"] = "ConfigurationInProgress"] EXCEPT !["ConfigInProgress"] = "InProgress"]
      BY <1>3, <1>6
    <2> QED BY <1>2, <1>6, <2>1, IPTypes DEF c, IPConditions, IPConditionReasons
  <1>7. CASE ipcRequested /\ ipc.stage = "Rollback"
    <2>1. c = [d EXCEPT !["RollbackInProgress"] = "InProgress"]
      BY <1>3, <1>7
    <2> QED BY <1>2, <1>7, <2>1, IPTypes DEF c, IPConditions, IPConditionReasons
  <1> QED BY <1>1, <1>4, <1>5, <1>6, <1>7 DEF IPStages

\* After a handler of the IPConfig the flow is on and the CR not Blocked, or the
\* CR is at rest; the IBU is as quiet as before.
LEMMA SettlesIPC ==
    ASSUME TypeOK, Patient, lock = "ipc", lock' = "free", UNCHANGED <<ibuPivoted, ibuWork>>,
           CleansIPC(ipc'), RestingIBU(ibu'), CleansIBU(ibu'), IBUQuiet(ibu'),
           \/ ipcWork' /\ WorkingIPC(ipc') /\ ipc' \in IPCs
           \/ /\ ~ipcWork' /\ ~ipcPivoted' /\ RestingIPC(ipc') /\ ibu' = ibu
              /\ IsIPConfigBlocked(ipc') => IsIPConfigBlocked(ipc),
           ipcPivoted' =>
             /\ RestingIBU(shadow'.ibu) /\ IBUQuiet(shadow'.ibu) /\ CleansIBU(shadow'.ibu)
    PROVE  Patient'
  <1>1. ~ibuWork /\ ~ibuPivoted
    BY DEF Patient, IBUInv
  <1>2. CleanupInv'
    BY DEF CleanupInv
  <1>3. IPCInv'
    BY <1>1 DEF IPCInv
  <1>4. IBUInv'
    BY <1>1 DEF IBUInv
  <1>5. NoMutualBlock'
    <2>1. CASE ipcWork' /\ WorkingIPC(ipc') /\ ipc' \in IPCs
      <3>1. GetIPInProgressConditionType(ipc'.stage) \in IPConditionTypes
        BY <2>1, IPTypes DEF IPCs, IPStages
      <3> QED BY <2>1, <3>1 DEF NoMutualBlock, IsIPConfigBlocked, IsIPCStatusBlocked, WorkingIPC
    <2>2. CASE ~ipcWork'
      BY <2>2 DEF NoMutualBlock, Patient
    <2> QED BY <2>1, <2>2
  <1> QED BY <1>2, <1>3, <1>4, <1>5 DEF Patient

\* An outcome with the flow on; a flow that begins with a refused status update
\* finds a CR without a Blocked condition.
LEMMA IPOutcomeWorking ==
    ASSUME TypeOK, Patient, lock = "ipc", lock' = "free", NEW d \in IPConditions,
           \A t \in IPConditionTypes : d[t] # "Blocked", d["Idle"] \notin {"Idle", "None"},
           d["Idle"] = "InProgress" => ipc.stage = "Idle",
           ipcWork \/ ~stale \/ WorkingIPC(ipc), IPCOutcome(d, ipcPivoted, TRUE)
    PROVE  Patient'
  <1> DEFINE y == WithIPNext([ipc EXCEPT !.conds = d], ipcPivoted)
  <1>1. /\ y \in IPCs /\ y.stage = ipc.stage /\ y.conds = d
        /\ d["Idle"] = "InProgress" => y.next = {"Idle"}
    BY IPNextOf DEF TypeOK
  <1> HIDE DEF y
  <1>2. ipc' = IF stale THEN ipc ELSE y
    BY DEF IPCOutcome, y
  <1>3. /\ RestingIBU(ibu) /\ CleansIBU(ibu) /\ IBUQuiet(ibu) /\ CleansIPC(ipc)
        /\ ipcPivoted => RestingIBU(shadow.ibu) /\ IBUQuiet(shadow.ibu) /\ CleansIBU(shadow.ibu)
        /\ ipcWork => WorkingIPC(ipc)
    BY DEF Patient, CleanupInv, IBUInv, IPCInv
  <1>4. WorkingIPC(ipc') /\ CleansIPC(ipc') /\ ipc' \in IPCs
    BY <1>1, <1>2, <1>3 DEF WorkingIPC, CleansIPC, TypeOK
  <1> QED BY <1>3, <1>4, SettlesIPC DEF IPCOutcome

\* An outcome with the CR at rest.
LEMMA IPOutcomeResting ==
    ASSUME TypeOK, Patient, lock = "ipc", lock' = "free", NEW d \in IPConditions, ~ipcWork,
           stale \/ RestingIPC(WithIPNext([ipc EXCEPT !.conds = d], FALSE)),
           d["Idle"] = "InProgress" => ipc.stage = "Idle",
           \A t \in IPConditionTypes : d[t] = "Blocked" => ipc.conds[t] = "Blocked",
           NEW p, p = FALSE, IPCOutcome(d, p, FALSE)
    PROVE  Patient'
  <1> DEFINE y == WithIPNext([ipc EXCEPT !.conds = d], FALSE)
  <1>1. /\ y \in IPCs /\ y.stage = ipc.stage /\ y.conds = d
        /\ d["Idle"] = "InProgress" => y.next = {"Idle"}
    BY IPNextOf DEF TypeOK
  <1>2. ipc' = IF stale THEN ipc ELSE y
    BY DEF IPCOutcome
  <1>3. /\ RestingIBU(ibu) /\ CleansIBU(ibu) /\ IBUQuiet(ibu) /\ CleansIPC(ipc)
        /\ RestingIPC(ipc)
    BY DEF Patient, CleanupInv, IBUInv, IPCInv, TypeOK
  <1>4. stale \/ RestingIPC(y)
    OBVIOUS
  <1> HIDE DEF y
  <1>5. GetIPInProgressConditionType(ipc.stage) \in IPConditionTypes
    BY IPTypes DEF TypeOK, IPCs, IPStages
  <1>6. RestingIPC(ipc') /\ CleansIPC(ipc')
    BY <1>1, <1>2, <1>3, <1>4 DEF CleansIPC
  <1>7. IsIPConfigBlocked(ipc') => IsIPConfigBlocked(ipc)
    BY <1>1, <1>2, <1>5 DEF IsIPConfigBlocked, IsIPCStatusBlocked
  <1> QED BY <1>3, <1>6, <1>7, SettlesIPC DEF IPCOutcome

\* The end of a cleanup.
LEMMA IPOutcomeReset ==
    ASSUME TypeOK, Patient, lock = "ipc", lock' = "free", ipc.stage = "Idle", ~stale,
           IPCOutcome(ResetIPStatusConditions, FALSE, FALSE)
    PROVE  Patient'
  <1> DEFINE d == ResetIPStatusConditions
             y == WithIPNext([ipc EXCEPT !.conds = d], FALSE)
  <1>1. d \in IPConditions /\ d["Idle"] = "Idle" /\ \A t \in IPConditionTypes \ {"Idle"} : d[t] = "None"
    BY IPTypes DEF ResetIPStatusConditions, NoIPConditions, IPConditions, IPConditionReasons
  <1> HIDE DEF d
  <1>2. y.stage = "Idle" /\ y.conds = d /\ y.next = {"Config"}
    <2>1. y.stage = ipc.stage /\ y.conds = d /\ y.next = validIPNextStages(d, ipc.stage, FALSE)
      BY <1>1, IPNextOf DEF TypeOK
    <2>2. validIPNextStages(d, ipc.stage, FALSE) = {"Config"}
      BY <1>1, RestingNext, IPTypes DEF IPStages
    <2> HIDE DEF y
    <2> QED BY <2>1, <2>2
  <1>3. ipc' = y
    BY DEF IPCOutcome, d
  <1> HIDE DEF y
  <1>4. RestingIPC(ipc') /\ CleansIPC(ipc') /\ ~IsIPConfigBlocked(ipc')
    BY <1>1, <1>2, <1>3, IPTypes DEF RestingIPC, CleansIPC, IsIPConfigBlocked, IsIPCStatusBlocked
  <1>5. RestingIBU(ibu) /\ CleansIBU(ibu) /\ IBUQuiet(ibu)
    BY DEF Patient, CleanupInv, IBUInv, IPCInv
  <1> QED BY <1>4, <1>5, SettlesIPC DEF IPCOutcome

\* The pivot of a Config and of its rollback.
LEMMA PivotsIPC ==
    ASSUME TypeOK, Patient, lock = "ipc", lock' = "free", ipcWork', UNCHANGED <<ibuPivoted, ibuWork>>,
           NEW c \in IPConditions, \A t \in IPConditionTypes : c[t] # "Blocked",
           c["Idle"] \notin {"Idle", "None", "InProgress"},
           \/ ipcPivoted' /\ Pivot(ibu, [ipc EXCEPT !.conds = c])
           \/ ipcPivoted /\ ~ipcPivoted' /\ Pivot(shadow.ibu, [ipc EXCEPT !.conds = c])
    PROVE  Patient'
  <1> DEFINE y == [ipc EXCEPT !.conds = c]
  <1>1. y \in IPCs /\ y.conds = c
    BY DEF TypeOK, IPCs
  <1> HIDE DEF y
  <1>2. ipc' = y /\ shadow'.ibu = ibu
    BY DEF Pivot, y
  <1>3. WorkingIPC(ipc') /\ CleansIPC(ipc') /\ ipc' \in IPCs
    BY <1>1, <1>2 DEF WorkingIPC, CleansIPC
  <1>4. /\ RestingIBU(ibu) /\ CleansIBU(ibu) /\ IBUQuiet(ibu)
        /\ ipcPivoted => RestingIBU(shadow.ibu) /\ IBUQuiet(shadow.ibu) /\ CleansIBU(shadow.ibu)
    BY DEF Patient, CleanupInv, IBUInv, IPCInv
  <1>5. RestingIBU(ibu') /\ CleansIBU(ibu') /\ IBUQuiet(ibu')
    BY <1>4 DEF Pivot
  <1> QED BY <1>2, <1>3, <1>4, <1>5, SettlesIPC

\* A handler of the IPConfig with the flow on.
LEMMA HandleWorkingIPC ==
    ASSUME TypeOK, Patient, HandleIPC, ipcWork
    PROVE  Patient'
  <1> DEFINE c == ipcEntered
             stage == ipc.stage
             refused == ipcRequested /\ (stage \notin ipc.next \/ stale)
  <1>1. /\ lock = "ipc" /\ lock' = "free" /\ ipc \in IPCs /\ ipcPivoted \in BOOLEAN /\ ipcWork = TRUE
        /\ CleansIPC(ipc) /\ WorkingIPC(ipc)
        /\ stale => ipc.conds["Idle"] # "InProgress"
        /\ stage \in IPStages /\ ipc.conds \in IPConditions
    BY DEF HandleIPC, TypeOK, Patient, CleanupInv, IPCInv, IPCs
  <1>2. /\ c \in IPConditions /\ \A t \in IPConditionTypes : c[t] # "Blocked"
        /\ c["Idle"] \notin {"Idle", "None"} /\ (c["Idle"] = "InProgress" => stage = "Idle")
        /\ ~ipcRequested => c = ipc.conds
    <2>1. CASE ~ipcRequested
      BY <1>1, <2>1, EnteredIPC DEF WorkingIPC, CleansIPC
    <2>2. CASE ipcRequested
      <3>1. /\ c \in IPConditions /\ c[GetIPInProgressConditionType(stage)] = "InProgress"
            /\ stage = "Config" => c["Idle"] = "ConfigurationInProgress"
            /\ stage = "Rollback" => c["Idle"] \in {ipc.conds["Idle"], "ConfigurationInProgress"}
            /\ \A t \in IPConditionTypes \ {GetIPInProgressConditionType(stage), "Idle"} :
                  c[t] \in {"None", ipc.conds[t]}
        BY <1>1, <2>2, EnteredIPC
      <3> HIDE DEF c
      <3>2. /\ c["Idle"] \notin {"Idle", "None", "Blocked"} /\ (c["Idle"] = "InProgress" => stage = "Idle")
        BY <1>1, <3>1, IPTypes DEF WorkingIPC, CleansIPC, IPStages
      <3> QED BY <1>1, <2>2, <3>1, <3>2 DEF WorkingIPC
    <2> QED BY <2>1, <2>2
  <1>3. IF refused THEN IPCOutcome(SetIPStatusInvalidTransition(ipc.conds, stage), ipcPivoted, ipcWork)
        ELSE IF ~IsIPStageInProgress(c, stage) THEN IPCOutcome(c, ipcPivoted, ipcWork)
        ELSE IPCStageHandler
    BY DEF HandleIPC
  <1> HIDE DEF c
  <1>4. ASSUME NEW d \in IPConditions, NEW r \in {"InvalidTransition", "Completed", "Failed"},
               NEW e \in IPConditions, e \in {c, ipc.conds},
               \A t \in IPConditionTypes : d[t] \in {e[t], r}, IPCOutcome(d, ipcPivoted, TRUE)
        PROVE  Patient'
    <2>1. /\ \A t \in IPConditionTypes : d[t] # "Blocked"
          /\ d["Idle"] \notin {"Idle", "None"}
          /\ d["Idle"] = "InProgress" => ipc.stage = "Idle"
      BY <1>1, <1>2, <1>4, IPTypes DEF WorkingIPC, CleansIPC
    <2> QED BY <1>1, <1>4, <2>1, IPOutcomeWorking
  <1>5. CASE refused
    <2> DEFINE d == SetIPStatusInvalidTransition(ipc.conds, stage)
    <2>1. d \in IPConditions /\ \A t \in IPConditionTypes : d[t] \in {ipc.conds[t], "InvalidTransition"}
      BY <1>1, IPTypes DEF SetIPStatusInvalidTransition, SetIPCondition, IPConditions,
           IPConditionReasons
    <2>2. IPCOutcome(d, ipcPivoted, TRUE)
      BY <1>1, <1>3, <1>5
    <2> HIDE DEF d
    <2> QED BY <1>1, <1>4, <2>1, <2>2
  <1>6. CASE ~refused /\ IPCOutcome(c, ipcPivoted, TRUE)
    BY <1>2, <1>4, <1>6
  <1>7. CASE ~refused /\ IsIPStageInProgress(c, stage) /\ stage \in {"Config", "Rollback"}
    <2>1. ASSUME NEW r \in {"Completed", "Failed"},
                 IPCOutcome(SetIPStatusEnded(c, stage, r), ipcPivoted, TRUE)
          PROVE  Patient'
      <3> DEFINE d == SetIPStatusEnded(c, stage, r)
      <3>1. d \in IPConditions /\ \A t \in IPConditionTypes : d[t] \in {c[t], r}
        BY <1>2, <1>7, IPTypes DEF SetIPStatusEnded, IPConditions, IPConditionReasons
      <3>2. IPCOutcome(d, ipcPivoted, TRUE)
        BY <2>1
      <3> HIDE DEF d
      <3> QED BY <1>2, <1>4, <3>1, <3>2
    <2>2. \/ IPCOutcome(c, ipcPivoted, TRUE)
          \/ \E r \in {"Completed", "Failed"} : IPCOutcome(SetIPStatusEnded(c, stage, r), ipcPivoted, TRUE)
          \/ /\ ipcWork' /\ UNCHANGED <<ibuPivoted, ibuWork>>
             /\ \/ ipcPivoted' /\ Pivot(ibu, [ipc EXCEPT !.conds = c])
                \/ ipcPivoted /\ ~ipcPivoted' /\ Pivot(shadow.ibu, [ipc EXCEPT !.conds = c])
      BY <1>1, <1>3, <1>7 DEF IPCStageHandler, c
    <2>3. c["Idle"] # "InProgress"
      BY <1>2, <1>7
    <2> QED BY <1>1, <1>2, <1>6, <1>7, <2>1, <2>2, <2>3, PivotsIPC
  <1>8. CASE ~refused /\ IsIPStageInProgress(c, stage) /\ stage = "Idle"
    <2>1. ~stale
      BY <1>1, <1>2, <1>8, IPTypes DEF IsIPStageInProgress
    <2>2. CASE IPCOutcome(ResetIPStatusConditions, FALSE, FALSE)
      BY <1>1, <1>8, <2>1, <2>2, IPOutcomeReset
    <2>3. CASE IPCOutcome(SetIPCondition(c, "Idle", "Failed"), ipcPivoted, ipcWork)
      <3> DEFINE d == SetIPCondition(c, "Idle", "Failed")
      <3>1. d \in IPConditions /\ \A t \in IPConditionTypes : d[t] \in {c[t], "Failed"}
        BY <1>2, IPTypes DEF SetIPCondition, IPConditions, IPConditionReasons
      <3>2. IPCOutcome(d, ipcPivoted, TRUE)
        BY <1>1, <2>3
      <3> HIDE DEF d
      <3> QED BY <1>2, <1>4, <3>1, <3>2
    <2> QED BY <1>1, <1>3, <1>6, <1>8, <2>2, <2>3 DEF IPCStageHandler, c
  <1> QED BY <1>1, <1>3, <1>5, <1>6, <1>7, <1>8 DEF IPStages

\* A handler of the IPConfig with the CR at rest: only a Config can begin.
LEMMA HandleRestingIPC ==
    ASSUME TypeOK, Patient, HandleIPC, ~ipcWork
    PROVE  Patient'
  <1> DEFINE c == ipcEntered
             stage == ipc.stage
             refused == ipcRequested /\ (stage \notin ipc.next \/ stale)
             after(d) == WithIPNext([ipc EXCEPT !.conds = d], FALSE)
  <1>1. /\ lock = "ipc" /\ lock' = "free" /\ ipc \in IPCs /\ ipcPivoted = FALSE /\ ipcWork = FALSE
        /\ CleansIPC(ipc) /\ RestingIPC(ipc)
        /\ stale => ipc.conds["Idle"] # "InProgress"
        /\ stage \in IPStages /\ ipc.conds \in IPConditions
    BY DEF HandleIPC, TypeOK, Patient, CleanupInv, IPCInv, IPCs
  <1>2. /\ c \in IPConditions
        /\ ~ipcRequested => c = ipc.conds
        /\ ipcRequested =>
             /\ c[GetIPInProgressConditionType(stage)] = "InProgress"
             /\ stage = "Config" => c["Idle"] = "ConfigurationInProgress"
             /\ stage = "Rollback" => c["Idle"] \in {ipc.conds["Idle"], "ConfigurationInProgress"}
             /\ \A t \in IPConditionTypes \ {GetIPInProgressConditionType(stage), "Idle"} :
                   c[t] \in {"None", ipc.conds[t]}
    BY <1>1, EnteredIPC
  <1>3. IF refused THEN IPCOutcome(SetIPStatusInvalidTransition(ipc.conds, stage), ipcPivoted, ipcWork)
        ELSE IF ~IsIPStageInProgress(c, stage) THEN IPCOutcome(c, ipcPivoted, ipcWork)
        ELSE IPCStageHandler
    BY DEF HandleIPC
  <1> HIDE DEF c
  <1>4. ASSUME NEW d \in IPConditions, ~stale => RestingIPC(after(d)),
               d["Idle"] = "InProgress" => stage = "Idle",
               \A t \in IPConditionTypes : d[t] = "Blocked" => ipc.conds[t] = "Blocked",
               IPCOutcome(d, ipcPivoted, ipcWork)
        PROVE  Patient'
    BY <1>1, <1>4, IPOutcomeResting DEF after
  <1>5. ASSUME NEW d \in IPConditions, RestingConds(d, stage)
        PROVE  RestingIPC(after(d))
    BY <1>1, <1>5, RestingAfter
  <1> HIDE DEF after
  <1>6. CASE refused
    <2> DEFINE d == SetIPStatusInvalidTransition(ipc.conds, stage)
               t0 == GetIPInProgressConditionType(stage)
    <2>1. /\ d \in IPConditions /\ d[t0] = "InvalidTransition"
          /\ \A t \in IPConditionTypes \ {t0} : d[t] = ipc.conds[t]
      BY <1>1, IPTypes DEF SetIPStatusInvalidTransition, SetIPCondition, IPConditions,
           IPConditionReasons, IPStages
    <2> HIDE DEF d
    <2>2. IPCOutcome(d, ipcPivoted, ipcWork)
      BY <1>3, <1>6 DEF d
    <2>3. \A t \in IPConditionTypes : d[t] = "Blocked" => ipc.conds[t] = "Blocked"
      BY <2>1
    <2>4. d["Idle"] = "InProgress" => stage = "Idle"
      BY <1>1, <2>1, IPTypes DEF CleansIPC, IPStages
    <2>5. CASE ~stale
      <3>1. stage = "Config" => ipc.conds["Idle"] # "Idle"
        BY <1>1, <1>6, <2>5 DEF RestingIPC
      <3>2. RestingConds(d, stage)
        <4>1. CASE stage = "Idle"
          BY <1>1, <2>1, <4>1, IPTypes DEF RestingIPC, RestingConds
        <4>2. CASE stage = "Config"
          BY <1>1, <2>1, <3>1, <4>2, IPTypes DEF RestingIPC, RestingConds
        <4>3. CASE stage = "Rollback"
          BY <1>1, <2>1, <4>3, IPTypes DEF RestingIPC, RestingConds
        <4> QED BY <1>1, <4>1, <4>2, <4>3 DEF IPStages
      <3>5. RestingIPC(after(d))
        BY <1>5, <2>1, <3>2
      <3> QED BY <1>4, <2>1, <2>2, <2>3, <2>4, <3>5
    <2> QED BY <1>4, <2>1, <2>2, <2>3, <2>4, <2>5
  <1>7. CASE ~refused /\ ~IsIPStageInProgress(c, stage)
    <2>1. c = ipc.conds
      BY <1>2, <1>7 DEF IsIPStageInProgress
    <2>2. RestingIPC(after(c))
      <3>1. RestingConds(c, stage)
        BY <1>1, <2>1 DEF RestingIPC, RestingConds
      <3> QED BY <1>2, <1>5, <3>1
    <2>3. c["Idle"] = "InProgress" => stage = "Idle"
      BY <1>1, <2>1 DEF CleansIPC
    <2> QED BY <1>2, <1>3, <1>4, <1>7, <2>1, <2>2, <2>3
  <1>8. CASE ~refused /\ IsIPStageInProgress(c, stage) /\ stage = "Idle"
    <2>1. c["Idle"] = "InProgress" /\ ~stale
      BY <1>1, <1>2, <1>8, IPTypes DEF IsIPStageInProgress
    <2>2. /\ c["RollbackInProgress"] \in {"None", ipc.conds["RollbackInProgress"]}
          /\ c["ConfigInProgress"] \in {"None", ipc.conds["ConfigInProgress"]}
          /\ c["RollbackCompleted"] \in {"None", ipc.conds["RollbackCompleted"]}
          /\ c["ConfigCompleted"] \in {"None", ipc.conds["ConfigCompleted"]}
      BY <1>2, <1>8, IPTypes
    <2>3. ASSUME NEW d \in IPConditions, d["Idle"] \in {"InProgress", "Failed"},
                 \A t \in IPConditionTypes \ {"Idle"} : d[t] = c[t], IPCOutcome(d, ipcPivoted, ipcWork)
          PROVE  Patient'
      <3>1. RestingIPC(after(d))
        <4>1. RestingConds(d, stage)
          BY <1>1, <1>8, <2>2, <2>3, IPTypes DEF RestingIPC, RestingConds
        <4> QED BY <1>5, <4>1
      <3>2. \A t \in IPConditionTypes : d[t] = "Blocked" => ipc.conds[t] = "Blocked"
        BY <2>2, <2>3, IPTypes
      <3> QED BY <1>4, <1>8, <2>3, <3>1, <3>2
    <2>4. CASE IPCOutcome(c, ipcPivoted, ipcWork)
      BY <1>2, <2>1, <2>3, <2>4
    <2>5. CASE IPCOutcome(ResetIPStatusConditions, FALSE, FALSE)
      BY <1>1, <1>8, <2>1, <2>5, IPOutcomeReset
    <2>6. CASE IPCOutcome(SetIPCondition(c, "Idle", "Failed"), ipcPivoted, ipcWork)
      <3> DEFINE d == SetIPCondition(c, "Idle", "Failed")
      <3>1. d \in IPConditions /\ d["Idle"] = "Failed" /\ \A t \in IPConditionTypes \ {"Idle"} : d[t] = c[t]
        BY <1>2, IPTypes DEF SetIPCondition, IPConditions, IPConditionReasons
      <3>2. IPCOutcome(d, ipcPivoted, ipcWork)
        BY <2>6
      <3> HIDE DEF d
      <3> QED BY <2>3, <3>1, <3>2
    <2> QED BY <1>1, <1>3, <1>8, <2>4, <2>5, <2>6 DEF IPCStageHandler, c
  <1>9. CASE ~refused /\ IsIPStageInProgress(c, stage) /\ stage = "Config"
    <2>1. /\ c["ConfigInProgress"] = "InProgress"
          /\ c["Idle"] \notin {"None", "Idle", "Blocked", "InProgress"}
          /\ c["RollbackInProgress"] \in {"None", "InvalidTransition"}
          /\ c["RollbackCompleted"] = "None" /\ c["ConfigCompleted"] \in {"None", "Completed"}
          /\ stale => c = ipc.conds
      <3>1. c["ConfigInProgress"] = "InProgress"
        BY <1>9, IPTypes DEF IsIPStageInProgress
      <3>2. CASE ~ipcRequested
        BY <1>1, <1>2, <1>9, <3>1, <3>2 DEF RestingIPC, CleansIPC
      <3>3. CASE ipcRequested
        <4>1. ~stale /\ ipc.conds["Idle"] = "Idle"
          BY <1>1, <1>9, <3>3 DEF RestingIPC
        <4>2. ipc.conds["RollbackInProgress"] = "None" /\ ipc.conds["ConfigCompleted"] = "None"
              /\ ipc.conds["RollbackCompleted"] = "None"
          BY <1>1, <4>1 DEF RestingIPC
        <4> QED BY <1>2, <1>9, <3>1, <3>3, <4>1, <4>2, IPTypes
      <3> QED BY <3>2, <3>3
    <2>2. \A t \in IPConditionTypes : c[t] # "Blocked"
      BY <2>1, IPTypes
    <2>3. ASSUME NEW d \in IPConditions, d["ConfigInProgress"] \in {"InProgress", "Completed"},
                 d["ConfigCompleted"] \in {"None", "Completed"},
                 \A t \in IPConditionTypes \ {"ConfigInProgress", "ConfigCompleted"} : d[t] = c[t],
                 IPCOutcome(d, ipcPivoted, ipcWork)
          PROVE  Patient'
      <3>1. RestingIPC(after(d))
        <4>1. RestingConds(d, stage)
          BY <1>9, <2>1, <2>3, IPTypes DEF RestingConds
        <4> QED BY <1>5, <4>1
      <3>2. \A t \in IPConditionTypes : d[t] # "Blocked"
        BY <2>1, <2>3, IPTypes
      <3>3. d["Idle"] = c["Idle"]
        BY <2>3, IPTypes
      <3> QED BY <1>4, <2>1, <2>3, <3>1, <3>2, <3>3
    <2>4. CASE IPCOutcome(c, ipcPivoted, ipcWork)
      BY <1>2, <2>1, <2>3, <2>4
    <2>5. CASE IPCOutcome(SetIPStatusEnded(c, "Config", "Completed"), ipcPivoted, ipcWork)
      <3> DEFINE d == SetIPStatusEnded(c, "Config", "Completed")
      <3>1. /\ d \in IPConditions /\ d["ConfigInProgress"] = "Completed" /\ d["ConfigCompleted"] = "Completed"
            /\ \A t \in IPConditionTypes \ {"ConfigInProgress", "ConfigCompleted"} : d[t] = c[t]
        BY <1>2, IPTypes DEF SetIPStatusEnded, IPConditions, IPConditionReasons
      <3>2. IPCOutcome(d, ipcPivoted, ipcWork)
        BY <2>5
      <3> HIDE DEF d
      <3> QED BY <2>3, <3>1, <3>2
    <2>6. CASE IPCOutcome(SetIPStatusEnded(c, "Config", "Failed"), ipcPivoted, TRUE)
      <3> DEFINE d == SetIPStatusEnded(c, "Config", "Failed")
      <3>1. /\ d \in IPConditions /\ \A t \in IPConditionTypes : d[t] \in {c[t], "Failed"}
            /\ d["Idle"] = c["Idle"]
        BY <1>2, IPTypes DEF SetIPStatusEnded, IPConditions, IPConditionReasons
      <3>2. IPCOutcome(d, ipcPivoted, TRUE)
        BY <2>6
      <3> HIDE DEF d
      <3>3. \A t \in IPConditionTypes : d[t] # "Blocked"
        BY <2>2, <3>1
      <3>4. ~stale \/ WorkingIPC(ipc)
        BY <2>1, <2>2 DEF WorkingIPC
      <3> QED BY <1>1, <2>1, <3>1, <3>2, <3>3, <3>4, IPOutcomeWorking
    <2>7. CASE /\ ipcPivoted' /\ ipcWork' /\ Pivot(ibu, [ipc EXCEPT !.conds = c])
               /\ UNCHANGED <<ibuPivoted, ibuWork>>
      BY <1>1, <1>2, <2>1, <2>2, <2>7, PivotsIPC
    <2> QED BY <1>1, <1>3, <1>9, <2>4, <2>5, <2>6, <2>7 DEF IPCStageHandler, c
  <1>10. ~(~refused /\ IsIPStageInProgress(c, stage) /\ stage = "Rollback")
    BY <1>1, <1>2, IPTypes DEF IsIPStageInProgress, RestingIPC
  <1> QED BY <1>1, <1>6, <1>7, <1>8, <1>9, <1>10 DEF IPStages

-----------------------------------------------------------------------------
(* The gates. *)

\* The gates read what the invariant calls quiet, and a flow that is on is not.
LEMMA GatesRead ==
    ASSUME TypeOK
    PROVE  /\ ibuProceeds <=> IPCQuiet(ipc)
           /\ ipcProceeds <=> IBUQuiet(ibu)
           /\ WorkingIBU(ibu) => ~IBUQuiet(ibu) /\ ~IsIBUStatusBlocked(ibu)
           /\ WorkingIPC(ipc) => ~IPCQuiet(ipc) /\ ~IsIPConfigBlocked(ipc)
  <1>1. ibuProceeds <=> IPCQuiet(ipc)
    BY DEF ibuProceeds, ipcIdleOrBlocked, IPCQuiet
  <1>2. ipcProceeds <=> IBUQuiet(ibu)
    BY DEF ipcProceeds, ibuIdleOrBlocked, IBUQuiet
  <1>3. WorkingIBU(ibu) => ~IBUQuiet(ibu) /\ ~IsIBUStatusBlocked(ibu)
    <2>1. GetInProgressConditionType(ibu.stage) \in ConditionTypes
      BY Types DEF TypeOK, IBUs, Stages
    <2>2. NoConditions["Idle"] = "None"
      BY Types DEF NoConditions
    <2> QED BY <2>1, <2>2 DEF WorkingIBU, IBUQuiet, IsIBUStatusBlocked, IsTrue, InProgressTypes,
         CompletedTypes
  <1>4. WorkingIPC(ipc) => ~IPCQuiet(ipc) /\ ~IsIPConfigBlocked(ipc)
    <2>1. GetIPInProgressConditionType(ipc.stage) \in IPConditionTypes
      BY IPTypes DEF TypeOK, IPCs, IPStages
    <2>2. NoIPConditions["Idle"] = "None"
      BY IPTypes DEF NoIPConditions
    <2> QED BY <2>1, <2>2 DEF WorkingIPC, IPCQuiet, IsIPConfigBlocked, IsIPCStatusBlocked, IPIsTrue,
              IPInProgressTypes, IPCompletedTypes
  <1> QED BY <1>1, <1>2, <1>3, <1>4

\* Blocking or releasing a CR at rest.
LEMMA MarkIBU ==
    ASSUME ibu \in IBUs, RestingIBU(ibu), CleansIBU(ibu), NEW r \in {"Blocked", "None"},
           r = "None" => IsIBUStatusBlocked(ibu)
    PROVE  LET x == [ibu EXCEPT !.conds[GetInProgressConditionType(ibu.stage)] = r] IN
           /\ x \in IBUs /\ RestingIBU(x) /\ CleansIBU(x)
           /\ r = "Blocked" => IBUQuiet(x)
           /\ r = "None" => ~IsIBUStatusBlocked(x)
  <1> DEFINE t0 == GetInProgressConditionType(ibu.stage)
             x == [ibu EXCEPT !.conds[t0] = r]
  <1>1. ibu.stage \in Stages /\ ibu.conds \in Conditions /\ t0 \in ConditionTypes
    BY Types DEF IBUs, Stages
  <1>2. /\ x \in IBUs /\ x.stage = ibu.stage /\ x.next = ibu.next /\ x.conds[t0] = r
        /\ \A t \in ConditionTypes \ {t0} : x.conds[t] = ibu.conds[t]
    BY <1>1 DEF IBUs, Conditions, ConditionReasons
  <1> HIDE DEF x
  <1>3. RestingIBU(x)
    <2>1. CASE ibu.stage = "Idle"
      BY <1>2, <2>1, Types DEF RestingIBU, InProgressTypes, CompletedTypes
    <2>2. CASE ibu.stage = "Prep"
      BY <1>2, <2>2, Types DEF RestingIBU, InProgressTypes, CompletedTypes
    <2>3. CASE ibu.stage = "Upgrade"
      BY <1>2, <2>3, Types DEF RestingIBU, InProgressTypes, CompletedTypes
    <2>4. CASE ibu.stage = "Rollback"
      BY <1>2, <2>4, Types DEF RestingIBU, InProgressTypes, CompletedTypes
    <2> QED BY <1>1, <2>1, <2>2, <2>3, <2>4 DEF Stages
  <1>4. CleansIBU(x)
    BY <1>1, <1>2, Types DEF CleansIBU, IdleInProgressReasons, Stages
  <1> QED BY <1>2, <1>3, <1>4 DEF x, IBUQuiet, IsIBUStatusBlocked

\* The gate of the IBU.
LEMMA GateIBUStep ==
    ASSUME TypeOK, Patient, gateIBUByIPConfig
    PROVE  Patient'
  <1> DEFINE mark(r) == [ibu EXCEPT !.conds[GetInProgressConditionType(ibu.stage)] = r]
  <1>1. /\ lock = "free" /\ stale' = FALSE /\ lock' = IF IPCQuiet(ipc) THEN "ibu" ELSE "free"
        /\ UNCHANGED <<ipc, ibuPivoted, ipcPivoted, shadow, ibuWork, ipcWork>>
    BY GatesRead DEF gateIBUByIPConfig, hostVars
  <1>2. \/ ibu' = ibu /\ IPCQuiet(ipc)
        \/ ibu' = mark("None") /\ IPCQuiet(ipc) /\ IsIBUStatusBlocked(ibu)
        \/ ibu' = mark("Blocked") /\ ~IPCQuiet(ipc)
    BY GatesRead DEF gateIBUByIPConfig
  <1>3. ibu' # ibu => ~ibuWork
    BY <1>2, GatesRead DEF Patient, IBUInv
  <1>4. ibuWork \in BOOLEAN /\ ipcWork \in BOOLEAN
    BY DEF TypeOK
  <1>5. CASE ibu' = ibu /\ IPCQuiet(ipc)
    <2>1. ~ipcWork
      BY <1>5, GatesRead DEF Patient, IPCInv
    <2> QED BY <1>1, <1>5, <2>1 DEF Patient, CleanupInv, IBUInv, IPCInv, NoMutualBlock
  <1>6. CASE ibu' = mark("None") /\ IPCQuiet(ipc) /\ IsIBUStatusBlocked(ibu)
    <2>1. ~ipcWork /\ ~ibuWork
      BY <1>6, GatesRead DEF Patient, IPCInv, IBUInv
    <2>2. RestingIBU(mark("None")) /\ CleansIBU(mark("None")) /\ ~IsIBUStatusBlocked(mark("None"))
      BY <1>6, <2>1, MarkIBU DEF TypeOK, Patient, CleanupInv, IBUInv
    <2> HIDE DEF mark
    <2> QED BY <1>1, <1>6, <2>1, <2>2 DEF Patient, CleanupInv, IBUInv, IPCInv, NoMutualBlock
  <1>7. CASE ibu' = mark("Blocked") /\ ~IPCQuiet(ipc)
    <2>1. ~ibuWork /\ ~IsIPConfigBlocked(ipc)
      BY <1>7 DEF Patient, IBUInv, IPCQuiet
    <2>2. RestingIBU(mark("Blocked")) /\ CleansIBU(mark("Blocked")) /\ IBUQuiet(mark("Blocked"))
      BY <2>1, MarkIBU DEF TypeOK, Patient, CleanupInv, IBUInv
    <2> HIDE DEF mark
    <2> QED BY <1>1, <1>7, <2>1, <2>2 DEF Patient, CleanupInv, IBUInv, IPCInv, NoMutualBlock
  <1> QED BY <1>2, <1>5, <1>6, <1>7

\* The gate of the IPConfig, which also fills in valid next stages that are missing.
LEMMA GateIPCStep ==
    ASSUME TypeOK, Patient, gateIPConfigByIBU
    PROVE  Patient'
  <1> DEFINE x == IF ipc.next = {} THEN WithIPNext(ipc, ipcPivoted) ELSE ipc
             t0 == GetIPInProgressConditionType(ipc.stage)
  <1>1. /\ lock = "free" /\ stale' = FALSE /\ lock' = IF IBUQuiet(ibu) THEN "ipc" ELSE "free"
        /\ UNCHANGED <<ibu, ibuPivoted, ipcPivoted, shadow, ibuWork, ipcWork>>
    BY GatesRead DEF gateIPConfigByIBU, hostVars
  <1>2. /\ ipc \in IPCs /\ ipc.stage \in IPStages /\ ipc.conds \in IPConditions /\ t0 \in IPConditionTypes
        /\ ipcPivoted \in BOOLEAN /\ ibuWork \in BOOLEAN /\ ipcWork \in BOOLEAN
        /\ CleansIPC(ipc)
    BY IPTypes DEF TypeOK, IPCs, IPStages, Patient, CleanupInv
  <1>3. [ipc EXCEPT !.conds = ipc.conds] = ipc
    BY <1>2 DEF IPCs
  <1>4. x \in IPCs /\ x.stage = ipc.stage /\ x.conds = ipc.conds
    BY <1>2, <1>3, IPNextOf
  <1>5. CleansIPC(x)
    BY <1>2, <1>4 DEF CleansIPC
  <1>6. ~ipcWork => RestingIPC(x)
    <2> SUFFICES ASSUME ~ipcWork PROVE RestingIPC(x)
      OBVIOUS
    <2>1. RestingIPC(ipc) /\ ipcPivoted = FALSE
      BY <1>2 DEF Patient, IPCInv
    <2>2. RestingConds(ipc.conds, ipc.stage)
      BY <2>1 DEF RestingIPC, RestingConds
    <2>3. RestingIPC(WithIPNext(ipc, FALSE))
      BY <1>2, <1>3, <2>2, RestingAfter
    <2> QED BY <2>1, <2>3
  <1>7. ipc' = IF IBUQuiet(ibu)
                 THEN IF ibuIdleOrBlocked THEN [x EXCEPT !.conds = RemoveIPStatusBlocked(@, x.stage)] ELSE x
                 ELSE WithIPNext([x EXCEPT !.conds = SetIPStatusBlocked(@, x.stage)], ipcPivoted)
    BY GatesRead DEF gateIPConfigByIBU
  <1> HIDE DEF x
  <1>8. CASE IBUQuiet(ibu)
    <2>1. ~ibuWork
      BY <1>8, GatesRead DEF Patient, IBUInv
    <2>2. \/ ipc' = x
          \/ ipc' = [x EXCEPT !.conds[t0] = "None"] /\ IsIPConfigBlocked(ipc)
      <3>1. RemoveIPStatusBlocked(x.conds, x.stage) =
              IF IsIPConfigBlocked(ipc) THEN [x.conds EXCEPT ![t0] = "None"] ELSE x.conds
        BY <1>4 DEF RemoveIPStatusBlocked, SetIPCondition, IsIPConfigBlocked, IsIPCStatusBlocked
      <3>2. [x EXCEPT !.conds = x.conds] = x
        BY <1>4 DEF IPCs
      <3> QED BY <1>7, <1>8, <3>1, <3>2
    <2>3. CASE ipc' = x
      <3>1. ipcWork => WorkingIPC(x)
        BY <1>4 DEF Patient, IPCInv, WorkingIPC
      <3>2. IsIPConfigBlocked(x) <=> IsIPConfigBlocked(ipc)
        BY <1>4 DEF IsIPConfigBlocked
      <3>3. CleansIPC(ipc') /\ (IsIPConfigBlocked(ipc') => IsIPConfigBlocked(ipc))
        BY <1>5, <2>3, <3>2
      <3>4. IF ipcWork THEN WorkingIPC(ipc') ELSE RestingIPC(ipc')
        BY <1>2, <1>6, <2>3, <3>1
      <3> QED BY <1>1, <1>8, <2>1, <3>3, <3>4 DEF Patient, CleanupInv, IBUInv, IPCInv, NoMutualBlock
    <2>4. CASE ipc' = [x EXCEPT !.conds[t0] = "None"] /\ IsIPConfigBlocked(ipc)
      <3>1. ~ipcWork
        BY <2>4, GatesRead DEF Patient, IPCInv
      <3>2. /\ ipc'.stage = ipc.stage /\ ipc'.next = x.next /\ ipc'.conds[t0] = "None"
            /\ \A t \in IPConditionTypes \ {t0} : ipc'.conds[t] = x.conds[t]
        BY <1>2, <1>4, <2>4 DEF IPCs, IPConditions
      <3>3. RestingIPC(x) /\ x.conds[t0] = "Blocked"
        BY <1>4, <1>6, <2>4, <3>1 DEF IsIPConfigBlocked, IsIPCStatusBlocked
      <3>4. RestingIPC(ipc')
        <4>1. CASE ipc.stage = "Idle"
          BY <1>4, <3>2, <3>3, <4>1, IPTypes DEF RestingIPC
        <4>2. CASE ipc.stage = "Config"
          BY <1>4, <3>2, <3>3, <4>2, IPTypes DEF RestingIPC
        <4>3. CASE ipc.stage = "Rollback"
          BY <1>4, <3>2, <3>3, <4>3, IPTypes DEF RestingIPC
        <4> QED BY <1>2, <4>1, <4>2, <4>3 DEF IPStages
      <3>5. CleansIPC(ipc')
        BY <1>2, <1>4, <1>5, <3>2, IPTypes DEF CleansIPC, IPStages
      <3>6. ~IsIPConfigBlocked(ipc')
        BY <3>2 DEF IsIPConfigBlocked, IsIPCStatusBlocked
      <3> QED BY <1>1, <1>8, <2>1, <3>1, <3>4, <3>5, <3>6 DEF Patient, CleanupInv, IBUInv, IPCInv,
           NoMutualBlock
    <2> QED BY <2>2, <2>3, <2>4
  <1>9. CASE ~IBUQuiet(ibu)
    <2> DEFINE d == [ipc.conds EXCEPT ![t0] = "Blocked"]
    <2>1. ~ipcWork /\ ipcPivoted = FALSE /\ RestingIPC(ipc)
      BY <1>2, <1>9 DEF Patient, IPCInv
    <2>2. ipc' = WithIPNext([x EXCEPT !.conds = d], FALSE)
      BY <1>4, <1>7, <1>9, <2>1 DEF SetIPStatusBlocked, SetIPCondition
    <2>3. /\ d \in IPConditions /\ d[t0] = "Blocked"
          /\ \A t \in IPConditionTypes \ {t0} : d[t] = ipc.conds[t]
      BY <1>2 DEF IPConditions, IPConditionReasons
    <2> HIDE DEF d
    <2>4. RestingConds(d, ipc.stage)
      <3>1. CASE ipc.stage = "Idle"
        BY <2>1, <2>3, <3>1, IPTypes DEF RestingIPC, RestingConds
      <3>2. CASE ipc.stage = "Config"
        BY <2>1, <2>3, <3>2, IPTypes DEF RestingIPC, RestingConds
      <3>3. CASE ipc.stage = "Rollback"
        BY <2>1, <2>3, <3>3, IPTypes DEF RestingIPC, RestingConds
      <3> QED BY <1>2, <3>1, <3>2, <3>3 DEF IPStages
    <2>5. RestingIPC(ipc')
      BY <1>4, <2>2, <2>3, <2>4, RestingAfter
    <2>6. ipc'.stage = ipc.stage /\ ipc'.conds = d
      BY <1>4, <2>2, <2>3, IPNextOf
    <2>7. CleansIPC(ipc')
      BY <1>2, <2>3, <2>6, IPTypes DEF CleansIPC, IPStages
    <2>8. IPCQuiet(ipc')
      BY <2>3, <2>6 DEF IPCQuiet, IsIPConfigBlocked, IsIPCStatusBlocked
    <2>9. ~IsIBUStatusBlocked(ibu)
      BY <1>9 DEF IBUQuiet
    <2> QED BY <1>1, <1>9, <2>1, <2>5, <2>7, <2>8, <2>9 DEF Patient, CleanupInv, IBUInv, IPCInv,
         NoMutualBlock
  <1> QED BY <1>8, <1>9

-----------------------------------------------------------------------------
(* The user. *)

\* The validation rule of the CRD of the IBU: a CR that is being cleaned up keeps
\* its stage, and one at rest stays at rest, in a stage that is not Blocked.
LEMMA EditsIBU ==
    ASSUME TypeOK, NEW stage \in Stages, stage # ibu.stage,
           stage \in ibu.next \/ ibu.conds = NoConditions
    PROVE  LET x == [ibu EXCEPT !.stage = stage] IN
           /\ x.stage = stage /\ x.conds = ibu.conds /\ x.next = ibu.next
           /\ CleansIBU(ibu) => ibu.conds["Idle"] \notin IdleInProgressReasons
           /\ RestingIBU(ibu) => RestingIBU(x) /\ ~IsIBUStatusBlocked(x)
           /\ WorkingIBU(ibu) => WorkingIBU(x) /\ ~IsIBUStatusBlocked(x)
  <1> DEFINE x == [ibu EXCEPT !.stage = stage]
  <1>1. /\ x.stage = stage /\ x.conds = ibu.conds /\ x.next = ibu.next
        /\ ibu.stage \in Stages /\ ibu.conds \in Conditions
    BY DEF TypeOK, IBUs
  <1> HIDE DEF x
  <1>2. ibu.conds = NoConditions => \A t \in ConditionTypes : ibu.conds[t] = "None"
    BY DEF NoConditions
  <1>3. CleansIBU(ibu) => ibu.conds["Idle"] \notin IdleInProgressReasons
    BY <1>2, Types DEF CleansIBU, IdleInProgressReasons
  <1>4. ASSUME RestingIBU(ibu) PROVE RestingIBU(x) /\ ~IsIBUStatusBlocked(x)
    <2>1. CASE ibu.conds = NoConditions
      <3>1. RestingIBU(x)
        BY <1>1, <1>2, <1>4, <2>1, Types DEF RestingIBU, InProgressTypes, CompletedTypes
      <3>2. ~IsIBUStatusBlocked(x)
        BY <1>1, <1>2, <2>1, Types DEF IsIBUStatusBlocked, Stages
      <3> QED BY <3>1, <3>2
    <2>2. CASE ibu.conds # NoConditions /\ ibu.next \subseteq {"Idle"}
      <3>1. stage = "Idle" /\ ibu.conds["Idle"] = "None"
        BY <1>4, <2>2 DEF RestingIBU
      <3>2. RestingIBU(x)
        BY <1>1, <1>4, <2>2, <3>1 DEF RestingIBU
      <3>3. ~IsIBUStatusBlocked(x)
        BY <1>1, <3>1, Types DEF IsIBUStatusBlocked
      <3> QED BY <3>2, <3>3
    <2>3. CASE ibu.conds # NoConditions /\ ibu.next = {"Prep"}
      <3>1. stage = "Prep" /\ ibu.conds["PrepInProgress"] # "Blocked"
        BY <1>4, <2>3 DEF RestingIBU
      <3>2. RestingIBU(x)
        BY <1>1, <1>4, <2>3, <3>1 DEF RestingIBU
      <3>3. ~IsIBUStatusBlocked(x)
        BY <1>1, <3>1, Types DEF IsIBUStatusBlocked
      <3> QED BY <3>2, <3>3
    <2> QED BY <1>4, <2>1, <2>2, <2>3 DEF RestingIBU
  <1>5. WorkingIBU(ibu) => WorkingIBU(x) /\ ~IsIBUStatusBlocked(x)
    BY <1>1, Types DEF WorkingIBU, IsIBUStatusBlocked, Stages
  <1> QED BY <1>1, <1>3, <1>4, <1>5 DEF x

\* The user asks for a stage of the IBU, while the flow of the IPConfig is not on.
LEMMA SetIBUStageStep ==
    ASSUME TypeOK, Patient, ~eager, NEW stage \in Stages, SetIBUStage(stage)
    PROVE  Patient'
  <1>1. /\ stage # ibu.stage /\ (stage \in ibu.next \/ ibu.conds = NoConditions)
        /\ ~ipcWork /\ lock # "ipc" /\ ibu' = [ibu EXCEPT !.stage = stage]
        /\ UNCHANGED <<ipc, ibuPivoted, ipcPivoted, shadow, ibuWork, ipcWork, lock>>
    BY DEF SetIBUStage, hostVars
  <1>2. /\ ibu'.stage = stage /\ ibu'.conds = ibu.conds /\ ibu'.next = ibu.next
        /\ CleansIBU(ibu) => ibu.conds["Idle"] \notin IdleInProgressReasons
        /\ RestingIBU(ibu) => RestingIBU(ibu') /\ ~IsIBUStatusBlocked(ibu')
        /\ WorkingIBU(ibu) => WorkingIBU(ibu') /\ ~IsIBUStatusBlocked(ibu')
    BY <1>1, EditsIBU
  <1>3. ibuWork \in BOOLEAN /\ ipcWork \in BOOLEAN
    BY DEF TypeOK
  <1>4. ibu'.conds["Idle"] \notin IdleInProgressReasons /\ CleansIBU(ibu')
    BY <1>2 DEF Patient, CleanupInv, CleansIBU
  <1>5. IF ibuWork THEN WorkingIBU(ibu') ELSE RestingIBU(ibu')
    BY <1>2, <1>3 DEF Patient, IBUInv
  <1>6. ~IsIBUStatusBlocked(ibu')
    BY <1>2, <1>3 DEF Patient, IBUInv
  <1> QED BY <1>1, <1>3, <1>4, <1>5, <1>6 DEF Patient, CleanupInv, IBUInv, IPCInv, NoMutualBlock

\* The same of the CRD of the IPConfig.
LEMMA EditsIPC ==
    ASSUME TypeOK, NEW stage \in IPStages, stage # ipc.stage,
           stage \in ipc.next \/ ipc.conds = NoIPConditions
    PROVE  LET y == [ipc EXCEPT !.stage = stage] IN
           /\ y.stage = stage /\ y.conds = ipc.conds /\ y.next = ipc.next
           /\ CleansIPC(ipc) => ipc.conds["Idle"] # "InProgress"
           /\ RestingIPC(ipc) => RestingIPC(y) /\ ~IsIPConfigBlocked(y)
           /\ WorkingIPC(ipc) => WorkingIPC(y) /\ ~IsIPConfigBlocked(y)
  <1> DEFINE y == [ipc EXCEPT !.stage = stage]
  <1>1. /\ y.stage = stage /\ y.conds = ipc.conds /\ y.next = ipc.next
        /\ ipc.stage \in IPStages /\ ipc.conds \in IPConditions
    BY DEF TypeOK, IPCs
  <1> HIDE DEF y
  <1>2. ipc.conds = NoIPConditions => \A t \in IPConditionTypes : ipc.conds[t] = "None"
    BY DEF NoIPConditions
  <1>3. CleansIPC(ipc) => ipc.conds["Idle"] # "InProgress"
    BY <1>2, IPTypes DEF CleansIPC
  <1>4. ASSUME RestingIPC(ipc) PROVE RestingIPC(y) /\ ~IsIPConfigBlocked(y)
    <2>1. CASE ipc.conds = NoIPConditions
      <3>1. RestingIPC(y)
        BY <1>1, <1>2, <1>4, <2>1, IPTypes DEF RestingIPC
      <3>2. ~IsIPConfigBlocked(y)
        BY <1>1, <1>2, <2>1, IPTypes DEF IsIPConfigBlocked, IsIPCStatusBlocked, IPStages
      <3> QED BY <3>1, <3>2
    <2>2. CASE ipc.conds # NoIPConditions /\ stage = "Idle"
      <3>1. "Idle" \in ipc.next /\ ipc.conds["Idle"] \notin {"Idle", "Blocked"}
        BY <1>4, <2>2 DEF RestingIPC
      <3>2. RestingIPC(y)
        BY <1>1, <1>4, <2>2, <3>1 DEF RestingIPC
      <3>3. ~IsIPConfigBlocked(y)
        BY <1>1, <2>2, <3>1, IPTypes DEF IsIPConfigBlocked, IsIPCStatusBlocked
      <3> QED BY <3>2, <3>3
    <2>3. CASE ipc.conds # NoIPConditions /\ stage = "Config"
      <3>1. ipc.conds["Idle"] = "Idle" /\ ipc.conds["ConfigInProgress"] = "None"
        BY <1>4, <2>3 DEF RestingIPC
      <3>2. RestingIPC(y)
        BY <1>1, <1>4, <2>3, <3>1 DEF RestingIPC
      <3>3. ~IsIPConfigBlocked(y)
        BY <1>1, <2>3, <3>1, IPTypes DEF IsIPConfigBlocked, IsIPCStatusBlocked
      <3> QED BY <3>2, <3>3
    <2> QED BY <1>4, <2>1, <2>2, <2>3 DEF RestingIPC
  <1>5. WorkingIPC(ipc) => WorkingIPC(y) /\ ~IsIPConfigBlocked(y)
    BY <1>1, IPTypes DEF WorkingIPC, IsIPConfigBlocked, IsIPCStatusBlocked, IPStages
  <1> QED BY <1>1, <1>3, <1>4, <1>5 DEF y

\* The user asks for a stage of the IPConfig, while the flow of the IBU is not on.
LEMMA SetIPCStageStep ==
    ASSUME TypeOK, Patient, ~eager, NEW stage \in IPStages, SetIPCStage(stage)
    PROVE  Patient'
  <1>1. /\ stage # ipc.stage /\ (stage \in ipc.next \/ ipc.conds = NoIPConditions)
        /\ ~ibuWork /\ lock # "ibu" /\ ipc' = [ipc EXCEPT !.stage = stage]
        /\ UNCHANGED <<ibu, ibuPivoted, ipcPivoted, shadow, ibuWork, ipcWork, lock>>
    BY DEF SetIPCStage, hostVars
  <1>2. /\ ipc'.stage = stage /\ ipc'.conds = ipc.conds /\ ipc'.next = ipc.next
        /\ CleansIPC(ipc) => ipc.conds["Idle"] # "InProgress"
        /\ RestingIPC(ipc) => RestingIPC(ipc') /\ ~IsIPConfigBlocked(ipc')
        /\ WorkingIPC(ipc) => WorkingIPC(ipc') /\ ~IsIPConfigBlocked(ipc')
    BY <1>1, EditsIPC
  <1>3. ibuWork \in BOOLEAN /\ ipcWork \in BOOLEAN
    BY DEF TypeOK
  <1>4. ipc'.conds["Idle"] # "InProgress" /\ CleansIPC(ipc')
    BY <1>2 DEF Patient, CleanupInv, CleansIPC
  <1>5. IF ipcWork THEN WorkingIPC(ipc') ELSE RestingIPC(ipc')
    BY <1>2, <1>3 DEF Patient, IPCInv
  <1>6. ~IsIPConfigBlocked(ipc')
    BY <1>2, <1>3 DEF Patient, IPCInv
  <1> QED BY <1>1, <1>3, <1>4, <1>5, <1>6 DEF Patient, CleanupInv, IBUInv, IPCInv, NoMutualBlock

-----------------------------------------------------------------------------
(* Type correctness. *)

\* A CR of the right type is a record of its three fields.
LEMMA TypedCR ==
    ASSUME TypeOK
    PROVE  /\ ibu \in IBUs /\ ibu.stage \in Stages /\ ibu.conds \in Conditions
           /\ ipc \in IPCs /\ ipc.stage \in IPStages /\ ipc.conds \in IPConditions
           /\ shadow.ibu \in IBUs /\ shadow.ipc \in IPCs
           /\ eager \in BOOLEAN /\ ibuPivoted \in BOOLEAN /\ ipcPivoted \in BOOLEAN
           /\ ibuWork \in BOOLEAN /\ ipcWork \in BOOLEAN /\ stale \in BOOLEAN
           /\ lock \in {"free", "ibu", "ipc"} /\ edits \in 0 .. MaxEdits
  BY DEF TypeOK, IBUs, IPCs

\* The variables one by one make the type invariant.
LEMMA Assembled ==
    ASSUME ibu' \in IBUs, ipc' \in IPCs, shadow' \in [ibu : IBUs, ipc : IPCs],
           eager' \in BOOLEAN, ibuPivoted' \in BOOLEAN, ipcPivoted' \in BOOLEAN,
           ibuWork' \in BOOLEAN, ipcWork' \in BOOLEAN, stale' \in BOOLEAN,
           lock' \in {"free", "ibu", "ipc"}, edits' \in 0 .. MaxEdits
    PROVE  TypeOK'
  BY DEF TypeOK

\* Every outcome of a handler of the IBU writes conditions that the CR can hold.
LEMMA HandleIBUTyped ==
    ASSUME TypeOK, HandleIBU
    PROVE  TypeOK' /\ eager' = eager
  <1> DEFINE c == ibuEntered
             stage == GetInProgressStage(c)
  <1>1. c \in Conditions
    <2>1. validateStageTransition(ibu.conds, ibu.stage, ibuPivoted) \in Conditions
      BY TypedCR, TransitionIs
    <2> QED BY <2>1, TypedCR DEF ibuEntered
  <1>2. stage \in Stages \cup {"None"}
    BY <1>1, InProgress
  <1> HIDE DEF c
  <1>3. lock' = "free" /\ stale' = stale /\ edits' = edits
    BY DEF HandleIBU
  <1>4. ASSUME NEW d \in Conditions, NEW p \in BOOLEAN, NEW w \in BOOLEAN, IBUOutcome(d, p, w)
        PROVE  TypeOK' /\ eager' = eager
    <2>1. WithNext([ibu EXCEPT !.conds = d], p) \in IBUs
      BY TypedCR, NextOf
    <2>2. ibu' \in IBUs
      BY <1>4, <2>1, TypedCR DEF IBUOutcome, StoreIBU
    <2>3. /\ eager' = eager /\ ipc' = ipc /\ ipcPivoted' = ipcPivoted /\ ipcWork' = ipcWork
          /\ shadow' = shadow /\ ibuPivoted' = p /\ ibuWork' = w
      BY <1>4 DEF IBUOutcome
    <2> QED BY <1>3, <2>2, <2>3, Assembled, TypedCR DEF TypeOK
  <1>5. ASSUME NEW y \in IPCs, NEW p \in BOOLEAN, ibuPivoted' = p,
               Pivot([ibu EXCEPT !.conds = c], y), UNCHANGED <<eager, ibuWork, ipcPivoted, ipcWork>>
        PROVE  TypeOK' /\ eager' = eager
    <2>1. [ibu EXCEPT !.conds = c] \in IBUs
      BY <1>1, TypedCR DEF IBUs
    <2>2. ibu' \in IBUs /\ ipc' \in IPCs /\ shadow' \in [ibu : IBUs, ipc : IPCs]
      BY <1>5, <2>1, TypedCR DEF Pivot
    <2> QED BY <1>3, <1>5, <2>2, Assembled, TypedCR
  <1>6. CASE IBUOutcome(c, ibuPivoted, ibuWork)
    BY <1>1, <1>4, <1>6, TypedCR
  <1>7. CASE stage # "None" /\ IBUStageHandler(stage)
    <2>1. \A s \in {"Prep", "Upgrade", "Rollback"} :
            SetStatusCompleted(c, s) \in Conditions /\ SetStatusFailed(c, s) \in Conditions
      BY <1>1, Reports
    <2>2. CASE stage = "Prep"
      <3>1. \/ IBUOutcome(c, ibuPivoted, TRUE)
            \/ IBUOutcome(SetStatusCompleted(c, "Prep"), ibuPivoted, TRUE)
            \/ IBUOutcome(SetStatusFailed(c, "Prep"), ibuPivoted, TRUE)
        BY <1>7, <2>2 DEF IBUStageHandler, c
      <3> QED BY <1>1, <1>4, <2>1, <3>1, TypedCR
    <2>3. CASE stage = "Upgrade"
      <3>1. \/ IBUOutcome(c, ibuPivoted, ibuWork)
            \/ IBUOutcome(SetStatusFailed(c, "Upgrade"), ibuPivoted, ibuWork)
            \/ IBUOutcome(SetStatusCompleted(c, "Upgrade"), ibuPivoted, ibuWork)
            \/ /\ ibuPivoted' = TRUE /\ Pivot([ibu EXCEPT !.conds = c], NewIPC)
               /\ UNCHANGED <<eager, ibuWork, ipcPivoted, ipcWork>>
        BY <1>7, <2>3 DEF IBUStageHandler, c
      <3>2. NewIPC \in IPCs
        BY DEF NewIPC, IPCs, IPStages, NoIPConditions, IPConditions, IPConditionReasons
      <3> QED BY <1>1, <1>4, <1>5, <2>1, <3>1, <3>2, TypedCR
    <2>4. CASE stage = "Rollback"
      <3>1. \/ IBUOutcome(SetStatusFailed(c, "Rollback"), ibuPivoted, ibuWork)
            \/ IBUOutcome(SetStatusCompleted(c, "Rollback"), ibuPivoted, ibuWork)
            \/ /\ ibuPivoted' = FALSE /\ Pivot([ibu EXCEPT !.conds = c], shadow.ipc)
               /\ UNCHANGED <<eager, ibuWork, ipcPivoted, ipcWork>>
        BY <1>7, <2>4 DEF IBUStageHandler, c
      <3> QED BY <1>1, <1>4, <1>5, <2>1, <3>1, TypedCR
    <2>5. CASE stage = "Idle"
      <3>1. \/ IBUOutcome(c, ibuPivoted, ibuWork)
            \/ IBUOutcome(ResetStatusConditions(c), FALSE, FALSE)
            \/ \E r \in {"AbortFailed", "FinalizeFailed"} :
                  IBUOutcome(SetCondition(c, "Idle", r), ibuPivoted, ibuWork)
        BY <1>7, <2>5 DEF IBUStageHandler, c
      <3>2. ResetStatusConditions(c) \in Conditions
        BY Types DEF ResetStatusConditions, NoConditions, Conditions, ConditionReasons
      <3>3. \A r \in {"AbortFailed", "FinalizeFailed"} : SetCondition(c, "Idle", r) \in Conditions
        BY <1>1 DEF SetCondition, Conditions, ConditionReasons
      <3> QED BY <1>1, <1>4, <3>1, <3>2, <3>3, TypedCR
    <2> QED BY <1>2, <1>7, <2>2, <2>3, <2>4, <2>5 DEF Stages
  <1>8. IBUOutcome(c, ibuPivoted, ibuWork) \/ (stage # "None" /\ IBUStageHandler(stage))
    BY DEF HandleIBU, c
  <1> QED BY <1>6, <1>7, <1>8

\* And so does every outcome of a handler of the IPConfig.
LEMMA HandleIPCTyped ==
    ASSUME TypeOK, HandleIPC
    PROVE  TypeOK' /\ eager' = eager
  <1> DEFINE c == ipcEntered
  <1>1. c \in IPConditions
    BY TypedCR, EnteredIPC
  <1> HIDE DEF c
  <1>2. lock' = "free" /\ stale' = stale /\ edits' = edits
    BY DEF HandleIPC
  <1>3. ASSUME NEW d \in IPConditions, NEW p \in BOOLEAN, NEW w \in BOOLEAN, IPCOutcome(d, p, w)
        PROVE  TypeOK' /\ eager' = eager
    <2>1. WithIPNext([ipc EXCEPT !.conds = d], p) \in IPCs
      BY TypedCR, IPNextOf
    <2>2. ipc' \in IPCs
      BY <1>3, <2>1, TypedCR DEF IPCOutcome
    <2>3. /\ eager' = eager /\ ibu' = ibu /\ ibuPivoted' = ibuPivoted /\ ibuWork' = ibuWork
          /\ shadow' = shadow /\ ipcPivoted' = p /\ ipcWork' = w
      BY <1>3 DEF IPCOutcome
    <2> QED BY <1>2, <2>2, <2>3, Assembled, TypedCR DEF TypeOK
  <1>4. ASSUME NEW x \in IBUs, NEW p \in BOOLEAN, NEW w \in BOOLEAN, ipcPivoted' = p, ipcWork' = w,
               Pivot(x, [ipc EXCEPT !.conds = c]), UNCHANGED <<eager, ibuPivoted, ibuWork>>
        PROVE  TypeOK' /\ eager' = eager
    <2>1. [ipc EXCEPT !.conds = c] \in IPCs
      BY <1>1, TypedCR DEF IPCs
    <2>2. ibu' \in IBUs /\ ipc' \in IPCs /\ shadow' \in [ibu : IBUs, ipc : IPCs]
      BY <1>4, <2>1, TypedCR DEF Pivot
    <2> QED BY <1>2, <1>4, <2>2, Assembled, TypedCR
  <1>5. \A s \in IPStages : \A r \in {"Failed", "Completed"} : SetIPStatusEnded(c, s, r) \in IPConditions
    BY <1>1 DEF SetIPStatusEnded, IPConditions, IPConditionReasons
  <1>6. CASE IPCOutcome(SetIPStatusInvalidTransition(ipc.conds, ipc.stage), ipcPivoted, ipcWork)
    <2>1. SetIPStatusInvalidTransition(ipc.conds, ipc.stage) \in IPConditions
      BY TypedCR DEF SetIPStatusInvalidTransition, SetIPCondition, IPConditions, IPConditionReasons
    <2> QED BY <1>3, <1>6, <2>1, TypedCR
  <1>7. CASE IPCOutcome(c, ipcPivoted, ipcWork)
    BY <1>1, <1>3, <1>7, TypedCR
  <1>8. CASE IPCStageHandler
    <2>1. CASE ipc.stage = "Config"
      <3>1. \/ IPCOutcome(c, ipcPivoted, ipcWork)
            \/ IPCOutcome(SetIPStatusEnded(c, "Config", "Failed"), ipcPivoted, TRUE)
            \/ IPCOutcome(SetIPStatusEnded(c, "Config", "Completed"), ipcPivoted, ipcWork)
            \/ /\ ipcPivoted' = TRUE /\ ipcWork' = TRUE /\ Pivot(ibu, [ipc EXCEPT !.conds = c])
               /\ UNCHANGED <<eager, ibuPivoted, ibuWork>>
        BY <1>8, <2>1 DEF IPCStageHandler, c
      <3> QED BY <1>1, <1>3, <1>4, <1>5, <3>1, TypedCR DEF IPStages
    <2>2. CASE ipc.stage = "Rollback"
      <3>1. \/ IPCOutcome(SetIPStatusEnded(c, "Rollback", "Failed"), ipcPivoted, ipcWork)
            \/ IPCOutcome(SetIPStatusEnded(c, "Rollback", "Completed"), ipcPivoted, ipcWork)
            \/ /\ ipcPivoted' = FALSE /\ ipcWork' = ipcWork
               /\ Pivot(shadow.ibu, [ipc EXCEPT !.conds = c])
               /\ UNCHANGED <<eager, ibuPivoted, ibuWork>>
        BY <1>8, <2>2 DEF IPCStageHandler, c
      <3> QED BY <1>1, <1>3, <1>4, <1>5, <3>1, TypedCR DEF IPStages
    <2>3. CASE ipc.stage = "Idle"
      <3>1. \/ IPCOutcome(c, ipcPivoted, ipcWork)
            \/ IPCOutcome(ResetIPStatusConditions, FALSE, FALSE)
            \/ IPCOutcome(SetIPCondition(c, "Idle", "Failed"), ipcPivoted, ipcWork)
        BY <1>8, <2>3 DEF IPCStageHandler, c
      <3>2. ResetIPStatusConditions \in IPConditions /\ SetIPCondition(c, "Idle", "Failed") \in IPConditions
        BY <1>1 DEF ResetIPStatusConditions, NoIPConditions, SetIPCondition, IPConditions,
             IPConditionReasons
      <3> QED BY <1>1, <1>3, <3>1, <3>2, TypedCR
    <2> QED BY <2>1, <2>2, <2>3, TypedCR DEF IPStages
  <1> QED BY <1>6, <1>7, <1>8 DEF HandleIPC, c

\* The gates and the user write a CR that is one, and nothing a step does changes
\* the kind of user.
LEMMA TypeStep ==
    ASSUME TypeOK, [Next]_vars
    PROVE  TypeOK' /\ eager' = eager
  <1>1. CASE gateIBUByIPConfig
    <2>1. \A r \in {"None", "Blocked"} :
            [ibu EXCEPT !.conds[GetInProgressConditionType(ibu.stage)] = r] \in IBUs
      BY TypedCR DEF IBUs, Conditions, ConditionReasons
    <2>2. ibu' \in IBUs /\ lock' \in {"free", "ibu", "ipc"} /\ stale' = FALSE
      BY <1>1, <2>1, TypedCR DEF gateIBUByIPConfig
    <2> QED BY <1>1, <2>2, Assembled, TypedCR DEF gateIBUByIPConfig, hostVars, TypeOK
  <1>2. CASE gateIPConfigByIBU
    <2> DEFINE x == IF ipc.next = {} THEN WithIPNext(ipc, ipcPivoted) ELSE ipc
    <2>1. x \in IPCs /\ x.stage \in IPStages /\ x.conds \in IPConditions
      <3>1. [ipc EXCEPT !.conds = ipc.conds] = ipc
        BY TypedCR DEF IPCs
      <3>2. WithIPNext(ipc, ipcPivoted) \in IPCs
        BY <3>1, IPNextOf, TypedCR
      <3>3. x \in IPCs
        BY <3>2, TypedCR
      <3> QED BY <3>3 DEF IPCs
    <2>2. ipc' = IF ipcProceeds
                   THEN IF ibuIdleOrBlocked THEN [x EXCEPT !.conds = RemoveIPStatusBlocked(@, x.stage)] ELSE x
                   ELSE WithIPNext([x EXCEPT !.conds = SetIPStatusBlocked(@, x.stage)], ipcPivoted)
      BY <1>2 DEF gateIPConfigByIBU
    <2> HIDE DEF x
    <2>3. /\ RemoveIPStatusBlocked(x.conds, x.stage) \in IPConditions
          /\ SetIPStatusBlocked(x.conds, x.stage) \in IPConditions
      BY <2>1 DEF RemoveIPStatusBlocked, SetIPStatusBlocked, SetIPCondition, IPConditions,
           IPConditionReasons
    <2>4. [x EXCEPT !.conds = RemoveIPStatusBlocked(@, x.stage)] \in IPCs
      BY <2>1, <2>3 DEF IPCs
    <2>5. WithIPNext([x EXCEPT !.conds = SetIPStatusBlocked(@, x.stage)], ipcPivoted) \in IPCs
      BY <2>1, <2>3, IPNextOf, TypedCR
    <2>6. ipc' \in IPCs
      BY <2>1, <2>2, <2>4, <2>5
    <2>7. lock' \in {"free", "ibu", "ipc"} /\ stale' = FALSE
      BY <1>2, TypedCR DEF gateIPConfigByIBU
    <2> QED BY <1>2, <2>6, <2>7, Assembled, TypedCR DEF gateIPConfigByIBU, hostVars, TypeOK
  <1>3. CASE HandleIBU
    BY <1>3, HandleIBUTyped
  <1>4. CASE HandleIPC
    BY <1>4, HandleIPCTyped
  <1>5. ASSUME NEW stage \in Stages, SetIBUStage(stage)
        PROVE  TypeOK' /\ eager' = eager
    <2>1. ibu' \in IBUs
      BY <1>5, TypedCR DEF SetIBUStage, IBUs
    <2>2. edits' \in 0 .. MaxEdits
      BY <1>5, TypedCR, MaxEditsAssumption DEF SetIBUStage
    <2>3. stale' \in BOOLEAN
      BY <1>5 DEF SetIBUStage
    <2> QED BY <1>5, <2>1, <2>2, <2>3, Assembled, TypedCR DEF SetIBUStage, hostVars, TypeOK
  <1>6. ASSUME NEW stage \in IPStages, SetIPCStage(stage)
        PROVE  TypeOK' /\ eager' = eager
    <2>1. ipc' \in IPCs
      BY <1>6, TypedCR DEF SetIPCStage, IPCs
    <2>2. edits' \in 0 .. MaxEdits
      BY <1>6, TypedCR, MaxEditsAssumption DEF SetIPCStage
    <2>3. stale' \in BOOLEAN
      BY <1>6 DEF SetIPCStage
    <2> QED BY <1>6, <2>1, <2>2, <2>3, Assembled, TypedCR DEF SetIPCStage, hostVars, TypeOK
  <1>7. CASE UNCHANGED vars
    BY <1>7 DEF vars, TypeOK
  <1> QED BY <1>1, <1>2, <1>3, <1>4, <1>5, <1>6, <1>7 DEF Next

-----------------------------------------------------------------------------
(* The theorem. *)

\* Two new CRs are at rest.
LEMMA InitPatient ==
    ASSUME Init
    PROVE  TypeOK /\ Patient
  <1>1. TypeOK
    <2>1. NewIBU \in IBUs
      BY DEF NewIBU, IBUs, Stages, NoConditions, Conditions, ConditionReasons
    <2>2. NewIPC \in IPCs
      BY DEF NewIPC, IPCs, IPStages, NoIPConditions, IPConditions, IPConditionReasons
    <2>3. 0 \in 0 .. MaxEdits
      BY MaxEditsAssumption
    <2> QED BY <2>1, <2>2, <2>3 DEF Init, TypeOK
  <1>2. RestingIBU(NewIBU) /\ CleansIBU(NewIBU) /\ ~IsIBUStatusBlocked(NewIBU)
    BY Types DEF RestingIBU, CleansIBU, IsIBUStatusBlocked, NewIBU, NoConditions, IdleInProgressReasons,
         InProgressTypes, CompletedTypes
  <1>3. RestingIPC(NewIPC) /\ CleansIPC(NewIPC)
    BY IPTypes DEF RestingIPC, CleansIPC, NewIPC, NoIPConditions
  <1> QED BY <1>1, <1>2, <1>3 DEF Init, Patient, CleanupInv, IBUInv, IPCInv, NoMutualBlock

\* What the CRs hold while one flow is on is kept by every gate, by every handler
\* and by every change of a user who waits.
LEMMA PatientStep ==
    ASSUME TypeOK, Patient, ~eager, [Next]_vars
    PROVE  Patient'
  <1>1. CASE HandleIPC
    BY <1>1, HandleWorkingIPC, HandleRestingIPC
  <1>2. CASE UNCHANGED vars
    BY <1>2 DEF vars, Patient, CleanupInv, IBUInv, IPCInv, NoMutualBlock
  <1> QED BY <1>1, <1>2, GateIBUStep, GateIPCStep, HandleIBUStep, SetIBUStageStep,
       SetIPCStageStep DEF Next

\* A user who waits for one flow to be cleaned up before asking for the other
\* never has the two controllers change the stateroots together, and never finds
\* the two CRs waiting for each other, whatever the handlers meet: the gates at
\* the start of the two reconciles (gateIBUByIPConfig and gateIPConfigByIBU) and
\* the lock that the reconcilers share are enough, across the reboots that carry
\* one CR into a stateroot with an older copy of the other.
THEOREM GatesAreSafe == Spec => []GatesSafe
  <1> DEFINE Safe == TypeOK /\ Inv
  <1>1. Init => Safe
    BY InitPatient DEF Inv
  <1>2. Safe /\ [Next]_vars => Safe'
    BY TypeStep, PatientStep DEF Inv
  <1>3. Safe => GatesSafe
    <2>1. Patient /\ ibuWork \in BOOLEAN => OneFlowAtATime /\ NoMutualBlock
      BY DEF Patient, IBUInv, OneFlowAtATime
    <2> QED BY <2>1 DEF Inv, GatesSafe, TypeOK
  <1> QED BY <1>1, <1>2, <1>3, PTL DEF Spec

\* The CRs, and the copies of them in the stateroot that is not booted, hold only
\* conditions and stages of their CRDs after every gate, handler and pivot.
THEOREM TypeCorrect == Spec => []TypeOK
  <1>1. Init => TypeOK
    BY InitPatient
  <1>2. TypeOK /\ [Next]_vars => TypeOK'
    BY TypeStep
  <1> QED BY <1>1, <1>2, PTL DEF Spec
=============================================================================
