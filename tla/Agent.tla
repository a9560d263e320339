-------------------------------- MODULE Agent --------------------------------
(***************************************************************************)
(* The two controllers that change the stateroots of a node, in one        *)
(* process: the IBU and the IPConfig reconciler share a lock, and each     *)
(* starts with a gate on the CR of the other.  What a handler does to the  *)
(* host is in the modules IBU and IPC; here a handler waits, completes,    *)
(* fails or pivots.                                                        *)
(*                                                                         *)
(* A reconcile is two steps, the gate and the handler, between which the   *)
(* user may change either CR.                                              *)
(***************************************************************************)
EXTENDS Integers, IBUStages, IPCStages

CONSTANT MaxEdits   \* bound on the user's changes

ASSUME MaxEditsAssumption == MaxEdits \in Nat

VARIABLES
    eager,          \* the user may ask for a stage of one CR while the other's flow is on
                    \* or between the gate and the handler that begins it
    ibu, ipc,       \* the CRs: spec.stage, conditions, valid next stages
    ibuPivoted,     \* the target stateroot of the IBU is booted
    ipcPivoted,     \* that of the IPConfig is, and an unbooted one is there
    shadow,         \* the two CRs in the etcd of the unbooted stateroot
    ibuWork,        \* a handler of the IBU has begun to change the host, none has cleaned up
    ipcWork,        \* a handler of the IPConfig has
    lock,           \* who is between gate and handler
    stale,          \* the CR of that reconcile has changed since it was read
    edits

vars == <<eager, ibu, ipc, ibuPivoted, ipcPivoted, shadow, ibuWork, ipcWork, lock, stale, edits>>
hostVars == <<eager, ibuPivoted, ipcPivoted, shadow, ibuWork, ipcWork>>

IBUs == [stage : Stages, conds : Conditions, next : SUBSET Stages]
IPCs == [stage : IPStages, conds : IPConditions, next : SUBSET IPStages]
NewIBU == [stage |-> "Idle", conds |-> NoConditions, next |-> {}]
NewIPC == [stage |-> "Idle", conds |-> NoIPConditions, next |-> {}]

TypeOK ==
    /\ ibu \in IBUs /\ ipc \in IPCs
    /\ shadow \in [ibu : IBUs, ipc : IPCs]
    /\ {eager, ibuPivoted, ipcPivoted, ibuWork, ipcWork, stale} \subseteq BOOLEAN
    /\ lock \in {"free", "ibu", "ipc"}
    /\ edits \in 0 .. MaxEdits

Init ==
    /\ eager \in BOOLEAN
    /\ ibu = NewIBU /\ ipc = NewIPC
    /\ shadow = [ibu |-> NewIBU, ipc |-> NewIPC]
    /\ ibuPivoted = FALSE /\ ipcPivoted = FALSE
    /\ ibuWork = FALSE /\ ipcWork = FALSE
    /\ lock = "free" /\ stale = FALSE
    /\ edits = 0

-----------------------------------------------------------------------------
(* The gates. *)

IsIBUStatusBlocked(x) == x.conds[GetInProgressConditionType(x.stage)] = "Blocked"
IsIPConfigBlocked(x) == IsIPCStatusBlocked(x.conds, x.stage)

ibuIdleOrBlocked == (ibu.stage = "Idle" /\ IsTrue(ibu.conds, "Idle")) \/ IsIBUStatusBlocked(ibu)
ipcIdleOrBlocked_ended == ~IsIPStageInProgress(ipc.conds, ipc.stage)
ipcIdleOrBlocked == (ipc.stage = "Idle" /\ IPIsTrue(ipc.conds, "Idle")) \/ IsIPConfigBlocked(ipc)

\* The other CR has no conditions yet, or is Idle or Blocked.
ibuProceeds == ipc.conds = NoIPConditions \/ ipcIdleOrBlocked
ipcProceeds == ibu.conds = NoConditions \/ ibuIdleOrBlocked

\* A blocked CR loses its in-progress condition when the other is Idle or Blocked.
gateIBUByIPConfig_keepsBlocked ==
    /\ lock = "free"
    /\ lock' = IF ibuProceeds THEN "ibu" ELSE lock
    /\ ibu' = IF ibuProceeds THEN ibu
                 ELSE [ibu EXCEPT !.conds[GetInProgressConditionType(ibu.stage)] = "Blocked"]
    /\ stale' = FALSE
    /\ UNCHANGED <<ipc, hostVars, edits>>

gateIBUByIPConfig ==
    /\ lock = "free"
    /\ IF ibuProceeds
         THEN /\ lock' = "ibu"
              /\ ibu' = IF ipcIdleOrBlocked /\ IsIBUStatusBlocked(ibu)
                           THEN [ibu EXCEPT !.conds[GetInProgressConditionType(ibu.stage)] = "None"]
                           ELSE ibu
         ELSE /\ ibu' = [ibu EXCEPT !.conds[GetInProgressConditionType(ibu.stage)] = "Blocked"]
              /\ UNCHANGED lock
    /\ stale' = FALSE
    /\ UNCHANGED <<ipc, hostVars, edits>>

WithIPNext(x, pivoted) == [x EXCEPT !.next = validIPNextStages(x.conds, x.stage, pivoted)]

\* The deferred update of the IPConfig reconcile comes after a refusal too.
gateIPConfigByIBU ==
    /\ lock = "free"
    /\ LET x == IF ipc.next = {} THEN WithIPNext(ipc, ipcPivoted) ELSE ipc IN
       IF ipcProceeds
         THEN /\ lock' = "ipc"
              /\ ipc' = IF ibuIdleOrBlocked
                           THEN [x EXCEPT !.conds = RemoveIPStatusBlocked(@, x.stage)] ELSE x
         ELSE /\ ipc' = WithIPNext([x EXCEPT !.conds = SetIPStatusBlocked(@, x.stage)], ipcPivoted)
              /\ UNCHANGED lock
    /\ stale' = FALSE
    /\ UNCHANGED <<ibu, hostVars, edits>>

-----------------------------------------------------------------------------
(* The IBU handlers. *)

\* The conditions after the transition, if one is requested.
ibuEntered ==
    IF isTransitionRequested(ibu.conds, ibu.stage)
       THEN validateStageTransition(ibu.conds, ibu.stage, ibuPivoted) ELSE ibu.conds

WithNext(x, pivoted) == [x EXCEPT !.next = getValidNextStageList(x.conds, x.stage, pivoted)]

\* The status update at the end of the reconcile, refused if the CR has changed.
StoreIBU(conds, pivoted) ==
    ibu' = IF stale THEN ibu ELSE WithNext([ibu EXCEPT !.conds = conds], pivoted)

\* A handler's outcome that leaves the node up.
IBUOutcome(conds, pivoted, work) ==
    /\ StoreIBU(conds, pivoted)
    /\ ibuPivoted' = pivoted
    /\ ibuWork' = work
    /\ UNCHANGED <<eager, ipc, ipcPivoted, ipcWork, shadow>>

\* The node reboots into the other stateroot with the CRs x and y.
Pivot(x, y) ==
    /\ ibu' = x
    /\ ipc' = y
    /\ shadow' = [ibu |-> ibu, ipc |-> ipc]

IBUStageHandler(stage) ==
    LET c == ibuEntered IN
    CASE stage = "Prep" ->
            \/ IBUOutcome(c, ibuPivoted, TRUE)
            \/ IBUOutcome(SetStatusCompleted(c, "Prep"), ibuPivoted, TRUE)
            \/ IBUOutcome(SetStatusFailed(c, "Prep"), ibuPivoted, TRUE)
      [] stage = "Upgrade" ->
            \/ IBUOutcome(c, ibuPivoted, ibuWork)
            \/ IBUOutcome(SetStatusFailed(c, "Upgrade"), ibuPivoted, ibuWork)
            \/ ibuPivoted /\ IBUOutcome(SetStatusCompleted(c, "Upgrade"), ibuPivoted, ibuWork)
            \/ /\ ~ibuPivoted
               /\ ibuPivoted' = TRUE
               /\ Pivot([ibu EXCEPT !.conds = c], NewIPC)
               /\ UNCHANGED <<eager, ibuWork, ipcPivoted, ipcWork>>
      [] stage = "Rollback" ->
            \/ IBUOutcome(SetStatusFailed(c, "Rollback"), ibuPivoted, ibuWork)
            \/ ~ibuPivoted /\ IBUOutcome(SetStatusCompleted(c, "Rollback"), ibuPivoted, ibuWork)
            \/ /\ ibuPivoted
               /\ ibuPivoted' = FALSE
               /\ Pivot([ibu EXCEPT !.conds = c], shadow.ipc)
               /\ UNCHANGED <<eager, ibuWork, ipcPivoted, ipcWork>>
      [] stage = "Idle" ->
            \/ IBUOutcome(c, ibuPivoted, ibuWork)
            \/ IBUOutcome(ResetStatusConditions(c), FALSE, FALSE)
            \/ IBUOutcome(SetCondition(c, "Idle", IF c["Idle"] \in {"Aborting", "AbortFailed"}
                                                     THEN "AbortFailed" ELSE "FinalizeFailed"),
                          ibuPivoted, ibuWork)

\* A transition whose status update is refused is not handled.
HandleIBU ==
    /\ lock = "ibu"
    /\ lock' = "free"
    /\ LET stage == GetInProgressStage(ibuEntered) IN
       IF stage = "None" \/ (stale /\ isTransitionRequested(ibu.conds, ibu.stage))
         THEN IBUOutcome(ibuEntered, ibuPivoted, ibuWork)
         ELSE IBUStageHandler(stage)
    /\ UNCHANGED <<stale, edits>>

-----------------------------------------------------------------------------
(* The IPConfig handlers. *)

ipcRequested == isIPTransitionRequested(ipc.conds, ipc.stage)

\* The conditions of an admitted transition.
ipcEntered ==
    LET c == ClearIPInvalidTransitionStatusConditions(ipc.conds) IN
    CASE ~ipcRequested -> ipc.conds
      [] ipcRequested /\ ipc.stage = "Idle"   -> SetIPCondition(c, "Idle", "InProgress")
      [] ipcRequested /\ ipc.stage = "Config" ->
            SetIPStatusInProgress(SetIPCondition(c, "Idle", "ConfigurationInProgress"), "Config")
      [] ipcRequested /\ ipc.stage = "Rollback" -> SetIPStatusInProgress(c, "Rollback")

IPCOutcome(conds, pivoted, work) ==
    /\ ipc' = IF stale THEN ipc ELSE WithIPNext([ipc EXCEPT !.conds = conds], pivoted)
    /\ ipcPivoted' = pivoted
    /\ ipcWork' = work
    /\ UNCHANGED <<eager, ibu, ibuPivoted, ibuWork, shadow>>

IPCStageHandler ==
    LET c == ipcEntered IN
    CASE ipc.stage = "Config" ->
            \/ IPCOutcome(c, ipcPivoted, ipcWork)
            \/ IPCOutcome(SetIPStatusEnded(c, "Config", "Failed"), ipcPivoted, TRUE)
            \/ IPCOutcome(SetIPStatusEnded(c, "Config", "Completed"), ipcPivoted, ipcWork)
            \/ /\ ~ipcPivoted
               /\ ipcPivoted' = TRUE
               /\ ipcWork' = TRUE
               /\ Pivot(ibu, [ipc EXCEPT !.conds = c])
               /\ UNCHANGED <<eager, ibuPivoted, ibuWork>>
      [] ipc.stage = "Rollback" ->
            \/ IPCOutcome(SetIPStatusEnded(c, "Rollback", "Failed"), ipcPivoted, ipcWork)
            \/ ~ipcPivoted /\ IPCOutcome(SetIPStatusEnded(c, "Rollback", "Completed"), ipcPivoted, ipcWork)
            \/ /\ ipcPivoted
               /\ ipcPivoted' = FALSE
               /\ Pivot(shadow.ibu, [ipc EXCEPT !.conds = c])
               /\ UNCHANGED <<eager, ibuPivoted, ibuWork, ipcWork>>
      [] ipc.stage = "Idle" ->
            \/ IPCOutcome(c, ipcPivoted, ipcWork)
            \/ IPCOutcome(ResetIPStatusConditions, FALSE, FALSE)
            \/ IPCOutcome(SetIPCondition(c, "Idle", "Failed"), ipcPivoted, ipcWork)

HandleIPC ==
    /\ lock = "ipc"
    /\ lock' = "free"
    /\ IF ipcRequested /\ (ipc.stage \notin ipc.next \/ stale)
         THEN IPCOutcome(SetIPStatusInvalidTransition(ipc.conds, ipc.stage), ipcPivoted, ipcWork)
       ELSE IF ~IsIPStageInProgress(ipcEntered, ipc.stage)
         THEN IPCOutcome(ipcEntered, ipcPivoted, ipcWork)
       ELSE IPCStageHandler
    /\ UNCHANGED <<stale, edits>>

-----------------------------------------------------------------------------
(* The user. *)

\* The validation rules of the CRDs.
SetIBUStage(stage) ==
    /\ edits < MaxEdits /\ edits' = edits + 1
    /\ stage # ibu.stage /\ (stage \in ibu.next \/ ibu.conds = NoConditions)
    /\ eager \/ ~(ipcWork \/ lock = "ipc")
    /\ ibu' = [ibu EXCEPT !.stage = stage]
    /\ stale' = (stale \/ lock = "ibu")
    /\ UNCHANGED <<ipc, hostVars, lock>>

SetIPCStage(stage) ==
    /\ edits < MaxEdits /\ edits' = edits + 1
    /\ stage # ipc.stage /\ (stage \in ipc.next \/ ipc.conds = NoIPConditions)
    /\ eager \/ ~(ibuWork \/ lock = "ibu")
    /\ ipc' = [ipc EXCEPT !.stage = stage]
    /\ stale' = (stale \/ lock = "ipc")
    /\ UNCHANGED <<ibu, hostVars, lock>>

Next ==
    \/ gateIBUByIPConfig
    \/ gateIPConfigByIBU
    \/ HandleIBU
    \/ HandleIPC
    \/ \E stage \in Stages : SetIBUStage(stage)
    \/ \E stage \in IPStages : SetIPCStage(stage)

Spec == Init /\ [][Next]_vars

FairSpec ==
    /\ Spec
    /\ SF_vars(gateIBUByIPConfig) /\ SF_vars(gateIPConfigByIBU)
    /\ WF_vars(HandleIBU) /\ WF_vars(HandleIPC)

-----------------------------------------------------------------------------
(* Correctness. *)

\* The two flows never change the stateroots of the node together: from the
\* first change of one until its cleanup the other does not begin (the gates).
OneFlowAtATime == ~(ibuWork /\ ipcWork)

\* The two CRs never wait for each other (the gates let the other proceed when
\* it finds this one Blocked).
NoMutualBlock == ~(IsIBUStatusBlocked(ibu) /\ IsIPConfigBlocked(ipc))

\* A user who waits for one flow to be cleaned up before asking for the other
\* never has both, and never finds the two CRs waiting for each other.  One who
\* does not wait may have both, and may see both Blocked until the next gate: the
\* Blocked condition of a stage that the user leaves is kept, and counts again
\* when the user comes back to that stage (the gates).
GatesSafe == eager \/ (OneFlowAtATime /\ NoMutualBlock)

\* A CR that the gate has Blocked is released once the other one stays Idle or
\* Blocked (requeueWithShortInterval after a refusal, the removal of the
\* condition by the gate).
BlockedIsReleased ==
    /\ <>[]ipcIdleOrBlocked => []<>~IsIBUStatusBlocked(ibu)
    /\ <>[]ibuIdleOrBlocked => []<>~IsIPConfigBlocked(ipc)
=============================================================================
