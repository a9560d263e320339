------------------------------ MODULE IBUFlow ------------------------------
(***************************************************************************)
(* The controller of IBU implements UpgradeFlow: whatever the operator,    *)
(* the jobs, the init monitor, the user and the faults do, the node and    *)
(* the CR of the running stateroot make only the steps of the abstract     *)
(* upgrade.                                                                *)
(***************************************************************************)
EXTENDS IBU

(* The phase of a CR, from its conditions.  "starting" is a CR that was read
   as blocked or refused before it became Idle for the first time. *)
PhaseOf(x) ==
    LET c == x.conds IN
    IF ~Exists(x) \/ c = NoConditions THEN "none"
    ELSE IF c["Idle"] = "Idle" THEN "idle"
    ELSE IF c["Idle"] \in {"Aborting", "AbortFailed"} THEN "aborting"
    ELSE IF c["Idle"] \in {"Finalizing", "FinalizeFailed"} THEN "finalizing"
    ELSE IF IsStageCompleted(c, "Rollback") THEN "rolledBack"
    ELSE IF IsStageFailed(c, "Rollback") THEN "rollbackFailed"
    ELSE IF IsStageInProgress(c, "Rollback") THEN "rollingBack"
    ELSE IF IsStageCompleted(c, "Upgrade") THEN "upgraded"
    ELSE IF IsStageFailed(c, "Upgrade") THEN "upgradeFailed"
    ELSE IF IsStageInProgress(c, "Upgrade") THEN "upgrading"
    ELSE IF IsStageCompleted(c, "Prep") THEN "prepared"
    ELSE IF IsStageFailed(c, "Prep") THEN "prepFailed"
    ELSE IF IsStageInProgress(c, "Prep") THEN "preparing"
    ELSE "starting"

Flow == INSTANCE UpgradeFlow WITH
            Versions <- Version,
            active   <- booted,
            next     <- default,
            spares   <- deployed \ {booted},
            phase    <- PhaseOf(cr[booted])

(* IBU implements UpgradeFlow: the phases follow the documented diagram, a
   stateroot is added, removed or chosen for the next boot only in a phase
   that may do so, there is never more than one besides the running one, and
   a node that becomes Idle or starts to prepare has none (Reconcile,
   handleUpgrade, handleRollback, handleAbortOrFinalize, the setup job, the
   init monitor). *)
ImplementsFlow == Flow!Spec
=============================================================================
