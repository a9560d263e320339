---------------------------- MODULE UpgradeFlow ----------------------------
(***************************************************************************)
(* What the image-based upgrade promises, without the controller: a node   *)
(* that runs one stateroot and keeps at most one other, and a CR that goes *)
(* through the phases of docs/image-based-upgrade.md.  The phase says      *)
(* which of its stateroots the node may gain, lose or boot next.           *)
(*                                                                         *)
(* The phase "none" is the time in which the CR of the running stateroot   *)
(* has no status: before the operator has restored or created it.          *)
(***************************************************************************)
CONSTANT Versions

VARIABLES
    active,   \* the stateroot that runs
    next,     \* the one the next boot takes
    spares,   \* the others that can be booted
    phase     \* of the CR of the running stateroot

flowVars == <<active, next, spares, phase>>

Phases == {"none", "starting", "idle", "preparing", "prepared", "prepFailed",
           "upgrading", "upgraded", "upgradeFailed", "rollingBack",
           "rolledBack", "rollbackFailed", "aborting", "finalizing"}

(* The diagram of the stages.  Nothing follows a failed rollback: it needs
   manual recovery. *)
Follows(p) ==
    CASE p = "none"           -> {"starting", "idle", "upgrading",
                                  "upgradeFailed", "rollingBack"}
      [] p = "starting"       -> {"idle"}
      [] p = "idle"           -> {"preparing"}
      [] p = "preparing"      -> {"prepared", "prepFailed", "aborting"}
      [] p = "prepared"       -> {"upgrading", "aborting"}
      [] p = "prepFailed"     -> {"aborting"}
      [] p = "upgrading"      -> {"upgraded", "upgradeFailed", "rollingBack",
                                  "aborting"}
      [] p = "upgraded"       -> {"finalizing", "rollingBack"}
      [] p = "upgradeFailed"  -> {"aborting", "rollingBack"}
      [] p = "rollingBack"    -> {"rolledBack", "rollbackFailed"}
      [] p = "rolledBack"     -> {"finalizing"}
      [] p = "rollbackFailed" -> {}
      [] p = "aborting"       -> {"idle"}
      [] p = "finalizing"     -> {"idle"}

Init ==
    /\ active \in Versions
    /\ next = active
    /\ spares = {}
    /\ phase = "none"

Advance ==
    /\ phase' \in Follows(phase)
    /\ phase' \in {"idle", "preparing"} => spares = {} /\ next = active
    /\ UNCHANGED <<active, next, spares>>

(* A saved CR is restored: the phase starts over from what was saved. *)
Reload ==
    /\ phase' = "none"
    /\ UNCHANGED <<active, next, spares>>

(* The stateroot of an upgrade appears: while it is prepared, or while the
   attempt is being aborted. *)
Deploy ==
    /\ phase \in {"preparing", "prepFailed", "aborting", "none", "upgradeFailed"}
    /\ spares = {}
    /\ \E v \in Versions \ {active} : spares' = {v} /\ next' \in {next, v}
    /\ UNCHANGED <<active, phase>>

(* It is removed only by an abort or a finalize. *)
Discard ==
    /\ phase \in {"aborting", "finalizing"}
    /\ spares' \in SUBSET spares \ {spares}
    /\ next' = IF next \in spares' \cup {active} THEN next ELSE active
    /\ UNCHANGED <<active, phase>>

(* The next boot is chosen: by the upgrade, or by a rollback. *)
Choose ==
    /\ phase \notin {"starting", "idle", "preparing", "prepared", "prepFailed",
                     "aborting", "rolledBack"}
    /\ next' \in spares
    /\ UNCHANGED <<active, spares, phase>>

(* The node boots: the stateroots change places and the phase is the one of
   the CR found there. *)
Boot ==
    /\ active' \in {next} \cup spares
    /\ spares' = (spares \cup {active}) \ {active'}
    /\ phase' \in Phases
    /\ UNCHANGED next

Next == Advance \/ Reload \/ Deploy \/ Discard \/ Choose \/ Boot

Spec == Init /\ [][Next]_flowVars
=============================================================================
