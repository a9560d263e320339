-------------------------------- MODULE MCIBU --------------------------------
(***************************************************************************)
(* What the documentation and the comments of the repository say of the    *)
(* image-based upgrade and the code does not keep: TLC refutes each of     *)
(* these (README.md says under which configuration).                       *)
(***************************************************************************)
EXTENDS IBUFlow

\* docs/image-based-upgrade.md: setting the stage to Idle will "Remove IBU files
\* from the file system ... Once completed, the system is ready for the next
\* upgrade".  The ibu.json that a failed pivot attempt saved is such a file.
IdleRemovesSavedCR == up /\ pc = "idle" /\ IsTrue(Current.conds, "Idle") => ~Exists(file[booted])

\* docs/image-based-upgrade.md: "It is also possible to abort the upgrade at any
\* point prior to the pivot by setting the stage to Idle".  A failed Prep is
\* prior to the pivot.
FailedPrepCanBeAborted ==
    Current.stage = "Idle" /\ IsStageFailed(Current.conds, "Prep")
        ~> Current.conds["Idle"] \in {"Idle", "AbortFailed"}

\* The same sentence: a CR that asks for Idle while the old stateroot runs
\* keeps the node from pivoting.
AbortPreventsPivot ==
    [][booted' # booted => ~(Current.stage = "Idle" /\ Current.target # booted)]_vars

\* docs/image-based-upgrade.md: "When LCA marks the upgrade complete, it shuts
\* down this monitor."
CompletedStopsMonitor == IsTrue(Current.conds, "UpgradeCompleted") => monitor[booted] = "off"

\* docs/image-based-upgrade.md: "If this point is not reached within the
\* configured timeout, the init-monitor will trigger an automatic rollback."
MonitorTriggersRollback ==
    UpgradingAfterPivot /\ monitor[booted] = "armed" ~> ~UpgradingAfterPivot

\* controllers/ibu_controller.go: "Re-create initial IBU instead of save/restore
\* when it's idle or rollback failed".  A CR in progress is saved and
\* restored.
DeletedCRIsRestored ==
    [][GetInProgressStage(deleted.conds) # "None"
           => ~(cr[booted] = NoCR /\ cr'[booted] = InitialCR)]_vars

\* controllers/prep_handlers.go: validateSeedOcpVersion "rejects upgrade request
\* if seed image version is not higher than current cluster (target) OCP
\* version".
CompletedUpgradeIsHigher == UpgradeRaisesVersion
=============================================================================
