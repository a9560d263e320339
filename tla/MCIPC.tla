-------------------------------- MODULE MCIPC --------------------------------
(***************************************************************************)
(* What the documentation of the IP configuration says and the code does   *)
(* not keep: TLC refutes each of these under the configuration ipc.cfg.    *)
(***************************************************************************)
EXTENDS IPC

PivotedConfig == up /\ Configuring /\ Current.stage = "Config" /\ Current.net = booted

\* docs/ip-configuration.md: "If the IP config flow does not complete within the
\* configured timeout, lca-init-monitor.service triggers rollback
\* automatically".  PostPivot stops the monitor before it waits for the cluster
\* to be healthy and to have the IPs.
WatchdogEndsConfig == PivotedConfig ~> ~PivotedConfig

\* docs/ip-configuration.md: "The workflow is designed to be reversible while
\* in-progress", and "transitioning to Idle after a successful Config is the
\* finalization point".
OldStaterootKeptWhileInProgress ==
    [][deployed \ deployed' # {} /\ Exists(ipc) /\ isTargetStaterootBooted(ipc)
           => ~IsIPStageInProgress(ipc.conds, "Config")]_vars

\* docs/ip-configuration.md: "The controller exports IPConfig state to
\* /var/lib/lca/ipc.json before starting the pre-pivot reboot, so that rollback
\* logic can update status messaging even across restarts."
SavedForRollback ==
    \A who \in {"service", "monitor"} :
        Initiator(who) = "switched" /\ isUnbootedStaterootAvailable => Exists(file[UnbootedStateroot])

\* docs/ip-configuration.md: the pre-pivot copies the state "and sets it as the
\* default deployment (when supported)".
SetDefaultWhenSupported == [][unit = "copied" /\ unit' = "none" => faults' # faults]_vars

\* docs/ip-configuration.md: "Once a valid transition is requested, the
\* controller clears the invalid-transition status and proceeds."
AdmittedConfigProceeds ==
    up /\ Current.stage = "Config" /\ "Config" \in Current.next
        ~> ~up \/ Current.stage # "Config" \/ IsIPStageInProgress(Current.conds, "Config")
               \/ IsIPStageCompletedOrFailed(Current.conds, "Config")

\* docs/ip-configuration.md: Idle "Performs cleanup" and "Resets conditions back
\* to a clean Idle state".  The watchdog of the Config that was aborted is not
\* left behind.
IdleStopsWatchdog == up /\ IPIsTrue(Current.conds, "Idle") => disk[booted].monitor = "off"
=============================================================================
