# A verification of the Lifecycle Agent

The Lifecycle Agent (LCA) upgrades a single-node OpenShift cluster by booting
another image: it installs the seed of the new release in a second ostree
stateroot, reboots into it, and keeps the old stateroot to roll back to. The
same repository changes the IP addresses of a node in that way, generates the
seed images, installs nodes from them and builds the USB media for that. This
directory models these parts in TLA+, checks them with TLC on small instances
and proves with TLAPS, for every value of the constants, the safety of the
upgrade and that it implements its abstract specification, of the change of IP
addresses, of the gates between the two controllers, of seed generation, of the
installer, of the reconfiguration after the pivot, of the backups of application
data and of the USB medium's payload.

Paths in this document are relative to `src/`.

## 1. Inventory of the system

| Component | State | Operations | Hard because | Module |
| --- | --- | --- | --- | --- |
| Stage machine (`controllers/utils/conditions.go`, `api/`) | conditions of the CR | which transition is valid, what it writes | conditions are written in a dozen places and read back as the state | `IBUStages`, `IPCStages` |
| IBU controller (`controllers/ibu_controller.go`, `*_handlers.go`) | the `ImageBasedUpgrade` CR: stage, seed version, conditions, valid next stages | Reconcile, one handler per stage, `InitIBU`, `DeleteFunc` | the user edits the CR while a reconcile runs; the process dies with the node on purpose; the CR moves between two etcds in a file | `IBU` |
| Host deployments (`internal/ostreeclient`, `lca-cli/ostreeclient`) | stateroots, the booted and the default one | deploy, undeploy, set-default | no transaction over several commands; older releases lack set-default | `IBU`, `IPC` |
| Stateroot setup job (`internal/prep`) | a job with a finalizer | deploys the seed | its pod reads the CR when it runs and outlives its deletion | `IBU` |
| Init monitor, reboot client (`lca-cli/initmonitor`, `internal/reboot`) | a systemd unit per stateroot, a saved CR | times out, marks the saved CR failed, changes the boot order, reboots | runs beside the controller without its lock | `IBU`, `IPC` |
| IPConfig controller (`controllers/ipc_*.go`) and host side (`lca-cli/ipconfig`) | the `IPConfig` CR, `ipc.json`, a copy of the stateroot, markers | Config, Rollback, Idle; a pre-pivot unit and a post-pivot service | stops the cluster that runs the controller; two reboots | `IPC` |
| The two controllers together (`main/main.go`) | both CRs, one lock | gates in both directions | each gate reads the other CR and later acts on it | `Agent` |
| Seed generation (`controllers/seedgen_controller.go`, `lca-cli/seedcreator`, `seedrestoration`) | the `SeedGenerator` CR, saved copies, secrets, a container, markers | deletes the operator's own cluster resources, images the node, restores them | the operator is gone while it works | `SeedGen` |
| Post-pivot (`lca-cli/postpivot`, `internal/recert`) | run-once markers, the files of the new stateroot | reconfigures the seed on first boot | crash between a step and its marker, or before it reaches the disk | `PostPivot` |
| Backup and restore (`internal/backuprestore`) | OADP objects in waves, labels, reclaim policies, object storage | one wave per reconcile, cleanup | Velero works, fails and syncs in its own time; other clusters share the storage | `Backups` |
| Extra manifests (`internal/extramanifest`) | ConfigMaps, exported files, faked namespaces | validate, export, apply, merge | read twice, interrupted and repeated | `Manifests`, `Merge` |
| Precaching (`internal/precache`) | a ConfigMap, a job, a status file | threads that pull images | foreground deletion, races on the report | `Precache` |
| Container storage (`internal/imagemgmt`) | images, containers | removes images in batches | containers start meanwhile | `Storage` |
| Installer (`lca-cli/ibi-preparation`, `lca-cli/localimages`) | `prepare.json`, the disk, an authfile, a read-only store | prepares a disk from a medium | wipes; every later boot of the stick must know | `Installer` |
| USB media (`lca-cli/createusb`) | OCI layout, digest manifest, store, the image file | mirrors, commits, partitions, fills | two builds at a time, killed builds, power losses | `USBLayout`, `USBImage` |
| Health checks, cluster configuration export, network policies, most host operations | files and commands | sequential | I/O | none |

The components meet in four places. A CR is shared by the user, its controller
and a pod or unit; the API server refuses a status update of a CR that changed
since it was read, and nothing else orders them. The host (boot order,
stateroots, kubelet) is shared by two controllers, units and the init monitor;
only the controllers have a lock. A saved CR (`ibu.json`, `ipc.json`, the files
of seed generation) is how a stateroot, or the operator, tells its successor
what it was doing. And the helpers of Prep and Upgrade share objects with
Kubernetes' and Velero's controllers, which act in their own time.

What makes it correct: the node can always boot; until finalize there is a way
back; no pivot happens twice or without the CR; a reported outcome is the real
one; the cluster never runs on a half configured node; Idle means clean; what
the user declared, backed up or owns is kept; and every started stage ends.
PROJECT.json lists, under "hazards", the lines where these can go wrong.

## 2. Modules

Names follow the code. An action is one handler or one step of it: a handler is
split where something else can come between (a status update, a write to the
host, a wait), and only there. Operators whose name ends in a suffix such as
`_noWait` are deliberate mistakes, defined before the operator they would
replace; each checked property is broken by one of them (PROJECT.json,
"mutants").

**`IBUStages`, `IPCStages`** hold the stage machines as pure operators. A CR's
conditions are a function from condition types to reasons; the status of a
condition follows from its type and reason, because every setter writes one
status per pair.

**`IBU`** is the upgrade of one node. A stateroot is named after the version it
holds. `booted`, `default`, `deployed` are the host; `cr[s]`, `file[s]`,
`staterootJob[s]`, `precacheJob[s]`, `monitor[s]` are what the etcd and the disk
of stateroot `s` hold; `pod` is the version the running setup pod has read;
`up`, `pc`, `ibu`, `fresh`, `queued` are the operator process: where its
reconcile stands, the CR in its memory, whether a status update would succeed;
`deleted` is a delete event on its way. `Reconcile` reads the CR and decides the
transition, `ReconcileTransition` stores it (or ends on a conflict), a handler
runs, `ReconcileFinal` stores the result. What a handler waits for (health,
backups, manifests) is a choice to wait, to fail or to go on. `SetSpec` is any
change that the CRD's rules admit; `OperatorCrash` and `NodeCrash` happen at any
step.

**`UpgradeFlow`** is what the upgrade promises: one stateroot that runs, at most
one spare, and a CR that moves along the documented stages; the phase says which
stateroot the node may gain, lose or boot. **`IBUFlow`** maps `IBU` to it:
`active` is `booted`, `next` is `default`, `spares` is `deployed` without
`booted`, and `phase` is `PhaseOf` of the conditions in the CR of the booted
stateroot. `ImplementsFlow` says that every step of the controller, the jobs,
the monitor, the user and the faults is a step of the abstract upgrade or none
at all.

**`IPC`** is an IP change of one node. A network is a number and the stateroot
is named after it; `disk[s]` holds its network, the one recert has rewritten it
for, its markers, whether kubelet is enabled and its monitor. `unit` and
`service` are the positions of `lca-ipconfig-pre-pivot` and
`ip-configuration.service`, which go on without the operator; `running` says
that the cluster runs. A unit stops for good when a cleanup has taken its
deployment (`UnitBlocked`). Each `RunOnce` step of the service is its work and
then its marker (`applyNetworkConfiguration`, `MarkNetwork`; `runRecert`,
`MarkRecert`), so that the node may die between the two, and `RunOnceSkips` is
the `stat` that fails otherwise than by a missing file, which `RunOnce` takes for
a marker. The faults are counted by kind (death of the operator, deletion of the
CR, failed `stat`, any other), so that a property can say which ones it
tolerates; `MaxEvents` bounds them and the edits together.

**`Agent`** composes the two stage machines: one reconcile at a time holds the
lock from its gate to its handler; `ibuWork` and `ipcWork` say that a handler
has begun to change the host and none has cleaned up. `eager`, chosen at first,
says whether the user asks for one flow while the other is on. What the handlers
do to the host is in `IBU` and `IPC`, each of which takes the other CR as Idle.

**`SeedGen`** has the reconciler (`op`), the imager (`imager`, `container`,
`rc`), kubelet, the certificates, the archive and the pushed image as what they
hold of the seed cluster. `OperatorStart` and `Start` are the start of the
operator with `InitIBU`, `initSeedGen` and `InitIPConfig`, each call of which may
fail and make the program exit (`StartFails`, `initPullFails`). `pull` is the
pull-secret in etcd, `auth` the file that MCO writes from it (`MCOSync`) and that
`validateSystem` and `waitForPullSecretOverride` read. The deferred functions of
`generateSeedImage` may fail without notice (`DeferredFails`), or panic, because
`waitForPullSecretOverride` ignores the error of the update and uses its result
(`Panics`). `skip` is the environment variable that skips recert, `Skips` a
`RunOnce` whose mark is there or cannot be looked at.

**`PostPivot`** is `lca-cli post-pivot`, started again until it succeeds. `files`
is the disk as programs see it, `views` what a power loss may leave of it: writes
reach the disk in order but late, and a sync makes the present view the only one.
Addresses and networks are their family and whose they are.

**`Backups`** is one upgrade after another with its backups; `cl` and `prev` are
the clusters of the two stateroots, `storage` the object storage that outlives
both. Velero (external) starts, completes, fails, syncs and deletes. Volumes are
patched, and patched back, one per step, with a failure or a restart possible
between any two. A list call whose discovery error the code takes for OADP not
being installed is a fault of its own kind, `probe`, in each of the four places
that swallow it. `EditConfigMap` may replace the ConfigMap by any other that
passes the validation, during the upgrade.

**`Manifests`** validates, exports and applies; the content of an object is a set
of fields. The policies are taken by their wave, a wave that is no number as 0;
enforced and disabled ones, those without a wave and those whose name is not a
child policy's are ignored, and a compliance type nobody knows is an error.
`ObjectOf` puts the apply type only into annotations that are there, as the code
does. **`Merge`** is `mergeSpecs` as a function on JSON values, checked against
what a merge has to satisfy; lists are compared as the code does it, sorted by
what they print as (`sortAndSprint`) and then pair by pair. It has recursive
operators, so no theorem may reach it. **`Precache`** has the operator, Kubernetes
and the threads of the workload; a failed write of the status file is only logged
and leaves it as it was, absent or cut off. The garbage collector takes a deleted
job or ConfigMap away in its own time, so that the next Prep may meet it.
**`Storage`** has the cleanup and the containers that start and go.
`MCPrep` runs these four side by side: they share no state, so a behaviour is one
of any of them.

**`Installer`** is the prepare phase from the guard to the pivot or power-off,
on any boot of the stick; `p4` is `prepare.json` as read back and as durable,
`signal` the only thing the technician sees.

**`USBLayout`** fills the root directory that builds share (layout, digest
manifest, pinned configuration, store) under its lock, with what is durable of
it; **`USBImage`** makes the image from it. `MCUSB` runs both.

**`IBU_proofs`, `IPC_proofs`, `Agent_proofs`, `SeedGen_proofs`, `PostPivot_proofs`,
`Backups_proofs`, `Installer_proofs`, `USBLayout_proofs`** extend the module in
their name, `IBU_proofs` also `IBUFlow`, and hold its theorems (section 5). No run
uses them.

Of the `MC` modules, `MCIBU`, `MCIPC`, `MCSeedGen` and `MCPostPivot` also hold
the sentences of the documentation that the code does not keep (section 4).

## 3. Runs

| Run | Bounds | States | Properties |
| --- | --- | --- | --- |
| `ibu_faults` | 2 versions, 4 edits, 2 faults | 377k | `TypeOK`, `RollbackKept`, `NoUpgradeLoop`, `IdleIsClean`, `UpgradeAccounted`, `ImplementsFlow` |
| `ibu_live` | 3 versions, 6 edits | 191k | `UpgradeRaisesVersion`, `StagesTerminate` |
| `ibu_delete` | 2 versions, 3 edits, 1 deletion, no set-default, seed changed outside Idle | 335k | `BootableHost`, `RebootCarriesCR` |
| `ipc` | 2 networks, 3 edits, 2 faults, 4 of them together | 473k | `ClusterMatchesNetwork`, `StatusTrue`, `NoConfigLoop`, `RollbackCarried`, `ClusterComesBack` |
| `agent` | 5 edits | 447k | `GatesSafe`, `BlockedIsReleased` |
| `seed` | 2 CRs, 3 faults of any kind | 1.3M | `CompletedMeansPushed`, `CompletedMeansRestored`, `SeedIsClean`, `GenerationEnds` |
| `pp` | 8 inputs, 1 failing step, 1 crash | 434k | `RecertSafe`, `DisabledWhenConfigured`, `ClusterIDStable`, `EventuallyConfigured` |
| `br` | 2 upgrades, 3 ConfigMaps, 1 edit, 1 fault, a foreign backup | 737k | `RestoreFromThisUpgrade`, `DataCarried`, `IdleIsClean`, `Settles` |
| `inst` | 6 configurations, every defect of the medium, 3 failures, 3 power losses, 4 boots, 1 reset | 612k | `InstallSafe`, `RecordRespected`, `Terminates` |
| `prep` | 1 edit and 2 faults (manifests), 2 Preps, 2 threads, 2 tries (precaching), 3 images in batches of 2 (storage), enumerated pairs (merge), 4 sets of policies | 1.2M | `ManifestsHonoured`, `UsersNamespacesKept`, `MergeLaw`, `PrecacheTrue`, `CleanupCareful` |
| `usb` | 2 builds, 2 images, 1 moved tag, 1 failure, 1 kill, 1 power loss; ISOs, payloads and sizes around every limit | 730k | `MediumSound`, `BuildsSound`, `LayoutBuildsEnd` |
| `doc_agent_gate` | 2 edits | | `OneFlowAtATime`, violated |

Why the bounds are enough. Four edits are Prep, Upgrade, Rollback or Idle and
one more change at the wrong moment; six reach the end of a second upgrade, for
which the third version is there. Two faults put one crash inside the recovery
from another. Three edits of the IPConfig are a Config, its end and the next
Config on what the first has left. `ipc` stops at four edits and faults together
to stay short; all three edits with both faults (`MaxEvents = 5`, 1.1 million
states) were checked once as well. Five edits of the two CRs start, interrupt
and end a flow of each, and are the fewest with which an impatient user makes
both gates block. Two seed generations show what the first leaves to the
second, and three faults cover one in the generation or its deferred functions,
one in the imager and one in the restart. Post-pivot is sequential: one failing step and one
crash, at any point and in either order, meet every marker with its work done,
half done or lost. The second upgrade of `br` is what may mistake the backups of
the first; the names of its waves are against their order. Two builds of a USB
medium are the smallest that race. `Storage` has batches of which the last is
not full, `USBImage` sizes on both sides of each limit.

Deadlock checking is off where the bounds used up leave an idle system with
nothing to do, and on in `agent`, where a reconcile is always possible.

Fairness. `IBU`, `IPC`, `Backups`: the operator's steps are weakly fair, because
controller-runtime retries whatever is queued and handlers requeue; so are the
systemd units and the timer of the monitor. The gates of `Agent` are strongly
fair: both reconcilers requeue and a mutex that is released again and again is
granted. `SeedGen`: the reconcile, the imager and kubelet go on, and a health
check that passes again and again is seen to pass. `PostPivot`: systemd boots
the machine and restarts the unit. Velero's controllers are fair to each object
but may fail it. `Installer` and `USBLayout`: a process goes on while it lives.
Nothing is assumed of the user, the jobs, the health of the cluster or the
outcome of any call, so that a handler may wait for ever where the code would.

Several properties are conjunctions of statements that have their own names and
comments in the modules (`UpgradeAccounted`, `StatusTrue`, `RecertSafe`,
`DataCarried`, `InstallSafe`, `ManifestsHonoured`, `PrecacheTrue`,
`MediumSound`, `BuildsSound`, ...): one run decides all of them.

### Conditions

Some properties hold under a condition on the faults that have happened; it is
part of their definition. What happens otherwise, each seen in a counterexample
of TLC when the condition is removed:

| Property | Condition | Otherwise |
| --- | --- | --- |
| `StatusTrue`, `NoConfigLoop` | the operator's pod does not die | `InitIPConfig` restores an older `ipc.json`, or consumes the one the rollback needs |
| `ClusterMatchesNetwork` | the operator's pod does not die | a restarted operator restores the failed Config, may clean up and take a new network while the unit of the old one goes on; with five edits and two faults |
| the same three | every `RunOnce` marker can be looked at | an error of `stat` other than not-exist counts as done (`utils/utils.go:158`): recert is skipped and kubelet starts on the certificates of the old address, or both steps are and the Config never takes place |
| `ClusterComesBack` | no fault, no Config started with the monitor of an aborted one armed | the unit fails after kubelet was disabled; the monitor of the aborted Config rolls back in the midst of the next |
| `GatesSafe` | the user does not ask for one flow while the other is on | both run (`doc_agent_gate`), and both may be Blocked until the next gate releases one |
| `CompletedMeansPushed` (the archive of `/var`) | the imager's marks can be looked at | `RunOnce` skips the archive and an image without it is pushed |
| `SeedIsClean` | the operator does not die on its own | it restarts before the imager has stopped the cluster and puts the CRs and the pull-secret back, into the image |
| `SeedIsClean` (certificates) | recert is not skipped, and the imager's marks can be looked at and removed | the seed holds the original certificates |
| `CompletedMeansRestored` (pull-secret) | neither the operator nor the node dies, no replacement of the pull-secret fails | the saved files are renamed before the pull-secret is restored, and the next start finds nothing to do; after a failed restore a second CR may pass `validateSystem`, which reads the file that MCO has not yet written, and save the empty secret as the original |
| `CompletedMeansRestored` (certificates) | the imager's marks can be looked at and removed | `RestoreSeedCluster` restores them only if it sees `recert.done` |
| `DisabledWhenConfigured`, `RecertOffline` | the copy of the device is not interrupted, markers can be looked for | `RunOnce` takes an error of `stat` for a marker (`utils/utils.go:158`); a half copied folder is not copied again |
| `ClusterIDStable` | no power loss after a failed sync of the ID's directory, or after a process killed before that sync | the retry finds the file and does not sync it again |
| `NothingLost`, `NoBackupsLeft`, `Settles`, `RestoreFromThisUpgrade` (of this upgrade) | the ConfigMap is not edited during the upgrade, no probe for OADP fails | the ConfigMap is read for the backups and again for the restores; a failed list call is taken for OADP not being installed |
| `BackupHoldsListed`, `WavesInOrder` | the same | an edit that moves an object to another backup of its wave takes the label from the first while it is made; one that swaps the waves of backups that exist makes their order wrong |
| `PoliciesKept`, `RetainWhenBackedUp` | no probe for OADP fails | the cleanup of the upgrade before is skipped, and its backups and policies are still there |
| `RetainWhenBackedUp` | volumes that were there when the backups began | a volume bound later is backed up with the policy Delete |
| `AppliedAsDeclared` | no failure, or no edit and no object declared twice | the export leaves the files of an earlier attempt, and the application starts over without what it has removed |
| `AppliedAsDeclared` | no policy has a musthave object without annotations (`TypesKept`) | the map with the apply type is made and never stored (`internal/extramanifest/policy.go:129`), and the object is replaced instead of merged |
| `MergeLaw` | no list item that is not a map meets an empty map (`Shadowed`) | the shadowed variable of `internal/extramanifest/merge.go:149` is nil there, equal to the empty map, and the template's item becomes null |
| `CompletedMeansCached` (the seed's list) | the ConfigMap of the last Prep is gone when the pod starts | AlreadyExists is accepted (`internal/precache/precache.go:120`) and the images of the other seed are pulled; those of the list it was given are all there |
| `FinalReportTrue` | the last write of the report did not fail | the error is logged (`internal/precache/progress.go:62`) and the job completes over a report that is old, cut off or missing |
| `NoDisallowedExported` | no edit after the validation | the types are checked in Prep only |
| `InUseKept` | an image is pinned before the cleanup asks which are | it may be removed; a container that starts late still protects its image |
| `StoreWhole` | no power loss | nothing of the store is synced |

The ConfigMaps of `br` list no object in two backups of a wave and no backup in
two restores: with those (`Shared`, `SameTwice` in `MCBackups`) the label of one
backup replaces that of the other, and the check for pairs, which compares
numbers, passes with a backup that is never restored.

## 4. Where the documentation and the code differ

`doc_agent_gate` is a run of the project: a Config requested while Prep is in
progress. The gate of the IBU turns the condition in progress into Blocked,
which the gate of the IPConfig takes for permission, and both flows change the
stateroots.

The following sentences are definitions of the modules too. TLC refutes each
when it takes the place of the properties in the named configuration.

| Configuration | Definition | What happens |
| --- | --- | --- |
| `ibu_faults` | `IdleRemovesSavedCR` | the pivot fails after `exportForUncontrolledRollback`; abort cleans up, but `ibu.json` stays, and the next start of the operator restores the failed upgrade |
| | `CompletedStopsMonitor` | stopping the monitor fails; the upgrade is reported complete |
| `ibu_live` | `FailedPrepCanBeAborted` | Prep for the version that runs already fails; Idle is offered and requested, and nothing happens |
| | `AbortPreventsPivot` | Idle is requested while PrePivot runs; the node reboots into the new stateroot |
| | `MonitorTriggersRollback` | the monitor is stopped, the completed status is lost to an edit, the upgrade then waits without a monitor |
| `ibu_delete` | `DeletedCRIsRestored` | the CR is deleted with a reconcile queued; the initial CR replaces it |
| | `CompletedUpgradeIsHigher` | after Prep the version is changed to the running one with stage Idle, then the stage to Upgrade, before a reconcile; the upgrade completes without a pivot |
| `ipc` | `WatchdogEndsConfig` | the monitor is stopped before the cluster is known to be healthy, and nothing else bounds the wait |
| | `OldStaterootKeptWhileInProgress` | an Idle request admitted before the pivot removes the old stateroot after it, with the Config in progress |
| | `SavedForRollback` | the operator restarts while the unit collects its inputs and consumes `ipc.json`; the automatic rollback changes the boot order and gives up |
| | `SetDefaultWhenSupported` | (with `SetDefaultFeature = FALSE`) the unit fails after it has stopped the cluster and copied the state |
| | `AdmittedConfigProceeds` | one failed status update leaves a CR without valid next stages, and every later reconcile refuses the stage |
| | `IdleStopsWatchdog` | a Config aborted right after the pivot ends Idle with its monitor armed |
| `pp` | `CopiesEverything` | the copy from the device creates the folder whose presence makes a retry skip it |
| | `SummaryMeansFailed` | recert succeeds and is interrupted before its marker; every retry stops at its summary |
| | `RecertToldNetworks` | a configuration with the deprecated single network passes the validation, and recert is not told of it |
| `seed` | `FailedMeansNotPushed` | kubelet starts before the imager's container has exited; the operator looks too early and reports a failure |
| | `FailedRestoresPullSecret` | the wait for the emptied pull-secret times out before its restoration is deferred |
| | `ImagerLaunchedOnce` | a restart while the CR says that it is finalizing starts a second imager |
| | `OperatorRecovers` | a restart between the two saved files: the operator refuses to start, for ever |
| `br` | `IdleNoRequests` | the request to delete a stale backup has no label; a failed one stays at Idle and blocks the next |
| `inst` | `NeverRewipes` | power is lost between the wipe and the record; the next boot wipes again |
| | `AbsentMeansUntouched` | writing the record fails after the wipe |
| `prep` | `PrepFailsForCause` | a repeated Prep meets the Terminating namespace of its predecessor |
| | `P!FailsForOwnJob` | a Prep requested from Idle meets the deleted job of the last one and fails |
| `usb` | `I!FailedLeavesNoImage` | the finalisation, or the removal, fails |
| | `StoreMatchesLayout` | the lock is free between the layout and the store of a build |
| | `BinaryMatchesImage` | `--lca-image` is resolved for its binary and again for the mirror |
| | `SignedStaysSigned` | (with `Signed = {0, 1}`) the tag moves between the copy of an image and the request for its signatures |

## 5. Proofs

All theorems hold for every value of the constants that the named assumptions
of the modules admit: any number of versions, inputs, configurations, media,
edits, failures and crashes. Each proof has one lemma per action, or per group
of actions that disturb the same part of the invariant, and lemmas about the
operators they use.

### The upgrade (`IBU_proofs`)

| Theorem | States | Under |
| --- | --- | --- |
| `TypeCorrect` | `[]TypeOK` | |
| `AlwaysBootable` | `[]BootableHost` | |
| `RollbackIsKept` | `[]RollbackKept` | `Supported`, `MonitorRetired` |
| `NeverLoops` | `[]NoUpgradeLoop` | the same |
| `IdleIsAlwaysClean` | `[]IdleIsClean` | the same |
| `UpgradeIsAccounted` | `[]UpgradeAccounted` | the same |
| `UpgradeOnlyRaises` | `[]UpgradeRaisesVersion` | the same |
| `RebootAlwaysCarriesCR` | `RebootCarriesCR`, an action property | the same |

`TypeOK` is not inductive: the list of valid next stages is computed from the
stage of the CR in memory, and that of a CR that does not exist is no stage.
`TypeInv` adds that whenever a reconcile or `InitIBU` is past its first step
there is a CR in memory. `BootableHost` is inductive by itself: set-default and
deploy choose a deployment that is there, cleanup never takes the booted
stateroot and moves the boot order on, a reboot or a crash boots a deployment.

The other six rest on one inductive invariant, `Inv`. None of them is inductive,
because a CR is not only in the etcd of the stateroot that runs: it is in the
memory of a handler between two of its steps, in a file that another stateroot
will read, and in the etcd of a stateroot that was left. The parts of `Inv` are

* `SoundInv`: which conditions can be together (`Consistent`), which of them the
  old and the new stateroot can have (`Sound`), and what a saved CR says
  (`Saved`). Without it a restored CR could hold anything;
* `FitsInv`: what the host holds while a CR is in a stage, for the stored CRs
  and for the one in memory, which may be ahead of it or behind;
* `LifeInv`, `MemInv`: when there is a CR at all, and how stale the one in memory
  can be at each step. It is what makes the status update at the end of a
  handler keep the others;
* `HostInv`: at most two stateroots, a setup job that runs only while there is
  one;
* `PivotInv`: what PrePivot, a rollback and an automatic rollback have done before
  each of their steps, so that the reboot at the end carries the CR;
* `RememberInv`, `NewInv`, `LoopInv`: what each stateroot knows of an upgrade that
  has left it. Every one that can be booted while there are two has a saved CR
  or conditions; only the new one, which has the highest version, has an armed
  monitor; and an old one whose CR is still upgrading has the saved CR that says
  the upgrade failed.

TLC checked `Inv` on the instance of `ibu_faults`, and on three versions with
five edits and one fault, before it was proved. The two hypotheses:

* `Supported == SetDefaultFeature /\ ~Retarget /\ MaxDeletes = 0`, a condition on
  the constants that `ibu_faults` and `ibu_live` satisfy. With `Retarget`, a
  version edited after Prep, `NoUpgradeLoop` fails (see `CompletedUpgradeIsHigher`
  in section 4 for what else does); without set-default a power loss in Prep
  boots the new stateroot without a CR, and `IdleIsClean` and the memory of the
  upgrade are gone; a deleted CR takes its conditions with it.
* `[]MonitorRetired`: no init monitor is armed while the CR of the booted
  stateroot says Idle. The code does not guarantee it: `upgrade_handlers.go:470`
  logs that stopping the monitor failed and completes the upgrade
  (`CompletedStopsMonitor` in section 4). The hypothesis is needed: with three
  versions, five edits and two faults TLC finds that the monitor of the first
  upgrade fires in the second one, after the CR was exported to the new stateroot
  and before it was saved in the old one. It reboots into the new stateroot, and
  when the old one is booted again it has no saved CR and upgrades again, which
  violates `NoUpgradeLoop`. `ibu_faults` has two versions and does not come to a
  second upgrade; its runs are without the hypothesis.

### The refinement (`IBU_proofs`)

`FlowImplemented` states `ImplementsFlow`, that `IBU` implements `UpgradeFlow`
under the mapping of `IBUFlow`, from the same two hypotheses. The initial states
map to initial ones (`FlowFirst`). Every step maps to a step of the abstract
upgrade or to none (`FlowNext`): a stored transition, or the status at the end of
a handler, to `Advance`; `InitIBU` that replaces a CR to `Reload`; the pod of the
setup job to `Deploy`; cleanup to `Discard`; set-default, by a handler, the
monitor or the user, to `Choose`; a reboot or a power loss to `Boot`; and everything
that changes neither the host nor the phase of the stored CR to a stutter.

`Inv` is not enough for that, because the abstract upgrade looks at the stored
phase and a handler at the one in memory. `FlowInv` adds `PhaseInv` (a handler
works on the stored phase, and what it is about to store may follow it),
`CarryInv` (a CR past Idle has begun Prep; one that was rolled back still has the
other stateroot; no setup job runs during finalize; no monitor beside a failed
Prep) and `ReturnInv` (a CR saved by a rollback is consumed before the operator
runs). TLC checked it as well before it was proved.

### The IP change (`IPC_proofs`)

| Theorem | States | Under |
| --- | --- | --- |
| `TypeInvariant` | `[](TypeOK /\ BootableHost)` | |
| `MatchesNetwork` | `[]ClusterMatchesNetwork` | |
| `StatusIsTrue` | `[]StatusTrue` | |
| `ConfigDoesNotLoop` | `[]NoConfigLoop` | |
| `RollbackIsCarried` | `RollbackCarried`, an action property | `[]Tolerated` |

The three properties in the middle have their condition, `Tolerated`, in their
definition (section 3): the operator's pod has not died and no `stat` of a
`RunOnce` marker has failed. `RollbackCarried` has none, and after one of these
it is only model-checked. `TypeInvariant` has no condition at
all: whatever dies, the node has a deployment to boot. That one is about the
unit and the operator together. A restarted operator may clean up the stateroot
that the unit is working on, and the unit must then fail before it makes that
stateroot the default.

The others rest on `IPCInv == TypeInv /\ (Tolerated => Core /\ ServiceOK)`. The CR
of an IP change is in the etcds of two stateroots, in their `ipc.json` and in the memory
of a handler, and after every reboot `InitIPConfig` may pick any of them; the
properties look only at the one that was picked. `Core` says of each that it is
true of its stateroot. Its parts:

* `HostOK`: recert follows the network, both are those of the plan, and where a
  cluster runs both are marked (`DiskOK`); at most two stateroots, one of them
  planned (`PairOK`); a monitor or a service that has switched the default
  deployment has a place to go (`SwitchOK`);
* `UnitOK`: what the target and the booted stateroot hold at each step of the
  pre-pivot unit, the copies of the CR among it;
* `StoresOK`: a CR that `InitIPConfig` can still find in a stateroot starts there
  only a Config that has not run (`Startable`), says completed only of the network
  that is there (`Applied`), and says Idle only of a clean host (`IdleClean`);
* `OperatorOK`, `PlaceOK`: how far the CR in memory can be from the stored one,
  and what the place of the reconcile says of it.

`ServiceOK` is about `ip-configuration.service`: between a step and its marker,
and until kubelet is enabled, the cluster is down and the work done is that of
the plan.

TLC has checked `IPCInv` on the instance of `ipc`, and `Core`, before the steps of
the service were split, also with two networks, five edits and two faults, with
three networks and four edits, with three edits and four faults, and without
set-default. One restriction of the model carries
over to the theorems: of the operator's deaths, the deletions of the CR and the
failed `stat`s there is at most one in a behaviour, and nothing else goes wrong
beside one of the last two.

### The two controllers (`Agent_proofs`)

`GatesAreSafe` states `GatesSafe`: a user who asks for one flow only when the other
is cleaned up never has both at once and never sees the two CRs wait for each
other. A gate looks at the other CR once, so the invariant (`Patient`) says what
that look is worth. While a flow is on, its CR is not one that the other gate
takes for permission (`WorkingIBU`, `WorkingIPC`), and it finds the other CR quiet,
here and in the stateroot that a rollback goes back to, where an older copy of
that CR waits (`IBUInv`, `IPCInv`). A CR at rest holds few combinations of
conditions and next stages, none of which lets the user go back to a stage whose
Blocked condition was left behind (`RestingIBU`, `RestingIPC`). A CR that is being
cleaned up has no other stage to go to, so the status update that ends the
cleanup is not refused (`CleanupInv`); without that the flow would be over and its
CR not Idle. TLC checked the invariant with six edits before it was proved.
`TypeCorrect` is the type invariant.

### Seed generation (`SeedGen_proofs`)

`CompletedIsPushed`, `CompletedIsRestored` and `PushedSeedIsClean` state
`CompletedMeansPushed`, `CompletedMeansRestored` and `SeedIsClean`, for every set of
kinds of faults, with the conditions of section 3 in their definitions. The
invariant says, at each step of the operator and of the imager, what is gone of
the cluster until the archive is made (`CleanInv`), where the seedgen secret
(`SecretInv`) and the pull-secret (`PullInv`) are, which of the imager's marks
stand for what (`MarksInv`), and whose container is there (`PushInv`). The hard
parts are a container left by an earlier generation, which `PushInv` shows nobody
looks at until it has been removed, and the secret, which a start of the operator
deletes before it creates it again: until the CR can be taken for finished, its
copy stays in the workspace. For the pull-secret there is no such copy once the
files are renamed, which is where the conditions come from.

What the conditions of section 3 do not excuse is in the properties as it is: the
IPConfig CR, which every start of the operator makes (`main/main.go:265`), is in
every seed, since `generateSeedImage` deletes the other two CRs only. TLC has
checked the invariant on the instance of `seed`.

### Post-pivot (`PostPivot_proofs`)

`RecertIsSafe`, `DisablesWhenConfigured` and `ClusterKeepsID` state `RecertSafe`,
`DisabledWhenConfigured` and `ClusterIDStable`. The invariant quantifies over the
disks that a power loss may leave: on each of them a run-once marker stands for
work that is there (`MarkersTrue`), a disabled service comes back rather than the
other way (`ServiceInv`), and where a boot would start kubelet recert has run
(`KubeletInv`). `HostInv` and `ClusterInv` add what was done before each step. Writes
that reach the disk in order are what makes it inductive.

### Backups (`Backups_proofs`)

| Theorem | States | Under |
| --- | --- | --- |
| `IdleClean` | `[]IdleIsClean` | `EachRestored` |
| `OwnRestores` | `[](edits = 0 => RestoreFromThisUpgrade)` | the same |
| `NothingLeftBehind` | `[](edits = 0 => DataCarried)` | the same, `ListedOnce` |

They hold for every set of ConfigMaps, other clusters in the storage, upgrades,
failed calls and edits. `EachRestored` says that in a ConfigMap which passes the
validation each backup has a restore. `ValidateOadpConfigmaps` only counts
(`PairedCRs`): with two restores of one backup and none of the other, the data
of the other is left behind, and a cleanup in the new cluster that comes before
Velero has synced it does not find it (TLC shows both with `SameTwice`).
`ListedOnce` says that no object is in the lists of two backups of a wave: there
is one label per object, and the backup that is labelled last takes it from the
first. With `edits = 0` the user has not changed the ConfigMap during an
upgrade. The run edits it once, between ConfigMaps that differ in their backups,
in the waves of the same backups and in the backup that lists an object; what
holds all the same is that a restore is of a backup of this cluster, that the
volumes are retained and that they have their own policy again at Idle.

The first part is about order. `SortAndGroupByApplyWave` and the loading of the
exported files choose a sorted sequence (`InOrder`), so what is known of them is
that there is one: `SortExists` puts each element of a finite set at the number of
those before it, by the cardinality theorems of the library. From it follow what the
groups are (`GroupsSorted`), that the exported files name each restore once, by
group and index (`ExportedFiles`), and that loading them gives the waves again
(`LoadedSorted`).

The invariant has the parts

* `VolumesInv`: a backup of this cluster that is still to be made finds its volumes
  retained, and outside an upgrade they are as their owners left them. This and the
  control (`FlowInv`) hold whatever is edited; the rest does while nothing is;
* `PairedInv`, `SnapInv`: the ConfigMap was validated, the files are its restores,
  and the groups a reconcile works on are those of the one or the other;
* `SeedInv`, `HomeInv`: the new cluster knows only backups that are stored, has no
  restore without its backup, and cannot be finalized before all are restored,
  while the old cluster keeps what a rollback comes back to;
* `OwnInv`: each stored backup of this cluster is of this upgrade, has the definition
  of the ConfigMap, and is known in the cluster that made it. It is what a cleanup
  needs to find them all, and the reason for `EachRestored`: after the pivot the new
  cluster knows them because it has restored from each (`CleanupFacts`);
* `WavesInv`, `RestoresInv`, `LabelsInv`: earlier waves are complete, and a backup
  that Velero has not finished still has its label on all its objects.

TLC has checked the invariant on the instance of `br` and, while the volumes were
still patched in one step, on two larger ones (three backups, other waves).

### The installer (`Installer_proofs`)

`InstallIsSafe` and `RecordIsRespected` state `InstallSafe` and `RecordRespected`, for
every set of configurations, media and images. The invariant follows the run
from the guard to the signal: which steps a kind of medium takes (`FlowInv`), that
past the guard there is no record until the run writes one (`RecordInv`), how
far the disk has come (`DiskInv`), what was checked of the medium (`MediaInv`), and
that every reference of the seed resolves to its image (`ImagesInv`). It assumes
`UsbPrecaches`: a medium made by `create-usb` never skips the precaching
(`lca-cli/createusb/createusb_p1_content.go:275`).

### The USB medium (`USBLayout_proofs`)

`MediumIsSound` states `MediumSound`, and `PayloadIsSound` the action property
`PayloadSound`, which is the part of `BuildsSound` about the root directory. They
hold for every number of builds that share that directory and of power losses,
which the run bounds by two and one. `TypeCorrect` is the type invariant. The parts
of the invariant:

* `LockInv`: a build that works on the root directory has its lock;
* `LayoutInv`: what a build's layout holds at each of its steps, and that the
  layout which a manifest names, the one that is read or the one that a power
  loss brings back, is complete and on stable storage. A power loss may replace
  the first manifest by the second, so neither can be spoken of alone;
* `SignedInv`: each image has the signatures of its digest, or none;
* `StoreInv`: what is staged and moved aside while the store is replaced, so that
  a failed swap has a store to put back;
* `OwnInv`: what a build that no other one overlaps still finds of its own after
  it has given up the lock between the layout and the store.

TLC checked the invariant with two builds and two failing steps (1.7 million
states) before it was proved.

### What is only model-checked

Liveness under fairness is out of the prover's reach: `StagesTerminate`,
`ClusterComesBack`, `BlockedIsReleased`, `GenerationEnds`, `EventuallyConfigured`,
`Settles`, `Terminates`, `LayoutBuildsEnd`. So is what the recursive operators of
`Merge` compute (`MergeLaw`), and with it every theorem of a module that reaches it.
The safety of `Manifests`, `Precache`, `Storage` and `USBImage`, that of `Backups` when
the ConfigMap is edited, and `RollbackCarried` after a death of the operator's pod or a
failed `stat` of a marker, have no proof.

## 6. Not modelled

* Health checks (`internal/healthcheck`): a reading of the cluster; a handler
  that waits for it may wait any number of times.
* Export of the cluster configuration (`internal/clusterconfig`), network
  policies, partitioning and ignition files, copies of directories: sequential
  I/O that fails or succeeds as a whole in the action that calls it.
* The text of what is generated: nmstate, recert, dnsmasq and job
  configurations, YAML, messages, the history in the status. Where a property is
  about what a conversion does (which addresses recert is told, how two objects
  are merged, where a partition starts) it is modelled.
* Which IPConfig specifications are valid for a cluster, and the rendering and
  scanning of a site configuration for the USB medium.
* An error of `ostree admin --help`, which the code takes for the absence of
  set-default (`internal/ostreeclient/ostreeclient.go:116`): the feature is a
  constant. With crashes and without set-default a power loss in Prep boots the
  new stateroot, which has no CR; no document says what should happen.
* Small differences that no property depends on. `Agent` runs a handler on the
  stage of the edited CR where the code has the copy it read. In `IPC`, enabling
  kubelet again after a failed unit always succeeds (the code tries and logs),
  set-default and the reboot of a rollback are one step, the boot directories of
  removed stateroots are not there, and `copyStateRootData` replaces the target's
  data, which is new. `PostPivot` takes only a missing folder for absent. In
  `Installer` the removal of the synthetic authfile and the rollback of a
  half-registered store succeed, a store and its drop-in reach the disk in the
  order they were written, and the sources of a manifest are a set. `Storage`
  lists the containers of CRI-O and podman in one step. In `USBLayout` opening the
  lock file never fails; in `USBImage` the name of a synced image is durable.
* `IBU`, `IPC` and the helpers of Prep and Upgrade are not composed into one
  specification: their product is out of reach, and what crosses between them
  (gates, waits, outcomes) is a choice in the one that receives it.

## 7. Plan

The next step is to prove more, in this order: `UsersNamespacesKept` of
`Manifests`; `InUseKept` of `Storage`.
