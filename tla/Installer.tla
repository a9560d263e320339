----------------------------- MODULE Installer -----------------------------
(***************************************************************************)
(* "lca-cli ibi", the prepare phase of the image-based installation        *)
(* (lca-cli/ibi-preparation), run by a oneshot unit of the live ISO.  In   *)
(* the disconnected (USB) flow the images come from the p2 partition of    *)
(* the medium and the result is recorded on its writable p4 partition,     *)
(* which is what keeps a later boot of the stick from wiping the node      *)
(* again.                                                                  *)
(*                                                                         *)
(* The model has the installation disk, the record as it is seen and as    *)
(* it is on stable storage, the process as one action per step, and the    *)
(* world: power losses, the firmware that boots the stick or the disk,     *)
(* and the technician who clears the record.  Images, references and       *)
(* manifests are small values supplied by the medium.                      *)
(***************************************************************************)
EXTENDS Naturals, Sequences, FiniteSets

CONSTANTS
    Configs,          \* the IBIPrepareConfigs a boot may be given
    Media,            \* the contents of the installer medium
    MaxFaults,        \* bound on failing commands and writes
    MaxPowerLosses,   \* bound on power losses
    MaxBoots,         \* bound on boots of the live ISO
    MaxResets         \* bound on operator resets of the record

VARIABLES
    config,     \* the IBIPrepareConfig on the medium
    media,      \* what the medium holds
    power,      \* "off", "live" (the ISO runs), "emergency", "installed"
    step,       \* next step of the prepare process, "none" when it has ended
    err,        \* prepErr # nil
    uncommitted, \* a write, sync or unmount of finalizeDisconnected failed
    p4,         \* prepare.json: as read back, and on stable storage
    disk,       \* the installation disk
    pos,        \* entries of the manifest imported so far
    auth,       \* the authfile: "none", "operator", "synthetic"
    authOwn,    \* this run created the authfile
    pending,    \* the pivot reboot has been issued
    signal,     \* last success signal: "none", "poweroff", "pivot"
    faults, losses, boots, resets

vars == <<config, media, power, step, err, uncommitted, p4, disk, pos, auth,
          authOwn, pending, signal, faults, losses, boots, resets>>
world == <<config, media, losses, boots, resets>>

Connected == "connected"
InstallOnly == "install-only"
SelfContained == "self-contained"

(* create-usb, the sole producer of USB media, leaves precaching enabled
   (deriveIBIPrepareConfig). *)
ASSUME UsbPrecaches == \A c \in Configs : c.profile # Connected => ~c.precacheDisabled

(* A result file: absent, unparseable, or a PrepareResult. *)
NoFile == [result |-> "absent", reentry |-> "none", pivot |-> "none"]
Junk == [result |-> "junk", reentry |-> "none", pivot |-> "none"]
PrepareResult ==
    [result : {"success", "failure"}, reentry : {"none", "blocked"},
     pivot : {"none", "failed"}]

(* What buildResult writes. *)
buildResult(failed) ==
    [result |-> IF failed THEN "failure" ELSE "success",
     reentry |-> "none", pivot |-> "none"]

(* A command or a write may fail; the number of failures is bounded. *)
Fault == faults < MaxFaults /\ faults' = faults + 1
NoFault == UNCHANGED faults

At(s) == power = "live" /\ step = s

Disconnected == config.profile # Connected

-----------------------------------------------------------------------------
(* References and the installed store.                                     *)

Canonical(e) == [repo |-> e.name, by |-> "digest", val |-> e.digest]
IsPinned(ref) == ref.by = "digest"
Entries == {media.images[k] : k \in 1 .. Len(media.images)}

Overlay(f, g) ==
    [x \in DOMAIN f \cup DOMAIN g |-> IF x \in DOMAIN g THEN g[x] ELSE f[x]]

(* registerSourceAliases: the tagged sources become names of the image, and
   a name belongs to one image only, so the last entry that registers it has
   it; digest-pinned sources are skipped. *)
registerSourceAliases(store, e) ==
    Overlay(store, [r \in {s \in e.sources : ~IsPinned(s)} |-> e.digest])

(* selectManifestIndex: the one descriptor of the layout with the digest and
   the tag of the entry. *)
selectManifestIndex(e) ==
    {k \in 1 .. Len(media.layout) :
        media.layout[k].digest = e.digest /\ media.layout[k].tag = e.tag}
Importable(e) == Cardinality(selectManifestIndex(e)) = 1

ImportImage(store, e) ==
    registerSourceAliases(Overlay(store, [r \in {Canonical(e)} |-> e.digest]), e)

(* verifyImage: the canonical reference is resident and every source resolves
   to the same image. *)
verifyImage(store, e) ==
    /\ Canonical(e) \in DOMAIN store
    /\ \A s \in e.sources :
          s \in DOMAIN store /\ store[s] = store[Canonical(e)]
VerifyAll(store) == \A e \in Entries : verifyImage(store, e)

(* verifyManifestCoversSeed: every reference of the seed's containers.list is
   a source of exactly one entry. *)
verifyManifestCoversSeed ==
    \A r \in media.required :
        Cardinality({k \in 1 .. Len(media.images) :
                        r \in media.images[k].sources}) = 1

(* preflightValidateManifest: a manifest with source references that has an
   entry for the seed. *)
preflightValidateManifest ==
    media.version >= 2 /\ \E e \in Entries : Canonical(e) = media.seed

-----------------------------------------------------------------------------
Untouched ==
    [os |-> "old", roots |-> {}, store |-> <<>>, ro |-> "none",
     dropIn |-> FALSE, synced |-> TRUE, torn |-> FALSE]

Init ==
    /\ config \in Configs
    /\ media \in Media
    /\ power = "off" /\ step = "none"
    /\ err = FALSE /\ uncommitted = FALSE
    /\ p4 \in {[seen |-> f, disk |-> f] : f \in {NoFile, Junk}}
    /\ disk = Untouched
    /\ pos = 0
    /\ auth = "none" /\ authOwn = FALSE
    /\ pending = FALSE /\ signal = "none"
    /\ faults = 0 /\ losses = 0 /\ boots = 0 /\ resets = 0

(* The stick is booted and the unit runs "lca-cli ibi".  The live root is in
   memory: an authfile is there only when the ignition provides one. *)
Boot ==
    /\ power \in {"off", "installed"}
    /\ boots < MaxBoots
    /\ boots' = boots + 1
    /\ power' = "live"
    /\ step' = IF Disconnected THEN "mountP4" ELSE "cleanup"
    /\ err' = FALSE /\ uncommitted' = FALSE /\ pos' = 0
    /\ auth' = IF config.operatorAuth THEN "operator" ELSE "none"
    /\ authOwn' = FALSE
    /\ pending' = FALSE /\ signal' = "none"
    /\ UNCHANGED <<config, media, p4, disk, faults, losses, resets>>

(* haltPoweredOn: isolate emergency.target, or stay in the live ISO when that
   command fails. *)
haltPoweredOn ==
    /\ At("halt")
    /\ \/ NoFault /\ power' = "emergency"
       \/ Fault /\ power' = "live"
    /\ step' = "none"
    /\ UNCHANGED <<world, err, uncommitted, p4, disk, pos, auth, authOwn,
                   pending, signal>>

(* The first error of the preparation: the deferred removeAuthFile runs, then
   finalizeDisconnected; the connected command exits. *)
Abort ==
    /\ err' = TRUE
    /\ step' = IF Disconnected THEN "write" ELSE "none"
    /\ auth' = IF authOwn THEN "none" ELSE auth
    /\ authOwn' = FALSE

(* A step of the preparation: it goes on to next, or aborts when bad holds
   or one of its commands fails. *)
Proceed(next, bad) ==
    \/ ~bad /\ NoFault /\ step' = next /\ UNCHANGED <<err, auth, authOwn>>
    \/ bad /\ NoFault /\ Abort
    \/ Fault /\ Abort

(* The frame of a step that runs before the disk is touched. *)
Preflight == UNCHANGED <<world, power, uncommitted, p4, disk, pos, pending,
                         signal>>

(* mountStatusPartition: exactly one ext4 device, mountable and writable, or
   nothing is recorded and the node halts. *)
mountStatusPartition ==
    /\ At("mountP4")
    /\ \/ media.p4 = "one" /\ NoFault /\ step' = "guard"
       \/ media.p4 # "one" /\ NoFault /\ step' = "halt"
       \/ Fault /\ step' = "halt"
    /\ UNCHANGED <<err, auth, authOwn>> /\ Preflight

(* writeResult, writeFileDurable: temporary file, fsync, rename, directory
   fsync.  It fails before the rename, or after it with the new name not yet
   on stable storage. *)
writeResult(rec) ==
    \/ NoFault /\ p4' = [seen |-> rec, disk |-> rec]
    \/ Fault /\ p4' \in {p4, [p4 EXCEPT !.seen = rec]}

(* guardReentry *)
GuardReentry_retryFailed ==
    /\ At("guard")
    /\ \/ /\ p4.seen.result \in {"absent", "failure"}
          /\ NoFault /\ step' = "mountP2"
          /\ UNCHANGED p4
       \/ /\ p4.seen.result \in {"success"}
          /\ writeResult([p4.seen EXCEPT !.reentry = "blocked"])
          /\ step' = "halt"
       \/ /\ p4.seen.result = "junk" /\ NoFault
          /\ step' = "halt"
          /\ UNCHANGED p4
       \/ Fault /\ step' = "halt" /\ UNCHANGED p4
    /\ UNCHANGED <<world, power, err, uncommitted, disk, pos, auth, authOwn,
                   pending, signal>>

guardReentry ==
    /\ At("guard")
    /\ \/ p4.seen = NoFile /\ NoFault /\ step' = "mountP2" /\ UNCHANGED p4
       \/ /\ p4.seen.result \in {"success", "failure"}
          /\ writeResult([p4.seen EXCEPT !.reentry = "blocked"])
          /\ step' = "halt"
       \/ p4.seen = Junk /\ NoFault /\ step' = "halt" /\ UNCHANGED p4
       \/ Fault /\ step' = "halt" /\ UNCHANGED p4
    /\ UNCHANGED <<world, power, err, uncommitted, disk, pos, auth, authOwn,
                   pending, signal>>

(* mountLocalImages: exactly one ibi-images device, mounted read-only here or
   by the unit of the ISO. *)
mountLocalImages ==
    At("mountP2") /\ Proceed("manifest", media.p2 # "one") /\ Preflight

validateManifest ==
    At("manifest") /\ Proceed("preflight", ~preflightValidateManifest) /\ Preflight

(* preflightSeedOSTree: import the seed into the live store and verify its
   OSTree repository, before the disk is touched. *)
preflightSeedOSTree ==
    /\ At("preflight")
    /\ Proceed("auth",
          \/ media.seedCorrupt
          \/ \E e \in Entries : Canonical(e) = media.seed /\ ~Importable(e))
    /\ Preflight

(* setupPrepareAuthFile: created only when absent (O_EXCL), and removed at
   the end only when this run created it. *)
setupPrepareAuthFile ==
    /\ At("auth")
    /\ \/ NoFault /\ step' = "cleanup" /\ UNCHANGED err
          /\ auth' = (IF auth = "none" THEN "synthetic" ELSE auth)
          /\ authOwn' = (auth = "none")
       \/ Fault /\ Abort
    /\ Preflight

-----------------------------------------------------------------------------
(* runPreparation: the steps that change the installation disk.            *)

Installing == UNCHANGED <<world, power, uncommitted, p4, pending, signal>>

(* cleanupDisk: its failure is logged and ignored. *)
cleanupDisk ==
    /\ At("cleanup")
    /\ step' = "coreos"
    /\ \/ NoFault /\ disk' = IF config.skipCleanup THEN disk
                             ELSE [Untouched EXCEPT !.os = "blank", !.synced = FALSE]
       \/ Fault /\ ~config.skipCleanup /\ UNCHANGED disk
    /\ UNCHANGED <<err, auth, authOwn, pos>> /\ Installing

(* coreos-installer writes the whole disk; a failing one leaves it unusable. *)
writeImage ==
    /\ At("coreos")
    /\ \/ NoFault /\ step' = "partition"
          /\ disk' = [Untouched EXCEPT !.os = "rhcos", !.roots = {"rhcos"},
                                       !.synced = FALSE]
          /\ UNCHANGED <<err, auth, authOwn>>
       \/ Fault /\ Abort
          /\ disk' = [Untouched EXCEPT !.os = "blank", !.synced = FALSE]
    /\ UNCHANGED pos /\ Installing

(* SetupContainersFolderCommands or CreateExtraPartition. *)
createPartition ==
    At("partition") /\ Proceed("seed", FALSE) /\ UNCHANGED <<disk, pos>> /\ Installing

(* The seed is imported from p2 (it passed the preflight), or pulled. *)
acquireSeed ==
    At("seed") /\ Proceed("stateroot", FALSE) /\ UNCHANGED <<disk, pos>> /\ Installing

SetupStateroot ==
    /\ At("stateroot")
    /\ Proceed(IF Disconnected THEN "closure" ELSE "precache", FALSE)
    /\ disk' = IF err' THEN disk
               ELSE [disk EXCEPT !.os = "seed", !.roots = @ \cup {"seed"}]
    /\ UNCHANGED pos /\ Installing

(* Mutant: an entry that cannot be copied is tried for ever. *)
importClosure_stuck ==
    /\ At("closure")
    /\ IF pos = Len(media.images)
       THEN Proceed("precache", FALSE) /\ UNCHANGED <<disk, pos>>
       ELSE LET e == media.images[pos + 1] IN
            /\ Proceed("closure", ~Importable(e))
            /\ IF err' THEN UNCHANGED <<disk, pos>>
               ELSE /\ pos' = pos
                    /\ disk' = [disk EXCEPT !.store = ImportImage(@, e)]
    /\ Installing

(* importClosureToStateroot, ImportAll: one entry after the other, stopping at
   the first that cannot be selected or copied. *)
importClosure ==
    /\ At("closure")
    /\ IF pos = Len(media.images)
       THEN Proceed("precache", FALSE) /\ UNCHANGED <<disk, pos>>
       ELSE LET e == media.images[pos + 1] IN
            /\ Proceed("closure", ~Importable(e))
            /\ IF err' THEN UNCHANGED <<disk, pos>>
               ELSE /\ pos' = pos + 1
                    /\ disk' = [disk EXCEPT !.store = ImportImage(@, e)]
    /\ Installing

(* precacheFlow: skipped when disabled; disconnected, the coverage of the
   seed's list by the manifest; connected, the pull of the list, of which a
   best-effort run forgives the failures. *)
precacheFlow ==
    /\ At("precache")
    /\ LET next == IF Disconnected THEN "verify" ELSE "post"
           pulled == [r \in media.required |-> "pulled"]
       IN  IF config.precacheDisabled
           THEN NoFault /\ step' = next /\ UNCHANGED <<err, auth, authOwn, disk>>
           ELSE \/ /\ Proceed(next, Disconnected /\ ~verifyManifestCoversSeed)
                   /\ disk' = IF err' \/ Disconnected THEN disk
                              ELSE [disk EXCEPT !.store = pulled]
                \/ /\ ~Disconnected /\ config.bestEffort /\ Fault
                   /\ step' = next /\ UNCHANGED <<err, auth, authOwn, disk>>
    /\ UNCHANGED pos /\ Installing

(* The mandatory self-check of the installed store. *)
verifyImportedClosure ==
    /\ At("verify")
    /\ Proceed("post", ~VerifyAll(disk.store))
    /\ UNCHANGED <<disk, pos>> /\ Installing

postDeployment ==
    At("post") /\ Proceed("sysroot", FALSE) /\ UNCHANGED <<disk, pos>> /\ Installing

(* cleanupRhcosSysroot: undeploy the deployment of coreos-installer. *)
cleanupRhcosSysroot ==
    /\ At("sysroot")
    /\ Proceed(IF config.profile = SelfContained THEN "copy" ELSE "sync", FALSE)
    /\ disk' = IF err' THEN disk ELSE [disk EXCEPT !.roots = @ \ {"rhcos"}]
    /\ UNCHANGED pos /\ Installing

(* validateSourceStore, copyReadOnlyStore, verifyPersistedStore: the store of
   the medium is a complete overlay store, and every image of the manifest
   resolves through its copy. *)
validateSourceStore == media.roStore = "good"

(* persistReadOnlyStore up to the label: validate the store of the medium,
   copy it to the staging directory, verify the copy.  A failing copy clears
   the staging directory. *)
persistReadOnlyStore ==
    /\ At("copy")
    /\ Proceed("publish", ~validateSourceStore)
    /\ UNCHANGED <<disk, pos>> /\ Installing

(* The verified copy is renamed into place (the disk was just written, so
   there is no earlier store to exchange it with). *)
publishStore ==
    /\ At("publish")
    /\ Proceed("register", FALSE)
    /\ disk' = IF err' THEN disk ELSE [disk EXCEPT !.ro = "good"]
    /\ UNCHANGED pos /\ Installing

(* registerReadOnlyStore, rollbackPublish: the CRI-O drop-in is written after
   the store is in place; when that fails the store is removed again. *)
registerReadOnlyStore_first ==
    /\ At("register")
    /\ Proceed("sync", FALSE)
    /\ disk' = [disk EXCEPT !.ro = IF err' THEN "none" ELSE @, !.dropIn = TRUE]
    /\ UNCHANGED pos /\ Installing

registerReadOnlyStore ==
    /\ At("register")
    /\ Proceed("sync", FALSE)
    /\ disk' = IF err' THEN [disk EXCEPT !.ro = "none"]
               ELSE [disk EXCEPT !.dropIn = TRUE]
    /\ UNCHANGED pos /\ Installing

(* The authfile goes before the final sync, whose failure is an error. *)
syncDisk ==
    /\ At("sync")
    /\ \/ NoFault /\ disk' = [disk EXCEPT !.synced = TRUE] /\ UNCHANGED err
          /\ step' = (IF Disconnected THEN "umountP2" ELSE "terminal")
          /\ auth' = (IF authOwn THEN "none" ELSE auth) /\ authOwn' = FALSE
       \/ Fault /\ UNCHANGED disk /\ Abort
    /\ UNCHANGED pos /\ Installing

unmountP2 ==
    At("umountP2") /\ Proceed("write", FALSE) /\ UNCHANGED <<disk, pos>> /\ Installing

-----------------------------------------------------------------------------
(* finalizeDisconnected                                                    *)

(* writeResultPreservingSuccess: a failure never replaces a success. *)
writeResultPreservingSuccess ==
    /\ At("write")
    /\ IF err /\ p4.seen.result = "success" THEN NoFault /\ UNCHANGED p4
       ELSE writeResult(buildResult(err))
    /\ uncommitted' = (faults' > faults)
    /\ step' = "commit"
    /\ UNCHANGED <<world, power, err, disk, pos, auth, authOwn, pending, signal>>

(* The sync of the host and the unmount of p4, each of which may fail; the
   result decides what comes next. *)
finalizeDisconnected_early ==
    /\ At("commit")
    /\ \/ NoFault /\ UNCHANGED uncommitted
          /\ p4' = [p4 EXCEPT !.disk = p4.seen]
          /\ disk' = [disk EXCEPT !.synced = TRUE]
       \/ Fault /\ uncommitted' = TRUE
          /\ UNCHANGED <<p4, disk>>
    /\ step' = IF err THEN "halt" ELSE "terminal"
    /\ UNCHANGED <<world, power, err, pos, auth, authOwn, pending, signal>>

finalizeDisconnected ==
    /\ At("commit")
    /\ \/ NoFault /\ UNCHANGED uncommitted
          /\ p4' = [p4 EXCEPT !.disk = p4.seen]
          /\ disk' = [disk EXCEPT !.synced = TRUE]
       \/ Fault /\ uncommitted' = TRUE
          /\ \/ UNCHANGED <<p4, disk>>                        \* sync failed
             \/ /\ p4' = [p4 EXCEPT !.disk = p4.seen]         \* unmount failed
                /\ disk' = [disk EXCEPT !.synced = TRUE]
    /\ step' = IF err \/ uncommitted' THEN "halt" ELSE "terminal"
    /\ UNCHANGED <<world, power, err, pos, auth, authOwn, pending, signal>>

(* shutdownNode: the node goes off when the configuration says so and the
   command works; the process ends either way. *)
shutdownNode ==
    /\ At("terminal") /\ config.profile # SelfContained
    /\ step' = "none"
    /\ \/ /\ config.shutdown /\ NoFault
          /\ power' = "off" /\ signal' = "poweroff"
       \/ ~config.shutdown /\ NoFault /\ UNCHANGED <<power, signal>>
       \/ config.shutdown /\ Fault /\ UNCHANGED <<power, signal>>
    /\ UNCHANGED <<world, err, uncommitted, p4, disk, pos, auth, authOwn, pending>>

(* pivotReboot: a transient unit reboots the node. *)
pivotReboot ==
    /\ At("terminal") /\ config.profile = SelfContained
    /\ \/ NoFault /\ pending' = TRUE /\ step' = "grace"
       \/ Fault /\ step' = "amend" /\ UNCHANGED pending
    /\ UNCHANGED <<world, power, err, uncommitted, p4, disk, pos, auth, authOwn,
                   signal>>

(* The reboot takes the node down, at any time after it was issued, to the
   installed disk or, when the firmware prefers the stick, to the live ISO
   (which is a Boot from "installed"). *)
RebootTakes ==
    /\ pending /\ power \in {"live", "emergency"}
    /\ power' = "installed" /\ step' = "none"
    /\ pending' = FALSE /\ signal' = "pivot"
    /\ \E seen \in {p4.seen, p4.disk} : p4' = [seen |-> seen, disk |-> seen]
    /\ UNCHANGED <<world, err, uncommitted, disk, pos, auth, authOwn, faults>>

(* The grace period elapses and the process is still there. *)
GracePeriodOver ==
    /\ At("grace")
    /\ step' = "amend"
    /\ UNCHANGED <<world, power, err, uncommitted, p4, disk, pos, auth, authOwn,
                   pending, signal, faults>>

(* markPivotFailed: p4 is mounted again and the record amended; any failure
   leaves the record and the node halts all the same. *)
markPivotFailed ==
    /\ At("amend")
    /\ writeResult([p4.seen EXCEPT !.pivot = "failed"])
    /\ step' = "halt"
    /\ UNCHANGED <<world, power, err, uncommitted, disk, pos, auth, authOwn,
                   pending, signal>>

-----------------------------------------------------------------------------
(* The world.                                                              *)

(* Power is lost, or the technician cycles it: what was not synced may be
   lost, and an unsynced disk may be left torn. *)
PowerLoss ==
    /\ power \in {"live", "emergency"}
    /\ losses < MaxPowerLosses
    /\ losses' = losses + 1
    /\ power' = "off" /\ step' = "none" /\ pending' = FALSE
    /\ \E seen \in {p4.seen, p4.disk} : p4' = [seen |-> seen, disk |-> seen]
    /\ disk' \in {disk, [disk EXCEPT !.torn = ~disk.synced]}
    /\ UNCHANGED <<config, media, err, uncommitted, pos, auth, authOwn, signal,
                   faults, boots, resets>>

(* The technician clears prepare.json. *)
OperatorReset ==
    /\ power \in {"off", "emergency"} /\ step = "none"
    /\ p4.seen # NoFile
    /\ resets < MaxResets
    /\ resets' = resets + 1
    /\ p4' = [seen |-> NoFile, disk |-> NoFile]
    /\ UNCHANGED <<config, media, power, step, err, uncommitted, disk, pos, auth,
                   authOwn, pending, signal, faults, losses, boots>>

(* Run *)
Prepare ==
    \/ mountStatusPartition
    \/ guardReentry
    \/ mountLocalImages
    \/ validateManifest
    \/ preflightSeedOSTree
    \/ setupPrepareAuthFile
    \/ cleanupDisk
    \/ writeImage
    \/ createPartition
    \/ acquireSeed
    \/ SetupStateroot
    \/ importClosure
    \/ precacheFlow
    \/ verifyImportedClosure
    \/ postDeployment
    \/ cleanupRhcosSysroot
    \/ persistReadOnlyStore
    \/ publishStore
    \/ registerReadOnlyStore
    \/ syncDisk
    \/ unmountP2
    \/ writeResultPreservingSuccess
    \/ finalizeDisconnected
    \/ shutdownNode
    \/ pivotReboot
    \/ GracePeriodOver
    \/ markPivotFailed
    \/ haltPoweredOn

Next ==
    \/ Boot
    \/ Prepare
    \/ RebootTakes
    \/ PowerLoss
    \/ OperatorReset

(* The process is one thread of the host: as long as the power is on it goes
   on to its next step.  Nothing obliges the reboot to take, the power to
   fail or the technician to act. *)
Fairness == WF_vars(Prepare)

Spec == Init /\ [][Next]_vars /\ Fairness

-----------------------------------------------------------------------------
(* Properties.                                                             *)

Steps == {"none", "mountP4", "guard", "mountP2", "manifest", "preflight",
          "auth", "cleanup", "coreos", "partition", "seed", "stateroot",
          "closure", "precache", "verify", "post", "sysroot", "copy",
          "publish", "register", "sync", "umountP2", "write", "commit",
          "terminal", "grace", "amend", "halt"}

(* The types of the variables. *)
TypeOK ==
    /\ config \in Configs /\ media \in Media
    /\ power \in {"off", "live", "emergency", "installed"}
    /\ step \in Steps
    /\ {err, uncommitted, authOwn, pending} \subseteq BOOLEAN
    /\ {p4.seen, p4.disk} \subseteq PrepareResult \cup {NoFile, Junk}
    /\ disk.os \in {"old", "blank", "rhcos", "seed"}
    /\ disk.roots \subseteq {"rhcos", "seed"}
    /\ disk.ro \in {"none", "good"}
    /\ pos \in 0 .. Len(media.images)
    /\ auth \in {"none", "operator", "synthetic"}
    /\ signal \in {"none", "poweroff", "pivot"}
    /\ faults \in 0 .. MaxFaults /\ losses \in 0 .. MaxPowerLosses
    /\ boots \in 0 .. MaxBoots /\ resets \in 0 .. MaxResets

(* The node goes off, or pivots, only over a disk that is completely
   installed and on stable storage and, on a USB medium, with the success
   already on the stable storage of p4 (finalizeDisconnected, pivotReboot). *)
SignalHonest ==
    signal # "none" =>
        /\ disk.roots = {"seed"} /\ disk.synced /\ ~disk.torn
        /\ config.profile = SelfContained => disk.dropIn
        /\ (Disconnected /\ resets = 0) => p4.disk.result = "success"

(* When a USB medium signals success, every reference the seed's
   containers.list names resolves in the installed store to the image of the
   manifest entry that lists it, whatever the manifest and the layout held
   (verifyManifestCoversSeed, ImportAll, VerifyAll). *)
ImagesResident ==
    (signal # "none" /\ Disconnected) =>
        \A r \in media.required :
            /\ r \in DOMAIN disk.store
            /\ \A e \in Entries : r \in e.sources => disk.store[r] = e.digest

(* Success is signalled over a complete disk with every image of the seed. *)
SuccessHonest == SignalHonest /\ ImagesResident

(* A medium that cannot be installed leaves the disk as it was: the device
   counts, the manifest and the seed are checked before the disk is cleaned
   (runDisconnectedPreparation). *)
BadMediaKeepsDisk ==
    (Disconnected /\ disk.os # "old") =>
        /\ media.p4 = "one" /\ media.p2 = "one"
        /\ preflightValidateManifest /\ ~media.seedCorrupt

(* CRI-O is never told of an image store that is not there, which would stop
   it: across failures and power losses the drop-in exists only beside the
   published store (persistReadOnlyStore, rollbackPublish). *)
DropInHasStore == disk.dropIn => disk.ro = "good"

(* When the process has ended the live root holds the operator's authfile,
   untouched, and no synthetic one (setupPrepareAuthFile). *)
AuthKept ==
    (power \in {"live", "emergency"} /\ step = "none") =>
        auth = IF config.operatorAuth THEN "operator" ELSE "none"

(* Whatever fails, the disk, CRI-O and the operator's authfile are safe. *)
HostSafe == BadMediaKeepsDisk /\ DropInHasStore /\ AuthKept

(* Both: what is signalled is true, and what fails does no harm (Run,
   preparePreReqs, finalizeDisconnected). *)
InstallSafe == SuccessHonest /\ HostSafe

(* The disk is not cleaned or rewritten while stable storage has a result, of
   a success or of a failure, or a file that cannot be read: not in the boot
   that wrote it and not in any later one, until the technician clears it
   (guardReentry). *)
NoWipeOverRecord ==
    (Disconnected /\ power' = "live" /\ step' # step /\ step \in {"cleanup", "coreos"})
        => p4.disk = NoFile /\ p4.seen = NoFile

(* A result on stable storage keeps its verdict through re-entries, pivot
   failures, later failures and power losses; only the technician clears it
   (writeResultPreservingSuccess, guardReentry, markPivotFailed). *)
RecordKept ==
    (p4.disk.result # "absent" /\ resets' = resets) => p4'.disk.result = p4.disk.result

(* The record decides, and stays: both of every step. *)
RecordRespected == [][NoWipeOverRecord /\ RecordKept]_vars

(* Every run of the prepare process ends: powered off, pivoted, halted, or
   with the error of the command that could not do that. *)
Terminates == (step # "none") ~> (step = "none")

(* docs/create-usb.md:465: "Repeated re-entries remain safe: the marker is
   never destroyed, so a second destructive prepare can never re-wipe
   automatically".  The disk of a USB install is wiped at most once unless
   the technician has reset the record. *)
NeverRewipes ==
    [][(Disconnected /\ step = "cleanup" /\ disk'.os = "blank")
          => (disk.os = "old" \/ resets > 0)]_vars

(* docs/troubleshooting.md:59: "If `prepare.json` is **absent**, the prepare
   phase never reached the result write-back", which makes prepare halt
   "*before* any disk wipe, by design".  A halted node without a record has
   its disk. *)
AbsentMeansUntouched ==
    (Disconnected /\ power = "emergency" /\ p4.seen = NoFile /\ resets = 0)
        => disk.os = "old"
=============================================================================
