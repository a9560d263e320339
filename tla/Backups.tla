------------------------------ MODULE Backups ------------------------------
(***************************************************************************)
(* Application data over an upgrade: internal/backuprestore and the parts  *)
(* of the upgrade, prep and idle handlers that call it.                    *)
(*                                                                         *)
(* Backup CRs are created in the cluster of the old stateroot; OADP        *)
(* (Velero, external) uploads them to object storage.  After the pivot the *)
(* cluster is the seed's: Velero syncs the Backup CRs from the storage and *)
(* the restores that were exported to the new stateroot are applied.       *)
(* Every upgrade ends with a cleanup in the cluster that is booted then.   *)
(* Names are numbers, so that their order is the order of the names.       *)
(***************************************************************************)
EXTENDS Naturals, Sequences, FiniteSets, SequencesExt

CONSTANTS
    Contents,      \* what the OADP ConfigMap may hold
    Owners,        \* owners of backups that are in the storage at first
    Edits,         \* bound on edits of the ConfigMap during an upgrade
    MaxFaults,     \* bound on failed calls, restarts and storage outages
    MaxAttempts    \* bound on upgrades

VARIABLES
    cm,            \* contents of the ConfigMap in spec.oadpContent
    stage,         \* stage of the IBU CR; "Cleanup" while Idle is not reached
    cond,          \* its condition
    attempt,       \* number of the upgrade
    cl,            \* the booted cluster
    prev,          \* the cluster of the other stateroot, for a rollback
    storage,       \* backups in object storage
    files,         \* restores exported to the new stateroot
    dpaFile,       \* number of DataProtectionApplications exported to it
    pc,            \* what the reconcile does next
    snap,          \* groups of backups or restores the reconcile works on
    grp,           \* the group it works on
    pos,           \* the position in that group
    stale,         \* backups it has asked Velero to delete
    edits, faults

cluster == <<cl, prev>>
loop == <<snap, grp, pos, stale>>
bounds == <<edits, faults>>
vars == <<cm, stage, cond, attempt, cluster, storage, files, dpaFile, pc, loop, bounds>>

ASSUME ContentsAssumption ==
    \A c \in Contents : /\ DOMAIN c.backups \subseteq Nat /\ DOMAIN c.restores \subseteq Nat
                        /\ IsFiniteSet(DOMAIN c.backups) /\ IsFiniteSet(DOMAIN c.restores)
                        /\ \A b \in DOMAIN c.backups : c.backups[b].wave \in Nat
                        /\ \A r \in DOMAIN c.restores : c.restores[r].wave \in Nat /\ c.restores[r].of \in Nat

\* The owners are other clusters.
ASSUME OwnersAssumption == {"me", "none"} \cap Owners = {}

BackupNames == UNION {DOMAIN c.backups \cup {c.restores[r].of : r \in DOMAIN c.restores} : c \in Contents}
RestoreNames == UNION {DOMAIN c.restores : c \in Contents}
Objects == UNION {UNION {c.backups[b].objs : b \in DOMAIN c.backups} : c \in Contents}

(***************************************************************************)
(* Volumes: "app" was provisioned by LVMS with the policy Delete, "kept"   *)
(* by a user with Retain, "late" is one that appears during the upgrade.   *)
(***************************************************************************)
Volumes == {"app", "kept", "late"}
OwnPolicy == [v \in Volumes |-> IF v = "kept" THEN "Retain" ELSE "Delete"]
NoVolume == [policy |-> "none", updated |-> FALSE]
Untouched(v) == [policy |-> OwnPolicy[v], updated |-> FALSE]

\* A call that fails, and one whose failure is taken to mean that OADP is not
\* installed (ErrGroupDiscoveryFailed).
FaultKinds == {"call", "probe"}

Me == "me"
NoBackup == [owner |-> "none"]
NoRequest == [labelled |-> FALSE, phase |-> "none"]
NoCluster == [crs |-> <<>>]
EmptyCluster(dpas) ==
    [crs |-> [b \in BackupNames |-> NoBackup],
     requests |-> [b \in BackupNames |-> NoRequest],
     restores |-> [r \in RestoreNames |-> "none"],
     label |-> [o \in Objects |-> 0],
     volumes |-> [v \in Volumes |-> NoVolume],
     dpas |-> dpas]

Taken(b) == b.owner # "none"
Stored(owner, b) == [owner |-> owner, phase |-> "Completed", objs |-> {}, holds |-> {},
                     volumes |-> [v \in Volumes |-> NoVolume], attempt |-> 0]

Init ==
    /\ cm \in Contents
    /\ stage = "Idle" /\ cond = "Completed" /\ attempt = 0
    /\ cl = [EmptyCluster(1) EXCEPT
                !.volumes = [v \in Volumes |-> IF v = "late" THEN NoVolume ELSE Untouched(v)]]
    /\ prev = NoCluster
    /\ storage \in [BackupNames -> {NoBackup} \cup {Stored(w, 0) : w \in Owners}]
    /\ files = {} /\ dpaFile = 0
    /\ pc = "idle" /\ snap = <<>> /\ grp = 1 /\ pos = 1 /\ stale = {}
    /\ edits = 0 /\ faults = [kind \in FaultKinds |-> 0]

(***************************************************************************)
(* Groups.                                                                 *)
(***************************************************************************)
\* A CR without the annotation comes in the last group.
NoWave == 0
defaultApplyWave == 1000
Wave(w) == IF w = NoWave THEN defaultApplyWave ELSE w

\* The elements of a set, each once and in order.
InOrder(S, before(_, _)) ==
    CHOOSE s \in SetToSeqs(S) : \A i, j \in DOMAIN s : i < j => before(s[i], s[j])

SortAndGroupByApplyWave(items) ==
    LET waves == InOrder({Wave(items[i].wave) : i \in DOMAIN items}, <)
    IN  [g \in DOMAIN waves |->
            InOrder({i \in DOMAIN items : Wave(items[i].wave) = waves[g]}, <)]

\* The groups with the definitions that were read.
Groups(items) ==
    LET gs == SortAndGroupByApplyWave(items)
    IN  [g \in DOMAIN gs |-> [i \in DOMAIN gs[g] |-> [name |-> gs[g][i], def |-> items[gs[g][i]]]]]


(***************************************************************************)
(* Reconciles.  A call that fails, and a restart of the operator, end the  *)
(* reconcile where it is; the next one starts from the CR.  A failed call  *)
(* is final in Prep and has to be acknowledged in a cleanup.               *)
(***************************************************************************)
FaultsLeft == faults["call"] + faults["probe"] < MaxFaults
FaultOf(kind) == FaultsLeft /\ faults' = [faults EXCEPT ![kind] = @ + 1]
Fault == FaultOf("call")

End == pc' = "idle" /\ snap' = <<>> /\ grp' = 1 /\ pos' = 1 /\ stale' = {}

Interrupt ==
    /\ pc # "idle" /\ Fault /\ End
    /\ cond' \in {cond} \cup (IF stage \in {"Prep", "Cleanup"} THEN {"Failed"} ELSE {})
    /\ UNCHANGED <<cm, stage, attempt, cluster, storage, files, dpaFile, edits>>

\* One label per object, with the name of the backup: the last one counts.
applyBackupLabels(label, b, objs) == [o \in Objects |-> IF o \in objs THEN b ELSE label[o]]
cleanupBackupLabels(label, objs) == [o \in Objects |-> IF o \in objs THEN 0 ELSE label[o]]

Valid(b) == cl.crs[b].owner = Me

\* Mutant: the label with the cluster's ID is not looked at.
getValidBackup_any(b) == cl.crs[b]

getValidBackup(b) == IF Valid(b) THEN cl.crs[b] ELSE NoBackup

(***************************************************************************)
(* Stale backups: same name, other cluster.  One request per step.  A      *)
(* request that is there already makes the creation fail.                  *)
(***************************************************************************)
\* The backups the cleanup looks at: all of them in Prep, a group in Upgrade.
StaleScope == snap[grp]

Stale(b) == Taken(cl.crs[b]) /\ cl.crs[b].owner # Me

CleanupStaleBackups ==
    /\ pc = "stale"
    /\ IF pos > Len(StaleScope)
       THEN /\ pc' = IF stale = {} THEN "tracked" ELSE "wait"
            /\ pos' = 1
            /\ UNCHANGED <<cl, cond, snap, grp, stale>>
       ELSE LET b == StaleScope[pos].name
            IN  IF ~Stale(b)
                THEN pos' = pos + 1 /\ UNCHANGED <<cl, cond, pc, snap, grp, stale>>
                ELSE IF cl.requests[b].phase = "none"
                THEN /\ cl' = [cl EXCEPT !.requests[b] = [labelled |-> FALSE, phase |-> "New"]]
                     /\ stale' = stale \cup {b}
                     /\ pos' = pos + 1
                     /\ UNCHANGED <<cond, pc, snap, grp>>
                ELSE End /\ cond' = (IF stage = "Prep" THEN "Failed" ELSE cond) /\ UNCHANGED cl
    /\ UNCHANGED <<cm, stage, attempt, prev, storage, files, dpaFile, bounds>>

\* waitForDeleteBackupRequests and the check that follows it.  The error is
\* not one that IsBRFailedError knows ("backup", not "Backup"), so an upgrade
\* goes on trying; in Prep every error is final, in a cleanup it is reported.
RequestsGone == \A b \in stale : cl.requests[b].phase = "none"
RequestFailed == \E b \in stale : cl.requests[b].phase = "Errors"
BackupsGone == \A b \in stale : ~Taken(cl.crs[b])

DeletionFailed ==
    /\ End
    /\ cond' = IF stage \in {"Prep", "Cleanup"} THEN "Failed" ELSE cond

ensureBackupsDeleted ==
    /\ pc \in {"wait", "waitAll"}
    /\ \/ /\ RequestsGone /\ BackupsGone
          /\ pc' = IF pc = "wait" THEN "tracked" ELSE "restorePVs"
          /\ pos' = 1 /\ stale' = {}
          /\ UNCHANGED <<cond, snap, grp>>
       \/ RequestsGone /\ ~BackupsGone /\ DeletionFailed
       \/ RequestFailed /\ DeletionFailed
    /\ UNCHANGED <<cm, stage, attempt, cluster, storage, files, dpaFile, bounds>>

\* Five minutes pass and a request is still there.
DeletionTimeout ==
    /\ pc \in {"wait", "waitAll"} /\ ~RequestsGone
    /\ Fault /\ DeletionFailed
    /\ UNCHANGED <<cm, stage, attempt, cluster, storage, files, dpaFile, edits>>

(***************************************************************************)
(* Prep: validateIBUSpec.                                                  *)
(***************************************************************************)
CheckOadpOperatorAvailability == cl.dpas = 1

\* Each restore names a backup, and there are as many of either.
PairedCRs(c) ==
    /\ \A r \in DOMAIN c.restores : c.restores[r].of \in DOMAIN c.backups
    /\ DOMAIN c.backups # {} /\ DOMAIN c.restores # {}
    /\ Cardinality(DOMAIN c.backups) = Cardinality(DOMAIN c.restores)

ValidateOadpConfigmaps ==
    /\ stage = "Prep" /\ cond = "InProgress" /\ pc = "idle"
    /\ IF CheckOadpOperatorAvailability /\ PairedCRs(cm)
       THEN /\ pc' = "stale" /\ snap' = <<FlattenSeq(Groups(cm.backups))>>
            /\ UNCHANGED cond
       ELSE cond' = "Failed" /\ UNCHANGED <<pc, snap>>
    /\ UNCHANGED <<cm, stage, attempt, cluster, storage, files, dpaFile, grp, pos, stale, bounds>>

\* The rest of Prep makes a new stateroot.
PrepDone ==
    /\ stage = "Prep" /\ pc = "tracked"
    /\ cond' = "Completed" /\ files' = {} /\ dpaFile' = 0 /\ End
    /\ UNCHANGED <<cm, stage, attempt, cluster, storage, bounds>>

(***************************************************************************)
(* Upgrade before the pivot: HandleBackup and the exports.                 *)
(***************************************************************************)
PrePivot == stage = "Upgrade" /\ prev = NoCluster

HandleBackup ==
    /\ PrePivot /\ cond = "InProgress" /\ pc = "idle"
    /\ IF DOMAIN cm.backups = {}
       THEN pc' = "exportDPA" /\ UNCHANGED snap
       ELSE snap' = Groups(cm.backups) /\ pc' = "patchPVs"
    /\ UNCHANGED <<cm, stage, cond, attempt, cluster, storage, files, dpaFile, grp, pos, stale, bounds>>

\* One volume per step, so that an error or a restart may come in between.  The
\* volumes are listed once; one that appears meanwhile and is not in the list
\* might as well appear when the loop has ended.
Deletable == {v \in Volumes : cl.volumes[v].policy = "Delete"}
Updated == {v \in Volumes : cl.volumes[v].updated}

PatchPVsReclaimPolicy ==
    /\ PrePivot /\ pc = "patchPVs"
    /\ \/ Deletable = {} /\ pc' = "stale" /\ UNCHANGED cl
       \/ \E v \in Deletable :
            cl' = [cl EXCEPT !.volumes[v] = [policy |-> "Retain", updated |-> TRUE]] /\ UNCHANGED pc
    /\ UNCHANGED <<cm, stage, cond, attempt, prev, storage, files, dpaFile, loop, bounds>>

RestorePVsReclaimPolicy(v) ==
    cl' = [cl EXCEPT !.volumes[v] = [policy |-> "Delete", updated |-> FALSE]]

NewBackup(def) == [owner |-> Me, phase |-> "", objs |-> def.objs, holds |-> {},
                   volumes |-> [v \in Volumes |-> NoVolume], attempt |-> attempt]

\* Mutant: the CR is created before its objects have their label.
StartOrTrack_createFirst ==
    /\ PrePivot /\ pc \in {"tracked", "label"} /\ pos <= Len(snap[grp])
    /\ LET b == snap[grp][pos].name
           def == snap[grp][pos].def
       IN  IF pc = "label"
           THEN /\ cl' = [cl EXCEPT !.label = applyBackupLabels(@, b, def.objs)]
                /\ pos' = pos + 1 /\ pc' = "tracked"
           ELSE IF Taken(cl.crs[b])
           THEN pos' = pos + 1 /\ UNCHANGED <<cl, pc>>
           ELSE cl' = [cl EXCEPT !.crs[b] = NewBackup(def)] /\ pc' = "label" /\ UNCHANGED pos
    /\ UNCHANGED <<cm, stage, cond, attempt, prev, storage, files, dpaFile, snap, grp, stale, bounds>>

\* A backup of the group: labels its objects, then creates the CR.
StartOrTrackBackup ==
    /\ PrePivot /\ pc \in {"tracked", "label"} /\ pos <= Len(snap[grp])
    /\ LET b == snap[grp][pos].name
           def == snap[grp][pos].def
       IN  IF Taken(getValidBackup(b))
           THEN pos' = pos + 1 /\ pc' = "tracked" /\ UNCHANGED <<cl, snap, grp, stale>>
           ELSE IF pc = "tracked"
           THEN /\ cl' = [cl EXCEPT !.label = applyBackupLabels(@, b, def.objs)]
                /\ pc' = "label" /\ UNCHANGED <<snap, grp, pos, stale>>
           ELSE IF Taken(cl.crs[b])   \* synced meanwhile: AlreadyExists
           THEN End /\ UNCHANGED cl
           ELSE /\ cl' = [cl EXCEPT !.crs[b] = NewBackup(def)]
                /\ pos' = pos + 1 /\ pc' = "tracked" /\ UNCHANGED <<snap, grp, stale>>
    /\ UNCHANGED <<cm, stage, cond, attempt, prev, storage, files, dpaFile, bounds>>

Failed == {"Failed", "PartiallyFailed", "FailedValidation"}

PhaseOf(x) == IF "phase" \in DOMAIN x THEN x.phase ELSE "none"

GroupCompleted(phases) == \A p \in phases : p = "Completed"

\* Mutant: a failed CR is waited for.
GroupFailed_never(phases) == FALSE

GroupFailed(phases) == phases \cap Failed # {}

BackupGroup ==
    /\ PrePivot /\ pc = "tracked" /\ pos > Len(snap[grp])
    /\ LET phases == {PhaseOf(getValidBackup(snap[grp][i].name)) : i \in DOMAIN snap[grp]}
       IN  IF GroupCompleted(phases)
           THEN /\ IF grp = Len(snap) THEN pc' = "exportDPA" /\ grp' = 1 ELSE pc' = "stale" /\ grp' = grp + 1
                /\ pos' = 1 /\ UNCHANGED <<cond, snap, stale>>
           ELSE /\ End
                /\ cond' = IF GroupFailed(phases) THEN "Failed" ELSE cond
    /\ UNCHANGED <<cm, stage, attempt, cluster, storage, files, dpaFile, bounds>>

\* Prep has checked that there is one DPA; it does not change.  Nothing is
\* exported when the API cannot be discovered.
ExportOadpConfigurationToDir ==
    /\ PrePivot /\ pc = "exportDPA"
    /\ \/ dpaFile' = (IF cl.dpas = 1 THEN 1 ELSE dpaFile) /\ UNCHANGED faults
       \/ FaultOf("probe") /\ UNCHANGED dpaFile
    /\ pc' = "exportRestores"
    /\ UNCHANGED <<cm, stage, cond, attempt, cluster, storage, files, loop, edits>>

\* The ConfigMaps are read again.  Files of an earlier export stay,
\* unless they have the name of a new one.
ExportedRestores(c) ==
    LET groups == Groups(c.restores)
    IN  UNION {{[group |-> g, index |-> i, name |-> groups[g][i].name, of |-> groups[g][i].def.of] :
                  i \in DOMAIN groups[g]} : g \in DOMAIN groups}

FileName(f) == <<f.group, f.index, f.name>>

ExportRestoresToDir ==
    /\ PrePivot /\ pc = "exportRestores"
    /\ files' = ExportedRestores(cm) \cup
                {f \in files : \A e \in ExportedRestores(cm) : FileName(f) # FileName(e)}
    /\ pc' = "reboot"
    /\ UNCHANGED <<cm, stage, cond, attempt, cluster, storage, dpaFile, loop, bounds>>

\* The node boots the new stateroot: the cluster is the seed's, with the DPA
\* and its secrets applied by lca-cli.
Pivot ==
    /\ PrePivot /\ pc = "reboot"
    /\ prev' = cl
    /\ cl' = EmptyCluster(dpaFile)
    /\ End
    /\ UNCHANGED <<cm, stage, cond, attempt, storage, files, dpaFile, bounds>>

(***************************************************************************)
(* Upgrade after the pivot: EnsureOadpConfiguration and HandleRestore.     *)
(***************************************************************************)
PostPivot == stage = "Upgrade" /\ prev # NoCluster

\* A file per restore; the groups by number, the files by index.
FileOrder(x, y) == x.index < y.index \/ (x.index = y.index /\ x.name < y.name)

LoadRestoresFromOadpRestorePath(path) ==
    LET groups == InOrder({f.group : f \in path}, <)
    IN  [g \in DOMAIN groups |->
            InOrder({f \in path : f.group = groups[g]}, FileOrder)]

\* The DPA that was exported is in the cluster.
EnsureOadpConfiguration == dpaFile = 1 => cl.dpas = 1

HandleRestore ==
    /\ PostPivot /\ cond = "InProgress" /\ pc = "idle"
    /\ IF ~EnsureOadpConfiguration
       THEN cond' = "Failed" /\ UNCHANGED <<pc, snap>>
       ELSE IF files = {}
       THEN cond' = "Completed" /\ UNCHANGED <<pc, snap>>
       ELSE /\ snap' = LoadRestoresFromOadpRestorePath(files)
            /\ pc' = "restore" /\ UNCHANGED cond
    /\ UNCHANGED <<cm, stage, attempt, cluster, storage, files, dpaFile, grp, pos, stale, bounds>>

\* A restore is created once its backup is there.
StartOrTrackRestore ==
    /\ PostPivot /\ pc = "restore" /\ pos <= Len(snap[grp])
    /\ LET f == snap[grp][pos]
       IN  cl' = IF cl.restores[f.name] = "none" /\ Taken(getValidBackup(f.of))
                 THEN [cl EXCEPT !.restores[f.name] = ""] ELSE cl
    /\ pos' = pos + 1
    /\ UNCHANGED <<cm, stage, cond, attempt, prev, storage, files, dpaFile, pc, snap, grp, stale, bounds>>

RestoreGroup ==
    /\ PostPivot /\ pc = "restore" /\ pos > Len(snap[grp])
    /\ LET phases == {cl.restores[snap[grp][i].name] : i \in DOMAIN snap[grp]}
       IN  IF GroupCompleted(phases)
           THEN /\ IF grp = Len(snap) THEN pc' = "restoredPVs" /\ grp' = grp ELSE pc' = pc /\ grp' = grp + 1
                /\ pos' = 1 /\ UNCHANGED <<cond, snap, stale>>
           ELSE /\ End
                /\ cond' = IF GroupFailed(phases) THEN "Failed" ELSE cond
    /\ UNCHANGED <<cm, stage, attempt, cluster, storage, files, dpaFile, bounds>>

RestoredPVs ==
    /\ PostPivot /\ pc = "restoredPVs"
    /\ \/ Updated = {} /\ pc' = "removePath" /\ UNCHANGED cl
       \/ \E v \in Updated : RestorePVsReclaimPolicy(v) /\ UNCHANGED pc
    /\ UNCHANGED <<cm, stage, cond, attempt, prev, storage, files, dpaFile, loop, bounds>>

RemoveOadpPath ==
    /\ PostPivot /\ pc = "removePath"
    /\ files' = {} /\ dpaFile' = 0 /\ cond' = "Completed" /\ End
    /\ UNCHANGED <<cm, stage, attempt, cluster, storage, bounds>>

(***************************************************************************)
(* Idle: cleanupOADPResources, after the unbooted stateroot is removed.    *)
(***************************************************************************)
Idle ==
    /\ stage' = "Idle" /\ cond' = "Completed" /\ End

\* The unbooted stateroot is gone.  The requests stay when they cannot be listed.
CleanupDeleteBackupRequests ==
    /\ stage = "Cleanup" /\ cond = "InProgress" /\ pc = "idle"
    /\ \/ /\ cl' = [cl EXCEPT !.requests = [b \in BackupNames |-> IF @[b].labelled THEN NoRequest ELSE @[b]]]
          /\ UNCHANGED faults
       \/ FaultOf("probe") /\ UNCHANGED cl
    /\ prev' = NoCluster
    /\ files' = {} /\ dpaFile' = 0
    /\ pc' = "cleanup"
    /\ UNCHANGED <<cm, stage, cond, attempt, storage, loop, edits>>

\* A failed list of CSVs or CRDs counts as OADP not being installed.
IsOadpInstalled ==
    /\ stage = "Cleanup" /\ cond = "InProgress" /\ pc = "idle"
    /\ FaultOf("probe")
    /\ Idle /\ prev' = NoCluster /\ files' = {} /\ dpaFile' = 0
    /\ UNCHANGED <<cm, attempt, cl, storage, edits>>

Mine == {b \in BackupNames : Valid(b)}

\* Mutant: the requests are made and not waited for.
CleanupBackups_noWait ==
    /\ stage = "Cleanup" /\ pc = "cleanup" /\ pc' = "restorePVs"
    /\ cl' = [cl EXCEPT !.requests = [b \in BackupNames |->
                 IF b \in Mine THEN [labelled |-> TRUE, phase |-> "New"] ELSE @[b]]]
    /\ UNCHANGED <<cm, stage, cond, attempt, prev, storage, files, dpaFile, loop, bounds>>

\* The list of the backups fails: there is nothing to clean up.
BackupsNotFound ==
    /\ stage = "Cleanup" /\ pc = "cleanup" /\ stale = {}
    /\ FaultOf("probe") /\ pc' = "restorePVs"
    /\ UNCHANGED <<cm, stage, cond, attempt, cluster, storage, files, dpaFile, loop, edits>>

\* A request for every backup of this cluster, and its labels removed.  The code
\* lists them once; Velero brings none of them back meanwhile unless the
\* ConfigMap was edited or a probe failed.
CleanupBackups ==
    /\ stage = "Cleanup" /\ pc = "cleanup"
    /\ IF Mine \ stale = {}
       THEN pc' = (IF stale = {} THEN "restorePVs" ELSE "waitAll") /\ UNCHANGED <<cl, cond, loop>>
       ELSE \E b \in Mine \ stale :
              IF cl.requests[b].phase = "none"
              THEN /\ cl' = [cl EXCEPT
                        !.requests[b] = [labelled |-> TRUE, phase |-> "New"],
                        !.label = cleanupBackupLabels(@, cl.crs[b].objs)]
                   /\ stale' = stale \cup {b}
                   /\ UNCHANGED <<cond, pc, snap, grp, pos>>
              ELSE DeletionFailed /\ UNCHANGED cl
    /\ UNCHANGED <<cm, stage, attempt, prev, storage, files, dpaFile, bounds>>

CleanupPVs ==
    /\ stage = "Cleanup" /\ pc = "restorePVs"
    /\ \/ Updated = {} /\ Idle /\ UNCHANGED cl
       \/ \E v \in Updated : RestorePVsReclaimPolicy(v) /\ UNCHANGED <<stage, cond, pc, loop>>
    /\ UNCHANGED <<cm, attempt, prev, storage, files, dpaFile, bounds>>

(***************************************************************************)
(* Velero, with a DataProtectionApplication that names the storage.        *)
(***************************************************************************)
Velero == cl.dpas = 1
VeleroStep == UNCHANGED <<cm, stage, cond, attempt, prev, files, dpaFile, pc, loop>>

BackupStarts(b) ==
    /\ Velero /\ Valid(b) /\ cl.crs[b].phase = ""
    /\ cl' = [cl EXCEPT !.crs[b].phase = "InProgress"]
    /\ VeleroStep /\ UNCHANGED <<storage, bounds>>

\* It selects by label when the CR lists objects.
BackupCompletes(b) ==
    /\ Velero /\ Valid(b) /\ cl.crs[b].phase = "InProgress" /\ ~Taken(storage[b])
    /\ LET done == [cl.crs[b] EXCEPT !.phase = "Completed", !.volumes = cl.volumes,
                        !.holds = {o \in cl.crs[b].objs : cl.label[o] = b}]
       IN  cl' = [cl EXCEPT !.crs[b] = done] /\ storage' = [storage EXCEPT ![b] = done]
    /\ VeleroStep /\ UNCHANGED bounds

\* The storage cannot be written, or holds a backup of this name.
BackupFails(b) ==
    /\ Velero /\ Valid(b) /\ cl.crs[b].phase = "InProgress"
    /\ \/ Fault
       \/ Taken(storage[b]) /\ UNCHANGED faults
    /\ cl' = [cl EXCEPT !.crs[b].phase = "PartiallyFailed"]
    /\ VeleroStep /\ UNCHANGED <<storage, edits>>

BackupSynced(b) ==
    /\ Velero /\ Taken(storage[b]) /\ ~Taken(cl.crs[b])
    /\ cl' = [cl EXCEPT !.crs[b] = storage[b]]
    /\ VeleroStep /\ UNCHANGED <<storage, bounds>>

BackupDeleted(b) ==
    /\ Velero /\ cl.requests[b].phase = "New"
    /\ \/ /\ PhaseOf(cl.crs[b]) # "InProgress"
          /\ cl' = [cl EXCEPT !.crs[b] = NoBackup, !.requests[b] = NoRequest]
          /\ storage' = [storage EXCEPT ![b] = NoBackup]
          /\ UNCHANGED faults
       \/ /\ IF PhaseOf(cl.crs[b]) = "InProgress" THEN UNCHANGED faults ELSE Fault
          /\ cl' = [cl EXCEPT !.requests[b].phase = "Errors"]
          /\ UNCHANGED storage
    /\ VeleroStep /\ UNCHANGED edits

\* A request that was processed is removed a day later.
RequestExpires(b) ==
    /\ Velero /\ cl.requests[b].phase = "Errors"
    /\ cl' = [cl EXCEPT !.requests[b] = NoRequest]
    /\ VeleroStep /\ UNCHANGED <<storage, bounds>>

RestoreStarts(r) ==
    /\ Velero /\ cl.restores[r] = ""
    /\ cl' = [cl EXCEPT !.restores[r] = "InProgress"]
    /\ VeleroStep /\ UNCHANGED <<storage, bounds>>

\* The objects come back as they were, with their label; so do the volumes
\* that are not there.
RestoreCompletes(r) ==
    /\ Velero /\ cl.restores[r] = "InProgress"
    /\ \E f \in files :
          /\ f.name = r /\ Taken(storage[f.of])
          /\ cl' = [cl EXCEPT
                !.restores[r] = "Completed",
                !.label = [o \in Objects |-> IF o \in storage[f.of].holds THEN f.of ELSE @[o]],
                !.volumes = [v \in Volumes |-> IF @[v] = NoVolume THEN storage[f.of].volumes[v] ELSE @[v]]]
    /\ VeleroStep /\ UNCHANGED <<storage, bounds>>

RestoreFails(r) ==
    /\ Velero /\ cl.restores[r] = "InProgress" /\ Fault
    /\ cl' = [cl EXCEPT !.restores[r] = "PartiallyFailed"]
    /\ VeleroStep /\ UNCHANGED <<storage, edits>>

(***************************************************************************)
(* Users and applications.  Which stage follows which is in IBUStages; an  *)
(* abort ends the reconcile that runs, a rollback boots the old stateroot. *)
(***************************************************************************)
UserStep == pc = "idle" /\ UNCHANGED <<cm, storage, files, dpaFile, pc, loop, bounds>>

StartPrep ==
    /\ stage = "Idle" /\ attempt < MaxAttempts
    /\ stage' = "Prep" /\ cond' = "InProgress" /\ attempt' = attempt + 1
    /\ UserStep /\ UNCHANGED cluster

StartUpgrade ==
    /\ stage = "Prep" /\ cond = "Completed"
    /\ stage' = "Upgrade" /\ cond' = "InProgress"
    /\ UserStep /\ UNCHANGED <<attempt, cluster>>

AbortOrFinalize ==
    /\ \/ stage = "Prep" \/ PrePivot \/ stage = "Rollback"
       \/ PostPivot /\ cond = "Completed"
    /\ stage' = "Cleanup" /\ cond' = "InProgress"
    /\ UserStep /\ UNCHANGED <<attempt, cluster>>

Rollback ==
    /\ PostPivot
    /\ stage' = "Rollback" /\ cond' = "Completed"
    /\ cl' = prev /\ prev' = NoCluster
    /\ UserStep /\ UNCHANGED attempt

ManualCleanupDone ==
    /\ stage = "Cleanup" /\ cond = "Failed"
    /\ cond' = "InProgress"
    /\ UserStep /\ UNCHANGED <<stage, attempt, cluster>>

EditConfigMap ==
    /\ stage = "Upgrade" /\ edits < Edits /\ edits' = edits + 1
    /\ cm' \in {c \in Contents \ {cm} : PairedCRs(c)}
    /\ UNCHANGED <<stage, cond, attempt, cluster, storage, files, dpaFile, pc, loop, faults>>

CreateVolume ==
    /\ PrePivot /\ cl.volumes["late"] = NoVolume
    /\ cl' = [cl EXCEPT !.volumes["late"] = Untouched("late")]
    /\ UNCHANGED <<cm, stage, cond, attempt, prev, storage, files, dpaFile, pc, loop, bounds>>

\* The day's work is over.
Done == stage = "Idle" /\ attempt = MaxAttempts /\ UNCHANGED vars

Controller ==
    \/ CleanupStaleBackups \/ ensureBackupsDeleted
    \/ ValidateOadpConfigmaps \/ PrepDone
    \/ HandleBackup \/ PatchPVsReclaimPolicy \/ StartOrTrackBackup \/ BackupGroup
    \/ ExportOadpConfigurationToDir \/ ExportRestoresToDir \/ Pivot
    \/ HandleRestore \/ StartOrTrackRestore \/ RestoreGroup
    \/ RestoredPVs \/ RemoveOadpPath
    \/ CleanupDeleteBackupRequests \/ CleanupBackups \/ CleanupPVs

VeleroWorks ==
    \/ \E b \in BackupNames : \/ BackupStarts(b) \/ BackupCompletes(b) \/ BackupSynced(b)
                              \/ BackupDeleted(b) \/ RequestExpires(b)
    \/ \E r \in RestoreNames : RestoreStarts(r) \/ RestoreCompletes(r)

Next ==
    \/ Controller \/ VeleroWorks
    \/ Interrupt \/ DeletionTimeout \/ IsOadpInstalled \/ BackupsNotFound
    \/ \E b \in BackupNames : BackupFails(b)
    \/ \E r \in RestoreNames : RestoreFails(r)
    \/ StartPrep \/ StartUpgrade \/ AbortOrFinalize \/ Rollback \/ ManualCleanupDone
    \/ EditConfigMap \/ CreateVolume
    \/ Done

\* The operator requeues and Velero's controllers run.
Fairness ==
    /\ WF_vars(Controller)
    /\ \A b \in BackupNames :
          WF_vars(BackupStarts(b)) /\ WF_vars(BackupCompletes(b) \/ BackupFails(b))
          /\ WF_vars(BackupSynced(b)) /\ WF_vars(BackupDeleted(b)) /\ WF_vars(RequestExpires(b))
    /\ \A r \in RestoreNames : WF_vars(RestoreStarts(r)) /\ WF_vars(RestoreCompletes(r))

Spec == Init /\ [][Next]_vars
FairSpec == Spec /\ Fairness
-----------------------------------------------------------------------------
(***************************************************************************)
(* Properties.                                                             *)
(***************************************************************************)
BackupStates ==
    {NoBackup} \cup
    [owner : Owners \cup {Me}, phase : {"", "InProgress", "Completed"} \cup Failed,
     objs : SUBSET Objects, holds : SUBSET Objects,
     volumes : [Volumes -> {NoVolume} \cup [policy : {"Delete", "Retain"}, updated : BOOLEAN]],
     attempt : 0..MaxAttempts]

\* The types of the variables: the stages and conditions of the handlers, the
\* phases of Velero's CRs and the files of the new stateroot.
TypeOK ==
    /\ cm \in Contents
    /\ stage \in {"Idle", "Prep", "Upgrade", "Rollback", "Cleanup"}
    /\ cond \in {"InProgress", "Completed", "Failed"}
    /\ attempt \in 0..MaxAttempts
    /\ \A c \in {cl, prev} \ {NoCluster} :
          /\ \A b \in BackupNames : c.crs[b] \in BackupStates
          /\ c.requests \in [BackupNames -> [labelled : BOOLEAN, phase : {"none", "New", "Errors"}]]
          /\ c.restores \in [RestoreNames -> {"none", "", "InProgress", "Completed"} \cup Failed]
          /\ c.label \in [Objects -> BackupNames \cup {0}]
          /\ c.dpas \in 0..1
    /\ \A b \in BackupNames : storage[b] \in BackupStates
    /\ files \in SUBSET [group : Nat, index : Nat, name : RestoreNames, of : BackupNames]
    /\ dpaFile \in 0..1 /\ edits \in 0..Edits /\ faults \in [FaultKinds -> 0..MaxFaults]
    /\ stale \subseteq BackupNames

\* No edit of the ConfigMap during an upgrade, no probe for OADP that failed:
\* either leaves backups behind that a cleanup does not find.
Undisturbed == edits = 0 /\ faults["probe"] = 0

\* A restore is applied only from a backup that this cluster made
\* (getValidBackup), and made for this upgrade: neither another cluster's backup
\* of the same name nor, where the cleanups were not disturbed, one of an aborted
\* or rolled back upgrade (CleanupBackups).
RestoreFromThisUpgrade ==
    PostPivot =>
        \A f \in files : cl.restores[f.name] # "none" =>
            /\ storage[f.of].owner = Me
            /\ Undisturbed => storage[f.of].attempt = attempt

\* When the node has pivoted, each backup of the ConfigMap is complete in the
\* storage, made for this upgrade, and a restore of it was exported
\* (HandleBackup, ExportRestoresToDir): no application data is left behind.
NothingLost ==
    Undisturbed /\ PostPivot /\ cond = "InProgress" /\ files # {} =>
        \A b \in DOMAIN cm.backups \cup {f.of : f \in files} :
            /\ storage[b] # NoBackup /\ storage[b].owner = Me /\ storage[b].attempt = attempt
            /\ \E f \in files : f.of = b

\* During an upgrade, a backup that completed holds every object its apply-label
\* annotation lists (applyBackupLabels).  An edit that moves an object to another
\* backup takes the label away from one that is being made.
BackupHoldsListed ==
    Undisturbed /\ stage = "Upgrade" => \A b \in BackupNames :
        storage[b] # NoBackup /\ storage[b].owner = Me => storage[b].holds = storage[b].objs

\* CRs are applied wave by wave, each wave after the one before has completed
\* (HandleBackup and HandleRestore), whatever fails or restarts in between; the
\* waves of an edited ConfigMap need not be those of the CRs that are there.
WavesInOrder ==
    Undisturbed /\ stage = "Upgrade" =>
        /\ PrePivot => \A b, c \in DOMAIN cm.backups :
              Wave(cm.backups[b].wave) < Wave(cm.backups[c].wave) /\ Valid(c) =>
                  Valid(b) /\ cl.crs[b].phase = "Completed"
        /\ PostPivot => \A q, r \in DOMAIN cm.restores :
              Wave(cm.restores[q].wave) < Wave(cm.restores[r].wave) /\ cl.restores[r] # "none" =>
                  cl.restores[q] = "Completed"

\* At Idle neither the cluster nor the storage holds a backup of this cluster
\* (cleanupOADPResources, CleanupBackups), when no probe for OADP failed and the
\* ConfigMap was not edited.
NoBackupsLeft ==
    Undisturbed /\ stage = "Idle" => \A b \in BackupNames : storage[b].owner # Me /\ cl.crs[b].owner # Me

\* At Idle every volume has the policy it had before the upgrade, those of
\* users included (PatchPVsReclaimPolicy, RestorePVsReclaimPolicy); again
\* unless a probe for OADP failed, which skips the whole cleanup.
PoliciesKept ==
    faults["probe"] = 0 /\ stage = "Idle" => \A v \in Volumes : cl.volumes[v] \in {NoVolume, Untouched(v)}

\* An upgrade that was aborted, finalized or rolled back leaves nothing behind.
IdleIsClean == NoBackupsLeft /\ PoliciesKept

\* A volume that was there when the backups began is backed up with the policy
\* Retain (PatchPVsReclaimPolicy): Velero would otherwise not bring it back with
\* its data.  A cleanup that does not find the backups does not stop them either.
RetainWhenBackedUp ==
    faults["probe"] = 0 => \A b \in BackupNames :
        storage[b] # NoBackup /\ storage[b].owner = Me =>
            \A v \in Volumes \ {"late"} : storage[b].volumes[v].policy # "Delete"

\* What the application keeps in its objects and volumes goes along, in the
\* order of the waves (HandleBackup, HandleRestore).
DataCarried == NothingLost /\ BackupHoldsListed /\ RetainWhenBackedUp /\ WavesInOrder

\* At Idle no request to delete a backup is left (CleanupDeleteBackupRequests).
IdleNoRequests ==
    stage = "Idle" => \A b \in BackupNames : cl.requests[b].phase = "none"

\* What is in progress ends: a Prep, an upgrade and a cleanup succeed, fail or
\* are given up, whatever CRs Velero still has to process.  An upgrade whose
\* ConfigMap is edited, or whose cleanup was skipped before it, may wait for a
\* backup that nobody makes or that an old request deletes.
Settles == cond = "InProgress" ~> cond # "InProgress" \/ ~Undisturbed
=============================================================================
