----------------------------- MODULE PostPivot -----------------------------
(***************************************************************************)
(* The reconfiguration of the new stateroot after the pivot: the unit      *)
(* installation-configuration.service, which runs lca-cli post-pivot and   *)
(* is started again until it succeeds, and lca-restore-nmconnections,      *)
(* which runs before NetworkManager.  The same unit serves the upgrade     *)
(* (IBU), whose configuration is staged before the boot, and the           *)
(* installation (IBI), whose configuration comes on a block device.        *)
(*                                                                         *)
(* The disk is the set of the files and links that matter.  What is        *)
(* written reaches the disk in order but late: a power loss goes back to   *)
(* any view of the disk since the last sync.  Addresses and networks are   *)
(* modelled by their family and by whose they are.                         *)
(***************************************************************************)
EXTENDS Integers, FiniteSetsExt, Sequences, SequencesExt

CONSTANTS
    Inputs,         \* what nodes come with: the flow ("IBU" or "IBI"), the seed's
                    \* information, the reconfiguration, and whether the rollback
                    \* on a failure of post-pivot is enabled
    MaxFaults,      \* bound on failing steps
    MaxCrashes      \* bound on the members of Crashes

Families == {"v4", "v6"}
Network == [fam : Families, of : {"seed", "site"}]
NoFamily == "none"
NoNetwork == [fam |-> NoFamily, of |-> "site"]
Stacks == {<<f>> : f \in Families} \cup {<<"v4", "v6">>, <<"v6", "v4">>}

\* SeedClusterInfo and SeedReconfiguration: the fields that steer the flow.
\* nodeIP and machineNetwork are the deprecated single fields.
SeedInfo == [nodeIPs : Stacks \cup {<<>>}, nodeIP : Families \cup {NoFamily},
             machineNetworks : Seq(Network), hasProxy : BOOLEAN]
Reconfiguration ==
    [nodeIPs : Stacks \cup {<<>>}, nodeIP : Families \cup {NoFamily},
     machineNetworks : Seq(Network), machineNetwork : Network \cup {NoNetwork},
     proxy : BOOLEAN, hostname : {"given", "empty", "localhost"},
     osHostname : {"given", "localhost"}, version : BOOLEAN]

ASSUME InputsAssumption ==
    \A i \in Inputs : /\ i.flow \in {"IBU", "IBI"} /\ i.autoRollback \in BOOLEAN
                      /\ i.seed \in SeedInfo /\ i.conf \in Reconfiguration
ASSUME BoundsAssumption == MaxFaults \in Nat /\ MaxCrashes \in Nat

VARIABLES
    input,      \* what this node came with
    device,     \* the block device with the configuration is attached
    files,      \* what is on the disk, as running programs see it
    views,      \* what a power loss may leave on the disk
    pc,         \* where post-pivot is
    ran,        \* the function of the RunOnce at pc has returned
    ips,        \* NodeIPs, in the memory of the process
    id,         \* the resolved cluster ID, in the memory of the process
    savedID,    \* the content of generated-cluster-id
    nextID,     \* the next random cluster ID
    nm,         \* NetworkManager: down, on a default DHCP profile, on the profiles
    kubelet,    \* kubelet is running
    cluster,    \* what the cluster's API holds
    clusterID,  \* the cluster ID in the ClusterVersion
    faults, crashes

memory == <<ran, ips, id>>
disk == <<files, views>>
api == <<cluster, clusterID>>
bounds == <<faults, crashes>>
vars == <<input, device, disk, pc, memory, savedID, nextID, nm, kubelet, api, bounds>>

SeedID == 0
OrigID == 1

-----------------------------------------------------------------------------
(* The order of the work.                                                  *)

\* Mutant: kubelet is enabled before recert.
Order_kubeletFirst ==
    <<"wait", "read", "ssh", "pull", "profiles", "nmstate", "restartNM", "hostname",
      "nodeIP", "dnsmasq", "check", "kubelet", "recert", "removeKeys", "keys",
      "mirrors", "manifests", "extra", "csv", "oadp", "clusterID", "syncID", "patchID",
      "labels", "lvm", "disable", "cleanup", "cleanSeed", "idle">>

\* PostPivotConfiguration and networkConfiguration, in the order of their
\* calls.  "copy" is setupConfigurationFolder, "keys" the two halves of
\* applyServerSSHKeys, and the three ID steps are setNewClusterID.
Order == <<"wait", "read", "ssh", "pull", "profiles", "nmstate", "restartNM", "hostname",
           "nodeIP", "dnsmasq", "check", "recert", "removeKeys", "keys", "kubelet",
           "mirrors", "manifests", "extra", "csv", "oadp", "clusterID", "syncID", "patchID",
           "labels", "lvm", "disable", "cleanup", "cleanSeed", "idle">>

Following(step) == Order[CHOOSE i \in 2 .. Len(Order) : Order[i - 1] = step]

\* The steps under a RunOnce, by the name of its marker.
MarkerOf == [ssh |-> "setSSHKey.done", pull |-> "pull-secret.done",
             nmstate |-> "apply-static-network.done", recert |-> "recert.done",
             clusterID |-> "set_cluster_id.done", labels |-> "set_node_labels.done",
             lvm |-> "recover_lvm_devices.done"]
Once == DOMAIN MarkerOf
Marker(name) == MarkerOf[name]
OnceName(step) == IF step = "patchID" THEN "clusterID" ELSE step

Parts == <<"config", "manifest", "extra", "network">>
Staged == {Parts[i] : i \in DOMAIN Parts}
Markers == {Marker(name) : name \in Once}
WorkingDir == Staged \cup Markers \cup {"id"}

\* What the steps leave on the host and in the API, when all is done.
HostWork == {"ssh", "pull", "dnsmasq", "crypto", "keys", "lvm"}
ClusterWork == {"siteMirrors", "manifests", "extra", "csv", "oadp", "labels"}

-----------------------------------------------------------------------------
(* The pure parts.                                                         *)

\* seedClusterInfoNodeIPs, seedReconfigurationNodeIPs: the deprecated field
\* when the list is empty.
NodeIPs(r) == IF r.nodeIPs # <<>> THEN r.nodeIPs
              ELSE IF r.nodeIP # NoFamily THEN <<r.nodeIP>> ELSE <<>>

getMachineNetworksFromSeedReconfig(conf) ==
    IF conf.machineNetworks # <<>> THEN conf.machineNetworks
    ELSE IF conf.machineNetwork # NoNetwork THEN <<conf.machineNetwork>> ELSE <<>>

FamiliesOf(nets) == [i \in DOMAIN nets |-> nets[i].fam]

\* The three rules on the number and the family order of addresses and networks.
validateIPAndMachineNetworkConsistency(seed, conf, nodeIPs) ==
    LET nets == getMachineNetworksFromSeedReconfig(conf) IN
    /\ NodeIPs(seed) # <<>> /\ nodeIPs # <<>>
    /\ NodeIPs(seed) = nodeIPs
    /\ FamiliesOf(nets) = nodeIPs
    /\ seed.machineNetworks # <<>> => FamiliesOf(seed.machineNetworks) = FamiliesOf(nets)

\* A proxy needs a seed with a proxy, and networks to leave out of it.
setProxyAndProxyStatus(seed, conf) ==
    /\ conf.proxy = seed.hasProxy
    /\ conf.proxy => getMachineNetworksFromSeedReconfig(conf) # <<>>

\* A hostname is given or taken from the kernel, and never localhost.
setHostname(conf) == \/ conf.hostname = "given"
                     \/ conf.hostname = "empty" /\ conf.osHostname # "localhost"

\* CreateRecertConfigFile: the rules that replace addresses pair the node IPs
\* by position, when there are as many; the machine networks are passed when
\* the lists differ.
RecertConfig(seed, conf, nodeIPs) ==
    [replace |-> IF Len(NodeIPs(seed)) = Len(nodeIPs)
                 THEN [i \in DOMAIN nodeIPs |-> <<NodeIPs(seed)[i], nodeIPs[i]>>] ELSE <<>>,
     networks |-> IF conf.machineNetworks # seed.machineNetworks
                  THEN conf.machineNetworks ELSE <<>>]

-----------------------------------------------------------------------------
(* The disk.                                                               *)

Write(new) == files' = new /\ views' = views \cup {new}

\* The file system commits what was written.
Writeback == views # {files} /\ views' = {files}
             /\ UNCHANGED <<input, device, files, pc, memory, savedID, nextID, nm, kubelet,
                            api, bounds>>

-----------------------------------------------------------------------------
(* Boot, failure and restart.                                              *)

\* What may happen to the process: it is killed, the power is lost, the copy of
\* the block device is interrupted, looking for a marker fails.
Crashes == {"kill", "power", "copy", "stat"}

Init ==
    /\ input \in Inputs
    /\ device = FALSE
    /\ files = {"service", "nmService", "seedData"} \cup (IF input.flow = "IBU" THEN Staged ELSE {})
    /\ views = {files}
    /\ pc = "off" /\ ran = FALSE /\ ips = <<>> /\ id = SeedID
    /\ savedID = SeedID /\ nextID = OrigID + 1
    /\ nm = "down" /\ kubelet = FALSE
    /\ cluster = {"seedMirrors"} /\ clusterID = SeedID
    /\ faults = 0 /\ crashes = [kind \in Crashes |-> 0]

\* The site attaches the block device (setupConfigurationFolder's source).
Attach ==
    /\ input.flow = "IBI" /\ ~device
    /\ device' = TRUE
    /\ UNCHANGED <<input, disk, pc, memory, savedID, nextID, nm, kubelet, api, bounds>>

\* The restore unit runs when profiles are staged; NetworkManager requires it,
\* and stays down when it failed.  Without the profiles NetworkManager starts
\* a default DHCP profile.
StartNetworkManager ==
    IF "nmService" \in files /\ "network" \in files
    THEN \/ Write(files \cup {"nmProfiles"}) /\ nm' = "profiles" /\ UNCHANGED faults
         \/ faults < MaxFaults /\ faults' = faults + 1 /\ nm' = "down" /\ UNCHANGED disk
    ELSE /\ nm' = IF "nmProfiles" \in files THEN "profiles" ELSE "dhcp"
         /\ UNCHANGED <<disk, faults>>

\* systemd starts what is enabled: kubelet and the configuration service.
Boot ==
    /\ pc = "off"
    /\ StartNetworkManager
    /\ kubelet' = ("kubelet" \in files)
    /\ pc' = IF "service" \in files THEN "wait" ELSE "idle"
    /\ UNCHANGED <<input, device, memory, savedID, nextID, api, crashes>>

\* The process is gone, and its memory with it.
Exit == ran' = FALSE /\ ips' = <<>> /\ id' = SeedID

\* Mutant: the unit is not restarted.
Restart_never == pc' = "idle" /\ Exit

\* systemd starts it again (Restart=on-failure), also when the service was
\* disabled meanwhile.
Restart == pc' = "wait" /\ Exit

\* PostPivotConfiguration returns an error, the count of faults being f then:
\* AutoRollbackIfEnabled reboots into the old stateroot, or fails to, and the
\* process exits.
Failed(f) ==
    \/ input.autoRollback /\ pc' = "rolledBack" /\ Exit /\ faults' = f
    \/ ~input.autoRollback /\ Restart /\ faults' = f
    \/ input.autoRollback /\ f < MaxFaults /\ Restart /\ faults' = f + 1

\* A step fails for a reason the model leaves out (a command, a file, the API),
\* or because of what it was given.
Fails == faults < MaxFaults /\ Failed(faults + 1)
Rejected == Failed(faults)

Crash(kind) == /\ MapThenSumSet(LAMBDA k : crashes[k], Crashes) < MaxCrashes
               /\ crashes' = [crashes EXCEPT ![kind] = @ + 1]

Kill ==
    /\ pc \notin {"off", "idle", "rolledBack"}
    /\ Crash(IF pc = "copy" THEN "copy" ELSE "kill")
    /\ Restart
    /\ UNCHANGED <<input, device, disk, savedID, nextID, nm, kubelet, api, faults>>

PowerLoss ==
    /\ pc \notin {"off", "rolledBack"}
    /\ \E v \in views :
           /\ files' = v /\ views' = {v}
           /\ Crash(IF "config" \in v /\ ~(Staged \subseteq v) THEN "copy" ELSE "power")
    /\ pc' = "off" /\ Exit
    /\ nm' = "down" /\ kubelet' = FALSE
    /\ UNCHANGED <<input, device, savedID, nextID, api, faults>>

-----------------------------------------------------------------------------
(* The configuration.                                                      *)

\* waitForConfiguration: the folder exists, or a device with the label is
\* mounted and copied.
waitForConfiguration ==
    /\ pc = "wait"
    /\ \/ "config" \in files /\ pc' = "read" /\ UNCHANGED <<memory, faults>>
       \/ "config" \notin files /\ device /\ pc' = "copy" /\ UNCHANGED <<memory, faults>>
       \/ "config" \notin files /\ device /\ Fails
    /\ UNCHANGED <<input, device, disk, savedID, nextID, nm, kubelet, api, crashes>>

\* One part of the device's tree reaches the working directory.
setupConfigurationFolder ==
    /\ pc = "copy"
    /\ \/ /\ \E i \in DOMAIN Parts :
                /\ Parts[i] \notin files /\ \A j \in 1 .. i - 1 : Parts[j] \in files
                /\ Write(files \cup {Parts[i]})
          /\ pc' = IF Staged \subseteq files' THEN "read" ELSE "copy"
          /\ UNCHANGED <<memory, faults, crashes>>
       \/ Crash("copy") /\ Rejected /\ UNCHANGED disk
    /\ UNCHANGED <<input, device, savedID, nextID, nm, kubelet, api>>

\* The seed's information and the reconfiguration are read.
ReadConfiguration ==
    /\ pc = "read"
    /\ IF {"manifest", "seedData"} \subseteq files
       THEN pc' = Following(pc) /\ ips' = NodeIPs(input.conf) /\ UNCHANGED <<ran, id, faults>>
       ELSE Rejected
    /\ UNCHANGED <<input, device, disk, savedID, nextID, nm, kubelet, api, crashes>>

-----------------------------------------------------------------------------
(* RunOnce: skip when the marker is there, or cannot be looked for; else   *)
(* call, then mark.                                                        *)

RunOnceSkip ==
    /\ pc \in Once /\ ~ran
    /\ \/ Marker(pc) \in files /\ UNCHANGED crashes
       \/ Marker(pc) \notin files /\ Crash("stat")
    /\ pc' = IF pc = "clusterID" THEN "labels" ELSE Following(pc)
    /\ UNCHANGED <<input, device, disk, memory, savedID, nextID, nm, kubelet, api, faults>>

RunOnceMark ==
    /\ ran
    /\ \/ Write(files \cup {Marker(OnceName(pc))}) /\ ran' = FALSE /\ pc' = Following(pc)
          /\ UNCHANGED <<ips, id, faults>>
       \/ Fails /\ UNCHANGED disk
    /\ UNCHANGED <<input, device, savedID, nextID, nm, kubelet, api, crashes>>

\* The function of a RunOnce at pc is called and returns.
Called(name) == pc = name /\ ~ran /\ Marker(OnceName(name)) \notin files
                /\ ran' = TRUE /\ UNCHANGED <<pc, ips, id>>

\* setSSHKey, createPullSecretFile, applyNMStateConfiguration: what each
\* leaves on the host.
RunOnceHost ==
    /\ \E name \in {"ssh", "pull", "nmstate"} : Called(name) /\ Write(files \cup {name})
    /\ UNCHANGED <<input, device, savedID, nextID, nm, kubelet, api, bounds>>

recoverLvmDevices ==
    /\ Called("lvm") /\ Write(files \cup {"lvm"})
    /\ UNCHANGED <<input, device, savedID, nextID, nm, kubelet, api, bounds>>

-----------------------------------------------------------------------------
(* networkConfiguration and the checks before recert.                      *)

HostStep(step, new) ==
    /\ pc = step /\ pc' = Following(step)
    /\ Write(new)
    /\ UNCHANGED <<input, device, memory, savedID, nextID, nm, kubelet, api, bounds>>

RestoreNMConnectionFiles ==
    HostStep("profiles", IF "network" \in files THEN files \cup {"nmProfiles"} ELSE files)

\* A restart may keep the default DHCP connection that is already active.
RestartNetworkManager ==
    /\ pc = "restartNM" /\ pc' = Following(pc)
    /\ nm' \in (IF "nmProfiles" \in files THEN {"profiles"} ELSE {"dhcp"})
               \cup (IF nm = "dhcp" THEN {"dhcp"} ELSE {})
    /\ UNCHANGED <<input, device, disk, memory, savedID, nextID, kubelet, api, bounds>>

SetHostname ==
    /\ pc = "hostname"
    /\ IF setHostname(input.conf) THEN pc' = Following(pc) /\ UNCHANGED <<memory, faults>>
                                  ELSE Rejected
    /\ UNCHANGED <<input, device, disk, savedID, nextID, nm, kubelet, api, crashes>>

\* Without addresses the nodeip-configuration service chooses them.
setNodeIPsIfNotProvided ==
    /\ pc = "nodeIP" /\ pc' = Following(pc)
    /\ IF ips # <<>> THEN UNCHANGED ips ELSE ips' \in Stacks
    /\ UNCHANGED <<input, device, disk, ran, id, savedID, nextID, nm, kubelet, api, bounds>>

setDnsMasqConfiguration == HostStep("dnsmasq", files \cup {"dnsmasq"})

\* The checks, then establishEarlyCertificateTrust.
Validate ==
    /\ pc = "check"
    /\ IF /\ validateIPAndMachineNetworkConsistency(input.seed, input.conf, ips)
          /\ input.conf.version
          /\ setProxyAndProxyStatus(input.seed, input.conf)
       THEN pc' = Following(pc) /\ UNCHANGED <<memory, faults>>
       ELSE Rejected
    /\ UNCHANGED <<input, device, disk, savedID, nextID, nm, kubelet, api, crashes>>

-----------------------------------------------------------------------------
(* Recert.                                                                 *)

\* A summary is taken for a recert that failed.  Otherwise recert runs; when
\* it fails it may have written its summary.
recert ==
    /\ pc = "recert" /\ ~ran /\ Marker("recert") \notin files
    /\ IF "summary" \in files THEN Rejected /\ UNCHANGED disk
       ELSE \/ /\ Write(files \cup {"crypto", "summary"}
                              \cup IF input.flow = "IBI" THEN {"keys"} ELSE {})
               /\ pc' = "postRecert" /\ UNCHANGED <<memory, faults>>
            \/ Fails /\ (UNCHANGED disk \/ Write(files \cup {"summary"}))
    /\ UNCHANGED <<input, device, savedID, nextID, nm, kubelet, api, crashes>>

\* update-ca-trust, then the RunOnce is marked.
postRecertCommands ==
    /\ pc = "postRecert"
    /\ \/ pc' = "recert" /\ ran' = TRUE /\ UNCHANGED <<ips, id, faults>>
       \/ Fails
    /\ UNCHANGED <<input, device, disk, savedID, nextID, nm, kubelet, api, crashes>>

-----------------------------------------------------------------------------
(* After recert: host keys, kubelet, the objects of the cluster.           *)

\* An upgrade keeps the node's own SSH host keys, in place of the seed's.
removeOldServerSSHKeys ==
    HostStep("removeKeys", IF input.flow = "IBU" THEN files \ {"keys"} ELSE files)
createServerSSHKeyFile ==
    HostStep("keys", IF input.flow = "IBU" THEN files \cup {"keys"} ELSE files)

EnableKubelet ==
    /\ pc = "kubelet" /\ pc' = Following(pc)
    /\ Write(files \cup {"kubelet"})
    /\ kubelet' = TRUE
    /\ UNCHANGED <<input, device, memory, savedID, nextID, nm, api, bounds>>

\* A call of the API: all of its objects, or some of them and an error.
ApiStep(step, add, remove) ==
    /\ pc = step /\ kubelet
    /\ \/ cluster' = (cluster \ remove) \cup add /\ pc' = Following(step)
          /\ UNCHANGED <<memory, faults>>
       \/ /\ \E a \in SUBSET add, r \in SUBSET remove : cluster' = (cluster \ r) \cup a
          /\ Fails
    /\ UNCHANGED <<input, device, disk, savedID, nextID, nm, kubelet, clusterID, crashes>>

\* Mutant: the manifests are applied once.
applyManifests_once ==
    ApiStep("manifests", IF "manifests" \in cluster THEN {} ELSE {"siteMirrors", "manifests"}, {})

deleteAllOldMirrorResources == ApiStep("mirrors", {}, {"seedMirrors", "siteMirrors"})
applyManifests == ApiStep("manifests", {"siteMirrors", "manifests"}, {})
applyExtraManifests == ApiStep("extra", {"extra"} \cap files, {})
changeRegistryInCSVDeployment == ApiStep("csv", {"csv"}, {})
restoreOadp == ApiStep("oadp", {"oadp"}, {})

\* Mutant: the directory of the saved ID is not synced.
syncClusterIDDir_noSync ==
    /\ pc = "syncID" /\ pc' = Following(pc)
    /\ UNCHANGED <<input, device, disk, memory, savedID, nextID, nm, kubelet, api, bounds>>

\* An ID that was given is used; a generated one is read back when it was
\* saved, and saved and synced before it is used otherwise.
resolveClusterID ==
    /\ pc = "clusterID" /\ Marker(pc) \notin files
    /\ IF input.flow = "IBU" \/ "id" \in files
       THEN /\ id' = IF input.flow = "IBU" THEN OrigID ELSE savedID
            /\ pc' = "patchID" /\ UNCHANGED <<disk, savedID, nextID>>
       ELSE /\ id' = nextID /\ savedID' = nextID /\ nextID' = nextID + 1
            /\ Write(files \cup {"id"}) /\ pc' = "syncID"
    /\ UNCHANGED <<input, device, ran, ips, nm, kubelet, api, bounds>>

syncClusterIDDir ==
    /\ pc = "syncID" /\ pc' = Following(pc)
    /\ views' = {files}
    /\ UNCHANGED <<input, device, files, memory, savedID, nextID, nm, kubelet, api, bounds>>

setNewClusterID ==
    /\ Called("patchID") /\ kubelet
    /\ clusterID' = id
    /\ UNCHANGED <<input, device, disk, savedID, nextID, nm, kubelet, cluster, bounds>>

setNodeLabels ==
    /\ Called("labels") /\ kubelet
    /\ cluster' = cluster \cup {"labels"}
    /\ UNCHANGED <<input, device, disk, savedID, nextID, nm, kubelet, clusterID, bounds>>

-----------------------------------------------------------------------------
(* The end.                                                                *)

\* A failure to disable the restore unit is only logged.
DisableService ==
    \/ HostStep("disable", files \ {"service"})
    \/ HostStep("disable", files \ {"service", "nmService"})

\* The working directory is removed, or a part of it and an error.
cleanup ==
    /\ pc = "cleanup"
    /\ \/ Write(files \ WorkingDir) /\ pc' = Following(pc) /\ UNCHANGED <<memory, faults>>
       \/ (\E part \in {Staged, WorkingDir \ Staged} : Write(files \ part)) /\ Fails
    /\ UNCHANGED <<input, device, savedID, nextID, nm, kubelet, api, crashes>>

cleanupSeedData == HostStep("cleanSeed", files \ {"seedData"})

\* Every other step may fail with nothing done.
StepFails ==
    /\ pc \in {"ssh", "pull", "profiles", "nmstate", "restartNM", "hostname", "nodeIP", "dnsmasq",
               "check", "removeKeys", "keys", "kubelet", "clusterID", "syncID", "patchID",
               "labels", "lvm", "disable", "cleanSeed"}
    /\ pc \in Once => ~ran /\ Marker(pc) \notin files
    /\ Fails
    /\ UNCHANGED <<input, device, disk, savedID, nextID, nm, kubelet, api, crashes>>

-----------------------------------------------------------------------------
Step ==
    \/ waitForConfiguration \/ setupConfigurationFolder \/ ReadConfiguration
    \/ RunOnceSkip \/ RunOnceMark \/ RunOnceHost
    \/ RestoreNMConnectionFiles \/ RestartNetworkManager \/ SetHostname
    \/ setNodeIPsIfNotProvided \/ setDnsMasqConfiguration \/ Validate
    \/ recert \/ postRecertCommands \/ removeOldServerSSHKeys \/ createServerSSHKeyFile
    \/ EnableKubelet \/ deleteAllOldMirrorResources \/ applyManifests \/ applyExtraManifests
    \/ changeRegistryInCSVDeployment \/ restoreOadp
    \/ resolveClusterID \/ syncClusterIDDir \/ setNewClusterID \/ setNodeLabels
    \/ recoverLvmDevices \/ DisableService \/ cleanup \/ cleanupSeedData

Next == Step \/ StepFails \/ Boot \/ Attach \/ Kill \/ PowerLoss \/ Writeback

Spec == Init /\ [][Next]_vars

\* systemd boots the machine and keeps post-pivot running.
FairSpec == Spec /\ WF_vars(Boot) /\ WF_vars(Step)

-----------------------------------------------------------------------------
(* Properties.                                                             *)

TypeOK ==
    /\ input \in Inputs /\ {device, ran, kubelet} \subseteq BOOLEAN
    /\ files \in views
    /\ \A v \in views : v \subseteq WorkingDir \cup HostWork
                           \cup {"service", "nmService", "seedData", "nmstate", "nmProfiles",
                                 "summary", "kubelet"}
    /\ pc \in Range(Order) \cup {"off", "copy", "postRecert", "rolledBack"}
    /\ ips \in Stacks \cup {<<>>}
    /\ {id, savedID, clusterID} \subseteq 0 .. nextID
    /\ nm \in {"down", "dhcp", "profiles"}
    /\ cluster \subseteq ClusterWork \cup {"seedMirrors"}
    /\ faults \in 0 .. MaxFaults /\ crashes \in [Crashes -> 0 .. MaxCrashes]

Configured ==
    /\ HostWork \subseteq files
    /\ ClusterWork \subseteq cluster /\ "seedMirrors" \notin cluster
    /\ clusterID # SeedID

\* The copy of the device was not interrupted, and every marker could be read.
Intact == crashes["copy"] = 0 /\ crashes["stat"] = 0

\* The configuration service is disabled only when every part of the seed was
\* reconfigured, whatever failed, was retried or was lost on the way: a marker
\* never stands for work that was not done, and a retry that deletes the
\* mirrors again also applies them again (PostPivotConfiguration).  An
\* interrupted copy of the device and a marker that cannot be looked for are
\* the exceptions: the code goes on as if all was copied, or done.
DisabledWhenConfigured ==
    [][ Intact /\ "service" \in files /\ "service" \notin files' => Configured' ]_vars

\* The cluster never sees a second ID: once the ClusterVersion has left the
\* seed's ID, no retry, restart or power loss gives it another one
\* (resolveClusterID keeps a generated ID stable).  A sync of the saved ID's
\* directory that failed, or that a killed process did not come to, followed by
\* a power loss, is the exception: the retry finds the file and does not sync it
\* again.
ClusterIDStable ==
    [][ clusterID # SeedID /\ Intact
        /\ ((faults = 0 /\ crashes["kill"] = 0) \/ crashes["power"] = 0)
            => clusterID' = clusterID ]_vars

\* recert rewrites the database of etcd, so it never starts while kubelet may
\* be running the cluster on it, also after a power loss (RunOnce of recert).
RecertOffline == Intact /\ pc = "recert" /\ ~ran /\ Marker(pc) \notin files /\ "summary" \notin files
                    => ~kubelet

\* recert is never told to replace an address by one of the other family, and
\* has a rule for every address of the node (validateIPAndMachineNetworkConsistency
\* before CreateRecertConfigFile).
ReplaceKeepsFamily ==
    pc \in {"recert", "postRecert"} /\ Marker("recert") \notin files =>
        LET rules == RecertConfig(input.seed, input.conf, ips).replace IN
        /\ Len(rules) = Len(ips) /\ rules # <<>>
        /\ \A i \in DOMAIN rules : rules[i][1] = rules[i][2]

\* When the profiles are staged at boot, NetworkManager never runs on a default
\* DHCP profile (lca-restore-nmconnections.service).
StagedProfilesUsed == input.flow = "IBU" => nm # "dhcp"

\* What recert needs to be right: it never starts beside a running cluster,
\* every address has a rule of its family, and the node's network is its own
\* (RunOnce of recert, runRecert, setupConfigurationFolder).
RecertSafe == RecertOffline /\ ReplaceKeepsFamily /\ StagedProfilesUsed

\* The configuration does not pass the checks of post-pivot.
Refused == \/ ~setHostname(input.conf) \/ ~input.conf.version
           \/ ~setProxyAndProxyStatus(input.seed, input.conf)
           \/ ~validateIPAndMachineNetworkConsistency(input.seed, input.conf,
                                                      NodeIPs(input.conf))

\* A configuration that is there is applied in the end, or the node rolled back;
\* the exceptions are a configuration the checks refuse, a copy of the device
\* that was interrupted and is never completed, and a summary of recert without
\* its marker, which needs the administrator.
EventuallyConfigured ==
    ("config" \in files \/ device) ~>
        \/ "service" \notin files \/ pc = "rolledBack" \/ Refused \/ crashes["copy"] > 0
        \/ "summary" \in files /\ Marker("recert") \notin files
=============================================================================
