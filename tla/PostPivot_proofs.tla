--------------------------- MODULE PostPivot_proofs ---------------------------
(***************************************************************************)
(* Proofs about PostPivot for every set of inputs and every bound on       *)
(* failing steps and crashes: recert is safe, the service is disabled only *)
(* when all is reconfigured, and the cluster keeps its ID.                 *)
(***************************************************************************)
EXTENDS PostPivot, TLAPS

-----------------------------------------------------------------------------
(* The inductive invariant. *)

\* The steps from one on, in the order of PostPivotConfiguration, up to the
\* removal of the working directory.
FromDisable   == {"disable", "cleanup"}
FromLvm       == {"lvm"} \cup FromDisable
FromLabels    == {"labels"} \cup FromLvm
FromID        == {"clusterID", "syncID", "patchID"} \cup FromLabels
FromOadp      == {"oadp"} \cup FromID
FromCsv       == {"csv"} \cup FromOadp
FromExtra     == {"extra"} \cup FromCsv
FromManifests == {"manifests"} \cup FromExtra
FromKubelet   == {"kubelet", "mirrors"} \cup FromManifests
FromRemove    == {"removeKeys", "keys"} \cup FromKubelet
FromCheck     == {"check", "recert", "postRecert"} \cup FromRemove
FromNmstate   == {"nmstate", "restartNM", "hostname", "nodeIP", "dnsmasq"} \cup FromCheck
FromProfiles  == {"profiles"} \cup FromNmstate
FromPull      == {"pull"} \cup FromProfiles
FromRead      == {"read", "ssh"} \cup FromPull

\* The part of the type invariant that the others rest on.
Shape ==
    /\ input \in Inputs
    /\ files \in views
    /\ ips \in Stacks \cup {<<>>}
    /\ nextID \in Nat /\ nextID >= 2
    /\ faults \in Nat /\ crashes \in [Crashes -> Nat]

\* A step under a RunOnce has returned only where it was called; what follows
\* recert has its marker before it.
FlowInv ==
    /\ ran => pc \in {"ssh", "pull", "nmstate", "recert", "patchID", "labels", "lvm"}
    /\ Intact /\ pc \in FromRemove => "recert.done" \in files

\* What recert leaves.
Recerted(v) == {"crypto", "summary"} \cup (IF input.flow = "IBI" THEN {"keys"} ELSE {}) \subseteq v

\* A marker, on any disk that a power loss may leave, stands for work that was
\* done.
MarkersTrue ==
    \A v \in views :
        /\ "setSSHKey.done" \in v => "ssh" \in v
        /\ "pull-secret.done" \in v => "pull" \in v
        /\ "recert.done" \in v => Recerted(v)
        /\ "recover_lvm_devices.done" \in v => "lvm" \in v
        /\ "set_node_labels.done" \in v => "labels" \in cluster
        /\ "set_cluster_id.done" \in v => clusterID # SeedID
        /\ "id" \in v => savedID # SeedID

\* So does the return of the function, before it is marked.
RanTrue ==
    /\ ran /\ pc = "ssh" => "ssh" \in files
    /\ ran /\ pc = "pull" => "pull" \in files
    /\ pc = "postRecert" \/ (ran /\ pc = "recert") => Recerted(files)
    /\ ran /\ pc = "lvm" => "lvm" \in files
    /\ ran /\ pc = "labels" => "labels" \in cluster
    /\ ran /\ pc = "patchID" => clusterID # SeedID

\* The configuration is there as a whole.
StagedInv ==
    Intact =>
        /\ pc # "copy" /\ "config" \in files => Staged \subseteq files
        /\ pc \in FromRead => "config" \in files

\* What was done on the host, and in the cluster, at each step.
HostInv ==
    Intact =>
        /\ pc \in FromPull => "ssh" \in files
        /\ pc \in FromProfiles => "pull" \in files
        /\ pc \in FromCheck => "dnsmasq" \in files
        /\ pc \in FromKubelet => "keys" \in files
        /\ pc \in FromDisable => "lvm" \in files

ClusterInv ==
    Intact =>
        /\ pc \in FromManifests => "seedMirrors" \notin cluster
        /\ pc \in FromExtra => {"siteMirrors", "manifests"} \subseteq cluster
        /\ pc \in FromCsv => "extra" \in cluster
        /\ pc \in FromOadp => "csv" \in cluster
        /\ pc \in FromID => "oadp" \in cluster
        /\ pc \in FromLvm => "labels" \in cluster
        /\ pc \in FromLabels => clusterID # SeedID

\* A disabled service comes back with a power loss, never the other way.
ServiceInv == "service" \in files => \A v \in views : "service" \in v

\* Where kubelet runs or may be started by a boot, recert has run.
KubeletInv ==
    Intact => /\ kubelet => "summary" \in files
              /\ \A v \in views : "kubelet" \in v => "summary" \in v

\* The checks have been passed where recert runs.
AddressInv ==
    pc \in {"recert", "postRecert"} =>
        validateIPAndMachineNetworkConsistency(input.seed, input.conf, ips)

\* The profiles of an upgrade are staged, with the unit that restores them, or
\* restored.
NetworkInv ==
    input.flow = "IBU" =>
        /\ nm # "dhcp"
        /\ \A v \in views : {"nmService", "network"} \subseteq v \/ "nmProfiles" \in v
        /\ pc \in FromNmstate => "nmProfiles" \in files

\* No step has failed and no process was killed: what was saved is synced
\* before it is used.
NeverRetried == faults = 0 /\ crashes["kill"] = 0

\* The ID about to be used is the given one or the saved one, which is saved
\* only after recert.  Once it is used, the saved one is still there wherever
\* post-pivot can come to use it again, that is, where recert is marked; and
\* recert does not run again.
IDInv ==
    /\ pc \in {"syncID", "patchID"} =>
          IF input.flow = "IBU" THEN id = OrigID ELSE "id" \in files /\ id = savedID
    /\ input.flow = "IBU" => clusterID \in {SeedID, OrigID}
    /\ Intact => \A v \in views : "id" \in v => "summary" \in v
    /\ Intact /\ NeverRetried /\ "id" \in files /\ pc # "syncID" => \A v \in views : "id" \in v
    /\ input.flow # "IBU" /\ clusterID # SeedID /\ Intact =>
          /\ NeverRetried \/ crashes["power"] = 0 =>
                /\ clusterID = savedID
                /\ "recert.done" \in files => "id" \in files
                /\ "summary" \in files
                /\ pc # "postRecert" /\ ~(pc = "recert" /\ ran)
          /\ NeverRetried => \A v \in views :
                "summary" \in v /\ ("recert.done" \in v => "id" \in v)

Inv == /\ Shape /\ FlowInv /\ MarkersTrue /\ RanTrue /\ StagedInv /\ HostInv /\ ClusterInv
       /\ ServiceInv /\ KubeletInv /\ AddressInv /\ NetworkInv /\ IDInv

\* The steps that DisabledWhenConfigured and ClusterIDStable allow.
DisablesConfigured == Intact /\ "service" \in files /\ "service" \notin files' => Configured'
KeepsID ==
    clusterID # SeedID /\ Intact
    /\ ((faults = 0 /\ crashes["kill"] = 0) \/ crashes["power"] = 0)
        => clusterID' = clusterID

-----------------------------------------------------------------------------
(* Operators. *)

\* The step after one is the next of the list, in which no step is twice.
LEMMA FollowsAt == ASSUME NEW k \in 2 .. Len(Order)
                   PROVE  Following(Order[k - 1]) = Order[k]
  <1>1. Len(Order) = 29
    BY DEF Order
  <1>2. \A i \in 2 .. Len(Order) : Order[i - 1] = Order[k - 1] => i = k
    BY <1>1 DEF Order
  <1> QED BY <1>2 DEF Following

\* Each step is followed by the next one of PostPivotConfiguration.
LEMMA Follows ==
    /\ Following("wait") = "read"
    /\ Following("read") = "ssh"
    /\ Following("ssh") = "pull"
    /\ Following("pull") = "profiles"
    /\ Following("profiles") = "nmstate"
    /\ Following("nmstate") = "restartNM"
    /\ Following("restartNM") = "hostname"
    /\ Following("hostname") = "nodeIP"
    /\ Following("nodeIP") = "dnsmasq"
    /\ Following("dnsmasq") = "check"
    /\ Following("check") = "recert"
    /\ Following("recert") = "removeKeys"
    /\ Following("removeKeys") = "keys"
    /\ Following("keys") = "kubelet"
    /\ Following("kubelet") = "mirrors"
    /\ Following("mirrors") = "manifests"
    /\ Following("manifests") = "extra"
    /\ Following("extra") = "csv"
    /\ Following("csv") = "oadp"
    /\ Following("oadp") = "clusterID"
    /\ Following("clusterID") = "syncID"
    /\ Following("syncID") = "patchID"
    /\ Following("patchID") = "labels"
    /\ Following("labels") = "lvm"
    /\ Following("lvm") = "disable"
    /\ Following("disable") = "cleanup"
    /\ Following("cleanup") = "cleanSeed"
    /\ Following("cleanSeed") = "idle"
  <1>1. Len(Order) = 29
    BY DEF Order
  <1>2. \A k \in 2 .. 29 : Following(Order[k - 1]) = Order[k]
    BY <1>1, FollowsAt
  <1>3. /\ Following(Order[1]) = Order[2] /\ Following(Order[2]) = Order[3]
        /\ Following(Order[3]) = Order[4] /\ Following(Order[4]) = Order[5]
        /\ Following(Order[5]) = Order[6] /\ Following(Order[6]) = Order[7]
        /\ Following(Order[7]) = Order[8] /\ Following(Order[8]) = Order[9]
        /\ Following(Order[9]) = Order[10] /\ Following(Order[10]) = Order[11]
        /\ Following(Order[11]) = Order[12] /\ Following(Order[12]) = Order[13]
        /\ Following(Order[13]) = Order[14] /\ Following(Order[14]) = Order[15]
        /\ Following(Order[15]) = Order[16] /\ Following(Order[16]) = Order[17]
        /\ Following(Order[17]) = Order[18] /\ Following(Order[18]) = Order[19]
        /\ Following(Order[19]) = Order[20] /\ Following(Order[20]) = Order[21]
        /\ Following(Order[21]) = Order[22] /\ Following(Order[22]) = Order[23]
        /\ Following(Order[23]) = Order[24] /\ Following(Order[24]) = Order[25]
        /\ Following(Order[25]) = Order[26] /\ Following(Order[26]) = Order[27]
        /\ Following(Order[27]) = Order[28] /\ Following(Order[28]) = Order[29]
    BY <1>2
  <1> QED BY <1>3 DEF Order

\* What is copied are the parts of the configuration.
LEMMA PartsAre == \A i \in DOMAIN Parts : Parts[i] \in {"config", "manifest", "extra", "network"}
  BY DEF Parts
\* A counted crash counts for good.
LEMMA CrashCounts == ASSUME Shape, NEW kind \in Crashes, Crash(kind)
                     PROVE  /\ crashes' \in [Crashes -> Nat]
                            /\ \A k \in Crashes : crashes'[k] = 0 => crashes[k] = 0 /\ k # kind
  BY DEF Shape, Crash

\* The addresses of a configuration are a stack, or none.
LEMMA NodeIPsType == Shape => NodeIPs(input.conf) \in Stacks \cup {<<>>}
  <1> SUFFICES ASSUME Shape
               PROVE  NodeIPs(input.conf) \in Stacks \cup {<<>>}
    OBVIOUS
  <1>1. input.conf \in Reconfiguration
    BY InputsAssumption DEF Shape
  <1>2. /\ input.conf.nodeIPs \in Stacks \cup {<<>>}
        /\ input.conf.nodeIP \in Families \cup {NoFamily}
    BY <1>1 DEF Reconfiguration
  <1> QED BY <1>2 DEF NodeIPs, Stacks

\* A power loss leaves one of the views of the disk, and ends everything that
\* runs.
LEMMA PowerLossLeaves ==
    ASSUME Shape, PowerLoss
    PROVE  \E v \in views :
              /\ files' = v /\ views' = {v}
              /\ Intact' /\ "config" \in v => Staged \subseteq v
              /\ pc' = "off" /\ ran' = FALSE /\ ips' = <<>> /\ nm' = "down" /\ kubelet' = FALSE
              /\ Intact' => Intact
              /\ crashes' \in [Crashes -> Nat]
              /\ crashes'["kill"] = 0 => crashes["kill"] = 0
              /\ crashes'["power"] = 0 /\ Intact' => FALSE
              /\ UNCHANGED <<input, device, savedID, nextID, api, faults>>
  <1>1. PICK v \in views :
           /\ files' = v /\ views' = {v}
           /\ Crash(IF "config" \in v /\ ~(Staged \subseteq v) THEN "copy" ELSE "power")
    BY DEF PowerLoss
  <1>2. \A k \in Crashes : crashes'[k] = 0 => crashes[k] = 0
    BY <1>1, CrashCounts DEF Crashes
  <1>3. crashes' \in [Crashes -> Nat]
    BY <1>1, CrashCounts DEF Crashes
  <1>4. CASE "config" \in v /\ ~(Staged \subseteq v)
    <2>1. ~Intact'
      BY <1>1, <1>4, CrashCounts DEF Crashes, Intact
    <2> QED BY <1>1, <1>2, <1>3, <2>1 DEF PowerLoss, Exit, Crashes
  <1>5. CASE ~("config" \in v /\ ~(Staged \subseteq v))
    <2>1. crashes'["power"] # 0
      BY <1>1, <1>5, CrashCounts DEF Crashes
    <2> QED BY <1>1, <1>2, <1>3, <1>5, <2>1 DEF PowerLoss, Exit, Crashes, Intact
  <1> QED BY <1>4, <1>5

\* Killing the process leaves everything else; in the middle of the copy it
\* counts as an interrupted one.
LEMMA KillLeaves ==
    ASSUME Shape, Kill
    PROVE  /\ pc' = "wait" /\ ran' = FALSE /\ ips' = <<>>
           /\ Intact' => Intact /\ pc # "copy" /\ crashes'["kill"] # 0
           /\ crashes' \in [Crashes -> Nat]
           /\ crashes'["power"] = 0 => crashes["power"] = 0
           /\ UNCHANGED <<input, device, disk, savedID, nextID, nm, kubelet, api, faults>>
  <1>1. Crash(IF pc = "copy" THEN "copy" ELSE "kill")
    BY DEF Kill
  <1>2. /\ crashes' \in [Crashes -> Nat]
        /\ \A k \in Crashes : crashes'[k] = 0 => crashes[k] = 0
        /\ IF pc = "copy" THEN crashes'["copy"] # 0 ELSE crashes'["kill"] # 0
    BY <1>1, CrashCounts DEF Crashes
  <1> QED BY <1>2 DEF Kill, Restart, Exit, Crashes, Intact

-----------------------------------------------------------------------------
(* Every step preserves the invariant. *)

\* The shape of the state.
LEMMA ShapeStep == Shape /\ [Next]_vars => Shape'
  <1> SUFFICES ASSUME Shape, [Next]_vars
               PROVE  Shape'
    OBVIOUS
  <1> USE DEF Shape, memory, disk, api, bounds
  <1>1. CASE waitForConfiguration
    BY <1>1 DEF waitForConfiguration, Fails, Failed, Restart, Exit
  <1>2. CASE setupConfigurationFolder
    BY <1>2 DEF setupConfigurationFolder, Crash, Write, Rejected, Failed, Restart, Exit
  <1>3. CASE ReadConfiguration
    BY <1>3, Follows, NodeIPsType DEF ReadConfiguration, Rejected, Failed, Restart, Exit
  <1>4. CASE RunOnceSkip
    BY <1>4, Follows DEF RunOnceSkip, Once, Marker, MarkerOf, Crash
  <1>5. CASE RunOnceMark
    BY <1>5, Follows DEF RunOnceMark, Write, Marker, MarkerOf, OnceName, Fails, Failed, Restart,
       Exit
  <1>6. CASE RunOnceHost
    BY <1>6 DEF RunOnceHost, Called, Write, Marker, MarkerOf, OnceName
  <1>7. CASE RestoreNMConnectionFiles
    BY <1>7, Follows DEF RestoreNMConnectionFiles, HostStep, Write
  <1>8. CASE RestartNetworkManager
    BY <1>8, Follows DEF RestartNetworkManager
  <1>9. CASE SetHostname
    BY <1>9, Follows DEF SetHostname, Rejected, Failed, Restart, Exit
  <1>10. CASE setNodeIPsIfNotProvided
    BY <1>10, Follows DEF setNodeIPsIfNotProvided
  <1>11. CASE setDnsMasqConfiguration
    BY <1>11, Follows DEF setDnsMasqConfiguration, HostStep, Write
  <1>12. CASE Validate
    BY <1>12, Follows DEF Validate, Rejected, Failed, Restart, Exit
  <1>13. CASE recert
    BY <1>13 DEF recert, Write, Marker, MarkerOf, Fails, Rejected, Failed, Restart, Exit
  <1>14. CASE postRecertCommands
    BY <1>14 DEF postRecertCommands, Fails, Failed, Restart, Exit
  <1>15. CASE removeOldServerSSHKeys
    BY <1>15, Follows DEF removeOldServerSSHKeys, HostStep, Write
  <1>16. CASE createServerSSHKeyFile
    BY <1>16, Follows DEF createServerSSHKeyFile, HostStep, Write
  <1>17. CASE EnableKubelet
    BY <1>17, Follows DEF EnableKubelet, Write
  <1>18. CASE deleteAllOldMirrorResources
    BY <1>18, Follows DEF deleteAllOldMirrorResources, ApiStep, Fails, Failed, Restart, Exit
  <1>19. CASE applyManifests
    BY <1>19, Follows DEF applyManifests, ApiStep, Fails, Failed, Restart, Exit
  <1>20. CASE applyExtraManifests
    BY <1>20, Follows DEF applyExtraManifests, ApiStep, Fails, Failed, Restart, Exit
  <1>21. CASE changeRegistryInCSVDeployment
    BY <1>21, Follows DEF changeRegistryInCSVDeployment, ApiStep, Fails, Failed, Restart, Exit
  <1>22. CASE restoreOadp
    BY <1>22, Follows DEF restoreOadp, ApiStep, Fails, Failed, Restart, Exit
  <1>23. CASE resolveClusterID
    BY <1>23 DEF resolveClusterID, Write, Marker, MarkerOf
  <1>24. CASE syncClusterIDDir
    BY <1>24, Follows DEF syncClusterIDDir
  <1>25. CASE setNewClusterID
    BY <1>25 DEF setNewClusterID, Called, Marker, MarkerOf, OnceName
  <1>26. CASE setNodeLabels
    BY <1>26 DEF setNodeLabels, Called, Marker, MarkerOf, OnceName
  <1>27. CASE recoverLvmDevices
    BY <1>27 DEF recoverLvmDevices, Called, Write, Marker, MarkerOf, OnceName
  <1>28. CASE DisableService
    BY <1>28, Follows DEF DisableService, HostStep, Write
  <1>29. CASE cleanup
    BY <1>29, Follows DEF cleanup, Write, WorkingDir, Markers, Marker, MarkerOf, Once, Staged,
       Parts, Fails, Failed, Restart, Exit
  <1>30. CASE cleanupSeedData
    BY <1>30, Follows DEF cleanupSeedData, HostStep, Write
  <1>31. CASE StepFails
    BY <1>31 DEF StepFails, Once, Marker, MarkerOf, Fails, Failed, Restart, Exit
  <1>32. CASE Boot
    BY <1>32 DEF Boot, StartNetworkManager, Write
  <1>33. CASE Attach
    BY <1>33 DEF Attach
  <1>34. CASE Kill
    BY <1>34, KillLeaves
  <1>35. CASE PowerLoss
    BY <1>35, PowerLossLeaves
  <1>36. CASE Writeback
    BY <1>36 DEF Writeback
  <1>37. CASE UNCHANGED vars
    BY <1>37 DEF vars
  <1> QED BY <1>1, <1>2, <1>3, <1>4, <1>5, <1>6, <1>7, <1>8, <1>9, <1>10, <1>11, <1>12, <1>13,
             <1>14, <1>15, <1>16, <1>17, <1>18, <1>19, <1>20, <1>21, <1>22, <1>23, <1>24, <1>25,
             <1>26, <1>27, <1>28, <1>29, <1>30, <1>31, <1>32, <1>33, <1>34, <1>35, <1>36, <1>37
           DEF Next, Step

\* Where the functions return, and the marker of recert.
LEMMA FlowStep == Shape /\ FlowInv /\ [Next]_vars => FlowInv'
  <1> SUFFICES ASSUME Shape, FlowInv, [Next]_vars
               PROVE  FlowInv'
    OBVIOUS
  <1> USE DEF Shape, FlowInv, Intact, Crashes, FromDisable, FromLvm, FromLabels, FromID,
              FromOadp, FromCsv, FromExtra, FromManifests, FromKubelet, FromRemove, FromCheck,
              FromNmstate, FromProfiles, FromPull, FromRead, memory, disk, api, bounds
  <1>1. CASE waitForConfiguration
    BY <1>1 DEF waitForConfiguration, Fails, Failed, Restart, Exit
  <1>2. CASE setupConfigurationFolder
    BY <1>2, CrashCounts, PartsAre DEF setupConfigurationFolder, Crash, Write, Rejected, Failed,
       Restart, Exit
  <1>3. CASE ReadConfiguration
    BY <1>3, Follows, NodeIPsType DEF ReadConfiguration, Rejected, Failed, Restart, Exit
  <1>4. CASE RunOnceSkip
    BY <1>4, Follows, CrashCounts DEF RunOnceSkip, Once, Marker, MarkerOf, Crash
  <1>5. CASE RunOnceMark
    BY <1>5, Follows DEF RunOnceMark, Write, Marker, MarkerOf, OnceName, Fails, Failed, Restart,
       Exit
  <1>6. CASE RunOnceHost
    BY <1>6 DEF RunOnceHost, Called, Write, Marker, MarkerOf, OnceName
  <1>7. CASE RestoreNMConnectionFiles
    BY <1>7, Follows DEF RestoreNMConnectionFiles, HostStep, Write
  <1>8. CASE RestartNetworkManager
    BY <1>8, Follows DEF RestartNetworkManager
  <1>9. CASE SetHostname
    BY <1>9, Follows DEF SetHostname, Rejected, Failed, Restart, Exit
  <1>10. CASE setNodeIPsIfNotProvided
    BY <1>10, Follows DEF setNodeIPsIfNotProvided
  <1>11. CASE setDnsMasqConfiguration
    BY <1>11, Follows DEF setDnsMasqConfiguration, HostStep, Write
  <1>12. CASE Validate
    BY <1>12, Follows DEF Validate, Rejected, Failed, Restart, Exit
  <1>13. CASE recert
    BY <1>13 DEF recert, Write, Marker, MarkerOf, Fails, Rejected, Failed, Restart, Exit
  <1>14. CASE postRecertCommands
    BY <1>14 DEF postRecertCommands, Fails, Failed, Restart, Exit
  <1>15. CASE removeOldServerSSHKeys
    BY <1>15, Follows DEF removeOldServerSSHKeys, HostStep, Write
  <1>16. CASE createServerSSHKeyFile
    BY <1>16, Follows, InputsAssumption DEF createServerSSHKeyFile, HostStep, Write
  <1>17. CASE EnableKubelet
    BY <1>17, Follows DEF EnableKubelet, Write
  <1>18. CASE deleteAllOldMirrorResources
    BY <1>18, Follows DEF deleteAllOldMirrorResources, ApiStep, Fails, Failed, Restart, Exit
  <1>19. CASE applyManifests
    BY <1>19, Follows DEF applyManifests, ApiStep, Fails, Failed, Restart, Exit
  <1>20. CASE applyExtraManifests
    BY <1>20, Follows DEF applyExtraManifests, ApiStep, Fails, Failed, Restart, Exit
  <1>21. CASE changeRegistryInCSVDeployment
    BY <1>21, Follows DEF changeRegistryInCSVDeployment, ApiStep, Fails, Failed, Restart, Exit
  <1>22. CASE restoreOadp
    BY <1>22, Follows DEF restoreOadp, ApiStep, Fails, Failed, Restart, Exit
  <1>23. CASE resolveClusterID
    BY <1>23 DEF resolveClusterID, Write, Marker, MarkerOf
  <1>24. CASE syncClusterIDDir
    BY <1>24, Follows DEF syncClusterIDDir
  <1>25. CASE setNewClusterID
    BY <1>25 DEF setNewClusterID, Called, Marker, MarkerOf, OnceName
  <1>26. CASE setNodeLabels
    BY <1>26 DEF setNodeLabels, Called, Marker, MarkerOf, OnceName
  <1>27. CASE recoverLvmDevices
    BY <1>27 DEF recoverLvmDevices, Called, Write, Marker, MarkerOf, OnceName
  <1>28. CASE DisableService
    BY <1>28, Follows DEF DisableService, HostStep, Write
  <1>29. CASE cleanup
    BY <1>29, Follows DEF cleanup, Write, WorkingDir, Markers, Marker, MarkerOf, Once, Staged,
       Parts, Fails, Failed, Restart, Exit
  <1>30. CASE cleanupSeedData
    BY <1>30, Follows DEF cleanupSeedData, HostStep, Write
  <1>31. CASE StepFails
    BY <1>31 DEF StepFails, Once, Marker, MarkerOf, Fails, Failed, Restart, Exit
  <1>32. CASE Boot
    BY <1>32 DEF Boot, StartNetworkManager, Write
  <1>33. CASE Attach
    BY <1>33 DEF Attach
  <1>34. CASE Kill
    BY <1>34, KillLeaves
  <1>35. CASE PowerLoss
    BY <1>35, PowerLossLeaves
  <1>36. CASE Writeback
    BY <1>36 DEF Writeback
  <1>37. CASE UNCHANGED vars
    BY <1>37 DEF vars
  <1> QED BY <1>1, <1>2, <1>3, <1>4, <1>5, <1>6, <1>7, <1>8, <1>9, <1>10, <1>11, <1>12, <1>13,
             <1>14, <1>15, <1>16, <1>17, <1>18, <1>19, <1>20, <1>21, <1>22, <1>23, <1>24, <1>25,
             <1>26, <1>27, <1>28, <1>29, <1>30, <1>31, <1>32, <1>33, <1>34, <1>35, <1>36, <1>37
           DEF Next, Step

\* The markers stand for work done.
LEMMA MarkersStep == Shape /\ FlowInv /\ MarkersTrue /\ RanTrue /\ IDInv /\ [Next]_vars => MarkersTrue'
  <1> SUFFICES ASSUME Shape, FlowInv, MarkersTrue, RanTrue, IDInv, [Next]_vars
               PROVE  MarkersTrue'
    OBVIOUS
  <1> USE DEF Shape, FlowInv, MarkersTrue, RanTrue, Recerted, IDInv, SeedID, OrigID, memory,
              disk, api, bounds
  <1>1. CASE waitForConfiguration
    BY <1>1 DEF waitForConfiguration, Fails, Failed, Restart, Exit
  <1>2. CASE setupConfigurationFolder
    BY <1>2, CrashCounts, PartsAre DEF setupConfigurationFolder, Crash, Write, Rejected, Failed,
       Restart, Exit
  <1>3. CASE ReadConfiguration
    BY <1>3, Follows, NodeIPsType DEF ReadConfiguration, Rejected, Failed, Restart, Exit
  <1>4. CASE RunOnceSkip
    BY <1>4, Follows, CrashCounts DEF RunOnceSkip, Once, Marker, MarkerOf, Crash
  <1>5. CASE RunOnceMark
    BY <1>5, Follows DEF RunOnceMark, Write, Marker, MarkerOf, OnceName, Fails, Failed, Restart,
       Exit
  <1>6. CASE RunOnceHost
    BY <1>6 DEF RunOnceHost, Called, Write, Marker, MarkerOf, OnceName
  <1>7. CASE RestoreNMConnectionFiles
    BY <1>7, Follows DEF RestoreNMConnectionFiles, HostStep, Write
  <1>8. CASE RestartNetworkManager
    BY <1>8, Follows DEF RestartNetworkManager
  <1>9. CASE SetHostname
    BY <1>9, Follows DEF SetHostname, Rejected, Failed, Restart, Exit
  <1>10. CASE setNodeIPsIfNotProvided
    BY <1>10, Follows DEF setNodeIPsIfNotProvided
  <1>11. CASE setDnsMasqConfiguration
    BY <1>11, Follows DEF setDnsMasqConfiguration, HostStep, Write
  <1>12. CASE Validate
    BY <1>12, Follows DEF Validate, Rejected, Failed, Restart, Exit
  <1>13. CASE recert
    BY <1>13 DEF recert, Write, Marker, MarkerOf, Fails, Rejected, Failed, Restart, Exit
  <1>14. CASE postRecertCommands
    BY <1>14 DEF postRecertCommands, Fails, Failed, Restart, Exit
  <1>15. CASE removeOldServerSSHKeys
    BY <1>15, Follows DEF removeOldServerSSHKeys, HostStep, Write
  <1>16. CASE createServerSSHKeyFile
    BY <1>16, Follows, InputsAssumption DEF createServerSSHKeyFile, HostStep, Write
  <1>17. CASE EnableKubelet
    BY <1>17, Follows DEF EnableKubelet, Write
  <1>18. CASE deleteAllOldMirrorResources
    BY <1>18, Follows DEF deleteAllOldMirrorResources, ApiStep, Fails, Failed, Restart, Exit
  <1>19. CASE applyManifests
    BY <1>19, Follows DEF applyManifests, ApiStep, Fails, Failed, Restart, Exit
  <1>20. CASE applyExtraManifests
    BY <1>20, Follows DEF applyExtraManifests, ApiStep, Fails, Failed, Restart, Exit
  <1>21. CASE changeRegistryInCSVDeployment
    BY <1>21, Follows DEF changeRegistryInCSVDeployment, ApiStep, Fails, Failed, Restart, Exit
  <1>22. CASE restoreOadp
    BY <1>22, Follows DEF restoreOadp, ApiStep, Fails, Failed, Restart, Exit
  <1>23. CASE resolveClusterID
    BY <1>23 DEF resolveClusterID, Write, Marker, MarkerOf
  <1>24. CASE syncClusterIDDir
    BY <1>24, Follows DEF syncClusterIDDir
  <1>25. CASE setNewClusterID
    BY <1>25 DEF setNewClusterID, Called, Marker, MarkerOf, OnceName
  <1>26. CASE setNodeLabels
    BY <1>26 DEF setNodeLabels, Called, Marker, MarkerOf, OnceName
  <1>27. CASE recoverLvmDevices
    BY <1>27 DEF recoverLvmDevices, Called, Write, Marker, MarkerOf, OnceName
  <1>28. CASE DisableService
    BY <1>28, Follows DEF DisableService, HostStep, Write
  <1>29. CASE cleanup
    BY <1>29, Follows DEF cleanup, Write, WorkingDir, Markers, Marker, MarkerOf, Once, Staged,
       Parts, Fails, Failed, Restart, Exit
  <1>30. CASE cleanupSeedData
    BY <1>30, Follows DEF cleanupSeedData, HostStep, Write
  <1>31. CASE StepFails
    BY <1>31 DEF StepFails, Once, Marker, MarkerOf, Fails, Failed, Restart, Exit
  <1>32. CASE Boot
    BY <1>32 DEF Boot, StartNetworkManager, Write
  <1>33. CASE Attach
    BY <1>33 DEF Attach
  <1>34. CASE Kill
    BY <1>34, KillLeaves
  <1>35. CASE PowerLoss
    BY <1>35, PowerLossLeaves
  <1>36. CASE Writeback
    BY <1>36 DEF Writeback
  <1>37. CASE UNCHANGED vars
    BY <1>37 DEF vars
  <1> QED BY <1>1, <1>2, <1>3, <1>4, <1>5, <1>6, <1>7, <1>8, <1>9, <1>10, <1>11, <1>12, <1>13,
             <1>14, <1>15, <1>16, <1>17, <1>18, <1>19, <1>20, <1>21, <1>22, <1>23, <1>24, <1>25,
             <1>26, <1>27, <1>28, <1>29, <1>30, <1>31, <1>32, <1>33, <1>34, <1>35, <1>36, <1>37
           DEF Next, Step

\* What has returned was done.
LEMMA RanStep == Shape /\ FlowInv /\ MarkersTrue /\ RanTrue /\ IDInv /\ [Next]_vars => RanTrue'
  <1> SUFFICES ASSUME Shape, FlowInv, MarkersTrue, RanTrue, IDInv, [Next]_vars
               PROVE  RanTrue'
    OBVIOUS
  <1> USE DEF Shape, FlowInv, MarkersTrue, RanTrue, Recerted, IDInv, SeedID, OrigID, memory,
              disk, api, bounds
  <1>1. CASE waitForConfiguration
    BY <1>1 DEF waitForConfiguration, Fails, Failed, Restart, Exit
  <1>2. CASE setupConfigurationFolder
    BY <1>2, CrashCounts, PartsAre DEF setupConfigurationFolder, Crash, Write, Rejected, Failed,
       Restart, Exit
  <1>3. CASE ReadConfiguration
    BY <1>3, Follows, NodeIPsType DEF ReadConfiguration, Rejected, Failed, Restart, Exit
  <1>4. CASE RunOnceSkip
    BY <1>4, Follows, CrashCounts DEF RunOnceSkip, Once, Marker, MarkerOf, Crash
  <1>5. CASE RunOnceMark
    BY <1>5, Follows DEF RunOnceMark, Write, Marker, MarkerOf, OnceName, Fails, Failed, Restart,
       Exit
  <1>6. CASE RunOnceHost
    BY <1>6 DEF RunOnceHost, Called, Write, Marker, MarkerOf, OnceName
  <1>7. CASE RestoreNMConnectionFiles
    BY <1>7, Follows DEF RestoreNMConnectionFiles, HostStep, Write
  <1>8. CASE RestartNetworkManager
    BY <1>8, Follows DEF RestartNetworkManager
  <1>9. CASE SetHostname
    BY <1>9, Follows DEF SetHostname, Rejected, Failed, Restart, Exit
  <1>10. CASE setNodeIPsIfNotProvided
    BY <1>10, Follows DEF setNodeIPsIfNotProvided
  <1>11. CASE setDnsMasqConfiguration
    BY <1>11, Follows DEF setDnsMasqConfiguration, HostStep, Write
  <1>12. CASE Validate
    BY <1>12, Follows DEF Validate, Rejected, Failed, Restart, Exit
  <1>13. CASE recert
    BY <1>13 DEF recert, Write, Marker, MarkerOf, Fails, Rejected, Failed, Restart, Exit
  <1>14. CASE postRecertCommands
    BY <1>14 DEF postRecertCommands, Fails, Failed, Restart, Exit
  <1>15. CASE removeOldServerSSHKeys
    BY <1>15, Follows DEF removeOldServerSSHKeys, HostStep, Write
  <1>16. CASE createServerSSHKeyFile
    BY <1>16, Follows, InputsAssumption DEF createServerSSHKeyFile, HostStep, Write
  <1>17. CASE EnableKubelet
    BY <1>17, Follows DEF EnableKubelet, Write
  <1>18. CASE deleteAllOldMirrorResources
    BY <1>18, Follows DEF deleteAllOldMirrorResources, ApiStep, Fails, Failed, Restart, Exit
  <1>19. CASE applyManifests
    BY <1>19, Follows DEF applyManifests, ApiStep, Fails, Failed, Restart, Exit
  <1>20. CASE applyExtraManifests
    BY <1>20, Follows DEF applyExtraManifests, ApiStep, Fails, Failed, Restart, Exit
  <1>21. CASE changeRegistryInCSVDeployment
    BY <1>21, Follows DEF changeRegistryInCSVDeployment, ApiStep, Fails, Failed, Restart, Exit
  <1>22. CASE restoreOadp
    BY <1>22, Follows DEF restoreOadp, ApiStep, Fails, Failed, Restart, Exit
  <1>23. CASE resolveClusterID
    BY <1>23 DEF resolveClusterID, Write, Marker, MarkerOf
  <1>24. CASE syncClusterIDDir
    BY <1>24, Follows DEF syncClusterIDDir
  <1>25. CASE setNewClusterID
    BY <1>25 DEF setNewClusterID, Called, Marker, MarkerOf, OnceName
  <1>26. CASE setNodeLabels
    BY <1>26 DEF setNodeLabels, Called, Marker, MarkerOf, OnceName
  <1>27. CASE recoverLvmDevices
    BY <1>27 DEF recoverLvmDevices, Called, Write, Marker, MarkerOf, OnceName
  <1>28. CASE DisableService
    BY <1>28, Follows DEF DisableService, HostStep, Write
  <1>29. CASE cleanup
    BY <1>29, Follows DEF cleanup, Write, WorkingDir, Markers, Marker, MarkerOf, Once, Staged,
       Parts, Fails, Failed, Restart, Exit
  <1>30. CASE cleanupSeedData
    BY <1>30, Follows DEF cleanupSeedData, HostStep, Write
  <1>31. CASE StepFails
    BY <1>31 DEF StepFails, Once, Marker, MarkerOf, Fails, Failed, Restart, Exit
  <1>32. CASE Boot
    BY <1>32 DEF Boot, StartNetworkManager, Write
  <1>33. CASE Attach
    BY <1>33 DEF Attach
  <1>34. CASE Kill
    BY <1>34, KillLeaves
  <1>35. CASE PowerLoss
    BY <1>35, PowerLossLeaves
  <1>36. CASE Writeback
    BY <1>36 DEF Writeback
  <1>37. CASE UNCHANGED vars
    BY <1>37 DEF vars
  <1> QED BY <1>1, <1>2, <1>3, <1>4, <1>5, <1>6, <1>7, <1>8, <1>9, <1>10, <1>11, <1>12, <1>13,
             <1>14, <1>15, <1>16, <1>17, <1>18, <1>19, <1>20, <1>21, <1>22, <1>23, <1>24, <1>25,
             <1>26, <1>27, <1>28, <1>29, <1>30, <1>31, <1>32, <1>33, <1>34, <1>35, <1>36, <1>37
           DEF Next, Step

\* The configuration is a whole.
LEMMA StagedStep == Shape /\ FlowInv /\ StagedInv /\ [Next]_vars => StagedInv'
  <1> SUFFICES ASSUME Shape, FlowInv, StagedInv, [Next]_vars
               PROVE  StagedInv'
    OBVIOUS
  <1> USE DEF Shape, FlowInv, StagedInv, Staged, Parts, Intact, Crashes, FromDisable, FromLvm,
              FromLabels, FromID, FromOadp, FromCsv, FromExtra, FromManifests, FromKubelet,
              FromRemove, FromCheck, FromNmstate, FromProfiles, FromPull, FromRead, memory,
              disk, api, bounds
  <1>1. CASE waitForConfiguration
    BY <1>1 DEF waitForConfiguration, Fails, Failed, Restart, Exit
  <1>2. CASE setupConfigurationFolder
    BY <1>2, CrashCounts, PartsAre DEF setupConfigurationFolder, Crash, Write, Rejected, Failed,
       Restart, Exit
  <1>3. CASE ReadConfiguration
    BY <1>3, Follows, NodeIPsType DEF ReadConfiguration, Rejected, Failed, Restart, Exit
  <1>4. CASE RunOnceSkip
    BY <1>4, Follows, CrashCounts DEF RunOnceSkip, Once, Marker, MarkerOf, Crash
  <1>5. CASE RunOnceMark
    BY <1>5, Follows DEF RunOnceMark, Write, Marker, MarkerOf, OnceName, Fails, Failed, Restart,
       Exit
  <1>6. CASE RunOnceHost
    BY <1>6 DEF RunOnceHost, Called, Write, Marker, MarkerOf, OnceName
  <1>7. CASE RestoreNMConnectionFiles
    BY <1>7, Follows DEF RestoreNMConnectionFiles, HostStep, Write
  <1>8. CASE RestartNetworkManager
    BY <1>8, Follows DEF RestartNetworkManager
  <1>9. CASE SetHostname
    BY <1>9, Follows DEF SetHostname, Rejected, Failed, Restart, Exit
  <1>10. CASE setNodeIPsIfNotProvided
    BY <1>10, Follows DEF setNodeIPsIfNotProvided
  <1>11. CASE setDnsMasqConfiguration
    BY <1>11, Follows DEF setDnsMasqConfiguration, HostStep, Write
  <1>12. CASE Validate
    BY <1>12, Follows DEF Validate, Rejected, Failed, Restart, Exit
  <1>13. CASE recert
    BY <1>13 DEF recert, Write, Marker, MarkerOf, Fails, Rejected, Failed, Restart, Exit
  <1>14. CASE postRecertCommands
    BY <1>14 DEF postRecertCommands, Fails, Failed, Restart, Exit
  <1>15. CASE removeOldServerSSHKeys
    BY <1>15, Follows DEF removeOldServerSSHKeys, HostStep, Write
  <1>16. CASE createServerSSHKeyFile
    BY <1>16, Follows, InputsAssumption DEF createServerSSHKeyFile, HostStep, Write
  <1>17. CASE EnableKubelet
    BY <1>17, Follows DEF EnableKubelet, Write
  <1>18. CASE deleteAllOldMirrorResources
    BY <1>18, Follows DEF deleteAllOldMirrorResources, ApiStep, Fails, Failed, Restart, Exit
  <1>19. CASE applyManifests
    BY <1>19, Follows DEF applyManifests, ApiStep, Fails, Failed, Restart, Exit
  <1>20. CASE applyExtraManifests
    BY <1>20, Follows DEF applyExtraManifests, ApiStep, Fails, Failed, Restart, Exit
  <1>21. CASE changeRegistryInCSVDeployment
    BY <1>21, Follows DEF changeRegistryInCSVDeployment, ApiStep, Fails, Failed, Restart, Exit
  <1>22. CASE restoreOadp
    BY <1>22, Follows DEF restoreOadp, ApiStep, Fails, Failed, Restart, Exit
  <1>23. CASE resolveClusterID
    BY <1>23 DEF resolveClusterID, Write, Marker, MarkerOf
  <1>24. CASE syncClusterIDDir
    BY <1>24, Follows DEF syncClusterIDDir
  <1>25. CASE setNewClusterID
    BY <1>25 DEF setNewClusterID, Called, Marker, MarkerOf, OnceName
  <1>26. CASE setNodeLabels
    BY <1>26 DEF setNodeLabels, Called, Marker, MarkerOf, OnceName
  <1>27. CASE recoverLvmDevices
    BY <1>27 DEF recoverLvmDevices, Called, Write, Marker, MarkerOf, OnceName
  <1>28. CASE DisableService
    BY <1>28, Follows DEF DisableService, HostStep, Write
  <1>29. CASE cleanup
    BY <1>29, Follows DEF cleanup, Write, WorkingDir, Markers, Marker, MarkerOf, Once, Staged,
       Parts, Fails, Failed, Restart, Exit
  <1>30. CASE cleanupSeedData
    BY <1>30, Follows DEF cleanupSeedData, HostStep, Write
  <1>31. CASE StepFails
    BY <1>31 DEF StepFails, Once, Marker, MarkerOf, Fails, Failed, Restart, Exit
  <1>32. CASE Boot
    BY <1>32 DEF Boot, StartNetworkManager, Write
  <1>33. CASE Attach
    BY <1>33 DEF Attach
  <1>34. CASE Kill
    BY <1>34, KillLeaves
  <1>35. CASE PowerLoss
    BY <1>35, PowerLossLeaves
  <1>36. CASE Writeback
    BY <1>36 DEF Writeback
  <1>37. CASE UNCHANGED vars
    BY <1>37 DEF vars
  <1> QED BY <1>1, <1>2, <1>3, <1>4, <1>5, <1>6, <1>7, <1>8, <1>9, <1>10, <1>11, <1>12, <1>13,
             <1>14, <1>15, <1>16, <1>17, <1>18, <1>19, <1>20, <1>21, <1>22, <1>23, <1>24, <1>25,
             <1>26, <1>27, <1>28, <1>29, <1>30, <1>31, <1>32, <1>33, <1>34, <1>35, <1>36, <1>37
           DEF Next, Step

\* The work on the host.
LEMMA HostStepInv == Shape /\ FlowInv /\ MarkersTrue /\ RanTrue /\ HostInv /\ [Next]_vars => HostInv'
  <1> SUFFICES ASSUME Shape, FlowInv, MarkersTrue, RanTrue, HostInv, [Next]_vars
               PROVE  HostInv'
    OBVIOUS
  <1> USE DEF Shape, FlowInv, MarkersTrue, RanTrue, Recerted, HostInv, Intact, Crashes,
              FromDisable, FromLvm, FromLabels, FromID, FromOadp, FromCsv, FromExtra,
              FromManifests, FromKubelet, FromRemove, FromCheck, FromNmstate, FromProfiles,
              FromPull, FromRead, memory, disk, api, bounds
  <1>1. CASE waitForConfiguration
    BY <1>1 DEF waitForConfiguration, Fails, Failed, Restart, Exit
  <1>2. CASE setupConfigurationFolder
    BY <1>2, CrashCounts, PartsAre DEF setupConfigurationFolder, Crash, Write, Rejected, Failed,
       Restart, Exit
  <1>3. CASE ReadConfiguration
    BY <1>3, Follows, NodeIPsType DEF ReadConfiguration, Rejected, Failed, Restart, Exit
  <1>4. CASE RunOnceSkip
    BY <1>4, Follows, CrashCounts DEF RunOnceSkip, Once, Marker, MarkerOf, Crash
  <1>5. CASE RunOnceMark
    BY <1>5, Follows DEF RunOnceMark, Write, Marker, MarkerOf, OnceName, Fails, Failed, Restart,
       Exit
  <1>6. CASE RunOnceHost
    BY <1>6 DEF RunOnceHost, Called, Write, Marker, MarkerOf, OnceName
  <1>7. CASE RestoreNMConnectionFiles
    BY <1>7, Follows DEF RestoreNMConnectionFiles, HostStep, Write
  <1>8. CASE RestartNetworkManager
    BY <1>8, Follows DEF RestartNetworkManager
  <1>9. CASE SetHostname
    BY <1>9, Follows DEF SetHostname, Rejected, Failed, Restart, Exit
  <1>10. CASE setNodeIPsIfNotProvided
    BY <1>10, Follows DEF setNodeIPsIfNotProvided
  <1>11. CASE setDnsMasqConfiguration
    BY <1>11, Follows DEF setDnsMasqConfiguration, HostStep, Write
  <1>12. CASE Validate
    BY <1>12, Follows DEF Validate, Rejected, Failed, Restart, Exit
  <1>13. CASE recert
    BY <1>13 DEF recert, Write, Marker, MarkerOf, Fails, Rejected, Failed, Restart, Exit
  <1>14. CASE postRecertCommands
    BY <1>14 DEF postRecertCommands, Fails, Failed, Restart, Exit
  <1>15. CASE removeOldServerSSHKeys
    BY <1>15, Follows DEF removeOldServerSSHKeys, HostStep, Write
  <1>16. CASE createServerSSHKeyFile
    BY <1>16, Follows, InputsAssumption DEF createServerSSHKeyFile, HostStep, Write
  <1>17. CASE EnableKubelet
    BY <1>17, Follows DEF EnableKubelet, Write
  <1>18. CASE deleteAllOldMirrorResources
    BY <1>18, Follows DEF deleteAllOldMirrorResources, ApiStep, Fails, Failed, Restart, Exit
  <1>19. CASE applyManifests
    BY <1>19, Follows DEF applyManifests, ApiStep, Fails, Failed, Restart, Exit
  <1>20. CASE applyExtraManifests
    BY <1>20, Follows DEF applyExtraManifests, ApiStep, Fails, Failed, Restart, Exit
  <1>21. CASE changeRegistryInCSVDeployment
    BY <1>21, Follows DEF changeRegistryInCSVDeployment, ApiStep, Fails, Failed, Restart, Exit
  <1>22. CASE restoreOadp
    BY <1>22, Follows DEF restoreOadp, ApiStep, Fails, Failed, Restart, Exit
  <1>23. CASE resolveClusterID
    BY <1>23 DEF resolveClusterID, Write, Marker, MarkerOf
  <1>24. CASE syncClusterIDDir
    BY <1>24, Follows DEF syncClusterIDDir
  <1>25. CASE setNewClusterID
    BY <1>25 DEF setNewClusterID, Called, Marker, MarkerOf, OnceName
  <1>26. CASE setNodeLabels
    BY <1>26 DEF setNodeLabels, Called, Marker, MarkerOf, OnceName
  <1>27. CASE recoverLvmDevices
    BY <1>27 DEF recoverLvmDevices, Called, Write, Marker, MarkerOf, OnceName
  <1>28. CASE DisableService
    BY <1>28, Follows DEF DisableService, HostStep, Write
  <1>29. CASE cleanup
    BY <1>29, Follows DEF cleanup, Write, WorkingDir, Markers, Marker, MarkerOf, Once, Staged,
       Parts, Fails, Failed, Restart, Exit
  <1>30. CASE cleanupSeedData
    BY <1>30, Follows DEF cleanupSeedData, HostStep, Write
  <1>31. CASE StepFails
    BY <1>31 DEF StepFails, Once, Marker, MarkerOf, Fails, Failed, Restart, Exit
  <1>32. CASE Boot
    BY <1>32 DEF Boot, StartNetworkManager, Write
  <1>33. CASE Attach
    BY <1>33 DEF Attach
  <1>34. CASE Kill
    BY <1>34, KillLeaves
  <1>35. CASE PowerLoss
    BY <1>35, PowerLossLeaves
  <1>36. CASE Writeback
    BY <1>36 DEF Writeback
  <1>37. CASE UNCHANGED vars
    BY <1>37 DEF vars
  <1> QED BY <1>1, <1>2, <1>3, <1>4, <1>5, <1>6, <1>7, <1>8, <1>9, <1>10, <1>11, <1>12, <1>13,
             <1>14, <1>15, <1>16, <1>17, <1>18, <1>19, <1>20, <1>21, <1>22, <1>23, <1>24, <1>25,
             <1>26, <1>27, <1>28, <1>29, <1>30, <1>31, <1>32, <1>33, <1>34, <1>35, <1>36, <1>37
           DEF Next, Step

\* The work in the cluster.
LEMMA ClusterStep == Shape /\ FlowInv /\ MarkersTrue /\ RanTrue /\ StagedInv /\ ClusterInv /\ [Next]_vars => ClusterInv'
  <1> SUFFICES ASSUME Shape, FlowInv, MarkersTrue, RanTrue, StagedInv, ClusterInv, [Next]_vars
               PROVE  ClusterInv'
    OBVIOUS
  <1> USE DEF Shape, FlowInv, MarkersTrue, RanTrue, Recerted, StagedInv, Staged, Parts,
              ClusterInv, SeedID, Intact, Crashes, FromDisable, FromLvm, FromLabels, FromID,
              FromOadp, FromCsv, FromExtra, FromManifests, FromKubelet, FromRemove, FromCheck,
              FromNmstate, FromProfiles, FromPull, FromRead, memory, disk, api, bounds
  <1>1. CASE waitForConfiguration
    BY <1>1 DEF waitForConfiguration, Fails, Failed, Restart, Exit
  <1>2. CASE setupConfigurationFolder
    BY <1>2, CrashCounts, PartsAre DEF setupConfigurationFolder, Crash, Write, Rejected, Failed,
       Restart, Exit
  <1>3. CASE ReadConfiguration
    BY <1>3, Follows, NodeIPsType DEF ReadConfiguration, Rejected, Failed, Restart, Exit
  <1>4. CASE RunOnceSkip
    BY <1>4, Follows, CrashCounts DEF RunOnceSkip, Once, Marker, MarkerOf, Crash
  <1>5. CASE RunOnceMark
    BY <1>5, Follows DEF RunOnceMark, Write, Marker, MarkerOf, OnceName, Fails, Failed, Restart,
       Exit
  <1>6. CASE RunOnceHost
    BY <1>6 DEF RunOnceHost, Called, Write, Marker, MarkerOf, OnceName
  <1>7. CASE RestoreNMConnectionFiles
    BY <1>7, Follows DEF RestoreNMConnectionFiles, HostStep, Write
  <1>8. CASE RestartNetworkManager
    BY <1>8, Follows DEF RestartNetworkManager
  <1>9. CASE SetHostname
    BY <1>9, Follows DEF SetHostname, Rejected, Failed, Restart, Exit
  <1>10. CASE setNodeIPsIfNotProvided
    BY <1>10, Follows DEF setNodeIPsIfNotProvided
  <1>11. CASE setDnsMasqConfiguration
    BY <1>11, Follows DEF setDnsMasqConfiguration, HostStep, Write
  <1>12. CASE Validate
    BY <1>12, Follows DEF Validate, Rejected, Failed, Restart, Exit
  <1>13. CASE recert
    BY <1>13 DEF recert, Write, Marker, MarkerOf, Fails, Rejected, Failed, Restart, Exit
  <1>14. CASE postRecertCommands
    BY <1>14 DEF postRecertCommands, Fails, Failed, Restart, Exit
  <1>15. CASE removeOldServerSSHKeys
    BY <1>15, Follows DEF removeOldServerSSHKeys, HostStep, Write
  <1>16. CASE createServerSSHKeyFile
    BY <1>16, Follows, InputsAssumption DEF createServerSSHKeyFile, HostStep, Write
  <1>17. CASE EnableKubelet
    BY <1>17, Follows DEF EnableKubelet, Write
  <1>18. CASE deleteAllOldMirrorResources
    BY <1>18, Follows DEF deleteAllOldMirrorResources, ApiStep, Fails, Failed, Restart, Exit
  <1>19. CASE applyManifests
    BY <1>19, Follows DEF applyManifests, ApiStep, Fails, Failed, Restart, Exit
  <1>20. CASE applyExtraManifests
    BY <1>20, Follows DEF applyExtraManifests, ApiStep, Fails, Failed, Restart, Exit
  <1>21. CASE changeRegistryInCSVDeployment
    BY <1>21, Follows DEF changeRegistryInCSVDeployment, ApiStep, Fails, Failed, Restart, Exit
  <1>22. CASE restoreOadp
    BY <1>22, Follows DEF restoreOadp, ApiStep, Fails, Failed, Restart, Exit
  <1>23. CASE resolveClusterID
    BY <1>23 DEF resolveClusterID, Write, Marker, MarkerOf
  <1>24. CASE syncClusterIDDir
    BY <1>24, Follows DEF syncClusterIDDir
  <1>25. CASE setNewClusterID
    BY <1>25 DEF setNewClusterID, Called, Marker, MarkerOf, OnceName
  <1>26. CASE setNodeLabels
    BY <1>26 DEF setNodeLabels, Called, Marker, MarkerOf, OnceName
  <1>27. CASE recoverLvmDevices
    BY <1>27 DEF recoverLvmDevices, Called, Write, Marker, MarkerOf, OnceName
  <1>28. CASE DisableService
    BY <1>28, Follows DEF DisableService, HostStep, Write
  <1>29. CASE cleanup
    BY <1>29, Follows DEF cleanup, Write, WorkingDir, Markers, Marker, MarkerOf, Once, Staged,
       Parts, Fails, Failed, Restart, Exit
  <1>30. CASE cleanupSeedData
    BY <1>30, Follows DEF cleanupSeedData, HostStep, Write
  <1>31. CASE StepFails
    BY <1>31 DEF StepFails, Once, Marker, MarkerOf, Fails, Failed, Restart, Exit
  <1>32. CASE Boot
    BY <1>32 DEF Boot, StartNetworkManager, Write
  <1>33. CASE Attach
    BY <1>33 DEF Attach
  <1>34. CASE Kill
    BY <1>34, KillLeaves
  <1>35. CASE PowerLoss
    BY <1>35, PowerLossLeaves
  <1>36. CASE Writeback
    BY <1>36 DEF Writeback
  <1>37. CASE UNCHANGED vars
    BY <1>37 DEF vars
  <1> QED BY <1>1, <1>2, <1>3, <1>4, <1>5, <1>6, <1>7, <1>8, <1>9, <1>10, <1>11, <1>12, <1>13,
             <1>14, <1>15, <1>16, <1>17, <1>18, <1>19, <1>20, <1>21, <1>22, <1>23, <1>24, <1>25,
             <1>26, <1>27, <1>28, <1>29, <1>30, <1>31, <1>32, <1>33, <1>34, <1>35, <1>36, <1>37
           DEF Next, Step

\* The service stays disabled.
LEMMA ServiceStep == Shape /\ FlowInv /\ ServiceInv /\ [Next]_vars => ServiceInv'
  <1> SUFFICES ASSUME Shape, FlowInv, ServiceInv, [Next]_vars
               PROVE  ServiceInv'
    OBVIOUS
  <1> USE DEF Shape, FlowInv, ServiceInv, memory, disk, api, bounds
  <1>1. CASE waitForConfiguration
    BY <1>1 DEF waitForConfiguration, Fails, Failed, Restart, Exit
  <1>2. CASE setupConfigurationFolder
    BY <1>2, CrashCounts, PartsAre DEF setupConfigurationFolder, Crash, Write, Rejected, Failed,
       Restart, Exit
  <1>3. CASE ReadConfiguration
    BY <1>3, Follows, NodeIPsType DEF ReadConfiguration, Rejected, Failed, Restart, Exit
  <1>4. CASE RunOnceSkip
    BY <1>4, Follows, CrashCounts DEF RunOnceSkip, Once, Marker, MarkerOf, Crash
  <1>5. CASE RunOnceMark
    BY <1>5, Follows DEF RunOnceMark, Write, Marker, MarkerOf, OnceName, Fails, Failed, Restart,
       Exit
  <1>6. CASE RunOnceHost
    BY <1>6 DEF RunOnceHost, Called, Write, Marker, MarkerOf, OnceName
  <1>7. CASE RestoreNMConnectionFiles
    BY <1>7, Follows DEF RestoreNMConnectionFiles, HostStep, Write
  <1>8. CASE RestartNetworkManager
    BY <1>8, Follows DEF RestartNetworkManager
  <1>9. CASE SetHostname
    BY <1>9, Follows DEF SetHostname, Rejected, Failed, Restart, Exit
  <1>10. CASE setNodeIPsIfNotProvided
    BY <1>10, Follows DEF setNodeIPsIfNotProvided
  <1>11. CASE setDnsMasqConfiguration
    BY <1>11, Follows DEF setDnsMasqConfiguration, HostStep, Write
  <1>12. CASE Validate
    BY <1>12, Follows DEF Validate, Rejected, Failed, Restart, Exit
  <1>13. CASE recert
    BY <1>13 DEF recert, Write, Marker, MarkerOf, Fails, Rejected, Failed, Restart, Exit
  <1>14. CASE postRecertCommands
    BY <1>14 DEF postRecertCommands, Fails, Failed, Restart, Exit
  <1>15. CASE removeOldServerSSHKeys
    BY <1>15, Follows DEF removeOldServerSSHKeys, HostStep, Write
  <1>16. CASE createServerSSHKeyFile
    BY <1>16, Follows, InputsAssumption DEF createServerSSHKeyFile, HostStep, Write
  <1>17. CASE EnableKubelet
    BY <1>17, Follows DEF EnableKubelet, Write
  <1>18. CASE deleteAllOldMirrorResources
    BY <1>18, Follows DEF deleteAllOldMirrorResources, ApiStep, Fails, Failed, Restart, Exit
  <1>19. CASE applyManifests
    BY <1>19, Follows DEF applyManifests, ApiStep, Fails, Failed, Restart, Exit
  <1>20. CASE applyExtraManifests
    BY <1>20, Follows DEF applyExtraManifests, ApiStep, Fails, Failed, Restart, Exit
  <1>21. CASE changeRegistryInCSVDeployment
    BY <1>21, Follows DEF changeRegistryInCSVDeployment, ApiStep, Fails, Failed, Restart, Exit
  <1>22. CASE restoreOadp
    BY <1>22, Follows DEF restoreOadp, ApiStep, Fails, Failed, Restart, Exit
  <1>23. CASE resolveClusterID
    BY <1>23 DEF resolveClusterID, Write, Marker, MarkerOf
  <1>24. CASE syncClusterIDDir
    BY <1>24, Follows DEF syncClusterIDDir
  <1>25. CASE setNewClusterID
    BY <1>25 DEF setNewClusterID, Called, Marker, MarkerOf, OnceName
  <1>26. CASE setNodeLabels
    BY <1>26 DEF setNodeLabels, Called, Marker, MarkerOf, OnceName
  <1>27. CASE recoverLvmDevices
    BY <1>27 DEF recoverLvmDevices, Called, Write, Marker, MarkerOf, OnceName
  <1>28. CASE DisableService
    BY <1>28, Follows DEF DisableService, HostStep, Write
  <1>29. CASE cleanup
    BY <1>29, Follows DEF cleanup, Write, WorkingDir, Markers, Marker, MarkerOf, Once, Staged,
       Parts, Fails, Failed, Restart, Exit
  <1>30. CASE cleanupSeedData
    BY <1>30, Follows DEF cleanupSeedData, HostStep, Write
  <1>31. CASE StepFails
    BY <1>31 DEF StepFails, Once, Marker, MarkerOf, Fails, Failed, Restart, Exit
  <1>32. CASE Boot
    BY <1>32 DEF Boot, StartNetworkManager, Write
  <1>33. CASE Attach
    BY <1>33 DEF Attach
  <1>34. CASE Kill
    BY <1>34, KillLeaves
  <1>35. CASE PowerLoss
    BY <1>35, PowerLossLeaves
  <1>36. CASE Writeback
    BY <1>36 DEF Writeback
  <1>37. CASE UNCHANGED vars
    BY <1>37 DEF vars
  <1> QED BY <1>1, <1>2, <1>3, <1>4, <1>5, <1>6, <1>7, <1>8, <1>9, <1>10, <1>11, <1>12, <1>13,
             <1>14, <1>15, <1>16, <1>17, <1>18, <1>19, <1>20, <1>21, <1>22, <1>23, <1>24, <1>25,
             <1>26, <1>27, <1>28, <1>29, <1>30, <1>31, <1>32, <1>33, <1>34, <1>35, <1>36, <1>37
           DEF Next, Step

\* Kubelet comes after recert.
LEMMA KubeletStep == Shape /\ FlowInv /\ MarkersTrue /\ KubeletInv /\ [Next]_vars => KubeletInv'
  <1> SUFFICES ASSUME Shape, FlowInv, MarkersTrue, KubeletInv, [Next]_vars
               PROVE  KubeletInv'
    OBVIOUS
  <1> USE DEF Shape, FlowInv, MarkersTrue, Recerted, KubeletInv, Intact, Crashes, FromDisable,
              FromLvm, FromLabels, FromID, FromOadp, FromCsv, FromExtra, FromManifests,
              FromKubelet, FromRemove, FromCheck, FromNmstate, FromProfiles, FromPull, FromRead,
              memory, disk, api, bounds
  <1>1. CASE waitForConfiguration
    BY <1>1 DEF waitForConfiguration, Fails, Failed, Restart, Exit
  <1>2. CASE setupConfigurationFolder
    BY <1>2, CrashCounts, PartsAre DEF setupConfigurationFolder, Crash, Write, Rejected, Failed,
       Restart, Exit
  <1>3. CASE ReadConfiguration
    BY <1>3, Follows, NodeIPsType DEF ReadConfiguration, Rejected, Failed, Restart, Exit
  <1>4. CASE RunOnceSkip
    BY <1>4, Follows, CrashCounts DEF RunOnceSkip, Once, Marker, MarkerOf, Crash
  <1>5. CASE RunOnceMark
    BY <1>5, Follows DEF RunOnceMark, Write, Marker, MarkerOf, OnceName, Fails, Failed, Restart,
       Exit
  <1>6. CASE RunOnceHost
    BY <1>6 DEF RunOnceHost, Called, Write, Marker, MarkerOf, OnceName
  <1>7. CASE RestoreNMConnectionFiles
    BY <1>7, Follows DEF RestoreNMConnectionFiles, HostStep, Write
  <1>8. CASE RestartNetworkManager
    BY <1>8, Follows DEF RestartNetworkManager
  <1>9. CASE SetHostname
    BY <1>9, Follows DEF SetHostname, Rejected, Failed, Restart, Exit
  <1>10. CASE setNodeIPsIfNotProvided
    BY <1>10, Follows DEF setNodeIPsIfNotProvided
  <1>11. CASE setDnsMasqConfiguration
    BY <1>11, Follows DEF setDnsMasqConfiguration, HostStep, Write
  <1>12. CASE Validate
    BY <1>12, Follows DEF Validate, Rejected, Failed, Restart, Exit
  <1>13. CASE recert
    BY <1>13 DEF recert, Write, Marker, MarkerOf, Fails, Rejected, Failed, Restart, Exit
  <1>14. CASE postRecertCommands
    BY <1>14 DEF postRecertCommands, Fails, Failed, Restart, Exit
  <1>15. CASE removeOldServerSSHKeys
    BY <1>15, Follows DEF removeOldServerSSHKeys, HostStep, Write
  <1>16. CASE createServerSSHKeyFile
    BY <1>16, Follows, InputsAssumption DEF createServerSSHKeyFile, HostStep, Write
  <1>17. CASE EnableKubelet
    BY <1>17, Follows DEF EnableKubelet, Write
  <1>18. CASE deleteAllOldMirrorResources
    BY <1>18, Follows DEF deleteAllOldMirrorResources, ApiStep, Fails, Failed, Restart, Exit
  <1>19. CASE applyManifests
    BY <1>19, Follows DEF applyManifests, ApiStep, Fails, Failed, Restart, Exit
  <1>20. CASE applyExtraManifests
    BY <1>20, Follows DEF applyExtraManifests, ApiStep, Fails, Failed, Restart, Exit
  <1>21. CASE changeRegistryInCSVDeployment
    BY <1>21, Follows DEF changeRegistryInCSVDeployment, ApiStep, Fails, Failed, Restart, Exit
  <1>22. CASE restoreOadp
    BY <1>22, Follows DEF restoreOadp, ApiStep, Fails, Failed, Restart, Exit
  <1>23. CASE resolveClusterID
    BY <1>23 DEF resolveClusterID, Write, Marker, MarkerOf
  <1>24. CASE syncClusterIDDir
    BY <1>24, Follows DEF syncClusterIDDir
  <1>25. CASE setNewClusterID
    BY <1>25 DEF setNewClusterID, Called, Marker, MarkerOf, OnceName
  <1>26. CASE setNodeLabels
    BY <1>26 DEF setNodeLabels, Called, Marker, MarkerOf, OnceName
  <1>27. CASE recoverLvmDevices
    BY <1>27 DEF recoverLvmDevices, Called, Write, Marker, MarkerOf, OnceName
  <1>28. CASE DisableService
    BY <1>28, Follows DEF DisableService, HostStep, Write
  <1>29. CASE cleanup
    BY <1>29, Follows DEF cleanup, Write, WorkingDir, Markers, Marker, MarkerOf, Once, Staged,
       Parts, Fails, Failed, Restart, Exit
  <1>30. CASE cleanupSeedData
    BY <1>30, Follows DEF cleanupSeedData, HostStep, Write
  <1>31. CASE StepFails
    BY <1>31 DEF StepFails, Once, Marker, MarkerOf, Fails, Failed, Restart, Exit
  <1>32. CASE Boot
    <2>1. kubelet' => "kubelet" \in files
      BY <1>32 DEF Boot
    <2>2. UNCHANGED crashes /\ (UNCHANGED disk \/ Write(files \cup {"nmProfiles"}))
      BY <1>32 DEF Boot, StartNetworkManager
    <2>3. Intact /\ kubelet' => "summary" \in files'
      BY <2>1, <2>2 DEF Write
    <2> QED BY <2>2, <2>3 DEF Write
  <1>33. CASE Attach
    BY <1>33 DEF Attach
  <1>34. CASE Kill
    BY <1>34, KillLeaves
  <1>35. CASE PowerLoss
    BY <1>35, PowerLossLeaves
  <1>36. CASE Writeback
    BY <1>36 DEF Writeback
  <1>37. CASE UNCHANGED vars
    BY <1>37 DEF vars
  <1> QED BY <1>1, <1>2, <1>3, <1>4, <1>5, <1>6, <1>7, <1>8, <1>9, <1>10, <1>11, <1>12, <1>13,
             <1>14, <1>15, <1>16, <1>17, <1>18, <1>19, <1>20, <1>21, <1>22, <1>23, <1>24, <1>25,
             <1>26, <1>27, <1>28, <1>29, <1>30, <1>31, <1>32, <1>33, <1>34, <1>35, <1>36, <1>37
           DEF Next, Step

\* The checks come before recert.
LEMMA AddressStep == Shape /\ FlowInv /\ AddressInv /\ [Next]_vars => AddressInv'
  <1> SUFFICES ASSUME Shape, FlowInv, AddressInv, [Next]_vars
               PROVE  AddressInv'
    OBVIOUS
  <1> USE DEF Shape, FlowInv, AddressInv, memory, disk, api, bounds
  <1>1. CASE waitForConfiguration
    BY <1>1 DEF waitForConfiguration, Fails, Failed, Restart, Exit
  <1>2. CASE setupConfigurationFolder
    BY <1>2, CrashCounts, PartsAre DEF setupConfigurationFolder, Crash, Write, Rejected, Failed,
       Restart, Exit
  <1>3. CASE ReadConfiguration
    BY <1>3, Follows, NodeIPsType DEF ReadConfiguration, Rejected, Failed, Restart, Exit
  <1>4. CASE RunOnceSkip
    BY <1>4, Follows, CrashCounts DEF RunOnceSkip, Once, Marker, MarkerOf, Crash
  <1>5. CASE RunOnceMark
    BY <1>5, Follows DEF RunOnceMark, Write, Marker, MarkerOf, OnceName, Fails, Failed, Restart,
       Exit
  <1>6. CASE RunOnceHost
    BY <1>6 DEF RunOnceHost, Called, Write, Marker, MarkerOf, OnceName
  <1>7. CASE RestoreNMConnectionFiles
    BY <1>7, Follows DEF RestoreNMConnectionFiles, HostStep, Write
  <1>8. CASE RestartNetworkManager
    BY <1>8, Follows DEF RestartNetworkManager
  <1>9. CASE SetHostname
    BY <1>9, Follows DEF SetHostname, Rejected, Failed, Restart, Exit
  <1>10. CASE setNodeIPsIfNotProvided
    BY <1>10, Follows DEF setNodeIPsIfNotProvided
  <1>11. CASE setDnsMasqConfiguration
    BY <1>11, Follows DEF setDnsMasqConfiguration, HostStep, Write
  <1>12. CASE Validate
    BY <1>12, Follows DEF Validate, Rejected, Failed, Restart, Exit
  <1>13. CASE recert
    BY <1>13 DEF recert, Write, Marker, MarkerOf, Fails, Rejected, Failed, Restart, Exit
  <1>14. CASE postRecertCommands
    BY <1>14 DEF postRecertCommands, Fails, Failed, Restart, Exit
  <1>15. CASE removeOldServerSSHKeys
    BY <1>15, Follows DEF removeOldServerSSHKeys, HostStep, Write
  <1>16. CASE createServerSSHKeyFile
    BY <1>16, Follows, InputsAssumption DEF createServerSSHKeyFile, HostStep, Write
  <1>17. CASE EnableKubelet
    BY <1>17, Follows DEF EnableKubelet, Write
  <1>18. CASE deleteAllOldMirrorResources
    BY <1>18, Follows DEF deleteAllOldMirrorResources, ApiStep, Fails, Failed, Restart, Exit
  <1>19. CASE applyManifests
    BY <1>19, Follows DEF applyManifests, ApiStep, Fails, Failed, Restart, Exit
  <1>20. CASE applyExtraManifests
    BY <1>20, Follows DEF applyExtraManifests, ApiStep, Fails, Failed, Restart, Exit
  <1>21. CASE changeRegistryInCSVDeployment
    BY <1>21, Follows DEF changeRegistryInCSVDeployment, ApiStep, Fails, Failed, Restart, Exit
  <1>22. CASE restoreOadp
    BY <1>22, Follows DEF restoreOadp, ApiStep, Fails, Failed, Restart, Exit
  <1>23. CASE resolveClusterID
    BY <1>23 DEF resolveClusterID, Write, Marker, MarkerOf
  <1>24. CASE syncClusterIDDir
    BY <1>24, Follows DEF syncClusterIDDir
  <1>25. CASE setNewClusterID
    BY <1>25 DEF setNewClusterID, Called, Marker, MarkerOf, OnceName
  <1>26. CASE setNodeLabels
    BY <1>26 DEF setNodeLabels, Called, Marker, MarkerOf, OnceName
  <1>27. CASE recoverLvmDevices
    BY <1>27 DEF recoverLvmDevices, Called, Write, Marker, MarkerOf, OnceName
  <1>28. CASE DisableService
    BY <1>28, Follows DEF DisableService, HostStep, Write
  <1>29. CASE cleanup
    BY <1>29, Follows DEF cleanup, Write, WorkingDir, Markers, Marker, MarkerOf, Once, Staged,
       Parts, Fails, Failed, Restart, Exit
  <1>30. CASE cleanupSeedData
    BY <1>30, Follows DEF cleanupSeedData, HostStep, Write
  <1>31. CASE StepFails
    BY <1>31 DEF StepFails, Once, Marker, MarkerOf, Fails, Failed, Restart, Exit
  <1>32. CASE Boot
    BY <1>32 DEF Boot, StartNetworkManager, Write
  <1>33. CASE Attach
    BY <1>33 DEF Attach
  <1>34. CASE Kill
    BY <1>34, KillLeaves
  <1>35. CASE PowerLoss
    BY <1>35, PowerLossLeaves
  <1>36. CASE Writeback
    BY <1>36 DEF Writeback
  <1>37. CASE UNCHANGED vars
    BY <1>37 DEF vars
  <1> QED BY <1>1, <1>2, <1>3, <1>4, <1>5, <1>6, <1>7, <1>8, <1>9, <1>10, <1>11, <1>12, <1>13,
             <1>14, <1>15, <1>16, <1>17, <1>18, <1>19, <1>20, <1>21, <1>22, <1>23, <1>24, <1>25,
             <1>26, <1>27, <1>28, <1>29, <1>30, <1>31, <1>32, <1>33, <1>34, <1>35, <1>36, <1>37
           DEF Next, Step

\* The profiles.
LEMMA NetworkStep == Shape /\ FlowInv /\ NetworkInv /\ [Next]_vars => NetworkInv'
  <1> SUFFICES ASSUME Shape, FlowInv, NetworkInv, [Next]_vars
               PROVE  NetworkInv'
    OBVIOUS
  <1> USE DEF Shape, FlowInv, NetworkInv, FromDisable, FromLvm, FromLabels, FromID, FromOadp,
              FromCsv, FromExtra, FromManifests, FromKubelet, FromRemove, FromCheck,
              FromNmstate, FromProfiles, FromPull, FromRead, memory, disk, api, bounds
  <1>1. CASE waitForConfiguration
    BY <1>1 DEF waitForConfiguration, Fails, Failed, Restart, Exit
  <1>2. CASE setupConfigurationFolder
    BY <1>2, CrashCounts, PartsAre DEF setupConfigurationFolder, Crash, Write, Rejected, Failed,
       Restart, Exit
  <1>3. CASE ReadConfiguration
    BY <1>3, Follows, NodeIPsType DEF ReadConfiguration, Rejected, Failed, Restart, Exit
  <1>4. CASE RunOnceSkip
    BY <1>4, Follows, CrashCounts DEF RunOnceSkip, Once, Marker, MarkerOf, Crash
  <1>5. CASE RunOnceMark
    BY <1>5, Follows DEF RunOnceMark, Write, Marker, MarkerOf, OnceName, Fails, Failed, Restart,
       Exit
  <1>6. CASE RunOnceHost
    BY <1>6 DEF RunOnceHost, Called, Write, Marker, MarkerOf, OnceName
  <1>7. CASE RestoreNMConnectionFiles
    BY <1>7, Follows DEF RestoreNMConnectionFiles, HostStep, Write
  <1>8. CASE RestartNetworkManager
    BY <1>8, Follows DEF RestartNetworkManager
  <1>9. CASE SetHostname
    BY <1>9, Follows DEF SetHostname, Rejected, Failed, Restart, Exit
  <1>10. CASE setNodeIPsIfNotProvided
    BY <1>10, Follows DEF setNodeIPsIfNotProvided
  <1>11. CASE setDnsMasqConfiguration
    BY <1>11, Follows DEF setDnsMasqConfiguration, HostStep, Write
  <1>12. CASE Validate
    BY <1>12, Follows DEF Validate, Rejected, Failed, Restart, Exit
  <1>13. CASE recert
    BY <1>13 DEF recert, Write, Marker, MarkerOf, Fails, Rejected, Failed, Restart, Exit
  <1>14. CASE postRecertCommands
    BY <1>14 DEF postRecertCommands, Fails, Failed, Restart, Exit
  <1>15. CASE removeOldServerSSHKeys
    BY <1>15, Follows DEF removeOldServerSSHKeys, HostStep, Write
  <1>16. CASE createServerSSHKeyFile
    BY <1>16, Follows, InputsAssumption DEF createServerSSHKeyFile, HostStep, Write
  <1>17. CASE EnableKubelet
    BY <1>17, Follows DEF EnableKubelet, Write
  <1>18. CASE deleteAllOldMirrorResources
    BY <1>18, Follows DEF deleteAllOldMirrorResources, ApiStep, Fails, Failed, Restart, Exit
  <1>19. CASE applyManifests
    BY <1>19, Follows DEF applyManifests, ApiStep, Fails, Failed, Restart, Exit
  <1>20. CASE applyExtraManifests
    BY <1>20, Follows DEF applyExtraManifests, ApiStep, Fails, Failed, Restart, Exit
  <1>21. CASE changeRegistryInCSVDeployment
    BY <1>21, Follows DEF changeRegistryInCSVDeployment, ApiStep, Fails, Failed, Restart, Exit
  <1>22. CASE restoreOadp
    BY <1>22, Follows DEF restoreOadp, ApiStep, Fails, Failed, Restart, Exit
  <1>23. CASE resolveClusterID
    BY <1>23 DEF resolveClusterID, Write, Marker, MarkerOf
  <1>24. CASE syncClusterIDDir
    BY <1>24, Follows DEF syncClusterIDDir
  <1>25. CASE setNewClusterID
    BY <1>25 DEF setNewClusterID, Called, Marker, MarkerOf, OnceName
  <1>26. CASE setNodeLabels
    BY <1>26 DEF setNodeLabels, Called, Marker, MarkerOf, OnceName
  <1>27. CASE recoverLvmDevices
    BY <1>27 DEF recoverLvmDevices, Called, Write, Marker, MarkerOf, OnceName
  <1>28. CASE DisableService
    BY <1>28, Follows DEF DisableService, HostStep, Write
  <1>29. CASE cleanup
    BY <1>29, Follows DEF cleanup, Write, WorkingDir, Markers, Marker, MarkerOf, Once, Staged,
       Parts, Fails, Failed, Restart, Exit
  <1>30. CASE cleanupSeedData
    BY <1>30, Follows DEF cleanupSeedData, HostStep, Write
  <1>31. CASE StepFails
    BY <1>31 DEF StepFails, Once, Marker, MarkerOf, Fails, Failed, Restart, Exit
  <1>32. CASE Boot
    BY <1>32 DEF Boot, StartNetworkManager, Write
  <1>33. CASE Attach
    BY <1>33 DEF Attach
  <1>34. CASE Kill
    BY <1>34, KillLeaves
  <1>35. CASE PowerLoss
    BY <1>35, PowerLossLeaves
  <1>36. CASE Writeback
    BY <1>36 DEF Writeback
  <1>37. CASE UNCHANGED vars
    BY <1>37 DEF vars
  <1> QED BY <1>1, <1>2, <1>3, <1>4, <1>5, <1>6, <1>7, <1>8, <1>9, <1>10, <1>11, <1>12, <1>13,
             <1>14, <1>15, <1>16, <1>17, <1>18, <1>19, <1>20, <1>21, <1>22, <1>23, <1>24, <1>25,
             <1>26, <1>27, <1>28, <1>29, <1>30, <1>31, <1>32, <1>33, <1>34, <1>35, <1>36, <1>37
           DEF Next, Step

\* The ID.
LEMMA IDStep == Shape /\ FlowInv /\ MarkersTrue /\ IDInv /\ [Next]_vars => IDInv'
  <1> SUFFICES ASSUME Shape, FlowInv, MarkersTrue, IDInv, [Next]_vars
               PROVE  IDInv'
    OBVIOUS
  <1> USE DEF Shape, FlowInv, MarkersTrue, Recerted, IDInv, NeverRetried, SeedID, OrigID,
              Intact, Crashes, FromDisable, FromLvm, FromLabels, FromID, FromOadp, FromCsv,
              FromExtra, FromManifests, FromKubelet, FromRemove, FromCheck, FromNmstate,
              FromProfiles, FromPull, FromRead, memory, disk, api, bounds
  <1>1. CASE waitForConfiguration
    BY <1>1 DEF waitForConfiguration, Fails, Failed, Restart, Exit
  <1>2. CASE setupConfigurationFolder
    BY <1>2, CrashCounts, PartsAre DEF setupConfigurationFolder, Crash, Write, Rejected, Failed,
       Restart, Exit
  <1>3. CASE ReadConfiguration
    BY <1>3, Follows, NodeIPsType DEF ReadConfiguration, Rejected, Failed, Restart, Exit
  <1>4. CASE RunOnceSkip
    BY <1>4, Follows, CrashCounts DEF RunOnceSkip, Once, Marker, MarkerOf, Crash
  <1>5. CASE RunOnceMark
    BY <1>5, Follows DEF RunOnceMark, Write, Marker, MarkerOf, OnceName, Fails, Failed, Restart,
       Exit
  <1>6. CASE RunOnceHost
    BY <1>6 DEF RunOnceHost, Called, Write, Marker, MarkerOf, OnceName
  <1>7. CASE RestoreNMConnectionFiles
    BY <1>7, Follows DEF RestoreNMConnectionFiles, HostStep, Write
  <1>8. CASE RestartNetworkManager
    BY <1>8, Follows DEF RestartNetworkManager
  <1>9. CASE SetHostname
    BY <1>9, Follows DEF SetHostname, Rejected, Failed, Restart, Exit
  <1>10. CASE setNodeIPsIfNotProvided
    BY <1>10, Follows DEF setNodeIPsIfNotProvided
  <1>11. CASE setDnsMasqConfiguration
    BY <1>11, Follows DEF setDnsMasqConfiguration, HostStep, Write
  <1>12. CASE Validate
    BY <1>12, Follows DEF Validate, Rejected, Failed, Restart, Exit
  <1>13. CASE recert
    BY <1>13 DEF recert, Write, Marker, MarkerOf, Fails, Rejected, Failed, Restart, Exit
  <1>14. CASE postRecertCommands
    BY <1>14 DEF postRecertCommands, Fails, Failed, Restart, Exit
  <1>15. CASE removeOldServerSSHKeys
    BY <1>15, Follows DEF removeOldServerSSHKeys, HostStep, Write
  <1>16. CASE createServerSSHKeyFile
    BY <1>16, Follows, InputsAssumption DEF createServerSSHKeyFile, HostStep, Write
  <1>17. CASE EnableKubelet
    BY <1>17, Follows DEF EnableKubelet, Write
  <1>18. CASE deleteAllOldMirrorResources
    BY <1>18, Follows DEF deleteAllOldMirrorResources, ApiStep, Fails, Failed, Restart, Exit
  <1>19. CASE applyManifests
    BY <1>19, Follows DEF applyManifests, ApiStep, Fails, Failed, Restart, Exit
  <1>20. CASE applyExtraManifests
    BY <1>20, Follows DEF applyExtraManifests, ApiStep, Fails, Failed, Restart, Exit
  <1>21. CASE changeRegistryInCSVDeployment
    BY <1>21, Follows DEF changeRegistryInCSVDeployment, ApiStep, Fails, Failed, Restart, Exit
  <1>22. CASE restoreOadp
    BY <1>22, Follows DEF restoreOadp, ApiStep, Fails, Failed, Restart, Exit
  <1>23. CASE resolveClusterID
    BY <1>23 DEF resolveClusterID, Write, Marker, MarkerOf
  <1>24. CASE syncClusterIDDir
    BY <1>24, Follows DEF syncClusterIDDir
  <1>25. CASE setNewClusterID
    BY <1>25 DEF setNewClusterID, Called, Marker, MarkerOf, OnceName
  <1>26. CASE setNodeLabels
    BY <1>26 DEF setNodeLabels, Called, Marker, MarkerOf, OnceName
  <1>27. CASE recoverLvmDevices
    BY <1>27 DEF recoverLvmDevices, Called, Write, Marker, MarkerOf, OnceName
  <1>28. CASE DisableService
    BY <1>28, Follows DEF DisableService, HostStep, Write
  <1>29. CASE cleanup
    BY <1>29, Follows DEF cleanup, Write, WorkingDir, Markers, Marker, MarkerOf, Once, Staged,
       Parts, Fails, Failed, Restart, Exit
  <1>30. CASE cleanupSeedData
    BY <1>30, Follows DEF cleanupSeedData, HostStep, Write
  <1>31. CASE StepFails
    BY <1>31 DEF StepFails, Once, Marker, MarkerOf, Fails, Failed, Restart, Exit
  <1>32. CASE Boot
    BY <1>32 DEF Boot, StartNetworkManager, Write
  <1>33. CASE Attach
    BY <1>33 DEF Attach
  <1>34. CASE Kill
    BY <1>34, KillLeaves
  <1>35. CASE PowerLoss
    BY ZenonT(40), <1>35, PowerLossLeaves
  <1>36. CASE Writeback
    BY <1>36 DEF Writeback
  <1>37. CASE UNCHANGED vars
    BY <1>37 DEF vars
  <1> QED BY <1>1, <1>2, <1>3, <1>4, <1>5, <1>6, <1>7, <1>8, <1>9, <1>10, <1>11, <1>12, <1>13,
             <1>14, <1>15, <1>16, <1>17, <1>18, <1>19, <1>20, <1>21, <1>22, <1>23, <1>24, <1>25,
             <1>26, <1>27, <1>28, <1>29, <1>30, <1>31, <1>32, <1>33, <1>34, <1>35, <1>36, <1>37
           DEF Next, Step

\* The service is disabled when all is done: one step.
LEMMA DisabledStep == Shape /\ FlowInv /\ MarkersTrue /\ StagedInv /\ HostInv /\ ClusterInv /\ ServiceInv /\ [Next]_vars => DisablesConfigured
  <1> SUFFICES ASSUME Shape, FlowInv, MarkersTrue, StagedInv, HostInv, ClusterInv, ServiceInv, [Next]_vars
               PROVE  DisablesConfigured
    OBVIOUS
  <1> USE DEF Shape, FlowInv, MarkersTrue, Recerted, StagedInv, HostInv, ClusterInv, ServiceInv,
              SeedID, DisablesConfigured, Configured, HostWork, ClusterWork, Intact, Crashes,
              FromDisable, FromLvm, FromLabels, FromID, FromOadp, FromCsv, FromExtra,
              FromManifests, FromKubelet, FromRemove, FromCheck, FromNmstate, FromProfiles,
              FromPull, FromRead, memory, disk, api, bounds
  <1>1. CASE waitForConfiguration
    BY <1>1 DEF waitForConfiguration, Fails, Failed, Restart, Exit
  <1>2. CASE setupConfigurationFolder
    BY <1>2, CrashCounts, PartsAre DEF setupConfigurationFolder, Crash, Write, Rejected, Failed,
       Restart, Exit
  <1>3. CASE ReadConfiguration
    BY <1>3, Follows, NodeIPsType DEF ReadConfiguration, Rejected, Failed, Restart, Exit
  <1>4. CASE RunOnceSkip
    BY <1>4, Follows, CrashCounts DEF RunOnceSkip, Once, Marker, MarkerOf, Crash
  <1>5. CASE RunOnceMark
    BY <1>5, Follows DEF RunOnceMark, Write, Marker, MarkerOf, OnceName, Fails, Failed, Restart,
       Exit
  <1>6. CASE RunOnceHost
    BY <1>6 DEF RunOnceHost, Called, Write, Marker, MarkerOf, OnceName
  <1>7. CASE RestoreNMConnectionFiles
    BY <1>7, Follows DEF RestoreNMConnectionFiles, HostStep, Write
  <1>8. CASE RestartNetworkManager
    BY <1>8, Follows DEF RestartNetworkManager
  <1>9. CASE SetHostname
    BY <1>9, Follows DEF SetHostname, Rejected, Failed, Restart, Exit
  <1>10. CASE setNodeIPsIfNotProvided
    BY <1>10, Follows DEF setNodeIPsIfNotProvided
  <1>11. CASE setDnsMasqConfiguration
    BY <1>11, Follows DEF setDnsMasqConfiguration, HostStep, Write
  <1>12. CASE Validate
    BY <1>12, Follows DEF Validate, Rejected, Failed, Restart, Exit
  <1>13. CASE recert
    BY <1>13 DEF recert, Write, Marker, MarkerOf, Fails, Rejected, Failed, Restart, Exit
  <1>14. CASE postRecertCommands
    BY <1>14 DEF postRecertCommands, Fails, Failed, Restart, Exit
  <1>15. CASE removeOldServerSSHKeys
    BY <1>15, Follows DEF removeOldServerSSHKeys, HostStep, Write
  <1>16. CASE createServerSSHKeyFile
    BY <1>16, Follows, InputsAssumption DEF createServerSSHKeyFile, HostStep, Write
  <1>17. CASE EnableKubelet
    BY <1>17, Follows DEF EnableKubelet, Write
  <1>18. CASE deleteAllOldMirrorResources
    BY <1>18, Follows DEF deleteAllOldMirrorResources, ApiStep, Fails, Failed, Restart, Exit
  <1>19. CASE applyManifests
    BY <1>19, Follows DEF applyManifests, ApiStep, Fails, Failed, Restart, Exit
  <1>20. CASE applyExtraManifests
    BY <1>20, Follows DEF applyExtraManifests, ApiStep, Fails, Failed, Restart, Exit
  <1>21. CASE changeRegistryInCSVDeployment
    BY <1>21, Follows DEF changeRegistryInCSVDeployment, ApiStep, Fails, Failed, Restart, Exit
  <1>22. CASE restoreOadp
    BY <1>22, Follows DEF restoreOadp, ApiStep, Fails, Failed, Restart, Exit
  <1>23. CASE resolveClusterID
    BY <1>23 DEF resolveClusterID, Write, Marker, MarkerOf
  <1>24. CASE syncClusterIDDir
    BY <1>24, Follows DEF syncClusterIDDir
  <1>25. CASE setNewClusterID
    BY <1>25 DEF setNewClusterID, Called, Marker, MarkerOf, OnceName
  <1>26. CASE setNodeLabels
    BY <1>26 DEF setNodeLabels, Called, Marker, MarkerOf, OnceName
  <1>27. CASE recoverLvmDevices
    BY <1>27 DEF recoverLvmDevices, Called, Write, Marker, MarkerOf, OnceName
  <1>28. CASE DisableService
    BY <1>28, Follows DEF DisableService, HostStep, Write
  <1>29. CASE cleanup
    BY <1>29, Follows DEF cleanup, Write, WorkingDir, Markers, Marker, MarkerOf, Once, Staged,
       Parts, Fails, Failed, Restart, Exit
  <1>30. CASE cleanupSeedData
    BY <1>30, Follows DEF cleanupSeedData, HostStep, Write
  <1>31. CASE StepFails
    BY <1>31 DEF StepFails, Once, Marker, MarkerOf, Fails, Failed, Restart, Exit
  <1>32. CASE Boot
    BY <1>32 DEF Boot, StartNetworkManager, Write
  <1>33. CASE Attach
    BY <1>33 DEF Attach
  <1>34. CASE Kill
    BY <1>34, KillLeaves
  <1>35. CASE PowerLoss
    BY <1>35, PowerLossLeaves
  <1>36. CASE Writeback
    BY <1>36 DEF Writeback
  <1>37. CASE UNCHANGED vars
    BY <1>37 DEF vars
  <1> QED BY <1>1, <1>2, <1>3, <1>4, <1>5, <1>6, <1>7, <1>8, <1>9, <1>10, <1>11, <1>12, <1>13,
             <1>14, <1>15, <1>16, <1>17, <1>18, <1>19, <1>20, <1>21, <1>22, <1>23, <1>24, <1>25,
             <1>26, <1>27, <1>28, <1>29, <1>30, <1>31, <1>32, <1>33, <1>34, <1>35, <1>36, <1>37
           DEF Next, Step

\* The ID of the cluster stays: one step.
LEMMA IDStableStep == Shape /\ FlowInv /\ IDInv /\ [Next]_vars => KeepsID
  <1> SUFFICES ASSUME Shape, FlowInv, IDInv, [Next]_vars
               PROVE  KeepsID
    OBVIOUS
  <1> USE DEF Shape, FlowInv, IDInv, NeverRetried, SeedID, OrigID, KeepsID, Intact, Crashes,
              FromDisable, FromLvm, FromLabels, FromID, FromOadp, FromCsv, FromExtra,
              FromManifests, FromKubelet, FromRemove, FromCheck, FromNmstate, FromProfiles,
              FromPull, FromRead, memory, disk, api, bounds
  <1>1. CASE waitForConfiguration
    BY <1>1 DEF waitForConfiguration, Fails, Failed, Restart, Exit
  <1>2. CASE setupConfigurationFolder
    BY <1>2, CrashCounts, PartsAre DEF setupConfigurationFolder, Crash, Write, Rejected, Failed,
       Restart, Exit
  <1>3. CASE ReadConfiguration
    BY <1>3, Follows, NodeIPsType DEF ReadConfiguration, Rejected, Failed, Restart, Exit
  <1>4. CASE RunOnceSkip
    BY <1>4, Follows, CrashCounts DEF RunOnceSkip, Once, Marker, MarkerOf, Crash
  <1>5. CASE RunOnceMark
    BY <1>5, Follows DEF RunOnceMark, Write, Marker, MarkerOf, OnceName, Fails, Failed, Restart,
       Exit
  <1>6. CASE RunOnceHost
    BY <1>6 DEF RunOnceHost, Called, Write, Marker, MarkerOf, OnceName
  <1>7. CASE RestoreNMConnectionFiles
    BY <1>7, Follows DEF RestoreNMConnectionFiles, HostStep, Write
  <1>8. CASE RestartNetworkManager
    BY <1>8, Follows DEF RestartNetworkManager
  <1>9. CASE SetHostname
    BY <1>9, Follows DEF SetHostname, Rejected, Failed, Restart, Exit
  <1>10. CASE setNodeIPsIfNotProvided
    BY <1>10, Follows DEF setNodeIPsIfNotProvided
  <1>11. CASE setDnsMasqConfiguration
    BY <1>11, Follows DEF setDnsMasqConfiguration, HostStep, Write
  <1>12. CASE Validate
    BY <1>12, Follows DEF Validate, Rejected, Failed, Restart, Exit
  <1>13. CASE recert
    BY <1>13 DEF recert, Write, Marker, MarkerOf, Fails, Rejected, Failed, Restart, Exit
  <1>14. CASE postRecertCommands
    BY <1>14 DEF postRecertCommands, Fails, Failed, Restart, Exit
  <1>15. CASE removeOldServerSSHKeys
    BY <1>15, Follows DEF removeOldServerSSHKeys, HostStep, Write
  <1>16. CASE createServerSSHKeyFile
    BY <1>16, Follows, InputsAssumption DEF createServerSSHKeyFile, HostStep, Write
  <1>17. CASE EnableKubelet
    BY <1>17, Follows DEF EnableKubelet, Write
  <1>18. CASE deleteAllOldMirrorResources
    BY <1>18, Follows DEF deleteAllOldMirrorResources, ApiStep, Fails, Failed, Restart, Exit
  <1>19. CASE applyManifests
    BY <1>19, Follows DEF applyManifests, ApiStep, Fails, Failed, Restart, Exit
  <1>20. CASE applyExtraManifests
    BY <1>20, Follows DEF applyExtraManifests, ApiStep, Fails, Failed, Restart, Exit
  <1>21. CASE changeRegistryInCSVDeployment
    BY <1>21, Follows DEF changeRegistryInCSVDeployment, ApiStep, Fails, Failed, Restart, Exit
  <1>22. CASE restoreOadp
    BY <1>22, Follows DEF restoreOadp, ApiStep, Fails, Failed, Restart, Exit
  <1>23. CASE resolveClusterID
    BY <1>23 DEF resolveClusterID, Write, Marker, MarkerOf
  <1>24. CASE syncClusterIDDir
    BY <1>24, Follows DEF syncClusterIDDir
  <1>25. CASE setNewClusterID
    BY <1>25 DEF setNewClusterID, Called, Marker, MarkerOf, OnceName
  <1>26. CASE setNodeLabels
    BY <1>26 DEF setNodeLabels, Called, Marker, MarkerOf, OnceName
  <1>27. CASE recoverLvmDevices
    BY <1>27 DEF recoverLvmDevices, Called, Write, Marker, MarkerOf, OnceName
  <1>28. CASE DisableService
    BY <1>28, Follows DEF DisableService, HostStep, Write
  <1>29. CASE cleanup
    BY <1>29, Follows DEF cleanup, Write, WorkingDir, Markers, Marker, MarkerOf, Once, Staged,
       Parts, Fails, Failed, Restart, Exit
  <1>30. CASE cleanupSeedData
    BY <1>30, Follows DEF cleanupSeedData, HostStep, Write
  <1>31. CASE StepFails
    BY <1>31 DEF StepFails, Once, Marker, MarkerOf, Fails, Failed, Restart, Exit
  <1>32. CASE Boot
    BY <1>32 DEF Boot, StartNetworkManager, Write
  <1>33. CASE Attach
    BY <1>33 DEF Attach
  <1>34. CASE Kill
    BY <1>34, KillLeaves
  <1>35. CASE PowerLoss
    BY <1>35, PowerLossLeaves
  <1>36. CASE Writeback
    BY <1>36 DEF Writeback
  <1>37. CASE UNCHANGED vars
    BY <1>37 DEF vars
  <1> QED BY <1>1, <1>2, <1>3, <1>4, <1>5, <1>6, <1>7, <1>8, <1>9, <1>10, <1>11, <1>12, <1>13,
             <1>14, <1>15, <1>16, <1>17, <1>18, <1>19, <1>20, <1>21, <1>22, <1>23, <1>24, <1>25,
             <1>26, <1>27, <1>28, <1>29, <1>30, <1>31, <1>32, <1>33, <1>34, <1>35, <1>36, <1>37
           DEF Next, Step

-----------------------------------------------------------------------------
(* The theorems. *)

\* The invariant holds at the start.
LEMMA InitInv == Init => Inv
  <1> SUFFICES ASSUME Init
               PROVE  Inv
    OBVIOUS
  <1> USE DEF Init, FromDisable, FromLvm, FromLabels, FromID, FromOadp, FromCsv, FromExtra,
              FromManifests, FromKubelet, FromRemove, FromCheck, FromNmstate, FromProfiles,
              FromPull, FromRead, Staged, Parts, SeedID, OrigID
  <1>1. Shape
    BY DEF Shape
  <1>2. FlowInv /\ MarkersTrue /\ RanTrue
    BY DEF FlowInv, MarkersTrue, RanTrue
  <1>3. StagedInv /\ HostInv /\ ClusterInv
    BY DEF StagedInv, HostInv, ClusterInv
  <1>4. ServiceInv /\ KubeletInv /\ AddressInv
    BY DEF ServiceInv, KubeletInv, AddressInv
  <1>5. NetworkInv
    BY DEF NetworkInv
  <1>6. IDInv
    BY DEF IDInv
  <1> QED BY <1>1, <1>2, <1>3, <1>4, <1>5, <1>6 DEF Inv

\* It holds in every state of every behaviour, whatever the fairness.
LEMMA Invariance == Spec => []Inv
  <1>1. Inv /\ [Next]_vars => Inv'
    BY ShapeStep, FlowStep, MarkersStep, RanStep, StagedStep, HostStepInv, ClusterStep,
       ServiceStep, KubeletStep, AddressStep, NetworkStep, IDStep DEF Inv
  <1> QED BY <1>1, InitInv, PTL DEF Spec

\* What has passed the checks gives a rule for every address, of its family.
LEMMA RulesKeepFamily == Shape /\ AddressInv => ReplaceKeepsFamily
  <1> SUFFICES ASSUME Shape, AddressInv, pc \in {"recert", "postRecert"}
               PROVE  LET rules == RecertConfig(input.seed, input.conf, ips).replace IN
                      /\ Len(rules) = Len(ips) /\ rules # <<>>
                      /\ \A i \in DOMAIN rules : rules[i][1] = rules[i][2]
    BY DEF ReplaceKeepsFamily
  <1>1. NodeIPs(input.seed) = ips /\ ips # <<>>
    BY DEF AddressInv, validateIPAndMachineNetworkConsistency
  <1>2. ips \in Seq(Families)
    <2>1. ips \in Stacks
      BY <1>1 DEF Shape
    <2>2. CASE \E f \in Families : ips = <<f>>
      BY <2>2
    <2>3. CASE ips \in {<<"v4", "v6">>, <<"v6", "v4">>}
      <3>1. "v4" \in Families /\ "v6" \in Families
        BY DEF Families
      <3>2. <<"v4", "v6">> \in Seq(Families) /\ <<"v6", "v4">> \in Seq(Families)
        BY <3>1
      <3> QED BY <2>3, <3>2
    <2> QED BY <2>1, <2>2, <2>3 DEF Stacks
  <1>3. RecertConfig(input.seed, input.conf, ips).replace = [i \in DOMAIN ips |-> <<ips[i], ips[i]>>]
    BY <1>1 DEF RecertConfig
  <1> DEFINE rules == [i \in DOMAIN ips |-> <<ips[i], ips[i]>>]
  <1>4. Len(rules) = Len(ips) /\ DOMAIN rules = 1 .. Len(ips) /\ Len(ips) > 0
    BY <1>1, <1>2
  <1>5. \A i \in DOMAIN rules : rules[i][1] = rules[i][2]
    OBVIOUS
  <1> QED BY <1>3, <1>4, <1>5

\* recert is safe, for every input and any number of failing steps and crashes:
\* it never starts while kubelet may run the cluster, it has a rule of the same
\* family for every address, and the node of an upgrade never runs on a default
\* DHCP profile (RunOnce, validateIPAndMachineNetworkConsistency,
\* lca-restore-nmconnections).
THEOREM RecertIsSafe == Spec => []RecertSafe
  <1>1. Inv => RecertOffline
    BY DEF Inv, KubeletInv, RecertOffline
  <1>2. Inv => ReplaceKeepsFamily
    BY RulesKeepFamily DEF Inv
  <1>3. Inv => StagedProfilesUsed
    BY DEF Inv, NetworkInv, StagedProfilesUsed
  <1> QED BY <1>1, <1>2, <1>3, Invariance, PTL DEF RecertSafe

\* The configuration service is disabled only when the host and the cluster are
\* reconfigured, however often steps failed, were retried or lost with the power
\* before (PostPivotConfiguration, RunOnce).
THEOREM DisablesWhenConfigured == Spec => DisabledWhenConfigured
  <1>1. Inv /\ [Next]_vars => DisablesConfigured
    BY DisabledStep DEF Inv
  <1>2. Inv /\ [Next]_vars
        => [Intact /\ "service" \in files /\ "service" \notin files' => Configured']_vars
    BY <1>1 DEF DisablesConfigured
  <1> QED BY <1>2, Invariance, PTL DEF Spec, DisabledWhenConfigured

\* Once the ClusterVersion has left the seed's ID it keeps its own, unless a
\* retry used a saved ID that was not synced and the power was lost then
\* (resolveClusterID).
THEOREM ClusterKeepsID == Spec => ClusterIDStable
  <1>1. Inv /\ [Next]_vars => KeepsID
    BY IDStableStep DEF Inv
  <1>2. Inv /\ [Next]_vars
        => [clusterID # SeedID /\ Intact
            /\ ((faults = 0 /\ crashes["kill"] = 0) \/ crashes["power"] = 0)
                => clusterID' = clusterID]_vars
    BY <1>1 DEF KeepsID
  <1> QED BY <1>2, Invariance, PTL DEF Spec, ClusterIDStable
=============================================================================
