--------------------------- MODULE Installer_proofs ---------------------------
(***************************************************************************)
(* Proofs about Installer for every set of configurations and of media and *)
(* every bound: what the prepare phase signals is true, what fails does no *)
(* harm, and the record on p4 decides and stays.                           *)
(***************************************************************************)
EXTENDS Installer, FiniteSetTheorems, TLAPS

-----------------------------------------------------------------------------
(* The inductive invariant. *)

\* The steps of the preparation, in their order: the checks that come before
\* the disk is touched, the disk being written, the stateroot and its images,
\* and what only a self-contained medium does.
Checks == {"mountP4", "guard", "mountP2", "manifest", "preflight", "auth"}
Writing == {"partition", "seed", "stateroot"}
Images == {"closure", "precache", "verify"}
Publishing == {"copy", "publish", "register"}
OnDisk == {"cleanup", "coreos"} \cup Writing \cup Images \cup {"post", "sysroot"} \cup Publishing \cup {"sync"}

\* The preparation has succeeded: the result is being recorded or signalled.
Installed ==
    \/ step \in {"umountP2", "terminal", "grace", "amend"}
    \/ step \in {"write", "commit"} /\ ~err
    \/ pending
    \/ signal # "none"

\* The part of the type invariant that the others rest on.
IsDisk(d) ==
    d \in [os : {"old", "blank", "rhcos", "seed"}, roots : SUBSET {"rhcos", "seed"},
           store : {d.store}, ro : {"none", "good"}, dropIn : BOOLEAN, synced : BOOLEAN,
           torn : BOOLEAN]
Results == PrepareResult \cup {NoFile, Junk}
Counters == config \in Configs /\ faults \in Nat /\ resets \in Nat
Records == p4 \in [seen : Results, disk : Results]
Shape == Counters /\ Records /\ IsDisk(disk)

\* Which run is at a step: a step of a USB medium, one of a self-contained one,
\* one that no error precedes; a node that is off runs nothing.
FlowInv ==
    /\ step \in Checks \cup {"closure", "verify", "umountP2", "write", "commit"} => Disconnected
    /\ step \in Publishing \cup {"grace", "amend"} => config.profile = SelfContained
    /\ step \in Checks \cup OnDisk \cup {"umountP2", "terminal", "grace", "amend"} => ~err
    /\ power \in {"off", "installed"} => step = "none" /\ ~pending
    /\ power \in {"live", "emergency"} => signal = "none"
    /\ pending => step \in {"grace", "amend", "halt", "none"} /\ config.profile = SelfContained

\* Past the guard there is no record until this run writes one; what is on
\* stable storage agrees with what is read back; and the success is on stable
\* storage before it is signalled.
RecordInv ==
    /\ p4.disk.result # "absent" => p4.seen.result = p4.disk.result
    /\ Disconnected /\ step \in (Checks \ {"mountP4", "guard"}) \cup OnDisk \cup {"umountP2", "write"}
        => p4.seen = NoFile /\ p4.disk = NoFile
    /\ (Disconnected /\ step \in {"terminal", "grace", "amend"})
            \/ (step = "commit" /\ ~err /\ ~uncommitted)
            \/ (Disconnected /\ (pending \/ signal # "none") /\ resets = 0)
        => p4.seen.result = "success" /\ p4.disk.result = "success"

\* How far the disk has come at each step.
DiskInv ==
    /\ step \in Writing => disk.roots = {"rhcos"}
    /\ step \in Images \cup {"post", "sysroot"} => disk.roots = {"rhcos", "seed"}
    /\ step \in Publishing \cup {"sync"} \/ Installed => disk.roots = {"seed"}
    /\ step \in OnDisk \ {"cleanup", "coreos"} \/ Installed => ~disk.torn
    /\ Installed => disk.synced
    /\ config.profile = SelfContained /\ (step = "sync" \/ Installed) => disk.dropIn
    /\ step \in OnDisk \ {"cleanup", "coreos", "sync"} => ~disk.dropIn
    /\ step = "register" => disk.ro = "good"
    /\ DropInHasStore

\* What has been checked of the medium at each step.
MediaInv ==
    Disconnected =>
        /\ step \in (Checks \ {"mountP4"}) \cup OnDisk => media.p4 = "one"
        /\ step \in {"manifest", "preflight", "auth"} \cup OnDisk => media.p2 = "one"
        /\ step \in {"preflight", "auth"} \cup OnDisk => preflightValidateManifest
        /\ step \in {"auth"} \cup OnDisk => ~media.seedCorrupt
        /\ BadMediaKeepsDisk

\* A pinned name of the store is a name of the image it pins.
PinsHonest(store) == \A x \in DOMAIN store : IsPinned(x) => store[x] = x.val

\* Every reference of the seed resolves to the image of the entry that lists it.
Resident ==
    \A r \in media.required :
        /\ r \in DOMAIN disk.store
        /\ \A e \in Entries : r \in e.sources => disk.store[r] = e.digest

ImagesInv ==
    Disconnected =>
        /\ step \in Writing => disk.store = <<>>
        /\ step \in Images => PinsHonest(disk.store)
        /\ step = "verify" => verifyManifestCoversSeed
        /\ step \in {"post", "sysroot"} \cup Publishing \cup {"sync"} \/ Installed => Resident

\* The authfile is the one of the live root, or this run has made one because
\* there was none and removes it before it ends.
AuthInv ==
    power \in {"live", "emergency"} =>
        /\ authOwn => step \in OnDisk /\ ~config.operatorAuth
        /\ ~authOwn => auth = IF config.operatorAuth THEN "operator" ELSE "none"

Inv == Shape /\ FlowInv /\ RecordInv /\ DiskInv /\ MediaInv /\ ImagesInv /\ AuthInv

-----------------------------------------------------------------------------
(* Operators. *)

\* An import gives no pinned name to another image.
LEMMA ImportPins ==
    ASSUME NEW store, PinsHonest(store), NEW e
    PROVE  PinsHonest(ImportImage(store, e))
  <1> DEFINE named == Overlay(store, [r \in {Canonical(e)} |-> e.digest])
  <1>1. PinsHonest(named)
    BY DEF PinsHonest, Overlay, Canonical, IsPinned
  <1> HIDE DEF named
  <1>2. PinsHonest(registerSourceAliases(named, e))
    BY <1>1 DEF PinsHonest, registerSourceAliases, Overlay, IsPinned
  <1> QED BY <1>2 DEF ImportImage, named

\* The check of the coverage and the check of the store together: every
\* reference of the seed resolves to the image of the entry that lists it.
LEMMA VerifiedIsResident ==
    ASSUME verifyManifestCoversSeed, VerifyAll(disk.store), PinsHonest(disk.store)
    PROVE  Resident
  <1> SUFFICES ASSUME NEW r \in media.required
               PROVE  /\ r \in DOMAIN disk.store
                      /\ \A e \in Entries : r \in e.sources => disk.store[r] = e.digest
    BY DEF Resident
  <1> DEFINE listing == {k \in 1 .. Len(media.images) : r \in media.images[k].sources}
  <1>1. Cardinality(listing) = 1
    BY DEF verifyManifestCoversSeed
  <1>2. listing # {}
    <2> HIDE DEF listing
    <2> QED BY <1>1, FS_EmptySet
  <1>3. \E e \in Entries : r \in e.sources
    BY <1>2 DEF Entries
  <1>4. ASSUME NEW e \in Entries, r \in e.sources
        PROVE  r \in DOMAIN disk.store /\ disk.store[r] = e.digest
    <2>1. /\ Canonical(e) \in DOMAIN disk.store
          /\ r \in DOMAIN disk.store /\ disk.store[r] = disk.store[Canonical(e)]
      BY <1>4 DEF VerifyAll, verifyImage
    <2>2. disk.store[Canonical(e)] = e.digest
      BY <2>1 DEF PinsHonest, IsPinned, Canonical
    <2> QED BY <2>1, <2>2
  <1> QED BY <1>3, <1>4

-----------------------------------------------------------------------------
(* Every step preserves the invariant. *)

\* The configuration and the counters.
LEMMA CountersStep == Counters /\ [Next]_vars => Counters'
  <1> SUFFICES ASSUME Counters, [Next]_vars
               PROVE  Counters'
    OBVIOUS
  <1> USE DEF Counters, world
  <1>1. CASE Boot
    BY <1>1 DEF Boot
  <1>2. CASE mountStatusPartition
    BY <1>2 DEF mountStatusPartition, At, Fault, NoFault, Preflight
  <1>3. CASE guardReentry
    BY <1>3 DEF guardReentry, At, Fault, NoFault, writeResult
  <1>4. CASE mountLocalImages
    BY <1>4 DEF mountLocalImages, Proceed, Abort, Fault, NoFault, Preflight, At
  <1>5. CASE validateManifest
    BY <1>5 DEF validateManifest, Proceed, Abort, Fault, NoFault, Preflight, At
  <1>6. CASE preflightSeedOSTree
    BY <1>6 DEF preflightSeedOSTree, Proceed, Abort, Fault, NoFault, Preflight, At
  <1>7. CASE setupPrepareAuthFile
    BY <1>7 DEF setupPrepareAuthFile, At, Fault, NoFault, Abort, Preflight
  <1>8. CASE cleanupDisk
    BY <1>8 DEF cleanupDisk, At, Fault, NoFault, Installing
  <1>9. CASE writeImage
    BY <1>9 DEF writeImage, At, Fault, NoFault, Abort, Installing
  <1>10. CASE createPartition
    BY <1>10 DEF createPartition, At, Proceed, Abort, Fault, NoFault, Installing
  <1>11. CASE acquireSeed
    BY <1>11 DEF acquireSeed, At, Proceed, Abort, Fault, NoFault, Installing
  <1>12. CASE SetupStateroot
    BY <1>12 DEF SetupStateroot, At, Proceed, Abort, Fault, NoFault, Installing
  <1>13. CASE importClosure
    BY <1>13 DEF importClosure, At, Proceed, Abort, Fault, NoFault, Installing
  <1>14. CASE precacheFlow
    BY <1>14 DEF precacheFlow, At, Proceed, Abort, Fault, NoFault, Installing
  <1>15. CASE verifyImportedClosure
    BY <1>15 DEF verifyImportedClosure, At, Proceed, Abort, Fault, NoFault, Installing
  <1>16. CASE postDeployment
    BY <1>16 DEF postDeployment, At, Proceed, Abort, Fault, NoFault, Installing
  <1>17. CASE cleanupRhcosSysroot
    BY <1>17 DEF cleanupRhcosSysroot, At, Proceed, Abort, Fault, NoFault, Installing
  <1>18. CASE persistReadOnlyStore
    BY <1>18 DEF persistReadOnlyStore, At, Proceed, Abort, Fault, NoFault, Installing,
       validateSourceStore
  <1>19. CASE publishStore
    BY <1>19 DEF publishStore, At, Proceed, Abort, Fault, NoFault, Installing
  <1>20. CASE registerReadOnlyStore
    BY <1>20 DEF registerReadOnlyStore, At, Proceed, Abort, Fault, NoFault, Installing
  <1>21. CASE syncDisk
    BY <1>21 DEF syncDisk, At, Fault, NoFault, Abort, Installing
  <1>22. CASE unmountP2
    BY <1>22 DEF unmountP2, At, Proceed, Abort, Fault, NoFault, Installing
  <1>23. CASE writeResultPreservingSuccess
    BY <1>23 DEF writeResultPreservingSuccess, At, Fault, NoFault, writeResult, buildResult
  <1>24. CASE finalizeDisconnected
    BY <1>24 DEF finalizeDisconnected, At, Fault, NoFault
  <1>25. CASE shutdownNode
    BY <1>25 DEF shutdownNode, At, Fault, NoFault
  <1>26. CASE pivotReboot
    BY <1>26 DEF pivotReboot, At, Fault, NoFault
  <1>27. CASE GracePeriodOver
    BY <1>27 DEF GracePeriodOver, At
  <1>28. CASE markPivotFailed
    BY <1>28 DEF markPivotFailed, At, Fault, NoFault, writeResult
  <1>29. CASE haltPoweredOn
    BY <1>29 DEF haltPoweredOn, At, Fault, NoFault
  <1>30. CASE RebootTakes
    BY <1>30 DEF RebootTakes
  <1>31. CASE PowerLoss
    BY <1>31 DEF PowerLoss
  <1>32. CASE OperatorReset
    BY <1>32 DEF OperatorReset
  <1>33. CASE UNCHANGED vars
    BY <1>33 DEF vars
  <1> QED BY <1>1, <1>2, <1>3, <1>4, <1>5, <1>6, <1>7, <1>8, <1>9, <1>10, <1>11, <1>12, <1>13,
             <1>14, <1>15, <1>16, <1>17, <1>18, <1>19, <1>20, <1>21, <1>22, <1>23, <1>24, <1>25,
             <1>26, <1>27, <1>28, <1>29, <1>30, <1>31, <1>32, <1>33
           DEF Next, Prepare

\* What p4 holds are results.
LEMMA RecordsStep == Records /\ FlowInv /\ RecordInv /\ [Next]_vars => Records'
  <1> SUFFICES ASSUME Records, FlowInv, RecordInv, [Next]_vars
               PROVE  Records'
    OBVIOUS
  <1> USE DEF Records, Results, PrepareResult, NoFile, Junk, FlowInv, RecordInv, Disconnected,
              SelfContained, Connected, world
  <1>1. CASE Boot
    BY <1>1 DEF Boot
  <1>2. CASE mountStatusPartition
    BY <1>2 DEF mountStatusPartition, At, Fault, NoFault, Preflight
  <1>3. CASE guardReentry
    BY <1>3 DEF guardReentry, At, Fault, NoFault, writeResult
  <1>4. CASE mountLocalImages
    BY <1>4 DEF mountLocalImages, Proceed, Abort, Fault, NoFault, Preflight, At
  <1>5. CASE validateManifest
    BY <1>5 DEF validateManifest, Proceed, Abort, Fault, NoFault, Preflight, At
  <1>6. CASE preflightSeedOSTree
    BY <1>6 DEF preflightSeedOSTree, Proceed, Abort, Fault, NoFault, Preflight, At
  <1>7. CASE setupPrepareAuthFile
    BY <1>7 DEF setupPrepareAuthFile, At, Fault, NoFault, Abort, Preflight
  <1>8. CASE cleanupDisk
    BY <1>8 DEF cleanupDisk, At, Fault, NoFault, Installing
  <1>9. CASE writeImage
    BY <1>9 DEF writeImage, At, Fault, NoFault, Abort, Installing
  <1>10. CASE createPartition
    BY <1>10 DEF createPartition, At, Proceed, Abort, Fault, NoFault, Installing
  <1>11. CASE acquireSeed
    BY <1>11 DEF acquireSeed, At, Proceed, Abort, Fault, NoFault, Installing
  <1>12. CASE SetupStateroot
    BY <1>12 DEF SetupStateroot, At, Proceed, Abort, Fault, NoFault, Installing
  <1>13. CASE importClosure
    BY <1>13 DEF importClosure, At, Proceed, Abort, Fault, NoFault, Installing
  <1>14. CASE precacheFlow
    BY <1>14 DEF precacheFlow, At, Proceed, Abort, Fault, NoFault, Installing
  <1>15. CASE verifyImportedClosure
    BY <1>15 DEF verifyImportedClosure, At, Proceed, Abort, Fault, NoFault, Installing
  <1>16. CASE postDeployment
    BY <1>16 DEF postDeployment, At, Proceed, Abort, Fault, NoFault, Installing
  <1>17. CASE cleanupRhcosSysroot
    BY <1>17 DEF cleanupRhcosSysroot, At, Proceed, Abort, Fault, NoFault, Installing
  <1>18. CASE persistReadOnlyStore
    BY <1>18 DEF persistReadOnlyStore, At, Proceed, Abort, Fault, NoFault, Installing,
       validateSourceStore
  <1>19. CASE publishStore
    BY <1>19 DEF publishStore, At, Proceed, Abort, Fault, NoFault, Installing
  <1>20. CASE registerReadOnlyStore
    BY <1>20 DEF registerReadOnlyStore, At, Proceed, Abort, Fault, NoFault, Installing
  <1>21. CASE syncDisk
    BY <1>21 DEF syncDisk, At, Fault, NoFault, Abort, Installing
  <1>22. CASE unmountP2
    BY <1>22 DEF unmountP2, At, Proceed, Abort, Fault, NoFault, Installing
  <1>23. CASE writeResultPreservingSuccess
    BY <1>23 DEF writeResultPreservingSuccess, At, Fault, NoFault, writeResult, buildResult
  <1>24. CASE finalizeDisconnected
    BY <1>24 DEF finalizeDisconnected, At, Fault, NoFault
  <1>25. CASE shutdownNode
    BY <1>25 DEF shutdownNode, At, Fault, NoFault
  <1>26. CASE pivotReboot
    BY <1>26 DEF pivotReboot, At, Fault, NoFault
  <1>27. CASE GracePeriodOver
    BY <1>27 DEF GracePeriodOver, At
  <1>28. CASE markPivotFailed
    BY <1>28 DEF markPivotFailed, At, Fault, NoFault, writeResult
  <1>29. CASE haltPoweredOn
    BY <1>29 DEF haltPoweredOn, At, Fault, NoFault
  <1>30. CASE RebootTakes
    BY <1>30 DEF RebootTakes
  <1>31. CASE PowerLoss
    BY <1>31 DEF PowerLoss
  <1>32. CASE OperatorReset
    BY <1>32 DEF OperatorReset
  <1>33. CASE UNCHANGED vars
    BY <1>33 DEF vars
  <1> QED BY <1>1, <1>2, <1>3, <1>4, <1>5, <1>6, <1>7, <1>8, <1>9, <1>10, <1>11, <1>12, <1>13,
             <1>14, <1>15, <1>16, <1>17, <1>18, <1>19, <1>20, <1>21, <1>22, <1>23, <1>24, <1>25,
             <1>26, <1>27, <1>28, <1>29, <1>30, <1>31, <1>32, <1>33
           DEF Next, Prepare

\* The disk is a disk.
LEMMA IsDiskStep == IsDisk(disk) /\ [Next]_vars => IsDisk(disk)'
  <1> SUFFICES ASSUME IsDisk(disk), [Next]_vars
               PROVE  IsDisk(disk)'
    OBVIOUS
  <1> USE DEF IsDisk, Untouched, world
  <1>1. CASE Boot
    BY <1>1 DEF Boot
  <1>2. CASE mountStatusPartition
    BY <1>2 DEF mountStatusPartition, At, Fault, NoFault, Preflight
  <1>3. CASE guardReentry
    BY <1>3 DEF guardReentry, At, Fault, NoFault, writeResult
  <1>4. CASE mountLocalImages
    BY <1>4 DEF mountLocalImages, Proceed, Abort, Fault, NoFault, Preflight, At
  <1>5. CASE validateManifest
    BY <1>5 DEF validateManifest, Proceed, Abort, Fault, NoFault, Preflight, At
  <1>6. CASE preflightSeedOSTree
    BY <1>6 DEF preflightSeedOSTree, Proceed, Abort, Fault, NoFault, Preflight, At
  <1>7. CASE setupPrepareAuthFile
    BY <1>7 DEF setupPrepareAuthFile, At, Fault, NoFault, Abort, Preflight
  <1>8. CASE cleanupDisk
    BY <1>8 DEF cleanupDisk, At, Fault, NoFault, Installing
  <1>9. CASE writeImage
    BY ZenonT(40), <1>9 DEF writeImage, At, Fault, NoFault, Abort, Installing
  <1>10. CASE createPartition
    BY <1>10 DEF createPartition, At, Proceed, Abort, Fault, NoFault, Installing
  <1>11. CASE acquireSeed
    BY <1>11 DEF acquireSeed, At, Proceed, Abort, Fault, NoFault, Installing
  <1>12. CASE SetupStateroot
    BY <1>12 DEF SetupStateroot, At, Proceed, Abort, Fault, NoFault, Installing
  <1>13. CASE importClosure
    BY <1>13 DEF importClosure, At, Proceed, Abort, Fault, NoFault, Installing
  <1>14. CASE precacheFlow
    BY <1>14 DEF precacheFlow, At, Proceed, Abort, Fault, NoFault, Installing
  <1>15. CASE verifyImportedClosure
    BY <1>15 DEF verifyImportedClosure, At, Proceed, Abort, Fault, NoFault, Installing
  <1>16. CASE postDeployment
    BY <1>16 DEF postDeployment, At, Proceed, Abort, Fault, NoFault, Installing
  <1>17. CASE cleanupRhcosSysroot
    BY <1>17 DEF cleanupRhcosSysroot, At, Proceed, Abort, Fault, NoFault, Installing
  <1>18. CASE persistReadOnlyStore
    BY <1>18 DEF persistReadOnlyStore, At, Proceed, Abort, Fault, NoFault, Installing,
       validateSourceStore
  <1>19. CASE publishStore
    BY <1>19 DEF publishStore, At, Proceed, Abort, Fault, NoFault, Installing
  <1>20. CASE registerReadOnlyStore
    BY <1>20 DEF registerReadOnlyStore, At, Proceed, Abort, Fault, NoFault, Installing
  <1>21. CASE syncDisk
    BY <1>21 DEF syncDisk, At, Fault, NoFault, Abort, Installing
  <1>22. CASE unmountP2
    BY <1>22 DEF unmountP2, At, Proceed, Abort, Fault, NoFault, Installing
  <1>23. CASE writeResultPreservingSuccess
    BY <1>23 DEF writeResultPreservingSuccess, At, Fault, NoFault, writeResult, buildResult
  <1>24. CASE finalizeDisconnected
    BY <1>24 DEF finalizeDisconnected, At, Fault, NoFault
  <1>25. CASE shutdownNode
    BY <1>25 DEF shutdownNode, At, Fault, NoFault
  <1>26. CASE pivotReboot
    BY <1>26 DEF pivotReboot, At, Fault, NoFault
  <1>27. CASE GracePeriodOver
    BY <1>27 DEF GracePeriodOver, At
  <1>28. CASE markPivotFailed
    BY <1>28 DEF markPivotFailed, At, Fault, NoFault, writeResult
  <1>29. CASE haltPoweredOn
    BY <1>29 DEF haltPoweredOn, At, Fault, NoFault
  <1>30. CASE RebootTakes
    BY <1>30 DEF RebootTakes
  <1>31. CASE PowerLoss
    BY <1>31 DEF PowerLoss
  <1>32. CASE OperatorReset
    BY <1>32 DEF OperatorReset
  <1>33. CASE UNCHANGED vars
    BY <1>33 DEF vars
  <1> QED BY <1>1, <1>2, <1>3, <1>4, <1>5, <1>6, <1>7, <1>8, <1>9, <1>10, <1>11, <1>12, <1>13,
             <1>14, <1>15, <1>16, <1>17, <1>18, <1>19, <1>20, <1>21, <1>22, <1>23, <1>24, <1>25,
             <1>26, <1>27, <1>28, <1>29, <1>30, <1>31, <1>32, <1>33
           DEF Next, Prepare

\* The order of the steps.
LEMMA FlowStep == FlowInv /\ [Next]_vars => FlowInv'
  <1> SUFFICES ASSUME FlowInv, [Next]_vars
               PROVE  FlowInv'
    OBVIOUS
  <1> USE DEF FlowInv, Checks, Writing, Images, Publishing, OnDisk, Disconnected, Connected,
              SelfContained, world
  <1>1. CASE Boot
    BY <1>1 DEF Boot
  <1>2. CASE mountStatusPartition
    BY <1>2 DEF mountStatusPartition, At, Fault, NoFault, Preflight
  <1>3. CASE guardReentry
    BY <1>3 DEF guardReentry, At, Fault, NoFault, writeResult
  <1>4. CASE mountLocalImages
    BY <1>4 DEF mountLocalImages, Proceed, Abort, Fault, NoFault, Preflight, At
  <1>5. CASE validateManifest
    BY <1>5 DEF validateManifest, Proceed, Abort, Fault, NoFault, Preflight, At
  <1>6. CASE preflightSeedOSTree
    BY <1>6 DEF preflightSeedOSTree, Proceed, Abort, Fault, NoFault, Preflight, At
  <1>7. CASE setupPrepareAuthFile
    BY <1>7 DEF setupPrepareAuthFile, At, Fault, NoFault, Abort, Preflight
  <1>8. CASE cleanupDisk
    BY <1>8 DEF cleanupDisk, At, Fault, NoFault, Installing
  <1>9. CASE writeImage
    BY <1>9 DEF writeImage, At, Fault, NoFault, Abort, Installing
  <1>10. CASE createPartition
    BY <1>10 DEF createPartition, At, Proceed, Abort, Fault, NoFault, Installing
  <1>11. CASE acquireSeed
    BY <1>11 DEF acquireSeed, At, Proceed, Abort, Fault, NoFault, Installing
  <1>12. CASE SetupStateroot
    BY <1>12 DEF SetupStateroot, At, Proceed, Abort, Fault, NoFault, Installing
  <1>13. CASE importClosure
    BY <1>13 DEF importClosure, At, Proceed, Abort, Fault, NoFault, Installing
  <1>14. CASE precacheFlow
    BY <1>14 DEF precacheFlow, At, Proceed, Abort, Fault, NoFault, Installing
  <1>15. CASE verifyImportedClosure
    BY <1>15 DEF verifyImportedClosure, At, Proceed, Abort, Fault, NoFault, Installing
  <1>16. CASE postDeployment
    BY <1>16 DEF postDeployment, At, Proceed, Abort, Fault, NoFault, Installing
  <1>17. CASE cleanupRhcosSysroot
    BY <1>17 DEF cleanupRhcosSysroot, At, Proceed, Abort, Fault, NoFault, Installing
  <1>18. CASE persistReadOnlyStore
    BY <1>18 DEF persistReadOnlyStore, At, Proceed, Abort, Fault, NoFault, Installing,
       validateSourceStore
  <1>19. CASE publishStore
    BY <1>19 DEF publishStore, At, Proceed, Abort, Fault, NoFault, Installing
  <1>20. CASE registerReadOnlyStore
    BY <1>20 DEF registerReadOnlyStore, At, Proceed, Abort, Fault, NoFault, Installing
  <1>21. CASE syncDisk
    BY <1>21 DEF syncDisk, At, Fault, NoFault, Abort, Installing
  <1>22. CASE unmountP2
    BY <1>22 DEF unmountP2, At, Proceed, Abort, Fault, NoFault, Installing
  <1>23. CASE writeResultPreservingSuccess
    BY <1>23 DEF writeResultPreservingSuccess, At, Fault, NoFault, writeResult, buildResult
  <1>24. CASE finalizeDisconnected
    BY <1>24 DEF finalizeDisconnected, At, Fault, NoFault
  <1>25. CASE shutdownNode
    BY <1>25 DEF shutdownNode, At, Fault, NoFault
  <1>26. CASE pivotReboot
    BY <1>26 DEF pivotReboot, At, Fault, NoFault
  <1>27. CASE GracePeriodOver
    BY <1>27 DEF GracePeriodOver, At
  <1>28. CASE markPivotFailed
    BY <1>28 DEF markPivotFailed, At, Fault, NoFault, writeResult
  <1>29. CASE haltPoweredOn
    BY <1>29 DEF haltPoweredOn, At, Fault, NoFault
  <1>30. CASE RebootTakes
    BY <1>30 DEF RebootTakes
  <1>31. CASE PowerLoss
    BY <1>31 DEF PowerLoss
  <1>32. CASE OperatorReset
    BY <1>32 DEF OperatorReset
  <1>33. CASE UNCHANGED vars
    BY <1>33 DEF vars
  <1> QED BY <1>1, <1>2, <1>3, <1>4, <1>5, <1>6, <1>7, <1>8, <1>9, <1>10, <1>11, <1>12, <1>13,
             <1>14, <1>15, <1>16, <1>17, <1>18, <1>19, <1>20, <1>21, <1>22, <1>23, <1>24, <1>25,
             <1>26, <1>27, <1>28, <1>29, <1>30, <1>31, <1>32, <1>33
           DEF Next, Prepare

\* The record.
LEMMA RecordStep == Shape /\ FlowInv /\ RecordInv /\ [Next]_vars => RecordInv'
  <1> SUFFICES ASSUME Shape, FlowInv, RecordInv, [Next]_vars
               PROVE  RecordInv'
    OBVIOUS
  <1> USE DEF Shape, Counters, Records, Results, PrepareResult, NoFile, Junk, FlowInv,
              RecordInv, Checks, Writing, Images, Publishing, OnDisk, Disconnected, Connected,
              SelfContained, world
  <1>1. CASE Boot
    BY <1>1 DEF Boot
  <1>2. CASE mountStatusPartition
    BY <1>2 DEF mountStatusPartition, At, Fault, NoFault, Preflight
  <1>3. CASE guardReentry
    BY <1>3 DEF guardReentry, At, Fault, NoFault, writeResult
  <1>4. CASE mountLocalImages
    BY <1>4 DEF mountLocalImages, Proceed, Abort, Fault, NoFault, Preflight, At
  <1>5. CASE validateManifest
    BY <1>5 DEF validateManifest, Proceed, Abort, Fault, NoFault, Preflight, At
  <1>6. CASE preflightSeedOSTree
    BY <1>6 DEF preflightSeedOSTree, Proceed, Abort, Fault, NoFault, Preflight, At
  <1>7. CASE setupPrepareAuthFile
    BY <1>7 DEF setupPrepareAuthFile, At, Fault, NoFault, Abort, Preflight
  <1>8. CASE cleanupDisk
    BY <1>8 DEF cleanupDisk, At, Fault, NoFault, Installing
  <1>9. CASE writeImage
    BY <1>9 DEF writeImage, At, Fault, NoFault, Abort, Installing
  <1>10. CASE createPartition
    BY <1>10 DEF createPartition, At, Proceed, Abort, Fault, NoFault, Installing
  <1>11. CASE acquireSeed
    BY <1>11 DEF acquireSeed, At, Proceed, Abort, Fault, NoFault, Installing
  <1>12. CASE SetupStateroot
    BY <1>12 DEF SetupStateroot, At, Proceed, Abort, Fault, NoFault, Installing
  <1>13. CASE importClosure
    BY <1>13 DEF importClosure, At, Proceed, Abort, Fault, NoFault, Installing
  <1>14. CASE precacheFlow
    BY <1>14 DEF precacheFlow, At, Proceed, Abort, Fault, NoFault, Installing
  <1>15. CASE verifyImportedClosure
    BY <1>15 DEF verifyImportedClosure, At, Proceed, Abort, Fault, NoFault, Installing
  <1>16. CASE postDeployment
    BY <1>16 DEF postDeployment, At, Proceed, Abort, Fault, NoFault, Installing
  <1>17. CASE cleanupRhcosSysroot
    BY <1>17 DEF cleanupRhcosSysroot, At, Proceed, Abort, Fault, NoFault, Installing
  <1>18. CASE persistReadOnlyStore
    BY <1>18 DEF persistReadOnlyStore, At, Proceed, Abort, Fault, NoFault, Installing,
       validateSourceStore
  <1>19. CASE publishStore
    BY <1>19 DEF publishStore, At, Proceed, Abort, Fault, NoFault, Installing
  <1>20. CASE registerReadOnlyStore
    BY <1>20 DEF registerReadOnlyStore, At, Proceed, Abort, Fault, NoFault, Installing
  <1>21. CASE syncDisk
    BY <1>21 DEF syncDisk, At, Fault, NoFault, Abort, Installing
  <1>22. CASE unmountP2
    BY <1>22 DEF unmountP2, At, Proceed, Abort, Fault, NoFault, Installing
  <1>23. CASE writeResultPreservingSuccess
    <2>1. step = "write" /\ step' = "commit" /\ UNCHANGED <<config, err, pending, signal, resets>>
      BY <1>23 DEF writeResultPreservingSuccess, At
    <2>2. p4.seen = NoFile /\ p4.disk = NoFile
      BY <2>1
    <2>3. writeResult(buildResult(err))
      BY <1>23, <2>2 DEF writeResultPreservingSuccess
    <2>4. \/ p4'.seen = buildResult(err) /\ p4'.disk = buildResult(err)
          \/ p4'.disk = NoFile /\ faults' = faults + 1
      BY <2>2, <2>3 DEF writeResult, Fault
    <2>5. uncommitted' = (faults' > faults)
      BY <1>23 DEF writeResultPreservingSuccess
    <2>6. CASE p4'.seen = buildResult(err) /\ p4'.disk = buildResult(err)
      BY <2>1, <2>6 DEF buildResult
    <2>7. CASE p4'.disk = NoFile /\ faults' = faults + 1
      <3>1. faults' > faults
        BY <2>7
      <3>2. uncommitted'
        BY <2>5, <3>1
      <3> QED BY <2>1, <2>7, <3>2
    <2> QED BY <2>4, <2>6, <2>7
  <1>24. CASE finalizeDisconnected
    BY <1>24 DEF finalizeDisconnected, At, Fault, NoFault
  <1>25. CASE shutdownNode
    BY <1>25 DEF shutdownNode, At, Fault, NoFault
  <1>26. CASE pivotReboot
    BY <1>26 DEF pivotReboot, At, Fault, NoFault
  <1>27. CASE GracePeriodOver
    BY <1>27 DEF GracePeriodOver, At
  <1>28. CASE markPivotFailed
    BY <1>28 DEF markPivotFailed, At, Fault, NoFault, writeResult
  <1>29. CASE haltPoweredOn
    BY <1>29 DEF haltPoweredOn, At, Fault, NoFault
  <1>30. CASE RebootTakes
    BY <1>30 DEF RebootTakes
  <1>31. CASE PowerLoss
    BY <1>31 DEF PowerLoss
  <1>32. CASE OperatorReset
    BY <1>32 DEF OperatorReset
  <1>33. CASE UNCHANGED vars
    BY <1>33 DEF vars
  <1> QED BY <1>1, <1>2, <1>3, <1>4, <1>5, <1>6, <1>7, <1>8, <1>9, <1>10, <1>11, <1>12, <1>13,
             <1>14, <1>15, <1>16, <1>17, <1>18, <1>19, <1>20, <1>21, <1>22, <1>23, <1>24, <1>25,
             <1>26, <1>27, <1>28, <1>29, <1>30, <1>31, <1>32, <1>33
           DEF Next, Prepare

\* The disk, step by step.
LEMMA DiskStep == Shape /\ FlowInv /\ DiskInv /\ [Next]_vars => DiskInv'
  <1> SUFFICES ASSUME Shape, FlowInv, DiskInv, [Next]_vars
               PROVE  DiskInv'
    OBVIOUS
  <1> USE DEF Shape, Counters, Records, IsDisk, Untouched, FlowInv, DiskInv, DropInHasStore,
              Checks, Writing, Images, Publishing, OnDisk, Installed, Disconnected, Connected,
              SelfContained, world
  <1>1. CASE Boot
    BY <1>1 DEF Boot
  <1>2. CASE mountStatusPartition
    BY <1>2 DEF mountStatusPartition, At, Fault, NoFault, Preflight
  <1>3. CASE guardReentry
    BY <1>3 DEF guardReentry, At, Fault, NoFault, writeResult
  <1>4. CASE mountLocalImages
    BY <1>4 DEF mountLocalImages, Proceed, Abort, Fault, NoFault, Preflight, At
  <1>5. CASE validateManifest
    BY <1>5 DEF validateManifest, Proceed, Abort, Fault, NoFault, Preflight, At
  <1>6. CASE preflightSeedOSTree
    BY <1>6 DEF preflightSeedOSTree, Proceed, Abort, Fault, NoFault, Preflight, At
  <1>7. CASE setupPrepareAuthFile
    BY <1>7 DEF setupPrepareAuthFile, At, Fault, NoFault, Abort, Preflight
  <1>8. CASE cleanupDisk
    BY <1>8 DEF cleanupDisk, At, Fault, NoFault, Installing
  <1>9. CASE writeImage
    BY ZenonT(40), <1>9 DEF writeImage, At, Fault, NoFault, Abort, Installing
  <1>10. CASE createPartition
    BY <1>10 DEF createPartition, At, Proceed, Abort, Fault, NoFault, Installing
  <1>11. CASE acquireSeed
    BY <1>11 DEF acquireSeed, At, Proceed, Abort, Fault, NoFault, Installing
  <1>12. CASE SetupStateroot
    BY <1>12 DEF SetupStateroot, At, Proceed, Abort, Fault, NoFault, Installing
  <1>13. CASE importClosure
    BY <1>13 DEF importClosure, At, Proceed, Abort, Fault, NoFault, Installing
  <1>14. CASE precacheFlow
    BY <1>14 DEF precacheFlow, At, Proceed, Abort, Fault, NoFault, Installing
  <1>15. CASE verifyImportedClosure
    BY <1>15 DEF verifyImportedClosure, At, Proceed, Abort, Fault, NoFault, Installing
  <1>16. CASE postDeployment
    BY <1>16 DEF postDeployment, At, Proceed, Abort, Fault, NoFault, Installing
  <1>17. CASE cleanupRhcosSysroot
    BY <1>17 DEF cleanupRhcosSysroot, At, Proceed, Abort, Fault, NoFault, Installing
  <1>18. CASE persistReadOnlyStore
    BY <1>18 DEF persistReadOnlyStore, At, Proceed, Abort, Fault, NoFault, Installing,
       validateSourceStore
  <1>19. CASE publishStore
    BY <1>19 DEF publishStore, At, Proceed, Abort, Fault, NoFault, Installing
  <1>20. CASE registerReadOnlyStore
    BY <1>20 DEF registerReadOnlyStore, At, Proceed, Abort, Fault, NoFault, Installing
  <1>21. CASE syncDisk
    BY <1>21 DEF syncDisk, At, Fault, NoFault, Abort, Installing
  <1>22. CASE unmountP2
    BY <1>22 DEF unmountP2, At, Proceed, Abort, Fault, NoFault, Installing
  <1>23. CASE writeResultPreservingSuccess
    BY <1>23 DEF writeResultPreservingSuccess, At, Fault, NoFault, writeResult, buildResult
  <1>24. CASE finalizeDisconnected
    BY <1>24 DEF finalizeDisconnected, At, Fault, NoFault
  <1>25. CASE shutdownNode
    BY <1>25 DEF shutdownNode, At, Fault, NoFault
  <1>26. CASE pivotReboot
    BY <1>26 DEF pivotReboot, At, Fault, NoFault
  <1>27. CASE GracePeriodOver
    BY <1>27 DEF GracePeriodOver, At
  <1>28. CASE markPivotFailed
    BY <1>28 DEF markPivotFailed, At, Fault, NoFault, writeResult
  <1>29. CASE haltPoweredOn
    BY <1>29 DEF haltPoweredOn, At, Fault, NoFault
  <1>30. CASE RebootTakes
    BY <1>30 DEF RebootTakes
  <1>31. CASE PowerLoss
    BY <1>31 DEF PowerLoss
  <1>32. CASE OperatorReset
    BY <1>32 DEF OperatorReset
  <1>33. CASE UNCHANGED vars
    BY <1>33 DEF vars
  <1> QED BY <1>1, <1>2, <1>3, <1>4, <1>5, <1>6, <1>7, <1>8, <1>9, <1>10, <1>11, <1>12, <1>13,
             <1>14, <1>15, <1>16, <1>17, <1>18, <1>19, <1>20, <1>21, <1>22, <1>23, <1>24, <1>25,
             <1>26, <1>27, <1>28, <1>29, <1>30, <1>31, <1>32, <1>33
           DEF Next, Prepare

\* The checks of the medium come before the disk.
LEMMA MediaStep == Shape /\ FlowInv /\ MediaInv /\ [Next]_vars => MediaInv'
  <1> SUFFICES ASSUME Shape, FlowInv, MediaInv, [Next]_vars
               PROVE  MediaInv'
    OBVIOUS
  <1> USE DEF Shape, Counters, Records, IsDisk, Untouched, FlowInv, MediaInv, BadMediaKeepsDisk,
              preflightValidateManifest, Entries, Checks, Writing, Images, Publishing, OnDisk,
              Disconnected, Connected, SelfContained, world
  <1>1. CASE Boot
    BY <1>1 DEF Boot
  <1>2. CASE mountStatusPartition
    BY <1>2 DEF mountStatusPartition, At, Fault, NoFault, Preflight
  <1>3. CASE guardReentry
    BY <1>3 DEF guardReentry, At, Fault, NoFault, writeResult
  <1>4. CASE mountLocalImages
    BY <1>4 DEF mountLocalImages, Proceed, Abort, Fault, NoFault, Preflight, At
  <1>5. CASE validateManifest
    BY <1>5 DEF validateManifest, Proceed, Abort, Fault, NoFault, Preflight, At
  <1>6. CASE preflightSeedOSTree
    BY <1>6 DEF preflightSeedOSTree, Proceed, Abort, Fault, NoFault, Preflight, At
  <1>7. CASE setupPrepareAuthFile
    BY <1>7 DEF setupPrepareAuthFile, At, Fault, NoFault, Abort, Preflight
  <1>8. CASE cleanupDisk
    BY <1>8 DEF cleanupDisk, At, Fault, NoFault, Installing
  <1>9. CASE writeImage
    BY <1>9 DEF writeImage, At, Fault, NoFault, Abort, Installing
  <1>10. CASE createPartition
    BY <1>10 DEF createPartition, At, Proceed, Abort, Fault, NoFault, Installing
  <1>11. CASE acquireSeed
    BY <1>11 DEF acquireSeed, At, Proceed, Abort, Fault, NoFault, Installing
  <1>12. CASE SetupStateroot
    BY <1>12 DEF SetupStateroot, At, Proceed, Abort, Fault, NoFault, Installing
  <1>13. CASE importClosure
    BY <1>13 DEF importClosure, At, Proceed, Abort, Fault, NoFault, Installing
  <1>14. CASE precacheFlow
    BY <1>14 DEF precacheFlow, At, Proceed, Abort, Fault, NoFault, Installing
  <1>15. CASE verifyImportedClosure
    BY <1>15 DEF verifyImportedClosure, At, Proceed, Abort, Fault, NoFault, Installing
  <1>16. CASE postDeployment
    BY <1>16 DEF postDeployment, At, Proceed, Abort, Fault, NoFault, Installing
  <1>17. CASE cleanupRhcosSysroot
    BY <1>17 DEF cleanupRhcosSysroot, At, Proceed, Abort, Fault, NoFault, Installing
  <1>18. CASE persistReadOnlyStore
    BY <1>18 DEF persistReadOnlyStore, At, Proceed, Abort, Fault, NoFault, Installing,
       validateSourceStore
  <1>19. CASE publishStore
    BY <1>19 DEF publishStore, At, Proceed, Abort, Fault, NoFault, Installing
  <1>20. CASE registerReadOnlyStore
    BY <1>20 DEF registerReadOnlyStore, At, Proceed, Abort, Fault, NoFault, Installing
  <1>21. CASE syncDisk
    BY <1>21 DEF syncDisk, At, Fault, NoFault, Abort, Installing
  <1>22. CASE unmountP2
    BY <1>22 DEF unmountP2, At, Proceed, Abort, Fault, NoFault, Installing
  <1>23. CASE writeResultPreservingSuccess
    BY <1>23 DEF writeResultPreservingSuccess, At, Fault, NoFault, writeResult, buildResult
  <1>24. CASE finalizeDisconnected
    BY <1>24 DEF finalizeDisconnected, At, Fault, NoFault
  <1>25. CASE shutdownNode
    BY <1>25 DEF shutdownNode, At, Fault, NoFault
  <1>26. CASE pivotReboot
    BY <1>26 DEF pivotReboot, At, Fault, NoFault
  <1>27. CASE GracePeriodOver
    BY <1>27 DEF GracePeriodOver, At
  <1>28. CASE markPivotFailed
    BY <1>28 DEF markPivotFailed, At, Fault, NoFault, writeResult
  <1>29. CASE haltPoweredOn
    BY <1>29 DEF haltPoweredOn, At, Fault, NoFault
  <1>30. CASE RebootTakes
    BY <1>30 DEF RebootTakes
  <1>31. CASE PowerLoss
    BY <1>31 DEF PowerLoss
  <1>32. CASE OperatorReset
    BY <1>32 DEF OperatorReset
  <1>33. CASE UNCHANGED vars
    BY <1>33 DEF vars
  <1> QED BY <1>1, <1>2, <1>3, <1>4, <1>5, <1>6, <1>7, <1>8, <1>9, <1>10, <1>11, <1>12, <1>13,
             <1>14, <1>15, <1>16, <1>17, <1>18, <1>19, <1>20, <1>21, <1>22, <1>23, <1>24, <1>25,
             <1>26, <1>27, <1>28, <1>29, <1>30, <1>31, <1>32, <1>33
           DEF Next, Prepare

\* The store of the installed stateroot.
LEMMA ImagesStep == Shape /\ FlowInv /\ ImagesInv /\ [Next]_vars => ImagesInv'
  <1> SUFFICES ASSUME Shape, FlowInv, ImagesInv, [Next]_vars
               PROVE  ImagesInv'
    OBVIOUS
  <1> USE DEF Shape, Counters, Records, IsDisk, Untouched, FlowInv, ImagesInv, Resident,
              verifyManifestCoversSeed, Entries, Checks, Writing, Images, Publishing, OnDisk,
              Installed, Disconnected, Connected, SelfContained, world
  <1>1. CASE Boot
    BY <1>1 DEF Boot
  <1>2. CASE mountStatusPartition
    BY <1>2 DEF mountStatusPartition, At, Fault, NoFault, Preflight
  <1>3. CASE guardReentry
    BY <1>3 DEF guardReentry, At, Fault, NoFault, writeResult
  <1>4. CASE mountLocalImages
    BY <1>4 DEF mountLocalImages, Proceed, Abort, Fault, NoFault, Preflight, At
  <1>5. CASE validateManifest
    BY <1>5 DEF validateManifest, Proceed, Abort, Fault, NoFault, Preflight, At
  <1>6. CASE preflightSeedOSTree
    BY <1>6 DEF preflightSeedOSTree, Proceed, Abort, Fault, NoFault, Preflight, At
  <1>7. CASE setupPrepareAuthFile
    BY <1>7 DEF setupPrepareAuthFile, At, Fault, NoFault, Abort, Preflight
  <1>8. CASE cleanupDisk
    BY <1>8 DEF cleanupDisk, At, Fault, NoFault, Installing
  <1>9. CASE writeImage
    BY <1>9 DEF writeImage, At, Fault, NoFault, Abort, Installing
  <1>10. CASE createPartition
    BY <1>10 DEF createPartition, At, Proceed, Abort, Fault, NoFault, Installing
  <1>11. CASE acquireSeed
    BY <1>11 DEF acquireSeed, At, Proceed, Abort, Fault, NoFault, Installing
  <1>12. CASE SetupStateroot
    BY <1>12 DEF SetupStateroot, At, Proceed, Abort, Fault, NoFault, Installing, PinsHonest
  <1>13. CASE importClosure
    BY <1>13, ImportPins DEF importClosure, At, Proceed, Abort, Fault, NoFault, Installing
  <1>14. CASE precacheFlow
    <2>1. Disconnected => ~config.precacheDisabled
      BY UsbPrecaches
    <2>2. step = "precache" /\ (Disconnected => disk' = disk /\ step' \in {"verify", "write"})
      BY <1>14, <2>1 DEF precacheFlow, At, Proceed, Abort
    <2>3. Disconnected => (step' = "verify" => verifyManifestCoversSeed) /\ (step' = "write" => err')
      BY <1>14, <2>1 DEF precacheFlow, Proceed, Abort
    <2>4. UNCHANGED <<config, media, signal, pending>>
      BY <1>14 DEF precacheFlow, Installing
    <2> QED BY <2>2, <2>3, <2>4
  <1>15. CASE verifyImportedClosure
    BY <1>15, VerifiedIsResident DEF verifyImportedClosure, At, Proceed, Abort, Fault, NoFault,
       Installing
  <1>16. CASE postDeployment
    BY <1>16 DEF postDeployment, At, Proceed, Abort, Fault, NoFault, Installing
  <1>17. CASE cleanupRhcosSysroot
    BY <1>17 DEF cleanupRhcosSysroot, At, Proceed, Abort, Fault, NoFault, Installing
  <1>18. CASE persistReadOnlyStore
    BY <1>18 DEF persistReadOnlyStore, At, Proceed, Abort, Fault, NoFault, Installing,
       validateSourceStore
  <1>19. CASE publishStore
    BY <1>19 DEF publishStore, At, Proceed, Abort, Fault, NoFault, Installing
  <1>20. CASE registerReadOnlyStore
    BY <1>20 DEF registerReadOnlyStore, At, Proceed, Abort, Fault, NoFault, Installing
  <1>21. CASE syncDisk
    BY <1>21 DEF syncDisk, At, Fault, NoFault, Abort, Installing
  <1>22. CASE unmountP2
    BY <1>22 DEF unmountP2, At, Proceed, Abort, Fault, NoFault, Installing
  <1>23. CASE writeResultPreservingSuccess
    BY <1>23 DEF writeResultPreservingSuccess, At, Fault, NoFault, writeResult, buildResult
  <1>24. CASE finalizeDisconnected
    BY <1>24 DEF finalizeDisconnected, At, Fault, NoFault
  <1>25. CASE shutdownNode
    BY <1>25 DEF shutdownNode, At, Fault, NoFault
  <1>26. CASE pivotReboot
    BY <1>26 DEF pivotReboot, At, Fault, NoFault
  <1>27. CASE GracePeriodOver
    BY <1>27 DEF GracePeriodOver, At
  <1>28. CASE markPivotFailed
    BY <1>28 DEF markPivotFailed, At, Fault, NoFault, writeResult
  <1>29. CASE haltPoweredOn
    BY <1>29 DEF haltPoweredOn, At, Fault, NoFault
  <1>30. CASE RebootTakes
    BY <1>30 DEF RebootTakes
  <1>31. CASE PowerLoss
    BY <1>31 DEF PowerLoss
  <1>32. CASE OperatorReset
    BY <1>32 DEF OperatorReset
  <1>33. CASE UNCHANGED vars
    BY <1>33 DEF vars
  <1> QED BY <1>1, <1>2, <1>3, <1>4, <1>5, <1>6, <1>7, <1>8, <1>9, <1>10, <1>11, <1>12, <1>13,
             <1>14, <1>15, <1>16, <1>17, <1>18, <1>19, <1>20, <1>21, <1>22, <1>23, <1>24, <1>25,
             <1>26, <1>27, <1>28, <1>29, <1>30, <1>31, <1>32, <1>33
           DEF Next, Prepare

\* The authfile.
LEMMA AuthStep == FlowInv /\ AuthInv /\ [Next]_vars => AuthInv'
  <1> SUFFICES ASSUME FlowInv, AuthInv, [Next]_vars
               PROVE  AuthInv'
    OBVIOUS
  <1> USE DEF FlowInv, AuthInv, Checks, Writing, Images, Publishing, OnDisk, Disconnected,
              Connected, SelfContained, world
  <1>1. CASE Boot
    BY <1>1 DEF Boot
  <1>2. CASE mountStatusPartition
    BY <1>2 DEF mountStatusPartition, At, Fault, NoFault, Preflight
  <1>3. CASE guardReentry
    BY <1>3 DEF guardReentry, At, Fault, NoFault, writeResult
  <1>4. CASE mountLocalImages
    BY <1>4 DEF mountLocalImages, Proceed, Abort, Fault, NoFault, Preflight, At
  <1>5. CASE validateManifest
    BY <1>5 DEF validateManifest, Proceed, Abort, Fault, NoFault, Preflight, At
  <1>6. CASE preflightSeedOSTree
    BY <1>6 DEF preflightSeedOSTree, Proceed, Abort, Fault, NoFault, Preflight, At
  <1>7. CASE setupPrepareAuthFile
    BY <1>7 DEF setupPrepareAuthFile, At, Fault, NoFault, Abort, Preflight
  <1>8. CASE cleanupDisk
    BY <1>8 DEF cleanupDisk, At, Fault, NoFault, Installing
  <1>9. CASE writeImage
    BY <1>9 DEF writeImage, At, Fault, NoFault, Abort, Installing
  <1>10. CASE createPartition
    BY <1>10 DEF createPartition, At, Proceed, Abort, Fault, NoFault, Installing
  <1>11. CASE acquireSeed
    BY <1>11 DEF acquireSeed, At, Proceed, Abort, Fault, NoFault, Installing
  <1>12. CASE SetupStateroot
    BY <1>12 DEF SetupStateroot, At, Proceed, Abort, Fault, NoFault, Installing
  <1>13. CASE importClosure
    BY <1>13 DEF importClosure, At, Proceed, Abort, Fault, NoFault, Installing
  <1>14. CASE precacheFlow
    BY <1>14 DEF precacheFlow, At, Proceed, Abort, Fault, NoFault, Installing
  <1>15. CASE verifyImportedClosure
    BY <1>15 DEF verifyImportedClosure, At, Proceed, Abort, Fault, NoFault, Installing
  <1>16. CASE postDeployment
    BY <1>16 DEF postDeployment, At, Proceed, Abort, Fault, NoFault, Installing
  <1>17. CASE cleanupRhcosSysroot
    BY <1>17 DEF cleanupRhcosSysroot, At, Proceed, Abort, Fault, NoFault, Installing
  <1>18. CASE persistReadOnlyStore
    BY <1>18 DEF persistReadOnlyStore, At, Proceed, Abort, Fault, NoFault, Installing,
       validateSourceStore
  <1>19. CASE publishStore
    BY <1>19 DEF publishStore, At, Proceed, Abort, Fault, NoFault, Installing
  <1>20. CASE registerReadOnlyStore
    BY <1>20 DEF registerReadOnlyStore, At, Proceed, Abort, Fault, NoFault, Installing
  <1>21. CASE syncDisk
    BY <1>21 DEF syncDisk, At, Fault, NoFault, Abort, Installing
  <1>22. CASE unmountP2
    BY <1>22 DEF unmountP2, At, Proceed, Abort, Fault, NoFault, Installing
  <1>23. CASE writeResultPreservingSuccess
    BY <1>23 DEF writeResultPreservingSuccess, At, Fault, NoFault, writeResult, buildResult
  <1>24. CASE finalizeDisconnected
    BY <1>24 DEF finalizeDisconnected, At, Fault, NoFault
  <1>25. CASE shutdownNode
    BY <1>25 DEF shutdownNode, At, Fault, NoFault
  <1>26. CASE pivotReboot
    BY <1>26 DEF pivotReboot, At, Fault, NoFault
  <1>27. CASE GracePeriodOver
    BY <1>27 DEF GracePeriodOver, At
  <1>28. CASE markPivotFailed
    BY <1>28 DEF markPivotFailed, At, Fault, NoFault, writeResult
  <1>29. CASE haltPoweredOn
    BY <1>29 DEF haltPoweredOn, At, Fault, NoFault
  <1>30. CASE RebootTakes
    BY <1>30 DEF RebootTakes
  <1>31. CASE PowerLoss
    BY <1>31 DEF PowerLoss
  <1>32. CASE OperatorReset
    BY <1>32 DEF OperatorReset
  <1>33. CASE UNCHANGED vars
    BY <1>33 DEF vars
  <1> QED BY <1>1, <1>2, <1>3, <1>4, <1>5, <1>6, <1>7, <1>8, <1>9, <1>10, <1>11, <1>12, <1>13,
             <1>14, <1>15, <1>16, <1>17, <1>18, <1>19, <1>20, <1>21, <1>22, <1>23, <1>24, <1>25,
             <1>26, <1>27, <1>28, <1>29, <1>30, <1>31, <1>32, <1>33
           DEF Next, Prepare

\* The record decides and stays: one step.
LEMMA RecordRespectedStep == Shape /\ FlowInv /\ RecordInv /\ [Next]_vars => NoWipeOverRecord /\ RecordKept
  <1> SUFFICES ASSUME Shape, FlowInv, RecordInv, [Next]_vars
               PROVE  NoWipeOverRecord /\ RecordKept
    OBVIOUS
  <1> USE DEF Shape, Counters, Records, Results, PrepareResult, NoFile, Junk, FlowInv,
              RecordInv, NoWipeOverRecord, RecordKept, Checks, Writing, Images, Publishing,
              OnDisk, Disconnected, Connected, SelfContained, world
  <1>1. CASE Boot
    BY <1>1 DEF Boot
  <1>2. CASE mountStatusPartition
    BY <1>2 DEF mountStatusPartition, At, Fault, NoFault, Preflight
  <1>3. CASE guardReentry
    BY <1>3 DEF guardReentry, At, Fault, NoFault, writeResult
  <1>4. CASE mountLocalImages
    BY <1>4 DEF mountLocalImages, Proceed, Abort, Fault, NoFault, Preflight, At
  <1>5. CASE validateManifest
    BY <1>5 DEF validateManifest, Proceed, Abort, Fault, NoFault, Preflight, At
  <1>6. CASE preflightSeedOSTree
    BY <1>6 DEF preflightSeedOSTree, Proceed, Abort, Fault, NoFault, Preflight, At
  <1>7. CASE setupPrepareAuthFile
    BY <1>7 DEF setupPrepareAuthFile, At, Fault, NoFault, Abort, Preflight
  <1>8. CASE cleanupDisk
    BY <1>8 DEF cleanupDisk, At, Fault, NoFault, Installing
  <1>9. CASE writeImage
    BY <1>9 DEF writeImage, At, Fault, NoFault, Abort, Installing
  <1>10. CASE createPartition
    BY <1>10 DEF createPartition, At, Proceed, Abort, Fault, NoFault, Installing
  <1>11. CASE acquireSeed
    BY <1>11 DEF acquireSeed, At, Proceed, Abort, Fault, NoFault, Installing
  <1>12. CASE SetupStateroot
    BY <1>12 DEF SetupStateroot, At, Proceed, Abort, Fault, NoFault, Installing
  <1>13. CASE importClosure
    BY <1>13 DEF importClosure, At, Proceed, Abort, Fault, NoFault, Installing
  <1>14. CASE precacheFlow
    BY <1>14 DEF precacheFlow, At, Proceed, Abort, Fault, NoFault, Installing
  <1>15. CASE verifyImportedClosure
    BY <1>15 DEF verifyImportedClosure, At, Proceed, Abort, Fault, NoFault, Installing
  <1>16. CASE postDeployment
    BY <1>16 DEF postDeployment, At, Proceed, Abort, Fault, NoFault, Installing
  <1>17. CASE cleanupRhcosSysroot
    BY <1>17 DEF cleanupRhcosSysroot, At, Proceed, Abort, Fault, NoFault, Installing
  <1>18. CASE persistReadOnlyStore
    BY <1>18 DEF persistReadOnlyStore, At, Proceed, Abort, Fault, NoFault, Installing,
       validateSourceStore
  <1>19. CASE publishStore
    BY <1>19 DEF publishStore, At, Proceed, Abort, Fault, NoFault, Installing
  <1>20. CASE registerReadOnlyStore
    BY <1>20 DEF registerReadOnlyStore, At, Proceed, Abort, Fault, NoFault, Installing
  <1>21. CASE syncDisk
    BY <1>21 DEF syncDisk, At, Fault, NoFault, Abort, Installing
  <1>22. CASE unmountP2
    BY <1>22 DEF unmountP2, At, Proceed, Abort, Fault, NoFault, Installing
  <1>23. CASE writeResultPreservingSuccess
    BY <1>23 DEF writeResultPreservingSuccess, At, Fault, NoFault, writeResult, buildResult
  <1>24. CASE finalizeDisconnected
    BY <1>24 DEF finalizeDisconnected, At, Fault, NoFault
  <1>25. CASE shutdownNode
    BY <1>25 DEF shutdownNode, At, Fault, NoFault
  <1>26. CASE pivotReboot
    BY <1>26 DEF pivotReboot, At, Fault, NoFault
  <1>27. CASE GracePeriodOver
    BY <1>27 DEF GracePeriodOver, At
  <1>28. CASE markPivotFailed
    BY <1>28 DEF markPivotFailed, At, Fault, NoFault, writeResult
  <1>29. CASE haltPoweredOn
    BY <1>29 DEF haltPoweredOn, At, Fault, NoFault
  <1>30. CASE RebootTakes
    BY <1>30 DEF RebootTakes
  <1>31. CASE PowerLoss
    BY <1>31 DEF PowerLoss
  <1>32. CASE OperatorReset
    BY <1>32 DEF OperatorReset
  <1>33. CASE UNCHANGED vars
    BY <1>33 DEF vars
  <1> QED BY <1>1, <1>2, <1>3, <1>4, <1>5, <1>6, <1>7, <1>8, <1>9, <1>10, <1>11, <1>12, <1>13,
             <1>14, <1>15, <1>16, <1>17, <1>18, <1>19, <1>20, <1>21, <1>22, <1>23, <1>24, <1>25,
             <1>26, <1>27, <1>28, <1>29, <1>30, <1>31, <1>32, <1>33
           DEF Next, Prepare

-----------------------------------------------------------------------------
(* The theorems. *)

\* The invariant holds at the start.
LEMMA InitInv == Init => Inv
  <1> SUFFICES ASSUME Init
               PROVE  Inv
    OBVIOUS
  <1> USE DEF Init, Untouched, Checks, Writing, Images, Publishing, OnDisk, Installed
  <1>1. Shape
    BY DEF Shape, Counters, Records, Results, IsDisk
  <1>2. FlowInv /\ RecordInv
    BY DEF FlowInv, RecordInv, NoFile, Junk
  <1>3. DiskInv
    BY DEF DiskInv, DropInHasStore
  <1>4. MediaInv /\ ImagesInv
    BY DEF MediaInv, ImagesInv, BadMediaKeepsDisk
  <1>5. AuthInv
    BY DEF AuthInv
  <1> QED BY <1>1, <1>2, <1>3, <1>4, <1>5 DEF Inv

\* It holds in every state of every behaviour, whatever the fairness.
LEMMA Invariance == Spec => []Inv
  <1>1. Inv /\ [Next]_vars => Inv'
    BY CountersStep, RecordsStep, IsDiskStep, FlowStep, RecordStep, DiskStep, MediaStep,
       ImagesStep, AuthStep DEF Inv, Shape
  <1> QED BY <1>1, InitInv, PTL DEF Spec

\* What the prepare phase signals is true and what fails does no harm, for every
\* configuration that create-usb or a connected user writes, every medium, and
\* any number of failures, power losses, boots and resets: the node goes off or
\* pivots only over a complete disk on stable storage with every image of the
\* seed (finalizeDisconnected, VerifyAll), and a bad medium leaves the disk, a
\* failing publication leaves CRI-O, and every end leaves the operator's authfile
\* as it was (preparePreReqs, rollbackPublish, setupPrepareAuthFile).
THEOREM InstallIsSafe == Spec => []InstallSafe
  <1>1. ASSUME Inv
        PROVE  InstallSafe
    <2> USE <1>1 DEF Inv
    <2>1. SignalHonest
      BY DEF SignalHonest, DiskInv, RecordInv, Installed, Disconnected, Connected, SelfContained
    <2>2. ImagesResident
      BY DEF ImagesResident, ImagesInv, Resident, Installed
    <2>3. BadMediaKeepsDisk
      BY DEF MediaInv, BadMediaKeepsDisk
    <2>4. DropInHasStore
      BY DEF DiskInv
    <2>5. AuthKept
      BY DEF AuthInv, AuthKept, OnDisk, Writing, Images, Publishing
    <2> QED BY <2>1, <2>2, <2>3, <2>4, <2>5 DEF InstallSafe, SuccessHonest, HostSafe
  <1> QED BY <1>1, Invariance, PTL

\* No step cleans or rewrites the disk over a record, and no step but the
\* technician's reset changes the verdict of one (guardReentry,
\* writeResultPreservingSuccess, markPivotFailed).
THEOREM RecordIsRespected == Spec => RecordRespected
  <1>1. Inv /\ [Next]_vars => [NoWipeOverRecord /\ RecordKept]_vars
    BY RecordRespectedStep DEF Inv
  <1> QED BY <1>1, Invariance, PTL DEF Spec, RecordRespected
=============================================================================
