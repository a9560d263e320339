----------------------------- MODULE USBImage -----------------------------
(***************************************************************************)
(* The image of the USB medium (lca-cli create-usb,                        *)
(* createusb_assemble.go): the live ISO at the front, the data partitions  *)
(* after it, their contents, and what is undone when a step fails.         *)
(* Several builds may have the same --output.  The payload that is staged  *)
(* is USBLayout's; here a build has it or fails.                           *)
(*                                                                         *)
(* Sizes are in units of which Mib make a mebibyte.                        *)
(***************************************************************************)
EXTENDS Integers, Sequences, FiniteSets

CONSTANTS
    Builds,       \* builds with the same --output
    Modes,        \* of {"install-only", "self-contained"}
    Mib,          \* units in a mebibyte
    ISOs,         \* live ISOs: size and the four entries of the MBR
    Payloads,     \* sizes of the staged tree
    USBSizes,     \* values of --usb-size, 0 for none
    MaxFaults,    \* bound on failing steps
    MaxCrashes,   \* bound on processes that die
    MaxPower,     \* bound on power losses
    MaxRemovals   \* bound on images the operator removes

BoundsAssumption ==
    /\ Modes \subseteq {"install-only", "self-contained"} /\ Mib \in Nat \ {0}
    /\ Payloads \subseteq Nat /\ USBSizes \subseteq Nat
    /\ MaxFaults \in Nat /\ MaxCrashes \in Nat /\ MaxPower \in Nat /\ MaxRemovals \in Nat

VARIABLES
    mode, iso, payload, usbSize,  \* what each build is given
    pc, err,      \* of each build: where it is and why it fails
    image,        \* the file at --output
    loop,         \* builds whose loop device is attached
    mounted,      \* the partition each build has mounted
    faults, crashes, power, removals

inputs == <<mode, iso, payload, usbSize>>
vars == <<inputs, pc, err, image, loop, mounted, faults, crashes, power, removals>>

Nobody == "nobody"
NoImage == [by |-> Nobody, size |-> 0, isoSize |-> 0, table |-> <<>>, filled |-> {}, durable |-> TRUE]

Ended == {"done", "failed", "crashed"}
Running(b) == pc[b] \notin Ended \cup {"none"}
Mine(b) == image.by = b

(***************************************************************************)
(* Sizes and the partition table.                                          *)
(***************************************************************************)
alignUpToMiB(v) == ((v + Mib - 1) \div Mib) * Mib

p2Min == 8192 * Mib
p3Size == 256 * Mib
p4Size == 64 * Mib
metadataOverhead == 256 * Mib
slack == 64 * Mib
extSlack == 16 * Mib

sizeIBIImagesPartition(p) ==
    LET sized == alignUpToMiB((p * 110) \div 100 + metadataOverhead)
    IN  IF sized < p2Min THEN p2Min ELSE sized

\* The data partitions, in the order they are made.
partitionPlan(b) ==
    <<[label |-> "ibi-images", size |-> sizeIBIImagesPartition(payload[b])]>>
    \o (IF mode[b] = "self-contained" THEN <<[label |-> "cluster-config", size |-> p3Size]>> ELSE <<>>)
    \o <<[label |-> "ibi-status", size |-> p4Size]>>

containerSize(b) ==
    alignUpToMiB(alignUpToMiB(iso[b].size) + sizeIBIImagesPartition(payload[b]) + p4Size
                 + (IF mode[b] = "self-contained" THEN p3Size + extSlack ELSE 0) + slack)

\* inspectISOMBR: an entry is free only if all of it is cleared.
Occupied(i) == {e \in 1 .. 4 : i.mbr[e] # [type |-> 0, start |-> 0, count |-> 0]}
MaxEnd(i) ==
    LET ends == {i.mbr[e].start + i.mbr[e].count : e \in Occupied(i)} \cup {0}
    IN  CHOOSE m \in ends : \A x \in ends : x <= m

validateISOLayout(b) ==
    /\ 4 - Cardinality(Occupied(iso[b])) >= 2
    /\ MaxEnd(iso[b]) <= alignUpToMiB(iso[b].size)

validateUSBSizeBudget(b) == usbSize[b] = 0 \/ containerSize(b) <= usbSize[b]

\* sfdisk --append puts a partition without a start at the next mebibyte
\* after the last one; each logical partition has a mebibyte before it for
\* its own record.  The script fixes the start of the first.
Part(label, start, size) == [label |-> label, start |-> start, size |-> size]
AppendedAt(b, first) ==
    LET images == sizeIBIImagesPartition(payload[b])
        second == alignUpToMiB(first + images)
        config == second + Mib
        status == alignUpToMiB(config + p3Size) + Mib
    IN  IF mode[b] = "self-contained"
        THEN <<Part("ibi-images", first, images), Part("cluster-config", config, p3Size),
               Part("ibi-status", status, p4Size)>>
        ELSE <<Part("ibi-images", first, images), Part("ibi-status", second, p4Size)>>
ExtendedEnd(b, first) == alignUpToMiB(first + sizeIBIImagesPartition(payload[b])) + p3Size + p4Size + extSlack

sfdiskAppendScript(b) == AppendedAt(b, alignUpToMiB(iso[b].size))

(***************************************************************************)
(* A build.                                                                *)
(***************************************************************************)
Init ==
    /\ mode \in [Builds -> Modes] /\ iso \in [Builds -> ISOs]
    /\ payload \in [Builds -> Payloads] /\ usbSize \in [Builds -> USBSizes]
    /\ pc = [b \in Builds |-> "none"] /\ err = [b \in Builds |-> "none"]
    /\ image = NoImage /\ loop = {} /\ mounted = [b \in Builds |-> "none"]
    /\ faults = 0 /\ crashes = 0 /\ power = 0 /\ removals = 0

Fault == faults < MaxFaults /\ faults' = faults + 1
Goto(b, l) == pc' = [pc EXCEPT ![b] = l]
Because(b, e) == err' = [err EXCEPT ![b] = e]
Quiet == UNCHANGED <<inputs, crashes, power, removals>>

\* An error before the image is made ends the build, one after it starts the
\* deferred rollback.
Stop(b) == Goto(b, "failed") /\ Because(b, "error")
Undo(b) == Goto(b, "rollback") /\ Because(b, "error")

\* build: the live ISO.
BuildLiveISO(b) ==
    /\ pc[b] = "none"
    /\ \/ Goto(b, "check") /\ UNCHANGED <<err, faults>>
       \/ Fault /\ Stop(b)
    /\ UNCHANGED <<image, loop, mounted>> /\ Quiet

\* ensureOutputAbsent and validateISOLayout, before the payload is staged.
CheckOutput(b) ==
    /\ pc[b] = "check"
    /\ \/ image = NoImage /\ validateISOLayout(b) /\ Goto(b, "stage") /\ UNCHANGED <<err, faults>>
       \/ (image # NoImage \/ ~validateISOLayout(b)) /\ Stop(b) /\ UNCHANGED faults
       \/ Fault /\ Stop(b)
    /\ UNCHANGED <<image, loop, mounted>> /\ Quiet

\* stageIBIImagesPayload, and the budget for what it has measured.
StagePayload(b) ==
    /\ pc[b] = "stage"
    /\ \/ validateUSBSizeBudget(b) /\ Goto(b, "create") /\ UNCHANGED <<err, faults>>
       \/ ~validateUSBSizeBudget(b) /\ Stop(b) /\ UNCHANGED faults
       \/ Fault /\ Stop(b)
    /\ UNCHANGED <<image, loop, mounted>> /\ Quiet

NewImage(b) == [NoImage EXCEPT !.by = b, !.durable = FALSE]

\* writeLiveISOToFront creates the file exclusively ...
CreateImage(b) ==
    /\ pc[b] = "create"
    /\ \/ image = NoImage /\ image' = NewImage(b) /\ Goto(b, "copyISO") /\ UNCHANGED <<err, faults>>
       \/ image # NoImage /\ Stop(b) /\ UNCHANGED <<image, faults>>
       \/ Fault /\ Stop(b) /\ UNCHANGED image
    /\ UNCHANGED <<loop, mounted>> /\ Quiet

\* ... copies the ISO, grows the file and syncs it, and removes it if that
\* fails, unless that fails as well.
CopyISO(b) ==
    /\ pc[b] = "copyISO"
    /\ \/ image' = [image EXCEPT !.isoSize = iso[b].size, !.size = containerSize(b)]
          /\ Goto(b, "attach") /\ UNCHANGED <<err, faults>>
       \/ Fault /\ Stop(b) /\ image' = NoImage
       \/ Fault /\ Goto(b, "failed") /\ Because(b, "remove") /\ UNCHANGED image
    /\ UNCHANGED <<loop, mounted>> /\ Quiet

AttachLoopback(b) ==
    /\ pc[b] = "attach"
    /\ \/ loop' = loop \cup {b} /\ Goto(b, "append") /\ UNCHANGED <<err, faults>>
       \/ Fault /\ Undo(b) /\ UNCHANGED loop
    /\ UNCHANGED <<image, mounted>> /\ Quiet

\* SnapshotPartitions, AppendDataPartitions and formatDataPartitions.
AppendAndFormat(b) ==
    /\ pc[b] = "append"
    /\ \/ image' = [image EXCEPT !.table = sfdiskAppendScript(b), !.filled = {"ibi-status"}]
          /\ Goto(b, "mountImages") /\ UNCHANGED <<err, faults>>
       \/ Fault /\ Undo(b) /\ UNCHANGED image
    /\ UNCHANGED <<loop, mounted>> /\ Quiet

\* copyStagedIBIImages and populateClusterConfig are alike: mount, copy, and
\* unmount whatever the copy did.
Mount(b, at, part, next) ==
    /\ pc[b] = at
    /\ \/ mounted' = [mounted EXCEPT ![b] = part] /\ Goto(b, next) /\ UNCHANGED <<err, faults>>
       \/ Fault /\ Undo(b) /\ UNCHANGED mounted
    /\ UNCHANGED <<image, loop>> /\ Quiet

Copy(b, at, part, next) ==
    /\ pc[b] = at /\ Goto(b, next)
    /\ \/ image' = [image EXCEPT !.filled = @ \cup {part}] /\ UNCHANGED <<err, faults>>
       \/ Fault /\ Because(b, "error") /\ UNCHANGED image
    /\ UNCHANGED <<loop, mounted>> /\ Quiet

\* errP2Mounted and errP3Mounted: the rollback leaves everything as it is.
Unmount(b, at, next) ==
    /\ pc[b] = at
    /\ \/ mounted' = [mounted EXCEPT ![b] = "none"]
          /\ Goto(b, IF err[b] = "none" THEN next ELSE "rollback") /\ UNCHANGED <<err, faults>>
       \/ Fault /\ Goto(b, "failed") /\ Because(b, "mounted") /\ UNCHANGED mounted
    /\ UNCHANGED <<image, loop>> /\ Quiet

AfterImages(b) == IF mode[b] = "self-contained" THEN "mountConfig" ELSE "detach"

copyStagedIBIImages(b) ==
    \/ Mount(b, "mountImages", "ibi-images", "copyImages")
    \/ Copy(b, "copyImages", "ibi-images", "umountImages")
    \/ Unmount(b, "umountImages", AfterImages(b))

populateClusterConfig(b) ==
    \/ Mount(b, "mountConfig", "cluster-config", "copyConfig")
    \/ Copy(b, "copyConfig", "cluster-config", "umountConfig")
    \/ Unmount(b, "umountConfig", "detach")

Finalize_unsynced(b) ==
    \/ /\ pc[b] = "detach"
       /\ \/ loop' = loop \ {b} /\ Goto(b, "done") /\ UNCHANGED <<err, faults>>
          \/ Fault /\ Goto(b, "failed") /\ Because(b, "finalize") /\ UNCHANGED loop
       /\ UNCHANGED <<image, mounted>> /\ Quiet

\* Finalize: the loop device is detached and the image synced; an error
\* leaves the image.
Finalize(b) ==
    \/ /\ pc[b] = "detach"
       /\ \/ loop' = loop \ {b} /\ Goto(b, "sync") /\ UNCHANGED <<err, faults>>
          \/ Fault /\ Goto(b, "failed") /\ Because(b, "finalize") /\ UNCHANGED loop
       /\ UNCHANGED <<image, mounted>> /\ Quiet
    \/ /\ pc[b] = "sync"
       /\ \/ image' = [image EXCEPT !.durable = TRUE] /\ Goto(b, "done") /\ UNCHANGED <<err, faults>>
          \/ Fault /\ Goto(b, "failed") /\ Because(b, "finalize") /\ UNCHANGED image
       /\ UNCHANGED <<loop, mounted>> /\ Quiet

\* The deferred rollback: detach, or keep everything if that fails; then
\* remove the image, which is only logged if it fails.
Rollback(b) ==
    /\ pc[b] = "rollback"
    /\ \/ b \in loop /\ loop' = loop \ {b} /\ UNCHANGED <<pc, err, image, faults>>
       \/ b \in loop /\ Fault /\ Goto(b, "failed") /\ Because(b, "detach") /\ UNCHANGED <<image, loop>>
       \/ b \notin loop /\ Goto(b, "failed") /\ image' = NoImage /\ UNCHANGED <<err, loop, faults>>
       \/ b \notin loop /\ Fault /\ Goto(b, "failed") /\ Because(b, "remove") /\ UNCHANGED <<image, loop>>
    /\ UNCHANGED mounted /\ Quiet

(***************************************************************************)
(* The environment.                                                        *)
(***************************************************************************)
Crash(b) ==
    /\ Running(b) /\ crashes < MaxCrashes /\ crashes' = crashes + 1 /\ Goto(b, "crashed")
    /\ UNCHANGED <<inputs, err, image, loop, mounted, faults, power, removals>>

\* What was not synced may be lost.
PowerLoss ==
    /\ power < MaxPower /\ power' = power + 1
    /\ image' \in IF image.durable THEN {image} ELSE {image, NewImage(image.by), NoImage}
    /\ loop' = {} /\ mounted' = [b \in Builds |-> "none"]
    /\ pc' = [b \in Builds |-> IF Running(b) THEN "crashed" ELSE pc[b]]
    /\ UNCHANGED <<inputs, err, faults, crashes, removals>>

\* The operator removes the image of a build that is over, to use the path
\* again, after unmounting and detaching what it has left.
OperatorRemoves ==
    /\ image # NoImage /\ pc[image.by] \in Ended /\ removals < MaxRemovals /\ removals' = removals + 1
    /\ image' = NoImage /\ loop' = loop \ {image.by} /\ mounted' = [mounted EXCEPT ![image.by] = "none"]
    /\ UNCHANGED <<inputs, pc, err, faults, crashes, power>>

Step(b) ==
    \/ BuildLiveISO(b) \/ CheckOutput(b) \/ StagePayload(b) \/ CreateImage(b) \/ CopyISO(b)
    \/ AttachLoopback(b) \/ AppendAndFormat(b) \/ copyStagedIBIImages(b) \/ populateClusterConfig(b)
    \/ Finalize(b) \/ Rollback(b)

Next ==
    \/ \E b \in Builds : Step(b)
    \/ \E b \in Builds : Crash(b)
    \/ PowerLoss
    \/ OperatorRemoves

Spec == Init /\ [][Next]_vars
----------------------------------------------------------------------------
Complete(b) ==
    /\ Mine(b) /\ image.isoSize = iso[b].size
    /\ image.filled = {image.table[k].label : k \in 1 .. Len(image.table)}
    /\ Len(image.table) = Len(partitionPlan(b))

TypeOK ==
    /\ image.by \in Builds \cup {Nobody} /\ loop \subseteq Builds
    /\ mounted \in [Builds -> {"none", "ibi-images", "cluster-config"}]
    /\ err \in [Builds -> {"none", "error", "mounted", "detach", "remove", "finalize"}]
    /\ \A b \in Builds : pc[b] = "done" => err[b] = "none"

(* The image of a build that has succeeded is all there, even after a power
   loss, and its loop device is free (assembleMedia, Finalize). *)
SuccessMeansComplete ==
    \A b \in Builds : pc[b] = "done" => b \notin loop /\ mounted[b] = "none" /\ (Mine(b) => Complete(b))

(* A file that a build finds at --output is never changed or removed by it,
   whenever the other one has made it (ensureOutputAbsent,
   writeLiveISOToFront, the deferred rollback). *)
OthersImageKept ==
    \A b \in Builds : pc'[b] # pc[b] /\ power' = power /\ image # NoImage /\ ~Mine(b) => image' = image

(* As long as a partition is mounted, its loop device is attached and the
   image is there (errP2Mounted, errP3Mounted). *)
MountedKept == \A b \in Builds : mounted[b] # "none" => b \in loop /\ Mine(b)

(* A build that fails takes its unfinished image away, unless something of
   it is in use or cannot be removed (the deferred rollback,
   writeLiveISOToFront). *)
FailedRemoved ==
    \A b \in Builds : pc[b] = "failed" /\ Mine(b) /\ ~Complete(b) => b \in loop \/ err[b] = "remove" \/ power > 0

(* The only failure that leaves an image is that cluster-config could not
   be unmounted (assembleMedia). *)
FailedLeavesNoImage ==
    \A b \in Builds : pc[b] = "failed" /\ Mine(b) /\ err[b] # "finalize" => mounted[b] = "cluster-config"

(* The data partitions are behind the ISO and its partitions, in front of
   the end of the image and of one another, the logical ones inside the
   extended partition, and the image is as small as --usb-size says
   (containerSize, validateISOLayout, sfdiskAppendScript). *)
PartitionsFit ==
    LET t == image.table IN
    t # <<>> =>
        LET b == image.by IN
        /\ t[1].start >= image.isoSize /\ t[1].start >= MaxEnd(iso[b])
        /\ \A k \in 1 .. Len(t) - 1 : t[k].start + t[k].size <= t[k + 1].start
        /\ t[Len(t)].start + t[Len(t)].size <= image.size
        /\ mode[b] = "self-contained" =>
              /\ t[Len(t)].start + t[Len(t)].size <= ExtendedEnd(b, t[1].start)
              /\ ExtendedEnd(b, t[1].start) <= image.size
        /\ usbSize[b] # 0 => image.size <= usbSize[b]
        /\ t[1].size >= payload[b]

(* The image at --output is what its build says it is, through every step:
   the statements above together. *)
ImageSound ==
    [][/\ OthersImageKept
       /\ SuccessMeansComplete' /\ MountedKept' /\ FailedRemoved' /\ PartitionsFit']_vars
=============================================================================
