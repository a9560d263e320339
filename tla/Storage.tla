------------------------------ MODULE Storage ------------------------------
(***************************************************************************)
(* Making room in the container storage at the start of Prep:              *)
(* containerStorageCleanup of the prep handlers and internal/imagemgmt.    *)
(*                                                                         *)
(* The images that are in use and those that are pinned are listed one     *)
(* after the other, then the images; containers start and stop meanwhile.  *)
(* Images are removed in batches until the usage is below the threshold.   *)
(* Images are numbers, in the order in which podman lists them.            *)
(***************************************************************************)
EXTENDS Naturals, Sequences, FiniteSets, SequencesExt

CONSTANTS
    Images,
    Created,      \* image -> time
    Batch,        \* images removed at a time (5)
    Blocks,       \* size of the file system; an image takes one block
    OtherBlocks,  \* blocks taken by everything else
    Thresholds,   \* values of the annotation, and the default
    MaxEvents,    \* bound on what happens to images meanwhile
    MaxFaults     \* bound on failing commands

StorageAssumption ==
    /\ Images \subseteq Nat /\ Created \in [Images -> Nat]
    /\ Batch \in Nat \ {0} /\ Blocks \in Nat \ {0}
    /\ MaxEvents \in Nat /\ MaxFaults \in Nat

Disabled == 1000     \* the annotation disables the cleanup, or is no number

VARIABLES
    threshold,    \* in percent
    dangling,     \* images without a name
    present,      \* images in the storage
    inUse,        \* images with a container of CRI-O or podman
    pinned,       \* images pinned in CRI-O
    late,         \* those pinned since the cleanup asked for them (history)
    pc,
    usedSeen, pinnedSeen, \* the answers to the first two questions
    candidates,   \* images to remove, in order
    idx,          \* how many of them have been looked at
    toRemove,     \* the batch
    refused,      \* images podman would not remove (history)
    events, faults

world == <<threshold, dangling>>
pins == <<pinned, late>>
listing == <<usedSeen, pinnedSeen, candidates>>
vars == <<world, present, inUse, pins, pc, listing, idx, toRemove, refused, events, faults>>

Used == OtherBlocks + Cardinality(present)

\* CheckDiskUsageAgainstThreshold: the percentage is rounded down.
Exceeded == (Used * 100) \div Blocks > threshold

Init ==
    /\ threshold \in Thresholds /\ dangling \in SUBSET Images
    /\ present = Images /\ inUse \in SUBSET Images /\ pinned \in SUBSET Images /\ late = {}
    /\ pc = "check" /\ usedSeen = {} /\ pinnedSeen = {} /\ candidates = <<>>
    /\ idx = 0 /\ toRemove = {} /\ refused = {}
    /\ events = 0 /\ faults = 0

Fault == faults < MaxFaults /\ faults' = faults + 1

containerStorageCleanup ==
    /\ pc = "check"
    /\ pc' = IF threshold # Disabled /\ Exceeded THEN "inUse" ELSE "done"
    /\ UNCHANGED <<world, present, inUse, pins, listing, idx, toRemove, refused, events, faults>>

GetInuseImages ==
    /\ pc = "inUse" /\ pc' = "pinned" /\ usedSeen' = inUse
    /\ UNCHANGED <<world, present, inUse, pins, pinnedSeen, candidates, idx, toRemove, refused, events, faults>>

\* Mutant: pinned images are those that are in use.
GetPinnedImages_used ==
    /\ pc = "pinned" /\ pc' = "images" /\ pinnedSeen' = pinned \cap inUse /\ late' = {}
    /\ UNCHANGED <<world, present, inUse, pinned, usedSeen, candidates, idx, toRemove, refused, events, faults>>

GetPinnedImages ==
    /\ pc = "pinned" /\ pc' = "images" /\ pinnedSeen' = pinned /\ late' = {}
    /\ UNCHANGED <<world, present, inUse, pinned, usedSeen, candidates, idx, toRemove, refused, events, faults>>

\* Dangling images first, then by age; the sort is stable.
Older(i, j) ==
    IF (i \in dangling) # (j \in dangling) THEN i \in dangling
    ELSE Created[i] < Created[j] \/ (Created[i] = Created[j] /\ i < j)

GetRemovalCandidates ==
    /\ pc = "images" /\ pc' = "remove"
    /\ candidates' = SelectSeq(SetToSortSeq(present, Older), LAMBDA i : i \notin usedSeen \cup pinnedSeen)
    /\ idx' = 0 /\ toRemove' = {}
    /\ UNCHANGED <<world, present, inUse, pins, usedSeen, pinnedSeen, refused, events, faults>>

BatchFull == idx % Batch = Batch - 1 \/ idx = Len(candidates) - 1

\* CleanupUnusedImages.  podman refuses images that a container uses, and
\* may refuse others; its errors are ignored.
RemoveImage ==
    /\ pc = "remove" /\ idx < Len(candidates)
    /\ LET batch == toRemove \cup {candidates[idx + 1]} IN
       IF BatchFull
       THEN \E kept \in SUBSET batch :
               /\ batch \cap inUse \subseteq kept
               /\ IF kept = batch \cap inUse THEN UNCHANGED faults ELSE Fault
               /\ present' = present \ (batch \ kept)
               /\ refused' = refused \cup kept
               /\ toRemove' = {} /\ pc' = "usage"
       ELSE toRemove' = batch /\ UNCHANGED <<present, refused, faults, pc>>
    /\ idx' = idx + 1
    /\ UNCHANGED <<world, inUse, pins, listing, events>>

CheckUsage ==
    /\ pc = "usage"
    /\ pc' = IF Exceeded /\ idx < Len(candidates) THEN "remove" ELSE "done"
    /\ UNCHANGED <<world, present, inUse, pins, listing, idx, toRemove, refused, events, faults>>

\* Nothing, or nothing more, to remove: Prep goes on all the same.
NothingLeft ==
    /\ pc = "remove" /\ idx = Len(candidates) /\ pc' = "done"
    /\ UNCHANGED <<world, present, inUse, pins, listing, idx, toRemove, refused, events, faults>>

\* A command, or the look at the file system, fails: Prep starts over.
CommandFails ==
    /\ pc \in {"check", "inUse", "pinned", "images", "usage"} /\ Fault /\ pc' = "check"
    /\ UNCHANGED <<world, present, inUse, pins, listing, idx, toRemove, refused, events>>

Event == events < MaxEvents /\ events' = events + 1

ContainerStarts(i) ==
    /\ Event /\ i \in present \ inUse /\ inUse' = inUse \cup {i}
    /\ UNCHANGED <<world, present, pins, pc, listing, idx, toRemove, refused, faults>>

ContainerGone(i) ==
    /\ Event /\ i \in inUse /\ inUse' = inUse \ {i}
    /\ UNCHANGED <<world, present, pins, pc, listing, idx, toRemove, refused, faults>>

Pin(i) ==
    /\ Event /\ i \in present \ pinned /\ pinned' = pinned \cup {i}
    /\ late' = IF pc \in {"images", "remove", "usage"} THEN late \cup {i} ELSE late
    /\ UNCHANGED <<world, present, inUse, pc, listing, idx, toRemove, refused, faults>>

Cleanup ==
    \/ containerStorageCleanup \/ GetInuseImages \/ GetPinnedImages \/ GetRemovalCandidates
    \/ RemoveImage \/ CheckUsage \/ NothingLeft \/ CommandFails

Next == Cleanup \/ \E i \in Images : ContainerStarts(i) \/ ContainerGone(i) \/ Pin(i)

Spec == Init /\ [][Next]_vars
----------------------------------------------------------------------------
TypeOK ==
    /\ present \cup inUse \cup pinned \cup usedSeen \cup pinnedSeen \subseteq Images
    /\ Range(candidates) \subseteq Images /\ toRemove \cup refused \subseteq Images
    /\ idx \in 0 .. Len(candidates)
    /\ pc \in {"check", "inUse", "pinned", "images", "remove", "usage", "done"}

(* No image that is in use or pinned is removed, although containers start
   between the listing and the removal (GetRemovalCandidates,
   CleanupUnusedImages).  An image that is pinned after the cleanup has asked
   which ones are is the exception. *)
InUseKept == \A i \in present \ present' : i \notin inUse \cup (pinned \ late)

(* Dangling images go before others and old ones before new ones: when an
   image is removed, one that should go first and is kept was in use or
   pinned when asked for, or podman has refused it (GetRemovalCandidates). *)
GoesFirst(j, i) ==
    \/ j \in dangling /\ i \notin dangling
    \/ (j \in dangling <=> i \in dangling) /\ Created[j] < Created[i]

OldestFirst ==
    \A i \in present \ present', j \in present' :
        GoesFirst(j, i) => j \in usedSeen \cup pinnedSeen \cup refused'

(* No batch is removed while the usage is below the threshold
   (CleanupUnusedImages). *)
NoMoreThanNeeded == present' # present => (Used * 100) \div Blocks > threshold

(* When the usage stays above the threshold, nothing that could be removed
   is left, the last incomplete batch included (CleanupUnusedImages). *)
AllTried ==
    pc = "done" /\ threshold # Disabled /\ Exceeded =>
        present \subseteq usedSeen \cup pinnedSeen \cup refused

(* The cleanup removes what it should, in that order, and nothing else: the
   four statements above, of every step. *)
CleanupCareful == [][InUseKept /\ OldestFirst /\ NoMoreThanNeeded /\ AllTried']_vars
=============================================================================
