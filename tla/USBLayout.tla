---------------------------- MODULE USBLayout -----------------------------
(***************************************************************************)
(* The payload of the USB medium (lca-cli create-usb): the OCI layout with *)
(* its digest manifest (createusb_images.go, createusb_signatures.go), the *)
(* configuration whose image references are pinned to it                   *)
(* (createusb_p3_content.go) and the durability store made from it         *)
(* (createusb_p2_content.go), under one root directory that several builds *)
(* may share.                                                              *)
(*                                                                         *)
(* A build is named by the layout directory it makes, so the manifest and  *)
(* the store are named by the build whose images they hold.  The directory *)
(* is seen by the processes as it was written; what a power loss leaves of *)
(* it is what was synced, and any part of the rest.                        *)
(***************************************************************************)
EXTENDS Naturals, Sequences, FiniteSets

CONSTANTS
    Builds,       \* builds that are started against the root directory
    Images,       \* how many images a build mirrors; the last is --lca-image
    Tagged,       \* those whose reference is a tag, of 1 .. Images
    Signed,       \* the images, by what a tag points to, that carry signatures
    Modes,        \* of {"install-only", "self-contained"}
    MaxTag,       \* bound on the times the tags are moved
    MaxFaults,    \* bound on failing steps
    MaxCrashes,   \* bound on processes that die
    MaxPower      \* bound on power losses

ASSUME BoundsAssumption ==
    /\ Images \in Nat \ {0} /\ Tagged \subseteq 1 .. Images
    /\ Signed \subseteq 0 .. MaxTag + 1
    /\ Modes \subseteq {"install-only", "self-contained"}
    /\ MaxTag \in Nat /\ MaxFaults \in Nat /\ MaxCrashes \in Nat /\ MaxPower \in Nat

\* "nobody" stands for no build at all.
ASSUME BuildsAssumption == "nobody" \notin Builds

VARIABLES
    concurrent,   \* whether a build may start while another runs
    mode, pc,     \* of each build
    lock,         \* who holds the lock of the root directory
    tag,          \* what the tags point to in the registry
    bin,          \* the lca-cli that a build has extracted
    copied,       \* the image a build has copied last, before its signatures
    got, sigs,    \* images a build has mirrored, and whose signatures it has
    tries,        \* attempts at the present image
    pins,         \* what the references of the configuration are pinned to
    layout,       \* images in each layout directory
    manifest,     \* the layout that digests.json names
    from,         \* the manifest a build makes its store from
    staging,      \* of the stores: half made or whole
    store, backup,
    aside,        \* the build has moved a store aside
    named,        \* layout directories whose entry is durable
    synced,       \* those whose contents are
    dManifest,    \* the durable digests.json
    faults, crashes, power

mirror == <<bin, copied, got, sigs, tries, pins>>
stores == <<from, staging, store, backup, aside>>
disk == <<named, synced, dManifest>>
vars == <<concurrent, mode, pc, lock, tag, mirror, layout, manifest, stores, disk, faults, crashes, power>>

Nobody == "nobody"
Absent == Images + 1          \* no such directory
Unsigned == MaxTag + 2        \* no signatures
Nothing == [of |-> Nobody, whole |-> FALSE]

Ended == {"done", "failed", "crashed"}
Running(b) == pc[b] \notin Ended \cup {"none"}

Init ==
    /\ concurrent \in BOOLEAN
    /\ mode \in [Builds -> Modes] /\ pc = [b \in Builds |-> "none"]
    /\ lock = Nobody /\ tag = 1
    /\ bin = [b \in Builds |-> 0] /\ copied = [b \in Builds |-> 0]
    /\ got = [b \in Builds |-> <<>>] /\ sigs = [b \in Builds |-> <<>>]
    /\ tries = [b \in Builds |-> 1] /\ pins = [b \in Builds |-> <<>>]
    /\ layout = [b \in Builds |-> Absent] /\ manifest = Nobody
    /\ from = [b \in Builds |-> Nobody] /\ staging = [b \in Builds |-> Nothing]
    /\ store = Nothing /\ backup = Nothing /\ aside = [b \in Builds |-> FALSE]
    /\ named = {} /\ synced = {} /\ dManifest = Nobody
    /\ faults = 0 /\ crashes = 0 /\ power = 0

Fault == faults < MaxFaults /\ faults' = faults + 1
Goto(b, l) == pc' = [pc EXCEPT ![b] = l]
Quiet == UNCHANGED <<concurrent, mode, tag, crashes, power>>

\* What a reference stands for when it is read: a tag moves, a digest does not.
Resolved(i) == IF i \in Tagged THEN tag ELSE 0

(***************************************************************************)
(* The OCI layout.                                                         *)
(***************************************************************************)
\* build starts with the live ISO, for which it extracts lca-cli from
\* --lca-image.
BuildLiveISO(b) ==
    /\ pc[b] = "none" /\ (concurrent \/ \A c \in Builds : ~Running(c))
    /\ \/ bin' = [bin EXCEPT ![b] = Resolved(Images)] /\ Goto(b, "resolve") /\ UNCHANGED faults
       \/ Fault /\ Goto(b, "failed") /\ UNCHANGED bin
    /\ UNCHANGED <<lock, copied, got, sigs, tries, pins, layout, manifest, stores, disk>> /\ Quiet

\* RenderP3Tree, ScanMirrorResources and resolveImageSet, before the lock.
ResolveImages(b) ==
    /\ pc[b] = "resolve"
    /\ \/ Goto(b, "lock") /\ UNCHANGED faults
       \/ Fault /\ Goto(b, "failed")
    /\ UNCHANGED <<lock, mirror, layout, manifest, stores, disk>> /\ Quiet

LockP2Root_none(b) ==
    /\ pc[b] \in {"lock", "storeLock"}
    /\ lock' = b /\ Goto(b, IF pc[b] = "lock" THEN "mkdir" ELSE "parse")
    /\ UNCHANGED <<mirror, layout, manifest, stores, disk, faults>> /\ Quiet

LockP2Root(b) ==
    /\ pc[b] \in {"lock", "storeLock"} /\ lock = Nobody
    /\ lock' = b /\ Goto(b, IF pc[b] = "lock" THEN "mkdir" ELSE "parse")
    /\ UNCHANGED <<mirror, layout, manifest, stores, disk, faults>> /\ Quiet

\* An error before the commit: the new layout directory is removed, and the
\* lock released, by the deferred functions; the removal may fail as well.
GiveUpLayout(b) ==
    /\ Goto(b, "failed") /\ lock' = Nobody
    /\ layout' \in {layout, [layout EXCEPT ![b] = Absent]}

MakeLayout(b) ==
    /\ pc[b] = "mkdir"
    /\ \/ layout' = [layout EXCEPT ![b] = 0] /\ Goto(b, "copy") /\ UNCHANGED <<lock, faults>>
       \/ Fault /\ GiveUpLayout(b)
    /\ UNCHANGED <<mirror, manifest, stores, disk>> /\ Quiet

\* mirrorWithRetry: an attempt has failed.
MaxTries == 3
FailedAttempt(b, retryable) ==
    IF retryable /\ tries[b] < MaxTries
    THEN tries' = [tries EXCEPT ![b] = @ + 1] /\ Goto(b, "copy") /\ UNCHANGED <<lock, layout>>
    ELSE GiveUpLayout(b) /\ UNCHANGED tries

CopyIntoLayout(b) ==
    /\ pc[b] = "copy"
    /\ \/ copied' = [copied EXCEPT ![b] = Resolved(Len(got[b]) + 1)]
          /\ Goto(b, "signatures") /\ UNCHANGED <<lock, tries, layout, faults>>
       \/ Fault /\ UNCHANGED copied /\ \E retryable \in BOOLEAN : FailedAttempt(b, retryable)
    /\ UNCHANGED <<bin, got, sigs, pins, manifest, stores, disk>> /\ Quiet

Mirrored(b, digest) ==
    /\ got' = [got EXCEPT ![b] = Append(@, copied[b])]
    /\ sigs' = [sigs EXCEPT ![b] = Append(@, digest)]
    /\ layout' = [layout EXCEPT ![b] = Len(got'[b])]
    /\ tries' = [tries EXCEPT ![b] = 1]
    /\ Goto(b, IF Len(got'[b]) = Images THEN "verify" ELSE "copy")
    /\ UNCHANGED <<lock, faults>>

\* The image that the reference stands for when its signatures are read.
Reopened(b) == Resolved(Len(got[b]) + 1)

\* The source is opened again.  Signatures of a digest other than the one
\* that was copied fail the build; a source without signatures stages none,
\* whatever its digest.
CaptureSourceSignatures(b) ==
    /\ pc[b] = "signatures"
    /\ \/ Reopened(b) \notin Signed /\ Mirrored(b, Unsigned)
       \/ Reopened(b) \in Signed /\ Reopened(b) = copied[b] /\ Mirrored(b, Reopened(b))
       \/ /\ Reopened(b) \in Signed /\ Reopened(b) # copied[b]
          /\ FailedAttempt(b, FALSE) /\ UNCHANGED <<got, sigs, faults>>
       \/ Fault /\ UNCHANGED <<got, sigs>> /\ \E retryable \in BOOLEAN : FailedAttempt(b, retryable)
    /\ UNCHANGED <<bin, copied, pins, manifest, stores, disk>> /\ Quiet

\* verifyLayoutEntries, rewriteP3ImageReferences, validateDigestManifestBytes.
VerifyAndPin(b) ==
    /\ pc[b] = "verify"
    /\ \/ /\ pins' = IF mode[b] = "self-contained" THEN [pins EXCEPT ![b] = got[b]] ELSE pins
          /\ Goto(b, "syncTree") /\ UNCHANGED <<lock, layout, faults>>
       \/ Fault /\ GiveUpLayout(b) /\ UNCHANGED pins
    /\ UNCHANGED <<bin, copied, got, sigs, tries, manifest, stores, disk>> /\ Quiet

\* Mutant: an error leaves the lock taken.
SyncTree_leak(b) ==
    /\ pc[b] = "syncTree"
    /\ \/ synced' = synced \cup {b} /\ Goto(b, "syncRoot") /\ UNCHANGED faults
       \/ Fault /\ Goto(b, "failed") /\ UNCHANGED synced
    /\ UNCHANGED <<lock, mirror, layout, manifest, stores, named, dManifest>> /\ Quiet

SyncTree(b) ==
    /\ pc[b] = "syncTree"
    /\ \/ synced' = synced \cup {b} /\ Goto(b, "syncRoot") /\ UNCHANGED <<lock, layout, faults>>
       \/ Fault /\ GiveUpLayout(b) /\ UNCHANGED synced
    /\ UNCHANGED <<mirror, manifest, stores, named, dManifest>> /\ Quiet

\* fsync of the root directory: its entries are durable as they are now.
SyncEntries == named' = {b \in Builds : layout[b] # Absent} /\ dManifest' = manifest

SyncRoot(b) ==
    /\ pc[b] = "syncRoot"
    /\ \/ SyncEntries /\ Goto(b, "publish") /\ UNCHANGED <<lock, layout, faults>>
       \/ Fault /\ GiveUpLayout(b) /\ UNCHANGED <<named, dManifest>>
    /\ UNCHANGED <<mirror, manifest, stores, synced>> /\ Quiet

\* publishFile: the temporary file is written, synced and renamed.
PublishManifest(b) ==
    /\ pc[b] = "publish"
    /\ \/ manifest' = b /\ Goto(b, "syncManifest") /\ UNCHANGED <<lock, layout, faults>>
       \/ Fault /\ GiveUpLayout(b) /\ UNCHANGED manifest
    /\ UNCHANGED <<mirror, stores, disk>> /\ Quiet

\* The rename is durable.  If the sync fails the layout is kept: the
\* manifest names it already.
SyncManifest(b) ==
    /\ pc[b] = "syncManifest"
    /\ \/ SyncEntries /\ Goto(b, "gc") /\ UNCHANGED <<lock, faults>>
       \/ Fault /\ Goto(b, "failed") /\ lock' = Nobody /\ UNCHANGED <<named, dManifest>>
    /\ UNCHANGED <<mirror, layout, manifest, stores, synced>> /\ Quiet

\* gcSupersededLayouts reads the manifest again.
Superseded == {c \in Builds \ {manifest} : layout[c] # Absent}

\* A directory whose removal fails is left with some of its files; the copy
\* of the manifest beside the output follows, and is not part of the medium.
GCLayouts(b) ==
    /\ pc[b] = "gc"
    /\ \/ layout' = [c \in Builds |-> IF c \in Superseded THEN Absent ELSE layout[c]] /\ UNCHANGED faults
       \/ Fault /\ \E kept \in SUBSET Superseded, left \in 0 .. Images :
                      layout' = [c \in Builds |-> CASE c \in kept -> IF layout[c] < left THEN layout[c] ELSE left
                                                    [] c \in Superseded \ kept -> Absent
                                                    [] OTHER -> layout[c]]
    /\ lock' = Nobody /\ Goto(b, "binary")
    /\ UNCHANGED <<mirror, manifest, stores, disk>> /\ Quiet

StageLCABinary_reuse(b) ==
    /\ pc[b] = "binary"
    /\ \/ Goto(b, IF mode[b] = "self-contained" /\ store = Nothing THEN "storeLock" ELSE "done") /\ UNCHANGED faults
       \/ Fault /\ Goto(b, "failed")
    /\ UNCHANGED <<lock, mirror, layout, manifest, stores, disk>> /\ Quiet

\* stageLCABinary; install-only media have no store.
StageLCABinary(b) ==
    /\ pc[b] = "binary"
    /\ \/ Goto(b, IF mode[b] = "self-contained" THEN "storeLock" ELSE "done") /\ UNCHANGED faults
       \/ Fault /\ Goto(b, "failed")
    /\ UNCHANGED <<lock, mirror, layout, manifest, stores, disk>> /\ Quiet

(***************************************************************************)
(* The durability store.                                                   *)
(***************************************************************************)
GiveUpStore(b) ==
    /\ Goto(b, "failed") /\ lock' = Nobody
    /\ staging' \in {staging, [staging EXCEPT ![b] = Nothing]}

\* The manifest is read, what a crashed build has left is removed, and a
\* staging directory is made.
StartStore(b) ==
    /\ pc[b] = "parse"
    /\ \/ /\ manifest # Nobody
          /\ from' = [from EXCEPT ![b] = manifest]
          /\ \E failing \in BOOLEAN :
                /\ IF failing THEN Fault ELSE UNCHANGED faults
                /\ staging' = [c \in Builds |-> IF c = b THEN [of |-> manifest, whole |-> FALSE]
                                               ELSE IF failing THEN staging[c] ELSE Nothing]
                /\ backup' = IF failing THEN backup ELSE Nothing
          /\ Goto(b, "import") /\ UNCHANGED lock
       \/ (Fault \/ (manifest = Nobody /\ UNCHANGED faults)) /\ GiveUpStore(b) /\ UNCHANGED <<from, backup>>
    /\ UNCHANGED <<mirror, layout, manifest, store, aside, disk>> /\ Quiet

\* importClosureIntoStore fails unless every image is there;
\* validateOverlayStore and dirSize follow.
Import(b) ==
    /\ pc[b] = "import"
    /\ \/ layout[from[b]] = Images /\ staging' = [staging EXCEPT ![b].whole = TRUE]
          /\ Goto(b, "aside") /\ UNCHANGED <<lock, faults>>
       \/ (Fault \/ (layout[from[b]] # Images /\ UNCHANGED faults)) /\ GiveUpStore(b)
    /\ UNCHANGED <<mirror, layout, manifest, from, store, backup, aside, disk>> /\ Quiet

\* commitStore: the previous store is moved aside ...
MoveAside(b) ==
    /\ pc[b] = "aside"
    /\ \/ /\ aside' = [aside EXCEPT ![b] = store # Nothing]
          /\ backup' = (IF store = Nothing THEN backup ELSE store) /\ store' = Nothing
          /\ Goto(b, "swap") /\ UNCHANGED <<lock, staging, faults>>
       \/ Fault /\ GiveUpStore(b) /\ UNCHANGED <<store, backup, aside>>
    /\ UNCHANGED <<mirror, layout, manifest, from, disk>> /\ Quiet

\* ... the staged one renamed ...
SwapIn(b) ==
    /\ pc[b] = "swap"
    /\ \/ store' = staging[b] /\ staging' = [staging EXCEPT ![b] = Nothing]
          /\ Goto(b, "discard") /\ UNCHANGED faults
       \/ Fault /\ Goto(b, "restore") /\ UNCHANGED <<store, staging>>
    /\ UNCHANGED <<lock, mirror, layout, manifest, from, backup, aside, disk>> /\ Quiet

\* ... and the previous one put back if that has failed, which is only
\* logged when it fails too.
RestoreAside(b) ==
    /\ pc[b] = "restore"
    /\ \/ aside[b] /\ store' = backup /\ backup' = Nothing /\ UNCHANGED faults
       \/ aside[b] /\ Fault /\ UNCHANGED <<store, backup>>
       \/ ~aside[b] /\ UNCHANGED <<store, backup, faults>>
    /\ GiveUpStore(b)
    /\ UNCHANGED <<mirror, layout, manifest, from, aside, disk>> /\ Quiet

\* discardAside is best effort; the build has its payload.
DiscardAside(b) ==
    /\ pc[b] = "discard"
    /\ \/ backup' = (IF aside[b] THEN Nothing ELSE backup) /\ UNCHANGED faults
       \/ aside[b] /\ Fault /\ UNCHANGED backup
    /\ lock' = Nobody /\ Goto(b, "done")
    /\ UNCHANGED <<mirror, layout, manifest, from, staging, store, aside, disk>> /\ Quiet

(***************************************************************************)
(* The environment.                                                        *)
(***************************************************************************)
MoveTag ==
    /\ tag < MaxTag + 1 /\ tag' = tag + 1
    /\ UNCHANGED <<concurrent, mode, pc, lock, mirror, layout, manifest, stores, disk, faults, crashes, power>>

\* The kernel releases the lock of a process that dies; nothing is cleaned up.
Crash(b) ==
    /\ Running(b) /\ crashes < MaxCrashes /\ crashes' = crashes + 1
    /\ Goto(b, "crashed") /\ lock' = IF lock = b THEN Nobody ELSE lock
    /\ UNCHANGED <<concurrent, mode, tag, mirror, layout, manifest, stores, disk, faults, power>>

\* What is left of a layout directory.
Remains(b) ==
    CASE layout[b] # Absent /\ b \in named /\ b \in synced -> {layout[b]}
      [] layout[b] # Absent /\ b \in named /\ b \notin synced -> 0 .. layout[b]
      [] layout[b] # Absent /\ b \notin named -> (0 .. layout[b]) \cup {Absent}
      [] layout[b] = Absent /\ b \in named -> 0 .. Absent
      [] OTHER -> {Absent}

\* Nothing of the store is synced.
StoreRemains == {Nothing} \cup {[of |-> s.of, whole |-> w] : s \in {store, backup} \ {Nothing}, w \in BOOLEAN}

PowerLoss ==
    /\ power < MaxPower /\ power' = power + 1
    /\ manifest' \in {manifest, dManifest} /\ dManifest' = manifest'
    /\ \E l \in [Builds -> 0 .. Absent] : (\A b \in Builds : l[b] \in Remains(b)) /\ layout' = l
    /\ named' = {b \in Builds : layout'[b] # Absent} /\ synced' = named'
    /\ store' \in StoreRemains /\ backup' = Nothing /\ staging' = [b \in Builds |-> Nothing]
    /\ pc' = [b \in Builds |-> IF Running(b) THEN "crashed" ELSE pc[b]] /\ lock' = Nobody
    /\ UNCHANGED <<concurrent, mode, tag, mirror, from, aside, faults, crashes>>

Step(b) ==
    \/ BuildLiveISO(b) \/ ResolveImages(b) \/ LockP2Root(b) \/ MakeLayout(b)
    \/ CopyIntoLayout(b) \/ CaptureSourceSignatures(b) \/ VerifyAndPin(b)
    \/ SyncTree(b) \/ SyncRoot(b) \/ PublishManifest(b) \/ SyncManifest(b) \/ GCLayouts(b)
    \/ StageLCABinary(b) \/ StartStore(b) \/ Import(b)
    \/ MoveAside(b) \/ SwapIn(b) \/ RestoreAside(b) \/ DiscardAside(b)

Next ==
    \/ \E b \in Builds : Step(b)
    \/ \E b \in Builds : Crash(b)
    \/ MoveTag
    \/ PowerLoss

Spec == Init /\ [][Next]_vars

\* Every process makes progress; the kernel grants the lock to one that waits
\* for it once it stays free.
Fairness == \A b \in Builds : WF_vars(Step(b))
----------------------------------------------------------------------------
TypeOK ==
    /\ mode \in [Builds -> Modes] /\ lock \in Builds \cup {Nobody}
    /\ tag \in 1 .. MaxTag + 1
    /\ got \in [Builds -> Seq(0 .. MaxTag + 1)] /\ tries \in [Builds -> 1 .. MaxTries]
    /\ layout \in [Builds -> 0 .. Absent] /\ manifest \in Builds \cup {Nobody}
    /\ from \in [Builds -> Builds \cup {Nobody}]
    /\ {store, backup} \subseteq [of : Builds \cup {Nobody}, whole : BOOLEAN]
    /\ named \subseteq Builds /\ synced \subseteq Builds

(* digests.json always names a layout with every image, whichever builds
   run, fail, die or lose their power and when (the order of syncTree,
   fsyncPath, publishFile and gcSupersededLayouts under lockP2Root). *)
ManifestHasLayout == manifest # Nobody => layout[manifest] = Images

(* The signatures that are staged for an image are those of the digest it
   is recorded by, though its tag may move at any time
   (captureAndStageSignatures). *)
SignaturesSign ==
    \A b \in Builds : \A i \in DOMAIN sigs[b] : sigs[b][i] \in {got[b][i], Unsigned}

(* A signed image is mirrored with its signatures
   (captureAndStageSignatures). *)
SignedStaysSigned ==
    \A b \in Builds : \A i \in DOMAIN got[b] : got[b][i] \in Signed => sigs[b][i] = got[b][i]

(* The store on the medium is always one that was imported and validated as
   a whole, though builds fail or die at any step (importClosureIntoStore,
   commitStore), until the power is lost: the store is not synced. *)
StoreWhole == power = 0 /\ store # Nothing => store.whole

(* The medium is sound at any time: the three statements above. *)
MediumSound == ManifestHasLayout /\ SignaturesSign /\ StoreWhole

(* When a build has succeeded that no other one overlapped, the medium holds
   its own images: digests.json and the store are those of this build, and
   the configuration is pinned to them (BuildImageLayout,
   rewriteP3ImageReferences, BuildDurabilityStore). *)
Succeeds(b) == pc[b] # "done" /\ pc'[b] = "done" /\ ~concurrent
PayloadIsOwn ==
    \A b \in Builds : Succeeds(b) =>
        /\ manifest' = b
        /\ mode[b] = "self-contained" => store'.of = b /\ pins'[b] = got'[b]

(* Such a build leaves nothing behind of those that died before it, as long
   as no removal has failed (gcSupersededLayouts, gcStaleStoreArtifacts). *)
OrphansCollected ==
    \A b \in Builds : Succeeds(b) /\ faults' = 0 =>
        /\ \A c \in Builds : layout'[c] # Absent => c = manifest'
        /\ mode[b] = "self-contained" => backup' = Nothing /\ \A c \in Builds : staging'[c] = Nothing

(* A commit of the store that fails leaves the medium with the store it had
   (commitStore, restoreAside), unless putting it back fails as well. *)
StoreKept ==
    \A b \in Builds : pc[b] \in {"aside", "swap", "restore"} /\ pc'[b] = "failed" /\ faults' < 2
             /\ (store # Nothing \/ (pc[b] # "aside" /\ aside[b])) => store' # Nothing

(* What a build leaves is its own and complete, or what was there before: the
   three statements above, of every step. *)
PayloadSound == [][PayloadIsOwn /\ OrphansCollected /\ StoreKept]_vars

(* Once no build is running, the store holds the images of the layout that
   digests.json names (BuildDurabilityStore). *)
StoreMatchesLayout == (\A b \in Builds : ~Running(b)) /\ store # Nothing => store.of = manifest

(* The lca-cli on the medium is the one in the mirrored image
   (ExtractLCABinary, MirrorToLayout). *)
BinaryMatchesImage == \A b \in Builds : pc[b] = "done" => got[b][Images] = bin[b]

(* Every build ends, though others hold the lock, fail or die
   (lockP2Root). *)
BuildsEnd == \A b \in Builds : <>(pc[b] \in Ended)
=============================================================================
