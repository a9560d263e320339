--------------------------- MODULE USBLayout_proofs ---------------------------
(***************************************************************************)
(* Proofs about USBLayout, for every number of builds, images, moved tags, *)
(* failing steps, deaths and power losses.                                 *)
(*                                                                         *)
(* The inductive invariant Inv says what a build may rely on at each of    *)
(* its steps: that it is alone under the lock (LockInv), that a manifest   *)
(* names a layout which is whole and on stable storage (LayoutInv), what   *)
(* is staged and moved aside while the store is replaced (StoreInv), and   *)
(* what a build that no other overlaps still finds of its own (OwnInv).    *)
(***************************************************************************)
EXTENDS USBLayout, TLAPS

\* The steps of a build, and those that it takes with the lock: the layout, of
\* which the manifest is not told yet or is, and the store.
Unpublished == {"none", "resolve", "lock", "mkdir", "copy", "signatures", "verify", "syncTree", "syncRoot",
                "publish"}
Published == {"binary", "storeLock", "parse", "import", "aside", "swap", "restore", "discard"}
Steps == Unpublished \cup {"syncManifest", "gc"} \cup Published \cup Ended
Holding == {"mkdir", "copy", "signatures", "verify", "syncTree", "syncRoot", "publish", "syncManifest", "gc",
            "parse", "import", "aside", "swap", "restore", "discard"}

\* A digest is the tag's value when it was read; a store is of one build's layout,
\* with or without all of it.
Digests == 0 .. MaxTag + 1
Stores == [of : Builds \cup {Nobody}, whole : BOOLEAN]

\* The types.
TypesInv ==
    /\ mode \in [Builds -> Modes] /\ pc \in [Builds -> Steps]
    /\ lock \in Builds \cup {Nobody} /\ tag \in 1 .. MaxTag + 1
    /\ copied \in [Builds -> Digests]
    /\ got \in [Builds -> Seq(Digests)] /\ sigs \in [Builds -> Seq(Nat)]
    /\ tries \in [Builds -> 1 .. MaxTries] /\ pins \in [Builds -> Seq(Digests)]
    /\ layout \in [Builds -> 0 .. Absent] /\ manifest \in Builds \cup {Nobody}
    /\ from \in [Builds -> Builds \cup {Nobody}]
    /\ staging \in [Builds -> Stores] /\ store \in Stores /\ backup \in Stores
    /\ aside \in [Builds -> BOOLEAN]
    /\ named \subseteq Builds /\ synced \subseteq Builds /\ dManifest \in Builds \cup {Nobody}
    /\ faults \in Nat /\ power \in Nat

\* A build that works on the root directory has its lock.
LockInv == \A b \in Builds : pc[b] \in Holding => lock = b

\* The layout of a build at each of its steps.
LayoutAt(b) ==
    /\ pc[b] \in Unpublished => manifest # b /\ dManifest # b
    /\ pc[b] \in {"none", "resolve", "lock", "mkdir"} => got[b] = <<>>
    /\ pc[b] \in {"copy", "signatures"} => layout[b] = Len(got[b]) /\ Len(got[b]) < Images
    /\ pc[b] \in {"verify", "syncTree", "syncRoot", "publish"} => layout[b] = Images
    /\ pc[b] \in {"syncRoot", "publish"} => b \in synced
    /\ pc[b] = "publish" => b \in named
    /\ pc[b] \in {"syncManifest", "gc"} => manifest = b
    /\ pc[b] = "gc" => dManifest = b

\* A manifest names a layout that is whole and would survive a power loss.
Durable(m) == m # Nobody => layout[m] = Images /\ m \in named /\ m \in synced

LayoutInv == (\A b \in Builds : LayoutAt(b)) /\ Durable(manifest) /\ Durable(dManifest)

\* Each image has its signatures, or none.
SignedInv ==
    \A b \in Builds : /\ Len(sigs[b]) = Len(got[b])
                      /\ \A i \in 1 .. Len(got[b]) : sigs[b][i] \in {got[b][i], Unsigned}

\* The stores, and what is moved aside, while a build replaces the one.
StoreAt(b) ==
    /\ pc[b] \in {"import", "aside", "swap", "restore"} => staging[b].of = from[b] /\ from[b] \in Builds
    /\ pc[b] \in {"aside", "swap", "restore"} => staging[b].whole
    /\ pc[b] \in {"swap", "restore"} => store = Nothing /\ (aside[b] => backup # Nothing)
    /\ pc[b] = "restore" => faults > 0
    /\ pc[b] = "discard" => store.of = from[b] /\ from[b] \in Builds
    /\ faults = 0 /\ pc[b] \in {"import", "aside"} =>
         backup = Nothing /\ \A c \in Builds \ {b} : staging[c] = Nothing
    /\ faults = 0 /\ pc[b] = "swap" =>
         (aside[b] \/ backup = Nothing) /\ \A c \in Builds \ {b} : staging[c] = Nothing
    /\ faults = 0 /\ pc[b] = "discard" =>
         (aside[b] \/ backup = Nothing) /\ \A c \in Builds : staging[c] = Nothing

StoreInv ==
    /\ \A b \in Builds : StoreAt(b)
    /\ power = 0 => (store # Nothing => store.whole) /\ (backup # Nothing => backup.whole)

\* A build that no other one overlaps finds what it has left.
OwnAt(b) ==
    /\ pc[b] \in Published => /\ manifest = b
                              /\ faults = 0 => \A c \in Builds : layout[c] # Absent => c = b
    /\ pc[b] \in {"import", "aside", "swap", "restore", "discard"} => from[b] = b

OwnInv ==
    /\ ~concurrent => /\ \A b, c \in Builds : Running(b) /\ Running(c) => b = c
                      /\ \A b \in Builds : OwnAt(b)
    /\ \A b \in Builds : pc[b] \in Published \ {"binary"} => mode[b] = "self-contained"
    /\ \A b \in Builds : pc[b] \in Published \cup {"syncTree", "syncRoot", "publish", "syncManifest", "gc"}
                             /\ mode[b] = "self-contained" => pins[b] = got[b]

\* The invariant.
Inv == TypesInv /\ LockInv /\ LayoutInv /\ SignedInv /\ StoreInv /\ OwnInv

\* The constants and the places of a build.
LEMMA Consts ==
    /\ Images \in Nat /\ Images # 0 /\ MaxTag \in Nat /\ Absent \in Nat /\ Absent = Images + 1
    /\ Nobody \notin Builds /\ Nothing \in Stores /\ Nothing.of = Nobody
    /\ Modes \subseteq {"install-only", "self-contained"}
    /\ Ended \subseteq Steps /\ Published \subseteq Steps /\ Unpublished \subseteq Steps
<1>1. Images \in Nat /\ Images # 0 /\ MaxTag \in Nat /\ Absent \in Nat /\ Absent = Images + 1
  BY BoundsAssumption DEF Absent
<1>2. Nobody \notin Builds /\ Nothing \in Stores /\ Nothing.of = Nobody
  BY BuildsAssumption DEF Nobody, Nothing, Stores
<1>3. Modes \subseteq {"install-only", "self-contained"}
  BY BoundsAssumption
<1>4. Ended \subseteq Steps /\ Published \subseteq Steps /\ Unpublished \subseteq Steps
  BY DEF Steps
<1> QED
  BY <1>1, <1>2, <1>3, <1>4

\* The next step of a build.
LEMMA Goes ==
    ASSUME TypesInv, NEW b \in Builds, NEW l \in Steps, Goto(b, l)
    PROVE  /\ pc' \in [Builds -> Steps] /\ pc'[b] = l
           /\ \A c \in Builds : c # b => pc'[c] = pc[c]
BY DEF TypesInv, Goto

\* The image that a reference stands for is a digest.
LEMMA ResolvedTyped ==
    ASSUME TypesInv, NEW i PROVE Resolved(i) \in Digests
<1>1. tag \in 1 .. MaxTag + 1 /\ MaxTag \in Nat
  BY Consts DEF TypesInv
<1>2. tag \in Digests /\ 0 \in Digests
  BY <1>1 DEF Digests
<1> QED
  BY <1>2 DEF Resolved

\* An error before the commit takes at most the layout of its own build.
LEMMA GivesUpLayout ==
    ASSUME TypesInv, NEW b \in Builds, GiveUpLayout(b)
    PROVE  /\ Goto(b, "failed") /\ lock' = Nobody
           /\ layout' \in [Builds -> 0 .. Absent]
           /\ \A c \in Builds : c # b => layout'[c] = layout[c]
<1>1. Absent \in 0 .. Absent
  BY Consts
<1> QED
  BY <1>1 DEF TypesInv, GiveUpLayout

\* An attempt to mirror an image ends in another one or in an error.
LEMMA AttemptFails ==
    ASSUME TypesInv, NEW b \in Builds, NEW retryable \in BOOLEAN, FailedAttempt(b, retryable)
    PROVE  /\ \/ Goto(b, "copy") /\ lock' = lock /\ layout' = layout
              \/ GiveUpLayout(b)
           /\ tries' \in [Builds -> 1 .. MaxTries]
<1>1. CASE retryable /\ tries[b] < MaxTries
  <2>1. tries[b] \in 1 .. 3 /\ tries[b] < 3 /\ tries' = [tries EXCEPT ![b] = @ + 1]
    BY <1>1 DEF TypesInv, FailedAttempt, MaxTries
  <2>2. tries[b] + 1 \in 1 .. 3
    BY <2>1
  <2>3. tries' \in [Builds -> 1 .. MaxTries]
    BY <2>1, <2>2 DEF TypesInv, MaxTries
  <2> QED
    BY <1>1, <2>3 DEF FailedAttempt
<1>2. CASE ~(retryable /\ tries[b] < MaxTries)
  BY <1>2 DEF FailedAttempt, TypesInv
<1> QED
  BY <1>1, <1>2

\* An error in the store takes at most the staging directory of its own build.
LEMMA GivesUpStore ==
    ASSUME TypesInv, NEW b \in Builds, GiveUpStore(b)
    PROVE  Goto(b, "failed") /\ lock' = Nobody /\ staging' \in [Builds -> Stores]
<1>1. Nothing \in Stores
  BY Consts
<1>2. staging \in [Builds -> Stores]
  BY DEF TypesInv
<1> HIDE DEF Stores, Nothing
<1>3. [staging EXCEPT ![b] = Nothing] \in [Builds -> Stores]
  BY <1>1, <1>2
<1> QED
  BY <1>2, <1>3 DEF GiveUpStore

\* A fault is counted.
LEMMA FaultCounted ==
    ASSUME TypesInv, Fault PROVE faults' \in Nat /\ faults' = faults + 1 /\ faults' > 0
BY DEF TypesInv, Fault

-----------------------------------------------------------------------------
(* Types. *)

\* The steps of the layout keep the types.
LEMMA LayoutTyped ==
    ASSUME TypesInv, NEW b \in Builds, LayoutAt(b),
           \/ BuildLiveISO(b) \/ ResolveImages(b) \/ LockP2Root(b) \/ MakeLayout(b)
           \/ CopyIntoLayout(b) \/ CaptureSourceSignatures(b) \/ VerifyAndPin(b)
           \/ SyncTree(b) \/ SyncRoot(b) \/ PublishManifest(b) \/ SyncManifest(b) \/ GCLayouts(b)
           \/ StageLCABinary(b)
    PROVE  TypesInv'
<1>0. faults \in Nat /\ faults + 1 \in Nat
  BY DEF TypesInv
<1>1. CASE BuildLiveISO(b)
  <2>1. pc' \in [Builds -> Steps]
    BY <1>1, Goes DEF BuildLiveISO, Steps, Unpublished, Ended
  <2> QED
    BY <1>0, <1>1, <2>1 DEF BuildLiveISO, TypesInv, Quiet, Fault, stores, disk
<1>2. CASE ResolveImages(b) \/ LockP2Root(b) \/ StageLCABinary(b)
  <2>1. pc' \in [Builds -> Steps]
    BY <1>2, Goes DEF ResolveImages, LockP2Root, StageLCABinary, Steps, Unpublished, Published, Ended
  <2> QED
    BY <1>0, <1>2, <2>1 DEF ResolveImages, LockP2Root, StageLCABinary, TypesInv, Quiet, Fault, mirror, stores, disk
<1>3. CASE MakeLayout(b)
  <2>1. pc' \in [Builds -> Steps]
    BY <1>3, Goes DEF MakeLayout, GiveUpLayout, Steps, Unpublished, Ended
  <2>2. layout' \in [Builds -> 0 .. Absent]
    <3>1. layout \in [Builds -> 0 .. Absent] /\ 0 \in 0 .. Absent
      BY Consts DEF TypesInv
    <3> QED
      BY <1>3, <3>1, GivesUpLayout DEF MakeLayout
  <2>3. lock' \in Builds \cup {Nobody} /\ faults' \in Nat
    BY <1>0, <1>3 DEF MakeLayout, GiveUpLayout, TypesInv, Fault
  <2> QED
    BY <1>3, <2>1, <2>2, <2>3 DEF MakeLayout, TypesInv, Quiet, mirror, stores, disk
<1>4. CASE CopyIntoLayout(b)
  <2>1. copied' \in [Builds -> Digests]
    <3>1. copied \in [Builds -> Digests]
      BY DEF TypesInv
    <3> HIDE DEF Digests
    <3> QED
      BY <1>4, <3>1, ResolvedTyped DEF CopyIntoLayout
  <2>2. /\ pc' \in [Builds -> Steps] /\ layout' \in [Builds -> 0 .. Absent]
        /\ lock' \in Builds \cup {Nobody} /\ tries' \in [Builds -> 1 .. MaxTries]
    <3>1. CASE Goto(b, "signatures") /\ UNCHANGED <<lock, tries, layout>>
      BY <3>1, Goes DEF Steps, Unpublished, TypesInv
    <3>2. ASSUME NEW retryable \in BOOLEAN, FailedAttempt(b, retryable)
          PROVE  /\ pc' \in [Builds -> Steps] /\ layout' \in [Builds -> 0 .. Absent]
                 /\ lock' \in Builds \cup {Nobody} /\ tries' \in [Builds -> 1 .. MaxTries]
      <4>1. "copy" \in Steps /\ "failed" \in Steps
        BY DEF Steps, Unpublished, Ended
      <4>2. /\ tries' \in [Builds -> 1 .. MaxTries]
            /\ GiveUpLayout(b) \/ (Goto(b, "copy") /\ lock' = lock /\ layout' = layout)
        BY <3>2, AttemptFails
      <4>3. CASE Goto(b, "copy") /\ lock' = lock /\ layout' = layout
        BY <4>1, <4>2, <4>3, Goes DEF TypesInv
      <4>4. CASE GiveUpLayout(b)
        <5>1. Goto(b, "failed") /\ lock' = Nobody /\ layout' \in [Builds -> 0 .. Absent]
          BY <4>4, GivesUpLayout
        <5> QED
          BY <4>1, <4>2, <5>1, Goes
      <4> QED
        BY <4>2, <4>3, <4>4
    <3> QED
      BY <1>4, <3>1, <3>2 DEF CopyIntoLayout
  <2>3. faults' \in Nat
    BY <1>0, <1>4 DEF CopyIntoLayout, Fault
  <2> QED
    BY <1>4, <2>1, <2>2, <2>3 DEF CopyIntoLayout, TypesInv, Quiet, stores, disk
<1>5. CASE CaptureSourceSignatures(b)
  <2>0. /\ got \in [Builds -> Seq(Digests)] /\ sigs \in [Builds -> Seq(Nat)] /\ copied[b] \in Digests
        /\ layout \in [Builds -> 0 .. Absent] /\ tries \in [Builds -> 1 .. MaxTries]
        /\ lock \in Builds \cup {Nobody}
    BY DEF TypesInv
  <2>1. ASSUME NEW digest \in Nat, Mirrored(b, digest), Len(got[b]) < Images
        PROVE  /\ got' \in [Builds -> Seq(Digests)] /\ sigs' \in [Builds -> Seq(Nat)]
               /\ pc' \in [Builds -> Steps] /\ layout' \in [Builds -> 0 .. Absent]
               /\ lock' \in Builds \cup {Nobody} /\ tries' \in [Builds -> 1 .. MaxTries]
    <3>1. got' \in [Builds -> Seq(Digests)] /\ Len(got'[b]) = Len(got[b]) + 1
      BY <2>0, <2>1 DEF Mirrored
    <3>2. sigs' \in [Builds -> Seq(Nat)]
      BY <2>0, <2>1 DEF Mirrored
    <3>3. pc' \in [Builds -> Steps]
      BY <2>1, Goes DEF Mirrored, Steps, Unpublished
    <3>4. Len(got'[b]) \in 0 .. Absent /\ 1 \in 1 .. MaxTries
      BY <2>0, <2>1, <3>1, Consts DEF MaxTries
    <3> QED
      BY <2>0, <2>1, <3>1, <3>2, <3>3, <3>4 DEF Mirrored
  <2>2. Reopened(b) \in Nat /\ Unsigned \in Nat
    BY ResolvedTyped, Consts DEF Reopened, Digests, Unsigned
  <2>3. ASSUME NEW retryable \in BOOLEAN, FailedAttempt(b, retryable)
        PROVE  /\ pc' \in [Builds -> Steps] /\ layout' \in [Builds -> 0 .. Absent]
               /\ lock' \in Builds \cup {Nobody} /\ tries' \in [Builds -> 1 .. MaxTries]
    BY <2>0, <2>3, AttemptFails, GivesUpLayout, Goes DEF Steps, Unpublished, Ended
  <2>4. FALSE \in BOOLEAN
    OBVIOUS
  <2>5. /\ got' \in [Builds -> Seq(Digests)] /\ sigs' \in [Builds -> Seq(Nat)]
        /\ pc' \in [Builds -> Steps] /\ layout' \in [Builds -> 0 .. Absent]
        /\ lock' \in Builds \cup {Nobody} /\ tries' \in [Builds -> 1 .. MaxTries]
    BY <1>5, <2>0, <2>1, <2>2, <2>3, <2>4 DEF CaptureSourceSignatures, LayoutAt
  <2>6. faults' \in Nat
    BY <1>0, <1>5 DEF CaptureSourceSignatures, Mirrored, Fault
  <2> QED
    BY <1>5, <2>5, <2>6 DEF CaptureSourceSignatures, TypesInv, Quiet, stores, disk
<1>6. CASE VerifyAndPin(b)
  <2>1. pc' \in [Builds -> Steps]
    BY <1>6, Goes DEF VerifyAndPin, GiveUpLayout, Steps, Unpublished, Ended
  <2>2. layout' \in [Builds -> 0 .. Absent]
    BY <1>6, GivesUpLayout DEF VerifyAndPin, TypesInv
  <2>3. lock' \in Builds \cup {Nobody} /\ faults' \in Nat
    BY <1>0, <1>6 DEF VerifyAndPin, GiveUpLayout, TypesInv, Fault
  <2>4. pins' \in [Builds -> Seq(Digests)]
    BY <1>6 DEF VerifyAndPin, TypesInv
  <2> QED
    BY <1>6, <2>1, <2>2, <2>3, <2>4 DEF VerifyAndPin, TypesInv, Quiet, stores, disk
<1>7. CASE SyncTree(b) \/ SyncRoot(b) \/ PublishManifest(b) \/ SyncManifest(b)
  <2>1. pc' \in [Builds -> Steps]
    BY <1>7, Goes DEF SyncTree, SyncRoot, PublishManifest, SyncManifest, GiveUpLayout, Steps, Unpublished, Ended
  <2>2. layout' \in [Builds -> 0 .. Absent]
    BY <1>7, GivesUpLayout DEF SyncTree, SyncRoot, PublishManifest, SyncManifest, TypesInv
  <2>3. lock' \in Builds \cup {Nobody} /\ faults' \in Nat
    BY <1>0, <1>7 DEF SyncTree, SyncRoot, PublishManifest, SyncManifest, GiveUpLayout, TypesInv, Fault
  <2>4. /\ named' \subseteq Builds /\ synced' \subseteq Builds
        /\ manifest' \in Builds \cup {Nobody} /\ dManifest' \in Builds \cup {Nobody}
    BY <1>7 DEF SyncTree, SyncRoot, PublishManifest, SyncManifest, SyncEntries, TypesInv, disk
  <2> QED
    BY <1>7, <2>1, <2>2, <2>3, <2>4
    DEF SyncTree, SyncRoot, PublishManifest, SyncManifest, TypesInv, Quiet, mirror, stores
<1>8. CASE GCLayouts(b)
  <2>1. pc' \in [Builds -> Steps]
    BY <1>8, Goes DEF GCLayouts, Steps, Published
  <2>2. layout' \in [Builds -> 0 .. Absent]
    <3>0. Absent \in 0 .. Absent /\ \A i \in 0 .. Images : i \in 0 .. Absent
      BY Consts
    <3>1. /\ layout \in [Builds -> 0 .. Absent] /\ Absent \in 0 .. Absent
          /\ \A i \in 0 .. Images : i \in 0 .. Absent
      BY <3>0 DEF TypesInv
    <3>2. CASE layout' = [c \in Builds |-> IF c \in Superseded THEN Absent ELSE layout[c]]
      BY <3>1, <3>2
    <3>3. ASSUME NEW kept \in SUBSET Superseded, NEW left \in 0 .. Images,
                 layout' = [c \in Builds |-> CASE c \in kept -> IF layout[c] < left THEN layout[c] ELSE left
                                               [] c \in Superseded \ kept -> Absent
                                               [] OTHER -> layout[c]]
          PROVE  layout' \in [Builds -> 0 .. Absent]
      <4>1. \A c \in Builds : (CASE c \in kept -> IF layout[c] < left THEN layout[c] ELSE left
                                 [] c \in Superseded \ kept -> Absent
                                 [] OTHER -> layout[c]) \in 0 .. Absent
        BY <3>1, <3>3
      <4> QED
        BY <3>3, <4>1
    <3> QED
      BY <1>8, <3>2, <3>3 DEF GCLayouts
  <2>3. lock' \in Builds \cup {Nobody} /\ faults' \in Nat
    BY <1>0, <1>8 DEF GCLayouts, Fault
  <2> QED
    BY <1>8, <2>1, <2>2, <2>3 DEF GCLayouts, TypesInv, Quiet, mirror, stores, disk
<1> QED
  BY <1>1, <1>2, <1>3, <1>4, <1>5, <1>6, <1>7, <1>8

\* So do those of the store.
LEMMA StoreTyped ==
    ASSUME TypesInv, NEW b \in Builds,
           \/ StartStore(b) \/ Import(b) \/ MoveAside(b) \/ SwapIn(b) \/ RestoreAside(b) \/ DiscardAside(b)
    PROVE  TypesInv'
<1>0. faults \in Nat /\ faults + 1 \in Nat /\ Nothing \in Stores
  BY Consts DEF TypesInv
<1>1. /\ staging \in [Builds -> Stores] /\ store \in Stores /\ backup \in Stores
      /\ aside \in [Builds -> BOOLEAN] /\ from \in [Builds -> Builds \cup {Nobody}]
      /\ manifest \in Builds \cup {Nobody} /\ lock \in Builds \cup {Nobody}
  BY DEF TypesInv
<1>2. CASE StartStore(b)
  <2>1. pc' \in [Builds -> Steps]
    BY <1>2, Goes DEF StartStore, GiveUpStore, Steps, Published, Ended
  <2>2. from' \in [Builds -> Builds \cup {Nobody}] /\ lock' \in Builds \cup {Nobody} /\ faults' \in Nat
    BY <1>0, <1>1, <1>2 DEF StartStore, GiveUpStore, Fault
  <2>3. backup' \in Stores
    BY <1>0, <1>1, <1>2 DEF StartStore
  <2>4. staging' \in [Builds -> Stores]
    <3>1. [of |-> manifest, whole |-> FALSE] \in Stores
      BY <1>1 DEF Stores
    <3> HIDE DEF Stores, Nothing
    <3>2. ASSUME NEW failing \in BOOLEAN,
                 staging' = [c \in Builds |-> IF c = b THEN [of |-> manifest, whole |-> FALSE]
                                               ELSE IF failing THEN staging[c] ELSE Nothing]
          PROVE  staging' \in [Builds -> Stores]
      <4>1. \A c \in Builds : (IF c = b THEN [of |-> manifest, whole |-> FALSE]
                                ELSE IF failing THEN staging[c] ELSE Nothing) \in Stores
        BY <1>0, <1>1, <3>1
      <4> QED
        BY <3>2, <4>1
    <3> QED
      BY <1>2, <3>2, GivesUpStore DEF StartStore
  <2> QED
    BY <1>1, <1>2, <2>1, <2>2, <2>3, <2>4 DEF StartStore, TypesInv, Quiet, mirror, disk
<1>3. CASE Import(b)
  <2>1. pc' \in [Builds -> Steps]
    BY <1>3, Goes DEF Import, GiveUpStore, Steps, Published, Ended
  <2>2. lock' \in Builds \cup {Nobody} /\ faults' \in Nat
    BY <1>0, <1>1, <1>3 DEF Import, GiveUpStore, Fault
  <2>3. staging' \in [Builds -> Stores]
    <3>1. [staging EXCEPT ![b].whole = TRUE] \in [Builds -> Stores]
      BY <1>1 DEF Stores
    <3> QED
      BY <1>3, <3>1, GivesUpStore DEF Import
  <2> QED
    BY <1>3, <2>1, <2>2, <2>3 DEF Import, TypesInv, Quiet, mirror, disk
<1>4. CASE MoveAside(b)
  <2>1. pc' \in [Builds -> Steps]
    BY <1>4, Goes DEF MoveAside, GiveUpStore, Steps, Published, Ended
  <2>2. lock' \in Builds \cup {Nobody} /\ faults' \in Nat /\ store' \in Stores /\ backup' \in Stores
    BY <1>0, <1>1, <1>4 DEF MoveAside, GiveUpStore, Fault
  <2>3. staging' \in [Builds -> Stores]
    BY <1>1, <1>4, GivesUpStore DEF MoveAside
  <2>4. aside' \in [Builds -> BOOLEAN]
    <3>1. (store # Nothing) \in BOOLEAN
      OBVIOUS
    <3> QED
      BY <1>1, <1>4, <3>1 DEF MoveAside
  <2> QED
    BY <1>4, <2>1, <2>2, <2>3, <2>4 DEF MoveAside, TypesInv, Quiet, mirror, disk
<1>5. CASE SwapIn(b)
  <2>1. pc' \in [Builds -> Steps]
    BY <1>5, Goes DEF SwapIn, Steps, Published
  <2>2. faults' \in Nat /\ store' \in Stores
    BY <1>0, <1>1, <1>5 DEF SwapIn, Fault
  <2>3. staging' \in [Builds -> Stores]
    <3> HIDE DEF Stores, Nothing
    <3> QED
      BY <1>0, <1>1, <1>5 DEF SwapIn
  <2> QED
    BY <1>5, <2>1, <2>2, <2>3 DEF SwapIn, TypesInv, Quiet, mirror, disk
<1>6. CASE RestoreAside(b)
  <2>1. pc' \in [Builds -> Steps]
    BY <1>6, Goes DEF RestoreAside, GiveUpStore, Steps, Ended
  <2>2. lock' \in Builds \cup {Nobody} /\ faults' \in Nat /\ store' \in Stores /\ backup' \in Stores
    BY <1>0, <1>1, <1>6 DEF RestoreAside, GiveUpStore, Fault
  <2>3. staging' \in [Builds -> Stores]
    BY <1>1, <1>6, GivesUpStore DEF RestoreAside
  <2> QED
    BY <1>6, <2>1, <2>2, <2>3 DEF RestoreAside, TypesInv, Quiet, mirror, disk
<1>7. CASE DiscardAside(b)
  <2>1. pc' \in [Builds -> Steps]
    BY <1>7, Goes DEF DiscardAside, Steps, Ended
  <2>2. lock' \in Builds \cup {Nobody} /\ faults' \in Nat /\ backup' \in Stores
    BY <1>0, <1>1, <1>7 DEF DiscardAside, Fault
  <2> QED
    BY <1>7, <2>1, <2>2 DEF DiscardAside, TypesInv, Quiet, mirror, disk
<1> QED
  BY <1>2, <1>3, <1>4, <1>5, <1>6, <1>7

\* A moved tag, the death of a process and a power loss keep the types too.
LEMMA EnvironmentTyped ==
    ASSUME TypesInv, MoveTag \/ (\E b \in Builds : Crash(b)) \/ PowerLoss
    PROVE  TypesInv'
<1>1. CASE MoveTag
  <2>1. tag \in 1 .. MaxTag + 1 /\ tag < MaxTag + 1 /\ tag' = tag + 1 /\ MaxTag \in Nat
    BY <1>1, Consts DEF MoveTag, TypesInv
  <2>2. tag' \in 1 .. MaxTag + 1
    BY <2>1
  <2> QED
    BY <1>1, <2>2 DEF MoveTag, TypesInv, mirror, stores, disk
<1>2. ASSUME NEW b \in Builds, Crash(b) PROVE TypesInv'
  <2>1. pc' \in [Builds -> Steps]
    BY <1>2, Goes DEF Crash, Steps, Ended
  <2> QED
    BY <1>2, <2>1 DEF Crash, TypesInv, mirror, stores, disk
<1>3. CASE PowerLoss
  <2>1. pc' \in [Builds -> Steps]
    <3>1. "crashed" \in Steps /\ pc \in [Builds -> Steps]
      BY DEF Steps, Ended, TypesInv
    <3> QED
      BY <1>3, <3>1 DEF PowerLoss
  <2>2. store' \in Stores /\ backup' \in Stores /\ staging' \in [Builds -> Stores]
    <3>1. Nothing \in Stores /\ store \in Stores /\ backup \in Stores
      BY Consts DEF TypesInv
    <3>2. \A x \in StoreRemains : x \in Stores
      BY <3>1 DEF StoreRemains, Stores
    <3> HIDE DEF Stores, Nothing
    <3> QED
      BY <1>3, <3>1, <3>2 DEF PowerLoss
  <2>3. power' \in Nat
    BY <1>3 DEF PowerLoss, TypesInv
  <2>4. /\ manifest' \in Builds \cup {Nobody} /\ dManifest' \in Builds \cup {Nobody}
        /\ named' \subseteq Builds /\ synced' \subseteq Builds /\ lock' = Nobody
    BY <1>3 DEF PowerLoss, TypesInv
  <2>5. layout' \in [Builds -> 0 .. Absent]
    BY <1>3 DEF PowerLoss
  <2> QED
    BY <1>3, <2>1, <2>2, <2>3, <2>4, <2>5 DEF PowerLoss, TypesInv, mirror
<1> QED
  BY <1>1, <1>2, <1>3

-----------------------------------------------------------------------------
(* The lock. *)

\* A build that has the lock is the only one that works on the root directory.
LEMMA OthersWait ==
    ASSUME LockInv, NEW b \in Builds, pc[b] \in Holding, NEW c \in Builds, c # b
    PROVE  pc[c] \notin Holding
BY DEF LockInv

\* The lock is taken when it is free, and released at the end.
LEMMA LockNext ==
    ASSUME TypesInv, LockInv, [Next]_vars
    PROVE  LockInv'
<1>1. ASSUME NEW b \in Builds, NEW l \in Steps, Goto(b, l), pc[b] \in Holding,
             \/ l \in Holding /\ lock' = lock
             \/ l \notin Holding
      PROVE  LockInv'
  BY <1>1, Goes, OthersWait DEF LockInv
<1>2. ASSUME NEW b \in Builds, NEW l \in Steps, Goto(b, l), l \notin Holding, lock' = lock
      PROVE  LockInv'
  BY <1>2, Goes DEF LockInv
<1>3. \A b \in Builds : GiveUpLayout(b) \/ GiveUpStore(b) => Goto(b, "failed")
  BY DEF GiveUpLayout, GiveUpStore
<1>4. "failed" \in Steps /\ "failed" \notin Holding
  BY DEF Steps, Ended, Holding
<1>5. ASSUME NEW b \in Builds,
             BuildLiveISO(b) \/ ResolveImages(b) \/ StageLCABinary(b)
      PROVE  LockInv'
  BY <1>2, <1>5 DEF BuildLiveISO, ResolveImages, StageLCABinary, Steps, Unpublished, Published, Ended, Holding
<1>6. ASSUME NEW b \in Builds, LockP2Root(b) PROVE LockInv'
  <2>1. \E l \in Steps : Goto(b, l)
    BY <1>6 DEF LockP2Root, Steps, Unpublished, Published
  <2> QED
    BY <1>6, <2>1, Goes, Consts DEF LockP2Root, LockInv
<1>7. ASSUME NEW b \in Builds,
             \/ MakeLayout(b) \/ VerifyAndPin(b) \/ SyncTree(b) \/ SyncRoot(b) \/ PublishManifest(b)
             \/ SyncManifest(b) \/ GCLayouts(b)
      PROVE  LockInv'
  BY <1>1, <1>3, <1>4, <1>7
  DEF MakeLayout, VerifyAndPin, SyncTree, SyncRoot, PublishManifest, SyncManifest, GCLayouts, Steps, Unpublished,
      Published, Ended, Holding
<1>8. ASSUME NEW b \in Builds, CopyIntoLayout(b) \/ CaptureSourceSignatures(b) PROVE LockInv'
  <2>1. pc[b] \in Holding /\ {"copy", "signatures", "verify"} \subseteq Steps \cap Holding
    BY <1>8 DEF CopyIntoLayout, CaptureSourceSignatures, Holding, Steps, Unpublished
  <2>2. \/ Goto(b, "signatures") /\ lock' = lock
        \/ \E digest : Mirrored(b, digest)
        \/ \E retryable \in BOOLEAN : FailedAttempt(b, retryable)
    BY <1>8 DEF CopyIntoLayout, CaptureSourceSignatures
  <2>3. \A digest : Mirrored(b, digest) => (Goto(b, "verify") \/ Goto(b, "copy")) /\ lock' = lock
    BY DEF Mirrored
  <2>4. \A retryable \in BOOLEAN : FailedAttempt(b, retryable) =>
            (Goto(b, "copy") /\ lock' = lock) \/ Goto(b, "failed")
    BY AttemptFails, GivesUpLayout
  <2> QED
    BY <1>1, <1>4, <2>1, <2>2, <2>3, <2>4
<1>9. ASSUME NEW b \in Builds,
             \/ StartStore(b) \/ Import(b) \/ MoveAside(b) \/ SwapIn(b) \/ RestoreAside(b) \/ DiscardAside(b)
      PROVE  LockInv'
  BY <1>1, <1>3, <1>4, <1>9
  DEF StartStore, Import, MoveAside, SwapIn, RestoreAside, DiscardAside, Steps, Published, Ended, Holding
<1>10. CASE MoveTag \/ UNCHANGED vars
  BY <1>10 DEF MoveTag, vars, LockInv
<1>11. ASSUME NEW b \in Builds, Crash(b) PROVE LockInv'
  <2>1. "crashed" \in Steps /\ "crashed" \notin Holding
    BY DEF Steps, Ended, Holding
  <2> QED
    BY <1>11, <2>1, Goes DEF Crash, LockInv
<1>12. CASE PowerLoss
  BY <1>12 DEF PowerLoss, LockInv, Running, Ended, Holding
<1> QED
  BY <1>5, <1>6, <1>7, <1>8, <1>9, <1>10, <1>11, <1>12 DEF Next, Step

-----------------------------------------------------------------------------
(* The layouts and the manifest. *)

\* The builds that wait for the lock do not mind what the one that has it does,
\* as long as no manifest comes to name their layout.
LEMMA OthersLayout ==
    ASSUME TypesInv, LockInv, NEW b \in Builds, pc[b] \in Holding, NEW c \in Builds, c # b, LayoutAt(c),
           pc'[c] = pc[c], got'[c] = got[c],
           manifest' \in {manifest, b}, dManifest' \in {manifest, dManifest}
    PROVE  LayoutAt(c)'
<1>1. pc[c] \notin Holding
  BY OthersWait
<1> QED
  BY <1>1 DEF LayoutAt, Holding

\* A build that ends before its commit, with or without its layout.
LEMMA GiveUpKeepsLayout ==
    ASSUME TypesInv, LockInv, LayoutInv, NEW b \in Builds, pc[b] \in Holding \cap Unpublished,
           GiveUpLayout(b), got' = got, manifest' = manifest, dManifest' = dManifest,
           named' = named, synced' = synced
    PROVE  LayoutInv'
<1>1. manifest # b /\ dManifest # b
  BY DEF LayoutInv, LayoutAt
<1>2. pc'[b] = "failed" /\ \A c \in Builds : c # b => pc'[c] = pc[c] /\ layout'[c] = layout[c]
  BY GivesUpLayout, Goes, Consts DEF Ended
<1>3. \A c \in Builds : c # b => LayoutAt(c)'
  BY <1>2, OthersLayout DEF LayoutInv
<1>4. LayoutAt(b)'
  BY <1>2 DEF LayoutAt, Unpublished
<1>5. Durable(manifest)' /\ Durable(dManifest)'
  BY <1>1, <1>2 DEF LayoutInv, Durable, TypesInv
<1> QED
  BY <1>3, <1>4, <1>5 DEF LayoutInv

\* A step of a build that touches neither layout nor manifest.
LEMMA ElsewhereKeepsLayout ==
    ASSUME TypesInv, LayoutInv, NEW b \in Builds, NEW l \in Steps, Goto(b, l),
           UNCHANGED <<got, layout, manifest, disk>>,
           \/ l \in Published \cup Ended
           \/ {pc[b], l} \subseteq {"none", "resolve", "lock", "mkdir"}
    PROVE  LayoutInv'
<1>1. pc'[b] = l /\ \A c \in Builds : c # b => pc'[c] = pc[c]
  BY Goes
<1>2. \A c \in Builds : c # b => LayoutAt(c)'
  BY <1>1 DEF LayoutInv, LayoutAt, disk
<1>3. LayoutAt(b)'
  BY <1>1 DEF LayoutInv, LayoutAt, disk, Unpublished, Published, Ended
<1>4. Durable(manifest)' /\ Durable(dManifest)'
  BY DEF LayoutInv, Durable, disk
<1> QED
  BY <1>2, <1>3, <1>4 DEF LayoutInv

\* An attempt that fails is repeated on the same layout, or the last one.
LEMMA AttemptKeepsLayout ==
    ASSUME TypesInv, LockInv, LayoutInv, NEW b \in Builds, pc[b] \in {"copy", "signatures"},
           NEW retryable \in BOOLEAN, FailedAttempt(b, retryable),
           UNCHANGED <<got, manifest, disk>>
    PROVE  LayoutInv'
<1>1. CASE GiveUpLayout(b)
  BY <1>1, GiveUpKeepsLayout DEF Holding, Unpublished, disk
<1>2. CASE Goto(b, "copy") /\ layout' = layout
  <2>1. pc'[b] = "copy" /\ \A c \in Builds : c # b => pc'[c] = pc[c]
    BY <1>2, Goes DEF Steps, Unpublished
  <2>2. \A c \in Builds : LayoutAt(c)'
    BY <1>2, <2>1 DEF LayoutInv, LayoutAt, Unpublished, disk
  <2> QED
    BY <1>2, <2>2 DEF LayoutInv, Durable, disk
<1> QED
  BY <1>1, <1>2, AttemptFails

\* An image is added to the layout of a build.
LEMMA MirroredKeepsLayout ==
    ASSUME TypesInv, LockInv, LayoutInv, NEW b \in Builds, pc[b] = "signatures",
           NEW digest, Mirrored(b, digest), UNCHANGED <<manifest, disk>>
    PROVE  LayoutInv'
<1>1. /\ got'[b] = Append(got[b], copied[b]) /\ layout'[b] = Len(got'[b])
      /\ \A c \in Builds : c # b => got'[c] = got[c] /\ layout'[c] = layout[c]
  BY DEF TypesInv, Mirrored
<1>2. Len(got'[b]) = Len(got[b]) + 1 /\ Len(got[b]) < Images /\ Len(got[b]) \in Nat
  <2>1. got[b] \in Seq(Digests) /\ copied[b] \in Digests
    BY DEF TypesInv
  <2>2. Len(got[b]) < Images
    BY DEF LayoutInv, LayoutAt
  <2> QED
    BY <1>1, <2>1, <2>2
<1>3. pc'[b] = (IF Len(got'[b]) = Images THEN "verify" ELSE "copy") /\ \A c \in Builds : c # b => pc'[c] = pc[c]
  BY Goes DEF Mirrored, Steps, Unpublished
<1>4. \A c \in Builds : c # b => LayoutAt(c)'
  BY <1>1, <1>3, OthersLayout DEF LayoutInv, Holding, disk
<1>5. manifest # b /\ dManifest # b
  BY DEF LayoutInv, LayoutAt, Unpublished
<1>6. LayoutAt(b)'
  BY <1>1, <1>2, <1>3, <1>5, Consts DEF LayoutAt, disk
<1>7. Durable(manifest)' /\ Durable(dManifest)'
  BY <1>1, <1>5 DEF LayoutInv, Durable, disk, TypesInv
<1> QED
  BY <1>4, <1>6, <1>7 DEF LayoutInv

\* The manifest names a durable layout at every step of the build that makes it
\* and of those that come after.
LEMMA LayoutNext ==
    ASSUME TypesInv, LockInv, LayoutInv, [Next]_vars
    PROVE  LayoutInv'
<1>0. {"none", "resolve", "lock", "mkdir", "copy", "signatures", "verify", "syncTree", "syncRoot", "publish",
       "syncManifest", "gc", "binary", "storeLock", "parse", "import", "aside", "swap", "restore", "discard",
       "done", "failed", "crashed"} = Steps
  BY DEF Steps, Unpublished, Published, Ended
<1>1. ASSUME NEW b \in Builds, BuildLiveISO(b) \/ ResolveImages(b) \/ LockP2Root(b) PROVE LayoutInv'
  <2>1. \E l \in Steps : /\ Goto(b, l)
                         /\ l \in Published \cup Ended \/ {pc[b], l} \subseteq {"none", "resolve", "lock", "mkdir"}
    BY <1>0, <1>1 DEF BuildLiveISO, ResolveImages, LockP2Root, Published, Ended
  <2> QED
    BY <1>1, <2>1, ElsewhereKeepsLayout DEF BuildLiveISO, ResolveImages, LockP2Root, mirror
<1>2. ASSUME NEW b \in Builds,
             \/ StageLCABinary(b) \/ StartStore(b) \/ Import(b) \/ MoveAside(b) \/ SwapIn(b) \/ RestoreAside(b)
             \/ DiscardAside(b) \/ Crash(b)
      PROVE  LayoutInv'
  <2>1. \E l \in Published \cup Ended : Goto(b, l)
    BY <1>2 DEF StageLCABinary, StartStore, Import, MoveAside, SwapIn, RestoreAside, DiscardAside, Crash,
                GiveUpStore, Published, Ended
  <2>2. UNCHANGED <<got, layout, manifest, disk>>
    BY <1>2 DEF StageLCABinary, StartStore, Import, MoveAside, SwapIn, RestoreAside, DiscardAside, Crash, mirror
  <2> QED
    BY <2>1, <2>2, ElsewhereKeepsLayout, Consts
<1>3. ASSUME NEW b \in Builds, MakeLayout(b) PROVE LayoutInv'
  <2>1. CASE GiveUpLayout(b)
    BY <1>3, <2>1, GiveUpKeepsLayout DEF MakeLayout, Holding, Unpublished, disk, mirror
  <2>2. CASE layout' = [layout EXCEPT ![b] = 0] /\ Goto(b, "copy")
    <3>1. pc'[b] = "copy" /\ layout'[b] = 0
          /\ \A c \in Builds : c # b => pc'[c] = pc[c] /\ layout'[c] = layout[c]
      BY <1>0, <2>2, Goes DEF TypesInv
    <3>2. UNCHANGED <<got, manifest, disk>> /\ pc[b] = "mkdir"
      BY <1>3 DEF MakeLayout, mirror
    <3>3. \A c \in Builds : c # b => LayoutAt(c)'
      BY <3>1, <3>2, OthersLayout DEF LayoutInv, Holding, disk
    <3>4. manifest # b /\ dManifest # b /\ got[b] = <<>>
      BY <3>2 DEF LayoutInv, LayoutAt, Unpublished
    <3>5. LayoutAt(b)'
      <4>1. Len(got'[b]) = 0 /\ 0 < Images
        BY <3>2, <3>4, Consts
      <4> QED
        BY <3>1, <3>2, <3>4, <4>1 DEF LayoutAt, disk
    <3>6. Durable(manifest)' /\ Durable(dManifest)'
      BY <3>1, <3>2, <3>4 DEF LayoutInv, Durable, disk, TypesInv
    <3> QED
      BY <3>3, <3>5, <3>6 DEF LayoutInv
  <2> QED
    BY <1>3, <2>1, <2>2 DEF MakeLayout
<1>4. ASSUME NEW b \in Builds, CopyIntoLayout(b) PROVE LayoutInv'
  <2>1. ASSUME NEW retryable \in BOOLEAN, FailedAttempt(b, retryable) PROVE LayoutInv'
    BY <1>4, <2>1, AttemptKeepsLayout DEF CopyIntoLayout, disk
  <2>2. CASE Goto(b, "signatures") /\ layout' = layout
    <3>1. pc'[b] = "signatures" /\ \A c \in Builds : c # b => pc'[c] = pc[c]
      BY <1>0, <2>2, Goes
    <3>2. UNCHANGED <<got, layout, manifest, disk>> /\ pc[b] = "copy"
      BY <1>4, <2>2 DEF CopyIntoLayout
    <3>3. \A c \in Builds : LayoutAt(c)'
      BY <3>1, <3>2 DEF LayoutInv, LayoutAt, Unpublished, disk
    <3> QED
      BY <3>2, <3>3 DEF LayoutInv, Durable, disk
  <2> QED
    BY <1>4, <2>1, <2>2 DEF CopyIntoLayout
<1>5. ASSUME NEW b \in Builds, CaptureSourceSignatures(b) PROVE LayoutInv'
  <2>1. pc[b] = "signatures" /\ UNCHANGED <<manifest, disk>>
    BY <1>5 DEF CaptureSourceSignatures
  <2>2. \/ \E digest : Mirrored(b, digest)
        \/ UNCHANGED got /\ \E retryable \in BOOLEAN : FailedAttempt(b, retryable)
    BY <1>5 DEF CaptureSourceSignatures
  <2> QED
    BY <2>1, <2>2, MirroredKeepsLayout, AttemptKeepsLayout
<1>6. ASSUME NEW b \in Builds, VerifyAndPin(b) \/ SyncTree(b) PROVE LayoutInv'
  <2>1. CASE GiveUpLayout(b) /\ UNCHANGED synced
    BY <1>6, <2>1, GiveUpKeepsLayout DEF VerifyAndPin, SyncTree, Holding, Unpublished, disk, mirror
  <2>2. CASE Goto(b, IF pc[b] = "verify" THEN "syncTree" ELSE "syncRoot") /\ layout' = layout
             /\ (pc[b] = "syncTree" => synced' = synced \cup {b})
    <3>1. /\ pc'[b] = (IF pc[b] = "verify" THEN "syncTree" ELSE "syncRoot")
          /\ \A c \in Builds : c # b => pc'[c] = pc[c]
      BY <1>0, <1>6, <2>2, Goes DEF VerifyAndPin, SyncTree
    <3>2. /\ UNCHANGED <<got, layout, manifest, named, dManifest>> /\ pc[b] \in {"verify", "syncTree"}
          /\ synced \subseteq synced' /\ (pc[b] = "syncTree" => b \in synced')
      BY <1>6, <2>2 DEF VerifyAndPin, SyncTree, mirror, disk
    <3>3. \A c \in Builds : LayoutAt(c)'
      BY <3>1, <3>2 DEF LayoutInv, LayoutAt, Unpublished
    <3> QED
      BY <3>2, <3>3 DEF LayoutInv, Durable
  <2> QED
    BY <1>6, <2>1, <2>2 DEF VerifyAndPin, SyncTree, disk
<1>7. ASSUME NEW b \in Builds, SyncRoot(b) PROVE LayoutInv'
  <2>1. CASE GiveUpLayout(b)
    <3>1. CASE UNCHANGED <<named, dManifest>>
      BY <1>7, <2>1, <3>1, GiveUpKeepsLayout DEF SyncRoot, Holding, Unpublished, mirror
    <3>2. CASE Goto(b, "publish")
      BY <1>0, <2>1, <3>2, Goes, GivesUpLayout
    <3> QED
      BY <1>7, <3>1, <3>2 DEF SyncRoot
  <2>2. CASE SyncEntries /\ Goto(b, "publish") /\ layout' = layout
    <3>1. pc'[b] = "publish" /\ \A c \in Builds : c # b => pc'[c] = pc[c]
      BY <1>0, <2>2, Goes
    <3>2. /\ UNCHANGED <<got, layout, manifest, synced>> /\ pc[b] = "syncRoot"
          /\ named' = {c \in Builds : layout[c] # Absent} /\ dManifest' = manifest
      BY <1>7, <2>2 DEF SyncRoot, SyncEntries, mirror
    <3>3. manifest # b /\ layout[b] = Images /\ b \in synced
      BY <3>2 DEF LayoutInv, LayoutAt, Unpublished
    <3>4. \A c \in Builds : c # b => LayoutAt(c)'
      BY <3>1, <3>2, OthersLayout DEF LayoutInv, Holding
    <3>5. LayoutAt(b)'
      BY <3>1, <3>2, <3>3, Consts DEF LayoutAt
    <3>6. Durable(manifest)' /\ Durable(dManifest)'
      BY <3>2, Consts DEF LayoutInv, Durable, TypesInv
    <3> QED
      BY <3>4, <3>5, <3>6 DEF LayoutInv
  <2> QED
    BY <1>7, <2>1, <2>2 DEF SyncRoot
<1>8. ASSUME NEW b \in Builds, PublishManifest(b) PROVE LayoutInv'
  <2>1. CASE GiveUpLayout(b) /\ UNCHANGED manifest
    BY <1>8, <2>1, GiveUpKeepsLayout DEF PublishManifest, Holding, Unpublished, mirror, disk
  <2>2. CASE manifest' = b /\ Goto(b, "syncManifest") /\ layout' = layout
    <3>1. pc'[b] = "syncManifest" /\ \A c \in Builds : c # b => pc'[c] = pc[c]
      BY <1>0, <2>2, Goes
    <3>2. UNCHANGED <<got, layout, disk>> /\ pc[b] = "publish"
      BY <1>8, <2>2 DEF PublishManifest, mirror
    <3>3. layout[b] = Images /\ b \in synced /\ b \in named
      BY <3>2 DEF LayoutInv, LayoutAt
    <3>4. \A c \in Builds : c # b => LayoutAt(c)'
      BY <2>2, <3>1, <3>2, OthersLayout DEF LayoutInv, Holding, disk
    <3>5. LayoutAt(b)'
      BY <2>2, <3>1 DEF LayoutAt, Unpublished
    <3>6. Durable(manifest)' /\ Durable(dManifest)'
      BY <2>2, <3>2, <3>3 DEF LayoutInv, Durable, disk
    <3> QED
      BY <3>4, <3>5, <3>6 DEF LayoutInv
  <2> QED
    BY <1>8, <2>1, <2>2 DEF PublishManifest
<1>9. ASSUME NEW b \in Builds, SyncManifest(b) PROVE LayoutInv'
  <2>1. CASE Goto(b, "failed") /\ UNCHANGED <<named, dManifest>>
    BY <1>9, <2>1, ElsewhereKeepsLayout, Consts DEF SyncManifest, mirror, disk, Ended
  <2>2. CASE SyncEntries /\ Goto(b, "gc")
    <3>1. pc'[b] = "gc" /\ \A c \in Builds : c # b => pc'[c] = pc[c]
      BY <1>0, <2>2, Goes
    <3>2. /\ UNCHANGED <<got, layout, manifest, synced>> /\ pc[b] = "syncManifest"
          /\ named' = {c \in Builds : layout[c] # Absent} /\ dManifest' = manifest
      BY <1>9, <2>2 DEF SyncManifest, SyncEntries, mirror
    <3>3. manifest = b
      BY <3>2 DEF LayoutInv, LayoutAt
    <3>4. \A c \in Builds : c # b => LayoutAt(c)'
      BY <3>1, <3>2, OthersLayout DEF LayoutInv, Holding
    <3>5. LayoutAt(b)'
      BY <3>1, <3>2, <3>3 DEF LayoutAt, Unpublished
    <3>6. Durable(manifest)' /\ Durable(dManifest)'
      BY <3>2, Consts DEF LayoutInv, Durable, TypesInv
    <3> QED
      BY <3>4, <3>5, <3>6 DEF LayoutInv
  <2> QED
    BY <1>9, <2>1, <2>2 DEF SyncManifest
<1>10. ASSUME NEW b \in Builds, GCLayouts(b) PROVE LayoutInv'
  <2>1. pc'[b] = "binary" /\ pc[b] = "gc" /\ \A c \in Builds : c # b => pc'[c] = pc[c]
    BY <1>0, <1>10, Goes DEF GCLayouts
  <2>2. manifest = b /\ dManifest = b /\ UNCHANGED <<got, manifest, disk>>
    BY <1>10, <2>1 DEF LayoutInv, LayoutAt, GCLayouts, mirror
  <2>3. layout'[b] = layout[b]
    BY <1>10, <2>2 DEF GCLayouts, Superseded
  <2>4. \A c \in Builds : c # b => LayoutAt(c)'
    BY <2>1, <2>2, OthersLayout DEF LayoutInv, Holding, disk
  <2>5. LayoutAt(b)'
    BY <2>1 DEF LayoutAt, Unpublished
  <2>6. Durable(manifest)' /\ Durable(dManifest)'
    BY <2>2, <2>3 DEF LayoutInv, Durable, disk
  <2> QED
    BY <2>4, <2>5, <2>6 DEF LayoutInv
<1>11. CASE MoveTag \/ UNCHANGED vars
  BY <1>11 DEF MoveTag, vars, mirror, disk, LayoutInv, LayoutAt, Durable
<1>12. CASE PowerLoss
  <2>1. /\ pc' = [c \in Builds |-> IF Running(c) THEN "crashed" ELSE pc[c]] /\ got' = got
        /\ manifest' \in {manifest, dManifest} /\ dManifest' = manifest'
        /\ \A c \in Builds : layout'[c] \in Remains(c)
        /\ named' = {c \in Builds : layout'[c] # Absent} /\ synced' = named'
    BY <1>12 DEF PowerLoss, mirror
  <2>2. \A c \in Builds : LayoutAt(c)'
    BY <2>1 DEF LayoutInv, LayoutAt, Running, Ended, Unpublished
  <2>3. ASSUME NEW m \in Builds, m \in {manifest, dManifest} PROVE layout'[m] = Images
    <3>1. layout[m] = Images /\ m \in named /\ m \in synced
      BY <2>3, Consts DEF LayoutInv, Durable
    <3>2. Remains(m) = {Images}
      BY <3>1, Consts DEF Remains
    <3> QED
      BY <2>1, <3>2
  <2>4. Durable(manifest)' /\ Durable(dManifest)'
    BY SMTT(30), <2>1, <2>3, Consts DEF Durable, TypesInv
  <2> QED
    BY <2>2, <2>4 DEF LayoutInv
<1> QED
  BY <1>1, <1>2, <1>3, <1>4, <1>5, <1>6, <1>7, <1>8, <1>9, <1>10, <1>11, <1>12 DEF Next, Step

-----------------------------------------------------------------------------
(* The signatures. *)

\* An image is added to the sequence of a build together with its own signatures
\* or with none.
LEMMA SignedNext ==
    ASSUME TypesInv, SignedInv, [Next]_vars
    PROVE  SignedInv'
<1>1. CASE UNCHANGED <<got, sigs>>
  BY <1>1 DEF SignedInv
<1>2. ASSUME NEW b \in Builds, NEW digest \in Nat, Mirrored(b, digest), digest \in {copied[b], Unsigned}
      PROVE  SignedInv'
  <2>1. /\ got'[b] = Append(got[b], copied[b]) /\ sigs'[b] = Append(sigs[b], digest)
        /\ \A c \in Builds : c # b => got'[c] = got[c] /\ sigs'[c] = sigs[c]
    BY <1>2 DEF TypesInv, Mirrored
  <2>2. got[b] \in Seq(Digests) /\ copied[b] \in Digests /\ sigs[b] \in Seq(Nat)
    BY DEF TypesInv
  <2>3. Len(sigs[b]) = Len(got[b]) /\ \A i \in 1 .. Len(got[b]) : sigs[b][i] \in {got[b][i], Unsigned}
    BY DEF SignedInv
  <2>4. Len(got'[b]) = Len(got[b]) + 1 /\ Len(sigs'[b]) = Len(got[b]) + 1
    BY <2>1, <2>2, <2>3
  <2>5. ASSUME NEW i \in 1 .. Len(got[b]) + 1 PROVE sigs'[b][i] \in {got'[b][i], Unsigned}
    <3>1. CASE i = Len(got[b]) + 1
      BY <1>2, <2>1, <2>2, <2>3, <3>1
    <3>2. CASE i \in 1 .. Len(got[b])
      BY <2>1, <2>2, <2>3, <3>2
    <3>3. Len(got[b]) \in Nat
      BY <2>2
    <3>4. i = Len(got[b]) + 1 \/ i \in 1 .. Len(got[b])
      BY <3>3
    <3> QED
      BY <3>1, <3>2, <3>4
  <2> QED
    BY <2>1, <2>4, <2>5 DEF SignedInv
<1>3. ASSUME NEW b \in Builds, CaptureSourceSignatures(b) PROVE SignedInv'
  <2>1. Reopened(b) \in Nat /\ Unsigned \in Nat
    BY ResolvedTyped, Consts DEF Reopened, Digests, Unsigned
  <2> QED
    BY <1>1, <1>2, <1>3, <2>1 DEF CaptureSourceSignatures
<1>4. ASSUME NEW b \in Builds, Step(b), ~CaptureSourceSignatures(b) PROVE UNCHANGED <<got, sigs>>
  BY <1>4 DEF Step, BuildLiveISO, ResolveImages, LockP2Root, MakeLayout, CopyIntoLayout, VerifyAndPin, SyncTree,
       SyncRoot, PublishManifest, SyncManifest, GCLayouts, StageLCABinary, StartStore, Import, MoveAside, SwapIn,
       RestoreAside, DiscardAside, mirror
<1>5. CASE MoveTag \/ PowerLoss \/ UNCHANGED vars \/ \E b \in Builds : Crash(b)
  BY <1>1, <1>5 DEF MoveTag, PowerLoss, Crash, mirror, vars
<1> QED
  BY <1>1, <1>3, <1>4, <1>5 DEF Next

-----------------------------------------------------------------------------
(* The store. *)

\* The steps at which a build works on the store.
StoreSteps == {"import", "aside", "swap", "restore", "discard"}

\* A step that leaves the stores alone and is not one of them.
LEMMA ElsewhereKeepsStore ==
    ASSUME TypesInv, StoreInv, NEW b \in Builds, NEW l \in Steps \ StoreSteps, Goto(b, l),
           UNCHANGED <<stores, power>>, faults' \in {faults, faults + 1}
    PROVE  StoreInv'
<1>1. pc'[b] = l /\ \A c \in Builds : c # b => pc'[c] = pc[c]
  BY Goes
<1>2. (faults' = 0 => faults = 0) /\ (faults > 0 => faults' > 0)
  <2>1. faults \in Nat
    BY DEF TypesInv
  <2> QED
    BY <2>1
<1>3. ASSUME NEW c \in Builds, c # b PROVE StoreAt(c)'
  <2>1. StoreAt(c)
    BY DEF StoreInv
  <2> QED
    BY <1>1, <1>2, <1>3, <2>1 DEF StoreAt, stores
<1>4. StoreAt(b)'
  BY <1>1 DEF StoreAt, StoreSteps
<1> QED
  BY <1>3, <1>4 DEF StoreInv, stores

\* The builds that wait for the lock do not mind what becomes of the store.
LEMMA OthersStore ==
    ASSUME LockInv, NEW b \in Builds, pc[b] \in Holding, NEW c \in Builds, c # b, pc'[c] = pc[c]
    PROVE  StoreAt(c)'
BY OthersWait DEF StoreAt, Holding

\* A build that gives up with the store as it is, or as it was.
LEMMA GiveUpKeepsStore ==
    ASSUME TypesInv, LockInv, StoreInv, NEW b \in Builds, pc[b] \in Holding, GiveUpStore(b),
           power' = power, {store', backup'} \subseteq {store, backup, Nothing}
    PROVE  StoreInv'
<1>1. pc'[b] = "failed" /\ \A c \in Builds : c # b => pc'[c] = pc[c]
  BY GivesUpStore, Goes, Consts DEF Ended
<1>2. \A c \in Builds : c # b => StoreAt(c)'
  BY <1>1, OthersStore
<1>3. StoreAt(b)'
  BY <1>1 DEF StoreAt
<1> QED
  BY <1>2, <1>3 DEF StoreInv

\* The store is replaced by one that is whole, and comes back if that fails.
LEMMA StoreNext ==
    ASSUME TypesInv, LockInv, StoreInv, [Next]_vars
    PROVE  StoreInv'
<1>0. {"none", "resolve", "lock", "mkdir", "copy", "signatures", "verify", "syncTree", "syncRoot", "publish",
       "syncManifest", "gc", "binary", "storeLock", "parse", "import", "aside", "swap", "restore", "discard",
       "done", "failed", "crashed"} = Steps
  BY DEF Steps, Unpublished, Published, Ended
<1>1. ASSUME NEW b \in Builds,
             \/ BuildLiveISO(b) \/ ResolveImages(b) \/ LockP2Root(b) \/ MakeLayout(b) \/ VerifyAndPin(b)
             \/ SyncTree(b) \/ SyncRoot(b) \/ PublishManifest(b) \/ SyncManifest(b) \/ GCLayouts(b)
             \/ StageLCABinary(b)
      PROVE  StoreInv'
  <2>1. \E l \in Steps \ StoreSteps : Goto(b, l)
    BY <1>0, <1>1 DEF BuildLiveISO, ResolveImages, LockP2Root, MakeLayout, VerifyAndPin, SyncTree, SyncRoot,
         PublishManifest, SyncManifest, GCLayouts, StageLCABinary, GiveUpLayout, StoreSteps
  <2>2. UNCHANGED <<stores, power>> /\ faults' \in {faults, faults + 1}
    BY <1>1 DEF BuildLiveISO, ResolveImages, LockP2Root, MakeLayout, VerifyAndPin, SyncTree, SyncRoot,
         PublishManifest, SyncManifest, GCLayouts, StageLCABinary, Quiet, Fault
  <2> QED
    BY <2>1, <2>2, ElsewhereKeepsStore
<1>2. ASSUME NEW b \in Builds, CopyIntoLayout(b) \/ CaptureSourceSignatures(b) PROVE StoreInv'
  <2>1. UNCHANGED <<stores, power>> /\ faults' \in {faults, faults + 1}
    BY <1>2 DEF CopyIntoLayout, CaptureSourceSignatures, Mirrored, Quiet, Fault
  <2>2. \/ Goto(b, "signatures")
        \/ \E digest : Mirrored(b, digest)
        \/ \E retryable \in BOOLEAN : FailedAttempt(b, retryable)
    BY <1>2 DEF CopyIntoLayout, CaptureSourceSignatures
  <2>3. \E l \in Steps \ StoreSteps : Goto(b, l)
    <3>1. {"signatures", "verify", "copy", "failed"} \subseteq Steps \ StoreSteps
      BY <1>0 DEF StoreSteps
    <3>2. \A digest : Mirrored(b, digest) => Goto(b, "verify") \/ Goto(b, "copy")
      BY DEF Mirrored
    <3>3. \A retryable \in BOOLEAN : FailedAttempt(b, retryable) => Goto(b, "copy") \/ Goto(b, "failed")
      BY AttemptFails, GivesUpLayout
    <3> QED
      BY <2>2, <3>1, <3>2, <3>3
  <2> QED
    BY <2>1, <2>3, ElsewhereKeepsStore
<1>3. ASSUME NEW b \in Builds, StartStore(b) PROVE StoreInv'
  <2>0. pc[b] = "parse" /\ pc[b] \in Holding /\ power' = power /\ store' = store
    BY <1>3 DEF StartStore, Quiet, Holding
  <2>1. CASE GiveUpStore(b) /\ backup' = backup
    BY <2>0, <2>1, GiveUpKeepsStore
  <2>2. ASSUME manifest # Nobody, from' = [from EXCEPT ![b] = manifest], Goto(b, "import"),
               NEW failing \in BOOLEAN, IF failing THEN Fault ELSE UNCHANGED faults,
               staging' = [c \in Builds |-> IF c = b THEN [of |-> manifest, whole |-> FALSE]
                                             ELSE IF failing THEN staging[c] ELSE Nothing],
               backup' = IF failing THEN backup ELSE Nothing
        PROVE  StoreInv'
    <3>1. pc'[b] = "import" /\ \A c \in Builds : c # b => pc'[c] = pc[c]
      BY <1>0, <2>2, Goes
    <3>2. \A c \in Builds : c # b => StoreAt(c)'
      BY <2>0, <3>1, OthersStore
    <3>3. staging'[b].of = manifest /\ from'[b] = manifest /\ manifest \in Builds
      <4>1. staging'[b].of = manifest
        <5>1. staging'[b] = [of |-> manifest, whole |-> FALSE]
          BY <2>2
        <5> QED
          BY <5>1
      <4>2. from'[b] = manifest /\ manifest \in Builds
        <5>1. from \in [Builds -> Builds \cup {Nobody}] /\ manifest \in Builds \cup {Nobody}
          BY DEF TypesInv
        <5> QED
          BY <2>2, <5>1
      <4> QED
        BY <4>1, <4>2
    <3>4. faults' = 0 => backup' = Nothing /\ \A c \in Builds \ {b} : staging'[c] = Nothing
      <4>1. failing => faults' # 0
        BY <2>2, FaultCounted
      <4> QED
        BY <2>2, <4>1
    <3>5. StoreAt(b)'
      BY <3>1, <3>3, <3>4 DEF StoreAt
    <3>6. backup' \in {backup, Nothing}
      BY <2>2
    <3> QED
      BY <2>0, <3>2, <3>5, <3>6 DEF StoreInv
  <2> QED
    BY <1>3, <2>1, <2>2 DEF StartStore
<1>4. ASSUME NEW b \in Builds, Import(b) PROVE StoreInv'
  <2>0. pc[b] = "import" /\ pc[b] \in Holding /\ UNCHANGED <<power, store, backup, from>>
    BY <1>4 DEF Import, Quiet, Holding
  <2>1. CASE GiveUpStore(b)
    BY <2>0, <2>1, GiveUpKeepsStore
  <2>2. CASE staging' = [staging EXCEPT ![b].whole = TRUE] /\ Goto(b, "aside") /\ UNCHANGED faults
    <3>1. pc'[b] = "aside" /\ \A c \in Builds : c # b => pc'[c] = pc[c]
      BY <1>0, <2>2, Goes
    <3>2. \A c \in Builds : c # b => StoreAt(c)'
      BY <2>0, <3>1, OthersStore
    <3>3. staging'[b].of = staging[b].of /\ staging'[b].whole /\ \A c \in Builds \ {b} : staging'[c] = staging[c]
      BY <2>2 DEF TypesInv, Stores
    <3>4. StoreAt(b)
      BY DEF StoreInv
    <3>5. StoreAt(b)'
      BY <2>0, <2>2, <3>1, <3>3, <3>4 DEF StoreAt
    <3> QED
      BY <2>0, <3>2, <3>5 DEF StoreInv
  <2> QED
    BY <1>4, <2>1, <2>2 DEF Import
<1>5. ASSUME NEW b \in Builds, MoveAside(b) PROVE StoreInv'
  <2>0. pc[b] = "aside" /\ pc[b] \in Holding /\ UNCHANGED <<power, from>>
    BY <1>5 DEF MoveAside, Quiet, Holding
  <2>1. CASE GiveUpStore(b) /\ UNCHANGED <<store, backup>>
    BY <2>0, <2>1, GiveUpKeepsStore
  <2>2. CASE /\ aside' = [aside EXCEPT ![b] = store # Nothing]
             /\ backup' = (IF store = Nothing THEN backup ELSE store) /\ store' = Nothing
             /\ Goto(b, "swap") /\ UNCHANGED <<staging, faults>>
    <3>1. pc'[b] = "swap" /\ \A c \in Builds : c # b => pc'[c] = pc[c]
      BY <1>0, <2>2, Goes
    <3>2. \A c \in Builds : c # b => StoreAt(c)'
      BY <2>0, <3>1, OthersStore
    <3>3. aside'[b] <=> store # Nothing
      BY <2>2 DEF TypesInv
    <3>4. StoreAt(b)
      BY DEF StoreInv
    <3>5. StoreAt(b)'
      BY <2>0, <2>2, <3>1, <3>3, <3>4 DEF StoreAt
    <3> QED
      BY <2>0, <2>2, <3>2, <3>5 DEF StoreInv
  <2> QED
    BY <1>5, <2>1, <2>2 DEF MoveAside
<1>6. ASSUME NEW b \in Builds, SwapIn(b) PROVE StoreInv'
  <2>0. pc[b] = "swap" /\ pc[b] \in Holding /\ UNCHANGED <<power, from, backup, aside>> /\ StoreAt(b)
    BY <1>6 DEF SwapIn, Quiet, Holding, StoreInv
  <2>1. CASE store' = staging[b] /\ staging' = [staging EXCEPT ![b] = Nothing] /\ Goto(b, "discard")
             /\ UNCHANGED faults
    <3>1. pc'[b] = "discard" /\ \A c \in Builds : c # b => pc'[c] = pc[c]
      BY <1>0, <2>1, Goes
    <3>2. \A c \in Builds : c # b => StoreAt(c)'
      BY <2>0, <3>1, OthersStore
    <3>3. \A c \in Builds : staging'[c] = IF c = b THEN Nothing ELSE staging[c]
      BY <2>1 DEF TypesInv
    <3>4. StoreAt(b)'
      BY <2>0, <2>1, <3>1, <3>3 DEF StoreAt
    <3>5. staging[b].whole
      BY <2>0 DEF StoreAt
    <3> QED
      BY <2>0, <2>1, <3>2, <3>4, <3>5 DEF StoreInv
  <2>2. CASE Fault /\ Goto(b, "restore") /\ UNCHANGED <<store, staging>>
    <3>1. pc'[b] = "restore" /\ \A c \in Builds : c # b => pc'[c] = pc[c]
      BY <1>0, <2>2, Goes
    <3>2. \A c \in Builds : c # b => StoreAt(c)'
      BY <2>0, <3>1, OthersStore
    <3>3. faults' > 0
      BY <2>2, FaultCounted
    <3>4. StoreAt(b)'
      BY <2>0, <2>2, <3>1, <3>3 DEF StoreAt
    <3> QED
      BY <2>0, <2>2, <3>2, <3>4 DEF StoreInv
  <2> QED
    BY <1>6, <2>1, <2>2 DEF SwapIn
<1>7. ASSUME NEW b \in Builds, RestoreAside(b) PROVE StoreInv'
  <2>1. /\ pc[b] \in Holding /\ power' = power /\ GiveUpStore(b)
        /\ {store', backup'} \subseteq {store, backup, Nothing}
    BY <1>7 DEF RestoreAside, Quiet, Holding
  <2> QED
    BY <2>1, GiveUpKeepsStore
<1>8. ASSUME NEW b \in Builds, DiscardAside(b) PROVE StoreInv'
  <2>0. pc[b] \in Holding /\ UNCHANGED <<power, store>> /\ backup' \in {backup, Nothing}
    BY <1>8 DEF DiscardAside, Quiet, Holding
  <2>1. pc'[b] = "done" /\ \A c \in Builds : c # b => pc'[c] = pc[c]
    BY <1>0, <1>8, Goes DEF DiscardAside
  <2>2. \A c \in Builds : c # b => StoreAt(c)'
    BY <2>0, <2>1, OthersStore
  <2>3. StoreAt(b)'
    BY <2>1 DEF StoreAt
  <2> QED
    BY <2>0, <2>2, <2>3 DEF StoreInv
<1>9. ASSUME NEW b \in Builds, Crash(b) PROVE StoreInv'
  <2>1. "crashed" \in Steps \ StoreSteps
    BY <1>0 DEF StoreSteps
  <2> QED
    BY <1>9, <2>1, ElsewhereKeepsStore DEF Crash
<1>10. CASE MoveTag \/ UNCHANGED vars
  BY <1>10 DEF MoveTag, vars, stores, StoreInv, StoreAt
<1>11. CASE PowerLoss
  <2>1. /\ pc' = [c \in Builds |-> IF Running(c) THEN "crashed" ELSE pc[c]]
        /\ power' # 0
    BY <1>11 DEF PowerLoss, TypesInv
  <2>2. \A c \in Builds : StoreAt(c)'
    BY <2>1 DEF StoreAt, Running, Ended
  <2> QED
    BY <2>1, <2>2 DEF StoreInv
<1> QED
  BY <1>1, <1>2, <1>3, <1>4, <1>5, <1>6, <1>7, <1>8, <1>9, <1>10, <1>11 DEF Next, Step

-----------------------------------------------------------------------------
(* A build that no other one overlaps. *)

\* What a build with the directory to itself has to show of its own step.
LEMMA OwnStep ==
    ASSUME TypesInv, OwnInv, NEW b \in Builds, Running(b), NEW l \in Steps, Goto(b, l),
           UNCHANGED <<concurrent, mode>>,
           \A c \in Builds : c # b => got'[c] = got[c] /\ pins'[c] = pins[c],
           ~concurrent => OwnAt(b)',
           l \in Published \ {"binary"} => mode[b] = "self-contained",
           l \in Published \cup {"syncTree", "syncRoot", "publish", "syncManifest", "gc"}
               /\ mode[b] = "self-contained" => pins'[b] = got'[b]
    PROVE  OwnInv'
<1>1. pc'[b] = l /\ \A c \in Builds : c # b => pc'[c] = pc[c]
  BY Goes
<1>2. ASSUME ~concurrent, NEW c \in Builds, c # b PROVE ~Running(c) /\ ~Running(c)' /\ OwnAt(c)'
  <2>1. ~Running(c)
    BY <1>2 DEF OwnInv
  <2> QED
    BY <1>1, <1>2, <2>1 DEF Running, OwnAt, Published, Ended
<1>3. ~concurrent' => /\ \A c, d \in Builds : Running(c)' /\ Running(d)' => c = d
                      /\ \A c \in Builds : OwnAt(c)'
  BY <1>2
<1>4. \A c \in Builds : pc'[c] \in Published \ {"binary"} => mode'[c] = "self-contained"
  BY <1>1 DEF OwnInv
<1>5. \A c \in Builds : pc'[c] \in Published \cup {"syncTree", "syncRoot", "publish", "syncManifest", "gc"}
                            /\ mode'[c] = "self-contained" => pins'[c] = got'[c]
  BY <1>1 DEF OwnInv
<1> QED
  BY <1>3, <1>4, <1>5 DEF OwnInv

\* The steps before the commit.
LEMMA OwnUnpublished ==
    ASSUME TypesInv, OwnInv, NEW b \in Builds, Running(b), NEW l \in Steps \ Published, Goto(b, l),
           UNCHANGED <<concurrent, mode>>,
           \A c \in Builds : c # b => got'[c] = got[c] /\ pins'[c] = pins[c],
           l \in {"syncTree", "syncRoot", "publish", "syncManifest", "gc"}
               /\ mode[b] = "self-contained" => pins'[b] = got'[b]
    PROVE  OwnInv'
<1>1. pc'[b] = l
  BY Goes
<1>2. OwnAt(b)'
  BY <1>1 DEF OwnAt, Published
<1> QED
  BY <1>2, OwnStep

\* What a build has left is there at the next one of its steps.
LEMMA OwnNext ==
    ASSUME TypesInv, LockInv, LayoutInv, OwnInv, [Next]_vars
    PROVE  OwnInv'
<1>0. {"none", "resolve", "lock", "mkdir", "copy", "signatures", "verify", "syncTree", "syncRoot", "publish",
       "syncManifest", "gc", "binary", "storeLock", "parse", "import", "aside", "swap", "restore", "discard",
       "done", "failed", "crashed"} = Steps
  BY DEF Steps, Unpublished, Published, Ended
<1>1. ASSUME NEW b \in Builds, BuildLiveISO(b) PROVE OwnInv'
  <2>1. PICK l \in {"resolve", "failed"} : Goto(b, l)
    BY <1>1 DEF BuildLiveISO
  <2>2. pc[b] = "none" /\ pc'[b] = l /\ \A c \in Builds : c # b => pc'[c] = pc[c]
    BY <1>0, <1>1, <2>1, Goes DEF BuildLiveISO
  <2>3. UNCHANGED <<concurrent, mode, got, pins>> /\ (concurrent \/ \A c \in Builds : ~Running(c))
    BY <1>1 DEF BuildLiveISO, Quiet
  <2>4. \A c \in Builds : ~concurrent => (Running(c)' => c = b) /\ OwnAt(c)'
    BY <2>1, <2>2, <2>3 DEF Running, OwnAt, Published, Ended
  <2>5. \A c \in Builds : pc'[c] \in Published \ {"binary"} => mode'[c] = "self-contained"
    BY <2>1, <2>2, <2>3 DEF OwnInv, Published
  <2>6. \A c \in Builds : pc'[c] \in Published \cup {"syncTree", "syncRoot", "publish", "syncManifest", "gc"}
                              /\ mode'[c] = "self-contained" => pins'[c] = got'[c]
    BY <2>1, <2>2, <2>3 DEF OwnInv, Published
  <2> QED
    BY <2>3, <2>4, <2>5, <2>6 DEF OwnInv
<1>2. ASSUME NEW b \in Builds,
             ResolveImages(b) \/ MakeLayout(b) \/ (LockP2Root(b) /\ pc[b] = "lock")
      PROVE  OwnInv'
  <2>1. \E l \in {"lock", "failed", "copy", "mkdir"} : Goto(b, l)
    BY <1>2 DEF ResolveImages, MakeLayout, LockP2Root, GiveUpLayout
  <2>2. Running(b) /\ UNCHANGED <<concurrent, mode, got, pins>>
    BY <1>2 DEF ResolveImages, MakeLayout, LockP2Root, Quiet, mirror, Running, Ended
  <2>3. {"lock", "failed", "copy", "mkdir"} \subseteq Steps \ Published
    BY <1>0 DEF Published
  <2> QED
    BY <2>1, <2>2, <2>3, OwnUnpublished
<1>3. ASSUME NEW b \in Builds, CopyIntoLayout(b) \/ CaptureSourceSignatures(b) PROVE OwnInv'
  <2>1. Running(b) /\ UNCHANGED <<concurrent, mode, pins>>
    BY <1>3 DEF CopyIntoLayout, CaptureSourceSignatures, Quiet, Running, Ended
  <2>2. \/ Goto(b, "signatures")
        \/ \E digest : Mirrored(b, digest)
        \/ \E retryable \in BOOLEAN : FailedAttempt(b, retryable)
    BY <1>3 DEF CopyIntoLayout, CaptureSourceSignatures
  <2>3. \E l \in {"signatures", "verify", "copy", "failed"} : Goto(b, l)
    <3>1. \A digest : Mirrored(b, digest) => Goto(b, "verify") \/ Goto(b, "copy")
      BY DEF Mirrored
    <3>2. \A retryable \in BOOLEAN : FailedAttempt(b, retryable) => Goto(b, "copy") \/ Goto(b, "failed")
      BY AttemptFails, GivesUpLayout
    <3> QED
      BY <2>2, <3>1, <3>2
  <2>4. \A c \in Builds : c # b => got'[c] = got[c]
    BY <1>3 DEF CopyIntoLayout, CaptureSourceSignatures, Mirrored, TypesInv
  <2>5. {"signatures", "verify", "copy", "failed"} \subseteq Steps \ Published
    BY <1>0 DEF Published
  <2> QED
    BY <2>1, <2>3, <2>4, <2>5, OwnUnpublished
<1>4. ASSUME NEW b \in Builds, VerifyAndPin(b) PROVE OwnInv'
  <2>1. Running(b) /\ UNCHANGED <<concurrent, mode, got>>
    BY <1>4 DEF VerifyAndPin, Quiet, Running, Ended
  <2>2. \/ Goto(b, "failed")
        \/ Goto(b, "syncTree") /\ (mode[b] = "self-contained" => pins'[b] = got[b])
    BY <1>4 DEF VerifyAndPin, GiveUpLayout, TypesInv
  <2>3. \A c \in Builds : c # b => pins'[c] = pins[c]
    BY <1>4 DEF VerifyAndPin, TypesInv
  <2>4. {"syncTree", "failed"} \subseteq Steps \ Published
    BY <1>0 DEF Published
  <2> QED
    BY <2>1, <2>2, <2>3, <2>4, OwnUnpublished
<1>5. ASSUME NEW b \in Builds, SyncTree(b) \/ SyncRoot(b) \/ PublishManifest(b) \/ SyncManifest(b) PROVE OwnInv'
  <2>1. Running(b) /\ UNCHANGED <<concurrent, mode, got, pins>>
        /\ pc[b] \in {"syncTree", "syncRoot", "publish", "syncManifest"}
    BY <1>5 DEF SyncTree, SyncRoot, PublishManifest, SyncManifest, Quiet, mirror, Running, Ended
  <2>2. \E l \in {"syncRoot", "publish", "syncManifest", "gc", "failed"} : Goto(b, l)
    BY <1>5 DEF SyncTree, SyncRoot, PublishManifest, SyncManifest, GiveUpLayout
  <2>3. {"syncRoot", "publish", "syncManifest", "gc", "failed"} \subseteq Steps \ Published
    BY <1>0 DEF Published
  <2>4. mode[b] = "self-contained" => pins[b] = got[b]
    BY <2>1 DEF OwnInv
  <2> QED
    BY <2>1, <2>2, <2>3, <2>4, OwnUnpublished
<1>6. ASSUME NEW b \in Builds, GCLayouts(b) PROVE OwnInv'
  <2>1. /\ Running(b) /\ UNCHANGED <<concurrent, mode, got, pins, manifest>> /\ pc[b] = "gc"
        /\ Goto(b, "binary") /\ pc'[b] = "binary" /\ manifest = b
    BY <1>0, <1>6, Goes DEF GCLayouts, Quiet, mirror, Running, Ended, LayoutInv, LayoutAt
  <2>2. faults' = 0 => \A c \in Builds : layout'[c] # Absent => c = b
    <3>1. CASE Fault
      BY <3>1, FaultCounted
    <3>2. CASE layout' = [c \in Builds |-> IF c \in Superseded THEN Absent ELSE layout[c]]
      BY <2>1, <3>2 DEF Superseded
    <3> QED
      BY <1>6, <3>1, <3>2 DEF GCLayouts
  <2>3. OwnAt(b)'
    BY <2>1, <2>2 DEF OwnAt
  <2>4. mode[b] = "self-contained" => pins[b] = got[b]
    BY <2>1 DEF OwnInv
  <2>5. "binary" \in Steps /\ "binary" \in Published
    BY <1>0 DEF Published
  <2> QED
    BY <2>1, <2>3, <2>4, <2>5, OwnStep
<1>7. ASSUME NEW b \in Builds,
             \/ StageLCABinary(b) \/ (LockP2Root(b) /\ pc[b] = "storeLock") \/ StartStore(b) \/ Import(b)
             \/ MoveAside(b) \/ SwapIn(b) \/ RestoreAside(b) \/ DiscardAside(b)
      PROVE  OwnInv'
  <2>1. /\ Running(b) /\ UNCHANGED <<concurrent, mode, got, pins, manifest, layout>> /\ pc[b] \in Published
        /\ faults' \in {faults, faults + 1}
    BY <1>7 DEF StageLCABinary, LockP2Root, StartStore, Import, MoveAside, SwapIn, RestoreAside, DiscardAside,
         Quiet, Fault, mirror, Running, Ended, Published
  <2>2. PICK l \in {"storeLock", "parse", "import", "aside", "swap", "restore", "discard", "failed", "done"} :
          /\ Goto(b, l)
          /\ pc[b] = "binary" /\ l # "failed" /\ l # "done" => mode[b] = "self-contained"
          /\ l \in {"import", "aside", "swap", "restore", "discard"} =>
               from'[b] = (IF pc[b] = "parse" THEN manifest ELSE from[b])
               /\ pc[b] \in {"parse", "import", "aside", "swap", "restore", "discard"}
    BY <1>7 DEF StageLCABinary, LockP2Root, StartStore, Import, MoveAside, SwapIn, RestoreAside, DiscardAside,
         GiveUpStore, TypesInv
  <2>3. pc'[b] = l /\ l \in Steps
    BY <1>0, <2>2, Goes
  <2>4. faults' = 0 => faults = 0
    <3>1. faults \in Nat
      BY DEF TypesInv
    <3> QED
      BY <2>1, <3>1
  <2>5. ASSUME ~concurrent PROVE OwnAt(b)'
    <3>1. OwnAt(b)
      BY <2>5 DEF OwnInv
    <3> QED
      BY <2>1, <2>2, <2>3, <2>4, <3>1 DEF OwnAt, Published
  <2>6. l \in Published \ {"binary"} => mode[b] = "self-contained"
    BY <2>1, <2>2 DEF OwnInv, Published
  <2>7. mode[b] = "self-contained" => pins[b] = got[b]
    BY <2>1 DEF OwnInv
  <2> QED
    BY <2>1, <2>2, <2>3, <2>5, <2>6, <2>7, OwnStep
<1>8. ASSUME NEW b \in Builds, Crash(b) PROVE OwnInv'
  <2>1. "crashed" \in Steps \ Published
    BY <1>0 DEF Published
  <2> QED
    BY <1>8, <2>1, OwnUnpublished DEF Crash, mirror
<1>9. CASE MoveTag \/ UNCHANGED vars
  BY <1>9 DEF MoveTag, vars, mirror, stores, OwnInv, OwnAt, Running
<1>10. CASE PowerLoss
  <2>1. /\ pc' = [c \in Builds |-> IF Running(c) THEN "crashed" ELSE pc[c]]
        /\ UNCHANGED <<concurrent, mode, got, pins>>
    BY <1>10 DEF PowerLoss, mirror
  <2>2. \A c \in Builds : ~Running(c)' /\ pc'[c] \notin Published \cup {"syncTree", "syncRoot", "publish",
                                                                           "syncManifest", "gc"}
    BY <2>1 DEF Running, Ended, Published
  <2>3. \A c \in Builds : OwnAt(c)'
    BY <2>2 DEF OwnAt, Published
  <2> QED
    BY <2>2, <2>3 DEF OwnInv
<1>11. ASSUME NEW b \in Builds, LockP2Root(b) PROVE pc[b] = "lock" \/ pc[b] = "storeLock"
  BY <1>11 DEF LockP2Root
<1> QED
  BY <1>1, <1>2, <1>3, <1>4, <1>5, <1>6, <1>7, <1>8, <1>9, <1>10, <1>11 DEF Next, Step

-----------------------------------------------------------------------------
(* The theorems. *)

\* The empty root directory satisfies the invariant.
LEMMA InvInit == Init => Inv
<1> SUFFICES ASSUME Init PROVE Inv
  OBVIOUS
<1>0. \A b \in Builds : pc[b] = "none"
  BY DEF Init
<1>1. TypesInv
  <2>1. /\ lock \in Builds \cup {Nobody} /\ manifest \in Builds \cup {Nobody} /\ dManifest \in Builds \cup {Nobody}
        /\ from \in [Builds -> Builds \cup {Nobody}] /\ mode \in [Builds -> Modes]
        /\ aside \in [Builds -> BOOLEAN] /\ named \subseteq Builds /\ synced \subseteq Builds
        /\ faults \in Nat /\ power \in Nat
    BY DEF Init
  <2>2. pc \in [Builds -> Steps]
    BY DEF Init, Steps, Unpublished
  <2>3. staging \in [Builds -> Stores] /\ store \in Stores /\ backup \in Stores
    <3>1. Nothing \in Stores
      BY Consts
    <3> HIDE DEF Stores, Nothing
    <3> QED
      BY <3>1 DEF Init
  <2>4. 0 \in Digests /\ tag \in 1 .. MaxTag + 1
    BY Consts DEF Init, Digests
  <2>5. Absent \in 0 .. Absent /\ 1 \in 1 .. MaxTries
    BY Consts DEF MaxTries
  <2>6. layout \in [Builds -> 0 .. Absent] /\ tries \in [Builds -> 1 .. MaxTries]
    BY <2>5 DEF Init
  <2>7. /\ copied \in [Builds -> Digests] /\ got \in [Builds -> Seq(Digests)] /\ sigs \in [Builds -> Seq(Nat)]
        /\ pins \in [Builds -> Seq(Digests)]
    <3>1. <<>> \in Seq(Digests) /\ <<>> \in Seq(Nat)
      OBVIOUS
    <3> HIDE DEF Digests
    <3> QED
      BY <2>4, <3>1 DEF Init
  <2> QED
    BY <2>1, <2>2, <2>3, <2>4, <2>6, <2>7 DEF TypesInv
<1>2. LockInv
  BY <1>0 DEF LockInv, Holding
<1>3. LayoutInv
  BY <1>0, Consts DEF Init, LayoutInv, LayoutAt, Durable
<1>4. SignedInv
  BY DEF Init, SignedInv
<1>5. StoreInv
  BY <1>0 DEF Init, StoreInv, StoreAt
<1>6. OwnInv
  BY <1>0 DEF OwnInv, OwnAt, Running, Published
<1> QED
  BY <1>1, <1>2, <1>3, <1>4, <1>5, <1>6 DEF Inv

\* Every step keeps it.
LEMMA InvNext == Inv /\ [Next]_vars => Inv'
<1> SUFFICES ASSUME Inv, [Next]_vars PROVE Inv'
  OBVIOUS
<1>1. TypesInv'
  <2>1. CASE UNCHANGED vars
    BY <2>1 DEF Inv, TypesInv, vars, mirror, stores, disk
  <2>2. ASSUME NEW b \in Builds, Step(b) PROVE TypesInv'
    <3>1. LayoutAt(b)
      BY DEF Inv, LayoutInv
    <3> QED
      BY <2>2, <3>1, LayoutTyped, StoreTyped DEF Inv, Step
  <2> QED
    BY <2>1, <2>2, EnvironmentTyped DEF Next, Inv
<1> QED
  BY <1>1, LockNext, LayoutNext, SignedNext, StoreNext, OwnNext DEF Inv

\* The inductive invariant of the root directory that builds share, under
\* lockP2Root.
THEOREM LayoutInvariance == Spec => []Inv
BY InvInit, InvNext, PTL DEF Spec

\* The root directory and the builds stay well typed (build and the functions
\* it calls in createusb).
THEOREM TypeCorrect == Spec => []TypeOK
<1>1. Inv => TypeOK
  BY DEF Inv, TypesInv, TypeOK, Stores, Digests
<1> QED
  BY <1>1, LayoutInvariance, PTL

\* The medium is sound at every moment: digests.json names a layout with every
\* image, signatures are those of the recorded digest, and until a power loss
\* the store is one that was imported as a whole (syncTree, publishFile,
\* gcSupersededLayouts, captureAndStageSignatures, commitStore).
THEOREM MediumIsSound == Spec => []MediumSound
<1>1. Inv => ManifestHasLayout
  BY DEF Inv, LayoutInv, Durable, ManifestHasLayout
<1>2. Inv => SignaturesSign
  <2> SUFFICES ASSUME Inv, NEW b \in Builds, NEW i \in DOMAIN sigs[b]
               PROVE  sigs[b][i] \in {got[b][i], Unsigned}
    BY DEF SignaturesSign
  <2>1. sigs[b] \in Seq(Nat) /\ Len(sigs[b]) = Len(got[b])
    BY DEF Inv, TypesInv, SignedInv
  <2>2. i \in 1 .. Len(got[b])
    BY <2>1
  <2> QED
    BY <2>2 DEF Inv, SignedInv
<1>3. Inv => StoreWhole
  BY DEF Inv, StoreInv, StoreWhole
<1> QED
  BY <1>1, <1>2, <1>3, LayoutInvariance, PTL DEF MediumSound

\* A build succeeds by one of two steps of its own.
LEMMA SuccessSteps ==
    ASSUME Inv, Next, NEW b \in Builds, pc[b] # "done", pc'[b] = "done"
    PROVE  (StageLCABinary(b) /\ mode[b] # "self-contained") \/ DiscardAside(b)
<1>0. {"none", "resolve", "lock", "mkdir", "copy", "signatures", "verify", "syncTree", "syncRoot", "publish",
       "syncManifest", "gc", "binary", "storeLock", "parse", "import", "aside", "swap", "restore", "discard",
       "done", "failed", "crashed"} = Steps
  BY DEF Steps, Unpublished, Published, Ended
<1>1. ASSUME NEW c \in Builds, NEW l \in Steps, Goto(c, l) PROVE c = b /\ l = "done"
  BY <1>1, Goes DEF Inv
<1>2. CASE MoveTag
  BY <1>2 DEF MoveTag
<1>3. CASE PowerLoss
  BY <1>3 DEF PowerLoss
<1>4. ASSUME NEW c \in Builds, Crash(c) PROVE FALSE
  BY <1>0, <1>1, <1>4 DEF Crash
<1>5. ASSUME NEW c \in Builds, CopyIntoLayout(c) \/ CaptureSourceSignatures(c) PROVE FALSE
  <2>1. \/ Goto(c, "signatures")
        \/ \E digest : Mirrored(c, digest)
        \/ \E retryable \in BOOLEAN : FailedAttempt(c, retryable)
    BY <1>5 DEF CopyIntoLayout, CaptureSourceSignatures
  <2>2. \A digest : Mirrored(c, digest) => Goto(c, "verify") \/ Goto(c, "copy")
    BY DEF Mirrored
  <2>3. \A retryable \in BOOLEAN : FailedAttempt(c, retryable) => Goto(c, "copy") \/ Goto(c, "failed")
    BY AttemptFails, GivesUpLayout DEF Inv
  <2> QED
    BY <1>0, <1>1, <2>1, <2>2, <2>3
<1>6. ASSUME NEW c \in Builds,
             \/ BuildLiveISO(c) \/ ResolveImages(c) \/ LockP2Root(c) \/ MakeLayout(c) \/ VerifyAndPin(c)
             \/ SyncTree(c) \/ SyncRoot(c) \/ PublishManifest(c) \/ SyncManifest(c) \/ GCLayouts(c)
      PROVE  FALSE
  <2>1. \E l \in Steps \ {"done"} : Goto(c, l)
    BY <1>0, <1>6 DEF BuildLiveISO, ResolveImages, LockP2Root, MakeLayout, VerifyAndPin, SyncTree, SyncRoot,
         PublishManifest, SyncManifest, GCLayouts, GiveUpLayout
  <2> QED
    BY <1>1, <2>1
<1>7. ASSUME NEW c \in Builds, StartStore(c) \/ Import(c) \/ MoveAside(c) \/ SwapIn(c) \/ RestoreAside(c)
      PROVE  FALSE
  <2>1. \E l \in Steps \ {"done"} : Goto(c, l)
    BY <1>0, <1>7 DEF StartStore, Import, MoveAside, SwapIn, RestoreAside, GiveUpStore
  <2> QED
    BY <1>1, <2>1
<1>8. ASSUME NEW c \in Builds, StageLCABinary(c) PROVE c = b /\ mode[b] # "self-contained"
  BY <1>0, <1>1, <1>8 DEF StageLCABinary
<1>9. ASSUME NEW c \in Builds, DiscardAside(c) PROVE c = b
  BY <1>0, <1>1, <1>9 DEF DiscardAside
<1> QED
  BY <1>2, <1>3, <1>4, <1>5, <1>6, <1>7, <1>8, <1>9 DEF Next, Step

\* A build gives up its store by one of its own steps.
LEMMA FailedSteps ==
    ASSUME Inv, Next, NEW b \in Builds, pc[b] \in {"aside", "swap", "restore"}, pc'[b] = "failed"
    PROVE  MoveAside(b) \/ RestoreAside(b)
<1>0. {"none", "resolve", "lock", "mkdir", "copy", "signatures", "verify", "syncTree", "syncRoot", "publish",
       "syncManifest", "gc", "binary", "storeLock", "parse", "import", "aside", "swap", "restore", "discard",
       "done", "failed", "crashed"} = Steps
  BY DEF Steps, Unpublished, Published, Ended
<1>1. ASSUME NEW c \in Builds, NEW l \in Steps, Goto(c, l) PROVE c = b /\ l = "failed"
  BY <1>1, Goes DEF Inv
<1>2. CASE MoveTag
  BY <1>2 DEF MoveTag
<1>3. CASE PowerLoss
  BY <1>3 DEF PowerLoss
<1>4. ASSUME NEW c \in Builds, Crash(c) PROVE FALSE
  BY <1>0, <1>1, <1>4 DEF Crash
<1>5. ASSUME NEW c \in Builds, CopyIntoLayout(c) \/ CaptureSourceSignatures(c) PROVE FALSE
  <2>1. pc[c] \in {"copy", "signatures"} /\ \E l \in Steps : Goto(c, l)
    <3>1. \/ Goto(c, "signatures")
          \/ \E digest : Mirrored(c, digest)
          \/ \E retryable \in BOOLEAN : FailedAttempt(c, retryable)
      BY <1>5 DEF CopyIntoLayout, CaptureSourceSignatures
    <3>2. \A digest : Mirrored(c, digest) => Goto(c, "verify") \/ Goto(c, "copy")
      BY DEF Mirrored
    <3>3. \A retryable \in BOOLEAN : FailedAttempt(c, retryable) => Goto(c, "copy") \/ Goto(c, "failed")
      BY AttemptFails, GivesUpLayout DEF Inv
    <3>4. pc[c] \in {"copy", "signatures"}
      BY <1>5 DEF CopyIntoLayout, CaptureSourceSignatures
    <3> QED
      BY <1>0, <3>1, <3>2, <3>3, <3>4
  <2> QED
    BY <1>1, <2>1
<1>6. ASSUME NEW c \in Builds,
             \/ BuildLiveISO(c) \/ ResolveImages(c) \/ LockP2Root(c) \/ MakeLayout(c) \/ VerifyAndPin(c)
             \/ SyncTree(c) \/ SyncRoot(c) \/ PublishManifest(c) \/ SyncManifest(c) \/ GCLayouts(c)
             \/ StageLCABinary(c)
      PROVE  FALSE
  <2>1. pc[c] \notin {"aside", "swap", "restore"} /\ \E l \in Steps : Goto(c, l)
    BY <1>0, <1>6 DEF BuildLiveISO, ResolveImages, LockP2Root, MakeLayout, VerifyAndPin, SyncTree, SyncRoot,
         PublishManifest, SyncManifest, GCLayouts, StageLCABinary, GiveUpLayout
  <2> QED
    BY <1>1, <2>1
<1>7. ASSUME NEW c \in Builds, StartStore(c) \/ Import(c) \/ SwapIn(c) \/ DiscardAside(c)
      PROVE  FALSE
  <2>1. \E l \in Steps : Goto(c, l) /\ (l # "failed" \/ pc[c] \notin {"aside", "swap", "restore"})
    BY <1>0, <1>7 DEF StartStore, Import, SwapIn, DiscardAside, GiveUpStore
  <2> QED
    BY <1>1, <2>1
<1>8. ASSUME NEW c \in Builds, MoveAside(c) \/ RestoreAside(c) PROVE c = b
  <2>1. \E l \in Steps : Goto(c, l)
    BY <1>0, <1>8 DEF MoveAside, RestoreAside, GiveUpStore
  <2> QED
    BY <1>1, <2>1
<1> QED
  BY <1>2, <1>3, <1>4, <1>5, <1>6, <1>7, <1>8 DEF Next, Step

\* What a build leaves is its own and complete, or what was there before: a
\* build that nobody overlaps ends with its own manifest, store and pinned
\* configuration and without the remains of others, and a commit that fails puts
\* the store back (BuildImageLayout, BuildDurabilityStore, restoreAside).
THEOREM PayloadIsSound == Spec => PayloadSound
<1>1. ASSUME Inv, Next PROVE PayloadIsOwn
  <2> SUFFICES ASSUME NEW b \in Builds, Succeeds(b)
               PROVE  manifest' = b /\ (mode[b] = "self-contained" => store'.of = b /\ pins'[b] = got'[b])
    BY DEF PayloadIsOwn
  <2>0. OwnAt(b) /\ StoreAt(b)
    BY <1>1 DEF Inv, OwnInv, StoreInv, Succeeds
  <2>1. CASE StageLCABinary(b) /\ mode[b] # "self-contained"
    BY <2>0, <2>1 DEF StageLCABinary, OwnAt, Published
  <2>2. CASE DiscardAside(b)
    <3>1. pc[b] = "discard" /\ UNCHANGED <<manifest, store, pins, got>>
      BY <2>2 DEF DiscardAside, mirror
    <3>2. mode[b] = "self-contained" => pins[b] = got[b]
      BY <1>1, <3>1 DEF Inv, OwnInv, Published
    <3> QED
      BY <2>0, <3>1, <3>2 DEF OwnAt, StoreAt, Published
  <2> QED
    BY <1>1, <2>1, <2>2, SuccessSteps DEF Succeeds
<1>2. ASSUME Inv, Next PROVE OrphansCollected
  <2> SUFFICES ASSUME NEW b \in Builds, Succeeds(b), faults' = 0
               PROVE  /\ \A c \in Builds : layout'[c] # Absent => c = manifest'
                      /\ mode[b] = "self-contained" => backup' = Nothing /\ \A c \in Builds : staging'[c] = Nothing
    BY DEF OrphansCollected
  <2>0. OwnAt(b) /\ StoreAt(b) /\ faults \in Nat
    BY <1>2 DEF Inv, OwnInv, StoreInv, Succeeds, TypesInv
  <2>1. CASE StageLCABinary(b) /\ mode[b] # "self-contained"
    <3>1. pc[b] = "binary" /\ faults = 0 /\ UNCHANGED <<layout, manifest>>
      BY <2>0, <2>1 DEF StageLCABinary, Fault
    <3> QED
      BY <2>0, <2>1, <3>1 DEF OwnAt, Published
  <2>2. CASE DiscardAside(b)
    <3>1. /\ pc[b] = "discard" /\ UNCHANGED <<layout, manifest, staging>>
          /\ faults' = faults /\ backup' = (IF aside[b] THEN Nothing ELSE backup)
      BY <2>0, <2>2 DEF DiscardAside, Fault
    <3> QED
      BY <2>0, <3>1 DEF OwnAt, StoreAt, Published
  <2> QED
    BY <1>2, <2>1, <2>2, SuccessSteps DEF Succeeds
<1>3. ASSUME Inv, Next PROVE StoreKept
  <2> SUFFICES ASSUME NEW b \in Builds, pc[b] \in {"aside", "swap", "restore"}, pc'[b] = "failed", faults' < 2,
                      store # Nothing \/ (pc[b] # "aside" /\ aside[b])
               PROVE  store' # Nothing
    BY DEF StoreKept
  <2>0. StoreAt(b) /\ faults \in Nat
    BY <1>3 DEF Inv, StoreInv, TypesInv
  <2>1. CASE MoveAside(b)
    <3>1. ~Goto(b, "swap")
      BY <1>3, Goes DEF Inv, Steps, Published
    <3> QED
      BY <2>1, <3>1 DEF MoveAside
  <2>2. CASE RestoreAside(b)
    <3>1. pc[b] = "restore" /\ store = Nothing /\ aside[b] /\ backup # Nothing /\ faults > 0
      BY <2>0, <2>2 DEF RestoreAside, StoreAt
    <3>2. ~Fault
      BY <2>0, <3>1 DEF Fault
    <3> QED
      BY <2>2, <3>1, <3>2 DEF RestoreAside
  <2> QED
    BY <1>3, <2>1, <2>2, FailedSteps
<1>4. Inv /\ [Next]_vars => [PayloadIsOwn /\ OrphansCollected /\ StoreKept]_vars
  BY <1>1, <1>2, <1>3
<1> QED
  BY <1>4, LayoutInvariance, PTL DEF Spec, PayloadSound
=============================================================================
