------------------------------- MODULE MCPrep -------------------------------
(***************************************************************************)
(* The helpers that the stage handlers call, model-checked side by side:   *)
(* the extra manifests (Manifests), the merge of two objects (Merge, which *)
(* has no steps), the precaching of images (Precache) and the cleanup of   *)
(* the container storage (Storage).  They share no state, so that a        *)
(* behaviour is one of any of them, chosen at first; the variables of the  *)
(* others stay as they were.                                               *)
(***************************************************************************)
EXTENDS Manifests

\* Of Precache: the operator, the API objects, the workload and its images.
VARIABLES seed, phase, cause, jobPC, list, job, pod, next, thread, tries, progress, copy, file,
          stored, preps, jobFaults

\* Of Storage.
VARIABLES threshold, dangling, present, inUse, pinned, late, cleanPC, usedSeen, pinnedSeen,
          candidates, idx, toRemove, refused, events, cleanFaults

\* A manifest and the object it is merged into.
VARIABLE pair

\* Which of the four this behaviour is.
VARIABLE part

-----------------------------------------------------------------------------
(* Precache: two seed images whose lists overlap.                          *)

P == INSTANCE Precache WITH pc <- jobPC, cm <- list, faults <- jobFaults,
        ListOf <- [s \in {"old", "new"} |-> IF s = "old" THEN <<"a">> ELSE <<"a", "b">>],
        Threads <- 2, MaxRetries <- 2, BestEffort <- FALSE, MaxPreps <- 2, MaxFaults <- 1

(* Storage: ages in another order than podman's list, two of them equal.   *)

S == INSTANCE Storage WITH pc <- cleanPC, faults <- cleanFaults,
        Images <- 1 .. 3, Created <- [i \in 1 .. 3 |-> (7 - i) \div 2],
        Batch <- 2, Blocks <- 6, OtherBlocks <- 2, Thresholds <- {33, 50, 1000},
        MaxEvents <- 2, MaxFaults <- 1

ASSUME P!BoundsAssumption
ASSUME S!StorageAssumption

-----------------------------------------------------------------------------
(* Manifests: ConfigMaps, policies and the seed's objects.                 *)

M(name, kind, ns, wave, type, fields) ==
    [name |-> name, kind |-> kind, ns |-> ns, wave |-> wave, type |-> type,
     fields |-> fields, valid |-> TRUE]

NewNamespace == M(1, "Namespace", Default, 1, "none", {"ns"})
Inside == M(2, "CR", 1, 2, "none", {"a"})
Patch == M(3, "CR", Default, NoWave, "merge", {"b"})

\* Three waves: a namespace, an object in it, and a patch of one of the seed's.
Plain == {NewNamespace, Inside, Patch}
\* The object comes in the wave of its namespace but has the lower name.
Unordered == {M(5, "Namespace", Default, 1, "none", {"ns"}), M(2, "CR", 5, 1, "none", {"a"}), Patch}
Disallowed == {Patch, M(2, "MachineConfig", Default, 1, "none", {"a"})}
Nameless == {Patch, M(Anonymous, "CR", Default, 1, "none", {"a"})}
Garbled == {Patch, M(2, "Garbled", Default, 1, "none", {})}
NoNumber == {Patch, M(2, "CR", Default, BadWave, "none", {"a"})}
Invalid == {Patch, [Inside EXCEPT !.valid = FALSE]}
\* One object in two waves.
Twice == {M(2, "CR", Default, 1, "none", {"a"}), M(2, "CR", Default, 2, "none", {"b"})}
ContentsUsed == {Plain, Unordered, Disallowed, Nameless, Garbled, NoNumber, Invalid, Twice}

Template(object, compliance, labelled, annotated) ==
    [object |-> object, compliance |-> compliance, labelled |-> labelled, annotated |-> annotated]
Policy(name, wave, templates) ==
    [name |-> name, wave |-> wave, child |-> TRUE, enforce |-> FALSE, disabled |-> FALSE, templates |-> templates]
Object3(field) == M(3, "CR", Default, NoWave, "none", {field})
Object4(field) == M(4, "CR", Default, NoWave, "none", {field})

\* The second comes before the first, by its wave, and one whose wave is no
\* number before both; two objects of the second are not ours.
Late == Policy(1, 2, << Template(Object3("p"), "musthave", TRUE, TRUE), Template(Object4("q"), "mustonlyhave", TRUE, FALSE) >>)
Early == Policy(2, 1, << Template(Object3("r"), "mustonlyhave", TRUE, TRUE),
                         Template(Object4("x"), "mustnothave", TRUE, TRUE),
                         Template(Object4("y"), "musthave", FALSE, TRUE) >>)
NoInteger == Policy(6, BadWave, << Template(Object3("w"), "musthave", TRUE, TRUE) >>)
\* These are not ours.
Enforced == [Policy(3, 1, << Template(Object3("z"), "musthave", TRUE, TRUE) >>) EXCEPT !.enforce = TRUE]
Inactive == [Policy(4, 1, << Template(Object4("z"), "musthave", TRUE, TRUE) >>) EXCEPT !.disabled = TRUE]
NoChild == [Policy(7, 3, << Template(Object3("z"), "musthave", TRUE, TRUE) >>) EXCEPT !.child = FALSE]
\* An object of the seed, musthave, without annotations; and a type nobody knows.
Unannotated == Policy(5, 3, << Template(Object3("u"), "musthave", TRUE, FALSE) >>)
Misspelt == Policy(8, 3, << Template(Object4("u"), "mayhave", TRUE, TRUE) >>)

UsualPolicies == {Late, Enforced, Inactive, NoChild}
PolicySetsUsed == {UsualPolicies, {Late, Early, NoInteger}, {Late, Unannotated}, {Late, Misspelt}}

NamespaceSet == {1, 5}
SeedObjects == 3 :> {"s"}

-----------------------------------------------------------------------------
(* Merge: maps with a list of maps, a list of atoms, a nested map and a    *)
(* field that may be missing, null or of another type.                     *)

G == INSTANCE Merge

Atoms == {G!Str("p"), G!Str("q"), G!Bool(FALSE)}
Partial(keys, vals) == UNION {[K -> vals] : K \in SUBSET keys}

\* An item's other field: a list in two orders, or of maps that are equal
\* though they differ.
Parts == {G!List(<<G!Str("p"), G!Str("q")>>), G!List(<<G!Str("q"), G!Str("p")>>),
          G!List(<<G!Map("b" :> G!Bool(FALSE))>>), G!List(<<G!Map(<<>>)>>)}

\* {}, {name}, {a}, {name, a}
Items == {G!Map(f @@ g) : f \in Partial({"name"}, {G!Str("x"), G!Str("y")}), g \in Partial({"a"}, Parts)}
ListsOf(vs) == {G!List(s) : s \in {<<>>} \cup {<<v>> : v \in vs} \cup {<<v, w>> : v, w \in vs}}

WithItems == {G!Map("l" :> l) : l \in ListsOf(Items)}

Inner == {G!Map(f) : f \in Partial({"a", "b"}, {G!Str("p"), G!Nil})}
Values == Atoms \cup {G!Nil} \cup Inner \cup ListsOf({G!Str("p"), G!Str("q")})
Trees == {G!Map(f) : f \in Partial({"s", "u"}, Values)}

\* Lists of items of several types, and of lists.
Mixed == {G!Map("l" :> l) : l \in ListsOf(
            {G!Str("p"), G!Nil, G!Map(<<>>), G!Map("name" :> G!Str("x")), G!Map("b" :> G!Bool(FALSE))}
            \cup ListsOf({G!Map(<<>>), G!Map("b" :> G!Bool(FALSE))}))}
\* An item with a list of maps.
Deep == {G!Map("l" :> G!List(<<G!Map("a" :> l)>>)) :
            l \in ListsOf({G!Map(<<>>), G!Map("b" :> G!Bool(FALSE)), G!Map("b" :> G!Str("p")), G!Map("a" :> G!Str("q"))})}

\* The manifests, and the objects each is merged into.
ObjectsFor(families, t) == UNION {f[2] : f \in {g \in families : t \in g[1]}}
Families == {<<WithItems, WithItems>>, <<Mixed, Mixed>>, <<Deep, Deep>>,
             <<{G!Map(f) : f \in Partial({"s"}, Values)}, Trees>>}

\* A pair is chosen, the manifest first.
MergeNext ==
    \/ pair = <<>> /\ \E f \in Families : \E t \in f[1] : pair' = <<t>>
    \/ Len(pair) = 1 /\ \E o \in ObjectsFor(Families, pair[1]) : pair' = pair \o <<o>>

-----------------------------------------------------------------------------
precacheVars == <<seed, phase, cause, jobPC, list, job, pod, next, thread, tries, progress, copy,
                  file, stored, preps, jobFaults>>
storageVars == <<threshold, dangling, present, inUse, pinned, late, cleanPC, usedSeen, pinnedSeen,
                 candidates, idx, toRemove, refused, events, cleanFaults>>
allVars == <<vars, precacheVars, storageVars, pair, part>>

PrepInit ==
    /\ part \in {"manifests", "precache", "storage", "merge"}
    /\ part = "manifests" \/ (cm = Plain /\ policies = UsualPolicies /\ count = NoCount /\ nss = [n \in Namespaces |-> "absent"])
    /\ part = "precache" \/ (seed = "new" /\ stored = {})
    /\ part = "storage" \/ (threshold = 1000 /\ dangling = {} /\ inUse = {} /\ pinned = {})
    /\ pair = <<>>
    /\ policies = UsualPolicies \/ cm = Plain
    /\ Init /\ P!Init /\ S!Init

PrepNext ==
    \/ part = "manifests" /\ Next /\ UNCHANGED <<precacheVars, storageVars, pair, part>>
    \/ part = "precache" /\ P!Next /\ UNCHANGED <<vars, storageVars, pair, part>>
    \/ part = "storage" /\ S!Next /\ UNCHANGED <<vars, precacheVars, pair, part>>
    \/ part = "merge" /\ MergeNext /\ UNCHANGED <<vars, precacheVars, storageVars, part>>

PrepSpec == PrepInit /\ [][PrepNext]_allVars

(* What a precaching reports is true: of Precache. *)
PrecacheTrue == P!PrecacheTrue

(* A cleanup of the storage removes only what it may: of Storage. *)
CleanupCareful == S!CleanupCareful

(* A manifest that is merged into an object holds in the result, which keeps
   what the manifest does not speak of, and merging it again changes
   nothing: of Merge, which says for which pairs (mergeSpecs). *)
MergeLaw == Len(pair) = 2 => G!MergeLaw(pair[1], pair[2])
=============================================================================
