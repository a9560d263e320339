----------------------------- MODULE Manifests -----------------------------
(***************************************************************************)
(* The extra manifests of an upgrade: internal/extramanifest and the parts *)
(* of the prep and upgrade handlers that call it.                          *)
(*                                                                         *)
(* Prep validates the ConfigMaps with dry runs, for which it creates the   *)
(* namespaces they bring along.  Upgrade reads the ConfigMaps again and    *)
(* writes them, and the objects of the cluster's policies, to files of the *)
(* new stateroot.  After the pivot the files are applied, group by group,  *)
(* and removed.  Names are numbers, so that their order is the order of    *)
(* the names; the content of an object is a set of fields.                 *)
(***************************************************************************)
EXTENDS Naturals, Sequences, FiniteSets, SequencesExt

CONSTANTS
    Contents,    \* what the ConfigMaps of spec.extraManifests may hold
    PolicySets,  \* the policies that may be bound to the cluster: a set of sets
    Counts,      \* values of the annotation with the number of manifests
    Namespaces,  \* namespaces the manifests name
    Seed,        \* objects of the new stateroot's cluster: name -> fields
    MaxEdits,    \* bound on what the user changes meanwhile
    MaxFaults    \* bound on failed calls and restarts of the operator

VARIABLES
    cm,          \* contents of the ConfigMaps
    policies,    \* the policies bound to the cluster
    count,       \* the annotation, or NoCount
    stage, cond, \* of the CR; the stage "PostPivot" is Upgrade after the pivot
    pc,          \* what the reconcile does next
    work,        \* manifests it has still to look at
    listed,      \* namespaces it has met in the ConfigMaps
    faked,       \* namespaces it has created for the dry runs
    verdict,     \* of the validation
    nss,         \* state of each namespace of the running cluster
    users,       \* namespaces somebody else has created
    dirs,        \* exported files: from policies, from ConfigMaps
    exported,    \* contents of the ConfigMaps at the last export (history)
    objs,        \* objects of the new cluster
    edits, faults

validation == <<listed, faked, verdict>>
cluster == <<nss, users>>
output == <<dirs, exported, objs>>
vars == <<cm, policies, count, stage, cond, pc, work, validation, cluster, output, edits, faults>>

NoWave == 0
BadWave == 99      \* an annotation that is no number
NoCount == 0
Anonymous == 0     \* no name, no namespace
Default == 0

(***************************************************************************)
(* Order.  Manifests of one wave are sorted by name; ConfigMap data come   *)
(* in no order, so neither do two of the same wave and name.               *)
(***************************************************************************)
defaultApplyWave == 2147483647
Wave(m) == IF m.wave = NoWave THEN defaultApplyWave ELSE m.wave
Before(m, n) == Wave(m) < Wave(n) \/ (Wave(m) = Wave(n) /\ m.name <= n.name)

Sorted(s, Le(_, _)) == \A i, j \in DOMAIN s : i < j => Le(s[i], s[j])
Orders(S, Le(_, _)) == {s \in SetToSeqs(S) : Sorted(s, Le)}

SortAndGroupByApplyWave(s) ==
    LET waves == SetToSortSeq({Wave(s[i]) : i \in DOMAIN s}, <)
    IN  [g \in DOMAIN waves |-> SelectSeq(s, LAMBDA m : Wave(m) = waves[g])]

Decodable(S) == {m \in S : m.kind # "Garbled"}
NumericWaves(S) == \A m \in S : m.wave # BadWave

Init ==
    /\ cm \in Contents /\ policies \in PolicySets /\ count \in Counts
    /\ stage = "Prep" /\ cond = "InProgress" /\ pc = "idle" /\ work = <<>>
    /\ listed = {} /\ faked = {} /\ verdict = "ok"
    /\ nss \in [Namespaces -> {"absent", "active"}]
    /\ users = {n \in Namespaces : nss[n] = "active"}
    /\ dirs = [policy |-> {}, config |-> {}]
    /\ exported = {} /\ objs = Seed
    /\ edits = 0 /\ faults = 0

Fault == faults < MaxFaults /\ faults' = faults + 1
NoFault == UNCHANGED faults

End == pc' = "idle" /\ work' = <<>>
EndWith(c) == End /\ cond' = c

(***************************************************************************)
(* Policies.                                                               *)
(***************************************************************************)
\* Policies that others enforce, without a wave or with a name that is none
\* of a child policy, are not ours.
GetPolicies == {p \in policies : ~p.enforce /\ p.wave # NoWave /\ p.child}

\* A wave that is no number is logged and counts as 0.
PolicyWave(p) == IF p.wave = BadWave THEN 0 ELSE p.wave
PolicyBefore(p, q) == PolicyWave(p) < PolicyWave(q) \/ (PolicyWave(p) = PolicyWave(q) /\ p.name <= q.name)
sortPolicyMap(S) == SetToSortSeq(S, PolicyBefore)

Unsupported == "unsupported"
getApplyType(t) ==
    CASE t.compliance = "musthave"     -> "merge"
      [] t.compliance = "mustonlyhave" -> "replace"
      [] OTHER                         -> Unsupported

\* The type is put into the annotations of the object: only if it has some.
ObjectOf(t) == [t.object EXCEPT !.type = IF t.annotated THEN getApplyType(t) ELSE "none"]

Chosen(p) ==
    IF p.disabled THEN <<>>
    ELSE SelectSeq(p.templates, LAMBDA t : t.labelled /\ t.compliance # "mustnothave")

getConfigurationObjects(p) == [i \in DOMAIN Chosen(p) |-> ObjectOf(Chosen(p)[i])]

\* Another compliance type is an error.
Supported == \A p \in GetPolicies : \A t \in Range(Chosen(p)) : getApplyType(t) # Unsupported

\* A policy without objects makes no group.
PolicyGroups ==
    LET ps == SelectSeq(sortPolicyMap(GetPolicies), LAMBDA p : getConfigurationObjects(p) # <<>>)
    IN  [g \in DOMAIN ps |-> getConfigurationObjects(ps[g])]

CountMatches == count = NoCount \/ Len(FlattenSeq(PolicyGroups)) = count

\* Prep looks at the policies only to count what is in them.
PoliciesAccepted == count = NoCount \/ (Supported /\ CountMatches)

(***************************************************************************)
(* Prep: ValidateExtraManifestConfigmaps.                                  *)
(***************************************************************************)
validateIBUSpec ==
    /\ stage = "Prep" /\ cond = "InProgress" /\ pc = "idle"
    /\ \/ /\ NumericWaves(Decodable(cm)) /\ NoFault
          /\ pc' = "validate" /\ work' \in Orders(Decodable(cm), Before)
          /\ listed' = {} /\ faked' = {}
          /\ verdict' = IF Decodable(cm) = cm THEN "ok" ELSE "invalid"
          /\ UNCHANGED cond
       \/ ~NumericWaves(Decodable(cm)) /\ NoFault /\ EndWith("Failed") /\ UNCHANGED validation
       \/ Fault /\ EndWith("Failed") /\ verdict' = "error" /\ UNCHANGED <<listed, faked>>
    /\ UNCHANGED <<cm, policies, count, stage, cluster, output, edits>>

Skip(m) == m.name = Anonymous \/ m.kind \in {"MachineConfig", "Namespace"}

\* What can be told without the cluster.
ValidateManifest ==
    /\ pc = "validate" /\ work # <<>>
    /\ LET m == Head(work) IN
       /\ Skip(m)
       /\ verdict' = IF m.name = Anonymous \/ m.kind = "MachineConfig" THEN "invalid" ELSE verdict
       /\ listed' = IF m.kind = "Namespace" /\ m.name # Anonymous THEN listed \cup {m.name} ELSE listed
    /\ work' = Tail(work)
    /\ UNCHANGED <<cm, policies, count, stage, cond, pc, faked, cluster, output, edits, faults>>

\* A namespace that neither the cluster nor an earlier manifest has is worth
\* a warning only.
QueryNamespace ==
    /\ pc = "validate" /\ work # <<>> /\ ~Skip(Head(work))
    /\ LET n == Head(work).ns IN
       IF n = Default \/ nss[n] # "absent"
       THEN pc' = "dryrun" /\ UNCHANGED work
       ELSE IF n \in listed
       THEN pc' = "fake" /\ UNCHANGED work
       ELSE pc' = "validate" /\ work' = Tail(work)
    /\ UNCHANGED <<cm, policies, count, stage, cond, validation, cluster, output, edits, faults>>

\* Mutant: a namespace that is there already counts as created.
fakeNamespaceForDryrun_existing ==
    /\ pc = "fake"
    /\ LET n == Head(work).ns IN
       /\ nss' = [nss EXCEPT ![n] = IF @ = "absent" THEN "active" ELSE @]
       /\ faked' = faked \cup {n}
    /\ pc' = "dryrun"
    /\ UNCHANGED <<cm, policies, count, stage, cond, work, listed, verdict, users, output, edits, faults>>

fakeNamespaceForDryrun ==
    /\ pc = "fake"
    /\ LET n == Head(work).ns IN
       IF nss[n] = "absent"
       THEN nss' = [nss EXCEPT ![n] = "active"] /\ faked' = faked \cup {n}
       ELSE UNCHANGED <<nss, faked>>
    /\ pc' = "dryrun"
    /\ UNCHANGED <<cm, policies, count, stage, cond, work, listed, verdict, users, output, edits, faults>>

\* ApplyExtraManifest with dryRun.  An invalid manifest and an unknown CRD
\* are worth a warning; nothing can be created in a namespace that is being
\* deleted, and that is an error like any other.
DryRun ==
    /\ pc = "dryrun"
    /\ LET n == Head(work).ns IN
       IF n # Default /\ nss[n] # "active"
       THEN verdict' = "refused" /\ work' = <<>>
       ELSE work' = Tail(work) /\ UNCHANGED verdict
    /\ pc' = "validate"
    /\ UNCHANGED <<cm, policies, count, stage, cond, listed, faked, cluster, output, edits, faults>>

\* A call of the validation fails.
ValidationError ==
    /\ pc \in {"validate", "fake", "dryrun"} /\ work # <<>>
    /\ Fault
    /\ verdict' = "error" /\ work' = <<>> /\ pc' = "validate"
    /\ UNCHANGED <<cm, policies, count, stage, cond, listed, faked, cluster, output, edits>>

\* The deferred call: an error leaves the rest of the namespaces, unreported.
deleteFakedNamespacesForDryrun ==
    /\ pc = "validate" /\ work = <<>>
    /\ \E S \in SUBSET faked :
          /\ IF S = faked THEN NoFault ELSE Fault
          /\ nss' = [n \in Namespaces |-> IF n \in S /\ nss[n] = "active" THEN "terminating" ELSE nss[n]]
    /\ IF verdict = "ok" THEN pc' = "launch" /\ UNCHANGED <<cond, work>> ELSE EndWith("Failed")
    /\ UNCHANGED <<cm, policies, count, stage, validation, users, output, edits>>

\* The rest of Prep.  Making room and launching the job are tried again, and
\* the validation with them.
LaunchJob ==
    /\ pc = "launch"
    /\ \/ PoliciesAccepted /\ NoFault /\ EndWith("Completed")
       \/ ~PoliciesAccepted /\ NoFault /\ EndWith("Failed")
       \/ PoliciesAccepted /\ Fault /\ End /\ UNCHANGED cond
    /\ UNCHANGED <<cm, policies, count, stage, validation, cluster, output, edits>>

(***************************************************************************)
(* Upgrade before the pivot: extractAndExportExtraManifests.               *)
(***************************************************************************)
StartUpgrade ==
    /\ stage = "Prep" /\ cond = "Completed"
    /\ stage' = "Upgrade" /\ cond' = "InProgress"
    /\ UNCHANGED <<cm, policies, count, pc, work, validation, cluster, output, edits, faults>>

File(g, i, m) == [group |-> g, index |-> i, manifest |-> m]
Files(groups) == {File(g, i, groups[g][i]) : <<g, i>> \in
                     UNION {{<<h, j>> : j \in DOMAIN groups[h]} : h \in DOMAIN groups}}
Path(f) == <<f.group, f.index, f.manifest.kind, f.manifest.name, f.manifest.ns>>
Written(dir, new) == {f \in dir : \A n \in new : Path(n) # Path(f)} \cup new

\* A write that fails ends the export; what was there before stays.
Export(d, groups, then) ==
    \/ /\ NoFault /\ pc' = then
       /\ dirs' = [dirs EXCEPT ![d] = Written(@, Files(groups))]
    \/ /\ Fault /\ pc' = "idle"
       /\ \E S \in SUBSET Files(groups) : dirs' = [dirs EXCEPT ![d] = Written(@, S)]

\* Only the count is a reason to fail; an unsupported type is tried again.
ExtractAndExportManifestFromPoliciesToDir ==
    /\ stage = "Upgrade" /\ cond = "InProgress" /\ pc = "idle"
    /\ \/ /\ Supported /\ CountMatches
          /\ Export("policy", PolicyGroups, "configs") /\ UNCHANGED <<cond, work>>
       \/ Supported /\ ~CountMatches /\ EndWith("Failed") /\ UNCHANGED <<dirs, faults>>
       \/ ~Supported /\ End /\ UNCHANGED <<cond, dirs, faults>>
    /\ UNCHANGED <<cm, policies, count, stage, validation, cluster, exported, objs, edits>>

ExportExtraManifestToDir ==
    /\ pc = "configs"
    /\ IF Decodable(cm) # cm
       THEN EndWith("Failed") /\ UNCHANGED <<dirs, exported, faults>>
       ELSE IF ~NumericWaves(cm)
       THEN End /\ UNCHANGED <<cond, dirs, exported, faults>>
       ELSE /\ \E s \in Orders(cm, Before) : Export("config", SortAndGroupByApplyWave(s), "pivot")
            /\ exported' = cm /\ UNCHANGED <<cond, work>>
    /\ UNCHANGED <<cm, policies, count, stage, validation, cluster, objs, edits>>

\* The other exports, which may fail, and the reboot.
Pivot ==
    /\ pc = "pivot" /\ End
    /\ \/ NoFault /\ stage' = "PostPivot"
       \/ Fault /\ UNCHANGED stage
    /\ UNCHANGED <<cm, policies, count, cond, validation, cluster, output, edits>>

(***************************************************************************)
(* Upgrade after the pivot: ApplyExtraManifests, for the policies and then *)
(* for the ConfigMaps.                                                     *)
(***************************************************************************)
FileBefore(e, f) == e.group < f.group \/ (e.group = f.group /\ e.index <= f.index)

Dir == IF pc \in {"idle", "applyPolicy"} THEN "policy" ELSE "config"

LoadGroupedManifestsFromPath(d) ==
    {[i \in DOMAIN s |-> s[i].manifest] : s \in Orders(dirs[d], FileBefore)}

StartPostPivot ==
    /\ stage = "PostPivot" /\ cond = "InProgress" /\ pc = "idle"
    /\ pc' = "applyPolicy" /\ work' \in LoadGroupedManifestsFromPath("policy")
    /\ UNCHANGED <<cm, policies, count, stage, cond, validation, cluster, output, edits, faults>>

Merged(old, m) == old \cup m.fields

\* A type nobody knows changes nothing.
ApplyExtraManifest(all, m) ==
    LET put(fields) == [n \in DOMAIN all \cup {m.name} |-> IF n = m.name THEN fields ELSE all[n]]
    IN  IF m.name \notin DOMAIN all THEN put(m.fields)
        ELSE CASE m.type \in {"none", "replace"} -> put(m.fields)
               [] m.type = "merge"               -> put(Merged(all[m.name], m))
               [] OTHER                          -> all

\* An invalid manifest or an unknown CRD is final; anything else is retried,
\* from the first file.
ApplyManifest ==
    /\ pc \in {"applyPolicy", "applyConfig"} /\ work # <<>>
    /\ \/ /\ Head(work).valid /\ NoFault
          /\ objs' = ApplyExtraManifest(objs, Head(work))
          /\ work' = Tail(work) /\ UNCHANGED <<pc, cond>>
       \/ ~Head(work).valid /\ NoFault /\ EndWith("Failed") /\ UNCHANGED objs
       \/ Fault /\ End /\ UNCHANGED <<cond, objs>>
    /\ UNCHANGED <<cm, policies, count, stage, validation, cluster, dirs, exported, edits>>

\* Mutant: the directory is removed although the first of its files is still to be applied.
RemoveManifests_early ==
    /\ pc \in {"applyPolicy", "applyConfig"} /\ Len(work) <= 1 /\ NoFault
    /\ dirs' = [dirs EXCEPT ![Dir] = {}]
    /\ IF Dir = "policy"
       THEN pc' = "applyConfig" /\ work' \in LoadGroupedManifestsFromPath("config") /\ UNCHANGED stage
       ELSE End /\ stage' = "Done"
    /\ UNCHANGED <<cm, policies, count, cond, validation, cluster, exported, objs, edits>>

\* RemoveAll takes the files in any order and may be interrupted.
RemoveManifests ==
    /\ pc \in {"applyPolicy", "applyConfig"} /\ work = <<>>
    /\ \/ /\ NoFault
          /\ dirs' = [dirs EXCEPT ![Dir] = {}]
          /\ IF Dir = "policy"
             THEN pc' = "applyConfig" /\ work' \in LoadGroupedManifestsFromPath("config") /\ UNCHANGED stage
             ELSE End /\ stage' = "Done"
       \/ /\ Fault /\ End /\ UNCHANGED stage
          /\ \E S \in SUBSET dirs[Dir] : dirs' = [dirs EXCEPT ![Dir] = S]
    /\ UNCHANGED <<cm, policies, count, cond, validation, cluster, exported, objs, edits>>

(***************************************************************************)
(* The others.                                                             *)
(***************************************************************************)
\* The operator restarts; what it had in memory is gone.
Restart ==
    /\ pc # "idle" /\ Fault /\ End
    /\ UNCHANGED <<cm, policies, count, stage, cond, validation, cluster, output, edits>>

Edit == edits < MaxEdits /\ edits' = edits + 1

EditConfigMap ==
    /\ Edit /\ stage \in {"Prep", "Upgrade"}
    /\ cm' \in Contents \ {cm}
    /\ UNCHANGED <<policies, count, stage, cond, pc, work, validation, cluster, output, faults>>

CreateNamespace(n) ==
    /\ Edit /\ nss[n] = "absent"
    /\ nss' = [nss EXCEPT ![n] = "active"] /\ users' = users \cup {n}
    /\ UNCHANGED <<cm, policies, count, stage, cond, pc, work, validation, output, faults>>

\* The API server finishes the deletion of a namespace.
NamespaceGone(n) ==
    /\ nss[n] = "terminating" /\ nss' = [nss EXCEPT ![n] = "absent"]
    /\ UNCHANGED <<cm, policies, count, stage, cond, pc, work, validation, users, output, edits, faults>>

Prep ==
    \/ validateIBUSpec \/ ValidateManifest \/ QueryNamespace \/ fakeNamespaceForDryrun
    \/ DryRun \/ ValidationError \/ deleteFakedNamespacesForDryrun \/ LaunchJob

Upgrade ==
    \/ ExtractAndExportManifestFromPoliciesToDir \/ ExportExtraManifestToDir \/ Pivot
    \/ StartPostPivot \/ ApplyManifest \/ RemoveManifests

Others ==
    \/ StartUpgrade \/ Restart \/ EditConfigMap
    \/ \E n \in Namespaces : CreateNamespace(n) \/ NamespaceGone(n)

Next == Prep \/ Upgrade \/ Others

Spec == Init /\ [][Next]_vars
----------------------------------------------------------------------------
Manifest == UNION Contents \cup {ObjectOf(t) : t \in UNION {Range(p.templates) : p \in UNION PolicySets}}
Names == {m.name : m \in Manifest} \cup DOMAIN Seed

TypeOK ==
    /\ cm \in Contents /\ policies \in PolicySets /\ exported \in Contents \cup {{}} /\ count \in Counts
    /\ stage \in {"Prep", "Upgrade", "PostPivot", "Done"}
    /\ cond \in {"InProgress", "Completed", "Failed"}
    /\ pc \in {"idle", "validate", "fake", "dryrun", "launch", "configs", "pivot", "applyPolicy", "applyConfig"}
    /\ Range(work) \subseteq Manifest
    /\ listed \cup faked \cup users \subseteq Namespaces \cup Names
    /\ verdict \in {"ok", "invalid", "refused", "error"}
    /\ nss \in [Namespaces -> {"absent", "active", "terminating"}]
    /\ \A d \in DOMAIN dirs : \A f \in dirs[d] : f.manifest \in Manifest
    /\ DOMAIN objs \subseteq Names

(***************************************************************************)
(* The objects of the new cluster when all manifests have been applied     *)
(* once, in the order the documentation gives: the policies by wave, each  *)
(* object according to its compliance type, then the manifests of the      *)
(* ConfigMaps by wave and name.                                            *)
(***************************************************************************)
AsDeclared(p) ==
    [i \in DOMAIN Chosen(p) |-> [Chosen(p)[i].object EXCEPT !.type = getApplyType(Chosen(p)[i])]]

Declared ==
    LET ps == sortPolicyMap(GetPolicies)
    IN  FlattenSeq([i \in DOMAIN ps |-> AsDeclared(ps[i])])

Expected == {FoldLeft(ApplyExtraManifest, Seed, Declared \o s) : s \in Orders(exported, Before)}

\* The compliance type of an object without annotations is computed and
\* lost, since the map it is put into is never stored, and the object is
\* replaced: that is what musthave does not mean.
TypesKept ==
    \A p \in GetPolicies : \A t \in Range(Chosen(p)) : t.compliance = "musthave" => t.annotated

OncePerObject ==
    /\ \A i, j \in DOMAIN Declared : Declared[i].name = Declared[j].name => i = j
    /\ \A m, n \in exported : m.name = n.name => m = n

(* However often the export and the application are interrupted and tried
   again, the cluster ends with what the policies and the ConfigMaps that
   were exported last say, the later waves on top
   (ExtractAndExportManifestFromPoliciesToDir, ExportExtraManifestToDir,
   ApplyExtraManifests).  After a failure the export leaves files of the
   ConfigMaps' earlier contents, and the application starts over without the
   manifests it has removed, so that a failure beside an edit, or with two
   manifests of one object, is left out; and so are policies that bring a
   musthave object without annotations (getConfigurationObjects). *)
AppliedAsDeclared ==
    stage = "Done" /\ TypesKept /\ (faults = 0 \/ (edits = 0 /\ OncePerObject)) => objs \in Expected

(* The validation deletes no namespace that somebody else has created
   (fakeNamespaceForDryrun, deleteFakedNamespacesForDryrun). *)
UsersNamespacesKept == \A n \in users : nss[n] = "active"

(* A resource type that is not allowed, and a manifest that cannot be
   decoded or has no name, never reach the new stateroot: Prep fails
   (ValidateExtraManifestConfigmaps), unless the ConfigMap is edited after. *)
NoDisallowedExported ==
    edits = 0 => \A f \in dirs.config : f.manifest.kind # "MachineConfig" /\ f.manifest.name # Anonymous

(* What reaches the new cluster is what was declared, and allowed. *)
ManifestsHonoured == AppliedAsDeclared /\ NoDisallowedExported

(* Prep fails for what the ConfigMaps or the policies hold, or for a call
   that failed, and for nothing the validation itself has done before
   (validateIBUSpec). *)
Rejected(m) == m.kind \in {"Garbled", "MachineConfig"} \/ m.name = Anonymous \/ m.wave = BadWave

PrepFailsForCause ==
    stage = "Prep" /\ cond = "Failed" => verdict = "error" \/ ~PoliciesAccepted \/ \E m \in cm : Rejected(m)
=============================================================================
