----------------------------- MODULE Precache -----------------------------
(***************************************************************************)
(* Precaching in Prep: the job and the ConfigMap with the list of images   *)
(* (internal/precache and the end of handlePrep), the workload that pulls  *)
(* them (internal/precache/workload, lca-cli ibu-precache-workload), and   *)
(* their removal when the CR goes to Idle.                                 *)
(*                                                                         *)
(* The workload pulls with several threads, which share a record of their  *)
(* progress and write it to a file that the operator reads.  Objects are   *)
(* deleted in the foreground: they stay, marked, until the garbage         *)
(* collector has dealt with what they own.                                 *)
(***************************************************************************)
EXTENDS Naturals, Sequences, FiniteSets, SequencesExt

CONSTANTS
    ListOf,       \* the list of images of each seed image: seed -> sequence
    Threads,      \* pulls at the same time
    MaxRetries,   \* pulls of an image before it has failed
    BestEffort,   \* PRECACHE_BEST_EFFORT of the operator's environment
    MaxPreps,     \* bound on the Preps
    MaxFaults     \* bound on failing calls, lost pods and deletions by others

BoundsAssumption ==
    /\ Threads \in Nat \ {0} /\ MaxRetries \in Nat \ {0}
    /\ BestEffort \in BOOLEAN
    /\ MaxPreps \in Nat /\ MaxFaults \in Nat

Seeds == DOMAIN ListOf
Images == UNION {Range(ListOf[s]) : s \in Seeds}

VARIABLES
    seed,         \* the seed image of the CR
    phase,        \* of the CR
    cause,        \* why Prep has failed
    pc,           \* of CreateJobAndConfigMap
    cm, job,      \* the API objects
    pod,          \* the list it works on, or NoPod
    next,         \* how many images it has given to threads
    thread,       \* what the thread of an image does
    tries,        \* its failed pulls
    progress,     \* the record in memory
    copy,         \* what a thread has read of it, to be written
    file,         \* the status file
    stored,       \* images in the container storage
    preps, faults

operator == <<seed, phase, cause, pc>>
objects == <<cm, job>>
memory == <<thread, tries, progress, copy>>
workload == <<pod, next, memory>>
vars == <<operator, objects, workload, file, stored, preps, faults>>

None == [kind |-> "none"]
NoPod == <<>>
NoProgress == [pulled |-> 0, failed |-> {}]
NoTries == [i \in Images |-> 0]
NoThreads == [i \in Images |-> "none"]
NoCopies == [i \in Images |-> NoProgress]

Init ==
    /\ seed \in Seeds /\ phase = "idle" /\ cause = "none" /\ pc = "idle"
    /\ cm = None /\ job = None
    /\ pod = NoPod /\ next = 0
    /\ thread = NoThreads /\ tries = NoTries /\ progress = NoProgress /\ copy = NoCopies
    /\ file = None /\ stored \in SUBSET Images
    /\ preps = 0 /\ faults = 0

Deleting(o) == o # None /\ o.deleting

Fault == faults < MaxFaults /\ faults' = faults + 1
NoFault == UNCHANGED faults

(***************************************************************************)
(* The operator.                                                           *)
(***************************************************************************)
\* The user asks for Prep; the operator makes room in the container storage
\* and sets up the stateroot first.
SetPrep ==
    /\ phase = "idle" /\ preps < MaxPreps
    /\ seed' \in Seeds /\ phase' = "prep" /\ preps' = preps + 1
    /\ stored' \in SUBSET stored
    /\ UNCHANGED <<cause, pc, objects, workload, file, faults>>

\* A ConfigMap that is there already is taken as it is, also one that an
\* earlier Prep has left and that is being deleted.
CreateConfigMap ==
    /\ phase = "prep" /\ pc = "idle" /\ job = None
    /\ \/ /\ cm = None /\ NoFault
          /\ cm' = [kind |-> "cm", list |-> ListOf[seed], deleting |-> FALSE] /\ pc' = "job"
       \/ cm # None /\ NoFault /\ UNCHANGED cm /\ pc' = "job"
       \/ Fault /\ UNCHANGED <<cm, pc>>
    /\ UNCHANGED <<seed, phase, cause, job, workload, file, stored, preps>>

\* A job; what its pod was given, whether that was a leftover, and whether
\* its last report could be written are kept for the properties.
NewJob == [kind |-> "job", state |-> "active", started |-> FALSE, deleting |-> FALSE, finalizer |-> TRUE,
           list |-> NoPod, leftover |-> FALSE, reported |-> FALSE]

CreateJob ==
    /\ pc = "job" /\ pc' = "idle"
    /\ \/ /\ job = None /\ NoFault
          /\ job' = NewJob
       \/ job # None /\ NoFault /\ UNCHANGED job
       \/ Fault /\ UNCHANGED job
    /\ UNCHANGED <<seed, phase, cause, cm, workload, file, stored, preps>>

\* handlePrep when there is a job.
CheckJob ==
    /\ phase = "prep" /\ pc = "idle" /\ job # None
    /\ \/ Deleting(job) /\ phase' = "failed" /\ cause' = "deleted"
       \/ ~Deleting(job) /\ job.state = "failed" /\ phase' = "failed" /\ cause' = "job"
       \/ ~Deleting(job) /\ job.state = "complete" /\ phase' = "completed" /\ UNCHANGED cause
    /\ UNCHANGED <<seed, pc, objects, workload, file, stored, preps, faults>>

\* The user goes back to Idle.
SetIdle ==
    /\ phase \in {"prep", "completed", "failed"} /\ pc = "idle"
    /\ phase' = "cleanup"
    /\ UNCHANGED <<seed, cause, pc, objects, workload, file, stored, preps, faults>>

Marked(o) == IF o = None THEN None ELSE [o EXCEPT !.deleting = TRUE]

removePrecacheFinalizer(o) == IF o = None THEN None ELSE [o EXCEPT !.finalizer = FALSE]

\* The finalizer is removed and the job deleted in the foreground.
deleteJob == job' = Marked(removePrecacheFinalizer(job))

\* Each call may fail, and the next are then not made; the cleanup is tried
\* again.  A status file that cannot be removed stays.
Cleanup ==
    /\ phase = "cleanup"
    /\ \/ /\ deleteJob /\ cm' = Marked(cm) /\ NoFault
          /\ file' = None /\ phase' = "idle" /\ cause' = "none"
       \/ /\ deleteJob /\ cm' = Marked(cm) /\ Fault
          /\ UNCHANGED file /\ phase' = "idle" /\ cause' = "none"
       \/ Fault /\ deleteJob /\ UNCHANGED <<cm, file, phase, cause>>
       \/ Fault /\ job' = removePrecacheFinalizer(job) /\ UNCHANGED <<cm, file, phase, cause>>
       \/ Fault /\ UNCHANGED <<objects, file, phase, cause>>
    /\ UNCHANGED <<seed, pc, workload, stored, preps>>

(***************************************************************************)
(* Kubernetes.                                                             *)
(***************************************************************************)
\* The pod needs the ConfigMap for its volume.
StartPod ==
    /\ job # None /\ job.state = "active" /\ ~job.started /\ ~job.deleting
    /\ cm # None
    /\ job' = [job EXCEPT !.started = TRUE, !.list = cm.list, !.leftover = cm.deleting]
    /\ pod' = cm.list
    /\ UNCHANGED <<operator, cm, next, memory, file, stored, preps, faults>>

PodEnds(state, reported) ==
    /\ pod' = NoPod /\ next' = 0
    /\ thread' = NoThreads /\ tries' = NoTries /\ progress' = NoProgress /\ copy' = NoCopies
    /\ job' = IF job.state = "active" THEN [job EXCEPT !.state = state, !.reported = reported] ELSE job

\* The pod is killed with its job, some time after the deletion.
KillPod ==
    /\ Deleting(job) /\ ~job.finalizer /\ pod # NoPod
    /\ PodEnds("failed", FALSE)
    /\ UNCHANGED <<operator, cm, file, stored, preps, faults>>

\* The pod is lost, or podman or its auth file is missing.  BackoffLimit is 0.
LosePod ==
    /\ job # None /\ pod # NoPod /\ Fault /\ PodEnds("failed", FALSE)
    /\ UNCHANGED <<operator, cm, file, stored, preps>>

\* Somebody deletes the job: the finalizer keeps it.
DeleteJob ==
    /\ job # None /\ ~Deleting(job) /\ Fault
    /\ job' = Marked(job)
    /\ UNCHANGED <<operator, cm, workload, file, stored, preps>>

JobGone ==
    /\ Deleting(job) /\ ~job.finalizer /\ pod = NoPod
    /\ job' = None
    /\ UNCHANGED <<operator, cm, workload, file, stored, preps, faults>>

ConfigMapGone ==
    /\ Deleting(cm) /\ cm' = None
    /\ UNCHANGED <<operator, job, workload, file, stored, preps, faults>>

(***************************************************************************)
(* The workload: PullImages.                                               *)
(***************************************************************************)
Running == {i \in Images : thread[i] \notin {"none", "done"}}

Spawn ==
    /\ pod # NoPod /\ next < Len(pod) /\ Cardinality(Running) < Threads
    /\ next' = next + 1
    /\ thread' = [thread EXCEPT ![pod[next + 1]] = "pull"]
    /\ UNCHANGED <<operator, objects, pod, tries, progress, copy, file, stored, preps, faults>>

\* One attempt; the last, or one with "manifest unknown", fails the image.
pullImage(i) ==
    /\ thread[i] = "pull"
    /\ \/ /\ stored' = stored \cup {i} /\ thread' = [thread EXCEPT ![i] = "pulled"]
          /\ tries' = [tries EXCEPT ![i] = 0]
       \/ /\ thread' = [thread EXCEPT ![i] = "failed"]
          /\ tries' = [tries EXCEPT ![i] = 0] /\ UNCHANGED stored
       \/ /\ tries[i] + 1 < MaxRetries
          /\ tries' = [tries EXCEPT ![i] = @ + 1] /\ UNCHANGED <<stored, thread>>
    /\ UNCHANGED <<operator, objects, pod, next, progress, copy, file, preps, faults>>

\* Progress.Update holds the mutex.
Update(i) ==
    /\ thread[i] \in {"pulled", "failed"}
    /\ progress' = IF thread[i] = "pulled" THEN [progress EXCEPT !.pulled = @ + 1]
                   ELSE [progress EXCEPT !.failed = @ \cup {i}]
    /\ thread' = [thread EXCEPT ![i] = "read"]
    /\ UNCHANGED <<operator, objects, pod, next, tries, copy, file, stored, preps, faults>>

\* Progress.Persist does not: it reads the fields one after the other.
Read(i) ==
    /\ \/ /\ thread[i] = "read"
          /\ copy' = [copy EXCEPT ![i].pulled = progress.pulled]
          /\ thread' = [thread EXCEPT ![i] = "readFailed"]
       \/ /\ thread[i] = "readFailed"
          /\ copy' = [copy EXCEPT ![i].failed = progress.failed]
          /\ thread' = [thread EXCEPT ![i] = "write"]
    /\ UNCHANGED <<operator, objects, pod, next, tries, progress, file, stored, preps, faults>>

Report(p) == [kind |-> "file", list |-> pod, pulled |-> p.pulled, failed |-> p.failed]

\* The file is truncated before it is written, and a failure of either is
\* only logged.
Truncated == [kind |-> "truncated"]
FailedWrite == Fault /\ file' \in {file, Truncated}

Persist(i) ==
    /\ thread[i] = "write"
    /\ FailedWrite \/ (NoFault /\ file' = Report(copy[i]))
    /\ thread' = [thread EXCEPT ![i] = "done"]
    /\ copy' = [copy EXCEPT ![i] = NoProgress]
    /\ UNCHANGED <<operator, objects, pod, next, tries, progress, stored, preps>>

ValidatePrecache == progress.failed \subseteq stored \/ BestEffort

AllDone == pod # NoPod /\ next = Len(pod) /\ Running = {}

Verdict == IF ValidatePrecache THEN "complete" ELSE "failed"

\* Mutant: the final report is left to the threads.
Finish_noReport ==
    /\ AllDone /\ UNCHANGED file /\ NoFault /\ PodEnds(Verdict, TRUE)
    /\ UNCHANGED <<operator, cm, stored, preps>>

\* After wg.Wait the report is written again; the verdict does not depend on
\* it.
Finish ==
    /\ AllDone
    /\ \/ NoFault /\ file' = Report(progress) /\ PodEnds(Verdict, TRUE)
       \/ FailedWrite /\ PodEnds(Verdict, FALSE)
    /\ UNCHANGED <<operator, cm, stored, preps>>

User == SetPrep \/ SetIdle \/ DeleteJob
Operator == CreateConfigMap \/ CreateJob \/ CheckJob \/ Cleanup
Kubernetes == StartPod \/ KillPod \/ JobGone \/ ConfigMapGone
Thread(i) == pullImage(i) \/ Update(i) \/ Read(i) \/ Persist(i)
Workload == Spawn \/ Finish \/ \E i \in Images : Thread(i)

Next == User \/ Operator \/ Kubernetes \/ LosePod \/ Workload

Spec == Init /\ [][Next]_vars
----------------------------------------------------------------------------
TypeOK ==
    /\ seed \in Seeds /\ phase \in {"idle", "prep", "completed", "failed", "cleanup"}
    /\ cause \in {"none", "deleted", "job"} /\ pc \in {"idle", "job"}
    /\ cm \in {None} \cup [kind : {"cm"}, list : Range(ListOf), deleting : BOOLEAN]
    /\ job \in {None} \cup [kind : {"job"}, state : {"active", "complete", "failed"},
                              started : BOOLEAN, deleting : BOOLEAN, finalizer : BOOLEAN,
                              list : {NoPod} \cup Range(ListOf), leftover : BOOLEAN, reported : BOOLEAN]
    /\ pod \in {NoPod} \cup Range(ListOf)
    /\ next \in 0 .. Len(pod)
    /\ thread \in [Images -> {"none", "pull", "pulled", "failed", "read", "readFailed", "write", "done"}]
    /\ tries \in [Images -> 0 .. MaxRetries]
    /\ progress.pulled + Cardinality(progress.failed) <= Cardinality(Images)
    /\ stored \subseteq Images

(* When Prep is completed, every image its workload was given was pulled or
   found, and it was given the list of the seed image, whatever the threads,
   the retries and an earlier Prep have done; only a ConfigMap that an
   earlier Prep has left, and that was still being deleted when the pod was
   started, may hold another list, since AlreadyExists is accepted
   (CreateJobAndConfigMap, PullImages, ValidatePrecache). *)
CompletedMeansCached ==
    phase = "completed" /\ ~BestEffort =>
        /\ Range(job.list) \subseteq stored
        /\ ~job.leftover => job.list = ListOf[seed]

(* When the workload is done and its last write has not failed, which it
   would only log, the status file is its own and has the whole count,
   whatever the threads have read, in whichever order they wrote it, and
   although the pod of an earlier job may have written it after the cleanup
   (PullImages, Progress.Persist, Cleanup). *)
FinalReportTrue ==
    job # None /\ ~Deleting(job) /\ job.reported /\ phase \in {"prep", "completed"} =>
        /\ file.kind = "file" /\ file.list = job.list
        /\ file.pulled + Cardinality(file.failed) = Len(file.list)

(* What Prep is told of the images is true, and of its own workload. *)
PrecacheTrue == CompletedMeansCached /\ FinalReportTrue

(* Prep fails because of its own job, never because of one that an earlier
   Prep has left (handlePrep, Cleanup). *)
FailsForOwnJob == phase = "failed" /\ cause = "deleted" => job = None \/ job.finalizer
=============================================================================
