------------------------------ MODULE MCSeedGen ------------------------------
(***************************************************************************)
(* SeedGen for model checking, with the claims of its comments and docs    *)
(* that do not hold.                                                       *)
(***************************************************************************)
EXTENDS SeedGen

\* docs: the status reflects success or failure of the image generation.  A
\* generation that is reported Failed has pushed no image (checkImagerStatus).
FailedMeansNotPushed == cr = "Failed" => image = NoImage

\* The pull-secret is restored in the case where a failure happens before the
\* imager is launched (the deferred function of generateSeedImage).
FailedRestoresPullSecret == cr = "Failed" /\ op = "idle" => pull = "real"

\* The phases: a CR whose imager has run is in the final phase, so no second
\* imager is launched for it (getPhase).
ImagerLaunchedOnce == [][container' = "running" /\ container # "running" => image = NoImage]_vars

\* When the operator restarts it recovers and runs the second stage: it never
\* gives up starting for good (initSeedGen).
OperatorRecovers == []<>kubelet.up => []<>(op = "idle" \/ op \in GenSteps \/ op = "waiting")
=============================================================================
