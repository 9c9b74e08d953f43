----------------------------- MODULE JobContract ------------------------------
(***************************************************************************)
(* What the host scripts rely on when they run a Spark job in a one-off    *)
(* spark-client container: the life of one application and the answer of   *)
(* its container.  LocalYarnLifecycle uses a job in this way (Launch,      *)
(* Submit, Finish and ContainerEnds of YarnJobs); SmokeJob and             *)
(* ObservabilityJob are shown to keep to it.                               *)
(***************************************************************************)
VARIABLES
    state,     \* of the application, as in YarnJobs
    answer,    \* "none" while the container runs, then "pass" or "fail"
    observed   \* the container has told the application's id

Init == state = "launching" /\ answer = "none" /\ observed = FALSE

\* YARN accepts the application, but not after its container has ended.
Submit == state = "launching" /\ answer = "none" /\ state' = "active"

Finish == state = "active" /\ state' \in {"succeeded", "failed"}

Tell == observed' \in {observed, answer = "none"}

\* The container ends.  It passes only with an application that succeeded and
\* whose id it has told.
End ==
    /\ answer = "none"
    /\ answer' \in {"pass", "fail"}
    /\ answer' = "pass" => observed' /\ state = "succeeded"
    /\ state' \in IF state = "launching" THEN {"failed"} ELSE {state}

Next ==
    \/ Submit /\ UNCHANGED <<answer, observed>>
    \/ Finish /\ UNCHANGED <<answer, observed>>
    \/ End /\ Tell
    \/ Tell /\ UNCHANGED <<state, answer>>

\* The container ends, though the application may not.
Spec == Init /\ [][Next]_<<state, answer, observed>> /\ <>(answer # "none")
=============================================================================
