----------------------------- MODULE SparkSubmit ------------------------------
(***************************************************************************)
(* One spark-submit --deploy-mode cluster, run under                       *)
(* timeout --signal=TERM --kill-after=30s by verify-spark.sh and by the    *)
(* observability script, and the YARN application it submits.  Spark and   *)
(* YARN are not part of the repository: this module says what the two      *)
(* scripts rely on.                                                        *)
(*                                                                         *)
(* spark-submit prints the application's id, before or after YARN accepts  *)
(* it, and waits for the application; it exits with status zero only if    *)
(* the application succeeded.  A spark-submit that is killed does not take *)
(* its application with it.  YARN may answer no request for any length of  *)
(* time, and the applications of a ResourceManager that restarts are lost. *)
(***************************************************************************)
VARIABLES
    proc,     \* spark-submit: not run, running, told to end, or its exit status
    logged,   \* the id of the application is in the log of spark-submit
    yarn      \* the application's state in YARN

submitVars == <<proc, logged, yarn>>

Exited == {"zero", "nonzero", "timeout", "gone"}
Alive == {"running", "dying"}

Live == {"ACCEPTED", "RUNNING"}

\* The states the scripts call terminal, FINISHED with either final status.
Terminal == {"SUCCEEDED", "UNSUCCESSFUL", "FAILED", "KILLED"}

SubmitTypeOK ==
    /\ proc \in {"none"} \union Alive \union Exited
    /\ logged \in BOOLEAN
    /\ yarn \in {"none", "LOST"} \union Live \union Terminal

SubmitInit == proc = "none" /\ logged = FALSE /\ yarn = "none"

Accept ==
    /\ proc \in Alive /\ yarn = "none"
    /\ yarn' = "ACCEPTED"
    /\ UNCHANGED <<proc, logged>>

Progress ==
    /\ \/ yarn = "ACCEPTED" /\ yarn' = "RUNNING"
       \/ yarn = "RUNNING" /\ yarn' \in {"SUCCEEDED", "UNSUCCESSFUL"}
       \/ yarn \in Live /\ yarn' \in {"FAILED", "LOST"}
    /\ UNCHANGED <<proc, logged>>

PrintId ==
    /\ proc \in Alive /\ ~ logged
    /\ logged' = TRUE
    /\ UNCHANGED <<proc, yarn>>

\* spark-submit ends by itself, or its time is up and it is killed.
Exit ==
    /\ \/ proc = "running" /\ proc' = "nonzero"
       \/ proc = "running" /\ yarn = "SUCCEEDED" /\ proc' = "zero"
       \/ proc = "dying" /\ proc' = "gone"
    /\ UNCHANGED <<logged, yarn>>

TimeUp ==
    /\ proc = "running"
    /\ proc' = "timeout"
    /\ UNCHANGED <<logged, yarn>>

\* yarn application -kill: the ResourceManager kills a live application, or
\* the command gets nowhere.
Kill ==
    /\ yarn' \in IF yarn \in Live THEN {yarn, "KILLED"} ELSE {yarn}
    /\ UNCHANGED <<proc, logged>>

SparkStep == Accept \/ Progress \/ PrintId \/ Exit \/ TimeUp

\* The life of the application in the terms of JobContract.
Contracted ==
    IF yarn = "none" THEN "launching"
    ELSE IF yarn \in Live THEN "active"
    ELSE IF yarn = "SUCCEEDED" THEN "succeeded"
    ELSE "failed"
=============================================================================
