------------------------------- MODULE SmokeJob -------------------------------
(***************************************************************************)
(* The spark-client container of verify.ps1: verify-spark.sh submits the   *)
(* smoke application, kills it when the submission fails, and otherwise    *)
(* hands it to verify-correlation.sh, which polls the ResourceManager, the *)
(* Spark History Server and HDFS for it.                                   *)
(*                                                                         *)
(* seen says that $application_id is not empty and n counts the attempts   *)
(* of the poll under way.  No poll waits for ever, and a request of any    *)
(* poll may go unanswered.                                                 *)
(***************************************************************************)
EXTENDS SparkSubmit, Naturals

CONSTANTS
    CleanupAttempts,      \* SPARK_CLEANUP_MAX_ATTEMPTS
    CorrelationAttempts,  \* CORRELATION_MAX_ATTEMPTS
    Faults                \* "kill": the container may be killed

ASSUME AttemptsAssumption ==
    CleanupAttempts \in Nat \ {0} /\ CorrelationAttempts \in Nat \ {0}
ASSUME FaultsAssumption == Faults \subseteq {"kill"}

VARIABLES pc, seen, n, answer

vars == <<submitVars, pc, seen, n, answer>>

Correlating == {"rm", "history", "environment", "eventlog"}
Step == {"submit", "wait", "kill", "confirm", "output", "ended"} \union Correlating

TypeOK ==
    /\ SubmitTypeOK
    /\ pc \in Step
    /\ seen \in BOOLEAN
    /\ n \in 0 .. CleanupAttempts \union 0 .. CorrelationAttempts
    /\ answer \in {"none", "pass", "fail", "killed"}

Init ==
    /\ SubmitInit
    /\ pc = "submit"
    /\ seen = FALSE
    /\ n = 0
    /\ answer = "none"

\* The container ends, and spark-submit with it.
Ends(a) ==
    /\ pc' = "ended"
    /\ answer' = a
    /\ proc' = IF proc \in Alive THEN "gone" ELSE proc

Continues(step) == pc' = step /\ UNCHANGED <<answer, proc>>

\* One attempt of a bounded poll: found is what it looks for.
Poll(from, max, found, follows) ==
    /\ pc = from
    /\ \/ found /\ follows /\ n' = 0
       \/ n + 1 < max /\ n' = n + 1 /\ Continues(from)
       \/ n + 1 = max /\ n' = max /\ Ends("fail")
    /\ UNCHANGED <<logged, yarn, seen>>

-----------------------------------------------------------------------------
(* verify-spark.sh *)

Submit ==
    /\ pc = "submit"
    /\ pc' = "wait"
    /\ proc' = "running"
    /\ UNCHANGED <<logged, yarn, seen, n, answer>>

\* Both ends of the pipeline have ended; without a working tee the log may
\* lack the id.
Decide_TeeStatus ==
    /\ pc = "wait" /\ proc \in Exited
    /\ \E id, tee \in BOOLEAN :
           /\ id => logged
           /\ tee => id = logged
           /\ seen' = id
           /\ \/ id /\ tee /\ Continues("output")
              \/ id /\ ~ tee /\ Continues("kill")
              \/ ~ id /\ Ends("fail")
    /\ UNCHANGED <<logged, yarn, n>>
Decide_TimeoutOnly ==
    /\ pc = "wait" /\ proc \in Exited
    /\ \E id, tee \in BOOLEAN :
           /\ id => logged
           /\ tee => id = logged
           /\ seen' = id
           /\ \/ proc = "zero" /\ tee /\ id /\ Continues("output")
              \/ proc = "timeout" /\ id /\ Continues("kill")
              \/ ~ (proc = "zero" /\ tee) /\ proc # "timeout" /\ id /\ Ends("fail")
              \/ ~ id /\ Ends("fail")
    /\ UNCHANGED <<logged, yarn, n>>
Decide ==
    /\ pc = "wait" /\ proc \in Exited
    /\ \E id, tee \in BOOLEAN :
           /\ id => logged
           /\ tee => id = logged
           /\ seen' = id
           /\ \/ proc = "zero" /\ tee /\ id /\ Continues("output")
              \/ ~ (proc = "zero" /\ tee) /\ id /\ Continues("kill")
              \/ ~ id /\ Ends("fail")
    /\ UNCHANGED <<logged, yarn, n>>

\* terminate_submitted_application: whatever it finds, the job has failed.
Terminate ==
    /\ pc = "kill"
    /\ pc' = "confirm"
    /\ Kill
    /\ UNCHANGED <<seen, n, answer>>

ConfirmTerminated_Unbounded ==
    /\ pc = "confirm"
    /\ \/ yarn \in Terminal /\ Ends("fail")
       \/ Continues("confirm")
    /\ UNCHANGED <<logged, yarn, seen, n>>
ConfirmTerminated ==
    Poll("confirm", CleanupAttempts, yarn \in Terminal, Ends("fail"))

\* hdfs dfs -test -e _SUCCESS
TestOutput ==
    /\ pc = "output"
    /\ Continues("rm") \/ Ends("fail")
    /\ UNCHANGED <<logged, yarn, seen, n>>

-----------------------------------------------------------------------------
(* verify-correlation.sh *)

PollResourceManager ==
    Poll("rm", CorrelationAttempts, yarn \in Terminal,
         IF yarn = "SUCCEEDED" THEN Continues("history") ELSE Ends("fail"))

\* The History Server lists an application as completed once it has ended.
PollHistory ==
    Poll("history", CorrelationAttempts, yarn \in Terminal, Continues("environment"))

\* A record whose properties are not those of the smoke ends the poll too.
PollEnvironment ==
    Poll("environment", CorrelationAttempts, TRUE, Continues("eventlog") \/ Ends("fail"))

PollEventLog == Poll("eventlog", CorrelationAttempts, TRUE, Ends("pass"))

ContainerKilled ==
    /\ "kill" \in Faults
    /\ pc # "ended"
    /\ Ends("killed")
    /\ UNCHANGED <<logged, yarn, seen, n>>

Script ==
    \/ Submit \/ Decide \/ Terminate \/ ConfirmTerminated \/ TestOutput
    \/ PollResourceManager \/ PollHistory \/ PollEnvironment \/ PollEventLog

External == SparkStep /\ UNCHANGED <<pc, seen, n, answer>>

Next == Script \/ External \/ ContainerKilled

Spec == Init /\ [][Next]_vars

\* bash runs the script, and timeout ends a spark-submit that does not end by
\* itself.  Nothing is assumed of YARN.
FairSpec == Spec /\ WF_vars(Script)
                 /\ WF_vars(TimeUp /\ UNCHANGED <<pc, seen, n, answer>>)

-----------------------------------------------------------------------------
\* What the container says is what it found: it passes only when spark-submit
\* itself succeeded, told the id, and YARN reported the success.
PassIsEarned ==
    answer = "pass" => proc = "zero" /\ seen /\ yarn = "SUCCEEDED"

\* A smoke that failed leaves its application running only if it never learned
\* the id or the ResourceManager did not confirm the kill in all its attempts.
LeftRunningExplained ==
    answer = "fail" /\ yarn \in Live => ~ seen \/ n = CleanupAttempts

Contract == INSTANCE JobContract WITH
    state    <- IF yarn = "none" /\ pc = "ended" THEN "failed" ELSE Contracted,
    answer   <- IF answer = "killed" THEN "fail" ELSE answer,
    observed <- seen

\* The container keeps to what the host scripts rely on; in particular it ends, although
\* YARN may never finish the application and may never answer.
KeepsContract == Contract!Spec
=============================================================================
