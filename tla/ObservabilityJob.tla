--------------------------- MODULE ObservabilityJob ---------------------------
(***************************************************************************)
(* The spark-client container of run-observability-test.ps1, which runs    *)
(* observability/run-observability-test.sh: submit in the background, look *)
(* for the application's id in the log, watch it live, wait for it, and    *)
(* check the History Server.  Every way out goes through the EXIT trap,    *)
(* which kills the application unless all checks passed, and looks for it  *)
(* in the listing of the ResourceManager if its id was never printed.      *)
(***************************************************************************)
EXTENDS SparkSubmit, Naturals

CONSTANTS
    PollAttempts,     \* application_poll_attempts, history_poll_attempts
    CleanupAttempts,  \* attempts of the last loop of cleanup
    Faults            \* what may happen, see FaultKind

ASSUME AttemptsAssumption == PollAttempts \in Nat \ {0} /\ CleanupAttempts \in Nat \ {0}

\* kill: the container is killed.  interrupt: it gets INT or TERM.  overlap:
\* another observability test submits while this one runs, as that of a killed
\* run-observability-test.ps1 may.
FaultKind == {"kill", "interrupt", "overlap"}

ASSUME FaultsAssumption == Faults \subseteq FaultKind

VARIABLES
    pc,
    n,        \* attempts of the poll under way
    target,   \* $application_id: nobody's, the job's own, or another job's
    other,    \* a live application of the same name, of another test, accepted
              \* earlier or later than this test has started to submit
    spared,   \* history: this test has not killed the other application
    told,     \* OBSERVED_APPLICATION_ID has been printed
    verdict,  \* the exit code, once it is known
    printed,  \* history: the id was in the log when the EXIT trap looked
    answer

vars == <<submitVars, pc, n, target, other, spared, told, verdict, printed, answer>>

Body == {"launch", "id", "alive", "running", "live", "metrics", "wait", "final",
         "history", "validate"}
Trap == {"cleanup", "listing", "kill", "confirm"}

TypeOK ==
    /\ SubmitTypeOK
    /\ pc \in Body \union Trap \union {"ended"}
    /\ n \in 0 .. PollAttempts \union 0 .. CleanupAttempts
    /\ target \in {"none", "own", "other"}
    /\ other \in {"none", "earlier", "later"}
    /\ spared \in BOOLEAN /\ told \in BOOLEAN /\ printed \in BOOLEAN
    /\ verdict \in {"none", "pass", "fail"}
    /\ answer \in {"none", "pass", "fail", "killed"}

Init ==
    /\ SubmitInit
    /\ pc = "launch"
    /\ n = 0
    /\ target = "none"
    /\ other \in {"none", "earlier"}
    /\ spared = TRUE /\ told = FALSE /\ printed = FALSE
    /\ verdict = "none"
    /\ answer = "none"

Continues(step) == pc' = step /\ UNCHANGED verdict
Exits(v) == pc' = "cleanup" /\ verdict' = v

\* One attempt of a bounded poll: found is what it looks for.
Poll(from, found, follows) ==
    /\ pc = from
    /\ \/ found /\ follows /\ n' = 0
       \/ n + 1 < PollAttempts /\ n' = n + 1 /\ Continues(from)
       \/ n + 1 = PollAttempts /\ n' = 0 /\ Exits("fail")
    /\ UNCHANGED <<submitVars, target, other, spared, printed, answer>>

-----------------------------------------------------------------------------
(* The body of the script *)

\* javac, jar, and spark-submit in the background.
Launch ==
    /\ pc = "launch"
    /\ \/ Continues("id") /\ proc' = "running"
       \/ Exits("fail") /\ UNCHANGED proc
    /\ UNCHANGED <<logged, yarn, n, target, other, spared, told, printed, answer>>

\* The log is read first and the process looked at afterwards: the id may be
\* printed, and spark-submit end, between the two.
FindId ==
    /\ pc = "id"
    /\ IF logged THEN /\ Continues("running")
                      /\ target' = "own"
                      /\ n' = 0
       ELSE Continues("alive") /\ UNCHANGED <<target, n>>
    /\ UNCHANGED <<submitVars, other, spared, told, printed, answer>>

StillSubmitting ==
    /\ pc = "alive"
    /\ IF proc \in Alive /\ n + 1 < PollAttempts
       THEN Continues("id") /\ n' = n + 1
       ELSE Exits("fail") /\ n' = 0
    /\ UNCHANGED <<submitVars, target, other, spared, told, printed, answer>>

PollRunning ==
    /\ Poll("running", yarn \in {"RUNNING"} \union Terminal,
            IF yarn = "RUNNING" THEN Continues("live") ELSE Exits("fail"))
    /\ UNCHANGED told

PollLiveApi ==
    /\ Poll("live", yarn = "RUNNING", Continues("metrics"))
    /\ UNCHANGED told

\* Executors and metrics of an application that is still running.
PollMetrics ==
    /\ Poll("metrics", yarn \in {"RUNNING"} \union Terminal,
            IF yarn = "RUNNING" THEN Continues("wait") ELSE Exits("fail"))
    /\ told' = (told \/ pc' = "wait")

WaitForSubmit_AnyStatus ==
    /\ pc = "wait" /\ proc \in Exited
    /\ Continues("final")
    /\ UNCHANGED <<submitVars, n, target, other, spared, told, printed, answer>>
WaitForSubmit ==
    /\ pc = "wait" /\ proc \in Exited
    /\ IF proc = "zero" THEN Continues("final") ELSE Exits("fail")
    /\ UNCHANGED <<submitVars, n, target, other, spared, told, printed, answer>>

\* FINISHED ends the poll; FAILED and KILLED are polled to the last attempt.
PollFinal ==
    /\ Poll("final", yarn \in {"SUCCEEDED", "UNSUCCESSFUL"},
            IF yarn = "SUCCEEDED" THEN Continues("history") ELSE Exits("fail"))
    /\ UNCHANGED told

PollHistory ==
    /\ Poll("history", yarn \in Terminal, Continues("validate"))
    /\ UNCHANGED told

\* The five assert_history_json share a deadline; the last sets
\* completed_successfully.
Validate ==
    /\ pc = "validate"
    /\ \E v \in {"pass", "fail"} : Exits(v)
    /\ UNCHANGED <<submitVars, n, target, other, spared, told, printed, answer>>

-----------------------------------------------------------------------------
(* The EXIT trap *)

Ends(a) ==
    /\ pc' = "ended"
    /\ answer' = a
    /\ proc' = IF proc \in Alive THEN "gone" ELSE proc

\* spark-submit is told to end, and not waited for; the log is read again if
\* the polls have not found the id.
Cleanup_NoSecondLook ==
    /\ pc = "cleanup" /\ pc' = "listing"
    /\ proc' = IF proc = "running" THEN "dying" ELSE proc
    /\ printed' = logged
    /\ UNCHANGED <<logged, yarn, n, target, other, spared, told, verdict, answer>>
Cleanup ==
    /\ pc = "cleanup" /\ pc' = "listing"
    /\ proc' = IF proc = "running" THEN "dying" ELSE proc
    /\ target' = IF target = "none" /\ logged THEN "own" ELSE target
    /\ printed' = logged
    /\ UNCHANGED <<logged, yarn, n, other, spared, told, verdict, answer>>

\* The live applications of this name started after the submission.  None is
\* taken unless there is exactly one.
Listed(starts) == (IF yarn \in Live THEN {"own"} ELSE {})
                      \union (IF other \in starts /\ spared THEN {"other"} ELSE {})
Unique(found) == {t \in found : found = {t}}

SearchListing_AnyTime ==
    /\ pc = "listing" /\ pc' = "kill"
    /\ IF target = "none" /\ proc # "none"
       THEN target' \in Unique(Listed({"earlier", "later"})) \union {"none"}
       ELSE UNCHANGED target
    /\ UNCHANGED <<submitVars, n, other, spared, told, verdict, printed, answer>>
SearchListing ==
    /\ pc = "listing" /\ pc' = "kill"
    /\ IF target = "none" /\ proc # "none"
       THEN target' \in Unique(Listed({"later"})) \union {"none"}
       ELSE UNCHANGED target
    /\ UNCHANGED <<submitVars, n, other, spared, told, verdict, printed, answer>>

\* yarn application -kill, unless all the checks have passed.
KillTarget ==
    /\ pc = "kill"
    /\ \/ /\ verdict = "pass" \/ target = "none"
          /\ Ends(verdict)
          /\ UNCHANGED <<logged, yarn, spared>>
       \/ /\ verdict # "pass" /\ target # "none"
          /\ pc' = "confirm" /\ UNCHANGED answer
          /\ \/ target = "own" /\ Kill /\ UNCHANGED spared
             \/ target = "other" /\ spared' \in {spared, FALSE} /\ UNCHANGED submitVars
    /\ UNCHANGED <<n, target, other, told, verdict, printed>>

TargetEnded == IF target = "own" THEN yarn \in Terminal ELSE ~ spared

ConfirmKilled_ExitCodeLost ==
    /\ pc = "confirm"
    /\ \/ TargetEnded /\ Ends("pass") /\ n' = 0
       \/ n + 1 < CleanupAttempts /\ n' = n + 1 /\ UNCHANGED <<pc, answer, proc>>
       \/ n + 1 = CleanupAttempts /\ n' = n + 1 /\ Ends("pass")
    /\ UNCHANGED <<logged, yarn, target, other, spared, told, verdict, printed>>
ConfirmKilled ==
    /\ pc = "confirm"
    /\ \/ TargetEnded /\ Ends(verdict) /\ n' = 0
       \/ n + 1 < CleanupAttempts /\ n' = n + 1 /\ UNCHANGED <<pc, answer, proc>>
       \/ n + 1 = CleanupAttempts /\ n' = n + 1 /\ Ends(verdict)
    /\ UNCHANGED <<logged, yarn, target, other, spared, told, verdict, printed>>

-----------------------------------------------------------------------------
\* INT and TERM end the body with exit code 130. The trap sets both back to their default
\* first: one that comes later ends the script there, as ContainerKilled does.
Interrupt ==
    /\ "interrupt" \in Faults
    /\ pc \in Body
    /\ Exits("fail")
    /\ n' = 0
    /\ UNCHANGED <<submitVars, target, other, spared, told, printed, answer>>

OtherSubmits ==
    /\ "overlap" \in Faults
    /\ pc # "launch" /\ other = "none"
    /\ other' = "later"
    /\ UNCHANGED <<submitVars, pc, n, target, spared, told, verdict, printed, answer>>

ContainerKilled ==
    /\ "kill" \in Faults
    /\ pc # "ended"
    /\ Ends("killed")
    /\ UNCHANGED <<logged, yarn, n, target, other, spared, told, verdict, printed>>

Script ==
    \/ Launch \/ FindId \/ StillSubmitting \/ PollRunning \/ PollLiveApi
    \/ PollMetrics \/ WaitForSubmit \/ PollFinal \/ PollHistory \/ Validate
    \/ Cleanup \/ SearchListing \/ KillTarget \/ ConfirmKilled

External ==
    SparkStep /\ UNCHANGED <<pc, n, target, other, spared, told, verdict, printed, answer>>

Next == Script \/ External \/ Interrupt \/ OtherSubmits \/ ContainerKilled

Spec == Init /\ [][Next]_vars

\* As in SmokeJob: bash runs the script, timeout ends spark-submit, and YARN
\* may do nothing at all.
FairSpec ==
    /\ Spec
    /\ WF_vars(Script)
    /\ WF_vars(TimeUp /\ UNCHANGED <<pc, n, target, other, spared, told, verdict, printed, answer>>)

-----------------------------------------------------------------------------
\* OBSERVABILITY_TEST_RESULT=PASS is earned: the application was watched while
\* it ran, it succeeded, and spark-submit said so.
PassIsEarned ==
    answer = "pass" => /\ told /\ target = "own"
                       /\ yarn = "SUCCEEDED" /\ proc = "zero"

\* A test that failed leaves its application running only if the id was not in
\* the log when the trap looked there and the listing did not help, or if the
\* kill was not confirmed in all attempts.
LeftRunningExplained ==
    answer = "fail" /\ yarn \in Live =>
        (target # "own" /\ ~ printed) \/ n = CleanupAttempts

\* The trap never kills the application of an earlier test, though that one has
\* the same name and may be the only one in the listing.  (That of a later
\* test is killed if it is alone there; the lock keeps the tests apart.)
SparesEarlierTests == ~ spared => other = "later"

Contract == INSTANCE JobContract WITH
    state    <- IF yarn = "none" /\ pc = "ended" THEN "failed" ELSE Contracted,
    answer   <- IF answer = "killed" THEN "fail" ELSE answer,
    observed <- told

\* The container keeps to what the host scripts rely on; in particular it ends, although
\* YARN may never run the application and may never answer.
KeepsContract == Contract!Spec
=============================================================================
