------------------------ MODULE ObservabilityJobProofs ------------------------
(***************************************************************************)
(* The observability container passes only what succeeded, leaves running  *)
(* only what it could not find or kill, and spares the applications of     *)
(* earlier tests, for any numbers of attempts.                             *)
(***************************************************************************)
EXTENDS ObservabilityJob, TLAPS

\* The steps after which the test has seen its own application run.
Watched == {"wait", "final", "history", "validate"}

\* A container that has answered has ended, and spark-submit with it; until the trap has searched, a target
\* is the test's own; what the test has watched it has told; the checks passed only after
\* spark-submit and YARN had reported the success.
StepsFollow ==
    /\ answer = "none" <=> pc # "ended"
    /\ pc = "ended" => proc \notin Alive
    /\ proc = "zero" => yarn = "SUCCEEDED"
    /\ pc = "launch" => proc = "none" /\ target = "none"
    /\ pc \in Body => verdict = "none"
    /\ pc \in Body \union {"cleanup", "listing"} => target # "other"
    /\ pc \in Trap => verdict # "none"
    /\ pc \in {"running", "live", "metrics"} \union Watched => target = "own"
    /\ pc \in Watched => told
    /\ pc \in {"final", "history", "validate"} => proc = "zero"
    /\ verdict = "pass" => told /\ target = "own" /\ proc = "zero"
    /\ answer \in {"pass", "fail"} => answer = verdict

\* Another test's application is a target only when the listing showed it alone, and it was
\* submitted later; the test's own id, once in the log that the trap reads, is the target.
TargetFollows ==
    /\ target = "other" => other = "later"
    /\ ~ spared => other = "later"
    /\ pc \in {"listing", "kill", "confirm", "ended"} /\ printed => target = "own" \/ answer = "killed"

IInv == TypeOK /\ StepsFollow /\ TargetFollows /\ PassIsEarned /\ LeftRunningExplained

LEMMA InitInvariant == Init => IInv
<1> SUFFICES ASSUME Init PROVE IInv
    OBVIOUS
<1>1. n \in 0 .. PollAttempts
      BY AttemptsAssumption DEF Init
<1> QED
    BY <1>1
    DEF Init, SubmitInit, IInv, TypeOK, SubmitTypeOK, StepsFollow, TargetFollows, PassIsEarned,
        LeftRunningExplained, Body, Trap, Watched, Alive, Exited, Live, Terminal

\* Neither a step of the script nor one of Spark or YARN, nor a signal, another test or a kill,
\* breaks the invariant.
LEMMA NextInvariant == IInv /\ [Next]_vars => IInv'
<1> SUFFICES ASSUME IInv, [Next]_vars PROVE IInv'
    OBVIOUS
<1> USE AttemptsAssumption
    DEF IInv, TypeOK, SubmitTypeOK, StepsFollow, TargetFollows, PassIsEarned,
        LeftRunningExplained, Body, Trap, Watched, Alive, Exited, Live, Terminal, submitVars,
        Ends, Continues, Exits
<1>1. CASE Launch
      BY <1>1 DEF Launch
<1>2. CASE FindId
      BY <1>2 DEF FindId
<1>3. CASE StillSubmitting
      BY <1>3 DEF StillSubmitting
<1>4. CASE PollRunning
      BY <1>4 DEF PollRunning, Poll
<1>5. CASE PollLiveApi
      BY <1>5 DEF PollLiveApi, Poll
<1>6. CASE PollMetrics
  <2>1. TypeOK'
        BY <1>6 DEF PollMetrics, Poll
  <2>2. StepsFollow'
        BY <1>6 DEF PollMetrics, Poll
  <2>3. TargetFollows'
        BY <1>6 DEF PollMetrics, Poll
  <2>4. PassIsEarned' /\ LeftRunningExplained'
        BY <1>6 DEF PollMetrics, Poll
  <2> QED
      BY <2>1, <2>2, <2>3, <2>4
<1>7. CASE WaitForSubmit
      BY <1>7 DEF WaitForSubmit
<1>8. CASE PollFinal
      BY <1>8 DEF PollFinal, Poll
<1>9. CASE PollHistory
      BY <1>9 DEF PollHistory, Poll
<1>10. CASE Validate
       BY <1>10 DEF Validate
<1>11. CASE Cleanup
  <2>1. TypeOK'
        BY <1>11 DEF Cleanup
  <2>2. StepsFollow'
        BY <1>11 DEF Cleanup
  <2>3. TargetFollows'
        BY <1>11 DEF Cleanup
  <2>4. PassIsEarned' /\ LeftRunningExplained'
        BY <1>11 DEF Cleanup
  <2> QED
      BY <2>1, <2>2, <2>3, <2>4
<1>12. CASE SearchListing
       BY <1>12 DEF SearchListing, Unique, Listed
<1>13. CASE KillTarget
  <2>1. TypeOK'
    <3>1. SubmitTypeOK'
          BY <1>13, ZenonT(60) DEF KillTarget, Kill
    <3>2. spared' \in BOOLEAN /\ answer' \in {"none", "pass", "fail", "killed"}
          BY <1>13 DEF KillTarget, Kill
    <3> QED
        BY <3>1, <3>2, <1>13 DEF KillTarget, Kill
  <2>2. StepsFollow'
        BY <1>13 DEF KillTarget, Kill
  <2>3. TargetFollows'
        BY <1>13 DEF KillTarget, Kill
  <2>4. PassIsEarned' /\ LeftRunningExplained'
        BY <1>13 DEF KillTarget, Kill
  <2> QED
      BY <2>1, <2>2, <2>3, <2>4
<1>14. CASE ConfirmKilled
       BY <1>14 DEF ConfirmKilled, TargetEnded
<1>15. CASE External
  <2>1. CASE Accept
        BY <1>15, <2>1 DEF External, Accept
  <2>2. CASE Progress
        BY <1>15, <2>2 DEF External, Progress
  <2>3. CASE PrintId
        BY <1>15, <2>3 DEF External, PrintId
  <2>4. CASE Exit
        BY <1>15, <2>4 DEF External, Exit
  <2>5. CASE TimeUp
        BY <1>15, <2>5 DEF External, TimeUp
  <2> QED
      BY <1>15, <2>1, <2>2, <2>3, <2>4, <2>5 DEF External, SparkStep
<1>16. CASE Interrupt
       BY <1>16 DEF Interrupt
<1>17. CASE OtherSubmits
       BY <1>17 DEF OtherSubmits
<1>18. CASE ContainerKilled
       BY <1>18 DEF ContainerKilled
<1>19. CASE UNCHANGED vars
       BY <1>19 DEF vars
<1> QED
    BY <1>1, <1>2, <1>3, <1>4, <1>5, <1>6, <1>7, <1>8, <1>9, <1>10, <1>11, <1>12, <1>13,
       <1>14, <1>15, <1>16, <1>17, <1>18, <1>19
    DEF Next, Script

\* The strengthening the results below rest on: what each step of the script knows of
\* spark-submit and its application, and which application the trap may have as its target.
THEOREM Invariant == Spec => []IInv
BY InitInvariant, NextInvariant, PTL DEF Spec

\* OBSERVABILITY_TEST_RESULT=PASS is only printed for an application that was watched while it
\* ran, and that succeeded for YARN and for spark-submit.
THEOREM PassEarned == Spec => []PassIsEarned
<1>1. IInv => PassIsEarned
      BY DEF IInv
<1> QED
    BY <1>1, Invariant, PTL

\* A test that failed leaves its application running only where the trap could not learn which
\* it is, or where no attempt confirmed the kill.
THEOREM RestExplained == Spec => []LeftRunningExplained
<1>1. IInv => LeftRunningExplained
      BY DEF IInv
<1> QED
    BY <1>1, Invariant, PTL

\* The trap never kills the application of an earlier test.
THEOREM EarlierSpared == Spec => []SparesEarlierTests
<1>1. IInv => SparesEarlierTests
      BY DEF IInv, TargetFollows, SparesEarlierTests
<1> QED
    BY <1>1, Invariant, PTL

\* The state as the host scripts see it: an application that was never submitted has failed
\* when its container ends, and a container that was killed has not answered PASS.
contracted == <<IF yarn = "none" /\ pc = "ended" THEN "failed" ELSE Contracted,
                IF answer = "killed" THEN "fail" ELSE answer, told>>

\* A step is one of a job as the host scripts know it, or nothing they could notice.
LEMMA StepKeepsContract == IInv /\ [Next]_vars => [Contract!Next]_contracted
<1> SUFFICES ASSUME IInv, [Next]_vars, ~ UNCHANGED contracted PROVE Contract!Next
    OBVIOUS
<1> USE AttemptsAssumption
    DEF IInv, TypeOK, SubmitTypeOK, StepsFollow, Body, Trap, Watched, Alive, Exited, Live, Terminal,
        submitVars, Ends, Continues, Exits, contracted, Contracted, Contract!Next, Contract!Tell
<1>1. CASE \/ Launch \/ FindId \/ StillSubmitting \/ PollRunning \/ PollLiveApi \/ WaitForSubmit
           \/ PollFinal \/ PollHistory \/ Validate \/ Cleanup \/ SearchListing
      BY <1>1 DEF Launch, FindId, StillSubmitting, PollRunning, PollLiveApi, WaitForSubmit, PollFinal,
                  PollHistory, Validate, Cleanup, SearchListing, Poll
<1>2. CASE PollMetrics
      BY <1>2 DEF PollMetrics, Poll
<1>3. CASE KillTarget
      BY <1>3 DEF KillTarget, Kill, Contract!Finish, Contract!End
<1>4. CASE ConfirmKilled
      BY <1>4 DEF ConfirmKilled, Contract!End
<1>5. CASE External
  <2>1. CASE Accept
        BY <1>5, <2>1 DEF External, Accept, Contract!Submit
  <2>2. CASE Progress
        BY <1>5, <2>2 DEF External, Progress, Contract!Finish
  <2>3. CASE PrintId \/ Exit \/ TimeUp
        BY <1>5, <2>3 DEF External, PrintId, Exit, TimeUp
  <2> QED
      BY <1>5, <2>1, <2>2, <2>3 DEF External, SparkStep
<1>6. CASE Interrupt \/ OtherSubmits
      BY <1>6 DEF Interrupt, OtherSubmits
<1>7. CASE ContainerKilled
      BY <1>7 DEF ContainerKilled, Contract!End
<1>8. CASE UNCHANGED vars
      BY <1>8 DEF vars
<1> QED
    BY <1>1, <1>2, <1>3, <1>4, <1>5, <1>6, <1>7, <1>8 DEF Next, Script

\* The container behaves as a job does for the host scripts.  That it ends is left to the
\* model checker.
THEOREM ContractKept == Spec => Contract!Init /\ [][Contract!Next]_contracted
<1>1. Init => Contract!Init
      BY DEF Init, SubmitInit, Contract!Init, Contracted, Live
<1>2. IInv /\ [Next]_vars => [Contract!Next]_contracted
      BY StepKeepsContract
<1> QED
    BY <1>1, <1>2, Invariant, PTL DEF Spec
===============================================================================
