---------------------------- MODULE SmokeJobProofs ----------------------------
(***************************************************************************)
(* The smoke container passes only what succeeded, leaves running only     *)
(* what it could not kill, and takes only steps its contract allows, for   *)
(* any numbers of attempts.                                                *)
(***************************************************************************)
EXTENDS SmokeJob, TLAPS

\* A container that has answered has ended, and spark-submit with it; spark-submit ended
\* with status zero after the success of its application; the script goes on to the output
\* and to the correlation only after that, and knows the id.
StepsFollow ==
    /\ answer = "none" <=> pc # "ended"
    /\ pc = "ended" => proc \notin Alive
    /\ proc = "zero" => yarn = "SUCCEEDED"
    /\ pc \in {"submit", "wait"} => ~ seen
    /\ pc = "submit" => proc = "none"
    /\ pc \in {"output"} \union Correlating => proc = "zero" /\ seen

IInv == TypeOK /\ StepsFollow /\ PassIsEarned /\ LeftRunningExplained

LEMMA InitInvariant == Init => IInv
<1> SUFFICES ASSUME Init PROVE IInv
    OBVIOUS
<1>1. n \in 0 .. CleanupAttempts
      BY AttemptsAssumption DEF Init
<1> QED
    BY <1>1
    DEF Init, SubmitInit, IInv, TypeOK, SubmitTypeOK, StepsFollow, PassIsEarned,
        LeftRunningExplained, Step, Correlating, Alive, Exited, Live, Terminal

\* Neither a step of the scripts nor one of Spark or YARN, nor a kill, breaks the invariant.
LEMMA NextInvariant == IInv /\ [Next]_vars => IInv'
<1> SUFFICES ASSUME IInv, [Next]_vars PROVE IInv'
    OBVIOUS
<1> USE AttemptsAssumption
    DEF IInv, TypeOK, SubmitTypeOK, StepsFollow, PassIsEarned, LeftRunningExplained, Step,
        Correlating, Alive, Exited, Live, Terminal, Ends, Continues
<1>1. CASE Submit
      BY <1>1 DEF Submit
<1>2. CASE Decide
      BY <1>2 DEF Decide
<1>3. CASE Terminate
      BY <1>3 DEF Terminate, Kill
<1>4. CASE ConfirmTerminated
      BY <1>4 DEF ConfirmTerminated, Poll
<1>5. CASE TestOutput
      BY <1>5 DEF TestOutput
<1>6. CASE PollResourceManager
      BY <1>6 DEF PollResourceManager, Poll
<1>7. CASE PollHistory
      BY <1>7 DEF PollHistory, Poll
<1>8. CASE PollEnvironment
      BY <1>8 DEF PollEnvironment, Poll
<1>9. CASE PollEventLog
      BY <1>9 DEF PollEventLog, Poll
<1>10. CASE External
  <2>1. CASE Accept
        BY <1>10, <2>1 DEF External, Accept
  <2>2. CASE Progress
        BY <1>10, <2>2 DEF External, Progress
  <2>3. CASE PrintId
        BY <1>10, <2>3 DEF External, PrintId
  <2>4. CASE Exit
        BY <1>10, <2>4 DEF External, Exit
  <2>5. CASE TimeUp
        BY <1>10, <2>5 DEF External, TimeUp
  <2> QED
      BY <1>10, <2>1, <2>2, <2>3, <2>4, <2>5 DEF External, SparkStep
<1>11. CASE ContainerKilled
       BY <1>11 DEF ContainerKilled
<1>12. CASE UNCHANGED vars
       BY <1>12 DEF vars, submitVars
<1> QED
    BY <1>1, <1>2, <1>3, <1>4, <1>5, <1>6, <1>7, <1>8, <1>9, <1>10, <1>11, <1>12
    DEF Next, Script

\* The strengthening the results below rest on: what each step of the script knows of
\* spark-submit and of its application.
THEOREM Invariant == Spec => []IInv
BY InitInvariant, NextInvariant, PTL DEF Spec

\* The container answers PASS only for a spark-submit that ended with status zero, an id that
\* was told and an application YARN reported as successful.
THEOREM PassEarned == Spec => []PassIsEarned
<1>1. IInv => PassIsEarned
      BY DEF IInv
<1> QED
    BY <1>1, Invariant, PTL

\* The application of a smoke that failed still runs only if its id was never learned, or if
\* no attempt confirmed the kill.
THEOREM RestExplained == Spec => []LeftRunningExplained
<1>1. IInv => LeftRunningExplained
      BY DEF IInv
<1> QED
    BY <1>1, Invariant, PTL

\* The state as the host scripts see it: an application that was never submitted has failed
\* when its container ends, and a container that was killed has not answered PASS.
contracted == <<IF yarn = "none" /\ pc = "ended" THEN "failed" ELSE Contracted,
                IF answer = "killed" THEN "fail" ELSE answer, seen>>

\* A step is one of a job as the host scripts know it, or nothing they could notice.
LEMMA StepKeepsContract == IInv /\ [Next]_vars => [Contract!Next]_contracted
<1> SUFFICES ASSUME IInv, [Next]_vars, ~ UNCHANGED contracted PROVE Contract!Next
    OBVIOUS
<1> USE AttemptsAssumption
    DEF IInv, TypeOK, SubmitTypeOK, StepsFollow, Step, Correlating, Alive, Exited, Live, Terminal,
        Ends, Continues, contracted, Contracted, Contract!Next, Contract!Tell
<1>1. CASE Submit
      BY <1>1 DEF Submit
<1>2. CASE Decide
      BY <1>2 DEF Decide, Contract!End
<1>3. CASE Terminate
      BY <1>3 DEF Terminate, Kill, Contract!Finish
<1>4. CASE ConfirmTerminated
      BY <1>4 DEF ConfirmTerminated, Poll, Contract!End
<1>5. CASE TestOutput
      BY <1>5 DEF TestOutput, Contract!End
<1>6. CASE PollResourceManager
      BY <1>6 DEF PollResourceManager, Poll, Contract!End
<1>7. CASE PollHistory
      BY <1>7 DEF PollHistory, Poll, Contract!End
<1>8. CASE PollEnvironment
      BY <1>8 DEF PollEnvironment, Poll, Contract!End
<1>9. CASE PollEventLog
      BY <1>9 DEF PollEventLog, Poll, Contract!End
<1>10. CASE External
  <2>1. CASE Accept
        BY <1>10, <2>1 DEF External, Accept, Contract!Submit
  <2>2. CASE Progress
        BY <1>10, <2>2 DEF External, Progress, Contract!Finish
  <2>3. CASE PrintId \/ Exit \/ TimeUp
        BY <1>10, <2>3 DEF External, PrintId, Exit, TimeUp
  <2> QED
      BY <1>10, <2>1, <2>2, <2>3 DEF External, SparkStep
<1>11. CASE ContainerKilled
       BY <1>11 DEF ContainerKilled, Contract!End
<1>12. CASE UNCHANGED vars
       BY <1>12 DEF vars, submitVars
<1> QED
    BY <1>1, <1>2, <1>3, <1>4, <1>5, <1>6, <1>7, <1>8, <1>9, <1>10, <1>11, <1>12
    DEF Next, Script

\* The container behaves as a job does for the host scripts.  That it ends is left to the
\* model checker.
THEOREM ContractKept == Spec => Contract!Init /\ [][Contract!Next]_contracted
<1>1. Init => Contract!Init
      BY DEF Init, SubmitInit, Contract!Init, Contracted, Live
<1>2. IInv /\ [Next]_vars => [Contract!Next]_contracted
      BY StepKeepsContract
<1> QED
    BY <1>1, <1>2, Invariant, PTL DEF Spec
===============================================================================
