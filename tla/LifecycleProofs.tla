----------------------------- MODULE LifecycleProofs -----------------------------
(***************************************************************************)
(* Type correctness, the inductive invariant of LifecycleInvariant and     *)
(* what follows from it about sessions, containers and jobs, for any       *)
(* number of runners, sessions, applications and services and whatever the *)
(* environment may do: the safety properties, and that the scripts         *)
(* implement SessionProtocol.                                              *)
(*                                                                         *)
(* The actions are first sorted by what they do to sessions: a step either *)
(* works on the session of a script that holds the lock (WorkStep), or     *)
(* does nothing to sessions (AsideStep), or is one of the seven that make, *)
(* activate or pick a session, which are looked at one by one.             *)
(***************************************************************************)
EXTENDS LifecycleInvariant, TLAPS

\* A script moves from one step to the next and no other script moves.
LEMMA GotoMoves ==
    ASSUME TypeOK, NEW r \in Runner, NEW from, NEW to \in Step, Goto(r, from, to)
    PROVE  /\ pc[r] = from /\ pc'[r] = to
           /\ pc' \in [Runner -> Step]
           /\ \A q \in Runner : q # r => pc'[q] = pc[q]
BY DEF Goto, TypeOK

\* Set-LocalYarnVerificationStatus changes the status of one session that
\* exists.
LEMMA SetStatusWrites ==
    ASSUME TypeOK, NEW s \in Session, NEW st \in Status,
           NEW a \in App \union {None}, SetStatus(s, st, a)
    PROVE  /\ status[s] # "ABSENT" /\ status'[s] = st
           /\ \A t \in Session : t # s => status'[t] = status[t]
           /\ status' \in [Session -> Status]
           /\ appId' \in [Session -> App \union {None}]
BY DEF SetStatus, TypeOK, RecordTypeOK

\* The same for a session that may not exist: the types stay.
LEMMA SetStatusTypes ==
    ASSUME TypeOK, NEW s, NEW st \in Status, NEW a \in App \union {None}, SetStatus(s, st, a)
    PROVE  /\ status' \in [Session -> Status]
           /\ appId' \in [Session -> App \union {None}]
BY DEF SetStatus, TypeOK, RecordTypeOK

\* New-LocalYarnVerificationSession makes a session that was not there.
LEMMA NewSessionWrites ==
    ASSUME TypeOK, NEW s \in Session, NewSession(s)
    PROVE  /\ status[s] = "ABSENT" /\ status'[s] = "INCOMPLETE"
           /\ \A t \in Session : t # s => status'[t] = status[t]
           /\ status' \in [Session -> Status]
           /\ appId' \in [Session -> App \union {None}]
BY DEF NewSession, TypeOK, RecordTypeOK, Status

\* What a step can make of a service's container: nothing, unless it stops;
\* a container that is started now; or one that has yet to be started, or none.
Same(v) ==
    /\ container'[v].startedAt = container[v].startedAt
    /\ container'[v] = container[v] \/ container'[v].state # "running"
Anew(v) == clock < clock' /\ container'[v].startedAt = clock'
Gone(v) == container'[v].startedAt = 0 /\ container'[v].state # "running"

ClusterStep ==
    /\ clock' \in Stamp /\ clock <= clock'
    /\ container' \in [Service -> Container]
    /\ \A v \in Service : Same(v) \/ Anew(v) \/ Gone(v)

\* docker compose up --force-recreate.
LEMMA UpSteps == ASSUME TypeOK, Up PROVE ClusterStep
BY MaxStampAssumption
   DEF Up, Started, ClusterStep, Same, Anew, Gone, TypeOK, ClusterTypeOK, Container,
       State, Stamp

\* One that fails part of the way.
LEMMA UpFailsSteps ==
    ASSUME TypeOK, NEW S \in SUBSET Service, NEW up \in SUBSET S, UpFails(S, up)
    PROVE ClusterStep
BY MaxStampAssumption
   DEF UpFails, Started, ClusterStep, Same, Anew, Gone, TypeOK, ClusterTypeOK,
       Container, State, Stamp

\* docker compose down, of all containers or of some.
LEMMA DownSteps == ASSUME TypeOK, NEW S \in SUBSET Service, Down(S) PROVE ClusterStep
BY MaxStampAssumption
   DEF Down, Absent, Running, Exists, Started, ClusterStep, Same, Anew, Gone,
       TypeOK, ClusterTypeOK, Container, State, Stamp
\* Outside the scripts no container is removed.
Survives == \A v \in Service : Same(v) \/ Anew(v)

\* A container dies.
LEMMA DieSteps ==
    ASSUME TypeOK, NEW v \in Service, Die(v) PROVE ClusterStep /\ Survives
BY MaxStampAssumption
   DEF Die, ClusterStep, Survives, Same, TypeOK, ClusterTypeOK, Container, State, Stamp

\* A container is started by hand.
LEMMA RestartSteps ==
    ASSUME TypeOK, NEW v \in Service, Restart(v) PROVE ClusterStep /\ Survives
<1>1. clock < MaxStamp /\ clock' = clock + 1 /\ clock' \in Stamp
  BY MaxStampAssumption DEF Restart, TypeOK, ClusterTypeOK, Stamp
<1>2. PICK st \in {Started(v), "stopped"} :
          container' = [container EXCEPT ![v].state = st, ![v].startedAt = clock + 1]
  BY DEF Restart
<1>3. st \in State
  BY <1>2 DEF Started, State
<1>4. /\ container' \in [Service -> Container]
      /\ container'[v].startedAt = clock'
      /\ \A w \in Service : w # v => container'[w] = container[w]
  BY <1>1, <1>2, <1>3 DEF TypeOK, ClusterTypeOK, Container
<1>5. clock \in Nat
  BY MaxStampAssumption DEF TypeOK, ClusterTypeOK, Stamp
<1> QED
  BY <1>1, <1>4, <1>5 DEF ClusterStep, Survives, Same, Anew

\* A ResourceManager that restarts loses its applications; they stay jobs.
LEMMA LosingKeepsJobs ==
    ASSUME TypeOK, NEW removed, LoseApplications(removed) PROVE job' \in [App -> Job]
<1> DEFINE Lost(a) == \/ a \in removed
                      \/ /\ a \in Active
                         /\ \/ container'[ResourceManager].state # "running"
                            \/ container'[ResourceManager].startedAt # job[a].rm
<1>1. \A j \in Job : [j EXCEPT !.state = "failed"] \in Job
  BY DEF Job, JobState
<1>2. job \in [App -> Job]
  BY DEF TypeOK, JobsTypeOK
<1>3. job' = [a \in App |-> IF Lost(a) THEN [job[a] EXCEPT !.state = "failed"] ELSE job[a]]
  BY DEF LoseApplications
<1> HIDE DEF Lost
<1>4. ASSUME NEW a \in App
      PROVE  (IF Lost(a) THEN [job[a] EXCEPT !.state = "failed"] ELSE job[a]) \in Job
  BY <1>1, <1>2
<1> QED
  BY <1>3, <1>4

\* The fields of a job that a step changes.
LEMMA JobFields ==
    ASSUME NEW j \in Job
    PROVE  /\ \A st \in JobState, k \in {"smoke", "observability"}, c \in Runner \union {None} :
                  [j EXCEPT !.state = st, !.kind = k, !.client = c] \in Job
           /\ \A st \in JobState, t \in Stamp, m \in SUBSET App :
                  [j EXCEPT !.state = st, !.rm = t, !.met = m] \in Job
           /\ \A a \in App : [j EXCEPT !.met = @ \union {a}] \in Job
           /\ [j EXCEPT !.swapped = TRUE] \in Job
<1>1. \A st \in JobState, k \in {"smoke", "observability"}, c \in Runner \union {None} :
          [j EXCEPT !.state = st, !.kind = k, !.client = c] \in Job
  BY DEF Job
<1>2. \A st \in JobState, t \in Stamp, m \in SUBSET App :
          [j EXCEPT !.state = st, !.rm = t, !.met = m] \in Job
  BY DEF Job
<1>3. \A a \in App : [j EXCEPT !.met = @ \union {a}] \in Job
  BY DEF Job
<1>4. [j EXCEPT !.swapped = TRUE] \in Job
  BY DEF Job
<1> QED
  BY <1>1, <1>2, <1>3, <1>4

\* A script launches a job.
LEMMA LaunchKeepsJobs ==
    ASSUME TypeOK, NEW r \in Runner, NEW k \in {"smoke", "observability"},
           NEW a \in App, Launch(r, k, a)
    PROVE job' \in [App -> Job]
<1>1. job \in [App -> Job]
  BY DEF TypeOK, JobsTypeOK
<1>2. job' = [job EXCEPT ![a].state = "launching", ![a].kind = k, ![a].client = r]
  BY DEF Launch
<1>3. [job[a] EXCEPT !.state = "launching", !.kind = k, !.client = r] \in Job
  BY <1>1, JobFields DEF JobState
<1>4. job' = [job EXCEPT ![a] = [job[a] EXCEPT !.state = "launching", !.kind = k, !.client = r]]
  BY <1>1, <1>2
<1> QED
  BY <1>1, <1>3, <1>4

\* The container of a job ends.
LEMMA EndKeepsJobs ==
    ASSUME TypeOK, NEW a \in App, ContainerEnds(a) PROVE job' \in [App -> Job]
<1>1. job \in [App -> Job]
  BY DEF TypeOK, JobsTypeOK
<1>2. PICK killed \in BOOLEAN :
        job' = [job EXCEPT ![a].client = None,
                           ![a].state = IF @ = "launching" \/ (@ = "active" /\ killed)
                                        THEN "failed" ELSE @]
  BY DEF ContainerEnds
<1> DEFINE st == IF job[a].state = "launching" \/ (job[a].state = "active" /\ killed)
                 THEN "failed" ELSE job[a].state
<1>3. st \in JobState
  BY <1>1 DEF Job, JobState
<1>4. job' = [job EXCEPT ![a].client = None, ![a].state = st]
  BY <1>2
<1> HIDE DEF st
<1> QED
  BY <1>1, <1>3, <1>4, ZenonT(60) DEF Job

\* An application finishes.
LEMMA FinishKeepsJobs ==
    ASSUME TypeOK, NEW a \in App, Finish(a) PROVE job' \in [App -> Job]
<1>1. job \in [App -> Job]
  BY DEF TypeOK, JobsTypeOK
<1>2. PICK st \in {"succeeded", "failed"} : job' = [job EXCEPT ![a].state = st]
  BY DEF Finish
<1> QED
  BY <1>1, <1>2 DEF Job, JobState

\* The Docker VM swaps.
LEMMA SwapKeepsJobs ==
    ASSUME TypeOK, Swap PROVE job' \in [App -> Job] /\ swaps' \in 0 .. MaxSwap
<1>1. job \in [App -> Job]
  BY DEF TypeOK, JobsTypeOK
<1>2. job' = [a \in App |-> IF a \in Active THEN [job[a] EXCEPT !.swapped = TRUE]
                                             ELSE job[a]]
  BY DEF Swap
<1>3. job' \in [App -> Job]
  BY <1>1, <1>2, JobFields
<1>4. swaps' \in 0 .. MaxSwap
  BY MaxSwapAssumption DEF Swap, TypeOK, JobsTypeOK
<1> QED
  BY <1>3, <1>4

\* YARN accepts an application.
LEMMA SubmitKeepsJobs ==
    ASSUME TypeOK, NEW a \in App, Submit(a) PROVE job' \in [App -> Job]
<1>1. job \in [App -> Job]
  BY DEF TypeOK, JobsTypeOK
<1>2. container[ResourceManager].startedAt \in Stamp
  BY ServiceAssumption DEF TypeOK, ClusterTypeOK, Container
<1>3. Active \subseteq App
  BY DEF Active
<1>4. job' = [b \in App |->
           IF b = a THEN [job[a] EXCEPT !.state = "active",
                                        !.rm = container[ResourceManager].startedAt,
                                        !.met = Active]
           ELSE IF b \in Active THEN [job[b] EXCEPT !.met = @ \union {a}]
           ELSE job[b]]
  BY SMTT(60) DEF Submit
<1>5. /\ [job[a] EXCEPT !.state = "active",
                        !.rm = container[ResourceManager].startedAt,
                        !.met = Active] \in Job
      /\ \A b \in App : [job[b] EXCEPT !.met = @ \union {a}] \in Job
  BY <1>1, <1>2, <1>3, JobFields DEF JobState
<1> QED
  BY <1>1, <1>4, <1>5

\* What the evidence files call the containers.
LEMMA IdentityType == ASSUME TypeOK PROVE Identity \in Identities
BY DEF TypeOK, ClusterTypeOK, Container, Identity, Identities

\* What a step can write into the evidence of a session.
LEMMA EvidenceTypes ==
    ASSUME TypeOK, NEW s,
           \/ \E t \in Stamp : evidence' = [evidence EXCEPT ![s].baselineAt = t]
           \/ \E i \in Identities : evidence' = [evidence EXCEPT ![s].started = i]
           \/ \E i \in Identities : evidence' = [evidence EXCEPT ![s].pre = i]
           \/ \E i \in Identities, b \in BOOLEAN :
                  evidence' = [evidence EXCEPT ![s].post = i, ![s].swapDetected = b]
           \/ \E i \in Identities : evidence' = [evidence EXCEPT ![s].final = i]
           \/ \E n \in 0 .. MaxSwap : evidence' = [evidence EXCEPT ![s].swapsBefore = n]
           \/ \E a \in App \union {None} : evidence' = [evidence EXCEPT ![s].yarnApp = a]
           \/ \E a \in App \union {None} : evidence' = [evidence EXCEPT ![s].snapApp = a]
    PROVE  evidence' \in [Session -> Evidence]
<1> USE DEF Evidence
<1>0. evidence \in [Session -> Evidence]
  BY DEF TypeOK
<1>1. CASE \E t \in Stamp : evidence' = [evidence EXCEPT ![s].baselineAt = t]
  BY <1>0, <1>1, ZenonT(60)
<1>2. CASE \E i \in Identities : evidence' = [evidence EXCEPT ![s].started = i]
  BY <1>0, <1>2, ZenonT(60)
<1>3. CASE \E i \in Identities : evidence' = [evidence EXCEPT ![s].pre = i]
  BY <1>0, <1>3, ZenonT(60)
<1>4. CASE \E i \in Identities, b \in BOOLEAN :
               evidence' = [evidence EXCEPT ![s].post = i, ![s].swapDetected = b]
  <2>1. PICK i \in Identities, b \in BOOLEAN :
                 evidence' = [evidence EXCEPT ![s].post = i, ![s].swapDetected = b]
    BY <1>4
  <2>2. ASSUME NEW e \in Evidence PROVE [e EXCEPT !.post = i, !.swapDetected = b] \in Evidence
    OBVIOUS
  <2>3. evidence' = [evidence EXCEPT ![s] = [evidence[s] EXCEPT !.post = i, !.swapDetected = b]]
    BY <2>1
  <2> HIDE DEF Evidence
  <2> QED
    BY <1>0, <2>2, <2>3
<1>5. CASE \E i \in Identities : evidence' = [evidence EXCEPT ![s].final = i]
  BY <1>0, <1>5, ZenonT(60)
<1>6. CASE \E n \in 0 .. MaxSwap : evidence' = [evidence EXCEPT ![s].swapsBefore = n]
  BY <1>0, <1>6, ZenonT(60)
<1>7. CASE \E a \in App \union {None} : evidence' = [evidence EXCEPT ![s].yarnApp = a]
  BY <1>0, <1>7, ZenonT(60)
<1>8. CASE \E a \in App \union {None} : evidence' = [evidence EXCEPT ![s].snapApp = a]
  <2>1. PICK a \in App \union {None} : evidence' = [evidence EXCEPT ![s].snapApp = a]
    BY <1>8
  <2>2. ASSUME NEW e \in Evidence PROVE [e EXCEPT !.snapApp = a] \in Evidence
    OBVIOUS
  <2>3. evidence' = [evidence EXCEPT ![s] = [evidence[s] EXCEPT !.snapApp = a]]
    BY <2>1
  <2> HIDE DEF Evidence
  <2> QED
    BY <1>0, <2>2, <2>3
<1> HIDE DEF Evidence
<1> QED
  BY <1>1, <1>2, <1>3, <1>4, <1>5, <1>6, <1>7, <1>8

-----------------------------------------------------------------------------
(* Type correctness, action by action. *)

\* Before any script has run.
LEMMA TypeInit == Init => TypeOK
BY MaxStampAssumption, MaxSwapAssumption
   DEF Init, RecordInit, ClusterInit, JobsInit, NoIdentity, TypeOK, RecordTypeOK,
       Status, ClusterTypeOK, Container, State, Stamp, JobsTypeOK, Job, JobState,
       Step, Unlocked, File, Evidence, Identities

\* Whatever a script or the environment does next.
LEMMA TypeStep == TypeOK /\ [Next]_vars => TypeOK'
<1> SUFFICES ASSUME TypeOK, [Next]_vars PROVE TypeOK'
  OBVIOUS
<1>1. ASSUME NEW r \in Runner, StartUnreachable(r) PROVE TypeOK'
  <2>1. PICK s \in Session : NewSession(s) /\ sess' = [sess EXCEPT ![r] = s]
    BY <1>1 DEF StartUnreachable
  <2>2. pc' \in [Runner -> Step]
    BY <1>1, GotoMoves DEF StartUnreachable, Step, StartStep, Unlocked
  <2> QED
    BY <1>1, <2>1, <2>2, NewSessionWrites
       DEF StartUnreachable, clusterVars, jobVars, bundleVars, TypeOK, RecordTypeOK,
           ClusterTypeOK, JobsTypeOK
<1>2. ASSUME NEW r \in Runner, MarkUnreachable(r) PROVE TypeOK'
  BY <1>2, GotoMoves, SetStatusTypes
     DEF MarkUnreachable, Status, Terminal, Step, StartStep, Unlocked, clusterVars,
         jobVars, bundleVars, TypeOK, RecordTypeOK, ClusterTypeOK, JobsTypeOK
<1>3. ASSUME NEW r \in Runner, StartEnter(r) PROVE TypeOK'
  BY <1>3, GotoMoves
     DEF StartEnter, Enter, EnterLock, Step, StartStep, recordVars, clusterVars,
         jobVars, bundleVars, TypeOK, RecordTypeOK, ClusterTypeOK, JobsTypeOK
<1>4. ASSUME NEW r \in Runner, StartPreflight(r) PROVE TypeOK'
  BY <1>4, GotoMoves
     DEF StartPreflight, Step, StartStep, recordVars, clusterVars, jobVars,
         bundleVars, TypeOK, RecordTypeOK, ClusterTypeOK, JobsTypeOK
<1>5. ASSUME NEW r \in Runner, StartSession(r) PROVE TypeOK'
  <2>1. PICK s \in Session : NewSession(s) /\ sess' = [sess EXCEPT ![r] = s]
    BY <1>5 DEF StartSession
  <2>2. pc' \in [Runner -> Step]
    BY <1>5, GotoMoves DEF StartSession, Step, StartStep
  <2> QED
    BY <1>5, <2>1, <2>2, NewSessionWrites
       DEF StartSession, clusterVars, jobVars, bundleVars, TypeOK, RecordTypeOK,
           ClusterTypeOK, JobsTypeOK
<1>6. ASSUME NEW r \in Runner, StartActivate(r) PROVE TypeOK'
  BY <1>6, GotoMoves
     DEF StartActivate, Activate, Step, StartStep, clusterVars, jobVars, bundleVars,
         TypeOK, RecordTypeOK, ClusterTypeOK, JobsTypeOK
<1>7. ASSUME NEW r \in Runner, StartBaseline(r) PROVE TypeOK'
  <2>1. pc' \in [Runner -> Step]
    BY <1>7, GotoMoves DEF StartBaseline, Step, StartStep
  <2>2. files' \in [Session -> SUBSET File]
    BY <1>7 DEF StartBaseline, Write, File, TypeOK
  <2>3. evidence' \in [Session -> Evidence]
    BY <1>7, EvidenceTypes
       DEF StartBaseline, TypeOK, RecordTypeOK, ClusterTypeOK, JobsTypeOK
  <2>4. status' \in [Session -> Status] /\ appId' \in [Session -> App \union {None}]
    BY <1>7, SetStatusTypes DEF StartBaseline, StillIncomplete, Status, TypeOK
  <2> QED
    BY <1>7, <2>1, <2>2, <2>3, <2>4
       DEF StartBaseline, clusterVars, jobVars, TypeOK, RecordTypeOK, ClusterTypeOK,
           JobsTypeOK
<1>8. ASSUME NEW r \in Runner, StartPrepare(r) PROVE TypeOK'
  BY <1>8, GotoMoves, SetStatusTypes
     DEF StartPrepare, StillIncomplete, Write, File, Status, Step, StartStep,
         clusterVars, jobVars, TypeOK, RecordTypeOK, ClusterTypeOK, JobsTypeOK
<1>9. ASSUME NEW r \in Runner, StartUp(r) PROVE TypeOK'
  BY <1>9, GotoMoves, SetStatusTypes, UpSteps, UpFailsSteps, LosingKeepsJobs
     DEF StartUp, StillIncomplete, ClusterStep, Status, Step, StartStep, bundleVars,
         TypeOK, RecordTypeOK, ClusterTypeOK, JobsTypeOK
<1>10. ASSUME NEW r \in Runner, StartRecord(r) PROVE TypeOK'
  <2>1. pc' \in [Runner -> Step]
    BY <1>10, GotoMoves DEF StartRecord, Step, StartStep
  <2>2. files' \in [Session -> SUBSET File]
    BY <1>10 DEF StartRecord, Write, File, TypeOK
  <2>3. evidence' \in [Session -> Evidence]
    BY <1>10, EvidenceTypes, IdentityType DEF StartRecord
  <2> QED
    BY <1>10, <2>1, <2>2, <2>3
       DEF StartRecord, recordVars, clusterVars, jobVars, TypeOK, RecordTypeOK,
           ClusterTypeOK, JobsTypeOK
<1>11. ASSUME NEW r \in Runner, StartPending(r) PROVE TypeOK'
  BY <1>11, GotoMoves, SetStatusTypes
     DEF StartPending, StillIncomplete, Status, Step, StartStep, clusterVars,
         jobVars, bundleVars, TypeOK, RecordTypeOK, ClusterTypeOK, JobsTypeOK
<1>12. ASSUME NEW r \in Runner, VerifyEnter(r) PROVE TypeOK'
  <2>1. PICK s \in OnDisk \union {None} : sess' = [sess EXCEPT ![r] = s]
    BY <1>12 DEF VerifyEnter
  <2>2. pc' \in [Runner -> Step]
    BY <1>12, GotoMoves DEF VerifyEnter, Enter, Step, VerifyStep
  <2> QED
    BY <1>12, <2>1, <2>2
       DEF VerifyEnter, Enter, EnterLock, OnDisk, recordVars, clusterVars, jobVars,
           bundleVars, TypeOK, RecordTypeOK, ClusterTypeOK, JobsTypeOK
<1>13. ASSUME NEW r \in Runner, VerifyWithoutSession(r) PROVE TypeOK'
  <2>1. PICK s \in Session : NewSession(s) /\ sess' = [sess EXCEPT ![r] = s]
    BY <1>13 DEF VerifyWithoutSession
  <2>2. pc' \in [Runner -> Step]
    BY <1>13, GotoMoves DEF VerifyWithoutSession, Step, VerifyStep
  <2> QED
    BY <1>13, <2>1, <2>2, NewSessionWrites
       DEF VerifyWithoutSession, clusterVars, jobVars, bundleVars, TypeOK,
           RecordTypeOK, ClusterTypeOK, JobsTypeOK
<1>14. ASSUME NEW r \in Runner, VerifyActivate(r) PROVE TypeOK'
  BY <1>14, GotoMoves
     DEF VerifyActivate, Activate, Step, VerifyStep, clusterVars, jobVars,
         bundleVars, TypeOK, RecordTypeOK, ClusterTypeOK, JobsTypeOK
<1>15. ASSUME NEW r \in Runner, VerifyLoad(r) PROVE TypeOK'
  BY <1>15, GotoMoves
     DEF VerifyLoad, Chosen, Step, VerifyStep, recordVars, clusterVars, jobVars,
         bundleVars, TypeOK, RecordTypeOK, ClusterTypeOK, JobsTypeOK
<1>16. ASSUME NEW r \in Runner, VerifyBaseline(r) PROVE TypeOK'
  BY <1>16, GotoMoves
     DEF VerifyBaseline, Step, VerifyStep, recordVars, clusterVars, jobVars,
         bundleVars, TypeOK, RecordTypeOK, ClusterTypeOK, JobsTypeOK
<1>17. ASSUME NEW r \in Runner, VerifyServices(r) PROVE TypeOK'
  BY <1>17, GotoMoves, SetStatusTypes
     DEF VerifyServices, StillIncomplete, Status, Step, VerifyStep, clusterVars,
         jobVars, bundleVars, TypeOK, RecordTypeOK, ClusterTypeOK, JobsTypeOK
<1>18. ASSUME NEW r \in Runner, VerifyPre(r) PROVE TypeOK'
  <2>1. pc' \in [Runner -> Step]
    BY <1>18, GotoMoves DEF VerifyPre, Step, VerifyStep
  <2>2. files' \in [Session -> SUBSET File]
    BY <1>18 DEF VerifyPre, Write, File, TypeOK
  <2>3. evidence' \in [Session -> Evidence]
    BY <1>18, EvidenceTypes, IdentityType DEF VerifyPre
  <2>4. status' \in [Session -> Status] /\ appId' \in [Session -> App \union {None}]
    BY <1>18, SetStatusTypes DEF VerifyPre, StillIncomplete, Status, TypeOK
  <2> QED
    BY <1>18, <2>1, <2>2, <2>3, <2>4
       DEF VerifyPre, clusterVars, jobVars, TypeOK, RecordTypeOK, ClusterTypeOK,
           JobsTypeOK
<1>19. ASSUME NEW r \in Runner, VerifyIdle(r) PROVE TypeOK'
  BY <1>19, GotoMoves, SetStatusTypes
     DEF VerifyIdle, StillIncomplete, Status, Step, VerifyStep, clusterVars,
         jobVars, bundleVars, TypeOK, RecordTypeOK, ClusterTypeOK, JobsTypeOK
<1>20. ASSUME NEW r \in Runner, VerifyBefore(r) PROVE TypeOK'
  <2>1. pc' \in [Runner -> Step]
    BY <1>20, GotoMoves DEF VerifyBefore, Step, VerifyStep
  <2>2. files' \in [Session -> SUBSET File]
    BY <1>20 DEF VerifyBefore, Write, File, TypeOK
  <2>3. evidence' \in [Session -> Evidence]
    BY <1>20, EvidenceTypes
       DEF VerifyBefore, TypeOK, RecordTypeOK, ClusterTypeOK, JobsTypeOK
  <2>4. status' \in [Session -> Status] /\ appId' \in [Session -> App \union {None}]
    BY <1>20, SetStatusTypes DEF VerifyBefore, StillIncomplete, Status, TypeOK
  <2> QED
    BY <1>20, <2>1, <2>2, <2>3, <2>4
       DEF VerifyBefore, clusterVars, jobVars, TypeOK, RecordTypeOK, ClusterTypeOK,
           JobsTypeOK
<1>21. ASSUME NEW r \in Runner, VerifySmoke(r) PROVE TypeOK'
  BY <1>21, GotoMoves, SetStatusTypes, LaunchKeepsJobs
     DEF VerifySmoke, StillIncomplete, Status, Step, VerifyStep, clusterVars,
         bundleVars, TypeOK, RecordTypeOK, ClusterTypeOK, JobsTypeOK
<1>22. ASSUME NEW r \in Runner, SmokeReturns(r) PROVE TypeOK'
  <2>1. PICK a \in App, observed \in BOOLEAN, pass \in BOOLEAN :
            /\ Goto(r, "v_wait", IF pass THEN "v_post" ELSE "fail")
            /\ ContainerEnds(a)
            /\ IF observed
               THEN app' = [app EXCEPT ![r] = a] /\ SetStatus(sess[r], "INCOMPLETE", a)
               ELSE UNCHANGED <<app, status, appId>>
    BY <1>22 DEF SmokeReturns
  <2>2. pc' \in [Runner -> Step]
    BY <1>22, <2>1, GotoMoves DEF Step, VerifyStep
  <2>3. job' \in [App -> Job]
    BY <1>22, <2>1, EndKeepsJobs
  <2>4. /\ status' \in [Session -> Status] /\ appId' \in [Session -> App \union {None}]
        /\ app' \in [Runner -> App \union {None}]
    BY <1>22, <2>1, SetStatusTypes DEF Status, TypeOK, RecordTypeOK
  <2> QED
    BY <1>22, <2>2, <2>3, <2>4
       DEF SmokeReturns, clusterVars, bundleVars, TypeOK, RecordTypeOK,
           ClusterTypeOK, JobsTypeOK
<1>23. ASSUME NEW r \in Runner, VerifyPost(r) PROVE TypeOK'
  <2>1. pc' \in [Runner -> Step]
    BY <1>23, GotoMoves DEF VerifyPost, Step, VerifyStep
  <2>2. files' \in [Session -> SUBSET File]
    BY <1>23 DEF VerifyPost, Write, File, TypeOK
  <2>3. evidence' \in [Session -> Evidence]
    <3> DEFINE b == swaps > evidence[sess[r]].swapsBefore
    <3>1. b \in BOOLEAN
      OBVIOUS
    <3>2. evidence' = [evidence EXCEPT ![sess[r]].post = Identity,
                                       ![sess[r]].swapDetected = b]
      BY <1>23 DEF VerifyPost
    <3> HIDE DEF b
    <3> QED
      BY <1>23, <3>1, <3>2, EvidenceTypes, IdentityType
  <2>4. status' \in [Session -> Status] /\ appId' \in [Session -> App \union {None}]
    BY <1>23, SetStatusTypes DEF VerifyPost, StillIncomplete, Status, TypeOK
  <2> QED
    BY <1>23, <2>1, <2>2, <2>3, <2>4
       DEF VerifyPost, clusterVars, jobVars, TypeOK, RecordTypeOK, ClusterTypeOK,
           JobsTypeOK
<1>24. ASSUME NEW r \in Runner, VerifyCorrelate(r) PROVE TypeOK'
  <2>1. pc' \in [Runner -> Step]
    BY <1>24, GotoMoves DEF VerifyCorrelate, Step, VerifyStep
  <2>2. files' \in [Session -> SUBSET File]
    BY <1>24 DEF VerifyCorrelate, Write, File, TypeOK
  <2>3. evidence' \in [Session -> Evidence]
    BY <1>24, EvidenceTypes
       DEF VerifyCorrelate, TypeOK, RecordTypeOK, ClusterTypeOK, JobsTypeOK
  <2>4. status' \in [Session -> Status] /\ appId' \in [Session -> App \union {None}]
    BY <1>24, SetStatusTypes DEF VerifyCorrelate, StillIncomplete, Status, TypeOK
  <2> QED
    BY <1>24, <2>1, <2>2, <2>3, <2>4
       DEF VerifyCorrelate, clusterVars, jobVars, TypeOK, RecordTypeOK,
           ClusterTypeOK, JobsTypeOK
<1>25. ASSUME NEW r \in Runner, VerifyFinal(r) PROVE TypeOK'
  <2>1. pc' \in [Runner -> Step]
    BY <1>25, GotoMoves DEF VerifyFinal, Step, VerifyStep
  <2>2. files' \in [Session -> SUBSET File]
    BY <1>25 DEF VerifyFinal, Write, File, TypeOK
  <2>3. evidence' \in [Session -> Evidence]
    BY <1>25, EvidenceTypes, IdentityType DEF VerifyFinal
  <2>4. status' \in [Session -> Status] /\ appId' \in [Session -> App \union {None}]
    BY <1>25, SetStatusTypes DEF VerifyFinal, StillIncomplete, Status, TypeOK
  <2> QED
    BY <1>25, <2>1, <2>2, <2>3, <2>4
       DEF VerifyFinal, clusterVars, jobVars, TypeOK, RecordTypeOK, ClusterTypeOK,
           JobsTypeOK
<1>26. ASSUME NEW r \in Runner, VerifySnapshot(r) PROVE TypeOK'
  <2>1. pc' \in [Runner -> Step]
    BY <1>26, GotoMoves DEF VerifySnapshot, Step, VerifyStep
  <2>2. files' \in [Session -> SUBSET File]
    BY <1>26 DEF VerifySnapshot, Write, File, TypeOK
  <2>3. evidence' \in [Session -> Evidence]
    BY <1>26, EvidenceTypes
       DEF VerifySnapshot, TypeOK, RecordTypeOK, ClusterTypeOK, JobsTypeOK
  <2>4. status' \in [Session -> Status] /\ appId' \in [Session -> App \union {None}]
    BY <1>26, SetStatusTypes DEF VerifySnapshot, StillIncomplete, Status, TypeOK
  <2> QED
    BY <1>26, <2>1, <2>2, <2>3, <2>4
       DEF VerifySnapshot, clusterVars, jobVars, TypeOK, RecordTypeOK,
           ClusterTypeOK, JobsTypeOK
<1>27. ASSUME NEW r \in Runner, VerifyValidate(r) PROVE TypeOK'
  BY <1>27, GotoMoves, SetStatusTypes
     DEF VerifyValidate, StillIncomplete, Status, Step, VerifyStep, clusterVars,
         jobVars, bundleVars, TypeOK, RecordTypeOK, ClusterTypeOK, JobsTypeOK
<1>28. ASSUME NEW r \in Runner, VerifyComplete(r) PROVE TypeOK'
  BY <1>28, GotoMoves, SetStatusTypes
     DEF VerifyComplete, Status, Terminal, Step, VerifyStep, clusterVars, jobVars,
         bundleVars, TypeOK, RecordTypeOK, ClusterTypeOK, JobsTypeOK
<1>29. ASSUME NEW r \in Runner, StopEnter(r) PROVE TypeOK'
  BY <1>29, GotoMoves
     DEF StopEnter, Enter, EnterLock, Step, OtherStep, recordVars, clusterVars,
         jobVars, bundleVars, TypeOK, RecordTypeOK, ClusterTypeOK, JobsTypeOK
<1>30. ASSUME NEW r \in Runner, StopDown(r) PROVE TypeOK'
  BY <1>30, GotoMoves, DownSteps, LosingKeepsJobs
     DEF StopDown, ClusterStep, Step, OtherStep, recordVars, bundleVars, TypeOK,
         RecordTypeOK, ClusterTypeOK, JobsTypeOK
<1>31. ASSUME NEW r \in Runner, ObserveEnter(r) PROVE TypeOK'
  BY <1>31, GotoMoves
     DEF ObserveEnter, Enter, EnterLock, Step, OtherStep, recordVars, clusterVars,
         jobVars, bundleVars, TypeOK, RecordTypeOK, ClusterTypeOK, JobsTypeOK
<1>32. ASSUME NEW r \in Runner, ObserveCheck(r) PROVE TypeOK'
  BY <1>32, GotoMoves
     DEF ObserveCheck, Step, OtherStep, recordVars, clusterVars, jobVars,
         bundleVars, TypeOK, RecordTypeOK, ClusterTypeOK, JobsTypeOK
<1>33. ASSUME NEW r \in Runner, ObserveRun(r) PROVE TypeOK'
  BY <1>33, GotoMoves, LaunchKeepsJobs
     DEF ObserveRun, Step, OtherStep, recordVars, clusterVars, bundleVars, TypeOK,
         RecordTypeOK, ClusterTypeOK, JobsTypeOK
<1>34. ASSUME NEW r \in Runner, ObserveReturns(r) PROVE TypeOK'
  BY <1>34, GotoMoves, EndKeepsJobs
     DEF ObserveReturns, Step, OtherStep, recordVars, clusterVars, bundleVars,
         TypeOK, RecordTypeOK, ClusterTypeOK, JobsTypeOK
<1>35. ASSUME NEW r \in Runner, Throw(r) PROVE TypeOK'
  BY <1>35, SetStatusTypes
     DEF Throw, StillIncomplete, WithoutSession, BeforeStatusWrite, Throwing,
         Status, Step, StartStep, VerifyStep, clusterVars, jobVars, bundleVars,
         TypeOK, RecordTypeOK, ClusterTypeOK, JobsTypeOK
<1>36. ASSUME NEW r \in Runner, DiskFault(r) PROVE TypeOK'
  BY <1>36
     DEF DiskFault, Step, StartStep, VerifyStep, recordVars, clusterVars, jobVars,
         bundleVars, TypeOK, RecordTypeOK, ClusterTypeOK, JobsTypeOK
<1>37. ASSUME NEW r \in Runner, Fail(r) PROVE TypeOK'
  BY <1>37, GotoMoves, SetStatusTypes
     DEF Fail, Status, Terminal, Step, clusterVars, jobVars, bundleVars, TypeOK,
         RecordTypeOK, ClusterTypeOK, JobsTypeOK
<1>38. ASSUME NEW r \in Runner, Unlock(r) PROVE TypeOK'
  BY <1>38, GotoMoves
     DEF Unlock, ExitLock, Step, Unlocked, recordVars, clusterVars, jobVars,
         bundleVars, TypeOK, RecordTypeOK, ClusterTypeOK, JobsTypeOK
<1>39. ASSUME NEW r \in Runner, Crash(r) PROVE TypeOK'
  <2>1. pc' \in [Runner -> Step]
    BY <1>39 DEF Crash, Step, Unlocked, TypeOK
  <2>2. job' \in [App -> Job]
    BY <1>39, SMTT(60) DEF Crash, Job, TypeOK, JobsTypeOK
  <2> QED
    BY <1>39, <2>1, <2>2
       DEF Crash, ExitLock, recordVars, clusterVars, bundleVars, TypeOK,
           RecordTypeOK, ClusterTypeOK, JobsTypeOK
<1>40. CASE OrphanEnds
  BY <1>40, EndKeepsJobs
     DEF OrphanEnds, Launching, recordVars, clusterVars, runnerVars, bundleVars,
         TypeOK, RecordTypeOK, ClusterTypeOK, JobsTypeOK
<1>41. CASE ContainerEvent
  BY <1>41, DieSteps, RestartSteps, LosingKeepsJobs
     DEF ContainerEvent, ClusterStep, recordVars, runnerVars, bundleVars, TypeOK,
         RecordTypeOK, ClusterTypeOK, JobsTypeOK
<1>42. CASE JobEvent
  <2>1. job' \in [App -> Job] /\ swaps' \in 0 .. MaxSwap /\ UNCHANGED <<container, clock>>
    BY <1>42, SubmitKeepsJobs, FinishKeepsJobs, SwapKeepsJobs
       DEF JobEvent, Submit, Finish, Swap, TypeOK, JobsTypeOK
  <2> QED
    BY <1>42, <2>1
       DEF JobEvent, recordVars, runnerVars, bundleVars, TypeOK, RecordTypeOK,
           ClusterTypeOK, JobsTypeOK
<1>43. CASE UNCHANGED vars
  BY <1>43
     DEF vars, recordVars, clusterVars, jobVars, runnerVars, bundleVars, TypeOK,
         RecordTypeOK, ClusterTypeOK, JobsTypeOK
<1> QED
  BY <1>1, <1>2, <1>3, <1>4, <1>5, <1>6, <1>7, <1>8, <1>9, <1>10, <1>11, <1>12,
     <1>13, <1>14, <1>15, <1>16, <1>17, <1>18, <1>19, <1>20, <1>21, <1>22, <1>23,
     <1>24, <1>25, <1>26, <1>27, <1>28, <1>29, <1>30, <1>31, <1>32, <1>33, <1>34,
     <1>35, <1>36, <1>37, <1>38, <1>39, <1>40, <1>41, <1>42, <1>43
     DEF Next, Script, Environment, Start, Verify, Stop, Observe

\* The variables keep their types: the step names, the status values and the
\* shape of the evidence files, in every reachable state.
THEOREM TypeCorrect == Spec => []TypeOK
  BY TypeInit, TypeStep, PTL DEF Spec

-----------------------------------------------------------------------------
\* No script but r moves.
OthersStay(r) ==
    /\ pc' \in [Runner -> Step]
    /\ \A q \in Runner : q # r => pc'[q] = pc[q] /\ sess'[q] = sess[q]

-----------------------------------------------------------------------------
(* The lock. *)

\* Between the lock and the finally block a script keeps the lock; it is taken

\* only when nobody has it, and given up only on the way out.
LEMMA LockStep == TypeOK /\ LockInv /\ [Next]_vars => LockInv'
<1> SUFFICES ASSUME TypeOK, LockInv, [Next]_vars PROVE LockInv'
  OBVIOUS
<1> USE NoneAssumption DEF LockInv
<1>1. ASSUME NEW r \in Runner, StartUnreachable(r) PROVE LockInv'
  BY <1>1, GotoMoves
     DEF StartUnreachable, Locked, Step, StartStep, VerifyStep, OtherStep, Unlocked
<1>2. ASSUME NEW r \in Runner, MarkUnreachable(r) PROVE LockInv'
  BY <1>2, GotoMoves
     DEF MarkUnreachable, Locked, Step, StartStep, VerifyStep, OtherStep, Unlocked
<1>3. ASSUME NEW r \in Runner, StartEnter(r) PROVE LockInv'
  BY <1>3, GotoMoves
     DEF StartEnter, Enter, EnterLock, Locked, Step, StartStep, VerifyStep,
         OtherStep
<1>4. ASSUME NEW r \in Runner, StartPreflight(r) PROVE LockInv'
  BY <1>4, GotoMoves
     DEF StartPreflight, Locked, Step, StartStep, VerifyStep, OtherStep
<1>5. ASSUME NEW r \in Runner, StartSession(r) PROVE LockInv'
  BY <1>5, GotoMoves
     DEF StartSession, Locked, Step, StartStep, VerifyStep, OtherStep
<1>6. ASSUME NEW r \in Runner, StartActivate(r) PROVE LockInv'
  BY <1>6, GotoMoves
     DEF StartActivate, Locked, Step, StartStep, VerifyStep, OtherStep
<1>7. ASSUME NEW r \in Runner, StartBaseline(r) PROVE LockInv'
  BY <1>7, GotoMoves
     DEF StartBaseline, Locked, Step, StartStep, VerifyStep, OtherStep
<1>8. ASSUME NEW r \in Runner, StartPrepare(r) PROVE LockInv'
  BY <1>8, GotoMoves
     DEF StartPrepare, Locked, Step, StartStep, VerifyStep, OtherStep
<1>9. ASSUME NEW r \in Runner, StartUp(r) PROVE LockInv'
  BY <1>9, GotoMoves DEF StartUp, Locked, Step, StartStep, VerifyStep, OtherStep
<1>10. ASSUME NEW r \in Runner, StartRecord(r) PROVE LockInv'
  BY <1>10, GotoMoves
     DEF StartRecord, Locked, Step, StartStep, VerifyStep, OtherStep
<1>11. ASSUME NEW r \in Runner, StartPending(r) PROVE LockInv'
  BY <1>11, GotoMoves
     DEF StartPending, Locked, Step, StartStep, VerifyStep, OtherStep
<1>12. ASSUME NEW r \in Runner, VerifyEnter(r) PROVE LockInv'
  BY <1>12, GotoMoves
     DEF VerifyEnter, Enter, EnterLock, Locked, Step, StartStep, VerifyStep,
         OtherStep
<1>13. ASSUME NEW r \in Runner, VerifyWithoutSession(r) PROVE LockInv'
  BY <1>13, GotoMoves
     DEF VerifyWithoutSession, Locked, Step, StartStep, VerifyStep, OtherStep
<1>14. ASSUME NEW r \in Runner, VerifyActivate(r) PROVE LockInv'
  BY <1>14, GotoMoves
     DEF VerifyActivate, Locked, Step, StartStep, VerifyStep, OtherStep
<1>15. ASSUME NEW r \in Runner, VerifyLoad(r) PROVE LockInv'
  BY <1>15, GotoMoves DEF VerifyLoad, Locked, Step, StartStep, VerifyStep, OtherStep
<1>16. ASSUME NEW r \in Runner, VerifyBaseline(r) PROVE LockInv'
  BY <1>16, GotoMoves
     DEF VerifyBaseline, Locked, Step, StartStep, VerifyStep, OtherStep
<1>17. ASSUME NEW r \in Runner, VerifyServices(r) PROVE LockInv'
  BY <1>17, GotoMoves
     DEF VerifyServices, Locked, Step, StartStep, VerifyStep, OtherStep
<1>18. ASSUME NEW r \in Runner, VerifyPre(r) PROVE LockInv'
  BY <1>18, GotoMoves DEF VerifyPre, Locked, Step, StartStep, VerifyStep, OtherStep
<1>19. ASSUME NEW r \in Runner, VerifyIdle(r) PROVE LockInv'
  BY <1>19, GotoMoves DEF VerifyIdle, Locked, Step, StartStep, VerifyStep, OtherStep
<1>20. ASSUME NEW r \in Runner, VerifyBefore(r) PROVE LockInv'
  BY <1>20, GotoMoves
     DEF VerifyBefore, Locked, Step, StartStep, VerifyStep, OtherStep
<1>21. ASSUME NEW r \in Runner, VerifySmoke(r) PROVE LockInv'
  BY <1>21, GotoMoves
     DEF VerifySmoke, Locked, Step, StartStep, VerifyStep, OtherStep
<1>22. ASSUME NEW r \in Runner, SmokeReturns(r) PROVE LockInv'
  BY <1>22, GotoMoves
     DEF SmokeReturns, Locked, Step, StartStep, VerifyStep, OtherStep
<1>23. ASSUME NEW r \in Runner, VerifyPost(r) PROVE LockInv'
  BY <1>23, GotoMoves DEF VerifyPost, Locked, Step, StartStep, VerifyStep, OtherStep
<1>24. ASSUME NEW r \in Runner, VerifyCorrelate(r) PROVE LockInv'
  BY <1>24, GotoMoves
     DEF VerifyCorrelate, Locked, Step, StartStep, VerifyStep, OtherStep
<1>25. ASSUME NEW r \in Runner, VerifyFinal(r) PROVE LockInv'
  BY <1>25, GotoMoves
     DEF VerifyFinal, Locked, Step, StartStep, VerifyStep, OtherStep
<1>26. ASSUME NEW r \in Runner, VerifySnapshot(r) PROVE LockInv'
  BY <1>26, GotoMoves
     DEF VerifySnapshot, Locked, Step, StartStep, VerifyStep, OtherStep
<1>27. ASSUME NEW r \in Runner, VerifyValidate(r) PROVE LockInv'
  BY <1>27, GotoMoves
     DEF VerifyValidate, Locked, Step, StartStep, VerifyStep, OtherStep
<1>28. ASSUME NEW r \in Runner, VerifyComplete(r) PROVE LockInv'
  BY <1>28, GotoMoves
     DEF VerifyComplete, Locked, Step, StartStep, VerifyStep, OtherStep
<1>29. ASSUME NEW r \in Runner, StopEnter(r) PROVE LockInv'
  BY <1>29, GotoMoves
     DEF StopEnter, Enter, EnterLock, Locked, Step, StartStep, VerifyStep, OtherStep
<1>30. ASSUME NEW r \in Runner, StopDown(r) PROVE LockInv'
  BY <1>30, GotoMoves DEF StopDown, Locked, Step, StartStep, VerifyStep, OtherStep
<1>31. ASSUME NEW r \in Runner, ObserveEnter(r) PROVE LockInv'
  BY <1>31, GotoMoves
     DEF ObserveEnter, Enter, EnterLock, Locked, Step, StartStep, VerifyStep,
         OtherStep
<1>32. ASSUME NEW r \in Runner, ObserveCheck(r) PROVE LockInv'
  BY <1>32, GotoMoves
     DEF ObserveCheck, Locked, Step, StartStep, VerifyStep, OtherStep
<1>33. ASSUME NEW r \in Runner, ObserveRun(r) PROVE LockInv'
  BY <1>33, GotoMoves DEF ObserveRun, Locked, Step, StartStep, VerifyStep, OtherStep
<1>34. ASSUME NEW r \in Runner, ObserveReturns(r) PROVE LockInv'
  BY <1>34, GotoMoves
     DEF ObserveReturns, Locked, Step, StartStep, VerifyStep, OtherStep
<1>35. ASSUME NEW r \in Runner, Throw(r) PROVE LockInv'
  BY <1>35
     DEF Throw, WithoutSession, BeforeStatusWrite, Throwing, TypeOK, Locked, Step,
         StartStep, VerifyStep, OtherStep
<1>36. ASSUME NEW r \in Runner, DiskFault(r) PROVE LockInv'
  BY <1>36 DEF DiskFault, TypeOK, Locked, Step, StartStep, VerifyStep, OtherStep
<1>37. ASSUME NEW r \in Runner, Fail(r) PROVE LockInv'
  BY <1>37, GotoMoves DEF Fail, Locked, Step, StartStep, VerifyStep, OtherStep
<1>38. ASSUME NEW r \in Runner, Unlock(r) PROVE LockInv'
  BY <1>38, GotoMoves
     DEF Unlock, ExitLock, TypeOK, Locked, Step, StartStep, VerifyStep, OtherStep,
         Unlocked
<1>39. ASSUME NEW r \in Runner, Crash(r) PROVE LockInv'
  BY <1>39
     DEF Crash, ExitLock, TypeOK, Locked, Step, StartStep, VerifyStep, OtherStep,
         Unlocked
<1>40. CASE OrphanEnds \/ ContainerEvent \/ JobEvent
  BY <1>40 DEF OrphanEnds, ContainerEvent, JobEvent, runnerVars
<1>41. CASE UNCHANGED vars
  BY <1>41, SMTT(60) DEF vars, runnerVars
<1> QED
  BY <1>1, <1>2, <1>3, <1>4, <1>5, <1>6, <1>7, <1>8, <1>9, <1>10, <1>11, <1>12,
     <1>13, <1>14, <1>15, <1>16, <1>17, <1>18, <1>19, <1>20, <1>21, <1>22, <1>23,
     <1>24, <1>25, <1>26, <1>27, <1>28, <1>29, <1>30, <1>31, <1>32, <1>33, <1>34,
     <1>35, <1>36, <1>37, <1>38, <1>39, <1>40, <1>41
     DEF Next, Script, Environment, Start, Verify, Stop, Observe

-----------------------------------------------------------------------------
(* Sessions. *)

\* The steps in which a script works on a session of its own.
Works(r) ==
    \/ StartBaseline(r) \/ StartPrepare(r) \/ StartUp(r) \/ StartRecord(r)
    \/ StartPending(r) \/ VerifyBaseline(r) \/ VerifyServices(r) \/ VerifyPre(r)
    \/ VerifyIdle(r) \/ VerifyBefore(r) \/ VerifySmoke(r) \/ SmokeReturns(r)
    \/ VerifyPost(r) \/ VerifyCorrelate(r) \/ VerifyFinal(r)
    \/ VerifySnapshot(r) \/ VerifyValidate(r) \/ VerifyComplete(r) \/ Fail(r)
    \/ Throw(r) /\ pc[r] \notin WithoutSession
    \/ DiskFault(r) /\ pc[r] \in {"s_pending", "v_complete"}

\* How it gets from step to step.
Onward(from, to) ==
    /\ from \in (Owning \ {"v_activate"}) \union Verifying \union {"v_baseline", "fail"}
    /\ to \in (Owning \ {"s_activate", "v_activate"}) \union Verifying
                  \union {"fail", "unlock"}
    /\ to \in Verifying => from \in Verifying \union {"v_baseline"}
    /\ to \in Owning => from \in Activated
    /\ to \in Making => from \in Making
    /\ to = "fail" => from # "fail"

\* It touches no other session, never the pointer, and decides its own only
\* on the way out.
WorkStep(r) ==
    /\ Onward(pc[r], pc'[r])
    /\ OthersStay(r)
    /\ active' = active /\ sess' = sess
    /\ \A s \in Session : s # sess[r] => status'[s] = status[s] /\ files'[s] = files[s]
    /\ files[sess[r]] \subseteq files'[sess[r]]
    /\ pc[r] \in {"v_baseline", "fail"} => files' = files
    /\ \/ status'[sess[r]] = status[sess[r]]
       \/ /\ pc[r] = "fail" /\ pc'[r] = "unlock"
          /\ status'[sess[r]] = "FAILED"
       \/ /\ pc[r] = "v_complete" /\ pc'[r] = "unlock"
          /\ status'[sess[r]] = "COMPLETE"
    /\ pc'[r] \in Making => HasStarted(sess[r])' = HasStarted(sess[r])
    /\ pc[r] = "v_baseline" /\ pc'[r] # "fail" => "host_baseline" \in files[sess[r]]

\* Twenty-one kinds of step are of that form.
LEMMA WorksOnItsOwn ==
    ASSUME TypeOK, SessionInv, NEW r \in Runner, Works(r) PROVE WorkStep(r)
<1> USE DEF WorkStep, Onward, OthersStay, TypeOK, Status, Terminal, SessionInv, SessionOf,
            HasStarted, Activated, Owning, Making, Verifying, Step, StartStep, VerifyStep
<1>1. CASE StartBaseline(r)
  BY <1>1, GotoMoves, SetStatusWrites DEF StartBaseline, StillIncomplete, Write
<1>2. CASE StartPrepare(r)
  BY <1>2, GotoMoves, SetStatusWrites DEF StartPrepare, StillIncomplete, Write
<1>3. CASE StartUp(r)
  BY <1>3, GotoMoves, SetStatusWrites DEF StartUp, StillIncomplete, bundleVars
<1>4. CASE StartRecord(r)
  BY <1>4, GotoMoves DEF StartRecord, Write, recordVars
<1>5. CASE StartPending(r)
  BY <1>5, GotoMoves, SetStatusWrites DEF StartPending, StillIncomplete, bundleVars
<1>6. CASE VerifyBaseline(r)
  BY <1>6, GotoMoves DEF VerifyBaseline, bundleVars, recordVars
<1>7. CASE VerifyServices(r)
  BY <1>7, GotoMoves, SetStatusWrites
     DEF VerifyServices, StillIncomplete, bundleVars
<1>8. CASE VerifyPre(r)
  BY <1>8, GotoMoves, SetStatusWrites DEF VerifyPre, StillIncomplete, Write
<1>9. CASE VerifyIdle(r)
  BY <1>9, GotoMoves, SetStatusWrites DEF VerifyIdle, StillIncomplete, bundleVars
<1>10. CASE VerifyBefore(r)
  BY <1>10, GotoMoves, SetStatusWrites DEF VerifyBefore, StillIncomplete, Write
<1>11. CASE VerifySmoke(r)
  BY <1>11, GotoMoves, SetStatusWrites DEF VerifySmoke, StillIncomplete, bundleVars
<1>12. CASE SmokeReturns(r)
  BY <1>12, GotoMoves, SetStatusWrites DEF SmokeReturns, bundleVars
<1>13. CASE VerifyPost(r)
  BY <1>13, GotoMoves, SetStatusWrites DEF VerifyPost, StillIncomplete, Write
<1>14. CASE VerifyCorrelate(r)
  BY <1>14, GotoMoves, SetStatusWrites DEF VerifyCorrelate, StillIncomplete, Write
<1>15. CASE VerifyFinal(r)
  BY <1>15, GotoMoves, SetStatusWrites DEF VerifyFinal, StillIncomplete, Write
<1>16. CASE VerifySnapshot(r)
  BY <1>16, GotoMoves, SetStatusWrites DEF VerifySnapshot, StillIncomplete, Write
<1>17. CASE VerifyValidate(r)
  BY <1>17, GotoMoves, SetStatusWrites
     DEF VerifyValidate, StillIncomplete, bundleVars
<1>18. CASE VerifyComplete(r)
  BY <1>18, GotoMoves, SetStatusWrites DEF VerifyComplete, bundleVars
<1>19. CASE Fail(r)
  BY <1>19, GotoMoves, SetStatusWrites DEF Fail, bundleVars
<1>20. CASE Throw(r) /\ pc[r] \notin WithoutSession
  BY <1>20, SetStatusWrites
     DEF Throw, StillIncomplete, WithoutSession, BeforeStatusWrite, Throwing,
         bundleVars
<1>21. CASE DiskFault(r) /\ pc[r] \in {"s_pending", "v_complete"}
  BY <1>21 DEF DiskFault, recordVars, bundleVars
<1> QED
  BY <1>1, <1>2, <1>3, <1>4, <1>5, <1>6, <1>7, <1>8, <1>9, <1>10, <1>11, <1>12,
     <1>13, <1>14, <1>15, <1>16, <1>17, <1>18, <1>19, <1>20, <1>21
     DEF Works

\* The steps that do nothing to sessions.
Asides(r) ==
    \/ StartEnter(r) \/ VerifyEnter(r) \/ StopEnter(r) \/ ObserveEnter(r)
    \/ StartPreflight(r) \/ StopDown(r) \/ ObserveCheck(r) \/ ObserveRun(r)
    \/ ObserveReturns(r) \/ Unlock(r) \/ Crash(r)
    \/ Throw(r) /\ pc[r] \in WithoutSession
    \/ DiskFault(r) /\ pc[r] \notin {"s_pending", "v_complete"}

AsideStep(r) ==
    /\ pc'[r] \in Step \ (Owning \union Verifying
                             \union {"s_unreachable", "v_baseline", "fail"})
    /\ OthersStay(r)
    /\ UNCHANGED <<active, status, files>>
    /\ pc'[r] \in {"v_load", "idle"} /\ sess'[r] # None => status[sess'[r]] # "ABSENT"

\* The scripts that start, stop, fail early, end or are killed.
LEMMA AsidesLeaveSessions ==
    ASSUME TypeOK, SessionInv, NEW r \in Runner, Asides(r) PROVE AsideStep(r)
<1> USE DEF AsideStep, OthersStay, TypeOK, RecordTypeOK, SessionInv, SessionOf, Activated,
            Owning, Making, Verifying, Step, StartStep, VerifyStep, OtherStep, Unlocked,
            recordVars, bundleVars
<1>1. CASE StartEnter(r)
  BY <1>1, GotoMoves DEF StartEnter, Enter
<1>2. CASE VerifyEnter(r)
  BY <1>2, GotoMoves DEF VerifyEnter, Enter, OnDisk
<1>3. CASE StopEnter(r)
  BY <1>3, GotoMoves DEF StopEnter, Enter
<1>4. CASE ObserveEnter(r)
  BY <1>4, GotoMoves DEF ObserveEnter, Enter
<1>5. CASE StartPreflight(r)
  BY <1>5, GotoMoves DEF StartPreflight
<1>6. CASE StopDown(r)
  BY <1>6, GotoMoves DEF StopDown
<1>7. CASE ObserveCheck(r)
  BY <1>7, GotoMoves DEF ObserveCheck
<1>8. CASE ObserveRun(r)
  BY <1>8, GotoMoves DEF ObserveRun
<1>9. CASE ObserveReturns(r)
  BY <1>9, GotoMoves DEF ObserveReturns
<1>10. CASE Unlock(r)
  BY <1>10, GotoMoves DEF Unlock
<1>11. CASE Crash(r)
  BY <1>11 DEF Crash
<1>12. CASE Throw(r) /\ pc[r] \in WithoutSession
  BY <1>12 DEF Throw, WithoutSession, BeforeStatusWrite, Throwing
<1>13. CASE DiskFault(r) /\ pc[r] \notin {"s_pending", "v_complete"}
  BY <1>13 DEF DiskFault
<1> QED
  BY <1>1, <1>2, <1>3, <1>4, <1>5, <1>6, <1>7, <1>8, <1>9, <1>10, <1>11, <1>12,
     <1>13
     DEF Asides

\* The script in charge keeps what is known of its own session, and the one

\* without Docker access has another.
LEMMA WorkKeepsSessions ==
    ASSUME TypeOK, LockInv, SessionInv, NEW r \in Runner, WorkStep(r)
    PROVE  SessionInv'
<1> USE SessionAssumption, NoneAssumption
<1>1. sess[r] \in Session /\ status[sess[r]] \in {"INCOMPLETE", "FAILED"}
  BY DEF WorkStep, Onward, SessionInv, SessionOf, Owning, Making, Verifying
<1>2. RecordInv'
  BY <1>1 DEF WorkStep, RecordInv, SessionInv, TypeOK, RecordTypeOK
<1>3. SessionOf(r)'
  BY <1>1
     DEF WorkStep, Onward, SessionInv, SessionOf, Activated, Owning, Making,
         Verifying, HasStarted
<1>4. ASSUME NEW q \in Runner, q # r PROVE SessionOf(q)'
  <2>1. pc[q] \notin Locked
    BY <1>4
       DEF LockInv, WorkStep, Onward, Locked, Owning, Making, Verifying, StartStep,
           VerifyStep
  <2>2. pc'[q] = pc[q] /\ sess'[q] = sess[q]
    BY <1>4 DEF WorkStep, OthersStay
  <2>3. pc[q] = "s_unreachable" => sess[q] # sess[r] \/ pc[r] \in {"fail", "v_baseline"}
    BY DEF WorkStep, Onward, SessionInv, SessionOf, Owning, Making, Verifying
  <2>4. pc[q] = "s_unreachable" => status'[sess[q]] \in {"INCOMPLETE", "FAILED"}
    BY <1>1, <2>3 DEF WorkStep, SessionInv, SessionOf
  <2> QED
    BY <2>1, <2>2, <2>3, <2>4, <1>1
       DEF TypeOK, WorkStep, Onward, SessionInv, SessionOf, Activated, Owning,
           Making, Verifying, Locked, StartStep, VerifyStep, RecordInv
<1>5. ASSUME NEW p \in Runner, NEW q \in Runner,
             pc'[p] = "s_unreachable", pc'[q] \in Owning
      PROVE  sess'[q] # sess'[p]
  BY <1>5
     DEF WorkStep, Onward, OthersStay, SessionInv, Activated, Owning, Making,
         Verifying
<1> QED
  BY <1>2, <1>3, <1>4, <1>5 DEF SessionInv

\* A step that does nothing to sessions.
LEMMA AsideKeepsSessions ==
    ASSUME TypeOK, SessionInv, NEW r \in Runner, AsideStep(r)
    PROVE  SessionInv'
BY SessionAssumption
   DEF AsideStep, RecordInv, SessionInv, SessionOf, OthersStay, HasStarted,
       Activated, Owning, Making, Verifying

\* A session is made without the lock: nobody else has it.
LEMMA UnreachableKeepsSessions ==
    ASSUME TypeOK, SessionInv, NEW r \in Runner, StartUnreachable(r)
    PROVE  SessionInv'
<1> USE SessionAssumption, NoneAssumption
<1>1. PICK s \in Session : NewSession(s) /\ sess' = [sess EXCEPT ![r] = s]
  BY DEF StartUnreachable
<1>2. /\ pc[r] = "idle" /\ pc'[r] = "s_unreachable" /\ sess'[r] = s
      /\ \A q \in Runner : q # r => pc'[q] = pc[q] /\ sess'[q] = sess[q]
  BY <1>1, GotoMoves DEF StartUnreachable, Step, Unlocked, TypeOK
<1>3. /\ status[s] = "ABSENT" /\ status'[s] = "INCOMPLETE" /\ files[s] = {}
      /\ \A t \in Session : t # s => status'[t] = status[t]
  BY <1>1, NewSessionWrites DEF SessionInv, RecordInv
<1>4. UNCHANGED <<active, files>>
  BY DEF StartUnreachable, bundleVars
<1> QED
  BY <1>2, <1>3, <1>4
     DEF SessionInv, RecordInv, SessionOf, HasStarted, Activated, Owning, Making,
         Verifying, TypeOK, RecordTypeOK

\* It is marked FAILED: it has no files, so no script is past its baseline.
LEMMA MarkKeepsSessions ==
    ASSUME TypeOK, SessionInv, NEW r \in Runner, MarkUnreachable(r)
    PROVE  SessionInv'
<1> USE SessionAssumption, NoneAssumption
<1>2. /\ pc[r] = "s_unreachable" /\ pc'[r] = "unlock" /\ sess' = sess
      /\ \A q \in Runner : q # r => pc'[q] = pc[q]
  BY GotoMoves DEF MarkUnreachable, Step
<1>3. /\ status'[sess[r]] = "FAILED" /\ files[sess[r]] = {}
      /\ sess[r] \in Session
      /\ \A t \in Session : t # sess[r] => status'[t] = status[t]
  BY <1>2, SetStatusWrites
     DEF MarkUnreachable, Status, Terminal, SessionInv, SessionOf, TypeOK
<1>4. UNCHANGED <<active, files>>
  BY DEF MarkUnreachable, bundleVars
<1> QED
  BY <1>2, <1>3, <1>4
     DEF SessionInv, RecordInv, SessionOf, HasStarted, Activated, Owning, Making,
         Verifying, TypeOK, RecordTypeOK

\* A session is made with the lock: no other script is in charge.
LEMMA NewKeepsSessions ==
    ASSUME TypeOK, LockInv, SessionInv, NEW r \in Runner, StartSession(r) \/ VerifyWithoutSession(r)
    PROVE  SessionInv'
<1> USE SessionAssumption, NoneAssumption
<1>1. PICK s \in Session : NewSession(s) /\ sess' = [sess EXCEPT ![r] = s]
  BY DEF StartSession, VerifyWithoutSession
<1>2. /\ \/ pc[r] = "s_session" /\ pc'[r] = "s_activate"
         \/ pc[r] = "v_load" /\ pc'[r] = "v_activate" /\ active = None
      /\ sess'[r] = s
      /\ \A q \in Runner : q # r => pc'[q] = pc[q] /\ sess'[q] = sess[q]
  BY <1>1, GotoMoves
     DEF StartSession, VerifyWithoutSession, Chosen, Step, StartStep, VerifyStep,
         TypeOK, SessionInv, RecordInv
<1>3. /\ status[s] = "ABSENT" /\ status'[s] = "INCOMPLETE" /\ files[s] = {}
      /\ \A t \in Session : t # s => status'[t] = status[t]
  BY <1>1, NewSessionWrites DEF SessionInv, RecordInv
<1>4. UNCHANGED <<active, files>>
  BY DEF StartSession, VerifyWithoutSession, bundleVars
<1>5. \A q \in Runner : q # r => pc[q] \notin Locked
  BY <1>2 DEF LockInv, Locked, StartStep, VerifyStep
<1> QED
  BY <1>2, <1>3, <1>4, <1>5
     DEF SessionInv, RecordInv, SessionOf, HasStarted, Activated, Owning, Making,
         Verifying, TypeOK, RecordTypeOK

\* It becomes the active one.
LEMMA ActivateKeepsSessions ==
    ASSUME TypeOK, LockInv, SessionInv, NEW r \in Runner, StartActivate(r) \/ VerifyActivate(r)
    PROVE  SessionInv'
<1> USE SessionAssumption, NoneAssumption
<1>2. /\ \/ pc[r] = "s_activate" /\ pc'[r] = "s_baseline"
         \/ pc[r] = "v_activate" /\ pc'[r] = "fail"
      /\ \A q \in Runner : q # r => pc'[q] = pc[q]
  BY GotoMoves DEF StartActivate, VerifyActivate, Step, StartStep
<1>4. UNCHANGED <<status, files, sess>> /\ active' = sess[r]
  BY DEF StartActivate, VerifyActivate, Activate, bundleVars
<1>5. \A q \in Runner : q # r => pc[q] \notin Locked
  BY <1>2 DEF LockInv, Locked, StartStep, VerifyStep
<1> QED
  BY <1>2, <1>4, <1>5
     DEF SessionInv, RecordInv, SessionOf, HasStarted, Activated, Owning, Making,
         Verifying, TypeOK, RecordTypeOK, Locked, StartStep, VerifyStep

\* verify.ps1 takes a session that is INCOMPLETE at that moment.
LEMMA LoadKeepsSessions ==
    ASSUME TypeOK, SessionInv, NEW r \in Runner, VerifyLoad(r)
    PROVE  SessionInv'
<1> USE SessionAssumption, NoneAssumption
<1>2. /\ pc[r] = "v_load" /\ pc'[r] = "v_baseline"
      /\ sess'[r] \in Session /\ status[sess'[r]] = "INCOMPLETE"
      /\ \A q \in Runner : q # r => pc'[q] = pc[q] /\ sess'[q] = sess[q]
  BY GotoMoves DEF VerifyLoad, Chosen, Step, VerifyStep, TypeOK, RecordTypeOK
<1>4. UNCHANGED <<status, files, active>>
  BY DEF VerifyLoad, recordVars, bundleVars
<1> QED
  BY <1>2, <1>4
     DEF SessionInv, RecordInv, SessionOf, HasStarted, Activated, Owning, Making,
         Verifying, TypeOK, RecordTypeOK

\* Every step keeps what is known of every session.
LEMMA SessionStep == TypeOK /\ LockInv /\ SessionInv /\ [Next]_vars => SessionInv'
<1> SUFFICES ASSUME TypeOK, LockInv, SessionInv, [Next]_vars PROVE SessionInv'
  OBVIOUS
<1>1. ASSUME NEW r \in Runner, Script(r) \/ Crash(r) PROVE SessionInv'
  <2>1. CASE Works(r)
    BY <2>1, WorksOnItsOwn, WorkKeepsSessions
  <2>2. CASE Asides(r)
    BY <2>2, AsidesLeaveSessions, AsideKeepsSessions
  <2>3. CASE StartUnreachable(r) \/ MarkUnreachable(r)
    BY <2>3, UnreachableKeepsSessions, MarkKeepsSessions
  <2>4. CASE \/ StartSession(r) \/ VerifyWithoutSession(r)
             \/ StartActivate(r) \/ VerifyActivate(r) \/ VerifyLoad(r)
    BY <2>4, NewKeepsSessions, ActivateKeepsSessions, LoadKeepsSessions
  <2> QED
    BY <1>1, <2>1, <2>2, <2>3, <2>4
       DEF Script, Start, Verify, Stop, Observe, Works, Asides
<1>2. CASE OrphanEnds \/ ContainerEvent \/ JobEvent \/ UNCHANGED vars
  BY <1>2
     DEF OrphanEnds, ContainerEvent, JobEvent, vars, recordVars, runnerVars,
         bundleVars, SessionInv, RecordInv, SessionOf, HasStarted
<1> QED
  BY <1>1, <1>2 DEF Next, Environment

-----------------------------------------------------------------------------
(* Containers and start evidence. *)

\* Most steps change neither.
KeepsRuntime(r) ==
    /\ UNCHANGED <<container, clock, active>>
    /\ \A s \in Session :
           /\ HasStarted(s)' = HasStarted(s)
           /\ evidence'[s].baselineAt = evidence[s].baselineAt
           /\ evidence'[s].started = evidence[s].started
    /\ OthersStay(r)
    /\ pc'[r] \notin {"s_session", "s_activate", "s_record"}

OutsideRuntime(r) ==
    \/ StartUnreachable(r) \/ MarkUnreachable(r) \/ StartEnter(r)
    \/ StartPrepare(r) \/ StartPending(r) \/ VerifyEnter(r)
    \/ VerifyWithoutSession(r) \/ VerifyLoad(r) \/ VerifyBaseline(r)
    \/ VerifyServices(r) \/ VerifyPre(r) \/ VerifyIdle(r) \/ VerifyBefore(r)
    \/ VerifySmoke(r) \/ SmokeReturns(r) \/ VerifyPost(r) \/ VerifyCorrelate(r)
    \/ VerifyFinal(r) \/ VerifySnapshot(r) \/ VerifyValidate(r)
    \/ VerifyComplete(r) \/ StopEnter(r) \/ ObserveEnter(r) \/ ObserveCheck(r)
    \/ ObserveRun(r) \/ ObserveReturns(r) \/ Throw(r) \/ DiskFault(r) \/ Fail(r)
    \/ Unlock(r) \/ Crash(r)

\* The steps that are outside the containers' history.
LEMMA MostKeepRuntime ==
    ASSUME TypeOK, NEW r \in Runner, OutsideRuntime(r) PROVE KeepsRuntime(r)
<1> USE DEF KeepsRuntime, OthersStay, TypeOK, HasStarted, Step, StartStep, VerifyStep,
            OtherStep, Unlocked
<1>1. CASE StartUnreachable(r)
  BY <1>1, GotoMoves DEF StartUnreachable, clusterVars, bundleVars
<1>2. CASE MarkUnreachable(r)
  BY <1>2, GotoMoves DEF MarkUnreachable, clusterVars, bundleVars
<1>3. CASE StartEnter(r)
  BY <1>3, GotoMoves DEF StartEnter, Enter, recordVars, clusterVars, bundleVars
<1>4. CASE StartPrepare(r)
  BY <1>4, GotoMoves DEF StartPrepare, Write, clusterVars
<1>5. CASE StartPending(r)
  BY <1>5, GotoMoves DEF StartPending, clusterVars, bundleVars
<1>6. CASE VerifyEnter(r)
  BY <1>6, GotoMoves DEF VerifyEnter, Enter, recordVars, clusterVars, bundleVars
<1>7. CASE VerifyWithoutSession(r)
  BY <1>7, GotoMoves DEF VerifyWithoutSession, clusterVars, bundleVars
<1>8. CASE VerifyLoad(r)
  BY <1>8, GotoMoves DEF VerifyLoad, recordVars, clusterVars, bundleVars
<1>9. CASE VerifyBaseline(r)
  BY <1>9, GotoMoves DEF VerifyBaseline, recordVars, clusterVars, bundleVars
<1>10. CASE VerifyServices(r)
  BY <1>10, GotoMoves DEF VerifyServices, clusterVars, bundleVars
<1>11. CASE VerifyPre(r)
  BY <1>11, GotoMoves DEF VerifyPre, Evidence, Write, clusterVars
<1>12. CASE VerifyIdle(r)
  BY <1>12, GotoMoves DEF VerifyIdle, clusterVars, bundleVars
<1>13. CASE VerifyBefore(r)
  BY <1>13, GotoMoves DEF VerifyBefore, Evidence, Write, clusterVars
<1>14. CASE VerifySmoke(r)
  BY <1>14, GotoMoves DEF VerifySmoke, clusterVars, bundleVars
<1>15. CASE SmokeReturns(r)
  BY <1>15, GotoMoves DEF SmokeReturns, clusterVars, bundleVars
<1>16. CASE VerifyPost(r)
  BY <1>16, GotoMoves DEF VerifyPost, Evidence, Write, clusterVars
<1>17. CASE VerifyCorrelate(r)
  BY <1>17, GotoMoves DEF VerifyCorrelate, Evidence, Write, clusterVars
<1>18. CASE VerifyFinal(r)
  BY <1>18, GotoMoves DEF VerifyFinal, Evidence, Write, clusterVars
<1>19. CASE VerifySnapshot(r)
  BY <1>19, GotoMoves DEF VerifySnapshot, Evidence, Write, clusterVars
<1>20. CASE VerifyValidate(r)
  BY <1>20, GotoMoves DEF VerifyValidate, clusterVars, bundleVars
<1>21. CASE VerifyComplete(r)
  BY <1>21, GotoMoves DEF VerifyComplete, clusterVars, bundleVars
<1>22. CASE StopEnter(r)
  BY <1>22, GotoMoves DEF StopEnter, Enter, recordVars, clusterVars, bundleVars
<1>23. CASE ObserveEnter(r)
  BY <1>23, GotoMoves DEF ObserveEnter, Enter, recordVars, clusterVars, bundleVars
<1>24. CASE ObserveCheck(r)
  BY <1>24, GotoMoves DEF ObserveCheck, recordVars, clusterVars, bundleVars
<1>25. CASE ObserveRun(r)
  BY <1>25, GotoMoves DEF ObserveRun, recordVars, clusterVars, bundleVars
<1>26. CASE ObserveReturns(r)
  BY <1>26, GotoMoves DEF ObserveReturns, recordVars, clusterVars, bundleVars
<1>27. CASE Throw(r)
  BY <1>27 DEF Throw, clusterVars, bundleVars
<1>28. CASE DiskFault(r)
  BY <1>28 DEF DiskFault, recordVars, clusterVars, bundleVars
<1>29. CASE Fail(r)
  BY <1>29, GotoMoves DEF Fail, clusterVars, bundleVars
<1>30. CASE Unlock(r)
  BY <1>30, GotoMoves DEF Unlock, recordVars, clusterVars, bundleVars
<1>31. CASE Crash(r)
  BY <1>31 DEF Crash, recordVars, clusterVars, bundleVars
<1> QED
  BY <1>1, <1>2, <1>3, <1>4, <1>5, <1>6, <1>7, <1>8, <1>9, <1>10, <1>11, <1>12,
     <1>13, <1>14, <1>15, <1>16, <1>17, <1>18, <1>19, <1>20, <1>21, <1>22, <1>23,
     <1>24, <1>25, <1>26, <1>27, <1>28, <1>29, <1>30, <1>31
     DEF OutsideRuntime

\* start.ps1 has a session when it records what it started.
LEMMA RecordsOwnSession ==
    ASSUME SessionInv, NEW r \in Runner, pc[r] = "s_record"
    PROVE  sess[r] \in Session
BY DEF SessionInv, SessionOf, Owning, Making

\* A step of those.
LEMMA RuntimeKept ==
    ASSUME TypeOK, SessionInv, RuntimeInv, NEW r \in Runner, KeepsRuntime(r)
    PROVE  RuntimeInv'
<1> USE DEF RuntimeInv, KeepsRuntime
<1>1. ClockInv'
  BY DEF ClockInv
<1>2. StoppedInv'
  BY DEF StoppedInv, Stopped, StillRuns, Identity, Daemon, OthersStay
<1>3. FreshInv'
  <2>1. \A q \in Runner : pc'[q] = "s_record" =>
            pc[q] = "s_record" /\ sess'[q] = sess[q] /\ sess[q] \in Session
    BY RecordsOwnSession DEF OthersStay
  <2> QED
    BY <2>1 DEF FreshInv
<1> QED
  BY <1>1, <1>2, <1>3

\* start.ps1 goes on only when nothing is running.
LEMMA PreflightKeepsRuntime ==
    ASSUME TypeOK, RuntimeInv, NEW r \in Runner, StartPreflight(r)
    PROVE  RuntimeInv'
<1>1. /\ pc'[r] = "s_session"
      /\ \A q \in Runner : q # r => pc'[q] = pc[q]
  BY GotoMoves DEF StartPreflight, Step, StartStep
<1>2. UNCHANGED <<container, clock, active, files, evidence, sess>> /\ Running = {}
  BY DEF StartPreflight, clusterVars, recordVars, bundleVars
<1>3. \A v \in Service : container[v].state # "running"
  BY <1>2 DEF Running
<1> QED
  BY <1>1, <1>2, <1>3
     DEF RuntimeInv, ClockInv, StoppedInv, Stopped, FreshInv, StillRuns, Identity,
         HasStarted, Daemon

\* Nothing starts between the preflight and the session.
LEMMA SessionKeepsRuntime ==
    ASSUME TypeOK, RuntimeInv, NEW r \in Runner, StartSession(r)
    PROVE  RuntimeInv'
<1>1. /\ pc[r] = "s_session" /\ pc'[r] = "s_activate"
      /\ \A q \in Runner : q # r => pc'[q] = pc[q] /\ sess'[q] = sess[q]
  BY GotoMoves DEF StartSession, Step, StartStep, TypeOK
<1>2. UNCHANGED <<container, clock, active, files, evidence>>
  BY DEF StartSession, clusterVars, bundleVars
<1> QED
  BY <1>1, <1>2
     DEF RuntimeInv, ClockInv, StoppedInv, Stopped, FreshInv, StillRuns, Identity,
         HasStarted, Daemon

\* The pointer leaves a session none of whose containers is running.
LEMMA ActivateKeepsRuntime ==
    ASSUME TypeOK, SessionInv, RuntimeInv, NEW r \in Runner,
           StartActivate(r) \/ VerifyActivate(r)
    PROVE  RuntimeInv'
<1>1. /\ \/ pc[r] = "s_activate"
         \/ pc[r] = "v_activate" /\ active = None
      /\ pc'[r] \in {"s_baseline", "fail"}
      /\ \A q \in Runner : q # r => pc'[q] = pc[q]
  BY GotoMoves
     DEF StartActivate, VerifyActivate, Step, StartStep, SessionInv, SessionOf
<1>2. UNCHANGED <<container, clock, files, evidence, sess>>
  BY DEF StartActivate, VerifyActivate, clusterVars, bundleVars
<1>3. \A s \in Session : HasStarted(s) => \A v \in Daemon : ~ StillRuns(s, v)
  BY <1>1, SessionAssumption DEF RuntimeInv, StoppedInv, Stopped
<1> QED
  BY <1>1, <1>2, <1>3
     DEF RuntimeInv, ClockInv, StoppedInv, Stopped, FreshInv, StillRuns, Identity,
         HasStarted, Daemon

\* The baseline is taken before the session has started anything.
LEMMA BaselineKeepsRuntime ==
    ASSUME TypeOK, LockInv, SessionInv, RuntimeInv, NEW r \in Runner,
           StartBaseline(r)
    PROVE  RuntimeInv'
<1>1. /\ pc[r] = "s_baseline" /\ pc'[r] = "s_prepare" /\ sess' = sess
      /\ \A q \in Runner : q # r => pc'[q] = pc[q] /\ pc[q] # "s_record"
  BY GotoMoves DEF StartBaseline, Step, StartStep, LockInv, Locked
<1>2. UNCHANGED <<container, clock, active>> /\ sess[r] \in Session
  BY <1>1 DEF StartBaseline, clusterVars, SessionInv, SessionOf, Owning, Making
<1>3. /\ \A s \in Session :
             evidence'[s].started = evidence[s].started /\ HasStarted(s)' = HasStarted(s)
      /\ evidence'[sess[r]].baselineAt = clock
      /\ \A s \in Session : s # sess[r] => evidence'[s] = evidence[s]
  BY <1>2 DEF StartBaseline, TypeOK, Evidence, Write, HasStarted
<1>4. ~ HasStarted(sess[r])
  BY <1>1 DEF SessionInv, SessionOf, Making
<1>5. clock <= clock
  BY MaxStampAssumption DEF TypeOK, ClusterTypeOK, Stamp
<1>6. ClockInv'
  BY <1>2, <1>3, <1>5 DEF RuntimeInv, ClockInv
<1>7. StoppedInv'
  BY <1>1, <1>2, <1>3
     DEF RuntimeInv, StoppedInv, Stopped, StillRuns, Identity, Daemon
<1>8. FreshInv'
  BY <1>1, <1>3, <1>4 DEF RuntimeInv, FreshInv
<1> QED
  BY <1>6, <1>7, <1>8 DEF RuntimeInv

\* No step that starts containers brings back what an earlier session started.
LEMMA NothingComesBack ==
    ASSUME TypeOK, ClusterStep, NEW v \in Service, NEW s \in Session,
           evidence[s].started[v][2] <= clock, evidence'[s].started = evidence[s].started,
           StillRuns(s, v)'
    PROVE  StillRuns(s, v)
<1>1. /\ container[v].startedAt \in Nat /\ clock \in Nat /\ clock' \in Nat
      /\ evidence[s].started[v][2] \in Nat
  BY MaxStampAssumption
     DEF TypeOK, ClusterTypeOK, Stamp, Container, Evidence, Identities, ClusterStep
<1>2. container'[v].startedAt = evidence[s].started[v][2] /\ container'[v].state = "running"
  BY DEF StillRuns, Identity
<1>3. Same(v)
  BY <1>1, <1>2 DEF ClusterStep, Anew, Gone
<1> QED
  BY <1>2, <1>3 DEF Same, StillRuns, Identity

\* Any step of the containers.
LEMMA ClusterKeepsRuntime ==
   ASSUME TypeOK, SessionInv, RuntimeInv, ClusterStep, UNCHANGED <<active, files, evidence, sess>>,
       \A r \in Runner :
          /\ pc'[r] \in {"s_session", "s_activate"} => pc[r] = pc'[r]
          /\ pc'[r] = "s_record" => 
               /\ sess[r] \in Session
               /\ \/ \A v \in Service : Anew(v)
                  \/ Survives /\ pc[r] = "s_record"
   PROVE RuntimeInv'
<1>1. /\ clock \in Nat /\ clock' \in Nat /\ clock <= clock'
      /\ \A v \in Service : container[v].startedAt \in Nat /\ container'[v].startedAt \in Nat
      /\ \A s \in Session :
             /\ evidence[s].baselineAt \in Nat
             /\ \A v \in Service : evidence[s].started[v][2] \in Nat
  BY MaxStampAssumption
     DEF TypeOK, ClusterTypeOK, Stamp, Container, Evidence, Identities, ClusterStep
<1>2. \A v \in Service : container'[v].startedAt <= clock'
  BY <1>1 DEF ClusterStep, RuntimeInv, ClockInv, Same, Anew, Gone
<1>3. \A s \in Session :
        /\ evidence[s].baselineAt <= clock'
        /\ \A v \in Service : evidence[s].started[v][2] <= clock'
  BY <1>1 DEF RuntimeInv, ClockInv
<1>4. \A s \in Session, v \in Service : StillRuns(s, v)' => StillRuns(s, v)
  BY NothingComesBack DEF RuntimeInv, ClockInv
<1>5. ASSUME NEW r \in Runner, pc'[r] = "s_record", NEW v \in Service
      PROVE  container'[v].startedAt > evidence[sess[r]].baselineAt
  BY <1>1, <1>5 DEF RuntimeInv, ClockInv, FreshInv, Anew, Survives, Same
<1> QED
  BY <1>2, <1>3, <1>4, <1>5
     DEF RuntimeInv, ClockInv, StoppedInv, FreshInv, Stopped, HasStarted, Daemon

\* up --force-recreate makes every container anew.
LEMMA UpKeepsRuntime ==
    ASSUME TypeOK, LockInv, SessionInv, RuntimeInv, NEW r \in Runner, StartUp(r)
    PROVE  RuntimeInv'
<1>1. /\ pc[r] = "s_up" /\ pc'[r] \in {"s_record", "fail"}
      /\ \A q \in Runner : q # r =>
             pc'[q] = pc[q] /\ pc[q] \notin {"s_session", "s_activate", "s_record"}
  BY GotoMoves DEF StartUp, Step, StartStep, LockInv, Locked
<1>2. UNCHANGED <<active, files, evidence, sess>> /\ sess[r] \in Session
  BY <1>1 DEF StartUp, bundleVars, SessionInv, SessionOf, Owning, Making
<1>3. ClusterStep
  BY UpSteps, UpFailsSteps DEF StartUp
<1>4. pc'[r] = "s_record" => Up
  BY <1>1 DEF StartUp, Goto, TypeOK
<1>5. Up => \A v \in Service : Anew(v)
  BY MaxStampAssumption DEF Up, Anew, TypeOK, ClusterTypeOK, Stamp
<1> QED
  BY <1>1, <1>2, <1>3, <1>4, <1>5, ClusterKeepsRuntime

\* What up has made becomes the session's start evidence.
LEMMA RecordKeepsRuntime ==
    ASSUME TypeOK, LockInv, SessionInv, RuntimeInv, NEW r \in Runner,
           StartRecord(r)
    PROVE  RuntimeInv'
<1>1. /\ pc[r] = "s_record" /\ pc'[r] = "s_pending" /\ sess' = sess
      /\ \A q \in Runner : q # r =>
             pc'[q] = pc[q] /\ pc[q] \notin {"s_session", "s_activate", "s_record"}
  BY GotoMoves DEF StartRecord, Step, StartStep, LockInv, Locked
<1>2. UNCHANGED <<container, clock, active>> /\ sess[r] \in Session /\ active = sess[r]
  BY <1>1
     DEF StartRecord, clusterVars, recordVars, SessionInv, SessionOf, Owning,
         Making, Activated
<1>3. /\ \A s \in Session : s # sess[r] => evidence'[s] = evidence[s] /\ files'[s] = files[s]
      /\ evidence'[sess[r]].baselineAt = evidence[sess[r]].baselineAt
      /\ evidence'[sess[r]].started = Identity
  BY <1>2 DEF StartRecord, TypeOK, Evidence, Write
<1>4. \A v \in Service : Identity[v][2] = container[v].startedAt
  BY DEF Identity
<1>5. ClockInv'
  <2>1. \A v \in Service : evidence'[sess[r]].started[v][2] <= clock
    BY <1>3, <1>4 DEF RuntimeInv, ClockInv
  <2> QED
    BY <2>1, <1>2, <1>3 DEF RuntimeInv, ClockInv
<1>6. StoppedInv'
  BY <1>1, <1>2, <1>3
     DEF RuntimeInv, StoppedInv, Stopped, StillRuns, Identity, Daemon, HasStarted
<1>7. FreshInv'
  <2>1. \A v \in Service : evidence'[sess[r]].started[v][2] > evidence'[sess[r]].baselineAt
    BY <1>1, <1>3, <1>4 DEF RuntimeInv, FreshInv
  <2> QED
    BY <2>1, <1>1, <1>2, <1>3 DEF RuntimeInv, FreshInv, HasStarted
<1> QED
  BY <1>5, <1>6, <1>7 DEF RuntimeInv

\* down removes containers, all or some.
LEMMA DownKeepsRuntime ==
    ASSUME TypeOK, LockInv, SessionInv, RuntimeInv, NEW r \in Runner, StopDown(r)
    PROVE  RuntimeInv'
<1>1. /\ pc[r] = "d_down" /\ pc'[r] = "unlock"
      /\ \A q \in Runner : q # r =>
             pc'[q] = pc[q] /\ pc[q] \notin {"s_session", "s_activate", "s_record"}
  BY GotoMoves DEF StopDown, Step, OtherStep, LockInv, Locked, StartStep
<1>2. UNCHANGED <<active, files, evidence, sess>>
  BY DEF StopDown, recordVars, bundleVars
<1>3. ClusterStep
  BY DownSteps DEF StopDown
<1> QED
  BY <1>1, <1>2, <1>3, ClusterKeepsRuntime

\* Containers die and are restarted by hand.
LEMMA EventKeepsRuntime ==
    ASSUME TypeOK, SessionInv, RuntimeInv, ContainerEvent
    PROVE  RuntimeInv'
<1>1. UNCHANGED <<active, files, evidence, sess, pc>>
  BY DEF ContainerEvent, recordVars, runnerVars, bundleVars
<1>2. ClusterStep /\ Survives
  BY DieSteps, RestartSteps DEF ContainerEvent
<1> QED
  BY <1>1, <1>2, ClusterKeepsRuntime, RecordsOwnSession

\* Every step keeps what is known of the containers.
LEMMA RuntimeStep ==
    TypeOK /\ LockInv /\ SessionInv /\ RuntimeInv /\ [Next]_vars => RuntimeInv'
<1> SUFFICES ASSUME TypeOK, LockInv, SessionInv, RuntimeInv, [Next]_vars
             PROVE  RuntimeInv'
  OBVIOUS
<1>1. ASSUME NEW r \in Runner, Script(r) \/ Crash(r) PROVE RuntimeInv'
  <2>1. CASE OutsideRuntime(r)
    BY <2>1, MostKeepRuntime, RuntimeKept
  <2>2. CASE StartPreflight(r) \/ StartSession(r)
    BY <2>2, PreflightKeepsRuntime, SessionKeepsRuntime
  <2>3. CASE StartActivate(r) \/ VerifyActivate(r)
    BY <2>3, ActivateKeepsRuntime
  <2>4. CASE StartBaseline(r) \/ StartUp(r) \/ StartRecord(r) \/ StopDown(r)
    BY <2>4, BaselineKeepsRuntime, UpKeepsRuntime, RecordKeepsRuntime, DownKeepsRuntime
  <2> QED
    BY <1>1, <2>1, <2>2, <2>3, <2>4
       DEF Script, Start, Verify, Stop, Observe, OutsideRuntime
<1>2. CASE ContainerEvent
  BY <1>2, EventKeepsRuntime
<1>3. CASE OrphanEnds \/ JobEvent \/ UNCHANGED vars
  <2>1. UNCHANGED <<container, clock, active, files, evidence, pc, sess>>
    BY <1>3
       DEF OrphanEnds, JobEvent, Submit, Finish, Swap, vars, recordVars,
           clusterVars, runnerVars, bundleVars
  <2> QED
    BY <2>1
       DEF RuntimeInv, ClockInv, StoppedInv, FreshInv, Stopped, StillRuns, Identity,
           HasStarted
<1> QED
  BY <1>1, <1>2, <1>3 DEF Next, Environment

-----------------------------------------------------------------------------
(* The captures of the containers' identities. *)

\* Most steps neither capture nor complete anything.
KeepsBundle(r) ==
    /\ active' = active
    /\ \A s \in Session :
           /\ HasStarted(s) => HasStarted(s)'
           /\ evidence'[s].started = evidence[s].started
           /\ evidence'[s].pre = evidence[s].pre
           /\ evidence'[s].post = evidence[s].post
           /\ evidence'[s].final = evidence[s].final
           /\ status'[s] = "COMPLETE" => status[s] = "COMPLETE"
    /\ OthersStay(r)
    /\ pc'[r] \in AfterPre => pc[r] \in AfterPre /\ sess'[r] = sess[r]
    /\ pc'[r] \in AfterPost => pc[r] \in AfterPost
    /\ pc'[r] \in AfterFinal => pc[r] \in AfterFinal

OutsideBundle(r) ==
    \/ StartUnreachable(r) \/ MarkUnreachable(r) \/ StartEnter(r)
    \/ StartPreflight(r) \/ StartSession(r) \/ StartBaseline(r)
    \/ StartPrepare(r) \/ StartUp(r) \/ StartPending(r) \/ VerifyEnter(r)
    \/ VerifyWithoutSession(r) \/ VerifyLoad(r) \/ VerifyBaseline(r)
    \/ VerifyServices(r) \/ VerifyIdle(r) \/ VerifyBefore(r) \/ VerifySmoke(r)
    \/ SmokeReturns(r) \/ VerifyCorrelate(r) \/ VerifySnapshot(r)
    \/ VerifyValidate(r) \/ StopEnter(r) \/ StopDown(r) \/ ObserveEnter(r)
    \/ ObserveCheck(r) \/ ObserveRun(r) \/ ObserveReturns(r) \/ Throw(r)
    \/ DiskFault(r) \/ Fail(r) \/ Unlock(r) \/ Crash(r)

\* The steps that are outside the captures.
LEMMA MostKeepBundle ==
    ASSUME TypeOK, SessionInv, NEW r \in Runner, OutsideBundle(r) PROVE KeepsBundle(r)
<1> USE DEF KeepsBundle, OthersStay, TypeOK, HasStarted, Step, StartStep, VerifyStep,
            OtherStep, Unlocked, Status, Terminal, AfterPre, AfterPost, AfterFinal,
            Verifying, SessionInv, SessionOf, Owning, Making
<1>1. CASE StartUnreachable(r)
  BY <1>1, GotoMoves, NewSessionWrites DEF StartUnreachable, bundleVars
<1>2. CASE MarkUnreachable(r)
  BY <1>2, GotoMoves, SetStatusWrites DEF MarkUnreachable, bundleVars
<1>3. CASE StartEnter(r)
  BY <1>3, GotoMoves DEF StartEnter, Enter, recordVars, bundleVars
<1>4. CASE StartPreflight(r)
  BY <1>4, GotoMoves DEF StartPreflight, recordVars, bundleVars
<1>5. CASE StartSession(r)
  BY <1>5, GotoMoves, NewSessionWrites DEF StartSession, bundleVars
<1>6. CASE StartBaseline(r)
  BY <1>6, GotoMoves, SetStatusWrites
     DEF StartBaseline, Evidence, Write, StillIncomplete
<1>7. CASE StartPrepare(r)
  BY <1>7, GotoMoves, SetStatusWrites DEF StartPrepare, Write, StillIncomplete
<1>8. CASE StartUp(r)
  BY <1>8, GotoMoves, SetStatusWrites DEF StartUp, StillIncomplete, bundleVars
<1>9. CASE StartPending(r)
  BY <1>9, GotoMoves, SetStatusWrites DEF StartPending, StillIncomplete, bundleVars
<1>10. CASE VerifyEnter(r)
  BY <1>10, GotoMoves DEF VerifyEnter, Enter, recordVars, bundleVars
<1>11. CASE VerifyWithoutSession(r)
  BY <1>11, GotoMoves, NewSessionWrites DEF VerifyWithoutSession, bundleVars
<1>12. CASE VerifyLoad(r)
  BY <1>12, GotoMoves DEF VerifyLoad, recordVars, bundleVars
<1>13. CASE VerifyBaseline(r)
  BY <1>13, GotoMoves DEF VerifyBaseline, recordVars, bundleVars
<1>14. CASE VerifyServices(r)
  BY <1>14, GotoMoves, SetStatusWrites
     DEF VerifyServices, StillIncomplete, bundleVars
<1>15. CASE VerifyIdle(r)
  BY <1>15, GotoMoves, SetStatusWrites DEF VerifyIdle, StillIncomplete, bundleVars
<1>16. CASE VerifyBefore(r)
  BY <1>16, GotoMoves, SetStatusWrites
     DEF VerifyBefore, Evidence, Write, StillIncomplete
<1>17. CASE VerifySmoke(r)
  BY <1>17, GotoMoves, SetStatusWrites DEF VerifySmoke, StillIncomplete, bundleVars
<1>18. CASE SmokeReturns(r)
  BY <1>18, GotoMoves, SetStatusWrites DEF SmokeReturns, bundleVars
<1>19. CASE VerifyCorrelate(r)
  BY <1>19, GotoMoves, SetStatusWrites
     DEF VerifyCorrelate, Evidence, Write, StillIncomplete
<1>20. CASE VerifySnapshot(r)
  BY <1>20, GotoMoves, SetStatusWrites
     DEF VerifySnapshot, Evidence, Write, StillIncomplete
<1>21. CASE VerifyValidate(r)
  BY <1>21, GotoMoves, SetStatusWrites
     DEF VerifyValidate, StillIncomplete, bundleVars
<1>22. CASE StopEnter(r)
  BY <1>22, GotoMoves DEF StopEnter, Enter, recordVars, bundleVars
<1>23. CASE StopDown(r)
  BY <1>23, GotoMoves DEF StopDown, recordVars, bundleVars
<1>24. CASE ObserveEnter(r)
  BY <1>24, GotoMoves DEF ObserveEnter, Enter, recordVars, bundleVars
<1>25. CASE ObserveCheck(r)
  BY <1>25, GotoMoves DEF ObserveCheck, recordVars, bundleVars
<1>26. CASE ObserveRun(r)
  BY <1>26, GotoMoves DEF ObserveRun, recordVars, bundleVars
<1>27. CASE ObserveReturns(r)
  BY <1>27, GotoMoves DEF ObserveReturns, recordVars, bundleVars
<1>28. CASE Throw(r)
  BY <1>28, SetStatusWrites
     DEF Throw, StillIncomplete, WithoutSession, BeforeStatusWrite, Throwing,
         bundleVars
<1>29. CASE DiskFault(r)
  BY <1>29 DEF DiskFault, recordVars, bundleVars
<1>30. CASE Fail(r)
  BY <1>30, GotoMoves, SetStatusWrites DEF Fail, bundleVars
<1>31. CASE Unlock(r)
  BY <1>31, GotoMoves DEF Unlock, recordVars, bundleVars
<1>32. CASE Crash(r)
  BY <1>32 DEF Crash, recordVars, bundleVars
<1> QED
  BY <1>1, <1>2, <1>3, <1>4, <1>5, <1>6, <1>7, <1>8, <1>9, <1>10, <1>11, <1>12,
     <1>13, <1>14, <1>15, <1>16, <1>17, <1>18, <1>19, <1>20, <1>21, <1>22, <1>23,
     <1>24, <1>25, <1>26, <1>27, <1>28, <1>29, <1>30, <1>31, <1>32
     DEF OutsideBundle

\* A step of those.
LEMMA BundleKept ==
    ASSUME TypeOK, SessionInv, BundleInv, NEW r \in Runner, KeepsBundle(r)
    PROVE  BundleInv'
BY DEF KeepsBundle, OthersStay, BundleInv, Compared, SessionInv, SessionOf,
       AfterPre, AfterPost, AfterFinal, Owning, Making, Verifying, CompleteSessions

\* No verify.ps1 is at work when the pointer moves.
LEMMA ActivateKeepsBundle ==
    ASSUME TypeOK, LockInv, BundleInv, NEW r \in Runner,
           StartActivate(r) \/ VerifyActivate(r)
    PROVE  BundleInv'
<1>1. /\ pc[r] \in {"s_activate", "v_activate"} /\ pc'[r] \in {"s_baseline", "fail"}
      /\ \A q \in Runner : q # r => pc'[q] = pc[q]
  BY GotoMoves DEF StartActivate, VerifyActivate, Step, StartStep
<1>2. \A q \in Runner : pc'[q] \notin AfterPre
  BY <1>1 DEF LockInv, Locked, AfterPre, Verifying, StartStep, VerifyStep
<1>3. UNCHANGED <<files, evidence, status>>
  BY DEF StartActivate, VerifyActivate, bundleVars
<1> QED
  BY <1>2, <1>3
     DEF BundleInv, Compared, CompleteSessions, HasStarted, AfterPre, AfterPost,
         AfterFinal, Verifying

\* Nor when the start evidence is written.
LEMMA RecordKeepsBundle ==
    ASSUME TypeOK, LockInv, SessionInv, BundleInv, NEW r \in Runner, StartRecord(r)
    PROVE  BundleInv'
<1>1. /\ pc[r] = "s_record" /\ pc'[r] = "s_pending"
      /\ \A q \in Runner : q # r => pc'[q] = pc[q]
  BY GotoMoves DEF StartRecord, Step, StartStep
<1>2. \A q \in Runner : pc'[q] \notin AfterPre
  BY <1>1 DEF LockInv, Locked, AfterPre, Verifying, StartStep, VerifyStep
<1>3. /\ \A s \in Session : s # sess[r] => evidence'[s] = evidence[s] /\ files'[s] = files[s]
      /\ status' = status /\ status[sess[r]] = "INCOMPLETE"
  BY <1>1
     DEF StartRecord, TypeOK, Evidence, Write, recordVars, SessionInv, SessionOf,
         Owning, Making
<1> QED
  BY <1>2, <1>3
     DEF BundleInv, Compared, CompleteSessions, HasStarted, AfterPre, AfterPost,
         AfterFinal, Verifying

\* Each capture of verify.ps1 agrees with the one before, or it gives up.  The
\* first of them also shows that the session is the active one: the
\* ResourceManager that runs is the one its start.ps1 recorded.
LEMMA CompareKeepsBundle ==
    ASSUME TypeOK, LockInv, SessionInv, RuntimeInv, BundleInv, NEW r \in Runner,
           VerifyPre(r) \/ VerifyPost(r) \/ VerifyFinal(r)
    PROVE  BundleInv'
<1>1. /\ pc[r] \in Verifying
      /\ \A q \in Runner : q # r => pc'[q] = pc[q] /\ pc'[q] \notin AfterPre
  BY GotoMoves
     DEF VerifyPre, VerifyPost, VerifyFinal, Step, VerifyStep, LockInv, Locked,
         AfterPre, Verifying
<1>2. sess[r] \in Session /\ status[sess[r]] = "INCOMPLETE"
  BY <1>1 DEF SessionInv, SessionOf
<1>3. UNCHANGED <<active, sess, container>> /\ status'[sess[r]] = "INCOMPLETE"
      /\ \A s \in Session : s # sess[r] => status'[s] = status[s]
  BY <1>2, SetStatusWrites
     DEF VerifyPre, VerifyPost, VerifyFinal, StillIncomplete, Status, TypeOK,
         clusterVars
<1>4. /\ \A s \in Session : HasStarted(s) => HasStarted(s)'
      /\ \A s \in Session : s # sess[r] => evidence'[s] = evidence[s]
      /\ evidence'[sess[r]].started = evidence[sess[r]].started
  BY <1>2
     DEF VerifyPre, VerifyPost, VerifyFinal, Write, HasStarted, TypeOK, Evidence
<1>5. \A s \in Session : s # sess[r] /\ s \in CompleteSessions' =>
        s \in CompleteSessions
  BY <1>3 DEF CompleteSessions
<1>6. \A s \in CompleteSessions' : s # sess[r]
  BY <1>3 DEF CompleteSessions
<1>c. \A s \in CompleteSessions' :
        /\ HasStarted(s)'
        /\ evidence'[s].pre = evidence'[s].started
        /\ evidence'[s].post = evidence'[s].pre
        /\ evidence'[s].final = evidence'[s].post
  BY <1>4, <1>5, <1>6 DEF BundleInv, CompleteSessions
<1>d. \A q \in Runner : q # r => Compared(q)'
  BY <1>1 DEF Compared, AfterPre, AfterPost, AfterFinal, Verifying
<1>s. SUFFICES Compared(r)'
  BY <1>c, <1>d DEF BundleInv
<1>7. CASE VerifyPre(r)
  <2>1. /\ pc'[r] \notin AfterPost
        /\ evidence'[sess[r]].pre = Identity
        /\ pc'[r] \in AfterPre => HasStarted(sess[r]) /\ Identity = evidence[sess[r]].started
    BY <1>2, <1>7, GotoMoves
       DEF VerifyPre, Goto, Step, VerifyStep, AfterPre, AfterPost, Verifying,
           TypeOK, Evidence, HasStarted
  <2>2. pc'[r] \in AfterPre => active = sess[r]
    <3>1. ResourceManager \in Daemon /\ container[ResourceManager].state = "running"
      BY <1>7, ServiceAssumption DEF VerifyPre, Healthy, Daemon
    <3>2. pc'[r] \in AfterPre => StillRuns(sess[r], ResourceManager)
      BY <2>1, <3>1 DEF StillRuns
    <3> QED
      BY <1>2, <2>1, <3>1, <3>2 DEF RuntimeInv, StoppedInv, Stopped
  <2> QED
    BY <1>2, <1>3, <1>4, <2>1, <2>2
       DEF BundleInv, Compared, AfterPost, AfterFinal, AfterPre, Verifying
<1>8. CASE VerifyPost(r)
  <2>1. /\ pc[r] \in AfterPre /\ pc'[r] \notin AfterFinal
        /\ evidence'[sess[r]].pre = evidence[sess[r]].pre
        /\ evidence'[sess[r]].post = Identity
        /\ pc'[r] \in AfterPost => Identity = evidence[sess[r]].pre
    BY <1>2, <1>8, GotoMoves
       DEF VerifyPost, Goto, Step, VerifyStep, AfterPre, AfterPost, AfterFinal,
           Verifying, TypeOK, Evidence
  <2>2. pc'[r] \in AfterPre => pc'[r] \in AfterPost
    BY <1>8, GotoMoves
       DEF VerifyPost, Step, VerifyStep, AfterPre, AfterPost, Verifying
  <2> QED
    BY <1>2, <1>3, <1>4, <2>1, <2>2
       DEF BundleInv, Compared, AfterPost, AfterFinal, AfterPre, Verifying
<1>9. CASE VerifyFinal(r)
  <2>1. /\ pc[r] \in AfterPre /\ pc[r] \in AfterPost
        /\ evidence'[sess[r]].pre = evidence[sess[r]].pre
        /\ evidence'[sess[r]].post = evidence[sess[r]].post
        /\ evidence'[sess[r]].final = Identity
        /\ pc'[r] \in AfterFinal => Identity = evidence[sess[r]].post
    BY <1>2, <1>9, GotoMoves
       DEF VerifyFinal, Goto, Step, VerifyStep, AfterPre, AfterPost, AfterFinal,
           Verifying, TypeOK, Evidence
  <2> QED
    BY <1>2, <1>3, <1>4, <2>1
       DEF BundleInv, Compared, AfterPost, AfterFinal, AfterPre, Verifying
<1> QED
  BY <1>7, <1>8, <1>9

\* What holds of the captures at the end holds of the COMPLETE session.
LEMMA CompleteKeepsBundle ==
    ASSUME TypeOK, SessionInv, LockInv, BundleInv, NEW r \in Runner,
           VerifyComplete(r)
    PROVE  BundleInv'
<1>1. /\ pc[r] = "v_complete" /\ pc'[r] = "unlock"
      /\ \A q \in Runner : q # r => pc'[q] = pc[q] /\ pc'[q] \notin AfterPre
  BY GotoMoves
     DEF VerifyComplete, Step, VerifyStep, LockInv, Locked, AfterPre, Verifying
<1>2. sess[r] \in Session
  BY <1>1 DEF SessionInv, SessionOf, Verifying
<1>3. UNCHANGED <<files, evidence>>
      /\ \A s \in Session : s # sess[r] => status'[s] = status[s]
  BY <1>2, SetStatusWrites DEF VerifyComplete, Status, Terminal, TypeOK, bundleVars
<1> QED
  BY <1>1, <1>2, <1>3
     DEF BundleInv, Compared, CompleteSessions, HasStarted, AfterPre, AfterPost,
         AfterFinal, Verifying

\* Every step keeps what is known of the captures.
LEMMA BundleStep == TypeOK /\ IInv /\ [Next]_vars => BundleInv'
<1> SUFFICES ASSUME TypeOK, IInv, [Next]_vars PROVE BundleInv'
  OBVIOUS
<1> USE DEF IInv
<1>1. ASSUME NEW r \in Runner, Script(r) \/ Crash(r) PROVE BundleInv'
  <2>1. CASE OutsideBundle(r)
    BY <2>1, MostKeepBundle, BundleKept
  <2>2. CASE StartActivate(r) \/ VerifyActivate(r)
    BY <2>2, ActivateKeepsBundle
  <2>3. CASE StartRecord(r)
    BY <2>3, RecordKeepsBundle
  <2>4. CASE VerifyPre(r) \/ VerifyPost(r) \/ VerifyFinal(r)
    BY <2>4, CompareKeepsBundle
  <2>5. CASE VerifyComplete(r)
    BY <2>5, CompleteKeepsBundle
  <2> QED
    BY <1>1, <2>1, <2>2, <2>3, <2>4, <2>5
       DEF Script, Start, Verify, Stop, Observe, OutsideBundle
<1>2. CASE OrphanEnds \/ ContainerEvent \/ JobEvent \/ UNCHANGED vars
  <2>1. UNCHANGED <<active, status, files, evidence, pc, sess>>
    BY <1>2
       DEF OrphanEnds, ContainerEvent, JobEvent, vars, recordVars, runnerVars,
           bundleVars
  <2> QED
    BY <2>1 DEF BundleInv, Compared, CompleteSessions, HasStarted
<1> QED
  BY <1>1, <1>2 DEF Next, Environment

-----------------------------------------------------------------------------
(* The invariant, and what it says. *)

\* Before any script has run.
LEMMA InvariantInit == Init => IInv
BY SessionAssumption, MaxStampAssumption
   DEF Init, RecordInit, ClusterInit, IInv, LockInv, Locked, StartStep, VerifyStep,
       OtherStep, SessionInv, RecordInv, SessionOf, Activated, Owning, Making,
       Verifying, RuntimeInv, ClockInv, StoppedInv, FreshInv, HasStarted, BundleInv,
       Compared, AfterPre, AfterPost, AfterFinal, CompleteSessions, NoIdentity

\* Every step of a script and of the environment.
LEMMA InvariantStep == TypeOK /\ IInv /\ [Next]_vars => IInv'
  BY LockStep, SessionStep, RuntimeStep, BundleStep DEF IInv

\* The strengthening that the properties below rest on: who has the lock, who
\* works on which session, which session's containers can be running, and how
\* far a verification has compared them.
THEOREM Invariant == Spec => []IInv
  BY TypeInit, TypeStep, InvariantInit, InvariantStep, PTL DEF Spec

\* No two scripts are past the lock at the same time, however many there are
\* and whichever are killed (Enter- and Exit-LocalYarnVerificationLock).
THEOREM LockExcludes == Spec => []OneScriptInCharge
<1>1. TypeOK /\ IInv => OneScriptInCharge
  BY DEF TypeOK, IInv, LockInv, Locked, OneScriptInCharge, InCharge, Step, Unlocked
<1> QED
  BY <1>1, TypeCorrect, Invariant, PTL

\* The pointer names a session on disk, wherever start.ps1 or verify.ps1 is
\* killed (New-LocalYarnVerificationSession).
THEOREM PointerIsValid == Spec => []ActiveSessionExists
<1>1. TypeOK /\ IInv => ActiveSessionExists
  BY DEF TypeOK, RecordTypeOK, IInv, SessionInv, RecordInv, ActiveSessionExists,
         OnDisk
<1> QED
  BY <1>1, TypeCorrect, Invariant, PTL

\* The four captures in a COMPLETE session show the same containers, started
\* after its baseline, for any set of services and any number of restarts,
\* failed ups and downs in between (verify.ps1).
THEOREM OneRuntime == Spec => []CompleteMeansOneRuntime
<1>1. IInv => CompleteMeansOneRuntime
  BY DEF IInv, BundleInv, RuntimeInv, FreshInv, CompleteMeansOneRuntime,
         CompleteSessions
<1> QED
  BY <1>1, Invariant, PTL

-----------------------------------------------------------------------------
(* The refinement of SessionProtocol, and the action properties of           *)
(* LifecycleProperties about sessions.                                       *)


\* The script in charge of a session leaves the record as it is, marks its own
\* session FAILED (again), or completes it while it is the active one.
LEMMA WorkImplements ==
    ASSUME TypeOK, TypeOK', IInv, NEW r \in Runner, WorkStep(r)
    PROVE  Protocol!Next \/ UNCHANGED <<status, active>>
<1>1. /\ status \in [Session -> Status] /\ status' \in [Session -> Status]
      /\ active' = active
      /\ \A s \in Session : s # sess[r] => status'[s] = status[s]
  BY DEF TypeOK, RecordTypeOK, WorkStep
<1>2. CASE status'[sess[r]] = status[sess[r]]
  BY <1>1, <1>2
<1>3. CASE pc[r] = "fail" /\ status'[sess[r]] = "FAILED"
  <2>1. sess[r] \in Session /\ status[sess[r]] \in {"INCOMPLETE", "FAILED"}
    BY <1>3 DEF IInv, SessionInv, SessionOf
  <2>2. status' = [status EXCEPT ![sess[r]] = "FAILED"]
    BY <1>1, <1>3
  <2>3. CASE status[sess[r]] = "INCOMPLETE"
    BY <1>1, <2>1, <2>2, <2>3 DEF Protocol!Next, Protocol!Fail
  <2>4. CASE status[sess[r]] = "FAILED"
    BY <1>1, <2>2, <2>4
  <2> QED
    BY <2>1, <2>3, <2>4
<1>4. CASE pc[r] = "v_complete" /\ status'[sess[r]] = "COMPLETE"
  <2>1. sess[r] \in Session /\ status[sess[r]] = "INCOMPLETE" /\ active = sess[r]
    BY <1>4 DEF IInv, SessionInv, SessionOf, BundleInv, Compared, AfterPre, Verifying
  <2>2. status' = [status EXCEPT ![sess[r]] = "COMPLETE"]
    BY <1>1, <1>4
  <2> QED
    BY <1>1, <2>1, <2>2 DEF Protocol!Next, Protocol!Complete
<1> QED
  BY <1>2, <1>3, <1>4 DEF WorkStep

\* A session made outside and inside the lock, and one marked outside it.
LEMMA RecordImplements ==
    ASSUME TypeOK, TypeOK', IInv, NEW r \in Runner,
           \/ StartUnreachable(r) \/ MarkUnreachable(r) \/ StartSession(r)
           \/ VerifyWithoutSession(r) \/ StartActivate(r) \/ VerifyActivate(r)
    PROVE  Protocol!Next \/ UNCHANGED <<status, active>>
<1>1. CASE StartUnreachable(r) \/ StartSession(r) \/ VerifyWithoutSession(r)
  BY <1>1 DEF StartUnreachable, StartSession, VerifyWithoutSession, NewSession,
              Protocol!Next, Protocol!Create
<1>2. CASE MarkUnreachable(r)
  <2>1. sess[r] \in Session /\ status[sess[r]] \in {"INCOMPLETE", "FAILED"}
    BY <1>2 DEF MarkUnreachable, Goto, IInv, SessionInv, SessionOf
  <2>2. status' = [status EXCEPT ![sess[r]] = "FAILED"] /\ active' = active
    BY <1>2 DEF MarkUnreachable, SetStatus
  <2>3. CASE status[sess[r]] = "INCOMPLETE"
    BY <2>1, <2>2, <2>3 DEF Protocol!Next, Protocol!Fail
  <2>4. CASE status[sess[r]] = "FAILED"
    BY <2>2, <2>4 DEF TypeOK, RecordTypeOK
  <2> QED
    BY <2>1, <2>3, <2>4
<1>3. CASE StartActivate(r) \/ VerifyActivate(r)
  <2>1. sess[r] \in Session /\ status[sess[r]] = "INCOMPLETE"
    BY <1>3
       DEF StartActivate, VerifyActivate, Goto, IInv, SessionInv, SessionOf, Owning,
                Making
  <2> QED
    BY <1>3, <2>1 DEF StartActivate, VerifyActivate, Activate, Protocol!Next,
                      Protocol!Activate
<1> QED
  BY <1>1, <1>2, <1>3

\* Every step is a step of the protocol or leaves the record alone.
LEMMA StepImplements ==
    TypeOK /\ TypeOK' /\ IInv /\ [Next]_vars => [Protocol!Next]_<<status, active>>
<1> SUFFICES ASSUME TypeOK, TypeOK', IInv, [Next]_vars
             PROVE  Protocol!Next \/ UNCHANGED <<status, active>>
  OBVIOUS
<1>1. ASSUME NEW r \in Runner, Script(r) \/ Crash(r)
      PROVE  Protocol!Next \/ UNCHANGED <<status, active>>
  <2>1. CASE Works(r)
    BY <2>1, WorksOnItsOwn, WorkImplements DEF IInv
  <2>2. CASE Asides(r)
    BY <2>2, AsidesLeaveSessions DEF AsideStep, IInv
  <2>3. CASE VerifyLoad(r)
    BY <2>3 DEF VerifyLoad, recordVars
  <2>4. CASE \/ StartUnreachable(r) \/ MarkUnreachable(r) \/ StartSession(r)
             \/ VerifyWithoutSession(r) \/ StartActivate(r) \/ VerifyActivate(r)
    BY <2>4, RecordImplements
  <2> QED
    BY <1>1, <2>1, <2>2, <2>3, <2>4
       DEF Script, Start, Verify, Stop, Observe, Works, Asides
<1>2. CASE OrphanEnds \/ ContainerEvent \/ JobEvent \/ UNCHANGED vars
  BY <1>2 DEF OrphanEnds, ContainerEvent, JobEvent, vars, recordVars
<1> QED
  BY <1>1, <1>2 DEF Next, Environment

\* To a reader of the status documents and the pointer, any number of scripts
\* on any number of sessions behave as SessionProtocol says.
THEOREM Refinement == Spec => ImplementsProtocol
<1>1. Init => Protocol!Init
  BY DEF Init, RecordInit, Protocol!Init
<1> QED
  BY <1>1, StepImplements, TypeCorrect, Invariant, PTL
     DEF Spec, ImplementsProtocol, Protocol!Spec

\* A session that is COMPLETE or FAILED keeps its status for ever.
THEOREM TerminalStays == Spec => TerminalIsFinal
<1>1. TypeOK /\ [Protocol!Next]_<<status, active>>
         => [\A s \in Session : status[s] \in Terminal => status'[s] = status[s]]_status
  BY DEF Protocol!Next, Protocol!Create, Protocol!Activate, Protocol!Fail,
         Protocol!Complete, Terminal, TypeOK, RecordTypeOK
<1> QED
  BY <1>1, StepImplements, TypeCorrect, Invariant, PTL DEF Spec, TerminalIsFinal

\* Only the active session becomes COMPLETE.
THEOREM OnlyActiveCompletes == Spec => CompletesWhileActive
<1>1. TypeOK /\ [Protocol!Next]_<<status, active>>
         => [\A s \in Session : status[s] # "COMPLETE" /\ status'[s] = "COMPLETE"
                 => active = s]_<<status, active>>
  BY DEF Protocol!Next, Protocol!Create, Protocol!Activate, Protocol!Fail,
         Protocol!Complete, TypeOK, RecordTypeOK
<1> QED
  BY <1>1, StepImplements, TypeCorrect, Invariant, PTL DEF Spec, CompletesWhileActive

\* The pointer leaves a session only when nothing that it started is running.
THEOREM RunningKept == Spec => RunningSessionKept
<1> DEFINE Kept == active' # active /\ active # None =>
           \A v \in Daemon :
               "started_service_images" \in files[active] =>
                   ~ /\ container[v].state = "running"
                     /\ evidence[active].started[v] = Identity[v]
<1>1. TypeOK /\ IInv /\ [Next]_vars => Kept
  <2> SUFFICES ASSUME TypeOK, IInv, [Next]_vars, active' # active, active # None
               PROVE  \A v \in Daemon : HasStarted(active) => ~ StillRuns(active, v)
    BY DEF HasStarted, StillRuns
  <2>1. PICK r \in Runner : StartActivate(r) \/ VerifyActivate(r)
    <3>1. ASSUME NEW r \in Runner, Works(r) \/ Asides(r) PROVE FALSE
      BY <3>1, WorksOnItsOwn, AsidesLeaveSessions DEF WorkStep, AsideStep, IInv
    <3>2. ASSUME NEW r \in Runner,
                 \/ StartUnreachable(r) \/ MarkUnreachable(r) \/ StartSession(r)
                 \/ VerifyWithoutSession(r) \/ VerifyLoad(r)
          PROVE  FALSE
      BY <3>2
         DEF StartUnreachable, MarkUnreachable, StartSession, VerifyWithoutSession,
                  VerifyLoad, recordVars
    <3>3. CASE OrphanEnds \/ ContainerEvent \/ JobEvent \/ UNCHANGED vars
      BY <3>3 DEF OrphanEnds, ContainerEvent, JobEvent, vars, recordVars
    <3> QED
      BY <3>1, <3>2, <3>3 DEF Next, Environment, Script, Start, Verify, Stop, Observe,
                              Works, Asides
  <2>2. pc[r] = "s_activate" /\ active \in Session
    BY <2>1
       DEF StartActivate, VerifyActivate, Goto, IInv, SessionInv, SessionOf, TypeOK,
                RecordTypeOK
  <2> QED
    BY <2>2 DEF IInv, RuntimeInv, StoppedInv, Stopped
<1> QED
  BY <1>1, TypeCorrect, Invariant, PTL DEF Spec, RunningSessionKept

(***************************************************************************)
(* The jobs: the part of LifecycleInvariant about them, and what the host  *)
(* scripts rely on of the jobs they launch.                                *)
(*                                                                         *)
(* Steps are sorted by what they do to jobs: launch one, have one accepted *)
(* by YARN, let the VM swap, or at most end some (AtMostEnds).  While a    *)
(* script is between the lock and the finally block, the others can only   *)
(* come and go (OutsiderStep), so what a verification knows of its own     *)
(* smoke application is disturbed by its own steps and the environment.    *)
(***************************************************************************)
Done == {"succeeded", "failed"}
Waiting == {"v_wait", "o_wait"}

\* All that happens to a job is that it ends or loses its client.
AtMostEnds(a) ==
    /\ job'[a].kind = job[a].kind /\ job'[a].rm = job[a].rm
    /\ job'[a].swapped = job[a].swapped /\ job'[a].met = job[a].met
    /\ job'[a].client \in {job[a].client, None}
    /\ \/ job'[a].state = job[a].state
       \/ job[a].state \in {"launching", "active"} /\ job'[a].state \in Done

ClientsStay == \A a \in App : job'[a].client = job[a].client

\* Nothing happens to the jobs.
LEMMA SameJobs ==
    ASSUME job' = job PROVE ClientsStay /\ \A a \in App : AtMostEnds(a)
BY DEF ClientsStay, AtMostEnds

\* A ResourceManager that stops or restarts, and docker compose down.
LEMMA LosingEnds ==
    ASSUME TypeOK, NEW K \in SUBSET Launching, LoseApplications(K)
    PROVE  ClientsStay /\ \A a \in App : AtMostEnds(a)
<1>1. \A a \in App : job[a] \in Job
  BY DEF TypeOK, JobsTypeOK
<1>2. ASSUME NEW a \in App
      PROVE  \/ job'[a] = job[a]
             \/ /\ job[a].state \in {"launching", "active"}
                /\ job'[a] = [job[a] EXCEPT !.state = "failed"]
  BY DEF LoseApplications, Active, Launching
<1> QED
  BY <1>1, <1>2, ZenonT(60) DEF ClientsStay, AtMostEnds, Done, Job

\* The container of a job ends.
LEMMA EndEnds ==
    ASSUME TypeOK, NEW a \in App, ContainerEnds(a)
    PROVE  /\ \A b \in App : AtMostEnds(b) /\ (b # a => job'[b] = job[b])
           /\ job'[a].client = None
           /\ job'[a].state \notin {"launching"}
           /\ job[a].state \in Done => job'[a].state = job[a].state
<1>1. \A b \in App : job[b] \in Job
  BY DEF TypeOK, JobsTypeOK
<1>2. PICK killed \in BOOLEAN :
        job' = [job EXCEPT ![a].client = None,
                           ![a].state = IF @ = "launching" \/ (@ = "active" /\ killed)
                                        THEN "failed" ELSE @]
  BY DEF ContainerEnds
<1> DEFINE st == IF job[a].state = "launching" \/ (job[a].state = "active" /\ killed)
                 THEN "failed" ELSE job[a].state
<1>3. \/ st = job[a].state /\ st # "launching"
      \/ job[a].state \in {"launching", "active"} /\ st = "failed"
  OBVIOUS
<1>4. job' = [job EXCEPT ![a].client = None, ![a].state = st]
  BY <1>2
<1> HIDE DEF st
<1>5. /\ job'[a].kind = job[a].kind /\ job'[a].rm = job[a].rm
      /\ job'[a].swapped = job[a].swapped /\ job'[a].met = job[a].met
      /\ job'[a].client = None /\ job'[a].state = st
  BY <1>1, <1>4 DEF TypeOK, JobsTypeOK, Job
<1>6. \A b \in App : b # a => job'[b] = job[b]
  BY <1>4 DEF TypeOK, JobsTypeOK
<1> QED
  BY <1>3, <1>5, <1>6 DEF AtMostEnds, Done

\* An application finishes.
LEMMA FinishEnds ==
    ASSUME TypeOK, NEW a \in App, Finish(a)
    PROVE  ClientsStay /\ \A b \in App : AtMostEnds(b)
<1>1. \A b \in App : job[b] \in Job
  BY DEF TypeOK, JobsTypeOK
<1>2. PICK st \in Done : job' = [job EXCEPT ![a].state = st]
  BY DEF Finish, Done
<1>3. \A b \in App : b # a => job'[b] = job[b]
  BY <1>2 DEF TypeOK, JobsTypeOK
<1>4. /\ job'[a].kind = job[a].kind /\ job'[a].rm = job[a].rm
      /\ job'[a].swapped = job[a].swapped /\ job'[a].met = job[a].met
      /\ job'[a].client = job[a].client /\ job'[a].state = st /\ job[a].state = "active"
  BY <1>1, <1>2 DEF TypeOK, JobsTypeOK, Job, Finish, Active
<1> QED
  BY <1>3, <1>4 DEF ClientsStay, AtMostEnds

\* A script is killed: its job, if it has one, loses its client.
LEMMA CrashEnds ==
    ASSUME TypeOK, NEW r \in Runner, Crash(r)
    PROVE  \A a \in App :
        /\ AtMostEnds(a) /\ job'[a].state = job[a].state
        /\ job[a].client # r => job'[a] = job[a]
        /\ job[a].client = r => job'[a].client = None
<1>1. \A b \in App : job[b] \in Job
  BY DEF TypeOK, JobsTypeOK
<1> QED
  BY <1>1 DEF Crash, AtMostEnds, Job

\* A script launches a job that was not used before.
LEMMA LaunchMakes ==
    ASSUME TypeOK, NEW r \in Runner, NEW k \in {"smoke", "observability"},
           NEW a \in App, Launch(r, k, a)
    PROVE  /\ \A b \in App : b # a => job'[b] = job[b]
           /\ job[a].state = "unused" /\ job'[a].state = "launching"
           /\ job'[a].kind = k /\ job'[a].client = r
           /\ job'[a].swapped = job[a].swapped /\ job'[a].met = job[a].met
<1>1. job[a] \in Job
  BY DEF TypeOK, JobsTypeOK
<1> QED
  BY <1>1 DEF Launch, TypeOK, JobsTypeOK, Job

\* YARN accepts an application.
LEMMA SubmitAccepts ==
    ASSUME TypeOK, NEW a \in App, Submit(a)
    PROVE  /\ ClientsStay
           /\ \A b \in App :
                /\ job'[b].kind = job[b].kind /\ job'[b].swapped = job[b].swapped
                /\ b \notin Active \union {a} => job'[b] = job[b]
                /\ b # a => job'[b].state = job[b].state
           /\ job[a].state = "launching" /\ job'[a].state = "active"
           /\ job'[a].met = Active
<1>1. \A b \in App : job[b] \in Job
  BY DEF TypeOK, JobsTypeOK
<1>2. \A b \in App :
          job'[b] = IF b = a THEN [job[a] EXCEPT !.state = "active",
                                        !.rm = container[ResourceManager].startedAt,
                                        !.met = Active]
                    ELSE IF b \in Active THEN [job[b] EXCEPT !.met = @ \union {a}]
                    ELSE job[b]
  BY DEF Submit
<1>3. job[a].state = "launching" /\ a \notin Active
  BY DEF Submit, Launching, Active
<1>4. ASSUME NEW b \in App, b # a
      PROVE  /\ job'[b].kind = job[b].kind /\ job'[b].swapped = job[b].swapped
             /\ job'[b].state = job[b].state /\ job'[b].client = job[b].client
             /\ b \notin Active => job'[b] = job[b]
  <2>1. job'[b] = [job[b] EXCEPT !.met = @ \union {a}] \/ job'[b] = job[b]
    BY <1>2, <1>4
  <2> QED
    BY <1>1, <1>2, <1>4, <2>1 DEF Job
<1>5. /\ job'[a].kind = job[a].kind /\ job'[a].swapped = job[a].swapped
      /\ job'[a].state = "active" /\ job'[a].client = job[a].client
      /\ job'[a].met = Active
  BY <1>1, <1>2 DEF Job
<1> QED
  BY <1>3, <1>4, <1>5 DEF ClientsStay

\* The Docker VM swaps, and the counter shows it.
LEMMA SwapMarks ==
    ASSUME TypeOK, Swap
    PROVE  /\ swaps \in Nat /\ swaps' = swaps + 1
           /\ ClientsStay
           /\ \A a \in App :
                /\ job'[a].kind = job[a].kind /\ job'[a].state = job[a].state
                /\ job'[a].rm = job[a].rm /\ job'[a].met = job[a].met
                /\ a \notin Active => job'[a] = job[a]
<1>1. \A b \in App : job[b] \in Job
  BY DEF TypeOK, JobsTypeOK
<1>2. \A a \in App : job'[a] = IF a \in Active THEN [job[a] EXCEPT !.swapped = TRUE] ELSE job[a]
  BY DEF Swap
<1>3. swaps \in Nat /\ swaps' = swaps + 1
  BY MaxSwapAssumption DEF Swap, TypeOK, JobsTypeOK
<1> QED
  BY <1>1, <1>2, <1>3 DEF ClientsStay, Job

-----------------------------------------------------------------------------
(* Who acts while a script is between the lock and the finally block. *)

\* The others can come and go only.
Outside(r) == StartUnreachable(r) \/ MarkUnreachable(r) \/ Unlock(r) \/ Crash(r)

\* Taking the lock needs it free, and every other step needs to have it.
LEMMA OnlyOutsiders ==
    ASSUME TypeOK, LockInv, NEW r \in Runner, NEW q \in Runner, q # r, pc[q] \in Locked,
           Script(r) \/ Crash(r)
    PROVE  pc[r] \notin Locked /\ Outside(r)
<1>1. lock = q /\ lock # None /\ lock # r /\ pc[r] \notin Locked
  BY NoneAssumption DEF LockInv
<1>2. ASSUME Start(r) PROVE Outside(r)
  <2>1. ~ StartEnter(r)
    BY <1>1 DEF StartEnter, Enter, EnterLock
  <2>2. ~ (StartPreflight(r) \/ StartSession(r) \/ StartActivate(r) \/ StartBaseline(r))
    BY <1>1 DEF StartPreflight, StartSession, StartActivate, StartBaseline, Goto, Locked,
                StartStep
  <2>3. ~ (StartPrepare(r) \/ StartUp(r) \/ StartRecord(r) \/ StartPending(r))
    BY <1>1 DEF StartPrepare, StartUp, StartRecord, StartPending, Goto, Locked, StartStep
  <2> QED
    BY <1>2, <2>1, <2>2, <2>3 DEF Start, Outside
<1>3. ~ Verify(r)
  <2>1. ~ VerifyEnter(r)
    BY <1>1 DEF VerifyEnter, Enter, EnterLock
  <2>2. ~ (\/ VerifyWithoutSession(r) \/ VerifyActivate(r) \/ VerifyLoad(r)
           \/ VerifyBaseline(r) \/ VerifyServices(r) \/ VerifyPre(r))
    BY <1>1 DEF VerifyWithoutSession, VerifyActivate, VerifyLoad, VerifyBaseline,
                VerifyServices, VerifyPre, Goto, Locked, VerifyStep
  <2>3. ~ (VerifyIdle(r) \/ VerifyBefore(r) \/ VerifySmoke(r) \/ SmokeReturns(r))
    BY <1>1 DEF VerifyIdle, VerifyBefore, VerifySmoke, SmokeReturns, Goto, Locked, VerifyStep
  <2>4. ~ (\/ VerifyPost(r) \/ VerifyCorrelate(r) \/ VerifyFinal(r) \/ VerifySnapshot(r)
           \/ VerifyValidate(r) \/ VerifyComplete(r))
    BY <1>1 DEF VerifyPost, VerifyCorrelate, VerifyFinal, VerifySnapshot, VerifyValidate,
                VerifyComplete, Goto, Locked, VerifyStep
  <2> QED
    BY <2>1, <2>2, <2>3, <2>4 DEF Verify
<1>4. ~ (Stop(r) \/ Observe(r))
  BY <1>1 DEF Stop, StopEnter, StopDown, Observe, ObserveEnter, ObserveCheck, ObserveRun,
              ObserveReturns, Enter, EnterLock, Goto, Locked, OtherStep
<1>5. ~ (Throw(r) \/ DiskFault(r) \/ Fail(r))
  BY <1>1 DEF Throw, WithoutSession, BeforeStatusWrite, Throwing, DiskFault, Fail, Goto,
              Locked, StartStep, VerifyStep, OtherStep
<1> QED
  BY <1>1, <1>2, <1>3, <1>4, <1>5 DEF Script, Outside

\* What they leave alone.
OutsiderStep(r) ==
    /\ OthersStay(r)
    /\ \A q \in Runner : q # r => app'[q] = app[q]
    /\ pc[r] \notin Locked /\ pc'[r] \notin Locked
    /\ app'[r] \in {app[r], None}
    /\ UNCHANGED <<active, clusterVars, jobVars, bundleVars>>
    /\ \A s \in Session : appId'[s] \in {appId[s], app[r], None}

\* They have no job, since a job's client waits with the lock.
LEMMA OutsidersStep ==
    ASSUME TypeOK, ClientInv, NEW r \in Runner, Outside(r), pc[r] \notin Locked
    PROVE  OutsiderStep(r)
<1> USE NoneAssumption
    DEF OutsiderStep, OthersStay, Locked, StartStep, VerifyStep, OtherStep, Step, Unlocked,
        recordVars, clusterVars, jobVars, bundleVars, TypeOK, RecordTypeOK
<1>1. CASE StartUnreachable(r)
  BY <1>1, GotoMoves DEF StartUnreachable, NewSession
<1>2. CASE MarkUnreachable(r)
  BY <1>2, GotoMoves DEF MarkUnreachable, SetStatus
<1>3. CASE Unlock(r)
  BY <1>3, GotoMoves DEF Unlock
<1>4. CASE Crash(r)
  <2>1. \A a \in App : job[a].client # r
    BY DEF ClientInv
  <2>2. job' = job
    BY <1>4, <2>1 DEF Crash, JobsTypeOK
  <2> QED
    BY <1>4, <2>2 DEF Crash
<1> QED
  BY <1>1, <1>2, <1>3, <1>4 DEF Outside

-----------------------------------------------------------------------------
(* Decided sessions. *)

\* The documents of a COMPLETE session stay as they are.
DecidedStay ==
    \A s \in CompleteSessions :
        /\ status'[s] = "COMPLETE" /\ appId'[s] = appId[s]
        /\ evidence'[s].started = evidence[s].started

\* A script that works on a session of its own writes to no other.
LEMMA WorksOnOwnDocuments ==
    ASSUME TypeOK, NEW r \in Runner, Works(r)
    PROVE  \A s \in Session : s # sess[r] => appId'[s] = appId[s] /\ evidence'[s] = evidence[s]
<1> USE DEF StillIncomplete, SetStatus, recordVars, bundleVars, TypeOK, RecordTypeOK
<1>1. CASE StartBaseline(r)
  BY <1>1 DEF StartBaseline
<1>2. CASE StartPrepare(r)
  BY <1>2 DEF StartPrepare
<1>3. CASE StartUp(r)
  BY <1>3 DEF StartUp
<1>4. CASE StartRecord(r)
  BY <1>4 DEF StartRecord
<1>5. CASE StartPending(r)
  BY <1>5 DEF StartPending
<1>6. CASE VerifyBaseline(r)
  BY <1>6 DEF VerifyBaseline
<1>7. CASE VerifyServices(r)
  BY <1>7 DEF VerifyServices
<1>8. CASE VerifyPre(r)
  BY <1>8 DEF VerifyPre
<1>9. CASE VerifyIdle(r)
  BY <1>9 DEF VerifyIdle
<1>10. CASE VerifyBefore(r)
  BY <1>10 DEF VerifyBefore
<1>11. CASE VerifySmoke(r)
  BY <1>11 DEF VerifySmoke
<1>12. CASE SmokeReturns(r)
  BY <1>12 DEF SmokeReturns
<1>13. CASE VerifyPost(r)
  BY <1>13 DEF VerifyPost
<1>14. CASE VerifyCorrelate(r)
  BY <1>14 DEF VerifyCorrelate
<1>15. CASE VerifyFinal(r)
  BY <1>15 DEF VerifyFinal
<1>16. CASE VerifySnapshot(r)
  BY <1>16 DEF VerifySnapshot
<1>17. CASE VerifyValidate(r)
  BY <1>17 DEF VerifyValidate
<1>18. CASE VerifyComplete(r)
  BY <1>18 DEF VerifyComplete
<1>19. CASE Fail(r)
  BY <1>19 DEF Fail
<1>20. CASE Throw(r)
  BY <1>20 DEF Throw
<1>21. CASE DiskFault(r)
  BY <1>21 DEF DiskFault
<1> QED
  BY <1>1, <1>2, <1>3, <1>4, <1>5, <1>6, <1>7, <1>8, <1>9, <1>10, <1>11, <1>12,
         <1>13, <1>14, <1>15, <1>16, <1>17, <1>18, <1>19, <1>20, <1>21 DEF Works

\* No script touches a session that is COMPLETE, and only verify.ps1's last
\* step makes one so.
LEMMA ScriptsKeepDecided ==
    ASSUME TypeOK, IInv, NEW r \in Runner, Script(r) \/ Crash(r)
    PROVE  /\ DecidedStay
           /\ ~ VerifyComplete(r) => CompleteSessions' \subseteq CompleteSessions
<1> USE NoneAssumption, SessionAssumption DEF CompleteSessions
<1>1. CASE Works(r)
  <2>1. WorkStep(r) /\ status[sess[r]] # "COMPLETE"
    BY <1>1, WorksOnItsOwn
       DEF IInv, WorkStep, Onward, SessionInv, SessionOf, Owning, Making, Verifying
  <2>2. DecidedStay
    BY <1>1, <2>1, WorksOnOwnDocuments DEF DecidedStay, WorkStep
  <2>3. status'[sess[r]] = "COMPLETE" => VerifyComplete(r)
    <3>1. status'[sess[r]] = "COMPLETE" => pc[r] = "v_complete" /\ pc'[r] = "unlock"
      BY <2>1 DEF WorkStep
    <3>2. pc[r] = "v_complete" /\ pc'[r] = "unlock" => VerifyComplete(r)
      <4>1. CASE DiskFault(r)
        BY <4>1 DEF DiskFault, TypeOK
      <4>2. CASE Throw(r)
        BY <4>2 DEF Throw, WithoutSession, BeforeStatusWrite, Throwing
      <4>3. CASE \/ StartBaseline(r) \/ StartPrepare(r) \/ StartUp(r) \/ StartRecord(r)
                 \/ StartPending(r) \/ VerifyBaseline(r) \/ VerifyServices(r) \/ VerifyPre(r)
                 \/ VerifyIdle(r) \/ VerifyBefore(r) \/ Fail(r)
        BY <4>3 DEF StartBaseline, StartPrepare, StartUp, StartRecord, StartPending,
                    VerifyBaseline, VerifyServices, VerifyPre, VerifyIdle, VerifyBefore,
                    Fail, Goto
      <4>4. CASE \/ VerifySmoke(r) \/ SmokeReturns(r) \/ VerifyPost(r) \/ VerifyCorrelate(r)
                 \/ VerifyFinal(r) \/ VerifySnapshot(r) \/ VerifyValidate(r)
        BY <4>4 DEF VerifySmoke, SmokeReturns, VerifyPost, VerifyCorrelate, VerifyFinal,
                    VerifySnapshot, VerifyValidate, Goto
      <4> QED
        BY <1>1, <4>1, <4>2, <4>3, <4>4 DEF Works
    <3> QED
      BY <3>1, <3>2
  <2> QED
    BY <2>1, <2>2, <2>3 DEF WorkStep
<1>2. CASE Asides(r)
  <2>1. status' = status
    BY <1>2, AsidesLeaveSessions DEF AsideStep, IInv
  <2>2. UNCHANGED <<appId, evidence>>
    BY <1>2
       DEF Asides, StartEnter, VerifyEnter, StopEnter, ObserveEnter, StartPreflight, StopDown,
           ObserveCheck, ObserveRun, ObserveReturns, Unlock, Crash, Throw, WithoutSession,
           BeforeStatusWrite, Throwing, DiskFault, recordVars, bundleVars
  <2> QED
    BY <2>1, <2>2 DEF DecidedStay
<1>3. CASE StartUnreachable(r) \/ StartSession(r) \/ VerifyWithoutSession(r)
  <2>1. PICK s \in Session : NewSession(s)
    BY <1>3 DEF StartUnreachable, StartSession, VerifyWithoutSession
  <2>2. /\ status[s] = "ABSENT" /\ status'[s] = "INCOMPLETE"
        /\ \A t \in Session : t # s => status'[t] = status[t] /\ appId'[t] = appId[t]
    BY <2>1 DEF NewSession, TypeOK, RecordTypeOK
  <2>3. evidence' = evidence
    BY <1>3 DEF StartUnreachable, StartSession, VerifyWithoutSession, bundleVars
  <2> QED
    BY <2>2, <2>3 DEF DecidedStay
<1>4. CASE MarkUnreachable(r)
  <2>1. sess[r] \in Session /\ status[sess[r]] # "COMPLETE"
    BY <1>4 DEF MarkUnreachable, Goto, IInv, SessionInv, SessionOf
  <2>2. /\ \A t \in Session : t # sess[r] => status'[t] = status[t] /\ appId'[t] = appId[t]
        /\ status'[sess[r]] = "FAILED" /\ evidence' = evidence
    BY <1>4, <2>1 DEF MarkUnreachable, SetStatus, TypeOK, RecordTypeOK, bundleVars
  <2> QED
    BY <2>1, <2>2 DEF DecidedStay
<1>5. CASE StartActivate(r) \/ VerifyActivate(r) \/ VerifyLoad(r)
  BY <1>5, SMTT(60) DEF StartActivate, VerifyActivate, VerifyLoad, recordVars, bundleVars, DecidedStay
<1> QED
  BY <1>1, <1>2, <1>3, <1>4, <1>5
     DEF Script, Start, Verify, Stop, Observe, Works, Asides

-----------------------------------------------------------------------------
(* The steps of a script that launch and await nothing. *)

\* What verify.ps1 does between its smoke job and the end.
Evaluates(r) ==
    \/ VerifyPost(r) \/ VerifyCorrelate(r) \/ VerifyFinal(r) \/ VerifySnapshot(r)
    \/ VerifyValidate(r)

\* Jobs at most end, and only a passed check of the active session leads to
\* run-observability-test.ps1's job, only an idle cluster to the smoke job and
\* only a passed smoke job to its evaluation.
QuietStep(r) ==
    /\ OthersStay(r)
    /\ \A q \in Runner : q # r => app'[q] = app[q]
    /\ pc[r] \notin Waiting /\ pc'[r] \notin Waiting
    /\ swaps' = swaps /\ ClientsStay /\ \A a \in App : AtMostEnds(a)
    /\ app'[r] \in {app[r], None}
    /\ \A s \in Session : appId'[s] \in {appId[s], app[r], None}
    /\ \A s \in Session : evidence'[s].swapsBefore \in {evidence[s].swapsBefore, swaps}
    /\ pc'[r] = "o_run" => active' = active /\ active \in CompleteSessions
    /\ pc'[r] = "v_before" => Active = {}
    /\ pc'[r] = "v_smoke" => pc[r] = "v_before"
    /\ pc'[r] \in AfterSmoke => Evaluates(r)

Quiet(r) ==
    \/ StartUnreachable(r) \/ MarkUnreachable(r) \/ StartEnter(r)
    \/ StartPreflight(r) \/ StartSession(r) \/ StartActivate(r)
    \/ StartBaseline(r) \/ StartPrepare(r) \/ StartUp(r) \/ StartRecord(r)
    \/ StartPending(r) \/ VerifyEnter(r) \/ VerifyWithoutSession(r)
    \/ VerifyActivate(r) \/ VerifyLoad(r) \/ VerifyBaseline(r)
    \/ VerifyServices(r) \/ VerifyPre(r) \/ VerifyIdle(r) \/ VerifyBefore(r)
    \/ VerifyPost(r) \/ VerifyCorrelate(r) \/ VerifyFinal(r)
    \/ VerifySnapshot(r) \/ VerifyValidate(r) \/ VerifyComplete(r)
    \/ StopEnter(r) \/ StopDown(r) \/ ObserveEnter(r) \/ ObserveCheck(r)
    \/ Throw(r) \/ DiskFault(r) \/ Fail(r) \/ Unlock(r)

\* Thirty-four kinds of step are of that form.
LEMMA MostAreQuiet ==
    ASSUME TypeOK, SessionInv, NEW r \in Runner, Quiet(r) PROVE QuietStep(r)
<1> USE NoneAssumption
    DEF QuietStep, Evaluates, OthersStay, TypeOK, RecordTypeOK, Waiting, Step, StartStep, VerifyStep,
        OtherStep, Unlocked, AfterSmoke, AfterPost, Active, recordVars, bundleVars, jobVars
<1>1. CASE StartUnreachable(r)
  BY <1>1, GotoMoves, SameJobs DEF StartUnreachable, NewSession
<1>2. CASE MarkUnreachable(r)
  BY <1>2, GotoMoves, SameJobs DEF MarkUnreachable, SetStatus
<1>3. CASE StartEnter(r)
  BY <1>3, GotoMoves, SameJobs DEF StartEnter, Enter
<1>4. CASE StartPreflight(r)
  BY <1>4, GotoMoves, SameJobs DEF StartPreflight
<1>5. CASE StartSession(r)
  BY <1>5, GotoMoves, SameJobs DEF StartSession, NewSession
<1>6. CASE StartActivate(r)
  BY <1>6, GotoMoves, SameJobs DEF StartActivate
<1>7. CASE StartBaseline(r)
  BY <1>7, GotoMoves, SameJobs DEF StartBaseline, StillIncomplete, SetStatus,
         Evidence
<1>8. CASE StartPrepare(r)
  BY <1>8, GotoMoves, SameJobs DEF StartPrepare, StillIncomplete, SetStatus
<1>9. CASE StartUp(r)
  BY <1>9, GotoMoves, LosingEnds DEF StartUp, StillIncomplete, SetStatus
<1>10. CASE StartRecord(r)
  BY <1>10, GotoMoves, SameJobs DEF StartRecord, Evidence
<1>11. CASE StartPending(r)
  BY <1>11, GotoMoves, SameJobs DEF StartPending, StillIncomplete, SetStatus
<1>12. CASE VerifyEnter(r)
  BY <1>12, GotoMoves, SameJobs DEF VerifyEnter, Enter
<1>13. CASE VerifyWithoutSession(r)
  BY <1>13, GotoMoves, SameJobs DEF VerifyWithoutSession, NewSession
<1>14. CASE VerifyActivate(r)
  BY <1>14, GotoMoves, SameJobs DEF VerifyActivate
<1>15. CASE VerifyLoad(r)
  BY <1>15, GotoMoves, SameJobs DEF VerifyLoad
<1>16. CASE VerifyBaseline(r)
  BY <1>16, GotoMoves, SameJobs DEF VerifyBaseline
<1>17. CASE VerifyServices(r)
  BY <1>17, GotoMoves, SameJobs DEF VerifyServices, StillIncomplete, SetStatus
<1>18. CASE VerifyPre(r)
  BY <1>18, GotoMoves, SameJobs DEF VerifyPre, StillIncomplete, SetStatus,
         Evidence
<1>19. CASE VerifyIdle(r)
  BY <1>19, GotoMoves, SameJobs DEF VerifyIdle, StillIncomplete, SetStatus
<1>20. CASE VerifyBefore(r)
  BY <1>20, GotoMoves, SameJobs DEF VerifyBefore, StillIncomplete, SetStatus,
         Evidence
<1>21. CASE VerifyPost(r)
  BY <1>21, GotoMoves, SameJobs DEF VerifyPost, StillIncomplete, SetStatus,
         Evidence
<1>22. CASE VerifyCorrelate(r)
  BY <1>22, GotoMoves, SameJobs DEF VerifyCorrelate, StillIncomplete, SetStatus,
         Evidence
<1>23. CASE VerifyFinal(r)
  BY <1>23, GotoMoves, SameJobs DEF VerifyFinal, StillIncomplete, SetStatus,
         Evidence
<1>24. CASE VerifySnapshot(r)
  BY <1>24, GotoMoves, SameJobs DEF VerifySnapshot, StillIncomplete, SetStatus,
         Evidence
<1>25. CASE VerifyValidate(r)
  BY <1>25, GotoMoves, SameJobs DEF VerifyValidate, StillIncomplete, SetStatus
<1>26. CASE VerifyComplete(r)
  BY <1>26, GotoMoves, SameJobs DEF VerifyComplete, SetStatus
<1>27. CASE StopEnter(r)
  BY <1>27, GotoMoves, SameJobs DEF StopEnter, Enter
<1>28. CASE StopDown(r)
  BY <1>28, GotoMoves, LosingEnds DEF StopDown
<1>29. CASE ObserveEnter(r)
  BY <1>29, GotoMoves, SameJobs DEF ObserveEnter, Enter
<1>30. CASE ObserveCheck(r)
  BY <1>30, GotoMoves, SameJobs DEF ObserveCheck, CompleteSessions
<1>31. CASE Throw(r)
  BY <1>31, SameJobs DEF Throw, StillIncomplete, SetStatus, WithoutSession,
         BeforeStatusWrite, Throwing
<1>32. CASE DiskFault(r)
  BY <1>32, SameJobs DEF DiskFault
<1>33. CASE Fail(r)
  BY <1>33, GotoMoves, SameJobs DEF Fail, SetStatus
<1>34. CASE Unlock(r)
  BY <1>34, GotoMoves, SameJobs DEF Unlock
<1> QED
  BY <1>1, <1>2, <1>3, <1>4, <1>5, <1>6, <1>7, <1>8, <1>9, <1>10, <1>11, <1>12,
         <1>13, <1>14, <1>15, <1>16, <1>17, <1>18, <1>19, <1>20, <1>21, <1>22,
         <1>23, <1>24, <1>25, <1>26, <1>27, <1>28, <1>29, <1>30, <1>31, <1>32,
         <1>33, <1>34 DEF Quiet

-----------------------------------------------------------------------------
(* The other steps. *)

\* verify.ps1 and run-observability-test.ps1 launch a job.
LaunchStep(r, k, a) ==
    /\ OthersStay(r)
    /\ pc[r] = (IF k = "smoke" THEN "v_smoke" ELSE "o_run")
    /\ pc'[r] = (IF k = "smoke" THEN "v_wait" ELSE "o_wait")
    /\ UNCHANGED <<sess, app, active, swaps, bundleVars, clusterVars>>
    /\ \A s \in Session : appId'[s] \in {appId[s], app[r]}
    /\ job[a].state = "unused" /\ job'[a].state = "launching"
    /\ job'[a].kind = k /\ job'[a].client = r
    /\ job'[a].swapped = job[a].swapped /\ job'[a].met = job[a].met
    /\ \A b \in App : b # a => job'[b] = job[b]

\* The two steps are of that form.
LEMMA LaunchesStep ==
    ASSUME TypeOK, NEW r \in Runner, VerifySmoke(r) \/ ObserveRun(r)
    PROVE  \E a \in App, k \in {"smoke", "observability"} : LaunchStep(r, k, a)
<1> USE DEF LaunchStep, OthersStay, TypeOK, RecordTypeOK, Step, VerifyStep, OtherStep
<1>1. CASE VerifySmoke(r)
  <2>1. PICK a \in App : Launch(r, "smoke", a)
    BY <1>1 DEF VerifySmoke
  <2>2. LaunchStep(r, "smoke", a)
    BY <1>1, <2>1, GotoMoves, LaunchMakes DEF VerifySmoke, StillIncomplete, SetStatus
  <2> QED
    BY <2>2
<1>2. CASE ObserveRun(r)
  <2>1. PICK a \in App : Launch(r, "observability", a)
    BY <1>2 DEF ObserveRun
  <2>2. LaunchStep(r, "observability", a)
    BY <1>2, <2>1, GotoMoves, LaunchMakes DEF ObserveRun, recordVars
  <2> QED
    BY <2>2
<1> QED
  BY <1>1, <1>2

\* Their job's container returns; a smoke job may have passed, and its
\* application may be recorded.
ReturnStep(r, a) ==
    /\ OthersStay(r)
    /\ pc[r] \in Waiting /\ pc'[r] \in {"v_post", "fail", "unlock"}
    /\ \A q \in Runner : q # r => app'[q] = app[q]
    /\ UNCHANGED <<sess, active, swaps, bundleVars, clusterVars>>
    /\ app'[r] \in {app[r], a}
    /\ \A s \in Session : appId'[s] \in {appId[s], a}
    /\ pc[r] = "o_wait" => app' = app /\ appId' = appId
    /\ pc'[r] = "v_post" => pc[r] = "v_wait" /\ app'[r] = a /\ job'[a].state = "succeeded"
    /\ job[a].client = r /\ job'[a].client = None /\ job'[a].state # "launching"
    /\ \A b \in App : AtMostEnds(b) /\ (b # a => job'[b] = job[b])

\* The two steps are of that form.
LEMMA ReturnsStep ==
    ASSUME TypeOK, NEW r \in Runner, SmokeReturns(r) \/ ObserveReturns(r)
    PROVE  \E a \in App : ReturnStep(r, a)
<1> USE NoneAssumption
    DEF ReturnStep, OthersStay, Waiting, TypeOK, RecordTypeOK, Step, VerifyStep, OtherStep, Done
<1>1. CASE SmokeReturns(r)
  <2>1. PICK a \in App, observed \in BOOLEAN, pass \in BOOLEAN :
            /\ job[a].client = r
            /\ pass => observed /\ job[a].state = "succeeded"
            /\ Goto(r, "v_wait", IF pass THEN "v_post" ELSE "fail")
            /\ ContainerEnds(a)
            /\ IF observed
               THEN app' = [app EXCEPT ![r] = a] /\ SetStatus(sess[r], "INCOMPLETE", a)
               ELSE UNCHANGED <<app, status, appId>>
    BY <1>1 DEF SmokeReturns
  <2>2. /\ pc[r] = "v_wait" /\ pc'[r] \in {"v_post", "fail"} /\ pc' \in [Runner -> Step]
        /\ pc'[r] = "v_post" => pass
        /\ \A q \in Runner : q # r => pc'[q] = pc[q]
    BY <2>1, GotoMoves
  <2>3. /\ \A q \in Runner : q # r => app'[q] = app[q]
        /\ app'[r] \in {app[r], a} /\ (pass => app'[r] = a)
        /\ \A s \in Session : appId'[s] \in {appId[s], a}
    BY <2>1 DEF SetStatus
  <2>4. UNCHANGED <<sess, active, swaps, bundleVars, clusterVars>>
    BY <1>1 DEF SmokeReturns
  <2>5. ReturnStep(r, a)
    BY <2>1, <2>2, <2>3, <2>4, EndEnds
  <2> QED
    BY <2>5
<1>2. CASE ObserveReturns(r)
  <2>1. PICK a \in App : job[a].client = r /\ ContainerEnds(a)
    BY <1>2 DEF ObserveReturns
  <2>2. ReturnStep(r, a)
    BY <1>2, <2>1, GotoMoves, EndEnds DEF ObserveReturns, recordVars
  <2> QED
    BY <2>2
<1> QED
  BY <1>1, <1>2

\* What the environment does to the jobs and the containers: jobs end, one is
\* accepted, or the Docker VM swaps; a container's start time does not go back.
Accepts ==
    /\ swaps' = swaps /\ ClientsStay
    /\ \E a \in App :
        /\ job[a].state = "launching" /\ job'[a].state = "active"
        /\ job'[a].kind = job[a].kind /\ job'[a].swapped = job[a].swapped
        /\ job'[a].met = Active
        /\ \A b \in App : b # a =>
             /\ job'[b].kind = job[b].kind /\ job'[b].swapped = job[b].swapped
             /\ job'[b].state = job[b].state
             /\ b \notin Active => job'[b] = job[b]

Swaps ==
    /\ swaps \in Nat /\ swaps' = swaps + 1 /\ ClientsStay
    /\ \A a \in App :
        /\ job'[a].kind = job[a].kind /\ job'[a].state = job[a].state
        /\ job'[a].rm = job[a].rm /\ job'[a].met = job[a].met
        /\ a \notin Active => job'[a] = job[a]

EnvironmentStep ==
    /\ UNCHANGED <<lock, recordVars, runnerVars, bundleVars>>
    /\ container[ResourceManager].startedAt <= container'[ResourceManager].startedAt
    /\ \/ Accepts
       \/ Swaps
       \/ swaps' = swaps /\ \A a \in App : AtMostEnds(a)
                        /\ (job[a].client # None => job'[a].client = job[a].client)

\* The environment's steps are of that form.
LEMMA EnvironmentSteps ==
    ASSUME TypeOK, ClockInv, OrphanEnds \/ ContainerEvent \/ JobEvent PROVE EnvironmentStep
<1> USE DEF EnvironmentStep
<1>0. /\ container[ResourceManager].startedAt \in Nat /\ clock \in Nat
      /\ container[ResourceManager].startedAt <= container[ResourceManager].startedAt
      /\ ResourceManager \in Service
  BY ServiceAssumption, MaxStampAssumption DEF TypeOK, ClusterTypeOK, Container, Stamp
<1>1. CASE OrphanEnds
  <2>1. PICK a \in Launching : job[a].client = None /\ ContainerEnds(a)
    BY <1>1 DEF OrphanEnds
  <2>2. a \in App
    BY DEF Launching
  <2> QED
    BY <1>0, <1>1, <2>1, <2>2, EndEnds DEF OrphanEnds, clusterVars
<1>2. CASE JobEvent
  <2>1. container' = container
    BY <1>2 DEF JobEvent, Submit, Finish, Swap
  <2>2. ASSUME NEW a \in App, Submit(a) PROVE Accepts
    BY <2>2, SubmitAccepts DEF Submit, Accepts
  <2>3. ASSUME NEW a \in App, Finish(a)
        PROVE  swaps' = swaps /\ ClientsStay /\ \A b \in App : AtMostEnds(b)
    BY <2>3, FinishEnds DEF Finish
  <2>4. ASSUME Swap PROVE Swaps
    BY <2>4, SwapMarks DEF Swaps
  <2> QED
    BY <1>0, <1>2, <2>1, <2>2, <2>3, <2>4, SMTT(60) DEF JobEvent, ClientsStay
<1>3. CASE ContainerEvent
  <2>1. Survives /\ ClusterStep
    BY <1>3, DieSteps, RestartSteps DEF ContainerEvent
  <2>2. ClientsStay /\ \A a \in App : AtMostEnds(a)
    BY <1>3, LosingEnds DEF ContainerEvent
  <2>3. \/ container'[ResourceManager].startedAt = container[ResourceManager].startedAt
        \/ container'[ResourceManager].startedAt = clock' /\ clock < clock'
    BY <1>0, <2>1 DEF Survives, Same, Anew
  <2>4. container[ResourceManager].startedAt <= clock /\ clock' \in Nat
    BY <1>0, <2>1, MaxStampAssumption DEF ClockInv, ClusterStep, Stamp
  <2>5. container[ResourceManager].startedAt <= container'[ResourceManager].startedAt
    BY <1>0, <2>3, <2>4
  <2> QED
    BY <1>3, <2>2, <2>5 DEF ContainerEvent, ClientsStay
<1> QED
  BY <1>1, <1>2, <1>3

-----------------------------------------------------------------------------
(* The invariant about jobs, part by part. *)

\* No script but r is between the lock and the finally block.
Alone(r) == \A q \in Runner : q # r => pc[q] \notin Locked

\* The kinds of step that the rest of the proof distinguishes.
ScriptStepKinds(r) ==
    \/ OutsiderStep(r)
    \/ /\ Alone(r)
       /\ \/ Quiet(r) /\ QuietStep(r)
          \/ Crash(r)
          \/ \E a \in App, k \in {"smoke", "observability"} : LaunchStep(r, k, a)
          \/ \E a \in App : ReturnStep(r, a)

\* Every step of a script is of one of them.
LEMMA ScriptSteps ==
    ASSUME TypeOK, IInv, ClientInv, NEW r \in Runner, Script(r) \/ Crash(r)
    PROVE  ScriptStepKinds(r)
<1>1. CASE \E q \in Runner : q # r /\ pc[q] \in Locked
  BY <1>1, OnlyOutsiders, OutsidersStep DEF IInv, ScriptStepKinds
<1>2. CASE Alone(r)
  <2>1. \/ Quiet(r) \/ Crash(r) \/ VerifySmoke(r) \/ ObserveRun(r)
        \/ SmokeReturns(r) \/ ObserveReturns(r)
    BY DEF Script, Start, Verify, Stop, Observe, Quiet
  <2> QED
    BY <1>2, <2>1, MostAreQuiet, LaunchesStep, ReturnsStep DEF IInv, ScriptStepKinds
<1> QED
  BY <1>1, <1>2 DEF Alone

\* What the environment and a step that changes nothing do.
LEMMA OtherSteps ==
    ASSUME TypeOK, IInv, OrphanEnds \/ ContainerEvent \/ JobEvent \/ UNCHANGED vars
    PROVE  EnvironmentStep
<1>1. ASSUME UNCHANGED vars PROVE EnvironmentStep
  <2>1. container[ResourceManager].startedAt <= container[ResourceManager].startedAt
    BY ServiceAssumption, MaxStampAssumption DEF TypeOK, ClusterTypeOK, Container, Stamp
  <2> QED
    BY <1>1, <2>1, SameJobs
       DEF vars, recordVars, clusterVars, jobVars, runnerVars, bundleVars, EnvironmentStep,
           ClientsStay
<1> QED
  BY <1>1, EnvironmentSteps DEF IInv, RuntimeInv

\* With nobody else between the lock and the finally block, and r not waiting,
\* no job has a client.
LEMMA NoClients ==
    ASSUME ClientInv, NEW r \in Runner, Alone(r), pc[r] \notin Waiting, TypeOK
    PROVE  \A a \in App : job[a].client = None
BY DEF ClientInv, Alone, Waiting, Locked, VerifyStep, OtherStep, TypeOK, JobsTypeOK, Job

\* A client waits for its job, whatever happens.
LEMMA ClientStep ==
    ASSUME TypeOK, TypeOK', IInv, ClientInv, [Next]_vars PROVE ClientInv'
<1> USE NoneAssumption
<1>1. ASSUME NEW r \in Runner, Script(r) \/ Crash(r) PROVE ClientInv'
  <2>1. CASE OutsiderStep(r)
    <3>1. job' = job /\ \A q \in Runner : q # r => pc'[q] = pc[q]
      BY <2>1 DEF OutsiderStep, OthersStay, jobVars
    <3>2. \A a \in App : job[a].client # None => job[a].client \in Runner \ {r}
      BY <2>1
         DEF OutsiderStep, ClientInv, Locked, VerifyStep, OtherStep, TypeOK, JobsTypeOK, Job
    <3> QED
      BY <3>1, <3>2 DEF ClientInv
  <2>2. CASE Alone(r) /\ QuietStep(r)
    BY <2>2, NoClients DEF QuietStep, ClientsStay, ClientInv
  <2>3. CASE Alone(r) /\ Crash(r)
    <3>1. \A a \in App : job[a].client \in {r, None}
      BY <2>3
         DEF ClientInv, Alone, Locked, VerifyStep, OtherStep, TypeOK, JobsTypeOK, Job
    <3> QED
      BY <2>3, <3>1, CrashEnds DEF ClientInv
  <2>4. ASSUME NEW a \in App, NEW k \in {"smoke", "observability"}, Alone(r),
               LaunchStep(r, k, a)
        PROVE  ClientInv'
    BY <2>4, NoClients DEF LaunchStep, Waiting, ClientInv
  <2>5. ASSUME NEW a \in App, Alone(r), ReturnStep(r, a) PROVE ClientInv'
    <3>1. \A b \in App : job'[b].client = None
      BY <2>5
         DEF ReturnStep, ClientInv, Alone, Locked, VerifyStep, OtherStep, TypeOK,
             JobsTypeOK, Job
    <3> QED
      BY <3>1 DEF ClientInv
  <2> QED
    BY <1>1, <2>1, <2>2, <2>3, <2>4, <2>5, ScriptSteps DEF ScriptStepKinds
<1>2. CASE OrphanEnds \/ ContainerEvent \/ JobEvent \/ UNCHANGED vars
  <2>1. EnvironmentStep
    BY <1>2, OtherSteps
  <2>2. \A a \in App :
          /\ job'[a].client \in {job[a].client, None}
          /\ job'[a].kind = job[a].kind
          /\ job[a].state # "unused" => job'[a].state # "unused"
    BY <2>1 DEF EnvironmentStep, Accepts, Swaps, AtMostEnds, ClientsStay, Done
  <2>3. pc' = pc
    BY <2>1 DEF EnvironmentStep, runnerVars
  <2> QED
    BY <2>2, <2>3 DEF ClientInv
<1> QED
  BY <1>1, <1>2 DEF Next, Environment

\* Only smoke jobs get into a status document.
LEMMA NameStep ==
    ASSUME TypeOK, TypeOK', IInv, ClientInv, NameInv, [Next]_vars PROVE NameInv'
<1> USE NoneAssumption
<1>1. ASSUME NEW r \in Runner, Script(r) \/ Crash(r) PROVE NameInv'
  <2>1. CASE OutsiderStep(r)
    BY <2>1 DEF OutsiderStep, jobVars, NameInv
  <2>2. CASE Quiet(r) /\ QuietStep(r)
    BY <2>2 DEF QuietStep, AtMostEnds, NameInv, Done
  <2>3. CASE Crash(r)
    <3>1. app'[r] = None /\ appId' = appId /\ \A q \in Runner : q # r => app'[q] = app[q]
      BY <2>3 DEF Crash, recordVars, TypeOK
    <3> QED
      BY <2>3, <3>1, CrashEnds DEF AtMostEnds, NameInv
  <2>4. ASSUME NEW a \in App, NEW k \in {"smoke", "observability"}, LaunchStep(r, k, a)
        PROVE  NameInv'
    BY <2>4 DEF LaunchStep, NameInv
  <2>5. ASSUME NEW a \in App, ReturnStep(r, a) PROVE NameInv'
    <3>1. pc[r] = "v_wait" => job[a].kind = "smoke" /\ job[a].state # "unused"
      BY <2>5 DEF ReturnStep, ClientInv
    <3>2. \A b \in App :
            /\ job'[b].kind = job[b].kind
            /\ job[b].state # "unused" => job'[b].state # "unused"
      BY <2>5 DEF ReturnStep, AtMostEnds, Done
    <3>3. /\ \A q \in Runner : app'[q] \in {app[q], a}
          /\ \A s \in Session : appId'[s] \in {appId[s], a}
          /\ pc[r] = "o_wait" => app' = app /\ appId' = appId
          /\ pc[r] \in {"v_wait", "o_wait"}
      BY <2>5 DEF ReturnStep, Waiting
    <3> QED
      BY <3>1, <3>2, <3>3 DEF NameInv
  <2> QED
    BY <1>1, <2>1, <2>2, <2>3, <2>4, <2>5, ScriptSteps DEF ScriptStepKinds
<1>2. CASE OrphanEnds \/ ContainerEvent \/ JobEvent \/ UNCHANGED vars
  <2>1. EnvironmentStep
    BY <1>2, OtherSteps
  <2>2. \A a \in App :
          /\ job'[a].kind = job[a].kind
          /\ job[a].state # "unused" => job'[a].state # "unused"
    BY <2>1 DEF EnvironmentStep, Accepts, Swaps, AtMostEnds, Done
  <2>3. UNCHANGED <<app, appId>>
    BY <2>1 DEF EnvironmentStep, runnerVars, recordVars
  <2> QED
    BY <2>2, <2>3 DEF NameInv
<1> QED
  BY <1>1, <1>2 DEF Next, Environment

\* run-observability-test.ps1 holds the lock, so the session it has found
\* COMPLETE stays the active one.
LEMMA ObserveStep ==
    ASSUME TypeOK, IInv, ClientInv, ObserveInv, [Next]_vars PROVE ObserveInv'
<1>1. ASSUME NEW r \in Runner, Script(r) \/ Crash(r) PROVE ObserveInv'
  <2>1. \A s \in CompleteSessions : s \in CompleteSessions'
    BY <1>1, ScriptsKeepDecided DEF DecidedStay, CompleteSessions
  <2>2. CASE OutsiderStep(r)
    BY <2>1, <2>2 DEF OutsiderStep, OthersStay, ObserveInv, Locked, OtherStep
  <2>3. CASE Alone(r) /\ QuietStep(r)
    BY <2>1, <2>3
       DEF QuietStep, OthersStay, Alone, ObserveInv, Locked, OtherStep, Waiting
  <2>4. CASE Alone(r) /\ Crash(r)
    BY <2>4 DEF Crash, Alone, ObserveInv, Locked, OtherStep, TypeOK
  <2>5. ASSUME NEW a \in App, NEW k \in {"smoke", "observability"}, Alone(r),
               LaunchStep(r, k, a)
        PROVE  ObserveInv'
    BY <2>1, <2>5 DEF LaunchStep, OthersStay, Alone, ObserveInv, Locked, OtherStep
  <2>6. ASSUME NEW a \in App, Alone(r), ReturnStep(r, a) PROVE ObserveInv'
    BY <2>6 DEF ReturnStep, OthersStay, Alone, ObserveInv, Locked, OtherStep
  <2> QED
    BY <1>1, <2>2, <2>3, <2>4, <2>5, <2>6, ScriptSteps DEF ScriptStepKinds
<1>2. CASE OrphanEnds \/ ContainerEvent \/ JobEvent \/ UNCHANGED vars
  BY <1>2, OtherSteps
     DEF EnvironmentStep, recordVars, runnerVars, ObserveInv, CompleteSessions
<1> QED
  BY <1>1, <1>2 DEF Next, Environment

\* The script that waits for a job works on a session.
LEMMA ClientHasSession ==
    ASSUME TypeOK, SessionInv, ClientInv, NEW a \in App,
           job[a].client # None, job[a].kind = "smoke"
    PROVE  /\ job[a].client \in Runner /\ pc[job[a].client] = "v_wait"
           /\ sess[job[a].client] \in Session
<1>1. job[a].client \in Runner /\ pc[job[a].client] = "v_wait"
  BY DEF ClientInv, TypeOK, JobsTypeOK, Job
<1> QED
  BY <1>1 DEF SessionInv, SessionOf, Verifying

\* A swap that an application lives through shows in the counter afterwards.
LEMMA SwapStep ==
    ASSUME TypeOK, TypeOK', IInv, ClientInv, SwapInv, [Next]_vars PROVE SwapInv'
<1> USE NoneAssumption
<1>0. /\ swaps \in Nat
      /\ \A s \in Session : evidence[s].swapsBefore \in Nat
  BY MaxSwapAssumption DEF TypeOK, JobsTypeOK, Evidence
<1>1. ASSUME NEW r \in Runner, Script(r) \/ Crash(r) PROVE SwapInv'
  <2>1. CASE OutsiderStep(r)
    <3>1. UNCHANGED <<job, swaps, evidence>> /\ \A q \in Runner : q # r => sess'[q] = sess[q]
      BY <2>1 DEF OutsiderStep, OthersStay, jobVars, bundleVars
    <3>2. \A a \in App : job[a].client # None /\ job[a].kind = "smoke" => job[a].client # r
      BY <2>1, ClientHasSession DEF OutsiderStep, Locked, VerifyStep, IInv
    <3>3. \A a \in App : job[a].client # None /\ job[a].kind = "smoke" =>
              sess'[job[a].client] = sess[job[a].client]
      BY <3>1, <3>2, ClientHasSession DEF IInv
    <3> QED
      BY <3>1, <3>3 DEF SwapInv
  <2>2. CASE Alone(r) /\ QuietStep(r)
    <3>1. \A a \in App : job[a].client = None /\ job'[a].client = None
      BY <2>2, NoClients DEF QuietStep, ClientsStay
    <3>2. \A a \in App : job'[a].swapped => job'[a].state \notin {"unused", "launching"}
      BY <2>2 DEF QuietStep, AtMostEnds, SwapInv, Done
    <3>3. \A s \in Session : evidence'[s].swapsBefore <= swaps'
      BY <1>0, <2>2 DEF QuietStep, SwapInv
    <3> QED
      BY <3>1, <3>2, <3>3 DEF SwapInv
  <2>3. CASE Alone(r) /\ Crash(r)
    <3>1. \A a \in App : job'[a].client = None
      BY <2>3, CrashEnds
         DEF ClientInv, Alone, Locked, VerifyStep, OtherStep, TypeOK, JobsTypeOK, Job
    <3>2. UNCHANGED <<swaps, evidence>>
      BY <2>3 DEF Crash, bundleVars
    <3> QED
      BY <2>3, <3>1, <3>2, CrashEnds DEF SwapInv, AtMostEnds
  <2>4. ASSUME NEW a \in App, NEW k \in {"smoke", "observability"}, Alone(r),
               LaunchStep(r, k, a)
        PROVE  SwapInv'
    <3>1. UNCHANGED <<sess, swaps, evidence>>
      BY <2>4 DEF LaunchStep, bundleVars
    <3>2. ~ job'[a].swapped /\ \A b \in App : b # a => job'[b] = job[b]
      BY <2>4 DEF LaunchStep, SwapInv
    <3> QED
      BY <3>1, <3>2 DEF SwapInv
  <2>5. ASSUME NEW a \in App, Alone(r), ReturnStep(r, a) PROVE SwapInv'
    <3>1. UNCHANGED <<sess, swaps, evidence>>
      BY <2>5 DEF ReturnStep, bundleVars
    <3>2. /\ \A b \in App : b # a => job'[b] = job[b]
          /\ job'[a].client = None /\ job'[a].swapped = job[a].swapped
          /\ job'[a].state = job[a].state \/ job'[a].state \in Done
      BY <2>5 DEF ReturnStep, AtMostEnds
    <3> QED
      BY <3>1, <3>2 DEF SwapInv, Done
  <2> QED
    BY <1>1, <2>1, <2>2, <2>3, <2>4, <2>5, ScriptSteps DEF ScriptStepKinds
<1>2. CASE OrphanEnds \/ ContainerEvent \/ JobEvent \/ UNCHANGED vars
  <2>1. EnvironmentStep /\ UNCHANGED <<sess, evidence>>
    BY <1>2, OtherSteps DEF EnvironmentStep, runnerVars, bundleVars
  <2>2. CASE Accepts
    BY <2>1, <2>2 DEF Accepts, ClientsStay, SwapInv
  <2>3. CASE Swaps
    <3>1. \A s \in Session : evidence'[s].swapsBefore < swaps'
      BY <1>0, <2>1, <2>3 DEF Swaps, SwapInv
    <3>2. \A a \in App : job'[a].swapped => job'[a].state \notin {"unused", "launching"}
      BY <2>3 DEF Swaps, SwapInv, Active
    <3>3. \A a \in App : job'[a].client # None /\ job'[a].kind = "smoke" =>
              sess'[job'[a].client] \in Session
      BY <2>1, <2>3, ClientHasSession DEF Swaps, ClientsStay, IInv
    <3>4. \A s \in Session : evidence'[s].swapsBefore <= swaps'
      BY <1>0, <2>1, <2>3 DEF Swaps, SwapInv
    <3> QED
      BY <3>1, <3>2, <3>3, <3>4 DEF SwapInv
  <2>4. CASE swaps' = swaps /\ \A a \in App : AtMostEnds(a)
                  /\ (job[a].client # None => job'[a].client = job[a].client)
    BY <2>1, <2>4 DEF AtMostEnds, Done, SwapInv
  <2> QED
    BY <2>1, <2>2, <2>3, <2>4 DEF EnvironmentStep
<1> QED
  BY <1>1, <1>2 DEF Next, Environment

\* A job that is done is done.
LEMMA DoneStays ==
    ASSUME TypeOK, IInv, ClientInv, [Next]_vars, NEW a \in App, job[a].state \in Done
    PROVE  /\ job'[a].state = job[a].state /\ job'[a].kind = job[a].kind
           /\ job'[a].rm = job[a].rm /\ job'[a].swapped = job[a].swapped
           /\ job'[a].met = job[a].met
<1>1. ASSUME NEW r \in Runner, Script(r) \/ Crash(r)
      PROVE  AtMostEnds(a) \/ job'[a] = job[a]
  BY <1>1, ScriptSteps, CrashEnds
     DEF ScriptStepKinds, OutsiderStep, jobVars, QuietStep, LaunchStep, ReturnStep, Done
<1>2. ASSUME OrphanEnds \/ ContainerEvent \/ JobEvent \/ UNCHANGED vars
      PROVE  AtMostEnds(a) \/ job'[a] = job[a]
  BY <1>2, OtherSteps DEF EnvironmentStep, Accepts, Swaps, Active, Done
<1> QED
  BY <1>1, <1>2 DEF Next, Environment, AtMostEnds, Done

-----------------------------------------------------------------------------
(* The smoke application of a verification. *)

\* The numbers that are compared are numbers.
LEMMA StampTypes ==
    ASSUME TypeOK
    PROVE  /\ container[ResourceManager].startedAt \in Nat /\ swaps \in Nat
           /\ \A s \in Session : /\ evidence[s].started[ResourceManager][2] \in Nat
                                 /\ evidence[s].swapsBefore \in Nat
           /\ \A a \in App : job[a].rm \in Nat
BY ServiceAssumption, MaxStampAssumption, MaxSwapAssumption
   DEF TypeOK, ClusterTypeOK, Container, Stamp, JobsTypeOK, Job, Evidence, Identities

\* Each step of verify.ps1 after the smoke job adds what it has looked at: the
\* containers and the swap counter, then the application at the
\* ResourceManager, then the containers again.
LEMMA EvaluationStep ==
    ASSUME TypeOK, TypeOK', IInv, IInv', NEW r \in Runner, Evaluates(r), QuietStep(r), SmokeOf(r)
    PROVE  SmokeOf(r)'
<1> USE NoneAssumption DEF AfterSmoke, AfterPost, AfterFinal
<1>1. /\ pc[r] \in AfterSmoke
      /\ UNCHANGED <<sess, app, job, swaps, container>>
      /\ pc'[r] \in AfterSmoke => pc'[r] \in AfterPost
  BY GotoMoves
     DEF Evaluates, VerifyPost, VerifyCorrelate, VerifyFinal, VerifySnapshot, VerifyValidate,
         Step, VerifyStep, jobVars, clusterVars
<1>2. sess[r] \in Session /\ app[r] \in App
  BY <1>1 DEF IInv, SessionInv, SessionOf, Verifying, SmokeOf, TypeOK
<1>3. job'[app'[r]] = job[app[r]] /\ job[app[r]].state = "succeeded" /\ job[app[r]].kind = "smoke"
      /\ app[r] # None
  BY <1>1 DEF SmokeOf
<1>4. evidence'[sess[r]].started = evidence[sess[r]].started
  BY <1>2
     DEF Evaluates, VerifyPost, VerifyCorrelate, VerifyFinal, VerifySnapshot, VerifyValidate,
         bundleVars, TypeOK, Evidence
<1> DEFINE known == evidence[sess[r]].started[ResourceManager][2]
           up == container[ResourceManager].startedAt
<1>5. known \in Nat /\ up \in Nat /\ job[app[r]].rm \in Nat
  BY <1>2, StampTypes
<1>6. Identity[ResourceManager][2] = up
  BY ServiceAssumption DEF Identity
<1>7. CASE VerifyPost(r)
  <2>1. pc[r] = "v_post" /\ (pc'[r] \in AfterSmoke => pc'[r] = "v_correlate")
    BY <1>7, GotoMoves DEF VerifyPost, Step, VerifyStep
  <2>2. evidence'[sess[r]].swapDetected = (swaps > evidence[sess[r]].swapsBefore)
    BY <1>2, <1>7 DEF VerifyPost, TypeOK, Evidence
  <2>3. job[app[r]].swapped => evidence'[sess[r]].swapDetected
    BY <1>2, <2>1, <2>2, StampTypes DEF SmokeOf
  <2>4. pc'[r] = "v_correlate" => Identity = evidence[sess[r]].started
    BY <1>7, <2>1 DEF VerifyPost, Goto, IInv, BundleInv, Compared, AfterPre, Verifying, TypeOK
  <2>5. pc'[r] = "v_correlate" => known <= up
    BY <1>5, <1>6, <2>4
  <2> QED
    BY <1>1, <1>3, <1>4, <2>1, <2>3, <2>5 DEF SmokeOf
<1>8. CASE VerifyCorrelate(r)
  <2>1. pc[r] = "v_correlate" /\ pc'[r] = "v_final" /\ job[app[r]].rm = up
    BY <1>8, GotoMoves DEF VerifyCorrelate, Step, VerifyStep, KnownToYarn
  <2>2. evidence'[sess[r]].swapDetected = evidence[sess[r]].swapDetected
    BY <1>2, <1>8 DEF VerifyCorrelate, TypeOK, Evidence
  <2>3. known <= up /\ known <= job[app[r]].rm /\ job[app[r]].rm <= up
    BY <1>5, <2>1 DEF SmokeOf
  <2> QED
    BY <1>1, <1>3, <1>4, <2>1, <2>2, <2>3 DEF SmokeOf
<1>9. CASE VerifyFinal(r)
  <2>1. pc[r] = "v_final" /\ (pc'[r] \in AfterSmoke => pc'[r] = "v_snapshot")
    BY <1>9, GotoMoves DEF VerifyFinal, Step, VerifyStep
  <2>2. evidence'[sess[r]].swapDetected = evidence[sess[r]].swapDetected
    BY <1>2, <1>9 DEF VerifyFinal, TypeOK, Evidence
  <2>3. pc'[r] = "v_snapshot" => Identity = evidence[sess[r]].started
    BY <1>9, <2>1 DEF VerifyFinal, Goto, IInv, BundleInv, Compared, AfterPre, Verifying, TypeOK
  <2>4. pc'[r] = "v_snapshot" => job[app[r]].rm = known
    BY <1>5, <1>6, <2>1, <2>3 DEF SmokeOf
  <2> QED
    BY <1>1, <1>3, <1>4, <2>1, <2>2, <2>4 DEF SmokeOf
<1>10. CASE VerifySnapshot(r)
  <2>1. pc[r] = "v_snapshot" /\ pc'[r] = "v_validate"
    BY <1>10, GotoMoves DEF VerifySnapshot, Step, VerifyStep
  <2>2. evidence'[sess[r]].swapDetected = evidence[sess[r]].swapDetected
    BY <1>2, <1>10 DEF VerifySnapshot, TypeOK, Evidence
  <2> QED
    BY <1>1, <1>3, <1>4, <2>1, <2>2 DEF SmokeOf
<1>11. CASE VerifyValidate(r)
  <2>1. pc[r] = "v_validate" /\ pc'[r] = "v_complete" /\ ~ evidence[sess[r]].swapDetected
    BY <1>11, GotoMoves DEF VerifyValidate, BundleValid, Step, VerifyStep
  <2>2. evidence'[sess[r]].swapDetected = evidence[sess[r]].swapDetected
    BY <1>11 DEF VerifyValidate, bundleVars
  <2> QED
    BY <1>1, <1>3, <1>4, <2>1, <2>2 DEF SmokeOf
<1> QED
  BY <1>7, <1>8, <1>9, <1>10, <1>11 DEF Evaluates

\* A smoke job that passes is the one the script has waited for.
LEMMA SmokeStep ==
    ASSUME TypeOK, TypeOK', IInv, IInv', JobInv, [Next]_vars PROVE \A q \in Runner : SmokeOf(q)'
<1> USE DEF JobInv
<1>1. ASSUME NEW r \in Runner, Script(r) \/ Crash(r), NEW q \in Runner PROVE SmokeOf(q)'
  <2> SUFFICES ASSUME pc'[q] \in AfterSmoke PROVE SmokeOf(q)'
    BY DEF SmokeOf, AfterSmoke, AfterPost, AfterFinal
  <2>1. CASE OutsiderStep(r)
    <3>1. q # r
      BY <2>1 DEF OutsiderStep, Locked, VerifyStep, AfterSmoke, AfterPost
    <3>2. pc'[q] = pc[q] /\ sess'[q] = sess[q] /\ app'[q] = app[q]
      BY <2>1, <3>1 DEF OutsiderStep, OthersStay
    <3>3. UNCHANGED <<job, swaps, container, evidence>>
      BY <2>1 DEF OutsiderStep, jobVars, clusterVars, bundleVars
    <3> QED
      BY <3>2, <3>3 DEF SmokeOf
  <2>2. CASE Alone(r) /\ Quiet(r) /\ QuietStep(r)
    <3>1. q = r
      BY <2>2 DEF QuietStep, OthersStay, Alone, Locked, VerifyStep, AfterSmoke, AfterPost
    <3> QED
      BY <2>2, <3>1, EvaluationStep DEF QuietStep
  <2>3. CASE Alone(r) /\ Crash(r)
    BY <2>3 DEF Crash, Alone, Locked, VerifyStep, AfterSmoke, AfterPost, TypeOK
  <2>4. ASSUME NEW a \in App, NEW k \in {"smoke", "observability"}, Alone(r),
               LaunchStep(r, k, a)
        PROVE  FALSE
    BY <2>4
       DEF LaunchStep, OthersStay, Alone, Locked, VerifyStep, AfterSmoke, AfterPost
  <2>5. ASSUME NEW a \in App, Alone(r), ReturnStep(r, a) PROVE SmokeOf(q)'
    <3>1. q = r /\ pc'[r] = "v_post"
      BY <2>5
         DEF ReturnStep, OthersStay, Alone, Locked, VerifyStep, AfterSmoke, AfterPost
    <3>2. /\ pc[r] = "v_wait" /\ app'[r] = a /\ a # None /\ job'[a].state = "succeeded"
          /\ job'[a].kind = "smoke" /\ job'[a].swapped = job[a].swapped
          /\ job[a].client = r /\ r # None /\ job[a].kind = "smoke"
      BY <2>5, <3>1, NoneAssumption DEF ReturnStep, AtMostEnds, ClientInv
    <3>3. job[a].swapped => evidence[sess[r]].swapsBefore < swaps
      BY <3>2 DEF SwapInv
    <3>4. UNCHANGED <<sess, swaps, evidence>>
      BY <2>5 DEF ReturnStep, bundleVars
    <3> QED
      BY <3>1, <3>2, <3>3, <3>4 DEF SmokeOf, AfterPost, AfterFinal
  <2> QED
    BY <1>1, <2>1, <2>2, <2>3, <2>4, <2>5, ScriptSteps DEF ScriptStepKinds
<1>2. ASSUME OrphanEnds \/ ContainerEvent \/ JobEvent \/ UNCHANGED vars, NEW q \in Runner
      PROVE  SmokeOf(q)'
  <2> SUFFICES ASSUME pc'[q] \in AfterSmoke PROVE SmokeOf(q)'
    BY DEF SmokeOf, AfterSmoke, AfterPost, AfterFinal
  <2>1. EnvironmentStep /\ UNCHANGED <<pc, sess, app, evidence>>
    BY <1>2, OtherSteps DEF EnvironmentStep, runnerVars, bundleVars
  <2>2. app[q] \in App /\ job[app[q]].state = "succeeded" /\ sess[q] \in Session
    BY <2>1
       DEF SmokeOf, TypeOK, IInv, SessionInv, SessionOf, Verifying, AfterSmoke, AfterPost
  <2>3. /\ job'[app[q]].state = job[app[q]].state /\ job'[app[q]].kind = job[app[q]].kind
        /\ job'[app[q]].rm = job[app[q]].rm /\ job'[app[q]].swapped = job[app[q]].swapped
    BY <2>2, DoneStays DEF Done
  <2>4. swaps <= swaps' /\ container[ResourceManager].startedAt <= container'[ResourceManager].startedAt
    BY <2>1, StampTypes DEF EnvironmentStep, Accepts, Swaps
  <2>5. /\ swaps \in Nat /\ swaps' \in Nat /\ evidence[sess[q]].swapsBefore \in Nat
        /\ container[ResourceManager].startedAt \in Nat
        /\ container'[ResourceManager].startedAt \in Nat
        /\ evidence[sess[q]].started[ResourceManager][2] \in Nat
        /\ job[app[q]].rm \in Nat
    <3>1. swaps' \in Nat /\ container'[ResourceManager].startedAt \in Nat
      BY ServiceAssumption, MaxStampAssumption, MaxSwapAssumption
         DEF TypeOK, ClusterTypeOK, Container, Stamp, JobsTypeOK
    <3> QED
      BY <2>2, <3>1, StampTypes
  <2> QED
    BY <2>1, <2>2, <2>3, <2>4, <2>5 DEF SmokeOf, AfterSmoke, AfterPost, AfterFinal
<1> QED
  BY <1>1, <1>2 DEF Next, Environment

\* What verify.ps1 knows of its application when it completes the session
\* holds of the session from then on.
LEMMA CompleteStep ==
    ASSUME TypeOK, IInv, JobInv, [Next]_vars PROVE CompleteMeansSmokePassed'
<1>1. ASSUME NEW s \in CompleteSessions, DecidedStay
      PROVE  /\ appId'[s] # None
             /\ LET j == job'[appId'[s]] IN
                /\ j.state = "succeeded" /\ j.kind = "smoke"
                /\ j.rm = evidence'[s].started[ResourceManager][2]
                /\ ~ j.swapped
  <2>1. /\ appId'[s] = appId[s] /\ appId[s] \in App
        /\ evidence'[s].started = evidence[s].started
    BY <1>1
       DEF DecidedStay, JobInv, CompleteMeansSmokePassed, CompleteSessions, TypeOK, RecordTypeOK
  <2>2. job[appId[s]].state \in Done
    BY DEF JobInv, CompleteMeansSmokePassed, Done
  <2> QED
    BY <2>1, <2>2, DoneStays DEF JobInv, CompleteMeansSmokePassed
<1>2. ASSUME NEW r \in Runner, Script(r) \/ Crash(r) PROVE CompleteMeansSmokePassed'
  <2>1. DecidedStay /\ (~ VerifyComplete(r) => CompleteSessions' \subseteq CompleteSessions)
    BY <1>2, ScriptsKeepDecided
  <2>2. CASE VerifyComplete(r)
    <3>1. pc[r] = "v_complete" /\ sess[r] \in Session
      BY <2>2 DEF VerifyComplete, Goto, IInv, SessionInv, SessionOf, Verifying
    <3>2. /\ app[r] # None
          /\ job[app[r]].state = "succeeded" /\ job[app[r]].kind = "smoke"
          /\ ~ job[app[r]].swapped
          /\ job[app[r]].rm = evidence[sess[r]].started[ResourceManager][2]
      BY <3>1 DEF JobInv, SmokeOf, AfterSmoke, AfterPost, AfterFinal
    <3>3. UNCHANGED <<job, evidence>> /\ appId'[sess[r]] = app[r]
      BY <2>2, <3>1, <3>2
         DEF VerifyComplete, SetStatus, jobVars, bundleVars, TypeOK, RecordTypeOK
    <3>4. \A s \in CompleteSessions' : s # sess[r] => s \in CompleteSessions
      BY <2>2, <3>1 DEF VerifyComplete, SetStatus, CompleteSessions, TypeOK, RecordTypeOK
    <3> QED
      BY <1>1, <2>1, <3>2, <3>3, <3>4 DEF CompleteMeansSmokePassed
  <2> QED
    BY <1>1, <2>1, <2>2 DEF CompleteMeansSmokePassed
<1>3. CASE OrphanEnds \/ ContainerEvent \/ JobEvent \/ UNCHANGED vars
  <2>1. DecidedStay /\ CompleteSessions' = CompleteSessions
    BY <1>3, OtherSteps
       DEF EnvironmentStep, recordVars, bundleVars, DecidedStay, CompleteSessions
  <2> QED
    BY <1>1, <2>1 DEF CompleteMeansSmokePassed
<1> QED
  BY <1>2, <1>3 DEF Next, Environment

\* The invariant holds before any script has run.
LEMMA JobInit == Init => JobInv /\ AloneInv
BY NoneAssumption, MaxSwapAssumption
   DEF Init, RecordInit, ClusterInit, JobsInit, JobInv, ClientInv, NameInv, ObserveInv,
       SwapInv, SmokeOf, AfterSmoke, AfterPost, AfterFinal, CompleteMeansSmokePassed,
       CompleteSessions, AloneInv, Launching, Active, SmokeRanAlone

\* Every step keeps it.
LEMMA JobStep ==
    TypeOK /\ TypeOK' /\ IInv /\ IInv' /\ JobInv /\ [Next]_vars => JobInv'
  BY ClientStep, NameStep, ObserveStep, SwapStep, SmokeStep, CompleteStep DEF JobInv

-----------------------------------------------------------------------------
(* Nothing else on the cluster, when no job outlives its script. *)

\* A script waiting for its job is never killed.
LEMMA WaitersLive ==
    ASSUME "orphan" \notin Faults, TypeOK, JobInv, NEW r \in Runner, Crash(r)
    PROVE  job' = job
<1>1. \A a \in App : job[a].client # r
  BY NoneAssumption DEF Crash, JobInv, ClientInv
<1> QED
  BY <1>1, CrashEnds DEF Crash, TypeOK, JobsTypeOK

\* All clients are one and the same script, which has one job.
LEMMA OneClient ==
    ASSUME TypeOK, IInv, JobInv, NEW a \in App, NEW b \in App,
           job[a].client # None, job[b].client # None
    PROVE  a = b
<1>1. job[a].client = job[b].client
  BY DEF JobInv, ClientInv, IInv, LockInv, Locked, VerifyStep, OtherStep, TypeOK,
         JobsTypeOK, Job
<1> QED
  BY <1>1 DEF JobInv, ClientInv

\* Scripts launch jobs one at a time and wait for them.
LEMMA ScriptsKeepAlone ==
    ASSUME "orphan" \notin Faults, TypeOK, TypeOK', IInv, JobInv, AloneInv,
           NEW r \in Runner, Script(r) \/ Crash(r)
    PROVE  AloneInv'
<1> USE DEF JobInv
<1>0. ScriptStepKinds(r) /\ [Next]_vars
  BY ScriptSteps DEF Next, Environment
<1>a. ASSUME job' = job \/ \A a \in App : AtMostEnds(a)
      PROVE  /\ Active' \subseteq Active /\ Launching' \subseteq Launching
             /\ \A a \in App : job'[a].met = job[a].met
  BY <1>a DEF AtMostEnds, Active, Launching, Done
<1>1. \A a \in Launching' : job'[a].client # None
  <2>1. CASE OutsiderStep(r)
    BY <2>1 DEF OutsiderStep, jobVars, AloneInv, Launching
  <2>2. CASE QuietStep(r)
    BY <2>2, <1>a DEF QuietStep, ClientsStay, AloneInv, Launching
  <2>3. CASE Crash(r)
    BY <2>3, WaitersLive DEF AloneInv, Launching
  <2>4. ASSUME NEW a \in App, NEW k \in {"smoke", "observability"}, LaunchStep(r, k, a)
        PROVE  \A b \in Launching' : job'[b].client # None
    BY <2>4, NoneAssumption DEF LaunchStep, AloneInv, Launching
  <2>5. ASSUME NEW a \in App, ReturnStep(r, a)
        PROVE  \A b \in Launching' : job'[b].client # None
    BY <2>5 DEF ReturnStep, AloneInv, Launching
  <2> QED
    BY <1>0, <2>1, <2>2, <2>3, <2>4, <2>5 DEF ScriptStepKinds
<1>2. ASSUME NEW q \in Runner, pc'[q] \in {"v_before", "v_smoke"} PROVE Active' = {}
  <2>1. CASE OutsiderStep(r)
    BY <1>2, <2>1
       DEF OutsiderStep, OthersStay, jobVars, AloneInv, Active, Locked, VerifyStep
  <2>2. CASE Alone(r) /\ QuietStep(r)
    <3>1. q = r
      BY <1>2, <2>2 DEF QuietStep, OthersStay, Alone, Locked, VerifyStep
    <3>2. Active = {}
      BY <1>2, <2>2, <3>1 DEF QuietStep, AloneInv
    <3> QED
      BY <2>2, <3>2, <1>a DEF QuietStep
  <2>3. CASE Alone(r) /\ Crash(r)
    BY <1>2, <2>3 DEF Crash, Alone, Locked, VerifyStep, TypeOK
  <2>4. ASSUME NEW a \in App, NEW k \in {"smoke", "observability"}, Alone(r),
               LaunchStep(r, k, a)
        PROVE  FALSE
    BY <1>2, <2>4 DEF LaunchStep, OthersStay, Alone, Locked, VerifyStep
  <2>5. ASSUME NEW a \in App, Alone(r), ReturnStep(r, a) PROVE FALSE
    BY <1>2, <2>5 DEF ReturnStep, OthersStay, Alone, Locked, VerifyStep
  <2> QED
    BY <1>0, <2>1, <2>2, <2>3, <2>4, <2>5 DEF ScriptStepKinds
<1>3. ASSUME NEW q \in Runner, NEW b \in Active', pc'[q] = "v_wait" PROVE job'[b].client = q
  <2>1. CASE OutsiderStep(r)
    BY <1>3, <2>1
       DEF OutsiderStep, OthersStay, jobVars, AloneInv, Active, Locked, VerifyStep
  <2>2. CASE Alone(r) /\ QuietStep(r)
    BY <1>3, <2>2 DEF QuietStep, OthersStay, Alone, Locked, VerifyStep, Waiting
  <2>3. CASE Alone(r) /\ Crash(r)
    BY <1>3, <2>3 DEF Crash, Alone, Locked, VerifyStep, TypeOK
  <2>4. ASSUME NEW a \in App, NEW k \in {"smoke", "observability"}, Alone(r),
               LaunchStep(r, k, a)
        PROVE  FALSE
    <3>1. pc[r] = "v_smoke"
      BY <1>3, <2>4 DEF LaunchStep, OthersStay, Alone, Locked, VerifyStep
    <3>2. b \in App /\ b # a /\ job[b].state = "active"
      BY <1>3, <2>4 DEF LaunchStep, Active
    <3> QED
      BY <3>1, <3>2 DEF AloneInv, Active
  <2>5. ASSUME NEW a \in App, Alone(r), ReturnStep(r, a) PROVE FALSE
    BY <1>3, <2>5 DEF ReturnStep, OthersStay, Alone, Locked, VerifyStep
  <2> QED
    BY <1>0, <2>1, <2>2, <2>3, <2>4, <2>5 DEF ScriptStepKinds
<1>4. ASSUME NEW b \in App,
             \/ job'[b].state \in {"unused", "launching"}
             \/ job'[b].client # None /\ job'[b].kind = "smoke"
      PROVE  job'[b].met = {}
  <2>1. CASE job' = job \/ \A a \in App : AtMostEnds(a)
    BY <1>4, <2>1 DEF AtMostEnds, AloneInv, Done
  <2>2. ASSUME NEW a \in App, NEW k \in {"smoke", "observability"}, LaunchStep(r, k, a)
        PROVE  job'[b].met = {}
    BY <1>4, <2>2 DEF LaunchStep, AloneInv
  <2> QED
    BY <1>0, <2>1, <2>2, CrashEnds
       DEF ScriptStepKinds, OutsiderStep, jobVars, QuietStep, ReturnStep
<1>5. ASSUME NEW q \in Runner, pc'[q] \in AfterSmoke PROVE job'[app'[q]].met = {}
  <2>0. AfterSmoke \subseteq Locked
    BY DEF AfterSmoke, AfterPost, Locked, VerifyStep
  <2>1. CASE OutsiderStep(r)
    BY <1>5, <2>0, <2>1 DEF OutsiderStep, OthersStay, jobVars, AloneInv
  <2>2. CASE Alone(r) /\ Quiet(r) /\ QuietStep(r)
    <3>1. q = r /\ Evaluates(r)
      BY <1>5, <2>0, <2>2 DEF QuietStep, OthersStay, Alone
    <3>2. pc[r] \in AfterSmoke /\ UNCHANGED <<app, job>>
      BY <3>1
         DEF Evaluates, VerifyPost, VerifyCorrelate, VerifyFinal, VerifySnapshot,
             VerifyValidate, Goto, jobVars, AfterSmoke, AfterPost
    <3> QED
      BY <3>1, <3>2 DEF AloneInv
  <2>3. CASE Alone(r) /\ Crash(r)
    BY <1>5, <2>3 DEF Crash, Alone, TypeOK, Locked, VerifyStep, AfterSmoke, AfterPost
  <2>4. ASSUME NEW a \in App, NEW k \in {"smoke", "observability"}, Alone(r),
               LaunchStep(r, k, a)
        PROVE  FALSE
    BY <1>5, <2>4
       DEF LaunchStep, OthersStay, Alone, Locked, VerifyStep, AfterSmoke, AfterPost
  <2>5. ASSUME NEW a \in App, Alone(r), ReturnStep(r, a) PROVE job'[app'[q]].met = {}
    <3>1. q = r /\ pc'[r] = "v_post"
      BY <1>5, <2>5
         DEF ReturnStep, OthersStay, Alone, Locked, VerifyStep, AfterSmoke, AfterPost
    <3>2. /\ app'[r] = a /\ job[a].client = r /\ r # None /\ job[a].kind = "smoke"
          /\ job'[a].met = job[a].met
      BY <2>5, <3>1, NoneAssumption DEF ReturnStep, AtMostEnds, ClientInv
    <3> QED
      BY <3>1, <3>2 DEF AloneInv
  <2> QED
    BY <1>0, <2>1, <2>2, <2>3, <2>4, <2>5 DEF ScriptStepKinds
<1>6. ASSUME NEW s \in CompleteSessions', appId'[s] # None PROVE job'[appId'[s]].met = {}
  <2>1. DecidedStay /\ (~ VerifyComplete(r) => CompleteSessions' \subseteq CompleteSessions)
    BY ScriptsKeepDecided
  <2>2. CASE s \in CompleteSessions
    <3>1. /\ appId'[s] = appId[s] /\ appId[s] \in App
          /\ job[appId[s]].state \in Done /\ job[appId[s]].met = {}
      BY <2>1, <2>2
         DEF DecidedStay, CompleteMeansSmokePassed, CompleteSessions, AloneInv,
             SmokeRanAlone, TypeOK, RecordTypeOK, Done
    <3> QED
      BY <1>0, <3>1, DoneStays
  <2>3. CASE s \notin CompleteSessions
    <3>1. VerifyComplete(r)
      BY <1>6, <2>1, <2>3
    <3>2. pc[r] = "v_complete" /\ app[r] # None /\ job' = job /\ job[app[r]].met = {}
      BY <3>1
         DEF VerifyComplete, Goto, jobVars, AloneInv, SmokeOf, AfterSmoke, AfterPost
    <3>3. s = sess[r] /\ appId'[s] = app[r]
      BY <1>6, <2>3, <3>1, <3>2
         DEF VerifyComplete, SetStatus, CompleteSessions, TypeOK, RecordTypeOK
    <3> QED
      BY <3>2, <3>3
  <2> QED
    BY <2>2, <2>3
<1> QED
  BY <1>1, <1>2, <1>3, <1>4, <1>5, <1>6 DEF AloneInv, SmokeRanAlone

\* While verify.ps1 runs its smoke job, YARN can accept no other.
LEMMA EnvironmentKeepsAlone ==
    ASSUME "orphan" \notin Faults, TypeOK, IInv, JobInv, AloneInv,
           OrphanEnds \/ ContainerEvent \/ JobEvent \/ UNCHANGED vars
    PROVE  AloneInv'
<1> USE DEF JobInv
<1>0. EnvironmentStep /\ UNCHANGED <<pc, sess, app, status, appId>> /\ [Next]_vars
  BY OtherSteps DEF EnvironmentStep, runnerVars, recordVars, Next, Environment
<1>1. \A a \in App : job[a].state \in Done => job'[a].met = job[a].met
  BY <1>0, DoneStays
<1>2. /\ \A q \in Runner : pc[q] \in AfterSmoke => app[q] \in App /\ job[app[q]].state \in Done
      /\ \A s \in CompleteSessions : appId[s] \in App /\ job[appId[s]].state \in Done
  BY DEF SmokeOf, CompleteMeansSmokePassed, CompleteSessions, Done, TypeOK, RecordTypeOK
<1>3. /\ \A q \in Runner : pc'[q] \in AfterSmoke => job'[app'[q]].met = {}
      /\ SmokeRanAlone'
  BY <1>0, <1>1, <1>2 DEF AloneInv, SmokeRanAlone, CompleteSessions
<1>4. CASE Accepts
  <2>1. PICK a \in App :
          /\ job[a].state = "launching" /\ job'[a].state = "active"
          /\ job'[a].kind = job[a].kind /\ job'[a].met = Active
          /\ \A b \in App : b # a =>
               /\ job'[b].kind = job[b].kind /\ job'[b].state = job[b].state
               /\ b \notin Active => job'[b] = job[b]
    BY <1>4 DEF Accepts
  <2>2. job[a].client # None
    BY <2>1 DEF AloneInv, Launching
  <2>3. \A b \in App : job[b].client # None => b = a
    BY <2>2, OneClient
  <2>4. /\ job[a].client \in Runner
        /\ pc[job[a].client] = IF job[a].kind = "smoke" THEN "v_wait" ELSE "o_wait"
    BY <2>2 DEF ClientInv, TypeOK, JobsTypeOK, Job
  <2>5. \A q \in Runner : pc[q] \in Locked => q = job[a].client
    BY <2>4 DEF IInv, LockInv, Locked, VerifyStep, OtherStep
  <2>6. \A q \in Runner : pc[q] \notin {"v_before", "v_smoke"}
    BY <2>4, <2>5 DEF Locked, VerifyStep
  <2>7. job[a].kind = "smoke" => Active = {}
    BY <2>1, <2>3, <2>4, NoneAssumption DEF AloneInv, Active
  <2>8. \A b \in Launching' : job'[b].client # None
    BY <1>4, <2>1 DEF Accepts, ClientsStay, AloneInv, Launching
  <2>9. ASSUME NEW q \in Runner, NEW b \in Active', pc'[q] = "v_wait" PROVE job'[b].client = q
    <3>1. q = job[a].client
      BY <1>0, <2>5, <2>9 DEF Locked, VerifyStep
    <3>2. CASE b = a
      BY <1>4, <3>1, <3>2 DEF Accepts, ClientsStay
    <3>3. CASE b # a
      BY <1>0, <1>4, <2>1, <2>9, <3>3 DEF Active, Accepts, ClientsStay, AloneInv
    <3> QED
      BY <3>2, <3>3
  <2>10. ASSUME NEW b \in App,
                \/ job'[b].state \in {"unused", "launching"}
                \/ job'[b].client # None /\ job'[b].kind = "smoke"
         PROVE  job'[b].met = {}
    <3>1. CASE b = a
      BY <1>4, <2>1, <2>7, <2>10, <3>1 DEF Accepts, ClientsStay
    <3>2. CASE b # a
      <4>1. job[b].client = None /\ job'[b].client = None
        BY <1>4, <2>3, <3>2 DEF Accepts, ClientsStay
      <4>2. job[b].state \in {"unused", "launching"} /\ job'[b] = job[b]
        BY <2>1, <2>10, <3>2, <4>1 DEF Active
      <4> QED
        BY <4>2 DEF AloneInv
    <3> QED
      BY <3>1, <3>2
  <2> QED
    BY <1>0, <1>3, <2>6, <2>8, <2>9, <2>10 DEF AloneInv
<1>5. CASE Swaps
  <2>1. Active' = Active /\ Launching' = Launching
    BY <1>5 DEF Swaps, Active, Launching
  <2> QED
    BY <1>0, <1>3, <1>5, <2>1 DEF Swaps, ClientsStay, AloneInv, Active, Launching
<1>6. CASE \A a \in App : AtMostEnds(a)
                  /\ (job[a].client # None => job'[a].client = job[a].client)
  <2>1. Active' \subseteq Active /\ Launching' \subseteq Launching
    BY <1>6 DEF AtMostEnds, Active, Launching, Done
  <2>2. \A a \in Launching' : job'[a].client # None
    BY <1>6, <2>1 DEF AloneInv, Launching
  <2>3. \A q \in Runner, a \in Active' : pc'[q] = "v_wait" => job'[a].client = q
    BY <1>0, <1>6, <2>1, NoneAssumption DEF AloneInv, Active
  <2>4. \A a \in App :
        \/ job'[a].state \in {"unused", "launching"}
        \/ job'[a].client # None /\ job'[a].kind = "smoke"
        => job'[a].met = {}
    BY <1>6 DEF AtMostEnds, AloneInv, Done
  <2> QED
    BY <1>0, <1>3, <2>1, <2>2, <2>3, <2>4 DEF AloneInv
<1> QED
  BY <1>0, <1>4, <1>5, <1>6 DEF EnvironmentStep

\* Every step keeps the smoke job alone.
LEMMA AloneStep ==
    ASSUME "orphan" \notin Faults
    PROVE  TypeOK /\ TypeOK' /\ IInv /\ JobInv /\ AloneInv /\ [Next]_vars => AloneInv'
  BY ScriptsKeepAlone, EnvironmentKeepsAlone DEF Next, Environment

-----------------------------------------------------------------------------
(* The properties. *)

\* What the scripts know of their jobs: who waits for which, that the status
\* documents name smoke jobs only, how far a verification has followed its
\* application from the swap counter to the last capture, and, unless a killed
\* script can leave a job behind, that nothing ran beside it.
THEOREM JobInvariant == Spec => []JInv
<1>1. Init => JInv
  BY TypeInit, InvariantInit, JobInit DEF JInv
<1>2. TypeOK /\ TypeOK' /\ IInv /\ IInv' /\ JInv /\ [Next]_vars => JInv'
  BY JobStep, AloneStep DEF JInv
<1> QED
  BY <1>1, <1>2, TypeCorrect, Invariant, PTL DEF Spec

\* The application that a COMPLETE session names was a smoke job that
\* succeeded on the ResourceManager its start.ps1 recorded and lived through
\* no swap, for any number of scripts and jobs, restarts of the
\* ResourceManager by hand, kills and failing writes (verify.ps1).
THEOREM SmokePassed == Spec => []CompleteMeansSmokePassed
<1>1. JInv => CompleteMeansSmokePassed
  BY DEF JInv, JobInv
<1> QED
  BY <1>1, JobInvariant, PTL

\* An observability job is launched while a COMPLETE session is the active
\* one, which it stays until the job returns, and never becomes evidence
\* (run-observability-test.ps1).
THEOREM ObservesAfterwards == Spec => []ObservabilityAfterVerification
<1>1. TypeOK /\ JInv => ObservabilityAfterVerification
  BY DEF TypeOK, JobsTypeOK, Job, JInv, JobInv, ClientInv, NameInv, ObserveInv,
         ObservabilityAfterVerification
<1> QED
  BY <1>1, TypeCorrect, JobInvariant, PTL

\* Unless a script is killed while it waits and leaves the container of its
\* job behind, no other application was active together with the smoke
\* application of a COMPLETE session.  The hypothesis is needed: run
\* lifecycle_orphan shows what happens without it.
THEOREM SmokeAlone ==
    ASSUME "orphan" \notin Faults PROVE Spec => []SmokeRanAlone
<1>1. JInv => SmokeRanAlone
  BY DEF JInv, AloneInv
<1> QED
  BY <1>1, JobInvariant, PTL
================================================================================
