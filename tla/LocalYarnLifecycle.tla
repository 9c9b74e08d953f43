-------------------------- MODULE LocalYarnLifecycle --------------------------
(***************************************************************************)
(* The host scripts that own the life of a LOCAL_YARN_V1 verification      *)
(* session: start.ps1, verify.ps1, snapshot-environment.ps1, stop.ps1 and  *)
(* run-observability-test.ps1, run by any number of PowerShell processes   *)
(* against one Docker engine and one artifacts directory.                  *)
(*                                                                         *)
(* pc[r] names the step a script is about to take: s_ for start.ps1, v_    *)
(* for verify.ps1, d_ for stop.ps1, o_ for run-observability-test.ps1;     *)
(* "fail" is the catch block and "unlock" the finally block.  A step that  *)
(* starts with Set-LocalYarnVerificationStatus INCOMPLETE does so here.    *)
(* The environment may kill a script or a container between two steps.     *)
(***************************************************************************)
EXTENDS VerificationSession, YarnJobs

CONSTANT Faults    \* what the environment may do, see FaultKind

\* crash: a script is killed.  orphan: it is killed while the container of
\* its job runs on.  restart: containers are started by hand.  disk: a
\* document cannot be written.
FaultKind == {"crash", "orphan", "restart", "disk"}

ASSUME FaultsAssumption == Faults \subseteq FaultKind

VARIABLES
    pc,        \* the next step of each runner
    sess,      \* $evidenceDirectory of each runner
    app,       \* $applicationId of each runner
    files,     \* the evidence files of each session that exist
    evidence   \* what they say

runnerVars == <<pc, sess, app>>
bundleVars == <<files, evidence>>
vars == <<lock, recordVars, clusterVars, jobVars, runnerVars, bundleVars>>

File == {"host_baseline", "java_base_image_resolution", "started_service_images",
         "service_images", "runtime_before_smoke", "service_images_post_smoke",
         "swap_assessment", "yarn_application", "service_images_final",
         "environment_snapshot_ref"}

Identities == [Service -> Stamp \X Stamp]
NoIdentity == [v \in Service |-> <<0, 0>>]

Evidence == [baselineAt : Stamp,          \* when HOST_BASELINE was captured
             started : Identities,        \* started_service_images.json
             pre : Identities,            \* service_images.json
             post : Identities,           \* service_images_post_smoke.json
             final : Identities,          \* service_images_final.json
             swapsBefore : 0 .. MaxSwap,  \* runtime_before_smoke.json
             swapDetected : BOOLEAN,      \* swap_assessment.json
             yarnApp : App \union {None}, \* yarn_application.json
             snapApp : App \union {None}] \* environment_snapshot_ref.json

StartStep == {"s_preflight", "s_session", "s_activate", "s_baseline", "s_prepare",
              "s_up", "s_record", "s_pending"}
VerifyStep == {"v_load", "v_activate", "v_baseline", "v_services", "v_pre", "v_idle",
               "v_before", "v_smoke", "v_wait", "v_post", "v_correlate", "v_final",
               "v_snapshot", "v_validate", "v_complete"}
OtherStep == {"d_down", "o_check", "o_run", "o_wait"}
Unlocked == {"idle", "s_unreachable"}
Step == StartStep \union VerifyStep \union OtherStep \union Unlocked
            \union {"fail", "unlock"}

TypeOK ==
    /\ RecordTypeOK
    /\ ClusterTypeOK
    /\ JobsTypeOK
    /\ pc \in [Runner -> Step]
    /\ sess \in [Runner -> Session \union {None}]
    /\ app \in [Runner -> App \union {None}]
    /\ files \in [Session -> SUBSET File]
    /\ evidence \in [Session -> Evidence]

Init ==
    /\ RecordInit
    /\ ClusterInit
    /\ JobsInit
    /\ pc = [r \in Runner |-> "idle"]
    /\ sess = [r \in Runner |-> None]
    /\ app = [r \in Runner |-> None]
    /\ files = [s \in Session |-> {}]
    /\ evidence = [s \in Session |->
           [baselineAt |-> 0, started |-> NoIdentity, pre |-> NoIdentity,
            post |-> NoIdentity, final |-> NoIdentity, swapsBefore |-> 0,
            swapDetected |-> FALSE, yarnApp |-> None, snapApp |-> None]]

-----------------------------------------------------------------------------
(* The steps of a script. *)

Goto(r, from, to) == pc[r] = from /\ pc' = [pc EXCEPT ![r] = to]

\* Set-LocalYarnVerificationStatus ... INCOMPLETE on the runner's own session.
StillIncomplete(r) == SetStatus(sess[r], "INCOMPLETE", app[r])

Write(s, names) == files' = [files EXCEPT ![s] = @ \union names]

\* The catch block of start.ps1 and of verify.ps1 once the session is known.
Fail_Unmarked(r) ==
    /\ Goto(r, "fail", "unlock")
    /\ UNCHANGED <<lock, recordVars, clusterVars, jobVars, sess, app, bundleVars>>
Fail(r) ==
    /\ Goto(r, "fail", "unlock")
    /\ \/ SetStatus(sess[r], "FAILED", app[r])
       \/ "disk" \in Faults /\ UNCHANGED <<status, appId>>
    /\ UNCHANGED <<lock, active, clusterVars, jobVars, sess, app, bundleVars>>

\* The finally block, after which the process ends.
Unlock(r) ==
    /\ Goto(r, "unlock", "idle")
    /\ ExitLock(r)
    /\ sess' = [sess EXCEPT ![r] = None]
    /\ app' = [app EXCEPT ![r] = None]
    /\ UNCHANGED <<recordVars, clusterVars, jobVars, bundleVars>>

\* A script takes the lock and goes to its first step.
Enter(r, first) ==
    /\ Goto(r, "idle", first)
    /\ EnterLock(r)

\* A command, a poll or a check of a step fails and the script throws.  A
\* script that has no session of its own yet has nothing to mark.
WithoutSession == {"s_preflight", "s_session", "v_load", "d_down", "o_check", "o_run"}
BeforeStatusWrite == {"v_baseline"}
Throwing == {"s_baseline", "s_prepare", "s_up", "s_record", "v_services", "v_pre",
             "v_idle", "v_before", "v_smoke", "v_post", "v_correlate", "v_final",
             "v_snapshot", "v_validate"}

Throw_WaitsForIdle(r) ==
    \/ /\ pc[r] \in WithoutSession
       /\ pc' = [pc EXCEPT ![r] = "unlock"]
       /\ UNCHANGED <<lock, recordVars, clusterVars, jobVars, sess, app, bundleVars>>
    \/ /\ pc[r] \in BeforeStatusWrite \union (Throwing \ {"v_idle"})
       /\ pc' = [pc EXCEPT ![r] = "fail"]
       /\ UNCHANGED <<lock, recordVars, clusterVars, jobVars, sess, app, bundleVars>>
    \/ pc[r] = "v_idle" /\ UNCHANGED vars
Throw(r) ==
    /\ \/ /\ pc[r] \in WithoutSession
          /\ pc' = [pc EXCEPT ![r] = "unlock"]
          /\ UNCHANGED <<status, appId>>
       \/ /\ pc[r] \in BeforeStatusWrite
          /\ pc' = [pc EXCEPT ![r] = "fail"]
          /\ UNCHANGED <<status, appId>>
       \/ /\ pc[r] \in Throwing
          /\ pc' = [pc EXCEPT ![r] = "fail"]
          /\ StillIncomplete(r)
    /\ UNCHANGED <<lock, active, clusterVars, jobVars, sess, app, bundleVars>>

\* The pointer or a final status cannot be written.  Activation fails inside
\* New-LocalYarnVerificationSession, so the caller has no session to mark.
DiskFault(r) ==
    /\ "disk" \in Faults
    /\ \/ pc[r] \in {"s_activate", "v_activate"} /\ pc' = [pc EXCEPT ![r] = "unlock"]
       \/ pc[r] \in {"s_pending", "v_complete"} /\ pc' = [pc EXCEPT ![r] = "fail"]
    /\ UNCHANGED <<lock, recordVars, clusterVars, jobVars, sess, app, bundleVars>>

-----------------------------------------------------------------------------
(* start.ps1 *)

\* docker info fails before the lock is taken: a session that is not
\* activated records the failure.
StartUnreachable(r) ==
    /\ Goto(r, "idle", "s_unreachable")
    /\ \E s \in Session : NewSession(s) /\ sess' = [sess EXCEPT ![r] = s]
    /\ UNCHANGED <<lock, active, clusterVars, jobVars, app, bundleVars>>

MarkUnreachable(r) ==
    /\ Goto(r, "s_unreachable", "unlock")
    /\ SetStatus(sess[r], "FAILED", app[r])
    /\ UNCHANGED <<lock, active, clusterVars, jobVars, sess, app, bundleVars>>

StartEnter(r) ==
    /\ Enter(r, "s_preflight")
    /\ UNCHANGED <<recordVars, clusterVars, jobVars, sess, app, bundleVars>>

\* A cluster that runs is refused, see Throw.
StartPreflight_Skipped(r) ==
    /\ Goto(r, "s_preflight", "s_session")
    /\ UNCHANGED <<lock, recordVars, clusterVars, jobVars, sess, app, bundleVars>>
StartPreflight(r) ==
    /\ Goto(r, "s_preflight", "s_session")
    /\ Running = {}
    /\ UNCHANGED <<lock, recordVars, clusterVars, jobVars, sess, app, bundleVars>>

\* The two documents of New-LocalYarnVerificationSession.
StartSession_PointerFirst(r) ==
    /\ Goto(r, "s_session", "s_activate")
    /\ \E s \in Session :
           /\ status[s] = "ABSENT"
           /\ Activate(s)
           /\ sess' = [sess EXCEPT ![r] = s]
    /\ UNCHANGED <<lock, status, appId, clusterVars, jobVars, app, bundleVars>>
StartSession(r) ==
    /\ Goto(r, "s_session", "s_activate")
    /\ \E s \in Session : NewSession(s) /\ sess' = [sess EXCEPT ![r] = s]
    /\ UNCHANGED <<lock, active, clusterVars, jobVars, app, bundleVars>>

StartActivate(r) ==
    /\ Goto(r, "s_activate", "s_baseline")
    /\ Activate(sess[r])
    /\ UNCHANGED <<lock, status, appId, clusterVars, jobVars, sess, app, bundleVars>>

StartBaseline(r) ==
    /\ Goto(r, "s_baseline", "s_prepare")
    /\ StillIncomplete(r)
    /\ Write(sess[r], {"host_baseline"})
    /\ evidence' = [evidence EXCEPT ![sess[r]].baselineAt = clock]
    /\ UNCHANGED <<lock, active, clusterVars, jobVars, sess, app>>

\* The static contract, the Java base image and its manifest (each pulled or
\* inspected three times at most), the port check and the image build.
StartPrepare(r) ==
    /\ Goto(r, "s_prepare", "s_up")
    /\ StillIncomplete(r)
    /\ Write(sess[r], {"java_base_image_resolution"})
    /\ UNCHANGED <<lock, active, clusterVars, jobVars, sess, app, evidence>>

StartUp(r) ==
    /\ pc[r] = "s_up"
    /\ StillIncomplete(r)
    /\ \/ Goto(r, "s_up", "s_record") /\ Up
       \/ /\ Goto(r, "s_up", "fail")
          /\ \E S \in SUBSET Service : \E up \in SUBSET S : UpFails(S, up)
    /\ LoseApplications({})
    /\ UNCHANGED <<lock, active, swaps, sess, app, bundleVars>>

StartRecord(r) ==
    /\ Goto(r, "s_record", "s_pending")
    /\ Exists = Service
    /\ Write(sess[r], {"started_service_images"})
    /\ evidence' = [evidence EXCEPT ![sess[r]].started = Identity]
    /\ UNCHANGED <<lock, recordVars, clusterVars, jobVars, sess, app>>

StartPending(r) ==
    /\ Goto(r, "s_pending", "unlock")
    /\ StillIncomplete(r)
    /\ UNCHANGED <<lock, active, clusterVars, jobVars, sess, app, bundleVars>>

Start(r) ==
    \/ StartUnreachable(r) \/ MarkUnreachable(r)
    \/ StartEnter(r) \/ StartPreflight(r) \/ StartSession(r) \/ StartActivate(r)
    \/ StartBaseline(r) \/ StartPrepare(r) \/ StartUp(r) \/ StartRecord(r)
    \/ StartPending(r)

-----------------------------------------------------------------------------
(* verify.ps1 *)

\* -EvidenceDirectory may name any session; without it the active one is
\* looked up under the lock.
VerifyEnter(r) ==
    /\ Enter(r, "v_load")
    /\ \E s \in OnDisk \union {None} : sess' = [sess EXCEPT ![r] = s]
    /\ UNCHANGED <<recordVars, clusterVars, jobVars, app, bundleVars>>

Chosen(r) == IF sess[r] = None THEN active ELSE sess[r]

\* No session at all: a new one is activated, only to be marked FAILED.
VerifyWithoutSession(r) ==
    /\ Goto(r, "v_load", "v_activate")
    /\ Chosen(r) = None
    /\ \E s \in Session : NewSession(s) /\ sess' = [sess EXCEPT ![r] = s]
    /\ UNCHANGED <<lock, active, clusterVars, jobVars, app, bundleVars>>

VerifyActivate(r) ==
    /\ Goto(r, "v_activate", "fail")
    /\ Activate(sess[r])
    /\ UNCHANGED <<lock, status, appId, clusterVars, jobVars, sess, app, bundleVars>>

\* Only an INCOMPLETE session is accepted; another status ends the script
\* before it has write access to the session.
VerifyLoad_AnyStatus(r) ==
    /\ Goto(r, "v_load", "v_baseline")
    /\ Chosen(r) # None
    /\ sess' = [sess EXCEPT ![r] = Chosen(r)]
    /\ UNCHANGED <<lock, recordVars, clusterVars, jobVars, app, bundleVars>>
VerifyLoad(r) ==
    /\ Goto(r, "v_load", "v_baseline")
    /\ Chosen(r) # None
    /\ status[Chosen(r)] = "INCOMPLETE"
    /\ sess' = [sess EXCEPT ![r] = Chosen(r)]
    /\ UNCHANGED <<lock, recordVars, clusterVars, jobVars, app, bundleVars>>

VerifyBaseline(r) ==
    /\ Goto(r, "v_baseline", "v_services")
    /\ "host_baseline" \in files[sess[r]]
    /\ UNCHANGED <<lock, recordVars, clusterVars, jobVars, sess, app, bundleVars>>

\* docker info, then verify-services, verify-hdfs and verify-yarn.
VerifyServices(r) ==
    /\ Goto(r, "v_services", "v_pre")
    /\ Daemon \subseteq Running
    /\ StillIncomplete(r)
    /\ UNCHANGED <<lock, active, clusterVars, jobVars, sess, app, bundleVars>>

\* The three captures of the services' identities share a shape: write what
\* is observed, then compare it with an earlier capture.
VerifyPre_Uncompared(r) ==
    /\ Goto(r, "v_pre", "v_idle")
    /\ Healthy
    /\ StillIncomplete(r)
    /\ Write(sess[r], {"service_images"})
    /\ evidence' = [evidence EXCEPT ![sess[r]].pre = Identity]
    /\ UNCHANGED <<lock, active, clusterVars, jobVars, sess, app>>
VerifyPre(r) ==
    /\ Goto(r, "v_pre", IF /\ "started_service_images" \in files[sess[r]]
                           /\ Identity = evidence[sess[r]].started
                        THEN "v_idle" ELSE "fail")
    /\ Healthy
    /\ StillIncomplete(r)
    /\ Write(sess[r], {"service_images"})
    /\ evidence' = [evidence EXCEPT ![sess[r]].pre = Identity]
    /\ UNCHANGED <<lock, active, clusterVars, jobVars, sess, app>>

\* The YARN runtime evidence and the wait for an idle cluster.
VerifyIdle_Unchecked(r) ==
    /\ Goto(r, "v_idle", "v_before")
    /\ RmUp
    /\ StillIncomplete(r)
    /\ UNCHANGED <<lock, active, clusterVars, jobVars, sess, app, bundleVars>>
VerifyIdle(r) ==
    /\ Goto(r, "v_idle", "v_before")
    /\ RmUp
    /\ Active = {}
    /\ StillIncomplete(r)
    /\ UNCHANGED <<lock, active, clusterVars, jobVars, sess, app, bundleVars>>

VerifyBefore(r) ==
    /\ Goto(r, "v_before", "v_smoke")
    /\ StillIncomplete(r)
    /\ Write(sess[r], {"runtime_before_smoke"})
    /\ evidence' = [evidence EXCEPT ![sess[r]].swapsBefore = swaps]
    /\ UNCHANGED <<lock, active, clusterVars, jobVars, sess, app>>

VerifySmoke(r) ==
    /\ Goto(r, "v_smoke", "v_wait")
    /\ StillIncomplete(r)
    /\ \E a \in App : Launch(r, "smoke", a)
    /\ UNCHANGED <<lock, active, clusterVars, swaps, sess, app, bundleVars>>

\* The smoke container ends: by itself, or because its time is up.  It passes
\* only when the application succeeded; whether it passes or not, its
\* application is recorded if its id could be read from the output, which
\* Spark may print before YARN has accepted it.
SmokeReturns_ExitIgnored(r) ==
    \E a \in App : \E observed, pass \in BOOLEAN :
        /\ job[a].client = r
        /\ pass => observed
        /\ Goto(r, "v_wait", IF pass THEN "v_post" ELSE "fail")
        /\ ContainerEnds(a)
        /\ IF observed
           THEN /\ app' = [app EXCEPT ![r] = a]
                /\ SetStatus(sess[r], "INCOMPLETE", a)
           ELSE UNCHANGED <<app, status, appId>>
        /\ UNCHANGED <<lock, active, clusterVars, swaps, sess, bundleVars>>
SmokeReturns(r) ==
    \E a \in App : \E observed, pass \in BOOLEAN :
        /\ job[a].client = r
        /\ pass => observed /\ job[a].state = "succeeded"
        /\ Goto(r, "v_wait", IF pass THEN "v_post" ELSE "fail")
        /\ ContainerEnds(a)
        /\ IF observed
           THEN /\ app' = [app EXCEPT ![r] = a]
                /\ SetStatus(sess[r], "INCOMPLETE", a)
           ELSE UNCHANGED <<app, status, appId>>
        /\ UNCHANGED <<lock, active, clusterVars, swaps, sess, bundleVars>>

VerifyPost_SwapIgnored(r) ==
    LET e == evidence[sess[r]] IN
    /\ Goto(r, "v_post", IF Identity = e.pre THEN "v_correlate" ELSE "fail")
    /\ Healthy
    /\ StillIncomplete(r)
    /\ Write(sess[r], {"service_images_post_smoke", "swap_assessment"})
    /\ evidence' = [evidence EXCEPT ![sess[r]].post = Identity]
    /\ UNCHANGED <<lock, active, clusterVars, jobVars, sess, app>>
VerifyPost(r) ==
    LET e == evidence[sess[r]] IN
    /\ Goto(r, "v_post", IF Identity = e.pre THEN "v_correlate" ELSE "fail")
    /\ Healthy
    /\ StillIncomplete(r)
    /\ Write(sess[r], {"service_images_post_smoke", "swap_assessment"})
    /\ evidence' = [evidence EXCEPT ![sess[r]].post = Identity,
                                    ![sess[r]].swapDetected = swaps > e.swapsBefore]
    /\ UNCHANGED <<lock, active, clusterVars, jobVars, sess, app>>

\* The ResourceManager and the History Server report the smoke application.
VerifyCorrelate(r) ==
    /\ Goto(r, "v_correlate", "v_final")
    /\ app[r] # None /\ KnownToYarn(app[r])
    /\ job[app[r]].state = "succeeded"
    /\ StillIncomplete(r)
    /\ Write(sess[r], {"yarn_application"})
    /\ evidence' = [evidence EXCEPT ![sess[r]].yarnApp = app[r]]
    /\ UNCHANGED <<lock, active, clusterVars, jobVars, sess, app>>

VerifyFinal(r) ==
    /\ Goto(r, "v_final", IF Identity = evidence[sess[r]].post
                          THEN "v_snapshot" ELSE "fail")
    /\ Healthy
    /\ StillIncomplete(r)
    /\ Write(sess[r], {"service_images_final"})
    /\ evidence' = [evidence EXCEPT ![sess[r]].final = Identity]
    /\ UNCHANGED <<lock, active, clusterVars, jobVars, sess, app>>

\* snapshot-environment.ps1 reads the status document verify.ps1 has just
\* written and the application in it.
VerifySnapshot(r) ==
    /\ Goto(r, "v_snapshot", "v_validate")
    /\ StillIncomplete(r)
    /\ appId'[sess[r]] \in {app[r], None}
    /\ Write(sess[r], {"environment_snapshot_ref"})
    /\ evidence' = [evidence EXCEPT ![sess[r]].snapApp = app[r]]
    /\ UNCHANGED <<lock, active, clusterVars, jobVars, sess, app>>

\* Assert-LocalYarnEvidenceBundle.
BundleValid(s, a) ==
    /\ files[s] = File
    /\ status[s] = "INCOMPLETE"
    /\ appId[s] = a
    /\ evidence[s].yarnApp = a
    /\ evidence[s].snapApp = a
    /\ ~ evidence[s].swapDetected

VerifyValidate(r) ==
    /\ Goto(r, "v_validate", "v_complete")
    /\ BundleValid(sess[r], app[r])
    /\ StillIncomplete(r)
    /\ UNCHANGED <<lock, active, clusterVars, jobVars, sess, app, bundleVars>>

VerifyComplete(r) ==
    /\ Goto(r, "v_complete", "unlock")
    /\ SetStatus(sess[r], "COMPLETE", app[r])
    /\ UNCHANGED <<lock, active, clusterVars, jobVars, sess, app, bundleVars>>

Verify(r) ==
    \/ VerifyEnter(r) \/ VerifyWithoutSession(r) \/ VerifyActivate(r)
    \/ VerifyLoad(r) \/ VerifyBaseline(r) \/ VerifyServices(r) \/ VerifyPre(r)
    \/ VerifyIdle(r) \/ VerifyBefore(r) \/ VerifySmoke(r) \/ SmokeReturns(r)
    \/ VerifyPost(r) \/ VerifyCorrelate(r) \/ VerifyFinal(r) \/ VerifySnapshot(r)
    \/ VerifyValidate(r) \/ VerifyComplete(r)

-----------------------------------------------------------------------------
(* stop.ps1 and run-observability-test.ps1 *)

StopEnter(r) ==
    /\ Enter(r, "d_down")
    /\ UNCHANGED <<recordVars, clusterVars, jobVars, sess, app, bundleVars>>

\* docker compose down takes the one-off containers of the project with it.
\* One that fails has removed some of the containers only.
StopDown(r) ==
    /\ Goto(r, "d_down", "unlock")
    /\ \/ Down(Service) /\ LoseApplications(Launching)
       \/ \E S \in SUBSET Service : \E K \in SUBSET Launching :
              Down(S) /\ LoseApplications(K)
    /\ UNCHANGED <<lock, recordVars, swaps, sess, app, bundleVars>>

ObserveEnter(r) ==
    /\ Enter(r, "o_check")
    /\ UNCHANGED <<recordVars, clusterVars, jobVars, sess, app, bundleVars>>

ObserveCheck_AnyStatus(r) ==
    /\ Goto(r, "o_check", "o_run")
    /\ active # None
    /\ "service_images_final" \in files[active]
    /\ Healthy
    /\ Identity = evidence[active].final
    /\ UNCHANGED <<lock, recordVars, clusterVars, jobVars, sess, app, bundleVars>>
ObserveCheck(r) ==
    /\ Goto(r, "o_check", "o_run")
    /\ active # None
    /\ status[active] = "COMPLETE"
    /\ "service_images_final" \in files[active]
    /\ Healthy
    /\ Identity = evidence[active].final
    /\ UNCHANGED <<lock, recordVars, clusterVars, jobVars, sess, app, bundleVars>>

ObserveRun(r) ==
    /\ Goto(r, "o_run", "o_wait")
    /\ \E a \in App : Launch(r, "observability", a)
    /\ UNCHANGED <<lock, recordVars, clusterVars, swaps, sess, app, bundleVars>>

ObserveReturns(r) ==
    /\ Goto(r, "o_wait", "unlock")
    /\ \E a \in App : job[a].client = r /\ ContainerEnds(a)
    /\ UNCHANGED <<lock, recordVars, clusterVars, swaps, sess, app, bundleVars>>

Stop(r) == StopEnter(r) \/ StopDown(r)
Observe(r) == ObserveEnter(r) \/ ObserveCheck(r) \/ ObserveRun(r) \/ ObserveReturns(r)

-----------------------------------------------------------------------------
(* The environment *)

\* A killed script runs neither catch nor finally; the operating system
\* closes the lock file.  The container of its job may run on.
Crash(r) ==
    /\ "crash" \in Faults
    /\ pc[r] # "idle"
    /\ pc[r] \in {"v_wait", "o_wait"} => "orphan" \in Faults
    /\ ExitLock(r)
    /\ pc' = [pc EXCEPT ![r] = "idle"]
    /\ sess' = [sess EXCEPT ![r] = None]
    /\ app' = [app EXCEPT ![r] = None]
    /\ job' = [a \in App |-> IF job[a].client = r THEN [job[a] EXCEPT !.client = None]
                                                  ELSE job[a]]
    /\ UNCHANGED <<recordVars, clusterVars, swaps, bundleVars>>

OrphanEnds ==
    /\ \E a \in Launching : job[a].client = None /\ ContainerEnds(a)
    /\ UNCHANGED <<lock, recordVars, clusterVars, swaps, runnerVars, bundleVars>>

ContainerEvent ==
    /\ \E v \in Service : Die(v) \/ ("restart" \in Faults /\ Restart(v))
    /\ LoseApplications({})
    /\ UNCHANGED <<lock, recordVars, swaps, runnerVars, bundleVars>>

JobEvent ==
    /\ (\E a \in App : Submit(a) \/ Finish(a)) \/ Swap
    /\ UNCHANGED <<lock, recordVars, runnerVars, bundleVars>>

Script(r) == Start(r) \/ Verify(r) \/ Stop(r) \/ Observe(r)
                \/ Throw(r) \/ DiskFault(r) \/ Fail(r) \/ Unlock(r)

Environment == (\E r \in Runner : Crash(r)) \/ OrphanEnds \/ ContainerEvent \/ JobEvent

Next == (\E r \in Runner : Script(r)) \/ Environment

Spec == Init /\ [][Next]_vars
=============================================================================
