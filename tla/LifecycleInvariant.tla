-------------------------- MODULE LifecycleInvariant --------------------------
(***************************************************************************)
(* The inductive invariants behind the safety properties of                *)
(* LifecycleProperties: IInv about sessions and containers, JInv about     *)
(* jobs.  LifecycleProofs proves them, the runs check them.                *)
(***************************************************************************)
EXTENDS LifecycleProperties

\* The steps between Enter-LocalYarnVerificationLock and the finally block.
Locked == StartStep \union VerifyStep \union OtherStep \union {"fail"}

LockInv == \A r \in Runner : pc[r] \in Locked => lock = r

\* The steps of a script that made its session itself.
Making == {"s_activate", "s_baseline", "s_prepare", "s_up", "s_record"}
Owning == Making \union {"s_pending", "v_activate"}
Activated == {"s_baseline", "s_prepare", "s_up", "s_record", "s_pending"}
\* The steps of verify.ps1 past its check of the baseline.
Verifying == {"v_services", "v_pre", "v_idle", "v_before", "v_smoke", "v_wait", "v_post",
              "v_correlate", "v_final", "v_snapshot", "v_validate", "v_complete"}
\* Those past each comparison of identities.
AfterPre == Verifying \ {"v_services", "v_pre"}
AfterPost == {"v_correlate", "v_final", "v_snapshot", "v_validate", "v_complete"}
AfterFinal == {"v_snapshot", "v_validate", "v_complete"}

HasStarted(s) == "started_service_images" \in files[s]

\* A session that is not on disk has no files, and the active one is on disk.
RecordInv ==
    /\ \A s \in Session : status[s] = "ABSENT" => files[s] = {}
    /\ active # None => status[active] # "ABSENT"

\* What is known of the session of runner r at its next step.
SessionOf(r) ==
    /\ pc[r] \in Owning \union Verifying =>
           sess[r] \in Session /\ status[sess[r]] = "INCOMPLETE"
    /\ pc[r] \in {"s_unreachable", "v_baseline", "fail"} =>
           sess[r] \in Session /\ status[sess[r]] \in {"INCOMPLETE", "FAILED"}
    /\ pc[r] \in {"v_load", "idle"} /\ sess[r] # None => status[sess[r]] # "ABSENT"
    /\ pc[r] = "s_unreachable" => files[sess[r]] = {}
    /\ pc[r] = "v_baseline" /\ "host_baseline" \in files[sess[r]] =>
           status[sess[r]] = "INCOMPLETE"
    /\ pc[r] \in Verifying => "host_baseline" \in files[sess[r]]
    /\ pc[r] \in Activated => active = sess[r]
    /\ pc[r] \in Making => ~ HasStarted(sess[r])
    /\ pc[r] = "v_activate" => active = None

\* Who works on which session.  A session whose start.ps1 could not reach
\* Docker is written without the lock.  Nobody else has made it and it has no
\* evidence, so verify.ps1, which needs a baseline, can do no more than mark
\* it FAILED too.
SessionInv ==
    /\ RecordInv
    /\ \A r \in Runner : SessionOf(r)
    /\ \A r, q \in Runner :
           pc[r] = "s_unreachable" /\ pc[q] \in Owning => sess[q] # sess[r]

\* Container v still is the one whose start session s recorded.
StillRuns(s, v) ==
    /\ container[v].state = "running"
    /\ Identity[v] = evidence[s].started[v]

\* No container and no evidence is from the future, so what is started next
\* differs from both.
ClockInv ==
    /\ \A v \in Service : container[v].startedAt <= clock
    /\ \A s \in Session :
        /\ evidence[s].baselineAt <= clock
        /\ \A v \in Service : evidence[s].started[v][2] <= clock

\* Nothing that session s started is running any more.
Stopped(s) == \A v \in Daemon : ~ StillRuns(s, v)

\* Only the active session's containers can be running; between the stopped-
\* cluster preflight and the activation nobody's are.
StoppedInv ==
    /\ \A s \in Session : HasStarted(s) /\ s # active => Stopped(s)
    /\ \A r \in Runner : pc[r] \in {"s_session", "s_activate"} =>
           \A s \in Session : HasStarted(s) => Stopped(s)

\* A session's containers are newer than its baseline.
FreshInv ==
    /\ \A s \in Session : HasStarted(s) =>
           \A v \in Service : evidence[s].started[v][2] > evidence[s].baselineAt
    /\ \A r \in Runner : pc[r] = "s_record" =>
           \A v \in Service : container[v].startedAt > evidence[sess[r]].baselineAt

RuntimeInv == ClockInv /\ StoppedInv /\ FreshInv

\* How far the comparisons of runner r's verify.ps1 have got.
Compared(r) ==
    LET e == evidence[sess[r]] IN
    /\ pc[r] \in AfterPre => active = sess[r] /\ HasStarted(sess[r]) /\ e.pre = e.started
    /\ pc[r] \in AfterPost => e.post = e.pre
    /\ pc[r] \in AfterFinal => e.final = e.post

\* What they leave in a session that is COMPLETE.
BundleInv ==
    /\ \A r \in Runner : Compared(r)
    /\ \A s \in CompleteSessions :
        /\ HasStarted(s)
        /\ evidence[s].pre = evidence[s].started
        /\ evidence[s].post = evidence[s].pre
        /\ evidence[s].final = evidence[s].post

IInv == LockInv /\ SessionInv /\ RuntimeInv /\ BundleInv
-----------------------------------------------------------------------------
(* The jobs.  JInv is inductive together with IInv. *)

\* A job's client is a script that waits for it, and waits for no other.
ClientInv ==
    \A a \in App :
        LET c == job[a].client IN
        c # None =>
            /\ pc[c] = IF job[a].kind = "smoke" THEN "v_wait" ELSE "o_wait"
            /\ job[a].state # "unused"
            /\ \A b \in App : job[b].client = c => b = a

\* Applications that a script or a status document names are smoke jobs.
NameInv ==
    \A a \in App :
        \/ job[a].state # "unused" /\ job[a].kind = "smoke"
        \/ /\ \A r \in Runner : app[r] # a
           /\ \A s \in Session : appId[s] # a

\* Between the check and the job's end, the session that was verified stays
\* the active one.
ObserveInv ==
    \A r \in Runner : pc[r] \in {"o_run", "o_wait"} => active \in CompleteSessions

\* Swapping is noticed: an application has lived through no swap before it is
\* accepted, and through none that the counter kept for its session misses.
SwapInv ==
    /\ \A s \in Session : evidence[s].swapsBefore <= swaps
    /\ \A a \in App : job[a].swapped =>
           /\ job[a].state \notin {"unused", "launching"}
           /\ job[a].client # None /\ job[a].kind = "smoke" =>
                  evidence[sess[job[a].client]].swapsBefore < swaps

\* The steps of verify.ps1 after its smoke application has passed.
AfterSmoke == {"v_post"} \union AfterPost

\* What runner r's verify.ps1 knows of its smoke application.
SmokeOf(r) ==
    LET e == evidence[sess[r]]
        j == job[app[r]]
        known == e.started[ResourceManager][2]
        up == container[ResourceManager].startedAt
    IN
    /\ pc[r] \in AfterSmoke => app[r] # None /\ j.state = "succeeded" /\ j.kind = "smoke"
    /\ pc[r] = "v_post" /\ j.swapped => e.swapsBefore < swaps
    /\ pc[r] \in AfterPost /\ j.swapped => e.swapDetected
    /\ pc[r] = "v_complete" => ~ e.swapDetected
    /\ pc[r] \in {"v_correlate", "v_final"} => known <= up
    /\ pc[r] = "v_final" => known <= j.rm /\ j.rm <= up
    /\ pc[r] \in AfterFinal => j.rm = known

JobInv ==
    /\ ClientInv /\ NameInv /\ ObserveInv /\ SwapInv
    /\ \A r \in Runner : SmokeOf(r)
    /\ CompleteMeansSmokePassed

\* Unless a killed script leaves the container of its job behind, nothing is
\* submitted between the look at an idle cluster and the end of the smoke job
\* but the smoke job itself.
AloneInv ==
    /\ \A a \in Launching : job[a].client # None
    /\ \A r \in Runner : pc[r] \in {"v_before", "v_smoke"} => Active = {}
    /\ \A r \in Runner, a \in Active : pc[r] = "v_wait" => job[a].client = r
    /\ \A a \in App :
        \/ job[a].state \in {"unused", "launching"}
        \/ job[a].client # None /\ job[a].kind = "smoke"
        => job[a].met = {}
    /\ \A r \in Runner : pc[r] \in AfterSmoke => job[app[r]].met = {}
    /\ SmokeRanAlone

\* What the scripts rely on of jobs: who waits for which, which applications
\* they name, how far a verification has followed its own, and, when no killed
\* script leaves one behind, that it ran alone.
JInv == JobInv /\ ("orphan" \notin Faults => AloneInv)
=============================================================================
