------------------------- MODULE LifecycleProperties -------------------------
(***************************************************************************)
(* What the host scripts promise of LOCAL_YARN_V1 verification sessions.   *)
(***************************************************************************)
EXTENDS LocalYarnLifecycle

Protocol == INSTANCE SessionProtocol

CompleteSessions == {s \in Session : status[s] = "COMPLETE"}

\* The scripts that may touch Docker or a session's evidence: all between
\* the lock and the end of the finally block.
InCharge(r) == pc[r] \notin Unlocked

\* At most one script at a time is past the lock, whatever was killed before
\* (Enter-LocalYarnVerificationLock, and the finally block of every script).
\* "unlock" is also where a start.ps1 without Docker access ends; it never
\* had the lock.
OneScriptInCharge ==
    \A r, q \in Runner :
        /\ InCharge(r) /\ pc[r] # "unlock"
        /\ InCharge(q) /\ pc[q] # "unlock"
        => r = q

\* A session that is COMPLETE or FAILED stays so: no later start, verify or
\* retry, and no start without Docker access, relabels it
\* (Set-LocalYarnVerificationStatus itself overwrites any status).
TerminalIsFinal ==
    [][\A s \in Session : status[s] \in Terminal => status'[s] = status[s]]_status

\* The identities in the bundle of a COMPLETE session are one and the same
\* from start.ps1 to the end of verify.ps1, and the host baseline was taken
\* before any of those containers was started.
CompleteMeansOneRuntime ==
    \A s \in CompleteSessions :
        LET e == evidence[s] IN
        /\ e.started = e.pre /\ e.pre = e.post /\ e.post = e.final
        /\ \A v \in Service : e.started[v][2] > e.baselineAt

\* The application a COMPLETE session names succeeded on the very
\* ResourceManager start that start.ps1 recorded, was launched as a smoke
\* job, and the VM did not swap while it was active.
CompleteMeansSmokePassed ==
    \A s \in CompleteSessions :
        /\ appId[s] # None
        /\ LET j == job[appId[s]] IN
           /\ j.state = "succeeded"
           /\ j.kind = "smoke"
           /\ j.rm = evidence[s].started[ResourceManager][2]
           /\ ~ j.swapped

\* A session completes only while it is the active one, although verify.ps1
\* accepts the directory of any other INCOMPLETE session: once a later
\* start.ps1 has activated its own session, the containers of the earlier
\* one cannot be seen running again.
CompletesWhileActive ==
    [][\A s \in Session :
           status[s] # "COMPLETE" /\ status'[s] = "COMPLETE" => active = s]_<<status, active>>

\* The pointer never names a session without a status document, whenever a
\* script is killed (the document is written before the pointer).
ActiveSessionExists == active # None => active \in OnDisk

\* An accidental start.ps1 does not take the place of a session whose
\* cluster is still up (the comment in start.ps1 above the activation): the
\* pointer moves only when nothing that session started is running any more.
RunningSessionKept ==
    [][active' # active /\ active # None =>
           \A v \in Daemon :
               "started_service_images" \in files[active] =>
                   ~ /\ container[v].state = "running"
                     /\ evidence[active].started[v] = Identity[v]]_<<active, container>>

\* Nothing else ran on the cluster while the smoke application of a COMPLETE
\* session was active: no other smoke, and no observability job.
SmokeRanAlone ==
    \A s \in CompleteSessions : appId[s] # None => job[appId[s]].met = {}

\* An application that is launched for observability never becomes the
\* evidence of a session that is not complete yet, and no session is under
\* verification while one of its launchers waits.
ObservabilityAfterVerification ==
    \A a \in App :
        job[a].kind = "observability" =>
            /\ \A s \in Session : appId[s] # a
            /\ job[a].client # None => active \in CompleteSessions

\* A start.ps1 that gives up after the stopped-cluster preflight leaves the
\* session it has made FAILED ("a successful stopped-cluster preflight
\* activates a new session before capturing the baseline. Any later failure
\* is also marked `FAILED`", infrastructure/docker/README.md:205-207).
FailureIsMarked ==
    [][\A r \in Runner :
           pc[r] = "s_activate" /\ pc'[r] = "unlock" => status'[sess[r]] = "FAILED"]_vars

\* The scripts implement SessionProtocol: to a reader of the status documents
\* and the pointer, every step of every script, killed or not, is a step of
\* that protocol or none.
ImplementsProtocol == Protocol!Spec

-----------------------------------------------------------------------------
(* Liveness.  A script that is not killed goes on: every request and every  *)
(* container it waits for has a timeout or a bounded number of attempts,    *)
(* and docker itself is assumed to answer, so each step succeeds or throws. *)
(* Nothing is assumed of the services, of YARN or of the person who starts  *)
(* the scripts.                                                             *)

ScriptStep(r) == pc[r] # "idle" /\ Script(r)

FairSpec == Spec /\ \A r \in Runner : WF_vars(ScriptStep(r))

\* Every script ends and with it disposes the lock, even when its application never finishes and its
\* cluster never becomes idle.
ScriptsEnd == \A r \in Runner : pc[r] # "idle" ~> pc[r] = "idle"

\* verify.ps1 decides every session that it accepts, and start.ps1 leaves the
\* session it activated FAILED or with the evidence verify.ps1 needs.
SessionsAreDecided ==
    \A r \in Runner, s \in Session :
        /\ (pc[r] = "v_baseline" /\ sess[r] = s) ~> status[s] \in Terminal
        /\ (pc[r] = "s_activate" /\ sess[r] = s) ~>
               (status[s] = "FAILED" \/ "started_service_images" \in files[s])
=============================================================================
