------------------------- MODULE VerificationSession -------------------------
(***************************************************************************)
(* The record of LOCAL_YARN_V1 verification sessions that the host scripts *)
(* share on disk, and the lock that is meant to keep them apart:           *)
(* src/infrastructure/docker/host/verification-session.ps1.                *)
(*                                                                         *)
(* Each operator below is one function of that file.  A document is        *)
(* replaced as a whole (Write-LocalYarnJson renames a finished temporary   *)
(* file over it), so a write is one step; module AtomicJson justifies it.  *)
(* Timestamps, the step names and the failure texts in the status document *)
(* are left out.                                                           *)
(***************************************************************************)
EXTENDS LocalYarn

CONSTANT Session   \* the evidence directories that sessions are given

ASSUME SessionAssumption == None \notin Session

VARIABLES
    lock,      \* the runner that has .verification.lock open, or None
    status,    \* verification_status.json of each session: its status
    appId,     \* verification_status.json of each session: its application_id
    active     \* the session .active-verification.json names, or None

recordVars == <<status, appId, active>>

Terminal == {"COMPLETE", "FAILED"}
Status == {"ABSENT", "INCOMPLETE"} \union Terminal

RecordTypeOK ==
    /\ lock \in Runner \union {None}
    /\ status \in [Session -> Status]
    /\ appId \in [Session -> App \union {None}]
    /\ active \in Session \union {None}

RecordInit ==
    /\ lock = None
    /\ status = [s \in Session |-> "ABSENT"]
    /\ appId = [s \in Session |-> None]
    /\ active = None

OnDisk == {s \in Session : status[s] # "ABSENT"}

(***************************************************************************)
(* The lock is a file opened with FileShare.None: a second open fails with *)
(* a sharing violation, and the operating system closes the file of a      *)
(* process that dies.  A runner that is refused throws before it has done  *)
(* anything, which is a stuttering step.                                   *)
(***************************************************************************)
EnterLock_Shared(r) == lock' = r
EnterLock(r) ==
    /\ lock = None
    /\ lock' = r

ExitLock(r) == lock' = IF lock = r THEN None ELSE lock

\* The directory and its INCOMPLETE status document.  The pointer is a
\* second document, written by Activate.
NewSession(s) ==
    /\ status[s] = "ABSENT"
    /\ status' = [status EXCEPT ![s] = "INCOMPLETE"]
    /\ appId' = [appId EXCEPT ![s] = None]

Activate(s) == active' = s

\* Whatever the status was, it is overwritten; the application is overwritten
\* only by a caller that passes one.
SetStatus(s, st, a) ==
    /\ status[s] # "ABSENT"
    /\ status' = [status EXCEPT ![s] = st]
    /\ appId' = IF a = None THEN appId ELSE [appId EXCEPT ![s] = a]
=============================================================================
