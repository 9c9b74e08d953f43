------------------------------- MODULE HdfsInit -------------------------------
(***************************************************************************)
(* What survives in the named volumes, and how it gets there: the NameNode *)
(* entry point formats an empty volume, and the one-shot hdfs-init         *)
(* container runs init-hdfs.sh, which waits for HDFS, makes the paths and  *)
(* puts the Spark archive.  docker compose up starts the containers and    *)
(* lets the NodeManagers and the History Server wait for hdfs-init to      *)
(* complete; docker compose down removes the containers and keeps the      *)
(* volumes.  HDFS itself is not part of the repository.                    *)
(*                                                                         *)
(* Whatever goes wrong uses up one of MaxFaults: a container dies, a       *)
(* DataNode is lost, a command fails or times out, HDFS is slower than all *)
(* attempts of a poll.                                                     *)
(***************************************************************************)
EXTENDS Integers

CONSTANTS
    MaxAttempts,  \* HDFS_INIT_MAX_ATTEMPTS
    MaxFaults     \* bound: how much goes wrong

ASSUME BoundsAssumption == MaxAttempts \in Nat \ {0} /\ MaxFaults \in Nat

VARIABLES
    \* in the volumes
    formatted,   \* current/VERSION exists
    paths,       \* how far the paths are made: mkdir, chown, chmod
    archive,     \* the archive is in HDFS under its name
    lost,        \* history: something was in HDFS that no longer is
    \* of the containers
    namenode,    \* "absent", "starting", "serving" or "dead"
    safe,        \* the NameNode is in safe mode
    live,        \* live DataNodes it knows
    dead,        \* DataNodes that have died
    pc, n,       \* of init-hdfs.sh
    exit,        \* of hdfs-init: "none", "zero" or "nonzero"
    workers,     \* NodeManagers and History Server have been started
    faults

volumeVars == <<formatted, paths, archive, lost>>
hdfsVars == <<namenode, safe, live, dead>>
initVars == <<pc, n, exit>>
vars == <<volumeVars, hdfsVars, initVars, workers, faults>>

Polls == {"rpc", "datanodes", "safemode"}
Mutations == {"mkdir", "chown", "chmod", "put"}

TypeOK ==
    /\ formatted \in BOOLEAN /\ archive \in BOOLEAN /\ lost \in BOOLEAN
    /\ paths \in 0 .. 3
    /\ namenode \in {"absent", "starting", "serving", "dead"}
    /\ safe \in BOOLEAN /\ live \in 0 .. 2 /\ dead \in 0 .. 2
    /\ pc \in {"off", "test", "zip", "final", "ended"} \union Polls \union Mutations
    /\ n \in 0 .. MaxAttempts - 1
    /\ exit \in {"none", "zero", "nonzero"}
    /\ workers \in BOOLEAN
    /\ faults \in 0 .. MaxFaults

Init ==
    /\ formatted = FALSE /\ paths = 0 /\ archive = FALSE /\ lost = FALSE
    /\ namenode = "absent" /\ safe = TRUE /\ live = 0 /\ dead = 0
    /\ pc = "off" /\ n = 0 /\ exit = "none"
    /\ workers = FALSE
    /\ faults = 0

Broken == namenode = "dead" \/ dead > 0

Fault == faults < MaxFaults /\ faults' = faults + 1

Writable == namenode = "serving" /\ ~ safe

-----------------------------------------------------------------------------
(* entrypoint.sh namenode, and HDFS *)

NameNodeStarts ==
    /\ namenode = "absent"
    /\ namenode' = "starting"
    /\ UNCHANGED <<volumeVars, safe, live, dead, initVars, workers, faults>>

\* Formatting makes an empty namespace.
Format ==
    /\ namenode = "starting" /\ ~ formatted
    /\ formatted' = TRUE
    /\ paths' = 0 /\ archive' = FALSE
    /\ lost' = (lost \/ paths > 0 \/ archive)
    /\ UNCHANGED <<hdfsVars, initVars, workers, faults>>

NameNodeServes ==
    /\ namenode = "starting" /\ formatted
    /\ namenode' = "serving" /\ safe' = TRUE /\ live' = 0
    /\ UNCHANGED <<volumeVars, dead, initVars, workers, faults>>

Register ==
    /\ namenode = "serving" /\ live + dead < 2
    /\ live' = live + 1
    /\ UNCHANGED <<volumeVars, namenode, safe, dead, initVars, workers, faults>>

LeaveSafeMode ==
    /\ namenode = "serving" /\ safe /\ live > 0
    /\ safe' = FALSE
    /\ UNCHANGED <<volumeVars, namenode, live, dead, initVars, workers, faults>>

\* No container is restarted (restart: "no").
HdfsFault ==
    /\ Fault
    /\ \/ /\ namenode \in {"starting", "serving"} /\ namenode' = "dead"
          /\ safe' = TRUE /\ live' = 0 /\ UNCHANGED dead
       \/ /\ live > 0 /\ live' = live - 1 /\ dead' = dead + 1
          /\ UNCHANGED <<namenode, safe>>
    /\ UNCHANGED <<volumeVars, initVars, workers>>

-----------------------------------------------------------------------------
(* init-hdfs.sh *)

\* The containers it depends on are healthy; that says that the DataNodes
\* run, not that they have registered.
InitStarts ==
    /\ pc = "off" /\ namenode = "serving"
    /\ pc' = "rpc"
    /\ UNCHANGED <<volumeVars, hdfsVars, n, exit, workers, faults>>

Exits(e) == pc' = "ended" /\ exit' = e

\* One attempt of a bounded poll.
Poll(from, found, to) ==
    /\ pc = from
    /\ \/ found /\ pc' = to /\ n' = 0 /\ UNCHANGED <<exit, faults>>
       \/ ~ found /\ n + 1 < MaxAttempts /\ n' = n + 1 /\ UNCHANGED <<pc, exit, faults>>
       \/ /\ ~ found /\ n + 1 = MaxAttempts /\ n' = 0 /\ Exits("nonzero")
          /\ Fault \/ (Broken /\ UNCHANGED faults)
    /\ UNCHANGED <<volumeVars, hdfsVars, workers>>

PollRpc == Poll("rpc", namenode = "serving", "datanodes")
PollDataNodes == Poll("datanodes", namenode = "serving" /\ live = 2, "safemode")
PollSafeMode == Poll("safemode", Writable, "mkdir")

\* A command with set -e: it does its work or the script ends.
Command(from, works, to) ==
    /\ pc = from
    /\ \/ works /\ pc' = to /\ UNCHANGED <<exit, faults>>
       \/ ~ works /\ Exits("nonzero") /\ UNCHANGED faults
       \/ Exits("nonzero") /\ Fault
    /\ UNCHANGED <<hdfsVars, n, workers>>

\* mkdir -p, chown -R and chmod may be repeated.
MakePaths_ErrorIgnored(from, k, to) ==
    /\ pc = from
    /\ \/ Writable /\ paths' = IF paths < k THEN k ELSE paths
       \/ UNCHANGED paths
    /\ pc' = to
    /\ UNCHANGED <<formatted, archive, lost, hdfsVars, n, exit, workers, faults>>
MakePaths(from, k, to) ==
    /\ Command(from, Writable, to)
    /\ paths' = IF pc' = to /\ paths < k THEN k ELSE paths
    /\ UNCHANGED <<formatted, archive, lost>>

\* hdfs dfs -test -e ends with 1 when the archive is absent, and also when it
\* cannot tell.
TestArchive_ErrorEnds ==
    /\ Command("test", archive, "final")
    /\ UNCHANGED volumeVars
TestArchive ==
    /\ pc = "test"
    /\ \/ archive /\ namenode = "serving" /\ pc' = "final" /\ UNCHANGED <<exit, faults>>
       \/ ~ (archive /\ namenode = "serving") /\ pc' = "zip" /\ UNCHANGED <<exit, faults>>
       \/ Fault /\ ((pc' = "zip" /\ UNCHANGED exit) \/ Exits("nonzero"))
    /\ UNCHANGED <<volumeVars, hdfsVars, n, workers>>

Zip == Command("zip", TRUE, "put") /\ UNCHANGED volumeVars

\* hdfs dfs -put copies under another name and renames at the end; it refuses
\* to replace a file.
Put_Overwrites ==
    /\ Command("put", Writable /\ live > 0, "final")
    /\ archive' = (pc' = "final")
    /\ lost' = (lost \/ (archive /\ pc' # "final"))
    /\ UNCHANGED <<formatted, paths>>
Put ==
    /\ Command("put", Writable /\ live > 0 /\ ~ archive, "final")
    /\ archive' = (archive \/ pc' = "final")
    /\ UNCHANGED <<formatted, paths, lost>>

FinalTest ==
    /\ pc = "final"
    /\ \/ archive /\ namenode = "serving" /\ Exits("zero") /\ UNCHANGED faults
       \/ ~ (archive /\ namenode = "serving") /\ Exits("nonzero") /\ UNCHANGED faults
       \/ Exits("nonzero") /\ Fault
    /\ UNCHANGED <<volumeVars, hdfsVars, n, workers>>

InitScript ==
    \/ InitStarts \/ PollRpc \/ PollDataNodes \/ PollSafeMode
    \/ MakePaths("mkdir", 1, "chown") \/ MakePaths("chown", 2, "chmod")
    \/ MakePaths("chmod", 3, "test")
    \/ TestArchive \/ Zip \/ Put \/ FinalTest

-----------------------------------------------------------------------------
(* docker compose *)

StartWorkers ==
    /\ exit = "zero" /\ ~ workers
    /\ workers' = TRUE
    /\ UNCHANGED <<volumeVars, hdfsVars, initVars, faults>>

RemoveContainers ==
    /\ namenode' = "absent" /\ safe' = TRUE /\ live' = 0 /\ dead' = 0
    /\ pc' = "off" /\ n' = 0 /\ exit' = "none"
    /\ workers' = FALSE
    /\ UNCHANGED volumeVars

\* stop.ps1 after a start that failed, or at any other time.
DownAfterFailure ==
    /\ exit = "nonzero" \/ (Broken /\ pc = "off")
    /\ RemoveContainers
    /\ UNCHANGED faults
DownAnyTime == Fault /\ RemoveContainers

Next ==
    \/ NameNodeStarts \/ Format \/ NameNodeServes \/ Register \/ LeaveSafeMode
    \/ HdfsFault \/ InitScript \/ StartWorkers \/ DownAfterFailure \/ DownAnyTime

Spec == Init /\ [][Next]_vars

\* Docker and HDFS make progress, and an operator who sees the start fail
\* stops the cluster and starts it again.
FairSpec ==
    /\ Spec
    /\ WF_vars(NameNodeStarts) /\ WF_vars(Format) /\ WF_vars(NameNodeServes)
    /\ WF_vars(Register) /\ WF_vars(LeaveSafeMode)
    /\ WF_vars(InitScript) /\ WF_vars(StartWorkers) /\ WF_vars(DownAfterFailure)

-----------------------------------------------------------------------------
\* NodeManagers and History Server run only over an HDFS that has all the
\* paths and the archive, whatever earlier starts left half done.
WorkersFindHdfsReady == workers => paths = 3 /\ archive

\* Nothing that was made in HDFS is ever taken back: no start formats a
\* namespace again, and no put replaces or truncates the archive.
NothingLost == ~ lost

\* No crash leaves anything in the volumes that keeps every later start from
\* completing.
StartsEventually == <>workers
=============================================================================
