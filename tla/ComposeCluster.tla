---------------------------- MODULE ComposeCluster ----------------------------
(***************************************************************************)
(* The containers of the LOCAL_YARN_V1 Compose project, as the host        *)
(* scripts see them through docker compose and docker inspect:             *)
(* src/infrastructure/docker/compose.yaml and host/runtime-evidence.ps1.   *)
(*                                                                         *)
(* A container has an identity (its id and the time it was last started)   *)
(* that changes whenever it is recreated or started again.  Ids and start  *)
(* times are drawn from one counter, so a later one is a larger number.    *)
(* hdfs-init is a one-shot: it is well when it has exited with code 0.     *)
(* Restart policy "no" keeps every RestartCount at 0, and all services use *)
(* one image whose change needs new containers, so neither is modelled.    *)
(***************************************************************************)
EXTENDS Naturals

CONSTANTS
    Service,          \* the services of compose.yaml that stay up or run once
    OneShot,          \* those that run once: hdfs-init
    ResourceManager,  \* the service that keeps YARN's applications
    MaxStamp          \* bound: how often containers are started at most

ASSUME ServiceAssumption ==
    /\ OneShot \subseteq Service
    /\ ResourceManager \in Service \ OneShot
ASSUME MaxStampAssumption == MaxStamp \in Nat

VARIABLES
    container,   \* what docker inspect reports of each service's container
    clock        \* the last id or start time handed out

clusterVars == <<container, clock>>

Stamp == 0 .. MaxStamp
State == {"absent", "running", "exited0", "stopped"}
Container == [state : State, cid : Stamp, startedAt : Stamp]

ClusterTypeOK ==
    /\ container \in [Service -> Container]
    /\ clock \in Stamp

ClusterInit ==
    /\ container = [v \in Service |-> [state |-> "absent", cid |-> 0, startedAt |-> 0]]
    /\ clock = 0

Daemon == Service \ OneShot
Running == {v \in Service : container[v].state = "running"}
Exists == {v \in Service : container[v].state # "absent"}

\* The lifecycle check of Get-LocalYarnServiceImageEvidence.
Healthy ==
    /\ \A v \in Daemon : container[v].state = "running"
    /\ \A v \in OneShot : container[v].state = "exited0"

\* What the evidence files and Assert-LocalYarnServiceIdentityMatches know a
\* container by.
Identity == [v \in Service |-> <<container[v].cid, container[v].startedAt>>]

Absent(v) == [state |-> "absent", cid |-> 0, startedAt |-> 0]
Started(v) == IF v \in OneShot THEN "exited0" ELSE "running"

\* docker compose up --detach --no-build --force-recreate: every service gets
\* a new container and, when up succeeds, hdfs-init has completed.
Up ==
    /\ clock < MaxStamp
    /\ clock' = clock + 1
    /\ container' = [v \in Service |->
           [state |-> Started(v), cid |-> clock + 1, startedAt |-> clock + 1]]

\* An up that fails leaves the services of S recreated, started or not, and
\* the others as they were or already removed.
UpFails(S, up) ==
    /\ clock < MaxStamp
    /\ clock' = clock + 1
    /\ container' = [v \in Service |->
           IF v \in up THEN [state |-> Started(v), cid |-> clock + 1, startedAt |-> clock + 1]
           ELSE IF v \in S THEN [state |-> "stopped", cid |-> clock + 1, startedAt |-> 0]
           ELSE container[v]]

\* docker compose down; one that fails has removed the services of S only.
Down(S) ==
    /\ container' = [v \in Service |-> IF v \in S THEN Absent(v) ELSE container[v]]
    /\ UNCHANGED clock

\* A service process dies, and with it its container.
Die(v) ==
    /\ v \in Running
    /\ container' = [container EXCEPT ![v].state = "stopped"]
    /\ UNCHANGED clock

\* Somebody starts a container again outside the scripts (docker start): the
\* container keeps its id and gets a new start time.
Restart(v) ==
    /\ v \in Exists
    /\ clock < MaxStamp
    /\ clock' = clock + 1
    /\ \E st \in {Started(v), "stopped"} :
           container' = [container EXCEPT ![v].state = st, ![v].startedAt = clock + 1]
=============================================================================
