------------------------------- MODULE YarnJobs -------------------------------
(***************************************************************************)
(* The Spark jobs that the host scripts launch in one-off spark-client     *)
(* containers (docker compose run --rm --no-deps spark-client ...) and the *)
(* YARN applications those submit.  YARN and Spark are not part of the     *)
(* repository: this module says what the scripts rely on.                  *)
(*                                                                         *)
(* A job is "launching" while its container runs and YARN has not yet      *)
(* accepted its application, and "active" while the application is in one  *)
(* of the states the scripts poll for.  The ResourceManager keeps no state *)
(* across restarts (no recovery is configured), so it loses the            *)
(* applications of its previous life.                                      *)
(***************************************************************************)
EXTENDS ComposeCluster, LocalYarn

CONSTANT MaxSwap   \* bound: how often the Docker VM swaps at most

ASSUME MaxSwapAssumption == MaxSwap \in Nat

VARIABLES
    job,         \* the job of each application
    swaps        \* the pswpin/pswpout counters of the Docker VM

jobVars == <<job, swaps>>

JobState == {"unused", "launching", "active", "succeeded", "failed"}
Job == [state : JobState,
        kind : {"smoke", "observability"},
        client : Runner \union {None},  \* the script waiting for the container
        rm : Stamp,                     \* start time of the RM that accepted it
        swapped : BOOLEAN,              \* history: swap occurred while active
        met : SUBSET App]               \* history: applications active with it

JobsTypeOK ==
    /\ job \in [App -> Job]
    /\ swaps \in 0 .. MaxSwap

JobsInit ==
    /\ job = [a \in App |-> [state |-> "unused", kind |-> "smoke", client |-> None,
                             rm |-> 0, swapped |-> FALSE, met |-> {}]]
    /\ swaps = 0

Active == {a \in App : job[a].state = "active"}
Launching == {a \in App : job[a].state = "launching"}
RmUp == container[ResourceManager].state = "running"

\* The ResourceManager that runs now has accepted application a.
KnownToYarn(a) ==
    /\ RmUp
    /\ job[a].rm = container[ResourceManager].startedAt

\* The active applications that do not survive the step from one state of the
\* containers to the next.
LoseApplications(removed) ==
    job' = [a \in App |->
        IF \/ a \in removed
           \/ /\ a \in Active
              /\ \/ container'[ResourceManager].state # "running"
                 \/ container'[ResourceManager].startedAt # job[a].rm
        THEN [job[a] EXCEPT !.state = "failed"]
        ELSE job[a]]

Launch(r, k, a) ==
    /\ job[a].state = "unused"
    /\ job' = [job EXCEPT ![a].state = "launching", ![a].kind = k, ![a].client = r]

Submit(a) ==
    /\ a \in Launching
    /\ RmUp
    /\ job' = [b \in App |->
           IF b = a THEN [job[a] EXCEPT !.state = "active",
                                        !.rm = container[ResourceManager].startedAt,
                                        !.met = Active]
           ELSE IF b \in Active THEN [job[b] EXCEPT !.met = @ \union {a}]
           ELSE job[b]]
    /\ UNCHANGED <<container, clock, swaps>>

Finish(a) ==
    /\ a \in Active
    /\ \E st \in {"succeeded", "failed"} : job' = [job EXCEPT ![a].state = st]
    /\ UNCHANGED <<container, clock, swaps>>

\* The container of a job ends and its client, if it still has one, returns.
\* A container that ends before it has submitted never will; its application
\* is left as it is or, when the script's clean-up gets through, killed.
ContainerEnds(a) ==
    \E killed \in BOOLEAN :
        job' = [job EXCEPT ![a].client = None,
                           ![a].state = IF @ = "launching" \/ (@ = "active" /\ killed)
                                        THEN "failed" ELSE @]

Swap ==
    /\ swaps < MaxSwap
    /\ swaps' = swaps + 1
    /\ job' = [a \in App |-> IF a \in Active THEN [job[a] EXCEPT !.swapped = TRUE]
                                             ELSE job[a]]
    /\ UNCHANGED <<container, clock>>
=============================================================================
