---------------------------- MODULE HdfsInitProofs ----------------------------
(***************************************************************************)
(* The workers find HDFS as init-hdfs.sh should leave it, and nothing that *)
(* was made is taken back, for any number of attempts and of faults, and   *)
(* so for any number of starts over what earlier ones left.                *)
(***************************************************************************)
EXTENDS HdfsInit, TLAPS

\* How far init-hdfs.sh is says how far the paths are made, unless it has yet to make them.
PathsFollow ==
    /\ pc = "chown" => paths >= 1
    /\ pc = "chmod" => paths >= 2
    /\ pc \in {"test", "zip", "put", "final"} => paths = 3
    /\ exit = "zero" => paths = 3 /\ archive

\* A namespace that has anything in it is formatted; a script that has ended has an exit
\* status, and only one of status zero lets the workers start.
VolumesFollow ==
    /\ paths > 0 \/ archive => formatted
    /\ Writable => formatted
    /\ namenode = "serving" => formatted
    /\ workers => exit = "zero"
    /\ exit # "none" => pc = "ended"

\* There are two DataNodes.
TwoDataNodes == live + dead <= 2

IInv == TypeOK /\ PathsFollow /\ VolumesFollow /\ TwoDataNodes /\ NothingLost

LEMMA InitInvariant == Init => IInv
<1> SUFFICES ASSUME Init PROVE IInv
    OBVIOUS
<1>1. n \in 0 .. MaxAttempts - 1 /\ faults \in 0 .. MaxFaults
      BY BoundsAssumption DEF Init
<1>2. TypeOK
  <2>1. formatted \in BOOLEAN /\ archive \in BOOLEAN /\ lost \in BOOLEAN /\ safe \in BOOLEAN /\ workers \in BOOLEAN
      BY DEF Init
  <2>2. pc \in {"off", "test", "zip", "final", "ended"} \union Polls \union Mutations
      BY DEF Init
  <2>3. namenode \in {"absent", "starting", "serving", "dead"} /\ exit \in {"none", "zero", "nonzero"}
      BY DEF Init
  <2>4. paths \in 0..3 /\ live \in 0..2 /\ dead \in 0..2
      BY DEF Init
  <2> QED
      BY <1>1, <2>1, <2>2, <2>3, <2>4 DEF TypeOK
<1>3. PathsFollow /\ VolumesFollow /\ TwoDataNodes /\ NothingLost
      BY DEF Init, PathsFollow, VolumesFollow, TwoDataNodes, NothingLost, Writable
<1> QED
    BY <1>2, <1>3 DEF IInv

\* Neither a step of the entry point, of init-hdfs.sh or of docker compose, nor anything that
\* goes wrong, breaks the invariant.
LEMMA NextInvariant == IInv /\ [Next]_vars => IInv'
<1> SUFFICES ASSUME IInv, [Next]_vars PROVE IInv'
    OBVIOUS
<1> USE BoundsAssumption
    DEF IInv, TypeOK, PathsFollow, VolumesFollow, TwoDataNodes, NothingLost, Writable, Polls, Mutations,
        volumeVars, hdfsVars, initVars, Fault, Exits
<1>1. CASE NameNodeStarts
  <2>1. TypeOK'
        BY <1>1 DEF NameNodeStarts
  <2>2. PathsFollow'
        BY <1>1 DEF NameNodeStarts
  <2>3. VolumesFollow' /\ TwoDataNodes' /\ NothingLost'
        BY <1>1 DEF NameNodeStarts
  <2> QED
      BY <2>1, <2>2, <2>3
<1>2. CASE Format
  <2>1. paths = 0 /\ archive = FALSE /\ lost' = FALSE
        BY <1>2 DEF Format
  <2> QED
      BY <1>2, <2>1 DEF Format
<1>3. CASE NameNodeServes
      BY <1>3 DEF NameNodeServes
<1>4. CASE Register
      BY <1>4 DEF Register
<1>5. CASE LeaveSafeMode
      BY <1>5 DEF LeaveSafeMode
<1>6. CASE HdfsFault
  <2>1. TypeOK'
    <3>1. n' \in 0 .. MaxAttempts - 1 /\ faults' \in 0 .. MaxFaults
          BY <1>6 DEF HdfsFault
    <3>2. live' \in 0 .. 2 /\ dead' \in 0 .. 2 /\ paths' \in 0 .. 3
          BY <1>6 DEF HdfsFault
    <3>3. namenode' \in {"absent", "starting", "serving", "dead"} /\ safe' \in BOOLEAN
          BY <1>6 DEF HdfsFault
    <3> QED
        BY <3>1, <3>2, <3>3, <1>6 DEF HdfsFault
  <2>2. PathsFollow'
        BY <1>6 DEF HdfsFault
  <2>3. VolumesFollow' /\ TwoDataNodes' /\ NothingLost'
        BY <1>6 DEF HdfsFault
  <2> QED
      BY <2>1, <2>2, <2>3
<1>7. CASE InitScript
  <2>1. CASE InitStarts
        BY <2>1 DEF InitStarts
  <2>2. CASE PollRpc
        BY <2>2 DEF PollRpc, Poll
  <2>3. CASE PollDataNodes
        BY <2>3 DEF PollDataNodes, Poll
  <2>4. CASE PollSafeMode
        BY <2>4 DEF PollSafeMode, Poll
  <2>5. CASE MakePaths("mkdir", 1, "chown")
        BY <2>5 DEF MakePaths, Command
  <2>6. CASE MakePaths("chown", 2, "chmod")
        BY <2>6 DEF MakePaths, Command
  <2>7. CASE MakePaths("chmod", 3, "test")
        BY <2>7 DEF MakePaths, Command
  <2>8. CASE TestArchive
        BY <2>8 DEF TestArchive
  <2>9. CASE Zip
        BY <2>9 DEF Zip, Command
  <2>10. CASE Put
         BY <2>10 DEF Put, Command
  <2>11. CASE FinalTest
         BY <2>11 DEF FinalTest
  <2> QED
      BY <1>7, <2>1, <2>2, <2>3, <2>4, <2>5, <2>6, <2>7, <2>8, <2>9, <2>10, <2>11
      DEF InitScript
<1>8. CASE StartWorkers
      BY <1>8 DEF StartWorkers
<1>9. CASE DownAfterFailure \/ DownAnyTime
  <2>1. TypeOK'
    <3>1. n' \in 0 .. MaxAttempts - 1 /\ faults' \in 0 .. MaxFaults
          BY <1>9 DEF DownAfterFailure, DownAnyTime, RemoveContainers
    <3>2. live' \in 0 .. 2 /\ dead' \in 0 .. 2 /\ paths' \in 0 .. 3
          BY <1>9 DEF DownAfterFailure, DownAnyTime, RemoveContainers
    <3>3. namenode' \in {"absent", "starting", "serving", "dead"} /\ safe' \in BOOLEAN
          BY <1>9 DEF DownAfterFailure, DownAnyTime, RemoveContainers
    <3> QED
        BY <3>1, <3>2, <3>3, <1>9 DEF DownAfterFailure, DownAnyTime, RemoveContainers
  <2>2. PathsFollow'
        BY <1>9 DEF DownAfterFailure, DownAnyTime, RemoveContainers
  <2>3. VolumesFollow' /\ TwoDataNodes' /\ NothingLost'
        BY <1>9 DEF DownAfterFailure, DownAnyTime, RemoveContainers
  <2> QED
      BY <2>1, <2>2, <2>3
<1>10. CASE UNCHANGED vars
       BY <1>10 DEF vars
<1> QED
    BY <1>1, <1>2, <1>3, <1>4, <1>5, <1>6, <1>7, <1>8, <1>9, <1>10 DEF Next

\* The strengthening the results below rest on: how far the script is says what the volumes
\* hold, and what the volumes hold was only ever added to.
THEOREM Invariant == Spec => []IInv
BY InitInvariant, NextInvariant, PTL DEF Spec

\* NodeManagers and the History Server are started only when all the paths are made and the
\* Spark archive is in its place.
THEOREM WorkersReady == Spec => []WorkersFindHdfsReady
<1>1. IInv => WorkersFindHdfsReady
      BY DEF IInv, PathsFollow, VolumesFollow, WorkersFindHdfsReady
<1> QED
    BY <1>1, Invariant, PTL

\* No start formats a namespace again or takes back a path or the archive.
THEOREM NothingTakenBack == Spec => []NothingLost
<1>1. IInv => NothingLost
      BY DEF IInv
<1> QED
    BY <1>1, Invariant, PTL
===============================================================================
