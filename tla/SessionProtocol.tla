---------------------------- MODULE SessionProtocol ----------------------------
(***************************************************************************)
(* What a verification session is to its readers, with no scripts, locks,  *)
(* containers or evidence files: a record that is made INCOMPLETE, may     *)
(* become the active one, and is decided once, as COMPLETE only while it   *)
(* is the active one (docs/benchmark_environment.md, section 4, and        *)
(* infrastructure/docker/README.md).  LocalYarnLifecycle implements it.    *)
(***************************************************************************)
CONSTANTS Session, None

VARIABLES status, active

Init ==
    /\ status = [s \in Session |-> "ABSENT"]
    /\ active = None

Create(s) ==
    /\ status[s] = "ABSENT"
    /\ status' = [status EXCEPT ![s] = "INCOMPLETE"]
    /\ UNCHANGED active

\* Only a session that nobody has decided becomes the active one.
Activate(s) ==
    /\ status[s] = "INCOMPLETE"
    /\ active' = s
    /\ UNCHANGED status

Fail(s) ==
    /\ status[s] = "INCOMPLETE"
    /\ status' = [status EXCEPT ![s] = "FAILED"]
    /\ UNCHANGED active

Complete(s) ==
    /\ s = active
    /\ status[s] = "INCOMPLETE"
    /\ status' = [status EXCEPT ![s] = "COMPLETE"]
    /\ UNCHANGED active

Next == \E s \in Session : Create(s) \/ Activate(s) \/ Fail(s) \/ Complete(s)

Spec == Init /\ [][Next]_<<status, active>>
=============================================================================
