------------------------------- MODULE DataSet -------------------------------
(***************************************************************************)
(* What may happen to the files of a data set while any number of dsdgen   *)
(* processes write them: a file holds rows of one process, in order; no    *)
(* file is written by two processes at a time; only a process that may     *)
(* force it replaces a file that is there; no file goes away.              *)
(***************************************************************************)
EXTENDS Integers, Sequences

CONSTANTS Process,
          Sampled(_)   \* Sampled(f): f holds validated rows, in any order

VARIABLES disk,    \* file -> the numbers of the rows in it
          open,    \* process -> the files it has open
          force    \* the processes that may replace files

vars == <<disk, open, force>>

Init ==
    /\ disk = [f \in {} |-> << >>]
    /\ open = [p \in Process |-> {}]
    /\ force \in SUBSET Process

Changed(f) == f \notin DOMAIN disk \/ disk'[f] # disk[f]

\* A row at the end of an open file, after the rows that are there.
Extended(f) ==
    \E k \in {disk'[f][Len(disk'[f])]} :
        /\ disk'[f] = Append(disk[f], k)
        /\ Sampled(f) \/ disk[f] = << >> \/ disk[f][Len(disk[f])] < k

\* A new file, empty or with its first row.
Started(p, f) == (f \notin DOMAIN disk \/ p \in force) /\ Len(disk'[f]) <= 1

\* A step of process p: to the files it touches go the lines of one row.
Turn(p) ==
    LET touched == {f \in DOMAIN disk' : Changed(f)} \cup (open'[p] \ open[p])
    IN  /\ DOMAIN disk \subseteq DOMAIN disk'
        /\ open'[p] \subseteq DOMAIN disk'
        /\ open' = [open EXCEPT ![p] = open'[p]]
        /\ \A f \in touched : IF f \in open[p] THEN Extended(f) ELSE Started(p, f)
        /\ \A f \in touched, q \in Process \ {p} : f \notin open[q]
        /\ \A f, g \in touched :
               \/ disk'[f] = << >> \/ disk'[g] = << >>
               \/ disk'[f][Len(disk'[f])] = disk'[g][Len(disk'[g])]

Next == UNCHANGED force /\ \E p \in Process : Turn(p)

Spec == Init /\ [][Next]_vars
==============================================================================
