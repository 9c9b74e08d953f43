---------------------------- MODULE AtomicDocument ----------------------------
(***************************************************************************)
(* What the callers of Write-LocalYarnJson rely on, and what the lifecycle *)
(* takes for granted of its status documents and of its pointer: the       *)
(* document is a register.  A call puts its own value there at most once,  *)
(* whole, or fails and changes nothing.                                    *)
(***************************************************************************)
CONSTANTS Call,      \* the calls of Write-LocalYarnJson; each writes its own value
          Absent     \* no document

VARIABLES document,  \* the value last put there
          applied    \* the calls that have put theirs

Init == document = Absent /\ applied = {}

Apply(c) ==
    /\ c \notin applied
    /\ document' = c
    /\ applied' = applied \union {c}

Next == \E c \in Call : Apply(c)

Spec == Init /\ [][Next]_<<document, applied>>
=============================================================================
