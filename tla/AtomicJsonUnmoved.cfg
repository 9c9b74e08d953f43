CONSTANTS
    Call = {c1, c2, c3}
    Absent = Absent
    Partial = Partial
    Faults = {"unmoved"}
SPECIFICATION Spec
INVARIANT DocumentKept
CHECK_DEADLOCK FALSE
