\* Three calls for one path; they differ in the value they write only.
CONSTANTS
    Call = {c1, c2, c3}
    Absent = Absent
    Partial = Partial
    Faults = {"crash", "stuck"}
SPECIFICATION Spec
INVARIANTS IInv LeavesNothing
PROPERTY ImplementsRegister
CHECK_DEADLOCK FALSE
