SPECIFICATION Spec
CONSTANTS
    Gates = {"printers"}
    MaxGateEdits = 2
    MaxGateMerges = 2
INVARIANTS
    UnchangedIsAccepted
CHECK_DEADLOCK FALSE
