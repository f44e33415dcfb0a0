SPECIFICATION Spec
CONSTANTS
  Runs = {"A", "B", "C"}
  Dispatches = {"A", "C"}
  Receipt <- MCReceipt
  Artifacts <- Deep
  Spellings = {"plain"}
  Foreign = "foreign"
  MaxForeign = 1
INVARIANT SuccessIsDurable
CHECK_DEADLOCK FALSE
