SPECIFICATION Spec
CONSTANTS
  Runs = {"A", "B", "C"}
  Dispatches = {"A", "C"}
  Receipt <- MCReceipt
  Artifacts <- Flat
  Spellings = {"plain", "link"}
  Foreign = "foreign"
  MaxForeign = 1
INVARIANTS
  SuccessIsVisible SuccessIsDurable NoUnauditedOutput
PROPERTIES
  NothingIsReplaced
CHECK_DEADLOCK FALSE
