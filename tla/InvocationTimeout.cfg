SPECIFICATION Spec
CONSTANTS
  pa = pa
  pb = pb
  pc1 = pc1
  Request = 1
  RequestIds = {1}
  Paths <- MCPaths
  Payloads <- MCContents
  MaxArtifacts = 2
  MaxTotalBytes = 2
  SourceSets <- MCSourceSets
  Capacity = 2
PROPERTY TimeoutIsCancelled
CHECK_DEADLOCK FALSE
