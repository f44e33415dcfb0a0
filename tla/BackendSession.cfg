SPECIFICATION Spec
CONSTANTS
  r1 = r1
  r2 = r2
  pa = pa
  pb = pb
  RequestIds <- MCRequestIds
  Paths <- MCPaths
  Payloads <- MCPayloads
  MaxArtifacts = 1
  MaxTotalBytes = 2
  MaxRequests = 2
  MaxSeq = 1
SYMMETRY Symmetry
INVARIANTS
  EmissionAnswersItsRequest
CHECK_DEADLOCK FALSE
