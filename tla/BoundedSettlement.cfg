SPECIFICATION HostSpec
CONSTANTS
  Keys = {k1, k2}
  NoKey = nokey
  Instances = {i1, i2}
  Watched = i1
  Payloads <- MCPayloads
  IllTyped = {}
  ComputeFault <- MCComputeFault
  Accounts <- MCAccounts
  MaxBalance = 3
  ComputeCount = 0
  ObligationCount = 0
  Attestations <- OnePolicy
  Comparisons <- MCComparisons
  Compare <- MCCompare
  Effects <- SettlementEffects
SYMMETRY MCSymmetry
INVARIANTS StepBoundCovers
PROPERTIES EachInstanceIsAReference
