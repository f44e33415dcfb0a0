SPECIFICATION Spec
CONSTANTS
  Keys = {k1, k2}
  NoKey = nokey
  Payloads <- MCPayloads
  IllTyped <- MCIllTyped
  ComputeFault <- MCComputeFault
  Accounts <- MCAccounts
  MaxBalance = 7
  ComputeCount = 1
  ObligationCount = 0
  Attestations <- MCAttestations
  Comparisons <- MCComparisons
  Compare <- MCCompare
  Effects <- TemporalEffects
INVARIANTS
  TypeOK LedgerMatchesCommits ValueConserved TerminalIffComplete CommitsBackedByClaim OutcomeContract InconsistentKeyFrozen
PROPERTIES
  CommitsAreForever CallsTouchOneKey
