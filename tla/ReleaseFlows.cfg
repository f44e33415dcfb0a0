SPECIFICATION FlowSpec
CONSTANTS
    Flows = {"lit", "core"}
    Tests = {t1, t2}
    LitCodes = {"PASS", "FAIL", "UNRESOLVED", "SKIPPED"}
    MaxCommits = 2
    MaxEdits = 2
    CoreFiles = {"core", "doc", "domain"}
    Required = {"core"}
    Overlays = {"doc"}
    BackendFiles = {"domain"}
    CoreArtifacts = {"gen", "opt"}
    Platforms = {"linux"}
    Modes = {755, 4755}
    MaxCoreCommits = 2
    MaxCoreEdits = 1
    MaxReleases = 2
    MaxTampers = 1
    MaxLoopRuns = 2
    MaxDomainEdits = 2
    MaxTools = 2
    MaxMatrixEdits = 3
    MaxMerges = 2
    MaxHandEdits = 2
    MaxMatrixRuns = 2
INVARIANTS
    LitGreenIsTrue
    LitRatchetHolds
    LitTerminalIsReproducible
    ReceiptIsOfItsCommit
    CandidateIsTheExport
    AdmittedIsReleased
CHECK_DEADLOCK FALSE
