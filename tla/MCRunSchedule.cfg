SPECIFICATION LiveSpec
CONSTANTS
    Schedules = {1}
    Policies <- AllPolicies
    Misfire = "run_once"
    Grace = 0
    Limit = 3
    Retain = 2
    TxPolicy = "per_script"
    MaxRuns = 4
    Scenarios <- AllScenarios
INVARIANTS
    RowsAgree
    NeverReplayed
    BlockedNeverRan
    PolicyBoundsExecution
    OpenRunsAreDriven
    LeasesAreHeld
PROPERTY
    OccurrencesSettle
