SPECIFICATION GoodSpec
CONSTANTS
    NDash = 4
    NRules = 2
    RuleFile <- OneFile
    Receivers = {"email", "pager"}
    Inherit = "inherit"
    Checkouts <- MCCheckouts
    Calls <- MCCalls
    FailLimit = 3
    MaxRev = 2
    MaxRuns = 2
INVARIANTS TypeOK SuccessMeansSynced AlertsAreDelivered NoPlaceholderPublished
           GivesUpOnlyWhenUnreachable SummaryIsComplete NextRunRepairs
\* After the last run and the last commit nothing is left to do.
CHECK_DEADLOCK FALSE
