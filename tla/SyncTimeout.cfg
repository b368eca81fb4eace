SPECIFICATION GoodSpec
CONSTANTS
    NDash = 4
    NRules = 2
    RuleFile <- OneFile
    Receivers = {"email", "pager"}
    Inherit = "inherit"
    Checkouts <- MCCheckouts
    Calls <- MCCalls
    FailLimit = 3
    MaxRev = 2
    MaxRuns = 2
INVARIANT NeverAbandonsAPass
CHECK_DEADLOCK FALSE
