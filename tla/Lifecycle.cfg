SPECIFICATION FleetSpec
CONSTANTS
    Assets = {0, 1, 2}
    Holders = {h1}
    Codes = {1, 2}
    NoOne = NoOne
    Fleet = 2
    HolderOrder <- AllHolders
    PlanLength = 1
    SeedImages = 1
    MaxSeeds = 2
    Readers = {r1}
    Manager = Manager
    Filters = {"in_use"}
    PerPage = 1
    Pages = 2
    RecentLimit = 1
CONSTRAINT Bounded
INVARIANTS TypeOK OneActiveRequest AssetFollowsRequest CustodyHeld
           TrailLeadsHere SeededImagesExist DashboardAgrees PageFitsTotal
PROPERTIES SeedReplacesAll
