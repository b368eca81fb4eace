SPECIFICATION Spec
CONSTANTS
    People = {p1}
    Tabs = {tab}
    NSlots = 2
    None = None
    MaxTime = 1
    MaxSeeds = 1
    MaxBoth = 1
    Keywords = {k0, k1}
    NoKeyword = k0
    Pages <- MCPages
    MaxVersion = 3
    MaxOthers = 2
INVARIANTS TypeOK ListShowsLatest ReportsAreTrue
PROPERTIES ActsAsShown EditsWhatWasShown ListSettles
