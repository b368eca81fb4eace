SPECIFICATION Spec
CONSTANTS
    Calls = {"r1", "c1", "s1", "x1"}
    MayAsk <- MCMayAsk
    EmailOf <- MCEmailOf
    Known <- MCKnown
    Threads = 2
    Connections = 2
    Attempts = 2
    NoCall = NoCall
INVARIANTS RegisteredOnce HeldOnlyWhileServed
PROPERTIES EveryRequestServed
\* Each call is served once, then the worker is idle.
CHECK_DEADLOCK FALSE
