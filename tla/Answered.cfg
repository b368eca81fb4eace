SPECIFICATION InUseSpec
CONSTANTS
    Assets = {a1, a2}
    Holders = {h1}
    Sessions = {s1, s2}
    NoOne = NoOne
    LastCode = 2
    Attempts = 2
    MaxVersion = 5
INVARIANTS TypeOK WriterIsCurrent
PROPERTIES EveryCallAnswered DecisionsMoveBoth LoggedTransitions RequestLifecycle
