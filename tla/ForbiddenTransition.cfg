SPECIFICATION Spec
CONSTANTS
    Assets = {a1, a2}
    Holders = {h1}
    Sessions = {s1, s2}
    NoOne = NoOne
    LastCode = 2
    Attempts = 3
    MaxVersion = 3
SYMMETRY Symmetry

PROPERTY OnlyDiagramMoves
