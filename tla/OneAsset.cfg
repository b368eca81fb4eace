SPECIFICATION Spec
CONSTANTS
    Assets = {a1}
    Holders = {h1, h2}
    Sessions = {s1, s2, s3}
    NoOne = NoOne
    LastCode = 2
    Attempts = 3
    MaxVersion = 4
SYMMETRY Symmetry

PROPERTIES ImplementsLifecycle

