SPECIFICATION Spec
CONSTANTS
    Callers = {s1, s2, s3}
    Years = 2
    Base = 2
    Full = 3
    Limited = TRUE
    Attempts = 2
SYMMETRY Symmetry
INVARIANTS TypeOK Dense
PROPERTIES ConflictMeansOvertaken
