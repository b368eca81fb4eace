SPECIFICATION Spec
CONSTANTS
    Callers = {s1, s2, s3}
    Years = 1
    Base = 2
    Full = 3
    Limited = FALSE
    Attempts = 3
SYMMETRY Symmetry
PROPERTY ConflictMeansOvertaken
