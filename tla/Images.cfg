SPECIFICATION Spec
CONSTANTS
    Submissions = {s1, s2}
    Images = 2
    Attempts = 2
SYMMETRY Symmetry
INVARIANTS TypeOK CreatedHasImages RowsHaveObjects OrphansAreTraced
