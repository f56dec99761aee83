SPECIFICATION Spec
CONSTANTS
    Bumpers = {b1, b2}
    Reviewers = {r1, r2}
    Blank = Blank
    EpochMax = 4
SYMMETRY Symmetry
INVARIANTS
    TypeOK
    DetectedUnlessTorn
