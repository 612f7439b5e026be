SPECIFICATION Spec
CONSTANTS
    Feeds = {f1, f2}
    Limits = {1, 2}
    MaxBatch = 2
    MaxArticles = 4
    MaxTime = 1
    None = None
SYMMETRY MCSymmetry
INVARIANTS
    TypeOK
    NoneTwice
    WalkComplete
    GapMissesOnlyBackdated
