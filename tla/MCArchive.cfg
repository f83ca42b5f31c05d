SPECIFICATION Spec
CONSTANTS
    c1 = c1
    c2 = c2
    c3 = c3
    may = may
    june = june
    Clips = {c1, c2}
    Months = {may}
    MonthOf <- OneMonth
    MaxDeletions = 1
    MaxErrors = 1
    MaxCrashes = 1
SYMMETRY Symmetry
INVARIANTS
    TypeOK
    VideoKept
    ArchivedInZip
CHECK_DEADLOCK FALSE
