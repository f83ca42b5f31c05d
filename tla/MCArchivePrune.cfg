SPECIFICATION Spec
CONSTANTS
    c1 = c1
    c2 = c2
    c3 = c3
    may = may
    june = june
    Clips = {c1, c2, c3}
    Months = {may, june}
    MonthOf <- TwoMonths
    MaxDeletions = 0
    MaxErrors = 0
    MaxCrashes = 1
SYMMETRY Symmetry
PROPERTY PruneSparesValid
CHECK_DEADLOCK FALSE
