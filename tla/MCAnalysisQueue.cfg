SPECIFICATION Spec
CONSTANTS
    c1 = c1
    c2 = c2
    Clips = {c1, c2}
    BatchSize = 2
    MaxRetries = 1
    Alerting = TRUE
    MaxManual = 1
    MaxDbErrors = 1
    MaxLimits = 1
    MaxCrashes = 1
SYMMETRY Symmetry
INVARIANTS
    TypeOK
    OneAnalysis
    CompletedHasVerdict
    AlertedOnce
    FailureEarned
PROPERTY
    ImplementsWorkQueue
