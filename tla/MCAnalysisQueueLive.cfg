SPECIFICATION LiveSpec
CONSTANTS
    c1 = c1
    c2 = c2
    Clips = {c1, c2}
    BatchSize = 1
    MaxRetries = 1
    Alerting = TRUE
    MaxManual = 1
    MaxDbErrors = 0
    MaxLimits = 1
    MaxCrashes = 1
PROPERTY
    QueueDrains
