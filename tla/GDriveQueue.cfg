SPECIFICATION Spec
CONSTANTS
    Clips = {c1, c2}
    BatchSize = 2
    MaxDriveFaults = 1
    MaxDbErrors = 1
    MaxCrashes = 1
SYMMETRY Symmetry
INVARIANTS
    TypeOK
    CompletedIsUploaded
    CopiesAccountedFor
    
PROPERTY
    ImplementsWorkQueue
