SPECIFICATION LiveSpec
CONSTANTS
    ViewCameras = {"c1", "c2"}
    ViewSessions = 2
    StartupTimeout = 1
    IdleTimeout = 1
    MaxDuration = 2
    CodeSubmissions = 2
    CodePrompts = 2
    LoginRestarts = 1
    PromptTime = 1
    DriveGrants = 3
    LinkRequests = 4
    DriveFolderLimit = 4
    FolderUploads = 2
    FolderPrunes = 1
    FolderErrors = 2
    StagePieces = 2
    StageUploads = 2
    StageFaults = 1
    MergedClips = 3
    MergeBatch = 2
    MergePaths = {"A", "B"}
    MergeAnalysed = {1, 2}
    People = {"amy"}
    Enrolments = 2
    FaceCapacity = 2
    FaceTtl = 0
    FaceLimit = 3
    FaceEdits = 1
    FaceTime = 1
    VehicleClips = 5
    VehicleEdits = 2
    VehicleFaults = 1
    RuntimeClips = {"c1", "c2", "c3"}
    CvLimit = 2
    LoadFailures = 2
    Tab = "tab"
    Loader = "loader"
    ScanFrames = {1, 2, 3}
    Concurrency = 2
    Attempts = 3
    CameraNameSet = {"a", "b"}
    FirstCameraName = "a"
    OptionText = 1
    OptionCar = TRUE
    SettingEdits = 2
    SettingRenames = 1
    SettingFailures = 1
    SettingRestarts = 1
    AssetUsers = {"u1", "u2"}
    AssetNames = {"door", "gate"}
    AssetPlaces = {"a", "b"}
    FirstAssetPlace = "a"
    AssetsPerCamera = 2
    AssetRequests = 3
    AssetFailures = 1
    SyncModules = {"mini"}
    Minis = {"mini"}
    ArmedCameras = {"cam", "mini"}
    HomeOf <- TwoHomes
    NameOf <- OnePorch
    LastOf <- MiniLast
    ArmableKeys <- EachKey
    Commands = {"r1", "r2"}
    OverrideTtl = 1
    MaxCommands = 2
    ArmedElsewhere = 1
    Refreshes = 1
    JudgedClips = {"c1", "c2"}
    Judges = {"p1", "p2"}
    TrainingRows = 1
    Answers = 2
    Reanalyses = 1
    TrainingRuns = 2
PROPERTY EverythingEnds
CHECK_DEADLOCK FALSE
