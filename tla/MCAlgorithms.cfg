SPECIFICATION Spec
INVARIANTS
    FacesAgree
    FramesTellTheStory
    ScoreIsFair
    DetectorIsRight
    VerdictHolds
    StagesMeasureRight
    LearningSettles
    AlertsArrive
