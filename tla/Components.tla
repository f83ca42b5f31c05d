----------------------------- MODULE Components -----------------------------
(***************************************************************************)
(* The components that share no state with each other, side by side:       *)
(* `which` names the component a behaviour is about, s1, s2, ... hold that *)
(* component's variables in their order, and what is left of them stays 0. *)
(* The components take their constants from here, so that what is proved   *)
(* of them (Components_proofs, Pages_proofs) is for all their values; only *)
(* the camera names are a small instance.                                  *)
(***************************************************************************)
EXTENDS Integers

CONSTANTS
    ViewCameras, ViewSessions, StartupTimeout, IdleTimeout, MaxDuration,    \* LiveView
    CodeSubmissions, CodePrompts, LoginRestarts, PromptTime,                \* Login
    DriveGrants, LinkRequests,                                              \* DriveLink
    DriveFolderLimit, FolderUploads, FolderPrunes, FolderErrors,            \* DriveFolders
    StagePieces, StageUploads, StageFaults,                                 \* RestoreStaging
    MergedClips, MergeBatch, MergePaths, MergeAnalysed,                     \* RestoreMerge
    People, Enrolments, FaceCapacity, FaceTtl, FaceLimit, FaceEdits, FaceTime, \* Faces
    VehicleClips, VehicleEdits, VehicleFaults,                              \* Vehicles
    RuntimeClips, CvLimit, LoadFailures, Tab, Loader,                       \* VisionRuntime
    ScanFrames, Concurrency, Attempts,                                      \* RemoteDetection
    CameraNameSet, FirstCameraName, OptionText, OptionCar,                  \* CameraSettings
    SettingEdits, SettingRenames, SettingFailures, SettingRestarts,
    AssetUsers, AssetNames, AssetPlaces, FirstAssetPlace,                   \* MarkedAssets
    AssetsPerCamera, AssetRequests, AssetFailures,
    SyncModules, Minis, ArmedCameras, HomeOf, NameOf, LastOf, ArmableKeys,  \* ArmedState
    Commands, OverrideTtl, MaxCommands, ArmedElsewhere, Refreshes,
    JudgedClips, Judges, TrainingRows, Answers, Reanalyses, TrainingRuns     \* Feedback

VARIABLES which, s1, s2, s3, s4, s5, s6, s7, s8, s9, s10, s11, s12, s13, s14, s15, s16, s17, s18, s19

bank == <<which, s1, s2, s3, s4, s5, s6, s7, s8, s9, s10, s11, s12, s13, s14, s15, s16, s17, s18, s19>>

LV == INSTANCE LiveView WITH
    Cameras <- ViewCameras, MaxSessions <- ViewSessions,
    session <- s1, sess <- s2, lockop <- s3, sweeper <- s4, phase <- s5, created <- s6, shown <- s7, cut <- s8

LI == INSTANCE Login WITH
    MaxSubmissions <- CodeSubmissions, MaxPrompts <- CodePrompts, MaxRestarts <- LoginRestarts, conn <- s1, state <- s2,
    token <- s3, device <- s4, box <- s5, sending <- s6, result <- s7, timer <- s8, file <- s9, page <- s10,
    left <- s11, prompts <- s12, refused <- s13

DL == INSTANCE DriveLink WITH
    MaxGrants <- DriveGrants, MaxRequests <- LinkRequests, client <- s1, disk <- s2, google <- s3, flow <- s4, shown <- s5,
    refresh <- s6, leaving <- s7, requests <- s8

DF == INSTANCE DriveFolders WITH
    MaxFolders <- DriveFolderLimit, MaxUploads <- FolderUploads, MaxPrunes <- FolderPrunes,
    MaxErrors <- FolderErrors, folders <- s1, made <- s2, cache <- s3,
    up <- s4, prune <- s5, left <- s6, excused <- s7

RS == INSTANCE RestoreStaging WITH
    Pieces <- StagePieces, MaxUploads <- StageUploads, MaxFaults <- StageFaults, current <- s1, upload <- s2, piece <- s3, slot <- s4,
    asked <- s5, begun <- s6, faults <- s7

RM == INSTANCE RestoreMerge WITH
    BackupClips <- MergedClips, BatchSize <- MergeBatch, Paths <- MergePaths, Analysed <- MergeAnalysed,
    files <- s1, clips <- s2, kids <- s3, next <- s4, txn <- s5, startled <- s6, raced <- s7

FC == INSTANCE Faces WITH
    MaxEnrols <- Enrolments, Capacity <- FaceCapacity, Ttl <- FaceTtl, MaxFaces <- FaceLimit,
    MaxEdits <- FaceEdits, MaxTime <- FaceTime,
    clock <- s1, held <- s2, found <- s3, taken <- s4, photos <- s5, enrolling <- s6, patch <- s7, edits <- s8

VE == INSTANCE Vehicles WITH
    MaxClips <- VehicleClips, MaxEdits <- VehicleEdits, MaxFaults <- VehicleFaults,
    zone <- s1, drawn <- s2, stored <- s3, loaded <- s4, learned <- s5, phase <- s6, scene <- s7,
    clipsSeen <- s8, tabEdits <- s9, dbFaults <- s10, vans <- s11, used <- s12

VR == INSTANCE VisionRuntime WITH
    Clips <- RuntimeClips, MaxFailures <- LoadFailures, at <- s1,
    stage <- s2, slots <- s3, loaded <- s4, locks <- s5, threads <- s6, importing <- s7, failures <- s8

RD == INSTANCE RemoteDetection WITH
    Frames <- ScanFrames, request <- s1, attempt <- s2, failure <- s3,
    refused <- s4, late <- s5, outcome <- s6

CN == INSTANCE CameraNames WITH
    Cameras <- {"c1", "c2"}, Names <- {"a", "b", "c", "d"},
    FirstName <- [c \in {"c1", "c2"} |-> IF c = "c1" THEN "a" ELSE "b"], MaxRenames <- 2, MaxClips <- 1,
    MaxFailures <- 1, MaxRestarts <- 1, called <- s1, online <- s2, previous <- s3, report <- s4, step <- s5,
    known <- s6, renames <- s7, replacements <- s8, pendingRenames <- s9, pendingReplacements <- s10,
    rows <- s11, learned <- s12, option <- s13, aliases <- s14, aliasFile <- s15, owners <- s16, mapped <- s17,
    disturbed <- s18, counts <- s19

CS == INSTANCE CameraSettings WITH
    Names <- CameraNameSet, FirstName <- FirstCameraName, Option <- [text |-> OptionText, car |-> OptionCar],
    MaxEdits <- SettingEdits, MaxRenames <- SettingRenames, MaxFailures <- SettingFailures, MaxRestarts <- SettingRestarts,
    called <- s1, gone <- s2, moving <- s3, file <- s4, live <- s5, alias <- s6, page <- s7, saving <- s8,
    wanted <- s9, ahead <- s10, between <- s11, changes <- s12

MA == INSTANCE MarkedAssets WITH
    Users <- AssetUsers, Places <- AssetPlaces, FirstPlace <- FirstAssetPlace,
    MaxPerCamera <- AssetsPerCamera, MaxRequests <- AssetRequests, MaxFailures <- AssetFailures,
    assets <- s1, marked <- s2, frame <- s3,
    place <- s4, was <- s5, turn <- s6, asking <- s7, holder <- s8, unsaved <- s9, frameless <- s10, mixed <- s11,
    tally <- s12

AS == INSTANCE ArmedState WITH
    Modules <- SyncModules, SyncLess <- Minis, Cameras <- ArmedCameras, Home <- HomeOf, Name <- NameOf, Last <- LastOf,
    Armable <- ArmableKeys, Requests <- Commands, TTL <- OverrideTtl,
    MaxElsewhere <- ArmedElsewhere, MaxRefreshes <- Refreshes, truth <- s1, reading <- s2, override <- s3,
    refreshed <- s4, refresh <- s5, command <- s6, fresh <- s7, held <- s8, acts <- s9

FB == INSTANCE Feedback WITH
    Clips <- JudgedClips, People <- Judges, Limit <- TrainingRows, MaxAnswers <- Answers, MaxAnalyses <- Reanalyses,
    MaxRuns <- TrainingRuns,
    verdict <- s1, rows <- s2, answering <- s3, run <- s4, shown <- s5, changed <- s6, crossed <- s7, acts <- s8

(* A camera and a Mini of one name, the Mini merged last; what is armed.   *)
TwoHomes == [c \in ArmedCameras |-> IF c \in Minis THEN c ELSE "hub"]
OnePorch == [c \in ArmedCameras |-> "porch"]
MiniLast == [n \in {"porch"} |-> "mini"]
EachKey  == {<<"mini", "">>, <<"hub", "cam">>, <<"mini", "mini">>}

-----------------------------------------------------------------------------
(* The variables from the n-th on are not used.                            *)
Zero14 == s14 = 0 /\ s15 = 0 /\ s16 = 0 /\ s17 = 0 /\ s18 = 0 /\ s19 = 0
Same14 == UNCHANGED <<s14, s15, s16, s17, s18, s19>>
Zero13 == s13 = 0 /\ Zero14
Same13 == UNCHANGED <<s13>> /\ Same14
Zero12 == s12 = 0 /\ Zero13
Same12 == UNCHANGED <<s12>> /\ Same13
Zero10 == s10 = 0 /\ s11 = 0 /\ Zero12
Same10 == UNCHANGED <<s10, s11>> /\ Same12
Zero9 == s9 = 0 /\ Zero10
Same9 == UNCHANGED <<s9>> /\ Same10
Zero8 == s8 = 0 /\ Zero9
Same8 == UNCHANGED <<s8>> /\ Same9
Zero7 == s7 = 0 /\ Zero8
Same7 == UNCHANGED <<s7>> /\ Same8

Init ==
    \/ which = "live view" /\ LV!Init /\ Zero9
    \/ which = "login" /\ LI!Init /\ Zero14
    \/ which = "drive link" /\ DL!Init /\ Zero9
    \/ which = "drive folders" /\ DF!Init /\ Zero8
    \/ which = "staging" /\ RS!Init /\ Zero8
    \/ which = "merge" /\ RM!Init /\ Zero8
    \/ which = "faces" /\ FC!Init /\ Zero9
    \/ which = "vehicles" /\ VE!Init /\ Zero13
    \/ which = "runtime" /\ VR!Init /\ Zero9
    \/ which = "remote detection" /\ RD!Init /\ Zero7
    \/ which = "camera names" /\ CN!Init
    \/ which = "camera settings" /\ CS!Init /\ Zero13
    \/ which = "marked assets" /\ MA!Init /\ Zero13
    \/ which = "armed state" /\ AS!Init /\ Zero10
    \/ which = "feedback" /\ FB!Init /\ Zero9

Next ==
    /\ which' = which
    /\ \/ which = "live view" /\ LV!Next /\ Same9
       \/ which = "login" /\ LI!Next /\ Same14
       \/ which = "drive link" /\ DL!Next /\ Same9
       \/ which = "drive folders" /\ DF!Next /\ Same8
       \/ which = "staging" /\ RS!Next /\ Same8
       \/ which = "merge" /\ RM!Next /\ Same8
       \/ which = "faces" /\ FC!Next /\ Same9
       \/ which = "vehicles" /\ VE!Next /\ Same13
       \/ which = "runtime" /\ VR!Next /\ Same9
       \/ which = "remote detection" /\ RD!Next /\ Same7
       \/ which = "camera names" /\ CN!Next
       \/ which = "camera settings" /\ CS!Next /\ Same13
       \/ which = "marked assets" /\ MA!Next /\ Same13
       \/ which = "armed state" /\ AS!Next /\ Same10
       \/ which = "feedback" /\ FB!Next /\ Same9

Spec == Init /\ [][Next]_bank

-----------------------------------------------------------------------------
(* Live view: nothing runs on behind a session, Blink relays one camera at *)
(* a time, and an error is neither invented nor hidden.                    *)
LiveViewInOrder ==
    /\ [](which = "live view" => LV!LiveViewTypeOK /\ LV!NothingStranded /\ LV!OneCameraAtATime)
    /\ [][which = "live view" => LV!NoFalseCrash /\ LV!ErrorIsShown]_bank

(* Signing in to Blink: no code of an earlier prompt is sent, a refusal is *)
(* not repeated, and it is one device that asks.                           *)
LoginInOrder ==
    /\ [](which = "login" => LI!LoginTypeOK /\ LI!NoStaleCode /\ LI!NoLockout)
    /\ [][which = "login" => LI!SameDevice]_bank

(* Google Drive: the connection is never half there, the folder cache      *)
(* never leads into the trash, and tidying up costs no backup.             *)
DriveInOrder ==
    /\ which = "drive link" => DL!NoLimbo /\ DL!FileMatchesClient
    /\ which = "drive folders" => DF!CacheOutOfTrash /\ DF!FilesSurvive /\ DF!NoDuplicateFolders

(* Restoring a library: only a checked file is merged, and the merge       *)
(* neither changes nor doubles what is here.                               *)
RestoreInOrder ==
    /\ [](which = "staging" => RS!StagingTypeOK /\ RS!PiecesInOrder /\ RS!OnlyCheckedIsRestored)
    /\ [](which = "merge" => RM!MergeTypeOK /\ RM!OneRecordPerFile /\ RM!ChildrenFollow)
    /\ [][which = "staging" => RS!DiscardsItsOwn]_bank
    /\ [][which = "merge" => RM!ChangesNothingHere]_bank

(* A face found in a clip is stored once, and can be picked for as long as *)
(* it is fresh.                                                            *)
EnrolmentInOrder ==
    which = "faces" => FC!FacesTypeOK /\ FC!EnrolledOnce /\ FC!FreshFacesStay

(* The protected car is not mistaken for the one beside it, and its spot   *)
(* is not forgotten for one that was there once.                           *)
ParkingInOrder ==
    which = "vehicles" => VE!VehiclesTypeOK /\ VE!NeighbourIsNotMine /\ VE!SpotSurvivesOneVan

(* Detection, on the machine and at a remote service: models are loaded    *)
(* once, slots come back, and a failure is never taken for an empty clip.  *)
DetectionInOrder ==
    /\ which = "runtime" => VR!RuntimeTypeOK /\ VR!LoadedOnce /\ VR!SlotsReturned
    /\ which = "remote detection" =>
          RD!RemoteTypeOK /\ RD!EmptyMeansLooked /\ RD!RefusalIsReported /\ RD!BillStops

(* A camera that is renamed or replaced keeps its history, and its old     *)
(* clips are not another's.                                                *)
NamesInOrder ==
    which = "camera names" =>
        /\ CN!NamesTypeOK /\ CN!HistoryFollowsItsCamera /\ CN!ChainsKeepOldClipsApart
        /\ CN!AliasesLeadHome /\ CN!NoCameraVanishes

(* The settings of a camera and its marked assets: no edit of another page *)
(* is lost, and the analyzer works with what is saved.                     *)
SettingsInOrder ==
    /\ [](which = "camera settings" => CS!SettingsTypeOK /\ CS!EditsSurvive /\ CS!AnalyzerFollowsFile)
    /\ [](which = "marked assets" =>
            MA!AssetsTypeOK /\ MA!NamesStayApart /\ MA!AnalyzerWatchesFile /\ MA!FramesFitAssets)
    /\ [][which = "camera settings" => CS!SwitchesOutliveRenaming]_bank

(* What the pages show and take back: whether a camera is armed, and what  *)
(* the user says of a verdict.                                             *)
PagesInOrder ==
    /\ which = "armed state" => AS!NoJumpBack /\ AS!RefreshCorrects /\ AS!MiniShowsOneState
    /\ which = "feedback" => FB!OpinionKept /\ FB!NeverTowardMistake /\ FB!FreshAnswersTrained

(* "Not a threat" is a thumbs-up or a correction to "clear", never an      *)
(* answer that a clip should have been flagged.                            *)
NotAThreatNeverFlags == which = "feedback" => FB!NotAThreatNeverFlags

-----------------------------------------------------------------------------
(* What must eventually happen, of those of the components that promise    *)
(* something of the kind and of the backup queue.  As one component moves  *)
(* and the others do not exist, the k-th fair action of each is the k-th   *)
(* fair action of the whole.                                               *)
GQ == INSTANCE GDriveQueue WITH
    Clips <- {"c1", "c2"}, BatchSize <- 1, MaxDriveFaults <- 1, MaxDbErrors <- 0, MaxCrashes <- 1,
    library <- s1, rows <- s2, before <- s3, place <- s4, uploaded <- s5, client <- s6, hold <- s7,
    worker <- s8, budget <- s9, copies <- s10, blame <- s11

Living == {"live view", "login", "runtime", "remote detection", "camera names"}

LiveInit ==
    \/ Init /\ which \in Living
    \/ which = "backup" /\ GQ!Init /\ Zero12

LiveNext ==
    \/ which \in Living /\ Next
    \/ which' = which /\ which = "backup" /\ GQ!Next /\ Same12

(* LiveViewFairness, LoginFairness, RuntimeFairness, RemoteFairness,       *)
(* NameFairness and the fairness of the backup queue.                      *)
Fairly1 ==
    /\ which' = which
    /\ \/ which = "live view" /\ LV!LockStep /\ Same9
       \/ which = "login" /\ LI!ConnectStep /\ Same14
       \/ which = "runtime" /\ VR!Working /\ Same9
       \/ which = "remote detection" /\ RD!Return /\ Same7
       \/ which = "camera names" /\ CN!Refreshing
       \/ which = "backup" /\ GQ!WorkerStep /\ Same12
Fairly2 ==
    /\ which' = which
    /\ \/ which = "live view" /\ LV!SessionStep(1) /\ Same9
       \/ which = "login" /\ LI!Tick /\ Same14
       \/ which = "remote detection" /\ RD!RemoteStep(1) /\ Same7
       \/ which = "camera names" /\ ~s2 /\ CN!GoOffline
       \/ which = "backup" /\ GQ!HoldOffEnds /\ Same12
Fairly3 ==
    /\ which' = which
    /\ \/ which = "live view" /\ LV!SessionStep(2) /\ Same9
       \/ which = "remote detection" /\ RD!RemoteStep(2) /\ Same7
Fairly4 ==
    /\ which' = which
    /\ \/ which = "live view" /\ LV!Tick /\ Same9
       \/ which = "remote detection" /\ RD!RemoteStep(3) /\ Same7
Fairly5 ==
    /\ which' = which
    /\ \/ which = "live view" /\ LV!SweepNotes /\ Same9
       \/ which = "login" /\ LI!Started /\ Same14
Fairly6 == which' = which /\ which = "live view" /\ LV!SweepTearsDown /\ Same9

Fairness ==
    /\ WF_bank(Fairly1) /\ WF_bank(Fairly2) /\ WF_bank(Fairly3) /\ WF_bank(Fairly4)
    /\ SF_bank(Fairly5) /\ SF_bank(Fairly6)

LiveSpec == LiveInit /\ [][LiveNext]_bank /\ Fairness

-----------------------------------------------------------------------------
(* What is begun comes to an end: live views, prompts for a code and       *)
(* backups (the k-th camera's or clip's of each), a clip's stages, a       *)
(* remote detection, the taking in of a renamed camera (SessionsEnd,       *)
(* SignsInAgain, BackupsProceed, ClipsGetThrough, DetectionEnds and        *)
(* NamesSettle of their modules).                                          *)
EverythingEnds ==
    /\ []<>/\ which = "live view" => ~LV!Lives(1)
           /\ which = "login" => ~LI!Pc("prompt")
           /\ which = "runtime" => VR!Through
           /\ which = "backup" => ~GQ!Waits("c1")
    /\ []<>/\ which = "live view" => ~LV!Lives(2)
           /\ which = "login" => LI!SignedIn
           /\ which = "remote detection" => RD!Ended
           /\ which = "backup" => ~GQ!Waits("c2")
    /\ <>[](which = "camera names" => CN!TakenIn)

=============================================================================
