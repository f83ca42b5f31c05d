# A verification project for the Blink clip downloader

The program is a Home Assistant add-on. One Python process (asyncio, one event
loop) polls the Blink cloud for new clips, downloads them, has an AI provider
judge them, archives old ones into monthly ZIPs, backs them up to Google Drive,
and serves a web interface with live view. PostgreSQL holds the library and two
work queues; a JSON file holds what the downloader remembers.

What is hard here is not the arithmetic. It is that everything runs on one
event loop and is interrupted at every `await`, that several parts share one
object (the analyzer, the Drive client, the tracker, a queue row, a file that
the archiver may move), that the cloud services answer late, partly or not at
all, and that the process may stop at any point and starts again from what it
had written down. The models therefore take one step from one `await` to the
next, and the properties relate what different actors know.

All source paths below are under `src/blink_clip_downloader/blink_downloader/`.

## 1. Inventory

| Component | State it keeps | Operations | Interacts with | What is hard | What makes it correct |
|---|---|---|---|---|---|
| Clip downloads (`downloader.py`, `tracker.py`) | tracker in memory and on disk: ids, failures, list cursor | poll, batch download, backoff, give up, save | Blink, storage quota, restore, app | late listing, partial lists, crash between download and save | no clip is passed by the cursor; the file never leads; failures survive |
| Analysis queue (`analysis_queue.py`, `database/queues.py`) | rows, the worker's batch, the analyzer's flags | enqueue, take, analyse, save, complete, alert, requeue, fail, restart | analyzer, Analyze Now, alerts, deletion | flags of a shared object, statements that fail between two others | one verdict and one alert per clip; no unearned failure; the queue drains |
| Drive upload queue (`gdrive_queue.py`) | rows, the batch, the hold-off | enqueue, locate, resolve folder, upload, mark, complete, requeue, fail, pause, retry, clear, prune folders | Drive client, archiver, Storage tab | flags of a shared client, a file moved under an upload, lost replies | a completed clip knows its backup; a refused one stays queued; copies accounted for |
| Drive client (`gdrive_client.py`) | tokens, pause, flags, folder and quota caches | device flow, refresh, disconnect, list, create, upload, trash | queue, Storage tab, library backup | refresh racing disconnect, cached folder trashed | never half connected; flags mean this attempt; cache out of the trash |
| Archiver (`archiver.py`) | monthly ZIPs, archived rows | archive a month, prune orphans, quarantine | retention, Drive queue, delete-archive | ZIP and rows change in two places | every row's video is somewhere; nothing deleted before it is in the ZIP |
| Storage (`storage.py`) | the library folder | quota check, retention by age and size | downloader, archiver | runs beside downloads and archiving | never removes what has not been archived when archiving is on |
| App (`app.py`) | optional parts, pending fast polls, aliases | poll loop, burst, post-processing, migrations, shutdown | everything | order of start and stop, exceptions between steps | each downloaded clip is recorded, queued and published once |
| Live view (`live_view.py`) | the session: relay stream, ffmpeg, directory, feed and watcher | start, stop, heartbeat, watch, sweep, close | Blink, web handlers, renames | watcher, sweeper and stop race on one session | nothing outlives its session; one camera at a time; every session ends |
| Sign-in and two-factor prompt (`downloader.py`, `media_server/access.py`, `stores/auth.ts`) | cached token, device id, event, code, prompt flag | connect, wait, submit, time out, retry | web page, code file | a code early, late or twice | a code answers the prompt it was typed for; no lockout; one device |
| Camera names (`downloader.py`, `app.py`, `database/cameras.py`) | identities file, pending migrations, aliases | refresh the topology, notice renames and replacements, migrate | database, settings, live view | chains of renames, failed migrations, restarts half-way | a camera's history, options and aliases follow it |
| Camera settings and marked assets (`media_server/camera_configs.py`, `assets.py`, `vehicles.py`) | two JSON files, the analyzer's copy, reference frames | load, edit, save on a revision, mark, redraw, delete | pages, renames, analyzer | pages save whole lists over each other | no accepted edit is lost; the analyzer follows the file |
| Arming (`downloader.py`, `media_server/sync_module.py`) | Blink's state, overrides with an age | arm, refresh, show | Blink, poll, tab | a refresh begun before a command ends after it | the tab never jumps back; a wrong override is corrected |
| Faces (`face_enrollment.py`, `vision/faces.py`, `face_outcomes.py`) | candidates in memory, enrolled photos | scan, enrol, approve, rename, delete, match | web pages, analyzer | double clicks, eviction, matching faces to people | one row for a face; fresh faces can be picked; strangers count |
| Feedback and training (`verdict_feedback.py`, `alert_actions.py`, `media_server/finetune.py`, `database/learning.py`) | feedback rows, trained flags | answer, change, clear, train | phone alerts, library, analyzer | a verdict that changes between two readings | one row that says what the person meant |
| Learning (`database/learning.py`, `security/vehicles.py`) | scene, hours and lengths per camera, thresholds, vehicle signature | learn, score, tune | analyzer, settings pages | learning from what should not be learned | lasting changes are adopted, passing ones not |
| Backup and restore (`backup/`, `database/backup.py`) | the staged file, one slot, the merge's transaction | upload pieces, inspect, restore, discard | downloader, scan, tracker | pieces twice or out of order, rows added while merging | only the checked file is merged; nothing here is changed or doubled |
| Analyzer and providers (`analyzer/`) | lock, flags, health, budget | choose frames, ask, read the reply, escalate, adjust the verdict | queue, vision, security | failing, cut-off and contradicting replies | the strongest evidence decides; a failure is nobody's verdict |
| Security detector (`security/`) | none between clips but what is learned | associate, detect events, weigh evidence, score, explain | analyzer, vision | sparse frames, stages that disagree | the better measurement wins; missing evidence never raises |
| Vision (`vision/`) | loaded models, slots, locks | load, scan, detect, segment, measure, listen | detector, Hugging Face | first loads at once, threads that cannot be stopped, failed frames | a model loads once; slots come back; failure is not emptiness |
| Notifications (`notification_channels.py`, `rich_alerts.py`, `alert_media.py`) | channel settings | render, send, resend plain | queues, app | refused extras, lost replies | an alert arrives once, with the right picture |
| Web server (`media_server/`) | none of its own beyond the parts' | about 150 handlers | everything | handlers interleave with the workers | modelled with the state they change |
| Database (`database/`) | the tables | single statements, three-statement verdict save | everything | a save that is not one transaction | modelled where a caller's state depends on it |
| Access control, Home Assistant event watcher, configuration, frontend, packaging | parsed once, or none | | | | not modelled, but for the frontend's part in a protocol |

`PROJECT.json` has the list with each part's status and what of it is missing,
and under `hazards` the places of the code that are hard to test with the
properties that watch them.

## 2. Modules

Four modules are state machines with runs of their own, because their state spaces are
large: the downloader, the two queues and the archiver. The others are smaller and share
runs. Theorems are proved about these four, and about every one of the others that a run
checks a safety property of, but for the names of the cameras.

| Module | Models | Grain |
|---|---|---|
| `Downloader` | `download_new_clips`, `ClipTracker`, Blink's list, restore's merge of ids, crashes | a poll is `StartPoll` (reads cursor and clock), `ReceiveList` (chooses the batch), one step per download, `FinishPoll` (counts failures, moves the cursor, saves); under `LiveSpec` the clock moves once the polls have taken what is due |
| `WorkQueue` | abstract: what both queues promise about a clip | absent, queued, done or failed |
| `AnalysisQueue` | the table, the worker, Analyze Now, the analyzer's lock and flags | one step per `await` of `_process_one` |
| `GDriveQueue` | the table, the worker, the client's pause and flags, the Storage tab | one step per `await` of `_process_one` |
| `Archive` | the archiver, retention, deletion of a clip and of an archive, the start-up pruning and import, restarts | one step per `await`, file operation or append of `_archive_month` and of what runs beside it |
| `LiveView` | `live_view.py`: the session, its relay stream, ffmpeg, directory, feed and watcher; sweeper; shutdown | one step per `await` under the lock, one per event that takes no lock |
| `Login` | `connect`, `_handle_2fa`, the application's retries, the page that submits and polls | one step per `await`, per request of the page and per tick of the prompt's deadline |
| `DriveLink` | the device flow, token refresh, disconnecting, the credentials file | one step per reply of Google |
| `DriveFolders` | resolving an upload's folder, pruning folders an archive's deletion emptied | one step per question to Drive |
| `RestoreStaging`, `RestoreMerge` | a staged backup file, piece by piece; the merge of a backup into a library in use | one step per request and write; one per statement of the transaction |
| `Faces` | the candidates a scan offers, enrol, approve, rename and delete requests | one step per `await` |
| `Vehicles` | the protected car's zone and signature from clip to clip | a clip's reading, identifying, learning and storing |
| `VisionRuntime`, `RemoteDetection` | slots, first loads, import locks and threads; the concurrent requests for one clip's frames | one step per lock, slot, load and thread; one per request and reply |
| `CameraNames` | topology refreshes, the identities file, migrations, aliases, restarts | a rebuild, its end, and each migration |
| `CameraSettings`, `MarkedAssets` | the settings file with three page sections; the assets file with its reference frames | one step per request, write and change of the running analyzer |
| `ArmedState` | what the Sync Module tab shows while commands and refreshes overlap | starts and answers of both |
| `Feedback` | answers, taps on an alert, training runs | one step per statement |
| `FrameSelection` | extraction interval, budgets, the three strategies of choosing frames | a function of a clip |
| `Providers` | errors of each provider, the queue's attempts, Moondream's boxes and hints, providers asked frame by frame | functions of boxes and of a history of replies |
| `Verdict` | reading a reply, merging frames, the second tier, raising and clearing the flag | a function of replies and evidence |
| `FaceRecognition`, `FacePicking` | matching faces to people over frames, what the panel says; grouping, duplicates and the review of photos | functions of a clip's or a scan's faces |
| `Tracks`, `SecurityDetector`, `VisionPipeline` | box geometry and tracks; every event of the detector; a clip's way through the vision stages and what they report | each extends the one before it |
| `RiskScoring` | points, damping, evidence quality, severity, sound events | a function of events and evidence |
| `StageAnswers`, `ZoneGeometry` | what sound, depth, contact and pose make of a model's output; how much of a box a drawn zone covers | functions over small grids |
| `Learning`, `Alerts` | scene baselines, unusual hours and lengths, threshold tuning; an alert's way to a channel and its picture | functions of histories and replies |
| `Downloader_proofs`, `AnalysisQueue_proofs`, `GDriveQueue_proofs`, `Archive_proofs`, `LiveView_proofs`, `RestoreStaging_proofs` | theorems about the module they extend | |
| `Components_proofs`, `Pages_proofs` | theorems about the components of `Components`: what the program does there, and what its pages show and keep | |
| `MCDownloader`, `MCAnalysisQueue`, `MCArchive` | instances for TLC of one module each; `GDriveQueue` needs none | |
| `Components` | the fifteen smaller state machines, side by side, with their constants; and six components under fairness | |
| `MCAlgorithms` | every input of twenty-eight small sets | |

Constants keep the source's names where they have one (`GiveUpAttempts` is
`GIVE_UP_AFTER_ATTEMPTS`, and so on); variables marked *history* do not exist in
the code, no guard reads them, and they only let a property speak of the past.

**Several components in one run.** Components that share no state with each other need no product
of their states. In `Components` the variable `which` names the component a
behaviour is about; the variables `s1`, `s2`, ... are instantiated as its variables, and
those it does not need stay 0. The run explores the disjoint union of the
components' behaviours, with each module's own actions. The constants of the components are
constants of `Components` (those of `CameraNames` are fixed there), so that the theorems hold for all of their values. A property of such a run, such as `DriveInOrder`, is the
conjunction of the named properties of the modules it is about (section 3 lists them), each
under the condition that `which` is that module's component. `MCAlgorithms` does the same for
functions: `which` names a set of inputs, `input` is a member of it, nothing
happens to it, and every property is a statement about the functions at that input.

**`Downloader`.** `tracker` is the `ClipTracker` object, `disk`
its JSON file, `poll` the local variables of `download_new_clips`
(`since`, `list_fetched_at`, `complete`, the owed clips, the batch).
`created`, `listed`, `deleted` are Blink's side, which is external and modelled
from the assumption the code states at `downloader.py:59-67`: a clip is listed at most
`PublishDelay` after the time it carries.

**`AnalysisQueue`.** `rows`/`order` are the table,
`worker` the task (`pc` is the `await` it is at, `batch` what
`get_pending_analysis` returned, minus what is done), `analyzer` the lock and
the two flags `rate_limited` and `transient_error` read, `manual` an Analyze Now
request. A failed database call is an action (`ReadContextFails`, `SaveFails`,
`CompleteFails`, `StatusWriteFails`) that leads where the exception leads.

**`GDriveQueue`.** `rows`/`before` are the table with
`queued_at` as a relation (several rows can be given the same time),
`place` is where the video is, `client` the `GDriveClient` attributes
`connected`, `uploads_paused` with its reason, `rate_limited` and
`quota_exceeded`; `hold` is the timed hold-off; `copies` counts what Drive
stored.

**`Archive`.** `rows` is the `clips` table as far as `archived`
goes, `files` the library folder, `zips` what `ZipFile.namelist()` would return
for each month, `torn` the months whose ZIP `is_zipfile` refuses. `arch` is a run of
`ClipArchiver` with the clip it has in hand (`pc` is the `await` or file operation
it is at), `detached` an append that goes on in a file deleted under it.
`deletion` is a request of `_handle_delete_archive`; `startup` the two tasks
`prune_orphaned_archives`, with its `member_cache`, and `import_existing_clips`.
`leaving` are the clips whose file retention or the user has removed and whose row
is next. That an append in progress makes the whole ZIP unreadable is how
Python's `zipfile` works in mode `"a"`: the central directory is overwritten by
the new member and written anew on close.

**`LiveView`.** `sess` holds every session ever created, with what it owns (stream, process,
directory, tasks) and the fields the page reads; `session` is `LiveViewManager._session`.
`lockop` is the holder of the manager's lock and the `await` it is at. The end of
the feed, the exit of ffmpeg and the heartbeat take no lock and are steps that happen between
those. A start can be cancelled at each of its awaits, and `close` runs while the web server
goes down.

**`Login`.** `conn` is where `connect` is; `box` is the pair of event and code
with the number of the prompt it was typed for, `sending` what `send_2fa_code` awaits, `result`
what the page polls for. The page and the file are two ways to the same prompt.

**`CameraNames`, `CameraSettings`, `MarkedAssets`.** A rename reaches Blink's list first, then the running
program, then the rows, options, files and aliases kept under the name, with a
failure or a restart possible between each two. The three modules look at the same
renaming from three sides: identities and rows, the settings file with its pages, and the assets
file with its frames. A page has the list it loaded, and saves all of it on
the revision it has just read, as `camera_configs.py` and the Vue sections do.

**`Vehicles`, `Learning`.** What is learned is stored between clips, so the models are
of sequences of clips: `Vehicles` as a state machine because the Vehicles tab
interferes, `Learning` as a fold over a history because nothing does. A clip takes the
zone before it asks the model about the car, and the signature after: what the tab resets in
between is seen in the one and not in the other. Colours are amounts of one
hue, the background one brightness; rates, counts and thresholds are the code's.

**`VisionRuntime`.** A job is a clip's stage, the Faces tab's request or the audio model's load task; `at`
is the step it is at, `threads` the executor's work, which goes on after a time-out when
nobody waits for it any more. The slots are the semaphore's, `locks` one per model's first
load and `importing` the import lock all loads share.

**The functions.** `Tracks`, `SecurityDetector` and `VisionPipeline` extend each other because their code does call each
other: `Detect(c)` is the list of events of a clip from its detections and the stages'
answers, `ProcessClip(c)` the stages that ran, on which pair, and what each is recorded as. Boxes
have whole pixels in a 40 by 24 frame; distances are compared as squares and shares as fractions, so
that no comparison of the code is lost to rounding. The points, damping and
thresholds of `RiskScoring` are the code's numbers, scaled to integers. `Verdict` applies
`AdjustVerdict` in the order of `base.py`: recognised faces, the routine visit, the sensitivity, the
risk score. `Providers` extends it with the replies that never become a verdict.

## 3. What each run checks

| Run | Instance | Shows |
|---|---|---|
| `downloader` | 2 clips, id cap 1, batch 1, 6 units of time, 1 fault | `NoClipLost`, `DiskLags`, `FailuresOnDisk`, `GiveUpRemembered` |
| `downloader_live` | the same with fairness, one clip's time unreadable | `CursorReleased`: nothing pins the cursor for ever |
| `analysis_queue` | 2 clips, batch 2, 1 retry, one of each fault | one analysis at a time, verdict before completion, one alert, failures earned, the abstract queue |
| `analysis_queue_live` | batch 1 | `QueueDrains` |
| `gdrive_queue` | 2 clips, batch 2, one bad reply of Drive, one database fault, one restart | a completed clip knows its backup, copies are accounted for, refused uploads stay queued, the abstract queue |
| `archive` | 2 clips of one month, one failure, one restart, one deleted archive | `VideoKept`, `ArchivedInZip` |
| `components` | `Components` | the ten properties below |
| `components_live` | six components of `Components`, under fairness | `EverythingEnds` |
| `algorithms` | `MCAlgorithms` | the eight properties below |
| `archive_prune` | violation, 3 clips of two months | the pruning takes a ZIP that is being appended to for a damaged one and deletes its rows |
| `feedback_flags` | violation | a tap that says "not a threat" is stored as "should have been flagged" |
| `learning_hour` | violation | the first clip ever in an hour never scores as an unseen hour |

**The properties of `components`.**

| Property | Named parts (module) | In words |
|---|---|---|
| `LiveViewInOrder` | `LiveViewTypeOK`, `NothingStranded`, `OneCameraAtATime`, `NoFalseCrash`, `ErrorIsShown` (`LiveView`) | no stream, process, task or directory outlives its session; Blink relays one camera at a time; a stop is never shown as a crash and a crash is shown for a sweep interval |
| `LoginInOrder` | `LoginTypeOK`, `NoStaleCode`, `NoLockout`, `SameDevice` (`Login`) | a code answers the prompt it was typed for, a refused login is not repeated, Blink sees one device |
| `DriveInOrder` | `NoLimbo`, `FileMatchesClient` (`DriveLink`), `CacheOutOfTrash`, `FilesSurvive`, `NoDuplicateFolders` (`DriveFolders`) | no interleaving of connect, refresh and disconnect leaves a client that is connected without a token; the folder cache never leads into the trash, and no backup goes there |
| `RestoreInOrder` | `StagingTypeOK`, `PiecesInOrder`, `OnlyCheckedIsRestored`, `DiscardsItsOwn` (`RestoreStaging`), `MergeTypeOK`, `OneRecordPerFile`, `ChildrenFollow`, `ChangesNothingHere` (`RestoreMerge`) | the file that is merged is the one that was checked; the merge changes no record that is here, doubles none, and what belongs to a clip follows it |
| `EnrolmentInOrder` | `FacesTypeOK`, `EnrolledOnce`, `FreshFacesStay` (`Faces`) | overlapping requests store a face once, a fresh one can be picked |
| `ParkingInOrder` | `VehiclesTypeOK`, `NeighbourIsNotMine`, `SpotSurvivesOneVan` (`Vehicles`) | with the spot marked, and at most one van having taught the signature, the neighbour's car is never taken for the protected one; one van in the spot does not make it forget |
| `DetectionInOrder` | `RuntimeTypeOK`, `LoadedOnce`, `SlotsReturned` (`VisionRuntime`), `RemoteTypeOK`, `EmptyMeansLooked`, `RefusalIsReported`, `BillStops` (`RemoteDetection`) | one load of a model at a time, no slot lost; an empty answer means every frame was looked at, a refusal is reported as one, and once a frame has failed only the retries of those in flight are still paid for |
| `NamesInOrder` | `NamesTypeOK`, `HistoryFollowsItsCamera`, `ChainsKeepOldClipsApart`, `AliasesLeadHome`, `NoCameraVanishes` (`CameraNames`) | clips, baselines and options end up under the camera's name, through chains of renames, failed migrations and restarts |
| `SettingsInOrder` | `SettingsTypeOK`, `EditsSurvive`, `AnalyzerFollowsFile`, `SwitchesOutliveRenaming` (`CameraSettings`), `AssetsTypeOK`, `NamesStayApart`, `AnalyzerWatchesFile`, `FramesFitAssets` (`MarkedAssets`) | pages that save whole lists lose no accepted edit; limits and unique names hold whatever overlaps |
| `PagesInOrder` | `NoJumpBack`, `RefreshCorrects`, `MiniShowsOneState` (`ArmedState`), `OpinionKept`, `NeverTowardMistake`, `FreshAnswersTrained` (`Feedback`) | the tab shows a state Blink has had since the last accepted command; a clip's answer is one row that says what was meant, and training never teaches the verdict called wrong |

**The properties of `algorithms`.**

| Property | Named parts (module) | Inputs |
|---|---|---|
| `FacesAgree` | `HiddenHaveTwins`, `NoBridge`, `PickerAgrees`, `WarningIsTrue` (`FacePicking`), `StrangersCount`, `PanelKeepsItsPromise`, `EvidenceAgrees`, `NamesAreWhole` (`FaceRecognition`) | scans of 3 faces, albums of up to 3 photos, over unit vectors on both sides of every threshold; clips of 2 or 3 frames with up to 2 unknown faces and 2 people |
| `FramesTellTheStory` | `PoolIsFilled`, `WholeClipCovered`, `LengthSetsTheBudget`, `BudgetSpent`, `PeakKept`, `WindowIsNarrowest`, `NeverWorseThanSmart` (`FrameSelection`) | durations around every limit; all motion profiles of short clips, ten frames with spikes |
| `ScoreIsFair` | `RecognitionErasesNothing`, `UnconfirmedContactDecidesNothing`, `WorseEvidenceNeverRaises`, `SecondSubjectAddsOnlyItsNumber`, `OnlyMissingStagesCost` (`RiskScoring`) | combinations of events of two subjects, recognised or not, with good and poor evidence |
| `DetectorIsRight` | `OneSubjectPerTrack` (`Tracks`), `DepthOutranksOutlines`, `AnswersPointTheRightWay`, `ProjectionNeverAlerts`, `VisitNeverLingers`, `DoorVisitorNeverAlerts` (`SecurityDetector`), `PeopleComeFirst`, `HintsAgree`, `SilenceIsExplained`, `ScanFits` (`VisionPipeline`) | walks of a person or a dog past each kind of asset, all three-valued answers of the stages; 3 detections in up to 4 frames |
| `VerdictHolds` | `RiskIsNeverCleared`, `BreakInIsNeverCleared`, `UnsureModelClearsNothing`, `SecondTierKeepsItsSide`, `AlarmedFrameDecides` (`Verdict`), `FailureIsDeserved`, `HalfIsNoVerdict`, `AlarmOutlivesFailures`, `CarsAloneAreNoAlarm`, `TouchIsNeverMissed`, `OneCarIsNotTwo` (`Providers`) | replies of every kind and confidence band, with faces, sensitivities and events; histories of 4 replies of each provider; up to 3 frames asked one by one; frames with one or two cars, each drawn once or in two ways, a person or an animal touching one, near it or away, and calls that fail |
| `StagesMeasureRight` | `NothingLouderMissed`, `BriefSoundIsHeard`, `DepthHasNoUnit`, `GapNeverOverstated`, `MirroredTheSame`, `PostureHasNoSize` (`StageAnswers`), `SharesAddUp`, `InsideMeansCovered`, `TracedOrDrawn` (`ZoneGeometry`) | all sounds of up to 11 samples; depths, outlines and bodies on a grid; all triangles and simple quadrilaterals of a 4 by 3 grid |
| `LearningSettles` | `SceneSettles`, `MomentsPass`, `NightStaysNight`, `ScoreFollowsHistory`, `TuningIsBounded` (`Learning`) | histories of day and night scenes, counts around 30 events, up to 48 answers |
| `AlertsArrive` | `NeverTwice`, `ArrivesAnyway`, `PictureShowsSubject`, `ChannelsApart` (`Alerts`) | each channel, with every setting missing or invalid, every part to be had or not, refused, or its reply lost |

`EverythingEnds` joins `SessionsEnd`, `SignsInAgain`, `BackupsProceed`, `ClipsGetThrough`,
`DetectionEnds` and `NamesSettle`.

The properties with a condition on a history variable state where the promise ends.
`FilesSurvive` and the cache hold while uploads and prunings take turns; `EditsSurvive` unless something was
saved while a renaming was half done; `AnalyzerFollowsFile` and `AnalyzerWatchesFile` unless a write
failed; `OpinionKept` unless two people answered across each other; `OneRecordPerFile` unless
somebody saved a record between the restore's look and its commit; `NothingStranded` but for a
teardown the shutdown cut short. Each of these conditions was put in because TLC showed the stronger
property false, and section 5 describes the behaviours.

**Bounds.** Two clips are the least with which one can overtake, block or be
mistaken for another, and every guard of the queues, the downloader and the archiver compares at most two clips
(the batch order, the held clips of the cursor). Batches of one make the queues
choose again after every clip, batches of two let something change between two
clips of a batch. An id cap and a poll cap of one make both limits bite at once.
Each kind of fault has a budget of its own, named in the module and spent in the action's guard
(`MaxFaults`, `MaxDbErrors`, `MaxErrors`, `MaxDeletions`, `MaxLimits`, `MaxDriveFaults`, `MaxCrashes`, `MaxManual`); one of each is
enough for two different faults to meet. Time is in units that
keep the order of the code's delays, not their size. `CHECK_DEADLOCK FALSE` is
set for the `downloader` runs, whose clock stops at `MaxTime`, for the
`archive` runs, where no clip arrives and all may be gone in the end, and for `components`,
`components_live` and `feedback_flags`, where a component's requests, renames or clips are used up.
Two clips share a ZIP in `archive`; that a run goes month by month matters to `archive_prune`,
which has two months. Any set of rows may be old enough
when a run starts, so that no clock is needed.

In `components`, two live-view sessions are enough for one to follow another whose
teardown is not over; two prompts for a code of the first to reach the second; three grants for
two device flows and a refresh; two pieces for one to be resent after the next; four camera
names and two renames for a chain and for a name used again; three clips for two slots, so that
one waits; five clips of a parked car, two resets of the tab and one failed write for a signature to be
established, drift and be asked for. Two
users and three requests let an asset be deleted between another's look-up and its write; two edits, a
renaming, a failed write and a restart let a page save across a half-done renaming. A backup of three
clips is read in batches of two, so that what a batch finds is committed before the next one looks, and two of its
clips may claim one file. Two commands, a change made elsewhere and a refresh overlap on a Mini and a camera of the same name;
two people answer for two clips while two training runs of one row each take what is there.

The inputs of `algorithms` are chosen at the thresholds: values just below, at and above every
constant of the code that the function compares with, and all combinations of them as far as
they interact. Lists are as long as the rules look: three for what compares neighbours, two for what compares pairs.

**Fairness.** The event loop resumes every task that is ready, so each worker's
step has weak fairness; a timer fires (`HoldOffEnds`, the clocks). The
analysis window opens and closes again and again (`WF ToggleWindow`), and the
loop does not look only while it is closed (`SF StartBatch`). The disk is not
over its quota for ever (`SF Tried`). A live view's lock is passed on, so that the sweeper gets it
although starts and stops take it again and again (`SF SweepNotes`, `SF SweepTearsDown`: `asyncio.Lock` is first come, first served). Blink does not refuse or fail
every login (`SF Started`), and a sync module comes back online. Requests to the detection service
end within their time limit, threads end.
No fairness is given to users, to Blink beyond listing a
clip, to Drive's answers, nor to faults. The backups of `components_live` have no
failing database calls (`MaxDbErrors` is 0): with them a row can stay in `processing` until a restart.
As one component moves and the others do not exist, `Components` joins the k-th fair action of each component into one (`Fairly1` to `Fairly6`); fairness of the
union is, in each component's behaviours, fairness of that component's action.

## 4. What is proved

TLAPS proves the following for every value of the constants that satisfies the
modules' `ASSUME`s and the hypotheses named here. Each component has an inductive invariant, in most modules
called `IInv`, with one lemma for every action or group of actions, and its theorems rest on that.

* `Downloader_proofs`: `TypeCorrect`, `NothingLost`, `FileLags`, `FailuresSaved`, `GivenUpRemembered`. The
  invariant `NoClipLost` is not inductive: a poll in progress carries its own
  `since`, list time and owed clips, and a saved file may become the tracker.
  `IInv` adds that the poll's `since` covers every unresolved clip and that what it was
  owed is known (`PollInv`), that cursors never lead their histories
  (`CursorInv`, `ClockInv`), and that ids are in the tracker or the file only for clips that are
  stored (`Truthful`). What the program remembers of failures has an invariant of its own, `FailureInv`: the tracker
  and the file each still know every give-up they have recorded until its TTL (`Recalls`), and a poll that is not at work has
  no failures to count.
* `AnalysisQueue_proofs`: `TypeCorrect`, `AnalysesExclude`, `VerdictStored`,
  `OneAlert`, `FailuresEarned` and `QueueImplemented`, the refinement of
  `WorkQueue`. The invariant's core is `BatchInv`: the worker's stale copy of
  each row still agrees with the table, but for the status of the clip in hand,
  unless the clip was deleted; without it a batch fetched before
  a retry could write back an old count.
* `GDriveQueue_proofs`: `TypeCorrect`, `BackupKnown`, `EveryCopyAccountedFor`, `LimitsFailNoClip` and `QueueImplemented`.
  `CopiesAccountedFor` says at most one copy more than there were faults, which the next upload would break; so `TableInv`
  adds that a clip whose row may still be taken has been uploaded at most as often as there were faults, and `Known`
  carries this, the row's status and the reason of a failure through the worker's steps. As in the other queue, the batch is a list without repetition whose
  waiting clips are pending, unless deleted.
* `Archive_proofs`: `TypeCorrect`, `NoVideoLost`, `ArchivedTruly`. `VideoKept`
  is not inductive: that the source may be removed rests on the append having
  ended, which is in the run's program counter. `IInv` adds that a clip being
  marked or unlinked is stored (`HandInv`) and that a deletion knows its month;
  the lemma `StoredStays` says that what is stored stays so through every step.
* `LiveView_proofs`: `TypeCorrect`, `NothingLeftBehind`, `OneCamera` and the action properties `NoCrashInvented` and
  `ErrorUpFirst`, for any cameras, sessions and timeouts (the theorems' only hypothesis is that `MaxSessions`, the
  bound on sessions, is a natural number). `NothingStranded` speaks of a free lock; while a start or a teardown holds it, the
  invariant has to say which session may still own something (`HoldInv`): the current one, the one being torn down, or the one being
  built. `TeardownInv` and `BuildInv` say at each `await` of the two what is gone or there already, so that at the last step of a
  teardown nothing is left. `OneCamera` follows: of the three only one exists at a time.
* `RestoreStaging_proofs`: `TypeCorrect`, `PiecesStayInOrder`, `CheckedIsRestored` and the action property `OwnIsDiscarded`, for any
  number of pieces, uploads and failed writes (the hypothesis `Counted`: the first two are natural numbers). A request
  that waited for an upload's lock may write after the upload was replaced, and creates its file again; `OpenedInv` says why no
  such file is ever merged: an upload that was opened had all its pieces, so nobody writes to it any more, and its file
  is the checked one or gone. `SlotInv` ties the inspection's copy to the current upload for as long as the slot is held.

* `Components_proofs` and `Pages_proofs` prove the properties of the run `components` that way for the components themselves.
  `which` never changes, so a behaviour is about one component from beginning to end and an `IInv` that a component's steps preserve is one
  of the whole. Each theorem's hypotheses are about the constants of its components only and are named below. The
  modules state their `IInv` at their end (`VisionRuntime`'s, `RuntimeInv`, is in `Components_proofs`).
  * `DriveStaysInOrder` (`DriveInOrder`), for bounds that are natural numbers. The connection's invariant is about the pairs it
    keeps: token in memory and on disk, and who may still write either. For the folders `MemoIsPath` says that, as long as
    uploads and prunings take turns, the cached identifiers are one path from the root and out of the trash; `UploadFollows` and `PruneFollows` that whoever
    walks the path is where the cache says, and `NothingThere` that what is about to be created does not exist.
  * `LiveViewStaysInOrder` and `RestoreStaysInOrder` (`LiveViewInOrder`, `RestoreInOrder`) cite the theorems of
    `LiveView_proofs` and `RestoreStaging_proofs` through an instance of each. For the merge (`MergeBounds`: a positive batch size, paths that are not
    the value for "no path", analysed clips among those of the backup) `OwnAreNew` says that what the
    transaction adds was not here and `MarkedWereClaimed` that a stand-in with a star or a label is not removed unseen; `OneHolder` has
    one record of each file both as committed and as the transaction sees it, which needs `StoredAlone` at the moment between finding the
    stand-ins and replacing them.
  * `DetectionStaysInOrder` (`DetectionInOrder`), for any finite set of frames and positive limits (`RemoteBounds`) and for any clips, slots and failing
    loads (`JobsApart`: the values for "nobody", the Faces tab and the audio loader are not clips). A model is loaded once because a
    thread somebody waits for does what its job is at, and a thread that loads has its model's lock;
    that a thread nobody waits for any more never loads is part of it. `BillStops` counts: what was paid for after a failure and what the
    requests in flight may yet ask (`Owed`) are together within the bill, so every retry pays from what was owed before.
  * `EnrolmentStaysInOrder` (`EnrolmentInOrder`, `FaceBounds`: capacity, life time and limits are natural numbers). A face is in the
    store or taken, never both (`HeldOrTaken`), and one that a request is about to insert is its own and no row's yet (`OwnFace`).
    That a fresh face stays needs a count of the faces found after it.
  * `LoginStaysInOrder` (`LoginInOrder`), with no hypothesis. A code that waits while a prompt is open was typed for it
    (`WaitingCodeFits`), a refused login is the process's last, and an identifier that was written down is the one Blink has seen.
  * `PagesStayInOrder` (`PagesInOrder`, `ArmedBounds`: what is armed exists, and of cameras that share a name the one merged last is one
    of them). `NoJumpBack` rests on `ReadIsCovered`: what a refresh has read already is from after its start, and so from after every
    command accepted before; `OneOverride` says that keys which share a flag share the override. For the answers, `OneAnswer` says that
    whoever is about to replace a clip's answers has seen the one there is, and `StaysTrue` that what a training run holds of a row is still what the row says.
  * `SettingsStayInOrder` (`SettingsInOrder`; `SettingBounds`, `AssetBounds`: first names are among the names and no name or user is
    the value for "none"). For the settings, `Leads` are the names that lead to the camera; the file has one entry, under one of them
    (`OneEntry`), a page shows one row and what it is about to send is the row of the
    revision it has just read with its own fields changed (`OneRow`). For the assets, `HeldIsGood` says that what the lock's holder found good stays good
    until it writes, `AllAtHome` and `FrameAtHome` that in the middle of a renaming assets and frame are still under the
    old name unless something was stored meanwhile, and `MarkedFollows` that the analyzer's list is the file's or that list carried over.
  * `ParkingStaysInOrder` (`ParkingInOrder`, for any number of clips, resets and failed writes). With the code's rates and
    thresholds: a signature stays where the cars stood that taught it, a single van is gone from it after four clips (`Near`,
    `WidestRight`). From that follow bounds on every car's score. The neighbour's stays below 35 with the spot marked, which is the least that identifies, and the
    car that comes back to a learned spot scores more than any other.

**Only model-checked.** `NamesInOrder`: where a row lies after a chain of renames whose migrations failed and were repeated depends on
the whole history, and `Resolve` follows aliases by a recursive function. The eight properties of `algorithms`: what a function computes by a
fold over its input (tracks, learned averages, parsed histories) needs, for every input, induction over data, which
the installed provers cannot do; the run shows it on the inputs listed above. All liveness
properties (`CursorReleased`, `QueueDrains`, `EverythingEnds`), as TLAPS has no rule for fairness or ENABLED.

## 5. Assumptions and what the models show besides

**Assumptions.**

* A statement that fails has no effect; `save_analysis`, three transactions,
  may fail after the first.
* A clip id is downloaded, and so queued, once; a deleted one does not come back.
* One Analyze Now request at a time, a bounded number of them.
* Writing the pause to disk succeeds; a manual upload's target folder does not
  change what the worker does; Drive's trashing of a deleted clip's copy is not
  counted in `copies`; `connected` is one Boolean in `GDriveQueue`, with token refresh inside it
  (`DriveLink` has the refresh).
* The archiver's move is one step for the Drive queue.
* In `Archive`, a clip's row is known by the clip: a file imported under a new id
  is imported only when no run or check still holds the old one. Restored clips
  flagged `media_missing` are not modelled, nor camera renames. A second copy of a clip in its ZIP counts as one.
* Filters and file names are not modelled: `Clips` are the clips that pass them. The
  list's page cap is not either (10,000 entries).
* The list of Blink's cameras is not empty when a page reads the settings (`CameraSettings` leaves out the moments before Blink has answered).
* All cameras of `CameraNames` hang on one sync module, and names that differ in capitals are one name.
* A network's output (boxes, embeddings, depth, outlines, key points, sound scores) is an input; what the code
  makes of it is modelled.

**Divergences.** The violated properties are sentences of the documentation or of comments;
`PROJECT.json` quotes each one beside the lines that differ. While modelling,
more differences between the code and what it or its documentation says came up, which
have no run of their own. Each was seen as a counterexample of a stronger form of a
property, or in reading; the properties that are checked leave these cases out by a named condition.

*Downloads, archive and queues.*

* The tracker is saved only when a poll had a batch (`downloader.py:1212`). A cursor set by polls with nothing
  to download is not on disk, and after a crash the next poll starts six hours back
  (1170-1172), which may be past it; "a cursor on disk that lags is always safe" (1215-1217) does not hold then.
* A process that dies while it appends to a month's ZIP leaves an unreadable one, with all
  the month's earlier videos (`archiver.py:296`); "a crash can lose at most the one clip in flight" (237-238).
* A failed status write leaves a row in `processing` until the next restart (`analysis_queue.py:228`, 242, 247;
  `database/core.py:74-75` allows for restarts only).
* A database call that fails before the analyzer is reached is judged by the flags of the analysis
  before it (`analysis_queue.py:232`).
* A restart between a row's completion and its alert loses the alert (`analysis_queue.py:259`).
* A rate limit met in a folder lookup fails the clip (`gdrive_queue.py:311`, `gdrive_client.py:554-598`), although
  such clips "stay **queued** rather than being recorded as failures" (`DOCS.md:2332-2333`), and it is forgotten
  when an upload starts (`gdrive_client.py:688` against `gdrive_queue.py:436-439`).
* Pause Uploads is read before a batch and not between its clips (`gdrive_queue.py:183` against `DOCS.md:2319`).
* `quota_exceeded` is cleared only by the next upload that starts: after the user made room and resumed, a
  clip that fails before its upload pauses the queue again (`gdrive_queue.py:447` against `gdrive_client.py:684-687`).
* Clips archived from the Storage tab are not enqueued for Drive
  (`media_server/storage.py:163`), nor those whose source could not be removed
  (`archiver.py:286`), although `app.py:1237` says nothing archived is ever missed.
* Retention removes an archived clip's row by the path of a source that was not unlinked (`app.py:1252`); its video stays in the ZIP.
* Pruning folders while an upload resolves the same path can trash the day folder the upload goes to
  (`gdrive_queue.py:520`), and a disconnect can be undone by a refresh that was under way (`gdrive_client.py:456`).

*Cameras, settings and pages.*

* A rename whose migration failed is tried again after the next rename (`downloader.py:892-903`, `app.py:574-578`): if the name it left has by
  then gone to another camera, the clips and aliases of the two are mixed. Identities saved while
  a module is offline forget its cameras (`downloader.py:936-943`), and an alias for a name another camera carries at
  a restart is not followed (`app.py:624-643`).
* A description cleared on the AI tab, and the last car camera switched off, come back from `options.json` at the next
  start (`app.py:482-502`, 724-728), and whatever a page saves takes what `options.json` says away until then; the comment at
  `media_server/camera_configs.py:250-258` has the file as "the single source of truth for these settings".
* After a failed write of the camera settings the analyzer works with what the file has not got
  (`media_server/camera_configs.py`), and an edit saved under a name that is half moved may be left behind.
* An asset created while a delete holds the lock can lose its frame (`media_server/assets.py:129-131`, 204-205); one
  drawn on a newer clip's frame replaces the frame the others were drawn on (119-121); one created under the old name in the middle of a
  rename stays there.
* The Sync Module tab's own `GET` can answer after a toggle and show the earlier state (`SyncModulePage.vue:252`).
* Two answers to one clip that overlap leave two feedback rows (`schema.py:261` has no unique constraint), two
  training runs that overlap train rows twice, and the oldest rows whose frames are gone fill every batch.
* Adding photos "can never quietly leave a person half-approved" (`media_server/faces.py:411`), but the approval is read before the photos are
  inserted one by one, and a change between two of them leaves both.
* A signature forgotten on the Vehicles tab while a clip is being analysed is written back by that clip
  (`database/detections.py:485-492`), and with the zone cleared a neighbour's car of the same colour may be taken for the protected one (`security/vehicles.py:26-31`). Four clips
  of a van in the marked spot teach it so much of the signature that with the zone cleared the neighbour's car is learned
  as well, and then it is taken for the protected one even after the zone was drawn again.

*Vision, verdict and alerts.*

* Moondream reads a failed or rate-limited `/detect` as "no person" (`analyzer/moondream_provider.py:592-604`, 826-835) and
  skips a frame whose `/query` was refused (801; also `analyzer/base.py:2666` for the sequential strategy): a
  clip can complete as clear on its other frames, although a failed call must never become a false
  "not suspicious" (`base.py:1320-1334`).
* The gap to a car is said to be measured to every detected one (`analyzer/moondream_provider.py:971-983`). Boxes that
  overlap the described car's by half are dropped first, so somebody who touches only such a box is not "touching".
* A suspicious reply without a description, followed by a frame with nothing in it, alerts with the cloud provider and not with the local one, which rank
  their frames differently.
* "Any suspicious verdict beats a clear one" (`base.py:273-275`) leaves out a reply without a description: it is not ranked
  although it says suspicious (2666-2671), and a described clear one represents the clip. A reply's own `"suspicious"` key is
  one of the default keywords, so a reply that was cut off counts as an alarm whatever the key's value.
* An alert forced by the risk score has at least confidence 0.7, so that it is not "silently suppressed" (`base.py:94-98`); with the camera's
  threshold above that it is.
* A camera obstruction needs a clip without detections, and a clip without tracks is assessed only if a sound was heard that makes an event
  (`base.py:1901`); so a silent obstruction never scores.
* With a cap of 0 the scan is of the prompt's frames, which motion chose, and their times are still counted as evenly spaced
  (`vision/pipeline.py:506-509` against `vision/imaging.py:149-153`).
* Once a subject has been near an asset, the time of its whole track is reported as "remained at" the asset (`security/detector.py:883-897`).
  A lasso that crosses itself and still measures as something is measured as the difference of its parts (`security/geometry.py:380-396`).
* An audio stage that timed out gives its slot back while its thread goes on, which the limit on concurrent stages does not count (`vision/runtime.py:52-61`).
* Threshold tuning caps at 0.95, also for a camera set above that (`database/learning.py:285-289`).
* "The baseline only learns from clips the AI did **not** flag" (`DOCS.md:970`) leaves out flags below 0.5, which are learned from (`base.py:131`, 2141-2151).
* The fallback of the motion strategies without PIL, "even spacing anchored at first and last" (`base.py:2445-2447`), takes every
  frame of the first half and only the last one of the second when the budget is just above half the frames (2617-2627).
* The plain resend of a refused phone alert carries no tag, so it stacks; an email refused for its picture is not sent again without it.

**Not modelled.**

* *Access control* decides request by request, from its own headers and settings; it has no state that a
  sequence of requests could corrupt but the two-factor prompt, which is in `Login`.
* The *Home Assistant event watcher* sets one flag, the poll loop's event, and hands a tap to
  `Feedback`; what follows from both is in `Downloader` and `Feedback`.
* *Configuration* is parsed once; its values are the constants of the models. *Packaging* and scripts build and start the container.
* Of parts that are modelled: prompts, model lists and prices, the AI budget's figures, narratives and other wording;
  thumbnails, the reading and writing of file names, usage figures; schema migrations, reports and statistics;
  the backup archive's format; the digest and the battery monitor; pixels
  (`frame_motion.py`, image enhancement) and the networks themselves. `PROJECT.json` names them at each component.

## 6. Plan

The order was: the downloader, the two queues over `WorkQueue` and the archiver first, because a fault there loses videos or alerts;
then the protocols with users and services; then what the analysis computes; then the proofs, in the same order. What is left:

1. `NamesInOrder` for any number of cameras, names and renames. Which row lies under which name after a chain of renames whose
   migrations failed and were repeated is a statement about the whole history, and `Resolve` follows aliases through a recursive
   function; both need induction over data.
2. Not modelled yet and within reach: the cached quota figures of the Drive client, the battery monitor's and the digest's timers, the
   states of the remote training service.
