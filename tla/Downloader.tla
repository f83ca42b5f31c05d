----------------------------- MODULE Downloader -----------------------------
(***************************************************************************)
(* The cloud download path: BlinkDownloader.download_new_clips and the     *)
(* ClipTracker it drives (downloader.py, tracker.py), against Blink's clip *)
(* list.                                                                   *)
(*                                                                         *)
(* The tracker remembers which clips are stored, how the failing ones have *)
(* failed, and the list cursor: the "since" of the next clip list.  A clip *)
(* older than the cursor is never listed again, so everything depends on   *)
(* the cursor not passing a clip that is still owed a download, whatever   *)
(* Blink lists late, downloads fail, the process dies, or the quota stops. *)
(*                                                                         *)
(* The grain is the code's own: the event loop runs a poll without a break *)
(* from one await to the next.  A poll is StartPoll (reads the cursor and  *)
(* the clock, asks for the list), ReceiveList (the answer arrives and the  *)
(* batch is chosen), one step per download of the batch as it ends, and    *)
(* FinishPoll (records the failures, moves the cursor, saves).             *)
(***************************************************************************)
EXTENDS Integers, Sequences, FiniteSets, SequencesExt

CONSTANTS
    Clips,          \* every clip that passes the configured filters
    Undated,        \* the clips whose created_at cannot be parsed
    Margin,         \* _LIST_CURSOR_MARGIN
    PublishDelay,   \* Blink lists a clip at most this long after created_at
    Lookback,       \* the since of a poll with no cursor is now - Lookback
    GiveUpAttempts, \* GIVE_UP_AFTER_ATTEMPTS
    GiveUpAfter,    \* GIVE_UP_AFTER
    BackoffBase,    \* RETRY_BACKOFF_BASE
    BackoffMax,     \* RETRY_BACKOFF_MAX
    RecordTTL,      \* FAILURE_RECORD_TTL
    MaxTracked,     \* _MAX_TRACKED_IDS
    MaxPerPoll,     \* config.max_clips_per_poll
    LocalStorage,   \* config.download_local_storage
    MaxTime,        \* bound: the clock stops here
    LastRecord,     \* bound of LiveSpec: no clip is recorded after this time
    MaxFaults       \* bound: crashes, cut-short lists and refused sessions

ASSUME DownloaderAssumption ==
    /\ Undated \subseteq Clips
    /\ Margin \in Nat /\ PublishDelay \in Nat /\ PublishDelay <= Margin
    /\ Lookback \in Nat /\ Margin <= Lookback
    /\ GiveUpAttempts \in Nat \ {0} /\ GiveUpAfter \in Nat
    /\ BackoffBase \in Nat /\ BackoffMax \in Nat
    /\ RecordTTL \in Nat /\ GiveUpAfter < RecordTTL
    /\ MaxTracked \in Nat \ {0} /\ MaxPerPoll \in Nat \ {0}
    /\ LocalStorage \in BOOLEAN
    /\ MaxTime \in Nat /\ LastRecord \in 0..MaxTime /\ MaxFaults \in Nat

VARIABLES
    now,        \* the clock
    created,    \* Blink: when each clip was recorded, or None
    listed,     \* Blink: the clips its list returns
    deleted,    \* Blink: the clips marked deleted, which the filter drops
    files,      \* the clips whose file is in the library folder
    tracker,    \* the ClipTracker in memory
    disk,       \* the tracker file
    poll,       \* the poll in progress
    faults,     \* faults so far
    stored,     \* history: the clips whose file was ever complete
    gaveUp,     \* history: when the run of failures given up on began, or None
    baseline    \* history: since of the poll that set this cursor's first value

blink   == <<created, listed, deleted>>
history == <<stored, gaveUp, baseline>>
vars    == <<now, blink, files, tracker, disk, poll, faults, history>>

-----------------------------------------------------------------------------
None  == -1
Times == Nat \cup {None}

MinOf(S) == CHOOSE m \in S : \A x \in S : m <= x

(* A failure record; zero attempts stands for having no record.            *)
NoFailure == [attempts |-> 0, first |-> 0, last |-> 0, givenUp |-> FALSE]
Failures  == [attempts : Nat, first : Nat, last : Nat, givenUp : BOOLEAN]

Trackers == [downloaded : Seq(Clips), cursor : Times,
             failures   : [Clips -> Failures]]

EmptyTracker == [downloaded |-> <<>>, cursor |-> None,
                 failures   |-> [c \in Clips |-> NoFailure]]

Polls == [phase : {"idle", "listing", "downloading", "local"},
          since : Nat, listedAt : Nat, complete : BOOLEAN,
          owed  : SUBSET Clips, pending : SUBSET Clips,
          failed : SUBSET Clips]

IdlePoll == [phase |-> "idle", since |-> 0, listedAt |-> 0,
             complete |-> FALSE, owed |-> {}, pending |-> {}, failed |-> {}]

-----------------------------------------------------------------------------
(* The tracker's questions and edits.                                      *)

IsDownloaded(t, c) == c \in ToSet(t.downloaded)
HasGivenUp(t, c)   == t.failures[c].givenUp
IsRetrying(t, c)   == t.failures[c].attempts > 0 /\ ~t.failures[c].givenUp
IsNotDownloaded(t, c) == ~IsDownloaded(t, c) \* mutant: never gives up
IsOwed(t, c)       == ~IsDownloaded(t, c) /\ ~HasGivenUp(t, c)

(* The delay doubles with each failure up to the cap.                      *)
Backoff(attempts) == MinOf({BackoffBase * 2 ^ (attempts - 1), BackoffMax})

RetryDue(t, c) ==
    \/ t.failures[c].attempts = 0
    \/ now >= t.failures[c].last + Backoff(t.failures[c].attempts)

MarkDownloaded(t, c) ==
    [t EXCEPT !.downloaded = IF IsDownloaded(t, c) THEN @ ELSE Append(@, c),
              !.failures[c] = NoFailure]

Failed(f) ==
    LET first    == IF f.attempts = 0 THEN now ELSE f.first
        attempts == f.attempts + 1
    IN  [attempts |-> attempts, first |-> first, last |-> now,
         givenUp  |-> \/ f.givenUp
                      \/ attempts >= GiveUpAttempts
                         /\ now - first >= GiveUpAfter]

RecordFailedAttempts(t, S) ==
    [t EXCEPT !.failures = [c \in Clips |->
        IF c \in S /\ ~IsDownloaded(t, c) THEN Failed(t.failures[c])
                                          ELSE t.failures[c]]]

(* What save() drops before it writes: the oldest ids beyond the cap, and  *)
(* failure records past their TTL, given up on or not.                     *)
PruneIds(ids) ==
    IF Len(ids) > MaxTracked
    THEN SubSeq(ids, Len(ids) - MaxTracked + 1, Len(ids)) ELSE ids

\* Mutant: a clip given up on is dropped at the next save.
PruneGivenUp(failures) ==
    [c \in Clips |-> IF /\ now - failures[c].first <= RecordTTL
                        /\ ~failures[c].givenUp
                     THEN failures[c] ELSE NoFailure]

PruneFailures(failures) ==
    [c \in Clips |-> IF now - failures[c].first <= RecordTTL
                     THEN failures[c] ELSE NoFailure]

Pruned(t) == [t EXCEPT !.downloaded = PruneIds(@),
                       !.failures   = PruneFailures(@)]

\* Mutant: the cursor follows every complete list, past what failed.
CursorPastHeld(p, held) ==
    IF ~p.complete \/ p.listedAt - Margin < p.since THEN p.since
    ELSE p.listedAt - Margin

\* Mutant: the cursor follows the oldest held clip even behind the last since.
CursorBackToHeld(p, held) ==
    IF ~p.complete \/ held \cap Undated # {} THEN p.since
    ELSE MinOf({p.listedAt - Margin} \cup {created[c] - Margin : c \in held})

(* Where the next list starts: just before this one was asked for, never   *)
(* past a held clip, never back; where it was when this list is cut short  *)
(* or a held clip has no readable time.                                    *)
NextListCursor(p, held) ==
    IF ~p.complete \/ held \cap Undated # {} THEN p.since
    ELSE LET cursor == MinOf({p.listedAt - Margin}
                              \cup {created[c] - Margin : c \in held})
         IN  IF cursor >= p.since THEN cursor ELSE p.since

-----------------------------------------------------------------------------
Init ==
    /\ now = Lookback
    /\ created = [c \in Clips |-> None]
    /\ listed = {} /\ deleted = {} /\ files = {}
    /\ tracker = EmptyTracker /\ disk = EmptyTracker
    /\ poll = IdlePoll
    /\ faults = 0
    /\ stored = {} /\ gaveUp = [c \in Clips |-> None]
    /\ baseline = None

(* Blink and the clock.  A clip is listed at most PublishDelay after it is *)
(* recorded: time does not pass a clip that is due on the list.            *)
Recorded(c) == created[c] # None

Overdue(c) == /\ Recorded(c) /\ c \notin listed \cup deleted
              /\ now - created[c] >= PublishDelay

Tick ==
    /\ now < MaxTime
    /\ \A c \in Clips : ~Overdue(c)
    /\ now' = now + 1
    /\ UNCHANGED <<blink, files, tracker, disk, poll, faults, history>>

Record(c) ==
    /\ ~Recorded(c)
    /\ created' = [created EXCEPT ![c] = now]
    /\ UNCHANGED <<now, listed, deleted, files, tracker, disk, poll, faults,
                   history>>

Publish(c) ==
    /\ Recorded(c) /\ c \notin listed
    /\ listed' = listed \cup {c}
    /\ UNCHANGED <<now, created, deleted, files, tracker, disk, poll, faults,
                   history>>

DeleteFromBlink(c) ==
    /\ c \in listed \ deleted
    /\ deleted' = deleted \cup {c}
    /\ UNCHANGED <<now, created, listed, files, tracker, disk, poll, faults,
                   history>>

(* Retention, the archiver or the user removes a file from the folder.     *)
RemoveFile(c) ==
    /\ c \in files
    /\ files' = files \ {c}
    /\ UNCHANGED <<now, blink, tracker, disk, poll, faults, history>>

-----------------------------------------------------------------------------
(* One poll.                                                               *)

SinceCursor == tracker.cursor \* mutant: no lookback for a fresh tracker

Since == IF tracker.cursor = None THEN now - Lookback ELSE tracker.cursor

(* A poll over the storage quota returns before this and changes nothing.  *)
StartPoll ==
    /\ poll.phase = "idle"
    /\ poll' = [IdlePoll EXCEPT !.phase = "listing", !.since = Since,
                                !.listedAt = now]
    /\ UNCHANGED <<now, blink, files, tracker, disk, faults, history>>

Listing(since) == {c \in listed \ deleted : created[c] >= since}

(* The end of the poll, no await in it: count the failures, move the       *)
(* cursor, and save when anything was tried.                               *)
Conclude(p, tried) ==
    LET counted == RecordFailedAttempts(tracker, p.failed)
        held    == {c \in p.owed : IsOwed(counted, c)}
        moved   == [counted EXCEPT !.cursor = NextListCursor(p, held)]
    IN  /\ tracker' = IF tried THEN Pruned(moved) ELSE moved
        /\ disk' = IF tried THEN Pruned(moved) ELSE disk
        /\ poll' = IF LocalStorage THEN [IdlePoll EXCEPT !.phase = "local"]
                                   ELSE IdlePoll
        /\ gaveUp' = [c \in Clips |->
               IF counted.failures[c].givenUp /\ ~tracker.failures[c].givenUp
               THEN counted.failures[c].first ELSE gaveUp[c]]
        /\ baseline' = IF tracker.cursor = None THEN p.since ELSE baseline
        /\ UNCHANGED stored

(* The batch: as many due clips as the poll may take, clips never tried    *)
(* before clips being retried; the order among equals is Blink's.          *)
IsBatch(B, owed) ==
    LET due == {c \in owed : RetryDue(tracker, c)}
    IN  /\ B \subseteq due
        /\ Cardinality(B) = MinOf({Cardinality(due), MaxPerPoll})
        /\ \A c \in B, d \in due \ B :
               IsRetrying(tracker, c) => IsRetrying(tracker, d)

Received(got, complete) ==
    LET p == [poll EXCEPT !.phase = "downloading", !.complete = complete,
                          !.owed  = {c \in got : IsOwed(tracker, c)}]
    IN  \E B \in SUBSET p.owed :
            /\ IsBatch(B, p.owed)
            /\ IF B = {}
               THEN Conclude(p, FALSE)
               ELSE /\ poll' = [p EXCEPT !.pending = B]
                    /\ UNCHANGED <<tracker, disk, history>>

ReceiveList ==
    /\ poll.phase = "listing"
    /\ Received(Listing(poll.since), TRUE)
    /\ UNCHANGED <<now, blink, files, faults>>

(* A page fails after others arrived: part of the list, known incomplete.  *)
ReceivePartialList ==
    /\ poll.phase = "listing" /\ faults < MaxFaults
    /\ \E got \in SUBSET Listing(poll.since) : Received(got, FALSE)
    /\ faults' = faults + 1
    /\ UNCHANGED <<now, blink, files>>

(* The session is refused: the poll is abandoned and the app reconnects.   *)
AuthFatal ==
    /\ poll.phase \in {"listing", "local"} /\ faults < MaxFaults
    /\ poll' = IdlePoll
    /\ faults' = faults + 1
    /\ UNCHANGED <<now, blink, files, tracker, disk, history>>

Downloading(c) == poll.phase = "downloading" /\ c \in poll.pending

DownloadOk(c) ==
    /\ Downloading(c) /\ c \notin files
    /\ files' = files \cup {c} /\ stored' = stored \cup {c}
    /\ tracker' = MarkDownloaded(tracker, c)
    /\ poll' = [poll EXCEPT !.pending = @ \ {c}]
    /\ UNCHANGED <<now, blink, disk, faults, gaveUp, baseline>>

(* The file is already in the folder: only the tracker had lost it.        *)
DownloadSkip(c) ==
    /\ Downloading(c) /\ c \in files
    /\ tracker' = MarkDownloaded(tracker, c)
    /\ poll' = [poll EXCEPT !.pending = @ \ {c}]
    /\ UNCHANGED <<now, blink, files, disk, faults, history>>

DownloadFails(c) ==
    /\ Downloading(c) /\ c \notin files
    /\ poll' = [poll EXCEPT !.pending = @ \ {c}, !.failed = @ \cup {c}]
    /\ UNCHANGED <<now, blink, files, tracker, disk, faults, history>>

(* _QuotaReachedError: the clip was not tried, so it has not failed.       *)
DownloadQuota(c) ==
    /\ Downloading(c)
    /\ poll' = [poll EXCEPT !.pending = @ \ {c}]
    /\ UNCHANGED <<now, blink, files, tracker, disk, faults, history>>

\* Mutant: a poll in which something failed is not saved.
FinishPollKeepsFailures ==
    /\ poll.phase = "downloading" /\ poll.pending = {}
    /\ Conclude(poll, poll.failed = {})
    /\ UNCHANGED <<now, blink, files, faults>>

FinishPoll ==
    /\ poll.phase = "downloading" /\ poll.pending = {}
    /\ Conclude(poll, TRUE)
    /\ UNCHANGED <<now, blink, files, faults>>

(* The local-storage pass that follows a poll saves whatever it found.     *)
LocalStoragePass ==
    /\ poll.phase = "local"
    /\ tracker' = Pruned(tracker) /\ disk' = Pruned(tracker)
    /\ poll' = IdlePoll
    /\ UNCHANGED <<now, blink, files, faults, history>>

-----------------------------------------------------------------------------
(* Restores and restarts.                                                  *)

(* A backup is restored, at any await: its ids count as downloaded, and    *)
(* the tracker is saved when that added any.                               *)
MergeDownloaded(c) ==
    /\ faults < MaxFaults /\ Recorded(c) /\ ~IsDownloaded(tracker, c)
    /\ tracker' = Pruned(MarkDownloaded(tracker, c))
    /\ disk' = tracker'
    /\ stored' = stored \cup {c}
    /\ faults' = faults + 1
    /\ UNCHANGED <<now, blink, files, poll, gaveUp, baseline>>

(* The process dies anywhere and starts again from the tracker file.       *)
Crash ==
    /\ faults < MaxFaults
    /\ faults' = faults + 1
    /\ tracker' = disk
    /\ poll' = IdlePoll
    /\ baseline' = IF disk.cursor = None THEN None ELSE baseline
    /\ UNCHANGED <<now, blink, files, disk, stored, gaveUp>>

(* A clean stop waits for the poll cycle, then saves.                      *)
CleanRestart ==
    /\ poll.phase = "idle"
    /\ tracker' = Pruned(tracker) /\ disk' = Pruned(tracker)
    /\ UNCHANGED <<now, blink, files, poll, faults, history>>

-----------------------------------------------------------------------------
BlinkStep == \E c \in Clips : Record(c) \/ Publish(c) \/ DeleteFromBlink(c)

DownloadStep ==
    \E c \in Clips : \/ DownloadOk(c) \/ DownloadSkip(c)
                     \/ DownloadFails(c) \/ DownloadQuota(c)

PollStep ==
    \/ StartPoll \/ ReceiveList \/ ReceivePartialList \/ AuthFatal
    \/ DownloadStep \/ FinishPoll \/ LocalStoragePass

Next ==
    \/ Tick \/ BlinkStep \/ PollStep
    \/ \E c \in Clips : RemoveFile(c) \/ MergeDownloaded(c)
    \/ Crash \/ CleanRestart

Spec == Init /\ [][Next]_vars

-----------------------------------------------------------------------------
(* The state keeps its shape: the tracker and its file are well-formed.    *)
TypeOK ==
    /\ now \in Nat
    /\ created \in [Clips -> Times]
    /\ listed \subseteq Clips /\ deleted \subseteq Clips
    /\ files \subseteq Clips
    /\ tracker \in Trackers /\ disk \in Trackers
    /\ poll \in Polls
    /\ faults \in Nat
    /\ stored \subseteq Clips
    /\ gaveUp \in [Clips -> Times] /\ baseline \in Times

(* Still owed a download, by what really happened and not by the tracker.  *)
Unresolved(c) == /\ Recorded(c) /\ c \notin deleted \cup stored
                 /\ gaveUp[c] = None

(* No footage is lost: a clip recorded since the downloader first had a    *)
(* cursor is stored, given up on, deleted in Blink, or still within reach  *)
(* of the next clip list, published late or not (downloader.py:1293-1318). *)
NoClipLost ==
    \A c \in Clips : /\ tracker.cursor # None
                     /\ Unresolved(c) /\ created[c] >= baseline
                     => created[c] >= tracker.cursor

(* What a crash falls back on is behind what is in memory: the cursor in   *)
(* the file never leads, and the file claims no clip that is not stored    *)
(* (downloader.py:1212-1218).                                              *)
DiskLags ==
    /\ disk.cursor <= tracker.cursor
    /\ \A c \in Clips : IsDownloaded(disk, c) => c \in stored

(* A crash forgets no failure, so it neither shortens a backoff nor delays *)
(* giving up; only a clip since downloaded has a failure left in the file. *)
FailuresOnDisk ==
    \A c \in Clips : \/ tracker.failures[c] = disk.failures[c]
                     \/ IsDownloaded(tracker, c)

(* A clip given up on is not asked for again, across crashes and restarts, *)
(* until its failure record has outlived its TTL (tracker.py:36-39).       *)
GiveUpRemembered ==
    \A c \in Clips : /\ gaveUp[c] # None /\ c \notin stored
                     /\ now - gaveUp[c] <= RecordTTL
                     => HasGivenUp(tracker, c)

-----------------------------------------------------------------------------
(* Under the fairness the poll loop gives it every clip is settled in the  *)
(* end, and the clip that will never download lets go of the list cursor   *)
(* (tracker.py:18-26).                                                     *)
(*                                                                         *)
(* A poll interval is short against one unit of time, so the clock moves   *)
(* only when polls have taken all that is due.  The clock is bounded, so   *)
(* clips are recorded up to LastRecord only, early enough to be given up   *)
(* on before it stops.                                                     *)
Settled == /\ poll.phase = "idle"
           /\ \A c \in Listing(Since) : ~IsOwed(tracker, c)
                                        \/ ~RetryDue(tracker, c)

SettledTick == Settled /\ Tick

RecordInTime(c) == now <= LastRecord /\ Record(c)

Tried == \E c \in Clips : DownloadOk(c) \/ DownloadSkip(c) \/ DownloadFails(c)

LiveNext ==
    \/ SettledTick
    \/ \E c \in Clips : RecordInTime(c) \/ Publish(c) \/ DeleteFromBlink(c)
    \/ PollStep
    \/ \E c \in Clips : RemoveFile(c)
    \/ Crash

(* The event loop resumes whatever is ready, so a step of a poll happens   *)
(* when it can; the quota does not stop every download for ever, and       *)
(* time passes whenever the polls leave it a moment.                       *)
Fairness ==
    /\ WF_vars(StartPoll) /\ WF_vars(ReceiveList)
    /\ WF_vars(DownloadStep) /\ SF_vars(Tried)
    /\ WF_vars(FinishPoll) /\ WF_vars(LocalStoragePass)
    /\ SF_vars(SettledTick)
    /\ \A c \in Clips : WF_vars(Publish(c))

LiveSpec == Init /\ [][LiveNext]_vars /\ Fairness

(* Every clip within reach is stored, given up on or deleted in the end,   *)
(* and none holds the list cursor back for ever, not even one that never   *)
(* downloads or one whose time cannot be read (tracker.py:18-26).          *)
CursorReleased ==
    <>[](/\ \A c \in Clips : Unresolved(c) => created[c] < baseline
         /\ poll.phase = "idle" => tracker.cursor = MaxTime - Margin)
=============================================================================
