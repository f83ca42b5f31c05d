------------------------------ MODULE LiveView ------------------------------
(***************************************************************************)
(* Live view (live_view.py): one camera at a time is relayed from Blink's  *)
(* cloud through ffmpeg to HLS files that a browser reads.  A session owns *)
(* a relay stream, an ffmpeg process, a temporary directory and tasks.     *)
(*                                                                         *)
(* start_session, stop_session, the sweeper and close take one lock.  The  *)
(* end of the relay, the exit of ffmpeg and the heartbeat do not: they     *)
(* write to the session between the awaits of whoever holds it.            *)
(***************************************************************************)
EXTENDS Integers, FiniteSets

CONSTANTS
    Cameras,
    MaxSessions,        \* bound: sessions created
    StartupTimeout,     \* in sweep intervals, the model's unit of time
    IdleTimeout,
    MaxDuration

NoSession == 0
Ids       == 1..MaxSessions

VARIABLES
    session,    \* LiveViewManager._session
    sess,       \* every session's fields and what it owns
    lockop,     \* the holder of the lock: who, where, on which session
    sweeper,    \* the sweep loop: asleep, due, or ended
    phase,      \* the application: running, cancelling, webdown, closed
    created,    \* how many sessions were created
    shown,      \* history: the session's error has been up a sweep interval
    cut         \* history: sessions whose teardown was cancelled half-way

lvars == <<session, sess, lockop, sweeper, phase, created, shown, cut>>

-----------------------------------------------------------------------------
Unborn == [camera |-> "none", stream |-> "none", ffmpeg |-> "none",
           feed |-> "none", watcher |-> "none", dir |-> FALSE,
           error |-> FALSE, stopping |-> FALSE, seen |-> FALSE,
           playable |-> FALSE, age |-> 0, idle |-> 0]

FreeLock == [by |-> "nobody", pc |-> "free", id |-> NoSession, camera |-> "none"]

Init ==
    /\ session = NoSession
    /\ sess = [i \in Ids |-> Unborn]
    /\ lockop = FreeLock
    /\ sweeper = "asleep"
    /\ phase = "running"
    /\ created = 0
    /\ shown = FALSE
    /\ cut = {}

At(pc)   == lockop.pc = pc
InHand   == sess[lockop.id]
GoTo(pc) == lockop' = [lockop EXCEPT !.pc = pc]

Quiet(s)   == s.ffmpeg = "exited"
FeedDone(s) == s.feed = "done"

-----------------------------------------------------------------------------
(* Teardown.  The session is forgotten and marked as stopping before       *)
(* anything is waited for.                                                 *)

(* ffmpeg is asked to end unless it has exited.                            *)
EndFfmpeg(s) == IF Quiet(s) THEN "exited" ELSE "ending"

(* What only the current session needs is read no more.                    *)
Retired(s) ==
    [s EXCEPT !.stopping = TRUE, !.ffmpeg = EndFfmpeg(s), !.camera = "none",
              !.seen = FALSE, !.playable = FALSE, !.age = 0, !.idle = 0]

Teardown(who, camera) ==
    LET i == session IN
    /\ session' = NoSession
    /\ lockop' = [by |-> who, pc |-> IF Quiet(sess[i]) THEN "unstream" ELSE "reap",
                  id |-> i, camera |-> camera]
    /\ sess' = [sess EXCEPT ![i] = Retired(@)]

Rest == <<sweeper, phase, created, shown, cut>>

(* It exits in time, or is killed and reaped.                              *)
Reap ==
    /\ At("reap")
    /\ sess' = [sess EXCEPT ![lockop.id].ffmpeg = "exited"]
    /\ GoTo("unstream")
    /\ UNCHANGED <<session, Rest>>

(* The relay gets a grace period to tell Blink that it is over ...         *)
StopStream ==
    /\ At("unstream")
    /\ sess' = [sess EXCEPT ![lockop.id].stream = "stopped"]
    /\ GoTo(IF FeedDone(InHand) THEN "unwatch" ELSE "grace")
    /\ UNCHANGED <<session, Rest>>

GraceEnds ==
    /\ At("grace")
    /\ GoTo(IF FeedDone(InHand) THEN "unwatch" ELSE "unfeed")
    /\ UNCHANGED <<session, sess, Rest>>

(* ... and is cancelled if it overstays it.                                *)
CancelFeed ==
    /\ At("unfeed")
    /\ sess' = [sess EXCEPT ![lockop.id].feed = "done"]
    /\ GoTo("unwatch")
    /\ UNCHANGED <<session, Rest>>

CancelWatcher ==
    /\ At("unwatch")
    /\ sess' = [sess EXCEPT ![lockop.id].watcher = "done"]
    /\ GoTo("rmtree")
    /\ UNCHANGED <<session, Rest>>

(* A start goes on to look its camera up; the others give the lock back.   *)
RemoveDir ==
    /\ At("rmtree")
    /\ sess' = [sess EXCEPT ![lockop.id].dir = FALSE]
    /\ IF lockop.by = "start"
         THEN GoTo("lookup") /\ UNCHANGED <<sweeper, phase>>
         ELSE /\ lockop' = FreeLock
              /\ sweeper' = IF lockop.by = "sweep" THEN "asleep" ELSE sweeper
              /\ phase' = IF lockop.by = "close" THEN "closed" ELSE phase
    /\ UNCHANGED <<session, created, shown, cut>>

-----------------------------------------------------------------------------
(* start_session and stop_session, from the web server.                    *)

ServerUp == phase \in {"running", "cancelling"}

Healthy(camera) ==
    session # NoSession /\ ~sess[session].error /\ sess[session].camera = camera

(* A healthy session of the same camera is joined, which changes nothing.  *)
Start(camera) ==
    /\ ServerUp /\ At("free") /\ created < MaxSessions
    /\ ~Healthy(camera)
    /\ IF session # NoSession
         THEN Teardown("start", camera) /\ UNCHANGED Rest
         ELSE /\ lockop' = [FreeLock EXCEPT !.by = "start", !.pc = "lookup",
                                            !.camera = camera]
              /\ UNCHANGED <<session, sess, Rest>>

(* The account has no such camera, Blink does not answer in time, refuses, *)
(* or the local port cannot be opened.                                     *)
StartFails ==
    /\ lockop.by = "start" /\ lockop.pc \in {"lookup", "init", "port"}
    /\ sess' = IF At("port")
               THEN [sess EXCEPT ![created].stream = "stopped"] ELSE sess
    /\ lockop' = FreeLock
    /\ UNCHANGED <<session, Rest>>

LookUp ==
    /\ At("lookup")
    /\ GoTo("init")
    /\ UNCHANGED <<session, sess, Rest>>

(* init_livestream has opened a live view with Blink's cloud.              *)
Opened ==
    /\ At("init")
    /\ created' = created + 1
    /\ sess' = [sess EXCEPT ![created'].stream = "open"]
    /\ GoTo("port")
    /\ UNCHANGED <<session, sweeper, phase, shown, cut>>

Listening ==
    /\ At("port")
    /\ sess' = [sess EXCEPT ![created].dir = TRUE]
    /\ GoTo("spawn")
    /\ UNCHANGED <<session, Rest>>

Registered(s, camera) ==
    [s EXCEPT !.camera = camera, !.ffmpeg = "running", !.feed = "running",
              !.watcher = "waiting"]

Spawned ==
    /\ At("spawn")
    /\ sess' = [sess EXCEPT ![created] = Registered(@, lockop.camera)]
    /\ session' = created
    /\ lockop' = FreeLock
    /\ shown' = FALSE
    /\ UNCHANGED <<sweeper, phase, created, cut>>

\* Mutant: the relay is left open when ffmpeg cannot be started.
LeaveStream(s) == s

StreamQuietlyStopped(s) == [s EXCEPT !.stream = "stopped"]

SpawnFails ==
    /\ At("spawn")
    /\ sess' = [sess EXCEPT ![created] = StreamQuietlyStopped(@)]
    /\ lockop' = [lockop EXCEPT !.pc = "undir"]
    /\ UNCHANGED <<session, Rest>>

UndoDir ==
    /\ At("undir")
    /\ sess' = [sess EXCEPT ![created].dir = FALSE]
    /\ lockop' = FreeLock
    /\ UNCHANGED <<session, Rest>>

(* A request that names another session, or finds none, changes nothing.   *)
Stop ==
    /\ ServerUp /\ At("free") /\ session # NoSession
    /\ Teardown("stop", "none")
    /\ UNCHANGED Rest

(* heartbeat takes no lock.                                                *)
Heartbeat ==
    /\ ServerUp /\ session # NoSession
    /\ sess[session].idle > 0
    /\ sess' = [sess EXCEPT ![session].idle = 0]
    /\ UNCHANGED <<session, lockop, Rest>>

(* rename_camera keeps the name of an active session that of its camera.   *)
Rename(camera) ==
    /\ ServerUp /\ At("free") /\ session # NoSession
    /\ sess' = [sess EXCEPT ![session].camera = camera]
    /\ UNCHANGED <<session, lockop, Rest>>

-----------------------------------------------------------------------------
(* What happens to a session by itself.                                    *)

Playable(i) ==
    /\ sess[i].ffmpeg = "running" /\ sess[i].feed = "running"
    /\ ~sess[i].playable
    /\ sess' = [sess EXCEPT ![i].playable = TRUE]
    /\ UNCHANGED <<session, lockop, Rest>>

FfmpegExits(i) ==
    /\ sess[i].ffmpeg \in {"running", "ending"}
    /\ sess' = [sess EXCEPT ![i].ffmpeg = "exited"]
    /\ UNCHANGED <<session, lockop, Rest>>

FeedEnds(i) ==
    /\ sess[i].feed = "running"
    /\ sess' = [sess EXCEPT ![i].feed = "ended"]
    /\ UNCHANGED <<session, lockop, Rest>>

(* _handle_feed_done: the callback of a relay that ended.                  *)
FeedCallback(i) ==
    LET s == sess[i] IN
    /\ s.feed = "ended"
    /\ IF s.stopping \/ session # i
         THEN sess' = [sess EXCEPT ![i].feed = "done"]
         ELSE sess' = [sess EXCEPT ![i].feed = "done", ![i].error = TRUE,
                                   ![i].ffmpeg = EndFfmpeg(s)]
    /\ UNCHANGED <<session, lockop, Rest>>

(* _watch_ffmpeg: an exit nobody asked for is an error.                    *)
WatcherWakes(i) ==
    LET s == sess[i] IN
    /\ s.watcher = "waiting" /\ Quiet(s)
    /\ IF s.stopping
         THEN sess' = [sess EXCEPT ![i].watcher = "done"]
         ELSE sess' = [sess EXCEPT ![i].watcher = "finalizing",
                                   ![i].error = TRUE]
    /\ UNCHANGED <<session, lockop, Rest>>

(* The playlist is marked as finished, the relay stopped and waited for.   *)
WatcherFinalizes(i) ==
    /\ sess[i].watcher = "finalizing"
    /\ sess' = [sess EXCEPT ![i].stream = "stopped", ![i].watcher =
                             IF FeedDone(sess[i]) THEN "done" ELSE "grace"]
    /\ UNCHANGED <<session, lockop, Rest>>

WatcherEnds(i) ==
    /\ sess[i].watcher = "grace"
    /\ sess' = [sess EXCEPT ![i].watcher = "done", ![i].feed = "done"]
    /\ UNCHANGED <<session, lockop, Rest>>

-----------------------------------------------------------------------------
(* The sweep loop.                                                         *)

Starting(s) == ~s.error /\ ~s.playable

ErrorWasSeen(s) == s.error /\ s.seen

OverTime(s) == s.idle > IdleTimeout \/ s.age > MaxDuration

Expired(s) ==
    \/ ErrorWasSeen(s)
    \/ /\ ~s.error
       /\ ~(Starting(s) /\ s.age > StartupTimeout)
       /\ OverTime(s)

(* Nothing is wrong, or it is noted for the next sweep.                    *)
SweepNotes ==
    /\ sweeper = "due" /\ At("free")
    /\ session # NoSession => ~Expired(sess[session])
    /\ sweeper' = "asleep"
    /\ IF session = NoSession THEN sess' = sess
       ELSE LET s == sess[session] IN
            CASE s.error -> sess' = [sess EXCEPT ![session].seen = TRUE]
              [] ~s.error /\ Starting(s) /\ s.age > StartupTimeout ->
                    sess' = [sess EXCEPT ![session].error = TRUE]
              [] OTHER -> sess' = sess
    /\ UNCHANGED <<session, lockop, phase, created, shown, cut>>

SweepTearsDown ==
    /\ sweeper = "due" /\ At("free")
    /\ session # NoSession /\ Expired(sess[session])
    /\ sweeper' = "sweeping"
    /\ Teardown("sweep", "none")
    /\ UNCHANGED <<phase, created, shown, cut>>

(* A sweep interval passes.  Ages are counted up to just past the limits.  *)
Capped(n, limit) == IF n > limit THEN n ELSE n + 1

Tick ==
    /\ sweeper = "asleep"
    /\ sweeper' = "due"
    /\ IF session = NoSession THEN UNCHANGED <<sess, shown>>
       ELSE LET s == sess[session] IN
            /\ sess' = [sess EXCEPT
                         ![session].age  = Capped(s.age, MaxDuration),
                         ![session].idle = Capped(s.idle, IdleTimeout)]
            /\ shown' = s.error
    /\ UNCHANGED <<session, lockop, phase, created, cut>>

-----------------------------------------------------------------------------
(* Shutdown (app.py): the background tasks are cancelled and awaited, then *)
(* the web server stops, then live view is closed.                         *)

(* Cancelled while it tears a session down, the sweeper stops there; but   *)
(* _cancel_task suppresses CancelledError, and not only that of the task   *)
(* it awaits: cancelled in there, the sweep loop goes on.                  *)
CancelTasks ==
    /\ phase = "running"
    /\ phase' = "cancelling"
    /\ CASE lockop.by # "sweep" ->
              sweeper' = "ended" /\ UNCHANGED <<lockop, cut>>
         [] lockop.by = "sweep" /\ lockop.pc \in {"unfeed", "unwatch"} ->
              UNCHANGED <<sweeper, lockop, cut>>
         [] OTHER ->
              /\ sweeper' = "ended"
              /\ lockop' = FreeLock
              /\ cut' = cut \cup {lockop.id}
    /\ UNCHANGED <<session, sess, created, shown>>

(* runner.cleanup() lets the requests under way finish.                    *)
StopServer ==
    /\ phase = "cancelling" /\ sweeper = "ended"
    /\ At("free")
    /\ phase' = "webdown"
    /\ UNCHANGED <<session, sess, lockop, sweeper, created, shown, cut>>

Close ==
    /\ phase = "webdown" /\ At("free")
    /\ IF session = NoSession
         THEN phase' = "closed" /\ UNCHANGED <<session, sess, lockop>>
         ELSE Teardown("close", "none") /\ UNCHANGED phase
    /\ UNCHANGED <<sweeper, created, shown, cut>>

(* What the application is left with when it has shut down.                *)
Closed == phase = "closed" /\ UNCHANGED lvars

-----------------------------------------------------------------------------
LockStep ==
    \/ Reap \/ StopStream \/ GraceEnds \/ CancelFeed \/ CancelWatcher
    \/ RemoveDir
    \/ StartFails \/ LookUp \/ Opened \/ Listening \/ Spawned \/ SpawnFails
    \/ UndoDir

SessionStep(i) ==
    \/ FeedCallback(i)
    \/ WatcherWakes(i) \/ WatcherFinalizes(i) \/ WatcherEnds(i)

SweepStep == SweepNotes \/ SweepTearsDown \/ Tick

Next ==
    \/ LockStep
    \/ \E camera \in Cameras : Start(camera) \/ Rename(camera)
    \/ Stop \/ Heartbeat
    \/ \E i \in Ids : SessionStep(i) \/ Playable(i) \/ FfmpegExits(i)
                      \/ FeedEnds(i)
    \/ SweepStep
    \/ CancelTasks \/ StopServer \/ Close \/ Closed

Spec == Init /\ [][Next]_lvars

-----------------------------------------------------------------------------
(* The current session is whole: its process, its directory and its tasks  *)
(* exist, and nobody has begun to take it down.                            *)
LiveViewTypeOK ==
    /\ session \in Ids \cup {NoSession}
    /\ session # NoSession =>
         /\ sess[session].ffmpeg # "none" /\ sess[session].feed # "none"
         /\ sess[session].watcher # "none" /\ sess[session].dir
         /\ ~sess[session].stopping
    /\ created \in 0..MaxSessions
    /\ lockop.id \in Ids \cup {NoSession}
    /\ sweeper \in {"asleep", "due", "sweeping", "ended"}
    /\ phase \in {"running", "cancelling", "webdown", "closed"}
    /\ cut \subseteq Ids

(* What a session still holds of the outside world.                        *)
Holds(i) ==
    \/ sess[i].stream = "open"
    \/ sess[i].ffmpeg \in {"running", "ending"}
    \/ sess[i].feed \in {"running", "ended"}
    \/ sess[i].dir

(* Whatever way a session ends, failed starts included, nothing of it is   *)
(* left once the lock is free, unless the shutdown cut its teardown short. *)
NothingStranded ==
    At("free") => \A i \in Ids : Holds(i) => i = session \/ i \in cut

(* One camera at a time: Blink is never asked for a second live view while *)
(* another one still runs.                                                 *)
OneCameraAtATime ==
    Cardinality({i \in Ids \ cut : sess[i].stream = "open"}) <= 1

(* A stop, a switch or a timeout is never reported as a crash: no error    *)
(* appears in a session once it is being torn down.                        *)
NoFalseCrash ==
    \A i \in Ids : sess'[i].error /\ ~sess[i].error => session = i

(* The sweeper leaves an error where the page polls for it for at least    *)
(* one full sweep interval.                                                *)
ErrorIsShown ==
    SweepTearsDown /\ sess[session].error => shown

(* The event loop runs every step whose wait is over, the lock is passed   *)
(* on, and time goes by.                                                   *)
LiveViewFairness ==
    /\ WF_lvars(LockStep)
    /\ \A i \in Ids : WF_lvars(SessionStep(i))
    /\ SF_lvars(SweepNotes) /\ SF_lvars(SweepTearsDown) /\ WF_lvars(Tick)

FairSpec == Spec /\ LiveViewFairness

(* A session does not live for ever, whatever its viewers do: an error, a  *)
(* missing heartbeat or the maximum duration ends it while the app runs.   *)
Lives(i) == session = i /\ phase = "running"
SessionsEnd == \A i \in Ids : []<>~Lives(i)

=============================================================================
