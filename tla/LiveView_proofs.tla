-------------------------- MODULE LiveView_proofs ---------------------------
(***************************************************************************)
(* What is proved of LiveView for every set of cameras, every number of    *)
(* sessions and every timeout.                                             *)
(*                                                                         *)
(* The lock says whose session may still hold something: the current one   *)
(* when it is free, the one being torn down during a teardown, the one     *)
(* being built during a start.  Whatever is none of these holds nothing,   *)
(* unless the shutdown cut its teardown short.                             *)
(***************************************************************************)
EXTENDS LiveView, TLAPS, FiniteSetTheorems

TearPcs  == {"reap", "unstream", "grace", "unfeed", "unwatch", "rmtree"}
BuildPcs == {"port", "spawn", "undir"}
StartPcs == {"lookup", "init"} \cup BuildPcs
Actors   == {"start", "stop", "sweep", "close"}

Names == Cameras \cup {"none"}

Session ==
    [camera : Names, stream : {"none", "open", "stopped"},
     ffmpeg : {"none", "running", "ending", "exited"},
     feed : {"none", "running", "ended", "done"},
     watcher : {"none", "waiting", "finalizing", "grace", "done"},
     dir : BOOLEAN, error : BOOLEAN, stopping : BOOLEAN, seen : BOOLEAN,
     playable : BOOLEAN, age : Nat, idle : Nat]

Lock == [by : Actors \cup {"nobody"}, pc : TearPcs \cup StartPcs \cup {"free"},
         id : Ids \cup {NoSession}, camera : Names]

Shapes ==
    /\ session \in Ids \cup {NoSession}
    /\ sess \in [Ids -> Session]
    /\ lockop \in Lock
    /\ sweeper \in {"asleep", "due", "sweeping", "ended"}
    /\ phase \in {"running", "cancelling", "webdown", "closed"}
    /\ created \in 0..MaxSessions
    /\ shown \in BOOLEAN
    /\ cut \in SUBSET Ids

(* Who holds the lock, and how far.                                        *)
LockInv ==
    /\ lockop.by = "nobody" <=> At("free")
    /\ lockop.pc \in TearPcs => lockop.id \in Ids /\ lockop.id <= created
    /\ lockop.pc \in StartPcs => lockop.by = "start"
    /\ lockop.pc \in BuildPcs => created > 0 /\ created \notin cut
    /\ lockop.by = "start" /\ lockop.pc \notin BuildPcs => created < MaxSessions
    /\ ~At("free") => session = NoSession
    /\ session <= created /\ session \notin cut
    /\ \A i \in cut : i <= created

(* What is left of the session in hand, step by step of its teardown.      *)
TeardownInv ==
    lockop.pc \in TearPcs =>
        LET s == sess[lockop.id] IN
        /\ s.stopping
        /\ lockop.pc # "reap" => s.ffmpeg = "exited"
        /\ lockop.pc \notin {"reap", "unstream"} => s.stream = "stopped"
        /\ lockop.pc \in {"unwatch", "rmtree"} => s.feed = "done"

(* What there is of the session being built, step by step of its start.    *)
BuildInv ==
    lockop.pc \in BuildPcs =>
        LET s == sess[created] IN
        /\ s.ffmpeg = "none" /\ s.feed = "none" /\ s.watcher = "none"
        /\ ~s.stopping /\ ~s.error /\ ~s.seen
        /\ At("port") => ~s.dir
        /\ At("spawn") => s.dir
        /\ At("undir") => s.stream = "stopped"

(* The session that may still hold something of the outside world.         *)
InCharge(i) ==
    \/ i = session
    \/ lockop.pc \in TearPcs /\ i = lockop.id
    \/ lockop.pc \in BuildPcs /\ i = created

HoldInv ==
    \A i \in Ids :
        /\ i > created => sess[i] = Unborn
        /\ Holds(i) => i \in cut \/ InCharge(i)
        /\ sess[i].watcher # "none" => i = session \/ sess[i].stopping

(* The current session is whole, and an error is seen before it is acted on. *)
CurrentInv ==
    session # NoSession =>
        LET s == sess[session] IN
        /\ s.ffmpeg # "none" /\ s.feed # "none" /\ s.watcher # "none" /\ s.dir
        /\ ~s.stopping
        /\ s.seen => s.error
        /\ s.seen /\ sweeper = "due" => shown

IInv == Shapes /\ LockInv /\ TeardownInv /\ BuildInv /\ HoldInv /\ CurrentInv

-----------------------------------------------------------------------------
(* First the steps a session takes by itself, whoever holds the            *)
(* lock: they only ever take something away from it.                       *)
Moves(s, t) ==
    /\ t \in Session
    /\ s.ffmpeg # "none" \/ s.feed # "none" \/ s.watcher # "none"
    /\ t.stopping = s.stopping /\ t.dir = s.dir /\ t.seen = s.seen
    /\ s.error => t.error
    /\ t.stream = s.stream \/ t.stream = "stopped"
    /\ \/ t.ffmpeg = s.ffmpeg
       \/ s.ffmpeg \in {"running", "ending"} /\ t.ffmpeg \in {"ending", "exited"}
    /\ \/ t.feed = s.feed
       \/ s.feed = "running" /\ t.feed = "ended"
       \/ t.feed = "done"
    /\ s.watcher = "none" <=> t.watcher = "none"

(* The invariant survives such a step of any session.                      *)
LEMMA MovesKeepIInv ==
    ASSUME IInv, NEW i \in Ids, NEW t, Moves(sess[i], t),
           sess' = [sess EXCEPT ![i] = t],
           UNCHANGED <<session, lockop, Rest>>
    PROVE  IInv'
<1> USE DEF Rest
<1>1. Shapes'
  BY DEF IInv, Shapes, Moves
<1>2. LockInv'
  BY DEF IInv, LockInv, At
<1>3. TeardownInv'
  BY DEF IInv, Shapes, LockInv, TeardownInv, Moves
<1>4. i <= created /\ (lockop.pc \in BuildPcs => i # created)
  BY DEF IInv, Shapes, HoldInv, BuildInv, Moves, Unborn, Ids
<1>5. BuildInv'
  BY <1>4 DEF IInv, Shapes, BuildInv, At, LockInv, Ids
<1>6. HoldInv'
  <2>1. ASSUME NEW j \in Ids, j # i
        PROVE  /\ j > created' => sess'[j] = Unborn
               /\ Holds(j)' => j \in cut' \/ InCharge(j)'
               /\ sess'[j].watcher # "none" => j = session' \/ sess'[j].stopping
    BY <2>1 DEF IInv, Shapes, HoldInv, InCharge, Holds
  <2>2. /\ ~(i > created')
        /\ Holds(i)' => i \in cut' \/ InCharge(i)'
        /\ sess'[i].watcher # "none" => i = session' \/ sess'[i].stopping
    BY <1>4 DEF IInv, Shapes, HoldInv, InCharge, Holds, Moves, Session, Ids
  <2> QED
    BY <2>1, <2>2 DEF HoldInv
<1>7. CurrentInv'
  BY DEF IInv, Shapes, CurrentInv, Moves
<1> QED
  BY <1>1, <1>2, <1>3, <1>5, <1>6, <1>7 DEF IInv

(* What a session does by itself, and what a browser does to it, are such   *)
(* steps: the playlist, the end of ffmpeg and of the relay, their callbacks. *)
LEMMA SessionKeepsIInv ==
    ASSUME IInv, NEW i \in Ids,
           \/ SessionStep(i) \/ Playable(i) \/ FfmpegExits(i) \/ FeedEnds(i)
    PROVE  IInv'
<1> USE DEF IInv, Shapes, Moves
<1>1. sess[i] \in Session /\ sess \in [Ids -> Session]
  OBVIOUS
<1>2. CASE Playable(i)
  <2> DEFINE t == [sess[i] EXCEPT !.playable = TRUE]
  <2>1. Moves(sess[i], t) /\ sess' = [sess EXCEPT ![i] = t]
    BY <1>1, <1>2 DEF Playable, Session
  <2> QED
    BY <1>2, <2>1, MovesKeepIInv DEF Playable
<1>3. CASE FfmpegExits(i)
  <2> DEFINE t == [sess[i] EXCEPT !.ffmpeg = "exited"]
  <2>1. Moves(sess[i], t) /\ sess' = [sess EXCEPT ![i] = t]
    BY <1>1, <1>3 DEF FfmpegExits, Session
  <2> QED
    BY <1>3, <2>1, MovesKeepIInv DEF FfmpegExits
<1>4. CASE FeedEnds(i)
  <2> DEFINE t == [sess[i] EXCEPT !.feed = "ended"]
  <2>1. Moves(sess[i], t) /\ sess' = [sess EXCEPT ![i] = t]
    BY <1>1, <1>4 DEF FeedEnds, Session
  <2> QED
    BY <1>4, <2>1, MovesKeepIInv DEF FeedEnds
<1>5. CASE FeedCallback(i)
  <2> DEFINE s == sess[i]
             u == [s EXCEPT !.feed = "done"]
             v == [s EXCEPT !.feed = "done", !.error = TRUE,
                            !.ffmpeg = EndFfmpeg(s)]
  <2>1. CASE s.stopping \/ session # i
    <3>1. Moves(s, u) /\ sess' = [sess EXCEPT ![i] = u]
      BY <1>1, <1>5, <2>1 DEF FeedCallback, Session
    <3> QED
      BY <1>5, <3>1, MovesKeepIInv DEF FeedCallback
  <2>2. CASE ~(s.stopping \/ session # i)
    <3>1. s.ffmpeg # "none"
      BY <2>2 DEF CurrentInv, NoSession, Ids
    <3>2. Moves(s, v) /\ sess' = [sess EXCEPT ![i] = v]
      BY <1>1, <1>5, <2>2, <3>1 DEF FeedCallback, Session, EndFfmpeg, Quiet
    <3> QED
      BY <1>5, <3>2, MovesKeepIInv DEF FeedCallback
  <2> QED
    BY <2>1, <2>2
<1>6. CASE WatcherWakes(i)
  <2> DEFINE s == sess[i]
             u == [s EXCEPT !.watcher = "done"]
             v == [s EXCEPT !.watcher = "finalizing", !.error = TRUE]
  <2>1. CASE s.stopping
    <3>1. Moves(s, u) /\ sess' = [sess EXCEPT ![i] = u]
      BY <1>1, <1>6, <2>1 DEF WatcherWakes, Session
    <3> QED
      BY <1>6, <3>1, MovesKeepIInv DEF WatcherWakes
  <2>2. CASE ~s.stopping
    <3>1. Moves(s, v) /\ sess' = [sess EXCEPT ![i] = v]
      BY <1>1, <1>6, <2>2 DEF WatcherWakes, Session
    <3> QED
      BY <1>6, <3>1, MovesKeepIInv DEF WatcherWakes
  <2> QED
    BY <2>1, <2>2
<1>7. CASE WatcherFinalizes(i)
  <2> DEFINE s == sess[i]
             t == [s EXCEPT !.stream = "stopped", !.watcher =
                                IF FeedDone(s) THEN "done" ELSE "grace"]
  <2>1. Moves(s, t) /\ sess' = [sess EXCEPT ![i] = t]
    BY <1>1, <1>7 DEF WatcherFinalizes, Session
  <2>2. UNCHANGED <<session, lockop, Rest>>
    BY <1>7 DEF WatcherFinalizes
  <2> HIDE DEF t
  <2> QED
    BY <2>1, <2>2, MovesKeepIInv
<1>8. CASE WatcherEnds(i)
  <2> DEFINE t == [sess[i] EXCEPT !.watcher = "done", !.feed = "done"]
  <2>1. Moves(sess[i], t) /\ sess' = [sess EXCEPT ![i] = t]
    BY <1>1, <1>8 DEF WatcherEnds, Session
  <2> QED
    BY <1>8, <2>1, MovesKeepIInv DEF WatcherEnds
<1> QED
  BY <1>2, <1>3, <1>4, <1>5, <1>6, <1>7, <1>8 DEF SessionStep

(* A heartbeat, and a camera that is renamed.                               *)
LEMMA PageKeepsIInv ==
    ASSUME IInv, Heartbeat \/ \E camera \in Cameras : Rename(camera)
    PROVE  IInv'
<1> USE DEF IInv, Shapes, Moves
<1>1. session \in Ids /\ sess[session].ffmpeg # "none"
  BY DEF Heartbeat, Rename, CurrentInv
<1>2. CASE Heartbeat
  <2> DEFINE t == [sess[session] EXCEPT !.idle = 0]
  <2>1. Moves(sess[session], t) /\ sess' = [sess EXCEPT ![session] = t]
    BY <1>1, <1>2 DEF Heartbeat, Session
  <2> QED
    BY <1>1, <1>2, <2>1, MovesKeepIInv DEF Heartbeat
<1>3. ASSUME NEW camera \in Cameras, Rename(camera)
      PROVE  IInv'
  <2> DEFINE t == [sess[session] EXCEPT !.camera = camera]
  <2>1. Moves(sess[session], t) /\ sess' = [sess EXCEPT ![session] = t]
    BY <1>1, <1>3 DEF Rename, Session, Names
  <2> QED
    BY <1>1, <1>3, <2>1, MovesKeepIInv DEF Rename
<1> QED
  BY <1>2, <1>3

(* Whoever begins a teardown takes the current session in hand.            *)
LEMMA TeardownKeepsIInv ==
    ASSUME IInv, NEW who \in Actors, NEW camera \in Names,
           Teardown(who, camera), At("free"), session # NoSession,
           who = "start" => created < MaxSessions,
           sweeper' \in {"asleep", "due", "sweeping", "ended"},
           UNCHANGED <<phase, created, shown, cut>>
    PROVE  IInv'
<1> USE DEF Teardown, At
<1>1. session \in Ids /\ sess[session] \in Session /\ session <= created
  BY DEF IInv, Shapes, LockInv
<1>2. Retired(sess[session]) \in Session
  BY <1>1 DEF Retired, EndFfmpeg, Session, Names
<1>3. Shapes'
  BY <1>1, <1>2 DEF IInv, Shapes, Lock, Actors, TearPcs, StartPcs, BuildPcs
<1>4. LockInv'
  BY <1>1 DEF IInv, Shapes, LockInv, Actors, TearPcs, StartPcs, BuildPcs, NoSession, Ids
<1>5. TeardownInv'
  BY <1>1, <1>2 DEF IInv, Shapes, TeardownInv, TearPcs, Retired, Quiet, EndFfmpeg, Session
<1>6. BuildInv'
  BY DEF BuildInv, BuildPcs
<1>7. HoldInv'
  <2>1. PICK i \in Ids : i = session
    BY <1>1
  <2>2. ASSUME NEW j \in Ids, j # i
        PROVE  /\ j > created' => sess'[j] = Unborn
               /\ Holds(j)' => j \in cut' \/ InCharge(j)'
               /\ sess'[j].watcher # "none" => j = session' \/ sess'[j].stopping
    BY <2>1, <2>2 DEF IInv, Shapes, HoldInv, InCharge, Holds, TearPcs, BuildPcs
  <2>3. /\ ~(i > created')
        /\ InCharge(i)'
        /\ sess'[i].stopping
    BY <1>1, <2>1 DEF IInv, Shapes, InCharge, TearPcs, Retired, Session, Ids
  <2> QED
    BY <2>2, <2>3 DEF HoldInv
<1>8. CurrentInv'
  BY DEF CurrentInv
<1> QED
  BY <1>3, <1>4, <1>5, <1>6, <1>7, <1>8 DEF IInv

(* The steps of a teardown up to the directory: each works on the session   *)
(* in hand, and leaves the lock in the same hands.                         *)
LEMMA TearingKeepsIInv ==
    ASSUME IInv,
           \/ Reap \/ StopStream \/ GraceEnds \/ CancelFeed \/ CancelWatcher
    PROVE  IInv'
<1> USE DEF Reap, StopStream, GraceEnds, CancelFeed, CancelWatcher, At, GoTo,
            Rest, InHand, FeedDone
<1>0. PICK i : i = lockop.id
  OBVIOUS
<1>1. /\ lockop.pc \in TearPcs \ {"rmtree"} /\ lockop'.pc \in TearPcs
      /\ lockop' = [lockop EXCEPT !.pc = lockop'.pc]
      /\ UNCHANGED <<session, sweeper, phase, created, shown, cut>>
  BY DEF IInv, Shapes, Lock, TearPcs
<1>2. i \in Ids /\ i <= created /\ sess[i] \in Session /\ lockop'.id = i
      /\ lockop'.by = lockop.by /\ lockop \in Lock
  BY <1>0, <1>1 DEF IInv, Shapes, LockInv, Lock
<1>3. /\ sess' \in [Ids -> Session]
      /\ \A j \in Ids : j # i => sess'[j] = sess[j]
      /\ sess'[i].stopping = sess[i].stopping
  BY <1>0, <1>2 DEF IInv, Shapes, Session
<1>4. Shapes'
  BY <1>1, <1>2, <1>3 DEF IInv, Shapes, Lock, TearPcs
<1>5. LockInv'
  BY <1>1, <1>2 DEF IInv, LockInv, TearPcs, StartPcs, BuildPcs
<1>6. TeardownInv'
  <2>1. /\ lockop.pc # "reap" => sess[i].ffmpeg = "exited"
        /\ lockop.pc \notin {"reap", "unstream"} => sess[i].stream = "stopped"
        /\ lockop.pc \in {"unwatch", "rmtree"} => sess[i].feed = "done"
        /\ sess[i].stopping
    BY <1>0, <1>1 DEF IInv, TeardownInv
  <2>2. /\ lockop'.pc # "reap" => sess'[i].ffmpeg = "exited"
        /\ lockop'.pc \notin {"reap", "unstream"} => sess'[i].stream = "stopped"
        /\ lockop'.pc \in {"unwatch", "rmtree"} => sess'[i].feed = "done"
    <3>1. CASE Reap \/ StopStream
      BY <1>0, <1>2, <2>1, <3>1 DEF IInv, Shapes, Lock, Session
    <3>2. CASE GraceEnds \/ CancelFeed \/ CancelWatcher
      BY <1>0, <1>2, <2>1, <3>2 DEF IInv, Shapes, Lock, Session
    <3> QED
      BY <3>1, <3>2
  <2> QED
    BY <1>2, <1>3, <2>1, <2>2 DEF TeardownInv
<1>7. BuildInv'
  BY <1>1 DEF BuildInv, BuildPcs, TearPcs
<1>8. HoldInv'
  <2>1. ASSUME NEW j \in Ids
        PROVE  /\ j > created' => sess'[j] = Unborn
               /\ Holds(j)' => j \in cut' \/ InCharge(j)'
               /\ sess'[j].watcher # "none" => j = session' \/ sess'[j].stopping
    <3>1. CASE j = i
      <4>1. sess[i].stopping
        BY <1>0, <1>1 DEF IInv, TeardownInv
      <4>2. ~(i > created') /\ InCharge(i)'
        BY <1>1, <1>2 DEF IInv, Shapes, InCharge, Ids
      <4> QED
        BY <1>3, <3>1, <4>1, <4>2
    <3>2. CASE j # i
      BY <1>0, <1>1, <1>2, <1>3, <3>2 DEF IInv, HoldInv, InCharge, Holds, TearPcs, BuildPcs
    <3> QED
      BY <3>1, <3>2
  <2> QED
    BY <2>1 DEF HoldInv
<1>9. CurrentInv'
  BY <1>1 DEF IInv, LockInv, CurrentInv, TearPcs
<1> QED
  BY <1>4, <1>5, <1>6, <1>7, <1>8, <1>9 DEF IInv

(* With the directory the session in hand has let go of everything.         *)
LEMMA RemoveDirKeepsIInv ==
    ASSUME IInv, RemoveDir
    PROVE  IInv'
<1> USE DEF RemoveDir, At, GoTo
<1>0. PICK i : i = lockop.id
  OBVIOUS
<1>1. /\ i \in Ids /\ i <= created /\ sess[i] \in Session
      /\ sess[i].stopping /\ sess[i].ffmpeg = "exited"
      /\ sess[i].stream = "stopped" /\ sess[i].feed = "done"
      /\ session = NoSession /\ lockop \in Lock
  BY <1>0 DEF IInv, Shapes, LockInv, TeardownInv, TearPcs
<1>2. /\ sess' \in [Ids -> Session]
      /\ \A j \in Ids : j # i => sess'[j] = sess[j]
      /\ sess'[i].stopping /\ ~Holds(i)'
  BY <1>0, <1>1 DEF IInv, Shapes, Session, Holds
<1>3. lockop'.pc \in {"free", "lookup"}
  BY <1>1 DEF FreeLock, Lock
<1>4. Shapes'
  BY <1>1, <1>2 DEF IInv, Shapes, Lock, FreeLock, Names, StartPcs
<1>5. LockInv'
  BY <1>1, <1>3 DEF IInv, LockInv, FreeLock, TearPcs, StartPcs, BuildPcs, Lock
<1>6. TeardownInv' /\ BuildInv'
  BY <1>3 DEF TeardownInv, TearPcs, BuildInv, BuildPcs
<1>7. HoldInv'
  <2>1. ASSUME NEW j \in Ids
        PROVE  /\ j > created' => sess'[j] = Unborn
               /\ Holds(j)' => j \in cut' \/ InCharge(j)'
               /\ sess'[j].watcher # "none" => j = session' \/ sess'[j].stopping
    <3>1. CASE j = i
      BY <1>1, <1>2, <3>1 DEF IInv, Shapes, Ids
    <3>2. CASE j # i
      BY <1>0, <1>1, <1>2, <3>2 DEF IInv, HoldInv, InCharge, Holds, TearPcs, BuildPcs
    <3> QED
      BY <3>1, <3>2
  <2> QED
    BY <2>1 DEF HoldInv
<1>8. CurrentInv'
  BY <1>1 DEF CurrentInv
<1> QED
  BY <1>4, <1>5, <1>6, <1>7, <1>8 DEF IInv

(* A request to start takes the lock: over the current session, which it    *)
(* tears down first, or with nothing there.                                 *)
LEMMA StartKeepsIInv ==
    ASSUME IInv, NEW camera \in Cameras, Start(camera)
    PROVE  IInv'
<1> USE DEF Start, Rest
<1>1. CASE session # NoSession
  <2>1. /\ "start" \in Actors /\ camera \in Names
        /\ Teardown("start", camera) /\ At("free") /\ created < MaxSessions
        /\ sweeper' \in {"asleep", "due", "sweeping", "ended"}
        /\ UNCHANGED <<phase, created, shown, cut>>
    BY <1>1 DEF IInv, Shapes, Actors, Names
  <2> QED
    BY <1>1, <2>1, TeardownKeepsIInv
<1>2. CASE session = NoSession
  <2>1. /\ lockop' = [by |-> "start", pc |-> "lookup", id |-> NoSession,
                      camera |-> camera]
        /\ UNCHANGED <<session, sess, sweeper, phase, created, shown, cut>>
        /\ At("free") /\ created < MaxSessions
    BY <1>2 DEF FreeLock
  <2>2. Shapes'
    BY <2>1 DEF IInv, Shapes, Lock, Actors, Names, StartPcs
  <2>3. LockInv'
    BY <1>2, <2>1 DEF IInv, LockInv, At, TearPcs, StartPcs, BuildPcs
  <2>4. TeardownInv' /\ BuildInv' /\ CurrentInv'
    BY <1>2, <2>1 DEF TeardownInv, BuildInv, CurrentInv, TearPcs, BuildPcs
  <2>5. HoldInv'
    BY <2>1 DEF IInv, HoldInv, InCharge, Holds, At, TearPcs, BuildPcs
  <2> QED
    BY <2>2, <2>3, <2>4, <2>5 DEF IInv
<1> QED
  BY <1>1, <1>2

(* The camera is looked up while nothing is held.                           *)
LEMMA LookUpKeepsIInv ==
    ASSUME IInv, LookUp
    PROVE  IInv'
<1> USE DEF LookUp, At, GoTo, Rest
<1>1. lockop \in Lock /\ session = NoSession /\ lockop.by = "start"
  BY DEF IInv, Shapes, LockInv, StartPcs
<1>2. Shapes'
  BY <1>1 DEF IInv, Shapes, Lock, StartPcs
<1>3. LockInv'
  BY <1>1 DEF IInv, LockInv, Lock, TearPcs, StartPcs, BuildPcs
<1>4. TeardownInv' /\ BuildInv' /\ CurrentInv'
  BY <1>1 DEF TeardownInv, BuildInv, CurrentInv, TearPcs, BuildPcs, Lock
<1>5. HoldInv'
  BY <1>1 DEF IInv, HoldInv, InCharge, Holds, TearPcs, BuildPcs, Lock
<1> QED
  BY <1>2, <1>3, <1>4, <1>5 DEF IInv

(* A live view that is opened with Blink belongs to a new session.          *)
LEMMA OpenedKeepsIInv ==
    ASSUME MaxSessions \in Nat, IInv, Opened
    PROVE  IInv'
<1> USE DEF Opened, At, GoTo
<1>0. PICK i : i = created + 1
  OBVIOUS
<1>1. /\ lockop \in Lock /\ session = NoSession /\ lockop.by = "start"
      /\ created < MaxSessions /\ created' = i /\ i \in Ids /\ i \notin cut
      /\ lockop' = [lockop EXCEPT !.pc = "port"]
  BY <1>0 DEF IInv, Shapes, LockInv, StartPcs, BuildPcs, Ids
<1>2. sess[i] = Unborn /\ Unborn \in Session
  <2>1. i > created
    BY <1>0 DEF IInv, Shapes
  <2>2. sess[i] = Unborn
    BY <1>1, <2>1 DEF IInv, HoldInv
  <2>3. Unborn \in Session
    BY DEF Unborn, Session, Names
  <2> QED
    BY <2>2, <2>3
<1>3. /\ sess' \in [Ids -> Session] /\ sess'[i] = [Unborn EXCEPT !.stream = "open"]
      /\ \A j \in Ids : j # i => sess'[j] = sess[j]
  BY <1>1, <1>2 DEF IInv, Shapes, Session
<1>4. Shapes'
  BY <1>1, <1>3 DEF IInv, Shapes, Lock, StartPcs, BuildPcs, Ids
<1>5. LockInv'
  BY <1>0, <1>1 DEF IInv, Shapes, LockInv, Lock, TearPcs, StartPcs, BuildPcs, Ids, NoSession
<1>6. TeardownInv' /\ CurrentInv'
  BY <1>1 DEF TeardownInv, CurrentInv, TearPcs, Lock
<1>7. BuildInv'
  BY <1>1, <1>2, <1>3 DEF BuildInv, Unborn, Lock
<1>8. HoldInv'
  <2>1. ASSUME NEW j \in Ids
        PROVE  /\ j > created' => sess'[j] = Unborn
               /\ Holds(j)' => j \in cut' \/ InCharge(j)'
               /\ sess'[j].watcher # "none" => j = session' \/ sess'[j].stopping
    <3>1. CASE j = i
      BY <1>1, <1>3, <3>1 DEF InCharge, BuildPcs, Unborn, Ids, Lock
    <3>2. CASE j # i
      BY <1>0, <1>1, <1>3, <3>2 DEF IInv, Shapes, HoldInv, InCharge, Holds, TearPcs, BuildPcs, Ids
    <3> QED
      BY <3>1, <3>2
  <2> QED
    BY <2>1 DEF HoldInv
<1> QED
  BY <1>4, <1>5, <1>6, <1>7, <1>8 DEF IInv

(* What the steps of a start that work on the new session have in common:   *)
(* it is the session in charge, until the step has the lock given back.     *)
LEMMA BuildingIsInCharge ==
    ASSUME IInv, lockop.pc \in BuildPcs
    PROVE  /\ created \in Ids /\ sess[created] \in Session
           /\ session = NoSession /\ lockop \in Lock /\ lockop.by = "start"
           /\ \A j \in Ids : Holds(j) => j \in cut \/ j = created
           /\ \A j \in Ids : sess[j].watcher # "none" => sess[j].stopping
BY DEF IInv, Shapes, LockInv, HoldInv, InCharge, StartPcs, BuildPcs, TearPcs, Ids, At, NoSession

(* A step of a start that keeps the lock: the local port is open and the    *)
(* directory made, or ffmpeg did not start and the relay is stopped.        *)
LEMMA BuildingKeepsIInv ==
    ASSUME IInv, Listening \/ SpawnFails
    PROVE  IInv'
<1> USE DEF Listening, SpawnFails, StreamQuietlyStopped, At, GoTo, Rest
<1>0. PICK i : i = created
  OBVIOUS
<1>1. /\ i \in Ids /\ sess[i] \in Session /\ session = NoSession
      /\ lockop \in Lock /\ lockop.by = "start" /\ created > 0 /\ created \notin cut
      /\ \A j \in Ids : Holds(j) => j \in cut \/ j = i
      /\ \A j \in Ids : sess[j].watcher # "none" => sess[j].stopping
      /\ sess[i].ffmpeg = "none" /\ sess[i].feed = "none"
      /\ sess[i].watcher = "none" /\ ~sess[i].stopping /\ ~sess[i].error
      /\ ~sess[i].seen
  BY <1>0, BuildingIsInCharge DEF IInv, LockInv, BuildInv, BuildPcs
<1> DEFINE opened  == [sess[i] EXCEPT !.dir = TRUE]
           failed == [sess[i] EXCEPT !.stream = "stopped"]
<1>2. UNCHANGED <<session, sweeper, phase, created, shown, cut>>
  OBVIOUS
<1>3. \/ /\ lockop' = [lockop EXCEPT !.pc = "spawn"]
         /\ sess' = [sess EXCEPT ![i] = opened]
      \/ /\ lockop' = [lockop EXCEPT !.pc = "undir"]
         /\ sess' = [sess EXCEPT ![i] = failed]
  BY <1>0
<1>4. opened \in Session /\ failed \in Session
  BY <1>1 DEF Session
<1>5. /\ sess' \in [Ids -> Session]
      /\ \A j \in Ids : j # i => sess'[j] = sess[j]
      /\ sess'[i].ffmpeg = "none" /\ sess'[i].feed = "none"
      /\ sess'[i].watcher = "none" /\ ~sess'[i].stopping /\ ~sess'[i].error
      /\ ~sess'[i].seen
      /\ lockop'.pc = "spawn" => sess'[i].dir
      /\ lockop'.pc = "undir" => sess'[i].stream = "stopped"
  <2>1. CASE lockop'.pc = "spawn"
    <3>1. sess' = [sess EXCEPT ![i] = opened] /\ opened.dir
      BY <1>1, <1>3, <2>1 DEF Lock, Session
    <3> QED
      BY <1>1, <1>4, <2>1, <3>1 DEF IInv, Shapes, Session
  <2>2. CASE lockop'.pc = "undir"
    <3>1. sess' = [sess EXCEPT ![i] = failed]
      BY <1>1, <1>3, <2>2 DEF Lock
    <3> QED
      BY <1>1, <1>4, <2>2, <3>1 DEF IInv, Shapes, Session
  <2> QED
    BY <1>1, <1>3, <2>1, <2>2 DEF Lock
<1> HIDE DEF opened, failed
<1>6. Shapes'
  BY <1>1, <1>2, <1>3, <1>5 DEF IInv, Shapes, Lock, StartPcs, BuildPcs
<1>7. LockInv'
  BY <1>1, <1>2, <1>3 DEF IInv, LockInv, Lock, TearPcs, StartPcs, BuildPcs
<1>8. TeardownInv' /\ CurrentInv'
  BY <1>1, <1>2, <1>3 DEF TeardownInv, CurrentInv, TearPcs, Lock
<1>9. BuildInv'
  BY <1>0, <1>1, <1>2, <1>3, <1>5 DEF BuildInv, Lock
<1>10. HoldInv'
  <2>1. ASSUME NEW j \in Ids
        PROVE  /\ j > created' => sess'[j] = Unborn
               /\ Holds(j)' => j \in cut' \/ InCharge(j)'
               /\ sess'[j].watcher # "none" => j = session' \/ sess'[j].stopping
    <3>1. CASE j = i
      <4>1. ~(i > created')
        BY <1>0, <1>2 DEF IInv, Shapes
      <4>2. InCharge(i)'
        BY <1>0, <1>1, <1>2, <1>3 DEF InCharge, BuildPcs, Lock
      <4> QED
        BY <1>5, <3>1, <4>1, <4>2
    <3>2. CASE j # i
      BY <1>1, <1>2, <1>5, <3>2 DEF IInv, HoldInv, Holds
    <3> QED
      BY <3>1, <3>2
  <2> QED
    BY <2>1 DEF HoldInv
<1> QED
  BY <1>6, <1>7, <1>8, <1>9, <1>10 DEF IInv

(* A start that gives up gives back the lock and what it had opened: the    *)
(* relay when the local port fails, the directory when ffmpeg did.          *)
LEMMA GivingUpKeepsIInv ==
    ASSUME IInv, StartFails \/ UndoDir
    PROVE  IInv'
<1> USE DEF StartFails, UndoDir, At, Rest
<1>1. /\ lockop' = FreeLock /\ session = NoSession
      /\ UNCHANGED <<session, sweeper, phase, created, shown, cut>>
  BY DEF IInv, LockInv
<1>2. LockInv' /\ TeardownInv' /\ BuildInv' /\ CurrentInv'
  BY <1>1 DEF IInv, LockInv, TeardownInv, BuildInv, CurrentInv, FreeLock, TearPcs, StartPcs, BuildPcs
<1>3. FreeLock \in Lock
  BY DEF FreeLock, Lock, Names
<1>4. CASE lockop.pc \in {"lookup", "init"}
  <2>1. UNCHANGED sess
    BY <1>4
  <2>2. Shapes'
    BY <1>1, <1>3, <2>1 DEF IInv, Shapes
  <2>3. HoldInv'
    BY <1>1, <1>4, <2>1 DEF IInv, HoldInv, InCharge, Holds, TearPcs, BuildPcs
  <2> QED
    BY <1>2, <2>2, <2>3 DEF IInv
<1>5. CASE lockop.pc \in {"port", "undir"}
  <2>1. PICK i : i = created
    OBVIOUS
  <2>2. /\ i \in Ids /\ sess[i] \in Session
        /\ \A j \in Ids : Holds(j) => j \in cut \/ j = i
        /\ \A j \in Ids : sess[j].watcher # "none" => sess[j].stopping
        /\ sess[i].ffmpeg = "none" /\ sess[i].feed = "none"
        /\ sess[i].watcher = "none"
        /\ At("port") => ~sess[i].dir
        /\ At("undir") => sess[i].stream = "stopped"
    BY <1>5, <2>1, BuildingIsInCharge DEF IInv, BuildInv, BuildPcs
  <2>3. /\ sess' \in [Ids -> Session]
        /\ \A j \in Ids : j # i => sess'[j] = sess[j]
        /\ sess'[i].ffmpeg = "none" /\ sess'[i].feed = "none"
        /\ sess'[i].watcher = "none"
        /\ ~sess'[i].dir /\ sess'[i].stream = "stopped"
    <3>1. CASE At("port")
      <4>1. sess' = [sess EXCEPT ![i] = [sess[i] EXCEPT !.stream = "stopped"]]
        BY <2>1, <3>1
      <4>2. [sess[i] EXCEPT !.stream = "stopped"] \in Session
        BY <2>2 DEF Session
      <4> QED
        BY <2>2, <3>1, <4>1, <4>2 DEF IInv, Shapes, Session
    <3>2. CASE At("undir")
      <4>1. sess' = [sess EXCEPT ![i] = [sess[i] EXCEPT !.dir = FALSE]]
        BY <2>1, <3>2
      <4>2. [sess[i] EXCEPT !.dir = FALSE] \in Session
        BY <2>2 DEF Session
      <4> QED
        BY <2>2, <3>2, <4>1, <4>2 DEF IInv, Shapes, Session
    <3> QED
      BY <1>5, <3>1, <3>2
  <2>4. Shapes'
    BY <1>1, <1>3, <2>3 DEF IInv, Shapes
  <2>5. HoldInv'
    <3>1. ASSUME NEW j \in Ids
          PROVE  /\ j > created' => sess'[j] = Unborn
                 /\ Holds(j)' => j \in cut' \/ InCharge(j)'
                 /\ sess'[j].watcher # "none" => j = session' \/ sess'[j].stopping
      <4>1. CASE j = i
        <5>1. ~(i > created')
          BY <1>1, <2>1 DEF IInv, Shapes
        <5>2. ~Holds(i)'
          BY <2>3 DEF Holds
        <5> QED
          BY <2>3, <4>1, <5>1, <5>2
      <4>2. CASE j # i
        BY <1>1, <2>2, <2>3, <4>2 DEF IInv, HoldInv, Holds
      <4> QED
        BY <4>1, <4>2
    <3> QED
      BY <3>1 DEF HoldInv
  <2> QED
    BY <1>2, <2>4, <2>5 DEF IInv
<1> QED
  BY <1>4, <1>5

(* ffmpeg runs: the new session becomes the current one, and is whole.      *)
LEMMA SpawnedKeepsIInv ==
    ASSUME IInv, Spawned
    PROVE  IInv'
<1> USE DEF Spawned, At
<1>0. PICK i : i = created
  OBVIOUS
<1>1. /\ i \in Ids /\ sess[i] \in Session /\ session = NoSession
      /\ lockop \in Lock /\ lockop.by = "start" /\ created > 0 /\ created \notin cut
      /\ \A j \in Ids : Holds(j) => j \in cut \/ j = i
      /\ \A j \in Ids : sess[j].watcher # "none" => sess[j].stopping
      /\ sess[i].ffmpeg = "none" /\ sess[i].feed = "none"
      /\ sess[i].watcher = "none" /\ ~sess[i].stopping /\ ~sess[i].error
      /\ ~sess[i].seen
  BY <1>0, BuildingIsInCharge DEF IInv, LockInv, BuildInv, BuildPcs
<1>2. /\ sess' \in [Ids -> Session] /\ sess'[i] = Registered(sess[i], lockop.camera)
      /\ \A j \in Ids : j # i => sess'[j] = sess[j]
      /\ lockop' = FreeLock /\ session' = i /\ shown' = FALSE
      /\ UNCHANGED <<sweeper, phase, created, cut>>
  BY <1>0, <1>1 DEF IInv, Shapes, Session, Registered, Lock
<1>3. sess[i].dir
  BY <1>0 DEF IInv, BuildInv, BuildPcs
<1>4. Shapes'
  <2>1. FreeLock \in Lock
    BY DEF FreeLock, Lock, Names
  <2> QED
    BY <1>1, <1>2, <2>1 DEF IInv, Shapes
<1>5. LockInv'
  BY <1>0, <1>1, <1>2 DEF IInv, LockInv, Shapes, FreeLock, TearPcs, StartPcs, BuildPcs
<1>6. TeardownInv' /\ BuildInv'
  BY <1>2 DEF TeardownInv, BuildInv, FreeLock, TearPcs, BuildPcs
<1>7. HoldInv'
  <2>1. ASSUME NEW j \in Ids
        PROVE  /\ j > created' => sess'[j] = Unborn
               /\ Holds(j)' => j \in cut' \/ InCharge(j)'
               /\ sess'[j].watcher # "none" => j = session' \/ sess'[j].stopping
    <3>1. CASE j = i
      BY <1>0, <1>2, <3>1 DEF IInv, Shapes, InCharge
    <3>2. CASE j # i
      BY <1>1, <1>2, <3>2 DEF IInv, HoldInv, Holds
    <3> QED
      BY <3>1, <3>2
  <2> QED
    BY <2>1 DEF HoldInv
<1>8. CurrentInv'
  BY <1>1, <1>2, <1>3 DEF CurrentInv, Registered, Session
<1> QED
  BY <1>4, <1>5, <1>6, <1>7, <1>8 DEF IInv

(* What the sweep loop notes of the current session takes nothing from it   *)
(* and gives it nothing.                                                    *)
SameHeld(s, t) ==
    /\ t \in Session
    /\ t.stream = s.stream /\ t.ffmpeg = s.ffmpeg /\ t.feed = s.feed
    /\ t.watcher = s.watcher /\ t.dir = s.dir /\ t.stopping = s.stopping

LEMMA NotesKeepIInv ==
    ASSUME IInv, NEW i \in Ids, i = session, NEW t, SameHeld(sess[i], t),
           sess' = [sess EXCEPT ![i] = t],
           UNCHANGED <<session, lockop, phase, created, cut>>,
           sweeper' \in {"asleep", "due", "sweeping", "ended"}, shown' \in BOOLEAN,
           t.seen => t.error, t.seen /\ sweeper' = "due" => shown'
    PROVE  IInv'
<1>1. lockop.pc = "free" /\ i <= created
  BY DEF IInv, LockInv, At, NoSession, Ids
<1>2. Shapes'
  BY DEF IInv, Shapes, SameHeld
<1>3. LockInv'
  BY DEF IInv, LockInv, At
<1>4. TeardownInv' /\ BuildInv'
  BY <1>1 DEF TeardownInv, BuildInv, TearPcs, BuildPcs
<1>5. HoldInv'
  <2>1. ASSUME NEW j \in Ids
        PROVE  /\ j > created' => sess'[j] = Unborn
               /\ Holds(j)' => j \in cut' \/ InCharge(j)'
               /\ sess'[j].watcher # "none" => j = session' \/ sess'[j].stopping
    <3>1. CASE j = i
      BY <1>1, <3>1 DEF IInv, Shapes, InCharge, Ids
    <3>2. CASE j # i
      BY <3>2 DEF IInv, Shapes, HoldInv, InCharge, Holds
    <3> QED
      BY <3>1, <3>2
  <2> QED
    BY <2>1 DEF HoldInv
<1>6. CurrentInv'
  BY DEF IInv, Shapes, CurrentInv, SameHeld
<1> QED
  BY <1>2, <1>3, <1>4, <1>5, <1>6 DEF IInv

(* The same when there is no session, or nothing is noted of it.            *)
LEMMA ClockKeepsIInv ==
    ASSUME IInv, UNCHANGED <<session, sess, lockop, created, cut>>,
           sweeper' \in {"asleep", "due", "sweeping", "ended"},
           phase' \in {"running", "cancelling", "webdown", "closed"},
           shown' = shown, session # NoSession => sweeper' = sweeper \/ sweeper' # "due"
    PROVE  IInv'
<1>1. Shapes'
  BY DEF IInv, Shapes
<1>2. LockInv' /\ TeardownInv' /\ BuildInv'
  BY DEF IInv, LockInv, At, TeardownInv, BuildInv
<1>3. HoldInv' /\ CurrentInv'
  BY DEF IInv, HoldInv, InCharge, Holds, CurrentInv
<1> QED
  BY <1>1, <1>2, <1>3 DEF IInv

LEMMA SweepKeepsIInv ==
    ASSUME IInv, SweepStep
    PROVE  IInv'
<1>1. CASE SweepTearsDown
  <2>1. /\ "sweep" \in Actors /\ "none" \in Names /\ "sweep" # "start"
        /\ Teardown("sweep", "none") /\ At("free") /\ session # NoSession
        /\ sweeper' \in {"asleep", "due", "sweeping", "ended"}
        /\ UNCHANGED <<phase, created, shown, cut>>
    BY <1>1 DEF SweepTearsDown, Actors, Names
  <2> QED
    BY <2>1, TeardownKeepsIInv
<1>2. CASE session = NoSession /\ (SweepNotes \/ Tick)
  BY <1>2, ClockKeepsIInv DEF SweepNotes, Tick, IInv, Shapes
<1>3. CASE session # NoSession /\ (SweepNotes \/ Tick)
  <2>1. PICK i \in Ids : i = session
    BY <1>3 DEF IInv, Shapes
  <2> DEFINE s == sess[i]
  <2>2. s \in Session /\ (s.seen => s.error) /\ sess \in [Ids -> Session]
    BY <1>3, <2>1 DEF IInv, Shapes, CurrentInv
  <2>3. CASE SweepNotes
    <3>1. /\ UNCHANGED <<session, lockop, phase, created, shown, cut>>
          /\ sweeper' = "asleep" /\ shown' \in BOOLEAN
      BY <2>3 DEF SweepNotes, IInv, Shapes
    <3>2. CASE UNCHANGED sess
      BY <3>1, <3>2, ClockKeepsIInv DEF IInv, Shapes
    <3>3. CASE s.error /\ sess' = [sess EXCEPT ![i].seen = TRUE]
      <4> DEFINE t == [s EXCEPT !.seen = TRUE]
      <4>1. SameHeld(s, t) /\ sess' = [sess EXCEPT ![i] = t] /\ t.error
        BY <2>2, <3>3 DEF SameHeld, Session
      <4> HIDE DEF t
      <4> QED
        BY <2>1, <3>1, <4>1, NotesKeepIInv
    <3>4. CASE sess' = [sess EXCEPT ![i].error = TRUE]
      <4> DEFINE t == [s EXCEPT !.error = TRUE]
      <4>1. SameHeld(s, t) /\ sess' = [sess EXCEPT ![i] = t] /\ t.error
        BY <2>2, <3>4 DEF SameHeld, Session
      <4> HIDE DEF t
      <4> QED
        BY <2>1, <3>1, <4>1, NotesKeepIInv
    <3> QED
      BY <1>3, <2>1, <2>3, <3>2, <3>3, <3>4 DEF SweepNotes
  <2>4. CASE Tick
    <3> DEFINE t == [s EXCEPT !.age  = Capped(s.age, MaxDuration),
                              !.idle = Capped(s.idle, IdleTimeout)]
    <3>1. Capped(s.age, MaxDuration) \in Nat /\ Capped(s.idle, IdleTimeout) \in Nat
      BY <2>2 DEF Capped, Session
    <3>2. SameHeld(s, t) /\ t.error = s.error /\ t.seen = s.seen
      BY <2>2, <3>1 DEF SameHeld, Session
    <3>3. /\ sess' = [sess EXCEPT ![i] = t] /\ shown' = s.error /\ sweeper' = "due"
          /\ UNCHANGED <<session, lockop, phase, created, cut>>
      BY <1>3, <2>1, <2>4 DEF Tick
    <3>4. s.error \in BOOLEAN
      BY <2>2 DEF Session
    <3> HIDE DEF t
    <3> QED
      BY <2>1, <2>2, <3>2, <3>3, <3>4, NotesKeepIInv
  <2> QED
    BY <1>3, <2>3, <2>4
<1> QED
  BY <1>1, <1>2, <1>3 DEF SweepStep

(* The shutdown: a sweep that is cancelled half-way leaves its session cut. *)
LEMMA ShutdownKeepsIInv ==
    ASSUME IInv, CancelTasks \/ StopServer \/ Close
    PROVE  IInv'
<1>1. CASE StopServer
  BY <1>1, ClockKeepsIInv DEF StopServer, IInv, Shapes
<1>2. CASE Close
  <2>1. CASE session = NoSession
    BY <1>2, <2>1, ClockKeepsIInv DEF Close, IInv, Shapes
  <2>2. CASE session # NoSession
    <3>1. /\ "close" \in Actors /\ "none" \in Names /\ "close" # "start"
          /\ Teardown("close", "none") /\ At("free")
          /\ sweeper' \in {"asleep", "due", "sweeping", "ended"}
          /\ UNCHANGED <<phase, created, shown, cut>>
      BY <1>2, <2>2 DEF Close, Actors, Names, IInv, Shapes
    <3> QED
      BY <2>2, <3>1, TeardownKeepsIInv
  <2> QED
    BY <2>1, <2>2
<1>3. CASE CancelTasks
  <2>1. UNCHANGED <<session, sess, created, shown>> /\ phase' = "cancelling"
    BY <1>3 DEF CancelTasks
  <2>2. CASE UNCHANGED <<lockop, cut>> /\ (UNCHANGED sweeper \/ sweeper' = "ended")
    BY <2>1, <2>2, ClockKeepsIInv DEF IInv, Shapes
  <2>3. CASE /\ lockop.by = "sweep" /\ lockop' = FreeLock /\ sweeper' = "ended"
             /\ cut' = cut \cup {lockop.id}
    <3>1. PICK i : i = lockop.id
      OBVIOUS
    <3>2. /\ i \in Ids /\ i <= created /\ lockop.pc \in TearPcs
          /\ session = NoSession
      BY <2>3, <3>1 DEF IInv, Shapes, LockInv, Lock, At, TearPcs, StartPcs
    <3>3. FreeLock \in Lock
      BY DEF FreeLock, Lock, Names
    <3>4. Shapes'
      BY <2>1, <2>3, <3>1, <3>2, <3>3 DEF IInv, Shapes
    <3>5. LockInv'
      BY <2>1, <2>3, <3>1, <3>2 DEF IInv, Shapes, LockInv, FreeLock, At, TearPcs, StartPcs, BuildPcs, Ids, NoSession
    <3>6. TeardownInv' /\ BuildInv' /\ CurrentInv'
      BY <2>1, <2>3, <3>2 DEF TeardownInv, BuildInv, CurrentInv, FreeLock, TearPcs, BuildPcs
    <3>7. HoldInv'
      BY <2>1, <2>3, <3>1, <3>2 DEF IInv, HoldInv, InCharge, Holds, FreeLock, TearPcs, BuildPcs
    <3> QED
      BY <3>4, <3>5, <3>6, <3>7 DEF IInv
  <2> QED
    BY <1>3, <2>2, <2>3 DEF CancelTasks
<1> QED
  BY <1>1, <1>2, <1>3

LEMMA InitIInv ==
    ASSUME MaxSessions \in Nat, Init
    PROVE  IInv
<1> USE DEF Init
<1>1. Unborn \in Session /\ FreeLock \in Lock
  BY DEF Unborn, Session, Names, FreeLock, Lock
<1>2. Shapes
  <2>1. created \in 0..MaxSessions
    BY DEF Ids
  <2>2. sess \in [Ids -> Session] /\ lockop \in Lock
    BY <1>1
  <2> QED
    BY <2>1, <2>2 DEF Shapes
<1>3. LockInv /\ TeardownInv /\ BuildInv /\ CurrentInv
  BY DEF LockInv, TeardownInv, BuildInv, CurrentInv, FreeLock, At, NoSession, TearPcs, StartPcs, BuildPcs
<1>4. HoldInv
  BY DEF HoldInv, Holds, Unborn
<1> QED
  BY <1>2, <1>3, <1>4 DEF IInv

LEMMA NextKeepsIInv ==
    ASSUME MaxSessions \in Nat, IInv, [Next]_lvars
    PROVE  IInv'
<1>1. CASE LockStep
  BY <1>1, TearingKeepsIInv, RemoveDirKeepsIInv, GivingUpKeepsIInv, LookUpKeepsIInv,
     OpenedKeepsIInv, BuildingKeepsIInv, SpawnedKeepsIInv DEF LockStep
<1>2. ASSUME NEW camera \in Cameras, Start(camera) \/ Rename(camera)
      PROVE  IInv'
  BY <1>2, StartKeepsIInv, PageKeepsIInv
<1>3. CASE Stop
  <2>1. /\ "stop" \in Actors /\ "none" \in Names /\ "stop" # "start"
        /\ Teardown("stop", "none") /\ At("free") /\ session # NoSession
        /\ sweeper' \in {"asleep", "due", "sweeping", "ended"}
        /\ UNCHANGED <<phase, created, shown, cut>>
    BY <1>3 DEF Stop, Rest, Actors, Names, IInv, Shapes
  <2> QED
    BY <2>1, TeardownKeepsIInv
<1>4. CASE Heartbeat
  BY <1>4, PageKeepsIInv
<1>5. ASSUME NEW i \in Ids,
             SessionStep(i) \/ Playable(i) \/ FfmpegExits(i) \/ FeedEnds(i)
      PROVE  IInv'
  BY <1>5, SessionKeepsIInv
<1>6. CASE SweepStep
  BY <1>6, SweepKeepsIInv
<1>7. CASE CancelTasks \/ StopServer \/ Close
  BY <1>7, ShutdownKeepsIInv
<1>8. CASE UNCHANGED lvars
  BY <1>8, ClockKeepsIInv DEF lvars, IInv, Shapes
<1> QED
  BY <1>1, <1>2, <1>3, <1>4, <1>5, <1>6, <1>7, <1>8 DEF Next, Closed

-----------------------------------------------------------------------------
(* Live view, with any bound on the sessions.                              *)

(* The invariant holds of every state of live view.                         *)
THEOREM Invariance == ASSUME MaxSessions \in Nat PROVE Spec => []IInv
<1>1. Init => IInv
  BY InitIInv
<1>2. IInv /\ [Next]_lvars => IInv'
  BY NextKeepsIInv
<1> QED
  BY <1>1, <1>2, PTL DEF Spec

(* The current session always has its process, directory and tasks, and     *)
(* nobody has begun to take it down (_session, _teardown_locked).           *)
THEOREM TypeCorrect == ASSUME MaxSessions \in Nat PROVE Spec => []LiveViewTypeOK
<1>1. IInv => LiveViewTypeOK
  BY DEF IInv, Shapes, Lock, CurrentInv, LiveViewTypeOK
<1> QED
  BY <1>1, Invariance, PTL

(* When the lock is free no session but the current one holds a relay, an   *)
(* ffmpeg process, a task or a directory, except one whose teardown the     *)
(* shutdown cancelled: whatever way a start or a session ended.             *)
THEOREM NothingLeftBehind == ASSUME MaxSessions \in Nat PROVE Spec => []NothingStranded
<1>1. IInv => NothingStranded
  BY DEF IInv, HoldInv, InCharge, NothingStranded, At, TearPcs, BuildPcs
<1> QED
  BY <1>1, Invariance, PTL

(* Blink relays one camera at a time: a start waits for the relay of the    *)
(* session before it to be stopped.                                         *)
THEOREM OneCamera == ASSUME MaxSessions \in Nat PROVE Spec => []OneCameraAtATime
<1>1. ASSUME IInv PROVE OneCameraAtATime
  <2> DEFINE S == {i \in Ids \ cut : sess[i].stream = "open"}
  <2>1. \A i \in S : InCharge(i)
    BY <1>1 DEF IInv, HoldInv, Holds
  <2>2. \A i, j \in S : i = j
    BY <1>1, <2>1 DEF IInv, LockInv, InCharge, At, TearPcs, BuildPcs, NoSession, Ids
  <2>3. Cardinality(S) <= 1 => OneCameraAtATime
    BY DEF OneCameraAtATime
  <2> HIDE DEF S
  <2>4. CASE S = {}
    BY <2>4, <2>3, FS_EmptySet
  <2>5. CASE S # {}
    <3>1. PICK i \in S : TRUE
      BY <2>5
    <3>2. S = {i}
      BY <2>2, <3>1
    <3>3. Cardinality({i}) = 1
      BY FS_Singleton
    <3> QED
      BY <2>3, <3>2, <3>3
  <2> QED
    BY <2>4, <2>5
<1> QED
  BY <1>1, Invariance, PTL

(* Only the callback of a relay, the watcher of ffmpeg and the sweep loop   *)
(* write an error, and they find the session they write to still current.   *)
LEMMA ErrorsAreWrittenBy ==
    ASSUME MaxSessions \in Nat, IInv, [Next]_lvars,
           NEW i \in Ids, sess'[i].error, ~sess[i].error
    PROVE  \/ FeedCallback(i) /\ session = i
           \/ WatcherWakes(i) /\ ~sess[i].stopping
           \/ SweepNotes /\ session = i
<1>1. /\ sess \in [Ids -> Session] /\ session \in Ids \cup {NoSession}
      /\ lockop.id \in Ids \cup {NoSession} /\ created \in 0..MaxSessions
  BY DEF IInv, Shapes, Lock
<1>2. sess[i] \in Session
  BY <1>1
<1>3. CASE LockStep
  <2>1. CASE Reap \/ StopStream \/ GraceEnds \/ CancelFeed \/ CancelWatcher \/ RemoveDir
    BY <1>1, <1>2, <2>1 DEF Reap, StopStream, GraceEnds, CancelFeed, CancelWatcher, RemoveDir, Session
  <2>2. CASE StartFails \/ LookUp \/ Opened \/ Listening \/ SpawnFails \/ UndoDir
    BY <1>1, <1>2, <2>2 DEF StartFails, LookUp, Opened, Listening, SpawnFails, UndoDir, StreamQuietlyStopped, Session
  <2>3. CASE Spawned
    BY <1>1, <1>2, <2>3 DEF Spawned, Registered, Session
  <2> QED
    BY <1>3, <2>1, <2>2, <2>3 DEF LockStep
<1>4. ASSUME NEW who, NEW camera, Teardown(who, camera)
      PROVE  FALSE
  BY <1>1, <1>2, <1>4 DEF Teardown, Retired, Session
<1>5. ASSUME NEW camera \in Cameras, Start(camera) \/ Rename(camera)
      PROVE  FALSE
  <2>1. CASE Start(camera)
    BY <1>4, <2>1 DEF Start
  <2>2. CASE Rename(camera)
    BY <1>1, <1>2, <2>2 DEF Rename, Session
  <2> QED
    BY <1>5, <2>1, <2>2
<1>6. CASE Stop \/ Heartbeat
  <2>1. CASE Stop
    BY <1>4, <2>1 DEF Stop
  <2>2. CASE Heartbeat
    BY <1>1, <1>2, <2>2 DEF Heartbeat, Session
  <2> QED
    BY <1>6, <2>1, <2>2
<1>7. ASSUME NEW j \in Ids,
             SessionStep(j) \/ Playable(j) \/ FfmpegExits(j) \/ FeedEnds(j)
      PROVE  \/ FeedCallback(i) /\ session = i
             \/ WatcherWakes(i) /\ ~sess[i].stopping
  <2>1. CASE FeedCallback(j)
    BY <1>1, <1>2, <2>1 DEF FeedCallback, Session
  <2>2. CASE WatcherWakes(j)
    BY <1>1, <1>2, <2>2 DEF WatcherWakes, Session
  <2>3. CASE WatcherFinalizes(j)
    BY <1>1, <1>2, <2>3 DEF WatcherFinalizes, Session
  <2>4. CASE WatcherEnds(j) \/ Playable(j) \/ FfmpegExits(j) \/ FeedEnds(j)
    BY <1>1, <1>2, <2>4 DEF WatcherEnds, Playable, FfmpegExits, FeedEnds, Session
  <2> QED
    BY <1>7, <2>1, <2>2, <2>3, <2>4 DEF SessionStep
<1>8. CASE SweepStep
  <2>1. CASE SweepNotes
    BY <1>1, <1>2, <2>1 DEF SweepNotes, Session
  <2>2. CASE SweepTearsDown
    BY <1>4, <2>2 DEF SweepTearsDown
  <2>3. CASE Tick
    BY <1>1, <1>2, <2>3 DEF Tick, Session
  <2> QED
    BY <1>8, <2>1, <2>2, <2>3 DEF SweepStep
<1>9. CASE CancelTasks \/ StopServer \/ Close
  BY <1>4, <1>9 DEF CancelTasks, StopServer, Close
<1>10. CASE UNCHANGED lvars
  BY <1>10 DEF lvars
<1> QED
  BY <1>3, <1>5, <1>6, <1>7, <1>8, <1>9, <1>10 DEF Next, Closed

(* A stop, a switch of cameras or a timeout is never reported as a crash:   *)
(* no error appears in a session that is being, or has been, taken down     *)
(* (_watch_ffmpeg, _handle_feed_done).                                      *)
THEOREM NoCrashInvented == ASSUME MaxSessions \in Nat PROVE Spec => [][NoFalseCrash]_lvars
<1>1. IInv /\ [Next]_lvars => NoFalseCrash
  <2> SUFFICES ASSUME IInv, [Next]_lvars, NEW i \in Ids, sess'[i].error, ~sess[i].error
               PROVE  session = i
    BY DEF NoFalseCrash
  <2>1. CASE WatcherWakes(i) /\ ~sess[i].stopping
    BY <2>1 DEF WatcherWakes, IInv, HoldInv
  <2> QED
    BY <2>1, ErrorsAreWrittenBy
<1> QED
  BY <1>1, Invariance, PTL DEF Spec

(* The sweep loop tears a failed session down only once its error has been  *)
(* up for a full sweep interval (error_seen_by_sweep).                      *)
THEOREM ErrorUpFirst == ASSUME MaxSessions \in Nat PROVE Spec => [][ErrorIsShown]_lvars
<1>1. IInv => ErrorIsShown
  BY DEF IInv, CurrentInv, ErrorIsShown, SweepTearsDown, Expired, ErrorWasSeen
<1> QED
  BY <1>1, Invariance, PTL DEF Spec

=============================================================================
