-------------------------- MODULE Downloader_proofs --------------------------
(***************************************************************************)
(* Proofs about Downloader, for any clips and any values of the constants  *)
(* that DownloaderAssumption allows: the tracker stays well-formed, no     *)
(* clip is lost, the tracker file lags, a crash forgets no failure, and a  *)
(* clip given up on stays so.                                              *)
(***************************************************************************)
EXTENDS Downloader, TLAPS, WellFoundedInduction, SequenceTheorems

-----------------------------------------------------------------------------
(* The inductive invariant.                                                *)

(* Clips are recorded in the past and listed by Margin at the latest.      *)
ClockInv ==
    /\ now >= Lookback
    /\ \A c \in Clips : Recorded(c) => created[c] >= Lookback /\ created[c] <= now
    /\ \A c \in Clips : /\ Recorded(c) /\ c \notin listed \cup deleted
                        => now - created[c] <= PublishDelay
    /\ \A c \in listed : Recorded(c)

(* A tracker says downloaded or given up only of what was.                 *)
Truthful(t) ==
    \A c \in Clips : /\ IsDownloaded(t, c) => c \in stored
                     /\ HasGivenUp(t, c) => gaveUp[c] # None

CursorInv ==
    /\ tracker.cursor = None <=> baseline = None
    /\ disk.cursor <= tracker.cursor /\ tracker.cursor <= now
    /\ tracker.cursor # None => baseline <= tracker.cursor
    /\ disk.cursor # None => baseline <= disk.cursor

(* What a poll knows, from when it asks for the list until it concludes.   *)
(* PollKnows is about any poll record p: ReceiveList may conclude at once. *)
PollKnows(p) ==
    /\ p.listedAt >= Lookback /\ p.listedAt <= now
    /\ tracker.cursor # None => p.since = tracker.cursor
    /\ p.since <= now /\ p.owed \subseteq listed

PollCovers(p) ==
    p.complete =>
        \A c \in Clips : /\ Unresolved(c) /\ created[c] >= p.since
                         /\ created[c] < p.listedAt - Margin
                         => c \in p.owed

PollInv == /\ poll.phase \in {"listing", "downloading"} => PollKnows(poll)
           /\ poll.phase = "downloading" => PollCovers(poll)

StoredInv == files \subseteq stored

IInv == /\ TypeOK /\ ClockInv /\ CursorInv /\ PollInv /\ StoredInv
        /\ Truthful(tracker) /\ Truthful(disk)
        /\ NoClipLost

-----------------------------------------------------------------------------
(* MinOf is the least element of a non-empty set of naturals.              *)
LEMMA MinOfNat ==
  ASSUME NEW S, S \subseteq Nat, S # {}
  PROVE  MinOf(S) \in S /\ \A x \in S : MinOf(S) <= x
<1> DEFINE R == {ss \in Nat \X Nat : ss[1] < ss[2]}
<1>1. IsWellFoundedOn(R, Nat)
  BY NatLessThanWellFounded DEF OpToRel
<1> HIDE DEF R
<1>2. PICK m \in S : \A y \in S : <<y, m>> \notin R
  BY <1>1, WFMin
<1>3. \A y \in S : m <= y
  <2>1. TAKE y \in S
  <2>2. ~(y < m)
    BY <1>2 DEF R
  <2> QED BY <2>2
<1> QED BY <1>3 DEF MinOf

(* save() keeps a tracker well-formed, leaves its cursor, adds nothing.    *)
LEMMA PrunedProperties ==
  ASSUME NEW t \in Trackers, now \in Nat
  PROVE  /\ Pruned(t) \in Trackers
         /\ Pruned(t).cursor = t.cursor
         /\ \A c \in Clips : /\ IsDownloaded(Pruned(t), c) => IsDownloaded(t, c)
                             /\ HasGivenUp(Pruned(t), c) => HasGivenUp(t, c)
<1>1. t.downloaded \in Seq(Clips) /\ t.failures \in [Clips -> Failures]
  BY DEF Trackers
<1>2. /\ PruneIds(t.downloaded) \in Seq(Clips)
      /\ ToSet(PruneIds(t.downloaded)) \subseteq ToSet(t.downloaded)
  <2>1. CASE Len(t.downloaded) > MaxTracked
    <3> DEFINE n == Len(t.downloaded)
               s == SubSeq(t.downloaded, n - MaxTracked + 1, n)
    <3>1. /\ n \in Nat /\ MaxTracked \in Nat \ {0}
          /\ n - MaxTracked + 1 \in 1..n
      BY <1>1, <2>1, LenProperties, DownloaderAssumption DEF DownloaderAssumption
    <3>2. /\ s \in Seq(Clips) /\ Len(s) = MaxTracked
          /\ \A i \in 1..MaxTracked :
                 s[i] = t.downloaded[n - MaxTracked + 1 + i - 1]
      BY <1>1, <3>1, SubSeqProperties
    <3>3. \A i \in DOMAIN s : i + (n - MaxTracked) \in DOMAIN t.downloaded
                              /\ s[i] = t.downloaded[i + (n - MaxTracked)]
      BY <1>1, <2>1, <3>1, <3>2, LenProperties
    <3> QED BY <2>1, <3>2, <3>3 DEF PruneIds, ToSet
  <2>2. CASE ~(Len(t.downloaded) > MaxTracked)
    BY <1>1, <2>2 DEF PruneIds
  <2> QED BY <2>1, <2>2
<1>3. /\ PruneFailures(t.failures) \in [Clips -> Failures]
      /\ \A c \in Clips : PruneFailures(t.failures)[c].givenUp
                              => t.failures[c].givenUp
  BY <1>1 DEF PruneFailures, Failures, NoFailure
<1> QED
  BY <1>1, <1>2, <1>3 DEF Pruned, Trackers, IsDownloaded, HasGivenUp

(* mark_downloaded adds one id, and clears that clip's failures.           *)
LEMMA MarkProperties ==
  ASSUME NEW t \in Trackers, NEW c \in Clips
  PROVE  /\ MarkDownloaded(t, c) \in Trackers
         /\ MarkDownloaded(t, c).cursor = t.cursor
         /\ \A d \in Clips :
                /\ IsDownloaded(MarkDownloaded(t, c), d)
                       => d = c \/ IsDownloaded(t, d)
                /\ HasGivenUp(MarkDownloaded(t, c), d) => HasGivenUp(t, d)
<1>1. t.downloaded \in Seq(Clips) /\ t.failures \in [Clips -> Failures]
  BY DEF Trackers
<1> DEFINE ids == IF IsDownloaded(t, c) THEN t.downloaded
                                        ELSE Append(t.downloaded, c)
<1>2. ids \in Seq(Clips) /\ ToSet(ids) \subseteq ToSet(t.downloaded) \cup {c}
  BY <1>1, AppendProperties, LenProperties DEF ToSet
<1>3. NoFailure \in Failures /\ ~NoFailure.givenUp
  BY DEF NoFailure, Failures
<1>4. MarkDownloaded(t, c) = [t EXCEPT !.downloaded = ids,
                                       !.failures = [@ EXCEPT ![c] = NoFailure]]
  BY DEF MarkDownloaded, Trackers
<1> HIDE DEF ids
<1> QED
  BY <1>1, <1>2, <1>3, <1>4 DEF Trackers, IsDownloaded, HasGivenUp

(* Counting failures touches neither the ids nor the cursor.               *)
LEMMA RecordProperties ==
  ASSUME NEW t \in Trackers, NEW S \in SUBSET Clips, now \in Nat
  PROVE  LET u == RecordFailedAttempts(t, S)
         IN  /\ u \in Trackers
             /\ u.cursor = t.cursor /\ u.downloaded = t.downloaded
             /\ \A c \in Clips : HasGivenUp(t, c) => HasGivenUp(u, c)
<1>1. \A f \in Failures : Failed(f) \in Failures /\ (f.givenUp => Failed(f).givenUp)
  BY DownloaderAssumption DEF Failed, Failures, DownloaderAssumption
<1> QED
  BY <1>1 DEF RecordFailedAttempts, Trackers, HasGivenUp

-----------------------------------------------------------------------------
(* The cursor a poll moves to: not before its since, and past no clip that *)
(* the poll knows of or could have missed.                                 *)
LEMMA NextCursorProperties ==
  ASSUME NEW p \in Polls, NEW held \in SUBSET Clips,
         created \in [Clips -> Times], now \in Nat,
         p.listedAt >= Lookback,
         \A c \in held : created[c] >= Lookback
  PROVE  LET cursor == NextListCursor(p, held)
         IN  /\ cursor \in Nat /\ cursor >= p.since
             /\ \/ cursor = p.since
                \/ /\ p.complete /\ cursor <= p.listedAt - Margin
                   /\ \A c \in held : cursor <= created[c]
<1> DEFINE S == {p.listedAt - Margin} \cup {created[c] - Margin : c \in held}
<1>1. /\ Margin \in Nat /\ Lookback \in Nat /\ Margin <= Lookback
      /\ p.since \in Nat /\ p.listedAt \in Nat
  BY DownloaderAssumption DEF DownloaderAssumption, Polls
<1>2. \A c \in held : created[c] \in Nat
  BY <1>1 DEF Times, None
<1>3. S \subseteq Nat /\ S # {}
  BY <1>1, <1>2
<1>4. MinOf(S) \in Nat /\ \A x \in S : MinOf(S) <= x
  BY <1>3, MinOfNat
<1>5. MinOf(S) <= p.listedAt - Margin /\ \A c \in held : MinOf(S) <= created[c] - Margin
  BY <1>4
<1> HIDE DEF S
<1>6. NextListCursor(p, held) = IF ~p.complete \/ held \cap Undated # {} THEN p.since
        ELSE IF MinOf(S) >= p.since THEN MinOf(S) ELSE p.since
  BY DEF NextListCursor, S
<1>7. \A c \in held : MinOf(S) <= created[c]
  BY <1>1, <1>2, <1>4, <1>5
<1> QED BY <1>1, <1>4, <1>5, <1>6, <1>7

(* The end of a poll keeps the invariant, whatever was tried.              *)
LEMMA ConcludeStep ==
  ASSUME IInv, NEW p \in Polls, NEW tried \in BOOLEAN,
         PollKnows(p), PollCovers(p),
         Conclude(p, tried), UNCHANGED <<now, blink, files>>, faults' \in Nat
  PROVE  IInv'
<1> DEFINE counted == RecordFailedAttempts(tracker, p.failed)
           held    == {c \in p.owed : IsOwed(counted, c)}
           cursor  == NextListCursor(p, held)
           moved   == [counted EXCEPT !.cursor = cursor]
<1>0. /\ tracker \in Trackers /\ disk \in Trackers /\ now \in Nat
      /\ created \in [Clips -> Times] /\ p.failed \in SUBSET Clips
      /\ held \in SUBSET Clips /\ p.since \in Nat /\ p.listedAt \in Nat
      /\ gaveUp \in [Clips -> Times] /\ baseline \in Times
  BY DEF IInv, TypeOK, Polls
<1>1. /\ counted \in Trackers
      /\ counted.cursor = tracker.cursor /\ counted.downloaded = tracker.downloaded
      /\ \A c \in Clips : HasGivenUp(tracker, c) => HasGivenUp(counted, c)
  BY <1>0, RecordProperties
<1>2. /\ cursor \in Nat /\ cursor >= p.since
      /\ \/ cursor = p.since
         \/ /\ p.complete /\ cursor <= p.listedAt - Margin
            /\ \A c \in held : cursor <= created[c]
  <2>1. \A c \in held : created[c] >= Lookback
    BY <1>0 DEF IInv, PollKnows, ClockInv, TypeOK
  <2>2. p.listedAt >= Lookback
    BY DEF PollKnows
  <2> HIDE DEF held
  <2> QED BY <1>0, <2>1, <2>2, NextCursorProperties
<1>3. /\ tracker' = IF tried THEN Pruned(moved) ELSE moved
      /\ disk' = IF tried THEN Pruned(moved) ELSE disk
      /\ poll' \in {IdlePoll, [IdlePoll EXCEPT !.phase = "local"]}
      /\ gaveUp' = [c \in Clips |->
             IF counted.failures[c].givenUp /\ ~tracker.failures[c].givenUp
             THEN counted.failures[c].first ELSE gaveUp[c]]
      /\ baseline' = IF tracker.cursor = None THEN p.since ELSE baseline
      /\ stored' = stored
      /\ now' = now /\ created' = created /\ listed' = listed
      /\ deleted' = deleted /\ files' = files
  BY DEF Conclude, blink
<1> HIDE DEF counted, held, cursor
<1>4. /\ moved \in Trackers /\ moved.cursor = cursor
      /\ \A c \in Clips : /\ IsDownloaded(moved, c) <=> IsDownloaded(tracker, c)
                          /\ HasGivenUp(moved, c) <=> HasGivenUp(counted, c)
  BY <1>1, <1>2 DEF Trackers, Times, IsDownloaded, HasGivenUp
<1> HIDE DEF moved
<1>5. /\ tracker' \in Trackers /\ disk' \in Trackers
      /\ tracker'.cursor = cursor /\ disk'.cursor \in {cursor, disk.cursor}
      /\ disk' \in {tracker', disk}
      /\ \A c \in Clips : /\ IsDownloaded(tracker', c) => IsDownloaded(tracker, c)
                          /\ HasGivenUp(tracker', c) => HasGivenUp(counted, c)
  BY <1>0, <1>3, <1>4, PrunedProperties
<1>6. /\ gaveUp' \in [Clips -> Times]
      /\ \A c \in Clips : /\ gaveUp[c] # None => gaveUp'[c] # None
                          /\ HasGivenUp(counted, c) => gaveUp'[c] # None
  <2>1. \A c \in Clips : counted.failures[c].first \in Nat
    BY <1>1 DEF Trackers, Failures
  <2>2. Truthful(tracker)
    BY DEF IInv
  <2> QED BY <1>0, <1>3, <2>1, <2>2 DEF Times, None, HasGivenUp, Truthful
<1>7. TypeOK'
  <2>1. IdlePoll \in Polls /\ [IdlePoll EXCEPT !.phase = "local"] \in Polls
    BY DEF IdlePoll, Polls
  <2> QED BY <1>0, <1>3, <1>5, <1>6, <2>1 DEF IInv, TypeOK, Times
<1>8. ClockInv' /\ StoredInv'
  BY <1>3 DEF IInv, ClockInv, StoredInv, Recorded
<1>9. CursorInv'
  <2>1. CursorInv /\ PollKnows(p) /\ tracker.cursor \in Times /\ disk.cursor \in Times
    BY <1>0 DEF IInv, Trackers
  <2>2. Margin \in Nat
    BY DownloaderAssumption DEF DownloaderAssumption
  <2> QED
    BY <1>0, <1>2, <1>3, <1>5, <2>1, <2>2 DEF CursorInv, PollKnows, Times, None
<1>10. PollInv'
  BY <1>3 DEF PollInv, IdlePoll
<1>11. Truthful(tracker)' /\ Truthful(disk)'
  <2>1. Truthful(tracker) /\ Truthful(disk)
    BY DEF IInv
  <2>2. Truthful(tracker)'
    BY <1>3, <1>5, <1>6, <2>1 DEF Truthful
  <2>3. CASE disk' = tracker'
    BY <2>2, <2>3 DEF Truthful
  <2>4. CASE disk' = disk
    BY <1>3, <1>6, <2>1, <2>2, <2>4 DEF Truthful, IsDownloaded, HasGivenUp
  <2> QED BY <1>5, <2>2, <2>3, <2>4
<1>12. NoClipLost'
  <2>1. SUFFICES ASSUME NEW c \in Clips, Unresolved(c)', created[c] >= baseline'
                 PROVE  created[c] >= cursor
    BY <1>3, <1>5 DEF NoClipLost
  <2>2. Unresolved(c) /\ c \notin stored /\ gaveUp'[c] = None
    BY <1>3, <1>6, <2>1 DEF Unresolved, Recorded
  <2>3. created[c] >= p.since /\ created[c] \in Nat
    <3>1. NoClipLost /\ PollKnows(p)
      BY DEF IInv
    <3>2. created[c] \in Nat
      BY <1>0, <2>2 DEF Unresolved, Recorded, Times
    <3>3. CASE tracker.cursor = None
      BY <1>3, <2>1, <3>2, <3>3
    <3>4. CASE tracker.cursor # None
      BY <1>3, <2>1, <2>2, <3>1, <3>2, <3>4 DEF NoClipLost, PollKnows
    <3> QED BY <3>3, <3>4
  <2>4. CASE cursor = p.since
    BY <2>3, <2>4
  <2>5. CASE /\ p.complete /\ cursor <= p.listedAt - Margin
             /\ \A d \in held : cursor <= created[d]
    <3>1. CASE created[c] >= p.listedAt - Margin
      BY <1>0, <1>2, <2>3, <2>5, <3>1, DownloaderAssumption DEF DownloaderAssumption
    <3>2. CASE created[c] < p.listedAt - Margin
      <4>1. c \in p.owed
        BY <2>2, <2>3, <2>5, <3>2 DEF PollCovers
      <4>2. IsOwed(counted, c)
        <5>1. ~IsDownloaded(tracker, c)
          BY <2>2 DEF IInv, Truthful
        <5>2. ~HasGivenUp(counted, c)
          BY <1>6, <2>2
        <5> QED BY <1>1, <5>1, <5>2 DEF IsOwed, IsDownloaded
      <4> QED BY <4>1, <4>2, <2>5 DEF held
    <3> QED BY <1>0, <2>3, <3>1, <3>2, DownloaderAssumption DEF DownloaderAssumption
  <2> QED BY <1>2, <2>4, <2>5
<1> QED
  BY <1>7, <1>8, <1>9, <1>10, <1>11, <1>12 DEF IInv

-----------------------------------------------------------------------------
LEMMA InitInv == Init => IInv
<1> SUFFICES ASSUME Init PROVE IInv
  OBVIOUS
<1>1. EmptyTracker \in Trackers
  BY EmptySeq DEF EmptyTracker, Trackers, NoFailure, Failures, Times
<1>2. IdlePoll \in Polls
  BY DEF IdlePoll, Polls
<1>3. TypeOK
  BY <1>1, <1>2, DownloaderAssumption
  DEF Init, TypeOK, Times, DownloaderAssumption
<1>4. Truthful(tracker) /\ Truthful(disk)
  BY DEF Init, Truthful, IsDownloaded, HasGivenUp, EmptyTracker, NoFailure, ToSet
<1>5. ClockInv /\ CursorInv /\ PollInv /\ StoredInv /\ NoClipLost
  BY DownloaderAssumption
  DEF Init, ClockInv, CursorInv, PollInv, StoredInv, NoClipLost, Recorded, EmptyTracker,
      IdlePoll, None, DownloaderAssumption
<1> QED BY <1>3, <1>4, <1>5 DEF IInv

(* Blink and the clock: no step of theirs moves a cursor, and a new clip   *)
(* is newer than any list asked for.                                       *)
LEMMA OutsideStep ==
  ASSUME IInv, Tick \/ BlinkStep \/ \E c \in Clips : RemoveFile(c)
  PROVE  IInv'
<1> USE DEF IInv
<1>0. /\ now \in Nat /\ created \in [Clips -> Times] /\ poll \in Polls
      /\ baseline \in Times /\ tracker \in Trackers /\ disk \in Trackers
      /\ Margin \in Nat /\ Lookback \in Nat /\ PublishDelay \in Nat
      /\ tracker.cursor \in Times /\ poll.listedAt \in Nat /\ poll.since \in Nat
  BY DownloaderAssumption DEF TypeOK, Trackers, Polls, DownloaderAssumption
<1>1. /\ tracker' = tracker /\ disk' = disk /\ poll' = poll /\ faults' = faults
      /\ stored' = stored /\ gaveUp' = gaveUp /\ baseline' = baseline
  BY DEF Tick, BlinkStep, Record, Publish, DeleteFromBlink, RemoveFile, blink,
         history
<1>2. Truthful(tracker)' /\ Truthful(disk)'
  BY <1>1 DEF Truthful, IsDownloaded, HasGivenUp
<1>6. StoredInv'
  BY <1>1 DEF StoredInv, Tick, BlinkStep, Record, Publish, DeleteFromBlink,
              RemoveFile
<1>3. CASE Tick
  <2>1. /\ now' = now + 1 /\ created' = created /\ listed' = listed
        /\ deleted' = deleted /\ files' = files
        /\ \A c \in Clips : ~Overdue(c)
    BY <1>3 DEF Tick, blink
  <2>2. TypeOK' /\ CursorInv' /\ NoClipLost'
    BY <1>0, <1>1, <2>1
    DEF TypeOK, CursorInv, NoClipLost, Unresolved, Recorded, Times, None
  <2>3. ClockInv'
    BY <1>0, <2>1 DEF ClockInv, Recorded, Overdue, Times, None
  <2>4. PollInv'
    BY <1>0, <1>1, <2>1 DEF PollInv, PollKnows, PollCovers, Unresolved, Recorded
  <2> QED BY <1>2, <1>6, <2>2, <2>3, <2>4
<1>4. ASSUME NEW c \in Clips, Record(c) PROVE IInv'
  <2>1. /\ ~Recorded(c) /\ created' = [created EXCEPT ![c] = now]
        /\ now' = now /\ listed' = listed /\ deleted' = deleted /\ files' = files
    BY <1>4 DEF Record
  <2>2. c \notin listed
    BY <2>1 DEF ClockInv
  <2>3. TypeOK' /\ CursorInv'
    BY <1>0, <1>1, <2>1 DEF TypeOK, CursorInv, Times
  <2>4. ClockInv'
    BY <1>0, <2>1, <2>2 DEF ClockInv, Recorded, None
  <2>5. PollInv'
    <3>1. \A d \in Clips \ {c} : /\ created'[d] = created[d]
                                  /\ Unresolved(d)' => Unresolved(d)
      BY <1>0, <1>1, <2>1 DEF Unresolved, Recorded
    <3>2. created'[c] = now
      BY <1>0, <2>1
    <3>3. PollKnows(poll) => PollKnows(poll)'
      BY <1>1, <2>1 DEF PollKnows
    <3>4. PollKnows(poll) /\ PollCovers(poll) => PollCovers(poll)'
      <4>1. SUFFICES ASSUME PollKnows(poll), PollCovers(poll), poll.complete,
                            NEW d \in Clips, Unresolved(d)',
                            created'[d] >= poll.since,
                            created'[d] < poll.listedAt - Margin
                     PROVE  d \in poll.owed
        BY <1>1 DEF PollCovers
      <4>2. d # c
        BY <1>0, <3>2, <4>1 DEF PollKnows
      <4>3. Unresolved(d) /\ created[d] = created'[d]
        BY <1>1, <2>1, <3>1, <4>1, <4>2 DEF Unresolved, Recorded
      <4> QED BY <4>1, <4>3 DEF PollCovers
    <3> QED BY <1>1, <3>3, <3>4 DEF PollInv
  <2>6. NoClipLost'
    <3>1. tracker.cursor <= now
      BY DEF CursorInv
    <3> QED BY <1>0, <1>1, <2>1, <3>1 DEF NoClipLost, Unresolved, Recorded
  <2> QED BY <1>2, <1>6, <2>3, <2>4, <2>5, <2>6
<1>5. ASSUME NEW c \in Clips, Publish(c) \/ DeleteFromBlink(c) \/ RemoveFile(c)
      PROVE  IInv'
  <2>1. /\ created' = created /\ now' = now
        /\ listed \subseteq listed' /\ deleted \subseteq deleted'
        /\ listed' \subseteq listed \cup {c} /\ deleted' \subseteq Clips
        /\ files' \subseteq Clips
        /\ Recorded(c) \/ listed' = listed
    BY <1>5 DEF Publish, DeleteFromBlink, RemoveFile, blink, TypeOK
  <2>2. TypeOK' /\ CursorInv'
    BY <1>1, <2>1 DEF TypeOK, CursorInv
  <2>3. ClockInv'
    BY <2>1 DEF ClockInv, Recorded
  <2>4. PollInv' /\ NoClipLost'
    BY <1>1, <2>1
    DEF PollInv, PollKnows, PollCovers, NoClipLost, Unresolved, Recorded
  <2> QED BY <1>2, <1>6, <2>2, <2>3, <2>4
<1> QED BY <1>3, <1>4, <1>5 DEF BlinkStep

(* A tracker that learns of a stored clip, in memory or with a save.       *)
LEMMA MarkStep ==
  ASSUME IInv, NEW c \in Clips, NEW t \in {MarkDownloaded(tracker, c),
                                           Pruned(MarkDownloaded(tracker, c))},
         NEW S \in SUBSET Clips, c \in S, stored \subseteq S
  PROVE  /\ t \in Trackers /\ t.cursor = tracker.cursor
         /\ \A d \in Clips : /\ IsDownloaded(t, d) => d \in S
                             /\ HasGivenUp(t, d) => gaveUp[d] # None
<1>1. /\ tracker \in Trackers /\ now \in Nat /\ Truthful(tracker)
  BY DEF IInv, TypeOK
<1>2. /\ MarkDownloaded(tracker, c) \in Trackers
      /\ MarkDownloaded(tracker, c).cursor = tracker.cursor
      /\ \A d \in Clips :
             /\ IsDownloaded(MarkDownloaded(tracker, c), d)
                    => d = c \/ IsDownloaded(tracker, d)
             /\ HasGivenUp(MarkDownloaded(tracker, c), d) => HasGivenUp(tracker, d)
  BY <1>1, MarkProperties
<1>3. CASE t = MarkDownloaded(tracker, c)
  BY <1>1, <1>2, <1>3 DEF Truthful
<1>4. CASE t = Pruned(MarkDownloaded(tracker, c))
  BY <1>1, <1>2, <1>4, PrunedProperties DEF Truthful
<1> QED BY <1>3, <1>4

LEMMA DownloadStepInv == IInv /\ DownloadStep => IInv'
<1> SUFFICES ASSUME IInv, NEW c \in Clips,
                    \/ DownloadOk(c) \/ DownloadSkip(c)
                    \/ DownloadFails(c) \/ DownloadQuota(c)
             PROVE  IInv'
  BY DEF DownloadStep
<1> DEFINE rest == poll.pending \ {c}
<1>1. /\ poll.phase = "downloading" /\ poll \in Polls /\ TypeOK
      /\ now' = now /\ created' = created /\ listed' = listed
      /\ deleted' = deleted /\ disk' = disk /\ faults' = faults
      /\ gaveUp' = gaveUp /\ baseline' = baseline
      /\ files' \in SUBSET Clips /\ stored' \in {stored, stored \cup {c}}
  BY DEF IInv, TypeOK, Downloading, DownloadOk, DownloadSkip, DownloadFails,
         DownloadQuota, blink, history
<1>2. /\ poll' \in Polls /\ poll'.phase = "downloading"
      /\ poll'.since = poll.since /\ poll'.listedAt = poll.listedAt
      /\ poll'.complete = poll.complete /\ poll'.owed = poll.owed
  <2>1. \/ poll' = [poll EXCEPT !.pending = rest]
        \/ poll' = [poll EXCEPT !.pending = rest, !.failed = @ \cup {c}]
    BY DEF DownloadOk, DownloadSkip, DownloadFails, DownloadQuota
  <2>2. CASE poll' = [poll EXCEPT !.pending = rest]
    BY <1>1, <2>2 DEF Polls
  <2>3. CASE poll' = [poll EXCEPT !.pending = rest, !.failed = @ \cup {c}]
    BY <1>1, <2>3 DEF Polls
  <2> QED BY <2>1, <2>2, <2>3
<1>3. /\ tracker' \in Trackers /\ tracker'.cursor = tracker.cursor
      /\ Truthful(tracker)'
  <2>1. CASE DownloadOk(c)
    <3>1. tracker' = MarkDownloaded(tracker, c) /\ stored' = stored \cup {c}
      BY <2>1 DEF DownloadOk
    <3>2. stored' \in SUBSET Clips
      BY <1>1, <3>1 DEF TypeOK
    <3> QED BY <1>1, <3>1, <3>2, MarkStep DEF Truthful
  <2>2. CASE DownloadSkip(c)
    <3>1. tracker' = MarkDownloaded(tracker, c) /\ stored' = stored /\ c \in stored
      BY <2>2 DEF DownloadSkip, history, IInv, StoredInv
    <3>2. stored' \in SUBSET Clips
      BY <1>1, <3>1 DEF TypeOK
    <3> QED BY <1>1, <3>1, <3>2, MarkStep DEF Truthful
  <2>3. CASE DownloadFails(c) \/ DownloadQuota(c)
    <3>1. tracker' = tracker /\ stored' = stored
      BY <2>3 DEF DownloadFails, DownloadQuota, history
    <3> QED BY <1>1, <3>1 DEF IInv, TypeOK, Truthful, IsDownloaded, HasGivenUp
  <2> QED BY <2>1, <2>2, <2>3
<1>4. TypeOK'
  BY <1>1, <1>2, <1>3 DEF TypeOK
<1>5. ClockInv' /\ CursorInv'
  BY <1>1, <1>3 DEF IInv, ClockInv, CursorInv, Recorded
<1>6. PollInv' /\ NoClipLost'
  BY <1>1, <1>2, <1>3
  DEF IInv, PollInv, PollKnows, PollCovers, NoClipLost, Unresolved, Recorded
<1>7. Truthful(disk)'
  BY <1>1 DEF IInv, Truthful, IsDownloaded, HasGivenUp
<1>8. StoredInv'
  BY DEF IInv, StoredInv, DownloadOk, DownloadSkip, DownloadFails, DownloadQuota,
         history
<1> QED BY <1>3, <1>4, <1>5, <1>6, <1>7, <1>8 DEF IInv

(* A poll starts from the cursor, or from the lookback when there is none. *)
LEMMA StartPollInv == IInv /\ StartPoll => IInv'
<1> SUFFICES ASSUME IInv, StartPoll PROVE IInv'
  OBVIOUS
<1> USE DEF IInv
<1>1. /\ now \in Nat /\ now >= Lookback /\ Lookback \in Nat
      /\ tracker.cursor \in Times /\ tracker.cursor <= now
      /\ baseline \in Times
  BY DownloaderAssumption
  DEF TypeOK, Trackers, ClockInv, CursorInv, DownloaderAssumption
<1>2. Since \in Nat /\ Since <= now /\ (tracker.cursor # None => Since = tracker.cursor)
  BY <1>1 DEF Since, Times, None
<1>3. /\ now' = now /\ created' = created /\ listed' = listed
      /\ deleted' = deleted /\ files' = files /\ tracker' = tracker
      /\ disk' = disk /\ faults' = faults /\ stored' = stored
      /\ gaveUp' = gaveUp /\ baseline' = baseline
  BY DEF StartPoll, blink, history
<1>4. /\ poll' \in Polls /\ poll'.phase = "listing" /\ poll'.since = Since
      /\ poll'.listedAt = now /\ poll'.owed = {}
  BY <1>1, <1>2 DEF StartPoll, IdlePoll, Polls
<1>5. TypeOK'
  BY <1>3, <1>4 DEF TypeOK
<1>6. ClockInv' /\ CursorInv' /\ StoredInv' /\ NoClipLost'
  BY <1>3 DEF ClockInv, CursorInv, StoredInv, NoClipLost, Unresolved, Recorded
<1>7. PollInv'
  BY <1>1, <1>2, <1>3, <1>4 DEF PollInv, PollKnows
<1>8. Truthful(tracker)' /\ Truthful(disk)'
  BY <1>3 DEF Truthful, IsDownloaded, HasGivenUp
<1> QED BY <1>5, <1>6, <1>7, <1>8

(* The list arrives: if it is complete it covers every clip old enough to  *)
(* have been listed by then.                                               *)
LEMMA ReceivedInv ==
  ASSUME IInv, poll.phase = "listing", NEW got, NEW complete \in BOOLEAN,
         got \subseteq Listing(poll.since),
         complete => got = Listing(poll.since),
         Received(got, complete),
         UNCHANGED <<now, blink, files>>, faults' \in Nat
  PROVE  IInv'
<1> USE DEF IInv
<1> DEFINE p == [poll EXCEPT !.phase = "downloading", !.complete = complete,
                             !.owed  = {c \in got : IsOwed(tracker, c)}]
<1>1. /\ poll \in Polls /\ now \in Nat /\ created \in [Clips -> Times]
      /\ Margin \in Nat /\ PublishDelay \in Nat /\ PublishDelay <= Margin
      /\ listed \subseteq Clips /\ got \subseteq listed
  BY DownloaderAssumption DEF TypeOK, Listing, DownloaderAssumption
<1>2. /\ p \in Polls /\ p.phase = "downloading" /\ p.complete = complete
      /\ p.since = poll.since /\ p.listedAt = poll.listedAt
      /\ p.owed = {c \in got : IsOwed(tracker, c)} /\ p.failed = poll.failed
      /\ p.since \in Nat /\ p.listedAt \in Nat
  BY <1>1 DEF Polls
<1>3. \E B \in SUBSET p.owed :
          IF B = {} THEN Conclude(p, FALSE)
          ELSE /\ poll' = [p EXCEPT !.pending = B]
               /\ UNCHANGED <<tracker, disk, history>>
  BY DEF Received
<1> HIDE DEF p
<1>4. PollKnows(p)
  BY <1>1, <1>2 DEF PollInv, PollKnows
<1>5. PollCovers(p)
  <2>1. SUFFICES ASSUME complete, NEW c \in Clips, Unresolved(c),
                        created[c] >= p.since,
                        created[c] < p.listedAt - Margin
                 PROVE  c \in p.owed
    BY <1>2 DEF PollCovers
  <2>2. c \in listed /\ c \notin deleted
    <3>1. p.listedAt <= now /\ created[c] \in Nat
      BY <1>1, <1>2, <2>1 DEF PollInv, PollKnows, Unresolved, Recorded, Times
    <3>2. c \notin listed => now - created[c] <= PublishDelay
      BY <2>1 DEF ClockInv, Unresolved
    <3> QED BY <1>1, <1>2, <2>1, <3>1, <3>2 DEF Unresolved
  <2>3. c \in got
    BY <1>2, <2>1, <2>2 DEF Listing
  <2>4. IsOwed(tracker, c)
    BY <2>1 DEF IsOwed, Truthful, Unresolved
  <2> QED BY <1>2, <2>3, <2>4
<1>6. CASE Conclude(p, FALSE)
  BY <1>2, <1>4, <1>5, <1>6, ConcludeStep
<1>7. ASSUME NEW B \in SUBSET p.owed, poll' = [p EXCEPT !.pending = B],
             UNCHANGED <<tracker, disk, history>>
      PROVE  IInv'
  <2>1. /\ now' = now /\ created' = created /\ listed' = listed
        /\ deleted' = deleted /\ files' = files /\ tracker' = tracker
        /\ disk' = disk /\ stored' = stored
        /\ gaveUp' = gaveUp /\ baseline' = baseline
    BY <1>7 DEF blink, history
  <2>2. /\ poll' \in Polls /\ poll'.since = p.since /\ poll'.owed = p.owed
        /\ poll'.listedAt = p.listedAt /\ poll'.complete = p.complete
    BY <1>2, <1>7 DEF Polls
  <2>3. TypeOK'
    BY <2>1, <2>2 DEF TypeOK
  <2>4. ClockInv' /\ CursorInv' /\ StoredInv' /\ NoClipLost'
    BY <2>1 DEF ClockInv, CursorInv, StoredInv, NoClipLost, Unresolved, Recorded
  <2>5. PollInv'
    BY <1>4, <1>5, <2>1, <2>2
    DEF PollInv, PollKnows, PollCovers, Unresolved, Recorded
  <2>6. Truthful(tracker)' /\ Truthful(disk)'
    BY <2>1 DEF Truthful, IsDownloaded, HasGivenUp
  <2> QED BY <2>3, <2>4, <2>5, <2>6
<1> QED BY <1>3, <1>6, <1>7

(* The remaining steps: the tracker is saved, restored over, or reloaded.  *)
LEMMA SaveStep ==
  ASSUME IInv, LocalStoragePass \/ CleanRestart \/ AuthFatal \/ Crash
               \/ \E c \in Clips : MergeDownloaded(c)
  PROVE  IInv'
<1> USE DEF IInv
<1>1. /\ now \in Nat /\ tracker \in Trackers /\ disk \in Trackers /\ faults \in Nat
      /\ IdlePoll \in Polls /\ IdlePoll.phase = "idle"
      /\ tracker.cursor \in Times /\ disk.cursor \in Times /\ baseline \in Times
  BY DEF TypeOK, IdlePoll, Polls, Trackers
<1>2. /\ now' = now /\ created' = created /\ listed' = listed
      /\ deleted' = deleted /\ files' = files
      /\ gaveUp' = gaveUp /\ faults' \in Nat
  BY <1>1 DEF LocalStoragePass, CleanRestart, AuthFatal, Crash, MergeDownloaded,
              blink, history
<1>3. ClockInv'
  BY <1>2 DEF ClockInv, Recorded
<1>4. CASE LocalStoragePass \/ CleanRestart \/ AuthFatal
  <2>1. /\ stored' = stored /\ baseline' = baseline
        /\ poll' = poll \/ poll' = IdlePoll
        /\ tracker' \in {tracker, Pruned(tracker)}
        /\ disk' \in {disk, Pruned(tracker)}
    BY <1>4 DEF LocalStoragePass, CleanRestart, AuthFatal, history
  <2>2. /\ Pruned(tracker) \in Trackers /\ Pruned(tracker).cursor = tracker.cursor
        /\ \A c \in Clips :
               /\ IsDownloaded(Pruned(tracker), c) => IsDownloaded(tracker, c)
               /\ HasGivenUp(Pruned(tracker), c) => HasGivenUp(tracker, c)
    BY <1>1, PrunedProperties
  <2>3. TypeOK' /\ StoredInv'
    BY <1>1, <1>2, <2>1, <2>2 DEF TypeOK, StoredInv
  <2>4. CursorInv' /\ NoClipLost'
    BY <1>1, <1>2, <2>1, <2>2
    DEF CursorInv, NoClipLost, Unresolved, Recorded, Times, None
  <2>5. Truthful(tracker)' /\ Truthful(disk)'
    BY <1>2, <2>1, <2>2 DEF Truthful, IsDownloaded, HasGivenUp
  <2>6. PollInv'
    BY <1>1, <1>2, <2>1, <2>2
    DEF PollInv, PollKnows, PollCovers, Unresolved, Recorded
  <2> QED BY <1>3, <2>3, <2>4, <2>5, <2>6
<1>5. CASE Crash
  <2>1. /\ tracker' = disk /\ disk' = disk /\ poll' = IdlePoll /\ stored' = stored
        /\ baseline' = IF disk.cursor = None THEN None ELSE baseline
    BY <1>5 DEF Crash
  <2>2. TypeOK' /\ StoredInv'
    BY <1>1, <1>2, <2>1 DEF TypeOK, StoredInv, Times
  <2>3. CursorInv' /\ NoClipLost'
    <3>1. CASE disk.cursor = None
      BY <1>1, <1>2, <2>1, <3>1 DEF CursorInv, NoClipLost, Times, None
    <3>2. CASE disk.cursor # None
      <4>1. CursorInv'
        BY <1>1, <1>2, <2>1, <3>2 DEF CursorInv, Times, None
      <4>2. \A c \in Clips : Unresolved(c)' => Unresolved(c) /\ created[c] \in Nat
        BY <1>2, <2>1 DEF Unresolved, Recorded, TypeOK, Times
      <4>3. NoClipLost'
        <5>1. disk.cursor <= tracker.cursor /\ tracker.cursor # None
              /\ tracker.cursor \in Nat /\ disk.cursor \in Nat /\ baseline' = baseline
          BY <1>1, <2>1, <3>2 DEF CursorInv, Times, None
        <5> QED BY <1>2, <2>1, <4>2, <5>1 DEF NoClipLost
      <4> QED BY <4>1, <4>3
    <3> QED BY <3>1, <3>2
  <2>4. PollInv'
    BY <1>1, <2>1 DEF PollInv
  <2>5. Truthful(tracker)' /\ Truthful(disk)'
    BY <1>2, <2>1 DEF Truthful, IsDownloaded, HasGivenUp
  <2> QED BY <1>3, <2>2, <2>3, <2>4, <2>5
<1>6. ASSUME NEW c \in Clips, MergeDownloaded(c)
      PROVE  IInv'
  <2>1. /\ tracker' = Pruned(MarkDownloaded(tracker, c)) /\ disk' = tracker'
        /\ stored' = stored \cup {c} /\ poll' = poll /\ baseline' = baseline
    BY <1>6 DEF MergeDownloaded
  <2>2. stored' \in SUBSET Clips
    BY <2>1 DEF TypeOK
  <2>3. /\ tracker' \in Trackers /\ tracker'.cursor = tracker.cursor
        /\ \A d \in Clips : /\ IsDownloaded(tracker', d) => d \in stored'
                            /\ HasGivenUp(tracker', d) => gaveUp[d] # None
    BY <2>1, <2>2, MarkStep
  <2>4. TypeOK' /\ StoredInv'
    BY <1>1, <1>2, <2>1, <2>2, <2>3 DEF TypeOK, StoredInv
  <2>5. CursorInv' /\ NoClipLost'
    BY <1>1, <1>2, <2>1, <2>3
    DEF CursorInv, NoClipLost, Unresolved, Recorded, Times, None
  <2>6. PollInv'
    BY <1>2, <2>1, <2>3
    DEF PollInv, PollKnows, PollCovers, Unresolved, Recorded
  <2>7. Truthful(tracker)' /\ Truthful(disk)'
    BY <1>2, <2>1, <2>3 DEF Truthful
  <2> QED BY <1>3, <2>4, <2>5, <2>6, <2>7
<1> QED BY <1>4, <1>5, <1>6

LEMMA StepInv == IInv /\ [Next]_vars => IInv'
<1> SUFFICES ASSUME IInv, [Next]_vars PROVE IInv'
  OBVIOUS
<1>1. CASE Tick \/ BlinkStep \/ \E c \in Clips : RemoveFile(c)
  BY <1>1, OutsideStep
<1>2. CASE StartPoll
  BY <1>2, StartPollInv
<1>3. CASE ReceiveList
  BY <1>3, ReceivedInv DEF ReceiveList, IInv, TypeOK
<1>4. CASE ReceivePartialList
  <2>1. PICK got \in SUBSET Listing(poll.since) : Received(got, FALSE)
    BY <1>4 DEF ReceivePartialList
  <2>2. /\ poll.phase = "listing" /\ faults' \in Nat
        /\ UNCHANGED <<now, blink, files>>
    BY <1>4 DEF ReceivePartialList, IInv, TypeOK
  <2> QED BY <2>1, <2>2, ReceivedInv
<1>5. CASE DownloadStep
  BY <1>5, DownloadStepInv
<1>6. CASE FinishPoll
  <2>1. /\ poll \in Polls /\ PollKnows(poll) /\ PollCovers(poll)
        /\ Conclude(poll, TRUE) /\ UNCHANGED <<now, blink, files>> /\ faults' \in Nat
    BY <1>6 DEF FinishPoll, IInv, TypeOK, PollInv
  <2> QED BY <2>1, ConcludeStep
<1>7. CASE LocalStoragePass \/ CleanRestart \/ AuthFatal \/ Crash
           \/ \E c \in Clips : MergeDownloaded(c)
  BY <1>7, SaveStep
<1>8. CASE UNCHANGED vars
  BY <1>8 DEF vars, blink, history, IInv, TypeOK, ClockInv, CursorInv, PollInv,
              StoredInv, Truthful, NoClipLost, PollKnows, PollCovers, Unresolved,
              Recorded, IsDownloaded, HasGivenUp
<1> QED
  BY <1>1, <1>2, <1>3, <1>4, <1>5, <1>6, <1>7, <1>8 DEF Next, PollStep

-----------------------------------------------------------------------------
(* Every reachable state satisfies the inductive invariant.                *)
THEOREM Invariance == Spec => []IInv
  BY InitInv, StepInv, PTL DEF Spec

(* The tracker, the tracker file and the poll keep their shape, and no     *)
(* arithmetic on the clock or the cursor leaves the naturals.              *)
THEOREM TypeCorrect == Spec => []TypeOK
<1>1. IInv => TypeOK
  BY DEF IInv
<1> QED BY <1>1, Invariance, PTL

(* No clip is lost: whatever is published late, fails, is cut short,       *)
(* stopped by the quota or interrupted by a crash, the list cursor never   *)
(* passes a clip still owed a download (downloader.py:1293-1318).          *)
THEOREM NothingLost == Spec => []NoClipLost
<1>1. IInv => NoClipLost
  BY DEF IInv
<1> QED BY <1>1, Invariance, PTL

(* What a crash falls back on is never ahead of the tracker in memory, and *)
(* claims no clip that is not stored (downloader.py:1212-1218).            *)
THEOREM FileLags == Spec => []DiskLags
<1>1. IInv => DiskLags
  BY DEF IInv, CursorInv, Truthful, DiskLags
<1> QED BY <1>1, Invariance, PTL

-----------------------------------------------------------------------------
(* What is remembered of failures: a second invariant, beside the first.   *)

(* A tracker knows the clips given up on and since when, as long as their  *)
(* records last; of the clips that are stored nothing need be known.       *)
Recalls(t, since, S) ==
    \A c \in Clips \ S :
        /\ HasGivenUp(t, c) => /\ t.failures[c].attempts > 0
                               /\ since[c] = t.failures[c].first
        /\ since[c] # None /\ now - since[c] <= RecordTTL => HasGivenUp(t, c)

(* A poll has counted no failure before it has its batch.                  *)
FailureInv == /\ FailuresOnDisk
              /\ Recalls(tracker, gaveUp, stored)
              /\ poll.phase = "listing" => poll.failed = {}

(* save() drops a record only when it is too old to matter.                *)
LEMMA PrunedRecalls ==
  ASSUME NEW t \in Trackers, now \in Nat, NEW since \in [Clips -> Times], NEW S,
         Recalls(t, since, S)
  PROVE  /\ Recalls(Pruned(t), since, S)
         /\ Pruned(t).failures = PruneFailures(t.failures)
<1>1. \A c \in Clips :
         Pruned(t).failures[c] = IF now - t.failures[c].first <= RecordTTL
                                 THEN t.failures[c] ELSE NoFailure
  BY DEF Pruned, PruneFailures, Trackers
<1>2. \A c \in Clips : t.failures[c] \in Failures /\ since[c] \in Times
  BY DEF Trackers
<1>3. Pruned(t).failures = PruneFailures(t.failures)
  BY DEF Pruned, Trackers
<1> QED
  BY <1>1, <1>2, <1>3 DEF Recalls, HasGivenUp, NoFailure, Failures, Times, None

(* A clip that is marked is one to forget; nothing else is forgotten.      *)
LEMMA MarkedRecalls ==
  ASSUME NEW t \in Trackers, NEW c \in Clips, NEW since, NEW S, NEW R,
         Recalls(t, since, R), R \subseteq S, c \in S
  PROVE  LET u == MarkDownloaded(t, c)
         IN  /\ \A d \in Clips \ {c} : /\ u.failures[d] = t.failures[d]
                                       /\ IsDownloaded(t, d) => IsDownloaded(u, d)
             /\ IsDownloaded(u, c)
             /\ Recalls(u, since, S)
<1> DEFINE u == MarkDownloaded(t, c)
           ids == IF IsDownloaded(t, c) THEN t.downloaded
                                        ELSE Append(t.downloaded, c)
<1>1. /\ t.failures \in [Clips -> Failures] /\ t.downloaded \in Seq(Clips)
      /\ u = [t EXCEPT !.downloaded = ids,
                       !.failures = [@ EXCEPT ![c] = NoFailure]]
  BY DEF MarkDownloaded, Trackers
<1>2. u.downloaded = ids /\ u.failures = [t.failures EXCEPT ![c] = NoFailure]
  BY <1>1 DEF Trackers
<1>3. ToSet(t.downloaded) \subseteq ToSet(ids) /\ c \in ToSet(ids)
  <2>1. CASE IsDownloaded(t, c)
    BY <2>1 DEF IsDownloaded
  <2>2. CASE ~IsDownloaded(t, c)
    <3>1. ids = Append(t.downloaded, c) /\ Len(t.downloaded) \in Nat
          /\ DOMAIN t.downloaded = 1 .. Len(t.downloaded)
      BY <1>1, <2>2, LenProperties
    <3>2. /\ DOMAIN ids = 1 .. Len(t.downloaded) + 1
          /\ ids[Len(t.downloaded) + 1] = c
          /\ \A i \in 1 .. Len(t.downloaded) : ids[i] = t.downloaded[i]
      BY <1>1, <3>1, AppendProperties, LenProperties
    <3> HIDE DEF ids
    <3> QED BY <3>1, <3>2 DEF ToSet
  <2> QED BY <2>1, <2>2
<1> HIDE DEF u, ids
<1>4. \A d \in Clips \ {c} : u.failures[d] = t.failures[d]
  BY <1>1, <1>2
<1>5. \A d \in Clips : IsDownloaded(t, d) => IsDownloaded(u, d)
  BY <1>2, <1>3 DEF IsDownloaded
<1>6. IsDownloaded(u, c)
  BY <1>2, <1>3 DEF IsDownloaded
<1>7. \A d \in Clips \ S : /\ d # c /\ d \notin R
                           /\ HasGivenUp(u, d) <=> HasGivenUp(t, d)
  BY <1>4 DEF HasGivenUp
<1> QED BY <1>4, <1>5, <1>6, <1>7 DEF u, Recalls

(* The end of a poll saves the failures it counts, and has none to count   *)
(* if it tried nothing.                                                    *)
LEMMA ConcludeRecalls ==
  ASSUME IInv, FailureInv,
         NEW p \in Polls, NEW tried \in BOOLEAN, ~tried => p.failed = {},
         PollKnows(p), Conclude(p, tried), now' = now
  PROVE  FailureInv'
<1> DEFINE counted == RecordFailedAttempts(tracker, p.failed)
           held    == {c \in p.owed : IsOwed(counted, c)}
           cursor  == NextListCursor(p, held)
           moved   == [counted EXCEPT !.cursor = cursor]
<1>0. /\ tracker \in Trackers /\ disk \in Trackers /\ now \in Nat
      /\ gaveUp \in [Clips -> Times] /\ p.failed \in SUBSET Clips
  BY DEF IInv, TypeOK, Polls
<1>1. /\ counted \in Trackers /\ counted.downloaded = tracker.downloaded
      /\ \A c \in Clips : HasGivenUp(tracker, c) => HasGivenUp(counted, c)
  BY <1>0, RecordProperties
<1>2. counted.failures = [c \in Clips |->
         IF c \in p.failed /\ ~IsDownloaded(tracker, c)
         THEN Failed(tracker.failures[c]) ELSE tracker.failures[c]]
  BY <1>0 DEF RecordFailedAttempts, Trackers
<1>3. /\ tracker' = IF tried THEN Pruned(moved) ELSE moved
      /\ disk' = IF tried THEN Pruned(moved) ELSE disk
      /\ poll' \in {IdlePoll, [IdlePoll EXCEPT !.phase = "local"]}
      /\ gaveUp' = [c \in Clips |->
             IF counted.failures[c].givenUp /\ ~tracker.failures[c].givenUp
             THEN counted.failures[c].first ELSE gaveUp[c]]
      /\ stored' = stored
  BY DEF Conclude
<1> HIDE DEF counted, held, cursor
<1>4. /\ moved.downloaded = tracker.downloaded /\ moved.failures = counted.failures
      /\ moved = [counted EXCEPT !.cursor = cursor]
  BY <1>1 DEF Trackers
<1> HIDE DEF moved
<1>5. \A c \in Clips :
         /\ counted.failures[c] \in Failures /\ tracker.failures[c] \in Failures
         /\ \/ counted.failures[c] = tracker.failures[c]
            \/ /\ counted.failures[c].attempts = tracker.failures[c].attempts + 1
               /\ tracker.failures[c].attempts > 0
                     => counted.failures[c].first = tracker.failures[c].first
  BY <1>0, <1>1, <1>2 DEF Trackers, Failures, Failed
<1>6. gaveUp' \in [Clips -> Times]
  BY <1>0, <1>3, <1>5 DEF Failures, Times
<1>7. PICK since \in [Clips -> Times] : since = gaveUp'
  BY <1>6
<1>8. Recalls(moved, since, stored)
  <2> SUFFICES ASSUME NEW c \in Clips \ stored
               PROVE  /\ HasGivenUp(moved, c) =>
                            /\ moved.failures[c].attempts > 0
                            /\ since[c] = moved.failures[c].first
                      /\ since[c] # None /\ now - since[c] <= RecordTTL
                            => HasGivenUp(moved, c)
    BY DEF Recalls
  <2>1. CASE HasGivenUp(tracker, c)
    <3>1. /\ since[c] = gaveUp[c] /\ HasGivenUp(moved, c)
          /\ tracker.failures[c].attempts > 0
          /\ gaveUp[c] = tracker.failures[c].first
      BY <1>1, <1>3, <1>4, <1>7, <2>1 DEF FailureInv, Recalls, HasGivenUp
    <3> QED BY <1>4, <1>5, <3>1 DEF Failures
  <2>2. CASE ~HasGivenUp(tracker, c) /\ HasGivenUp(counted, c)
    <3>1. since[c] = counted.failures[c].first /\ HasGivenUp(moved, c)
      BY <1>3, <1>4, <1>7, <2>2 DEF HasGivenUp
    <3>2. counted.failures[c].attempts > 0
      BY <1>5, <2>2 DEF HasGivenUp, Failures
    <3> QED BY <1>4, <3>1, <3>2
  <2>3. CASE ~HasGivenUp(counted, c)
    <3>1. /\ since[c] = gaveUp[c] /\ ~HasGivenUp(moved, c)
          /\ ~HasGivenUp(tracker, c)
      BY <1>1, <1>3, <1>4, <1>7, <2>3 DEF HasGivenUp
    <3> QED BY <3>1 DEF FailureInv, Recalls
  <2> QED BY <2>1, <2>2, <2>3
<1>9. moved \in Trackers
  <2>1. \A c \in held : created[c] >= Lookback
    BY DEF IInv, PollKnows, ClockInv, TypeOK, held
  <2>2. held \in SUBSET Clips /\ p.listedAt >= Lookback /\ created \in [Clips -> Times]
    BY DEF PollKnows, IInv, TypeOK, Polls, held
  <2>3. NextListCursor(p, held) \in Nat
    BY <1>0, <2>1, <2>2, NextCursorProperties
  <2> QED BY <1>1, <1>4, <2>3 DEF Trackers, Times, cursor
<1>10. Recalls(tracker, gaveUp, stored)'
  <2>1. Recalls(Pruned(moved), since, stored)
    BY <1>0, <1>8, <1>9, PrunedRecalls
  <2> QED BY <1>3, <1>7, <1>8, <2>1 DEF Recalls
<1>11. FailuresOnDisk'
  <2>1. CASE tried
    BY <1>3, <2>1 DEF FailuresOnDisk
  <2>2. CASE ~tried
    <3>1. \A c \in Clips : /\ tracker'.failures[c] = tracker.failures[c]
                           /\ disk'.failures[c] = disk.failures[c]
                           /\ IsDownloaded(tracker', c) <=> IsDownloaded(tracker, c)
      BY <1>2, <1>3, <1>4, <2>2 DEF IsDownloaded
    <3> QED BY <3>1 DEF FailureInv, FailuresOnDisk
  <2> QED BY <2>1, <2>2
<1> QED
  BY <1>3, <1>10, <1>11 DEF FailureInv, IdlePoll

(* Saving, restoring and restarting: memory and the file agree after each. *)
LEMMA SaveRecalls ==
  ASSUME IInv, FailureInv,
         LocalStoragePass \/ CleanRestart \/ AuthFatal \/ Crash
           \/ \E c \in Clips : MergeDownloaded(c)
  PROVE  FailureInv'
<1>1. /\ tracker \in Trackers /\ disk \in Trackers /\ now \in Nat
      /\ gaveUp \in [Clips -> Times] /\ Recalls(tracker, gaveUp, stored)
  BY DEF IInv, TypeOK, FailureInv
<1>2. CASE LocalStoragePass \/ CleanRestart
  <2>1. /\ tracker' = Pruned(tracker) /\ disk' = Pruned(tracker)
        /\ UNCHANGED <<now, gaveUp, stored>> /\ poll'.phase = "idle"
    BY <1>2 DEF LocalStoragePass, CleanRestart, IdlePoll, history
  <2>2. Recalls(Pruned(tracker), gaveUp, stored)
    BY <1>1, PrunedRecalls
  <2> QED BY <2>1, <2>2 DEF FailureInv, FailuresOnDisk, Recalls
<1>3. CASE AuthFatal
  <2>1. UNCHANGED <<now, tracker, disk, gaveUp, stored>> /\ poll'.phase = "idle"
    BY <1>3 DEF AuthFatal, IdlePoll, history
  <2> QED BY <2>1 DEF FailureInv, FailuresOnDisk, Recalls, IsDownloaded
<1>4. CASE Crash
  <2>1. /\ tracker' = disk /\ disk' = disk
        /\ UNCHANGED <<now, gaveUp, stored>> /\ poll'.phase = "idle"
    BY <1>4 DEF Crash, IdlePoll
  <2>2. \A c \in Clips \ stored : disk.failures[c] = tracker.failures[c]
    BY DEF FailureInv, FailuresOnDisk, IInv, Truthful
  <2>3. Recalls(disk, gaveUp, stored)
    BY <1>1, <2>2 DEF Recalls, HasGivenUp
  <2> QED BY <2>1, <2>3 DEF FailureInv, FailuresOnDisk, Recalls
<1>5. ASSUME NEW c \in Clips, MergeDownloaded(c)
      PROVE  FailureInv'
  <2>1. /\ tracker' = Pruned(MarkDownloaded(tracker, c)) /\ disk' = tracker'
        /\ UNCHANGED <<now, gaveUp, poll>> /\ stored' = stored \cup {c}
    BY <1>5 DEF MergeDownloaded
  <2>2. /\ MarkDownloaded(tracker, c) \in Trackers
        /\ Recalls(MarkDownloaded(tracker, c), gaveUp, stored \cup {c})
    BY <1>1, MarkProperties, MarkedRecalls
  <2>3. Recalls(Pruned(MarkDownloaded(tracker, c)), gaveUp, stored \cup {c})
    BY <1>1, <2>2, PrunedRecalls
  <2> QED BY <2>1, <2>3 DEF FailureInv, FailuresOnDisk, Recalls
<1> QED BY <1>2, <1>3, <1>4, <1>5

LEMMA DownloadRecalls == IInv /\ FailureInv /\ DownloadStep => FailureInv'
<1> SUFFICES ASSUME IInv, FailureInv, NEW c \in Clips,
                    \/ DownloadOk(c) \/ DownloadSkip(c)
                    \/ DownloadFails(c) \/ DownloadQuota(c)
             PROVE  FailureInv'
  BY DEF DownloadStep
<1>1. /\ poll.phase = "downloading" /\ poll \in Polls /\ tracker \in Trackers
      /\ UNCHANGED <<now, disk, gaveUp>>
      /\ Recalls(tracker, gaveUp, stored)
  BY DEF IInv, TypeOK, FailureInv, Downloading, DownloadOk, DownloadSkip,
         DownloadFails, DownloadQuota, history
<1>2. poll'.phase = "downloading"
  <2> DEFINE rest == poll.pending \ {c}
             more == poll.failed \cup {c}
  <2>1. \/ poll' = [poll EXCEPT !.pending = rest]
        \/ poll' = [poll EXCEPT !.pending = rest, !.failed = more]
    BY DEF DownloadOk, DownloadSkip, DownloadFails, DownloadQuota
  <2> HIDE DEF rest, more
  <2> QED BY <1>1, <2>1 DEF Polls
<1>3. CASE DownloadOk(c) \/ DownloadSkip(c)
  <2>1. /\ tracker' = MarkDownloaded(tracker, c)
        /\ stored \subseteq stored' /\ c \in stored'
    BY <1>3 DEF DownloadOk, DownloadSkip, history, IInv, StoredInv
  <2>2. PICK S : S = stored'
    OBVIOUS
  <2>3. /\ \A d \in Clips \ {c} :
               /\ MarkDownloaded(tracker, c).failures[d] = tracker.failures[d]
               /\ IsDownloaded(tracker, d)
                    => IsDownloaded(MarkDownloaded(tracker, c), d)
        /\ IsDownloaded(MarkDownloaded(tracker, c), c)
        /\ Recalls(MarkDownloaded(tracker, c), gaveUp, S)
    BY <1>1, <2>1, <2>2, MarkedRecalls
  <2>4. FailuresOnDisk'
    BY <1>1, <2>1, <2>3 DEF FailureInv, FailuresOnDisk, IsDownloaded
  <2>5. Recalls(tracker, gaveUp, stored)'
    BY <1>1, <2>1, <2>2, <2>3 DEF Recalls
  <2> QED BY <1>2, <2>4, <2>5 DEF FailureInv
<1>4. CASE DownloadFails(c) \/ DownloadQuota(c)
  <2>1. UNCHANGED <<tracker, stored>>
    BY <1>4 DEF DownloadFails, DownloadQuota, history
  <2> QED
    BY <1>1, <1>2, <2>1 DEF FailureInv, FailuresOnDisk, Recalls, IsDownloaded
<1> QED BY <1>3, <1>4

LEMMA FailureStepInv == IInv /\ FailureInv /\ [Next]_vars => FailureInv'
<1> SUFFICES ASSUME IInv, FailureInv, [Next]_vars PROVE FailureInv'
  OBVIOUS
<1>1. CASE Tick \/ BlinkStep \/ (\E c \in Clips : RemoveFile(c)) \/ UNCHANGED vars
  <2>1. /\ UNCHANGED <<tracker, disk, poll, gaveUp, stored>>
        /\ now \in Nat /\ now' \in Nat /\ now <= now'
        /\ gaveUp \in [Clips -> Times]
    BY <1>1 DEF Tick, BlinkStep, Record, Publish, DeleteFromBlink, RemoveFile,
                vars, history, IInv, TypeOK
  <2>2. FailuresOnDisk'
    BY <2>1 DEF FailureInv, FailuresOnDisk, IsDownloaded
  <2>3. Recalls(tracker, gaveUp, stored)'
    BY <2>1, DownloaderAssumption
    DEF FailureInv, Recalls, HasGivenUp, Times, None, DownloaderAssumption
  <2> QED BY <2>1, <2>2, <2>3 DEF FailureInv
<1>2. CASE StartPoll
  <2>1. UNCHANGED <<now, tracker, disk, gaveUp, stored>> /\ poll'.failed = {}
    BY <1>2 DEF StartPoll, IdlePoll, history
  <2> QED BY <2>1 DEF FailureInv, FailuresOnDisk, Recalls, IsDownloaded
<1>3. ASSUME NEW got \in SUBSET Listing(poll.since), NEW complete \in BOOLEAN,
             poll.phase = "listing", Received(got, complete), now' = now
      PROVE  FailureInv'
  <2> DEFINE p == [poll EXCEPT !.phase = "downloading", !.complete = complete,
                               !.owed  = {c \in got : IsOwed(tracker, c)}]
  <2>1. /\ p \in Polls /\ p.failed = {} /\ p.phase = "downloading"
        /\ p.since = poll.since /\ p.listedAt = poll.listedAt
        /\ p.owed \subseteq listed
    BY <1>3 DEF IInv, TypeOK, Polls, Listing, FailureInv
  <2>2. PICK B \in SUBSET p.owed :
          IF B = {} THEN Conclude(p, FALSE)
          ELSE /\ poll' = [p EXCEPT !.pending = B]
               /\ UNCHANGED <<tracker, disk, history>>
    BY <1>3 DEF Received
  <2> HIDE DEF p
  <2>3. PollKnows(p)
    BY <1>3, <2>1 DEF IInv, PollInv, PollKnows
  <2>4. CASE Conclude(p, FALSE)
    BY <1>3, <2>1, <2>3, <2>4, ConcludeRecalls
  <2>5. CASE poll' = [p EXCEPT !.pending = B] /\ UNCHANGED <<tracker, disk, history>>
    <3>1. poll'.phase = "downloading" /\ UNCHANGED <<tracker, disk, gaveUp, stored>>
      BY <2>1, <2>5 DEF Polls, history
    <3> QED
      BY <1>3, <3>1 DEF FailureInv, FailuresOnDisk, Recalls, IsDownloaded
  <2> QED BY <2>2, <2>4, <2>5
<1>4. CASE ReceiveList \/ ReceivePartialList
  <2>1. \E got \in SUBSET Listing(poll.since), complete \in BOOLEAN :
          Received(got, complete)
    BY <1>4 DEF ReceiveList, ReceivePartialList
  <2> QED BY <1>3, <1>4, <2>1 DEF ReceiveList, ReceivePartialList
<1>5. CASE DownloadStep
  BY <1>5, DownloadRecalls
<1>6. CASE FinishPoll
  <2>1. poll \in Polls /\ PollKnows(poll) /\ Conclude(poll, TRUE) /\ now' = now
    BY <1>6 DEF FinishPoll, IInv, TypeOK, PollInv
  <2> QED BY <2>1, ConcludeRecalls
<1>7. CASE LocalStoragePass \/ CleanRestart \/ AuthFatal \/ Crash
           \/ \E c \in Clips : MergeDownloaded(c)
  BY <1>7, SaveRecalls
<1> QED
  BY <1>1, <1>2, <1>4, <1>5, <1>6, <1>7 DEF Next, PollStep

(* The second invariant holds of every reachable state as well.            *)
THEOREM FailureInvariance == Spec => []FailureInv
<1>1. Init => FailureInv
  BY DEF Init, FailureInv, FailuresOnDisk, Recalls, HasGivenUp, EmptyTracker,
         NoFailure, IdlePoll, None
<1> QED BY <1>1, FailureStepInv, Invariance, PTL DEF Spec

(* A crash forgets no failure, but of a clip that has been downloaded      *)
(* since (tracker.py:177-202).                                             *)
THEOREM FailuresSaved == Spec => []FailuresOnDisk
<1>1. FailureInv => FailuresOnDisk
  BY DEF FailureInv
<1> QED BY <1>1, FailureInvariance, PTL

(* A clip given up on stays given up on, through failures of others, saves *)
(* and crashes, until its record is past its TTL (tracker.py:36-39).       *)
THEOREM GivenUpRemembered == Spec => []GiveUpRemembered
<1>1. FailureInv => GiveUpRemembered
  BY DEF FailureInv, Recalls, GiveUpRemembered
<1> QED BY <1>1, FailureInvariance, PTL
=============================================================================
