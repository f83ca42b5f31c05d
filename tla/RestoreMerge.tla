---------------------------- MODULE RestoreMerge ----------------------------
(***************************************************************************)
(* Restoring a backup into a library that is in use (backup/restore.py,    *)
(* database/backup.py).  One transaction, at PostgreSQL's default level,   *)
(* merges the clips batch by batch and then what belongs to them; every    *)
(* statement sees what others committed by then.  The downloader, the      *)
(* library scan and the user go on meanwhile.                              *)
(***************************************************************************)
EXTENDS Integers, FiniteSets

CONSTANTS
    BackupClips,    \* how many clips the backup has
    BatchSize,      \* how many of them are read at a time
    Paths,          \* the files that a clip may be the record of
    Analysed        \* the clips of the backup that were analysed

BackupIds == 1..BackupClips

Scan == BackupClips + 1     \* the stand-in that the library scan made of a file's name
Own  == BackupClips + 2     \* a clip the downloader saved here
Ids  == BackupIds \cup {Scan, Own}

(* Batches come in the order of their ids.  The analyses of the backup     *)
(* carry the numbers of the install that made it (each that of its clip),  *)
(* which were given to other analyses here; feedback refers to its clip's  *)
(* analysis, or to none (0).                                               *)
Batch(k)      == {i \in BackupIds : (k - 1) * BatchSize < i /\ i <= k * BatchSize}
AnalysisOf(i) == IF i \in Analysed THEN i ELSE 0

VARIABLES
    files,      \* the backup: whose record each of its clips is
    clips,      \* the committed rows: absent, or path, origin, mark
    kids,       \* the analyses and feedback of clips, as committed
    next,       \* the next number of an analysis here
    txn,        \* the restore: where it is and what it has not committed
    startled,   \* history: stand-ins marked after the restore claimed them
    raced       \* history: a record of a claimed file was saved meanwhile

mvars == <<files, clips, kids, next, txn, startled, raced>>

-----------------------------------------------------------------------------
Absent          == [path |-> "none", by |-> "nobody", marked |-> FALSE]
Row(path, who)  == [path |-> path, by |-> who, marked |-> FALSE]
Present(db)     == {i \in Ids : db[i] # Absent}
At(db, path)    == {i \in Ids : db[i].path = path}

(* A stand-in to which nothing was added: no star, no tag, no analysis.    *)
Replaceable(db, i) == i = Scan /\ ~db[i].marked

NoTxn == [pc |-> "idle", batch |-> 1, unseen |-> {}, wanted |-> {},
          standins |-> {}, removed |-> {}, claimed |-> {}, added |-> {},
          number |-> [a \in BackupIds |-> 0], kids |-> {}]

(* Any files in the backup; here some of its clips, one of our own, a      *)
(* stand-in, but no two of one file.                                       *)
Init ==
    /\ files \in [BackupIds -> Paths]
    /\ clips \in {db \in [Ids -> {Absent} \cup {Row(p, "here") : p \in Paths}] :
                    /\ \A i \in BackupIds : db[i].path \in {"none", files[i]}
                    /\ \A p \in Paths : Cardinality(At(db, p)) <= 1}
    /\ kids = {} /\ next = 2
    /\ txn = NoTxn
    /\ startled = {} /\ raced = FALSE

(* What the transaction sees: what others committed and what it did.       *)
Seen == [i \in Ids |-> IF i \in txn.added THEN Row(files[i], "backup")
                       ELSE IF i \in txn.removed THEN Absent ELSE clips[i]]

Begin ==
    /\ txn.pc = "idle"
    /\ txn' = [txn EXCEPT !.pc = "unseen"]
    /\ UNCHANGED <<files, clips, kids, next, startled, raced>>

Unseen ==
    /\ txn.pc = "unseen"
    /\ txn' = [txn EXCEPT !.pc = "claim",
                          !.unseen = Batch(txn.batch) \ Present(Seen)]
    /\ UNCHANGED <<files, clips, kids, next, startled, raced>>

(* A clip is wanted unless its file has a record here, or an earlier clip  *)
(* of the backup claimed it.                                               *)
Wanted(i) ==
    /\ files[i] \notin txn.claimed
    /\ \A j \in txn.unseen : j < i => files[j] # files[i]
    /\ \A h \in At(Seen, files[i]) : Replaceable(Seen, h)

Claim ==
    /\ txn.pc = "claim"
    /\ LET wanted == {i \in txn.unseen : Wanted(i)}
           paths  == {files[i] : i \in wanted} IN
       txn' = [txn EXCEPT !.pc = "store", !.wanted = wanted,
                          !.claimed = @ \cup paths,
                          !.standins = UNION {At(Seen, p) : p \in paths}]
    /\ UNCHANGED <<files, clips, kids, next, startled, raced>>

\* Mutant: a record saved since the look is taken for one that was added.
AllWanted == txn.wanted

(* INSERT ... ON CONFLICT (id) DO NOTHING RETURNING id                      *)
Inserted == {i \in txn.wanted : clips[i] = Absent}

Store ==
    /\ txn.pc = "store"
    /\ txn' = [txn EXCEPT !.removed = @ \cup (txn.standins \cap Present(clips)),
                          !.added = @ \cup Inserted,
                          !.batch = @ + 1,
                          !.pc = IF txn.batch * BatchSize < BackupClips
                                     THEN "unseen" ELSE "children"]
    /\ UNCHANGED <<files, clips, kids, next, startled, raced>>

(* Analyses get new numbers, one after the other; feedback follows them.   *)
Restored      == Analysed \cap txn.added
NewNumber(a)  == next + Cardinality({b \in Restored : b < a})
Renumbered(a) == IF a = 0 THEN 0 ELSE txn.number[a]

Analyses ==
    /\ txn.pc = "children"
    /\ next' = next + Cardinality(Restored)
    /\ txn' = [txn EXCEPT
         !.pc = "feedback",
         !.number = [a \in BackupIds |-> IF a \in Restored THEN NewNumber(a) ELSE 0],
         !.kids = {[clip |-> a, is |-> "analysis", analysis |-> NewNumber(a)] : a \in Restored}]
    /\ UNCHANGED <<files, clips, kids, startled, raced>>

Feedback ==
    /\ txn.pc = "feedback"
    /\ txn' = [txn EXCEPT !.pc = "commit", !.kids = @ \cup
          {[clip |-> i, is |-> "feedback", analysis |-> Renumbered(AnalysisOf(i))] : i \in txn.added}]
    /\ UNCHANGED <<files, clips, kids, next, startled, raced>>

Commit ==
    /\ txn.pc = "commit"
    /\ clips' = Seen
    /\ kids' = {k \in kids : k.clip \notin txn.removed} \cup txn.kids
    /\ txn' = [NoTxn EXCEPT !.pc = "done"]
    /\ UNCHANGED <<files, next, startled, raced>>

(* A record that cannot be used, a file that is gone, a database error: the*)
(* transaction is rolled back.  Numbers of analyses are not given back.    *)
Abort ==
    /\ txn.pc \in {"unseen", "claim", "store", "children", "feedback", "commit"}
    /\ txn' = [NoTxn EXCEPT !.pc = "done"]
    /\ UNCHANGED <<files, clips, kids, next, startled, raced>>

-----------------------------------------------------------------------------
(* Everyone else.  A row that the transaction wrote is locked until its    *)
(* end: who inserts the same id, or updates a deleted row, waits.          *)
Active   == txn.pc \in {"claim", "store", "unseen", "children", "feedback", "commit"}
Note(path) == raced' = (raced \/ (Active /\ path \in txn.claimed))

(* The downloader saves one of the clips that the backup has too.          *)
Download(i) ==
    /\ clips[i] = Absent /\ At(clips, files[i]) = {}
    /\ ~(Active /\ i \in txn.added)
    /\ clips' = [clips EXCEPT ![i] = Row(files[i], "here")]
    /\ Note(files[i])
    /\ UNCHANGED <<files, kids, next, txn, startled>>

(* The scan finds a file that no record it sees is about.                  *)
ScanFile(path) ==
    /\ At(clips, path) = {} /\ clips[Scan] = Absent
    /\ clips' = [clips EXCEPT ![Scan] = Row(path, "here")]
    /\ Note(path)
    /\ UNCHANGED <<files, kids, next, txn, startled>>

(* The user stars or tags a stand-in.                                      *)
Mark ==
    /\ clips[Scan] # Absent /\ ~clips[Scan].marked
    /\ ~(Active /\ Scan \in txn.removed)
    /\ clips' = [clips EXCEPT ![Scan].marked = TRUE]
    /\ startled' = IF Active /\ Scan \in txn.standins THEN {Scan} ELSE startled
    /\ UNCHANGED <<files, kids, next, txn, raced>>

Cascade(i) == {k \in kids : k.clip # i}

(* The user deletes a clip; what belongs to it goes with it.               *)
Delete(i) ==
    /\ clips[i] # Absent /\ ~(Active /\ i \in txn.removed)
    /\ clips' = [clips EXCEPT ![i] = Absent]
    /\ kids' = Cascade(i)
    /\ UNCHANGED <<files, next, txn, startled, raced>>

Settled == txn.pc = "done" /\ UNCHANGED mvars

Next ==
    \/ Begin \/ Unseen \/ Claim \/ Store \/ Analyses \/ Feedback
    \/ Commit \/ Abort
    \/ \E i \in BackupIds : Download(i)
    \/ Mark \/ \E p \in Paths : ScanFile(p)
    \/ \E i \in Ids : Delete(i)
    \/ Settled

Spec == Init /\ [][Next]_mvars

-----------------------------------------------------------------------------
(* What belongs to a clip has its clip, and an analysis one number.        *)
MergeTypeOK ==
    /\ \A k \in kids : clips[k.clip] # Absent
    /\ \A i \in Ids : clips[i] # Absent => clips[i].path \in Paths
    /\ \A j, k \in kids :
         j.is = "analysis" /\ k.is = "analysis" /\ j.clip # k.clip =>
            j.analysis # k.analysis

(* "A clip whose id is already here is left exactly as it is": a restore   *)
(* changes no record it finds, also none that was saved while it ran, but  *)
(* for stand-ins to which nothing had been added when it looked.           *)
ChangesNothingHere ==
    Commit => \A i \in Present(clips) :
      ~Replaceable(clips, i) /\ i \notin startled => clips'[i] = clips[i]

(* The library does not list one video twice, unless somebody saved its    *)
(* record between the restore's look and its commit.                       *)
OneRecordPerFile ==
    ~raced => \A p \in Paths : Cardinality(At(clips, p)) <= 1

(* Restored analyses and feedback belong to restored clips, never to the   *)
(* record that the downloader made of the same clip, and feedback is about *)
(* an analysis of its own clip.                                            *)
ChildrenFollow ==
    \A k \in kids :
        /\ clips[k.clip].by = "backup"
        /\ k.is = "feedback" /\ k.analysis # 0 =>
             [clip |-> k.clip, is |-> "analysis", analysis |-> k.analysis] \in kids

(* What these rest on.  Nothing is known of a merge before it begins and   *)
(* after it ends; what it added has no committed row, what it removed is a *)
(* stand-in that nothing was added to when it was claimed.                 *)
MergeShape ==
    /\ files \in [BackupIds -> Paths]
    /\ clips \in [Ids -> [path : Paths \cup {"none"}, by : {"nobody", "here", "backup"},
                         marked : BOOLEAN]]
    /\ \A k \in kids : k.clip \in BackupIds
    /\ next \in Nat /\ startled \subseteq {Scan}
    /\ DOMAIN txn = DOMAIN NoTxn
    /\ txn.pc \in {"idle", "unseen", "claim", "store", "children", "feedback", "commit", "done"}
    /\ txn.unseen \subseteq BackupIds /\ txn.wanted \subseteq BackupIds
    /\ txn.added \subseteq BackupIds /\ txn.claimed \subseteq Paths
    /\ txn.standins \subseteq {Scan} /\ txn.removed \subseteq {Scan}

OnlyWhileActive ==
    ~Active => /\ txn.added = {} /\ txn.removed = {} /\ txn.standins = {}
               /\ txn.claimed = {} /\ txn.kids = {}

OwnAreNew ==
    /\ txn.added \cap Present(clips) = {} /\ txn.removed \subseteq Present(clips)
    /\ \A i \in txn.added : files[i] \in txn.claimed

MarkedWereClaimed ==
    \A i \in (txn.standins \cup txn.removed) \cap Present(clips) :
        clips[i].marked => i \in startled

(* One record of each file, committed and as the restore sees it; a clip   *)
(* that is about to be stored finds none but the stand-ins it replaces.    *)
OneHolder ==
    ~raced => \A p \in Paths :
        /\ \A g, h \in At(clips, p) : g = h
        /\ \A g, h \in At(Seen, p) : g = h

StoredAlone ==
    txn.pc = "store" =>
        /\ \A i, j \in txn.wanted : files[i] = files[j] => i = j
        /\ \A i \in txn.wanted : files[i] \in txn.claimed
        /\ ~raced => \A i \in txn.wanted : At(Seen, files[i]) \subseteq txn.standins

(* What is to be committed for the clips that were added.                  *)
KidsOfAdded ==
    /\ txn.pc \in {"feedback", "commit"} \/ txn.kids = {}
    /\ \A k \in txn.kids : k.clip \in txn.added
    /\ \A j, k \in txn.kids :
         j.is = "analysis" /\ k.is = "analysis" /\ j.clip # k.clip => j.analysis # k.analysis
    /\ txn.pc = "feedback" =>
         /\ \A k \in txn.kids : k.is = "analysis"
         /\ \A i \in Analysed : txn.number[i] # 0 =>
              [clip |-> i, is |-> "analysis", analysis |-> txn.number[i]] \in txn.kids
    /\ \A k \in txn.kids : k.is = "feedback" /\ k.analysis # 0 =>
         [clip |-> k.clip, is |-> "analysis", analysis |-> k.analysis] \in txn.kids

KidsAreCommitted == txn.pc # "done" => kids = {}

IInv ==
    /\ MergeShape /\ MergeTypeOK /\ ChildrenFollow /\ OnlyWhileActive /\ OwnAreNew
    /\ MarkedWereClaimed /\ OneHolder /\ StoredAlone /\ KidsOfAdded /\ KidsAreCommitted

=============================================================================
