------------------------------- MODULE Archive -------------------------------
(***************************************************************************)
(* Where the videos are: the archiver (archiver.py), which moves old clips *)
(* from the library folder into one ZIP per month, and all that removes    *)
(* files, ZIPs or rows beside it: retention (storage.py), deleting a clip  *)
(* or a whole archive from the web interface (media_server/), and at       *)
(* startup the pruning of rows whose video is gone and the import of files *)
(* that have no row (library_scanner.py).                                  *)
(*                                                                         *)
(* A video, its ZIP member and its row change in different steps: the ZIP  *)
(* is written by a thread while the event loop runs on, the row by the     *)
(* database, the file by the loop.  A ZIP that is being appended to is     *)
(* unreadable until the append ends, for its central directory is          *)
(* overwritten first and written anew last.                                *)
(***************************************************************************)
EXTENDS Integers, FiniteSets

CONSTANTS
    Clips,
    Months,
    MonthOf,        \* the month of each clip, which names its ZIP
    MaxDeletions,   \* bound: requests to delete a whole archive
    MaxErrors,      \* bound: database calls that fail, and appends that
                    \* fail and leave the ZIP unreadable
    MaxCrashes      \* bound: restarts

Nobody == "nobody"      \* no clip in hand
Never  == "never"       \* no month begun

ASSUME ArchiveAssumption ==
    /\ Nobody \notin Clips /\ Never \notin Months
    /\ MonthOf \in [Clips -> Months]
    /\ MaxDeletions \in Nat /\ MaxErrors \in Nat /\ MaxCrashes \in Nat

VARIABLES
    rows,       \* each clip's row: none, plain, or archived
    files,      \* clips with a file in the library folder
    zips,       \* what each month's ZIP holds, when it can be read
    torn,       \* months whose ZIP is left unreadable
    arch,       \* the archiver's run: where it is, its clips, the one in hand
    leaving,    \* clips removed from the folder whose row is yet to be deleted
    deletion,   \* the request to delete a whole archive
    startup,    \* the pruning and the import that run after a start
    budget,     \* what is left of each bound
    removed,    \* history: clips that retention or the user removed
    trashed,    \* history: clips whose ZIP was deleted with them in it
    lost        \* history: clips whose ZIP was torn with them in it, or
                \* deleted while they were being appended to it

history == <<removed, trashed, lost>>
vars    == <<rows, files, zips, torn, arch, leaving, deletion, startup,
             budget, history>>

-----------------------------------------------------------------------------
RowStates == {"none", "plain", "archived"}

ArchPcs == {"idle", "choosing", "forgetting", "writing", "marking", "unlinking"}

(* detached: the ZIP the thread is appending to has been deleted under it. *)
IdleRun == [pc |-> "idle", todo |-> {}, month |-> Never, clip |-> Nobody,
            detached |-> FALSE]

(* What the pruning has still to list and to check, and the members it has *)
(* read; what the import has still to list, and the files without a row.   *)
Unread      == {"unread"}
NothingRead == [m \in Months |-> Unread]
StartupDone == [prune |-> FALSE, unchecked |-> {}, members |-> NothingRead,
                import |-> FALSE, untracked |-> {}]

NoDeletion == [pc |-> "idle", month |-> Never]

Kinds   == {"deletion", "error", "crash"}
Budget0 == [kind \in Kinds |-> CASE kind = "deletion" -> MaxDeletions
                                 [] kind = "error"    -> MaxErrors
                                 [] kind = "crash"    -> MaxCrashes]

Init ==
    /\ rows = [c \in Clips |-> "plain"]
    /\ files = Clips
    /\ zips = [m \in Months |-> {}]
    /\ torn = {}
    /\ arch = IdleRun
    /\ leaving = {}
    /\ deletion = NoDeletion
    /\ startup = StartupDone
    /\ budget = Budget0
    /\ removed = {} /\ trashed = {} /\ lost = {}

Spend(kind) ==
    /\ budget[kind] > 0
    /\ budget' = [budget EXCEPT ![kind] = @ - 1]

SetRow(c, s) == rows' = [rows EXCEPT ![c] = s]

-----------------------------------------------------------------------------
(* The archiver.  Its lock lets one run through at a time.                 *)

(* Any rows not archived yet may be the ones that are old enough by now.   *)
StartRun(old) ==
    /\ arch.pc = "idle"
    /\ old # {} /\ \A c \in old : rows[c] = "plain"
    /\ arch' = [IdleRun EXCEPT !.pc = "choosing", !.todo = old]
    /\ UNCHANGED <<rows, files, zips, torn, leaving, deletion, startup,
                   budget, history>>

\* Mutant: a clip whose file has gone is marked as archived all the same.
MarkTheMissing(c) == IF c \in files THEN "writing" ELSE "marking"

PcFor(c) == IF c \in files THEN "writing" ELSE "forgetting"

(* Month by month.  A month begins by moving an unreadable ZIP aside,      *)
(* which may fail; a clip whose file has gone only loses its row.          *)
NextClip(c) ==
    /\ arch.pc = "choosing"
    /\ c \in arch.todo
    /\ MonthOf[c] = arch.month \/ \A d \in arch.todo : MonthOf[d] # arch.month
    /\ \/ MonthOf[c] # arch.month /\ torn' = torn \ {MonthOf[c]}
       \/ torn' = torn
    /\ arch' = [arch EXCEPT !.pc = PcFor(c), !.todo = @ \ {c},
                            !.month = MonthOf[c], !.clip = c]
    /\ UNCHANGED <<rows, files, zips, leaving, deletion, startup,
                   budget, history>>

Goto(pc) == arch' = [arch EXCEPT !.pc = pc]

\* Mutant: the clip stays in hand.
StillInHand == arch' = [arch EXCEPT !.pc = "choosing", !.detached = FALSE]

(* The clip in hand is done with.                                          *)
NextInRun == arch' = [arch EXCEPT !.pc = "choosing", !.clip = Nobody,
                                  !.detached = FALSE]

EndRun ==
    /\ arch.pc = "choosing" /\ arch.todo = {}
    /\ arch' = IdleRun
    /\ UNCHANGED <<rows, files, zips, torn, leaving, deletion, startup,
                   budget, history>>

Forget ==
    /\ arch.pc = "forgetting"
    /\ SetRow(arch.clip, "none")
    /\ NextInRun
    /\ UNCHANGED <<files, zips, torn, leaving, deletion, startup,
                   budget, history>>

(* Appending to an unreadable ZIP succeeds, and hides what it held.        *)
WriteOk ==
    /\ arch.pc = "writing"
    /\ IF arch.detached
       THEN lost' = lost \cup {arch.clip} /\ UNCHANGED <<zips, torn>>
       ELSE /\ zips' = [zips EXCEPT ![arch.month] = @ \cup {arch.clip}]
            /\ torn' = torn \ {arch.month}
            /\ lost' = lost
    /\ Goto("marking")
    /\ UNCHANGED <<rows, files, leaving, deletion, startup, budget,
                   removed, trashed>>

Tear(m) ==
    /\ zips' = [zips EXCEPT ![m] = {}]
    /\ torn' = torn \cup {m}
    /\ lost' = lost \cup zips[m]

\* Mutant: a failed append is not noticed.
WriteMissed(tears) ==
    /\ arch.pc = "writing"
    /\ Goto("marking")
    /\ UNCHANGED <<rows, files, zips, torn, leaving, deletion, startup,
                   budget, history>>

(* The source has gone; or the disk is full, and the ZIP is left torn.     *)
WriteFails(tears) ==
    /\ arch.pc = "writing"
    /\ IF tears /\ ~arch.detached
       THEN Tear(arch.month) /\ Spend("error")
       ELSE UNCHANGED <<zips, torn, lost, budget>>
    /\ NextInRun
    /\ UNCHANGED <<rows, files, leaving, deletion, startup, removed,
                   trashed>>

Mark ==
    /\ arch.pc = "marking"
    /\ rows' = [rows EXCEPT ![arch.clip] = IF @ = "none" THEN @ ELSE "archived"]
    /\ Goto("unlinking")
    /\ UNCHANGED <<files, zips, torn, leaving, deletion, startup, budget,
                   history>>

Unlink ==
    /\ arch.pc = "unlinking"
    /\ arch.clip \in files
    /\ files' = files \ {arch.clip}
    /\ NextInRun
    /\ UNCHANGED <<rows, zips, torn, leaving, deletion, startup, budget,
                   history>>

UnlinkFails ==
    /\ arch.pc = "unlinking"
    /\ NextInRun
    /\ UNCHANGED <<rows, files, zips, torn, leaving, deletion, startup,
                   budget, history>>

(* A row that could not be written or deleted is left for the next run.    *)
RowWriteFails ==
    /\ arch.pc \in {"forgetting", "marking"}
    /\ Spend("error")
    /\ NextInRun
    /\ UNCHANGED <<rows, files, zips, torn, leaving, deletion, startup,
                   history>>

-----------------------------------------------------------------------------
(* Retention, and the user who deletes a clip: first the file, then the    *)
(* row, found by its path or its id whatever has become of it.             *)

RemoveFile(c) ==
    /\ c \in files
    /\ files' = files \ {c}
    /\ leaving' = leaving \cup {c}
    /\ removed' = removed \cup {c}
    /\ UNCHANGED <<rows, zips, torn, arch, deletion, startup, budget,
                   trashed, lost>>

(* An archived clip, or one whose file cannot be deleted: only the row.    *)
DeleteClip(c) ==
    /\ rows[c] # "none"
    /\ leaving' = leaving \cup {c}
    /\ removed' = removed \cup {c}
    /\ UNCHANGED <<rows, files, zips, torn, arch, deletion, startup,
                   budget, trashed, lost>>

DropRow(c) ==
    /\ c \in leaving
    /\ SetRow(c, "none")
    /\ leaving' = leaving \ {c}
    /\ UNCHANGED <<files, zips, torn, arch, deletion, startup, budget,
                   history>>

(* A failure among retention's rows leaves the later ones as well.         *)
DropFails(S) ==
    /\ S # {}
    /\ Spend("error")
    /\ leaving' = leaving \ S
    /\ UNCHANGED <<rows, files, zips, torn, arch, deletion, startup,
                   history>>

-----------------------------------------------------------------------------
(* Deleting a whole archive: list its clips, trash their backups, then the *)
(* ZIP, then the rows.                                                     *)

InArchive(m) == {c \in Clips : rows[c] = "archived" /\ MonthOf[c] = m}

StartDeletion(m) ==
    /\ deletion.pc = "idle"
    /\ InArchive(m) # {}
    /\ Spend("deletion")
    /\ deletion' = [pc |-> "trashing", month |-> m]
    /\ UNCHANGED <<rows, files, zips, torn, arch, leaving, startup,
                   history>>

(* A thread in the middle of an append goes on with the deleted file, or   *)
(* opens a new one if it had not begun.                                    *)
UnlinkZip ==
    LET m == deletion.month IN
    /\ deletion.pc = "trashing"
    /\ zips' = [zips EXCEPT ![m] = {}]
    /\ torn' = torn \ {m}
    /\ trashed' = trashed \cup zips[m]
    /\ deletion' = [deletion EXCEPT !.pc = "dropping"]
    /\ \/ arch' = arch
       \/ /\ arch.pc = "writing" /\ arch.month = m
          /\ arch' = [arch EXCEPT !.detached = TRUE]
    /\ UNCHANGED <<rows, files, leaving, startup, budget, removed, lost>>

UnlinkZipFails ==
    /\ deletion.pc = "trashing"
    /\ deletion' = [deletion EXCEPT !.pc = "dropping"]
    /\ UNCHANGED <<rows, files, zips, torn, arch, leaving, startup,
                   budget, history>>

DropArchivedRows ==
    /\ deletion.pc = "dropping"
    /\ rows' = [c \in Clips |-> IF c \in InArchive(deletion.month) THEN "none"
                                ELSE rows[c]]
    /\ deletion' = NoDeletion
    /\ UNCHANGED <<files, zips, torn, arch, leaving, startup, budget,
                   history>>

DropArchivedFails ==
    /\ deletion.pc = "dropping"
    /\ Spend("error")
    /\ deletion' = NoDeletion
    /\ UNCHANGED <<rows, files, zips, torn, arch, leaving, startup,
                   history>>

-----------------------------------------------------------------------------
(* The process dies; an append under way may leave the ZIP torn.           *)
Crash ==
    /\ Spend("crash")
    /\ \/ /\ arch.pc = "writing" /\ ~arch.detached
          /\ Tear(arch.month)
       \/ UNCHANGED <<zips, torn, lost>>
    /\ arch' = IdleRun
    /\ leaving' = {}
    /\ deletion' = NoDeletion
    /\ startup' = [StartupDone EXCEPT !.prune = TRUE, !.import = TRUE]
    /\ UNCHANGED <<rows, files, removed, trashed>>

(* The pruning, a task of its own: it lists the archived rows, reads each  *)
(* ZIP once, and deletes the rows it does not find.                        *)
ListArchived ==
    /\ startup.prune
    /\ startup' = [startup EXCEPT
                      !.prune = FALSE,
                      !.unchecked = {c \in Clips : rows[c] = "archived"}]
    /\ UNCHANGED <<rows, files, zips, torn, arch, leaving, deletion,
                   budget, history>>

Appending(m) == arch.pc = "writing" /\ arch.month = m /\ ~arch.detached

(* In the middle of an append the ZIP may be unreadable.                   *)
ReadZip(m) ==
    /\ \E c \in startup.unchecked : MonthOf[c] = m
    /\ startup.members[m] = Unread
    /\ \/ startup' = [startup EXCEPT !.members[m] = zips[m]]
       \/ Appending(m) /\ startup' = [startup EXCEPT !.members[m] = {}]
    /\ UNCHANGED <<rows, files, zips, torn, arch, leaving, deletion,
                   budget, history>>

Exists(m) == zips[m] # {} \/ m \in torn

Finds(c) == c \in startup.members[MonthOf[c]]

Check(c) == /\ c \in startup.unchecked
            /\ startup.members[MonthOf[c]] # Unread
            /\ startup' = IF startup.unchecked = {c}
                          THEN [startup EXCEPT !.unchecked = {},
                                               !.members = NothingRead]
                          ELSE [startup EXCEPT !.unchecked = @ \ {c}]

(* A row that could not be deleted is spared as well.                      *)
Spare(c) ==
    /\ Check(c)
    /\ IF Finds(c) /\ Exists(MonthOf[c]) THEN UNCHANGED budget ELSE Spend("error")
    /\ UNCHANGED <<rows, files, zips, torn, arch, leaving, deletion,
                   history>>

Prune(c) ==
    /\ Check(c)
    /\ ~Finds(c) \/ ~Exists(MonthOf[c])
    /\ SetRow(c, "none")
    /\ UNCHANGED <<files, zips, torn, arch, leaving, deletion, budget,
                   history>>

ListFiles ==
    /\ startup.import
    /\ startup' = [startup EXCEPT
                      !.import = FALSE,
                      !.untracked = {c \in files : rows[c] = "none"}]
    /\ UNCHANGED <<rows, files, zips, torn, arch, leaving, deletion,
                   budget, history>>

(* A file that goes while its length is probed still gets a row; one that  *)
(* has gone before does not.  The new row has an id that a run or a check  *)
(* under way does not know; rows have no ids here, so the import waits.    *)
Import(c) ==
    /\ c \in startup.untracked
    /\ c \notin arch.todo \cup {arch.clip} \cup startup.unchecked
    /\ startup' = [startup EXCEPT !.untracked = @ \ {c}]
    /\ SetRow(c, "plain") \/ (c \notin files /\ UNCHANGED rows)
    /\ UNCHANGED <<files, zips, torn, arch, leaving, deletion, budget,
                   history>>

ImportFails ==
    /\ startup.untracked # {}
    /\ Spend("error")
    /\ startup' = [startup EXCEPT !.untracked = {}]
    /\ UNCHANGED <<rows, files, zips, torn, arch, leaving, deletion,
                   history>>

-----------------------------------------------------------------------------
ArchiverStep ==
    \/ \E old \in SUBSET Clips : StartRun(old)
    \/ \E c \in Clips : NextClip(c)
    \/ Forget
    \/ WriteOk \/ (\E tears \in BOOLEAN : WriteFails(tears))
    \/ Mark \/ Unlink \/ UnlinkFails \/ RowWriteFails
    \/ EndRun

RemovalStep ==
    \/ \E c \in Clips : RemoveFile(c) \/ DeleteClip(c) \/ DropRow(c)
    \/ \E S \in SUBSET leaving : DropFails(S)

DeletionStep ==
    \/ \E m \in Months : StartDeletion(m)
    \/ UnlinkZip \/ UnlinkZipFails \/ DropArchivedRows \/ DropArchivedFails

StartupStep ==
    \/ ListArchived \/ (\E m \in Months : ReadZip(m))
    \/ \E c \in Clips : Spare(c) \/ Prune(c) \/ Import(c)
    \/ ListFiles \/ ImportFails

Next ==
    \/ ArchiverStep \/ RemovalStep \/ DeletionStep
    \/ Crash \/ StartupStep

Spec == Init /\ [][Next]_vars

-----------------------------------------------------------------------------
(* Type correctness; a clip is in hand exactly when the run is at one.     *)
TypeOK ==
    /\ rows \in [Clips -> RowStates]
    /\ files \subseteq Clips
    /\ zips \in [Months -> SUBSET Clips]
    /\ torn \subseteq Months
    /\ arch \in [pc : ArchPcs, todo : SUBSET Clips, month : Months \cup {Never},
                 clip : Clips \cup {Nobody}, detached : BOOLEAN]
    /\ arch.pc \in {"idle", "choosing"} <=> arch.clip = Nobody
    /\ leaving \subseteq Clips
    /\ deletion \in [pc : {"idle", "trashing", "dropping"},
                     month : Months \cup {Never}]
    /\ startup \in [prune : BOOLEAN, unchecked : SUBSET Clips,
                    members : [Months -> (SUBSET Clips) \cup {Unread}],
                    import : BOOLEAN, untracked : SUBSET Clips]
    /\ budget \in [Kinds -> Nat]
    /\ removed \subseteq Clips /\ trashed \subseteq Clips
    /\ lost \subseteq Clips

Stored(c) == c \in zips[MonthOf[c]] \cup trashed \cup lost

(* No video is lost on the way from the folder into its ZIP, whatever      *)
(* fails or interferes: it is in one of them unless someone removed it, or *)
(* its ZIP was deleted, or torn with it inside.                            *)
VideoKept == \A c \in Clips : c \in files \cup removed \/ Stored(c)

(* A row that says archived had its video put in the ZIP it names          *)
(* (archiver.py:203: marking a clip that was never written was a bug).     *)
ArchivedInZip == \A c \in Clips : rows[c] = "archived" => Stored(c)

(* Violated: pruning never deletes valid data (archiver.py:181), that is a *)
(* row whose clip is in its ZIP.                                           *)
PruneSparesValid ==
    [][\A c \in startup.unchecked \ startup'.unchecked :
           rows'[c] = "none" => c \notin zips[MonthOf[c]]]_vars
===============================================================================
