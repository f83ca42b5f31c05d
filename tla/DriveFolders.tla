---------------------------- MODULE DriveFolders ----------------------------
(***************************************************************************)
(* The folders backups go to (gdrive_client.py, gdrive_queue.py): an       *)
(* upload resolves <day>/<camera> under the backup folder, creating what   *)
(* is missing and remembering the ids; deleting an archive looks the same  *)
(* path up and trashes what it finds empty, the camera's folder and then   *)
(* the day's.  Each question to Drive is a step of its own.                *)
(***************************************************************************)
EXTENDS Integers, FiniteSets, Sequences

CONSTANTS
    MaxFolders,     \* bound: folders created in Drive
    MaxUploads,     \* bound: clips uploaded
    MaxPrunes,      \* bound: archives deleted
    MaxErrors       \* bound: questions to Drive that fail

Root   == 0
None   == -1
Ids    == 1..MaxFolders
Path   == <<"day", "camera">>       \* the path of every clip of one day
Levels == 1..2

VARIABLES
    folders,    \* Drive: name, parent, trashed, files in it, of each folder
    made,       \* how many folders were created
    cache,      \* _subfolder_cache: the id remembered for each prefix
    up,         \* the queue's upload: where it is, its level and folder
    prune,      \* prune_empty_backup_folders: where it is
    left,       \* what is left of each bound
    excused     \* history: an upload ran while folders were pruned, or the
                \* reply that tells of a trashing was lost

fvars == <<folders, made, cache, up, prune, left, excused>>

NoFolder == [name |-> "none", parent |-> None, trashed |-> FALSE, files |-> 0]
IdleUp   == [pc |-> "idle", level |-> 1, parent |-> Root]
(* target: the level it is to trash, the camera's first; level: how deep   *)
(* its lookup is.                                                          *)
IdlePrune == [pc |-> "idle", target |-> 2, level |-> 1, parent |-> Root]

Init ==
    /\ folders = [i \in Ids |-> NoFolder]
    /\ made = 0
    /\ cache = [l \in Levels |-> None]
    /\ up = IdleUp
    /\ prune = IdlePrune
    /\ left = [upload |-> MaxUploads, prune |-> MaxPrunes, error |-> MaxErrors,
             restart |-> 1]
    /\ excused = FALSE

Spend(kind) == left[kind] > 0 /\ left' = [left EXCEPT ![kind] = @ - 1]

(* A folder whose parent is in the trash is there with it.                 *)
InTrash(i) ==
    folders[i].trashed \/ (folders[i].parent \in Ids /\ folders[folders[i].parent].trashed)

Listed(parent, name) ==
    {i \in 1..made : folders[i].parent = parent /\ folders[i].name = name
                     /\ ~folders[i].trashed}

-----------------------------------------------------------------------------
(* get_or_create_folder_path, for one upload at a time.                    *)
Upload ==
    /\ up.pc = "idle" /\ Spend("upload")
    /\ up' = [IdleUp EXCEPT !.pc = "resolving"]
    /\ excused' = (excused \/ prune.pc # "idle")
    /\ UNCHANGED <<folders, made, cache, prune>>

Deeper(p, id) ==
    IF p.level = 2 THEN [p EXCEPT !.pc = "resolved", !.parent = id]
                   ELSE [p EXCEPT !.level = 2, !.parent = id, !.pc = "resolving"]

FromCache ==
    /\ up.pc = "resolving" /\ cache[up.level] # None
    /\ up' = Deeper(up, cache[up.level])
    /\ UNCHANGED <<folders, made, cache, prune, left, excused>>

(* list_folders answers with nothing, too, when it fails.                  *)
List ==
    /\ up.pc = "resolving" /\ cache[up.level] = None
    /\ \/ /\ \E i \in Listed(up.parent, Path[up.level]) :
               /\ up' = Deeper(up, i)
               /\ cache' = [cache EXCEPT ![up.level] = i]
          /\ UNCHANGED left
       \/ /\ Listed(up.parent, Path[up.level]) = {}
          /\ up' = [up EXCEPT !.pc = "creating"]
          /\ UNCHANGED <<cache, left>>
       \/ /\ Spend("error")
          /\ up' = [up EXCEPT !.pc = "creating"]
          /\ UNCHANGED cache
    /\ UNCHANGED <<folders, made, prune, excused>>

Create ==
    /\ up.pc = "creating"
    /\ \/ /\ made < MaxFolders
          /\ made' = made + 1
          /\ folders' = [folders EXCEPT ![made'] =
                           [name |-> Path[up.level], parent |-> up.parent,
                            trashed |-> FALSE, files |-> 0]]
          /\ cache' = [cache EXCEPT ![up.level] = made']
          /\ up' = Deeper(up, made')
          /\ UNCHANGED left
       \/ /\ Spend("error")
          /\ up' = IdleUp
          /\ UNCHANGED <<made, folders, cache>>
    /\ UNCHANGED <<prune, excused>>

(* upload_file puts the clip where the path led, whatever became of it.    *)
Put ==
    /\ up.pc = "resolved"
    /\ folders' = [folders EXCEPT ![up.parent].files = @ + 1]
    /\ UNCHANGED excused
    /\ up' = IdleUp
    /\ UNCHANGED <<made, cache, prune, left>>

-----------------------------------------------------------------------------
(* Deleting an archive: the clips' files go to the trash first, if Drive   *)
(* does not refuse, then                                                   *)
(* _trash_if_empty for the camera's folder, then for the day's.            *)
DeleteArchive ==
    /\ prune.pc = "idle" /\ left.prune > 0
    /\ \/ /\ folders' = [i \in Ids |-> [folders[i] EXCEPT !.files = 0]]
          /\ Spend("prune")
       \/ /\ left.error > 0
          /\ folders' = folders
          /\ left' = [left EXCEPT !.prune = @ - 1, !.error = @ - 1]
    /\ prune' = [IdlePrune EXCEPT !.pc = "finding"]
    /\ excused' = (excused \/ up.pc # "idle")
    /\ UNCHANGED <<made, cache, up>>

NextTarget(p) ==
    IF p.target = 2 THEN [IdlePrune EXCEPT !.pc = "finding", !.target = 1] ELSE IdlePrune

Find(id) ==
    prune' = IF prune.level < prune.target
             THEN [prune EXCEPT !.level = 2, !.parent = id]
             ELSE [prune EXCEPT !.pc = "checking", !.parent = id]

FindFolder ==
    /\ prune.pc = "finding"
    /\ \/ /\ cache[prune.level] # None
          /\ Find(cache[prune.level])
          /\ UNCHANGED <<cache, left>>
       \/ /\ cache[prune.level] = None
          /\ \E i \in Listed(prune.parent, Path[prune.level]) :
               Find(i) /\ cache' = [cache EXCEPT ![prune.level] = i]
          /\ UNCHANGED left
       \/ /\ cache[prune.level] = None
          /\ \/ Listed(prune.parent, Path[prune.level]) = {} /\ UNCHANGED left
             \/ Spend("error")
          /\ prune' = NextTarget(prune)
          /\ UNCHANGED cache
    /\ UNCHANGED <<folders, made, up, excused>>

Empty(i) ==
    /\ folders[i].files = 0
    /\ \A j \in 1..made : folders[j].parent = i => folders[j].trashed

(* False on any error, "so a failed lookup never reads as empty".          *)
\* Mutant: it does.
EmptyOrFailed(i, failed) == failed \/ Empty(i)

MayGo(i, failed) == ~failed /\ Empty(i)

CheckEmpty ==
    /\ prune.pc = "checking"
    /\ \E failed \in BOOLEAN :
         /\ IF failed THEN Spend("error") ELSE UNCHANGED left
         /\ prune' = IF MayGo(prune.parent, failed)
                     THEN [prune EXCEPT !.pc = "trashing"] ELSE NextTarget(prune)
    /\ UNCHANGED <<folders, made, cache, up, excused>>

Forget(i) == [l \in Levels |-> IF cache[l] = i THEN None ELSE cache[l]]

(* The reply that tells of the trashing is when the path is forgotten.     *)
Trash ==
    /\ prune.pc = "trashing"
    /\ \/ /\ folders' = [folders EXCEPT ![prune.parent].trashed = TRUE]
          /\ prune' = [prune EXCEPT !.pc = "forgetting"]
          /\ UNCHANGED <<left, excused>>
       \/ /\ Spend("error")
          /\ \/ folders' = folders /\ UNCHANGED excused
             \/ /\ folders' = [folders EXCEPT ![prune.parent].trashed = TRUE]
                /\ excused' = TRUE
          /\ prune' = NextTarget(prune)
    /\ UNCHANGED <<made, cache, up>>

ForgetFolder ==
    /\ prune.pc = "forgetting"
    /\ cache' = Forget(prune.parent)
    /\ prune' = NextTarget(prune)
    /\ UNCHANGED <<folders, made, up, left, excused>>

(* A restart forgets the ids, and whatever was under way.                  *)
Restart ==
    /\ Spend("restart")
    /\ up' = IdleUp /\ prune' = IdlePrune
    /\ cache' = [l \in Levels |-> None]
    /\ UNCHANGED <<folders, made, excused>>

Quiet == up.pc = "idle" /\ prune.pc = "idle"
Idle  == Quiet /\ UNCHANGED fvars

Next ==
    \/ Upload \/ FromCache \/ List \/ Create \/ Put
    \/ DeleteArchive \/ FindFolder \/ CheckEmpty \/ Trash \/ ForgetFolder
    \/ Restart \/ Idle

Spec == Init /\ [][Next]_fvars

-----------------------------------------------------------------------------
(* The path memo never leads an upload into the trash, nor does a prune    *)
(* take a backup there, when the two do not run at the same time and no    *)
(* reply is lost: a memo entry goes with its folder.                       *)
CacheOutOfTrash ==
    Quiet /\ ~excused => \A l \in Levels : cache[l] # None => ~InTrash(cache[l])

(* "a folder holding anything the user put there survives, and so does one *)
(* still holding a clip": no backup ends in the trash.                     *)
NoBackupTrashed == \A i \in Ids : folders[i].files > 0 => ~InTrash(i)

(* It holds while uploads and prunes take turns, however many questions    *)
(* to Drive fail.                                                          *)
FilesSurvive == ~excused => NoBackupTrashed

(* One folder for a day and one for a camera in it, across restarts, as    *)
(* long as no list fails: a failed one reads as an empty one.              *)
NoDuplicateFolders ==
    left.error = MaxErrors /\ ~excused =>
        \A i, j \in 1..made :
            folders[i].name = folders[j].name /\ ~InTrash(i) /\ ~InTrash(j) => i = j

-----------------------------------------------------------------------------
(* The inductive invariant.  Days lie in the backup folder and cameras in  *)
(* days; a lookup is at a folder of its level.                             *)
Named(name) == {i \in 1..made : folders[i].name = name}
Found       == {"checking", "trashing", "forgetting"}

Tree ==
    /\ made \in 0..MaxFolders
    /\ folders \in [Ids -> [name : {"none", "day", "camera"}, parent : Ids \cup {Root, None},
                            trashed : BOOLEAN, files : Nat]]
    /\ \A i \in Ids : i > made => folders[i] = NoFolder
    /\ \A i \in 1..made :
          \/ folders[i].name = "day" /\ folders[i].parent = Root
          \/ folders[i].name = "camera" /\ folders[i].parent \in Named("day")

MemoShape ==
    /\ cache \in [Levels -> Ids \cup {None}]
    /\ \A l \in Levels : cache[l] = None \/ cache[l] \in Named(Path[l])

UploadAt ==
    /\ up \in [pc : {"idle", "resolving", "creating", "resolved"}, level : Levels,
               parent : Ids \cup {Root}]
    /\ up.pc \in {"resolving", "creating"} =>
          IF up.level = 1 THEN up.parent = Root ELSE up.parent \in Named("day")
    /\ up.pc = "resolved" => up.parent \in Named("camera")

PruneAt ==
    /\ prune \in [pc : {"idle", "finding"} \cup Found, target : Levels, level : Levels,
                  parent : Ids \cup {Root}]
    /\ prune.pc = "finding" =>
          IF prune.level = 1 THEN prune.parent = Root
                             ELSE prune.target = 2 /\ prune.parent \in Named("day")
    /\ prune.pc \in Found => prune.parent \in Named(Path[prune.target])

Bounds == left \in [upload : Nat, prune : Nat, error : 0..MaxErrors, restart : Nat]

(* While uploads and prunes take turns, the memo is one path, out of the   *)
(* trash but for the folder that is being forgotten, and whoever walks the *)
(* path is where the memo says.                                            *)
MemoIsPath ==
    /\ up.pc = "idle" \/ prune.pc = "idle"
    /\ cache[2] # None => cache[1] # None /\ folders[cache[2]].parent = cache[1]
    /\ \A l \in Levels : cache[l] = None \/ ~InTrash(cache[l])
                         \/ (prune.pc = "forgetting" /\ cache[l] = prune.parent)

UploadFollows ==
    /\ up.pc \in {"resolving", "creating"} /\ up.level = 2 => cache[1] = up.parent
    /\ up.pc = "creating" => cache[up.level] = None
    /\ up.pc = "resolved" => cache[2] = up.parent

PruneFollows ==
    /\ prune.pc = "finding" /\ prune.level = 2 => cache[1] = prune.parent
    /\ prune.pc \in Found => cache[prune.target] = prune.parent
    /\ prune.pc = "trashing" => Empty(prune.parent)
    /\ prune.pc = "forgetting" /\ prune.target = 1 => cache[2] = None

(* What is about to be created is not there, if no question failed.        *)
NothingThere == left.error = MaxErrors /\ up.pc = "creating" => Listed(up.parent, Path[up.level]) = {}

OneOfEach ==
    left.error = MaxErrors =>
        \A i, j \in 1..made :
            folders[i].name = folders[j].name /\ ~InTrash(i) /\ ~InTrash(j) => i = j

InTurn == MemoIsPath /\ UploadFollows /\ PruneFollows /\ NoBackupTrashed /\ NothingThere /\ OneOfEach

IInv ==
    /\ Tree /\ MemoShape /\ UploadAt /\ PruneAt /\ Bounds
    /\ ~excused => InTurn

=============================================================================
