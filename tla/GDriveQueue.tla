------------------------------ MODULE GDriveQueue ------------------------------
(***************************************************************************)
(* The Google Drive upload queue: the gdrive_upload_queue table            *)
(* (database/queues.py), the worker that drains it (gdrive_queue.py), the  *)
(* Drive client whose connection, pause and two flags it decides by        *)
(* (gdrive_client.py), and the Storage tab's handlers that change the same *)
(* table and client meanwhile (media_server/storage.py).                   *)
(*                                                                         *)
(* Every step ends where the code awaits.  The client's flags belong to    *)
(* all its callers: any call may raise rateLimited, an upload clears both  *)
(* as it starts, and the worker reads them twice, when an upload has       *)
(* failed and when it is done with the clip.                               *)
(***************************************************************************)
EXTENDS Integers, Sequences, TLC

CONSTANTS
    Clips,          \* the clips of the library
    BatchSize,      \* gdrive_batch_size
    MaxDriveFaults, \* bound: replies of Drive that say "too many requests"
                    \* or "quota exceeded", or that are lost
    MaxDbErrors,    \* bound: failed database calls
    MaxCrashes      \* bound: restarts

ASSUME GDriveQueueAssumption ==
    /\ BatchSize \in Nat \ {0}
    /\ MaxDriveFaults \in Nat
    /\ MaxDbErrors \in Nat /\ MaxCrashes \in Nat

VARIABLES
    library,    \* clips with a row in the clips table
    rows,       \* the status of each clip's row in gdrive_upload_queue
    before,     \* queued_at: <<c, d>> when c was queued before d
    place,      \* where the clip's video is
    uploaded,   \* clips with a gdrive_file_id
    client,     \* the Drive client
    hold,       \* the queue's timed hold-off is running
    worker,     \* the worker: where it is, its batch, the source it resolved
    budget,     \* what is left of each bound
    copies,     \* history: how often Drive stored each clip
    blame       \* history: why the worker's last attempt at each clip failed

table   == <<library, rows, before, place>>
history == <<copies, blame>>
vars    == <<table, uploaded, client, hold, worker, budget, history>>

-----------------------------------------------------------------------------
Statuses == {"none", "pending", "processing", "completed", "failed"}
Places   == {"file", "zip", "nowhere"}
Pauses   == {"no", "user", "quota"}

Pcs == {"idle", "next", "fetching", "locating", "resolving", "starting",
        "sending", "marking", "completing", "requeueing", "recording",
        "failing", "checking"}

(* "limited": Drive refused the upload; "lookup": it refused the lookup of *)
(* the folder the upload was for.                                          *)
Blames == {"none", "limited", "lookup", "error"}

Kinds   == {"drive", "db", "crash"}
Budget0 == [kind \in Kinds |-> CASE kind = "drive" -> MaxDriveFaults
                                 [] kind = "db"    -> MaxDbErrors
                                 [] kind = "crash" -> MaxCrashes]

Idle == [pc |-> "idle", batch |-> <<>>, source |-> "nowhere"]
Clip == Head(worker.batch)

Init ==
    /\ library = Clips
    /\ rows = [c \in Clips |-> "none"]
    /\ before = {}
    /\ place = [c \in Clips |-> "file"]
    /\ uploaded = {}
    /\ client = [connected |-> FALSE, paused |-> "no",
                 rateLimited |-> FALSE, quota |-> FALSE]
    /\ hold = FALSE
    /\ worker = Idle
    /\ budget = Budget0
    /\ copies = [c \in Clips |-> 0]
    /\ blame = [c \in Clips |-> "none"]

Spend(kind) ==
    /\ budget[kind] > 0
    /\ budget' = [budget EXCEPT ![kind] = @ - 1]

-----------------------------------------------------------------------------
(* The library, as far as the queue sees it.                               *)

(* The archiver moves the video into its month's ZIP.                      *)
Archive(c) ==
    /\ c \in library
    /\ place[c] = "file"
    /\ place' = [place EXCEPT ![c] = "zip"]
    /\ UNCHANGED <<library, rows, before, uploaded, client, hold, worker,
                   budget, history>>

(* A deleted clip takes its row along, and its backup is trashed.          *)
DeleteClip(c) ==
    /\ c \in library
    /\ library' = library \ {c}
    /\ rows' = [rows EXCEPT ![c] = "none"]
    /\ before' = {p \in before : p[1] # c /\ p[2] # c}
    /\ place' = [place EXCEPT ![c] = "nowhere"]
    /\ uploaded' = uploaded \ {c}
    /\ UNCHANGED <<client, hold, worker, budget, history>>

-----------------------------------------------------------------------------
(* The table.                                                              *)

UpdateStatus(c, s) == rows' = [rows EXCEPT ![c] = IF @ = "none" THEN @ ELSE s]

(* Rows given a new queued_at go behind all the others.                    *)
QueueLast(S) ==
    before' = {p \in before : p[1] \notin S /\ p[2] \notin S}
              \cup {p \in (Clips \ S) \X S : rows[p[1]] # "none"}

\* Mutant: the conflict clause resets a completed row as well.
EnqueueAgain(c) ==
    /\ c \in library
    /\ rows[c] \in {"none", "failed", "completed"}
    /\ rows' = [rows EXCEPT ![c] = "pending"]
    /\ QueueLast({c})
    /\ UNCHANGED <<library, place, uploaded, client, hold, worker,
                   budget, history>>

(* A new row, or a failed one put back; any other is left alone.           *)
Enqueue(c) ==
    /\ c \in library
    /\ rows[c] \in {"none", "failed"}
    /\ rows' = [rows EXCEPT ![c] = "pending"]
    /\ QueueLast({c})
    /\ UNCHANGED <<library, place, uploaded, client, hold, worker,
                   budget, history>>

Failed == {c \in Clips : rows[c] = "failed"}

(* Retry, of one clip or of all: any hold-off ends, even with none failed. *)
Retry(S) ==
    /\ rows' = [c \in Clips |-> IF c \in S THEN "pending" ELSE rows[c]]
    /\ QueueLast(S)
    /\ hold' = FALSE
    /\ UNCHANGED <<library, place, uploaded, client, worker, budget,
                   history>>

ClearFailed(S) ==
    /\ rows' = [c \in Clips |-> IF c \in S THEN "none" ELSE rows[c]]
    /\ before' = {p \in before : p[1] \notin S /\ p[2] \notin S}
    /\ UNCHANGED <<library, place, uploaded, client, hold, worker,
                   budget, history>>

-----------------------------------------------------------------------------
(* The client, as its other callers change it.                             *)

Connect ==
    /\ ~client.connected
    /\ client' = [client EXCEPT !.connected = TRUE]
    /\ UNCHANGED <<table, uploaded, hold, worker, budget, history>>

(* Disconnected by hand, or by a refresh token that was revoked.           *)
Disconnect ==
    /\ client.connected
    /\ client' = [client EXCEPT !.connected = FALSE]
    /\ UNCHANGED <<table, uploaded, hold, worker, budget, history>>

Pause ==
    /\ client' = [client EXCEPT !.paused = "user"]
    /\ UNCHANGED <<table, uploaded, hold, worker, budget, history>>

Resume ==
    /\ client' = [client EXCEPT !.paused = "no"]
    /\ hold' = FALSE
    /\ UNCHANGED <<table, uploaded, worker, budget, history>>

(* Drive turns away a folder listing or a deletion of someone else's.      *)
OtherCallLimited ==
    /\ client.connected
    /\ Spend("drive")
    /\ client' = [client EXCEPT !.rateLimited = TRUE]
    /\ UNCHANGED <<table, uploaded, hold, worker, history>>

(* A backup of the library starts its own upload.                          *)
OtherUploadStarts ==
    /\ client' = [client EXCEPT !.rateLimited = FALSE, !.quota = FALSE]
    /\ UNCHANGED <<table, uploaded, hold, worker, budget, history>>

HoldOffEnds ==
    /\ hold
    /\ hold' = FALSE
    /\ UNCHANGED <<table, uploaded, client, worker, budget, history>>

-----------------------------------------------------------------------------
(* The worker's loop.                                                      *)

Pending == {c \in Clips : rows[c] = "pending"}

(* The oldest pending clips, at most BatchSize of them, oldest first.      *)
OldestPending ==
    {b \in UNION {[1 .. n -> Pending] : n \in 1 .. BatchSize} :
        /\ \A i, j \in DOMAIN b :
              i < j => b[i] # b[j] /\ <<b[j], b[i]>> \notin before
        /\ \A c \in Pending :
              \/ \E i \in DOMAIN b : b[i] = c
              \/ /\ Len(b) = BatchSize
                 /\ \A i \in DOMAIN b : <<c, b[i]>> \notin before}

StartBatch ==
    /\ worker.pc = "idle"
    /\ client.connected /\ client.paused = "no" /\ ~hold
    /\ \E b \in OldestPending :
         worker' = [Idle EXCEPT !.pc = "next", !.batch = b]
    /\ UNCHANGED <<table, uploaded, client, hold, budget, history>>

Goto(pc) == worker' = [worker EXCEPT !.pc = pc]

Blame(why) == blame' = [blame EXCEPT ![Clip] = why]

TakeItem ==
    /\ worker.pc = "next"
    /\ UpdateStatus(Clip, "processing")
    /\ Goto("fetching")
    /\ Blame("none")
    /\ UNCHANGED <<library, before, place, uploaded, client, hold,
                   budget, copies>>

(* The clip as it is now, not as it was queued.                            *)
FetchClip ==
    /\ worker.pc = "fetching"
    /\ Clip \in library
    /\ worker' = [worker EXCEPT !.pc = "locating", !.source = place[Clip]]
    /\ UNCHANGED <<table, uploaded, client, hold, budget, history>>

ClipDeleted ==
    /\ worker.pc = "fetching"
    /\ Clip \notin library
    /\ Goto("failing")
    /\ Blame("error")
    /\ UNCHANGED <<table, uploaded, client, hold, budget, copies>>

(* A video that is not where the clip's row had it cannot be uploaded.     *)
Locate ==
    /\ worker.pc = "locating"
    /\ IF worker.source # "nowhere" /\ place[Clip] = worker.source
       THEN Goto("resolving") /\ UNCHANGED blame
       ELSE Goto("failing") /\ Blame("error")
    /\ UNCHANGED <<table, uploaded, client, hold, budget, copies>>

(* The folder is known, found, or created.                                 *)
Resolve ==
    /\ worker.pc = "resolving"
    /\ Goto("starting")
    /\ UNCHANGED <<table, uploaded, client, hold, budget, history>>

(* A listing that is refused counts as an empty one, so the folder is      *)
(* created; or that is refused too.                                        *)
ResolveLimited(created) ==
    /\ worker.pc = "resolving"
    /\ client.connected
    /\ Spend("drive")
    /\ client' = [client EXCEPT !.rateLimited = TRUE]
    /\ IF created THEN Goto("starting") /\ UNCHANGED blame
                  ELSE Goto("failing") /\ Blame("lookup")
    /\ UNCHANGED <<table, uploaded, hold, copies>>

ResolveFails ==
    /\ worker.pc = "resolving"
    /\ Goto("failing")
    /\ Blame("error")
    /\ UNCHANGED <<table, uploaded, client, hold, budget, copies>>

\* Mutant: a full Drive is not told from any other refusal.
RecordUnlessSlow(flags) ==
    IF flags.rateLimited THEN Goto("requeueing") ELSE Goto("recording")

(* An upload that produced no file id, by the flags as they are.           *)
RecordFailedUpload(flags) ==
    IF flags.quota \/ flags.rateLimited THEN Goto("requeueing")
                                        ELSE Goto("recording")

(* Both flags are cleared; then no connection means no upload, and a file  *)
(* that has moved is an error.                                             *)
StartUpload ==
    /\ worker.pc = "starting"
    /\ client' = [client EXCEPT !.rateLimited = FALSE, !.quota = FALSE]
    /\ \/ /\ client.connected
          /\ worker.source = "file" => place[Clip] = "file"
          /\ Goto("sending") /\ UNCHANGED blame
       \/ /\ ~client.connected
          /\ Goto("recording") /\ Blame("error")
       \/ /\ client.connected
          /\ worker.source = "file" /\ place[Clip] # "file"
          /\ Goto("failing") /\ Blame("error")
    /\ UNCHANGED <<table, uploaded, hold, budget, copies>>

UploadOk ==
    /\ worker.pc = "sending"
    /\ copies' = [copies EXCEPT ![Clip] = @ + 1]
    /\ Goto("marking")
    /\ UNCHANGED <<table, uploaded, client, hold, budget, blame>>

(* Drive asks for a slower pace, or is full.                               *)
UploadLimited(full) ==
    /\ worker.pc = "sending"
    /\ Spend("drive")
    /\ client' = IF full THEN [client EXCEPT !.quota = TRUE]
                         ELSE [client EXCEPT !.rateLimited = TRUE]
    /\ RecordFailedUpload(client')
    /\ Blame("limited")
    /\ UNCHANGED <<table, uploaded, hold, copies>>

(* Any other refusal, or a file that is gone once it is read; or Drive     *)
(* stored the file and its reply was lost.                                 *)
UploadFails(stored) ==
    /\ worker.pc = "sending"
    /\ IF stored
       THEN Spend("drive") /\ copies' = [copies EXCEPT ![Clip] = @ + 1]
       ELSE UNCHANGED <<budget, copies>>
    /\ RecordFailedUpload(client)
    /\ Blame("error")
    /\ UNCHANGED <<table, uploaded, client, hold>>

\* Mutant: the row is completed without marking the clip.
MarkNothing ==
    /\ worker.pc = "marking"
    /\ Goto("completing")
    /\ UNCHANGED <<table, uploaded, client, hold, budget, history>>

MarkUploaded ==
    /\ worker.pc = "marking"
    /\ uploaded' = uploaded \cup ({Clip} \cap library)
    /\ Goto("completing")
    /\ UNCHANGED <<table, client, hold, budget, history>>

Complete ==
    /\ worker.pc = "completing"
    /\ UpdateStatus(Clip, "completed")
    /\ Goto("checking")
    /\ UNCHANGED <<library, before, place, uploaded, client, hold,
                   budget, history>>

Requeue ==
    /\ worker.pc = "requeueing"
    /\ UpdateStatus(Clip, "pending")
    /\ Goto("checking")
    /\ UNCHANGED <<library, before, place, uploaded, client, hold,
                   budget, history>>

Fail ==
    /\ worker.pc \in {"recording", "failing"}
    /\ UpdateStatus(Clip, "failed")
    /\ Goto("checking")
    /\ UNCHANGED <<library, before, place, uploaded, client, hold,
                   budget, history>>

(* A failed write inside the try is one more reason to fail the clip;      *)
(* outside it, the batch is over.                                          *)
WriteFails ==
    /\ Spend("db")
    /\ \/ /\ worker.pc \in {"marking", "completing", "requeueing", "recording"}
          /\ Goto("failing")
          /\ Blame("error")
       \/ /\ worker.pc \in {"next", "fetching", "failing"}
          /\ worker' = Idle
          /\ UNCHANGED blame
    /\ UNCHANGED <<table, uploaded, client, hold, copies>>

\* Mutant: the end of the batch is not noticed.
CheckStateOnly ==
    /\ worker.pc = "checking"
    /\ client' = IF client.quota /\ client.paused = "no"
                 THEN [client EXCEPT !.paused = "quota"] ELSE client
    /\ hold' = (hold \/ (client.rateLimited /\ ~client.quota))
    /\ worker' = IF client.quota \/ hold' THEN Idle
                 ELSE [Idle EXCEPT !.pc = "next", !.batch = Tail(worker.batch)]
    /\ UNCHANGED <<table, uploaded, budget, copies, blame>>

(* The flags decide once more, after every clip: a full Drive pauses the   *)
(* queue, a rate limit holds it off, and either ends the batch.            *)
CheckDriveState ==
    /\ worker.pc = "checking"
    /\ client' = IF client.quota /\ client.paused = "no"
                 THEN [client EXCEPT !.paused = "quota"] ELSE client
    /\ hold' = (hold \/ (client.rateLimited /\ ~client.quota))
    /\ worker' = IF client.quota \/ hold' \/ Len(worker.batch) = 1 THEN Idle
                 ELSE [Idle EXCEPT !.pc = "next", !.batch = Tail(worker.batch)]
    /\ UNCHANGED <<table, uploaded, budget, copies, blame>>

-----------------------------------------------------------------------------
(* The pause is on disk and outlives a restart; the hold-off and the flags *)
(* do not.                                                                 *)
Restart ==
    /\ Spend("crash")
    /\ rows' = [c \in Clips |-> IF rows[c] = "processing" THEN "pending"
                                ELSE rows[c]]
    /\ worker' = Idle
    /\ hold' = FALSE
    /\ client' = [client EXCEPT !.rateLimited = FALSE, !.quota = FALSE]
    /\ UNCHANGED <<library, before, place, uploaded, copies, blame>>

LibraryStep == \E c \in Clips : Archive(c) \/ DeleteClip(c)

TableStep ==
    \/ \E c \in Clips : Enqueue(c)
    \/ \E S \in {{c} : c \in Failed} \cup {{}, Failed} :
         Retry(S) \/ ClearFailed(S)

ClientStep ==
    \/ Connect \/ Disconnect
    \/ Pause \/ Resume
    \/ OtherCallLimited \/ OtherUploadStarts

UploadStep ==
    \/ StartUpload
    \/ UploadOk
    \/ \E full \in BOOLEAN : UploadLimited(full)
    \/ \E stored \in BOOLEAN : UploadFails(stored)

WorkerStep ==
    \/ StartBatch \/ TakeItem
    \/ FetchClip \/ ClipDeleted
    \/ Locate
    \/ Resolve \/ (\E created \in BOOLEAN : ResolveLimited(created)) \/ ResolveFails
    \/ UploadStep
    \/ MarkUploaded \/ Complete \/ Requeue \/ Fail
    \/ WriteFails
    \/ CheckDriveState

Next ==
    \/ LibraryStep \/ TableStep \/ ClientStep \/ HoldOffEnds
    \/ WorkerStep
    \/ Restart

Spec == Init /\ [][Next]_vars

-----------------------------------------------------------------------------
(* Type correctness; an idle worker has no batch.                          *)
TypeOK ==
    /\ library \subseteq Clips
    /\ rows \in [Clips -> Statuses]
    /\ before \subseteq Clips \X Clips
    /\ place \in [Clips -> Places]
    /\ uploaded \subseteq library
    /\ client \in [connected : BOOLEAN, paused : Pauses,
                   rateLimited : BOOLEAN, quota : BOOLEAN]
    /\ hold \in BOOLEAN
    /\ worker \in [pc : Pcs, batch : Seq(Clips), source : Places]
    /\ worker.pc = "idle" <=> worker.batch = <<>>
    /\ budget \in [Kinds -> Nat]
    /\ copies \in [Clips -> Nat]
    /\ blame \in [Clips -> Blames]

(* A completed row's clip knows its backup: the row is never selected      *)
(* again, and without the id the backup can be neither found nor trashed.  *)
CompletedIsUploaded ==
    \A c \in Clips : rows[c] = "completed" => c \in uploaded

(* Drive stores a clip a second time only after a reply was lost, a        *)
(* database call failed, or the program was restarted.                     *)
CopiesAccountedFor ==
    \A c \in Clips :
        copies[c] <= 1 + (MaxDriveFaults - budget["drive"])
                       + (MaxDbErrors - budget["db"])
                       + (MaxCrashes - budget["crash"])

(* An upload refused because Drive is full or busy leaves its clip queued  *)
(* (gdrive_queue.py:320).                                                  *)
LimitedUploadStaysQueued ==
    \A c \in Clips : rows[c] = "failed" => blame[c] # "limited"

-----------------------------------------------------------------------------
Progress(status) ==
    CASE status \in {"pending", "processing"} -> "queued"
      [] status = "completed" -> "done"
      [] status = "failed" -> "failed"
      [] OTHER -> "absent"

Queue == INSTANCE WorkQueue WITH
            state <- [c \in Clips |-> Progress(rows[c])], Retriable <- TRUE

(* The table implements the abstract queue: a failed clip can be queued    *)
(* again or dropped, a finished one cannot.                                *)
ImplementsWorkQueue == Queue!Spec

-----------------------------------------------------------------------------
(* The loop runs while the program does, and a hold-off is a timer.        *)
LiveSpec == Spec /\ WF_vars(WorkerStep) /\ WF_vars(HoldOffEnds)

(* A queued clip is settled, unless uploads are paused or disconnected:    *)
(* hold-offs end, and clips that fail and are retried again and again do   *)
(* not keep it waiting.                                                    *)
Waits(c) == rows[c] \in {"pending", "processing"} /\ client.paused = "no" /\ client.connected
BackupsProceed == \A c \in Clips : []<>~Waits(c)

-----------------------------------------------------------------------------
(* The clips are interchangeable.                                          *)
Symmetry == Permutations(Clips)

===============================================================================
