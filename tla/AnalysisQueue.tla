---------------------------- MODULE AnalysisQueue ----------------------------
(***************************************************************************)
(* The AI analysis queue: the analysis_queue table (database/queues.py),   *)
(* the worker that drains it (analysis_queue.py), and the on-demand        *)
(* "Analyze Now" handler (media_server/ai.py), which shares the worker's   *)
(* analyzer object and so the two flags the worker decides by.             *)
(*                                                                         *)
(* Every step ends where the code awaits: the worker writes a row, reads   *)
(* the clip's context, waits for the analyzer's lock, calls the provider,  *)
(* saves, completes, alerts.  A statement that fails has no effect, except *)
(* save_analysis, which is three statements and may fail after the first.  *)
(* The analyzer's flags are read where the code reads them: on the way out *)
(* of the failing await, and again when the clip is finished with.         *)
(***************************************************************************)
EXTENDS Integers, Sequences, SequencesExt

CONSTANTS
    Clips,
    BatchSize,      \* batch_size
    MaxRetries,     \* _MAX_ANALYSIS_RETRIES
    Alerting,       \* a dispatcher is configured
    MaxManual,      \* bound: on-demand analyses
    MaxDbErrors,    \* bound: failed database calls
    MaxLimits,      \* bound: provider calls refused for rate or balance
    MaxCrashes      \* bound: restarts

ASSUME AnalysisQueueAssumption ==
    /\ BatchSize \in Nat \ {0}
    /\ MaxRetries \in Nat
    /\ Alerting \in BOOLEAN
    /\ MaxManual \in Nat /\ MaxDbErrors \in Nat
    /\ MaxLimits \in Nat /\ MaxCrashes \in Nat

VARIABLES
    library,    \* clips with a row in the clips table
    gone,       \* clips deleted from it; an id is downloaded only once
    rows,       \* the analysis_queue table
    order,      \* the clips ever queued, by queued_at
    window,     \* the schedule window is open and the provider is healthy
    worker,     \* the worker: where it is, its item, the rest of its batch
    analyzer,   \* the shared analyzer: who holds its lock, and its flags
    manual,     \* the on-demand request in progress
    saved,      \* clips with an analysis result
    budget,     \* what is left of each bound
    alerts,     \* history: alerts sent by the worker for each clip
    blame       \* history: how the worker's last attempt at each clip failed

table   == <<library, gone, rows, order>>
history == <<alerts, blame>>
vars    == <<table, window, worker, analyzer, manual, saved, budget, history>>

-----------------------------------------------------------------------------
Statuses == {"none", "pending", "processing", "completed", "failed"}
Rows     == [status : Statuses, retries : Nat]
NoRow    == [status |-> "none", retries |-> 0]

(* A batch entry is the row as it was fetched.                             *)
Items  == [clip : Clips, retries : Nat]

Pcs == {"idle", "next", "reading", "waiting", "analyzing", "saving",
        "completing", "alerting", "requeueing", "failing"}

(* The ways an attempt fails.  "other" is a failed database call.          *)
Blames == {"none", "limited", "transient", "permanent", "other"}

Idle == [pc |-> "idle", batch |-> <<>>, suspicious |-> FALSE, retries |-> 0]

Analyzer0 == [holder |-> "none", rateLimited |-> FALSE, transient |-> TRUE]

Kinds   == {"manual", "db", "limit", "crash"}
Budget0 == [kind \in Kinds |-> CASE kind = "manual" -> MaxManual
                                 [] kind = "db"     -> MaxDbErrors
                                 [] kind = "limit"  -> MaxLimits
                                 [] kind = "crash"  -> MaxCrashes]

Item == Head(worker.batch)
Clip == Item.clip

Init ==
    /\ library = {}
    /\ gone = {}
    /\ rows = [c \in Clips |-> NoRow]
    /\ order = <<>>
    /\ window = FALSE
    /\ worker = Idle
    /\ analyzer = Analyzer0
    /\ manual = [pc |-> "idle", clips |-> {}]
    /\ saved = {}
    /\ budget = Budget0
    /\ alerts = [c \in Clips |-> 0]
    /\ blame = [c \in Clips |-> "none"]

Spend(kind) ==
    /\ budget[kind] > 0
    /\ budget' = [budget EXCEPT ![kind] = @ - 1]

-----------------------------------------------------------------------------
(* The table.  An UPDATE of a row that is gone changes nothing.            *)

SetRow(c, row) == rows' = [rows EXCEPT ![c] = IF @.status = "none" THEN @ ELSE row]

UpdateStatus(c, s) == SetRow(c, [rows[c] EXCEPT !.status = s])

AddClip(c) ==
    /\ c \notin library \cup gone
    /\ library' = library \cup {c}
    /\ UNCHANGED <<gone, rows, order, window, worker, analyzer, manual, saved,
                   budget, history>>

\* Mutant: the conflict clause resets the row instead of leaving it alone.
EnqueueAgain(c) ==
    /\ c \in library
    /\ rows' = [rows EXCEPT ![c] = [status |-> "pending", retries |-> 0]]
    /\ order' = IF c \in ToSet(order) THEN order ELSE Append(order, c)
    /\ UNCHANGED <<library, gone, window, worker, analyzer, manual, saved,
                   budget, history>>

Enqueue(c) ==
    /\ c \in library
    /\ rows[c].status = "none"
    /\ rows' = [rows EXCEPT ![c] = [status |-> "pending", retries |-> 0]]
    /\ order' = Append(order, c)
    /\ UNCHANGED <<library, gone, window, worker, analyzer, manual, saved,
                   budget, history>>

(* A deleted clip takes its queue row and its results along.               *)
DeleteClip(c) ==
    /\ c \in library
    /\ library' = library \ {c}
    /\ gone' = gone \cup {c}
    /\ rows' = [rows EXCEPT ![c] = NoRow]
    /\ saved' = saved \ {c}
    /\ UNCHANGED <<order, window, worker, analyzer, manual, budget, history>>

ToggleWindow ==
    /\ window' = ~window
    /\ UNCHANGED <<table, worker, analyzer, manual, saved, budget, history>>

-----------------------------------------------------------------------------
(* The worker's loop.                                                      *)

Pending == {c \in Clips : rows[c].status = "pending"}

QueuedBefore(c, d) ==
    \E i, j \in 1 .. Len(order) : i < j /\ order[i] = c /\ order[j] = d

(* The oldest pending clips, at most BatchSize of them, in queued_at order. *)
OldestPending ==
    {b \in UNION {[1 .. n -> Pending] : n \in 1 .. BatchSize} :
        /\ \A i, j \in DOMAIN b : i < j => QueuedBefore(b[i], b[j])
        /\ \A c \in Pending :
              \/ \E i \in DOMAIN b : b[i] = c
              \/ Len(b) = BatchSize
                 /\ \A i \in DOMAIN b : QueuedBefore(b[i], c)}

StartBatch ==
    /\ worker.pc = "idle"
    /\ window
    /\ \E b \in OldestPending :
         worker' = [Idle EXCEPT
            !.pc = "next",
            !.batch = [i \in DOMAIN b |->
                         [clip |-> b[i], retries |-> rows[b[i]].retries]]]
    /\ UNCHANGED <<table, window, analyzer, manual, saved, budget, history>>

\* Mutant: the end of the batch is not noticed.
NextItem ==
    worker' = IF analyzer.rateLimited THEN Idle
              ELSE [Idle EXCEPT !.pc = "next", !.batch = Tail(worker.batch)]

(* After an item the batch goes on, unless the analyzer is rate limited.   *)
AfterItem ==
    worker' = IF analyzer.rateLimited \/ Len(worker.batch) = 1 THEN Idle
              ELSE [Idle EXCEPT !.pc = "next", !.batch = Tail(worker.batch)]

Goto(pc) == worker' = [worker EXCEPT !.pc = pc]

\* Mutant: a rate limit is counted against the clip like any other failure.
GiveUpOrCharge(flags) ==
    worker' =
        IF flags.transient /\ Item.retries < MaxRetries
        THEN [worker EXCEPT !.pc = "requeueing", !.retries = Item.retries + 1]
        ELSE [worker EXCEPT !.pc = "failing"]

\* Mutant: a retry is not counted, so the budget of retries never ends.
RequeueUncounted(flags) ==
    worker' = IF flags.rateLimited \/ flags.transient
              THEN [worker EXCEPT !.pc = "requeueing", !.retries = Item.retries]
              ELSE [worker EXCEPT !.pc = "failing"]

(* The except branch, from the flags as they are when it runs.             *)
GiveUpOrRequeue(flags) ==
    worker' =
        IF flags.rateLimited
        THEN [worker EXCEPT !.pc = "requeueing", !.retries = Item.retries]
        ELSE IF flags.transient /\ Item.retries < MaxRetries
        THEN [worker EXCEPT !.pc = "requeueing", !.retries = Item.retries + 1]
        ELSE [worker EXCEPT !.pc = "failing"]

Blame(why) == blame' = [blame EXCEPT ![Clip] = why]

TakeItem ==
    /\ worker.pc = "next"
    /\ UpdateStatus(Clip, "processing")
    /\ Goto("reading")
    /\ UNCHANGED <<library, gone, order, window, analyzer, manual, saved,
                   budget, history>>

(* The clip, its anomaly score and the corrections for its camera.         *)
ReadContext ==
    /\ worker.pc = "reading"
    /\ Goto("waiting")
    /\ UNCHANGED <<table, window, analyzer, manual, saved, budget, history>>

(* A failed read, before this clip has reached the analyzer at all.        *)
ReadContextFails ==
    /\ worker.pc = "reading"
    /\ Spend("db")
    /\ GiveUpOrRequeue(analyzer)
    /\ Blame("other")
    /\ UNCHANGED <<table, window, analyzer, manual, saved, alerts>>

\* Mutant: the lock is not waited for.
Barge(who) == analyzer' = [Analyzer0 EXCEPT !.holder = who]

(* Taking the lock resets the flags before anything else happens.          *)
Acquire(who) ==
    /\ analyzer.holder = "none"
    /\ analyzer' = [Analyzer0 EXCEPT !.holder = who]

AcquireForQueue ==
    /\ worker.pc = "waiting"
    /\ Acquire("queue")
    /\ Goto("analyzing")
    /\ UNCHANGED <<table, window, manual, saved, budget, history>>

(* A verdict, though one of the calls it took may have been refused.       *)
AnalysisSucceeds(suspicious, limited) ==
    /\ worker.pc = "analyzing"
    /\ IF limited THEN Spend("limit") ELSE UNCHANGED budget
    /\ analyzer' = [analyzer EXCEPT !.holder = "none", !.rateLimited = limited]
    /\ worker' = [worker EXCEPT !.pc = "saving", !.suspicious = suspicious]
    /\ UNCHANGED <<table, window, manual, saved, history>>

FlagsFor(why) ==
    [holder |-> "none", rateLimited |-> why = "limited",
     transient |-> why # "permanent"]

AnalysisFails(why) ==
    /\ worker.pc = "analyzing"
    /\ IF why = "limited" THEN Spend("limit") ELSE UNCHANGED budget
    /\ analyzer' = FlagsFor(why)
    /\ GiveUpOrRequeue(FlagsFor(why))
    /\ Blame(why)
    /\ UNCHANGED <<table, window, manual, saved, alerts>>

\* Mutant: the alert goes out before the row is completed.
SaveAndAlert ==
    /\ worker.pc = "saving"
    /\ Clip \in library
    /\ saved' = saved \cup {Clip}
    /\ Goto("completing")
    /\ alerts' = IF worker.suspicious THEN [alerts EXCEPT ![Clip] = @ + 1] ELSE alerts
    /\ UNCHANGED <<table, window, analyzer, manual, budget, blame>>

\* Mutant: the row is completed before the verdict is saved.
SaveForgets ==
    /\ worker.pc = "saving"
    /\ Goto("completing")
    /\ UNCHANGED <<table, window, analyzer, manual, saved, budget, history>>

Save ==
    /\ worker.pc = "saving"
    /\ Clip \in library
    /\ saved' = saved \cup {Clip}
    /\ Goto("completing")
    /\ UNCHANGED <<table, window, analyzer, manual, budget, history>>

(* A deleted clip's result has no clip to refer to; otherwise a database   *)
(* call failed, perhaps after the verdict itself was written.              *)
SaveFails ==
    /\ worker.pc = "saving"
    /\ \/ Clip \notin library /\ UNCHANGED <<saved, budget>>
       \/ Clip \in library /\ Spend("db") /\ saved' \in {saved, saved \cup {Clip}}
    /\ GiveUpOrRequeue(analyzer)
    /\ Blame("other")
    /\ UNCHANGED <<table, window, analyzer, manual, alerts>>

Complete ==
    /\ worker.pc = "completing"
    /\ UpdateStatus(Clip, "completed")
    /\ Goto("alerting")
    /\ UNCHANGED <<library, gone, order, window, analyzer, manual, saved,
                   budget, history>>

CompleteFails ==
    /\ worker.pc = "completing"
    /\ Spend("db")
    /\ GiveUpOrRequeue(analyzer)
    /\ Blame("other")
    /\ UNCHANGED <<table, window, analyzer, manual, saved, alerts>>

(* The alert is sent if the verdict calls for one and meets the threshold, *)
(* unless its dispatch fails; the worker goes on either way.               *)
Alert(sent) ==
    /\ worker.pc = "alerting"
    /\ sent => worker.suspicious /\ Alerting
    /\ alerts' = IF sent THEN [alerts EXCEPT ![Clip] = @ + 1] ELSE alerts
    /\ AfterItem
    /\ UNCHANGED <<table, window, analyzer, manual, saved, budget, blame>>

Requeue ==
    /\ worker.pc = "requeueing"
    /\ SetRow(Clip, [status |-> "pending", retries |-> worker.retries])
    /\ AfterItem
    /\ UNCHANGED <<library, gone, order, window, analyzer, manual, saved,
                   budget, history>>

Fail ==
    /\ worker.pc = "failing"
    /\ UpdateStatus(Clip, "failed")
    /\ AfterItem
    /\ UNCHANGED <<library, gone, order, window, analyzer, manual, saved,
                   budget, history>>

(* A failed status write outside the try ends the batch: the loop logs it  *)
(* and sleeps.                                                             *)
StatusWriteFails ==
    /\ worker.pc \in {"next", "requeueing", "failing"}
    /\ Spend("db")
    /\ worker' = Idle
    /\ UNCHANGED <<table, window, analyzer, manual, saved, history>>

-----------------------------------------------------------------------------
(* Analyze Now: its own copy of the analysis, under the same lock.         *)

RequestManual(c) ==
    /\ manual.pc = "idle"
    /\ c \in library
    /\ Spend("manual")
    /\ manual' = [pc |-> "waiting", clips |-> {c}]
    /\ UNCHANGED <<table, window, worker, analyzer, saved, history>>

AcquireForManual ==
    /\ manual.pc = "waiting"
    /\ Acquire("manual")
    /\ manual' = [manual EXCEPT !.pc = "analyzing"]
    /\ UNCHANGED <<table, window, worker, saved, budget, history>>

ManualSucceeds ==
    /\ manual.pc = "analyzing"
    /\ analyzer' = [analyzer EXCEPT !.holder = "none"]
    /\ manual' = [manual EXCEPT !.pc = "saving"]
    /\ UNCHANGED <<table, window, worker, saved, budget, history>>

ManualFails(why) ==
    /\ manual.pc = "analyzing"
    /\ analyzer' = FlagsFor(why)
    /\ manual' = [pc |-> "idle", clips |-> {}]
    /\ UNCHANGED <<table, window, worker, saved, budget, history>>

(* Its save may fail too, and then the request does.                       *)
ManualSaves ==
    /\ manual.pc = "saving"
    /\ saved' \in {saved, saved \cup (manual.clips \cap library)}
    /\ manual' = [pc |-> "idle", clips |-> {}]
    /\ UNCHANGED <<table, window, worker, analyzer, budget, history>>

-----------------------------------------------------------------------------
(* A restart puts every row in 'processing' back to 'pending'.             *)
Restart ==
    /\ Spend("crash")
    /\ rows' = [c \in Clips |-> IF rows[c].status = "processing"
                                THEN [rows[c] EXCEPT !.status = "pending"]
                                ELSE rows[c]]
    /\ worker' = Idle
    /\ analyzer' = Analyzer0
    /\ manual' = [pc |-> "idle", clips |-> {}]
    /\ UNCHANGED <<library, gone, order, window, saved, history>>

LibraryStep ==
    \E c \in Clips : AddClip(c) \/ Enqueue(c) \/ DeleteClip(c)

AnalysisStep ==
    \/ AcquireForQueue
    \/ \E suspicious, limited \in BOOLEAN :
         AnalysisSucceeds(suspicious, limited)
    \/ \E why \in {"limited", "transient", "permanent"} : AnalysisFails(why)

WorkerStep ==
    \/ StartBatch \/ TakeItem
    \/ ReadContext \/ ReadContextFails
    \/ AnalysisStep
    \/ Save \/ SaveFails
    \/ Complete \/ CompleteFails
    \/ \E sent \in BOOLEAN : Alert(sent)
    \/ Requeue \/ Fail \/ StatusWriteFails

ManualStep ==
    \/ AcquireForManual
    \/ ManualSucceeds
    \/ \E why \in {"limited", "transient", "permanent"} : ManualFails(why)
    \/ ManualSaves

Next ==
    \/ LibraryStep \/ ToggleWindow
    \/ WorkerStep
    \/ \E c \in Clips : RequestManual(c)
    \/ ManualStep
    \/ Restart

Spec == Init /\ [][Next]_vars

-----------------------------------------------------------------------------
(* Type correctness, with what each place of the worker's loop implies     *)
(* about its batch.                                                        *)
TypeOK ==
    /\ library \subseteq Clips /\ gone \subseteq Clips
    /\ rows \in [Clips -> Rows]
    /\ order \in Seq(Clips)
    /\ window \in BOOLEAN
    /\ worker \in [pc : Pcs, batch : Seq(Items), suspicious : BOOLEAN,
                   retries : Nat]
    /\ worker.pc = "idle" <=> worker.batch = <<>>
    /\ analyzer \in [holder : {"none", "queue", "manual"},
                     rateLimited : BOOLEAN, transient : BOOLEAN]
    /\ manual \in [pc : {"idle", "waiting", "analyzing", "saving"},
                   clips : SUBSET Clips]
    /\ saved \subseteq Clips
    /\ budget \in [Kinds -> Nat]
    /\ alerts \in [Clips -> Nat]
    /\ blame \in [Clips -> Blames]

(* The analyzer keeps per-call state, so no two analyses overlap: its lock *)
(* is held exactly while one of the two callers is inside (base.py:625).   *)
OneAnalysis ==
    /\ worker.pc = "analyzing" <=> analyzer.holder = "queue"
    /\ manual.pc = "analyzing" <=> analyzer.holder = "manual"

(* A row is completed only once its verdict is stored: nothing selects a   *)
(* completed row again, so a verdict that is not there never will be.      *)
CompletedHasVerdict ==
    \A c \in Clips : rows[c].status = "completed" => c \in saved

(* One clip, one alert, over retries and restarts, and only for a clip     *)
(* whose analysis will not be run again.                                   *)
AlertedOnce ==
    \A c \in Clips :
        /\ alerts[c] <= 1
        /\ alerts[c] = 1 => c \in gone \/ rows[c].status = "completed"

(* A clip the provider turned away is never failed for it, and one that    *)
(* met a passing error has had all its retries (analysis_queue.py:212).    *)
FailureEarned ==
    \A c \in Clips : rows[c].status = "failed" =>
        /\ blame[c] # "limited"
        /\ blame[c] = "transient" => rows[c].retries = MaxRetries

-----------------------------------------------------------------------------
(* The table implements the abstract queue: a clip is queued once, and its *)
(* end, completed or failed, is final whatever is retried or restarted.    *)
Progress(row) ==
    CASE row.status \in {"pending", "processing"} -> "queued"
      [] row.status = "completed" -> "done"
      [] row.status = "failed" -> "failed"
      [] OTHER -> "absent"

Queue == INSTANCE WorkQueue WITH
            state <- [c \in Clips |-> Progress(rows[c])], Retriable <- FALSE

ImplementsWorkQueue == Queue!Spec

-----------------------------------------------------------------------------
(* The loop runs while the program does, Analyze Now's handler likewise;   *)
(* the window opens and closes again and again, and the loop does not      *)
(* always look while it is closed.                                         *)
LiveSpec ==
    /\ Spec
    /\ WF_vars(WorkerStep) /\ SF_vars(StartBatch)
    /\ WF_vars(ManualStep) /\ WF_vars(ToggleWindow)

(* Every queued clip is settled or deleted in the end: provider outages,   *)
(* retries at the head of the queue, Analyze Now and restarts can hold a   *)
(* clip up but never for good.                                             *)
QueueDrains ==
    \A c \in Clips :
        rows[c].status \in {"pending", "processing"}
            ~> rows[c].status \notin {"pending", "processing"}
=============================================================================
