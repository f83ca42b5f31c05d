-------------------------- MODULE GDriveQueue_proofs --------------------------
(***************************************************************************)
(* Proofs about GDriveQueue, for any clips, batch size and bounds: a       *)
(* completed row's clip knows its backup, no clip is stored twice without  *)
(* a fault to account for it, a refusal by Drive never fails a clip, and   *)
(* the table implements the abstract work queue.                           *)
(***************************************************************************)
EXTENDS GDriveQueue, TLAPS, SequenceTheorems

-----------------------------------------------------------------------------
(* The inductive invariant.                                                *)

(* The faults there have been so far.                                      *)
Spent == (MaxDriveFaults - budget["drive"]) + (MaxDbErrors - budget["db"])
           + (MaxCrashes - budget["crash"])

(* The clip in hand has been uploaded and its row does not say so yet.     *)
JustUploaded(c) == worker.pc \in {"marking", "completing"} /\ c = Clip

(* Rows belong to clips in the library, and one whose row may still be     *)
(* picked for an upload has had one upload fewer than the faults allow.    *)
TableInv ==
    \A c \in Clips :
        /\ rows[c] # "none" => c \in library
        /\ copies[c] <= Spent + 1
        /\ c \in library /\ rows[c] # "completed" /\ ~JustUploaded(c)
             => copies[c] <= Spent

(* What the worker at pc knows of the clip in hand, and at "next" of each  *)
(* clip that waits in its batch: its row, unless it has been deleted; its  *)
(* uploads; and that only an error of its own leads to a failed row.       *)
Known(c, pc) ==
    /\ c \in library /\ pc # "checking"
         => rows[c] = IF pc = "next" THEN "pending" ELSE "processing"
    /\ pc \notin {"marking", "completing", "checking"} => copies[c] <= Spent
    /\ c \in library /\ pc = "completing" => c \in uploaded
    /\ pc \in {"recording", "failing"} => blame[c] # "limited"

BatchInv ==
    /\ \A i, j \in 1 .. Len(worker.batch) :
           i # j => worker.batch[i] # worker.batch[j]
    /\ \A i \in 1 .. Len(worker.batch) :
           Known(worker.batch[i], IF i = 1 THEN worker.pc ELSE "next")

IInv == /\ TypeOK /\ TableInv /\ BatchInv
        /\ CompletedIsUploaded /\ LimitedUploadStaysQueued

-----------------------------------------------------------------------------
LEMMA InitInv == Init => IInv
<1> SUFFICES ASSUME Init PROVE IInv
  OBVIOUS
<1>1. budget \in [Kinds -> Nat] /\ Spent = 0
  BY GDriveQueueAssumption
  DEF GDriveQueueAssumption, Init, Budget0, Kinds, Spent
<1>2. worker.batch = <<>> /\ Len(worker.batch) = 0 /\ worker.pc = "idle"
      /\ worker \in [pc : Pcs, batch : Seq(Clips), source : Places]
  BY EmptySeq DEF Init, Idle, Pcs, Places
<1>3. TypeOK
  BY <1>1, <1>2 DEF Init, TypeOK, Statuses, Places, Pauses, Blames
<1>4. TableInv /\ BatchInv /\ CompletedIsUploaded /\ LimitedUploadStaysQueued
  BY <1>1, <1>2
  DEF Init, TableInv, BatchInv, CompletedIsUploaded, LimitedUploadStaysQueued
<1> QED BY <1>3, <1>4 DEF IInv

(* Every fault is spent once.                                              *)
LEMMA SpendCounts ==
  ASSUME IInv
  PROVE  /\ Spent \in Int
         /\ budget' = budget => Spent' = Spent
         /\ \A kind \in Kinds : Spend(kind) =>
                /\ budget' \in [Kinds -> Nat]
                /\ Spent' = Spent + 1
<1>1. budget \in [Kinds -> Nat] /\ \A kind \in Kinds : budget[kind] \in Nat
  BY DEF IInv, TypeOK
<1>2. Spent \in Int
  BY <1>1, GDriveQueueAssumption DEF GDriveQueueAssumption, Spent, Kinds
<1>3. budget' = budget => Spent' = Spent
  BY DEF Spent
<1>4. ASSUME NEW kind \in Kinds, Spend(kind)
      PROVE  budget' \in [Kinds -> Nat] /\ Spent' = Spent + 1
  <2>1. /\ budget[kind] \in Nat \ {0}
        /\ budget' = [budget EXCEPT ![kind] = budget[kind] - 1]
    BY <1>1, <1>4 DEF Spend
  <2>2. budget' \in [Kinds -> Nat]
    BY <1>1, <2>1
  <2> QED
    BY <1>1, <2>1, <2>2, GDriveQueueAssumption
    DEF GDriveQueueAssumption, Spent, Kinds
<1> QED BY <1>2, <1>3, <1>4

(* While it has a batch, the worker has a clip in hand.                    *)
LEMMA HandInBatch ==
  ASSUME IInv, worker.pc # "idle"
  PROVE  /\ worker.batch \in Seq(Clips) /\ Len(worker.batch) \in Nat \ {0}
         /\ \A i \in 1 .. Len(worker.batch) : worker.batch[i] \in Clips
         /\ Clip = worker.batch[1] /\ Clip \in Clips
         /\ Known(Clip, worker.pc)
<1>1. worker.batch \in Seq(Clips) /\ worker.batch # <<>>
  BY DEF IInv, TypeOK
<1>2. /\ Len(worker.batch) \in Nat \ {0}
      /\ \A i \in 1 .. Len(worker.batch) : worker.batch[i] \in Clips
  BY <1>1, EmptySeq, LenProperties, ElementOfSeq
<1>3. Clip = worker.batch[1]
  BY <1>1 DEF Clip
<1> QED BY <1>1, <1>2, <1>3 DEF IInv, BatchInv

(* Others touch a row only by deleting its clip, or while its clip is      *)
(* nobody's business: not queued, or failed.                               *)
LEMMA OutsideStepInv ==
  ASSUME IInv, TypeOK', UNCHANGED <<worker, copies, blame>>,
         Spent' \in {Spent, Spent + 1},
         \A c \in Clips :
             \/ /\ rows'[c] = rows[c]
                /\ c \in library' <=> c \in library
                /\ c \in uploaded' <=> c \in uploaded
             \/ c \notin library' /\ rows'[c] = "none"
             \/ /\ c \in library \cap library'
                /\ rows[c] \in {"none", "failed"}
                /\ rows'[c] \in {"none", "pending"}
  PROVE  IInv'
<1>1. /\ Spent \in Int /\ Spent' \in Int /\ Spent <= Spent'
      /\ \A c \in Clips : copies[c] \in Nat
  BY SpendCounts DEF IInv, TypeOK
<1>2. worker.pc # "idle" => Clip' = Clip
  BY DEF Clip
<1>3. TableInv'
  BY <1>1, <1>2 DEF IInv, TableInv, JustUploaded, Clip
<1>4. BatchInv'
  <2>1. CASE worker.pc = "idle"
    <3>1. worker.batch = <<>> /\ Len(worker.batch) = 0
      BY <2>1 DEF IInv, TypeOK
    <3> QED BY <3>1 DEF BatchInv
  <2>2. CASE worker.pc # "idle"
    <3>1. \A i \in 1 .. Len(worker.batch) : worker.batch[i] \in Clips
      BY <2>2, HandInBatch
    <3>2. ASSUME NEW i \in 1 .. Len(worker.batch), NEW pc,
                 Known(worker.batch[i], pc)
          PROVE  Known(worker.batch[i], pc)'
      BY <1>1, <3>1, <3>2 DEF Known
    <3> QED BY <3>2 DEF IInv, BatchInv
  <2> QED BY <2>1, <2>2
<1>5. CompletedIsUploaded' /\ LimitedUploadStaysQueued'
  BY DEF IInv, CompletedIsUploaded, LimitedUploadStaysQueued
<1> QED BY <1>3, <1>4, <1>5 DEF IInv

(* The worker goes on with the clip in hand, and touches no other.         *)
LEMMA HandStepInv ==
  ASSUME IInv, worker.pc # "idle", TypeOK', NEW pc,
         worker'.batch = worker.batch,
         worker'.pc = pc, pc \notin {"idle", "next"},
         UNCHANGED library, Spent' \in {Spent, Spent + 1},
         \A c \in Clips \ {Clip} :
             /\ rows'[c] = rows[c]
             /\ copies'[c] = copies[c]
             /\ blame'[c] = blame[c]
             /\ c \in uploaded' <=> c \in uploaded,
         rows'[Clip] # "none" => Clip \in library,
         copies'[Clip] <= Spent' + 1,
         \/ copies'[Clip] <= Spent'
         \/ rows'[Clip] \in {"none", "completed"} /\ pc = "checking"
         \/ pc \in {"marking", "completing"},
         rows'[Clip] = "completed" => Clip \in uploaded',
         rows'[Clip] = "failed" => blame'[Clip] # "limited",
         rows'[Clip] = "none" => Clip \notin library,
         Known(Clip, pc)'
  PROVE  IInv'
<1>1. /\ Spent \in Int /\ Spent' \in Int /\ Spent <= Spent'
      /\ \A c \in Clips : copies[c] \in Nat /\ copies'[c] \in Nat
  BY SpendCounts DEF IInv, TypeOK
<1>2. /\ Len(worker.batch) \in Nat \ {0}
      /\ \A i \in 1 .. Len(worker.batch) : worker.batch[i] \in Clips
      /\ Clip = worker.batch[1] /\ Clip \in Clips
  BY HandInBatch
<1>3. Clip' = Clip
  BY DEF Clip
<1>4. TableInv'
  <2> SUFFICES ASSUME NEW c \in Clips
               PROVE  /\ rows'[c] # "none" => c \in library'
                      /\ copies'[c] <= Spent' + 1
                      /\ c \in library' /\ rows'[c] # "completed" /\ ~JustUploaded(c)'
                            => copies'[c] <= Spent'
    BY DEF TableInv
  <2>1. CASE c = Clip
    BY <1>3, <2>1 DEF JustUploaded
  <2>2. CASE c # Clip
    BY <1>1, <2>2 DEF JustUploaded, IInv, TableInv
  <2> QED BY <2>1, <2>2
<1>5. BatchInv'
  <2>1. ASSUME NEW i \in 2 .. Len(worker.batch)
        PROVE  Known(worker.batch[i], "next")'
    <3>1. /\ Known(worker.batch[i], "next")
          /\ worker.batch[i] \in Clips \ {Clip}
      BY <1>2 DEF IInv, BatchInv
    <3> QED BY <1>1, <3>1 DEF Known
  <2>2. \A i \in 1 .. Len(worker'.batch) :
            Known(worker.batch[i], IF i = 1 THEN worker.pc ELSE "next")'
    BY <1>2, <1>3, <2>1 DEF Known
  <2> QED BY <1>2, <2>2 DEF IInv, BatchInv
<1>6. CompletedIsUploaded' /\ LimitedUploadStaysQueued'
  BY DEF IInv, CompletedIsUploaded, LimitedUploadStaysQueued
<1> QED BY <1>4, <1>5, <1>6 DEF IInv

(* The batch is over: nothing is in hand that had not been accounted for.  *)
LEMMA BatchEndsInv ==
  ASSUME IInv, TypeOK', worker'.pc = "idle",
         UNCHANGED <<library, uploaded, copies, blame>>,
         \A c \in Clips : \/ rows'[c] = rows[c]
                          \/ rows[c] = "processing" /\ rows'[c] = "pending",
         \/ Spent' = Spent + 1
         \/ Spent' = Spent /\ worker.pc \notin {"marking", "completing"}
  PROVE  IInv'
<1>1. /\ Spent \in Int /\ Spent' \in Int /\ Spent <= Spent'
      /\ \A c \in Clips : copies[c] \in Nat
  BY SpendCounts DEF IInv, TypeOK
<1>2. worker'.batch = <<>> /\ Len(worker'.batch) = 0
  BY DEF TypeOK
<1>3. BatchInv'
  BY <1>2 DEF BatchInv
<1>4. TableInv'
  BY <1>1 DEF IInv, TableInv, JustUploaded
<1>5. CompletedIsUploaded' /\ LimitedUploadStaysQueued'
  BY DEF IInv, CompletedIsUploaded, LimitedUploadStaysQueued
<1> QED BY <1>3, <1>4, <1>5 DEF IInv

-----------------------------------------------------------------------------
(* Steps outside the worker.                                               *)

LEMMA QueuedLastTyped ==
  ASSUME IInv, NEW S \in SUBSET Clips, QueueLast(S)
  PROVE  before' \in SUBSET (Clips \X Clips)
<1>1. before \subseteq Clips \X Clips
  BY DEF IInv, TypeOK
<1> QED BY <1>1 DEF QueueLast

LEMMA LibraryStepInv ==
  ASSUME IInv, LibraryStep
  PROVE  IInv'
<1>1. CASE \E c \in Clips : Archive(c)
  <2>1. PICK c \in Clips : Archive(c)
    BY <1>1
  <2>2. TypeOK' /\ Spent' = Spent
    BY <2>1, SpendCounts DEF Archive, history, IInv, TypeOK, Places
  <2> QED BY <2>1, <2>2, OutsideStepInv DEF Archive, history
<1>2. CASE \E c \in Clips : DeleteClip(c)
  <2>1. PICK c \in Clips : DeleteClip(c)
    BY <1>2
  <2>2. TypeOK' /\ Spent' = Spent
    BY <2>1, SpendCounts DEF DeleteClip, history, IInv, TypeOK, Places, Statuses
  <2>3. \A d \in Clips :
           \/ /\ rows'[d] = rows[d]
              /\ d \in library' <=> d \in library
              /\ d \in uploaded' <=> d \in uploaded
           \/ d \notin library' /\ rows'[d] = "none"
    BY <2>1 DEF DeleteClip, IInv, TypeOK
  <2> QED BY <2>1, <2>2, <2>3, OutsideStepInv DEF DeleteClip, history
<1> QED BY <1>1, <1>2 DEF LibraryStep

LEMMA TableStepInv ==
  ASSUME IInv, TableStep
  PROVE  IInv'
<1>1. CASE \E c \in Clips : Enqueue(c)
  <2>1. PICK c \in Clips : Enqueue(c)
    BY <1>1
  <2>2. TypeOK' /\ Spent' = Spent
    BY <2>1, QueuedLastTyped, SpendCounts
    DEF Enqueue, history, IInv, TypeOK, Statuses
  <2>3. \A d \in Clips :
           \/ rows'[d] = rows[d]
           \/ /\ d \in library
              /\ rows[d] \in {"none", "failed"}
              /\ rows'[d] \in {"none", "pending"}
    BY <2>1 DEF Enqueue, IInv, TypeOK
  <2> QED BY <2>1, <2>2, <2>3, OutsideStepInv DEF Enqueue, history
<1>2. ASSUME NEW S \in {{c} : c \in Failed} \cup {{}, Failed},
             Retry(S) \/ ClearFailed(S)
      PROVE  IInv'
  <2>1. S \in SUBSET Clips /\ \A c \in S : rows[c] = "failed"
    BY <1>2 DEF Failed
  <2>2. TypeOK' /\ Spent' = Spent
    <3>1. before' \in SUBSET (Clips \X Clips)
      BY <1>2, <2>1, QueuedLastTyped DEF Retry, ClearFailed, IInv, TypeOK
    <3>2. rows' \in [Clips -> Statuses] /\ hold' \in BOOLEAN
      BY <1>2 DEF Retry, ClearFailed, IInv, TypeOK, Statuses
    <3> QED
      BY <1>2, <3>1, <3>2, SpendCounts
      DEF Retry, ClearFailed, history, IInv, TypeOK
  <2>3. \A d \in Clips :
           \/ rows'[d] = rows[d]
           \/ /\ d \in library
              /\ rows[d] \in {"none", "failed"}
              /\ rows'[d] \in {"none", "pending"}
    BY <1>2, <2>1 DEF Retry, ClearFailed, IInv, TableInv
  <2> QED
    BY <1>2, <2>2, <2>3, OutsideStepInv DEF Retry, ClearFailed, history
<1> QED BY <1>1, <1>2 DEF TableStep

LEMMA ClientStepInv ==
  ASSUME IInv, ClientStep \/ HoldOffEnds \/ UNCHANGED vars
  PROVE  IInv'
<1>1. UNCHANGED <<table, uploaded, worker, history>>
  BY DEF ClientStep, Connect, Disconnect, Pause, Resume, OtherCallLimited,
         OtherUploadStarts, HoldOffEnds, vars
<1>2. budget' \in [Kinds -> Nat] /\ Spent' \in {Spent, Spent + 1}
  BY SpendCounts
  DEF ClientStep, Connect, Disconnect, Pause, Resume, OtherCallLimited,
      OtherUploadStarts, HoldOffEnds, vars, IInv, TypeOK, Kinds
<1>3. /\ client' \in [connected : BOOLEAN, paused : Pauses,
                      rateLimited : BOOLEAN, quota : BOOLEAN]
      /\ hold' \in BOOLEAN
  BY DEF ClientStep, Connect, Disconnect, Pause, Resume, OtherCallLimited,
         OtherUploadStarts, HoldOffEnds, vars, IInv, TypeOK, Pauses
<1>4. TypeOK'
  BY <1>1, <1>2, <1>3 DEF IInv, TypeOK, table, history
<1> QED BY <1>1, <1>2, <1>4, OutsideStepInv DEF table, history

-----------------------------------------------------------------------------
(* The worker's steps.                                                     *)

WorkerType == [pc : Pcs, batch : Seq(Clips), source : Places]

(* A batch is the oldest pending rows, each once.                          *)
LEMMA StartBatchInv ==
  ASSUME IInv, StartBatch
  PROVE  IInv'
<1>1. PICK b \in OldestPending :
        worker' = [Idle EXCEPT !.pc = "next", !.batch = b]
  BY DEF StartBatch
<1>2. PICK n \in 1 .. BatchSize : b \in [1 .. n -> Pending]
  BY DEF OldestPending
<1>3. n \in Nat \ {0} /\ DOMAIN b = 1 .. n
  BY <1>2, GDriveQueueAssumption DEF GDriveQueueAssumption
<1>4. \A i \in 1 .. n : b[i] \in Clips /\ rows[b[i]] = "pending"
  BY <1>2 DEF Pending
<1>5. b \in Seq(Clips) /\ Len(b) = n /\ b # <<>>
  <2>1. b \in [1 .. n -> Clips]
    BY <1>2, <1>4
  <2>2. b \in Seq(Clips)
    BY <1>3, <2>1, SeqDef
  <2>3. DOMAIN b = 1 .. Len(b) /\ Len(b) \in Nat
    BY <2>2, LenProperties
  <2> QED BY <1>3, <2>2, <2>3, EmptySeq
<1>6. worker' = [pc |-> "next", batch |-> b, source |-> "nowhere"]
  BY <1>1 DEF Idle
<1>7. /\ worker.pc = "idle"
      /\ UNCHANGED <<table, uploaded, client, hold, budget, history>>
      /\ Spent' = Spent
  BY SpendCounts DEF StartBatch
<1>8. TypeOK'
  BY <1>5, <1>6, <1>7 DEF IInv, TypeOK, table, history, Pcs, Places
<1>9. \A i, j \in 1 .. n : i # j => b[i] # b[j]
  <2>1. \A i, j \in 1 .. n : i < j => b[i] # b[j]
    BY <1>3 DEF OldestPending
  <2>2. \A i, j \in 1 .. n : i # j => i < j \/ j < i
    BY <1>3
  <2> QED BY <2>1, <2>2
<1>10. \A i \in 1 .. n : Known(b[i], "next")'
  BY <1>4, <1>7 DEF Known, IInv, TableInv, JustUploaded, table, history
<1>11. BatchInv'
  BY <1>5, <1>6, <1>9, <1>10 DEF BatchInv, Known
<1>12. TableInv' /\ CompletedIsUploaded' /\ LimitedUploadStaysQueued'
  BY <1>6, <1>7
  DEF IInv, TableInv, JustUploaded, CompletedIsUploaded,
      LimitedUploadStaysQueued, table, history
<1> QED BY <1>8, <1>11, <1>12 DEF IInv

(* A step of the worker on the clip in hand, which leaves all the rows.    *)
HandMoves(pc) ==
    /\ worker.pc # "idle"
    /\ worker' \in WorkerType
    /\ worker'.batch = worker.batch
    /\ worker'.pc = pc /\ pc \notin {"idle", "next", "checking"}
    /\ UNCHANGED table
    /\ client' \in [connected : BOOLEAN, paused : Pauses,
                    rateLimited : BOOLEAN, quota : BOOLEAN]
    /\ UNCHANGED hold
    /\ budget' \in [Kinds -> Nat] /\ Spent' \in {Spent, Spent + 1}

(* Before the upload, after a failure, and during an upload that is not    *)
(* stored, nothing changes but the reason for the last failure.            *)
LEMMA AttemptInv ==
  ASSUME IInv, NEW pc, HandMoves(pc), UNCHANGED <<uploaded, copies>>,
         worker.pc \notin {"next", "checking"},
         worker.pc \in {"marking", "completing"} => Spent' = Spent + 1,
         pc \notin {"marking", "completing"},
         NEW why \in Blames, blame' = [blame EXCEPT ![Clip] = why],
         pc \in {"recording", "failing"} => why # "limited"
  PROVE  IInv'
<1>1. /\ Clip \in Clips /\ Known(Clip, worker.pc)
      /\ Spent \in Int /\ copies[Clip] \in Nat
      /\ worker.batch # <<>>
  BY HandInBatch, SpendCounts, EmptySeq DEF HandMoves, IInv, TypeOK
<1>2. blame' \in [Clips -> Blames] /\ blame'[Clip] = why
      /\ \A c \in Clips \ {Clip} : blame'[c] = blame[c]
  BY <1>1 DEF IInv, TypeOK
<1>3. TypeOK'
  BY <1>1, <1>2 DEF HandMoves, IInv, TypeOK, table, WorkerType
<1>4. copies[Clip] <= Spent'
  <2>1. worker.pc \notin {"marking", "completing"} => copies[Clip] <= Spent
    BY <1>1 DEF Known
  <2>2. copies[Clip] <= Spent + 1
    BY <1>1 DEF IInv, TableInv
  <2> QED BY <1>1, <2>1, <2>2 DEF HandMoves
<1>5. /\ rows[Clip] # "none" => Clip \in library
      /\ rows[Clip] \in {"processing", "none"}
      /\ rows[Clip] = "none" => Clip \notin library
      /\ Clip \in library => rows[Clip] = "processing"
  BY <1>1 DEF Known, IInv, TypeOK, TableInv
<1>6. Known(Clip, pc)'
  <2>1. Clip' = Clip
    BY DEF HandMoves, Clip
  <2> QED BY <1>2, <1>4, <1>5, <2>1 DEF HandMoves, Known, table
<1>7. worker.pc # "idle" /\ worker'.batch = worker.batch
      /\ worker'.pc = pc /\ pc \notin {"idle", "next"}
      /\ UNCHANGED <<library, rows>> /\ Spent' \in {Spent, Spent + 1}
  BY DEF HandMoves, table
<1>8. copies'[Clip] <= Spent' + 1
  BY <1>1, <1>4, <1>7
<1> QED BY <1>2, <1>3, <1>4, <1>5, <1>6, <1>7, <1>8, HandStepInv

(* Where each step of an attempt leads, and what it blames.                *)
LEMMA AttemptStepsInv ==
  ASSUME IInv,
         \/ FetchClip \/ ClipDeleted \/ Locate
         \/ Resolve \/ ResolveFails
         \/ \E created \in BOOLEAN : ResolveLimited(created)
         \/ StartUpload
         \/ \E full \in BOOLEAN : UploadLimited(full)
         \/ UploadFails(FALSE)
         \/ WriteFails /\ worker'.pc = "failing"
  PROVE  IInv'
<1>1. worker.pc # "idle"
  BY DEF FetchClip, ClipDeleted, Locate, Resolve, ResolveFails, ResolveLimited,
         StartUpload, UploadLimited, UploadFails, WriteFails, Idle
<1>2. /\ worker \in WorkerType /\ Clip \in Clips
      /\ place[Clip] \in Places
      /\ blame \in [Clips -> Blames]
      /\ blame = [blame EXCEPT ![Clip] = blame[Clip]]
      /\ budget \in [Kinds -> Nat]
  BY <1>1, HandInBatch DEF IInv, TypeOK, WorkerType
<1>3. UNCHANGED <<table, uploaded, copies, hold>>
  BY DEF FetchClip, ClipDeleted, Locate, Resolve, ResolveFails, ResolveLimited,
         StartUpload, UploadLimited, UploadFails, WriteFails, table, history
<1>4. /\ budget' \in [Kinds -> Nat] /\ Spent' \in {Spent, Spent + 1}
      /\ worker.pc \in {"marking", "completing"} => Spent' = Spent + 1
  BY <1>2, SpendCounts
  DEF FetchClip, ClipDeleted, Locate, Resolve, ResolveFails, ResolveLimited,
      StartUpload, UploadLimited, UploadFails, WriteFails, Kinds
<1>5. client' \in [connected : BOOLEAN, paused : Pauses,
                   rateLimited : BOOLEAN, quota : BOOLEAN]
  BY DEF FetchClip, ClipDeleted, Locate, Resolve, ResolveFails, ResolveLimited,
         StartUpload, UploadLimited, UploadFails, WriteFails, IInv, TypeOK
<1>6. \E pc \in Pcs, why \in Blames :
         /\ worker' \in WorkerType
         /\ worker'.batch = worker.batch /\ worker'.pc = pc
         /\ pc \notin {"idle", "next", "checking", "marking", "completing"}
         /\ blame' = [blame EXCEPT ![Clip] = why]
         /\ pc \in {"recording", "failing"} => why # "limited"
  <2>1. CASE FetchClip
    BY <1>2, <2>1 DEF FetchClip, WorkerType, Pcs, Places, Blames, history
  <2>2. CASE ClipDeleted \/ ResolveFails
    BY <1>2, <2>2 DEF ClipDeleted, ResolveFails, Goto, Blame, WorkerType, Pcs, Blames
  <2>3. CASE Locate
    BY <1>2, <2>3 DEF Locate, Goto, Blame, WorkerType, Pcs, Blames
  <2>4. CASE Resolve
    BY <1>2, <2>4 DEF Resolve, Goto, WorkerType, Pcs, history
  <2>5. CASE \E created \in BOOLEAN : ResolveLimited(created)
    BY <1>2, <2>5 DEF ResolveLimited, Goto, Blame, WorkerType, Pcs, Blames
  <2>6. CASE StartUpload
    BY <1>2, <2>6 DEF StartUpload, Goto, Blame, WorkerType, Pcs, Blames
  <2>7. CASE \E full \in BOOLEAN : UploadLimited(full)
    <3>1. PICK full \in BOOLEAN : UploadLimited(full)
      BY <2>7
    <3>2. client'.quota \/ client'.rateLimited
      BY <3>1 DEF UploadLimited, IInv, TypeOK
    <3>3. worker' = [worker EXCEPT !.pc = "requeueing"]
      BY <3>1, <3>2 DEF UploadLimited, RecordFailedUpload, Goto
    <3> QED BY <1>2, <3>1, <3>3 DEF UploadLimited, Blame, WorkerType, Pcs, Blames
  <2>8. CASE UploadFails(FALSE)
    BY <1>2, <2>8 DEF UploadFails, RecordFailedUpload, Goto, Blame, WorkerType,
                      Pcs, Blames
  <2>9. CASE WriteFails /\ worker'.pc = "failing"
    BY <1>2, <2>9 DEF WriteFails, Idle, Goto, Blame, WorkerType, Pcs, Blames
  <2> QED BY <2>1, <2>2, <2>3, <2>4, <2>5, <2>6, <2>7, <2>8, <2>9
<1>7. worker.pc \notin {"next", "checking"}
  BY DEF FetchClip, ClipDeleted, Locate, Resolve, ResolveFails, ResolveLimited,
         StartUpload, UploadLimited, UploadFails, WriteFails, Idle
<1>8. PICK pc \in Pcs, why \in Blames :
         /\ worker' \in WorkerType
         /\ worker'.batch = worker.batch /\ worker'.pc = pc
         /\ pc \notin {"idle", "next", "checking", "marking", "completing"}
         /\ blame' = [blame EXCEPT ![Clip] = why]
         /\ pc \in {"recording", "failing"} => why # "limited"
  BY <1>6
<1>9. HandMoves(pc)
  BY <1>1, <1>3, <1>4, <1>5, <1>8 DEF HandMoves
<1> QED BY <1>3, <1>4, <1>7, <1>8, <1>9, AttemptInv

(* Drive stores the clip once more: either its reply is lost, which is one *)
(* fault more, or the row is about to be completed.                        *)
LEMMA StoredInv ==
  ASSUME IInv, UploadOk \/ UploadFails(TRUE)
  PROVE  IInv'
<1>1. worker.pc = "sending"
  BY DEF UploadOk, UploadFails
<1>2. /\ worker \in WorkerType /\ worker.batch # <<>>
      /\ Clip \in Clips /\ Known(Clip, worker.pc)
      /\ Spent \in Int /\ copies[Clip] \in Nat /\ copies[Clip] <= Spent
      /\ Clip \in library => rows[Clip] = "processing"
      /\ Clip \notin library => rows[Clip] = "none"
  <2>1. worker.batch # <<>> /\ Clip \in Clips /\ Known(Clip, worker.pc)
    BY <1>1, HandInBatch, EmptySeq
  <2> QED BY <1>1, <2>1, SpendCounts DEF Known, IInv, TypeOK, TableInv, WorkerType
<1>3. /\ copies' = [copies EXCEPT ![Clip] = @ + 1]
      /\ UNCHANGED <<table, uploaded, client, hold>>
  BY DEF UploadOk, UploadFails
<1>4. /\ copies' \in [Clips -> Nat] /\ copies'[Clip] = copies[Clip] + 1
      /\ \A c \in Clips \ {Clip} : copies'[c] = copies[c]
  BY <1>2, <1>3 DEF IInv, TypeOK
<1>5. \E pc \in Pcs, why \in Blames :
         /\ worker' = [worker EXCEPT !.pc = pc]
         /\ pc \in {"marking", "recording", "requeueing"}
         /\ blame' = [blame EXCEPT ![Clip] = why]
         /\ pc = "recording" => why # "limited"
         /\ budget' \in [Kinds -> Nat]
         /\ \/ Spent' = Spent + 1
            \/ Spent' = Spent /\ pc = "marking"
  <2>1. CASE UploadOk
    <3>1. /\ blame = [blame EXCEPT ![Clip] = blame[Clip]]
          /\ blame[Clip] \in Blames /\ budget \in [Kinds -> Nat]
      BY <1>2 DEF IInv, TypeOK
    <3> QED BY <2>1, <3>1, SpendCounts DEF UploadOk, Goto, Pcs
  <2>2. CASE UploadFails(TRUE)
    BY <2>2, SpendCounts
    DEF UploadFails, RecordFailedUpload, Goto, Blame, Pcs, Blames, Kinds
  <2> QED BY <2>1, <2>2
<1>6. PICK pc \in Pcs, why \in Blames :
         /\ worker' = [worker EXCEPT !.pc = pc]
         /\ pc \in {"marking", "recording", "requeueing"}
         /\ blame' = [blame EXCEPT ![Clip] = why]
         /\ pc = "recording" => why # "limited"
         /\ budget' \in [Kinds -> Nat]
         /\ \/ Spent' = Spent + 1
            \/ Spent' = Spent /\ pc = "marking"
  BY <1>5
<1>7. /\ worker' \in WorkerType /\ worker'.batch = worker.batch
      /\ worker'.pc = pc /\ Clip' = Clip
      /\ blame' \in [Clips -> Blames] /\ blame'[Clip] = why
      /\ \A c \in Clips \ {Clip} : blame'[c] = blame[c]
  BY <1>2, <1>6 DEF WorkerType, Clip, IInv, TypeOK
<1>8. TypeOK'
  BY <1>2, <1>3, <1>4, <1>6, <1>7 DEF IInv, TypeOK, table, WorkerType
<1>9. Known(Clip, pc)'
  BY <1>2, <1>3, <1>4, <1>6, <1>7 DEF Known, table
<1>10. /\ copies'[Clip] <= Spent' + 1
       /\ copies'[Clip] <= Spent' \/ pc = "marking"
  BY <1>2, <1>4, <1>6
<1>11. /\ worker.pc # "idle" /\ pc \notin {"idle", "next"}
       /\ UNCHANGED <<library, rows, uploaded>> /\ Spent' \in {Spent, Spent + 1}
  BY <1>1, <1>3, <1>6 DEF table
<1> QED
  BY <1>2, <1>4, <1>6, <1>7, <1>8, <1>9, <1>10, <1>11, HandStepInv

(* A write to the row of the clip in hand, or to its entry in the library, *)
(* touches no other and brings none back from a deletion.                  *)
LEMMA RowWritesInv ==
  ASSUME IInv, TakeItem \/ MarkUploaded \/ Complete \/ Requeue \/ Fail
  PROVE  IInv'
<1>1. worker.pc \in {"next", "marking", "completing", "requeueing", "recording",
                     "failing"}
  BY DEF TakeItem, MarkUploaded, Complete, Requeue, Fail
<1>2. /\ worker \in WorkerType /\ worker.batch # <<>>
      /\ Clip \in Clips /\ Known(Clip, worker.pc)
      /\ Spent \in Int /\ copies[Clip] \in Nat
      /\ rows[Clip] \in Statuses
  BY <1>1, HandInBatch, SpendCounts, EmptySeq DEF IInv, TypeOK, WorkerType
<1>3. /\ UNCHANGED <<library, before, place, client, hold, budget, copies>>
      /\ Spent' = Spent
  BY SpendCounts
  DEF TakeItem, MarkUploaded, Complete, Requeue, Fail, table, history
<1>4. PICK pc \in {"fetching", "completing", "checking"} :
         /\ worker' = [worker EXCEPT !.pc = pc]
         /\ TakeItem => pc = "fetching"
         /\ MarkUploaded => pc = "completing"
         /\ Complete \/ Requeue \/ Fail => pc = "checking"
  BY DEF TakeItem, MarkUploaded, Complete, Requeue, Fail, Goto
<1>5. worker' \in WorkerType /\ worker'.batch = worker.batch /\ worker'.pc = pc
      /\ Clip' = Clip
  BY <1>2, <1>4 DEF WorkerType, Pcs, Clip
<1>6. /\ rows' \in [Clips -> Statuses]
      /\ blame' \in [Clips -> Blames]
      /\ uploaded' = uploaded \/ uploaded' = uploaded \cup ({Clip} \cap library)
      /\ \A c \in Clips \ {Clip} : /\ rows'[c] = rows[c]
                                   /\ blame'[c] = blame[c]
                                   /\ c \in uploaded' <=> c \in uploaded
      /\ rows[Clip] = "none" => rows'[Clip] = "none"
  BY <1>2
  DEF TakeItem, MarkUploaded, Complete, Requeue, Fail, UpdateStatus, Blame,
      IInv, TypeOK, Statuses, Blames, table, history
<1>7. TypeOK'
  <2>1. uploaded' \subseteq library'
    BY <1>3, <1>6 DEF IInv, TypeOK
  <2> QED BY <1>2, <1>3, <1>4, <1>5, <1>6, <2>1 DEF IInv, TypeOK, WorkerType
<1>8. /\ Clip \in library => rows[Clip] \in {"pending", "processing"}
      /\ Clip \notin library <=> rows[Clip] = "none"
  BY <1>1, <1>2 DEF Known, IInv, TableInv
<1>9. /\ copies[Clip] <= Spent + 1
      /\ worker.pc \notin {"marking", "completing"} => copies[Clip] <= Spent
  BY <1>1, <1>2 DEF Known, IInv, TableInv
<1>10. /\ rows'[Clip] # "none" <=> Clip \in library
       /\ \/ copies[Clip] <= Spent
          \/ rows'[Clip] \in {"none", "completed"} /\ pc = "checking"
          \/ pc = "completing"
       /\ rows'[Clip] = "completed" => Clip \in uploaded'
       /\ rows'[Clip] = "failed" => blame'[Clip] # "limited"
       /\ pc = "fetching" => /\ Clip \in library => rows'[Clip] = "processing"
                             /\ copies[Clip] <= Spent
       /\ pc = "completing" => /\ Clip \in library => rows'[Clip] = "processing"
                               /\ Clip \in library => Clip \in uploaded'
  <2>1. CASE TakeItem
    BY <1>2, <1>4, <1>8, <1>9, <2>1 DEF TakeItem, UpdateStatus, IInv, TypeOK
  <2>2. CASE MarkUploaded
    BY <1>2, <1>4, <1>8, <1>9, <2>2 DEF MarkUploaded, table, Known
  <2>3. CASE Complete
    BY <1>2, <1>4, <1>8, <1>9, <2>3
    DEF Complete, UpdateStatus, IInv, TypeOK, Known
  <2>4. CASE Requeue
    BY <1>2, <1>4, <1>8, <1>9, <2>4 DEF Requeue, UpdateStatus, IInv, TypeOK
  <2>5. CASE Fail
    BY <1>2, <1>4, <1>8, <1>9, <2>5
    DEF Fail, UpdateStatus, IInv, TypeOK, Known, history
  <2> QED BY <2>1, <2>2, <2>3, <2>4, <2>5
<1>11. Known(Clip, pc)'
  BY <1>3, <1>4, <1>5, <1>10 DEF Known
<1>12. worker.pc # "idle" /\ pc \notin {"idle", "next"}
       /\ UNCHANGED <<library, copies>> /\ Spent' \in {Spent, Spent + 1}
       /\ copies'[Clip] <= Spent' + 1
  BY <1>1, <1>3, <1>9
<1> QED
  BY <1>3, <1>5, <1>6, <1>7, <1>10, <1>11, <1>12, HandStepInv

(* A write outside the try fails, or the program restarts.                 *)
LEMMA AbandonedInv ==
  ASSUME IInv, Restart \/ (WriteFails /\ worker'.pc # "failing")
  PROVE  IInv'
<1>1. /\ UNCHANGED <<library, before, place, uploaded, copies, blame>>
      /\ worker' = Idle
      /\ budget' \in [Kinds -> Nat] /\ Spent' = Spent + 1
  <2>1. worker.pc # "idle" => worker \in WorkerType
    BY DEF IInv, TypeOK, WorkerType
  <2> QED
    BY <2>1, SpendCounts
    DEF Restart, WriteFails, Goto, table, history, Kinds, WorkerType
<1>2. /\ rows' \in [Clips -> Statuses]
      /\ \A c \in Clips : \/ rows'[c] = rows[c]
                          \/ rows[c] = "processing" /\ rows'[c] = "pending"
  BY DEF Restart, WriteFails, table, IInv, TypeOK, Statuses
<1>3. /\ client' \in [connected : BOOLEAN, paused : Pauses,
                      rateLimited : BOOLEAN, quota : BOOLEAN]
      /\ hold' \in BOOLEAN
  BY DEF Restart, WriteFails, IInv, TypeOK
<1>4. worker' \in WorkerType /\ worker'.pc = "idle" /\ worker'.batch = <<>>
  BY <1>1, EmptySeq DEF Idle, WorkerType, Pcs, Places
<1>5. TypeOK'
  BY <1>1, <1>2, <1>3, <1>4 DEF IInv, TypeOK, WorkerType
<1> QED BY <1>1, <1>2, <1>4, <1>5, BatchEndsInv

(* The clip is done with: the batch is over, or its next clip is in hand.  *)
LEMMA CheckDriveStateInv ==
  ASSUME IInv, CheckDriveState
  PROVE  IInv'
<1>1. /\ worker.pc = "checking"
      /\ UNCHANGED <<table, uploaded, budget, copies, blame>>
      /\ Spent' = Spent
  BY SpendCounts DEF CheckDriveState
<1>2. /\ client' \in [connected : BOOLEAN, paused : Pauses,
                      rateLimited : BOOLEAN, quota : BOOLEAN]
      /\ hold' \in BOOLEAN
  BY DEF CheckDriveState, IInv, TypeOK, Pauses
<1>3. /\ worker.batch \in Seq(Clips) /\ Len(worker.batch) \in Nat \ {0}
      /\ Clip = worker.batch[1]
  BY <1>1, HandInBatch
<1>4. CASE worker' = Idle
  <2>1. worker' \in WorkerType /\ worker'.pc = "idle" /\ worker'.batch = <<>>
    BY <1>4, EmptySeq DEF Idle, WorkerType, Pcs, Places
  <2>2. TypeOK'
    BY <1>1, <1>2, <2>1 DEF IInv, TypeOK, table, WorkerType
  <2> QED BY <1>1, <2>1, <2>2, BatchEndsInv DEF table
<1>5. CASE worker' # Idle
  <2> DEFINE b == worker.batch
  <2>0. PICK t : t = Tail(worker.batch)
    OBVIOUS
  <2>1. worker' = [pc |-> "next", batch |-> t, source |-> "nowhere"]
        /\ Len(b) # 1
    BY <1>5, <2>0 DEF CheckDriveState, Idle
  <2>2. /\ t \in Seq(Clips) /\ Len(t) = Len(b) - 1 /\ Len(t) \in Nat \ {0}
        /\ \A i \in 1 .. Len(t) : t[i] = b[i + 1] /\ t[i] \in Clips
    BY <1>3, <2>0, <2>1, HeadTailProperties, ElementOfSeq, LenProperties
  <2>3. t # <<>>
    BY <2>2, EmptySeq
  <2>4. TypeOK'
    BY <1>1, <1>2, <2>1, <2>2, <2>3 DEF IInv, TypeOK, table, Pcs, Places
  <2>5. \A i \in 1 .. Len(t) : Known(t[i], "next")'
    BY <1>1, <1>3, <2>2 DEF IInv, BatchInv, Known, table
  <2>6. \A i, j \in 1 .. Len(t) : i # j => t[i] # t[j]
    <3> SUFFICES ASSUME NEW i \in 1 .. Len(t), NEW j \in 1 .. Len(t), i # j
                 PROVE  t[i] # t[j]
      OBVIOUS
    <3>1. /\ i + 1 \in 1 .. Len(b) /\ j + 1 \in 1 .. Len(b) /\ i + 1 # j + 1
          /\ t[i] = b[i + 1] /\ t[j] = b[j + 1]
      BY <1>3, <2>2
    <3> QED BY <3>1 DEF IInv, BatchInv
  <2>7. BatchInv'
    BY <2>1, <2>5, <2>6 DEF BatchInv, Known
  <2>8. TableInv' /\ CompletedIsUploaded' /\ LimitedUploadStaysQueued'
    BY <1>1, <2>1
    DEF IInv, TableInv, JustUploaded, CompletedIsUploaded,
        LimitedUploadStaysQueued, table
  <2> QED BY <2>4, <2>7, <2>8 DEF IInv
<1> QED BY <1>4, <1>5

LEMMA StepInv == IInv /\ [Next]_vars => IInv'
<1> SUFFICES ASSUME IInv, [Next]_vars PROVE IInv'
  OBVIOUS
<1>1. CASE LibraryStep
  BY <1>1, LibraryStepInv
<1>2. CASE TableStep
  BY <1>2, TableStepInv
<1>3. CASE ClientStep \/ HoldOffEnds \/ UNCHANGED vars
  BY <1>3, ClientStepInv
<1>4. CASE WorkerStep
  <2>1. CASE StartBatch
    BY <2>1, StartBatchInv
  <2>2. CASE TakeItem \/ MarkUploaded \/ Complete \/ Requeue \/ Fail
    BY <2>2, RowWritesInv
  <2>3. CASE \/ FetchClip \/ ClipDeleted \/ Locate
             \/ Resolve \/ ResolveFails
             \/ \E created \in BOOLEAN : ResolveLimited(created)
    BY <2>3, AttemptStepsInv
  <2>4. CASE UploadStep
    <3>1. CASE UploadOk \/ UploadFails(TRUE)
      BY <3>1, StoredInv
    <3>2. CASE StartUpload \/ (\E full \in BOOLEAN : UploadLimited(full))
                 \/ UploadFails(FALSE)
      BY <3>2, AttemptStepsInv
    <3> QED BY <2>4, <3>1, <3>2 DEF UploadStep
  <2>5. CASE WriteFails
    BY <2>5, AbandonedInv, AttemptStepsInv
  <2>6. CASE CheckDriveState
    BY <2>6, CheckDriveStateInv
  <2> QED BY <1>4, <2>1, <2>2, <2>3, <2>4, <2>5, <2>6 DEF WorkerStep
<1>5. CASE Restart
  BY <1>5, AbandonedInv
<1> QED BY <1>1, <1>2, <1>3, <1>4, <1>5 DEF Next

-----------------------------------------------------------------------------
(* Every reachable state satisfies the inductive invariant.                *)
THEOREM Invariance == Spec => []IInv
  BY InitInv, StepInv, PTL DEF Spec

(* The table, the client, the worker and its batch keep their shape; an    *)
(* idle worker has no batch, and only a clip of the library has a backup.  *)
THEOREM TypeCorrect == Spec => []TypeOK
<1>1. IInv => TypeOK
  BY DEF IInv
<1> QED BY <1>1, Invariance, PTL

(* A completed row's clip knows its backup.                                *)
THEOREM BackupKnown == Spec => []CompletedIsUploaded
<1>1. IInv => CompletedIsUploaded
  BY DEF IInv
<1> QED BY <1>1, Invariance, PTL

(* Each copy of a clip on Drive beyond the first takes a lost reply, a     *)
(* failed database call or a restart of its own.                           *)
THEOREM EveryCopyAccountedFor == Spec => []CopiesAccountedFor
<1>1. IInv => CopiesAccountedFor
  <2> SUFFICES ASSUME IInv, NEW c \in Clips
               PROVE  copies[c] <= 1 + (MaxDriveFaults - budget["drive"])
                                     + (MaxDbErrors - budget["db"])
                                     + (MaxCrashes - budget["crash"])
    BY DEF CopiesAccountedFor
  <2>1. /\ copies[c] <= Spent + 1 /\ copies[c] \in Nat
        /\ \A kind \in Kinds : budget[kind] \in Nat
    BY DEF IInv, TableInv, TypeOK
  <2> QED
    BY <2>1, GDriveQueueAssumption DEF GDriveQueueAssumption, Spent, Kinds
<1> QED BY <1>1, Invariance, PTL

(* An upload that Drive refused, being full or busy, fails no clip.        *)
THEOREM LimitsFailNoClip == Spec => []LimitedUploadStaysQueued
<1>1. IInv => LimitedUploadStaysQueued
  BY DEF IInv
<1> QED BY <1>1, Invariance, PTL

-----------------------------------------------------------------------------
(* The table implements the abstract queue.                                *)

LEMMA ProgressMoves ==
  ASSUME NEW c \in Clips, NEW from, NEW to,
         Progress(rows[c]) = from, Progress(rows'[c]) = to,
         \A d \in Clips \ {c} : rows'[d] = rows[d]
  PROVE  Queue!Move(c, from, to)
  BY DEF Queue!Move

LEMMA ProgressKept ==
  ASSUME \A d \in Clips : Progress(rows'[d]) = Progress(rows[d])
  PROVE  UNCHANGED [c \in Clips |-> Progress(rows[c])]
  OBVIOUS

(* A status written for the clip in hand moves it along the abstract       *)
(* queue, if it still has a row.                                           *)
LEMMA StatusMoves ==
  ASSUME IInv, TakeItem \/ Complete \/ Requeue \/ Fail
  PROVE  [Queue!Next]_[c \in Clips |-> Progress(rows[c])]
<1>1. worker.pc \in {"next", "completing", "requeueing", "recording", "failing"}
  BY DEF TakeItem, Complete, Requeue, Fail
<1>2. PICK c \in Clips : c = Clip /\ Known(c, worker.pc)
  BY <1>1, HandInBatch
<1>3. rows[c] \in {"none", "pending", "processing"}
  BY <1>1, <1>2 DEF Known, IInv, TableInv, TypeOK
<1>4. PICK s \in {"processing", "completed", "pending", "failed"} :
        UpdateStatus(c, s)
  BY <1>2 DEF TakeItem, Complete, Requeue, Fail
<1>5. /\ \A d \in Clips \ {c} : rows'[d] = rows[d]
      /\ rows'[c] = IF rows[c] = "none" THEN "none" ELSE s
  BY <1>4 DEF UpdateStatus, IInv, TypeOK
<1>6. CASE rows[c] = "none" \/ s \in {"processing", "pending"}
  <2>1. Progress(rows'[c]) = Progress(rows[c])
    BY <1>3, <1>5, <1>6 DEF Progress
  <2> QED BY <1>5, <2>1, ProgressKept
<1>7. CASE rows[c] # "none" /\ s \in {"completed", "failed"}
  <2>1. /\ Progress(rows[c]) = "queued"
        /\ Progress(rows'[c]) = IF s = "completed" THEN "done" ELSE "failed"
    BY <1>3, <1>5, <1>7 DEF Progress
  <2>2. Queue!Move(c, "queued", "done") \/ Queue!Move(c, "queued", "failed")
    BY <1>5, <2>1, ProgressMoves
  <2> QED BY <2>2 DEF Queue!Next
<1> QED BY <1>4, <1>6, <1>7

(* The Storage tab's and the library's changes of the table.               *)
LEMMA TableMoves ==
  ASSUME IInv, TableStep \/ LibraryStep
  PROVE  [Queue!Next]_[c \in Clips |-> Progress(rows[c])]
<1>1. CASE \E c \in Clips : Enqueue(c)
  <2>1. PICK c \in Clips : Enqueue(c)
    BY <1>1
  <2>2. /\ rows[c] \in {"none", "failed"} /\ rows'[c] = "pending"
        /\ \A d \in Clips \ {c} : rows'[d] = rows[d]
    BY <2>1 DEF Enqueue, IInv, TypeOK
  <2>3. CASE rows[c] = "none"
    <3>1. Queue!Move(c, "absent", "queued")
      BY <2>2, <2>3, ProgressMoves DEF Progress
    <3> QED BY <3>1 DEF Queue!Next
  <2>4. CASE rows[c] = "failed"
    <3>1. Queue!RequeueFailed({c})
      BY <2>2, <2>4 DEF Queue!RequeueFailed, Progress
    <3> QED BY <3>1 DEF Queue!Next
  <2> QED BY <2>2, <2>3, <2>4
<1>2. ASSUME NEW S \in {{c} : c \in Failed} \cup {{}, Failed}, Retry(S)
      PROVE  Queue!Next
  <2>1. S \in SUBSET Clips /\ \A c \in S : rows[c] = "failed"
    BY DEF Failed
  <2>2. Queue!RequeueFailed(S)
    BY <1>2, <2>1 DEF Retry, Queue!RequeueFailed, Progress
  <2> QED BY <2>1, <2>2 DEF Queue!Next
<1>3. ASSUME NEW S \in {{c} : c \in Failed} \cup {{}, Failed}, ClearFailed(S)
      PROVE  Queue!Next
  <2>1. S \in SUBSET Clips /\ \A c \in S : rows[c] = "failed"
    BY DEF Failed
  <2>2. Queue!ClearFailed(S)
    BY <1>3, <2>1 DEF ClearFailed, Queue!ClearFailed, Progress
  <2> QED BY <2>1, <2>2 DEF Queue!Next
<1>4. CASE \E c \in Clips : Archive(c)
  <2>1. UNCHANGED rows
    BY <1>4 DEF Archive
  <2> QED BY <2>1, ProgressKept
<1>5. CASE \E c \in Clips : DeleteClip(c)
  <2>1. PICK c \in Clips : DeleteClip(c)
    BY <1>5
  <2>2. \A d \in Clips : Progress(rows'[d]) = IF d = c THEN "absent"
                                              ELSE Progress(rows[d])
    BY <2>1 DEF DeleteClip, Progress, IInv, TypeOK
  <2>3. Queue!Forget({c})
    BY <2>2 DEF Queue!Forget
  <2> QED BY <2>3 DEF Queue!Next
<1> QED BY <1>1, <1>2, <1>3, <1>4, <1>5 DEF TableStep, LibraryStep

LEMMA QueueStep ==
  ASSUME IInv, [Next]_vars
  PROVE  [Queue!Next]_[c \in Clips |-> Progress(rows[c])]
<1>1. CASE UNCHANGED rows
  BY <1>1, ProgressKept
<1>2. CASE Restart
  <2>1. \A c \in Clips : Progress(rows'[c]) = Progress(rows[c])
    BY <1>2 DEF Restart, Progress, IInv, TypeOK
  <2> QED BY <2>1, ProgressKept
<1>3. CASE TableStep \/ LibraryStep
  BY <1>3, TableMoves
<1>4. CASE TakeItem \/ Complete \/ Requeue \/ Fail
  BY <1>4, StatusMoves
<1> QED
  BY <1>1, <1>2, <1>3, <1>4
  DEF Next, ClientStep, Connect, Disconnect, Pause, Resume, OtherCallLimited,
      OtherUploadStarts, HoldOffEnds, WorkerStep, StartBatch, FetchClip,
      ClipDeleted, Locate, Resolve, ResolveLimited, ResolveFails, UploadStep,
      StartUpload, UploadOk, UploadLimited, UploadFails, MarkUploaded,
      WriteFails, CheckDriveState, vars, table

(* A finished upload is never queued again, and a clip comes back to the   *)
(* queue only once its attempt has failed.                                 *)
THEOREM QueueImplemented == Spec => ImplementsWorkQueue
<1>1. Init => Queue!Init
  BY DEF Init, Queue!Init, Progress
<1>2. IInv /\ [Next]_vars => [Queue!Next]_[c \in Clips |-> Progress(rows[c])]
  BY QueueStep
<1> QED BY <1>1, <1>2, Invariance, PTL
      DEF Spec, Queue!Spec, ImplementsWorkQueue
=============================================================================
