------------------------ MODULE AnalysisQueue_proofs ------------------------
(***************************************************************************)
(* Proofs about AnalysisQueue, for any clips, batch size, retry limit and  *)
(* bounds: no two analyses overlap, a completed row has its verdict, a     *)
(* clip is alerted at most once, a failure is earned, and the table        *)
(* implements the abstract work queue.                                     *)
(***************************************************************************)
EXTENDS AnalysisQueue, TLAPS, SequenceTheorems

-----------------------------------------------------------------------------
(* The inductive invariant.                                                *)

(* Rows belong to clips in the library; a clip is queued once.             *)
TableInv ==
    /\ library \cap gone = {}
    /\ \A c \in Clips : /\ rows[c].status # "none" => c \in library
                        /\ rows[c].retries <= MaxRetries
    /\ \A i, j \in 1 .. Len(order) : i # j => order[i] # order[j]
    /\ \A i \in 1 .. Len(order) :
           order[i] \in gone \/ rows[order[i]].status # "none"

(* The status of the first row of the batch, where its clip still has one. *)
InHand == CASE worker.pc = "next" -> "pending"
            [] worker.pc = "alerting" -> "completed"
            [] OTHER -> "processing"

(* What the worker knows of an entry of its batch: the row is as fetched,  *)
(* but for the status of the one in hand, or the clip has been deleted;    *)
(* and no alert has gone out for it.                                       *)
Known(item, status) ==
    /\ alerts[item.clip] = 0
    /\ item.retries <= MaxRetries
    /\ \/ item.clip \in gone
       \/ rows[item.clip] = [status |-> status, retries |-> item.retries]

BatchInv ==
    /\ \A i, j \in 1 .. Len(worker.batch) :
           i # j => worker.batch[i].clip # worker.batch[j].clip
    /\ \A i \in 1 .. Len(worker.batch) :
           Known(worker.batch[i], IF i = 1 THEN InHand ELSE "pending")
    /\ worker.retries <= MaxRetries

VerdictInv ==
    /\ CompletedHasVerdict
    /\ worker.pc = "completing" => Clip \in saved \cup gone

FailureInv ==
    /\ FailureEarned
    /\ worker.pc = "failing" =>
           /\ blame[Clip] # "limited"
           /\ blame[Clip] = "transient" => Item.retries = MaxRetries

IInv == /\ TypeOK /\ OneAnalysis /\ TableInv /\ BatchInv
        /\ VerdictInv /\ AlertedOnce /\ FailureInv

-----------------------------------------------------------------------------
LEMMA InitInv == Init => IInv
<1> SUFFICES ASSUME Init PROVE IInv
  OBVIOUS
<1>1. order = <<>> /\ Len(order) = 0 /\ worker = Idle /\ Len(worker.batch) = 0
  BY DEF Init, Idle
<1>2. TypeOK
  <2>1. order \in Seq(Clips) /\ worker.batch \in Seq(Items)
    BY <1>1, EmptySeq DEF Idle
  <2>2. budget \in [Kinds -> Nat]
    BY AnalysisQueueAssumption
    DEF AnalysisQueueAssumption, Init, Budget0, Kinds
  <2>3. worker \in [pc : Pcs, batch : Seq(Items), suspicious : BOOLEAN,
                    retries : Nat]
    BY <1>1, <2>1 DEF Idle, Pcs
  <2>4. worker.pc = "idle" <=> worker.batch = <<>>
    BY <1>1 DEF Idle
  <2> QED
    BY <2>1, <2>2, <2>3, <2>4
    DEF Init, TypeOK, Rows, NoRow, Statuses, Analyzer0, Blames
<1>3. OneAnalysis /\ TableInv /\ BatchInv
  BY <1>1, AnalysisQueueAssumption
  DEF AnalysisQueueAssumption, Init, OneAnalysis, TableInv, BatchInv, NoRow,
      Idle, Analyzer0
<1>4. VerdictInv /\ AlertedOnce /\ FailureInv
  BY DEF Init, VerdictInv, CompletedHasVerdict, AlertedOnce, FailureInv,
         FailureEarned, NoRow, Idle
<1> QED BY <1>2, <1>3, <1>4 DEF IInv

LEMMA BatchTyped ==
  ASSUME IInv
  PROVE  /\ worker.batch \in Seq(Items) /\ Len(worker.batch) \in Nat
         /\ \A i \in 1 .. Len(worker.batch) :
                worker.batch[i] \in Items /\ worker.batch[i].clip \in Clips
<1>1. worker.batch \in Seq(Items)
  BY DEF IInv, TypeOK
<1>2. \A i \in 1 .. Len(worker.batch) : worker.batch[i] \in Items
  BY <1>1, ElementOfSeq
<1> QED BY <1>1, <1>2, LenProperties DEF Items

(* While it has a batch, the worker has a clip in hand.                    *)
LEMMA HandInBatch ==
  ASSUME IInv, worker.pc # "idle"
  PROVE  /\ worker.batch \in Seq(Items) /\ Len(worker.batch) \in Nat \ {0}
         /\ Item = worker.batch[1] /\ Item \in Items
         /\ Clip \in Clips /\ Item.retries \in Nat
         /\ Known(Item, InHand)
<1>1. worker.batch \in Seq(Items) /\ worker.batch # <<>>
  BY DEF IInv, TypeOK
<1>2. Len(worker.batch) \in Nat \ {0} /\ worker.batch[1] \in Items
  BY <1>1, EmptySeq, LenProperties, ElementOfSeq
<1>3. Item = worker.batch[1]
  BY <1>1 DEF Item
<1> QED BY <1>1, <1>2, <1>3 DEF Clip, Items, IInv, BatchInv

LEMMA SpendTyped ==
  ASSUME IInv, NEW kind \in Kinds, Spend(kind)
  PROVE  budget' \in [Kinds -> Nat]
  BY DEF IInv, TypeOK, Spend

(* A step that leaves the queue and the worker's batch alone.              *)
LEMMA BatchKept ==
  ASSUME IInv,
         UNCHANGED <<rows, gone, order, library, alerts>>,
         worker'.batch = worker.batch,
         InHand' = InHand,
         worker'.retries <= MaxRetries
  PROVE  TableInv' /\ BatchInv'
<1>1. TableInv'
  BY DEF IInv, TableInv
<1> QED BY <1>1 DEF IInv, BatchInv, Known
(* Going on to the next item: what was known of the rest of the batch      *)
(* still is, as long as the step touched the finished clip only.           *)
LEMMA AfterItemBatch ==
  ASSUME IInv, worker.pc # "idle", AfterItem,
         UNCHANGED <<library, gone, order>>,
         \A c \in Clips \ {Clip} : rows'[c] = rows[c] /\ alerts'[c] = alerts[c]
  PROVE  /\ BatchInv'
         /\ worker' \in [pc : Pcs, batch : Seq(Items), suspicious : BOOLEAN,
                         retries : Nat]
         /\ worker'.pc = "idle" <=> worker'.batch = <<>>
         /\ worker'.pc \in {"idle", "next"}
<1>1. /\ worker.batch \in Seq(Items) /\ Len(worker.batch) \in Nat \ {0}
      /\ Clip = worker.batch[1].clip
  BY HandInBatch DEF Clip
<1>2. CASE worker' = Idle
  <2>1. Len(worker'.batch) = 0 /\ worker'.batch \in Seq(Items)
    BY <1>2, EmptySeq DEF Idle
  <2> QED
    BY <1>2, <2>1, AnalysisQueueAssumption
    DEF AnalysisQueueAssumption, BatchInv, Idle, Pcs
<1>3. CASE worker' = [Idle EXCEPT !.pc = "next", !.batch = Tail(worker.batch)]
           /\ Len(worker.batch) # 1
  <2> DEFINE b == worker.batch
  <2>0. PICK t : t = Tail(worker.batch)
    OBVIOUS
  <2>1. /\ t \in Seq(Items) /\ Len(t) = Len(b) - 1 /\ Len(t) \in Nat \ {0}
        /\ \A i \in 1 .. Len(t) : t[i] = b[i + 1] /\ t[i] \in Items
    BY <1>1, <1>3, <2>0, HeadTailProperties, ElementOfSeq, LenProperties
  <2>2. worker'.batch = t /\ worker'.pc = "next" /\ worker'.retries = 0
        /\ worker'.suspicious = FALSE
    BY <1>3, <2>0 DEF Idle
  <2>3. \A i \in 1 .. Len(t) : Known(t[i], "pending") /\ t[i].clip # Clip
    BY <1>1, <2>1 DEF IInv, BatchInv
  <2>4. \A i \in 1 .. Len(t) : Known(t[i], "pending")'
    <3> SUFFICES ASSUME NEW i \in 1 .. Len(t)
                 PROVE  Known(t[i], "pending")'
      OBVIOUS
    <3>1. t[i].clip \in Clips /\ t[i].clip # Clip /\ Known(t[i], "pending")
      BY <2>1, <2>3 DEF Items
    <3>2. rows'[t[i].clip] = rows[t[i].clip] /\ alerts'[t[i].clip] = alerts[t[i].clip]
      BY <3>1
    <3> QED BY <3>1, <3>2 DEF Known
  <2>5. \A i, j \in 1 .. Len(t) : i # j => t[i].clip # t[j].clip
    <3> SUFFICES ASSUME NEW i \in 1 .. Len(t), NEW j \in 1 .. Len(t), i # j
                 PROVE  t[i].clip # t[j].clip
      OBVIOUS
    <3>1. /\ i + 1 \in 1 .. Len(b) /\ j + 1 \in 1 .. Len(b) /\ i + 1 # j + 1
          /\ t[i] = b[i + 1] /\ t[j] = b[j + 1]
      BY <1>1, <2>1
    <3> QED BY <3>1 DEF IInv, BatchInv
  <2>6. worker' = [pc |-> "next", batch |-> t, suspicious |-> FALSE, retries |-> 0]
    BY <1>3, <2>0 DEF Idle
  <2>7. t # <<>>
    BY <2>1, EmptySeq
  <2>8. BatchInv'
    BY <2>2, <2>4, <2>5, AnalysisQueueAssumption
    DEF AnalysisQueueAssumption, BatchInv, InHand
  <2> QED BY <2>1, <2>6, <2>7, <2>8 DEF Pcs
<1> QED BY <1>1, <1>2, <1>3 DEF AfterItem

-----------------------------------------------------------------------------
(* Steps outside the worker.                                               *)
LEMMA LibraryStepInv ==
  ASSUME IInv, LibraryStep
  PROVE  IInv'
<1>1. CASE \E c \in Clips : AddClip(c)
  <2>1. PICK c \in Clips : AddClip(c)
    BY <1>1
  <2>2. TypeOK' /\ OneAnalysis'
    BY <2>1 DEF AddClip, IInv, TypeOK, OneAnalysis, history
  <2>4. TableInv'
    BY <2>1 DEF AddClip, IInv, TableInv
  <2>3. BatchInv' /\ VerdictInv' /\ AlertedOnce' /\ FailureInv'
    BY <2>1 DEF AddClip, IInv, BatchInv, Known, InHand, VerdictInv, AlertedOnce,
                CompletedHasVerdict, FailureInv, FailureEarned, Clip, Item, history
  <2> QED BY <2>2, <2>3, <2>4 DEF IInv
<1>2. CASE \E c \in Clips : Enqueue(c)
  <2>1. PICK c \in Clips : Enqueue(c)
    BY <1>2
  <2>2. /\ rows'[c] = [status |-> "pending", retries |-> 0]
        /\ \A d \in Clips \ {c} : rows'[d] = rows[d]
        /\ rows[c].status = "none" /\ c \in library /\ c \notin gone
    BY <2>1 DEF Enqueue, IInv, TypeOK, TableInv
  <2>3. /\ order \in Seq(Clips) /\ order' \in Seq(Clips)
        /\ Len(order') = Len(order) + 1 /\ Len(order) \in Nat
        /\ order'[Len(order) + 1] = c
        /\ \A i \in 1 .. Len(order) : order'[i] = order[i] /\ order[i] \in Clips
    BY <2>1, AppendProperties, LenProperties, ElementOfSeq DEF Enqueue, IInv, TypeOK
  <2>4. TypeOK' /\ OneAnalysis'
    BY <2>1, <2>3 DEF Enqueue, IInv, TypeOK, OneAnalysis, Rows, Statuses, history
  <2>5. TableInv'
    BY <2>1, <2>2, <2>3, AnalysisQueueAssumption
    DEF AnalysisQueueAssumption, Enqueue, IInv, TableInv
  <2>6. BatchInv'
    <3>1. \A i \in 1 .. Len(worker.batch) :
             /\ worker.batch[i].clip \in Clips
             /\ worker.batch[i].clip \in gone \/ worker.batch[i].clip # c
      <4> SUFFICES ASSUME NEW i \in 1 .. Len(worker.batch),
                          worker.batch[i].clip \notin gone
                   PROVE  worker.batch[i].clip # c
        BY BatchTyped
      <4>1. PICK s \in {"pending", "completed", "processing"} :
              Known(worker.batch[i], s)
        BY DEF IInv, BatchInv, InHand
      <4>2. rows[worker.batch[i].clip].status = s
        BY <4>1 DEF Known
      <4> QED BY <2>2, <4>2
    <3> QED
      BY <2>1, <2>2, <3>1
      DEF Enqueue, IInv, BatchInv, Known, InHand, history
  <2>7. VerdictInv' /\ AlertedOnce' /\ FailureInv'
    BY <2>1, <2>2 DEF Enqueue, IInv, VerdictInv, AlertedOnce, CompletedHasVerdict,
                FailureInv, FailureEarned, Clip, Item, history
  <2> QED BY <2>4, <2>5, <2>6, <2>7 DEF IInv
<1>3. CASE \E c \in Clips : DeleteClip(c)
  <2>1. PICK c \in Clips : DeleteClip(c)
    BY <1>3
  <2>2. /\ rows'[c] = NoRow /\ gone' = gone \cup {c} /\ library' = library \ {c}
        /\ \A d \in Clips \ {c} : rows'[d] = rows[d]
        /\ saved' = saved \ {c}
        /\ UNCHANGED <<order, window, worker, analyzer, manual, budget, alerts, blame>>
    BY <2>1 DEF DeleteClip, IInv, TypeOK, history
  <2>3. TypeOK' /\ OneAnalysis'
    BY <2>1, <2>2 DEF DeleteClip, IInv, TypeOK, OneAnalysis, Rows, NoRow, Statuses
  <2>4. TableInv'
    <3>1. \A i \in 1 .. Len(order) : order[i] \in Clips
      BY ElementOfSeq DEF IInv, TypeOK
    <3> QED
      BY <2>2, <3>1, AnalysisQueueAssumption
      DEF AnalysisQueueAssumption, IInv, TableInv, NoRow
  <2>5. \A i \in 1 .. Len(worker.batch) : worker.batch[i].clip \in Clips
    BY BatchTyped
  <2>6. BatchInv'
    BY <2>2, <2>5 DEF IInv, BatchInv, Known, InHand
  <2>7. VerdictInv'
    BY <2>2 DEF IInv, VerdictInv, CompletedHasVerdict, NoRow, Clip, Item
  <2>8. AlertedOnce' /\ FailureInv'
    BY <2>2 DEF IInv, AlertedOnce, FailureInv, FailureEarned, NoRow, Clip, Item
  <2> QED BY <2>3, <2>4, <2>6, <2>7, <2>8 DEF IInv
<1> QED BY <1>1, <1>2, <1>3 DEF LibraryStep
(* The window, Analyze Now and a restart.                                  *)
LEMMA OtherStepInv ==
  ASSUME IInv,
         ToggleWindow \/ ManualStep \/ Restart \/ UNCHANGED vars
           \/ \E c \in Clips : RequestManual(c)
  PROVE  IInv'
<1>1. CASE Restart
  <2>1. /\ worker' = Idle /\ analyzer' = Analyzer0 /\ manual'.pc = "idle"
        /\ UNCHANGED <<library, gone, order, saved, alerts, blame>>
    BY <1>1 DEF Restart, history
  <2>7. /\ rows' \in [Clips -> Rows]
        /\ \A c \in Clips : /\ rows'[c].retries = rows[c].retries
                            /\ \/ rows'[c].status = rows[c].status
                               \/ /\ rows[c].status = "processing"
                                  /\ rows'[c].status = "pending"
    <3>1. \A c \in Clips :
             /\ rows[c] \in Rows
             /\ rows'[c] = IF rows[c].status = "processing"
                           THEN [rows[c] EXCEPT !.status = "pending"]
                           ELSE rows[c]
      BY <1>1 DEF Restart, IInv, TypeOK
    <3>2. \A c \in Clips :
             /\ rows'[c] \in Rows
             /\ rows'[c].retries = rows[c].retries
             /\ \/ rows'[c].status = rows[c].status
                \/ /\ rows[c].status = "processing"
                   /\ rows'[c].status = "pending"
      BY <3>1 DEF Rows, Statuses
    <3>3. rows' = [c \in Clips |-> rows'[c]]
      BY <1>1 DEF Restart
    <3> QED BY <3>2, <3>3
  <2>2. worker'.batch = <<>> /\ Len(worker'.batch) = 0 /\ worker'.pc = "idle"
    BY <2>1 DEF Idle
  <2>3. TypeOK'
    <3>1. worker' \in [pc : Pcs, batch : Seq(Items), suspicious : BOOLEAN,
                       retries : Nat]
      BY <2>1, EmptySeq DEF Idle, Pcs
    <3>2. budget' \in [Kinds -> Nat]
      BY <1>1, SpendTyped DEF Restart, Kinds
    <3> QED
      BY <1>1, <2>2, <2>7, <3>1, <3>2 DEF Restart, IInv, TypeOK, Analyzer0, history
  <2>4. OneAnalysis' /\ BatchInv'
    BY <2>1, <2>2, AnalysisQueueAssumption
    DEF AnalysisQueueAssumption, OneAnalysis, BatchInv, Analyzer0, Idle
  <2>5. TableInv'
    <3>1. \A i \in 1 .. Len(order) : order[i] \in Clips
      BY ElementOfSeq DEF IInv, TypeOK
    <3> QED BY <2>1, <2>7, <3>1 DEF IInv, TableInv
  <2>6. VerdictInv' /\ AlertedOnce' /\ FailureInv'
    BY <2>1, <2>2, <2>7 DEF IInv, VerdictInv, CompletedHasVerdict,
                            AlertedOnce, FailureInv, FailureEarned
  <2> QED BY <2>3, <2>4, <2>5, <2>6 DEF IInv
<1>2. CASE ~Restart
  <2>1. /\ UNCHANGED <<library, gone, order, rows, worker, alerts, blame>>
        /\ saved \subseteq saved' /\ saved' \subseteq saved \cup library
    BY <1>2 DEF ToggleWindow, RequestManual, ManualStep, AcquireForManual,
                ManualSucceeds, ManualFails, ManualSaves, vars, table, history
  <2>2. budget' \in [Kinds -> Nat]
    BY <1>2, SpendTyped
    DEF ToggleWindow, RequestManual, ManualStep, AcquireForManual,
        ManualSucceeds, ManualFails, ManualSaves, vars, IInv, TypeOK, Kinds
  <2>3. /\ analyzer' \in [holder : {"none", "queue", "manual"},
                          rateLimited : BOOLEAN, transient : BOOLEAN]
        /\ manual' \in [pc : {"idle", "waiting", "analyzing", "saving"},
                        clips : SUBSET Clips]
        /\ window' \in BOOLEAN
        /\ OneAnalysis'
    <3>1. CASE ToggleWindow \/ UNCHANGED vars
      BY <3>1 DEF ToggleWindow, vars, IInv, TypeOK, OneAnalysis
    <3>2. CASE \E c \in Clips : RequestManual(c)
      BY <3>2 DEF RequestManual, IInv, TypeOK, OneAnalysis
    <3>3. CASE AcquireForManual
      BY <3>3 DEF AcquireForManual, Acquire, Analyzer0, IInv, TypeOK, OneAnalysis
    <3>4. CASE ManualSucceeds
      <4>1. /\ analyzer.holder = "manual" /\ worker.pc # "analyzing"
            /\ manual' = [manual EXCEPT !.pc = "saving"]
            /\ analyzer' = [analyzer EXCEPT !.holder = "none"]
            /\ UNCHANGED <<worker, window>>
        BY <3>4 DEF ManualSucceeds, IInv, OneAnalysis
      <4>2. manual'.pc = "saving" /\ analyzer'.holder = "none"
        BY <4>1 DEF IInv, TypeOK
      <4> QED BY <4>1, <4>2 DEF IInv, TypeOK, OneAnalysis
    <3>6. CASE ManualSaves
      BY <3>6 DEF ManualSaves, IInv, TypeOK, OneAnalysis
    <3>5. CASE \E why \in {"limited", "transient", "permanent"} : ManualFails(why)
      BY <3>5 DEF ManualFails, FlagsFor, IInv, TypeOK, OneAnalysis
    <3> QED BY <1>2, <3>1, <3>2, <3>3, <3>4, <3>5, <3>6 DEF ManualStep
  <2>4. TypeOK'
    BY <2>1, <2>2, <2>3 DEF IInv, TypeOK
  <2>5. TableInv' /\ BatchInv'
    BY <2>1, BatchKept DEF IInv, BatchInv, InHand
  <2>6. VerdictInv' /\ AlertedOnce' /\ FailureInv'
    BY <2>1 DEF IInv, VerdictInv, CompletedHasVerdict, AlertedOnce, FailureInv,
                FailureEarned, Clip, Item
  <2> QED BY <2>3, <2>4, <2>5, <2>6 DEF IInv
<1> QED BY <1>1, <1>2
-----------------------------------------------------------------------------
(* The worker's steps.                                                     *)

WorkerType == [pc : Pcs, batch : Seq(Items), suspicious : BOOLEAN, retries : Nat]

(* The except branch keeps the batch, and gives up only for cause.         *)
LEMMA GiveUpForCause ==
  ASSUME IInv, worker.pc # "idle", NEW flags, GiveUpOrRequeue(flags)
  PROVE  /\ worker' \in WorkerType
         /\ worker'.batch = worker.batch
         /\ worker'.pc \in {"requeueing", "failing"}
         /\ worker'.retries <= MaxRetries
         /\ worker'.pc = "failing" =>
                /\ ~flags.rateLimited
                /\ flags.transient => Item.retries = MaxRetries
<1>1. /\ worker \in WorkerType /\ worker.retries <= MaxRetries
      /\ Item.retries \in Nat /\ Item.retries <= MaxRetries /\ MaxRetries \in Nat
  BY HandInBatch, AnalysisQueueAssumption
  DEF AnalysisQueueAssumption, IInv, TypeOK, WorkerType, BatchInv, Known
<1>2. CASE flags.rateLimited
  BY <1>1, <1>2 DEF GiveUpOrRequeue, WorkerType, Pcs
<1>3. CASE ~flags.rateLimited /\ flags.transient /\ Item.retries < MaxRetries
  <2>1. worker' = [worker EXCEPT !.pc = "requeueing", !.retries = Item.retries + 1]
    BY <1>3 DEF GiveUpOrRequeue
  <2>2. Item.retries + 1 \in Nat /\ Item.retries + 1 <= MaxRetries
    BY <1>1, <1>3
  <2> QED BY <1>1, <2>1, <2>2 DEF WorkerType, Pcs
<1>4. CASE ~flags.rateLimited /\ ~(flags.transient /\ Item.retries < MaxRetries)
  BY <1>1, <1>4 DEF GiveUpOrRequeue, WorkerType, Pcs
<1> QED BY <1>2, <1>3, <1>4

(* A failed attempt: the row stays in hand, the failure is noted.          *)
AttemptFailed(why, flags) ==
    /\ worker.pc \in {"reading", "analyzing", "saving", "completing"}
    /\ GiveUpOrRequeue(flags)
    /\ Blame(why)
    /\ why = "limited" => flags.rateLimited
    /\ why = "transient" => flags.transient
    /\ UNCHANGED <<table, window, manual, alerts>>
    /\ saved' = saved \/ (Clip \in library /\ saved' = saved \cup {Clip})
    /\ budget' \in [Kinds -> Nat]
    /\ analyzer' \in [holder : {"none", "queue", "manual"},
                      rateLimited : BOOLEAN, transient : BOOLEAN]
    /\ \/ analyzer' = analyzer /\ worker.pc # "analyzing"
       \/ analyzer'.holder = "none" /\ worker.pc = "analyzing"

LEMMA AttemptFailsInv ==
  ASSUME IInv, NEW why \in Blames, NEW flags, AttemptFailed(why, flags)
  PROVE  IInv'
<1>1. /\ worker' \in WorkerType
      /\ worker'.batch = worker.batch
      /\ worker'.pc \in {"requeueing", "failing"}
      /\ worker'.retries <= MaxRetries
      /\ worker'.pc = "failing" =>
                /\ ~flags.rateLimited
                /\ flags.transient => Item.retries = MaxRetries
  BY GiveUpForCause DEF AttemptFailed
<1>2. /\ worker.batch \in Seq(Items) /\ Len(worker.batch) \in Nat \ {0}
      /\ Clip \in Clips /\ Known(Item, "processing")
  BY HandInBatch DEF InHand, AttemptFailed
<1>3. /\ Item' = Item /\ Clip' = Clip /\ InHand' = InHand
  BY <1>1 DEF Item, Clip, InHand, AttemptFailed
<1>4. blame' \in [Clips -> Blames] /\ blame'[Clip] = why
      /\ \A c \in Clips \ {Clip} : blame'[c] = blame[c]
  BY <1>2 DEF Blame, IInv, TypeOK, AttemptFailed
<1>5. TypeOK'
  <2>1. worker'.batch # <<>> /\ worker'.pc # "idle"
    BY <1>1, <1>2, EmptySeq
  <2>2. saved' \subseteq Clips
    BY <1>2 DEF IInv, TypeOK, AttemptFailed
  <2> QED BY <1>1, <1>4, <2>1, <2>2 DEF IInv, TypeOK, WorkerType, table, AttemptFailed
<1>6. OneAnalysis'
  BY <1>1 DEF IInv, OneAnalysis, AttemptFailed
<1>7. TableInv' /\ BatchInv'
  BY <1>1, <1>3, BatchKept DEF table, AttemptFailed
<1>8. VerdictInv'
  BY <1>1 DEF IInv, VerdictInv, CompletedHasVerdict, table, AttemptFailed
<1>9. AlertedOnce'
  BY DEF IInv, AlertedOnce, table, AttemptFailed
<1>10. FailureInv'
  <2>1. Clip \in gone \/ rows[Clip].status = "processing"
    BY <1>2 DEF Known, Clip
  <2>2. \A c \in gone : c \in Clips => rows[c].status = "none"
    BY DEF IInv, TableInv
  <2>3. FailureEarned'
    BY <1>2, <1>4, <2>1, <2>2 DEF IInv, FailureInv, FailureEarned, table, AttemptFailed
  <2> QED BY <1>1, <1>3, <1>4, <2>3 DEF FailureInv, AttemptFailed
<1> QED BY <1>5, <1>6, <1>7, <1>8, <1>9, <1>10 DEF IInv

LEMMA AttemptStepInv ==
  ASSUME IInv,
         \/ ReadContextFails \/ SaveFails \/ CompleteFails
         \/ \E why \in {"limited", "transient", "permanent"} : AnalysisFails(why)
  PROVE  IInv'
<1>1. CASE ReadContextFails
  <2>1. budget' \in [Kinds -> Nat]
    BY <1>1, SpendTyped DEF ReadContextFails, Kinds, IInv, TypeOK
  <2>2. PICK flags : flags = analyzer
    OBVIOUS
  <2>3. AttemptFailed("other", flags)
    BY <1>1, <2>1, <2>2 DEF ReadContextFails, GiveUpOrRequeue, AttemptFailed, IInv, TypeOK
  <2>4. "other" \in Blames
    BY DEF Blames
  <2> QED BY <2>3, <2>4, AttemptFailsInv
<1>2. CASE SaveFails
  <2>1. budget' \in [Kinds -> Nat]
    BY <1>2, SpendTyped DEF SaveFails, Kinds, IInv, TypeOK
  <2>2. PICK flags : flags = analyzer
    OBVIOUS
  <2>3. AttemptFailed("other", flags)
    BY <1>2, <2>1, <2>2 DEF SaveFails, GiveUpOrRequeue, AttemptFailed, IInv, TypeOK
  <2>4. "other" \in Blames
    BY DEF Blames
  <2> QED BY <2>3, <2>4, AttemptFailsInv
<1>3. CASE CompleteFails
  <2>1. budget' \in [Kinds -> Nat]
    BY <1>3, SpendTyped DEF CompleteFails, Kinds, IInv, TypeOK
  <2>2. PICK flags : flags = analyzer
    OBVIOUS
  <2>3. AttemptFailed("other", flags)
    BY <1>3, <2>1, <2>2 DEF CompleteFails, GiveUpOrRequeue, AttemptFailed, IInv, TypeOK
  <2>4. "other" \in Blames
    BY DEF Blames
  <2> QED BY <2>3, <2>4, AttemptFailsInv
<1>4. CASE \E why \in {"limited", "transient", "permanent"} : AnalysisFails(why)
  <2>1. PICK why \in {"limited", "transient", "permanent"} : AnalysisFails(why)
    BY <1>4
  <2>2. budget' \in [Kinds -> Nat]
    BY <2>1, SpendTyped DEF AnalysisFails, Kinds, IInv, TypeOK
  <2>3. PICK flags : flags = FlagsFor(why)
    OBVIOUS
  <2>4. AttemptFailed(why, flags)
    BY <2>1, <2>2, <2>3 DEF AnalysisFails, GiveUpOrRequeue, FlagsFor, AttemptFailed
  <2>5. why \in Blames
    BY DEF Blames
  <2> QED BY <2>4, <2>5, AttemptFailsInv
<1> QED BY <1>1, <1>2, <1>3, <1>4
-----------------------------------------------------------------------------
(* A batch is the oldest pending rows, each once, as they are.             *)
LEMMA StartBatchInv ==
  ASSUME IInv, StartBatch
  PROVE  IInv'
<1>1. PICK b \in OldestPending :
        worker' = [Idle EXCEPT
            !.pc = "next",
            !.batch = [i \in DOMAIN b |->
                         [clip |-> b[i], retries |-> rows[b[i]].retries]]]
  BY DEF StartBatch
<1>2. PICK n \in 1 .. BatchSize : b \in [1 .. n -> Pending]
  BY DEF OldestPending
<1>3. n \in Nat \ {0} /\ DOMAIN b = 1 .. n
  BY <1>2, AnalysisQueueAssumption DEF AnalysisQueueAssumption
<1>4. PICK s : s = [i \in 1 .. n |-> [clip |-> b[i], retries |-> rows[b[i]].retries]]
  OBVIOUS
<1>5. \A i \in 1 .. n : /\ b[i] \in Clips /\ rows[b[i]].status = "pending"
                        /\ rows[b[i]] \in Rows /\ s[i] \in Items
                        /\ s[i].clip = b[i] /\ s[i].retries = rows[b[i]].retries
  BY <1>2, <1>4 DEF Pending, IInv, TypeOK, Items, Rows
<1>6. s \in Seq(Items) /\ Len(s) = n
  <2>1. s \in [1 .. n -> Items]
    BY <1>4, <1>5
  <2>2. s \in Seq(Items)
    BY <1>3, <2>1, SeqDef
  <2>3. DOMAIN s = 1 .. n /\ DOMAIN s = 1 .. Len(s) /\ Len(s) \in Nat
    BY <2>1, <2>2, LenProperties
  <2> QED BY <1>3, <2>2, <2>3
<1>7. worker' = [pc |-> "next", batch |-> s, suspicious |-> FALSE, retries |-> 0]
  BY <1>1, <1>3, <1>4 DEF Idle
<1>8. /\ worker.pc = "idle"
      /\ UNCHANGED <<table, window, analyzer, manual, saved, budget, history>>
  BY DEF StartBatch
<1>9. \A i, j \in 1 .. n : i # j => b[i] # b[j]
  <2>1. \A i, j \in 1 .. n : i < j => QueuedBefore(b[i], b[j])
    BY <1>3 DEF OldestPending
  <2>2. \A c, d \in Clips : QueuedBefore(c, d) => c # d
    <3>1. Len(order) \in Nat
      BY LenProperties DEF IInv, TypeOK
    <3> QED BY <3>1 DEF QueuedBefore, IInv, TableInv
  <2> QED BY <1>3, <1>5, <2>1, <2>2
<1>10. \A i \in 1 .. n : Known(s[i], "pending")
  <2> SUFFICES ASSUME NEW i \in 1 .. n
               PROVE  Known(s[i], "pending")
    OBVIOUS
  <2>1. alerts[b[i]] = 0
    <3>1. b[i] \in Clips /\ rows[b[i]].status = "pending"
      BY <1>5
    <3>2. b[i] \notin gone
      BY <3>1 DEF IInv, TableInv
    <3>3. alerts[b[i]] \in Nat /\ alerts[b[i]] <= 1 /\ alerts[b[i]] # 1
      BY <3>1, <3>2 DEF IInv, TypeOK, AlertedOnce
    <3> QED BY <3>3
  <2>2. rows[b[i]] = [status |-> "pending", retries |-> s[i].retries]
    BY <1>5 DEF Rows
  <2> QED BY <1>5, <2>1, <2>2 DEF Known, IInv, TableInv
<1>11. TypeOK'
  BY <1>3, <1>6, <1>7, <1>8, EmptySeq DEF IInv, TypeOK, table, history, Pcs
<1>12. OneAnalysis' /\ TableInv' /\ AlertedOnce'
  BY <1>7, <1>8 DEF IInv, OneAnalysis, TableInv, AlertedOnce, table, history
<1>13. BatchInv'
  <2>1. \A i \in 1 .. n : Known(s[i], "pending")'
    BY <1>8, <1>10 DEF Known, table, history
  <2> QED
    BY <1>5, <1>6, <1>7, <1>9, <2>1, AnalysisQueueAssumption
    DEF BatchInv, InHand, AnalysisQueueAssumption
<1>14. VerdictInv' /\ FailureInv'
  BY <1>7, <1>8
  DEF IInv, VerdictInv, CompletedHasVerdict, FailureInv, FailureEarned, table,
      history
<1> QED BY <1>11, <1>12, <1>13, <1>14 DEF IInv

(* The steps of an attempt that goes well leave the row alone.             *)
LEMMA AttemptGoesOnInv ==
  ASSUME IInv,
         \/ ReadContext \/ AcquireForQueue \/ Save
         \/ \E suspicious, limited \in BOOLEAN :
              AnalysisSucceeds(suspicious, limited)
  PROVE  IInv'
<1>1. /\ UNCHANGED <<table, window, manual, history>>
      /\ worker.pc \in {"reading", "waiting", "analyzing", "saving"}
      /\ budget' \in [Kinds -> Nat]
      /\ saved \subseteq saved' /\ saved' \subseteq saved \cup library
  BY SpendTyped
  DEF ReadContext, AcquireForQueue, Save, AnalysisSucceeds, Kinds, IInv, TypeOK
<1>2. /\ worker.batch \in Seq(Items) /\ worker.batch # <<>>
      /\ worker \in WorkerType /\ worker.retries <= MaxRetries
      /\ Clip \in Clips
  BY <1>1, HandInBatch, EmptySeq DEF IInv, TypeOK, WorkerType, BatchInv
<1>3. /\ worker' \in WorkerType
      /\ worker'.batch = worker.batch /\ worker'.retries = worker.retries
      /\ worker'.pc \in {"waiting", "analyzing", "saving", "completing"}
      /\ worker'.pc = "completing" => Clip \in saved'
      /\ analyzer' \in [holder : {"none", "queue", "manual"},
                        rateLimited : BOOLEAN, transient : BOOLEAN]
      /\ OneAnalysis'
  <2>1. CASE ReadContext
    BY <1>2, <2>1 DEF ReadContext, Goto, WorkerType, Pcs, IInv, OneAnalysis, TypeOK
  <2>2. CASE AcquireForQueue
    BY <1>2, <2>2 DEF AcquireForQueue, Acquire, Analyzer0, Goto, WorkerType, Pcs,
                      IInv, OneAnalysis
  <2>3. CASE Save
    BY <1>2, <2>3 DEF Save, Goto, WorkerType, Pcs, IInv, OneAnalysis, TypeOK
  <2>4. CASE \E suspicious, limited \in BOOLEAN :
               AnalysisSucceeds(suspicious, limited)
    <3>1. PICK suspicious, limited \in BOOLEAN :
            AnalysisSucceeds(suspicious, limited)
      BY <2>4
    <3>2. worker' \in WorkerType /\ worker'.batch = worker.batch
          /\ worker'.retries = worker.retries /\ worker'.pc = "saving"
      BY <1>2, <3>1 DEF AnalysisSucceeds, WorkerType, Pcs
    <3>3. /\ analyzer' \in [holder : {"none", "queue", "manual"},
                            rateLimited : BOOLEAN, transient : BOOLEAN]
          /\ analyzer'.holder = "none"
      BY <3>1 DEF AnalysisSucceeds, IInv, TypeOK
    <3>4. OneAnalysis'
      BY <3>1, <3>2, <3>3 DEF AnalysisSucceeds, IInv, OneAnalysis
    <3> QED BY <3>2, <3>3, <3>4
  <2> QED BY <2>1, <2>2, <2>3, <2>4
<1>4. Item' = Item /\ Clip' = Clip /\ InHand' = InHand
  BY <1>1, <1>3 DEF Item, Clip, InHand
<1>5. TypeOK'
  BY <1>1, <1>2, <1>3 DEF IInv, TypeOK, table, history, WorkerType
<1>6. TableInv' /\ BatchInv'
  BY <1>1, <1>2, <1>3, <1>4, BatchKept DEF table, history
<1>7. VerdictInv' /\ AlertedOnce' /\ FailureInv'
  BY <1>1, <1>3, <1>4
  DEF IInv, VerdictInv, CompletedHasVerdict, AlertedOnce, FailureInv,
      FailureEarned, table, history
<1> QED BY <1>3, <1>5, <1>6, <1>7 DEF IInv

(* Writing the row of the clip in hand touches no other, and brings none   *)
(* back from a deletion.                                                   *)
LEMMA RowWritten ==
  ASSUME IInv, worker.pc # "idle",
         NEW row \in Rows, row.status # "none", row.retries <= MaxRetries,
         SetRow(Clip, row),
         UNCHANGED <<library, gone, order>>
  PROVE  /\ rows' \in [Clips -> Rows]
         /\ \A c \in Clips \ {Clip} : rows'[c] = rows[c]
         /\ Clip \in gone => rows'[Clip] = rows[Clip] /\ rows[Clip].status = "none"
         /\ Clip \notin gone => rows'[Clip] = row
         /\ TableInv'
<1>1. Clip \in Clips /\ (Clip \in gone \/ rows[Clip].status # "none")
  BY HandInBatch DEF Known, InHand, Clip
<1>2. Clip \in gone => rows[Clip].status = "none"
  BY <1>1 DEF IInv, TableInv
<1>3. /\ rows' \in [Clips -> Rows]
      /\ \A c \in Clips \ {Clip} : rows'[c] = rows[c]
      /\ rows'[Clip] = IF rows[Clip].status = "none" THEN rows[Clip] ELSE row
  BY <1>1 DEF SetRow, IInv, TypeOK
<1>4. TableInv'
  <2>1. \A i \in 1 .. Len(order) : order[i] \in Clips
    BY ElementOfSeq DEF IInv, TypeOK
  <2> QED BY <1>1, <1>2, <1>3, <2>1 DEF IInv, TableInv
<1> QED BY <1>1, <1>2, <1>3, <1>4

(* Taking the item marks its row, and completing it leaves it a verdict.   *)
LEMMA RowMovesInv ==
  ASSUME IInv, TakeItem \/ Complete
  PROVE  IInv'
<1>1. /\ UNCHANGED <<library, gone, order, window, analyzer, manual, saved,
                     budget, history>>
      /\ worker.pc \in {"next", "completing"}
      /\ worker' = [worker EXCEPT !.pc = IF worker.pc = "next" THEN "reading"
                                         ELSE "alerting"]
  BY DEF TakeItem, Complete, Goto
<1>2. /\ worker.batch \in Seq(Items) /\ worker.batch # <<>>
      /\ worker \in WorkerType /\ worker.retries <= MaxRetries
      /\ Clip \in Clips /\ Known(Item, InHand) /\ rows[Clip] \in Rows
      /\ Item = worker.batch[1] /\ Len(worker.batch) \in Nat \ {0}
  BY <1>1, HandInBatch, EmptySeq DEF IInv, TypeOK, WorkerType, BatchInv
<1>3. PICK st : st = IF worker.pc = "next" THEN "processing" ELSE "completed"
  OBVIOUS
<1>4. PICK row : row = [status |-> st, retries |-> rows[Clip].retries]
  OBVIOUS
<1>5. /\ row \in Rows /\ row.status = st /\ row.retries <= MaxRetries
      /\ SetRow(Clip, row)
  <2>1. row \in Rows /\ row.status = st /\ row.retries <= MaxRetries
    BY <1>2, <1>3, <1>4 DEF Rows, Statuses, IInv, TableInv
  <2>2. [rows[Clip] EXCEPT !.status = st] = row
    BY <1>2, <1>4 DEF Rows
  <2> QED
    BY <1>1, <1>3, <2>1, <2>2 DEF TakeItem, Complete, UpdateStatus, SetRow
<1>6. /\ rows' \in [Clips -> Rows]
      /\ \A c \in Clips \ {Clip} : rows'[c] = rows[c]
      /\ Clip \in gone => rows'[Clip] = rows[Clip] /\ rows[Clip].status = "none"
      /\ Clip \notin gone => rows'[Clip] = row
      /\ TableInv'
  BY <1>1, <1>3, <1>5, RowWritten
<1>7. /\ worker' \in WorkerType
      /\ worker'.batch = worker.batch /\ worker'.retries = worker.retries
      /\ worker'.pc \in {"reading", "alerting"}
      /\ InHand' = st
  BY <1>1, <1>2, <1>3 DEF WorkerType, Pcs, InHand
<1>8. TypeOK' /\ OneAnalysis'
  BY <1>1, <1>2, <1>6, <1>7 DEF IInv, TypeOK, OneAnalysis, history, WorkerType
<1>9. BatchInv'
  <2>1. Known(worker.batch[1], st)'
    BY <1>1, <1>2, <1>4, <1>6 DEF Known, Clip, history
  <2>2. \A i \in 2 .. Len(worker.batch) : Known(worker.batch[i], "pending")'
    <3> SUFFICES ASSUME NEW i \in 2 .. Len(worker.batch)
                 PROVE  Known(worker.batch[i], "pending")'
      OBVIOUS
    <3>1. /\ worker.batch[i].clip # Clip /\ worker.batch[i].clip \in Clips
          /\ Known(worker.batch[i], "pending")
      BY <1>2, BatchTyped DEF IInv, BatchInv, Clip
    <3> QED BY <1>1, <1>6, <3>1 DEF Known, history
  <2> QED BY <1>2, <1>7, <2>1, <2>2 DEF IInv, BatchInv
<1>10. VerdictInv'
  BY <1>1, <1>2, <1>3, <1>4, <1>6, <1>7 DEF IInv, VerdictInv, CompletedHasVerdict
<1>11. AlertedOnce'
  BY <1>1, <1>2, <1>6 DEF IInv, AlertedOnce, Known, Clip, history
<1>12. FailureInv'
  BY <1>1, <1>2, <1>3, <1>4, <1>6, <1>7
  DEF IInv, FailureInv, FailureEarned, history
<1> QED BY <1>6, <1>8, <1>9, <1>10, <1>11, <1>12 DEF IInv
(* The clip is finished with: a row to retry or failed, or its alert.      *)
LEMMA ItemEndsInv ==
  ASSUME IInv,
         Requeue \/ Fail \/ \E sent \in BOOLEAN : Alert(sent)
  PROVE  IInv'
<1>1. /\ UNCHANGED <<library, gone, order, window, analyzer, manual, saved,
                     budget, blame>>
      /\ worker.pc \in {"requeueing", "failing", "alerting"}
      /\ AfterItem
  BY DEF Requeue, Fail, Alert, history, table
<1>2. /\ Clip \in Clips /\ Known(Item, InHand) /\ rows[Clip] \in Rows
      /\ worker.retries \in Nat /\ worker.retries <= MaxRetries
      /\ worker.batch # <<>>
  BY <1>1, HandInBatch, EmptySeq DEF IInv, TypeOK, BatchInv
<1>3. Clip \in gone => rows[Clip].status = "none"
  BY <1>2 DEF IInv, TableInv
<1>4. /\ rows' \in [Clips -> Rows]
      /\ \A c \in Clips \ {Clip} : rows'[c] = rows[c] /\ alerts'[c] = alerts[c]
      /\ alerts' \in [Clips -> Nat]
      /\ \/ alerts'[Clip] = 0
         \/ worker.pc = "alerting" /\ alerts'[Clip] = 1
      /\ TableInv'
      /\ \/ Clip \in gone /\ rows'[Clip] = rows[Clip]
         \/ worker.pc = "requeueing" /\ rows'[Clip].status = "pending"
         \/ /\ worker.pc = "failing" /\ rows'[Clip].status = "failed"
            /\ rows'[Clip].retries = Item.retries
         \/ /\ worker.pc = "alerting" /\ rows'[Clip] = rows[Clip]
            /\ rows[Clip].status = "completed"
  <2>1. CASE worker.pc = "requeueing"
    <3>1. PICK row : row = [status |-> "pending", retries |-> worker.retries]
      OBVIOUS
    <3>2. row \in Rows /\ row.status = "pending" /\ row.retries <= MaxRetries
      BY <1>2, <3>1 DEF Rows, Statuses
    <3>3. SetRow(Clip, row) /\ UNCHANGED alerts
      BY <2>1, <3>1 DEF Requeue, Fail, Alert, history, SetRow
    <3>4. /\ rows' \in [Clips -> Rows]
          /\ \A c \in Clips \ {Clip} : rows'[c] = rows[c]
          /\ Clip \in gone => rows'[Clip] = rows[Clip] /\ rows[Clip].status = "none"
          /\ Clip \notin gone => rows'[Clip] = row
          /\ TableInv'
      BY <1>1, <3>2, <3>3, RowWritten
    <3> QED BY <1>2, <2>1, <3>2, <3>3, <3>4 DEF IInv, TypeOK, Known, Clip
  <2>2. CASE worker.pc = "failing"
    <3>1. PICK row : row = [status |-> "failed", retries |-> rows[Clip].retries]
      OBVIOUS
    <3>2. row \in Rows /\ row.status = "failed" /\ row.retries <= MaxRetries
      BY <1>2, <3>1 DEF Rows, Statuses, IInv, TableInv
    <3>3. SetRow(Clip, row) /\ UNCHANGED alerts
      <4>1. [rows[Clip] EXCEPT !.status = "failed"] = row
        BY <1>2, <3>1 DEF Rows
      <4> QED BY <2>2, <4>1 DEF Requeue, Fail, Alert, history, SetRow, UpdateStatus
    <3>4. /\ rows' \in [Clips -> Rows]
          /\ \A c \in Clips \ {Clip} : rows'[c] = rows[c]
          /\ Clip \in gone => rows'[Clip] = rows[Clip] /\ rows[Clip].status = "none"
          /\ Clip \notin gone => rows'[Clip] = row
          /\ TableInv'
      BY <1>1, <3>2, <3>3, RowWritten
    <3>5. Clip \notin gone => rows[Clip].retries = Item.retries
      BY <1>2 DEF Known, Clip
    <3> QED BY <1>2, <2>2, <3>1, <3>2, <3>3, <3>4, <3>5 DEF IInv, TypeOK, Known, Clip
  <2>3. CASE worker.pc = "alerting"
    <3>1. PICK sent \in BOOLEAN : Alert(sent)
      BY <2>3 DEF Requeue, Fail
    <3>2. /\ rows' = rows
          /\ alerts' = IF sent THEN [alerts EXCEPT ![Clip] = @ + 1] ELSE alerts
      BY <3>1 DEF Alert, table
    <3>3. alerts \in [Clips -> Nat] /\ alerts[Clip] = 0
      BY <1>2 DEF Known, Clip, IInv, TypeOK
    <3>4. Clip \in gone \/ rows[Clip].status = "completed"
      BY <1>2, <2>3 DEF Known, Clip, InHand
    <3>5. TableInv'
      BY <1>1, <3>2 DEF IInv, TableInv
    <3>6. alerts' \in [Clips -> Nat] /\ alerts'[Clip] \in {0, 1}
          /\ \A c \in Clips \ {Clip} : alerts'[c] = alerts[c]
      BY <1>2, <3>2, <3>3
    <3> QED BY <2>3, <3>2, <3>4, <3>5, <3>6 DEF IInv, TypeOK
  <2> QED BY <1>1, <2>1, <2>2, <2>3
<1>5. /\ BatchInv'
      /\ worker' \in WorkerType
      /\ worker'.pc = "idle" <=> worker'.batch = <<>>
      /\ worker'.pc \in {"idle", "next"}
  BY <1>1, <1>4, AfterItemBatch DEF WorkerType
<1>6. TypeOK' /\ OneAnalysis'
  BY <1>1, <1>4, <1>5 DEF IInv, TypeOK, OneAnalysis, WorkerType
<1>7. VerdictInv'
  BY <1>1, <1>2, <1>3, <1>4, <1>5 DEF IInv, VerdictInv, CompletedHasVerdict
<1>8. AlertedOnce'
  <2>1. alerts'[Clip] <= 1
    BY <1>4
  <2>2. alerts'[Clip] = 1 => Clip \in gone \/ rows'[Clip].status = "completed"
    BY <1>4
  <2> QED BY <1>1, <1>4, <2>1, <2>2 DEF IInv, AlertedOnce
<1>9. FailureInv'
  <2>1. rows'[Clip].status = "failed" =>
           /\ blame[Clip] # "limited"
           /\ blame[Clip] = "transient" => rows'[Clip].retries = MaxRetries
    BY <1>2, <1>3, <1>4 DEF IInv, FailureInv
  <2> QED BY <1>1, <1>4, <1>5, <2>1 DEF IInv, FailureInv, FailureEarned
<1> QED BY <1>4, <1>5, <1>6, <1>7, <1>8, <1>9 DEF IInv

LEMMA StatusWriteFailsInv ==
  ASSUME IInv, StatusWriteFails
  PROVE  IInv'
<1>1. /\ worker' = Idle /\ worker.pc # "analyzing"
      /\ UNCHANGED <<table, window, analyzer, manual, saved, history>>
      /\ budget' \in [Kinds -> Nat]
  BY SpendTyped DEF StatusWriteFails, Kinds
<1>2. worker'.batch = <<>> /\ Len(worker'.batch) = 0 /\ worker'.pc = "idle"
      /\ worker' \in WorkerType /\ worker'.retries = 0
  BY <1>1, EmptySeq DEF Idle, WorkerType, Pcs
<1>3. TypeOK' /\ OneAnalysis'
  BY <1>1, <1>2 DEF IInv, TypeOK, OneAnalysis, WorkerType, table, history
<1>4. TableInv' /\ BatchInv'
  BY <1>1, <1>2, AnalysisQueueAssumption
  DEF AnalysisQueueAssumption, IInv, TableInv, BatchInv, table
<1>5. VerdictInv' /\ AlertedOnce' /\ FailureInv'
  BY <1>1, <1>2
  DEF IInv, VerdictInv, CompletedHasVerdict, AlertedOnce, FailureInv,
      FailureEarned, table, history
<1> QED BY <1>3, <1>4, <1>5 DEF IInv

LEMMA StepInv == IInv /\ [Next]_vars => IInv'
<1> SUFFICES ASSUME IInv, [Next]_vars PROVE IInv'
  OBVIOUS
<1>1. CASE LibraryStep
  BY <1>1, LibraryStepInv
<1>2. CASE ToggleWindow \/ ManualStep \/ Restart \/ UNCHANGED vars
             \/ \E c \in Clips : RequestManual(c)
  BY <1>2, OtherStepInv
<1>3. CASE WorkerStep
  <2>1. CASE StartBatch
    BY <2>1, StartBatchInv
  <2>2. CASE ReadContext \/ AcquireForQueue \/ Save
               \/ \E suspicious, limited \in BOOLEAN :
                    AnalysisSucceeds(suspicious, limited)
    BY <2>2, AttemptGoesOnInv
  <2>3. CASE ReadContextFails \/ SaveFails \/ CompleteFails
               \/ \E why \in {"limited", "transient", "permanent"} : AnalysisFails(why)
    BY <2>3, AttemptStepInv
  <2>4. CASE TakeItem \/ Complete
    BY <2>4, RowMovesInv
  <2>5. CASE Requeue \/ Fail \/ \E sent \in BOOLEAN : Alert(sent)
    BY <2>5, ItemEndsInv
  <2>6. CASE StatusWriteFails
    BY <2>6, StatusWriteFailsInv
  <2> QED
    BY <1>3, <2>1, <2>2, <2>3, <2>4, <2>5, <2>6 DEF WorkerStep, AnalysisStep
<1> QED BY <1>1, <1>2, <1>3 DEF Next

-----------------------------------------------------------------------------
(* Every reachable state satisfies the inductive invariant.                *)
THEOREM Invariance == Spec => []IInv
  BY InitInv, StepInv, PTL DEF Spec

(* The table, the worker and its batch, the analyzer and Analyze Now keep  *)
(* their shape, and an idle worker has no batch.                           *)
THEOREM TypeCorrect == Spec => []TypeOK
<1>1. IInv => TypeOK
  BY DEF IInv
<1> QED BY <1>1, Invariance, PTL

(* The worker and Analyze Now are never inside the analyzer together.      *)
THEOREM AnalysesExclude == Spec => []OneAnalysis
<1>1. IInv => OneAnalysis
  BY DEF IInv
<1> QED BY <1>1, Invariance, PTL

(* A completed row has its verdict stored.                                 *)
THEOREM VerdictStored == Spec => []CompletedHasVerdict
<1>1. IInv => CompletedHasVerdict
  BY DEF IInv, VerdictInv
<1> QED BY <1>1, Invariance, PTL

(* No clip is alerted twice, whatever is retried or restarted.             *)
THEOREM OneAlert == Spec => []AlertedOnce
<1>1. IInv => AlertedOnce
  BY DEF IInv
<1> QED BY <1>1, Invariance, PTL

(* No clip is failed for a rate limit, or before its retries are spent.    *)
THEOREM FailuresEarned == Spec => []FailureEarned
<1>1. IInv => FailureEarned
  BY DEF IInv, FailureInv
<1> QED BY <1>1, Invariance, PTL
-----------------------------------------------------------------------------
(* The table implements the abstract queue.                                *)

(* A step that changes the progress of one clip at most.                   *)
LEMMA ProgressMoves ==
  ASSUME NEW c \in Clips, NEW from, NEW to,
         Progress(rows[c]) = from, Progress(rows'[c]) = to,
         \A d \in Clips \ {c} : Progress(rows'[d]) = Progress(rows[d])
  PROVE  Queue!Move(c, from, to)
  BY DEF Queue!Move

LEMMA ProgressKept ==
  ASSUME \A d \in Clips : Progress(rows'[d]) = Progress(rows[d])
  PROVE  UNCHANGED [c \in Clips |-> Progress(rows[c])]
  OBVIOUS

(* Every step moves one clip along the abstract queue, forgets one that is *)
(* deleted, or is not seen there at all.                                   *)
LEMMA QueueStep ==
  ASSUME IInv, [Next]_vars
  PROVE  [Queue!Next]_[c \in Clips |-> Progress(rows[c])]
<1>1. CASE UNCHANGED rows
  BY <1>1, ProgressKept
<1>2. CASE \E c \in Clips : Enqueue(c)
  <2>1. PICK c \in Clips : Enqueue(c)
    BY <1>2
  <2>2. /\ Progress(rows[c]) = "absent" /\ Progress(rows'[c]) = "queued"
        /\ \A d \in Clips \ {c} : rows'[d] = rows[d]
    BY <2>1 DEF Enqueue, Progress, IInv, TypeOK
  <2>3. Queue!Move(c, "absent", "queued")
    BY <2>2, ProgressMoves
  <2> QED BY <2>3 DEF Queue!Next
<1>3. CASE \E c \in Clips : DeleteClip(c)
  <2>1. PICK c \in Clips : DeleteClip(c)
    BY <1>3
  <2>2. \A d \in Clips : Progress(rows'[d]) = IF d = c THEN "absent"
                                              ELSE Progress(rows[d])
    BY <2>1 DEF DeleteClip, Progress, NoRow, IInv, TypeOK
  <2>3. Queue!Forget({c})
    BY <2>2 DEF Queue!Forget
  <2> QED BY <2>3 DEF Queue!Next
<1>4. CASE Restart
  <2>1. \A c \in Clips : Progress(rows'[c]) = Progress(rows[c])
    <3> SUFFICES ASSUME NEW c \in Clips
                 PROVE  Progress(rows'[c]) = Progress(rows[c])
      OBVIOUS
    <3>1. /\ rows[c] \in Rows
          /\ rows'[c] = IF rows[c].status = "processing"
                        THEN [rows[c] EXCEPT !.status = "pending"] ELSE rows[c]
      BY <1>4 DEF Restart, IInv, TypeOK
    <3> QED BY <3>1 DEF Progress, Rows
  <2> QED BY <2>1, ProgressKept
<1>5. CASE TakeItem \/ Complete \/ Requeue \/ Fail
  <2>1. /\ worker.pc \in {"next", "completing", "requeueing", "failing"}
        /\ Clip \in Clips /\ Known(Item, InHand) /\ rows[Clip] \in Rows
    BY <1>5, HandInBatch DEF TakeItem, Complete, Requeue, Fail, IInv, TypeOK
  <2>2. \/ rows[Clip].status = "none"
        \/ rows[Clip].status \in {"pending", "processing"}
    BY <2>1 DEF Known, InHand, Clip, IInv, TableInv
  <2>3. PICK st : st = CASE worker.pc = "next" -> "processing"
                         [] worker.pc = "completing" -> "completed"
                         [] worker.pc = "requeueing" -> "pending"
                         [] worker.pc = "failing" -> "failed"
    OBVIOUS
  <2>4. /\ \A d \in Clips \ {Clip} : rows'[d] = rows[d]
        /\ rows[Clip].status = "none" => rows'[Clip] = rows[Clip]
        /\ rows[Clip].status # "none" => rows'[Clip].status = st
    BY <1>5, <2>1, <2>3
    DEF TakeItem, Complete, Requeue, Fail, UpdateStatus, SetRow, IInv, TypeOK, Rows
  <2>5. CASE rows[Clip].status = "none" \/ st \in {"processing", "pending"}
    <3>1. Progress(rows'[Clip]) = Progress(rows[Clip])
      BY <2>2, <2>4, <2>5 DEF Progress
    <3> QED BY <2>4, <3>1, ProgressKept
  <2>6. CASE rows[Clip].status # "none" /\ st \in {"completed", "failed"}
    <3>1. PICK c \in Clips : c = Clip
      BY <2>1
    <3>2. /\ Progress(rows[c]) = "queued"
          /\ Progress(rows'[c]) = IF st = "completed" THEN "done" ELSE "failed"
          /\ \A d \in Clips \ {c} : rows'[d] = rows[d]
      BY <2>2, <2>4, <2>6, <3>1 DEF Progress
    <3>3. Queue!Move(c, "queued", "done") \/ Queue!Move(c, "queued", "failed")
      BY <3>2, ProgressMoves
    <3> QED BY <3>3 DEF Queue!Next
  <2> QED BY <2>1, <2>3, <2>5, <2>6
<1> QED
  BY <1>1, <1>2, <1>3, <1>4, <1>5
  DEF Next, LibraryStep, AddClip, ToggleWindow, WorkerStep, StartBatch,
      ReadContext, ReadContextFails, AnalysisStep, AcquireForQueue,
      AnalysisSucceeds, AnalysisFails, Save, SaveFails, CompleteFails, Alert,
      StatusWriteFails, RequestManual, ManualStep, AcquireForManual,
      ManualSucceeds, ManualFails, ManualSaves, vars, table

(* A clip is queued once, and its end, completed or failed, is never taken *)
(* back, whatever is retried, restarted or asked for by hand.              *)
THEOREM QueueImplemented == Spec => ImplementsWorkQueue
<1>1. Init => Queue!Init
  BY DEF Init, Queue!Init, Progress, NoRow
<1>2. IInv /\ [Next]_vars => [Queue!Next]_[c \in Clips |-> Progress(rows[c])]
  BY QueueStep
<1> QED BY <1>1, <1>2, Invariance, PTL
      DEF Spec, Queue!Spec, ImplementsWorkQueue
=============================================================================
