---------------------------- MODULE Archive_proofs ----------------------------
(***************************************************************************)
(* Proofs about Archive, for any clips and months and any values of the    *)
(* bounds: no video is lost on its way into a ZIP, and no row says         *)
(* archived of a clip that was never put there.                            *)
(***************************************************************************)
EXTENDS Archive, TLAPS

-----------------------------------------------------------------------------
(* The inductive invariant.  What the run holds in hand belongs to the     *)
(* month it is at, and once the append has ended it is stored: the row is  *)
(* marked and the file removed only then.                                  *)
HandInv ==
    arch.clip # Nobody =>
        /\ arch.month = MonthOf[arch.clip]
        /\ arch.pc \in {"marking", "unlinking"} => Stored(arch.clip)

DeletionInv == deletion.pc # "idle" => deletion.month \in Months

IInv == TypeOK /\ HandInv /\ DeletionInv /\ VideoKept /\ ArchivedInZip

-----------------------------------------------------------------------------
(* Spending keeps the budget well-formed.                                  *)
LEMMA SpendType ==
  ASSUME budget \in [Kinds -> Nat], NEW kind \in Kinds, Spend(kind)
  PROVE  budget' \in [Kinds -> Nat]
BY DEF Spend

(* A clip in hand is a clip, and the run is at its month.                  *)
LEMMA InHandType ==
  ASSUME IInv, arch.pc \notin {"idle", "choosing"}
  PROVE  arch.clip \in Clips /\ arch.month \in Months
BY ArchiveAssumption DEF IInv, TypeOK, HandInv, ArchiveAssumption

(* A torn ZIP is still a ZIP of some month; nothing else changes.          *)
LEMMA TearType ==
  ASSUME TypeOK, NEW m \in Months, Tear(m)
  PROVE  /\ zips' \in [Months -> SUBSET Clips]
         /\ torn' \subseteq Months /\ lost' \subseteq Clips
BY DEF TypeOK, Tear

(* The initial states satisfy the invariant.                               *)
LEMMA InitIInv == Init => IInv
<1> SUFFICES ASSUME Init PROVE IInv
  OBVIOUS
<1>1. budget \in [Kinds -> Nat]
  BY ArchiveAssumption DEF Init, Budget0, Kinds, ArchiveAssumption
<1>2. TypeOK
  BY <1>1 DEF Init, TypeOK, IdleRun, NoDeletion, StartupDone, NothingRead,
     RowStates, ArchPcs
<1>3. HandInv /\ DeletionInv
  BY DEF Init, HandInv, DeletionInv, IdleRun, NoDeletion
<1>4. VideoKept /\ ArchivedInZip
  BY DEF Init, VideoKept, ArchivedInZip
<1> QED BY <1>2, <1>3, <1>4 DEF IInv

-----------------------------------------------------------------------------
(* Types.  The budget apart, for it alone needs arithmetic.                *)
LEMMA BudgetStep ==
  ASSUME TypeOK, Next
  PROVE  budget' \in [Kinds -> Nat]
<1>1. CASE UNCHANGED budget
  BY <1>1 DEF TypeOK
<1>2. CASE \E kind \in Kinds : Spend(kind)
  BY <1>2, SpendType DEF TypeOK
<1>3. UNCHANGED budget \/ \E kind \in Kinds : Spend(kind)
  BY DEF Next, ArchiverStep, RemovalStep, DeletionStep, StartupStep, Kinds,
     StartRun, NextClip, Forget, WriteOk, WriteFails, Mark, Unlink,
     UnlinkFails, RowWriteFails, EndRun, RemoveFile, DeleteClip, DropRow,
     DropFails, StartDeletion, UnlinkZip, UnlinkZipFails, DropArchivedRows,
     DropArchivedFails, ListArchived, ReadZip, Spare, Prune, Import,
     ListFiles, ImportFails, Crash
<1> QED BY <1>1, <1>2, <1>3

LEMMA TypeStep ==
  ASSUME IInv, Next
  PROVE  TypeOK' /\ DeletionInv'
<1> DEFINE Typed ==
      /\ rows' \in [Clips -> RowStates]
      /\ files' \subseteq Clips
      /\ zips' \in [Months -> SUBSET Clips]
      /\ torn' \subseteq Months
      /\ arch' \in [pc : ArchPcs, todo : SUBSET Clips,
                    month : Months \cup {Never},
                    clip : Clips \cup {Nobody}, detached : BOOLEAN]
      /\ arch'.pc \in {"idle", "choosing"} <=> arch'.clip = Nobody
      /\ leaving' \subseteq Clips
      /\ deletion' \in [pc : {"idle", "trashing", "dropping"},
                        month : Months \cup {Never}]
      /\ startup' \in [prune : BOOLEAN, unchecked : SUBSET Clips,
                       members : [Months -> (SUBSET Clips) \cup {Unread}],
                       import : BOOLEAN, untracked : SUBSET Clips]
      /\ removed' \subseteq Clips /\ trashed' \subseteq Clips
      /\ lost' \subseteq Clips
      /\ DeletionInv'
<1> USE ArchiveAssumption DEF ArchiveAssumption, IInv, TypeOK, HandInv,
        DeletionInv, ArchPcs, RowStates, history, Spend
<1> SUFFICES Typed
  BY BudgetStep
<1>1. CASE ArchiverStep
  <2>1. ASSUME NEW old \in SUBSET Clips, StartRun(old) PROVE Typed
    BY <2>1 DEF StartRun, IdleRun
  <2>2. ASSUME NEW c \in Clips, NextClip(c) PROVE Typed
    BY <2>2 DEF NextClip, PcFor
  <2>3. CASE Forget
    BY <2>3 DEF Forget, SetRow, NextInRun
  <2>4. CASE WriteOk
    BY <2>4 DEF WriteOk, Goto
  <2>5. ASSUME NEW tears \in BOOLEAN, WriteFails(tears) PROVE Typed
    <3>1. arch.pc = "writing" /\ arch.month \in Months
      BY <2>5, InHandType DEF WriteFails
    <3>2. /\ zips' \in [Months -> SUBSET Clips]
          /\ torn' \subseteq Months /\ lost' \subseteq Clips
      BY <2>5, <3>1, TearType DEF WriteFails
    <3> QED BY <2>5, <3>2 DEF WriteFails, NextInRun
  <2>6. CASE Mark
    BY <2>6 DEF Mark, Goto
  <2>7. CASE Unlink
    BY <2>7 DEF Unlink, NextInRun
  <2>8. CASE UnlinkFails
    BY <2>8 DEF UnlinkFails, NextInRun
  <2>9. CASE RowWriteFails
    BY <2>9 DEF RowWriteFails, NextInRun
  <2>10. CASE EndRun
    BY <2>10 DEF EndRun, IdleRun
  <2> QED
    BY <1>1, <2>1, <2>2, <2>3, <2>4, <2>5, <2>6, <2>7, <2>8, <2>9, <2>10
    DEF ArchiverStep
<1>2. CASE RemovalStep
  <2>1. ASSUME NEW c \in Clips, RemoveFile(c) PROVE Typed
    BY <2>1 DEF RemoveFile
  <2>2. ASSUME NEW c \in Clips, DeleteClip(c) PROVE Typed
    BY <2>2 DEF DeleteClip
  <2>3. ASSUME NEW c \in Clips, DropRow(c) PROVE Typed
    BY <2>3 DEF DropRow, SetRow
  <2>4. ASSUME NEW S \in SUBSET leaving, DropFails(S) PROVE Typed
    BY <2>4 DEF DropFails
  <2> QED
    BY <1>2, <2>1, <2>2, <2>3, <2>4
    DEF RemovalStep
<1>3. CASE DeletionStep
  <2>1. ASSUME NEW m \in Months, StartDeletion(m) PROVE Typed
    BY <2>1 DEF StartDeletion
  <2>2. CASE UnlinkZip
    BY <2>2 DEF UnlinkZip
  <2>3. CASE UnlinkZipFails
    BY <2>3 DEF UnlinkZipFails
  <2>4. CASE DropArchivedRows
    BY <2>4 DEF DropArchivedRows, NoDeletion, InArchive
  <2>5. CASE DropArchivedFails
    BY <2>5 DEF DropArchivedFails, NoDeletion
  <2> QED
    BY <1>3, <2>1, <2>2, <2>3, <2>4, <2>5
    DEF DeletionStep
<1>4. CASE StartupStep
  <2>1. CASE ListArchived
    BY <2>1 DEF ListArchived
  <2>2. ASSUME NEW m \in Months, ReadZip(m) PROVE Typed
    BY <2>2 DEF ReadZip
  <2>3. ASSUME NEW c \in Clips, Spare(c) PROVE Typed
    BY <2>3 DEF Spare, Check, NothingRead
  <2>4. ASSUME NEW c \in Clips, Prune(c) PROVE Typed
    BY <2>4 DEF Prune, Check, NothingRead, SetRow
  <2>5. ASSUME NEW c \in Clips, Import(c) PROVE Typed
    BY <2>5 DEF Import, SetRow
  <2>6. CASE ListFiles
    BY <2>6 DEF ListFiles
  <2>7. CASE ImportFails
    BY <2>7 DEF ImportFails
  <2> QED
    BY <1>4, <2>1, <2>2, <2>3, <2>4, <2>5, <2>6, <2>7
    DEF StartupStep
<1>5. CASE Crash
  <2>1. /\ zips' \in [Months -> SUBSET Clips]
        /\ torn' \subseteq Months /\ lost' \subseteq Clips
    BY <1>5, InHandType, TearType DEF Crash
  <2> QED
    BY <1>5, <2>1 DEF Crash, IdleRun, NoDeletion, StartupDone, NothingRead
<1> QED BY <1>1, <1>2, <1>3, <1>4, <1>5 DEF Next

-----------------------------------------------------------------------------
(* What is stored stays stored: a ZIP loses its clips only by being torn   *)
(* or deleted, and both are remembered.                                    *)
LEMMA StoredStays ==
  ASSUME IInv, Next, NEW c \in Clips, Stored(c)
  PROVE  Stored(c)'
<1> USE ArchiveAssumption DEF ArchiveAssumption, IInv, TypeOK, Stored
<1>1. CASE UNCHANGED <<zips, trashed, lost>>
  BY <1>1
<1>2. CASE WriteOk
  BY <1>2, InHandType DEF WriteOk
<1>3. ASSUME NEW tears \in BOOLEAN, WriteFails(tears)
      PROVE  Stored(c)'
  BY <1>3, InHandType DEF WriteFails, Tear
<1>4. CASE UnlinkZip
  BY <1>4 DEF UnlinkZip, DeletionInv
<1>5. CASE Crash
  BY <1>5, InHandType DEF Crash, Tear
<1>6. \/ UNCHANGED <<zips, trashed, lost>>
      \/ WriteOk \/ (\E tears \in BOOLEAN : WriteFails(tears))
      \/ UnlinkZip \/ Crash
  BY DEF Next, ArchiverStep, RemovalStep, DeletionStep, StartupStep, history,
     StartRun, NextClip, Forget, Mark, Unlink, UnlinkFails, RowWriteFails,
     EndRun, RemoveFile, DeleteClip, DropRow, DropFails, StartDeletion,
     UnlinkZipFails, DropArchivedRows, DropArchivedFails, ListArchived,
     ReadZip, Spare, Prune, Import, ListFiles, ImportFails
<1> QED BY <1>1, <1>2, <1>3, <1>4, <1>5, <1>6

(* A clip is stored by the time its row is marked and its file removed.    *)
LEMMA HandStep ==
  ASSUME IInv, Next
  PROVE  HandInv'
<1> DEFINE Hand == <<arch.pc, arch.month, arch.clip>>
<1> USE ArchiveAssumption DEF ArchiveAssumption, IInv, TypeOK, HandInv
<1>1. CASE UNCHANGED Hand
  BY <1>1, StoredStays
<1>2. CASE arch'.clip = Nobody
  BY <1>2
<1>3. ASSUME NEW c \in Clips, NextClip(c)
      PROVE  HandInv'
  BY <1>3 DEF NextClip, PcFor
<1>4. CASE WriteOk
  <2>1. Stored(arch.clip)'
    BY <1>4, InHandType DEF WriteOk, Stored, Goto
  <2> QED
    BY <1>4, <2>1, InHandType DEF WriteOk, Stored, Goto
<1>5. CASE Mark
  BY <1>5, StoredStays, InHandType DEF Mark, Goto
<1>6. CASE ArchiverStep
  <2>1. ASSUME NEW old \in SUBSET Clips, StartRun(old)
        PROVE  HandInv'
    <3>1. arch'.clip = Nobody
      BY <2>1 DEF StartRun, IdleRun
    <3> QED BY <1>2, <3>1
  <2>2. CASE \/ Forget \/ Unlink \/ UnlinkFails \/ RowWriteFails
             \/ \E tears \in BOOLEAN : WriteFails(tears)
    <3>1. NextInRun
      BY <2>2 DEF Forget, Unlink, UnlinkFails, RowWriteFails, WriteFails
    <3>2. arch'.clip = Nobody
      BY <3>1 DEF NextInRun
    <3> QED BY <1>2, <3>2
  <2>3. CASE EndRun
    BY <1>2, <2>3 DEF EndRun, IdleRun
  <2> QED BY <1>3, <1>4, <1>5, <1>6, <2>1, <2>2, <2>3 DEF ArchiverStep
<1>7. CASE RemovalStep
  BY <1>1, <1>7 DEF RemovalStep, RemoveFile, DeleteClip, DropRow, DropFails
<1>8. CASE DeletionStep
  BY <1>1, <1>8 DEF DeletionStep, StartDeletion, UnlinkZip, UnlinkZipFails,
     DropArchivedRows, DropArchivedFails
<1>9. CASE StartupStep
  BY <1>1, <1>9 DEF StartupStep, ListArchived, ReadZip, Spare, Prune, Import,
     ListFiles, ImportFails
<1>10. CASE Crash
  BY <1>2, <1>10 DEF Crash, IdleRun
<1> QED BY <1>6, <1>7, <1>8, <1>9, <1>10 DEF Next

(* A file goes when it was stored or is removed; a row says archived when  *)
(* its clip was stored.                                                    *)
LEMMA VideoStep ==
  ASSUME IInv, Next
  PROVE  VideoKept' /\ ArchivedInZip'
<1>1. ASSUME NEW c \in Clips, c \in files \cup removed, ~Stored(c)
      PROVE  c \in files' \cup removed'
  <2>1. CASE UNCHANGED <<files, removed>>
    BY <1>1, <2>1
  <2>2. CASE Unlink
    BY <1>1, <2>2 DEF Unlink, IInv, HandInv, TypeOK, history
  <2>3. ASSUME NEW d \in Clips, RemoveFile(d) \/ DeleteClip(d)
        PROVE  c \in files' \cup removed'
    BY <1>1, <2>3 DEF RemoveFile, DeleteClip
  <2>4. \/ UNCHANGED <<files, removed>> \/ Unlink
        \/ \E d \in Clips : RemoveFile(d) \/ DeleteClip(d)
    BY DEF Next, ArchiverStep, RemovalStep, DeletionStep, StartupStep,
       history, WriteOk, WriteFails, UnlinkZip, Crash,
       StartRun, NextClip, Forget, Mark, UnlinkFails, RowWriteFails, EndRun,
       DropRow, DropFails, StartDeletion, UnlinkZipFails, DropArchivedRows,
       DropArchivedFails, ListArchived, ReadZip, Spare, Prune, Import,
       ListFiles, ImportFails
  <2> QED BY <2>1, <2>2, <2>3, <2>4
<1>2. ASSUME NEW c \in Clips, rows'[c] = "archived"
      PROVE  Stored(c)
  <2>1. CASE rows[c] = "archived"
    BY <2>1 DEF IInv, ArchivedInZip
  <2>2. CASE Mark /\ c = arch.clip
    BY <2>2 DEF Mark, IInv, HandInv, TypeOK
  <2>3. rows[c] = "archived" \/ (Mark /\ c = arch.clip)
    BY <1>2 DEF IInv, TypeOK, SetRow, Next, ArchiverStep, RemovalStep,
       DeletionStep, StartupStep, Check, WriteOk, WriteFails, UnlinkZip, Crash,
       StartRun, NextClip, Forget, Mark, Unlink, UnlinkFails, RowWriteFails,
       EndRun, RemoveFile, DeleteClip, DropRow, DropFails, StartDeletion,
       UnlinkZipFails, DropArchivedRows, DropArchivedFails, ListArchived,
       ReadZip, Spare, Prune, Import, ListFiles, ImportFails
  <2> QED BY <2>1, <2>2, <2>3
<1>3. VideoKept'
  BY <1>1, StoredStays DEF IInv, VideoKept
<1>4. ArchivedInZip'
  BY <1>2, StoredStays DEF ArchivedInZip
<1> QED BY <1>3, <1>4

-----------------------------------------------------------------------------
(* The invariant holds in every reachable state.                           *)
LEMMA Invariance == Spec => []IInv
<1>1. IInv /\ [Next]_vars => IInv'
  <2> SUFFICES ASSUME IInv, [Next]_vars PROVE IInv'
    OBVIOUS
  <2>1. CASE Next
    BY <2>1, TypeStep, HandStep, VideoStep DEF IInv
  <2>2. CASE UNCHANGED vars
    BY <2>2 DEF vars, history, IInv, TypeOK, HandInv, DeletionInv, VideoKept,
       ArchivedInZip, Stored
  <2> QED BY <2>1, <2>2
<1> QED BY InitIInv, <1>1, PTL DEF Spec

(* Type correctness of the archive: a clip is in hand exactly when the run *)
(* is at one.                                                              *)
THEOREM TypeCorrect == Spec => []TypeOK
<1>1. IInv => TypeOK
  BY DEF IInv
<1> QED BY Invariance, <1>1, PTL

(* No video is lost between the library folder and its ZIP.                *)
THEOREM NoVideoLost == Spec => []VideoKept
<1>1. IInv => VideoKept
  BY DEF IInv
<1> QED BY Invariance, <1>1, PTL

(* No row says archived of a clip that was never put into its ZIP.         *)
THEOREM ArchivedTruly == Spec => []ArchivedInZip
<1>1. IInv => ArchivedInZip
  BY DEF IInv
<1> QED BY Invariance, <1>1, PTL
===============================================================================
