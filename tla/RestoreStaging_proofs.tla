------------------------ MODULE RestoreStaging_proofs ------------------------
(***************************************************************************)
(* What is proved of RestoreStaging for every number of pieces, of uploads *)
(* and of writes that fail.                                                *)
(*                                                                         *)
(* An upload that was opened has all its pieces, so that no request writes *)
(* to it any more, not even one that was on its way when the upload was    *)
(* replaced and that creates a replaced upload's file again.  Its file is  *)
(* the one that was checked, or is gone once it is not the current one.    *)
(***************************************************************************)
EXTENDS RestoreStaging, TLAPS

(* The page cuts the file into pieces and begins so many uploads.          *)
Counted == Pieces \in Nat /\ MaxUploads \in Nat

Files  == [there : BOOLEAN, data : Seq(Nat)]
Stages == [file : Files, received : 0..Pieces, opened : BOOLEAN]

Shapes ==
    /\ begun \in 0..MaxUploads
    /\ current \in {NoUpload, begun}
    /\ upload \in [Uploads -> Stages]
    /\ piece \in [Requests -> [pc : {"idle", "waiting", "writing"}, id : Nat, part : Nat]]
    /\ slot \in [by : {"nobody", "inspect", "restore"}, id : Nat, file : Files]
    /\ asked \in 0..begun
    /\ faults \in Nat

(* A request under way is for an upload that was begun; one that writes    *)
(* does so alone, and what it writes is the upload's next piece.           *)
PieceInv ==
    /\ \A r \in Requests : piece[r].pc # "idle" =>
         piece[r].id \in 1..begun /\ piece[r].part \in 1..Pieces
    /\ \A r \in Requests : piece[r].pc = "writing" => IsNext(r)
    /\ \A r, s \in Requests :
         piece[r].pc = "writing" /\ piece[s].pc = "writing" /\ piece[r].id = piece[s].id
            => r = s

(* The file that was checked is whole for as long as it is there, which is *)
(* until its upload is discarded.                                          *)
OpenedInv ==
    /\ \A u \in Uploads : u > begun => upload[u] = Fresh
    /\ \A u \in Uploads : upload[u].opened =>
         /\ u \in 1..begun /\ upload[u].received = Pieces
         /\ upload[u].file.there => u = current /\ upload[u].file.data = Whole

(* An inspection is of the current upload as it is; a restore, or the      *)
(* request for one, is of an upload that was opened.                       *)
SlotInv ==
    /\ slot.by = "inspect" =>
         /\ current # NoUpload /\ slot.id = current
         /\ upload[current].received = Pieces /\ slot.file = upload[current].file
    /\ slot.by = "restore" => slot.id \in Uploads /\ upload[slot.id].opened
    /\ asked # NoUpload => upload[asked].opened

IInv == Shapes /\ PieceInv /\ OpenedInv /\ SlotInv /\ PiecesInOrder

-----------------------------------------------------------------------------
(* One more piece at the end of the first n.                               *)
LEMMA NextPiece ==
    ASSUME NEW n \in Nat
    PROVE  Append([i \in 1..n |-> i], n + 1) = [i \in 1..(n + 1) |-> i]
<1> DEFINE first == [i \in 1..n |-> i]
<1>1. first \in Seq(Nat) /\ Len(first) = n
  OBVIOUS
<1>2. DOMAIN Append(first, n + 1) = 1..(n + 1)
  BY <1>1
<1>3. \A i \in 1..(n + 1) : Append(first, n + 1)[i] = i
  BY <1>1
<1>4. Append(first, n + 1) = [i \in DOMAIN Append(first, n + 1) |-> Append(first, n + 1)[i]]
  BY <1>1
<1> QED
  BY <1>2, <1>3, <1>4

(* What a write leaves is a file.                                          *)
LEMMA AppendedIsFile ==
    ASSUME NEW file \in Files, NEW what \in Nat
    PROVE  /\ Appended(file, what) \in Files
           /\ Appended(file, what).data = Append(file.data, what)
    BY DEF Appended, Files

LEMMA InitIInv == ASSUME Counted, Init PROVE IInv
<1> USE DEF Init, Counted
<1>1. NoFile \in Files
  BY DEF NoFile, Files
<1>2. Shapes
  BY <1>1 DEF Shapes, NoUpload, Uploads, Stages, Fresh, Requests, NoPiece, Free
<1>3. PieceInv
  BY DEF PieceInv, NoPiece
<1>4. OpenedInv
  BY DEF OpenedInv, Fresh
<1>5. SlotInv
  BY DEF SlotInv, Free, NoUpload
<1>6. PiecesInOrder
  BY DEF PiecesInOrder
<1> QED
  BY <1>2, <1>3, <1>4, <1>5, <1>6 DEF IInv

-----------------------------------------------------------------------------
(* An upload that is discarded loses its file and nothing else.            *)
LEMMA DiscardKeeps ==
    ASSUME Counted, Shapes, NEW u \in Uploads
    PROVE  /\ Unlinked(u) \in [Uploads -> Stages]
           /\ Unlinked(u)[u] = [upload[u] EXCEPT !.file = NoFile]
           /\ \A v \in Uploads : v # u => Unlinked(u)[v] = upload[v]
           /\ \A v \in Uploads : /\ Unlinked(u)[v].received = upload[v].received
                                 /\ Unlinked(u)[v].opened = upload[v].opened
<1>1. NoFile \in Files
  BY DEF NoFile, Files
<1> QED
  BY <1>1 DEF Shapes, Unlinked, Stages

(* Discarding the current upload, of which the lock is given back.         *)
LEMMA DiscardKeepsIInv ==
    ASSUME Counted, IInv, Discard, UNCHANGED <<piece, asked, begun, faults>>,
           slot' = Free \/ (SlotFree /\ UNCHANGED slot)
    PROVE  IInv'
<1> USE DEF Counted
<1>1. current \in 0..begun /\ begun \in 0..MaxUploads /\ (current # 0 => current \in Uploads)
  BY DEF IInv, Shapes, NoUpload, Uploads
<1>2. upload' \in [Uploads -> Stages]
  BY <1>1, DiscardKeeps DEF IInv, Shapes, Discard, NoUpload
<1>3. \A v \in Uploads : /\ upload'[v].received = upload[v].received
                         /\ upload'[v].opened = upload[v].opened
                         /\ v # current => upload'[v] = upload[v]
                         /\ v = current => ~upload'[v].file.there
  <2>1. CASE current = NoUpload
    BY <2>1 DEF Discard, Uploads, NoUpload
  <2>2. CASE current # NoUpload
    <3>1. current \in Uploads /\ upload' = Unlinked(current) /\ upload[current] \in Stages
      BY <1>1, <2>2 DEF IInv, Shapes, Discard, NoUpload
    <3>2. ~[upload[current] EXCEPT !.file = NoFile].file.there
      BY <3>1 DEF Stages, NoFile
    <3>3. IInv => Shapes
      BY DEF IInv
    <3> QED
      BY <3>1, <3>2, <3>3, DiscardKeeps
  <2> QED
    BY <2>1, <2>2
<1>4. Shapes'
  <2>1. Free \in [by : {"nobody", "inspect", "restore"}, id : Nat, file : Files]
    BY DEF Free, NoUpload, NoFile, Files
  <2>2. slot' \in [by : {"nobody", "inspect", "restore"}, id : Nat, file : Files]
    BY <2>1 DEF IInv, Shapes
  <2>3. current' \in {NoUpload, begun}
    BY DEF Discard
  <2> QED
    BY <1>2, <2>2, <2>3 DEF IInv, Shapes
<1>5. PieceInv'
  <2>1. \A r \in Requests : piece[r].pc # "idle" => piece[r].id \in Uploads
    BY <1>1 DEF IInv, PieceInv, Uploads
  <2> QED
    BY <1>3, <2>1 DEF IInv, PieceInv, IsNext, Requests
<1>6. OpenedInv'
  <2>1. ASSUME NEW u \in Uploads, u > begun PROVE upload'[u] = Fresh
    BY <1>1, <1>3, <2>1 DEF IInv, OpenedInv, Uploads
  <2>2. ASSUME NEW u \in Uploads, upload'[u].opened
        PROVE  /\ u \in 1..begun /\ upload'[u].received = Pieces
               /\ ~upload'[u].file.there
    <3>1. upload[u].opened /\ upload'[u].received = upload[u].received
      BY <1>3, <2>2
    <3> QED
      BY <1>3, <3>1 DEF IInv, OpenedInv
  <2> QED
    BY <2>1, <2>2 DEF OpenedInv
<1>7. SlotInv'
  <2>1. slot'.by = "nobody"
    BY DEF Free, SlotFree
  <2>2. asked # NoUpload => asked \in Uploads
    BY <1>1 DEF IInv, Shapes, Uploads, NoUpload
  <2> QED
    BY <1>3, <2>1, <2>2 DEF IInv, SlotInv
<1>8. PiecesInOrder'
  BY DEF Discard, PiecesInOrder
<1> QED
  BY <1>4, <1>5, <1>6, <1>7, <1>8 DEF IInv

(* Requests that come and go without writing: a request is sent, waits for *)
(* the upload's lock and finds its piece already there.                    *)
LEMMA SendKeepsIInv ==
    ASSUME Counted, IInv, NEW r \in Requests, Send(r) \/ Lock(r)
    PROVE  IInv'
<1> USE DEF Counted
<1>0. /\ UNCHANGED <<current, upload, slot, asked, begun, faults>>
      /\ begun \in 0..MaxUploads /\ current \in 0..begun
      /\ \A u \in Uploads : upload[u].received \in 0..Pieces
  BY DEF Send, Lock, IInv, Shapes, Stages, NoUpload
<1>1. PICK v \in [pc : {"idle", "waiting", "writing"}, id : Nat, part : Nat] :
        /\ piece' = [piece EXCEPT ![r] = v]
        /\ v.pc # "idle" => v.id \in 1..begun /\ v.part \in 1..Pieces
        /\ v.pc = "writing" => /\ v.part = upload[v.id].received + 1
                               /\ Unlocked(v.id)
  <2>1. CASE Send(r)
    <3>1. PICK part \in 1..Pieces :
            piece' = [piece EXCEPT ![r] = [pc |-> "waiting", id |-> current, part |-> part]]
      BY <2>1 DEF Send
    <3> DEFINE v == [pc |-> "waiting", id |-> current, part |-> part]
    <3>2. /\ v \in [pc : {"idle", "waiting", "writing"}, id : Nat, part : Nat]
          /\ v.pc = "waiting" /\ v.id \in 1..begun /\ v.part \in 1..Pieces
      BY <1>0, <2>1 DEF Send, NoUpload
    <3> HIDE DEF v
    <3> QED
      BY <3>1, <3>2 DEF v
  <2>2. CASE Lock(r) /\ IsNext(r)
    <3>1. piece' = [piece EXCEPT ![r] = [piece[r] EXCEPT !.pc = "writing"]]
      BY <2>2 DEF Lock
    <3>2. piece[r] \in [pc : {"idle", "waiting", "writing"}, id : Nat, part : Nat]
      BY DEF IInv, Shapes
    <3>3. piece[r].id \in 1..begun /\ piece[r].part \in 1..Pieces
      BY <2>2 DEF Lock, IInv, PieceInv
    <3> DEFINE v == [piece[r] EXCEPT !.pc = "writing"]
    <3>4. /\ v \in [pc : {"idle", "waiting", "writing"}, id : Nat, part : Nat]
          /\ v.id = piece[r].id /\ v.part = piece[r].part
      BY <3>2
    <3>5. Unlocked(v.id) /\ v.part = upload[v.id].received + 1
      BY <2>2, <3>4 DEF Lock, IsNext
    <3> QED
      BY <3>1, <3>3, <3>4, <3>5
  <2>3. CASE Lock(r) /\ ~IsNext(r)
    BY <2>3 DEF Lock, NoPiece, NoUpload
  <2> QED
    BY <2>1, <2>2, <2>3
<1>2. piece' \in [Requests -> [pc : {"idle", "waiting", "writing"}, id : Nat, part : Nat]]
      /\ piece'[r] = v /\ \A s \in Requests : s # r => piece'[s] = piece[s]
  BY <1>1 DEF IInv, Shapes
<1>3. Shapes'
  BY <1>0, <1>2 DEF IInv, Shapes
<1>4. PieceInv'
  <2>1. \A s \in Requests : piece'[s].pc # "idle" =>
          piece'[s].id \in 1..begun /\ piece'[s].part \in 1..Pieces
    BY <1>1, <1>2 DEF IInv, PieceInv
  <2>2. \A s \in Requests : piece'[s].pc = "writing" =>
          piece'[s].part = upload[piece'[s].id].received + 1
    BY <1>1, <1>2 DEF IInv, PieceInv, IsNext
  <2>3. ASSUME NEW s \in Requests, NEW t \in Requests, piece'[s].pc = "writing",
               piece'[t].pc = "writing", piece'[s].id = piece'[t].id
        PROVE  s = t
    BY <1>1, <1>2, <2>3 DEF IInv, PieceInv, Unlocked
  <2> QED
    BY <1>0, <2>1, <2>2, <2>3 DEF PieceInv, IsNext
<1> QED
  BY <1>0, <1>3, <1>4 DEF IInv, OpenedInv, SlotInv, PiecesInOrder

(* A write changes the upload it is for, which has a piece to come.        *)
LEMMA WriteKeepsIInv ==
    ASSUME Counted, IInv, NEW r \in Requests, Written(r) \/ WriteFails(r)
    PROVE  IInv'
<1> USE DEF Counted
<1> DEFINE u == piece[r].id
           part == piece[r].part
<1>1. /\ u \in 1..begun /\ u \in Uploads /\ part \in 1..Pieces
      /\ part = upload[u].received + 1 /\ begun \in 0..MaxUploads /\ current \in 0..begun
      /\ piece[r].pc = "writing" /\ piece' = [piece EXCEPT ![r] = NoPiece]
      /\ UNCHANGED <<current, slot, asked, begun>>
  BY DEF Written, WriteFails, IInv, Shapes, PieceInv, IsNext, Uploads, NoUpload
<1>2. /\ upload[u] \in Stages /\ upload[u].file \in Files
      /\ part \in Nat /\ part \in 0..Pieces /\ upload[u].received # part
  BY <1>1 DEF IInv, Shapes, Stages
<1>3. /\ Appended(upload[u].file, part) \in Files
      /\ Appended(upload[u].file, 0) \in Files
      /\ Appended(upload[u].file, part).data = Append(upload[u].file.data, part)
  BY <1>2, AppendedIsFile
<1>4. PICK v \in Stages :
        /\ upload' = [upload EXCEPT ![u] = v]
        /\ v.opened = upload[u].opened
        /\ v.received \in {upload[u].received, part}
        /\ v.received = part => v.file = Appended(upload[u].file, part) /\ UNCHANGED faults
        /\ v.received # part => faults' = faults + 1
  <2>1. CASE Written(r)
    <3> DEFINE v == [upload[u] EXCEPT !.file = Appended(@, part), !.received = @ + 1]
    <3>1. upload' = [upload EXCEPT ![u] = v]
      BY <2>1, <1>1 DEF Written, IInv, Shapes
    <3>2. v \in Stages /\ v.file = Appended(upload[u].file, part) /\ v.received = part
          /\ v.opened = upload[u].opened
      BY <1>1, <1>2, <1>3 DEF Stages
    <3> HIDE DEF v
    <3> QED
      BY <2>1, <3>1, <3>2 DEF Written
  <2>2. CASE WriteFails(r) /\ upload' # upload
    <3> DEFINE v == [upload[u] EXCEPT !.file = Appended(@, 0)]
    <3>1. upload' = [upload EXCEPT ![u] = v]
      BY <2>2, <1>1 DEF WriteFails, IInv, Shapes
    <3>2. v \in Stages /\ v.received = upload[u].received /\ v.opened = upload[u].opened
      BY <1>1, <1>2, <1>3 DEF Stages
    <3> HIDE DEF v
    <3> QED
      BY <1>2, <2>2, <3>1, <3>2 DEF WriteFails
  <2>3. CASE WriteFails(r) /\ upload' = upload
    <3>1. upload' = [upload EXCEPT ![u] = upload[u]]
      BY <1>1, <2>3 DEF IInv, Shapes
    <3> QED
      BY <1>2, <2>3, <3>1 DEF WriteFails
  <2> QED
    BY <2>1, <2>2, <2>3
<1>5. /\ upload' \in [Uploads -> Stages] /\ upload'[u] = v
      /\ \A w \in Uploads : w # u => upload'[w] = upload[w]
  BY <1>1, <1>4 DEF IInv, Shapes
<1>6. ~upload[u].opened /\ ~v.opened /\ upload[u].received # Pieces
  BY <1>1, <1>2, <1>4 DEF IInv, OpenedInv, Stages
<1>7. Shapes'
  <2>1. NoPiece \in [pc : {"idle", "waiting", "writing"}, id : Nat, part : Nat]
    BY DEF NoPiece, NoUpload
  <2>2. piece' \in [Requests -> [pc : {"idle", "waiting", "writing"}, id : Nat, part : Nat]]
    BY <1>1, <2>1 DEF IInv, Shapes
  <2>3. faults' \in Nat
    BY <1>4 DEF IInv, Shapes
  <2> QED
    BY <1>1, <1>5, <2>2, <2>3 DEF IInv, Shapes
<1>8. PieceInv'
  <2>1. piece'[r] = NoPiece /\ \A s \in Requests : s # r => piece'[s] = piece[s]
    BY <1>1 DEF IInv, Shapes
  <2>2. ASSUME NEW s \in Requests, piece'[s].pc = "writing"
        PROVE  s # r /\ piece[s].id # u /\ piece[s].id \in Uploads
    BY <1>1, <2>1, <2>2 DEF IInv, PieceInv, NoPiece, Uploads
  <2>3. \A s \in Requests : piece'[s].pc = "writing" => IsNext(s)'
    BY <1>5, <2>1, <2>2 DEF IInv, PieceInv, IsNext
  <2> QED
    BY <1>1, <2>1, <2>3 DEF IInv, PieceInv, NoPiece
<1>9. OpenedInv'
  BY <1>1, <1>5, <1>6 DEF IInv, OpenedInv, Uploads
<1>10. SlotInv'
  <2>1. current # NoUpload => current \in Uploads
    BY <1>1 DEF NoUpload, Uploads
  <2>2. slot.by = "inspect" => current # u
    BY <1>6 DEF IInv, SlotInv
  <2>3. asked # NoUpload => asked \in Uploads
    BY <1>1 DEF IInv, Shapes, NoUpload, Uploads
  <2> QED
    BY <1>1, <1>5, <1>6, <2>1, <2>2, <2>3 DEF IInv, SlotInv
<1>11. PiecesInOrder'
  <2>1. CASE v.received = part
    <3>1. v.file.data = Append(upload[u].file.data, part)
      BY <1>4, <1>3, <2>1
    <3>2. upload[u].received \in Nat
      BY <1>1, <1>2 DEF Stages
    <3>3. upload[u].file.data = [i \in 1..upload[u].received |-> i]
             => v.file.data = [i \in 1..v.received |-> i]
      BY <1>1, <2>1, <3>1, <3>2, NextPiece
    <3>4. current # NoUpload => current \in Uploads
      BY <1>1 DEF NoUpload, Uploads
    <3> QED
      BY <1>1, <1>4, <1>5, <2>1, <3>3, <3>4 DEF IInv, PiecesInOrder
  <2>2. CASE v.received # part
    BY <1>4, <2>2 DEF IInv, Shapes, PiecesInOrder
  <2> QED
    BY <2>1, <2>2
<1> QED
  BY <1>7, <1>8, <1>9, <1>10, <1>11 DEF IInv

(* An upload that was just begun, with its file or without.                *)
LEMMA FreshIsUpload ==
    ASSUME Counted
    PROVE  Fresh \in Stages /\ [Fresh EXCEPT !.file.there = TRUE] \in Stages
<1>1. NoFile \in Files /\ [NoFile EXCEPT !.there = TRUE] \in Files
  <2>1. NoFile \in Files
    BY DEF NoFile, Files
  <2> QED
    BY <2>1 DEF Files
<1>2. Fresh \in Stages
  BY <1>1 DEF Fresh, Stages, Counted
<1>3. Fresh.file = NoFile
  BY DEF Fresh
<1>4. [Fresh EXCEPT !.file = [NoFile EXCEPT !.there = TRUE]] \in Stages
  BY <1>1, <1>2 DEF Stages
<1>5. [Fresh EXCEPT !.file.there = TRUE] = [Fresh EXCEPT !.file = [NoFile EXCEPT !.there = TRUE]]
  BY <1>3
<1> QED
  BY <1>2, <1>4, <1>5

(* A new upload has its own number and an empty file.                      *)
LEMMA BeginKeepsIInv == ASSUME Counted, IInv, Begin PROVE IInv'
<1> USE DEF Counted
<1> DEFINE new == begun + 1
<1>1. /\ begun \in 0..MaxUploads /\ current \in 0..begun /\ new \in 1..MaxUploads
      /\ new \in Uploads /\ begun' = new /\ (current # NoUpload => current \in Uploads)
      /\ SlotFree /\ UNCHANGED <<piece, slot, asked, faults>>
  BY DEF Begin, MayBegin, IInv, Shapes, Uploads, NoUpload
<1> DEFINE before == IF current = NoUpload THEN upload ELSE Unlinked(current)
<1>2. /\ before \in [Uploads -> Stages]
      /\ \A v \in Uploads : /\ before[v].received = upload[v].received
                            /\ before[v].opened = upload[v].opened
                            /\ v > begun => before[v] = upload[v]
  <2>1. CASE current = NoUpload
    BY <2>1 DEF IInv, Shapes
  <2>2. CASE current # NoUpload
    <3>1. Shapes /\ current \in Uploads /\ before = Unlinked(current)
      BY <1>1, <2>2 DEF IInv
    <3>2. \A v \in Uploads : v > begun => v # current
      BY <1>1 DEF Uploads
    <3> HIDE DEF before
    <3> QED
      BY <3>1, <3>2, DiscardKeeps
  <2> QED
    BY <2>1, <2>2
<1>3. \A v \in Uploads : v = current => ~before[v].file.there
  <2>1. ASSUME current # NoUpload PROVE ~before[current].file.there
    <3>1. before[current] = [upload[current] EXCEPT !.file = NoFile]
      BY <1>1, <2>1, DiscardKeeps DEF IInv
    <3>2. upload[current] \in Stages
      BY <1>1, <2>1 DEF IInv, Shapes
    <3> QED
      BY <3>1, <3>2 DEF Stages, NoFile
  <2> QED
    BY <2>1 DEF Uploads, NoUpload
<1>4. \A v \in Uploads : v # current => before[v] = upload[v]
  BY <1>1, DiscardKeeps DEF IInv
<1>5. upload[new] = Fresh /\ new # current
  BY <1>1 DEF IInv, OpenedInv
<1>6. PICK w \in Stages :
        /\ upload' = [before EXCEPT ![new] = w]
        /\ w = Fresh \/ (current' = new /\ w = [Fresh EXCEPT !.file.there = TRUE])
        /\ current' \in {NoUpload, new}
        /\ current' = new => w = [Fresh EXCEPT !.file.there = TRUE]
  <2>1. Fresh \in Stages /\ [Fresh EXCEPT !.file.there = TRUE] \in Stages
    BY FreshIsUpload
  <2>2. before[new] = Fresh
    BY <1>1, <1>4, <1>5
  <2>3. CASE current' = new
    <3>1. upload' = [before EXCEPT ![new].file.there = TRUE]
      BY <1>1, <2>3 DEF Begin, Discard, NoUpload
    <3>2. upload' = [before EXCEPT ![new] = [Fresh EXCEPT !.file.there = TRUE]]
      BY <1>1, <1>2, <2>2, <3>1
    <3> QED
      BY <2>1, <2>3, <3>2
  <2>4. CASE current' # new
    <3>1. upload' = before /\ current' = NoUpload
      BY <2>4 DEF Begin, Discard
    <3>2. upload' = [before EXCEPT ![new] = Fresh]
      BY <1>1, <1>2, <2>2, <3>1
    <3> QED
      BY <2>1, <2>4, <3>1, <3>2
  <2> QED
    BY <2>3, <2>4
<1>7. /\ upload' \in [Uploads -> Stages] /\ upload'[new] = w
      /\ \A v \in Uploads : v # new => upload'[v] = before[v]
  BY <1>1, <1>2, <1>6
<1>8. w.received = 0 /\ ~w.opened /\ w.file.data = <<>>
  BY <1>6 DEF Fresh, NoFile
<1> HIDE DEF before
<1>9. Shapes'
  BY <1>1, <1>6, <1>7 DEF IInv, Shapes
<1>10. PieceInv'
  <2>1. \A r \in Requests : piece[r].pc # "idle" =>
          piece[r].id \in Uploads /\ piece[r].id # new /\ piece[r].id \in 1..new
    BY <1>1 DEF IInv, PieceInv, Uploads
  <2>2. \A r \in Requests : piece[r].pc = "writing" =>
          upload'[piece[r].id].received = upload[piece[r].id].received
    BY <1>2, <1>7, <2>1
  <2> QED
    BY <1>1, <2>1, <2>2 DEF IInv, PieceInv, IsNext
<1>11. OpenedInv'
  <2>1. ASSUME NEW u \in Uploads, u > new PROVE upload'[u] = Fresh
    BY <1>1, <1>2, <1>7, <2>1 DEF IInv, OpenedInv, Uploads
  <2>2. ASSUME NEW u \in Uploads, upload'[u].opened
        PROVE  u \in 1..new /\ upload'[u].received = Pieces /\ ~upload'[u].file.there
    <3>1. u # new /\ upload[u].opened /\ upload'[u] = before[u]
      BY <1>2, <1>7, <1>8, <2>2
    <3>2. u \in 1..begun /\ upload[u].received = Pieces /\ (upload[u].file.there => u = current)
      BY <3>1 DEF IInv, OpenedInv
    <3> QED
      BY <1>1, <1>2, <1>3, <1>4, <3>1, <3>2
  <2> QED
    BY <1>1, <2>1, <2>2 DEF OpenedInv
<1>12. SlotInv'
  <2>1. slot'.by = "nobody"
    BY <1>1 DEF SlotFree
  <2>2. asked # NoUpload => asked \in Uploads /\ asked # new
    BY <1>1 DEF IInv, Shapes, NoUpload, Uploads
  <2> QED
    BY <1>1, <1>2, <1>7, <2>1, <2>2 DEF IInv, SlotInv
<1>13. PiecesInOrder'
  <2>1. CASE current' = new
    <3>1. upload'[current'].file.data = <<>> /\ upload'[current'].received = 0
      BY <1>7, <1>8, <2>1
    <3>2. <<>> = [i \in 1..0 |-> i]
      OBVIOUS
    <3> QED
      BY <3>1, <3>2 DEF PiecesInOrder
  <2>2. CASE current' = NoUpload
    BY <2>2 DEF PiecesInOrder
  <2> QED
    BY <1>6, <2>1, <2>2
<1> QED
  BY <1>9, <1>10, <1>11, <1>12, <1>13 DEF IInv

(* Taking the slot, and the requests that look at it.                      *)
LEMMA SlotStepKeepsIInv ==
    ASSUME Counted, IInv, Inspect \/ Confirm \/ Restore
    PROVE  IInv'
<1> USE DEF Counted
<1>1. /\ UNCHANGED <<current, upload, piece, begun, faults>>
      /\ begun \in 0..MaxUploads /\ current \in 0..begun
      /\ current # NoUpload => current \in Uploads
      /\ asked # NoUpload => asked \in Uploads
  BY DEF Inspect, Confirm, Restore, IInv, Shapes, Uploads, NoUpload
<1>2. slot' \in [by : {"nobody", "inspect", "restore"}, id : Nat, file : Files]
      /\ asked' \in 0..begun /\ SlotInv'
  <2>1. CASE Inspect
    <3>1. upload[current] \in Stages
      BY <1>1, <2>1 DEF Inspect, IInv, Shapes
    <3> QED
      BY <1>1, <2>1, <3>1 DEF Inspect, IInv, Shapes, SlotInv, Stages
  <2>2. CASE Confirm
    BY <1>1, <2>2 DEF Confirm, IInv, Shapes, SlotInv
  <2>3. CASE Restore /\ SlotFree
    <3>1. NoFile \in Files
      BY DEF NoFile, Files
    <3>2. slot' = [by |-> "restore", id |-> asked, file |-> NoFile] /\ asked' = NoUpload
      BY <2>3 DEF Restore, Free
    <3>3. asked # NoUpload /\ upload[asked].opened /\ asked \in Nat
      BY <1>1, <2>3 DEF Restore, IInv, SlotInv, Uploads
    <3> QED
      BY <1>1, <3>1, <3>2, <3>3 DEF SlotInv, NoUpload
  <2>4. CASE Restore /\ ~SlotFree
    BY <1>1, <2>4 DEF Restore, IInv, Shapes, SlotInv, NoUpload
  <2> QED
    BY <2>1, <2>2, <2>3, <2>4
<1> QED
  BY <1>1, <1>2 DEF IInv, Shapes, PieceInv, OpenedInv, PiecesInOrder, IsNext

(* The end of an inspection or a restore keeps the current upload, but for *)
(* whether it was opened, or discards it.                                  *)
LEMMA EndKeepsIInv ==
    ASSUME Counted, IInv, Inspected \/ Restored
    PROVE  IInv'
<1> USE DEF Counted
<1>1. slot' = Free /\ UNCHANGED <<piece, asked, begun, faults>>
  BY DEF Inspected, Restored
<1>2. CASE Discard
  BY <1>1, <1>2, DiscardKeepsIInv
<1>3. Free \in [by : {"nobody", "inspect", "restore"}, id : Nat, file : Files]
  BY DEF Free, NoUpload, NoFile, Files
<1>4. CASE UNCHANGED <<upload, current>>
  BY <1>1, <1>3, <1>4
    DEF IInv, Shapes, PieceInv, OpenedInv, SlotInv, PiecesInOrder, IsNext, Free
<1>5. ASSUME slot.by = "inspect", Verifies(slot.file), UNCHANGED current,
             upload' = [upload EXCEPT ![slot.id].opened = TRUE]
      PROVE  IInv'
  <2>1. /\ current \in 1..begun /\ current \in Uploads /\ slot.id = current
        /\ upload[current].received = Pieces /\ upload[current].file.data = Whole
    BY <1>5 DEF IInv, Shapes, SlotInv, Verifies, Uploads, NoUpload
  <2>2. /\ upload' \in [Uploads -> Stages]
        /\ \A u \in Uploads : /\ upload'[u].file = upload[u].file
                              /\ upload'[u].received = upload[u].received
                              /\ upload'[u].opened <=> upload[u].opened \/ u = current
                              /\ u # current => upload'[u] = upload[u]
    BY <1>5, <2>1 DEF IInv, Shapes, Stages
  <2>3. Shapes'
    BY <1>1, <1>3, <1>5, <2>2 DEF IInv, Shapes
  <2>4. PieceInv'
    <3>1. \A r \in Requests : piece[r].pc # "idle" => piece[r].id \in Uploads
      BY DEF IInv, Shapes, PieceInv, Uploads
    <3> QED
      BY <1>1, <2>2, <3>1 DEF IInv, PieceInv, IsNext
  <2>5. OpenedInv'
    <3>1. \A u \in Uploads : u > begun => upload'[u] = Fresh
      BY <2>1, <2>2 DEF IInv, Shapes, OpenedInv, Uploads
    <3>2. ASSUME NEW u \in Uploads, upload'[u].opened
          PROVE  /\ u \in 1..begun /\ upload[u].received = Pieces
                 /\ upload[u].file.there => u = current /\ upload[u].file.data = Whole
      <4>1. upload[u].opened \/ u = current
        BY <2>2, <3>2
      <4> QED
        BY <2>1, <4>1 DEF IInv, OpenedInv
    <3> QED
      BY <1>1, <1>5, <2>2, <3>1, <3>2 DEF OpenedInv
  <2>6. SlotInv'
    <3>1. asked # NoUpload => asked \in Uploads
      BY DEF IInv, Shapes, Uploads, NoUpload
    <3> QED
      BY <1>1, <2>2, <3>1 DEF IInv, SlotInv, Free
  <2>7. PiecesInOrder'
    BY <1>1, <1>5, <2>1, <2>2 DEF IInv, PiecesInOrder
  <2> QED
    BY <2>3, <2>4, <2>5, <2>6, <2>7 DEF IInv
<1> QED
  BY <1>2, <1>4, <1>5 DEF Inspected, Restored

LEMMA NextKeepsIInv == ASSUME Counted, IInv, [Next]_uvars PROVE IInv'
<1>1. CASE Begin
  BY <1>1, BeginKeepsIInv
<1>2. CASE Inspect \/ Confirm \/ Restore
  BY <1>2, SlotStepKeepsIInv
<1>3. CASE Inspected \/ Restored
  BY <1>3, EndKeepsIInv
<1>4. CASE Drop
  BY <1>4, DiscardKeepsIInv DEF Drop
<1>5. ASSUME NEW r \in Requests, Send(r) \/ Lock(r) \/ Written(r) \/ WriteFails(r)
      PROVE  IInv'
  BY <1>5, SendKeepsIInv, WriteKeepsIInv
<1>6. CASE UNCHANGED uvars
  BY <1>6 DEF uvars, IInv, Shapes, PieceInv, OpenedInv, SlotInv, PiecesInOrder, IsNext
<1> QED
  BY <1>1, <1>2, <1>3, <1>4, <1>5, <1>6 DEF Next, Rests

-----------------------------------------------------------------------------
(* The invariant holds of every state of a restore.                        *)
THEOREM Invariance == ASSUME Counted PROVE Spec => []IInv
<1>1. Init => IInv
  BY InitIInv
<1>2. IInv /\ [Next]_uvars => IInv'
  BY NextKeepsIInv
<1> QED
  BY <1>1, <1>2, PTL DEF Spec

(* Pieces of an upload are written one at a time, and no more of them than *)
(* the file has (StagedUpload.lock).                                       *)
THEOREM TypeCorrect == ASSUME Counted PROVE Spec => []StagingTypeOK
<1>1. ASSUME IInv PROVE StagingTypeOK
  BY <1>1 DEF Counted, IInv, Shapes, Stages, PieceInv, StagingTypeOK, NoUpload
<1> QED
  BY <1>1, Invariance, PTL

(* However pieces are retried and uploads replaced, the staged file is the *)
(* pieces in order, each once, unless a write failed                       *)
(* (RestoreStaging.append).                                                *)
THEOREM PiecesStayInOrder == ASSUME Counted PROVE Spec => []PiecesInOrder
<1>1. IInv => PiecesInOrder
  BY DEF IInv
<1> QED
  BY <1>1, Invariance, PTL

(* The file a restore merges is the one whose checksums were compared: no  *)
(* late piece and no other upload gets in between.                         *)
THEOREM CheckedIsRestored == ASSUME Counted PROVE Spec => []OnlyCheckedIsRestored
<1>1. IInv => OnlyCheckedIsRestored
  BY DEF IInv, SlotInv, OpenedInv, OnlyCheckedIsRestored
<1> QED
  BY <1>1, Invariance, PTL

(* The end of an inspection or of a restore discards no upload but its own,*)
(* also when another was begun while the confirmation was on its way.      *)
THEOREM OwnIsDiscarded == ASSUME Counted PROVE Spec => [][DiscardsItsOwn]_uvars
<1>1. ASSUME IInv, [Next]_uvars PROVE [DiscardsItsOwn]_uvars
  <2>1. CASE Inspected
    BY <1>1, <2>1 DEF IInv, SlotInv, Inspected, DiscardsItsOwn
  <2>2. CASE Restored
    BY <1>1, <2>2 DEF IInv, SlotInv, OpenedInv, Restored, DiscardsItsOwn
  <2> QED
    BY <2>1, <2>2 DEF DiscardsItsOwn
<1> QED
  BY <1>1, Invariance, PTL DEF Spec

=============================================================================
