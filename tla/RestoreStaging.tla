--------------------------- MODULE RestoreStaging ---------------------------
(***************************************************************************)
(* The uploaded backup between the steps of a restore (backup/staging.py,  *)
(* media_server/backup.py).  The page sends the file in pieces; the server *)
(* keeps one upload, opens it once to show what is in it, and restores it  *)
(* when the user confirms.  Pieces are written by threads, and creating,   *)
(* inspecting and restoring share a slot that refuses instead of waiting.  *)
(***************************************************************************)
EXTENDS Integers, Sequences

CONSTANTS
    Pieces,         \* how many pieces the page cuts the file into
    MaxUploads,     \* bound: uploads begun
    MaxFaults       \* bound: writes that fail

NoUpload  == 0
Uploads   == 1..MaxUploads
Requests  == {"page", "retry"}   \* two pieces may be under way at a time

VARIABLES
    current,    \* RestoreStaging._current
    upload,     \* every upload: its file, what was received, its archive
    piece,      \* the requests that carry a piece
    slot,       \* who holds the backup lock: nobody, inspect or restore
    asked,      \* a confirmed restore that still reads its request's body
    begun,
    faults

uvars == <<current, upload, piece, slot, asked, begun, faults>>

-----------------------------------------------------------------------------
NoFile  == [there |-> FALSE, data |-> <<>>]
Fresh   == [file |-> NoFile, received |-> 0, opened |-> FALSE]
NoPiece == [pc |-> "idle", id |-> NoUpload, part |-> 0]
Free    == [by |-> "nobody", id |-> NoUpload, file |-> NoFile]
Whole   == [i \in 1..Pieces |-> i]

Init ==
    /\ current = NoUpload
    /\ upload = [u \in Uploads |-> Fresh]
    /\ piece = [r \in Requests |-> NoPiece]
    /\ slot = Free
    /\ asked = NoUpload
    /\ begun = 0
    /\ faults = 0

(* discard: the upload is forgotten and its file unlinked.                 *)
Unlinked(u) == [upload EXCEPT ![u].file = NoFile]

Discard ==
    /\ current' = NoUpload
    /\ upload' = IF current = NoUpload THEN upload ELSE Unlinked(current)

SlotFree == slot.by = "nobody"

MayBegin == SlotFree

(* A new upload takes the place of the one before it, if the disk has room.*)
Begin ==
    /\ MayBegin /\ begun < MaxUploads
    /\ begun' = begun + 1
    /\ \/ /\ current' = begun + 1
          /\ upload' = [(IF current = NoUpload THEN upload ELSE Unlinked(current))
                            EXCEPT ![begun + 1].file.there = TRUE]
       \/ Discard
    /\ UNCHANGED <<piece, slot, asked, faults>>

-----------------------------------------------------------------------------
(* The page sends the next piece, or the last one again when its reply got *)
(* lost; it then waits for the upload's lock.                              *)
Send(r) ==
    /\ current # NoUpload /\ piece[r].pc = "idle"
    /\ \E part \in {upload[current].received, upload[current].received + 1} :
         /\ part \in 1..Pieces
         /\ piece' = [piece EXCEPT ![r] =
                        [pc |-> "waiting", id |-> current, part |-> part]]
    /\ UNCHANGED <<current, upload, slot, asked, begun, faults>>

IsNext(r) == piece[r].part = upload[piece[r].id].received + 1

Unlocked(u) == \A r \in Requests : piece[r].pc = "writing" => piece[r].id # u

Lock(r) ==
    /\ piece[r].pc = "waiting" /\ Unlocked(piece[r].id)
    /\ piece' = [piece EXCEPT ![r] = IF IsNext(r) THEN [@ EXCEPT !.pc = "writing"]
                                                  ELSE NoPiece]
    /\ UNCHANGED <<current, upload, slot, asked, begun, faults>>

(* Opening for append creates a file that is gone.                         *)
Appended(file, what) == [there |-> TRUE, data |-> Append(file.data, what)]

Written(r) ==
    /\ piece[r].pc = "writing"
    /\ upload' = [upload EXCEPT ![piece[r].id].file = Appended(@, piece[r].part),
                                ![piece[r].id].received = @ + 1]
    /\ piece' = [piece EXCEPT ![r] = NoPiece]
    /\ UNCHANGED <<current, slot, asked, begun, faults>>

(* A disk that fills up takes none or a part of a piece.                   *)
WriteFails(r) ==
    /\ piece[r].pc = "writing" /\ faults < MaxFaults
    /\ faults' = faults + 1
    /\ \/ upload' = [upload EXCEPT ![piece[r].id].file = Appended(@, 0)]
       \/ upload' = upload
    /\ piece' = [piece EXCEPT ![r] = NoPiece]
    /\ UNCHANGED <<current, slot, asked, begun>>

-----------------------------------------------------------------------------
Inspect ==
    /\ current # NoUpload /\ upload[current].received = Pieces
    /\ SlotFree
    /\ slot' = [by |-> "inspect", id |-> current, file |-> upload[current].file]
    /\ UNCHANGED <<current, upload, piece, asked, begun, faults>>

(* BackupArchive.open compares every member with the manifest's checksum.  *)
Verifies(file) == file.there /\ file.data = Whole

(* A thread reads the file it opened; the library is then compared with it,*)
(* which reads it again and may fail.  A damaged backup is discarded.      *)
Inspected ==
    /\ slot.by = "inspect"
    /\ slot' = Free
    /\ \/ /\ Verifies(slot.file) /\ upload[slot.id].file.there
          /\ upload' = [upload EXCEPT ![slot.id].opened = TRUE]
          /\ UNCHANGED current
       \/ /\ Verifies(slot.file)
          /\ UNCHANGED <<upload, current>>
       \/ /\ ~Verifies(slot.file)
          /\ Discard
    /\ UNCHANGED <<piece, asked, begun, faults>>

(* The restore is checked first and then reads its body, which takes time. *)
Confirm ==
    /\ current # NoUpload /\ upload[current].opened /\ asked = NoUpload
    /\ asked' = current
    /\ UNCHANGED <<current, upload, piece, slot, begun, faults>>

Restore ==
    /\ asked # NoUpload
    /\ slot' = IF SlotFree THEN [Free EXCEPT !.by = "restore", !.id = asked]
                            ELSE slot
    /\ asked' = NoUpload
    /\ UNCHANGED <<current, upload, piece, begun, faults>>

(* The merge reads the file again; without it, or when the database        *)
(* refuses, nothing was changed and the upload stays.                      *)
Restored ==
    /\ slot.by = "restore"
    /\ slot' = Free
    /\ \/ upload[slot.id].file.there /\ upload[slot.id].file.data = Whole /\ Discard
       \/ UNCHANGED <<current, upload>>
    /\ UNCHANGED <<piece, asked, begun, faults>>

(* The user drops the file, or an hour passes without a request of its own.*)
Drop ==
    /\ current # NoUpload /\ SlotFree
    /\ Discard
    /\ UNCHANGED <<piece, slot, asked, begun, faults>>

(* The page has nothing to send and nothing is under way.                  *)
Rests ==
    /\ current = NoUpload /\ begun = MaxUploads /\ SlotFree
    /\ UNCHANGED uvars

Next ==
    \/ Begin \/ Inspect \/ Inspected \/ Confirm \/ Restore \/ Restored \/ Drop
    \/ \E r \in Requests : Send(r) \/ Lock(r) \/ Written(r) \/ WriteFails(r)
    \/ Rests

Spec == Init /\ [][Next]_uvars

-----------------------------------------------------------------------------
(* One lock per upload: its pieces are written one at a time, and no more  *)
(* of them than the file has.                                              *)
StagingTypeOK ==
    /\ \A u \in Uploads : upload[u].received \in 0..Pieces
    /\ \A r, s \in Requests :
         piece[r].pc = "writing" /\ piece[s].pc = "writing" /\ r # s =>
            piece[r].id # piece[s].id
    /\ current \in 0..begun

(* "each piece names the offset it starts at, so a retry ... is recognised *)
(* instead of being written twice": the file is the pieces in order, each  *)
(* of them once, whatever is retried and when, unless a write failed.      *)
PiecesInOrder ==
    current # NoUpload /\ faults = 0 =>
        upload[current].file.data = [i \in 1..upload[current].received |-> i]

(* What a restore merges is the file the summary was made of, whole.       *)
OnlyCheckedIsRestored ==
    slot.by = "restore" /\ upload[slot.id].file.there /\ slot.id = current =>
        upload[slot.id].file.data = Whole

(* The end of an inspection or of a restore discards no upload but its own:*)
(* a file sent meanwhile from another tab is still there.                  *)
DiscardsItsOwn ==
    (Inspected \/ Restored) /\ current' # current => current = slot.id

=============================================================================
