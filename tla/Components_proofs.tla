------------------------- MODULE Components_proofs --------------------------
(***************************************************************************)
(* What is proved of the components of Components, each for every value of *)
(* its constants.  A behaviour is about one component from its beginning   *)
(* to its end, so an invariant of a component, inductive in the component, *)
(* is one of the whole; IInv of each component is stated in its module.    *)
(* What the pages show and keep is in Pages_proofs.                        *)
(***************************************************************************)
EXTENDS Components, TLAPS, FiniteSetTheorems, SequenceTheorems

-----------------------------------------------------------------------------
(* The Drive connection (DriveLink): s1 is the client, s2 the file, s3     *)
(* Google, s4 the flows, s6 the refresh under way, s7 the disconnect.      *)

LEMMA LinkInit == DL!Init => DL!IInv
BY DEF DL!Init, DL!IInv, DL!LinkShapes, DL!NoLimbo, DL!FileMatchesClient,
       DL!Nothing, DL!Absent, DL!Quiet, DL!NoToken, DL!Flows

(* Asking Google for a token and answering for one.                        *)
LEMMA LinkFlowStep ==
    ASSUME DL!IInv, NEW f \in DL!Flows,
           DL!Connect(f) \/ DL!Polled(f) \/ DL!Answered(f) \/ DL!FlowFails(f)
    PROVE  DL!IInv'
<1> USE DEF DL!IInv, DL!LinkShapes, DL!NoLimbo, DL!FileMatchesClient, DL!NoToken
<1>1. CASE DL!Connect(f)
  BY <1>1 DEF DL!Connect
<1>2. CASE DL!Polled(f)
  BY <1>2 DEF DL!Polled
<1>3. CASE DL!Answered(f)
  BY <1>3 DEF DL!Answered, DL!Persist
<1>4. CASE DL!FlowFails(f)
  BY <1>4 DEF DL!FlowFails
<1> QED
  BY <1>1, <1>2, <1>3, <1>4

(* A refresh that comes back keeps what is connected connected.            *)
LEMMA LinkRefreshStep ==
    ASSUME DL!IInv,
           DL!AccessExpires \/ DL!BeginRefresh \/ DL!Refreshed \/ DL!RefreshFails
    PROVE  DL!IInv'
<1> USE DEF DL!IInv, DL!LinkShapes, DL!NoLimbo, DL!FileMatchesClient, DL!NoToken
<1>1. CASE DL!AccessExpires
  BY <1>1 DEF DL!AccessExpires
<1>2. CASE DL!BeginRefresh
  BY <1>2 DEF DL!BeginRefresh
<1>3. CASE DL!Refreshed
  <2>1. PICK new \in {DL!NoToken, s3.given + 1} :
          /\ s3' = IF new = DL!NoToken THEN s3 ELSE [s3 EXCEPT !.given = new]
          /\ s1' = [s1 EXCEPT !.refresh = DL!KeepOld(@, new), !.access = TRUE]
          /\ DL!Persist(s1')
    BY <1>3 DEF DL!Refreshed
  <2>2. s3' \in [given : Nat, revoked : SUBSET Nat] /\ new \in Nat
    BY <2>1
  <2>3. /\ s1' \in [refresh : Nat, access : BOOLEAN, connected : BOOLEAN]
        /\ DL!NoLimbo'
    BY <2>1, <2>2 DEF DL!KeepOld
  <2> QED
    BY <1>3, <2>1, <2>2, <2>3 DEF DL!Refreshed, DL!Persist, DL!Quiet
<1>4. CASE DL!RefreshFails
  <2>1. \/ s1' = DL!Nothing /\ s2' = DL!Absent
        \/ s1' = s1 /\ s2' = s2
    BY <1>4 DEF DL!RefreshFails, DL!ClearCredentials
  <2>2. s6' = DL!Quiet /\ s3' = s3 /\ s4' = s4 /\ s7' = s7
    BY <1>4 DEF DL!RefreshFails
  <2>3. /\ DL!Nothing \in [refresh : Nat, access : BOOLEAN, connected : BOOLEAN]
        /\ DL!Absent \in [exists : BOOLEAN, refresh : Nat]
        /\ DL!Quiet \in [on : BOOLEAN, token : Nat]
    BY DEF DL!Nothing, DL!Absent, DL!Quiet
  <2>4. DL!NoLimbo' /\ DL!FileMatchesClient'
    BY <2>1, <2>2 DEF DL!Nothing, DL!Absent
  <2> QED
    BY <2>1, <2>2, <2>3, <2>4
<1> QED
  BY <1>1, <1>2, <1>3, <1>4

LEMMA LinkStill == DL!IInv /\ UNCHANGED DL!dvars => DL!IInv'
BY DEF DL!dvars, DL!IInv, DL!LinkShapes, DL!NoLimbo, DL!FileMatchesClient, DL!NoToken

LEMMA LinkStep ==
    ASSUME DL!IInv, DL!Next
    PROVE  DL!IInv'
<1> USE DEF DL!IInv, DL!LinkShapes, DL!NoLimbo, DL!FileMatchesClient, DL!NoToken
<1>1. CASE DL!Revoke
  BY <1>1 DEF DL!Revoke
<1>2. CASE DL!BeginDisconnect
  BY <1>2 DEF DL!BeginDisconnect
<1>3. CASE DL!Disconnected
  BY <1>3 DEF DL!Disconnected, DL!ClearCredentials, DL!Nothing, DL!Absent, DL!Quiet
<1>4. CASE DL!Restart
  BY <1>4 DEF DL!Restart, DL!Quiet
<1>5. CASE DL!Idle
  BY <1>5, LinkStill DEF DL!Idle
<1> QED
  BY <1>1, <1>2, <1>3, <1>4, <1>5, LinkFlowStep, LinkRefreshStep DEF DL!Next

-----------------------------------------------------------------------------
(* The backup folders (DriveFolders): s1 are the folders, s2 how many were *)
(* made, s3 the memo, s4 the upload, s5 the prune, s6 what is left of the  *)
(* bounds, s7 whether a run is excused.                                    *)

LEMMA FoldersInit ==
    ASSUME DriveFolderLimit \in Nat, FolderUploads \in Nat, FolderPrunes \in Nat, FolderErrors \in Nat,
           DF!Init
    PROVE  DF!IInv
<1>1. DF!Tree
  BY DEF DF!Init, DF!Tree, DF!NoFolder, DF!Ids, DF!Root, DF!None
<1>2. DF!MemoShape /\ DF!UploadAt /\ DF!PruneAt /\ DF!Bounds
  BY DEF DF!Init, DF!MemoShape, DF!UploadAt, DF!PruneAt, DF!Bounds, DF!IdleUp, DF!IdlePrune, DF!Found,
         DF!Levels, DF!None, DF!Root, DF!Ids
<1>3. DF!InTurn
  BY DEF DF!Init, DF!InTurn, DF!MemoIsPath, DF!UploadFollows, DF!PruneFollows, DF!NoBackupTrashed,
         DF!NothingThere, DF!OneOfEach, DF!IdleUp, DF!IdlePrune, DF!Found, DF!Levels, DF!None,
         DF!NoFolder, DF!Ids
<1> QED
  BY <1>1, <1>2, <1>3 DEF DF!IInv

(* Nothing in Drive changes.                                               *)
LEMMA DriveStays ==
    ASSUME DF!Tree, s1' = s1, s2' = s2
    PROVE  /\ DF!Tree'
           /\ \A name : DF!Named(name)' = DF!Named(name)
           /\ DF!NoBackupTrashed' <=> DF!NoBackupTrashed
           /\ \A i : /\ DF!InTrash(i)' <=> DF!InTrash(i)
                     /\ DF!Empty(i)' <=> DF!Empty(i)
           /\ \A p, name : DF!Listed(p, name)' = DF!Listed(p, name)
BY DEF DF!Tree, DF!Named, DF!NoBackupTrashed, DF!InTrash, DF!Empty, DF!Listed

(* Of one level or the other.                                              *)
LEMMA TwoLevels ==
    /\ DF!Levels = {1, 2}
    /\ DF!Path[1] = "day" /\ DF!Path[2] = "camera"
    /\ DF!None \notin DF!Ids \cup {DF!Root}
    /\ \A name : DF!Named(name) \subseteq 1..s2
BY DEF DF!Levels, DF!Path, DF!None, DF!Ids, DF!Root, DF!Named

LEMMA FoldersUpload ==
    ASSUME DF!IInv, DF!Upload
    PROVE  DF!IInv'
<1> USE DriveStays, TwoLevels DEF DF!IInv, DF!Upload
<1>1. DF!Tree' /\ DF!MemoShape' /\ DF!PruneAt'
  BY DEF DF!MemoShape, DF!PruneAt
<1>2. DF!UploadAt' /\ DF!Bounds'
  BY DEF DF!UploadAt, DF!IdleUp, DF!Root, DF!Bounds, DF!Spend
<1>3. ASSUME ~s7' PROVE DF!InTurn'
  <2> USE <1>3 DEF DF!InTurn
  <2>1. s6'.error = s6.error
    BY DEF DF!Bounds, DF!Spend
  <2>2. DF!MemoIsPath'
    BY DEF DF!MemoIsPath
  <2>3. DF!UploadFollows' /\ DF!NothingThere'
    BY DEF DF!UploadFollows, DF!NothingThere, DF!IdleUp
  <2>4. DF!PruneFollows' /\ DF!NoBackupTrashed' /\ DF!OneOfEach'
    BY <2>1 DEF DF!PruneFollows, DF!OneOfEach
  <2> QED
    BY <2>2, <2>3, <2>4
<1> QED
  BY <1>1, <1>2, <1>3

(* A lookup goes one level deeper, or has arrived.                         *)
LEMMA DeeperUpload ==
    ASSUME DF!UploadAt, s4.pc \in {"resolving", "creating"}, NEW id,
           s4.level = 1 => id \in DF!Named("day")',
           s4.level = 2 => id \in DF!Named("camera")',
           s2' \in 0..DriveFolderLimit, DriveFolderLimit \in Nat, s4' = DF!Deeper(s4, id)
    PROVE  /\ DF!UploadAt'
           /\ s4.level = 1 => s4'.pc = "resolving" /\ s4'.level = 2 /\ s4'.parent = id
           /\ s4.level = 2 => s4'.pc = "resolved" /\ s4'.level = 2 /\ s4'.parent = id
<1>1. s4.level \in {1, 2} /\ id \in DF!Ids
  BY TwoLevels DEF DF!UploadAt, DF!Named, DF!Ids
<1>2. CASE s4.level = 1
  <2>1. s4' = [s4 EXCEPT !.level = 2, !.parent = id, !.pc = "resolving"]
    BY <1>2 DEF DF!Deeper
  <2> QED
    BY <1>1, <1>2, <2>1, TwoLevels DEF DF!UploadAt
<1>3. CASE s4.level = 2
  <2>1. s4' = [s4 EXCEPT !.pc = "resolved", !.parent = id]
    BY <1>3 DEF DF!Deeper
  <2> QED
    BY <1>1, <1>3, <2>1, TwoLevels DEF DF!UploadAt
<1> QED
  BY <1>1, <1>2, <1>3

LEMMA FoldersFromCache ==
    ASSUME DriveFolderLimit \in Nat, DF!IInv, DF!FromCache
    PROVE  DF!IInv'
<1> USE DriveStays, TwoLevels DEF DF!IInv, DF!FromCache
<1>1. DF!Tree' /\ DF!MemoShape' /\ DF!PruneAt' /\ DF!Bounds'
  BY DEF DF!MemoShape, DF!PruneAt, DF!Bounds
<1>2. /\ DF!UploadAt'
      /\ s4.level = 1 => s4'.pc = "resolving" /\ s4'.level = 2 /\ s4'.parent = s3[1]
      /\ s4.level = 2 => s4'.pc = "resolved" /\ s4'.level = 2 /\ s4'.parent = s3[2]
  <2>1. s4.level \in DF!Levels
    BY DEF DF!UploadAt
  <2>2. s3[s4.level] \in DF!Named(DF!Path[s4.level])
    BY <2>1 DEF DF!MemoShape
  <2>3. s4.level = 1 => s3[s4.level] \in DF!Named("day")'
    BY <2>2
  <2>4. s4.level = 2 => s3[s4.level] \in DF!Named("camera")'
    BY <2>2
  <2>5. s2' \in 0..DriveFolderLimit
    BY DEF DF!Tree
  <2> QED
    BY <2>1, <2>3, <2>4, <2>5, DeeperUpload
<1>3. ASSUME ~s7' PROVE DF!InTurn'
  <2> USE <1>3 DEF DF!InTurn
  <2>2. DF!MemoIsPath'
    BY DEF DF!MemoIsPath
  <2>3. DF!UploadFollows' /\ DF!NothingThere'
    BY <1>2 DEF DF!UploadFollows, DF!NothingThere, DF!UploadAt
  <2>4. DF!PruneFollows' /\ DF!NoBackupTrashed' /\ DF!OneOfEach'
    BY DEF DF!PruneFollows, DF!OneOfEach
  <2> QED
    BY <2>2, <2>3, <2>4
<1> QED
  BY <1>1, <1>2, <1>3

(* What Drive lists on the path is not in the trash.                       *)
LEMMA ListedIsUp ==
    ASSUME DF!Tree, DriveFolderLimit \in Nat, NEW l \in DF!Levels, NEW p, NEW i \in DF!Listed(p, DF!Path[l]),
           l = 2 => p \in DF!Named("day") /\ ~DF!InTrash(p)
    PROVE  i \in DF!Named(DF!Path[l]) /\ s1[i].parent = p /\ ~DF!InTrash(i)
<1>1. i \in 1..s2 /\ s1[i].name = DF!Path[l] /\ s1[i].parent = p /\ ~s1[i].trashed
  BY DEF DF!Listed
<1>2. i \in DF!Named(DF!Path[l])
  BY <1>1 DEF DF!Named
<1>3. CASE l = 1
  <2>1. s1[i].parent \notin DF!Ids
    BY <1>1, <1>3, TwoLevels DEF DF!Tree, DF!Root, DF!Ids
  <2> QED
    BY <1>1, <1>2, <2>1 DEF DF!InTrash
<1>4. CASE l = 2
  BY <1>1, <1>2, <1>4 DEF DF!InTrash
<1> QED
  BY <1>3, <1>4, TwoLevels

(* The memo remembers a folder that was listed.                            *)
LEMMA MemoGrows ==
    ASSUME DF!Tree, DF!MemoShape, DF!MemoIsPath, NEW l \in DF!Levels, s3[l] = DF!None,
           NEW i \in DF!Named(DF!Path[l]), ~DF!InTrash(i), l = 2 => s3[1] # DF!None /\ s1[i].parent = s3[1],
           s3' = [s3 EXCEPT ![l] = i], s1' = s1, s2' = s2, DriveFolderLimit \in Nat,
           s5.pc # "forgetting", s5'.pc # "forgetting", s4'.pc = "idle" \/ s5'.pc = "idle"
    PROVE  DF!MemoShape' /\ DF!MemoIsPath' /\ s3'[l] = i /\ \A k \in DF!Levels \ {l} : s3'[k] = s3[k]
<1> USE TwoLevels
<1>1. i \in DF!Ids /\ i # DF!None
  BY DEF DF!Tree, DF!Named, DF!Ids
<1>2. /\ s3' \in [DF!Levels -> DF!Ids \cup {DF!None}]
      /\ s3'[l] = i /\ \A k \in DF!Levels \ {l} : s3'[k] = s3[k]
  BY <1>1 DEF DF!MemoShape
<1>3. DF!MemoShape'
  BY <1>2, DriveStays DEF DF!MemoShape
<1>4. DF!MemoIsPath'
  BY <1>1, <1>2, DriveStays DEF DF!MemoIsPath
<1> QED
  BY <1>2, <1>3, <1>4

LEMMA FoldersList ==
    ASSUME DriveFolderLimit \in Nat, FolderErrors \in Nat, DF!IInv, DF!List
    PROVE  DF!IInv'
<1> DEFINE l == s4.level
<1> USE TwoLevels DEF DF!IInv
<1>0. /\ l \in DF!Levels /\ s4.pc = "resolving" /\ s3[l] = DF!None
      /\ s1' = s1 /\ s2' = s2 /\ s5' = s5 /\ s7' = s7
  BY DEF DF!List, DF!UploadAt
<1>1. DF!Tree' /\ DF!PruneAt'
  BY <1>0, DriveStays DEF DF!PruneAt
<1>2. ASSUME ~s7
      PROVE  /\ s5.pc = "idle" /\ DF!InTurn
             /\ l = 2 => s4.parent \in DF!Named("day") /\ s3[1] = s4.parent /\ ~DF!InTrash(s4.parent)
             /\ DF!PruneFollows' /\ DF!NoBackupTrashed'
  BY <1>0, <1>2, DriveStays DEF DF!InTurn, DF!MemoIsPath, DF!UploadFollows, DF!UploadAt, DF!PruneFollows,
                                DF!Found
<1>3. ASSUME NEW i \in DF!Listed(s4.parent, DF!Path[l]), s4' = DF!Deeper(s4, i),
             s3' = [s3 EXCEPT ![l] = i], s6' = s6
      PROVE  DF!IInv'
  <2>1. i \in DF!Named(DF!Path[l])
    BY DEF DF!Listed, DF!Named
  <2>2. /\ DF!UploadAt'
        /\ l = 1 => s4'.pc = "resolving" /\ s4'.level = 2 /\ s4'.parent = i
        /\ l = 2 => s4'.pc = "resolved" /\ s4'.level = 2 /\ s4'.parent = i
    <3>1. (l = 1 => i \in DF!Named("day")') /\ (l = 2 => i \in DF!Named("camera")')
      BY <1>0, <2>1, DriveStays
    <3>2. s2' \in 0..DriveFolderLimit
      BY <1>0 DEF DF!Tree
    <3> QED
      BY <1>0, <1>3, <3>1, <3>2, DeeperUpload
  <2>3. /\ DF!MemoShape'
        /\ s3'[l] = i
    BY <1>0, <1>3, <2>1, DriveStays DEF DF!MemoShape, DF!Named, DF!Tree, DF!Ids
  <2>4. ASSUME ~s7' PROVE DF!InTurn'
    <3>1. ~s7
      BY <1>0, <2>4
    <3>2. s1[i].parent = s4.parent /\ ~DF!InTrash(i)
      BY <1>0, <1>2, <3>1, ListedIsUp
    <3>3. l = 2 => s3[1] # DF!None /\ s1[i].parent = s3[1]
      BY <1>0, <1>2, <3>1, <3>2 DEF DF!UploadAt
    <3>4. DF!MemoIsPath' /\ \A k \in DF!Levels \ {l} : s3'[k] = s3[k]
      BY <1>0, <1>2, <1>3, <2>1, <3>1, <3>2, <3>3, MemoGrows DEF DF!InTurn
    <3>5. DF!UploadFollows' /\ DF!NothingThere'
      BY <1>0, <2>2, <2>3, <3>4 DEF DF!UploadFollows, DF!NothingThere
    <3>6. DF!OneOfEach'
      BY <1>0, <1>2, <1>3, <3>1, DriveStays DEF DF!InTurn, DF!OneOfEach
    <3> QED
      BY <1>0, <1>2, <3>1, <3>4, <3>5, <3>6 DEF DF!InTurn, DF!PruneFollows, DF!Found
  <2> QED
    BY <1>1, <1>3, <2>2, <2>3, <2>4 DEF DF!Bounds
<1>4. ASSUME s4' = [s4 EXCEPT !.pc = "creating"], s3' = s3, DF!Bounds',
             (s6' = s6 /\ DF!Listed(s4.parent, DF!Path[l]) = {}) \/ s6'.error # FolderErrors
      PROVE  DF!IInv'
  <2>1. DF!UploadAt' /\ s4'.level = l /\ s4'.parent = s4.parent /\ s4'.pc = "creating"
    BY <1>0, <1>4, DriveStays DEF DF!UploadAt
  <2>2. DF!MemoShape'
    BY <1>0, <1>4, DriveStays DEF DF!MemoShape
  <2>3. ASSUME ~s7' PROVE DF!InTurn'
    <3>1. ~s7
      BY <1>0, <2>3
    <3>2. DF!MemoIsPath'
      BY <1>0, <1>2, <1>4, <3>1, DriveStays DEF DF!InTurn, DF!MemoIsPath
    <3>3. DF!UploadFollows'
      BY <1>0, <1>2, <1>4, <2>1, <3>1 DEF DF!InTurn, DF!UploadFollows
    <3>4. DF!NothingThere' /\ DF!OneOfEach'
      BY <1>0, <1>2, <1>4, <2>1, <3>1, DriveStays DEF DF!InTurn, DF!NothingThere, DF!OneOfEach
    <3> QED
      BY <1>2, <3>1, <3>2, <3>3, <3>4 DEF DF!InTurn
  <2> QED
    BY <1>1, <1>4, <2>1, <2>2, <2>3
<1>5. ASSUME DF!Spend("error") PROVE DF!Bounds' /\ s6'.error # FolderErrors
  BY <1>5 DEF DF!Spend, DF!Bounds
<1> QED
  BY <1>0, <1>3, <1>4, <1>5 DEF DF!List, DF!Bounds

(* A failed question to Drive is told from none.                           *)
LEMMA ErrorCounts ==
    ASSUME FolderErrors \in Nat, DF!Bounds, DF!Spend("error")
    PROVE  DF!Bounds' /\ s6'.error # FolderErrors
BY DEF DF!Spend, DF!Bounds

(* A new folder leaves the others where they are.                          *)
LEMMA FolderMade ==
    ASSUME DriveFolderLimit \in Nat, DF!Tree, DF!UploadAt, s4.pc = "creating", s2 < DriveFolderLimit,
           s2' = s2 + 1,
           s1' = [s1 EXCEPT ![s2'] = [name |-> DF!Path[s4.level], parent |-> s4.parent,
                                      trashed |-> FALSE, files |-> 0]]
    PROVE  /\ DF!Tree'
           /\ s2' \in DF!Ids /\ s2' \notin 1..s2 /\ 1..s2' = (1..s2) \cup {s2'}
           /\ s1'[s2'].name = DF!Path[s4.level] /\ s1'[s2'].parent = s4.parent
           /\ ~s1'[s2'].trashed /\ s1'[s2'].files = 0
           /\ \A i \in DF!Ids \ {s2'} : s1'[i] = s1[i] /\ (DF!InTrash(i)' <=> DF!InTrash(i))
           /\ \A name : DF!Named(name) \subseteq DF!Named(name)'
<1> DEFINE n == s2'
           new == [name |-> DF!Path[s4.level], parent |-> s4.parent, trashed |-> FALSE, files |-> 0]
<1>0. /\ n \in DF!Ids /\ n \notin 1..s2 /\ 1..n = (1..s2) \cup {n} /\ 1..s2 \subseteq DF!Ids /\ n \in 0..DriveFolderLimit
      /\ s4.level \in {1, 2} /\ s2 \in Nat
  BY TwoLevels DEF DF!Tree, DF!Ids, DF!UploadAt
<1>1. new \in [name : {"none", "day", "camera"}, parent : DF!Ids \cup {DF!Root, DF!None},
               trashed : BOOLEAN, files : Nat]
  BY <1>0, TwoLevels DEF DF!UploadAt
<1>2. /\ s1' \in [DF!Ids -> [name : {"none", "day", "camera"}, parent : DF!Ids \cup {DF!Root, DF!None},
                           trashed : BOOLEAN, files : Nat]]
      /\ s1'[n] = new /\ \A i \in DF!Ids \ {n} : s1'[i] = s1[i]
  <2> HIDE DEF new
  <2> QED
    BY <1>0, <1>1 DEF DF!Tree, new
<1>3. \A name : DF!Named(name) \subseteq DF!Named(name)'
  BY <1>0, <1>2 DEF DF!Named
<1>4. \/ s1'[n].name = "day" /\ s1'[n].parent = DF!Root
      \/ s1'[n].name = "camera" /\ s1'[n].parent \in DF!Named("day")'
  BY <1>0, <1>2, <1>3, TwoLevels DEF DF!UploadAt
<1>5. \A i \in 1..s2 : \/ s1'[i].name = "day" /\ s1'[i].parent = DF!Root
                       \/ s1'[i].name = "camera" /\ s1'[i].parent \in DF!Named("day")'
  BY <1>0, <1>2, <1>3 DEF DF!Tree
<1>6. \A i \in DF!Ids : i > n => s1'[i] = DF!NoFolder
  BY <1>0, <1>2 DEF DF!Tree, DF!Ids
<1>7. DF!Tree'
  BY <1>0, <1>2, <1>4, <1>5, <1>6 DEF DF!Tree
<1>8. ASSUME NEW i \in DF!Ids \ {n} PROVE DF!InTrash(i)' <=> DF!InTrash(i)
  <2>1. s1[i].parent # n
    <3>1. CASE i \in 1..s2
      BY <1>0, <3>1, TwoLevels DEF DF!Tree, DF!Root, DF!Ids
    <3>2. CASE i > s2
      BY <1>0, <3>2 DEF DF!Tree, DF!NoFolder, DF!None, DF!Ids
    <3> QED
      BY <1>0, <3>1, <3>2 DEF DF!Ids
  <2> QED
    BY <1>2, <2>1 DEF DF!InTrash
<1> QED
  BY <1>0, <1>2, <1>3, <1>7, <1>8

LEMMA FoldersCreate ==
    ASSUME DriveFolderLimit \in Nat, FolderErrors \in Nat, DF!IInv, DF!Create
    PROVE  DF!IInv'
<1> DEFINE l == s4.level
           n == s2'
<1> USE TwoLevels DEF DF!IInv
<1>0. s4.pc = "creating" /\ l \in DF!Levels /\ s5' = s5 /\ s7' = s7
  BY DEF DF!Create, DF!UploadAt
<1>1. ASSUME DF!Spend("error"), s4' = DF!IdleUp, s1' = s1, s2' = s2, s3' = s3
      PROVE  DF!IInv'
  <2>1. DF!Tree' /\ DF!MemoShape' /\ DF!PruneAt' /\ DF!Bounds' /\ s6'.error # FolderErrors
    BY <1>0, <1>1, DriveStays, ErrorCounts DEF DF!MemoShape, DF!PruneAt
  <2>2. DF!UploadAt'
    BY <1>1 DEF DF!UploadAt, DF!IdleUp
  <2>3. DF!InTurn => DF!InTurn'
    BY <1>0, <1>1, <2>1, DriveStays DEF DF!InTurn, DF!MemoIsPath, DF!UploadFollows, DF!PruneFollows,
       DF!NothingThere, DF!OneOfEach, DF!IdleUp
  <2> QED
    BY <1>0, <2>1, <2>2, <2>3
<1>2. ASSUME s2 < DriveFolderLimit, n = s2 + 1,
             s1' = [s1 EXCEPT ![n] = [name |-> DF!Path[l], parent |-> s4.parent,
                                      trashed |-> FALSE, files |-> 0]],
             s3' = [s3 EXCEPT ![l] = n], s4' = DF!Deeper(s4, n), s6' = s6
      PROVE  DF!IInv'
  <2>1. /\ DF!Tree'
        /\ n \in DF!Ids /\ n \notin 1..s2 /\ 1..n = (1..s2) \cup {n}
        /\ s1'[n].name = DF!Path[l] /\ s1'[n].parent = s4.parent
        /\ ~s1'[n].trashed /\ s1'[n].files = 0
        /\ \A i \in DF!Ids \ {n} : s1'[i] = s1[i] /\ (DF!InTrash(i)' <=> DF!InTrash(i))
        /\ \A name : DF!Named(name) \subseteq DF!Named(name)'
    BY <1>0, <1>2, FolderMade
  <2>3. (l = 1 => n \in DF!Named("day")') /\ (l = 2 => n \in DF!Named("camera")')
    BY <1>0, <2>1 DEF DF!Named
  <2>4. /\ DF!UploadAt'
        /\ l = 1 => s4'.pc = "resolving" /\ s4'.level = 2 /\ s4'.parent = n
        /\ l = 2 => s4'.pc = "resolved" /\ s4'.level = 2 /\ s4'.parent = n
    <3>1. n \in 0..DriveFolderLimit
      BY <2>1 DEF DF!Ids
    <3> QED
      BY <1>0, <1>2, <2>3, <3>1, DeeperUpload
  <2>5. s3'[l] = n /\ \A k \in DF!Levels \ {l} : s3'[k] = s3[k]
    BY <1>0, <1>2 DEF DF!MemoShape
  <2>6. DF!MemoShape'
    <3>1. s3' \in [DF!Levels -> DF!Ids \cup {DF!None}]
      BY <1>0, <1>2, <2>1 DEF DF!MemoShape
    <3>2. ASSUME NEW k \in DF!Levels PROVE s3'[k] = DF!None \/ s3'[k] \in DF!Named(DF!Path[k])'
      <4>1. CASE k = 1
        BY <1>0, <2>1, <2>3, <2>5, <4>1 DEF DF!MemoShape
      <4>2. CASE k = 2
        BY <1>0, <2>1, <2>3, <2>5, <4>2 DEF DF!MemoShape
      <4> QED
        BY <4>1, <4>2
    <3> QED
      BY <3>1, <3>2 DEF DF!MemoShape
  <2>7. DF!PruneAt'
    BY <1>0, <2>1 DEF DF!PruneAt
  <2>8. DF!Bounds'
    BY <1>2 DEF DF!Bounds
  <2>9. ASSUME ~s7' PROVE DF!InTurn'
    <3> USE <2>9
    <3>1. /\ s5.pc = "idle" /\ s5'.pc = "idle" /\ DF!InTurn
          /\ s3[l] = DF!None /\ (l = 1 => s3[2] = DF!None /\ s4.parent = DF!Root)
          /\ l = 2 => s4.parent \in DF!Named("day") /\ s3[1] = s4.parent /\ ~DF!InTrash(s4.parent)
      BY <1>0 DEF DF!InTurn, DF!MemoIsPath, DF!UploadFollows, DF!UploadAt, DF!Found
    <3>2. \A m : m = n => ~DF!InTrash(m)'
      <4>1. CASE l = 1
        BY <2>1, <3>1, <4>1 DEF DF!InTrash, DF!Root, DF!Ids
      <4>2. CASE l = 2
        <5>1. s4.parent \in DF!Ids \ {n}
          BY <2>1, <3>1, <4>2, <1>2 DEF DF!Named, DF!Ids, DF!Tree
        <5> QED
          BY <2>1, <3>1, <4>2, <5>1 DEF DF!InTrash
      <4> QED
        BY <1>0, <4>1, <4>2
    <3>3. DF!MemoIsPath'
      <4>1. \A k \in DF!Levels : \A m : m = s3'[k] /\ m # DF!None => ~DF!InTrash(m)'
        <5> SUFFICES ASSUME NEW k \in DF!Levels \ {l}, NEW m, m = s3[k], m # DF!None
                     PROVE  ~DF!InTrash(m)'
          BY <2>5, <3>2
        <5>1. m \in DF!Ids \ {n}
          BY <2>1, <1>2 DEF DF!MemoShape, DF!Tree, DF!Named, DF!Ids
        <5>2. ~DF!InTrash(m)
          BY <3>1 DEF DF!InTurn, DF!MemoIsPath
        <5> QED
          BY <2>1, <5>1, <5>2
      <4>2. s3'[2] # DF!None => s3'[1] # DF!None /\ s1'[s3'[2]].parent = s3'[1]
        <5>1. CASE l = 1
          BY <2>5, <3>1, <5>1
        <5>2. CASE l = 2
          <6>1. s3'[2] = n /\ s3'[1] = s4.parent /\ s1'[n].parent = s4.parent
            BY <2>1, <2>5, <3>1, <5>2
          <6>2. s4.parent \in 1..s2 /\ s4.parent # DF!None
            BY <3>1, <5>2 DEF DF!Named, DF!None
          <6> QED
            BY <6>1, <6>2
        <5> QED
          BY <1>0, <5>1, <5>2
      <4> QED
        BY <3>1, <4>1, <4>2 DEF DF!MemoIsPath
    <3>4. DF!UploadFollows' /\ DF!NothingThere'
      BY <1>0, <2>4, <2>5 DEF DF!UploadFollows, DF!NothingThere
    <3>5. DF!PruneFollows'
      BY <3>1 DEF DF!PruneFollows, DF!Found
    <3>6. DF!NoBackupTrashed'
      BY <2>1, <3>1, <3>2 DEF DF!InTurn, DF!NoBackupTrashed
    <3>7. DF!OneOfEach'
      <4> SUFFICES ASSUME s6.error = FolderErrors, NEW i \in 1..s2, NEW j \in 1..s2',
                          s1'[i].name = s1'[j].name, ~DF!InTrash(i)', ~DF!InTrash(j)'
                   PROVE  i = j
        BY <1>2, <2>1 DEF DF!OneOfEach
      <4>1. i \in DF!Ids \ {n} /\ s1'[i] = s1[i] /\ ~DF!InTrash(i)
        BY <1>2, <2>1 DEF DF!Ids, DF!Tree
      <4>2. CASE j # n
        <5>1. j \in 1..s2 /\ j \in DF!Ids \ {n}
          BY <1>2, <2>1, <4>2 DEF DF!Ids, DF!Tree
        <5>2. s1'[j] = s1[j] /\ ~DF!InTrash(j)
          BY <2>1, <5>1
        <5> QED
          BY <3>1, <4>1, <5>1, <5>2 DEF DF!InTurn, DF!OneOfEach
      <4>3. CASE j = n
        <5>1. DF!Listed(s4.parent, DF!Path[l]) = {} /\ s1[i].name = DF!Path[l] /\ ~s1[i].trashed
          BY <1>0, <2>1, <3>1, <4>1, <4>3 DEF DF!InTurn, DF!NothingThere, DF!InTrash
        <5>2. s1[i].parent # s4.parent
          BY <5>1 DEF DF!Listed
        <5>3. CASE l = 1
          BY <3>1, <5>1, <5>2, <5>3 DEF DF!Tree
        <5>4. CASE l = 2
          <6>1. /\ s1[i].parent \in DF!Named("day") /\ s4.parent \in DF!Named("day")
                /\ ~DF!InTrash(s4.parent)
            BY <3>1, <5>1, <5>4 DEF DF!Tree
          <6>2. /\ s1[i].parent \in 1..s2 /\ s4.parent \in 1..s2
                /\ s1[s1[i].parent].name = "day" /\ s1[s4.parent].name = "day"
            BY <6>1 DEF DF!Named
          <6>3. ~DF!InTrash(s1[i].parent)
            <7>1. s1[i].parent \in DF!Ids
              BY <6>2 DEF DF!Ids, DF!Tree
            <7>2. ~s1[s1[i].parent].trashed
              BY <4>1, <7>1 DEF DF!InTrash
            <7>3. s1[s1[i].parent].parent = DF!Root
              BY <6>2 DEF DF!Tree
            <7> QED
              BY <7>2, <7>3 DEF DF!InTrash, DF!Root, DF!Ids
          <6> QED
            BY <3>1, <5>2, <6>1, <6>2, <6>3 DEF DF!InTurn, DF!OneOfEach
        <5> QED
          BY <1>0, <5>3, <5>4
      <4> QED
        BY <4>2, <4>3
    <3> QED
      BY <3>3, <3>4, <3>5, <3>6, <3>7 DEF DF!InTurn
  <2> QED
    BY <2>1, <2>4, <2>6, <2>7, <2>8, <2>9
<1> QED
  BY <1>1, <1>2 DEF DF!Create

(* The files in a folder are another matter than where it is.              *)
LEMMA FilesMove ==
    ASSUME DriveFolderLimit \in Nat, DF!Tree, s2' = s2, s1' \in [DF!Ids -> [name : {"none", "day", "camera"},
                              parent : DF!Ids \cup {DF!Root, DF!None}, trashed : BOOLEAN, files : Nat]],
           \A i \in DF!Ids : /\ s1'[i].name = s1[i].name /\ s1'[i].parent = s1[i].parent
                             /\ s1'[i].trashed = s1[i].trashed
                             /\ i > s2 => s1'[i].files = 0
    PROVE  /\ DF!Tree'
           /\ \A name : DF!Named(name)' = DF!Named(name)
           /\ \A i \in DF!Ids : DF!InTrash(i)' <=> DF!InTrash(i)
           /\ \A p, name : DF!Listed(p, name)' = DF!Listed(p, name)
<1>1. 1..s2 \subseteq DF!Ids
  BY DEF DF!Tree, DF!Ids
<1>2. /\ \A name : DF!Named(name)' = DF!Named(name)
      /\ \A i \in DF!Ids : DF!InTrash(i)' <=> DF!InTrash(i)
      /\ \A p, name : DF!Listed(p, name)' = DF!Listed(p, name)
  BY <1>1 DEF DF!Named, DF!InTrash, DF!Listed
<1>3. ASSUME NEW i \in DF!Ids, i > s2 PROVE s1'[i] = DF!NoFolder
  <2>1. s1[i] = DF!NoFolder
    BY <1>3 DEF DF!Tree
  <2>2. /\ s1'[i].name = "none" /\ s1'[i].parent = DF!None
        /\ s1'[i].trashed = FALSE /\ s1'[i].files = 0
    BY <1>3, <2>1 DEF DF!NoFolder
  <2>3. s1'[i] \in [name : {"none", "day", "camera"},
                    parent : DF!Ids \cup {DF!Root, DF!None}, trashed : BOOLEAN, files : Nat]
    OBVIOUS
  <2> QED
    BY <2>2, <2>3 DEF DF!NoFolder
<1>4. DF!Tree'
  BY <1>1, <1>2, <1>3 DEF DF!Tree
<1> QED
  BY <1>2, <1>4

LEMMA FoldersPut ==
    ASSUME DriveFolderLimit \in Nat, DF!IInv, DF!Put
    PROVE  DF!IInv'
<1> DEFINE i == s4.parent
<1> USE TwoLevels DEF DF!IInv
<1>0. /\ s4.pc = "resolved" /\ i \in DF!Named("camera") /\ i \in 1..s2 /\ i \in DF!Ids
      /\ s2' = s2 /\ s3' = s3 /\ s4' = DF!IdleUp /\ s5' = s5 /\ s6' = s6 /\ s7' = s7
  BY DEF DF!Put, DF!UploadAt, DF!Named, DF!Tree, DF!Ids
<1>1. /\ s1' \in [DF!Ids -> [name : {"none", "day", "camera"},
                  parent : DF!Ids \cup {DF!Root, DF!None}, trashed : BOOLEAN, files : Nat]]
      /\ s1'[i] = [s1[i] EXCEPT !.files = @ + 1]
      /\ \A j \in DF!Ids \ {i} : s1'[j] = s1[j]
  <2> DEFINE more == [s1[i] EXCEPT !.files = @ + 1]
  <2>1. more \in [name : {"none", "day", "camera"},
                  parent : DF!Ids \cup {DF!Root, DF!None}, trashed : BOOLEAN, files : Nat]
    BY <1>0 DEF DF!Tree
  <2>2. s1' = [s1 EXCEPT ![i] = more]
    BY <1>0 DEF DF!Put
  <2> HIDE DEF more
  <2>3. /\ s1' \in [DF!Ids -> [name : {"none", "day", "camera"},
                  parent : DF!Ids \cup {DF!Root, DF!None}, trashed : BOOLEAN, files : Nat]]
        /\ s1'[i] = more /\ \A j \in DF!Ids \ {i} : s1'[j] = s1[j]
    BY <1>0, <2>1, <2>2 DEF DF!Tree
  <2> QED
    BY <2>3 DEF more
<1>2. \A j \in DF!Ids : /\ s1'[j].name = s1[j].name /\ s1'[j].parent = s1[j].parent
                        /\ s1'[j].trashed = s1[j].trashed
                        /\ j > s2 => s1'[j].files = 0
  BY <1>0, <1>1 DEF DF!Tree, DF!NoFolder, DF!Ids
<1>3. /\ DF!Tree'
      /\ \A name : DF!Named(name)' = DF!Named(name)
      /\ \A j \in DF!Ids : DF!InTrash(j)' <=> DF!InTrash(j)
  BY <1>0, <1>1, <1>2, FilesMove
<1>4. DF!MemoShape' /\ DF!UploadAt' /\ DF!PruneAt' /\ DF!Bounds'
  BY <1>0, <1>3 DEF DF!MemoShape, DF!UploadAt, DF!PruneAt, DF!Bounds, DF!IdleUp
<1>5. ASSUME ~s7' PROVE DF!InTurn'
  <2> USE <1>5
  <2>1. DF!InTurn /\ s5.pc = "idle" /\ s3[2] = i /\ ~DF!InTrash(i) /\ i # DF!None
    BY <1>0 DEF DF!InTurn, DF!MemoIsPath, DF!UploadFollows, DF!Found
  <2>2. DF!MemoIsPath'
    BY <1>0, <1>2, <1>3, <2>1 DEF DF!InTurn, DF!MemoIsPath, DF!MemoShape, DF!IdleUp
  <2>3. DF!UploadFollows' /\ DF!NothingThere' /\ DF!PruneFollows'
    BY <1>0, <2>1 DEF DF!UploadFollows, DF!NothingThere, DF!PruneFollows, DF!IdleUp, DF!Found
  <2>4. DF!NoBackupTrashed'
    BY <1>0, <1>1, <1>3, <2>1 DEF DF!InTurn, DF!NoBackupTrashed
  <2>5. DF!OneOfEach'
    BY <1>0, <1>2, <1>3, <2>1 DEF DF!InTurn, DF!OneOfEach, DF!Tree, DF!Ids
  <2> QED
    BY <2>2, <2>3, <2>4, <2>5 DEF DF!InTurn
<1> QED
  BY <1>3, <1>4, <1>5

LEMMA FoldersDelete ==
    ASSUME DriveFolderLimit \in Nat, FolderErrors \in Nat, DF!IInv, DF!DeleteArchive
    PROVE  DF!IInv'
<1> USE TwoLevels DEF DF!IInv
<1>0. /\ s5.pc = "idle" /\ s5' = [DF!IdlePrune EXCEPT !.pc = "finding"]
      /\ s7' = (s7 \/ s4.pc # "idle") /\ s2' = s2 /\ s3' = s3 /\ s4' = s4
  BY DEF DF!DeleteArchive
<1>1. s1' = [i \in DF!Ids |-> [s1[i] EXCEPT !.files = 0]] \/ s1' = s1
  BY DEF DF!DeleteArchive
<1>2. /\ s1' \in [DF!Ids -> [name : {"none", "day", "camera"},
                  parent : DF!Ids \cup {DF!Root, DF!None}, trashed : BOOLEAN, files : Nat]]
      /\ \A i \in DF!Ids : /\ s1'[i].name = s1[i].name /\ s1'[i].parent = s1[i].parent
                           /\ s1'[i].trashed = s1[i].trashed
                           /\ i > s2 => s1'[i].files = 0
                           /\ s1'[i].files > 0 => s1[i].files > 0
  <2>1. CASE s1' = [i \in DF!Ids |-> [s1[i] EXCEPT !.files = 0]]
    BY <2>1 DEF DF!Tree
  <2>2. CASE s1' = s1
    BY <2>2 DEF DF!Tree, DF!NoFolder
  <2> QED
    BY <1>1, <2>1, <2>2
<1>3. /\ DF!Tree'
      /\ \A name : DF!Named(name)' = DF!Named(name)
      /\ \A j \in DF!Ids : DF!InTrash(j)' <=> DF!InTrash(j)
      /\ \A p, name : DF!Listed(p, name)' = DF!Listed(p, name)
  BY <1>0, <1>2, FilesMove
<1>4. DF!Bounds' /\ (s6'.error = FolderErrors => s6.error = FolderErrors)
  <2>1. CASE DF!Spend("prune")
    BY <2>1 DEF DF!Bounds, DF!Spend
  <2>2. CASE s6.error > 0 /\ s6.prune > 0 /\ s6' = [s6 EXCEPT !.prune = @ - 1, !.error = @ - 1]
    <3>1. /\ s6.error \in Int /\ s6.error - 1 \in 0..FolderErrors /\ s6.prune - 1 \in Nat
          /\ s6.upload \in Nat /\ s6.restart \in Nat
      BY <2>2 DEF DF!Bounds
    <3>2. s6' = [upload |-> s6.upload, prune |-> s6.prune - 1, error |-> s6.error - 1,
                 restart |-> s6.restart]
      BY <2>2 DEF DF!Bounds
    <3>3. s6'.error = s6.error - 1 /\ s6.error <= FolderErrors
      BY <3>1, <3>2 DEF DF!Bounds
    <3> QED
      BY <3>1, <3>2, <3>3 DEF DF!Bounds
  <2> QED
    BY <2>1, <2>2 DEF DF!DeleteArchive
<1>5. DF!MemoShape' /\ DF!UploadAt' /\ DF!PruneAt'
  BY <1>0, <1>3 DEF DF!MemoShape, DF!UploadAt, DF!PruneAt, DF!IdlePrune, DF!Found
<1>6. ASSUME ~s7' PROVE DF!InTurn'
  <2> USE <1>6
  <2>1. DF!InTurn /\ s4.pc = "idle"
    BY <1>0
  <2>2. DF!MemoIsPath'
    BY <1>0, <1>2, <1>3, <2>1 DEF DF!InTurn, DF!MemoIsPath, DF!MemoShape
  <2>3. DF!UploadFollows' /\ DF!NothingThere' /\ DF!PruneFollows'
    BY <1>0, <2>1 DEF DF!UploadFollows, DF!NothingThere, DF!PruneFollows, DF!IdlePrune, DF!Found
  <2>4. DF!NoBackupTrashed'
    BY <1>2, <1>3, <2>1 DEF DF!InTurn, DF!NoBackupTrashed
  <2>5. DF!OneOfEach'
    BY <1>0, <1>2, <1>3, <1>4, <2>1 DEF DF!InTurn, DF!OneOfEach, DF!Tree, DF!Ids
  <2> QED
    BY <2>2, <2>3, <2>4, <2>5 DEF DF!InTurn
<1> QED
  BY <1>3, <1>4, <1>5, <1>6

(* The prune goes on to the day's folder, or is over.                      *)
LEMMA PruneNext ==
    ASSUME DF!PruneAt, s5' = DF!NextTarget(s5)
    PROVE  /\ DF!PruneAt' /\ DF!PruneFollows'
           /\ s5'.pc \in {"idle", "finding"}
BY TwoLevels DEF DF!PruneAt, DF!NextTarget, DF!IdlePrune, DF!PruneFollows, DF!Found

(* The prune's lookup goes one level deeper, or has arrived.               *)
LEMMA DeeperPrune ==
    ASSUME DriveFolderLimit \in Nat, DF!PruneAt, s5.pc = "finding", NEW id,
           s5.level = 1 => id \in DF!Named("day")',
           s5.level = 2 => id \in DF!Named("camera")',
           s2' \in 0..DriveFolderLimit, DF!Find(id)
    PROVE  /\ DF!PruneAt'
           /\ s5'.parent = id /\ s5'.target = s5.target
           /\ \/ s5'.pc = "finding" /\ s5.level = 1 /\ s5'.level = 2
              \/ s5'.pc = "checking" /\ s5.level = s5.target
<1>1. s5.level \in {1, 2} /\ s5.target \in {1, 2} /\ id \in DF!Ids /\ (s5.level = 2 => s5.target = 2)
  BY TwoLevels DEF DF!PruneAt, DF!Named, DF!Ids
<1>2. CASE s5.level < s5.target
  <2>1. s5' = [s5 EXCEPT !.level = 2, !.parent = id] /\ s5.level = 1 /\ s5.target = 2
    BY <1>1, <1>2 DEF DF!Find
  <2> QED
    BY <1>1, <2>1, TwoLevels DEF DF!PruneAt, DF!Found
<1>3. CASE ~(s5.level < s5.target)
  <2>1. s5' = [s5 EXCEPT !.pc = "checking", !.parent = id] /\ s5.level = s5.target
    BY <1>1, <1>3 DEF DF!Find
  <2> QED
    BY <1>1, <2>1, TwoLevels DEF DF!PruneAt, DF!Found
<1> QED
  BY <1>2, <1>3

(* The prune looks at Drive while no upload does.                          *)
LEMMA PruneLooks ==
    ASSUME DF!IInv, DF!Bounds', s1' = s1, s2' = s2, s4' = s4, s7' = s7,
           s6'.error = FolderErrors => s6.error = FolderErrors,
           DF!MemoShape', DF!PruneAt', s5.pc # "idle",
           DF!InTurn => DF!MemoIsPath' /\ DF!PruneFollows'
    PROVE  DF!IInv'
<1>1. DF!Tree' /\ DF!UploadAt'
  BY DriveStays DEF DF!IInv, DF!UploadAt
<1>2. ASSUME DF!InTurn PROVE DF!InTurn'
  <2>1. s4.pc = "idle" /\ DF!NoBackupTrashed' /\ DF!OneOfEach'
    BY <1>2, DriveStays DEF DF!IInv, DF!InTurn, DF!MemoIsPath, DF!OneOfEach
  <2>2. DF!UploadFollows' /\ DF!NothingThere'
    BY <2>1 DEF DF!UploadFollows, DF!NothingThere
  <2> QED
    BY <1>2, <2>1, <2>2 DEF DF!InTurn
<1> QED
  BY <1>1, <1>2 DEF DF!IInv

LEMMA FoldersFind ==
    ASSUME DriveFolderLimit \in Nat, FolderErrors \in Nat, DF!IInv, DF!FindFolder
    PROVE  DF!IInv'
<1> DEFINE l == s5.level
<1> USE TwoLevels DEF DF!IInv
<1>0. /\ s5.pc = "finding" /\ l \in DF!Levels
      /\ s1' = s1 /\ s2' = s2 /\ s4' = s4 /\ s7' = s7 /\ s2' \in 0..DriveFolderLimit
  BY DEF DF!FindFolder, DF!PruneAt, DF!Tree
<1>1. ASSUME s3[l] # DF!None, DF!Find(s3[l]), s3' = s3, s6' = s6
      PROVE  DF!IInv'
  <2>1. (l = 1 => s3[l] \in DF!Named("day")') /\ (l = 2 => s3[l] \in DF!Named("camera")')
    BY <1>0, <1>1, DriveStays DEF DF!MemoShape
  <2>2. /\ DF!PruneAt' /\ s5'.parent = s3[l] /\ s5'.target = s5.target
        /\ \/ s5'.pc = "finding" /\ l = 1 /\ s5'.level = 2
           \/ s5'.pc = "checking" /\ l = s5.target
    BY <1>0, <1>1, <2>1, DeeperPrune
  <2>3. DF!InTurn => DF!MemoIsPath' /\ DF!PruneFollows'
    BY <1>0, <1>1, <2>2, DriveStays DEF DF!InTurn, DF!MemoIsPath, DF!PruneFollows, DF!Found
  <2>4. DF!MemoShape' /\ DF!Bounds'
    BY <1>0, <1>1, DriveStays DEF DF!MemoShape, DF!Bounds
  <2> QED
    BY <1>0, <1>1, <2>2, <2>3, <2>4, PruneLooks
<1>2. ASSUME NEW i \in DF!Listed(s5.parent, DF!Path[l]), s3[l] = DF!None, DF!Find(i),
             s3' = [s3 EXCEPT ![l] = i], s6' = s6
      PROVE  DF!IInv'
  <2>1. i \in DF!Named(DF!Path[l])
    BY DEF DF!Listed, DF!Named
  <2>2. (l = 1 => i \in DF!Named("day")') /\ (l = 2 => i \in DF!Named("camera")')
    BY <1>0, <2>1, DriveStays
  <2>3. /\ DF!PruneAt' /\ s5'.parent = i /\ s5'.target = s5.target
        /\ \/ s5'.pc = "finding" /\ l = 1 /\ s5'.level = 2
           \/ s5'.pc = "checking" /\ l = s5.target
    BY <1>0, <1>2, <2>2, DeeperPrune
  <2>4. DF!MemoShape' /\ s3'[l] = i
    BY <1>0, <1>2, <2>1, DriveStays DEF DF!MemoShape, DF!Named, DF!Tree, DF!Ids
  <2>5. ASSUME DF!InTurn PROVE DF!MemoIsPath' /\ DF!PruneFollows'
    <3>1. /\ s4.pc = "idle" /\ DF!MemoIsPath
          /\ l = 2 => s5.parent \in DF!Named("day") /\ s3[1] = s5.parent /\ ~DF!InTrash(s5.parent)
      BY <1>0, <2>5 DEF DF!InTurn, DF!MemoIsPath, DF!PruneFollows, DF!PruneAt
    <3>2. s1[i].parent = s5.parent /\ ~DF!InTrash(i)
      BY <1>0, <3>1, ListedIsUp
    <3>3. l = 2 => s3[1] # DF!None /\ s1[i].parent = s3[1]
      BY <1>0, <3>1, <3>2 DEF DF!Named, DF!None
    <3>4. DF!MemoIsPath'
      BY <1>0, <1>2, <2>1, <2>3, <3>1, <3>2, <3>3, MemoGrows
    <3>5. DF!PruneFollows'
      BY <1>0, <2>3, <2>4, <2>5 DEF DF!InTurn, DF!PruneFollows, DF!Found
    <3> QED
      BY <3>4, <3>5
  <2>6. DF!Bounds'
    BY <1>2 DEF DF!Bounds
  <2> QED
    BY <1>0, <1>2, <2>3, <2>4, <2>5, <2>6, PruneLooks
<1>3. ASSUME s5' = DF!NextTarget(s5), s3' = s3, s6' = s6 \/ DF!Spend("error")
      PROVE  DF!IInv'
  <2>1. DF!Bounds' /\ (s6'.error = FolderErrors => s6.error = FolderErrors)
    BY <1>3, ErrorCounts DEF DF!Bounds
  <2>2. DF!PruneAt' /\ DF!PruneFollows'
    BY <1>3, PruneNext
  <2>3. DF!MemoShape'
    BY <1>0, <1>3, DriveStays DEF DF!MemoShape
  <2>4. DF!InTurn => DF!MemoIsPath'
    BY <1>0, <1>3, DriveStays DEF DF!InTurn, DF!MemoIsPath
  <2> QED
    BY <1>0, <2>1, <2>2, <2>3, <2>4, PruneLooks
<1> QED
  BY <1>1, <1>2, <1>3 DEF DF!FindFolder

LEMMA FoldersCheck ==
    ASSUME DriveFolderLimit \in Nat, FolderErrors \in Nat, DF!IInv, DF!CheckEmpty
    PROVE  DF!IInv'
<1> USE TwoLevels DEF DF!IInv
<1>0. /\ s5.pc = "checking" /\ s1' = s1 /\ s2' = s2 /\ s3' = s3 /\ s4' = s4 /\ s7' = s7
  BY DEF DF!CheckEmpty
<1>1. DF!Bounds' /\ (s6'.error = FolderErrors => s6.error = FolderErrors)
  <2>1. CASE s6' = s6
    BY <2>1 DEF DF!Bounds
  <2>2. CASE DF!Spend("error")
    BY <2>2, ErrorCounts
  <2> QED
    BY <2>1, <2>2 DEF DF!CheckEmpty
<1>2. DF!MemoShape' /\ (DF!InTurn => DF!MemoIsPath')
  <2>1. s5'.pc # "forgetting"
    BY <1>0 DEF DF!CheckEmpty, DF!NextTarget, DF!IdlePrune, DF!PruneAt
  <2>2. DF!InTurn => s4.pc = "idle"
    BY <1>0 DEF DF!InTurn, DF!MemoIsPath
  <2> QED
    BY <1>0, <2>1, <2>2, DriveStays DEF DF!InTurn, DF!MemoIsPath, DF!MemoShape
<1>3. CASE DF!Empty(s5.parent) /\ s5' = [s5 EXCEPT !.pc = "trashing"]
  <2>1. /\ DF!PruneAt'
        /\ s5'.pc = "trashing" /\ s5'.parent = s5.parent /\ s5'.target = s5.target
    BY <1>0, <1>3, DriveStays DEF DF!PruneAt, DF!Found
  <2>2. DF!InTurn => DF!PruneFollows'
    BY <1>0, <1>3, <2>1, DriveStays DEF DF!InTurn, DF!PruneFollows, DF!Found
  <2> QED
    BY <1>0, <1>1, <1>2, <2>1, <2>2, PruneLooks
<1>4. CASE s5' = DF!NextTarget(s5)
  BY <1>0, <1>1, <1>2, <1>4, PruneNext, PruneLooks
<1> QED
  BY <1>3, <1>4 DEF DF!CheckEmpty, DF!MayGo

(* A folder goes to the trash, and what is in it with it.                  *)
LEMMA FolderTrashed ==
    ASSUME DriveFolderLimit \in Nat, DF!Tree, NEW p \in 1..s2, s1' = [s1 EXCEPT ![p].trashed = TRUE], s2' = s2
    PROVE  /\ DF!Tree'
           /\ \A name : DF!Named(name)' = DF!Named(name)
           /\ \A i \in DF!Ids : DF!InTrash(i)' <=> DF!InTrash(i) \/ i = p \/ s1[i].parent = p
           /\ \A i \in DF!Ids : /\ s1'[i].name = s1[i].name /\ s1'[i].parent = s1[i].parent
                                /\ s1'[i].files = s1[i].files
<1> DEFINE gone == [s1[p] EXCEPT !.trashed = TRUE]
<1>0. p \in DF!Ids /\ 1..s2 \subseteq DF!Ids
  BY DEF DF!Tree, DF!Ids
<1>1. gone \in [name : {"none", "day", "camera"},
                parent : DF!Ids \cup {DF!Root, DF!None}, trashed : BOOLEAN, files : Nat]
  BY <1>0 DEF DF!Tree
<1>2. gone.name = s1[p].name /\ gone.parent = s1[p].parent /\ gone.files = s1[p].files /\ gone.trashed
  BY <1>0 DEF DF!Tree
<1>3. /\ s1' \in [DF!Ids -> [name : {"none", "day", "camera"},
                parent : DF!Ids \cup {DF!Root, DF!None}, trashed : BOOLEAN, files : Nat]]
      /\ s1'[p] = gone /\ \A i \in DF!Ids \ {p} : s1'[i] = s1[i]
  <2>1. s1' = [s1 EXCEPT ![p] = gone]
    OBVIOUS
  <2> DEFINE Records == [name : {"none", "day", "camera"},
                         parent : DF!Ids \cup {DF!Root, DF!None}, trashed : BOOLEAN, files : Nat]
  <2>2. s1 \in [DF!Ids -> Records]
    BY DEF DF!Tree
  <2>3. gone \in Records
    BY <1>1
  <2> HIDE DEF gone, Records
  <2>4. s1' \in [DF!Ids -> Records] /\ s1'[p] = gone /\ \A i \in DF!Ids \ {p} : s1'[i] = s1[i]
    BY <1>0, <2>1, <2>2, <2>3
  <2> QED
    BY <2>4 DEF Records
<1> HIDE DEF gone
<1>4. \A i \in DF!Ids : /\ s1'[i].name = s1[i].name /\ s1'[i].parent = s1[i].parent
                        /\ s1'[i].files = s1[i].files
                        /\ s1'[i].trashed <=> (s1[i].trashed \/ i = p)
  BY <1>2, <1>3
<1>5. \A name : DF!Named(name)' = DF!Named(name)
  BY <1>0, <1>4 DEF DF!Named
<1>6. DF!Tree'
  BY <1>0, <1>3, <1>4, <1>5 DEF DF!Tree
<1>7. \A i \in DF!Ids : DF!InTrash(i)' <=> DF!InTrash(i) \/ i = p \/ s1[i].parent = p
  BY <1>0, <1>4 DEF DF!InTrash
<1> QED
  BY <1>4, <1>5, <1>6, <1>7

LEMMA FoldersTrash ==
    ASSUME DriveFolderLimit \in Nat, FolderErrors \in Nat, DF!IInv, DF!Trash
    PROVE  DF!IInv'
<1> DEFINE p == s5.parent
<1> USE TwoLevels DEF DF!IInv
<1>0. /\ s5.pc = "trashing" /\ s5.target \in DF!Levels /\ p \in DF!Named(DF!Path[s5.target]) /\ p \in 1..s2
      /\ p \in DF!Ids /\ s2' = s2 /\ s3' = s3 /\ s4' = s4
  BY DEF DF!Trash, DF!PruneAt, DF!Named, DF!Found, DF!Tree, DF!Ids
<1>1. ASSUME s1' = [s1 EXCEPT ![p].trashed = TRUE], s5' = [s5 EXCEPT !.pc = "forgetting"],
             s6' = s6, s7' = s7
      PROVE  DF!IInv'
  <2>1. /\ DF!Tree'
        /\ \A name : DF!Named(name)' = DF!Named(name)
        /\ \A i \in DF!Ids : DF!InTrash(i)' <=> DF!InTrash(i) \/ i = p \/ s1[i].parent = p
        /\ \A i \in DF!Ids : /\ s1'[i].name = s1[i].name /\ s1'[i].parent = s1[i].parent
                             /\ s1'[i].files = s1[i].files
    BY <1>0, <1>1, FolderTrashed
  <2>2. /\ DF!PruneAt'
        /\ s5'.pc = "forgetting" /\ s5'.parent = p /\ s5'.target = s5.target
    BY <1>0, <1>1, <2>1 DEF DF!PruneAt, DF!Found
  <2>3. DF!MemoShape' /\ DF!UploadAt' /\ DF!Bounds'
    BY <1>0, <1>1, <2>1 DEF DF!MemoShape, DF!UploadAt, DF!Bounds
  <2>4. ASSUME ~s7' PROVE DF!InTurn'
    <3> USE <2>4
    <3>1. DF!InTurn /\ s4.pc = "idle" /\ DF!Empty(p) /\ s3[s5.target] = p
      BY <1>0, <1>1 DEF DF!InTurn, DF!MemoIsPath, DF!PruneFollows, DF!Found
    <3>2. /\ \A l \in DF!Levels : s3[l] # DF!None => s3[l] \in DF!Ids /\ ~DF!InTrash(s3[l])
          /\ s3[2] # DF!None => s3[1] # DF!None /\ s1[s3[2]].parent = s3[1]
      BY <1>0, <3>1 DEF DF!InTurn, DF!MemoIsPath, DF!MemoShape
    <3>3. s5.target = 1 => s3[2] = DF!None
      <4> SUFFICES ASSUME s5.target = 1, s3[2] # DF!None PROVE FALSE
        OBVIOUS
      <4>1. s3[2] \in 1..s2 /\ s1[s3[2]].parent = p /\ ~DF!InTrash(s3[2])
        BY <3>1, <3>2 DEF DF!MemoShape, DF!Named
      <4> QED
        BY <3>1, <4>1 DEF DF!Empty, DF!InTrash
    <3>4. s5.target = 2 /\ s3[1] # DF!None => s3[1] # p /\ s1[s3[1]].parent # p
      BY <1>0 DEF DF!MemoShape, DF!Named, DF!Tree, DF!Root, DF!Ids
    <3>5. DF!MemoIsPath'
      BY <1>0, <2>1, <2>2, <3>1, <3>2, <3>3, <3>4 DEF DF!MemoIsPath
    <3>6. DF!UploadFollows' /\ DF!NothingThere' /\ DF!PruneFollows'
      BY <1>0, <2>2, <3>1, <3>3 DEF DF!UploadFollows, DF!NothingThere, DF!PruneFollows, DF!Found
    <3>7. DF!NoBackupTrashed'
      <4> SUFFICES ASSUME NEW i \in DF!Ids, s1[i].files > 0, i = p \/ s1[i].parent = p
                   PROVE  FALSE
        BY <2>1, <3>1 DEF DF!InTurn, DF!NoBackupTrashed
      <4>1. i # p
        BY <3>1 DEF DF!Empty
      <4>2. i \in 1..s2
        BY <1>0, <4>1 DEF DF!Tree, DF!NoFolder, DF!None, DF!Ids
      <4>3. DF!InTrash(i)
        BY <3>1, <4>1, <4>2 DEF DF!Empty, DF!InTrash
      <4> QED
        BY <3>1, <4>3 DEF DF!InTurn, DF!NoBackupTrashed
    <3>8. DF!OneOfEach'
      BY <1>0, <1>1, <2>1, <3>1 DEF DF!InTurn, DF!OneOfEach, DF!Tree, DF!Ids
    <3> QED
      BY <3>5, <3>6, <3>7, <3>8 DEF DF!InTurn
  <2> QED
    BY <2>1, <2>2, <2>3, <2>4
<1>2. ASSUME DF!Spend("error"), s5' = DF!NextTarget(s5), s1' = s1, s7' = s7
      PROVE  DF!IInv'
  <2>1. DF!Bounds' /\ (s6'.error = FolderErrors => s6.error = FolderErrors)
    BY <1>2, ErrorCounts
  <2>2. DF!PruneAt' /\ DF!PruneFollows'
    BY <1>2, PruneNext
  <2>3. DF!MemoShape' /\ (DF!InTurn => DF!MemoIsPath')
    BY <1>0, <1>2, DriveStays DEF DF!MemoShape, DF!InTurn, DF!MemoIsPath
  <2> QED
    BY <1>0, <1>2, <2>1, <2>2, <2>3, PruneLooks
<1>3. ASSUME DF!Spend("error"), s5' = DF!NextTarget(s5),
             s1' = [s1 EXCEPT ![p].trashed = TRUE], s7' = TRUE
      PROVE  DF!IInv'
  <2>1. DF!Tree' /\ \A name : DF!Named(name)' = DF!Named(name)
    BY <1>0, <1>3, FolderTrashed
  <2>2. DF!MemoShape' /\ DF!UploadAt'
    BY <1>0, <2>1 DEF DF!MemoShape, DF!UploadAt
  <2> QED
    BY <1>3, <2>1, <2>2, PruneNext, ErrorCounts
<1> QED
  BY <1>1, <1>2, <1>3 DEF DF!Trash

LEMMA FoldersForget ==
    ASSUME DriveFolderLimit \in Nat, DF!IInv, DF!ForgetFolder
    PROVE  DF!IInv'
<1> USE TwoLevels DEF DF!IInv
<1>0. /\ s5.pc = "forgetting" /\ s5' = DF!NextTarget(s5) /\ s3' = DF!Forget(s5.parent)
      /\ s1' = s1 /\ s2' = s2 /\ s4' = s4 /\ s6' = s6 /\ s7' = s7
  BY DEF DF!ForgetFolder
<1>1. \A l \in DF!Levels : \/ s3'[l] = DF!None /\ (s3[l] = DF!None \/ s3[l] = s5.parent)
                           \/ s3'[l] = s3[l] /\ s3[l] # s5.parent
  BY <1>0 DEF DF!Forget
<1>2. DF!MemoShape'
  BY <1>0, <1>1, DriveStays DEF DF!MemoShape, DF!Forget
<1>3. DF!PruneAt' /\ DF!PruneFollows'
  BY <1>0, PruneNext
<1>4. ASSUME DF!InTurn PROVE DF!MemoIsPath'
  <2>1. /\ s4.pc = "idle" /\ s5.target \in DF!Levels /\ s3[s5.target] = s5.parent
        /\ s5.target = 1 => s3[2] = DF!None
    BY <1>0, <1>4 DEF DF!InTurn, DF!MemoIsPath, DF!PruneFollows, DF!Found, DF!PruneAt
  <2>2. s3'[2] # DF!None => s3'[1] # DF!None /\ s1[s3'[2]].parent = s3'[1]
    BY <1>1, <1>4, <2>1 DEF DF!InTurn, DF!MemoIsPath
  <2>3. \A l \in DF!Levels : \A m : m = s3'[l] /\ m # DF!None => ~DF!InTrash(m)
    BY <1>1, <1>4 DEF DF!InTurn, DF!MemoIsPath
  <2> QED
    BY <1>0, <2>1, <2>2, <2>3, DriveStays DEF DF!MemoIsPath
<1>5. DF!Bounds'
  BY <1>0 DEF DF!Bounds
<1> QED
  BY <1>0, <1>2, <1>3, <1>4, <1>5, PruneLooks

LEMMA FoldersRestart ==
    ASSUME DriveFolderLimit \in Nat, FolderErrors \in Nat, DF!IInv, DF!Restart
    PROVE  DF!IInv'
<1> USE TwoLevels, DriveStays DEF DF!IInv
<1>0. /\ s4' = DF!IdleUp /\ s5' = DF!IdlePrune /\ s3' = [l \in DF!Levels |-> DF!None]
      /\ s1' = s1 /\ s2' = s2 /\ s7' = s7
  BY DEF DF!Restart
<1>1. DF!Bounds' /\ s6'.error = s6.error
  BY DEF DF!Restart, DF!Spend, DF!Bounds
<1>2. DF!MemoShape' /\ DF!UploadAt' /\ DF!PruneAt'
  BY <1>0 DEF DF!MemoShape, DF!UploadAt, DF!PruneAt, DF!IdleUp, DF!IdlePrune, DF!Found
<1>3. DF!InTurn => DF!InTurn'
  BY <1>0, <1>1 DEF DF!InTurn, DF!MemoIsPath, DF!UploadFollows, DF!PruneFollows, DF!NothingThere,
     DF!OneOfEach, DF!IdleUp, DF!IdlePrune, DF!Found
<1> QED
  BY <1>0, <1>1, <1>2, <1>3

LEMMA FoldersStep ==
    ASSUME DriveFolderLimit \in Nat, FolderErrors \in Nat, DF!IInv, [DF!Next]_(DF!fvars)
    PROVE  DF!IInv'
<1>1. CASE UNCHANGED DF!fvars
  <2>1. /\ s1' = s1 /\ s2' = s2 /\ s3' = s3 /\ s4' = s4 /\ s5' = s5 /\ s6' = s6 /\ s7' = s7
    BY <1>1 DEF DF!fvars
  <2>2. DF!MemoShape' /\ DF!UploadAt' /\ DF!PruneAt' /\ DF!Bounds'
    BY <2>1, DriveStays DEF DF!IInv, DF!MemoShape, DF!UploadAt, DF!PruneAt, DF!Bounds
  <2>3. DF!InTurn => DF!InTurn'
    BY <2>1, DriveStays DEF DF!IInv, DF!InTurn, DF!MemoIsPath, DF!UploadFollows, DF!PruneFollows,
       DF!NothingThere, DF!OneOfEach
  <2> QED
    BY <2>1, <2>2, <2>3, DriveStays DEF DF!IInv
<1> QED
  BY <1>1, FoldersUpload, FoldersFromCache, FoldersList, FoldersCreate, FoldersPut, FoldersDelete,
     FoldersFind, FoldersCheck, FoldersTrash, FoldersForget, FoldersRestart DEF DF!Next, DF!Idle

LEMMA FoldersSafe ==
    ASSUME DriveFolderLimit \in Nat, DF!IInv
    PROVE  DF!CacheOutOfTrash /\ DF!FilesSurvive /\ DF!NoDuplicateFolders
BY DEF DF!IInv, DF!InTurn, DF!MemoIsPath, DF!OneOfEach, DF!CacheOutOfTrash, DF!FilesSurvive,
       DF!NoDuplicateFolders, DF!Quiet

-----------------------------------------------------------------------------
(* DriveInOrder: the Drive connection never hangs half-way between         *)
(* connected and not, its file holds the token the client holds, and while *)
(* uploads and tidying take turns the folder memo leads to folders that    *)
(* are there, no backup is trashed and no folder is made twice.            *)
THEOREM DriveStaysInOrder ==
    ASSUME DriveFolderLimit \in Nat, FolderUploads \in Nat, FolderPrunes \in Nat, FolderErrors \in Nat
    PROVE  Spec => []DriveInOrder
<1> DEFINE Good == /\ which = "drive link" => DL!IInv
                   /\ which = "drive folders" => DF!IInv
<1>1. Init => Good
  BY LinkInit, FoldersInit DEF Init
<1>2. Good /\ [Next]_bank => Good'
  <2> SUFFICES ASSUME Good, [Next]_bank PROVE Good'
    OBVIOUS
  <2>1. CASE which = "drive link"
    <3>1. which' = "drive link" /\ (DL!Next \/ UNCHANGED DL!dvars)
      BY <2>1 DEF Next, bank, DL!dvars
    <3>2. CASE DL!Next
      BY <2>1, <3>1, <3>2, LinkStep
    <3>3. CASE UNCHANGED DL!dvars
      BY <2>1, <3>1, <3>3, LinkStill
    <3> QED
      BY <3>1, <3>2, <3>3
  <2>2. CASE which = "drive folders"
    <3>1. which' = "drive folders" /\ [DF!Next]_(DF!fvars)
      BY <2>2 DEF Next, bank, DF!fvars
    <3> QED
      BY <2>2, <3>1, FoldersStep
  <2>3. CASE which \notin {"drive link", "drive folders"}
    BY <2>3 DEF Next, bank
  <2> QED
    BY <2>1, <2>2, <2>3
<1>3. Good => DriveInOrder
  BY FoldersSafe DEF DriveInOrder, DL!IInv
<1> QED
  BY <1>1, <1>2, <1>3, PTL DEF Spec

-----------------------------------------------------------------------------
(* Live view, whose own proofs are cited.                                  *)
LiveProofs == INSTANCE LiveView_proofs WITH
    Cameras <- ViewCameras, MaxSessions <- ViewSessions,
    session <- s1, sess <- s2, lockop <- s3, sweeper <- s4, phase <- s5, created <- s6, shown <- s7, cut <- s8

LEMMA CardLive == ASSUME NEW S PROVE LV!Cardinality(S) = LiveProofs!Cardinality(S)
BY DEF LV!Cardinality, LiveProofs!Cardinality, LV!IsFiniteSet, LiveProofs!IsFiniteSet

LEMMA SameLive ==
    /\ LV!Init => LiveProofs!Init
    /\ LV!Next => LiveProofs!Next
<1>1. LV!Init => LiveProofs!Init
  BY DEF LV!NoSession, LiveProofs!NoSession, LV!Ids, LiveProofs!Ids, LV!Unborn,
     LiveProofs!Unborn, LV!FreeLock, LiveProofs!FreeLock, LV!Init,
     LiveProofs!Init
<1>2. LV!Next => LiveProofs!Next
  BY DEF LV!NoSession, LiveProofs!NoSession, LV!Ids, LiveProofs!Ids, LV!lvars,
     LiveProofs!lvars, LV!FreeLock, LiveProofs!FreeLock, LV!At,
     LiveProofs!At, LV!InHand, LiveProofs!InHand, LV!GoTo, LiveProofs!GoTo,
     LV!Quiet, LiveProofs!Quiet, LV!FeedDone, LiveProofs!FeedDone,
     LV!EndFfmpeg, LiveProofs!EndFfmpeg, LV!Retired, LiveProofs!Retired,
     LV!Teardown, LiveProofs!Teardown, LV!Rest, LiveProofs!Rest, LV!Reap,
     LiveProofs!Reap, LV!StopStream, LiveProofs!StopStream, LV!GraceEnds,
     LiveProofs!GraceEnds, LV!CancelFeed, LiveProofs!CancelFeed,
     LV!CancelWatcher, LiveProofs!CancelWatcher, LV!RemoveDir,
     LiveProofs!RemoveDir, LV!ServerUp, LiveProofs!ServerUp, LV!Healthy,
     LiveProofs!Healthy, LV!Start, LiveProofs!Start, LV!StartFails,
     LiveProofs!StartFails, LV!LookUp, LiveProofs!LookUp, LV!Opened,
     LiveProofs!Opened, LV!Listening, LiveProofs!Listening, LV!Registered,
     LiveProofs!Registered, LV!Spawned, LiveProofs!Spawned,
     LV!StreamQuietlyStopped, LiveProofs!StreamQuietlyStopped,
     LV!SpawnFails, LiveProofs!SpawnFails, LV!UndoDir, LiveProofs!UndoDir,
     LV!Stop, LiveProofs!Stop, LV!Heartbeat, LiveProofs!Heartbeat,
     LV!Rename, LiveProofs!Rename, LV!Playable, LiveProofs!Playable,
     LV!FfmpegExits, LiveProofs!FfmpegExits, LV!FeedEnds,
     LiveProofs!FeedEnds, LV!FeedCallback, LiveProofs!FeedCallback,
     LV!WatcherWakes, LiveProofs!WatcherWakes, LV!WatcherFinalizes,
     LiveProofs!WatcherFinalizes, LV!WatcherEnds, LiveProofs!WatcherEnds,
     LV!Starting, LiveProofs!Starting, LV!ErrorWasSeen,
     LiveProofs!ErrorWasSeen, LV!OverTime, LiveProofs!OverTime, LV!Expired,
     LiveProofs!Expired, LV!SweepNotes, LiveProofs!SweepNotes,
     LV!SweepTearsDown, LiveProofs!SweepTearsDown, LV!Capped,
     LiveProofs!Capped, LV!Tick, LiveProofs!Tick, LV!CancelTasks,
     LiveProofs!CancelTasks, LV!StopServer, LiveProofs!StopServer, LV!Close,
     LiveProofs!Close, LV!Closed, LiveProofs!Closed, LV!LockStep,
     LiveProofs!LockStep, LV!SessionStep, LiveProofs!SessionStep,
     LV!SweepStep, LiveProofs!SweepStep, LV!Next, LiveProofs!Next
<1> QED
  BY <1>1, <1>2

LEMMA SameLiveProperties ==
    /\ LiveProofs!LiveViewTypeOK => LV!LiveViewTypeOK
    /\ LiveProofs!NothingStranded => LV!NothingStranded
    /\ LiveProofs!OneCameraAtATime => LV!OneCameraAtATime
    /\ LiveProofs!NoFalseCrash => LV!NoFalseCrash
    /\ LiveProofs!ErrorIsShown => LV!ErrorIsShown
BY CardLive DEF LV!NoSession, LiveProofs!NoSession, LV!Ids, LiveProofs!Ids, LV!At,
     LiveProofs!At, LV!Quiet, LiveProofs!Quiet, LV!EndFfmpeg,
     LiveProofs!EndFfmpeg, LV!Retired, LiveProofs!Retired, LV!Teardown,
     LiveProofs!Teardown, LV!Starting, LiveProofs!Starting, LV!ErrorWasSeen,
     LiveProofs!ErrorWasSeen, LV!OverTime, LiveProofs!OverTime, LV!Expired,
     LiveProofs!Expired, LV!SweepTearsDown, LiveProofs!SweepTearsDown,
     LV!LiveViewTypeOK, LiveProofs!LiveViewTypeOK, LV!Holds,
     LiveProofs!Holds, LV!NothingStranded, LiveProofs!NothingStranded,
     LV!OneCameraAtATime, LiveProofs!OneCameraAtATime, LV!NoFalseCrash,
     LiveProofs!NoFalseCrash, LV!ErrorIsShown, LiveProofs!ErrorIsShown

(* LiveViewInOrder: whatever way a live view starts, fails or ends, no     *)
(* process, relay or directory runs on behind it and Blink relays one      *)
(* camera at a time; a stop is not reported as a crash, and an error is    *)
(* up for a sweep interval before it is cleared.                           *)
THEOREM LiveViewStaysInOrder == ASSUME ViewSessions \in Nat PROVE Spec => LiveViewInOrder
<1>1. Init => (which = "live view" => LiveProofs!Init)
  BY SameLive DEF Init
<1>2. [Next]_bank => /\ which = "live view" => [LiveProofs!Next]_(LiveProofs!lvars)
                     /\ which = "live view" <=> (which = "live view")'
  BY SameLive DEF Next, bank, LiveProofs!lvars
<1>3. /\ LiveProofs!Spec => []LiveProofs!LiveViewTypeOK
      /\ LiveProofs!Spec => []LiveProofs!NothingStranded
      /\ LiveProofs!Spec => []LiveProofs!OneCameraAtATime
      /\ LiveProofs!Spec => [][LiveProofs!NoFalseCrash]_(LiveProofs!lvars)
      /\ LiveProofs!Spec => [][LiveProofs!ErrorIsShown]_(LiveProofs!lvars)
  BY LiveProofs!TypeCorrect, LiveProofs!NothingLeftBehind, LiveProofs!OneCamera, LiveProofs!NoCrashInvented,
     LiveProofs!ErrorUpFirst
<1>4. Spec => [](which = "live view" => LV!LiveViewTypeOK /\ LV!NothingStranded /\ LV!OneCameraAtATime)
  BY <1>1, <1>2, <1>3, SameLiveProperties, PTL DEF Spec, LiveProofs!Spec
<1>5. [LiveProofs!NoFalseCrash]_(LiveProofs!lvars) /\ [LiveProofs!ErrorIsShown]_(LiveProofs!lvars)
      /\ [Next]_bank /\ which = "live view" => [LV!NoFalseCrash /\ LV!ErrorIsShown]_bank
  <2>1. LiveProofs!lvars' = LiveProofs!lvars => LV!NoFalseCrash
    BY DEF LiveProofs!lvars, LV!NoFalseCrash
  <2>2. LiveProofs!lvars' = LiveProofs!lvars => LV!ErrorIsShown
    BY DEF LiveProofs!lvars, LV!NoSession, LiveProofs!NoSession, LV!At, LiveProofs!At, LV!Quiet,
     LiveProofs!Quiet, LV!EndFfmpeg, LiveProofs!EndFfmpeg, LV!Retired,
     LiveProofs!Retired, LV!Teardown, LiveProofs!Teardown, LV!Starting,
     LiveProofs!Starting, LV!ErrorWasSeen, LiveProofs!ErrorWasSeen,
     LV!OverTime, LiveProofs!OverTime, LV!Expired, LiveProofs!Expired,
     LV!SweepTearsDown, LiveProofs!SweepTearsDown, LV!ErrorIsShown,
     LiveProofs!ErrorIsShown
  <2> QED
    BY <2>1, <2>2, SameLiveProperties
<1>6. Spec => [][which = "live view" => LV!NoFalseCrash /\ LV!ErrorIsShown]_bank
  BY <1>1, <1>2, <1>3, <1>5, PTL DEF Spec, LiveProofs!Spec
<1> QED
  BY <1>4, <1>6, PTL DEF LiveViewInOrder

-----------------------------------------------------------------------------
(* The vision models (VisionRuntime): s1 is where a job is, s2 the model   *)
(* of its stage, s3 the slots, s4 the models in memory, s5 the locks, s6   *)
(* the threads.  A thread somebody waits for is the one its job's step     *)
(* says: it loads while the job is loading, works while the job is         *)
(* inferring, and on the model of the job's stage.  So a job never has     *)
(* two, and whoever loads a model holds that model's lock.                 *)

(* Jobs that are what they stand for: the constants' only condition.       *)
JobsApart ==
    /\ VR!Nobody \notin VR!Jobs
    /\ Tab \notin RuntimeClips /\ Loader \notin RuntimeClips /\ Tab # Loader

RuntimeSteps == {"idle", "want", "lock", "loading", "infer", "inferring", "extract", "done"}

RuntimeThreads == [job : VR!Jobs, model : VR!Models, work : {"load", "infer"}, left : BOOLEAN]

RuntimeShapes ==
    /\ s1 \in [VR!Jobs -> RuntimeSteps]
    /\ s2 \in [VR!Jobs -> VR!Models]
    /\ s3 \in SUBSET VR!Jobs
    /\ s4 \in SUBSET VR!Models
    /\ s5 \in [VR!Models -> VR!Jobs \cup {VR!Nobody}]
    /\ s6 \in SUBSET RuntimeThreads

(* The model a job uses.                                                   *)
StageKept ==
    /\ \A j \in RuntimeClips : s2[j] \in {"detection", "audio"}
    /\ s2[Tab] = "face" /\ s2[Loader] = "audio"

(* A thread that is waited for does what its job is at.                    *)
WaitedFor ==
    \A t \in s6 :
        IF t.left THEN t.work = "infer"
        ELSE /\ t.model = s2[t.job]
             /\ s1[t.job] = IF t.work = "load" THEN "loading" ELSE "inferring"

(* A lock is held by the job that loads its model, which is not in memory. *)
LockHeld ==
    /\ \A m \in VR!Models : s5[m] # VR!Nobody =>
         s1[s5[m]] = "loading" /\ s2[s5[m]] = m
    /\ \A t \in s6 : t.work = "load" =>
         s5[t.model] = t.job /\ t.model \notin s4

RuntimeInv == RuntimeShapes /\ StageKept /\ WaitedFor /\ LockHeld /\ VR!SlotsReturned

-----------------------------------------------------------------------------
(* The end of a stage leaves every other job where it was, and gives back  *)
(* this one's slot.                                                        *)
LEMMA StageEnds ==
    ASSUME JobsApart, RuntimeShapes, StageKept, NEW j \in VR!Jobs, VR!EndStage(j)
    PROVE  /\ s1' \in [VR!Jobs -> RuntimeSteps] /\ s2' \in [VR!Jobs -> VR!Models]
           /\ s3' = s3 \ {j}
           /\ s1'[j] \in {"extract", "done", "idle"}
           /\ \A k \in VR!Jobs : k # j => s1'[k] = s1[k] /\ s2'[k] = s2[k]
           /\ StageKept'
<1>1. /\ s1 \in [VR!Jobs -> RuntimeSteps] /\ s2 \in [VR!Jobs -> VR!Models]
      /\ Tab \in VR!Jobs /\ Loader \in VR!Jobs /\ RuntimeClips \subseteq VR!Jobs
  BY DEF RuntimeShapes, VR!Jobs
<1>2. VR!After(j) \in {"extract", "done", "idle"} /\ (VR!After(j) = "extract" => j \in RuntimeClips)
  BY DEF StageKept, VR!After, VR!Jobs, JobsApart
<1>3. s1' = [s1 EXCEPT ![j] = VR!After(j)] /\ s3' = s3 \ {j}
  BY DEF VR!EndStage
<1>4. CASE VR!After(j) = "extract"
  <2>1. s2' = [s2 EXCEPT ![j] = "audio"] /\ "audio" \in VR!Models
    BY <1>4 DEF VR!EndStage, VR!Models
  <2>2. StageKept'
    BY <1>1, <1>2, <1>4, <2>1 DEF StageKept, JobsApart
  <2> QED
    BY <1>1, <1>2, <1>3, <2>1, <2>2 DEF RuntimeSteps
<1>5. CASE VR!After(j) # "extract"
  <2>1. s2' = s2
    BY <1>5 DEF VR!EndStage
  <2> QED
    BY <1>1, <1>2, <1>3, <2>1 DEF StageKept, RuntimeSteps
<1> QED
  BY <1>4, <1>5

(* A step that only moves jobs nobody works for, and that hold no lock.    *)
JobMoves(j, next) ==
    /\ s1' = [s1 EXCEPT ![j] = next]
    /\ s1[j] \notin {"loading", "inferring"} /\ next \in RuntimeSteps
    /\ UNCHANGED <<s2, s4, s5, s6>>

LEMMA MovesKeepRuntime ==
    ASSUME RuntimeInv, NEW j \in VR!Jobs, NEW next, JobMoves(j, next),
           s3' \in {s3, s3 \cup {j}},
           j \in s3' => next \in {"lock", "loading", "infer", "inferring"}
    PROVE  RuntimeInv'
<1> USE DEF JobMoves
<1>1. RuntimeShapes'
  BY DEF RuntimeInv, RuntimeShapes
<1>2. StageKept'
  BY DEF RuntimeInv, StageKept
<1>3. WaitedFor'
  BY DEF RuntimeInv, RuntimeShapes, WaitedFor, RuntimeThreads
<1>4. LockHeld'
  BY DEF RuntimeInv, RuntimeShapes, LockHeld
<1>5. VR!SlotsReturned'
  BY DEF RuntimeInv, RuntimeShapes, VR!SlotsReturned
<1> QED
  BY <1>1, <1>2, <1>3, <1>4, <1>5 DEF RuntimeInv

(* The jobs that ask for a model, a slot or a lock.                        *)
LEMMA AskingKeepsRuntime ==
    ASSUME JobsApart, RuntimeInv,
           \/ VR!OpenTab
           \/ \E j \in VR!Jobs : VR!EnterSlot(j)
           \/ \E j \in VR!Jobs : VR!TakeLock(j) /\ s2[j] \in s4
    PROVE  RuntimeInv'
<1>1. Tab \in VR!Jobs
  BY DEF VR!Jobs
<1>2. CASE VR!OpenTab
  <2> DEFINE next == IF "face" \in s4 THEN "want" ELSE "lock"
  <2>1. JobMoves(Tab, next) /\ s3' = s3 /\ Tab \notin s3
    BY <1>2 DEF VR!OpenTab, JobMoves, RuntimeSteps, RuntimeInv, VR!SlotsReturned
  <2> QED
    BY <1>1, <2>1, MovesKeepRuntime
<1>3. ASSUME NEW j \in VR!Jobs, VR!EnterSlot(j)
      PROVE  RuntimeInv'
  <2> DEFINE next == IF s2[j] \in s4 THEN "infer" ELSE "lock"
  <2>1. JobMoves(j, next) /\ s3' = s3 \cup {j} /\ next \in {"infer", "lock"}
    BY <1>3 DEF VR!EnterSlot, JobMoves, RuntimeSteps
  <2> QED
    BY <2>1, MovesKeepRuntime
<1>4. ASSUME NEW j \in VR!Jobs, VR!TakeLock(j), s2[j] \in s4
      PROVE  RuntimeInv'
  <2>1. VR!Ready(j) \in RuntimeSteps /\ (j \in s3 => VR!Ready(j) = "infer")
    BY DEF VR!Ready, VR!After, RuntimeSteps, VR!Jobs, RuntimeInv, StageKept
  <2>2. JobMoves(j, VR!Ready(j)) /\ s3' = s3
    BY <1>4, <2>1 DEF VR!TakeLock, JobMoves
  <2> QED
    BY <2>1, <2>2, MovesKeepRuntime
<1> QED
  BY <1>2, <1>3, <1>4

(* The audio of a clip, and the load it may start on its way.              *)
LEMMA ExtractKeepsRuntime ==
    ASSUME JobsApart, RuntimeInv, NEW j \in RuntimeClips, NEW sound \in BOOLEAN, VR!ExtractAudio(j, sound)
    PROVE  RuntimeInv'
<1>1. j \in VR!Jobs /\ Loader \in VR!Jobs /\ j # Loader
  BY DEF VR!Jobs, JobsApart
<1>2. /\ s1' \in [VR!Jobs -> RuntimeSteps] /\ s1[j] = "extract"
      /\ s1'[j] \in {"want", "done"}
      /\ s1'[Loader] = s1[Loader] \/ (s1[Loader] = "idle" /\ s1'[Loader] = "lock")
      /\ \A k \in VR!Jobs : k # j /\ k # Loader => s1'[k] = s1[k]
      /\ UNCHANGED <<s2, s3, s4, s5, s6>>
  <2> DEFINE mine == IF sound /\ "audio" \in s4 THEN "want" ELSE "done"
             load == IF sound /\ "audio" \notin s4 /\ s1[Loader] = "idle"
                       THEN "lock" ELSE s1[Loader]
  <2>1. /\ s1[j] = "extract" /\ s1' = [s1 EXCEPT ![j] = mine, ![Loader] = load]
        /\ UNCHANGED <<s2, s3, s4, s5, s6>>
    BY <1>1 DEF VR!ExtractAudio
  <2>2. /\ mine \in {"want", "done"}
        /\ load = s1[Loader] \/ (s1[Loader] = "idle" /\ load = "lock")
    OBVIOUS
  <2> HIDE DEF mine, load
  <2> QED
    BY <1>1, <2>1, <2>2 DEF RuntimeInv, RuntimeShapes, RuntimeSteps
<1>3. RuntimeShapes'
  BY <1>2 DEF RuntimeInv, RuntimeShapes
<1>4. StageKept'
  BY <1>2 DEF RuntimeInv, StageKept
<1>5. WaitedFor'
  BY <1>1, <1>2 DEF RuntimeInv, RuntimeShapes, WaitedFor, RuntimeThreads
<1>6. LockHeld'
  BY <1>1, <1>2 DEF RuntimeInv, RuntimeShapes, LockHeld
<1>7. VR!SlotsReturned'
  BY <1>1, <1>2 DEF RuntimeInv, RuntimeShapes, VR!SlotsReturned
<1> QED
  BY <1>3, <1>4, <1>5, <1>6, <1>7 DEF RuntimeInv

(* Who finds the lock free and the model not loaded loads it.              *)
LEMMA LoadKeepsRuntime ==
    ASSUME JobsApart, RuntimeInv, NEW j \in VR!Jobs, VR!TakeLock(j), s2[j] \notin s4
    PROVE  RuntimeInv'
<1> DEFINE m == s2[j]
           t == VR!Thread(j, "load")
<1>1. /\ s1[j] = "lock" /\ s5[m] = VR!Nobody /\ m \in VR!Models
      /\ s5' = [s5 EXCEPT ![m] = j] /\ s6' = s6 \cup {t}
      /\ s1' = [s1 EXCEPT ![j] = "loading"]
      /\ UNCHANGED <<s2, s3, s4>>
  BY DEF VR!TakeLock, RuntimeInv, RuntimeShapes
<1>2. /\ t \in RuntimeThreads /\ t.job = j /\ t.model = m /\ t.work = "load" /\ ~t.left
  BY <1>1 DEF VR!Thread, RuntimeThreads
<1> HIDE DEF t
<1>3. RuntimeShapes'
  BY <1>1, <1>2 DEF RuntimeInv, RuntimeShapes, RuntimeSteps
<1>4. StageKept'
  BY <1>1 DEF RuntimeInv, StageKept
<1>5. \A u \in s6 : ~u.left => u.job # j
  BY <1>1 DEF RuntimeInv, RuntimeShapes, WaitedFor
<1>6. WaitedFor'
  <2>1. ASSUME NEW u \in s6'
        PROVE  IF u.left THEN u.work = "infer"
               ELSE /\ u.model = s2'[u.job]
                    /\ s1'[u.job] = IF u.work = "load" THEN "loading" ELSE "inferring"
    <3>1. CASE u = t
      BY <1>1, <1>2, <3>1 DEF RuntimeInv, RuntimeShapes
    <3>2. CASE u \in s6
      BY <1>1, <1>5, <3>2 DEF RuntimeInv, RuntimeShapes, WaitedFor, RuntimeThreads
    <3> QED
      BY <1>1, <3>1, <3>2
  <2> QED
    BY <2>1 DEF WaitedFor
<1>7. \A u \in s6 : u.work = "load" => u.model # m
  BY <1>1 DEF RuntimeInv, LockHeld, RuntimeShapes, RuntimeThreads, JobsApart
<1>8. LockHeld'
  <2>1. \A n \in VR!Models : s5'[n] # VR!Nobody =>
           s1'[s5'[n]] = "loading" /\ s2'[s5'[n]] = n
    BY <1>1 DEF RuntimeInv, RuntimeShapes, LockHeld
  <2>2. \A u \in s6' : u.work = "load" =>
           s5'[u.model] = u.job /\ u.model \notin s4'
    BY <1>1, <1>2, <1>7 DEF RuntimeInv, RuntimeShapes, LockHeld, RuntimeThreads
  <2> QED
    BY <2>1, <2>2 DEF LockHeld
<1>9. VR!SlotsReturned'
  BY <1>1 DEF RuntimeInv, RuntimeShapes, VR!SlotsReturned
<1> QED
  BY <1>3, <1>4, <1>6, <1>8, <1>9 DEF RuntimeInv

(* A load that ends: the thread is gone and the lock given back, and the   *)
(* job goes on with the model or gives its stage up.                       *)
LEMMA FinishLoadKeepsRuntime ==
    ASSUME JobsApart, RuntimeInv, NEW t \in s6, NEW ok \in BOOLEAN, VR!FinishLoad(t, ok)
    PROVE  RuntimeInv'
<1> DEFINE j == t.job
           m == t.model
<1>1. /\ t \in RuntimeThreads /\ j \in VR!Jobs /\ m \in VR!Models /\ t.work = "load"
      /\ s6' = s6 \ {t}
      /\ s5' = [s5 EXCEPT ![m] = VR!Nobody]
      /\ s4' \in {s4, s4 \cup {m}}
  BY DEF VR!FinishLoad, RuntimeInv, RuntimeShapes, RuntimeThreads
<1>2. /\ ~t.left /\ s1[j] = "loading" /\ s2[j] = m /\ s5[m] = j
  BY <1>1 DEF RuntimeInv, WaitedFor, LockHeld
<1>3. /\ s1' \in [VR!Jobs -> RuntimeSteps] /\ s2' \in [VR!Jobs -> VR!Models] /\ StageKept'
      /\ \A k \in VR!Jobs : k # j => s1'[k] = s1[k] /\ s2'[k] = s2[k]
      /\ s3' \in {s3, s3 \ {j}}
      /\ j \in s3' => s1'[j] = "infer"
  <2>1. CASE ok
    <3>1. s1' = [s1 EXCEPT ![j] = VR!Ready(j)] /\ UNCHANGED <<s2, s3>>
      BY <2>1 DEF VR!FinishLoad
    <3>2. VR!Ready(j) \in RuntimeSteps /\ (j \in s3 => VR!Ready(j) = "infer")
      BY <1>1 DEF VR!Ready, VR!After, RuntimeSteps, VR!Jobs, RuntimeInv, StageKept
    <3> QED
      BY <1>1, <3>1, <3>2 DEF RuntimeInv, RuntimeShapes, StageKept
  <2>2. CASE ~ok
    <3>1. VR!EndStage(j)
      BY <2>2 DEF VR!FinishLoad, VR!GiveUp
    <3> QED
      BY <1>1, <3>1, StageEnds DEF RuntimeInv, RuntimeShapes
  <2> QED
    BY <2>1, <2>2
<1>4. \A u \in s6 : u # t =>
          /\ ~u.left => u.job # j
          /\ u.work = "load" => u.model # m
  <2> SUFFICES ASSUME NEW u \in s6, u # t
               PROVE  /\ ~u.left => u.job # j
                      /\ u.work = "load" => u.model # m
    OBVIOUS
  <2>1. u \in RuntimeThreads
    BY DEF RuntimeInv, RuntimeShapes
  <2>2. ASSUME ~u.left, u.job = j PROVE FALSE
    <3>1. u.work = "load" /\ u.model = m /\ u.left = t.left
      BY <1>1, <1>2, <2>1, <2>2 DEF RuntimeInv, WaitedFor, RuntimeThreads
    <3> QED
      BY <1>1, <2>1, <2>2, <3>1 DEF RuntimeThreads
  <2>3. ASSUME u.work = "load", u.model = m PROVE FALSE
    <3>1. u.job = j /\ ~u.left
      BY <1>2, <2>3 DEF RuntimeInv, LockHeld, WaitedFor
    <3> QED
      BY <2>2, <3>1
  <2> QED
    BY <2>2, <2>3
<1>5. RuntimeShapes'
  BY <1>1, <1>3 DEF RuntimeInv, RuntimeShapes
<1>6. WaitedFor'
  BY <1>1, <1>3, <1>4 DEF RuntimeInv, RuntimeShapes, WaitedFor, RuntimeThreads
<1>7. LockHeld'
  <2>1. \A n \in VR!Models : s5'[n] # VR!Nobody =>
           s1'[s5'[n]] = "loading" /\ s2'[s5'[n]] = n
    BY <1>1, <1>2, <1>3 DEF RuntimeInv, RuntimeShapes, LockHeld
  <2>2. \A u \in s6' : u.work = "load" =>
           s5'[u.model] = u.job /\ u.model \notin s4'
    BY <1>1, <1>4 DEF RuntimeInv, RuntimeShapes, LockHeld, RuntimeThreads
  <2> QED
    BY <2>1, <2>2 DEF LockHeld
<1>8. VR!SlotsReturned'
  BY <1>1, <1>3 DEF RuntimeInv, RuntimeShapes, VR!SlotsReturned
<1> QED
  BY <1>3, <1>5, <1>6, <1>7, <1>8 DEF RuntimeInv

(* The work itself: a thread for the job, which ends seen or unseen, or is *)
(* left by a clip whose audio budget is used up.                           *)
LEMMA InferKeepsRuntime ==
    ASSUME JobsApart, RuntimeInv, NEW j \in VR!Jobs, VR!Infer(j)
    PROVE  RuntimeInv'
<1> DEFINE t == VR!Thread(j, "infer")
<1>1. /\ s1[j] = "infer" /\ s6' = s6 \cup {t}
      /\ s1' = [s1 EXCEPT ![j] = "inferring"]
      /\ UNCHANGED <<s2, s3, s4, s5>>
  BY DEF VR!Infer
<1>2. /\ t \in RuntimeThreads /\ t.job = j /\ t.model = s2[j] /\ t.work = "infer" /\ ~t.left
  BY DEF VR!Thread, RuntimeThreads, RuntimeInv, RuntimeShapes
<1> HIDE DEF t
<1>3. RuntimeShapes'
  BY <1>1, <1>2 DEF RuntimeInv, RuntimeShapes, RuntimeSteps
<1>4. StageKept'
  BY <1>1 DEF RuntimeInv, StageKept
<1>5. \A u \in s6 : ~u.left => u.job # j
  BY <1>1 DEF RuntimeInv, RuntimeShapes, WaitedFor
<1>6. WaitedFor'
  <2>1. ASSUME NEW u \in s6'
        PROVE  IF u.left THEN u.work = "infer"
               ELSE /\ u.model = s2'[u.job]
                    /\ s1'[u.job] = IF u.work = "load" THEN "loading" ELSE "inferring"
    <3>1. CASE u = t
      BY <1>1, <1>2, <3>1 DEF RuntimeInv, RuntimeShapes
    <3>2. CASE u \in s6
      BY <1>1, <1>5, <3>2 DEF RuntimeInv, RuntimeShapes, WaitedFor, RuntimeThreads
    <3> QED
      BY <1>1, <3>1, <3>2
  <2> QED
    BY <2>1 DEF WaitedFor
<1>7. LockHeld'
  BY <1>1, <1>2 DEF RuntimeInv, RuntimeShapes, LockHeld, RuntimeThreads
<1>8. VR!SlotsReturned'
  BY <1>1 DEF RuntimeInv, RuntimeShapes, VR!SlotsReturned
<1> QED
  BY <1>3, <1>4, <1>6, <1>7, <1>8 DEF RuntimeInv

LEMMA FinishInferKeepsRuntime ==
    ASSUME JobsApart, RuntimeInv, NEW t \in s6, VR!FinishInfer(t)
    PROVE  RuntimeInv'
<1> DEFINE j == t.job
<1>1. /\ t \in RuntimeThreads /\ j \in VR!Jobs /\ t.work = "infer" /\ s6' = s6 \ {t}
      /\ UNCHANGED <<s4, s5>>
  BY DEF VR!FinishInfer, RuntimeInv, RuntimeShapes, RuntimeThreads
<1>2. CASE t.left
  <2>1. UNCHANGED <<s1, s2, s3>>
    BY <1>2 DEF VR!FinishInfer
  <2> QED
    BY <1>1, <2>1 DEF RuntimeInv, RuntimeShapes, StageKept, WaitedFor, LockHeld, VR!SlotsReturned
<1>3. CASE ~t.left
  <2>1. VR!EndStage(j)
    BY <1>3 DEF VR!FinishInfer
  <2>2. s1[j] = "inferring" /\ t.model = s2[j]
    BY <1>1, <1>3 DEF RuntimeInv, WaitedFor
  <2>3. /\ s1' \in [VR!Jobs -> RuntimeSteps] /\ s2' \in [VR!Jobs -> VR!Models] /\ StageKept'
        /\ \A k \in VR!Jobs : k # j => s1'[k] = s1[k] /\ s2'[k] = s2[k]
        /\ s3' = s3 \ {j}
    BY <1>1, <2>1, StageEnds DEF RuntimeInv
  <2>4. \A u \in s6 : u # t /\ ~u.left => u.job # j
    BY <1>1, <1>3, <2>2 DEF RuntimeInv, RuntimeShapes, WaitedFor, RuntimeThreads
  <2>5. RuntimeShapes'
    BY <1>1, <2>3 DEF RuntimeInv, RuntimeShapes
  <2>6. WaitedFor'
    BY <1>1, <2>3, <2>4 DEF RuntimeInv, RuntimeShapes, WaitedFor, RuntimeThreads
  <2>7. LockHeld'
    BY <1>1, <2>2, <2>3 DEF RuntimeInv, RuntimeShapes, LockHeld
  <2>8. VR!SlotsReturned'
    BY <2>3 DEF RuntimeInv, RuntimeShapes, VR!SlotsReturned
  <2> QED
    BY <2>3, <2>5, <2>6, <2>7, <2>8 DEF RuntimeInv
<1> QED
  BY <1>2, <1>3

LEMMA TimeoutKeepsRuntime ==
    ASSUME JobsApart, RuntimeInv, NEW j \in RuntimeClips, VR!AudioTimeout(j)
    PROVE  RuntimeInv'
<1> DEFINE Leave(t) == IF t.job = j THEN [t EXCEPT !.left = TRUE] ELSE t
<1>1. /\ j \in VR!Jobs /\ s1[j] \in {"extract", "want", "inferring"} /\ VR!EndStage(j)
      /\ s6' = {Leave(t) : t \in s6} /\ UNCHANGED <<s4, s5>>
  BY DEF VR!AudioTimeout, VR!Jobs
<1>2. /\ s1' \in [VR!Jobs -> RuntimeSteps] /\ s2' \in [VR!Jobs -> VR!Models] /\ StageKept'
      /\ \A k \in VR!Jobs : k # j => s1'[k] = s1[k] /\ s2'[k] = s2[k]
      /\ s3' = s3 \ {j}
  BY <1>1, StageEnds DEF RuntimeInv
<1>3. ASSUME NEW u \in s6'
      PROVE  /\ u \in RuntimeThreads
             /\ u.job = j => u.left /\ u.work = "infer"
             /\ u.job # j => u \in s6
  <2>1. PICK t \in s6 : u = Leave(t)
    BY <1>1
  <2>2. t \in RuntimeThreads /\ (t.job = j => t.work = "infer")
    BY <1>1 DEF RuntimeInv, RuntimeShapes, WaitedFor, RuntimeThreads
  <2>3. CASE t.job = j
    BY <2>1, <2>2, <2>3 DEF RuntimeThreads
  <2>4. CASE t.job # j
    BY <2>1, <2>2, <2>4
  <2> QED
    BY <2>3, <2>4
<1> HIDE DEF Leave
<1>4. RuntimeShapes'
  BY <1>1, <1>2, <1>3 DEF RuntimeInv, RuntimeShapes
<1>5. WaitedFor'
  BY <1>2, <1>3 DEF RuntimeInv, WaitedFor, RuntimeThreads
<1>6. LockHeld'
  <2>1. \A n \in VR!Models : s5'[n] # VR!Nobody =>
           s1'[s5'[n]] = "loading" /\ s2'[s5'[n]] = n
    BY <1>1, <1>2 DEF RuntimeInv, RuntimeShapes, LockHeld
  <2>2. \A u \in s6' : u.work = "load" =>
           s5'[u.model] = u.job /\ u.model \notin s4'
    BY <1>1, <1>3 DEF RuntimeInv, LockHeld
  <2> QED
    BY <2>1, <2>2 DEF LockHeld
<1>7. VR!SlotsReturned'
  BY <1>2 DEF RuntimeInv, RuntimeShapes, VR!SlotsReturned
<1> QED
  BY <1>2, <1>4, <1>5, <1>6, <1>7 DEF RuntimeInv

-----------------------------------------------------------------------------
LEMMA RuntimeInit ==
    ASSUME JobsApart, VR!Init
    PROVE  RuntimeInv
<1>1. /\ \A j \in VR!Jobs : s1[j] \in {"want", "idle"} /\ s2[j] \in VR!Models
      /\ StageKept
  BY DEF VR!Init, VR!Jobs, JobsApart, StageKept, VR!Models
<1>2. RuntimeShapes
  <2>1. s1 \in [VR!Jobs -> RuntimeSteps] /\ s2 \in [VR!Jobs -> VR!Models]
    BY <1>1 DEF VR!Init, RuntimeSteps
  <2> QED
    BY <2>1 DEF VR!Init, RuntimeShapes
<1>3. WaitedFor /\ LockHeld /\ VR!SlotsReturned
  BY DEF VR!Init, WaitedFor, LockHeld, VR!SlotsReturned
<1> QED
  BY <1>1, <1>2, <1>3 DEF RuntimeInv

LEMMA RuntimeStep ==
    ASSUME JobsApart, RuntimeInv, [VR!Next]_(VR!runtimeVars)
    PROVE  RuntimeInv'
<1>1. CASE VR!Working
  <2>1. ASSUME NEW j \in RuntimeClips, NEW sound \in BOOLEAN, VR!ExtractAudio(j, sound)
        PROVE  RuntimeInv'
    BY <2>1, ExtractKeepsRuntime
  <2>2. ASSUME NEW j \in VR!Jobs, VR!EnterSlot(j) \/ VR!TakeLock(j) \/ VR!Infer(j)
        PROVE  RuntimeInv'
    BY <2>2, AskingKeepsRuntime, LoadKeepsRuntime, InferKeepsRuntime
  <2>3. ASSUME NEW t \in s6, VR!FinishInfer(t) \/ VR!FinishLoad(t, TRUE)
        PROVE  RuntimeInv'
    BY <2>3, FinishInferKeepsRuntime, FinishLoadKeepsRuntime
  <2>4. ASSUME NEW t \in s6, VR!TakeImportLock(t)
        PROVE  RuntimeInv'
    BY <2>4 DEF VR!TakeImportLock, RuntimeInv, RuntimeShapes, StageKept, WaitedFor, LockHeld, VR!SlotsReturned
  <2> QED
    BY <1>1, <2>1, <2>2, <2>3, <2>4 DEF VR!Working
<1>2. CASE VR!OpenTab
  BY <1>2, AskingKeepsRuntime
<1>3. ASSUME NEW j \in RuntimeClips, VR!AudioTimeout(j)
      PROVE  RuntimeInv'
  BY <1>3, TimeoutKeepsRuntime
<1>4. ASSUME NEW t \in s6, VR!FinishLoad(t, FALSE)
      PROVE  RuntimeInv'
  BY <1>4, FinishLoadKeepsRuntime
<1>5. CASE UNCHANGED VR!runtimeVars
  BY <1>5 DEF VR!runtimeVars, RuntimeInv, RuntimeShapes, StageKept, WaitedFor, LockHeld, VR!SlotsReturned
<1> QED
  BY <1>1, <1>2, <1>3, <1>4, <1>5 DEF VR!Next, VR!AllDone

(* Every lock is held by a job that loads, and every thread is one that    *)
(* its job waits for or has given up (ensure_ready, run_in_executor); a    *)
(* model is loaded once, however many clips and the Faces tab want it and  *)
(* whichever loads fail before (vision/runtime.py); no job keeps a slot    *)
(* once its stage is over, whichever way it ended.                         *)
LEMMA RuntimeSafe == RuntimeInv => VR!RuntimeTypeOK /\ VR!LoadedOnce /\ VR!SlotsReturned
<1> SUFFICES ASSUME RuntimeInv PROVE VR!RuntimeTypeOK /\ VR!LoadedOnce /\ VR!SlotsReturned
  OBVIOUS
<1>1. VR!RuntimeTypeOK
  BY DEF RuntimeInv, RuntimeShapes, RuntimeSteps, RuntimeThreads, WaitedFor, LockHeld, VR!RuntimeTypeOK
<1>2. VR!LoadedOnce
  <2>1. ASSUME NEW t \in s6, NEW u \in s6, t.work = "load", u.work = "load", u.model = t.model
        PROVE  u = t
    <3>1. t \in RuntimeThreads /\ u \in RuntimeThreads
      BY DEF RuntimeInv, RuntimeShapes
    <3>2. u.job = t.job /\ u.left = t.left
      BY <2>1, <3>1 DEF RuntimeInv, LockHeld, WaitedFor, RuntimeThreads
    <3> QED
      BY <2>1, <3>1, <3>2 DEF RuntimeThreads
  <2> QED
    BY <2>1 DEF RuntimeInv, LockHeld, VR!LoadedOnce
<1>3. VR!SlotsReturned
  BY DEF RuntimeInv
<1> QED
  BY <1>1, <1>2, <1>3

-----------------------------------------------------------------------------
(* Detection at a remote service (RemoteDetection): s1 is what became of   *)
(* each frame's request, s2 how often it was sent, s3 the failure known,   *)
(* s4 whether one was a refusal, s5 the requests sent after a failure was  *)
(* known, s6 what is returned.                                             *)
RemoteBounds ==
    IsFiniteSet(ScanFrames) /\ Concurrency \in Nat \ {0} /\ Attempts \in Nat \ {0}

LEMMA CardRemote == \A S : RD!Cardinality(S) = Cardinality(S)
BY DEF RD!Cardinality, Cardinality, RD!IsFiniteSet, IsFiniteSet

LEMMA FrameSets ==
    ASSUME RemoteBounds
    PROVE  /\ IsFiniteSet(RD!InFlight) /\ Cardinality(RD!InFlight) \in Nat
           /\ IsFiniteSet(RD!Owed) /\ Cardinality(RD!Owed) \in Nat
<1>1. IsFiniteSet(RD!InFlight)
  BY FS_Subset DEF RD!InFlight, RemoteBounds
<1>2. IsFiniteSet(1..Attempts)
  BY FS_Interval DEF RemoteBounds
<1>3. IsFiniteSet(ScanFrames \X (1..Attempts))
  BY <1>2, FS_Product DEF RemoteBounds
<1>4. IsFiniteSet(RD!Owed)
  BY <1>3, FS_Subset DEF RD!Owed
<1> QED
  BY <1>1, <1>4, FS_CardinalityType

(* Fewer in flight, each having asked before: the most they may yet ask.   *)
LEMMA BillOfTheRest ==
    ASSUME RemoteBounds, NEW R, IsFiniteSet(R), Cardinality(R) \in Nat, Cardinality(R) <= Concurrency - 1,
           NEW Q \in SUBSET (R \X (2..Attempts))
    PROVE  IsFiniteSet(Q) /\ Cardinality(Q) <= (Concurrency - 1) * (Attempts - 1)
<1>1. IsFiniteSet(2..Attempts) /\ Cardinality(2..Attempts) = Attempts - 1
  <2>1. 2 \in Int /\ Attempts \in Int /\ Attempts >= 1
    BY DEF RemoteBounds
  <2>2. IsFiniteSet(2..Attempts) /\ Cardinality(2..Attempts) = IF 2 > Attempts THEN 0 ELSE Attempts - 2 + 1
    BY <2>1, FS_Interval
  <2> QED
    BY <2>1, <2>2
<1>2. IsFiniteSet(R \X (2..Attempts)) /\ Cardinality(R \X (2..Attempts)) = Cardinality(R) * (Attempts - 1)
  BY <1>1, FS_Product
<1>3. IsFiniteSet(Q) /\ Cardinality(Q) <= Cardinality(R) * (Attempts - 1) /\ Cardinality(Q) \in Nat
  BY <1>2, FS_Subset, FS_CardinalityType
<1>4. \A x, y, z \in Nat : x <= y => x * z <= y * z
  OBVIOUS
<1>5. Cardinality(R) * (Attempts - 1) <= (Concurrency - 1) * (Attempts - 1)
  BY <1>4 DEF RemoteBounds
<1>6. Cardinality(R) * (Attempts - 1) \in Nat /\ (Concurrency - 1) * (Attempts - 1) \in Nat
  BY DEF RemoteBounds
<1> QED
  BY <1>3, <1>5, <1>6

LEMMA RemoteInit ==
    ASSUME RemoteBounds, RD!Init
    PROVE  RD!IInv
<1>1. RD!InFlight = {}
  BY DEF RD!Init, RD!InFlight
<1>2. RD!Cardinality(RD!InFlight) = 0
  BY <1>1, FS_EmptySet, CardRemote
<1>3. RD!RemoteTypeOK
  <2>1. 0 \in 0..Attempts /\ 0 <= Concurrency
    BY DEF RemoteBounds
  <2>2. /\ s1 \in [ScanFrames -> {"queued", "sent", "pausing", "looked", "given_up"}]
        /\ s2 \in [ScanFrames -> 0..Attempts]
    BY <2>1 DEF RD!Init
  <2> QED
    BY <1>2, <2>1, <2>2 DEF RD!Init, RD!RemoteTypeOK
<1>4. RD!Asked /\ RD!GivenUpIsKnown /\ RD!EmptyMeansLooked /\ RD!RefusalIsReported /\ RD!WithinTheBill
  BY DEF RD!Init, RD!Asked, RD!GivenUpIsKnown, RD!EmptyMeansLooked, RD!RefusalIsReported, RD!WithinTheBill
<1> QED
  BY <1>3, <1>4 DEF RD!IInv

(* A request is made, with a failure known or none.                        *)
LEMMA PostCounts ==
    ASSUME RemoteBounds, RD!IInv, NEW f \in ScanFrames, RD!Post(f), s2[f] < Attempts,
           s1[f] = "queued" => s3 = "none", s3' = s3
    PROVE  /\ s2' \in [ScanFrames -> 0..Attempts] /\ s2'[f] = s2[f] + 1
           /\ \A g \in ScanFrames \ {f} : s2'[g] = s2[g]
           /\ s1' \in [ScanFrames -> {"queued", "sent", "pausing", "looked", "given_up"}]
           /\ s1'[f] = "sent" /\ \A g \in ScanFrames \ {f} : s1'[g] = s1[g]
           /\ RD!InFlight' = RD!InFlight \cup {f}
<1>1. s2[f] \in 0..Attempts /\ s2[f] + 1 \in 0..Attempts
  BY DEF RD!IInv, RD!RemoteTypeOK, RemoteBounds
<1>2. /\ s2' \in [ScanFrames -> 0..Attempts] /\ s2'[f] = s2[f] + 1
      /\ \A g \in ScanFrames \ {f} : s2'[g] = s2[g]
  BY <1>1 DEF RD!IInv, RD!RemoteTypeOK, RD!Post
<1>3. /\ s1' \in [ScanFrames -> {"queued", "sent", "pausing", "looked", "given_up"}]
      /\ s1'[f] = "sent" /\ \A g \in ScanFrames \ {f} : s1'[g] = s1[g]
  BY DEF RD!IInv, RD!RemoteTypeOK, RD!Post
<1>4. RD!InFlight' = RD!InFlight \cup {f}
  BY <1>3 DEF RD!InFlight
<1> QED
  BY <1>2, <1>3, <1>4

LEMMA RemoteEnter ==
    ASSUME RemoteBounds, RD!IInv, NEW f \in ScanFrames, RD!Enter(f)
    PROVE  RD!IInv'
<1> USE DEF RD!IInv
<1>0. /\ s1[f] = "queued" /\ s2[f] = 0 /\ s3' = s3 /\ s4' = s4 /\ s6' = s6
      /\ RD!Cardinality(RD!InFlight) < Concurrency
  BY DEF RD!Enter, RD!Asked
<1>1. CASE s3 = "none"
  <2>1. RD!Post(f) /\ s2[f] < Attempts
    BY <1>0, <1>1 DEF RD!Enter, RemoteBounds
  <2>2. /\ s2' \in [ScanFrames -> 0..Attempts] /\ s2'[f] = s2[f] + 1
        /\ \A g \in ScanFrames \ {f} : s2'[g] = s2[g]
        /\ s1' \in [ScanFrames -> {"queued", "sent", "pausing", "looked", "given_up"}]
        /\ s1'[f] = "sent" /\ \A g \in ScanFrames \ {f} : s1'[g] = s1[g]
        /\ RD!InFlight' = RD!InFlight \cup {f}
    BY <1>0, <1>1, <2>1, PostCounts
  <2>3. RD!Cardinality(RD!InFlight') <= Concurrency
    <3>1. Cardinality(RD!InFlight \cup {f}) <= Cardinality(RD!InFlight) + 1 /\ Cardinality(RD!InFlight \cup {f}) \in Nat
      <4>1. CASE f \in RD!InFlight
        <5>1. RD!InFlight \cup {f} = RD!InFlight
          BY <4>1
        <5>2. \A n \in Nat : n <= n + 1 /\ n \in Nat
          OBVIOUS
        <5> QED
          BY <5>1, <5>2, FrameSets
      <4>2. CASE f \notin RD!InFlight
        <5>1. Cardinality(RD!InFlight \cup {f}) = Cardinality(RD!InFlight) + 1
          BY <4>2, FrameSets, FS_AddElement
        <5> QED
          BY <5>1, FrameSets
      <4> QED
        BY <4>1, <4>2
    <3> QED
      BY <1>0, <2>2, <3>1, FrameSets, CardRemote DEF RemoteBounds
  <2>4. RD!RemoteTypeOK'
    BY <1>0, <2>2, <2>3, CardRemote DEF RD!RemoteTypeOK
  <2>5. RD!Asked' /\ RD!GivenUpIsKnown' /\ RD!RefusalIsReported'
    BY <1>0, <1>1, <2>2 DEF RD!Asked, RD!GivenUpIsKnown, RD!RefusalIsReported
  <2>6. RD!EmptyMeansLooked'
    BY <1>0 DEF RD!EmptyMeansLooked
  <2>7. RD!WithinTheBill'
    BY <1>0, <1>1, <2>1 DEF RD!WithinTheBill, RD!Post
  <2> QED
    BY <2>4, <2>5, <2>6, <2>7
<1>2. CASE s3 # "none"
  <2>1. s1' = [s1 EXCEPT ![f] = "given_up"] /\ s2' = s2 /\ s5' = s5
    BY <1>2 DEF RD!Enter
  <2>2. RD!InFlight' = RD!InFlight /\ RD!Owed' = RD!Owed
    BY <1>0, <2>1 DEF RD!InFlight, RD!Owed, RD!RemoteTypeOK
  <2>3. RD!RemoteTypeOK'
    BY <1>0, <2>1, <2>2 DEF RD!RemoteTypeOK
  <2>4. RD!Asked' /\ RD!GivenUpIsKnown' /\ RD!RefusalIsReported' /\ RD!EmptyMeansLooked'
    BY <1>0, <1>2, <2>1 DEF RD!Asked, RD!GivenUpIsKnown, RD!RefusalIsReported, RD!EmptyMeansLooked, RD!RemoteTypeOK
  <2>5. RD!WithinTheBill'
    BY <1>0, <2>1, <2>2 DEF RD!WithinTheBill
  <2> QED
    BY <2>3, <2>4, <2>5
<1> QED
  BY <1>1, <1>2

(* A request comes back for good: what is owed is what the others may ask. *)
LEMMA RequestEnds ==
    ASSUME RemoteBounds, RD!IInv, NEW f \in ScanFrames, s1[f] = "sent", NEW how \in {"looked", "given_up"},
           s1' = [s1 EXCEPT ![f] = how], s2' = s2
    PROVE  /\ s1' \in [ScanFrames -> {"queued", "sent", "pausing", "looked", "given_up"}]
           /\ s1'[f] = how /\ \A g \in ScanFrames \ {f} : s1'[g] = s1[g]
           /\ RD!InFlight' = RD!InFlight \ {f}
           /\ Cardinality(RD!InFlight') \in Nat /\ Cardinality(RD!InFlight') <= Concurrency - 1
           /\ Cardinality(RD!Owed') \in Nat /\ Cardinality(RD!Owed') <= Cardinality(RD!Owed)
           /\ Cardinality(RD!Owed') <= (Concurrency - 1) * (Attempts - 1)
           /\ RD!Asked'
<1> USE DEF RD!IInv
<1>1. /\ s1' \in [ScanFrames -> {"queued", "sent", "pausing", "looked", "given_up"}]
      /\ s1'[f] = how /\ \A g \in ScanFrames \ {f} : s1'[g] = s1[g]
      /\ RD!InFlight' = RD!InFlight \ {f} /\ f \in RD!InFlight
  BY DEF RD!RemoteTypeOK, RD!InFlight
<1>2. /\ IsFiniteSet(RD!InFlight') /\ Cardinality(RD!InFlight') \in Nat
      /\ Cardinality(RD!InFlight') <= Concurrency - 1
  <2>1. IsFiniteSet(RD!InFlight') /\ Cardinality(RD!InFlight') = Cardinality(RD!InFlight) - 1
    BY <1>1, FrameSets, FS_RemoveElement
  <2>2. Cardinality(RD!InFlight') \in Nat
    BY <2>1, FS_CardinalityType
  <2>3. Cardinality(RD!InFlight) <= Concurrency
    BY CardRemote DEF RD!RemoteTypeOK
  <2> QED
    BY <2>1, <2>2, <2>3, FrameSets DEF RemoteBounds
<1>3. RD!Owed' \subseteq RD!Owed
  BY <1>1 DEF RD!Owed
<1>4. IsFiniteSet(RD!Owed') /\ Cardinality(RD!Owed') \in Nat /\ Cardinality(RD!Owed') <= Cardinality(RD!Owed)
  BY <1>3, FrameSets, FS_Subset, FS_CardinalityType
<1>5. RD!Owed' \subseteq RD!InFlight' \X (2..Attempts)
  <2> SUFFICES ASSUME NEW p \in RD!Owed' PROVE p \in RD!InFlight' \X (2..Attempts)
    OBVIOUS
  <2>1. p \in ScanFrames \X (1..Attempts) /\ p[1] \in RD!InFlight' /\ p[2] > s2[p[1]]
    BY DEF RD!Owed
  <2>2. s2[p[1]] > 0 /\ s2[p[1]] \in Nat
    BY <1>1, <2>1 DEF RD!InFlight, RD!Asked, RD!RemoteTypeOK, RemoteBounds
  <2>3. p[2] \in 2..Attempts
    BY <2>1, <2>2 DEF RemoteBounds
  <2> QED
    BY <2>1, <2>3
<1>6. Cardinality(RD!Owed') <= (Concurrency - 1) * (Attempts - 1)
  BY <1>2, <1>5, BillOfTheRest
<1>7. RD!Asked'
  BY <1>1 DEF RD!Asked
<1> QED
  BY <1>1, <1>2, <1>4, <1>6, <1>7

LEMMA RemoteBoxes ==
    ASSUME RemoteBounds, RD!IInv, NEW f \in ScanFrames, RD!Boxes(f)
    PROVE  RD!IInv'
<1> USE DEF RD!IInv
<1>0. /\ s1[f] = "sent" /\ s1' = [s1 EXCEPT ![f] = "looked"]
      /\ s2' = s2 /\ s3' = s3 /\ s4' = s4 /\ s5' = s5 /\ s6' = s6
  BY DEF RD!Boxes
<1>1. /\ s1' \in [ScanFrames -> {"queued", "sent", "pausing", "looked", "given_up"}]
      /\ s1'[f] = "looked" /\ \A g \in ScanFrames \ {f} : s1'[g] = s1[g]
      /\ Cardinality(RD!InFlight') \in Nat /\ Cardinality(RD!InFlight') <= Concurrency - 1
      /\ Cardinality(RD!Owed') \in Nat /\ Cardinality(RD!Owed') <= Cardinality(RD!Owed)
      /\ RD!Asked'
  BY <1>0, RequestEnds
<1>2. RD!RemoteTypeOK'
  BY <1>0, <1>1, CardRemote DEF RD!RemoteTypeOK, RemoteBounds
<1>3. RD!GivenUpIsKnown' /\ RD!EmptyMeansLooked' /\ RD!RefusalIsReported'
  BY <1>0, <1>1 DEF RD!GivenUpIsKnown, RD!EmptyMeansLooked, RD!RefusalIsReported
<1>4. RD!WithinTheBill'
  <2>1. (Concurrency - 1) * (Attempts - 1) \in Int
    BY DEF RemoteBounds
  <2> QED
    BY <1>0, <1>1, <2>1, FrameSets, CardRemote DEF RD!WithinTheBill
<1> QED
  BY <1>1, <1>2, <1>3, <1>4

LEMMA RemoteGivesUp ==
    ASSUME RemoteBounds, RD!IInv, NEW f \in ScanFrames, NEW kind \in {"transient", "permanent"},
           s1[f] = "sent", RD!GiveUpOn(f, kind), s4' = (s4 \/ kind = "permanent")
    PROVE  RD!IInv'
<1> USE DEF RD!IInv
<1>0. /\ s1' = [s1 EXCEPT ![f] = "given_up"] /\ s3' = RD!Record(kind)
      /\ s2' = s2 /\ s5' = s5 /\ s6' = s6
  BY DEF RD!GiveUpOn
<1>1. /\ s1' \in [ScanFrames -> {"queued", "sent", "pausing", "looked", "given_up"}]
      /\ s1'[f] = "given_up" /\ \A g \in ScanFrames \ {f} : s1'[g] = s1[g]
      /\ Cardinality(RD!InFlight') \in Nat /\ Cardinality(RD!InFlight') <= Concurrency - 1
      /\ Cardinality(RD!Owed') \in Nat /\ Cardinality(RD!Owed') <= Cardinality(RD!Owed)
      /\ Cardinality(RD!Owed') <= (Concurrency - 1) * (Attempts - 1)
      /\ RD!Asked'
  BY <1>0, RequestEnds
<1>2. s3' \in {"transient", "permanent"} /\ (s3 = "permanent" \/ kind = "permanent" => s3' = "permanent")
  BY <1>0 DEF RD!Record, RD!RemoteTypeOK
<1>3. RD!RemoteTypeOK'
  BY <1>0, <1>1, <1>2, CardRemote DEF RD!RemoteTypeOK, RemoteBounds
<1>4. RD!GivenUpIsKnown' /\ RD!RefusalIsReported'
  BY <1>0, <1>1, <1>2 DEF RD!GivenUpIsKnown, RD!RefusalIsReported
<1>5. RD!EmptyMeansLooked'
  BY <1>0 DEF RD!EmptyMeansLooked
<1>6. RD!WithinTheBill'
  <2>1. (Concurrency - 1) * (Attempts - 1) \in Int
    BY DEF RemoteBounds
  <2> QED
    BY <1>0, <1>1, <1>2, <2>1, FrameSets, CardRemote DEF RD!WithinTheBill
<1> QED
  BY <1>1, <1>3, <1>4, <1>5, <1>6

LEMMA RemoteTryLater ==
    ASSUME RemoteBounds, RD!IInv, NEW f \in ScanFrames, RD!TryLater(f)
    PROVE  RD!IInv'
<1> USE DEF RD!IInv
<1>0. s1[f] = "sent" /\ s4' = s4
  BY DEF RD!TryLater
<1>1. CASE s2[f] < Attempts
  <2>1. /\ s1' = [s1 EXCEPT ![f] = "pausing"]
        /\ s2' = s2 /\ s3' = s3 /\ s4' = s4 /\ s5' = s5 /\ s6' = s6
    BY <1>1 DEF RD!TryLater
  <2>2. /\ s1' \in [ScanFrames -> {"queued", "sent", "pausing", "looked", "given_up"}]
        /\ s1'[f] = "pausing" /\ \A g \in ScanFrames \ {f} : s1'[g] = s1[g]
    BY <2>1 DEF RD!RemoteTypeOK
  <2>3. RD!InFlight' = RD!InFlight /\ RD!Owed' = RD!Owed
    BY <1>0, <2>1, <2>2 DEF RD!InFlight, RD!Owed
  <2>4. RD!RemoteTypeOK'
    BY <2>1, <2>2, <2>3 DEF RD!RemoteTypeOK
  <2>5. RD!Asked' /\ RD!GivenUpIsKnown' /\ RD!EmptyMeansLooked' /\ RD!RefusalIsReported' /\ RD!WithinTheBill'
    BY <1>0, <1>1, <2>1, <2>2, <2>3 DEF RD!Asked, RD!GivenUpIsKnown, RD!EmptyMeansLooked, RD!RefusalIsReported,
       RD!WithinTheBill
  <2> QED
    BY <2>4, <2>5
<1>2. CASE ~(s2[f] < Attempts)
  <2>1. RD!GiveUpOn(f, "transient") /\ s4' = (s4 \/ "transient" = "permanent")
    BY <1>0, <1>2 DEF RD!TryLater, RD!RemoteTypeOK
  <2> QED
    BY <1>0, <2>1, RemoteGivesUp
<1> QED
  BY <1>1, <1>2

(* A retry spends one of what is owed.                                     *)
LEMMA RemoteRetry ==
    ASSUME RemoteBounds, RD!IInv, NEW f \in ScanFrames, RD!Retry(f)
    PROVE  RD!IInv'
<1> USE DEF RD!IInv
<1>0. /\ s1[f] = "pausing" /\ RD!Post(f) /\ s2[f] < Attempts
      /\ s3' = s3 /\ s4' = s4 /\ s6' = s6 /\ f \in RD!InFlight
  BY DEF RD!Retry, RD!Asked, RD!InFlight
<1>1. /\ s2' \in [ScanFrames -> 0..Attempts] /\ s2'[f] = s2[f] + 1
      /\ \A g \in ScanFrames \ {f} : s2'[g] = s2[g]
      /\ s1' \in [ScanFrames -> {"queued", "sent", "pausing", "looked", "given_up"}]
      /\ s1'[f] = "sent" /\ \A g \in ScanFrames \ {f} : s1'[g] = s1[g]
      /\ RD!InFlight' = RD!InFlight
  BY <1>0, PostCounts
<1>2. RD!RemoteTypeOK'
  BY <1>0, <1>1 DEF RD!RemoteTypeOK
<1>3. RD!Asked' /\ RD!GivenUpIsKnown' /\ RD!EmptyMeansLooked' /\ RD!RefusalIsReported'
  <2>1. s2[f] \in Nat
    BY DEF RD!RemoteTypeOK, RemoteBounds
  <2> QED
    BY <1>0, <1>1, <2>1 DEF RD!Asked, RD!GivenUpIsKnown, RD!EmptyMeansLooked, RD!RefusalIsReported
<1>4. RD!WithinTheBill'
  <2> DEFINE next == <<f, s2[f] + 1>>
  <2>0. s2 \in [ScanFrames -> 0..Attempts] /\ Attempts \in Nat
    BY DEF RD!RemoteTypeOK, RemoteBounds
  <2>1. RD!Owed' = RD!Owed \ {next}
    <3>1. ASSUME NEW p \in ScanFrames \X (1..Attempts), p[1] = f
          PROVE  p[2] > s2[f] + 1 <=> p[2] > s2[f] /\ p # next
      <4>1. p = <<p[1], p[2]>> /\ p[2] \in Int /\ s2[f] \in Int
        BY <2>0
      <4> QED
        BY <3>1, <4>1
    <3>2. ASSUME NEW p \in ScanFrames \X (1..Attempts)
          PROVE  p \in RD!Owed' <=> p \in RD!Owed /\ p # next
      <4>1. CASE p[1] = f
        BY <1>0, <1>1, <3>1, <4>1 DEF RD!Owed
      <4>2. CASE p[1] # f
        BY <1>1, <4>2 DEF RD!Owed
      <4> QED
        BY <4>1, <4>2
    <3> QED
      BY <3>2 DEF RD!Owed
  <2>2. next \in RD!Owed
    <3>1. s2[f] + 1 \in 1..Attempts /\ s2[f] + 1 > s2[f]
      BY <1>0, <2>0
    <3> QED
      BY <1>0, <3>1 DEF RD!Owed
  <2>3. Cardinality(RD!Owed') = Cardinality(RD!Owed) - 1
    BY <2>1, <2>2, FrameSets, FS_RemoveElement
  <2>4. s5' = IF s3 = "none" THEN s5 ELSE s5 + 1
    BY <1>0 DEF RD!Post
  <2>5. (Concurrency - 1) * (Attempts - 1) \in Int
    BY DEF RemoteBounds
  <2> QED
    BY <1>0, <2>3, <2>4, <2>5, FrameSets, CardRemote DEF RD!WithinTheBill
<1> QED
  BY <1>2, <1>3, <1>4

LEMMA RemoteStep ==
    ASSUME RemoteBounds, RD!IInv, [RD!Next]_(RD!remoteVars)
    PROVE  RD!IInv'
<1>1. ASSUME NEW f \in ScanFrames, NEW kind \in {"transient", "permanent"}, RD!Refused(f, kind)
      PROVE  RD!IInv'
  BY <1>1, RemoteGivesUp DEF RD!Refused
<1>2. CASE RD!Return
  <2>1. /\ s1' = s1 /\ s2' = s2 /\ s3' = s3 /\ s4' = s4 /\ s5' = s5 /\ s6' \in {"boxes", "none"}
        /\ s6' = "boxes" => s3 = "none" /\ \A f \in ScanFrames : s1[f] \in {"looked", "given_up"}
    BY <1>2 DEF RD!Return
  <2>2. RD!InFlight' = RD!InFlight /\ RD!Owed' = RD!Owed
    BY <2>1 DEF RD!InFlight, RD!Owed
  <2>3. RD!RemoteTypeOK' /\ RD!Asked' /\ RD!GivenUpIsKnown' /\ RD!RefusalIsReported' /\ RD!WithinTheBill'
    BY <2>1, <2>2 DEF RD!IInv, RD!RemoteTypeOK, RD!Asked, RD!GivenUpIsKnown, RD!RefusalIsReported, RD!WithinTheBill
  <2>4. RD!EmptyMeansLooked'
    BY <2>1 DEF RD!IInv, RD!EmptyMeansLooked, RD!GivenUpIsKnown
  <2> QED
    BY <2>3, <2>4 DEF RD!IInv
<1>3. CASE UNCHANGED RD!remoteVars
  <2>1. s1' = s1 /\ s2' = s2 /\ s3' = s3 /\ s4' = s4 /\ s5' = s5 /\ s6' = s6
    BY <1>3 DEF RD!remoteVars
  <2>2. RD!InFlight' = RD!InFlight /\ RD!Owed' = RD!Owed
    BY <2>1 DEF RD!InFlight, RD!Owed
  <2> QED
    BY <2>1, <2>2 DEF RD!IInv, RD!RemoteTypeOK, RD!Asked, RD!GivenUpIsKnown, RD!RefusalIsReported,
       RD!WithinTheBill, RD!EmptyMeansLooked
<1> QED
  BY <1>1, <1>2, <1>3, RemoteEnter, RemoteBoxes, RemoteTryLater, RemoteRetry
     DEF RD!Next, RD!RemoteStep, RD!Detected

LEMMA RemoteSafe ==
    ASSUME RemoteBounds, RD!IInv
    PROVE  RD!RemoteTypeOK /\ RD!EmptyMeansLooked /\ RD!RefusalIsReported /\ RD!BillStops
<1>1. (Concurrency - 1) * (Attempts - 1) \in Nat
  BY DEF RemoteBounds
<1> QED
  BY <1>1, FrameSets, CardRemote DEF RD!IInv, RD!WithinTheBill, RD!BillStops

-----------------------------------------------------------------------------
(* DetectionInOrder: on the machine a model is loaded once and a slot is   *)
(* given back whatever way a stage ends; at the remote service an empty    *)
(* driveway is reported only when every frame was looked at, a refusal is  *)
(* what gets reported, and a failure that is known stops the bill.         *)
THEOREM DetectionStaysInOrder == ASSUME JobsApart, RemoteBounds PROVE Spec => []DetectionInOrder
<1> DEFINE Remote == which = "remote detection" => RD!IInv
           Local  == which = "runtime" => RuntimeInv
<1>1. Init => Remote /\ Local
  BY RemoteInit, RuntimeInit DEF Init
<1>2. Remote /\ [Next]_bank => Remote'
  <2> SUFFICES ASSUME Remote, [Next]_bank, which' = "remote detection" PROVE RD!IInv'
    OBVIOUS
  <2>1. which = "remote detection" /\ [RD!Next]_(RD!remoteVars)
    BY DEF Next, bank, RD!remoteVars
  <2> QED
    BY <2>1, RemoteStep
<1>3. Local /\ [Next]_bank => Local'
  <2> SUFFICES ASSUME Local, [Next]_bank, which' = "runtime" PROVE RuntimeInv'
    OBVIOUS
  <2>1. which = "runtime" /\ [VR!Next]_(VR!runtimeVars)
    BY DEF Next, bank, VR!runtimeVars
  <2> QED
    BY <2>1, RuntimeStep
<1>4. Remote /\ Local => DetectionInOrder
  BY RemoteSafe, RuntimeSafe DEF DetectionInOrder
<1> QED
  BY <1>1, <1>2, <1>3, <1>4, PTL DEF Spec

-----------------------------------------------------------------------------
(* Enrolling faces (Faces): s1 is the clock, s2 the store, s3 the faces    *)
(* found, s4 those taken, s5 the rows, s6 the enrol requests, s7 the       *)
(* approve-or-rename request, s8 the edits.                                *)
FaceBounds == FaceCapacity \in Nat /\ FaceTtl \in Nat /\ FaceLimit \in Nat /\ FaceTime \in Nat

LEMMA CardFaces == \A S : FC!Cardinality(S) = Cardinality(S)
BY DEF FC!Cardinality, Cardinality, FC!IsFiniteSet, IsFiniteSet

(* Of a set of numbers, those with fewer than c above them are c at most.  *)
LEMMA TopOfSet ==
    ASSUME NEW S \in SUBSET Nat, IsFiniteSet(S), NEW c \in Nat
    PROVE  Cardinality({f \in S : Cardinality({g \in S : g > f}) < c}) <= c
<1> DEFINE Above(f) == {g \in S : g > f}
           T == {f \in S : Cardinality(Above(f)) < c}
           rank == [f \in T |-> Cardinality(Above(f))]
<1>0. T \subseteq S /\ T \subseteq Nat /\ \A f \in T : Cardinality(Above(f)) < c
  OBVIOUS
<1>1. \A f \in S : IsFiniteSet(Above(f)) /\ Cardinality(Above(f)) \in Nat
  BY FS_Subset, FS_CardinalityType
<1>2. rank \in [T -> 0..(c - 1)]
  <2>1. \A f \in T : Cardinality(Above(f)) \in 0..(c - 1)
    BY <1>0, <1>1
  <2> HIDE DEF T, Above
  <2> QED
    BY <2>1
<1>3. ASSUME NEW f \in T, NEW h \in T, f < h PROVE rank[f] # rank[h]
  <2>0. f \in Nat /\ h \in Nat /\ h \in S /\ f \in S
    BY <1>0
  <2>1. Above(h) \subseteq Above(f) /\ h \in Above(f) /\ h \notin Above(h)
    <3> HIDE DEF T, rank
    <3>1. (\A g \in Nat : g > h => g > f) /\ h > f /\ ~(h > h)
      BY <1>3, <2>0
    <3> QED
      BY <2>0, <3>1
  <2>2. Cardinality(Above(h)) # Cardinality(Above(f))
    BY <1>1, <2>0, <2>1, FS_Subset
  <2> QED
    BY <2>2
<1>4. rank \in Injection(T, 0..(c - 1))
  <2>1. \A f, h \in T : rank[f] = rank[h] => f = h
    <3> SUFFICES ASSUME NEW f \in T, NEW h \in T, rank[f] = rank[h] PROVE f = h
      OBVIOUS
    <3>1. f \in Nat /\ h \in Nat
      OBVIOUS
    <3>2. ~(f < h) /\ ~(h < f)
      BY <1>3
    <3> HIDE DEF T, rank
    <3> QED
      BY <3>1, <3>2
  <2> HIDE DEF T, rank
  <2> QED
    BY <1>2, <2>1 DEF Injection, IsInjective
<1>5. IsFiniteSet(0..(c - 1)) /\ Cardinality(0..(c - 1)) = c
  <2>1. IsFiniteSet(0..(c - 1)) /\ Cardinality(0..(c - 1)) = IF 0 > c - 1 THEN 0 ELSE (c - 1) - 0 + 1
    BY FS_Interval
  <2> QED
    BY <2>1
<1>6. Cardinality(T) <= Cardinality(0..(c - 1))
  <2> HIDE DEF T, rank
  <2> QED
    BY <1>4, <1>5, FS_Injection
<1> QED
  BY <1>5, <1>6

(* The faces a store may hold are finitely many.                           *)
LEMMA FacesFinite ==
    ASSUME NEW n \in Nat, NEW S \in SUBSET (1..n)
    PROVE  /\ IsFiniteSet(S) /\ S \in SUBSET Nat /\ Cardinality(S) \in Nat
           /\ \A f \in 1..n : Cardinality({g \in S : g > f}) <= n - f
<1>1. IsFiniteSet(1..n)
  BY FS_Interval
<1>2. IsFiniteSet(S) /\ Cardinality(S) \in Nat
  BY <1>1, FS_Subset, FS_CardinalityType
<1>3. ASSUME NEW f \in 1..n PROVE Cardinality({g \in S : g > f}) <= n - f
  <2>1. f \in Int /\ f + 1 \in Int /\ n - f \in Nat
    OBVIOUS
  <2>2. /\ IsFiniteSet((f + 1)..n)
        /\ Cardinality((f + 1)..n) = IF f + 1 > n THEN 0 ELSE n - (f + 1) + 1
    BY <2>1, FS_Interval
  <2>3. {g \in S : g > f} \in SUBSET ((f + 1)..n)
    <3>1. \A g \in S : g \in 1..n
      OBVIOUS
    <3>2. \A g \in 1..n : g > f => g \in (f + 1)..n
      BY <2>1
    <3> QED
      BY <3>1, <3>2
  <2>4. Cardinality({g \in S : g > f}) <= Cardinality((f + 1)..n)
    BY <2>2, <2>3, FS_Subset
  <2> QED
    BY <2>1, <2>2, <2>4
<1> QED
  BY <1>2, <1>3

LEMMA FacesInit ==
    ASSUME FaceBounds, FC!Init
    PROVE  FC!IInv
<1>1. FC!Bounded
  BY DEF FC!Init, FC!Bounded, FaceBounds
<1>2. FC!HeldOrTaken
  BY FS_EmptySet, CardFaces DEF FC!Init, FC!HeldOrTaken, FaceBounds
<1>3. FC!Rows /\ FC!RequestsAt /\ FC!OwnFace
  BY DEF FC!Init, FC!Rows, FC!RequestsAt, FC!OwnFace, FC!Inserts, FC!Idle, FC!NoPatch, FC!None
<1>4. FC!EnrolledOnce /\ FC!FreshFacesStay
  BY DEF FC!Init, FC!EnrolledOnce, FC!FreshFacesStay
<1> QED
  BY <1>1, <1>2, <1>3, <1>4 DEF FC!IInv

(* A store loses what is past its time and what is taken, nothing else.    *)
LEMMA StoreShrinks ==
    ASSUME FaceBounds, FC!IInv, s1' = s1, s3' = s3, s2' \subseteq FC!Expire(s2), s4 \subseteq s4',
           FC!Expire(s2) \ s2' \subseteq s4', s4' \subseteq DOMAIN s3, s2' \cap s4' = {}
    PROVE  FC!Bounded' /\ FC!HeldOrTaken' /\ FC!FreshFacesStay'
<1> USE DEF FC!IInv
<1>1. FC!Bounded'
  BY DEF FC!Bounded
<1>2. FC!HeldOrTaken'
  <2>1. s2' \subseteq s2 /\ s2 \subseteq 1..Len(s3) /\ Len(s3) \in Nat
    BY DEF FC!Expire, FC!HeldOrTaken, FC!Bounded
  <2>2. IsFiniteSet(s2) /\ Cardinality(s2) \in Nat
    BY <2>1, FacesFinite
  <2>3. IsFiniteSet(s2') /\ Cardinality(s2') <= Cardinality(s2) /\ Cardinality(s2') \in Nat
    BY <2>1, <2>2, FS_Subset, FS_CardinalityType
  <2>4. Cardinality(s2) <= FaceCapacity
    BY CardFaces DEF FC!HeldOrTaken
  <2>5. FC!Cardinality(s2') <= FaceCapacity
    BY <2>2, <2>3, <2>4, CardFaces DEF FaceBounds
  <2> QED
    BY <2>1, <2>5 DEF FC!HeldOrTaken
<1>3. FC!FreshFacesStay'
  BY DEF FC!FreshFacesStay, FC!Expire
<1> QED
  BY <1>1, <1>2, <1>3

LEMMA FacesTick ==
    ASSUME FaceBounds, FC!IInv, FC!Tick
    PROVE  FC!IInv'
<1> USE DEF FC!IInv, FC!Tick
<1>1. FC!Bounded'
  BY DEF FC!Bounded, FaceBounds
<1>2. FC!HeldOrTaken' /\ FC!Rows' /\ FC!RequestsAt' /\ FC!OwnFace' /\ FC!EnrolledOnce'
  BY DEF FC!HeldOrTaken, FC!Rows, FC!RequestsAt, FC!OwnFace, FC!Inserts, FC!EnrolledOnce
<1>3. FC!FreshFacesStay'
  <2> SUFFICES ASSUME NEW f \in DOMAIN s3', s3'[f] >= s1' - FaceTtl, f \notin s4',
                      Len(s3') - f < FaceCapacity
               PROVE  f \in s2'
    BY DEF FC!FreshFacesStay
  <2>1. s3[f] \in Int /\ s1 \in Int
    BY DEF FC!Bounded, FaceBounds
  <2>2. s3[f] >= s1 - FaceTtl
    BY <2>1 DEF FaceBounds
  <2> QED
    BY <2>2 DEF FC!FreshFacesStay
<1> QED
  BY <1>1, <1>2, <1>3

(* A scan's faces come after all the others.                               *)
LEMMA FacesOffer ==
    ASSUME FaceBounds, FC!IInv, NEW k \in 1..2, FC!Offer(k)
    PROVE  FC!IInv'
<1> DEFINE n == Len(s3)
           new == {n + i : i \in 1..k}
           S == FC!Expire(s2) \cup new
<1> USE DEF FC!IInv
<1>0. /\ s1' = s1 /\ s4' = s4 /\ s5' = s5 /\ s6' = s6 /\ s7' = s7 /\ s8' = s8
      /\ s3' = s3 \o [i \in 1..k |-> s1] /\ s2' = FC!Evict(S) /\ n + k <= FaceLimit
  BY DEF FC!Offer
<1>1. /\ s3' \in Seq(0..FaceTime) /\ Len(s3') = n + k /\ n \in Nat
      /\ \A i \in 1..n : s3'[i] = s3[i]
      /\ DOMAIN s3 = 1..n /\ DOMAIN s3' = 1..(n + k)
  <2>1. [i \in 1..k |-> s1] \in Seq(0..FaceTime) /\ Len([i \in 1..k |-> s1]) = k
    BY DEF FC!Bounded
  <2> QED
    BY <1>0, <2>1, ConcatProperties DEF FC!Bounded
<1>2. FC!Bounded'
  BY <1>0, <1>1 DEF FC!Bounded
<1>3. S \subseteq 1..(n + k)
  BY <1>1 DEF FC!HeldOrTaken, FC!Expire
<1>4. /\ s2' = {f \in S : Cardinality({g \in S : g > f}) < FaceCapacity}
      /\ IsFiniteSet(S) /\ S \in SUBSET Nat
  <2> HIDE DEF S
  <2>1. n + k \in Nat
    BY <1>1
  <2> QED
    BY <1>0, <1>3, <2>1, FacesFinite, CardFaces DEF FC!Evict
<1>5. FC!HeldOrTaken'
  <2>1. Cardinality(s2') <= FaceCapacity
    <3> HIDE DEF S
    <3> QED
      BY <1>4, TopOfSet DEF FaceBounds
  <2>2. s4' \subseteq 1..n /\ 1..n \subseteq 1..(n + k)
    BY <1>0, <1>1 DEF FC!HeldOrTaken
  <2>3. S \cap s4' = {}
    BY <1>0, <1>1, <2>2 DEF FC!HeldOrTaken, FC!Expire
  <2> HIDE DEF S
  <2>4. s2' \subseteq S
    BY <1>4
  <2> QED
    BY <1>1, <1>3, <2>1, <2>2, <2>3, <2>4, CardFaces DEF FC!HeldOrTaken
<1>6. FC!FreshFacesStay'
  <2> SUFFICES ASSUME NEW f \in DOMAIN s3', s3'[f] >= s1' - FaceTtl, f \notin s4',
                      Len(s3') - f < FaceCapacity
               PROVE  f \in s2'
    BY DEF FC!FreshFacesStay
  <2>0. f \in 1..(n + k) /\ s3'[f] >= s1 - FaceTtl /\ f \notin s4 /\ n + k - f < FaceCapacity
    BY <1>0, <1>1
  <2>1. f \in S
    <3>1. CASE f \in 1..n
      <4>1. s3[f] >= s1 - FaceTtl /\ n - f < FaceCapacity
        BY <1>1, <2>0, <3>1 DEF FaceBounds
      <4> QED
        BY <1>1, <2>0, <3>1, <4>1 DEF FC!FreshFacesStay, FC!Expire
    <3>2. CASE f \notin 1..n
      <4>1. f - n \in 1..k /\ f = n + (f - n)
        BY <1>1, <2>0, <3>2
      <4> QED
        BY <4>1
    <3> QED
      BY <3>1, <3>2
  <2> HIDE DEF S
  <2>2. Cardinality({g \in S : g > f}) <= n + k - f
    <3>1. n + k \in Nat
      BY <1>1
    <3> QED
      <4>1. \A g \in 1..(n + k) : Cardinality({h \in S : h > g}) <= n + k - g
        BY <1>3, <3>1, FacesFinite
      <4> QED
        BY <2>0, <4>1
  <2>3. Cardinality({g \in S : g > f}) \in Nat
    BY <1>4, FS_Subset, FS_CardinalityType
  <2>4. Cardinality({g \in S : g > f}) < FaceCapacity
    BY <1>1, <2>0, <2>2, <2>3 DEF FaceBounds
  <2> QED
    BY <1>4, <2>1, <2>4
<1>7. FC!Rows' /\ FC!RequestsAt' /\ FC!OwnFace' /\ FC!EnrolledOnce'
  BY <1>0 DEF FC!Rows, FC!RequestsAt, FC!OwnFace, FC!Inserts, FC!EnrolledOnce
<1> QED
  BY <1>2, <1>5, <1>6, <1>7

(* The store is left alone.                                                *)
LEMMA StoreRests ==
    ASSUME FC!IInv, s1' = s1, s2' = s2, s3' = s3, s4' = s4
    PROVE  FC!Bounded' /\ FC!HeldOrTaken' /\ FC!FreshFacesStay'
BY DEF FC!IInv, FC!Bounded, FC!HeldOrTaken, FC!FreshFacesStay

(* A request goes a step on, with no face in hand.                         *)
LEMMA RequestMoves ==
    ASSUME FC!IInv, NEW r \in FC!Requests, NEW e, FC!Set(r, e),
           e \in [at : {FC!None, "reads", "takes", "answered"}, name : People \cup {FC!None},
                  approved : BOOLEAN, ids : SUBSET Nat, face : Nat],
           e.at \in {"reads", "takes"} => e.name \in People,
           s4 \subseteq s4', s5' = s5, s7' = s7
    PROVE  FC!Rows' /\ FC!RequestsAt' /\ FC!OwnFace' /\ FC!EnrolledOnce'
<1> USE DEF FC!IInv
<1>1. /\ s6' \in [FC!Requests -> [at : {FC!None, "reads", "takes", "inserts", "answered"},
                                   name : People \cup {FC!None}, approved : BOOLEAN,
                                   ids : SUBSET Nat, face : Nat]]
      /\ s6'[r] = e /\ \A q \in FC!Requests \ {r} : s6'[q] = s6[q]
  BY DEF FC!Set, FC!RequestsAt
<1>2. FC!RequestsAt'
  <2>1. ASSUME NEW q \in FC!Requests, s6'[q].at \in {"reads", "takes", "inserts"}
        PROVE  s6'[q].name \in People
    <3>1. CASE q = r
      BY <1>1, <2>1, <3>1 DEF FC!None
    <3>2. CASE q # r
      BY <1>1, <2>1, <3>2 DEF FC!RequestsAt
    <3> QED
      BY <3>1, <3>2
  <2> QED
    BY <1>1, <2>1 DEF FC!RequestsAt
<1>3. \A q \in FC!Requests : FC!Inserts(q)' => q # r /\ FC!Inserts(q)
  BY <1>1 DEF FC!Inserts, FC!None
<1>4. FC!OwnFace'
  BY <1>1, <1>3 DEF FC!OwnFace
<1>5. FC!Rows' /\ FC!EnrolledOnce'
  BY DEF FC!Rows, FC!EnrolledOnce
<1> QED
  BY <1>2, <1>4, <1>5

LEMMA FacesEnrol ==
    ASSUME FaceBounds, FC!IInv, NEW r \in FC!Requests, FC!Enrol(r)
    PROVE  FC!IInv'
<1> USE DEF FC!IInv
<1>1. PICK name \in People, choice \in BOOLEAN, ids \in SUBSET (DOMAIN s3) :
         FC!Set(r, [FC!Idle EXCEPT !.at = "reads", !.name = name, !.approved = choice, !.ids = ids])
  BY DEF FC!Enrol
<1> DEFINE e == [FC!Idle EXCEPT !.at = "reads", !.name = name, !.approved = choice, !.ids = ids]
<1>2. ids \in SUBSET Nat
  BY DEF FC!Bounded
<1>3. /\ e \in [at : {FC!None, "reads", "takes", "answered"}, name : People \cup {FC!None},
                approved : BOOLEAN, ids : SUBSET Nat, face : Nat]
      /\ e.at = "reads" /\ e.name \in People
  BY <1>2 DEF FC!Idle
<1> HIDE DEF e
<1>4. /\ FC!Set(r, e) /\ s1' = s1 /\ s2' = s2 /\ s3' = s3 /\ s4' = s4 /\ s5' = s5 /\ s7' = s7
  BY <1>1 DEF e, FC!Enrol
<1> QED
  BY <1>3, <1>4, RequestMoves, StoreRests

LEMMA FacesRead ==
    ASSUME FaceBounds, FC!IInv, NEW r \in FC!Requests, FC!ReadsApproval(r)
    PROVE  FC!IInv'
<1> DEFINE yes == FC!Approval(s6[r].name, s6[r].approved)
           e == [s6[r] EXCEPT !.at = "takes", !.approved = yes]
<1> USE DEF FC!IInv
<1>1. s6[r] \in [at : {FC!None, "reads", "takes", "inserts", "answered"}, name : People \cup {FC!None},
                 approved : BOOLEAN, ids : SUBSET Nat, face : Nat]
      /\ s6[r].name \in People
  BY DEF FC!RequestsAt, FC!ReadsApproval, FC!Step
<1>2. yes \in BOOLEAN
  BY <1>1 DEF FC!Approval
<1>3. /\ FC!Set(r, e) /\ s1' = s1 /\ s2' = s2 /\ s3' = s3 /\ s4' = s4 /\ s5' = s5 /\ s7' = s7
  BY DEF FC!ReadsApproval
<1> HIDE DEF yes
<1>4. /\ e \in [at : {FC!None, "reads", "takes", "answered"}, name : People \cup {FC!None},
                approved : BOOLEAN, ids : SUBSET Nat, face : Nat]
      /\ e.name \in People
  BY <1>1, <1>2
<1> HIDE DEF e
<1> QED
  BY <1>3, <1>4, RequestMoves, StoreRests

(* A face leaves the store and is the request's own.                       *)
LEMMA FacesTake ==
    ASSUME FaceBounds, FC!IInv, NEW r \in FC!Requests, FC!Take(r)
    PROVE  FC!IInv'
<1> USE DEF FC!IInv
<1>0. /\ s6[r].at = "takes" /\ s1' = s1 /\ s3' = s3 /\ s5' = s5 /\ s7' = s7
      /\ s6[r] \in [at : {FC!None, "reads", "takes", "inserts", "answered"}, name : People \cup {FC!None},
                    approved : BOOLEAN, ids : SUBSET Nat, face : Nat]
      /\ s6[r].name \in People /\ s4 \subseteq DOMAIN s3 /\ DOMAIN s3 \subseteq Nat
      /\ FC!Expire(s2) \subseteq s2 /\ s2 \subseteq DOMAIN s3 /\ s2 \cap s4 = {}
  BY DEF FC!Take, FC!Step, FC!RequestsAt, FC!HeldOrTaken, FC!Bounded, FC!Expire
<1>1. ASSUME NEW f \in s6[r].ids \cap FC!Expire(s2), FC!Taken(r, f) PROVE FC!IInv'
  <2> DEFINE e == [s6[r] EXCEPT !.at = "inserts", !.ids = @ \ {f}, !.face = f]
  <2>1. s2' = FC!Expire(s2) \ {f} /\ s4' = s4 \cup {f} /\ FC!Set(r, e) /\ f \notin s4 /\ f \in Nat
    BY <1>0, <1>1 DEF FC!Taken
  <2>2. FC!Bounded' /\ FC!HeldOrTaken' /\ FC!FreshFacesStay'
    BY <1>0, <2>1, StoreShrinks
  <2>3. /\ e \in [at : {"inserts"}, name : People, approved : BOOLEAN, ids : SUBSET Nat, face : Nat]
        /\ e.face = f
    BY <1>0, <2>1
  <2> HIDE DEF e
  <2>4. /\ s6' \in [FC!Requests -> [at : {FC!None, "reads", "takes", "inserts", "answered"},
                                     name : People \cup {FC!None}, approved : BOOLEAN,
                                     ids : SUBSET Nat, face : Nat]]
        /\ s6'[r] = e /\ \A q \in FC!Requests \ {r} : s6'[q] = s6[q]
    BY <2>1, <2>3 DEF FC!Set, FC!RequestsAt
  <2>5. FC!RequestsAt'
    <3>1. ASSUME NEW q \in FC!Requests, s6'[q].at \in {"reads", "takes", "inserts"}
          PROVE  s6'[q].name \in People
      <4>1. CASE q = r
        BY <2>3, <2>4, <4>1
      <4>2. CASE q # r
        BY <2>4, <3>1, <4>2 DEF FC!RequestsAt
      <4> QED
        BY <4>1, <4>2
    <3> QED
      BY <1>0, <2>4, <3>1 DEF FC!RequestsAt
  <2>6. FC!OwnFace'
    <3>1. \A q \in FC!Requests \ {r} : FC!Inserts(q)' => FC!Inserts(q) /\ s6[q].face \in s4 /\ s6'[q].face = s6[q].face
      BY <2>4 DEF FC!Inserts, FC!OwnFace
    <3>2. \A p \in s5 : p.face \in s4
      BY DEF FC!Rows
    <3>3. s6'[r].face = f /\ f \in s4' /\ f \notin s4
      BY <2>1, <2>3, <2>4
    <3>4. ASSUME NEW q \in FC!Requests \ {r}, FC!Inserts(q)'
          PROVE  /\ s6'[q].face \in s4' /\ \A p \in s5 : p.face # s6'[q].face
                 /\ \A t \in FC!Requests : FC!Inserts(t)' /\ s6'[t].face = s6'[q].face => t = q
      BY <2>1, <3>1, <3>3, <3>4 DEF FC!OwnFace
    <3>5. /\ \A p \in s5 : p.face # s6'[r].face
          /\ \A t \in FC!Requests : FC!Inserts(t)' /\ s6'[t].face = s6'[r].face => t = r
      BY <3>1, <3>2, <3>3
    <3> QED
      BY <1>0, <3>3, <3>4, <3>5 DEF FC!OwnFace
  <2>7. FC!Rows' /\ FC!EnrolledOnce'
    BY <1>0, <2>1 DEF FC!Rows, FC!EnrolledOnce
  <2> QED
    BY <2>2, <2>5, <2>6, <2>7
<1>2. ASSUME s2' = FC!Expire(s2), s4' = s4, FC!Set(r, FC!Answered) PROVE FC!IInv'
  <2>1. FC!Bounded' /\ FC!HeldOrTaken' /\ FC!FreshFacesStay'
    BY <1>0, <1>2, StoreShrinks
  <2>2. /\ FC!Answered \in [at : {FC!None, "reads", "takes", "answered"}, name : People \cup {FC!None},
                            approved : BOOLEAN, ids : SUBSET Nat, face : Nat]
        /\ FC!Answered.at = "answered"
    BY DEF FC!Answered, FC!Idle
  <2> QED
    BY <1>0, <1>2, <2>1, <2>2, RequestMoves
<1> QED
  BY <1>1, <1>2 DEF FC!Take

(* The row of the face in hand; no other row has it.                       *)
LEMMA FacesInsert ==
    ASSUME FaceBounds, FC!IInv, NEW r \in FC!Requests, FC!Insert(r)
    PROVE  FC!IInv'
<1> DEFINE row == [id |-> FC!Cardinality(s5) + 1, face |-> s6[r].face, name |-> s6[r].name,
                   approved |-> s6[r].approved]
           e == [s6[r] EXCEPT !.at = "takes", !.face = 0]
<1> USE DEF FC!IInv
<1>0. /\ s6[r].at = "inserts" /\ s1' = s1 /\ s2' = s2 /\ s3' = s3 /\ s4' = s4 /\ s7' = s7
      /\ s5' = s5 \cup {row} /\ FC!Set(r, e)
      /\ s6[r] \in [at : {FC!None, "reads", "takes", "inserts", "answered"}, name : People \cup {FC!None},
                    approved : BOOLEAN, ids : SUBSET Nat, face : Nat]
      /\ s6[r].name \in People
  BY DEF FC!Insert, FC!Step, FC!RequestsAt
<1>1. FC!Bounded' /\ FC!HeldOrTaken' /\ FC!FreshFacesStay'
  BY <1>0, StoreRests
<1>2. /\ FC!Row(row)
      /\ row.face = s6[r].face /\ row.name \in People
  BY <1>0 DEF FC!Row
<1>3. s6[r].face \in s4 /\ \A p \in s5 : p.face # s6[r].face
  BY <1>0 DEF FC!OwnFace, FC!Inserts
<1>4. e \in [at : {"takes"}, name : People, approved : BOOLEAN, ids : SUBSET Nat, face : Nat]
  BY <1>0
<1> HIDE DEF row, e
<1>5. FC!Rows'
  BY <1>0, <1>2, <1>3 DEF FC!Rows
<1>6. FC!EnrolledOnce'
  BY <1>0, <1>2, <1>3 DEF FC!EnrolledOnce
<1>7. /\ s6' \in [FC!Requests -> [at : {FC!None, "reads", "takes", "inserts", "answered"},
                                   name : People \cup {FC!None}, approved : BOOLEAN,
                                   ids : SUBSET Nat, face : Nat]]
      /\ s6'[r] = e /\ \A q \in FC!Requests \ {r} : s6'[q] = s6[q]
  BY <1>0, <1>4 DEF FC!Set, FC!RequestsAt
<1>8. FC!RequestsAt'
  <2>1. ASSUME NEW q \in FC!Requests, s6'[q].at \in {"reads", "takes", "inserts"}
        PROVE  s6'[q].name \in People
    <3>1. CASE q = r
      BY <1>4, <1>7, <3>1
    <3>2. CASE q # r
      BY <1>7, <2>1, <3>2 DEF FC!RequestsAt
    <3> QED
      BY <3>1, <3>2
  <2> QED
    BY <1>0, <1>7, <2>1 DEF FC!RequestsAt
<1>9. FC!OwnFace'
  <2>1. \A q \in FC!Requests : FC!Inserts(q)' => q # r /\ FC!Inserts(q) /\ s6'[q] = s6[q]
    BY <1>4, <1>7 DEF FC!Inserts
  <2>2. \A q \in FC!Requests \ {r} : FC!Inserts(q) => s6[q].face # s6[r].face
    BY <1>0 DEF FC!OwnFace, FC!Inserts
  <2> QED
    BY <1>0, <1>2, <2>1, <2>2 DEF FC!OwnFace
<1> QED
  BY <1>1, <1>5, <1>6, <1>8, <1>9

(* Approving, renaming and deleting write the rows they find anew, each    *)
(* with the face it had.                                                   *)
LEMMA RowsRewritten ==
    ASSUME FC!IInv, s1' = s1, s2' = s2, s3' = s3, s4' = s4, s6' = s6,
           NEW anew, s5' = {anew[p] : p \in s5},
           \A p \in s5 : /\ FC!Row(anew[p])
                         /\ anew[p].face = p.face /\ anew[p].name \in People \cup {"gone"},
           s7' \in [at : {FC!None, "approves", "renames"}, name : People \cup {FC!None},
                    new : People \cup {FC!None}, choice : {"yes", "no", FC!None}],
           s7'.at = "renames" => s7'.new \in People
    PROVE  FC!IInv'
<1> USE DEF FC!IInv
<1>1. FC!Bounded' /\ FC!HeldOrTaken' /\ FC!FreshFacesStay'
  BY StoreRests
<1>2. \A q \in s5' : \E p \in s5 : q = anew[p]
  OBVIOUS
<1>3. FC!Rows'
  BY <1>2 DEF FC!Rows
<1>4. FC!EnrolledOnce'
  <2> SUFFICES ASSUME NEW q \in s5', NEW r \in s5', q.face = r.face PROVE q = r
    BY DEF FC!EnrolledOnce
  <2>1. PICK p \in s5 : q = anew[p]
    BY <1>2
  <2>2. PICK o \in s5 : r = anew[o]
    BY <1>2
  <2>3. p = o
    BY <2>1, <2>2 DEF FC!EnrolledOnce
  <2> QED
    BY <2>1, <2>2, <2>3
<1>5. FC!OwnFace'
  <2> SUFFICES ASSUME NEW r \in FC!Requests, FC!Inserts(r)
               PROVE  /\ s6[r].face \in s4
                      /\ \A q \in s5' : q.face # s6[r].face
                      /\ \A q \in FC!Requests : FC!Inserts(q) /\ s6[q].face = s6[r].face => q = r
    BY DEF FC!OwnFace, FC!Inserts
  <2> QED
    BY <1>2 DEF FC!OwnFace
<1>6. FC!RequestsAt'
  BY DEF FC!RequestsAt
<1> QED
  BY <1>1, <1>3, <1>4, <1>5, <1>6

LEMMA FacesEdit ==
    ASSUME FaceBounds, FC!IInv, FC!PatchApproves \/ FC!PatchRenames \/ FC!Delete
    PROVE  FC!IInv'
<1> USE DEF FC!IInv
<1>0. /\ s1' = s1 /\ s2' = s2 /\ s3' = s3 /\ s4' = s4 /\ s6' = s6
  BY DEF FC!PatchApproves, FC!PatchRenames, FC!Delete
<1>1. \A p \in s5 : /\ FC!Row(p)
                    /\ p.name \in People \cup {"gone"}
  BY DEF FC!Rows
<1>2. /\ s7 \in [at : {FC!None, "approves", "renames"}, name : People \cup {FC!None},
                  new : People \cup {FC!None}, choice : {"yes", "no", FC!None}]
      /\ s7.at = "renames" => s7.new \in People
  BY DEF FC!RequestsAt
<1>3. /\ FC!NoPatch \in [at : {FC!None, "approves", "renames"}, name : People \cup {FC!None},
                          new : People \cup {FC!None}, choice : {"yes", "no", FC!None}]
      /\ FC!NoPatch.at # "renames"
  BY DEF FC!NoPatch, FC!None
<1>4. CASE FC!PatchApproves
  <2> DEFINE anew == [p \in s5 |-> [p EXCEPT !.approved = IF p.name = s7.name THEN s7.choice = "yes" ELSE @]]
  <2>1. s5' = {anew[p] : p \in s5}
    BY <1>4 DEF FC!PatchApproves
  <2>2. \A p \in s5 : /\ FC!Row(anew[p])
                      /\ anew[p].face = p.face /\ anew[p].name \in People \cup {"gone"}
    BY <1>1 DEF FC!Row
  <2>3. /\ s7' \in [at : {FC!None, "approves", "renames"}, name : People \cup {FC!None},
                     new : People \cup {FC!None}, choice : {"yes", "no", FC!None}]
        /\ s7'.at = "renames" => s7'.new \in People
    <3>1. CASE s7.new = FC!None
      BY <1>3, <1>4, <3>1 DEF FC!PatchApproves
    <3>2. CASE s7.new # FC!None
      <4>1. s7' = [s7 EXCEPT !.at = "renames"]
        BY <1>4, <3>2 DEF FC!PatchApproves
      <4> QED
        BY <1>2, <3>2, <4>1
    <3> QED
      BY <3>1, <3>2
  <2> HIDE DEF anew
  <2> QED
    BY <1>0, <2>1, <2>2, <2>3, RowsRewritten
<1>5. CASE FC!PatchRenames
  <2> DEFINE anew == [p \in s5 |-> [p EXCEPT !.name = IF @ = s7.name THEN s7.new ELSE @]]
  <2>1. s5' = {anew[p] : p \in s5} /\ s7' = FC!NoPatch
    BY <1>5 DEF FC!PatchRenames
  <2>2. \A p \in s5 : /\ FC!Row(anew[p])
                      /\ anew[p].face = p.face /\ anew[p].name \in People \cup {"gone"}
    BY <1>1, <1>2, <1>5 DEF FC!PatchRenames, FC!Row
  <2> HIDE DEF anew
  <2> QED
    BY <1>0, <1>3, <2>1, <2>2, RowsRewritten
<1>6. ASSUME NEW name \in People, s7' = s7,
             s5' = {[p EXCEPT !.name = IF @ = name THEN "gone" ELSE @] : p \in s5}
      PROVE  FC!IInv'
  <2> DEFINE anew == [p \in s5 |-> [p EXCEPT !.name = IF @ = name THEN "gone" ELSE @]]
  <2>1. s5' = {anew[p] : p \in s5}
    BY <1>6
  <2>2. \A p \in s5 : /\ FC!Row(anew[p])
                      /\ anew[p].face = p.face /\ anew[p].name \in People \cup {"gone"}
    BY <1>1 DEF FC!Row
  <2> HIDE DEF anew
  <2> QED
    BY <1>0, <1>2, <1>6, <2>1, <2>2, RowsRewritten
<1>7. ASSUME NEW q \in s5, s7' = s7,
             s5' = {[p EXCEPT !.name = IF p = q THEN "gone" ELSE @] : p \in s5}
      PROVE  FC!IInv'
  <2> DEFINE anew == [p \in s5 |-> [p EXCEPT !.name = IF p = q THEN "gone" ELSE @]]
  <2>1. s5' = {anew[p] : p \in s5}
    BY <1>7
  <2>2. \A p \in s5 : /\ FC!Row(anew[p])
                      /\ anew[p].face = p.face /\ anew[p].name \in People \cup {"gone"}
    BY <1>1 DEF FC!Row
  <2> HIDE DEF anew
  <2> QED
    BY <1>0, <1>2, <1>7, <2>1, <2>2, RowsRewritten
<1> QED
  BY <1>4, <1>5, <1>6, <1>7 DEF FC!Delete

LEMMA FacesPatch ==
    ASSUME FaceBounds, FC!IInv, FC!Patch
    PROVE  FC!IInv'
<1> USE DEF FC!IInv
<1>0. /\ s1' = s1 /\ s2' = s2 /\ s3' = s3 /\ s4' = s4 /\ s5' = s5 /\ s6' = s6
  BY DEF FC!Patch
<1>1. PICK name \in People, new \in People \cup {FC!None}, choice \in {"yes", "no", FC!None} :
        /\ new # FC!None \/ choice # FC!None
        /\ s7' = [at |-> IF choice = FC!None THEN "renames" ELSE "approves",
                  name |-> name, new |-> new, choice |-> choice]
  BY DEF FC!Patch
<1>2. FC!RequestsAt'
  BY <1>0, <1>1 DEF FC!RequestsAt
<1>3. FC!Rows' /\ FC!OwnFace' /\ FC!EnrolledOnce'
  BY <1>0 DEF FC!Rows, FC!OwnFace, FC!Inserts, FC!EnrolledOnce
<1> QED
  BY <1>0, <1>2, <1>3, StoreRests

LEMMA FacesStep ==
    ASSUME FaceBounds, FC!IInv, [FC!Next]_(FC!vars)
    PROVE  FC!IInv'
<1>1. CASE UNCHANGED FC!vars
  BY <1>1, StoreRests DEF FC!vars, FC!IInv, FC!Rows, FC!OwnFace, FC!Inserts, FC!EnrolledOnce, FC!RequestsAt
<1> QED
  BY <1>1, FacesTick, FacesOffer, FacesEnrol, FacesRead, FacesTake, FacesInsert, FacesPatch, FacesEdit
     DEF FC!Next

(* EnrolmentInOrder: a face is enrolled once, however requests overlap,    *)
(* and a face a scan has shown can be picked while it is fresh and no full *)
(* store of later ones has pushed it out.                                  *)
THEOREM EnrolmentStaysInOrder == ASSUME FaceBounds PROVE Spec => []EnrolmentInOrder
<1> DEFINE Good == which = "faces" => FC!IInv
<1>1. Init => Good
  BY FacesInit DEF Init
<1>2. Good /\ [Next]_bank => Good'
  <2> SUFFICES ASSUME Good, [Next]_bank, which' = "faces" PROVE FC!IInv'
    OBVIOUS
  <2>1. which = "faces" /\ [FC!Next]_(FC!vars)
    BY DEF Next, bank, FC!vars
  <2> QED
    BY <2>1, FacesStep
<1>3. Good => EnrolmentInOrder
  BY DEF EnrolmentInOrder, FC!IInv, FC!Bounded, FC!HeldOrTaken, FC!Rows, FC!FacesTypeOK
<1> QED
  BY <1>1, <1>2, <1>3, PTL DEF Spec

-----------------------------------------------------------------------------
(* The merge of a backup (RestoreMerge): s1 is the backup's files, s2 the  *)
(* rows, s3 what belongs to them, s4 the next number of an analysis, s5    *)
(* the transaction, s6 the stand-ins marked too late, s7 a race for a file.*)
MergeBounds ==
    /\ MergedClips \in Nat /\ MergeBatch \in Nat \ {0}
    /\ "none" \notin MergePaths /\ MergeAnalysed \subseteq 1..MergedClips

LEMMA CardMerge == \A S : RM!Cardinality(S) = Cardinality(S)
BY DEF RM!Cardinality, Cardinality, RM!IsFiniteSet, IsFiniteSet

LEMMA MergeIds ==
    ASSUME MergeBounds
    PROVE  /\ RM!BackupIds \subseteq Nat /\ RM!BackupIds \subseteq RM!Ids
           /\ RM!Scan \in RM!Ids \ RM!BackupIds
           /\ IsFiniteSet(RM!Ids) /\ IsFiniteSet(RM!BackupIds)
           /\ MergeAnalysed \subseteq RM!BackupIds /\ 0 \notin RM!BackupIds
<1>1. IsFiniteSet(1..MergedClips) /\ IsFiniteSet(1..(MergedClips + 2))
  BY FS_Interval DEF MergeBounds
<1>2. RM!Ids \subseteq 1..(MergedClips + 2)
  BY DEF MergeBounds, RM!Ids, RM!BackupIds, RM!Scan, RM!Own
<1>3. IsFiniteSet(RM!Ids)
  BY <1>1, <1>2, FS_Subset
<1> QED
  BY <1>1, <1>3 DEF MergeBounds, RM!Ids, RM!BackupIds, RM!Scan, RM!Own

LEMMA AtMostOne ==
    ASSUME NEW S, IsFiniteSet(S)
    PROVE  Cardinality(S) <= 1 <=> (\A g, h \in S : g = h)
<1>1. Cardinality(S) \in Nat
  BY FS_CardinalityType
<1>2. ASSUME Cardinality(S) <= 1, NEW g \in S, NEW h \in S PROVE g = h
  BY <1>1, <1>2, FS_EmptySet, FS_Singleton
<1>3. ASSUME \A g, h \in S : g = h PROVE Cardinality(S) <= 1
  <2>1. CASE S = {}
    BY <2>1, FS_EmptySet
  <2>2. CASE S # {}
    <3>1. PICK g \in S : TRUE
      BY <2>2
    <3>2. S = {g}
      BY <1>3, <3>1
    <3> QED
      BY <3>2, FS_Singleton
  <2> QED
    BY <2>1, <2>2
<1> QED
  BY <1>2, <1>3

(* The rows of a library in which A was added and R removed.               *)
LEMMA RowsSeen ==
    ASSUME MergeBounds, RM!MergeShape, NEW p \in MergePaths, NEW h
    PROVE  h \in RM!At(RM!Seen, p) <=>
              \/ h \in s5.added /\ s1[h] = p
              \/ h \in RM!Ids /\ h \notin s5.added /\ h \notin s5.removed /\ s2[h].path = p
BY MergeIds DEF MergeBounds, RM!MergeShape, RM!At, RM!Seen, RM!Row, RM!Absent

LEMMA RowsSeenNext ==
    ASSUME MergeBounds, RM!MergeShape', NEW p \in MergePaths, NEW h
    PROVE  h \in RM!At(RM!Seen, p)' <=>
              \/ h \in s5'.added /\ s1'[h] = p
              \/ h \in RM!Ids /\ h \notin s5'.added /\ h \notin s5'.removed /\ s2'[h].path = p
BY MergeIds DEF MergeBounds, RM!MergeShape, RM!At, RM!Seen, RM!Row, RM!Absent

LEMMA MergeInit == ASSUME MergeBounds, RM!Init PROVE RM!IInv
<1>1. /\ s1 \in [RM!BackupIds -> MergePaths]
      /\ s2 \in [RM!Ids -> {RM!Absent} \cup {RM!Row(p, "here") : p \in MergePaths}]
      /\ s3 = {} /\ s4 = 2 /\ s5 = RM!NoTxn /\ s6 = {} /\ s7 = FALSE
  BY DEF RM!Init
<1>2. RM!MergeShape
  <2>1. \A p \in MergePaths :
           RM!Row(p, "here") \in [path : MergePaths \cup {"none"}, by : {"nobody", "here", "backup"}, marked : BOOLEAN]
    BY DEF RM!Row
  <2>2. RM!Absent \in [path : MergePaths \cup {"none"}, by : {"nobody", "here", "backup"}, marked : BOOLEAN]
    BY DEF RM!Absent
  <2>3. s2 \in [RM!Ids -> [path : MergePaths \cup {"none"}, by : {"nobody", "here", "backup"}, marked : BOOLEAN]]
    BY <1>1, <2>1, <2>2
  <2> QED
    BY <1>1, <2>3 DEF RM!MergeShape, RM!NoTxn
<1>3. \A p \in MergePaths : \A g, h \in RM!At(s2, p) : g = h
  <2> TAKE p \in MergePaths
  <2>1. Cardinality(RM!At(s2, p)) <= 1
    BY CardMerge DEF RM!Init
  <2>2. IsFiniteSet(RM!At(s2, p))
    BY MergeIds, FS_Subset DEF RM!At
  <2> QED
    BY <2>1, <2>2, AtMostOne
<1>4. RM!Seen = s2
  BY <1>1 DEF RM!Seen, RM!NoTxn
<1>5. RM!OneHolder
  BY <1>3, <1>4 DEF RM!OneHolder
<1>6. RM!MergeTypeOK
  BY <1>1 DEF RM!MergeTypeOK, RM!Row, RM!Absent
<1> QED
  BY <1>1, <1>2, <1>5, <1>6 DEF RM!IInv, RM!ChildrenFollow, RM!OnlyWhileActive, RM!OwnAreNew, RM!MarkedWereClaimed,
    RM!StoredAlone, RM!KidsOfAdded, RM!KidsAreCommitted, RM!NoTxn

(* A step of the restore itself changes no committed row.                  *)
LEMMA RestoreMoves ==
    ASSUME MergeBounds, RM!IInv, UNCHANGED <<s1, s2, s3, s6, s7>>, s4' \in Nat, s5.pc # "done",
           DOMAIN s5' = DOMAIN RM!NoTxn,
           s5'.pc \in {"unseen", "claim", "store", "children", "feedback", "commit"},
           s5'.unseen \subseteq RM!BackupIds, s5'.wanted \subseteq RM!BackupIds,
           s5'.added \subseteq RM!BackupIds, s5'.claimed \subseteq MergePaths,
           s5'.standins \subseteq {RM!Scan}, s5'.removed \subseteq {RM!Scan},
           RM!OwnAreNew', RM!MarkedWereClaimed', RM!OneHolder', RM!StoredAlone', RM!KidsOfAdded'
    PROVE  RM!IInv'
BY DEF RM!IInv, RM!MergeShape, RM!MergeTypeOK, RM!ChildrenFollow, RM!OnlyWhileActive, RM!Active, RM!KidsAreCommitted,
    RM!NoTxn

LEMMA MergeDomain ==
    DOMAIN RM!NoTxn = {"pc", "batch", "unseen", "wanted", "standins", "removed", "claimed", "added", "number", "kids"}
BY DEF RM!NoTxn

(* A step that leaves what was added, removed and claimed as it is.        *)
LEMMA RestoreRests ==
    ASSUME MergeBounds, RM!IInv, UNCHANGED <<s1, s2, s3, s6, s7>>, s4' \in Nat, s5.pc # "done",
           DOMAIN s5' = DOMAIN RM!NoTxn,
           s5'.pc \in {"unseen", "claim", "children", "feedback", "commit"},
           s5'.unseen \subseteq RM!BackupIds,
           s5'.wanted = s5.wanted, s5'.added = s5.added, s5'.claimed = s5.claimed,
           s5'.standins = s5.standins, s5'.removed = s5.removed, RM!KidsOfAdded'
    PROVE  RM!IInv'
<1>1. RM!OwnAreNew' /\ RM!MarkedWereClaimed' /\ RM!StoredAlone'
  BY DEF RM!IInv, RM!OwnAreNew, RM!MarkedWereClaimed, RM!StoredAlone, RM!Present
<1>2. RM!Seen' = RM!Seen
  BY DEF RM!Seen
<1>3. RM!OneHolder'
  BY <1>2 DEF RM!IInv, RM!OneHolder, RM!At
<1> QED
  BY <1>1, <1>3, RestoreMoves DEF RM!IInv, RM!MergeShape

LEMMA MergeBegins == ASSUME MergeBounds, RM!IInv, RM!Begin \/ RM!Unseen PROVE RM!IInv'
<1>0. UNCHANGED <<s1, s2, s3, s4, s6, s7>> /\ DOMAIN s5 = DOMAIN RM!NoTxn
  BY DEF RM!IInv, RM!MergeShape, RM!Begin, RM!Unseen
<1>1. /\ s5.pc \in {"idle", "unseen"} /\ s5'.pc \in {"unseen", "claim"} /\ DOMAIN s5' = DOMAIN s5
      /\ s5'.unseen \subseteq RM!BackupIds
      /\ s5'.wanted = s5.wanted /\ s5'.added = s5.added /\ s5'.claimed = s5.claimed
      /\ s5'.standins = s5.standins /\ s5'.removed = s5.removed /\ s5'.kids = s5.kids
  <2>1. CASE RM!Begin
    BY <1>0, <2>1, MergeDomain DEF RM!IInv, RM!MergeShape, RM!Begin
  <2>2. CASE RM!Unseen
    BY <1>0, <2>2, MergeDomain DEF RM!IInv, RM!MergeShape, RM!Unseen, RM!Batch
  <2> QED
    BY <2>1, <2>2
<1>2. RM!KidsOfAdded'
  BY <1>0, <1>1 DEF RM!IInv, RM!KidsOfAdded
<1> QED
  BY <1>0, <1>1, <1>2, RestoreRests DEF RM!IInv, RM!MergeShape

(* Analyses get numbers of their own.                                      *)
LEMMA NumbersApart ==
    ASSUME MergeBounds, RM!IInv
    PROVE  /\ Cardinality(RM!Restored) \in Nat
           /\ \A a \in RM!Restored : RM!NewNumber(a) \in Nat
           /\ \A a, b \in RM!Restored : a # b => RM!NewNumber(a) # RM!NewNumber(b)
<1> DEFINE Before(a) == {b \in RM!Restored : b < a}
<1>1. RM!Restored \subseteq Nat /\ IsFiniteSet(RM!Restored)
  BY MergeIds, FS_Subset DEF RM!Restored
<1>2. \A a : IsFiniteSet(Before(a)) /\ Cardinality(Before(a)) \in Nat
  BY <1>1, FS_Subset, FS_CardinalityType
<1>3. s4 \in Nat /\ \A a : RM!NewNumber(a) = s4 + Cardinality(Before(a))
  BY CardMerge DEF RM!IInv, RM!MergeShape, RM!NewNumber
<1>4. ASSUME NEW a \in RM!Restored, NEW b \in RM!Restored, a < b
      PROVE  Cardinality(Before(a)) # Cardinality(Before(b))
  <2>1. a \in Nat /\ b \in Nat /\ \A x \in RM!Restored : x \in Nat
    BY <1>1
  <2>2. \A x \in RM!Restored : x < a => x < b
    BY <1>4, <2>1
  <2>3. Before(a) \subseteq Before(b)
    BY <2>2
  <2>4. a \in Before(b) /\ a \notin Before(a)
    BY <1>4, <2>1
  <2> HIDE DEF Before
  <2> QED
    BY <1>2, <2>3, <2>4, FS_Subset
<1> HIDE DEF Before
<1>5. \A a, b \in RM!Restored : a # b => RM!NewNumber(a) # RM!NewNumber(b)
  <2> TAKE a, b \in RM!Restored
  <2>1. CASE a < b
    BY <1>2, <1>3, <1>4, <2>1
  <2>2. CASE b < a
    BY <1>2, <1>3, <1>4, <2>2
  <2> QED
    BY <1>1, <2>1, <2>2
<1>6. Cardinality(RM!Restored) \in Nat
  BY <1>1, FS_CardinalityType
<1> QED
  BY <1>2, <1>3, <1>5, <1>6

LEMMA MergeAnalyses == ASSUME MergeBounds, RM!IInv, RM!Analyses PROVE RM!IInv'
<1> DEFINE Kid(a) == [clip |-> a, is |-> "analysis", analysis |-> RM!NewNumber(a)]
<1>1. /\ UNCHANGED <<s1, s2, s3, s6, s7>> /\ s5.pc = "children"
      /\ s5'.pc = "feedback" /\ DOMAIN s5' = DOMAIN RM!NoTxn
      /\ s5'.unseen = s5.unseen
      /\ s5'.wanted = s5.wanted /\ s5'.added = s5.added /\ s5'.claimed = s5.claimed
      /\ s5'.standins = s5.standins /\ s5'.removed = s5.removed
      /\ s5'.number = [a \in RM!BackupIds |-> IF a \in RM!Restored THEN RM!NewNumber(a) ELSE 0]
      /\ s5'.kids = {Kid(a) : a \in RM!Restored}
  BY MergeDomain DEF RM!IInv, RM!MergeShape, RM!Analyses
<1>2. s4' \in Nat
  BY NumbersApart, CardMerge DEF RM!IInv, RM!MergeShape, RM!Analyses
<1>3. \A a : Kid(a).clip = a /\ Kid(a).is = "analysis" /\ Kid(a).analysis = RM!NewNumber(a)
  OBVIOUS
<1>4. RM!Restored \subseteq s5.added /\ RM!Restored \subseteq RM!BackupIds /\ MergeAnalysed \subseteq RM!BackupIds
  BY MergeIds DEF RM!Restored
<1>5. \A i \in MergeAnalysed : s5'.number[i] # 0 =>
         [clip |-> i, is |-> "analysis", analysis |-> s5'.number[i]] \in s5'.kids
  BY <1>1, <1>4
<1> HIDE DEF Kid
<1>6. RM!KidsOfAdded'
  <2>1. \A k \in s5'.kids : k.clip \in s5'.added /\ k.is = "analysis"
    BY <1>1, <1>3, <1>4
  <2>2. \A j, k \in s5'.kids : j.clip # k.clip => j.analysis # k.analysis
    BY <1>1, <1>3, NumbersApart
  <2>3. \A k \in s5'.kids : k.is # "feedback"
    BY <2>1
  <2> QED
    BY <1>1, <1>5, <2>1, <2>2, <2>3 DEF RM!KidsOfAdded
<1> QED
  BY <1>1, <1>2, <1>6, RestoreRests DEF RM!IInv, RM!MergeShape

LEMMA MergeFeedback == ASSUME MergeBounds, RM!IInv, RM!Feedback PROVE RM!IInv'
<1> DEFINE Num(i) == RM!Renumbered(RM!AnalysisOf(i))
           Opinion(i) == [clip |-> i, is |-> "feedback", analysis |-> Num(i)]
<1>1. /\ UNCHANGED <<s1, s2, s3, s4, s6, s7>> /\ s5.pc = "feedback"
      /\ s5'.pc = "commit" /\ DOMAIN s5' = DOMAIN RM!NoTxn
      /\ s5'.unseen = s5.unseen
      /\ s5'.wanted = s5.wanted /\ s5'.added = s5.added /\ s5'.claimed = s5.claimed
      /\ s5'.standins = s5.standins /\ s5'.removed = s5.removed
      /\ s5'.kids = s5.kids \cup {Opinion(i) : i \in s5.added}
  BY MergeDomain DEF RM!IInv, RM!MergeShape, RM!Feedback
<1>2. \A i : Opinion(i).clip = i /\ Opinion(i).is = "feedback" /\ Opinion(i).analysis = Num(i)
  OBVIOUS
<1>3. \A i : Num(i) # 0 => i \in MergeAnalysed /\ Num(i) = s5.number[i]
  BY DEF RM!Renumbered, RM!AnalysisOf
<1> HIDE DEF Num, Opinion
<1>4. /\ \A k \in s5.kids : k.clip \in s5.added /\ k.is = "analysis"
      /\ \A j, k \in s5.kids : j.clip # k.clip => j.analysis # k.analysis
      /\ \A i \in MergeAnalysed : s5.number[i] # 0 =>
           [clip |-> i, is |-> "analysis", analysis |-> s5.number[i]] \in s5.kids
  BY <1>1 DEF RM!IInv, RM!KidsOfAdded
<1>5. \A k \in s5'.kids : k \in s5.kids \/ (k.is = "feedback" /\ k.clip \in s5.added /\ k.analysis = Num(k.clip))
  BY <1>1, <1>2
<1>6. \A k \in s5'.kids : k.clip \in s5'.added
  BY <1>1, <1>4, <1>5
<1>7. \A k \in s5'.kids : k.is = "analysis" => k \in s5.kids
  BY <1>5
<1>8. \A k \in s5'.kids : k.is = "feedback" /\ k.analysis # 0 =>
         [clip |-> k.clip, is |-> "analysis", analysis |-> k.analysis] \in s5'.kids
  BY <1>1, <1>3, <1>4, <1>5
<1>9. RM!KidsOfAdded'
  BY <1>1, <1>4, <1>6, <1>7, <1>8 DEF RM!KidsOfAdded
<1> QED
  BY <1>1, <1>9, RestoreRests DEF RM!IInv, RM!MergeShape

(* What is claimed has no holder but stand-ins nobody added anything to.   *)
LEMMA MergeClaims == ASSUME MergeBounds, RM!IInv, RM!Claim PROVE RM!IInv'
<1> DEFINE wanted == {i \in s5.unseen : RM!Wanted(i)}
           paths  == {s1[i] : i \in wanted}
<1>1. /\ UNCHANGED <<s1, s2, s3, s4, s6, s7>> /\ s5.pc = "claim"
      /\ s5'.pc = "store" /\ DOMAIN s5' = DOMAIN RM!NoTxn
      /\ s5'.unseen = s5.unseen /\ s5'.wanted = wanted
      /\ s5'.claimed = s5.claimed \cup paths
      /\ s5'.standins = UNION {RM!At(RM!Seen, p) : p \in paths}
      /\ s5'.added = s5.added /\ s5'.removed = s5.removed /\ s5'.kids = s5.kids
  BY MergeDomain DEF RM!IInv, RM!MergeShape, RM!Claim
<1>2. wanted \subseteq RM!BackupIds /\ paths \subseteq MergePaths
  BY DEF RM!IInv, RM!MergeShape
<1>3. \A h \in s5'.standins : h = RM!Scan /\ ~s2[h].marked
  <2> SUFFICES ASSUME NEW i \in wanted, NEW h \in RM!At(RM!Seen, s1[i])
               PROVE  h = RM!Scan /\ ~s2[h].marked
    BY <1>1
  <2>1. h = RM!Scan /\ ~RM!Seen[h].marked
    BY DEF RM!Wanted, RM!Replaceable
  <2>2. h \in RM!Ids /\ h \notin s5.added
    BY <2>1, MergeIds DEF RM!IInv, RM!MergeShape
  <2>3. h \notin s5.removed
    BY <1>2, <2>2, RowsSeen DEF RM!IInv
  <2> QED
    BY <2>1, <2>2, <2>3 DEF RM!Seen
<1>4. \A i, j \in wanted : s1[i] = s1[j] => i = j
  <2> SUFFICES ASSUME NEW i \in wanted, NEW j \in wanted, i < j PROVE s1[i] # s1[j]
    BY <1>2, MergeIds
  <2> QED
    BY DEF RM!Wanted
<1>5. RM!Seen' = RM!Seen
  BY <1>1 DEF RM!Seen
<1>6. \A i \in wanted : s1[i] \in s5'.claimed /\ RM!At(RM!Seen, s1[i]) \subseteq s5'.standins
  BY <1>1
<1> HIDE DEF wanted, paths
<1>7. RM!OwnAreNew'
  BY <1>1 DEF RM!IInv, RM!OwnAreNew, RM!Present
<1>8. RM!MarkedWereClaimed'
  BY <1>1, <1>3 DEF RM!IInv, RM!MarkedWereClaimed, RM!Present
<1>9. RM!OneHolder'
  BY <1>1, <1>5 DEF RM!IInv, RM!OneHolder, RM!At
<1>10. RM!StoredAlone'
  BY <1>1, <1>4, <1>5, <1>6 DEF RM!StoredAlone, RM!At
<1>11. RM!KidsOfAdded'
  BY <1>1 DEF RM!IInv, RM!KidsOfAdded
<1>12. s5'.wanted \subseteq RM!BackupIds /\ s5'.claimed \subseteq MergePaths /\ s5'.standins \subseteq {RM!Scan}
  BY <1>1, <1>2, <1>3 DEF RM!IInv, RM!MergeShape
<1> QED
  BY <1>1, <1>7, <1>8, <1>9, <1>10, <1>11, <1>12, RestoreMoves DEF RM!IInv, RM!MergeShape

(* What is stored stands alone: the stand-ins of its file are removed, and *)
(* no two clips are stored for one file.                                   *)
LEMMA MergeStores == ASSUME MergeBounds, RM!IInv, RM!Store PROVE RM!IInv'
<1>1. /\ UNCHANGED <<s1, s2, s3, s4, s6, s7>> /\ s5.pc = "store"
      /\ s5'.pc \in {"unseen", "children"} /\ DOMAIN s5' = DOMAIN RM!NoTxn
      /\ s5'.unseen = s5.unseen /\ s5'.wanted = s5.wanted /\ s5'.claimed = s5.claimed
      /\ s5'.standins = s5.standins /\ s5'.kids = s5.kids
      /\ s5'.added = s5.added \cup {i \in s5.wanted : s2[i] = RM!Absent}
      /\ s5'.removed = s5.removed \cup (s5.standins \cap RM!Present(s2))
  BY MergeDomain DEF RM!IInv, RM!MergeShape, RM!Store, RM!Inserted
<1>2. s5'.added \subseteq RM!BackupIds /\ s5'.removed \subseteq {RM!Scan}
  BY <1>1 DEF RM!IInv, RM!MergeShape
<1>3. RM!OwnAreNew'
  <2>1. \A i \in s5.wanted : s1[i] \in s5.claimed
    BY <1>1 DEF RM!IInv, RM!StoredAlone
  <2> QED
    BY <1>1, <2>1 DEF RM!IInv, RM!OwnAreNew, RM!Present
<1>4. RM!MarkedWereClaimed'
  BY <1>1 DEF RM!IInv, RM!MarkedWereClaimed, RM!Present
<1>5. RM!KidsOfAdded'
  BY <1>1 DEF RM!IInv, RM!KidsOfAdded
<1>6. RM!MergeShape'
  BY <1>1, <1>2 DEF RM!IInv, RM!MergeShape
<1>7. ASSUME ~s7, NEW p \in MergePaths, NEW g \in RM!At(RM!Seen, p)', NEW h \in RM!At(RM!Seen, p)'
      PROVE  g = h
  <2>1. CASE \E i \in s5.wanted : s1[i] = p
    <3>1. PICK i \in s5.wanted : s1[i] = p
      BY <2>1
    <3>2. \A k \in RM!At(RM!Seen, p) : k = RM!Scan /\ k \in s5.standins
      BY <1>1, <1>7, <3>1 DEF RM!IInv, RM!StoredAlone, RM!MergeShape
    <3>3. ASSUME NEW k \in RM!At(RM!Seen, p)' PROVE k = i
      <4>1. CASE k \in s5.added
        <5>1. k \in RM!At(RM!Seen, p)
          BY <1>1, <1>6, <3>3, <4>1, RowsSeen, RowsSeenNext DEF RM!IInv
        <5> QED
          BY <3>2, <4>1, <5>1, MergeIds DEF RM!IInv, RM!MergeShape
      <4>2. CASE k \notin s5'.added
        <5>1. k \in RM!Ids /\ k \notin s5'.removed /\ s2[k].path = p
          BY <1>1, <1>6, <3>3, <4>2, RowsSeenNext
        <5>2. k \in RM!At(RM!Seen, p)
          BY <1>1, <4>2, <5>1, RowsSeen DEF RM!IInv
        <5>3. k \in RM!Present(s2)
          BY <5>1 DEF RM!Present, RM!Absent, MergeBounds
        <5> QED
          BY <1>1, <3>2, <5>1, <5>2, <5>3
      <4>3. CASE k \in s5.wanted /\ k \in s5'.added
        <5>1. s1[k] = p
          BY <1>1, <1>6, <3>3, <4>3, RowsSeenNext
        <5> QED
          BY <1>1, <3>1, <4>3, <5>1 DEF RM!IInv, RM!StoredAlone
      <4> QED
        BY <1>1, <4>1, <4>2, <4>3
    <3> QED
      BY <3>3
  <2>2. CASE \A i \in s5.wanted : s1[i] # p
    <3>1. ASSUME NEW k \in RM!At(RM!Seen, p)' PROVE k \in RM!At(RM!Seen, p)
      BY <1>1, <1>6, <2>2, <3>1, RowsSeen, RowsSeenNext DEF RM!IInv
    <3>2. g \in RM!At(RM!Seen, p) /\ h \in RM!At(RM!Seen, p)
      BY <3>1
    <3> QED
      BY <1>7, <3>2 DEF RM!IInv, RM!OneHolder
  <2> QED
    BY <2>1, <2>2
<1>8. RM!OneHolder'
  BY <1>1, <1>7 DEF RM!IInv, RM!OneHolder, RM!At
<1>9. RM!StoredAlone'
  BY <1>1 DEF RM!StoredAlone
<1> QED
  BY <1>1, <1>2, <1>3, <1>4, <1>5, <1>8, <1>9, RestoreMoves DEF RM!IInv, RM!MergeShape

(* What others do to one row while the transaction waits.                  *)
LEMMA OthersMove ==
    ASSUME MergeBounds, RM!IInv, UNCHANGED <<s1, s4, s5>>, RM!MergeShape', RM!MergeTypeOK', RM!ChildrenFollow',
           RM!OwnAreNew', RM!MarkedWereClaimed', RM!OneHolder',
           s3' \subseteq s3,
           RM!StoredAlone'
    PROVE  RM!IInv'
BY DEF RM!IInv, RM!OnlyWhileActive, RM!Active, RM!KidsOfAdded, RM!KidsAreCommitted

(* A record is saved: of a file that has none here, and whose clip the     *)
(* restore has not added.                                                  *)
LEMMA RecordSaved ==
    ASSUME MergeBounds, RM!IInv, NEW i \in RM!Ids, NEW p \in MergePaths,
           s2[i] = RM!Absent, RM!At(s2, p) = {}, i \notin s5.added,
           s2' = [s2 EXCEPT ![i] = RM!Row(p, "here")],
           s7' = (s7 \/ p \in s5.claimed), UNCHANGED <<s1, s3, s4, s5, s6>>
    PROVE  RM!IInv'
<1>1. /\ RM!Row(p, "here") \in [path : MergePaths \cup {"none"}, by : {"nobody", "here", "backup"}, marked : BOOLEAN]
      /\ RM!Row(p, "here").path = p /\ RM!Row(p, "here") # RM!Absent /\ ~RM!Row(p, "here").marked
  BY DEF RM!Row, RM!Absent, MergeBounds
<1>2. s2 \in [RM!Ids -> [path : MergePaths \cup {"none"}, by : {"nobody", "here", "backup"}, marked : BOOLEAN]]
  BY DEF RM!IInv, RM!MergeShape
<1>3. /\ s2' \in [RM!Ids -> [path : MergePaths \cup {"none"}, by : {"nobody", "here", "backup"}, marked : BOOLEAN]]
      /\ s2'[i] = RM!Row(p, "here") /\ \A h \in RM!Ids : h # i => s2'[h] = s2[h]
  BY <1>1, <1>2
<1>4. RM!MergeShape'
  BY <1>3 DEF RM!IInv, RM!MergeShape
<1>5. \A k \in s3 : k.clip \in RM!Ids /\ k.clip # i
  BY MergeIds DEF RM!IInv, RM!MergeShape, RM!MergeTypeOK
<1>6. RM!MergeTypeOK' /\ RM!ChildrenFollow'
  BY <1>1, <1>3, <1>5 DEF RM!IInv, RM!MergeTypeOK, RM!ChildrenFollow
<1>7. RM!OwnAreNew'
  BY <1>1, <1>3 DEF RM!IInv, RM!OwnAreNew, RM!Present
<1>8. RM!MarkedWereClaimed'
  BY <1>1, <1>3 DEF RM!IInv, RM!MarkedWereClaimed, RM!Present
<1>9. \A q \in MergePaths : RM!At(s2, q)' \subseteq RM!At(s2, q) \cup (IF q = p THEN {i} ELSE {})
  BY <1>1, <1>3 DEF RM!At
<1>10. \A q \in MergePaths : RM!At(RM!Seen, q)' \subseteq RM!At(RM!Seen, q) \cup (IF q = p THEN {i} ELSE {})
  <2> SUFFICES ASSUME NEW q \in MergePaths, NEW h \in RM!At(RM!Seen, q)', h # i \/ q # p
               PROVE  h \in RM!At(RM!Seen, q)
    BY <1>4, MergeIds, RowsSeenNext DEF RM!IInv, RM!MergeShape
  <2> QED
    BY <1>1, <1>3, <1>4, RowsSeen, RowsSeenNext DEF RM!IInv
<1>11. p \notin s5.claimed => RM!At(RM!Seen, p) = {}
  <2> SUFFICES ASSUME p \notin s5.claimed, NEW h \in RM!At(RM!Seen, p) PROVE FALSE
    OBVIOUS
  <2>1. h \notin s5.added
    BY RowsSeen DEF RM!IInv, RM!OwnAreNew
  <2> QED
    BY <2>1, RowsSeen DEF RM!IInv, RM!At
<1>12. RM!OneHolder'
  <2> SUFFICES ASSUME ~s7', NEW q \in MergePaths
               PROVE  /\ \A g, h \in RM!At(s2, q)' : g = h
                      /\ \A g, h \in RM!At(RM!Seen, q)' : g = h
    BY DEF RM!OneHolder
  <2>1. ~s7 /\ p \notin s5.claimed
    OBVIOUS
  <2>2. CASE q = p
    <3>1. RM!At(s2, q)' \subseteq {i} /\ RM!At(RM!Seen, q)' \subseteq {i}
      BY <1>9, <1>10, <1>11, <2>1, <2>2
    <3> QED
      BY <3>1
  <2>3. CASE q # p
    <3>1. RM!At(s2, q)' \subseteq RM!At(s2, q) /\ RM!At(RM!Seen, q)' \subseteq RM!At(RM!Seen, q)
      BY <1>9, <1>10, <2>3
    <3> QED
      BY <2>1, <3>1 DEF RM!IInv, RM!OneHolder
  <2> QED
    BY <2>2, <2>3
<1>13. RM!StoredAlone'
  <2> SUFFICES ASSUME s5.pc = "store", ~s7', NEW j \in s5.wanted
               PROVE  RM!At(RM!Seen, s1[j])' \subseteq s5.standins
    BY DEF RM!IInv, RM!StoredAlone
  <2>1. ~s7 /\ p \notin s5.claimed /\ s1[j] \in s5.claimed /\ s1[j] \in MergePaths
    BY DEF RM!IInv, RM!StoredAlone, RM!MergeShape
  <2> QED
    BY <1>10, <2>1 DEF RM!IInv, RM!StoredAlone
<1> QED
  BY <1>4, <1>6, <1>7, <1>8, <1>12, <1>13, OthersMove

LEMMA MergeSaves ==
    ASSUME MergeBounds, RM!IInv,
           (\E i \in RM!BackupIds : RM!Download(i)) \/ (\E p \in MergePaths : RM!ScanFile(p))
    PROVE  RM!IInv'
<1>1. /\ ~RM!Active => s5.added = {} /\ s5.claimed = {}
      /\ RM!Scan \notin s5.added
  BY MergeIds DEF RM!IInv, RM!OnlyWhileActive, RM!MergeShape
<1>2. ASSUME NEW i \in RM!BackupIds, RM!Download(i) PROVE RM!IInv'
  <2>1. s1[i] \in MergePaths /\ i \in RM!Ids
    BY MergeIds DEF RM!IInv, RM!MergeShape
  <2> QED
    BY <1>1, <1>2, <2>1, RecordSaved DEF RM!Download, RM!Note
<1>3. ASSUME NEW p \in MergePaths, RM!ScanFile(p) PROVE RM!IInv'
  BY <1>1, <1>3, MergeIds, RecordSaved DEF RM!ScanFile, RM!Note
<1> QED
  BY <1>2, <1>3

(* A stand-in is starred: the restore that has claimed it is told too late.*)
LEMMA MergeMark == ASSUME MergeBounds, RM!IInv, RM!Mark PROVE RM!IInv'
<1>1. s2 \in [RM!Ids -> [path : MergePaths \cup {"none"}, by : {"nobody", "here", "backup"}, marked : BOOLEAN]]
  BY DEF RM!IInv, RM!MergeShape
<1>2. /\ s2' \in [RM!Ids -> [path : MergePaths \cup {"none"}, by : {"nobody", "here", "backup"}, marked : BOOLEAN]]
      /\ s2'[RM!Scan].path = s2[RM!Scan].path /\ s2'[RM!Scan].by = s2[RM!Scan].by
      /\ s2[RM!Scan] # RM!Absent /\ s2'[RM!Scan] # RM!Absent
      /\ \A h \in RM!Ids : h # RM!Scan => s2'[h] = s2[h]
  <2>1. RM!Scan \in RM!Ids
    BY MergeIds
  <2>2. s2'[RM!Scan] = [s2[RM!Scan] EXCEPT !.marked = TRUE]
    BY <1>1, <2>1 DEF RM!Mark
  <2>3. s2'[RM!Scan].marked = TRUE
    BY <1>1, <2>1, <2>2
  <2>4. /\ s2' \in [RM!Ids -> [path : MergePaths \cup {"none"}, by : {"nobody", "here", "backup"}, marked : BOOLEAN]]
        /\ \A h \in RM!Ids : h # RM!Scan => s2'[h] = s2[h]
    BY <1>1, <2>1 DEF RM!Mark
  <2>5. s2'[RM!Scan].path = s2[RM!Scan].path /\ s2'[RM!Scan].by = s2[RM!Scan].by
    BY <1>1, <2>1, <2>2
  <2>6. s2[RM!Scan] # RM!Absent /\ s2'[RM!Scan] # RM!Absent
    BY <2>3 DEF RM!Mark, RM!Absent, RM!Present
  <2> QED
    BY <2>4, <2>5, <2>6
<1>3. /\ UNCHANGED <<s1, s3, s4, s5, s7>> /\ RM!Scan \notin s5.removed
      /\ s6' = IF RM!Scan \in s5.standins THEN {RM!Scan} ELSE s6
  BY DEF RM!Mark, RM!IInv, RM!OnlyWhileActive
<1>4. RM!MergeShape'
  BY <1>2, <1>3 DEF RM!IInv, RM!MergeShape
<1>5. \A h \in RM!Ids : s2'[h].path = s2[h].path /\ s2'[h].by = s2[h].by /\ (s2'[h] = RM!Absent <=> s2[h] = RM!Absent)
  BY <1>2
<1>6. \A k \in s3 : k.clip \in RM!Ids
  BY MergeIds DEF RM!IInv, RM!MergeShape
<1>7. RM!MergeTypeOK' /\ RM!ChildrenFollow' /\ RM!OwnAreNew'
  BY <1>3, <1>5, <1>6 DEF RM!IInv, RM!MergeTypeOK, RM!ChildrenFollow, RM!OwnAreNew, RM!Present
<1>8. RM!MarkedWereClaimed'
  BY <1>2, <1>3 DEF RM!IInv, RM!MergeShape, RM!MarkedWereClaimed, RM!Present
<1>9. \A q \in MergePaths : RM!At(s2, q)' = RM!At(s2, q) /\ RM!At(RM!Seen, q)' = RM!At(RM!Seen, q)
  <2> TAKE q \in MergePaths
  <2>1. RM!At(s2, q)' = RM!At(s2, q)
    BY <1>5 DEF RM!At
  <2>2. \A h : h \in RM!At(RM!Seen, q)' <=> h \in RM!At(RM!Seen, q)
    BY <1>3, <1>4, <1>5, RowsSeen, RowsSeenNext DEF RM!IInv
  <2> QED
    BY <2>1, <2>2
<1>10. RM!OneHolder'
  BY <1>3, <1>9 DEF RM!IInv, RM!OneHolder
<1>11. RM!StoredAlone'
  <2>1. \A i \in s5.wanted : s1[i] \in MergePaths
    BY DEF RM!IInv, RM!MergeShape
  <2> QED
    BY <1>3, <1>9, <2>1 DEF RM!IInv, RM!StoredAlone
<1> QED
  BY <1>3, <1>4, <1>7, <1>8, <1>10, <1>11, OthersMove

(* A deleted clip takes with it what belongs to it.                        *)
LEMMA MergeDelete == ASSUME MergeBounds, RM!IInv, NEW i \in RM!Ids, RM!Delete(i) PROVE RM!IInv'
<1>1. /\ UNCHANGED <<s1, s4, s5, s6, s7>> /\ s3' = {k \in s3 : k.clip # i}
      /\ i \notin s5.removed
      /\ s2' = [s2 EXCEPT ![i] = RM!Absent]
  BY DEF RM!Delete, RM!Cascade, RM!IInv, RM!OnlyWhileActive
<1>2. RM!Absent \in [path : MergePaths \cup {"none"}, by : {"nobody", "here", "backup"}, marked : BOOLEAN]
      /\ RM!Absent.path = "none"
  BY DEF RM!Absent
<1>3. /\ s2' \in [RM!Ids -> [path : MergePaths \cup {"none"}, by : {"nobody", "here", "backup"}, marked : BOOLEAN]]
      /\ s2'[i] = RM!Absent /\ \A h \in RM!Ids : h # i => s2'[h] = s2[h]
  BY <1>1, <1>2 DEF RM!IInv, RM!MergeShape
<1>4. RM!MergeShape'
  BY <1>1, <1>3 DEF RM!IInv, RM!MergeShape
<1>5. \A k \in s3' : k \in s3 /\ k.clip \in RM!Ids /\ k.clip # i
  BY <1>1, MergeIds DEF RM!IInv, RM!MergeShape
<1>6. RM!MergeTypeOK'
  BY <1>3, <1>5 DEF RM!IInv, RM!MergeTypeOK
<1>7. RM!ChildrenFollow'
  <2> SUFFICES ASSUME NEW k \in s3'
               PROVE  /\ s2'[k.clip].by = "backup"
                      /\ k.is = "feedback" /\ k.analysis # 0 =>
                           [clip |-> k.clip, is |-> "analysis", analysis |-> k.analysis] \in s3'
    BY DEF RM!ChildrenFollow
  <2>1. s2[k.clip].by = "backup"
    BY <1>5 DEF RM!IInv, RM!ChildrenFollow
  <2>2. k.is = "feedback" /\ k.analysis # 0 =>
           [clip |-> k.clip, is |-> "analysis", analysis |-> k.analysis] \in s3
    BY <1>5 DEF RM!IInv, RM!ChildrenFollow
  <2>3. [clip |-> k.clip, is |-> "analysis", analysis |-> k.analysis].clip # i
    BY <1>5
  <2> QED
    BY <1>1, <1>3, <1>5, <2>1, <2>2, <2>3
<1>8. RM!OwnAreNew' /\ RM!MarkedWereClaimed'
  BY <1>1, <1>3 DEF RM!IInv, RM!OwnAreNew, RM!MarkedWereClaimed, RM!Present, RM!MergeShape
<1>9. \A q \in MergePaths : RM!At(s2, q)' \subseteq RM!At(s2, q) /\ RM!At(RM!Seen, q)' \subseteq RM!At(RM!Seen, q)
  <2> TAKE q \in MergePaths
  <2>1. RM!At(s2, q)' \subseteq RM!At(s2, q)
    BY <1>2, <1>3 DEF RM!At, MergeBounds
  <2>2. \A h : h \in RM!At(RM!Seen, q)' => h \in RM!At(RM!Seen, q)
    BY <1>1, <1>2, <1>3, <1>4, RowsSeen, RowsSeenNext DEF RM!IInv, MergeBounds
  <2> QED
    BY <2>1, <2>2
<1>10. RM!OneHolder'
  BY <1>1, <1>9 DEF RM!IInv, RM!OneHolder
<1>11. RM!StoredAlone'
  <2>1. \A j \in s5.wanted : s1[j] \in MergePaths
    BY DEF RM!IInv, RM!MergeShape
  <2> QED
    BY <1>1, <1>9, <2>1 DEF RM!IInv, RM!StoredAlone
<1> QED
  BY <1>1, <1>4, <1>6, <1>7, <1>8, <1>10, <1>11, OthersMove

(* The commit makes of what the restore saw what everyone sees.            *)
LEMMA MergeEnds == ASSUME MergeBounds, RM!IInv, RM!Commit \/ RM!Abort PROVE RM!IInv'
<1>1. /\ UNCHANGED <<s1, s4, s6, s7>> /\ s5' = [RM!NoTxn EXCEPT !.pc = "done"] /\ s3 = {}
  BY DEF RM!Commit, RM!Abort, RM!IInv, RM!KidsAreCommitted
<1>2. /\ DOMAIN s5' = DOMAIN RM!NoTxn /\ s5'.pc = "done"
      /\ s5'.unseen = {} /\ s5'.wanted = {} /\ s5'.added = {} /\ s5'.claimed = {}
      /\ s5'.standins = {} /\ s5'.removed = {} /\ s5'.kids = {}
  BY <1>1 DEF RM!NoTxn
<1>3. (s2' = s2 /\ s3' = s3) \/ (s2' = RM!Seen /\ s3' = s5.kids /\ s5.pc = "commit")
  BY <1>1 DEF RM!Commit, RM!Abort
<1>4. /\ RM!Seen \in [RM!Ids -> [path : MergePaths \cup {"none"}, by : {"nobody", "here", "backup"}, marked : BOOLEAN]]
      /\ \A i \in RM!Ids : RM!Seen[i] # RM!Absent => RM!Seen[i].path \in MergePaths
      /\ \A i \in s5.added : RM!Seen[i] # RM!Absent /\ RM!Seen[i].by = "backup"
  <2>1. \A p \in MergePaths :
           /\ RM!Row(p, "backup") \in [path : MergePaths \cup {"none"}, by : {"nobody", "here", "backup"}, marked : BOOLEAN]
           /\ RM!Row(p, "backup").path = p /\ RM!Row(p, "backup").by = "backup" /\ RM!Row(p, "backup") # RM!Absent
    BY DEF RM!Row, RM!Absent
  <2>2. RM!Absent \in [path : MergePaths \cup {"none"}, by : {"nobody", "here", "backup"}, marked : BOOLEAN]
    BY DEF RM!Absent
  <2>3. \A i \in s5.added : i \in RM!Ids /\ s1[i] \in MergePaths
    BY MergeIds DEF RM!IInv, RM!MergeShape
  <2>4. \A i \in RM!Ids : s2[i] # RM!Absent => s2[i].path \in MergePaths
    BY DEF RM!IInv, RM!MergeTypeOK
  <2>5. s2 \in [RM!Ids -> [path : MergePaths \cup {"none"}, by : {"nobody", "here", "backup"}, marked : BOOLEAN]]
    BY DEF RM!IInv, RM!MergeShape
  <2> QED
    BY <2>1, <2>2, <2>3, <2>4, <2>5 DEF RM!Seen
<1>5. \A k \in s5.kids : k.clip \in s5.added /\ k.clip \in RM!BackupIds
  BY DEF RM!IInv, RM!KidsOfAdded, RM!MergeShape
<1>6. RM!MergeShape'
  BY <1>1, <1>2, <1>3, <1>4, <1>5 DEF RM!IInv, RM!MergeShape
<1>7. RM!MergeTypeOK' /\ RM!ChildrenFollow'
  <2>1. CASE s2' = s2 /\ s3' = s3
    BY <2>1 DEF RM!IInv, RM!MergeTypeOK, RM!ChildrenFollow
  <2>2. CASE s2' = RM!Seen /\ s3' = s5.kids
    BY <1>4, <1>5, <2>2 DEF RM!IInv, RM!KidsOfAdded, RM!MergeTypeOK, RM!ChildrenFollow
  <2> QED
    BY <1>3, <2>1, <2>2
<1>8. RM!Seen' = s2'
  BY <1>2, <1>6 DEF RM!Seen, RM!MergeShape
<1>9. RM!OneHolder'
  BY <1>1, <1>3, <1>8 DEF RM!IInv, RM!OneHolder, RM!At
<1> QED
  BY <1>1, <1>2, <1>6, <1>7, <1>9 DEF RM!IInv, RM!OnlyWhileActive, RM!OwnAreNew, RM!MarkedWereClaimed, RM!StoredAlone,
    RM!KidsOfAdded, RM!KidsAreCommitted

LEMMA MergeStill == RM!IInv /\ UNCHANGED RM!mvars => RM!IInv'
BY DEF RM!mvars, RM!IInv, RM!MergeShape, RM!MergeTypeOK, RM!ChildrenFollow, RM!OnlyWhileActive, RM!Active, RM!OwnAreNew,
    RM!MarkedWereClaimed, RM!OneHolder, RM!StoredAlone, RM!KidsOfAdded, RM!KidsAreCommitted, RM!Present, RM!At, RM!Seen

LEMMA MergeStep == ASSUME MergeBounds, RM!IInv, RM!Next PROVE RM!IInv'
<1>1. CASE RM!Settled
  BY <1>1, MergeStill DEF RM!Settled
<1> QED
  BY <1>1, MergeBegins, MergeClaims, MergeStores, MergeAnalyses, MergeFeedback, MergeEnds, MergeSaves, MergeMark,
     MergeDelete DEF RM!Next

-----------------------------------------------------------------------------
(* Restoring: the staged file, whose own proofs are cited, and the merge.  *)
StagingProofs == INSTANCE RestoreStaging_proofs WITH
    Pieces <- StagePieces, MaxUploads <- StageUploads, MaxFaults <- StageFaults, current <- s1, upload <- s2,
    piece <- s3, slot <- s4, asked <- s5, begun <- s6, faults <- s7

LEMMA SameStaging ==
    /\ RS!Init => StagingProofs!Init
    /\ RS!Next => StagingProofs!Next
<1>1. RS!Init => StagingProofs!Init
  BY DEF RS!NoUpload, StagingProofs!NoUpload, RS!Uploads, StagingProofs!Uploads,
     RS!Requests, StagingProofs!Requests, RS!NoFile, StagingProofs!NoFile,
     RS!Fresh, StagingProofs!Fresh, RS!NoPiece, StagingProofs!NoPiece,
     RS!Free, StagingProofs!Free, RS!Init, StagingProofs!Init
<1>2. RS!Next => StagingProofs!Next
  BY DEF RS!NoUpload, StagingProofs!NoUpload, RS!Requests,
     StagingProofs!Requests, RS!uvars, StagingProofs!uvars, RS!NoFile,
     StagingProofs!NoFile, RS!NoPiece, StagingProofs!NoPiece, RS!Free,
     StagingProofs!Free, RS!Whole, StagingProofs!Whole, RS!Unlinked,
     StagingProofs!Unlinked, RS!Discard, StagingProofs!Discard, RS!SlotFree,
     StagingProofs!SlotFree, RS!MayBegin, StagingProofs!MayBegin, RS!Begin,
     StagingProofs!Begin, RS!Send, StagingProofs!Send, RS!IsNext,
     StagingProofs!IsNext, RS!Unlocked, StagingProofs!Unlocked, RS!Lock,
     StagingProofs!Lock, RS!Appended, StagingProofs!Appended, RS!Written,
     StagingProofs!Written, RS!WriteFails, StagingProofs!WriteFails,
     RS!Inspect, StagingProofs!Inspect, RS!Verifies, StagingProofs!Verifies,
     RS!Inspected, StagingProofs!Inspected, RS!Confirm,
     StagingProofs!Confirm, RS!Restore, StagingProofs!Restore, RS!Restored,
     StagingProofs!Restored, RS!Drop, StagingProofs!Drop, RS!Rests,
     StagingProofs!Rests, RS!Next, StagingProofs!Next
<1> QED
  BY <1>1, <1>2

LEMMA SameStagingProperties ==
    /\ StagingProofs!StagingTypeOK => RS!StagingTypeOK
    /\ StagingProofs!PiecesInOrder => RS!PiecesInOrder
    /\ StagingProofs!OnlyCheckedIsRestored => RS!OnlyCheckedIsRestored
    /\ StagingProofs!DiscardsItsOwn => RS!DiscardsItsOwn
BY DEF RS!NoUpload, StagingProofs!NoUpload, RS!Uploads, StagingProofs!Uploads,
     RS!Requests, StagingProofs!Requests, RS!NoFile, StagingProofs!NoFile,
     RS!Free, StagingProofs!Free, RS!Whole, StagingProofs!Whole,
     RS!Unlinked, StagingProofs!Unlinked, RS!Discard, StagingProofs!Discard,
     RS!Verifies, StagingProofs!Verifies, RS!Inspected,
     StagingProofs!Inspected, RS!Restored, StagingProofs!Restored,
     RS!StagingTypeOK, StagingProofs!StagingTypeOK, RS!PiecesInOrder,
     StagingProofs!PiecesInOrder, RS!OnlyCheckedIsRestored,
     StagingProofs!OnlyCheckedIsRestored, RS!DiscardsItsOwn,
     StagingProofs!DiscardsItsOwn

(* A commit touches no record but the stand-ins it had claimed before      *)
(* anything was added to them.                                             *)
LEMMA MergeTouchesNothing == ASSUME MergeBounds, RM!IInv PROVE RM!ChangesNothingHere
<1> SUFFICES ASSUME RM!Commit, NEW i \in RM!Present(s2), ~RM!Replaceable(s2, i), i \notin s6
             PROVE  s2'[i] = s2[i]
  BY DEF RM!ChangesNothingHere
<1>1. i \in RM!Ids /\ i \notin s5.added
  BY DEF RM!IInv, RM!OwnAreNew, RM!Present
<1>2. i \notin s5.removed
  BY DEF RM!IInv, RM!MergeShape, RM!MarkedWereClaimed, RM!Replaceable
<1> QED
  BY <1>1, <1>2 DEF RM!Commit, RM!Seen

LEMMA MergeSafe == ASSUME MergeBounds, RM!IInv PROVE RM!MergeTypeOK /\ RM!OneRecordPerFile /\ RM!ChildrenFollow
<1>1. ASSUME ~s7, NEW p \in MergePaths PROVE RM!Cardinality(RM!At(s2, p)) <= 1
  <2>1. IsFiniteSet(RM!At(s2, p))
    BY MergeIds, FS_Subset DEF RM!At
  <2>2. \A g, h \in RM!At(s2, p) : g = h
    BY <1>1 DEF RM!IInv, RM!OneHolder
  <2> QED
    BY <2>1, <2>2, AtMostOne, CardMerge
<1> QED
  BY <1>1 DEF RM!IInv, RM!OneRecordPerFile

(* RestoreInOrder: whatever pieces are sent twice, late or to a replaced   *)
(* upload, the file that is merged is the one that was checked; and        *)
(* whatever backup it is, in whatever batches it is read and whoever saves,*)
(* stars or deletes clips meanwhile, the merge leaves every record here as *)
(* it is and adds one record for a file, with what belongs to it.          *)
THEOREM RestoreStaysInOrder ==
    ASSUME StagingProofs!Counted, MergeBounds
    PROVE  Spec => RestoreInOrder
<1>1. Init => (which = "staging" => StagingProofs!Init)
  BY SameStaging DEF Init
<1>2. [Next]_bank => /\ which = "staging" => [StagingProofs!Next]_(StagingProofs!uvars)
                     /\ which = "staging" <=> (which = "staging")'
  BY SameStaging DEF Next, bank, StagingProofs!uvars
<1>3. /\ StagingProofs!Spec => []StagingProofs!StagingTypeOK
      /\ StagingProofs!Spec => []StagingProofs!PiecesInOrder
      /\ StagingProofs!Spec => []StagingProofs!OnlyCheckedIsRestored
      /\ StagingProofs!Spec => [][StagingProofs!DiscardsItsOwn]_(StagingProofs!uvars)
  BY StagingProofs!TypeCorrect, StagingProofs!PiecesStayInOrder, StagingProofs!CheckedIsRestored,
     StagingProofs!OwnIsDiscarded
<1>4. Spec => [](which = "staging" => RS!StagingTypeOK /\ RS!PiecesInOrder /\ RS!OnlyCheckedIsRestored)
  BY <1>1, <1>2, <1>3, SameStagingProperties, PTL DEF Spec, StagingProofs!Spec
<1>5. [StagingProofs!DiscardsItsOwn]_(StagingProofs!uvars) => [RS!DiscardsItsOwn]_bank
  <2>1. StagingProofs!uvars' = StagingProofs!uvars => RS!DiscardsItsOwn
    BY DEF StagingProofs!uvars, RS!DiscardsItsOwn
  <2> QED
    BY <2>1, SameStagingProperties
<1>6. Spec => [][which = "staging" => RS!DiscardsItsOwn]_bank
  BY <1>1, <1>2, <1>3, <1>5, PTL DEF Spec, StagingProofs!Spec
<1>7. Init => (which = "merge" => RM!IInv)
  BY MergeInit DEF Init
<1>8. (which = "merge" => RM!IInv) /\ [Next]_bank => (which = "merge" => RM!IInv)'
  BY MergeStep, MergeStill DEF Next, bank, RM!mvars
<1>9. Spec => [](which = "merge" => RM!IInv)
  BY <1>7, <1>8, PTL DEF Spec
<1>10. Spec => [](which = "merge" => RM!MergeTypeOK /\ RM!OneRecordPerFile /\ RM!ChildrenFollow)
  BY <1>9, MergeSafe, PTL
<1>11. (which = "merge" => RM!IInv) => (which = "merge" => RM!ChangesNothingHere)
  BY MergeTouchesNothing
<1>12. Spec => [][which = "merge" => RM!ChangesNothingHere]_bank
  BY <1>9, <1>11, PTL DEF Spec
<1> QED
  BY <1>4, <1>6, <1>10, <1>12, PTL DEF RestoreInOrder

-----------------------------------------------------------------------------
(* Signing in (Login): s1 is connect, s2 the state it shows, s3 the token, *)
(* s4 the device, s5 the code box, s6 what is being sent, s7 the answer,   *)
(* s12 the number of prompts, s13 the logins that were refused.            *)
LEMMA LoginInit == LI!Init => LI!IInv
BY DEF LI!Init, LI!IInv, LI!LoginShape, LI!LoginTypeOK, LI!NoStaleCode, LI!WaitingCodeFits, LI!AnswersAreOfCodes,
    LI!RefusalIsLast, LI!WrittenIsPresented, LI!None, LI!EmptyBox, LI!NotSending, LI!NoResult, LI!Pc

(* Connecting: the id that is presented is the one in the file, if it has  *)
(* one, and becomes it, if it can be written.                              *)
LEMMA ConnectKeeps == LI!IInv /\ LI!Connect => LI!IInv'
<1> SUFFICES ASSUME LI!IInv, LI!Connect PROVE LI!IInv'
  OBVIOUS
<1> USE DEF LI!IInv, LI!LoginShape, LI!Connect, LI!Pc, LI!None
<1>1. /\ LI!DeviceId \in {1, 2}
      /\ s4.file # 0 => LI!DeviceId = s4.file
  BY DEF LI!DeviceId, LI!NewId
<1>2. LI!LoginShape'
  BY <1>1
<1>3. LI!WrittenIsPresented'
  BY <1>1 DEF LI!WrittenIsPresented
<1>4. (LI!LoginTypeOK /\ LI!NoStaleCode /\ LI!WaitingCodeFits /\ LI!AnswersAreOfCodes /\ LI!RefusalIsLast)'
  BY DEF LI!LoginTypeOK, LI!NoStaleCode, LI!WaitingCodeFits, LI!AnswersAreOfCodes, LI!RefusalIsLast
<1> QED
  BY <1>2, <1>3, <1>4

(* A refusal, of a login or of a code: with a token the login is tried     *)
(* afresh, without one it was the last, the first of this process.         *)
LEMMA RefusedIsLast ==
    ASSUME LI!IInv, s1.pc \in {"starting", "sending"}, LI!Refused
    PROVE  /\ s1' \in [pc : {"calling", "locked"}, cached : BOOLEAN]
           /\ s3' \in {0, 1, 2}
           /\ LI!RefusalIsLast'
BY DEF LI!IInv, LI!LoginShape, LI!RefusalIsLast, LI!Refused, LI!AfterRefusal, LI!Goes, LI!None

LEMMA AnswerKeeps == LI!IInv /\ (LI!StartRefused \/ LI!StartFails \/ LI!Started) => LI!IInv'
<1> SUFFICES ASSUME LI!IInv, LI!StartRefused \/ LI!StartFails \/ LI!Started PROVE LI!IInv'
  OBVIOUS
<1> USE DEF LI!Pc, LI!None
<1>1. s1.pc = "starting" /\ s13 = 0
  BY DEF LI!IInv, LI!RefusalIsLast, LI!StartRefused, LI!StartFails, LI!Started
<1>2. /\ s1' \in [pc : {"calling", "locked", "waiting", "connected"}, cached : BOOLEAN]
      /\ s3' \in {0, 1, 2}
      /\ LI!RefusalIsLast'
  <2>1. CASE LI!StartRefused
    BY <1>1, <2>1, RefusedIsLast DEF LI!StartRefused
  <2>2. CASE LI!StartFails \/ LI!Started
    BY <1>1, <2>2 DEF LI!IInv, LI!LoginShape, LI!RefusalIsLast, LI!StartFails, LI!Started, LI!Goes, LI!Connected
  <2> QED
    BY <2>1, <2>2
<1>3. UNCHANGED <<s4, s5, s6, s7, s12>>
  BY DEF LI!StartRefused, LI!StartFails, LI!Started
<1> QED
  BY <1>1, <1>2, <1>3 DEF LI!IInv, LI!LoginShape, LI!LoginTypeOK, LI!NoStaleCode, LI!WaitingCodeFits, LI!AnswersAreOfCodes,
    LI!RefusalIsLast, LI!WrittenIsPresented

(* The box with its code taken out, or with a code put in.                 *)
LEMMA BoxEmptied ==
    ASSUME LI!IInv, s5' = [s5 EXCEPT !.event = "clear", !.typed = 0]
    PROVE  /\ s5' \in [event : {"none", "clear", "set"}, typed : Nat, seq : Nat]
           /\ s5'.event = "clear" /\ s5'.seq = s5.seq
<1>1. s5 \in [event : {"none", "clear", "set"}, typed : Nat, seq : Nat]
  BY DEF LI!IInv, LI!LoginShape
<1>2. s5' = [event |-> "clear", typed |-> 0, seq |-> s5.seq]
  <2>1. DOMAIN s5 = {"event", "typed", "seq"}
    BY <1>1
  <2> QED
    BY <2>1
<1> QED
  BY <1>1, <1>2

(* A prompt opens with an empty box, so that a code typed before it is     *)
(* never sent; what it takes was typed since.                              *)
LEMMA PromptKeeps ==
    LI!IInv /\ (LI!Prompt \/ LI!TakeCode \/ LI!CodeRejected \/ LI!PromptExpires \/ LI!Tick) => LI!IInv'
<1> SUFFICES ASSUME LI!IInv,
                    LI!Prompt \/ LI!TakeCode \/ LI!CodeRejected \/ LI!PromptExpires \/ LI!Tick
             PROVE  LI!IInv'
  OBVIOUS
<1> USE DEF LI!IInv, LI!LoginShape, LI!LoginTypeOK, LI!NoStaleCode, LI!WaitingCodeFits, LI!AnswersAreOfCodes,
    LI!RefusalIsLast, LI!WrittenIsPresented, LI!Pc, LI!Goes, LI!None
<1>1. CASE LI!Prompt
  BY <1>1, BoxEmptied DEF LI!Prompt, LI!FreshBox
<1>2. CASE LI!TakeCode
  <2>1. /\ s1' = [s1 EXCEPT !.pc = "sending"] /\ s1.pc = "prompt"
        /\ UNCHANGED <<s2, s3, s4, s7, s12, s13>>
    BY <1>2 DEF LI!TakeCode
  <2>2. CASE /\ s5.event = "set"
             /\ s6' = [from |-> "web", seq |-> s5.seq, typed |-> s5.typed]
             /\ s5' = [s5 EXCEPT !.event = "clear", !.typed = 0]
    BY <2>1, <2>2, BoxEmptied
  <2>3. CASE /\ s6' = [from |-> "file", seq |-> s5.seq, typed |-> 0]
             /\ s5' = s5
    BY <2>1, <2>3
  <2> QED
    BY <1>2, <2>2, <2>3 DEF LI!TakeCode, LI!AnswerSeq
<1>3. CASE LI!CodeRejected
  BY <1>3 DEF LI!CodeRejected, LI!NotSending
<1>4. CASE LI!PromptExpires
  BY <1>4 DEF LI!PromptExpires
<1>5. CASE LI!Tick
  BY <1>5 DEF LI!Tick
<1> QED
  BY <1>1, <1>2, <1>3, <1>4, <1>5

LEMMA AcceptedKeeps == LI!IInv /\ LI!CodeAccepted => LI!IInv'
<1> SUFFICES ASSUME LI!IInv, LI!CodeAccepted PROVE LI!IInv'
  OBVIOUS
<1> USE DEF LI!Pc, LI!None
<1>1. s1.pc = "sending"
  BY DEF LI!CodeAccepted
<1>2. /\ s1' \in [pc : {"calling", "locked", "connected"}, cached : BOOLEAN]
      /\ s3' \in {0, 1, 2}
      /\ LI!RefusalIsLast'
  <2>1. CASE LI!Refused
    BY <1>1, <2>1, RefusedIsLast
  <2>2. CASE LI!Connected /\ UNCHANGED s13
    BY <1>1, <2>2 DEF LI!IInv, LI!LoginShape, LI!RefusalIsLast, LI!Connected
  <2> QED
    BY <2>1, <2>2 DEF LI!CodeAccepted
<1>3. /\ UNCHANGED <<s4, s5, s12>>
      /\ s6' = LI!NotSending /\ s7' = [seq |-> s6.seq, ok |-> "yes"]
  BY DEF LI!CodeAccepted
<1> QED
  BY <1>1, <1>2, <1>3 DEF LI!IInv, LI!LoginShape, LI!LoginTypeOK, LI!NoStaleCode, LI!WaitingCodeFits, LI!AnswersAreOfCodes,
    LI!RefusalIsLast, LI!WrittenIsPresented, LI!NotSending

(* The application's next attempt, and a restart, which begins afresh but  *)
(* for the two files.                                                      *)
LEMMA AttemptKeeps == LI!IInv /\ (LI!Retry \/ LI!SessionBreaks \/ LI!Restart) => LI!IInv'
<1> SUFFICES ASSUME LI!IInv, LI!Retry \/ LI!SessionBreaks \/ LI!Restart PROVE LI!IInv'
  OBVIOUS
<1> USE DEF LI!IInv, LI!LoginShape, LI!LoginTypeOK, LI!NoStaleCode, LI!WaitingCodeFits, LI!AnswersAreOfCodes,
    LI!RefusalIsLast, LI!WrittenIsPresented, LI!Pc, LI!Goes, LI!None
<1>1. CASE LI!Retry
  BY <1>1 DEF LI!Retry, LI!AfterWait
<1>2. CASE LI!SessionBreaks
  BY <1>2 DEF LI!SessionBreaks
<1>3. CASE LI!Restart
  <2>1. /\ s4' \in [file : {0, 1, 2}, presented : {0, 1, 2}, writable : BOOLEAN]
        /\ LI!WrittenIsPresented'
    <3>1. CASE s4' = s4
      BY <3>1
    <3>2. CASE s4.file = 0 /\ s4' = [s4 EXCEPT !.writable = ~@]
      <4>1. (~s4.writable) \in BOOLEAN
        OBVIOUS
      <4>2. s4'.file = 0 /\ s4'.presented = s4.presented /\ s4' = [s4 EXCEPT !.writable = ~@]
        BY <3>2
      <4>3. s4' \in [file : {0, 1, 2}, presented : {0, 1, 2}, writable : BOOLEAN]
        BY <4>1, <4>2
      <4> QED
        BY <4>2, <4>3
    <3> QED
      BY <1>3, <3>1, <3>2 DEF LI!Restart
  <2> QED
    BY <1>3, <2>1 DEF LI!Restart, LI!EmptyBox, LI!NotSending, LI!NoResult
<1> QED
  BY <1>1, <1>2, <1>3

LEMMA PageKeeps ==
    LI!IInv /\ (LI!Settled \/ LI!Submit \/ LI!WriteFile \/ LI!Poll \/ LI!Reload) => LI!IInv'
<1> SUFFICES ASSUME LI!IInv, LI!Settled \/ LI!Submit \/ LI!WriteFile \/ LI!Poll \/ LI!Reload
             PROVE  LI!IInv'
  OBVIOUS
<1> USE DEF LI!IInv, LI!LoginShape, LI!LoginTypeOK, LI!NoStaleCode, LI!WaitingCodeFits, LI!AnswersAreOfCodes,
    LI!RefusalIsLast, LI!WrittenIsPresented, LI!Pc, LI!None
<1>1. CASE LI!Submit
  <2>1. s5' = [event |-> IF s5.event = "none" THEN "none" ELSE "set", typed |-> s12, seq |-> s5.seq + 1]
    BY <1>1 DEF LI!Submit
  <2>2. UNCHANGED <<s1, s2, s3, s4, s6, s7, s12, s13>>
    BY <1>1 DEF LI!Submit
  <2> QED
    BY <2>1, <2>2
<1>2. CASE LI!Settled \/ LI!WriteFile \/ LI!Poll \/ LI!Reload
  <2>1. UNCHANGED <<s1, s2, s3, s4, s5, s6, s7, s12, s13>>
    BY <1>2 DEF LI!Settled, LI!WriteFile, LI!Poll, LI!Reload, LI!avars
  <2> QED
    BY <2>1
<1> QED
  BY <1>1, <1>2

LEMMA LoginStep == LI!IInv /\ LI!Next => LI!IInv'
BY ConnectKeeps, AnswerKeeps, PromptKeeps, AcceptedKeeps, AttemptKeeps, PageKeeps DEF LI!Next, LI!ConnectStep

(* Blink sees one device: only connecting presents an id, and it presents  *)
(* the one in the file where there is one.                                 *)
LEMMA LoginDevice == LI!IInv /\ [LI!Next]_(LI!avars) => LI!SameDevice
<1> SUFFICES ASSUME LI!IInv, [LI!Next]_(LI!avars), s4'.presented # s4.presented,
                    s4.presented # 0, s4.writable, s4.file # 0
             PROVE  FALSE
  BY DEF LI!SameDevice, LI!None
<1>1. LI!Connect
  <2>1. CASE UNCHANGED s4
    BY <2>1
  <2>2. CASE LI!Restart
    BY <2>2 DEF LI!Restart, LI!None
  <2>3. CASE LI!Next /\ ~LI!Connect /\ ~LI!Restart
    <3>1. UNCHANGED s4
      BY <2>3 DEF LI!Next, LI!ConnectStep, LI!StartRefused, LI!StartFails, LI!Started, LI!Prompt, LI!Retry, LI!TakeCode,
        LI!CodeAccepted, LI!CodeRejected, LI!PromptExpires, LI!Settled, LI!Tick, LI!SessionBreaks, LI!Submit,
        LI!WriteFile, LI!Poll, LI!Reload, LI!avars
    <3> QED
      BY <2>1, <3>1
  <2> QED
    BY <2>1, <2>2, <2>3 DEF LI!avars
<1> QED
  BY <1>1 DEF LI!IInv, LI!LoginShape, LI!WrittenIsPresented, LI!Connect, LI!DeviceId, LI!None

(* LoginInOrder: whatever codes are typed, late, twice or for an earlier   *)
(* prompt, and however logins are refused, retried and restarted, a code   *)
(* goes to Blink for its own prompt, a refused login is not repeated, and  *)
(* Blink sees one device; for any number of codes, prompts and restarts.   *)
THEOREM LoginStaysInOrder == Spec => LoginInOrder
<1>1. Init => (which = "login" => LI!IInv)
  BY LoginInit DEF Init
<1>2. LI!IInv /\ UNCHANGED LI!avars => LI!IInv'
  BY DEF LI!avars, LI!IInv, LI!LoginShape, LI!LoginTypeOK, LI!NoStaleCode, LI!WaitingCodeFits, LI!AnswersAreOfCodes,
    LI!RefusalIsLast, LI!WrittenIsPresented, LI!Pc
<1>3. (which = "login" => LI!IInv) /\ [Next]_bank => (which = "login" => LI!IInv)'
  BY <1>2, LoginStep DEF Next, bank, LI!avars
<1>4. LI!IInv => LI!LoginTypeOK /\ LI!NoStaleCode /\ LI!NoLockout
  BY DEF LI!IInv, LI!RefusalIsLast, LI!NoLockout
<1>5. which = "login" /\ [Next]_bank => [LI!Next]_(LI!avars)
  BY DEF Next, bank, LI!avars
<1>6. (which = "login" => LI!IInv) /\ [Next]_bank => [which = "login" => LI!SameDevice]_bank
  BY <1>5, LoginDevice
<1> QED
  BY <1>1, <1>3, <1>4, <1>6, PTL DEF Spec, LoginInOrder

=============================================================================
